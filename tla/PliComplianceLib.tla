-------------------------- MODULE PliComplianceLib --------------------------
(***************************************************************************)
(* The commands of PliComplianceLib: which fields of simulator_channel each *)
(* of its functions fills before it issues its request.  All of them set   *)
(* pli_dest and pli_cmd and both flags; the two overloads of a function    *)
(* that takes an optional message are two commands here (suffix "Msg").    *)
(***************************************************************************)
Shape(reads, data_in, data_in_2, message) ==
  [reads |-> reads, data_in |-> data_in, data_in_2 |-> data_in_2,
   message |-> message]

Plain       == Shape(FALSE, FALSE, FALSE, FALSE)
Write       == Shape(FALSE, TRUE,  FALSE, FALSE)
WriteMsg    == Shape(FALSE, TRUE,  FALSE, TRUE)
Sampled     == Shape(FALSE, TRUE,  TRUE,  FALSE)
SampledMsg  == Shape(FALSE, TRUE,  TRUE,  TRUE)
Read        == Shape(TRUE,  FALSE, FALSE, FALSE)
ReadAddress == Shape(TRUE,  TRUE,  FALSE, FALSE)
ReadNamed   == Shape(TRUE,  FALSE, FALSE, TRUE)

Shapes == {Plain, Write, WriteMsg, Sampled, SampledMsg, Read, ReadAddress,
           ReadNamed}

ResetAgent ==
  [ResetAgentAssert |-> Plain, ResetAgentDeassert |-> Plain,
   ResetAgentPolaritySet |-> Write, ResetAgentPolarityGet |-> Read]

ClockAgent ==
  [ClockAgentStart |-> Plain, ClockAgentStop |-> Plain,
   ClockAgentSetPeriod |-> Write, ClockAgentGetPeriod |-> Read,
   ClockAgentSetJitter |-> Write, ClockAgentGetJitter |-> Read,
   ClockAgentSetDuty |-> Write, ClockAgentGetDuty |-> Read]

MemBusAgentAccess ==
  [MemBusAgentStart |-> Plain, MemBusAgentStop |-> Plain,
   MemBusAgentWrite32 |-> Write, MemBusAgentWrite16 |-> Write,
   MemBusAgentWrite8 |-> Write, MemBusAgentRead32 |-> ReadAddress,
   MemBusAgentRead16 |-> ReadAddress, MemBusAgentRead8 |-> ReadAddress]

MemBusAgentTiming ==
  [MemBusAgentXModeStart |-> Plain, MemBusAgentXModeStop |-> Plain,
   memBusAgentSetXModeSetup |-> Write, MemBusAgentSetXModeHold |-> Write,
   MemBusAgentSetOutputDelay |-> Write]

CanAgentDriver ==
  [CanAgentDriverStart |-> Plain, CanAgentDriverStop |-> Plain,
   CanAgentDriverFlush |-> Plain, CanAgentDriverGetProgress |-> Read,
   CanAgentDriverGetDrivenVal |-> Read, CanAgentDriverPushItem |-> Write,
   CanAgentDriverPushItemMsg |-> WriteMsg,
   CanAgentDriverSetWaitTimeout |-> Write, CanAgentDriverWaitFinish |-> Plain]

CanAgentDrive ==
  [CanAgentDriveSingleItem |-> Write, CanAgentDriveSingleItemMsg |-> WriteMsg,
   CanAgentDriveAllItems |-> Plain, CanAgentSetWaitForMonitor |-> Write]

CanAgentMonitorItems ==
  [CanAgentMonitorStart |-> Plain, CanAgentMonitorStop |-> Plain,
   CanAgentMonitorFlush |-> Plain, CanAgentMonitorGetState |-> Read,
   CanAgentMonitorGetMonitoredVal |-> Read,
   CanAgentMonitorPushItem |-> Sampled, CanAgentMonitorPushItemMsg |-> SampledMsg,
   CanAgentMonitorSetWaitTimeout |-> Write, CanAgentMonitorWaitFinish |-> Plain]

CanAgentMonitor ==
  [CanAgentMonitorSingleItem |-> Sampled,
   CanAgentMonitorSingleItemMsg |-> SampledMsg,
   CanAgentMonitorAllItems |-> Plain, CanAgentMonitorSetTrigger |-> Write,
   CanAgentMonitorGetTrigger |-> Read, CanAgentCheckResult |-> Plain,
   CanAgentSetMonitorInputDelay |-> Write,
   CanAgentConfigureTxToRxFeedback |-> Plain]

TestControllerAgent ==
  [TestControllerAgentEndTest |-> Write,
   TestControllerAgentGetCfgDutClockPeriod |-> ReadNamed,
   TestControllerAgentGetBitTimingElement |-> ReadNamed,
   TestControllerAgentGetSeed |-> Read]

\* The commands of each agent, as functions from the command to its shape.
Agents == {ResetAgent, ClockAgent, MemBusAgentAccess, MemBusAgentTiming,
           CanAgentDriver, CanAgentDrive, CanAgentMonitorItems, CanAgentMonitor,
           TestControllerAgent}

Commands == UNION {DOMAIN agent : agent \in Agents}

ShapeOf(c) == (CHOOSE agent \in Agents : c \in DOMAIN agent)[c]
=============================================================================
