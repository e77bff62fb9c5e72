---------------------------- MODULE LowerTester ----------------------------
(***************************************************************************)
(* The lower tester as TestBase uses it: frames are pushed to the driver   *)
(* and monitor FIFOs of the CAN agent, both are started, waited for,       *)
(* checked, stopped and flushed, each by a blocking call, while simulated  *)
(* time goes on between any two calls.                                     *)
(*                                                                         *)
(* A frame is FrameLen ticks long.  A position is the tick of the frame    *)
(* that is driven, monitored or processed; it is negative during a delay.  *)
(* In a reception test the driver starts the frame and the DUT follows     *)
(* InputDelay ticks later; in a transmission test the DUT starts it.       *)
(***************************************************************************)
EXTENDS Integers

CONSTANTS
  FrameLen,    \* ticks of a frame
  InputDelay,  \* dut_input_delay, in ticks
  MaxRounds    \* bound: frames pushed by the test, one after another

ASSUME LenAssumption == FrameLen \in Nat \ {0}
ASSUME DelayAssumption == InputDelay \in Nat
ASSUME RoundsAssumption == MaxRounds \in Nat

VARIABLES
  kind,              \* "rx" or "tx": who transmits the frame
  pc,                \* the call the test thread makes next
  round,             \* frames pushed so far
  trigger,           \* of the monitor: "DriverStart" or "TxFalling"
  input_delay,       \* of the monitor
  wait_for_monitor,  \* the driver waits for the monitor to start
  drv, drv_fifo, drv_pos,  \* driver of the CAN agent
  mon, mon_fifo, mon_pos,  \* monitor of the CAN agent
  dut, dut_pos,      \* device under test: "idle", "requested" or "frame"
  deviates,          \* the DUT has left the expected frame, as monitored
  result             \* of CanAgentCheckResult: "none", "passed" or "failed"

setupVars == <<kind, trigger, input_delay, wait_for_monitor>>
drvVars   == <<drv, drv_fifo, drv_pos>>
monVars   == <<mon, mon_fifo, mon_pos>>
dutVars   == <<dut, dut_pos, deviates>>
vars == <<setupVars, pc, round, drvVars, monVars, dutVars, result>>

Init ==
  /\ kind \in {"rx", "tx"}
  /\ pc = "setup" /\ round = 0
  /\ trigger = "DriverStart" /\ input_delay = 0 /\ wait_for_monitor = FALSE
  /\ drv = "stopped" /\ drv_fifo = 0 /\ drv_pos = 0
  /\ mon = "disabled" /\ mon_fifo = 0 /\ mon_pos = 0
  /\ dut = "idle" /\ dut_pos = 0 /\ deviates = FALSE
  /\ result = "none"

Goes(from, to) == pc = from /\ pc' = to

-----------------------------------------------------------------------------
(* Set-up, by ConfigureTest and SetupMonitorTxTests.                       *)

BaseConfigAgent ==
  /\ Goes("setup", "test_setup")
  /\ input_delay' = InputDelay
  /\ trigger' = "DriverStart"
  /\ drv' = "stopped" /\ mon' = "disabled"
  /\ drv_fifo' = 0 /\ mon_fifo' = 0
  /\ UNCHANGED <<kind, round, wait_for_monitor, drv_pos, mon_pos, dutVars, result>>

\* (mutant: the input delay of reception tests is left in the monitor)
MonitorTxSetupOld == [trigger |-> "TxFalling", delay |-> InputDelay, wait |-> TRUE]

\* (mutant: the driver does not wait for the monitor)
MonitorTxSetupNoWait == [trigger |-> "TxFalling", delay |-> 0, wait |-> FALSE]

MonitorTxSetup == [trigger |-> "TxFalling", delay |-> 0, wait |-> TRUE]

\* Tests in which the DUT transmits call SetupMonitorTxTests.
TestSetup ==
  /\ Goes("test_setup", "push_drv")
  /\ IF kind = "tx"
     THEN /\ trigger' = MonitorTxSetup.trigger
          /\ input_delay' = MonitorTxSetup.delay
          /\ wait_for_monitor' = MonitorTxSetup.wait
     ELSE UNCHANGED <<trigger, input_delay, wait_for_monitor>>
  /\ UNCHANGED <<kind, round, drvVars, monVars, dutVars, result>>

-----------------------------------------------------------------------------
(* One round: PushFramesToLT, RunLT or its two halves, CheckLTResult.      *)

PushDriverValues ==
  /\ Goes("push_drv", "push_mon")
  /\ round < MaxRounds
  /\ round' = round + 1
  /\ drv_fifo' = drv_fifo + FrameLen
  /\ UNCHANGED <<setupVars, drv, drv_pos, monVars, dutVars, result>>

\* (mutant: the driver is started first)
FirstStartDriver == "start_drv"

FirstStart == "start_mon"

PushMonitorValues ==
  /\ Goes("push_mon", FirstStart)
  /\ mon_fifo' = mon_fifo + FrameLen
  /\ UNCHANGED <<setupVars, round, drvVars, mon, mon_pos, dutVars, result>>

\* The driver begins to drive, which starts the frame in a reception test and
\* triggers a monitor that waits for it.
DriverBegins ==
  /\ drv' = "driving" /\ drv_pos' = 0
  /\ IF mon = "waiting" /\ trigger = "DriverStart"
     THEN mon' = "running" /\ mon_pos' = -input_delay
     ELSE UNCHANGED <<mon, mon_pos>>
  /\ IF kind = "rx"
     THEN dut' = "frame" /\ dut_pos' = -InputDelay /\ deviates' = FALSE
     ELSE UNCHANGED dutVars

StartMonitor ==
  /\ Goes("start_mon", IF FirstStart = "start_mon" THEN "start_drv" ELSE "send")
  /\ mon' = "waiting"
  /\ UNCHANGED <<setupVars, round, drvVars, mon_fifo, mon_pos, dutVars, result>>

StartDriver ==
  /\ Goes("start_drv", IF FirstStart = "start_mon" THEN "send" ELSE "start_mon")
  /\ IF wait_for_monitor
     THEN drv' = "waiting" /\ UNCHANGED <<drv_pos, mon, mon_pos, dutVars>>
     ELSE DriverBegins
  /\ UNCHANGED <<setupVars, round, drv_fifo, mon_fifo, result>>

\* SendFrame of transmission tests, after both have been started.
SendFrame ==
  /\ Goes("send", "wait_mon")
  /\ IF kind = "tx"
     THEN dut' = "requested" /\ deviates' = FALSE /\ UNCHANGED dut_pos
     ELSE UNCHANGED dutVars
  /\ UNCHANGED <<setupVars, round, drvVars, monVars, result>>

MonitorFinished == mon \in {"passed", "failed"}
DriverFinished  == drv = "done"

MonitorWaitFinish ==
  /\ Goes("wait_mon", "wait_drv")
  /\ MonitorFinished
  /\ UNCHANGED <<setupVars, round, drvVars, monVars, dutVars, result>>

DriverWaitFinish ==
  /\ Goes("wait_drv", "check")
  /\ DriverFinished
  /\ UNCHANGED <<setupVars, round, drvVars, monVars, dutVars, result>>

\* The waits are bounded by the wait timeouts of the agent, far longer than a
\* frame: they end only when nothing goes on any more.
Quiet == dut # "requested" /\ drv # "driving" /\ mon # "running"

\* (mutant: the waits have no timeout)
WaitForever == FALSE

WaitTimesOut ==
  /\ \/ Goes("wait_mon", "wait_drv") /\ ~MonitorFinished
     \/ Goes("wait_drv", "check") /\ ~DriverFinished
  /\ Quiet
  /\ UNCHANGED <<setupVars, round, drvVars, monVars, dutVars, result>>

CheckResult ==
  /\ Goes("check", "stop")
  /\ result' = IF mon = "passed" THEN "passed" ELSE "failed"
  /\ UNCHANGED <<setupVars, round, drvVars, monVars, dutVars>>

\* Both are stopped before their FIFOs are flushed.
StopMonitorAndDriver ==
  /\ Goes("stop", "flush")
  /\ mon' = "disabled" /\ drv' = "stopped"
  /\ UNCHANGED <<setupVars, round, drv_fifo, drv_pos, mon_fifo, mon_pos, dutVars,
                 result>>

\* (mutant: the monitor FIFO is not flushed)
FlushDriverOnly ==
  /\ Goes("flush", "push_drv")
  /\ drv_fifo' = 0
  /\ UNCHANGED <<setupVars, round, drv, drv_pos, monVars, dutVars, result>>

FlushMonitorAndDriver ==
  /\ Goes("flush", "push_drv")
  /\ mon_fifo' = 0 /\ drv_fifo' = 0
  /\ UNCHANGED <<setupVars, round, drv, drv_pos, mon, mon_pos, dutVars, result>>

-----------------------------------------------------------------------------
(* Simulated time (external): CAN agent and DUT.                           *)

\* The DUT starts its frame; the edge triggers the monitor, which starts a
\* driver that waits for it.
DutTransmits ==
  /\ dut = "requested"
  /\ dut' = "frame" /\ dut_pos' = 0
  /\ IF mon = "waiting" /\ trigger = "TxFalling"
     THEN mon' = "running" /\ mon_pos' = -input_delay
     ELSE UNCHANGED <<mon, mon_pos>>
  /\ IF drv = "waiting" /\ mon' = "running"
     THEN drv' = "driving" /\ drv_pos' = 0
     ELSE UNCHANGED <<drv, drv_pos>>
  /\ UNCHANGED <<setupVars, pc, round, drv_fifo, mon_fifo, deviates, result>>

\* A faulty DUT drops the request.
DutIgnoresRequest ==
  /\ dut = "requested"
  /\ dut' = "idle" /\ deviates' = TRUE
  /\ UNCHANGED <<setupVars, pc, round, drvVars, monVars, dut_pos, result>>

DriverTick ==
  IF drv # "driving" THEN UNCHANGED drvVars
  ELSE /\ drv_pos' = drv_pos + 1
       /\ drv_fifo' = drv_fifo - 1
       /\ drv' = IF drv_fifo' = 0 THEN "done" ELSE "driving"

DutTick(bad) ==
  IF dut # "frame" THEN UNCHANGED dutVars
  ELSE /\ dut_pos' = dut_pos + 1
       /\ dut' = IF dut_pos' = FrameLen THEN "idle" ELSE "frame"
       /\ deviates' = (deviates \/ (bad /\ dut_pos >= 0))

\* The monitor compares the tick it is at with what the DUT sends now.
MonitorTick(bad) ==
  IF mon # "running" THEN UNCHANGED monVars
  ELSE IF mon_pos < 0 THEN mon_pos' = mon_pos + 1 /\ UNCHANGED <<mon, mon_fifo>>
  ELSE /\ mon_pos' = mon_pos + 1
       /\ mon_fifo' = mon_fifo - 1
       /\ mon' = IF bad \/ dut_pos # mon_pos THEN "failed"
                 ELSE IF mon_fifo' = 0 THEN "passed" ELSE "running"

Tick ==
  /\ drv = "driving" \/ mon = "running" \/ dut = "frame"
  /\ \E bad \in BOOLEAN : DriverTick /\ DutTick(bad) /\ MonitorTick(bad)
  /\ UNCHANGED <<setupVars, pc, round, result>>

-----------------------------------------------------------------------------
TestThread ==
  \/ BaseConfigAgent \/ TestSetup
  \/ PushDriverValues \/ PushMonitorValues
  \/ StartMonitor \/ StartDriver \/ SendFrame
  \/ MonitorWaitFinish \/ DriverWaitFinish \/ WaitTimesOut
  \/ CheckResult \/ StopMonitorAndDriver \/ FlushMonitorAndDriver

DutAnswers == DutTransmits \/ DutIgnoresRequest

Next == TestThread \/ DutAnswers \/ Tick

\* The test thread makes its calls, simulated time goes on while one is
\* pending, and the DUT takes up or drops a request within the wait timeout.
Fairness ==
  /\ WF_vars(TestThread)
  /\ WF_vars(DutAnswers)
  /\ WF_vars(Tick)

Spec == Init /\ [][Next]_vars /\ Fairness

-----------------------------------------------------------------------------
(* Properties.                                                             *)

TypeOK ==
  /\ kind \in {"rx", "tx"}
  /\ pc \in {"setup", "test_setup", "push_drv", "push_mon", "start_mon",
             "start_drv", "send", "wait_mon", "wait_drv", "check", "stop",
             "flush"}
  /\ round \in 0 .. MaxRounds
  /\ trigger \in {"DriverStart", "TxFalling"}
  /\ input_delay \in {0, InputDelay}
  /\ wait_for_monitor \in BOOLEAN
  /\ drv \in {"stopped", "waiting", "driving", "done"}
  /\ mon \in {"disabled", "waiting", "running", "passed", "failed"}
  /\ dut \in {"idle", "requested", "frame"}
  /\ drv_fifo \in 0 .. FrameLen /\ mon_fifo \in 0 .. FrameLen
  /\ drv_pos \in Nat /\ mon_pos \in Int /\ dut_pos \in Int
  /\ deviates \in BOOLEAN
  /\ result \in {"none", "passed", "failed"}

\* The comment of ConfigureTest: with its input delay the monitor is in sync
\* with the DUT exactly.  While it runs it looks at the tick the DUT is at, in
\* reception tests and, with the set-up of SetupMonitorTxTests, in the others.
MonitorInSync == mon = "running" => mon_pos = dut_pos

\* A transmitted frame is acknowledged in place: the driver that waited for
\* the monitor is at the tick of the frame the DUT transmits.
DriverInSync == kind = "tx" /\ drv = "driving" => drv_pos = dut_pos

\* Each round starts clean: whatever the round before ended with, nothing is
\* driven or monitored and neither FIFO keeps an item of it.
CleanBetweenRounds ==
  pc = "push_drv" =>
    /\ drv = "stopped" /\ mon = "disabled"
    /\ drv_fifo = 0 /\ mon_fifo = 0

\* The lower tester neither misses a deviation nor makes one up: it passes the
\* frames the DUT handled as expected, and only those.
PassedIffExpected ==
  pc \in {"stop", "flush"} => (result = "passed" <=> ~deviates)

\* The inductive invariant of a round: what is set up for its kind, and where
\* driver, monitor and DUT are for the call the test thread makes next.
SetUpFor(k) ==
  IF k = "rx" THEN trigger = "DriverStart" /\ input_delay = InputDelay /\ ~wait_for_monitor
  ELSE trigger = "TxFalling" /\ input_delay = 0 /\ wait_for_monitor

SetUpInv ==
  /\ pc \in {"setup", "test_setup"} => dut = "idle" /\ ~wait_for_monitor
  /\ pc = "test_setup" => SetUpFor("rx")
  /\ pc \notin {"setup", "test_setup"} => SetUpFor(kind)

IdleInv ==
  /\ pc \in {"setup", "test_setup", "push_drv", "push_mon", "start_mon", "flush"}
       => drv = "stopped" /\ mon = "disabled"
  /\ pc \in {"setup", "test_setup", "push_drv"} => drv_fifo = 0 /\ mon_fifo = 0
  /\ pc = "push_mon" => drv_fifo = FrameLen /\ mon_fifo = 0
  /\ pc \in {"start_mon", "start_drv"} => drv_fifo = FrameLen /\ mon_fifo = FrameLen
  /\ pc = "start_drv" => drv = "stopped" /\ mon = "waiting"
  /\ pc \in {"send", "wait_mon", "wait_drv"} => drv # "stopped"
  /\ pc = "send" => (kind = "tx" => drv = "waiting" /\ mon = "waiting")
  /\ pc \in {"send", "wait_mon", "wait_drv", "check"} => mon # "disabled"

\* In a transmission test the DUT is idle until it is asked for its frame.
TransmitInv ==
  /\ dut = "requested" => kind = "tx" /\ pc = "wait_mon" /\ ~deviates
  /\ kind = "tx" /\ drv = "driving" => dut = "frame" /\ drv_pos = dut_pos
  /\ kind = "tx" /\ dut = "frame" =>
       drv = "driving" /\ pc \in {"wait_mon", "wait_drv"}
  /\ mon = "waiting" /\ drv = "waiting" /\ pc \in {"wait_mon", "wait_drv", "check"}
       => \/ dut = "requested"
          \/ dut = "idle" /\ deviates
  /\ kind = "rx" => drv # "waiting"
  /\ kind = "tx" /\ drv = "waiting" => mon = "waiting" /\ drv_fifo = FrameLen
       /\ mon_fifo = FrameLen /\ (pc \in {"wait_drv", "check"} => dut = "idle")
  /\ mon = "waiting" /\ pc \notin {"start_drv"} => kind = "tx" /\ drv = "waiting"

FrameInv ==
  /\ drv = "driving" => drv_pos \in 0 .. FrameLen - 1 /\ drv_fifo = FrameLen - drv_pos
  /\ dut = "frame" => dut_pos \in -InputDelay .. FrameLen - 1
  /\ mon = "running" =>
       /\ dut = "frame" /\ mon_pos = dut_pos /\ ~deviates
       /\ mon_fifo = IF mon_pos < 0 THEN FrameLen ELSE FrameLen - mon_pos
  /\ mon = "passed" => dut = "idle" /\ ~deviates
  /\ mon = "failed" => deviates
  /\ pc \in {"wait_drv", "check"} => mon # "running" /\ dut # "requested"
  /\ pc = "check" => drv # "driving"
  /\ pc \in {"stop", "flush"} => dut # "requested"
  /\ pc \in {"stop", "flush"} =>
       IF result = "passed" THEN dut = "idle" /\ ~deviates ELSE deviates
  /\ pc = "stop" => mon # "running" /\ drv # "driving"

RoundInv == SetUpInv /\ IdleInv /\ TransmitInv /\ FrameInv

\* A wait ends by its timeout only if the DUT never transmitted: a reception
\* test, whose frame the driver starts, never hangs until a timeout.
TimeoutOnlyWithoutFrame ==
  [][(pc' # pc /\ ((pc = "wait_mon" /\ ~MonitorFinished)
                     \/ (pc = "wait_drv" /\ ~DriverFinished)))
       => (kind = "tx" /\ dut = "idle" /\ deviates)]_vars

\* RunLT always comes back: each started round is checked and flushed.
RoundEnds == (pc = "start_mon") ~> (pc = "push_drv")
=============================================================================
