------------------------- MODULE LowerTesterProofs -------------------------
(***************************************************************************)
(* Proofs about LowerTester, for frames and input delays of any length and *)
(* any number of rounds.                                                   *)
(***************************************************************************)
EXTENDS LowerTester, TLAPS

USE LenAssumption, DelayAssumption, RoundsAssumption

LTInv == TypeOK /\ RoundInv

LEMMA InitLTInv == Init => LTInv
<1> SUFFICES ASSUME Init PROVE LTInv
  OBVIOUS
<1>1. TypeOK
  <2>1. round \in 0 .. MaxRounds /\ drv_fifo \in 0 .. FrameLen /\ mon_fifo \in 0 .. FrameLen
    BY DEF Init
  <2>2. drv_pos \in Nat /\ mon_pos \in Int /\ dut_pos \in Int
    BY DEF Init
  <2>3. wait_for_monitor \in BOOLEAN /\ deviates \in BOOLEAN
    BY Zenon DEF Init
  <2>4. QED
    BY <2>1, <2>2, <2>3, Zenon DEF Init, TypeOK
<1>2. SetUpInv
  BY DEF Init, SetUpInv
<1>3. IdleInv /\ TransmitInv
  BY DEF Init, IdleInv, TransmitInv
<1>4. FrameInv
  BY DEF Init, FrameInv
<1>5. QED
  BY <1>1, <1>2, <1>3, <1>4 DEF LTInv, RoundInv

\* The set-up of a test leaves the lower tester off and set for its kind.
LEMMA SetUpKeepsLTInv ==
  ASSUME LTInv, BaseConfigAgent \/ TestSetup
  PROVE  LTInv'
<1> USE DEF LTInv, RoundInv, TypeOK, SetUpInv, SetUpFor, IdleInv, TransmitInv,
            FrameInv, Goes, setupVars, drvVars, monVars, dutVars
<1>1. CASE BaseConfigAgent
  BY <1>1 DEF BaseConfigAgent
<1>2. CASE TestSetup
  BY <1>2 DEF TestSetup, MonitorTxSetup
<1>3. QED
  BY <1>1, <1>2

\* The calls of a round keep the invariant.
LEMMA CallKeepsLTInv ==
  ASSUME LTInv,
         \/ PushDriverValues \/ PushMonitorValues
         \/ StartMonitor \/ StartDriver \/ SendFrame
         \/ MonitorWaitFinish \/ DriverWaitFinish \/ WaitTimesOut
         \/ CheckResult \/ StopMonitorAndDriver \/ FlushMonitorAndDriver
  PROVE  LTInv'
<1> USE DEF LTInv, RoundInv, TypeOK, SetUpInv, SetUpFor, IdleInv, TransmitInv,
            FrameInv, Goes, setupVars, drvVars, monVars, dutVars
<1>1. CASE PushDriverValues
  BY <1>1 DEF PushDriverValues
<1>2. CASE PushMonitorValues
  BY <1>2 DEF PushMonitorValues, FirstStart
<1>3. CASE StartMonitor
  BY <1>3 DEF StartMonitor, FirstStart
<1>4. CASE StartDriver
  <2>1. CASE wait_for_monitor
    BY <1>4, <2>1 DEF StartDriver, FirstStart
  <2>2. CASE ~wait_for_monitor
    <3>1. kind = "rx" /\ trigger = "DriverStart" /\ mon = "waiting"
      BY <1>4, <2>2 DEF StartDriver, FirstStart
    <3>2. /\ drv' = "driving" /\ drv_pos' = 0
          /\ mon' = "running" /\ mon_pos' = -input_delay
          /\ dut' = "frame" /\ dut_pos' = -InputDelay /\ deviates' = FALSE
      BY <1>4, <2>2, <3>1 DEF StartDriver, DriverBegins
    <3>3. /\ pc = "start_drv" /\ pc' = "send"
          /\ UNCHANGED <<setupVars, round, drv_fifo, mon_fifo, result>>
      BY <1>4 DEF StartDriver, FirstStart
    <3>4. -input_delay \in Int /\ -InputDelay \in Int /\ input_delay = InputDelay
      BY <3>1, <3>3
    <3>5. TypeOK'
      BY <3>1, <3>2, <3>3, <3>4
    <3>6. SetUpInv' /\ IdleInv'
      BY <3>1, <3>2, <3>3
    <3>7. TransmitInv'
      BY <3>1, <3>2, <3>3
    <3>8. FrameInv'
      BY <3>1, <3>2, <3>3, <3>4
    <3>9. QED
      BY <3>5, <3>6, <3>7, <3>8
  <2>3. QED
    BY <2>1, <2>2
<1>5. CASE SendFrame
  BY <1>5 DEF SendFrame
<1>6. CASE MonitorWaitFinish
  BY <1>6 DEF MonitorWaitFinish, MonitorFinished
<1>7. CASE DriverWaitFinish
  BY <1>7 DEF DriverWaitFinish, DriverFinished
<1>8. CASE WaitTimesOut
  BY <1>8 DEF WaitTimesOut, Quiet, MonitorFinished, DriverFinished
<1>9. CASE CheckResult
  BY <1>9 DEF CheckResult
<1>10. CASE StopMonitorAndDriver
  BY <1>10 DEF StopMonitorAndDriver
<1>11. CASE FlushMonitorAndDriver
  BY <1>11 DEF FlushMonitorAndDriver
<1>12. QED
  BY <1>1, <1>2, <1>3, <1>4, <1>5, <1>6, <1>7, <1>8, <1>9, <1>10, <1>11

\* The DUT starts driver and monitor together, or drops its frame before either
\* has begun.
LEMMA DutKeepsLTInv ==
  ASSUME LTInv, DutAnswers
  PROVE  LTInv'
<1> USE DEF LTInv, RoundInv, TypeOK, SetUpInv, SetUpFor, IdleInv, TransmitInv,
            FrameInv, setupVars, drvVars, monVars, dutVars
<1>1. CASE DutTransmits
  BY <1>1 DEF DutTransmits
<1>2. CASE DutIgnoresRequest
  BY <1>2 DEF DutIgnoresRequest
<1>3. QED
  BY <1>1, <1>2 DEF DutAnswers

\* A tick moves the running monitor and the DUT, and in a transmission test the
\* driver, by the same tick of the frame.
LEMMA TickKeepsLTInv ==
  ASSUME LTInv, Tick
  PROVE  LTInv'
<1> USE DEF LTInv, RoundInv, TypeOK, SetUpInv, SetUpFor, IdleInv, TransmitInv,
            FrameInv, setupVars, drvVars, monVars, dutVars
<1>1. PICK bad \in BOOLEAN : DriverTick /\ DutTick(bad) /\ MonitorTick(bad)
  BY DEF Tick
<1>2. UNCHANGED <<setupVars, pc, round, result>>
  BY DEF Tick
<1>3. TypeOK'
  BY <1>1, <1>2 DEF DriverTick, DutTick, MonitorTick
<1>4. SetUpInv'
  BY <1>1, <1>2 DEF DriverTick, DutTick, MonitorTick
<1>5. IdleInv'
  BY <1>1, <1>2 DEF DriverTick, DutTick, MonitorTick
<1>6. TransmitInv'
  BY <1>1, <1>2 DEF DriverTick, DutTick, MonitorTick
<1>7. FrameInv'
  BY <1>1, <1>2 DEF DriverTick, DutTick, MonitorTick
<1>8. QED
  BY <1>3, <1>4, <1>5, <1>6, <1>7

LEMMA NextKeepsLTInv == LTInv /\ [Next]_vars => LTInv'
<1> SUFFICES ASSUME LTInv, [Next]_vars PROVE LTInv'
  OBVIOUS
<1>1. CASE UNCHANGED vars
  BY <1>1 DEF vars, setupVars, drvVars, monVars, dutVars, LTInv, RoundInv, TypeOK,
     SetUpInv, SetUpFor, IdleInv, TransmitInv, FrameInv
<1>2. CASE Next
  BY <1>2, SetUpKeepsLTInv, CallKeepsLTInv, DutKeepsLTInv, TickKeepsLTInv
     DEF Next, TestThread
<1>3. QED
  BY <1>1, <1>2

\* The inductive invariant of the rounds of a test: where driver, monitor and
\* DUT are for each call of the test thread.
THEOREM LowerTesterInvariant == Spec => []RoundInv
<1>1. Spec => []LTInv
  BY InitLTInv, NextKeepsLTInv, PTL DEF Spec
<1>2. LTInv => RoundInv
  BY DEF LTInv
<1>3. QED
  BY <1>1, <1>2, PTL

\* The variables keep their types; no FIFO holds more than one frame.
THEOREM LowerTesterTypeCorrect == Spec => []TypeOK
<1>1. Spec => []LTInv
  BY InitLTInv, NextKeepsLTInv, PTL DEF Spec
<1>2. LTInv => TypeOK
  BY DEF LTInv
<1>3. QED
  BY <1>1, <1>2, PTL

\* Whenever the monitor runs it looks at the tick the DUT is at.
THEOREM MonitorStaysInSync == Spec => []MonitorInSync
<1>1. RoundInv => MonitorInSync
  BY DEF RoundInv, FrameInv, MonitorInSync
<1>2. QED
  BY <1>1, LowerTesterInvariant, PTL

\* The driver of a transmission test is at the tick of the DUT's frame.
THEOREM DriverStaysInSync == Spec => []DriverInSync
<1>1. RoundInv => DriverInSync
  BY DEF RoundInv, TransmitInv, DriverInSync
<1>2. QED
  BY <1>1, LowerTesterInvariant, PTL

\* Nothing of a round is left when the next one begins.
THEOREM RoundsStartClean == Spec => []CleanBetweenRounds
<1>1. RoundInv => CleanBetweenRounds
  BY DEF RoundInv, IdleInv, CleanBetweenRounds
<1>2. QED
  BY <1>1, LowerTesterInvariant, PTL

\* The lower tester passes a round exactly when the DUT behaved as expected.
THEOREM VerdictOfRound == Spec => []PassedIffExpected
<1>1. TypeOK /\ RoundInv => PassedIffExpected
  BY DEF TypeOK, RoundInv, FrameInv, PassedIffExpected
<1>2. QED
  BY <1>1, LowerTesterInvariant, LowerTesterTypeCorrect, PTL

\* A wait that times out is one for a frame the DUT did not send.
THEOREM OnlyMissingFramesTimeOut == Spec => TimeoutOnlyWithoutFrame
<1> DEFINE Late == (pc' # pc /\ ((pc = "wait_mon" /\ ~MonitorFinished)
                                  \/ (pc = "wait_drv" /\ ~DriverFinished)))
                    => (kind = "tx" /\ dut = "idle" /\ deviates)
<1>1. ASSUME LTInv, [Next]_vars PROVE [Late]_vars
  <2> SUFFICES ASSUME pc' # pc,
                      \/ pc = "wait_mon" /\ ~MonitorFinished
                      \/ pc = "wait_drv" /\ ~DriverFinished
               PROVE  kind = "tx" /\ dut = "idle" /\ deviates
    OBVIOUS
  <2>1. WaitTimesOut
    BY <1>1 DEF Next, TestThread, DutAnswers, BaseConfigAgent, TestSetup, vars,
       PushDriverValues, PushMonitorValues, StartMonitor, StartDriver, SendFrame,
       MonitorWaitFinish, DriverWaitFinish, CheckResult, StopMonitorAndDriver,
       FlushMonitorAndDriver, DutTransmits, DutIgnoresRequest, Tick, Goes
  <2>2. QED
    BY <1>1, <2>1 DEF WaitTimesOut, Quiet, MonitorFinished, DriverFinished, LTInv,
       TypeOK, RoundInv, TransmitInv, IdleInv, FrameInv
<1>2. QED
  BY <1>1, InitLTInv, NextKeepsLTInv, PTL DEF Spec, TimeoutOnlyWithoutFrame
=============================================================================
