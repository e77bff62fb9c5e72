# TLA+ models of the ISO 16845 compliance tests

This directory holds a formal model of the compliance test library in `src/`: a C++ library
that is loaded into an HDL simulator, where it drives a CAN controller (the DUT) through the
conformance tests of ISO 16845-1. The modules are written from the code; TLC checks them on
small instances, and TLAPS proves the theorems of the modules `*Proofs` for every value of
their constants.

Paths below are relative to the repository's own `src/` unless they begin with `src/`, which
is the form PROJECT.json uses for the repository's root.

## 1. The system

A test runs in two threads of one process. The **simulator thread** runs the test bench, and
calls the library through callbacks on two signals (`pli_clk`, `pli_control_req`). The **test
thread** runs one C++ test. It never touches a signal: every command to the test bench is
written to a shared structure, raised with an atomic flag, and served by the next `pli_clk`
callback, while the test thread polls.

```
 test thread                             simulator thread
 -----------                             ----------------
 TestIso_x_y_z::RunElemTest
      |  frames, checks
 TestBase::Run                           pli_control_req callback -- starts the test thread
      |  blocking calls
 PliComplianceLib ---- simulator_channel ---- pli_clk callback ---- agents of the test bench
      (fields, req)                           (fsm)     pli_req / pli_ack / pli_data_*
                                                                    CAN agent: driver, monitor
                                                                         |
                                                                     CAN bus, DUT
```

### Components

| component | state it keeps | operations | interacts with | what is hard | what makes it correct |
|---|---|---|---|---|---|
| Simulator channel (`cosimulation/SimulatorChannel.cpp`) | `simulator_channel`: fields, `req`, `fsm`; the handshake signals | `SimulatorChannelStartRequest`, `WaitRequestDone`, `ProcessPliClkCallback` | test thread through shared memory, agents through signals | two threads and the simulated hardware interleave; `fsm` becomes FREE before `req` is cleared | a request is over only when its answer is there; agents see its operands and no older ones; a call implements a blocking call |
| PliComplianceLib | none | 58 commands: fill fields, start, wait, decode | simulator channel | fields a command does not fill keep old values | as above |
| Simulator interface, handle manager, test loader (`simulator_interface.c`, `pli_handle_manager.c`, `TestLoader.cpp`) | callbacks, cached handles, name buffer | registration, handover of control, start of the thread, end of the simulation | simulator API, test bench, test thread | order of callbacks in NVC; the thread reads a global buffer after the callback returned | one thread, of the right test; its requests are served until it ends the simulation |
| TestBase (`compliance_tests/TestBase.cpp`, `test_lib/ElemTest`, `TestAssert`) | variants, elementary tests, `test_result`, error counts | set-up, loops over variants and elementary tests, checks, assertions, verdict | PliComplianceLib, DUT, RunElemTest of each class | three conventions for a result; polling for the DUT; a verdict sent in the middle | each elementary test runs once; the verdict is the right one, once |
| Lower tester (`RunLT`, `PushFramesToLT`, the CAN agent) | FIFOs, driver, monitor, trigger, delay | push, start, wait, check, stop, flush | CAN agent, DUT | simulated time goes on between any two calls; timeouts; items left over | monitor in step with the DUT; passes exactly the expected behaviour; leaves nothing behind |
| Frames (`can_lib/BitFrame`, `Frame`, `FrameFlags`, `Bit`) | list of bits | build, stuff, count, CRC, update, error and overload frames, loss of arbitration | test classes | stuffing, stuff count and CRC depend on each other, and differ in CAN and CAN FD | what a receiver by ISO 11898-1 would expect |
| Test classes (`TestIso_*.cpp`, 193 of them modelled) | frames of the elementary test | `ConfigureTest`, `RunElemTest` | all of the above | the monitored frame is patched by hand; the DUT is not reset between elementary tests | a conforming DUT passes, with the behaviour under test really exercised |
| Bit timing (`TestBase::GenerateBitTiming`, `BitTiming`, `Bit`, `TimeQuanta`, `Cycle`) | bit timings; time quanta and cycles of a bit | generate sample points; lengthen, shorten, force a phase, a time quantum, a cycle; compensate | frames, test sequence | unsigned subtraction, phases emptied, two bit rates in one bit | every sample point the DUT can work with is tested, and no other; the bit rate is kept |
| Test sequence (`test_lib/TestSequence`, `DrvItem`, `MonItem`) | run-length items | build, push | lower tester | empty items, first and last item, sample rate where the bit rate changes | the items play the frame, cycle by cycle |
| DUT access (`CtuCanFdInterface`) | TXT buffer in turn | enable, send and read frames, set counters and modes: registers of one controller | DUT | buffer still pending; order of the buffers and of the calls | frames go out in the order of the calls |
| DUT, CAN bus, test bench agents | | | | | external: modelled from how the code uses them |

`PROJECT.json` lists the components with the state of their modelling and, under *hazards*,
every place found where something can go wrong that a test would hardly reach, with the
properties that cover it. Hazards without a property say why.

## 2. The modules

| module | models | state and actions |
|---|---|---|
| `RequestChannel` | what a call of PliComplianceLib promises: `Call`, `Execute`, `Return` | abstract specification |
| `SimulatorChannel` | `SimulatorChannel.cpp` and the call protocol of `PliComplianceLib.cpp` | `chan`, `req`, `fsm` are the members of `simulator_channel`; `pc` is the place of the test thread between two of its accesses to it; `cb` the place of the callback; each branch of `ProcessPliClkCallback` is an action (`FreeRequest`, `ReqUpAck`, `AckUpDone`, ...) |
| `PliComplianceLib` | which fields each command of the library fills | `Commands`, `ShapeOf` |
| `SimulatorInterface` | `simulator_interface.c`, `pli_handle_manager.c`, `RunCppTest` | `callbacks`, `handles`, `test_name` and the signals; `StartOfSim`, `SwControlReqCallback`, `PliClkCallback`, steps of a test thread |
| `Verdict` | one verdict, passed exactly if nothing failed | abstract specification |
| `TestRun` | `TestBase::Run`, `FillTestVariants`, `AddElemTest`, the checks, `FinishElemTest`, `FinishTest` | variables named as the members of TestBase; an elementary test is *any* sequence of at most `MaxSteps` steps |
| `LowerTester` | a round of `RunLT` with the driver and monitor of the CAN agent | one action per blocking call, `Tick` for simulated time, the DUT's answers |
| `BitFrame` | `BitFrame.cpp`, and what tests do to a frame | pure operators: `BuildFrameBits`, `InsertNormalStuffBits`, `SetStuffCntAndParity`, `CalcCrc`, `UpdateFrame`, `InsertActErrFrm`, `LooseArbit`, ... |
| `Frames` | `Frame.cpp`, `FrameFlags.cpp` | DLC to length, which flags a frame keeps, the content of a frame given part of it |
| `ReceiverRules` | what a receiver finds in a sequence of bits | reference definitions, written from the rules of ISO 11898-1 as the receiver applies them (count equal bits, divide by the polynomial), not from `BitFrame.cpp` |
| `FrameUpdate` | build, edit and `UpdateFrame` as TestIso_7_2_3 and 7_6_10 do. A round of each loop over `bits_` is an action, since the loops insert bits into the list they run over and erase them from it | `bits`, `at` (`bit_it`), `same`, `prev`, `stuff_cnt`, `crc` are the variables of the loops; `PassBit`, `InsertStuffBit`, `EndNormalStuff`, `WriteStuffCnt` of `InsertNormalStuffBits` and what follows it, `ShiftCrc`, `WriteCrc` of the CRC, `PassCrcBit`, `InsertFixedStuffBit`, `EndFixedStuff` of `InsertFixedStuffToCrc`, `PassPlainBit`, `EraseStuffBit`, `EndErase` of the first loop of `UpdateFrame`; `EditAndUpdate`, `CorruptCrc` are the tests |
| `CanNode` | *external*: a CAN FD node that obeys ISO 11898-1, bit by bit | one action per state of the protocol and bit: fields, stuffing, CRC, acknowledge, error and overload flags and delimiters, both error counters, error passive, retransmission, one-shot mode, suspend transmission, bus-off, protocol exception, restricted operation |
| `CtuCanFdInterface` | how tests command the DUT | operators on the node: `Enable`, `SendFrame` with the rotation of the TXT buffers, `SetRec`, `SetTec`, `SetErrPas`; the queue of the node is the order of its buffers |
| `ClosedLoop` | one run of a test class against the node | `elem` is the position of `Run`; `RunWith` is PushFramesToLT with RunLT; `BitTime` drives and compares one bit; `FinishElemTest` does the reads of the checks, and restarts a DUT that is bus-off where the class does |
| `TestIso_7_1`, `7_2`, `7_4`, `7_5`, `7_6`, `8_1`, `8_2`, `8_4`, `8_5`, `8_6` | `RunElemTest` and `ConfigureTest` of 132 test classes (7.3 is in `TestIso_7_4`, 8.3 in `TestIso_8_4`, 9.6 in `TestIso_8_6`) | an action per class, its set-up in `Setup_7_1` etc. |
| `BitTiming` | the generators of bit timings of `TestBase.cpp`; `Bit.cpp`, `TimeQuanta.cpp`, `Cycle.cpp` | pure operators: `GenerateBitTiming`, `CalcNumSPs`, `ConstructTQs`, `ShortenPhase`, `LengthenPhase`, `ForceTQ`, `CorrectPh2LenToNominal`, ... A bit is a sequence of time quanta, one of those a sequence of cycles |
| `TestSequence` | `TestSequence.cpp`, and what the CAN agent makes of the items | `AppendDriverFrame`, `AppendMonitorFrame`; `Played`, `Rates` read the items back; `Fit` is what the code asserts and assumes of the bits |
| `TimedLoop` | one run of a bit timing class against a node that samples and synchronizes in clock cycles | `PushFramesToLT`; `TimedBit` plays one bit of the monitored frame; `TimedFinish`. The node is *external*: hard synchronization, resynchronization by at most SJW, input delay, secondary sample point |
| `TestIso_7_7`, `7_8`, `8_7`, `8_8` | `RunElemTest` and `ConfigureTest` of the 61 bit timing classes | an action per class, its set-up in `Setup_7_7` etc. |
| `BitTimingTests` | the 61 classes together | `Next`, `Spec`, and what is assumed of the timings they run in |
| `MC*` | instances for TLC | constants only, and for `MCBitTiming` the classes that have elementary tests in a bit timing |
| `*Proofs` | theorems | |

`TestRun` and `LowerTester` take the commands of the library as blocking calls with an effect
at one point of time. That is what `ImplementsBlockingCalls` establishes for the channel:
`SimulatorChannel` implements `RequestChannel`. `ClosedLoop` takes a round of the lower tester
as the comparison of two sequences of bits; `LowerTester` shows that driver and monitor are
in step with the DUT, and that a round passes exactly when the DUT did what was expected.
The verdict of `TestRun` is likewise what `ClosedLoop` leaves to the code around RunElemTest.

`\E x \in {expression} : ...` in the modules of the tests names a value that is computed once,
such as a frame; TLC evaluates a LET anew in each use.

## 3. What TLC checks

### `channel` (`MCSimulatorChannel_GHDL_VPI.cfg`)
All interleavings of the test thread, the callback and the test bench, with a value for each
of the handshake's shared variables. Between requests nothing is left of the last one
(`QuietBetweenRequests`: while `req` is down the automaton is FREE and both signals are low);
while `pli_req` is up, the signals hold the operands of the call being made
(`OperandsOfTheCall`) and do not change (`FieldsStableWhileRequested`); request and
acknowledge alternate in four phases (`FourPhase`); the value a read picks up is that of its
own answer (`ResultOfTheCall`); each call returns (`CallsReturn`); and the whole implements
`RequestChannel` (`ImplementsBlockingCalls`).
*Bounds.* Five commands that between them have each shape a command of the library can have
for each field (assumption `ShapesCovered` evaluates that over the whole library), two operand
values and two answers: a stale operand or answer differs from the right one.

### `run_all_checks`
`TestRun` for a CAN FD enabled DUT (the constructor of TestBase admits no other,
TestBase.cpp:42), each kind of variant match, two elementary tests, any mixture of checks and
assertions that pass or fail and of reconfigurations. No vector of elementary tests is missing
(`VectorForEachVariant`); each test that was asked for runs, once, unless something failed
(`OnlyFailuresSkipTests`, `EachRunsOnce`); a test only goes on with a DUT that has integrated
(`DutOnInElemTest`); the first verdict is right (`ImplementsVerdict`). `CheckRxFrame` sends a
verdict in the middle of a test, which then goes on and sends another; the test bench may stop
the simulation at any time after the first, and the next call of the test never returns. That
does no harm: a test reported as passed has ended and run all that was asked for, and one that
was cut short was reported as failed, for a mismatch (`NoUnfinishedTestPasses`); every test
that is not cut short ends (`RunEndsUnlessReported`). That a failing elementary test is the last
(`FailureStopsTheRun`) does *not* hold with `CheckRxFrame` or with a class that returns `false`;
see the run `return_false`, and the theorem `FailureStops` for all other tests.
*Bounds.* Two elementary tests and two steps in each: a failure before, in, and after the last
step of a test, and a test before and after it. All variant matches are tried, so two or three
variants follow one another.

### `lower_tester_rounds`
Three rounds of a reception or a transmission test, with a DUT that behaves, deviates at any
tick, or never transmits, and time passing between any two calls. `MonitorInSync`,
`DriverInSync`: driver and monitor are at the tick the DUT is at; `CleanBetweenRounds`;
`PassedIffExpected`: a round passes exactly when the DUT did what was expected;
`TimeoutOnlyWithoutFrame`: only a DUT that sends nothing makes a wait time out; `RoundEnds`.
*Bounds.* Frames of three ticks (first, inner, last), an input delay of two, shorter than the
frame as in the test bench; three rounds, so that what the first leaves behind could be
cleared wrongly in the second and noticed in the third. The proofs are for all lengths.

### `handover_nvc`
Registration, handover and the life of the test thread in NVC, where a callback registered
after the one of the control request is not called again once that one has been called
(simulator_interface.c:170). `OneTestThread`, `RightTest` (the thread reads the name buffer
after the callback has returned), `ClockSurvivesHandover`, `TestEnds`; that a signal is looked
up once is a part of `TypeOK`.
*Bounds.* Two names; four requests, enough for the calls of the thread to find all signals in
the cache and to interleave with the end of the control request.

### `frame_update`
Frames of all kinds are built, edited as the tests edit them, and updated; or a bit of the CRC is
flipped, as TestIso_7_6_10 does, and the frame updated without calculating the CRC again. When no
loop is running, the stuff bits are where a receiver looks for them (`StuffBitsWhereReceived`), the
stuff count and parity are those it counts (`StuffCountAsReceived`), the CRC leaves no remainder,
but in a frame in which it was flipped (`CrcAsReceived`), and an updated frame is one that was built
with the edited content (`UpdatedAsBuilt`). `UpdatedAsBuilt` also says that the loops, round by
round, make of a frame what the operators of `BitFrame` make of it at once: those are what the
test classes of `ClosedLoop` use.
*Bounds.* Identifiers and data of at most two runs of equal bits: they put five equal bits on
every boundary, among them the end of the data before the stuff count, SRR and IDE, and
the first bits of the CRC; one frame with 20 bytes for the CRC of 21 bits. A frame is updated once;
an update begins by erasing every stuff bit, so that a second one starts from what the first did.

### `compliance_tests`
Each of the 132 classes, all its elementary tests in the order of Run, in both variants, against
`CanNode`, without a reset between them. `MonitorAgrees`: in each bit the node sends what the
class has the monitor expect. `ReadsWhatWasReceived`, `CountersAsChecked`: the frames and
counters the class checks are those the node has by then. `NothingLeftToSend`: nothing is
pending when an elementary test ends, and the node takes part in the bus unless the class is about
bus-off. So a DUT that obeys the standard passes each class, and
a class whose frames are one bit off, or which depends on what an earlier elementary test left
in the DUT, would be found.
*Bounds.* `TwoOutcomes`: two outcomes of the random number generator for what a test draws, one
with few stuff bits and one with runs of equal bits from the identifier to the CRC; tests that
draw frames until one fits are given a list of draws. `MaxRounds = 8`: of the loops inside an
elementary test (over stuff bits, bits of the CRC, ...) the first and the last round are run and,
if there are more than eight, six or fewer at equal distances between them; of TestIso_9_6_2, in
which each round goes on from the counters of the one before, all 129 are run. With
`MaxRounds = 2000` every round of every loop is run, which takes about five minutes (some
3.5 million states); the result is the same.
`NumTxtBuffers = 2`: the classes leave at most two frames pending at a time, and a third would find
no free buffer. They send an even number of frames before each such pair, so that with an even number
of buffers the second frame of a pair is never given to the first buffer while the other waits in the
last; the run `txt_buffer_order` has three buffers, with which it is.
The run is a large number of long, nearly deterministic behaviours: each state is one bit of one
test.

### `bit_timing`
Each of the 61 classes of 7.7, 7.8, 8.7 and 8.8, all elementary tests, in four bit timings, cycle
by cycle. `ConformingDutPasses`: a node that samples and synchronizes as ISO 11898-1 says
takes each bit for what the class has it be, sends what the monitor expects in each cycle in
which the monitor looks, and counts the errors the class expects. `SequenceMatchesFrame`: the
frames a class has made are such that `TestSequence` can make items of them (`FramesFit`: it asserts
that no time quantum is forced in a bit in which the bit rate may change, and assumes of the other
bits that the first time quantum is as long as the rest; that one lengthened or shortened
by itself is not, as in TestIso_8_7_3, concerns the sample rate of that bit only); the items pushed, played back, are the
cycles of the frames, and the monitor's sample rates are the lengths of their time quanta, in
the bits where the bit rate changes too.
`MinimalDurations`: no elementary test gives the DUT a bit timing with segments too short for it.
*Bounds.* The timings differ in what the classes depend on: PH2 longer than SJW; PH2 equal to
SJW; time quanta longer than the input delay; TSEG1 longer than two bits of the data phase, for
the secondary sample point of 8.8.2, which is run in the last one only. One frame is drawn, of two
kinds of bits in each field: the classes look for an edge, and the frame has both. The choices
`rand()` makes inside an elementary test are one each, and vary from test to test.
*Suppositions about the node.* An input delay and an information processing time of two cycles;
edges it sees before the sample point leave its grid of time quanta where it is, and a hard
synchronization restarts it; of a bit with a secondary sample point the value there counts. The
monitor samples at the end of its sample period. The DUT sees the bus from a cycle that is a
multiple of its time quantum.
*Left out* are three cases in which a class supposes of the timing what it does not ask for with a
`TEST_ASSERT`: TestIso_7_7_11 where SJW is the whole of PH2, TestIso_7_8_5_3 where it is not, and the
elementary tests of TestIso_8_7_8 in which SJW leaves no more of PH2 than the input delay.

### Fairness
- Channel: weak fairness of the test thread (it polls, and its host thread is scheduled) and of
  the callback (`pli_clk` is a free running clock of the test bench); strong fairness of the
  steps of the test bench, which are enabled only between two callbacks: it is a clocked
  process that reacts within a number of clock cycles.
- `TestRun`: weak fairness of the test thread, of the integration of an enabled DUT (eleven
  recessive bits on an idle bus) and of the end of the simulation after it was asked for.
  Without the second, `WaitDutErrAct` polls for ever; the code has no timeout there.
- `LowerTester`: weak fairness of the test thread, of a DUT's decision to transmit or not, and
  of time. The wait timeout of the agent (PliComplianceLib.hpp:523-540), far longer than a frame, is an action that is
  enabled while nothing moves.
- `SimulatorInterface`: weak fairness of the simulator, its callbacks, the test bench and the
  thread.

No fairness is stated where only safety is checked (`FrameUpdate`, `ClosedLoop`, `TimedLoop`).

### Deadlock
Deadlock is checked in the channel, which never stops, and in the two closed loops, where a class
that could not run its next elementary test, or a node without a step for a bit, would be one.
In the other runs the modelled program ends.

## 4. Where the code disagrees with what is said of it

Five runs end with a counterexample. Each checks one statement the repository makes.

| run | property | what the code does |
|---|---|---|
| `channel_vhpi_read` | `ReadReturnsTheAnswer` | In a VHPI build the value read is copied without a terminating NUL into a buffer that is not initialised, and made a string: it may run on past the value. |
| `rx_mismatch` | `MismatchFailsTheTest` | `CheckRxFrame` stores `(int)TestResult::Failed`, which is 1, in `test_result`, which is otherwise 1 for passed. The mismatch does not fail the test by itself; that the failed verdict it sends is the first one does. |
| `return_false` | `FailureStopsTheRun` | `RunElemTest` of TestIso_7_6_22 returns `false` after a failure: that is 0, success. |
| `tested_bit` | `LosesOnTestedBit` | In CAN FD, elementary test 31 of TestIso_8_1_4 makes the DUT lose arbitration on SRR and not on IDE, as its comment intends: the RTR flag given is dropped and the bit in its place is a dominant R1. |
| `txt_buffer_order` | `SentInOrderOfCalls` | "even if two frames are sent at once, they are always transmitted by DUT in order in which SendFrame has been called" (CtuCanFdInterface.cpp:272-275). `SendFrame` goes back to the first TXT buffer whatever is pending. In a DUT with three, the second elementary test of TestIso_8_5_7 gives its first frame to the last buffer and its second one to the first, and a DUT that has both before it begins to send takes the second one first. With an even number of buffers no class comes to that. |

Differences met while reading that no property depends on:
- `FinishTest` casts `test_result`, in which 1 is passed, to `TestResult`, in which 1 is `Failed`
  (TestBase.cpp:246): what `Run` returns is the opposite of the verdict, "Returns value based on
  test result" (TestBase.h:247).
- TestIso_8_1_6 and 8_1_7: the data tables for CAN FD lack the 0xE1 row that the table at
  TestIso_8_1_6.cpp:61 has; identifiers 0x47C for 0x4C7 (8_1_6) and 0x07C30F0F for 0x07C0F0F0
  (8_1_7, second of the CAN variant).
- TestIso_7_2_5: the table at lines 53-59 names other fields than the code at 214-218, and
  elementary test 5 of CAN FD is skipped with a TODO.
- TestIso_7_2_8 and 7_6_22: a DLC "greater than 10" is drawn as `rand() % 5 + 0xA`.
- TestIso_7_1_10: in the CAN FD cases 2 to 8 the data are those of the first.
- TestIso_7_6_9: the comment at 279-292 describes fields that are no longer drawn.
- TestIso_8_5_10: a frame with a DLC of 8 is given the address of one byte, so that the other seven
  are whatever lies behind it (114). In the model they are those of the draw.
- TestIso_8_6_20 and 8_6_21: "flip last bit of base id to recessive", says the comment, and the
  code makes it dominant; the loss of arbitration that follows makes it recessive all the same.
- "Have same bit-rate, but different sample point" (TestBase.cpp:829): at the nominal bit rate with a
  prescaler of 3 or more, PH2 of the last sample point is lengthened from one time quantum to
  two, and the bit with it (theorem `BitRateKept`). The least PH1 that TestIso_8_7_6 and 8_7_7 ask
  for lengthens the bit too.
- TestIso_7_8_5_3 lets an edge come that is SJW early only if SJW is the whole of PH2, and TestIso_7_7_11
  needs it to be shorter; neither asserts it. TestIso_8_7_5 subtracts SJW from PH2 unsigned. The
  outcome of TestIso_8_7_8 depends on the cycles its DUT needs to see an edge.
- TestIso_7_7_9_2 shortens PH1 and Prop by the length of PH2; TestIso_7_8_2_2 loops over PH2 of the
  data bit rate on a nominal one; TestIso_7_8_5_1 bounds a loop over ESI by the length of BRS.
- TestIso_7_7_8: the comment says a passive error frame, the code inserts an active one in what is
  driven. TestIso_8_8_3_2: "followed by dominant bit", and a recessive one is looked for.
  TestIso_8_8_5_1 and 8_8_5_2: the texts of the assertions name TQ(N), the conditions TQ(D).
- `AppendMonitorFrame` has no next bit to look at in a frame of one; `AppendDriverBit` loses the
  cycles before a last time quantum that is empty (excluded by a `TEST_ASSERT` in TestIso_8_7_2);
  `ShortenPhase` decrements an iterator at the beginning of its list where the first time
  quantum is erased (TestIso_7_7_9_1), which the model takes as a step to the one before.

Hazards that were met and are not listed in PROJECT.json: `hman_cleanup` leaves `list_head`
dangling (pli_handle_manager.c:275; it is called at the end of the simulation); an unknown name
of a test yields a null pointer that is used (TestLoader.cpp:745); the loop that draws a CRC bit
is unbounded (TestIso_7_2_5.cpp:126); and those of TestIso_8_8_3_2 and its like.

## 5. What is proved

The proofs need the assumptions on constants named in the modules (`CommandAssumption`,
`ValueAssumption`, `BuildAssumption`, `VersionAssumption`, `LenAssumption`,
`DelayAssumption`, ...), which TLC evaluates in the runs; no bound of a run is used.

| module | theorems | argument |
|---|---|---|
| `SimulatorChannelProofs` | `TypeCorrect`, `NoLeftovers`, `OwnOperands`, `OwnResult`, `FieldsHoldStill`, `FourPhaseHandshake`, `CallsAreBlocking` | `ChannelInv`: types, `Phases` (which combinations of test thread, `req`, `fsm`, callback, `pli_req`, `pli_ack` and agent occur), `FieldsOfTheCall` (from `FillFlags` on the fields the command uses are the call's), `OperandsOfTheCall`, `ResultSoFar` (once answered, the operation executed last is the call's and `pli_data_out` its answer). The four properties are not inductive: that a request is over when `req` falls follows only with the phase of the handshake, and that the signals are the call's only with the fields being so before the callback copies them. The two action properties need the phase as well. `CallsAreBlocking`, for the build whose read ends its string, is the safety part of the refinement of `RequestChannel`: the call is executed at the agent's answer and returns at `ReturnResult`, every other step but the call itself is a stutter. |
| `TestRunProofs` | `RunTypeCorrect`, `VectorsComplete`, `DutReady`, `VerdictIsRight` | `RunInv`: types, a vector for each variant, an integrated DUT from the end of the set-up on, and `ResultSoFar`, which relates `test_result` to what has failed until the first verdict is sent. `VerdictIsRight` is the safety part of the refinement of `Verdict`: initial states map to initial states and each step to a step or a stutter. |
| | `NoTestSkipped`, `NoTestRunsTwice`, `NoPassBeforeTheEnd`, `FailureStops` | `LoopInv`, with `RunInv`: no variant is made twice (`VariantsDiffer`), the vector of each holds the elementary tests asked for it, once each (`VectorsAsAsked`), and the tests that have run are those at the places the two indices have passed (`RanSoFar`). That nothing is skipped is not inductive: it holds when Run leaves the loops because every place has been passed, and a run that ends early has failed. `NoPassBeforeTheEnd` holds for all checks: until the test has ended only `CheckRxFrame` sends a verdict, and only a failed one (`VerdictInv`), `ResultSoFar` says what `FinishTest` sends, and `OnlyFailuresSkipTests` that all has run then. `FailureStops` assumes the tests it is about, with no `CheckRxFrame` and no `return false`; the runs `rx_mismatch` and `return_false` show what the others do. |
| `LowerTesterProofs` | `LowerTesterTypeCorrect`, `MonitorStaysInSync`, `DriverStaysInSync`, `RoundsStartClean`, `VerdictOfRound`, `OnlyMissingFramesTimeOut` | `RoundInv`: for each place of the test thread, where driver, monitor and DUT are: set up (`SetUpInv`), idle between rounds (`IdleInv`), waiting for the DUT (`TransmitInv`), within a frame (`FrameInv`: the positions differ by the input delay in reception tests and are equal in transmission tests). |
| `SimulatorInterfaceProofs` | `SimulatorInterfaceTypeCorrect`, `HandoverOnce`, `TestIsTheOneAsked`, `ClockOutlivesHandover` | Types with a list of handles that names each signal once: a look-up appends only what it has not found, in any order the callbacks come. Whether a thread exists is a function of the handover signals; the name buffer holds the name asked for from the handover to its use; the order of registration, for each simulator. |
| `BitTimingTestsProofs` | `GeneratedWithinRegisters`, `GeneratedLongEnough`, `BitRateKept`, `EverySamplePointTested` | The generators are functions of a bit timing, so that there is no invariant: the theorems hold for every bit timing with room for a sample point (`RoomForSamplePoint`: with less, the number of sample points wraps), every index and both bit rates. The number of sample points is the length of the bit less the least PH1 and the least PH2 (`LastPh2`); durations, in cycles, are products, and a case for each short prescaler and one for the others (`ProductAtLeast`) makes them linear. The last two suppose that no phase is cut to the width of its register. |
| | `ItemsPlayFrames` | Frames of any length, bits of any time quanta and cycles: if both frames `Fit`, the items match them. `Joined` and `RunsOf` are loops, so that the induction is that of `LoopProofs`. The invariant of `RunsOf`: what has been put out, played, and behind it the run not yet put out are the cycles passed so far (`RunsPlay`). It ends with the last cycle of the bit only if the last time quantum has one, which is why `EndsWithCycle` is part of `Fit`. The items of a bit play the bit, and `PartsPlay` joins the bits of a frame. Where the bit rate may change, the bit is cut where PH2 begins (`TwoSegments`), which needs PH2 to be behind the rest and Sync to be first. |
| | `TimingsLongEnough` | `ElemInv`: the elementary test that runs is one that `ConfigureTest` has added; `TimingInv`: the timing in force leaves TSEG1 and TSEG2 their minimal durations. `MinimalDurations` alone is not inductive: that a sample point is long enough follows from its index being no larger than `CalcNumSPs` counts, and the index from what the class was set up with; and TestIso_8_8_1_2 and 8_8_1_4 take the timing of a test from the one before, so that the invariant says which parts of it are still those the run began with. One lemma per module of classes shows which classes change the timing at all. |
| | `SequenceMatchesFittingFrames` | `FramesFit` implies `SequenceMatchesFrame`, in every state and for any frames: an instance of `ItemsPlayFrames`. That the frames the classes make do fit is what the run checks. |
| `LoopProofs` | (lemmas) | Loops by halves are the rounds of the loop one after another: `LoopTraced`. See *The loops as functions*. |
| `FrameUpdateProofs` | `FrameInvariant`, `FieldsAreKept`, `StuffBitsWhereReceivedHolds`, `StuffCountAsReceivedHolds` | `FrameInv`: types; `Placed`: without its stuff bits the frame is the bits that were built, in their order and with the values they were given, but for those that are calculated (each step moves the places up or down); and `PhaseInv`, an invariant for each loop. See below. |
| `FrameLoopsProofs` | `LoopsInvariant`, `UpdatedAsBuiltHolds`, `CrcAsReceivedHolds` | `LoopsInv`, with `FrameInv`: at each round a loop has made of its frame what the function of `BitFrame` makes of the bits passed so far, and whenever no test has flipped a bit of the CRC and the CRC has been written, it is the one `CalcCrc` gives. With this module every property of the run `frame_update` is proved. See *The loops as functions*. |

`FrameInv` holds for every golden frame, however long its fields, and every edit. The loops
depend on each other in ways that the properties do not show:
- The first loop of `UpdateFrame` passes over the bit behind each one it erases. It erases every
  stuff bit only because no two stand side by side (`NoTwoStuffBits`, an invariant that
  stuffing has to establish: a stuff bit begins a run of one, and none is inserted before the stuff
  count, where a fixed one follows). `EraseInv` carries that over the loop while positions shift.
- `RunOfEqualBits`: `same_bits` is the whole run that ends at the bit before, stuff bits included;
  that is what a receiver counts. It is 5 only before the stuff count, where the exception is.
- `StuffedInOrder`: up to the loop's position a bit is a stuff bit exactly if the five before it are
  equal, and `stuff_cnt_` is their number modulo eight. The CRC and the fixed stuff bits are
  written behind that part or on values that no longer matter (`StuffedPart`, `CountPart`).
- An edit finds its field by the first bit of the kind, in a frame with stuff bits. That it is the
  first bit built of the field (`SameFirst`) rests on a stuff bit being in the field of the bit
  before it (`StuffFollowsField`), which `StuffedBefore` carries.
- `FixedStuffInv`: from the stuff count on each fifth bit is a stuff bit; the loop counts
  bits without stuff bits, four at a time (`EveryFifth`).

*The loops as functions.* `BitFrame` makes a frame in one evaluation, and the test classes of
`ClosedLoop` use it so; `FrameUpdate` makes it round by round, as the code does. The theorems of
`FrameLoopsProofs` say that both are the same and that the CRC is right, for frames of any length:
- A function of `BitFrame` is a loop by halves (`Loop`). `LoopTraced` (`LoopProofs`), by induction on the number of
  rounds, says that it is a *trace*: a function on `0 .. n` whose every value is the one before
  and one more round. A trace is what an invariant can be about: a step of `FrameUpdate` adds a round.
- `SoFar` relates the list that a loop changes to a trace: in front, what the rounds have put out; behind,
  the bits not reached. `StuffLoop`, `CrcLoop` and `FixedLoop` add the variables of each loop
  (`same`, `prev`, `stuff_cnt`, `crc`), and `LoopAt`, the core of `LoopsInv`, takes the one of `pc`.
- An update starts from a frame whose stuff count and CRC hold the values of the frame before it. Frames
  that differ in these alone make the same frame, since no loop reads them before they are written.
  This is what makes an updated frame one that could have been built from its content, with nothing left of
  its history. A CAN frame is stuffed over its CRC, so there the CRC is written first; `WithCrc`
  and `Filled` say from where on a frame has the CRC that is due.
- `Division`: to shift a bit into the register is a step of the division by the polynomial, so that a
  CRC that follows a message leaves the remainder zero exactly if it *is* the register. `CrcAsReceived` has
  both directions: a frame in which a bit of the CRC was flipped leaves one.
- The receiver divides the bits it takes for protected, which it finds by `StuffPositions` in a frame
  with all stuff bits; `CalcCrc` runs over the frame earlier, before any stuff bit (CAN) or
  before the fixed ones in the CRC (CAN FD). `CanCrcHolds` and `FdCrcHolds` say that these are the
  same bits. In CAN FD the regular stuff bits are protected and the fixed ones are not
  (`FixedStuffAfter`, `UnfixedBeforeCount`), and the leading one in the register is an
  inverted first bit to the receiver (`FdRegister`).

TLC checks `LoopsInv` by its consequences only, the properties of `frame_update`: it quantifies over all
frames and traces, which are too many to enumerate.

The assumptions the proofs about frames and about the timings of the classes rest on, each evaluated by TLC on the instance of its run:
- `ContentsAssumption`: a golden frame has flags that are 0 or 1 and fields of bits. No length
  is assumed.
- `TimingsAssumption`: the timings given to the run have segments long enough, the data bit rate is no lower
  than the nominal one, and no length exceeds 65535 time quanta, far beyond the registers; a
  longer one would be taken for a length below zero that has wrapped.
- `ClassesAssumption`: the run asks for no more elementary tests of a class than `ConfigureTest` adds.
- `NominalBitAssumption`: TestIso_8_8_1_2 is run in a nominal bit of at most 65 time quanta. It limits
  PROP and PH2 to 63 each and takes the length of the bit anew in each test, so that in a longer
  bit it would change the bit rate it goes on from.

Only model-checked:
- everything under fairness (`CallsReturn`, `RunEndsUnlessReported`, `RoundEnds`, `TestEnds`, the liveness parts of
  the refinements), which is beyond the prover;
- `ClosedLoop` (`MonitorAgrees`, `ReadsWhatWasReceived`, `CountersAsChecked`, `NothingLeftToSend`) and
  `TimedLoop` (`ConformingDutPasses`): what they say is the outcome of a whole
  scripted exchange between one class and a node, bit by bit, of frames that the same recursive
  functions make;
- `FramesFit`, the first half of `SequenceMatchesFrame`: it depends on what each of the 61 classes does to
  which time quanta of which bits. The second half follows from it by theorem.

## 6. What is not modelled

- Variants of a DUT without CAN FD: the constructor of TestBase always sets a CAN FD enabled DUT.
  `FillTestVariants` is modelled for all versions, and proved for all.
- The timing inside a bit, in all but the bit timing classes: in `ClosedLoop` a bit is one value, in
  `LowerTester` a frame is a number of ticks. Lines of those classes that compensate the input
  delay are left out, as is the correction of PH2 before an error flag; `TimedLoop` has both.
- The CAN agent, the other agents and the DUT are no code of this repository. The agent is modelled
  from how `TestBase` and the documentation in `PliComplianceLib.hpp` use it; the DUT by the
  standard it has to obey. A node that is bus-off stays so until it is restarted: TestIso_8_5_11,
  which counts the bit times one controller needs to take part again, is left out.
- The words of frames in TXT buffers and RX FIFO: `SendFrame` hands over the frame, `CheckRxFrame` reads what
  the node received.
- Text: decimal and binary strings of operands, messages and logs; encodings of times.
- Signals that do not exist, and names of tests that the loader does not know.

## 7. Plan

The order follows what the system is for: first the path of one request, then one test, one
round of the lower tester, the frames, and then the classes against a node.

1. `RequestChannel`, `SimulatorChannel`, `PliComplianceLib` - done, safety, action properties and step refinement proved
2. `Verdict`, `TestRun` - done, safety and action properties proved
3. `LowerTester` - done, safety proved
4. `SimulatorInterface` - done, safety proved
5. `BitFrame`, `Frames`, `ReceiverRules`, `FrameUpdate` - done, every property proved: stuffing, stuff count,
   CRC, and the loops as the functions of `BitFrame`
6. `CanNode`, `ClosedLoop`, `TestIso_7_1` to `7_6`, `8_1` to `8_6` - done but for 8.5.11, model-checked
7. Recovery from bus-off in `CanNode`, and TestIso_8_5_11
8. `BitTiming`, `TestIso_7_7`, `7_8`, `8_7`, `8_8` in `TimedLoop` - done, model-checked; the generators of
   sample points, and the timings the classes make with them, proved
9. `TestSequence` - done, proved: the items play all frames that fit; that those of the classes fit is
   model-checked
10. `CtuCanFdInterface`: rotation of the TXT buffers - done, model-checked in both closed loops; words of
    the frames in the buffers left
11. Proofs left: lengths of the operators on phases in `BitTiming`

## 8. Running the checks

```
tlc -workers 2 -config MCSimulatorChannel_GHDL_VPI.cfg MCSimulatorChannel.tla
tlapm SimulatorChannelProofs.tla
```

and likewise for each run and each `*Proofs` module; PROJECT.json lists the runs with their
modules, configurations and expected results, a mutation of the model for each property that
makes it fail, and the lines of code each definition stands for.
