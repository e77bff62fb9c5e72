----------------------------- MODULE TimedLoop -----------------------------
(***************************************************************************)
(* The loop of ClosedLoop in clock cycles.  A test makes frames of bits    *)
(* with time quanta; TestSequence makes items of them; driver and monitor  *)
(* of the agent play and compare the items, against a node that samples    *)
(* the bus and synchronizes to it as ISO 11898-1 says.                     *)
(*                                                                         *)
(* Time is that of the input of the bit timing logic of the node.  The     *)
(* agent sees the node InputDelay cycles earlier, which is why its monitor *)
(* is delayed by that, unless the node transmits first: then it is the     *)
(* driver that arrives later.                                              *)
(*                                                                         *)
(* The modules TestIso_7_7, 7_8, 8_7 and 8_8 give RunElemTest of the       *)
(* classes.  A class is named by its number and by one of Timings.         *)
(***************************************************************************)
EXTENDS ClosedLoop, TestSequence

CONSTANT Timings    \* nominal and data bit timings (nbt, dbt), a sequence

VARIABLES
  frames,     \* frames made and not yet given to the lower tester, and checks
  timing,     \* nbt, dbt and secondary sample point, of the test and of the DUT
  clock       \* where in its bit the node is, and what it was before

timed_vars == <<vars, frames, timing, clock>>

NoFrames == [drv |-> <<>>, mon |-> <<>>, checks |-> NoChecks]

\* The secondary sample point is that far behind the begin of a bit or, if
\* measured, behind the begin seen at the input.
NoSsp == [measured |-> FALSE, offset |-> 0]

\* passed: time quanta of the bit before its output began; synced: an edge was
\* used since the last sample; level: that sample; sent: the bit before;
\* delay: from output to input, as measured in this frame.
AtRest == [passed |-> 0, synced |-> FALSE, level |-> Recessive, sent |-> Recessive, delay |-> 0]

\* A class of which the DUT sends the frames: SetupMonitorTxTests.
WithTx(setup, tx) ==
  [common |-> setup.common, fd |-> setup.fd, feedback |-> setup.feedback, pex |-> setup.pex,
   restricted |-> setup.restricted, one_shot |-> setup.one_shot, tec |-> setup.tec,
   rec |-> setup.rec, tx |-> tx]

Receiving(setup) == WithTx(setup, FALSE)
Sending(setup) == WithTx(setup, TRUE)

\* TEST_ASSERT in ConfigureTest: the test ends there.
Asserted(cond, setup) == IF cond THEN setup ELSE [setup EXCEPT !.common = 0, !.fd = 0]

TimedInit ==
  /\ Init
  /\ frames = NoFrames
  /\ timing = [nbt |-> Timings[elem.name[2]].nbt, dbt |-> Timings[elem.name[2]].dbt, ssp |-> NoSsp]
  /\ clock = AtRest

nbt == timing.nbt
dbt == timing.dbt

RunsTimed(number) ==
  elem.name[1] = number /\ test = NoTest /\ frames = NoFrames /\ ~TestEnded

-----------------------------------------------------------------------------
(* Frames with time quanta, and what tests do to them.                     *)

\* Bits as Bit constructs them, of a frame that switches the bit rate or not.
TimedBits(bits, shift, bts) ==
  [i \in DOMAIN bits |->
     bits[i] @@ [shift |-> shift, bts |-> bts, tqs |-> ConstructTQs(bits[i].kind, shift, bts)]]

ConvBitFrameTimed(gold, bts) ==
  TimedBits(ConstructFrame(gold), gold.fdf = CanFd /\ gold.brs = DoShift, bts)

ConvBitFrame(gold) == ConvBitFrameTimed(gold, [nbt |-> nbt, dbt |-> dbt])

\* Bits appended to those of a frame.
AppendBits(bits, more) == bits \o TimedBits(more, bits[1].shift, bits[1].bts)

Shorten(bits, i, phase, n) == [bits EXCEPT ![i].tqs = ShortenPhase(@, phase, n)]

Lengthen(bits, i, phase, n) ==
  LET bit == bits[i]
      bt == GetPhaseBitTiming(bit.kind, bit.shift, phase, bit.bts)
  IN  [bits EXCEPT ![i].tqs = LengthenPhase(@, phase, n, bt)]

BeforePh2(bits, i) == PrevBitPhase(bits[i].tqs, "Ph2")

\* Time quanta first to last, counted from 0, of a phase or of the bit.
ForceInPhase(bits, i, first, last, phase, val) ==
  [bits EXCEPT ![i].tqs = ForceTQ(@, first, last, phase, val)]

ForceInBit(bits, i, first, last, val) ==
  [bits EXCEPT ![i].tqs = ForceTQs(@, first + 1 .. last + 1, val)]

ForcePh2(bits, i, val) == ForceInPhase(bits, i, 0, Len(bits[i].tqs), "Ph2", val)

\* The last n time quanta of PH2.
ForceEndOfPh2(bits, i, n, val) ==
  LET len == GetPhaseLenTQ(bits[i].tqs, "Ph2") IN ForceInPhase(bits, i, len - n, len - 1, "Ph2", val)

SetVal(bits, i, val) == [bits EXCEPT ![i].val = val]

\* The last n cycles before bit i are dominant, for an edge that arrives late.
CompensateEdgeForInputDelay(bits, i, n) ==
  LET len == CyclesIn(bits[i - 1].tqs, DOMAIN bits[i - 1].tqs)
  IN  [bits EXCEPT ![i - 1].tqs = ForceCycles(@, len - n + 1 .. len, Dominant)]

PutAck(bits, n) ==
  LET at == GetBitOf(bits, 0, "Ack") IN CompensateEdgeForInputDelay(SetVal(bits, at, Dominant), at, n)

\* An error frame in place of the bits from i on; the bit before it goes on at the
\* nominal bit rate.
ErrFrmAt(bits, i, flag, val) ==
  LET before == bits[i - 1]
      ended == [before EXCEPT !.tqs = CorrectPh2LenToNominal(@, before.kind, before.shift, before.bts)]
  IN  AppendBits([SubSeq(bits, 1, i - 1) EXCEPT ![i - 1] = ended],
                 SubSeq(InsertErrFrm(bits, i, flag, val), i, i + 16))

ActErrFrmAt(bits, i) == ErrFrmAt(bits, i, "ActErrFlag", Dominant)
PasErrFrmAt(bits, i) == ErrFrmAt(bits, i, "PasErrFlag", Recessive)

-----------------------------------------------------------------------------
(* An elementary test.                                                     *)

\* The test changes the bit timing, or the secondary sample point, to tm.
RunTimedWith(dut, tm, drv, mon, checks) ==
  /\ frames' = [drv |-> drv, mon |-> mon, checks |-> checks @@ NoChecks]
  /\ node' = dut /\ timing' = tm
  /\ UNCHANGED <<elem, test, pos, mismatch, clock>>

RunTimed(drv, mon, checks) == RunTimedWith(node, timing, drv, mon, checks)

\* The monitor compares at the end of each sample period of an item.
Compared(items) ==
  Joined([k \in DOMAIN items |->
    [c \in 1 .. items[k].duration |-> IF c % items[k].rate = 0 THEN items[k].value ELSE Default]])

PushFramesToLT ==
  /\ frames # NoFrames
  /\ test' = [drv |-> Played(AppendDriverFrame(frames.drv)),
              mon |-> Compared(AppendMonitorFrame(frames.mon))] @@ frames.checks
  /\ frames' = NoFrames
  /\ UNCHANGED <<elem, pos, mismatch, node, timing, clock>>

-----------------------------------------------------------------------------
(* The bus at the input of the node, in cycle c.                           *)

\* Cycles from a pin to the bit timing logic, and those a decision takes there.
InputDelay == 2
Ipt == 2

Sent(c) == IF c < pos THEN clock.sent ELSE Sends(node)

Driven(c) ==
  LET i == c + 1 - (IF Setup.tx THEN InputDelay ELSE 0)
  IN  IF i \in DOMAIN test.drv THEN test.drv[i] ELSE Recessive

Rx(c) == IF Setup.feedback /\ Sent(c - InputDelay) = Dominant THEN Dominant ELSE Driven(c)

\* Edges to dominant among the cycles.
Edges(cycles) == {c \in cycles : Rx(c) = Dominant /\ Rx(c - 1) = Recessive}

-----------------------------------------------------------------------------
(* A bit of the node.                                                      *)

\* Between the sample points of BRS and of the CRC delimiter.
InDataPhase(d) ==
  /\ d.at \in {"stuffed", "fixed", "crc_delim"}
  /\ KnowsFormat(d.raw) /\ IsFd(d.raw)
  /\ Len(d.raw) >= FdfAt(d.raw) + 2 /\ d.raw[FdfAt(d.raw) + 2] = DoShift

RateOf(d) == IF InDataPhase(d) THEN dbt ELSE nbt

\* Between frames and, unless it transmits, from FDF to the bit after it.
HardSyncs(d) ==
  \/ d.at \in {"idle", "suspend", "integrating"} \/ (d.at = "interm" /\ d.n > 0)
  \/ d.at = "stuffed" /\ ~d.tx /\ KnowsFormat(d.raw) /\ Len(d.raw) = FdfAt(d.raw) /\ IsFd(d.raw)

\* Edges count behind a recessive sample; a transmitter ignores them in the data phase.
Listens(d, level) == level = Recessive /\ ~(d.tx /\ InDataPhase(d))

EdgesHeard(d, level, from, to) == IF Listens(d, level) THEN Edges(from .. to) ELSE {}

\* Begin of the bit, and its sample point if no edge comes late.
BitStart(bt) == pos - clock.passed * bt.brp
InTimeSamplePoint(bt) == BitStart(bt) + Tseg1Len(bt) * bt.brp

LateEdges(bt) ==
  IF Sends(node) = Recessive /\ ~clock.synced
  THEN EdgesHeard(node, clock.level, pos, InTimeSamplePoint(bt) - 1) ELSE {}

\* The sample point: an edge that comes late moves it, unless the bit is dominant.
SamplePoint(bt, edges) ==
  LET error == IF edges = {} THEN 0 ELSE (Min(edges) - BitStart(bt)) \div bt.brp
  IN  InTimeSamplePoint(bt) + (IF HardSyncs(node) THEN error ELSE Least(error, bt.sjw)) * bt.brp

\* A transmitter with a secondary sample point uses that in the data phase.
UsesSsp == timing.ssp # NoSsp /\ node.tx /\ InDataPhase(node)

Sampled(sp) ==
  Rx((IF UsesSsp THEN pos + timing.ssp.offset + (IF timing.ssp.measured THEN clock.delay ELSE 0) ELSE sp) - 1)

CeilDiv(a, b) == (a + b - 1) \div b

\* From the sample point sp to the end of the bit, if the edges come: an edge ends
\* the bit, or shortens it by SJW if it comes too early for that.  After a hard
\* synchronization the time quantum of the edge is the first of the bit.
Tseg2(bt, hard, sp, edges) ==
  LET late == Min(edges) - sp
      at == late \div bt.brp
      ends_it == edges # {} /\ bt.ph2 - at <= bt.sjw
      len == IF edges = {} THEN bt.ph2 ELSE IF ends_it THEN at ELSE bt.ph2 - bt.sjw
      served == Greatest(Greatest(len, CeilDiv(Ipt, bt.brp)), IF ends_it THEN CeilDiv(late, bt.brp) ELSE 0)
      begun == Greatest(1, CeilDiv(Ipt - late, bt.brp))
  IN  IF edges # {} /\ hard
      THEN [end |-> sp + late + begun * bt.brp, passed |-> begun, synced |-> TRUE]
      ELSE [end |-> sp + served * bt.brp, passed |-> served - len, synced |-> edges # {}]

\* Delay of the edge from FDF to the bit after it, less than a bit.
Measured ==
  IF node.tx /\ node.own[node.k + 1].kind = "R0" /\ node.own[node.k].kind = "Edl"
  THEN Min(Edges(pos .. pos + GetBitLenCycles(nbt)) \cup {pos + GetBitLenCycles(nbt)}) - pos
  ELSE clock.delay

\* Sampled with value b: the monitor compares all cycles of the bit.
SampledBit(sp, b) ==
  /\ NodeBit(b)
  /\ \E bt \in {RateOf(node')} :
     \E edges \in {EdgesHeard(node', b, sp, sp + bt.ph2 * bt.brp - 1)} :
     \E rest \in {Tseg2(bt, HardSyncs(node'), sp, edges)} :
       /\ pos' = rest.end
       /\ mismatch' = (mismatch \/ \E c \in pos + 1 .. rest.end :
                         c \in DOMAIN test.mon /\ test.mon[c] \notin {Default, Sends(node)})
       /\ clock' = [passed |-> rest.passed, synced |-> rest.synced, level |-> b,
                    sent |-> Sends(node), delay |-> IF InFrame(node) THEN Measured ELSE 0]

TimedBit ==
  /\ test # NoTest /\ ~Ended
  /\ \E bt \in {RateOf(node)} :
     \E edges \in {LateEdges(bt)} :
     \E sp \in {SamplePoint(bt, edges)} : \E b \in {Sampled(sp)} : SampledBit(sp, b)
  /\ UNCHANGED <<elem, test, frames, timing>>

TimedFinish == FinishElemTest /\ clock' = AtRest /\ UNCHANGED <<frames, timing>>

TimedStopped == Stopped /\ UNCHANGED timed_vars

-----------------------------------------------------------------------------
(* Properties.                                                             *)

\* A DUT that obeys ISO 11898-1 passes the bit timing tests: in every cycle the monitor
\* samples, it sends what the test expects, shortened and lengthened bits and bit rates
\* included; it has received what the test reads; and it has nothing left to send.
ConformingDutPasses == MonitorAgrees /\ ReadsWhatWasReceived /\ NothingLeftToSend

\* Frames are such that items can be made of them.
FramesFit == Fit(frames.drv, frames.mon)

\* Tests make frames of which TestSequence may take for granted what it asserts or says
\* it assumes: no time quantum is forced in a bit in which the bit rate may change,
\* before an error flag either, and the time quanta of other bits are equally long.  The
\* items play what the bits are, cycle by cycle, where tests have erased or forced time
\* quanta, too; and the monitor samples once in each time quantum.
SequenceMatchesFrame == FramesFit /\ ItemsMatch(frames.drv, frames.mon)

\* The DUT is given no bit timing with shorter phases than CTU CAN FD can work with, at
\* either bit rate, whichever sample point an elementary test moves to.
MinimalDurations == LongEnough(nbt, TRUE) /\ LongEnough(dbt, FALSE)
=============================================================================
