---------------------------- MODULE TestIso_7_2 ----------------------------
(***************************************************************************)
(* Error detection tests of a receiving DUT: the classes TestIso_7_2_*.    *)
(* Those with a letter repeat a test with an error passive DUT (a) and in  *)
(* restricted operation (b).                                               *)
(***************************************************************************)
EXTENDS TestIso_7_1

Setup_7_2 ==
  LET Restricted(setup) == [setup EXCEPT !.feedback = TRUE, !.restricted = TRUE]
  IN  "7.2.1" :> Class(1, 1)
      @@ "7.2.2" :> Fed(Class(0, 10)) @@ "7.2.2.a" :> Fed(Class(0, 10))
      @@ "7.2.2.b" :> Restricted(Class(0, 10))
      @@ "7.2.3" :> Fed(Class(0, 11)) @@ "7.2.3.a" :> Fed(Class(0, 11))
      @@ "7.2.3.b" :> Restricted(Class(0, 11))
      @@ "7.2.4" :> Fed(Class(0, 8))  @@ "7.2.4.a" :> Fed(Class(0, 8))
      @@ "7.2.4.b" :> Restricted(Class(0, 8))
      @@ "7.2.5" :> Fed(Class(3, 6))  @@ "7.2.6" :> Class(1, 2)
      @@ "7.2.7" :> Class(1, 1)       @@ "7.2.8" :> Fed(Class(0, 4))
      @@ "7.2.9" :> Class(1, 1)       @@ "7.2.10" :> Class(5, 5)
      @@ "7.2.11" :> Class(1, 1)

\* The lower tester does not acknowledge.
TestIso_7_2_1 ==
  /\ Runs("7.2.1")
  /\ \E bits \in {ConstructFrame(RandomFrame)} :
     LET after == GetBitOf(bits, 0, "Ack") + 1
     IN  RunElemTest(InsertActErrFrm(bits, after), InsertActErrFrm(ConvRXFrame(bits), after), NoChecks)

-----------------------------------------------------------------------------
(* Stuff errors: in each round one stuff bit is flipped.                   *)

\* What follows a flipped bit, by the state of the DUT.
ActiveError(bits, at, rounds) ==
  RunWith(SetRec(node, 0), InsertPasErrFrm(FlipVal(bits, at), at + 1),
          InsertActErrFrm(ConvRXFrame(bits), at + 1), [rounds |-> rounds])

PassiveError(bits, at, rounds) ==
  RunWith(SetErrPas(node), InsertPasErrFrm(FlipVal(bits, at), at + 1),
          InsertPasErrFrm(ConvRXFrame(bits), at + 1), [rounds |-> rounds])

\* The frame is cut off, and time passes for the DUT to take part again.
NoErrorFrame(bits, at, rounds) ==
  LET Cut(b) == SubSeq(b, 1, at) \o Field("Idle", Times(11, Recessive))
      dut == SetErrPas(node)
  IN  RunWith(dut, Cut(FlipVal(bits, at)), Cut(ConvRXFrame(bits)),
              [rounds |-> rounds, rec |-> {dut.rec}])

\* The stuff bit of a round, and the rounds there are: where the data end in five
\* equal bits, the stuff bit after them is the fixed one of the stuff count.
FlippedStuffBit(bits) == GetStuffBit(bits, elem.round - 1)

StuffBitRounds(bits) ==
  LET end == FirstOf(bits, "StuffCnt")
      fixed == IF \A i \in end - 5 .. end - 1 : bits[i].val = bits[end - 1].val THEN 1 ELSE 0
  IN  GetNumStuffBits(bits, "Normal") + fixed

\* The frames of 7.1.10 and 7.1.11 with other data.
FirstByte == <<248, 60, 30, 15, 135, 195, 225, 240, 0, 0, 0>>

StuffData == [data |-> FirstBytes(<<FirstByte[elem.index]>>, 85)]

StuffErrorFrame(frames, ide) == Frame(StuffData @@ frames[elem.index] @@ [ide |-> ide], draw)

BaseStuffBits ==
  LET gold == StuffErrorFrame(StuffedBaseFrames, Base)
  IN  Updated(BaseReserved(ConstructFrame(gold)), gold)

ExtStuffBits ==
  LET gold == StuffErrorFrame(StuffedExtFrames, Ext)
  IN  Updated(ExtReserved(ConstructFrame(gold)), gold)

LongData ==
  LET first == <<16, 120, 52, 18, 15, 23, 67, 33>>
      others == <<120, 60, 30, 15, 135, 195, 225, 240>>
  IN  FirstBytes(<<first[elem.index]>>, others[elem.index])

DataStuffBits ==
  ConstructFrame(Frame([fdf |-> CanFd, ide |-> Base, rtr |-> Data, brs |-> DoShift,
                        esi |-> ErrAct, dlc |-> 15, ident |-> 1365, data |-> LongData], draw))

FlippedWhileActive(bits) == ActiveError(bits, FlippedStuffBit(bits), StuffBitRounds(bits))
FlippedWhilePassive(bits) == PassiveError(bits, FlippedStuffBit(bits), StuffBitRounds(bits))
FlippedWhileRestricted(bits) == NoErrorFrame(bits, FlippedStuffBit(bits), StuffBitRounds(bits))

TestIso_7_2_2   == Runs("7.2.2") /\ FlippedWhileActive(BaseStuffBits)
TestIso_7_2_2_a == Runs("7.2.2.a") /\ FlippedWhilePassive(BaseStuffBits)
TestIso_7_2_2_b == Runs("7.2.2.b") /\ FlippedWhileRestricted(BaseStuffBits)

TestIso_7_2_3   == Runs("7.2.3") /\ FlippedWhileActive(ExtStuffBits)
TestIso_7_2_3_a == Runs("7.2.3.a") /\ FlippedWhilePassive(ExtStuffBits)
TestIso_7_2_3_b == Runs("7.2.3.b") /\ FlippedWhileRestricted(ExtStuffBits)

TestIso_7_2_4   == Runs("7.2.4") /\ FlippedWhileActive(DataStuffBits)
TestIso_7_2_4_a == Runs("7.2.4.a") /\ FlippedWhilePassive(DataStuffBits)
TestIso_7_2_4_b == Runs("7.2.4.b") /\ FlippedWhileRestricted(DataStuffBits)

-----------------------------------------------------------------------------
(* CRC errors.                                                             *)

\* The loop that draws bits of the CRC until one can be flipped without a stuff
\* error.
RandomCrcBit(bits, wanted) ==
  LET good == SelectSeq([i \in 1 .. Len(bits) - 1 |-> i], LAMBDA i :
                 /\ bits[i].kind = "Crc" /\ ~IsStuff(bits[i]) /\ ~IsStuff(bits[i + 1])
                 /\ bits[i].val \in wanted)
  IN  good[Rand(Len(good)) + 1]

\* The stuff bits are placed again, the CRC remains wrong.
Restuffed(bits, gold) == UpdateFrame(bits, CrcLen(gold), FALSE)

InsertCrcError(bits, gold, val) ==
  Restuffed(FlipVal(bits, RandomCrcBit(bits, {val})), gold)

CrcErrorFrame ==
  LET dlc == IF elem.fdf = Can20 THEN 0
             ELSE IF elem.index \in {1, 3} THEN Rand(11)
             ELSE IF elem.index \in {2, 4} THEN Rand(5) + 11 ELSE Rand(15)
      id == IF elem.fdf = Can20 /\ elem.index = 3 THEN 1 ELSE draw.ident
  IN  Frame([fdf |-> elem.fdf, ide |-> Base, dlc |-> dlc, ident |-> id], draw)

\* The driven frame and, before it is made one of a receiver, the monitored one.
CrcErrorFrames(gold, bits) ==
  IF elem.index <= 2 \/ (elem.fdf = CanFd /\ elem.index <= 4)
  THEN Times(2, InsertCrcError(bits, gold, IF elem.index \in {1, 3} THEN Dominant ELSE Recessive))
  ELSE IF elem.fdf = Can20 THEN <<SetBitOf(bits, 0, "Sof", Recessive), bits>>
  ELSE <<FlipBitOf(FlipBitOf(bits, 0, "StuffParity"), 1, "StuffParity"), bits>>

\* The fifth elementary test of a CAN FD enabled DUT is skipped.
TestIso_7_2_5 ==
  /\ Runs("7.2.5")
  /\ \E gold \in {CrcErrorFrame} :
     \E frames \in {CrcErrorFrames(gold, ConstructFrame(gold))} :
       IF elem.fdf = CanFd /\ elem.index = 5 THEN RunElemTest(<<>>, <<>>, NoChecks)
       ELSE RunElemTest(PasErrAt(frames[1], 0, "Eof"),
                        ActErrAt(NoAck(ConvRXFrame(frames[2])), 0, "Eof"), [no_more |-> TRUE])

\* A form error of the CRC delimiter after a CRC error.
TestIso_7_2_6 ==
  /\ Runs("7.2.6")
  /\ \E dlc \in {IF elem.fdf = Can20 THEN Rand(9)
                  ELSE IF elem.index = 1 THEN (IF Rand(2) = 1 THEN 9 ELSE 10) ELSE Rand(5) + 11} :
     \E gold \in {Frame([fdf |-> elem.fdf, dlc |-> dlc], draw)} :
     \E bits \in {ConstructFrame(gold)} :
     \E wrong \in {Restuffed(FlipVal(bits, RandomCrcBit(bits, {Dominant, Recessive})), gold)} :
     LET drv == SetBitOf(wrong, 0, "CrcDelim", Dominant)
         mon == CompensateCrcLength(ConvRXFrame(bits), GetFieldLen(drv, "Crc"))
     IN  RunElemTest(ActErrAt(drv, 0, "Ack"), ActErrAt(mon, 0, "Ack"), NoChecks)

TestIso_7_2_7 ==
  /\ Runs("7.2.7")
  /\ \E bits \in {ConstructFrame(RandomFrame)} :
       RunElemTest(ActErrAt(SetBitOf(bits, 0, "CrcDelim", Dominant), 0, "Ack"),
                   ActErrAt(ConvRXFrame(bits), 0, "Ack"), NoChecks)

\* Fixed stuff bits of a value, in turn.
FixedStuffBits(bits, val) ==
  SelectSeq([i \in DOMAIN bits |-> i], LAMBDA i : bits[i].stuff = "Fixed" /\ bits[i].val = val)

FixedStuffFrame ==
  LET dlc == IF elem.index % 2 = 0 THEN Rand(5) + 10 ELSE Rand(10)
  IN  Frame([fdf |-> CanFd, rtr |-> Data, dlc |-> dlc], draw)

TestIso_7_2_8 ==
  /\ Runs("7.2.8")
  /\ \E bits \in {ConstructFrame(FixedStuffFrame)} :
     LET fixed == FixedStuffBits(bits, IF elem.index < 3 THEN Recessive ELSE Dominant)
     IN  ActiveError(bits, fixed[elem.round], Len(fixed))

-----------------------------------------------------------------------------
(* Form errors at the end of the frame.                                    *)

\* A dominant bit, and from position at on error flags of both.
FormError(bits, drv, n, checks) ==
  RunElemTest(ActErrAt(WithAck(drv), n, "Eof"), ActErrAt(ConvRXFrame(bits), n, "Eof"), checks)

TestIso_7_2_9 ==
  /\ Runs("7.2.9")
  /\ \E bits \in {ConstructFrame(RandomFrame)} :
     LET acked == IF elem.fdf = CanFd THEN SetBitOf(bits, 1, "Ack", Dominant) ELSE bits
     IN  FormError(bits, SetBitOf(acked, 0, "AckDelim", Dominant), 0, NoChecks)

TestIso_7_2_10 ==
  /\ Runs("7.2.10")
  /\ \E bits \in {ConstructFrame(RandomFrame)} :
       FormError(bits, SetBitOf(bits, elem.index - 1, "Eof", Dominant), elem.index, [no_more |-> TRUE])

TestIso_7_2_11 ==
  /\ Runs("7.2.11")
  /\ \E bits \in {ConstructFrame(RandomFrame)} :
       FormError(bits, SetBitOf(bits, 5, "Eof", Dominant), 6, [no_more |-> TRUE])

TestIso_7_2_Any ==
  \/ TestIso_7_2_1 \/ TestIso_7_2_2 \/ TestIso_7_2_2_a \/ TestIso_7_2_2_b
  \/ TestIso_7_2_3 \/ TestIso_7_2_3_a \/ TestIso_7_2_3_b
  \/ TestIso_7_2_4 \/ TestIso_7_2_4_a \/ TestIso_7_2_4_b
  \/ TestIso_7_2_5 \/ TestIso_7_2_6 \/ TestIso_7_2_7 \/ TestIso_7_2_8
  \/ TestIso_7_2_9 \/ TestIso_7_2_10 \/ TestIso_7_2_11
=============================================================================
