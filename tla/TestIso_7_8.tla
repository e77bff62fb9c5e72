---------------------------- MODULE TestIso_7_8 ----------------------------
(***************************************************************************)
(* Bit timing tests of a receiving DUT in CAN FD frames: the classes       *)
(* TestIso_7_8_*, where the bit rate changes or has changed.               *)
(***************************************************************************)
EXTENDS TestIso_7_7

\* ConfigureTest of the classes: phase errors up to SJW, and beyond it as far as
\* the sample point, or the end of the bit.
Setup_7_8(bts) ==
  LET n == bts.nbt
      d == bts.dbt
      FedTests(k) == Receiving(Fed(Class(0, k)))
      Tests_7_8(k) == Receiving(Class(0, k))
      Late(bt) == GetBitLenTQ(bt) - bt.ph2 - 1 - bt.sjw
  IN  "7.8.1.1" :> Tests_7_8(2) @@ "7.8.1.2" :> Tests_7_8(2) @@ "7.8.1.3" :> FedTests(2)
      @@ "7.8.2.1" :> FedTests(Late(n)) @@ "7.8.2.2" :> FedTests(1)
      @@ "7.8.3.1" :> Asserted(n.brp = d.brp, FedTests(d.sjw))
      @@ "7.8.3.2" :> FedTests(d.sjw) @@ "7.8.3.3" :> FedTests(d.sjw)
      @@ "7.8.4.1" :> Asserted(n.brp = d.brp, FedTests(Late(d)))
      @@ "7.8.4.2" :> FedTests(Late(d)) @@ "7.8.4.3" :> FedTests(Late(d))
      @@ "7.8.5.1" :> FedTests(d.sjw) @@ "7.8.5.2" :> FedTests(d.sjw) @@ "7.8.5.3" :> Tests_7_8(n.sjw)
      @@ "7.8.6.1" :> FedTests(d.ph2 - d.sjw) @@ "7.8.6.2" :> FedTests(d.ph2 - d.sjw)
      @@ "7.8.6.3" :> FedTests(n.ph2 - n.sjw)
      @@ "7.8.7.1" :> FedTests(1) @@ "7.8.7.2" :> FedTests(1) @@ "7.8.7.3" :> FedTests(1)
      @@ "7.8.8.1" :> FedTests(1) @@ "7.8.8.2" :> FedTests(1) @@ "7.8.8.3" :> Tests_7_8(1)
      @@ "7.8.9.1" :> FedTests(1) @@ "7.8.9.2" :> FedTests(1) @@ "7.8.9.3" :> FedTests(1)

FdFrame(given) == Frame([fdf |-> CanFd] @@ given, draw)
Shifting(given) == FdFrame([brs |-> DoShift] @@ given)
ShiftingByte(byte) == Shifting([dlc |-> 1, data |-> Bytes(byte)])
ShiftingBaseByte(byte) ==
  Shifting([ide |-> Base, rtr |-> Data, esi |-> ErrAct, dlc |-> 1, ident |-> 50, data |-> Bytes(byte)])

\* A frame the lower tester drives with drv, the DUT sends mon of, and receives.
Received_7_8(gold, drv, mon) == RunTimed(drv, mon, ReadsOnly(gold))

AckBit(bits) == GetBitOf(bits, 0, "Ack")
DelimBit(bits) == GetBitOf(bits, 0, "CrcDelim")
BrsBit(bits) == GetBitOf(bits, 0, "Brs")
EsiBit(bits) == GetBitOf(bits, 0, "Esi")

WithAckVal(bits, val) == SetVal(bits, AckBit(bits), val)

\* The first n time quanta of a bit, and those of PH2 from n on.
ForceFirst(bits, i, n, val) == ForceInBit(bits, i, 0, n - 1, val)
ForcePh2From(bits, i, n, val) == ForceInPhase(bits, i, n, Len(bits[i].tqs), "Ph2", val)

\* Time quanta before the sample point, the first one not counted.
Tseg1TQs(bt) == bt.prop + bt.ph1

-----------------------------------------------------------------------------
(* Sample point: a dominant pulse ends before it, or just behind.          *)

TestIso_7_8_1_1 ==
  /\ RunsTimed("7.8.1.1")
  /\ \E gold \in {FdFrame([brs |-> IF elem.index = 1 THEN DoShift ELSE NoShift, dlc |-> 1, ident |-> 0])} :
     \E bits \in {ConvBitFrame(gold)} :
     LET drv == SetVal(WithAckVal(bits, Dominant), BrsBit(bits), Recessive)
     IN  Received_7_8(gold, ForceFirst(drv, BrsBit(bits), Tseg1TQs(nbt) + elem.index - 1, Dominant),
                      ConvRXFrame(bits))

TestIso_7_8_1_2 ==
  /\ RunsTimed("7.8.1.2")
  /\ \E gold \in {ShiftingByte(<<85, 21>>[elem.index])} :
     \E bits \in {ConvBitFrame(gold)} :
     LET at == GetBitOf(bits, 1, "Data")
         drv == SetVal(WithAckVal(bits, Dominant), at, Recessive)
     IN  Received_7_8(gold, ForceFirst(drv, at, Tseg1TQs(dbt) + elem.index - 1, Dominant), ConvRXFrame(bits))

TestIso_7_8_1_3 ==
  /\ RunsTimed("7.8.1.3")
  /\ \E gold \in {Shifting(<<>>)} :
     \E bits \in {ConvBitFrame(gold)} :
     LET drv == ForceFirst(bits, DelimBit(bits), Tseg1TQs(dbt) + elem.index - 1, Dominant)
     IN  IF elem.index = 1 THEN Received_7_8(gold, drv, ConvRXFrame(bits))
         ELSE ErrorIn(DelimBit(bits), drv, ConvRXFrame(bits), <<>>)

-----------------------------------------------------------------------------
(* Hard synchronization in the bit after FDF.                              *)

TestIso_7_8_2_1 ==
  /\ RunsTimed("7.8.2.1")
  /\ \E gold \in {Shifting(<<>>)} :
     \E bits \in {ConvBitFrame(gold)} :
     \E longer \in {Lengthen(bits, GetBitOf(bits, 0, "Edl"), "Ph2", nbt.sjw + elem.index)} :
       Received_7_8(gold, ForceFirst(longer, BrsBit(bits), Tseg1TQs(nbt), Dominant), ConvRXFrame(longer))

\* The loop is over PH2 of the data bit rate, in a bit of the nominal one.
TestIso_7_8_2_2 ==
  /\ RunsTimed("7.8.2.2")
  /\ \E gold \in {FdFrame([brs |-> NoShift])} :
     \E bits \in {ConvBitFrame(gold)} :
     \E shorter \in {Shorten(bits, GetBitOf(bits, 0, "Edl"), "Ph2", nbt.ph2)} :
       Received_7_8(gold, ForceInPhase(shorter, BrsBit(bits), 0, dbt.ph2 - 1, "Ph2", Recessive), ConvRXFrame(shorter))

-----------------------------------------------------------------------------
(* Synchronization to late edges, up to SJW and beyond.                    *)

TestIso_7_8_3_1 ==
  /\ RunsTimed("7.8.3.1")
  /\ \E gold \in {Shifting([esi |-> ErrPas])} :
     \E bits \in {ConvBitFrame(gold)} :
     \E longer \in {Lengthen(bits, EsiBit(bits), "Sync", elem.index)} :
       Received_7_8(gold, ForceInBit(longer, EsiBit(bits), elem.index, elem.index + Tseg1TQs(dbt) - 1, Dominant),
                    ConvRXFrame(longer))

\* Bits 5 and 6 of the data are the last before a dominant stuff bit, and that.
BeforeStuff(bits) == GetBitOf(bits, 5, "Data")
StuffOf(bits) == GetBitOf(bits, 6, "Data")

TestIso_7_8_3_2 ==
  /\ RunsTimed("7.8.3.2")
  /\ \E bits \in {ConvBitFrame(ShiftingByte(127))} :
     LET late == ForceFirst(bits, StuffOf(bits), elem.index, Recessive)
         drv == ForcePh2From(late, StuffOf(bits), elem.index - 1, Recessive)
         mon == Lengthen(ConvRXFrame(bits), BeforeStuff(bits), "Ph2", elem.index)
     IN  RunTimed(PasErrFrmAt(drv, StuffOf(bits) + 2), ActErrFrmAt(mon, StuffOf(bits) + 1), <<>>)

\* The CRC delimiter is dominant from e on, and ends before the sample point of a DUT
\* that lengthens the bit by n.
LateDelim(e, n) ==
  \E gold \in {ShiftingBaseByte(85)} :
  \E bits \in {ConvBitFrame(gold)} :
  LET at == DelimBit(bits)
      late == ForceFirst(SetVal(bits, at, Dominant), at, e, Recessive)
      shorter == Shorten(late, at, "Ph2", nbt.ph2)
  IN  Received_7_8(gold, Lengthen(shorter, at, BeforePh2(shorter, at), n - 1),
                   Lengthen(ConvRXFrame(bits), at, "Sync", n))

TestIso_7_8_3_3 == RunsTimed("7.8.3.3") /\ LateDelim(elem.index, elem.index)
TestIso_7_8_4_3 == RunsTimed("7.8.4.3") /\ LateDelim(dbt.sjw + elem.index, dbt.sjw)

\* A bit is dominant from e on, up to the sample point of a DUT that lengthens it by SJW.
LateBy(bits, at, e) ==
  ForcePh2From(ForceFirst(bits, at, e, Recessive), at, dbt.sjw - 1, Recessive)

TestIso_7_8_4_1 ==
  /\ RunsTimed("7.8.4.1")
  /\ \E gold \in {Shifting([esi |-> ErrPas])} :
     \E bits \in {ConvBitFrame(gold)} :
       Received_7_8(gold, LateBy(SetVal(bits, EsiBit(bits), Dominant), EsiBit(bits), dbt.sjw + elem.index),
                    ConvRXFrame(bits))

TestIso_7_8_4_2 ==
  /\ RunsTimed("7.8.4.2")
  /\ \E bits \in {ConvBitFrame(ShiftingByte(127))} :
     LET drv == LateBy(bits, StuffOf(bits), dbt.sjw + elem.index)
         mon == Lengthen(ConvRXFrame(bits), StuffOf(bits), "Sync", dbt.sjw)
     IN  RunTimed(PasErrFrmAt(drv, GetBitOf(bits, 8, "Data")), ActErrFrmAt(mon, GetBitOf(bits, 7, "Data")), <<>>)

-----------------------------------------------------------------------------
(* Synchronization to early edges, up to SJW and beyond.                   *)

\* What the driver makes of bits that are shorter for both.
BothShorter(gold, bits, at, n, Drive(_)) ==
  \E shorter \in {Shorten(bits, at, "Ph2", n)} : Received_7_8(gold, Drive(shorter), ConvRXFrame(shorter))

\* The time quanta of ESI that are forced begin behind it.
TestIso_7_8_5_1 ==
  /\ RunsTimed("7.8.5.1")
  /\ \E gold \in {Shifting([esi |-> ErrAct])} :
     \E bits \in {ConvBitFrame(gold)} :
     LET Late(b) == ForceInBit(b, EsiBit(b), 1 + Tseg1TQs(dbt) + elem.index, Len(b[BrsBit(b)].tqs) - 1, Recessive)
     IN  BothShorter(gold, bits, BrsBit(bits), elem.index, Late)

TestIso_7_8_5_2 ==
  /\ RunsTimed("7.8.5.2")
  /\ \E gold \in {ShiftingByte(127)} :
     \E bits \in {ConvBitFrame(gold)} :
     LET WithoutPh2(b) == ForcePh2(b, StuffOf(b), Recessive)
     IN  BothShorter(gold, bits, BeforeStuff(bits), elem.index, WithoutPh2)

\* With a phase error of SJW the DUT is said to begin the acknowledge late, by one.
TestIso_7_8_5_3 ==
  /\ RunsTimed("7.8.5.3")
  /\ \E gold \in {Shifting(<<>>)} :
     \E bits \in {Shorten(ConvBitFrame(gold), DelimBit(ConvBitFrame(gold)), "Ph2", elem.index)} :
     LET mon == ConvRXFrame(bits)
     IN  Received_7_8(gold, ForcePh2(WithAckVal(bits, Dominant), AckBit(bits), Recessive),
                      IF elem.index = nbt.sjw THEN ForceFirst(mon, AckBit(bits), 1, Recessive) ELSE mon)

TestIso_7_8_6_1 ==
  /\ RunsTimed("7.8.6.1")
  /\ \E gold \in {Shifting([esi |-> ErrAct])} :
     \E bits \in {ConvBitFrame(gold)} :
     LET early == ForceEndOfPh2(bits, BrsBit(bits), dbt.sjw + elem.index, Dominant)
     IN  Received_7_8(gold, ForcePh2(early, EsiBit(bits), Recessive), ConvRXFrame(bits))

TestIso_7_8_6_2 ==
  /\ RunsTimed("7.8.6.2")
  /\ \E gold \in {ShiftingByte(127)} :
     \E bits \in {ConvBitFrame(gold)} :
     LET early == ForceEndOfPh2(bits, BeforeStuff(bits), dbt.sjw + elem.index, Dominant)
     IN  Received_7_8(gold, ForcePh2(early, StuffOf(bits), Recessive), ConvRXFrame(bits))

TestIso_7_8_6_3 ==
  /\ RunsTimed("7.8.6.3")
  /\ \E gold \in {Shifting(<<>>)} :
     \E bits \in {ConvBitFrame(gold)} :
     LET early == ForceEndOfPh2(WithAckVal(bits, Dominant), DelimBit(bits), nbt.sjw + elem.index, Dominant)
     IN  Received_7_8(gold, ForcePh2(early, AckBit(bits), Recessive),
                      Shorten(ConvRXFrame(bits), DelimBit(bits), "Ph2", nbt.sjw))

-----------------------------------------------------------------------------
(* Glitches.                                                               *)

\* The bit is dominant in its first time quantum and from the third to the sample
\* point: the second edge is too much.
GlitchIn(bits, at) == ForcePh2(ForceInBit(bits, at, 1, 1, Recessive), at, Recessive)

TestIso_7_8_7_1 ==
  /\ RunsTimed("7.8.7.1")
  /\ \E gold \in {FdFrame(<<>>)} :
     \E bits \in {ConvBitFrame(gold)} :
       Received_7_8(gold, GlitchIn(bits, GetBitOf(bits, 0, "R0")), ConvRXFrame(bits))

TestIso_7_8_7_2 ==
  /\ RunsTimed("7.8.7.2")
  /\ \E gold \in {ShiftingByte(127)} :
     \E bits \in {ConvBitFrame(gold)} : Received_7_8(gold, GlitchIn(bits, StuffOf(bits)), ConvRXFrame(bits))

TestIso_7_8_7_3 ==
  /\ RunsTimed("7.8.7.3")
  /\ \E gold \in {FdFrame(<<>>)} :
     \E bits \in {ConvBitFrame(gold)} :
       Received_7_8(gold, GlitchIn(WithAckVal(bits, Dominant), AckBit(bits)), ConvRXFrame(bits))

TestIso_7_8_8_1 ==
  /\ RunsTimed("7.8.8.1")
  /\ \E gold \in {Shifting([esi |-> ErrAct])} :
     \E bits \in {ConvBitFrame(gold)} :
     LET Glitch(b) == GlitchIn(b, EsiBit(b)) IN BothShorter(gold, bits, BrsBit(bits), 1, Glitch)

TestIso_7_8_8_2 ==
  /\ RunsTimed("7.8.8.2")
  /\ \E gold \in {ShiftingByte(127)} :
     \E bits \in {ConvBitFrame(gold)} :
     LET Glitch(b) == GlitchIn(b, StuffOf(b)) IN BothShorter(gold, bits, BeforeStuff(bits), 1, Glitch)

TestIso_7_8_8_3 ==
  /\ RunsTimed("7.8.8.3")
  /\ \E gold \in {Shifting(<<>>)} :
     \E bits \in {ConvBitFrame(gold)} :
     LET Glitch(b) == GlitchIn(WithAckVal(b, Dominant), AckBit(b))
     IN  BothShorter(gold, bits, DelimBit(bits), 1, Glitch)

\* No synchronization after a dominant bit.
TestIso_7_8_9_1 ==
  /\ RunsTimed("7.8.9.1")
  /\ \E gold \in {FdFrame([brs |-> NoShift])} :
     \E bits \in {ConvBitFrame(gold)} :
     LET at == BrsBit(bits)
         late == ForceFirst(SetVal(bits, at, Dominant), at, 2, Recessive)
     IN  Received_7_8(gold, ForcePh2(late, at, Recessive), ConvRXFrame(bits))

\* A recessive bit that is dominant from the second time quantum to the sample point.
TestIso_7_8_9_2 ==
  /\ RunsTimed("7.8.9.2")
  /\ \E bits \in {ConvBitFrame(ShiftingByte(128))} :
       ErrorIn(StuffOf(bits), ForceInBit(bits, StuffOf(bits), 1, Tseg1TQs(dbt), Dominant), ConvRXFrame(bits), <<>>)

TestIso_7_8_9_3 ==
  /\ RunsTimed("7.8.9.3")
  /\ \E bits \in {ConvBitFrame(ShiftingBaseByte(73))} :
       ErrorIn(DelimBit(bits), ForceInBit(bits, DelimBit(bits), 1, Tseg1TQs(dbt), Dominant),
               ConvRXFrame(bits), <<>>)

TestIso_7_8_Any ==
  \/ TestIso_7_8_1_1 \/ TestIso_7_8_1_2 \/ TestIso_7_8_1_3 \/ TestIso_7_8_2_1 \/ TestIso_7_8_2_2
  \/ TestIso_7_8_3_1 \/ TestIso_7_8_3_2 \/ TestIso_7_8_3_3 \/ TestIso_7_8_4_1 \/ TestIso_7_8_4_2
  \/ TestIso_7_8_4_3 \/ TestIso_7_8_5_1 \/ TestIso_7_8_5_2 \/ TestIso_7_8_5_3 \/ TestIso_7_8_6_1
  \/ TestIso_7_8_6_2 \/ TestIso_7_8_6_3 \/ TestIso_7_8_7_1 \/ TestIso_7_8_7_2 \/ TestIso_7_8_7_3
  \/ TestIso_7_8_8_1 \/ TestIso_7_8_8_2 \/ TestIso_7_8_8_3 \/ TestIso_7_8_9_1 \/ TestIso_7_8_9_2
  \/ TestIso_7_8_9_3
=============================================================================
