---------------------------- MODULE TestIso_8_8 ----------------------------
(***************************************************************************)
(* Bit timing tests of a CAN FD frame the DUT transmits: the classes       *)
(* TestIso_8_8_*.  Sample point of either bit rate, secondary sample point,*)
(* and no synchronization of a transmitter in the data phase.              *)
(***************************************************************************)
EXTENDS TestIso_8_7

\* Beyond this the DUT does not delay its secondary sample point.
DutMaxSecondarySample == 255

\* ConfigureTest of the classes; but for 8.8.2 the DUT has no secondary sample point.
Setup_8_8(bts) ==
  LET n == bts.nbt
      d == bts.dbt
      FdTests(k) == Sending(Class(0, k))
      LongTqs(setup) == Asserted(d.brp > 2, setup)
      Delays(most) ==
        Asserted(/\ GetBitLenCycles(d) * 2 < Tseg1Len(n) * n.brp
                 /\ GetBitLenCycles(d) * most < DutMaxSecondarySample, FdTests(4))
  IN  [number \in {"8.8.1.1", "8.8.1.2", "8.8.1.3", "8.8.1.4", "8.8.2.1", "8.8.2.2", "8.8.2.3",
                    "8.8.2.4", "8.8.3.1", "8.8.3.2", "8.8.4.1", "8.8.4.2", "8.8.5.1", "8.8.5.2"} |->
         CASE number = "8.8.1.1" -> FdTests(CalcNumSPs(n, TRUE))
           [] number = "8.8.1.2" -> Asserted(n.brp > 2, FdTests(GetBitLenTQ(n) - 2))
           [] number = "8.8.1.3" -> LongTqs(FdTests(2 * GetBitLenTQ(d) - 4))
           [] number = "8.8.1.4" -> LongTqs(FdTests(CalcNumSPs(d, FALSE)))
           [] number = "8.8.2.3" -> Delays(4)
           [] number \in {"8.8.2.1", "8.8.2.2", "8.8.2.4"} -> Delays(3)
           [] OTHER -> LongTqs(FdTests(1))]

Answered(bits) == WithAckVal(bits, Dominant)

\* A frame the DUT sends, in data phase if it is told to, and ends undisturbed.
ShiftingActive(given) == Shifting([esi |-> ErrAct] @@ given)

\* The DUT has the timing tm and sends gold; the monitor expects just that.
SentUnder(tm, gold, Drive(_)) ==
  \E bits \in {ConvBitFrameTimed(gold, tm)} : RunSent(Reconfigured, tm, <<gold>>, Drive(Answered(bits)), bits)

-----------------------------------------------------------------------------
(* Sample point: what the lower tester changes is behind or before it.     *)

TestIso_8_8_1_1 ==
  /\ RunsTimed("8.8.1.1")
  /\ LET Late(bits) == ForcePh2(bits, GetBitOf(bits, 0, "R0"), Recessive)
     IN  SentUnder(SamplePointTest(0), FdFrame([esi |-> ErrAct]), Late)

\* A length below zero is seen as a very large number.
Within(n, most) == Least(Greatest(n, 1), most)

\* Both bit rates as many time quanta before the sample point as the test is of, the
\* data bit rate one more.
TestIso_8_8_1_2 ==
  /\ RunsTimed("8.8.1.2")
  /\ LET i == elem.index
         len == GetBitLenTQ(nbt)
         tm == [timing EXCEPT
                  !.nbt = [@ EXCEPT !.ph1 = 0, !.prop = Least(i, 63), !.ph2 = Within(Minus(len, i + 1), 63)],
                  !.dbt = [@ EXCEPT !.ph1 = 0, !.prop = Least(i + 1, 63), !.ph2 = Within(Minus(len, i), 31)]]
         Early(bits) == ForceFirst(bits, BrsBit(bits), Tseg1TQs(tm.nbt), Dominant)
     IN  SentUnder(tm, ShiftingActive(<<>>), Early)

DataBits(bits, val) == {i \in PositionsOf(bits, "Data") : bits[i].val = val}

TestIso_8_8_1_3 ==
  /\ RunsTimed("8.8.1.3")
  /\ LET half == (elem.index + 1) \div 2
         tm == [timing EXCEPT !.dbt = [@ EXCEPT !.ph1 = 0, !.prop = Least(half, 63),
                                                !.ph2 = Within(Minus(GetBitLenTQ(dbt), half + 1), 31)]]
         Drive(bits) ==
           IF elem.index = 1 THEN ForcePh2(bits, Choice(DataBits(bits, Dominant)), Recessive)
           ELSE ForceFirst(bits, Choice(DataBits(bits, Recessive)), Tseg1TQs(tm.dbt), Dominant)
     IN  SentUnder(tm, ShiftingActive(<<>>), Drive)

\* The CRC delimiter is recessive just around its sample point, between the bit rates.
TestIso_8_8_1_4 ==
  /\ RunsTimed("8.8.1.4")
  /\ LET tm == [SamplePointTest(0) EXCEPT !.dbt = GenerateBitTiming(Backup.dbt, elem.index, FALSE, 0)]
         AroundSamplePoint(bits) ==
           LET at == DelimBit(bits)
               dominant == SetVal(bits, at, Dominant)
           IN  ForceInPhase(ForceLastOf(dominant, at, BeforePh2(bits, at), Recessive), at, 0, 0, "Ph2", Recessive)
     IN  SentUnder(tm, ShiftingActive([ide |-> Base, rtr |-> Data, dlc |-> 1, ident |-> 170,
                                       data |-> Bytes(85)]), AroundSamplePoint)

-----------------------------------------------------------------------------
(* Secondary sample point: the lower tester's frame comes late by one or   *)
(* two bits of the data phase.                                             *)

Delay == GetBitLenCycles(dbt) * (IF elem.index \in {3, 4} THEN 2 ELSE 1)

DelayedBy(bits, n) == [bits EXCEPT ![1].tqs = LengthenTQ(@, 1, n)]

\* ConfigureSsp: with the delay measured, or added to the offset.
WithSsp(offset) ==
  [timing EXCEPT !.ssp = IF elem.index \in {1, 3} THEN [measured |-> TRUE, offset |-> offset]
                         ELSE [measured |-> FALSE, offset |-> offset + Delay]]

AtSamplePoint == dbt.brp * Tseg1Len(dbt)

SentLate(offset, gold, Drive(_)) ==
  LET Delayed(bits) == Drive(DelayedBy(bits, Delay)) IN SentUnder(WithSsp(offset), gold, Delayed)

\* Cycles of PH2, as they come to the DUT without the delay.
TestIso_8_8_2_1 ==
  /\ RunsTimed("8.8.2.1")
  /\ LET Drive(bits) ==
           LET at == GetBitOf(bits, 0, "R0")
               ph2 == (Tseg1Len(nbt) * nbt.brp + 1) .. GetBitLenCycles(nbt)
           IN  [bits EXCEPT ![at].tqs = ForceCycles(@, {c - Delay : c \in ph2}, Recessive)]
     IN  SentLate(AtSamplePoint, ShiftingActive(<<>>), Drive)

\* BRS is sampled dominant: an error, and the frame is sent again.
TestIso_8_8_2_2 ==
  /\ RunsTimed("8.8.2.2")
  /\ \E gold \in {ShiftingActive(<<>>)} :
     \E bits \in {ConvBitFrame(gold)} :
     LET early == 1 .. (Tseg1Len(nbt) * nbt.brp - Delay)
         drv == [DelayedBy(bits, Delay) EXCEPT ![BrsBit(bits)].tqs = ForceCycles(@, early, Dominant)]
     IN  RunSent(Reconfigured, WithSsp(AtSamplePoint), <<gold>>,
                 ActErrFrmAt(drv, EsiBit(bits)) \o Answered(bits), ActErrFrmAt(bits, EsiBit(bits)) \o bits)

TestIso_8_8_2_3 ==
  /\ RunsTimed("8.8.2.3")
  /\ LET Drive(bits) ==
           ForceFirst(ForcePh2From(bits, Choice(DataBits(bits, Dominant)), 1, Recessive),
                      Choice(DataBits(bits, Recessive)), Tseg1TQs(dbt), Dominant)
     IN  SentLate(AtSamplePoint, ShiftingActive([rtr |-> Data, dlc |-> 1]), Drive)

\* The last bit of the CRC has its value in the two time quanta only that are sampled.
TestIso_8_8_2_4 ==
  /\ RunsTimed("8.8.2.4")
  /\ LET Drive(bits) ==
           LET at == DelimBit(bits) - 1
               last == GetLastTQIter(bits[at].tqs, "Ph1")
           IN  [FlipVal(bits, at) EXCEPT ![at].tqs = ForceTQs(@, {last - 1, last - 2}, bits[at].val)]
     IN  SentLate(dbt.brp * (Tseg1TQs(dbt) - 1), ShiftingActive([rtr |-> Data, dlc |-> 1]), Drive)

-----------------------------------------------------------------------------
(* A transmitter does not synchronize in the data phase.                   *)

Drawn64(given) == ShiftingActive([rtr |-> Data, dlc |-> 15] @@ given)

AfterSuspend(bits) == AppendBits(bits, Field("SuspTrans", Times(8, Recessive)))

\* The end of BRS is dominant from an edge on, ESI from its time quantum first to the
\* sample point.
EdgeInBrs(e, first) ==
  \E gold \in {Shifting([esi |-> ErrPas])} :
  \E bits \in {ConvBitFrame(gold)} :
  LET early == ForceEndOfPh2(Answered(bits), BrsBit(bits), e, Dominant)
      drv == ForceInBit(early, EsiBit(bits), first, Tseg1TQs(dbt) - 1, Dominant)
  IN  RunSent(SetRec(node, 150), timing, <<gold>>, AfterSuspend(drv), AfterSuspend(bits))

TestIso_8_8_3_1 == RunsTimed("8.8.3.1") /\ EdgeInBrs(dbt.sjw, 0)
TestIso_8_8_4_1 == RunsTimed("8.8.4.1") /\ EdgeInBrs(1, 1)

\* Bits of the data with a value before a bit with another or the same.
DataBefore(bits, val, next) == {i \in DataBits(bits, val) : bits[i + 1].val = next}

\* Two recessive bits of the data, likewise.
EdgeInData(e, first) ==
  \E gold \in {Drawn64(<<>>)} :
  \E bits \in {ConvBitFrame(gold)} :
  \E at \in {Choice(DataBefore(bits, Recessive, Recessive))} :
    RunSent(node, timing, <<gold>>,
            ForceInBit(ForceEndOfPh2(Answered(bits), at, e, Dominant), at + 1, first, Tseg1TQs(dbt) - 1, Dominant),
            bits)

TestIso_8_8_3_2 == RunsTimed("8.8.3.2") /\ EdgeInData(dbt.sjw, 0)
TestIso_8_8_4_2 == RunsTimed("8.8.4.2") /\ EdgeInData(1, 1)

\* A dominant bit begins late, and is recessive behind its sample point.
LateAndShort(bits, at) == ForcePh2(ForceFirst(Answered(bits), at, dbt.sjw, Recessive), at, Recessive)

TestIso_8_8_5_1 ==
  /\ RunsTimed("8.8.5.1")
  /\ \E gold \in {ShiftingActive(<<>>)} :
     \E bits \in {ConvBitFrame(gold)} :
       RunSent(node, timing, <<gold>>, LateAndShort(bits, EsiBit(bits)), bits)

TestIso_8_8_5_2 ==
  /\ RunsTimed("8.8.5.2")
  /\ \E gold \in {Drawn64(<<>>)} :
     \E bits \in {ConvBitFrame(gold)} :
       RunSent(node, timing, <<gold>>,
               LateAndShort(bits, Choice(DataBefore(bits, Recessive, Dominant)) + 1), bits)

TestIso_8_8_Any ==
  \/ TestIso_8_8_1_1 \/ TestIso_8_8_1_2 \/ TestIso_8_8_1_3 \/ TestIso_8_8_1_4 \/ TestIso_8_8_2_1
  \/ TestIso_8_8_2_2 \/ TestIso_8_8_2_3 \/ TestIso_8_8_2_4 \/ TestIso_8_8_3_1 \/ TestIso_8_8_3_2
  \/ TestIso_8_8_4_1 \/ TestIso_8_8_4_2 \/ TestIso_8_8_5_1 \/ TestIso_8_8_5_2
=============================================================================
