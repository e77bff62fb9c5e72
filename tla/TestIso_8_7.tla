---------------------------- MODULE TestIso_8_7 ----------------------------
(***************************************************************************)
(* Bit timing tests of a transmitting DUT: the classes TestIso_8_7_*.  The *)
(* lower tester answers the frames of the DUT; what it drives arrives      *)
(* InputDelay cycles late.  Many have an elementary test for each sample   *)
(* point.                                                                  *)
(***************************************************************************)
EXTENDS TestIso_7_8

\* ConfigureTest of the classes, SetupMonitorTxTests included.
Setup_8_7(bts) ==
  LET n == bts.nbt
      FedTests(k) == Sending(Fed(Class(k, 0)))
      Tests_8_7(k) == Sending(Class(k, 0))
      sps == CalcNumSPs(n, TRUE)
  IN  [number \in {"8.7.1", "8.7.2", "8.7.3", "8.7.4", "8.7.5", "8.7.6", "8.7.7", "8.7.8", "8.7.9"} |->
         CASE number = "8.7.1" -> Asserted(n.brp > 1, Tests_8_7(sps))
           [] number = "8.7.2" -> Asserted(n.brp > 1, FedTests(sps))
           [] number = "8.7.3" -> Asserted(InputDelay = Ipt, FedTests(sps))
           [] number = "8.7.4" -> Asserted(n.brp > 2, Tests_8_7(Least(n.sjw, n.ph2)))
           [] number = "8.7.5" -> Asserted(n.brp > 2, Tests_8_7(n.ph2 - n.sjw))
           [] number \in {"8.7.6", "8.7.9"} -> Asserted(n.brp > 2, Tests_8_7(sps))
           [] number \in {"8.7.7", "8.7.8"} -> Tests_8_7(sps)]

\* The timings before a test changed them.
Backup == Timings[elem.name[2]]

\* The nominal bit timing of the elementary test: GenerateSPForTest.
SamplePointTest(minimal_ph1) ==
  [timing EXCEPT !.nbt = GenerateBitTiming(Backup.nbt, elem.index, TRUE, minimal_ph1)]

\* Disable, ConfigureBitTiming, Enable, and until it is error active.
Reconfigured == Enable(0, [Setup EXCEPT !.rec = 0])

\* The DUT, with its bit timing and mode changed or not, sends frames.
RunSent(dut, tm, golds, drv, mon) == RunTimedWith(SendFrames(dut, golds), tm, drv, mon, <<>>)

\* A choice of rand(), another one in each elementary test.
Choice(set) ==
  LET n == Cardinality(set)
  IN  CHOOSE i \in set : Cardinality({j \in set : j < i}) = (Rand(n) + elem.index) % n

Recessives(bits, at) == {i \in at : bits[i].val = Recessive}
Dominants(bits, at) == {i \in at : bits[i].val = Dominant}

\* Bits that a recessive to dominant edge follows.
BeforeEdges(bits) == {i \in Recessives(bits, 1 .. Len(bits) - 1) : bits[i + 1].val = Dominant}

\* Frames of the test, with data or a stuff bit in bit 6 of the data.
PassiveBase(given) ==
  Frame([fdf |-> Can20, ide |-> Base, rtr |-> Data, brs |-> NoShift, esi |-> ErrPas, dlc |-> 1,
         data |-> Bytes(128)] @@ given, draw)

ActiveCan == Frame([fdf |-> Can20, esi |-> ErrAct], draw)

-----------------------------------------------------------------------------
(* Sample point and hard synchronization.                                  *)

\* Bit 1 of the data is sampled dominant, and recessive when the frame is sent again.
TestIso_8_7_1 ==
  /\ RunsTimed("8.7.1")
  /\ \E tm \in {SamplePointTest(0)}, gold \in {PassiveBase(<<>>)} :
     \E bits \in {ConvBitFrameTimed(gold, tm)} :
     LET at == GetBitOf(bits, 1, "Data")
         behind == Tseg1TQs(tm.nbt)
         len == Len(bits[at].tqs)
         first == ForceInBit(PutAck(bits, InputDelay), at, behind + 2, len, Recessive)
         forced == ForceInBit(bits, at, behind, len, Recessive)
         last == CyclesIn(bits[at].tqs, 1 .. behind)
         second == [forced EXCEPT ![at].tqs = ForceCycles(@, {last}, Recessive)]
     IN  RunSent(Reconfigured, tm, <<gold, gold>>,
                 first \o ActErrFrmAt(second, at + 1) \o WithAckVal(bits, Dominant),
                 bits \o ActErrFrmAt(bits, at + 1) \o bits)

\* The DUT sees an error in the stuff bit in the data and is to send again.
StuffErrorOf(bits) ==
  LET at == GetBitOf(bits, 6, "Data")
  IN  [drv |-> PasErrFrmAt(FlipVal(ConvRXFrame(bits), at), at + 1), mon |-> ActErrFrmAt(bits, at + 1)]

\* The lower tester begins a frame, and the DUT follows it.
OnlySof(bits) == SetVal(ConvRXFrame(bits), 1, Dominant)

\* It begins a time quantum, all but a cycle, before the sample point of the last bit
\* of the intermission.
OneTqLess(bits, i) ==
  LET sampled == Shorten(bits, i, "Ph2", Len(bits[i].tqs))
      phase == BeforePh2(sampled, i)
  IN  [Shorten(sampled, i, phase, 1) EXCEPT ![i].tqs = ShortenTQ(@, GetLastTQIter(@, phase), 1)]

TestIso_8_7_2 ==
  /\ RunsTimed("8.7.2")
  /\ \E tm \in {SamplePointTest(0)}, gold \in {PassiveBase([ident |-> 2047])} :
     \E bits \in {ConvBitFrameTimed(gold, tm)} :
     \E first \in {StuffErrorOf(bits)} :
     LET interm == GetBitOf(first.mon, 2, "Interm")
         drv == OneTqLess(first.drv, interm) \o OnlySof(bits)
         mon == OneTqLess(first.mon, interm) \o SetVal(Shorten(bits, 1, "Sync", 1), 1, Recessive)
     IN  RunSent(Reconfigured, tm, <<gold>>,
                 CompensateEdgeForInputDelay(drv, GetBitOf(drv, 1, "Sof"), InputDelay), mon)

\* It begins just behind that sample point: the DUT sends the bit after SOF next.
TestIso_8_7_3 ==
  /\ RunsTimed("8.7.3")
  /\ \E tm \in {SamplePointTest(0)}, gold \in {PassiveBase([ident |-> 2047])} :
     \E bits \in {ConvBitFrameTimed(gold, tm)} :
     \E first \in {StuffErrorOf(bits)} :
     LET interm == GetBitOf(first.mon, 2, "Interm")
         ended == Shorten(first.mon, interm, "Ph2", tm.nbt.ph2)
         later == [ended EXCEPT ![interm].tqs = LengthenTQ(@, Len(@), Ipt)]
     IN  RunSent(Reconfigured, tm, <<gold>>,
                 Shorten(first.drv, interm, "Ph2", tm.nbt.ph2) \o OnlySof(bits),
                 Lengthen(later, interm, "Sync", 1) \o Shorten(bits, 1, "Sync", 1))

-----------------------------------------------------------------------------
(* Synchronization of a transmitter to early edges, and to none that are late. *)

\* Bits of the identifier that an edge follows; one is chosen.
EdgeInIdent(bits) == Choice(BeforeEdges(bits) \cap PositionsOf(bits, "BaseIdent"))

\* The bit is shorter by e.  The DUT sees that late, by which its own bit is longer by one.
TestIso_8_7_4 ==
  /\ RunsTimed("8.7.4")
  /\ \E bits \in {ConvBitFrame(ActiveCan)} :
     \E at \in {EdgeInIdent(bits)} :
       RunSent(node, timing, <<ActiveCan>>,
               WithAckVal(Shorten(bits, at, "Ph2", elem.index), Dominant),
               Shorten(Shorten(bits, at, "Ph2", elem.index - 1), at + 1, "Sync", 1))

TestIso_8_7_5 ==
  /\ RunsTimed("8.7.5")
  /\ \E bits \in {ConvBitFrame(ActiveCan)} :
     \E at \in {EdgeInIdent(bits)} :
     \E shorter \in {Shorten(bits, at, "Ph2", nbt.sjw)} :
       RunSent(node, timing, <<ActiveCan>>,
               WithAckVal(ForceEndOfPh2(shorter, at, elem.index, Dominant), Dominant), shorter)

\* One time quantum of the bit behind the edge is recessive again.
TestIso_8_7_6 ==
  /\ RunsTimed("8.7.6")
  /\ \E tm \in {SamplePointTest(2)} :
     \E bits \in {ConvBitFrameTimed(ActiveCan, tm)} :
     \E drv \in {WithAckVal(bits, Dominant)} :
     \E at \in {Choice(BeforeEdges(drv))} :
       RunSent(Reconfigured, tm, <<ActiveCan>>,
               ForceInBit(Shorten(drv, at, "Ph2", 1), at + 1, 1, 1, Recessive), Shorten(bits, at + 1, "Sync", 1))

\* All edges come late, by two time quanta.
TestIso_8_7_7 ==
  /\ RunsTimed("8.7.7")
  /\ \E tm \in {SamplePointTest(4)} :
     \E bits \in {ConvBitFrameTimed(ActiveCan, tm)} :
     \E drv \in {WithAckVal(bits, Dominant)} :
     LET late == {i + 1 : i \in BeforeEdges(drv)}
     IN  RunSent(Reconfigured, tm, <<ActiveCan>>,
                 [i \in DOMAIN drv |-> IF i \in late THEN ForceInBit(drv, i, 0, 1, Recessive)[i] ELSE drv[i]], bits)

\* What is left of PH2, where the bit is shorter by SJW, is dominant: for the monitor
\* there is at least a cycle more than the input delay.
TestIso_8_7_8 ==
  /\ RunsTimed("8.7.8")
  /\ \E tm \in {SamplePointTest(0)} :
     \E gold \in {Frame([fdf |-> Can20, rtr |-> Data, esi |-> ErrAct, dlc |-> 1, data |-> Bytes(85)], draw)} :
     \E bits \in {ConvBitFrameTimed(gold, tm)} :
     LET at == GetBitOf(bits, 1, "Data")
         shorter == Shorten(bits, at, "Ph2", tm.nbt.sjw)
         left == CyclesIn(shorter[at].tqs, InPhase(shorter[at].tqs, "Ph2"))
         mon == IF left > InputDelay THEN shorter
                ELSE [shorter EXCEPT ![at].tqs =
                        LengthenTQ(@, GetLastTQIter(@, "Ph2"), InputDelay - left + 1)]
     IN  RunSent(Reconfigured, tm, <<gold>>, ForcePh2(WithAckVal(shorter, Dominant), at, Dominant), mon)

\* A dominant bit is recessive around the sample point: an error, and the frame is
\* sent again.
TestIso_8_7_9 ==
  /\ RunsTimed("8.7.9")
  /\ \E tm \in {SamplePointTest(0)} :
     \E bits \in {ConvBitFrameTimed(ActiveCan, tm)} :
     \E at \in {Choice(Dominants(bits, DOMAIN bits))} :
     LET sampled == ForceLastOf(ForceInPhase(bits, at, 0, 0, "Ph2", Recessive), at, BeforePh2(bits, at), Recessive)
     IN  RunSent(Reconfigured, tm, <<ActiveCan>>,
                 ActErrFrmAt(Shorten(sampled, at, "Ph2", tm.nbt.sjw), at + 1) \o WithAckVal(bits, Dominant),
                 ActErrFrmAt(Shorten(bits, at, "Ph2", tm.nbt.sjw), at + 1) \o bits)

TestIso_8_7_Any ==
  \/ TestIso_8_7_1 \/ TestIso_8_7_2 \/ TestIso_8_7_3 \/ TestIso_8_7_4 \/ TestIso_8_7_5
  \/ TestIso_8_7_6 \/ TestIso_8_7_7 \/ TestIso_8_7_8 \/ TestIso_8_7_9
=============================================================================
