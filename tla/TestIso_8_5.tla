---------------------------- MODULE TestIso_8_5 ----------------------------
(***************************************************************************)
(* Tests of an error passive or bus-off transmitter: the classes           *)
(* TestIso_8_5_*, but for 8.5.11, which checks how long one controller     *)
(* takes to leave bus-off.                                                 *)
(***************************************************************************)
EXTENDS TestIso_8_4

Setup_8_5 ==
  LET Tec160(setup) == [setup EXCEPT !.tec = <<160, 1>>]
      Set150(setup) == [setup EXCEPT !.tec = <<150, 1>>, !.rec = 150]
  IN  "8.5.1" :> Fed(Class(3, 3)) @@ "8.5.2" :> Set150(Fed(Class(1, 1)))
      @@ "8.5.3" :> Set150(Fed(Class(3, 3))) @@ "8.5.4" :> Set150(Fed(Class(3, 3)))
      @@ "8.5.5" :> Set150(Fed(Class(1, 1))) @@ "8.5.6" :> Set150(Fed(Class(1, 1)))
      @@ "8.5.7" :> Set150(Fed(Class(1, 1))) @@ "8.5.8" :> Set150(Fed(Class(1, 1)))
      @@ "8.5.9" :> Fed(Class(3, 3)) @@ "8.5.10" :> Class(1, 1)
      @@ "8.5.12" :> Tec160(Fed(Class(1, 1))) @@ "8.5.13" :> Tec160(Fed(Class(3, 3)))
      @@ "8.5.14" :> Tec160(Fed(Class(1, 1))) @@ "8.5.15" :> Class(1, 1)

\* The frame of an error passive DUT: any, one with a stuff bit in its data, or one
\* with that and without a change of the bit rate.
Unhurried == [ide |-> Base, brs |-> NoShift]
PassiveData == PassiveSent(ErrorData)
UnhurriedData == PassiveSent(Unhurried @@ ErrorData)

PassiveErrorSent(bits) == PasErrAt(bits, 7, "Data")

Recessives(n) == Field("PasErrFlag", Times(n, Recessive))
Suspended == Field("SuspTrans", Times(8, Recessive))

SendTwiceSuspended(gold, bits, drv, mon) ==
  SendTwice(gold, bits, drv \o Suspended, mon \o Suspended)

\* While the DUT waits, the lower tester sends another frame, which the DUT
\* receives before it sends its own again.
SendAroundOther(dut, gold, other, first) ==
  \E bits \in {ConstructFrame(gold)}, bits_2 \in {ConstructFrame(other)} :
    RunWith(SendFrames(dut, <<gold>>), first.drv \o bits_2 \o ConvRXFrame(bits),
            first.mon \o ConvRXFrame(bits_2) \o bits, [reads |-> <<other>>])

Both(drv, mon) == [drv |-> drv, mon |-> mon]

\* What both frames are up to the error flag of the DUT and its delimiter.
PassiveErrorOfBoth(gold) ==
  LET bits == ConstructFrame(gold) IN Both(PassiveErrorDriven(bits), PassiveErrorSent(bits))

\* The lower tester begins an active error flag within the passive one.
TestIso_8_5_1 ==
  /\ Runs("8.5.1")
  /\ \E gold \in {UnhurriedData} :
     \E first \in {PassiveErrorOfBoth(gold)} :
     LET at == GetBitOf(first.drv, <<0, 2, 5>>[elem.index], "PasErrFlag")
         other == Frame([fdf |-> elem.fdf, esi |-> ErrPas] @@ Unhurried @@ ErrorData, draw_2)
     IN  SendAroundOther(SetTec(node, 160), gold, other,
                         Both(InsertActErrFrm(first.drv, at), InsertPasErrFrm(first.mon, at)))

\* The other frame begins in the third bit of the intermission.
WithoutThirdBit(first) == Both(RemoveBit(first.drv, 2, "Interm"), RemoveBit(first.mon, 2, "Interm"))

TestIso_8_5_2 ==
  /\ Runs("8.5.2")
  /\ \E gold \in {PassiveData} :
     \E bits \in {ConstructFrame(gold)} :
       SendAroundOther(node, gold, Frame(<<>>, draw_2),
                       WithoutThirdBit(Both(StuffError(ConvRXFrame(bits)), PassiveErrorSent(bits))))

\* Dominant bits follow the passive error flag.
Prolonged(first, n) ==
  LET at == GetBitOf(first.drv, 0, "ErrDelim")
  IN  Both(InsertVals(first.drv, at, "ActErrFlag", Times(n, Dominant)),
           InsertVals(first.mon, at, "PasErrFlag", Times(n, Recessive)))

TestIso_8_5_3 ==
  /\ Runs("8.5.3")
  /\ \E gold \in {UnhurriedData} :
     \E first \in {PassiveErrorOfBoth(gold)} :
       SendAroundOther(node, gold, Frame([fdf |-> elem.fdf, rtr |-> Data, esi |-> ErrPas] @@ Unhurried, draw_2),
                       Prolonged(first, <<1, 4, 7>>[elem.index]))

\* The DUT has sent its frame, and waits in case it has another.
TestIso_8_5_4 ==
  /\ Runs("8.5.4")
  /\ \E gold \in {PassiveSent(<<>>)} :
     \E other \in {Frame([fdf |-> elem.fdf, esi |-> ErrPas], draw_2)} :
     \E bits \in {ConstructFrame(gold)}, bits_2 \in {ConstructFrame(other)} :
     LET wait == Recessives(<<0, 3, 7>>[elem.index])
     IN  RunWith(SendFrames(node, <<gold>>), ConvRXFrame(bits) \o wait \o bits_2,
                 bits \o wait \o ConvRXFrame(bits_2), [reads |-> <<other>>])

TestIso_8_5_5 ==
  /\ Runs("8.5.5")
  /\ \E gold \in {PassiveData} :
     \E bits \in {ConstructFrame(gold)} :
       SendTwiceSuspended(gold, bits, PassiveErrorDriven(bits), PassiveErrorSent(bits))

\* Two frames are queued.
SendBoth(gold, gold_2, drv, mon) ==
  LET bits_2 == ConstructFrame(gold_2)
  IN  RunWith(SendFrames(node, <<gold, gold_2>>), drv \o Suspended \o ConvRXFrame(bits_2),
              mon \o Suspended \o bits_2, NoChecks)

TestIso_8_5_6 ==
  /\ Runs("8.5.6")
  /\ \E gold \in {PassiveSent(<<>>)} :
     \E bits \in {ConstructFrame(gold)} :
       SendBoth(gold, gold, OverloadDriven(bits, 0), OverloadSent(bits, 0))

TestIso_8_5_7 ==
  /\ Runs("8.5.7")
  /\ \E gold \in {PassiveSent(<<>>)} :
     \E bits \in {ConstructFrame(gold)} :
       SendBoth(gold, Frame([fdf |-> elem.fdf, esi |-> ErrPas], draw_2), ConvRXFrame(bits), bits)

\* An error passive DUT that has lost arbitration does not wait.  The winning frame
\* of CAN is one bit shorter than what is monitored.
TestIso_8_5_8 ==
  /\ Runs("8.5.8")
  /\ LET Numbered(id) == PassiveSent([rtr |-> Data, dlc |-> 1, ident |-> id, data |-> Bytes(170)] @@ Unhurried)
     IN  \E gold \in {Numbered(1098)} :
         \E bits \in {ConstructFrame(gold)} :
         LET lost == LooseArbit(bits, GetBitOf(bits, 0, "BaseIdent"))
         IN  SendTwice(gold, bits, ConstructFrame(Numbered(586)),
                       IF elem.fdf = Can20 THEN RemoveBit(lost, 0, "Data") ELSE lost)

\* The other frame begins before, at the beginning of and late in the suspend time.
TestIso_8_5_9 ==
  /\ Runs("8.5.9")
  /\ \E gold \in {UnhurriedData} :
     \E first \in {PassiveErrorOfBoth(gold)} :
     LET late == Both(first.drv \o Recessives(7), first.mon \o Recessives(7))
     IN  \E other \in {Frame([fdf |-> elem.fdf], draw_2)} :
         \E bits \in {ConstructFrame(gold)}, bits_2 \in {ConstructFrame(other)} :
         LET begun == <<WithoutThirdBit(first), first, late>>[elem.index]
         IN  RunWith(SendFrames(SetErrPas(node), <<gold>>),
                     begun.drv \o bits_2 \o ConvRXFrame(bits) \o Suspended,
                     begun.mon \o ConvRXFrame(bits_2) \o bits \o Suspended, [reads |-> <<other>>])

-----------------------------------------------------------------------------
(* On the way to bus-off: error flags are corrupted.                       *)

\* The frame up to the stuff bit, which is driven as the opposite.
UpToStuffBit(bits) == SubSeq(bits, 1, GetBitOf(bits, 6, "Data"))
FlippedLast(bits) == FlipVal(bits, Len(bits))

\* A DUT that is error passive by now tells it in the frame it sends again.
NowPassive(gold) == [gold EXCEPT !.esi = IF elem.fdf = CanFd THEN ErrPas ELSE @]

\* The values of consecutive bits of both frames, as they are appended.
Seq2(drv, mon) == Both(Field("Idle", drv), Field("Idle", mon))
D(n) == Times(n, Dominant)
R(n) == Times(n, Recessive)

\* The acknowledge, and the first two bits of the intermission of the second frame.
OverloadSpoilt(bits, n, val) ==
  SubSeq(SetBitOf(bits, n, "Interm", val), 1, GetBitOf(bits, 1, "Interm"))

\* Seven of the eight bytes of data are read from behind the variable they are
\* copied from: they are any.
TestIso_8_5_10 ==
  /\ Runs("8.5.10")
  /\ \E gold \in {Frame([fdf |-> elem.fdf, rtr |-> Data, esi |-> ErrAct, dlc |-> 8,
                         data |-> [draw.data EXCEPT ![0] = 128]] @@ Unhurried, draw)} :
     \E bits \in {UpToStuffBit(ConstructFrame(gold))} :
     \E again \in {ConstructFrame(NowPassive(gold))} :
     \E unseen \in {ConstructFrame(Frame([fdf |-> elem.fdf, rtr |-> Data], draw_2))} :
     LET flag == Seq2(R(16 + 6) \o D(112) \o R(8 + 3 + 8), D(16) \o R(6 + 112 + 8 + 3 + 8))
         last == Seq2(R(6 + 7) \o D(1) \o R(1) \o R(25), R(6 + 7) \o R(1) \o D(1) \o R(25))
     IN  RunWith(SendFrames(node, <<gold>>),
                 FlippedLast(bits) \o flag.drv \o OverloadSpoilt(WithAck(again), 0, Dominant)
                   \o last.drv \o unseen,
                 bits \o flag.mon \o OverloadSpoilt(again, 1, Dominant)
                   \o last.mon \o NoAck(ConvRXFrame(unseen)),
                 [restarts |-> TRUE])

\* A passive error flag ends with six equal bits.
TestIso_8_5_12 ==
  /\ Runs("8.5.12")
  /\ \E gold \in {UnhurriedData} :
     \E bits \in {ConstructFrame(gold)} :
     LET flag == Seq2(D(5) \o R(5) \o D(6) \o R(8) \o D(1), R(5 + 5 + 6 + 8 + 1))
         begun == UpToStuffBit(bits)
         overload == Field("OvrlFlag", D(6)) \o Field("OvrlDelim", R(8)) \o Field("Interm", R(3))
     IN  SendTwiceSuspended(gold, bits, FlippedLast(begun) \o flag.drv \o overload,
                            begun \o flag.mon \o overload)

\* A dominant bit in the delimiter, and an overload frame after it.
TestIso_8_5_13 ==
  /\ Runs("8.5.13")
  /\ \E gold \in {UnhurriedData} :
     \E bits \in {ConstructFrame(gold)} :
     LET drv == PasErrAt(FlipBitOf(bits, 6, "Data"), 7, "Data")
         at == GetBitOf(drv, <<1, 3, 6>>[elem.index], "ErrDelim")
         error == Both(InsertPasErrFrm(FlipVal(drv, at), at + 1),
                       InsertPasErrFrm(PassiveErrorSent(bits), at + 1))
     IN  SendTwiceSuspended(gold, bits,
                            PasErrAt(FlipBitOf(error.drv, 0, "Interm"), 1, "Interm"),
                            OvrlAt(error.mon, 1, "Interm"))

TestIso_8_5_14 ==
  /\ Runs("8.5.14")
  /\ \E gold \in {UnhurriedData} :
     \E bits \in {ConstructFrame(gold)} :
     LET drv == PasErrAt(FlipBitOf(bits, 6, "Data"), 7, "Data")
         error == Prolonged(Both(drv, PassiveErrorSent(bits)), 6)
     IN  SendTwiceSuspended(gold, bits, error.drv, error.mon)

\* The active error flag is never seen until the DUT is passive.  The frames are
\* not randomized: their identifier is 0.
TestIso_8_5_15 ==
  /\ Runs("8.5.15")
  /\ \E gold \in {Frame([fdf |-> elem.fdf, esi |-> ErrAct, ident |-> 0] @@ Unhurried @@ ErrorData, draw)} :
     \E bits \in {UpToStuffBit(ConstructFrame(gold))} :
     \E again \in {ConstructFrame(NowPassive(gold))} :
     LET flag == Seq2(R(16 + 6 + 8 + 3), D(16) \o R(6 + 8 + 3))
     IN  RunWith(SendFrames(SetTec(node, 0), <<gold>>),
                 FlippedLast(bits) \o flag.drv \o Suspended \o WithAck(again),
                 bits \o flag.mon \o Suspended \o again, NoChecks)

TestIso_8_5_Any ==
  \/ TestIso_8_5_1 \/ TestIso_8_5_2 \/ TestIso_8_5_3 \/ TestIso_8_5_4 \/ TestIso_8_5_5
  \/ TestIso_8_5_6 \/ TestIso_8_5_7 \/ TestIso_8_5_8 \/ TestIso_8_5_9 \/ TestIso_8_5_10
  \/ TestIso_8_5_12 \/ TestIso_8_5_13 \/ TestIso_8_5_14 \/ TestIso_8_5_15
=============================================================================
