---------------------------- MODULE TestIso_8_6 ----------------------------
(***************************************************************************)
(* Error counter tests of a transmitting DUT, the classes TestIso_8_6_*,   *)
(* and over many frames, TestIso_9_6_*. Each error counts eight, and each  *)
(* frame that is sent at last takes one.                                   *)
(***************************************************************************)
EXTENDS TestIso_7_6, TestIso_8_2, TestIso_8_5

Setup_8_6 ==
  LET From(tec, setup) == [setup EXCEPT !.tec = tec]
      Once == Fed(Class(1, 1))
  IN  "8.6.1" :> Class(3, 3) @@ "8.6.2" :> Class(3, 3) @@ "8.6.3" :> Once
      @@ "8.6.4" :> Fed(Class(5, 5)) @@ "8.6.5" :> Once @@ "8.6.6" :> Class(8, 10)
      @@ "8.6.7" :> Class(5, 7) @@ "8.6.8" :> Once @@ "8.6.9" :> Fed(Class(3, 3))
      @@ "8.6.10" :> Fed(Class(2, 2)) @@ "8.6.11" :> From(<<2, 126>>, Once)
      @@ "8.6.12" :> From(<<130, 126>>, Once) @@ "8.6.13" :> From(<<8, 1>>, Once)
      @@ "8.6.14" :> Once @@ "8.6.15" :> From(<<8, 1>>, Once)
      @@ "8.6.16" :> From(<<8, 1>>, Once) @@ "8.6.17" :> From(<<130, 125>>, Once)
      @@ "8.6.18" :> Once @@ "8.6.19" :> From(<<8, 1>>, Once)
      @@ "8.6.20" :> From(<<8, 1>>, Once) @@ "8.6.21" :> From(<<8, 1>>, Once)

\* The DUT sends the frame, and the run changes its TEC by n.
SendCounted(dut, gold, first, n) ==
  RunWith(SendFrames(dut, <<gold>>), first.drv, first.mon, TecChange(dut, n))

\* The frame is sent a second time, by the lower tester alone or with feedback.
Then(first, second) == Both(first.drv \o second.drv, first.mon \o second.mon)
WholeAgain(bits) == Both(WithAck(bits), bits)
Again(bits) == Both(ConvRXFrame(bits), bits)

\* Both frames up to the error frame for the stuff bit in the data, or to the
\* overload frame after the first bit of the intermission.
ActiveData == Sent(Unhurried @@ ErrorData)
ErrorOf(bits) == Both(StuffError(bits), ErrorSent(bits))
FedError(drv) == PasErrAt(FlipBitOf(drv, 6, "Data"), 7, "Data")

OverloadBoth(drv, mon) ==
  Both(OvrlAt(FlipBitOf(drv, 0, "Interm"), 1, "Interm"), OvrlAt(mon, 1, "Interm"))

\* Bit n of a field is driven as the opposite, and an error frame of the DUT follows.
DisturbedBoth(first, n, kind) ==
  LET at == GetBitOf(first.drv, n, kind)
  IN  Both(DisturbedAt(FlipVal(first.drv, at), at), DisturbedAt(first.mon, at))

\* The frames of the lower tester have a passive flag in its place.
DisturbedFed(first, n, kind) ==
  LET at == GetBitOf(first.drv, n, kind)
  IN  Both(InsertPasErrFrm(FlipVal(first.drv, at), at + 1), DisturbedAt(first.mon, at))

-----------------------------------------------------------------------------
(* Errors in error and overload flags, and dominant bits after them.       *)

TestIso_8_6_1 ==
  /\ Runs("8.6.1")
  /\ \E gold \in {ActiveData} :
     \E bits \in {ConstructFrame(gold)} :
       SendCounted(node, gold,
                   Then(DisturbedBoth(ErrorOf(bits), <<0, 2, 5>>[elem.index], "ActErrFlag"),
                        WholeAgain(bits)), 15)

\* Only in the first run is there nothing the frame takes from TEC.
TestIso_8_6_2 ==
  /\ Runs("8.6.2")
  /\ \E gold \in {Sent(<<>>)} :
     \E bits \in {ConstructFrame(gold)} :
       SendCounted(node, gold,
                   DisturbedBoth(OverloadBoth(WithAck(bits), bits), <<0, 2, 5>>[elem.index], "OvrlFlag"),
                   IF FirstCommon THEN 8 ELSE 7)

TestIso_8_6_3 ==
  /\ Runs("8.6.3")
  /\ \E gold \in {ActiveData} :
     \E bits \in {ConstructFrame(gold)} :
       SendCounted(node, gold, Then(Prolonged(Both(FedError(bits), ErrorSent(bits)), 16), WholeAgain(bits)), 23)

\* Every eight dominant bits after the flag count.
TestIso_8_6_4 ==
  /\ Runs("8.6.4")
  /\ \E gold \in {UnhurriedData} :
     \E bits \in {ConstructFrame(gold)} :
     LET more == <<1, 6, 8, 9, 16>>[elem.index]
     IN  SendCounted(SetTec(node, 130), gold,
                     Then(Then(Prolonged(Both(FedError(bits), PassiveErrorSent(bits)), more), Both(Suspended, Suspended)),
                          WholeAgain(bits)),
                     IF elem.index < 3 THEN 7 ELSE IF elem.index < 5 THEN 15 ELSE 23)

\* Dominant bits after an overload flag.
ProlongedOverload(first, n) ==
  LET at == GetBitOf(first.drv, 0, "OvrlDelim")
  IN  Both(InsertVals(first.drv, at, "OvrlFlag", Times(n, Dominant)),
           InsertVals(first.mon, at, "OvrlDelim", Times(n, Recessive)))

TestIso_8_6_5 ==
  /\ Runs("8.6.5")
  /\ \E gold \in {Sent(<<>>)} :
     \E bits \in {ConstructFrame(gold)} :
       SendCounted(node, gold, ProlongedOverload(OverloadBoth(ConvRXFrame(bits), bits), 23),
                   IF FirstCommon THEN 16 ELSE 15)

-----------------------------------------------------------------------------
(* Bit, form and acknowledge errors in a frame.                            *)

\* The counter may not come near to error passive.
BelowPassive(dut) == IF dut.tec > 100 THEN SetTec(dut, 0) ELSE dut

\* A bit the lower tester alone drives as the opposite.
Corrupted(gold, drv, at) ==
  \E bits \in {ConstructFrame(gold)} :
    SendCounted(BelowPassive(node), gold,
                Then(Both(ActErrFrom(FlipVal(drv, at), at), ActErrFrom(bits, at)), WholeAgain(bits)), 7)

\* Frames are drawn until no field has equal bits only.
Varied(f) == f.ident \notin {2047, 536870911} /\ f.data[0] \notin {0, 255}
VariedDraw == SelectSeq(<<draw>> \o Outcomes[elem.seed].more, Varied)[1]

VariedDlc ==
  IF elem.fdf = Can20 THEN Rand(8) + 1
  ELSE IF elem.index \in {7, 8} THEN Rand(10) + 1
  ELSE IF elem.index \in {9, 10} THEN Rand(4) + 11 ELSE Rand(14) + 1

\* The corrupted bit is no stuff bit but in the CRC, where others may be missing.
PlainBitSought(bits) ==
  LET val == IF elem.index \in {4, 6, 8, 10} THEN Recessive ELSE Dominant
      kind == CASE elem.index = 1 -> "Sof" [] elem.index = 2 -> "BaseIdent"
                [] elem.index \in {3, 4} -> "Dlc" [] elem.index \in {5, 6} -> "Data" [] OTHER -> "Crc"
  IN  RandomBit(bits, LAMBDA b : b.kind = kind /\ b.val = val /\ (IsStuff(b) => kind = "Crc"))

TestIso_8_6_6 ==
  /\ Runs("8.6.6")
  /\ \E gold \in {Frame([fdf |-> elem.fdf, rtr |-> Data, esi |-> ErrAct, dlc |-> VariedDlc], VariedDraw)} :
     \E bits \in {ConstructFrame(gold)} : Corrupted(gold, bits, PlainBitSought(bits))

\* The frames are not randomized: all is 0 but the DLC.
TestIso_8_6_7 ==
  /\ Runs("8.6.7")
  /\ \E gold \in {Frame([fdf |-> elem.fdf, ide |-> Base, rtr |-> Data, brs |-> NoShift, esi |-> ErrAct,
                          dlc |-> IF elem.index < 7 THEN Rand(9) ELSE Rand(4) + 11, ident |-> 0,
                          data |-> Bytes(0)], draw)} :
     \E bits \in {WithAck(ConstructFrame(gold))} :
       Corrupted(gold, bits,
                 IF elem.index <= 5 THEN FormBit(bits)
                 ELSE RandomBit(bits, LAMBDA b : b.kind = "Crc" /\ b.stuff = "Fixed"))

TestIso_8_6_8 ==
  /\ Runs("8.6.8")
  /\ \E gold \in {Sent(<<>>)} :
     \E bits \in {ConstructFrame(gold)} :
       SendCounted(node, gold, Then(Both(PasErrAt(bits, 0, "AckDelim"), ActErrAt(bits, 0, "AckDelim")), WholeAgain(bits)), 7)

-----------------------------------------------------------------------------
(* Errors in delimiters.                                                   *)

TestIso_8_6_9 ==
  /\ Runs("8.6.9")
  /\ \E gold \in {ActiveData} :
     \E bits \in {ConstructFrame(gold)} :
       SendCounted(node, gold,
                   Then(DisturbedFed(Both(FedError(bits), ErrorSent(bits)),
                                     <<1, 3, 6>>[elem.index], "ErrDelim"),
                        WholeAgain(bits)), 15)

TestIso_8_6_10 ==
  /\ Runs("8.6.10")
  /\ \E gold \in {Sent(<<>>)} :
     \E bits \in {ConstructFrame(gold)} :
       SendCounted(node, gold,
                   DisturbedFed(Both(OverloadDriven(bits, 0), OverloadSent(bits, 0)), <<1, 6>>[elem.index], "ErrDelim"),
                   IF FirstCommon THEN 8 ELSE 7)

-----------------------------------------------------------------------------
(* What takes one from TEC, and what is not counted.                       *)

SendPlainly(gold) == SendCounted(node, gold, Again(ConstructFrame(gold)), -1)

TestIso_8_6_11 == Runs("8.6.11") /\ SendPlainly(Sent(<<>>))
TestIso_8_6_12 == Runs("8.6.12") /\ SendPlainly(PassiveSent(<<>>))

\* Seven dominant bits after an overload or an error flag.
TestIso_8_6_13 ==
  /\ Runs("8.6.13")
  /\ \E gold \in {Sent(<<>>)} :
     \E bits \in {ConstructFrame(gold)} :
       SendCounted(node, gold, ProlongedOverload(OverloadBoth(ConvRXFrame(bits), bits), 7), -1)

TestIso_8_6_14 ==
  /\ Runs("8.6.14")
  /\ \E gold \in {ActiveData} :
     \E bits \in {ConstructFrame(gold)} :
       SendCounted(node, gold, Then(Prolonged(Both(FedError(ConvRXFrame(bits)), ErrorSent(bits)), 7), Again(bits)), 7)

\* The last bit of the delimiter is an overload condition.
TestIso_8_6_15 ==
  /\ Runs("8.6.15")
  /\ \E gold \in {Sent(<<>>)} :
     \E bits \in {ConstructFrame(gold)} :
     \E first \in {OverloadBoth(ConvRXFrame(bits), bits)} :
       SendCounted(node, gold,
                   Both(OvrlAt(FlipBitOf(first.drv, 7, "OvrlDelim"), 1, "Interm"), OvrlAt(first.mon, 1, "Interm")),
                   -1)

TestIso_8_6_16 ==
  /\ Runs("8.6.16")
  /\ \E gold \in {ActiveData} :
     \E bits \in {ConstructFrame(gold)} :
     LET error == FedError(ConvRXFrame(bits))
     IN  SendCounted(node, gold, Then(Both(ThenDriven(error), ThenSent(ErrorSent(bits), error)), Again(bits)), 7)

\* A passive DUT without acknowledge.
Unacknowledged(bits) ==
  Both(PasErrAt(NoAck(ConvRXFrame(bits)), 0, "AckDelim"), PasErrAt(bits, 0, "AckDelim"))

SendSuspended(dut, gold, bits, first, n) ==
  SendCounted(dut, gold, Then(Then(first, Both(Suspended, Suspended)), Again(bits)), n)

TestIso_8_6_17 ==
  /\ Runs("8.6.17")
  /\ \E gold \in {PassiveSent(<<>>)} :
     \E bits \in {ConstructFrame(gold)} : SendSuspended(node, gold, bits, Unacknowledged(bits), -1)

\* It counts if another node sends in its error flag.
TestIso_8_6_18 ==
  /\ Runs("8.6.18")
  /\ \E gold \in {PassiveSent(<<>>)} :
     \E bits \in {ConstructFrame(gold)} :
     \E first \in {Unacknowledged(bits)} :
     LET at == GetBitOf(first.drv, 5, "PasErrFlag")
     IN  SendSuspended(SetErrPas(node), gold, bits,
                       Both(InsertPasErrFrm(FlipVal(first.drv, at), at + 1), InsertPasErrFrm(first.mon, at + 1)), 7)

\* A stuff error in the arbitration field.
TestIso_8_6_19 ==
  /\ Runs("8.6.19")
  /\ \E gold \in {Sent([ide |-> Base, dlc |-> 1, ident |-> 1024])} :
     \E bits \in {ConstructFrame(gold)} :
       SendCounted(node, gold,
                   Then(Both(PasErrAt(FlipBitOf(ConvRXFrame(bits), 6, "BaseIdent"), 7, "BaseIdent"),
                             ActErrAt(bits, 7, "BaseIdent")),
                        Again(bits)), -1)

-----------------------------------------------------------------------------
(* The DUT loses arbitration, and sends its frame after that.              *)

Identified(n, given, random) ==
  Frame([fdf |-> elem.fdf, rtr |-> Data, esi |-> ErrAct, dlc |-> 1, ident |-> n] @@ Unhurried @@ given, random)

LostAtLast(bits) == LooseArbit(bits, GetBitOfNoStuffBits(bits, 10, "BaseIdent"))

TestIso_8_6_20 ==
  /\ Runs("8.6.20")
  /\ \E bits \in {ConstructFrame(Identified(80, <<>>, draw))} :
     \E gold_2 \in {Identified(81, <<>>, draw_2)} :
       SendCounted(node, gold_2, Then(Both(bits, LostAtLast(bits)), Again(ConstructFrame(gold_2))), -1)

\* The error of the receiver counts in REC.
TestIso_8_6_21 ==
  /\ Runs("8.6.21")
  /\ \E bits \in {ConstructFrame(Identified(80, ErrorData, draw))} :
     \E gold_2 \in {Identified(81, ErrorData, draw_2)} :
     \E bits_2 \in {ConstructFrame(gold_2)} :
     LET drv == FedError(bits)
     IN  RunWith(SendFrames(node, <<gold_2>>), drv \o ConvRXFrame(bits_2),
                 ActErrAt(LostAtLast(bits), 7, "Data") \o bits_2, TecChange(node, -1) @@ RecChange(node, 1))

TestIso_8_6_Any ==
  \/ TestIso_8_6_1 \/ TestIso_8_6_2 \/ TestIso_8_6_3 \/ TestIso_8_6_4 \/ TestIso_8_6_5
  \/ TestIso_8_6_6 \/ TestIso_8_6_7 \/ TestIso_8_6_8 \/ TestIso_8_6_9 \/ TestIso_8_6_10
  \/ TestIso_8_6_11 \/ TestIso_8_6_12 \/ TestIso_8_6_13 \/ TestIso_8_6_14 \/ TestIso_8_6_15
  \/ TestIso_8_6_16 \/ TestIso_8_6_17 \/ TestIso_8_6_18 \/ TestIso_8_6_19 \/ TestIso_8_6_20
  \/ TestIso_8_6_21

-----------------------------------------------------------------------------
(* Errors are repeated until the DUT becomes error passive.                *)

Setup_9_6 == "9.6.1" :> Class(1, 1) @@ "9.6.2" :> Class(1, 1)

Numbered(esi) ==
  Frame([fdf |-> elem.fdf, esi |-> esi, ident |-> 170] @@ Unhurried @@ ErrorData, draw)

RECURSIVE Repeated(_, _)
Repeated(first, n) == IF n = 1 THEN first ELSE Then(first, Repeated(first, n - 1))

\* Sixteen errors of a transmitter, of eight each.
TestIso_9_6_1 ==
  /\ Runs("9.6.1")
  /\ \E gold \in {Numbered(ErrAct)} :
     \E bits \in {ConstructFrame(gold)}, bits_3 \in {ConstructFrame(Numbered(ErrPas))} :
     LET suspended == Both(Suspended, Suspended)
         passive == Both(FedError(bits_3), PassiveErrorSent(bits_3))
     IN  \E first \in {Then(Repeated(ErrorOf(bits), 16), suspended)},
            last \in {Then(Then(passive, suspended), WholeAgain(bits_3))} :
           RunWith(SendFrames(SetTec(SetRec(node, 127), 0), <<gold>>),
                   first.drv \o last.drv, first.mon \o last.mon, NoChecks)

\* The frame with the error, as the DUT receives it, and its error frame.
ErrorReceived(bits) == Both(StuffError(bits), ErrorSeen(bits))

PassiveReceived(bits) ==
  Both(FedError(bits), PasErrAt(ConvRXFrame(bits), 7, "Data"))

\* A hundred and twenty-eight errors of a receiver, and one more.
TestIso_9_6_2 ==
  /\ Runs("9.6.2")
  /\ LET dut == IF elem.round = 1 THEN SetRec(SetTec(node, 127), 0) ELSE node
         errors == 128
         Round(frames, checks) ==
           RunWith(dut, frames.drv, frames.mon, checks @@ [rounds |-> errors + 1, all_rounds |-> TRUE])
     IN  IF elem.round <= errors
         THEN \E bits \in {ConstructFrame(Numbered(ErrAct))} : Round(ErrorReceived(bits), RecChange(dut, 1))
         ELSE \E bits \in {ConstructFrame(Numbered(ErrPas))} : Round(PassiveReceived(bits), <<>>)

TestIso_9_6_Any == TestIso_9_6_1 \/ TestIso_9_6_2
=============================================================================
