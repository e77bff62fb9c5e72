---------------------------- MODULE TestIso_8_4 ----------------------------
(***************************************************************************)
(* Error frame and overload frame tests of a transmitting DUT: the classes *)
(* TestIso_8_3_* and TestIso_8_4_*.                                        *)
(***************************************************************************)
EXTENDS TestIso_7_4

Setup_8_4 ==
  LET ErrorPassive(setup) == [setup EXCEPT !.tec = <<200, 1>>]
  IN  "8.3.1" :> Fed(Class(3, 3)) @@ "8.3.2" :> Fed(Class(2, 2))
      @@ "8.3.3" :> Class(3, 3) @@ "8.3.4" :> Fed(Class(3, 3))
      @@ "8.4.1" :> ErrorPassive(Fed(Class(2, 2))) @@ "8.4.2" :> ErrorPassive(Fed(Class(2, 2)))
      @@ "8.4.3" :> Fed(Class(2, 2))
      @@ "8.4.4" :> Class(3, 3) @@ "8.4.5" :> Fed(Class(3, 3))

Send(gold, drv, mon) == RunWith(SendFrames(node, <<gold>>), drv, mon, NoChecks)

\* The DUT sends its frame a second time.
SendTwice(gold, bits, drv, mon) == Send(gold, drv \o ConvRXFrame(bits), mon \o bits)

\* The second time without a SOF: the DUT takes a dominant bit for it.
Headless(bits) == RemoveBit(bits, 0, "Sof")

SendTwiceJoining(gold, bits, drv, mon) ==
  Send(gold, drv \o Headless(ConvRXFrame(bits)), mon \o Headless(bits))

\* The DUT sends a frame with a stuff bit in its data, and the error frame for it.
Sent(given) == Frame(given @@ [fdf |-> elem.fdf, esi |-> ErrAct], draw)
SentData == Sent(ErrorData)
JoiningData == Sent([ide |-> Base, ident |-> <<123, 59>>[elem.index]] @@ ErrorData)

ErrorSent(bits) == ActErrAt(bits, 7, "Data")

TestIso_8_3_1 ==
  /\ Runs("8.3.1")
  /\ \E gold \in {SentData} :
     \E bits \in {ConstructFrame(gold)} :
     LET more == <<1, 4, 7>>[elem.index]
         drv == StuffError(ConvRXFrame(bits))
         at == GetBitOf(drv, 0, "ErrDelim")
     IN  SendTwice(gold, bits, InsertVals(drv, at, "ActErrFlag", Times(more, Dominant)),
                   InsertVals(ErrorSent(bits), at, "PasErrFlag", Times(more, Recessive)))

TestIso_8_3_2 ==
  /\ Runs("8.3.2")
  /\ \E gold \in {JoiningData} :
     \E bits \in {ConstructFrame(gold)} :
       SendTwiceJoining(gold, bits, FlipBitOf(StuffError(ConvRXFrame(bits)), 2, "Interm"),
                        ErrorSent(bits))

\* Bit n of a field is driven as the opposite, and another error frame follows.
DisturbedAt(bits, at) == InsertActErrFrm(bits, at + 1)

\* The flag cannot be overwritten with feedback: the lower tester sends all of the
\* bus, the second frame with its acknowledge.
TestIso_8_3_3 ==
  /\ Runs("8.3.3")
  /\ \E gold \in {SentData} :
     \E bits \in {ConstructFrame(gold)} :
     LET drv == StuffError(bits)
         at == GetBitOf(drv, <<0, 3, 5>>[elem.index], "ActErrFlag")
     IN  Send(gold, DisturbedAt(FlipVal(drv, at), at) \o WithAck(bits),
              DisturbedAt(ErrorSent(bits), at) \o bits)

TestIso_8_3_4 ==
  /\ Runs("8.3.4")
  /\ \E gold \in {SentData} :
     \E bits \in {ConstructFrame(gold)} :
     LET drv == StuffError(ConvRXFrame(bits))
         at == GetBitOf(drv, <<1, 3, 6>>[elem.index], "ErrDelim")
     IN  SendTwice(gold, bits, DisturbedAt(FlipVal(drv, at), at), DisturbedAt(ErrorSent(bits), at))

-----------------------------------------------------------------------------
(* Overload frames.  The DUT has sent its frame, and does not again.       *)

IdleBits == Field("Idle", Times(15, Recessive))

\* An overload condition in bit n of the intermission.
OverloadDriven(bits, n) == PasErrAt(FlipBitOf(ConvRXFrame(bits), n, "Interm"), n + 1, "Interm")
OverloadSent(bits, n) == OvrlAt(bits, n + 1, "Interm")

PassiveSent(given) == Frame(given @@ [fdf |-> elem.fdf, esi |-> ErrPas], draw)

TestIso_8_4_1 ==
  /\ Runs("8.4.1")
  /\ \E gold \in {PassiveSent(<<>>)} :
     \E bits \in {ConstructFrame(gold)} :
       Send(gold, OverloadDriven(bits, elem.index - 1) \o IdleBits,
            OverloadSent(bits, elem.index - 1) \o IdleBits)

\* The last bit of the delimiter is dominant: an overload frame follows.
PassiveErrorDriven(bits) == PasErrAt(SetBitOf(ConvRXFrame(bits), 6, "Data", Dominant), 7, "Data")

EndOfDelimiter(drv) == GetBitOf(drv, 7, "ErrDelim")

ThenDriven(drv) == InsertPasErrFrm(FlipVal(drv, EndOfDelimiter(drv)), EndOfDelimiter(drv) + 1)
ThenSent(mon, drv) == InsertOvrlFrm(mon, EndOfDelimiter(drv) + 1)

TestIso_8_4_2 ==
  /\ Runs("8.4.2")
  /\ \E gold \in {PassiveSent(ErrorData)} :
     \E bits \in {ConstructFrame(gold)} :
     LET suspend == Field("SuspTrans", Times(8, Recessive))
         error == PassiveErrorDriven(bits)
         overload == OverloadDriven(bits, 0)
     IN  IF elem.index = 1
         THEN SendTwice(gold, bits, ThenDriven(error) \o suspend,
                        ThenSent(PasErrAt(bits, 7, "Data"), error) \o suspend)
         ELSE Send(gold, ThenDriven(overload) \o suspend \o IdleBits,
                   ThenSent(OverloadSent(bits, 0), overload) \o suspend \o IdleBits)

TestIso_8_4_3 ==
  /\ Runs("8.4.3")
  /\ \E gold \in {[JoiningData EXCEPT !.brs = NoShift]} :
     \E bits \in {ConstructFrame(gold)} :
     LET error == PassiveErrorDriven(bits)
     IN  SendTwiceJoining(gold, bits, FlipBitOf(ThenDriven(error), 2, "Interm"),
                          ThenSent(ErrorSent(bits), error))

\* Errors in an overload frame.
TestIso_8_4_4 ==
  /\ Runs("8.4.4")
  /\ \E gold \in {Sent(<<>>)} :
     \E bits \in {ConstructFrame(gold)} :
     LET drv == OvrlAt(FlipBitOf(WithAck(bits), 0, "Interm"), 1, "Interm")
         at == GetBitOf(drv, <<0, 1, 5>>[elem.index], "OvrlFlag")
     IN  Send(gold, DisturbedAt(FlipVal(drv, at), at), DisturbedAt(OverloadSent(bits, 0), at))

TestIso_8_4_5 ==
  /\ Runs("8.4.5")
  /\ \E gold \in {Sent(<<>>)} :
     \E bits \in {ConstructFrame(gold)} :
     LET drv == OvrlAt(FlipBitOf(ConvRXFrame(bits), 0, "Interm"), 1, "Interm")
         at == GetBitOf(drv, <<1, 3, 6>>[elem.index], "OvrlDelim")
     IN  Send(gold, InsertPasErrFrm(FlipVal(drv, at), at + 1), DisturbedAt(OverloadSent(bits, 0), at))

TestIso_8_4_Any ==
  \/ TestIso_8_3_1 \/ TestIso_8_3_2 \/ TestIso_8_3_3 \/ TestIso_8_3_4
  \/ TestIso_8_4_1 \/ TestIso_8_4_2 \/ TestIso_8_4_3 \/ TestIso_8_4_4 \/ TestIso_8_4_5
=============================================================================
