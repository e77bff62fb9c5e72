---------------------------- MODULE TestIso_7_4 ----------------------------
(***************************************************************************)
(* Error frame and overload frame tests of a receiving DUT: the classes    *)
(* TestIso_7_3_* and TestIso_7_4_*.                                        *)
(***************************************************************************)
EXTENDS ClosedLoop

Setup_7_4 ==
  "7.3.1" :> Class(3, 3) @@ "7.3.2" :> Class(1, 1)
  @@ "7.3.3" :> Class(3, 3) @@ "7.3.4" :> Class(3, 3)
  @@ "7.4.1" :> Class(2, 2) @@ "7.4.2" :> Class(1, 1)
  @@ "7.4.3" :> Fed(Class(2, 2))
  @@ "7.4.4" :> Class(3, 3) @@ "7.4.5" :> Class(3, 3)
  @@ "7.4.6" :> Fed(Class(2, 2)) @@ "7.4.7" :> Fed(Class(2, 2))

\* The stuff bit in the data is flipped, and both send an error frame.
StuffError(bits) == ActErrAt(FlipBitOf(bits, 6, "Data"), 7, "Data")
ErrorSeen(bits) == ActErrAt(ConvRXFrame(bits), 7, "Data")

\* The flag of the lower tester is the longer.
TestIso_7_3_1 ==
  /\ Runs("7.3.1")
  /\ \E bits \in {ConstructFrame(ErrorDataFrame)} :
     LET more == <<1, 4, 7>>[elem.index]
         drv == StuffError(bits)
         mon == ErrorSeen(bits)
     IN  RunElemTest(InsertVals(drv, GetBitOf(drv, 5, "ActErrFlag"), "ActErrFlag", Times(more, Dominant)),
                     InsertVals(mon, GetBitOf(mon, 0, "ErrDelim"), "ErrDelim", Times(more, Recessive)),
                     [no_more |-> TRUE])

\* A frame follows after two bits of intermission.
TestIso_7_3_2 ==
  /\ Runs("7.3.2")
  /\ \E bits \in {ConstructFrame(ErrorDataFrame)} :
     \E gold_2 \in {Frame(<<>>, draw_2)} :
     \E bits_2 \in {ConstructFrame(gold_2)} :
       RunElemTest(RemoveBit(StuffError(bits), 2, "Interm") \o WithAck(bits_2),
                   RemoveBit(ErrorSeen(bits), 2, "Interm") \o ConvRXFrame(bits_2),
                   [reads |-> <<gold_2>>])

\* Bit n of a field is driven as the opposite, and an error frame follows.
Disturbed(drv, mon, n, kind, checks) ==
  LET at == GetBitOf(drv, n, kind) IN
  RunElemTest(InsertActErrFrm(FlipVal(drv, at), at + 1), InsertActErrFrm(mon, at + 1), checks)

TestIso_7_3_3 ==
  /\ Runs("7.3.3")
  /\ \E bits \in {ConstructFrame(ErrorDataFrame)} :
       Disturbed(StuffError(bits), ErrorSeen(bits), <<0, 2, 5>>[elem.index], "ActErrFlag",
                 [no_more |-> TRUE])

TestIso_7_3_4 ==
  /\ Runs("7.3.4")
  /\ \E bits \in {ConstructFrame(ErrorDataFrame)} :
       Disturbed(StuffError(bits), ErrorSeen(bits), <<1, 3, 6>>[elem.index], "ErrDelim",
                 [no_more |-> TRUE])

-----------------------------------------------------------------------------
(* Overload frames.                                                        *)

\* A dominant bit at the end of the frame, and from bit m of the intermission on
\* an overload frame of both.
Overloaded(bits, n, kind, m, checks) ==
  RunElemTest(OvrlAt(WithAck(SetBitOf(bits, n, kind, Dominant)), m, "Interm"),
              OvrlAt(ConvRXFrame(bits), m, "Interm"), checks)

TestIso_7_4_1 ==
  /\ Runs("7.4.1")
  /\ Overloaded(ConstructFrame(RandomFrame), elem.index - 1, "Interm", elem.index,
                [reads |-> <<RandomFrame>>])

TestIso_7_4_2 ==
  /\ Runs("7.4.2")
  /\ Overloaded(ConstructFrame(RandomFrame), 6, "Eof", 0, [reads |-> <<RandomFrame>>])

\* The last bit of an error or overload delimiter is dominant.
TestIso_7_4_3 ==
  /\ Runs("7.4.3")
  /\ \E gold \in {BaseErrorDataFrame} :
     \E bits \in {ConstructFrame(gold)} :
     LET drv == IF elem.index = 1 THEN PasErrAt(FlipBitOf(bits, 6, "Data"), 7, "Data")
                ELSE PasErrAt(FlipBitOf(bits, 0, "Interm"), 1, "Interm")
         mon == IF elem.index = 1 THEN ErrorSeen(bits) ELSE OvrlAt(ConvRXFrame(bits), 1, "Interm")
         at == GetBitOf(drv, 7, "ErrDelim")
     IN  RunElemTest(InsertPasErrFrm(FlipVal(drv, at), at + 1), InsertOvrlFrm(mon, at + 1),
                     IF elem.index = 1 THEN [no_more |-> TRUE] ELSE [reads |-> <<gold>>])

\* Both frames of an overload condition in the last bit of EOF.
LateOverload(bits) == OvrlAt(WithAck(SetBitOf(bits, 6, "Eof", Dominant)), 0, "Interm")
OverloadSeen(bits) == OvrlAt(ConvRXFrame(bits), 0, "Interm")

TestIso_7_4_4 ==
  /\ Runs("7.4.4")
  /\ \E bits \in {ConstructFrame(RandomFrame)} :
       Disturbed(LateOverload(bits), OverloadSeen(bits), <<0, 2, 5>>[elem.index], "OvrlFlag",
                 [reads |-> <<RandomFrame>>])

TestIso_7_4_5 ==
  /\ Runs("7.4.5")
  /\ \E bits \in {ConstructFrame(RandomFrame)} :
       Disturbed(LateOverload(bits), OverloadSeen(bits), <<1, 3, 6>>[elem.index], "OvrlDelim",
                 [reads |-> <<RandomFrame>>])

\* A dominant bit in the intermission after an error frame.
TestIso_7_4_6 ==
  /\ Runs("7.4.6")
  /\ \E bits \in {ConstructFrame(ErrorDataFrame)} :
     LET drv == PasErrAt(FlipBitOf(bits, 6, "Data"), 7, "Data")
     IN  RunElemTest(PasErrAt(FlipBitOf(drv, elem.index - 1, "Interm"), elem.index, "Interm"),
                     OvrlAt(ErrorSeen(bits), elem.index, "Interm"), [no_more |-> TRUE])

\* And after an overload frame.
TestIso_7_4_7 ==
  /\ Runs("7.4.7")
  /\ \E bits \in {ConstructFrame(RandomFrame)} :
     LET drv == PasErrAt(FlipBitOf(bits, 0, "Interm"), 1, "Interm")
         mon == OvrlAt(ConvRXFrame(bits), 1, "Interm")
     IN  RunElemTest(PasErrAt(FlipBitOf(drv, elem.index, "Interm"), elem.index + 1, "Interm"),
                     OvrlAt(mon, elem.index + 1, "Interm"), [reads |-> <<RandomFrame>>])

TestIso_7_4_Any ==
  \/ TestIso_7_3_1 \/ TestIso_7_3_2 \/ TestIso_7_3_3 \/ TestIso_7_3_4
  \/ TestIso_7_4_1 \/ TestIso_7_4_2 \/ TestIso_7_4_3 \/ TestIso_7_4_4
  \/ TestIso_7_4_5 \/ TestIso_7_4_6 \/ TestIso_7_4_7
=============================================================================
