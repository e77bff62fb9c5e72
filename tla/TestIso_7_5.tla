---------------------------- MODULE TestIso_7_5 ----------------------------
(***************************************************************************)
(* Passive error state tests of a receiving DUT: the classes TestIso_7_5_*.*)
(***************************************************************************)
EXTENDS ClosedLoop

Setup_7_5 ==
  LET WithTec(setup) == [setup EXCEPT !.tec = <<128, 110>>]
  IN  "7.5.1" :> [Class(3, 3) EXCEPT !.tec = <<140, 1>>]
      @@ "7.5.2" :> WithTec(Class(1, 1)) @@ "7.5.3" :> WithTec(Class(3, 3))
      @@ "7.5.4" :> WithTec(Class(1, 1)) @@ "7.5.5" :> WithTec(Class(3, 3))
      @@ "7.5.6" :> WithTec(Class(3, 3)) @@ "7.5.7" :> Class(1, 1)

\* The stuff bit in the data is flipped, and a passive error frame follows.
PassiveStuffError(bits) == PasErrAt(FlipBitOf(bits, 6, "Data"), 7, "Data")
PassiveErrorSeen(bits) == PasErrAt(ConvRXFrame(bits), 7, "Data")

\* The frame is sent again after two bits of intermission, and received.
ThenRepeated(gold, drv, mon) ==
  \E bits \in {ConstructFrame(gold)} :
    RunElemTest(RemoveBit(drv, 2, "Interm") \o WithAck(bits),
                mon \o RemoveBit(ConvRXFrame(bits), 0, "Sof"),
                [reads |-> <<gold>>, no_more |-> TRUE])

\* An active error flag over the passive one.
TestIso_7_5_1 ==
  /\ Runs("7.5.1")
  /\ \E bits \in {ConstructFrame(BaseErrorDataFrame)} :
     LET n == <<0, 2, 5>>[elem.index]
     IN  ThenRepeated(BaseErrorDataFrame,
                      ActErrAt(PassiveStuffError(bits), n, "PasErrFlag"),
                      PasErrAt(PassiveErrorSeen(bits), n, "PasErrFlag"))

TestIso_7_5_2 ==
  /\ Runs("7.5.2")
  /\ \E bits \in {ConstructFrame(BaseErrorDataFrame)} :
       ThenRepeated(BaseErrorDataFrame, PassiveStuffError(bits), PassiveErrorSeen(bits))

\* Dominant bits before the delimiter.
TestIso_7_5_3 ==
  /\ Runs("7.5.3")
  /\ \E bits \in {ConstructFrame(BaseErrorDataFrame)} :
     LET more == <<1, 4, 7>>[elem.index]
         drv == PassiveStuffError(bits)
         mon == PassiveErrorSeen(bits)
         at == GetBitOf(drv, 0, "ErrDelim")
     IN  ThenRepeated(BaseErrorDataFrame, InsertVals(drv, at, "ActErrFlag", Times(more, Dominant)),
                      InsertVals(mon, at, "PasErrFlag", Times(more, Recessive)))

\* Nine frames with an error.
TestIso_7_5_4 ==
  /\ Runs("7.5.4")
  /\ LET bits == ConstructFrame(BaseErrorDataFrame)
         Nine(seq) == FlattenSeq([i \in 1 .. 9 |-> seq])
     IN  RunElemTest(Nine(PassiveStuffError(bits)), Nine(PassiveErrorSeen(bits)), [no_more |-> TRUE])

\* Five dominant bits in the flag let it begin again; an overload frame follows.
TestIso_7_5_5 ==
  /\ Runs("7.5.5")
  /\ \E bits \in {ConstructFrame(BaseErrorDataFrame)} :
     LET drv == PassiveStuffError(bits)
         at == GetBitOf(drv, <<0, 2, 5>>[elem.index], "PasErrFlag")
         drv_2 == InsertPasErrFrm(InsertVals(drv, at, "ActErrFlag", Times(5, Dominant)), at + 5)
         mon_2 == InsertPasErrFrm(InsertVals(PassiveErrorSeen(bits), at, "PasErrFlag",
                                             Times(5, Recessive)), at + 5)
     IN  RunElemTest(OvrlAt(FlipBitOf(drv_2, 7, "ErrDelim"), 0, "Interm"),
                     OvrlAt(mon_2, 0, "Interm"), [no_more |-> TRUE])

\* A dominant bit in the delimiter, then another in the last bit of the next one.
TestIso_7_5_6 ==
  /\ Runs("7.5.6")
  /\ \E bits \in {ConstructFrame(BaseErrorDataFrame)} :
     LET drv == PassiveStuffError(bits)
         at == GetBitOf(drv, <<1, 3, 6>>[elem.index], "ErrDelim")
         drv_2 == InsertPasErrFrm(Overwrite(drv, at, <<Dominant>>), at + 1)
         mon_2 == InsertPasErrFrm(PassiveErrorSeen(bits), at + 1)
     IN  RunElemTest(InsertOvrlFrm(Overwrite(drv_2, at + 14, <<Dominant>>), at + 15),
                     InsertOvrlFrm(mon_2, at + 15), [no_more |-> TRUE])

\* Bit errors in the active error flag make the DUT error passive.
TestIso_7_5_7 ==
  /\ Runs("7.5.7")
  /\ \E gold \in {BaseErrorDataFrame} :
     \E bits \in {ConstructFrame(gold)} :
     LET at == GetBitOf(bits, 7, "Data")
         Then(b, kind, val) ==
           InsertPasErrFrm(SubSeq(b, 1, at - 1) \o Field(kind, Times(18, val)), at + 17)
     IN  RunWith(SetRec(node, 0),
                 Then(FlipBitOf(bits, 6, "Data"), "ActErrFlag", Recessive) \o WithAck(bits),
                 Then(ConvRXFrame(bits), "PasErrFlag", Dominant) \o ConvRXFrame(bits),
                 [reads |-> <<gold>>, no_more |-> TRUE])

TestIso_7_5_Any ==
  \/ TestIso_7_5_1 \/ TestIso_7_5_2 \/ TestIso_7_5_3 \/ TestIso_7_5_4
  \/ TestIso_7_5_5 \/ TestIso_7_5_6 \/ TestIso_7_5_7
=============================================================================
