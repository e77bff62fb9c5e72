---------------------------- MODULE TestIso_7_1 ----------------------------
(***************************************************************************)
(* Valid frame format tests of a receiving DUT: the classes TestIso_7_1_*. *)
(* An action is RunElemTest of a class, of the elementary test elem says,  *)
(* in the variants a CAN FD enabled DUT has.                               *)
(***************************************************************************)
EXTENDS ClosedLoop

\* ConfigureTest of the classes.
Setup_7_1 ==
  LET Exceptions(setup) == [setup EXCEPT !.feedback = TRUE, !.pex = TRUE]
  IN  "7.1.1"  :> Fed(Class(45, 80)) @@ "7.1.2" :> Fed(Class(45, 80))
      @@ "7.1.3"  :> Fed(Class(6, 4))   @@ "7.1.4" :> Fed(Class(0, 1))
      @@ "7.1.5"  :> Fed(Class(0, 3))   @@ "7.1.6" :> Exceptions(Class(0, 2))
      @@ "7.1.7"  :> Exceptions(Class(0, 3))
      @@ "7.1.8"  :> Class(7, 0)        @@ "7.1.9" :> Class(2, 2)
      @@ "7.1.10" :> Fed(Class(0, 10))  @@ "7.1.11" :> Fed(Class(0, 11))
      @@ "7.1.12" :> Class(1, 1)

\* The frame is driven, with feedback, and the DUT acknowledges it.
Receive(gold, bits) == RunElemTest(bits, ConvRXFrame(bits), [reads |-> <<gold>>])

\* Five identifiers without data, then identifier 0 and longer and longer data.
EachLength(name, ide, ids, random_id) ==
  /\ Runs(name)
  /\ LET id == IF elem.index = 5 THEN random_id ELSE IF elem.index < 5 THEN ids[elem.index] ELSE 0
       gold == Frame([fdf |-> elem.fdf, ide |-> ide, rtr |-> Data,
                      dlc |-> (elem.index - 1) \div 5, ident |-> id], draw)
     IN  Receive(gold, ConstructFrame(gold))

TestIso_7_1_1 ==
  EachLength("7.1.1", Base, <<1365, 682, 0, 2047>>, draw.ident % 2048)

TestIso_7_1_2 ==
  EachLength("7.1.2", Ext, <<357913941, 178956970, 0, 536870911>>, draw.ident)

\* Frame kind, identifier type and identifier of the lower tester and of the DUT,
\* the field the DUT loses arbitration in and the bit of it.
LosingFrames(id11, id29) ==
  [common |->
     <<[lt |-> [fdf |-> Can20, ide |-> Base, rtr |-> Data, ident |-> id11],
        iut |-> [fdf |-> Can20, ide |-> Base, rtr |-> Rtr, ident |-> id11], at |-> <<0, "Rtr">>],
       [lt |-> [fdf |-> Can20, ide |-> Base, rtr |-> Data, ident |-> id11],
        iut |-> [fdf |-> Can20, ide |-> Ext, rtr |-> Data, ident |-> id11 * 2 ^ 18], at |-> <<0, "Rtr">>],
       [lt |-> [fdf |-> Can20, ide |-> Base, rtr |-> Rtr, ident |-> id11],
        iut |-> [fdf |-> Can20, ide |-> Ext, rtr |-> Data, ident |-> id11 * 2 ^ 18], at |-> <<0, "Ide">>],
       [lt |-> [fdf |-> Can20, ide |-> Ext, rtr |-> Data, ident |-> 2046 * 2 ^ 18],
        iut |-> [fdf |-> Can20, ide |-> Base, rtr |-> Data, ident |-> 2047], at |-> <<10, "BaseIdent">>],
       [lt |-> [fdf |-> Can20, ide |-> Ext, rtr |-> Data, ident |-> 536870910],
        iut |-> [fdf |-> Can20, ide |-> Ext, rtr |-> Data, ident |-> 536870911], at |-> <<17, "ExtIdent">>],
       [lt |-> [fdf |-> Can20, ide |-> Ext, rtr |-> Data, ident |-> id29],
        iut |-> [fdf |-> Can20, ide |-> Ext, rtr |-> Rtr, ident |-> id29], at |-> <<0, "Rtr">>]>>,
   fd |->
     <<[lt |-> [fdf |-> Can20, ide |-> Base, rtr |-> Data, ident |-> 1022],
        iut |-> [fdf |-> CanFd, ide |-> Base, rtr |-> Data, ident |-> 1023], at |-> <<10, "BaseIdent">>],
       [lt |-> [fdf |-> CanFd, ide |-> Base, rtr |-> Data, ident |-> id11],
        iut |-> [fdf |-> Can20, ide |-> Base, rtr |-> Rtr, ident |-> id11], at |-> <<0, "R1">>],
       [lt |-> [fdf |-> Can20, ide |-> Ext, rtr |-> Data, ident |-> 536870910],
        iut |-> [fdf |-> CanFd, ide |-> Ext, rtr |-> Data, ident |-> 536870911], at |-> <<17, "ExtIdent">>],
       [lt |-> [fdf |-> CanFd, ide |-> Ext, rtr |-> Data, ident |-> id29],
        iut |-> [fdf |-> Can20, ide |-> Ext, rtr |-> Rtr, ident |-> id29], at |-> <<0, "R1">>]>>]

\* The DUT loses arbitration, receives, and sends its frame again.
TestIso_7_1_3 ==
  /\ Runs("7.1.3")
  /\ \E case \in {LosingFrames(draw.ident % 2048, draw.ident)
                      [IF elem.fdf = Can20 THEN "common" ELSE "fd"][elem.index]} :
     \E gold \in {Frame(case.iut @@ [esi |-> ErrAct, dlc |-> 0], draw)} :
     \E gold_2 \in {Frame(case.lt @@ [esi |-> ErrAct, dlc |-> 0], draw_2)} :
     \E drv \in {ConstructFrame(gold_2)} :
     \E retry \in {ConstructFrame(gold)} :
     LET lost == GetBitOfNoStuffBits(drv, case.at[1], case.at[2])
         mon == LooseArbit(Overwrite(drv, lost, <<Recessive>>), lost)
     IN  RunWith(SendFrames(node, <<gold>>), drv \o ConvRXFrame(retry), mon \o retry,
                 [reads |-> <<gold_2>>])

\* The RRS bit of a CAN FD frame is received recessive.
TestIso_7_1_4 ==
  /\ Runs("7.1.4")
  /\ \E gold \in {Frame([fdf |-> CanFd, ide |-> Base], draw)} :
       Receive(gold, Updated(SetBitOf(ConstructFrame(gold), 0, "R1", Recessive), gold))

\* SRR and RRS as given; in the first case only the driven RRS is.
TestIso_7_1_5 ==
  /\ Runs("7.1.5")
  /\ \E gold \in {Frame([fdf |-> CanFd, ide |-> Ext, rtr |-> Data, brs |-> NoShift, esi |-> ErrAct,
                          dlc |-> 1, ident |-> 85, data |-> Bytes(170)], draw)} :
     \E bits \in {SetBitOf(ConstructFrame(gold), 0, "Srr",
                           IF elem.index = 1 THEN Recessive ELSE Dominant)} :
     LET drv == IF elem.index = 3 THEN bits ELSE SetBitOf(bits, 0, "R1", Recessive)
         mon == IF elem.index = 2 THEN drv ELSE bits
     IN  RunElemTest(Updated(drv, gold), ConvRXFrame(Updated(mon, gold)),
                     [reads |-> <<gold>>])

\* Both frames of a protocol exception: the bit after FDF is recessive.
Exception(gold) == Updated(SetBitOf(ConstructFrame(gold), 0, "R0", Recessive), gold)

UnknownFrame ==
  Frame([fdf |-> CanFd] @@ (IF elem.index = 1 THEN [dlc |-> 10, data |-> Bytes(170)]
                            ELSE [dlc |-> 15, data |-> Bytes(255)]), draw)

\* The DUT takes no part in a frame it does not know, and receives the next.
TestIso_7_1_6 ==
  /\ Runs("7.1.6")
  /\ \E bits \in {Exception(UnknownFrame)} :
     \E gold_2 \in {Frame([fdf |-> Can20], draw_2)} :
     \E bits_2 \in {ConstructFrame(gold_2)} :
       RunElemTest(bits \o bits_2, NoAck(ConvRXFrame(bits)) \o ConvRXFrame(bits_2),
                   [reads |-> <<gold_2>>])

\* Twelve, eleven or ten recessive bits follow: the DUT takes part again after eleven.
TestIso_7_1_7 ==
  /\ Runs("7.1.7")
  /\ \E gold \in {Frame([fdf |-> CanFd], draw)} :
     \E gold_2 \in {Frame([fdf |-> Can20], draw_2)} :
     \E bits \in {Exception(gold)} :
     \E bits_2 \in {ConstructFrame(gold_2)} :
     LET After(b) == IF elem.index = 1 THEN b \o Field("Idle", <<Recessive>>)
                     ELSE IF elem.index = 3 THEN RemoveBit(b, 2, "Interm") ELSE b
         drv == After(SetBitOf(SetBitOf(bits, 0, "Ack", Dominant), 1, "Ack", Dominant))
         mon == After(NoAck(ConvRXFrame(bits)))
         mon_2 == ConvRXFrame(bits_2)
     IN  IF elem.index = 3
         THEN RunElemTest(drv \o bits_2 \o bits_2, mon \o NoAck(mon_2) \o mon_2,
                          [reads |-> <<gold_2>>])
         ELSE RunElemTest(drv \o bits_2, mon \o mon_2,
                          [reads |-> <<gold_2>>])

\* Data lengths beyond eight, in a CAN frame.
TestIso_7_1_8 ==
  /\ Runs("7.1.8")
  /\ \E gold \in {Frame([fdf |-> Can20, dlc |-> elem.index + 8], draw)} :
     \E bits \in {ConstructFrame(gold)} :
       RunElemTest(WithAck(bits), ConvRXFrame(bits), [reads |-> <<gold>>])

\* The next frame begins in the third bit of the intermission, or after it.
TestIso_7_1_9 ==
  /\ Runs("7.1.9")
  /\ \E gold \in {Frame([fdf |-> elem.fdf], draw)} :
     \E gold_2 \in {Frame([fdf |-> elem.fdf], draw_2)} :
     \E all \in {ConstructFrame(gold)} :
     \E bits_2 \in {ConstructFrame(gold_2)} :
     LET bits == IF elem.index = 1 THEN RemoveBit(all, 2, "Interm") ELSE all
     IN  RunElemTest(WithAck(bits) \o WithAck(bits_2),
                     ConvRXFrame(bits) \o ConvRXFrame(bits_2), [reads |-> <<gold, gold_2>>])

\* Identifier, length, data and flags of a CAN FD frame.
Listed(ident, dlc, data, brs, esi) ==
  [fdf |-> CanFd, ident |-> ident, dlc |-> dlc, data |-> data, brs |-> brs, esi |-> esi, rtr |-> Data]

\* From the second to the eighth case the loop leaves the first byte 0.
StuffedBaseFrames ==
  <<Listed(120,  14, FirstBytes(<<1>>, 225), DoShift, ErrAct),
    Listed(1148,  8, FirstBytes(<<0>>, 60),  DoShift, ErrAct),
    Listed(1054, 14, FirstBytes(<<0>>, 30),  DoShift, ErrPas),
    Listed(527,  15, FirstBytes(<<0>>, 15),  NoShift, ErrPas),
    Listed(263,  15, FirstBytes(<<0>>, 135), NoShift, ErrAct),
    Listed(1987,  3, FirstBytes(<<0>>, 195), NoShift, ErrAct),
    Listed(993,   3, FirstBytes(<<0>>, 225), DoShift, ErrAct),
    Listed(496,   1, FirstBytes(<<0>>, 240), DoShift, ErrAct),
    Listed(0,     0, Bytes(0), DoShift, ErrAct),
    Listed(2047,  0, Bytes(0), DoShift, ErrPas)>>

\* RRS is received recessive in the fifth.
BaseReserved(bits) == IF elem.index = 5 THEN SetBitOf(bits, 0, "R1", Recessive) ELSE bits

TestIso_7_1_10 ==
  /\ Runs("7.1.10")
  /\ \E gold \in {Frame(StuffedBaseFrames[elem.index] @@ [ide |-> Base], draw)} :
       Receive(gold, Updated(BaseReserved(ConstructFrame(gold)), gold))

StuffedExtFrames ==
  <<Listed(130223887, 14, FirstBytes(<<248>>, 120), DoShift, ErrAct),
    Listed(301188035,  8, Bytes(60),  DoShift, ErrAct),
    Listed(276414945, 14, Bytes(30),  DoShift, ErrPas),
    Listed(138277104, 15, Bytes(15),  NoShift, ErrPas),
    Listed(69138552,  15, Bytes(135), NoShift, ErrAct),
    Listed(520895548,  3, Bytes(195), NoShift, ErrAct),
    Listed(260447774,  3, Bytes(225), DoShift, ErrAct),
    Listed(130223887,  1, Bytes(240), DoShift, ErrAct),
    Listed(31688583,   0, Bytes(0),   DoShift, ErrAct),
    Listed(301188035,  0, Bytes(0),   NoShift, ErrAct),
    Listed(0,          0, Bytes(0),   NoShift, ErrPas)>>

\* RRS is received recessive, SRR dominant in some.
ExtReserved(bits) ==
  LET rrs == IF elem.index \in {9, 10} THEN SetBitOf(bits, 0, "R1", Recessive) ELSE bits
  IN  IF elem.index \in {2, 9, 10} THEN SetBitOf(rrs, 0, "Srr", Dominant) ELSE rrs

TestIso_7_1_11 ==
  /\ Runs("7.1.11")
  /\ \E gold \in {Frame(StuffedExtFrames[elem.index] @@ [ide |-> Ext], draw)} :
       Receive(gold, Updated(ExtReserved(ConstructFrame(gold)), gold))

\* A dominant last bit of EOF is no error to a receiver, but an overload condition.
TestIso_7_1_12 ==
  /\ Runs("7.1.12")
  /\ \E gold \in {Frame([fdf |-> elem.fdf], draw)} :
     \E bits \in {ConstructFrame(gold)} :
     LET drv == WithAck(SetBitOf(bits, 6, "Eof", Dominant))
         at  == GetBitOf(bits, 0, "Interm")
     IN  RunElemTest(InsertOvrlFrm(drv, at), InsertOvrlFrm(ConvRXFrame(bits), at),
                     [reads |-> <<gold>>])

TestIso_7_1_Any ==
  \/ TestIso_7_1_1 \/ TestIso_7_1_2 \/ TestIso_7_1_3 \/ TestIso_7_1_4
  \/ TestIso_7_1_5 \/ TestIso_7_1_6 \/ TestIso_7_1_7 \/ TestIso_7_1_8
  \/ TestIso_7_1_9 \/ TestIso_7_1_10 \/ TestIso_7_1_11 \/ TestIso_7_1_12
=============================================================================
