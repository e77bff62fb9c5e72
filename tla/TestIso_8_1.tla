---------------------------- MODULE TestIso_8_1 ----------------------------
(***************************************************************************)
(* Valid frame format tests of a transmitting DUT: the classes             *)
(* TestIso_8_1_*.  The frame is queued in the DUT, monitor and driver start*)
(* when it begins.                                                         *)
(***************************************************************************)
EXTENDS ClosedLoop

Setup_8_1 ==
  "8.1.1" :> Fed(Class(45, 80)) @@ "8.1.2" :> Fed(Class(45, 80))
  @@ "8.1.3" :> Fed(Class(11, 11)) @@ "8.1.4" :> Fed(Class(31, 31))
  @@ "8.1.5" :> Fed(Class(1, 1)) @@ "8.1.6" :> Fed(Class(6, 10))
  @@ "8.1.7" :> Fed(Class(3, 10)) @@ "8.1.8" :> Fed(Class(2, 2))

\* The DUT sends the frame, the lower tester acknowledges.
Transmit(dut, gold) ==
  LET bits == ConstructFrame(gold)
  IN  RunWith(SendFrames(dut, <<gold>>), ConvRXFrame(bits), bits, NoChecks)

\* Identifiers in turn, and longer and longer data.
TransmitEachLength(name, ide, ids, random_id) ==
  /\ Runs(name)
  /\ LET k == (elem.index - 1) % 5
     IN  Transmit(node, Frame([fdf |-> elem.fdf, ide |-> ide, rtr |-> Data, brs |-> DoShift,
                               esi |-> ErrAct, dlc |-> (elem.index - 1) \div 5,
                               ident |-> IF k = 4 THEN random_id ELSE ids[k + 1]], draw))

TestIso_8_1_1 ==
  TransmitEachLength("8.1.1", Base, <<1365, 682, 0, 2047>>, draw.ident % 2048)

TestIso_8_1_2 ==
  TransmitEachLength("8.1.2", Ext, <<357913941, 178956970, 0, 536870911>>, draw.ident)

-----------------------------------------------------------------------------
(* Loss of arbitration: the DUT sends iut, the lower tester lt; the monitor*)
(* is made of lt with the losing bit recessive.                            *)

LosingAt(bits, lost) == LooseArbit(Overwrite(bits, lost, <<Recessive>>), lost)

\* (mutant: the DUT is expected to have received its own frame)
LoseAndReadOwn(lt, iut, drv, mon) ==
  \E retry \in {ConstructFrame(iut)} :
    RunWith(SendFrames(node, <<iut>>), drv \o ConvRXFrame(retry), mon \o retry,
            [reads |-> <<iut>>])

\* (mutant: the frame the DUT sends again is forgotten)
LoseOnly(lt, iut, drv, mon) ==
  RunWith(SendFrames(node, <<iut>>), drv, mon, [reads |-> <<lt>>])

\* The first frame of both, the DUT's second, and the frame the DUT receives.
LoseAndRetry(lt, iut, drv, mon) ==
  \E retry \in {ConstructFrame(iut)} :
    RunWith(SendFrames(node, <<iut>>), drv \o ConvRXFrame(retry), mon \o retry,
            [reads |-> <<lt>>])

Unshifted(ide, rtr, ident, random) ==
  Frame([fdf |-> elem.fdf, ide |-> ide, rtr |-> rtr, brs |-> NoShift, esi |-> ErrAct, dlc |-> 1,
         ident |-> ident], random)

\* The identifier without bit n, the value of which is 2^n.
WithoutBit(ident, n) == IF (ident \div 2 ^ n) % 2 = 1 THEN ident - 2 ^ n ELSE ident

TestIso_8_1_3 ==
  /\ Runs("8.1.3")
  /\ \E id_iut \in {IF elem.index = 7 THEN 16 ELSE 2031} :
     \E lt \in {Unshifted(Base, Data, WithoutBit(id_iut, 11 - elem.index), draw)} :
     \E bits \in {ConstructFrame(lt)} :
       LoseAndRetry(lt, Unshifted(Base, Data, id_iut, draw_2), bits,
                    LosingAt(bits, GetBitOfNoStuffBits(bits, elem.index - 1, "BaseIdent")))

\* Of the last two elementary tests one is about SRR, the other about IDE.
AboutSrr == elem.index = 30
AboutIde == elem.index = 31

\* 0x00400000 and 0x1FBFFFFF.
IutIdent == IF elem.index = 7 \/ AboutSrr \/ AboutIde THEN 4194304 ELSE 532676607

LtFrame ==
  IF AboutIde THEN Unshifted(Base, Rtr, IutIdent \div 2 ^ 18, draw)
  ELSE Unshifted(Ext, Data, IF AboutSrr THEN IutIdent ELSE WithoutBit(IutIdent, 29 - elem.index), draw)

IutFrame == Unshifted(Ext, IF AboutIde THEN Rtr ELSE Data, IutIdent, draw_2)

LoosingBit(bits) ==
  IF elem.index < 12 THEN GetBitOfNoStuffBits(bits, elem.index - 1, "BaseIdent")
  ELSE IF elem.index < 30 THEN GetBitOfNoStuffBits(bits, elem.index - 12, "ExtIdent")
  ELSE GetBitOf(bits, 0, IF AboutSrr THEN "Srr" ELSE "Ide")

\* A dominant SRR is the fifth dominant bit: a stuff bit follows, and CRC changes.
DriveSrr(bits) == Updated(SetBitOf(bits, 0, "Srr", Dominant), LtFrame)

\* (mutant: no bit is monitored for the new stuff bit)
MonitorNoStuff(bits) == bits

MonitorStuffAfterSrr(bits) == InsertVals(bits, GetBitOf(bits, 0, "Srr") + 1, "Srr", <<Recessive>>)

\* What comes where the DUT sends its SRR.
MonitorSrr(bits) == SetBitOf(bits, 0, IF elem.fdf = Can20 THEN "Rtr" ELSE "R1", Recessive)

TestIso_8_1_4 ==
  /\ Runs("8.1.4")
  /\ \E bits \in {ConstructFrame(LtFrame)} :
     \E drv \in {IF AboutSrr THEN DriveSrr(bits) ELSE bits} :
     LET lost == LosingAt(bits, LoosingBit(bits))
         mon == IF AboutSrr THEN MonitorStuffAfterSrr(lost)
                ELSE IF AboutIde THEN MonitorSrr(lost) ELSE lost
     IN  LoseAndRetry(LtFrame, IutFrame, drv, CompensateCrcLength(mon, GetFieldLen(drv, "Crc")))

\* The DUT loses on the bit the elementary test is about: "On elementary test 31,
\* IUT shall loose on IDE bit", on SRR in test 30 and on the bit of the identifier
\* each other test is numbered after.
LosesOnTestedBit ==
  (elem.name = "8.1.4" /\ test # NoTest /\ ~Ended /\ LosesArbitration(Received))
     => node.k + 1 = LoosingBit(node.own)

-----------------------------------------------------------------------------

\* After an overload frame the DUT has nothing more to send.
TestIso_8_1_5 ==
  /\ Runs("8.1.5")
  /\ \E gold \in {Frame([fdf |-> elem.fdf, esi |-> ErrAct], draw)} :
     \E bits \in {ConstructFrame(gold)} :
     LET overload == OvrlAt(bits, 1, "Interm")
     IN  RunWith(SendFrames(node, <<gold>>), FlipBitOf(ConvRXFrame(bits), 0, "Interm"),
                 InsertVals(overload, GetBitOf(overload, 6, "OvrlDelim"), "OvrlDelim",
                            Times(15, Recessive)), NoChecks)

\* Identifier, length and data of frames with many stuff bits.
Stuffed(ident, dlc, data) == [ident |-> ident, dlc |-> dlc, data |-> data, rtr |-> Data]

StuffedCan ==
  <<Stuffed(120, 8, FirstBytes(<<1>>, 225)), Stuffed(1055, 1, Bytes(0)),
    Stuffed(1151, 1, Bytes(31)), Stuffed(1880, 0, Bytes(0)), Stuffed(1911, 1, Bytes(31)),
    [Stuffed(2031, 2, Bytes(0)) EXCEPT !.rtr = Rtr]>>

StuffedFd ==
  <<Stuffed(120, 14, FirstBytes(<<248>>, 120)), Stuffed(1148, 8, Bytes(60)),
    Stuffed(1054, 14, Bytes(30)), Stuffed(527, 15, Bytes(15)), Stuffed(263, 15, Bytes(135)),
    Stuffed(1987, 3, Bytes(195)), Stuffed(993, 3, FirstBytes(<<240>>, 0)),
    Stuffed(496, 1, Bytes(0)), Stuffed(0, 0, Bytes(176)), Stuffed(2047, Rand(15), Bytes(0))>>

StuffedExtCan ==
  <<Stuffed(130223887, 8, Bytes(60)), Stuffed(130223887, 1, Bytes(0)),
    Stuffed(532152320, 1, Bytes(160))>>

StuffedExtFd ==
  <<Stuffed(31688583, 14, FirstBytes(<<248>>, 120)), Stuffed(301188035, 8, Bytes(60)),
    Stuffed(276414945, 14, Bytes(30)), Stuffed(138277104, 15, Bytes(15)),
    Stuffed(69138552, 15, Bytes(135)), Stuffed(520895548, 3, Bytes(195)),
    Stuffed(260447774, 3, FirstBytes(<<240>>, 0)), Stuffed(130223887, 1, Bytes(0)),
    Stuffed(536608768, 0, Bytes(0)), Stuffed(262143, 0, Bytes(0))>>

\* A recessive ESI is sent by an error passive DUT only.
TransmitStuffed(frames, ide, passive, unshifted) ==
  LET esi == IF elem.index \in passive THEN ErrPas ELSE ErrAct
      brs == IF elem.index \in unshifted THEN NoShift ELSE DoShift
  IN  Transmit(IF esi = ErrPas THEN SetErrPas(node) ELSE SetTec(SetRec(node, 0), 0),
               Frame([fdf |-> CanFd, ide |-> ide, brs |-> brs, esi |-> esi] @@ frames[elem.index],
                     draw))

TestIso_8_1_6 ==
  /\ Runs("8.1.6")
  /\ IF elem.fdf = Can20 THEN Transmit(node, Frame([fdf |-> Can20, ide |-> Base] @@ StuffedCan[elem.index], draw))
     ELSE TransmitStuffed(StuffedFd, Base, {3, 4}, {4, 5, 6, 10})

TestIso_8_1_7 ==
  /\ Runs("8.1.7")
  /\ IF elem.fdf = Can20 THEN Transmit(node, Frame([fdf |-> Can20, ide |-> Ext] @@ StuffedExtCan[elem.index], draw))
     ELSE TransmitStuffed(StuffedExtFd, Ext, {3, 4, 10}, {4, 5, 6})

EmptyFrame(ident) ==
  Frame([fdf |-> elem.fdf, ide |-> Base, rtr |-> Data, brs |-> NoShift, esi |-> ErrAct, dlc |-> 0,
         ident |-> ident], draw)

\* The lower tester begins its frame in the third bit of the intermission, and the
\* DUT its own, without a SOF.  Frame flags are left as they are constructed.
TestIso_8_1_8 ==
  /\ Runs("8.1.8")
  /\ \E gold \in {EmptyFrame(<<123, 59>>[elem.index])} :
     \E lt \in {ConstructFrame(EmptyFrame(<<122, 58>>[elem.index]))} :
     \E bits \in {ConstructFrame(gold)} :
     LET lost == GetBitOfNoStuffBits(bits, 10, "BaseIdent")
         Headless(b) == RemoveBit(b, 0, "Sof")
     IN  RunWith(SendFrames(node, <<gold>>),
                 SetBitOf(lt, 2, "Interm", Dominant) \o Headless(ConvRXFrame(bits)),
                 LooseArbit(bits, lost) \o Headless(bits), NoChecks)

TestIso_8_1_Any ==
  \/ TestIso_8_1_1 \/ TestIso_8_1_2 \/ TestIso_8_1_3 \/ TestIso_8_1_4
  \/ TestIso_8_1_5 \/ TestIso_8_1_6 \/ TestIso_8_1_7 \/ TestIso_8_1_8
=============================================================================
