---------------------------- MODULE TestIso_8_2 ----------------------------
(***************************************************************************)
(* Error detection tests of a transmitting DUT: the classes TestIso_8_2_*. *)
(* Without feedback the lower tester alone makes the bus: it sends what the*)
(* DUT sends, but for one bit.                                             *)
(***************************************************************************)
EXTENDS TestIso_7_2, TestIso_8_1

\* Both elementary tests of 8.2.6 are in the variant Common, the second with a
\* CAN FD frame.  The 1008 of 8.2.8 are here 126 rounds of eight.
Setup_8_2 ==
  "8.2.1" :> Class(13, 21) @@ "8.2.2" :> Class(14, 21)
  @@ "8.2.3" :> Class(6, 10) @@ "8.2.4" :> Class(4, 10)
  @@ "8.2.5" :> Class(5, 18) @@ "8.2.6" :> Fed(Class(1, 1))
  @@ "8.2.7" :> Fed(Class(0, 2))
  @@ "8.2.8" :> [Class(0, 8) EXCEPT !.one_shot = TRUE]

\* A bit is corrupted, an active error flag follows, and the DUT sends the frame
\* again.
ActErrFrom(bits, at) == InsertActErrFrm(bits, at + 1)

CorruptActive(gold, bits, at, rounds) ==
  RunWith(SendFrames(SetTec(node, 0), <<gold>>),
          ActErrFrom(FlipVal(WithAck(bits), at), at) \o WithAck(bits),
          ActErrFrom(bits, at) \o bits, [rounds |-> rounds])

-----------------------------------------------------------------------------
(* A bit of a field, of a given value, drawn at random.                    *)

\* GetRandomBitType: the kinds of bits a field has.
KindsOf(field, ide) ==
  LET fd == elem.fdf = CanFd
      rtr == IF fd THEN "R1" ELSE "Rtr"
  IN  CASE field = "Arbit"   -> {"BaseIdent", rtr} \cup IF ide = Ext THEN {"Srr", "Ide", "ExtIdent"} ELSE {}
        [] field = "Control" -> {"R0", "Dlc"} \cup IF fd THEN {"Edl", "Brs", "Esi"}
                                                  ELSE IF ide = Ext THEN {"R1"} ELSE {"Ide"}
        [] field = "Crc"     -> {"Crc"} \cup IF fd THEN {"StuffCnt", "StuffParity"} ELSE {}
        [] field = "Ack"     -> {"CrcDelim", "AckDelim"}
        [] OTHER             -> {field}

\* The loop that draws bits until one fits.
RandomBit(bits, Fits(_)) ==
  LET good == SelectSeq([i \in DOMAIN bits |-> i], LAMBDA i : Fits(bits[i]))
  IN  good[Rand(Len(good)) + 1]

\* A fixed stuff bit is sought in some elementary tests; where the frame has none
\* of that value, any bit of the field is taken.
SeeksFixed == elem.index \in {15, 16, 19, 20}

RandomBitOf(bits, ide, field, val) ==
  LET Kind(b) == b.kind \in KindsOf(field, ide)
      Sought(b) == Kind(b) /\ b.val = val /\ (SeeksFixed => b.stuff = "Fixed")
  IN  IF \E i \in DOMAIN bits : Sought(bits[i]) THEN RandomBit(bits, Sought)
      ELSE RandomBit(bits, Kind)

\* The field and the value each elementary test corrupts.
FieldsOfCrc == [i \in 1 .. 8 |-> <<"Crc", IF i <= 4 THEN Recessive ELSE Dominant>>]

FieldsOfBase ==
  <<<<"Sof", Dominant>>, <<"Arbit", Dominant>>, <<"Control", Dominant>>,
    <<"Control", Recessive>>, <<"Data", Dominant>>, <<"Data", Recessive>>,
    <<"Crc", Recessive>>, <<"Crc", Dominant>>, <<"Ack", Recessive>>, <<"Eof", Recessive>>,
    <<"Data", Recessive>>, <<"Data", Dominant>>, <<"Control", Dominant>>>> \o FieldsOfCrc

\* In the third the extended identifier is meant.  The last of the variant Common
\* has what is the first of those in the CRC.
FieldsOfExt ==
  <<<<"Sof", Dominant>>, <<"Arbit", Dominant>>, <<"ExtIdent", Dominant>>,
    <<"Control", Dominant>>, <<"Control", Recessive>>, <<"Data", Dominant>>,
    <<"Data", Recessive>>, <<"Crc", Recessive>>, <<"Crc", Dominant>>, <<"Ack", Recessive>>,
    <<"Eof", Recessive>>, <<"Data", Dominant>>, <<"Control", Dominant>>>> \o FieldsOfCrc

CorruptField(fields, ide) ==
  LET dlc == IF elem.index < 14 THEN Rand(7) + 1
             ELSE IF elem.index \in {14, 15, 18, 19} THEN 8 ELSE 12
      target == fields[elem.index]
  IN  \E gold \in {Frame([fdf |-> elem.fdf, ide |-> ide, rtr |-> Data, brs |-> DoShift,
                          esi |-> ErrAct, dlc |-> dlc], draw)} :
      \E bits \in {ConstructFrame(gold)} :
        CorruptActive(gold, bits, RandomBitOf(WithAck(bits), ide, target[1], target[2]), 1)

TestIso_8_2_1 == Runs("8.2.1") /\ CorruptField(FieldsOfBase, Base)
TestIso_8_2_2 == Runs("8.2.2") /\ CorruptField(FieldsOfExt, Ext)

-----------------------------------------------------------------------------
(* Stuff errors: in each round one stuff bit is flipped.                   *)

\* An error passive DUT waits before it sends again.
SuspendedErrFrom(bits, at) ==
  InsertPasErrFrm(bits, at + 1) \o Field("SuspTrans", Times(8, Recessive))

CorruptPassive(gold, bits, at, rounds) ==
  RunWith(SendFrames(SetTec(node, 150), <<gold>>),
          SuspendedErrFrom(FlipVal(bits, at), at) \o WithAck(bits),
          SuspendedErrFrom(bits, at) \o bits, [rounds |-> rounds])

CorruptStuffBit(gold, bits, rounds) ==
  IF gold.esi = ErrPas THEN CorruptPassive(gold, bits, FlippedStuffBit(bits), rounds)
  ELSE CorruptActive(gold, bits, FlippedStuffBit(bits), rounds)

\* Identifiers and lengths of 8.1.6 and 8.1.7 with other data.
CorruptedFd(frames, ide) ==
  LET esi == IF elem.index \in {3, 4, 10} THEN ErrPas ELSE ErrAct
      brs == IF elem.index \in {4, 5, 6} THEN NoShift ELSE DoShift
  IN  Frame([fdf |-> CanFd, ide |-> ide, brs |-> brs, esi |-> esi, data |-> StuffData.data]
              @@ frames[elem.index], draw)

LastEmpty == [StuffedFd EXCEPT ![10].dlc = 0]

TestIso_8_2_3 ==
  /\ Runs("8.2.3")
  /\ \E gold \in {IF elem.fdf = CanFd THEN CorruptedFd(LastEmpty, Base)
                  ELSE Frame([fdf |-> Can20, ide |-> Base] @@ StuffedCan[elem.index], draw)} :
     \E bits \in {ConstructFrame(gold)} :
       CorruptStuffBit(gold, bits, GetNumStuffBits(bits, "Normal"))

CorruptedExtCan ==
  <<Stuffed(130223887, 8, Bytes(60)), Stuffed(130085104, 1, Bytes(0)),
    Stuffed(532152320, 1, Bytes(160)), Stuffed(0, 1, Bytes(0))>>

CorruptedExtFd ==
  LET ids == <<31688583, 301172615, 276414945, 138277104, 69138552, 520895548, 260447774,
               130223887, 473940931, 34595327>>
  IN  [i \in 1 .. 10 |-> [ident |-> ids[i], rtr |-> Data, dlc |-> LastEmpty[i].dlc]]

TestIso_8_2_4 ==
  /\ Runs("8.2.4")
  /\ \E gold \in {IF elem.fdf = CanFd THEN CorruptedFd(CorruptedExtFd, Ext)
                  ELSE Frame([fdf |-> Can20, ide |-> Ext] @@ CorruptedExtCan[elem.index], draw)} :
     \E bits \in {ConstructFrame(gold)} :
       CorruptStuffBit(gold, bits, IF elem.fdf = CanFd THEN StuffBitRounds(bits)
                                   ELSE GetNumStuffBits(bits, "Normal"))

\* The eight data patterns, each with its 126 stuff bits; the last one may be that
\* of the stuff count.
DataStuffBit(bits, n) ==
  LET normal == SelectSeq([i \in DOMAIN bits |-> i],
                          LAMBDA i : bits[i].kind = "Data" /\ bits[i].stuff = "Normal")
  IN  IF n <= Len(normal) THEN normal[n] ELSE FirstOf(bits, "StuffCnt")

\* In one-shot mode the frame is not sent again.
TestIso_8_2_8 ==
  /\ Runs("8.2.8")
  /\ \E gold \in {Frame([fdf |-> CanFd, ide |-> Base, rtr |-> Data, brs |-> DoShift,
                         esi |-> ErrAct, dlc |-> 15, ident |-> 1365, data |-> LongData], draw)} :
     \E bits \in {ConstructFrame(gold)} :
     LET at == DataStuffBit(bits, elem.round)
     IN  RunWith(SendFrames(SetTec(node, 0), <<gold>>),
                 ActErrFrom(FlipVal(bits, at), at), ActErrFrom(bits, at), [rounds |-> 126])

-----------------------------------------------------------------------------
(* Form errors and acknowledge errors.                                     *)

\* The corrupted bit: of a field at the end, or a fixed stuff bit.
FormBit(bits) ==
  LET fixed == SelectSeq([i \in DOMAIN bits |-> i], LAMBDA i : bits[i].stuff = "Fixed")
  IN  CASE elem.index = 1   -> GetBitOf(bits, 0, "CrcDelim")
        [] elem.index = 2   -> GetBitOf(bits, 0, "AckDelim")
        [] elem.index \in 3 .. 5 -> GetBitOf(bits, 3 * (elem.index - 3), "Eof")
        [] elem.index \in 6 .. 11 -> fixed[elem.index - 5]
        [] OTHER -> fixed[elem.index - 11]

TestIso_8_2_5 ==
  /\ Runs("8.2.5")
  /\ \E gold \in {Frame([fdf |-> elem.fdf, brs |-> DoShift, esi |-> ErrAct,
                         dlc |-> IF elem.index <= 5 THEN Rand(9)
                                 ELSE IF elem.index <= 11 THEN 10 ELSE 13], draw)} :
     \E bits \in {ConstructFrame(gold)} : CorruptActive(gold, bits, FormBit(bits), 1)

ActiveGold == Frame([fdf |-> elem.fdf, esi |-> ErrAct], draw)

\* No acknowledge: the flag begins where the delimiter would be.
TestIso_8_2_6 ==
  /\ Runs("8.2.6")
  /\ \E gold \in {ActiveGold} :
     \E bits \in {ConstructFrame(gold)} :
       RunWith(SendFrames(node, <<gold>>),
               PasErrAt(NoAck(ConvRXFrame(bits)), 0, "AckDelim") \o ConvRXFrame(bits),
               ActErrAt(bits, 0, "AckDelim") \o bits, NoChecks)

\* A late or a long acknowledge is one.
TestIso_8_2_7 ==
  /\ Runs("8.2.7")
  /\ \E gold \in {ActiveGold} :
     \E bits \in {ConstructFrame(gold)} :
     LET first == SetBitOf(ConvRXFrame(bits), 0, "Ack", IF elem.index = 1 THEN Recessive ELSE Dominant)
     IN  RunWith(SendFrames(node, <<gold>>), SetBitOf(first, 1, "Ack", Dominant), bits, NoChecks)

TestIso_8_2_Any ==
  \/ TestIso_8_2_1 \/ TestIso_8_2_2 \/ TestIso_8_2_3 \/ TestIso_8_2_4
  \/ TestIso_8_2_5 \/ TestIso_8_2_6 \/ TestIso_8_2_7 \/ TestIso_8_2_8
=============================================================================
