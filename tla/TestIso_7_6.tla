---------------------------- MODULE TestIso_7_6 ----------------------------
(***************************************************************************)
(* Error counter tests of a receiving DUT: the classes TestIso_7_6_*.      *)
(* Most read REC before the run and check by how much the run changed it,  *)
(* so that what is left of one elementary test matters to the next.        *)
(***************************************************************************)
EXTENDS TestIso_7_2, TestIso_7_4

Setup_7_6 ==
  "7.6.1" :> Class(3, 3) @@ "7.6.2" :> Class(3, 3) @@ "7.6.3" :> Class(1, 1)
  @@ "7.6.4" :> Class(1, 1) @@ "7.6.5" :> Class(1, 1) @@ "7.6.6" :> Class(1, 1)
  @@ "7.6.7" :> Class(1, 1) @@ "7.6.8" :> Class(3, 3)
  @@ "7.6.9" :> Fed(Class(8, 6)) @@ "7.6.10" :> Fed(Class(1, 2))
  @@ "7.6.11" :> Fed(Class(1, 1)) @@ "7.6.12" :> Fed(Class(2, 2))
  @@ "7.6.13" :> Fed(Class(2, 2)) @@ "7.6.14" :> Fed(Class(1, 1))
  @@ "7.6.15" :> Fed(Class(1, 1)) @@ "7.6.16" :> Fed(Class(1, 1))
  @@ "7.6.17" :> Fed(Class(1, 1)) @@ "7.6.18" :> Fed(Class(1, 1))
  @@ "7.6.19" :> Fed(Class(1, 1)) @@ "7.6.20" :> Fed(Class(1, 1))
  @@ "7.6.21" :> Fed(Class(1, 1)) @@ "7.6.22" :> Fed(Class(0, 4))
  @@ "7.6.23" :> [Fed(Class(0, 2)) EXCEPT !.pex = TRUE]

\* CheckRecChange and CheckTecChange, from what the counters are before the run.
RecChange(dut, n) == [rec |-> {dut.rec + n}]
TecChange(dut, n) == [tec |-> {dut.tec + n}]

Unread == [no_more |-> TRUE]
Reads(gold) == [reads |-> <<gold>>]

\* (mutant: the first run is checked like the others)
NeverFirst == FALSE

\* Before the first run REC is 0, and a received frame takes nothing from it.
FirstCommon == elem.fdf = Can20 /\ elem.index = 1

-----------------------------------------------------------------------------
(* Errors that are counted in an error or overload flag.                   *)

TestIso_7_6_1 ==
  /\ Runs("7.6.1")
  /\ \E bits \in {ConstructFrame(ErrorDataFrame)} :
       Disturbed(StuffError(bits), ErrorSeen(bits), <<0, 2, 5>>[elem.index], "ActErrFlag",
                 RecChange(node, 9) @@ Unread)

\* Only in the first run is there nothing the received frame takes from REC.
TestIso_7_6_2 ==
  /\ Runs("7.6.2")
  /\ \E bits \in {ConstructFrame(RandomFrame)} :
       Disturbed(LateOverload(bits), OverloadSeen(bits), <<0, 2, 5>>[elem.index], "OvrlFlag",
                 RecChange(node, IF FirstCommon THEN 8 ELSE 7) @@ Reads(RandomFrame))

\* The flag of the lower tester is longer than the one of the DUT.
Lengthened(drv, mon, more, delim, checks) ==
  RunElemTest(InsertVals(drv, GetBitOf(drv, 0, delim), delim, Times(more, Dominant)),
              InsertVals(mon, GetBitOf(drv, 0, delim), delim, Times(more, Recessive)), checks)

\* Two blocks of eight dominant bits after the flag, each eight more.
TestIso_7_6_3 ==
  /\ Runs("7.6.3")
  /\ \E bits \in {ConstructFrame(ErrorDataFrame)} :
       Lengthened(StuffError(bits), ErrorSeen(bits), 16, "ErrDelim",
                  RecChange(node, 25) @@ Unread)

TestIso_7_6_4 ==
  /\ Runs("7.6.4")
  /\ \E bits \in {ConstructFrame(RandomFrame)} :
       Lengthened(LateOverload(bits), OverloadSeen(bits), 16, "OvrlDelim",
                  RecChange(node, IF FirstCommon THEN 16 ELSE 15) @@ Reads(RandomFrame))

-----------------------------------------------------------------------------
(* Bit errors and form errors at the end of a frame.                       *)

TestIso_7_6_5 ==
  /\ Runs("7.6.5")
  /\ \E bits \in {ConstructFrame(RandomFrame)} :
     LET after == GetBitOf(bits, 0, "Ack") + 1
     IN  RunElemTest(InsertActErrFrm(NoAck(bits), after), InsertActErrFrm(ConvRXFrame(bits), after),
                     RecChange(node, 1))

TestIso_7_6_6 ==
  /\ Runs("7.6.6")
  /\ \E bits \in {ConstructFrame(RandomFrame)} :
       RunElemTest(ActErrAt(SetBitOf(bits, 0, "CrcDelim", Dominant), 0, "Ack"),
                   ActErrAt(ConvRXFrame(bits), 0, "Ack"), RecChange(node, 1))

\* The acknowledged frame takes one from REC, the error after it adds one.
TakenAndAdded(bits, drv, n) ==
  LET dut == SetRec(node, 9)
  IN  RunWith(dut, ActErrAt(WithAck(drv), n, "Eof"), ActErrAt(ConvRXFrame(bits), n, "Eof"),
              RecChange(dut, 0))

TestIso_7_6_7 ==
  /\ Runs("7.6.7")
  /\ \E bits \in {ConstructFrame(RandomFrame)} :
     LET acked == IF elem.fdf = CanFd THEN SetBitOf(bits, 1, "Ack", Dominant) ELSE bits
     IN  TakenAndAdded(bits, SetBitOf(acked, 0, "AckDelim", Dominant), 0)

TestIso_7_6_8 ==
  /\ Runs("7.6.8")
  /\ \E bits \in {ConstructFrame(RandomFrame)} :
     LET n == <<2, 3, 5>>[elem.index]
     IN  TakenAndAdded(bits, SetBitOf(bits, n - 1, "Eof", Dominant), n)

-----------------------------------------------------------------------------
(* Stuff errors and CRC errors.                                            *)

\* Stuff bits of a value in a field: GetStuffBit gives the first of them.
StuffBitsOf(bits, kind, val) ==
  {i \in DOMAIN bits : bits[i].kind = kind /\ bits[i].stuff = "Normal" /\ bits[i].val = val}

\* The field and the value of the stuff bit an elementary test is about.
StuffBitSought ==
  LET kinds == IF elem.fdf = Can20 THEN <<"BaseIdent", "Dlc", "Data", "Crc">>
               ELSE <<"BaseIdent", "Dlc", "Data">>
      n == Len(kinds)
  IN  [kind |-> kinds[((elem.index - 1) % n) + 1],
       val  |-> IF elem.index <= n THEN Recessive ELSE Dominant]

\* A dominant stuff bit in the DLC takes a frame of its own.
DominantInDlc == StuffBitSought = [kind |-> "Dlc", val |-> Dominant]

FrameSought(random) ==
  Frame([fdf |-> elem.fdf] @@
        (IF ~DominantInDlc THEN [rtr |-> Data]
         ELSE IF elem.fdf = Can20 THEN [ide |-> Ext, dlc |-> 15]
         ELSE [brs |-> DoShift, esi |-> ErrPas, dlc |-> 15]), random)

\* In a CAN frame R0 is sent recessive, so that with a DLC of ones it makes the run
\* of five the dominant stuff bit follows.
PreparedFor(bits, gold) ==
  IF DominantInDlc /\ elem.fdf = Can20 THEN Updated(SetBitOf(bits, 0, "R0", Recessive), gold)
  ELSE bits

BitsSought(gold) == PreparedFor(ConstructFrame(gold), gold)

StuffBitsFound(bits) == StuffBitsOf(bits, StuffBitSought.kind, StuffBitSought.val)

\* The frames GenerateFrame draws: it ends only if one of them has such a bit.
FramesDrawn == [i \in DOMAIN Outcomes[elem.seed].more |-> FrameSought(Outcomes[elem.seed].more[i])]

TestIso_7_6_9 ==
  /\ Runs("7.6.9")
  /\ \E found \in {SelectInSeq(FramesDrawn, LAMBDA gold : StuffBitsFound(BitsSought(gold)) # {})} \ {0} :
     \E gold \in {FramesDrawn[found]} :
     \E bits \in {BitsSought(gold)} :
     \E at \in {Min(StuffBitsFound(bits))} :
       RunElemTest(InsertPasErrFrm(FlipVal(bits, at), at + 1),
                   InsertActErrFrm(ConvRXFrame(ConstructFrame(gold)), at + 1),
                   RecChange(node, 1) @@ Unread)

\* The loop that draws bits of the CRC until one is no stuff bit.
PlainCrcBit(bits) ==
  LET plain == SelectSeq([i \in DOMAIN bits |-> i],
                         LAMBDA i : bits[i].kind = "Crc" /\ ~IsStuff(bits[i]))
  IN  plain[Rand(Len(plain)) + 1]

TestIso_7_6_10 ==
  /\ Runs("7.6.10")
  /\ \E dlc \in {IF elem.fdf = Can20 THEN draw.dlc
                  ELSE IF elem.index = 1 THEN Rand(11) ELSE Rand(4) + 11} :
     \E gold \in {Frame([fdf |-> elem.fdf, rtr |-> Data, dlc |-> dlc], draw)} :
     \E bits \in {ConstructFrame(gold)} :
     \E wrong \in {Restuffed(FlipVal(bits, PlainCrcBit(bits)), gold)} :
       RunElemTest(PasErrAt(wrong, 0, "Eof"), ActErrAt(NoAck(ConvRXFrame(wrong)), 0, "Eof"),
                   RecChange(node, 1) @@ Unread)

-----------------------------------------------------------------------------
(* Errors in and after delimiters.                                         *)

\* The first bit after the flag is dominant, and counts eight.
TestIso_7_6_11 ==
  /\ Runs("7.6.11")
  /\ \E bits \in {ConstructFrame(ErrorDataFrame)} :
       Lengthened(StuffError(bits), ErrorSeen(bits), 1, "ErrDelim",
                  RecChange(node, 9) @@ Unread)

TestIso_7_6_12 ==
  /\ Runs("7.6.12")
  /\ \E bits \in {ConstructFrame(ErrorDataFrame)} :
       Disturbed(StuffError(bits), ErrorSeen(bits), <<1, 6>>[elem.index], "ErrDelim",
                 RecChange(node, 2))

TestIso_7_6_13 ==
  /\ Runs("7.6.13")
  /\ \E bits \in {ConstructFrame(RandomFrame)} :
       Disturbed(LateOverload(bits), OverloadSeen(bits), <<1, 6>>[elem.index], "OvrlDelim",
                 RecChange(node, IF FirstCommon THEN 1 ELSE 0) @@ Reads(RandomFrame))

-----------------------------------------------------------------------------
(* Received frames take one from REC.                                      *)

\* The frame is left in the DUT.
TestIso_7_6_14 ==
  /\ Runs("7.6.14")
  /\ \E bits \in {ConstructFrame(RandomFrame)} :
     LET dut == SetRec(node, 9)
     IN  RunWith(dut, bits, ConvRXFrame(bits), RecChange(dut, -1))

TestIso_7_6_15 ==
  /\ Runs("7.6.15")
  /\ \E bits \in {ConstructFrame(RandomFrame)} :
       RunWith(SetErrPas(node), bits, ConvRXFrame(bits), [rec |-> 120 .. 126])

TestIso_7_6_16 ==
  /\ Runs("7.6.16")
  /\ \E bits \in {ConstructFrame(RandomFrame)} :
     LET dut == SetRec(node, 9)
     IN  RunWith(dut, OvrlAt(SetBitOf(bits, 6, "Eof", Dominant), 0, "Interm"), OverloadSeen(bits),
                 RecChange(dut, -1) @@ Reads(RandomFrame))

-----------------------------------------------------------------------------
(* What is not counted.                                                    *)

\* Seven dominant bits after an overload flag.
TestIso_7_6_17 ==
  /\ Runs("7.6.17")
  /\ \E bits \in {ConstructFrame(RandomFrame)} :
     LET drv == OvrlAt(SetBitOf(bits, 6, "Eof", Dominant), 0, "Interm")
         mon == OverloadSeen(bits)
         dut == SetRec(node, 9)
         at == GetBitOf(drv, 0, "OvrlDelim")
     IN  RunWith(dut, InsertVals(drv, at, "OvrlFlag", Times(7, Dominant)),
                 InsertVals(mon, at, "OvrlFlag", Times(7, Recessive)),
                 RecChange(dut, -1) @@ Reads(RandomFrame))

\* Seven dominant bits after an error flag: the first of them is counted.
TestIso_7_6_18 ==
  /\ Runs("7.6.18")
  /\ \E bits \in {ConstructFrame(ErrorDataFrame)} :
     LET drv == ActErrAt(SetBitOf(bits, 6, "Data", Dominant), 7, "Data")
     IN  Lengthened(drv, ErrorSeen(bits), 7, "ErrDelim", RecChange(node, 9) @@ Unread)

\* The last bit of the delimiter is an overload condition.
TestIso_7_6_19 ==
  /\ Runs("7.6.19")
  /\ \E bits \in {ConstructFrame(ErrorDataFrame)} :
       RunElemTest(OvrlAt(SetBitOf(StuffError(bits), 7, "ErrDelim", Dominant), 0, "Interm"),
                   OvrlAt(ErrorSeen(bits), 0, "Interm"), RecChange(node, 1) @@ Unread)

TestIso_7_6_20 ==
  /\ Runs("7.6.20")
  /\ \E bits \in {ConstructFrame(RandomFrame)} :
     LET drv == OvrlAt(SetBitOf(bits, 6, "Eof", Dominant), 0, "Interm")
     IN  RunElemTest(OvrlAt(SetBitOf(drv, 7, "OvrlDelim", Dominant), 0, "Interm"),
                     OvrlAt(OverloadSeen(bits), 0, "Interm"),
                     RecChange(node, 0) @@ Reads(RandomFrame))

-----------------------------------------------------------------------------

\* After it lost arbitration the DUT counts an error as a receiver does, and
\* sends its frame again.
TestIso_7_6_21 ==
  /\ Runs("7.6.21")
  /\ \E gold \in {Frame([fdf |-> elem.fdf, ide |-> Base, brs |-> NoShift, esi |-> ErrAct,
                          ident |-> 171] @@ ErrorData, draw)} :
     \E bits \in {ConstructFrame(gold)} :
     LET at == GetBitOf(bits, 9, "BaseIdent")
         drv == FlipBitOf(Overwrite(bits, at, <<Dominant>>), 6, "Data")
         dut == SetRec(SendFrames(node, <<gold>>), 20)
     IN  RunWith(dut, PasErrAt(drv, 7, "Data") \o ConvRXFrame(bits),
                 ActErrAt(LooseArbit(bits, at), 7, "Data") \o bits,
                 RecChange(dut, 1) @@ TecChange(dut, 0))

\* Fixed stuff bits, in turn.
TestIso_7_6_22 ==
  /\ Runs("7.6.22")
  /\ \E bits \in {ConstructFrame(FixedStuffFrame)} :
     LET fixed == FixedStuffBits(bits, IF elem.index < 3 THEN Recessive ELSE Dominant)
         at == fixed[elem.round]
     IN  RunElemTest(InsertPasErrFrm(FlipVal(bits, at), at + 1),
                     InsertActErrFrm(ConvRXFrame(bits), at + 1),
                     RecChange(node, 1) @@ [rounds |-> Len(fixed)])

\* A protocol exception changes no counter, the frame after it does.
TestIso_7_6_23 ==
  /\ Runs("7.6.23")
  /\ \E bits \in {Exception(UnknownFrame)} :
     \E gold_2 \in {Frame([fdf |-> Can20], draw_2)} :
     \E bits_2 \in {ConstructFrame(gold_2)} :
     LET dut == SetRec(node, 9)
     IN  RunWith(dut, bits \o bits_2, NoAck(ConvRXFrame(bits)) \o ConvRXFrame(bits_2),
                 RecChange(dut, -1) @@ Reads(gold_2))

TestIso_7_6_Any ==
  \/ TestIso_7_6_1 \/ TestIso_7_6_2 \/ TestIso_7_6_3 \/ TestIso_7_6_4
  \/ TestIso_7_6_5 \/ TestIso_7_6_6 \/ TestIso_7_6_7 \/ TestIso_7_6_8
  \/ TestIso_7_6_9 \/ TestIso_7_6_10 \/ TestIso_7_6_11 \/ TestIso_7_6_12
  \/ TestIso_7_6_13 \/ TestIso_7_6_14 \/ TestIso_7_6_15 \/ TestIso_7_6_16
  \/ TestIso_7_6_17 \/ TestIso_7_6_18 \/ TestIso_7_6_19 \/ TestIso_7_6_20
  \/ TestIso_7_6_21 \/ TestIso_7_6_22 \/ TestIso_7_6_23
=============================================================================
