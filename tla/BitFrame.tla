------------------------------ MODULE BitFrame ------------------------------
(***************************************************************************)
(* can::BitFrame: a CAN or CAN FD frame as the sequence of its bits, each  *)
(* with the field it belongs to and with what kind of stuff bit it is.     *)
(* The operators below are what the methods do to that sequence; bit       *)
(* timing inside a bit is left out.                                        *)
(*                                                                         *)
(* A content is what a frame is built from: the flags fdf, ide, rtr, brs   *)
(* and esi (0 or 1, recessive is 1), and the fields base, ext, dlc and data*)
(* as sequences of bits, most significant bit first.                       *)
(***************************************************************************)
EXTENDS Naturals, Sequences, FiniteSets, SequencesExt

Dominant  == 0
Recessive == 1
Opposite(v) == 1 - v
Xor(a, b) == (a + b) % 2

Bit(kind, val, stuff) == [kind |-> kind, val |-> val, stuff |-> stuff]

\* AppendBit for each value, in turn.
Field(kind, vals) == [i \in 1 .. Len(vals) |-> Bit(kind, vals[i], "NoStuff")]

Times(n, val) == [i \in 1 .. n |-> val]

\* Rounds of a loop, and what the one before them has left.
Rounds(lo, hi, acc) == [lo |-> lo, hi |-> hi, acc |-> acc]

\* A loop over 1 .. n, n > 0: Step(acc, i) gives what round i puts out and what
\* it leaves for the next. By halves, since a frame has too many bits for TLC to
\* evaluate the recursive definition of FoldLeft.
Loop(Step(_, _), Acc, first, n) ==
  LET rounds[r \in [lo : 1 .. n, hi : 1 .. n, acc : Acc]] ==
        IF r.lo = r.hi THEN Step(r.acc, r.lo)
        ELSE LET mid   == (r.lo + r.hi) \div 2
                 left  == rounds[Rounds(r.lo, mid, r.acc)]
                 right == rounds[Rounds(mid + 1, r.hi, left.acc)]
             IN  [out |-> left.out \o right.out, acc |-> right.acc]
  IN  rounds[Rounds(1, n, first)]

\* The elements of a sequence in some positions.
OnlyAt(seq, kept) ==
  LET Step(acc, i) == [out |-> IF i \in kept THEN <<seq[i]>> ELSE <<>>, acc |-> acc]
  IN  Loop(Step, {0}, 0, Len(seq)).out

If(cond, seq) == IF cond THEN seq ELSE <<>>

CrcLen(c) == IF c.fdf = 0 THEN 15 ELSE IF Len(c.data) <= 16 * 8 THEN 17 ELSE 21

\* From SOF to the end of the data.
UpToData(c) ==
  LET fd == c.fdf = 1
      ext == c.ide = 1
  IN  Field("Sof", <<Dominant>>)
      \o Field("BaseIdent", c.base)
      \o If(ext, Field("Srr", <<Recessive>>) \o Field("Ide", <<Recessive>>)
                 \o Field("ExtIdent", c.ext))
      \o (IF fd THEN Field("R1", <<Dominant>>) ELSE Field("Rtr", <<c.rtr>>))
      \o If(~ext, Field("Ide", <<Dominant>>))
      \o (IF fd THEN Field("Edl", <<Recessive>>)
          ELSE Field(IF ext THEN "R1" ELSE "R0", <<Dominant>>))
      \o If(fd \/ ext, Field("R0", <<Dominant>>))
      \o If(fd, Field("Brs", <<c.brs>>) \o Field("Esi", <<c.esi>>))
      \o Field("Dlc", c.dlc) \o Field("Data", c.data)

BuildFrameBits(c) ==
  UpToData(c)
  \o If(c.fdf = 1, Field("StuffCnt", Times(3, Dominant))
                   \o Field("StuffParity", <<Recessive>>))
  \o Field("Crc", Times(CrcLen(c), Recessive))
  \o Field("CrcDelim", <<Recessive>>)
  \o Field("Ack", Times(IF c.fdf = 1 THEN 2 ELSE 1, Recessive))
  \o Field("AckDelim", <<Recessive>>)
  \o Field("Eof", Times(7, Recessive)) \o Field("Interm", Times(3, Recessive))

-----------------------------------------------------------------------------
(* Access.                                                                 *)

\* Position of the first bit of a field.
FirstOf(bits, kind) == SelectInSeq(bits, LAMBDA b : b.kind = kind)

PositionsOf(bits, kind) == {i \in DOMAIN bits : bits[i].kind = kind}

GetFieldLen(bits, kind) == Cardinality(PositionsOf(bits, kind))

InsertBit(bits, i, bit) == InsertAt(bits, i, bit)

\* Values written over the bits from position first on.
Overwrite(bits, first, vals) ==
  [i \in DOMAIN bits |-> IF i \in first .. first + Len(vals) - 1
                         THEN [bits[i] EXCEPT !.val = vals[i - first + 1]]
                         ELSE bits[i]]

FlipVal(bits, i) == Overwrite(bits, i, <<Opposite(bits[i].val)>>)

SetFieldVal(bits, kind, val) == Overwrite(bits, FirstOf(bits, kind), <<val>>)

\* GetBitOf(n, kind), counted from 0, stuff bits included: its position.
GetBitOf(bits, n, kind) ==
  SelectSeq([i \in DOMAIN bits |-> i], LAMBDA i : bits[i].kind = kind)[n + 1]

RemoveBit(bits, n, kind) == RemoveAt(bits, GetBitOf(bits, n, kind))

IsStuff(b) == b.stuff # "NoStuff"

\* GetBitOfNoStuffBits(n, kind), counted from 0.
GetBitOfNoStuffBits(bits, n, kind) ==
  CHOOSE i \in DOMAIN bits :
    LET Plain(j) == bits[j].kind = kind /\ ~IsStuff(bits[j])
    IN  Plain(i) /\ Cardinality({j \in 1 .. i - 1 : Plain(j)}) = n

GetNumStuffBits(bits, stuff) == Cardinality({i \in DOMAIN bits : bits[i].stuff = stuff})

\* GetStuffBit(n), counted from 0 over normal and fixed stuff bits.
GetStuffBit(bits, n) ==
  CHOOSE i \in DOMAIN bits :
    IsStuff(bits[i]) /\ Cardinality({j \in 1 .. i - 1 : IsStuff(bits[j])}) = n

-----------------------------------------------------------------------------
(* Stuffing.                                                               *)

\* Regular stuffing ends before these fields.
EndOfStuffing(bits) == SelectInSeq(bits, LAMBDA b : b.kind \in {"CrcDelim", "StuffCnt"})

\* (mutant: a stuff bit is inserted just before the stuff count, too)
StuffsAlways(bits, i) == TRUE

StuffsAfter(bits, i) == bits[i + 1].kind # "StuffCnt"

\* (mutant: the run of equal bits does not begin again with the stuff bit)
RunAfterStuffZero == 0

RunAfterStuff == 1

\* One round of the loop, at the bit in position i: "same" equal bits, the last
\* of value "prev", have been passed.
StuffStep(bits, acc, i) ==
  LET same == IF bits[i].val = acc.prev THEN acc.same + 1 ELSE 1
      stuff == Bit(bits[i].kind, Opposite(bits[i].val), "Normal")
  IN  IF same = 5 /\ StuffsAfter(bits, i)
      THEN [out |-> <<bits[i], stuff>>,
            acc |-> [same |-> RunAfterStuff, prev |-> stuff.val, cnt |-> (acc.cnt + 1) % 8]]
      ELSE [out |-> <<bits[i]>>,
            acc |-> [same |-> same, prev |-> bits[i].val, cnt |-> acc.cnt]]

\* The frame with its regular stuff bits, and stuff_cnt_.
WithStuffBits(bits, end, loop) ==
  [bits |-> <<bits[1]>> \o loop.out \o SubSeq(bits, end, Len(bits)),
   cnt  |-> loop.acc.cnt]

InsertNormalStuffBits(bits) ==
  LET Step(acc, i) == StuffStep(bits, acc, i + 1)
  IN  WithStuffBits(bits, EndOfStuffing(bits),
                    Loop(Step, [same : Nat, prev : {Dominant, Recessive}, cnt : 0 .. 7],
                         [same |-> 1, prev |-> Dominant, cnt |-> 0], EndOfStuffing(bits) - 2))

\* (mutant: the count is written as a plain number)
PlainCount(cnt) == <<cnt \div 4, (cnt \div 2) % 2, cnt % 2>>

\* stuff_cnt_encoded_
StuffCntEncoded(cnt) ==
  <<cnt \div 4, Xor(cnt \div 4, (cnt \div 2) % 2), Xor((cnt \div 2) % 2, cnt % 2)>>

EvenParity(code) == (code[1] + code[2] + code[3]) % 2

SetStuffCntBits(bits, code) ==
  SetFieldVal(Overwrite(bits, FirstOf(bits, "StuffCnt"), code), "StuffParity", EvenParity(code))

SetStuffCntAndParity(bits, cnt) == SetStuffCntBits(bits, StuffCntEncoded(cnt))

\* One fixed stuff bit before the stuff count, one after its parity.
FixedStuffBefore(bits, i, kind) ==
  InsertBit(bits, i, Bit(kind, Opposite(bits[i - 1].val), "Fixed"))

InsertStuffToStuffCnt(bits) ==
  FixedStuffBefore(FixedStuffBefore(bits, FirstOf(bits, "Crc"), "StuffParity"),
                   FirstOf(bits, "StuffCnt"), "StuffCnt")

\* (mutant: fixed stuff bits after every fifth bit of the CRC)
CrcStuffFive == 5

CrcStuffEvery == 4

StuffFromTo(bits, first, delim) ==
  LET Step(same, i) ==
        LET bit == bits[first + i - 1] IN
        IF same + 1 = CrcStuffEvery
        THEN [out |-> <<bit, Bit("Crc", Opposite(bit.val), "Fixed")>>, acc |-> 0]
        ELSE [out |-> <<bit>>, acc |-> same + 1]
  IN  SubSeq(bits, 1, first - 1) \o Loop(Step, Nat, 0, delim - first).out
      \o SubSeq(bits, delim, Len(bits))

InsertFixedStuffToCrc(bits) == StuffFromTo(bits, FirstOf(bits, "Crc"), FirstOf(bits, "CrcDelim"))

-----------------------------------------------------------------------------
(* CRC.                                                                    *)

\* 0xC599, 0x3685B and 0x302899, without the bit that is shifted out.
Poly(len) ==
  IF len = 15 THEN <<1,0,0,0,1,0,1,1,0,0,1,1,0,0,1>>
  ELSE IF len = 17 THEN <<1,0,1,1,0,1,0,0,0,0,1,0,1,1,0,1,1>>
  ELSE <<1,0,0,0,0,0,0,1,0,1,0,0,0,1,0,0,1,1,0,0,1>>

CrcInit(len) == [i \in 1 .. len |-> IF i = 1 /\ len # 15 THEN 1 ELSE 0]

\* (mutant: the CRC of CAN FD frames covers no stuff bits)
CoversNoStuff(len, b) == ~IsStuff(b)

\* Regular stuff bits are covered in CAN FD frames only, fixed ones never.
Covered(len, b) == IF len = 15 THEN ~IsStuff(b) ELSE b.stuff # "Fixed"

CrcStep(crc, v) ==
  LET len == Len(crc)
      nxt == Xor(v, crc[1])
  IN  [i \in 1 .. len |-> Xor(IF i = len THEN 0 ELSE crc[i + 1], nxt * Poly(len)[i])]

CrcOf(vals, len) ==
  LET Step(crc, i) == [out |-> <<>>, acc |-> CrcStep(crc, vals[i])]
  IN  Loop(Step, [1 .. len -> {0, 1}], CrcInit(len), Len(vals)).acc

CalcCrc(bits, len) ==
  LET Step(crc, i) ==
        [out |-> <<>>,
         acc |-> IF Covered(len, bits[i]) THEN CrcStep(crc, bits[i].val) ELSE crc]
  IN  Loop(Step, [1 .. len -> {0, 1}], CrcInit(len), FirstOf(bits, "Crc") - 1).acc

UpdateCrcBits(bits, crc) == Overwrite(bits, FirstOf(bits, "Crc"), crc)

SetCrc(bits, len) == UpdateCrcBits(bits, CalcCrc(bits, len))

-----------------------------------------------------------------------------
(* Construction and update.                                                *)

UpdateStuffCnt(normal) ==
  InsertStuffToStuffCnt(SetStuffCntAndParity(normal.bits, normal.cnt))

RecalcCrc(bits, len, recalc_crc) == IF recalc_crc THEN SetCrc(bits, len) ELSE bits

\* The order differs: stuff bits of a CAN frame depend on its CRC, the CRC of
\* a CAN FD frame on its stuff bits.
StuffAndCrc(bits, len, recalc_crc) ==
  IF len = 15
  THEN InsertNormalStuffBits(RecalcCrc(bits, len, recalc_crc)).bits
  ELSE InsertFixedStuffToCrc(
         RecalcCrc(UpdateStuffCnt(InsertNormalStuffBits(bits)), len, recalc_crc))

ConstructFrame(c) == StuffAndCrc(BuildFrameBits(c), CrcLen(c), TRUE)

\* The loop of UpdateFrame: erase() already moves to the next bit, which the
\* ++ of the loop then passes over.
EraseStuffBits(bits) ==
  LET Step(passed, i) ==
        IF ~passed /\ IsStuff(bits[i]) THEN [out |-> <<>>, acc |-> TRUE]
        ELSE [out |-> <<bits[i]>>, acc |-> FALSE]
  IN  Loop(Step, BOOLEAN, FALSE, Len(bits)).out

UpdateFrame(bits, len, recalc_crc) == StuffAndCrc(EraseStuffBits(bits), len, recalc_crc)

-----------------------------------------------------------------------------
(* Changes tests make to a frame.                                          *)

ConvRXFrame(bits) ==
  SetFieldVal([i \in DOMAIN bits |-> [bits[i] EXCEPT !.val = Recessive]], "Ack", Dominant)

InsertErrFrm(bits, i, flag, val) ==
  SubSeq(bits, 1, i - 1) \o Field(flag, Times(6, val))
  \o Field("ErrDelim", Times(8, Recessive)) \o Field("Interm", Times(3, Recessive))

InsertActErrFrm(bits, i) == InsertErrFrm(bits, i, "ActErrFlag", Dominant)
InsertPasErrFrm(bits, i) == InsertErrFrm(bits, i, "PasErrFlag", Recessive)

InsertOvrlFrm(bits, i) ==
  SubSeq(bits, 1, i - 1) \o Field("OvrlFlag", Times(6, Dominant))
  \o Field("OvrlDelim", Times(8, Recessive)) \o Field("Interm", Times(3, Recessive))

\* From the bit on which arbitration is lost, the node only acknowledges.
LooseArbit(bits, i) ==
  IF bits[i].kind \notin {"BaseIdent", "ExtIdent", "Rtr", "Srr", "Ide", "R1"} THEN bits
  ELSE SetFieldVal([j \in DOMAIN bits |-> IF j < i THEN bits[j]
                                          ELSE [bits[j] EXCEPT !.val = Recessive]],
                   "Ack", Dominant)

\* The CRC of one frame gets the length of another's, a bit at a time at its
\* beginning.
CompensateCrcLength(bits, len) ==
  LET first == FirstOf(bits, "Crc")
      more == len - GetFieldLen(bits, "Crc")
      less == GetFieldLen(bits, "Crc") - len
  IN  IF len > GetFieldLen(bits, "Crc")
      THEN SubSeq(bits, 1, first - 1) \o Field("Crc", Times(more, Recessive))
           \o SubSeq(bits, first, Len(bits))
      ELSE SubSeq(bits, 1, first - 1) \o SubSeq(bits, first + less, Len(bits))
=============================================================================
