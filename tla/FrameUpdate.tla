---------------------------- MODULE FrameUpdate ----------------------------
(***************************************************************************)
(* How tests prepare a frame: it is built from a golden frame, bits of it  *)
(* are edited and the frame is updated (for example TestIso_7_2_3). The    *)
(* loops over the list of bits are taken a round at a time: they insert    *)
(* and erase bits of the list they run over.                               *)
(*                                                                         *)
(* What a receiver makes of the frame is stated by rules of ISO 11898-1,   *)
(* which look at received bits and not at how they were made.              *)
(***************************************************************************)
EXTENDS ReceiverRules

CONSTANT Contents   \* golden frames

Digits == Seq({Dominant, Recessive})

ContentType ==
  [fdf : {0, 1}, ide : {0, 1}, rtr : {0, 1}, brs : {0, 1}, esi : {0, 1},
   base : Digits, ext : Digits, dlc : Digits, data : Digits]

ASSUME ContentsAssumption == Contents \subseteq ContentType

VARIABLES
  content,    \* of the golden frame
  updated,    \* UpdateFrame was called
  edited,     \* fields whose first bit a test has changed
  flipped,    \* the bit of the CRC a test has flipped, from 1; 0 is none
  bits,       \* bits_
  pc,         \* the loop that is running
  at,         \* bit_it
  same,       \* same_bits
  prev,       \* prev_value
  stuff_cnt,  \* stuff_cnt_
  crc         \* crc15_, crc17_ or crc21_

testVars == <<content, updated, edited, flipped>>
vars == <<content, updated, edited, flipped, bits, pc, at, same, prev, stuff_cnt, crc>>

GoldenCrcLen == CrcLen(content)

IsCan20 == GoldenCrcLen = 15

-----------------------------------------------------------------------------
(* The loops begin.                                                        *)

BeginNormalStuff ==
  /\ pc' = "stuff" /\ at' = 2 /\ same' = 1 /\ prev' = Dominant /\ stuff_cnt' = 0
  /\ UNCHANGED crc

BeginCrc ==
  /\ pc' = "crc" /\ at' = 1 /\ crc' = CrcInit(GoldenCrcLen)
  /\ UNCHANGED <<same, prev, stuff_cnt>>

BeginFixedStuff(frame) ==
  /\ pc' = "fixed" /\ at' = FirstOf(frame, "Crc") /\ same' = 0
  /\ UNCHANGED <<prev, stuff_cnt, crc>>

Init ==
  /\ content \in Contents
  /\ updated = FALSE /\ edited = {} /\ flipped = 0
  /\ bits = BuildFrameBits(content)
  /\ IF IsCan20 THEN pc = "crc" /\ at = 1 ELSE pc = "stuff" /\ at = 2
  /\ same = 1 /\ prev = Dominant /\ stuff_cnt = 0
  /\ crc = CrcInit(GoldenCrcLen)

-----------------------------------------------------------------------------
(* InsertNormalStuffBits.                                                  *)

EndKinds == {"CrcDelim", "StuffCnt"}

Stuffing == pc = "stuff" /\ bits[at].kind \notin EndKinds

\* same_bits with the bit the loop is at.
SameBits == IF bits[at].val = prev THEN same + 1 ELSE 1

StuffDue == SameBits = 5 /\ StuffsAfter(bits, at)

PassBit ==
  /\ Stuffing /\ ~StuffDue
  /\ same' = SameBits /\ prev' = bits[at].val /\ at' = at + 1
  /\ UNCHANGED <<testVars, bits, pc, stuff_cnt, crc>>

InsertStuffBit ==
  /\ Stuffing /\ StuffDue
  /\ LET stuff == Bit(bits[at].kind, Opposite(bits[at].val), "Normal")
     IN  bits' = InsertBit(bits, at + 1, stuff) /\ prev' = stuff.val
  /\ same' = RunAfterStuff /\ at' = at + 2
  /\ stuff_cnt' = (stuff_cnt + 1) % 8
  /\ UNCHANGED <<testVars, pc, crc>>

\* CAN: the CRC has been stuffed with the other fields.
EndNormalStuff ==
  /\ pc = "stuff" /\ bits[at].kind \in EndKinds /\ IsCan20
  /\ pc' = "done"
  /\ UNCHANGED <<testVars, bits, at, same, prev, stuff_cnt, crc>>

\* CAN FD: SetStuffCnt, SetStuffParity and InsertStuffToStuffCnt. The CRC is not
\* calculated again after a test has flipped a bit of it.
WriteStuffCnt ==
  /\ pc = "stuff" /\ bits[at].kind \in EndKinds /\ ~IsCan20
  /\ bits' = UpdateStuffCnt([bits |-> bits, cnt |-> stuff_cnt])
  /\ IF flipped = 0 THEN BeginCrc ELSE BeginFixedStuff(bits')
  /\ UNCHANGED testVars

-----------------------------------------------------------------------------
(* CalcCrc and UpdateCrcBits.                                              *)

ShiftCrc ==
  /\ pc = "crc" /\ bits[at].kind # "Crc"
  /\ crc' = IF Covered(GoldenCrcLen, bits[at]) THEN CrcStep(crc, bits[at].val) ELSE crc
  /\ at' = at + 1
  /\ UNCHANGED <<testVars, bits, pc, same, prev, stuff_cnt>>

WriteCrc ==
  /\ pc = "crc" /\ bits[at].kind = "Crc"
  /\ bits' = UpdateCrcBits(bits, crc)
  /\ IF IsCan20 THEN BeginNormalStuff ELSE BeginFixedStuff(bits')
  /\ UNCHANGED testVars

-----------------------------------------------------------------------------
(* InsertFixedStuffToCrc.                                                  *)

FixedStuffDue == (same + 1) % CrcStuffEvery = 0

PassCrcBit ==
  /\ pc = "fixed" /\ bits[at].kind # "CrcDelim" /\ ~FixedStuffDue
  /\ same' = same + 1 /\ at' = at + 1
  /\ UNCHANGED <<testVars, bits, pc, prev, stuff_cnt, crc>>

InsertFixedStuffBit ==
  /\ pc = "fixed" /\ bits[at].kind # "CrcDelim" /\ FixedStuffDue
  /\ bits' = FixedStuffBefore(bits, at + 1, "Crc")
  /\ same' = same + 1 /\ at' = at + 2
  /\ UNCHANGED <<testVars, pc, prev, stuff_cnt, crc>>

EndFixedStuff ==
  /\ pc = "fixed" /\ bits[at].kind = "CrcDelim"
  /\ pc' = "done"
  /\ UNCHANGED <<testVars, bits, at, same, prev, stuff_cnt, crc>>

-----------------------------------------------------------------------------
(* The first loop of UpdateFrame: erase() already moves to the next bit,   *)
(* which the ++ of the loop then passes over.                              *)

Erasing == pc = "erase" /\ at <= Len(bits)

PassPlainBit ==
  /\ Erasing /\ ~IsStuff(bits[at])
  /\ at' = at + 1
  /\ UNCHANGED <<testVars, bits, pc, same, prev, stuff_cnt, crc>>

EraseStuffBit ==
  /\ Erasing /\ IsStuff(bits[at])
  /\ bits' = RemoveAt(bits, at) /\ at' = at + 1
  /\ UNCHANGED <<testVars, pc, same, prev, stuff_cnt, crc>>

EndErase ==
  /\ pc = "erase" /\ at > Len(bits)
  /\ IF IsCan20 /\ flipped = 0 THEN BeginCrc ELSE BeginNormalStuff
  /\ UNCHANGED <<testVars, bits>>

-----------------------------------------------------------------------------
(* A test edits the frame, and updates it.                                 *)

\* The reserved bits are set recessive, SRR dominant.
Edit(frame, kinds) ==
  [i \in DOMAIN frame |->
     IF \E kind \in kinds : i = FirstOf(frame, kind)
     THEN [frame[i] EXCEPT !.val = IF frame[i].kind = "Srr" THEN Dominant ELSE Recessive]
     ELSE frame[i]]

\* What the elementary tests change: nothing, or bits of an extended frame.
TestedEdits ==
  IF content.ide = 0 THEN {{}}
  ELSE IF content.fdf = 0 THEN SUBSET {"R0", "R1"}
  ELSE {{}, {"Srr"}, {"Srr", "R1"}}

BeginErase ==
  /\ pc = "done" /\ ~updated
  /\ updated' = TRUE
  /\ pc' = "erase" /\ at' = 1
  /\ UNCHANGED <<content, same, prev, stuff_cnt, crc>>

\* SetFieldVal on the bits of the fields, then UpdateFrame.
EditAndUpdate(kinds) ==
  /\ BeginErase
  /\ kinds \in TestedEdits /\ edited' = kinds
  /\ bits' = Edit(bits, kinds)
  /\ UNCHANGED flipped

IsPlainCrc(b) == b.kind = "Crc" /\ ~IsStuff(b)

\* A bit of the CRC, but no stuff bit, is flipped; UpdateFrame(false).
CorruptCrc(i) ==
  /\ BeginErase
  /\ IsPlainCrc(bits[i])
  /\ bits' = FlipVal(bits, i)
  /\ flipped' = Cardinality({j \in 1 .. i : IsPlainCrc(bits[j])})
  /\ UNCHANGED edited

Next ==
  \/ PassBit \/ InsertStuffBit \/ EndNormalStuff \/ WriteStuffCnt
  \/ ShiftCrc \/ WriteCrc
  \/ PassCrcBit \/ InsertFixedStuffBit \/ EndFixedStuff
  \/ PassPlainBit \/ EraseStuffBit \/ EndErase
  \/ \E kinds \in SUBSET {"R0", "R1", "Srr"} : EditAndUpdate(kinds)
  \/ \E i \in DOMAIN bits : CorruptCrc(i)

Spec == Init /\ [][Next]_vars

-----------------------------------------------------------------------------
(* Properties.                                                             *)

Done == pc = "done"

\* The stuff bits of a frame are those a receiver takes for stuff bits, and it
\* finds no error in them: also around the exception before the stuff count, and
\* after an update, for which the old stuff bits have to be gone (the erasing
\* loop passes over the bit that follows each of them).
StuffBitsWhereReceived ==
  Done =>
    /\ {i \in DOMAIN bits : IsStuff(bits[i])} = StuffPositions(bits)
    /\ StuffErrorAt(bits) = 0

\* The stuff count of CAN FD is the Gray code, with even parity, of the number
\* of stuff bits a receiver counts.
GrayOf(n) == CASE n = 0 -> <<0,0,0>> [] n = 1 -> <<0,0,1>> [] n = 2 -> <<0,1,1>>
               [] n = 3 -> <<0,1,0>> [] n = 4 -> <<1,1,0>> [] n = 5 -> <<1,1,1>>
               [] n = 6 -> <<1,0,1>> [] n = 7 -> <<1,0,0>>

StuffCountAsReceived ==
  Done /\ content.fdf = 1 =>
    LET counted == Cardinality({i \in StuffPositions(bits) : i <= LastStuffed(bits)}) % 8
        p == EndOfStuffing(bits)
        field == [i \in 1 .. 4 |-> bits[p + i].val]
    IN  /\ SubSeq(field, 1, 3) = GrayOf(counted)
        /\ (field[1] + field[2] + field[3] + field[4]) % 2 = 0

\* A receiver finds the CRC in order, by division, in each frame built or updated,
\* but in those a bit of whose CRC has been flipped.
CrcAsReceived == Done => (CrcHolds(bits, GoldenCrcLen) <=> flipped = 0)

\* What a test has made of the golden frame, without stuff bits.
Edited ==
  LET built == ConstructFrame(content)
      plain == OnlyAt(built, {i \in DOMAIN built : ~IsStuff(built[i])})
  IN  IF flipped = 0 THEN Edit(BuildFrameBits(content), edited)
      ELSE FlipVal(plain, FirstOf(plain, "Crc") + flipped - 1)

\* An updated frame is the one that would have been built with the edited bit:
\* no stuff bit of the old one survives, none is lost. And the loops, which change
\* the list they run over, make of a frame what BitFrame says of them as functions.
UpdatedAsBuilt ==
  Done => /\ bits = StuffAndCrc(Edited, GoldenCrcLen, flipped = 0)
          /\ bits = UpdateFrame(bits, GoldenCrcLen, flipped = 0)
=============================================================================
