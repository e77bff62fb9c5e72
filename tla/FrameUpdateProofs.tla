------------------------- MODULE FrameUpdateProofs -------------------------
(***************************************************************************)
(* Proofs about the loops that stuff a frame and erase its stuff bits, for *)
(* all golden frames.                                                      *)
(***************************************************************************)
EXTENDS FrameUpdate, LoopProofs, FiniteSetTheorems

-----------------------------------------------------------------------------
(* The inductive invariant.                                                *)

\* Fields up to the data, and all.
HeadKinds == {"Sof", "BaseIdent", "Srr", "Ide", "ExtIdent", "R1", "Rtr", "Edl", "R0", "Brs",
              "Esi", "Dlc", "Data"}

\* All fields.
AllKinds == HeadKinds \cup {"StuffCnt", "StuffParity", "Crc", "CrcDelim", "Ack", "AckDelim",
                            "Eof", "Interm"}

\* Bits of a frame.
BitType == [kind : AllKinds, val : {Dominant, Recessive}, stuff : {"NoStuff", "Normal", "Fixed"}]

\* Fields tests edit.
EditedKinds == {"R0", "R1", "Srr"}

\* The variables have values of their types.
TypeInv ==
  /\ content \in ContentType
  /\ flipped \in Nat /\ edited \in SUBSET EditedKinds /\ (~updated => edited = {})
  /\ bits \in Seq(BitType) /\ bits[1].val = Dominant
  /\ pc \in {"stuff", "crc", "fixed", "erase", "done"}
  /\ at \in Nat \ {0} /\ same \in Nat /\ prev \in {Dominant, Recessive} /\ stuff_cnt \in 0 .. 7
  /\ crc \in [1 .. GoldenCrcLen -> {0, 1}]

\* The frame that was built, with what the test has changed.
Built == Edit(BuildFrameBits(content), edited)

\* Fields the loops write to.
Calculated == {"StuffCnt", "StuffParity", "Crc"}

\* How many bits are built before the CRC.
First(c) == Len(UpToData(c)) + (IF c.fdf = 0 THEN 0 ELSE 4)

\* place[i] is where bit i of the frame as it was built is in the frame: without its
\* stuff bits, the frame is the bits that were built, in their order and with the values
\* they were given, but for those that are calculated.
Placed(place, frame, built) ==
  /\ place \in [1 .. Len(built) -> 1 .. Len(frame)]
  /\ \A i, j \in 1 .. Len(built) : i < j => place[i] < place[j]
  /\ \A i \in 1 .. Len(built) : frame[place[i]].kind = built[i].kind /\ ~IsStuff(frame[place[i]])
  /\ \A i \in 1 .. Len(built) :
       built[i].kind \notin Calculated => frame[place[i]].val = built[i].val
  /\ \A j \in 1 .. Len(frame) : ~IsStuff(frame[j]) => \E i \in 1 .. Len(built) : place[i] = j
  /\ place[1] = 1 /\ place[Len(built)] = Len(frame)

\* No stuff bit has been inserted from a position on.
PlainFrom(first, place, frame, built) ==
  /\ first \in 1 .. Len(frame)
  /\ Len(frame) - Len(built) < first
  /\ \A j \in first .. Len(frame) :
       ~IsStuff(frame[j]) /\ place[j - (Len(frame) - Len(built))] = j

\* Up to a position the bits are stuffed as a receiver expects.
FiveEqual(i, frame) == i >= 6 /\ \A j \in i - 5 .. i - 2 : frame[j].val = frame[i - 1].val

\* Stuff bits are where and what the rule asks for.
StuffedBefore(end, frame) ==
  \A i \in 1 .. end - 1 : /\ IsStuff(frame[i]) <=> FiveEqual(i, frame)
                          /\ IsStuff(frame[i]) => /\ frame[i].val # frame[i - 1].val
                                                  /\ frame[i].kind = frame[i - 1].kind

\* Stuff bits before a position.
StuffBitsBefore(end, frame) == {i \in 1 .. end - 1 : IsStuff(frame[i])}

\* No field of some kinds begins before a position.
NoneBefore(end, kinds, frame) == \A i \in 1 .. end - 1 : frame[i].kind \notin kinds

\* Fields in which, or before which, regular stuffing ends.
LastKinds == IF IsCan20 THEN EndKinds ELSE {"StuffCnt", "StuffParity", "Crc", "CrcDelim"}

\* The part that is stuffed, and the number of its stuff bits.
StuffedInOrder(end, frame) ==
  /\ StuffedBefore(end, frame) /\ NoneBefore(end, LastKinds, frame)
  /\ stuff_cnt = Cardinality(StuffBitsBefore(end, frame)) % 8

\* The equal bits InsertNormalStuffBits has counted, and it has counted all of them.
RunOfEqualBits ==
  /\ same \in 1 .. 5 /\ same < at
  /\ \A i \in at - same .. at - 1 : bits[i].val = prev
  /\ at - same > 1 => bits[at - same - 1].val # prev
  /\ same = 5 => bits[at].kind = "StuffCnt"

\* Regular stuffing has come to a position.
NormalStuffInv(place) ==
  /\ at >= 2 /\ PlainFrom(at, place, bits, Built)
  /\ StuffedInOrder(at, bits)
  /\ IsStuff(bits[at - 1]) => bits[at].kind # "StuffCnt"

\* The stuff count, its parity and the fixed stuff bits around them.
StuffCntBlock(end, frame) ==
  /\ \A i \in {end, end + 5} : frame[i].stuff = "Fixed" /\ frame[i].val # frame[i - 1].val
  /\ \A i \in 1 .. 4 : ~IsStuff(frame[end + i])
  /\ \A i \in 0 .. 3 : frame[end + i].kind = "StuffCnt"
  /\ frame[end + 4].kind = "StuffParity" /\ frame[end + 5].kind = "StuffParity"
  /\ \A i \in 1 .. 3 : frame[end + i].val = StuffCntEncoded(stuff_cnt)[i]
  /\ frame[end + 4].val = EvenParity(StuffCntEncoded(stuff_cnt))

\* The stuff count is written, behind the part that is stuffed by rule.
CountWritten(end, frame) ==
  /\ end > 1 /\ end + 6 <= Len(frame)
  /\ StuffedInOrder(end, frame) /\ ~IsStuff(frame[end - 1])
  /\ StuffCntBlock(end, frame)

\* From the stuff count on, each fifth bit is a stuff bit.
FixedStuffInv(place, end) ==
  /\ CountWritten(end, bits) /\ place[First(content) + 1] = end + 6
  /\ at = end + 6 + same + same \div 4 /\ PlainFrom(at, place, bits, Built)
  /\ \A i \in end + 6 .. at - 1 :
       /\ bits[i].kind = "Crc"
       /\ IsStuff(bits[i]) <=> (i - end) % 5 = 0
       /\ IsStuff(bits[i]) => bits[i].val # bits[i - 1].val

\* Where the first loop of UpdateFrame has been, no stuff bit is left. Of those it has
\* not come to, no two stand side by side.
EraseInv(place) ==
  /\ at <= Len(bits) + 1
  /\ \A i \in 1 .. at - 1 : ~IsStuff(bits[i]) /\ (i <= Len(Built) => place[i] = i)
  /\ \A i \in at .. Len(bits) - 1 : ~(IsStuff(bits[i]) /\ IsStuff(bits[i + 1]))

\* The CRC is computed before its field, over a frame whose stuff count is written.
CrcInv(place) ==
  IF IsCan20 THEN PlainFrom(1, place, bits, Built) /\ NoneBefore(at, {"Crc"}, bits)
  ELSE \E end \in 1 .. Len(bits) :
         /\ CountWritten(end, bits) /\ place[First(content) + 1] = end + 6
         /\ PlainFrom(end + 6, place, bits, Built) /\ at <= end + 6

\* Stuffing by whatever rule the format has.
StuffInv(place) ==
  IF IsCan20 THEN NormalStuffInv(place) ELSE \E end \in 1 .. Len(bits) : FixedStuffInv(place, end)

\* What holds in each loop.
PhaseInv(place) ==
  /\ pc = "erase" => EraseInv(place)
  /\ pc = "stuff" => NormalStuffInv(place) /\ RunOfEqualBits
  /\ pc = "crc" => CrcInv(place)
  /\ pc = "fixed" => ~IsCan20 /\ StuffInv(place)
  /\ pc = "done" => StuffInv(place) /\ bits[at].kind = "CrcDelim"

\* The inductive invariant: what was built is in place, and the loop in its phase.
FrameInv == TypeInv /\ \E place : Placed(place, bits, Built) /\ PhaseInv(place)

-----------------------------------------------------------------------------
(* Operations on sequences of bits.                                        *)

\* InsertBit moves the bits from a position on up by one.
InsertedAt(new, frame, i, b) ==
  /\ new \in Seq(BitType) /\ Len(new) = Len(frame) + 1
  /\ \A j \in 1 .. Len(frame) + 1 :
       new[j] = IF j < i THEN frame[j] ELSE IF j = i THEN b ELSE frame[j - 1]

\* InsertBit of a bit at a position of a frame or after its end gives a frame.
LEMMA Inserted ==
  ASSUME NEW frame \in Seq(BitType), NEW b \in BitType, NEW i \in 1 .. Len(frame) + 1
  PROVE  InsertedAt(InsertBit(frame, i, b), frame, i, b)
<1> DEFINE front == SubSeq(frame, 1, i - 1)
           back == SubSeq(frame, i, Len(frame))
<1>1. front \in Seq(BitType) /\ Len(front) = i - 1 /\ \A j \in 1 .. i - 1 : front[j] = frame[j]
  OBVIOUS
<1>2. /\ back \in Seq(BitType) /\ Len(back) = Len(frame) - i + 1
      /\ \A j \in 1 .. Len(frame) - i + 1 : back[j] = frame[i + j - 1]
  OBVIOUS
<1> HIDE DEF front, back
<1> DEFINE mid == front \o <<b>>
<1>3. InsertBit(frame, i, b) = mid \o back
  BY DEF InsertBit, InsertAt, front, back
<1>4. /\ mid \in Seq(BitType) /\ Len(mid) = i
      /\ \A j \in 1 .. i : mid[j] = IF j < i THEN frame[j] ELSE b
  BY <1>1
<1> HIDE DEF mid
<1>5. /\ mid \o back \in Seq(BitType) /\ Len(mid \o back) = Len(frame) + 1
      /\ \A j \in 1 .. i : (mid \o back)[j] = mid[j]
      /\ \A j \in i + 1 .. Len(frame) + 1 : (mid \o back)[j] = back[j - i]
  <2>1. /\ mid \in Seq(BitType) /\ Len(mid) = i
        /\ back \in Seq(BitType) /\ Len(back) = Len(frame) - i + 1
    BY <1>2, <1>4
  <2> QED BY <2>1, ConcatProperties
<1>6. ASSUME NEW j \in i + 1 .. Len(frame) + 1
      PROVE  back[j - i] = frame[j - 1]
  <2>1. j - i \in 1 .. Len(frame) - i + 1
    OBVIOUS
  <2> QED BY <1>2, <2>1
<1> DEFINE new == mid \o back
<1>7. /\ new \in Seq(BitType) /\ Len(new) = Len(frame) + 1
      /\ \A j \in 1 .. Len(frame) + 1 :
           new[j] = IF j < i THEN frame[j] ELSE IF j = i THEN b ELSE frame[j - 1]
  BY <1>4, <1>5, <1>6
<1> QED BY <1>3, <1>7 DEF InsertedAt

\* RemoveAt moves the bits past a position down by one.
RemovedAt(new, frame, i) ==
  /\ new \in Seq(BitType) /\ Len(new) = Len(frame) - 1
  /\ \A j \in 1 .. Len(frame) - 1 : new[j] = IF j < i THEN frame[j] ELSE frame[j + 1]

\* Erasing a bit moves those behind it down by one.
LEMMA Removed ==
  ASSUME NEW frame \in Seq(BitType), NEW i \in 1 .. Len(frame)
  PROVE  RemovedAt(RemoveAt(frame, i), frame, i)
<1> DEFINE front == SubSeq(frame, 1, i - 1)
           back == SubSeq(frame, i + 1, Len(frame))
<1>1. front \in Seq(BitType) /\ Len(front) = i - 1 /\ \A j \in 1 .. i - 1 : front[j] = frame[j]
  OBVIOUS
<1>2. /\ back \in Seq(BitType) /\ Len(back) = Len(frame) - i
      /\ \A j \in 1 .. Len(frame) - i : back[j] = frame[i + j]
  OBVIOUS
<1>3. RemoveAt(frame, i) = front \o back
  BY DEF RemoveAt
<1> HIDE DEF front, back
<1>4. /\ front \o back \in Seq(BitType) /\ Len(front \o back) = Len(frame) - 1
      /\ \A j \in 1 .. i - 1 : (front \o back)[j] = front[j]
      /\ \A j \in i .. Len(frame) - 1 : (front \o back)[j] = back[j - i + 1]
  BY <1>1, <1>2, ConcatProperties
<1>5. ASSUME NEW j \in i .. Len(frame) - 1
      PROVE  back[j - i + 1] = frame[j + 1]
  <2>1. j - i + 1 \in 1 .. Len(frame) - i
    OBVIOUS
  <2> QED BY <1>2, <2>1
<1> QED BY <1>1, <1>3, <1>4, <1>5 DEF RemovedAt

\* GetBitOf finds the first bit of a field.
LEMMA FoundFirst ==
  ASSUME NEW frame \in Seq(BitType), NEW kind, NEW p \in 1 .. Len(frame),
         frame[p].kind = kind, NoneBefore(p, {kind}, frame)
  PROVE  FirstOf(frame, kind) = p
<1> DEFINE Found == {i \in 1 .. Len(frame) : frame[i].kind = kind}
<1>1. p \in Found /\ \A i \in Found : p <= i
  BY DEF NoneBefore
<1>2. Min(Found) = p
  BY <1>1 DEF Min
<1>3. FirstOf(frame, kind) = IF Found # {} THEN Min(Found) ELSE 0
  BY DEF FirstOf, SelectInSeq
<1> QED BY <1>1, <1>2, <1>3

\* Min is that one.
LEMMA HasFirst ==
  ASSUME NEW S, S \subseteq Nat, S # {}
  PROVE  Min(S) \in S
BY HasLeast DEF Min

\* The position GetBitOf finds is one of the field, and the first.
LEMMA FoundIsOfKind ==
  ASSUME NEW frame \in Seq(BitType), NEW kind, NEW i \in 1 .. Len(frame), FirstOf(frame, kind) = i
  PROVE  frame[i].kind = kind /\ NoneBefore(i, {kind}, frame)
<1> DEFINE Found == {k \in 1 .. Len(frame) : frame[k].kind = kind}
<1>1. FirstOf(frame, kind) = IF Found # {} THEN Min(Found) ELSE 0
  BY DEF FirstOf, SelectInSeq
<1>2. Found \subseteq Nat
  OBVIOUS
<1>3. Found # {} /\ i = Min(Found)
  BY <1>1
<1>4. i \in Found
  BY <1>2, <1>3, HasFirst
<1>5. ASSUME NEW j \in 1 .. i - 1, frame[j].kind = kind
      PROVE  FALSE
  <2>1. j \in Found /\ j < i
    BY <1>5
  <2> HIDE DEF Found
  <2>2. \E x \in Found : \A y \in Found : x <= y
    BY <1>2, <1>3, HasLeast
  <2>3. \A y \in Found : i <= y
    BY <1>3, <2>2 DEF Min
  <2> QED BY <1>2, <1>4, <2>1, <2>3
<1> QED BY <1>4, <1>5 DEF NoneBefore

\* Another frame, with the same fields and stuff bits.
SameShape(frame, other) ==
  /\ Len(other) = Len(frame)
  /\ \A i \in 1 .. Len(frame) : other[i].kind = frame[i].kind /\ other[i].stuff = frame[i].stuff

\* Values written over bits leave their kinds as they are.
WrittenOver(new, frame, first, n, vals) ==
  /\ new \in Seq(BitType) /\ SameShape(frame, new)
  /\ \A j \in 1 .. Len(frame) :
       new[j].val = IF j \in first .. first + n - 1 THEN vals[j - first + 1] ELSE frame[j].val

\* Values written from a position on change the values there and nothing else.
LEMMA Overwritten ==
  ASSUME NEW frame \in Seq(BitType), NEW first \in Nat,
         NEW n \in Nat, NEW vals \in [1 .. n -> {Dominant, Recessive}], Len(vals) = n
  PROVE  WrittenOver(Overwrite(frame, first, vals), frame, first, n, vals)
<1> DEFINE New(j) == IF j \in first .. first + n - 1 THEN [frame[j] EXCEPT !.val = vals[j - first + 1]]
                     ELSE frame[j]
<1>1. ASSUME NEW j \in 1 .. Len(frame)
      PROVE  /\ New(j) \in BitType /\ New(j).kind = frame[j].kind /\ New(j).stuff = frame[j].stuff
             /\ New(j).val = IF j \in first .. first + n - 1 THEN vals[j - first + 1] ELSE frame[j].val
  <2>1. frame[j] \in BitType
    OBVIOUS
  <2>2. ASSUME j \in first .. first + n - 1
        PROVE  vals[j - first + 1] \in {Dominant, Recessive}
    BY <2>2
  <2> QED BY <2>1, <2>2 DEF BitType
<1> DEFINE new == [j \in 1 .. Len(frame) |-> New(j)]
<1>2. Overwrite(frame, first, vals) = new
  BY DEF Overwrite
<1> HIDE DEF New
<1>3. new \in Seq(BitType) /\ Len(new) = Len(frame) /\ \A j \in 1 .. Len(frame) : new[j] = New(j)
  BY <1>1
<1> HIDE DEF new
<1>4. SameShape(frame, new)
  BY <1>1, <1>3 DEF SameShape
<1> QED BY <1>1, <1>2, <1>3, <1>4 DEF WrittenOver

\* A stuff bit with the opposite of a value.
LEMMA FixedStuffBit ==
  ASSUME NEW kind \in AllKinds, NEW val \in {Dominant, Recessive}
  PROVE  /\ Bit(kind, Opposite(val), "Fixed") \in BitType
         /\ IsStuff(Bit(kind, Opposite(val), "Fixed"))
         /\ Bit(kind, Opposite(val), "Fixed").val # val
         /\ Bit(kind, Opposite(val), "Fixed").kind = kind
         /\ Bit(kind, Opposite(val), "Fixed").stuff = "Fixed"
BY DEF Bit, BitType, Opposite, Dominant, Recessive, IsStuff

-----------------------------------------------------------------------------
(* The frame as it is built.                                               *)

\* Bits of given kinds, no stuff bits.
PlainBitType(kinds) == [kind : kinds, val : {Dominant, Recessive}, stuff : {"NoStuff"}]

\* Sequences of them.
PlainBits(kinds) == Seq(PlainBitType(kinds))

\* A field has its values in turn, and no stuff bit.
LEMMA FieldIsPlain ==
  ASSUME NEW kinds, NEW kind \in kinds, NEW vals \in Digits
  PROVE  /\ Field(kind, vals) \in PlainBits(kinds)
         /\ Len(Field(kind, vals)) = Len(vals)
         /\ \A i \in 1 .. Len(vals) : Field(kind, vals)[i] = Bit(kind, vals[i], "NoStuff")
BY DEF Field, Bit, PlainBits, PlainBitType, Digits

\* A field of equal bits has as many as were asked for.
LEMMA TimesIsPlain ==
  ASSUME NEW kinds, NEW kind \in kinds, NEW n \in Nat, NEW val \in {Dominant, Recessive}
  PROVE  /\ Field(kind, Times(n, val)) \in PlainBits(kinds)
         /\ Len(Field(kind, Times(n, val))) = n
         /\ \A i \in 1 .. n : Field(kind, Times(n, val))[i] = Bit(kind, val, "NoStuff")
<1>1. Times(n, val) \in Digits /\ Len(Times(n, val)) = n /\ \A i \in 1 .. n : Times(n, val)[i] = val
  BY DEF Times, Digits
<1> QED BY <1>1, FieldIsPlain

\* A field of one bit.
LEMMA OneIsPlain ==
  ASSUME NEW kinds, NEW kind \in kinds, NEW val \in {Dominant, Recessive}
  PROVE  /\ Field(kind, <<val>>) \in PlainBits(kinds)
         /\ Len(Field(kind, <<val>>)) = 1
         /\ Field(kind, <<val>>)[1] = Bit(kind, val, "NoStuff")
<1>1. <<val>> \in Digits /\ Len(<<val>>) = 1 /\ <<val>>[1] = val
  BY DEF Digits
<1> QED BY <1>1, FieldIsPlain

\* Bits put after others leave those where they are.
JoinOf(r, s, t, kinds) ==
  /\ r \in PlainBits(kinds) /\ Len(r) = Len(s) + Len(t)
  /\ \A i \in 1 .. Len(s) : r[i] = s[i]
  /\ \A i \in 1 .. Len(t) : r[Len(s) + i] = t[i]

\* Two parts of a frame without stuff bits, one after the other, are such a part.
LEMMA Joined ==
  ASSUME NEW kinds, NEW s \in PlainBits(kinds), NEW t \in PlainBits(kinds)
  PROVE  JoinOf(s \o t, s, t, kinds) /\ s \o t \in PlainBits(kinds)
<1>1. Len(s) \in Nat /\ Len(t) \in Nat
  BY DEF PlainBits
<1>2. /\ s \o t \in PlainBits(kinds) /\ Len(s \o t) = Len(s) + Len(t)
      /\ \A i \in 1 .. Len(s) + Len(t) : (s \o t)[i] = IF i <= Len(s) THEN s[i] ELSE t[i - Len(s)]
  BY ConcatProperties DEF PlainBits
<1>3. ASSUME NEW i \in 1 .. Len(t)
      PROVE  (s \o t)[Len(s) + i] = t[i]
  <2>1. Len(s) + i \in 1 .. Len(s) + Len(t) /\ ~(Len(s) + i <= Len(s)) /\ (Len(s) + i) - Len(s) = i
    BY <1>1
  <2> QED BY <1>2, <2>1
<1> QED BY <1>1, <1>2, <1>3 DEF JoinOf

\* The bits of a part without stuff bits have its kinds.
LEMMA PlainBit ==
  ASSUME NEW kinds, NEW s \in PlainBits(kinds)
  PROVE  /\ Len(s) \in Nat
         /\ \A i \in 1 .. Len(s) : /\ s[i].kind \in kinds /\ ~IsStuff(s[i])
                                   /\ s[i].val \in {Dominant, Recessive}
<1>1. Len(s) \in Nat
  BY DEF PlainBits
<1>2. ASSUME NEW i \in 1 .. Len(s)
      PROVE  s[i].kind \in kinds /\ ~IsStuff(s[i]) /\ s[i].val \in {Dominant, Recessive}
  <2>1. s[i] \in PlainBitType(kinds)
    BY DEF PlainBits
  <2> QED BY <2>1 DEF PlainBitType, IsStuff
<1> QED BY <1>1, <1>2

\* A field that only some frames have.
LEMMA IfIsPlain ==
  ASSUME NEW kinds, NEW cond \in BOOLEAN, NEW s \in PlainBits(kinds)
  PROVE  If(cond, s) \in PlainBits(kinds)
BY DEF If, PlainBits

\* A frame begins with a dominant bit.
Begun(s) ==
  s \in PlainBits(HeadKinds) /\ Len(s) >= 1 /\ s[1].val = Dominant /\ s[1].kind = "Sof"

\* What is appended to the beginning of a frame leaves SOF where it is.
LEMMA BegunOn ==
  ASSUME NEW s, Begun(s), NEW t \in PlainBits(HeadKinds)
  PROVE  Begun(s \o t) /\ Len(s \o t) >= Len(s)
<1>1. Len(s) \in Nat /\ Len(t) \in Nat
  BY DEF PlainBits, Begun
<1> QED BY <1>1, Joined DEF Begun, JoinOf

\* Up to the data a frame begins with a dominant SOF, which is not all of it, and has none
\* of the fields after it.
LEMMA HeadIsPlain ==
  ASSUME NEW c \in ContentType
  PROVE  Begun(UpToData(c)) /\ Len(UpToData(c)) > 1
<1> DEFINE fd == c.fdf = 1
           ext == c.ide = 1
           sof == Field("Sof", <<Dominant>>)
           base == Field("BaseIdent", c.base)
           extended == If(ext, Field("Srr", <<Recessive>>) \o Field("Ide", <<Recessive>>)
                               \o Field("ExtIdent", c.ext))
           rtr == IF fd THEN Field("R1", <<Dominant>>) ELSE Field("Rtr", <<c.rtr>>)
           ide == If(~ext, Field("Ide", <<Dominant>>))
           edl == IF fd THEN Field("Edl", <<Recessive>>)
                  ELSE Field(IF ext THEN "R1" ELSE "R0", <<Dominant>>)
           r0 == If(fd \/ ext, Field("R0", <<Dominant>>))
           shift == If(fd, Field("Brs", <<c.brs>>) \o Field("Esi", <<c.esi>>))
           dlc == Field("Dlc", c.dlc)
           data == Field("Data", c.data)
<1>1. Begun(sof)
  <2>1. "Sof" \in HeadKinds
    BY DEF HeadKinds
  <2>2. sof \in PlainBits(HeadKinds) /\ Len(sof) = 1 /\ sof[1] = Bit("Sof", Dominant, "NoStuff")
    BY <2>1, OneIsPlain
  <2> QED BY <2>2 DEF Begun, Bit
<1>2. base \in PlainBits(HeadKinds) /\ dlc \in PlainBits(HeadKinds) /\ data \in PlainBits(HeadKinds)
  <2>1. c.base \in Digits /\ c.dlc \in Digits /\ c.data \in Digits
    BY DEF ContentType
  <2> QED BY <2>1, FieldIsPlain DEF HeadKinds
<1>3. extended \in PlainBits(HeadKinds)
  <2>1. Field("Srr", <<Recessive>>) \in PlainBits(HeadKinds)
        /\ Field("Ide", <<Recessive>>) \in PlainBits(HeadKinds)
    BY OneIsPlain DEF HeadKinds
  <2>2. c.ext \in Digits
    BY DEF ContentType
  <2>3. Field("ExtIdent", c.ext) \in PlainBits(HeadKinds)
    BY <2>2, FieldIsPlain DEF HeadKinds
  <2>4. Field("Srr", <<Recessive>>) \o Field("Ide", <<Recessive>>) \in PlainBits(HeadKinds)
    BY <2>1, Joined
  <2>5. Field("Srr", <<Recessive>>) \o Field("Ide", <<Recessive>>)
          \o Field("ExtIdent", c.ext) \in PlainBits(HeadKinds)
    BY <2>3, <2>4, Joined
  <2> QED BY <2>5, IfIsPlain
<1>4. rtr \in PlainBits(HeadKinds) /\ ide \in PlainBits(HeadKinds) /\ edl \in PlainBits(HeadKinds)
      /\ r0 \in PlainBits(HeadKinds) /\ Len(edl) = 1
  <2>1. c.rtr \in {Dominant, Recessive}
    BY DEF ContentType, Dominant, Recessive
  <2>2. ASSUME NEW kind \in {"R1", "Rtr", "Ide", "Edl", "R0"}, NEW val \in {Dominant, Recessive}
        PROVE  Field(kind, <<val>>) \in PlainBits(HeadKinds) /\ Len(Field(kind, <<val>>)) = 1
    BY OneIsPlain DEF HeadKinds
  <2>3. rtr \in PlainBits(HeadKinds)
    BY <2>1, <2>2
  <2>4. ide \in PlainBits(HeadKinds)
    BY <2>2, IfIsPlain
  <2>5. edl \in PlainBits(HeadKinds) /\ Len(edl) = 1
    BY <2>2
  <2>6. r0 \in PlainBits(HeadKinds)
    BY <2>2, IfIsPlain
  <2> QED BY <2>3, <2>4, <2>5, <2>6
<1>5. shift \in PlainBits(HeadKinds)
  <2>1. c.brs \in {Dominant, Recessive} /\ c.esi \in {Dominant, Recessive}
    BY DEF ContentType, Dominant, Recessive
  <2>2. Field("Brs", <<c.brs>>) \in PlainBits(HeadKinds)
        /\ Field("Esi", <<c.esi>>) \in PlainBits(HeadKinds)
    BY <2>1, OneIsPlain DEF HeadKinds
  <2>3. Field("Brs", <<c.brs>>) \o Field("Esi", <<c.esi>>) \in PlainBits(HeadKinds)
    BY <2>2, Joined
  <2> QED BY <2>3, IfIsPlain
<1>6. UpToData(c)
        = sof \o base \o extended \o rtr \o ide \o edl \o r0 \o shift \o dlc \o data
  BY DEF UpToData
<1> HIDE DEF sof, base, extended, rtr, ide, edl, r0, shift, dlc, data
<1>7. Begun(sof \o base \o extended)
  BY <1>1, <1>2, <1>3, BegunOn
<1>8. Begun(sof \o base \o extended \o rtr \o ide)
  BY <1>4, <1>7, BegunOn
<1>9. Begun(sof \o base \o extended \o rtr \o ide \o edl)
      /\ Len(sof \o base \o extended \o rtr \o ide \o edl) > 1
  <2> PICK s : s = sof \o base \o extended \o rtr \o ide
    OBVIOUS
  <2>1. Begun(s)
    BY <1>8
  <2>2. Len(s \o edl) = Len(s) + Len(edl)
    <3>1. JoinOf(s \o edl, s, edl, HeadKinds)
      BY <1>4, <2>1, Joined DEF Begun
    <3> QED BY <3>1 DEF JoinOf
  <2>3. Begun(s \o edl)
    BY <1>4, <2>1, BegunOn
  <2>4. Len(s) \in Nat /\ Len(s) >= 1
    BY <2>1, PlainBit DEF Begun
  <2>5. Len(s \o edl) > 1
    BY <1>4, <2>2, <2>4
  <2> QED BY <2>3, <2>5
<1>10. ASSUME NEW s, Begun(s) /\ Len(s) > 1, NEW t \in PlainBits(HeadKinds)
       PROVE  Begun(s \o t) /\ Len(s \o t) > 1
  <2>1. Begun(s \o t) /\ Len(s \o t) >= Len(s)
    BY <1>10, BegunOn
  <2>2. Len(s) \in Nat /\ Len(s \o t) \in Nat
    BY <1>10, <2>1, PlainBit DEF Begun
  <2> QED BY <1>10, <2>1, <2>2
<1> DEFINE upToR0 == sof \o base \o extended \o rtr \o ide \o edl \o r0
<1>11. Begun(upToR0) /\ Len(upToR0) > 1
  BY <1>4, <1>9, <1>10
<1> HIDE DEF upToR0
<1>12. Begun(upToR0 \o shift) /\ Len(upToR0 \o shift) > 1
  BY <1>5, <1>10, <1>11
<1>13. Begun(upToR0 \o shift \o dlc) /\ Len(upToR0 \o shift \o dlc) > 1
  BY <1>2, <1>10, <1>12
<1>14. Begun(upToR0 \o shift \o dlc \o data) /\ Len(upToR0 \o shift \o dlc \o data) > 1
  BY <1>2, <1>10, <1>13
<1> QED BY <1>6, <1>14 DEF upToR0

\* What the loops find in a frame as it was built: where its fields are.
Layout(c, built) ==
  /\ built \in PlainBits(AllKinds) /\ built[1].val = Dominant /\ built[1].kind = "Sof"
  /\ Len(UpToData(c)) \in Nat \ {0}
  /\ \A i \in 1 .. Len(UpToData(c)) : built[i].kind \in HeadKinds
  /\ c.fdf # 0 => /\ \A i \in 1 .. 3 : built[Len(UpToData(c)) + i].kind = "StuffCnt"
                  /\ built[Len(UpToData(c)) + 4].kind = "StuffParity"
  /\ \A i \in 1 .. CrcLen(c) : built[First(c) + i].kind = "Crc"
  /\ built[First(c) + CrcLen(c) + 1].kind = "CrcDelim"
  /\ Len(built) > First(c) + CrcLen(c) + 1

\* The fields up to the data are fields.
LEMMA HeadKindsInAll ==
  ASSUME NEW s \in PlainBits(HeadKinds)
  PROVE  s \in PlainBits(AllKinds)
<1>1. PlainBitType(HeadKinds) \subseteq PlainBitType(AllKinds)
  BY DEF PlainBitType, AllKinds
<1> QED BY <1>1 DEF PlainBits

\* BuildFrameBits appends the fields in the order of ISO 11898-1, without stuff bits.
LEMMA BuiltAsLaidOut ==
  ASSUME NEW c \in ContentType
  PROVE  Layout(c, BuildFrameBits(c))
<1> DEFINE head == UpToData(c)
           cnt == If(c.fdf = 1, Field("StuffCnt", Times(3, Dominant)) \o Field("StuffParity", <<Recessive>>))
           code == Field("Crc", Times(CrcLen(c), Recessive))
           delim == Field("CrcDelim", <<Recessive>>)
           ack == Field("Ack", Times(IF c.fdf = 1 THEN 2 ELSE 1, Recessive))
           ackDelim == Field("AckDelim", <<Recessive>>)
           eof == Field("Eof", Times(7, Recessive))
           interm == Field("Interm", Times(3, Recessive))
           n == CrcLen(c)
           m == IF c.fdf = 0 THEN 0 ELSE 4
<1>1. head \in PlainBits(AllKinds) /\ Len(head) \in Nat \ {0}
      /\ head[1].val = Dominant /\ head[1].kind = "Sof"
      /\ \A i \in 1 .. Len(head) : head[i].kind \in HeadKinds
  <2>1. Begun(head)
    BY HeadIsPlain
  <2>2. head \in PlainBits(HeadKinds) /\ Len(head) >= 1 /\ head[1].val = Dominant /\ head[1].kind = "Sof"
    BY <2>1 DEF Begun
  <2> HIDE DEF head
  <2>3. head \in PlainBits(AllKinds)
    BY <2>2, HeadKindsInAll
  <2>4. Len(head) \in Nat /\ \A i \in 1 .. Len(head) : head[i].kind \in HeadKinds
    BY <2>2, PlainBit
  <2> QED BY <2>2, <2>3, <2>4
<1>2. /\ cnt \in PlainBits(AllKinds) /\ Len(cnt) = m
      /\ c.fdf # 0 => (\A i \in 1 .. 3 : cnt[i].kind = "StuffCnt") /\ cnt[4].kind = "StuffParity"
  <2>1. CASE c.fdf = 0
    BY <2>1 DEF If, PlainBits
  <2>2. CASE c.fdf # 0
    <3> DEFINE s == Field("StuffCnt", Times(3, Dominant))
               t == Field("StuffParity", <<Recessive>>)
    <3>1. c.fdf = 1
      BY <2>2 DEF ContentType
    <3>2. "StuffCnt" \in AllKinds /\ "StuffParity" \in AllKinds
      BY DEF AllKinds
    <3>3. s \in PlainBits(AllKinds) /\ Len(s) = 3
          /\ \A i \in 1 .. 3 : s[i] = Bit("StuffCnt", Dominant, "NoStuff")
      BY <3>2, TimesIsPlain
    <3>4. t \in PlainBits(AllKinds) /\ Len(t) = 1 /\ t[1] = Bit("StuffParity", Recessive, "NoStuff")
      BY <3>2, OneIsPlain
    <3>5. cnt = s \o t
      BY <3>1 DEF If
    <3> HIDE DEF s, t
    <3>6. JoinOf(cnt, s, t, AllKinds)
      BY <3>3, <3>4, <3>5, Joined
    <3>7. cnt \in PlainBits(AllKinds) /\ Len(cnt) = m
      BY <2>2, <3>3, <3>4, <3>6 DEF JoinOf
    <3>8. \A i \in 1 .. 3 : cnt[i].kind = "StuffCnt"
      BY <3>3, <3>6 DEF Bit, JoinOf
    <3>9. cnt[4].kind = "StuffParity"
      BY <3>3, <3>4, <3>6 DEF Bit, JoinOf
    <3> QED BY <3>7, <3>8, <3>9
  <2> QED BY <2>1, <2>2
<1>3. n \in Nat
  BY DEF CrcLen
<1>4. code \in PlainBits(AllKinds) /\ Len(code) = n /\ \A i \in 1 .. n : code[i].kind = "Crc"
  <2>1. "Crc" \in AllKinds
    BY DEF AllKinds
  <2>2. code \in PlainBits(AllKinds) /\ Len(code) = n
        /\ \A i \in 1 .. n : code[i] = Bit("Crc", Recessive, "NoStuff")
    BY <1>3, <2>1, TimesIsPlain
  <2> QED BY <2>2 DEF Bit
<1>5. delim \in PlainBits(AllKinds) /\ Len(delim) = 1 /\ delim[1].kind = "CrcDelim"
  <2>1. "CrcDelim" \in AllKinds
    BY DEF AllKinds
  <2>2. delim \in PlainBits(AllKinds) /\ Len(delim) = 1
        /\ delim[1] = Bit("CrcDelim", Recessive, "NoStuff")
    BY <2>1, OneIsPlain
  <2> QED BY <2>2 DEF Bit
<1>6. /\ ack \in PlainBits(AllKinds) /\ ackDelim \in PlainBits(AllKinds)
      /\ eof \in PlainBits(AllKinds) /\ interm \in PlainBits(AllKinds)
      /\ Len(ackDelim) = 1
  <2>1. "Ack" \in AllKinds /\ "AckDelim" \in AllKinds /\ "Eof" \in AllKinds /\ "Interm" \in AllKinds
    BY DEF AllKinds
  <2> QED BY <2>1, TimesIsPlain, OneIsPlain
<1>7. BuildFrameBits(c) = head \o cnt \o code \o delim \o ack \o ackDelim \o eof \o interm
  BY DEF BuildFrameBits
<1> HIDE DEF head, cnt, code, delim, ack, ackDelim, eof, interm, n, m
<1>8. m \in Nat
  BY DEF m
<1> DEFINE upToCnt == head \o cnt
           upToCrc == upToCnt \o code
           upToDelim == upToCrc \o delim
<1>9. JoinOf(upToCnt, head, cnt, AllKinds) /\ upToCnt \in PlainBits(AllKinds)
  BY <1>1, <1>2, Joined
<1> HIDE DEF upToCnt
<1>10. JoinOf(upToCrc, upToCnt, code, AllKinds) /\ upToCrc \in PlainBits(AllKinds)
  BY <1>4, <1>9, Joined
<1> HIDE DEF upToCrc
<1>11. JoinOf(upToDelim, upToCrc, delim, AllKinds) /\ upToDelim \in PlainBits(AllKinds)
  BY <1>5, <1>10, Joined
<1> DEFINE upToAck == upToDelim \o ack
           upToAckDelim == upToAck \o ackDelim
           upToEof == upToAckDelim \o eof
<1>12. BuildFrameBits(c) = upToEof \o interm
  BY <1>7 DEF upToCnt, upToCrc
<1> HIDE DEF upToDelim
<1>13. JoinOf(upToAck, upToDelim, ack, AllKinds) /\ upToAck \in PlainBits(AllKinds)
  BY <1>6, <1>11, Joined
<1> HIDE DEF upToAck
<1>14. JoinOf(upToAckDelim, upToAck, ackDelim, AllKinds) /\ upToAckDelim \in PlainBits(AllKinds)
  BY <1>6, <1>13, Joined
<1> HIDE DEF upToAckDelim
<1>15. JoinOf(upToEof, upToAckDelim, eof, AllKinds) /\ upToEof \in PlainBits(AllKinds)
  BY <1>6, <1>14, Joined
<1> HIDE DEF upToEof
<1>16. JoinOf(BuildFrameBits(c), upToEof, interm, AllKinds) /\ BuildFrameBits(c) \in PlainBits(AllKinds)
  BY <1>6, <1>12, <1>15, Joined
<1> DEFINE built == BuildFrameBits(c)
           h == Len(head)
<1> HIDE DEF built
<1>17. /\ h \in Nat \ {0} /\ m \in Nat /\ n \in Nat
       /\ Len(upToCnt) = h + m /\ Len(upToCrc) = h + m + n /\ Len(upToDelim) = h + m + n + 1
  BY <1>1, <1>2, <1>3, <1>4, <1>5, <1>8, <1>9, <1>10, <1>11 DEF JoinOf
<1>18. /\ Len(upToAck) \in Nat /\ Len(upToAckDelim) = Len(upToAck) + 1 /\ Len(upToEof) \in Nat
       /\ Len(ack) \in Nat /\ Len(eof) \in Nat /\ Len(interm) \in Nat
  BY <1>6, <1>13, <1>14, <1>15, PlainBit DEF JoinOf
<1>19. Len(upToDelim) <= Len(upToAck) /\ Len(upToAckDelim) <= Len(upToEof) /\ Len(upToEof) <= Len(built)
  <2>1. Len(upToDelim) <= Len(upToAck)
    BY <1>13, <1>17, <1>18 DEF JoinOf
  <2>2. Len(upToAckDelim) <= Len(upToEof)
    BY <1>15, <1>18 DEF JoinOf
  <2>3. Len(upToEof) <= Len(built)
    BY <1>16, <1>18 DEF JoinOf, built
  <2> QED BY <2>1, <2>2, <2>3
<1>20. Len(built) > Len(upToDelim)
  BY <1>17, <1>18, <1>19, <1>16, PlainBit DEF built
<1>21. ASSUME NEW i \in 1 .. Len(upToDelim)
       PROVE  built[i] = upToDelim[i]
  <2>1. i \in 1 .. Len(upToAck) /\ i \in 1 .. Len(upToAckDelim) /\ i \in 1 .. Len(upToEof)
    BY <1>17, <1>18, <1>19
  <2> QED BY <2>1, <1>13, <1>14, <1>15, <1>16 DEF JoinOf, built
<1>22. \A i \in 1 .. h + m + n : built[i] = upToCrc[i]
  BY <1>11, <1>17, <1>21 DEF JoinOf
<1>23. \A i \in 1 .. h + m : built[i] = upToCnt[i]
  BY <1>10, <1>17, <1>22 DEF JoinOf
<1>24. \A i \in 1 .. h : built[i] = head[i]
  BY <1>9, <1>17, <1>23 DEF JoinOf
<1>25. built[1].val = Dominant /\ built[1].kind = "Sof" /\ \A i \in 1 .. h : built[i].kind \in HeadKinds
  BY <1>1, <1>17, <1>24
<1>26. \A i \in 1 .. m : built[h + i] = cnt[i]
  BY <1>2, <1>9, <1>17, <1>23 DEF JoinOf
<1>27. \A i \in 1 .. n : built[h + m + i] = code[i]
  BY <1>4, <1>10, <1>17, <1>22 DEF JoinOf
<1>28. built[h + m + n + 1] = delim[1]
  BY <1>5, <1>11, <1>17, <1>21 DEF JoinOf
<1>29. c.fdf # 0 => (\A i \in 1 .. 3 : built[h + i].kind = "StuffCnt") /\ built[h + 4].kind = "StuffParity"
  BY <1>2, <1>26 DEF m
<1>30. (\A i \in 1 .. n : built[h + m + i].kind = "Crc") /\ built[h + m + n + 1].kind = "CrcDelim"
  BY <1>4, <1>5, <1>27, <1>28
<1>31. First(c) = h + m
  BY DEF First, m, head
<1> QED
  BY <1>16, <1>17, <1>20, <1>25, <1>29, <1>30, <1>31 DEF Layout, built, n, head

-----------------------------------------------------------------------------
(* Edits.                                                                  *)

\* What setting bits of fields makes of a frame.
EditOf(new, frame, kinds) ==
  /\ new \in Seq(BitType) /\ SameShape(frame, new)
  /\ \A i \in 1 .. Len(frame) :
       new[i].val = IF \E kind \in kinds : i = FirstOf(frame, kind)
                    THEN IF frame[i].kind = "Srr" THEN Dominant ELSE Recessive
                    ELSE frame[i].val

\* SetFieldVal gives bits other values and leaves their fields and stuff bits.
LEMMA EditedBits ==
  ASSUME NEW frame \in Seq(BitType), NEW kinds
  PROVE  EditOf(Edit(frame, kinds), frame, kinds)
<1> DEFINE Set(i) == \E kind \in kinds : i = FirstOf(frame, kind)
           New(i) == IF Set(i)
                     THEN [frame[i] EXCEPT !.val = IF frame[i].kind = "Srr" THEN Dominant ELSE Recessive]
                     ELSE frame[i]
           new == [i \in 1 .. Len(frame) |-> New(i)]
<1>1. Edit(frame, kinds) = new /\ Len(frame) \in Nat
  BY DEF Edit
<1> HIDE DEF Set
<1>2. ASSUME NEW i \in 1 .. Len(frame)
      PROVE  /\ New(i) \in BitType /\ New(i).kind = frame[i].kind /\ New(i).stuff = frame[i].stuff
             /\ New(i).val = IF Set(i) THEN IF frame[i].kind = "Srr" THEN Dominant ELSE Recessive
                             ELSE frame[i].val
  <2>1. frame[i] \in BitType
    OBVIOUS
  <2> QED BY <2>1 DEF BitType
<1> HIDE DEF New
<1>3. new \in Seq(BitType) /\ Len(new) = Len(frame) /\ \A i \in 1 .. Len(frame) : new[i] = New(i)
  BY <1>1, <1>2
<1> HIDE DEF new
<1>4. SameShape(frame, new)
  BY <1>2, <1>3 DEF SameShape
<1>5. \A i \in 1 .. Len(frame) :
        new[i].val = IF Set(i) THEN IF frame[i].kind = "Srr" THEN Dominant ELSE Recessive
                     ELSE frame[i].val
  BY <1>2, <1>3
<1> QED BY <1>1, <1>3, <1>4, <1>5 DEF EditOf, Set

\* Where nothing is edited the frame is the same.
LEMMA EditNothing ==
  ASSUME NEW frame \in Seq(BitType)
  PROVE  Edit(frame, {}) = frame
BY DEF Edit

\* Bits without stuff bits are bits.
LEMMA PlainIsBits ==
  ASSUME NEW s \in PlainBits(AllKinds)
  PROVE  s \in Seq(BitType)
<1>1. PlainBitType(AllKinds) \subseteq BitType
  BY DEF PlainBitType, BitType
<1> QED BY <1>1 DEF PlainBits

\* A frame that has been edited has its fields where they were built.
LEMMA EditLaidOut ==
  ASSUME NEW c \in ContentType, NEW built, Layout(c, built), NEW kinds \in SUBSET EditedKinds
  PROVE  Layout(c, Edit(built, kinds)) /\ EditOf(Edit(built, kinds), built, kinds)
<1> PICK new : new = Edit(built, kinds)
  OBVIOUS
<1>1. /\ built \in PlainBits(AllKinds) /\ built[1].val = Dominant /\ built[1].kind = "Sof"
      /\ Len(UpToData(c)) \in Nat \ {0} /\ First(c) \in Nat /\ First(c) >= Len(UpToData(c))
      /\ c.fdf # 0 => First(c) = Len(UpToData(c)) + 4
      /\ Len(built) > First(c) + CrcLen(c) + 1
  BY DEF Layout, First
<1>2. built \in Seq(BitType) /\ Len(built) \in Nat
  BY <1>1, PlainIsBits
<1>3. EditOf(new, built, kinds)
  BY <1>2, EditedBits
<1>4. /\ new \in Seq(BitType) /\ Len(new) = Len(built)
      /\ \A i \in 1 .. Len(built) : new[i].kind = built[i].kind /\ new[i].stuff = built[i].stuff
  BY <1>3 DEF EditOf, SameShape
<1>5. CrcLen(c) \in Nat
  BY DEF CrcLen
<1>6. new \in PlainBits(AllKinds)
  <2>1. ASSUME NEW i \in 1 .. Len(new)
        PROVE  new[i] \in PlainBitType(AllKinds)
    <3>1. built[i].stuff = "NoStuff" /\ i \in 1 .. Len(built)
      <4>1. i \in 1 .. Len(built)
        BY <1>4
      <4>2. built \in Seq(PlainBitType(AllKinds))
        BY <1>1 DEF PlainBits
      <4>3. built[i] \in PlainBitType(AllKinds)
        BY <4>1, <4>2
      <4> QED BY <4>1, <4>3 DEF PlainBitType
    <3>2. new[i] \in BitType /\ new[i].stuff = "NoStuff"
      BY <1>4, <3>1
    <3> QED BY <3>2 DEF BitType, PlainBitType
  <2> QED BY <1>4, <2>1 DEF PlainBits
<1>7. new[1].val = Dominant /\ new[1].kind = "Sof"
  <2>1. 1 \in 1 .. Len(built)
    BY <1>1, <1>2, <1>5
  <2>2. ASSUME NEW kind \in kinds
        PROVE  1 # FirstOf(built, kind)
    <3>1. kind # "Sof"
      BY DEF EditedKinds
    <3> QED BY <1>1, <1>2, <2>1, <3>1, FoundIsOfKind
  <2> QED BY <1>1, <1>3, <1>4, <2>1, <2>2 DEF EditOf
<1>8. \A i \in 1 .. First(c) + CrcLen(c) + 1 : new[i].kind = built[i].kind
  BY <1>1, <1>2, <1>4, <1>5
<1>9. \A i \in 1 .. Len(UpToData(c)) : new[i].kind \in HeadKinds
  <2>1. \A i \in 1 .. Len(UpToData(c)) : i \in 1 .. First(c) + CrcLen(c) + 1
    BY <1>1, <1>5
  <2> QED BY <1>8, <2>1 DEF Layout
<1>10. c.fdf # 0 => /\ \A i \in 1 .. 3 : new[Len(UpToData(c)) + i].kind = "StuffCnt"
                    /\ new[Len(UpToData(c)) + 4].kind = "StuffParity"
  <2>1. c.fdf # 0 => \A i \in 1 .. 4 : Len(UpToData(c)) + i \in 1 .. First(c) + CrcLen(c) + 1
    BY <1>1, <1>5
  <2> QED BY <1>8, <2>1 DEF Layout
<1>11. \A i \in 1 .. CrcLen(c) : new[First(c) + i].kind = "Crc"
  <2>1. \A i \in 1 .. CrcLen(c) : First(c) + i \in 1 .. First(c) + CrcLen(c) + 1
    BY <1>1, <1>5
  <2> QED BY <1>8, <2>1 DEF Layout
<1>12. new[First(c) + CrcLen(c) + 1].kind = "CrcDelim"
  <2>1. First(c) + CrcLen(c) + 1 \in 1 .. First(c) + CrcLen(c) + 1
    BY <1>1, <1>5
  <2> QED BY <1>8, <2>1 DEF Layout
<1> QED BY <1>1, <1>3, <1>4, <1>6, <1>7, <1>9, <1>10, <1>11, <1>12 DEF Layout

-----------------------------------------------------------------------------
(* Where the bits that were built are, as stuff bits come and go.          *)

\* Other values only in the fields that are calculated.
SameFields(frame, other) ==
  \A i \in 1 .. Len(frame) : frame[i].kind \notin Calculated => other[i].val = frame[i].val

\* Values given to the bits of those leave each bit where it was built.
LEMMA ShapeKeepsPlaces ==
  ASSUME NEW frame \in Seq(BitType), NEW other \in Seq(BitType), SameShape(frame, other),
         SameFields(frame, other), NEW built, NEW place
  PROVE  /\ Placed(place, frame, built) => Placed(place, other, built)
         /\ \A first : PlainFrom(first, place, frame, built) => PlainFrom(first, place, other, built)
<1>1. \A i \in 1 .. Len(frame) : IsStuff(other[i]) <=> IsStuff(frame[i])
  BY DEF SameShape, IsStuff
<1>2. ASSUME Placed(place, frame, built)
      PROVE  Placed(place, other, built)
  <2>1. ASSUME NEW i \in 1 .. Len(built)
        PROVE  /\ other[place[i]].kind = built[i].kind /\ ~IsStuff(other[place[i]])
               /\ built[i].kind \notin Calculated => other[place[i]].val = built[i].val
    <3>1. /\ place[i] \in 1 .. Len(frame)
          /\ frame[place[i]].kind = built[i].kind /\ ~IsStuff(frame[place[i]])
          /\ built[i].kind \notin Calculated => frame[place[i]].val = built[i].val
      BY <1>2 DEF Placed
    <3> QED BY <1>1, <3>1 DEF SameShape, SameFields
  <2> QED BY <1>1, <1>2, <2>1 DEF SameShape, Placed
<1>3. ASSUME NEW first, PlainFrom(first, place, frame, built)
      PROVE  PlainFrom(first, place, other, built)
  BY <1>1, <1>3 DEF SameShape, PlainFrom
<1> QED BY <1>2, <1>3

\* A stuff bit is inserted at a position: the bits from there on move up.
MovedUp(place, i) == [k \in DOMAIN place |-> IF place[k] < i THEN place[k] ELSE place[k] + 1]

\* A stuff bit that is inserted moves up the bits behind it, in their order.
LEMMA PlacedMovedUp ==
  ASSUME NEW frame \in Seq(BitType), NEW built, Len(built) \in Nat \ {0},
         NEW place, Placed(place, frame, built),
         NEW i \in 2 .. Len(frame), NEW stuff \in BitType, IsStuff(stuff)
  PROVE  Placed(MovedUp(place, i), InsertBit(frame, i, stuff), built)
<1> DEFINE new == InsertBit(frame, i, stuff)
           moved == MovedUp(place, i)
           n == Len(built)
<1>1. /\ Len(frame) \in Nat /\ Len(new) = Len(frame) + 1
      /\ \A j \in 1 .. Len(frame) + 1 :
           new[j] = IF j < i THEN frame[j] ELSE IF j = i THEN stuff ELSE frame[j - 1]
  <2>1. Len(frame) \in Nat /\ i \in 1 .. Len(frame) + 1
    OBVIOUS
  <2>2. InsertedAt(new, frame, i, stuff)
    BY <2>1, Inserted
  <2> QED BY <2>1, <2>2 DEF InsertedAt
<1>2. /\ place \in [1 .. n -> 1 .. Len(frame)] /\ n \in Nat \ {0}
      /\ \A k, l \in 1 .. n : k < l => place[k] < place[l]
      /\ \A k \in 1 .. n : frame[place[k]].kind = built[k].kind /\ ~IsStuff(frame[place[k]])
      /\ \A k \in 1 .. n : built[k].kind \notin Calculated => frame[place[k]].val = built[k].val
      /\ \A j \in 1 .. Len(frame) : ~IsStuff(frame[j]) => \E k \in 1 .. n : place[k] = j
      /\ place[1] = 1 /\ place[n] = Len(frame)
  BY DEF Placed
<1>3. /\ moved \in [1 .. n -> 1 .. Len(new)]
      /\ \A k \in 1 .. n : moved[k] = IF place[k] < i THEN place[k] ELSE place[k] + 1
  BY <1>1, <1>2 DEF MovedUp
<1> HIDE DEF new, moved, n
<1>4. ASSUME NEW k \in 1 .. n, NEW l \in 1 .. n, k < l
      PROVE  moved[k] < moved[l]
  <2>1. place[k] \in Int /\ place[l] \in Int /\ place[k] < place[l] /\ i \in Int
    BY <1>2, <1>4
  <2>2. moved[k] = IF place[k] < i THEN place[k] ELSE place[k] + 1
    BY <1>3
  <2>3. moved[l] = IF place[l] < i THEN place[l] ELSE place[l] + 1
    BY <1>3
  <2> QED BY <2>1, <2>2, <2>3
<1>5. ASSUME NEW k \in 1 .. n
      PROVE  new[moved[k]] = frame[place[k]]
  <2>1. place[k] \in 1 .. Len(frame) /\ Len(frame) \in Nat /\ i \in Int
    BY <1>1, <1>2
  <2>2. moved[k] = IF place[k] < i THEN place[k] ELSE place[k] + 1
    BY <1>3
  <2>3. CASE place[k] < i
    <3>1. moved[k] \in 1 .. Len(frame) + 1 /\ moved[k] < i /\ moved[k] = place[k]
      BY <2>1, <2>2, <2>3
    <3> QED BY <1>1, <3>1
  <2>4. CASE ~(place[k] < i)
    <3>1. /\ moved[k] \in 1 .. Len(frame) + 1 /\ ~(moved[k] < i) /\ moved[k] # i
          /\ moved[k] - 1 = place[k]
      BY <2>1, <2>2, <2>4
    <3> QED BY <1>1, <3>1
  <2> QED BY <2>3, <2>4
<1>6. ASSUME NEW j \in 1 .. Len(new), ~IsStuff(new[j])
      PROVE  \E k \in 1 .. n : moved[k] = j
  <2>1. CASE j < i
    <3>1. j \in 1 .. Len(frame) /\ ~IsStuff(frame[j])
      BY <1>1, <1>6, <2>1
    <3> QED BY <1>2, <1>3, <2>1, <3>1
  <2>2. CASE j = i
    BY <1>1, <1>6, <2>2
  <2>3. CASE j > i
    <3>1. j - 1 \in 1 .. Len(frame) /\ ~IsStuff(frame[j - 1]) /\ ~(j - 1 < i)
      BY <1>1, <1>6, <2>3
    <3>2. PICK k \in 1 .. n : place[k] = j - 1
      BY <1>2, <3>1
    <3>3. moved[k] = j
      BY <1>3, <3>1, <3>2
    <3> QED BY <3>3
  <2> QED BY <1>1, <2>1, <2>2, <2>3
<1>7. moved[1] = 1 /\ moved[n] = Len(new)
  BY <1>1, <1>2, <1>3
<1> QED BY <1>2, <1>3, <1>4, <1>5, <1>6, <1>7 DEF Placed, new, moved, n

\* Behind an inserted stuff bit there is none where there was none.
LEMMA PlainMovedUp ==
  ASSUME NEW frame \in Seq(BitType), NEW built, Len(built) \in Nat \ {0},
         NEW place, Placed(place, frame, built),
         NEW first, PlainFrom(first, place, frame, built),
         NEW i \in 2 .. Len(frame), i <= first, NEW stuff \in BitType
  PROVE  PlainFrom(first + 1, MovedUp(place, i), InsertBit(frame, i, stuff), built)
<1> DEFINE new == InsertBit(frame, i, stuff)
           moved == MovedUp(place, i)
           n == Len(built)
           more == Len(frame) - n
<1>1. /\ Len(frame) \in Nat /\ Len(new) = Len(frame) + 1
      /\ \A j \in 1 .. Len(frame) + 1 :
           new[j] = IF j < i THEN frame[j] ELSE IF j = i THEN stuff ELSE frame[j - 1]
  <2>1. Len(frame) \in Nat /\ i \in 1 .. Len(frame) + 1
    OBVIOUS
  <2>2. InsertedAt(new, frame, i, stuff)
    BY <2>1, Inserted
  <2> QED BY <2>1, <2>2 DEF InsertedAt
<1>2. /\ place \in [1 .. n -> 1 .. Len(frame)] /\ n \in Nat \ {0}
      /\ \A k \in 1 .. n : moved[k] = IF place[k] < i THEN place[k] ELSE place[k] + 1
  BY DEF Placed, MovedUp
<1>3. /\ first \in 1 .. Len(frame) /\ more < first /\ more \in Int
      /\ \A j \in first .. Len(frame) : ~IsStuff(frame[j]) /\ place[j - more] = j
  BY <1>1, <1>2 DEF PlainFrom
<1>4. Len(new) - n = more + 1
  BY <1>1, <1>2
<1>5. more + n = Len(frame)
  BY <1>1, <1>2
<1> HIDE DEF new, moved, n, more
<1>6. ASSUME NEW j \in first + 1 .. Len(new)
      PROVE  ~IsStuff(new[j]) /\ moved[j - (more + 1)] = j
  <2>1. j - 1 \in first .. Len(frame) /\ ~(j < i) /\ j # i
    BY <1>1, <1>3
  <2>2. new[j] = frame[j - 1] /\ ~IsStuff(frame[j - 1]) /\ place[(j - 1) - more] = j - 1
    BY <1>1, <1>3, <2>1
  <2>3. j - (more + 1) = (j - 1) - more /\ (j - 1) - more \in 1 .. n
    BY <1>1, <1>2, <1>3, <1>5, <2>1
  <2>4. moved[(j - 1) - more] = j
    BY <1>2, <2>1, <2>2, <2>3
  <2> QED BY <2>2, <2>3, <2>4
<1>7. first + 1 \in 1 .. Len(new) /\ more + 1 < first + 1
  BY <1>1, <1>3
<1> QED BY <1>4, <1>6, <1>7 DEF PlainFrom, new, moved, n

\* A later position will do.
LEMMA PlainFromOn ==
  ASSUME NEW frame \in Seq(BitType), NEW built, NEW place,
         NEW first, PlainFrom(first, place, frame, built), NEW later \in first .. Len(frame),
         Len(built) \in Nat
  PROVE  PlainFrom(later, place, frame, built)
BY DEF PlainFrom

\* From there on the bits are the last ones that were built.
LEMMA PlainKind ==
  ASSUME NEW frame \in Seq(BitType), NEW built, Len(built) \in Nat \ {0},
         NEW place, Placed(place, frame, built),
         NEW first, PlainFrom(first, place, frame, built), NEW j \in first .. Len(frame)
  PROVE  LET i == j - (Len(frame) - Len(built))
         IN  i \in 1 .. Len(built) /\ place[i] = j /\ frame[j].kind = built[i].kind /\ ~IsStuff(frame[j])
<1> DEFINE i == j - (Len(frame) - Len(built))
<1>1. i \in 1 .. Len(built)
  BY DEF PlainFrom
<1>2. place[i] = j /\ ~IsStuff(frame[j])
  BY DEF PlainFrom
<1>3. frame[j].kind = built[i].kind
  BY <1>1, <1>2 DEF Placed
<1> QED BY <1>1, <1>2, <1>3

\* The length of the CRC tells CAN from CAN FD.
LEMMA CanOrFd ==
  ASSUME content \in ContentType
  PROVE  /\ IsCan20 <=> content.fdf = 0
         /\ ~IsCan20 => content.fdf = 1
         /\ GoldenCrcLen \in {15, 17, 21} /\ (IsCan20 => GoldenCrcLen = 15)
BY DEF ContentType, IsCan20, GoldenCrcLen, CrcLen

\* What each step starts from.
LEMMA BuiltFacts ==
  ASSUME TypeInv
  PROVE  Layout(content, Built) /\ Len(Built) \in Nat \ {0}
<1>1. Layout(content, Built)
  BY BuiltAsLaidOut, EditLaidOut DEF TypeInv, Built
<1>2. Len(Built) \in Nat \ {0}
  <2>1. Built \in PlainBits(AllKinds)
    BY <1>1 DEF Layout
  <2>2. Len(Built) \in Nat
    BY <2>1, PlainBit
  <2>3. GoldenCrcLen \in Nat
    BY CanOrFd DEF TypeInv
  <2>4. First(content) \in Nat
    BY <1>1 DEF Layout, First
  <2> QED BY <1>1, <2>2, <2>3, <2>4 DEF Layout, GoldenCrcLen
<1> QED BY <1>1, <1>2

\* Where the stuffing loop is among the bits that were built.
LEMMA WhereStuffing ==
  ASSUME TypeInv, NEW place, Placed(place, bits, Built), PlainFrom(at, place, bits, Built),
         NoneBefore(at, LastKinds, bits)
  PROVE  LET i == at - (Len(bits) - Len(Built))
             head == Len(UpToData(content))
         IN  /\ at < Len(bits)
             /\ ~IsCan20 => i <= head + 1 /\ (bits[at].kind \in LastKinds => i = head + 1)
             /\ IsCan20 => i <= head + 16 /\ (bits[at].kind \in LastKinds => i = head + 16)
<1> DEFINE i == at - (Len(bits) - Len(Built))
           head == Len(UpToData(content))
           n == Len(Built)
<1>1. Layout(content, Built) /\ n \in Nat \ {0}
  BY BuiltFacts
<1>2. bits \in Seq(BitType) /\ Len(bits) \in Nat
  BY DEF TypeInv
<1>3. /\ place \in [1 .. n -> 1 .. Len(bits)]
      /\ \A k, l \in 1 .. n : k < l => place[k] < place[l]
      /\ \A k \in 1 .. n : bits[place[k]].kind = Built[k].kind
      /\ place[n] = Len(bits)
  BY DEF Placed
<1>4. at \in 1 .. Len(bits)
  BY DEF PlainFrom
<1>5. i \in 1 .. n /\ place[i] = at /\ bits[at].kind = Built[i].kind
  BY <1>1, <1>2, <1>4, PlainKind
<1>6. head \in Nat \ {0} /\ \A k \in 1 .. head : Built[k].kind \in HeadKinds
  BY <1>1 DEF Layout
<1> HIDE DEF i, n, head
<1>7. ASSUME NEW k \in 1 .. n, Built[k].kind \in LastKinds
      PROVE  i <= k
  <2>1. bits[place[k]].kind \in LastKinds
    BY <1>3, <1>7
  <2>2. ASSUME place[k] < at
        PROVE  FALSE
    <3>1. place[k] \in 1 .. at - 1
      BY <1>3, <1>4, <2>2
    <3> QED BY <2>1, <3>1 DEF NoneBefore
  <2>3. CASE k < i
    BY <1>3, <1>4, <1>5, <2>2, <2>3
  <2> QED BY <1>5, <2>3
<1>8. ASSUME NEW k \in 1 .. head
      PROVE  Built[k].kind \notin LastKinds
  BY <1>6, <1>8 DEF LastKinds, EndKinds, HeadKinds
<1>9. ASSUME i < n
      PROVE  at < Len(bits)
  BY <1>3, <1>5, <1>9, <1>1
<1>10. CASE ~IsCan20
  <2>1. content.fdf # 0
    BY <1>10, CanOrFd DEF TypeInv
  <2>2. Built[head + 1].kind = "StuffCnt"
    BY <1>1, <2>1, <1>6 DEF Layout, head
  <2>3. First(content) = head + 4
    BY <2>1 DEF First, head
  <2>4. CrcLen(content) \in Nat
    BY CanOrFd DEF TypeInv, GoldenCrcLen
  <2>5. head + 1 < n
    BY <1>1, <1>6, <2>3, <2>4 DEF Layout, n
  <2>6. i <= head + 1
    BY <1>1, <1>6, <1>7, <1>10, <2>2, <2>5 DEF LastKinds
  <2>7. ASSUME bits[at].kind \in LastKinds
        PROVE  i = head + 1
    BY <1>5, <1>6, <1>8, <2>6, <2>7
  <2> QED BY <1>1, <1>6, <1>9, <1>5, <1>10, <2>5, <2>6, <2>7 DEF i, head, n
<1>11. CASE IsCan20
  <2>1. content.fdf = 0 /\ CrcLen(content) = 15
    BY <1>11, CanOrFd DEF TypeInv, GoldenCrcLen
  <2>2. First(content) = head
    BY <2>1, <1>6 DEF First, head
  <2>3. /\ \A k \in 1 .. 15 : Built[head + k].kind = "Crc"
        /\ Built[head + 16].kind = "CrcDelim" /\ n > head + 16
    <3>1. head + 15 + 1 = head + 16
      BY <1>6
    <3> QED BY <1>1, <2>1, <2>2, <3>1 DEF Layout, n
  <2>4. i <= head + 16
    BY <1>1, <1>6, <1>7, <1>11, <2>3 DEF LastKinds, EndKinds
  <2>5. ASSUME bits[at].kind \in LastKinds
        PROVE  i = head + 16
    <3>1. ~(i <= head)
      BY <1>5, <1>8, <2>5
    <3>2. ASSUME i < head + 16
          PROVE  Built[i].kind = "Crc"
      <4>1. i - head \in 1 .. 15 /\ head + (i - head) = i
        BY <1>5, <1>6, <3>1, <3>2
      <4> QED BY <2>3, <4>1
    <3> QED BY <1>5, <1>6, <1>11, <2>4, <2>5, <3>2 DEF LastKinds, EndKinds
  <2> QED BY <1>1, <1>6, <1>9, <1>5, <1>11, <2>3, <2>4, <2>5 DEF i, head, n
<1> QED BY <1>10, <1>11

-----------------------------------------------------------------------------
(* Regular stuffing.                                                       *)

\* While the golden frame stays, and no field is edited, so does what depends on them alone.
LEMMA SameContent ==
  ASSUME UNCHANGED <<content, edited>>
  PROVE  /\ Built' = Built /\ IsCan20' = IsCan20 /\ LastKinds' = LastKinds
         /\ GoldenCrcLen' = GoldenCrcLen /\ First(content)' = First(content)
BY DEF Built, IsCan20, LastKinds, GoldenCrcLen, EndKinds, First

\* Each bit of a frame has a value and a kind.
LEMMA BitValues ==
  ASSUME NEW frame \in Seq(BitType), NEW i \in 1 .. Len(frame)
  PROVE  /\ frame[i] \in BitType /\ frame[i].val \in {Dominant, Recessive}
         /\ frame[i].kind \in AllKinds
<1>1. frame[i] \in BitType
  OBVIOUS
<1> QED BY <1>1 DEF BitType

\* The bit the loop is at is not expected to be a stuff bit: there have not been five
\* equal bits, or one of them would have been followed by one.
LEMMA NoStuffAt ==
  ASSUME TypeInv, RunOfEqualBits, same # 5
  PROVE  ~FiveEqual(at, bits)
<1> SUFFICES ASSUME FiveEqual(at, bits) PROVE FALSE
  OBVIOUS
<1>1. at \in Nat /\ at >= 6 /\ \A j \in at - 5 .. at - 2 : bits[j].val = bits[at - 1].val
  BY DEF FiveEqual, TypeInv
<1>2. same \in 1 .. 4 /\ bits[at - 1].val = prev
  BY <1>1 DEF RunOfEqualBits
<1>3. bits[at - same - 1].val # prev
  BY <1>1, <1>2 DEF RunOfEqualBits
<1>4. at - same - 1 \in at - 5 .. at - 2
  BY <1>1, <1>2
<1> QED BY <1>1, <1>2, <1>3, <1>4

\* InsertNormalStuffBits is at a bit that was built, behind fewer than five equal ones.
LEMMA StuffPhase ==
  ASSUME TypeInv, NEW place, Placed(place, bits, Built), PhaseInv(place), Stuffing
  PROVE  /\ NormalStuffInv(place) /\ RunOfEqualBits
         /\ at \in 2 .. Len(bits) - 1 /\ Len(bits) \in Nat
         /\ bits[at].kind \notin LastKinds /\ ~IsStuff(bits[at])
         /\ same # 5 /\ ~FiveEqual(at, bits)
         /\ bits[at].val \in {Dominant, Recessive}
<1>1. NormalStuffInv(place) /\ RunOfEqualBits
  BY DEF PhaseInv, Stuffing
<1>2. bits \in Seq(BitType) /\ Len(bits) \in Nat /\ at \in Nat
  BY DEF TypeInv
<1>3. PlainFrom(at, place, bits, Built) /\ NoneBefore(at, LastKinds, bits) /\ at >= 2
  BY <1>1 DEF NormalStuffInv, StuffedInOrder
<1>4. at < Len(bits)
  BY <1>3, WhereStuffing
<1>5. ~IsStuff(bits[at])
  BY <1>2, <1>3, <1>4 DEF PlainFrom
<1>6. bits[at].kind \notin LastKinds
  <2>1. bits[at].kind \notin EndKinds
    BY DEF Stuffing
  <2>2. CASE IsCan20
    BY <2>1, <2>2 DEF LastKinds
  <2>3. CASE ~IsCan20
    <3>1. SUFFICES ASSUME bits[at].kind \in LastKinds PROVE FALSE
      OBVIOUS
    <3>2. at - (Len(bits) - Len(Built)) = Len(UpToData(content)) + 1
      BY <1>3, <2>3, <3>1, WhereStuffing
    <3>3. bits[at].kind = Built[Len(UpToData(content)) + 1].kind
      BY <1>2, <1>3, <1>4, <3>2, PlainKind, BuiltFacts
    <3>4. content.fdf # 0
      BY <2>3, CanOrFd DEF TypeInv
    <3>5. Built[Len(UpToData(content)) + 1].kind = "StuffCnt"
      BY <3>4, BuiltFacts DEF Layout
    <3> QED BY <2>1, <3>3, <3>5 DEF EndKinds
  <2> QED BY <2>2, <2>3
<1>7. same # 5
  BY <1>1 DEF Stuffing, RunOfEqualBits, EndKinds
<1>8. ~FiveEqual(at, bits)
  BY <1>1, <1>7, NoStuffAt
<1>9. bits[at].val \in {Dominant, Recessive}
  BY <1>2, <1>3, <1>4, BitValues
<1> QED BY <1>1, <1>2, <1>3, <1>4, <1>5, <1>6, <1>7, <1>8, <1>9

\* A bit that InsertNormalStuffBits passes needs no stuff bit behind it.
LEMMA PassBitStep ==
  ASSUME FrameInv, PassBit
  PROVE  FrameInv'
<1>1. TypeInv /\ Stuffing
  BY DEF FrameInv, PassBit
<1>2. PICK place : Placed(place, bits, Built) /\ PhaseInv(place)
  BY DEF FrameInv
<1>3. /\ NormalStuffInv(place) /\ RunOfEqualBits
      /\ at \in 2 .. Len(bits) - 1 /\ Len(bits) \in Nat
      /\ bits[at].kind \notin LastKinds /\ ~IsStuff(bits[at])
      /\ same # 5 /\ ~FiveEqual(at, bits)
      /\ bits[at].val \in {Dominant, Recessive}
  BY <1>1, <1>2, StuffPhase
<1>4. /\ ~StuffDue /\ same' = SameBits /\ prev' = bits[at].val /\ at' = at + 1
      /\ bits' = bits /\ pc' = pc /\ stuff_cnt' = stuff_cnt /\ crc' = crc
      /\ content' = content /\ edited' = edited
      /\ updated' = updated /\ flipped' = flipped /\ pc = "stuff"
  BY DEF PassBit, testVars, Stuffing
<1>5. /\ Built' = Built /\ IsCan20' = IsCan20 /\ LastKinds' = LastKinds /\ GoldenCrcLen' = GoldenCrcLen
  BY <1>4, SameContent
<1>6. same \in 1 .. 4 /\ same' \in 1 .. 5
  BY <1>3, <1>4 DEF RunOfEqualBits, SameBits
<1>7. TypeInv'
  BY <1>1, <1>3, <1>4, <1>5, <1>6 DEF TypeInv
<1>8. Placed(place, bits, Built)'
  BY <1>2, <1>4, <1>5
<1>9. PlainFrom(at, place, bits, Built) /\ StuffedInOrder(at, bits)
  BY <1>3 DEF NormalStuffInv
<1>10. PlainFrom(at, place, bits, Built)'
  <2>1. PlainFrom(at + 1, place, bits, Built)
    BY <1>1, <1>3, <1>9, PlainFromOn, BuiltFacts DEF TypeInv
  <2> QED BY <2>1, <1>4, <1>5
<1>11. StuffedInOrder(at, bits)'
  <2>1. StuffedBefore(at + 1, bits)
    <3>1. StuffedBefore(at, bits)
      BY <1>9 DEF StuffedInOrder
    <3> QED BY <3>1, <1>3 DEF StuffedBefore
  <2>2. NoneBefore(at + 1, LastKinds, bits)
    BY <1>9, <1>3 DEF StuffedInOrder, NoneBefore
  <2>3. StuffBitsBefore(at + 1, bits) = StuffBitsBefore(at, bits)
    BY <1>3 DEF StuffBitsBefore
  <2>4. stuff_cnt = Cardinality(StuffBitsBefore(at, bits)) % 8
    BY <1>9 DEF StuffedInOrder
  <2>5. StuffedInOrder(at + 1, bits)
    BY <2>1, <2>2, <2>3, <2>4 DEF StuffedInOrder
  <2> QED BY <2>1, <2>2, <2>3, <2>4, <1>4, <1>5 DEF StuffedInOrder
<1>12. NormalStuffInv(place)'
  BY <1>3, <1>4, <1>10, <1>11 DEF NormalStuffInv
<1>13. RunOfEqualBits'
  <2>1. CASE bits[at].val = prev
    <3>1. same' = same + 1
      BY <2>1, <1>4 DEF SameBits
    <3>2. same' = 5 => bits'[at'].kind = "StuffCnt"
      BY <3>1, <1>4 DEF StuffDue, SameBits, StuffsAfter
    <3>3. \A i \in at' - same' .. at' - 1 : bits'[i].val = prev'
      BY <2>1, <3>1, <1>3, <1>4, <1>6 DEF RunOfEqualBits
    <3>4. at' - same' > 1 => bits'[at' - same' - 1].val # prev'
      BY <2>1, <3>1, <1>3, <1>4, <1>6 DEF RunOfEqualBits
    <3>5. same' < at'
      BY <3>1, <1>3, <1>4, <1>6 DEF RunOfEqualBits
    <3> QED BY <3>2, <3>3, <3>4, <3>5, <1>6 DEF RunOfEqualBits
  <2>2. CASE bits[at].val # prev
    <3>1. same' = 1
      BY <2>2, <1>4 DEF SameBits
    <3>2. bits[at - 1].val = prev
      BY <1>3, <1>6 DEF RunOfEqualBits
    <3>3. \A i \in at' - same' .. at' - 1 : bits'[i].val = prev'
      BY <3>1, <1>3, <1>4
    <3>4. at' - same' > 1 => bits'[at' - same' - 1].val # prev'
      BY <2>2, <3>1, <3>2, <1>3, <1>4
    <3> QED BY <3>1, <3>3, <3>4, <1>3, <1>4 DEF RunOfEqualBits
  <2> QED BY <2>1, <2>2
<1>14. PhaseInv(place)'
  BY <1>4, <1>12, <1>13 DEF PhaseInv
<1> QED BY <1>7, <1>8, <1>14 DEF FrameInv

\* Whether five bits before a position are equal depends on the bits before it.
LEMMA SameFive ==
  ASSUME NEW frame, NEW other, NEW i \in Nat, \A j \in 1 .. i - 1 : other[j].val = frame[j].val
  PROVE  FiveEqual(i, other) <=> FiveEqual(i, frame)
<1>1. ASSUME i >= 6
      PROVE  other[i - 1].val = frame[i - 1].val /\ \A j \in i - 5 .. i - 2 : other[j].val = frame[j].val
  BY <1>1
<1> QED BY <1>1 DEF FiveEqual

\* stuff_cnt_ counts the stuff bit that is inserted.
LEMMA CountedStuffBit ==
  ASSUME NEW frame, NEW other, NEW i \in Nat, ~IsStuff(other[i]), IsStuff(other[i + 1]),
         \A j \in 1 .. i - 1 : other[j] = frame[j],
         i >= 1
  PROVE  Cardinality(StuffBitsBefore(i + 2, other)) % 8
           = ((Cardinality(StuffBitsBefore(i, frame)) % 8) + 1) % 8
<1> DEFINE S == StuffBitsBefore(i, frame)
<1>1. StuffBitsBefore(i + 2, other) = S \cup {i + 1}
  BY DEF StuffBitsBefore
<1>2. IsFiniteSet(S) /\ i + 1 \notin S
  <2>1. S \subseteq 1 .. i - 1
    BY DEF StuffBitsBefore
  <2>2. IsFiniteSet(1 .. i - 1)
    BY FS_Interval
  <2> QED BY <2>1, <2>2, FS_Subset
<1> HIDE DEF S
<1>3. Cardinality(S \cup {i + 1}) = Cardinality(S) + 1 /\ Cardinality(S) \in Nat
  BY <1>2, FS_AddElement, FS_CardinalityType
<1>4. \A c \in Nat : (c + 1) % 8 = ((c % 8) + 1) % 8
  OBVIOUS
<1> QED BY <1>1, <1>3, <1>4 DEF S

\* The stuff bit InsertNormalStuffBits inserts follows five equal bits, and is counted.
LEMMA InsertStuffBitStep ==
  ASSUME FrameInv, InsertStuffBit
  PROVE  FrameInv'
<1> DEFINE stuff == Bit(bits[at].kind, Opposite(bits[at].val), "Normal")
<1>1. TypeInv /\ Stuffing
  BY DEF FrameInv, InsertStuffBit
<1>2. PICK place : Placed(place, bits, Built) /\ PhaseInv(place)
  BY DEF FrameInv
<1> PICK moved : moved = MovedUp(place, at + 1)
  OBVIOUS
<1>3. /\ NormalStuffInv(place) /\ RunOfEqualBits
      /\ at \in 2 .. Len(bits) - 1 /\ Len(bits) \in Nat
      /\ bits[at].kind \notin LastKinds /\ ~IsStuff(bits[at])
      /\ same # 5 /\ ~FiveEqual(at, bits)
      /\ bits[at].val \in {Dominant, Recessive}
  BY <1>1, <1>2, StuffPhase
<1>4. /\ SameBits = 5 /\ bits[at + 1].kind # "StuffCnt"
      /\ same' = 1 /\ prev' = stuff.val /\ at' = at + 2
      /\ bits' = InsertBit(bits, at + 1, stuff) /\ pc' = pc /\ stuff_cnt' = (stuff_cnt + 1) % 8
      /\ crc' = crc /\ content' = content /\ edited' = edited
      /\ updated' = updated /\ flipped' = flipped /\ pc = "stuff"
  BY DEF InsertStuffBit, testVars, Stuffing, StuffDue, StuffsAfter, RunAfterStuff
<1>5. /\ Built' = Built /\ IsCan20' = IsCan20 /\ LastKinds' = LastKinds /\ GoldenCrcLen' = GoldenCrcLen
  BY <1>4, SameContent
<1>6. same = 4 /\ bits[at].val = prev /\ same < at
  BY <1>3, <1>4 DEF RunOfEqualBits, SameBits
<1>7. /\ stuff \in BitType /\ IsStuff(stuff) /\ stuff.kind = bits[at].kind
      /\ stuff.val # bits[at].val /\ stuff.val \in {Dominant, Recessive}
  <2>1. bits[at].kind \in AllKinds
    BY <1>1, <1>3, BitValues DEF TypeInv
  <2> QED BY <2>1, <1>3 DEF Bit, BitType, IsStuff, Opposite, Dominant, Recessive
<1> HIDE DEF stuff
<1>8. /\ bits' \in Seq(BitType) /\ Len(bits') = Len(bits) + 1
      /\ \A j \in 1 .. Len(bits) + 1 :
           bits'[j] = IF j < at + 1 THEN bits[j] ELSE IF j = at + 1 THEN stuff ELSE bits[j - 1]
  <2>1. bits \in Seq(BitType) /\ at + 1 \in 1 .. Len(bits) + 1
    BY <1>1, <1>3 DEF TypeInv
  <2>2. InsertedAt(bits', bits, at + 1, stuff)
    BY <1>4, <1>7, <2>1, Inserted
  <2> QED BY <2>2 DEF InsertedAt
<1>9. TypeInv'
  <2>1. bits'[1] = bits[1]
    BY <1>3, <1>8
  <2>2. bits'[1].val = Dominant
    BY <1>1, <2>1 DEF TypeInv
  <2> QED BY <1>1, <1>3, <1>4, <1>5, <1>7, <1>8, <2>2 DEF TypeInv
<1>10. Placed(moved, bits, Built)'
  <2>1. Placed(moved, InsertBit(bits, at + 1, stuff), Built)
    BY <1>1, <1>2, <1>3, <1>7, PlacedMovedUp, BuiltFacts DEF TypeInv
  <2> QED BY <2>1, <1>4, <1>5
<1>11. PlainFrom(at, place, bits, Built) /\ StuffedInOrder(at, bits)
  BY <1>3 DEF NormalStuffInv
<1>12. PlainFrom(at', moved, bits', Built')
  <2>1. PlainFrom(at + 1, place, bits, Built)
    BY <1>1, <1>3, <1>11, PlainFromOn, BuiltFacts DEF TypeInv
  <2>2. PlainFrom((at + 1) + 1, moved, InsertBit(bits, at + 1, stuff), Built)
    BY <2>1, <1>1, <1>2, <1>3, <1>7, PlainMovedUp, BuiltFacts DEF TypeInv
  <2>3. (at + 1) + 1 = at + 2
    BY <1>3
  <2> QED BY <2>2, <2>3, <1>4, <1>5
<1>13. StuffedBefore(at + 2, bits')
  <2>1. ASSUME NEW i \in 1 .. at - 1
        PROVE  /\ IsStuff(bits'[i]) <=> FiveEqual(i, bits')
               /\ IsStuff(bits'[i]) => /\ bits'[i].val # bits'[i - 1].val
                                       /\ bits'[i].kind = bits'[i - 1].kind
    <3>1. /\ IsStuff(bits[i]) <=> FiveEqual(i, bits)
          /\ IsStuff(bits[i]) => /\ bits[i].val # bits[i - 1].val
                                 /\ bits[i].kind = bits[i - 1].kind
      BY <1>11 DEF StuffedInOrder, StuffedBefore
    <3>2. FiveEqual(i, bits) <=> FiveEqual(i, bits')
      BY <1>3, <1>8, SameFive
    <3>3. FiveEqual(i, bits) => i >= 6
      BY DEF FiveEqual
    <3> QED BY <1>3, <1>8, <3>1, <3>2, <3>3
  <2>2. ~IsStuff(bits'[at]) /\ ~FiveEqual(at, bits')
    <3>1. FiveEqual(at, bits') <=> FiveEqual(at, bits)
      BY <1>3, <1>8, SameFive
    <3> QED BY <3>1, <1>3, <1>8
  <2>3. /\ IsStuff(bits'[at + 1]) /\ FiveEqual(at + 1, bits')
        /\ bits'[at + 1].val # bits'[at].val /\ bits'[at + 1].kind = bits'[at].kind
    <3>1. \A j \in at - 4 .. at : bits'[j].val = prev
      BY <1>3, <1>6, <1>8 DEF RunOfEqualBits
    <3>2. FiveEqual(at + 1, bits')
      BY <3>1, <1>3, <1>6 DEF FiveEqual
    <3> QED BY <3>2, <1>3, <1>7, <1>8
  <2>4. (at + 1) - 1 = at
    BY <1>3
  <2> QED BY <1>3, <2>1, <2>2, <2>3, <2>4 DEF StuffedBefore
<1>14. StuffedInOrder(at, bits)'
  <2>1. NoneBefore(at + 2, LastKinds, bits')
    <3>1. NoneBefore(at, LastKinds, bits)
      BY <1>11 DEF StuffedInOrder
    <3> QED BY <3>1, <1>3, <1>7, <1>8 DEF NoneBefore
  <2>2. stuff_cnt' = Cardinality(StuffBitsBefore(at + 2, bits')) % 8
    <3>1. stuff_cnt = Cardinality(StuffBitsBefore(at, bits)) % 8
      BY <1>11 DEF StuffedInOrder
    <3>2. ~IsStuff(bits'[at]) /\ IsStuff(bits'[at + 1]) /\ \A j \in 1 .. at - 1 : bits'[j] = bits[j]
      BY <1>3, <1>7, <1>8
    <3>3. at \in Nat /\ at >= 1
      BY <1>3
    <3>4. Cardinality(StuffBitsBefore(at + 2, bits')) % 8
            = ((Cardinality(StuffBitsBefore(at, bits)) % 8) + 1) % 8
      BY <3>2, <3>3, CountedStuffBit
    <3> QED BY <3>1, <3>4, <1>4
  <2> QED BY <2>1, <2>2, <1>4, <1>5, <1>13 DEF StuffedInOrder
<1>15. NormalStuffInv(moved)'
  <2>1. bits'[at'].kind # "StuffCnt"
    BY <1>3, <1>4, <1>8
  <2> QED BY <2>1, <1>3, <1>4, <1>12, <1>14 DEF NormalStuffInv
<1>16. RunOfEqualBits'
  <2>1. bits'[at + 1] = stuff /\ bits'[at] = bits[at]
    <3>1. at \in 1 .. Len(bits) + 1 /\ at + 1 \in 1 .. Len(bits) + 1 /\ ~(at + 1 < at + 1)
      BY <1>3
    <3> QED BY <1>3, <1>8, <3>1
  <2>2. bits'[at + 1].val = prev' /\ bits'[at].val # prev'
    BY <1>4, <1>7, <2>1
  <2> QED BY <2>2, <1>3, <1>4 DEF RunOfEqualBits
<1>17. PhaseInv(moved)'
  BY <1>4, <1>15, <1>16 DEF PhaseInv
<1> QED BY <1>9, <1>10, <1>17 DEF FrameInv

\* A CAN frame is stuffed up to the CRC delimiter.
LEMMA EndNormalStuffStep ==
  ASSUME FrameInv, EndNormalStuff
  PROVE  FrameInv'
<1>1. TypeInv
  BY DEF FrameInv
<1>2. PICK place : Placed(place, bits, Built) /\ PhaseInv(place)
  BY DEF FrameInv
<1>3. /\ IsCan20 /\ bits[at].kind \in EndKinds /\ pc = "stuff" /\ pc' = "done"
      /\ content' = content /\ edited' = edited
      /\ updated' = updated /\ flipped' = flipped /\ bits' = bits /\ at' = at /\ same' = same
      /\ prev' = prev /\ stuff_cnt' = stuff_cnt /\ crc' = crc
  BY DEF EndNormalStuff, testVars
<1>4. Built' = Built /\ IsCan20' = IsCan20 /\ LastKinds' = LastKinds /\ GoldenCrcLen' = GoldenCrcLen
  BY <1>3, SameContent
<1>5. TypeInv'
  BY <1>1, <1>3, <1>4 DEF TypeInv
<1>6. Placed(place, bits, Built)'
  BY <1>2, <1>3, <1>4
<1>7. NormalStuffInv(place)
  BY <1>2, <1>3 DEF PhaseInv
<1>8. NormalStuffInv(place)'
  <2>1. PlainFrom(at, place, bits, Built)' <=> PlainFrom(at, place, bits, Built)
    BY <1>3, <1>4
  <2>2. StuffedInOrder(at, bits)' <=> StuffedInOrder(at, bits)
    BY <1>3, <1>4 DEF StuffedInOrder
  <2> QED BY <2>1, <2>2, <1>3, <1>7 DEF NormalStuffInv
<1>9. bits[at].kind = "CrcDelim"
  <2> DEFINE head == Len(UpToData(content))
  <2>1. PlainFrom(at, place, bits, Built) /\ NoneBefore(at, LastKinds, bits)
    BY <1>7 DEF NormalStuffInv, StuffedInOrder
  <2>2. at \in at .. Len(bits) /\ bits \in Seq(BitType)
    BY <1>1, <2>1 DEF PlainFrom, TypeInv
  <2>3. at - (Len(bits) - Len(Built)) = head + 16
    BY <1>1, <1>2, <1>3, <2>1, WhereStuffing DEF LastKinds
  <2>4. bits[at].kind = Built[head + 16].kind
    BY <1>1, <1>2, <2>1, <2>2, <2>3, PlainKind, BuiltFacts
  <2>5. head \in Nat /\ Built[First(content) + CrcLen(content) + 1].kind = "CrcDelim"
    BY <1>1, BuiltFacts DEF Layout
  <2>6. First(content) = head /\ CrcLen(content) = 15
    BY <1>1, <1>3, <2>5, CanOrFd DEF TypeInv, First, GoldenCrcLen
  <2> HIDE DEF head
  <2>7. head + 15 + 1 = head + 16
    BY <2>5
  <2> QED BY <2>4, <2>5, <2>6, <2>7
<1>10. PhaseInv(place)'
  BY <1>3, <1>4, <1>8, <1>9 DEF PhaseInv, StuffInv
<1> QED BY <1>5, <1>6, <1>10 DEF FrameInv

-----------------------------------------------------------------------------
(* The stuff count.                                                        *)

\* The code of a stuff count is three bits, and its parity is one.
LEMMA CodeIsBits ==
  ASSUME NEW cnt \in 0 .. 7
  PROVE  /\ StuffCntEncoded(cnt) \in [1 .. 3 -> {Dominant, Recessive}]
         /\ Len(StuffCntEncoded(cnt)) = 3
         /\ EvenParity(StuffCntEncoded(cnt)) \in {Dominant, Recessive}
<1> DEFINE a == cnt \div 4
           b == Xor(cnt \div 4, (cnt \div 2) % 2)
           c == Xor((cnt \div 2) % 2, cnt % 2)
<1>1. a \in {0, 1} /\ b \in {0, 1} /\ c \in {0, 1}
  BY DEF Xor
<1> HIDE DEF a, b, c
<1>2. StuffCntEncoded(cnt) = <<a, b, c>>
  BY DEF StuffCntEncoded, a, b, c
<1>3. (a + b + c) % 2 \in {0, 1}
  BY <1>1
<1> QED BY <1>1, <1>2, <1>3 DEF EvenParity, Dominant, Recessive

\* What the frame is, bit by bit, after SetStuffCnt, SetStuffParity and
\* InsertStuffToStuffCnt: the count is set, two stuff bits are inserted.
CountSet(set, frame, end, cnt) ==
  /\ SameShape(frame, set)
  /\ \A j \in 1 .. end - 1 : set[j].val = frame[j].val
  /\ \A j \in end + 4 .. Len(frame) : set[j].val = frame[j].val
  /\ \A i \in 0 .. 2 : set[end + i].val = StuffCntEncoded(cnt)[i + 1]
  /\ set[end + 3].val = EvenParity(StuffCntEncoded(cnt))

\* The two fixed stuff bits are inserted around it.
WithStuffAround(new, set, end, first, second) ==
  /\ first = Bit("StuffCnt", Opposite(set[end - 1].val), "Fixed")
  /\ second = Bit("StuffParity", Opposite(set[end + 3].val), "Fixed")
  /\ new = InsertBit(InsertBit(set, end + 4, second), end, first)

\* SetStuffCnt, SetStuffParity and InsertStuffToStuffCnt write the count, its parity and a
\* fixed stuff bit on either side, and move up what follows.
LEMMA WrittenCount ==
  ASSUME NEW frame \in Seq(BitType), NEW end \in 2 .. Len(frame), end + 4 <= Len(frame),
         NEW cnt \in 0 .. 7,
         \A i \in 0 .. 2 : frame[end + i].kind = "StuffCnt",
         frame[end + 3].kind = "StuffParity", frame[end + 4].kind = "Crc",
         NoneBefore(end, {"StuffCnt", "StuffParity", "Crc"}, frame)
  PROVE  \E set \in Seq(BitType), first \in BitType, second \in BitType :
           /\ CountSet(set, frame, end, cnt)
           /\ WithStuffAround(UpdateStuffCnt([bits |-> frame, cnt |-> cnt]), set, end, first, second)
<1> DEFINE code == StuffCntEncoded(cnt)
           over == Overwrite(frame, end, code)
           set == Overwrite(over, end + 3, <<EvenParity(code)>>)
           first == Bit("StuffCnt", Opposite(set[end - 1].val), "Fixed")
           second == Bit("StuffParity", Opposite(set[end + 3].val), "Fixed")
<1>1. /\ code \in [1 .. 3 -> {Dominant, Recessive}] /\ Len(code) = 3
      /\ EvenParity(code) \in {Dominant, Recessive}
  BY CodeIsBits
<1>2. Len(frame) \in Nat
  OBVIOUS
<1> HIDE DEF code
<1>3. NoneBefore(end, {"StuffCnt"}, frame) /\ FirstOf(frame, "StuffCnt") = end
  <2>1. frame[end + 0].kind = "StuffCnt" /\ end + 0 = end
    OBVIOUS
  <2>2. NoneBefore(end, {"StuffCnt"}, frame)
    BY DEF NoneBefore
  <2> QED BY <2>1, <2>2, FoundFirst
<1>4. /\ over \in Seq(BitType) /\ SameShape(frame, over)
      /\ \A j \in 1 .. Len(frame) :
           over[j].val = IF j \in end .. end + 2 THEN code[j - end + 1] ELSE frame[j].val
  <2>1. end \in Nat /\ 3 \in Nat /\ end + 3 - 1 = end + 2
    OBVIOUS
  <2>2. WrittenOver(over, frame, end, 3, code)
    BY <1>1, <2>1, Overwritten
  <2> QED BY <2>1, <2>2 DEF WrittenOver
<1> HIDE DEF over
<1>5. FirstOf(over, "StuffParity") = end + 3
  <2>1. over[end + 3].kind = "StuffParity" /\ end + 3 \in 1 .. Len(over)
    BY <1>4 DEF SameShape
  <2>2. ASSUME NEW i \in 1 .. (end + 3) - 1
        PROVE  over[i].kind # "StuffParity"
    <3>1. over[i].kind = frame[i].kind
      BY <1>2, <1>4 DEF SameShape
    <3>2. CASE i < end
      BY <3>1, <3>2 DEF NoneBefore
    <3>3. CASE ~(i < end)
      <4>1. i - end \in 0 .. 2 /\ end + (i - end) = i
        BY <3>3
      <4> QED BY <3>1, <4>1
    <3> QED BY <3>2, <3>3
  <2>3. NoneBefore(end + 3, {"StuffParity"}, over)
    BY <2>2 DEF NoneBefore
  <2> QED BY <1>4, <2>1, <2>3, FoundFirst
<1>6. /\ set \in Seq(BitType) /\ SameShape(over, set)
      /\ \A j \in 1 .. Len(over) :
           set[j].val = IF j = end + 3 THEN EvenParity(code) ELSE over[j].val
  <2> DEFINE p == <<EvenParity(code)>>
  <2>1. p \in [1 .. 1 -> {Dominant, Recessive}] /\ Len(p) = 1 /\ p[1] = EvenParity(code)
    BY <1>1
  <2>2. end + 3 \in Nat /\ 1 \in Nat
    OBVIOUS
  <2> HIDE DEF p
  <2>3. set = Overwrite(over, end + 3, p)
    BY DEF p
  <2> HIDE DEF set
  <2>4. WrittenOver(set, over, end + 3, 1, p)
    BY <1>4, <2>1, <2>2, <2>3, Overwritten
  <2>5. ASSUME NEW j \in 1 .. Len(over)
        PROVE  set[j].val = IF j = end + 3 THEN EvenParity(code) ELSE over[j].val
    <3>1. j \in end + 3 .. (end + 3) + 1 - 1 <=> j = end + 3
      BY <1>4
    <3> QED BY <2>1, <2>4, <3>1 DEF WrittenOver
  <2> QED BY <2>4, <2>5 DEF WrittenOver
<1>7. SetStuffCntAndParity(frame, cnt) = set
  BY <1>3, <1>5 DEF SetStuffCntAndParity, SetStuffCntBits, SetFieldVal, over, set, code
<1> HIDE DEF set
<1>8. SameShape(frame, set)
  BY <1>4, <1>6 DEF SameShape
<1>9. FirstOf(set, "StuffCnt") = end
  <2>1. set[end].kind = "StuffCnt" /\ end \in 1 .. Len(set)
    <3>1. frame[end + 0].kind = "StuffCnt" /\ end + 0 = end
      OBVIOUS
    <3> QED BY <1>8, <3>1 DEF SameShape
  <2>2. NoneBefore(end, {"StuffCnt"}, set)
    BY <1>2, <1>3, <1>8 DEF NoneBefore, SameShape
  <2> QED BY <1>6, <2>1, <2>2, FoundFirst
<1>10. FirstOf(set, "Crc") = end + 4
  <2>1. set[end + 4].kind = "Crc" /\ end + 4 \in 1 .. Len(set)
    BY <1>2, <1>8 DEF SameShape
  <2>2. ASSUME NEW i \in 1 .. (end + 4) - 1
        PROVE  set[i].kind # "Crc"
    <3>1. set[i].kind = frame[i].kind
      BY <1>2, <1>8 DEF SameShape
    <3>2. CASE i < end
      BY <3>1, <3>2 DEF NoneBefore
    <3>3. CASE i \in end .. end + 2
      <4>1. i - end \in 0 .. 2 /\ end + (i - end) = i
        BY <3>3
      <4> QED BY <3>1, <4>1
    <3>4. CASE i = end + 3
      BY <3>1, <3>4
    <3> QED BY <3>2, <3>3, <3>4
  <2>3. NoneBefore(end + 4, {"Crc"}, set)
    BY <2>2 DEF NoneBefore
  <2> QED BY <1>6, <2>1, <2>3, FoundFirst
<1>11. set[end - 1].val \in {Dominant, Recessive} /\ set[end + 3].val \in {Dominant, Recessive}
  <2>1. end - 1 \in 1 .. Len(set) /\ end + 3 \in 1 .. Len(set)
    BY <1>2, <1>8 DEF SameShape
  <2> QED BY <1>6, <2>1, BitValues
<1>12. first \in BitType /\ second \in BitType
  <2>1. "StuffCnt" \in AllKinds /\ "StuffParity" \in AllKinds
    BY DEF AllKinds
  <2>2. first \in BitType
    BY <1>11, <2>1, FixedStuffBit
  <2>3. second \in BitType
    BY <1>11, <2>1, FixedStuffBit
  <2> QED BY <2>2, <2>3
<1> HIDE DEF first, second
<1>13. UpdateStuffCnt([bits |-> frame, cnt |-> cnt]) = InsertStuffToStuffCnt(set)
  BY <1>7 DEF UpdateStuffCnt
<1>14. FixedStuffBefore(set, end + 4, "StuffParity") = InsertBit(set, end + 4, second)
  <2>1. (end + 4) - 1 = end + 3
    OBVIOUS
  <2> QED BY <2>1 DEF FixedStuffBefore, second
<1>15. InsertBit(set, end + 4, second)[end - 1] = set[end - 1]
  <2>1. end + 4 \in 1 .. Len(set) + 1 /\ end - 1 \in 1 .. Len(set) + 1 /\ end - 1 < end + 4
    BY <1>2, <1>8 DEF SameShape
  <2>2. InsertedAt(InsertBit(set, end + 4, second), set, end + 4, second)
    BY <1>6, <1>12, <2>1, Inserted
  <2> QED BY <2>1, <2>2 DEF InsertedAt
<1>16. InsertStuffToStuffCnt(set) = InsertBit(InsertBit(set, end + 4, second), end, first)
  BY <1>9, <1>10, <1>14, <1>15 DEF InsertStuffToStuffCnt, FixedStuffBefore, first
<1>17. \A j \in 1 .. end - 1 : set[j].val = frame[j].val
  BY <1>2, <1>4, <1>6 DEF SameShape
<1>22. \A j \in end + 4 .. Len(frame) : set[j].val = frame[j].val
  BY <1>2, <1>4, <1>6 DEF SameShape
<1>18. \A i \in 0 .. 2 : set[end + i].val = code[i + 1]
  BY <1>2, <1>4, <1>6 DEF SameShape
<1>19. set[end + 3].val = EvenParity(code)
  BY <1>2, <1>4, <1>6 DEF SameShape
<1>20. CountSet(set, frame, end, cnt)
  BY <1>8, <1>17, <1>18, <1>19, <1>22 DEF CountSet, code
<1>21. WithStuffAround(UpdateStuffCnt([bits |-> frame, cnt |-> cnt]), set, end, first, second)
  BY <1>13, <1>16 DEF WithStuffAround, first, second
<1> QED BY <1>6, <1>12, <1>20, <1>21

\* What has been stuffed is not changed by what comes after it.
SamePart(last, frame, other) ==
  \A j \in 1 .. last : /\ other[j].kind = frame[j].kind
                       /\ other[j].stuff = frame[j].stuff /\ other[j].val = frame[j].val

\* How a part of a frame is stuffed depends on its bits alone.
LEMMA StuffedPart ==
  ASSUME NEW frame, NEW other, NEW end \in Nat, SamePart(end - 1, frame, other),
         StuffedInOrder(end, frame)
  PROVE  StuffedInOrder(end, other)
<1>1. \A j \in 1 .. end - 1 : /\ other[j].kind = frame[j].kind /\ other[j].val = frame[j].val
                              /\ IsStuff(other[j]) <=> IsStuff(frame[j])
  BY DEF SamePart, IsStuff
<1>2. StuffedBefore(end, other)
  <2>1. SUFFICES ASSUME NEW i \in 1 .. end - 1
                 PROVE  /\ IsStuff(other[i]) <=> FiveEqual(i, other)
                        /\ IsStuff(other[i]) => /\ other[i].val # other[i - 1].val
                                                /\ other[i].kind = other[i - 1].kind
    BY DEF StuffedBefore
  <2>2. /\ IsStuff(frame[i]) <=> FiveEqual(i, frame)
        /\ IsStuff(frame[i]) => /\ frame[i].val # frame[i - 1].val
                                /\ frame[i].kind = frame[i - 1].kind
    BY DEF StuffedInOrder, StuffedBefore
  <2>3. FiveEqual(i, other) <=> FiveEqual(i, frame)
    <3>1. i \in Nat /\ \A j \in 1 .. i - 1 : other[j].val = frame[j].val
      BY <1>1
    <3> QED BY <3>1, SameFive
  <2>4. FiveEqual(i, frame) => i - 1 \in 1 .. end - 1
    BY DEF FiveEqual
  <2> QED BY <1>1, <2>2, <2>3, <2>4
<1>3. NoneBefore(end, LastKinds, other)
  BY <1>1 DEF NoneBefore, StuffedInOrder
<1>4. StuffBitsBefore(end, other) = StuffBitsBefore(end, frame)
  BY <1>1 DEF StuffBitsBefore
<1> QED BY <1>2, <1>3, <1>4 DEF StuffedInOrder

\* Up to the fixed stuff bit after the parity, no bit is one of the CRC or its delimiter.
LEMMA NoneInCount ==
  ASSUME ~IsCan20, NEW frame, NEW end \in Nat, StuffedInOrder(end, frame), StuffCntBlock(end, frame),
         NEW kind \in {"Crc", "CrcDelim"}
  PROVE  NoneBefore(end + 6, {kind}, frame)
<1>1. SUFFICES ASSUME NEW i \in 1 .. (end + 6) - 1
               PROVE  frame[i].kind # kind
  BY DEF NoneBefore
<1>2. CASE i < end
  BY <1>2 DEF StuffedInOrder, NoneBefore, LastKinds
<1>3. CASE ~(i < end)
  <2>1. i - end \in 0 .. 5 /\ end + (i - end) = i
    BY <1>3
  <2> QED BY <2>1 DEF StuffCntBlock
<1> QED BY <1>2, <1>3

\* The stuff count of a CAN FD frame is written when regular stuffing has ended.
LEMMA WriteStuffCntStep ==
  ASSUME FrameInv, WriteStuffCnt
  PROVE  FrameInv'
<1> DEFINE head == Len(UpToData(content))
<1>1. TypeInv
  BY DEF FrameInv
<1>2. PICK place : Placed(place, bits, Built) /\ PhaseInv(place)
  BY DEF FrameInv
<1> PICK end : end = at
  OBVIOUS
<1>3. /\ ~IsCan20 /\ bits[end].kind \in EndKinds /\ pc = "stuff"
      /\ bits' = UpdateStuffCnt([bits |-> bits, cnt |-> stuff_cnt])
      /\ IF flipped = 0 THEN BeginCrc ELSE BeginFixedStuff(bits')
      /\ content' = content /\ edited' = edited /\ updated' = updated /\ flipped' = flipped
  BY DEF WriteStuffCnt, testVars
<1>4. /\ prev' = prev /\ stuff_cnt' = stuff_cnt
  BY <1>3 DEF BeginCrc, BeginFixedStuff
<1>5. /\ Built' = Built /\ IsCan20' = IsCan20 /\ LastKinds' = LastKinds /\ GoldenCrcLen' = GoldenCrcLen
      /\ First(content)' = First(content)
  BY <1>3, SameContent
<1>6. NormalStuffInv(place)
  BY <1>2, <1>3 DEF PhaseInv
<1>7. /\ bits \in Seq(BitType) /\ Len(bits) \in Nat /\ end \in Nat /\ stuff_cnt \in 0 .. 7
  BY <1>1 DEF TypeInv
<1>8. PlainFrom(end, place, bits, Built) /\ StuffedInOrder(end, bits) /\ end >= 2
      /\ NoneBefore(end, LastKinds, bits)
  BY <1>6 DEF NormalStuffInv, StuffedInOrder
<1>9. bits[end].kind = "StuffCnt" /\ end - (Len(bits) - Len(Built)) = head + 1
  <2>1. bits[end].kind \in LastKinds
    BY <1>3, <1>8 DEF LastKinds, EndKinds
  <2>2. end - (Len(bits) - Len(Built)) = head + 1
    BY <1>1, <1>2, <1>3, <1>8, <2>1, WhereStuffing
  <2>3. bits[end].kind = Built[head + 1].kind
    <3>1. end \in end .. Len(bits)
      BY <1>7, <1>8 DEF PlainFrom
    <3> QED BY <1>1, <1>2, <1>7, <1>8, <2>2, <3>1, PlainKind, BuiltFacts
  <2>4. Built[head + 1].kind = "StuffCnt"
    BY <1>1, <1>3, BuiltFacts, CanOrFd DEF Layout, TypeInv
  <2> QED BY <2>2, <2>3, <2>4
<1>10. /\ head \in Nat \ {0} /\ First(content) = head + 4 /\ Len(Built) > head + 6
       /\ \A i \in 1 .. 3 : Built[head + i].kind = "StuffCnt"
       /\ Built[head + 4].kind = "StuffParity" /\ Built[head + 5].kind = "Crc"
  <2>1. content.fdf = 1 /\ CrcLen(content) \in {15, 17, 21} /\ Layout(content, Built)
    BY <1>1, <1>3, CanOrFd, BuiltFacts DEF TypeInv, GoldenCrcLen
  <2>2. head \in Nat \ {0} /\ First(content) = head + 4
    BY <2>1 DEF Layout, First
  <2>3. Built[First(content) + 1].kind = "Crc"
    BY <2>1 DEF Layout
  <2> QED BY <2>1, <2>2, <2>3 DEF Layout
<1> HIDE DEF head
<1>11. Len(bits) = Len(Built) + end - head - 1 /\ Len(Built) \in Nat
  BY <1>1, <1>7, <1>9, <1>10, BuiltFacts
<1>12. end + 4 < Len(bits) /\ end \in 2 .. Len(bits)
  BY <1>7, <1>8, <1>10, <1>11
<1>13. ASSUME NEW i \in 0 .. 4
       PROVE  /\ bits[end + i].kind = Built[head + 1 + i].kind /\ ~IsStuff(bits[end + i])
              /\ place[head + 1 + i] = end + i
  <2>1. end + i \in end .. Len(bits)
    BY <1>7, <1>12
  <2>2. (end + i) - (Len(bits) - Len(Built)) = head + 1 + i
    BY <1>7, <1>10, <1>11
  <2> QED BY <1>1, <1>2, <1>7, <1>8, <2>1, <2>2, PlainKind, BuiltFacts
<1>14. /\ \A i \in 0 .. 2 : bits[end + i].kind = "StuffCnt"
       /\ bits[end + 3].kind = "StuffParity" /\ bits[end + 4].kind = "Crc"
       /\ place[head + 5] = end + 4
  <2>1. ASSUME NEW i \in 0 .. 2
        PROVE  bits[end + i].kind = "StuffCnt"
    <3>1. head + 1 + i = head + (i + 1) /\ i + 1 \in 1 .. 3
      BY <1>10
    <3> QED BY <3>1, <1>10, <1>13
  <2>2. head + 1 + 3 = head + 4 /\ head + 1 + 4 = head + 5
    BY <1>10
  <2> QED BY <2>1, <2>2, <1>10, <1>13
<1>15. NoneBefore(end, {"StuffCnt", "StuffParity", "Crc"}, bits)
  BY <1>3, <1>8 DEF NoneBefore, LastKinds
<1>16. PICK set \in Seq(BitType), first \in BitType, second \in BitType :
           CountSet(set, bits, end, stuff_cnt) /\ WithStuffAround(bits', set, end, first, second)
  <2>1. end \in 2 .. Len(bits) /\ end + 4 <= Len(bits)
    BY <1>7, <1>12
  <2>2. \A i \in 0 .. 2 : bits[end + i].kind = "StuffCnt"
    BY <1>14
  <2>3. bits[end + 3].kind = "StuffParity" /\ bits[end + 4].kind = "Crc"
    BY <1>14
  <2>4. \E set \in Seq(BitType), first \in BitType, second \in BitType :
           /\ CountSet(set, bits, end, stuff_cnt)
           /\ WithStuffAround(UpdateStuffCnt([bits |-> bits, cnt |-> stuff_cnt]), set, end, first, second)
    BY <1>7, <1>15, <2>1, <2>2, <2>3, WrittenCount
  <2> QED BY <1>3, <2>4
<1> PICK mid : mid = InsertBit(set, end + 4, second)
  OBVIOUS
<1>17. /\ Len(set) = Len(bits) /\ set[end - 1].val \in {Dominant, Recessive}
       /\ set[end + 3].val \in {Dominant, Recessive}
  <2>1. Len(set) = Len(bits)
    BY <1>16 DEF CountSet, SameShape
  <2>2. end - 1 \in 1 .. Len(set) /\ end + 3 \in 1 .. Len(set)
    BY <1>7, <1>12, <2>1
  <2> QED BY <2>1, <2>2, BitValues
<1>18. /\ IsStuff(first) /\ first.val # set[end - 1].val /\ first.kind = "StuffCnt" /\ first.stuff = "Fixed"
       /\ IsStuff(second) /\ second.val # set[end + 3].val /\ second.kind = "StuffParity" /\ second.stuff = "Fixed"
  <2>1. "StuffCnt" \in AllKinds /\ "StuffParity" \in AllKinds
    BY DEF AllKinds
  <2> QED BY <1>16, <1>17, <2>1, FixedStuffBit DEF WithStuffAround
<1>19. /\ mid \in Seq(BitType) /\ Len(mid) = Len(bits) + 1
       /\ \A j \in 1 .. Len(bits) + 1 :
            mid[j] = IF j < end + 4 THEN set[j] ELSE IF j = end + 4 THEN second ELSE set[j - 1]
  <2>1. end + 4 \in 1 .. Len(set) + 1
    BY <1>7, <1>12, <1>17
  <2>2. InsertedAt(mid, set, end + 4, second)
    BY <2>1, Inserted
  <2> QED BY <1>17, <2>2 DEF InsertedAt
<1>20. /\ bits' \in Seq(BitType) /\ Len(bits') = Len(bits) + 2
       /\ \A j \in 1 .. Len(bits) + 2 :
            bits'[j] = IF j < end THEN mid[j] ELSE IF j = end THEN first ELSE mid[j - 1]
  <2>1. end \in 1 .. Len(mid) + 1 /\ bits' = InsertBit(mid, end, first) /\ (Len(bits) + 1) + 1 = Len(bits) + 2
    BY <1>7, <1>12, <1>16, <1>19 DEF WithStuffAround
  <2>2. InsertedAt(bits', mid, end, first)
    BY <1>19, <2>1, Inserted
  <2> QED BY <1>19, <2>1, <2>2 DEF InsertedAt
<1>21. /\ \A j \in 1 .. end - 1 : bits'[j] = set[j]
       /\ bits'[end] = first /\ bits'[end + 5] = second
       /\ \A j \in 1 .. 4 : bits'[end + j] = set[end + (j - 1)]
  <2>1. ASSUME NEW j \in 1 .. end - 1
        PROVE  bits'[j] = set[j]
    <3>1. j \in 1 .. Len(bits) + 1 /\ j \in 1 .. Len(bits) + 2 /\ j < end /\ j < end + 4
      BY <1>7, <1>12
    <3> QED BY <3>1, <1>19, <1>20
  <2>2. bits'[end] = first
    BY <1>7, <1>12, <1>20
  <2>4. bits'[end + 5] = second
    <3>1. bits'[end + 5] = mid[end + 4]
      BY <1>7, <1>12, <1>20
    <3>2. mid[end + 4] = second
      BY <1>7, <1>12, <1>19
    <3> QED BY <3>1, <3>2
  <2>3. ASSUME NEW j \in 1 .. 4
        PROVE  bits'[end + j] = set[end + (j - 1)]
    <3>1. bits'[end + j] = mid[end + j - 1]
      BY <1>7, <1>12, <1>20
    <3>2. mid[end + j - 1] = set[end + j - 1]
      BY <1>7, <1>12, <1>19
    <3> QED BY <3>1, <3>2, <1>7
  <2> QED BY <2>1, <2>2, <2>3, <2>4
<1>22. SamePart(end - 1, bits, bits')
  <2>1. ASSUME NEW j \in 1 .. end - 1
        PROVE  /\ set[j].kind = bits[j].kind /\ set[j].stuff = bits[j].stuff
               /\ set[j].val = bits[j].val
    <3>1. j \in 1 .. Len(bits)
      BY <1>7, <1>12
    <3> QED BY <3>1, <1>16 DEF CountSet, SameShape
  <2> QED BY <2>1, <1>21 DEF SamePart
<1>23. StuffedInOrder(end, bits')
  BY <1>7, <1>8, <1>22, StuffedPart
<1>24. StuffCntBlock(end, bits')
  <2>1. /\ bits'[end].stuff = "Fixed" /\ bits'[end].val # bits'[end - 1].val
        /\ bits'[end].kind = "StuffCnt"
    <3>1. bits'[end - 1] = set[end - 1]
      BY <1>7, <1>12, <1>21
    <3> QED BY <3>1, <1>18, <1>21
  <2>2. /\ bits'[end + 5].stuff = "Fixed" /\ bits'[end + 5].val # bits'[(end + 5) - 1].val
        /\ bits'[end + 5].kind = "StuffParity"
    <3>1. (end + 5) - 1 = end + 4 /\ 4 - 1 = 3 /\ bits'[end + 4] = set[end + 3]
      BY <1>7, <1>21
    <3> QED BY <3>1, <1>18, <1>21
  <2>3. ASSUME NEW i \in 1 .. 4
        PROVE  /\ ~IsStuff(bits'[end + i])
               /\ bits'[end + i].kind = bits[end + (i - 1)].kind
    <3>1. end + (i - 1) \in 1 .. Len(bits) /\ i - 1 \in 0 .. 4
      BY <1>7, <1>12
    <3> QED BY <3>1, <1>13, <1>16, <1>21 DEF CountSet, SameShape, IsStuff
  <2>4. \A i \in 0 .. 3 : bits'[end + i].kind = "StuffCnt"
    <3>1. ASSUME NEW i \in 1 .. 3
          PROVE  bits'[end + i].kind = "StuffCnt"
      <4>1. i - 1 \in 0 .. 2 /\ i \in 1 .. 4
        OBVIOUS
      <4> QED BY <1>14, <2>3, <4>1
    <3>2. end + 0 = end
      BY <1>7
    <3> QED BY <2>1, <3>1, <3>2
  <2>5. bits'[end + 4].kind = "StuffParity"
    BY <1>14, <2>3
  <2>6. ASSUME NEW i \in 1 .. 3
        PROVE  bits'[end + i].val = StuffCntEncoded(stuff_cnt)[i]
    <3>1. i - 1 \in 0 .. 2 /\ i \in 1 .. 4 /\ (i - 1) + 1 = i
      OBVIOUS
    <3> QED BY <1>16, <1>21, <3>1 DEF CountSet
  <2>7. bits'[end + 4].val = EvenParity(StuffCntEncoded(stuff_cnt))
    <3>1. 4 - 1 = 3 /\ 4 \in 1 .. 4
      OBVIOUS
    <3> QED BY <1>16, <1>21, <3>1 DEF CountSet
  <2>8. \A i \in {end, end + 5} : bits'[i].stuff = "Fixed" /\ bits'[i].val # bits'[i - 1].val
    BY <2>1, <2>2
  <2> QED BY <2>2, <2>3, <2>4, <2>5, <2>6, <2>7, <2>8 DEF StuffCntBlock
<1>25. CountWritten(end, bits')
  <2>1. ~IsStuff(bits'[end - 1])
    <3>1. ~IsStuff(bits[end - 1]) /\ end - 1 \in 1 .. end - 1
      BY <1>6, <1>7, <1>8, <1>9 DEF NormalStuffInv
    <3> QED BY <3>1, <1>22 DEF SamePart, IsStuff
  <2> QED BY <2>1, <1>7, <1>12, <1>20, <1>23, <1>24 DEF CountWritten
<1> PICK moved : moved = MovedUp(MovedUp(place, end + 4), end)
  OBVIOUS
<1>26. Placed(moved, bits', Built) /\ PlainFrom(end + 6, moved, bits', Built)
  <2>1. Placed(place, set, Built) /\ PlainFrom(end, place, set, Built)
    <3>1. SameShape(bits, set) /\ set \in Seq(BitType)
      BY <1>16 DEF CountSet
    <3>2. ASSUME NEW j \in 1 .. Len(bits), bits[j].kind \notin Calculated
          PROVE  set[j].val = bits[j].val
      <4>1. CASE j \in end .. end + 3
        <5>1. j - end \in 0 .. 3 /\ end + (j - end) = j
          BY <1>7, <4>1
        <5>2. j - end \in 0 .. 2 \/ j - end = 3
          BY <5>1
        <5> QED BY <1>14, <3>2, <5>1, <5>2 DEF Calculated
      <4>2. CASE j \notin end .. end + 3
        <5>1. j \in 1 .. end - 1 \/ j \in end + 4 .. Len(bits)
          BY <1>7, <4>2
        <5> QED BY <1>16, <5>1 DEF CountSet
      <4> QED BY <4>1, <4>2
    <3>3. SameFields(bits, set)
      BY <3>2 DEF SameFields
    <3> QED BY <1>2, <1>7, <1>8, <3>1, <3>3, ShapeKeepsPlaces
  <2>2. PlainFrom(end + 4, place, set, Built)
    <3>1. end + 4 \in end .. Len(set)
      BY <1>7, <1>12, <1>17
    <3> QED BY <2>1, <3>1, <1>11, PlainFromOn
  <2> PICK once : once = MovedUp(place, end + 4)
    OBVIOUS
  <2>3. Len(Built) \in Nat \ {0} /\ end + 4 \in 2 .. Len(set) /\ end + 4 <= end + 4
    BY <1>7, <1>10, <1>11, <1>12, <1>17
  <2>4. Placed(once, mid, Built)
    BY <1>18, <2>1, <2>3, PlacedMovedUp
  <2>5. PlainFrom((end + 4) + 1, once, mid, Built)
    BY <2>1, <2>2, <2>3, PlainMovedUp
  <2>6. end \in 2 .. Len(mid) /\ end <= (end + 4) + 1 /\ ((end + 4) + 1) + 1 = end + 6
    BY <1>7, <1>12, <1>19
  <2>7. moved = MovedUp(once, end) /\ bits' = InsertBit(mid, end, first)
    BY <1>16 DEF WithStuffAround
  <2>8. Placed(MovedUp(once, end), InsertBit(mid, end, first), Built)
    BY <1>18, <1>19, <2>3, <2>4, <2>6, PlacedMovedUp
  <2>9. PlainFrom(((end + 4) + 1) + 1, MovedUp(once, end), InsertBit(mid, end, first), Built)
    BY <1>19, <2>3, <2>4, <2>5, <2>6, PlainMovedUp
  <2> QED BY <2>6, <2>7, <2>8, <2>9
<1>27. moved[First(content) + 1] = end + 6
  <2>1. place \in [1 .. Len(Built) -> 1 .. Len(bits)]
    BY <1>2 DEF Placed
  <2>2. head + 5 \in 1 .. Len(Built) /\ (head + 4) + 1 = head + 5
    BY <1>10, <1>11
  <2>3. MovedUp(place, end + 4)[head + 5] = end + 5 /\ DOMAIN MovedUp(place, end + 4) = 1 .. Len(Built)
    BY <2>1, <2>2, <1>7, <1>14 DEF MovedUp
  <2>4. moved[head + 5] = end + 6
    BY <2>2, <2>3, <1>7 DEF MovedUp
  <2> QED BY <2>2, <2>4, <1>10
<1>28. CountWritten(end, bits)' <=> CountWritten(end, bits')
  <2>1. StuffedInOrder(end, bits)' <=> StuffedInOrder(end, bits')
    BY <1>4, <1>5 DEF StuffedInOrder
  <2>2. StuffCntBlock(end, bits)' <=> StuffCntBlock(end, bits')
    BY <1>4 DEF StuffCntBlock
  <2> QED BY <2>1, <2>2 DEF CountWritten
<1>29. end \in 1 .. Len(bits')
  BY <1>7, <1>12, <1>20
<1>30. bits'[1].val = Dominant
  <2>1. 1 \in 1 .. end - 1
    BY <1>7, <1>8
  <2> QED BY <1>1, <1>22, <2>1 DEF SamePart, TypeInv
<1>31. CASE flipped = 0
  <2>1. pc' = "crc" /\ at' = 1 /\ crc' = CrcInit(GoldenCrcLen) /\ same' = same
    BY <1>3, <1>31 DEF BeginCrc
  <2>2. crc' \in [1 .. GoldenCrcLen -> {0, 1}]
    BY <2>1 DEF CrcInit
  <2>3. TypeInv'
    BY <1>1, <1>3, <1>4, <1>5, <1>20, <1>30, <2>1, <2>2 DEF TypeInv
  <2>4. CrcInv(moved)'
    <3>1. at' <= end + 6
      BY <1>7, <2>1
    <3> QED BY <1>3, <1>5, <1>25, <1>26, <1>27, <1>28, <1>29, <3>1 DEF CrcInv
  <2>5. PhaseInv(moved)'
    BY <2>1, <2>4 DEF PhaseInv
  <2> QED BY <1>5, <1>26, <2>3, <2>5 DEF FrameInv
<1>32. CASE flipped # 0
  <2>1. pc' = "fixed" /\ at' = FirstOf(bits', "Crc") /\ crc' = crc /\ same' = 0
    BY <1>3, <1>32 DEF BeginFixedStuff
  <2>2. FirstOf(bits', "Crc") = end + 6
    <3>1. end + 6 \in 1 .. Len(bits')
      BY <1>7, <1>12, <1>20
    <3>2. bits'[end + 6].kind = "Crc"
      <4>1. bits'[end + 6] = mid[end + 5]
        BY <1>7, <1>12, <1>20
      <4>2. mid[end + 5] = set[end + 4]
        BY <1>7, <1>12, <1>19
      <4>3. end + 4 \in 1 .. Len(bits)
        BY <1>7, <1>12
      <4> QED BY <1>14, <1>16, <4>1, <4>2, <4>3 DEF CountSet, SameShape
    <3>3. NoneBefore(end + 6, {"Crc"}, bits')
      BY <1>3, <1>7, <1>23, <1>24, NoneInCount
    <3> QED BY <1>20, <3>1, <3>2, <3>3, FoundFirst
  <2>3. TypeInv'
    BY <1>1, <1>3, <1>4, <1>5, <1>7, <1>20, <1>30, <2>1, <2>2 DEF TypeInv
  <2>4. FixedStuffInv(moved, end)'
    <3>1. at' = end + 6 + same' + same' \div 4
      BY <1>7, <2>1, <2>2
    <3>2. PlainFrom(at', moved, bits', Built')
      BY <1>5, <1>26, <2>1, <2>2
    <3>3. \A i \in end + 6 .. at' - 1 : FALSE
      BY <1>7, <2>1, <2>2
    <3> QED BY <1>5, <1>25, <1>27, <1>28, <3>1, <3>2, <3>3 DEF FixedStuffInv
  <2>5. PhaseInv(moved)'
    BY <1>3, <1>5, <1>29, <2>1, <2>4 DEF PhaseInv, StuffInv
  <2> QED BY <1>5, <1>26, <2>3, <2>5 DEF FrameInv
<1> QED BY <1>31, <1>32

-----------------------------------------------------------------------------
(* The CRC.                                                                *)

\* A step of the division leaves a remainder of the same length.
LEMMA CrcStepType ==
  ASSUME NEW n \in {15, 17, 21}, NEW c \in [1 .. n -> {0, 1}], NEW v \in {0, 1}
  PROVE  CrcStep(c, v) \in [1 .. n -> {0, 1}]
<1>1. Len(c) = n
  OBVIOUS
<1>2. \A i \in 1 .. n : Poly(n)[i] \in Int
  <2>1. CASE n = 15
    BY <2>1 DEF Poly
  <2>2. CASE n = 17
    BY <2>2 DEF Poly
  <2>3. CASE n = 21
    BY <2>3 DEF Poly
  <2> QED BY <2>1, <2>2, <2>3
<1>3. Xor(v, c[1]) \in {0, 1}
  BY DEF Xor
<1>4. \A a \in {0, 1}, b \in Int : a * b \in Int
  OBVIOUS
<1>5. \A a \in {0, 1}, b \in Int : Xor(a, b) \in {0, 1}
  BY DEF Xor
<1>6. ASSUME NEW i \in 1 .. n
      PROVE  Xor(IF i = n THEN 0 ELSE c[i + 1], Xor(v, c[1]) * Poly(n)[i]) \in {0, 1}
  <2>1. Xor(v, c[1]) * Poly(n)[i] \in Int
    BY <1>2, <1>3, <1>4
  <2>2. (IF i = n THEN 0 ELSE c[i + 1]) \in {0, 1}
    OBVIOUS
  <2> QED BY <1>5, <2>1, <2>2
<1> QED BY <1>1, <1>6 DEF CrcStep

\* Without stuff bits each bit is where it was built.
LEMMA AllPlain ==
  ASSUME NEW frame \in Seq(BitType), NEW built, Len(built) \in Nat \ {0},
         NEW place, Placed(place, frame, built), PlainFrom(1, place, frame, built)
  PROVE  Len(frame) = Len(built) /\ \A i \in 1 .. Len(built) : place[i] = i
<1> DEFINE n == Len(built)
           l == Len(frame)
<1>1. /\ place \in [1 .. n -> 1 .. l] /\ \A i, j \in 1 .. n : i < j => place[i] < place[j]
      /\ place[1] = 1 /\ place[n] = l
  BY DEF Placed
<1>2. l \in Nat \ {0} /\ l - n < 1 /\ n \in Nat \ {0} /\ \A j \in 1 .. l : place[j - (l - n)] = j
  BY DEF PlainFrom
<1> HIDE DEF n, l
<1>3. l = n
  <2>1. place[1 - (l - n)] = 1 /\ 1 - (l - n) \in 1 .. n
    BY <1>2
  <2>2. CASE l < n
    <3>1. 1 < 1 - (l - n)
      BY <1>2, <2>2
    <3>2. 1 \in 1 .. n
      BY <1>2
    <3>3. place[1] < place[1 - (l - n)]
      BY <1>1, <2>1, <3>1, <3>2
    <3> QED BY <1>1, <2>1, <3>3
  <2> QED BY <1>2, <2>2
<1>4. ASSUME NEW i \in 1 .. n
      PROVE  place[i] = i
  <2>1. i - (l - n) = i /\ i \in 1 .. l
    BY <1>2, <1>3
  <2> QED BY <1>2, <2>1
<1> QED BY <1>3, <1>4 DEF n, l

\* The CRC is calculated up to its first bit.
CrcBegins(p, place) ==
  /\ p \in 2 .. Len(bits) /\ bits[p].kind = "Crc" /\ NoneBefore(p, {"Crc"}, bits)
  /\ place[First(content) + 1] = p /\ at <= p

\* CalcCrc begins before the CRC, in a CAN FD frame behind the stuff count.
LEMMA CrcPhase ==
  ASSUME TypeInv, NEW place, Placed(place, bits, Built), CrcInv(place)
  PROVE  /\ CrcBegins(place[First(content) + 1], place)
         /\ ~IsCan20 => \E end \in 1 .. Len(bits) : /\ CountWritten(end, bits)
                                                    /\ place[First(content) + 1] = end + 6
                                                    /\ PlainFrom(end + 6, place, bits, Built)
<1> DEFINE p == place[First(content) + 1]
<1>1. /\ bits \in Seq(BitType) /\ Len(bits) \in Nat /\ at \in Nat \ {0}
      /\ Layout(content, Built) /\ Len(Built) \in Nat \ {0}
  BY BuiltFacts DEF TypeInv
<1>2. CrcLen(content) \in {15, 17, 21}
  BY CanOrFd DEF TypeInv, GoldenCrcLen
<1>3. First(content) \in Nat \ {0} /\ Len(Built) > First(content) + 1
  BY <1>1, <1>2 DEF Layout, First
<1>4. Built[First(content) + 1].kind = "Crc"
  BY <1>1, <1>2 DEF Layout
<1>5. p \in 1 .. Len(bits) /\ bits[p].kind = "Crc"
  BY <1>3, <1>4 DEF Placed
<1>6. CASE IsCan20
  <2>1. PlainFrom(1, place, bits, Built) /\ NoneBefore(at, {"Crc"}, bits)
    BY <1>6 DEF CrcInv
  <2>2. Len(bits) = Len(Built) /\ \A i \in 1 .. Len(Built) : place[i] = i
    BY <1>1, <2>1, AllPlain
  <2>3. p = First(content) + 1
    BY <1>3, <2>2
  <2>4. content.fdf = 0 /\ First(content) = Len(UpToData(content))
    BY <1>1, <1>6, CanOrFd DEF First, TypeInv, Layout
  <2>5. NoneBefore(p, {"Crc"}, bits)
    <3>1. SUFFICES ASSUME NEW i \in 1 .. p - 1
                   PROVE  bits[i].kind # "Crc"
      BY DEF NoneBefore
    <3>2. i \in 1 .. Len(UpToData(content)) /\ i \in 1 .. Len(Built)
      BY <1>3, <2>3, <2>4
    <3>3. bits[i].kind = Built[i].kind
      BY <2>2, <3>2 DEF Placed
    <3>4. Built[i].kind \in HeadKinds
      BY <1>1, <3>2 DEF Layout
    <3> QED BY <3>3, <3>4 DEF HeadKinds
  <2>6. ~(p < at)
    <3>1. SUFFICES ASSUME p < at PROVE FALSE
      OBVIOUS
    <3>2. p \in 1 .. at - 1
      BY <1>1, <1>5, <3>1
    <3> QED BY <1>5, <2>1, <3>2 DEF NoneBefore
  <2>7. p \in 2 .. Len(bits) /\ at <= p
    BY <1>1, <1>3, <1>5, <2>3, <2>6
  <2> QED BY <1>5, <1>6, <2>5, <2>7 DEF CrcBegins
<1>7. CASE ~IsCan20
  <2>1. PICK end \in 1 .. Len(bits) : /\ CountWritten(end, bits) /\ p = end + 6
                                      /\ PlainFrom(end + 6, place, bits, Built) /\ at <= end + 6
    BY <1>7 DEF CrcInv
  <2>2. NoneBefore(p, {"Crc"}, bits)
    BY <1>7, <2>1, NoneInCount DEF CountWritten
  <2>3. p \in 2 .. Len(bits) /\ at <= p
    BY <1>1, <1>5, <2>1
  <2> QED BY <1>5, <2>1, <2>2, <2>3 DEF CrcBegins
<1> QED BY <1>6, <1>7

\* CalcCrc changes no bit of the frame.
LEMMA ShiftCrcStep ==
  ASSUME FrameInv, ShiftCrc
  PROVE  FrameInv'
<1>1. TypeInv
  BY DEF FrameInv
<1>2. PICK place : Placed(place, bits, Built) /\ PhaseInv(place)
  BY DEF FrameInv
<1>3. /\ pc = "crc" /\ bits[at].kind # "Crc"
      /\ crc' = IF Covered(GoldenCrcLen, bits[at]) THEN CrcStep(crc, bits[at].val) ELSE crc
      /\ at' = at + 1 /\ content' = content /\ edited' = edited
      /\ updated' = updated /\ flipped' = flipped /\ bits' = bits /\ pc' = pc
      /\ same' = same /\ prev' = prev /\ stuff_cnt' = stuff_cnt
  BY DEF ShiftCrc, testVars
<1>4. /\ Built' = Built /\ IsCan20' = IsCan20 /\ LastKinds' = LastKinds /\ GoldenCrcLen' = GoldenCrcLen
      /\ First(content)' = First(content)
  BY <1>3, SameContent
<1>5. CrcInv(place)
  BY <1>2, <1>3 DEF PhaseInv
<1>6. at \in 1 .. place[First(content) + 1] - 1 /\ at \in 1 .. Len(bits)
  <2>1. CrcBegins(place[First(content) + 1], place)
    BY <1>1, <1>2, <1>5, CrcPhase
  <2>2. at \in Nat \ {0}
    BY <1>1 DEF TypeInv
  <2> QED BY <1>3, <2>1, <2>2 DEF CrcBegins
<1>7. crc' \in [1 .. GoldenCrcLen -> {0, 1}]
  <2>1. bits[at].val \in {0, 1}
    BY <1>1, <1>6, BitValues DEF TypeInv, Dominant, Recessive
  <2>2. GoldenCrcLen \in {15, 17, 21} /\ crc \in [1 .. GoldenCrcLen -> {0, 1}]
    BY <1>1, CanOrFd DEF TypeInv
  <2> QED BY <1>3, <2>1, <2>2, CrcStepType
<1>8. TypeInv'
  BY <1>1, <1>3, <1>4, <1>6, <1>7 DEF TypeInv
<1>9. Placed(place, bits, Built)'
  BY <1>2, <1>3, <1>4
<1>10. CrcInv(place)'
  <2>1. CASE IsCan20
    <3>1. PlainFrom(1, place, bits, Built) /\ NoneBefore(at, {"Crc"}, bits)
      BY <1>5, <2>1 DEF CrcInv
    <3>2. NoneBefore(at + 1, {"Crc"}, bits)
      BY <1>3, <1>6, <3>1 DEF NoneBefore
    <3> QED BY <1>3, <1>4, <2>1, <3>1, <3>2 DEF CrcInv
  <2>2. CASE ~IsCan20
    <3>1. PICK end \in 1 .. Len(bits) :
             /\ CountWritten(end, bits) /\ place[First(content) + 1] = end + 6
             /\ PlainFrom(end + 6, place, bits, Built) /\ at <= end + 6
      BY <1>5, <2>2 DEF CrcInv
    <3>2. CountWritten(end, bits)'
      BY <1>3, <1>4, <3>1 DEF CountWritten, StuffedInOrder, StuffCntBlock
    <3>3. at' <= end + 6
      BY <1>3, <1>6, <3>1
    <3> QED BY <1>3, <1>4, <2>2, <3>1, <3>2, <3>3 DEF CrcInv
  <2> QED BY <2>1, <2>2
<1>11. PhaseInv(place)'
  BY <1>3, <1>10 DEF PhaseInv
<1> QED BY <1>8, <1>9, <1>11 DEF FrameInv

\* The first bit of a frame without stuff bits is stuffed as it is.
LEMMA FirstBitStuffed ==
  ASSUME TypeInv, NEW place, NEW frame \in Seq(BitType),
         Placed(place, frame, Built), PlainFrom(1, place, frame, Built)
  PROVE  /\ PlainFrom(2, place, frame, Built) /\ ~IsStuff(frame[1])
         /\ StuffedBefore(2, frame) /\ NoneBefore(2, LastKinds, frame)
         /\ 0 = Cardinality(StuffBitsBefore(2, frame)) % 8
<1>1. Len(Built) \in Nat \ {0} /\ Layout(content, Built)
  BY BuiltFacts
<1>2. Len(frame) = Len(Built) /\ \A i \in 1 .. Len(Built) : place[i] = i
  BY <1>1, AllPlain
<1>3. Len(Built) >= 2
  <2>1. CrcLen(content) \in {15, 17, 21}
    BY CanOrFd DEF TypeInv, GoldenCrcLen
  <2>2. First(content) \in Nat
    BY <1>1 DEF Layout, First
  <2> QED BY <1>1, <2>1, <2>2 DEF Layout
<1>4. frame[1].kind = "Sof" /\ ~IsStuff(frame[1])
  <2>1. place[1] = 1 /\ 1 \in 1 .. Len(Built)
    BY <1>2, <1>3
  <2>2. frame[1].kind = Built[1].kind /\ ~IsStuff(frame[1])
    BY <2>1 DEF Placed
  <2> QED BY <1>1, <2>2 DEF Layout
<1>5. PlainFrom(2, place, frame, Built)
  <2>1. 2 \in 1 .. Len(frame)
    BY <1>2, <1>3
  <2> QED BY <1>1, <2>1, PlainFromOn
<1>6. StuffedBefore(2, frame)
  <2>1. ~FiveEqual(1, frame)
    BY DEF FiveEqual
  <2> QED BY <1>4, <2>1 DEF StuffedBefore
<1>7. NoneBefore(2, LastKinds, frame)
  BY <1>4 DEF NoneBefore, LastKinds, EndKinds
<1>8. Cardinality(StuffBitsBefore(2, frame)) = 0
  <2>1. StuffBitsBefore(2, frame) = {}
    BY <1>4 DEF StuffBitsBefore
  <2> QED BY <2>1, FS_EmptySet
<1> QED BY <1>4, <1>5, <1>6, <1>7, <1>8

\* The stuffing loop begins after the first bit.
LEMMA NormalStuffBegins ==
  ASSUME TypeInv, BeginNormalStuff, UNCHANGED <<content, edited>>, NEW place,
         bits' \in Seq(BitType), bits'[1].val = Dominant,
         Placed(place, bits', Built), PlainFrom(1, place, bits', Built)
  PROVE  NormalStuffInv(place)' /\ RunOfEqualBits'
<1>1. /\ at' = 2 /\ same' = 1 /\ prev' = Dominant /\ stuff_cnt' = 0
  BY DEF BeginNormalStuff
<1>2. Built' = Built /\ IsCan20' = IsCan20 /\ LastKinds' = LastKinds
  BY SameContent
<1>3. /\ PlainFrom(2, place, bits', Built) /\ ~IsStuff(bits'[1])
      /\ StuffedBefore(2, bits') /\ NoneBefore(2, LastKinds, bits')
      /\ 0 = Cardinality(StuffBitsBefore(2, bits')) % 8
  BY FirstBitStuffed
<1>4. StuffedInOrder(at, bits)'
  BY <1>1, <1>2, <1>3 DEF StuffedInOrder
<1>5. NormalStuffInv(place)'
  BY <1>1, <1>2, <1>3, <1>4 DEF NormalStuffInv
<1>6. RunOfEqualBits'
  BY <1>1 DEF RunOfEqualBits
<1> QED BY <1>5, <1>6

\* The stuff count stays as it is when the CRC that follows is written or stuffed.
LEMMA CountPart ==
  ASSUME NEW frame, NEW other, NEW end \in Nat, CountWritten(end, frame),
         SamePart(end + 5, frame, other), Len(other) \in Nat, Len(other) >= Len(frame), Len(frame) \in Nat
  PROVE  CountWritten(end, other)
<1>1. /\ end > 1 /\ end + 6 <= Len(frame)
      /\ StuffedInOrder(end, frame) /\ ~IsStuff(frame[end - 1]) /\ StuffCntBlock(end, frame)
  BY DEF CountWritten
<1>2. StuffedInOrder(end, other)
  <2>1. SamePart(end - 1, frame, other)
    BY DEF SamePart
  <2> QED BY <1>1, <2>1, StuffedPart
<1>3. ASSUME NEW i \in -1 .. 5
      PROVE  /\ other[end + i].kind = frame[end + i].kind /\ other[end + i].val = frame[end + i].val
             /\ other[end + i].stuff = frame[end + i].stuff
  <2>1. end + i \in 1 .. end + 5
    BY <1>1
  <2> QED BY <2>1 DEF SamePart
<1>4. ~IsStuff(other[end - 1])
  <2>1. end + (-1) = end - 1 /\ -1 \in -1 .. 5
    BY <1>1
  <2> QED BY <1>1, <1>3, <2>1 DEF IsStuff
<1>5. StuffCntBlock(end, other)
  <2>1. ASSUME NEW i \in {end, end + 5}
        PROVE  other[i].stuff = "Fixed" /\ other[i].val # other[i - 1].val
    <3>1. i - end \in 0 .. 5 /\ i - end \in -1 .. 5 /\ (i - end) - 1 \in -1 .. 5
          /\ end + (i - end) = i /\ end + ((i - end) - 1) = i - 1
      BY <1>1
    <3>2. frame[i].stuff = "Fixed" /\ frame[i].val # frame[i - 1].val
      BY <1>1 DEF StuffCntBlock
    <3> QED BY <1>3, <3>1, <3>2
  <2> DEFINE code == StuffCntEncoded(stuff_cnt)
             parity == EvenParity(StuffCntEncoded(stuff_cnt))
  <2>7. /\ \A i \in 1 .. 4 : frame[end + i].stuff = "NoStuff"
        /\ \A i \in 0 .. 3 : frame[end + i].kind = "StuffCnt"
        /\ frame[end + 4].kind = "StuffParity" /\ frame[end + 5].kind = "StuffParity"
        /\ \A i \in 1 .. 3 : frame[end + i].val = code[i]
        /\ frame[end + 4].val = parity
    BY <1>1 DEF StuffCntBlock, IsStuff
  <2>8. 0 .. 3 \subseteq -1 .. 5 /\ 1 .. 4 \subseteq -1 .. 5 /\ 1 .. 3 \subseteq -1 .. 5
        /\ 4 \in -1 .. 5 /\ 5 \in -1 .. 5
    OBVIOUS
  <2> HIDE DEF code, parity
  <2>2. \A i \in 1 .. 4 : ~IsStuff(other[end + i])
    BY <1>3, <2>7, <2>8 DEF IsStuff
  <2>3. \A i \in 0 .. 3 : other[end + i].kind = "StuffCnt"
    BY <1>3, <2>7, <2>8
  <2>4. other[end + 4].kind = "StuffParity" /\ other[end + 5].kind = "StuffParity"
    BY <1>3, <2>7, <2>8
  <2>5. \A i \in 1 .. 3 : other[end + i].val = code[i]
    BY <1>3, <2>7, <2>8
  <2>6. other[end + 4].val = parity
    BY <1>3, <2>7, <2>8
  <2> USE DEF code, parity
  <2> QED BY <2>1, <2>2, <2>3, <2>4, <2>5, <2>6 DEF StuffCntBlock
<1>6. end + 6 <= Len(other)
  BY <1>1
<1> QED BY <1>1, <1>2, <1>4, <1>5, <1>6 DEF CountWritten

\* Where no stuff bit has been inserted the bits of the CRC follow its first one.
LEMMA CrcBits ==
  ASSUME TypeInv, NEW place, Placed(place, bits, Built),
         NEW p \in 1 .. Len(bits), PlainFrom(p, place, bits, Built), place[First(content) + 1] = p,
         NEW m \in 0 .. GoldenCrcLen - 1
  PROVE  bits[p + m].kind = "Crc"
<1> DEFINE n == Len(Built)
           more == Len(bits) - n
           f == First(content)
<1>1. bits \in Seq(BitType) /\ Len(bits) \in Nat /\ Layout(content, Built) /\ n \in Nat \ {0}
  BY BuiltFacts DEF TypeInv
<1>2. GoldenCrcLen \in Nat /\ GoldenCrcLen = CrcLen(content)
  BY CanOrFd DEF TypeInv, GoldenCrcLen
<1>3. f \in Nat /\ n > f + GoldenCrcLen + 1
  BY <1>1, <1>2 DEF Layout, First
<1>4. \A i, j \in 1 .. n : i < j => place[i] < place[j]
  BY DEF Placed
<1>5. place \in [1 .. n -> 1 .. Len(bits)]
  BY DEF Placed
<1>6. p - more \in 1 .. n /\ place[p - more] = p
  BY <1>1, PlainKind
<1> HIDE DEF n, f
<1>7. p - more = f + 1
  <2>1. f + 1 \in 1 .. n /\ place[f + 1] = p
    <3>1. n \in Nat
      BY <1>1
    <3>2. f + 1 \in 1 .. n
      BY <1>2, <1>3, <3>1
    <3>3. place[f + 1] = p
      BY DEF f
    <3> QED BY <3>2, <3>3
  <2>2. ~(p - more < f + 1) /\ ~(f + 1 < p - more)
    BY <1>4, <1>6, <2>1
  <2>3. p - more \in Int /\ f + 1 \in Int
    BY <1>3, <1>6
  <2> HIDE DEF more
  <2> QED BY <2>2, <2>3
<1>8. more \in Int /\ p = f + 1 + more /\ Len(bits) = n + more
  BY <1>1, <1>3, <1>7
<1>9. p + m \in p .. Len(bits) /\ (p + m) - more = f + (m + 1)
  <2>1. n \in Nat /\ m \in Nat /\ m <= GoldenCrcLen - 1
    BY <1>1, <1>2
  <2> HIDE DEF more
  <2>2. p + m = f + m + 1 + more /\ p \in Int /\ p <= p + m /\ p + m <= n + more
    BY <1>2, <1>3, <1>8, <2>1
  <2> QED BY <1>3, <1>8, <2>1, <2>2
<1>10. bits[p + m].kind = Built[(p + m) - more].kind
  BY <1>1, <1>9, PlainKind DEF n
<1>11. Built[f + (m + 1)].kind = "Crc"
  <2>1. m + 1 \in 1 .. CrcLen(content)
    BY <1>2
  <2> QED BY <1>1, <2>1 DEF Layout, f
<1> QED BY <1>9, <1>10, <1>11

\* UpdateCrcBits writes the bits of the CRC and no others.
LEMMA WriteCrcStep ==
  ASSUME FrameInv, WriteCrc
  PROVE  FrameInv'
<1>1. TypeInv
  BY DEF FrameInv
<1>2. PICK place : Placed(place, bits, Built) /\ PhaseInv(place)
  BY DEF FrameInv
<1> PICK p : p = place[First(content) + 1]
  OBVIOUS
<1>3. /\ pc = "crc" /\ bits[at].kind = "Crc" /\ bits' = UpdateCrcBits(bits, crc)
      /\ IF IsCan20 THEN BeginNormalStuff ELSE BeginFixedStuff(bits')
      /\ content' = content /\ edited' = edited /\ updated' = updated /\ flipped' = flipped
  BY DEF WriteCrc, testVars
<1>4. /\ Built' = Built /\ IsCan20' = IsCan20 /\ LastKinds' = LastKinds /\ GoldenCrcLen' = GoldenCrcLen
      /\ First(content)' = First(content)
  BY <1>3, SameContent
<1>5. CrcInv(place)
  BY <1>2, <1>3 DEF PhaseInv
<1>6. /\ bits \in Seq(BitType) /\ Len(bits) \in Nat /\ at \in Nat \ {0}
      /\ Len(Built) \in Nat \ {0}
  BY <1>1, BuiltFacts DEF TypeInv
<1>7. /\ p \in 2 .. Len(bits) /\ bits[p].kind = "Crc" /\ NoneBefore(p, {"Crc"}, bits)
  BY <1>1, <1>2, <1>5, CrcPhase DEF CrcBegins
<1>8. WrittenOver(bits', bits, p, GoldenCrcLen, crc)
  <2>1. FirstOf(bits, "Crc") = p
    BY <1>6, <1>7, FoundFirst
  <2>2. /\ GoldenCrcLen \in Nat /\ p \in Nat
        /\ crc \in [1 .. GoldenCrcLen -> {Dominant, Recessive}] /\ Len(crc) = GoldenCrcLen
    BY <1>1, <1>7, CanOrFd DEF TypeInv, Dominant, Recessive
  <2> QED BY <1>3, <1>6, <2>1, <2>2, Overwritten DEF UpdateCrcBits
<1>9. /\ bits' \in Seq(BitType) /\ SameShape(bits, bits') /\ Len(bits') = Len(bits)
      /\ SamePart(p - 1, bits, bits')
  <2>1. bits' \in Seq(BitType) /\ SameShape(bits, bits') /\ Len(bits') = Len(bits)
    BY <1>8 DEF WrittenOver, SameShape
  <2>2. ASSUME NEW j \in 1 .. p - 1
        PROVE  bits'[j].val = bits[j].val
    <3>1. j \in 1 .. Len(bits) /\ ~(j \in p .. p + GoldenCrcLen - 1)
      BY <1>7
    <3> QED BY <1>8, <3>1 DEF WrittenOver
  <2>3. \A j \in 1 .. p - 1 : j \in 1 .. Len(bits)
    BY <1>6, <1>7
  <2> QED BY <2>1, <2>2, <2>3 DEF SamePart, SameShape
<1>10. bits'[1].val = Dominant
  <2>1. 1 \in 1 .. p - 1
    BY <1>7
  <2> QED BY <1>1, <1>9, <2>1 DEF SamePart, TypeInv
<1>14. SameFields(bits, bits')
  <2>1. PlainFrom(p, place, bits, Built)
    <3>1. CASE IsCan20
      <4>1. PlainFrom(1, place, bits, Built) /\ p \in 1 .. Len(bits)
        BY <1>5, <1>7, <3>1 DEF CrcInv
      <4> QED BY <1>6, <4>1, PlainFromOn
    <3>2. CASE ~IsCan20
      BY <1>1, <1>2, <1>5, <3>2, CrcPhase
    <3> QED BY <3>1, <3>2
  <2>2. ASSUME NEW j \in 1 .. Len(bits), bits[j].kind \notin Calculated
        PROVE  bits'[j].val = bits[j].val
    <3>1. SUFFICES ASSUME j \in p .. p + GoldenCrcLen - 1 PROVE FALSE
      BY <1>8 DEF WrittenOver
    <3>2. j - p \in 0 .. GoldenCrcLen - 1 /\ p + (j - p) = j /\ p \in 1 .. Len(bits)
      <4>1. GoldenCrcLen \in Nat
        BY <1>1, CanOrFd DEF TypeInv
      <4> QED BY <1>7, <3>1, <4>1
    <3>3. bits[j].kind = "Crc"
      BY <1>1, <1>2, <2>1, <3>2, CrcBits
    <3> QED BY <2>2, <3>3 DEF Calculated
  <2> QED BY <2>2 DEF SameFields
<1>11. Placed(place, bits', Built)
  BY <1>2, <1>6, <1>9, <1>14, ShapeKeepsPlaces
<1>12. CASE IsCan20
  <2>1. BeginNormalStuff
    BY <1>3, <1>12
  <2>2. PlainFrom(1, place, bits', Built)
    <3>1. PlainFrom(1, place, bits, Built)
      BY <1>5, <1>12 DEF CrcInv
    <3> QED BY <3>1, <1>6, <1>9, <1>14, ShapeKeepsPlaces
  <2>3. NormalStuffInv(place)' /\ RunOfEqualBits'
    BY <1>1, <1>3, <1>9, <1>10, <1>11, <2>1, <2>2, NormalStuffBegins
  <2>4. TypeInv'
    BY <1>1, <1>3, <1>4, <1>9, <1>10, <2>1 DEF TypeInv, BeginNormalStuff
  <2>5. PhaseInv(place)'
    BY <2>1, <2>3 DEF PhaseInv, BeginNormalStuff
  <2> QED BY <1>4, <1>11, <2>4, <2>5 DEF FrameInv
<1>13. CASE ~IsCan20
  <2>1. PICK end \in 1 .. Len(bits) : /\ CountWritten(end, bits) /\ p = end + 6
                                      /\ PlainFrom(end + 6, place, bits, Built)
    BY <1>1, <1>2, <1>5, <1>13, CrcPhase
  <2>2. /\ pc' = "fixed" /\ at' = FirstOf(bits', "Crc") /\ same' = 0
        /\ prev' = prev /\ stuff_cnt' = stuff_cnt /\ crc' = crc
    BY <1>3, <1>13 DEF BeginFixedStuff
  <2>3. FirstOf(bits', "Crc") = end + 6
    <3>1. bits'[p].kind = "Crc" /\ p \in 1 .. Len(bits')
      BY <1>7, <1>9 DEF SameShape
    <3>2. NoneBefore(p, {"Crc"}, bits')
      BY <1>7, <1>9 DEF NoneBefore, SamePart
    <3> QED BY <1>9, <2>1, <3>1, <3>2, FoundFirst
  <2>4. TypeInv'
    BY <1>1, <1>3, <1>4, <1>9, <1>10, <2>1, <2>2, <2>3 DEF TypeInv
  <2>5. CountWritten(end, bits')
    <3>1. end \in Nat /\ p - 1 = end + 5
      BY <2>1
    <3> QED BY <1>6, <1>9, <2>1, <3>1, CountPart
  <2>6. CountWritten(end, bits)'
    BY <1>4, <2>2, <2>5 DEF CountWritten, StuffedInOrder, StuffCntBlock
  <2>7. at' = end + 6 + same' + same' \div 4
    BY <2>1, <2>2, <2>3
  <2>8. PlainFrom(at', place, bits', Built')
    <3>1. PlainFrom(end + 6, place, bits', Built)
      BY <1>6, <1>9, <1>14, <2>1, ShapeKeepsPlaces
    <3> QED BY <1>4, <2>2, <2>3, <3>1
  <2>9. \A i \in end + 6 .. at' - 1 : FALSE
    BY <2>1, <2>2, <2>3
  <2>10. FixedStuffInv(place, end)'
    BY <1>4, <2>1, <2>6, <2>7, <2>8, <2>9 DEF FixedStuffInv
  <2>11. PhaseInv(place)'
    BY <1>4, <1>9, <1>13, <2>2, <2>10 DEF PhaseInv, StuffInv
  <2> QED BY <1>4, <1>11, <2>4, <2>11 DEF FrameInv
<1> QED BY <1>12, <1>13

-----------------------------------------------------------------------------
(* Fixed stuffing.                                                         *)

\* The loop comes to each bit of the CRC and, after them, to the delimiter.
LEMMA FixedPhase ==
  ASSUME TypeInv, ~IsCan20, NEW place, Placed(place, bits, Built),
         NEW end \in 1 .. Len(bits), FixedStuffInv(place, end)
  PROVE  /\ at \in end + 6 .. Len(bits) - 1 /\ Len(bits) \in Nat /\ ~IsStuff(bits[at])
         /\ bits[at].kind \in {"Crc", "CrcDelim"}
         /\ NoneBefore(at, {"CrcDelim"}, bits)
<1> DEFINE i == at - (Len(bits) - Len(Built))
           f == First(content)
           d == First(content) + CrcLen(content) + 1
           n == Len(Built)
<1>1. /\ bits \in Seq(BitType) /\ Len(bits) \in Nat /\ at \in Nat \ {0} /\ same \in Nat
      /\ Layout(content, Built) /\ n \in Nat \ {0}
  BY BuiltFacts DEF TypeInv
<1>2. CrcLen(content) \in {15, 17, 21}
  BY CanOrFd DEF TypeInv, GoldenCrcLen
<1>3. /\ f \in Nat /\ d \in Nat /\ f + 1 < d /\ d < n
      /\ \A k \in f + 1 .. d - 1 : Built[k].kind = "Crc"
      /\ Built[d].kind = "CrcDelim"
  <2>3. Len(UpToData(content)) \in Nat /\ n > d
    BY <1>1 DEF Layout
  <2>4. f \in Nat
    BY <2>3 DEF First
  <2> HIDE DEF f
  <2>1. f \in Nat /\ d \in Nat /\ f + 1 < d /\ d < n
    BY <1>2, <2>3, <2>4 DEF f
  <2> USE DEF f
  <2>2. ASSUME NEW k \in f + 1 .. d - 1
        PROVE  Built[k].kind = "Crc"
    <3>1. k - f \in 1 .. CrcLen(content) /\ f + (k - f) = k
      BY <1>2, <2>1
    <3> QED BY <1>1, <3>1 DEF Layout
  <2> QED BY <1>1, <2>1, <2>2 DEF Layout
<1>4. /\ CountWritten(end, bits) /\ place[f + 1] = end + 6
      /\ at = end + 6 + same + same \div 4 /\ PlainFrom(at, place, bits, Built)
      /\ \A k \in end + 6 .. at - 1 : bits[k].kind = "Crc"
  BY DEF FixedStuffInv
<1>5. /\ place \in [1 .. n -> 1 .. Len(bits)]
      /\ \A k, l \in 1 .. n : k < l => place[k] < place[l]
      /\ \A k \in 1 .. n : bits[place[k]].kind = Built[k].kind
      /\ place[n] = Len(bits)
  BY DEF Placed
<1>6. at >= end + 6 /\ at \in at .. Len(bits)
  <2>1. same \div 4 \in Nat
    BY <1>1
  <2> QED BY <1>1, <1>4, <2>1 DEF PlainFrom
<1>7. i \in 1 .. n /\ place[i] = at /\ bits[at].kind = Built[i].kind /\ ~IsStuff(bits[at])
  BY <1>1, <1>4, <1>6, PlainKind
<1> HIDE DEF i, f, d, n
<1>8. NoneBefore(at, {"CrcDelim"}, bits)
  <2>1. NoneBefore(end + 6, {"CrcDelim"}, bits)
    BY <1>4, NoneInCount DEF CountWritten
  <2>2. ASSUME NEW k \in 1 .. at - 1
        PROVE  bits[k].kind # "CrcDelim"
    <3>1. CASE k < end + 6
      BY <2>1, <3>1 DEF NoneBefore
    <3>2. CASE ~(k < end + 6)
      BY <1>4, <3>2
    <3> QED BY <3>1, <3>2
  <2> QED BY <2>2 DEF NoneBefore
<1>9. i >= f + 1
  <2>1. SUFFICES ASSUME i < f + 1 PROVE FALSE
    BY <1>3, <1>7
  <2>2. f + 1 \in 1 .. n
    BY <1>1, <1>3
  <2>3. place[i] < place[f + 1]
    BY <1>5, <1>7, <2>1, <2>2
  <2> QED BY <1>1, <1>4, <1>6, <1>7, <2>3
<1>10. i <= d
  <2>1. SUFFICES ASSUME d < i PROVE FALSE
    BY <1>3, <1>7
  <2>2. d \in 1 .. n
    BY <1>1, <1>3
  <2>3. place[d] \in 1 .. at - 1
    BY <1>1, <1>5, <1>7, <2>1, <2>2
  <2>4. bits[place[d]].kind = "CrcDelim"
    BY <1>3, <1>5, <2>2
  <2> QED BY <1>8, <2>3, <2>4 DEF NoneBefore
<1>11. bits[at].kind \in {"Crc", "CrcDelim"}
  BY <1>3, <1>7, <1>9, <1>10
<1>12. at < Len(bits)
  <2>1. i < n /\ n \in 1 .. n
    BY <1>1, <1>3, <1>7, <1>10
  <2> QED BY <1>1, <1>5, <1>7, <2>1
<1> QED BY <1>1, <1>6, <1>7, <1>8, <1>11, <1>12

\* InsertFixedStuffToCrc counts bits without stuff bits: one of four of them is one of five
\* positions.
LEMMA EveryFifth ==
  ASSUME NEW s \in Nat
  PROVE  /\ (s + 1) % 4 # 0 => (s + 1) \div 4 = s \div 4 /\ (6 + s + s \div 4) % 5 # 0
         /\ (s + 1) % 4 = 0 => /\ (s + 1) \div 4 = s \div 4 + 1
                               /\ (6 + s + s \div 4) % 5 # 0 /\ (7 + s + s \div 4) % 5 = 0
OBVIOUS

\* A bit of the CRC that is not the fourth is followed by no stuff bit.
LEMMA PassCrcBitStep ==
  ASSUME FrameInv, PassCrcBit
  PROVE  FrameInv'
<1>1. TypeInv
  BY DEF FrameInv
<1>2. PICK place : Placed(place, bits, Built) /\ PhaseInv(place)
  BY DEF FrameInv
<1>3. /\ pc = "fixed" /\ bits[at].kind # "CrcDelim" /\ (same + 1) % 4 # 0
      /\ same' = same + 1 /\ at' = at + 1 /\ content' = content /\ edited' = edited
      /\ updated' = updated /\ flipped' = flipped
      /\ bits' = bits /\ pc' = pc /\ prev' = prev /\ stuff_cnt' = stuff_cnt /\ crc' = crc
  BY DEF PassCrcBit, testVars, FixedStuffDue, CrcStuffEvery
<1>4. /\ Built' = Built /\ IsCan20' = IsCan20 /\ LastKinds' = LastKinds /\ GoldenCrcLen' = GoldenCrcLen
      /\ First(content)' = First(content)
  BY <1>3, SameContent
<1>5. ~IsCan20 /\ StuffInv(place)
  BY <1>2, <1>3 DEF PhaseInv
<1>6. PICK end \in 1 .. Len(bits) : FixedStuffInv(place, end)
  BY <1>5 DEF StuffInv
<1>7. /\ at \in end + 6 .. Len(bits) - 1 /\ Len(bits) \in Nat /\ ~IsStuff(bits[at])
      /\ bits[at].kind = "Crc"
  BY <1>1, <1>2, <1>3, <1>5, <1>6, FixedPhase
<1>8. /\ CountWritten(end, bits) /\ place[First(content) + 1] = end + 6
      /\ at = end + 6 + same + same \div 4 /\ PlainFrom(at, place, bits, Built)
      /\ \A i \in end + 6 .. at - 1 :
           /\ bits[i].kind = "Crc"
           /\ IsStuff(bits[i]) <=> (i - end) % 5 = 0
           /\ IsStuff(bits[i]) => bits[i].val # bits[i - 1].val
  BY <1>6 DEF FixedStuffInv
<1>9. same \in Nat /\ bits \in Seq(BitType) /\ Len(Built) \in Nat \ {0}
  BY <1>1, BuiltFacts DEF TypeInv
<1>10. (same + 1) \div 4 = same \div 4 /\ (6 + same + same \div 4) % 5 # 0
  BY <1>3, <1>9, EveryFifth
<1>11. FixedStuffInv(place, end)'
  <2>1. CountWritten(end, bits)'
    BY <1>3, <1>4, <1>8 DEF CountWritten, StuffedInOrder, StuffCntBlock
  <2>2. at' = end + 6 + same' + same' \div 4
    <3>1. same \div 4 \in Nat
      BY <1>9
    <3>2. same' \div 4 = same \div 4
      BY <1>3, <1>10
    <3>3. at + 1 = end + 6 + (same + 1) + same \div 4
      BY <1>7, <1>8, <1>9, <3>1
    <3> QED BY <1>3, <3>2, <3>3
  <2>3. PlainFrom(at', place, bits', Built')
    <3>1. PlainFrom(at + 1, place, bits, Built)
      BY <1>7, <1>8, <1>9, PlainFromOn
    <3> QED BY <1>3, <1>4, <3>1
  <2>4. ~IsStuff(bits[at]) /\ (at - end) % 5 # 0
    <3>1. at - end = 6 + same + same \div 4
      BY <1>7, <1>8, <1>9
    <3> QED BY <1>7, <1>10, <3>1
  <2>5. ASSUME NEW i \in end + 6 .. at' - 1
        PROVE  /\ bits'[i].kind = "Crc"
               /\ IsStuff(bits'[i]) <=> (i - end) % 5 = 0
               /\ IsStuff(bits'[i]) => bits'[i].val # bits'[i - 1].val
    <3>1. CASE i = at
      BY <1>3, <1>7, <2>4, <3>1
    <3>2. CASE i # at
      <4>1. i \in end + 6 .. at - 1
        BY <1>3, <1>7, <3>2
      <4> QED BY <1>3, <1>8, <4>1
    <3> QED BY <3>1, <3>2
  <2> QED BY <1>3, <1>4, <1>8, <2>1, <2>2, <2>3, <2>5 DEF FixedStuffInv
<1>12. TypeInv'
  BY <1>1, <1>3, <1>4, <1>7 DEF TypeInv
<1>13. PhaseInv(place)'
  BY <1>3, <1>4, <1>5, <1>11 DEF PhaseInv, StuffInv
<1> QED BY <1>2, <1>3, <1>4, <1>12, <1>13 DEF FrameInv

\* Each fourth bit of the CRC is followed by a fixed stuff bit of the opposite value.
LEMMA InsertFixedStuffBitStep ==
  ASSUME FrameInv, InsertFixedStuffBit
  PROVE  FrameInv'
<1>1. TypeInv
  BY DEF FrameInv
<1>2. PICK place : Placed(place, bits, Built) /\ PhaseInv(place)
  BY DEF FrameInv
<1> PICK stuff : stuff = Bit("Crc", Opposite(bits[at].val), "Fixed")
  OBVIOUS
<1> PICK moved : moved = MovedUp(place, at + 1)
  OBVIOUS
<1>3. /\ pc = "fixed" /\ bits[at].kind # "CrcDelim" /\ (same + 1) % 4 = 0
      /\ bits' = FixedStuffBefore(bits, at + 1, "Crc")
      /\ same' = same + 1 /\ at' = at + 2 /\ content' = content /\ edited' = edited
      /\ updated' = updated /\ flipped' = flipped
      /\ pc' = pc /\ prev' = prev /\ stuff_cnt' = stuff_cnt /\ crc' = crc
  BY DEF InsertFixedStuffBit, testVars, FixedStuffDue, CrcStuffEvery
<1>4. /\ Built' = Built /\ IsCan20' = IsCan20 /\ LastKinds' = LastKinds /\ GoldenCrcLen' = GoldenCrcLen
      /\ First(content)' = First(content)
  BY <1>3, SameContent
<1>5. ~IsCan20 /\ StuffInv(place)
  BY <1>2, <1>3 DEF PhaseInv
<1>6. PICK end \in 1 .. Len(bits) : FixedStuffInv(place, end)
  BY <1>5 DEF StuffInv
<1>7. /\ at \in end + 6 .. Len(bits) - 1 /\ Len(bits) \in Nat /\ ~IsStuff(bits[at])
      /\ bits[at].kind = "Crc"
  BY <1>1, <1>2, <1>3, <1>5, <1>6, FixedPhase
<1>8. /\ CountWritten(end, bits) /\ place[First(content) + 1] = end + 6
      /\ at = end + 6 + same + same \div 4 /\ PlainFrom(at, place, bits, Built)
      /\ \A i \in end + 6 .. at - 1 :
           /\ bits[i].kind = "Crc"
           /\ IsStuff(bits[i]) <=> (i - end) % 5 = 0
           /\ IsStuff(bits[i]) => bits[i].val # bits[i - 1].val
  BY <1>6 DEF FixedStuffInv
<1>9. same \in Nat /\ bits \in Seq(BitType) /\ Len(Built) \in Nat \ {0}
  BY <1>1, BuiltFacts DEF TypeInv
<1>10. /\ (same + 1) \div 4 = same \div 4 + 1
       /\ (6 + same + same \div 4) % 5 # 0 /\ (7 + same + same \div 4) % 5 = 0
  BY <1>3, <1>9, EveryFifth
<1>11. stuff \in BitType /\ IsStuff(stuff) /\ stuff.kind = "Crc" /\ stuff.val # bits[at].val
  <2>1. "Crc" \in AllKinds
    BY DEF AllKinds
  <2>2. bits[at].val \in {Dominant, Recessive}
    <3>1. at \in 1 .. Len(bits)
      BY <1>7
    <3> QED BY <1>9, <3>1, BitValues
  <2> QED BY <2>1, <2>2, FixedStuffBit
<1>12. bits' = InsertBit(bits, at + 1, stuff)
  <2>1. (at + 1) - 1 = at
    BY <1>7
  <2> QED BY <1>3, <2>1 DEF FixedStuffBefore
<1>13. /\ bits' \in Seq(BitType) /\ Len(bits') = Len(bits) + 1
       /\ \A j \in 1 .. Len(bits) + 1 :
            bits'[j] = IF j < at + 1 THEN bits[j] ELSE IF j = at + 1 THEN stuff ELSE bits[j - 1]
  <2>1. at + 1 \in 1 .. Len(bits) + 1
    BY <1>7
  <2>2. InsertedAt(bits', bits, at + 1, stuff)
    BY <1>9, <1>11, <1>12, <2>1, Inserted
  <2> QED BY <2>2 DEF InsertedAt
<1>14. /\ \A j \in 1 .. at : bits'[j] = bits[j]
       /\ bits'[at + 1] = stuff
  <2>1. ASSUME NEW j \in 1 .. at
        PROVE  bits'[j] = bits[j]
    <3>1. j \in 1 .. Len(bits) + 1 /\ j < at + 1
      BY <1>7
    <3> QED BY <1>13, <3>1
  <2>2. at + 1 \in 1 .. Len(bits) + 1 /\ ~(at + 1 < at + 1)
    BY <1>7
  <2> QED BY <1>13, <2>1, <2>2
<1>15. Placed(moved, bits', Built) /\ PlainFrom(at + 2, moved, bits', Built)
  <2>1. PlainFrom(at + 1, place, bits, Built)
    BY <1>7, <1>8, <1>9, PlainFromOn
  <2>2. at + 1 \in 2 .. Len(bits) /\ at + 1 <= at + 1 /\ (at + 1) + 1 = at + 2
    BY <1>7
  <2>3. Placed(moved, bits', Built)
    BY <1>2, <1>9, <1>11, <1>12, <2>2, PlacedMovedUp
  <2>4. PlainFrom((at + 1) + 1, moved, bits', Built)
    BY <1>2, <1>9, <1>11, <1>12, <2>1, <2>2, PlainMovedUp
  <2> QED BY <2>2, <2>3, <2>4
<1>16. FixedStuffInv(moved, end)'
  <2>1. CountWritten(end, bits)'
    <3>1. SamePart(end + 5, bits, bits')
      <4>1. \A j \in 1 .. end + 5 : j \in 1 .. at
        BY <1>7
      <4> QED BY <1>14, <4>1 DEF SamePart
    <3>2. CountWritten(end, bits')
      <4>1. Len(bits') \in Nat /\ Len(bits') >= Len(bits) /\ end \in Nat
        BY <1>7, <1>13
      <4> QED BY <1>7, <1>8, <3>1, <4>1, CountPart
    <3> QED BY <1>3, <1>4, <3>2 DEF CountWritten, StuffedInOrder, StuffCntBlock
  <2>2. moved[First(content) + 1] = end + 6
    <3>1. First(content) + 1 \in 1 .. Len(Built)
      <4>1. Layout(content, Built) /\ CrcLen(content) \in {15, 17, 21}
        BY <1>1, BuiltFacts, CanOrFd DEF TypeInv, GoldenCrcLen
      <4>2. First(content) \in Nat
        BY <4>1 DEF Layout, First
      <4> QED BY <1>9, <4>1, <4>2 DEF Layout
    <3>2. place \in [1 .. Len(Built) -> 1 .. Len(bits)]
      BY <1>2 DEF Placed
    <3> QED BY <1>7, <1>8, <3>1, <3>2 DEF MovedUp
  <2>3. at' = end + 6 + same' + same' \div 4
    <3>1. same \div 4 \in Nat
      BY <1>9
    <3> QED BY <1>3, <1>7, <1>8, <1>9, <1>10, <3>1
  <2>4. /\ ~IsStuff(bits'[at]) /\ (at - end) % 5 # 0 /\ bits'[at].kind = "Crc"
        /\ IsStuff(bits'[at + 1]) /\ ((at + 1) - end) % 5 = 0 /\ bits'[at + 1].kind = "Crc"
        /\ bits'[at + 1].val # bits'[at].val
    <3>1. at - end = 6 + same + same \div 4 /\ (at + 1) - end = 7 + same + same \div 4
      BY <1>7, <1>8, <1>9
    <3>2. bits'[at] = bits[at] /\ bits'[at + 1] = stuff
      BY <1>7, <1>14
    <3> QED BY <1>7, <1>10, <1>11, <3>1, <3>2
  <2>5. ASSUME NEW i \in end + 6 .. at' - 1
        PROVE  /\ bits'[i].kind = "Crc"
               /\ IsStuff(bits'[i]) <=> (i - end) % 5 = 0
               /\ IsStuff(bits'[i]) => bits'[i].val # bits'[i - 1].val
    <3>1. CASE i = at
      BY <2>4, <3>1
    <3>2. CASE i = at + 1
      <4>1. (at + 1) - 1 = at
        BY <1>7
      <4> QED BY <2>4, <3>2, <4>1
    <3>3. CASE i < at
      <4>1. i \in end + 6 .. at - 1 /\ i \in 1 .. at /\ i - 1 \in 1 .. at
        BY <1>3, <1>7, <3>3
      <4> QED BY <1>8, <1>14, <4>1
    <3>4. i = at \/ i = at + 1 \/ i < at
      <4>1. at' = at + 2 /\ at \in Int /\ end \in Int
        BY <1>3, <1>7
      <4> QED BY <4>1
    <3> QED BY <3>1, <3>2, <3>3, <3>4
  <2> QED BY <1>3, <1>4, <1>15, <2>1, <2>2, <2>3, <2>5 DEF FixedStuffInv
<1>17. TypeInv'
  <2>1. bits'[1].val = Dominant
    <3>1. 1 \in 1 .. at
      BY <1>7
    <3> QED BY <1>1, <1>14, <3>1 DEF TypeInv
  <2> QED BY <1>1, <1>3, <1>4, <1>7, <1>13, <2>1 DEF TypeInv
<1>18. PhaseInv(moved)'
  <2>1. end \in 1 .. Len(bits')
    BY <1>7, <1>13
  <2> QED BY <1>3, <1>4, <1>5, <1>16, <2>1 DEF PhaseInv, StuffInv
<1> QED BY <1>4, <1>15, <1>17, <1>18 DEF FrameInv

\* The CRC of a CAN FD frame is stuffed up to its delimiter.
LEMMA EndFixedStuffStep ==
  ASSUME FrameInv, EndFixedStuff
  PROVE  FrameInv'
<1>1. TypeInv
  BY DEF FrameInv
<1>2. PICK place : Placed(place, bits, Built) /\ PhaseInv(place)
  BY DEF FrameInv
<1>3. /\ pc = "fixed" /\ bits[at].kind = "CrcDelim" /\ pc' = "done"
      /\ content' = content /\ edited' = edited
      /\ updated' = updated /\ flipped' = flipped /\ bits' = bits /\ at' = at /\ same' = same
      /\ prev' = prev /\ stuff_cnt' = stuff_cnt /\ crc' = crc
  BY DEF EndFixedStuff, testVars
<1>4. /\ Built' = Built /\ IsCan20' = IsCan20 /\ LastKinds' = LastKinds /\ GoldenCrcLen' = GoldenCrcLen
      /\ First(content)' = First(content)
  BY <1>3, SameContent
<1>5. TypeInv'
  BY <1>1, <1>3, <1>4 DEF TypeInv
<1>6. ~IsCan20 /\ StuffInv(place)
  BY <1>2, <1>3 DEF PhaseInv
<1>7. PICK end \in 1 .. Len(bits) : FixedStuffInv(place, end)
  BY <1>6 DEF StuffInv
<1>8. FixedStuffInv(place, end)'
  <2>1. CountWritten(end, bits)' <=> CountWritten(end, bits)
    BY <1>3, <1>4 DEF CountWritten, StuffedInOrder, StuffCntBlock
  <2>2. PlainFrom(at', place, bits', Built') <=> PlainFrom(at, place, bits, Built)
    BY <1>3, <1>4
  <2> QED BY <1>3, <1>4, <1>7, <2>1, <2>2 DEF FixedStuffInv
<1>9. PhaseInv(place)'
  BY <1>3, <1>4, <1>6, <1>8 DEF PhaseInv, StuffInv
<1> QED BY <1>2, <1>3, <1>4, <1>5, <1>9 DEF FrameInv

-----------------------------------------------------------------------------
(* Erasing.                                                                *)

\* A stuff bit is removed: the bits past it move down.
MovedDown(place, i) == [k \in DOMAIN place |-> IF place[k] > i THEN place[k] - 1 ELSE place[k]]

\* A stuff bit that is erased moves down the bits behind it, in their order.
LEMMA PlacedMovedDown ==
  ASSUME NEW frame \in Seq(BitType), NEW built, Len(built) \in Nat \ {0},
         NEW place, Placed(place, frame, built),
         NEW i \in 2 .. Len(frame) - 1, IsStuff(frame[i])
  PROVE  Placed(MovedDown(place, i), RemoveAt(frame, i), built)
<1> DEFINE n == Len(built)
<1> PICK new : new = RemoveAt(frame, i)
  OBVIOUS
<1> PICK moved : moved = MovedDown(place, i)
  OBVIOUS
<1>1. /\ Len(frame) \in Nat /\ Len(new) = Len(frame) - 1
      /\ \A j \in 1 .. Len(frame) - 1 : new[j] = IF j < i THEN frame[j] ELSE frame[j + 1]
  <2>1. i \in 1 .. Len(frame)
    OBVIOUS
  <2>2. RemovedAt(new, frame, i)
    BY <2>1, Removed
  <2> QED BY <2>2 DEF RemovedAt
<1>2. /\ place \in [1 .. n -> 1 .. Len(frame)] /\ n \in Nat \ {0}
      /\ \A k, l \in 1 .. n : k < l => place[k] < place[l]
      /\ \A k \in 1 .. n : frame[place[k]].kind = built[k].kind /\ ~IsStuff(frame[place[k]])
      /\ \A k \in 1 .. n : built[k].kind \notin Calculated => frame[place[k]].val = built[k].val
      /\ \A j \in 1 .. Len(frame) : ~IsStuff(frame[j]) => \E k \in 1 .. n : place[k] = j
      /\ place[1] = 1 /\ place[n] = Len(frame)
  BY DEF Placed
<1> HIDE DEF n
<1>3. \A k \in 1 .. n : place[k] # i
  BY <1>2
<1>4. /\ moved \in [1 .. n -> 1 .. Len(new)]
      /\ \A k \in 1 .. n : moved[k] = IF place[k] > i THEN place[k] - 1 ELSE place[k]
  BY <1>1, <1>2, <1>3 DEF MovedDown
<1>5. ASSUME NEW k \in 1 .. n, NEW l \in 1 .. n, k < l
      PROVE  moved[k] < moved[l]
  <2>1. /\ place[k] \in Int /\ place[l] \in Int /\ place[k] < place[l] /\ i \in Int
        /\ place[k] # i /\ place[l] # i
    BY <1>2, <1>3, <1>5
  <2>2. moved[k] = IF place[k] > i THEN place[k] - 1 ELSE place[k]
    BY <1>4
  <2>3. moved[l] = IF place[l] > i THEN place[l] - 1 ELSE place[l]
    BY <1>4
  <2> QED BY <2>1, <2>2, <2>3
<1>6. ASSUME NEW k \in 1 .. n
      PROVE  new[moved[k]] = frame[place[k]]
  <2>1. place[k] \in 1 .. Len(frame) /\ moved[k] \in 1 .. Len(frame) - 1 /\ place[k] # i
    BY <1>1, <1>2, <1>3, <1>4
  <2>2. CASE place[k] > i
    <3>1. moved[k] = place[k] - 1 /\ ~(moved[k] < i) /\ moved[k] + 1 = place[k]
      BY <1>1, <1>4, <2>1, <2>2
    <3> QED BY <1>1, <2>1, <3>1
  <2>3. CASE place[k] < i
    BY <1>1, <1>4, <2>1, <2>3
  <2> QED BY <1>1, <2>1, <2>2, <2>3
<1>7. ASSUME NEW j \in 1 .. Len(new), ~IsStuff(new[j])
      PROVE  \E k \in 1 .. n : moved[k] = j
  <2>1. CASE j < i
    <3>1. j \in 1 .. Len(frame) /\ ~IsStuff(frame[j])
      BY <1>1, <1>7, <2>1
    <3>2. PICK k \in 1 .. n : place[k] = j
      BY <1>2, <3>1
    <3>3. moved[k] = j
      BY <1>4, <2>1, <3>2
    <3> QED BY <3>3
  <2>2. CASE ~(j < i)
    <3>1. j + 1 \in 1 .. Len(frame) /\ ~IsStuff(frame[j + 1]) /\ j + 1 > i
      BY <1>1, <1>7, <2>2
    <3>2. PICK k \in 1 .. n : place[k] = j + 1
      BY <1>2, <3>1
    <3>3. moved[k] = j
      BY <1>4, <3>1, <3>2
    <3> QED BY <3>3
  <2> QED BY <2>1, <2>2
<1>8. moved[1] = 1 /\ moved[n] = Len(new)
  BY <1>1, <1>2, <1>4
<1> QED BY <1>2, <1>4, <1>5, <1>6, <1>7, <1>8 DEF Placed, n

\* While bits are erased, what has been passed is as it was built.
LEMMA ErasePhase ==
  ASSUME TypeInv, NEW place, Placed(place, bits, Built), EraseInv(place), at <= Len(bits)
  PROVE  /\ at \in 1 .. Len(Built) /\ place[at] >= at /\ Len(bits) \in Nat
         /\ IsStuff(bits[at]) => at \in 2 .. Len(bits) - 1 /\ place[at] = at + 1
         /\ ~IsStuff(bits[at]) => place[at] = at
<1> DEFINE n == Len(Built)
           l == Len(bits)
<1>1. bits \in Seq(BitType) /\ l \in Nat /\ at \in Nat \ {0} /\ n \in Nat \ {0}
  BY BuiltFacts DEF TypeInv
<1>2. /\ place \in [1 .. n -> 1 .. l]
      /\ \A k, m \in 1 .. n : k < m => place[k] < place[m]
      /\ \A k \in 1 .. n : ~IsStuff(bits[place[k]])
      /\ \A j \in 1 .. l : ~IsStuff(bits[j]) => \E k \in 1 .. n : place[k] = j
      /\ place[1] = 1 /\ place[n] = l
  BY DEF Placed
<1>3. /\ \A k \in 1 .. at - 1 : ~IsStuff(bits[k]) /\ (k <= n => place[k] = k)
      /\ \A k \in at .. l - 1 : ~(IsStuff(bits[k]) /\ IsStuff(bits[k + 1]))
  BY DEF EraseInv
<1>4. at <= l
  OBVIOUS
<1> HIDE DEF n, l
<1>5. at <= n
  <2>1. SUFFICES ASSUME n < at PROVE FALSE
    BY <1>1
  <2>2. place[n] = n
    BY <1>1, <1>3, <2>1
  <2> QED BY <1>1, <1>2, <1>4, <2>1, <2>2
<1>6. place[at] >= at
  <2>1. CASE at = 1
    BY <1>2, <2>1
  <2>2. CASE at # 1
    <3>1. at - 1 \in 1 .. n /\ at \in 1 .. n /\ place[at - 1] = at - 1
      BY <1>1, <1>3, <1>5, <2>2
    <3>2. place[at - 1] < place[at]
      BY <1>1, <1>2, <3>1
    <3> QED BY <1>1, <1>2, <3>1, <3>2
  <2> QED BY <2>1, <2>2
\* The next place is at a bit that is at or past the loop.
<1>7. ASSUME NEW j \in at .. l, ~IsStuff(bits[j])
      PROVE  place[at] <= j
  <2>1. PICK k \in 1 .. n : place[k] = j
    <3>1. j \in 1 .. l
      BY <1>1
    <3> QED BY <1>2, <1>7, <3>1
  <2>2. k >= at
    BY <1>1, <1>3, <2>1
  <2>3. CASE k = at
    BY <1>1, <2>1, <2>3
  <2>4. CASE k > at
    BY <1>1, <1>2, <1>5, <2>1, <2>4
  <2> QED BY <1>1, <2>2, <2>3, <2>4
<1>8. ASSUME ~IsStuff(bits[at])
      PROVE  place[at] = at
  <2>1. place[at] <= at
    BY <1>1, <1>4, <1>7, <1>8
  <2> QED BY <1>1, <1>2, <1>5, <1>6, <2>1
<1>9. ASSUME IsStuff(bits[at])
      PROVE  at \in 2 .. l - 1 /\ place[at] = at + 1
  <2>1. at # 1
    BY <1>1, <1>2, <1>9
  <2>2. at # l
    BY <1>1, <1>2, <1>9
  <2>3. at \in 2 .. l - 1
    BY <1>1, <1>4, <2>1, <2>2
  <2>4. ~IsStuff(bits[at + 1])
    BY <1>1, <1>3, <1>9, <2>3
  <2>5. place[at] <= at + 1
    BY <1>1, <1>7, <2>3, <2>4
  <2>6. place[at] # at /\ place[at] \in 1 .. l
    BY <1>1, <1>2, <1>5, <1>9
  <2> QED BY <1>1, <1>6, <2>3, <2>5, <2>6
<1> QED BY <1>1, <1>5, <1>6, <1>8, <1>9 DEF n, l

\* The first loop of UpdateFrame passes a bit that is no stuff bit.
LEMMA PassPlainBitStep ==
  ASSUME FrameInv, PassPlainBit
  PROVE  FrameInv'
<1>1. TypeInv
  BY DEF FrameInv
<1>2. PICK place : Placed(place, bits, Built) /\ PhaseInv(place)
  BY DEF FrameInv
<1>3. /\ pc = "erase" /\ at <= Len(bits) /\ ~IsStuff(bits[at]) /\ pc' = pc
      /\ content' = content /\ edited' = edited
      /\ updated' = updated /\ flipped' = flipped /\ bits' = bits /\ at' = at + 1 /\ same' = same
      /\ prev' = prev /\ stuff_cnt' = stuff_cnt /\ crc' = crc
  BY DEF PassPlainBit, testVars, Erasing
<1>4. Built' = Built /\ GoldenCrcLen' = GoldenCrcLen
  BY <1>3, SameContent
<1>5. EraseInv(place)
  BY <1>2, <1>3 DEF PhaseInv
<1>6. at \in 1 .. Len(Built) /\ place[at] = at /\ Len(bits) \in Nat
  BY <1>1, <1>2, <1>3, <1>5, ErasePhase
<1>7. TypeInv'
  BY <1>1, <1>3, <1>4, <1>6 DEF TypeInv
<1>8. EraseInv(place)'
  <2>1. at + 1 <= Len(bits) + 1
    BY <1>3, <1>6
  <2>2. ASSUME NEW i \in 1 .. (at + 1) - 1
        PROVE  ~IsStuff(bits[i]) /\ (i <= Len(Built) => place[i] = i)
    <3>1. CASE i = at
      BY <1>3, <1>6, <3>1
    <3>2. CASE i # at
      <4>1. i \in 1 .. at - 1
        BY <1>6, <3>2
      <4> QED BY <1>5, <4>1 DEF EraseInv
    <3> QED BY <3>1, <3>2
  <2>3. \A i \in at + 1 .. Len(bits) - 1 : ~(IsStuff(bits[i]) /\ IsStuff(bits[i + 1]))
    BY <1>5, <1>6 DEF EraseInv
  <2> QED BY <1>3, <1>4, <2>1, <2>2, <2>3 DEF EraseInv
<1>9. PhaseInv(place)'
  BY <1>3, <1>8 DEF PhaseInv
<1> QED BY <1>2, <1>3, <1>4, <1>7, <1>9 DEF FrameInv

\* The first loop of UpdateFrame erases a stuff bit; the bit it passes over is none.
LEMMA EraseStuffBitStep ==
  ASSUME FrameInv, EraseStuffBit
  PROVE  FrameInv'
<1>1. TypeInv
  BY DEF FrameInv
<1>2. PICK place : Placed(place, bits, Built) /\ PhaseInv(place)
  BY DEF FrameInv
<1> PICK moved : moved = MovedDown(place, at)
  OBVIOUS
<1>3. /\ pc = "erase" /\ at <= Len(bits) /\ IsStuff(bits[at]) /\ pc' = pc
      /\ content' = content /\ edited' = edited
      /\ updated' = updated /\ flipped' = flipped /\ bits' = RemoveAt(bits, at) /\ at' = at + 1
      /\ same' = same /\ prev' = prev /\ stuff_cnt' = stuff_cnt /\ crc' = crc
  BY DEF EraseStuffBit, testVars, Erasing
<1>4. Built' = Built /\ GoldenCrcLen' = GoldenCrcLen
  BY <1>3, SameContent
<1>5. EraseInv(place)
  BY <1>2, <1>3 DEF PhaseInv
<1>6. /\ at \in 1 .. Len(Built) /\ place[at] = at + 1 /\ at \in 2 .. Len(bits) - 1
      /\ Len(bits) \in Nat
  BY <1>1, <1>2, <1>3, <1>5, ErasePhase
<1>7. bits \in Seq(BitType) /\ Len(Built) \in Nat \ {0}
  BY <1>1, BuiltFacts DEF TypeInv
<1>8. /\ bits' \in Seq(BitType) /\ Len(bits') = Len(bits) - 1
      /\ \A j \in 1 .. Len(bits) - 1 : bits'[j] = IF j < at THEN bits[j] ELSE bits[j + 1]
  <2>1. at \in 1 .. Len(bits)
    BY <1>6
  <2>2. RemovedAt(bits', bits, at)
    BY <1>3, <1>7, <2>1, Removed
  <2> QED BY <2>2 DEF RemovedAt
<1>9. TypeInv'
  <2>1. bits'[1] = bits[1]
    BY <1>6, <1>8
  <2> QED BY <1>1, <1>3, <1>4, <1>6, <1>8, <2>1 DEF TypeInv
<1>10. Placed(moved, bits', Built)
  BY <1>2, <1>3, <1>6, <1>7, PlacedMovedDown
<1>11. EraseInv(moved)'
  <2>1. at + 1 <= Len(bits') + 1
    BY <1>6, <1>8
  <2>2. /\ place \in [1 .. Len(Built) -> 1 .. Len(bits)]
        /\ \A k \in 1 .. Len(Built) : moved[k] = IF place[k] > at THEN place[k] - 1 ELSE place[k]
    BY <1>2 DEF Placed, MovedDown
  <2>3. ASSUME NEW i \in 1 .. (at + 1) - 1
        PROVE  ~IsStuff(bits'[i]) /\ (i <= Len(Built) => moved[i] = i)
    <3>1. CASE i = at
      <4>1. ~IsStuff(bits[at + 1])
        BY <1>3, <1>5, <1>6 DEF EraseInv
      <4>2. bits'[at] = bits[at + 1]
        BY <1>6, <1>8
      <4>3. moved[at] = at
        BY <1>6, <2>2
      <4> QED BY <3>1, <4>1, <4>2, <4>3
    <3>2. CASE i # at
      <4>1. i \in 1 .. at - 1 /\ i \in 1 .. Len(Built)
        BY <1>6, <3>2
      <4>2. ~IsStuff(bits[i]) /\ place[i] = i
        BY <1>5, <4>1 DEF EraseInv
      <4>3. bits'[i] = bits[i]
        BY <1>6, <1>8, <4>1
      <4>4. moved[i] = i
        BY <1>6, <2>2, <4>1, <4>2
      <4> QED BY <4>2, <4>3, <4>4
    <3> QED BY <3>1, <3>2
  <2>4. ASSUME NEW i \in at + 1 .. Len(bits') - 1
        PROVE  ~(IsStuff(bits'[i]) /\ IsStuff(bits'[i + 1]))
    <3>1. /\ i \in 1 .. Len(bits) - 1 /\ i + 1 \in 1 .. Len(bits) - 1 /\ ~(i < at) /\ ~(i + 1 < at)
          /\ i + 1 \in at .. Len(bits) - 1
      BY <1>6, <1>8
    <3>2. bits'[i] = bits[i + 1] /\ bits'[i + 1] = bits[(i + 1) + 1]
      BY <1>8, <3>1
    <3> QED BY <1>5, <3>1, <3>2 DEF EraseInv
  <2> QED BY <1>3, <1>4, <2>1, <2>3, <2>4 DEF EraseInv
<1>12. PhaseInv(moved)'
  BY <1>3, <1>11 DEF PhaseInv
<1> QED BY <1>4, <1>9, <1>10, <1>12 DEF FrameInv

\* Behind the first loop of UpdateFrame no stuff bit is left.
LEMMA ErasedPlain ==
  ASSUME TypeInv, NEW place, Placed(place, bits, Built), EraseInv(place), at > Len(bits)
  PROVE  PlainFrom(1, place, bits, Built)
<1>1. bits \in Seq(BitType) /\ Len(bits) \in Nat /\ at \in Nat /\ Len(Built) \in Nat \ {0}
  BY BuiltFacts DEF TypeInv
<1>2. \A i \in 1 .. Len(bits) : ~IsStuff(bits[i]) /\ (i <= Len(Built) => place[i] = i)
  <2>1. Len(bits) <= at - 1
    BY <1>1
  <2> QED BY <1>1, <2>1 DEF EraseInv
<1>3. /\ place \in [1 .. Len(Built) -> 1 .. Len(bits)] /\ place[Len(Built)] = Len(bits)
      /\ \A i, j \in 1 .. Len(Built) : i < j => place[i] < place[j]
  BY DEF Placed
<1>4. Len(bits) = Len(Built)
  <2>1. Len(bits) >= 1
    BY <1>1, <1>3
  <2>2. CASE Len(Built) > Len(bits)
    <3>1. Len(bits) \in 1 .. Len(Built) /\ Len(Built) \in 1 .. Len(Built) /\ Len(bits) \in 1 .. Len(bits)
      BY <1>1, <2>1, <2>2
    <3>2. place[Len(bits)] = Len(bits) /\ place[Len(bits)] < place[Len(Built)]
      BY <1>2, <1>3, <2>2, <3>1
    <3> QED BY <1>1, <1>3, <3>2
  <2>3. CASE ~(Len(Built) > Len(bits))
    <3>1. Len(Built) \in 1 .. Len(bits)
      BY <1>1, <2>3
    <3> QED BY <1>1, <1>2, <1>3, <3>1
  <2> QED BY <2>2, <2>3
<1>5. 1 \in 1 .. Len(bits) /\ Len(bits) - Len(Built) = 0
  BY <1>1, <1>4
<1>6. ASSUME NEW j \in 1 .. Len(bits)
       PROVE  ~IsStuff(bits[j]) /\ place[j - (Len(bits) - Len(Built))] = j
  BY <1>1, <1>2, <1>4, <1>5
<1> QED BY <1>5, <1>6 DEF PlainFrom

\* Behind the first loop of UpdateFrame no stuff bit is left, and stuffing begins anew.
LEMMA EndEraseStep ==
  ASSUME FrameInv, EndErase
  PROVE  FrameInv'
<1>1. TypeInv
  BY DEF FrameInv
<1>2. PICK place : Placed(place, bits, Built) /\ PhaseInv(place)
  BY DEF FrameInv
<1>3. /\ pc = "erase" /\ at > Len(bits) /\ content' = content /\ edited' = edited
      /\ updated' = updated /\ flipped' = flipped /\ bits' = bits
      /\ IF IsCan20 /\ flipped = 0 THEN BeginCrc ELSE BeginNormalStuff
  BY DEF EndErase, testVars
<1>4. Built' = Built /\ GoldenCrcLen' = GoldenCrcLen /\ IsCan20' = IsCan20
  BY <1>3, SameContent
<1>5. PlainFrom(1, place, bits, Built)
  <2>1. EraseInv(place)
    BY <1>2, <1>3 DEF PhaseInv
  <2> QED BY <1>1, <1>2, <1>3, <2>1, ErasedPlain
<1>6. CASE IsCan20 /\ flipped = 0
  <2>1. pc' = "crc" /\ at' = 1 /\ crc' = CrcInit(GoldenCrcLen) /\ same' = same /\ prev' = prev
        /\ stuff_cnt' = stuff_cnt
    BY <1>3, <1>6 DEF BeginCrc
  <2>2. crc' \in [1 .. GoldenCrcLen -> {0, 1}]
    BY <2>1 DEF CrcInit
  <2>3. TypeInv'
    BY <1>1, <1>3, <1>4, <2>1, <2>2 DEF TypeInv
  <2>4. CrcInv(place)'
    BY <1>3, <1>4, <1>5, <1>6, <2>1 DEF CrcInv, NoneBefore
  <2>5. PhaseInv(place)'
    BY <2>1, <2>4 DEF PhaseInv
  <2> QED BY <1>2, <1>3, <1>4, <2>3, <2>5 DEF FrameInv
<1>7. CASE ~(IsCan20 /\ flipped = 0)
  <2>1. BeginNormalStuff
    BY <1>3, <1>7
  <2>2. bits' \in Seq(BitType) /\ bits'[1].val = Dominant
    BY <1>1, <1>3 DEF TypeInv
  <2>3. NormalStuffInv(place)' /\ RunOfEqualBits'
    BY <1>1, <1>2, <1>3, <1>5, <2>1, <2>2, NormalStuffBegins
  <2>4. TypeInv'
    BY <1>1, <1>3, <1>4, <2>1, <2>2 DEF TypeInv, BeginNormalStuff
  <2>5. PhaseInv(place)'
    BY <2>1, <2>3 DEF PhaseInv, BeginNormalStuff
  <2> QED BY <1>2, <1>3, <1>4, <2>4, <2>5 DEF FrameInv
<1> QED BY <1>6, <1>7

\* No two stuff bits stand side by side: the erasing loop passes over the second.
LEMMA StuffedApart ==
  ASSUME NEW frame, NEW end \in Nat, StuffedBefore(end, frame), NEW i \in 1 .. end - 2
  PROVE  ~(IsStuff(frame[i]) /\ IsStuff(frame[i + 1]))
<1> SUFFICES ASSUME IsStuff(frame[i]), IsStuff(frame[i + 1]) PROVE FALSE
  OBVIOUS
<1>1. i \in 1 .. end - 1 /\ i + 1 \in 1 .. end - 1
  OBVIOUS
<1>2. frame[i].val # frame[i - 1].val /\ FiveEqual(i + 1, frame)
  BY <1>1 DEF StuffedBefore
<1>3. (i + 1) - 1 = i /\ i + 1 >= 6 /\ i - 1 \in (i + 1) - 5 .. (i + 1) - 2
  BY <1>2 DEF FiveEqual
<1> QED BY <1>2, <1>3 DEF FiveEqual

\* In a complete frame no two stuff bits stand side by side.
LEMMA NoTwoStuffBits ==
  ASSUME TypeInv, NEW place, Placed(place, bits, Built), StuffInv(place), NEW i \in 1 .. Len(bits) - 1
  PROVE  ~(IsStuff(bits[i]) /\ IsStuff(bits[i + 1]))
<1>1. at \in Nat \ {0} /\ Len(bits) \in Nat
  BY DEF TypeInv
<1>2. CASE IsCan20
  <2>1. PlainFrom(at, place, bits, Built) /\ StuffedBefore(at, bits)
    BY <1>2 DEF StuffInv, NormalStuffInv, StuffedInOrder
  <2>2. CASE i + 1 < at
    <3>1. i \in 1 .. at - 2
      BY <1>1, <2>2
    <3> QED BY <1>1, <2>1, <3>1, StuffedApart
  <2>3. CASE ~(i + 1 < at)
    <3>1. i + 1 \in at .. Len(bits)
      BY <1>1, <2>3
    <3> QED BY <2>1, <3>1 DEF PlainFrom
  <2> QED BY <2>2, <2>3
<1>3. CASE ~IsCan20
  <2>1. PICK end \in 1 .. Len(bits) : FixedStuffInv(place, end)
    BY <1>3 DEF StuffInv
  <2>2. /\ CountWritten(end, bits) /\ PlainFrom(at, place, bits, Built)
        /\ \A k \in end + 6 .. at - 1 : IsStuff(bits[k]) <=> (k - end) % 5 = 0
    BY <2>1 DEF FixedStuffInv
  <2>3. at >= end + 6
    BY <1>3, <2>1, FixedPhase
  <2>4. StuffedBefore(end, bits) /\ ~IsStuff(bits[end - 1])
    BY <2>2 DEF CountWritten, StuffedInOrder
  <2>5. \A k \in 1 .. 4 : ~IsStuff(bits[end + k])
    BY <2>2 DEF CountWritten, StuffCntBlock
  <2>6. CASE i <= end - 2
    <3>1. i \in 1 .. end - 2
      BY <2>6
    <3> QED BY <2>4, <3>1, StuffedApart
  <2>7. CASE i = end - 1
    BY <2>4, <2>7
  <2>8. CASE i = end
    BY <2>5, <2>8
  <2>9. CASE i \in end + 1 .. end + 4
    <3>1. i - end \in 1 .. 4 /\ end + (i - end) = i
      BY <2>9
    <3> QED BY <2>5, <3>1
  <2>10. CASE i >= end + 5 /\ i + 1 < at
    <3>1. i + 1 \in end + 6 .. at - 1
      BY <1>1, <2>10
    <3>2. CASE i = end + 5
      <4>1. (i + 1) - end = 6
        BY <3>2
      <4>2. 6 % 5 # 0
        OBVIOUS
      <4> QED BY <2>2, <3>1, <4>1, <4>2
    <3>3. CASE i # end + 5
      <4>1. i \in end + 6 .. at - 1
        BY <1>1, <2>10, <3>3
      <4>2. \A m \in Nat : ~(m % 5 = 0 /\ (m + 1) % 5 = 0)
        OBVIOUS
      <4>3. i - end \in Nat /\ (i + 1) - end = (i - end) + 1
        BY <4>1
      <4> QED BY <2>2, <3>1, <4>1, <4>2, <4>3
    <3> QED BY <3>2, <3>3
  <2>11. CASE i + 1 >= at
    <3>1. i + 1 \in at .. Len(bits)
      BY <1>1, <2>11
    <3> QED BY <2>2, <3>1 DEF PlainFrom
  <2> QED BY <1>1, <2>6, <2>7, <2>8, <2>9, <2>10, <2>11
<1> QED BY <1>2, <1>3

\* In a complete frame a stuff bit is in the field of the bit before it.
LEMMA StuffFollowsField ==
  ASSUME TypeInv, NEW place, Placed(place, bits, Built), StuffInv(place),
         NEW i \in 1 .. Len(bits), IsStuff(bits[i]), bits[i].kind \in EditedKinds
  PROVE  i > 1 /\ bits[i - 1].kind = bits[i].kind
<1>1. at \in Nat \ {0} /\ Len(bits) \in Nat
  BY DEF TypeInv
<1>2. ASSUME NEW end \in Nat, StuffedBefore(end, bits), i < end
      PROVE  i > 1 /\ bits[i - 1].kind = bits[i].kind
  <2>1. i \in 1 .. end - 1
    BY <1>2
  <2>2. FiveEqual(i, bits) /\ bits[i].kind = bits[i - 1].kind
    BY <1>2, <2>1 DEF StuffedBefore
  <2> QED BY <2>2 DEF FiveEqual
<1>3. ASSUME PlainFrom(at, place, bits, Built)
      PROVE  i < at
  BY <1>1, <1>3 DEF PlainFrom
<1>4. CASE IsCan20
  <2>1. PlainFrom(at, place, bits, Built) /\ StuffedBefore(at, bits)
    BY <1>4 DEF StuffInv, NormalStuffInv, StuffedInOrder
  <2> QED BY <1>1, <1>2, <1>3, <2>1
<1>5. CASE ~IsCan20
  <2>1. PICK end \in 1 .. Len(bits) : FixedStuffInv(place, end)
    BY <1>5 DEF StuffInv
  <2>2. /\ StuffCntBlock(end, bits) /\ StuffedBefore(end, bits) /\ PlainFrom(at, place, bits, Built)
        /\ \A k \in end + 6 .. at - 1 : bits[k].kind = "Crc"
    BY <2>1 DEF FixedStuffInv, CountWritten, StuffedInOrder
  <2>3. CASE i < end
    BY <1>2, <2>2, <2>3
  <2>4. CASE i \in end .. end + 5
    <3>1. i - end \in 0 .. 5 /\ end + (i - end) = i
      BY <2>4
    <3>2. i - end \in 0 .. 3 \/ i - end = 4 \/ i - end = 5
      BY <3>1
    <3>3. bits[i].kind \in {"StuffCnt", "StuffParity"}
      BY <2>2, <3>1, <3>2 DEF StuffCntBlock
    <3> QED BY <3>3 DEF EditedKinds
  <2>5. CASE i > end + 5
    <3>1. i \in end + 6 .. at - 1
      BY <1>1, <1>3, <2>2, <2>5
    <3>2. bits[i].kind = "Crc"
      BY <2>2, <3>1
    <3> QED BY <3>2 DEF EditedKinds
  <2> QED BY <2>3, <2>4, <2>5
<1> QED BY <1>4, <1>5

\* So the first bit of a field is the first that was built of it: stuff bits are after it.
LEMMA SameFirst ==
  ASSUME NEW frame \in Seq(BitType), NEW built \in Seq(BitType), NEW place,
         Placed(place, frame, built), NEW kind,
         \A i \in 1 .. Len(frame) :
           IsStuff(frame[i]) /\ frame[i].kind = kind => i > 1 /\ frame[i - 1].kind = kind,
         NEW k \in 1 .. Len(built)
  PROVE  place[k] = FirstOf(frame, kind) <=> k = FirstOf(built, kind)
<1> Len(frame) \in Nat /\ Len(built) \in Nat
  OBVIOUS
<1>1. /\ place \in [1 .. Len(built) -> 1 .. Len(frame)]
      /\ \A i, j \in 1 .. Len(built) : i < j => place[i] < place[j]
      /\ \A i \in 1 .. Len(built) : frame[place[i]].kind = built[i].kind
      /\ \A j \in 1 .. Len(frame) : ~IsStuff(frame[j]) => \E i \in 1 .. Len(built) : place[i] = j
  BY DEF Placed
<1>2. ASSUME place[k] = FirstOf(frame, kind)
      PROVE  k = FirstOf(built, kind)
  <2>1. place[k] \in 1 .. Len(frame)
    BY <1>1
  <2>2. frame[place[k]].kind = kind /\ NoneBefore(place[k], {kind}, frame)
    BY <1>2, <2>1, FoundIsOfKind
  <2>3. built[k].kind = kind
    BY <1>1, <2>2
  <2>4. ASSUME NEW l \in 1 .. k - 1
        PROVE  built[l].kind # kind
    <3>1. l \in 1 .. Len(built) /\ l < k
      BY <1>1
    <3>2. place[l] \in 1 .. Len(frame) /\ place[l] < place[k] /\ frame[place[l]].kind = built[l].kind
      BY <1>1, <3>1
    <3>3. place[l] \in 1 .. place[k] - 1
      BY <2>1, <3>2
    <3> QED BY <2>2, <3>2, <3>3 DEF NoneBefore
  <2>5. NoneBefore(k, {kind}, built)
    BY <2>4 DEF NoneBefore
  <2>6. FirstOf(built, kind) = k
    BY <2>3, <2>5, FoundFirst
  <2> QED BY <2>6
<1>3. ASSUME k = FirstOf(built, kind)
      PROVE  place[k] = FirstOf(frame, kind)
  <2>1. built[k].kind = kind /\ NoneBefore(k, {kind}, built)
    <3>1. FirstOf(built, kind) = k
      BY <1>3
    <3> QED BY <3>1, FoundIsOfKind
  <2>2. place[k] \in 1 .. Len(frame) /\ frame[place[k]].kind = kind
    BY <1>1, <2>1
  <2> DEFINE Found == {j \in 1 .. Len(frame) : frame[j].kind = kind}
  <2>3. PICK m : m \in Found /\ \A y \in Found : m <= y
    <3>1. Found \subseteq Nat /\ Found # {}
      BY <2>2
    <3> HIDE DEF Found
    <3>2. \E x \in Found : \A y \in Found : x <= y
      BY <3>1, HasLeast
    <3> QED BY <3>2
  <2>4. m \in 1 .. Len(frame) /\ frame[m].kind = kind
    BY <2>3
  <2>5. ~IsStuff(frame[m])
    <3>1. SUFFICES ASSUME IsStuff(frame[m]) PROVE FALSE
      OBVIOUS
    <3>2. m > 1 /\ frame[m - 1].kind = kind
      BY <2>4, <3>1
    <3>3. m - 1 \in Found /\ ~(m <= m - 1)
      BY <1>1, <2>4, <3>2
    <3> HIDE DEF Found
    <3> QED BY <2>3, <3>3
  <2>6. PICK l \in 1 .. Len(built) : place[l] = m
    BY <1>1, <2>4, <2>5
  <2>7. built[l].kind = kind
    BY <1>1, <2>4, <2>6
  <2>8. ~(l < k)
    <3>1. SUFFICES ASSUME l < k PROVE FALSE
      OBVIOUS
    <3>2. l \in 1 .. k - 1
      BY <3>1
    <3> QED BY <2>1, <2>7, <3>2 DEF NoneBefore
  <2>9. ~(k < l)
    <3>1. SUFFICES ASSUME k < l PROVE FALSE
      OBVIOUS
    <3>2. place[k] < m
      BY <1>1, <2>6, <3>1
    <3>3. m <= place[k]
      BY <2>2, <2>3
    <3> QED BY <2>2, <2>4, <3>2, <3>3
  <2>10. place[k] = m
    BY <2>6, <2>8, <2>9
  <2>11. NoneBefore(m, {kind}, frame)
    <3>1. SUFFICES ASSUME NEW j \in 1 .. m - 1, frame[j].kind = kind
                   PROVE  FALSE
      BY DEF NoneBefore
    <3>2. j \in Found /\ ~(m <= j)
      BY <2>4, <3>1
    <3> HIDE DEF Found
    <3> QED BY <2>3, <3>2
  <2>12. FirstOf(frame, kind) = m
    BY <2>4, <2>11, FoundFirst
  <2> QED BY <2>10, <2>12
<1> QED BY <1>2, <1>3

\* The old stuff bits are erased from a frame whose bits have been given other values.
LEMMA EraseBegins ==
  ASSUME TypeInv, BeginErase, flipped' \in Nat, edited' \in SUBSET EditedKinds,
         bits' \in Seq(BitType), bits'[1].val = Dominant, SameShape(bits, bits'),
         NEW place, Placed(place, bits, Built), PhaseInv(place), Placed(place, bits', Built')
  PROVE  FrameInv'
<1>3. /\ pc = "done" /\ pc' = "erase" /\ at' = 1 /\ updated' = TRUE
      /\ content' = content /\ same' = same /\ prev' = prev /\ stuff_cnt' = stuff_cnt /\ crc' = crc
  BY DEF BeginErase
<1>4. GoldenCrcLen' = GoldenCrcLen
  BY <1>3 DEF GoldenCrcLen
<1>5. bits \in Seq(BitType) /\ Len(bits) \in Nat /\ Len(bits') = Len(bits)
  BY DEF TypeInv, SameShape
<1>6. TypeInv'
  BY <1>3, <1>4 DEF TypeInv
<1>8. \A i \in 1 .. Len(bits) : IsStuff(bits'[i]) <=> IsStuff(bits[i])
  BY DEF SameShape, IsStuff
<1>9. \A i \in 1 .. Len(bits) - 1 : ~(IsStuff(bits[i]) /\ IsStuff(bits[i + 1]))
  <2>1. StuffInv(place)
    BY <1>3 DEF PhaseInv
  <2> QED BY <2>1, NoTwoStuffBits
<1>10. ASSUME NEW i \in 1 .. Len(bits') - 1
       PROVE  ~(IsStuff(bits'[i]) /\ IsStuff(bits'[i + 1]))
  <2>1. i \in 1 .. Len(bits) - 1 /\ i \in 1 .. Len(bits) /\ i + 1 \in 1 .. Len(bits)
    BY <1>5
  <2> QED BY <1>8, <1>9, <2>1
<1>11. EraseInv(place)'
  BY <1>3, <1>5, <1>10 DEF EraseInv
<1>12. PhaseInv(place)'
  BY <1>3, <1>11 DEF PhaseInv
<1> QED BY <1>6, <1>12 DEF FrameInv

-----------------------------------------------------------------------------
(* Edits of the tests.                                                     *)

\* A frame begins with SOF at all times.
LEMMA BeginsWithSof ==
  ASSUME TypeInv, NEW place, Placed(place, bits, Built)
  PROVE  bits[1].kind = "Sof" /\ 1 \in 1 .. Len(bits)
<1>1. Layout(content, Built) /\ Len(Built) \in Nat \ {0}
  BY BuiltFacts
<1>2. 1 \in 1 .. Len(Built)
  BY <1>1
<1>3. place[1] = 1 /\ bits[place[1]].kind = Built[1].kind /\ place[1] \in 1 .. Len(bits)
  BY <1>2 DEF Placed
<1> QED BY <1>1, <1>3 DEF Layout

\* A test edits fields of a complete frame, and UpdateFrame begins.
LEMMA EditAndUpdateStep ==
  ASSUME FrameInv, NEW kinds \in SUBSET {"R0", "R1", "Srr"}, EditAndUpdate(kinds)
  PROVE  FrameInv'
<1>1. TypeInv /\ bits \in Seq(BitType) /\ Len(bits) \in Nat /\ kinds \in SUBSET EditedKinds
  BY DEF FrameInv, TypeInv, EditedKinds
<1>2. PICK place : Placed(place, bits, Built) /\ PhaseInv(place)
  BY DEF FrameInv
<1>3. BeginErase /\ bits' = Edit(bits, kinds) /\ flipped' \in Nat /\ edited' = kinds
  BY <1>1 DEF EditAndUpdate, TypeInv
<1>4. pc = "done" /\ ~updated /\ content' = content
  BY <1>3 DEF BeginErase
<1> PICK built : built = BuildFrameBits(content)
  OBVIOUS
<1>5. built \in Seq(BitType) /\ Layout(content, built)
  <2>1. Layout(content, built)
    BY <1>1, BuiltAsLaidOut DEF TypeInv
  <2> QED BY <2>1, PlainIsBits DEF Layout
<1>6. Built = built
  <2>1. edited = {}
    BY <1>1, <1>4 DEF TypeInv
  <2> QED BY <1>5, <2>1, EditNothing DEF Built
<1>7. Built' = Edit(built, kinds) /\ EditOf(Built', built, kinds)
  <2>1. Built' = Edit(built, kinds)
    BY <1>3, <1>4 DEF Built
  <2> QED BY <1>5, <2>1, EditedBits
<1>8. EditOf(bits', bits, kinds)
  BY <1>1, <1>3, EditedBits
<1>9. bits' \in Seq(BitType) /\ SameShape(bits, bits')
  BY <1>8 DEF EditOf
<1>10. bits'[1].val = Dominant
  <2>1. bits[1].kind = "Sof" /\ 1 \in 1 .. Len(bits)
    BY <1>1, <1>2, BeginsWithSof
  <2>2. ASSUME NEW kind \in kinds
        PROVE  1 # FirstOf(bits, kind)
    <3>1. kind # "Sof"
      OBVIOUS
    <3> QED BY <1>1, <2>1, <3>1, FoundIsOfKind
  <2>3. bits[1].val = Dominant
    BY <1>1 DEF TypeInv
  <2> QED BY <1>8, <2>1, <2>2, <2>3 DEF EditOf
<1>11. ASSUME NEW kind \in kinds, NEW i \in 1 .. Len(bits), IsStuff(bits[i]), bits[i].kind = kind
       PROVE  i > 1 /\ bits[i - 1].kind = kind
  <2>1. StuffInv(place)
    BY <1>2, <1>4 DEF PhaseInv
  <2>2. bits[i].kind \in EditedKinds
    BY <1>1, <1>11
  <2> QED BY <1>1, <1>2, <1>11, <2>1, <2>2, StuffFollowsField
<1>12. ASSUME NEW k \in 1 .. Len(built)
       PROVE  (\E kind \in kinds : place[k] = FirstOf(bits, kind))
                <=> (\E kind \in kinds : k = FirstOf(built, kind))
  <2>1. ASSUME NEW kind \in kinds
        PROVE  place[k] = FirstOf(bits, kind) <=> k = FirstOf(built, kind)
    <3>1. Placed(place, bits, built)
      BY <1>2, <1>6
    <3>2. \A i \in 1 .. Len(bits) :
            IsStuff(bits[i]) /\ bits[i].kind = kind => i > 1 /\ bits[i - 1].kind = kind
      BY <1>11
    <3> QED BY <1>1, <1>5, <3>1, <3>2, SameFirst
  <2> QED BY <2>1
<1>13. /\ Len(bits') = Len(bits) /\ Len(Built') = Len(built)
       /\ \A i \in 1 .. Len(built) : Built'[i].kind = built[i].kind
       /\ \A i \in 1 .. Len(bits) : bits'[i].kind = bits[i].kind
       /\ \A i \in 1 .. Len(bits) : IsStuff(bits'[i]) <=> IsStuff(bits[i])
  BY <1>7, <1>8 DEF EditOf, SameShape, IsStuff
<1>14. /\ place \in [1 .. Len(built) -> 1 .. Len(bits)]
       /\ \A i, j \in 1 .. Len(built) : i < j => place[i] < place[j]
       /\ \A i \in 1 .. Len(built) : bits[place[i]].kind = built[i].kind /\ ~IsStuff(bits[place[i]])
       /\ \A i \in 1 .. Len(built) :
            built[i].kind \notin Calculated => bits[place[i]].val = built[i].val
       /\ \A j \in 1 .. Len(bits) : ~IsStuff(bits[j]) => \E i \in 1 .. Len(built) : place[i] = j
       /\ place[1] = 1 /\ place[Len(built)] = Len(bits)
  BY <1>2, <1>6 DEF Placed
<1>15. ASSUME NEW k \in 1 .. Len(built), built[k].kind \notin Calculated
       PROVE  bits'[place[k]].val = Built'[k].val
  <2>1. place[k] \in 1 .. Len(bits)
    BY <1>14
  <2>2. bits[place[k]].kind = built[k].kind /\ bits[place[k]].val = built[k].val
    BY <1>14, <1>15
  <2>3. bits'[place[k]].val = IF \E kind \in kinds : place[k] = FirstOf(bits, kind)
                             THEN IF built[k].kind = "Srr" THEN Dominant ELSE Recessive
                             ELSE built[k].val
    BY <1>8, <2>1, <2>2 DEF EditOf
  <2>4. Built'[k].val = IF \E kind \in kinds : k = FirstOf(built, kind)
                       THEN IF built[k].kind = "Srr" THEN Dominant ELSE Recessive
                       ELSE built[k].val
    BY <1>7 DEF EditOf
  <2> QED BY <1>12, <2>3, <2>4
<1>16. ASSUME NEW k \in 1 .. Len(built)
       PROVE  bits'[place[k]].kind = Built'[k].kind /\ ~IsStuff(bits'[place[k]])
  <2>1. place[k] \in 1 .. Len(bits)
    BY <1>14
  <2>2. bits[place[k]].kind = built[k].kind /\ ~IsStuff(bits[place[k]])
    BY <1>14
  <2>3. bits'[place[k]].kind = bits[place[k]].kind /\ ~IsStuff(bits'[place[k]])
    BY <1>13, <2>1, <2>2
  <2>4. Built'[k].kind = built[k].kind
    BY <1>13
  <2> QED BY <2>2, <2>3, <2>4
<1>17. Placed(place, bits', Built')
  BY <1>13, <1>14, <1>15, <1>16 DEF Placed
<1>18. edited' \in SUBSET EditedKinds
  BY <1>1, <1>3
<1> QED BY <1>1, <1>2, <1>3, <1>9, <1>10, <1>17, <1>18, EraseBegins

\* A test flips a bit of the CRC of a complete frame, and UpdateFrame(false) begins.
LEMMA CorruptCrcStep ==
  ASSUME FrameInv, NEW i \in DOMAIN bits, CorruptCrc(i)
  PROVE  FrameInv'
<1>1. TypeInv /\ bits \in Seq(BitType) /\ Len(bits) \in Nat /\ i \in 1 .. Len(bits)
  BY DEF FrameInv, TypeInv
<1>2. PICK place : Placed(place, bits, Built) /\ PhaseInv(place)
  BY DEF FrameInv
<1>3. /\ BeginErase /\ edited' = edited /\ content' = content /\ bits[i].kind = "Crc" /\ bits' = FlipVal(bits, i)
      /\ flipped' = Cardinality({j \in 1 .. i : IsPlainCrc(bits[j])})
  BY DEF CorruptCrc, IsPlainCrc, BeginErase
<1>4. bits[1].kind = "Sof" /\ 1 \in 1 .. Len(bits)
  BY <1>1, <1>2, BeginsWithSof
<1> PICK vals : vals = <<Opposite(bits[i].val)>>
  OBVIOUS
<1>5. vals \in [1 .. 1 -> {Dominant, Recessive}] /\ Len(vals) = 1
  <2>1. bits[i].val \in {Dominant, Recessive}
    BY <1>1, BitValues
  <2>2. Opposite(bits[i].val) \in {Dominant, Recessive}
    BY <2>1 DEF Opposite, Dominant, Recessive
  <2> QED BY <2>2
<1>6. WrittenOver(bits', bits, i, 1, vals)
  <2>1. bits' = Overwrite(bits, i, vals)
    BY <1>3 DEF FlipVal
  <2>2. i \in Nat /\ 1 \in Nat
    BY <1>1
  <2>3. WrittenOver(Overwrite(bits, i, vals), bits, i, 1, vals)
    BY <1>1, <1>5, <2>2, Overwritten
  <2> QED BY <2>1, <2>3
<1>7. bits' \in Seq(BitType) /\ SameShape(bits, bits')
  BY <1>6 DEF WrittenOver
<1>8. bits'[1].val = Dominant
  <2>1. i # 1
    BY <1>3, <1>4
  <2>2. ~(1 \in i .. i + 1 - 1)
    BY <1>1, <2>1
  <2>3. bits'[1].val = bits[1].val
    BY <1>4, <1>6, <2>2 DEF WrittenOver
  <2> QED BY <1>1, <2>3 DEF TypeInv
<1>9. flipped' \in Nat
  <2>1. IsFiniteSet(1 .. i)
    BY <1>1, FS_Interval
  <2>2. IsFiniteSet({j \in 1 .. i : IsPlainCrc(bits[j])})
    BY <2>1, FS_Subset
  <2> QED BY <1>3, <2>2, FS_CardinalityType
<1>10. SameFields(bits, bits')
  <2>1. ASSUME NEW j \in 1 .. Len(bits), bits[j].kind \notin Calculated
        PROVE  bits'[j].val = bits[j].val
    <3>1. j # i
      BY <1>3, <2>1 DEF Calculated
    <3>2. ~(j \in i .. i + 1 - 1)
      BY <1>1, <3>1
    <3> QED BY <1>6, <3>2 DEF WrittenOver
  <2> QED BY <2>1 DEF SameFields
<1>11. Placed(place, bits', Built')
  <2>1. Built' = Built
    BY <1>3, SameContent
  <2>2. Placed(place, bits', Built)
    BY <1>1, <1>2, <1>7, <1>10, ShapeKeepsPlaces
  <2> QED BY <2>1, <2>2
<1>12. edited' \in SUBSET EditedKinds
  BY <1>1, <1>3 DEF TypeInv
<1> QED BY <1>1, <1>2, <1>3, <1>7, <1>8, <1>9, <1>11, <1>12, EraseBegins

-----------------------------------------------------------------------------
(* The invariant.                                                          *)

\* The frame BuildFrameBits has just built satisfies the invariant.
LEMMA FrameBuilt ==
  ASSUME Init
  PROVE  FrameInv
<1> PICK place : place = [i \in 1 .. Len(Built) |-> i]
  OBVIOUS
<1>1. /\ content \in ContentType /\ flipped = 0 /\ edited = {} /\ bits = BuildFrameBits(content)
      /\ same = 1 /\ prev = Dominant /\ stuff_cnt = 0 /\ crc = CrcInit(GoldenCrcLen)
      /\ IF IsCan20 THEN pc = "crc" /\ at = 1 ELSE pc = "stuff" /\ at = 2
  BY ContentsAssumption DEF Init
<1>2. Layout(content, Built) /\ bits = Built
  <2>1. Layout(content, bits)
    BY <1>1, BuiltAsLaidOut
  <2>2. bits \in Seq(BitType)
    BY <2>1, PlainIsBits DEF Layout
  <2>3. bits = Built
    BY <1>1, <2>2, EditNothing DEF Built
  <2> QED BY <2>1, <2>3
<1>3. Built \in Seq(BitType) /\ \A i \in 1 .. Len(Built) : ~IsStuff(Built[i])
  <2>1. Built \in PlainBits(AllKinds)
    BY <1>2 DEF Layout
  <2>2. PlainBitType(AllKinds) \subseteq BitType
    BY DEF PlainBitType, BitType
  <2> QED BY <2>1, <2>2, PlainBit DEF PlainBits
<1>4. TypeInv
  <2>1. bits \in Seq(BitType) /\ bits[1].val = Dominant
    BY <1>1, <1>2, <1>3 DEF Layout
  <2>2. crc \in [1 .. GoldenCrcLen -> {0, 1}]
    BY <1>1 DEF CrcInit
  <2>3. pc \in {"stuff", "crc", "fixed", "erase", "done"} /\ at \in Nat \ {0}
    BY <1>1
  <2> QED BY <1>1, <2>1, <2>2, <2>3 DEF TypeInv, Init
<1>5. Len(Built) \in Nat \ {0}
  BY <1>4, BuiltFacts
<1>6. Placed(place, bits, Built)
  BY <1>2, <1>3, <1>5 DEF Placed
<1>7. PlainFrom(1, place, bits, Built)
  <2>1. 1 \in 1 .. Len(bits) /\ Len(bits) - Len(Built) = 0
    BY <1>2, <1>5
  <2>2. ASSUME NEW j \in 1 .. Len(bits)
        PROVE  ~IsStuff(bits[j]) /\ place[j - (Len(bits) - Len(Built))] = j
    BY <1>2, <1>3, <1>5, <2>1
  <2> QED BY <2>1, <2>2 DEF PlainFrom
<1>8. CASE IsCan20
  <2>1. CrcInv(place)
    BY <1>1, <1>7, <1>8 DEF CrcInv, NoneBefore
  <2>2. PhaseInv(place)
    BY <1>1, <1>8, <2>1 DEF PhaseInv
  <2> QED BY <1>4, <1>6, <2>2 DEF FrameInv
<1>9. CASE ~IsCan20
  <2>1. bits \in Seq(BitType)
    BY <1>4 DEF TypeInv
  <2>2. /\ PlainFrom(2, place, bits, Built) /\ ~IsStuff(bits[1])
        /\ StuffedBefore(2, bits) /\ NoneBefore(2, LastKinds, bits)
        /\ 0 = Cardinality(StuffBitsBefore(2, bits)) % 8
    BY <1>4, <1>6, <1>7, <2>1, FirstBitStuffed
  <2>3. NormalStuffInv(place)
    <3>1. StuffedInOrder(at, bits)
      BY <1>1, <1>9, <2>2 DEF StuffedInOrder
    <3> QED BY <1>1, <1>9, <2>2, <3>1 DEF NormalStuffInv
  <2>4. RunOfEqualBits
    BY <1>1, <1>4, <1>9 DEF RunOfEqualBits, TypeInv
  <2>5. PhaseInv(place)
    BY <1>1, <1>9, <2>3, <2>4 DEF PhaseInv
  <2> QED BY <1>4, <1>6, <2>5 DEF FrameInv
<1> QED BY <1>8, <1>9

\* A step that changes nothing keeps the invariant.
LEMMA FrameStays ==
  ASSUME FrameInv, UNCHANGED vars
  PROVE  FrameInv'
<1>1. /\ content' = content /\ edited' = edited
      /\ updated' = updated /\ flipped' = flipped /\ bits' = bits /\ pc' = pc /\ at' = at
      /\ same' = same /\ prev' = prev /\ stuff_cnt' = stuff_cnt /\ crc' = crc
  BY DEF vars
<1>2. /\ Built' = Built /\ IsCan20' = IsCan20 /\ LastKinds' = LastKinds /\ GoldenCrcLen' = GoldenCrcLen
      /\ First(content)' = First(content)
  BY <1>1, SameContent
<1>3. TypeInv /\ TypeInv'
  BY <1>1, <1>2 DEF FrameInv, TypeInv
<1>4. PICK place : Placed(place, bits, Built) /\ PhaseInv(place)
  BY DEF FrameInv
<1>5. StuffedInOrder(at, bits)' <=> StuffedInOrder(at, bits)
  BY <1>1, <1>2 DEF StuffedInOrder
<1>6. \A end : CountWritten(end, bits)' <=> CountWritten(end, bits)
  BY <1>1, <1>2 DEF CountWritten, StuffedInOrder, StuffCntBlock
<1>7. NormalStuffInv(place)' <=> NormalStuffInv(place)
  BY <1>1, <1>2, <1>5 DEF NormalStuffInv
<1>8. \A end : FixedStuffInv(place, end)' <=> FixedStuffInv(place, end)
  BY <1>1, <1>2, <1>6 DEF FixedStuffInv
<1>9. StuffInv(place)' <=> StuffInv(place)
  BY <1>1, <1>2, <1>7, <1>8 DEF StuffInv
<1>10. CrcInv(place)' <=> CrcInv(place)
  BY <1>1, <1>2, <1>6 DEF CrcInv
<1>11. EraseInv(place)' <=> EraseInv(place)
  BY <1>1, <1>2 DEF EraseInv
<1>12. RunOfEqualBits' <=> RunOfEqualBits
  BY <1>1 DEF RunOfEqualBits
<1>13. PhaseInv(place)'
  BY <1>1, <1>2, <1>4, <1>7, <1>9, <1>10, <1>11, <1>12 DEF PhaseInv
<1> QED BY <1>1, <1>2, <1>3, <1>4, <1>13 DEF FrameInv

\* The loops of the frame, one after the other, keep the frame in order, whatever golden
\* frame it was built from and whatever a test changes in it before it is updated.
THEOREM FrameInvariant == Spec => []FrameInv
<1>1. Init => FrameInv
  BY FrameBuilt
<1>2. FrameInv /\ [Next]_vars => FrameInv'
  <2> SUFFICES ASSUME FrameInv, [Next]_vars PROVE FrameInv'
    OBVIOUS
  <2>1. CASE PassBit
    BY <2>1, PassBitStep
  <2>2. CASE InsertStuffBit
    BY <2>2, InsertStuffBitStep
  <2>3. CASE EndNormalStuff
    BY <2>3, EndNormalStuffStep
  <2>4. CASE WriteStuffCnt
    BY <2>4, WriteStuffCntStep
  <2>5. CASE ShiftCrc
    BY <2>5, ShiftCrcStep
  <2>6. CASE WriteCrc
    BY <2>6, WriteCrcStep
  <2>7. CASE PassCrcBit
    BY <2>7, PassCrcBitStep
  <2>8. CASE InsertFixedStuffBit
    BY <2>8, InsertFixedStuffBitStep
  <2>9. CASE EndFixedStuff
    BY <2>9, EndFixedStuffStep
  <2>10. CASE PassPlainBit
    BY <2>10, PassPlainBitStep
  <2>11. CASE EraseStuffBit
    BY <2>11, EraseStuffBitStep
  <2>12. CASE EndErase
    BY <2>12, EndEraseStep
  <2>13. ASSUME NEW kinds \in SUBSET {"R0", "R1", "Srr"}, EditAndUpdate(kinds)
         PROVE  FrameInv'
    BY <2>13, EditAndUpdateStep
  <2>14. ASSUME NEW i \in DOMAIN bits, CorruptCrc(i)
         PROVE  FrameInv'
    BY <2>14, CorruptCrcStep
  <2>15. CASE UNCHANGED vars
    BY <2>15, FrameStays
  <2> QED BY <2>1, <2>2, <2>3, <2>4, <2>5, <2>6, <2>7, <2>8, <2>9, <2>10, <2>11, <2>12, <2>13,
             <2>14, <2>15 DEF Next
<1> QED BY <1>1, <1>2, PTL DEF Spec

\* The bits that were built are in these places, in order, and only stuff bits elsewhere.
KeptAt(place) ==
  /\ \A i, j \in 1 .. Len(Built) : i < j => place[i] < place[j]
  /\ \A j \in 1 .. Len(bits) : ~IsStuff(bits[j]) => \E i \in 1 .. Len(Built) : place[i] = j
  /\ \A i \in 1 .. Len(Built) :
       /\ bits[place[i]].kind = Built[i].kind
       /\ Built[i].kind \notin Calculated => bits[place[i]].val = Built[i].val

\* Without its stuff bits a frame is, at each point of the loops, the frame BuildFrameBits
\* built, with the bits a test has set: the same fields in the same order, and the same
\* values but in the stuff count, its parity and the CRC. So InsertNormalStuffBits and the
\* loops after it insert and the first loop of UpdateFrame erases stuff bits and no others,
\* and an update loses nothing of what the test gave the frame.
FieldsKept ==
  \E place \in [1 .. Len(Built) -> {j \in 1 .. Len(bits) : ~IsStuff(bits[j])}] : KeptAt(place)

\* Stuffing, erasing and calculating a frame keep the fields it was built from.
THEOREM FieldsAreKept == Spec => []FieldsKept
<1>1. FrameInv => FieldsKept
  <2>1. SUFFICES ASSUME FrameInv PROVE FieldsKept
    OBVIOUS
  <2>2. PICK place : Placed(place, bits, Built)
    BY <2>1 DEF FrameInv
  <2>3. place \in [1 .. Len(Built) -> {j \in 1 .. Len(bits) : ~IsStuff(bits[j])}]
    BY <2>2 DEF Placed
  <2>4. KeptAt(place)
    BY <2>2 DEF Placed, KeptAt
  <2> QED BY <2>3, <2>4 DEF FieldsKept
<1> QED BY <1>1, FrameInvariant, PTL

-----------------------------------------------------------------------------
(* What a receiver makes of the frame.                                     *)

\* Regular stuffing ends at the first bit of the stuff count or the CRC delimiter.
LEMMA EndFound ==
  ASSUME NEW frame \in Seq(BitType), NEW p \in 1 .. Len(frame),
         frame[p].kind \in EndKinds, NoneBefore(p, EndKinds, frame)
  PROVE  EndOfStuffing(frame) = p
<1> DEFINE Found == {i \in 1 .. Len(frame) : frame[i].kind \in {"CrcDelim", "StuffCnt"}}
<1>1. p \in Found /\ \A i \in Found : p <= i
  BY DEF NoneBefore, EndKinds
<1>2. Min(Found) = p
  BY <1>1 DEF Min
<1>3. EndOfStuffing(frame) = IF Found # {} THEN Min(Found) ELSE 0
  BY DEF EndOfStuffing, SelectInSeq
<1> QED BY <1>1, <1>2, <1>3

\* Stuff bits where, and as, a receiver expects them.
StuffedAsReceived(end, delim, frame) ==
  /\ end \in 1 .. Len(frame) /\ EndOfStuffing(frame) = end
  /\ delim \in end .. Len(frame) /\ FirstOf(frame, "CrcDelim") = delim
  /\ StuffedBefore(end, frame)
  /\ \A i \in end .. delim - 1 : /\ IsStuff(frame[i]) <=> (i - end) % 5 = 0
                                 /\ IsStuff(frame[i]) => frame[i].val # frame[i - 1].val
  /\ \A i \in delim .. Len(frame) : ~IsStuff(frame[i])

\* A complete CAN frame is stuffed as a receiver expects.
LEMMA CanFrameDone ==
  ASSUME TypeInv, IsCan20, NEW place, NormalStuffInv(place), bits[at].kind = "CrcDelim"
  PROVE  StuffedAsReceived(at, at, bits)
<1>1. bits \in Seq(BitType) /\ Len(bits) \in Nat
  BY DEF TypeInv
<1>2. /\ PlainFrom(at, place, bits, Built) /\ StuffedBefore(at, bits)
      /\ NoneBefore(at, EndKinds, bits)
  BY DEF NormalStuffInv, StuffedInOrder, LastKinds
<1>3. at \in 1 .. Len(bits) /\ \A i \in at .. Len(bits) : ~IsStuff(bits[i])
  BY <1>2 DEF PlainFrom
<1>4. EndOfStuffing(bits) = at
  BY <1>1, <1>2, <1>3, EndFound DEF EndKinds
<1>5. FirstOf(bits, "CrcDelim") = at
  <2>1. NoneBefore(at, {"CrcDelim"}, bits)
    BY <1>2 DEF NoneBefore, EndKinds
  <2> QED BY <1>1, <1>3, <2>1, FoundFirst
<1>6. at \in at .. Len(bits) /\ \A i \in at .. at - 1 : FALSE
  BY <1>1, <1>3
<1> QED BY <1>2, <1>3, <1>4, <1>5, <1>6 DEF StuffedAsReceived

\* A complete CAN FD frame is stuffed as a receiver expects.
LEMMA FdFrameDone ==
  ASSUME TypeInv, ~IsCan20, NEW place, Placed(place, bits, Built),
         NEW end \in 1 .. Len(bits), FixedStuffInv(place, end), bits[at].kind = "CrcDelim"
  PROVE  StuffedAsReceived(end, at, bits)
<1>1. bits \in Seq(BitType) /\ Len(bits) \in Nat
  BY DEF TypeInv
<1>2. at \in end + 6 .. Len(bits) - 1 /\ NoneBefore(at, {"CrcDelim"}, bits)
  BY FixedPhase
<1>3. /\ CountWritten(end, bits) /\ PlainFrom(at, place, bits, Built)
      /\ \A i \in end + 6 .. at - 1 : /\ IsStuff(bits[i]) <=> (i - end) % 5 = 0
                                      /\ IsStuff(bits[i]) => bits[i].val # bits[i - 1].val
  BY DEF FixedStuffInv
<1>4. /\ StuffedBefore(end, bits) /\ NoneBefore(end, LastKinds, bits) /\ StuffCntBlock(end, bits)
      /\ bits[end].kind = "StuffCnt"
  <2>1. StuffedBefore(end, bits) /\ NoneBefore(end, LastKinds, bits) /\ StuffCntBlock(end, bits)
    BY <1>3 DEF CountWritten, StuffedInOrder
  <2>2. end + 0 = end
    OBVIOUS
  <2> QED BY <2>1, <2>2 DEF StuffCntBlock
<1>5. EndOfStuffing(bits) = end
  <2>1. NoneBefore(end, EndKinds, bits)
    BY <1>4 DEF NoneBefore, LastKinds, EndKinds
  <2> QED BY <1>1, <1>4, <2>1, EndFound DEF EndKinds
<1>6. FirstOf(bits, "CrcDelim") = at
  <2>1. at \in 1 .. Len(bits)
    BY <1>1, <1>2
  <2> QED BY <1>1, <1>2, <2>1, FoundFirst
<1>7. ASSUME NEW i \in end .. at - 1
      PROVE  /\ IsStuff(bits[i]) <=> (i - end) % 5 = 0
             /\ IsStuff(bits[i]) => bits[i].val # bits[i - 1].val
  <2>1. CASE i \in {end, end + 5}
    <3>1. bits[i].stuff = "Fixed" /\ bits[i].val # bits[i - 1].val
      BY <1>4, <2>1 DEF StuffCntBlock
    <3>2. (i - end) % 5 = 0
      BY <2>1
    <3> QED BY <3>1, <3>2 DEF IsStuff
  <2>2. CASE i \in end + 1 .. end + 4
    <3>1. i - end \in 1 .. 4 /\ end + (i - end) = i
      BY <2>2
    <3>2. ~IsStuff(bits[i])
      BY <1>4, <3>1 DEF StuffCntBlock
    <3>3. (i - end) % 5 # 0
      BY <3>1
    <3> QED BY <3>2, <3>3
  <2>3. CASE i >= end + 6
    <3>1. i \in end + 6 .. at - 1
      BY <1>2, <2>3
    <3> QED BY <1>3, <3>1
  <2> QED BY <1>2, <2>1, <2>2, <2>3
<1>8. at \in end .. Len(bits) /\ \A i \in at .. Len(bits) : ~IsStuff(bits[i])
  BY <1>1, <1>2, <1>3 DEF PlainFrom
<1> QED BY <1>4, <1>5, <1>6, <1>7, <1>8 DEF StuffedAsReceived

\* The positions of the stuff bits are those a receiver computes.
LEMMA ReceivedPositions ==
  ASSUME NEW frame \in Seq(BitType), NEW end, NEW delim, StuffedAsReceived(end, delim, frame)
  PROVE  /\ {i \in DOMAIN frame : IsStuff(frame[i])} = StuffPositions(frame)
         /\ StuffErrorAt(frame) = 0
<1>1. /\ Len(frame) \in Nat /\ end \in 1 .. Len(frame) /\ EndOfStuffing(frame) = end
      /\ delim \in end .. Len(frame) /\ FirstOf(frame, "CrcDelim") = delim
      /\ \A i \in 1 .. end - 1 : /\ IsStuff(frame[i]) <=> FiveEqual(i, frame)
                                 /\ IsStuff(frame[i]) => frame[i].val # frame[i - 1].val
      /\ \A i \in end .. delim - 1 : /\ IsStuff(frame[i]) <=> (i - end) % 5 = 0
                                     /\ IsStuff(frame[i]) => frame[i].val # frame[i - 1].val
      /\ \A i \in delim .. Len(frame) : ~IsStuff(frame[i])
  BY DEF StuffedAsReceived, StuffedBefore
<1> DEFINE regular == {i \in 6 .. end - 1 : \A j \in i - 5 .. i - 2 : frame[j].val = frame[i - 1].val}
           fixed == {i \in end .. delim - 1 : (i - end) % 5 = 0}
<1>2. StuffPositions(frame) = regular \cup fixed
  BY <1>1 DEF StuffPositions
<1>3. ASSUME NEW i \in 1 .. end - 1
      PROVE  IsStuff(frame[i]) <=> i \in regular \cup fixed
  <2>1. i \notin fixed
    BY <1>1
  <2>2. FiveEqual(i, frame) <=> i \in regular
    BY <1>1 DEF FiveEqual
  <2> QED BY <1>1, <2>1, <2>2
<1>4. ASSUME NEW i \in end .. delim - 1
      PROVE  IsStuff(frame[i]) <=> i \in regular \cup fixed
  <2>1. i \notin regular
    BY <1>1
  <2>2. i \in fixed <=> (i - end) % 5 = 0
    OBVIOUS
  <2> QED BY <1>1, <2>1, <2>2
<1>5. ASSUME NEW i \in delim .. Len(frame)
      PROVE  ~IsStuff(frame[i]) /\ i \notin regular \cup fixed
  BY <1>1
<1>6. \A i \in regular \cup fixed : i \in 1 .. Len(frame)
  BY <1>1
<1> HIDE DEF regular, fixed
<1>7. \A i \in 1 .. Len(frame) : i \in 1 .. end - 1 \/ i \in end .. delim - 1 \/ i \in delim .. Len(frame)
  BY <1>1
<1>8. \A i \in 1 .. Len(frame) : IsStuff(frame[i]) <=> i \in regular \cup fixed
  BY <1>3, <1>4, <1>5, <1>7
<1>9. {i \in DOMAIN frame : IsStuff(frame[i])} = regular \cup fixed
  <2>1. DOMAIN frame = 1 .. Len(frame)
    OBVIOUS
  <2> QED BY <1>6, <1>8, <2>1
<1>10. ASSUME NEW i \in StuffPositions(frame)
       PROVE  frame[i].val # frame[i - 1].val
  <2>1. i \in 1 .. Len(frame) /\ IsStuff(frame[i])
    BY <1>2, <1>6, <1>8
  <2> QED BY <1>1, <1>7, <2>1
<1>11. StuffErrorAt(frame) = 0
  BY <1>10 DEF StuffErrorAt
<1> QED BY <1>2, <1>9, <1>11

\* A frame a test has built or updated, with or without a flipped bit of its CRC, has
\* its stuff bits where a receiver takes bits for stuff bits, and none of them is a
\* stuff error: for each golden frame, however long its data are.
THEOREM StuffBitsWhereReceivedHolds == Spec => []StuffBitsWhereReceived
<1>1. FrameInv => StuffBitsWhereReceived
  <2> SUFFICES ASSUME FrameInv, Done
               PROVE  /\ {i \in DOMAIN bits : IsStuff(bits[i])} = StuffPositions(bits)
                      /\ StuffErrorAt(bits) = 0
    BY DEF StuffBitsWhereReceived
  <2>1. TypeInv /\ bits \in Seq(BitType)
    BY DEF FrameInv, TypeInv
  <2>2. PICK place : Placed(place, bits, Built) /\ PhaseInv(place)
    BY DEF FrameInv
  <2>3. StuffInv(place) /\ bits[at].kind = "CrcDelim"
    BY <2>2 DEF PhaseInv, Done
  <2>4. CASE IsCan20
    <3>1. StuffedAsReceived(at, at, bits)
      BY <2>1, <2>3, <2>4, CanFrameDone DEF StuffInv
    <3> QED BY <2>1, <3>1, ReceivedPositions
  <2>5. CASE ~IsCan20
    <3>1. PICK end \in 1 .. Len(bits) : FixedStuffInv(place, end)
      BY <2>3, <2>5 DEF StuffInv
    <3>2. StuffedAsReceived(end, at, bits)
      BY <2>1, <2>2, <2>3, <2>5, <3>1, FdFrameDone
    <3> QED BY <2>1, <3>2, ReceivedPositions
  <2> QED BY <2>4, <2>5
<1> QED BY <1>1, FrameInvariant, PTL

\* The code of a stuff count is its Gray code, and with its parity it is even.
LEMMA CodeIsGray ==
  ASSUME NEW cnt \in 0 .. 7, NEW field, Len(field) = 4, field \in Seq({0, 1}),
         \A i \in 1 .. 3 : field[i] = StuffCntEncoded(cnt)[i],
         field[4] = EvenParity(StuffCntEncoded(cnt))
  PROVE  /\ SubSeq(field, 1, 3) = GrayOf(cnt)
         /\ (field[1] + field[2] + field[3] + field[4]) % 2 = 0
<1> DEFINE a == cnt \div 4
           b == Xor(cnt \div 4, (cnt \div 2) % 2)
           c == Xor((cnt \div 2) % 2, cnt % 2)
<1>1. StuffCntEncoded(cnt) = <<a, b, c>>
  BY DEF StuffCntEncoded
<1>2. GrayOf(cnt) = <<a, b, c>>
  <2>1. CASE cnt \in 0 .. 3
    <3>1. cnt = 0 \/ cnt = 1 \/ cnt = 2 \/ cnt = 3
      BY <2>1
    <3> QED BY <3>1 DEF Xor, GrayOf
  <2>2. CASE cnt \in 4 .. 7
    <3>1. cnt = 4 \/ cnt = 5 \/ cnt = 6 \/ cnt = 7
      BY <2>2
    <3> QED BY <3>1 DEF Xor, GrayOf
  <2> QED BY <2>1, <2>2
<1>3. a \in {0, 1} /\ b \in {0, 1} /\ c \in {0, 1}
  BY DEF Xor
<1> HIDE DEF a, b, c
<1> PICK gray : gray = <<a, b, c>>
  OBVIOUS
<1>4. /\ field[1] = gray[1] /\ field[2] = gray[2] /\ field[3] = gray[3]
      /\ gray \in Seq({0, 1}) /\ Len(gray) = 3
  BY <1>1, <1>3
<1>5. SubSeq(field, 1, 3) = gray
  <2>1. \A i \in 1 .. 3 : field[i] \in {0, 1}
    BY <1>3, <1>4
  <2>2. SubSeq(field, 1, 3) \in Seq({0, 1})
    BY <2>1, 1 \in Int, 3 \in Int, SubSeqProperties
  <2>3. Len(SubSeq(field, 1, 3)) = 3
    BY <2>1, SubSeqProperties
  <2>4. ASSUME NEW i \in 1 .. 3
        PROVE  SubSeq(field, 1, 3)[i] = gray[i]
    <3>1. SubSeq(field, 1, 3)[i] = field[1 + i - 1]
      BY <2>1, SubSeqProperties
    <3>2. 1 + i - 1 = i
      OBVIOUS
    <3> QED BY <1>4, <3>1, <3>2
  <2> QED BY <1>4, <2>2, <2>3, <2>4, SeqEqual
<1>6. field[4] = (field[1] + field[2] + field[3]) % 2
  BY <1>1, <1>4 DEF EvenParity
<1>7. field[1] \in {0, 1} /\ field[2] \in {0, 1} /\ field[3] \in {0, 1}
  OBVIOUS
<1>8. (field[1] + field[2] + field[3] + field[4]) % 2 = 0
  BY <1>6, <1>7
<1> QED BY <1>2, <1>5, <1>8

\* The stuff count in a CAN FD frame, in order with its parity, is the number, modulo 8,
\* of the stuff bits a receiver counts: also if the last field before it ends with five
\* equal bits, and after the frame has been edited and updated.
THEOREM StuffCountAsReceivedHolds == Spec => []StuffCountAsReceived
<1>1. FrameInv => StuffCountAsReceived
  <2> SUFFICES ASSUME FrameInv, Done, content.fdf = 1 PROVE StuffCountAsReceived
    BY DEF StuffCountAsReceived
  <2>1. TypeInv /\ bits \in Seq(BitType) /\ Len(bits) \in Nat /\ stuff_cnt \in 0 .. 7
    BY DEF FrameInv, TypeInv
  <2>2. PICK place : Placed(place, bits, Built) /\ PhaseInv(place)
    BY DEF FrameInv
  <2>3. StuffInv(place) /\ bits[at].kind = "CrcDelim"
    BY <2>2 DEF PhaseInv, Done
  <2>4. ~IsCan20
    BY <2>1, CanOrFd DEF TypeInv
  <2>5. PICK end \in 1 .. Len(bits) : FixedStuffInv(place, end)
    BY <2>3, <2>4 DEF StuffInv
  <2>6. StuffedAsReceived(end, at, bits)
    BY <2>1, <2>2, <2>3, <2>4, <2>5, FdFrameDone
  <2>7. {i \in 1 .. Len(bits) : IsStuff(bits[i])} = StuffPositions(bits) /\ EndOfStuffing(bits) = end
    BY <2>1, <2>6, ReceivedPositions DEF StuffedAsReceived
  <2>8. CountWritten(end, bits)
    BY <2>5 DEF FixedStuffInv
  <2>9. {i \in StuffPositions(bits) : i <= LastStuffed(bits)} = StuffBitsBefore(end, bits)
    <3>1. LastStuffed(bits) = end - 1
      BY <2>7 DEF LastStuffed
    <3>2. ASSUME NEW i
          PROVE  i \in StuffPositions(bits) /\ i <= end - 1 <=> i \in StuffBitsBefore(end, bits)
      <4>1. i \in StuffPositions(bits) <=> i \in 1 .. Len(bits) /\ IsStuff(bits[i])
        BY <2>7
      <4>2. i \in StuffBitsBefore(end, bits) <=> i \in 1 .. end - 1 /\ IsStuff(bits[i])
        BY DEF StuffBitsBefore
      <4>3. i \in 1 .. end - 1 <=> i \in 1 .. Len(bits) /\ i <= end - 1
        BY <2>1
      <4> QED BY <4>1, <4>2, <4>3
    <3> QED BY <3>1, <3>2
  <2> DEFINE counted == Cardinality({i \in StuffPositions(bits) : i <= LastStuffed(bits)}) % 8
             field == [i \in 1 .. 4 |-> bits[end + i].val]
  <2>10. counted = stuff_cnt
    BY <2>8, <2>9 DEF CountWritten, StuffedInOrder
  <2>11. field \in Seq({0, 1}) /\ Len(field) = 4
    <3>1. ASSUME NEW i \in 1 .. 4
          PROVE  bits[end + i].val \in {0, 1}
      <4>1. end + i \in 1 .. Len(bits)
        BY <2>1, <2>8 DEF CountWritten
      <4> QED BY <2>1, <4>1, BitValues DEF Dominant, Recessive
    <3> QED BY <3>1
  <2>12. /\ \A i \in 1 .. 3 : field[i] = StuffCntEncoded(stuff_cnt)[i]
         /\ field[4] = EvenParity(StuffCntEncoded(stuff_cnt))
    BY <2>8 DEF CountWritten, StuffCntBlock
  <2> HIDE DEF counted, field
  <2>13. /\ SubSeq(field, 1, 3) = GrayOf(counted)
         /\ (field[1] + field[2] + field[3] + field[4]) % 2 = 0
    BY <2>1, <2>10, <2>11, <2>12, CodeIsGray
  <2> QED BY <2>7, <2>13 DEF StuffCountAsReceived, counted, field
<1> QED BY <1>1, FrameInvariant, PTL
=============================================================================
