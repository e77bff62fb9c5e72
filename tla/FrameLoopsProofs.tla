-------------------------- MODULE FrameLoopsProofs --------------------------
(***************************************************************************)
(* Proofs about what the loops over a frame make of it, for all golden     *)
(* frames.                                                                 *)
(*                                                                         *)
(* The loops of BitFrame are functions that halve the list they run over.  *)
(* Such a function is a trace, one round after another (LoopTraced); what  *)
(* the loops of FrameUpdate have done up to a round is the trace up to     *)
(* that round (LoopsInv), whatever the calculated fields held before. An   *)
(* updated frame is then the one built from its content (UpdatedAsBuilt).  *)
(*                                                                         *)
(* The register of CalcCrc is divided by the polynomial as bits are        *)
(* shifted in, and what remains after a CRC has been shifted in is zero    *)
(* exactly if the CRC is the register (Division). The bits a receiver      *)
(* takes for protected are those CalcCrc has run over (CrcAsReceived).     *)
(***************************************************************************)
EXTENDS FrameUpdateProofs

-----------------------------------------------------------------------------
(* The loops over a frame, and their rounds.                               *)

\* Bits of a frame before fixed stuff bits are inserted.
UnfixedBits == {b \in BitType : b.stuff # "Fixed"}

\* What InsertNormalStuffBits carries from bit to bit.
StuffAcc == [same : Nat, prev : {Dominant, Recessive}, cnt : 0 .. 7]

\* What it starts with, after the SOF.
StuffFirst == [same |-> 1, prev |-> Dominant, cnt |-> 0]

\* A bit of the CRC, with a fixed stuff bit behind each fourth.
FixedRound(bit, passed) ==
  IF passed + 1 = CrcStuffEvery
  THEN [out |-> <<bit, Bit("Crc", Opposite(bit.val), "Fixed")>>, acc |-> 0]
  ELSE [out |-> <<bit>>, acc |-> passed + 1]

\* A frame with some of its bits replaced by what a loop puts out.
FixedStuffed(frame, first, delim, out) ==
  SubSeq(frame, 1, first - 1) \o out \o SubSeq(frame, delim, Len(frame))

\* EraseStuffBits starts with no stuff bit just erased.
NotPassed == FALSE

\* A bit is erased if it is a stuff bit, except right behind one that was erased.
EraseRound(bit, passed) ==
  IF ~passed /\ IsStuff(bit) THEN [out |-> <<>>, acc |-> TRUE]
  ELSE [out |-> <<bit>>, acc |-> FALSE]

\* CRC registers.
Registers(len) == [1 .. len -> {0, 1}]

\* A bit that is covered goes through the register.
CoverRound(bit, crc_value, len) ==
  [out |-> <<>>, acc |-> IF Covered(len, bit) THEN CrcStep(crc_value, bit.val) ELSE crc_value]

\* Messages as long as a given one.
Digits01(msg) == [DOMAIN msg -> {0, 1}]

\* A bit of the message is cancelled by the polynomial.
CancelRound(m, k, n) ==
  [out |-> <<>>,
   acc |-> IF m[k] = 0 THEN m
           ELSE [i \in DOMAIN m |-> IF i = k THEN 0
                                    ELSE IF i \in k + 1 .. k + n THEN Xor(m[i], Poly(n)[i - k])
                                    ELSE m[i]]]

\* What GetBitOf finds is a position in the frame, or none.
LEMMA FirstInFrame ==
  ASSUME NEW frame \in Seq(BitType), NEW kind
  PROVE  FirstOf(frame, kind) \in 0 .. Len(frame)
<1> DEFINE Found == {i \in 1 .. Len(frame) : frame[i].kind = kind}
<1>1. FirstOf(frame, kind) = IF Found # {} THEN Min(Found) ELSE 0
  BY DEF FirstOf, SelectInSeq
<1>2. Found \subseteq 1 .. Len(frame) /\ Found \subseteq Nat
  OBVIOUS
<1> HIDE DEF Found
<1>3. Found # {} => Min(Found) \in Found
  BY <1>2, HasFirst
<1>4. Len(frame) \in Nat
  OBVIOUS
<1>5. 0 \in 0 .. Len(frame) /\ \A i \in 1 .. Len(frame) : i \in 0 .. Len(frame)
  BY <1>4
<1>6. CASE Found # {}
  <2>1. Min(Found) \in 1 .. Len(frame)
    BY <1>2, <1>3, <1>6
  <2> QED BY <1>1, <1>5, <1>6, <2>1
<1>7. CASE Found = {}
  BY <1>1, <1>5, <1>7
<1> QED BY <1>6, <1>7

\* So is the end of regular stuffing.
LEMMA EndInFrame ==
  ASSUME NEW frame \in Seq(BitType)
  PROVE  EndOfStuffing(frame) \in 0 .. Len(frame)
<1> DEFINE Found == {i \in 1 .. Len(frame) : frame[i].kind \in {"CrcDelim", "StuffCnt"}}
<1>1. EndOfStuffing(frame) = IF Found # {} THEN Min(Found) ELSE 0
  BY DEF EndOfStuffing, SelectInSeq
<1>2. Found \subseteq 1 .. Len(frame) /\ Found \subseteq Nat
  OBVIOUS
<1> HIDE DEF Found
<1>3. Found # {} => Min(Found) \in Found
  BY <1>2, HasFirst
<1>4. Len(frame) \in Nat
  OBVIOUS
<1>5. 0 \in 0 .. Len(frame) /\ \A i \in 1 .. Len(frame) : i \in 0 .. Len(frame)
  BY <1>4
<1>6. CASE Found # {}
  <2>1. Min(Found) \in 1 .. Len(frame)
    BY <1>2, <1>3, <1>6
  <2> QED BY <1>1, <1>5, <1>6, <2>1
<1>7. CASE Found = {}
  BY <1>1, <1>5, <1>7
<1> QED BY <1>6, <1>7

\* Bits that are not fixed stuff bits are bits.
LEMMA UnfixedAreBits ==
  ASSUME NEW frame \in Seq(UnfixedBits)
  PROVE  frame \in Seq(BitType)
BY SeqMonotonic DEF UnfixedBits

\* What a round of InsertNormalStuffBits puts out and carries.
LEMMA StuffStepResult ==
  ASSUME NEW frame \in Seq(UnfixedBits), NEW i \in 1 .. Len(frame), NEW acc \in StuffAcc
  PROVE  StuffStep(frame, acc, i) \in Result(UnfixedBits, StuffAcc)
<1>1. frame[i] \in UnfixedBits /\ frame[i].val \in {0, 1} /\ frame[i].kind \in AllKinds
  BY DEF UnfixedBits, BitType, Dominant, Recessive
<1> DEFINE stuff == Bit(frame[i].kind, Opposite(frame[i].val), "Normal")
           run == IF frame[i].val = acc.prev THEN acc.same + 1 ELSE 1
<1>2. Opposite(frame[i].val) \in {0, 1}
  BY <1>1 DEF Opposite
<1>3. stuff \in UnfixedBits /\ stuff.val \in {0, 1}
  BY <1>1, <1>2 DEF Bit, UnfixedBits, BitType, Dominant, Recessive
<1>4. run \in Nat /\ acc.cnt \in 0 .. 7 /\ (acc.cnt + 1) % 8 \in 0 .. 7 /\ RunAfterStuff \in Nat
  BY DEF StuffAcc, RunAfterStuff
<1> HIDE DEF stuff, run
<1>5. [out |-> <<frame[i], stuff>>,
       acc |-> [same |-> RunAfterStuff, prev |-> stuff.val, cnt |-> (acc.cnt + 1) % 8]]
        \in Result(UnfixedBits, StuffAcc)
  BY <1>1, <1>3, <1>4 DEF Result, StuffAcc, Dominant, Recessive
<1>6. [out |-> <<frame[i]>>, acc |-> [same |-> run, prev |-> frame[i].val, cnt |-> acc.cnt]]
        \in Result(UnfixedBits, StuffAcc)
  BY <1>1, <1>4 DEF Result, StuffAcc, Dominant, Recessive
<1> QED BY <1>5, <1>6 DEF StuffStep, stuff, run

\* What a round of InsertFixedStuffToCrc puts out and carries.
LEMMA FixedRoundResult ==
  ASSUME NEW bit \in BitType, NEW passed \in Nat
  PROVE  FixedRound(bit, passed) \in Result(BitType, Nat)
<1>1. Opposite(bit.val) \in {0, 1}
  BY DEF Opposite, BitType, Dominant, Recessive
<1>2. Bit("Crc", Opposite(bit.val), "Fixed") \in BitType
  BY <1>1 DEF Bit, BitType, AllKinds, Dominant, Recessive
<1> QED BY <1>2 DEF FixedRound, Result

\* CalcCrc starts with a register.
LEMMA CrcInitType ==
  ASSUME NEW len \in {15, 17, 21}
  PROVE  CrcInit(len) \in Registers(len)
BY DEF CrcInit, Registers

\* A round of CalcCrc leaves a register.
LEMMA CoverRoundResult ==
  ASSUME NEW bit \in BitType, NEW len \in {15, 17, 21}, NEW value \in Registers(len)
  PROVE  CoverRound(bit, value, len) \in Result({}, Registers(len))
<1>1. bit.val \in {0, 1}
  BY DEF BitType, Dominant, Recessive
<1>2. CrcStep(value, bit.val) \in Registers(len)
  BY <1>1, CrcStepType DEF Registers
<1>3. <<>> \in Seq({})
  BY EmptySeq
<1> QED BY <1>2, <1>3 DEF CoverRound, Result

\* The polynomials have bits.
LEMMA PolyType ==
  ASSUME NEW n \in {15, 17, 21}, NEW i \in 1 .. n
  PROVE  Poly(n)[i] \in {0, 1}
<1>1. CASE n = 15
  BY <1>1 DEF Poly
<1>2. CASE n = 17
  BY <1>2 DEF Poly
<1>3. CASE n = 21
  BY <1>3 DEF Poly
<1> QED BY <1>1, <1>2, <1>3

\* A round of the division leaves a message as long.
LEMMA CancelRoundResult ==
  ASSUME NEW msg \in Seq({0, 1}), NEW n \in {15, 17, 21}, NEW m \in Digits01(msg), NEW k \in 1 .. Len(msg)
  PROVE  CancelRound(m, k, n) \in Result({}, Digits01(msg))
<1>1. ASSUME NEW i \in DOMAIN msg
      PROVE  (IF i = k THEN 0 ELSE IF i \in k + 1 .. k + n THEN Xor(m[i], Poly(n)[i - k]) ELSE m[i]) \in {0, 1}
  <2>1. m[i] \in {0, 1}
    BY DEF Digits01
  <2>2. i \in k + 1 .. k + n => Xor(m[i], Poly(n)[i - k]) \in {0, 1}
    <3>1. ASSUME i \in k + 1 .. k + n
          PROVE  Xor(m[i], Poly(n)[i - k]) \in {0, 1}
      <4>1. i - k \in 1 .. n
        BY <3>1
      <4>2. Poly(n)[i - k] \in {0, 1}
        BY <4>1, PolyType
      <4> QED BY <2>1, <4>2 DEF Xor
    <3> QED BY <3>1
  <2> QED BY <2>1, <2>2
<1>2. DOMAIN m = DOMAIN msg
  BY DEF Digits01
<1>3. [i \in DOMAIN m |-> IF i = k THEN 0
                          ELSE IF i \in k + 1 .. k + n THEN Xor(m[i], Poly(n)[i - k])
                          ELSE m[i]] \in Digits01(msg)
  BY <1>1, <1>2 DEF Digits01
<1>4. <<>> \in Seq({})
  BY EmptySeq
<1> QED BY <1>3, <1>4 DEF CancelRound, Result

\* Rounds of OnlyAt.
OnlyAtStep(seq, kept) ==
  [i \in 1 .. Len(seq) |->
     [acc \in {0} |-> [out |-> IF i \in kept THEN <<seq[i]>> ELSE <<>>, acc |-> acc]]]

\* OnlyAt picks the bits in turn.
LEMMA OnlyAtTraced ==
  ASSUME NEW S, NEW seq \in Seq(S), Len(seq) > 0, NEW kept
  PROVE  \E trace : /\ IsTrace(trace, OnlyAtStep(seq, kept), 0, Len(seq), S, {0})
                    /\ OnlyAt(seq, kept) = trace[Len(seq)].out
<1> DEFINE step == OnlyAtStep(seq, kept)
           Eq(rounds) == rounds = [r \in [lo : 1 .. Len(seq), hi : 1 .. Len(seq), acc : {0}] |->
             IF r.lo = r.hi THEN [out |-> IF r.lo \in kept THEN <<seq[r.lo]>> ELSE <<>>, acc |-> r.acc]
             ELSE LET mid   == (r.lo + r.hi) \div 2
                      left  == rounds[Rounds(r.lo, mid, r.acc)]
                      right == rounds[Rounds(mid + 1, r.hi, left.acc)]
                  IN  [out |-> left.out \o right.out, acc |-> right.acc]]
<1>1. Len(seq) \in Nat /\ Len(seq) > 0 /\ 0 \in {0}
  OBVIOUS
<1>2. step \in StepFcns(Len(seq), S, {0})
  <2>1. ASSUME NEW i \in 1 .. Len(seq), NEW acc \in {0}
        PROVE  [out |-> IF i \in kept THEN <<seq[i]>> ELSE <<>>, acc |-> acc] \in Result(S, {0})
    BY DEF Result
  <2> QED BY <2>1 DEF OnlyAtStep, StepFcns
<1>3. ASSUME NEW r \in Parts(Len(seq), {0})
      PROVE  step[r.lo][r.acc] = [out |-> IF r.lo \in kept THEN <<seq[r.lo]>> ELSE <<>>, acc |-> r.acc]
  BY DEF Parts, OnlyAtStep
<1>4. OnlyAt(seq, kept) = (CHOOSE rounds : Eq(rounds))[Rounds(1, Len(seq), 0)].out
  BY DEF OnlyAt, Loop
<1> HIDE DEF step
<1>5. ASSUME NEW rounds
      PROVE  Eq(rounds) <=> IsLoop(rounds, step, Len(seq), {0})
  BY <1>3 DEF IsLoop, ByHalves, Parts
<1> HIDE DEF Eq
<1>6. \E rounds : Eq(rounds)
  BY <1>1, <1>2, <1>5, LoopTraced
<1>7. Eq(CHOOSE rounds : Eq(rounds))
  BY <1>6
<1>8. IsLoop(CHOOSE rounds : Eq(rounds), step, Len(seq), {0})
  BY <1>5, <1>7
<1>9. PICK trace : /\ IsTrace(trace, step, 0, Len(seq), S, {0})
                   /\ \A rounds : IsLoop(rounds, step, Len(seq), {0})
                                     => rounds[Rounds(1, Len(seq), 0)] = trace[Len(seq)]
  BY <1>1, <1>2, LoopTraced
<1>10. (CHOOSE rounds : Eq(rounds))[Rounds(1, Len(seq), 0)] = trace[Len(seq)]
  BY <1>8, <1>9
<1>11. OnlyAt(seq, kept) = trace[Len(seq)].out
  BY <1>4, <1>10
<1> QED BY <1>9, <1>11 DEF step

\* Rounds of InsertNormalStuffBits.
NormalStep(frame, n) ==
  [i \in 1 .. n |->
     [acc \in StuffAcc |-> StuffStep(frame, acc, i + 1)]]

\* InsertNormalStuffBits goes over the bits in turn.
LEMMA NormalStuffTraced ==
  ASSUME NEW frame \in Seq(UnfixedBits), EndOfStuffing(frame) > 2
  PROVE  \E trace : /\ IsTrace(trace, NormalStep(frame, (EndOfStuffing(frame) - 2)),
                               StuffFirst, (EndOfStuffing(frame) - 2), UnfixedBits, StuffAcc)
                    /\ InsertNormalStuffBits(frame)
                         = WithStuffBits(frame, EndOfStuffing(frame), trace[EndOfStuffing(frame) - 2])
<1> DEFINE step == NormalStep(frame, (EndOfStuffing(frame) - 2))
           Eq(rounds) ==
             rounds = [r \in [lo  : 1 .. (EndOfStuffing(frame) - 2),
                            hi  : 1 .. (EndOfStuffing(frame) - 2),
                            acc : StuffAcc] |->
             IF r.lo = r.hi THEN StuffStep(frame, r.acc, r.lo + 1)
             ELSE LET mid   == (r.lo + r.hi) \div 2
                      left  == rounds[Rounds(r.lo, mid, r.acc)]
                      right == rounds[Rounds(mid + 1, r.hi, left.acc)]
                  IN  [out |-> left.out \o right.out, acc |-> right.acc]]
<1>1. (EndOfStuffing(frame) - 2) \in Nat /\ (EndOfStuffing(frame) - 2) > 0 /\ StuffFirst \in StuffAcc
  <2>1. EndOfStuffing(frame) \in Nat
    BY EndInFrame, UnfixedAreBits
  <2> QED BY <2>1 DEF StuffAcc, StuffFirst, Dominant, Recessive
<1>2. step \in StepFcns((EndOfStuffing(frame) - 2), UnfixedBits, StuffAcc)
  <2>1. ASSUME NEW i \in 1 .. (EndOfStuffing(frame) - 2), NEW acc \in StuffAcc
        PROVE  StuffStep(frame, acc, i + 1) \in Result(UnfixedBits, StuffAcc)
    <3>1. EndOfStuffing(frame) \in 0 .. Len(frame)
      BY EndInFrame, UnfixedAreBits
    <3>2. i + 1 \in 1 .. Len(frame)
      BY <3>1
    <3> QED BY <3>2, StuffStepResult
  <2> QED BY <2>1 DEF NormalStep, StepFcns
<1>3. ASSUME NEW r \in Parts((EndOfStuffing(frame) - 2), StuffAcc)
      PROVE  step[r.lo][r.acc] = StuffStep(frame, r.acc, r.lo + 1)
  BY DEF Parts, NormalStep
<1>4. InsertNormalStuffBits(frame)
        = WithStuffBits(frame, EndOfStuffing(frame),
                        (CHOOSE rounds : Eq(rounds))[Rounds(1, (EndOfStuffing(frame) - 2), StuffFirst)])
  BY DEF InsertNormalStuffBits, StuffAcc, StuffFirst, Loop
<1> HIDE DEF step
<1>5. ASSUME NEW rounds
      PROVE  Eq(rounds) <=> IsLoop(rounds, step, (EndOfStuffing(frame) - 2), StuffAcc)
  BY <1>3 DEF IsLoop, ByHalves, Parts
<1> HIDE DEF Eq
<1>6. \E rounds : Eq(rounds)
  BY <1>1, <1>2, <1>5, LoopTraced
<1>7. Eq(CHOOSE rounds : Eq(rounds))
  BY <1>6
<1>8. IsLoop(CHOOSE rounds : Eq(rounds), step, (EndOfStuffing(frame) - 2), StuffAcc)
  BY <1>5, <1>7
<1>9. PICK trace : /\ IsTrace(trace, step, StuffFirst, (EndOfStuffing(frame) - 2), UnfixedBits, StuffAcc)
                   /\ \A rounds : IsLoop(rounds, step, (EndOfStuffing(frame) - 2), StuffAcc)
                                     => rounds[Rounds(1, (EndOfStuffing(frame) - 2), StuffFirst)]
                                           = trace[(EndOfStuffing(frame) - 2)]
  BY <1>1, <1>2, LoopTraced
<1>10. (CHOOSE rounds : Eq(rounds))[Rounds(1, (EndOfStuffing(frame) - 2), StuffFirst)]
        = trace[(EndOfStuffing(frame) - 2)]
  BY <1>8, <1>9
<1>11. InsertNormalStuffBits(frame)
         = WithStuffBits(frame, EndOfStuffing(frame), trace[EndOfStuffing(frame) - 2])
  BY <1>4, <1>10
<1> QED BY <1>9, <1>11 DEF step

\* Rounds of StuffFromTo.
FixedStep(frame, first, n) ==
  [i \in 1 .. n |->
     [acc \in Nat |-> FixedRound(frame[first + i - 1], acc)]]

\* InsertFixedStuffToCrc goes over the bits of the CRC in turn.
LEMMA FixedStuffTraced ==
  ASSUME NEW frame \in Seq(BitType), NEW first \in Nat, first > 0, NEW delim \in 1 .. Len(frame),
         first < delim
  PROVE  \E trace : /\ IsTrace(trace, FixedStep(frame, first, (delim - first)),
                               0, (delim - first), BitType, Nat)
                    /\ StuffFromTo(frame, first, delim)
                         = FixedStuffed(frame, first, delim, trace[delim - first].out)
<1> DEFINE step == FixedStep(frame, first, (delim - first))
           Eq(rounds) == rounds = [r \in [lo : 1 .. (delim - first), hi : 1 .. (delim - first), acc : Nat] |->
             IF r.lo = r.hi THEN FixedRound(frame[first + r.lo - 1], r.acc)
             ELSE LET mid   == (r.lo + r.hi) \div 2
                      left  == rounds[Rounds(r.lo, mid, r.acc)]
                      right == rounds[Rounds(mid + 1, r.hi, left.acc)]
                  IN  [out |-> left.out \o right.out, acc |-> right.acc]]
<1>1. (delim - first) \in Nat /\ (delim - first) > 0 /\ 0 \in Nat
  OBVIOUS
<1>2. step \in StepFcns((delim - first), BitType, Nat)
  <2>1. ASSUME NEW i \in 1 .. (delim - first), NEW acc \in Nat
        PROVE  FixedRound(frame[first + i - 1], acc) \in Result(BitType, Nat)
    BY FixedRoundResult
  <2> QED BY <2>1 DEF FixedStep, StepFcns
<1>3. ASSUME NEW r \in Parts((delim - first), Nat)
      PROVE  step[r.lo][r.acc] = FixedRound(frame[first + r.lo - 1], r.acc)
  BY DEF Parts, FixedStep
<1>4. StuffFromTo(frame, first, delim)
        = FixedStuffed(frame, first, delim, (CHOOSE rounds : Eq(rounds))[Rounds(1, (delim - first), 0)].out)
  BY DEF StuffFromTo, FixedStuffed, FixedRound, Loop
<1> HIDE DEF step
<1>5. ASSUME NEW rounds
      PROVE  Eq(rounds) <=> IsLoop(rounds, step, (delim - first), Nat)
  BY <1>3 DEF IsLoop, ByHalves, Parts
<1> HIDE DEF Eq
<1>6. \E rounds : Eq(rounds)
  BY <1>1, <1>2, <1>5, LoopTraced
<1>7. Eq(CHOOSE rounds : Eq(rounds))
  BY <1>6
<1>8. IsLoop(CHOOSE rounds : Eq(rounds), step, (delim - first), Nat)
  BY <1>5, <1>7
<1>9. PICK trace : /\ IsTrace(trace, step, 0, (delim - first), BitType, Nat)
                   /\ \A rounds : IsLoop(rounds, step, (delim - first), Nat)
                                     => rounds[Rounds(1, (delim - first), 0)] = trace[(delim - first)]
  BY <1>1, <1>2, LoopTraced
<1>10. (CHOOSE rounds : Eq(rounds))[Rounds(1, (delim - first), 0)] = trace[(delim - first)]
  BY <1>8, <1>9
<1>11. StuffFromTo(frame, first, delim) = FixedStuffed(frame, first, delim, trace[delim - first].out)
  BY <1>4, <1>10
<1> QED BY <1>9, <1>11 DEF step

\* Rounds of EraseStuffBits.
EraseStep(frame) ==
  [i \in 1 .. Len(frame) |->
     [acc \in BOOLEAN |-> EraseRound(frame[i], acc)]]

\* EraseStuffBits goes over the bits in turn.
LEMMA EraseTraced ==
  ASSUME NEW frame \in Seq(BitType), Len(frame) > 0
  PROVE  \E trace : /\ IsTrace(trace, EraseStep(frame), NotPassed, Len(frame), BitType, BOOLEAN)
                    /\ EraseStuffBits(frame) = trace[Len(frame)].out
<1> DEFINE step == EraseStep(frame)
           Eq(rounds) == rounds = [r \in [lo : 1 .. Len(frame), hi : 1 .. Len(frame), acc : BOOLEAN] |->
             IF r.lo = r.hi THEN EraseRound(frame[r.lo], r.acc)
             ELSE LET mid   == (r.lo + r.hi) \div 2
                      left  == rounds[Rounds(r.lo, mid, r.acc)]
                      right == rounds[Rounds(mid + 1, r.hi, left.acc)]
                  IN  [out |-> left.out \o right.out, acc |-> right.acc]]
<1>1. Len(frame) \in Nat /\ Len(frame) > 0 /\ NotPassed \in BOOLEAN
  BY DEF NotPassed
<1>2. step \in StepFcns(Len(frame), BitType, BOOLEAN)
  <2>1. ASSUME NEW i \in 1 .. Len(frame), NEW acc \in BOOLEAN
        PROVE  EraseRound(frame[i], acc) \in Result(BitType, BOOLEAN)
    BY DEF EraseRound, Result
  <2> QED BY <2>1 DEF EraseStep, StepFcns
<1>3. ASSUME NEW r \in Parts(Len(frame), BOOLEAN)
      PROVE  step[r.lo][r.acc] = EraseRound(frame[r.lo], r.acc)
  BY DEF Parts, EraseStep
<1>4. EraseStuffBits(frame) = (CHOOSE rounds : Eq(rounds))[Rounds(1, Len(frame), NotPassed)].out
  BY DEF EraseStuffBits, EraseRound, NotPassed, Loop
<1> HIDE DEF step
<1>5. ASSUME NEW rounds
      PROVE  Eq(rounds) <=> IsLoop(rounds, step, Len(frame), BOOLEAN)
  BY <1>3 DEF IsLoop, ByHalves, Parts
<1> HIDE DEF Eq
<1>6. \E rounds : Eq(rounds)
  BY <1>1, <1>2, <1>5, LoopTraced
<1>7. Eq(CHOOSE rounds : Eq(rounds))
  BY <1>6
<1>8. IsLoop(CHOOSE rounds : Eq(rounds), step, Len(frame), BOOLEAN)
  BY <1>5, <1>7
<1>9. PICK trace : /\ IsTrace(trace, step, NotPassed, Len(frame), BitType, BOOLEAN)
                   /\ \A rounds : IsLoop(rounds, step, Len(frame), BOOLEAN)
                                     => rounds[Rounds(1, Len(frame), NotPassed)] = trace[Len(frame)]
  BY <1>1, <1>2, LoopTraced
<1>10. (CHOOSE rounds : Eq(rounds))[Rounds(1, Len(frame), NotPassed)] = trace[Len(frame)]
  BY <1>8, <1>9
<1>11. EraseStuffBits(frame) = trace[Len(frame)].out
  BY <1>4, <1>10
<1> QED BY <1>9, <1>11 DEF step

\* Rounds of CalcCrc.
CoverStep(frame, len, n) ==
  [i \in 1 .. n |->
     [acc \in Registers(len) |-> CoverRound(frame[i], acc, len)]]

\* CalcCrc goes over the bits before the CRC in turn.
LEMMA CrcTraced ==
  ASSUME NEW frame \in Seq(BitType), NEW len \in {15, 17, 21}, FirstOf(frame, "Crc") > 1
  PROVE  \E trace : /\ IsTrace(trace, CoverStep(frame, len, (FirstOf(frame, "Crc") - 1)),
                               CrcInit(len), (FirstOf(frame, "Crc") - 1), {}, Registers(len))
                    /\ CalcCrc(frame, len) = trace[FirstOf(frame, "Crc") - 1].acc
<1> DEFINE step == CoverStep(frame, len, (FirstOf(frame, "Crc") - 1))
           Eq(rounds) ==
             rounds = [r \in [lo  : 1 .. (FirstOf(frame, "Crc") - 1),
                            hi  : 1 .. (FirstOf(frame, "Crc") - 1),
                            acc : Registers(len)] |->
             IF r.lo = r.hi THEN CoverRound(frame[r.lo], r.acc, len)
             ELSE LET mid   == (r.lo + r.hi) \div 2
                      left  == rounds[Rounds(r.lo, mid, r.acc)]
                      right == rounds[Rounds(mid + 1, r.hi, left.acc)]
                  IN  [out |-> left.out \o right.out, acc |-> right.acc]]
<1>1. (FirstOf(frame, "Crc") - 1) \in Nat /\ (FirstOf(frame, "Crc") - 1) > 0 /\ CrcInit(len) \in Registers(len)
  <2>1. FirstOf(frame, "Crc") \in Nat
    BY FirstInFrame
  <2> QED BY <2>1, CrcInitType
<1>2. step \in StepFcns((FirstOf(frame, "Crc") - 1), {}, Registers(len))
  <2>1. ASSUME NEW i \in 1 .. (FirstOf(frame, "Crc") - 1), NEW acc \in Registers(len)
        PROVE  CoverRound(frame[i], acc, len) \in Result({}, Registers(len))
    <3>1. FirstOf(frame, "Crc") \in 0 .. Len(frame)
      BY FirstInFrame
    <3>2. frame[i] \in BitType
      BY <3>1
    <3> QED BY <3>2, CoverRoundResult
  <2> QED BY <2>1 DEF CoverStep, StepFcns
<1>3. ASSUME NEW r \in Parts((FirstOf(frame, "Crc") - 1), Registers(len))
      PROVE  step[r.lo][r.acc] = CoverRound(frame[r.lo], r.acc, len)
  BY DEF Parts, CoverStep
<1>4. CalcCrc(frame, len)
        = (CHOOSE rounds : Eq(rounds))[Rounds(1, (FirstOf(frame, "Crc") - 1), CrcInit(len))].acc
  BY DEF CalcCrc, Registers, CoverRound, Loop
<1> HIDE DEF step
<1>5. ASSUME NEW rounds
      PROVE  Eq(rounds) <=> IsLoop(rounds, step, (FirstOf(frame, "Crc") - 1), Registers(len))
  BY <1>3 DEF IsLoop, ByHalves, Parts
<1> HIDE DEF Eq
<1>6. \E rounds : Eq(rounds)
  BY <1>1, <1>2, <1>5, LoopTraced
<1>7. Eq(CHOOSE rounds : Eq(rounds))
  BY <1>6
<1>8. IsLoop(CHOOSE rounds : Eq(rounds), step, (FirstOf(frame, "Crc") - 1), Registers(len))
  BY <1>5, <1>7
<1>9. PICK trace : /\ IsTrace(trace, step, CrcInit(len), (FirstOf(frame, "Crc") - 1), {}, Registers(len))
                   /\ \A rounds : IsLoop(rounds, step, (FirstOf(frame, "Crc") - 1), Registers(len))
                                     => rounds[Rounds(1, (FirstOf(frame, "Crc") - 1), CrcInit(len))]
                                           = trace[(FirstOf(frame, "Crc") - 1)]
  BY <1>1, <1>2, LoopTraced
<1>10. (CHOOSE rounds : Eq(rounds))[Rounds(1, (FirstOf(frame, "Crc") - 1), CrcInit(len))]
        = trace[(FirstOf(frame, "Crc") - 1)]
  BY <1>8, <1>9
<1>11. CalcCrc(frame, len) = trace[FirstOf(frame, "Crc") - 1].acc
  BY <1>4, <1>10
<1> QED BY <1>9, <1>11 DEF step

\* Rounds of Remainder.
CancelStep(msg, len, n) ==
  [i \in 1 .. n |->
     [acc \in Digits01(msg) |-> CancelRound(acc, i, len)]]

\* The division cancels the bits of the message in turn.
LEMMA RemainderTraced ==
  ASSUME NEW msg \in Seq({0, 1}), NEW len \in {15, 17, 21}, Len(msg) > len
  PROVE  \E trace : /\ IsTrace(trace, CancelStep(msg, len, (Len(msg) - len)),
                               msg, (Len(msg) - len), {}, Digits01(msg))
                    /\ Remainder(msg, len) = trace[Len(msg) - len].acc
<1> DEFINE step == CancelStep(msg, len, (Len(msg) - len))
           Eq(rounds) ==
             rounds = [r \in [lo : 1 .. (Len(msg) - len), hi : 1 .. (Len(msg) - len), acc : Digits01(msg)] |->
             IF r.lo = r.hi THEN CancelRound(r.acc, r.lo, len)
             ELSE LET mid   == (r.lo + r.hi) \div 2
                      left  == rounds[Rounds(r.lo, mid, r.acc)]
                      right == rounds[Rounds(mid + 1, r.hi, left.acc)]
                  IN  [out |-> left.out \o right.out, acc |-> right.acc]]
<1>1. (Len(msg) - len) \in Nat /\ (Len(msg) - len) > 0 /\ msg \in Digits01(msg)
  BY DEF Digits01
<1>2. step \in StepFcns((Len(msg) - len), {}, Digits01(msg))
  <2>1. ASSUME NEW i \in 1 .. (Len(msg) - len), NEW acc \in Digits01(msg)
        PROVE  CancelRound(acc, i, len) \in Result({}, Digits01(msg))
    BY CancelRoundResult
  <2> QED BY <2>1 DEF CancelStep, StepFcns
<1>3. ASSUME NEW r \in Parts((Len(msg) - len), Digits01(msg))
      PROVE  step[r.lo][r.acc] = CancelRound(r.acc, r.lo, len)
  BY DEF Parts, CancelStep
<1>4. Remainder(msg, len) = (CHOOSE rounds : Eq(rounds))[Rounds(1, (Len(msg) - len), msg)].acc
  BY DEF Remainder, Digits01, CancelRound, Loop
<1> HIDE DEF step
<1>5. ASSUME NEW rounds
      PROVE  Eq(rounds) <=> IsLoop(rounds, step, (Len(msg) - len), Digits01(msg))
  BY <1>3 DEF IsLoop, ByHalves, Parts
<1> HIDE DEF Eq
<1>6. \E rounds : Eq(rounds)
  BY <1>1, <1>2, <1>5, LoopTraced
<1>7. Eq(CHOOSE rounds : Eq(rounds))
  BY <1>6
<1>8. IsLoop(CHOOSE rounds : Eq(rounds), step, (Len(msg) - len), Digits01(msg))
  BY <1>5, <1>7
<1>9. PICK trace : /\ IsTrace(trace, step, msg, (Len(msg) - len), {}, Digits01(msg))
                   /\ \A rounds : IsLoop(rounds, step, (Len(msg) - len), Digits01(msg))
                                     => rounds[Rounds(1, (Len(msg) - len), msg)] = trace[(Len(msg) - len)]
  BY <1>1, <1>2, LoopTraced
<1>10. (CHOOSE rounds : Eq(rounds))[Rounds(1, (Len(msg) - len), msg)] = trace[(Len(msg) - len)]
  BY <1>8, <1>9
<1>11. Remainder(msg, len) = trace[Len(msg) - len].acc
  BY <1>4, <1>10
<1> QED BY <1>9, <1>11 DEF step

-----------------------------------------------------------------------------
(* A frame without some of its bits.                                       *)

\* Places that are in order.
Increasing(place, m) == \A i, j \in 1 .. m : i < j => place[i] < place[j]

\* A round of OnlyAt puts out a bit or none.
LEMMA OnlyAtStepType ==
  ASSUME NEW S, NEW seq \in Seq(S), NEW kept
  PROVE  OnlyAtStep(seq, kept) \in StepFcns(Len(seq), S, {0})
<1>1. ASSUME NEW i \in 1 .. Len(seq), NEW acc \in {0}
      PROVE  [out |-> IF i \in kept THEN <<seq[i]>> ELSE <<>>, acc |-> acc] \in Result(S, {0})
  BY DEF Result
<1> QED BY <1>1 DEF OnlyAtStep, StepFcns

\* A round of OnlyAt.
LEMMA OnlyAtRound ==
  ASSUME NEW S, NEW seq \in Seq(S), NEW kept, NEW trace,
         IsTrace(trace, OnlyAtStep(seq, kept), 0, Len(seq), S, {0}), NEW k \in Nat, k < Len(seq)
  PROVE  /\ trace[k].out \in Seq(S)
         /\ trace[k + 1].out = IF k + 1 \in kept THEN Append(trace[k].out, seq[k + 1]) ELSE trace[k].out
<1>1. Len(seq) \in Nat /\ k + 1 \in 1 .. Len(seq)
  OBVIOUS
<1>2. OneMore(trace, OnlyAtStep(seq, kept), k, S, {0})
  BY <1>1, TraceRound
<1>3. trace[k].acc \in {0} /\ trace[k].out \in Seq(S)
  BY <1>2 DEF OneMore, Result
<1>4. OnlyAtStep(seq, kept)[k + 1][trace[k].acc].out = IF k + 1 \in kept THEN <<seq[k + 1]>> ELSE <<>>
  BY <1>1, <1>3 DEF OnlyAtStep
<1>5. \A s \in Seq(S), x \in S : s \o <<>> = s /\ s \o <<x>> = Append(s, x)
  OBVIOUS
<1>6. seq[k + 1] \in S
  BY <1>1
<1>7. trace[k + 1].out = trace[k].out \o OnlyAtStep(seq, kept)[k + 1][trace[k].acc].out
  BY <1>2 DEF OneMore
<1> QED BY <1>3, <1>4, <1>5, <1>6, <1>7

\* The positions that are kept, in their order.
Keeps(place, m, n, kept) ==
  /\ place \in [1 .. m -> 1 .. n] /\ Increasing(place, m)
  /\ \A i \in 1 .. n : i \in kept <=> \E j \in 1 .. m : place[j] = i

\* OnlyAt gives the elements in them, one after another.
LEMMA OnlyAtPlaces ==
  ASSUME NEW S, NEW seq \in Seq(S), Len(seq) > 0, NEW kept,
         NEW m \in Nat, NEW place, Keeps(place, m, Len(seq), kept)
  PROVE  OnlyAt(seq, kept) = [j \in 1 .. m |-> seq[place[j]]]
<1>0. /\ place \in [1 .. m -> 1 .. Len(seq)] /\ Increasing(place, m)
      /\ \A i \in 1 .. Len(seq) : i \in kept <=> \E j \in 1 .. m : place[j] = i
  BY DEF Keeps
<1>1. PICK trace : /\ IsTrace(trace, OnlyAtStep(seq, kept), 0, Len(seq), S, {0})
                   /\ OnlyAt(seq, kept) = trace[Len(seq)].out
  BY OnlyAtTraced
<1> DEFINE Found(c, i) == /\ \A j \in 1 .. m : j <= c <=> place[j] <= i
                          /\ trace[i].out \in Seq(S) /\ Len(trace[i].out) = c
                          /\ \A j \in 1 .. c : trace[i].out[j] = seq[place[j]]
           good == {i \in Nat : i <= Len(seq) => \E c \in 0 .. m : Found(c, i)}
<1>2. 0 \in good
  <2>1. trace[0].out = <<>>
    BY <1>1 DEF IsTrace
  <2>2. \A j \in 1 .. m : j <= 0 <=> place[j] <= 0
    BY <1>0
  <2>3. Found(0, 0)
    BY <2>1, <2>2
  <2> QED BY <2>3
<1>3. ASSUME NEW i \in Nat, i \in good
      PROVE  i + 1 \in good
  <2> SUFFICES ASSUME i + 1 <= Len(seq)
               PROVE  \E c \in 0 .. m : Found(c, i + 1)
    OBVIOUS
  <2>1. PICK c \in 0 .. m : Found(c, i)
    BY <1>3
  <2>2. trace[i + 1].out = IF i + 1 \in kept THEN Append(trace[i].out, seq[i + 1]) ELSE trace[i].out
    BY <1>1, OnlyAtRound
  <2>3. i + 1 \in 1 .. Len(seq) /\ seq[i + 1] \in S
    OBVIOUS
  <2>4. \A j \in 1 .. m : place[j] \in Nat
    BY <1>0
  <2>5. CASE i + 1 \in kept
    <3>1. PICK j \in 1 .. m : place[j] = i + 1
      BY <1>0, <2>3, <2>5
    <3>2. j = c + 1
      <4>1. ~(j <= c)
        BY <2>1, <3>1
      <4>2. ~(c + 1 < j)
        <5> SUFFICES ASSUME c + 1 < j PROVE FALSE
          OBVIOUS
        <5>1. c + 1 \in 1 .. m
          OBVIOUS
        <5>2. place[c + 1] < i + 1
          BY <1>0, <3>1, <5>1 DEF Increasing
        <5>3. place[c + 1] <= i
          BY <2>4, <5>1, <5>2
        <5> QED BY <2>1, <5>1, <5>3
      <4> QED BY <4>1, <4>2
    <3>3. ASSUME NEW l \in 1 .. m
          PROVE  l <= c + 1 <=> place[l] <= i + 1
      <4>1. CASE l <= c
        BY <2>1, <2>4, <4>1
      <4>2. CASE l = c + 1
        BY <2>4, <3>1, <3>2, <4>2
      <4>3. CASE l > c + 1
        <5>1. place[j] < place[l]
          BY <1>0, <3>2, <4>3 DEF Increasing
        <5> QED BY <2>4, <3>1, <4>3, <5>1
      <4> QED BY <4>1, <4>2, <4>3
    <3>4. trace[i + 1].out = Append(trace[i].out, seq[i + 1])
      BY <2>2, <2>5
    <3>5. PICK s : s = trace[i].out
      OBVIOUS
    <3>6. /\ Append(s, seq[i + 1]) \in Seq(S) /\ Len(Append(s, seq[i + 1])) = c + 1
          /\ \A l \in 1 .. c + 1 : Append(s, seq[i + 1])[l] = seq[place[l]]
      <4>1. s \in Seq(S) /\ Len(s) = c /\ \A l \in 1 .. c : s[l] = seq[place[l]]
        BY <2>1, <3>5
      <4>2. /\ Append(s, seq[i + 1]) \in Seq(S) /\ Len(Append(s, seq[i + 1])) = c + 1
            /\ \A l \in 1 .. c : Append(s, seq[i + 1])[l] = s[l]
            /\ Append(s, seq[i + 1])[c + 1] = seq[i + 1]
        BY <2>3, <4>1
      <4>3. \A l \in 1 .. c + 1 : l \in 1 .. c \/ l = c + 1
        OBVIOUS
      <4> QED BY <3>1, <3>2, <4>1, <4>2, <4>3
    <3>7. Found(c + 1, i + 1)
      BY <3>3, <3>4, <3>5, <3>6
    <3>8. c + 1 \in 0 .. m
      BY <3>2
    <3> QED BY <3>7, <3>8
  <2>6. CASE i + 1 \notin kept
    <3>1. ASSUME NEW l \in 1 .. m
          PROVE  l <= c <=> place[l] <= i + 1
      <4>1. place[l] # i + 1
        BY <1>0, <2>3, <2>6
      <4>2. place[l] <= i <=> place[l] <= i + 1
        BY <2>4, <4>1
      <4> QED BY <2>1, <4>2
    <3>2. trace[i + 1].out = trace[i].out
      BY <2>2, <2>6
    <3>3. Found(c, i + 1)
      BY <2>1, <3>1, <3>2
    <3> QED BY <3>3
  <2> QED BY <2>5, <2>6
<1>4. \A i \in Nat : i \in good
  <2> HIDE DEF good
  <2> QED BY <1>2, <1>3, SetInduction
<1>5. PICK c \in 0 .. m : Found(c, Len(seq))
  BY <1>4
<1>6. c = m
  <2>1. m # 0 => m \in 1 .. m /\ place[m] <= Len(seq)
    BY <1>0
  <2> QED BY <1>5, <2>1
<1>7. OnlyAt(seq, kept) \in Seq(S) /\ Len(OnlyAt(seq, kept)) = m
      /\ \A j \in 1 .. m : OnlyAt(seq, kept)[j] = seq[place[j]]
  BY <1>1, <1>5, <1>6
<1>8. [j \in 1 .. m |-> seq[place[j]]] \in Seq(S) /\ Len([j \in 1 .. m |-> seq[place[j]]]) = m
  BY <1>0
<1> QED BY <1>7, <1>8

\* Erasing leaves the bits that are no stuff bits, if no two stuff bits stand side by side.
LEMMA ErasedApart ==
  ASSUME NEW frame \in Seq(BitType), Len(frame) > 0,
         \A i \in 1 .. Len(frame) - 1 : ~(IsStuff(frame[i]) /\ IsStuff(frame[i + 1]))
  PROVE  EraseStuffBits(frame) = OnlyAt(frame, {i \in 1 .. Len(frame) : ~IsStuff(frame[i])})
<1> DEFINE plain == {i \in 1 .. Len(frame) : ~IsStuff(frame[i])}
<1>1. PICK trace : /\ IsTrace(trace, EraseStep(frame), NotPassed, Len(frame), BitType, BOOLEAN)
                   /\ EraseStuffBits(frame) = trace[Len(frame)].out
  BY EraseTraced
<1>2. PICK other : /\ IsTrace(other, OnlyAtStep(frame, plain), 0, Len(frame), BitType, {0})
                   /\ OnlyAt(frame, plain) = other[Len(frame)].out
  BY OnlyAtTraced
<1> DEFINE good == {i \in Nat : i <= Len(frame) =>
                      /\ trace[i].out = other[i].out
                      /\ trace[i].acc <=> (i > 0 /\ IsStuff(frame[i]))}
<1>3. 0 \in good
  <2>1. trace[0] = [out |-> <<>>, acc |-> NotPassed] /\ other[0] = [out |-> <<>>, acc |-> 0]
    BY <1>1, <1>2 DEF IsTrace
  <2> QED BY <2>1 DEF NotPassed
<1>4. ASSUME NEW i \in Nat, i \in good
      PROVE  i + 1 \in good
  <2> SUFFICES ASSUME i + 1 <= Len(frame)
               PROVE  /\ trace[i + 1].out = other[i + 1].out
                      /\ trace[i + 1].acc <=> IsStuff(frame[i + 1])
    OBVIOUS
  <2>1. trace[i].out = other[i].out /\ (trace[i].acc <=> (i > 0 /\ IsStuff(frame[i])))
    BY <1>4
  <2>2. i < Len(frame) /\ i + 1 \in 1 .. Len(frame) /\ Len(frame) \in Nat
    OBVIOUS
  <2>3. OneMore(trace, EraseStep(frame), i, BitType, BOOLEAN)
    BY <1>1, <2>2, TraceRound
  <2>4. trace[i].acc \in BOOLEAN /\ trace[i].out \in Seq(BitType)
    BY <2>3 DEF OneMore, Result
  <2>5. EraseStep(frame)[i + 1][trace[i].acc] = EraseRound(frame[i + 1], trace[i].acc)
    BY <2>2, <2>4 DEF EraseStep
  <2>6. /\ trace[i + 1].out = trace[i].out \o EraseRound(frame[i + 1], trace[i].acc).out
        /\ trace[i + 1].acc = EraseRound(frame[i + 1], trace[i].acc).acc
    BY <2>3, <2>5 DEF OneMore
  <2>7. other[i + 1].out = IF i + 1 \in plain THEN Append(other[i].out, frame[i + 1]) ELSE other[i].out
    BY <1>2, <2>2, OnlyAtRound
  <2>8. \A s \in Seq(BitType), b \in BitType : s \o <<>> = s /\ s \o <<b>> = Append(s, b)
    OBVIOUS
  <2>9. frame[i + 1] \in BitType
    BY <2>2
  <2>10. CASE IsStuff(frame[i + 1])
    <3>1. ~trace[i].acc
      <4>1. CASE i = 0
        BY <2>1, <4>1
      <4>2. CASE i > 0
        <5>1. i \in 1 .. Len(frame) - 1
          BY <2>2, <4>2
        <5>2. ~IsStuff(frame[i])
          BY <2>10, <5>1
        <5> QED BY <2>1, <5>2
      <4> QED BY <4>1, <4>2
    <3>2. EraseRound(frame[i + 1], trace[i].acc).out = <<>> /\ EraseRound(frame[i + 1], trace[i].acc).acc
      BY <2>10, <3>1 DEF EraseRound
    <3>3. trace[i + 1].out = trace[i].out /\ trace[i + 1].acc
      BY <2>4, <2>6, <2>8, <3>2
    <3>4. i + 1 \notin plain
      BY <2>10
    <3> QED BY <2>1, <2>7, <2>10, <3>3, <3>4
  <2>11. CASE ~IsStuff(frame[i + 1])
    <3>1. EraseRound(frame[i + 1], trace[i].acc) = [out |-> <<frame[i + 1]>>, acc |-> NotPassed]
      BY <2>11 DEF EraseRound, NotPassed
    <3>2. trace[i + 1].out = Append(trace[i].out, frame[i + 1]) /\ ~trace[i + 1].acc
      BY <2>4, <2>6, <2>8, <2>9, <3>1 DEF NotPassed
    <3>3. i + 1 \in plain
      BY <2>2, <2>11
    <3> QED BY <2>1, <2>7, <2>11, <3>2, <3>3
  <2> QED BY <2>10, <2>11
<1>5. \A i \in Nat : i \in good
  <2> HIDE DEF good
  <2> QED BY <1>3, <1>4, SetInduction
<1>6. trace[Len(frame)].out = other[Len(frame)].out
  BY <1>5
<1> QED BY <1>1, <1>2, <1>6

-----------------------------------------------------------------------------
(* The shift register divides.                                             *)

\* Exclusive or of bits.
LEMMA XorFacts ==
  ASSUME NEW a \in {0, 1}, NEW b \in {0, 1}, NEW c \in {0, 1}
  PROVE  /\ Xor(a, b) \in {0, 1} /\ Xor(a, 0) = a /\ Xor(0, a) = a
         /\ Xor(Xor(a, b), c) = Xor(a, Xor(b, c))
         /\ Xor(a, b) = 0 <=> a = b
BY DEF Xor

\* A register that goes over the bits of a message.
IsRegister(reg, msg, len, n) ==
  /\ reg \in [0 .. n -> Registers(len)]
  /\ \A k \in 1 .. n : reg[k] = CrcStep(reg[k - 1], msg[k])

\* The empty register.
Zeros(len) == [i \in 1 .. len |-> 0]

\* A bit of the register after a bit of the message.
LEMMA CrcStepBit ==
  ASSUME NEW len \in {15, 17, 21}, NEW reg \in Registers(len), NEW v \in {0, 1}, NEW i \in 1 .. len
  PROVE  CrcStep(reg, v)[i] = Xor(IF i = len THEN 0 ELSE reg[i + 1],
                                  IF Xor(v, reg[1]) = 0 THEN 0 ELSE Poly(len)[i])
<1>1. Len(reg) = len
  BY DEF Registers
<1>2. reg[1] \in {0, 1}
  BY DEF Registers
<1>3. PICK nxt \in {0, 1} : nxt = Xor(v, reg[1])
  BY <1>2, XorFacts
<1>4. Poly(len)[i] \in {0, 1}
  BY PolyType
<1>5. nxt * Poly(len)[i] = IF nxt = 0 THEN 0 ELSE Poly(len)[i]
  BY <1>4
<1> QED BY <1>1, <1>3, <1>5 DEF CrcStep

\* What is left of a message where its leading bits have been cancelled.
CancelledUpTo(k, m, msg, reg, len) ==
  /\ m \in Digits01(msg)
  /\ \A i \in 1 .. k : m[i] = 0
  /\ \A j \in 1 .. len : m[k + j] = Xor(msg[k + j], reg[k][j])
  /\ \A i \in k + len + 1 .. Len(msg) : m[i] = msg[i]

\* Cancelling one more.
LEMMA CancelOne ==
  ASSUME NEW len \in {15, 17, 21}, NEW msg \in Seq({0, 1}), Len(msg) > len,
         NEW n \in Nat, n = Len(msg) - len, NEW reg, IsRegister(reg, msg, len, n),
         NEW k \in Nat, k < n, NEW m, CancelledUpTo(k, m, msg, reg, len)
  PROVE  CancelledUpTo(k + 1, CancelRound(m, k + 1, len).acc, msg, reg, len)
<1> DEFINE new == CancelRound(m, k + 1, len).acc
<1>1. k + 1 \in 1 .. Len(msg) /\ k + 1 \in 1 .. n /\ k \in 0 .. n /\ (k + 1) - 1 = k
      /\ len \in Nat /\ 1 \in 1 .. len /\ Len(msg) \in Nat
  OBVIOUS
<1>2. m \in Digits01(msg) /\ DOMAIN m = 1 .. Len(msg)
  BY DEF CancelledUpTo, Digits01
<1>3. new \in Digits01(msg)
  <2>1. CancelRound(m, k + 1, len) \in Result({}, Digits01(msg))
    BY <1>1, <1>2, CancelRoundResult
  <2> QED BY <2>1 DEF Result
<1>4. reg[k] \in Registers(len) /\ reg[k + 1] = CrcStep(reg[k], msg[k + 1]) /\ msg[k + 1] \in {0, 1}
      /\ reg[k][1] \in {0, 1}
  BY <1>1 DEF IsRegister, Registers
<1>5. m[k + 1] = Xor(msg[k + 1], reg[k][1])
  BY <1>1 DEF CancelledUpTo
<1>6. ASSUME NEW i \in 1 .. Len(msg)
      PROVE  new[i] = IF m[k + 1] = 0 THEN m[i]
                      ELSE IF i = k + 1 THEN 0
                      ELSE IF i \in (k + 1) + 1 .. (k + 1) + len THEN Xor(m[i], Poly(len)[i - (k + 1)])
                      ELSE m[i]
  BY <1>2 DEF CancelRound
<1> HIDE DEF new
<1>7. ASSUME NEW i \in 1 .. k + 1
      PROVE  new[i] = 0
  <2>1. i \in 1 .. Len(msg)
    BY <1>1
  <2>2. CASE i = k + 1
    BY <1>6, <2>1, <2>2
  <2>3. CASE i < k + 1
    <3>1. m[i] = 0
      BY <1>1, <2>3 DEF CancelledUpTo
    <3>2. ~(i \in (k + 1) + 1 .. (k + 1) + len)
      BY <2>3
    <3> QED BY <1>6, <2>1, <3>1, <3>2
  <2> QED BY <1>1, <2>2, <2>3
<1>8. ASSUME NEW i \in (k + 1) + len + 1 .. Len(msg)
      PROVE  new[i] = msg[i]
  <2>1. i \in 1 .. Len(msg) /\ i # k + 1 /\ ~(i \in (k + 1) + 1 .. (k + 1) + len)
    BY <1>1
  <2>2. new[i] = m[i]
    BY <1>6, <2>1
  <2>3. i \in k + len + 1 .. Len(msg)
    BY <1>1
  <2> QED BY <2>2, <2>3 DEF CancelledUpTo
<1>9. ASSUME NEW j \in 1 .. len
      PROVE  new[(k + 1) + j] = Xor(msg[(k + 1) + j], reg[k + 1][j])
  <2>1. PICK i \in Nat : i = (k + 1) + j
    BY <1>1
  <2>2. i \in 1 .. Len(msg) /\ i # k + 1 /\ i \in (k + 1) + 1 .. (k + 1) + len /\ i - (k + 1) = j
    BY <1>1, <2>1
  <2>3. new[i] = IF m[k + 1] = 0 THEN m[i] ELSE Xor(m[i], Poly(len)[j])
    BY <1>6, <2>2
  <2>4. PICK low \in {0, 1} : low = IF j = len THEN 0 ELSE reg[k][j + 1]
    <3>1. j # len => j + 1 \in 1 .. len
      BY <1>1
    <3> QED BY <1>4, <3>1 DEF Registers
  <2>5. m[i] = Xor(msg[i], low) /\ msg[i] \in {0, 1}
    <3>1. msg[i] \in {0, 1}
      BY <2>2
    <3>2. CASE j = len
      <4>1. i \in k + len + 1 .. Len(msg)
        BY <1>1, <2>1, <2>2, <3>2
      <4>2. m[i] = msg[i]
        BY <4>1 DEF CancelledUpTo
      <4> QED BY <2>4, <3>1, <3>2, <4>2, XorFacts
    <3>3. CASE j # len
      <4>1. j + 1 \in 1 .. len /\ i = k + (j + 1)
        BY <1>1, <2>1, <3>3
      <4>2. m[i] = Xor(msg[i], reg[k][j + 1])
        BY <4>1 DEF CancelledUpTo
      <4> QED BY <2>4, <3>1, <3>3, <4>2
    <3> QED BY <3>2, <3>3
  <2>6. reg[k + 1][j] = Xor(low, IF m[k + 1] = 0 THEN 0 ELSE Poly(len)[j])
    <3>1. PICK held \in Registers(len) : held = reg[k]
      BY <1>4
    <3>2. PICK v \in {0, 1} : v = msg[k + 1]
      BY <1>4
    <3>3. CrcStep(held, v)[j] = Xor(IF j = len THEN 0 ELSE held[j + 1],
                                    IF Xor(v, held[1]) = 0 THEN 0 ELSE Poly(len)[j])
      BY CrcStepBit
    <3>4. reg[k + 1] = CrcStep(held, v) /\ m[k + 1] = Xor(v, held[1])
          /\ low = IF j = len THEN 0 ELSE held[j + 1]
      BY <1>4, <1>5, <2>4, <3>1, <3>2
    <3> QED BY <3>3, <3>4
  <2>7. Poly(len)[j] \in {0, 1}
    BY PolyType
  <2>8. CASE m[k + 1] = 0
    <3>1. Xor(low, 0) = low
      BY XorFacts
    <3> QED BY <2>1, <2>3, <2>5, <2>6, <2>8, <3>1
  <2>9. CASE m[k + 1] # 0
    <3>1. Xor(Xor(msg[i], low), Poly(len)[j]) = Xor(msg[i], Xor(low, Poly(len)[j]))
      BY <2>5, <2>7, XorFacts
    <3> QED BY <2>1, <2>3, <2>5, <2>6, <2>9, <3>1
  <2> QED BY <2>8, <2>9
<1> QED BY <1>3, <1>7, <1>8, <1>9 DEF CancelledUpTo, new

\* What follows the first n bits of a message.
EndsWith(msg, n, code, len) == \A j \in 1 .. len : msg[n + j] = code[j]

\* Division leaves the last bits of a message, less what the register holds behind the
\* bits before them.
LEMMA Division ==
  ASSUME NEW len \in {15, 17, 21}, NEW msg \in Seq({0, 1}), Len(msg) > len,
         NEW n \in Nat, n = Len(msg) - len, NEW reg, IsRegister(reg, msg, len, n),
         reg[0] = Zeros(len)
  PROVE  (\A v \in ToSet(Remainder(msg, len)) : v = 0) <=> EndsWith(msg, n, reg[n], len)
<1>1. PICK trace : /\ IsTrace(trace, CancelStep(msg, len, (Len(msg) - len)),
                              msg, (Len(msg) - len), {}, Digits01(msg))
                   /\ Remainder(msg, len) = trace[Len(msg) - len].acc
  BY RemainderTraced
<1>2. IsTrace(trace, CancelStep(msg, len, n), msg, n, {}, Digits01(msg)) /\ Remainder(msg, len) = trace[n].acc
  BY <1>1
<1> DEFINE good == {k \in Nat : k <= n => CancelledUpTo(k, trace[k].acc, msg, reg, len)}
<1>3. 0 \in good
  <2>1. trace[0].acc = msg
    BY <1>2 DEF IsTrace
  <2>2. msg \in Digits01(msg)
    BY DEF Digits01
  <2>3. \A j \in 1 .. len : msg[0 + j] = Xor(msg[0 + j], reg[0][j])
    <3>1. ASSUME NEW j \in 1 .. len
          PROVE  msg[j] = Xor(msg[j], reg[0][j])
      <4>1. msg[j] \in {0, 1} /\ reg[0][j] = 0
        BY DEF Zeros
      <4> QED BY <4>1, XorFacts
    <3> QED BY <3>1
  <2>4. CancelledUpTo(0, msg, msg, reg, len)
    BY <2>2, <2>3 DEF CancelledUpTo
  <2> QED BY <2>1, <2>4
<1>4. ASSUME NEW k \in Nat, k \in good
      PROVE  k + 1 \in good
  <2> SUFFICES ASSUME k + 1 <= n
               PROVE  CancelledUpTo(k + 1, trace[k + 1].acc, msg, reg, len)
    OBVIOUS
  <2>1. k < n /\ k + 1 \in 1 .. n
    OBVIOUS
  <2>2. CancelledUpTo(k, trace[k].acc, msg, reg, len)
    BY <1>4, <2>1
  <2>3. OneMore(trace, CancelStep(msg, len, n), k, {}, Digits01(msg))
    BY <1>2, <2>1, TraceRound
  <2>4. trace[k].acc \in Digits01(msg)
    BY <2>3 DEF OneMore, Result
  <2>5. CancelStep(msg, len, n)[k + 1][trace[k].acc] = CancelRound(trace[k].acc, k + 1, len)
    BY <2>1, <2>4 DEF CancelStep
  <2>6. trace[k + 1].acc = CancelRound(trace[k].acc, k + 1, len).acc
    BY <2>3, <2>5 DEF OneMore
  <2> QED BY <2>1, <2>2, <2>6, CancelOne
<1>5. \A k \in Nat : k \in good
  <2> HIDE DEF good
  <2> QED BY <1>3, <1>4, SetInduction
<1>6. CancelledUpTo(n, Remainder(msg, len), msg, reg, len)
  BY <1>2, <1>5
<1>7. PICK rest : rest = Remainder(msg, len)
  OBVIOUS
<1>8. DOMAIN rest = 1 .. Len(msg) /\ \A i \in 1 .. n : rest[i] = 0
  BY <1>6, <1>7 DEF CancelledUpTo, Digits01
<1>9. ASSUME NEW j \in 1 .. len
      PROVE  rest[n + j] = 0 <=> msg[n + j] = reg[n][j]
  <2>1. rest[n + j] = Xor(msg[n + j], reg[n][j])
    BY <1>6, <1>7 DEF CancelledUpTo
  <2>2. n + j \in 1 .. Len(msg) /\ n \in 0 .. n
    OBVIOUS
  <2>3. msg[n + j] \in {0, 1}
    BY <2>2
  <2>4. reg \in [0 .. n -> Registers(len)]
    BY DEF IsRegister
  <2>5. reg[n] \in [1 .. len -> {0, 1}]
    BY <2>2, <2>4 DEF Registers
  <2>6. reg[n][j] \in {0, 1}
    BY <2>5
  <2> QED BY <2>1, <2>3, <2>6, XorFacts
<1>10. (\A v \in ToSet(rest) : v = 0) <=> \A i \in 1 .. Len(msg) : rest[i] = 0
  BY <1>8 DEF ToSet
<1>11. (\A i \in 1 .. Len(msg) : rest[i] = 0) <=> \A j \in 1 .. len : rest[n + j] = 0
  <2>1. ASSUME \A i \in 1 .. Len(msg) : rest[i] = 0, NEW j \in 1 .. len
        PROVE  rest[n + j] = 0
    <3>1. n + j \in 1 .. Len(msg)
      OBVIOUS
    <3> QED BY <2>1, <3>1
  <2>2. ASSUME \A j \in 1 .. len : rest[n + j] = 0, NEW i \in 1 .. Len(msg)
        PROVE  rest[i] = 0
    <3>1. CASE i <= n
      BY <1>8, <3>1
    <3>2. CASE i > n
      <4>1. i - n \in 1 .. len /\ n + (i - n) = i
        BY <3>2
      <4> QED BY <2>2, <4>1
    <3> QED BY <3>1, <3>2
  <2> QED BY <2>1, <2>2
<1>12. EndsWith(msg, n, reg[n], len) <=> \A j \in 1 .. len : rest[n + j] = 0
  BY <1>9 DEF EndsWith
<1> QED BY <1>7, <1>10, <1>11, <1>12

-----------------------------------------------------------------------------
(* Where the bits that were built are.                                     *)

\* Of two ways to place them, neither is ahead of the other at the first difference.
LEMMA NotAhead ==
  ASSUME NEW frame, NEW built, Len(built) \in Nat, Len(frame) \in Nat,
         NEW place, Placed(place, frame, built), NEW other, Placed(other, frame, built),
         NEW m \in 1 .. Len(built), \A i \in 1 .. Len(built) : i < m => place[i] = other[i]
  PROVE  ~(place[m] < other[m])
<1> SUFFICES ASSUME place[m] < other[m] PROVE FALSE
  OBVIOUS
<1>1. place[m] \in 1 .. Len(frame) /\ ~IsStuff(frame[place[m]])
  BY DEF Placed
<1>2. PICK i \in 1 .. Len(built) : other[i] = place[m]
  BY <1>1 DEF Placed
<1>3. other[m] \in 1 .. Len(frame) /\ other[i] \in 1 .. Len(frame) /\ place[i] \in 1 .. Len(frame)
  BY DEF Placed
<1>4. i < m
  <2>1. i # m
    BY <1>2, <1>3
  <2>2. ~(m < i)
    <3> SUFFICES ASSUME m < i PROVE FALSE
      OBVIOUS
    <3>1. other[m] < other[i]
      BY DEF Placed
    <3> QED BY <1>2, <1>3, <3>1
  <2> QED BY <2>1, <2>2
<1>5. place[i] < place[m]
  BY <1>4 DEF Placed
<1> QED BY <1>1, <1>2, <1>3, <1>4, <1>5

\* There is one way to place the bits that were built in a frame.
LEMMA PlacedOnce ==
  ASSUME NEW frame, NEW built, Len(built) \in Nat, Len(frame) \in Nat,
         NEW place, Placed(place, frame, built), NEW other, Placed(other, frame, built)
  PROVE  \A k \in 1 .. Len(built) : place[k] = other[k]
<1> DEFINE apart == {k \in 1 .. Len(built) : place[k] # other[k]}
<1> SUFFICES ASSUME apart # {} PROVE FALSE
  OBVIOUS
<1>1. apart \subseteq Nat
  OBVIOUS
<1>2. PICK m \in apart : \A k \in apart : m <= k
  <2> HIDE DEF apart
  <2> QED BY <1>1, HasLeast
<1>3. m \in 1 .. Len(built) /\ \A i \in 1 .. Len(built) : i < m => place[i] = other[i]
  BY <1>2
<1>4. ~(place[m] < other[m])
  BY <1>3, NotAhead
<1>5. ~(other[m] < place[m])
  BY <1>3, NotAhead
<1>6. place[m] \in Nat /\ other[m] \in Nat
  BY <1>3 DEF Placed
<1> QED BY <1>2, <1>4, <1>5, <1>6

\* A bit that moves up for a stuff bit stays the bit it is.
LEMMA MovedUpBits ==
  ASSUME NEW frame \in Seq(BitType), NEW n \in Nat, NEW place \in [1 .. n -> 1 .. Len(frame)],
         NEW i \in 2 .. Len(frame), NEW stuff \in BitType, NEW k \in 1 .. n
  PROVE  InsertBit(frame, i, stuff)[MovedUp(place, i)[k]] = frame[place[k]]
<1> PICK new : new = InsertBit(frame, i, stuff)
  OBVIOUS
<1>1. place[k] \in 1 .. Len(frame) /\ Len(frame) \in Nat /\ i \in 1 .. Len(frame) + 1
  OBVIOUS
<1>2. \A j \in 1 .. Len(frame) + 1 :
        new[j] = IF j < i THEN frame[j] ELSE IF j = i THEN stuff ELSE frame[j - 1]
  <2>1. InsertedAt(new, frame, i, stuff)
    BY <1>1, Inserted
  <2> QED BY <2>1 DEF InsertedAt
<1>3. MovedUp(place, i)[k] = IF place[k] < i THEN place[k] ELSE place[k] + 1
  BY DEF MovedUp
<1>4. CASE place[k] < i
  <2>1. place[k] \in 1 .. Len(frame) + 1
    BY <1>1
  <2> QED BY <1>2, <1>3, <1>4, <2>1
<1>5. CASE ~(place[k] < i)
  <2>1. place[k] + 1 \in 1 .. Len(frame) + 1 /\ ~(place[k] + 1 < i) /\ place[k] + 1 # i
        /\ (place[k] + 1) - 1 = place[k]
    BY <1>1, <1>5
  <2> QED BY <1>2, <1>3, <1>5, <2>1
<1> QED BY <1>4, <1>5

\* Nor does erasing a stuff bit change it.
LEMMA MovedDownBits ==
  ASSUME NEW frame \in Seq(BitType), NEW n \in Nat, NEW place \in [1 .. n -> 1 .. Len(frame)],
         NEW i \in 1 .. Len(frame), NEW k \in 1 .. n, place[k] # i
  PROVE  RemoveAt(frame, i)[MovedDown(place, i)[k]] = frame[place[k]]
<1> PICK new : new = RemoveAt(frame, i)
  OBVIOUS
<1>1. place[k] \in 1 .. Len(frame) /\ Len(frame) \in Nat
  OBVIOUS
<1>2. \A j \in 1 .. Len(frame) - 1 : new[j] = IF j < i THEN frame[j] ELSE frame[j + 1]
  BY Removed DEF RemovedAt
<1>3. MovedDown(place, i)[k] = IF place[k] > i THEN place[k] - 1 ELSE place[k]
  BY DEF MovedDown
<1>4. CASE place[k] > i
  <2>1. place[k] - 1 \in 1 .. Len(frame) - 1 /\ ~(place[k] - 1 < i) /\ (place[k] - 1) + 1 = place[k]
    BY <1>1, <1>4
  <2> QED BY <1>2, <1>3, <1>4, <2>1
<1>5. CASE ~(place[k] > i)
  <2>1. place[k] \in 1 .. Len(frame) - 1 /\ place[k] < i
    BY <1>1, <1>5
  <2> QED BY <1>2, <1>3, <1>5, <2>1
<1> QED BY <1>4, <1>5

\* Erasing the stuff bits of a frame in which no two stand side by side leaves the bits
\* that were built.
LEMMA ErasedAtPlaces ==
  ASSUME NEW frame \in Seq(BitType), NEW built, Len(built) \in Nat \ {0},
         NEW place, Placed(place, frame, built)
  PROVE  OnlyAt(frame, {i \in 1 .. Len(frame) : ~IsStuff(frame[i])})
           = [k \in 1 .. Len(built) |-> frame[place[k]]]
<1> DEFINE plain == {i \in 1 .. Len(frame) : ~IsStuff(frame[i])}
<1>1. place \in [1 .. Len(built) -> 1 .. Len(frame)]
  BY DEF Placed
<1>2. Len(frame) > 0
  <2>1. place[1] \in 1 .. Len(frame)
    BY <1>1
  <2> QED BY <2>1
<1>3. Increasing(place, Len(built))
  BY DEF Placed, Increasing
<1>4. \A i \in 1 .. Len(frame) : i \in plain <=> \E j \in 1 .. Len(built) : place[j] = i
  BY DEF Placed
<1> HIDE DEF plain
<1>5. PICK n \in Nat : n = Len(built)
  OBVIOUS
<1>6. Keeps(place, n, Len(frame), plain)
  BY <1>1, <1>3, <1>4, <1>5 DEF Keeps
<1>7. OnlyAt(frame, plain) = [k \in 1 .. n |-> frame[place[k]]]
  BY <1>2, <1>6, OnlyAtPlaces
<1> QED BY <1>5, <1>7 DEF plain

-----------------------------------------------------------------------------
(* Frames that differ in what is calculated.                               *)

\* Fields behind the CRC.
TailKinds == {"CrcDelim", "Ack", "AckDelim", "Eof", "Interm"}

\* A frame that has no other fields from a position on.
EndsPlain(s, first) ==
  s \in PlainBits(AllKinds) /\ first <= Len(s) /\ \A i \in first + 1 .. Len(s) : s[i].kind \in TailKinds

\* One of these fields is appended to it.
LEMMA EndsOn ==
  ASSUME NEW first \in Nat, NEW s, EndsPlain(s, first), NEW t \in PlainBits(TailKinds)
  PROVE  EndsPlain(s \o t, first)
<1>1. t \in PlainBits(AllKinds)
  <2>1. PlainBitType(TailKinds) \subseteq PlainBitType(AllKinds)
    BY DEF PlainBitType, TailKinds, AllKinds
  <2> QED BY <2>1 DEF PlainBits
<1>2. JoinOf(s \o t, s, t, AllKinds)
  BY <1>1, Joined DEF EndsPlain
<1>3. Len(s) \in Nat /\ Len(t) \in Nat /\ Len(s \o t) = Len(s) + Len(t)
  BY <1>1, <1>2, PlainBit DEF JoinOf, EndsPlain
<1>4. ASSUME NEW i \in first + 1 .. Len(s) + Len(t)
      PROVE  (s \o t)[i].kind \in TailKinds
  <2>1. CASE i <= Len(s)
    <3>1. i \in first + 1 .. Len(s) /\ i \in 1 .. Len(s)
      BY <1>3, <2>1
    <3> QED BY <1>2, <3>1 DEF JoinOf, EndsPlain
  <2>2. CASE i > Len(s)
    <3>1. i - Len(s) \in 1 .. Len(t) /\ Len(s) + (i - Len(s)) = i
      BY <1>3, <2>2
    <3>2. (s \o t)[i] = t[i - Len(s)]
      BY <1>2, <3>1 DEF JoinOf
    <3> QED BY <3>1, <3>2, PlainBit
  <2> QED BY <1>3, <2>1, <2>2
<1> QED BY <1>2, <1>3, <1>4 DEF JoinOf, EndsPlain

\* Behind the CRC nothing of what is built is calculated.
LEMMA BuiltEndsPlain ==
  ASSUME NEW c \in ContentType
  PROVE  EndsPlain(BuildFrameBits(c), First(c) + CrcLen(c))
<1> DEFINE head == UpToData(c)
           cnt == If(c.fdf = 1, Field("StuffCnt", Times(3, Dominant)) \o Field("StuffParity", <<Recessive>>))
           code == Field("Crc", Times(CrcLen(c), Recessive))
           delim == Field("CrcDelim", <<Recessive>>)
           ack == Field("Ack", Times(IF c.fdf = 1 THEN 2 ELSE 1, Recessive))
           ackDelim == Field("AckDelim", <<Recessive>>)
           eof == Field("Eof", Times(7, Recessive))
           interm == Field("Interm", Times(3, Recessive))
           m == IF c.fdf = 0 THEN 0 ELSE 4
<1>1. head \in PlainBits(AllKinds)
  BY HeadIsPlain, HeadKindsInAll DEF Begun
<1>2. cnt \in PlainBits(AllKinds) /\ Len(cnt) = m
  <2>1. CASE c.fdf = 0
    BY <2>1 DEF If, PlainBits
  <2>2. CASE c.fdf # 0
    <3> DEFINE s == Field("StuffCnt", Times(3, Dominant))
               t == Field("StuffParity", <<Recessive>>)
    <3>1. c.fdf = 1
      BY <2>2 DEF ContentType
    <3>2. "StuffCnt" \in AllKinds /\ "StuffParity" \in AllKinds
      BY DEF AllKinds
    <3>3. s \in PlainBits(AllKinds) /\ Len(s) = 3
      BY <3>2, TimesIsPlain
    <3>4. t \in PlainBits(AllKinds) /\ Len(t) = 1
      BY <3>2, OneIsPlain
    <3>5. cnt = s \o t
      BY <3>1 DEF If
    <3> HIDE DEF s, t
    <3>6. JoinOf(cnt, s, t, AllKinds)
      BY <3>3, <3>4, <3>5, Joined
    <3> QED BY <2>2, <3>3, <3>4, <3>6 DEF JoinOf
  <2> QED BY <2>1, <2>2
<1>3. code \in PlainBits(AllKinds) /\ Len(code) = CrcLen(c)
  <2>1. "Crc" \in AllKinds /\ CrcLen(c) \in Nat
    BY DEF AllKinds, CrcLen
  <2> QED BY <2>1, TimesIsPlain
<1>4. delim \in PlainBits(TailKinds) /\ ackDelim \in PlainBits(TailKinds)
  <2>1. "CrcDelim" \in TailKinds /\ "AckDelim" \in TailKinds
    BY DEF TailKinds
  <2> QED BY <2>1, OneIsPlain
<1>5. ack \in PlainBits(TailKinds) /\ eof \in PlainBits(TailKinds) /\ interm \in PlainBits(TailKinds)
  <2>1. "Ack" \in TailKinds /\ "Eof" \in TailKinds /\ "Interm" \in TailKinds
    BY DEF TailKinds
  <2> QED BY <2>1, TimesIsPlain
<1>6. BuildFrameBits(c) = head \o cnt \o code \o delim \o ack \o ackDelim \o eof \o interm
  BY DEF BuildFrameBits
<1>7. First(c) = Len(head) + m
  BY DEF First
<1> HIDE DEF head, cnt, code, delim, ack, ackDelim, eof, interm, m
<1> DEFINE upToCrc == head \o cnt \o code
<1>8. EndsPlain(upToCrc, First(c) + CrcLen(c)) /\ First(c) + CrcLen(c) \in Nat
  <2>1. JoinOf(head \o cnt, head, cnt, AllKinds) /\ head \o cnt \in PlainBits(AllKinds)
    BY <1>1, <1>2, Joined
  <2>2. JoinOf(upToCrc, head \o cnt, code, AllKinds)
    BY <1>3, <2>1, Joined
  <2>3. Len(head \o cnt) = First(c) /\ Len(upToCrc) = First(c) + CrcLen(c)
    BY <1>2, <1>3, <1>7, <2>1, <2>2 DEF JoinOf
  <2>4. upToCrc \in PlainBits(AllKinds) /\ Len(upToCrc) \in Nat
    BY <2>2, PlainBit DEF JoinOf
  <2> HIDE DEF upToCrc
  <2> QED BY <2>3, <2>4 DEF EndsPlain
<1> DEFINE last == First(c) + CrcLen(c)
<1> HIDE DEF upToCrc, last
<1>9. last \in Nat /\ EndsPlain(upToCrc, last)
  BY <1>8 DEF last
<1>10. EndsPlain(upToCrc \o delim, last)
  BY <1>4, <1>9, EndsOn
<1>11. EndsPlain(upToCrc \o delim \o ack, last)
  BY <1>5, <1>9, <1>10, EndsOn
<1>12. EndsPlain(upToCrc \o delim \o ack \o ackDelim, last)
  BY <1>4, <1>9, <1>11, EndsOn
<1>13. EndsPlain(upToCrc \o delim \o ack \o ackDelim \o eof, last)
  BY <1>5, <1>9, <1>12, EndsOn
<1>14. EndsPlain(upToCrc \o delim \o ack \o ackDelim \o eof \o interm, last)
  BY <1>5, <1>9, <1>13, EndsOn
<1> QED BY <1>6, <1>14 DEF upToCrc, last

\* Another frame, with the same values but for some bits that follow one another.
Alike(frame, other, first, n) ==
  /\ SameShape(frame, other)
  /\ \A j \in 1 .. Len(frame) : j \notin first .. first + n - 1 => other[j].val = frame[j].val

\* How many bits are before what is calculated.
HeadLen == Len(UpToData(content))

\* A frame without stuff bits that is the one built, but in what is calculated.
Fresh(frame) ==
  /\ frame \in Seq(BitType)
  /\ Alike(Built, frame, HeadLen + 1, First(content) - HeadLen + GoldenCrcLen)

\* Where the fields are.
LEMMA Sizes ==
  ASSUME TypeInv
  PROVE  /\ HeadLen \in Nat \ {0} /\ GoldenCrcLen \in {15, 17, 21}
         /\ First(content) = HeadLen + (IF IsCan20 THEN 0 ELSE 4)
         /\ Len(Built) \in Nat /\ Len(Built) > First(content) + GoldenCrcLen + 1
         /\ Built \in Seq(BitType) /\ Fresh(Built)
<1>1. Layout(content, Built)
  BY BuiltFacts
<1>2. IsCan20 <=> content.fdf = 0
  BY CanOrFd DEF TypeInv
<1>3. GoldenCrcLen \in {15, 17, 21}
  BY CanOrFd DEF TypeInv
<1>4. Len(Built) \in Nat
  BY BuiltFacts
<1>5. Built \in Seq(BitType)
  BY <1>1, PlainIsBits DEF Layout
<1>6. Fresh(Built)
  BY <1>5 DEF Fresh, Alike, SameShape
<1> QED BY <1>1, <1>2, <1>3, <1>4, <1>5, <1>6 DEF Layout, HeadLen, First, GoldenCrcLen

\* What kinds of bits a frame without stuff bits has.
FreshKinds(frame) ==
  /\ frame \in Seq(BitType) /\ Len(frame) = Len(Built)
  /\ \A j \in 1 .. Len(frame) : frame[j].stuff = "NoStuff" /\ frame[j].kind = Built[j].kind
  /\ \A j \in 1 .. HeadLen : frame[j].kind \in HeadKinds
  /\ ~IsCan20 => /\ \A j \in 1 .. 3 : frame[HeadLen + j].kind = "StuffCnt"
                 /\ frame[HeadLen + 4].kind = "StuffParity"
  /\ \A j \in 1 .. GoldenCrcLen : frame[First(content) + j].kind = "Crc"
  /\ frame[First(content) + GoldenCrcLen + 1].kind = "CrcDelim"
  /\ \A j \in First(content) + GoldenCrcLen + 1 .. Len(frame) : frame[j].kind \in TailKinds

\* The frame as it was built is one.
LEMMA BuiltKinds ==
  ASSUME TypeInv
  PROVE  FreshKinds(Built)
<1>1. Layout(content, Built)
  BY BuiltFacts
<1>2. Built \in Seq(BitType) /\ Len(Built) \in Nat
  BY Sizes
<1>3. ~IsCan20 => content.fdf # 0
  BY CanOrFd DEF TypeInv
<1>4. \A j \in 1 .. Len(Built) : Built[j].stuff = "NoStuff"
  <2>1. ASSUME NEW j \in 1 .. Len(Built)
        PROVE  Built[j].stuff = "NoStuff"
    <3>1. Built[j] \in PlainBitType(AllKinds)
      BY <1>1 DEF Layout, PlainBits
    <3> QED BY <3>1 DEF PlainBitType
  <2> QED BY <2>1
<1>5. ASSUME NEW j \in First(content) + GoldenCrcLen + 1 .. Len(Built)
      PROVE  Built[j].kind \in TailKinds
  <2> PICK plain : plain = BuildFrameBits(content)
    OBVIOUS
  <2>1. EndsPlain(plain, First(content) + GoldenCrcLen)
    BY BuiltEndsPlain DEF TypeInv, GoldenCrcLen
  <2>2. plain \in Seq(BitType)
    BY <2>1, PlainIsBits DEF EndsPlain
  <2>3. SameShape(plain, Built)
    BY <2>2, EditedBits DEF Built, EditOf
  <2>4. j \in First(content) + GoldenCrcLen + 1 .. Len(plain) /\ j \in 1 .. Len(plain)
    <3>1. First(content) \in Nat /\ GoldenCrcLen \in Nat
      BY Sizes
    <3> QED BY <2>3, <3>1 DEF SameShape
  <2> QED BY <2>1, <2>3, <2>4 DEF EndsPlain, SameShape
<1> QED BY <1>1, <1>2, <1>3, <1>4, <1>5 DEF FreshKinds, Layout, HeadLen, GoldenCrcLen

\* Frames without stuff bits have the fields of the one that was built.
LEMMA FreshHasKinds ==
  ASSUME TypeInv, NEW frame, Fresh(frame)
  PROVE  FreshKinds(frame)
<1>1. FreshKinds(Built) /\ SameShape(Built, frame) /\ frame \in Seq(BitType)
  BY BuiltKinds DEF Fresh, Alike
<1>2. /\ HeadLen \in Nat \ {0} /\ GoldenCrcLen \in Nat
      /\ First(content) = HeadLen + (IF IsCan20 THEN 0 ELSE 4)
      /\ Len(Built) \in Nat /\ Len(Built) > First(content) + GoldenCrcLen + 1
  BY Sizes
<1>3. \A j \in 1 .. Len(Built) : frame[j].kind = Built[j].kind /\ frame[j].stuff = Built[j].stuff
  BY <1>1 DEF SameShape
<1>4. Len(frame) = Len(Built)
  BY <1>1 DEF SameShape
<1>5. \A j \in 1 .. HeadLen : frame[j].kind \in HeadKinds
  BY <1>1, <1>2, <1>3 DEF FreshKinds
<1>6. ~IsCan20 => /\ \A j \in 1 .. 3 : frame[HeadLen + j].kind = "StuffCnt"
                  /\ frame[HeadLen + 4].kind = "StuffParity"
  <2>1. ~IsCan20 => \A j \in 1 .. 4 : HeadLen + j \in 1 .. Len(Built)
    BY <1>2
  <2> QED BY <1>1, <1>3, <2>1 DEF FreshKinds
<1>7. \A j \in 1 .. GoldenCrcLen + 1 : First(content) + j \in 1 .. Len(Built)
  BY <1>2
<1>8. ASSUME NEW j \in 1 .. GoldenCrcLen
      PROVE  frame[First(content) + j].kind = "Crc"
  <2>1. First(content) + j \in 1 .. Len(Built)
    BY <1>2, <1>7
  <2>2. Built[First(content) + j].kind = "Crc"
    BY <1>1 DEF FreshKinds
  <2> QED BY <1>3, <2>1, <2>2
<1>9. frame[First(content) + GoldenCrcLen + 1].kind = "CrcDelim"
  <2>1. First(content) + GoldenCrcLen + 1 \in 1 .. Len(Built)
    BY <1>2
  <2> QED BY <1>1, <1>3, <2>1 DEF FreshKinds
<1>10. \A j \in First(content) + GoldenCrcLen + 1 .. Len(frame) : frame[j].kind \in TailKinds
  <2>1. \A j \in First(content) + GoldenCrcLen + 1 .. Len(frame) : j \in 1 .. Len(Built)
    BY <1>2, <1>4
  <2> QED BY <1>1, <1>3, <1>4, <2>1 DEF FreshKinds
<1>11. \A j \in 1 .. Len(frame) : frame[j].stuff = "NoStuff" /\ frame[j].kind = Built[j].kind
  BY <1>1, <1>3, <1>4 DEF FreshKinds
<1> QED BY <1>1, <1>4, <1>5, <1>6, <1>8, <1>9, <1>10, <1>11 DEF FreshKinds

\* The same field, value and stuffing make the same bit.
LEMMA SameBit ==
  ASSUME NEW one \in BitType, NEW two \in BitType,
         one.kind = two.kind, one.val = two.val, one.stuff = two.stuff
  PROVE  one = two
BY DEF BitType

\* Frames alike in all bits are the same.
LEMMA AlikeSame ==
  ASSUME NEW frame \in Seq(BitType), NEW other \in Seq(BitType), NEW first \in Nat,
         Alike(frame, other, first, 0)
  PROVE  frame = other
<1>1. Len(other) = Len(frame)
  BY DEF Alike, SameShape
<1>2. ASSUME NEW j \in 1 .. Len(frame)
      PROVE  frame[j] = other[j]
  <2>1. frame[j] \in BitType /\ other[j] \in BitType
    BY <1>1
  <2>2. j \notin first .. first + 0 - 1
    OBVIOUS
  <2>3. other[j].kind = frame[j].kind /\ other[j].stuff = frame[j].stuff /\ other[j].val = frame[j].val
    BY <2>2 DEF Alike, SameShape
  <2> QED BY <2>1, <2>3, SameBit
<1> QED BY <1>1, <1>2, SeqEqual

\* They have their fields in the same places.
LEMMA SameShapeFirst ==
  ASSUME NEW frame \in Seq(BitType), NEW other \in Seq(BitType), SameShape(frame, other), NEW kind
  PROVE  FirstOf(other, kind) = FirstOf(frame, kind) /\ EndOfStuffing(other) = EndOfStuffing(frame)
<1>1. {i \in 1 .. Len(other) : other[i].kind = kind} = {i \in 1 .. Len(frame) : frame[i].kind = kind}
  BY DEF SameShape
<1>2. {i \in 1 .. Len(other) : other[i].kind \in {"CrcDelim", "StuffCnt"}}
        = {i \in 1 .. Len(frame) : frame[i].kind \in {"CrcDelim", "StuffCnt"}}
  BY DEF SameShape
<1>3. FirstOf(other, kind) = FirstOf(frame, kind)
  <2> DEFINE One == {i \in 1 .. Len(other) : other[i].kind = kind}
             Two == {i \in 1 .. Len(frame) : frame[i].kind = kind}
  <2>1. FirstOf(other, kind) = IF One # {} THEN Min(One) ELSE 0
    BY DEF FirstOf, SelectInSeq
  <2>2. FirstOf(frame, kind) = IF Two # {} THEN Min(Two) ELSE 0
    BY DEF FirstOf, SelectInSeq
  <2>3. One = Two
    BY <1>1
  <2> HIDE DEF One, Two
  <2> QED BY <2>1, <2>2, <2>3
<1>4. EndOfStuffing(other) = EndOfStuffing(frame)
  <2> DEFINE One == {i \in 1 .. Len(other) : other[i].kind \in {"CrcDelim", "StuffCnt"}}
             Two == {i \in 1 .. Len(frame) : frame[i].kind \in {"CrcDelim", "StuffCnt"}}
  <2>1. EndOfStuffing(other) = IF One # {} THEN Min(One) ELSE 0
    BY DEF EndOfStuffing, SelectInSeq
  <2>2. EndOfStuffing(frame) = IF Two # {} THEN Min(Two) ELSE 0
    BY DEF EndOfStuffing, SelectInSeq
  <2>3. One = Two
    BY <1>2
  <2> HIDE DEF One, Two
  <2> QED BY <2>1, <2>2, <2>3
<1> QED BY <1>3, <1>4

\* Values written over the first of the bits in which they differ leave fewer.
LEMMA AlikeOverwritten ==
  ASSUME NEW frame \in Seq(BitType), NEW other \in Seq(BitType), NEW first \in Nat,
         NEW m \in Nat, NEW n \in Nat, Alike(frame, other, first, m + n),
         NEW vals \in [1 .. m -> {Dominant, Recessive}], Len(vals) = m
  PROVE  Alike(Overwrite(frame, first, vals), Overwrite(other, first, vals), first + m, n)
<1> PICK one, two : one = Overwrite(frame, first, vals) /\ two = Overwrite(other, first, vals)
  OBVIOUS
<1>1. WrittenOver(one, frame, first, m, vals) /\ WrittenOver(two, other, first, m, vals)
  BY Overwritten
<1>2. /\ Len(one) = Len(frame) /\ Len(two) = Len(frame) /\ Len(other) = Len(frame)
      /\ \A j \in 1 .. Len(frame) :
           /\ one[j].kind = two[j].kind /\ one[j].stuff = two[j].stuff
           /\ one[j].val = IF j \in first .. first + m - 1 THEN vals[j - first + 1] ELSE frame[j].val
           /\ two[j].val = IF j \in first .. first + m - 1 THEN vals[j - first + 1] ELSE other[j].val
  BY <1>1 DEF WrittenOver, SameShape, Alike
<1>3. ASSUME NEW j \in 1 .. Len(frame), j \notin first + m .. first + m + n - 1
      PROVE  two[j].val = one[j].val
  <2>1. CASE j \in first .. first + m - 1
    BY <1>2, <2>1
  <2>2. CASE j \notin first .. first + m - 1
    <3>1. j \notin first .. first + (m + n) - 1
      BY <1>3, <2>2
    <3>2. other[j].val = frame[j].val
      BY <3>1 DEF Alike
    <3> QED BY <1>2, <2>2, <3>2
  <2> QED BY <2>1, <2>2
<1>4. SameShape(one, two)
  BY <1>2 DEF SameShape
<1>5. \A j \in 1 .. Len(one) : j \notin first + m .. first + m + n - 1 => two[j].val = one[j].val
  BY <1>2, <1>3
<1>6. Alike(one, two, first + m, n)
  BY <1>4, <1>5 DEF Alike
<1> QED BY <1>6

\* A bit that is inserted in both moves those bits up.
LEMMA AlikeInserted ==
  ASSUME NEW frame \in Seq(BitType), NEW other \in Seq(BitType), NEW first \in Nat,
         NEW n \in Nat, Alike(frame, other, first, n),
         NEW i \in 1 .. Len(frame) + 1, i <= first, NEW b \in BitType
  PROVE  /\ Alike(InsertBit(frame, i, b), InsertBit(other, i, b), first + 1, n)
         /\ InsertBit(frame, i, b) \in Seq(BitType) /\ InsertBit(other, i, b) \in Seq(BitType)
<1> PICK one, two : one = InsertBit(frame, i, b) /\ two = InsertBit(other, i, b)
  OBVIOUS
<1>1. Len(other) = Len(frame) /\ Len(frame) \in Nat
  BY DEF Alike, SameShape
<1>2. InsertedAt(one, frame, i, b) /\ InsertedAt(two, other, i, b)
  BY <1>1, Inserted
<1>3. /\ one \in Seq(BitType) /\ two \in Seq(BitType)
      /\ Len(one) = Len(frame) + 1 /\ Len(two) = Len(frame) + 1
      /\ \A j \in 1 .. Len(frame) + 1 :
           /\ one[j] = IF j < i THEN frame[j] ELSE IF j = i THEN b ELSE frame[j - 1]
           /\ two[j] = IF j < i THEN other[j] ELSE IF j = i THEN b ELSE other[j - 1]
  BY <1>1, <1>2 DEF InsertedAt
<1>4. ASSUME NEW j \in 1 .. Len(frame) + 1
      PROVE  /\ two[j].kind = one[j].kind /\ two[j].stuff = one[j].stuff
             /\ j \notin first + 1 .. first + 1 + n - 1 => two[j].val = one[j].val
  <2>1. CASE j < i
    <3>1. j \in 1 .. Len(frame) /\ j \notin first .. first + n - 1
      BY <2>1
    <3>2. other[j].kind = frame[j].kind /\ other[j].stuff = frame[j].stuff /\ other[j].val = frame[j].val
      BY <3>1 DEF Alike, SameShape
    <3>3. one[j] = frame[j] /\ two[j] = other[j]
      BY <1>3, <2>1
    <3> QED BY <3>2, <3>3
  <2>2. CASE j = i
    BY <1>3, <2>2
  <2>3. CASE j > i
    <3>1. j - 1 \in 1 .. Len(frame)
      BY <2>3
    <3>2. j \notin first + 1 .. first + 1 + n - 1 => j - 1 \notin first .. first + n - 1
      BY <2>3
    <3>3. /\ other[j - 1].kind = frame[j - 1].kind /\ other[j - 1].stuff = frame[j - 1].stuff
          /\ j - 1 \notin first .. first + n - 1 => other[j - 1].val = frame[j - 1].val
      BY <3>1 DEF Alike, SameShape
    <3>4. one[j] = frame[j - 1] /\ two[j] = other[j - 1]
      BY <1>3, <2>3
    <3> QED BY <3>2, <3>3, <3>4
  <2> QED BY <2>1, <2>2, <2>3
<1>5. SameShape(one, two)
  BY <1>3, <1>4 DEF SameShape
<1>6. \A j \in 1 .. Len(one) : j \notin first + 1 .. first + 1 + n - 1 => two[j].val = one[j].val
  BY <1>3, <1>4
<1>7. Alike(one, two, first + 1, n)
  BY <1>5, <1>6 DEF Alike
<1> QED BY <1>3, <1>7

\* The CRC of frames that are the same up to it is the same.
LEMMA AlikeCrc ==
  ASSUME NEW frame \in Seq(BitType), NEW other \in Seq(BitType), NEW len \in {15, 17, 21},
         FirstOf(frame, "Crc") > 1, FirstOf(other, "Crc") = FirstOf(frame, "Crc"),
         \A j \in 1 .. FirstOf(frame, "Crc") - 1 : other[j] = frame[j]
  PROVE  CalcCrc(other, len) = CalcCrc(frame, len)
<1> PICK n : n = FirstOf(frame, "Crc") - 1
  OBVIOUS
<1>1. n \in Nat
  <2>1. FirstOf(frame, "Crc") \in Nat
    BY FirstInFrame
  <2> QED BY <2>1
<1>2. PICK trace : /\ IsTrace(trace, CoverStep(frame, len, n), CrcInit(len), n, {}, Registers(len))
                   /\ CalcCrc(frame, len) = trace[n].acc
  BY CrcTraced
<1>3. PICK trace2 : /\ IsTrace(trace2, CoverStep(other, len, n), CrcInit(len), n, {}, Registers(len))
                    /\ CalcCrc(other, len) = trace2[n].acc
  BY CrcTraced
<1>4. SameRounds(CoverStep(frame, len, n), CoverStep(other, len, n), n, Registers(len))
  BY DEF CoverStep, SameRounds
<1>5. \A k \in 0 .. n : trace[k] = trace2[k]
  <2>1. n <= n
    BY <1>1
  <2> QED BY <1>1, <1>2, <1>3, <1>4, <2>1, SameTrace
<1>6. n \in 0 .. n
  BY <1>1
<1> QED BY <1>2, <1>3, <1>5, <1>6

\* So the CRC that is written makes them the same.
LEMMA AlikeCrcSet ==
  ASSUME NEW frame \in Seq(BitType), NEW other \in Seq(BitType), NEW len \in {15, 17, 21},
         FirstOf(frame, "Crc") > 1, Alike(frame, other, FirstOf(frame, "Crc"), len)
  PROVE  SetCrc(other, len) = SetCrc(frame, len) /\ CalcCrc(other, len) = CalcCrc(frame, len)
<1> PICK p : p = FirstOf(frame, "Crc")
  OBVIOUS
<1>1. p \in Nat /\ p <= Len(frame)
  <2>1. FirstOf(frame, "Crc") \in 0 .. Len(frame)
    BY FirstInFrame
  <2> QED BY <2>1
<1>2. SameShape(frame, other)
  BY DEF Alike
<1>3. FirstOf(other, "Crc") = p
  BY <1>2, SameShapeFirst
<1>4. ASSUME NEW j \in 1 .. p - 1
      PROVE  other[j] = frame[j]
  <2>1. j \in 1 .. Len(frame) /\ j \notin p .. p + len - 1
    BY <1>1
  <2>2. other[j].kind = frame[j].kind /\ other[j].stuff = frame[j].stuff /\ other[j].val = frame[j].val
    BY <2>1 DEF Alike, SameShape
  <2>3. frame[j] \in BitType /\ other[j] \in BitType
    BY <1>2, <2>1 DEF SameShape
  <2> QED BY <2>2, <2>3, SameBit
<1>5. CalcCrc(other, len) = CalcCrc(frame, len)
  BY <1>3, <1>4, AlikeCrc
<1>6. PICK code : code = CalcCrc(frame, len)
  OBVIOUS
<1>7. code \in [1 .. len -> {Dominant, Recessive}] /\ Len(code) = len
  <2>1. code \in Registers(len)
    <3>1. PICK trace : /\ IsTrace(trace, CoverStep(frame, len, p - 1), CrcInit(len), p - 1, {}, Registers(len))
                       /\ CalcCrc(frame, len) = trace[p - 1].acc
      BY CrcTraced
    <3>2. p - 1 \in 0 .. p - 1
      BY <1>1
    <3> QED BY <1>6, <3>1, <3>2 DEF IsTrace, Result
  <2> QED BY <2>1 DEF Registers, Dominant, Recessive
<1>8. Overwrite(frame, p, code) = Overwrite(other, p, code)
  <2>1. PICK n \in Nat : n = len
    OBVIOUS
  <2>2. Alike(frame, other, p, n + 0) /\ code \in [1 .. n -> {Dominant, Recessive}] /\ Len(code) = n
    BY <1>7, <2>1
  <2>3. Alike(Overwrite(frame, p, code), Overwrite(other, p, code), p + n, 0)
    BY <1>1, <2>2, AlikeOverwritten
  <2>4. WrittenOver(Overwrite(frame, p, code), frame, p, n, code)
        /\ WrittenOver(Overwrite(other, p, code), other, p, n, code)
    BY <1>1, <2>2, Overwritten
  <2>5. p + n \in Nat
    BY <1>1
  <2> QED BY <2>3, <2>4, <2>5, AlikeSame DEF WrittenOver
<1> QED BY <1>3, <1>5, <1>6, <1>8 DEF SetCrc, UpdateCrcBits

-----------------------------------------------------------------------------
(* A loop that inserts bits into the frame it runs over.                   *)

\* It began at bit first of a frame and has put out some bits for k of the frame.
SoFar(new, frame, first, out, k) ==
  /\ new \in Seq(BitType) /\ Len(new) = Len(out) + (Len(frame) - k)
  /\ \A j \in 1 .. first - 1 : new[j] = frame[j]
  /\ \A j \in 1 .. Len(out) : new[(first - 1) + j] = out[j]
  /\ \A j \in first + k .. Len(frame) : new[(j - k) + Len(out)] = frame[j]

\* It has put out nothing yet.
LEMMA SoFarBegins ==
  ASSUME NEW frame \in Seq(BitType), NEW first \in Nat
  PROVE  SoFar(frame, frame, first, <<>>, 0)
BY DEF SoFar

\* The bit the loop is at, and the next one.
LEMMA SoFarAt ==
  ASSUME NEW frame \in Seq(BitType), NEW first \in Nat \ {0}, NEW k \in Nat, first + k <= Len(frame),
         NEW out \in Seq(BitType), NEW new, SoFar(new, frame, first, out, k)
  PROVE  /\ first + Len(out) \in 1 .. Len(new) /\ new[first + Len(out)] = frame[first + k]
         /\ first + k < Len(frame) => new[first + Len(out) + 1] = frame[first + k + 1]
<1>1. Len(frame) \in Nat /\ Len(out) \in Nat
  OBVIOUS
<1>2. first + k \in first + k .. Len(frame) /\ ((first + k) - k) + Len(out) = first + Len(out)
  BY <1>1
<1>3. first + k < Len(frame) => /\ first + k + 1 \in first + k .. Len(frame)
                                /\ ((first + k + 1) - k) + Len(out) = first + Len(out) + 1
  BY <1>1
<1>4. new[first + Len(out)] = frame[first + k]
  BY <1>2 DEF SoFar
<1>5. first + k < Len(frame) => new[first + Len(out) + 1] = frame[first + k + 1]
  BY <1>3 DEF SoFar
<1>6. first + Len(out) \in 1 .. Len(new)
  BY <1>1 DEF SoFar
<1> QED BY <1>4, <1>5, <1>6

\* It passes a bit.
LEMMA SoFarPass ==
  ASSUME NEW frame \in Seq(BitType), NEW first \in Nat \ {0}, NEW k \in Nat, first + k <= Len(frame),
         NEW out \in Seq(BitType), NEW new, SoFar(new, frame, first, out, k)
  PROVE  SoFar(new, frame, first, out \o <<frame[first + k]>>, k + 1)
<1> PICK more : more = out \o <<frame[first + k]>>
  OBVIOUS
<1>1. Len(frame) \in Nat /\ Len(out) \in Nat /\ frame[first + k] \in BitType
  OBVIOUS
<1>2. Len(more) = Len(out) + 1 /\ more[Len(out) + 1] = frame[first + k]
      /\ \A j \in 1 .. Len(out) : more[j] = out[j]
  BY <1>1
<1>3. /\ first + Len(out) \in 1 .. Len(new) /\ new[first + Len(out)] = frame[first + k]
      /\ first + k < Len(frame) => new[first + Len(out) + 1] = frame[first + k + 1]
  BY SoFarAt
<1>4. ASSUME NEW j \in 1 .. Len(more)
      PROVE  new[(first - 1) + j] = more[j]
  <2>1. CASE j <= Len(out)
    <3>1. j \in 1 .. Len(out)
      BY <2>1
    <3> QED BY <1>2, <3>1 DEF SoFar
  <2>2. CASE j = Len(out) + 1
    <3>1. (first - 1) + j = first + Len(out)
      BY <1>1, <2>2
    <3> QED BY <1>2, <1>3, <2>2, <3>1
  <2> QED BY <1>1, <1>2, <2>1, <2>2
<1>5. ASSUME NEW j \in first + (k + 1) .. Len(frame)
      PROVE  new[(j - (k + 1)) + Len(more)] = frame[j]
  <2>1. j \in first + k .. Len(frame) /\ (j - (k + 1)) + Len(more) = (j - k) + Len(out)
    BY <1>1, <1>2
  <2> QED BY <2>1 DEF SoFar
<1>6. Len(new) = Len(more) + (Len(frame) - (k + 1))
  <2>1. Len(new) = Len(out) + (Len(frame) - k)
    BY DEF SoFar
  <2> QED BY <1>1, <1>2, <2>1
<1>7. SoFar(new, frame, first, more, k + 1)
  BY <1>4, <1>5, <1>6 DEF SoFar
<1> QED BY <1>7

\* It inserts a bit behind the one it passes.
LEMMA SoFarInserts ==
  ASSUME NEW frame \in Seq(BitType), NEW first \in Nat \ {0}, NEW k \in Nat, first + k <= Len(frame),
         NEW out \in Seq(BitType), NEW new, SoFar(new, frame, first, out, k), NEW b \in BitType
  PROVE  SoFar(InsertBit(new, first + Len(out) + 1, b), frame, first,
               out \o <<frame[first + k], b>>, k + 1)
<1> PICK more : more = out \o <<frame[first + k], b>>
  OBVIOUS
<1> PICK i \in Nat : i = first + Len(out) + 1
  OBVIOUS
<1> PICK longer : longer = InsertBit(new, i, b)
  OBVIOUS
<1>1. Len(frame) \in Nat /\ Len(out) \in Nat /\ frame[first + k] \in BitType
      /\ new \in Seq(BitType) /\ Len(new) \in Nat
  BY DEF SoFar
<1>2. Len(more) = Len(out) + 2 /\ more[Len(out) + 1] = frame[first + k] /\ more[Len(out) + 2] = b
      /\ \A j \in 1 .. Len(out) : more[j] = out[j]
  BY <1>1
<1>3. /\ first + Len(out) \in 1 .. Len(new) /\ new[first + Len(out)] = frame[first + k]
      /\ first + k < Len(frame) => new[first + Len(out) + 1] = frame[first + k + 1]
  BY SoFarAt
<1>4. /\ longer \in Seq(BitType) /\ Len(longer) = Len(new) + 1
      /\ \A j \in 1 .. Len(new) + 1 :
           longer[j] = IF j < i THEN new[j] ELSE IF j = i THEN b ELSE new[j - 1]
  <2>1. i \in 1 .. Len(new) + 1
    BY <1>1, <1>3
  <2>2. InsertedAt(longer, new, i, b)
    BY <1>1, <2>1, Inserted
  <2> QED BY <2>2 DEF InsertedAt
<1>5. ASSUME NEW j \in 1 .. first - 1
      PROVE  longer[j] = frame[j]
  <2>1. j \in 1 .. Len(new) + 1 /\ j < i
    BY <1>1, <1>3
  <2>2. longer[j] = new[j]
    BY <1>4, <2>1
  <2> QED BY <2>2 DEF SoFar
<1>6. ASSUME NEW j \in 1 .. Len(more)
      PROVE  longer[(first - 1) + j] = more[j]
  <2>1. (first - 1) + j \in 1 .. Len(new) + 1
    BY <1>1, <1>2, <1>3
  <2>2. CASE j <= Len(out)
    <3>1. j \in 1 .. Len(out) /\ (first - 1) + j < i
      BY <1>1, <2>2
    <3>2. longer[(first - 1) + j] = new[(first - 1) + j]
      BY <1>4, <2>1, <3>1
    <3> QED BY <1>2, <3>1, <3>2 DEF SoFar
  <2>3. CASE j = Len(out) + 1
    <3>1. (first - 1) + j = first + Len(out) /\ first + Len(out) < i
      BY <1>1, <2>3
    <3>2. longer[first + Len(out)] = new[first + Len(out)]
      BY <1>4, <2>1, <3>1
    <3> QED BY <1>2, <1>3, <2>3, <3>1, <3>2
  <2>4. CASE j = Len(out) + 2
    <3>1. (first - 1) + j = i
      BY <1>1, <2>4
    <3>2. i \in 1 .. Len(new) + 1 /\ ~(i < i)
      BY <2>1, <3>1
    <3>3. longer[i] = b
      BY <1>4, <3>2
    <3> QED BY <1>2, <2>4, <3>1, <3>3
  <2> QED BY <1>1, <1>2, <2>2, <2>3, <2>4
<1>7. ASSUME NEW j \in first + (k + 1) .. Len(frame)
      PROVE  longer[(j - (k + 1)) + Len(more)] = frame[j]
  <2>1. j \in first + k .. Len(frame) /\ (j - (k + 1)) + Len(more) = ((j - k) + Len(out)) + 1
    BY <1>1, <1>2
  <2>2. PICK l \in Nat : l = (j - k) + Len(out)
    <3>1. j - k \in Nat /\ Len(out) \in Nat
      BY <1>1
    <3>2. (j - k) + Len(out) \in Nat
      BY <3>1
    <3> QED BY <3>2
  <2>3. l + 1 \in 1 .. Len(new) + 1 /\ ~(l + 1 < i) /\ l + 1 # i /\ (l + 1) - 1 = l
    <3>1. Len(new) = Len(out) + (Len(frame) - k)
      BY DEF SoFar
    <3>2. j <= Len(frame) /\ j >= first + k + 1 /\ j \in Nat
      BY <1>1
    <3> QED BY <1>1, <2>2, <3>1, <3>2
  <2>4. longer[l + 1] = new[l]
    BY <1>4, <2>3
  <2>5. new[l] = frame[j]
    BY <2>1, <2>2 DEF SoFar
  <2> QED BY <2>1, <2>2, <2>4, <2>5
<1>8. Len(longer) = Len(more) + (Len(frame) - (k + 1))
  <2>1. Len(new) = Len(out) + (Len(frame) - k)
    BY DEF SoFar
  <2> QED BY <1>1, <1>2, <1>4, <2>1
<1>9. SoFar(longer, frame, first, more, k + 1)
  BY <1>4, <1>5, <1>6, <1>7, <1>8 DEF SoFar
<1> QED BY <1>9

\* A sequence behind another.
IsJoin(new, s, t, S) ==
  /\ new \in Seq(S) /\ Len(new) = Len(s) + Len(t)
  /\ \A j \in 1 .. Len(s) : new[j] = s[j]
  /\ \A j \in 1 .. Len(t) : new[Len(s) + j] = t[j]

\* This is how sequences are put together.
LEMMA JoinedTwo ==
  ASSUME NEW S, NEW s \in Seq(S), NEW t \in Seq(S)
  PROVE  IsJoin(s \o t, s, t, S)
<1>1. s \o t \in Seq(S) /\ Len(s \o t) = Len(s) + Len(t)
  BY ConcatProperties
<1>2. \A j \in 1 .. Len(s) : (s \o t)[j] = s[j]
  OBVIOUS
<1>3. \A j \in 1 .. Len(t) : (s \o t)[Len(s) + j] = t[j]
  OBVIOUS
<1> QED BY <1>1, <1>2, <1>3 DEF IsJoin

\* What it makes of the frame as a function.
LEMMA SoFarOf ==
  ASSUME NEW frame \in Seq(BitType), NEW first \in Nat \ {0}, NEW k \in Nat, first + k <= Len(frame),
         NEW out \in Seq(BitType)
  PROVE  SoFar(FixedStuffed(frame, first, first + k, out), frame, first, out, k)
<1> PICK new : new = FixedStuffed(frame, first, first + k, out)
  OBVIOUS
<1> PICK a, c : a = SubSeq(frame, 1, first - 1) /\ c = SubSeq(frame, first + k, Len(frame))
  OBVIOUS
<1>1. Len(frame) \in Nat /\ Len(out) \in Nat /\ first \in Nat /\ first + k \in Nat
  OBVIOUS
<1>2. a \in Seq(BitType) /\ Len(a) = first - 1 /\ \A j \in 1 .. first - 1 : a[j] = frame[j]
  OBVIOUS
<1>3. /\ c \in Seq(BitType) /\ Len(c) = (Len(frame) - (first + k)) + 1
      /\ \A j \in 1 .. (Len(frame) - (first + k)) + 1 : c[j] = frame[((first + k) + j) - 1]
  OBVIOUS
<1>4. new = (a \o out) \o c
  BY DEF FixedStuffed
<1>5. PICK b : b = a \o out
  OBVIOUS
<1>6. /\ b \in Seq(BitType) /\ Len(b) = (first - 1) + Len(out)
      /\ \A j \in 1 .. first - 1 : b[j] = a[j]
      /\ \A j \in 1 .. Len(out) : b[(first - 1) + j] = out[j]
  <2>1. IsJoin(b, a, out, BitType)
    BY <1>2, <1>5, JoinedTwo
  <2> QED BY <1>2, <2>1 DEF IsJoin
<1>7. /\ new \in Seq(BitType) /\ Len(new) = Len(b) + Len(c)
      /\ \A j \in 1 .. Len(b) : new[j] = b[j]
      /\ \A j \in 1 .. Len(c) : new[Len(b) + j] = c[j]
  <2>1. b \in Seq(BitType) /\ c \in Seq(BitType) /\ new = b \o c
    BY <1>3, <1>4, <1>5, <1>6
  <2>2. IsJoin(new, b, c, BitType)
    BY <2>1, JoinedTwo
  <2> QED BY <2>2 DEF IsJoin
<1>8. ASSUME NEW j \in 1 .. first - 1
      PROVE  new[j] = frame[j]
  <2>1. j \in 1 .. Len(b)
    BY <1>1, <1>6
  <2> QED BY <1>2, <1>6, <1>7, <2>1
<1>9. ASSUME NEW j \in 1 .. Len(out)
      PROVE  new[(first - 1) + j] = out[j]
  <2>1. (first - 1) + j \in 1 .. Len(b)
    BY <1>1, <1>6
  <2> QED BY <1>6, <1>7, <2>1
<1>10. ASSUME NEW j \in first + k .. Len(frame)
       PROVE  new[(j - k) + Len(out)] = frame[j]
  <2>1. PICK l \in Nat : l = (j - (first + k)) + 1
    <3>1. j - (first + k) \in Nat
      BY <1>1
    <3>2. (j - (first + k)) + 1 \in Nat
      BY <3>1
    <3> QED BY <3>2
  <2>2. l \in 1 .. Len(c)
    BY <1>1, <1>3, <2>1
  <2>3. Len(b) + l = (j - k) + Len(out) /\ ((first + k) + l) - 1 = j
    BY <1>1, <1>6, <2>1
  <2>4. new[Len(b) + l] = c[l] /\ c[l] = frame[((first + k) + l) - 1]
    BY <1>3, <1>7, <2>2
  <2> QED BY <2>3, <2>4
<1>11. Len(new) = Len(out) + (Len(frame) - k)
  <2>1. Len(b) = (first - 1) + Len(out) /\ Len(c) = (Len(frame) - (first + k)) + 1 /\ Len(new) = Len(b) + Len(c)
    BY <1>3, <1>6, <1>7
  <2>2. PICK m, n \in Nat : m = Len(out) /\ n = Len(frame)
    BY <1>1
  <2>3. Len(new) = ((first - 1) + m) + ((n - (first + k)) + 1)
    BY <2>1, <2>2
  <2>4. ((first - 1) + m) + ((n - (first + k)) + 1) = m + (n - k)
    BY <1>1
  <2> QED BY <2>2, <2>3, <2>4
<1>12. SoFar(new, frame, first, out, k)
  BY <1>7, <1>8, <1>9, <1>10, <1>11 DEF SoFar
<1> QED BY <1>12

\* So that is what it has made of it, in the end.
LEMMA SoFarEnds ==
  ASSUME NEW frame \in Seq(BitType), NEW first \in Nat \ {0}, NEW k \in Nat, first + k <= Len(frame),
         NEW out \in Seq(BitType), NEW new, SoFar(new, frame, first, out, k)
  PROVE  new = FixedStuffed(frame, first, first + k, out)
<1> PICK other : other = FixedStuffed(frame, first, first + k, out)
  OBVIOUS
<1>1. SoFar(other, frame, first, out, k)
  BY SoFarOf
<1>2. Len(frame) \in Nat /\ Len(out) \in Nat /\ first \in Nat
  OBVIOUS
<1>3. new \in Seq(BitType) /\ other \in Seq(BitType) /\ Len(new) = Len(out) + (Len(frame) - k)
      /\ Len(other) = Len(out) + (Len(frame) - k)
  BY <1>1 DEF SoFar
<1>4. ASSUME NEW j \in 1 .. Len(new)
      PROVE  new[j] = other[j]
  <2>1. CASE j < first
    <3>1. j \in 1 .. first - 1
      BY <1>2, <2>1
    <3>2. new[j] = frame[j] /\ other[j] = frame[j]
      BY <1>1, <3>1 DEF SoFar
    <3> QED BY <3>2
  <2>2. CASE j >= first /\ j <= (first - 1) + Len(out)
    <3>1. (j - first) + 1 \in 1 .. Len(out) /\ (first - 1) + ((j - first) + 1) = j
      BY <1>2, <2>2
    <3>2. PICK l \in 1 .. Len(out) : (first - 1) + l = j
      BY <3>1
    <3>3. new[(first - 1) + l] = out[l] /\ other[(first - 1) + l] = out[l]
      BY <1>1 DEF SoFar
    <3> QED BY <3>2, <3>3
  <2>3. CASE j > (first - 1) + Len(out)
    <3>1. PICK l \in Nat : l = (j - Len(out)) + k
      <4>1. j - Len(out) \in Nat
        BY <1>2, <2>3
      <4>2. (j - Len(out)) + k \in Nat
        BY <4>1
      <4> QED BY <4>2
    <3>2. l \in first + k .. Len(frame) /\ (l - k) + Len(out) = j
      BY <1>2, <1>3, <2>3, <3>1
    <3>3. new[(l - k) + Len(out)] = frame[l] /\ other[(l - k) + Len(out)] = frame[l]
      BY <1>1, <3>2 DEF SoFar
    <3> QED BY <3>2, <3>3
  <2> QED BY <1>2, <2>1, <2>2, <2>3
<1>5. new = other
  BY <1>3, <1>4, SeqEqual
<1> QED BY <1>5

\* Both ways of stuffing put the bits together alike.
LEMMA StuffedFromTwo ==
  ASSUME NEW frame \in Seq(BitType), Len(frame) > 0, NEW end, NEW loop
  PROVE  WithStuffBits(frame, end, loop).bits = FixedStuffed(frame, 2, end, loop.out)
<1>1. SubSeq(frame, 1, 1) = <<frame[1]>>
  <2>1. frame[1] \in BitType /\ Len(frame) \in Nat
    OBVIOUS
  <2>2. SubSeq(frame, 1, 1) \in Seq(BitType) /\ Len(SubSeq(frame, 1, 1)) = 1
    BY <2>1
  <2>3. SubSeq(frame, 1, 1)[1] = frame[1]
    BY <2>1
  <2>4. <<frame[1]>> \in Seq(BitType) /\ Len(<<frame[1]>>) = 1 /\ <<frame[1]>>[1] = frame[1]
    BY <2>1
  <2>5. \A i \in 1 .. 1 : i = 1
    OBVIOUS
  <2> QED BY <2>2, <2>3, <2>4, <2>5, SeqEqual
<1>2. 2 - 1 = 1
  OBVIOUS
<1> QED BY <1>1, <1>2 DEF WithStuffBits, FixedStuffed

-----------------------------------------------------------------------------
(* What the loops run over.                                                *)

\* SOF is not all that is before what is calculated.
LEMMA HeadIsLong ==
  ASSUME TypeInv
  PROVE  HeadLen \in Nat /\ HeadLen > 1
<1>1. content \in ContentType
  BY DEF TypeInv
<1>2. PICK c \in ContentType : c = content
  BY <1>1
<1>3. Len(UpToData(c)) > 1
  BY HeadIsPlain
<1>4. HeadLen > 1
  BY <1>2, <1>3 DEF HeadLen
<1> QED BY <1>4, Sizes

\* Where regular stuffing ends in a frame without stuff bits.
StuffEnd == IF IsCan20 THEN First(content) + GoldenCrcLen + 1 ELSE HeadLen + 1

\* It ends there, and not before.
LEMMA StuffEndFound ==
  ASSUME TypeInv, NEW frame, FreshKinds(frame)
  PROVE  /\ EndOfStuffing(frame) = StuffEnd /\ StuffEnd \in Nat /\ StuffEnd > 2
         /\ StuffEnd < Len(frame) /\ frame[StuffEnd].kind \in EndKinds
         /\ NoneBefore(StuffEnd, EndKinds, frame)
<1>1. /\ HeadLen \in Nat /\ HeadLen > 1 /\ GoldenCrcLen \in Nat /\ GoldenCrcLen \in {15, 17, 21}
      /\ First(content) = HeadLen + (IF IsCan20 THEN 0 ELSE 4)
      /\ Len(Built) \in Nat /\ Len(Built) > First(content) + GoldenCrcLen + 1
  BY Sizes, HeadIsLong
<1>2. frame \in Seq(BitType) /\ Len(frame) = Len(Built)
  BY DEF FreshKinds
<1>3. StuffEnd \in Nat /\ StuffEnd > 2 /\ StuffEnd < Len(frame)
  <2>1. CASE IsCan20
    BY <1>1, <1>2, <2>1 DEF StuffEnd
  <2>2. CASE ~IsCan20
    BY <1>1, <1>2, <2>2 DEF StuffEnd
  <2> QED BY <2>1, <2>2
<1>4. frame[StuffEnd].kind \in EndKinds
  <2>1. CASE IsCan20
    BY <2>1 DEF StuffEnd, FreshKinds, EndKinds
  <2>2. CASE ~IsCan20
    <3>1. frame[HeadLen + 1].kind = "StuffCnt"
      BY <2>2 DEF FreshKinds
    <3> QED BY <2>2, <3>1 DEF StuffEnd, EndKinds
  <2> QED BY <2>1, <2>2
<1>5. ASSUME NEW j \in 1 .. StuffEnd - 1
      PROVE  frame[j].kind \notin EndKinds
  <2>1. CASE j <= HeadLen
    <3>1. j \in 1 .. HeadLen
      BY <1>1, <1>3, <2>1
    <3>2. frame[j].kind \in HeadKinds
      BY <3>1 DEF FreshKinds
    <3> QED BY <3>2 DEF HeadKinds, EndKinds
  <2>2. CASE j > HeadLen
    <3>1. IsCan20
      BY <1>1, <1>3, <2>2 DEF StuffEnd
    <3>2. StuffEnd = HeadLen + GoldenCrcLen + 1
      BY <1>1, <3>1 DEF StuffEnd
    <3>3. j - HeadLen \in 1 .. GoldenCrcLen
      BY <1>1, <1>3, <2>2, <3>2
    <3>4. First(content) = HeadLen
      BY <1>1, <3>1
    <3>5. HeadLen + (j - HeadLen) = j
      BY <1>1
    <3>6. frame[j].kind = "Crc"
      BY <3>3, <3>4, <3>5 DEF FreshKinds
    <3> QED BY <3>6 DEF EndKinds
  <2> QED BY <1>1, <1>3, <2>1, <2>2
<1>6. NoneBefore(StuffEnd, EndKinds, frame)
  BY <1>5 DEF NoneBefore
<1>7. StuffEnd \in 1 .. Len(frame)
  BY <1>2, <1>3
<1>8. EndOfStuffing(frame) = StuffEnd
  <2>1. PICK p \in 1 .. Len(frame) : p = StuffEnd
    BY <1>7
  <2>2. frame[p].kind \in EndKinds /\ NoneBefore(p, EndKinds, frame)
    BY <1>4, <1>6, <2>1
  <2>3. EndOfStuffing(frame) = p
    BY <1>2, <2>2, EndFound
  <2> QED BY <2>1, <2>3
<1> QED BY <1>3, <1>4, <1>6, <1>8

\* A round of InsertNormalStuffBits leaves bits of the fields of its frame.
LEMMA NormalKinds ==
  ASSUME NEW frame \in Seq(UnfixedBits), NEW n \in Nat, n < Len(frame), NEW kinds,
         \A i \in 1 .. n : frame[i + 1].kind \in kinds,
         NEW trace, IsTrace(trace, NormalStep(frame, n), StuffFirst, n, UnfixedBits, StuffAcc),
         NEW m \in 0 .. n
  PROVE  \A j \in 1 .. Len(trace[m].out) : trace[m].out[j].kind \in kinds
<1> DEFINE good == {k \in Nat : k <= n => \A j \in 1 .. Len(trace[k].out) : trace[k].out[j].kind \in kinds}
<1>1. 0 \in good
  <2>1. trace[0].out = <<>>
    BY DEF IsTrace
  <2> QED BY <2>1
<1>2. ASSUME NEW k \in Nat, k \in good
      PROVE  k + 1 \in good
  <2> SUFFICES ASSUME k + 1 <= n
               PROVE  \A j \in 1 .. Len(trace[k + 1].out) : trace[k + 1].out[j].kind \in kinds
    OBVIOUS
  <2>1. k < n /\ k + 1 \in 1 .. n /\ (k + 1) + 1 \in 1 .. Len(frame)
    OBVIOUS
  <2>2. OneMore(trace, NormalStep(frame, n), k, UnfixedBits, StuffAcc)
    BY <2>1, TraceRound
  <2>3. PICK s, acc : s = trace[k].out /\ acc = trace[k].acc
    OBVIOUS
  <2>4. acc \in StuffAcc /\ s \in Seq(UnfixedBits)
    BY <2>2, <2>3 DEF OneMore, Result
  <2>5. PICK i \in 1 .. Len(frame) : i = (k + 1) + 1
    BY <2>1
  <2>6. NormalStep(frame, n)[k + 1][acc] = StuffStep(frame, acc, i)
    BY <2>1, <2>4, <2>5 DEF NormalStep
  <2>7. PICK t : t = StuffStep(frame, acc, i).out
    OBVIOUS
  <2>8. trace[k + 1].out = s \o t
    BY <2>2, <2>3, <2>6, <2>7 DEF OneMore
  <2>9. t \in Seq(UnfixedBits)
    <3>1. StuffStep(frame, acc, i) \in Result(UnfixedBits, StuffAcc)
      BY <2>4, StuffStepResult
    <3> QED BY <2>7, <3>1 DEF Result
  <2>10. \A j \in 1 .. Len(t) : t[j].kind \in kinds
    <3>1. frame[i].kind \in kinds
      BY <2>1, <2>5
    <3>2. t = <<frame[i]>> \/ t = <<frame[i], Bit(frame[i].kind, Opposite(frame[i].val), "Normal")>>
      BY <2>7 DEF StuffStep
    <3>3. Bit(frame[i].kind, Opposite(frame[i].val), "Normal").kind = frame[i].kind
      BY DEF Bit
    <3> QED BY <3>1, <3>2, <3>3
  <2>11. \A j \in 1 .. Len(s) : s[j].kind \in kinds
    BY <1>2, <2>1, <2>3
  <2>12. ASSUME NEW j \in 1 .. Len(s \o t)
         PROVE  (s \o t)[j].kind \in kinds
    <3>1. IsJoin(s \o t, s, t, UnfixedBits)
      BY <2>4, <2>9, JoinedTwo
    <3>2. Len(s) \in Nat /\ Len(t) \in Nat /\ Len(s \o t) = Len(s) + Len(t)
      BY <2>4, <2>9, <3>1 DEF IsJoin
    <3>3. CASE j <= Len(s)
      <4>1. j \in 1 .. Len(s)
        BY <3>2, <3>3
      <4>2. (s \o t)[j] = s[j]
        BY <3>1, <4>1 DEF IsJoin
      <4> QED BY <2>11, <4>1, <4>2
    <3>4. CASE j > Len(s)
      <4>1. PICK l \in 1 .. Len(t) : Len(s) + l = j
        <5>1. j - Len(s) \in 1 .. Len(t) /\ Len(s) + (j - Len(s)) = j
          BY <3>2, <3>4
        <5> QED BY <5>1
      <4>2. (s \o t)[j] = t[l]
        BY <3>1, <4>1 DEF IsJoin
      <4> QED BY <2>10, <4>2
    <3> QED BY <3>2, <3>3, <3>4
  <2> QED BY <2>8, <2>12
<1>3. \A k \in Nat : k \in good
  <2> HIDE DEF good
  <2> QED BY <1>1, <1>2, SetInduction
<1> QED BY <1>3

\* A frame without stuff bits has no fixed ones.
LEMMA FreshUnfixed ==
  ASSUME NEW frame, FreshKinds(frame)
  PROVE  frame \in Seq(UnfixedBits)
<1>1. frame \in Seq(BitType) /\ \A j \in 1 .. Len(frame) : frame[j].stuff = "NoStuff"
  BY DEF FreshKinds
<1>2. \A j \in 1 .. Len(frame) : frame[j] \in UnfixedBits
  <2>1. \A j \in 1 .. Len(frame) : frame[j] \in BitType
    BY <1>1
  <2> QED BY <1>1, <2>1 DEF UnfixedBits
<1>3. Len(frame) \in Nat /\ frame = [j \in 1 .. Len(frame) |-> frame[j]]
  BY <1>1
<1> QED BY <1>2, <1>3

\* The regular stuffing of CAN FD, up to the stuff count.
NormallyStuffed(trace, frame) ==
  /\ IsTrace(trace, NormalStep(frame, HeadLen - 1), StuffFirst, HeadLen - 1, UnfixedBits, StuffAcc)
  /\ InsertNormalStuffBits(frame)
       = [bits |-> FixedStuffed(frame, 2, HeadLen + 1, trace[HeadLen - 1].out),
          cnt  |-> trace[HeadLen - 1].acc.cnt]

\* It is that of a loop.
LEMMA NormalOf ==
  ASSUME TypeInv, ~IsCan20, NEW frame, FreshKinds(frame)
  PROVE  \E trace : NormallyStuffed(trace, frame)
<1>1. frame \in Seq(UnfixedBits) /\ frame \in Seq(BitType)
  BY FreshUnfixed DEF FreshKinds
<1>2. EndOfStuffing(frame) = HeadLen + 1 /\ HeadLen \in Nat /\ HeadLen > 1
  BY StuffEndFound, HeadIsLong DEF StuffEnd
<1>3. EndOfStuffing(frame) > 2 /\ EndOfStuffing(frame) - 2 = HeadLen - 1
  BY <1>2
<1>4. PICK trace : /\ IsTrace(trace, NormalStep(frame, (EndOfStuffing(frame) - 2)), StuffFirst,
                              (EndOfStuffing(frame) - 2), UnfixedBits, StuffAcc)
                   /\ InsertNormalStuffBits(frame)
                        = WithStuffBits(frame, EndOfStuffing(frame), trace[EndOfStuffing(frame) - 2])
  BY <1>1, <1>3, NormalStuffTraced
<1>5. PICK loop : loop = trace[HeadLen - 1]
  OBVIOUS
<1>6. InsertNormalStuffBits(frame) = WithStuffBits(frame, HeadLen + 1, loop)
  BY <1>2, <1>3, <1>4, <1>5
<1>7. Len(frame) > 0
  BY <1>2, StuffEndFound
<1>8. WithStuffBits(frame, HeadLen + 1, loop).bits = FixedStuffed(frame, 2, HeadLen + 1, loop.out)
  BY <1>1, <1>7, StuffedFromTwo
<1>9. WithStuffBits(frame, HeadLen + 1, loop)
        = [bits |-> FixedStuffed(frame, 2, HeadLen + 1, loop.out), cnt |-> loop.acc.cnt]
  BY <1>8 DEF WithStuffBits
<1>10. IsTrace(trace, NormalStep(frame, HeadLen - 1), StuffFirst, HeadLen - 1, UnfixedBits, StuffAcc)
  BY <1>3, <1>4
<1> QED BY <1>5, <1>6, <1>9, <1>10 DEF NormallyStuffed

\* A frame that is stuffed up to the stuff count, in position end, which is still to be
\* written.
ReadyToCount(new, frame, end) ==
  /\ new \in Seq(BitType) /\ end \in 2 .. Len(new) /\ end + 4 <= Len(new)
  /\ Len(new) = (end - 1) + (Len(frame) - HeadLen)
  /\ \A j \in HeadLen + 1 .. Len(frame) : new[(j - HeadLen) + (end - 1)] = frame[j]
  /\ \A j \in 1 .. end - 1 : new[j].kind \in HeadKinds
  /\ \A i \in 0 .. 2 : new[end + i].kind = "StuffCnt"
  /\ new[end + 3].kind = "StuffParity" /\ new[end + 4].kind = "Crc"
  /\ NoneBefore(end, {"StuffCnt", "StuffParity", "Crc"}, new)

\* Regular stuffing makes it one, with some number of stuff bits.
LEMMA StuffedReady ==
  ASSUME TypeInv, ~IsCan20, NEW frame, FreshKinds(frame), NEW trace, NormallyStuffed(trace, frame)
  PROVE  /\ ReadyToCount(InsertNormalStuffBits(frame).bits, frame, 2 + Len(trace[HeadLen - 1].out))
         /\ SoFar(InsertNormalStuffBits(frame).bits, frame, 2, trace[HeadLen - 1].out, HeadLen - 1)
         /\ InsertNormalStuffBits(frame).cnt = trace[HeadLen - 1].acc.cnt
         /\ InsertNormalStuffBits(frame).cnt \in 0 .. 7
<1>1. frame \in Seq(UnfixedBits) /\ frame \in Seq(BitType)
  BY FreshUnfixed DEF FreshKinds
<1>2. /\ HeadLen \in Nat /\ HeadLen > 1 /\ First(content) = HeadLen + 4
      /\ Len(frame) = Len(Built) /\ Len(Built) \in Nat /\ GoldenCrcLen \in {15, 17, 21}
      /\ Len(Built) > First(content) + GoldenCrcLen + 1
  BY HeadIsLong, Sizes DEF FreshKinds
<1>3. PICK n \in Nat : n = HeadLen - 1
  BY <1>2
<1>4. trace[n] \in Result(UnfixedBits, StuffAcc)
  <2>1. n \in 0 .. n
    OBVIOUS
  <2> QED BY <1>3, <2>1 DEF NormallyStuffed, IsTrace
<1>5. PICK out \in Seq(UnfixedBits) : out = trace[n].out
  BY <1>4 DEF Result
<1>6. out \in Seq(BitType) /\ Len(out) \in Nat
  BY UnfixedAreBits
<1>7. PICK new : new = InsertNormalStuffBits(frame).bits
  OBVIOUS
<1>8. new = FixedStuffed(frame, 2, 2 + n, out)
  <2>1. 2 + n = HeadLen + 1
    BY <1>2, <1>3
  <2> QED BY <1>3, <1>5, <1>7, <2>1 DEF NormallyStuffed
<1>9. SoFar(new, frame, 2, out, n)
  <2>1. 2 + n <= Len(frame)
    BY <1>2, <1>3
  <2> QED BY <1>1, <1>6, <1>8, <2>1, SoFarOf
<1>10. PICK end \in Nat : end = 2 + Len(out)
  BY <1>6
<1>11. /\ new \in Seq(BitType) /\ Len(new) = Len(out) + (Len(frame) - n)
       /\ new[1] = frame[1]
       /\ \A j \in 1 .. Len(out) : new[1 + j] = out[j]
       /\ \A j \in 2 + n .. Len(frame) : new[(j - n) + Len(out)] = frame[j]
  <2>1. 2 - 1 = 1 /\ 1 \in 1 .. 2 - 1
    OBVIOUS
  <2> QED BY <1>9, <2>1 DEF SoFar
<1>12. Len(new) = (end - 1) + (Len(frame) - HeadLen)
  BY <1>2, <1>3, <1>6, <1>10, <1>11
<1>13. ASSUME NEW j \in HeadLen + 1 .. Len(frame)
       PROVE  new[(j - HeadLen) + (end - 1)] = frame[j]
  <2>1. j \in 2 + n .. Len(frame) /\ (j - HeadLen) + (end - 1) = (j - n) + Len(out)
    BY <1>2, <1>3, <1>6, <1>10
  <2> QED BY <1>11, <2>1
<1>14. ASSUME NEW i \in 0 .. 4
       PROVE  new[end + i] = frame[HeadLen + (i + 1)]
  <2>1. HeadLen + (i + 1) \in HeadLen + 1 .. Len(frame)
        /\ ((HeadLen + (i + 1)) - HeadLen) + (end - 1) = end + i
    BY <1>2
  <2> QED BY <1>13, <2>1
<1>15. /\ frame[HeadLen + (0 + 1)].kind = "StuffCnt" /\ frame[HeadLen + (1 + 1)].kind = "StuffCnt"
       /\ frame[HeadLen + (2 + 1)].kind = "StuffCnt" /\ frame[HeadLen + (3 + 1)].kind = "StuffParity"
       /\ frame[HeadLen + (4 + 1)].kind = "Crc"
  <2>1. \A j \in 1 .. 3 : frame[HeadLen + j].kind = "StuffCnt"
    BY DEF FreshKinds
  <2>2. frame[HeadLen + 4].kind = "StuffParity"
    BY DEF FreshKinds
  <2>3. frame[First(content) + 1].kind = "Crc"
    <3>1. 1 \in 1 .. GoldenCrcLen
      BY <1>2
    <3> QED BY <3>1 DEF FreshKinds
  <2>4. First(content) + 1 = HeadLen + 5
    BY <1>2
  <2> QED BY <2>1, <2>2, <2>3, <2>4
<1>16. /\ \A i \in 0 .. 2 : new[end + i].kind = "StuffCnt"
       /\ new[end + 3].kind = "StuffParity" /\ new[end + 4].kind = "Crc"
  BY <1>14, <1>15
<1>17. \A j \in 1 .. Len(out) : out[j].kind \in HeadKinds
  <2>1. ASSUME NEW i \in 1 .. n
        PROVE  frame[i + 1].kind \in HeadKinds
    <3>1. i + 1 \in 1 .. HeadLen
      BY <1>2, <1>3
    <3> QED BY <3>1 DEF FreshKinds
  <2>2. n < Len(frame) /\ n \in 0 .. n
    BY <1>2, <1>3
  <2>3. IsTrace(trace, NormalStep(frame, n), StuffFirst, n, UnfixedBits, StuffAcc)
    BY <1>3 DEF NormallyStuffed
  <2>4. \A j \in 1 .. Len(trace[n].out) : trace[n].out[j].kind \in HeadKinds
    BY <1>1, <2>1, <2>2, <2>3, NormalKinds
  <2> QED BY <1>5, <2>4
<1>18. ASSUME NEW j \in 1 .. end - 1
       PROVE  new[j].kind \in HeadKinds
  <2>1. CASE j = 1
    <3>1. 1 \in 1 .. HeadLen
      BY <1>2
    <3>2. frame[1].kind \in HeadKinds
      BY <3>1 DEF FreshKinds
    <3> QED BY <1>11, <2>1, <3>2
  <2>2. CASE j # 1
    <3>1. PICK l \in 1 .. Len(out) : 1 + l = j
      <4>1. j - 1 \in 1 .. Len(out) /\ 1 + (j - 1) = j
        BY <1>6, <1>10, <2>2
      <4> QED BY <4>1
    <3> QED BY <1>11, <1>17, <3>1
  <2> QED BY <2>1, <2>2
<1>19. NoneBefore(end, {"StuffCnt", "StuffParity", "Crc"}, new)
  <2>1. HeadKinds \cap {"StuffCnt", "StuffParity", "Crc"} = {}
    BY DEF HeadKinds
  <2> QED BY <1>18, <2>1 DEF NoneBefore
<1>20. end \in 2 .. Len(new) /\ end + 4 <= Len(new)
  BY <1>2, <1>6, <1>10, <1>12
<1>21. ReadyToCount(new, frame, end)
  BY <1>11, <1>12, <1>13, <1>16, <1>18, <1>19, <1>20 DEF ReadyToCount
<1>22. InsertNormalStuffBits(frame).cnt = trace[n].acc.cnt
  BY <1>3 DEF NormallyStuffed
<1>23. trace[n].acc.cnt \in 0 .. 7
  BY <1>4 DEF Result, StuffAcc
<1> QED BY <1>3, <1>5, <1>7, <1>9, <1>10, <1>21, <1>22, <1>23

\* A frame of which the CRC begins in position p and is that of another, as all that
\* follows it: what the CRC is calculated from.
Sourced(new, frame, p) ==
  /\ new \in Seq(BitType) /\ p \in Nat /\ p > 1 /\ FirstOf(new, "Crc") = p
  /\ Len(new) = (p - 1) + (Len(frame) - First(content))
  /\ \A j \in 1 .. Len(frame) - First(content) : new[(p - 1) + j] = frame[First(content) + j]
  /\ \A j \in 1 .. p - 1 : new[j].kind \notin {"Crc", "CrcDelim"}

\* The bits of a frame whose stuff count has been written.
AroundCount(new, set, end, first, second) ==
  /\ new \in Seq(BitType) /\ Len(new) = Len(set) + 2
  /\ \A j \in 1 .. end - 1 : new[j] = set[j]
  /\ new[end] = first
  /\ \A j \in end .. end + 3 : new[j + 1] = set[j]
  /\ new[end + 5] = second
  /\ \A j \in end + 4 .. Len(set) : new[j + 2] = set[j]

\* They are those it has had, with a stuff bit on either side of the count.
LEMMA StuffedAround ==
  ASSUME NEW set \in Seq(BitType), NEW end \in Nat, end > 1, end + 4 <= Len(set),
         NEW first \in BitType, NEW second \in BitType, NEW new,
         WithStuffAround(new, set, end, first, second)
  PROVE  AroundCount(new, set, end, first, second)
<1>1. Len(set) \in Nat
  OBVIOUS
<1>2. PICK mid : mid = InsertBit(set, end + 4, second)
  OBVIOUS
<1>3. /\ mid \in Seq(BitType) /\ Len(mid) = Len(set) + 1
      /\ \A j \in 1 .. Len(set) + 1 :
           mid[j] = IF j < end + 4 THEN set[j] ELSE IF j = end + 4 THEN second ELSE set[j - 1]
  <2>1. end + 4 \in 1 .. Len(set) + 1
    BY <1>1
  <2>2. InsertedAt(mid, set, end + 4, second)
    BY <1>2, <2>1, Inserted
  <2> QED BY <2>2 DEF InsertedAt
<1>4. /\ new \in Seq(BitType) /\ Len(new) = Len(mid) + 1
      /\ \A j \in 1 .. Len(mid) + 1 :
           new[j] = IF j < end THEN mid[j] ELSE IF j = end THEN first ELSE mid[j - 1]
  <2>1. end \in 1 .. Len(mid) + 1
    BY <1>1, <1>3
  <2>2. new = InsertBit(mid, end, first)
    BY <1>2 DEF WithStuffAround
  <2>3. InsertedAt(new, mid, end, first)
    BY <1>3, <2>1, <2>2, Inserted
  <2> QED BY <2>3 DEF InsertedAt
<1>5. ASSUME NEW j \in 1 .. end - 1
      PROVE  new[j] = set[j]
  <2>1. j \in 1 .. Len(mid) + 1 /\ j \in 1 .. Len(set) + 1 /\ j < end /\ j < end + 4
    BY <1>1, <1>3
  <2>2. new[j] = mid[j]
    BY <1>4, <2>1
  <2>3. mid[j] = set[j]
    BY <1>3, <2>1
  <2> QED BY <2>2, <2>3
<1>6. new[end] = first
  <2>1. end \in 1 .. Len(mid) + 1 /\ ~(end < end)
    BY <1>1, <1>3
  <2> QED BY <1>4, <2>1
<1>7. ASSUME NEW j \in end .. end + 3
      PROVE  new[j + 1] = set[j]
  <2>1. j \in Nat /\ j + 1 \in 1 .. Len(mid) + 1 /\ j \in 1 .. Len(set) + 1 /\ ~(j + 1 < end)
        /\ j + 1 # end /\ (j + 1) - 1 = j /\ j < end + 4
    BY <1>1, <1>3
  <2>2. new[j + 1] = mid[j]
    BY <1>4, <2>1
  <2>3. mid[j] = set[j]
    BY <1>3, <2>1
  <2> QED BY <2>2, <2>3
<1>8. new[end + 5] = second
  <2>1. end + 5 \in 1 .. Len(mid) + 1 /\ end + 4 \in 1 .. Len(set) + 1 /\ ~(end + 5 < end)
        /\ end + 5 # end /\ (end + 5) - 1 = end + 4 /\ ~(end + 4 < end + 4)
    BY <1>1, <1>3
  <2>2. new[end + 5] = mid[end + 4]
    BY <1>4, <2>1
  <2>3. mid[end + 4] = second
    BY <1>3, <2>1
  <2> QED BY <2>2, <2>3
<1>9. ASSUME NEW j \in end + 4 .. Len(set)
      PROVE  new[j + 2] = set[j]
  <2>1. j \in Nat /\ j + 2 \in 1 .. Len(mid) + 1 /\ j + 1 \in 1 .. Len(set) + 1 /\ ~(j + 2 < end)
        /\ j + 2 # end /\ (j + 2) - 1 = j + 1 /\ ~(j + 1 < end + 4) /\ j + 1 # end + 4
        /\ (j + 1) - 1 = j
    BY <1>1, <1>3
  <2>2. new[j + 2] = mid[j + 1]
    BY <1>4, <2>1
  <2>3. mid[j + 1] = set[j]
    BY <1>3, <2>1
  <2> QED BY <2>2, <2>3
<1>10. Len(new) = Len(set) + 2
  BY <1>1, <1>3, <1>4
<1> QED BY <1>4, <1>5, <1>6, <1>7, <1>8, <1>9, <1>10 DEF AroundCount

\* Behind the count the CRC begins.
LEMMA CountedSource ==
  ASSUME TypeInv, ~IsCan20, NEW frame, FreshKinds(frame), NEW new, NEW end, ReadyToCount(new, frame, end),
         NEW cnt, NEW set \in Seq(BitType), NEW first \in BitType, NEW second \in BitType,
         CountSet(set, new, end, cnt), NEW source, WithStuffAround(source, set, end, first, second)
  PROVE  Sourced(source, frame, end + 6) /\ AroundCount(source, set, end, first, second)
<1>1. /\ HeadLen \in Nat /\ HeadLen > 1 /\ First(content) = HeadLen + 4
      /\ Len(frame) = Len(Built) /\ Len(Built) \in Nat /\ GoldenCrcLen \in {15, 17, 21}
      /\ Len(Built) > First(content) + GoldenCrcLen + 1
  BY HeadIsLong, Sizes DEF FreshKinds
<1>2. /\ end \in Nat /\ end > 1 /\ end + 4 <= Len(new) /\ Len(new) \in Nat /\ new \in Seq(BitType)
      /\ Len(new) = (end - 1) + (Len(frame) - HeadLen)
  BY DEF ReadyToCount
<1>3. Len(set) = Len(new)
  BY DEF CountSet, SameShape
<1>4. AroundCount(source, set, end, first, second)
  BY <1>2, <1>3, StuffedAround
<1>5. \A j \in 1 .. Len(new) : set[j].kind = new[j].kind
  BY DEF CountSet, SameShape
<1>6. ASSUME NEW j \in end + 4 .. Len(new)
      PROVE  set[j] = new[j]
  <2>1. j \in 1 .. Len(new)
    BY <1>2
  <2>2. set[j].kind = new[j].kind /\ set[j].stuff = new[j].stuff /\ set[j].val = new[j].val
    BY <2>1 DEF CountSet, SameShape
  <2>3. set[j] \in BitType /\ new[j] \in BitType
    BY <1>2, <1>3, <2>1
  <2> QED BY <2>2, <2>3, SameBit
<1>7. PICK p \in Nat : p = end + 6
  BY <1>2
<1>8. Len(source) = (p - 1) + (Len(frame) - First(content))
  <2>1. Len(source) = Len(set) + 2
    BY <1>4 DEF AroundCount
  <2> QED BY <1>1, <1>2, <1>3, <1>7, <2>1
<1>9. ASSUME NEW j \in 1 .. Len(frame) - First(content)
      PROVE  source[(p - 1) + j] = frame[First(content) + j]
  <2>1. PICK i \in Nat : i = (end + 3) + j
    BY <1>2
  <2>2. i \in end + 4 .. Len(set) /\ i + 2 = (p - 1) + j
    BY <1>1, <1>2, <1>3, <1>7, <2>1
  <2>3. source[i + 2] = set[i]
    BY <1>4, <2>2 DEF AroundCount
  <2>4. set[i] = new[i]
    BY <1>3, <1>6, <2>2
  <2>5. First(content) + j \in HeadLen + 1 .. Len(frame)
        /\ ((First(content) + j) - HeadLen) + (end - 1) = i
    BY <1>1, <1>2, <2>1
  <2>6. new[i] = frame[First(content) + j]
    BY <2>5 DEF ReadyToCount
  <2> QED BY <2>2, <2>3, <2>4, <2>6
<1>10. ASSUME NEW j \in 1 .. p - 1
       PROVE  source[j].kind \notin {"Crc", "CrcDelim"}
  <2>1. CASE j < end
    <3>1. j \in 1 .. end - 1 /\ j \in 1 .. Len(new)
      BY <1>2, <2>1
    <3>2. source[j] = set[j]
      BY <1>4, <3>1 DEF AroundCount
    <3>3. new[j].kind \in HeadKinds
      BY <3>1 DEF ReadyToCount
    <3>4. source[j].kind \in HeadKinds
      BY <1>5, <3>1, <3>2, <3>3
    <3> QED BY <3>4 DEF HeadKinds
  <2>2. CASE j = end
    <3>1. source[j] = first
      BY <1>4, <2>2 DEF AroundCount
    <3>2. first.kind = "StuffCnt"
      BY DEF WithStuffAround, Bit
    <3> QED BY <3>1, <3>2
  <2>3. CASE j > end /\ j < end + 5
    <3>1. PICK i \in 0 .. 3 : j = (end + i) + 1
      <4>1. (j - end) - 1 \in 0 .. 3 /\ j = (end + ((j - end) - 1)) + 1
        BY <1>2, <2>3
      <4> QED BY <4>1
    <3>2. end + i \in end .. end + 3 /\ end + i \in 1 .. Len(new)
      BY <1>2
    <3>3. source[j] = set[end + i]
      BY <1>4, <3>1, <3>2 DEF AroundCount
    <3>4. set[end + i].kind = new[end + i].kind
      BY <1>5, <3>2
    <3>5. i \in 0 .. 2 \/ i = 3
      OBVIOUS
    <3>6. new[end + i].kind \in {"StuffCnt", "StuffParity"}
      BY <3>5 DEF ReadyToCount
    <3> QED BY <3>3, <3>4, <3>6
  <2>4. CASE j = end + 5
    <3>1. source[j] = second
      BY <1>4, <2>4 DEF AroundCount
    <3>2. second.kind = "StuffParity"
      BY DEF WithStuffAround, Bit
    <3> QED BY <3>1, <3>2
  <2> QED BY <1>2, <1>7, <2>1, <2>2, <2>3, <2>4
<1>11. FirstOf(source, "Crc") = p
  <2>1. p \in 1 .. Len(source)
    BY <1>1, <1>2, <1>7, <1>8
  <2>2. source \in Seq(BitType)
    BY <1>4 DEF AroundCount
  <2>3. source[p].kind = "Crc"
    <3>1. 1 \in 1 .. Len(frame) - First(content) /\ (p - 1) + 1 = p /\ 1 \in 1 .. GoldenCrcLen
      BY <1>1, <1>7
    <3>2. source[p] = frame[First(content) + 1]
      BY <1>9, <3>1
    <3>3. frame[First(content) + 1].kind = "Crc"
      BY <3>1 DEF FreshKinds
    <3> QED BY <3>2, <3>3
  <2>4. NoneBefore(p, {"Crc"}, source)
    BY <1>10 DEF NoneBefore
  <2> QED BY <2>1, <2>2, <2>3, <2>4, FoundFirst
<1>12. p > 1 /\ source \in Seq(BitType)
  BY <1>2, <1>4, <1>7 DEF AroundCount
<1> QED BY <1>4, <1>7, <1>8, <1>9, <1>10, <1>11, <1>12 DEF Sourced

\* Regular stuffing of frames that are alike, in the same way, leaves them alike.
LEMMA AlikeWoven ==
  ASSUME NEW frame \in Seq(BitType), NEW other \in Seq(BitType), NEW h \in Nat, h > 1, h < Len(frame),
         NEW m \in Nat, Alike(frame, other, h + 1, m), NEW out \in Seq(BitType),
         NEW one, NEW two, SoFar(one, frame, 2, out, h - 1), SoFar(two, other, 2, out, h - 1)
  PROVE  Alike(one, two, 2 + Len(out), m)
<1>1. Len(frame) \in Nat /\ Len(out) \in Nat /\ Len(other) = Len(frame)
  BY DEF Alike, SameShape
<1>2. /\ Len(one) = Len(out) + (Len(frame) - (h - 1)) /\ Len(two) = Len(one)
      /\ one[1] = frame[1] /\ two[1] = other[1]
      /\ \A j \in 1 .. Len(out) : one[1 + j] = out[j] /\ two[1 + j] = out[j]
      /\ \A j \in 2 + (h - 1) .. Len(frame) : /\ one[(j - (h - 1)) + Len(out)] = frame[j]
                                              /\ two[(j - (h - 1)) + Len(out)] = other[j]
  <2>1. 2 - 1 = 1 /\ 1 \in 1 .. 2 - 1
    OBVIOUS
  <2> QED BY <1>1, <2>1 DEF SoFar
<1>3. ASSUME NEW j \in 1 .. Len(one)
      PROVE  /\ two[j].kind = one[j].kind /\ two[j].stuff = one[j].stuff
             /\ j \notin 2 + Len(out) .. (2 + Len(out)) + m - 1 => two[j].val = one[j].val
  <2>1. CASE j = 1
    <3>1. 1 \in 1 .. Len(frame) /\ 1 \notin h + 1 .. (h + 1) + m - 1
      BY <1>1
    <3>2. other[1].kind = frame[1].kind /\ other[1].stuff = frame[1].stuff /\ other[1].val = frame[1].val
      BY <3>1 DEF Alike, SameShape
    <3> QED BY <1>2, <2>1, <3>2
  <2>2. CASE j > 1 /\ j < 2 + Len(out)
    <3>1. PICK l \in 1 .. Len(out) : 1 + l = j
      <4>1. j - 1 \in 1 .. Len(out) /\ 1 + (j - 1) = j
        BY <1>1, <2>2
      <4> QED BY <4>1
    <3>2. one[1 + l] = out[l] /\ two[1 + l] = out[l]
      BY <1>2
    <3> QED BY <3>1, <3>2
  <2>3. CASE j >= 2 + Len(out)
    <3>1. PICK l \in Nat : l = (j - Len(out)) + (h - 1)
      <4>1. j - Len(out) \in Nat /\ h - 1 \in Nat
        BY <1>1, <2>3
      <4>2. (j - Len(out)) + (h - 1) \in Nat
        BY <4>1
      <4> QED BY <4>2
    <3>2. Len(one) \in Nat /\ j <= Len(out) + (Len(frame) - (h - 1))
      BY <1>1, <1>2
    <3>3. l \in 2 + (h - 1) .. Len(frame) /\ (l - (h - 1)) + Len(out) = j /\ l \in 1 .. Len(frame)
      BY <1>1, <2>3, <3>1, <3>2
    <3>4. one[j] = frame[l] /\ two[j] = other[l]
      BY <1>2, <3>3
    <3>5. other[l].kind = frame[l].kind /\ other[l].stuff = frame[l].stuff
      BY <3>3 DEF Alike, SameShape
    <3>6. ASSUME j \notin 2 + Len(out) .. (2 + Len(out)) + m - 1
          PROVE  other[l].val = frame[l].val
      <4>1. j > (2 + Len(out)) + m - 1
        BY <1>1, <2>3, <3>6
      <4>2. l > (h + 1) + m - 1
        BY <1>1, <3>1, <4>1
      <4>3. l \notin h + 1 .. (h + 1) + m - 1
        BY <4>2
      <4> QED BY <3>3, <4>3 DEF Alike
    <3> QED BY <3>4, <3>5, <3>6
  <2> QED BY <1>1, <2>1, <2>2, <2>3
<1>4. SameShape(one, two)
  BY <1>2, <1>3 DEF SameShape
<1> QED BY <1>3, <1>4 DEF Alike

\* So does writing the same stuff count, which is then no difference any more.
LEMMA AlikeCounted ==
  ASSUME NEW frame \in Seq(BitType), NEW other \in Seq(BitType), NEW end \in Nat, end > 1,
         end + 4 <= Len(frame), NEW n \in Nat, Alike(frame, other, end, 4 + n), NEW cnt,
         NEW set \in Seq(BitType), NEW first \in BitType, NEW second \in BitType,
         NEW set2 \in Seq(BitType), NEW first2 \in BitType, NEW second2 \in BitType,
         CountSet(set, frame, end, cnt), CountSet(set2, other, end, cnt),
         NEW one, WithStuffAround(one, set, end, first, second),
         NEW two, WithStuffAround(two, set2, end, first2, second2)
  PROVE  Alike(one, two, end + 6, n)
<1>1. Len(frame) \in Nat /\ Len(other) = Len(frame) /\ Len(set) = Len(frame) /\ Len(set2) = Len(frame)
  BY DEF Alike, SameShape, CountSet
<1>2. ASSUME NEW j \in 1 .. Len(frame)
      PROVE  /\ set2[j].kind = set[j].kind /\ set2[j].stuff = set[j].stuff
             /\ j \notin end + 4 .. (end + 4) + n - 1 => set2[j].val = set[j].val
  <2>1. set2[j].kind = set[j].kind /\ set2[j].stuff = set[j].stuff
    <3>1. set[j].kind = frame[j].kind /\ set[j].stuff = frame[j].stuff
      BY DEF CountSet, SameShape
    <3>2. set2[j].kind = other[j].kind /\ set2[j].stuff = other[j].stuff
      BY <1>1 DEF CountSet, SameShape
    <3>3. other[j].kind = frame[j].kind /\ other[j].stuff = frame[j].stuff
      BY DEF Alike, SameShape
    <3> QED BY <3>1, <3>2, <3>3
  <2>2. CASE j < end
    <3>1. j \in 1 .. end - 1 /\ j \notin end .. end + (4 + n) - 1
      BY <2>2
    <3>2. set[j].val = frame[j].val /\ set2[j].val = other[j].val
      BY <3>1 DEF CountSet
    <3>3. other[j].val = frame[j].val
      BY <3>1 DEF Alike
    <3> QED BY <2>1, <3>2, <3>3
  <2>3. CASE j >= end /\ j < end + 3
    <3>1. PICK i \in 0 .. 2 : end + i = j
      <4>1. j - end \in 0 .. 2 /\ end + (j - end) = j
        BY <2>3
      <4> QED BY <4>1
    <3>2. set[end + i].val = StuffCntEncoded(cnt)[i + 1] /\ set2[end + i].val = StuffCntEncoded(cnt)[i + 1]
      BY DEF CountSet
    <3> QED BY <2>1, <3>1, <3>2
  <2>4. CASE j = end + 3
    <3>1. set[end + 3].val = EvenParity(StuffCntEncoded(cnt)) /\ set2[end + 3].val = EvenParity(StuffCntEncoded(cnt))
      BY DEF CountSet
    <3> QED BY <2>1, <2>4, <3>1
  <2>5. CASE j >= end + 4
    <3>1. j \in end + 4 .. Len(frame) /\ j \in end + 4 .. Len(other)
      BY <1>1, <2>5
    <3>2. set[j].val = frame[j].val /\ set2[j].val = other[j].val
      BY <3>1 DEF CountSet
    <3>3. ASSUME j \notin end + 4 .. (end + 4) + n - 1
          PROVE  other[j].val = frame[j].val
      <4>1. j \notin end .. end + (4 + n) - 1
        BY <2>5, <3>3
      <4> QED BY <4>1 DEF Alike
    <3> QED BY <2>1, <3>2, <3>3
  <2> QED BY <2>2, <2>3, <2>4, <2>5
<1>3. Alike(set, set2, end + 4, n)
  BY <1>1, <1>2 DEF Alike, SameShape
<1>4. second2 = second
  <2>1. end + 3 \in 1 .. Len(frame) /\ end + 3 \notin end + 4 .. (end + 4) + n - 1
    BY <1>1
  <2>2. set2[end + 3].val = set[end + 3].val
    BY <1>2, <2>1
  <2> QED BY <2>2 DEF WithStuffAround
<1>5. first2 = first
  <2>1. end - 1 \in 1 .. Len(frame) /\ end - 1 \notin end + 4 .. (end + 4) + n - 1
    BY <1>1
  <2>2. set2[end - 1].val = set[end - 1].val
    BY <1>2, <2>1
  <2> QED BY <2>2 DEF WithStuffAround
<1>6. PICK p \in Nat : p = end + 4
  OBVIOUS
<1>7. PICK mid, mid2 : mid = InsertBit(set, p, second) /\ mid2 = InsertBit(set2, p, second)
  OBVIOUS
<1>8. Alike(mid, mid2, p + 1, n) /\ mid \in Seq(BitType) /\ mid2 \in Seq(BitType)
  <2>1. Alike(set, set2, p, n) /\ p \in 1 .. Len(set) + 1 /\ p <= p
    BY <1>1, <1>3, <1>6
  <2> QED BY <1>7, <2>1, AlikeInserted
<1>9. PICK q \in Nat : q = p + 1
  OBVIOUS
<1>10. Len(mid) = Len(set) + 1
  <2>1. p \in 1 .. Len(set) + 1
    BY <1>1, <1>6
  <2>2. InsertedAt(mid, set, p, second)
    BY <1>7, <2>1, Inserted
  <2> QED BY <2>2 DEF InsertedAt
<1>11. Alike(InsertBit(mid, end, first), InsertBit(mid2, end, first), q + 1, n)
  <2>1. Alike(mid, mid2, q, n) /\ end \in 1 .. Len(mid) + 1 /\ end <= q
    BY <1>1, <1>6, <1>8, <1>9, <1>10
  <2> QED BY <1>8, <2>1, AlikeInserted
<1>12. one = InsertBit(mid, end, first) /\ two = InsertBit(mid2, end, first)
  BY <1>4, <1>5, <1>6, <1>7 DEF WithStuffAround
<1>13. q + 1 = end + 6
  BY <1>6, <1>9
<1> QED BY <1>11, <1>12, <1>13

\* The frame from which the CRC is calculated.
CrcSource(frame) == IF IsCan20 THEN frame ELSE UpdateStuffCnt(InsertNormalStuffBits(frame))

\* In it, the CRC is where the loops look for it.
LEMMA SourceFound ==
  ASSUME TypeInv, NEW frame, FreshKinds(frame)
  PROVE  Sourced(CrcSource(frame), frame, FirstOf(CrcSource(frame), "Crc"))
<1>1. /\ HeadLen \in Nat /\ HeadLen > 1 /\ First(content) = HeadLen + (IF IsCan20 THEN 0 ELSE 4)
      /\ Len(frame) = Len(Built) /\ Len(Built) \in Nat /\ GoldenCrcLen \in {15, 17, 21}
      /\ Len(Built) > First(content) + GoldenCrcLen + 1 /\ frame \in Seq(BitType)
  BY HeadIsLong, Sizes DEF FreshKinds
<1>2. CASE IsCan20
  <2>1. PICK p \in 1 .. Len(frame) : p = HeadLen + 1
    <3>1. HeadLen + 1 \in 1 .. Len(frame)
      BY <1>1, <1>2
    <3> QED BY <3>1
  <2>2. First(content) = p - 1 /\ p - 1 = HeadLen
    BY <1>1, <1>2, <2>1
  <2>3. frame[p].kind = "Crc"
    <3>1. 1 \in 1 .. GoldenCrcLen /\ First(content) + 1 = p
      BY <1>1, <2>2
    <3> QED BY <3>1 DEF FreshKinds
  <2>4. ASSUME NEW j \in 1 .. p - 1
        PROVE  frame[j].kind \notin {"Crc", "CrcDelim"}
    <3>1. frame[j].kind \in HeadKinds
      BY <2>2 DEF FreshKinds
    <3> QED BY <3>1 DEF HeadKinds
  <2>5. FirstOf(frame, "Crc") = p
    <3>1. NoneBefore(p, {"Crc"}, frame)
      BY <2>4 DEF NoneBefore
    <3> QED BY <1>1, <2>3, <3>1, FoundFirst
  <2>6. Len(frame) = (p - 1) + (Len(frame) - First(content)) /\ p > 1 /\ p \in Nat
    BY <1>1, <2>1, <2>2
  <2>7. \A j \in 1 .. Len(frame) - First(content) : frame[(p - 1) + j] = frame[First(content) + j]
    BY <2>2
  <2>8. Sourced(frame, frame, p)
    BY <1>1, <2>4, <2>5, <2>6, <2>7 DEF Sourced
  <2> QED BY <1>2, <2>5, <2>8 DEF CrcSource
<1>3. CASE ~IsCan20
  <2>1. PICK trace : NormallyStuffed(trace, frame)
    BY <1>3, NormalOf
  <2>2. PICK new, cnt, end : /\ new = InsertNormalStuffBits(frame).bits
                             /\ cnt = InsertNormalStuffBits(frame).cnt
                             /\ end = 2 + Len(trace[HeadLen - 1].out)
    OBVIOUS
  <2>3. ReadyToCount(new, frame, end) /\ cnt \in 0 .. 7
    BY <1>3, <2>1, <2>2, StuffedReady
  <2>4. InsertNormalStuffBits(frame) = [bits |-> new, cnt |-> cnt]
    BY <2>1, <2>2 DEF NormallyStuffed
  <2>5. PICK set \in Seq(BitType), first \in BitType, second \in BitType :
          /\ CountSet(set, new, end, cnt)
          /\ WithStuffAround(UpdateStuffCnt([bits |-> new, cnt |-> cnt]), set, end, first, second)
    BY <2>3, WrittenCount DEF ReadyToCount
  <2>6. PICK source : source = CrcSource(frame)
    OBVIOUS
  <2>7. WithStuffAround(source, set, end, first, second)
    BY <1>3, <2>4, <2>5, <2>6 DEF CrcSource
  <2>8. Sourced(source, frame, end + 6)
    BY <1>3, <2>3, <2>5, <2>7, CountedSource
  <2>9. FirstOf(source, "Crc") = end + 6
    BY <2>8 DEF Sourced
  <2> QED BY <2>6, <2>8, <2>9
<1> QED BY <1>2, <1>3

\* Frames that are alike but for the stuff count and some bits of the CRC differ in
\* those bits only, when the stuff count has been written.
LEMMA SourcesAlike ==
  ASSUME TypeInv, NEW frame, FreshKinds(frame), NEW other, FreshKinds(other), NEW n \in Nat,
         Alike(frame, other, HeadLen + 1, (First(content) - HeadLen) + n)
  PROVE  Alike(CrcSource(frame), CrcSource(other), FirstOf(CrcSource(frame), "Crc"), n)
<1>1. /\ HeadLen \in Nat /\ HeadLen > 1 /\ First(content) = HeadLen + (IF IsCan20 THEN 0 ELSE 4)
      /\ Len(frame) = Len(Built) /\ Len(Built) \in Nat /\ GoldenCrcLen \in {15, 17, 21}
      /\ Len(Built) > First(content) + GoldenCrcLen + 1 /\ frame \in Seq(BitType) /\ other \in Seq(BitType)
  BY HeadIsLong, Sizes DEF FreshKinds
<1>2. CASE IsCan20
  <2>1. Sourced(frame, frame, FirstOf(frame, "Crc"))
    BY <1>2, SourceFound DEF CrcSource
  <2>2. FirstOf(frame, "Crc") = HeadLen + 1
    <3>1. First(content) = HeadLen
      BY <1>1, <1>2
    <3>2. PICK p \in Nat : p = FirstOf(frame, "Crc")
      BY <2>1 DEF Sourced
    <3>3. Len(frame) = (p - 1) + (Len(frame) - HeadLen)
      BY <2>1, <3>1, <3>2 DEF Sourced
    <3>4. p = HeadLen + 1
      BY <1>1, <3>3
    <3> QED BY <3>2, <3>4
  <2>3. (First(content) - HeadLen) + n = n
    BY <1>1, <1>2
  <2> QED BY <1>2, <2>2, <2>3 DEF CrcSource
<1>3. CASE ~IsCan20
  <2>1. PICK trace : NormallyStuffed(trace, frame)
    BY <1>3, NormalOf
  <2>2. PICK trace2 : NormallyStuffed(trace2, other)
    BY <1>3, NormalOf
  <2>3. (First(content) - HeadLen) + n = 4 + n
    BY <1>1, <1>3
  <2>4. PICK h \in Nat : h = HeadLen - 1
    BY <1>1
  <2>5. ASSUME NEW k \in 1 .. h, NEW acc \in StuffAcc
        PROVE  NormalStep(frame, h)[k][acc] = NormalStep(other, h)[k][acc]
    <3>1. PICK i \in Nat : i = k + 1
      OBVIOUS
    <3>2. i \in 1 .. Len(frame) /\ i + 1 \in 1 .. Len(frame) /\ i \notin HeadLen + 1 .. (HeadLen + 1) + (4 + n) - 1
      BY <1>1, <2>4, <3>1
    <3>3. other[i].val = frame[i].val
      BY <2>3, <3>2 DEF Alike
    <3>4. other[i].kind = frame[i].kind /\ other[i].stuff = frame[i].stuff
          /\ other[i + 1].kind = frame[i + 1].kind
      BY <3>2 DEF Alike, SameShape
    <3>5. other[i] = frame[i]
      <4>1. frame[i] \in BitType /\ other[i] \in BitType
        BY <1>1, <3>2 DEF Alike, SameShape
      <4> QED BY <3>3, <3>4, <4>1, SameBit
    <3>6. StuffsAfter(other, i) = StuffsAfter(frame, i)
      BY <3>4 DEF StuffsAfter
    <3>7. StuffStep(frame, acc, i) = StuffStep(other, acc, i)
      BY <3>5, <3>6 DEF StuffStep
    <3> QED BY <3>1, <3>7 DEF NormalStep
  <2>6. SameRounds(NormalStep(frame, h), NormalStep(other, h), h, StuffAcc)
    BY <2>5 DEF SameRounds
  <2>7. trace[h] = trace2[h]
    <3>1. IsTrace(trace, NormalStep(frame, h), StuffFirst, h, UnfixedBits, StuffAcc)
          /\ IsTrace(trace2, NormalStep(other, h), StuffFirst, h, UnfixedBits, StuffAcc)
      BY <2>1, <2>2, <2>4 DEF NormallyStuffed
    <3>2. h <= h /\ h \in 0 .. h
      OBVIOUS
    <3>3. \A k \in 0 .. h : trace[k] = trace2[k]
      BY <2>6, <3>1, <3>2, SameTrace
    <3> QED BY <3>2, <3>3
  <2>8. PICK out \in Seq(UnfixedBits) : out = trace[h].out
    <3>1. h \in 0 .. h
      OBVIOUS
    <3> QED BY <2>1, <2>4, <3>1 DEF NormallyStuffed, IsTrace, Result
  <2>9. PICK new, new2, cnt, end : /\ new = InsertNormalStuffBits(frame).bits
                                   /\ new2 = InsertNormalStuffBits(other).bits
                                   /\ cnt = InsertNormalStuffBits(frame).cnt
                                   /\ end = 2 + Len(out)
    OBVIOUS
  <2>10. ReadyToCount(new, frame, end) /\ cnt \in 0 .. 7 /\ SoFar(new, frame, 2, out, HeadLen - 1)
    BY <1>3, <2>1, <2>4, <2>8, <2>9, StuffedReady
  <2>11. ReadyToCount(new2, other, end) /\ SoFar(new2, other, 2, out, HeadLen - 1)
         /\ InsertNormalStuffBits(other).cnt = trace2[HeadLen - 1].acc.cnt
    BY <1>3, <2>2, <2>4, <2>7, <2>8, <2>9, StuffedReady
  <2>12. InsertNormalStuffBits(frame) = [bits |-> new, cnt |-> cnt]
         /\ InsertNormalStuffBits(other) = [bits |-> new2, cnt |-> cnt]
    BY <2>1, <2>2, <2>4, <2>7, <2>9 DEF NormallyStuffed
  <2>13. PICK set \in Seq(BitType), first \in BitType, second \in BitType :
           /\ CountSet(set, new, end, cnt)
           /\ WithStuffAround(UpdateStuffCnt([bits |-> new, cnt |-> cnt]), set, end, first, second)
    BY <2>10, WrittenCount DEF ReadyToCount
  <2>14. PICK set2 \in Seq(BitType), first2 \in BitType, second2 \in BitType :
           /\ CountSet(set2, new2, end, cnt)
           /\ WithStuffAround(UpdateStuffCnt([bits |-> new2, cnt |-> cnt]), set2, end, first2, second2)
    BY <2>10, <2>11, WrittenCount DEF ReadyToCount
  <2>15. PICK one, two : one = CrcSource(frame) /\ two = CrcSource(other)
    OBVIOUS
  <2>16. WithStuffAround(one, set, end, first, second) /\ WithStuffAround(two, set2, end, first2, second2)
    BY <1>3, <2>12, <2>13, <2>14, <2>15 DEF CrcSource
  <2>17. Alike(new, new2, end, 4 + n)
    <3>1. PICK m \in Nat : m = 4 + n
      OBVIOUS
    <3>2. Alike(frame, other, HeadLen + 1, m) /\ HeadLen < Len(frame)
      BY <1>1, <2>3, <3>1
    <3>3. out \in Seq(BitType)
      BY UnfixedAreBits
    <3>4. Alike(new, new2, 2 + Len(out), m)
      BY <1>1, <2>10, <2>11, <3>2, <3>3, AlikeWoven
    <3> QED BY <2>9, <3>1, <3>4
  <2>18. /\ new \in Seq(BitType) /\ new2 \in Seq(BitType) /\ end \in Nat /\ end > 1
         /\ end + 4 <= Len(new)
    BY <2>10, <2>11 DEF ReadyToCount
  <2>19. Alike(one, two, end + 6, n)
    BY <2>13, <2>14, <2>16, <2>17, <2>18, AlikeCounted
  <2>20. Sourced(one, frame, end + 6)
    BY <1>3, <2>10, <2>13, <2>16, CountedSource
  <2>21. FirstOf(one, "Crc") = end + 6
    BY <2>20 DEF Sourced
  <2> QED BY <2>15, <2>19, <2>21
<1> QED BY <1>2, <1>3

-----------------------------------------------------------------------------
(* The frame a pass of the loops is to make.                               *)

\* Frames without stuff bits differ in the stuff count and the CRC, and if they have the
\* same CRC in the stuff count only.
LEMMA AlikeBoth ==
  ASSUME TypeInv, NEW one, Fresh(one), NEW two, Fresh(two)
  PROVE  /\ Alike(one, two, HeadLen + 1, (First(content) - HeadLen) + GoldenCrcLen)
         /\ (\A j \in 1 .. GoldenCrcLen : two[First(content) + j].val = one[First(content) + j].val)
              => Alike(one, two, HeadLen + 1, (First(content) - HeadLen) + 0)
<1>1. /\ HeadLen \in Nat /\ GoldenCrcLen \in Nat /\ First(content) \in Nat /\ First(content) >= HeadLen
      /\ Len(Built) \in Nat
  BY Sizes
<1>2. PICK n \in Nat : n = First(content) - HeadLen
  BY <1>1
<1>3. /\ SameShape(Built, one) /\ SameShape(Built, two)
      /\ \A j \in 1 .. Len(Built) : j \notin HeadLen + 1 .. HeadLen + 1 + (n + GoldenCrcLen) - 1
           => one[j].val = Built[j].val /\ two[j].val = Built[j].val
  BY <1>2 DEF Fresh, Alike
<1>4. SameShape(one, two) /\ Len(one) = Len(Built)
  BY <1>3 DEF SameShape
<1>5. \A j \in 1 .. Len(one) : j \notin HeadLen + 1 .. HeadLen + 1 + (n + GoldenCrcLen) - 1
           => two[j].val = one[j].val
  BY <1>3, <1>4
<1>6. ASSUME \A j \in 1 .. GoldenCrcLen : two[First(content) + j].val = one[First(content) + j].val,
             NEW j \in 1 .. Len(one), j \notin HeadLen + 1 .. HeadLen + 1 + (n + 0) - 1
      PROVE  two[j].val = one[j].val
  <2>1. CASE j \notin HeadLen + 1 .. HeadLen + 1 + (n + GoldenCrcLen) - 1
    BY <1>5, <2>1
  <2>2. CASE j \in HeadLen + 1 .. HeadLen + 1 + (n + GoldenCrcLen) - 1
    <3>1. j - First(content) \in 1 .. GoldenCrcLen /\ First(content) + (j - First(content)) = j
      <4>1. PICK f \in Nat, h \in Nat, len \in Nat : f = First(content) /\ h = HeadLen /\ len = GoldenCrcLen
        BY <1>1
      <4>2. j \in h + 1 .. h + 1 + (n + len) - 1 /\ j \notin h + 1 .. h + 1 + (n + 0) - 1 /\ n = f - h
            /\ j \in Int
        BY <1>2, <1>6, <2>2, <4>1
      <4>3. j - f \in 1 .. len /\ f + (j - f) = j
        BY <4>2
      <4> QED BY <4>1, <4>3
    <3>2. PICK l \in 1 .. GoldenCrcLen : First(content) + l = j
      BY <3>1
    <3> QED BY <1>6, <3>2
  <2> QED BY <2>1, <2>2
<1>7. Alike(one, two, HeadLen + 1, n + GoldenCrcLen)
  BY <1>4, <1>5 DEF Alike
<1>8. ASSUME \A j \in 1 .. GoldenCrcLen : two[First(content) + j].val = one[First(content) + j].val
      PROVE  Alike(one, two, HeadLen + 1, n + 0)
  BY <1>4, <1>6, <1>8 DEF Alike
<1> QED BY <1>2, <1>7, <1>8

\* So they get the same CRC, and frames with the same CRC get the same stuff count.
LEMMA FreshSource ==
  ASSUME TypeInv, NEW one, Fresh(one), NEW two, Fresh(two)
  PROVE  /\ CalcCrc(CrcSource(two), GoldenCrcLen) = CalcCrc(CrcSource(one), GoldenCrcLen)
         /\ SetCrc(CrcSource(two), GoldenCrcLen) = SetCrc(CrcSource(one), GoldenCrcLen)
         /\ (\A j \in 1 .. GoldenCrcLen : two[First(content) + j].val = one[First(content) + j].val)
              => CrcSource(two) = CrcSource(one)
<1>1. FreshKinds(one) /\ FreshKinds(two)
  BY FreshHasKinds
<1>2. PICK left, right, p : left = CrcSource(one) /\ right = CrcSource(two) /\ p = FirstOf(left, "Crc")
  OBVIOUS
<1>3. Sourced(left, one, p) /\ right \in Seq(BitType)
  <2>1. Sourced(right, two, FirstOf(right, "Crc"))
    BY <1>1, <1>2, SourceFound
  <2> QED BY <1>1, <1>2, <2>1, SourceFound DEF Sourced
<1>4. left \in Seq(BitType) /\ p \in Nat /\ p > 1
  BY <1>3 DEF Sourced
<1>5. PICK len \in {15, 17, 21} : len = GoldenCrcLen
  BY Sizes
<1>6. Alike(one, two, HeadLen + 1, (First(content) - HeadLen) + len)
  BY <1>5, AlikeBoth
<1>7. Alike(left, right, p, len)
  <2>1. len \in Nat
    OBVIOUS
  <2> QED BY <1>1, <1>2, <1>6, <2>1, SourcesAlike
<1>8. SetCrc(right, len) = SetCrc(left, len) /\ CalcCrc(right, len) = CalcCrc(left, len)
  BY <1>2, <1>3, <1>4, <1>7, AlikeCrcSet
<1>9. ASSUME \A j \in 1 .. GoldenCrcLen : two[First(content) + j].val = one[First(content) + j].val
      PROVE  right = left
  <2>1. Alike(one, two, HeadLen + 1, (First(content) - HeadLen) + 0)
    BY <1>9, AlikeBoth
  <2>2. 0 \in Nat
    OBVIOUS
  <2>3. Alike(left, right, p, 0)
    BY <1>1, <1>2, <2>1, <2>2, SourcesAlike
  <2> QED BY <1>3, <1>4, <2>3, AlikeSame
<1> QED BY <1>2, <1>5, <1>8, <1>9

\* The CRC to be calculated.
DueCrc == CalcCrc(CrcSource(Built), GoldenCrcLen)

\* The frame that is stuffed behind its CRC, or with it.
Sealed(frame) ==
  IF flipped = 0 THEN SetCrc(CrcSource(frame), GoldenCrcLen) ELSE CrcSource(frame)

\* A frame without stuff bits a pass may begin with: with a flipped bit of the CRC its CRC
\* is the one the test has made.
PassOf(frame) ==
  /\ Fresh(frame)
  /\ flipped # 0 => \A j \in 1 .. GoldenCrcLen :
                      frame[First(content) + j].val = Edited[First(content) + j].val

\* All of them give the same CRC, and the same frame with it.
LEMMA SealedOnce ==
  ASSUME TypeInv, NEW one, PassOf(one), NEW two, PassOf(two)
  PROVE  Sealed(two) = Sealed(one)
<1>1. CASE flipped = 0
  BY <1>1, FreshSource DEF Sealed, PassOf
<1>2. CASE flipped # 0
  <2>1. \A j \in 1 .. GoldenCrcLen : two[First(content) + j].val = one[First(content) + j].val
    BY <1>2 DEF PassOf
  <2>2. CrcSource(two) = CrcSource(one)
    BY <2>1, FreshSource DEF PassOf
  <2> QED BY <1>2, <2>2 DEF Sealed
<1> QED BY <1>1, <1>2

\* All frames without stuff bits of the same fields have the same CRC due.
LEMMA DueCrcOf ==
  ASSUME TypeInv, NEW frame, Fresh(frame)
  PROVE  CalcCrc(CrcSource(frame), GoldenCrcLen) = DueCrc
<1>1. Fresh(Built)
  BY Sizes
<1> QED BY <1>1, FreshSource DEF DueCrc

\* StuffAndCrc, by what its frame is sealed to.
LEMMA SealedStuffed ==
  ASSUME NEW frame
  PROVE  StuffAndCrc(frame, GoldenCrcLen, flipped = 0)
           = IF IsCan20 THEN InsertNormalStuffBits(Sealed(frame)).bits
             ELSE InsertFixedStuffToCrc(Sealed(frame))
<1>1. CASE flipped = 0
  BY <1>1 DEF StuffAndCrc, RecalcCrc, Sealed, CrcSource, IsCan20
<1>2. CASE flipped # 0
  BY <1>2 DEF StuffAndCrc, RecalcCrc, Sealed, CrcSource, IsCan20
<1> QED BY <1>1, <1>2

-----------------------------------------------------------------------------
(* Where the loops are in what they make of a frame.                       *)

\* The loop of InsertNormalStuffBits, which ends at bit end of the frame, has passed k bits
\* behind SOF.
InStuffLoop(frame, end, trace, k, new, i, acc) ==
  /\ IsTrace(trace, NormalStep(frame, end - 2), StuffFirst, end - 2, UnfixedBits, StuffAcc)
  /\ SoFar(new, frame, 2, trace[k].out, k)
  /\ i = 2 + Len(trace[k].out) /\ trace[k].acc = acc

\* A list is at bit i where another is at bit k behind SOF.
AtBit(new, i, frame, k) == new[i] = frame[2 + k] /\ new[i + 1] = frame[2 + k + 1]

\* It is at the next bit of the frame.
LEMMA StuffLoopIsAt ==
  ASSUME NEW frame \in Seq(UnfixedBits), NEW end \in Nat, end > 2, end < Len(frame),
         NEW trace, NEW k \in 0 .. end - 2, NEW new, NEW i, NEW acc,
         InStuffLoop(frame, end, trace, k, new, i, acc)
  PROVE  /\ trace[k].out \in Seq(BitType) /\ acc \in StuffAcc
         /\ new \in Seq(BitType) /\ i \in 1 .. Len(new) /\ i > 1
         /\ AtBit(new, i, frame, k)
<1>1. trace[k] \in Result(UnfixedBits, StuffAcc)
  BY DEF InStuffLoop, IsTrace
<1>2. PICK out \in Seq(UnfixedBits) : out = trace[k].out
  BY <1>1 DEF Result
<1>3. out \in Seq(BitType) /\ frame \in Seq(BitType)
  BY UnfixedAreBits
<1>4. Len(frame) \in Nat /\ Len(out) \in Nat
  BY <1>3
<1>5. k \in Nat /\ 2 + k <= Len(frame) /\ 2 + k < Len(frame) /\ 2 \in Nat \ {0}
  BY <1>4
<1>6. SoFar(new, frame, 2, out, k) /\ i = 2 + Len(out) /\ acc = trace[k].acc
  BY <1>2 DEF InStuffLoop
<1>7. 2 + Len(out) \in 1 .. Len(new) /\ new[2 + Len(out)] = frame[2 + k]
      /\ (2 + k < Len(frame) => new[2 + Len(out) + 1] = frame[2 + k + 1])
  BY <1>3, <1>5, <1>6, SoFarAt
<1>8. new \in Seq(BitType)
  BY <1>6 DEF SoFar
<1>9. acc \in StuffAcc
  BY <1>1, <1>6 DEF Result
<1>10. i > 1
  BY <1>4, <1>6
<1>11. AtBit(new, i, frame, k)
  BY <1>5, <1>6, <1>7 DEF AtBit
<1> QED BY <1>2, <1>3, <1>5, <1>6, <1>7, <1>8, <1>9, <1>10, <1>11

\* It passes that bit, or inserts one behind it.
LEMMA StuffLoopGoesOn ==
  ASSUME NEW frame \in Seq(UnfixedBits), NEW end \in Nat, end > 2, end < Len(frame),
         NEW trace, NEW k \in 0 .. end - 2, k < end - 2, NEW new, NEW i, NEW acc,
         InStuffLoop(frame, end, trace, k, new, i, acc),
         NEW round, round = StuffStep(frame, acc, k + 2)
  PROVE  /\ round.out = <<frame[2 + k]>> => InStuffLoop(frame, end, trace, k + 1, new, i + 1, round.acc)
         /\ \A b \in BitType :
              round.out = <<frame[2 + k], b>>
                => InStuffLoop(frame, end, trace, k + 1, InsertBit(new, i + 1, b), i + 2, round.acc)
<1>1. PICK n \in Nat : n = end - 2
  OBVIOUS
<1>2. IsTrace(trace, NormalStep(frame, n), StuffFirst, n, UnfixedBits, StuffAcc)
  BY <1>1 DEF InStuffLoop
<1>3. k \in Nat /\ k < n
  BY <1>1
<1>4. OneMore(trace, NormalStep(frame, n), k, UnfixedBits, StuffAcc)
  BY <1>2, <1>3, TraceRound
<1>5. trace[k].out \in Seq(BitType) /\ acc \in StuffAcc /\ new \in Seq(BitType)
  BY StuffLoopIsAt
<1>6. trace[k].acc = acc /\ i = 2 + Len(trace[k].out) /\ SoFar(new, frame, 2, trace[k].out, k)
  BY DEF InStuffLoop
<1>7. NormalStep(frame, n)[k + 1][acc] = round
  <2>1. k + 1 \in 1 .. n /\ (k + 1) + 1 = k + 2
    BY <1>3
  <2> QED BY <1>5, <2>1 DEF NormalStep
<1>8. trace[k + 1].out = trace[k].out \o round.out /\ trace[k + 1].acc = round.acc
  BY <1>4, <1>6, <1>7 DEF OneMore
<1>9. PICK out \in Seq(BitType) : out = trace[k].out
  BY <1>5
<1>10. frame \in Seq(BitType) /\ Len(frame) \in Nat /\ Len(out) \in Nat /\ 2 + k <= Len(frame)
       /\ 2 \in Nat \ {0}
  BY <1>1, <1>3, UnfixedAreBits
<1>11. frame[2 + k] \in BitType
  BY <1>3, <1>10
<1>12. ASSUME round.out = <<frame[2 + k]>>
       PROVE  InStuffLoop(frame, end, trace, k + 1, new, i + 1, round.acc)
  <2>1. SoFar(new, frame, 2, out \o <<frame[2 + k]>>, k + 1)
    BY <1>3, <1>6, <1>9, <1>10, SoFarPass
  <2>2. trace[k + 1].out = out \o <<frame[2 + k]>>
    BY <1>8, <1>9, <1>12
  <2>3. Len(out \o <<frame[2 + k]>>) = Len(out) + 1
    BY <1>11
  <2>4. i + 1 = 2 + Len(trace[k + 1].out)
    BY <1>6, <1>9, <1>10, <2>2, <2>3
  <2> QED BY <1>1, <1>2, <1>8, <2>1, <2>2, <2>4 DEF InStuffLoop
<1>13. ASSUME NEW b \in BitType, round.out = <<frame[2 + k], b>>
       PROVE  InStuffLoop(frame, end, trace, k + 1, InsertBit(new, i + 1, b), i + 2, round.acc)
  <2>1. SoFar(InsertBit(new, 2 + Len(out) + 1, b), frame, 2, out \o <<frame[2 + k], b>>, k + 1)
    BY <1>3, <1>6, <1>9, <1>10, SoFarInserts
  <2>2. trace[k + 1].out = out \o <<frame[2 + k], b>>
    BY <1>8, <1>9, <1>13
  <2>3. Len(out \o <<frame[2 + k], b>>) = Len(out) + 2
    BY <1>11
  <2>4. i + 2 = 2 + Len(trace[k + 1].out) /\ i + 1 = 2 + Len(out) + 1
    BY <1>6, <1>9, <1>10, <2>2, <2>3
  <2> QED BY <1>1, <1>2, <1>8, <2>1, <2>2, <2>4 DEF InStuffLoop
<1> QED BY <1>12, <1>13

\* At bit end it has made of the frame what InsertNormalStuffBits makes of it.
LEMMA StuffLoopEnds ==
  ASSUME NEW frame \in Seq(UnfixedBits), NEW end \in Nat, end > 2, end < Len(frame),
         EndOfStuffing(frame) = end, NEW trace, NEW new, NEW i, NEW acc,
         InStuffLoop(frame, end, trace, end - 2, new, i, acc)
  PROVE  InsertNormalStuffBits(frame) = [bits |-> new, cnt |-> acc.cnt]
<1>1. PICK n \in Nat : n = end - 2
  OBVIOUS
<1>2. PICK other : /\ IsTrace(other, NormalStep(frame, n), StuffFirst, n, UnfixedBits, StuffAcc)
                   /\ InsertNormalStuffBits(frame) = WithStuffBits(frame, end, other[n])
  BY <1>1, NormalStuffTraced
<1>3. IsTrace(trace, NormalStep(frame, n), StuffFirst, n, UnfixedBits, StuffAcc)
      /\ SoFar(new, frame, 2, trace[n].out, n) /\ trace[n].acc = acc
  BY <1>1 DEF InStuffLoop
<1>4. trace[n] = other[n]
  BY <1>2, <1>3, OneTrace
<1>5. n \in 0 .. end - 2
  BY <1>1
<1>6. trace[n].out \in Seq(BitType)
  BY <1>1, <1>5, StuffLoopIsAt
<1>7. frame \in Seq(BitType) /\ Len(frame) \in Nat /\ 2 + n = end /\ 2 + n <= Len(frame) /\ Len(frame) > 0
      /\ 2 \in Nat \ {0}
  BY <1>1, UnfixedAreBits
<1>8. new = FixedStuffed(frame, 2, end, trace[n].out)
  BY <1>3, <1>6, <1>7, SoFarEnds
<1>9. WithStuffBits(frame, end, trace[n]).bits = FixedStuffed(frame, 2, end, trace[n].out)
  BY <1>7, StuffedFromTwo
<1>10. WithStuffBits(frame, end, trace[n]) = [bits |-> new, cnt |-> acc.cnt]
  BY <1>3, <1>8, <1>9 DEF WithStuffBits
<1> QED BY <1>2, <1>4, <1>10

\* It begins behind SOF.
LEMMA StuffLoopBegins ==
  ASSUME NEW frame \in Seq(UnfixedBits), NEW end \in Nat, end > 2, EndOfStuffing(frame) = end
  PROVE  \E trace : InStuffLoop(frame, end, trace, 0, frame, 2, StuffFirst)
<1>1. PICK n \in Nat : n = end - 2
  OBVIOUS
<1>2. PICK trace : IsTrace(trace, NormalStep(frame, n), StuffFirst, n, UnfixedBits, StuffAcc)
  BY <1>1, NormalStuffTraced
<1>3. trace[0].out = <<>> /\ trace[0].acc = StuffFirst
  BY <1>2 DEF IsTrace
<1>4. SoFar(frame, frame, 2, <<>>, 0)
  <2>1. frame \in Seq(BitType) /\ 2 \in Nat
    BY UnfixedAreBits
  <2> QED BY <2>1, SoFarBegins
<1>5. 2 = 2 + Len(<<>>)
  OBVIOUS
<1>6. InStuffLoop(frame, end, trace, 0, frame, 2, StuffFirst)
  BY <1>1, <1>2, <1>3, <1>4, <1>5 DEF InStuffLoop
<1> QED BY <1>6

\* The loop of InsertFixedStuffToCrc has passed k bits of the CRC, which begins at bit p.
InFixedLoop(frame, p, len, trace, k, new, i) ==
  /\ IsTrace(trace, FixedStep(frame, p, len), 0, len, BitType, Nat)
  /\ SoFar(new, frame, p, trace[k].out, k)
  /\ i = p + Len(trace[k].out) /\ trace[k].acc = k % 4

\* It begins with the CRC.
LEMMA FixedLoopBegins ==
  ASSUME NEW frame \in Seq(BitType), NEW p \in Nat, p > 0, NEW len \in Nat, len > 0, p + len <= Len(frame)
  PROVE  \E trace : InFixedLoop(frame, p, len, trace, 0, frame, p)
<1>1. PICK delim \in 1 .. Len(frame) : delim = p + len
  <2>1. p + len \in 1 .. Len(frame)
    OBVIOUS
  <2> QED BY <2>1
<1>2. p < delim /\ delim - p = len
  BY <1>1
<1>3. PICK trace : IsTrace(trace, FixedStep(frame, p, len), 0, len, BitType, Nat)
  BY <1>2, FixedStuffTraced
<1>4. trace[0].out = <<>> /\ trace[0].acc = 0
  BY <1>3 DEF IsTrace
<1>5. SoFar(frame, frame, p, <<>>, 0)
  BY SoFarBegins
<1>6. p = p + Len(<<>>) /\ 0 % 4 = 0
  OBVIOUS
<1>7. InFixedLoop(frame, p, len, trace, 0, frame, p)
  BY <1>3, <1>4, <1>5, <1>6 DEF InFixedLoop
<1> QED BY <1>7

\* Bit i of the changed frame is bit p + k of the frame.
AtCrcBit(new, i, frame, p, k) == new[i] = frame[p + k]

\* It is at the next bit of the frame.
LEMMA FixedLoopIsAt ==
  ASSUME NEW frame \in Seq(BitType), NEW p \in Nat, p > 0, NEW len \in Nat, p + len <= Len(frame),
         NEW trace, NEW k \in 0 .. len, NEW new, NEW i, InFixedLoop(frame, p, len, trace, k, new, i)
  PROVE  /\ trace[k].out \in Seq(BitType) /\ new \in Seq(BitType) /\ i \in 1 .. Len(new)
         /\ AtCrcBit(new, i, frame, p, k)
<1>1. trace[k] \in Result(BitType, Nat)
  BY DEF InFixedLoop, IsTrace
<1>2. PICK out \in Seq(BitType) : out = trace[k].out
  BY <1>1 DEF Result
<1>3. k \in Nat /\ p + k <= Len(frame) /\ p \in Nat \ {0}
  OBVIOUS
<1>4. SoFar(new, frame, p, out, k) /\ i = p + Len(out)
  BY <1>2 DEF InFixedLoop
<1>5. /\ p + Len(out) \in 1 .. Len(new) /\ new[p + Len(out)] = frame[p + k]
      /\ p + k < Len(frame) => new[p + Len(out) + 1] = frame[p + k + 1]
  BY <1>3, <1>4, SoFarAt
<1>6. new \in Seq(BitType)
  BY <1>4 DEF SoFar
<1>7. AtCrcBit(new, i, frame, p, k)
  BY <1>4, <1>5 DEF AtCrcBit
<1> QED BY <1>2, <1>4, <1>5, <1>6, <1>7

\* Every fourth bit of the CRC is followed by a fixed stuff bit.
LEMMA FixedRoundOf ==
  ASSUME NEW bit \in BitType, NEW k \in Nat
  PROVE  /\ FixedRound(bit, k % 4).acc = (k + 1) % 4
         /\ (k + 1) % CrcStuffEvery # 0 => FixedRound(bit, k % 4).out = <<bit>>
         /\ (k + 1) % CrcStuffEvery = 0
              => FixedRound(bit, k % 4).out = <<bit, Bit("Crc", Opposite(bit.val), "Fixed")>>
<1>1. CrcStuffEvery = 4
  BY DEF CrcStuffEvery
<1>2. k % 4 \in 0 .. 3 /\ (k + 1) % 4 \in 0 .. 3
  OBVIOUS
<1>3. CASE (k % 4) + 1 = 4
  <2>1. (k + 1) % 4 = 0
    BY <1>3
  <2> QED BY <1>1, <1>3, <2>1 DEF FixedRound
<1>4. CASE (k % 4) + 1 # 4
  <2>1. (k + 1) % 4 = (k % 4) + 1 /\ (k % 4) + 1 # 0
    BY <1>2, <1>4
  <2> QED BY <1>1, <1>4, <2>1 DEF FixedRound
<1> QED BY <1>3, <1>4

\* It passes the next bit, or inserts a stuff bit behind it.
LEMMA FixedLoopGoesOn ==
  ASSUME NEW frame \in Seq(BitType), NEW p \in Nat, p > 0, NEW len \in Nat, p + len <= Len(frame),
         NEW trace, NEW k \in Nat, k < len, NEW new, NEW i, InFixedLoop(frame, p, len, trace, k, new, i),
         NEW b, b = Bit("Crc", Opposite(new[i].val), "Fixed"), b \in BitType
  PROVE  /\ (k + 1) % CrcStuffEvery # 0 => InFixedLoop(frame, p, len, trace, k + 1, new, i + 1)
         /\ (k + 1) % CrcStuffEvery = 0
              => InFixedLoop(frame, p, len, trace, k + 1, InsertBit(new, i + 1, b), i + 2)
<1>1. k \in 0 .. len
  OBVIOUS
<1>2. trace[k].out \in Seq(BitType) /\ new[i] = frame[p + k]
  <2>1. trace[k].out \in Seq(BitType) /\ AtCrcBit(new, i, frame, p, k)
    BY <1>1, FixedLoopIsAt
  <2> QED BY <2>1 DEF AtCrcBit
<1>3. IsTrace(trace, FixedStep(frame, p, len), 0, len, BitType, Nat) /\ SoFar(new, frame, p, trace[k].out, k)
      /\ i = p + Len(trace[k].out) /\ trace[k].acc = k % 4
  BY DEF InFixedLoop
<1>4. OneMore(trace, FixedStep(frame, p, len), k, BitType, Nat)
  BY <1>3, TraceRound
<1>5. PICK bit \in BitType : bit = frame[p + k]
  <2>1. p + k \in 1 .. Len(frame)
    OBVIOUS
  <2>2. frame[p + k] \in BitType
    BY <2>1
  <2> QED BY <2>2
<1>6. FixedStep(frame, p, len)[k + 1][k % 4] = FixedRound(bit, k % 4)
  <2>1. k + 1 \in 1 .. len /\ p + (k + 1) - 1 = p + k /\ k % 4 \in Nat
    OBVIOUS
  <2> QED BY <1>5, <2>1 DEF FixedStep
<1>7. trace[k + 1].out = trace[k].out \o FixedRound(bit, k % 4).out /\ trace[k + 1].acc = FixedRound(bit, k % 4).acc
  BY <1>3, <1>4, <1>6 DEF OneMore
<1>8. trace[k + 1].acc = (k + 1) % 4
  BY <1>7, FixedRoundOf
<1>9. PICK out \in Seq(BitType) : out = trace[k].out
  BY <1>2
<1>10. Len(out) \in Nat /\ p + k <= Len(frame) /\ p \in Nat \ {0} /\ Len(frame) \in Nat
  OBVIOUS
<1>11. ASSUME (k + 1) % CrcStuffEvery # 0
       PROVE  InFixedLoop(frame, p, len, trace, k + 1, new, i + 1)
  <2>1. SoFar(new, frame, p, out \o <<frame[p + k]>>, k + 1)
    BY <1>3, <1>9, <1>10, SoFarPass
  <2>2. trace[k + 1].out = out \o <<frame[p + k]>>
    BY <1>5, <1>7, <1>9, <1>11, FixedRoundOf
  <2>3. Len(out \o <<frame[p + k]>>) = Len(out) + 1
    BY <1>5
  <2>4. i + 1 = p + Len(trace[k + 1].out)
    BY <1>3, <1>9, <1>10, <2>2, <2>3
  <2> QED BY <1>3, <1>8, <2>1, <2>2, <2>4 DEF InFixedLoop
<1>12. ASSUME (k + 1) % CrcStuffEvery = 0
       PROVE  InFixedLoop(frame, p, len, trace, k + 1, InsertBit(new, i + 1, b), i + 2)
  <2>1. SoFar(InsertBit(new, p + Len(out) + 1, b), frame, p, out \o <<frame[p + k], b>>, k + 1)
    BY <1>3, <1>9, <1>10, SoFarInserts
  <2>2. trace[k + 1].out = out \o <<frame[p + k], b>>
    BY <1>2, <1>5, <1>7, <1>9, <1>12, FixedRoundOf
  <2>3. Len(out \o <<frame[p + k], b>>) = Len(out) + 2
    BY <1>5
  <2>4. PICK l \in Nat : l = Len(out)
    BY <1>10
  <2>5. i = p + l /\ Len(trace[k + 1].out) = l + 2
    BY <1>3, <1>9, <2>2, <2>3, <2>4
  <2>6. i + 2 = p + Len(trace[k + 1].out) /\ i + 1 = p + Len(out) + 1
    BY <2>4, <2>5
  <2> QED BY <1>3, <1>8, <2>1, <2>2, <2>6 DEF InFixedLoop
<1> QED BY <1>11, <1>12

\* Behind the CRC it has made of the frame what InsertFixedStuffToCrc makes of it.
LEMMA FixedLoopEnds ==
  ASSUME NEW frame \in Seq(BitType), NEW p \in Nat, p > 0, NEW len \in Nat, len > 0, p + len <= Len(frame),
         FirstOf(frame, "Crc") = p, FirstOf(frame, "CrcDelim") = p + len,
         NEW trace, NEW new, NEW i, InFixedLoop(frame, p, len, trace, len, new, i)
  PROVE  InsertFixedStuffToCrc(frame) = new
<1>1. PICK delim \in 1 .. Len(frame) : delim = p + len
  <2>1. p + len \in 1 .. Len(frame)
    OBVIOUS
  <2> QED BY <2>1
<1>2. p < delim /\ delim - p = len
  BY <1>1
<1>3. PICK other : /\ IsTrace(other, FixedStep(frame, p, len), 0, len, BitType, Nat)
                   /\ StuffFromTo(frame, p, delim) = FixedStuffed(frame, p, delim, other[len].out)
  BY <1>2, FixedStuffTraced
<1>4. IsTrace(trace, FixedStep(frame, p, len), 0, len, BitType, Nat) /\ SoFar(new, frame, p, trace[len].out, len)
  BY DEF InFixedLoop
<1>5. trace[len] = other[len]
  BY <1>3, <1>4, OneTrace
<1>6. len \in 0 .. len
  OBVIOUS
<1>7. trace[len].out \in Seq(BitType)
  BY <1>6, FixedLoopIsAt
<1>8. new = FixedStuffed(frame, p, p + len, trace[len].out)
  <2>1. p \in Nat \ {0}
    OBVIOUS
  <2> QED BY <1>4, <1>7, <2>1, SoFarEnds
<1> QED BY <1>1, <1>3, <1>5, <1>8 DEF InsertFixedStuffToCrc

\* The loop of CalcCrc is at bit i, the CRC of the frame is at bit p.
InCrcLoop(frame, len, p, trace, i, reg) ==
  /\ IsTrace(trace, CoverStep(frame, len, p - 1), CrcInit(len), p - 1, {}, Registers(len))
  /\ i \in 1 .. p /\ reg = trace[i - 1].acc

\* The loop of CalcCrc begins with the first bit and the register it starts with.
LEMMA CrcLoopBegins ==
  ASSUME NEW frame \in Seq(BitType), NEW len \in {15, 17, 21}, NEW p \in Nat, p > 1, FirstOf(frame, "Crc") = p
  PROVE  \E trace : InCrcLoop(frame, len, p, trace, 1, CrcInit(len))
<1>1. PICK trace : IsTrace(trace, CoverStep(frame, len, p - 1), CrcInit(len), p - 1, {}, Registers(len))
  BY CrcTraced
<1>2. trace[0].acc = CrcInit(len)
  BY <1>1 DEF IsTrace
<1>3. 1 - 1 = 0 /\ 1 \in 1 .. p
  OBVIOUS
<1>4. InCrcLoop(frame, len, p, trace, 1, CrcInit(len))
  BY <1>1, <1>2, <1>3 DEF InCrcLoop
<1> QED BY <1>4

\* It shifts a bit into the register, or passes it.
LEMMA CrcLoopGoesOn ==
  ASSUME NEW frame, NEW len, NEW p \in Nat, NEW trace, NEW i \in Nat, i < p, NEW reg,
         InCrcLoop(frame, len, p, trace, i, reg)
  PROVE  InCrcLoop(frame, len, p, trace, i + 1,
                   IF Covered(len, frame[i]) THEN CrcStep(reg, frame[i].val) ELSE reg)
<1>1. PICK n \in Nat : n = p - 1
  OBVIOUS
<1>2. PICK k \in Nat : k = i - 1
  <2>1. i \in 1 .. p
    BY DEF InCrcLoop
  <2> QED BY <2>1
<1>3. IsTrace(trace, CoverStep(frame, len, n), CrcInit(len), n, {}, Registers(len)) /\ trace[k].acc = reg
  BY <1>1, <1>2 DEF InCrcLoop
<1>4. k < n /\ k + 1 = i /\ k + 1 \in 1 .. n /\ i + 1 \in 1 .. p /\ (i + 1) - 1 = k + 1
  BY <1>1, <1>2
<1>5. OneMore(trace, CoverStep(frame, len, n), k, {}, Registers(len))
  BY <1>3, <1>4, TraceRound
<1>6. trace[k].acc \in Registers(len)
  BY <1>5 DEF OneMore, Result
<1>7. CoverStep(frame, len, n)[k + 1][reg] = CoverRound(frame[i], reg, len)
  BY <1>3, <1>4, <1>6 DEF CoverStep
<1>8. trace[k + 1].acc = CoverRound(frame[i], reg, len).acc
  BY <1>3, <1>5, <1>7 DEF OneMore
<1>9. CoverRound(frame[i], reg, len).acc = IF Covered(len, frame[i]) THEN CrcStep(reg, frame[i].val) ELSE reg
  BY DEF CoverRound
<1> QED BY <1>1, <1>3, <1>4, <1>8, <1>9 DEF InCrcLoop

\* At the CRC, the register holds what CalcCrc gives.
LEMMA CrcLoopEnds ==
  ASSUME NEW frame \in Seq(BitType), NEW len \in {15, 17, 21}, NEW p \in Nat, p > 1, FirstOf(frame, "Crc") = p,
         NEW trace, NEW reg, InCrcLoop(frame, len, p, trace, p, reg)
  PROVE  reg = CalcCrc(frame, len)
<1>1. PICK n \in Nat : n = p - 1
  OBVIOUS
<1>2. PICK other : /\ IsTrace(other, CoverStep(frame, len, n), CrcInit(len), n, {}, Registers(len))
                   /\ CalcCrc(frame, len) = other[n].acc
  BY <1>1, CrcTraced
<1>3. IsTrace(trace, CoverStep(frame, len, n), CrcInit(len), n, {}, Registers(len)) /\ reg = trace[n].acc
  BY <1>1 DEF InCrcLoop
<1>4. trace[n] = other[n]
  BY <1>2, <1>3, OneTrace
<1> QED BY <1>2, <1>3, <1>4

-----------------------------------------------------------------------------
(* The frames in which the loops look for the CRC.                         *)

\* The CRC is where they look for it, from bit p on, and then comes its delimiter.
CrcField(frame, p) ==
  /\ frame \in Seq(BitType) /\ p \in Nat /\ p > 1 /\ p + GoldenCrcLen < Len(frame)
  /\ FirstOf(frame, "Crc") = p /\ FirstOf(frame, "CrcDelim") = p + GoldenCrcLen
  /\ \A j \in 0 .. GoldenCrcLen - 1 : frame[p + j].kind = "Crc"
  /\ frame[p + GoldenCrcLen].kind = "CrcDelim"
  /\ Len(frame) = (p - 1) + (Len(Built) - First(content))

\* The frame the CRC is computed over is one.
LEMMA SourceField ==
  ASSUME TypeInv, NEW frame, FreshKinds(frame)
  PROVE  CrcField(CrcSource(frame), FirstOf(CrcSource(frame), "Crc"))
<1>1. PICK source, p : source = CrcSource(frame) /\ p = FirstOf(source, "Crc")
  OBVIOUS
<1>2. Sourced(source, frame, p)
  BY <1>1, SourceFound
<1>3. /\ source \in Seq(BitType) /\ p \in Nat /\ p > 1 /\ FirstOf(source, "Crc") = p
      /\ Len(source) = (p - 1) + (Len(frame) - First(content)) /\ Len(source) \in Nat
  BY <1>2 DEF Sourced
<1>4. /\ GoldenCrcLen \in Nat /\ GoldenCrcLen > 0 /\ First(content) \in Nat /\ Len(frame) = Len(Built) /\ Len(Built) \in Nat
      /\ Len(Built) > First(content) + GoldenCrcLen + 1
  BY Sizes DEF FreshKinds
<1>5. p + GoldenCrcLen < Len(source) /\ Len(source) = (p - 1) + (Len(Built) - First(content))
  BY <1>3, <1>4
<1>6. ASSUME NEW j \in 1 .. GoldenCrcLen + 1
      PROVE  source[(p - 1) + j].kind = frame[First(content) + j].kind
  <2>1. j \in 1 .. Len(frame) - First(content)
    BY <1>4
  <2> QED BY <1>2, <2>1 DEF Sourced
<1>7. ASSUME NEW j \in 0 .. GoldenCrcLen - 1
      PROVE  source[p + j].kind = "Crc"
  <2>1. PICK l \in 1 .. GoldenCrcLen : l = j + 1
    <3>1. j + 1 \in 1 .. GoldenCrcLen
      BY <1>4
    <3> QED BY <3>1
  <2>2. (p - 1) + l = p + j /\ l \in 1 .. GoldenCrcLen + 1
    BY <1>3, <1>4, <2>1
  <2>3. frame[First(content) + l].kind = "Crc"
    BY DEF FreshKinds
  <2> QED BY <1>6, <2>2, <2>3
<1>8. source[p + GoldenCrcLen].kind = "CrcDelim"
  <2>1. PICK l \in 1 .. GoldenCrcLen + 1 : l = GoldenCrcLen + 1
    BY <1>4
  <2>2. (p - 1) + l = p + GoldenCrcLen /\ First(content) + l = First(content) + GoldenCrcLen + 1
    BY <1>3, <1>4, <2>1
  <2>3. frame[First(content) + GoldenCrcLen + 1].kind = "CrcDelim"
    BY DEF FreshKinds
  <2> QED BY <1>6, <2>2, <2>3
<1>9. FirstOf(source, "CrcDelim") = p + GoldenCrcLen
  <2>1. PICK q \in 1 .. Len(source) : q = p + GoldenCrcLen
    <3>1. p + GoldenCrcLen \in 1 .. Len(source)
      BY <1>3, <1>4, <1>5
    <3> QED BY <3>1
  <2>2. ASSUME NEW j \in 1 .. q - 1
        PROVE  source[j].kind \notin {"CrcDelim"}
    <3>1. CASE j < p
      <4>1. j \in 1 .. p - 1
        BY <1>3, <3>1
      <4>2. source[j].kind \notin {"Crc", "CrcDelim"}
        BY <1>2, <4>1 DEF Sourced
      <4> QED BY <4>2
    <3>2. CASE ~(j < p)
      <4>1. j - p \in 0 .. GoldenCrcLen - 1 /\ p + (j - p) = j
        BY <1>3, <1>4, <2>1, <3>2
      <4>2. source[j].kind = "Crc"
        BY <1>7, <4>1
      <4> QED BY <4>2
    <3> QED BY <3>1, <3>2
  <2>3. NoneBefore(q, {"CrcDelim"}, source)
    BY <2>2 DEF NoneBefore
  <2>4. FirstOf(source, "CrcDelim") = q
    BY <1>3, <1>8, <2>1, <2>3, FoundFirst
  <2> QED BY <2>1, <2>4
<1> QED BY <1>1, <1>3, <1>5, <1>7, <1>8, <1>9 DEF CrcField

\* Values of bits do not change that.
LEMMA CrcFieldShape ==
  ASSUME TypeInv, NEW frame, NEW p, CrcField(frame, p), NEW other \in Seq(BitType), SameShape(frame, other)
  PROVE  CrcField(other, p)
<1>1. frame \in Seq(BitType) /\ p \in Nat /\ p > 1 /\ p + GoldenCrcLen < Len(frame) /\ GoldenCrcLen \in Nat
      /\ Len(frame) \in Nat
  BY Sizes DEF CrcField
<1>2. FirstOf(other, "Crc") = FirstOf(frame, "Crc") /\ FirstOf(other, "CrcDelim") = FirstOf(frame, "CrcDelim")
  BY <1>1, SameShapeFirst
<1>3. Len(other) = Len(frame) /\ \A i \in 1 .. Len(frame) : other[i].kind = frame[i].kind
  BY DEF SameShape
<1>4. ASSUME NEW j \in 0 .. GoldenCrcLen - 1
      PROVE  other[p + j].kind = "Crc"
  <2>1. p + j \in 1 .. Len(frame)
    BY <1>1
  <2>2. frame[p + j].kind = "Crc"
    BY DEF CrcField
  <2> QED BY <1>3, <2>1, <2>2
<1>5. other[p + GoldenCrcLen].kind = "CrcDelim"
  <2>1. p + GoldenCrcLen \in 1 .. Len(frame)
    BY <1>1
  <2> QED BY <1>3, <2>1 DEF CrcField
<1> QED BY <1>2, <1>3, <1>4, <1>5 DEF CrcField

\* Nor what kinds of bits a frame has.
LEMMA FreshKindsShape ==
  ASSUME TypeInv, NEW frame, FreshKinds(frame), NEW other \in Seq(BitType), SameShape(frame, other)
  PROVE  FreshKinds(other)
<1>1. /\ HeadLen \in Nat \ {0} /\ GoldenCrcLen \in Nat
      /\ First(content) = HeadLen + (IF IsCan20 THEN 0 ELSE 4)
      /\ Len(Built) \in Nat /\ Len(Built) > First(content) + GoldenCrcLen + 1 /\ Len(frame) = Len(Built)
  BY Sizes DEF FreshKinds
<1>2. Len(other) = Len(frame)
      /\ \A i \in 1 .. Len(frame) : other[i].kind = frame[i].kind /\ other[i].stuff = frame[i].stuff
  BY DEF SameShape
<1>3. \A j \in 1 .. HeadLen : other[j].kind \in HeadKinds
  <2>1. \A j \in 1 .. HeadLen : j \in 1 .. Len(frame)
    BY <1>1
  <2> QED BY <1>2, <2>1 DEF FreshKinds
<1>4. ~IsCan20 => /\ \A j \in 1 .. 3 : other[HeadLen + j].kind = "StuffCnt"
                  /\ other[HeadLen + 4].kind = "StuffParity"
  <2>1. ~IsCan20 => \A j \in 1 .. 4 : HeadLen + j \in 1 .. Len(frame)
    BY <1>1
  <2> QED BY <1>2, <2>1 DEF FreshKinds
<1>5. ASSUME NEW j \in 1 .. GoldenCrcLen
      PROVE  other[First(content) + j].kind = "Crc"
  <2>1. First(content) + j \in 1 .. Len(frame)
    BY <1>1
  <2>2. frame[First(content) + j].kind = "Crc"
    BY DEF FreshKinds
  <2> QED BY <1>2, <2>1, <2>2
<1>6. other[First(content) + GoldenCrcLen + 1].kind = "CrcDelim"
  <2>1. First(content) + GoldenCrcLen + 1 \in 1 .. Len(frame)
    BY <1>1
  <2> QED BY <1>2, <2>1 DEF FreshKinds
<1>7. \A j \in First(content) + GoldenCrcLen + 1 .. Len(other) : other[j].kind \in TailKinds
  <2>1. \A j \in First(content) + GoldenCrcLen + 1 .. Len(frame) : j \in 1 .. Len(frame)
    BY <1>1
  <2> QED BY <1>2, <2>1 DEF FreshKinds
<1>8. \A j \in 1 .. Len(other) : other[j].stuff = "NoStuff" /\ other[j].kind = Built[j].kind
  BY <1>2 DEF FreshKinds
<1> QED BY <1>1, <1>2, <1>3, <1>4, <1>5, <1>6, <1>7, <1>8 DEF FreshKinds

\* The CRC is a register.
LEMMA CalcCrcType ==
  ASSUME TypeInv, NEW frame \in Seq(BitType), FirstOf(frame, "Crc") > 1
  PROVE  CalcCrc(frame, GoldenCrcLen) \in [1 .. GoldenCrcLen -> {Dominant, Recessive}]
<1>1. PICK len \in {15, 17, 21} : len = GoldenCrcLen
  BY Sizes
<1>2. PICK n \in Nat : n = FirstOf(frame, "Crc") - 1
  <2>1. FirstOf(frame, "Crc") \in 0 .. Len(frame)
    BY FirstInFrame
  <2> QED BY <2>1
<1>3. PICK trace : /\ IsTrace(trace, CoverStep(frame, len, n), CrcInit(len), n, {}, Registers(len))
                   /\ CalcCrc(frame, len) = trace[n].acc
  BY <1>2, CrcTraced
<1>4. n \in 0 .. n
  OBVIOUS
<1>5. trace[n].acc \in Registers(len)
  BY <1>3, <1>4 DEF IsTrace, Result
<1> QED BY <1>1, <1>3, <1>5 DEF Registers, Dominant, Recessive

\* The CRC that is written over the old one.
LEMMA CrcIsSet ==
  ASSUME TypeInv, NEW frame, NEW p, CrcField(frame, p)
  PROVE  /\ WrittenOver(SetCrc(frame, GoldenCrcLen), frame, p, GoldenCrcLen, CalcCrc(frame, GoldenCrcLen))
         /\ CrcField(SetCrc(frame, GoldenCrcLen), p)
<1>1. frame \in Seq(BitType) /\ p \in Nat /\ p > 1 /\ FirstOf(frame, "Crc") = p /\ GoldenCrcLen \in Nat
  BY Sizes DEF CrcField
<1>2. PICK code : code = CalcCrc(frame, GoldenCrcLen)
  OBVIOUS
<1>3. code \in [1 .. GoldenCrcLen -> {Dominant, Recessive}]
  BY <1>1, <1>2, CalcCrcType
<1>4. PICK n \in Nat : n = GoldenCrcLen
  BY <1>1
<1>5. Len(code) = n /\ code \in [1 .. n -> {Dominant, Recessive}]
  BY <1>3, <1>4
<1>6. WrittenOver(Overwrite(frame, p, code), frame, p, n, code)
  BY <1>1, <1>5, Overwritten
<1>7. SetCrc(frame, GoldenCrcLen) = Overwrite(frame, p, code)
  BY <1>1, <1>2 DEF SetCrc, UpdateCrcBits
<1>8. PICK new : new = SetCrc(frame, GoldenCrcLen)
  OBVIOUS
<1>9. WrittenOver(new, frame, p, GoldenCrcLen, code)
  BY <1>4, <1>6, <1>7, <1>8
<1>10. new \in Seq(BitType) /\ SameShape(frame, new)
  BY <1>9 DEF WrittenOver
<1>11. CrcField(new, p)
  BY <1>10, CrcFieldShape
<1> QED BY <1>2, <1>8, <1>9, <1>11

\* A sealed frame.
LEMMA SealedField ==
  ASSUME TypeInv, NEW frame, FreshKinds(frame)
  PROVE  /\ CrcField(Sealed(frame), FirstOf(CrcSource(frame), "Crc"))
         /\ IsCan20 => FreshKinds(Sealed(frame))
<1>1. PICK source, p : source = CrcSource(frame) /\ p = FirstOf(source, "Crc")
  OBVIOUS
<1>2. CrcField(source, p)
  BY <1>1, SourceField
<1>3. WrittenOver(SetCrc(source, GoldenCrcLen), source, p, GoldenCrcLen, CalcCrc(source, GoldenCrcLen))
      /\ CrcField(SetCrc(source, GoldenCrcLen), p)
  BY <1>2, CrcIsSet
<1>4. CrcField(Sealed(frame), p)
  BY <1>1, <1>2, <1>3 DEF Sealed
<1>5. ASSUME IsCan20
      PROVE  FreshKinds(Sealed(frame))
  <2>1. source = frame
    BY <1>1, <1>5 DEF CrcSource
  <2>2. PICK new : new = SetCrc(frame, GoldenCrcLen)
    OBVIOUS
  <2>3. new \in Seq(BitType) /\ SameShape(frame, new)
    BY <1>3, <2>1, <2>2 DEF WrittenOver
  <2>4. FreshKinds(new)
    BY <2>3, FreshKindsShape
  <2> QED BY <1>1, <2>1, <2>2, <2>4 DEF Sealed
<1> QED BY <1>1, <1>4, <1>5

-----------------------------------------------------------------------------
(* The invariant of the loops.                                             *)

\* The bits of the CRC: a test flips one of those calculated.
Value(j) == IF j = flipped THEN Opposite(DueCrc[j]) ELSE DueCrc[j]

\* A test flips a bit of the CRC of the frame as it was built, after which the CRC is not
\* calculated again.
FlippedInv ==
  /\ flipped # 0 => /\ updated /\ edited = {} /\ flipped \in 1 .. GoldenCrcLen /\ Fresh(Edited)
                    /\ \A j \in 1 .. GoldenCrcLen : Edited[First(content) + j].val = Value(j)
  /\ pc = "crc" => flipped = 0

\* The CRC of a frame, wherever its bits have come to.
Filled(frame) ==
  \A place : Placed(place, frame, Built) =>
    \A j \in 1 .. GoldenCrcLen : frame[place[First(content) + j]].val = Value(j)

\* When the frame has it.
WithCrc == flipped # 0 \/ pc \in {"fixed", "done"} \/ (IsCan20 /\ pc = "stuff")

\* The loop of InsertNormalStuffBits is somewhere in the frame.
StuffLoop(frame) ==
  \E trace : \E k \in 0 .. StuffEnd - 2 :
    InStuffLoop(frame, StuffEnd, trace, k, bits, at, [same |-> same, prev |-> prev, cnt |-> stuff_cnt])

\* So is the loop of CalcCrc.
CrcLoop == \E trace : InCrcLoop(bits, GoldenCrcLen, FirstOf(bits, "Crc"), trace, at, crc)

\* And that of InsertFixedStuffToCrc is somewhere in the CRC.
FixedLoop(frame) ==
  /\ same \in 0 .. GoldenCrcLen
  /\ \E trace : InFixedLoop(frame, FirstOf(frame, "Crc"), GoldenCrcLen, trace, same, bits, at)

\* What the loops make of a frame without stuff bits.
Made(frame) ==
  IF IsCan20 THEN InsertNormalStuffBits(Sealed(frame)).bits ELSE InsertFixedStuffToCrc(Sealed(frame))

\* The frame into which regular stuff bits are inserted.
Base(frame) == IF IsCan20 THEN Sealed(frame) ELSE frame

\* How far they have come.
LoopAt(frame) ==
  /\ pc = "stuff" => StuffLoop(Base(frame))
  /\ pc = "crc" => bits = CrcSource(frame) /\ CrcLoop
  /\ pc = "fixed" => FixedLoop(Sealed(frame))
  /\ pc = "done" => bits = Made(frame)

\* Whatever loop runs has done its part of what it is to make of a frame that is fit for
\* the pass; the CRC, where the frame has it, is the one that is due, or the flipped one.
LoopsInv ==
  /\ FlippedInv
  /\ WithCrc => Filled(bits)
  /\ pc # "erase" => \E frame : PassOf(frame) /\ LoopAt(frame)

\* A step of a loop changes neither what is to be made nor of what.
LEMMA SamePass ==
  ASSUME UNCHANGED testVars
  PROVE  /\ GoldenCrcLen' = GoldenCrcLen /\ IsCan20' = IsCan20 /\ StuffEnd' = StuffEnd
         /\ First(content)' = First(content) /\ Built' = Built
         /\ \A frame : /\ PassOf(frame)' <=> PassOf(frame)
                       /\ Sealed(frame)' = Sealed(frame) /\ CrcSource(frame)' = CrcSource(frame)
                       /\ Made(frame)' = Made(frame) /\ Base(frame)' = Base(frame)
                       /\ (Filled(frame)' <=> Filled(frame))
         /\ \A j : Value(j)' = Value(j)
         /\ Edited' = Edited /\ (Fresh(Edited)' <=> Fresh(Edited))
<1>1. content' = content /\ flipped' = flipped /\ edited' = edited
  BY DEF testVars
<1>2. GoldenCrcLen' = GoldenCrcLen /\ IsCan20' = IsCan20 /\ First(content)' = First(content)
      /\ HeadLen' = HeadLen
  BY <1>1 DEF GoldenCrcLen, IsCan20, First, HeadLen
<1>3. StuffEnd' = StuffEnd
  BY <1>2 DEF StuffEnd
<1>4. Built' = Built
  BY <1>1 DEF Built
<1>5. Edited' = Edited
  BY <1>1 DEF Edited
<1>6. ASSUME NEW frame
      PROVE  CrcSource(frame)' = CrcSource(frame)
  BY <1>2 DEF CrcSource
<1>7. ASSUME NEW frame
      PROVE  Sealed(frame)' = Sealed(frame)
  BY <1>1, <1>2, <1>6 DEF Sealed
<1>8. ASSUME NEW frame
      PROVE  Made(frame)' = Made(frame)
  BY <1>2, <1>7 DEF Made
<1>9. DueCrc' = DueCrc
  <2>1. PICK built : built = Built
    OBVIOUS
  <2> QED BY <1>2, <1>4, <1>6, <2>1 DEF DueCrc, CrcSource
<1>10. ASSUME NEW j
       PROVE  Value(j)' = Value(j)
  BY <1>1, <1>9 DEF Value
<1>11. ASSUME NEW frame
       PROVE  Fresh(frame)' <=> Fresh(frame)
  BY <1>2, <1>4 DEF Fresh, Alike, SameShape
<1>12. ASSUME NEW frame
       PROVE  PassOf(frame)' <=> PassOf(frame)
  BY <1>1, <1>2, <1>5, <1>11 DEF PassOf
<1>13. Fresh(Edited)' <=> Fresh(Edited)
  BY <1>2, <1>4, <1>5 DEF Fresh, Alike, SameShape
<1>14. ASSUME NEW frame
       PROVE  Base(frame)' = Base(frame)
  BY <1>2, <1>7 DEF Base
<1>15. ASSUME NEW frame
       PROVE  Filled(frame)' <=> Filled(frame)
  BY <1>2, <1>4, <1>10 DEF Filled
<1> QED BY <1>2, <1>3, <1>4, <1>5, <1>6, <1>7, <1>8, <1>10, <1>12, <1>13, <1>14, <1>15

\* So it is enough to see where the loop has come to.
LEMMA LoopsGoOn ==
  ASSUME LoopsInv, UNCHANGED testVars, pc' = "crc" => flipped = 0,
         WithCrc' => Filled(bits)',
         pc' # "erase" => \E frame : PassOf(frame) /\ LoopAt(frame)'
  PROVE  LoopsInv'
<1>1. updated' = updated /\ flipped' = flipped /\ edited' = edited
  BY DEF testVars
<1>2. FlippedInv'
  BY <1>1, SamePass DEF LoopsInv, FlippedInv
<1>3. pc' # "erase" => \E frame : PassOf(frame)' /\ LoopAt(frame)'
  BY SamePass
<1> QED BY <1>2, <1>3 DEF LoopsInv

\* A frame that has its CRC keeps it where stuff bits are inserted.
LEMMA FilledInserted ==
  ASSUME TypeInv, NEW frame \in Seq(BitType), Filled(frame), NEW place, Placed(place, frame, Built),
         NEW i \in 2 .. Len(frame), NEW stuff \in BitType, IsStuff(stuff)
  PROVE  Filled(InsertBit(frame, i, stuff))
<1> PICK new : new = InsertBit(frame, i, stuff)
  OBVIOUS
<1>1. Placed(MovedUp(place, i), new, Built) /\ Len(Built) \in Nat \ {0}
  BY BuiltFacts, PlacedMovedUp
<1>2. Len(new) \in Nat
  <2>1. i \in 1 .. Len(frame) + 1
    OBVIOUS
  <2>2. InsertedAt(new, frame, i, stuff)
    BY <2>1, Inserted
  <2> QED BY <2>2 DEF InsertedAt
<1>3. ASSUME NEW other, Placed(other, new, Built), NEW j \in 1 .. GoldenCrcLen
      PROVE  new[other[First(content) + j]].val = Value(j)
  <2>1. PICK k \in 1 .. Len(Built) : k = First(content) + j
    <3>1. First(content) + j \in 1 .. Len(Built)
      BY Sizes
    <3> QED BY <3>1
  <2>2. other[k] = MovedUp(place, i)[k]
    BY <1>1, <1>2, <1>3, PlacedOnce
  <2>3. new[MovedUp(place, i)[k]] = frame[place[k]]
    <3>1. place \in [1 .. Len(Built) -> 1 .. Len(frame)] /\ Len(Built) \in Nat
      BY <1>1 DEF Placed
    <3> QED BY <3>1, MovedUpBits
  <2>4. frame[place[k]].val = Value(j)
    BY <2>1 DEF Filled
  <2> QED BY <2>1, <2>2, <2>3, <2>4
<1> QED BY <1>3 DEF Filled

\* Or erased.
LEMMA FilledRemoved ==
  ASSUME TypeInv, NEW frame \in Seq(BitType), Filled(frame), NEW place, Placed(place, frame, Built),
         NEW i \in 2 .. Len(frame) - 1, IsStuff(frame[i])
  PROVE  Filled(RemoveAt(frame, i))
<1> PICK new : new = RemoveAt(frame, i)
  OBVIOUS
<1>1. Placed(MovedDown(place, i), new, Built) /\ Len(Built) \in Nat \ {0}
  BY BuiltFacts, PlacedMovedDown
<1>2. Len(new) \in Nat /\ i \in 1 .. Len(frame)
  <2>1. i \in 1 .. Len(frame)
    OBVIOUS
  <2>2. RemovedAt(new, frame, i)
    BY <2>1, Removed
  <2> QED BY <2>1, <2>2 DEF RemovedAt
<1>3. ASSUME NEW other, Placed(other, new, Built), NEW j \in 1 .. GoldenCrcLen
      PROVE  new[other[First(content) + j]].val = Value(j)
  <2>1. PICK k \in 1 .. Len(Built) : k = First(content) + j
    <3>1. First(content) + j \in 1 .. Len(Built)
      BY Sizes
    <3> QED BY <3>1
  <2>2. other[k] = MovedDown(place, i)[k]
    BY <1>1, <1>2, <1>3, PlacedOnce
  <2>3. new[MovedDown(place, i)[k]] = frame[place[k]]
    <3>1. place \in [1 .. Len(Built) -> 1 .. Len(frame)] /\ Len(Built) \in Nat
      BY <1>1 DEF Placed
    <3>2. place[k] # i
      <4>1. ~IsStuff(frame[place[k]])
        BY DEF Placed
      <4> QED BY <4>1
    <3> QED BY <1>2, <3>1, <3>2, MovedDownBits
  <2>4. frame[place[k]].val = Value(j)
    BY <2>1 DEF Filled
  <2> QED BY <2>1, <2>2, <2>3, <2>4
<1> QED BY <1>3 DEF Filled

-----------------------------------------------------------------------------
(* Steps of InsertNormalStuffBits.                                         *)

\* The frame the loop runs over, and where it ends.
LEMMA BaseFacts ==
  ASSUME TypeInv, NEW frame, PassOf(frame)
  PROVE  /\ FreshKinds(Base(frame)) /\ Base(frame) \in Seq(UnfixedBits)
         /\ EndOfStuffing(Base(frame)) = StuffEnd /\ StuffEnd \in Nat /\ StuffEnd > 2
         /\ StuffEnd < Len(Base(frame)) /\ Base(frame)[StuffEnd].kind \in EndKinds
         /\ NoneBefore(StuffEnd, EndKinds, Base(frame))
<1>1. FreshKinds(frame)
  BY FreshHasKinds DEF PassOf
<1>2. FreshKinds(Base(frame))
  BY <1>1, SealedField DEF Base
<1>3. Base(frame) \in Seq(UnfixedBits)
  BY <1>2, FreshUnfixed
<1> QED BY <1>2, <1>3, StuffEndFound

\* The loop is at a bit of its frame; it is through at one of the kinds with which
\* stuffing ends.
LEMMA StuffLoopState ==
  ASSUME TypeInv, NEW frame, PassOf(frame), NEW trace, NEW k \in 0 .. StuffEnd - 2, NEW acc,
         InStuffLoop(Base(frame), StuffEnd, trace, k, bits, at, acc)
  PROVE  /\ bits[at] = Base(frame)[2 + k] /\ bits[at + 1] = Base(frame)[2 + k + 1]
         /\ at \in 1 .. Len(bits) /\ acc \in StuffAcc
         /\ bits[at].kind \in EndKinds <=> k = StuffEnd - 2
<1> PICK base : base = Base(frame)
  OBVIOUS
<1> PICK new, i : new = bits /\ i = at
  OBVIOUS
<1>1. /\ base \in Seq(UnfixedBits) /\ StuffEnd \in Nat /\ StuffEnd > 2 /\ StuffEnd < Len(base)
      /\ base[StuffEnd].kind \in EndKinds /\ NoneBefore(StuffEnd, EndKinds, base)
  BY BaseFacts
<1>2. /\ trace[k].out \in Seq(BitType) /\ acc \in StuffAcc
      /\ new \in Seq(BitType) /\ i \in 1 .. Len(new) /\ i > 1
      /\ new[i] = base[2 + k] /\ new[i + 1] = base[2 + k + 1]
  <2>1. PICK end \in Nat : end = StuffEnd
    BY <1>1
  <2>2. InStuffLoop(base, end, trace, k, new, i, acc) /\ k \in 0 .. end - 2 /\ end > 2 /\ end < Len(base)
    BY <1>1, <2>1
  <2>3. trace[k].out \in Seq(BitType) /\ acc \in StuffAcc /\ new \in Seq(BitType)
    BY <1>1, <2>2, StuffLoopIsAt
  <2>4. i \in 1 .. Len(new) /\ i > 1
    BY <1>1, <2>2, StuffLoopIsAt
  <2>5. AtBit(new, i, base, k)
    BY <1>1, <2>2, StuffLoopIsAt
  <2>6. new[i] = base[2 + k] /\ new[i + 1] = base[2 + k + 1]
    BY <2>5 DEF AtBit
  <2> QED BY <2>3, <2>4, <2>6
<1>3. base[2 + k].kind \in EndKinds <=> k = StuffEnd - 2
  <2>1. CASE k = StuffEnd - 2
    <3>1. 2 + k = StuffEnd
      BY <1>1, <2>1
    <3> QED BY <1>1, <2>1, <3>1
  <2>2. CASE k # StuffEnd - 2
    <3>1. 2 + k \in 1 .. StuffEnd - 1
      BY <1>1, <2>2
    <3> QED BY <1>1, <2>2, <3>1 DEF NoneBefore
  <2> QED BY <2>1, <2>2
<1> QED BY <1>2, <1>3

\* A round goes over the bit the loop is at.
LEMMA StuffRound ==
  ASSUME TypeInv, Stuffing, NEW frame, PassOf(frame), NEW trace, NEW k \in 0 .. StuffEnd - 2,
         InStuffLoop(Base(frame), StuffEnd, trace, k, bits, at, [same |-> same, prev |-> prev, cnt |-> stuff_cnt]),
         NEW round, round = StuffStep(Base(frame), [same |-> same, prev |-> prev, cnt |-> stuff_cnt], k + 2)
  PROVE  /\ k < StuffEnd - 2 /\ k + 1 \in 0 .. StuffEnd - 2
         /\ ~StuffDue => round = [out |-> <<bits[at]>>,
                                  acc |-> [same |-> SameBits, prev |-> bits[at].val, cnt |-> stuff_cnt]]
         /\ StuffDue => round = [out |-> <<bits[at], Bit(bits[at].kind, Opposite(bits[at].val), "Normal")>>,
                                 acc |-> [same |-> RunAfterStuff, prev |-> Opposite(bits[at].val),
                                          cnt |-> (stuff_cnt + 1) % 8]]
<1> PICK acc : acc = [same |-> same, prev |-> prev, cnt |-> stuff_cnt]
  OBVIOUS
<1> PICK base : base = Base(frame)
  OBVIOUS
<1>1. /\ bits[at] = base[2 + k] /\ bits[at + 1] = base[2 + k + 1]
      /\ at \in 1 .. Len(bits) /\ acc \in StuffAcc
      /\ bits[at].kind \in EndKinds <=> k = StuffEnd - 2
  BY StuffLoopState
<1>2. StuffEnd \in Nat
  BY BaseFacts
<1>3. k < StuffEnd - 2 /\ k + 1 \in 0 .. StuffEnd - 2
  BY <1>1, <1>2 DEF Stuffing
<1>4. base[k + 2] = bits[at] /\ base[(k + 2) + 1] = bits[at + 1]
  <2>1. k + 2 = 2 + k /\ (k + 2) + 1 = 2 + k + 1
    OBVIOUS
  <2> QED BY <1>1, <2>1
<1>5. acc.same = same /\ acc.prev = prev /\ acc.cnt = stuff_cnt
  OBVIOUS
<1>6. StuffsAfter(base, k + 2) <=> StuffsAfter(bits, at)
  BY <1>4 DEF StuffsAfter
<1>7. (IF base[k + 2].val = acc.prev THEN acc.same + 1 ELSE 1) = SameBits
  BY <1>4, <1>5 DEF SameBits
<1>8. round = IF SameBits = 5 /\ StuffsAfter(bits, at)
              THEN [out |-> <<bits[at], Bit(bits[at].kind, Opposite(bits[at].val), "Normal")>>,
                    acc |-> [same |-> RunAfterStuff,
                             prev |-> Bit(bits[at].kind, Opposite(bits[at].val), "Normal").val,
                             cnt |-> (stuff_cnt + 1) % 8]]
              ELSE [out |-> <<bits[at]>>,
                    acc |-> [same |-> SameBits, prev |-> bits[at].val, cnt |-> stuff_cnt]]
  BY <1>4, <1>5, <1>6, <1>7 DEF StuffStep
<1>9. Bit(bits[at].kind, Opposite(bits[at].val), "Normal").val = Opposite(bits[at].val)
  BY DEF Bit
<1> QED BY <1>3, <1>8, <1>9 DEF StuffDue

\* InsertNormalStuffBits passes a bit.
LEMMA PassBitLoops ==
  ASSUME FrameInv, LoopsInv, PassBit
  PROVE  LoopsInv'
<1>1. TypeInv /\ Stuffing /\ ~StuffDue /\ pc = "stuff" /\ pc' = pc /\ UNCHANGED testVars
  BY DEF FrameInv, PassBit, Stuffing
<1>2. bits' = bits /\ at' = at + 1 /\ same' = SameBits /\ prev' = bits[at].val /\ stuff_cnt' = stuff_cnt
  BY DEF PassBit
<1>3. PICK frame : PassOf(frame) /\ LoopAt(frame)
  BY <1>1 DEF LoopsInv
<1>4. PICK trace : \E k \in 0 .. StuffEnd - 2 :
        InStuffLoop(Base(frame), StuffEnd, trace, k, bits, at, [same |-> same, prev |-> prev, cnt |-> stuff_cnt])
  BY <1>1, <1>3 DEF LoopAt, StuffLoop
<1>5. PICK k \in 0 .. StuffEnd - 2 :
        InStuffLoop(Base(frame), StuffEnd, trace, k, bits, at, [same |-> same, prev |-> prev, cnt |-> stuff_cnt])
  BY <1>4
<1>6. PICK round : round = StuffStep(Base(frame), [same |-> same, prev |-> prev, cnt |-> stuff_cnt], k + 2)
  OBVIOUS
<1>7. k < StuffEnd - 2 /\ k + 1 \in 0 .. StuffEnd - 2
      /\ round = [out |-> <<bits[at]>>, acc |-> [same |-> SameBits, prev |-> bits[at].val, cnt |-> stuff_cnt]]
  BY <1>1, <1>3, <1>5, <1>6, StuffRound
<1>8. round.out = <<Base(frame)[2 + k]>>
      /\ round.acc = [same |-> same', prev |-> prev', cnt |-> stuff_cnt']
  <2>1. bits[at] = Base(frame)[2 + k]
    BY <1>1, <1>3, <1>5, StuffLoopState
  <2> QED BY <1>2, <1>7, <2>1
<1>9. InStuffLoop(Base(frame), StuffEnd, trace, k + 1, bits, at + 1, round.acc)
  <2>1. PICK acc : acc = [same |-> same, prev |-> prev, cnt |-> stuff_cnt]
    OBVIOUS
  <2>2. PICK base : base = Base(frame)
    OBVIOUS
  <2>3. base \in Seq(UnfixedBits) /\ StuffEnd \in Nat /\ StuffEnd > 2 /\ StuffEnd < Len(base)
    BY <1>1, <1>3, <2>2, BaseFacts
  <2>4. InStuffLoop(base, StuffEnd, trace, k, bits, at, acc) /\ round = StuffStep(base, acc, k + 2)
        /\ round.out = <<base[2 + k]>>
    BY <1>5, <1>6, <1>8, <2>1, <2>2
  <2>5. InStuffLoop(base, StuffEnd, trace, k + 1, bits, at + 1, round.acc)
    BY <1>7, <2>3, <2>4, StuffLoopGoesOn
  <2> QED BY <2>2, <2>5
<1>10. StuffLoop(Base(frame))'
  <2>1. InStuffLoop(Base(frame)', StuffEnd', trace, k + 1, bits', at', [same |-> same', prev |-> prev', cnt |-> stuff_cnt'])
    BY <1>1, <1>2, <1>8, <1>9, SamePass
  <2>2. k + 1 \in 0 .. StuffEnd' - 2
    BY <1>1, <1>7, SamePass
  <2> QED BY <2>1, <2>2 DEF StuffLoop
<1>11. LoopAt(frame)'
  BY <1>1, <1>10 DEF LoopAt
<1>12. WithCrc' => Filled(bits)'
  <2>1. WithCrc' <=> WithCrc
    BY <1>1, SamePass DEF WithCrc, testVars
  <2>2. PICK new : new = bits
    OBVIOUS
  <2>3. Filled(new)' <=> Filled(new)
    BY <1>1, SamePass
  <2>4. WithCrc => Filled(new)
    BY <2>2 DEF LoopsInv
  <2>5. bits' = new
    BY <1>2, <2>2
  <2>6. Filled(bits)' <=> Filled(new)'
    BY <2>5 DEF Filled
  <2> QED BY <2>1, <2>3, <2>4, <2>6
<1> QED BY <1>1, <1>3, <1>11, <1>12, LoopsGoOn

\* A frame that has its CRC, and stays what it is.
LEMMA StaysFilled ==
  ASSUME LoopsInv, UNCHANGED testVars, bits' = bits, WithCrc' => WithCrc
  PROVE  WithCrc' => Filled(bits)'
<1>1. PICK new : new = bits
  OBVIOUS
<1>2. Filled(new)' <=> Filled(new)
  BY SamePass
<1>3. WithCrc => Filled(new)
  BY <1>1 DEF LoopsInv
<1>4. Filled(bits)' <=> Filled(new)'
  BY <1>1 DEF Filled
<1> QED BY <1>2, <1>3, <1>4

\* InsertNormalStuffBits inserts a stuff bit.
LEMMA InsertStuffBitLoops ==
  ASSUME FrameInv, LoopsInv, InsertStuffBit
  PROVE  LoopsInv'
<1> PICK b : b = Bit(bits[at].kind, Opposite(bits[at].val), "Normal")
  OBVIOUS
<1>1. TypeInv /\ Stuffing /\ StuffDue /\ pc = "stuff" /\ pc' = pc /\ UNCHANGED testVars
  BY DEF FrameInv, InsertStuffBit, Stuffing
<1>2. bits' = InsertBit(bits, at + 1, b) /\ at' = at + 2 /\ same' = RunAfterStuff
      /\ prev' = b.val /\ stuff_cnt' = (stuff_cnt + 1) % 8
  BY DEF InsertStuffBit
<1>3. PICK place : Placed(place, bits, Built) /\ PhaseInv(place)
  BY DEF FrameInv
<1>4. at \in 2 .. Len(bits) - 1 /\ Len(bits) \in Nat /\ bits \in Seq(BitType)
  BY <1>1, <1>3, StuffPhase DEF TypeInv
<1>5. b \in BitType /\ IsStuff(b) /\ b.val = Opposite(bits[at].val)
  <2>1. bits[at] \in BitType /\ bits[at].val \in {Dominant, Recessive} /\ bits[at].kind \in AllKinds
    <3>1. at \in 1 .. Len(bits)
      BY <1>4
    <3> QED BY <1>4, <3>1, BitValues
  <2>2. Opposite(bits[at].val) \in {Dominant, Recessive}
    BY <2>1 DEF Opposite, Dominant, Recessive
  <2> QED BY <2>1, <2>2 DEF Bit, BitType, IsStuff
<1>6. PICK frame : PassOf(frame) /\ LoopAt(frame)
  BY <1>1 DEF LoopsInv
<1>7. PICK trace : \E k \in 0 .. StuffEnd - 2 :
        InStuffLoop(Base(frame), StuffEnd, trace, k, bits, at, [same |-> same, prev |-> prev, cnt |-> stuff_cnt])
  BY <1>1, <1>6 DEF LoopAt, StuffLoop
<1>8. PICK k \in 0 .. StuffEnd - 2 :
        InStuffLoop(Base(frame), StuffEnd, trace, k, bits, at, [same |-> same, prev |-> prev, cnt |-> stuff_cnt])
  BY <1>7
<1>9. PICK round : round = StuffStep(Base(frame), [same |-> same, prev |-> prev, cnt |-> stuff_cnt], k + 2)
  OBVIOUS
<1>10. k < StuffEnd - 2 /\ k + 1 \in 0 .. StuffEnd - 2
       /\ round = [out |-> <<bits[at], b>>,
                   acc |-> [same |-> RunAfterStuff, prev |-> Opposite(bits[at].val), cnt |-> (stuff_cnt + 1) % 8]]
  BY <1>1, <1>6, <1>8, <1>9, StuffRound
<1>11. round.out = <<Base(frame)[2 + k], b>>
       /\ round.acc = [same |-> same', prev |-> prev', cnt |-> stuff_cnt']
  <2>1. bits[at] = Base(frame)[2 + k]
    BY <1>1, <1>6, <1>8, StuffLoopState
  <2> QED BY <1>2, <1>5, <1>10, <2>1
<1>12. InStuffLoop(Base(frame), StuffEnd, trace, k + 1, InsertBit(bits, at + 1, b), at + 2, round.acc)
  <2>1. PICK acc : acc = [same |-> same, prev |-> prev, cnt |-> stuff_cnt]
    OBVIOUS
  <2>2. PICK base : base = Base(frame)
    OBVIOUS
  <2>3. base \in Seq(UnfixedBits) /\ StuffEnd \in Nat /\ StuffEnd > 2 /\ StuffEnd < Len(base)
    BY <1>1, <1>6, <2>2, BaseFacts
  <2>4. InStuffLoop(base, StuffEnd, trace, k, bits, at, acc) /\ round = StuffStep(base, acc, k + 2)
        /\ round.out = <<base[2 + k], b>>
    BY <1>8, <1>9, <1>11, <2>1, <2>2
  <2>5. InStuffLoop(base, StuffEnd, trace, k + 1, InsertBit(bits, at + 1, b), at + 2, round.acc)
    BY <1>5, <1>10, <2>3, <2>4, StuffLoopGoesOn
  <2> QED BY <2>2, <2>5
<1>13. StuffLoop(Base(frame))'
  <2>1. InStuffLoop(Base(frame)', StuffEnd', trace, k + 1, bits', at', [same |-> same', prev |-> prev', cnt |-> stuff_cnt'])
    BY <1>1, <1>2, <1>11, <1>12, SamePass
  <2>2. k + 1 \in 0 .. StuffEnd' - 2
    BY <1>1, <1>10, SamePass
  <2> QED BY <2>1, <2>2 DEF StuffLoop
<1>14. LoopAt(frame)'
  BY <1>1, <1>13 DEF LoopAt
<1>15. WithCrc' => Filled(bits)'
  <2>1. WithCrc' <=> WithCrc
    BY <1>1, SamePass DEF WithCrc, testVars
  <2>2. PICK new, old : new = bits' /\ old = bits
    OBVIOUS
  <2>3. Filled(new)' <=> Filled(new)
    BY <1>1, SamePass
  <2>4. WithCrc => Filled(old)
    BY <2>2 DEF LoopsInv
  <2>5. ASSUME Filled(old)
        PROVE  Filled(new)
    <3>1. at + 1 \in 2 .. Len(old)
      BY <1>4, <2>2
    <3>2. new = InsertBit(old, at + 1, b) /\ old \in Seq(BitType) /\ Placed(place, old, Built)
      BY <1>2, <1>3, <1>4, <2>2
    <3> QED BY <1>1, <1>5, <2>5, <3>1, <3>2, FilledInserted
  <2>6. Filled(bits)' <=> Filled(new)'
    BY <2>2 DEF Filled
  <2> QED BY <2>1, <2>3, <2>4, <2>5, <2>6
<1> QED BY <1>1, <1>6, <1>14, <1>15, LoopsGoOn

\* CAN: the frame is what InsertNormalStuffBits makes of it.
LEMMA EndNormalStuffLoops ==
  ASSUME FrameInv, LoopsInv, EndNormalStuff
  PROVE  LoopsInv'
<1>1. TypeInv /\ pc = "stuff" /\ bits[at].kind \in EndKinds /\ IsCan20 /\ pc' = "done" /\ UNCHANGED testVars
      /\ bits' = bits
  BY DEF FrameInv, EndNormalStuff
<1>2. PICK frame : PassOf(frame) /\ LoopAt(frame)
  BY <1>1 DEF LoopsInv
<1> PICK acc : acc = [same |-> same, prev |-> prev, cnt |-> stuff_cnt]
  OBVIOUS
<1>3. PICK trace : \E k \in 0 .. StuffEnd - 2 : InStuffLoop(Base(frame), StuffEnd, trace, k, bits, at, acc)
  BY <1>1, <1>2 DEF LoopAt, StuffLoop
<1>4. PICK k \in 0 .. StuffEnd - 2 : InStuffLoop(Base(frame), StuffEnd, trace, k, bits, at, acc)
  BY <1>3
<1>5. k = StuffEnd - 2
  BY <1>1, <1>2, <1>4, StuffLoopState
<1>6. InsertNormalStuffBits(Base(frame)) = [bits |-> bits, cnt |-> acc.cnt]
  <2>1. PICK base : base = Base(frame)
    OBVIOUS
  <2>2. base \in Seq(UnfixedBits) /\ StuffEnd \in Nat /\ StuffEnd > 2 /\ StuffEnd < Len(base)
        /\ EndOfStuffing(base) = StuffEnd
    BY <1>1, <1>2, <2>1, BaseFacts
  <2>3. InStuffLoop(base, StuffEnd, trace, StuffEnd - 2, bits, at, acc)
    BY <1>4, <1>5, <2>1
  <2>4. InsertNormalStuffBits(base) = [bits |-> bits, cnt |-> acc.cnt]
    BY <2>2, <2>3, StuffLoopEnds
  <2> QED BY <2>1, <2>4
<1>7. bits = Made(frame)
  BY <1>1, <1>6 DEF Made, Base
<1>8. LoopAt(frame)'
  BY <1>1, <1>7, SamePass DEF LoopAt
<1>9. WithCrc' => Filled(bits)'
  <2>1. WithCrc
    BY <1>1 DEF WithCrc
  <2> QED BY <1>1, <2>1, StaysFilled
<1> QED BY <1>1, <1>2, <1>8, <1>9, LoopsGoOn

-----------------------------------------------------------------------------
(* Steps of what calculates the CRC.                                       *)

\* A frame has its CRC where it has been built or written.
LEMMA FilledFrom ==
  ASSUME TypeInv, NEW new, NEW p, CrcField(new, p), NEW place, Placed(place, new, Built),
         PlainFrom(p, place, new, Built), \A j \in 1 .. GoldenCrcLen : new[(p - 1) + j].val = Value(j)
  PROVE  Filled(new)
<1>1. /\ GoldenCrcLen \in Nat /\ First(content) \in Nat /\ Len(Built) \in Nat
      /\ Len(Built) > First(content) + GoldenCrcLen + 1
  BY Sizes
<1>2. /\ new \in Seq(BitType) /\ Len(new) \in Nat /\ p \in Nat /\ p > 1 /\ p + GoldenCrcLen < Len(new)
      /\ Len(new) = (p - 1) + (Len(Built) - First(content))
  BY DEF CrcField
<1>3. ASSUME NEW other, Placed(other, new, Built), NEW j \in 1 .. GoldenCrcLen
      PROVE  new[other[First(content) + j]].val = Value(j)
  <2>1. PICK q \in p .. Len(new) : q = (p - 1) + j
    <3>1. (p - 1) + j \in p .. Len(new)
      BY <1>1, <1>2
    <3> QED BY <3>1
  <2>2. PICK k \in 1 .. Len(Built) : k = First(content) + j
    <3>1. First(content) + j \in 1 .. Len(Built)
      BY <1>1
    <3> QED BY <3>1
  <2>3. q - (Len(new) - Len(Built)) = k
    BY <1>1, <1>2, <2>1, <2>2
  <2>4. place[k] = q
    BY <2>3 DEF PlainFrom
  <2>5. other[k] = place[k]
    BY <1>1, <1>2, <1>3, PlacedOnce
  <2>6. new[q].val = Value(j)
    BY <2>1
  <2> QED BY <2>2, <2>4, <2>5, <2>6
<1> QED BY <1>3 DEF Filled

\* CAN FD: what the stuff count is written into is what the CRC is calculated from.
LEMMA CountedIsSource ==
  ASSUME TypeInv, WriteStuffCnt, NEW frame, PassOf(frame), LoopAt(frame)
  PROVE  bits' = CrcSource(frame)
<1>1. pc = "stuff" /\ bits[at].kind \in EndKinds /\ ~IsCan20
      /\ bits' = UpdateStuffCnt([bits |-> bits, cnt |-> stuff_cnt])
  BY DEF WriteStuffCnt
<1> PICK acc : acc = [same |-> same, prev |-> prev, cnt |-> stuff_cnt]
  OBVIOUS
<1>3. PICK trace : \E k \in 0 .. StuffEnd - 2 : InStuffLoop(Base(frame), StuffEnd, trace, k, bits, at, acc)
  BY <1>1 DEF LoopAt, StuffLoop
<1>4. PICK k \in 0 .. StuffEnd - 2 : InStuffLoop(Base(frame), StuffEnd, trace, k, bits, at, acc)
  BY <1>3
<1>5. k = StuffEnd - 2
  BY <1>1, <1>4, StuffLoopState
<1>6. InsertNormalStuffBits(Base(frame)) = [bits |-> bits, cnt |-> acc.cnt]
  <2>1. PICK base : base = Base(frame)
    OBVIOUS
  <2>2. base \in Seq(UnfixedBits) /\ StuffEnd \in Nat /\ StuffEnd > 2 /\ StuffEnd < Len(base)
        /\ EndOfStuffing(base) = StuffEnd
    BY <2>1, BaseFacts
  <2>3. InStuffLoop(base, StuffEnd, trace, StuffEnd - 2, bits, at, acc)
    BY <1>4, <1>5, <2>1
  <2>4. InsertNormalStuffBits(base) = [bits |-> bits, cnt |-> acc.cnt]
    BY <2>2, <2>3, StuffLoopEnds
  <2> QED BY <2>1, <2>4
<1>7. Base(frame) = frame
  BY <1>1 DEF Base
<1>8. InsertNormalStuffBits(frame) = [bits |-> bits, cnt |-> stuff_cnt]
  BY <1>6, <1>7
<1> QED BY <1>1, <1>8 DEF CrcSource

\* UpdateStuffCnt is done, and the frame is the one the CRC is computed over.
LEMMA WriteStuffCntLoops ==
  ASSUME FrameInv, LoopsInv, WriteStuffCnt
  PROVE  LoopsInv'
<1>1. TypeInv /\ pc = "stuff" /\ ~IsCan20 /\ UNCHANGED testVars
  BY DEF FrameInv, WriteStuffCnt
<1>2. PICK frame : PassOf(frame) /\ LoopAt(frame)
  BY <1>1 DEF LoopsInv
<1>3. bits' = CrcSource(frame)
  BY <1>1, <1>2, CountedIsSource
<1>4. PICK new, p : new = bits' /\ p = FirstOf(new, "Crc")
  OBVIOUS
<1>5. FreshKinds(frame)
  BY <1>1, <1>2, FreshHasKinds DEF PassOf
<1>6. CrcField(new, p)
  BY <1>1, <1>3, <1>4, <1>5, SourceField
<1>7. PICK len \in {15, 17, 21} : len = GoldenCrcLen
  BY <1>1, Sizes
<1>8. new \in Seq(BitType) /\ p \in Nat /\ p > 1 /\ p + len < Len(new) /\ Len(new) \in Nat
  BY <1>6, <1>7 DEF CrcField
<1>9. CASE flipped = 0
  <2>1. pc' = "crc" /\ at' = 1 /\ crc' = CrcInit(len)
    BY <1>7, <1>9 DEF WriteStuffCnt, BeginCrc
  <2>2. PICK trace : InCrcLoop(new, len, p, trace, 1, CrcInit(len))
    BY <1>4, <1>8, CrcLoopBegins
  <2>3. CrcLoop'
    <3>1. InCrcLoop(bits', GoldenCrcLen', FirstOf(bits', "Crc"), trace, at', crc')
      BY <1>1, <1>4, <1>7, <2>1, <2>2, SamePass
    <3> QED BY <3>1 DEF CrcLoop
  <2>4. LoopAt(frame)'
    BY <1>1, <1>3, <2>1, <2>3, SamePass DEF LoopAt
  <2>5. ~WithCrc'
    BY <1>1, <1>9, <2>1 DEF WithCrc, testVars
  <2> QED BY <1>1, <1>2, <1>9, <2>4, <2>5, LoopsGoOn
<1>10. CASE flipped # 0
  <2>1. pc' = "fixed" /\ at' = p /\ same' = 0
    BY <1>4, <1>10 DEF WriteStuffCnt, BeginFixedStuff
  <2>2. Sealed(frame) = new
    BY <1>3, <1>4, <1>10 DEF Sealed
  <2>3. PICK trace : InFixedLoop(new, p, len, trace, 0, new, p)
    <3>1. p > 0 /\ len \in Nat /\ len > 0 /\ p + len <= Len(new)
      BY <1>8
    <3> QED BY <1>8, <3>1, FixedLoopBegins
  <2>4. FixedLoop(Sealed(frame))'
    <3>1. Sealed(frame)' = new /\ GoldenCrcLen' = len
      BY <1>1, <1>7, <2>2, SamePass
    <3>2. same' \in 0 .. GoldenCrcLen'
      BY <2>1, <3>1
    <3>3. InFixedLoop(Sealed(frame)', FirstOf(Sealed(frame)', "Crc"), GoldenCrcLen', trace, same', bits', at')
      BY <1>4, <2>1, <2>3, <3>1
    <3> QED BY <3>2, <3>3 DEF FixedLoop
  <2>5. LoopAt(frame)'
    BY <2>1, <2>4 DEF LoopAt
  <2>6. Filled(new)
    <3>1. FrameInv'
      BY WriteStuffCntStep
    <3>2. PICK place : Placed(place, bits', Built') /\ PhaseInv(place)'
      BY <3>1 DEF FrameInv
    <3>3. Placed(place, new, Built)
      BY <1>1, <1>4, <3>2, SamePass
    <3>4. PICK end : FixedStuffInv(place, end)'
      BY <1>1, <2>1, <3>2, SamePass DEF PhaseInv, StuffInv
    <3>5. PlainFrom(p, place, new, Built)
      BY <1>1, <1>4, <2>1, <3>4, SamePass DEF FixedStuffInv
    <3>6. ASSUME NEW j \in 1 .. GoldenCrcLen
          PROVE  new[(p - 1) + j].val = Value(j)
      <4>1. new[(p - 1) + j] = frame[First(content) + j]
        <5>1. Sourced(new, frame, p)
          BY <1>1, <1>3, <1>4, <1>5, SourceFound
        <5>2. j \in 1 .. Len(frame) - First(content)
          <6>1. Len(frame) = Len(Built)
            BY <1>5 DEF FreshKinds
          <6> QED BY <1>1, <6>1, Sizes
        <5> QED BY <5>1, <5>2 DEF Sourced
      <4>2. frame[First(content) + j].val = Edited[First(content) + j].val
        BY <1>2, <1>10 DEF PassOf
      <4>3. Edited[First(content) + j].val = Value(j)
        BY <1>10 DEF LoopsInv, FlippedInv
      <4> QED BY <4>1, <4>2, <4>3
    <3> QED BY <1>1, <1>6, <3>3, <3>5, <3>6, FilledFrom
  <2>7. Filled(bits)'
    <3>1. Filled(new)'
      BY <1>1, <2>6, SamePass
    <3> QED BY <1>4, <3>1 DEF Filled
  <2> QED BY <1>1, <1>2, <2>1, <2>5, <2>7, LoopsGoOn
<1> QED BY <1>9, <1>10

\* CalcCrc goes on by a bit.
LEMMA ShiftCrcLoops ==
  ASSUME FrameInv, LoopsInv, ShiftCrc
  PROVE  LoopsInv'
<1>1. TypeInv /\ pc = "crc" /\ pc' = pc /\ bits[at].kind # "Crc" /\ UNCHANGED testVars
      /\ bits' = bits /\ at' = at + 1
      /\ crc' = IF Covered(GoldenCrcLen, bits[at]) THEN CrcStep(crc, bits[at].val) ELSE crc
  BY DEF FrameInv, ShiftCrc
<1>2. PICK frame : PassOf(frame) /\ LoopAt(frame)
  BY <1>1 DEF LoopsInv
<1>3. bits = CrcSource(frame) /\ CrcLoop
  BY <1>1, <1>2 DEF LoopAt
<1>4. PICK new, p, i : new = bits /\ p = FirstOf(new, "Crc") /\ i = at
  OBVIOUS
<1>5. FreshKinds(frame)
  BY <1>1, <1>2, FreshHasKinds DEF PassOf
<1>6. CrcField(new, p)
  BY <1>1, <1>3, <1>4, <1>5, SourceField
<1>7. PICK len \in {15, 17, 21} : len = GoldenCrcLen
  BY <1>1, Sizes
<1>8. PICK trace : InCrcLoop(new, len, p, trace, i, crc)
  BY <1>3, <1>4, <1>7 DEF CrcLoop
<1>9. p \in Nat /\ i \in Nat /\ i < p
  <2>1. p \in Nat /\ i \in 1 .. p
    BY <1>6, <1>8 DEF CrcField, InCrcLoop
  <2>2. i # p
    <3>1. 0 \in 0 .. GoldenCrcLen - 1 /\ p + 0 = p
      BY <1>7, <2>1
    <3>2. new[p].kind = "Crc"
      BY <1>6, <3>1 DEF CrcField
    <3> QED BY <1>1, <1>4, <3>2
  <2> QED BY <2>1, <2>2
<1>10. InCrcLoop(new, len, p, trace, i + 1,
                 IF Covered(len, new[i]) THEN CrcStep(crc, new[i].val) ELSE crc)
  BY <1>8, <1>9, CrcLoopGoesOn
<1>11. CrcLoop'
  <2>1. InCrcLoop(bits', GoldenCrcLen', FirstOf(bits', "Crc"), trace, at', crc')
    BY <1>1, <1>4, <1>7, <1>10, SamePass
  <2> QED BY <2>1 DEF CrcLoop
<1>12. LoopAt(frame)'
  BY <1>1, <1>3, <1>11, SamePass DEF LoopAt
<1>13. WithCrc' => Filled(bits)'
  <2>1. WithCrc' => WithCrc
    BY <1>1, SamePass DEF WithCrc, testVars
  <2> QED BY <1>1, <2>1, StaysFilled
<1>14. flipped = 0
  BY <1>1 DEF LoopsInv, FlippedInv
<1> QED BY <1>1, <1>2, <1>12, <1>13, <1>14, LoopsGoOn

\* SetCrc is done, with the CRC that is due.
LEMMA WriteCrcLoops ==
  ASSUME FrameInv, LoopsInv, WriteCrc
  PROVE  LoopsInv'
<1>1. TypeInv /\ pc = "crc" /\ bits[at].kind = "Crc" /\ UNCHANGED testVars
      /\ bits' = UpdateCrcBits(bits, crc)
  BY DEF FrameInv, WriteCrc
<1>2. PICK frame : PassOf(frame) /\ LoopAt(frame)
  BY <1>1 DEF LoopsInv
<1>3. bits = CrcSource(frame) /\ CrcLoop /\ flipped = 0
  BY <1>1, <1>2 DEF LoopAt, LoopsInv, FlippedInv
<1>4. PICK source, p, i : source = bits /\ p = FirstOf(source, "Crc") /\ i = at
  OBVIOUS
<1>5. FreshKinds(frame) /\ Fresh(frame)
  BY <1>1, <1>2, FreshHasKinds DEF PassOf
<1>6. CrcField(source, p)
  BY <1>1, <1>3, <1>4, <1>5, SourceField
<1>7. PICK len \in {15, 17, 21} : len = GoldenCrcLen
  BY <1>1, Sizes
<1>8. PICK trace : InCrcLoop(source, len, p, trace, i, crc)
  BY <1>3, <1>4, <1>7 DEF CrcLoop
<1>9. source \in Seq(BitType) /\ p \in Nat /\ p > 1 /\ p + len < Len(source) /\ Len(source) \in Nat
  BY <1>6, <1>7 DEF CrcField
<1>10. i = p
  <2>1. i \in 1 .. p /\ p \in 1 .. Len(source)
    BY <1>7, <1>8, <1>9 DEF InCrcLoop
  <2>2. PICK q \in 1 .. Len(source) : q = p
    BY <2>1
  <2>3. FirstOf(source, "Crc") = q
    BY <1>4, <2>2
  <2>4. NoneBefore(q, {"Crc"}, source)
    BY <1>9, <2>3, FoundIsOfKind
  <2>5. ~(i < q)
    <3> SUFFICES ASSUME i < q PROVE FALSE
      OBVIOUS
    <3>1. i \in 1 .. q - 1
      BY <2>1, <2>2
    <3>2. source[i].kind \notin {"Crc"}
      BY <2>4, <3>1 DEF NoneBefore
    <3> QED BY <1>1, <1>4, <3>2
  <2> QED BY <2>1, <2>2, <2>5
<1>11. crc = CalcCrc(source, len)
  <2>1. InCrcLoop(source, len, p, trace, p, crc) /\ FirstOf(source, "Crc") = p
    BY <1>4, <1>8, <1>10
  <2> QED BY <1>9, <2>1, CrcLoopEnds
<1>12. crc = DueCrc
  BY <1>1, <1>3, <1>4, <1>5, <1>7, <1>11, DueCrcOf
<1>13. PICK new : new = bits'
  OBVIOUS
<1>14. new = SetCrc(source, GoldenCrcLen)
  BY <1>1, <1>4, <1>7, <1>11, <1>13 DEF SetCrc
<1>15. new = Sealed(frame)
  BY <1>3, <1>4, <1>14 DEF Sealed
<1>16. WrittenOver(new, source, p, GoldenCrcLen, CalcCrc(source, GoldenCrcLen)) /\ CrcField(new, p)
  BY <1>1, <1>6, <1>14, CrcIsSet
<1>17. ASSUME NEW j \in 1 .. GoldenCrcLen
       PROVE  new[(p - 1) + j].val = Value(j)
  <2>1. PICK q \in 1 .. Len(source) : q = (p - 1) + j
    <3>1. (p - 1) + j \in 1 .. Len(source)
      BY <1>7, <1>9
    <3> QED BY <3>1
  <2>2. q \in p .. p + GoldenCrcLen - 1 /\ q - p + 1 = j
    BY <1>7, <1>9, <2>1
  <2>3. new[q].val = CalcCrc(source, GoldenCrcLen)[j]
    BY <1>16, <2>2 DEF WrittenOver
  <2>4. j # flipped
    BY <1>3
  <2> QED BY <1>7, <1>11, <1>12, <2>1, <2>3, <2>4 DEF Value
<1>18. PICK place : Placed(place, bits', Built') /\ PhaseInv(place)'
  <2>1. FrameInv'
    BY WriteCrcStep
  <2> QED BY <2>1 DEF FrameInv
<1>19. Placed(place, new, Built)
  BY <1>1, <1>13, <1>18, SamePass
<1>20. CASE IsCan20
  <2>1. pc' = "stuff" /\ at' = 2 /\ same' = 1 /\ prev' = Dominant /\ stuff_cnt' = 0
    BY <1>20 DEF WriteCrc, BeginNormalStuff
  <2>2. PICK base : base = Base(frame)
    OBVIOUS
  <2>3. base = new
    BY <1>15, <1>20, <2>2 DEF Base
  <2>4. base \in Seq(UnfixedBits) /\ StuffEnd \in Nat /\ StuffEnd > 2 /\ EndOfStuffing(base) = StuffEnd
    BY <1>1, <1>2, <2>2, BaseFacts
  <2>5. PICK other : InStuffLoop(base, StuffEnd, other, 0, base, 2, StuffFirst)
    BY <2>4, StuffLoopBegins
  <2>6. StuffLoop(Base(frame))'
    <3>1. Base(frame)' = base /\ StuffEnd' = StuffEnd
      BY <1>1, <2>2, SamePass
    <3>2. [same |-> same', prev |-> prev', cnt |-> stuff_cnt'] = StuffFirst
      BY <2>1 DEF StuffFirst
    <3>3. InStuffLoop(Base(frame)', StuffEnd', other, 0, bits', at', [same |-> same', prev |-> prev', cnt |-> stuff_cnt'])
      BY <1>13, <2>1, <2>3, <2>5, <3>1, <3>2
    <3>4. 0 \in 0 .. StuffEnd' - 2
      BY <2>4, <3>1
    <3> QED BY <3>3, <3>4 DEF StuffLoop
  <2>7. LoopAt(frame)'
    BY <2>1, <2>6 DEF LoopAt
  <2>8. Filled(new)
    <3>1. PlainFrom(2, place, new, Built)
      <4>1. NormalStuffInv(place)'
        BY <1>18, <2>1 DEF PhaseInv
      <4> QED BY <1>1, <1>13, <2>1, <4>1, SamePass DEF NormalStuffInv
    <3>2. PlainFrom(p, place, new, Built)
      <4>1. new \in Seq(BitType) /\ Len(new) = Len(source) /\ Len(Built) \in Nat
        BY <1>1, <1>16, Sizes DEF WrittenOver, SameShape
      <4>2. p \in 2 .. Len(new)
        BY <1>7, <1>9, <4>1
      <4> QED BY <3>1, <4>1, <4>2, PlainFromOn
    <3> QED BY <1>1, <1>16, <1>17, <1>19, <3>2, FilledFrom
  <2>9. Filled(bits)'
    <3>1. Filled(new)'
      BY <1>1, <2>8, SamePass
    <3> QED BY <1>13, <3>1 DEF Filled
  <2> QED BY <1>1, <1>2, <2>1, <2>7, <2>9, LoopsGoOn
<1>21. CASE ~IsCan20
  <2>1. FirstOf(new, "Crc") = p
    BY <1>16 DEF CrcField
  <2>2. pc' = "fixed" /\ at' = p /\ same' = 0
    BY <1>13, <1>21, <2>1 DEF WriteCrc, BeginFixedStuff
  <2>3. PICK other : InFixedLoop(new, p, len, other, 0, new, p)
    <3>1. new \in Seq(BitType) /\ p > 0 /\ len \in Nat /\ len > 0 /\ p + len <= Len(new)
      BY <1>7, <1>9, <1>16 DEF CrcField
    <3> QED BY <1>9, <3>1, FixedLoopBegins
  <2>4. FixedLoop(Sealed(frame))'
    <3>1. Sealed(frame)' = new /\ GoldenCrcLen' = len
      BY <1>1, <1>7, <1>15, SamePass
    <3>2. same' \in 0 .. GoldenCrcLen'
      BY <2>2, <3>1
    <3>3. InFixedLoop(Sealed(frame)', FirstOf(Sealed(frame)', "Crc"), GoldenCrcLen', other, same', bits', at')
      BY <1>13, <2>1, <2>2, <2>3, <3>1
    <3> QED BY <3>2, <3>3 DEF FixedLoop
  <2>5. LoopAt(frame)'
    BY <2>2, <2>4 DEF LoopAt
  <2>6. Filled(new)
    <3>1. PICK end : FixedStuffInv(place, end)'
      BY <1>1, <1>18, <1>21, <2>2, SamePass DEF PhaseInv, StuffInv
    <3>2. PlainFrom(p, place, new, Built)
      BY <1>1, <1>13, <2>2, <3>1, SamePass DEF FixedStuffInv
    <3> QED BY <1>1, <1>16, <1>17, <1>19, <3>2, FilledFrom
  <2>7. Filled(bits)'
    <3>1. Filled(new)'
      BY <1>1, <2>6, SamePass
    <3> QED BY <1>13, <3>1 DEF Filled
  <2> QED BY <1>1, <1>2, <2>2, <2>5, <2>7, LoopsGoOn
<1> QED BY <1>20, <1>21

-----------------------------------------------------------------------------
(* Steps of InsertFixedStuffToCrc.                                         *)

\* The loop is at a bit of the CRC, or behind it.
LEMMA FixedLoopState ==
  ASSUME TypeInv, NEW frame, PassOf(frame), FixedLoop(Sealed(frame)),
         NEW sealed, sealed = Sealed(frame), NEW p, p = FirstOf(sealed, "Crc")
  PROVE  /\ CrcField(sealed, p) /\ at \in 1 .. Len(bits)
         /\ bits[at].kind = "CrcDelim" <=> same = GoldenCrcLen
<1>1. CrcField(sealed, p)
  <2>1. FreshKinds(frame)
    BY FreshHasKinds DEF PassOf
  <2>2. CrcField(sealed, FirstOf(CrcSource(frame), "Crc"))
    BY <2>1, SealedField
  <2>3. FirstOf(sealed, "Crc") = FirstOf(CrcSource(frame), "Crc")
    BY <2>2 DEF CrcField
  <2> QED BY <2>2, <2>3
<1>2. sealed \in Seq(BitType) /\ p \in Nat /\ p > 1 /\ p + GoldenCrcLen < Len(sealed) /\ Len(sealed) \in Nat
  BY <1>1 DEF CrcField
<1>3. PICK len \in Nat : len = GoldenCrcLen
  BY Sizes
<1>4. PICK trace : InFixedLoop(sealed, p, len, trace, same, bits, at)
  BY <1>3 DEF FixedLoop
<1>5. PICK k \in 0 .. len : k = same
  BY <1>3 DEF FixedLoop
<1>6. PICK new, i : new = bits /\ i = at
  OBVIOUS
<1>7. InFixedLoop(sealed, p, len, trace, k, new, i) /\ p > 0 /\ p + len <= Len(sealed)
  BY <1>2, <1>3, <1>4, <1>5, <1>6
<1>8. trace[k].out \in Seq(BitType) /\ new \in Seq(BitType) /\ i \in 1 .. Len(new) /\ new[i] = sealed[p + k]
  <2>1. AtCrcBit(new, i, sealed, p, k)
    BY <1>2, <1>7, FixedLoopIsAt
  <2>2. new[i] = sealed[p + k]
    BY <2>1 DEF AtCrcBit
  <2>3. trace[k].out \in Seq(BitType)
    BY <1>2, <1>7, FixedLoopIsAt
  <2>4. new \in Seq(BitType) /\ i \in 1 .. Len(new)
    BY <1>2, <1>7, FixedLoopIsAt
  <2> QED BY <2>2, <2>3, <2>4
<1>9. CASE k = len
  <2>1. sealed[p + k].kind = "CrcDelim"
    BY <1>1, <1>3, <1>9 DEF CrcField
  <2> QED BY <1>1, <1>3, <1>5, <1>6, <1>8, <1>9, <2>1
<1>10. CASE k # len
  <2>1. k \in 0 .. GoldenCrcLen - 1
    BY <1>3, <1>10
  <2>2. sealed[p + k].kind = "Crc"
    BY <1>1, <2>1 DEF CrcField
  <2> QED BY <1>1, <1>3, <1>5, <1>6, <1>8, <1>10, <2>2
<1> QED BY <1>9, <1>10

\* InsertFixedStuffToCrc passes a bit.
LEMMA PassCrcBitLoops ==
  ASSUME FrameInv, LoopsInv, PassCrcBit
  PROVE  LoopsInv'
<1>1. TypeInv /\ pc = "fixed" /\ pc' = pc /\ bits[at].kind # "CrcDelim" /\ ~FixedStuffDue
      /\ UNCHANGED testVars /\ bits' = bits /\ at' = at + 1 /\ same' = same + 1
  BY DEF FrameInv, PassCrcBit
<1>2. PICK frame : PassOf(frame) /\ LoopAt(frame)
  BY <1>1 DEF LoopsInv
<1>3. FixedLoop(Sealed(frame))
  BY <1>1, <1>2 DEF LoopAt
<1>4. PICK sealed, p : sealed = Sealed(frame) /\ p = FirstOf(sealed, "Crc")
  OBVIOUS
<1>5. CrcField(sealed, p) /\ at \in 1 .. Len(bits) /\ same # GoldenCrcLen
  BY <1>1, <1>2, <1>3, <1>4, FixedLoopState
<1>6. PICK len \in Nat : len = GoldenCrcLen
  BY <1>1, Sizes
<1>7. PICK trace : InFixedLoop(sealed, p, len, trace, same, bits, at)
  BY <1>3, <1>4, <1>6 DEF FixedLoop
<1>8. same \in Nat /\ same < len /\ same + 1 \in 0 .. len
  BY <1>3, <1>5, <1>6 DEF FixedLoop
<1>9. sealed \in Seq(BitType) /\ p \in Nat /\ p > 0 /\ p + len <= Len(sealed)
  BY <1>5, <1>6 DEF CrcField
<1>10. PICK b : b = Bit("Crc", Opposite(bits[at].val), "Fixed")
  OBVIOUS
<1>11. b \in BitType
  <2>1. bits[at].val \in {Dominant, Recessive}
    BY <1>1, <1>5, BitValues DEF TypeInv
  <2>2. "Crc" \in AllKinds
    BY DEF AllKinds
  <2> QED BY <1>10, <2>1, <2>2, FixedStuffBit
<1>12. (same + 1) % CrcStuffEvery # 0
  BY <1>1 DEF FixedStuffDue
<1>13. InFixedLoop(sealed, p, len, trace, same + 1, bits, at + 1)
  BY <1>7, <1>8, <1>9, <1>10, <1>11, <1>12, FixedLoopGoesOn
<1>14. FixedLoop(Sealed(frame))'
  <2>1. Sealed(frame)' = sealed /\ GoldenCrcLen' = len
    BY <1>1, <1>4, <1>6, SamePass
  <2>2. same' \in 0 .. GoldenCrcLen'
    BY <1>1, <1>8, <2>1
  <2>3. InFixedLoop(Sealed(frame)', FirstOf(Sealed(frame)', "Crc"), GoldenCrcLen', trace, same', bits', at')
    BY <1>1, <1>4, <1>13, <2>1
  <2> QED BY <2>2, <2>3 DEF FixedLoop
<1>15. LoopAt(frame)'
  BY <1>1, <1>14 DEF LoopAt
<1>16. WithCrc' => Filled(bits)'
  <2>1. WithCrc
    BY <1>1 DEF WithCrc
  <2> QED BY <1>1, <2>1, StaysFilled
<1> QED BY <1>1, <1>2, <1>15, <1>16, LoopsGoOn

\* InsertFixedStuffToCrc inserts a stuff bit.
LEMMA InsertFixedStuffBitLoops ==
  ASSUME FrameInv, LoopsInv, InsertFixedStuffBit
  PROVE  LoopsInv'
<1>1. TypeInv /\ pc = "fixed" /\ pc' = pc /\ bits[at].kind # "CrcDelim" /\ FixedStuffDue
      /\ UNCHANGED testVars /\ bits' = FixedStuffBefore(bits, at + 1, "Crc") /\ at' = at + 2 /\ same' = same + 1
  BY DEF FrameInv, InsertFixedStuffBit
<1>2. PICK frame : PassOf(frame) /\ LoopAt(frame)
  BY <1>1 DEF LoopsInv
<1>3. FixedLoop(Sealed(frame))
  BY <1>1, <1>2 DEF LoopAt
<1>4. PICK sealed, p : sealed = Sealed(frame) /\ p = FirstOf(sealed, "Crc")
  OBVIOUS
<1>5. CrcField(sealed, p) /\ at \in 1 .. Len(bits) /\ same # GoldenCrcLen
  BY <1>1, <1>2, <1>3, <1>4, FixedLoopState
<1>6. PICK len \in Nat : len = GoldenCrcLen
  BY <1>1, Sizes
<1>7. PICK trace : InFixedLoop(sealed, p, len, trace, same, bits, at)
  BY <1>3, <1>4, <1>6 DEF FixedLoop
<1>8. same \in Nat /\ same < len /\ same + 1 \in 0 .. len
  BY <1>3, <1>5, <1>6 DEF FixedLoop
<1>9. sealed \in Seq(BitType) /\ p \in Nat /\ p > 0 /\ p + len <= Len(sealed)
  BY <1>5, <1>6 DEF CrcField
<1>10. PICK b : b = Bit("Crc", Opposite(bits[at].val), "Fixed")
  OBVIOUS
<1>11. b \in BitType /\ IsStuff(b)
  <2>1. bits[at].val \in {Dominant, Recessive}
    BY <1>1, <1>5, BitValues DEF TypeInv
  <2>2. "Crc" \in AllKinds
    BY DEF AllKinds
  <2> QED BY <1>10, <2>1, <2>2, FixedStuffBit
<1>12. (same + 1) % CrcStuffEvery = 0
  BY <1>1 DEF FixedStuffDue
<1>13. InFixedLoop(sealed, p, len, trace, same + 1, InsertBit(bits, at + 1, b), at + 2)
  BY <1>7, <1>8, <1>9, <1>10, <1>11, <1>12, FixedLoopGoesOn
<1>14. bits' = InsertBit(bits, at + 1, b)
  <2>1. (at + 1) - 1 = at
    BY <1>1 DEF TypeInv
  <2> QED BY <1>1, <1>10, <2>1 DEF FixedStuffBefore
<1>15. FixedLoop(Sealed(frame))'
  <2>1. Sealed(frame)' = sealed /\ GoldenCrcLen' = len
    BY <1>1, <1>4, <1>6, SamePass
  <2>2. same' \in 0 .. GoldenCrcLen'
    BY <1>1, <1>8, <2>1
  <2>3. InFixedLoop(Sealed(frame)', FirstOf(Sealed(frame)', "Crc"), GoldenCrcLen', trace, same', bits', at')
    BY <1>1, <1>4, <1>13, <1>14, <2>1
  <2> QED BY <2>2, <2>3 DEF FixedLoop
<1>16. LoopAt(frame)'
  BY <1>1, <1>15 DEF LoopAt
<1>17. Filled(bits)'
  <2>1. PICK place : Placed(place, bits, Built) /\ PhaseInv(place)
    BY DEF FrameInv
  <2>2. ~IsCan20 /\ StuffInv(place)
    BY <1>1, <2>1 DEF PhaseInv
  <2>3. PICK end \in 1 .. Len(bits) : FixedStuffInv(place, end)
    BY <2>2 DEF StuffInv
  <2>4. at \in end + 6 .. Len(bits) - 1 /\ Len(bits) \in Nat
    BY <1>1, <2>1, <2>2, <2>3, FixedPhase
  <2>5. PICK new, old : new = bits' /\ old = bits
    OBVIOUS
  <2>6. at + 1 \in 2 .. Len(old) /\ old \in Seq(BitType) /\ Placed(place, old, Built)
        /\ new = InsertBit(old, at + 1, b)
    BY <1>1, <1>14, <2>1, <2>4, <2>5 DEF TypeInv
  <2>7. Filled(old)
    BY <1>1, <2>5 DEF LoopsInv, WithCrc
  <2>8. Filled(new)
    BY <1>1, <1>11, <2>6, <2>7, FilledInserted
  <2>9. Filled(new)'
    BY <1>1, <2>8, SamePass
  <2> QED BY <2>5, <2>9 DEF Filled
<1> QED BY <1>1, <1>2, <1>16, <1>17, LoopsGoOn

\* InsertFixedStuffToCrc is done, at the CRC delimiter.
LEMMA EndFixedStuffLoops ==
  ASSUME FrameInv, LoopsInv, EndFixedStuff
  PROVE  LoopsInv'
<1>1. TypeInv /\ pc = "fixed" /\ pc' = "done" /\ bits[at].kind = "CrcDelim" /\ UNCHANGED testVars
      /\ bits' = bits
  BY DEF FrameInv, EndFixedStuff
<1>2. PICK frame : PassOf(frame) /\ LoopAt(frame)
  BY <1>1 DEF LoopsInv
<1>3. FixedLoop(Sealed(frame))
  BY <1>1, <1>2 DEF LoopAt
<1>4. PICK sealed, p : sealed = Sealed(frame) /\ p = FirstOf(sealed, "Crc")
  OBVIOUS
<1>5. CrcField(sealed, p) /\ same = GoldenCrcLen
  BY <1>1, <1>2, <1>3, <1>4, FixedLoopState
<1>6. PICK len \in Nat : len = GoldenCrcLen /\ len > 0
  BY <1>1, Sizes
<1>7. PICK trace : InFixedLoop(sealed, p, len, trace, len, bits, at)
  BY <1>3, <1>4, <1>5, <1>6 DEF FixedLoop
<1>8. sealed \in Seq(BitType) /\ p \in Nat /\ p > 0 /\ p + len <= Len(sealed)
      /\ FirstOf(sealed, "Crc") = p /\ FirstOf(sealed, "CrcDelim") = p + len
  BY <1>5, <1>6 DEF CrcField
<1>9. InsertFixedStuffToCrc(sealed) = bits
  BY <1>6, <1>7, <1>8, FixedLoopEnds
<1>10. ~IsCan20
  BY <1>1 DEF FrameInv, PhaseInv
<1>11. bits = Made(frame)
  BY <1>4, <1>9, <1>10 DEF Made
<1>12. LoopAt(frame)'
  BY <1>1, <1>11, SamePass DEF LoopAt
<1>13. WithCrc' => Filled(bits)'
  <2>1. WithCrc
    BY <1>1 DEF WithCrc
  <2> QED BY <1>1, <2>1, StaysFilled
<1> QED BY <1>1, <1>2, <1>12, <1>13, LoopsGoOn

-----------------------------------------------------------------------------
(* Steps of the loop that erases.                                          *)

\* Where a frame has its fields: without its stuff bits it is one that could be built, with
\* the CRC it has.
LEMMA PlacedFresh ==
  ASSUME TypeInv, NEW frame \in Seq(BitType), NEW place, Placed(place, frame, Built),
         NEW plain, plain = [k \in 1 .. Len(Built) |-> frame[place[k]]]
  PROVE  Fresh(plain)
<1>1. /\ HeadLen \in Nat \ {0} /\ GoldenCrcLen \in Nat /\ First(content) \in Nat /\ First(content) >= HeadLen
      /\ Len(Built) \in Nat /\ Built \in Seq(BitType)
  BY Sizes
<1>2. place \in [1 .. Len(Built) -> 1 .. Len(frame)]
  BY DEF Placed
<1>3. plain \in Seq(BitType) /\ Len(plain) = Len(Built)
  <2>1. ASSUME NEW k \in 1 .. Len(Built)
        PROVE  frame[place[k]] \in BitType
    BY <1>2
  <2>2. plain \in [1 .. Len(Built) -> BitType]
    BY <2>1
  <2> QED BY <1>1, <2>2
<1>4. ASSUME NEW k \in 1 .. Len(Built)
      PROVE  plain[k].kind = Built[k].kind /\ plain[k].stuff = Built[k].stuff
  <2>1. frame[place[k]].kind = Built[k].kind /\ ~IsStuff(frame[place[k]])
    BY DEF Placed
  <2>2. Built[k].stuff = "NoStuff"
    BY BuiltKinds DEF FreshKinds
  <2> QED BY <2>1, <2>2 DEF IsStuff
<1>5. ASSUME NEW k \in 1 .. Len(Built),
             k \notin HeadLen + 1 .. (HeadLen + 1) + (First(content) - HeadLen + GoldenCrcLen) - 1
      PROVE  plain[k].val = Built[k].val
  <2>1. k \in 1 .. HeadLen \/ k \in First(content) + GoldenCrcLen + 1 .. Len(Built)
    BY <1>1, <1>5
  <2>2. Built[k].kind \in HeadKinds \/ Built[k].kind \in TailKinds
    BY <2>1, BuiltKinds DEF FreshKinds
  <2>3. Built[k].kind \notin Calculated
    BY <2>2 DEF HeadKinds, TailKinds, Calculated
  <2>4. frame[place[k]].val = Built[k].val
    BY <2>3 DEF Placed
  <2> QED BY <2>4
<1> QED BY <1>3, <1>4, <1>5 DEF Fresh, Alike, SameShape

\* And one that passes to what the loops make of the frame a test has changed.
LEMMA PlacedPass ==
  ASSUME TypeInv, FlippedInv, NEW frame \in Seq(BitType), flipped # 0 => Filled(frame),
         NEW place, Placed(place, frame, Built),
         NEW plain, plain = [k \in 1 .. Len(Built) |-> frame[place[k]]]
  PROVE  PassOf(plain)
<1>1. Fresh(plain)
  BY PlacedFresh
<1>2. ASSUME flipped # 0, NEW j \in 1 .. GoldenCrcLen
      PROVE  plain[First(content) + j].val = Edited[First(content) + j].val
  <2>1. Edited[First(content) + j].val = Value(j)
    BY <1>2 DEF FlippedInv
  <2>2. First(content) + j \in 1 .. Len(Built)
    BY Sizes
  <2>3. plain[First(content) + j] = frame[place[First(content) + j]]
    BY <2>2
  <2>4. frame[place[First(content) + j]].val = Value(j)
    BY <1>2 DEF Filled
  <2> QED BY <2>1, <2>3, <2>4
<1> QED BY <1>1, <1>2 DEF PassOf

\* The loop passes a bit that is no stuff bit.
LEMMA PassPlainBitLoops ==
  ASSUME FrameInv, LoopsInv, PassPlainBit
  PROVE  LoopsInv'
<1>1. pc = "erase" /\ pc' = pc /\ UNCHANGED testVars /\ bits' = bits
  BY DEF PassPlainBit, Erasing
<1>2. flipped' = flipped /\ IsCan20' = IsCan20
  BY <1>1, SamePass DEF testVars
<1>3. WithCrc' => WithCrc
  BY <1>1, <1>2 DEF WithCrc
<1>4. WithCrc' => Filled(bits)'
  BY <1>1, <1>3, StaysFilled
<1> QED BY <1>1, <1>4, LoopsGoOn

\* The loop erases a stuff bit: the CRC moves down.
LEMMA EraseStuffBitLoops ==
  ASSUME FrameInv, LoopsInv, EraseStuffBit
  PROVE  LoopsInv'
<1>1. /\ TypeInv /\ pc = "erase" /\ pc' = pc /\ UNCHANGED testVars /\ at <= Len(bits) /\ IsStuff(bits[at])
      /\ bits' = RemoveAt(bits, at)
  BY DEF FrameInv, EraseStuffBit, Erasing
<1>2. PICK place : Placed(place, bits, Built) /\ PhaseInv(place)
  BY DEF FrameInv
<1>3. EraseInv(place)
  BY <1>1, <1>2 DEF PhaseInv
<1>4. at \in 2 .. Len(bits) - 1
  BY <1>1, <1>2, <1>3, ErasePhase
<1>5. flipped' = flipped /\ IsCan20' = IsCan20
  BY <1>1, SamePass DEF testVars
<1>6. WithCrc' => WithCrc
  BY <1>1, <1>5 DEF WithCrc
<1>7. ASSUME WithCrc'
      PROVE  Filled(bits)'
  <2>1. Filled(bits) /\ bits \in Seq(BitType)
    BY <1>1, <1>6, <1>7 DEF LoopsInv, TypeInv
  <2>2. PICK new : new = bits'
    OBVIOUS
  <2>3. Filled(new)
    BY <1>1, <1>2, <1>4, <2>1, <2>2, FilledRemoved
  <2>4. Filled(new)'
    BY <1>1, <2>3, SamePass
  <2> QED BY <2>2, <2>4 DEF Filled
<1> QED BY <1>1, <1>7, LoopsGoOn

\* Nothing but bits that were built is left, which is where the other loops begin.
LEMMA EndEraseLoops ==
  ASSUME FrameInv, LoopsInv, EndErase
  PROVE  LoopsInv'
<1>1. /\ TypeInv /\ pc = "erase" /\ at > Len(bits) /\ UNCHANGED testVars /\ bits' = bits
      /\ IF IsCan20 /\ flipped = 0 THEN BeginCrc ELSE BeginNormalStuff
  BY DEF FrameInv, EndErase
<1>2. PICK place : Placed(place, bits, Built) /\ PhaseInv(place)
  BY DEF FrameInv
<1>3. PlainFrom(1, place, bits, Built)
  <2>1. EraseInv(place)
    BY <1>1, <1>2 DEF PhaseInv
  <2> QED BY <1>1, <1>2, <2>1, ErasedPlain
<1>4. bits \in Seq(BitType) /\ Len(Built) \in Nat \ {0}
  BY <1>1, BuiltFacts DEF TypeInv
<1>5. Len(bits) = Len(Built) /\ \A i \in 1 .. Len(Built) : place[i] = i
  BY <1>2, <1>3, <1>4, AllPlain
<1>6. bits = [k \in 1 .. Len(Built) |-> bits[place[k]]]
  <2>1. bits = [k \in 1 .. Len(bits) |-> bits[k]]
    BY <1>4
  <2> QED BY <1>5, <2>1
<1>7. PICK frame : frame = bits
  OBVIOUS
<1>8. FlippedInv /\ (flipped # 0 => Filled(bits))
  BY DEF LoopsInv, WithCrc
<1>9. PassOf(frame)
  BY <1>1, <1>2, <1>4, <1>6, <1>7, <1>8, PlacedPass
<1>10. FreshKinds(frame)
  BY <1>1, <1>9, FreshHasKinds DEF PassOf
<1>11. flipped' = flipped /\ IsCan20' = IsCan20 /\ GoldenCrcLen' = GoldenCrcLen /\ StuffEnd' = StuffEnd
       /\ Base(frame)' = Base(frame) /\ CrcSource(frame)' = CrcSource(frame)
  BY <1>1, SamePass DEF testVars
<1>12. CASE IsCan20 /\ flipped = 0
  <2>1. pc' = "crc" /\ at' = 1 /\ crc' = CrcInit(GoldenCrcLen)
    BY <1>1, <1>12 DEF BeginCrc
  <2>2. CrcSource(frame) = frame
    BY <1>12 DEF CrcSource
  <2>3. CrcField(frame, FirstOf(frame, "Crc"))
    BY <1>1, <1>10, <2>2, SourceField
  <2>4. PICK p : p = FirstOf(frame, "Crc")
    OBVIOUS
  <2>5. frame \in Seq(BitType) /\ p \in Nat /\ p > 1 /\ GoldenCrcLen \in {15, 17, 21}
    BY <1>1, <2>3, <2>4, Sizes DEF CrcField
  <2>6. PICK trace : InCrcLoop(frame, GoldenCrcLen, p, trace, 1, CrcInit(GoldenCrcLen))
    BY <2>4, <2>5, CrcLoopBegins
  <2>7. InCrcLoop(bits', GoldenCrcLen', FirstOf(bits', "Crc"), trace, at', crc')
    BY <1>1, <1>7, <1>11, <2>1, <2>4, <2>6
  <2>8. CrcLoop'
    BY <2>7 DEF CrcLoop
  <2>9. LoopAt(frame)'
    BY <1>1, <1>7, <1>11, <2>1, <2>2, <2>8 DEF LoopAt
  <2>10. WithCrc' => Filled(bits)'
    BY <1>11, <1>12, <2>1 DEF WithCrc
  <2> QED BY <1>1, <1>9, <1>12, <2>9, <2>10, LoopsGoOn
<1>13. CASE ~(IsCan20 /\ flipped = 0)
  <2>1. pc' = "stuff" /\ at' = 2 /\ same' = 1 /\ prev' = Dominant /\ stuff_cnt' = 0
    BY <1>1, <1>13 DEF BeginNormalStuff
  <2>2. Base(frame) = frame
    BY <1>13 DEF Base, Sealed, CrcSource
  <2>3. frame \in Seq(UnfixedBits) /\ EndOfStuffing(frame) = StuffEnd /\ StuffEnd \in Nat /\ StuffEnd > 2
    BY <1>1, <1>9, <2>2, BaseFacts
  <2>4. PICK trace : InStuffLoop(frame, StuffEnd, trace, 0, frame, 2, StuffFirst)
    BY <2>3, StuffLoopBegins
  <2>5. StuffFirst = [same |-> same', prev |-> prev', cnt |-> stuff_cnt']
    BY <2>1 DEF StuffFirst
  <2>6. InStuffLoop(Base(frame)', StuffEnd', trace, 0, bits', at', [same |-> same', prev |-> prev', cnt |-> stuff_cnt'])
    BY <1>1, <1>7, <1>11, <2>1, <2>2, <2>4, <2>5
  <2>7. 0 \in 0 .. StuffEnd' - 2
    BY <1>11, <2>3
  <2>8. StuffLoop(Base(frame))'
    BY <2>6, <2>7 DEF StuffLoop
  <2>9. LoopAt(frame)'
    BY <2>1, <2>8 DEF LoopAt
  <2>10. WithCrc' => WithCrc
    BY <1>11, <1>13, <2>1 DEF WithCrc
  <2>11. WithCrc' => Filled(bits)'
    BY <1>1, <2>10, StaysFilled
  <2> QED BY <1>1, <1>9, <2>1, <2>9, <2>11, LoopsGoOn
<1> QED BY <1>12, <1>13

-----------------------------------------------------------------------------
(* A test edits a frame, or flips a bit of its CRC.                        *)

\* The CRC follows what is before it.
LEMMA CrcAt ==
  ASSUME TypeInv, NEW frame, FreshKinds(frame)
  PROVE  FirstOf(frame, "Crc") = First(content) + 1
<1>1. /\ HeadLen \in Nat \ {0} /\ GoldenCrcLen \in {15, 17, 21}
      /\ First(content) = HeadLen + (IF IsCan20 THEN 0 ELSE 4) /\ First(content) \in Nat
      /\ Len(Built) \in Nat /\ Len(Built) > First(content) + GoldenCrcLen + 1
  BY Sizes
<1>2. PICK p \in 1 .. Len(frame) : p = First(content) + 1
  <2>1. First(content) + 1 \in 1 .. Len(frame)
    BY <1>1 DEF FreshKinds
  <2> QED BY <2>1
<1>3. frame[p].kind = "Crc"
  <2>1. 1 \in 1 .. GoldenCrcLen
    BY <1>1
  <2> QED BY <1>2, <2>1 DEF FreshKinds
<1>4. ASSUME NEW j \in 1 .. p - 1
      PROVE  frame[j].kind # "Crc"
  <2>1. CASE j <= HeadLen
    <3>1. frame[j].kind \in HeadKinds
      BY <1>1, <2>1 DEF FreshKinds
    <3> QED BY <3>1 DEF HeadKinds
  <2>2. CASE j > HeadLen
    <3>1. ~IsCan20 /\ First(content) = HeadLen + 4
      BY <1>1, <1>2, <2>2
    <3>2. PICK l \in 1 .. 4 : HeadLen + l = j
      <4>1. j - HeadLen \in 1 .. 4 /\ HeadLen + (j - HeadLen) = j
        BY <1>1, <1>2, <2>2, <3>1
      <4> QED BY <4>1
    <3>3. CASE l = 4
      <4>1. frame[HeadLen + 4].kind = "StuffParity"
        BY <3>1 DEF FreshKinds
      <4> QED BY <3>2, <3>3, <4>1
    <3>4. CASE l # 4
      <4>1. l \in 1 .. 3
        BY <3>4
      <4>2. frame[HeadLen + l].kind = "StuffCnt"
        BY <3>1, <4>1 DEF FreshKinds
      <4> QED BY <3>2, <4>2
    <3> QED BY <3>3, <3>4
  <2> QED BY <1>1, <1>2, <2>1, <2>2
<1>5. NoneBefore(p, {"Crc"}, frame)
  BY <1>4 DEF NoneBefore
<1>6. frame \in Seq(BitType)
  BY DEF FreshKinds
<1>7. FirstOf(frame, "Crc") = p
  BY <1>3, <1>5, <1>6, FoundFirst
<1> QED BY <1>2, <1>7

\* The bit a test flips, counted without stuff bits.
LEMMA FlippedIsCounted ==
  ASSUME TypeInv, NEW frame \in Seq(BitType), NEW place, Placed(place, frame, Built),
         NEW i \in 1 .. Len(frame), IsPlainCrc(frame[i])
  PROVE  \E m \in 1 .. GoldenCrcLen :
           /\ place[First(content) + m] = i
           /\ Cardinality({j \in 1 .. i : IsPlainCrc(frame[j])}) = m
<1>1. /\ HeadLen \in Nat \ {0} /\ GoldenCrcLen \in Nat
      /\ First(content) = HeadLen + (IF IsCan20 THEN 0 ELSE 4) /\ First(content) \in Nat
      /\ Len(Built) \in Nat /\ Len(Built) > First(content) + GoldenCrcLen + 1
  BY Sizes
<1>2. /\ place \in [1 .. Len(Built) -> 1 .. Len(frame)]
      /\ \A k, l \in 1 .. Len(Built) : k < l => place[k] < place[l]
      /\ \A k \in 1 .. Len(Built) : frame[place[k]].kind = Built[k].kind /\ ~IsStuff(frame[place[k]])
      /\ \A j \in 1 .. Len(frame) : ~IsStuff(frame[j]) => \E k \in 1 .. Len(Built) : place[k] = j
  BY DEF Placed
<1>3. FreshKinds(Built)
  BY BuiltKinds
<1>4. ASSUME NEW k \in 1 .. Len(Built), Built[k].kind = "Crc"
      PROVE  k > First(content) /\ k <= First(content) + GoldenCrcLen
  <2>1. k > First(content)
    <3>1. FirstOf(Built, "Crc") = First(content) + 1
      BY <1>3, CrcAt
    <3>2. First(content) + 1 \in 1 .. Len(Built) /\ Built \in Seq(BitType)
      BY <1>1, Sizes
    <3>3. NoneBefore(First(content) + 1, {"Crc"}, Built)
      BY <3>1, <3>2, FoundIsOfKind
    <3> QED BY <1>1, <1>4, <3>3 DEF NoneBefore
  <2>2. ~(k \in First(content) + GoldenCrcLen + 1 .. Len(Built))
    <3>1. ASSUME k \in First(content) + GoldenCrcLen + 1 .. Len(Built)
          PROVE  FALSE
      <4>1. Built[k].kind \in TailKinds
        BY <1>3, <3>1 DEF FreshKinds
      <4> QED BY <1>4, <4>1 DEF TailKinds
    <3> QED BY <3>1
  <2> QED BY <1>1, <2>1, <2>2
<1>5. PICK k \in 1 .. Len(Built) : place[k] = i
  BY <1>2 DEF IsPlainCrc
<1>6. k > First(content) /\ k <= First(content) + GoldenCrcLen
  BY <1>2, <1>4, <1>5 DEF IsPlainCrc
<1>7. PICK m \in 1 .. GoldenCrcLen : k = First(content) + m
  <2>1. k - First(content) \in 1 .. GoldenCrcLen /\ k = First(content) + (k - First(content))
    BY <1>1, <1>6
  <2> QED BY <2>1
<1> PICK S : S = {j \in 1 .. i : IsPlainCrc(frame[j])}
  OBVIOUS
<1> PICK f : f = [l \in 1 .. m |-> place[First(content) + l]]
  OBVIOUS
<1>8. ASSUME NEW l \in 1 .. m
      PROVE  First(content) + l \in 1 .. k /\ First(content) + l \in 1 .. Len(Built) /\ l \in 1 .. GoldenCrcLen
  BY <1>1, <1>7
<1>9. ASSUME NEW l \in 1 .. m
      PROVE  f[l] \in S
  <2>1. First(content) + l \in 1 .. Len(Built) /\ l \in 1 .. GoldenCrcLen /\ f[l] = place[First(content) + l]
        /\ First(content) + l \in 1 .. k
    BY <1>8
  <2>2. Built[First(content) + l].kind = "Crc"
    BY <1>3, <2>1 DEF FreshKinds
  <2>3. IsPlainCrc(frame[f[l]])
    BY <1>2, <2>1, <2>2 DEF IsPlainCrc
  <2>4. f[l] \in 1 .. Len(frame)
    BY <1>2, <2>1
  <2>5. f[l] <= i
    <3>1. CASE First(content) + l = k
      BY <1>5, <2>1, <2>4, <3>1
    <3>2. CASE First(content) + l # k
      <4>1. place[First(content) + l] < place[k]
        BY <1>2, <2>1, <3>2
      <4> QED BY <1>5, <2>1, <2>4, <4>1
    <3> QED BY <3>1, <3>2
  <2> QED BY <2>3, <2>4, <2>5
<1>10. ASSUME NEW l \in 1 .. m, NEW n \in 1 .. m, f[l] = f[n]
       PROVE  l = n
  <2>1. First(content) + l \in 1 .. Len(Built) /\ First(content) + n \in 1 .. Len(Built)
        /\ f[l] = place[First(content) + l] /\ f[n] = place[First(content) + n]
    BY <1>8
  <2>2. place[First(content) + l] \in Nat /\ place[First(content) + n] \in Nat
    BY <1>2, <2>1
  <2>3. ~(First(content) + l < First(content) + n) /\ ~(First(content) + n < First(content) + l)
    BY <1>2, <1>10, <2>1, <2>2
  <2> QED BY <1>1, <2>3
<1>11. ASSUME NEW j \in S
       PROVE  \E l \in 1 .. m : f[l] = j
  <2>1. j \in 1 .. i /\ IsPlainCrc(frame[j]) /\ j \in 1 .. Len(frame)
    BY <1>11
  <2>2. PICK n \in 1 .. Len(Built) : place[n] = j
    BY <1>2, <2>1 DEF IsPlainCrc
  <2>3. n > First(content) /\ n <= First(content) + GoldenCrcLen
    BY <1>2, <1>4, <2>1, <2>2 DEF IsPlainCrc
  <2>4. n <= k
    <3>1. ~(k < n)
      BY <1>2, <1>5, <2>1, <2>2
    <3> QED BY <3>1
  <2>5. n - First(content) \in 1 .. m /\ First(content) + (n - First(content)) = n
    BY <1>1, <1>7, <2>3, <2>4
  <2>6. f[n - First(content)] = j
    BY <2>2, <2>5
  <2> QED BY <2>5, <2>6
<1>12. f \in Bijection(1 .. m, S)
  <2>1. f \in [1 .. m -> S]
    BY <1>9
  <2> QED BY <1>10, <1>11, <2>1 DEF Bijection, Injection, Surjection, IsInjective
<1>13. Cardinality(S) = m
  <2>1. ExistsBijection(1 .. m, S)
    BY <1>12 DEF ExistsBijection
  <2>2. m \in Nat
    OBVIOUS
  <2> QED BY <2>1, <2>2, FS_CountingElements
<1> QED BY <1>5, <1>7, <1>13

\* FlipVal changes the value of one bit.
BitFlipped(new, frame, i) ==
  /\ new \in Seq(BitType) /\ SameShape(frame, new)
  /\ \A j \in 1 .. Len(frame) :
       new[j].val = IF j = i THEN Opposite(frame[j].val) ELSE frame[j].val

\* FlipVal flips one bit, and no other.
LEMMA Flipped ==
  ASSUME NEW frame \in Seq(BitType), NEW i \in 1 .. Len(frame)
  PROVE  BitFlipped(FlipVal(frame, i), frame, i)
<1> PICK vals : vals = <<Opposite(frame[i].val)>>
  OBVIOUS
<1>1. vals \in [1 .. 1 -> {Dominant, Recessive}] /\ Len(vals) = 1 /\ vals[1] = Opposite(frame[i].val)
  <2>1. frame[i].val \in {Dominant, Recessive}
    BY BitValues
  <2>2. Opposite(frame[i].val) \in {Dominant, Recessive}
    BY <2>1 DEF Opposite, Dominant, Recessive
  <2> QED BY <2>2
<1> PICK new : new = Overwrite(frame, i, vals)
  OBVIOUS
<1>2. WrittenOver(new, frame, i, 1, vals)
  <2>1. i \in Nat /\ 1 \in Nat
    OBVIOUS
  <2> QED BY <1>1, <2>1, Overwritten
<1>3. new = FlipVal(frame, i)
  BY DEF FlipVal
<1>4. ASSUME NEW j \in 1 .. Len(frame)
      PROVE  new[j].val = IF j = i THEN Opposite(frame[j].val) ELSE frame[j].val
  <2>1. CASE j = i
    <3>1. j \in i .. i + 1 - 1 /\ j - i + 1 = 1
      BY <2>1
    <3>2. new[j].val = vals[j - i + 1]
      BY <1>2, <3>1 DEF WrittenOver
    <3> QED BY <1>1, <2>1, <3>1, <3>2
  <2>2. CASE j # i
    <3>1. j \notin i .. i + 1 - 1
      BY <2>2
    <3>2. new[j].val = frame[j].val
      BY <1>2, <3>1 DEF WrittenOver
    <3> QED BY <2>2, <3>2
  <2> QED BY <2>1, <2>2
<1> QED BY <1>2, <1>3, <1>4 DEF WrittenOver, BitFlipped

\* The CRC with its bit m flipped.
FlippedAt(m, j) == IF j = m THEN Opposite(DueCrc[j]) ELSE DueCrc[j]

\* A bit is flipped in a frame that has its CRC.
LEMMA CrcFlipped ==
  ASSUME TypeInv, NEW frame \in Seq(BitType), NEW place, Placed(place, frame, Built),
         Filled(frame), flipped = 0, NEW m \in 1 .. GoldenCrcLen,
         NEW i \in 1 .. Len(frame), place[First(content) + m] = i,
         NEW new, new = FlipVal(frame, i), NEW other, Placed(other, new, Built)
  PROVE  \A j \in 1 .. GoldenCrcLen : new[other[First(content) + j]].val = FlippedAt(m, j)
<1>1. /\ GoldenCrcLen \in Nat /\ First(content) \in Nat /\ Len(Built) \in Nat
      /\ Len(Built) > First(content) + GoldenCrcLen + 1
  BY Sizes
<1>2. BitFlipped(new, frame, i)
  BY Flipped
<1>3. place \in [1 .. Len(Built) -> 1 .. Len(frame)]
      /\ \A k, l \in 1 .. Len(Built) : k < l => place[k] < place[l]
  BY DEF Placed
<1>4. ASSUME NEW j \in 1 .. GoldenCrcLen
      PROVE  new[other[First(content) + j]].val = FlippedAt(m, j)
  <2>1. PICK k \in 1 .. Len(Built) : k = First(content) + j
    <3>1. First(content) + j \in 1 .. Len(Built)
      BY <1>1
    <3> QED BY <3>1
  <2>2. PICK l \in 1 .. Len(Built) : l = First(content) + m
    <3>1. First(content) + m \in 1 .. Len(Built)
      BY <1>1
    <3> QED BY <3>1
  <2>3. other[k] = place[k]
    <3>1. Len(new) \in Nat
      BY <1>2 DEF BitFlipped
    <3>2. SameFields(frame, new)
      <4>1. i \in 1 .. Len(frame) /\ frame[i].kind = "Crc"
        <5>1. Built[First(content) + m].kind = "Crc"
          BY BuiltKinds DEF FreshKinds
        <5>2. frame[place[l]].kind = Built[l].kind
          BY DEF Placed
        <5> QED BY <2>2, <5>1, <5>2
      <4>2. ASSUME NEW n \in 1 .. Len(frame), frame[n].kind \notin Calculated
            PROVE  new[n].val = frame[n].val
        <5>1. n # i
          BY <4>1, <4>2 DEF Calculated
        <5> QED BY <1>2, <5>1 DEF BitFlipped
      <4> QED BY <4>2 DEF SameFields
    <3>3. new \in Seq(BitType) /\ SameShape(frame, new)
      BY <1>2 DEF BitFlipped
    <3>4. Placed(place, new, Built)
      BY <3>2, <3>3, ShapeKeepsPlaces
    <3> QED BY <1>1, <3>1, <3>4, PlacedOnce
  <2>4. frame[place[k]].val = Value(j)
    BY <2>1 DEF Filled
  <2>5. Value(j) = DueCrc[j]
    BY <1>1 DEF Value
  <2>6. place[k] = i <=> j = m
    <3>1. CASE j = m
      BY <2>1, <2>2, <3>1
    <3>2. CASE j < m
      <4>1. place[k] < place[l]
        BY <1>1, <1>3, <2>1, <2>2, <3>2
      <4> QED BY <1>3, <2>2, <3>2, <4>1
    <3>3. CASE m < j
      <4>1. place[l] < place[k]
        BY <1>1, <1>3, <2>1, <2>2, <3>3
      <4> QED BY <1>3, <2>2, <3>3, <4>1
    <3>4. j \in Nat /\ m \in Nat
      BY <1>1
    <3> QED BY <3>1, <3>2, <3>3, <3>4
  <2>7. place[k] \in 1 .. Len(frame)
    BY <1>3
  <2>8. new[place[k]].val = IF place[k] = i THEN Opposite(frame[place[k]].val) ELSE frame[place[k]].val
    BY <1>2, <2>7 DEF BitFlipped
  <2> QED BY <2>1, <2>3, <2>4, <2>5, <2>6, <2>8 DEF FlippedAt
<1> QED BY <1>4

\* As long as a test has not updated the frame, it is the one ConstructFrame makes.
LEMMA AsConstructed ==
  ASSUME TypeInv, LoopsInv, pc = "done", flipped = 0, edited = {}
  PROVE  bits = ConstructFrame(content) /\ Built = BuildFrameBits(content)
<1>1. PICK frame : PassOf(frame) /\ bits = Made(frame)
  BY DEF LoopsInv, LoopAt
<1>2. Built = BuildFrameBits(content)
  <2>1. BuildFrameBits(content) \in Seq(BitType)
    BY BuiltAsLaidOut, PlainIsBits DEF Layout, TypeInv
  <2> QED BY <2>1, EditNothing DEF Built
<1>3. PassOf(Built)
  BY Sizes DEF PassOf
<1>4. Sealed(Built) = Sealed(frame)
  BY <1>1, <1>3, SealedOnce
<1>5. bits = Made(Built)
  BY <1>1, <1>4 DEF Made
<1>6. Sealed(Built) = RecalcCrc(CrcSource(Built), GoldenCrcLen, TRUE)
  BY DEF Sealed, RecalcCrc
<1>7. StuffAndCrc(Built, GoldenCrcLen, TRUE) = Made(Built)
  BY <1>6 DEF StuffAndCrc, Made, CrcSource, IsCan20
<1> QED BY <1>2, <1>5, <1>7 DEF ConstructFrame, GoldenCrcLen

\* A test edits a frame that it has not updated before: the CRC will be calculated again.
LEMMA EditAndUpdateLoops ==
  ASSUME FrameInv, LoopsInv, NEW kinds \in SUBSET {"R0", "R1", "Srr"}, EditAndUpdate(kinds)
  PROVE  LoopsInv'
<1>1. ~updated /\ pc' = "erase" /\ flipped' = flipped
  BY DEF EditAndUpdate, BeginErase
<1>2. flipped = 0
  BY <1>1 DEF LoopsInv, FlippedInv
<1>3. FlippedInv'
  BY <1>1, <1>2 DEF FlippedInv
<1>4. ~WithCrc'
  BY <1>1, <1>2 DEF WithCrc
<1> QED BY <1>1, <1>3, <1>4 DEF LoopsInv

\* A test flips a bit of the CRC: this bit is the one Edited flips in the frame without
\* stuff bits.
LEMMA CorruptCrcLoops ==
  ASSUME FrameInv, LoopsInv, NEW i \in DOMAIN bits, CorruptCrc(i)
  PROVE  LoopsInv'
<1>1. /\ TypeInv /\ pc = "done" /\ ~updated /\ updated' /\ pc' = "erase" /\ content' = content /\ edited' = edited
      /\ IsPlainCrc(bits[i]) /\ bits' = FlipVal(bits, i)
      /\ flipped' = Cardinality({j \in 1 .. i : IsPlainCrc(bits[j])})
  BY DEF FrameInv, CorruptCrc, BeginErase
<1>2. flipped = 0 /\ edited = {}
  BY <1>1 DEF LoopsInv, FlippedInv, TypeInv
<1>3. bits \in Seq(BitType) /\ i \in 1 .. Len(bits) /\ Len(Built) \in Nat \ {0}
  BY <1>1, BuiltFacts DEF TypeInv
<1>4. PICK place : Placed(place, bits, Built)
  BY DEF FrameInv
<1>5. PICK m \in 1 .. GoldenCrcLen : place[First(content) + m] = i /\ flipped' = m
  BY <1>1, <1>3, <1>4, FlippedIsCounted
<1>6. Filled(bits)
  BY <1>1 DEF LoopsInv, WithCrc
<1>7. PICK plain : plain = [k \in 1 .. Len(Built) |-> bits[place[k]]]
  OBVIOUS
<1>8. Fresh(plain) /\ FreshKinds(plain)
  BY <1>1, <1>3, <1>4, <1>7, PlacedFresh, FreshHasKinds
<1>9. /\ GoldenCrcLen \in Nat /\ First(content) \in Nat /\ HeadLen \in Nat /\ First(content) >= HeadLen
      /\ Len(Built) > First(content) + GoldenCrcLen + 1 /\ Len(plain) = Len(Built) /\ plain \in Seq(BitType)
  BY <1>1, <1>8, Sizes DEF FreshKinds
<1>10. PICK q \in 1 .. Len(plain) : q = First(content) + m
  <2>1. First(content) + m \in 1 .. Len(plain)
    BY <1>9
  <2> QED BY <2>1
<1>11. PICK one : one = FlipVal(plain, q)
  OBVIOUS
<1>12. BitFlipped(one, plain, q)
  BY <1>9, <1>11, Flipped
<1>13. Edited' = one
  <2>1. ConstructFrame(content) = bits
    BY <1>1, <1>2, AsConstructed
  <2>2. OnlyAt(bits, {j \in 1 .. Len(bits) : ~IsStuff(bits[j])}) = plain
    BY <1>3, <1>4, <1>7, ErasedAtPlaces
  <2>3. OnlyAt(bits, {j \in DOMAIN bits : ~IsStuff(bits[j])}) = plain
    <3>1. DOMAIN bits = 1 .. Len(bits)
      BY <1>3
    <3> QED BY <2>2, <3>1
  <2>4. FirstOf(plain, "Crc") + m - 1 = q
    BY <1>1, <1>8, <1>9, <1>10, CrcAt
  <2>5. flipped' # 0
    BY <1>5, <1>9
  <2> QED BY <1>1, <1>5, <1>11, <2>1, <2>3, <2>4, <2>5 DEF Edited
<1>14. Built' = Built /\ First(content)' = First(content) /\ GoldenCrcLen' = GoldenCrcLen /\ IsCan20' = IsCan20
       /\ HeadLen' = HeadLen
  BY <1>1, SameContent DEF HeadLen
<1>15. Fresh(one)'
  <2>1. one \in Seq(BitType) /\ SameShape(plain, one)
    BY <1>12 DEF BitFlipped
  <2>2. SameShape(Built, one)
    BY <1>8, <2>1 DEF SameShape, Fresh, Alike
  <2>3. ASSUME NEW j \in 1 .. Len(Built),
               j \notin HeadLen + 1 .. (HeadLen + 1) + (First(content) - HeadLen + GoldenCrcLen) - 1
        PROVE  one[j].val = Built[j].val
    <3>1. j # q /\ j \in 1 .. Len(plain)
      BY <1>9, <1>10, <2>3
    <3>2. one[j].val = plain[j].val
      BY <1>12, <3>1 DEF BitFlipped
    <3>3. plain[j].val = Built[j].val
      BY <1>8, <2>3 DEF Fresh, Alike
    <3> QED BY <3>2, <3>3
  <2>4. Fresh(one)
    BY <2>1, <2>2, <2>3 DEF Fresh, Alike
  <2> QED BY <1>14, <2>4 DEF Fresh, Alike, SameShape
<1>16. ASSUME NEW j
       PROVE  Value(j)' = FlippedAt(m, j)
  <2>1. PICK built : built = Built
    OBVIOUS
  <2>2. DueCrc' = DueCrc
    BY <1>14, <2>1 DEF DueCrc, CrcSource
  <2> QED BY <1>5, <2>2 DEF Value, FlippedAt
<1>17. ASSUME NEW j \in 1 .. GoldenCrcLen
       PROVE  one[First(content) + j].val = FlippedAt(m, j)
  <2>1. PICK k \in 1 .. Len(Built) : k = First(content) + j
    <3>1. First(content) + j \in 1 .. Len(Built)
      BY <1>9
    <3> QED BY <3>1
  <2>2. plain[k].val = DueCrc[j]
    <3>1. bits[place[k]].val = Value(j)
      BY <1>4, <1>6, <2>1 DEF Filled
    <3>2. Value(j) = DueCrc[j]
      BY <1>2, <1>9 DEF Value
    <3>3. plain[k] = bits[place[k]]
      BY <1>7
    <3> QED BY <3>1, <3>2, <3>3
  <2>3. k = q <=> j = m
    BY <1>9, <1>10, <2>1
  <2>4. one[k].val = IF k = q THEN Opposite(plain[k].val) ELSE plain[k].val
    <3>1. k \in 1 .. Len(plain)
      BY <1>9
    <3> QED BY <1>12, <3>1 DEF BitFlipped
  <2> QED BY <2>1, <2>2, <2>3, <2>4 DEF FlippedAt
<1>18. FlippedInv'
  <2>1. Fresh(Edited)'
    BY <1>13, <1>15 DEF Fresh
  <2>2. \A j \in 1 .. GoldenCrcLen' : Edited'[First(content)' + j].val = Value(j)'
    BY <1>13, <1>14, <1>16, <1>17
  <2>3. updated' /\ edited' = {} /\ flipped' \in 1 .. GoldenCrcLen' /\ pc' # "crc"
    BY <1>1, <1>2, <1>5, <1>14
  <2> QED BY <2>1, <2>2, <2>3 DEF FlippedInv
<1>19. Filled(bits)'
  <2>1. PICK new : new = bits'
    OBVIOUS
  <2>2. ASSUME NEW other, Placed(other, new, Built), NEW j \in 1 .. GoldenCrcLen
        PROVE  new[other[First(content) + j]].val = Value(j)'
    <3>1. new[other[First(content) + j]].val = FlippedAt(m, j)
      BY <1>1, <1>2, <1>3, <1>4, <1>5, <1>6, <2>1, <2>2, CrcFlipped
    <3> QED BY <1>16, <3>1
  <2> QED BY <1>14, <2>1, <2>2 DEF Filled
<1> QED BY <1>1, <1>18, <1>19 DEF LoopsInv

-----------------------------------------------------------------------------
(* The loops do what BitFrame says of them.                                *)

\* The first frame is that of BuildFrameBits.
LEMMA LoopsBuilt ==
  ASSUME Init
  PROVE  LoopsInv
<1>1. /\ TypeInv /\ flipped = 0 /\ edited = {} /\ bits = BuildFrameBits(content)
      /\ IF IsCan20 THEN pc = "crc" /\ at = 1 ELSE pc = "stuff" /\ at = 2
      /\ same = 1 /\ prev = Dominant /\ stuff_cnt = 0 /\ crc = CrcInit(GoldenCrcLen)
  BY FrameBuilt DEF Init, FrameInv
<1>2. Built = bits
  <2>1. bits \in Seq(BitType)
    BY <1>1 DEF TypeInv
  <2> QED BY <1>1, <2>1, EditNothing DEF Built
<1>3. PICK frame : frame = bits
  OBVIOUS
<1>4. PassOf(frame) /\ FreshKinds(frame)
  BY <1>1, <1>2, <1>3, Sizes, BuiltKinds DEF PassOf
<1>5. FlippedInv
  BY <1>1 DEF FlippedInv
<1>6. ~WithCrc
  BY <1>1 DEF WithCrc
<1>7. LoopAt(frame)
  <2>1. CASE IsCan20
    <3>1. CrcSource(frame) = frame
      BY <2>1 DEF CrcSource
    <3>2. CrcField(frame, FirstOf(frame, "Crc"))
      BY <1>1, <1>4, <3>1, SourceField
    <3>3. PICK p : p = FirstOf(frame, "Crc")
      OBVIOUS
    <3>4. frame \in Seq(BitType) /\ p \in Nat /\ p > 1 /\ GoldenCrcLen \in {15, 17, 21}
      BY <1>1, <3>2, <3>3, Sizes DEF CrcField
    <3>5. PICK trace : InCrcLoop(frame, GoldenCrcLen, p, trace, 1, CrcInit(GoldenCrcLen))
      BY <3>3, <3>4, CrcLoopBegins
    <3>6. CrcLoop
      BY <1>1, <1>3, <2>1, <3>3, <3>5 DEF CrcLoop
    <3> QED BY <1>1, <1>3, <2>1, <3>1, <3>6 DEF LoopAt
  <2>2. CASE ~IsCan20
    <3>1. Base(frame) = frame
      BY <2>2 DEF Base
    <3>2. frame \in Seq(UnfixedBits) /\ EndOfStuffing(frame) = StuffEnd /\ StuffEnd \in Nat /\ StuffEnd > 2
      BY <1>1, <1>4, <3>1, BaseFacts
    <3>3. PICK trace : InStuffLoop(frame, StuffEnd, trace, 0, frame, 2, StuffFirst)
      BY <3>2, StuffLoopBegins
    <3>4. StuffFirst = [same |-> same, prev |-> prev, cnt |-> stuff_cnt] /\ 0 \in 0 .. StuffEnd - 2 /\ at = 2
      BY <1>1, <2>2, <3>2 DEF StuffFirst
    <3>5. StuffLoop(Base(frame))
      BY <1>3, <3>1, <3>3, <3>4 DEF StuffLoop
    <3> QED BY <1>1, <2>2, <3>5 DEF LoopAt
  <2> QED BY <2>1, <2>2
<1> QED BY <1>4, <1>5, <1>6, <1>7 DEF LoopsInv

\* Nothing happens.
LEMMA LoopsStay ==
  ASSUME LoopsInv, UNCHANGED vars
  PROVE  LoopsInv'
<1>1. /\ UNCHANGED testVars /\ bits' = bits /\ pc' = pc /\ at' = at /\ same' = same /\ prev' = prev
      /\ stuff_cnt' = stuff_cnt /\ crc' = crc /\ flipped' = flipped
  BY DEF vars, testVars
<1>2. IsCan20' = IsCan20 /\ GoldenCrcLen' = GoldenCrcLen /\ StuffEnd' = StuffEnd
  BY <1>1, SamePass
<1>3. ASSUME NEW frame, LoopAt(frame)
      PROVE  LoopAt(frame)'
  <2>2. StuffLoop(Base(frame)) => StuffLoop(Base(frame))'
    <3>1. Base(frame)' = Base(frame)
      BY <1>1, SamePass
    <3> QED BY <1>1, <1>2, <3>1 DEF StuffLoop
  <2>3. CrcLoop => CrcLoop'
    BY <1>1, <1>2 DEF CrcLoop
  <2>4. FixedLoop(Sealed(frame)) => FixedLoop(Sealed(frame))'
    <3>1. Sealed(frame)' = Sealed(frame)
      BY <1>1, SamePass
    <3> QED BY <1>1, <1>2, <3>1 DEF FixedLoop
  <2>5. CrcSource(frame)' = CrcSource(frame) /\ Made(frame)' = Made(frame)
    BY <1>1, SamePass
  <2> QED BY <1>1, <1>3, <2>2, <2>3, <2>4, <2>5 DEF LoopAt
<1>4. pc' # "erase" => \E frame : PassOf(frame) /\ LoopAt(frame)'
  BY <1>1, <1>3 DEF LoopsInv
<1>5. WithCrc' => Filled(bits)'
  <2>1. WithCrc' => WithCrc
    BY <1>1, <1>2 DEF WithCrc
  <2> QED BY <1>1, <2>1, StaysFilled
<1>6. pc' = "crc" => flipped = 0
  BY <1>1 DEF LoopsInv, FlippedInv
<1> QED BY <1>1, <1>4, <1>5, <1>6, LoopsGoOn

\* At each round a loop has made of its frame what BitFrame, as a function, makes of the
\* bits it has passed, and frames have the CRC that is due, but for a bit a test has flipped.
THEOREM LoopsInvariant == Spec => []LoopsInv
<1>1. Init => LoopsInv
  BY LoopsBuilt
<1>2. FrameInv /\ LoopsInv /\ [Next]_vars => LoopsInv'
  <2> SUFFICES ASSUME FrameInv, LoopsInv, [Next]_vars
               PROVE  LoopsInv'
    OBVIOUS
  <2>1. CASE PassBit
    BY <2>1, PassBitLoops
  <2>2. CASE InsertStuffBit
    BY <2>2, InsertStuffBitLoops
  <2>3. CASE EndNormalStuff
    BY <2>3, EndNormalStuffLoops
  <2>4. CASE WriteStuffCnt
    BY <2>4, WriteStuffCntLoops
  <2>5. CASE ShiftCrc
    BY <2>5, ShiftCrcLoops
  <2>6. CASE WriteCrc
    BY <2>6, WriteCrcLoops
  <2>7. CASE PassCrcBit
    BY <2>7, PassCrcBitLoops
  <2>8. CASE InsertFixedStuffBit
    BY <2>8, InsertFixedStuffBitLoops
  <2>9. CASE EndFixedStuff
    BY <2>9, EndFixedStuffLoops
  <2>10. CASE PassPlainBit
    BY <2>10, PassPlainBitLoops
  <2>11. CASE EraseStuffBit
    BY <2>11, EraseStuffBitLoops
  <2>12. CASE EndErase
    BY <2>12, EndEraseLoops
  <2>13. CASE \E kinds \in SUBSET {"R0", "R1", "Srr"} : EditAndUpdate(kinds)
    BY <2>13, EditAndUpdateLoops
  <2>14. CASE \E i \in DOMAIN bits : CorruptCrc(i)
    BY <2>14, CorruptCrcLoops
  <2>15. CASE UNCHANGED vars
    BY <2>15, LoopsStay
  <2> QED BY <2>1, <2>2, <2>3, <2>4, <2>5, <2>6, <2>7, <2>8, <2>9, <2>10, <2>11, <2>12, <2>13, <2>14,
             <2>15 DEF Next
<1> QED BY <1>1, <1>2, FrameInvariant, PTL DEF Spec

\* What a test has made of the golden frame passes to what the loops make of it.
LEMMA EditedPasses ==
  ASSUME TypeInv, FlippedInv
  PROVE  PassOf(Edited)
<1>1. CASE flipped = 0
  <2>1. Edited = Built
    BY <1>1 DEF Edited, Built
  <2>2. Fresh(Edited)
    BY <2>1, Sizes
  <2> QED BY <1>1, <2>2 DEF PassOf
<1>2. CASE flipped # 0
  BY <1>2 DEF FlippedInv, PassOf
<1> QED BY <1>1, <1>2

\* A frame that is finished is the one StuffAndCrc makes of the edited bits, and UpdateFrame
\* makes the same frame of it again: no stuff bit is lost or survives.
LEMMA DoneAsBuilt ==
  ASSUME FrameInv, LoopsInv, pc = "done"
  PROVE  /\ bits = StuffAndCrc(Edited, GoldenCrcLen, flipped = 0)
         /\ bits = UpdateFrame(bits, GoldenCrcLen, flipped = 0)
<1>1. TypeInv /\ FlippedInv /\ Filled(bits) /\ bits \in Seq(BitType) /\ Len(Built) \in Nat \ {0}
  BY BuiltFacts DEF FrameInv, TypeInv, LoopsInv, WithCrc
<1>2. PICK place : Placed(place, bits, Built) /\ StuffInv(place)
  BY DEF FrameInv, PhaseInv
<1>3. PICK frame : PassOf(frame) /\ bits = Made(frame)
  BY DEF LoopsInv, LoopAt
<1>4. ASSUME NEW other, PassOf(other)
      PROVE  bits = StuffAndCrc(other, GoldenCrcLen, flipped = 0)
  <2>1. Sealed(other) = Sealed(frame)
    BY <1>1, <1>3, <1>4, SealedOnce
  <2>2. bits = Made(other)
    BY <1>3, <2>1 DEF Made
  <2> QED BY <2>2, SealedStuffed DEF Made
<1>5. EraseStuffBits(bits) = [k \in 1 .. Len(Built) |-> bits[place[k]]]
  <2>1. \A i \in 1 .. Len(bits) - 1 : ~(IsStuff(bits[i]) /\ IsStuff(bits[i + 1]))
    BY <1>1, <1>2, NoTwoStuffBits
  <2>2. Len(bits) > 0
    BY <1>1, <1>2, BeginsWithSof
  <2>3. EraseStuffBits(bits) = OnlyAt(bits, {i \in 1 .. Len(bits) : ~IsStuff(bits[i])})
    BY <1>1, <2>1, <2>2, ErasedApart
  <2> QED BY <1>1, <1>2, <2>3, ErasedAtPlaces
<1>6. PassOf(EraseStuffBits(bits))
  BY <1>1, <1>2, <1>5, PlacedPass
<1>7. bits = StuffAndCrc(EraseStuffBits(bits), GoldenCrcLen, flipped = 0)
  BY <1>4, <1>6
<1>8. bits = StuffAndCrc(Edited, GoldenCrcLen, flipped = 0)
  BY <1>1, <1>4, EditedPasses
<1> QED BY <1>7, <1>8 DEF UpdateFrame

\* An updated frame is the one that would have been built with the edited bit, and the
\* loops of UpdateFrame, ConstructFrame and what they call compute it: for every content.
THEOREM UpdatedAsBuiltHolds == Spec => []UpdatedAsBuilt
<1>1. FrameInv /\ LoopsInv => UpdatedAsBuilt
  BY DoneAsBuilt DEF UpdatedAsBuilt, Done
<1> QED BY <1>1, FrameInvariant, LoopsInvariant, PTL

-----------------------------------------------------------------------------
(* A receiver finds the CRC in order.                                      *)

\* Behind the CRC is the delimiter a receiver looks for.
LEMMA DelimPlace ==
  ASSUME TypeInv, NEW frame \in Seq(BitType), NEW place, Placed(place, frame, Built),
         NEW delim \in 1 .. Len(frame), FirstOf(frame, "CrcDelim") = delim, ~IsStuff(frame[delim]),
         NEW last \in 1 .. Len(Built), last = First(content) + GoldenCrcLen + 1
  PROVE  place[last] = delim
<1>1. /\ HeadLen \in Nat \ {0} /\ GoldenCrcLen \in {15, 17, 21}
      /\ First(content) = HeadLen + (IF IsCan20 THEN 0 ELSE 4) /\ First(content) \in Nat
      /\ Len(Built) \in Nat /\ Len(frame) \in Nat
  BY Sizes
<1>2. FreshKinds(Built)
  BY BuiltKinds
<1>3. frame[delim].kind = "CrcDelim" /\ NoneBefore(delim, {"CrcDelim"}, frame)
  BY FoundIsOfKind
<1>4. /\ place \in [1 .. Len(Built) -> 1 .. Len(frame)]
      /\ \A k, l \in 1 .. Len(Built) : k < l => place[k] < place[l]
      /\ \A k \in 1 .. Len(Built) : frame[place[k]].kind = Built[k].kind
  BY DEF Placed
<1>5. PICK k \in 1 .. Len(Built) : place[k] = delim
  BY DEF Placed
<1>6. Built[k].kind = "CrcDelim"
  BY <1>3, <1>4, <1>5
<1>7. ~(k < last)
  <2>1. ASSUME k < last
        PROVE  FALSE
    <3>1. CASE k <= HeadLen
      <4>1. Built[k].kind \in HeadKinds
        BY <1>1, <1>2, <3>1 DEF FreshKinds
      <4> QED BY <1>6, <4>1 DEF HeadKinds
    <3>2. CASE k > HeadLen /\ k <= First(content)
      <4>1. ~IsCan20 /\ First(content) = HeadLen + 4
        BY <1>1, <3>2
      <4>2. PICK l \in 1 .. 4 : HeadLen + l = k
        <5>1. k - HeadLen \in 1 .. 4 /\ HeadLen + (k - HeadLen) = k
          BY <1>1, <3>2, <4>1
        <5> QED BY <5>1
      <4>3. CASE l = 4
        <5>1. Built[HeadLen + 4].kind = "StuffParity"
          BY <1>2, <4>1 DEF FreshKinds
        <5> QED BY <1>6, <4>2, <4>3, <5>1
      <4>4. CASE l # 4
        <5>1. l \in 1 .. 3
          BY <4>4
        <5>2. Built[HeadLen + l].kind = "StuffCnt"
          BY <1>2, <4>1, <5>1 DEF FreshKinds
        <5> QED BY <1>6, <4>2, <5>2
      <4> QED BY <4>3, <4>4
    <3>3. CASE k > First(content)
      <4>1. PICK l \in 1 .. GoldenCrcLen : First(content) + l = k
        <5>1. k - First(content) \in 1 .. GoldenCrcLen /\ First(content) + (k - First(content)) = k
          BY <1>1, <2>1, <3>3
        <5> QED BY <5>1
      <4>2. Built[First(content) + l].kind = "Crc"
        BY <1>2 DEF FreshKinds
      <4> QED BY <1>6, <4>1, <4>2
    <3> QED BY <1>1, <3>1, <3>2, <3>3
  <2> QED BY <2>1
<1>8. CASE k = last
  BY <1>5, <1>8
<1>9. CASE k # last
  <2>1. place[last] < delim
    BY <1>4, <1>5, <1>7, <1>9
  <2>2. Built[last].kind = "CrcDelim"
    BY <1>2 DEF FreshKinds
  <2>3. place[last] \in 1 .. delim - 1
    BY <1>4, <2>1
  <2>4. frame[place[last]].kind = "CrcDelim"
    BY <1>4, <2>2
  <2> QED BY <1>3, <2>3, <2>4 DEF NoneBefore
<1> QED BY <1>8, <1>9

\* The CRC that is due is a sequence of bits, and the CRC in the frame is this one as long as
\* no bit of it has been flipped.
LEMMA ValuesAreDue ==
  ASSUME TypeInv, FlippedInv
  PROVE  /\ DueCrc \in [1 .. GoldenCrcLen -> {0, 1}]
         /\ \A j \in 1 .. GoldenCrcLen : Value(j) \in {0, 1}
         /\ (\A j \in 1 .. GoldenCrcLen : Value(j) = DueCrc[j]) <=> flipped = 0
<1>1. DueCrc \in [1 .. GoldenCrcLen -> {0, 1}]
  <2>1. CrcField(CrcSource(Built), FirstOf(CrcSource(Built), "Crc"))
    BY BuiltKinds, SourceField
  <2>2. CrcSource(Built) \in Seq(BitType) /\ FirstOf(CrcSource(Built), "Crc") > 1
    BY <2>1 DEF CrcField
  <2> QED BY <2>2, CalcCrcType DEF DueCrc, Dominant, Recessive
<1>2. ASSUME NEW j \in 1 .. GoldenCrcLen
      PROVE  Opposite(DueCrc[j]) \in {0, 1} /\ Opposite(DueCrc[j]) # DueCrc[j]
  <2>1. DueCrc[j] \in {0, 1}
    BY <1>1
  <2> QED BY <2>1 DEF Opposite
<1>3. \A j \in 1 .. GoldenCrcLen : Value(j) \in {0, 1}
  BY <1>1, <1>2 DEF Value
<1>4. GoldenCrcLen \in Nat
  BY Sizes
<1>5. ASSUME flipped = 0, NEW j \in 1 .. GoldenCrcLen
      PROVE  Value(j) = DueCrc[j]
  BY <1>4, <1>5 DEF Value
<1>6. ASSUME flipped # 0
      PROVE  \E j \in 1 .. GoldenCrcLen : Value(j) # DueCrc[j]
  <2>1. flipped \in 1 .. GoldenCrcLen
    BY <1>6 DEF FlippedInv
  <2> QED BY <1>2, <2>1 DEF Value
<1> QED BY <1>1, <1>3, <1>5, <1>6

\* So the division leaves nothing exactly then, whatever register it took to come to the CRC.
LEMMA HoldsAsDue ==
  ASSUME TypeInv, FlippedInv, NEW msg \in Seq({0, 1}), NEW n \in Nat, n > 0,
         Len(msg) = n + GoldenCrcLen, NEW reg, IsRegister(reg, msg, GoldenCrcLen, n),
         reg[0] = Zeros(GoldenCrcLen), reg[n] = DueCrc,
         \A j \in 1 .. GoldenCrcLen : msg[n + j] = Value(j)
  PROVE  (\A v \in ToSet(Remainder(msg, GoldenCrcLen)) : v = 0) <=> flipped = 0
<1>1. PICK len \in {15, 17, 21} : len = GoldenCrcLen
  BY Sizes
<1>2. Len(msg) > len /\ n = Len(msg) - len
  BY <1>1
<1>3. (\A v \in ToSet(Remainder(msg, len)) : v = 0) <=> EndsWith(msg, n, reg[n], len)
  <2>1. IsRegister(reg, msg, len, n) /\ reg[0] = Zeros(len)
    BY <1>1
  <2> QED BY <1>2, <2>1, Division
<1>4. EndsWith(msg, n, reg[n], len) <=> \A j \in 1 .. GoldenCrcLen : Value(j) = DueCrc[j]
  BY <1>1 DEF EndsWith
<1> QED BY <1>1, <1>3, <1>4, ValuesAreDue

\* The bits of a frame of which the first end - 1 bits are stuffed by rule that its CRC protects,
\* with the CRC itself: of the stuff bits it protects those stuffed by rule, but in CAN frames none.
ProtectedPlaces(frame, len, end, delim) ==
  {i \in 1 .. delim - 1 : IsStuff(frame[i]) => len # 15 /\ i < end}

\* What a receiver makes of their values: it feeds the first bit inverted, but in CAN frames.
AsFed(vals, len) == IF len = 15 THEN vals ELSE <<Opposite(vals[1])>> \o Tail(vals)

\* Read by their places, these are the bits the receiver feeds.
LEMMA ProtectedAt ==
  ASSUME NEW frame \in Seq(BitType), NEW end, NEW delim, StuffedAsReceived(end, delim, frame), NEW len,
         NEW m \in Nat, NEW q, Keeps(q, m, Len(frame), ProtectedPlaces(frame, len, end, delim)),
         NEW vals, vals = [j \in 1 .. m |-> frame[q[j]].val]
  PROVE  Protected(frame, len) = AsFed(vals, len)
<1>1. end \in 1 .. Len(frame) /\ EndOfStuffing(frame) = end /\ delim \in end .. Len(frame)
      /\ FirstOf(frame, "CrcDelim") = delim
  BY DEF StuffedAsReceived
<1>2. {i \in DOMAIN frame : IsStuff(frame[i])} = StuffPositions(frame)
  BY ReceivedPositions
<1>3. PICK kept : kept = {i \in 1 .. FirstOf(frame, "CrcDelim") - 1 :
                            i \in StuffPositions(frame) => len # 15 /\ i < EndOfStuffing(frame)}
  OBVIOUS
<1>4. kept = ProtectedPlaces(frame, len, end, delim)
  <2>1. ASSUME NEW i \in 1 .. delim - 1
        PROVE  i \in StuffPositions(frame) <=> IsStuff(frame[i])
    <3>1. i \in DOMAIN frame
      BY <1>1
    <3> QED BY <1>2, <3>1
  <2> QED BY <1>1, <1>3, <2>1 DEF ProtectedPlaces
<1>5. PICK seq : seq = [i \in DOMAIN frame |-> frame[i].val]
  OBVIOUS
<1>6. seq \in Seq({0, 1}) /\ Len(seq) = Len(frame) /\ Len(frame) > 0
  <2>1. \A i \in 1 .. Len(frame) : frame[i].val \in {0, 1}
    BY BitValues DEF Dominant, Recessive
  <2> QED BY <1>1, <1>5, <2>1
<1>7. OnlyAt(seq, kept) = [j \in 1 .. m |-> seq[q[j]]]
  <2>1. Keeps(q, m, Len(seq), kept) /\ Len(seq) > 0
    BY <1>4, <1>6
  <2> QED BY <1>6, <2>1, OnlyAtPlaces
<1>8. OnlyAt(seq, kept) = vals
  <2>1. ASSUME NEW j \in 1 .. m
        PROVE  seq[q[j]] = frame[q[j]].val
    <3>1. q[j] \in 1 .. Len(frame)
      BY DEF Keeps
    <3> QED BY <1>5, <3>1
  <2> QED BY <1>7, <2>1
<1> QED BY <1>3, <1>5, <1>8 DEF Protected, AsFed

\* The register, as it goes over a CAN frame without stuff bits.
LEMMA CanRegister ==
  ASSUME TypeInv, IsCan20
  PROVE  \E reg : /\ reg \in [0 .. First(content) -> Registers(GoldenCrcLen)]
                  /\ \A k \in 1 .. First(content) : reg[k] = CrcStep(reg[k - 1], Built[k].val)
                  /\ reg[0] = Zeros(GoldenCrcLen) /\ reg[First(content)] = DueCrc
<1>1. PICK len \in {15, 17, 21} : len = GoldenCrcLen
  BY Sizes
<1>2. FirstOf(Built, "Crc") = First(content) + 1 /\ First(content) \in Nat /\ First(content) > 0
      /\ Built \in Seq(BitType) /\ First(content) <= Len(Built)
  BY BuiltKinds, CrcAt, Sizes
<1>3. PICK n \in Nat : n = First(content)
  BY <1>2
<1>4. FirstOf(Built, "Crc") - 1 = n /\ FirstOf(Built, "Crc") > 1
  BY <1>2, <1>3
<1>5. PICK trace : /\ IsTrace(trace, CoverStep(Built, len, n), CrcInit(len), n, {}, Registers(len))
                   /\ CalcCrc(Built, len) = trace[n].acc
  BY <1>2, <1>4, CrcTraced
<1> PICK reg : reg = [k \in 0 .. n |-> trace[k].acc]
  OBVIOUS
<1>6. ASSUME NEW k \in 0 .. n
      PROVE  reg[k] = trace[k].acc /\ reg[k] \in Registers(len)
  BY <1>5 DEF IsTrace, Result
<1>7. ASSUME NEW k \in 1 .. n
      PROVE  reg[k] = CrcStep(reg[k - 1], Built[k].val)
  <2>1. k - 1 \in Nat /\ k - 1 < n /\ (k - 1) + 1 = k /\ k - 1 \in 0 .. n /\ k \in 0 .. n
    OBVIOUS
  <2>2. OneMore(trace, CoverStep(Built, len, n), k - 1, {}, Registers(len))
    BY <1>5, <2>1, TraceRound
  <2>3. trace[k].acc = CoverStep(Built, len, n)[k][reg[k - 1]].acc
    BY <1>6, <2>1, <2>2 DEF OneMore
  <2>4. CoverStep(Built, len, n)[k][reg[k - 1]] = CoverRound(Built[k], reg[k - 1], len)
    BY <1>6, <2>1 DEF CoverStep
  <2>5. Covered(len, Built[k])
    <3>1. Built[k].stuff = "NoStuff" /\ len = 15
      BY <1>1, <1>2, <1>3, BuiltKinds DEF FreshKinds, IsCan20
    <3> QED BY <3>1 DEF Covered, IsStuff
  <2> QED BY <1>6, <2>1, <2>3, <2>4, <2>5 DEF CoverRound
<1>8. reg[0] = Zeros(len)
  <2>1. CrcInit(len) = Zeros(len)
    BY <1>1 DEF CrcInit, Zeros, IsCan20
  <2>2. trace[0].acc = CrcInit(len)
    BY <1>5 DEF IsTrace
  <2> QED BY <1>6, <2>1, <2>2
<1>9. reg[n] = DueCrc
  <2>1. CrcSource(Built) = Built
    BY DEF CrcSource
  <2> QED BY <1>1, <1>5, <1>6, <2>1 DEF DueCrc
<1>10. reg \in [0 .. n -> Registers(len)]
  BY <1>6
<1> QED BY <1>1, <1>3, <1>7, <1>8, <1>9, <1>10

\* A receiver of a CAN frame finds the CRC in order.
LEMMA CanCrcHolds ==
  ASSUME TypeInv, FlippedInv, IsCan20, NEW place, Placed(place, bits, Built), Filled(bits),
         NEW delim, StuffedAsReceived(delim, delim, bits)
  PROVE  CrcHolds(bits, GoldenCrcLen) <=> flipped = 0
<1>1. /\ HeadLen \in Nat \ {0} /\ GoldenCrcLen = 15 /\ First(content) = HeadLen
      /\ Len(Built) \in Nat /\ Len(Built) > First(content) + GoldenCrcLen + 1
      /\ bits \in Seq(BitType) /\ Len(bits) \in Nat
  BY Sizes DEF TypeInv, IsCan20
<1>2. PICK f \in Nat, len \in Nat : f = First(content) /\ len = GoldenCrcLen /\ len = 15 /\ f > 0
  BY <1>1
<1>3. PICK last \in 1 .. Len(Built), m \in Nat : last = f + len + 1 /\ m = f + len
  <2>1. f + len + 1 \in 1 .. Len(Built) /\ f + len \in Nat
    BY <1>1, <1>2
  <2> QED BY <2>1
<1>4. delim \in 1 .. Len(bits) /\ FirstOf(bits, "CrcDelim") = delim /\ ~IsStuff(bits[delim])
  BY <1>1 DEF StuffedAsReceived
<1>5. place[last] = delim
  BY <1>1, <1>2, <1>3, <1>4, DelimPlace
<1>6. /\ place \in [1 .. Len(Built) -> 1 .. Len(bits)]
      /\ \A k, l \in 1 .. Len(Built) : k < l => place[k] < place[l]
      /\ \A k \in 1 .. Len(Built) : ~IsStuff(bits[place[k]])
      /\ \A j \in 1 .. Len(bits) : ~IsStuff(bits[j]) => \E k \in 1 .. Len(Built) : place[k] = j
  BY DEF Placed
<1> PICK q : q = [j \in 1 .. m |-> place[j]]
  OBVIOUS
<1>7. ASSUME NEW j \in 1 .. m
      PROVE  j \in 1 .. Len(Built) /\ j < last /\ q[j] = place[j] /\ q[j] \in 1 .. Len(bits)
  <2>1. j \in 1 .. Len(Built) /\ j < last
    BY <1>3
  <2> QED BY <1>6, <2>1
<1>8. Keeps(q, m, Len(bits), ProtectedPlaces(bits, len, delim, delim))
  <2>1. q \in [1 .. m -> 1 .. Len(bits)]
    BY <1>7
  <2>2. Increasing(q, m)
    BY <1>6, <1>7 DEF Increasing
  <2>3. ASSUME NEW i \in 1 .. Len(bits), i \in ProtectedPlaces(bits, len, delim, delim)
        PROVE  \E j \in 1 .. m : q[j] = i
    <3>1. i < delim /\ ~IsStuff(bits[i])
      BY <1>2, <1>4, <2>3 DEF ProtectedPlaces
    <3>2. PICK k \in 1 .. Len(Built) : place[k] = i
      BY <1>6, <3>1
    <3>3. ~(last < k) /\ k # last
      BY <1>4, <1>5, <1>6, <3>1, <3>2
    <3>4. k \in 1 .. m
      BY <1>3, <3>3
    <3> QED BY <1>7, <3>2, <3>4
  <2>4. ASSUME NEW i \in 1 .. Len(bits), NEW j \in 1 .. m, q[j] = i
        PROVE  i \in ProtectedPlaces(bits, len, delim, delim)
    <3>1. ~IsStuff(bits[i]) /\ i < delim
      BY <1>5, <1>6, <1>7, <2>4
    <3>2. i \in 1 .. delim - 1
      BY <1>4, <3>1
    <3> QED BY <3>1, <3>2 DEF ProtectedPlaces
  <2> QED BY <2>1, <2>2, <2>3, <2>4 DEF Keeps
<1> PICK msg : msg = [j \in 1 .. m |-> bits[q[j]].val]
  OBVIOUS
<1>9. Protected(bits, GoldenCrcLen) = msg
  <2>1. PICK frame, bound : frame = bits /\ bound = delim
    OBVIOUS
  <2>2. frame \in Seq(BitType)
    BY <1>1, <2>1
  <2>3. StuffedAsReceived(bound, delim, frame)
    BY <2>1
  <2>4. Keeps(q, m, Len(frame), ProtectedPlaces(frame, len, bound, delim))
    BY <1>8, <2>1
  <2>5. msg = [j \in 1 .. m |-> frame[q[j]].val]
    BY <2>1
  <2>6. Protected(frame, len) = AsFed(msg, len)
    BY <2>2, <2>3, <2>4, <2>5, ProtectedAt
  <2> QED BY <1>2, <2>1, <2>6 DEF AsFed
<1>10. msg \in Seq({0, 1}) /\ Len(msg) = m
  <2>1. ASSUME NEW j \in 1 .. m
        PROVE  bits[q[j]].val \in {0, 1}
    BY <1>1, <1>7, BitValues DEF Dominant, Recessive
  <2> QED BY <2>1
<1>11. ASSUME NEW k \in 1 .. f
       PROVE  msg[k] = Built[k].val
  <2>1. k \in 1 .. m /\ k \in 1 .. HeadLen
    BY <1>1, <1>2, <1>3
  <2>2. Built[k].kind \in HeadKinds
    <3>1. k \in 1 .. Len(Built)
      BY <1>7, <2>1
    <3> QED BY <2>1, BuiltKinds DEF FreshKinds
  <2>3. Built[k].kind \notin Calculated
    BY <2>2 DEF HeadKinds, Calculated
  <2>4. bits[place[k]].val = Built[k].val
    BY <1>7, <2>1, <2>3 DEF Placed
  <2> QED BY <1>7, <2>1, <2>4
<1>12. PICK reg : /\ reg \in [0 .. First(content) -> Registers(GoldenCrcLen)]
                  /\ \A k \in 1 .. First(content) : reg[k] = CrcStep(reg[k - 1], Built[k].val)
                  /\ reg[0] = Zeros(GoldenCrcLen) /\ reg[First(content)] = DueCrc
  BY CanRegister
<1>13. IsRegister(reg, msg, GoldenCrcLen, f)
  BY <1>2, <1>11, <1>12 DEF IsRegister
<1>14. ASSUME NEW j \in 1 .. GoldenCrcLen
       PROVE  msg[f + j] = Value(j)
  <2>1. PICK k \in 1 .. m : k = f + j
    <3>1. f + j \in 1 .. m
      BY <1>2, <1>3
    <3> QED BY <3>1
  <2>2. bits[place[k]].val = Value(j)
    BY <1>2, <2>1 DEF Filled
  <2> QED BY <1>7, <2>1, <2>2
<1>15. f > 0 /\ Len(msg) = f + GoldenCrcLen /\ reg[0] = Zeros(GoldenCrcLen) /\ reg[f] = DueCrc
  BY <1>2, <1>3, <1>10, <1>12
<1>16. (\A v \in ToSet(Remainder(msg, GoldenCrcLen)) : v = 0) <=> flipped = 0
  BY <1>10, <1>13, <1>14, <1>15, HoldsAsDue
<1> QED BY <1>9, <1>16 DEF CrcHolds

\* The register CalcCrc leaves after each of the bits before the CRC.
CrcAfter(value, frame, len, n) ==
  /\ value \in [0 .. n -> Registers(len)] /\ value[0] = CrcInit(len)
  /\ \A k \in 1 .. n : value[k] = IF Covered(len, frame[k]) THEN CrcStep(value[k - 1], frame[k].val)
                                  ELSE value[k - 1]

\* CalcCrc has such registers, and returns the last.
LEMMA CrcGoesOver ==
  ASSUME NEW frame \in Seq(BitType), NEW len \in {15, 17, 21}, NEW n \in Nat, n > 0,
         FirstOf(frame, "Crc") = n + 1
  PROVE  \E value : CrcAfter(value, frame, len, n) /\ CalcCrc(frame, len) = value[n]
<1>1. FirstOf(frame, "Crc") > 1 /\ FirstOf(frame, "Crc") - 1 = n
  OBVIOUS
<1>2. PICK trace : /\ IsTrace(trace, CoverStep(frame, len, n), CrcInit(len), n, {}, Registers(len))
                   /\ CalcCrc(frame, len) = trace[n].acc
  BY <1>1, CrcTraced
<1> PICK value : value = [k \in 0 .. n |-> trace[k].acc]
  OBVIOUS
<1>3. ASSUME NEW k \in 0 .. n
      PROVE  value[k] = trace[k].acc /\ value[k] \in Registers(len)
  BY <1>2 DEF IsTrace, Result
<1>4. ASSUME NEW k \in 1 .. n
      PROVE  value[k] = IF Covered(len, frame[k]) THEN CrcStep(value[k - 1], frame[k].val)
                        ELSE value[k - 1]
  <2>1. k - 1 \in Nat /\ k - 1 < n /\ (k - 1) + 1 = k /\ k - 1 \in 0 .. n /\ k \in 0 .. n
    OBVIOUS
  <2>2. OneMore(trace, CoverStep(frame, len, n), k - 1, {}, Registers(len))
    BY <1>2, <2>1, TraceRound
  <2>3. trace[k].acc = CoverStep(frame, len, n)[k][value[k - 1]].acc
    BY <1>3, <2>1, <2>2 DEF OneMore
  <2>4. CoverStep(frame, len, n)[k][value[k - 1]] = CoverRound(frame[k], value[k - 1], len)
    BY <1>3, <2>1 DEF CoverStep
  <2> QED BY <1>3, <2>1, <2>3, <2>4 DEF CoverRound
<1>5. value[0] = CrcInit(len) /\ 0 \in 0 .. n
  <2>1. trace[0].acc = CrcInit(len)
    BY <1>2 DEF IsTrace
  <2> QED BY <1>3, <2>1
<1>6. value \in [0 .. n -> Registers(len)]
  BY <1>3
<1>7. CrcAfter(value, frame, len, n)
  BY <1>4, <1>5, <1>6 DEF CrcAfter
<1>8. CalcCrc(frame, len) = value[n]
  BY <1>2, <1>3
<1> QED BY <1>7, <1>8

\* To set the first bit of the register and not to set it but to invert the first bit of the
\* frame come to the same.
LEMMA FirstBitInverted ==
  ASSUME NEW len \in {17, 21}, NEW v \in {0, 1}
  PROVE  CrcStep(Zeros(len), Opposite(v)) = CrcStep(CrcInit(len), v)
<1>1. Zeros(len) \in Registers(len) /\ CrcInit(len) \in Registers(len) /\ Opposite(v) \in {0, 1}
  BY DEF Zeros, CrcInit, Registers, Opposite
<1>2. len \in {15, 17, 21} /\ Len(Zeros(len)) = len /\ Len(CrcInit(len)) = len
  BY DEF Zeros, CrcInit
<1>3. Zeros(len)[1] = 0 /\ CrcInit(len)[1] = 1
  BY DEF Zeros, CrcInit
<1>4. Xor(Opposite(v), 0) = Xor(v, 1)
  BY DEF Xor, Opposite
<1>5. ASSUME NEW i \in 1 .. len, i # len
      PROVE  Zeros(len)[i + 1] = 0 /\ CrcInit(len)[i + 1] = 0
  <2>1. i + 1 \in 1 .. len /\ i + 1 # 1
    BY <1>5
  <2> QED BY <2>1 DEF Zeros, CrcInit
<1>6. ASSUME NEW i \in 1 .. len
      PROVE  CrcStep(Zeros(len), Opposite(v))[i] = CrcStep(CrcInit(len), v)[i]
  <2>1. CrcStep(Zeros(len), Opposite(v))[i]
          = Xor(IF i = len THEN 0 ELSE Zeros(len)[i + 1],
                IF Xor(Opposite(v), Zeros(len)[1]) = 0 THEN 0 ELSE Poly(len)[i])
    BY <1>1, <1>2, CrcStepBit
  <2>2. CrcStep(CrcInit(len), v)[i]
          = Xor(IF i = len THEN 0 ELSE CrcInit(len)[i + 1],
                IF Xor(v, CrcInit(len)[1]) = 0 THEN 0 ELSE Poly(len)[i])
    BY <1>1, <1>2, CrcStepBit
  <2>3. Xor(Opposite(v), Zeros(len)[1]) = Xor(v, CrcInit(len)[1])
    BY <1>3, <1>4
  <2>4. (IF i = len THEN 0 ELSE Zeros(len)[i + 1]) = IF i = len THEN 0 ELSE CrcInit(len)[i + 1]
    BY <1>5
  <2> QED BY <2>1, <2>2, <2>3, <2>4
<1>7. CrcStep(Zeros(len), Opposite(v)) \in [1 .. len -> {0, 1}]
      /\ CrcStep(CrcInit(len), v) \in [1 .. len -> {0, 1}]
  <2>1. Zeros(len) \in [1 .. len -> {0, 1}] /\ CrcInit(len) \in [1 .. len -> {0, 1}]
    BY <1>1 DEF Registers
  <2> QED BY <1>1, <1>2, <2>1, CrcStepType
<1> QED BY <1>6, <1>7

\* An FD frame with its stuff count from end on, as CalcCrc and a receiver go over it up to the
\* CRC: only the stuff bits around the stuff count are fixed ones.
FdCovered(frame, end) ==
  /\ end > 1 /\ FirstOf(frame, "Crc") = end + 6 /\ end + 6 <= Len(frame)
  /\ \A j \in 1 .. end - 1 : frame[j].stuff # "Fixed"
  /\ frame[end].stuff = "Fixed" /\ frame[end + 5].stuff = "Fixed"
  /\ \A j \in end + 1 .. end + 4 : frame[j].stuff = "NoStuff"

\* What the receiver feeds: the first bit inverted, the fixed stuff bits left out.
FdFed(msg, frame, end) ==
  /\ msg[1] = Opposite(frame[1].val)
  /\ \A k \in 2 .. end - 1 : msg[k] = frame[k].val
  /\ \A k \in end .. end + 3 : msg[k] = frame[k + 1].val

\* A register that is empty and comes to a CRC.
ComesTo(reg, msg, len, n, code) ==
  IsRegister(reg, msg, len, n) /\ reg[0] = Zeros(len) /\ reg[n] = code

\* The receiver's register comes to the CRC that CalcCrc finds.
LEMMA FdRegister ==
  ASSUME NEW frame \in Seq(BitType), NEW len \in {17, 21}, NEW end \in Nat, FdCovered(frame, end),
         NEW msg, FdFed(msg, frame, end), NEW fed, fed = end + 3
  PROVE  \E reg : ComesTo(reg, msg, len, fed, CalcCrc(frame, len))
<1>1. end > 1 /\ end + 5 \in Nat /\ end + 5 > 0 /\ FirstOf(frame, "Crc") = (end + 5) + 1
      /\ len \in {15, 17, 21} /\ len # 15 /\ Len(frame) \in Nat /\ end + 6 <= Len(frame)
  BY DEF FdCovered
<1>2. PICK n \in Nat : n = end + 5
  BY <1>1
<1>3. PICK value : CrcAfter(value, frame, len, n) /\ CalcCrc(frame, len) = value[n]
  BY <1>1, <1>2, CrcGoesOver
<1>4. /\ \A k \in 0 .. n : value[k] \in Registers(len)
      /\ value[0] = CrcInit(len)
      /\ \A k \in 1 .. n : frame[k].stuff # "Fixed" => value[k] = CrcStep(value[k - 1], frame[k].val)
      /\ \A k \in 1 .. n : frame[k].stuff = "Fixed" => value[k] = value[k - 1]
  BY <1>1, <1>3 DEF CrcAfter, Covered
<1>5. value[end] = value[end - 1] /\ value[n] = value[end + 4]
  <2>1. end \in 1 .. n /\ n \in 1 .. n /\ n - 1 = end + 4
    BY <1>1, <1>2
  <2>2. frame[end].stuff = "Fixed" /\ frame[n].stuff = "Fixed"
    BY <1>2 DEF FdCovered
  <2>3. value[end] = value[end - 1]
    BY <1>4, <2>1, <2>2
  <2>4. value[n] = value[n - 1]
    BY <1>4, <2>1, <2>2
  <2> QED BY <2>1, <2>3, <2>4
<1> PICK reg : reg = [k \in 0 .. end + 3 |-> IF k = 0 THEN Zeros(len) ELSE IF k < end THEN value[k]
                                             ELSE value[k + 1]]
  OBVIOUS
<1>6. /\ reg[0] = Zeros(len)
      /\ \A k \in 1 .. end - 1 : reg[k] = value[k]
      /\ \A k \in end .. end + 3 : reg[k] = value[k + 1]
  <2>1. 0 \in 0 .. end + 3
    BY <1>1
  <2>2. ASSUME NEW k \in 1 .. end - 1
        PROVE  reg[k] = value[k]
    <3>1. k \in 0 .. end + 3 /\ k # 0 /\ k < end
      OBVIOUS
    <3> QED BY <3>1
  <2>3. ASSUME NEW k \in end .. end + 3
        PROVE  reg[k] = value[k + 1]
    <3>1. k \in 0 .. end + 3 /\ k # 0 /\ ~(k < end)
      BY <1>1
    <3> QED BY <3>1
  <2> QED BY <2>1, <2>2, <2>3
<1>7. reg \in [0 .. end + 3 -> Registers(len)]
  <2>1. Zeros(len) \in Registers(len)
    BY DEF Zeros, Registers
  <2>2. ASSUME NEW k \in 0 .. end + 3
        PROVE  reg[k] \in Registers(len)
    <3>1. CASE k = 0
      BY <1>6, <2>1, <3>1
    <3>2. CASE k # 0 /\ k < end
      <4>1. k \in 1 .. end - 1 /\ k \in 0 .. n
        BY <1>2, <3>2
      <4> QED BY <1>4, <1>6, <4>1
    <3>3. CASE k # 0 /\ ~(k < end)
      <4>1. k \in end .. end + 3 /\ k + 1 \in 0 .. n
        BY <1>2, <3>3
      <4> QED BY <1>4, <1>6, <4>1
    <3> QED BY <3>1, <3>2, <3>3
  <2> QED BY <2>2
<1>8. ASSUME NEW k \in 1 .. end + 3
      PROVE  reg[k] = CrcStep(reg[k - 1], msg[k])
  <2>1. CASE k = 1
    <3>1. 1 \in 1 .. n /\ 1 \in 1 .. end - 1 /\ 1 - 1 = 0 /\ 1 \in 1 .. Len(frame)
      BY <1>1, <1>2
    <3>2. frame[1].stuff # "Fixed" /\ msg[1] = Opposite(frame[1].val)
      BY <3>1 DEF FdCovered, FdFed
    <3>3. value[1] = CrcStep(value[0], frame[1].val)
      BY <1>4, <3>1, <3>2
    <3>4. frame[1].val \in {0, 1}
      BY <3>1, BitValues DEF Dominant, Recessive
    <3>5. CrcStep(Zeros(len), Opposite(frame[1].val)) = CrcStep(CrcInit(len), frame[1].val)
      BY <3>4, FirstBitInverted
    <3> QED BY <1>4, <1>6, <2>1, <3>1, <3>2, <3>3, <3>5
  <2>2. CASE k # 1 /\ k < end
    <3>1. k \in 1 .. n /\ k \in 2 .. end - 1 /\ k \in 1 .. end - 1 /\ k - 1 \in 1 .. end - 1
      BY <1>1, <1>2, <2>2
    <3>2. frame[k].stuff # "Fixed" /\ msg[k] = frame[k].val
      BY <3>1 DEF FdCovered, FdFed
    <3>3. value[k] = CrcStep(value[k - 1], frame[k].val)
      BY <1>4, <3>1, <3>2
    <3> QED BY <1>6, <3>1, <3>2, <3>3
  <2>3. CASE ~(k < end)
    <3>1. k + 1 \in 1 .. n /\ k \in end .. end + 3 /\ k + 1 \in end + 1 .. end + 4 /\ (k + 1) - 1 = k
      BY <1>1, <1>2, <2>3
    <3>2. frame[k + 1].stuff # "Fixed" /\ msg[k] = frame[k + 1].val
      <4>1. frame[k + 1].stuff = "NoStuff"
        BY <3>1 DEF FdCovered
      <4>2. msg[k] = frame[k + 1].val
        BY <3>1 DEF FdFed
      <4> QED BY <4>1, <4>2
    <3>3. value[k + 1] = CrcStep(value[k], msg[k])
      BY <1>4, <3>1, <3>2
    <3>4. reg[k - 1] = value[k]
      <4>1. CASE k = end
        <5>1. k - 1 \in 1 .. end - 1
          BY <1>1, <4>1
        <5>2. reg[k - 1] = value[k - 1]
          BY <1>6, <5>1
        <5> QED BY <1>5, <4>1, <5>2
      <4>2. CASE k # end
        <5>1. k - 1 \in end .. end + 3 /\ (k - 1) + 1 = k
          BY <2>3, <4>2
        <5> QED BY <1>6, <5>1
      <4> QED BY <4>1, <4>2
    <3> QED BY <1>6, <3>1, <3>3, <3>4
  <2> QED BY <2>1, <2>2, <2>3
<1>9. reg[end + 3] = CalcCrc(frame, len)
  <2>1. end + 3 \in end .. end + 3 /\ (end + 3) + 1 = end + 4
    BY <1>1
  <2> QED BY <1>3, <1>5, <1>6, <2>1
<1>10. IsRegister(reg, msg, len, end + 3)
  BY <1>7, <1>8 DEF IsRegister
<1>11. ComesTo(reg, msg, len, fed, CalcCrc(frame, len))
  BY <1>6, <1>9, <1>10 DEF ComesTo
<1> QED BY <1>11

\* The fixed stuff bits are inserted behind the first bit of the CRC.
LEMMA FixedStuffAfter ==
  ASSUME NEW frame \in Seq(BitType), NEW p \in Nat, p > 0, NEW len \in Nat, len > 0, p + len <= Len(frame),
         FirstOf(frame, "Crc") = p, FirstOf(frame, "CrcDelim") = p + len,
         NEW new, new = InsertFixedStuffToCrc(frame)
  PROVE  /\ new \in Seq(BitType) /\ p <= Len(new)
         /\ \A j \in 1 .. p : new[j] = frame[j]
<1>1. PICK delim \in 1 .. Len(frame) : delim = p + len
  <2>1. p + len \in 1 .. Len(frame)
    OBVIOUS
  <2> QED BY <2>1
<1>2. p < delim /\ delim - p = len
  BY <1>1
<1>3. PICK trace : /\ IsTrace(trace, FixedStep(frame, p, len), 0, len, BitType, Nat)
                   /\ StuffFromTo(frame, p, delim) = FixedStuffed(frame, p, delim, trace[len].out)
  BY <1>2, FixedStuffTraced
<1>4. PICK out : out = trace[len].out
  OBVIOUS
<1>5. trace[len] \in Result(BitType, Nat) /\ trace[0] = [out |-> <<>>, acc |-> 0]
  <2>1. len \in 0 .. len
    OBVIOUS
  <2> QED BY <1>3, <2>1 DEF IsTrace
<1>6. out \in Seq(BitType) /\ Len(out) \in Nat
  BY <1>4, <1>5 DEF Result
<1>7. FixedStep(frame, p, len) \in StepFcns(len, BitType, Nat)
  <2>1. ASSUME NEW i \in 1 .. len, NEW acc \in Nat
        PROVE  FixedRound(frame[p + i - 1], acc) \in Result(BitType, Nat)
    <3>1. p + i - 1 \in 1 .. Len(frame)
      BY <2>1
    <3>2. frame[p + i - 1] \in BitType
      BY <3>1
    <3> QED BY <3>2, FixedRoundResult
  <2> QED BY <2>1 DEF FixedStep, StepFcns
<1>8. trace[1].out = <<frame[p]>>
  <2>1. 0 \in Nat /\ 0 < len /\ 0 + 1 = 1 /\ 1 \in 1 .. len /\ p + 1 - 1 = p /\ 0 \in Nat
    OBVIOUS
  <2> PICK k \in Nat : k = 0
    OBVIOUS
  <2> PICK one : one = FixedStep(frame, p, len)[k + 1][trace[k].acc]
    OBVIOUS
  <2>2. k < len
    OBVIOUS
  <2>3. OneMore(trace, FixedStep(frame, p, len), k, BitType, Nat)
    BY <1>3, <2>2, TraceRound
  <2>7. trace[k + 1].out = trace[k].out \o one.out
    BY <2>2, <2>3 DEF OneMore
  <2>8. k + 1 = 1 /\ trace[k].out = <<>> /\ trace[k].acc = 0
    BY <1>5, <2>2
  <2>9. one = FixedStep(frame, p, len)[1][0]
    BY <2>2, <2>8
  <2>4. FixedStep(frame, p, len)[1][0] = FixedRound(frame[p], 0)
    BY <2>1 DEF FixedStep
  <2>5. FixedRound(frame[p], 0).out = <<frame[p]>>
    BY DEF FixedRound, CrcStuffEvery
  <2>6. frame[p] \in BitType
    <3>1. p \in 1 .. Len(frame)
      OBVIOUS
    <3> QED BY <3>1
  <2>10. one.out = <<frame[p]>>
    BY <2>4, <2>5, <2>9
  <2> QED BY <2>6, <2>7, <2>8, <2>10
<1>9. Begins(trace[1].out, out)
  <2>1. 1 \in Nat /\ 1 <= len
    OBVIOUS
  <2> QED BY <1>3, <1>4, <1>7, <2>1, TraceGrows
<1>10. Len(out) >= 1 /\ out[1] = frame[p]
  <2>1. Len(<<frame[p]>>) = 1 /\ <<frame[p]>>[1] = frame[p]
    OBVIOUS
  <2> QED BY <1>6, <1>8, <1>9, <2>1 DEF Begins
<1>11. new = FixedStuffed(frame, p, p + len, out)
  BY <1>1, <1>3, <1>4 DEF InsertFixedStuffToCrc
<1>12. SoFar(new, frame, p, out, len)
  <2>1. p \in Nat \ {0}
    OBVIOUS
  <2> QED BY <1>6, <1>11, <2>1, SoFarOf
<1>13. /\ new \in Seq(BitType) /\ Len(new) = Len(out) + (Len(frame) - len)
       /\ \A j \in 1 .. p - 1 : new[j] = frame[j]
       /\ \A j \in 1 .. Len(out) : new[(p - 1) + j] = out[j]
  BY <1>12 DEF SoFar
<1>14. new[p] = frame[p]
  <2>1. 1 \in 1 .. Len(out) /\ (p - 1) + 1 = p
    BY <1>6, <1>10
  <2> QED BY <1>10, <1>13, <2>1
<1>15. p <= Len(new)
  BY <1>6, <1>10, <1>13
<1>16. ASSUME NEW j \in 1 .. p
       PROVE  new[j] = frame[j]
  <2>1. CASE j = p
    BY <1>14, <2>1
  <2>2. CASE j # p
    <3>1. j \in 1 .. p - 1
      BY <2>2
    <3> QED BY <1>13, <3>1
  <2> QED BY <2>1, <2>2
<1> QED BY <1>13, <1>15, <1>16

\* Before its stuff count, the frame the CRC is computed over has no fixed stuff bit.
LEMMA UnfixedBeforeCount ==
  ASSUME TypeInv, ~IsCan20, NEW frame, FreshKinds(frame), NEW source, source = CrcSource(frame)
  PROVE  \E end \in Nat : /\ FirstOf(source, "Crc") = end + 6
                          /\ \A j \in 1 .. end - 1 : source[j].stuff # "Fixed"
<1>1. PICK trace : NormallyStuffed(trace, frame)
  BY NormalOf
<1>2. PICK new, cnt, end : /\ new = InsertNormalStuffBits(frame).bits
                           /\ cnt = InsertNormalStuffBits(frame).cnt
                           /\ end = 2 + Len(trace[HeadLen - 1].out)
  OBVIOUS
<1>3. ReadyToCount(new, frame, end) /\ cnt \in 0 .. 7
  BY <1>1, <1>2, StuffedReady
<1>4. SoFar(new, frame, 2, trace[HeadLen - 1].out, HeadLen - 1)
  BY <1>1, <1>2, StuffedReady
<1>5. InsertNormalStuffBits(frame) = [bits |-> new, cnt |-> cnt]
  BY <1>1, <1>2 DEF NormallyStuffed
<1>6. PICK set \in Seq(BitType), first \in BitType, second \in BitType :
        /\ CountSet(set, new, end, cnt)
        /\ WithStuffAround(UpdateStuffCnt([bits |-> new, cnt |-> cnt]), set, end, first, second)
  BY <1>3, WrittenCount DEF ReadyToCount
<1>7. WithStuffAround(source, set, end, first, second)
  BY <1>5, <1>6 DEF CrcSource
<1>8. Sourced(source, frame, end + 6) /\ AroundCount(source, set, end, first, second)
  BY <1>3, <1>6, <1>7, CountedSource
<1>9. FirstOf(source, "Crc") = end + 6 /\ end \in Nat /\ end <= Len(new) /\ Len(new) \in Nat
  BY <1>3, <1>8 DEF Sourced, ReadyToCount
<1>10. HeadLen - 1 \in 0 .. HeadLen - 1
  BY HeadIsLong
<1>11. PICK out \in Seq(UnfixedBits) : out = trace[HeadLen - 1].out
  <2>1. trace[HeadLen - 1] \in Result(UnfixedBits, StuffAcc)
    BY <1>1, <1>10 DEF NormallyStuffed, IsTrace
  <2> QED BY <2>1 DEF Result
<1>12. /\ \A j \in 1 .. 2 - 1 : new[j] = frame[j]
       /\ \A j \in 1 .. Len(out) : new[(2 - 1) + j] = out[j]
       /\ end = 2 + Len(out) /\ Len(out) \in Nat
  BY <1>2, <1>4, <1>11 DEF SoFar
<1>13. ASSUME NEW j \in 1 .. end - 1
       PROVE  source[j].stuff # "Fixed"
  <2>1. j \in 1 .. Len(new)
    BY <1>9
  <2>2. source[j] = set[j] /\ set[j].stuff = new[j].stuff
    BY <1>6, <1>8, <2>1 DEF AroundCount, CountSet, SameShape
  <2>3. new[j].stuff # "Fixed"
    <3>1. CASE j = 1
      <4>1. 1 \in 1 .. 2 - 1
        OBVIOUS
      <4>2. new[1] = frame[1]
        BY <1>12, <4>1
      <4>3. 1 \in 1 .. Len(frame)
        BY Sizes DEF FreshKinds
      <4>4. frame[1].stuff = "NoStuff"
        BY <4>3 DEF FreshKinds
      <4> QED BY <3>1, <4>2, <4>4
    <3>2. CASE j # 1
      <4>1. j - 1 \in 1 .. Len(out) /\ (2 - 1) + (j - 1) = j
        BY <1>12, <3>2
      <4>2. new[j] = out[j - 1]
        BY <1>12, <4>1
      <4>3. out[j - 1] \in UnfixedBits
        BY <4>1
      <4> QED BY <4>2, <4>3 DEF UnfixedBits
    <3> QED BY <3>1, <3>2
  <2> QED BY <2>2, <2>3
<1> QED BY <1>9, <1>13

\* The stuff count of an FD frame is between its two fixed stuff bits, what is built before it
\* before the first of them.
LEMMA CountPlaces ==
  ASSUME TypeInv, ~IsCan20, NEW place, Placed(place, bits, Built), NEW end \in Nat,
         CountWritten(end, bits), place[First(content) + 1] = end + 6
  PROVE  /\ \A l \in 1 .. 4 : place[HeadLen + l] = end + l
         /\ \A k \in 1 .. HeadLen : place[k] < end
<1>1. /\ HeadLen \in Nat \ {0} /\ First(content) = HeadLen + 4
      /\ Len(Built) \in Nat /\ Len(Built) > First(content) + GoldenCrcLen + 1
      /\ GoldenCrcLen \in {15, 17, 21} /\ bits \in Seq(BitType) /\ Len(bits) \in Nat
  BY Sizes DEF TypeInv
<1>2. PICK h \in Nat : h = HeadLen /\ h > 0 /\ First(content) + 1 = h + 5 /\ h + 5 <= Len(Built)
  BY <1>1
<1>3. /\ place \in [1 .. Len(Built) -> 1 .. Len(bits)]
      /\ \A k, l \in 1 .. Len(Built) : k < l => place[k] < place[l]
      /\ \A k \in 1 .. Len(Built) : bits[place[k]].kind = Built[k].kind /\ ~IsStuff(bits[place[k]])
  BY DEF Placed
<1>4. end > 1 /\ end + 6 <= Len(bits) /\ NoneBefore(end, LastKinds, bits)
      /\ bits[end].stuff = "Fixed" /\ bits[end + 5].stuff = "Fixed"
  BY DEF CountWritten, StuffedInOrder, StuffCntBlock
<1>5. IsStuff(bits[end]) /\ IsStuff(bits[end + 5])
  BY <1>4 DEF IsStuff
<1>14. ASSUME NEW k \in 1 .. Len(Built)
       PROVE  place[k] \in Nat
  <2>1. place[k] \in 1 .. Len(bits)
    BY <1>3
  <2> QED BY <2>1
<1>6. PICK a \in Nat, b \in Nat, c \in Nat, d \in Nat :
        a = place[h + 1] /\ b = place[h + 2] /\ c = place[h + 3] /\ d = place[h + 4]
  <2>1. h + 1 \in 1 .. Len(Built) /\ h + 2 \in 1 .. Len(Built) /\ h + 3 \in 1 .. Len(Built)
        /\ h + 4 \in 1 .. Len(Built)
    BY <1>1, <1>2
  <2>2. place[h + 1] \in Nat /\ place[h + 2] \in Nat /\ place[h + 3] \in Nat /\ place[h + 4] \in Nat
    BY <1>14, <2>1
  <2> QED BY <2>2
<1>7. a < b /\ b < c /\ c < d /\ d < end + 6
  <2>1. h + 1 \in 1 .. Len(Built) /\ h + 2 \in 1 .. Len(Built) /\ h + 3 \in 1 .. Len(Built)
        /\ h + 4 \in 1 .. Len(Built) /\ h + 5 \in 1 .. Len(Built)
    BY <1>1, <1>2
  <2>2. place[h + 1] < place[h + 2] /\ place[h + 2] < place[h + 3] /\ place[h + 3] < place[h + 4]
        /\ place[h + 4] < place[h + 5]
    BY <1>1, <1>2, <1>3, <2>1
  <2>3. place[h + 5] = end + 6
    BY <1>2
  <2> QED BY <1>6, <2>2, <2>3
<1>8. bits[a].kind = "StuffCnt" /\ ~IsStuff(bits[a]) /\ ~IsStuff(bits[d]) /\ a \in 1 .. Len(bits)
  <2>1. h + 1 \in 1 .. Len(Built) /\ h + 4 \in 1 .. Len(Built) /\ 1 \in 1 .. 3
    BY <1>1, <1>2
  <2>2. Built[HeadLen + 1].kind = "StuffCnt"
    BY <2>1, BuiltKinds DEF FreshKinds
  <2>3. bits[place[h + 1]].kind = "StuffCnt"
    BY <1>2, <1>3, <2>1, <2>2
  <2>4. ~IsStuff(bits[place[h + 1]]) /\ ~IsStuff(bits[place[h + 4]]) /\ place[h + 1] \in 1 .. Len(bits)
    BY <1>3, <2>1
  <2> QED BY <1>6, <2>3, <2>4
<1>9. ~(a < end)
  <2>1. ASSUME a < end
        PROVE  FALSE
    <3>1. a \in 1 .. end - 1
      BY <1>8, <2>1
    <3>2. bits[a].kind \in LastKinds
      BY <1>8 DEF LastKinds
    <3> QED BY <1>4, <3>1, <3>2 DEF NoneBefore
  <2> QED BY <2>1
<1>10. a # end /\ d # end + 5
  BY <1>5, <1>8
<1>11. a = end + 1 /\ b = end + 2 /\ c = end + 3 /\ d = end + 4
  BY <1>7, <1>9, <1>10
<1>12. ASSUME NEW l \in 1 .. 4
       PROVE  place[HeadLen + l] = end + l
  <2>1. CASE l = 1
    BY <1>2, <1>6, <1>11, <2>1
  <2>2. CASE l = 2
    BY <1>2, <1>6, <1>11, <2>2
  <2>3. CASE l = 3
    BY <1>2, <1>6, <1>11, <2>3
  <2>4. CASE l = 4
    BY <1>2, <1>6, <1>11, <2>4
  <2> QED BY <2>1, <2>2, <2>3, <2>4
<1>13. ASSUME NEW k \in 1 .. HeadLen
       PROVE  place[k] < end
  <2>1. k \in 1 .. Len(Built) /\ h + 1 \in 1 .. Len(Built) /\ k < h + 1
    BY <1>1, <1>2
  <2>2. place[k] < place[h + 1] /\ place[k] \in Nat
    BY <1>3, <1>14, <2>1
  <2>4. place[k] < a
    BY <1>6, <2>2
  <2>3. place[k] # end
    BY <1>3, <1>5, <2>1
  <2> QED BY <1>11, <2>2, <2>3, <2>4
<1> QED BY <1>12, <1>13

\* The bits of an FD frame a receiver feeds, by the places of what was built.
FdPlaces(q, place, end, len) ==
  /\ \A j \in 1 .. end - 1 : q[j] = j
  /\ \A j \in end .. end + 3 : q[j] = j + 1
  /\ \A l \in 1 .. len : q[(end + 3) + l] = place[First(content) + l]

\* They are the ones the CRC protects.
LEMMA FdKept ==
  ASSUME TypeInv, ~IsCan20, NEW place, Placed(place, bits, Built), NEW end \in Nat,
         CountWritten(end, bits), place[First(content) + 1] = end + 6,
         NEW delim, StuffedAsReceived(end, delim, bits), NEW len, len = GoldenCrcLen, len \in {17, 21},
         NEW m \in Nat, m = (end + 3) + len
  PROVE  \E q : /\ FdPlaces(q, place, end, len)
                /\ Keeps(q, m, Len(bits), ProtectedPlaces(bits, len, end, delim))
<1>1. /\ HeadLen \in Nat \ {0} /\ First(content) = HeadLen + 4
      /\ Len(Built) \in Nat /\ Len(Built) > First(content) + GoldenCrcLen + 1
      /\ bits \in Seq(BitType) /\ Len(bits) \in Nat
  BY Sizes DEF TypeInv
<1>2. PICK f \in Nat : f = First(content) /\ f = HeadLen + 4 /\ f + len + 1 < Len(Built)
  BY <1>1
<1>3. /\ place \in [1 .. Len(Built) -> 1 .. Len(bits)]
      /\ \A k, l \in 1 .. Len(Built) : k < l => place[k] < place[l]
      /\ \A k \in 1 .. Len(Built) : ~IsStuff(bits[place[k]])
      /\ \A j \in 1 .. Len(bits) : ~IsStuff(bits[j]) => \E k \in 1 .. Len(Built) : place[k] = j
  BY DEF Placed
<1>4. delim \in 1 .. Len(bits) /\ FirstOf(bits, "CrcDelim") = delim /\ ~IsStuff(bits[delim])
      /\ end \in 1 .. Len(bits) /\ end > 1
  BY <1>1 DEF StuffedAsReceived, CountWritten
<1>5. place[f + len + 1] = delim
  <2>1. f + len + 1 \in 1 .. Len(Built)
    BY <1>1, <1>2
  <2>2. PICK last \in 1 .. Len(Built) : last = f + len + 1
    BY <2>1
  <2>3. last = First(content) + GoldenCrcLen + 1
    BY <1>2, <2>2
  <2>4. place[last] = delim
    BY <1>1, <1>4, <2>3, DelimPlace
  <2> QED BY <2>2, <2>4
<1>6. /\ \A l \in 1 .. 4 : place[HeadLen + l] = end + l
      /\ \A k \in 1 .. HeadLen : place[k] < end
  BY CountPlaces
<1>7. ASSUME NEW l \in 1 .. len
      PROVE  place[f + l] \in end + 6 .. delim - 1
  <2>1. f + l \in 1 .. Len(Built) /\ f + 1 \in 1 .. Len(Built) /\ f + len + 1 \in 1 .. Len(Built)
        /\ f + l < f + len + 1 /\ (l = 1 \/ f + 1 < f + l)
    BY <1>1, <1>2
  <2>2. place[f + l] < delim
    BY <1>3, <1>5, <2>1
  <2>3. place[f + 1] = end + 6
    BY <1>2
  <2>4. place[f + l] \in 1 .. Len(bits)
    BY <1>3, <2>1
  <2>5. l = 1 \/ place[f + 1] < place[f + l]
    BY <1>3, <2>1
  <2> QED BY <1>1, <1>4, <2>2, <2>3, <2>4, <2>5
<1>8. delim > end + 6
  <2>1. 1 \in 1 .. len
    OBVIOUS
  <2>2. place[f + 1] \in end + 6 .. delim - 1
    BY <1>7, <2>1
  <2> QED BY <1>2, <1>4, <2>2
<1> PICK q : q = [j \in 1 .. m |-> IF j < end THEN j ELSE IF j <= end + 3 THEN j + 1
                                  ELSE place[f + (j - (end + 3))]]
  OBVIOUS
<1>9. ASSUME NEW j \in 1 .. end - 1
      PROVE  j \in 1 .. m /\ q[j] = j
  <2>1. j \in 1 .. m /\ j < end
    BY <1>4
  <2> QED BY <2>1
<1>10. ASSUME NEW j \in end .. end + 3
       PROVE  j \in 1 .. m /\ q[j] = j + 1
  <2>1. j \in 1 .. m /\ ~(j < end) /\ j <= end + 3
    BY <1>4
  <2> QED BY <2>1
<1>11. ASSUME NEW l \in 1 .. len
       PROVE  (end + 3) + l \in 1 .. m /\ q[(end + 3) + l] = place[f + l]
  <2>1. (end + 3) + l \in 1 .. m /\ ~((end + 3) + l < end) /\ ~((end + 3) + l <= end + 3)
        /\ ((end + 3) + l) - (end + 3) = l
    BY <1>4
  <2> QED BY <2>1
<1>12. ASSUME NEW j \in 1 .. m
       PROVE  j \in 1 .. end - 1 \/ j \in end .. end + 3 \/ \E l \in 1 .. len : j = (end + 3) + l
  <2>1. CASE j <= end + 3
    BY <2>1
  <2>2. CASE j > end + 3
    <3>1. j - (end + 3) \in 1 .. len /\ j = (end + 3) + (j - (end + 3))
      BY <2>2
    <3> QED BY <3>1
  <2> QED BY <2>1, <2>2
<1>13. q \in [1 .. m -> 1 .. Len(bits)]
  <2>1. ASSUME NEW j \in 1 .. m
        PROVE  q[j] \in 1 .. Len(bits)
    <3>1. CASE j \in 1 .. end - 1
      BY <1>1, <1>4, <1>9, <3>1
    <3>2. CASE j \in end .. end + 3
      <4>1. j + 1 \in 1 .. Len(bits)
        BY <1>1, <1>4, <1>8, <3>2
      <4> QED BY <1>10, <3>2, <4>1
    <3>3. CASE \E l \in 1 .. len : j = (end + 3) + l
      <4>1. PICK l \in 1 .. len : j = (end + 3) + l
        BY <3>3
      <4>2. q[j] = place[f + l] /\ place[f + l] \in end + 6 .. delim - 1
        BY <1>7, <1>11, <4>1
      <4>3. \A p \in end + 6 .. delim - 1 : p \in 1 .. Len(bits)
        BY <1>1, <1>4
      <4> QED BY <4>2, <4>3
    <3> QED BY <1>12, <3>1, <3>2, <3>3
  <2> QED BY <2>1
<1>14. ASSUME NEW i \in 1 .. m, NEW j \in 1 .. m, i < j
       PROVE  q[i] < q[j]
  <2>1. CASE j \in 1 .. end - 1
    <3>1. i \in 1 .. end - 1
      BY <1>14, <2>1
    <3> QED BY <1>9, <1>14, <2>1, <3>1
  <2>2. CASE j \in end .. end + 3
    <3>1. q[j] = j + 1
      BY <1>10, <2>2
    <3>2. i \in 1 .. end - 1 \/ i \in end .. end + 3
      BY <1>14, <2>2
    <3>3. q[i] = i \/ q[i] = i + 1
      BY <1>9, <1>10, <3>2
    <3> QED BY <1>14, <3>1, <3>3
  <2>3. CASE \E l \in 1 .. len : j = (end + 3) + l
    <3>1. PICK l \in 1 .. len : j = (end + 3) + l
      BY <2>3
    <3>2. q[j] = place[f + l] /\ place[f + l] \in end + 6 .. delim - 1
      BY <1>7, <1>11, <3>1
    <3>3. CASE i \in 1 .. end - 1
      BY <1>9, <3>2, <3>3
    <3>4. CASE i \in end .. end + 3
      BY <1>10, <3>2, <3>4
    <3>5. CASE \E g \in 1 .. len : i = (end + 3) + g
      <4>1. PICK g \in 1 .. len : i = (end + 3) + g
        BY <3>5
      <4>2. q[i] = place[f + g]
        BY <1>11, <4>1
      <4>3. f + g < f + l /\ f + g \in 1 .. Len(Built) /\ f + l \in 1 .. Len(Built)
        BY <1>1, <1>2, <1>14, <3>1, <4>1
      <4> QED BY <1>3, <3>2, <4>2, <4>3
    <3> QED BY <1>12, <3>3, <3>4, <3>5
  <2> QED BY <1>12, <2>1, <2>2, <2>3
<1>15. ASSUME NEW i \in 1 .. Len(bits), i \in ProtectedPlaces(bits, len, end, delim)
       PROVE  \E j \in 1 .. m : q[j] = i
  <2>1. i < delim /\ (IsStuff(bits[i]) => i < end)
    BY <1>4, <1>15 DEF ProtectedPlaces
  <2>2. CASE i < end
    <3>1. i \in 1 .. end - 1
      BY <2>2
    <3> QED BY <1>9, <3>1
  <2>3. CASE ~(i < end)
    <3>1. PICK k \in 1 .. Len(Built) : place[k] = i
      BY <1>3, <2>1, <2>3
    <3>2. ~(k <= HeadLen)
      <4>1. ASSUME k <= HeadLen
            PROVE  FALSE
        <5>1. k \in 1 .. HeadLen
          BY <1>1, <4>1
        <5> QED BY <1>6, <2>3, <3>1, <5>1
      <4> QED BY <4>1
    <3>3. k < f + len + 1
      <4>1. f + len + 1 \in 1 .. Len(Built)
        BY <1>1, <1>2
      <4>2. ~(f + len + 1 < k) /\ k # f + len + 1
        BY <1>3, <1>4, <1>5, <2>1, <3>1, <4>1
      <4> QED BY <1>2, <4>2
    <3>4. CASE k <= f
      <4>1. PICK l \in 1 .. 4 : k = HeadLen + l
        <5>1. k - HeadLen \in 1 .. 4 /\ k = HeadLen + (k - HeadLen)
          BY <1>1, <1>2, <3>2, <3>4
        <5> QED BY <5>1
      <4>2. i = end + l
        BY <1>6, <3>1, <4>1
      <4>3. i - 1 \in end .. end + 3 /\ (i - 1) + 1 = i
        BY <4>2
      <4> QED BY <1>10, <4>3
    <3>5. CASE k > f
      <4>1. PICK l \in 1 .. len : k = f + l
        <5>1. k - f \in 1 .. len /\ k = f + (k - f)
          BY <1>1, <1>2, <3>3, <3>5
        <5> QED BY <5>1
      <4> QED BY <1>11, <3>1, <4>1
    <3> QED BY <1>2, <3>4, <3>5
  <2> QED BY <2>2, <2>3
<1>16. ASSUME NEW i \in 1 .. Len(bits), NEW j \in 1 .. m, q[j] = i
       PROVE  i \in ProtectedPlaces(bits, len, end, delim)
  <2>1. CASE j \in 1 .. end - 1
    <3>1. i < end /\ i \in 1 .. delim - 1
      BY <1>4, <1>8, <1>9, <1>16, <2>1
    <3> QED BY <3>1 DEF ProtectedPlaces
  <2>2. CASE j \in end .. end + 3
    <3>1. PICK l \in 1 .. 4 : i = end + l
      <4>1. (j + 1) - end \in 1 .. 4 /\ i = end + ((j + 1) - end)
        BY <1>10, <1>16, <2>2
      <4> QED BY <4>1
    <3>2. HeadLen + l \in 1 .. Len(Built)
      BY <1>1, <1>2
    <3>5. place[HeadLen + l] = i
      BY <1>6, <3>1
    <3>3. ~IsStuff(bits[i])
      BY <1>3, <3>2, <3>5
    <3>4. i \in 1 .. delim - 1
      BY <1>4, <1>8, <3>1
    <3> QED BY <3>3, <3>4 DEF ProtectedPlaces
  <2>3. CASE \E l \in 1 .. len : j = (end + 3) + l
    <3>1. PICK l \in 1 .. len : j = (end + 3) + l
      BY <2>3
    <3>5. i = place[f + l]
      BY <1>11, <1>16, <3>1
    <3>6. i \in end + 6 .. delim - 1
      BY <1>7, <3>5
    <3>2. i = place[f + l] /\ i \in 1 .. delim - 1
      BY <1>4, <3>5, <3>6
    <3>3. f + l \in 1 .. Len(Built)
      BY <1>1, <1>2
    <3>4. ~IsStuff(bits[i])
      BY <1>3, <3>2, <3>3
    <3> QED BY <3>2, <3>4 DEF ProtectedPlaces
  <2> QED BY <1>12, <2>1, <2>2, <2>3
<1>17. Keeps(q, m, Len(bits), ProtectedPlaces(bits, len, end, delim))
  BY <1>13, <1>14, <1>15, <1>16 DEF Keeps, Increasing
<1>18. FdPlaces(q, place, end, len)
  <2>1. \A l \in 1 .. len : q[(end + 3) + l] = place[First(content) + l]
    BY <1>2, <1>11
  <2> QED BY <1>9, <1>10, <2>1 DEF FdPlaces
<1> QED BY <1>17, <1>18

\* Up to the CRC, the sealed frame is the one the CRC was computed over.
LEMMA SealedHead ==
  ASSUME TypeInv, NEW frame, FreshKinds(frame), NEW source, source = CrcSource(frame),
         NEW sealed, sealed = Sealed(frame), NEW p, p = FirstOf(source, "Crc")
  PROVE  CrcField(source, p) /\ CrcField(sealed, p) /\ \A j \in 1 .. p - 1 : sealed[j] = source[j]
<1>1. CrcField(source, p) /\ CrcField(sealed, p)
  BY SourceField, SealedField
<1>2. CASE flipped # 0
  <2>1. sealed = source
    BY <1>2 DEF Sealed
  <2> QED BY <1>1, <2>1
<1>3. CASE flipped = 0
  <2>1. WrittenOver(SetCrc(source, GoldenCrcLen), source, p, GoldenCrcLen, CalcCrc(source, GoldenCrcLen))
    BY <1>1, CrcIsSet
  <2>2. sealed = SetCrc(source, GoldenCrcLen)
    BY <1>3 DEF Sealed
  <2>3. PICK n \in Nat : n = GoldenCrcLen
    BY Sizes
  <2>4. WrittenOver(sealed, source, p, n, CalcCrc(source, n))
    BY <2>1, <2>2, <2>3
  <2>5. source \in Seq(BitType) /\ sealed \in Seq(BitType) /\ p \in Nat /\ p + n < Len(source)
    BY <1>1, <2>3 DEF CrcField
  <2>6. ASSUME NEW j \in 1 .. p - 1
        PROVE  sealed[j] = source[j]
    <3>1. j \in 1 .. Len(source) /\ j \notin p .. p + n - 1
      BY <2>5
    <3>2. Len(sealed) = Len(source) /\ sealed[j].kind = source[j].kind /\ sealed[j].stuff = source[j].stuff
      BY <2>4, <3>1 DEF WrittenOver, SameShape
    <3>3. sealed[j].val = source[j].val
      BY <2>4, <3>1 DEF WrittenOver
    <3>4. sealed[j] \in BitType /\ source[j] \in BitType
      BY <2>5, <3>1, <3>2
    <3> QED BY <3>2, <3>3, <3>4, SameBit
  <2> QED BY <1>1, <2>6
<1> QED BY <1>2, <1>3

\* So CalcCrc and a receiver find in a finished FD frame the fixed stuff bits and the CRC that
\* are due.
LEMMA FdFrameCovered ==
  ASSUME TypeInv, ~IsCan20, NEW frame, PassOf(frame), bits = Made(frame),
         NEW place, Placed(place, bits, Built), NEW end \in Nat, CountWritten(end, bits),
         place[First(content) + 1] = end + 6
  PROVE  FdCovered(bits, end) /\ CalcCrc(bits, GoldenCrcLen) = DueCrc
<1>1. FreshKinds(frame) /\ Fresh(frame)
  BY FreshHasKinds DEF PassOf
<1>2. PICK source, sealed, p : source = CrcSource(frame) /\ sealed = Sealed(frame) /\ p = FirstOf(source, "Crc")
  OBVIOUS
<1>3. CrcField(source, p) /\ CrcField(sealed, p) /\ \A j \in 1 .. p - 1 : sealed[j] = source[j]
  BY <1>1, <1>2, SealedHead
<1>4. PICK len \in {15, 17, 21} : len = GoldenCrcLen
  BY Sizes
<1>5. /\ source \in Seq(BitType) /\ sealed \in Seq(BitType) /\ p \in Nat /\ p > 1 /\ len > 0
      /\ FirstOf(source, "Crc") = p /\ FirstOf(sealed, "Crc") = p /\ FirstOf(sealed, "CrcDelim") = p + len
      /\ p + len < Len(sealed) /\ Len(sealed) \in Nat
  BY <1>3, <1>4 DEF CrcField
<1>6. bits = InsertFixedStuffToCrc(sealed)
  BY <1>2 DEF Made
<1>7. /\ bits \in Seq(BitType) /\ p <= Len(bits)
      /\ \A j \in 1 .. p : bits[j] = sealed[j]
  <2>1. p > 0 /\ len \in Nat /\ p + len <= Len(sealed)
    BY <1>5
  <2> PICK new : new = bits
    OBVIOUS
  <2>2. new = InsertFixedStuffToCrc(sealed)
    BY <1>6
  <2>3. /\ new \in Seq(BitType) /\ p <= Len(new)
        /\ \A j \in 1 .. p : new[j] = sealed[j]
    BY <1>5, <2>1, <2>2, FixedStuffAfter
  <2> QED BY <2>3
<1>8. \A j \in 1 .. p - 1 : bits[j] = source[j]
  BY <1>3, <1>5, <1>7
<1>9. FirstOf(bits, "Crc") = p
  <2>1. p \in 1 .. Len(sealed) /\ p \in 1 .. Len(bits)
    BY <1>5, <1>7
  <2>2. sealed[p].kind = "Crc" /\ NoneBefore(p, {"Crc"}, sealed)
    BY <1>5, <2>1, FoundIsOfKind
  <2>3. bits[p].kind = "Crc" /\ NoneBefore(p, {"Crc"}, bits)
    BY <1>5, <1>7, <2>2 DEF NoneBefore
  <2> QED BY <1>7, <2>1, <2>3, FoundFirst
<1>10. CalcCrc(bits, GoldenCrcLen) = DueCrc
  <2> PICK other : other = bits
    OBVIOUS
  <2>1. CalcCrc(other, len) = CalcCrc(source, len)
    <3>1. other \in Seq(BitType) /\ FirstOf(source, "Crc") > 1 /\ FirstOf(other, "Crc") = FirstOf(source, "Crc")
      BY <1>5, <1>7, <1>9
    <3>2. \A j \in 1 .. FirstOf(source, "Crc") - 1 : other[j] = source[j]
      BY <1>5, <1>8
    <3> QED BY <1>5, <3>1, <3>2, AlikeCrc
  <2>2. CalcCrc(source, GoldenCrcLen) = DueCrc
    BY <1>1, <1>2, DueCrcOf
  <2> QED BY <1>4, <2>1, <2>2
<1>11. end > 1 /\ end + 6 <= Len(bits) /\ StuffedInOrder(end, bits) /\ StuffCntBlock(end, bits)
  BY DEF CountWritten
<1>12. FirstOf(bits, "Crc") = end + 6
  <2>1. NoneBefore(end + 6, {"Crc"}, bits)
    BY <1>11, NoneInCount
  <2>2. bits[end + 6].kind = "Crc"
    <3>1. First(content) + 1 \in 1 .. Len(Built) /\ 1 \in 1 .. GoldenCrcLen
      BY Sizes
    <3>2. Built[First(content) + 1].kind = "Crc"
      BY <3>1, BuiltKinds DEF FreshKinds
    <3>3. bits[place[First(content) + 1]].kind = "Crc"
      BY <3>1, <3>2 DEF Placed
    <3> QED BY <3>3
  <2>3. end + 6 \in 1 .. Len(bits)
    BY <1>11
  <2> QED BY <1>7, <2>1, <2>2, <2>3, FoundFirst
<1>13. PICK e \in Nat : /\ FirstOf(source, "Crc") = e + 6
                        /\ \A j \in 1 .. e - 1 : source[j].stuff # "Fixed"
  BY <1>1, <1>2, UnfixedBeforeCount
<1>14. e = end /\ p = end + 6
  BY <1>5, <1>9, <1>12, <1>13
<1>15. \A j \in 1 .. end - 1 : bits[j].stuff # "Fixed"
  BY <1>8, <1>13, <1>14
<1>16. bits[end].stuff = "Fixed" /\ bits[end + 5].stuff = "Fixed"
  BY <1>11 DEF StuffCntBlock
<1>17. ASSUME NEW j \in end + 1 .. end + 4
       PROVE  bits[j].stuff = "NoStuff"
  <2>1. PICK l \in 1 .. 4 : end + l = j
    <3>1. j - end \in 1 .. 4 /\ end + (j - end) = j
      OBVIOUS
    <3> QED BY <3>1
  <2>2. ~IsStuff(bits[end + l])
    BY <1>11 DEF StuffCntBlock
  <2> QED BY <2>1, <2>2 DEF IsStuff
<1>18. FdCovered(bits, end)
  BY <1>11, <1>12, <1>15, <1>16, <1>17 DEF FdCovered
<1> QED BY <1>10, <1>18

\* The first value is inverted, the others stay.
HeadInverted(msg, vals) ==
  /\ msg \in Seq({0, 1}) /\ Len(msg) = Len(vals) /\ msg[1] = Opposite(vals[1])
  /\ \A j \in 2 .. Len(vals) : msg[j] = vals[j]

\* AsFed does so in FD frames.
LEMMA FirstInverted ==
  ASSUME NEW vals \in Seq({0, 1}), Len(vals) > 0, NEW len \in {17, 21}, NEW msg, msg = AsFed(vals, len)
  PROVE  HeadInverted(msg, vals)
<1>1. vals[1] \in {0, 1}
  OBVIOUS
<1>2. Opposite(vals[1]) \in {0, 1}
  BY <1>1 DEF Opposite
<1>3. PICK v \in {0, 1} : v = Opposite(vals[1])
  BY <1>2
<1>4. PICK one \in Seq({0, 1}) : one = <<v>> /\ Len(one) = 1 /\ one[1] = v
  <2>1. <<v>> \in Seq({0, 1}) /\ Len(<<v>>) = 1 /\ <<v>>[1] = v
    OBVIOUS
  <2> QED BY <2>1
<1>5. PICK rest \in Seq({0, 1}) : /\ rest = Tail(vals) /\ Len(rest) = Len(vals) - 1
                                 /\ \A j \in 1 .. Len(vals) - 1 : rest[j] = vals[j + 1]
  <2>1. Tail(vals) \in Seq({0, 1}) /\ Len(Tail(vals)) = Len(vals) - 1
        /\ \A j \in 1 .. Len(vals) - 1 : Tail(vals)[j] = vals[j + 1]
    OBVIOUS
  <2> QED BY <2>1
<1>6. msg = one \o rest
  <2>1. len # 15
    OBVIOUS
  <2>2. msg = <<Opposite(vals[1])>> \o Tail(vals)
    BY <2>1 DEF AsFed
  <2> QED BY <1>3, <1>4, <1>5, <2>2, Zenon
<1>8. IsJoin(one \o rest, one, rest, {0, 1})
  BY JoinedTwo
<1>9. /\ msg \in Seq({0, 1}) /\ Len(msg) = Len(one) + Len(rest)
      /\ \A j \in 1 .. Len(one) : msg[j] = one[j]
      /\ \A j \in 1 .. Len(rest) : msg[Len(one) + j] = rest[j]
  <2>1. IsJoin(msg, one, rest, {0, 1})
    BY <1>6, <1>8
  <2> QED BY <2>1 DEF IsJoin
<1>10. PICK n \in Nat : n = Len(vals) /\ n > 0
  OBVIOUS
<1>11. Len(msg) = n
  BY <1>4, <1>5, <1>9, <1>10
<1>12. msg[1] = v
  <2>1. 1 \in 1 .. Len(one)
    BY <1>4
  <2> QED BY <1>4, <1>9, <2>1
<1>13. ASSUME NEW j \in 2 .. n
       PROVE  msg[j] = vals[j]
  <2>1. PICK k \in 1 .. n - 1 : k + 1 = j
    <3>1. j - 1 \in 1 .. n - 1 /\ (j - 1) + 1 = j
      OBVIOUS
    <3> QED BY <3>1
  <2>2. k \in 1 .. Len(rest) /\ Len(one) + k = j
    BY <1>4, <1>5, <1>10, <2>1
  <2>3. msg[j] = rest[k]
    BY <1>9, <2>2
  <2>4. rest[k] = vals[k + 1]
    BY <1>5, <1>10
  <2> QED BY <2>1, <2>3, <2>4
<1> QED BY <1>3, <1>9, <1>10, <1>11, <1>12, <1>13 DEF HeadInverted

\* As many values as there are positions are a sequence.
LEMMA BitsInTurn ==
  ASSUME NEW m \in Nat, NEW vals \in [1 .. m -> {0, 1}]
  PROVE  vals \in Seq({0, 1}) /\ Len(vals) = m
OBVIOUS

\* The last bits of a message are those in the places of the CRC.
CrcRead(msg, frame, place, n, len) ==
  \A l \in 1 .. len : msg[n + l] = frame[place[First(content) + l]].val

\* How many bits a receiver feeds, before the CRC and with it.
FdLengths(frame, end, fed, m, len) ==
  end > 1 /\ end + 6 <= Len(frame) /\ fed = end + 3 /\ m = fed + len

\* What a receiver feeds of the values of an FD frame.
IsFed(msg, frame, place, end, fed, m, len) ==
  /\ msg \in Seq({0, 1}) /\ Len(msg) = m
  /\ FdFed(msg, frame, end) /\ CrcRead(msg, frame, place, fed, len)

\* The values of the bits at some positions.
ValuesAt(frame, q, m) == [j \in 1 .. m |-> frame[q[j]].val]

\* It feeds the first bit inverted, no fixed stuff bit and then the CRC.
LEMMA FedAsRead ==
  ASSUME NEW frame \in Seq(BitType), NEW end \in Nat, NEW place,
         NEW len \in {17, 21}, NEW m \in Nat, NEW fed \in Nat, FdLengths(frame, end, fed, m, len),
         NEW q, q \in [1 .. m -> 1 .. Len(frame)], FdPlaces(q, place, end, len),
         NEW vals, vals = ValuesAt(frame, q, m), NEW msg, msg = AsFed(vals, len)
  PROVE  IsFed(msg, frame, place, end, fed, m, len)
<1> end > 1 /\ end + 6 <= Len(frame) /\ fed = end + 3 /\ m = (end + 3) + len
  BY DEF FdLengths
<1>1. ASSUME NEW j \in 1 .. m
      PROVE  vals[j] = frame[q[j]].val /\ vals[j] \in {0, 1}
  <2>1. q[j] \in 1 .. Len(frame)
    OBVIOUS
  <2>2. frame[q[j]].val \in {0, 1}
    BY <2>1, BitValues DEF Dominant, Recessive
  <2>3. vals[j] = frame[q[j]].val
    BY DEF ValuesAt
  <2> QED BY <2>2, <2>3
<1>17. m > 1
  OBVIOUS
<1>2. vals \in Seq({0, 1}) /\ Len(vals) = m /\ m > 1
  <2>1. ASSUME NEW j \in 1 .. m
        PROVE  frame[q[j]].val \in {0, 1}
    BY <1>1
  <2>2. vals \in [1 .. m -> {0, 1}]
    BY <2>1 DEF ValuesAt
  <2> QED BY <1>17, <2>2, BitsInTurn
<1>7. /\ msg \in Seq({0, 1}) /\ Len(msg) = m /\ msg[1] = Opposite(vals[1])
      /\ \A j \in 2 .. m : msg[j] = vals[j]
  <2>1. Len(vals) > 0
    BY <1>2
  <2>2. HeadInverted(msg, vals)
    BY <1>2, <2>1, FirstInverted
  <2> QED BY <1>2, <2>2 DEF HeadInverted
<1>8. ASSUME NEW j \in 2 .. m
      PROVE  msg[j] = vals[j]
  BY <1>7
<1>9. msg[1] = Opposite(frame[1].val)
  <2>1. 1 \in 1 .. m /\ 1 \in 1 .. end - 1
    BY <1>2
  <2>2. q[1] = 1
    BY <2>1 DEF FdPlaces
  <2> QED BY <1>1, <1>7, <2>1, <2>2
<1>10. ASSUME NEW k \in 2 .. end - 1
       PROVE  msg[k] = frame[k].val
  <2>1. k \in 1 .. m /\ k \in 2 .. m /\ k \in 1 .. end - 1
    OBVIOUS
  <2>2. q[k] = k
    BY <2>1 DEF FdPlaces
  <2> QED BY <1>1, <1>8, <2>1, <2>2
<1>11. ASSUME NEW k \in end .. end + 3
       PROVE  msg[k] = frame[k + 1].val
  <2>1. k \in 1 .. m /\ k \in 2 .. m
    OBVIOUS
  <2>2. q[k] = k + 1
    BY DEF FdPlaces
  <2> QED BY <1>1, <1>8, <2>1, <2>2
<1>12. ASSUME NEW l \in 1 .. len
       PROVE  msg[(end + 3) + l] = frame[place[First(content) + l]].val
  <2>1. (end + 3) + l \in 1 .. m /\ (end + 3) + l \in 2 .. m
    OBVIOUS
  <2>2. q[(end + 3) + l] = place[First(content) + l]
    BY DEF FdPlaces
  <2>3. PICK j \in 2 .. m : j = (end + 3) + l
    BY <2>1
  <2>4. msg[j] = vals[j] /\ vals[j] = frame[q[j]].val
    BY <1>1, <1>8, <2>1, <2>3
  <2> QED BY <2>2, <2>3, <2>4
<1>13. FdFed(msg, frame, end)
  BY <1>9, <1>10, <1>11 DEF FdFed
<1>14. CrcRead(msg, frame, place, fed, len)
  BY <1>12 DEF CrcRead
<1> QED BY <1>7, <1>13, <1>14 DEF IsFed

\* A receiver of an FD frame finds the CRC in order.
LEMMA FdCrcHolds ==
  ASSUME TypeInv, FlippedInv, ~IsCan20, NEW frame, PassOf(frame), bits = Made(frame),
         NEW place, Placed(place, bits, Built), Filled(bits), NEW end \in Nat, CountWritten(end, bits),
         place[First(content) + 1] = end + 6, NEW delim, StuffedAsReceived(end, delim, bits)
  PROVE  CrcHolds(bits, GoldenCrcLen) <=> flipped = 0
<1>1. FdCovered(bits, end) /\ CalcCrc(bits, GoldenCrcLen) = DueCrc
  BY FdFrameCovered
<1>2. PICK len \in {17, 21} : len = GoldenCrcLen
  <2>1. GoldenCrcLen \in {17, 21}
    BY DEF GoldenCrcLen, CrcLen, IsCan20
  <2> QED BY <2>1
<1>3. PICK m \in Nat : m = (end + 3) + len
  OBVIOUS
<1>4. PICK q : /\ FdPlaces(q, place, end, len)
               /\ Keeps(q, m, Len(bits), ProtectedPlaces(bits, len, end, delim))
  BY <1>2, <1>3, FdKept
<1>5. bits \in Seq(BitType) /\ end > 1 /\ end + 6 <= Len(bits)
  BY DEF TypeInv, CountWritten
<1> PICK vals : vals = [j \in 1 .. m |-> bits[q[j]].val]
  OBVIOUS
<1> PICK msg : msg = AsFed(vals, len)
  OBVIOUS
<1> PICK new : new = bits
  OBVIOUS
<1>6. new \in Seq(BitType) /\ end + 6 <= Len(new) /\ vals = [j \in 1 .. m |-> new[q[j]].val]
  BY <1>5
<1>7. Protected(new, len) = msg
  <2>1. StuffedAsReceived(end, delim, new)
    OBVIOUS
  <2>2. Keeps(q, m, Len(new), ProtectedPlaces(new, len, end, delim))
    BY <1>4
  <2>3. Protected(new, len) = AsFed(vals, len)
    BY <1>6, <2>1, <2>2, ProtectedAt
  <2> QED BY <2>3
<1>10. PICK n \in Nat : n = end + 3 /\ n > 0
  OBVIOUS
<1>8. /\ msg \in Seq({0, 1}) /\ Len(msg) = m
      /\ FdFed(msg, new, end) /\ CrcRead(msg, new, place, n, len)
  <2>1. q \in [1 .. m -> 1 .. Len(new)]
    BY <1>4 DEF Keeps
  <2>2. FdPlaces(q, place, end, len)
    BY <1>4
  <2>3. new \in Seq(BitType)
    BY <1>6
  <2>4. FdLengths(new, end, n, m, len)
    BY <1>3, <1>5, <1>6, <1>10 DEF FdLengths
  <2>5. vals = ValuesAt(new, q, m)
    BY <1>6 DEF ValuesAt
  <2>6. IsFed(msg, new, place, end, n, m, len)
    BY <2>1, <2>2, <2>3, <2>4, <2>5, FedAsRead
  <2> QED BY <2>6 DEF IsFed
<1>9. PICK reg : ComesTo(reg, msg, len, n, CalcCrc(new, len))
  <2>1. FdCovered(new, end)
    BY <1>1
  <2>2. new \in Seq(BitType) /\ FdFed(msg, new, end) /\ n = end + 3
    BY <1>6, <1>8, <1>10
  <2> QED BY <2>1, <2>2, FdRegister
<1>11. IsRegister(reg, msg, GoldenCrcLen, n) /\ reg[0] = Zeros(GoldenCrcLen) /\ reg[n] = DueCrc
       /\ Len(msg) = n + GoldenCrcLen
  <2>1. CalcCrc(new, GoldenCrcLen) = DueCrc
    BY <1>1
  <2>2. IsRegister(reg, msg, len, n) /\ reg[0] = Zeros(len) /\ reg[n] = CalcCrc(new, len)
    BY <1>9 DEF ComesTo
  <2>3. Len(msg) = n + len
    BY <1>3, <1>8, <1>10
  <2> QED BY <1>2, <2>1, <2>2, <2>3
<1>12. ASSUME NEW j \in 1 .. GoldenCrcLen
       PROVE  msg[n + j] = Value(j)
  <2>1. msg[n + j] = new[place[First(content) + j]].val
    BY <1>2, <1>8 DEF CrcRead
  <2>2. bits[place[First(content) + j]].val = Value(j)
    BY DEF Filled
  <2> QED BY <1>10, <2>1, <2>2
<1>13. (\A v \in ToSet(Remainder(msg, GoldenCrcLen)) : v = 0) <=> flipped = 0
  BY <1>8, <1>10, <1>11, <1>12, HoldsAsDue
<1>14. Protected(bits, GoldenCrcLen) = msg
  BY <1>2, <1>7
<1> QED BY <1>13, <1>14 DEF CrcHolds

\* A receiver that knows only the rules finds the CRC of a finished frame in order exactly if
\* no bit of it has been flipped: the CRC the code computes over the frame, before and between
\* its steps of stuffing, is the one the rules ask for, and CorruptCrcBit always breaks it.
THEOREM CrcAsReceivedHolds == Spec => []CrcAsReceived
<1>1. FrameInv /\ LoopsInv => CrcAsReceived
  <2>1. SUFFICES ASSUME FrameInv, LoopsInv, pc = "done"
                 PROVE  CrcHolds(bits, GoldenCrcLen) <=> flipped = 0
    BY DEF CrcAsReceived, Done
  <2>2. TypeInv /\ FlippedInv /\ Filled(bits)
    BY <2>1 DEF FrameInv, LoopsInv, WithCrc
  <2>3. PICK place : Placed(place, bits, Built) /\ StuffInv(place) /\ bits[at].kind = "CrcDelim"
    BY <2>1 DEF FrameInv, PhaseInv
  <2>4. PICK frame : PassOf(frame) /\ bits = Made(frame)
    BY <2>1 DEF LoopsInv, LoopAt
  <2>5. CASE IsCan20
    <3>1. NormalStuffInv(place)
      BY <2>3, <2>5 DEF StuffInv
    <3>2. StuffedAsReceived(at, at, bits)
      BY <2>2, <2>3, <2>5, <3>1, CanFrameDone
    <3>3. PICK delim : delim = at
      OBVIOUS
    <3>4. StuffedAsReceived(delim, delim, bits)
      BY <3>2, <3>3
    <3> QED BY <2>2, <2>3, <2>5, <3>4, CanCrcHolds
  <2>6. CASE ~IsCan20
    <3>1. PICK end \in 1 .. Len(bits) : FixedStuffInv(place, end)
      BY <2>3, <2>6 DEF StuffInv
    <3>2. StuffedAsReceived(end, at, bits)
      BY <2>2, <2>3, <2>6, <3>1, FdFrameDone
    <3>3. CountWritten(end, bits) /\ place[First(content) + 1] = end + 6
      BY <3>1 DEF FixedStuffInv
    <3>4. PICK delim : delim = at
      OBVIOUS
    <3>5. StuffedAsReceived(end, delim, bits) /\ end \in Nat
      BY <3>2, <3>4
    <3> QED BY <2>2, <2>3, <2>4, <2>6, <3>3, <3>5, FdCrcHolds
  <2> QED BY <2>5, <2>6
<1> QED BY <1>1, FrameInvariant, LoopsInvariant, PTL
=============================================================================
