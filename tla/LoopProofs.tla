----------------------------- MODULE LoopProofs -----------------------------
(***************************************************************************)
(* Loops of BitFrame: a function that halves what it runs over, as TLC     *)
(* evaluates it, is the rounds of the loop, one after another. Such a      *)
(* trace can be followed by induction, and by the steps of another module. *)
(***************************************************************************)
EXTENDS BitFrame, SequenceTheorems, WellFoundedInduction, TLAPS

-----------------------------------------------------------------------------
(* Induction, on sets of numbers.                                          *)

\* A set of numbers has a least one.
LEMMA HasLeast ==
  ASSUME NEW S, S \subseteq Nat, S # {}
  PROVE  \E x \in S : \A y \in S : x <= y
<1> DEFINE less == {pair \in Nat \X Nat : pair[1] < pair[2]}
<1>1. IsWellFoundedOn(less, Nat)
  BY NatLessThanWellFounded DEF OpToRel
<1>2. \A k, l \in Nat : k < l => <<k, l>> \in less
  OBVIOUS
<1> HIDE DEF less
<1>3. PICK least \in S : \A y \in S : ~(<<y, least>> \in less)
  BY <1>1, WFMin
<1>4. ASSUME NEW y \in S
      PROVE  least <= y
  <2>1. least \in Nat /\ y \in Nat
    OBVIOUS
  <2>2. ~(y < least)
    BY <1>2, <1>3, <2>1
  <2> QED BY <2>1, <2>2
<1> QED BY <1>3, <1>4

\* A set with zero and with the successor of each of its numbers has all numbers.
LEMMA SetInduction ==
  ASSUME NEW S, 0 \in S, \A n \in Nat : n \in S => n + 1 \in S
  PROVE  \A n \in Nat : n \in S
<1> DEFINE left == {n \in Nat : n \notin S}
<1> SUFFICES ASSUME left # {} PROVE FALSE
  OBVIOUS
<1>1. PICK least \in left : \A n \in left : least <= n
  BY HasLeast
<1>2. least \in Nat /\ least # 0 /\ least \notin S
  OBVIOUS
<1>3. least - 1 \in Nat /\ least - 1 \notin left
  BY <1>1, <1>2
<1>4. (least - 1) + 1 \in S
  BY <1>2, <1>3
<1> QED BY <1>2, <1>4

-----------------------------------------------------------------------------
(* Loops.                                                                  *)

\* What rounds put out and leave.
Result(S, Acc) == [out : Seq(S), acc : Acc]

\* A round after others.
Then(res, round) == [out |-> res.out \o round.out, acc |-> round.acc]

\* Rounds of a loop, each from what it starts from.
StepFcns(n, S, Acc) == [1 .. n -> [Acc -> Result(S, Acc)]]

\* Parts of a loop.
Parts(n, Acc) == [lo : 1 .. n, hi : 1 .. n, acc : Acc]

\* The rounds of a part from those of its halves.
ByHalves(step, rounds, r) ==
  IF r.lo = r.hi THEN step[r.lo][r.acc]
  ELSE LET mid   == (r.lo + r.hi) \div 2
           left  == rounds[Rounds(r.lo, mid, r.acc)]
           right == rounds[Rounds(mid + 1, r.hi, left.acc)]
       IN  [out |-> left.out \o right.out, acc |-> right.acc]

\* The function a loop of BitFrame chooses.
IsLoop(rounds, step, n, Acc) ==
  rounds = [r \in Parts(n, Acc) |-> ByHalves(step, rounds, r)]

\* What the first rounds put out and leave, one round after another.
IsTrace(trace, step, first, n, S, Acc) ==
  /\ trace \in [0 .. n -> Result(S, Acc)]
  /\ trace[0] = [out |-> <<>>, acc |-> first]
  /\ \A k \in 1 .. n : trace[k] = Then(trace[k - 1], step[k][trace[k - 1].acc])

\* One round after another is again what rounds put out and leave.
LEMMA ThenResult ==
  ASSUME NEW S, NEW Acc, NEW res \in Result(S, Acc), NEW round \in Result(S, Acc)
  PROVE  Then(res, round) \in Result(S, Acc)
<1>1. res.out \o round.out \in Seq(S)
  BY ConcatProperties DEF Result
<1> QED BY <1>1 DEF Then, Result

\* It does not matter where rounds are split.
LEMMA ThenAssociative ==
  ASSUME NEW S, NEW Acc, NEW one \in Result(S, Acc), NEW two \in Result(S, Acc),
         NEW three \in Result(S, Acc)
  PROVE  Then(Then(one, two), three) = Then(one, Then(two, three))
<1>1. one.out \in Seq(S) /\ two.out \in Seq(S) /\ three.out \in Seq(S)
  BY DEF Result
<1>2. \A s, t, u \in Seq(S) : (s \o t) \o u = s \o (t \o u)
  BY ConcatAssociative
<1>3. (one.out \o two.out) \o three.out = one.out \o (two.out \o three.out)
  BY <1>1, <1>2, Zenon
<1> QED BY <1>3 DEF Then

\* Each loop can be run round by round.
LEMMA HasTrace ==
  ASSUME NEW n \in Nat, NEW S, NEW Acc, NEW step \in StepFcns(n, S, Acc), NEW first \in Acc
  PROVE  \E trace : IsTrace(trace, step, first, n, S, Acc)
<1> DEFINE runs == {k \in Nat : k <= n => \E trace : IsTrace(trace, step, first, k, S, Acc)}
<1>1. 0 \in runs
  <2> DEFINE trace == [k \in 0 .. 0 |-> [out |-> <<>>, acc |-> first]]
  <2>1. [out |-> <<>>, acc |-> first] \in Result(S, Acc)
    BY EmptySeq DEF Result
  <2>2. IsTrace(trace, step, first, 0, S, Acc)
    BY <2>1 DEF IsTrace
  <2> QED BY <2>2
<1>2. ASSUME NEW k \in Nat, k \in runs
      PROVE  k + 1 \in runs
  <2> SUFFICES ASSUME k + 1 <= n
               PROVE  \E trace : IsTrace(trace, step, first, k + 1, S, Acc)
    OBVIOUS
  <2>1. PICK trace : IsTrace(trace, step, first, k, S, Acc)
    BY <1>2
  <2> DEFINE new == Then(trace[k], step[k + 1][trace[k].acc])
             longer == [i \in 0 .. k + 1 |-> IF i <= k THEN trace[i] ELSE new]
  <2>2. trace[k] \in Result(S, Acc)
    BY <2>1 DEF IsTrace
  <2>3. step[k + 1][trace[k].acc] \in Result(S, Acc)
    BY <2>2 DEF StepFcns, Result
  <2>4. new \in Result(S, Acc)
    BY <2>2, <2>3, ThenResult
  <2> HIDE DEF new
  <2>5. longer \in [0 .. k + 1 -> Result(S, Acc)]
    BY <2>1, <2>4 DEF IsTrace
  <2>6. longer[0] = [out |-> <<>>, acc |-> first]
    BY <2>1 DEF IsTrace
  <2>7. ASSUME NEW i \in 1 .. k + 1
        PROVE  longer[i] = Then(longer[i - 1], step[i][longer[i - 1].acc])
    <3>1. CASE i = k + 1
      <4>1. longer[i] = new /\ longer[i - 1] = trace[k]
        BY <3>1
      <4> QED BY <3>1, <4>1 DEF new
    <3>2. CASE i <= k
      <4>1. longer[i] = trace[i] /\ longer[i - 1] = trace[i - 1]
        BY <3>2
      <4> HIDE DEF longer
      <4> QED BY <2>1, <3>2, <4>1 DEF IsTrace
    <3> QED BY <3>1, <3>2
  <2> HIDE DEF longer
  <2> QED BY <2>5, <2>6, <2>7 DEF IsTrace
<1> HIDE DEF runs
<1>3. n \in runs
  BY <1>1, <1>2, SetInduction
<1> QED BY <1>3 DEF runs

\* The middle of a part of several rounds leaves rounds in both halves.
LEMMA Middle ==
  ASSUME NEW lo \in Nat, NEW hi \in Nat, lo < hi
  PROVE  /\ (lo + hi) \div 2 \in Nat
         /\ lo <= (lo + hi) \div 2 /\ (lo + hi) \div 2 < hi
OBVIOUS

\* And that of a part that runs backward is not forward either.
LEMMA MiddleBackward ==
  ASSUME NEW lo \in Nat, NEW hi \in Nat, hi < lo
  PROVE  /\ (lo + hi) \div 2 \in Nat
         /\ (lo + hi) \div 2 < lo /\ hi <= (lo + hi) \div 2
OBVIOUS

\* Functions that obey the equation of a loop on parts of up to some number of rounds.
LoopUpTo(d, rounds, step, n, S, Acc) ==
  /\ rounds \in [Parts(n, Acc) -> Result(S, Acc)]
  /\ \A r \in Parts(n, Acc) :
       /\ r.hi - r.lo <= d => rounds[r] = ByHalves(step, rounds, r)
       /\ r.hi < r.lo => rounds[r] = [out |-> <<>>, acc |-> r.acc]

\* What the halves of a part are, and what they make.
LEMMA Halves ==
  ASSUME NEW n \in Nat, NEW S, NEW Acc, NEW step \in StepFcns(n, S, Acc),
         NEW rounds \in [Parts(n, Acc) -> Result(S, Acc)], NEW r \in Parts(n, Acc), r.lo # r.hi,
         NEW mid, mid = (r.lo + r.hi) \div 2
  PROVE  /\ mid \in 1 .. n /\ mid + 1 \in 1 .. n
         /\ Rounds(r.lo, mid, r.acc) \in Parts(n, Acc)
         /\ rounds[Rounds(r.lo, mid, r.acc)] \in Result(S, Acc)
         /\ Rounds(mid + 1, r.hi, rounds[Rounds(r.lo, mid, r.acc)].acc) \in Parts(n, Acc)
         /\ ByHalves(step, rounds, r)
              = Then(rounds[Rounds(r.lo, mid, r.acc)],
                     rounds[Rounds(mid + 1, r.hi, rounds[Rounds(r.lo, mid, r.acc)].acc)])
<1>1. r.lo \in 1 .. n /\ r.hi \in 1 .. n /\ r.acc \in Acc
  BY DEF Parts
<1>2. r.lo \in Nat /\ r.hi \in Nat
  BY <1>1
<1>3. mid \in 1 .. n /\ mid + 1 \in 1 .. n
  <2>1. CASE r.lo < r.hi
    BY <1>1, <1>2, <2>1, Middle
  <2>2. CASE r.hi < r.lo
    BY <1>1, <1>2, <2>2, MiddleBackward
  <2> QED BY <1>2, <2>1, <2>2
<1>4. Rounds(r.lo, mid, r.acc) \in Parts(n, Acc)
  BY <1>1, <1>3 DEF Rounds, Parts
<1>5. rounds[Rounds(r.lo, mid, r.acc)] \in Result(S, Acc)
  BY <1>4
<1>6. rounds[Rounds(r.lo, mid, r.acc)].acc \in Acc
  BY <1>5 DEF Result
<1>7. Rounds(mid + 1, r.hi, rounds[Rounds(r.lo, mid, r.acc)].acc) \in Parts(n, Acc)
  BY <1>1, <1>3, <1>6 DEF Rounds, Parts
<1>8. ByHalves(step, rounds, r)
        = Then(rounds[Rounds(r.lo, mid, r.acc)],
               rounds[Rounds(mid + 1, r.hi, rounds[Rounds(r.lo, mid, r.acc)].acc)])
  BY DEF ByHalves, Then
<1> QED BY <1>3, <1>4, <1>5, <1>7, <1>8

\* What the halves of a part make is again a result of rounds.
LEMMA HalvesResult ==
  ASSUME NEW n \in Nat, NEW S, NEW Acc, NEW step \in StepFcns(n, S, Acc),
         NEW rounds \in [Parts(n, Acc) -> Result(S, Acc)], NEW r \in Parts(n, Acc)
  PROVE  ByHalves(step, rounds, r) \in Result(S, Acc)
<1>1. CASE r.lo = r.hi
  <2>1. step[r.lo][r.acc] \in Result(S, Acc)
    BY DEF StepFcns, Parts
  <2> QED BY <1>1, <2>1 DEF ByHalves
<1>2. CASE r.lo # r.hi
  <2> DEFINE mid == (r.lo + r.hi) \div 2
             left == rounds[Rounds(r.lo, mid, r.acc)]
             right == rounds[Rounds(mid + 1, r.hi, left.acc)]
  <2>1. left \in Result(S, Acc) /\ right \in Result(S, Acc)
        /\ ByHalves(step, rounds, r) = Then(left, right)
    BY <1>2, Halves
  <2> HIDE DEF left, right
  <2> QED BY <2>1, ThenResult
<1> QED BY <1>1, <1>2

\* The recursive definition of a loop defines a function.
LEMMA LoopIsDefined ==
  ASSUME NEW n \in Nat, NEW S, NEW Acc, NEW step \in StepFcns(n, S, Acc)
  PROVE  \E rounds : IsLoop(rounds, step, n, Acc)
<1> DEFINE lengths == {d \in Nat : \E rounds : LoopUpTo(d, rounds, step, n, S, Acc)}
<1>1. ASSUME NEW rounds \in [Parts(n, Acc) -> Result(S, Acc)],
             \A r \in Parts(n, Acc) : r.hi < r.lo => rounds[r] = [out |-> <<>>, acc |-> r.acc]
      PROVE  \A r \in Parts(n, Acc) :
               r.hi < r.lo => ByHalves(step, rounds, r) = [out |-> <<>>, acc |-> r.acc]
  <2> SUFFICES ASSUME NEW r \in Parts(n, Acc), r.hi < r.lo
               PROVE  ByHalves(step, rounds, r) = [out |-> <<>>, acc |-> r.acc]
    OBVIOUS
  <2> DEFINE mid == (r.lo + r.hi) \div 2
             one == Rounds(r.lo, mid, r.acc)
             two == Rounds(mid + 1, r.hi, rounds[one].acc)
  <2>1. r.lo \in Nat /\ r.hi \in Nat /\ r.acc \in Acc /\ r.lo # r.hi
    BY DEF Parts
  <2>2. mid \in Nat /\ mid < r.lo /\ r.hi <= mid
    BY <2>1, MiddleBackward
  <2>3. /\ one \in Parts(n, Acc) /\ two \in Parts(n, Acc)
        /\ ByHalves(step, rounds, r) = Then(rounds[one], rounds[two])
    BY <2>1, Halves
  <2>4. one.lo = r.lo /\ one.hi = mid /\ one.acc = r.acc
        /\ two.lo = mid + 1 /\ two.hi = r.hi /\ two.acc = rounds[one].acc
    BY DEF Rounds
  <2>5. rounds[one] = [out |-> <<>>, acc |-> r.acc]
    BY <1>1, <2>2, <2>3, <2>4
  <2>6. two.hi < two.lo
    BY <2>1, <2>2, <2>4
  <2>7. rounds[two] = [out |-> <<>>, acc |-> r.acc]
    BY <1>1, <2>3, <2>4, <2>5, <2>6
  <2>8. <<>> \o <<>> = <<>>
    OBVIOUS
  <2> HIDE DEF one, two
  <2> QED BY <2>3, <2>5, <2>7, <2>8 DEF Then
<1>2. 0 \in lengths
  <2> DEFINE rounds == [r \in Parts(n, Acc) |->
                          IF r.lo = r.hi THEN step[r.lo][r.acc] ELSE [out |-> <<>>, acc |-> r.acc]]
  <2>1. ASSUME NEW r \in Parts(n, Acc)
        PROVE  rounds[r] \in Result(S, Acc)
    <3>1. r.acc \in Acc /\ r.lo \in 1 .. n
      BY DEF Parts
    <3>2. [out |-> <<>>, acc |-> r.acc] \in Result(S, Acc)
      BY <3>1, EmptySeq DEF Result
    <3>3. step[r.lo][r.acc] \in Result(S, Acc)
      BY <3>1 DEF StepFcns
    <3> QED BY <3>2, <3>3
  <2>2. rounds \in [Parts(n, Acc) -> Result(S, Acc)]
    BY <2>1
  <2>3. ASSUME NEW r \in Parts(n, Acc), r.hi < r.lo
        PROVE  rounds[r] = [out |-> <<>>, acc |-> r.acc]
    <3>1. r.lo # r.hi
      BY <2>3 DEF Parts
    <3> QED BY <3>1
  <2> DEFINE backward == \A r \in Parts(n, Acc) : r.hi < r.lo => rounds[r] = [out |-> <<>>, acc |-> r.acc]
  <2>4. backward
    BY <2>3
  <2>5. ASSUME NEW r \in Parts(n, Acc), r.hi - r.lo <= 0
        PROVE  rounds[r] = ByHalves(step, rounds, r)
    <3>1. CASE r.lo = r.hi
      BY <3>1 DEF ByHalves
    <3>2. CASE r.lo # r.hi
      <4>1. r.hi < r.lo
        BY <2>5, <3>2 DEF Parts
      <4> HIDE DEF rounds
      <4> QED BY <1>1, <2>2, <2>4, <4>1
    <3> QED BY <3>1, <3>2
  <2> HIDE DEF rounds
  <2> QED BY <2>2, <2>3, <2>5 DEF LoopUpTo
<1>3. ASSUME NEW d \in Nat, d \in lengths
      PROVE  d + 1 \in lengths
  <2>1. PICK rounds : LoopUpTo(d, rounds, step, n, S, Acc)
    BY <1>3
  <2>2. rounds \in [Parts(n, Acc) -> Result(S, Acc)]
    BY <2>1 DEF LoopUpTo
  <2>3. \A r \in Parts(n, Acc) : r.hi < r.lo => rounds[r] = [out |-> <<>>, acc |-> r.acc]
    BY <2>1 DEF LoopUpTo
  <2> DEFINE more == [r \in Parts(n, Acc) |-> ByHalves(step, rounds, r)]
  <2>4. more \in [Parts(n, Acc) -> Result(S, Acc)]
    BY <2>2, HalvesResult
  <2>5. \A r \in Parts(n, Acc) : more[r] = ByHalves(step, rounds, r)
    OBVIOUS
  <2> HIDE DEF more
  <2>6. \A r \in Parts(n, Acc) : r.hi < r.lo => more[r] = [out |-> <<>>, acc |-> r.acc]
    BY <1>1, <2>2, <2>3, <2>5
  <2>7. \A r \in Parts(n, Acc) : r.hi - r.lo <= d => more[r] = rounds[r]
    BY <2>1, <2>5 DEF LoopUpTo
  <2>8. ASSUME NEW r \in Parts(n, Acc), r.hi - r.lo <= d + 1
        PROVE  more[r] = ByHalves(step, more, r)
    <3>1. r.lo \in Nat /\ r.hi \in Nat
      BY DEF Parts
    <3>2. CASE r.lo = r.hi
      <4>1. ByHalves(step, more, r) = step[r.lo][r.acc] /\ ByHalves(step, rounds, r) = step[r.lo][r.acc]
        BY <3>2 DEF ByHalves
      <4> QED BY <2>5, <4>1
    <3>3. CASE r.hi < r.lo
      <4>1. ByHalves(step, more, r) = [out |-> <<>>, acc |-> r.acc]
        BY <1>1, <2>4, <2>6, <3>3
      <4> QED BY <2>6, <3>3, <4>1
    <3>4. CASE r.lo < r.hi
      <4> DEFINE mid == (r.lo + r.hi) \div 2
                 one == Rounds(r.lo, mid, r.acc)
                 two == Rounds(mid + 1, r.hi, rounds[one].acc)
      <4>1. mid \in Nat /\ r.lo <= mid /\ mid < r.hi
        BY <3>1, <3>4, Middle
      <4>2. /\ one \in Parts(n, Acc) /\ two \in Parts(n, Acc)
            /\ ByHalves(step, rounds, r) = Then(rounds[one], rounds[two])
        BY <2>2, <3>1, <3>4, Halves
      <4>3. one.lo = r.lo /\ one.hi = mid /\ two.lo = mid + 1 /\ two.hi = r.hi
        BY DEF Rounds
      <4>4. more[one] = rounds[one]
        <5>1. one.hi - one.lo <= d
          BY <2>8, <3>1, <4>1, <4>3
        <5> QED BY <2>7, <4>2, <5>1
      <4>5. more[two] = rounds[two]
        <5>1. two.hi - two.lo <= d
          BY <2>8, <3>1, <4>1, <4>3
        <5> QED BY <2>7, <4>2, <5>1
      <4>6. ByHalves(step, more, r)
              = Then(more[one], more[Rounds(mid + 1, r.hi, more[one].acc)])
        BY <2>4, <3>1, <3>4, Halves
      <4>7. Rounds(mid + 1, r.hi, more[one].acc) = two
        BY <4>4
      <4> HIDE DEF one, two
      <4> QED BY <2>5, <4>2, <4>4, <4>5, <4>6, <4>7
    <3> QED BY <3>1, <3>2, <3>3, <3>4
  <2> QED BY <2>4, <2>6, <2>8 DEF LoopUpTo
<1> HIDE DEF lengths
<1>4. n \in lengths
  BY <1>2, <1>3, SetInduction
<1>5. PICK rounds : LoopUpTo(n, rounds, step, n, S, Acc)
  BY <1>4 DEF lengths
<1>6. ASSUME NEW r \in Parts(n, Acc)
      PROVE  rounds[r] = ByHalves(step, rounds, r)
  <2>1. r.hi - r.lo <= n
    BY DEF Parts
  <2> QED BY <1>5, <2>1 DEF LoopUpTo
<1>7. rounds = [r \in Parts(n, Acc) |-> rounds[r]]
  BY <1>5 DEF LoopUpTo
<1> QED BY <1>6, <1>7 DEF IsLoop

\* A loop by halves puts out and leaves what it does round by round.
LEMMA LoopFollowsTrace ==
  ASSUME NEW n \in Nat, n > 0, NEW S, NEW Acc, NEW step \in StepFcns(n, S, Acc), NEW first \in Acc,
         NEW rounds, IsLoop(rounds, step, n, Acc),
         NEW trace, IsTrace(trace, step, first, n, S, Acc)
  PROVE  rounds[Rounds(1, n, first)] = trace[n]
<1> DEFINE On(lo, hi) == rounds[Rounds(lo, hi, trace[lo - 1].acc)]
           Right(lo, hi) == On(lo, hi) \in Result(S, Acc) /\ trace[hi] = Then(trace[lo - 1], On(lo, hi))
           lengths == {d \in Nat : \A lo, hi \in 1 .. n : hi - lo \in 0 .. d => Right(lo, hi)}
<1>1. \A k \in 0 .. n : trace[k] \in Result(S, Acc) /\ trace[k].acc \in Acc
  BY DEF IsTrace, Result
<1>2. ASSUME NEW lo \in 1 .. n, NEW hi \in 1 .. n
      PROVE  Rounds(lo, hi, trace[lo - 1].acc) \in Parts(n, Acc)
  <2>1. lo - 1 \in 0 .. n
    OBVIOUS
  <2> QED BY <1>1, <2>1 DEF Rounds, Parts
<1>3. ASSUME NEW lo \in 1 .. n
      PROVE  Right(lo, lo)
  <2>1. On(lo, lo) = step[lo][trace[lo - 1].acc]
    <3>1. rounds[Rounds(lo, lo, trace[lo - 1].acc)] = ByHalves(step, rounds, Rounds(lo, lo, trace[lo - 1].acc))
      BY <1>2 DEF IsLoop
    <3> QED BY <3>1 DEF ByHalves, Rounds
  <2>2. step[lo][trace[lo - 1].acc] \in Result(S, Acc)
    <3>1. lo - 1 \in 0 .. n
      OBVIOUS
    <3> QED BY <1>1, <3>1 DEF StepFcns
  <2>3. trace[lo] = Then(trace[lo - 1], step[lo][trace[lo - 1].acc])
    BY DEF IsTrace
  <2> HIDE DEF On
  <2> QED BY <2>1, <2>2, <2>3
<1>4. 0 \in lengths
  <2> HIDE DEF Right
  <2>1. ASSUME NEW lo \in 1 .. n, NEW hi \in 1 .. n, hi - lo \in 0 .. 0
        PROVE  Right(lo, hi)
    <3>1. hi = lo
      BY <2>1
    <3> QED BY <1>3, <3>1
  <2> QED BY <2>1
<1>5. ASSUME NEW d \in Nat, d \in lengths
      PROVE  d + 1 \in lengths
  <2>1. ASSUME NEW lo \in 1 .. n, NEW hi \in 1 .. n, hi - lo \in 0 .. d + 1
        PROVE  Right(lo, hi)
    <3>1. CASE hi = lo
      <4> HIDE DEF Right
      <4> QED BY <1>3, <3>1
    <3>2. CASE hi # lo
      <4> DEFINE mid == (lo + hi) \div 2
                 all == Rounds(lo, hi, trace[lo - 1].acc)
      <4>1. mid \in Nat /\ lo <= mid /\ mid < hi
        BY <2>1, <3>2, Middle
      <4>2. mid \in 1 .. n /\ mid + 1 \in 1 .. n
        BY <4>1
      <4>3. Right(lo, mid) /\ Right(mid + 1, hi)
        <5> HIDE DEF Right
        <5>1. mid - lo \in 0 .. d /\ hi - (mid + 1) \in 0 .. d
          BY <2>1, <4>1
        <5> HIDE DEF mid
        <5> QED BY <1>5, <4>2, <5>1
      <4>4. all \in Parts(n, Acc) /\ all.lo = lo /\ all.hi = hi /\ all.acc = trace[lo - 1].acc
        BY <1>2 DEF Rounds
      <4> HIDE DEF all
      <4>5. rounds[all] = ByHalves(step, rounds, all)
        BY <4>4 DEF IsLoop
      <4>6. ByHalves(step, rounds, all)
              = Then(rounds[Rounds(lo, mid, trace[lo - 1].acc)],
                     rounds[Rounds(mid + 1, hi, rounds[Rounds(lo, mid, trace[lo - 1].acc)].acc)])
        BY <3>2, <4>4 DEF ByHalves, Then
      <4>7. trace[mid] = Then(trace[lo - 1], On(lo, mid)) /\ trace[mid].acc = On(lo, mid).acc
        <5> HIDE DEF On
        <5>1. trace[mid] = Then(trace[lo - 1], On(lo, mid))
          BY <4>3
        <5>2. Then(trace[lo - 1], On(lo, mid)).acc = On(lo, mid).acc
          BY DEF Then
        <5> QED BY <5>1, <5>2
      <4>8. mid + 1 - 1 = mid
        BY <4>1
      <4>9. rounds[all] = Then(On(lo, mid), On(mid + 1, hi))
        BY <4>5, <4>6, <4>7, <4>8
      <4>10. trace[hi] = Then(trace[mid], On(mid + 1, hi))
        BY <4>3, <4>8
      <4>11. On(lo, hi) = rounds[all]
        BY DEF all
      <4>12. On(lo, mid) \in Result(S, Acc) /\ On(mid + 1, hi) \in Result(S, Acc)
        BY <4>3
      <4>13. trace[lo - 1] \in Result(S, Acc)
        <5>1. lo - 1 \in 0 .. n
          OBVIOUS
        <5> QED BY <1>1, <5>1
      <4> HIDE DEF On
      <4>14. Then(Then(trace[lo - 1], On(lo, mid)), On(mid + 1, hi))
               = Then(trace[lo - 1], Then(On(lo, mid), On(mid + 1, hi)))
        BY <4>12, <4>13, ThenAssociative
      <4>15. trace[hi] = Then(trace[lo - 1], On(lo, hi))
        BY <4>7, <4>9, <4>10, <4>11, <4>14
      <4>16. On(lo, hi) \in Result(S, Acc)
        BY <4>9, <4>11, <4>12, ThenResult
      <4> QED BY <4>15, <4>16
    <3> QED BY <3>1, <3>2
  <2> HIDE DEF Right
  <2> QED BY <2>1
<1>6. n - 1 \in lengths
  <2> HIDE DEF lengths
  <2>1. n - 1 \in Nat
    OBVIOUS
  <2> QED BY <1>4, <1>5, <2>1, SetInduction
<1>7. Right(1, n)
  <2> HIDE DEF Right
  <2>1. n - 1 \in 0 .. n - 1 /\ 1 \in 1 .. n /\ n \in 1 .. n
    OBVIOUS
  <2> QED BY <1>6, <2>1
<1>8. trace[0] = [out |-> <<>>, acc |-> first]
  BY DEF IsTrace
<1>9. On(1, n) = rounds[Rounds(1, n, first)]
  BY <1>8
<1>10. <<>> \o On(1, n).out = On(1, n).out /\ On(1, n) = [out |-> On(1, n).out, acc |-> On(1, n).acc]
  BY <1>7, ConcatEmptySeq DEF Result
<1>11. trace[n] = Then(trace[0], On(1, n))
  BY <1>7
<1> HIDE DEF On
<1> QED BY <1>8, <1>9, <1>10, <1>11 DEF Then

\* What a loop puts out and leaves is the end of its trace, and it has one.
LEMMA LoopTraced ==
  ASSUME NEW n \in Nat, n > 0, NEW S, NEW Acc, NEW step \in StepFcns(n, S, Acc), NEW first \in Acc
  PROVE  /\ \E rounds : IsLoop(rounds, step, n, Acc)
         /\ \E trace : IsTrace(trace, step, first, n, S, Acc)
                       /\ \A rounds : IsLoop(rounds, step, n, Acc)
                                        => rounds[Rounds(1, n, first)] = trace[n]
<1>1. PICK trace : IsTrace(trace, step, first, n, S, Acc)
  BY HasTrace
<1>2. \A rounds : IsLoop(rounds, step, n, Acc) => rounds[Rounds(1, n, first)] = trace[n]
  BY <1>1, LoopFollowsTrace
<1> QED BY <1>1, <1>2, LoopIsDefined

-----------------------------------------------------------------------------
(* What follows from a trace.                                              *)

\* A round more.
OneMore(trace, step, k, S, Acc) ==
  /\ trace[k] \in Result(S, Acc) /\ trace[k + 1] \in Result(S, Acc)
  /\ trace[k + 1].out = trace[k].out \o step[k + 1][trace[k].acc].out
  /\ trace[k + 1].acc = step[k + 1][trace[k].acc].acc

\* A trace goes on by one round.
LEMMA TraceRound ==
  ASSUME NEW n \in Nat, NEW S, NEW Acc, NEW step, NEW first, NEW trace,
         IsTrace(trace, step, first, n, S, Acc), NEW k \in Nat, k < n
  PROVE  OneMore(trace, step, k, S, Acc)
<1>1. k + 1 \in 1 .. n /\ k \in 0 .. n /\ k + 1 \in 0 .. n /\ (k + 1) - 1 = k
  OBVIOUS
<1>2. trace[k] \in Result(S, Acc) /\ trace[k + 1] \in Result(S, Acc)
  BY <1>1 DEF IsTrace
<1>3. trace[k + 1] = Then(trace[k], step[k + 1][trace[k].acc])
  BY <1>1 DEF IsTrace
<1>4. PICK round : round = step[k + 1][trace[k].acc]
  OBVIOUS
<1>5. Then(trace[k], round).out = trace[k].out \o round.out /\ Then(trace[k], round).acc = round.acc
  BY DEF Then
<1>6. trace[k + 1].out = trace[k].out \o round.out /\ trace[k + 1].acc = round.acc
  BY <1>3, <1>4, <1>5
<1> QED BY <1>2, <1>4, <1>6 DEF OneMore

\* Loops of which some first rounds are the same.
SameRounds(one, two, last, Acc) == \A k \in 1 .. last : \A acc \in Acc : one[k][acc] = two[k][acc]

\* They do the same in them.
LEMMA SameTrace ==
  ASSUME NEW n \in Nat, NEW m \in Nat, NEW last \in Nat, last <= n, last <= m,
         NEW S, NEW Acc, NEW one, NEW two, NEW first, NEW trace, NEW other,
         IsTrace(trace, one, first, n, S, Acc), IsTrace(other, two, first, m, S, Acc),
         SameRounds(one, two, last, Acc)
  PROVE  \A k \in 0 .. last : trace[k] = other[k]
<1> DEFINE good == {k \in Nat : k <= last => trace[k] = other[k]}
<1>1. 0 \in good
  BY DEF IsTrace
<1>2. ASSUME NEW k \in Nat, k \in good
      PROVE  k + 1 \in good
  <2> SUFFICES ASSUME k + 1 <= last
               PROVE  trace[k + 1] = other[k + 1]
    OBVIOUS
  <2>1. trace[k] = other[k]
    BY <1>2
  <2>2. k + 1 \in 1 .. last /\ k + 1 \in 1 .. n /\ k + 1 \in 1 .. m /\ (k + 1) - 1 = k
    OBVIOUS
  <2>3. trace[k].acc \in Acc
    <3>1. k \in 0 .. n
      OBVIOUS
    <3> QED BY <3>1 DEF IsTrace, Result
  <2>4. one[k + 1][trace[k].acc] = two[k + 1][trace[k].acc]
    BY <2>2, <2>3 DEF SameRounds
  <2>5. trace[k + 1] = Then(trace[k], one[k + 1][trace[k].acc])
    BY <2>2 DEF IsTrace
  <2>6. other[k + 1] = Then(other[k], two[k + 1][other[k].acc])
    BY <2>2 DEF IsTrace
  <2> QED BY <2>1, <2>4, <2>5, <2>6
<1>3. \A k \in Nat : k \in good
  <2> HIDE DEF good
  <2> QED BY <1>1, <1>2, SetInduction
<1> QED BY <1>3

\* A sequence is the beginning of another.
Begins(s, t) == Len(s) <= Len(t) /\ \A j \in 1 .. Len(s) : t[j] = s[j]

\* Later rounds leave what has been put out.
LEMMA TraceGrows ==
  ASSUME NEW n \in Nat, NEW S, NEW Acc, NEW step \in StepFcns(n, S, Acc), NEW first, NEW trace,
         IsTrace(trace, step, first, n, S, Acc), NEW k \in Nat, k <= n
  PROVE  Begins(trace[k].out, trace[n].out)
<1> DEFINE good == {i \in Nat : k + i <= n => Begins(trace[k].out, trace[k + i].out)}
<1>1. 0 \in good
  <2>1. k + 0 = k /\ k \in 0 .. n
    OBVIOUS
  <2>2. trace[k].out \in Seq(S)
    BY <2>1 DEF IsTrace, Result
  <2>3. Len(trace[k].out) <= Len(trace[k].out)
    BY <2>2
  <2> QED BY <2>1, <2>3 DEF Begins
<1>2. ASSUME NEW i \in Nat, i \in good
      PROVE  i + 1 \in good
  <2> SUFFICES ASSUME k + (i + 1) <= n
               PROVE  Begins(trace[k].out, trace[k + (i + 1)].out)
    OBVIOUS
  <2>1. k + i \in Nat /\ k + i < n /\ k + (i + 1) = (k + i) + 1
    OBVIOUS
  <2>2. PICK l \in Nat : l = k + i
    BY <2>1
  <2>3. /\ trace[l] \in Result(S, Acc)
        /\ trace[l + 1].out = trace[l].out \o step[l + 1][trace[l].acc].out
    <3>1. OneMore(trace, step, l, S, Acc)
      BY <2>1, <2>2, TraceRound
    <3> QED BY <3>1 DEF OneMore
  <2>4. step[l + 1][trace[l].acc] \in Result(S, Acc)
    <3>1. l + 1 \in 1 .. n
      BY <2>1, <2>2
    <3> QED BY <2>3, <3>1 DEF StepFcns, Result
  <2>5. PICK s, t, u : s = trace[k].out /\ t = trace[l].out /\ u = step[l + 1][trace[l].acc].out
    OBVIOUS
  <2>6. s \in Seq(S) /\ t \in Seq(S) /\ u \in Seq(S)
    <3>1. k \in 0 .. n
      OBVIOUS
    <3> QED BY <2>3, <2>4, <2>5, <3>1 DEF Result, IsTrace
  <2>7. Begins(s, t)
    BY <1>2, <2>1, <2>2, <2>5
  <2>8. Len(t \o u) = Len(t) + Len(u) /\ \A j \in 1 .. Len(t) : (t \o u)[j] = t[j]
    BY <2>6
  <2>9. Begins(s, t \o u)
    BY <2>6, <2>7, <2>8 DEF Begins
  <2> QED BY <2>1, <2>2, <2>3, <2>5, <2>9
<1>3. n - k \in good
  <2> HIDE DEF good
  <2>1. n - k \in Nat
    OBVIOUS
  <2> QED BY <1>1, <1>2, <2>1, SetInduction
<1>4. k + (n - k) = n
  OBVIOUS
<1> QED BY <1>3, <1>4

\* Rounds are the same as themselves: a loop has one trace.
LEMMA OneTrace ==
  ASSUME NEW n \in Nat, NEW S, NEW Acc, NEW step, NEW first, NEW trace, NEW other,
         IsTrace(trace, step, first, n, S, Acc), IsTrace(other, step, first, n, S, Acc)
  PROVE  trace[n] = other[n]
<1>1. SameRounds(step, step, n, Acc)
  BY DEF SameRounds
<1>2. n <= n /\ n \in 0 .. n
  OBVIOUS
<1>3. \A k \in 0 .. n : trace[k] = other[k]
  BY <1>1, <1>2, SameTrace
<1> QED BY <1>2, <1>3
=============================================================================
