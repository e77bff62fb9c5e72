--------------------------- MODULE TestRunProofs ---------------------------
(***************************************************************************)
(* Proofs about TestRun, for every set of elementary tests, every version  *)
(* of the DUT, every choice of checks and every number of steps.  RunInv   *)
(* is inductive; with it every step of Run is a step of Verdict.           *)
(***************************************************************************)
EXTENDS TestRun, SequenceTheorems, TLAPS

USE DEF configVars, loopVars, resultVars, verdictVars

-----------------------------------------------------------------------------
(* The variants of a match and their vectors.                              *)

LEMMA ShortSeqs ==
  ASSUME NEW S
  PROVE  /\ <<>> \in Seq(S) /\ Len(<<>>) = 0
         /\ \A s \in S : <<s>> \in Seq(S) /\ Len(<<s>>) = 1
         /\ \A s, t \in S : <<s, t>> \in Seq(S) /\ Len(<<s, t>>) = 2
  OBVIOUS

LEMMA Concatenation ==
  ASSUME NEW S, NEW s \in Seq(S), NEW t \in Seq(S)
  PROVE  s \o t \in Seq(S) /\ Len(s \o t) = Len(s) + Len(t)
  OBVIOUS

LEMMA IfType ==
  ASSUME NEW w \in TestVariant
  PROVE  If(w) \in Seq(TestVariant) /\ Len(If(w)) = IF DutVersion = w THEN 1 ELSE 0
  BY ShortSeqs DEF If

\* FillTestVariants makes a vector for each variant, of variants there are.
LEMMA VectorsOfVariants ==
  ASSUME NEW match \in VariantMatchType
  PROVE  /\ VariantsOf(match) \in Seq(TestVariant)
         /\ VectorsOf(match) \in Seq(Seq(Elem))
         /\ Len(VariantsOf(match)) <= Len(VectorsOf(match))
<1> DEFINE none == <<>>
           one  == <<none>>
           two  == <<none, none>>
<1>1. DutVersion \in TestVariant \ {"Common"}
  BY VersionAssumption DEF CanVersion, TestVariant
<1>2. /\ none \in Seq(Seq(Elem)) /\ Len(none) = 0
      /\ one \in Seq(Seq(Elem)) /\ Len(one) = 1
      /\ two \in Seq(Seq(Elem)) /\ Len(two) = 2
  <2>1. none \in Seq(Elem) /\ none \in Seq(Seq(Elem)) /\ Len(none) = 0
    BY ShortSeqs
  <2>2. QED
    BY <2>1, ShortSeqs
<1>3. /\ VectorsOf("OneToOne") = one /\ VectorsOf("Common") = one
      /\ VectorsOf("ClasCanAndFdEna") = one /\ VectorsOf("FdTolAndFdEna") = one
      /\ VectorsOf("CommonAndFd") = IF DutVersion = "CanFdEna" THEN two ELSE one
      /\ VectorsOf("ClasCanFdCommon") = IF DutVersion = "CanFdEna" THEN two ELSE one
      /\ VectorsOf("CanFdEnaOnly") = IF DutVersion = "CanFdEna" THEN one ELSE none
  BY DEF VectorsOf
<1> HIDE DEF none, one, two
<1> DEFINE Claim(n) == VariantsOf(match) \in Seq(TestVariant) /\ Len(VariantsOf(match)) = n
<1>d. <<DutVersion>> \in Seq(TestVariant) /\ Len(<<DutVersion>>) = 1
  BY <1>1, ShortSeqs
<1>c. <<"Common">> \in Seq(TestVariant) /\ Len(<<"Common">>) = 1
  BY ShortSeqs DEF TestVariant
<1>t. /\ <<"CanFdTol", "CanFdEna">> \in Seq(TestVariant)
      /\ Len(<<"CanFdTol", "CanFdEna">>) = 2
  BY ShortSeqs DEF TestVariant
<1>e. If("CanFdEna") \in Seq(TestVariant)
      /\ Len(If("CanFdEna")) = IF DutVersion = "CanFdEna" THEN 1 ELSE 0
  BY IfType DEF TestVariant
<1>4. CASE match \in {"OneToOne", "Common"}
  <2>1. VariantsOf(match) \in {<<DutVersion>>, <<"Common">>}
    BY <1>4 DEF VariantsOf
  <2>2. Claim(1)
    BY <2>1, <1>d, <1>c
  <2>3. VectorsOf(match) = one
    BY <1>3, <1>4
  <2>4. VectorsOf(match) \in Seq(Seq(Elem))
    BY <1>2, <2>3
  <2>5. Len(VectorsOf(match)) = 1
    BY <1>2, <2>3
  <2>6. QED
    BY <2>2, <2>4, <2>5
<1>5. CASE match = "CanFdEnaOnly"
  <2>1. VariantsOf(match) = If("CanFdEna")
    BY <1>5 DEF VariantsOf
  <2>2. Claim(IF DutVersion = "CanFdEna" THEN 1 ELSE 0)
    BY <2>1, <1>e
  <2>3. VectorsOf(match) = IF DutVersion = "CanFdEna" THEN one ELSE none
    BY <1>3, <1>5
  <2>4. VectorsOf(match) \in Seq(Seq(Elem))
    BY <1>2, <2>3
  <2>5. Len(VectorsOf(match)) = IF DutVersion = "CanFdEna" THEN 1 ELSE 0
    BY <1>2, <2>3
  <2>6. QED
    BY <2>2, <2>4, <2>5
<1>6. CASE match = "CommonAndFd"
  <2>1. VariantsOf(match) = <<"Common">> \o If("CanFdEna")
    BY <1>6 DEF VariantsOf
  <2>2. Claim(1 + (IF DutVersion = "CanFdEna" THEN 1 ELSE 0))
    BY <2>1, <1>c, <1>e, Concatenation
  <2>3. VectorsOf(match) = IF DutVersion = "CanFdEna" THEN two ELSE one
    BY <1>3, <1>6
  <2>4. VectorsOf(match) \in Seq(Seq(Elem))
    BY <1>2, <2>3
  <2>5. Len(VectorsOf(match)) = IF DutVersion = "CanFdEna" THEN 2 ELSE 1
    BY <1>2, <2>3
  <2>6. QED
    BY <2>2, <2>4, <2>5
<1>7. CASE match \in {"ClasCanAndFdEna", "FdTolAndFdEna"}
  <2>1. PICK w \in {"Can20", "CanFdTol"} : VariantsOf(match) = If(w) \o If("CanFdEna")
    BY <1>7 DEF VariantsOf
  <2>2. If(w) \in Seq(TestVariant) /\ Len(If(w)) = IF DutVersion = w THEN 1 ELSE 0
    BY IfType DEF TestVariant
  <2>3. Claim(Len(If(w)) + Len(If("CanFdEna")))
    BY <2>1, <2>2, <1>e, Concatenation
  <2>4. Len(If(w)) + Len(If("CanFdEna")) \in {0, 1}
    BY <2>2, <1>e
  <2>5. VectorsOf(match) = one
    BY <1>3, <1>7
  <2>6. QED
    BY <1>2, <2>3, <2>4, <2>5
<1>8. CASE match = "ClasCanFdCommon"
  <2>1. VariantsOf(match) = IF DutVersion = "CanFdEna" THEN <<"CanFdTol", "CanFdEna">>
                                                       ELSE <<DutVersion>>
    BY <1>8 DEF VariantsOf
  <2>2. Claim(IF DutVersion = "CanFdEna" THEN 2 ELSE 1)
    BY <2>1, <1>d, <1>t
  <2>3. VectorsOf(match) = IF DutVersion = "CanFdEna" THEN two ELSE one
    BY <1>3, <1>8
  <2>4. VectorsOf(match) \in Seq(Seq(Elem))
    BY <1>2, <2>3
  <2>5. Len(VectorsOf(match)) = IF DutVersion = "CanFdEna" THEN 2 ELSE 1
    BY <1>2, <2>3
  <2>6. QED
    BY <2>2, <2>4, <2>5
<1>9. QED
  BY <1>4, <1>5, <1>6, <1>7, <1>8 DEF VariantMatchType

\* AddElemTest keeps the vectors a sequence of sequences, and their number.
LEMMA AddToType ==
  ASSUME elem_tests \in Seq(Seq(Elem)), NEW variant, NEW e \in Elem
  PROVE  /\ AddTo(variant, e) \in Seq(Seq(Elem))
         /\ Len(AddTo(variant, e)) = Len(elem_tests)
<1>1. \A i \in 1..Len(elem_tests) :
        /\ elem_tests[i] \in Seq(Elem)
        /\ Append(elem_tests[i], e) \in Seq(Elem)
  OBVIOUS
<1>2. DOMAIN elem_tests = 1..Len(elem_tests) /\ Len(elem_tests) \in Nat
  OBVIOUS
<1>3. AddTo(variant, e) \in [1..Len(elem_tests) -> Seq(Elem)]
  BY <1>1, <1>2 DEF AddTo
<1>4. AddTo(variant, e) \in Seq(Seq(Elem))
  <2> DEFINE S == Seq(Elem)
             n == Len(elem_tests)
  <2>1. AddTo(variant, e) \in [1..n -> S] /\ n \in Nat
    BY <1>2, <1>3
  <2>2. Seq(S) = UNION {[1..m -> S] : m \in Nat}
    BY SeqDef
  <2> HIDE DEF S, n
  <2>3. AddTo(variant, e) \in Seq(S)
    BY <2>1, <2>2
  <2>4. QED
    BY <2>3 DEF S
<1>5. DOMAIN AddTo(variant, e) = 1..Len(elem_tests)
  BY <1>3
<1>6. QED
  BY <1>2, <1>4, <1>5, LenProperties

-----------------------------------------------------------------------------
(* Type correctness.                                                       *)

LEMMA TypeSetUp == TypeOK /\ SetUp => TypeOK'
<1> SUFFICES ASSUME TypeOK, SetUp PROVE TypeOK'
  OBVIOUS
<1>1. CASE BaseConfig
  BY <1>1 DEF TypeOK, BaseConfig
<1>2. CASE SetupWaitDutErrAct
  BY <1>2 DEF TypeOK, SetupWaitDutErrAct
<1>3. ASSUME NEW match \in Matches, FillTestVariants(match) PROVE TypeOK'
  <2>1. match \in VariantMatchType
    BY VersionAssumption
  <2>2. test_variants' \in Seq(TestVariant) /\ elem_tests' \in Seq(Seq(Elem))
    BY <1>3, <2>1, VectorsOfVariants DEF FillTestVariants
  <2>3. QED
    BY <1>3, <2>2 DEF TypeOK, FillTestVariants
<1>4. ASSUME NEW variant \in TestVariant, NEW e \in Elem, AddElemTest(variant, e)
      PROVE  TypeOK'
  <2>1. elem_tests' \in Seq(Seq(Elem))
    BY <1>4, AddToType DEF TypeOK, AddElemTest
  <2>2. asked' \subseteq TestVariant \X Elem
    BY <1>4 DEF TypeOK, AddElemTest
  <2>3. QED
    BY <1>4, <2>1, <2>2 DEF TypeOK, AddElemTest
<1>5. CASE StartRun
  BY <1>5 DEF TypeOK, StartRun, AsInt, Passed, Failed
<1>6. QED
  BY <1>1, <1>2, <1>3, <1>4, <1>5 DEF SetUp

LEMMA TypeLoop ==
  TypeOK /\ VectorForEachVariant /\ (StartElemTest \/ NextVariant \/ LeaveLoop)
    => TypeOK'
<1> SUFFICES ASSUME TypeOK, VectorForEachVariant,
                    StartElemTest \/ NextVariant \/ LeaveLoop
             PROVE  TypeOK'
  OBVIOUS
<1>1. CASE StartElemTest
  <2>1. /\ variant_index \in 1..Len(test_variants)
        /\ variant_index \in 1..Len(elem_tests)
    BY <1>1 DEF TypeOK, VectorForEachVariant, StartElemTest, InVariant
  <2>2. /\ test_variants[variant_index] \in TestVariant
        /\ elem_tests[variant_index] \in Seq(Elem)
    BY <2>1 DEF TypeOK
  <2>3. elem_tests[variant_index][elem_index] \in Elem
    BY <1>1, <2>2 DEF TypeOK, StartElemTest
  <2>4. ran' \subseteq TestVariant \X Elem
    BY <1>1, <2>2, <2>3 DEF TypeOK, StartElemTest
  <2>5. QED
    BY <1>1, <2>4, BoundAssumption DEF TypeOK, StartElemTest
<1>2. CASE NextVariant
  BY <1>2 DEF TypeOK, NextVariant
<1>3. CASE LeaveLoop
  BY <1>3 DEF TypeOK, LeaveLoop, AsInt, Passed, Failed
<1>4. QED
  BY <1>1, <1>2, <1>3

LEMMA TypeElemTest == TypeOK /\ ElemTest => TypeOK'
<1> SUFFICES ASSUME TypeOK, ElemTest PROVE TypeOK'
  OBVIOUS
<1>1. CASE ReconfDutBitTiming
  BY <1>1, BoundAssumption DEF TypeOK, ReconfDutBitTiming, Step
<1>2. CASE WaitDutErrAct
  BY <1>2 DEF TypeOK, WaitDutErrAct
<1>3. ASSUME NEW ok \in BOOLEAN, Check(ok) PROVE TypeOK'
  BY <1>3, BoundAssumption DEF TypeOK, Check, Step, AsInt, Passed, Failed
<1>4. ASSUME NEW ok \in BOOLEAN, CheckRxFrame(ok) PROVE TypeOK'
  BY <1>4, BoundAssumption DEF TypeOK, CheckRxFrame, Step, EndTest, Passed, Failed
<1>5. ASSUME NEW how \in Returns, FinishElemTest(how) PROVE TypeOK'
  BY <1>5 DEF TypeOK, FinishElemTest
<1>6. QED
  BY <1>1, <1>2, <1>3, <1>4, <1>5 DEF ElemTest

LEMMA TypeNext == TypeOK /\ VectorForEachVariant /\ [Next]_vars => TypeOK'
<1> SUFFICES ASSUME TypeOK, VectorForEachVariant, [Next]_vars PROVE TypeOK'
  OBVIOUS
<1>1. CASE FailAssertion
  BY <1>1 DEF TypeOK, FailAssertion
<1>2. CASE FinishTest
  BY <1>2 DEF TypeOK, FinishTest, EndTest, Passed, Failed
<1>3. CASE DutIntegrates
  BY <1>3 DEF TypeOK, DutIntegrates
<1>4. CASE SimulationEnds
  BY <1>4 DEF TypeOK, SimulationEnds
<1>5. CASE UNCHANGED vars
  BY <1>5 DEF TypeOK, vars
<1>6. QED
  BY <1>1, <1>2, <1>3, <1>4, <1>5, TypeSetUp, TypeLoop, TypeElemTest
     DEF Next, TestThread

\* FillTestVariants is the one step that sets the variants, and AddElemTest the
\* other one that touches the vectors.
LEMMA VectorsNext ==
  TypeOK /\ VectorForEachVariant /\ [Next]_vars => VectorForEachVariant'
<1> SUFFICES ASSUME TypeOK, VectorForEachVariant, [Next]_vars
             PROVE  VectorForEachVariant'
  OBVIOUS
<1>1. ASSUME NEW match \in Matches, FillTestVariants(match)
      PROVE  VectorForEachVariant'
  BY <1>1, VersionAssumption, VectorsOfVariants
     DEF FillTestVariants, VectorForEachVariant
<1>2. ASSUME NEW variant \in TestVariant, NEW e \in Elem, AddElemTest(variant, e)
      PROVE  VectorForEachVariant'
  BY <1>2, AddToType DEF TypeOK, AddElemTest, VectorForEachVariant
<1>3. CASE UNCHANGED <<test_variants, elem_tests>>
  BY <1>3 DEF VectorForEachVariant
<1>4. QED
  BY <1>1, <1>2, <1>3
     DEF Next, TestThread, SetUp, ElemTest, vars, BaseConfig, SetupWaitDutErrAct,
         StartRun, FailAssertion, StartElemTest, NextVariant, LeaveLoop,
         ReconfDutBitTiming, WaitDutErrAct, Check, CheckRxFrame, FinishElemTest,
         FinishTest, DutIntegrates, SimulationEnds

-----------------------------------------------------------------------------
(* The DUT is on, and the result is the right one.                         *)

LEMMA DutOnNext == DutOn /\ [Next]_vars => DutOn'
<1> SUFFICES ASSUME DutOn, [Next]_vars PROVE DutOn'
  OBVIOUS
<1>1. CASE SetUp
  BY <1>1 DEF DutOn, SetUp, BaseConfig, SetupWaitDutErrAct, FillTestVariants,
              AddElemTest, StartRun
<1>2. CASE FailAssertion \/ StartElemTest \/ NextVariant \/ LeaveLoop \/ FinishTest
  BY <1>2 DEF DutOn, FailAssertion, StartElemTest, InVariant, NextVariant,
              LeaveLoop, FinishTest
<1>3. CASE ElemTest
  BY <1>3 DEF DutOn, ElemTest, Step, ReconfDutBitTiming, WaitDutErrAct, Check,
              CheckRxFrame, FinishElemTest
<1>4. CASE DutIntegrates \/ SimulationEnds \/ UNCHANGED vars
  BY <1>4 DEF DutOn, DutIntegrates, SimulationEnds, vars
<1>5. QED
  BY <1>1, <1>2, <1>3, <1>4 DEF Next, TestThread

LEMMA ResultNext == TypeOK /\ ResultSoFar /\ [Next]_vars => ResultSoFar'
<1> SUFFICES ASSUME TypeOK, ResultSoFar, [Next]_vars PROVE ResultSoFar'
  OBVIOUS
<1> USE DEF ResultSoFar, AsBool, AsInt, Passed, Failed
<1>1. CASE SetUp
  <2>1. CASE StartRun
    BY <2>1 DEF StartRun
  <2>2. CASE UNCHANGED <<resultVars, verdictVars>> /\ at' \notin {"finish", "ended"}
             /\ at \notin {"finish", "ended"}
    BY <2>2
  <2>3. QED
    BY <1>1, <2>1, <2>2
       DEF SetUp, BaseConfig, SetupWaitDutErrAct, FillTestVariants, AddElemTest
<1>2. CASE FailAssertion \/ StartElemTest \/ NextVariant
  BY <1>2 DEF FailAssertion, StartElemTest, InVariant, NextVariant
<1>3. CASE LeaveLoop
  BY <1>3 DEF LeaveLoop
<1>4. CASE FinishTest
  BY <1>4 DEF FinishTest, EndTest
<1>5. CASE ReconfDutBitTiming \/ WaitDutErrAct
  BY <1>5 DEF ReconfDutBitTiming, WaitDutErrAct, Step
<1>6. ASSUME NEW ok \in BOOLEAN, Check(ok) PROVE ResultSoFar'
  BY <1>6 DEF Check, Step
<1>7. ASSUME NEW ok \in BOOLEAN, CheckRxFrame(ok) PROVE ResultSoFar'
  BY <1>7 DEF CheckRxFrame, Step, EndTest
<1>8. ASSUME NEW how \in Returns, FinishElemTest(how) PROVE ResultSoFar'
  BY <1>8 DEF FinishElemTest, ElemTestFails
<1>9. CASE DutIntegrates \/ SimulationEnds \/ UNCHANGED vars
  BY <1>9 DEF DutIntegrates, SimulationEnds, vars
<1>10. QED
  BY <1>1, <1>2, <1>3, <1>4, <1>5, <1>6, <1>7, <1>8, <1>9
     DEF Next, TestThread, ElemTest

-----------------------------------------------------------------------------
(* Theorems.                                                               *)

LEMMA InvInit == Init => RunInv
<1> SUFFICES ASSUME Init PROVE RunInv
  OBVIOUS
<1>1. <<>> \in Seq(TestVariant) /\ <<>> \in Seq(Seq(Elem)) /\ Len(<<>>) = 0
  BY ShortSeqs
<1>2. TypeOK
  <2>1. test_variants \in Seq(TestVariant) /\ elem_tests \in Seq(Seq(Elem))
    BY <1>1 DEF Init
  <2>2. steps \in 0..MaxSteps /\ variant_index \in Nat \ {0} /\ elem_index \in Nat \ {0}
    BY BoundAssumption DEF Init
  <2>3. QED
    BY <2>1, <2>2 DEF Init, TypeOK, AsInt, Passed, Failed, Skipped
<1>3. VectorForEachVariant /\ DutOn /\ ResultSoFar
  BY <1>1 DEF Init, VectorForEachVariant, DutOn, ResultSoFar, AsBool, AsInt
<1>4. QED
  BY <1>2, <1>3 DEF RunInv

LEMMA InvNext == RunInv /\ [Next]_vars => RunInv'
  BY TypeNext, VectorsNext, DutOnNext, ResultNext DEF RunInv

\* RunInv, the inductive invariant, holds always.
THEOREM RunInvariant == Spec => []RunInv
  BY InvInit, InvNext, PTL DEF Spec

\* The variables of a test keep their types.
THEOREM RunTypeCorrect == Spec => []TypeOK
<1>1. RunInv => TypeOK
  BY DEF RunInv
<1>2. QED
  BY <1>1, RunInvariant, PTL

\* Each variant of a test has its vector of elementary tests, whatever match it
\* asks for and whatever version the DUT is of.
THEOREM VectorsComplete == Spec => []VectorForEachVariant
<1>1. RunInv => VectorForEachVariant
  BY DEF RunInv
<1>2. QED
  BY <1>1, RunInvariant, PTL

\* An elementary test goes on with an integrated DUT only.
THEOREM DutReady == Spec => []DutOnInElemTest
<1>1. RunInv => DutOnInElemTest
  BY DEF RunInv, DutOn, DutOnInElemTest
<1>2. QED
  BY <1>1, RunInvariant, PTL

LEMMA VerdictStep == RunInv /\ [Next]_vars => [Reported!Next]_(Reported!vars)
<1> SUFFICES ASSUME RunInv, [Next]_vars PROVE [Reported!Next]_(Reported!vars)
  OBVIOUS
<1> USE DEF Reported!Next, Reported!vars, Reported!Fail, Reported!Report
<1> TypeOK /\ ResultSoFar
  BY DEF RunInv
<1>1. CASE UNCHANGED <<mismatch, failed_assertions, first_verdict>>
  BY <1>1
<1>2. CASE FailAssertion
  BY <1>2 DEF FailAssertion, TypeOK
<1>3. ASSUME NEW ok \in BOOLEAN, Check(ok) PROVE [Reported!Next]_(Reported!vars)
  BY <1>3 DEF Check, TypeOK
<1>4. ASSUME NEW ok \in BOOLEAN, CheckRxFrame(ok)
      PROVE  [Reported!Next]_(Reported!vars)
  BY <1>4 DEF CheckRxFrame, EndTest, TypeOK
<1>5. CASE FinishTest
  <2>1. CASE first_verdict = "none"
    <3>1. AsBool(test_result) <=> ~(mismatch \/ failed_assertions)
      BY <1>5, <2>1 DEF FinishTest, ResultSoFar
    <3>2. QED
      BY <1>5, <2>1, <3>1 DEF FinishTest, EndTest, TypeOK
  <2>2. CASE first_verdict # "none"
    BY <1>5, <2>2 DEF FinishTest, EndTest, TypeOK
  <2>3. QED
    BY <2>1, <2>2
<1>6. QED
  BY <1>1, <1>2, <1>3, <1>4, <1>5
     DEF Next, TestThread, SetUp, ElemTest, vars, BaseConfig, SetupWaitDutErrAct,
         FillTestVariants, AddElemTest, StartRun, StartElemTest, NextVariant,
         LeaveLoop, ReconfDutBitTiming, WaitDutErrAct, FinishElemTest,
         DutIntegrates, SimulationEnds

\* The first verdict the test bench gets says "passed" exactly if no check and
\* no assertion has failed up to then, and it is never revised: the safety part
\* of ImplementsVerdict.
THEOREM VerdictIsRight == Spec => Reported!Init /\ [][Reported!Next]_(Reported!vars)
<1>1. Init => Reported!Init
  BY DEF Init, Reported!Init
<1>2. QED
  BY <1>1, VerdictStep, RunInvariant, PTL DEF Spec

-----------------------------------------------------------------------------
(* The two loops of Run.  LoopInv is inductive together with RunInv, and   *)
(* from it no elementary test is skipped, mixed up or run twice, for every *)
(* match, every version of the DUT and every set of elementary tests.      *)

-----------------------------------------------------------------------------
(* Variants and vectors as FillTestVariants makes them.                    *)

LEMMA ShortSeqsDiffer ==
  /\ \A s : \A i, k \in DOMAIN <<s>> : i = k
  /\ \A s, t : s # t => \A i, k \in DOMAIN <<s, t>> : <<s, t>>[i] = <<s, t>>[k] => i = k
  /\ \A i, k \in DOMAIN <<>> : i = k
  OBVIOUS

\* There is nothing to concatenate but empty sequences and single variants.
LEMMA ConcatenatedVariants ==
  ASSUME NEW v \in TestVariant, NEW w \in TestVariant
  PROVE  /\ <<>> \o <<>> = <<>>
         /\ <<v>> \o <<>> = <<v>>
         /\ <<>> \o <<w>> = <<w>>
         /\ <<v>> \o <<w>> = <<v, w>>
<1>1. /\ <<>> \in Seq(TestVariant) /\ <<v>> \in Seq(TestVariant)
      /\ <<w>> \in Seq(TestVariant) /\ <<v, w>> \in Seq(TestVariant)
  BY ShortSeqs
<1>2. <<>> \o <<>> = <<>> /\ <<v>> \o <<>> = <<v>> /\ <<>> \o <<w>> = <<w>>
  BY <1>1, ConcatEmptySeq
<1>3. <<v>> \o <<w>> = <<v, w>>
  <2>1. /\ <<v>> \o <<w>> \in Seq(TestVariant) /\ Len(<<v>> \o <<w>>) = 2
        /\ (<<v>> \o <<w>>)[1] = v /\ (<<v>> \o <<w>>)[2] = w
    BY <1>1
  <2>2. Len(<<v, w>>) = 2 /\ <<v, w>>[1] = v /\ <<v, w>>[2] = w
    OBVIOUS
  <2>3. \A i \in 1..2 : i = 1 \/ i = 2
    OBVIOUS
  <2>4. \A i \in 1..Len(<<v>> \o <<w>>) : (<<v>> \o <<w>>)[i] = <<v, w>>[i]
    BY <2>1, <2>2, <2>3
  <2>5. QED
    BY <1>1, <2>1, <2>2, <2>4, SeqEqual
<1>4. QED
  BY <1>2, <1>3

\* No match makes a variant twice.
LEMMA VariantsOfDiffer ==
  ASSUME NEW match \in VariantMatchType
  PROVE  \A i, k \in DOMAIN VariantsOf(match) :
           VariantsOf(match)[i] = VariantsOf(match)[k] => i = k
<1> DEFINE Short == {<<>>} \cup {<<s>> : s \in TestVariant}
                    \cup {<<"Common", "CanFdEna">>, <<"CanFdTol", "CanFdEna">>}
<1>1. DutVersion \in {"Can20", "CanFdTol", "CanFdEna"}
  BY VersionAssumption DEF CanVersion
<1>2. VariantsOf(match) \in Short
  <2>1. CASE match \in {"OneToOne", "Common"}
    BY <1>1, <2>1 DEF VariantsOf, TestVariant
  <2>2. CASE match = "CanFdEnaOnly"
    BY <1>1, <2>2 DEF VariantsOf, TestVariant, If
  <2>3. CASE match = "ClasCanFdCommon"
    BY <1>1, <2>3 DEF VariantsOf, TestVariant
  <2>4. CASE match = "CommonAndFd"
    <3>1. /\ <<"Common">> \o <<"CanFdEna">> = <<"Common", "CanFdEna">>
          /\ <<"Common">> \o <<>> = <<"Common">>
      BY ConcatenatedVariants DEF TestVariant
    <3>2. VariantsOf(match) \in {<<"Common">> \o <<"CanFdEna">>, <<"Common">> \o <<>>}
      BY <2>4 DEF VariantsOf, If
    <3>3. "Common" \in TestVariant
      BY DEF TestVariant
    <3>4. QED
      BY <3>1, <3>2, <3>3
  <2>5. CASE match = "ClasCanAndFdEna"
    BY <1>1, <2>5, ConcatenatedVariants DEF VariantsOf, TestVariant, If
  <2>6. CASE match = "FdTolAndFdEna"
    BY <1>1, <2>6, ConcatenatedVariants DEF VariantsOf, TestVariant, If
  <2>7. QED
    BY <2>1, <2>2, <2>3, <2>4, <2>5, <2>6 DEF VariantMatchType
<1>3. QED
  BY <1>2, ShortSeqsDiffer

\* The vectors are made empty.
LEMMA VectorsOfEmpty ==
  ASSUME NEW match \in VariantMatchType, NEW i \in DOMAIN VectorsOf(match)
  PROVE  VectorsOf(match)[i] = <<>>
<1>1. VectorsOf(match) \in {<<>>, <<<<>>>>, <<<<>>, <<>>>>}
  BY DEF VectorsOf, VariantMatchType
<1>2. QED
  BY <1>1

\* Appending to a vector.
LEMMA Appended ==
  ASSUME NEW s \in Seq(Elem), NEW e
  PROVE  /\ DOMAIN s = 1..Len(s) /\ Len(s) \in Nat
         /\ DOMAIN Append(s, e) = 1..(Len(s) + 1)
         /\ \A j \in 1..Len(s) : Append(s, e)[j] = s[j]
         /\ Append(s, e)[Len(s) + 1] = e
  OBVIOUS

\* A variant has its vector.
LEMMA VectorOfVariant ==
  ASSUME TypeOK, VectorForEachVariant, NEW i \in DOMAIN test_variants
  PROVE  /\ i \in DOMAIN elem_tests /\ i \in Nat \ {0}
         /\ elem_tests[i] \in Seq(Elem)
         /\ DOMAIN elem_tests[i] = 1..Len(elem_tests[i]) /\ Len(elem_tests[i]) \in Nat
         /\ test_variants[i] \in TestVariant
  BY DEF TypeOK, VectorForEachVariant

-----------------------------------------------------------------------------
(* The configuration of a test.                                            *)

\* The steps that leave the variants and their vectors alone.
LEMMA ConfigSteps ==
  ASSUME [Next]_vars
  PROVE  \/ \E match \in Matches : FillTestVariants(match)
         \/ \E variant \in TestVariant, e \in Elem : AddElemTest(variant, e)
         \/ UNCHANGED configVars
  BY DEF Next, TestThread, SetUp, ElemTest, vars, BaseConfig, SetupWaitDutErrAct,
         StartRun, FailAssertion, StartElemTest, NextVariant, LeaveLoop,
         ReconfDutBitTiming, WaitDutErrAct, Check, CheckRxFrame, FinishElemTest,
         FinishTest, DutIntegrates, SimulationEnds

LEMMA VariantsNext == VariantsDiffer /\ [Next]_vars => VariantsDiffer'
<1> SUFFICES ASSUME VariantsDiffer, [Next]_vars PROVE VariantsDiffer'
  OBVIOUS
<1>1. ASSUME NEW match \in Matches, FillTestVariants(match) PROVE VariantsDiffer'
  BY <1>1, VersionAssumption, VariantsOfDiffer DEF FillTestVariants, VariantsDiffer
<1>2. CASE UNCHANGED test_variants
  BY <1>2 DEF VariantsDiffer
<1>3. QED
  BY <1>1, <1>2, ConfigSteps DEF AddElemTest

\* AddElemTest appends a test to the vector of its variant, if there is one.
LEMMA VectorsAdd ==
  ASSUME TypeOK, VectorForEachVariant, VectorsAsAsked,
         NEW variant \in TestVariant, NEW new \in Elem, AddElemTest(variant, new)
  PROVE  VectorsAsAsked'
<1> SUFFICES ASSUME NEW i \in DOMAIN test_variants
             PROVE  /\ \A j, k \in DOMAIN elem_tests'[i] :
                         elem_tests'[i][j] = elem_tests'[i][k] => j = k
                    /\ \A e \in Elem :
                         <<test_variants[i], e>> \in asked' <=>
                           \E j \in DOMAIN elem_tests'[i] : elem_tests'[i][j] = e
  BY DEF VectorsAsAsked, AddElemTest
<1> DEFINE s == elem_tests[i]
<1>1. /\ i \in DOMAIN elem_tests /\ s \in Seq(Elem)
      /\ DOMAIN s = 1..Len(s) /\ Len(s) \in Nat
  BY VectorOfVariant
<1>2. /\ \A j, k \in DOMAIN s : s[j] = s[k] => j = k
      /\ \A e \in Elem : <<test_variants[i], e>> \in asked <=> \E j \in DOMAIN s : s[j] = e
  BY DEF VectorsAsAsked
<1>3. /\ <<variant, new>> \notin asked
      /\ asked' = asked \cup {<<variant, new>>}
      /\ elem_tests' = AddTo(variant, new)
  BY DEF AddElemTest
<1>4. CASE test_variants[i] # variant
  <2>1. elem_tests'[i] = s
    BY <1>1, <1>3, <1>4 DEF AddTo, PlaceOf
  <2>2. \A e \in Elem : <<test_variants[i], e>> \in asked' <=>
                        <<test_variants[i], e>> \in asked
    BY <1>3, <1>4
  <2>3. QED
    BY <1>2, <2>1, <2>2
<1>5. CASE test_variants[i] = variant
  <2>1. elem_tests'[i] = Append(s, new)
    BY <1>1, <1>3, <1>5 DEF AddTo, PlaceOf
  <2>2. /\ DOMAIN Append(s, new) = 1..(Len(s) + 1)
        /\ \A j \in 1..Len(s) : Append(s, new)[j] = s[j]
        /\ Append(s, new)[Len(s) + 1] = new
    BY <1>1, Appended
  <2>3. \A j \in 1..Len(s) : s[j] # new
    BY <1>1, <1>2, <1>3, <1>5
  <2> HIDE DEF s
  <2>4. \A j, k \in 1..(Len(s) + 1) :
          Append(s, new)[j] = Append(s, new)[k] => j = k
    <3> TAKE j, k \in 1..(Len(s) + 1)
    <3>1. CASE j \in 1..Len(s) /\ k \in 1..Len(s)
      BY <1>1, <1>2, <2>2, <3>1
    <3>2. CASE j = Len(s) + 1 /\ k \in 1..Len(s)
      BY <2>2, <2>3, <3>2
    <3>3. CASE j \in 1..Len(s) /\ k = Len(s) + 1
      BY <2>2, <2>3, <3>3
    <3>4. CASE j = Len(s) + 1 /\ k = Len(s) + 1
      BY <3>4
    <3>5. QED
      BY <1>1, <3>1, <3>2, <3>3, <3>4
  <2>5. ASSUME NEW e \in Elem
        PROVE  <<variant, e>> \in asked' <=>
                 \E j \in 1..(Len(s) + 1) : Append(s, new)[j] = e
    <3>1. CASE e = new
      <4>1. Len(s) + 1 \in 1..(Len(s) + 1)
        BY <1>1
      <4>2. QED
        BY <1>3, <2>2, <3>1, <4>1
    <3>2. CASE e # new
      <4>1. <<variant, e>> \in asked' <=> <<variant, e>> \in asked
        BY <1>3, <3>2
      <4>2. (\E j \in 1..(Len(s) + 1) : Append(s, new)[j] = e) <=>
            (\E j \in 1..Len(s) : s[j] = e)
        <5>1. \A j \in 1..(Len(s) + 1) : j \in 1..Len(s) \/ j = Len(s) + 1
          BY <1>1
        <5>2. \A j \in 1..Len(s) : j \in 1..(Len(s) + 1)
          BY <1>1
        <5>3. QED
          BY <2>2, <3>2, <5>1, <5>2
      <4>3. QED
        BY <1>1, <1>2, <1>5, <4>1, <4>2
    <3>3. QED
      BY <3>1, <3>2
  <2>6. QED
    BY <1>5, <2>1, <2>2, <2>4, <2>5
<1>6. QED
  BY <1>4, <1>5

LEMMA VectorsAsAskedNext ==
  RunInv /\ VectorsAsAsked /\ EarlyStates /\ [Next]_vars => VectorsAsAsked'
<1> SUFFICES ASSUME RunInv, VectorsAsAsked, EarlyStates, [Next]_vars
             PROVE  VectorsAsAsked'
  OBVIOUS
<1>1. ASSUME NEW match \in Matches, FillTestVariants(match) PROVE VectorsAsAsked'
  <2>1. asked' = {} /\ test_variants' = VariantsOf(match) /\ elem_tests' = VectorsOf(match)
    BY <1>1 DEF EarlyStates, FillTestVariants
  <2>2. match \in VariantMatchType
    BY VersionAssumption
  <2>3. RunInv'
    BY InvNext
  <2>4. \A i \in DOMAIN test_variants' : i \in DOMAIN elem_tests'
    BY <2>3 DEF RunInv, TypeOK, VectorForEachVariant
  <2>5. \A i \in DOMAIN test_variants' : elem_tests'[i] = <<>>
    BY <2>1, <2>2, <2>4, VectorsOfEmpty
  <2>6. DOMAIN <<>> = {}
    OBVIOUS
  <2>7. QED
    BY <2>1, <2>5, <2>6 DEF VectorsAsAsked
<1>2. ASSUME NEW variant \in TestVariant, NEW e \in Elem, AddElemTest(variant, e)
      PROVE  VectorsAsAsked'
  BY <1>2, VectorsAdd DEF RunInv
<1>3. CASE UNCHANGED configVars
  BY <1>3 DEF VectorsAsAsked
<1>4. QED
  BY <1>1, <1>2, <1>3, ConfigSteps

-----------------------------------------------------------------------------
(* The loops of Run.                                                       *)

\* The steps that neither move an index nor enter or leave an elementary test.
LEMMA LoopSteps ==
  ASSUME [Next]_vars
  PROVE  \/ SetUp \/ StartElemTest \/ NextVariant \/ LeaveLoop \/ FinishTest
         \/ ReconfDutBitTiming \/ WaitDutErrAct
         \/ \E how \in Returns : FinishElemTest(how)
         \/ UNCHANGED <<at, configVars, loopVars>>
  BY DEF Next, TestThread, ElemTest, vars, FailAssertion, Check, CheckRxFrame,
         DutIntegrates, SimulationEnds, Step

LEMMA EarlyNext == TypeOK /\ EarlyStates /\ [Next]_vars => EarlyStates'
<1> SUFFICES ASSUME TypeOK, EarlyStates, [Next]_vars PROVE EarlyStates'
  OBVIOUS
<1> USE DEF EarlyStates
<1>1. CASE SetUp
  BY <1>1 DEF SetUp, BaseConfig, SetupWaitDutErrAct, FillTestVariants,
     AddElemTest, StartRun
<1>2. CASE FailAssertion \/ StartElemTest \/ NextVariant \/ LeaveLoop
  BY <1>2 DEF FailAssertion, StartElemTest, InVariant, NextVariant, LeaveLoop
<1>3. CASE FinishTest
  BY <1>3 DEF FinishTest
<1>4. CASE ReconfDutBitTiming \/ WaitDutErrAct
  BY <1>4 DEF ReconfDutBitTiming, WaitDutErrAct, Step
<1>5. ASSUME NEW ok \in BOOLEAN, Check(ok) PROVE EarlyStates'
  BY <1>5 DEF Check, Step, TypeOK
<1>6. ASSUME NEW ok \in BOOLEAN, CheckRxFrame(ok) PROVE EarlyStates'
  BY <1>6 DEF CheckRxFrame, Step, TypeOK
<1>7. ASSUME NEW how \in Returns, FinishElemTest(how) PROVE EarlyStates'
  BY <1>7 DEF FinishElemTest
<1>8. CASE DutIntegrates \/ SimulationEnds \/ UNCHANGED vars
  BY <1>8 DEF DutIntegrates, SimulationEnds, vars
<1>9. QED
  BY <1>1, <1>2, <1>3, <1>4, <1>5, <1>6, <1>7, <1>8 DEF Next, TestThread, ElemTest

\* Before the loops no place of the vectors has been started.
LEMMA NothingStarted ==
  ASSUME TypeOK, VectorForEachVariant, EarlyStates,
         at \in {"construct", "wait_setup", "config", "adding"}
  PROVE  RanSoFar
<1>1. ASSUME NEW i \in DOMAIN test_variants, NEW j \in DOMAIN elem_tests[i]
      PROVE  ~Started(i, j)
  <2>1. i \in Nat \ {0} /\ j \in Nat \ {0}
    BY VectorOfVariant
  <2>2. QED
    BY <2>1 DEF EarlyStates, Started
<1>2. QED
  BY <1>1 DEF EarlyStates, RanSoFar

\* A step that starts and ends no elementary test.
LEMMA NothingMoves ==
  ASSUME RanSoFar, at \notin {"finish", "ended"},
         UNCHANGED <<test_variants, elem_tests, ran>>,
         \A i \in DOMAIN test_variants : \A j \in DOMAIN elem_tests[i] :
           Started(i, j)' <=> Started(i, j)
  PROVE  RanSoFar'
  BY DEF RanSoFar

\* StartElemTest starts the place the indices are at.
LEMMA RanStart ==
  ASSUME RunInv, RanSoFar, StartElemTest
  PROVE  /\ variant_index \in DOMAIN test_variants
         /\ elem_index \in DOMAIN elem_tests[variant_index]
         /\ elem_tests[variant_index][elem_index] \in Elem
         /\ RanSoFar'
<1> DEFINE here == <<test_variants[variant_index],
                     elem_tests[variant_index][elem_index]>>
<1>1. variant_index \in DOMAIN test_variants
  BY DEF StartElemTest, InVariant, RunInv, TypeOK
<1>2. /\ elem_tests[variant_index] \in Seq(Elem)
      /\ DOMAIN elem_tests[variant_index] = 1..Len(elem_tests[variant_index])
      /\ test_variants[variant_index] \in TestVariant
  BY <1>1, VectorOfVariant DEF RunInv
<1>3. elem_index \in DOMAIN elem_tests[variant_index]
  BY <1>2 DEF StartElemTest, RunInv, TypeOK
<1>4. here \in TestVariant \X Elem
  BY <1>2, <1>3
<1>5. \A i, j : Started(i, j)' <=>
        Started(i, j) \/ (i = variant_index /\ j = elem_index)
  BY DEF StartElemTest, InVariant, Started
<1>6. /\ ran' = ran \cup {here} /\ at \notin {"finish", "ended"}
      /\ UNCHANGED <<test_variants, elem_tests>>
  BY DEF StartElemTest, InVariant
<1>7. RanSoFar'
  BY <1>1, <1>3, <1>4, <1>5, <1>6 DEF RanSoFar
<1>8. QED
  BY <1>1, <1>2, <1>3, <1>7

LEMMA RanNext == RunInv /\ LoopInv /\ [Next]_vars => RanSoFar'
<1> SUFFICES ASSUME RunInv, LoopInv, [Next]_vars PROVE RanSoFar'
  OBVIOUS
<1>1. TypeOK /\ VectorForEachVariant /\ RanSoFar /\ EarlyStates
  BY DEF RunInv, LoopInv
<1>2. TypeOK' /\ VectorForEachVariant' /\ EarlyStates'
  BY <1>1, InvNext, EarlyNext DEF RunInv
<1>3. CASE at' \in {"finish", "ended"}
  BY <1>3 DEF RanSoFar
<1>4. CASE at' \in {"construct", "wait_setup", "config", "adding"}
  <2>1. (TypeOK /\ VectorForEachVariant /\ EarlyStates
         /\ at \in {"construct", "wait_setup", "config", "adding"} => RanSoFar)'
    BY NothingStarted, PTL
  <2>2. QED
    BY <1>2, <1>4, <2>1
<1>5. CASE StartRun
  <2>1. at = "adding" /\ UNCHANGED <<test_variants, elem_tests, ran>>
    BY <1>5 DEF StartRun
  <2>2. CASE at' = "loop"
    BY <1>1, <1>5, <2>1, <2>2, NothingMoves DEF StartRun, Started
  <2>3. QED
    BY <1>3, <1>5, <2>2 DEF StartRun
<1>6. CASE StartElemTest
  BY <1>1, <1>6, RanStart
<1>7. CASE NextVariant
  <2>1. ASSUME NEW i \in DOMAIN test_variants, NEW j \in DOMAIN elem_tests[i]
        PROVE  Started(i, j)' <=> Started(i, j)
    <3>1. /\ i \in Nat \ {0} /\ j \in Nat \ {0}
          /\ i = variant_index => j < elem_index
      BY <1>1, <1>7, VectorOfVariant DEF NextVariant, TypeOK
    <3>2. Started(i, j)' <=> i < variant_index + 1
      BY <1>7, <3>1 DEF NextVariant, InVariant, Started
    <3>3. Started(i, j) <=> i < variant_index \/ i = variant_index
      BY <1>7, <3>1 DEF NextVariant, InVariant, Started
    <3>4. QED
      BY <1>1, <3>1, <3>2, <3>3 DEF TypeOK
  <2>2. QED
    BY <1>1, <1>7, <2>1, NothingMoves DEF NextVariant, InVariant
<1>8. ASSUME NEW how \in Returns, FinishElemTest(how) PROVE RanSoFar'
  <2>1. CASE at' = "loop"
    <3>1. ASSUME NEW i \in DOMAIN test_variants, NEW j \in DOMAIN elem_tests[i]
          PROVE  Started(i, j)' <=> Started(i, j)
      <4>1. j \in Nat \ {0} /\ elem_index \in Nat
        BY <1>1, VectorOfVariant DEF TypeOK
      <4>2. at = "elem" /\ variant_index' = variant_index /\ elem_index' = elem_index + 1
        BY <1>8, <2>1 DEF FinishElemTest
      <4>3. QED
        BY <2>1, <4>1, <4>2 DEF Started
    <3>2. QED
      BY <1>1, <1>8, <2>1, <3>1, NothingMoves DEF FinishElemTest
  <2>2. QED
    BY <1>3, <1>8, <2>1 DEF FinishElemTest
<1>9. CASE ReconfDutBitTiming \/ WaitDutErrAct
  <2>1. /\ at \in {"elem", "elem_wait"} /\ at' \in {"elem", "elem_wait"}
        /\ UNCHANGED <<test_variants, elem_tests, variant_index, elem_index, ran>>
    BY <1>9 DEF ReconfDutBitTiming, WaitDutErrAct, Step
  <2>2. \A i, j : Started(i, j)' <=> Started(i, j)
    BY <2>1 DEF Started
  <2>3. QED
    BY <1>1, <2>1, <2>2, NothingMoves
<1>10. CASE UNCHANGED <<at, configVars, loopVars>>
  BY <1>1, <1>10 DEF RanSoFar, Started
<1>11. QED
  BY <1>3, <1>4, <1>5, <1>6, <1>7, <1>8, <1>9, <1>10, LoopSteps
     DEF SetUp, BaseConfig, SetupWaitDutErrAct, FillTestVariants, AddElemTest,
         LeaveLoop, FinishTest

-----------------------------------------------------------------------------
(* What has been run in the end.                                           *)

\* Run leaves its loops when every place of the vectors has been started, and
\* what the vectors hold is what was asked for.
LEMMA AllRan ==
  ASSUME RunInv, LoopInv, LeaveLoop
  PROVE  ran = {a \in asked : \E i \in DOMAIN test_variants : test_variants[i] = a[1]}
<1>1. /\ TypeOK /\ VectorForEachVariant /\ VectorsAsAsked
      /\ ran = {a \in TestVariant \X Elem :
                  \E i \in DOMAIN test_variants : \E j \in DOMAIN elem_tests[i] :
                    Started(i, j) /\ a = <<test_variants[i], elem_tests[i][j]>>}
  BY DEF RunInv, LoopInv, RanSoFar, LeaveLoop
<1>2. \A i \in DOMAIN test_variants : \A j : Started(i, j)
  BY <1>1 DEF TypeOK, LeaveLoop, Started
<1>3. ASSUME NEW v \in TestVariant, NEW e \in Elem
      PROVE  <<v, e>> \in ran <=>
               <<v, e>> \in asked /\ \E i \in DOMAIN test_variants : test_variants[i] = v
  <2>1. <<v, e>> \in ran <=>
          \E i \in DOMAIN test_variants : \E j \in DOMAIN elem_tests[i] :
            v = test_variants[i] /\ e = elem_tests[i][j]
    BY <1>1, <1>2
  <2>2. \A i \in DOMAIN test_variants :
          (\E j \in DOMAIN elem_tests[i] : e = elem_tests[i][j]) <=>
            <<test_variants[i], e>> \in asked
    BY <1>1 DEF VectorsAsAsked
  <2>3. QED
    BY <2>1, <2>2
<1>4. ran \subseteq TestVariant \X Elem /\ asked \subseteq TestVariant \X Elem
  BY <1>1 DEF TypeOK
<1>5. QED
  BY <1>3, <1>4

LEMMA OnlyFailuresNext ==
  RunInv /\ LoopInv /\ [Next]_vars => OnlyFailuresSkipTests'
<1> SUFFICES ASSUME RunInv, LoopInv, [Next]_vars, at' \in {"finish", "ended"},
                    ~mismatch', ~failed_assertions'
             PROVE  (ran = {a \in asked : \E i \in DOMAIN test_variants :
                                            test_variants[i] = a[1]})'
  BY DEF OnlyFailuresSkipTests, AskedToRun
<1>1. CASE LeaveLoop
  BY <1>1, AllRan DEF LeaveLoop
<1>2. CASE at \in {"finish", "ended"} /\ UNCHANGED <<configVars, ran, mismatch, failed_assertions>>
  BY <1>2 DEF LoopInv, OnlyFailuresSkipTests, AskedToRun
<1>3. CASE FinishTest
  BY <1>2, <1>3 DEF FinishTest
<1>4. CASE StartRun
  BY <1>4 DEF StartRun
<1>5. ASSUME NEW how \in Returns, FinishElemTest(how) PROVE FALSE
  <2>1. at = "elem" /\ ~AsBool(test_result) /\ ~mismatch
    BY <1>5 DEF FinishElemTest, ElemTestFails
  <2>2. QED
    BY <2>1 DEF RunInv, LoopInv, ResultSoFar, EarlyStates
<1>6. CASE DutIntegrates \/ SimulationEnds \/ UNCHANGED vars
  BY <1>2, <1>6 DEF DutIntegrates, SimulationEnds, vars
<1>7. ASSUME NEW ok \in BOOLEAN, Check(ok) \/ CheckRxFrame(ok) PROVE FALSE
  BY <1>7 DEF Check, CheckRxFrame, Step
<1>8. QED
  BY <1>1, <1>3, <1>4, <1>5, <1>6, <1>7
     DEF Next, TestThread, SetUp, ElemTest, BaseConfig, SetupWaitDutErrAct,
         FillTestVariants, AddElemTest, FailAssertion, StartElemTest, InVariant,
         NextVariant, ReconfDutBitTiming, WaitDutErrAct

-----------------------------------------------------------------------------
(* Theorems.                                                               *)

LEMMA LoopInvInit == Init => LoopInv
<1> SUFFICES ASSUME Init PROVE LoopInv
  OBVIOUS
<1>1. test_variants = <<>> /\ DOMAIN <<>> = {} /\ ran = {} /\ asked = {}
  BY DEF Init
<1>2. VariantsDiffer /\ VectorsAsAsked /\ RanSoFar
  BY <1>1 DEF VariantsDiffer, VectorsAsAsked, RanSoFar
<1>3. EarlyStates /\ OnlyFailuresSkipTests
  BY DEF Init, EarlyStates, OnlyFailuresSkipTests, AskedToRun
<1>4. QED
  BY <1>2, <1>3 DEF LoopInv

LEMMA LoopInvNext == RunInv /\ LoopInv /\ [Next]_vars => LoopInv'
<1> SUFFICES ASSUME RunInv, LoopInv, [Next]_vars PROVE LoopInv'
  OBVIOUS
<1>1. VariantsDiffer' /\ VectorsAsAsked' /\ EarlyStates'
  BY VariantsNext, VectorsAsAskedNext, EarlyNext DEF RunInv, LoopInv
<1>2. RanSoFar' /\ OnlyFailuresSkipTests'
  BY RanNext, OnlyFailuresNext
<1>3. QED
  BY <1>1, <1>2 DEF LoopInv

\* LoopInv, which says how far the loops have come, holds always.
THEOREM LoopInvariant == Spec => []LoopInv
  BY LoopInvInit, LoopInvNext, RunInvariant, PTL DEF Spec

\* When Run finishes and nothing has failed, it has run exactly the elementary
\* tests that were asked for a variant of the DUT.
THEOREM NoTestSkipped == Spec => []OnlyFailuresSkipTests
<1>1. LoopInv => OnlyFailuresSkipTests
  BY DEF LoopInv
<1>2. QED
  BY <1>1, LoopInvariant, PTL

LEMMA StartsNew ==
  ASSUME RunInv, LoopInv, [Next]_vars, at = "loop", at' = "elem"
  PROVE  \E a \in asked : a \notin ran /\ ran' = ran \cup {a}
<1> DEFINE v == test_variants[variant_index]
           e == elem_tests[variant_index][elem_index]
<1>1. StartElemTest
  BY DEF Next, TestThread, SetUp, ElemTest, vars, BaseConfig, SetupWaitDutErrAct,
     FillTestVariants, AddElemTest, StartRun, FailAssertion, NextVariant, InVariant,
     LeaveLoop, ReconfDutBitTiming, WaitDutErrAct, Check, CheckRxFrame, Step,
     FinishElemTest, FinishTest, DutIntegrates, SimulationEnds
<1>2. /\ variant_index \in DOMAIN test_variants
      /\ elem_index \in DOMAIN elem_tests[variant_index] /\ e \in Elem
  BY <1>1, RanStart DEF LoopInv
<1>3. <<v, e>> \in asked
  BY <1>2 DEF LoopInv, VectorsAsAsked
<1>4. <<v, e>> \notin ran
  <2>1. SUFFICES ASSUME NEW i \in DOMAIN test_variants, NEW j \in DOMAIN elem_tests[i],
                        Started(i, j), v = test_variants[i], e = elem_tests[i][j]
                 PROVE  FALSE
    BY DEF LoopInv, RanSoFar
  <2>2. i = variant_index
    BY <1>2, <2>1 DEF LoopInv, VariantsDiffer
  <2>3. j = elem_index
    BY <1>2, <2>1, <2>2 DEF LoopInv, VectorsAsAsked
  <2>4. i \in Nat /\ j \in Nat
    BY <2>2, <2>3 DEF RunInv, TypeOK
  <2>5. QED
    BY <2>1, <2>2, <2>3, <2>4 DEF Started
<1>5. QED
  BY <1>1, <1>3, <1>4 DEF StartElemTest

\* An elementary test that is started was asked for and has not run before.
THEOREM NoTestRunsTwice == Spec => EachRunsOnce
<1>1. RunInv /\ LoopInv /\ [Next]_vars =>
        [at = "loop" /\ at' = "elem" =>
           \E a \in asked : a \notin ran /\ ran' = ran \cup {a}]_vars
  BY StartsNew
<1>2. QED
  BY <1>1, RunInvariant, LoopInvariant, PTL DEF Spec, EachRunsOnce

-----------------------------------------------------------------------------
(* Verdicts, with CheckRxFrame sending some of them in the middle of tests.*)

LEMMA VerdictInvNext == RunInv /\ VerdictInv /\ [Next]_vars => VerdictInv'
<1> SUFFICES ASSUME RunInv, VerdictInv, [Next]_vars PROVE VerdictInv'
  OBVIOUS
<1>1. CASE FinishTest
  <2>1. at = "finish" /\ at' = "ended" /\ simulation' = "running"
        /\ UNCHANGED <<mismatch, failed_assertions>>
    BY <1>1 DEF FinishTest, Calling
  <2>2. CASE first_verdict # "none"
    <3>1. first_verdict' = first_verdict
      BY <1>1, <2>2 DEF FinishTest, EndTest
    <3>2. QED
      BY <2>1, <3>1 DEF VerdictInv
  <2>3. CASE first_verdict = "none"
    <3>1. first_verdict' = IF AsBool(test_result) THEN "passed" ELSE "failed"
      BY <1>1, <2>3 DEF FinishTest, EndTest
    <3>2. AsBool(test_result) <=> ~(mismatch \/ failed_assertions)
      BY <2>1, <2>3 DEF RunInv, ResultSoFar
    <3>3. QED
      BY <2>1, <3>1, <3>2 DEF VerdictInv
  <2>4. QED
    BY <2>2, <2>3
<1>2. ASSUME NEW ok \in BOOLEAN, CheckRxFrame(ok)
      PROVE  VerdictInv'
  <2>1. at = "elem" /\ simulation' = "running"
    BY <1>2 DEF CheckRxFrame, Step, Calling
  <2>2. first_verdict' \in {first_verdict, "failed"}
    BY <1>2 DEF CheckRxFrame, EndTest
  <2>3. QED
    BY <2>1, <2>2 DEF VerdictInv
<1>3. CASE SimulationEnds
  BY <1>3 DEF SimulationEnds, VerdictInv
<1>4. CASE at # "ended" /\ UNCHANGED <<first_verdict, simulation>>
  BY <1>4 DEF VerdictInv
<1>5. CASE UNCHANGED <<at, first_verdict, mismatch, failed_assertions, simulation>>
  BY <1>5 DEF VerdictInv
<1>6. QED
  BY <1>1, <1>2, <1>3, <1>4, <1>5
     DEF Next, TestThread, SetUp, ElemTest, vars, BaseConfig, SetupWaitDutErrAct,
         FillTestVariants, AddElemTest, StartRun, FailAssertion, StartElemTest,
         InVariant, NextVariant, LeaveLoop, ReconfDutBitTiming, WaitDutErrAct,
         Check, Step, FinishElemTest, DutIntegrates

\* Whatever the checks: a test reported as passed has run all it was asked to run,
\* and one that the end of the simulation cut short was reported as failed.
THEOREM NoPassBeforeTheEnd == Spec => []NoUnfinishedTestPasses
<1>1. Init => VerdictInv
  BY DEF Init, VerdictInv
<1>2. RunInv /\ LoopInv /\ VerdictInv => NoUnfinishedTestPasses
  <2> SUFFICES ASSUME RunInv, LoopInv, VerdictInv PROVE NoUnfinishedTestPasses
    OBVIOUS
  <2>1. ASSUME first_verdict = "passed"
        PROVE  at = "ended" /\ ran = AskedToRun
    BY <2>1 DEF VerdictInv, LoopInv, OnlyFailuresSkipTests
  <2>2. ASSUME at # "ended", simulation = "ended"
        PROVE  first_verdict = "failed" /\ mismatch
    BY <2>2 DEF VerdictInv, RunInv, TypeOK, LoopInv, EarlyStates
  <2>3. QED
    BY <2>1, <2>2 DEF NoUnfinishedTestPasses
<1>3. QED
  BY <1>1, <1>2, VerdictInvNext, RunInvariant, LoopInvariant, PTL DEF Spec

-----------------------------------------------------------------------------
(* Tests that do not read the received frame back and end each elementary  *)
(* test with FinishElemTest: a failure stops them.                         *)

LEMMA NoEarlyVerdictNext ==
  "rx" \notin Checks /\ NoEarlyVerdict /\ [Next]_vars => NoEarlyVerdict'
<1> SUFFICES ASSUME "rx" \notin Checks, NoEarlyVerdict, [Next]_vars PROVE NoEarlyVerdict'
  OBVIOUS
<1>1. CASE FinishTest
  BY <1>1 DEF FinishTest, NoEarlyVerdict
<1>2. CASE UNCHANGED first_verdict /\ at # "ended"
  BY <1>2 DEF NoEarlyVerdict
<1>3. CASE UNCHANGED <<at, first_verdict>>
  BY <1>3 DEF NoEarlyVerdict
<1>4. QED
  BY <1>1, <1>2, <1>3
     DEF Next, TestThread, SetUp, ElemTest, vars, BaseConfig, SetupWaitDutErrAct,
         FillTestVariants, AddElemTest, StartRun, FailAssertion, StartElemTest,
         InVariant, NextVariant, LeaveLoop, ReconfDutBitTiming, WaitDutErrAct,
         Check, CheckRxFrame, Step, FinishElemTest, DutIntegrates, SimulationEnds

\* Unless CheckRxFrame sends a verdict, FinishTest sends the first one.
LEMMA VerdictAtTheEnd ==
  ASSUME "rx" \notin Checks
  PROVE  Spec => []NoEarlyVerdict
<1>1. Init => NoEarlyVerdict
  BY DEF Init, NoEarlyVerdict
<1>2. NoEarlyVerdict /\ [Next]_vars => NoEarlyVerdict'
  BY NoEarlyVerdictNext, "rx" \notin Checks
<1>3. QED
  BY <1>1, <1>2, PTL DEF Spec

LEMMA NoMismatchNext ==
  Returns \subseteq {"FinishElemTest"} /\ NoEarlyVerdict /\ RunInv
    /\ NoMismatchBetweenTests /\ [Next]_vars => NoMismatchBetweenTests'
<1> SUFFICES ASSUME Returns \subseteq {"FinishElemTest"}, NoEarlyVerdict, RunInv,
                    NoMismatchBetweenTests, [Next]_vars
             PROVE  NoMismatchBetweenTests'
  OBVIOUS
<1>1. ASSUME NEW how \in Returns, FinishElemTest(how)
      PROVE  NoMismatchBetweenTests'
  <2>1. at = "elem" /\ UNCHANGED mismatch /\ (at' # "finish" => AsBool(test_result))
    BY <1>1 DEF FinishElemTest, ElemTestFails
  <2>2. AsBool(test_result) <=> ~mismatch
    BY <2>1 DEF NoEarlyVerdict, RunInv, ResultSoFar
  <2>3. QED
    BY <2>1, <2>2 DEF NoMismatchBetweenTests
<1>2. CASE UNCHANGED mismatch /\ (at' \in {"elem", "elem_wait", "finish", "ended"}
                                  \/ at \notin {"elem", "elem_wait", "finish", "ended"})
  BY <1>2 DEF NoMismatchBetweenTests
<1>3. CASE at = "elem" /\ at' = at
  BY <1>3 DEF NoMismatchBetweenTests
<1>4. CASE UNCHANGED <<at, mismatch>>
  BY <1>4 DEF NoMismatchBetweenTests
<1>5. QED
  BY <1>1, <1>2, <1>3, <1>4
     DEF Next, TestThread, SetUp, ElemTest, vars, BaseConfig, SetupWaitDutErrAct,
         FillTestVariants, AddElemTest, StartRun, FailAssertion, StartElemTest,
         InVariant, NextVariant, LeaveLoop, ReconfDutBitTiming, WaitDutErrAct,
         Check, CheckRxFrame, Step, FinishTest, DutIntegrates, SimulationEnds

\* A failing elementary test is the last one that runs.
THEOREM FailureStops ==
  ASSUME "rx" \notin Checks, Returns \subseteq {"FinishElemTest"}
  PROVE  Spec => FailureStopsTheRun
<1>1. Init => NoMismatchBetweenTests
  BY DEF Init, NoMismatchBetweenTests
<1>2. NoEarlyVerdict /\ RunInv /\ NoMismatchBetweenTests /\ [Next]_vars
        => NoMismatchBetweenTests'
  BY NoMismatchNext, Returns \subseteq {"FinishElemTest"}
<1>3. NoMismatchBetweenTests => [at = "loop" /\ at' = "elem" => ~mismatch]_vars
  BY DEF NoMismatchBetweenTests
<1>4. Spec => []NoEarlyVerdict
  BY VerdictAtTheEnd, "rx" \notin Checks
<1>5. QED
  BY <1>1, <1>2, <1>3, <1>4, RunInvariant, PTL DEF Spec, FailureStopsTheRun
=============================================================================
