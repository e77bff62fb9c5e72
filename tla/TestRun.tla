------------------------------ MODULE TestRun ------------------------------
(***************************************************************************)
(* The life of one compliance test in the test thread: TestBase::Run with  *)
(* the set-up of the test environment, the test variants and their         *)
(* elementary tests, the checks an elementary test makes, and the verdict  *)
(* that is sent to the test bench.                                         *)
(*                                                                         *)
(* An elementary test (RunElemTest of a TestIso class) is any sequence of  *)
(* reconfigurations, driven frames, checks and assertions of at most       *)
(* MaxSteps steps.  Requests to the test bench are blocking calls: they    *)
(* take effect and return while the simulation runs, and never afterwards. *)
(***************************************************************************)
EXTENDS Naturals, Sequences

CONSTANTS
  DutVersion,  \* dut_can_version: "Can20", "CanFdTol" or "CanFdEna"
  Matches,     \* the variant matches tests ask for
  Elem,        \* elementary tests, by their index
  Checks,      \* the checks the test makes: "rx", "no_rx", "rec", "tec"
  Returns,     \* how RunElemTest returns: "FinishElemTest", "false"
  MaxSteps     \* bound: steps of one elementary test

CanVersion == {"Can20", "CanFdTol", "CanFdEna"}
TestVariant == {"Common", "Can20", "CanFdTol", "CanFdEna"}
VariantMatchType ==
  {"OneToOne", "Common", "CommonAndFd", "ClasCanAndFdEna", "FdTolAndFdEna",
   "ClasCanFdCommon", "CanFdEnaOnly"}

ASSUME VersionAssumption ==
  DutVersion \in CanVersion /\ Matches \subseteq VariantMatchType
ASSUME BoundAssumption == MaxSteps \in Nat

VARIABLES
  at,                 \* where the test thread is in Run
  test_variants,      \* the variants to run
  elem_tests,         \* their elementary tests, one sequence per entry
  variant_index,      \* loop over test_variants, from 1
  elem_index,         \* loop over elem_tests[variant_index], from 1
  steps,              \* steps the current elementary test has made
  test_result,        \* int TestBase::test_result
  failed_assertions,  \* has TestAssertFnc counted a failure?
  returned,           \* the TestResult Run returns
  first_verdict,      \* first pli_data_in of TEST_END the test bench got
  last_verdict,       \* the latest one
  dut,                \* "off", "integrating" or "on"
  simulation,         \* "running" or "ended"
  asked,              \* history: arguments of AddElemTest
  ran,                \* history: elementary tests started
  mismatch            \* history: a check has found a mismatch

configVars  == <<test_variants, elem_tests, asked>>
loopVars    == <<variant_index, elem_index, ran>>
resultVars  == <<test_result, failed_assertions, mismatch>>
verdictVars == <<returned, first_verdict, last_verdict>>
vars == <<at, configVars, loopVars, steps, resultVars, verdictVars, dut,
          simulation>>

-----------------------------------------------------------------------------
(* Variants.                                                               *)

\* enum class TestResult, and what an int holds of a bool.
Passed  == 0
Failed  == 1
Skipped == 2
AsInt(b) == IF b THEN 1 ELSE 0
AsBool(i) == i # 0

If(v) == IF DutVersion = v THEN <<v>> ELSE <<>>

\* The variants each kind of match makes.
VariantsOf(match) ==
  CASE match = "OneToOne"        -> <<DutVersion>>
    [] match = "Common"          -> <<"Common">>
    [] match = "CommonAndFd"     -> <<"Common">> \o If("CanFdEna")
    [] match = "ClasCanAndFdEna" -> If("Can20") \o If("CanFdEna")
    [] match = "FdTolAndFdEna"   -> If("CanFdTol") \o If("CanFdEna")
    [] match = "ClasCanFdCommon" ->
         IF DutVersion = "CanFdEna" THEN <<"CanFdTol", "CanFdEna">>
                                    ELSE <<DutVersion>>
    [] match = "CanFdEnaOnly"    -> If("CanFdEna")

\* (mutant: one vector of elementary tests, whatever the variants)
OneVectorOf(match) == <<<<>>>>

\* The empty vectors of elementary tests it pushes beside them.  Matches with
\* at most one variant push one even for a DUT they have no variant for.
VectorsOf(match) ==
  CASE match = "CanFdEnaOnly" -> IF DutVersion = "CanFdEna" THEN <<<<>>>> ELSE <<>>
    [] match \in {"CommonAndFd", "ClasCanFdCommon"} ->
         IF DutVersion = "CanFdEna" THEN <<<<>>, <<>>>> ELSE <<<<>>>>
    [] OTHER -> <<<<>>>>

-----------------------------------------------------------------------------
Init ==
  /\ at = "construct"
  /\ test_variants = <<>> /\ elem_tests = <<>> /\ asked = {}
  /\ variant_index = 1 /\ elem_index = 1 /\ ran = {}
  /\ steps = 0
  /\ test_result = AsInt(TRUE) /\ failed_assertions = FALSE /\ mismatch = FALSE
  /\ returned = Skipped /\ first_verdict = "none" /\ last_verdict = "none"
  /\ dut = "off"
  /\ simulation = "running"

-----------------------------------------------------------------------------
(* Set-up of the test environment.                                         *)

Calling == simulation = "running"

\* TestBase::ConfigureTest up to the wait: the DUT is reset, configured and
\* enabled, and starts to integrate to the bus.
BaseConfig ==
  /\ at = "construct" /\ Calling
  /\ at' = "wait_setup"
  /\ dut' = "integrating"
  /\ UNCHANGED <<configVars, loopVars, steps, resultVars, verdictVars, simulation>>

\* WaitDutErrAct sees the error active state (polls before that are stutters).
SetupWaitDutErrAct ==
  /\ at = "wait_setup" /\ Calling
  /\ dut = "on"
  /\ at' = "config"
  /\ UNCHANGED <<configVars, loopVars, steps, resultVars, verdictVars, dut,
                 simulation>>

FillTestVariants(match) ==
  /\ at = "config"
  /\ at' = "adding"
  /\ test_variants' = VariantsOf(match)
  /\ elem_tests' = VectorsOf(match)
  /\ UNCHANGED <<asked, loopVars, steps, resultVars, verdictVars, dut, simulation>>

\* Where AddElemTest puts a test of a variant: nowhere if the variant is not run.
PlaceOf(variant) == {i \in DOMAIN test_variants : test_variants[i] = variant}

\* (mutant: every elementary test goes to the first variant)
AddToFirst(variant, e) ==
  [i \in DOMAIN elem_tests |->
     IF i = 1 THEN Append(elem_tests[i], e) ELSE elem_tests[i]]

AddTo(variant, e) ==
  [i \in DOMAIN elem_tests |->
     IF i \in PlaceOf(variant) THEN Append(elem_tests[i], e) ELSE elem_tests[i]]

\* A test adds each of its elementary tests once.
AddElemTest(variant, e) ==
  /\ at = "adding"
  /\ <<variant, e>> \notin asked
  /\ asked' = asked \cup {<<variant, e>>}
  /\ elem_tests' = AddTo(variant, e)
  /\ UNCHANGED <<at, test_variants, loopVars, steps, resultVars, verdictVars, dut,
                 simulation>>

\* TEST_ASSERT in the configuration of a test, and at any point of a test.
FailAssertion ==
  /\ at \in {"adding", "elem"}
  /\ failed_assertions' = TRUE
  /\ UNCHANGED <<at, configVars, loopVars, steps, test_result, mismatch,
                 verdictVars, dut, simulation>>

\* End of SetupTestEnv; Run skips the test if an assertion has failed.
StartRun ==
  /\ at = "adding"
  /\ IF failed_assertions
     THEN at' = "finish" /\ test_result' = AsInt(FALSE)
     ELSE at' = "loop" /\ UNCHANGED test_result
  /\ UNCHANGED <<configVars, loopVars, steps, failed_assertions, mismatch,
                 verdictVars, dut, simulation>>

-----------------------------------------------------------------------------
(* The loops of Run.                                                       *)

InVariant == at = "loop" /\ variant_index <= Len(test_variants)

StartElemTest ==
  /\ InVariant
  /\ elem_index <= Len(elem_tests[variant_index])
  /\ at' = "elem"
  /\ steps' = 0
  /\ ran' = ran \cup {<<test_variants[variant_index],
                       elem_tests[variant_index][elem_index]>>}
  /\ UNCHANGED <<configVars, variant_index, elem_index, resultVars, verdictVars,
                 dut, simulation>>

\* (mutant: the elementary tests of the next variant are not started over)
NextVariantKeepsElem ==
  /\ InVariant
  /\ elem_index > Len(elem_tests[variant_index])
  /\ variant_index' = variant_index + 1
  /\ UNCHANGED <<at, configVars, elem_index, ran, steps, resultVars, verdictVars,
                 dut, simulation>>

\* (mutant: the elementary tests of a variant are counted from zero)
NextVariantFromZero ==
  /\ InVariant
  /\ elem_index > Len(elem_tests[variant_index])
  /\ variant_index' = variant_index + 1
  /\ elem_index' = 0
  /\ UNCHANGED <<at, configVars, ran, steps, resultVars, verdictVars, dut,
                 simulation>>

\* (mutant: variant_index is not stepped on)
NextVariantStays ==
  /\ InVariant
  /\ elem_index > Len(elem_tests[variant_index])
  /\ elem_index' = 1
  /\ UNCHANGED <<at, configVars, variant_index, ran, steps, resultVars,
                 verdictVars, dut, simulation>>

\* The next variant starts over with its first elementary test.
NextVariant ==
  /\ InVariant
  /\ elem_index > Len(elem_tests[variant_index])
  /\ variant_index' = variant_index + 1
  /\ elem_index' = 1
  /\ UNCHANGED <<at, configVars, ran, steps, resultVars, verdictVars, dut,
                 simulation>>

\* (mutant: assertions that fail during the test are forgotten)
LeaveLoopForgets ==
  /\ at = "loop" /\ variant_index > Len(test_variants)
  /\ at' = "finish"
  /\ UNCHANGED <<configVars, loopVars, steps, resultVars, verdictVars, dut,
                 simulation>>

LeaveLoop ==
  /\ at = "loop" /\ variant_index > Len(test_variants)
  /\ at' = "finish"
  /\ test_result' = IF failed_assertions THEN AsInt(FALSE) ELSE test_result
  /\ UNCHANGED <<configVars, loopVars, steps, failed_assertions, mismatch,
                 verdictVars, dut, simulation>>

-----------------------------------------------------------------------------
(* One elementary test.                                                    *)

Step == at = "elem" /\ steps < MaxSteps /\ steps' = steps + 1

\* (mutant: the test drives on without waiting for the DUT)
ReconfAndDriveOn ==
  /\ Step /\ Calling
  /\ dut' = "integrating"
  /\ UNCHANGED <<at, configVars, loopVars, resultVars, verdictVars, simulation>>

\* ReconfDutBitTiming: disable, configure, enable; the test waits afterwards.
ReconfDutBitTiming ==
  /\ Step /\ Calling
  /\ at' = "elem_wait"
  /\ dut' = "integrating"
  /\ UNCHANGED <<configVars, loopVars, resultVars, verdictVars, simulation>>

WaitDutErrAct ==
  /\ at = "elem_wait" /\ Calling
  /\ dut = "on"
  /\ at' = "elem"
  /\ UNCHANGED <<configVars, loopVars, steps, resultVars, verdictVars, dut,
                 simulation>>

\* CheckNoRxFrame, CheckRecChange, CheckTecChange.
Check(ok) ==
  /\ Step /\ Calling
  /\ Checks \cap {"no_rx", "rec", "tec"} # {}
  /\ test_result' = IF ok THEN test_result ELSE AsInt(FALSE)
  /\ mismatch' = (mismatch \/ ~ok)
  /\ UNCHANGED <<at, configVars, loopVars, failed_assertions, verdictVars, dut,
                 simulation>>

\* TestControllerAgentEndTest.
EndTest(success) ==
  /\ last_verdict' = IF success THEN "passed" ELSE "failed"
  /\ first_verdict' = IF first_verdict = "none" THEN last_verdict'
                                                ELSE first_verdict

\* (mutant: the result that was stored is sent, and Failed is true)
CheckRxFrameSendsResult(ok) ==
  /\ Step /\ Calling
  /\ "rx" \in Checks
  /\ mismatch' = (mismatch \/ ~ok)
  /\ IF ok THEN UNCHANGED <<test_result, first_verdict, last_verdict>>
           ELSE test_result' = Failed /\ EndTest(AsBool(Failed))
  /\ UNCHANGED <<at, configVars, loopVars, failed_assertions, returned, dut,
                 simulation>>

\* CheckRxFrame stores (int) TestResult::Failed and ends the test at once.
CheckRxFrame(ok) ==
  /\ Step /\ Calling
  /\ "rx" \in Checks
  /\ mismatch' = (mismatch \/ ~ok)
  /\ IF ok THEN UNCHANGED <<test_result, first_verdict, last_verdict>>
           ELSE test_result' = Failed /\ EndTest(FALSE)
  /\ UNCHANGED <<at, configVars, loopVars, failed_assertions, returned, dut,
                 simulation>>

\* FinishElemTest, and the "return false" of TestIso_7_6_22 that stands for it
\* there when the result is false.
ElemTestFails(how) == how = "FinishElemTest" /\ ~AsBool(test_result)

\* Run leaves its loops at the first elementary test that returns a failure.
FinishElemTest(how) ==
  /\ at = "elem"
  /\ how = "false" => ~AsBool(test_result)
  /\ IF ElemTestFails(how)
     THEN at' = "finish" /\ UNCHANGED elem_index
     ELSE at' = "loop" /\ elem_index' = elem_index + 1
  /\ UNCHANGED <<configVars, variant_index, ran, steps, resultVars, verdictVars,
                 dut, simulation>>

FinishTest ==
  /\ at = "finish" /\ Calling
  /\ at' = "ended"
  /\ EndTest(AsBool(test_result))
  /\ returned' = test_result
  /\ UNCHANGED <<configVars, loopVars, steps, resultVars, dut, simulation>>

-----------------------------------------------------------------------------
(* Device under test and simulator (external).                             *)

DutIntegrates ==
  /\ Calling
  /\ dut = "integrating"
  /\ dut' = "on"
  /\ UNCHANGED <<at, configVars, loopVars, steps, resultVars, verdictVars,
                 simulation>>

\* The test bench stops the simulation some time after TEST_END.
SimulationEnds ==
  /\ Calling
  /\ first_verdict # "none"
  /\ simulation' = "ended"
  /\ UNCHANGED <<at, configVars, loopVars, steps, resultVars, verdictVars, dut>>

-----------------------------------------------------------------------------
SetUp ==
  \/ BaseConfig \/ SetupWaitDutErrAct
  \/ \E match \in Matches : FillTestVariants(match)
  \/ \E variant \in TestVariant, e \in Elem : AddElemTest(variant, e)
  \/ StartRun

ElemTest ==
  \/ ReconfDutBitTiming \/ WaitDutErrAct
  \/ \E ok \in BOOLEAN : Check(ok) \/ CheckRxFrame(ok)
  \/ \E how \in Returns : FinishElemTest(how)

TestThread ==
  \/ SetUp \/ FailAssertion
  \/ StartElemTest \/ NextVariant \/ LeaveLoop
  \/ ElemTest \/ FinishTest

Next == TestThread \/ DutIntegrates \/ SimulationEnds

\* The thread runs, a DUT that is enabled integrates, and the simulator runs on
\* until the test has ended and then stops.
Fairness == WF_vars(TestThread) /\ WF_vars(DutIntegrates) /\ WF_vars(SimulationEnds)

Spec == Init /\ [][Next]_vars /\ Fairness

-----------------------------------------------------------------------------
(* Properties.                                                             *)

\* Types of the variables.
TypeOK ==
  /\ at \in {"construct", "wait_setup", "config", "adding", "loop", "elem",
             "elem_wait", "finish", "ended"}
  /\ test_variants \in Seq(TestVariant)
  /\ elem_tests \in Seq(Seq(Elem))
  /\ asked \subseteq TestVariant \X Elem
  /\ ran \subseteq TestVariant \X Elem
  /\ variant_index \in Nat \ {0} /\ elem_index \in Nat \ {0}
  /\ steps \in 0..MaxSteps
  /\ test_result \in {Passed, Failed}
  /\ returned \in {Passed, Failed, Skipped}
  /\ failed_assertions \in BOOLEAN /\ mismatch \in BOOLEAN
  /\ first_verdict \in {"none", "passed", "failed"}
  /\ last_verdict \in {"none", "passed", "failed"}
  /\ dut \in {"off", "integrating", "on"}
  /\ simulation \in {"running", "ended"}

\* Run indexes elem_tests with the position of a variant in test_variants: each
\* variant has its vector, for every match and every version of the DUT.
VectorForEachVariant == Len(test_variants) <= Len(elem_tests)

\* What has been asked for one of the variants that are run.
AskedToRun ==
  {a \in asked : \E i \in DOMAIN test_variants : test_variants[i] = a[1]}

\* Every elementary test asked for a variant that is run has been run when the
\* test finishes, and no other, unless something failed: no index of the two
\* loops skips or mixes up the vectors FillTestVariants and AddElemTest filled.
OnlyFailuresSkipTests ==
  at \in {"finish", "ended"} /\ ~mismatch /\ ~failed_assertions => ran = AskedToRun

\* No elementary test runs twice.
EachRunsOnce ==
  [][at = "loop" /\ at' = "elem" =>
       \E a \in asked : a \notin ran /\ ran' = ran \cup {a}]_vars

\* An elementary test goes on only with a DUT that has integrated to the bus
\* since it was enabled last (WaitDutErrAct after each reconfiguration).
DutOnInElemTest == at = "elem" => dut = "on"

\* DutOnInElemTest from the end of the set-up on.
DutOn == at \in {"config", "adding", "loop", "elem"} => dut = "on"

\* A failing elementary test is the last one: Run finishes the test at it.
FailureStopsTheRun == [][at = "loop" /\ at' = "elem" => ~mismatch]_vars

\* Whatever verdict the test bench goes by, that of CheckRxFrame in the middle of
\* a test or that of FinishTest, it stops no test it should have waited for: a
\* test reported as passed has ended and run all it was asked to run, and one the
\* end of the simulation has left in a call for ever was reported as failed, for a
\* mismatch of a check.
NoUnfinishedTestPasses ==
  /\ first_verdict = "passed" => at = "ended" /\ ran = AskedToRun
  /\ at # "ended" /\ simulation = "ended" => first_verdict = "failed" /\ mismatch

\* No verdict is sent in the middle of a test (the case without CheckRxFrame).
NoEarlyVerdict == at # "ended" => first_verdict = "none"

\* The first verdict is "passed" only after a test in which nothing has failed,
\* and the simulation ends after a verdict only.
VerdictInv ==
  /\ first_verdict = "passed" => at = "ended" /\ ~mismatch /\ ~failed_assertions
  /\ simulation = "ended" => first_verdict # "none"

\* Only an elementary test, or a run that is being finished, has met a mismatch.
NoMismatchBetweenTests ==
  at \notin {"elem", "elem_wait", "finish", "ended"} => ~mismatch

\* Run ends, unless the test bench was told of a failure before and has stopped
\* the simulation under it: no poll and no loop keeps a test from its verdict.
RunEndsUnlessReported ==
  <>(at = "ended" \/ (simulation = "ended" /\ first_verdict = "failed"))

\* The first verdict is the right one, and there is one.
Reported == INSTANCE Verdict WITH failed <- mismatch \/ failed_assertions,
                                  verdict <- first_verdict

ImplementsVerdict == Reported!Spec

\* Before the first verdict the result is FALSE exactly if a check has failed,
\* and when the test finishes exactly if a check or an assertion has.
ResultSoFar ==
  first_verdict = "none" =>
    /\ at \notin {"finish", "ended"} => (AsBool(test_result) <=> ~mismatch)
    /\ at = "finish" => (AsBool(test_result) <=> ~(mismatch \/ failed_assertions))

\* A match makes no variant twice, and a test adds no elementary test twice: the
\* vector of each variant holds the tests asked for it, once each.
VariantsDiffer ==
  \A i, k \in DOMAIN test_variants : test_variants[i] = test_variants[k] => i = k

VectorsAsAsked ==
  \A i \in DOMAIN test_variants :
    /\ \A j, k \in DOMAIN elem_tests[i] :
         elem_tests[i][j] = elem_tests[i][k] => j = k
    /\ \A e \in Elem :
         <<test_variants[i], e>> \in asked <=>
           \E j \in DOMAIN elem_tests[i] : elem_tests[i][j] = e

\* Has Run started the elementary test at this place of the vectors?
Started(i, j) ==
  \/ i < variant_index
  \/ i = variant_index /\ j < elem_index
  \/ i = variant_index /\ j = elem_index /\ at \in {"elem", "elem_wait"}

\* The indices of the two loops say which tests have been run.
RanSoFar ==
  at \notin {"finish", "ended"} =>
    ran = {a \in TestVariant \X Elem :
             \E i \in DOMAIN test_variants : \E j \in DOMAIN elem_tests[i] :
               Started(i, j) /\ a = <<test_variants[i], elem_tests[i][j]>>}

\* Nothing is asked for before there are variants and nothing runs before the
\* loops; a verdict in the middle of a test is sent for a mismatch only.
EarlyStates ==
  /\ at \in {"construct", "wait_setup", "config"} => asked = {}
  /\ at \in {"construct", "wait_setup", "config", "adding"} =>
       ran = {} /\ variant_index = 1 /\ elem_index = 1
  /\ at # "ended" /\ first_verdict # "none" => mismatch

\* The inductive invariant of the loops, together with RunInv.
LoopInv ==
  /\ VariantsDiffer /\ VectorsAsAsked /\ RanSoFar /\ EarlyStates
  /\ OnlyFailuresSkipTests

\* The inductive invariant.
RunInv == TypeOK /\ VectorForEachVariant /\ DutOn /\ ResultSoFar

\* TestBase.h of CheckRxFrame: a mismatch sets test_result to false.
MismatchFailsTheTest == mismatch => ~AsBool(test_result)
=============================================================================
