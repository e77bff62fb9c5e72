--------------------------- MODULE BitTimingTests ---------------------------
(***************************************************************************)
(* The bit timing tests as a whole: a run of one class of TestIso_7_7, 7_8,*)
(* 8_7 or 8_8, in one of Timings, of one draw of the random numbers.       *)
(***************************************************************************)
EXTENDS TestIso_8_8

\* Bit timings a DUT and a lower tester can work with, the data bit rate being no lower
\* than the nominal one; and no length is taken for one below zero.
Workable(bts) ==
  /\ bts.nbt \in BitTimings /\ LongEnough(bts.nbt, TRUE) /\ GetBitLenTQ(bts.nbt) <= MaxLength
  /\ bts.dbt \in BitTimings /\ LongEnough(bts.dbt, FALSE) /\ GetBitLenTQ(bts.dbt) <= MaxLength
  /\ GetBitLenCycles(bts.dbt) <= GetBitLenCycles(bts.nbt)

ASSUME TimingsAssumption == \A i \in DOMAIN Timings : Workable(Timings[i])

\* There is an elementary test; and there are no more than ConfigureTest adds.
HasElemTests(setup) == setup.common \in Nat /\ setup.fd \in Nat /\ setup.common + setup.fd > 0

AtMost(setup, configured) == setup.common <= configured.common /\ setup.fd <= configured.fd

\* The names of the classes, and the set-ups of those in which the DUT sends: they are
\* the ones that go through bit timings.
ASSUME ClassesAssumption ==
  \A name \in DOMAIN Classes :
    /\ name \in STRING \X DOMAIN Timings
    /\ HasElemTests(Classes[name])
    /\ LET bts == Timings[name[2]] IN
       \A configured \in {Setup_8_7(bts), Setup_8_8(bts)} :
         name[1] \in DOMAIN configured => AtMost(Classes[name], configured[name[1]])

\* TestIso_8_8_1_2 limits PROP and PH2 to 63 time quanta: a longer nominal bit would get
\* another length in its first elementary test, from which it takes the later ones.
ASSUME NominalBitAssumption ==
  \A name \in DOMAIN Classes :
    name[1] = "8.8.1.2" => GetBitLenTQ(Timings[name[2]].nbt) <= 65

Next == \/ TestIso_7_7_Any \/ TestIso_7_8_Any \/ TestIso_8_7_Any \/ TestIso_8_8_Any
        \/ PushFramesToLT \/ TimedBit \/ TimedFinish \/ TimedStopped

Spec == TimedInit /\ [][Next]_timed_vars
=============================================================================
