---------------------------- MODULE MCBitTiming ----------------------------
(***************************************************************************)
(* The bit timing tests, of one random frame, in four bit timings.         *)
(***************************************************************************)
EXTENDS BitTimingTests

Drawn(fdf, ide, rtr, brs, esi, dlc, ident, byte) ==
  [fdf |-> fdf, ide |-> ide, rtr |-> rtr, brs |-> brs, esi |-> esi, dlc |-> dlc,
   ident |-> ident, data |-> Bytes(byte)]

\* The data has each of two equal bits and two different ones.
OneOutcome ==
  <<[first |-> Drawn(CanFd, Base, Data, DoShift, ErrAct, 1, 1234567, 101),
     second |-> Drawn(CanFd, Base, Data, DoShift, ErrAct, 1, 98765, 0), rand |-> 0]>>

Bt(brp, prop, ph1, ph2, sjw) == [brp |-> brp, prop |-> prop, ph1 |-> ph1, ph2 |-> ph2, sjw |-> sjw]

\* PH2 longer than SJW; as long as SJW; time quanta of more cycles than the input
\* delay; and TSEG1 longer than two bits of the data phase.
FourTimings ==
  <<[nbt |-> Bt(1, 4, 3, 4, 2), dbt |-> Bt(1, 2, 1, 3, 2)],
    [nbt |-> Bt(2, 2, 2, 3, 3), dbt |-> Bt(1, 3, 2, 3, 3)],
    [nbt |-> Bt(3, 2, 2, 3, 2), dbt |-> Bt(3, 1, 1, 2, 1)],
    [nbt |-> Bt(3, 6, 4, 3, 2), dbt |-> Bt(3, 1, 1, 2, 1)]>>

\* What classes suppose of the timing without a TEST_ASSERT: that an edge SJW early comes
\* within SJW of the end of PH2, or that it does not; and that what SJW leaves of PH2 is
\* longer than the input delay.
NoSuchTests(setup) == Asserted(FALSE, setup)

LeftOfPh2(bt) == Cardinality({i \in 1 .. CalcNumSPs(bt, TRUE) :
  LET tested == GenerateBitTiming(bt, i, TRUE, 0) IN (tested.ph2 - tested.sjw) * tested.brp > InputDelay})

SetupAll(bts) ==
  [Setup_7_7(bts) @@ Setup_7_8(bts) @@ Setup_8_7(bts) @@ Setup_8_8(bts) EXCEPT
     !["7.7.11"] = IF bts.nbt.sjw < bts.nbt.ph2 THEN @ ELSE NoSuchTests(@),
     !["7.8.5.3"] = IF bts.nbt.sjw = bts.nbt.ph2 THEN @ ELSE NoSuchTests(@),
     !["8.7.8"].common = LeftOfPh2(bts.nbt)]

\* The last timing is that of the secondary sample point.
SspClasses == {"8.8.2.1", "8.8.2.2", "8.8.2.3", "8.8.2.4"}

HasTests(setup) == setup.common + setup.fd > 0

\* Classes that have elementary tests in timing i, with which they are setups.
Tested(setups, i) ==
  LET tested == {c \in DOMAIN setups : HasTests(setups[c]) /\ (i = 4 => c \in SspClasses)}
  IN  [name \in tested \X {i} |-> setups[name[1]]]

TimedClasses ==
  FoldFunction(LAMBDA classes, more : classes @@ more, <<>>,
               [i \in DOMAIN Timings |-> Tested(SetupAll(Timings[i]), i)])
=============================================================================
