------------------------- MODULE MCComplianceTests -------------------------
(***************************************************************************)
(* All test classes modelled, each against the node of CanNode.  Bounds:   *)
(* two outcomes of the random number generator; of the rounds of an        *)
(* elementary test, MaxRounds at most.                                     *)
(***************************************************************************)
EXTENDS TestIso_7_5, TestIso_8_6

\* A random frame: data, extended or not, with all bytes equal.
Drawn(fdf, ide, rtr, brs, esi, dlc, ident, byte) ==
  [fdf |-> fdf, ide |-> ide, rtr |-> rtr, brs |-> brs, esi |-> esi, dlc |-> dlc,
   ident |-> ident, data |-> Bytes(byte)]

BaseFrame(ident, brs, dlc, byte) == Drawn(Can20, Base, Data, brs, ErrAct, dlc, ident, byte)

MoreFrames ==
  <<BaseFrame(0, NoShift, 1, 0), BaseFrame(2047, NoShift, 2, 255), BaseFrame(5, DoShift, 0, 0),
    BaseFrame(7, DoShift, 0, 0), BaseFrame(9, DoShift, 0, 0), BaseFrame(1000, DoShift, 1, 15)>>

\* First a frame with few stuff bits, second one with long runs of equal bits.
Plain ==
  [first |-> Drawn(Can20, Base, Data, NoShift, ErrAct, 1, 1234567, 85),
   second |-> Drawn(CanFd, Ext, Rtr, DoShift, ErrPas, 2, 98765, 0), rand |-> 0, more |-> MoreFrames]

\* Runs of equal bits from the identifier through the CRC.
LongRuns ==
  [first |-> Drawn(CanFd, Ext, Data, DoShift, ErrPas, 2, 536870911, 255),
   second |-> Drawn(Can20, Base, Data, NoShift, ErrAct, 1, 0, 0), rand |-> 3, more |-> MoreFrames]

OneOutcome == <<Plain>>
TwoOutcomes == <<Plain, LongRuns>>

AllClasses == Setup_7_1 @@ Setup_7_2 @@ Setup_7_4 @@ Setup_7_5 @@ Setup_7_6
              @@ Setup_8_1 @@ Setup_8_2 @@ Setup_8_4 @@ Setup_8_5 @@ Setup_8_6 @@ Setup_9_6
OnlyClass_8_1_4 == "8.1.4" :> Setup_8_1["8.1.4"]
OnlyClass_8_5_7 == "8.5.7" :> Setup_8_5["8.5.7"]

Next ==
  \/ TestIso_7_1_Any \/ TestIso_7_2_Any \/ TestIso_7_4_Any \/ TestIso_7_5_Any \/ TestIso_7_6_Any
  \/ TestIso_8_1_Any \/ TestIso_8_2_Any \/ TestIso_8_4_Any \/ TestIso_8_5_Any \/ TestIso_8_6_Any
  \/ TestIso_9_6_Any \/ BitTime \/ FinishElemTest \/ Stopped

Spec == Init /\ [][Next]_vars
=============================================================================
