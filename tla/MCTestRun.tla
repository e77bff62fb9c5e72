----------------------------- MODULE MCTestRun -----------------------------
(***************************************************************************)
(* Instances of TestRun.  The .cfg files differ in the checks the tests of *)
(* compliance_tests make, 61 of which read the received frame back, and in *)
(* what RunElemTest returns: TestIso_7_6_22 returns FALSE.                 *)
(***************************************************************************)
EXTENDS TestRun
=============================================================================
