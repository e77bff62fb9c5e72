--------------------------- MODULE RequestChannel ---------------------------
(***************************************************************************)
(* What PliComplianceLib promises the test code: every function of it is a *)
(* blocking call.  The operation the caller asked for is executed in the   *)
(* simulation exactly once, with the caller's own operands, before the     *)
(* call returns, and a call that reads returns the value the agent         *)
(* answered to that very operation.                                        *)
(***************************************************************************)
CONSTANTS
  Operation,   \* the calls the test code can make
  Answer,      \* the values an agent can answer
  Reading(_),  \* does this operation read a value back?
  None         \* no operation and no answer yet

VARIABLES
  stage,       \* "idle", "called" (not yet executed) or "executed"
  op,          \* the operation of the latest call
  executed,    \* the operation the agent executed last
  result,      \* the value the agent answered last
  answer       \* the value the latest reading call returned

vars == <<stage, op, executed, result, answer>>

Init ==
  /\ stage = "idle"
  /\ op = None
  /\ executed = None
  /\ result = None
  /\ answer = None

Call(o) ==
  /\ stage = "idle"
  /\ stage' = "called"
  /\ op' = o
  /\ UNCHANGED <<executed, result, answer>>

Execute ==
  /\ stage = "called"
  /\ stage' = "executed"
  /\ executed' = op
  /\ IF Reading(op) THEN result' \in Answer ELSE UNCHANGED result
  /\ UNCHANGED <<op, answer>>

Return ==
  /\ stage = "executed"
  /\ stage' = "idle"
  /\ answer' = IF Reading(op) THEN result ELSE answer
  /\ UNCHANGED <<op, executed, result>>

Next ==
  \/ \E o \in Operation : Call(o)
  \/ Execute
  \/ Return

\* A call that was made is executed and returns; calls need not be made.
Spec == Init /\ [][Next]_vars /\ WF_vars(Execute) /\ WF_vars(Return)
=============================================================================
