----------------------- MODULE SimulatorChannelProofs -----------------------
(***************************************************************************)
(* Proofs about SimulatorChannel, for every set of commands, operands and  *)
(* answers and for every build.  ChannelInv is inductive; the safety       *)
(* invariants that TLC checks follow from it.                              *)
(***************************************************************************)
EXTENDS SimulatorChannel, TLAPS

\* A call has the fields the record of an operation has.
LEMMA OperationFields ==
  ASSUME NEW o \in Operation
  PROVE  /\ o.cmd \in Cmd
         /\ o.data_in \in Field /\ o.data_in_2 \in Field /\ o.message \in Field
         /\ o = [cmd |-> o.cmd, data_in |-> o.data_in,
                 data_in_2 |-> o.data_in_2, message |-> o.message]
         /\ (o.data_in # None) <=> (o.cmd \in WithDataIn)
         /\ (o.data_in_2 # None) <=> (o.cmd \in WithDataIn2)
         /\ (o.message # None) <=> (o.cmd \in WithMessage)
  BY DEF Operation, Field

\* What an agent understands depends on four fields only.
LEMMA UnderstoodFields ==
  ASSUME NEW s, NEW t,
         s.cmd = t.cmd, s.data_in = t.data_in, s.data_in_2 = t.data_in_2,
         s.cmd \in WithMessage => s.message = t.message
  PROVE  Understood(s) = Understood(t)
  BY DEF Understood

LEMMA ReadBackType ==
  ASSUME NEW v \in Answer \cup {None}, NEW w \in ReadBack(v)
  PROVE  w \in Answer \cup {None, Garbage}
  BY DEF ReadBack

USE DEF threadVars, signalVars, agentVars

-----------------------------------------------------------------------------
(* Type correctness.                                                       *)

LEMMA TypeInit == Init => TypeOK
<1> SUFFICES ASSUME Init PROVE TypeOK
  OBVIOUS
<1>1. chan \in ChannelValue
  BY DEF Init, ChannelValue, Field
<1>2. sig \in SignalValue
  BY DEF Init, SignalValue, Field
<1>3. QED
  BY <1>1, <1>2 DEF Init, TypeOK

LEMMA TypeThread == TypeOK /\ TestThread => TypeOK'
<1> SUFFICES ASSUME TypeOK, TestThread PROVE TypeOK'
  OBVIOUS
<1>1. CASE SetTarget
  <2>1. op \in Operation /\ op.cmd \in Cmd
    BY <1>1, OperationFields DEF TypeOK, SetTarget
  <2>2. chan' \in ChannelValue
    BY <1>1, <2>1 DEF TypeOK, ChannelValue, SetTarget
  <2>3. QED
    BY <1>1, <2>1, <2>2 DEF TypeOK, SetTarget
<1>2. CASE SetOperands
  <2>1. op \in Operation
    BY <1>2 DEF TypeOK, SetOperands
  <2>2. op.data_in \in Field /\ op.data_in_2 \in Field /\ op.message \in Field
    BY <2>1, OperationFields
  <2>3. chan' \in ChannelValue
    BY <1>2, <2>2 DEF TypeOK, ChannelValue, SetOperands, FillOperands
  <2>4. QED
    BY <1>2, <2>1, <2>3 DEF TypeOK, SetOperands
<1>3. CASE StartRequest
  BY <1>3 DEF TypeOK, StartRequest
<1>4. CASE WaitRequestDone
  BY <1>4 DEF TypeOK, WaitRequestDone
<1>5. CASE ReturnResult
  BY <1>5 DEF TypeOK, ChannelValue, ReturnResult
<1>6. QED
  BY <1>1, <1>2, <1>3, <1>4, <1>5 DEF TestThread

LEMMA TypeCall == ASSUME TypeOK, NEW o \in Operation, Call(o) PROVE TypeOK'
<1>1. PICK r \in BOOLEAN, u \in BOOLEAN :
        chan' = [chan EXCEPT !.read_access = r, !.use_msg_data = u]
  <2>1. Reading(o) \in BOOLEAN /\ (o.cmd \in WithMessage) \in BOOLEAN
    BY DEF Reading
  <2>2. QED
    BY <2>1 DEF Call, FillFlags
<1>2. chan' \in ChannelValue
  BY <1>1 DEF TypeOK, ChannelValue
<1>3. QED
  BY <1>2 DEF TypeOK, Call

LEMMA TypeCallback == TypeOK /\ Callback => TypeOK'
<1> SUFFICES ASSUME TypeOK, Callback PROVE TypeOK'
  OBVIOUS
<1>1. CASE SampleRequest
  BY <1>1 DEF TypeOK, SampleRequest
<1>2. CASE FreeNoRequest \/ ReqUpNoAck \/ AckUpStillAck
  BY <1>2 DEF TypeOK, FreeNoRequest, ReqUpNoAck, AckUpStillAck
<1>3. CASE FreeRequest
  BY <1>3 DEF TypeOK, FreeRequest, ChannelValue, SignalValue
<1>4. CASE ReqUpAck
  <2>1. PICK text \in ReadBack(pli_out) :
          chan' = IF chan.read_access THEN [chan EXCEPT !.data_out = text]
                                      ELSE chan
    BY <1>4 DEF ReqUpAck
  <2>2. text \in Answer \cup {None, Garbage}
    BY ReadBackType DEF TypeOK
  <2>3. chan' \in ChannelValue
    BY <2>1, <2>2 DEF TypeOK, ChannelValue
  <2>4. QED
    BY <1>4, <2>3 DEF TypeOK, ReqUpAck
<1>5. CASE AckUpDone
  BY <1>5 DEF TypeOK, AckUpDone
<1>6. CASE ClearRequest
  BY <1>6 DEF TypeOK, ClearRequest
<1>7. QED
  BY <1>1, <1>2, <1>3, <1>4, <1>5, <1>6 DEF Callback

\* The test bench only ever acts on a request that is up, and then the signals
\* carry a call: that is why its step needs more than TypeOK.
LEMMA TypeTestBench == TypeOK /\ Phases /\ OperandsOfTheCall /\ TestBench => TypeOK'
<1> SUFFICES ASSUME TypeOK, Phases, OperandsOfTheCall, TestBench PROVE TypeOK'
  OBVIOUS
<1>1. CASE AgentAccept
  BY <1>1 DEF TypeOK, AgentAccept
<1>2. CASE AgentAck
  <2>1. pli_req /\ pc = "wait"
    BY <1>2 DEF TypeOK, Phases, AgentAck
  <2>2. executed' \in Operation
    BY <1>2, <2>1 DEF TypeOK, OperandsOfTheCall, AgentAck
  <2>3. QED
    BY <1>2, <2>2 DEF TypeOK, AgentAck
<1>3. CASE AgentRelease
  BY <1>3 DEF TypeOK, AgentRelease
<1>4. QED
  BY <1>1, <1>2, <1>3 DEF TestBench

-----------------------------------------------------------------------------
(* The invariant is inductive: one lemma per group of actions.             *)

LEMMA InvInit == Init => ChannelInv
<1> SUFFICES ASSUME Init PROVE ChannelInv
  OBVIOUS
<1>1. TypeOK
  BY TypeInit
<1>2. Phases /\ FieldsOfTheCall /\ OperandsOfTheCall
  BY DEF Init, Phases, FieldsOfTheCall, OperandsOfTheCall
<1>3. ResultSoFar
  BY DEF Init, ResultSoFar, Answered
<1>4. QED
  BY <1>1, <1>2, <1>3 DEF ChannelInv

LEMMA InvCall == ASSUME ChannelInv, NEW o \in Operation, Call(o) PROVE ChannelInv'
<1> USE DEF ChannelInv
<1>1. TypeOK'
  BY TypeCall
<1>2. Phases'
  BY DEF TypeOK, Phases, Call
<1>3. FieldsOfTheCall'
  <2>1. /\ chan'.read_access = Reading(o)
        /\ chan'.use_msg_data = (o.cmd \in WithMessage)
    BY DEF TypeOK, ChannelValue, Call, FillFlags
  <2>2. QED
    BY <2>1 DEF FieldsOfTheCall, Call, Reading
<1>4. OperandsOfTheCall'
  BY DEF TypeOK, Phases, OperandsOfTheCall, Call
<1>5. ResultSoFar'
  BY DEF TypeOK, Phases, ResultSoFar, Answered, Call
<1>6. QED
  BY <1>1, <1>2, <1>3, <1>4, <1>5

LEMMA InvThread == ChannelInv /\ TestThread => ChannelInv'
<1> SUFFICES ASSUME ChannelInv, TestThread PROVE ChannelInv'
  OBVIOUS
<1> USE DEF ChannelInv
<1>1. TypeOK'
  BY TypeThread
<1>2. CASE SetTarget
  <2>1. Phases' /\ OperandsOfTheCall' /\ ResultSoFar'
    BY <1>2 DEF TypeOK, Phases, OperandsOfTheCall, ResultSoFar, Answered, SetTarget
  <2>2. FieldsOfTheCall'
    BY <1>2 DEF TypeOK, ChannelValue, FieldsOfTheCall, Reading, SetTarget
  <2>3. QED
    BY <1>1, <2>1, <2>2
<1>3. CASE SetOperands
  <2>1. Phases' /\ OperandsOfTheCall' /\ ResultSoFar'
    BY <1>3 DEF TypeOK, Phases, OperandsOfTheCall, ResultSoFar, Answered, SetOperands
  <2>2. op \in Operation /\ chan.cmd = op.cmd
    BY <1>3 DEF TypeOK, FieldsOfTheCall, SetOperands
  <2>3. Understood(chan') = op
    BY <1>3, <2>2, OperationFields
       DEF TypeOK, ChannelValue, Understood, SetOperands, FillOperands
  <2>4. FieldsOfTheCall'
    BY <1>3, <2>2, <2>3
       DEF TypeOK, ChannelValue, FieldsOfTheCall, Reading, SetOperands, FillOperands
  <2>5. QED
    BY <1>1, <2>1, <2>4
<1>4. CASE StartRequest
  BY <1>1, <1>4 DEF TypeOK, Phases, FieldsOfTheCall, OperandsOfTheCall,
     ResultSoFar, Answered, Reading, Understood, StartRequest
<1>5. CASE WaitRequestDone
  BY <1>1, <1>5 DEF TypeOK, Phases, FieldsOfTheCall, OperandsOfTheCall,
     ResultSoFar, Answered, Reading, Understood, WaitRequestDone, RequestDone
<1>6. CASE ReturnResult
  BY <1>1, <1>6 DEF TypeOK, Phases, FieldsOfTheCall, OperandsOfTheCall,
     ResultSoFar, Answered, Reading, Understood, ReturnResult
<1>7. QED
  BY <1>2, <1>3, <1>4, <1>5, <1>6 DEF TestThread

LEMMA InvCallback == ChannelInv /\ Callback => ChannelInv'
<1> SUFFICES ASSUME ChannelInv, Callback PROVE ChannelInv'
  OBVIOUS
<1> USE DEF ChannelInv
<1>1. TypeOK'
  BY TypeCallback
<1>2. CASE SampleRequest
  BY <1>1, <1>2 DEF TypeOK, Phases, FieldsOfTheCall, OperandsOfTheCall,
     ResultSoFar, Answered, Reading, Understood, SampleRequest
<1>3. CASE FreeNoRequest \/ ReqUpNoAck \/ AckUpStillAck
  BY <1>1, <1>3 DEF TypeOK, Phases, FieldsOfTheCall, OperandsOfTheCall,
     ResultSoFar, Answered, Reading, Understood,
     FreeNoRequest, ReqUpNoAck, AckUpStillAck
<1>4. CASE FreeRequest
  <2>1. pc = "wait" /\ op \in Operation /\ ~pli_ack /\ ~busy
    BY <1>4 DEF TypeOK, Phases, FreeRequest
  <2>2. Understood(chan) = op /\ chan.use_msg_data = (chan.cmd \in WithMessage)
    BY <2>1 DEF FieldsOfTheCall
  <2>3. Understood(sig') = op
    BY <1>4, <2>2 DEF FreeRequest, Understood
  <2>4. QED
    BY <1>1, <1>4, <2>1, <2>3 DEF TypeOK, Phases, FieldsOfTheCall,
       OperandsOfTheCall, ResultSoFar, Answered, Reading, FreeRequest
<1>5. CASE ReqUpAck
  <2>1. pc = "wait" /\ op \in Operation /\ executed = op /\ ~busy
    BY <1>5 DEF TypeOK, Phases, ResultSoFar, ReqUpAck, AckIsHigh
  <2>2. PICK text \in ReadBack(pli_out) :
          chan' = IF chan.read_access THEN [chan EXCEPT !.data_out = text]
                                      ELSE chan
    BY <1>5 DEF ReqUpAck
  <2>3. Reading(op) => chan'.data_out = text
    BY <2>1, <2>2 DEF TypeOK, ChannelValue, FieldsOfTheCall
  <2>4. /\ chan'.cmd = chan.cmd /\ chan'.data_in = chan.data_in
        /\ chan'.data_in_2 = chan.data_in_2 /\ chan'.message = chan.message
        /\ chan'.read_access = chan.read_access
        /\ chan'.use_msg_data = chan.use_msg_data
    BY <2>2 DEF TypeOK, ChannelValue
  <2>5. FieldsOfTheCall'
    BY <1>5, <2>4 DEF FieldsOfTheCall, Understood, Reading, ReqUpAck
  <2>6. Phases' /\ OperandsOfTheCall'
    BY <1>5, <2>1 DEF TypeOK, Phases, OperandsOfTheCall, ReqUpAck
  <2>7. ResultSoFar'
    BY <1>5, <2>1, <2>2, <2>3
       DEF ResultSoFar, Answered, ReadBack, Reading, ReqUpAck
  <2>8. QED
    BY <1>1, <2>5, <2>6, <2>7
<1>6. CASE AckUpDone
  BY <1>1, <1>6 DEF TypeOK, Phases, FieldsOfTheCall, OperandsOfTheCall,
     ResultSoFar, Answered, Reading, Understood, ReadBack, AckUpDone, AckIsLow
<1>7. CASE ClearRequest
  BY <1>1, <1>7 DEF TypeOK, Phases, FieldsOfTheCall, OperandsOfTheCall,
     ResultSoFar, Answered, Reading, Understood, ReadBack, ClearRequest
<1>8. QED
  BY <1>2, <1>3, <1>4, <1>5, <1>6, <1>7 DEF Callback

LEMMA InvTestBench == ChannelInv /\ TestBench => ChannelInv'
<1> SUFFICES ASSUME ChannelInv, TestBench PROVE ChannelInv'
  OBVIOUS
<1> USE DEF ChannelInv
<1>1. TypeOK'
  BY TypeTestBench
<1>2. CASE AgentAccept
  BY <1>1, <1>2 DEF TypeOK, Phases, FieldsOfTheCall, OperandsOfTheCall,
     ResultSoFar, Answered, Reading, Understood, ReadBack, AgentAccept
<1>3. CASE AgentAck
  <2>1. pli_req /\ fsm = "REQ_UP" /\ pc = "wait" /\ req /\ cb = "out"
    BY <1>3 DEF TypeOK, Phases, AgentAck
  <2>2. executed' = op
    BY <1>3, <2>1 DEF OperandsOfTheCall, AgentAck
  <2>3. Phases' /\ FieldsOfTheCall' /\ OperandsOfTheCall'
    BY <1>3, <2>1 DEF TypeOK, Phases, FieldsOfTheCall, OperandsOfTheCall,
       Reading, Understood, AgentAck
  <2>4. ResultSoFar'
    BY <1>3, <2>1, <2>2 DEF ResultSoFar, Answered, Reading, AgentAck
  <2>5. QED
    BY <1>1, <2>3, <2>4
<1>4. CASE AgentRelease
  BY <1>1, <1>4 DEF TypeOK, Phases, FieldsOfTheCall, OperandsOfTheCall,
     ResultSoFar, Answered, Reading, Understood, ReadBack, AgentRelease
<1>5. QED
  BY <1>2, <1>3, <1>4 DEF TestBench

LEMMA InvStutter == ChannelInv /\ UNCHANGED vars => ChannelInv'
  BY DEF vars, ChannelInv, TypeOK, Phases, FieldsOfTheCall, OperandsOfTheCall,
     ResultSoFar, Answered, Reading, Understood, ReadBack

LEMMA InvStep == ChannelInv /\ [Next]_vars => ChannelInv'
  BY InvCall, InvThread, InvCallback, InvTestBench, InvStutter DEF Next

-----------------------------------------------------------------------------
(* Every state of the channel satisfies the inductive invariant.           *)
THEOREM ChannelInvariant == Spec => []ChannelInv
<1>1. Init => ChannelInv
  BY InvInit
<1>2. ChannelInv /\ [Next]_vars => ChannelInv'
  BY InvStep
<1>3. QED
  BY <1>1, <1>2, PTL DEF Spec

(* The variables of the channel keep their types.                          *)
THEOREM TypeCorrect == Spec => []TypeOK
<1>1. ChannelInv => TypeOK
  BY DEF ChannelInv
<1>2. QED
  BY <1>1, ChannelInvariant, PTL

(* A request never meets the leftovers of an earlier one.                  *)
THEOREM NoLeftovers == Spec => []QuietBetweenRequests
<1>1. ChannelInv => QuietBetweenRequests
  BY DEF ChannelInv, TypeOK, Phases, QuietBetweenRequests
<1>2. QED
  BY <1>1, ChannelInvariant, PTL

(* The test bench acts on the operands of the call that is being made.     *)
THEOREM OwnOperands == Spec => []OperandsOfTheCall
<1>1. ChannelInv => OperandsOfTheCall
  BY DEF ChannelInv
<1>2. QED
  BY <1>1, ChannelInvariant, PTL

(* The call that stops waiting has been executed and its answer read.      *)
THEOREM OwnResult == Spec => []ResultOfTheCall
<1>1. ChannelInv => ResultOfTheCall
  BY DEF ChannelInv, TypeOK, Phases, ResultSoFar, Answered, ResultOfTheCall
<1>2. QED
  BY <1>1, ChannelInvariant, PTL

-----------------------------------------------------------------------------
(* What a step of the channel may never do.                                *)

\* The thread leaves the fields alone while req is up, the callback writes
\* pli_data_out only, and only on its way from REQ_UP to ACK_UP.
LEMMA FieldsStep ==
  ASSUME ChannelInv, [Next]_vars, req, chan' # chan
  PROVE  /\ chan' = [chan EXCEPT !.data_out = chan'.data_out]
         /\ chan'.data_out # chan.data_out => fsm = "REQ_UP"
<1>1. pc = "wait"
  BY DEF ChannelInv, TypeOK, Phases
<1>2. ReqUpAck
  BY <1>1 DEF vars, Next, Call, TestThread, SetTarget, SetOperands, StartRequest,
     WaitRequestDone, ReturnResult, Callback, SampleRequest, FreeNoRequest,
     FreeRequest, ReqUpNoAck, AckUpStillAck, AckUpDone, ClearRequest,
     TestBench, AgentAccept, AgentAck, AgentRelease
<1>3. PICK text \in ReadBack(pli_out) : chan' = [chan EXCEPT !.data_out = text]
  BY <1>2 DEF ReqUpAck
<1>4. chan'.data_out = text
  BY <1>3 DEF ChannelInv, TypeOK, ChannelValue
<1>5. QED
  BY <1>2, <1>3, <1>4 DEF ReqUpAck

(* The simulator never reads a field while the test thread changes it.     *)
THEOREM FieldsHoldStill == Spec => FieldsStableWhileRequested
<1>1. ChannelInv /\ [Next]_vars =>
        [req => /\ chan' = [chan EXCEPT !.data_out = chan'.data_out]
                /\ chan'.data_out # chan.data_out => fsm = "REQ_UP"]_chan
  BY FieldsStep
<1>2. QED
  BY <1>1, ChannelInvariant, PTL DEF Spec, FieldsStableWhileRequested

\* Only three actions drive the handshake; in each of them the phase of the
\* automaton says where the other signal is.
LEMMA HandshakeStep ==
  ASSUME ChannelInv, [Next]_vars
  PROVE  /\ pli_req /\ pli_req' => sig' = sig
         /\ pli_req /\ ~pli_req' => pli_ack
         /\ ~pli_req /\ pli_req' => ~pli_ack /\ ~pli_ack'
<1> USE DEF ChannelInv, TypeOK, Phases
<1>1. CASE FreeRequest
  BY <1>1 DEF FreeRequest
<1>2. CASE ReqUpAck
  BY <1>2 DEF ReqUpAck, AckIsHigh
<1>3. CASE AckUpDone
  BY <1>3 DEF AckUpDone
<1>4. CASE UNCHANGED <<sig, pli_req>>
  BY <1>4
<1>5. QED
  BY <1>1, <1>2, <1>3, <1>4 DEF vars, Next, Call, TestThread, SetTarget,
     SetOperands, StartRequest, WaitRequestDone, ReturnResult, Callback,
     SampleRequest, FreeNoRequest, ReqUpNoAck, AckUpStillAck, ClearRequest,
     TestBench, AgentAccept, AgentAck, AgentRelease

(* pli_req and pli_ack follow the four-phase protocol, and the operands hold *)
(* still while pli_req is up.                                                *)
THEOREM FourPhaseHandshake == Spec => FourPhase
<1>1. ChannelInv /\ [Next]_vars =>
        [/\ pli_req /\ pli_req' => sig' = sig
         /\ pli_req /\ ~pli_req' => pli_ack
         /\ ~pli_req /\ pli_req' => ~pli_ack /\ ~pli_ack']_<<sig, pli_req, pli_ack>>
  BY HandshakeStep
<1>2. QED
  BY <1>1, ChannelInvariant, PTL DEF Spec, FourPhase

-----------------------------------------------------------------------------
(* The channel implements RequestChannel, step by step, in the build whose *)
(* read ends the string it returns.                                        *)

LEMMA BlockingThreadStep ==
  ASSUME ChannelInv, ChannelInv', TestThread, Build = "GHDL_VPI"
  PROVE  [Blocking!Next]_(Blocking!vars)
<1> USE DEF ChannelInv, TypeOK, Phases, Blocking!vars, stage, Answered
<1>1. CASE SetTarget
  BY <1>1 DEF SetTarget
<1>2. CASE SetOperands
  BY <1>2 DEF SetOperands
<1>3. CASE StartRequest
  BY <1>3 DEF StartRequest
<1>4. CASE WaitRequestDone
  BY <1>4 DEF WaitRequestDone, RequestDone
<1>5. CASE ReturnResult
  <2>1. stage = "executed" /\ stage' = "idle"
    BY <1>5 DEF ReturnResult
  <2>2. Reading(op) => chan.data_out = pli_out
    BY <1>5 DEF ReturnResult, ResultSoFar, ReadBack
  <2>3. Blocking!Return
    BY <1>5, <2>1, <2>2 DEF ReturnResult, Blocking!Return
  <2>4. QED
    BY <2>3 DEF Blocking!Next
<1>6. QED
  BY <1>1, <1>2, <1>3, <1>4, <1>5 DEF TestThread

LEMMA BlockingCallStep ==
  ASSUME ChannelInv, NEW o \in Operation, Call(o)
  PROVE  Blocking!Next
<1>1. stage = "idle" /\ stage' = "called"
  BY DEF ChannelInv, TypeOK, Phases, stage, Answered, Call
<1>2. Blocking!Call(o)
  BY <1>1 DEF Call, Blocking!Call
<1>3. QED
  BY <1>2 DEF Blocking!Next

\* The call is executed when the agent answers: the only step of the simulator
\* that moves the mapped state.
LEMMA BlockingSimulatorStep ==
  ASSUME ChannelInv, Callback \/ TestBench
  PROVE  [Blocking!Next]_(Blocking!vars)
<1> USE DEF ChannelInv, TypeOK, Phases, Blocking!vars, stage, Answered
<1>1. CASE SampleRequest \/ FreeNoRequest \/ ReqUpNoAck \/ AckUpStillAck
  BY <1>1 DEF SampleRequest, FreeNoRequest, ReqUpNoAck, AckUpStillAck
<1>2. CASE FreeRequest \/ ReqUpAck \/ AckUpDone \/ ClearRequest
  BY <1>2 DEF FreeRequest, ReqUpAck, AckUpDone, ClearRequest, AckIsHigh, AckIsLow
<1>3. CASE AgentAccept \/ AgentRelease
  BY <1>3 DEF AgentAccept, AgentRelease
<1>4. CASE AgentAck
  <2>1. stage = "called" /\ stage' = "executed"
    BY <1>4 DEF AgentAck
  <2>2. Understood(sig) = op /\ sig.cmd = op.cmd
    BY <1>4 DEF AgentAck, OperandsOfTheCall, Understood
  <2>3. Blocking!Execute
    BY <1>4, <2>1, <2>2 DEF AgentAck, Reading, Blocking!Execute
  <2>4. QED
    BY <2>3 DEF Blocking!Next
<1>5. QED
  BY <1>1, <1>2, <1>3, <1>4 DEF Callback, TestBench

LEMMA BlockingStep ==
  ASSUME ChannelInv, ChannelInv', [Next]_vars, Build = "GHDL_VPI"
  PROVE  [Blocking!Next]_(Blocking!vars)
<1>1. CASE UNCHANGED vars
  BY <1>1 DEF vars, Blocking!vars, stage, Answered
<1>2. CASE \E o \in Operation : Call(o)
  BY <1>2, BlockingCallStep
<1>3. QED
  BY <1>1, <1>2, BlockingThreadStep, BlockingSimulatorStep DEF Next

\* Every call of a function of PliComplianceLib is executed once, with its own
\* operands, before it returns, and a call that reads returns the answer to it:
\* the safety part of ImplementsBlockingCalls.
THEOREM CallsAreBlocking ==
  ASSUME Build = "GHDL_VPI"
  PROVE  Spec => Blocking!Init /\ [][Blocking!Next]_(Blocking!vars)
<1>1. Init => Blocking!Init
  BY DEF Init, Blocking!Init, stage
<1>2. ChannelInv /\ ChannelInv' /\ [Next]_vars => [Blocking!Next]_(Blocking!vars)
  BY BlockingStep, Build = "GHDL_VPI"
<1>3. QED
  BY <1>1, <1>2, ChannelInvariant, PTL DEF Spec
=============================================================================
