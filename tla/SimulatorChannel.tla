-------------------------- MODULE SimulatorChannel --------------------------
(***************************************************************************)
(* The shared-memory channel between the test thread and the simulator:    *)
(* PliComplianceLib fills the fields of "simulator_channel" and polls its  *)
(* "req" flag, the pli_clk callback (simulator context) walks the          *)
(* FREE / REQ_UP / ACK_UP automaton, and the test bench answers the        *)
(* pli_req / pli_ack handshake.                                            *)
(*                                                                         *)
(* The test thread and the simulator interleave between any two of the     *)
(* steps below.  The simulator itself is single-threaded: agents do not    *)
(* move while a callback is executing.                                     *)
(***************************************************************************)
EXTENDS Naturals

CONSTANTS
  Cmd,          \* commands: a PLI destination with a PLI command
  Reads,        \* commands that set read_access
  WithDataIn,   \* commands that fill pli_data_in
  WithDataIn2,  \* commands that fill pli_data_in_2
  WithMessage,  \* commands that set use_msg_data and fill pli_message_data
  Data,         \* operand values
  Answer,       \* values the agents can answer on pli_data_out
  Garbage,      \* text that follows an answer that was copied without a NUL
  None,         \* an empty field: no operand, no answer
  Build         \* PLI_KIND the library was compiled for

ASSUME CommandAssumption ==
  /\ Reads \subseteq Cmd
  /\ WithDataIn \subseteq Cmd
  /\ WithDataIn2 \subseteq Cmd
  /\ WithMessage \subseteq Cmd

ASSUME ValueAssumption ==
  /\ None \notin Data \cup Answer \cup Cmd
  /\ Garbage \notin Answer \cup {None}

ASSUME BuildAssumption == Build \in {"GHDL_VPI", "VCS_VHPI", "NVC_VHPI"}

VARIABLES
  pc,        \* test thread: where it is in a PliComplianceLib function
  op,        \* test thread: the call it is making, with the caller's operands
  answer,    \* test thread: the value its latest reading call returned
  chan,      \* the plain fields of simulator_channel
  req,       \* simulator_channel.req
  fsm,       \* simulator_channel.fsm
  cb,        \* the pli_clk callback: "out", "sampled" or "clear"
  cb_req,    \* the callback's local copy of req
  sig,       \* the operand signals of the test bench
  pli_req,   \* handshake signal, driven by the callback
  pli_ack,   \* handshake signal, driven by the test bench
  pli_out,   \* pli_data_out, driven by the test bench
  busy,      \* an agent is executing the command
  executed   \* the operation executed last, as the agent understood it

threadVars == <<pc, op, answer>>
signalVars == <<sig, pli_req, pli_ack, pli_out>>
agentVars  == <<busy, executed>>
vars == <<pc, op, answer, chan, req, fsm, cb, cb_req,
          sig, pli_req, pli_ack, pli_out, busy, executed>>

-----------------------------------------------------------------------------
(* Operations and operands.                                                *)

\* A call: its command and the operands that command takes.
Operation ==
  {o \in [cmd : Cmd, data_in : Data \cup {None},
          data_in_2 : Data \cup {None}, message : Data \cup {None}] :
     /\ (o.data_in # None) <=> (o.cmd \in WithDataIn)
     /\ (o.data_in_2 # None) <=> (o.cmd \in WithDataIn2)
     /\ (o.message # None) <=> (o.cmd \in WithMessage)}

Reading(o) == o.cmd \in Reads

\* The operation an agent finds on the signals: it looks at the operands of
\* the command it was sent and at no others.
Understood(s) ==
  [cmd       |-> s.cmd,
   data_in   |-> IF s.cmd \in WithDataIn THEN s.data_in ELSE None,
   data_in_2 |-> IF s.cmd \in WithDataIn2 THEN s.data_in_2 ELSE None,
   message   |-> IF s.cmd \in WithMessage THEN s.message ELSE None]

\* What std::string(pli_read_data) holds after pli_read_str_value.  strcpy ends
\* the value with a NUL, the memcpy of the VHPI builds does not: the string then
\* runs on over the uninitialised rest of the buffer, whatever that holds.
ReadBack(v) == IF Build = "GHDL_VPI" THEN {v} ELSE {v, Garbage}

-----------------------------------------------------------------------------
Init ==
  /\ pc = "idle" /\ op = None /\ answer = None
  /\ chan = [cmd |-> None, data_in |-> None, data_in_2 |-> None,
             message |-> None, data_out |-> None,
             read_access |-> FALSE, use_msg_data |-> FALSE]
  /\ req = FALSE
  /\ fsm = "FREE"
  /\ cb = "out" /\ cb_req = FALSE
  /\ sig = [cmd |-> None, data_in |-> None, data_in_2 |-> None,
            message |-> None]
  /\ pli_req = FALSE /\ pli_ack = FALSE /\ pli_out = None
  /\ busy = FALSE /\ executed = None

-----------------------------------------------------------------------------
(* Test thread: one function of PliComplianceLib.                          *)

\* (mutant: a reading call that does not set read_access)
FillFlagsNoRead(c, o) == [c EXCEPT !.use_msg_data = o.cmd \in WithMessage]

FillFlags(c, o) == [c EXCEPT !.read_access = Reading(o),
                             !.use_msg_data = o.cmd \in WithMessage]

\* Entering a function: it stores the two flags first.
Call(o) ==
  /\ pc = "idle"
  /\ pc' = "target"
  /\ op' = o
  /\ chan' = FillFlags(chan, o)
  /\ UNCHANGED <<answer, req, fsm, cb, cb_req, signalVars, agentVars>>

\* pli_dest and pli_cmd.
\* (mutant: req is raised before the operands are stored)
SetTargetAndRequest ==
  /\ pc = "target"
  /\ pc' = "operands"
  /\ chan' = [chan EXCEPT !.cmd = op.cmd]
  /\ req' = TRUE
  /\ UNCHANGED <<op, answer, fsm, cb, cb_req, signalVars, agentVars>>

SetTarget ==
  /\ pc = "target"
  /\ pc' = "operands"
  /\ chan' = [chan EXCEPT !.cmd = op.cmd]
  /\ UNCHANGED <<op, answer, req, fsm, cb, cb_req, signalVars, agentVars>>

\* (mutant: pli_data_in_2 is forgotten)
FillOperandsOnly1(c, o) ==
  [c EXCEPT !.data_in = IF o.cmd \in WithDataIn THEN o.data_in ELSE @,
            !.message = IF o.cmd \in WithMessage THEN o.message ELSE @]

\* The operands of this command; the other fields keep what an earlier call
\* left in them.
FillOperands(c, o) ==
  [c EXCEPT !.data_in   = IF o.cmd \in WithDataIn THEN o.data_in ELSE @,
            !.data_in_2 = IF o.cmd \in WithDataIn2 THEN o.data_in_2 ELSE @,
            !.message   = IF o.cmd \in WithMessage THEN o.message ELSE @]

SetOperands ==
  /\ pc = "operands"
  /\ pc' = "start"
  /\ chan' = FillOperands(chan, op)
  /\ UNCHANGED <<op, answer, req, fsm, cb, cb_req, signalVars, agentVars>>

StartRequest ==
  /\ pc = "start"
  /\ pc' = "wait"
  /\ req' = TRUE
  /\ UNCHANGED <<op, answer, chan, fsm, cb, cb_req, signalVars, agentVars>>

\* (mutant: the function does not wait)
RequestDoneAtOnce == TRUE

RequestDone == ~req

WaitRequestDone ==
  /\ pc = "wait"
  /\ RequestDone
  /\ pc' = "result"
  /\ UNCHANGED <<op, answer, chan, req, fsm, cb, cb_req, signalVars, agentVars>>

\* Reading calls convert pli_data_out to the value they return.
ReturnResult ==
  /\ pc = "result"
  /\ pc' = "idle"
  /\ answer' = IF Reading(op) THEN chan.data_out ELSE answer
  /\ UNCHANGED <<op, chan, req, fsm, cb, cb_req, signalVars, agentVars>>

TestThread ==
  \/ SetTarget \/ SetOperands \/ StartRequest
  \/ WaitRequestDone \/ ReturnResult

-----------------------------------------------------------------------------
(* Simulator context: ProcessPliClkCallback.                               *)

\* (mutants: an edge of pli_ack is not waited for)
AckIsHighAtOnce == TRUE
AckIsLowAtOnce  == TRUE

AckIsHigh == pli_ack
AckIsLow  == ~pli_ack

\* (mutant: the callback keeps its old copy of req)
SampleNothing ==
  /\ cb = "out"
  /\ cb' = "sampled"
  /\ UNCHANGED <<threadVars, chan, req, fsm, cb_req, signalVars, agentVars>>

SampleRequest ==
  /\ cb = "out"
  /\ cb' = "sampled"
  /\ cb_req' = req
  /\ UNCHANGED <<threadVars, chan, req, fsm, signalVars, agentVars>>

FreeNoRequest ==
  /\ cb = "sampled" /\ fsm = "FREE" /\ ~cb_req
  /\ cb' = "out"
  /\ UNCHANGED <<threadVars, chan, req, fsm, cb_req, signalVars, agentVars>>

\* Drives the operands, then pli_req; the simulator runs on only afterwards.
FreeRequest ==
  /\ cb = "sampled" /\ fsm = "FREE" /\ cb_req
  /\ sig' = [cmd       |-> chan.cmd,
             data_in   |-> chan.data_in,
             data_in_2 |-> chan.data_in_2,
             message   |-> IF chan.use_msg_data THEN chan.message
                                                ELSE sig.message]
  /\ pli_req' = TRUE
  /\ fsm' = "REQ_UP"
  /\ cb' = "out"
  /\ UNCHANGED <<threadVars, chan, req, cb_req, pli_ack, pli_out, agentVars>>

ReqUpNoAck ==
  /\ cb = "sampled" /\ fsm = "REQ_UP" /\ ~AckIsHigh
  /\ cb' = "out"
  /\ UNCHANGED <<threadVars, chan, req, fsm, cb_req, signalVars, agentVars>>

ReqUpAck ==
  /\ cb = "sampled" /\ fsm = "REQ_UP" /\ AckIsHigh
  /\ \E text \in ReadBack(pli_out) :
       chan' = IF chan.read_access THEN [chan EXCEPT !.data_out = text] ELSE chan
  /\ pli_req' = FALSE
  /\ fsm' = "ACK_UP"
  /\ cb' = "out"
  /\ UNCHANGED <<threadVars, req, cb_req, sig, pli_ack, pli_out, agentVars>>

AckUpStillAck ==
  /\ cb = "sampled" /\ fsm = "ACK_UP" /\ ~AckIsLow
  /\ cb' = "out"
  /\ UNCHANGED <<threadVars, chan, req, fsm, cb_req, signalVars, agentVars>>

\* fsm becomes FREE before req is cleared: the test thread sees req only.
AckUpDone ==
  /\ cb = "sampled" /\ fsm = "ACK_UP" /\ AckIsLow
  /\ pli_req' = FALSE
  /\ fsm' = "FREE"
  /\ cb' = "clear"
  /\ UNCHANGED <<threadVars, chan, req, cb_req, sig, pli_ack, pli_out, agentVars>>

ClearRequest ==
  /\ cb = "clear"
  /\ req' = FALSE
  /\ cb' = "out"
  /\ UNCHANGED <<threadVars, chan, fsm, cb_req, signalVars, agentVars>>

Callback ==
  \/ SampleRequest
  \/ FreeNoRequest \/ FreeRequest
  \/ ReqUpNoAck \/ ReqUpAck
  \/ AckUpStillAck \/ AckUpDone
  \/ ClearRequest

-----------------------------------------------------------------------------
(* Test bench, between two callbacks (external).                           *)

\* The agent selected by pli_dest starts the command.
AgentAccept ==
  /\ cb = "out"
  /\ pli_req /\ ~pli_ack /\ ~busy
  /\ busy' = TRUE
  /\ UNCHANGED <<threadVars, chan, req, fsm, cb, cb_req, signalVars, executed>>

\* It finishes it, at once or, for a "wait finish", a long time later.
AgentAck ==
  /\ cb = "out"
  /\ busy
  /\ busy' = FALSE
  /\ executed' = Understood(sig)
  /\ IF sig.cmd \in Reads THEN pli_out' \in Answer ELSE UNCHANGED pli_out
  /\ pli_ack' = TRUE
  /\ UNCHANGED <<threadVars, chan, req, fsm, cb, cb_req, sig, pli_req>>

AgentRelease ==
  /\ cb = "out"
  /\ pli_ack /\ ~pli_req
  /\ pli_ack' = FALSE
  /\ UNCHANGED <<threadVars, chan, req, fsm, cb, cb_req, sig, pli_req, pli_out,
                 agentVars>>

TestBench == AgentAccept \/ AgentAck \/ AgentRelease

-----------------------------------------------------------------------------
Next ==
  \/ \E o \in Operation : Call(o)
  \/ TestThread
  \/ Callback
  \/ TestBench

\* The operating system runs the thread and the simulator toggles pli_clk for
\* as long as the simulation runs.  An agent moves only between callbacks, so
\* that it is not starved by them takes strong fairness; that it answers every
\* command is what the test bench promises.
Fairness ==
  /\ WF_vars(TestThread)
  /\ WF_vars(Callback)
  /\ SF_vars(AgentAccept)
  /\ SF_vars(AgentAck)
  /\ SF_vars(AgentRelease)

Spec == Init /\ [][Next]_vars /\ Fairness

-----------------------------------------------------------------------------
(* Properties.                                                             *)

Field == Data \cup {None}

SignalValue == [cmd : Cmd \cup {None}, data_in : Field, data_in_2 : Field,
                message : Field]

ChannelValue ==
  [cmd : Cmd \cup {None}, data_in : Field, data_in_2 : Field, message : Field,
   data_out : Answer \cup {None, Garbage},
   read_access : BOOLEAN, use_msg_data : BOOLEAN]

\* Types of the variables; once the thread is inside a function, op is a call.
TypeOK ==
  /\ pc \in {"idle", "target", "operands", "start", "wait", "result"}
  /\ op \in Operation \cup {None}
  /\ pc # "idle" => op \in Operation
  /\ answer \in Answer \cup {None, Garbage}
  /\ chan \in ChannelValue
  /\ req \in BOOLEAN
  /\ fsm \in {"FREE", "REQ_UP", "ACK_UP"}
  /\ cb \in {"out", "sampled", "clear"}
  /\ cb_req \in BOOLEAN
  /\ sig \in SignalValue
  /\ pli_req \in BOOLEAN
  /\ pli_ack \in BOOLEAN
  /\ pli_out \in Answer \cup {None}
  /\ busy \in BOOLEAN
  /\ executed \in Operation \cup {None}

\* A request never meets the leftovers of an earlier one: while req is down
\* the automaton is FREE, both handshake signals are down and no agent is busy
\* (SimulatorChannel.cpp, AckUpDone before ClearRequest).
QuietBetweenRequests ==
  ~req => fsm = "FREE" /\ ~pli_req /\ ~pli_ack /\ ~busy

\* The test bench sees the operands of the call being made, although the fields
\* of the channel and the signals keep whatever earlier calls left in them.
OperandsOfTheCall == pli_req => Understood(sig) = op

\* When the thread stops waiting, its own operation is the one executed last
\* and, if it reads, pli_data_out of the channel is what reading the agent's
\* answer to it gives (the answer itself in the builds that terminate it).
ResultOfTheCall ==
  pc = "result" =>
    /\ executed = op
    /\ Reading(op) => chan.data_out \in ReadBack(pli_out)

\* The phases of the handshake: which values req, the automaton and the signals
\* can have together (switch of ProcessPliClkCallback).
Phases ==
  /\ req => pc = "wait"
  /\ fsm = "FREE" => ~pli_req /\ ~pli_ack /\ ~busy
  /\ fsm = "REQ_UP" => pli_req /\ req
  /\ fsm = "ACK_UP" => ~pli_req /\ ~busy /\ req
  /\ busy => ~pli_ack
  /\ cb = "clear" => fsm = "FREE" /\ req
  /\ cb = "sampled" /\ cb_req => req

\* The fields hold the call's operands once the thread has stored them.
FieldsOfTheCall ==
  /\ pc # "idle" => /\ chan.read_access = Reading(op)
                    /\ chan.use_msg_data = (op.cmd \in WithMessage)
  /\ pc \in {"operands", "start", "wait", "result"} => chan.cmd = op.cmd
  /\ pc \in {"start", "wait", "result"} => Understood(chan) = op

\* The call has been executed and its result copied: from pli_ack on, and from
\* the callback's read of pli_data_out on.
Answered == pc \in {"wait", "result"} /\ (fsm = "ACK_UP" \/ cb = "clear" \/ ~req)

ResultSoFar ==
  /\ Answered \/ pli_ack => executed = op
  /\ Answered /\ Reading(op) => chan.data_out \in ReadBack(pli_out)

\* The inductive invariant of the channel.
ChannelInv ==
  TypeOK /\ Phases /\ FieldsOfTheCall /\ OperandsOfTheCall /\ ResultSoFar

\* The simulator reads the fields of the channel while req is up: the thread
\* does not touch them then, and only the automaton writes pli_data_out.
FieldsStableWhileRequested ==
  [][req => /\ chan' = [chan EXCEPT !.data_out = chan'.data_out]
            /\ chan'.data_out # chan.data_out => fsm = "REQ_UP"]_chan

\* Four-phase handshake as the test bench relies on it: operands hold still
\* while pli_req is up, pli_req falls only after pli_ack and rises only after
\* pli_ack is down again.
FourPhase ==
  [][/\ pli_req /\ pli_req' => sig' = sig
     /\ pli_req /\ ~pli_req' => pli_ack
     /\ ~pli_req /\ pli_req' => ~pli_ack /\ ~pli_ack']_<<sig, pli_req, pli_ack>>

\* Functions of PliComplianceLib are blocking but return.
CallsReturn == (pc # "idle") ~> (pc = "idle")

\* The channel gives every call what a blocking call promises: executed once,
\* with its operands, before it returns, and its own answer returned.
stage ==
  IF pc = "idle" THEN "idle"
  ELSE IF Answered \/ pli_ack THEN "executed" ELSE "called"

Blocking == INSTANCE RequestChannel WITH result <- pli_out

ImplementsBlockingCalls == Blocking!Spec

\* What SimulatorChannel.hpp says of a read request: the thread reads the value
\* "which were returned by simulator on pli_data_out".
ReadReturnsTheAnswer == answer \in Answer \cup {None}
=============================================================================
