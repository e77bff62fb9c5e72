------------------------- MODULE SimulatorInterface -------------------------
(***************************************************************************)
(* How the simulator and the test thread come together and apart: the      *)
(* library registers its callbacks, the test bench asks for control, the   *)
(* callback hands it over by starting a test thread, the pli_clk callback  *)
(* serves the thread's requests, and the last of them ends the simulation. *)
(*                                                                         *)
(* The steps of the simulator and its callbacks are atomic to one another  *)
(* (one simulator thread); the test threads interleave with them.          *)
(***************************************************************************)
EXTENDS Naturals, Sequences

CONSTANTS
  Name,         \* names of tests the test bench can ask for
  None,         \* no name: the cleared buffer
  Build,        \* PLI_KIND the library was compiled for
  MaxRequests   \* bound: requests of a test before TestControllerAgentEndTest

ASSUME NameAssumption == None \notin Name
ASSUME KindAssumption == Build \in {"GHDL_VPI", "VCS_VHPI", "NVC_VHPI"}
ASSUME RequestsAssumption == MaxRequests \in Nat

VARIABLES
  sim,          \* "elaborating", "registered", "running" or "ended"
  callbacks,    \* value change callbacks in the order they were registered
  dead,         \* callbacks the simulator no longer calls
  handles,      \* the cached handles of pli_handle_manager, as a list of signals
  asked,        \* the test the test bench asks for
  control_req, control_gnt,  \* handover signals
  changed,      \* control_req has changed, its callback is still to be called
  test_name,    \* the buffer shared with the test thread
  threads,      \* test threads started so far, by RunCppTest
  req,          \* simulator_channel.req, with what is requested
  test_end      \* the test bench has been told that the test is over

simVars    == <<sim, callbacks, dead, handles>>
tbVars     == <<asked, control_req, control_gnt, changed, test_end>>
threadVars == <<test_name, threads, req>>
vars == <<simVars, tbVars, threadVars>>

Signals == {"pli_clk", "pli_control_req", "pli_control_gnt", "pli_test_name_array"}

Init ==
  /\ sim = "elaborating" /\ callbacks = <<>> /\ dead = {} /\ handles = <<>>
  /\ asked \in Name
  /\ control_req = FALSE /\ control_gnt = FALSE /\ changed = FALSE
  /\ test_name = None /\ threads = <<>> /\ req = "none"
  /\ test_end = FALSE

-----------------------------------------------------------------------------
(* Handle manager.                                                         *)

\* (mutant: the loop over the list ends before its last entry is compared)
NotLast(list) == {list[i] : i \in 1 .. Len(list) - 1}

Found(list) == {list[i] : i \in 1 .. Len(list)}

\* hman_get_ctu_vip_net_handle: a signal not in the list is appended to it.
Cached(list, signal) ==
  IF signal \in Found(list) THEN list ELSE Append(list, signal)

-----------------------------------------------------------------------------
(* Simulator context.                                                      *)

HandleRegister ==
  /\ sim = "elaborating"
  /\ sim' = "registered"
  /\ UNCHANGED <<callbacks, dead, handles, tbVars, threadVars>>

\* (mutant: the control request is registered first)
ControlFirst == <<"pli_control_req", "pli_clk">>

RegistrationOrder == <<"pli_clk", "pli_control_req">>

StartOfSim ==
  /\ sim = "registered"
  /\ sim' = "running"
  /\ callbacks' = RegistrationOrder
  /\ handles' = Cached(Cached(handles, callbacks'[1]), callbacks'[2])
  /\ UNCHANGED <<dead, tbVars, threadVars>>

Registered(cb) == \E i \in 1 .. Len(callbacks) : callbacks[i] = cb
Alive(cb) == sim = "running" /\ Registered(cb) /\ cb \notin dead

\* The comment of pli_start_of_sim: in NVC a callback registered after the one
\* for the control request stops working once that one is called.
KilledByControlReq ==
  IF Build # "NVC_VHPI" THEN {}
  ELSE {callbacks[i] : i \in {j \in 1 .. Len(callbacks) :
          \E k \in 1 .. j - 1 : callbacks[k] = "pli_control_req"}}

NewThread == [state |-> "spawned", test |-> None, left |-> MaxRequests]

\* Control is granted, the name fetched, and a thread started with a pointer to
\* the buffer.
PassControl ==
  /\ control_gnt' = TRUE
  /\ test_name' = asked
  /\ threads' = Append(threads, NewThread)

KeepControl == UNCHANGED <<control_gnt, test_name, threads>>

\* (mutant: the value of the request is not looked at)
OnAnyChange == PassControl

\* (mutant: the buffer is cleared before the value is looked at)
OnChangeClearFirst ==
  IF control_req THEN PassControl
  ELSE test_name' = None /\ UNCHANGED <<control_gnt, threads>>

OnControlReq == IF control_req THEN PassControl ELSE KeepControl

SwControlReqCallback ==
  /\ Alive("pli_control_req") /\ changed
  /\ changed' = FALSE
  /\ dead' = dead \cup KilledByControlReq
  /\ handles' =
       LET read == Cached(handles, "pli_control_req")
       IN  IF control_req
           THEN Cached(Cached(read, "pli_control_gnt"), "pli_test_name_array")
           ELSE read
  /\ OnControlReq
  /\ UNCHANGED <<sim, callbacks, asked, control_req, test_end, req>>

\* The whole handshake of a request, of which SimulatorChannel gives the steps.
PliClkCallback ==
  /\ Alive("pli_clk") /\ req # "none"
  /\ req' = "none"
  /\ test_end' = (test_end \/ req = "end_test")
  /\ UNCHANGED <<simVars, asked, control_req, control_gnt, changed, test_name,
                 threads>>

\* The handles are freed.
EndOfSim ==
  /\ sim = "running" /\ test_end
  /\ sim' = "ended" /\ handles' = <<>>
  /\ UNCHANGED <<callbacks, dead, tbVars, threadVars>>

-----------------------------------------------------------------------------
(* Test controller agent of the test bench (external).                     *)

RequestControl ==
  /\ sim = "running" /\ ~control_req /\ ~control_gnt
  /\ control_req' = TRUE /\ changed' = TRUE
  /\ UNCHANGED <<simVars, asked, control_gnt, test_end, threadVars>>

DropControlRequest ==
  /\ sim = "running" /\ control_req /\ control_gnt /\ ~changed
  /\ control_req' = FALSE /\ changed' = TRUE
  /\ UNCHANGED <<simVars, asked, control_gnt, test_end, threadVars>>

-----------------------------------------------------------------------------
(* Test threads: cppTestThread.                                            *)

\* ConstructTestObject reads the name through the pointer, in the thread.
ConstructTest(i) ==
  /\ threads[i].state = "spawned"
  /\ threads' = [threads EXCEPT ![i].state = "running", ![i].test = test_name]
  /\ UNCHANGED <<simVars, tbVars, test_name, req>>

\* A request of Run; the last of all is TestControllerAgentEndTest.
StartRequest(i) ==
  /\ threads[i].state = "running" /\ req = "none"
  /\ IF threads[i].left = 0
     THEN /\ req' = "end_test"
          /\ threads' = [threads EXCEPT ![i].state = "ending"]
     ELSE /\ req' = "command"
          /\ threads' = [threads EXCEPT ![i].state = "waiting", ![i].left = @ - 1]
  /\ UNCHANGED <<simVars, tbVars, test_name>>

WaitRequestDone(i) ==
  /\ threads[i].state \in {"waiting", "ending"} /\ req = "none"
  /\ threads' = [threads EXCEPT ![i].state =
                   IF @ = "ending" THEN "finished" ELSE "running"]
  /\ UNCHANGED <<simVars, tbVars, test_name, req>>

-----------------------------------------------------------------------------
Simulator == HandleRegister \/ StartOfSim \/ SwControlReqCallback \/ EndOfSim

TestBench == RequestControl \/ DropControlRequest

Thread(i) == ConstructTest(i) \/ StartRequest(i) \/ WaitRequestDone(i)

Next ==
  \/ Simulator \/ PliClkCallback \/ TestBench
  \/ \E i \in 1 .. Len(threads) : Thread(i)

\* The simulator goes on calling what it has registered, the test bench asks
\* for control, and the system schedules the test thread.
Fairness ==
  /\ WF_vars(Simulator) /\ WF_vars(PliClkCallback) /\ WF_vars(TestBench)
  /\ WF_vars(\E i \in 1 .. Len(threads) : Thread(i))

Spec == Init /\ [][Next]_vars /\ Fairness

-----------------------------------------------------------------------------
(* Properties.                                                             *)

\* A handle is fetched from the simulator once: the list holds no signal twice.
HandlesOnce ==
  \A i, j \in 1 .. Len(handles) : handles[i] = handles[j] => i = j

\* Types, and the cache holds no handle twice: it is searched to its last entry.
TypeOK ==
  /\ sim \in {"elaborating", "registered", "running", "ended"}
  /\ callbacks \in {<<>>, RegistrationOrder}
  /\ dead \subseteq {"pli_clk", "pli_control_req"}
  /\ handles \in Seq(Signals) /\ HandlesOnce
  /\ asked \in Name /\ test_name \in Name \cup {None}
  /\ control_req \in BOOLEAN /\ control_gnt \in BOOLEAN /\ changed \in BOOLEAN
  /\ threads \in Seq([state : {"spawned", "running", "waiting", "ending", "finished"},
                      test : Name \cup {None}, left : 0 .. MaxRequests])
  /\ req \in {"none", "command", "end_test"}
  /\ test_end \in BOOLEAN

\* The handover happens once: dropping the request again starts no second test
\* on the one channel to the simulator.
OneTestThread == Len(threads) <= 1

\* The test thread constructs the test the test bench asked for, though it
\* reads the shared buffer later, while the simulator goes on.
RightTest ==
  \A i \in 1 .. Len(threads) : threads[i].state # "spawned" => threads[i].test = asked

\* Once control has been passed the pli_clk callback still works, or the
\* requests of the test would never be served.
ClockSurvivesHandover == control_gnt /\ sim = "running" => Alive("pli_clk")

\* A simulation that asks for control is given back an end of test.
TestEnds == control_req ~> (sim = "ended")
=============================================================================
