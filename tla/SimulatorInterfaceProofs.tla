---------------------- MODULE SimulatorInterfaceProofs ----------------------
(***************************************************************************)
(* Proofs about SimulatorInterface, for every set of tests, every simulator*)
(* it is built for and any number of requests of a test.                   *)
(***************************************************************************)
EXTENDS SimulatorInterface, TLAPS

USE NameAssumption, KindAssumption, RequestsAssumption

State == {"spawned", "running", "waiting", "ending", "finished"}
ThreadRec == [state : State, test : Name \cup {None}, left : 0 .. MaxRequests]

\* A list of at most one thread, which runs the test asked for.
Started(list) ==
  /\ list = <<>> \/ (list \in Seq(ThreadRec) /\ Len(list) = 1 /\ list[1] \in ThreadRec)
  /\ list # <<>> => (list[1].state # "spawned" => list[1].test = asked)

\* The handover as a whole: the request is looked at once, one thread is
\* started by it, and the buffer keeps the name from then on.
HandoverInv ==
  /\ control_gnt = (threads # <<>>)
  /\ control_gnt => test_name = asked /\ ~(control_req /\ changed)
  /\ asked \in Name /\ test_name \in Name \cup {None}
  /\ Started(threads)

\* pli_clk was registered before pli_control_req, so nothing has died.
ClockInv ==
  /\ callbacks \in {<<>>, RegistrationOrder}
  /\ sim = "running" => callbacks = RegistrationOrder
  /\ dead = {}

LEMMA InitHandover == Init => HandoverInv /\ ClockInv
<1> SUFFICES ASSUME Init PROVE HandoverInv /\ ClockInv
  OBVIOUS
<1>1. HandoverInv
  BY DEF Init, HandoverInv, Started
<1>2. ClockInv
  BY DEF Init, ClockInv
<1>3. QED
  BY <1>1, <1>2

\* Steps that leave threads, buffer and request alone keep the handover.
LEMMA CallbackHandover ==
  ASSUME HandoverInv, ClockInv, SwControlReqCallback
  PROVE  HandoverInv'
<1>1. CASE control_req
  <2>1. ~control_gnt /\ threads = <<>>
    BY <1>1 DEF SwControlReqCallback, HandoverInv
  <2>2. threads' = Append(<<>>, NewThread) /\ test_name' = asked /\ control_gnt' = TRUE
    BY <1>1, <2>1 DEF SwControlReqCallback, OnControlReq, PassControl
  <2>3. NewThread \in ThreadRec /\ NewThread.state = "spawned"
    BY DEF NewThread, ThreadRec, State
  <2>4. threads' \in Seq(ThreadRec) /\ Len(threads') = 1 /\ threads'[1] = NewThread
    BY <2>2, <2>3
  <2>5. threads' # <<>> /\ threads'[1].state = "spawned" /\ threads'[1] \in ThreadRec
    <3>1. threads'[1].state = "spawned" /\ threads'[1] \in ThreadRec
      BY <2>3, <2>4, Zenon
    <3>2. threads' # <<>>
      BY <2>2
    <3>3. QED
      BY <3>1, <3>2
  <2>6. Started(threads)'
    BY <2>4, <2>5 DEF Started
  <2>7. changed' = FALSE /\ asked' = asked /\ asked \in Name
    BY DEF SwControlReqCallback, HandoverInv
  <2>8. QED
    BY <2>2, <2>5, <2>6, <2>7 DEF HandoverInv
<1>2. CASE ~control_req
  <2>1. UNCHANGED <<threads, test_name, control_gnt, asked, control_req>> /\ changed' = FALSE
    BY <1>2 DEF SwControlReqCallback, OnControlReq, KeepControl
  <2>2. QED
    BY <2>1 DEF HandoverInv, Started
<1>3. QED
  BY <1>1, <1>2

\* A test thread constructs its test from the buffer, which holds its name.
LEMMA ThreadHandover ==
  ASSUME HandoverInv, NEW i \in 1 .. Len(threads), Thread(i)
  PROVE  HandoverInv'
<1>1. threads # <<>>
  OBVIOUS
<1>a. /\ control_gnt = TRUE /\ Len(threads) = 1 /\ test_name = asked /\ i = 1
      /\ threads \in Seq(ThreadRec) /\ threads[1] \in ThreadRec
      /\ threads[1].state # "spawned" => threads[1].test = asked
  <2>1. control_gnt = TRUE
    BY <1>1, Zenon DEF HandoverInv
  <2>2. /\ Len(threads) = 1
        /\ threads \in Seq(ThreadRec) /\ threads[1] \in ThreadRec
        /\ threads[1].state # "spawned" => threads[1].test = asked
    BY <1>1, Zenon DEF HandoverInv, Started
  <2>3. test_name = asked
    BY <2>1, Zenon DEF HandoverInv
  <2>4. i = 1
    BY <2>2
  <2>5. QED
    BY <2>1, <2>2, <2>3, <2>4
<1>2. UNCHANGED <<test_name, control_gnt, asked, control_req, changed>>
  BY DEF Thread, ConstructTest, StartRequest, WaitRequestDone, simVars, tbVars
<1>3. \E t \in ThreadRec : /\ threads' = [threads EXCEPT ![i] = t]
                           /\ t.state # "spawned" => t.test = asked
  <2>1. CASE ConstructTest(i)
    <3> DEFINE t == [threads[1] EXCEPT !.state = "running", !.test = test_name]
    <3>1. t \in ThreadRec /\ t.test = asked
      BY <1>a DEF ThreadRec, State, HandoverInv
    <3>2. threads' = [threads EXCEPT ![i] = t]
      BY <1>a, <2>1 DEF ConstructTest
    <3>3. QED
      BY <3>1, <3>2
  <2>2. CASE StartRequest(i)
    <3>1. CASE threads[1].left = 0
      <4> DEFINE t == [threads[1] EXCEPT !.state = "ending"]
      <4>1. t \in ThreadRec /\ t.test = asked
        BY <1>a, <2>2 DEF ThreadRec, State, HandoverInv, StartRequest
      <4>2. threads' = [threads EXCEPT ![i] = t]
        BY <1>a, <2>2, <3>1 DEF StartRequest
      <4>3. QED
        BY <4>1, <4>2
    <3>2. CASE threads[1].left # 0
      <4> DEFINE t == [threads[1] EXCEPT !.state = "waiting", !.left = @ - 1]
      <4>1. t \in ThreadRec /\ t.test = asked
        BY <1>a, <2>2, <3>2 DEF ThreadRec, State, HandoverInv, StartRequest
      <4>2. threads' = [threads EXCEPT ![i] = t]
        BY <1>a, <2>2, <3>2 DEF StartRequest
      <4>3. QED
        BY <4>1, <4>2
    <3>3. QED
      BY <3>1, <3>2
  <2>3. CASE WaitRequestDone(i)
    <3> DEFINE t == [threads[1] EXCEPT !.state =
                       IF @ = "ending" THEN "finished" ELSE "running"]
    <3>1. t \in ThreadRec /\ t.test = asked
      BY <1>a, <2>3 DEF ThreadRec, State, HandoverInv, WaitRequestDone
    <3>2. threads' = [threads EXCEPT ![i] = t]
      BY <1>a, <2>3 DEF WaitRequestDone
    <3>3. QED
      BY <3>1, <3>2
  <2>4. QED
    BY <2>1, <2>2, <2>3 DEF Thread
<1>4. PICK t \in ThreadRec : /\ threads' = [threads EXCEPT ![i] = t]
                             /\ t.state # "spawned" => t.test = asked
  BY <1>3
<1>5. threads' \in Seq(ThreadRec) /\ Len(threads') = 1 /\ threads'[1] = t
  BY <1>a, <1>4
<1>6. threads' # <<>>
  BY <1>5
<1>7. Started(threads)'
  BY <1>2, <1>4, <1>5 DEF Started
<1>8. QED
  BY <1>1, <1>2, <1>6, <1>7 DEF HandoverInv

LEMMA NextHandover == HandoverInv /\ ClockInv /\ [Next]_vars => HandoverInv'
<1> SUFFICES ASSUME HandoverInv, ClockInv, [Next]_vars PROVE HandoverInv'
  OBVIOUS
<1>1. CASE HandleRegister \/ StartOfSim \/ EndOfSim
  BY <1>1 DEF HandleRegister, StartOfSim, EndOfSim, tbVars, threadVars, HandoverInv, Started
<1>2. CASE SwControlReqCallback
  BY <1>2, CallbackHandover
<1>3. CASE PliClkCallback
  BY <1>3 DEF PliClkCallback, HandoverInv, Started
<1>4. CASE TestBench
  BY <1>4 DEF TestBench, RequestControl, DropControlRequest, threadVars, HandoverInv, Started
<1>5. CASE \E i \in 1 .. Len(threads) : Thread(i)
  BY <1>5, ThreadHandover
<1>6. CASE UNCHANGED vars
  BY <1>6 DEF vars, tbVars, threadVars, HandoverInv, Started
<1>7. QED
  BY <1>1, <1>2, <1>3, <1>4, <1>5, <1>6 DEF Next, Simulator

LEMMA NextClock == ClockInv /\ [Next]_vars => ClockInv'
<1> SUFFICES ASSUME ClockInv, [Next]_vars PROVE ClockInv'
  OBVIOUS
<1>1. CASE HandleRegister \/ StartOfSim \/ EndOfSim
  BY <1>1 DEF HandleRegister, StartOfSim, EndOfSim, ClockInv
<1>2. CASE SwControlReqCallback
  <2>1. callbacks = <<"pli_clk", "pli_control_req">> /\ dead = {}
    BY <1>2 DEF SwControlReqCallback, Alive, ClockInv, RegistrationOrder
  <2>2. Len(callbacks) = 2 /\ callbacks[1] = "pli_clk" /\ callbacks[2] = "pli_control_req"
    BY <2>1
  <2>3. KilledByControlReq = {}
    BY <2>2 DEF KilledByControlReq
  <2>4. QED
    BY <1>2, <2>1, <2>3 DEF SwControlReqCallback, ClockInv, RegistrationOrder
<1>3. CASE PliClkCallback
  BY <1>3 DEF PliClkCallback, simVars, ClockInv
<1>4. CASE TestBench
  BY <1>4 DEF TestBench, RequestControl, DropControlRequest, simVars, ClockInv
<1>5. CASE \E i \in 1 .. Len(threads) : Thread(i)
  BY <1>5 DEF Thread, ConstructTest, StartRequest, WaitRequestDone, simVars, ClockInv
<1>6. CASE UNCHANGED vars
  BY <1>6 DEF vars, simVars, ClockInv
<1>7. QED
  BY <1>1, <1>2, <1>3, <1>4, <1>5, <1>6 DEF Next, Simulator

LEMMA SpecHandover == Spec => [](HandoverInv /\ ClockInv)
  BY InitHandover, NextHandover, NextClock, PTL DEF Spec

-----------------------------------------------------------------------------
(* Types, and the cache of handles.                                        *)

CacheInv == handles \in Seq(Signals) /\ HandlesOnce

\* A signal is appended to a list only if no entry, the last included, is that signal.
LEMMA CachedOnce ==
  ASSUME NEW list \in Seq(Signals), NEW signal \in Signals,
         \A i, j \in 1 .. Len(list) : list[i] = list[j] => i = j
  PROVE  /\ Cached(list, signal) \in Seq(Signals)
         /\ \A i, j \in 1 .. Len(Cached(list, signal)) :
              Cached(list, signal)[i] = Cached(list, signal)[j] => i = j
<1>1. CASE signal \in Found(list)
  BY <1>1 DEF Cached
<1>2. CASE signal \notin Found(list)
  <2>1. \A i \in 1 .. Len(list) : list[i] # signal
    BY <1>2 DEF Found
  <2>2. /\ Append(list, signal) \in Seq(Signals)
        /\ Len(Append(list, signal)) = Len(list) + 1 /\ Len(list) \in Nat
        /\ Append(list, signal)[Len(list) + 1] = signal
        /\ \A i \in 1 .. Len(list) : Append(list, signal)[i] = list[i]
    OBVIOUS
  <2>3. QED
    BY <1>2, <2>1, <2>2 DEF Cached
<1>3. QED
  BY <1>1, <1>2

LEMMA NextCache == ClockInv /\ CacheInv /\ [Next]_vars => CacheInv'
<1> SUFFICES ASSUME ClockInv, CacheInv, [Next]_vars PROVE CacheInv'
  OBVIOUS
<1> DEFINE Once(list) == /\ list \in Seq(Signals)
                         /\ \A i, j \in 1 .. Len(list) : list[i] = list[j] => i = j
<1>0. Once(handles)
  BY DEF CacheInv, HandlesOnce
<1>s. /\ "pli_clk" \in Signals /\ "pli_control_req" \in Signals
      /\ "pli_control_gnt" \in Signals /\ "pli_test_name_array" \in Signals
  BY DEF Signals
<1>c. ASSUME NEW list, Once(list), NEW signal \in Signals PROVE Once(Cached(list, signal))
  BY <1>c, CachedOnce
<1> SUFFICES Once(handles')
  BY DEF CacheInv, HandlesOnce
<1> HIDE DEF Once
<1>1. CASE StartOfSim
  <2>1. callbacks' = <<"pli_clk", "pli_control_req">>
    BY <1>1 DEF StartOfSim, RegistrationOrder
  <2>2. callbacks'[1] = "pli_clk" /\ callbacks'[2] = "pli_control_req"
    BY <2>1
  <2>3. handles' = Cached(Cached(handles, "pli_clk"), "pli_control_req")
    BY <1>1, <2>2 DEF StartOfSim
  <2>4. QED
    BY <1>0, <1>s, <1>c, <2>3
<1>2. CASE SwControlReqCallback
  <2> DEFINE read == Cached(handles, "pli_control_req")
             given == Cached(read, "pli_control_gnt")
  <2>1. Once(read)
    BY <1>0, <1>s, <1>c
  <2>2. Once(given)
    BY <1>s, <1>c, <2>1
  <2>3. Once(Cached(given, "pli_test_name_array"))
    BY <1>s, <1>c, <2>2
  <2>4. handles' = IF control_req THEN Cached(given, "pli_test_name_array") ELSE read
    BY <1>2 DEF SwControlReqCallback
  <2>5. QED
    BY <2>1, <2>3, <2>4
<1>3. CASE EndOfSim
  <2>1. handles' = <<>>
    BY <1>3 DEF EndOfSim
  <2>2. QED
    BY <2>1 DEF Once
<1>4. CASE HandleRegister \/ PliClkCallback \/ TestBench \/ UNCHANGED vars
           \/ \E i \in 1 .. Len(threads) : Thread(i)
  <2>1. handles' = handles
    BY <1>4 DEF HandleRegister, PliClkCallback, TestBench, RequestControl, DropControlRequest,
                Thread, ConstructTest, StartRequest, WaitRequestDone, vars, simVars
  <2>2. QED
    BY <1>0, <2>1
<1>5. QED
  BY <1>1, <1>2, <1>3, <1>4 DEF Next, Simulator

\* What the other invariants leave: the state of the simulator, and signals.
FlagsInv ==
  /\ sim \in {"elaborating", "registered", "running", "ended"}
  /\ control_req \in BOOLEAN /\ changed \in BOOLEAN /\ test_end \in BOOLEAN
  /\ req \in {"none", "command", "end_test"}

LEMMA NextFlags == FlagsInv /\ [Next]_vars => FlagsInv'
<1> SUFFICES ASSUME FlagsInv, [Next]_vars PROVE FlagsInv'
  OBVIOUS
<1> USE DEF FlagsInv
<1>1. CASE HandleRegister \/ StartOfSim \/ EndOfSim
  BY <1>1 DEF HandleRegister, StartOfSim, EndOfSim, tbVars, threadVars
<1>2. CASE SwControlReqCallback
  BY <1>2 DEF SwControlReqCallback
<1>3. CASE PliClkCallback
  BY <1>3 DEF PliClkCallback, simVars
<1>4. CASE TestBench
  BY <1>4 DEF TestBench, RequestControl, DropControlRequest, simVars, threadVars
<1>5. CASE \E i \in 1 .. Len(threads) : Thread(i)
  BY <1>5 DEF Thread, ConstructTest, StartRequest, WaitRequestDone, simVars, tbVars
<1>6. CASE UNCHANGED vars
  BY <1>6 DEF vars, simVars, tbVars, threadVars
<1>7. QED
  BY <1>1, <1>2, <1>3, <1>4, <1>5, <1>6 DEF Next, Simulator

\* Types; and hman_get_ctu_vip_net_handle puts no signal twice into its list, which
\* the four signals of the callbacks come to in any order and number.
THEOREM SimulatorInterfaceTypeCorrect == Spec => []TypeOK
<1>1. Init => CacheInv /\ FlagsInv
  <2>1. Init => handles = <<>> /\ FlagsInv
    BY DEF Init, FlagsInv
  <2>2. handles = <<>> => CacheInv
    BY DEF CacheInv, HandlesOnce
  <2>3. QED
    BY <2>1, <2>2
<1>2. HandoverInv /\ ClockInv /\ CacheInv /\ FlagsInv => TypeOK
  <2> SUFFICES ASSUME HandoverInv, ClockInv, CacheInv, FlagsInv PROVE TypeOK
    OBVIOUS
  <2>1. threads \in Seq(ThreadRec)
    <3>1. threads = <<>> \/ threads \in Seq(ThreadRec)
      BY DEF HandoverInv, Started
    <3>2. <<>> \in Seq(ThreadRec)
      OBVIOUS
    <3>3. QED
      BY <3>1, <3>2
  <2>2. control_gnt \in BOOLEAN
    BY Zenon DEF HandoverInv
  <2>3. QED
    BY <2>1, <2>2 DEF HandoverInv, ClockInv, CacheInv, FlagsInv, TypeOK, ThreadRec, State
<1>3. QED
  BY <1>1, <1>2, SpecHandover, NextCache, NextFlags, PTL DEF Spec

-----------------------------------------------------------------------------
(* The handover.                                                           *)

\* Whatever the test bench does with its request, one test thread is started.
THEOREM HandoverOnce == Spec => []OneTestThread
<1>1. HandoverInv => OneTestThread
  BY DEF HandoverInv, Started, OneTestThread
<1>2. QED
  BY <1>1, SpecHandover, PTL

\* The thread runs the test it was asked for.
THEOREM TestIsTheOneAsked == Spec => []RightTest
<1>1. HandoverInv => RightTest
  BY DEF HandoverInv, Started, RightTest
<1>2. QED
  BY <1>1, SpecHandover, PTL

\* In the order of pli_start_of_sim the clock callback outlives the handover
\* in every simulator.
THEOREM ClockOutlivesHandover == Spec => []ClockSurvivesHandover
<1>1. ClockInv => ClockSurvivesHandover
  <2> SUFFICES ASSUME ClockInv, sim = "running" PROVE Alive("pli_clk")
    BY DEF ClockSurvivesHandover
  <2>1. callbacks = <<"pli_clk", "pli_control_req">> /\ dead = {}
    BY DEF ClockInv, RegistrationOrder
  <2>2. 1 \in 1 .. Len(callbacks) /\ callbacks[1] = "pli_clk"
    BY <2>1
  <2>3. QED
    BY <2>1, <2>2 DEF Alive, Registered
<1>2. QED
  BY <1>1, SpecHandover, PTL
=============================================================================
