--------------------------- MODULE MCFrameUpdate ---------------------------
(***************************************************************************)
(* Instance of FrameUpdate: identifiers and data bytes made of two runs of *)
(* equal bits, which put five equal bits at every place of a frame.        *)
(***************************************************************************)
EXTENDS FrameUpdate

Runs(len) ==
  {[i \in 1 .. len |-> IF i <= k THEN v ELSE 1 - v] : k \in 1 .. len, v \in {0, 1}}

C(fdf, ide, rtr, base, ext, dlc, data) ==
  [fdf |-> fdf, ide |-> ide, rtr |-> rtr, brs |-> 0, esi |-> 0,
   base |-> base, ext |-> ext, dlc |-> dlc, data |-> data]

Same(len, v) == [i \in 1 .. len |-> v]

\* The data ends at the stuff count, with runs of up to eight equal bits.
BaseFrames ==
  {C(fdf, 0, 0, base, <<>>, <<0, 0, 0, 1>>, data) :
     fdf \in {0, 1}, base \in {Same(11, 0), Same(11, 1)}, data \in Runs(8)}

\* No data: the identifier or the DLC stands before the CRC.
RemoteFrames ==
  {C(0, ide, 1, base, Same(18, 0), dlc, <<>>) :
     ide \in {0, 1}, base \in {Same(11, 0), Same(11, 1)}, dlc \in {Same(4, 0), Same(4, 1)}}

ExtFrames ==
  {C(fdf, 1, 0, Same(11, 1), ext, Same(4, 0), <<>>) : fdf \in {0, 1}, ext \in {Same(18, 0), Same(18, 1)}}

\* Twenty bytes: the longest of the CRCs.
LongFrames ==
  {C(1, 0, 0, Same(11, v), <<>>, <<1, 0, 1, 1>>, [i \in 1 .. 160 |-> i % 2]) : v \in {0, 1}}

MCContents == BaseFrames \cup RemoteFrames \cup ExtFrames \cup LongFrames
=============================================================================
