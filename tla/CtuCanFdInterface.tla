-------------------------- MODULE CtuCanFdInterface --------------------------
(***************************************************************************)
(* can::CtuCanFdInterface: how tests command the DUT.  Frames to send go   *)
(* to its TXT buffers in turn; of the buffers with a frame the DUT sends   *)
(* the first one, in the order of the buffers and not of the calls.        *)
(*                                                                         *)
(* cur_txt_buf is a member of CtuCanFdInterface, kept in the record of the *)
(* DUT: each one belongs to the other.                                     *)
(***************************************************************************)
EXTENDS CanNode

CONSTANT NumTxtBuffers    \* as Enable reads it from the DUT

\* SendFrame knows the addresses of eight.
ASSUME NumTxtBuffersAssumption == NumTxtBuffers \in 1 .. 8

\* After Enable of a DUT that was disabled or reset, with this TEC.
Enable(tec, setup) == PowerOn(tec, setup) @@ [cur_txt_buf |-> 0]

\* The field of the register CTR_PRES has nine bits.
SetRec(dut, n) == [dut EXCEPT !.rec = n % 512]
SetTec(dut, n) == [dut EXCEPT !.tec = n % 512]

\* SetErrorState(ErrPas) sets both counters.
SetErrPas(dut) == [dut EXCEPT !.rec = 150, !.tec = 150]

\* A buffer whose frame is not sent yet takes no other.
Pending(dut, buf) == \E i \in DOMAIN dut.queue : dut.queue[i].txt_buf = buf

\* The queue of the DUT is the order of its buffers.
Queued(dut, frame) ==
  LET buf == dut.cur_txt_buf
      Before(other) == other.txt_buf < buf
      Behind(other) == other.txt_buf > buf
  IN  IF Pending(dut, buf) THEN dut.queue
      ELSE SelectSeq(dut.queue, Before) \o <<frame @@ [txt_buf |-> buf]>> \o SelectSeq(dut.queue, Behind)

SendFrame(dut, frame) ==
  [dut EXCEPT !.queue = Queued(dut, frame), !.cur_txt_buf = (@ + 1) % NumTxtBuffers]

\* One call for each frame.
SendFrames(dut, frames) == FoldLeft(SendFrame, dut, frames)

\* "even if two frames are sent at once, they are always transmitted by DUT in order
\* in which SendFrame has been called": of the frames that wait in the buffers, the
\* DUT sends one the sooner the longer ago it was given.
SentInOrderOfCalls ==
  LET CallsSince(frame) == (node.cur_txt_buf + NumTxtBuffers - 1 - frame.txt_buf) % NumTxtBuffers
  IN  \A i, k \in DOMAIN node.queue :
        i < k => CallsSince(node.queue[i]) > CallsSince(node.queue[k])
=============================================================================
