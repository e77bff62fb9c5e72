------------------------------- MODULE Frames -------------------------------
(***************************************************************************)
(* can::Frame and can::FrameFlags: what a test gives of a frame, and what  *)
(* Randomize leaves to the random number generator.                        *)
(*                                                                         *)
(* A description has the fields fdf, ide, rtr, brs and esi (1 is recessive,*)
(* that is CAN FD, extended, remote, shift and error passive), dlc, ident, *)
(* and data as a function from the index of a byte.  Fields a test does not*)
(* give come from a draw, a description with all fields.                   *)
(***************************************************************************)
EXTENDS BitFrame, TLC

\* FrameKind, IdentKind, RtrFlag, BrsFlag, EsiFlag.
Can20 == 0
CanFd == 1
Base == 0
Ext == 1
Data == 0
Rtr == 1
NoShift == 0
DoShift == 1
ErrAct == 0
ErrPas == 1

\* A number as n bits, most significant first.
BitsOf(v, n) == [i \in 1 .. n |-> (v \div 2 ^ (n - i)) % 2]

\* Data of equal bytes, and data that begins otherwise.
Bytes(v) == [i \in 0 .. 63 |-> v]

FirstBytes(seq, v) == [i \in 0 .. 63 |-> IF i < Len(seq) THEN seq[i + 1] ELSE v]

DlcToDataLength == <<0, 1, 2, 3, 4, 5, 6, 7, 8, 12, 16, 20, 24, 32, 48, 64>>

ConvDlcToDataLen(fdf, rtr, dlc) ==
  IF fdf = Can20 /\ rtr = Rtr THEN 0
  ELSE IF fdf = Can20 /\ dlc >= 8 THEN 8 ELSE DlcToDataLength[dlc + 1]

\* Flags no frame of the kind has are ignored.
CorrectFlags(f) ==
  [f EXCEPT !.rtr = IF f.fdf = CanFd THEN Data ELSE @,
            !.brs = IF f.fdf = Can20 THEN NoShift ELSE @,
            !.esi = IF f.fdf = Can20 THEN ErrAct ELSE @]

\* The content of a frame by its description.
Content(f) ==
  LET ident == IF f.ide = Base THEN f.ident % 2048 ELSE f.ident
      len == ConvDlcToDataLen(f.fdf, f.rtr, f.dlc)
  IN  [fdf |-> f.fdf, ide |-> f.ide, rtr |-> f.rtr, brs |-> f.brs, esi |-> f.esi,
       base |-> BitsOf(IF f.ide = Base THEN ident ELSE ident \div 2 ^ 18, 11),
       ext  |-> IF f.ide = Base THEN <<>> ELSE BitsOf(ident % 2 ^ 18, 18),
       dlc  |-> BitsOf(f.dlc, 4),
       data |-> [i \in 1 .. 8 * len |-> BitsOf(f.data[(i - 1) \div 8], 8)[((i - 1) % 8) + 1]]]

\* A frame with given fields, the others randomized.
Frame(given, draw) == Content(CorrectFlags(given @@ draw))
=============================================================================
