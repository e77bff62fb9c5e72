--------------------------- MODULE ReceiverRules ---------------------------
(***************************************************************************)
(* What a receiver of CAN and CAN FD frames makes of the values of the     *)
(* bits it gets: where it takes bits for stuff bits, finds a stuff error,  *)
(* and whether the CRC is in order. The rules are those of ISO 11898-1 and *)
(* are stated independently of how can::BitFrame makes a frame; they are   *)
(* what frames are compared with.                                          *)
(***************************************************************************)
EXTENDS BitFrame

\* Where bits are stuffed by rule: up to the stuff count or the CRC delimiter.
LastStuffed(bits) == EndOfStuffing(bits) - 1

\* Bits a receiver takes out: each one after five equal bits and, from the stuff
\* count of CAN FD on, the first of each five.
StuffPositions(bits) ==
  LET end == EndOfStuffing(bits)
      delim == FirstOf(bits, "CrcDelim")
  IN  {i \in 6 .. end - 1 : \A j \in i - 5 .. i - 2 : bits[j].val = bits[i - 1].val}
      \cup {i \in end .. delim - 1 : (i - end) % 5 = 0}

\* The first stuff error a receiver finds, 0 if there is none.
StuffErrorAt(bits) ==
  LET errors == {i \in StuffPositions(bits) : bits[i].val = bits[i - 1].val}
  IN  IF errors = {} THEN 0 ELSE CHOOSE i \in errors : \A j \in errors : i <= j

\* Division of a polynomial, highest coefficient first, by x^n + Poly(n): the
\* coefficients from position k on are cancelled one after another.
Remainder(msg, n) ==
  LET Cancel(m, k) ==
        [out |-> <<>>,
         acc |-> IF m[k] = 0 THEN m
                 ELSE [i \in DOMAIN m |-> IF i = k THEN 0
                                          ELSE IF i \in k + 1 .. k + n THEN Xor(m[i], Poly(n)[i - k])
                                          ELSE m[i]]]
  IN  Loop(Cancel, [DOMAIN msg -> {0, 1}], msg, Len(msg) - n).acc

\* What the CRC of a frame protects, with the CRC itself: without the stuff bits,
\* of which CAN FD protects the regular ones. The leading one with which CAN FD
\* starts inverts the first bit.
Protected(bits, n) ==
  LET stuff == StuffPositions(bits)
      end == EndOfStuffing(bits)
      kept == {i \in 1 .. FirstOf(bits, "CrcDelim") - 1 : i \in stuff => n # 15 /\ i < end}
      vals == OnlyAt([i \in DOMAIN bits |-> bits[i].val], kept)
  IN  IF n = 15 THEN vals ELSE <<Opposite(vals[1])>> \o Tail(vals)

CrcHolds(bits, n) == \A v \in ToSet(Remainder(Protected(bits, n), n)) : v = 0

=============================================================================
