----------------------------- MODULE ClosedLoop -----------------------------
(***************************************************************************)
(* A conformance test run against a node that obeys ISO 11898-1.  Run calls*)
(* RunElemTest for each variant and each elementary test in turn: it makes *)
(* a driver and a monitor frame, the lower tester drives the one and       *)
(* compares what the DUT sends with the other, bit by bit, and the test    *)
(* then reads frames and error counters of the DUT.  The DUT is set up     *)
(* once: counters, received frames and frames to send remain from one      *)
(* elementary test to the next.                                            *)
(*                                                                         *)
(* The modules TestIso_* give RunElemTest of each test class, an action    *)
(* each, and the set-up of the classes.                                    *)
(***************************************************************************)
EXTENDS CtuCanFdInterface

CONSTANTS
  Classes,    \* the set-up of each test class, by its name
  Outcomes,   \* outcomes of the random number generator, a sequence
  MaxRounds   \* of the rounds of an elementary test, no more are run

ASSUME MaxRoundsAssumption == MaxRounds \in Nat \ {0, 1}

VARIABLES
  elem,       \* the class, the seed of the generator, and how far Run is
  test,       \* the elementary test under way: its frames and checks
  pos,        \* bits driven and monitored so far
  mismatch    \* the monitor has seen another value than it expects

vars == <<elem, test, pos, mismatch, node>>

\* A class with that many elementary tests in the variants Common and CanFdEna
\* and, unless it says otherwise, a set-up that ConfigureTest leaves alone.
Class(common, fd) ==
  [common |-> common, fd |-> fd,
   feedback |-> FALSE,      \* CanAgentConfigureTxToRxFeedback
   pex |-> FALSE,           \* ConfigureProtocolException
   restricted |-> FALSE,    \* ConfigureRestrictedOperation
   one_shot |-> FALSE,      \* ConfigureOneShot
   tec |-> <<0, 1>>,        \* SetTec: a number, and what is added at random
   rec |-> 0]               \* SetErrorState(ErrPas): both are 150

Fed(setup) == [setup EXCEPT !.feedback = TRUE]

Setup == Classes[elem.name]

\* An outcome has descriptions of the first and of the second random frame, and
\* what rand() gives where the test makes a choice.
draw == Outcomes[elem.seed].first
draw_2 == Outcomes[elem.seed].second
Rand(n) == Outcomes[elem.seed].rand % n

NoTest == [drv |-> <<>>, mon |-> <<>>]

\* RunElemTest of the class may begin.
TestEnded == elem.index = 0

Runs(name) == elem.name = name /\ test = NoTest /\ ~TestEnded

FirstVariant(setup) == IF setup.common > 0 THEN Can20 ELSE CanFd

Init ==
  /\ \E name \in DOMAIN Classes, seed \in DOMAIN Outcomes :
       LET setup == Classes[name] IN
       /\ elem = [name |-> name, seed |-> seed, fdf |-> FirstVariant(setup), index |-> 1, round |-> 1]
       /\ node = Enable(setup.tec[1] + (Outcomes[seed].rand % setup.tec[2]), setup)
  /\ test = NoTest /\ pos = 0 /\ mismatch = FALSE

-----------------------------------------------------------------------------
(* What tests do to frames.                                                *)

\* The assignment GetBitOf(n, kind)->val_ = val.
SetBitOf(bits, n, kind, val) == Overwrite(bits, GetBitOf(bits, n, kind), <<val>>)

FlipBitOf(bits, n, kind) == FlipVal(bits, GetBitOf(bits, n, kind))

\* Without feedback the lower tester sends the acknowledge.
WithAck(bits) == SetBitOf(bits, 0, "Ack", Dominant)
NoAck(bits) == SetBitOf(bits, 0, "Ack", Recessive)

\* Error and overload frames that begin at a bit of a field.
ActErrAt(bits, n, kind) == InsertActErrFrm(bits, GetBitOf(bits, n, kind))
PasErrAt(bits, n, kind) == InsertPasErrFrm(bits, GetBitOf(bits, n, kind))
OvrlAt(bits, n, kind) == InsertOvrlFrm(bits, GetBitOf(bits, n, kind))

InsertVals(bits, i, kind, vals) ==
  SubSeq(bits, 1, i - 1) \o Field(kind, vals) \o SubSeq(bits, i, Len(bits))

Updated(bits, gold) == UpdateFrame(bits, CrcLen(gold), TRUE)

-----------------------------------------------------------------------------
(* A run of the lower tester, and the checks after it.                     *)

\* reads: CheckRxFrame, in order; no_more: CheckNoRxFrame; rec, tec: the values
\* the counters may have, if that is checked; rounds: loops of RunElemTest, and
\* all_rounds if each goes on from the one before; restarts: Disable and Enable, the DUT being bus-off.
NoChecks ==
  [reads |-> <<>>, no_more |-> FALSE, rec |-> {}, tec |-> {}, rounds |-> 1,
   all_rounds |-> FALSE, restarts |-> FALSE]

\* PushFramesToLT and RunLT, after the DUT was made what dut is.
RunWith(dut, drv, mon, checks) ==
  LET vals(bits) == [i \in DOMAIN bits |-> bits[i].val]
  IN  /\ test' = [drv |-> vals(drv), mon |-> vals(mon)] @@ checks @@ NoChecks
      /\ node' = dut
      /\ UNCHANGED <<elem, pos, mismatch>>

RunElemTest(drv, mon, checks) == RunWith(node, drv, mon, checks)

\* A frame of the kind of the elementary test.
RandomFrame == Frame([fdf |-> elem.fdf], draw)

\* A frame with a data byte that ends in a stuff bit, bit 6 of the field.
ErrorData == [dlc |-> 1, rtr |-> Data, data |-> Bytes(128)]
ErrorDataFrame == Frame([fdf |-> elem.fdf] @@ ErrorData, draw)
BaseErrorDataFrame ==
  Frame([fdf |-> elem.fdf, ide |-> Base, brs |-> NoShift, esi |-> ErrPas] @@ ErrorData, draw)

At(seq, i) == IF i <= Len(seq) THEN seq[i] ELSE Recessive

\* What the DUT receives: with feedback what it sends, too.
Received ==
  IF Setup.feedback /\ Sends(node) = Dominant THEN Dominant ELSE At(test.drv, pos + 1)

Ended == test # NoTest /\ pos >= Len(test.drv) /\ pos >= Len(test.mon)

BitTime ==
  /\ test # NoTest /\ ~Ended
  /\ pos' = pos + 1
  /\ mismatch' = (mismatch \/ (pos < Len(test.mon) /\ Sends(node) # test.mon[pos + 1]))
  /\ NodeBit(Received)
  /\ UNCHANGED <<elem, test>>

Tests(fdf) == IF fdf = Can20 THEN Setup.common ELSE Setup.fd

\* The next of the rounds that are run: the first, the last and, where there are
\* too many, some at equal distances between them.
NextRound ==
  LET distance == IF test.all_rounds THEN 1 ELSE ((test.rounds - 2) \div (MaxRounds - 1)) + 1
  IN  IF elem.round + distance <= test.rounds THEN elem.round + distance ELSE test.rounds

\* The next round, elementary test or variant.
Following ==
  IF elem.round < test.rounds THEN [elem EXCEPT !.round = NextRound]
  ELSE IF elem.index < Tests(elem.fdf) THEN [elem EXCEPT !.index = @ + 1, !.round = 1]
  ELSE IF elem.fdf = Can20 /\ Setup.fd > 0
       THEN [elem EXCEPT !.fdf = CanFd, !.index = 1, !.round = 1]
  ELSE [elem EXCEPT !.index = 0]

\* The bus is recessive until the next run of the lower tester.
FinishElemTest ==
  /\ Ended
  /\ elem' = Following
  /\ test' = NoTest /\ pos' = 0
  /\ node' = IF test.restarts THEN Enable(0, [Setup EXCEPT !.rec = 0])
             ELSE Quiet([node EXCEPT !.got = SubSeq(@, Len(test.reads) + 1, Len(@))])
  /\ UNCHANGED mismatch

Stopped == TestEnded /\ UNCHANGED vars

-----------------------------------------------------------------------------
(* Properties.                                                             *)

\* The monitor passes a DUT that obeys ISO 11898-1: bit for bit it expects what
\* such a node sends, flags, delimiters and retransmissions included.
MonitorAgrees == ~mismatch

\* The frames CheckRxFrame reads are those the DUT has received by then, and in
\* that order; where CheckNoRxFrame is called there is no other, of this or of an
\* earlier elementary test.
ReadsWhatWasReceived ==
  Ended => /\ Len(node.got) >= Len(test.reads)
           /\ SubSeq(node.got, 1, Len(test.reads)) = test.reads
           /\ test.no_more => node.got = test.reads

\* The error counters the test expects are those a conforming node has after all
\* elementary tests so far.
CountersAsChecked ==
  Ended => /\ test.tec # {} => node.tec \in test.tec
           /\ test.rec # {} => node.rec \in test.rec

\* An elementary test ends with nothing left to send that would disturb the next,
\* and with a DUT that takes part, or that the test restarts.
NothingLeftToSend == Ended => node.queue = <<>> /\ (node.at = "bus_off") = test.restarts
=============================================================================
