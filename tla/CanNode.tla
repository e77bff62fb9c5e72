------------------------------ MODULE CanNode ------------------------------
(***************************************************************************)
(* A CAN FD enabled node that obeys ISO 11898-1, bit by bit: the reference *)
(* the compliance tests are run against.  Each action is what the node     *)
(* makes of the next value b on its input, in one state of its protocol;   *)
(* Sends is what it sends in that bit.  One action applies in each bit.    *)
(*                                                                         *)
(* The node stands for the DUT, which is no code of this repository.       *)
(***************************************************************************)
EXTENDS Frames

VARIABLE node

-----------------------------------------------------------------------------
(* Where the fields of a frame are, counted in bits without stuff bits.    *)

\* Position of the FDF bit, the header known up to IDE.
FdfAt(raw) == IF raw[14] = 0 THEN 15 ELSE 34

KnowsFormat(raw) == Len(raw) >= 15 /\ Len(raw) >= FdfAt(raw)

IsFd(raw) == raw[FdfAt(raw)] = 1

HeaderLen(raw) == FdfAt(raw) + (IF IsFd(raw) THEN 7 ELSE IF raw[14] = 1 THEN 5 ELSE 4)

KnowsHeader(raw) == KnowsFormat(raw) /\ Len(raw) >= HeaderLen(raw)

DlcOf(raw) ==
  LET n == HeaderLen(raw) IN 8 * raw[n - 3] + 4 * raw[n - 2] + 2 * raw[n - 1] + raw[n]

RtrOf(raw) == IF IsFd(raw) THEN 0 ELSE raw[IF raw[14] = 0 THEN 13 ELSE 33]

BytesOf(raw) == ConvDlcToDataLen(IF IsFd(raw) THEN 1 ELSE 0, RtrOf(raw), DlcOf(raw))

CrcLenOf(raw) == IF ~IsFd(raw) THEN 15 ELSE IF BytesOf(raw) <= 16 THEN 17 ELSE 21

\* The last bit under the rule of five equal bits.
StuffedLen(raw) == HeaderLen(raw) + 8 * BytesOf(raw) + (IF IsFd(raw) THEN 0 ELSE 15)

AllStuffed(raw) == KnowsHeader(raw) /\ Len(raw) = StuffedLen(raw)

\* The frame a receiver delivers.
ContentOf(raw) ==
  LET fd == IsFd(raw) IN
  [fdf  |-> IF fd THEN 1 ELSE 0, ide |-> raw[14], rtr |-> RtrOf(raw),
   brs  |-> IF fd THEN raw[FdfAt(raw) + 2] ELSE 0,
   esi  |-> IF fd THEN raw[FdfAt(raw) + 3] ELSE 0,
   base |-> SubSeq(raw, 2, 12),
   ext  |-> IF raw[14] = 1 THEN SubSeq(raw, 15, 32) ELSE <<>>,
   dlc  |-> SubSeq(raw, HeaderLen(raw) - 3, HeaderLen(raw)),
   data |-> SubSeq(raw, HeaderLen(raw) + 1, HeaderLen(raw) + 8 * BytesOf(raw))]

\* The CRC and, in CAN FD, the stuff count of a received frame.  Protected are,
\* in CAN, the bits without stuff bits and, in CAN FD, all but the fixed ones.
EndsWithCrc(bits, n) ==
  CrcOf(SubSeq(bits, 1, Len(bits) - n), n) = SubSeq(bits, Len(bits) - n + 1, Len(bits))

WithParity(code) == Append(code, EvenParity(code))

CountsStuffBits(raw, all, end) ==
  SubSeq(all, end - 3, end) = WithParity(StuffCntEncoded((end - 4 - Len(raw)) % 8))

CrcInOrder(raw, all) ==
  IF ~IsFd(raw) THEN EndsWithCrc(raw, 15)
  ELSE /\ EndsWithCrc(all, CrcLenOf(raw))
       /\ CountsStuffBits(raw, all, Len(all) - CrcLenOf(raw))

-----------------------------------------------------------------------------
(* State.                                                                  *)

\* at: the part of the protocol, n: bits spent in it; tx: transmitter of the
\* frame; own: the frame it transmits; k: bits of the frame so far; raw: those
\* without stuff bits; all: those without fixed stuff bits; run, last: equal bits
\* at the end; acked, valid_crc, lenient: what the frame has been; flag: the frame
\* a delimiter belongs to; dom: dominant bits after the flag; pex: protocol
\* exceptions are detected; restricted: restricted operation; one_shot: no frame is
\* sent twice; queue: frames to send; got: frames received and not yet read.
PowerOn(tec, setup) ==
  [at |-> "idle", n |-> 0, tx |-> FALSE, own |-> <<>>, k |-> 0, raw |-> <<>>, all |-> <<>>,
   run |-> 0, last |-> Recessive, acked |-> FALSE, valid_crc |-> FALSE, lenient |-> FALSE,
   flag |-> "none", dom |-> 0, tec |-> tec, rec |-> setup.rec, pex |-> setup.pex,
   restricted |-> setup.restricted, one_shot |-> setup.one_shot, queue |-> <<>>, got |-> <<>>]

Passive(d) == d.tec > 127 \/ d.rec > 127

InFrame(d) == d.at \in {"stuffed", "fixed", "crc_delim", "ack", "ack_delim", "eof"}

AckLen(d) == IF IsFd(d.raw) THEN 2 ELSE 1

\* The ESI bit tells the state of the node that transmits.
OwnFrame(d) ==
  LET c == d.queue[1]
  IN  ConstructFrame([c EXCEPT !.esi = IF c.fdf = 1 /\ Passive(d) THEN 1 ELSE 0])

Acknowledges(d) == d.at = "ack" /\ ~d.tx /\ d.valid_crc /\ d.n = 0

Sends(d) ==
  IF d.at = "flag" \/ Acknowledges(d) \/ (d.at = "idle" /\ d.queue # <<>>) THEN Dominant
  ELSE IF InFrame(d) /\ d.tx THEN d.own[d.k + 1].val ELSE Recessive

-----------------------------------------------------------------------------
(* Errors and counters.                                                    *)

More(d, forTx, forRx) ==
  IF d.tx THEN [d EXCEPT !.tec = @ + forTx] ELSE [d EXCEPT !.rec = @ + forRx]

Less(d) ==
  IF d.tx THEN [d EXCEPT !.tec = IF @ > 0 THEN @ - 1 ELSE 0]
  ELSE [d EXCEPT !.rec = IF @ > 127 THEN 120 ELSE IF @ > 0 THEN @ - 1 ELSE 0]

BusOffOr(d) == IF d.tec > 255 THEN [d EXCEPT !.at = "bus_off"] ELSE d

GivesUp(d) == d.one_shot /\ d.tx /\ (InFrame(d) \/ d.at = "idle")

\* The flag is that of the state before the error is counted.
Flag(d, counted) ==
  BusOffOr([counted EXCEPT !.at = IF Passive(d) THEN "passive_flag" ELSE "flag",
                           !.n = 0, !.dom = 0, !.flag = "error",
                           !.queue = IF GivesUp(d) THEN Tail(@) ELSE @])

\* In restricted operation a node sends no flag and counts no errors.
Error(d) == IF d.restricted THEN [d EXCEPT !.at = "integrating", !.n = 0]
            ELSE Flag(d, More(d, 8, 1))

Overload(d) == [d EXCEPT !.at = "flag", !.n = 0, !.dom = 0, !.flag = "overload"]

Goto(d, at) == [d EXCEPT !.at = at, !.n = 0]

-----------------------------------------------------------------------------
(* One bit of the bus, by what the node is doing.                          *)

Starts(d, tx) ==
  [d EXCEPT !.at = "stuffed", !.n = 0, !.tx = tx, !.k = 1, !.raw = <<Dominant>>,
            !.all = <<Dominant>>, !.run = 1, !.last = Dominant, !.acked = FALSE,
            !.valid_crc = FALSE, !.lenient = FALSE,
            !.own = IF tx THEN OwnFrame(d) ELSE <<>>]

Idle(b) ==
  /\ node.at = "idle"
  /\ node' = IF b = Dominant THEN Starts(node, node.queue # <<>>)
             ELSE IF node.queue # <<>> THEN Error([node EXCEPT !.tx = TRUE]) ELSE node

\* A transmitter that sees another value than it sends.
Differs(b) == InFrame(node) /\ node.tx /\ b # Sends(node)

InArbitration == node.own[node.k + 1].kind \in {"BaseIdent", "ExtIdent", "Rtr", "Srr", "Ide", "R1"}

LosesArbitration(b) ==
  /\ Differs(b) /\ b = Dominant /\ InArbitration /\ ~IsStuff(node.own[node.k + 1])

InAck == node.at = "ack"

\* A recessive stuff bit overwritten in the arbitration field is not counted.
BitError(b) ==
  /\ Differs(b) /\ ~LosesArbitration(b) /\ ~InAck
  /\ node' = IF InArbitration /\ b = Dominant THEN Flag(node, node) ELSE Error(node)

Undisturbed(b) == ~Differs(b) \/ LosesArbitration(b)

\* What the bit changes however it is understood.
Heard(b) ==
  [node EXCEPT !.k = @ + 1, !.all = Append(@, b), !.last = b,
               !.run = IF b = node.last THEN @ + 1 ELSE 1,
               !.tx = @ /\ ~LosesArbitration(b)]

\* In CAN FD no stuff bit follows the last bit of the data.
StuffBitNext(d) == d.run = 5 /\ ~(AllStuffed(d.raw) /\ IsFd(d.raw))

AfterStuffed(d) ==
  IF ~AllStuffed(d.raw) \/ StuffBitNext(d) THEN d
  ELSE IF IsFd(d.raw) THEN Goto(d, "fixed")
  ELSE [Goto(d, "crc_delim") EXCEPT !.valid_crc = CrcInOrder(d.raw, d.all)]

StuffBit(b) ==
  /\ node.at = "stuffed" /\ Undisturbed(b) /\ StuffBitNext(node)
  /\ node' = IF b = node.last THEN Error(node) ELSE AfterStuffed(Heard(b))

\* A recessive bit after FDF is no frame this node knows.
ReservedBit(raw) == KnowsFormat(raw) /\ IsFd(raw) /\ Len(raw) = FdfAt(raw) + 1

PlainBit(b) ==
  /\ node.at = "stuffed" /\ Undisturbed(b) /\ ~StuffBitNext(node)
  /\ LET heard == [Heard(b) EXCEPT !.raw = Append(@, b)]
     IN  node' = IF ~(ReservedBit(heard.raw) /\ b = Recessive) THEN AfterStuffed(heard)
                 ELSE IF node.pex THEN Goto(node, "integrating") ELSE Error(node)

\* The stuff count and the CRC of CAN FD: each first of five bits is stuffed.
FixedLen(raw) == IF CrcLenOf(raw) = 17 THEN 27 ELSE 32

FixedBit(b) ==
  /\ node.at = "fixed" /\ Undisturbed(b)
  /\ LET stuff == node.n % 5 = 0
         heard == [Heard(b) EXCEPT !.n = @ + 1, !.all = IF stuff THEN node.all ELSE @]
     IN  node' = IF stuff /\ b = node.last THEN Error(node)
                 ELSE IF heard.n < FixedLen(node.raw) THEN heard
                 ELSE [Goto(heard, "crc_delim")
                         EXCEPT !.valid_crc = CrcInOrder(heard.raw, heard.all)]

CrcDelim(b) ==
  /\ node.at = "crc_delim" /\ Undisturbed(b)
  /\ node' = IF b = Dominant THEN Error(node) ELSE Goto(Heard(b), "ack")

\* A passive transmitter without acknowledge is counted only if its flag is seen.
AckError(d) ==
  IF Passive(d) THEN [Flag(d, d) EXCEPT !.lenient = TRUE] ELSE Error(d)

AckSlot(b) ==
  /\ node.at = "ack"
  /\ LET heard == [Heard(b) EXCEPT !.n = @ + 1, !.acked = @ \/ b = Dominant]
     IN  node' = IF Acknowledges(node) /\ b = Recessive THEN Error(node)
                 ELSE IF heard.n < AckLen(node) THEN heard
                 ELSE IF node.tx /\ ~heard.acked THEN AckError(node)
                 ELSE Goto(IF node.tx \/ ~node.valid_crc THEN heard ELSE Less(heard), "ack_delim")

AckDelim(b) ==
  /\ node.at = "ack_delim" /\ Undisturbed(b)
  /\ node' = IF b = Dominant \/ (~node.tx /\ ~node.valid_crc) THEN Error(node)
             ELSE Goto(Heard(b), "eof")

\* A receiver takes the frame with the last but one bit, a transmitter its own
\* with the last.
Eof(b) ==
  /\ node.at = "eof" /\ Undisturbed(b)
  /\ LET heard == [Heard(b) EXCEPT !.n = @ + 1]
     IN  node' = IF b = Dominant THEN IF node.n = 6 /\ ~node.tx THEN Overload(node) ELSE Error(node)
                 ELSE IF node.n = 5 /\ ~node.tx THEN [heard EXCEPT !.got = Append(@, ContentOf(node.raw))]
                 ELSE IF node.n < 6 THEN heard
                 ELSE IF node.tx THEN [Goto(Less(heard), "interm")
                                         EXCEPT !.queue = Tail(@)]
                 ELSE Goto(heard, "interm")

\* An error passive transmitter lets others begin first.
MustWait(d) == Passive(d) /\ d.tx

Interm(b) ==
  /\ node.at = "interm"
  /\ node' = IF b = Dominant
             THEN IF node.n < 2 THEN Overload(node)
                  ELSE Starts(node, node.queue # <<>> /\ ~MustWait(node))
             ELSE IF node.n < 2 THEN [node EXCEPT !.n = @ + 1]
             ELSE Goto(node, IF MustWait(node) THEN "suspend" ELSE "idle")

Suspend(b) ==
  /\ node.at = "suspend"
  /\ node' = IF b = Dominant THEN Starts(node, FALSE)
             ELSE IF node.n < 7 THEN [node EXCEPT !.n = @ + 1] ELSE Goto(node, "idle")

\* An active error flag or an overload flag.
DominantFlag(b) ==
  /\ node.at = "flag"
  /\ node' = IF b = Recessive THEN Flag(node, More(node, 8, 8))
             ELSE IF node.n < 5 THEN [node EXCEPT !.n = @ + 1] ELSE Goto(node, "recessive")

\* A passive error flag ends with six equal bits, whoever sends them.
PassiveFlag(b) ==
  /\ node.at = "passive_flag"
  /\ LET same == IF node.n = 0 \/ b # node.last THEN 1 ELSE node.n + 1
         counted == IF node.lenient /\ b = Dominant
                    THEN [More(node, 8, 1) EXCEPT !.lenient = FALSE] ELSE node
     IN  node' = BusOffOr([counted EXCEPT !.n = IF same < 6 THEN same ELSE 0, !.last = b,
                                          !.at = IF same < 6 THEN @ ELSE "recessive"])

\* After its flag the node waits for a recessive bit.
WaitRecessive(b) ==
  /\ node.at = "recessive"
  /\ LET first == IF node.dom = 0 /\ node.flag = "error" THEN More(node, 0, 8) ELSE node
         eighth == IF (node.dom + 1) % 8 = 0 THEN More(first, 8, 8) ELSE first
     IN  node' = IF b = Dominant THEN BusOffOr([eighth EXCEPT !.dom = @ + 1])
                 ELSE [node EXCEPT !.at = "delim", !.n = 1]

Delimiter(b) ==
  /\ node.at = "delim"
  /\ node' = IF b = Dominant THEN IF node.n = 7 THEN Overload(node) ELSE Error(node)
             ELSE IF node.n < 7 THEN [node EXCEPT !.n = @ + 1] ELSE Goto(node, "interm")

\* Eleven recessive bits let the node take part again.
Integrate(b) ==
  /\ node.at = "integrating"
  /\ node' = IF b = Dominant THEN [node EXCEPT !.n = 0]
             ELSE IF node.n < 10 THEN [node EXCEPT !.n = @ + 1]
             ELSE [Goto(node, "idle") EXCEPT !.tx = FALSE]

\* After a long time of recessive bits.  Of what is added to a node, nothing changes.
Quiet(d) ==
  IF d.at = "bus_off" THEN d
  ELSE [PowerOn(d.tec, d) EXCEPT !.queue = d.queue, !.got = d.got] @@ d

BusOff(b) == node.at = "bus_off" /\ UNCHANGED node

NodeBit(b) ==
  \/ Idle(b) \/ BitError(b) \/ StuffBit(b) \/ PlainBit(b) \/ FixedBit(b)
  \/ CrcDelim(b) \/ AckSlot(b) \/ AckDelim(b) \/ Eof(b)
  \/ Interm(b) \/ Suspend(b) \/ DominantFlag(b) \/ PassiveFlag(b)
  \/ WaitRecessive(b) \/ Delimiter(b) \/ Integrate(b) \/ BusOff(b)
=============================================================================
