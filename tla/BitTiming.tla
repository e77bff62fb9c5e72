----------------------------- MODULE BitTiming -----------------------------
(***************************************************************************)
(* Time inside a bit: can::BitTiming, can::Bit with its time quanta and    *)
(* their cycles, and the generators of bit timings of TestBase.            *)
(*                                                                         *)
(* A bit timing has the lengths of three phases in time quanta, the length *)
(* of a time quantum in cycles (brp), and sjw.  A bit is a sequence of time*)
(* quanta, each of one phase; a time quantum is a sequence of cycles, each *)
(* with a value of its own or the default, which is the value of the bit.  *)
(***************************************************************************)
EXTENDS Integers, Sequences, FiniteSetsExt

CONSTANT SizeMod    \* numbers of type size_t are taken modulo SizeMod

\* 2^64 in the build.  What matters is that it is beyond any sum of lengths.
ASSUME SizeModAssumption == SizeMod \in Nat /\ SizeMod >= 1048576

BitTimings == [brp : Nat \ {0}, prop : Nat, ph1 : Nat, ph2 : Nat, sjw : Nat]

Least(a, b) == IF a <= b THEN a ELSE b
Greatest(a, b) == IF a >= b THEN a ELSE b

\* a - b in size_t.
Minus(a, b) == IF a >= b THEN a - b ELSE SizeMod + a - b

GetBitLenTQ(bt) == bt.prop + bt.ph1 + bt.ph2 + 1
GetBitLenCycles(bt) == GetBitLenTQ(bt) * bt.brp
Tseg1Len(bt) == 1 + bt.prop + bt.ph1

-----------------------------------------------------------------------------
(* Bit timings of equal length that differ in their sample point.          *)

\* TSEG1 of the DUT has at least five cycles, or three at the data bit rate.
GetDefaultMinPh1(bt, nominal) ==
  IF nominal
  THEN IF bt.brp = 1 THEN 4 ELSE IF bt.brp = 2 THEN 2 ELSE IF bt.brp \in {3, 4} THEN 1 ELSE 0
  ELSE IF bt.brp = 1 THEN 2 ELSE IF bt.brp = 2 THEN 1 ELSE 0

\* (mutant: a sample point behind each time quantum, whatever its length)
CalcNumSPsEachTQ(bt, nominal) == GetBitLenTQ(bt) - 1

CalcNumSPs(bt, nominal) ==
  LET not_tested == IF nominal
                    THEN IF bt.brp = 1 THEN 7 ELSE IF bt.brp = 2 THEN 4
                         ELSE IF bt.brp \in {3, 4} THEN 2 ELSE 1
                    ELSE IF bt.brp = 1 THEN 4 ELSE IF bt.brp = 2 THEN 2 ELSE 1
  IN  Minus(GetBitLenTQ(bt), not_tested)

\* A length beyond this is one below zero, seen as a very large number.
MaxLength == 65535

\* A PH2 that came out as zero or less.
PositivePh2(ph2) == IF ph2 = 0 \/ ph2 > MaxLength THEN 1 ELSE ph2

\* PH2 of CTU CAN FD has at least two time quanta at the nominal bit rate.
LegalPh2(ph2, nominal) == IF nominal THEN Greatest(PositivePh2(ph2), 2) ELSE PositivePh2(ph2)

MaxPh(nominal) == IF nominal THEN 63 ELSE 31

\* The timing of elementary test index, counted from 1.
GenerateBitTiming(orig, index, nominal, minimal_ph1) ==
  LET init_ph1 == Greatest(GetDefaultMinPh1(orig, nominal), minimal_ph1)
      ph1 == init_ph1 + index - 1
      ph2 == LegalPh2(Minus(GetBitLenTQ(orig), ph1 + 1), nominal)
  IN  [brp  |-> Least(orig.brp, 255), prop |-> 0,
       ph1  |-> Least(ph1, MaxPh(nominal)), ph2 |-> Least(ph2, MaxPh(nominal)),
       sjw  |-> Least(Least(ph2, orig.sjw), 31)]

\* Minimal durations of TSEG1 and TSEG2, in cycles.
LongEnough(bt, nominal) ==
  /\ Tseg1Len(bt) * bt.brp >= (IF nominal THEN 5 ELSE 3)
  /\ bt.ph2 * bt.brp >= (IF nominal THEN 3 ELSE 2)

-----------------------------------------------------------------------------
(* Time quanta of a bit.                                                   *)

\* The value of a cycle that has none of its own.
Default == 2

Tq(bt, phase) == [phase |-> phase, cycles |-> [c \in 1 .. bt.brp |-> Default]]

Tqs(bt, phase, n) == [i \in 1 .. n |-> Tq(bt, phase)]

\* Bits of a CAN FD frame that switches the bit rate: phases in the data bit rate.
\* shift: the frame is one.
GetPhaseBitRate(kind, shift, phase) ==
  IF /\ shift
     /\ \/ kind = "Brs" /\ phase = "Ph2"
        \/ kind = "CrcDelim" /\ phase # "Ph2"
        \/ kind \in {"Esi", "Dlc", "Data", "StuffCnt", "StuffParity", "Crc"}
  THEN "Data" ELSE "Nominal"

\* bts: the nominal and the data bit timing.
GetPhaseBitTiming(kind, shift, phase, bts) ==
  IF GetPhaseBitRate(kind, shift, phase) = "Data" THEN bts.dbt ELSE bts.nbt

ConstructTQs(kind, shift, bts) ==
  LET tseg1 == GetPhaseBitTiming(kind, shift, "Ph1", bts)
      tseg2 == GetPhaseBitTiming(kind, shift, "Ph2", bts)
  IN  Tqs(tseg1, "Sync", 1) \o Tqs(tseg1, "Prop", tseg1.prop)
      \o Tqs(tseg1, "Ph1", tseg1.ph1) \o Tqs(tseg2, "Ph2", tseg2.ph2)

-----------------------------------------------------------------------------
(* Phases of a bit.                                                        *)

InPhase(tqs, phase) == {i \in DOMAIN tqs : tqs[i].phase = phase}

HasPhase(tqs, phase) == InPhase(tqs, phase) # {}

\* The first of phases that the bit has, or "otherwise".
FirstThere(tqs, phases, otherwise) ==
  LET there == {n \in DOMAIN phases : HasPhase(tqs, phases[n])}
  IN  IF there = {} THEN otherwise
      ELSE phases[CHOOSE n \in there : \A m \in there : n <= m]

PrevBitPhase(tqs, phase) ==
  FirstThere(tqs, CASE phase = "Ph2" -> <<"Ph1", "Prop">> [] phase = "Ph1" -> <<"Prop">>
                    [] OTHER -> <<>>, "Sync")

NextBitPhase(tqs, phase) ==
  FirstThere(tqs, CASE phase = "Sync" -> <<"Prop", "Ph1", "Ph2">>
                    [] phase = "Prop" -> <<"Ph1", "Ph2">>
                    [] phase = "Ph1" -> <<"Ph2">> [] OTHER -> <<>>, phase)

\* First time quantum of a phase there is.
FirstOfPhase(tqs, phase) ==
  CHOOSE i \in InPhase(tqs, phase) : \A j \in InPhase(tqs, phase) : i <= j

\* Last of the time quanta that follow it and are of the same phase.
EndOfRun(tqs, phase) ==
  CHOOSE i \in InPhase(tqs, phase) :
    /\ \A j \in FirstOfPhase(tqs, phase) .. i : tqs[j].phase = phase
    /\ i = Len(tqs) \/ tqs[i + 1].phase # phase

\* GetLastTQIter: of a phase that is not there, the first of the next phase or,
\* there being none, the last of the one before.
GetLastTQIter(tqs, phase) ==
  LET next == NextBitPhase(tqs, phase)
  IN  IF HasPhase(tqs, phase) THEN EndOfRun(tqs, phase)
      ELSE IF HasPhase(tqs, next) THEN FirstOfPhase(tqs, next)
      ELSE EndOfRun(tqs, PrevBitPhase(tqs, next))

\* GetTQ(phase, index), counted from 0.
GetTQ(tqs, phase, index) == FirstOfPhase(tqs, phase) + index

GetPhaseLenTQ(tqs, phase) == Cardinality(InPhase(tqs, phase))

\* By how much ShortenPhase shortens a phase.
Shortened(tqs, phase, n) == Least(n, GetPhaseLenTQ(tqs, phase))

\* Time quanta are erased from the last one of the phase backwards.
ShortenPhase(tqs, phase, n) ==
  LET last == EndOfRun(tqs, phase)
  IN  IF ~HasPhase(tqs, phase) THEN tqs
      ELSE SubSeq(tqs, 1, last - Shortened(tqs, phase, n)) \o SubSeq(tqs, last + 1, Len(tqs))

\* Behind the phase or, if the bit has none, before what GetLastTQIter gives.
LengthenPhase(tqs, phase, n, bt) ==
  LET at == GetLastTQIter(tqs, phase) + (IF HasPhase(tqs, phase) THEN 1 ELSE 0)
  IN  SubSeq(tqs, 1, at - 1) \o Tqs(bt, phase, n) \o SubSeq(tqs, at, Len(tqs))

\* (mutant: PH2 of the last bit before an error flag stays at the data bit rate)
Ph2LeftAsItWas(tqs, kind, shift, bts) == tqs

\* PH2 of the last bit before an error flag, if it was of the data bit rate.
CorrectPh2LenToNominal(tqs, kind, shift, bts) ==
  IF GetPhaseBitRate(kind, shift, "Ph2") = "Nominal" THEN tqs
  ELSE SelectSeq(tqs, LAMBDA tq : tq.phase # "Ph2") \o Tqs(bts.nbt, "Ph2", bts.nbt.ph2)

-----------------------------------------------------------------------------
(* Values of time quanta and cycles.                                       *)

ForceVal(tq, val) == [tq EXCEPT !.cycles = [c \in DOMAIN @ |-> val]]

\* Time quanta in the positions given.
ForceTQs(tqs, at, val) == [i \in DOMAIN tqs |-> IF i \in at THEN ForceVal(tqs[i], val) ELSE tqs[i]]

\* ForceTQ(first, last, phase, val), counted from 0: as many of them as there are.
ForceTQ(tqs, first, last, phase, val) ==
  ForceTQs(tqs, {i \in InPhase(tqs, phase) : i - FirstOfPhase(tqs, phase) \in first .. last}, val)

\* Cycles added to a time quantum, or taken from its end.
LengthenTQ(tqs, i, n) ==
  [tqs EXCEPT ![i].cycles = @ \o [c \in 1 .. n |-> Default]]

ShortenTQ(tqs, i, n) ==
  [tqs EXCEPT ![i].cycles = SubSeq(@, 1, Len(@) - Least(n, Len(@)))]

CyclesIn(tqs, at) == MapThenSumSet(LAMBDA i : Len(tqs[i].cycles), at)

\* Cycles of the bit, counted from 1.
ForceCycles(tqs, at, val) ==
  [i \in DOMAIN tqs |->
     LET before == CyclesIn(tqs, 1 .. i - 1)
     IN  [tqs[i] EXCEPT !.cycles = [c \in DOMAIN @ |-> IF before + c \in at THEN val ELSE @[c]]]]
=============================================================================
