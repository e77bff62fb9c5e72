---------------------------- MODULE TestSequence ----------------------------
(***************************************************************************)
(* test::TestSequence: a frame as the items driver and monitor of the CAN  *)
(* agent take, each with a value and a duration, those of the monitor with *)
(* a sample rate, too.  Durations are counted in clock cycles.             *)
(*                                                                         *)
(* A bit is a record with its value (val), its field (kind) and its time   *)
(* quanta (tqs, see BitTiming).                                            *)
(***************************************************************************)
EXTENDS BitTiming, BitFrame

\* Sequences one behind the other.
Joined(seqs) ==
  LET Step(acc, i) == [out |-> seqs[i], acc |-> 0]
  IN  IF seqs = <<>> THEN <<>> ELSE Loop(Step, {0}, 0, Len(seqs)).out

DrvItem(value, duration) == [value |-> value, duration |-> duration]

MonItem(value, duration, rate) == [value |-> value, duration |-> duration, rate |-> rate]

ValueOf(bit, cycle) == IF cycle = Default THEN bit.val ELSE cycle

\* The values of the bit, cycle by cycle.
CyclesOf(bit) ==
  LET cycles == Joined([i \in DOMAIN bit.tqs |-> bit.tqs[i].cycles])
  IN  [c \in DOMAIN cycles |-> ValueOf(bit, cycles[c])]

CycleRuns == [value : {Dominant, Recessive}, duration : Nat]

\* A cycle goes on with the run before it, or begins one.
NextRun(run, value) ==
  DrvItem(value, IF value = run.value THEN run.duration + 1 ELSE 1)

\* An item for each run of equal cycles, at its end.  The first has the value of the
\* bit, and no duration if the bit does not begin with that; the last run is put out
\* at cycle last.
RunsOf(vals, val, last) ==
  LET Step(run, c) ==
        LET next == NextRun(run, vals[c])
        IN  [out |-> If(vals[c] # run.value, <<run>>) \o If(c = last, <<next>>), acc |-> next]
  IN  IF vals = <<>> THEN <<>> ELSE Loop(Step, CycleRuns, DrvItem(val, 0), Len(vals)).out

\* The last run is put out at the last cycle of the last time quantum, if it has one.
EqualRuns(bit) ==
  LET vals == CyclesOf(bit)
  IN  RunsOf(vals, bit.val,
             IF bit.tqs = <<>> \/ Last(bit.tqs).cycles = <<>> THEN 0 ELSE Len(vals))

AppendDriverBit(bit) == EqualRuns(bit)

AppendDriverFrame(bits) == Joined([i \in DOMAIN bits |-> AppendDriverBit(bits[i])])

\* All of the bit is sampled at the rate of its first time quantum.
AppendMonitorNotShift(bit) ==
  LET rate == Len(bit.tqs[1].cycles)
      runs == EqualRuns(bit)
  IN  [k \in DOMAIN runs |-> MonItem(runs[k].value, runs[k].duration, rate)]

\* Cycles of n time quanta, the first of which is tqs[first].
CyclesFrom(tqs, first, n) == Len(Joined([i \in 1 .. n |-> tqs[first + i - 1].cycles]))

\* TSEG1 and TSEG2 with a rate of their own, if there is anything of them.
AppendMonitorBitWithShift(bit) ==
  LET tseg2_len == GetPhaseLenTQ(bit.tqs, "Ph2")
      tseg1_len == Len(bit.tqs) - tseg2_len
      Segment(first, n, sampled) ==
        LET duration == CyclesFrom(bit.tqs, first, n)
        IN  If(duration > 0, <<MonItem(bit.val, duration, Len(bit.tqs[sampled].cycles))>>)
  IN  Segment(1, tseg1_len, FirstOfPhase(bit.tqs, "Sync"))
      \o Segment(FirstOfPhase(bit.tqs, "Ph2"), tseg2_len, FirstOfPhase(bit.tqs, "Ph2"))

\* (mutant: the bit before an error flag is taken for one of a single bit rate)
ShiftsInFieldOnly(bit, next) == bit.kind \in {"Brs", "CrcDelim"}

\* The bit rate may change within the bit; before an error flag it is taken to.
Shifts(bit, next) ==
  \/ bit.kind \in {"Brs", "CrcDelim"}
  \/ next.kind \in {"ActErrFlag", "PasErrFlag"}

AppendMonitorBit(bit, next) ==
  IF Shifts(bit, next) THEN AppendMonitorBitWithShift(bit) ELSE AppendMonitorNotShift(bit)

\* What comes after the last bit is the last bit again.
NextBit(bits, i) == bits[Least(i + 1, Len(bits))]

AppendMonitorFrame(bits) == Joined([i \in DOMAIN bits |-> AppendMonitorBit(bits[i], NextBit(bits, i))])

-----------------------------------------------------------------------------
(* What the agent makes of it.                                             *)

\* The value, and the sample rate, in each cycle.
Played(items) == Joined([k \in DOMAIN items |-> [c \in 1 .. items[k].duration |-> items[k].value]])
Rates(items) == Joined([k \in DOMAIN items |-> [c \in 1 .. items[k].duration |-> items[k].rate]])

CyclesOfFrame(bits) == Joined([i \in DOMAIN bits |-> CyclesOf(bits[i])])

\* No time quantum has another length than those of its segment, as Lengthen and
\* Shorten of a single one make it.
Regular(bit) ==
  \A i, j \in DOMAIN bit.tqs :
    (bit.tqs[i].phase = "Ph2" <=> bit.tqs[j].phase = "Ph2")
      => Len(bit.tqs[i].cycles) = Len(bit.tqs[j].cycles)

\* In each cycle the length of its time quantum.
TqLengths(bit) ==
  Joined([i \in DOMAIN bit.tqs |-> [c \in DOMAIN bit.tqs[i].cycles |-> Len(bit.tqs[i].cycles)]])

-----------------------------------------------------------------------------
(* Bits, and what TestSequence takes for granted of them.                  *)

Phases == {"Sync", "Prop", "Ph1", "Ph2"}
Levels == {Dominant, Recessive, Default}
TqSet == [phase : Phases, cycles : Seq(Levels)]

IsBit(bit) == bit.val \in {Dominant, Recessive} /\ bit.tqs \in Seq(TqSet)

\* The last run is put out in the last cycle of the last time quantum: it has one.
EndsWithCycle(bit) == CyclesOf(bit) # <<>> => Last(bit.tqs).cycles # <<>>

\* "Forcing not supported on Bits with Bit-rate shift!"
Unforced(bit) ==
  \A i \in DOMAIN bit.tqs : \A c \in DOMAIN bit.tqs[i].cycles : bit.tqs[i].cycles[c] = Default

\* TSEG2 is behind TSEG1, which begins with Sync.
InSegments(bit) ==
  \E n \in 0 .. Len(bit.tqs) :
    /\ \A i \in DOMAIN bit.tqs : bit.tqs[i].phase = "Ph2" <=> i > n
    /\ n > 0 => bit.tqs[1].phase = "Sync"

\* "Assume first Time quanta length is the same as rest"
OneRate(bit) ==
  \A i, j \in DOMAIN bit.tqs : Len(bit.tqs[i].cycles) = Len(bit.tqs[j].cycles)

\* Items of the monitor can stand for the bit, before that one.
FitsBefore(bit, next) ==
  /\ IsBit(bit) /\ EndsWithCycle(bit)
  /\ Shifts(bit, next) => Unforced(bit) /\ InSegments(bit)
  /\ ~Shifts(bit, next) /\ Regular(bit) => OneRate(bit)

\* Frames that can be made items of.
Fit(drv, mon) ==
  /\ \A i \in DOMAIN drv : IsBit(drv[i]) /\ EndsWithCycle(drv[i])
  /\ \A i \in DOMAIN mon : FitsBefore(mon[i], NextBit(mon, i))

\* The items play the frames, cycle by cycle, and the monitor samples once in each
\* time quantum.
ItemsMatch(drv, mon) ==
  /\ Played(AppendDriverFrame(drv)) = CyclesOfFrame(drv)
  /\ Played(AppendMonitorFrame(mon)) = CyclesOfFrame(mon)
  /\ \A i \in DOMAIN mon :
       Regular(mon[i]) => Rates(AppendMonitorBit(mon[i], NextBit(mon, i))) = TqLengths(mon[i])
=============================================================================
