------------------------ MODULE BitTimingTestsProofs ------------------------
(***************************************************************************)
(* Proofs about bits in time, and about the tests of bit timing.           *)
(*                                                                         *)
(* First, the sample point generators of TestBase, for every bit timing:   *)
(* which sample points are tested, that the DUT can work with each of      *)
(* them, and what becomes of the bit rate.                                 *)
(*                                                                         *)
(* Then the items TestSequence makes, for frames of any length: they play  *)
(* what the bits are, cycle by cycle.                                      *)
(*                                                                         *)
(* Last, no elementary test of the bit timing classes gives the DUT a bit  *)
(* timing it cannot work with, for all timings and outcomes.               *)
(***************************************************************************)
EXTENDS BitTimingTests, LoopProofs, FiniteSetTheorems

\* Room for one sample point at least: or the number of sample points wraps.
RoomForSamplePoint(bt, nominal) ==
  GetBitLenTQ(bt) >=
    (IF nominal THEN IF bt.brp = 1 THEN 8 ELSE IF bt.brp = 2 THEN 5 ELSE IF bt.brp \in {3, 4} THEN 3 ELSE 2
     ELSE IF bt.brp = 1 THEN 5 ELSE IF bt.brp = 2 THEN 3 ELSE 2)

\* The lesser of two numbers is in a range whose end one of them is.
LEMMA LeastInRange ==
  ASSUME NEW a \in Nat, NEW b \in Nat, NEW c \in Nat, c <= a, c <= b
  PROVE  Least(a, b) \in Nat /\ c <= Least(a, b) /\ Least(a, b) <= b
BY DEF Least

\* The greater of two numbers of a limit is within it.
LEMMA GreatestWithin ==
  ASSUME NEW a \in Nat, NEW b \in Nat, NEW c \in Nat, a <= c, b <= c
  PROVE  Greatest(a, b) \in Nat /\ Greatest(a, b) <= c
BY DEF Greatest

\* The numbers of a bit timing.
LEMMA LengthIsNatural ==
  ASSUME NEW bt \in BitTimings
  PROVE  /\ bt.brp \in Nat \ {0} /\ bt.prop \in Nat /\ bt.ph1 \in Nat /\ bt.ph2 \in Nat /\ bt.sjw \in Nat
         /\ GetBitLenTQ(bt) \in Nat \ {0}
BY DEF BitTimings, GetBitLenTQ

\* The least PH1 is one of five.
LEMMA DefaultMinPh1 ==
  ASSUME NEW bt \in BitTimings, NEW nominal \in BOOLEAN
  PROVE  GetDefaultMinPh1(bt, nominal) \in Nat /\ GetDefaultMinPh1(bt, nominal) <= 4
BY LengthIsNatural DEF GetDefaultMinPh1

-----------------------------------------------------------------------------
(* What the generators make.                                               *)

\* TestBase.cpp:848-862: whatever the index and the least PH1 asked for, the timing
\* generated has PH2, no SJW beyond that, and fits the registers of the DUT; a
\* length below zero that wraps is seen.
THEOREM GeneratedWithinRegisters ==
  ASSUME NEW orig \in BitTimings, NEW nominal \in BOOLEAN, NEW minimal_ph1 \in Nat, minimal_ph1 <= MaxLength,
         NEW index \in Nat, 1 <= index, index < GetBitLenTQ(orig)
  PROVE  LET bt == GenerateBitTiming(orig, index, nominal, minimal_ph1)
         IN  /\ bt.brp \in Nat \ {0} /\ bt.brp <= 255 /\ bt.prop = 0
             /\ bt.ph1 \in 0 .. MaxPh(nominal)
             /\ bt.ph2 \in (IF nominal THEN 2 ELSE 1) .. MaxPh(nominal)
             /\ bt.sjw \in 0 .. Least(bt.ph2, 31)
<1> DEFINE init == Greatest(GetDefaultMinPh1(orig, nominal), minimal_ph1)
           ph1 == init + index - 1
           wrapped == Minus(GetBitLenTQ(orig), ph1 + 1)
           ph2 == LegalPh2(wrapped, nominal)
<1>1. /\ orig.brp \in Nat \ {0} /\ orig.sjw \in Nat /\ GetBitLenTQ(orig) \in Nat \ {0}
      /\ GetDefaultMinPh1(orig, nominal) \in Nat /\ GetDefaultMinPh1(orig, nominal) <= 4
  BY LengthIsNatural, DefaultMinPh1
<1>2. init \in Nat /\ init <= MaxLength
  <2>1. GetDefaultMinPh1(orig, nominal) \in Nat /\ GetDefaultMinPh1(orig, nominal) <= MaxLength
    BY <1>1 DEF MaxLength
  <2>2. MaxLength \in Nat BY DEF MaxLength
  <2> QED BY <2>1, <2>2, GreatestWithin
<1> HIDE DEF init
<1>3. ph1 \in Nat BY <1>1, <1>2
<1>4. wrapped \in Nat BY <1>1, <1>2, SizeModAssumption DEF Minus, MaxLength
<1> HIDE DEF ph1, wrapped
<1>5. ph2 \in Nat /\ ph2 >= 1 /\ (nominal => ph2 >= 2) BY <1>4 DEF LegalPh2, PositivePh2, Greatest
<1>6. GenerateBitTiming(orig, index, nominal, minimal_ph1)
        = [brp |-> Least(orig.brp, 255), prop |-> 0, ph1 |-> Least(ph1, MaxPh(nominal)),
           ph2 |-> Least(ph2, MaxPh(nominal)), sjw |-> Least(Least(ph2, orig.sjw), 31)]
  BY DEF GenerateBitTiming, init, ph1, wrapped
<1> HIDE DEF ph2
<1>7. Least(orig.brp, 255) \in Nat /\ 1 <= Least(orig.brp, 255) /\ Least(orig.brp, 255) <= 255
  <2>1. orig.brp \in Nat /\ 1 <= orig.brp BY <1>1
  <2> QED BY <2>1 DEF Least
<1>8. Least(ph1, MaxPh(nominal)) \in 0 .. MaxPh(nominal) BY <1>3 DEF Least, MaxPh
<1>9. Least(ph2, MaxPh(nominal)) \in (IF nominal THEN 2 ELSE 1) .. MaxPh(nominal) BY <1>5 DEF Least, MaxPh
<1>10. Least(Least(ph2, orig.sjw), 31) \in 0 .. Least(Least(ph2, MaxPh(nominal)), 31)
  BY <1>1, <1>5 DEF Least, MaxPh
<1> QED BY <1>6, <1>7, <1>8, <1>9, <1>10

\* Without a least PH1, sample point i leaves all of the bit but one and PH1 to PH2.
LEMMA GeneratedPhases ==
  ASSUME NEW orig \in BitTimings, NEW nominal \in BOOLEAN, RoomForSamplePoint(orig, nominal),
         NEW index \in Nat, 1 <= index, index <= CalcNumSPs(orig, nominal)
  PROVE  LET ph1 == GetDefaultMinPh1(orig, nominal) + index - 1
             ph2 == GetBitLenTQ(orig) - ph1 - 1
             bt == GenerateBitTiming(orig, index, nominal, 0)
         IN  /\ ph1 \in Nat /\ ph2 \in Nat \ {0}
             /\ bt.brp = Least(orig.brp, 255) /\ bt.prop = 0
             /\ bt.ph1 = Least(ph1, MaxPh(nominal))
             /\ ph2 <= MaxLength => bt.ph2 = Least(IF nominal THEN Greatest(ph2, 2) ELSE ph2, MaxPh(nominal))
<1> DEFINE init == GetDefaultMinPh1(orig, nominal)
           len == GetBitLenTQ(orig)
           ph1 == init + index - 1
           ph2 == len - ph1 - 1
<1>1. init \in Nat /\ len \in Nat /\ Greatest(init, 0) = init
  BY DefaultMinPh1, LengthIsNatural DEF Greatest
<1>2. ph1 \in Nat /\ ph2 \in Nat \ {0}
  BY LengthIsNatural DEF CalcNumSPs, Minus, RoomForSamplePoint, GetDefaultMinPh1
<1>3. Minus(len, ph1 + 1) = ph2 BY <1>1, <1>2 DEF Minus
<1> HIDE DEF init, len, ph1, ph2
<1>4. ph2 <= MaxLength => LegalPh2(ph2, nominal) = (IF nominal THEN Greatest(ph2, 2) ELSE ph2)
  BY <1>2 DEF LegalPh2, PositivePh2, MaxLength
<1>5. GenerateBitTiming(orig, index, nominal, 0)
        = [brp |-> Least(orig.brp, 255), prop |-> 0, ph1 |-> Least(ph1, MaxPh(nominal)),
           ph2 |-> Least(LegalPh2(ph2, nominal), MaxPh(nominal)),
           sjw |-> Least(Least(LegalPh2(ph2, nominal), orig.sjw), 31)]
  BY <1>1, <1>3 DEF GenerateBitTiming, init, len, ph1
<1> QED BY <1>2, <1>4, <1>5 DEF init, len, ph1, ph2

\* A length of one time quantum or more is as many cycles as a time quantum, at least.
LEMMA ProductAtLeast ==
  ASSUME NEW a \in Nat, NEW b \in Nat, NEW c \in Nat, 1 <= a, c <= b
  PROVE  a * b >= c
<1>1. (a - 1) * b >= 0 OBVIOUS
<1>2. a * b = (a - 1) * b + b OBVIOUS
<1> QED BY <1>1, <1>2

\* The least PH2 among the sample points counted.
LastPh2(bt, nominal) ==
  IF bt.brp = 1 THEN IF nominal THEN 3 ELSE 2 ELSE IF bt.brp = 2 /\ nominal THEN 2 ELSE 1

\* PH1 grows from the least one, PH2 shrinks to the least one.
LEMMA PhaseBounds ==
  ASSUME NEW orig \in BitTimings, NEW nominal \in BOOLEAN, RoomForSamplePoint(orig, nominal),
         NEW index \in Nat, 1 <= index, index <= CalcNumSPs(orig, nominal)
  PROVE  LET ph1 == GetDefaultMinPh1(orig, nominal) + index - 1
         IN  /\ ph1 >= GetDefaultMinPh1(orig, nominal)
             /\ GetBitLenTQ(orig) - ph1 - 1 >= LastPh2(orig, nominal)
<1>1. /\ orig.brp \in Nat /\ 1 <= orig.brp /\ GetBitLenTQ(orig) \in Nat
      /\ GetDefaultMinPh1(orig, nominal) \in Nat
  BY LengthIsNatural, DefaultMinPh1
<1>2. CalcNumSPs(orig, nominal)
        = GetBitLenTQ(orig) - GetDefaultMinPh1(orig, nominal) - LastPh2(orig, nominal)
  BY <1>1 DEF CalcNumSPs, Minus, RoomForSamplePoint, GetDefaultMinPh1, LastPh2
<1>3. LastPh2(orig, nominal) \in Nat BY DEF LastPh2
<1> QED BY <1>1, <1>2, <1>3

\* TestBase.cpp:774-776: every sample point CalcNumSPs counts leaves TSEG1 and TSEG2
\* their minimal durations, whatever the bit timing.
THEOREM GeneratedLongEnough ==
  ASSUME NEW orig \in BitTimings, NEW nominal \in BOOLEAN, RoomForSamplePoint(orig, nominal),
         GetBitLenTQ(orig) <= MaxLength,
         NEW index \in Nat, 1 <= index, index <= CalcNumSPs(orig, nominal)
  PROVE  LongEnough(GenerateBitTiming(orig, index, nominal, 0), nominal)
<1> DEFINE bt == GenerateBitTiming(orig, index, nominal, 0)
           init == GetDefaultMinPh1(orig, nominal)
           ph1 == init + index - 1
           ph2 == GetBitLenTQ(orig) - ph1 - 1
<1> SUFFICES LongEnough(bt, nominal) OBVIOUS
<1>1. /\ ph1 \in Nat /\ ph2 \in Nat \ {0}
      /\ bt.brp = Least(orig.brp, 255) /\ bt.prop = 0
      /\ bt.ph1 = Least(ph1, MaxPh(nominal))
      /\ ph2 <= MaxLength => bt.ph2 = Least(IF nominal THEN Greatest(ph2, 2) ELSE ph2, MaxPh(nominal))
  BY GeneratedPhases
<1>2. /\ orig.brp \in Nat /\ 1 <= orig.brp /\ init \in Nat /\ init <= 4 /\ GetBitLenTQ(orig) \in Nat
  BY LengthIsNatural, DefaultMinPh1
<1>3. ph1 >= init /\ ph2 >= LastPh2(orig, nominal) BY PhaseBounds
<1>4. ph2 <= MaxLength BY <1>1, <1>2 DEF MaxLength
<1>5. LastPh2(orig, nominal) \in 1 .. 3 BY DEF LastPh2
<1> HIDE DEF bt, ph1, ph2
<1>6. bt.ph1 \in Nat /\ bt.ph1 >= init BY <1>1, <1>2, <1>3 DEF Least, MaxPh
<1>7. /\ bt.ph2 \in Nat /\ bt.ph2 >= LastPh2(orig, nominal) /\ bt.ph2 >= 1
      /\ nominal => bt.ph2 >= 2
  BY <1>1, <1>3, <1>4, <1>5 DEF Least, Greatest, MaxPh
<1>8. bt.brp \in Nat /\ (orig.brp <= 255 => bt.brp = orig.brp) /\ (orig.brp >= 5 => bt.brp >= 5)
  BY <1>1, <1>2 DEF Least
<1>9. Tseg1Len(bt) = bt.ph1 + 1 BY <1>1, <1>6 DEF Tseg1Len
<1>10. CASE orig.brp = 1
  BY <1>6, <1>7, <1>8, <1>9, <1>10 DEF LongEnough, LastPh2, GetDefaultMinPh1
<1>11. CASE orig.brp = 2
  BY <1>6, <1>7, <1>8, <1>9, <1>11 DEF LongEnough, LastPh2, GetDefaultMinPh1
<1>12. CASE orig.brp \in {3, 4}
  <2>1. Tseg1Len(bt) >= 1 /\ (nominal => Tseg1Len(bt) >= 2) /\ Tseg1Len(bt) \in Nat
    BY <1>6, <1>9, <1>12 DEF GetDefaultMinPh1
  <2>2. CASE orig.brp = 3 BY <1>7, <1>8, <2>1, <2>2 DEF LongEnough
  <2>3. CASE orig.brp = 4 BY <1>7, <1>8, <2>1, <2>3 DEF LongEnough
  <2> QED BY <1>12, <2>2, <2>3
<1>13. CASE orig.brp >= 5
  <2>1. bt.brp \in Nat /\ 5 <= bt.brp /\ Tseg1Len(bt) \in Nat /\ 1 <= Tseg1Len(bt)
    BY <1>2, <1>6, <1>8, <1>9, <1>13
  <2>2. Tseg1Len(bt) * bt.brp >= 5 BY <2>1, ProductAtLeast
  <2>3. bt.ph2 * bt.brp >= 5 BY <1>7, <2>1, ProductAtLeast
  <2>4. Tseg1Len(bt) * bt.brp \in Nat /\ bt.ph2 * bt.brp \in Nat BY <1>7, <2>1
  <2> QED BY <2>2, <2>3, <2>4 DEF LongEnough
<1> QED BY <1>2, <1>10, <1>11, <1>12, <1>13

\* No phase of any sample point exceeds its register.
FitsRegisters(bt, nominal) == bt.brp <= 255 /\ GetBitLenTQ(bt) <= MaxPh(nominal)

\* Where the registers are wide enough nothing is cut.
LEMMA NothingCut ==
  ASSUME NEW orig \in BitTimings, NEW nominal \in BOOLEAN, RoomForSamplePoint(orig, nominal),
         FitsRegisters(orig, nominal),
         NEW index \in Nat, 1 <= index, index <= CalcNumSPs(orig, nominal)
  PROVE  LET ph1 == GetDefaultMinPh1(orig, nominal) + index - 1
             ph2 == GetBitLenTQ(orig) - ph1 - 1
             bt == GenerateBitTiming(orig, index, nominal, 0)
         IN  /\ ph1 \in Nat /\ ph2 \in Nat \ {0}
             /\ bt.brp = orig.brp /\ bt.prop = 0 /\ bt.ph1 = ph1
             /\ bt.ph2 = IF nominal THEN Greatest(ph2, 2) ELSE ph2
<1> DEFINE bt == GenerateBitTiming(orig, index, nominal, 0)
           init == GetDefaultMinPh1(orig, nominal)
           ph1 == init + index - 1
           ph2 == GetBitLenTQ(orig) - ph1 - 1
<1> SUFFICES /\ ph1 \in Nat /\ ph2 \in Nat \ {0}
             /\ bt.brp = orig.brp /\ bt.prop = 0 /\ bt.ph1 = ph1
             /\ bt.ph2 = IF nominal THEN Greatest(ph2, 2) ELSE ph2
  OBVIOUS
<1>1. /\ ph1 \in Nat /\ ph2 \in Nat \ {0}
      /\ bt.brp = Least(orig.brp, 255) /\ bt.prop = 0
      /\ bt.ph1 = Least(ph1, MaxPh(nominal))
      /\ ph2 <= MaxLength => bt.ph2 = Least(IF nominal THEN Greatest(ph2, 2) ELSE ph2, MaxPh(nominal))
  BY GeneratedPhases
<1>2. /\ orig.brp \in Nat /\ orig.brp <= 255 /\ init \in Nat
      /\ GetBitLenTQ(orig) \in Nat /\ GetBitLenTQ(orig) <= MaxPh(nominal)
  BY LengthIsNatural, DefaultMinPh1 DEF FitsRegisters
<1>3. MaxPh(nominal) \in Nat /\ 2 <= MaxPh(nominal) /\ MaxPh(nominal) <= MaxLength BY DEF MaxPh, MaxLength
<1>4. ph1 <= MaxPh(nominal) /\ ph2 <= MaxPh(nominal) BY <1>1, <1>2, <1>3
<1> HIDE DEF bt, ph1, ph2
<1>5. Least(orig.brp, 255) = orig.brp /\ Least(ph1, MaxPh(nominal)) = ph1 BY <1>2, <1>4 DEF Least
<1>6. Greatest(ph2, 2) <= MaxPh(nominal) BY <1>1, <1>3, <1>4 DEF Greatest
<1>7. Least(IF nominal THEN Greatest(ph2, 2) ELSE ph2, MaxPh(nominal))
        = IF nominal THEN Greatest(ph2, 2) ELSE ph2
  BY <1>4, <1>6 DEF Least
<1> QED BY <1>1, <1>3, <1>4, <1>5, <1>7 DEF MaxLength

\* TestBase.cpp:829: "Have same bit-rate, but different sample point".  The bit is as
\* long as it was, but for the last sample point where brp >= 3 at the nominal bit
\* rate: there PH2 is one time quantum, and lengthened to two.
THEOREM BitRateKept ==
  ASSUME NEW orig \in BitTimings, NEW nominal \in BOOLEAN, RoomForSamplePoint(orig, nominal),
         FitsRegisters(orig, nominal),
         NEW index \in Nat, 1 <= index, index <= CalcNumSPs(orig, nominal)
  PROVE  LET bt == GenerateBitTiming(orig, index, nominal, 0)
         IN  /\ bt.brp = orig.brp
             /\ GetBitLenTQ(bt) =
                  IF nominal /\ orig.brp >= 3 /\ index = CalcNumSPs(orig, nominal)
                  THEN GetBitLenTQ(orig) + 1 ELSE GetBitLenTQ(orig)
<1> DEFINE bt == GenerateBitTiming(orig, index, nominal, 0)
           init == GetDefaultMinPh1(orig, nominal)
           ph1 == init + index - 1
           ph2 == GetBitLenTQ(orig) - ph1 - 1
<1>1. /\ ph1 \in Nat /\ ph2 \in Nat \ {0}
      /\ bt.brp = orig.brp /\ bt.prop = 0 /\ bt.ph1 = ph1
      /\ bt.ph2 = IF nominal THEN Greatest(ph2, 2) ELSE ph2
  BY NothingCut
<1>2. orig.brp \in Nat /\ 1 <= orig.brp /\ init \in Nat /\ GetBitLenTQ(orig) \in Nat
  BY LengthIsNatural, DefaultMinPh1
<1>3. ph2 >= LastPh2(orig, nominal) BY PhaseBounds
<1>4. CalcNumSPs(orig, nominal) = GetBitLenTQ(orig) - init - LastPh2(orig, nominal)
  BY <1>2 DEF CalcNumSPs, Minus, RoomForSamplePoint, GetDefaultMinPh1, LastPh2
<1>5. LastPh2(orig, nominal) \in Nat BY DEF LastPh2
<1>6. index = CalcNumSPs(orig, nominal) <=> ph2 = LastPh2(orig, nominal) BY <1>2, <1>4, <1>5
<1>7. GetBitLenTQ(orig) = ph1 + ph2 + 1 BY <1>1, <1>2
<1> HIDE DEF bt, ph1, ph2
<1>8. bt.ph2 = IF nominal /\ orig.brp >= 3 /\ ph2 = LastPh2(orig, nominal) THEN ph2 + 1 ELSE ph2
  BY <1>1, <1>2, <1>3 DEF LastPh2, Greatest
<1>9. GetBitLenTQ(bt) = ph1 + bt.ph2 + 1 BY <1>1, <1>8 DEF GetBitLenTQ
<1>10. bt.brp = orig.brp
       /\ GetBitLenTQ(bt) = IF nominal /\ orig.brp >= 3 /\ index = CalcNumSPs(orig, nominal)
                            THEN GetBitLenTQ(orig) + 1 ELSE GetBitLenTQ(orig)
  BY <1>1, <1>6, <1>7, <1>8, <1>9
<1> QED BY <1>10 DEF bt

\* TestBase.cpp:766-797: no sample point the DUT can work with is left out.  Each way
\* to part the bit in PH1 and PH2 that leaves TSEG1 and TSEG2 their minimal durations
\* is the timing of one of the elementary tests.
THEOREM EverySamplePointTested ==
  ASSUME NEW orig \in BitTimings, NEW nominal \in BOOLEAN, RoomForSamplePoint(orig, nominal),
         FitsRegisters(orig, nominal),
         NEW ph1 \in Nat, NEW ph2 \in Nat, ph2 >= 1, nominal => ph2 >= 2,
         ph1 + ph2 + 1 = GetBitLenTQ(orig),
         LongEnough([brp |-> orig.brp, prop |-> 0, ph1 |-> ph1, ph2 |-> ph2, sjw |-> 0], nominal)
  PROVE  \E index \in Nat :
           /\ 1 <= index /\ index <= CalcNumSPs(orig, nominal)
           /\ GenerateBitTiming(orig, index, nominal, 0).ph1 = ph1
           /\ GenerateBitTiming(orig, index, nominal, 0).ph2 = ph2
<1> DEFINE init == GetDefaultMinPh1(orig, nominal)
           index == ph1 - init + 1
<1>1. orig.brp \in Nat /\ 1 <= orig.brp /\ init \in Nat /\ GetBitLenTQ(orig) \in Nat
  BY LengthIsNatural, DefaultMinPh1
<1>2. /\ (1 + ph1) * orig.brp >= (IF nominal THEN 5 ELSE 3)
      /\ ph2 * orig.brp >= (IF nominal THEN 3 ELSE 2)
  BY DEF LongEnough, Tseg1Len
<1>3. ph1 >= init
  <2>1. CASE orig.brp = 1 BY <1>2, <2>1 DEF GetDefaultMinPh1
  <2>2. CASE orig.brp = 2 BY <1>2, <2>2 DEF GetDefaultMinPh1
  <2>3. CASE orig.brp = 3 BY <1>2, <2>3 DEF GetDefaultMinPh1
  <2>4. CASE orig.brp = 4 BY <1>2, <2>4 DEF GetDefaultMinPh1
  <2>5. CASE orig.brp >= 5 BY <1>1, <2>5 DEF GetDefaultMinPh1
  <2> QED BY <1>1, <2>1, <2>2, <2>3, <2>4, <2>5
<1>4. ph2 >= LastPh2(orig, nominal)
  <2>1. CASE orig.brp = 1 BY <1>2, <2>1 DEF LastPh2
  <2>2. CASE orig.brp # 1 BY <1>1, <2>2 DEF LastPh2
  <2> QED BY <2>1, <2>2
<1>5. CalcNumSPs(orig, nominal) = GetBitLenTQ(orig) - init - LastPh2(orig, nominal)
  BY <1>1 DEF CalcNumSPs, Minus, RoomForSamplePoint, GetDefaultMinPh1, LastPh2
<1>6. LastPh2(orig, nominal) \in Nat BY DEF LastPh2
<1>7. index \in Nat /\ 1 <= index /\ index <= CalcNumSPs(orig, nominal)
  BY <1>1, <1>3, <1>4, <1>5, <1>6
<1>8. init + index - 1 = ph1 /\ GetBitLenTQ(orig) - (init + index - 1) - 1 = ph2 BY <1>1
<1>9. Greatest(ph2, 2) = ph2 \/ ~nominal BY DEF Greatest
<1> HIDE DEF index
<1>10. /\ GenerateBitTiming(orig, index, nominal, 0).ph1 = ph1
       /\ GenerateBitTiming(orig, index, nominal, 0).ph2 = IF nominal THEN Greatest(ph2, 2) ELSE ph2
  BY <1>7, <1>8, NothingCut
<1> QED BY <1>7, <1>9, <1>10

-----------------------------------------------------------------------------
(* Timings that are long enough.                                           *)

\* A bit whose segments are long enough has room for a sample point.
LEMMA LongEnoughHasRoom ==
  ASSUME NEW bt \in BitTimings, NEW nominal \in BOOLEAN, LongEnough(bt, nominal)
  PROVE  RoomForSamplePoint(bt, nominal)
<1> DEFINE tseg1 == Tseg1Len(bt)
<1>1. bt.brp \in Nat \ {0} /\ tseg1 \in Nat \ {0} /\ bt.ph2 \in Nat /\ GetBitLenTQ(bt) = tseg1 + bt.ph2
  BY LengthIsNatural DEF Tseg1Len, GetBitLenTQ
<1>2. tseg1 * bt.brp >= (IF nominal THEN 5 ELSE 3) /\ bt.ph2 * bt.brp >= (IF nominal THEN 3 ELSE 2)
  BY DEF LongEnough
<1> HIDE DEF tseg1
<1>3. bt.ph2 >= 1
  <2>1. bt.ph2 # 0
    <3>1. bt.ph2 = 0 => bt.ph2 * bt.brp = 0
      BY <1>1
    <3> QED BY <1>2, <3>1
  <2> QED BY <1>1, <2>1
<1>4. CASE bt.brp = 1
  <2>1. tseg1 * 1 >= (IF nominal THEN 5 ELSE 3) /\ bt.ph2 * 1 >= (IF nominal THEN 3 ELSE 2)
    BY <1>2, <1>4
  <2> QED BY <1>1, <1>4, <2>1 DEF RoomForSamplePoint
<1>5. CASE bt.brp = 2
  <2>1. tseg1 * 2 >= (IF nominal THEN 5 ELSE 3) /\ bt.ph2 * 2 >= (IF nominal THEN 3 ELSE 2)
    BY <1>2, <1>5
  <2> QED BY <1>1, <1>5, <2>1 DEF RoomForSamplePoint
<1>6. CASE bt.brp = 3
  <2>1. tseg1 * 3 >= (IF nominal THEN 5 ELSE 3)
    BY <1>2, <1>6
  <2> QED BY <1>1, <1>3, <1>6, <2>1 DEF RoomForSamplePoint
<1>7. CASE bt.brp = 4
  <2>1. tseg1 * 4 >= (IF nominal THEN 5 ELSE 3)
    BY <1>2, <1>7
  <2> QED BY <1>1, <1>3, <1>7, <2>1 DEF RoomForSamplePoint
<1>8. CASE bt.brp > 4
  BY <1>1, <1>3, <1>8 DEF RoomForSamplePoint
<1> QED BY <1>1, <1>4, <1>5, <1>6, <1>7, <1>8

\* Whatever the sample point asked for, there is a PH2, of two time quanta at the nominal
\* bit rate, and PH1 is no shorter than the least one.
LEMMA AnyIndexPhases ==
  ASSUME NEW orig \in BitTimings, NEW nominal \in BOOLEAN,
         NEW least \in Nat, least <= MaxLength, NEW index \in Nat, 1 <= index, index <= MaxLength
  PROVE  LET bt == GenerateBitTiming(orig, index, nominal, least)
         IN  /\ bt.brp = Least(orig.brp, 255) /\ bt.prop = 0
             /\ bt.ph1 \in Nat /\ bt.ph1 >= GetDefaultMinPh1(orig, nominal)
             /\ bt.ph2 \in Nat /\ bt.ph2 >= 1 /\ (nominal => bt.ph2 >= 2)
<1> DEFINE init == Greatest(GetDefaultMinPh1(orig, nominal), least)
           ph1 == init + index - 1
           wrapped == Minus(GetBitLenTQ(orig), ph1 + 1)
           ph2 == LegalPh2(wrapped, nominal)
<1>1. GetBitLenTQ(orig) \in Nat /\ GetDefaultMinPh1(orig, nominal) \in Nat /\ GetDefaultMinPh1(orig, nominal) <= 4
  BY LengthIsNatural, DefaultMinPh1
<1>2. init \in Nat /\ init >= GetDefaultMinPh1(orig, nominal) /\ init <= MaxLength
  BY <1>1 DEF Greatest, MaxLength
<1> HIDE DEF init
<1>3. ph1 \in Nat /\ ph1 >= GetDefaultMinPh1(orig, nominal) /\ ph1 <= 2 * MaxLength
  BY <1>1, <1>2 DEF MaxLength
<1>4. wrapped \in Nat
  BY <1>1, <1>3, SizeModAssumption DEF Minus, MaxLength
<1> HIDE DEF ph1, wrapped
<1>5. ph2 \in Int /\ ph2 >= 1 /\ (nominal => ph2 >= 2)
  BY <1>4 DEF LegalPh2, PositivePh2, Greatest
<1>6. GenerateBitTiming(orig, index, nominal, least)
        = [brp |-> Least(orig.brp, 255), prop |-> 0, ph1 |-> Least(ph1, MaxPh(nominal)),
           ph2 |-> Least(ph2, MaxPh(nominal)), sjw |-> Least(Least(ph2, orig.sjw), 31)]
  BY DEF GenerateBitTiming, init, ph1, wrapped
<1> HIDE DEF ph2
<1>7. Least(ph1, MaxPh(nominal)) \in Nat /\ Least(ph1, MaxPh(nominal)) >= GetDefaultMinPh1(orig, nominal)
  BY <1>1, <1>3 DEF Least, MaxPh
<1>8. Least(ph2, MaxPh(nominal)) \in Nat /\ Least(ph2, MaxPh(nominal)) >= 1
      /\ (nominal => Least(ph2, MaxPh(nominal)) >= 2)
  BY <1>5 DEF Least, MaxPh
<1> QED BY <1>6, <1>7, <1>8

\* TestBase.cpp:850-853: time quanta of two cycles or more make the least PH2 long
\* enough, whatever the sample point and the least PH1 asked for.
LEMMA AnyIndexLongEnough ==
  ASSUME NEW orig \in BitTimings, NEW nominal \in BOOLEAN, orig.brp >= 2,
         NEW least \in Nat, least <= MaxLength, NEW index \in Nat, 1 <= index, index <= MaxLength
  PROVE  LongEnough(GenerateBitTiming(orig, index, nominal, least), nominal)
<1> DEFINE bt == GenerateBitTiming(orig, index, nominal, least)
           init == GetDefaultMinPh1(orig, nominal)
<1> SUFFICES LongEnough(bt, nominal) OBVIOUS
<1>1. /\ bt.brp = Least(orig.brp, 255) /\ bt.prop = 0
      /\ bt.ph1 \in Nat /\ bt.ph1 >= init
      /\ bt.ph2 \in Nat /\ bt.ph2 >= 1 /\ (nominal => bt.ph2 >= 2)
  BY AnyIndexPhases
<1>2. orig.brp \in Nat /\ init \in Nat
  BY LengthIsNatural, DefaultMinPh1
<1> HIDE DEF bt
<1>3. bt.brp \in Nat /\ bt.brp >= 2 /\ (orig.brp <= 255 => bt.brp = orig.brp) /\ (orig.brp >= 5 => bt.brp >= 5)
  BY <1>1, <1>2 DEF Least
<1>4. Tseg1Len(bt) = bt.ph1 + 1 /\ Tseg1Len(bt) \in Nat /\ Tseg1Len(bt) >= 1
  BY <1>1 DEF Tseg1Len
<1>5. Tseg1Len(bt) * bt.brp \in Nat /\ bt.ph2 * bt.brp \in Nat
  BY <1>1, <1>3, <1>4
<1>6. CASE orig.brp = 2
  BY <1>1, <1>3, <1>4, <1>6 DEF LongEnough, GetDefaultMinPh1
<1>7. CASE orig.brp \in {3, 4}
  <2>1. nominal => Tseg1Len(bt) >= 2
    BY <1>1, <1>4, <1>7 DEF GetDefaultMinPh1
  <2>2. CASE orig.brp = 3 BY <1>1, <1>3, <1>4, <2>1, <2>2 DEF LongEnough
  <2>3. CASE orig.brp = 4 BY <1>1, <1>3, <1>4, <2>1, <2>3 DEF LongEnough
  <2> QED BY <1>7, <2>2, <2>3
<1>8. CASE orig.brp >= 5
  <2>1. bt.brp \in Nat /\ 5 <= bt.brp BY <1>2, <1>3, <1>8
  <2>2. Tseg1Len(bt) * bt.brp >= 5 BY <1>4, <2>1, ProductAtLeast
  <2>3. bt.ph2 * bt.brp >= 5 BY <1>1, <2>1, ProductAtLeast
  <2> QED BY <1>5, <2>2, <2>3 DEF LongEnough
<1> QED BY <1>2, <1>6, <1>7, <1>8

\* Time quanta of one cycle leave room for the sample points counted only, and for no
\* least PH1 that is longer than the one they have anyway.
LEMMA SamplePointLongEnough ==
  ASSUME NEW orig \in BitTimings, NEW nominal \in BOOLEAN,
         LongEnough(orig, nominal), GetBitLenTQ(orig) <= MaxLength,
         NEW least \in Nat, least <= MaxLength, NEW index \in Nat, 1 <= index, index <= MaxLength,
         \/ orig.brp >= 2
         \/ least <= GetDefaultMinPh1(orig, nominal) /\ index <= CalcNumSPs(orig, nominal)
  PROVE  LongEnough(GenerateBitTiming(orig, index, nominal, least), nominal)
<1>1. CASE orig.brp >= 2
  BY <1>1, AnyIndexLongEnough
<1>2. CASE least <= GetDefaultMinPh1(orig, nominal) /\ index <= CalcNumSPs(orig, nominal)
  <2>1. Greatest(GetDefaultMinPh1(orig, nominal), least) = Greatest(GetDefaultMinPh1(orig, nominal), 0)
    BY <1>2, DefaultMinPh1 DEF Greatest
  <2>2. GenerateBitTiming(orig, index, nominal, least) = GenerateBitTiming(orig, index, nominal, 0)
    BY <2>1 DEF GenerateBitTiming
  <2>3. RoomForSamplePoint(orig, nominal) BY LongEnoughHasRoom
  <2>4. LongEnough(GenerateBitTiming(orig, index, nominal, 0), nominal)
    <3>1. index <= CalcNumSPs(orig, nominal) BY <1>2
    <3> QED BY <2>3, <3>1, GeneratedLongEnough
  <2> QED BY <2>2, <2>4
<1> QED BY <1>1, <1>2

\* A product grows with either factor.
LEMMA ProductsAtLeast ==
  ASSUME NEW a \in Nat, NEW b \in Nat, NEW c \in Nat, NEW d \in Nat, c <= a, d <= b
  PROVE  a * b >= c * d
<1>1. (a - c) * b >= 0 /\ a * b = (a - c) * b + c * b OBVIOUS
<1>2. c * (b - d) >= 0 /\ c * b = c * (b - d) + c * d OBVIOUS
<1>3. a * b \in Int /\ c * b \in Int /\ c * d \in Int /\ (a - c) * b \in Int /\ c * (b - d) \in Int OBVIOUS
<1> QED BY <1>1, <1>2, <1>3

\* A time quantum of PH2 and one more in TSEG1 are long enough if time quanta have three
\* cycles; and two of PH2 and two more in TSEG1 are at the data bit rate anyway.
LEMMA ShortPhasesLongEnough ==
  ASSUME NEW bt \in BitTimings, NEW nominal \in BOOLEAN
  PROVE  /\ bt.brp >= 3 /\ Tseg1Len(bt) >= 2 /\ bt.ph2 >= 1 => LongEnough(bt, nominal)
         /\ Tseg1Len(bt) >= 3 /\ bt.ph2 >= 2 /\ ~nominal => LongEnough(bt, nominal)
<1>1. bt.brp \in Nat /\ bt.brp >= 1 /\ Tseg1Len(bt) \in Nat /\ bt.ph2 \in Nat
  BY LengthIsNatural DEF Tseg1Len
<1>2. Tseg1Len(bt) * bt.brp \in Nat /\ bt.ph2 * bt.brp \in Nat BY <1>1
<1>3. bt.brp >= 3 /\ Tseg1Len(bt) >= 2 => Tseg1Len(bt) * bt.brp >= 2 * 3 BY <1>1, ProductsAtLeast
<1>4. bt.brp >= 3 /\ bt.ph2 >= 1 => bt.ph2 * bt.brp >= 1 * 3 BY <1>1, ProductsAtLeast
<1>5. Tseg1Len(bt) >= 3 => Tseg1Len(bt) * bt.brp >= 3 * 1 BY <1>1, ProductsAtLeast
<1>6. bt.ph2 >= 2 => bt.ph2 * bt.brp >= 2 * 1 BY <1>1, ProductsAtLeast
<1> QED BY <1>2, <1>3, <1>4, <1>5, <1>6 DEF LongEnough

\* A data bit of time quanta of three cycles has no more sample points than the nominal
\* bit, if that is no shorter and has time quanta of one cycle.
LEMMA FewerDataSamplePoints ==
  ASSUME NEW n \in BitTimings, NEW d \in BitTimings, LongEnough(n, TRUE), LongEnough(d, FALSE),
         GetBitLenCycles(d) <= GetBitLenCycles(n), n.brp = 1, d.brp >= 3
  PROVE  CalcNumSPs(d, FALSE) <= CalcNumSPs(n, TRUE)
<1> DEFINE dlen == GetBitLenTQ(d)
           nlen == GetBitLenTQ(n)
<1>1. dlen \in Nat /\ nlen \in Nat /\ d.brp \in Nat
  BY LengthIsNatural
<1>2. GetBitLenCycles(d) = dlen * d.brp /\ GetBitLenCycles(n) = nlen
  BY <1>1 DEF GetBitLenCycles
<1>3. \A bt \in BitTimings, nominal \in BOOLEAN : LongEnough(bt, nominal) => RoomForSamplePoint(bt, nominal)
  BY LongEnoughHasRoom
<1>4. RoomForSamplePoint(n, TRUE) /\ RoomForSamplePoint(d, FALSE)
  BY <1>3, Zenon
<1>5. nlen >= 8 /\ dlen >= 2
  BY <1>1, <1>4 DEF RoomForSamplePoint
<1>6. CalcNumSPs(n, TRUE) = nlen - 7 /\ CalcNumSPs(d, FALSE) = dlen - 1
  BY <1>1, <1>5 DEF CalcNumSPs, Minus
<1> HIDE DEF dlen, nlen
<1>7. dlen * d.brp >= dlen * 3 /\ dlen * d.brp \in Nat BY <1>1, ProductsAtLeast
<1>8. dlen * 3 <= nlen BY <1>1, <1>2, <1>7
<1>9. dlen - 1 <= nlen - 7 BY <1>1, <1>5, <1>8
<1> QED BY <1>6, <1>9, Zenon

\* The two bit rates apart; and no index of a sample point is near to where it would wrap.
LEMMA NominalSamplePoint ==
  ASSUME NEW orig \in BitTimings, LongEnough(orig, TRUE), GetBitLenTQ(orig) <= MaxLength,
         NEW least \in {0, 2, 4}, NEW index \in Nat, 1 <= index, index <= MaxLength,
         orig.brp >= 2 \/ index <= CalcNumSPs(orig, TRUE)
  PROVE  LongEnough(GenerateBitTiming(orig, index, TRUE, least), TRUE)
<1>1. ASSUME NEW nominal \in BOOLEAN, LongEnough(orig, nominal),
             orig.brp >= 2 \/ index <= CalcNumSPs(orig, nominal),
             orig.brp = 1 => least <= GetDefaultMinPh1(orig, nominal)
      PROVE  LongEnough(GenerateBitTiming(orig, index, nominal, least), nominal)
  <2>1. orig.brp \in Nat \ {0} /\ least \in Nat /\ least <= MaxLength
    BY LengthIsNatural DEF MaxLength
  <2>2. orig.brp >= 2 \/ (least <= GetDefaultMinPh1(orig, nominal) /\ index <= CalcNumSPs(orig, nominal))
    BY <1>1, <2>1
  <2> QED BY <1>1, <2>1, <2>2, SamplePointLongEnough
<1>2. orig.brp = 1 => least <= GetDefaultMinPh1(orig, TRUE)
  BY DEF GetDefaultMinPh1
<1> QED BY <1>1, <1>2, Zenon

\* With a longer prescaler the data bit rate is long enough at any index.
LEMMA DataSamplePoint ==
  ASSUME NEW orig \in BitTimings, orig.brp >= 2, NEW index \in Nat, 1 <= index, index <= MaxLength
  PROVE  LongEnough(GenerateBitTiming(orig, index, FALSE, 0), FALSE)
<1>1. 0 <= MaxLength
  BY DEF MaxLength
<1>2. \A nominal \in BOOLEAN : LongEnough(GenerateBitTiming(orig, index, nominal, 0), nominal)
  BY <1>1, AnyIndexLongEnough
<1> QED BY <1>2, Zenon

\* There are no more sample points than time quanta in the bit.
LEMMA CountsWithinBit ==
  ASSUME NEW bt \in BitTimings, NEW nominal \in BOOLEAN, LongEnough(bt, nominal)
  PROVE  CalcNumSPs(bt, nominal) <= GetBitLenTQ(bt)
<1>1. bt.brp \in Nat \ {0} /\ GetBitLenTQ(bt) \in Nat BY LengthIsNatural
<1>2. RoomForSamplePoint(bt, nominal) BY LongEnoughHasRoom
<1> QED BY <1>1, <1>2 DEF RoomForSamplePoint, CalcNumSPs, Minus

-----------------------------------------------------------------------------
(* Sequences one behind the other.                                         *)

\* It does not matter which sequences are put together first.
LEMMA Associative ==
  ASSUME NEW S
  PROVE  \A t, u, v \in Seq(S) : (t \o u) \o v = t \o (u \o v)
BY ConcatAssociative

\* The same of three of them.
LEMMA ThreeBehind ==
  ASSUME NEW S, NEW t \in Seq(S), NEW u \in Seq(S), NEW v \in Seq(S)
  PROVE  (t \o u) \o v = t \o (u \o v)
BY Associative

\* What a sequence with another behind it is.
Behind(s, t, all, S) ==
  /\ all \in Seq(S) /\ Len(all) = Len(s) + Len(t)
  /\ \A k \in 1 .. Len(s) : all[k] = s[k]
  /\ \A k \in 1 .. Len(t) : all[Len(s) + k] = t[k]

\* To put one behind the other makes one.
LEMMA ConcatBehind ==
  ASSUME NEW S, NEW s \in Seq(S), NEW t \in Seq(S)
  PROVE  Behind(s, t, s \o t, S)
BY DEF Behind

\* Only one sequence is.
LEMMA BehindConcat ==
  ASSUME NEW S, NEW s \in Seq(S), NEW t \in Seq(S), NEW all, Behind(s, t, all, S)
  PROVE  all = s \o t
<1> PICK both : both = s \o t
  OBVIOUS
<1> PICK n \in Nat, m \in Nat : n = Len(s) /\ m = Len(t)
  OBVIOUS
<1>1. /\ both \in Seq(S) /\ Len(both) = n + m
      /\ \A k \in 1 .. n : both[k] = s[k]
      /\ \A k \in 1 .. m : both[n + k] = t[k]
  BY ConcatBehind DEF Behind
<1>2. /\ all \in Seq(S) /\ Len(all) = n + m
      /\ \A k \in 1 .. n : all[k] = s[k]
      /\ \A k \in 1 .. m : all[n + k] = t[k]
  BY DEF Behind
<1>3. ASSUME NEW k \in 1 .. n + m
      PROVE  all[k] = both[k]
  <2>1. CASE k <= n
    BY <1>1, <1>2, <2>1
  <2>2. CASE k > n
    <3>1. k - n \in 1 .. m /\ n + (k - n) = k
      BY <2>2
    <3> QED BY <1>1, <1>2, <3>1
  <2> QED BY <2>1, <2>2
<1> QED BY <1>1, <1>2, <1>3, SeqEqual

\* The rounds of Joined.
JoinStep(seqs) == [i \in 1 .. Len(seqs) |-> [acc \in {0} |-> [out |-> seqs[i], acc |-> 0]]]

\* Each puts out a sequence.
LEMMA JoinStepType ==
  ASSUME NEW S, NEW seqs \in Seq(Seq(S))
  PROVE  JoinStep(seqs) \in StepFcns(Len(seqs), S, {0})
<1>1. ASSUME NEW i \in 1 .. Len(seqs)
      PROVE  [out |-> seqs[i], acc |-> 0] \in Result(S, {0})
  BY DEF Result
<1> QED BY <1>1 DEF JoinStep, StepFcns

\* Joined, too, is a loop.
LEMMA JoinedTraced ==
  ASSUME NEW S, NEW seqs \in Seq(Seq(S)), seqs # <<>>
  PROVE  \E trace : /\ IsTrace(trace, JoinStep(seqs), 0, Len(seqs), S, {0})
                    /\ Joined(seqs) = trace[Len(seqs)].out
<1> DEFINE step == JoinStep(seqs)
           Eq(rounds) == rounds = [r \in [lo : 1 .. Len(seqs), hi : 1 .. Len(seqs), acc : {0}] |->
             IF r.lo = r.hi THEN [out |-> seqs[r.lo], acc |-> 0]
             ELSE LET mid   == (r.lo + r.hi) \div 2
                      left  == rounds[Rounds(r.lo, mid, r.acc)]
                      right == rounds[Rounds(mid + 1, r.hi, left.acc)]
                  IN  [out |-> left.out \o right.out, acc |-> right.acc]]
<1>1. Len(seqs) \in Nat /\ Len(seqs) > 0 /\ 0 \in {0}
  OBVIOUS
<1>2. step \in StepFcns(Len(seqs), S, {0})
  BY JoinStepType
<1>3. ASSUME NEW r \in Parts(Len(seqs), {0})
      PROVE  step[r.lo][r.acc] = [out |-> seqs[r.lo], acc |-> 0]
  BY DEF Parts, JoinStep
<1>4. Joined(seqs) = (CHOOSE rounds : Eq(rounds))[Rounds(1, Len(seqs), 0)].out
  BY DEF Joined, Loop
<1> HIDE DEF step
<1>5. ASSUME NEW rounds
      PROVE  Eq(rounds) <=> IsLoop(rounds, step, Len(seqs), {0})
  BY <1>3 DEF IsLoop, ByHalves, Parts
<1> HIDE DEF Eq
<1>6. \E rounds : Eq(rounds)
  BY <1>1, <1>2, <1>5, LoopTraced
<1>7. Eq(CHOOSE rounds : Eq(rounds))
  BY <1>6
<1>8. IsLoop(CHOOSE rounds : Eq(rounds), step, Len(seqs), {0})
  BY <1>5, <1>7
<1>9. PICK trace : /\ IsTrace(trace, step, 0, Len(seqs), S, {0})
                   /\ \A rounds : IsLoop(rounds, step, Len(seqs), {0})
                                     => rounds[Rounds(1, Len(seqs), 0)] = trace[Len(seqs)]
  BY <1>1, <1>2, LoopTraced
<1>10. (CHOOSE rounds : Eq(rounds))[Rounds(1, Len(seqs), 0)] = trace[Len(seqs)]
  BY <1>8, <1>9
<1>11. Joined(seqs) = trace[Len(seqs)].out
  BY <1>4, <1>10
<1> QED BY <1>9, <1>11 DEF step

\* Nothing joined is nothing.
LEMMA JoinedNone == Joined(<<>>) = <<>>
<1> SUFFICES ASSUME NEW seqs, seqs = <<>>
             PROVE  Joined(seqs) = <<>>
  OBVIOUS
<1> QED BY Zenon DEF Joined

\* What is joined is a sequence.
LEMMA JoinedType ==
  ASSUME NEW S, NEW seqs \in Seq(Seq(S))
  PROVE  Joined(seqs) \in Seq(S)
<1>1. CASE seqs = <<>>
  <2>1. <<>> \in Seq(S)
    BY EmptySeq
  <2> QED BY <1>1, <2>1, JoinedNone
<1>2. CASE seqs # <<>>
  <2>1. PICK trace : /\ IsTrace(trace, JoinStep(seqs), 0, Len(seqs), S, {0})
                     /\ Joined(seqs) = trace[Len(seqs)].out
    BY <1>2, JoinedTraced
  <2>2. Len(seqs) \in 0 .. Len(seqs)
    OBVIOUS
  <2> QED BY <2>1, <2>2 DEF IsTrace, Result
<1> QED BY <1>1, <1>2

\* One more sequence comes behind the others.
LEMMA JoinedAppend ==
  ASSUME NEW S, NEW seqs \in Seq(Seq(S)), NEW s \in Seq(S)
  PROVE  Joined(Append(seqs, s)) = Joined(seqs) \o s
<1> PICK n \in Nat : n = Len(seqs)
  OBVIOUS
<1> PICK more : more = Append(seqs, s)
  OBVIOUS
<1>1. /\ more \in Seq(Seq(S)) /\ more # <<>> /\ Len(more) = n + 1 /\ more[n + 1] = s
      /\ \A i \in 1 .. n : more[i] = seqs[i]
  OBVIOUS
<1>2. PICK trace : /\ IsTrace(trace, JoinStep(more), 0, n + 1, S, {0})
                   /\ Joined(more) = trace[n + 1].out
  BY <1>1, JoinedTraced
<1>3. OneMore(trace, JoinStep(more), n, S, {0})
  <2>1. n + 1 \in Nat /\ n < n + 1
    OBVIOUS
  <2> QED BY <1>2, <2>1, TraceRound
<1>4. trace[n].acc = 0 /\ trace[n].out \in Seq(S)
  BY <1>3 DEF OneMore, Result
<1>5. JoinStep(more)[n + 1][0].out = s
  <2>1. n + 1 \in 1 .. Len(more)
    BY <1>1
  <2> QED BY <1>1, <2>1 DEF JoinStep
<1>6. trace[n + 1].out = trace[n].out \o s
  BY <1>3, <1>4, <1>5 DEF OneMore
<1>7. trace[n].out = Joined(seqs)
  <2>1. CASE seqs = <<>>
    <3>1. n = 0
      BY <2>1
    <3>2. trace[0].out = <<>>
      BY <1>2 DEF IsTrace
    <3> QED BY <2>1, <3>1, <3>2, JoinedNone
  <2>2. CASE seqs # <<>>
    <3>1. PICK other : /\ IsTrace(other, JoinStep(seqs), 0, n, S, {0})
                       /\ Joined(seqs) = other[n].out
      BY <2>2, JoinedTraced
    <3>2. SameRounds(JoinStep(more), JoinStep(seqs), n, {0})
      <4>1. ASSUME NEW k \in 1 .. n, NEW acc \in {0}
            PROVE  JoinStep(more)[k][acc] = JoinStep(seqs)[k][acc]
        <5>1. k \in 1 .. Len(more) /\ k \in 1 .. Len(seqs)
          BY <1>1
        <5> QED BY <1>1, <5>1 DEF JoinStep
      <4> QED BY <4>1 DEF SameRounds
    <3>3. n <= n + 1 /\ n <= n /\ n + 1 \in Nat /\ n \in 0 .. n
      OBVIOUS
    <3>4. \A k \in 0 .. n : trace[k] = other[k]
      BY <1>2, <3>1, <3>2, <3>3, SameTrace
    <3> QED BY <3>1, <3>3, <3>4
  <2> QED BY <2>1, <2>2
<1> QED BY <1>2, <1>6, <1>7

\* The first elements of a sequence, and the next.
LEMMA FirstOnes ==
  ASSUME NEW S, NEW t \in Seq(S), NEW k \in Nat, k < Len(t)
  PROVE  /\ SubSeq(t, 1, k) \in Seq(S) /\ t[k + 1] \in S
         /\ SubSeq(t, 1, k + 1) = Append(SubSeq(t, 1, k), t[k + 1])
<1>1. \A i \in 1 .. k + 1 : t[i] \in S
  OBVIOUS
<1>2. /\ SubSeq(t, 1, k) \in Seq(S) /\ Len(SubSeq(t, 1, k)) = k
      /\ \A i \in 1 .. k : SubSeq(t, 1, k)[i] = t[i]
  OBVIOUS
<1>3. /\ SubSeq(t, 1, k + 1) \in Seq(S) /\ Len(SubSeq(t, 1, k + 1)) = k + 1
      /\ \A i \in 1 .. k + 1 : SubSeq(t, 1, k + 1)[i] = t[i]
  OBVIOUS
<1> PICK less, all : less = SubSeq(t, 1, k) /\ all = SubSeq(t, 1, k + 1)
  OBVIOUS
<1>4. t[k + 1] \in S
  BY <1>1
<1>5. Append(less, t[k + 1]) \in Seq(S) /\ Len(Append(less, t[k + 1])) = k + 1
  BY <1>2, <1>4
<1>6. ASSUME NEW i \in 1 .. k + 1
      PROVE  Append(less, t[k + 1])[i] = all[i]
  BY <1>2, <1>3, <1>4
<1>7. Append(less, t[k + 1]) = all
  BY <1>3, <1>5, <1>6, SeqEqual
<1> QED BY <1>2, <1>4, <1>7

\* Some sequences joined, and more behind them.
LEMMA JoinedConcat ==
  ASSUME NEW S, NEW seqs \in Seq(Seq(S)), NEW more \in Seq(Seq(S))
  PROVE  Joined(seqs \o more) = Joined(seqs) \o Joined(more)
<1>0. \A t, u, v \in Seq(S) : (t \o u) \o v = t \o (u \o v)
  BY Associative
<1> DEFINE part(k) == SubSeq(more, 1, k)
           good == {k \in Nat : k <= Len(more) => Joined(seqs \o part(k)) = Joined(seqs) \o Joined(part(k))}
<1>1. 0 \in good
  <2>1. part(0) = <<>> /\ seqs \o <<>> = seqs /\ Joined(seqs) \o <<>> = Joined(seqs)
    <3>1. seqs \o <<>> = seqs
      BY ConcatEmptySeq
    <3>2. Joined(seqs) \o <<>> = Joined(seqs)
      BY ConcatEmptySeq, JoinedType
    <3>3. part(0) = <<>>
      BY SubSeqEmpty
    <3> QED BY <3>1, <3>2, <3>3
  <2> QED BY <2>1, JoinedNone
<1>2. ASSUME NEW k \in Nat, k \in good
      PROVE  k + 1 \in good
  <2> SUFFICES ASSUME k + 1 <= Len(more)
               PROVE  Joined(seqs \o part(k + 1)) = Joined(seqs) \o Joined(part(k + 1))
    OBVIOUS
  <2> PICK s, some : s = more[k + 1] /\ some = part(k)
    OBVIOUS
  <2>1. some \in Seq(Seq(S)) /\ s \in Seq(S) /\ part(k + 1) = Append(some, s)
    BY FirstOnes
  <2>2. Joined(seqs \o some) = Joined(seqs) \o Joined(some)
    BY <1>2
  <2>3. seqs \o Append(some, s) = Append(seqs \o some, s) /\ seqs \o some \in Seq(Seq(S))
    BY <2>1
  <2>4. Joined(Append(seqs \o some, s)) = Joined(seqs \o some) \o s
    BY <2>1, <2>3, JoinedAppend
  <2>5. Joined(Append(some, s)) = Joined(some) \o s
    BY <2>1, JoinedAppend
  <2>6. Joined(seqs) \in Seq(S) /\ Joined(some) \in Seq(S)
    BY <2>1, JoinedType
  <2> PICK a, b : a = Joined(seqs) /\ b = Joined(some)
    OBVIOUS
  <2>7. (a \o b) \o s = a \o (b \o s)
    <3>1. a \in Seq(S) /\ b \in Seq(S)
      BY <2>6
    <3> QED BY <1>0, <2>1, <3>1, Zenon
  <2> HIDE DEF part
  <2>8. Joined(seqs \o part(k + 1)) = (a \o b) \o s
    <3>1. Joined(seqs \o some) = a \o b
      BY <2>2
    <3>2. seqs \o part(k + 1) = Append(seqs \o some, s)
      BY <2>1, <2>3
    <3>3. Joined(seqs \o part(k + 1)) = Joined(seqs \o some) \o s
      BY <2>4, <3>2
    <3> QED BY <3>1, <3>3
  <2>9. Joined(part(k + 1)) = b \o s
    BY <2>1, <2>5, Zenon
  <2> QED BY <2>7, <2>8, <2>9, Zenon
<1>3. Len(more) \in good
  <2> HIDE DEF good
  <2>1. Len(more) \in Nat
    OBVIOUS
  <2> QED BY <1>1, <1>2, <2>1, SetInduction
<1>4. part(Len(more)) = more
  BY SubSeqFull
<1> HIDE DEF part
<1> QED BY <1>3, <1>4

\* A sequence joined alone.
LEMMA JoinedOne ==
  ASSUME NEW S, NEW s \in Seq(S)
  PROVE  Joined(<<s>>) = s
<1>1. <<>> \in Seq(Seq(S)) /\ Append(<<>>, s) = <<s>>
  OBVIOUS
<1>2. Joined(Append(<<>>, s)) = Joined(<<>>) \o s
  BY <1>1, JoinedAppend
<1>3. <<>> \o s = s
  BY ConcatEmptySeq
<1> QED BY <1>1, <1>2, <1>3, JoinedNone

\* Some of several sequences.
From(seqs, first, n) == [i \in 1 .. n |-> seqs[first + i - 1]]

\* What it is.
PartOf(part, seqs, first, n, S) ==
  /\ part \in Seq(S) /\ Len(part) = n
  /\ \A i \in 1 .. n : part[i] = seqs[first + i - 1]

\* Some of several sequences are what From takes.
LEMMA FromType ==
  ASSUME NEW S, NEW seqs \in Seq(S), NEW first \in Nat, NEW n \in Nat,
         first > 0, first + n <= Len(seqs) + 1
  PROVE  PartOf(From(seqs, first, n), seqs, first, n, S)
<1>1. \A i \in 1 .. n : first + i - 1 \in 1 .. Len(seqs)
  OBVIOUS
<1>2. \A i \in 1 .. n : seqs[first + i - 1] \in S
  BY <1>1
<1> QED BY <1>2 DEF From, PartOf

\* Sequences are joined if their first ones are, and the others behind them.
LEMMA JoinedSplit ==
  ASSUME NEW S, NEW seqs \in Seq(Seq(S)), NEW n \in Nat, NEW m \in Nat, Len(seqs) = n + m
  PROVE  Joined(seqs) = Joined(From(seqs, 1, n)) \o Joined(From(seqs, n + 1, m))
<1> PICK V : V = Seq(S)
  OBVIOUS
<1>0. seqs \in Seq(V)
  OBVIOUS
<1> PICK one, two : one = From(seqs, 1, n) /\ two = From(seqs, n + 1, m)
  OBVIOUS
<1>1. one \in Seq(V) /\ Len(one) = n /\ \A i \in 1 .. n : one[i] = seqs[i]
  <2>1. PartOf(one, seqs, 1, n, V)
    BY <1>0, FromType
  <2>2. \A i \in 1 .. n : 1 + i - 1 = i
    OBVIOUS
  <2> QED BY <2>1, <2>2 DEF PartOf
<1>2. two \in Seq(V) /\ Len(two) = m /\ \A i \in 1 .. m : two[i] = seqs[n + i]
  <2>1. n + 1 \in Nat /\ n + 1 > 0 /\ n + 1 + m <= Len(seqs) + 1
    OBVIOUS
  <2>2. PartOf(two, seqs, n + 1, m, V)
    BY <1>0, <2>1, FromType
  <2>3. \A i \in 1 .. m : n + 1 + i - 1 = n + i
    OBVIOUS
  <2> QED BY <2>2, <2>3 DEF PartOf
<1>3. seqs = one \o two
  <2>1. seqs \in Seq(V) /\ Len(seqs) = Len(one) + Len(two)
    BY <1>1, <1>2
  <2>2. \A i \in 1 .. Len(one) : seqs[i] = one[i]
    BY <1>1
  <2>3. \A i \in 1 .. Len(two) : seqs[Len(one) + i] = two[i]
    BY <1>1, <1>2
  <2>4. Behind(one, two, seqs, V)
    BY <2>1, <2>2, <2>3 DEF Behind
  <2>5. one \in Seq(V) /\ two \in Seq(V) /\ seqs \in Seq(V)
    BY <1>1, <1>2, <2>1
  <2> QED BY <2>4, <2>5, BehindConcat
<1>4. Joined(one \o two) = Joined(one) \o Joined(two)
  <2>1. one \in Seq(Seq(S)) /\ two \in Seq(Seq(S))
    BY <1>1, <1>2
  <2> QED BY <2>1, JoinedConcat
<1> QED BY <1>3, <1>4

\* Sequences of the same lengths.
Alike(seqs, other, S, T) ==
  /\ seqs \in Seq(Seq(S)) /\ other \in Seq(Seq(T)) /\ Len(seqs) = Len(other)
  /\ \A i \in 1 .. Len(seqs) : Len(seqs[i]) = Len(other[i])

\* Joined, they are as long.
LEMMA AlikeLength ==
  ASSUME NEW S, NEW T, NEW seqs, NEW other, Alike(seqs, other, S, T)
  PROVE  Len(Joined(seqs)) = Len(Joined(other))
<1>0. /\ seqs \in Seq(Seq(S)) /\ other \in Seq(Seq(T)) /\ Len(seqs) = Len(other)
      /\ \A i \in 1 .. Len(seqs) : Len(seqs[i]) = Len(other[i])
  BY DEF Alike
<1> DEFINE some(k) == SubSeq(seqs, 1, k)
           same(k) == SubSeq(other, 1, k)
           good == {k \in Nat : k <= Len(seqs) => Len(Joined(some(k))) = Len(Joined(same(k)))}
<1>1. 0 \in good
  <2>1. some(0) = <<>> /\ same(0) = <<>>
    BY SubSeqEmpty
  <2> QED BY <2>1
<1>2. ASSUME NEW k \in Nat, k \in good
      PROVE  k + 1 \in good
  <2> SUFFICES ASSUME k + 1 <= Len(seqs)
               PROVE  Len(Joined(some(k + 1))) = Len(Joined(same(k + 1)))
    OBVIOUS
  <2>1. k < Len(seqs) /\ k < Len(other) /\ k + 1 \in 1 .. Len(seqs)
    BY <1>0
  <2> PICK one, two, s, t : one = some(k) /\ two = same(k) /\ s = seqs[k + 1] /\ t = other[k + 1]
    OBVIOUS
  <2>2. one \in Seq(Seq(S)) /\ s \in Seq(S) /\ some(k + 1) = Append(one, s)
    BY <1>0, <2>1, FirstOnes
  <2>3. two \in Seq(Seq(T)) /\ t \in Seq(T) /\ same(k + 1) = Append(two, t)
    BY <1>0, <2>1, FirstOnes
  <2>4. Len(Joined(one)) = Len(Joined(two)) /\ Len(s) = Len(t)
    BY <1>0, <1>2, <2>1
  <2> HIDE DEF some, same, good
  <2>5. Len(Joined(Append(one, s))) = Len(Joined(one)) + Len(s)
    <3>1. Joined(Append(one, s)) = Joined(one) \o s /\ Joined(one) \in Seq(S)
      BY <2>2, JoinedAppend, JoinedType
    <3> QED BY <2>2, <3>1
  <2>6. Len(Joined(Append(two, t))) = Len(Joined(two)) + Len(t)
    <3>1. Joined(Append(two, t)) = Joined(two) \o t /\ Joined(two) \in Seq(T)
      BY <2>3, JoinedAppend, JoinedType
    <3> QED BY <2>3, <3>1
  <2> QED BY <2>2, <2>3, <2>4, <2>5, <2>6
<1>3. Len(seqs) \in good
  <2> HIDE DEF good
  <2>1. Len(seqs) \in Nat
    BY <1>0
  <2> QED BY <1>1, <1>2, <2>1, SetInduction
<1>4. some(Len(seqs)) = seqs /\ same(Len(seqs)) = other
  BY <1>0, SubSeqFull
<1> HIDE DEF some, same
<1> QED BY <1>3, <1>4

\* Of one value there is one sequence of a length.
LEMMA OneSequence ==
  ASSUME NEW val, NEW s \in Seq({val}), NEW t \in Seq({val}), Len(s) = Len(t)
  PROVE  s = t
<1>1. \A i \in 1 .. Len(s) : s[i] = val /\ t[i] = val
  OBVIOUS
<1> QED BY <1>1, SeqEqual

-----------------------------------------------------------------------------
(* What items play.                                                        *)

\* A value in some cycles.
Rep(val, n) == [c \in 1 .. n |-> val]

\* Items with values in V.
AreItems(I, V) == \A item \in I : item.value \in V /\ item.duration \in Nat

\* What each item plays.
Reps(items) == [k \in DOMAIN items |-> Rep(items[k].value, items[k].duration)]

\* A value in one cycle more.
LEMMA RepMore ==
  ASSUME NEW V, NEW v \in V, NEW n \in Nat
  PROVE  /\ Rep(v, n) \in Seq(V) /\ Rep(v, 1) = <<v>>
         /\ Rep(v, n + 1) = Append(Rep(v, n), v)
<1>1. Rep(v, n) \in Seq(V) /\ Len(Rep(v, n)) = n /\ \A c \in 1 .. n : Rep(v, n)[c] = v
  BY DEF Rep
<1>2. /\ Rep(v, n + 1) \in Seq(V) /\ Len(Rep(v, n + 1)) = n + 1
      /\ \A c \in 1 .. n + 1 : Rep(v, n + 1)[c] = v
  BY DEF Rep
<1> PICK less, more : less = Rep(v, n) /\ more = Rep(v, n + 1)
  OBVIOUS
<1>3. Append(less, v) \in Seq(V) /\ Len(Append(less, v)) = n + 1
  BY <1>1
<1>4. ASSUME NEW c \in 1 .. n + 1
      PROVE  Append(less, v)[c] = more[c]
  BY <1>1, <1>2
<1>5. Append(less, v) = more
  BY <1>2, <1>3, <1>4, SeqEqual
<1>6. Rep(v, 1) = <<v>>
  BY DEF Rep
<1> QED BY <1>1, <1>5, <1>6

\* Functions that make a sequence of an item.
Maps(f, I, V) == f \in [I -> Seq(V)]

\* Items, and what a function makes of each.
Mapped(items, f) == [k \in DOMAIN items |-> f[items[k]]]

\* What it makes of items, one by one.
MapOf(parts, items, f, V) ==
  /\ parts \in Seq(Seq(V)) /\ Len(parts) = Len(items)
  /\ \A k \in 1 .. Len(items) : parts[k] = f[items[k]]

\* What is made of items is a sequence of sequences.
LEMMA MappedType ==
  ASSUME NEW V, NEW I, NEW f, Maps(f, I, V), NEW items \in Seq(I)
  PROVE  MapOf(Mapped(items, f), items, f, V)
<1>1. DOMAIN items = 1 .. Len(items) /\ Len(items) \in Nat
  OBVIOUS
<1>2. \A k \in 1 .. Len(items) : f[items[k]] \in Seq(V)
  BY DEF Maps
<1> QED BY <1>1, <1>2 DEF Mapped, MapOf

\* Of several items it makes a sequence.
LEMMA MappedJoined ==
  ASSUME NEW V, NEW I, NEW f, Maps(f, I, V), NEW items \in Seq(I)
  PROVE  Joined(Mapped(items, f)) \in Seq(V)
<1>1. Mapped(items, f) \in Seq(Seq(V))
  BY MappedType DEF MapOf
<1> QED BY <1>1, JoinedType

\* Of an item alone that of the item.
LEMMA MappedOne ==
  ASSUME NEW V, NEW I, NEW f, Maps(f, I, V), NEW item \in I
  PROVE  Joined(Mapped(<<item>>, f)) = f[item]
<1> SUFFICES ASSUME NEW items, items = <<item>>
             PROVE  Joined(Mapped(items, f)) = f[item]
  OBVIOUS
<1>1. Mapped(items, f) = <<f[item]>>
  BY DEF Mapped
<1>2. f[item] \in Seq(V)
  BY DEF Maps
<1> QED BY <1>1, <1>2, JoinedOne

\* Of items with more behind them that of both.
LEMMA MappedConcat ==
  ASSUME NEW V, NEW I, NEW f, Maps(f, I, V), NEW items \in Seq(I), NEW more \in Seq(I)
  PROVE  Joined(Mapped(items \o more, f)) = Joined(Mapped(items, f)) \o Joined(Mapped(more, f))
<1> PICK all : all = items \o more
  OBVIOUS
<1> PICK n \in Nat, m \in Nat : n = Len(items) /\ m = Len(more)
  OBVIOUS
<1>1. /\ all \in Seq(I) /\ Len(all) = n + m
      /\ \A k \in 1 .. n : all[k] = items[k]
      /\ \A k \in 1 .. m : all[n + k] = more[k]
  BY ConcatBehind DEF Behind
<1> PICK one, two, both : one = Mapped(items, f) /\ two = Mapped(more, f) /\ both = Mapped(all, f)
  OBVIOUS
<1>2. one \in Seq(Seq(V)) /\ Len(one) = n /\ \A k \in 1 .. n : one[k] = f[items[k]]
  <2>1. MapOf(one, items, f, V)
    BY MappedType
  <2> QED BY <2>1 DEF MapOf
<1>3. two \in Seq(Seq(V)) /\ Len(two) = m /\ \A k \in 1 .. m : two[k] = f[more[k]]
  <2>1. MapOf(two, more, f, V)
    BY MappedType
  <2> QED BY <2>1 DEF MapOf
<1>4. both \in Seq(Seq(V)) /\ Len(both) = n + m /\ \A k \in 1 .. n + m : both[k] = f[all[k]]
  <2>1. MapOf(both, all, f, V)
    <3>1. all \in Seq(I)
      BY <1>1
    <3> QED BY <3>1, MappedType
  <2>2. Len(all) = n + m
    BY <1>1
  <2> QED BY <2>1, <2>2 DEF MapOf
<1>5. ASSUME NEW k \in 1 .. n
      PROVE  both[k] = one[k]
  <2>1. k \in 1 .. n + m
    OBVIOUS
  <2>2. all[k] = items[k]
    BY <1>1
  <2>3. both[k] = f[all[k]]
    BY <1>4, <2>1
  <2>4. one[k] = f[items[k]]
    BY <1>2
  <2> QED BY <2>2, <2>3, <2>4
<1>6. ASSUME NEW k \in 1 .. m
      PROVE  both[n + k] = two[k]
  <2>1. n + k \in 1 .. n + m
    OBVIOUS
  <2>2. all[n + k] = more[k]
    BY <1>1
  <2>3. both[n + k] = f[all[n + k]]
    BY <1>4, <2>1
  <2>4. two[k] = f[more[k]]
    BY <1>3
  <2> QED BY <2>2, <2>3, <2>4
<1>7. both = one \o two
  <2>1. Behind(one, two, both, Seq(V))
    BY <1>2, <1>3, <1>4, <1>5, <1>6 DEF Behind
  <2> QED BY <1>2, <1>3, <2>1, BehindConcat
<1>8. Joined(one \o two) = Joined(one) \o Joined(two)
  BY <1>2, <1>3, JoinedConcat
<1> QED BY <1>7, <1>8

\* What an item plays.
PlayOf(I) == [item \in I |-> Rep(item.value, item.duration)]

\* To play items is to make a sequence of each.
LEMMA PlayedMapped ==
  ASSUME NEW V, NEW I, AreItems(I, V), NEW items \in Seq(I)
  PROVE  Maps(PlayOf(I), I, V) /\ Played(items) = Joined(Mapped(items, PlayOf(I)))
<1>1. ASSUME NEW item \in I
      PROVE  Rep(item.value, item.duration) \in Seq(V)
  <2>1. item.value \in V /\ item.duration \in Nat
    BY DEF AreItems
  <2> QED BY <2>1, RepMore
<1>2. \A k \in DOMAIN items : items[k] \in I
  OBVIOUS
<1>3. Mapped(items, PlayOf(I)) = Reps(items)
  BY <1>2 DEF Mapped, PlayOf, Reps
<1>4. Played(items) = Joined(Reps(items))
  BY DEF Played, Reps, Rep
<1> QED BY <1>1, <1>3, <1>4 DEF PlayOf, Maps

\* What items play is a sequence of their values.
LEMMA PlayedType ==
  ASSUME NEW V, NEW I, AreItems(I, V), NEW items \in Seq(I)
  PROVE  Played(items) \in Seq(V)
<1>1. Maps(PlayOf(I), I, V) /\ Played(items) = Joined(Mapped(items, PlayOf(I)))
  BY PlayedMapped
<1> QED BY <1>1, MappedJoined

\* No item plays nothing.
LEMMA PlayedNone == Played(<<>>) = <<>>
<1> SUFFICES ASSUME NEW items, items = <<>>
             PROVE  Played(items) = <<>>
  OBVIOUS
<1>1. Reps(items) = <<>>
  BY DEF Reps
<1>2. Played(items) = Joined(Reps(items))
  BY DEF Played, Reps, Rep
<1> QED BY <1>1, <1>2, JoinedNone

\* An item alone.
LEMMA PlayedOne ==
  ASSUME NEW V, NEW I, AreItems(I, V), NEW item \in I
  PROVE  Played(<<item>>) = Rep(item.value, item.duration)
<1>1. <<item>> \in Seq(I)
  OBVIOUS
<1>2. Maps(PlayOf(I), I, V) /\ Played(<<item>>) = Joined(Mapped(<<item>>, PlayOf(I)))
  BY <1>1, PlayedMapped
<1>3. Joined(Mapped(<<item>>, PlayOf(I))) = PlayOf(I)[item]
  BY <1>2, MappedOne
<1> QED BY <1>2, <1>3 DEF PlayOf

\* Items, and more behind them.
LEMMA PlayedConcat ==
  ASSUME NEW V, NEW I, AreItems(I, V), NEW items \in Seq(I), NEW more \in Seq(I)
  PROVE  Played(items \o more) = Played(items) \o Played(more)
<1>1. \A some \in Seq(I) : Played(some) = Joined(Mapped(some, PlayOf(I)))
  BY PlayedMapped
<1>2. Maps(PlayOf(I), I, V)
  BY PlayedMapped
<1>3. Joined(Mapped(items \o more, PlayOf(I)))
        = Joined(Mapped(items, PlayOf(I))) \o Joined(Mapped(more, PlayOf(I)))
  BY <1>2, MappedConcat
<1>4. items \o more \in Seq(I)
  OBVIOUS
<1> QED BY <1>1, <1>3, <1>4

\* The same, of any two.
LEMMA PlayedConcats ==
  ASSUME NEW V, NEW I, AreItems(I, V)
  PROVE  \A items, more \in Seq(I) : Played(items \o more) = Played(items) \o Played(more)
BY PlayedConcat

-----------------------------------------------------------------------------
(* Runs of equal cycles.                                                   *)

\* The values of cycles.
CycleVals == {Dominant, Recessive}

\* The runs of a bit are items.
LEMMA RunsAreItems == AreItems(CycleRuns, CycleVals)
BY DEF AreItems, CycleRuns, CycleVals

\* What a run plays.
RepRun(run) == Rep(run.value, run.duration)

\* What a cycle puts out of the run before it.
EndedRun(run, val) == If(val # run.value, <<run>>)

\* The rounds of RunsOf.
RunStep(vals, last) ==
  [c \in 1 .. Len(vals) |->
     [run \in CycleRuns |->
        [out |-> EndedRun(run, vals[c]) \o If(c = last, <<NextRun(run, vals[c])>>),
         acc |-> NextRun(run, vals[c])]]]

\* A run and the cycle behind it: what is put out and what is left play both.
LEMMA NextRunPlays ==
  ASSUME NEW run \in CycleRuns, NEW val \in CycleVals
  PROVE  /\ NextRun(run, val) \in CycleRuns /\ EndedRun(run, val) \in Seq(CycleRuns)
         /\ RepRun(run) \in Seq(CycleVals) /\ RepRun(NextRun(run, val)) \in Seq(CycleVals)
         /\ Played(EndedRun(run, val)) \o RepRun(NextRun(run, val)) = Append(RepRun(run), val)
<1>1. run.value \in CycleVals /\ run.duration \in Nat
  BY DEF CycleRuns, CycleVals
<1> PICK next : next = NextRun(run, val)
  OBVIOUS
<1>2. next \in CycleRuns
  BY <1>1 DEF NextRun, DrvItem, CycleRuns, CycleVals
<1>3. next.value = val /\ next.duration = IF val = run.value THEN run.duration + 1 ELSE 1
  BY DEF NextRun, DrvItem
<1>4. EndedRun(run, val) \in Seq(CycleRuns)
  BY DEF EndedRun, If
<1>5. RepRun(run) \in Seq(CycleVals) /\ RepRun(next) \in Seq(CycleVals)
  <2>1. next.value \in CycleVals /\ next.duration \in Nat
    BY <1>2 DEF CycleRuns, CycleVals
  <2> QED BY <1>1, <2>1, RepMore DEF RepRun
<1>6. CASE val = run.value
  <2>1. RepRun(next) = Append(RepRun(run), val)
    BY <1>1, <1>3, <1>6, RepMore DEF RepRun
  <2>2. EndedRun(run, val) = <<>>
    BY <1>6 DEF EndedRun, If
  <2>3. <<>> \o RepRun(next) = RepRun(next)
    BY <1>5, ConcatEmptySeq
  <2> QED BY <1>2, <1>4, <1>5, <2>1, <2>2, <2>3, PlayedNone
<1>7. CASE val # run.value
  <2>1. RepRun(next) = <<val>>
    BY <1>1, <1>3, <1>7, RepMore DEF RepRun
  <2>2. EndedRun(run, val) = <<run>>
    BY <1>7 DEF EndedRun, If
  <2>3. Played(<<run>>) = RepRun(run)
    BY RunsAreItems, PlayedOne DEF RepRun
  <2>4. RepRun(run) \o <<val>> = Append(RepRun(run), val)
    BY <1>5, AppendIsConcat
  <2> QED BY <1>2, <1>4, <1>5, <2>1, <2>2, <2>3, <2>4
<1> QED BY <1>6, <1>7

\* Each round puts out runs and leaves one.
LEMMA RunStepType ==
  ASSUME NEW vals \in Seq(CycleVals), NEW last
  PROVE  RunStep(vals, last) \in StepFcns(Len(vals), CycleRuns, CycleRuns)
<1>1. ASSUME NEW c \in 1 .. Len(vals), NEW run \in CycleRuns
      PROVE  [out |-> EndedRun(run, vals[c]) \o If(c = last, <<NextRun(run, vals[c])>>),
              acc |-> NextRun(run, vals[c])] \in Result(CycleRuns, CycleRuns)
  <2>1. vals[c] \in CycleVals
    OBVIOUS
  <2>2. NextRun(run, vals[c]) \in CycleRuns /\ EndedRun(run, vals[c]) \in Seq(CycleRuns)
    BY <2>1, NextRunPlays
  <2>3. If(c = last, <<NextRun(run, vals[c])>>) \in Seq(CycleRuns)
    BY <2>2 DEF If
  <2>4. EndedRun(run, vals[c]) \o If(c = last, <<NextRun(run, vals[c])>>) \in Seq(CycleRuns)
    BY <2>2, <2>3
  <2> QED BY <2>2, <2>4 DEF Result
<1> QED BY <1>1 DEF RunStep, StepFcns

\* RunsOf is a loop.
LEMMA RunsTraced ==
  ASSUME NEW vals \in Seq(CycleVals), NEW val \in CycleVals, NEW last, vals # <<>>
  PROVE  \E trace : /\ IsTrace(trace, RunStep(vals, last), DrvItem(val, 0), Len(vals), CycleRuns, CycleRuns)
                    /\ RunsOf(vals, val, last) = trace[Len(vals)].out
<1> DEFINE step == RunStep(vals, last)
           first == DrvItem(val, 0)
           Eq(rounds) == rounds = [r \in [lo : 1 .. Len(vals), hi : 1 .. Len(vals), acc : CycleRuns] |->
             IF r.lo = r.hi
             THEN [out |-> If(vals[r.lo] # r.acc.value, <<r.acc>>) \o If(r.lo = last, <<NextRun(r.acc, vals[r.lo])>>),
                   acc |-> NextRun(r.acc, vals[r.lo])]
             ELSE LET mid   == (r.lo + r.hi) \div 2
                      left  == rounds[Rounds(r.lo, mid, r.acc)]
                      right == rounds[Rounds(mid + 1, r.hi, left.acc)]
                  IN  [out |-> left.out \o right.out, acc |-> right.acc]]
<1>1. Len(vals) \in Nat /\ Len(vals) > 0
  OBVIOUS
<1>2. first \in CycleRuns
  BY DEF DrvItem, CycleRuns, CycleVals
<1>3. step \in StepFcns(Len(vals), CycleRuns, CycleRuns)
  BY RunStepType
<1>4. ASSUME NEW r \in Parts(Len(vals), CycleRuns)
      PROVE  step[r.lo][r.acc]
               = [out |-> If(vals[r.lo] # r.acc.value, <<r.acc>>) \o If(r.lo = last, <<NextRun(r.acc, vals[r.lo])>>),
                  acc |-> NextRun(r.acc, vals[r.lo])]
  BY DEF Parts, RunStep, EndedRun
<1>5. RunsOf(vals, val, last) = (CHOOSE rounds : Eq(rounds))[Rounds(1, Len(vals), first)].out
  BY DEF RunsOf, Loop
<1> HIDE DEF step, first
<1>6. ASSUME NEW rounds
      PROVE  Eq(rounds) <=> IsLoop(rounds, step, Len(vals), CycleRuns)
  BY <1>4 DEF IsLoop, ByHalves, Parts
<1> HIDE DEF Eq
<1>7. \E rounds : Eq(rounds)
  BY <1>1, <1>2, <1>3, <1>6, LoopTraced
<1>8. Eq(CHOOSE rounds : Eq(rounds))
  BY <1>7
<1>9. IsLoop(CHOOSE rounds : Eq(rounds), step, Len(vals), CycleRuns)
  BY <1>6, <1>8
<1>10. PICK trace : /\ IsTrace(trace, step, first, Len(vals), CycleRuns, CycleRuns)
                   /\ \A rounds : IsLoop(rounds, step, Len(vals), CycleRuns)
                                     => rounds[Rounds(1, Len(vals), first)] = trace[Len(vals)]
  BY <1>1, <1>2, <1>3, LoopTraced
<1>11. (CHOOSE rounds : Eq(rounds))[Rounds(1, Len(vals), first)] = trace[Len(vals)]
  BY <1>9, <1>10
<1>12. RunsOf(vals, val, last) = trace[Len(vals)].out
  BY <1>5, <1>11
<1> QED BY <1>10, <1>12 DEF step, first

\* Runs, and more behind them.
LEMMA RunsConcat ==
  ASSUME NEW out \in Seq(CycleRuns), NEW more \in Seq(CycleRuns)
  PROVE  Played(out \o more) = Played(out) \o Played(more)
BY RunsAreItems, PlayedConcat

\* Runs, one more cycle, and the run it leaves.
LEMMA RoundPlays ==
  ASSUME NEW out \in Seq(CycleRuns), NEW run \in CycleRuns, NEW val \in CycleVals
  PROVE  /\ Played(out) \in Seq(CycleVals) /\ out \o EndedRun(run, val) \in Seq(CycleRuns)
         /\ Played(out \o EndedRun(run, val)) \o RepRun(NextRun(run, val))
              = Append(Played(out) \o RepRun(run), val)
<1> PICK ended, next : ended = EndedRun(run, val) /\ next = NextRun(run, val)
  OBVIOUS
<1>1. /\ ended \in Seq(CycleRuns) /\ RepRun(run) \in Seq(CycleVals) /\ RepRun(next) \in Seq(CycleVals)
      /\ Played(ended) \o RepRun(next) = Append(RepRun(run), val)
  BY NextRunPlays
<1> PICK before, after, rest, more : /\ before = Played(out) /\ after = RepRun(next)
                                     /\ rest = RepRun(run) /\ more = Played(ended)
  OBVIOUS
<1>2. before \in Seq(CycleVals) /\ more \in Seq(CycleVals)
  BY <1>1, RunsAreItems, PlayedType
<1>3. Played(out \o ended) = before \o more
  BY <1>1, RunsConcat
<1>4. (before \o more) \o after = before \o (more \o after)
  <2>1. after \in Seq(CycleVals)
    BY <1>1
  <2> QED BY <1>2, <2>1, ThreeBehind
<1>5. before \o Append(rest, val) = Append(before \o rest, val)
  <2>1. rest \in Seq(CycleVals)
    BY <1>1
  <2> QED BY <1>2, <2>1
<1>6. more \o after = Append(rest, val)
  BY <1>1
<1>7. Played(out \o ended) \o after = Append(before \o rest, val)
  BY <1>3, <1>4, <1>5, <1>6
<1>8. out \o ended \in Seq(CycleRuns)
  BY <1>1
<1> QED BY <1>2, <1>7, <1>8

\* The last run is put out behind those before it.
LEMMA LastRunPlays ==
  ASSUME NEW out \in Seq(CycleRuns), NEW ended \in Seq(CycleRuns), NEW next \in CycleRuns
  PROVE  /\ out \o (ended \o <<next>>) \in Seq(CycleRuns)
         /\ Played(out \o (ended \o <<next>>)) = Played(out \o ended) \o RepRun(next)
<1> PICK new : new = <<next>>
  OBVIOUS
<1>1. new \in Seq(CycleRuns)
  OBVIOUS
<1>2. (out \o ended) \o new = out \o (ended \o new)
  BY <1>1, ThreeBehind
<1>3. out \o ended \in Seq(CycleRuns)
  OBVIOUS
<1>4. Played((out \o ended) \o new) = Played(out \o ended) \o Played(new)
  BY <1>1, <1>3, RunsConcat
<1>5. Played(new) = RepRun(next)
  BY RunsAreItems, PlayedOne DEF RepRun
<1>6. (out \o ended) \o new \in Seq(CycleRuns)
  BY <1>1, <1>3
<1> QED BY <1>2, <1>4, <1>5, <1>6

\* The runs of cycles play the cycles.
LEMMA RunsPlay ==
  ASSUME NEW vals \in Seq(CycleVals), NEW val \in CycleVals, vals # <<>>
  PROVE  /\ RunsOf(vals, val, Len(vals)) \in Seq(CycleRuns)
         /\ Played(RunsOf(vals, val, Len(vals))) = vals
<1> PICK n \in Nat : n = Len(vals)
  OBVIOUS
<1>1. n > 0 /\ n - 1 \in Nat /\ n - 1 < n /\ (n - 1) + 1 = n
  OBVIOUS
<1> PICK step : step = RunStep(vals, n)
  OBVIOUS
<1>2. PICK trace : /\ IsTrace(trace, step, DrvItem(val, 0), n, CycleRuns, CycleRuns)
                   /\ RunsOf(vals, val, n) = trace[n].out
  BY RunsTraced
<1>3. ASSUME NEW k \in Nat, k < n
      PROVE  /\ trace[k].out \in Seq(CycleRuns) /\ trace[k].acc \in CycleRuns
             /\ vals[k + 1] \in CycleVals
             /\ trace[k + 1].acc = NextRun(trace[k].acc, vals[k + 1])
             /\ trace[k + 1].out = trace[k].out \o (EndedRun(trace[k].acc, vals[k + 1])
                                     \o If(k + 1 = n, <<NextRun(trace[k].acc, vals[k + 1])>>))
  <2>1. OneMore(trace, step, k, CycleRuns, CycleRuns)
    BY <1>2, <1>3, TraceRound
  <2>2. trace[k].out \in Seq(CycleRuns) /\ trace[k].acc \in CycleRuns
    BY <2>1 DEF OneMore, Result
  <2>3. k + 1 \in 1 .. Len(vals)
    BY <1>3
  <2>4. vals[k + 1] \in CycleVals
    BY <2>3
  <2>5. step[k + 1][trace[k].acc]
          = [out |-> EndedRun(trace[k].acc, vals[k + 1])
                     \o If(k + 1 = n, <<NextRun(trace[k].acc, vals[k + 1])>>),
             acc |-> NextRun(trace[k].acc, vals[k + 1])]
    BY <2>2, <2>3 DEF RunStep
  <2> PICK result : result = step[k + 1][trace[k].acc]
    OBVIOUS
  <2>6. trace[k + 1].out = trace[k].out \o result.out /\ trace[k + 1].acc = result.acc
    BY <2>1 DEF OneMore
  <2>7. /\ result.out = EndedRun(trace[k].acc, vals[k + 1])
                        \o If(k + 1 = n, <<NextRun(trace[k].acc, vals[k + 1])>>)
        /\ result.acc = NextRun(trace[k].acc, vals[k + 1])
    BY <2>5
  <2>8. /\ trace[k + 1].acc = NextRun(trace[k].acc, vals[k + 1])
        /\ trace[k + 1].out = trace[k].out \o (EndedRun(trace[k].acc, vals[k + 1])
                                \o If(k + 1 = n, <<NextRun(trace[k].acc, vals[k + 1])>>))
    BY <2>6, <2>7, Zenon
  <2> QED BY <2>2, <2>4, <2>8
<1> DEFINE good == {k \in Nat : k < n => Played(trace[k].out) \o RepRun(trace[k].acc) = SubSeq(vals, 1, k)}
<1>4. 0 \in good
  <2>1. trace[0].out = <<>> /\ trace[0].acc = DrvItem(val, 0)
    BY <1>2 DEF IsTrace
  <2>2. RepRun(DrvItem(val, 0)) = <<>>
    BY DEF RepRun, Rep, DrvItem
  <2>3. SubSeq(vals, 1, 0) = <<>>
    BY SubSeqEmpty
  <2>4. <<>> \o <<>> = <<>>
    OBVIOUS
  <2> QED BY <2>1, <2>2, <2>3, <2>4, PlayedNone
<1>5. ASSUME NEW k \in Nat, k < n, k \in good
      PROVE  LET out == trace[k].out
                 run == trace[k].acc
             IN  /\ out \o EndedRun(run, vals[k + 1]) \in Seq(CycleRuns)
                 /\ Played(out \o EndedRun(run, vals[k + 1])) \o RepRun(NextRun(run, vals[k + 1]))
                      = SubSeq(vals, 1, k + 1)
  <2> PICK out, run, v : out = trace[k].out /\ run = trace[k].acc /\ v = vals[k + 1]
    OBVIOUS
  <2>1. out \in Seq(CycleRuns) /\ run \in CycleRuns /\ v \in CycleVals
    BY <1>3, <1>5
  <2>2. /\ out \o EndedRun(run, v) \in Seq(CycleRuns)
        /\ Played(out \o EndedRun(run, v)) \o RepRun(NextRun(run, v)) = Append(Played(out) \o RepRun(run), v)
    BY <2>1, RoundPlays
  <2>3. Played(out) \o RepRun(run) = SubSeq(vals, 1, k)
    BY <1>5
  <2>4. SubSeq(vals, 1, k + 1) = Append(SubSeq(vals, 1, k), v)
    BY <1>5, FirstOnes
  <2> QED BY <2>2, <2>3, <2>4
<1>6. ASSUME NEW k \in Nat, k \in good
      PROVE  k + 1 \in good
  <2> SUFFICES ASSUME k + 1 < n
               PROVE  Played(trace[k + 1].out) \o RepRun(trace[k + 1].acc) = SubSeq(vals, 1, k + 1)
    OBVIOUS
  <2>1. k < n
    OBVIOUS
  <2> PICK out, run, v : out = trace[k].out /\ run = trace[k].acc /\ v = vals[k + 1]
    OBVIOUS
  <2>2. /\ out \o EndedRun(run, v) \in Seq(CycleRuns)
        /\ Played(out \o EndedRun(run, v)) \o RepRun(NextRun(run, v)) = SubSeq(vals, 1, k + 1)
    BY <1>5, <1>6, <2>1
  <2>3. /\ trace[k + 1].acc = NextRun(run, v)
        /\ trace[k + 1].out = out \o (EndedRun(run, v) \o If(k + 1 = n, <<NextRun(run, v)>>))
        /\ run \in CycleRuns /\ v \in CycleVals
    BY <1>3, <2>1
  <2>4. If(k + 1 = n, <<NextRun(run, v)>>) = <<>>
    BY DEF If
  <2>5. EndedRun(run, v) \o <<>> = EndedRun(run, v)
    BY <2>3, NextRunPlays, ConcatEmptySeq
  <2>6. trace[k + 1].out = out \o EndedRun(run, v)
    BY <2>3, <2>4, <2>5
  <2> QED BY <2>2, <2>3, <2>6
<1>7. n - 1 \in good
  <2> HIDE DEF good
  <2> QED BY <1>1, <1>4, <1>6, SetInduction
<1> PICK out, run, v : out = trace[n - 1].out /\ run = trace[n - 1].acc /\ v = vals[n]
  OBVIOUS
<1>8. /\ out \o EndedRun(run, v) \in Seq(CycleRuns)
      /\ Played(out \o EndedRun(run, v)) \o RepRun(NextRun(run, v)) = SubSeq(vals, 1, n)
  <2> HIDE DEF good
  <2> QED BY <1>1, <1>5, <1>7
<1>9. /\ out \in Seq(CycleRuns) /\ run \in CycleRuns /\ v \in CycleVals
      /\ trace[n].out = out \o (EndedRun(run, v) \o If(n = n, <<NextRun(run, v)>>))
  BY <1>1, <1>3
<1> PICK ended, next : ended = EndedRun(run, v) /\ next = NextRun(run, v)
  OBVIOUS
<1>10. ended \in Seq(CycleRuns) /\ next \in CycleRuns
  BY <1>9, NextRunPlays
<1>11. trace[n].out = out \o (ended \o <<next>>)
  <2>1. If(n = n, <<next>>) = <<next>>
    BY DEF If
  <2> PICK both : both = ended \o <<next>>
    OBVIOUS
  <2>2. trace[n].out = out \o (ended \o If(n = n, <<next>>))
    BY <1>9
  <2>3. ended \o If(n = n, <<next>>) = both
    BY <2>1
  <2> QED BY <2>2, <2>3
<1>12. /\ out \o (ended \o <<next>>) \in Seq(CycleRuns)
       /\ Played(out \o (ended \o <<next>>)) = Played(out \o ended) \o RepRun(next)
  <2>1. out \in Seq(CycleRuns)
    BY <1>9
  <2> QED BY <1>10, <2>1, LastRunPlays
<1>13. SubSeq(vals, 1, n) = vals
  BY SubSeqFull
<1>14. Played(trace[n].out) = vals
  BY <1>8, <1>11, <1>12, <1>13
<1>15. trace[n].out \in Seq(CycleRuns)
  BY <1>11, <1>12
<1> QED BY <1>2, <1>14, <1>15

-----------------------------------------------------------------------------
(* Bits.                                                                   *)


\* The cycles of time quanta.
Quanta(tqs) == [i \in DOMAIN tqs |-> tqs[i].cycles]

\* They are sequences of levels.
LEMMA QuantaType ==
  ASSUME NEW tqs \in Seq(TqSet)
  PROVE  /\ Quanta(tqs) \in Seq(Seq(Levels)) /\ Len(Quanta(tqs)) = Len(tqs)
         /\ Joined(Quanta(tqs)) \in Seq(Levels)
<1>1. ASSUME NEW i \in 1 .. Len(tqs)
      PROVE  tqs[i].cycles \in Seq(Levels)
  <2>1. tqs[i] \in TqSet
    OBVIOUS
  <2> QED BY <2>1 DEF TqSet
<1>2. DOMAIN tqs = 1 .. Len(tqs) /\ Len(tqs) \in Nat
  OBVIOUS
<1>3. Quanta(tqs) \in Seq(Seq(Levels)) /\ Len(Quanta(tqs)) = Len(tqs)
  BY <1>1, <1>2 DEF Quanta
<1> QED BY <1>3, JoinedType

\* What a bit is on the bus, cycle by cycle.
LEMMA CyclesType ==
  ASSUME NEW bit, IsBit(bit)
  PROVE  /\ CyclesOf(bit) \in Seq(CycleVals)
         /\ Len(CyclesOf(bit)) = Len(Joined(Quanta(bit.tqs)))
         /\ \A c \in 1 .. Len(CyclesOf(bit)) : CyclesOf(bit)[c] = ValueOf(bit, Joined(Quanta(bit.tqs))[c])
<1> PICK cycles : cycles = Joined(Quanta(bit.tqs))
  OBVIOUS
<1>1. cycles \in Seq(Levels)
  BY QuantaType DEF IsBit
<1>2. CyclesOf(bit) = [c \in DOMAIN cycles |-> ValueOf(bit, cycles[c])]
  BY DEF CyclesOf, Quanta
<1>3. ASSUME NEW c \in DOMAIN cycles
      PROVE  ValueOf(bit, cycles[c]) \in CycleVals
  <2>1. cycles[c] \in Levels
    BY <1>1
  <2> QED BY <2>1 DEF ValueOf, IsBit, CycleVals, Levels
<1>4. DOMAIN cycles = 1 .. Len(cycles) /\ Len(cycles) \in Nat
  BY <1>1
<1> QED BY <1>2, <1>3, <1>4

\* The runs of a bit play the bit.
LEMMA EqualRunsPlay ==
  ASSUME NEW bit, IsBit(bit), EndsWithCycle(bit)
  PROVE  EqualRuns(bit) \in Seq(CycleRuns) /\ Played(EqualRuns(bit)) = CyclesOf(bit)
<1> PICK vals : vals = CyclesOf(bit)
  OBVIOUS
<1>1. vals \in Seq(CycleVals) /\ bit.val \in CycleVals
  BY CyclesType DEF IsBit, CycleVals
<1>2. CASE vals = <<>>
  <2>1. EqualRuns(bit) = <<>>
    BY <1>2 DEF EqualRuns, RunsOf
  <2> QED BY <1>2, <2>1, PlayedNone
<1>3. CASE vals # <<>>
  <2>1. Last(bit.tqs).cycles # <<>>
    BY <1>3 DEF EndsWithCycle
  <2>2. bit.tqs # <<>>
    <3> SUFFICES ASSUME NEW tqs, tqs = bit.tqs, tqs = <<>>
                 PROVE  FALSE
      OBVIOUS
    <3>1. Quanta(tqs) = <<>>
      BY DEF Quanta
    <3>2. Len(vals) = Len(Joined(Quanta(tqs)))
      BY CyclesType
    <3>3. Joined(Quanta(tqs)) = <<>>
      BY <3>1, JoinedNone
    <3>4. Len(vals) = 0
      BY <3>2, <3>3
    <3> QED BY <1>1, <1>3, <3>4
  <2>3. EqualRuns(bit) = RunsOf(vals, bit.val, Len(vals))
    BY <2>1, <2>2 DEF EqualRuns
  <2> QED BY <1>1, <1>3, <2>3, RunsPlay
<1> QED BY <1>2, <1>3

\* One part more.
LEMMA OnePartMore ==
  ASSUME NEW V, NEW I, AreItems(I, V), NEW parts \in Seq(Seq(I)), NEW part \in Seq(I),
         NEW cycles \in Seq(Seq(V)), NEW more \in Seq(V),
         Played(Joined(parts)) = Joined(cycles), Played(part) = more
  PROVE  Played(Joined(Append(parts, part))) = Joined(Append(cycles, more))
<1>1. Joined(parts) \in Seq(I)
  BY JoinedType
<1>2. Played(Joined(parts) \o part) = Played(Joined(parts)) \o Played(part)
  <2>1. \A items, item \in Seq(I) : Played(items \o item) = Played(items) \o Played(item)
    BY PlayedConcats
  <2> QED BY <1>1, <2>1
<1>3. Joined(Append(parts, part)) = Joined(parts) \o part
  BY JoinedAppend
<1>4. Joined(Append(cycles, more)) = Joined(cycles) \o more
  BY JoinedAppend
<1> QED BY <1>1, <1>2, <1>3, <1>4

\* Items of several bits, each of which plays its bit.
PartsOf(parts, cycles, I, V) ==
  /\ parts \in Seq(Seq(I)) /\ cycles \in Seq(Seq(V)) /\ Len(parts) = Len(cycles)
  /\ \A i \in 1 .. Len(parts) : Played(parts[i]) = cycles[i]

\* They play the bits.
LEMMA PartsPlay ==
  ASSUME NEW V, NEW I, AreItems(I, V), NEW parts, NEW cycles, PartsOf(parts, cycles, I, V)
  PROVE  Played(Joined(parts)) = Joined(cycles)
<1>0. /\ parts \in Seq(Seq(I)) /\ cycles \in Seq(Seq(V)) /\ Len(parts) = Len(cycles)
      /\ \A i \in 1 .. Len(parts) : Played(parts[i]) = cycles[i]
  BY DEF PartsOf
<1> DEFINE some(k) == SubSeq(parts, 1, k)
           played(k) == SubSeq(cycles, 1, k)
           good == {k \in Nat : k <= Len(parts) => Played(Joined(some(k))) = Joined(played(k))}
<1>1. 0 \in good
  <2>1. some(0) = <<>> /\ played(0) = <<>>
    BY SubSeqEmpty
  <2> QED BY <2>1, JoinedNone, PlayedNone
<1>2. ASSUME NEW k \in Nat, k \in good
      PROVE  k + 1 \in good
  <2> SUFFICES ASSUME k + 1 <= Len(parts)
               PROVE  Played(Joined(some(k + 1))) = Joined(played(k + 1))
    OBVIOUS
  <2> PICK part, cycs, one, two : /\ part = parts[k + 1] /\ cycs = cycles[k + 1]
                                  /\ one = some(k) /\ two = played(k)
    OBVIOUS
  <2>0. k < Len(parts) /\ k < Len(cycles) /\ parts \in Seq(Seq(I)) /\ cycles \in Seq(Seq(V))
    BY <1>0
  <2>1. one \in Seq(Seq(I)) /\ part \in Seq(I) /\ some(k + 1) = Append(one, part)
    BY <2>0, FirstOnes
  <2>2. two \in Seq(Seq(V)) /\ cycs \in Seq(V) /\ played(k + 1) = Append(two, cycs)
    BY <2>0, FirstOnes
  <2>3. Played(Joined(one)) = Joined(two) /\ Played(part) = cycs
    BY <1>0, <1>2, <2>0
  <2> HIDE DEF some, played, good
  <2>4. Played(Joined(Append(one, part))) = Joined(Append(two, cycs))
    BY <2>1, <2>2, <2>3, OnePartMore
  <2> QED BY <2>1, <2>2, <2>4
<1>3. Len(parts) \in good
  <2> HIDE DEF good
  <2>1. Len(parts) \in Nat
    BY <1>0
  <2> QED BY <1>1, <1>2, <2>1, SetInduction
<1>4. some(Len(parts)) = parts /\ played(Len(parts)) = cycles
  BY <1>0, SubSeqFull
<1> HIDE DEF some, played
<1> QED BY <1>3, <1>4

\* The driver's items play the frame.
LEMMA DriverPlays ==
  ASSUME NEW Bits, NEW bits \in Seq(Bits), \A bit \in Bits : IsBit(bit) /\ EndsWithCycle(bit)
  PROVE  Played(AppendDriverFrame(bits)) = CyclesOfFrame(bits)
<1> PICK n \in Nat : n = Len(bits) /\ DOMAIN bits = 1 .. n
  OBVIOUS
<1> PICK parts, cycles : /\ parts = [i \in DOMAIN bits |-> AppendDriverBit(bits[i])]
                         /\ cycles = [i \in DOMAIN bits |-> CyclesOf(bits[i])]
  OBVIOUS
<1>1. ASSUME NEW i \in 1 .. n
      PROVE  /\ AppendDriverBit(bits[i]) \in Seq(CycleRuns) /\ CyclesOf(bits[i]) \in Seq(CycleVals)
             /\ Played(AppendDriverBit(bits[i])) = CyclesOf(bits[i])
  <2>1. IsBit(bits[i]) /\ EndsWithCycle(bits[i])
    OBVIOUS
  <2> QED BY <2>1, EqualRunsPlay, CyclesType DEF AppendDriverBit
<1>2. parts \in Seq(Seq(CycleRuns)) /\ cycles \in Seq(Seq(CycleVals)) /\ Len(parts) = n /\ Len(cycles) = n
  BY <1>1
<1>3. \A i \in 1 .. n : Played(parts[i]) = cycles[i]
  BY <1>1
<1>4. Played(Joined(parts)) = Joined(cycles)
  <2>1. AreItems(CycleRuns, CycleVals)
    BY RunsAreItems
  <2>2. PartsOf(parts, cycles, CycleRuns, CycleVals)
    BY <1>2, <1>3 DEF PartsOf
  <2> QED BY <2>1, <2>2, PartsPlay
<1> QED BY <1>4 DEF AppendDriverFrame, CyclesOfFrame

-----------------------------------------------------------------------------
(* Items of the monitor.                                                   *)

\* What the monitor takes.
MonItems == [value : {Dominant, Recessive}, duration : Nat, rate : Nat]

\* They have values and durations.
LEMMA MonItemsAreItems == AreItems(MonItems, CycleVals)
BY DEF AreItems, MonItems, CycleVals

\* Those of a bit of one bit rate are the runs, with the rate.
LEMMA NotShiftPlays ==
  ASSUME NEW bit, IsBit(bit), EndsWithCycle(bit)
  PROVE  /\ AppendMonitorNotShift(bit) \in Seq(MonItems)
         /\ Played(AppendMonitorNotShift(bit)) = CyclesOf(bit)
<1> PICK runs, rate : runs = EqualRuns(bit) /\ rate = Len(bit.tqs[1].cycles)
  OBVIOUS
<1> PICK items : items = [k \in DOMAIN runs |-> MonItem(runs[k].value, runs[k].duration, rate)]
  OBVIOUS
<1>1. runs \in Seq(CycleRuns) /\ Played(runs) = CyclesOf(bit)
  BY EqualRunsPlay
<1>2. DOMAIN runs = 1 .. Len(runs) /\ Len(runs) \in Nat
  BY <1>1
<1>3. ASSUME NEW k \in 1 .. Len(runs)
      PROVE  /\ MonItem(runs[k].value, runs[k].duration, rate) \in MonItems
             /\ items[k].value = runs[k].value /\ items[k].duration = runs[k].duration
  <2>1. runs[k] \in CycleRuns
    BY <1>1
  <2>2. rate \in Nat
    <3>1. bit.tqs # <<>>
      <4> SUFFICES ASSUME bit.tqs = <<>>
                   PROVE  FALSE
        OBVIOUS
      <4>1. EqualRuns(bit) = RunsOf(CyclesOf(bit), bit.val, 0)
        BY DEF EqualRuns
      <4>2. CyclesOf(bit) = <<>>
        <5> PICK tqs : tqs = bit.tqs /\ tqs = <<>>
          OBVIOUS
        <5>1. Quanta(tqs) = <<>>
          BY DEF Quanta
        <5>2. Len(CyclesOf(bit)) = 0
          BY <5>1, CyclesType, JoinedNone
        <5> QED BY <5>2, CyclesType
      <4>3. runs = <<>>
        BY <4>1, <4>2 DEF RunsOf
      <4> QED BY <4>3
    <3>2. bit.tqs[1] \in TqSet
      BY <3>1 DEF IsBit
    <3> QED BY <3>2 DEF TqSet
  <2> QED BY <1>2, <2>1, <2>2 DEF MonItem, MonItems, CycleRuns
<1>4. items \in Seq(MonItems) /\ DOMAIN items = DOMAIN runs
  BY <1>2, <1>3
<1>5. Reps(items) = Reps(runs)
  BY <1>2, <1>3, <1>4 DEF Reps
<1>6. Played(items) = Joined(Reps(items)) /\ Played(runs) = Joined(Reps(runs))
  BY DEF Played, Reps, Rep
<1>7. AppendMonitorNotShift(bit) = items
  BY DEF AppendMonitorNotShift
<1> QED BY <1>1, <1>4, <1>5, <1>6, <1>7

\* TSEG1 and TSEG2.
Segments(tqs, n) ==
  /\ n \in 0 .. Len(tqs)
  /\ \A i \in 1 .. Len(tqs) : tqs[i].phase = "Ph2" <=> i > n

\* How many time quanta TSEG2 has, and which is its first.
LEMMA SegmentLengths ==
  ASSUME NEW tqs \in Seq(TqSet), NEW n, Segments(tqs, n)
  PROVE  /\ GetPhaseLenTQ(tqs, "Ph2") = Len(tqs) - n
         /\ n < Len(tqs) => FirstOfPhase(tqs, "Ph2") = n + 1
<1>1. n \in Nat /\ Len(tqs) \in Nat /\ n <= Len(tqs) /\ DOMAIN tqs = 1 .. Len(tqs)
  BY DEF Segments
<1>2. InPhase(tqs, "Ph2") = n + 1 .. Len(tqs)
  BY <1>1 DEF InPhase, Segments
<1>3. Cardinality(n + 1 .. Len(tqs)) = Len(tqs) - n
  <2>1. n + 1 \in Int /\ Len(tqs) \in Int
    BY <1>1
  <2>2. Cardinality(n + 1 .. Len(tqs)) = IF n + 1 > Len(tqs) THEN 0 ELSE Len(tqs) - (n + 1) + 1
    BY <2>1, FS_Interval
  <2> QED BY <1>1, <2>2
<1>4. ASSUME n < Len(tqs)
      PROVE  FirstOfPhase(tqs, "Ph2") = n + 1
  <2>1. /\ n + 1 \in InPhase(tqs, "Ph2") /\ \A j \in InPhase(tqs, "Ph2") : n + 1 <= j
        /\ \A i \in InPhase(tqs, "Ph2") : i \in Nat
    BY <1>1, <1>2, <1>4
  <2>2. \A i \in InPhase(tqs, "Ph2") : (\A j \in InPhase(tqs, "Ph2") : i <= j) => i = n + 1
    BY <1>1, <2>1
  <2> QED BY <2>1, <2>2 DEF FirstOfPhase
<1> QED BY <1>2, <1>3, <1>4 DEF GetPhaseLenTQ

\* The rate of an item, in each of its cycles.
RateIn == [item \in MonItems |-> Rep(item.rate, item.duration)]

\* To take the rates of items is to make a sequence of each.
LEMMA RatesMapped ==
  ASSUME NEW items \in Seq(MonItems)
  PROVE  Maps(RateIn, MonItems, Nat) /\ Rates(items) = Joined(Mapped(items, RateIn))
<1>1. ASSUME NEW item \in MonItems
      PROVE  Rep(item.rate, item.duration) \in Seq(Nat)
  <2>1. item.rate \in Nat /\ item.duration \in Nat
    BY DEF MonItems
  <2> QED BY <2>1, RepMore
<1>2. \A k \in DOMAIN items : items[k] \in MonItems
  OBVIOUS
<1>3. Mapped(items, RateIn) = [k \in DOMAIN items |-> Rep(items[k].rate, items[k].duration)]
  BY <1>2 DEF Mapped, RateIn
<1>4. Rates(items) = Joined([k \in DOMAIN items |-> Rep(items[k].rate, items[k].duration)])
  BY DEF Rates, Rep
<1> QED BY <1>1, <1>3, <1>4 DEF RateIn, Maps

\* Rates of items and of more items.
LEMMA RatesConcat ==
  ASSUME NEW items \in Seq(MonItems), NEW more \in Seq(MonItems)
  PROVE  Rates(items \o more) = Rates(items) \o Rates(more)
<1>1. \A some \in Seq(MonItems) : Rates(some) = Joined(Mapped(some, RateIn))
  BY RatesMapped
<1>2. Maps(RateIn, MonItems, Nat)
  BY RatesMapped
<1>3. Joined(Mapped(items \o more, RateIn)) = Joined(Mapped(items, RateIn)) \o Joined(Mapped(more, RateIn))
  BY <1>2, MappedConcat
<1>4. items \o more \in Seq(MonItems)
  OBVIOUS
<1> QED BY <1>1, <1>3, <1>4

\* The items of a bit have a rate in each cycle they play.
LEMMA RatesLength ==
  ASSUME NEW items \in Seq(MonItems)
  PROVE  Len(Rates(items)) = Len(Played(items))
<1> PICK play, rate : play = Mapped(items, PlayOf(MonItems)) /\ rate = Mapped(items, RateIn)
  OBVIOUS
<1>1. Maps(RateIn, MonItems, Nat) /\ Rates(items) = Joined(rate)
  BY RatesMapped
<1>2. Maps(PlayOf(MonItems), MonItems, CycleVals) /\ Played(items) = Joined(play)
  BY MonItemsAreItems, PlayedMapped
<1>3. MapOf(rate, items, RateIn, Nat)
  BY <1>1, MappedType
<1>4. MapOf(play, items, PlayOf(MonItems), CycleVals)
  BY <1>2, MappedType
<1>5. ASSUME NEW k \in 1 .. Len(items)
      PROVE  Len(rate[k]) = Len(play[k])
  <2>1. items[k] \in MonItems
    OBVIOUS
  <2>2. items[k].duration \in Nat
    BY <2>1 DEF MonItems
  <2>3. rate[k] = Rep(items[k].rate, items[k].duration)
    BY <1>3, <2>1 DEF MapOf, RateIn
  <2>4. play[k] = Rep(items[k].value, items[k].duration)
    BY <1>4, <2>1 DEF MapOf, PlayOf
  <2>5. Len(rate[k]) = items[k].duration
    BY <2>2, <2>3 DEF Rep
  <2>6. Len(play[k]) = items[k].duration
    BY <2>2, <2>4 DEF Rep
  <2> QED BY <2>5, <2>6
<1>6. Alike(rate, play, Nat, CycleVals)
  BY <1>3, <1>4, <1>5 DEF Alike, MapOf
<1> QED BY <1>1, <1>2, <1>6, AlikeLength

\* A segment of a bit is an item, if there is anything of it.
SegmentItem(val, duration, rate) == If(duration > 0, <<MonItem(val, duration, rate)>>)

\* It plays the value, and nothing if it is not there.
LEMMA SegmentPlays ==
  ASSUME NEW val \in CycleVals, NEW duration \in Nat, NEW rate, duration > 0 => rate \in Nat
  PROVE  /\ SegmentItem(val, duration, rate) \in Seq(MonItems)
         /\ Played(SegmentItem(val, duration, rate)) = Rep(val, duration)
         /\ Rates(SegmentItem(val, duration, rate)) = Rep(rate, duration)
<1> PICK item : item = MonItem(val, duration, rate)
  OBVIOUS
<1>1. item.value = val /\ item.duration = duration /\ item.rate = rate
  BY DEF MonItem
<1>2. CASE duration > 0
  <2>1. item \in MonItems
    BY <1>2 DEF MonItem, MonItems, CycleVals
  <2>2. SegmentItem(val, duration, rate) = <<item>>
    BY <1>2 DEF SegmentItem, If
  <2>3. <<item>> \in Seq(MonItems)
    BY <2>1
  <2>4. Played(<<item>>) = Rep(val, duration)
    BY <1>1, <2>1, MonItemsAreItems, PlayedOne
  <2>5. Rates(<<item>>) = Rep(rate, duration)
    <3>1. Maps(RateIn, MonItems, Nat) /\ Rates(<<item>>) = Joined(Mapped(<<item>>, RateIn))
      BY <2>3, RatesMapped
    <3>2. Joined(Mapped(<<item>>, RateIn)) = RateIn[item]
      BY <2>1, <3>1, MappedOne
    <3> QED BY <1>1, <2>1, <3>1, <3>2 DEF RateIn
  <2> QED BY <2>2, <2>3, <2>4, <2>5
<1>3. CASE duration = 0
  <2>1. SegmentItem(val, duration, rate) = <<>>
    BY <1>3 DEF SegmentItem, If
  <2>2. Rep(val, 0) = <<>> /\ Rep(rate, 0) = <<>>
    BY DEF Rep
  <2>3. Rates(<<>>) = <<>>
    <3> SUFFICES ASSUME NEW items, items = <<>>
                 PROVE  Rates(items) = <<>>
      OBVIOUS
    <3>1. Mapped(items, RateIn) = <<>>
      BY DEF Mapped
    <3>2. items \in Seq(MonItems)
      OBVIOUS
    <3> QED BY <3>1, <3>2, RatesMapped, JoinedNone
  <2>4. <<>> \in Seq(MonItems)
    OBVIOUS
  <2> QED BY <1>3, <2>1, <2>2, <2>3, <2>4, PlayedNone
<1> QED BY <1>2, <1>3

-----------------------------------------------------------------------------
(* Time quanta.                                                            *)

\* The cycles of a time quantum.
LEMMA TqType ==
  ASSUME NEW tqs \in Seq(TqSet), NEW i \in 1 .. Len(tqs)
  PROVE  tqs[i].cycles \in Seq(Levels) /\ Len(tqs[i].cycles) \in Nat
<1>1. tqs[i] \in TqSet
  OBVIOUS
<1>2. tqs[i].cycles \in Seq(Levels)
  BY <1>1 DEF TqSet
<1> QED BY <1>2

\* The lengths of time quanta, in each of their cycles.
Lens(tqs) == [i \in DOMAIN tqs |-> Rep(Len(tqs[i].cycles), Len(tqs[i].cycles))]

\* There are as many lengths as cycles.
LEMMA LensAlike ==
  ASSUME NEW tqs \in Seq(TqSet)
  PROVE  Alike(Lens(tqs), Quanta(tqs), Nat, Levels)
<1>1. DOMAIN tqs = 1 .. Len(tqs) /\ Len(tqs) \in Nat
  OBVIOUS
<1>2. Quanta(tqs) \in Seq(Seq(Levels)) /\ Len(Quanta(tqs)) = Len(tqs)
  BY QuantaType
<1>3. ASSUME NEW i \in 1 .. Len(tqs)
      PROVE  /\ Rep(Len(tqs[i].cycles), Len(tqs[i].cycles)) \in Seq(Nat)
             /\ Len(Rep(Len(tqs[i].cycles), Len(tqs[i].cycles))) = Len(tqs[i].cycles)
             /\ Quanta(tqs)[i] = tqs[i].cycles
  <2>1. Len(tqs[i].cycles) \in Nat
    BY TqType
  <2> PICK len : len = Len(tqs[i].cycles)
    OBVIOUS
  <2>2. Rep(len, len) \in Seq(Nat) /\ Len(Rep(len, len)) = len
    BY <2>1 DEF Rep
  <2>3. Quanta(tqs)[i] = tqs[i].cycles
    BY <1>1 DEF Quanta
  <2> QED BY <2>2, <2>3
<1>4. Lens(tqs) \in Seq(Seq(Nat)) /\ Len(Lens(tqs)) = Len(tqs)
  BY <1>1, <1>3 DEF Lens
<1>5. \A i \in 1 .. Len(tqs) : Len(Lens(tqs)[i]) = Len(Quanta(tqs)[i])
  BY <1>1, <1>3 DEF Lens
<1> QED BY <1>2, <1>4, <1>5 DEF Alike

\* Parts of sequences of the same lengths.
LEMMA PartAlike ==
  ASSUME NEW S, NEW T, NEW seqs, NEW other, Alike(seqs, other, S, T),
         NEW first \in Nat, NEW n \in Nat, first > 0, first + n <= Len(seqs) + 1
  PROVE  Alike(From(seqs, first, n), From(other, first, n), S, T)
<1> PICK V, W : V = Seq(S) /\ W = Seq(T)
  OBVIOUS
<1>1. /\ seqs \in Seq(V) /\ other \in Seq(W) /\ Len(seqs) = Len(other)
      /\ \A i \in 1 .. Len(seqs) : Len(seqs[i]) = Len(other[i])
  BY DEF Alike
<1>2. PartOf(From(seqs, first, n), seqs, first, n, V)
  BY <1>1, FromType
<1>3. PartOf(From(other, first, n), other, first, n, W)
  <2>1. first + n <= Len(other) + 1
    BY <1>1
  <2> QED BY <1>1, <2>1, FromType
<1>4. ASSUME NEW i \in 1 .. n
      PROVE  Len(From(seqs, first, n)[i]) = Len(From(other, first, n)[i])
  <2>1. first + i - 1 \in 1 .. Len(seqs)
    BY <1>1
  <2>2. From(seqs, first, n)[i] = seqs[first + i - 1]
    BY <1>2 DEF PartOf
  <2>3. From(other, first, n)[i] = other[first + i - 1]
    BY <1>3 DEF PartOf
  <2>4. Len(seqs[first + i - 1]) = Len(other[first + i - 1])
    BY <1>1, <2>1
  <2> QED BY <2>2, <2>3, <2>4
<1> QED BY <1>2, <1>3, <1>4 DEF PartOf, Alike

\* Cycles of time quanta are counted as they are joined.
LEMMA CyclesFromQuanta ==
  ASSUME NEW tqs \in Seq(TqSet), NEW first \in Nat, NEW n \in Nat, first > 0, first + n <= Len(tqs) + 1
  PROVE  /\ CyclesFrom(tqs, first, n) = Len(Joined(From(Quanta(tqs), first, n)))
         /\ CyclesFrom(tqs, first, n) \in Nat
<1>1. Quanta(tqs) \in Seq(Seq(Levels)) /\ Len(Quanta(tqs)) = Len(tqs)
  BY QuantaType
<1>2. From(Quanta(tqs), first, n) \in Seq(Seq(Levels))
  <2>1. first + n <= Len(Quanta(tqs)) + 1
    BY <1>1
  <2> QED BY <1>1, <2>1, FromType DEF PartOf
<1>3. \A i \in 1 .. n : Quanta(tqs)[first + i - 1] = tqs[first + i - 1].cycles
  <2>1. \A i \in 1 .. n : first + i - 1 \in DOMAIN tqs
    OBVIOUS
  <2> QED BY <2>1 DEF Quanta
<1>4. From(Quanta(tqs), first, n) = [i \in 1 .. n |-> tqs[first + i - 1].cycles]
  BY <1>3 DEF From
<1>5. Len(Joined(From(Quanta(tqs), first, n))) \in Nat
  BY <1>2, JoinedType
<1> QED BY <1>4, <1>5 DEF CyclesFrom

\* Some sequences of a kind.
LEMMA FromIn ==
  ASSUME NEW X, NEW seqs, NEW first \in Nat, NEW n \in Nat,
         \A i \in 1 .. n : seqs[first + i - 1] \in X
  PROVE  From(seqs, first, n) \in Seq(X)
BY DEF From

\* Time quanta of one length.
LEMMA OneLength ==
  ASSUME NEW tqs \in Seq(TqSet), NEW first \in Nat, NEW n \in Nat, first > 0, first + n <= Len(tqs) + 1,
         NEW len, \A i \in 1 .. n : Len(tqs[first + i - 1].cycles) = len
  PROVE  Joined(From(Lens(tqs), first, n)) = Rep(len, CyclesFrom(tqs, first, n))
<1> PICK lens, quanta : lens = From(Lens(tqs), first, n) /\ quanta = From(Quanta(tqs), first, n)
  OBVIOUS
<1>1. Alike(Lens(tqs), Quanta(tqs), Nat, Levels)
  BY LensAlike
<1>2. Len(Lens(tqs)) = Len(tqs)
  <2>1. DOMAIN tqs = 1 .. Len(tqs) /\ Len(tqs) \in Nat
    OBVIOUS
  <2> QED BY <2>1 DEF Lens
<1>3. Alike(lens, quanta, Nat, Levels)
  <2>1. first + n <= Len(Lens(tqs)) + 1
    BY <1>2
  <2> QED BY <1>1, <2>1, PartAlike
<1>4. Len(Joined(lens)) = CyclesFrom(tqs, first, n) /\ CyclesFrom(tqs, first, n) \in Nat
  BY <1>3, AlikeLength, CyclesFromQuanta
<1>5. lens \in Seq(Seq({len}))
  <2>1. ASSUME NEW i \in 1 .. n
        PROVE  Lens(tqs)[first + i - 1] \in Seq({len})
    <3>1. first + i - 1 \in 1 .. Len(tqs)
      OBVIOUS
    <3>2. Len(tqs[first + i - 1].cycles) = len
      OBVIOUS
    <3>3. len \in Nat
      <4> PICK j : j = first + i - 1
        OBVIOUS
      <4>1. j \in 1 .. Len(tqs)
        BY <3>1
      <4>2. Len(tqs[j].cycles) \in Nat
        BY <4>1, TqType
      <4> QED BY <3>2, <4>2
    <3>4. Lens(tqs)[first + i - 1] = Rep(len, len)
      BY <3>1, <3>2 DEF Lens
    <3>5. Rep(len, len) \in Seq({len})
      BY <3>3 DEF Rep
    <3> QED BY <3>4, <3>5
  <2> QED BY <2>1, FromIn
<1>6. Joined(lens) \in Seq({len})
  BY <1>5, JoinedType
<1> PICK d \in Nat : d = CyclesFrom(tqs, first, n)
  BY <1>4
<1>7. Rep(len, d) \in Seq({len}) /\ Len(Rep(len, d)) = d
  BY DEF Rep
<1> QED BY <1>4, <1>6, <1>7, OneSequence

\* All cycles of a bit without forced ones have its value.
LEMMA UnforcedCycles ==
  ASSUME NEW bit, IsBit(bit), Unforced(bit)
  PROVE  CyclesOf(bit) = Rep(bit.val, Len(Joined(Quanta(bit.tqs))))
<1> PICK tqs : tqs = bit.tqs
  OBVIOUS
<1>0. tqs \in Seq(TqSet)
  BY DEF IsBit
<1>1. ASSUME NEW i \in 1 .. Len(tqs)
      PROVE  tqs[i].cycles \in Seq({Default})
  <2>1. tqs[i].cycles \in Seq(Levels)
    BY <1>0, TqType
  <2>2. \A c \in DOMAIN tqs[i].cycles : tqs[i].cycles[c] = Default
    BY <1>0 DEF Unforced
  <2> QED BY <2>1, <2>2
<1>2. Quanta(tqs) \in Seq(Seq({Default}))
  <2>1. DOMAIN tqs = 1 .. Len(tqs) /\ Len(tqs) \in Nat
    BY <1>0
  <2> QED BY <1>1, <2>1 DEF Quanta
<1> PICK cycles : cycles = Joined(Quanta(tqs))
  OBVIOUS
<1>3. cycles \in Seq({Default})
  BY <1>2, JoinedType
<1>4. CyclesOf(bit) = [c \in DOMAIN cycles |-> ValueOf(bit, cycles[c])]
  BY DEF CyclesOf, Quanta
<1>5. DOMAIN cycles = 1 .. Len(cycles) /\ \A c \in 1 .. Len(cycles) : cycles[c] = Default
  BY <1>3
<1>6. \A c \in 1 .. Len(cycles) : ValueOf(bit, cycles[c]) = bit.val
  BY <1>5 DEF ValueOf
<1> QED BY <1>4, <1>5, <1>6 DEF Rep

\* A value in some cycles, and in some more.
LEMMA RepConcat ==
  ASSUME NEW val, NEW n \in Nat, NEW m \in Nat
  PROVE  Rep(val, n) \o Rep(val, m) = Rep(val, n + m)
<1>1. Rep(val, n) \in Seq({val}) /\ Len(Rep(val, n)) = n
  BY DEF Rep
<1>2. Rep(val, m) \in Seq({val}) /\ Len(Rep(val, m)) = m
  BY DEF Rep
<1>3. Rep(val, n + m) \in Seq({val}) /\ Len(Rep(val, n + m)) = n + m
  BY DEF Rep
<1> PICK one, two : one = Rep(val, n) /\ two = Rep(val, m)
  OBVIOUS
<1>4. one \o two \in Seq({val}) /\ Len(one \o two) = n + m
  BY <1>1, <1>2
<1> QED BY <1>3, <1>4, OneSequence

\* The time quanta of a bit in two parts.
LEMMA QuantaSplit ==
  ASSUME NEW tqs \in Seq(TqSet), NEW n \in Nat, NEW m \in Nat, n + m = Len(tqs)
  PROVE  /\ CyclesFrom(tqs, 1, n) \in Nat
         /\ CyclesFrom(tqs, n + 1, m) \in Nat
         /\ Len(Joined(Quanta(tqs))) = CyclesFrom(tqs, 1, n) + CyclesFrom(tqs, n + 1, m)
<1> PICK quanta : quanta = Quanta(tqs)
  OBVIOUS
<1> PICK one, two : one = From(quanta, 1, n) /\ two = From(quanta, n + 1, m)
  OBVIOUS
<1>1. quanta \in Seq(Seq(Levels))
  BY QuantaType
<1>2. Len(quanta) = n + m
  BY QuantaType
<1>3. 1 \in Nat /\ 1 > 0 /\ 1 + n <= Len(tqs) + 1
  OBVIOUS
<1>4. n + 1 \in Nat /\ n + 1 > 0 /\ n + 1 + m <= Len(tqs) + 1
  OBVIOUS
<1>5. CyclesFrom(tqs, 1, n) = Len(Joined(one)) /\ CyclesFrom(tqs, 1, n) \in Nat
  BY <1>3, CyclesFromQuanta
<1>6. CyclesFrom(tqs, n + 1, m) = Len(Joined(two)) /\ CyclesFrom(tqs, n + 1, m) \in Nat
  BY <1>4, CyclesFromQuanta
<1>7. one \in Seq(Seq(Levels)) /\ two \in Seq(Seq(Levels))
  <2> PICK V : V = Seq(Levels)
    OBVIOUS
  <2>1. quanta \in Seq(V)
    BY <1>1
  <2>2. PartOf(one, quanta, 1, n, V)
    <3>1. 1 + n <= Len(quanta) + 1
      BY <1>2
    <3> QED BY <1>3, <2>1, <3>1, FromType
  <2>3. PartOf(two, quanta, n + 1, m, V)
    <3>1. n + 1 + m <= Len(quanta) + 1
      BY <1>2
    <3> QED BY <1>4, <2>1, <3>1, FromType
  <2> QED BY <2>2, <2>3 DEF PartOf
<1>8. Joined(one) \in Seq(Levels) /\ Joined(two) \in Seq(Levels)
  BY <1>7, JoinedType
<1>9. Joined(quanta) = Joined(one) \o Joined(two)
  BY <1>1, <1>2, JoinedSplit
<1> PICK s, t : s = Joined(one) /\ t = Joined(two)
  OBVIOUS
<1>10. Len(s \o t) = Len(s) + Len(t)
  BY <1>8
<1> QED BY <1>5, <1>6, <1>9, <1>10

\* No time quanta, no cycles.
LEMMA CyclesOfNone ==
  ASSUME NEW tqs, NEW first
  PROVE  CyclesFrom(tqs, first, 0) = 0
<1>1. [i \in 1 .. 0 |-> tqs[first + i - 1].cycles] = <<>>
  OBVIOUS
<1>2. CyclesFrom(tqs, first, 0) = Len(Joined(<<>>))
  BY <1>1 DEF CyclesFrom
<1> QED BY <1>2, JoinedNone

\* A bit begins with Sync, if it has a TSEG1.
LEMMA SyncFirst ==
  ASSUME NEW tqs \in Seq(TqSet), Len(tqs) > 0, tqs[1].phase = "Sync"
  PROVE  FirstOfPhase(tqs, "Sync") = 1
<1>1. 1 \in InPhase(tqs, "Sync") /\ \A i \in InPhase(tqs, "Sync") : i \in Nat /\ 1 <= i
  BY DEF InPhase
<1>2. \A i \in InPhase(tqs, "Sync") : (\A j \in InPhase(tqs, "Sync") : i <= j) => i = 1
  BY <1>1
<1> QED BY <1>1, <1>2 DEF FirstOfPhase

\* The items of the two segments of a bit.
LEMMA TwoSegments ==
  ASSUME NEW bit, NEW tqs \in Seq(TqSet), tqs = bit.tqs,
         NEW n \in Nat, NEW m \in Nat, n + m = Len(tqs),
         Segments(tqs, n), n > 0 => tqs[1].phase = "Sync"
  PROVE  AppendMonitorBitWithShift(bit)
           = SegmentItem(bit.val, CyclesFrom(tqs, 1, n), Len(tqs[1].cycles))
             \o SegmentItem(bit.val, CyclesFrom(tqs, n + 1, m), Len(tqs[n + 1].cycles))
<1> PICK sync, ph2 : sync = FirstOfPhase(tqs, "Sync") /\ ph2 = FirstOfPhase(tqs, "Ph2")
  OBVIOUS
<1>1. GetPhaseLenTQ(tqs, "Ph2") = m /\ Len(tqs) - m = n
  BY SegmentLengths
<1>2. AppendMonitorBitWithShift(bit)
        = SegmentItem(bit.val, CyclesFrom(tqs, 1, n), Len(tqs[sync].cycles))
          \o SegmentItem(bit.val, CyclesFrom(tqs, ph2, m), Len(tqs[ph2].cycles))
  BY <1>1 DEF AppendMonitorBitWithShift, SegmentItem
<1>3. \A rate, other : SegmentItem(bit.val, 0, rate) = SegmentItem(bit.val, 0, other)
  BY DEF SegmentItem, If
<1>4. SegmentItem(bit.val, CyclesFrom(tqs, 1, n), Len(tqs[sync].cycles))
        = SegmentItem(bit.val, CyclesFrom(tqs, 1, n), Len(tqs[1].cycles))
  <2>1. CASE n > 0
    <3>1. sync = 1
      BY <2>1, SyncFirst
    <3> QED BY <3>1
  <2>2. CASE n = 0
    <3>1. CyclesFrom(tqs, 1, n) = 0
      BY <2>2, CyclesOfNone
    <3> QED BY <1>3, <3>1
  <2> QED BY <2>1, <2>2
<1>5. SegmentItem(bit.val, CyclesFrom(tqs, ph2, m), Len(tqs[ph2].cycles))
        = SegmentItem(bit.val, CyclesFrom(tqs, n + 1, m), Len(tqs[n + 1].cycles))
  <2>1. CASE m > 0
    <3>1. n < Len(tqs)
      BY <2>1
    <3>2. ph2 = n + 1
      BY <3>1, SegmentLengths
    <3> QED BY <3>2
  <2>2. CASE m = 0
    <3>1. CyclesFrom(tqs, ph2, m) = 0 /\ CyclesFrom(tqs, n + 1, m) = 0
      BY <2>2, CyclesOfNone
    <3> QED BY <1>3, <3>1
  <2> QED BY <2>1, <2>2
<1> QED BY <1>2, <1>4, <1>5

\* The lengths of the time quanta of a bit.
LEMMA LengthsOfBit ==
  ASSUME NEW bit, NEW tqs \in Seq(TqSet), tqs = bit.tqs
  PROVE  /\ TqLengths(bit) = Joined(Lens(tqs))
         /\ Lens(tqs) \in Seq(Seq(Nat)) /\ Len(Lens(tqs)) = Len(tqs)
<1>1. DOMAIN tqs = 1 .. Len(tqs) /\ Len(tqs) \in Nat
  OBVIOUS
<1>2. ASSUME NEW i \in DOMAIN tqs
      PROVE  [c \in DOMAIN tqs[i].cycles |-> Len(tqs[i].cycles)] = Rep(Len(tqs[i].cycles), Len(tqs[i].cycles))
  <2>1. tqs[i].cycles \in Seq(Levels)
    BY <1>1, TqType
  <2> PICK cycles : cycles = tqs[i].cycles
    OBVIOUS
  <2>2. DOMAIN cycles = 1 .. Len(cycles)
    BY <2>1
  <2> QED BY <2>2 DEF Rep
<1>3. [i \in DOMAIN tqs |-> [c \in DOMAIN tqs[i].cycles |-> Len(tqs[i].cycles)]] = Lens(tqs)
  BY <1>2 DEF Lens
<1>4. TqLengths(bit) = Joined([i \in DOMAIN tqs |-> [c \in DOMAIN tqs[i].cycles |-> Len(tqs[i].cycles)]])
  BY DEF TqLengths
<1>5. Lens(tqs) \in Seq(Seq(Nat))
  BY LensAlike DEF Alike
<1>6. Len(Lens(tqs)) = Len(tqs)
  BY <1>1 DEF Lens
<1> QED BY <1>3, <1>4, <1>5, <1>6

\* The time quanta of TSEG1 are as long as its first, those of TSEG2 as its.
LEMMA SegmentsRegular ==
  ASSUME NEW bit, NEW tqs \in Seq(TqSet), tqs = bit.tqs, Regular(bit),
         NEW n \in Nat, NEW m \in Nat, n + m = Len(tqs), Segments(tqs, n)
  PROVE  /\ \A i \in 1 .. n : Len(tqs[1 + i - 1].cycles) = Len(tqs[1].cycles)
         /\ \A i \in 1 .. m : Len(tqs[n + 1 + i - 1].cycles) = Len(tqs[n + 1].cycles)
<1>1. \A i \in 1 .. Len(tqs) : tqs[i].phase = "Ph2" <=> i > n
  BY DEF Segments
<1>2. \A i, j \in 1 .. Len(tqs) :
        (tqs[i].phase = "Ph2" <=> tqs[j].phase = "Ph2") => Len(tqs[i].cycles) = Len(tqs[j].cycles)
  <2>1. DOMAIN tqs = 1 .. Len(tqs)
    OBVIOUS
  <2> QED BY <2>1 DEF Regular
<1>3. ASSUME NEW i \in 1 .. n
      PROVE  Len(tqs[1 + i - 1].cycles) = Len(tqs[1].cycles)
  <2>1. 1 + i - 1 = i /\ i \in 1 .. Len(tqs) /\ 1 \in 1 .. Len(tqs) /\ ~(i > n) /\ ~(1 > n)
    OBVIOUS
  <2>2. tqs[i].phase = "Ph2" <=> tqs[1].phase = "Ph2"
    BY <1>1, <2>1
  <2> QED BY <1>2, <2>1, <2>2
<1>4. ASSUME NEW i \in 1 .. m
      PROVE  Len(tqs[n + 1 + i - 1].cycles) = Len(tqs[n + 1].cycles)
  <2>1. /\ n + 1 + i - 1 = n + i /\ n + i \in 1 .. Len(tqs) /\ n + 1 \in 1 .. Len(tqs)
        /\ n + i > n /\ n + 1 > n
    OBVIOUS
  <2>2. tqs[n + i].phase = "Ph2" <=> tqs[n + 1].phase = "Ph2"
    BY <1>1, <2>1
  <2> QED BY <1>2, <2>1, <2>2
<1> QED BY <1>3, <1>4

\* What items of two segments play.
PlaysTwo(items, val, first, len, second, other) ==
  /\ items \in Seq(MonItems)
  /\ Played(items) = Rep(val, first + second)
  /\ Rates(items) = Rep(len, first) \o Rep(other, second)

\* They do play both, one after the other.
LEMMA TwoItemsPlay ==
  ASSUME NEW val \in CycleVals, NEW first \in Nat, NEW second \in Nat,
         NEW len, first > 0 => len \in Nat, NEW other, second > 0 => other \in Nat
  PROVE  PlaysTwo(SegmentItem(val, first, len) \o SegmentItem(val, second, other),
                  val, first, len, second, other)
<1> PICK one : one = SegmentItem(val, first, len)
  OBVIOUS
<1>1. one \in Seq(MonItems)
  BY SegmentPlays
<1>2. Played(one) = Rep(val, first) /\ Rates(one) = Rep(len, first)
  BY SegmentPlays
<1> PICK two : two = SegmentItem(val, second, other)
  OBVIOUS
<1>3. two \in Seq(MonItems)
  BY SegmentPlays
<1>4. Played(two) = Rep(val, second) /\ Rates(two) = Rep(other, second)
  BY SegmentPlays
<1>5. one \o two \in Seq(MonItems)
  BY <1>1, <1>3
<1>6. Played(one \o two) = Played(one) \o Played(two)
  <2>1. \A items, more \in Seq(MonItems) : Played(items \o more) = Played(items) \o Played(more)
    BY MonItemsAreItems, PlayedConcats
  <2> QED BY <1>1, <1>3, <2>1
<1>7. Rates(one \o two) = Rates(one) \o Rates(two)
  BY <1>1, <1>3, RatesConcat
<1>8. Rep(val, first) \o Rep(val, second) = Rep(val, first + second)
  BY RepConcat
<1> QED BY <1>2, <1>4, <1>5, <1>6, <1>7, <1>8 DEF PlaysTwo

\* The lengths of the time quanta of two segments.
LEMMA TwoLengths ==
  ASSUME NEW bit, NEW tqs \in Seq(TqSet), tqs = bit.tqs, Regular(bit),
         NEW n \in Nat, NEW m \in Nat, n + m = Len(tqs), Segments(tqs, n)
  PROVE  TqLengths(bit) = Rep(Len(tqs[1].cycles), CyclesFrom(tqs, 1, n))
                          \o Rep(Len(tqs[n + 1].cycles), CyclesFrom(tqs, n + 1, m))
<1>1. TqLengths(bit) = Joined(Lens(tqs))
  BY LengthsOfBit
<1>2. Lens(tqs) \in Seq(Seq(Nat)) /\ Len(Lens(tqs)) = n + m
  BY LengthsOfBit
<1>3. Joined(Lens(tqs)) = Joined(From(Lens(tqs), 1, n)) \o Joined(From(Lens(tqs), n + 1, m))
  BY <1>2, JoinedSplit
<1>4. \A i \in 1 .. n : Len(tqs[1 + i - 1].cycles) = Len(tqs[1].cycles)
  BY SegmentsRegular
<1>5. \A i \in 1 .. m : Len(tqs[n + 1 + i - 1].cycles) = Len(tqs[n + 1].cycles)
  BY SegmentsRegular
<1>6. Joined(From(Lens(tqs), 1, n)) = Rep(Len(tqs[1].cycles), CyclesFrom(tqs, 1, n))
  <2>1. 1 \in Nat /\ 1 > 0 /\ 1 + n <= Len(tqs) + 1
    OBVIOUS
  <2> QED BY <1>4, <2>1, OneLength
<1>7. Joined(From(Lens(tqs), n + 1, m)) = Rep(Len(tqs[n + 1].cycles), CyclesFrom(tqs, n + 1, m))
  <2>1. n + 1 \in Nat /\ n + 1 > 0 /\ n + 1 + m <= Len(tqs) + 1
    OBVIOUS
  <2> QED BY <1>5, <2>1, OneLength
<1> QED BY <1>1, <1>3, <1>6, <1>7

\* The monitor's items of a bit in which the bit rate may change.
LEMMA ShiftPlays ==
  ASSUME NEW bit, IsBit(bit), Unforced(bit), InSegments(bit)
  PROVE  /\ AppendMonitorBitWithShift(bit) \in Seq(MonItems)
         /\ Played(AppendMonitorBitWithShift(bit)) = CyclesOf(bit)
         /\ Regular(bit) => Rates(AppendMonitorBitWithShift(bit)) = TqLengths(bit)
<1> PICK tqs : tqs = bit.tqs
  OBVIOUS
<1>1. tqs \in Seq(TqSet) /\ bit.val \in CycleVals
  BY DEF IsBit, CycleVals
<1>2. DOMAIN tqs = 1 .. Len(tqs) /\ Len(tqs) \in Nat
  BY <1>1
<1>3. PICK n \in 0 .. Len(tqs) : /\ \A i \in DOMAIN tqs : tqs[i].phase = "Ph2" <=> i > n
                                 /\ n > 0 => tqs[1].phase = "Sync"
  BY DEF InSegments
<1> PICK m : m = Len(tqs) - n
  OBVIOUS
<1>4. n \in Nat /\ m \in Nat /\ n + m = Len(tqs)
  BY <1>2
<1>5. Segments(tqs, n)
  BY <1>2, <1>3 DEF Segments
<1> PICK first, second : first = CyclesFrom(tqs, 1, n) /\ second = CyclesFrom(tqs, n + 1, m)
  OBVIOUS
<1> PICK len, other : len = Len(tqs[1].cycles) /\ other = Len(tqs[n + 1].cycles)
  OBVIOUS
<1>6. first \in Nat /\ second \in Nat /\ Len(Joined(Quanta(tqs))) = first + second
  BY <1>1, <1>4, QuantaSplit
<1>7. AppendMonitorBitWithShift(bit) = SegmentItem(bit.val, first, len) \o SegmentItem(bit.val, second, other)
  BY <1>1, <1>3, <1>4, <1>5, TwoSegments
<1>8. first > 0 => len \in Nat
  <2> SUFFICES ASSUME first > 0
               PROVE  len \in Nat
    OBVIOUS
  <2>1. n # 0
    BY CyclesOfNone
  <2>2. 1 \in 1 .. Len(tqs)
    BY <1>2, <1>4, <2>1
  <2> QED BY <1>1, <2>2, TqType
<1>9. second > 0 => other \in Nat
  <2> SUFFICES ASSUME second > 0
               PROVE  other \in Nat
    OBVIOUS
  <2>1. m # 0
    BY CyclesOfNone
  <2>2. n + 1 \in 1 .. Len(tqs)
    BY <1>2, <1>4, <2>1
  <2> QED BY <1>1, <2>2, TqType
<1>10. PlaysTwo(AppendMonitorBitWithShift(bit), bit.val, first, len, second, other)
  <2>1. bit.val \in CycleVals
    BY <1>1
  <2>2. first \in Nat
    BY <1>6
  <2>3. second \in Nat
    BY <1>6
  <2>4. PlaysTwo(SegmentItem(bit.val, first, len) \o SegmentItem(bit.val, second, other),
                 bit.val, first, len, second, other)
    BY <1>8, <1>9, <2>1, <2>2, <2>3, TwoItemsPlay
  <2> QED BY <1>7, <2>4
<1>11. CyclesOf(bit) = Rep(bit.val, first + second)
  BY <1>6, UnforcedCycles
<1>12. Regular(bit) => TqLengths(bit) = Rep(len, first) \o Rep(other, second)
  BY <1>1, <1>4, <1>5, TwoLengths
<1> QED BY <1>10, <1>11, <1>12 DEF PlaysTwo

\* Items with one rate.
LEMMA OneRateOfItems ==
  ASSUME NEW items \in Seq(MonItems), NEW rate, \A k \in 1 .. Len(items) : items[k].rate = rate
  PROVE  Rates(items) \in Seq({rate})
<1> PICK rates : rates = [k \in DOMAIN items |-> Rep(items[k].rate, items[k].duration)]
  OBVIOUS
<1>1. Rates(items) = Joined(rates)
  BY DEF Rates, Rep
<1>2. DOMAIN items = 1 .. Len(items) /\ Len(items) \in Nat
  OBVIOUS
<1>3. ASSUME NEW k \in 1 .. Len(items)
      PROVE  Rep(items[k].rate, items[k].duration) \in Seq({rate})
  <2>1. items[k] \in MonItems
    OBVIOUS
  <2>2. items[k].duration \in Nat /\ items[k].rate = rate
    BY <2>1 DEF MonItems
  <2> QED BY <2>2, RepMore
<1>4. rates \in Seq(Seq({rate}))
  BY <1>2, <1>3
<1> QED BY <1>1, <1>4, JoinedType

\* Time quanta that are all equally long.
LEMMA AllOneLength ==
  ASSUME NEW tqs \in Seq(TqSet), NEW len, \A i \in 1 .. Len(tqs) : Len(tqs[i].cycles) = len
  PROVE  Joined(Lens(tqs)) = Rep(len, Len(Joined(Quanta(tqs))))
<1> PICK n \in Nat : n = Len(tqs)
  OBVIOUS
<1>1. n + 0 = Len(tqs) /\ 0 \in Nat
  OBVIOUS
<1>2. Len(Joined(Quanta(tqs))) = CyclesFrom(tqs, 1, n)
  <2>1. CyclesFrom(tqs, 1, n) \in Nat
    BY <1>1, QuantaSplit
  <2>2. Len(Joined(Quanta(tqs))) = CyclesFrom(tqs, 1, n) + CyclesFrom(tqs, n + 1, 0)
    BY <1>1, QuantaSplit
  <2>3. CyclesFrom(tqs, n + 1, 0) = 0
    BY CyclesOfNone
  <2> QED BY <2>1, <2>2, <2>3
<1>3. From(Lens(tqs), 1, n) = Lens(tqs)
  <2>1. DOMAIN tqs = 1 .. n
    OBVIOUS
  <2> QED BY <2>1 DEF From, Lens
<1>4. \A i \in 1 .. n : Len(tqs[1 + i - 1].cycles) = len
  <2>1. \A i \in 1 .. n : 1 + i - 1 = i
    OBVIOUS
  <2> QED BY <2>1
<1>5. Joined(From(Lens(tqs), 1, n)) = Rep(len, CyclesFrom(tqs, 1, n))
  <2>1. 1 \in Nat /\ 1 > 0 /\ 1 + n <= Len(tqs) + 1
    OBVIOUS
  <2> QED BY <1>4, <2>1, OneLength
<1> QED BY <1>2, <1>3, <1>5

\* All of a bit whose time quanta are equally long.
LEMMA LengthsOfOneRate ==
  ASSUME NEW bit, NEW tqs \in Seq(TqSet), tqs = bit.tqs, OneRate(bit)
  PROVE  TqLengths(bit) = Rep(Len(tqs[1].cycles), Len(Joined(Quanta(tqs))))
<1> PICK len : len = Len(tqs[1].cycles)
  OBVIOUS
<1>1. TqLengths(bit) = Joined(Lens(tqs))
  BY LengthsOfBit
<1>2. \A i \in 1 .. Len(tqs) : Len(tqs[i].cycles) = len
  <2>1. DOMAIN tqs = 1 .. Len(tqs)
    OBVIOUS
  <2>2. \A i, j \in 1 .. Len(tqs) : Len(tqs[i].cycles) = Len(tqs[j].cycles)
    BY <2>1 DEF OneRate
  <2>3. \A i \in 1 .. Len(tqs) : 1 \in 1 .. Len(tqs)
    OBVIOUS
  <2> QED BY <2>2, <2>3
<1>3. Joined(Lens(tqs)) = Rep(len, Len(Joined(Quanta(tqs))))
  BY <1>2, AllOneLength
<1> QED BY <1>1, <1>3

\* A bit whose time quanta are equally long is sampled once in each.
LEMMA RatesNotShift ==
  ASSUME NEW bit, IsBit(bit), EndsWithCycle(bit), OneRate(bit)
  PROVE  Rates(AppendMonitorNotShift(bit)) = TqLengths(bit)
<1> PICK items, rate : items = AppendMonitorNotShift(bit) /\ rate = Len(bit.tqs[1].cycles)
  OBVIOUS
<1>1. items \in Seq(MonItems) /\ Played(items) = CyclesOf(bit)
  BY NotShiftPlays
<1>2. \A k \in 1 .. Len(items) : items[k].rate = rate
  <2> PICK runs : runs = EqualRuns(bit)
    OBVIOUS
  <2>1. items = [k \in DOMAIN runs |-> MonItem(runs[k].value, runs[k].duration, rate)]
    BY DEF AppendMonitorNotShift
  <2>2. \A k \in DOMAIN runs : items[k].rate = rate
    BY <2>1 DEF MonItem
  <2>3. DOMAIN items = DOMAIN runs
    BY <2>1
  <2>4. DOMAIN items = 1 .. Len(items)
    BY <1>1
  <2> QED BY <2>2, <2>3, <2>4
<1>3. Rates(items) \in Seq({rate})
  BY <1>1, <1>2, OneRateOfItems
<1>4. Len(Rates(items)) = Len(CyclesOf(bit))
  BY <1>1, RatesLength
<1> PICK n : n = Len(CyclesOf(bit))
  OBVIOUS
<1>5. n \in Nat /\ n = Len(Joined(Quanta(bit.tqs)))
  BY CyclesType
<1>6. TqLengths(bit) = Rep(rate, n)
  <2>1. bit.tqs \in Seq(TqSet)
    BY DEF IsBit
  <2> QED BY <1>5, <2>1, LengthsOfOneRate
<1>7. Rep(rate, n) \in Seq({rate}) /\ Len(Rep(rate, n)) = n
  BY <1>5 DEF Rep
<1> QED BY <1>3, <1>4, <1>6, <1>7, OneSequence

-----------------------------------------------------------------------------
(* Frames of the monitor.                                                  *)

\* What the items of a bit are, before another bit.
LEMMA MonitorBitPlays ==
  ASSUME NEW bit, NEW next, FitsBefore(bit, next)
  PROVE  /\ AppendMonitorBit(bit, next) \in Seq(MonItems)
         /\ CyclesOf(bit) \in Seq(CycleVals)
         /\ Played(AppendMonitorBit(bit, next)) = CyclesOf(bit)
         /\ Regular(bit) => Rates(AppendMonitorBit(bit, next)) = TqLengths(bit)
<1>1. IsBit(bit) /\ EndsWithCycle(bit)
  BY DEF FitsBefore
<1>2. CyclesOf(bit) \in Seq(CycleVals)
  BY <1>1, CyclesType
<1>3. CASE Shifts(bit, next)
  <2>1. Unforced(bit) /\ InSegments(bit)
    BY <1>3 DEF FitsBefore
  <2>2. AppendMonitorBit(bit, next) = AppendMonitorBitWithShift(bit)
    BY <1>3 DEF AppendMonitorBit
  <2> QED BY <1>1, <1>2, <2>1, <2>2, ShiftPlays
<1>4. CASE ~Shifts(bit, next)
  <2>1. Regular(bit) => OneRate(bit)
    BY <1>4 DEF FitsBefore
  <2>2. AppendMonitorBit(bit, next) = AppendMonitorNotShift(bit)
    BY <1>4 DEF AppendMonitorBit
  <2> QED BY <1>1, <1>2, <2>1, <2>2, NotShiftPlays, RatesNotShift
<1> QED BY <1>3, <1>4

\* The monitor's items play the frame, and sample it once in each time quantum.
LEMMA MonitorPlays ==
  ASSUME NEW Bits, NEW bits \in Seq(Bits), \A i \in DOMAIN bits : FitsBefore(bits[i], NextBit(bits, i))
  PROVE  /\ Played(AppendMonitorFrame(bits)) = CyclesOfFrame(bits)
         /\ \A i \in DOMAIN bits :
              Regular(bits[i]) => Rates(AppendMonitorBit(bits[i], NextBit(bits, i))) = TqLengths(bits[i])
<1> PICK n \in Nat : n = Len(bits) /\ DOMAIN bits = 1 .. n
  OBVIOUS
<1> PICK parts, cycles : /\ parts = [i \in DOMAIN bits |-> AppendMonitorBit(bits[i], NextBit(bits, i))]
                         /\ cycles = [i \in DOMAIN bits |-> CyclesOf(bits[i])]
  OBVIOUS
<1>1. ASSUME NEW i \in 1 .. n
      PROVE  /\ AppendMonitorBit(bits[i], NextBit(bits, i)) \in Seq(MonItems)
             /\ CyclesOf(bits[i]) \in Seq(CycleVals)
             /\ Played(AppendMonitorBit(bits[i], NextBit(bits, i))) = CyclesOf(bits[i])
             /\ Regular(bits[i]) => Rates(AppendMonitorBit(bits[i], NextBit(bits, i))) = TqLengths(bits[i])
  BY MonitorBitPlays
<1>2. parts \in Seq(Seq(MonItems)) /\ cycles \in Seq(Seq(CycleVals)) /\ Len(parts) = n /\ Len(cycles) = n
  BY <1>1
<1>3. \A i \in 1 .. n : Played(parts[i]) = cycles[i]
  BY <1>1
<1>4. Played(Joined(parts)) = Joined(cycles)
  <2>1. PartsOf(parts, cycles, MonItems, CycleVals)
    BY <1>2, <1>3 DEF PartsOf
  <2> QED BY <2>1, MonItemsAreItems, PartsPlay
<1> QED BY <1>1, <1>4 DEF AppendMonitorFrame, CyclesOfFrame

\* TestSequence: frames of any length of which it may take for granted what it asserts
\* and assumes become items that play them, cycle by cycle; and where the bit rate
\* changes within a bit, or in front of an error flag, the monitor still samples once
\* in each time quantum.
THEOREM ItemsPlayFrames ==
  ASSUME NEW Bits, NEW drv \in Seq(Bits), NEW mon \in Seq(Bits), Fit(drv, mon)
  PROVE  ItemsMatch(drv, mon)
<1>1. Played(AppendDriverFrame(drv)) = CyclesOfFrame(drv)
  <2> DEFINE Fitting == {drv[i] : i \in DOMAIN drv}
  <2>1. drv \in Seq(Fitting)
    OBVIOUS
  <2>2. \A bit \in Fitting : IsBit(bit) /\ EndsWithCycle(bit)
    BY DEF Fit
  <2> HIDE DEF Fitting
  <2> QED BY <2>1, <2>2, DriverPlays
<1>2. \A i \in DOMAIN mon : FitsBefore(mon[i], NextBit(mon, i))
  BY DEF Fit
<1>3. /\ Played(AppendMonitorFrame(mon)) = CyclesOfFrame(mon)
      /\ \A i \in DOMAIN mon :
           Regular(mon[i]) => Rates(AppendMonitorBit(mon[i], NextBit(mon, i))) = TqLengths(mon[i])
  BY <1>2, MonitorPlays
<1> QED BY <1>1, <1>3 DEF ItemsMatch

-----------------------------------------------------------------------------
(* What a step may do to the bit timing.                                   *)

\* PROP, PH1 and PH2 in place of those of a bit timing.
Parted(bt, prop, ph2) == [bt EXCEPT !.ph1 = 0, !.prop = prop, !.ph2 = ph2]

\* The timings of the classes that set them by hand.
HalvesOfNominal(tm, i) ==
  LET len == GetBitLenTQ(tm.nbt)
  IN  [tm EXCEPT !.nbt = Parted(@, Least(i, 63), Within(Minus(len, i + 1), 63)),
                 !.dbt = Parted(@, Least(i + 1, 63), Within(Minus(len, i), 31))]

HalvesOfData(tm, i) ==
  LET half == (i + 1) \div 2
  IN  [tm EXCEPT !.dbt = Parted(@, Least(half, 63), Within(Minus(GetBitLenTQ(tm.dbt), half + 1), 31))]

SamplePointClasses == {"8.7.1", "8.7.2", "8.7.3", "8.7.6", "8.7.7", "8.7.8", "8.7.9", "8.8.1.1"}

\* RunElemTest of a class that gives the DUT another timing.
Retimed ==
  /\ elem.index # 0 /\ elem' = elem
  /\ \/ elem.name[1] \in SamplePointClasses /\ \E least \in {0, 2, 4} : timing' = SamplePointTest(least)
     \/ elem.name[1] = "8.8.1.2" /\ timing' = HalvesOfNominal(timing, elem.index)
     \/ elem.name[1] = "8.8.1.3" /\ timing' = HalvesOfData(timing, elem.index)
     \/ elem.name[1] = "8.8.1.4"
        /\ timing' = [SamplePointTest(0) EXCEPT !.dbt = GenerateBitTiming(Backup.dbt, elem.index, FALSE, 0)]
     \/ \E ssp : timing' = [timing EXCEPT !.ssp = ssp]

\* A step of the lower tester or of a class that keeps the timing.
SameTiming == timing' = timing /\ elem' \in {elem, Following}

\* RunElemTest ends with PushFramesToLT.
LEMMA RunKeeps ==
  /\ \A dut, tm, drv, mon, checks :
       RunTimedWith(dut, tm, drv, mon, checks) => timing' = tm /\ elem' = elem
  /\ \A drv, mon, checks : RunTimed(drv, mon, checks) => SameTiming
  /\ \A dut, drv, mon, checks : RunTimedWith(dut, timing, drv, mon, checks) => SameTiming
  /\ \A i, drv, mon, checks : ErrorIn(i, drv, mon, checks) => SameTiming
BY DEF RunTimedWith, RunTimed, ErrorIn, SameTiming

\* Tests of a receiving DUT at the nominal bit rate.
LEMMA KeptBy_7_7 == TestIso_7_7_Any => SameTiming
<1> USE RunKeeps
<1>1. CASE TestIso_7_7_1 \/ TestIso_7_7_2 \/ TestIso_7_7_3 \/ TestIso_7_7_4
  BY <1>1 DEF TestIso_7_7_1, TestIso_7_7_2, TestIso_7_7_3, TestIso_7_7_4
<1>2. CASE TestIso_7_7_5 \/ TestIso_7_7_6 \/ TestIso_7_7_7 \/ TestIso_7_7_8
  BY <1>2 DEF TestIso_7_7_5, TestIso_7_7_6, TestIso_7_7_7, TestIso_7_7_8, EarlyGlitch
<1>3. CASE TestIso_7_7_9_1 \/ TestIso_7_7_9_2 \/ TestIso_7_7_10 \/ TestIso_7_7_11
  BY <1>3 DEF TestIso_7_7_9_1, TestIso_7_7_9_2, TestIso_7_7_10, TestIso_7_7_11
<1> QED BY <1>1, <1>2, <1>3 DEF TestIso_7_7_Any

\* And in CAN FD frames.
LEMMA KeptBy_7_8 == TestIso_7_8_Any => SameTiming
<1> USE RunKeeps
<1>1. CASE TestIso_7_8_1_1 \/ TestIso_7_8_1_2 \/ TestIso_7_8_1_3 \/ TestIso_7_8_2_1
  BY <1>1 DEF TestIso_7_8_1_1, TestIso_7_8_1_2, TestIso_7_8_1_3, TestIso_7_8_2_1,
            Received_7_8
<1>2. CASE TestIso_7_8_2_2 \/ TestIso_7_8_3_1 \/ TestIso_7_8_3_2 \/ TestIso_7_8_3_3
  BY <1>2 DEF TestIso_7_8_2_2, TestIso_7_8_3_1, TestIso_7_8_3_2, TestIso_7_8_3_3,
            Received_7_8, LateDelim
<1>3. CASE TestIso_7_8_4_1 \/ TestIso_7_8_4_2 \/ TestIso_7_8_4_3 \/ TestIso_7_8_5_1
  BY <1>3 DEF TestIso_7_8_4_1, TestIso_7_8_4_2, TestIso_7_8_4_3, TestIso_7_8_5_1,
            Received_7_8, LateDelim, BothShorter
<1>4. CASE TestIso_7_8_5_2 \/ TestIso_7_8_5_3 \/ TestIso_7_8_6_1 \/ TestIso_7_8_6_2
  BY <1>4 DEF TestIso_7_8_5_2, TestIso_7_8_5_3, TestIso_7_8_6_1, TestIso_7_8_6_2,
            Received_7_8, BothShorter
<1>5. CASE TestIso_7_8_6_3 \/ TestIso_7_8_7_1 \/ TestIso_7_8_7_2 \/ TestIso_7_8_7_3
  BY <1>5 DEF TestIso_7_8_6_3, TestIso_7_8_7_1, TestIso_7_8_7_2, TestIso_7_8_7_3,
            Received_7_8
<1>6. CASE TestIso_7_8_8_1 \/ TestIso_7_8_8_2 \/ TestIso_7_8_8_3 \/ TestIso_7_8_9_1
  BY <1>6 DEF TestIso_7_8_8_1, TestIso_7_8_8_2, TestIso_7_8_8_3, TestIso_7_8_9_1,
            Received_7_8, BothShorter
<1>7. CASE TestIso_7_8_9_2 \/ TestIso_7_8_9_3
  BY <1>7 DEF TestIso_7_8_9_2, TestIso_7_8_9_3
<1> QED BY <1>1, <1>2, <1>3, <1>4, <1>5, <1>6, <1>7 DEF TestIso_7_8_Any

\* Tests of a DUT that sends: a sample point each, or the timing they find.
LEMMA KeptBy_8_7 == TestIso_8_7_Any => SameTiming \/ Retimed
<1> SUFFICES ASSUME TestIso_8_7_Any PROVE SameTiming \/ Retimed
  OBVIOUS
<1>1. ASSUME NEW dut, NEW tm, NEW golds, NEW drv, NEW mon, RunSent(dut, tm, golds, drv, mon)
      PROVE  timing' = tm /\ elem' = elem
  BY <1>1, RunKeeps DEF RunSent
<1>2. CASE TestIso_8_7_4 \/ TestIso_8_7_5
  <2>1. timing' = timing /\ elem' = elem
    BY <1>1, <1>2 DEF TestIso_8_7_4, TestIso_8_7_5
  <2> QED BY <2>1 DEF SameTiming
<1>3. CASE TestIso_8_7_1 \/ TestIso_8_7_2 \/ TestIso_8_7_3
  <2>1. timing' = SamplePointTest(0) /\ elem' = elem
    BY <1>1, <1>3 DEF TestIso_8_7_1, TestIso_8_7_2, TestIso_8_7_3
  <2>2. elem.index # 0 /\ elem.name[1] \in {"8.7.1", "8.7.2", "8.7.3"}
    BY <1>3 DEF TestIso_8_7_1, TestIso_8_7_2, TestIso_8_7_3, RunsTimed, TestEnded
  <2> QED BY <2>1, <2>2 DEF Retimed, SamplePointClasses
<1>4. CASE TestIso_8_7_8 \/ TestIso_8_7_9
  <2>1. timing' = SamplePointTest(0) /\ elem' = elem
    BY <1>1, <1>4 DEF TestIso_8_7_8, TestIso_8_7_9
  <2>2. elem.index # 0 /\ elem.name[1] \in {"8.7.8", "8.7.9"}
    BY <1>4 DEF TestIso_8_7_8, TestIso_8_7_9, RunsTimed, TestEnded
  <2> QED BY <2>1, <2>2 DEF Retimed, SamplePointClasses
<1>5. CASE TestIso_8_7_6
  <2>1. timing' = SamplePointTest(2) /\ elem' = elem
    BY <1>1, <1>5 DEF TestIso_8_7_6
  <2>2. elem.index # 0 /\ elem.name[1] = "8.7.6"
    BY <1>5 DEF TestIso_8_7_6, RunsTimed, TestEnded
  <2> QED BY <2>1, <2>2 DEF Retimed, SamplePointClasses
<1>6. CASE TestIso_8_7_7
  <2>1. timing' = SamplePointTest(4) /\ elem' = elem
    BY <1>1, <1>6 DEF TestIso_8_7_7
  <2>2. elem.index # 0 /\ elem.name[1] = "8.7.7"
    BY <1>6 DEF TestIso_8_7_7, RunsTimed, TestEnded
  <2> QED BY <2>1, <2>2 DEF Retimed, SamplePointClasses
<1> QED BY <1>2, <1>3, <1>4, <1>5, <1>6 DEF TestIso_8_7_Any

\* And of CAN FD frames it sends.
LEMMA KeptBy_8_8 == TestIso_8_8_Any => SameTiming \/ Retimed
<1> SUFFICES ASSUME TestIso_8_8_Any PROVE SameTiming \/ Retimed
  OBVIOUS
<1>1. ASSUME NEW dut, NEW tm, NEW golds, NEW drv, NEW mon, RunSent(dut, tm, golds, drv, mon)
      PROVE  timing' = tm /\ elem' = elem
  BY <1>1, RunKeeps DEF RunSent
<1>2. CASE TestIso_8_8_3_1 \/ TestIso_8_8_3_2 \/ TestIso_8_8_4_1 \/ TestIso_8_8_4_2
           \/ TestIso_8_8_5_1 \/ TestIso_8_8_5_2
  <2>1. timing' = timing /\ elem' = elem
    BY <1>1, <1>2 DEF TestIso_8_8_3_1, TestIso_8_8_3_2, TestIso_8_8_4_1, TestIso_8_8_4_2,
                      TestIso_8_8_5_1, TestIso_8_8_5_2, EdgeInBrs, EdgeInData
  <2> QED BY <2>1 DEF SameTiming
<1>3. CASE TestIso_8_8_1_1
  <2>1. timing' = SamplePointTest(0) /\ elem' = elem
    BY <1>1, <1>3 DEF TestIso_8_8_1_1, SentUnder
  <2>2. elem.index # 0 /\ elem.name[1] = "8.8.1.1"
    BY <1>3 DEF TestIso_8_8_1_1, RunsTimed, TestEnded
  <2> QED BY <2>1, <2>2 DEF Retimed, SamplePointClasses
<1>4. CASE TestIso_8_8_1_2
  <2>1. timing' = HalvesOfNominal(timing, elem.index) /\ elem' = elem
    BY <1>1, <1>4 DEF TestIso_8_8_1_2, SentUnder, HalvesOfNominal, Parted, nbt, dbt
  <2>2. elem.index # 0 /\ elem.name[1] = "8.8.1.2"
    BY <1>4 DEF TestIso_8_8_1_2, RunsTimed, TestEnded
  <2> QED BY <2>1, <2>2 DEF Retimed
<1>5. CASE TestIso_8_8_1_3
  <2>1. timing' = HalvesOfData(timing, elem.index) /\ elem' = elem
    BY <1>1, <1>5 DEF TestIso_8_8_1_3, SentUnder, HalvesOfData, Parted, nbt, dbt
  <2>2. elem.index # 0 /\ elem.name[1] = "8.8.1.3"
    BY <1>5 DEF TestIso_8_8_1_3, RunsTimed, TestEnded
  <2> QED BY <2>1, <2>2 DEF Retimed
<1>6. CASE TestIso_8_8_1_4
  <2>1. timing' = [SamplePointTest(0) EXCEPT !.dbt = GenerateBitTiming(Backup.dbt, elem.index, FALSE, 0)]
        /\ elem' = elem
    BY <1>1, <1>6 DEF TestIso_8_8_1_4, SentUnder
  <2>2. elem.index # 0 /\ elem.name[1] = "8.8.1.4"
    BY <1>6 DEF TestIso_8_8_1_4, RunsTimed, TestEnded
  <2> QED BY <2>1, <2>2 DEF Retimed
<1>7. CASE TestIso_8_8_2_1 \/ TestIso_8_8_2_2 \/ TestIso_8_8_2_3 \/ TestIso_8_8_2_4
  <2>1. (\E ssp : timing' = [timing EXCEPT !.ssp = ssp]) /\ elem' = elem
    BY <1>1, <1>7 DEF TestIso_8_8_2_1, TestIso_8_8_2_2, TestIso_8_8_2_3, TestIso_8_8_2_4,
                      SentLate, SentUnder, WithSsp
  <2>2. elem.index # 0
    BY <1>7 DEF TestIso_8_8_2_1, TestIso_8_8_2_2, TestIso_8_8_2_3, TestIso_8_8_2_4, RunsTimed, TestEnded
  <2> QED BY <2>1, <2>2 DEF Retimed
<1> QED BY <1>2, <1>3, <1>4, <1>5, <1>6, <1>7 DEF TestIso_8_8_Any

\* Whatever the step, the timing is that of the step before or of the elementary test.
LEMMA StepTiming == [Next]_timed_vars => SameTiming \/ Retimed
<1> SUFFICES ASSUME [Next]_timed_vars PROVE SameTiming \/ Retimed
  OBVIOUS
<1>1. CASE PushFramesToLT
  BY <1>1 DEF PushFramesToLT, SameTiming
<1>2. CASE TimedBit
  BY <1>2 DEF TimedBit, SameTiming
<1>3. CASE TimedFinish
  BY <1>3 DEF TimedFinish, FinishElemTest, SameTiming
<1>4. CASE TimedStopped \/ UNCHANGED timed_vars
  BY <1>4 DEF TimedStopped, timed_vars, vars, SameTiming
<1> QED BY <1>1, <1>2, <1>3, <1>4, KeptBy_7_7, KeptBy_7_8, KeptBy_8_7, KeptBy_8_8 DEF Next

-----------------------------------------------------------------------------
(* The inductive invariant.                                                *)

\* Run goes through the elementary tests of a variant that ConfigureTest added.
ElemInv ==
  /\ elem = [name |-> elem.name, seed |-> elem.seed, fdf |-> elem.fdf, index |-> elem.index,
             round |-> elem.round]
  /\ elem.name \in DOMAIN Classes /\ elem.fdf \in {Can20, CanFd}
  /\ elem.index \in Nat /\ elem.index <= Tests(elem.fdf)

\* Two classes take the timing of a test from the one before: what they rely on.
TimingOf(number, bts, tm) ==
  /\ tm = [nbt |-> tm.nbt, dbt |-> tm.dbt, ssp |-> tm.ssp]
  /\ LongEnough(tm.nbt, TRUE) /\ LongEnough(tm.dbt, FALSE)
  /\ number = "8.8.1.2" =>
       /\ tm.nbt \in BitTimings /\ tm.nbt.brp = bts.nbt.brp /\ GetBitLenTQ(tm.nbt) = GetBitLenTQ(bts.nbt)
       /\ tm.dbt \in BitTimings
  /\ number = "8.8.1.3" => tm.dbt \in BitTimings /\ tm.dbt.brp = bts.dbt.brp

TimingInv == TimingOf(elem.name[1], Backup, timing)

\* The timings a run begins with.
LEMMA BackupTimings == ElemInv => Workable(Backup)
<1>1. ElemInv => elem.name \in STRING \X DOMAIN Timings
  BY ClassesAssumption, Zenon DEF ElemInv
<1>2. ElemInv => elem.name[2] \in DOMAIN Timings
  BY <1>1
<1> QED BY <1>2, TimingsAssumption, Zenon DEF Backup

\* There are elementary tests, and no more than ConfigureTest adds for a class.
LEMMA AsConfigured ==
  ASSUME ElemInv
  PROVE  /\ HasElemTests(Setup)
         /\ elem.name[1] \in DOMAIN Setup_8_7(Backup) => AtMost(Setup, Setup_8_7(Backup)[elem.name[1]])
         /\ elem.name[1] \in DOMAIN Setup_8_8(Backup) => AtMost(Setup, Setup_8_8(Backup)[elem.name[1]])
BY ClassesAssumption, Zenon DEF ElemInv, Setup, Backup

\* ConfigureTest of the classes that go through sample points, in CAN frames.
LEMMA Counts_8_7 ==
  ASSUME NEW bts, NEW number \in {"8.7.1", "8.7.2", "8.7.3", "8.7.6", "8.7.7", "8.7.8", "8.7.9"}
  PROVE  /\ number \in DOMAIN Setup_8_7(bts)
         /\ Setup_8_7(bts)[number].common \in {0, CalcNumSPs(bts.nbt, TRUE)}
         /\ Setup_8_7(bts)[number].fd = 0
<1> DEFINE sps == CalcNumSPs(bts.nbt, TRUE)
           plain == Sending(Class(sps, 0))
           fed == Sending(Fed(Class(sps, 0)))
           Counts(setup) == setup.common \in {0, sps} /\ setup.fd = 0
<1>1. number \in DOMAIN Setup_8_7(bts)
  BY DEF Setup_8_7
<1>2. Counts(plain) /\ Counts(fed)
  BY DEF Class, Fed, Sending, WithTx
<1>3. /\ \A cond : Counts(Asserted(cond, plain))
      /\ \A cond : Counts(Asserted(cond, fed))
  BY DEF Class, Fed, Sending, WithTx, Asserted
<1>4. CASE number = "8.7.1"
  <2>1. Setup_8_7(bts)[number] = Asserted(bts.nbt.brp > 1, plain) BY <1>4 DEF Setup_8_7
  <2> QED BY <1>1, <1>3, <2>1, Zenon
<1>5. CASE number = "8.7.2"
  <2>1. Setup_8_7(bts)[number] = Asserted(bts.nbt.brp > 1, fed) BY <1>5 DEF Setup_8_7
  <2> QED BY <1>1, <1>3, <2>1, Zenon
<1>6. CASE number = "8.7.3"
  <2>1. Setup_8_7(bts)[number] = Asserted(InputDelay = Ipt, fed) BY <1>6 DEF Setup_8_7
  <2> QED BY <1>1, <1>3, <2>1, Zenon
<1>7. CASE number \in {"8.7.6", "8.7.9"}
  <2>1. Setup_8_7(bts)[number] = Asserted(bts.nbt.brp > 2, plain) BY <1>7 DEF Setup_8_7
  <2> QED BY <1>1, <1>3, <2>1, Zenon
<1>8. CASE number \in {"8.7.7", "8.7.8"}
  <2>1. Setup_8_7(bts)[number] = plain BY <1>8 DEF Setup_8_7
  <2> QED BY <1>1, <1>2, <2>1, Zenon
<1> QED BY <1>4, <1>5, <1>6, <1>7, <1>8

\* And in CAN FD frames, where some have none unless time quanta are long.
LongTimeQuanta(number, bts) ==
  /\ number = "8.8.1.2" => bts.nbt.brp > 2
  /\ number \in {"8.8.1.3", "8.8.1.4"} => bts.dbt.brp > 2

FdTestsOf(number, bts, fds) ==
  \/ number = "8.8.1.1" /\ fds = CalcNumSPs(bts.nbt, TRUE)
  \/ number = "8.8.1.2" /\ fds = GetBitLenTQ(bts.nbt) - 2
  \/ number = "8.8.1.3" /\ fds = 2 * GetBitLenTQ(bts.dbt) - 4
  \/ number = "8.8.1.4" /\ fds = CalcNumSPs(bts.dbt, FALSE)

LEMMA Counts_8_8 ==
  ASSUME NEW bts, NEW fds, NEW number, FdTestsOf(number, bts, fds)
  PROVE  /\ number \in DOMAIN Setup_8_8(bts)
         /\ Setup_8_8(bts)[number].common = 0
         /\ Setup_8_8(bts)[number].fd \in {0, fds}
         /\ Setup_8_8(bts)[number].fd # 0 => LongTimeQuanta(number, bts)
<1> DEFINE setup == Sending(Class(0, fds))
<1>1. setup.common = 0 /\ setup.fd = fds
  BY DEF Class, Sending, WithTx
<1>2. \A cond : /\ Asserted(cond, setup).common = 0 /\ Asserted(cond, setup).fd \in {0, fds}
                /\ Asserted(cond, setup).fd # 0 => cond
  BY DEF Class, Sending, WithTx, Asserted
<1>3. number \in DOMAIN Setup_8_8(bts)
  BY DEF FdTestsOf, Setup_8_8
<1>4. CASE number = "8.8.1.1"
  <2>1. Setup_8_8(bts)[number] = setup BY <1>4 DEF FdTestsOf, Setup_8_8
  <2>2. LongTimeQuanta(number, bts) BY <1>4 DEF LongTimeQuanta
  <2> QED BY <1>1, <1>3, <2>1, <2>2, Zenon
<1>5. CASE number = "8.8.1.2"
  <2>1. Setup_8_8(bts)[number] = Asserted(bts.nbt.brp > 2, setup) BY <1>5 DEF FdTestsOf, Setup_8_8
  <2>2. bts.nbt.brp > 2 => LongTimeQuanta(number, bts) BY <1>5 DEF LongTimeQuanta
  <2> QED BY <1>2, <1>3, <2>1, <2>2, Zenon
<1>6. CASE number \in {"8.8.1.3", "8.8.1.4"}
  <2>1. Setup_8_8(bts)[number] = Asserted(bts.dbt.brp > 2, setup) BY <1>6 DEF FdTestsOf, Setup_8_8
  <2>2. bts.dbt.brp > 2 => LongTimeQuanta(number, bts) BY <1>6 DEF LongTimeQuanta
  <2> QED BY <1>2, <1>3, <2>1, <2>2, Zenon
<1> QED BY <1>4, <1>5, <1>6 DEF FdTestsOf

\* Numbers of sample points are numbers.
LEMMA CountsAreNumbers ==
  ASSUME NEW bt \in BitTimings
  PROVE  GetBitLenTQ(bt) \in Int /\ CalcNumSPs(bt, TRUE) \in Int /\ CalcNumSPs(bt, FALSE) \in Int
<1>1. GetBitLenTQ(bt) \in Int
  BY LengthIsNatural
<1>2. \A n \in Int : Minus(GetBitLenTQ(bt), n) \in Int
  BY <1>1, SizeModAssumption DEF Minus
<1> QED BY <1>1, <1>2 DEF CalcNumSPs

\* Where one of the variants has no elementary tests, they are all of the other.
LEMMA OneVariant ==
  ASSUME ElemInv, elem.index # 0, NEW configured, AtMost(Setup, configured),
         configured.common \in Int, configured.fd \in Int
  PROVE  /\ configured.fd = 0 => elem.index <= configured.common
         /\ configured.common = 0 => elem.index <= configured.fd
<1>1. elem.index \in Nat /\ elem.index >= 1 /\ (elem.index <= Setup.common \/ elem.index <= Setup.fd)
  BY DEF ElemInv, Tests
<1>2. Setup.common \in Nat /\ Setup.fd \in Nat /\ Setup.common <= configured.common /\ Setup.fd <= configured.fd
  BY AsConfigured DEF HasElemTests, AtMost
<1> QED BY <1>1, <1>2

\* No elementary test is beyond the sample points of its class, and none is run where
\* ConfigureTest has found its time quanta too short.
LEMMA WithinSamplePoints ==
  ASSUME ElemInv, elem.index # 0
  PROVE  /\ elem.name[1] \in SamplePointClasses => elem.index <= CalcNumSPs(Backup.nbt, TRUE)
         /\ elem.name[1] = "8.8.1.2" => elem.index <= GetBitLenTQ(Backup.nbt) - 2
         /\ elem.name[1] = "8.8.1.4" => elem.index <= CalcNumSPs(Backup.dbt, FALSE)
         /\ LongTimeQuanta(elem.name[1], Backup)
<1>1. elem.index \in Nat /\ ~(elem.index <= 0)
  BY DEF ElemInv
<1>2. Backup.nbt \in BitTimings /\ Backup.dbt \in BitTimings
  BY BackupTimings DEF Workable
<1>3. /\ GetBitLenTQ(Backup.nbt) \in Int /\ CalcNumSPs(Backup.nbt, TRUE) \in Int
      /\ GetBitLenTQ(Backup.dbt) \in Int /\ CalcNumSPs(Backup.dbt, FALSE) \in Int
  BY <1>2, CountsAreNumbers, Zenon
<1>4. ASSUME elem.name[1] \in {"8.7.1", "8.7.2", "8.7.3", "8.7.6", "8.7.7", "8.7.8", "8.7.9"}
      PROVE  elem.index <= CalcNumSPs(Backup.nbt, TRUE) /\ LongTimeQuanta(elem.name[1], Backup)
  <2> DEFINE configured == Setup_8_7(Backup)[elem.name[1]]
             sps == CalcNumSPs(Backup.nbt, TRUE)
  <2>1. configured.common \in {0, sps} /\ configured.fd = 0
    BY <1>4, Counts_8_7, Zenon
  <2>2. AtMost(Setup, configured)
    BY <1>4, Counts_8_7, AsConfigured, Zenon
  <2>3. LongTimeQuanta(elem.name[1], Backup)
    BY <1>4 DEF LongTimeQuanta
  <2>4. sps \in Int
    BY <1>3
  <2> HIDE DEF configured, sps
  <2>5. elem.index <= configured.common
    BY <2>1, <2>2, <2>4, OneVariant
  <2>6. elem.index <= sps
    BY <1>1, <2>1, <2>5
  <2> QED BY <2>3, <2>6 DEF sps
<1>5. ASSUME NEW fds \in Int, FdTestsOf(elem.name[1], Backup, fds)
      PROVE  elem.index <= fds /\ LongTimeQuanta(elem.name[1], Backup)
  <2> DEFINE configured == Setup_8_8(Backup)[elem.name[1]]
  <2>1. /\ elem.name[1] \in DOMAIN Setup_8_8(Backup)
        /\ configured.common = 0 /\ configured.fd \in {0, fds}
        /\ configured.fd # 0 => LongTimeQuanta(elem.name[1], Backup)
    BY <1>5, Counts_8_8, Zenon
  <2>2. AtMost(Setup, configured)
    BY <2>1, AsConfigured, Zenon
  <2> HIDE DEF configured
  <2>3. elem.index <= configured.fd
    BY <2>1, <2>2, OneVariant
  <2> QED BY <1>1, <2>1, <2>3
<1>6. /\ GetBitLenTQ(Backup.nbt) - 2 \in Int /\ 2 * GetBitLenTQ(Backup.dbt) - 4 \in Int
  BY <1>3
<1>7. CASE elem.name[1] = "8.8.1.1"
  <2>1. elem.index <= CalcNumSPs(Backup.nbt, TRUE) /\ LongTimeQuanta(elem.name[1], Backup)
    BY <1>3, <1>5, <1>7, Zenon DEF FdTestsOf
  <2> QED BY <1>7, <2>1
<1>8. CASE elem.name[1] = "8.8.1.2"
  <2>1. elem.index <= GetBitLenTQ(Backup.nbt) - 2 /\ LongTimeQuanta(elem.name[1], Backup)
    BY <1>5, <1>6, <1>8, Zenon DEF FdTestsOf
  <2> QED BY <1>8, <2>1 DEF SamplePointClasses
<1>9. CASE elem.name[1] = "8.8.1.3"
  <2>1. LongTimeQuanta(elem.name[1], Backup)
    BY <1>5, <1>6, <1>9, Zenon DEF FdTestsOf
  <2> QED BY <1>9, <2>1 DEF SamplePointClasses
<1>10. CASE elem.name[1] = "8.8.1.4"
  <2>1. elem.index <= CalcNumSPs(Backup.dbt, FALSE) /\ LongTimeQuanta(elem.name[1], Backup)
    BY <1>3, <1>5, <1>10, Zenon DEF FdTestsOf
  <2> QED BY <1>10, <2>1 DEF SamplePointClasses
<1>11. CASE elem.name[1] \notin SamplePointClasses \cup {"8.8.1.2", "8.8.1.3", "8.8.1.4"}
  BY <1>11 DEF LongTimeQuanta
<1>12. elem.name[1] \in SamplePointClasses \ {"8.8.1.1"} =>
         elem.name[1] \in {"8.7.1", "8.7.2", "8.7.3", "8.7.6", "8.7.7", "8.7.8", "8.7.9"}
  BY DEF SamplePointClasses
<1> QED BY <1>4, <1>7, <1>8, <1>9, <1>10, <1>11, <1>12 DEF SamplePointClasses

-----------------------------------------------------------------------------
(* Every step keeps the invariant.                                         *)

\* The next round, elementary test or variant is one that was added.
LEMMA ElemKept ==
  ASSUME ElemInv, elem' \in {elem, Following}
  PROVE  ElemInv' /\ elem'.name = elem.name
<1>1. /\ elem = [name |-> elem.name, seed |-> elem.seed, fdf |-> elem.fdf, index |-> elem.index,
                 round |-> elem.round]
      /\ elem.name \in DOMAIN Classes /\ elem.fdf \in {Can20, CanFd}
      /\ elem.index \in Nat /\ elem.index <= Tests(elem.fdf)
  BY DEF ElemInv
<1>2. Classes[elem.name].common \in Nat /\ Classes[elem.name].fd \in Nat
  BY AsConfigured DEF HasElemTests, Setup
<1>3. CASE elem' = elem
  BY <1>1, <1>3 DEF ElemInv, Tests, Setup
<1>4. CASE elem' = [elem EXCEPT !.round = NextRound]
  BY <1>1, <1>4 DEF ElemInv, Tests, Setup
<1>5. CASE elem.index < Tests(elem.fdf) /\ elem' = [elem EXCEPT !.index = @ + 1, !.round = 1]
  <2>1. elem' = [name |-> elem.name, seed |-> elem.seed, fdf |-> elem.fdf, index |-> elem.index + 1, round |-> 1]
    BY <1>1, <1>5
  <2>2. elem.index + 1 <= IF elem.fdf = Can20 THEN Classes[elem.name].common ELSE Classes[elem.name].fd
    BY <1>1, <1>2, <1>5 DEF Tests, Setup
  <2>3. elem.index + 1 \in Nat
    BY <1>1
  <2> QED BY <1>1, <2>1, <2>2, <2>3 DEF ElemInv, Tests, Setup
<1>6. CASE Setup.fd > 0 /\ elem' = [elem EXCEPT !.fdf = CanFd, !.index = 1, !.round = 1]
  <2>1. elem' = [name |-> elem.name, seed |-> elem.seed, fdf |-> CanFd, index |-> 1, round |-> 1]
    BY <1>1, <1>6
  <2>2. 1 <= Classes[elem.name].fd /\ CanFd # Can20
    BY <1>2, <1>6 DEF Setup, Can20, CanFd
  <2> QED BY <1>1, <2>1, <2>2 DEF ElemInv, Tests, Setup
<1>7. CASE elem' = [elem EXCEPT !.index = 0]
  <2>1. elem' = [name |-> elem.name, seed |-> elem.seed, fdf |-> elem.fdf, index |-> 0, round |-> elem.round]
    BY <1>1, <1>7
  <2>2. 0 <= Classes[elem.name].common /\ 0 <= Classes[elem.name].fd
    BY <1>2
  <2> QED BY <1>1, <2>1, <2>2 DEF ElemInv, Tests, Setup
<1> QED BY <1>3, <1>4, <1>5, <1>6, <1>7 DEF Following

\* GenerateSPForTest, and what TestIso_8_8_1_4 adds to it.
LEMMA SamplePointKeeps ==
  ASSUME NEW number \in SamplePointClasses \cup {"8.8.1.4"}, NEW bts, Workable(bts),
         NEW tm, TimingOf(number, bts, tm), NEW least \in {0, 2, 4},
         NEW i \in Nat, 1 <= i, i <= MaxLength, bts.nbt.brp >= 2 \/ i <= CalcNumSPs(bts.nbt, TRUE)
  PROVE  LET tested == [tm EXCEPT !.nbt = GenerateBitTiming(bts.nbt, i, TRUE, least)]
             both == [tested EXCEPT !.dbt = GenerateBitTiming(bts.dbt, i, FALSE, 0)]
         IN  /\ TimingOf(number, bts, tested)
             /\ bts.dbt.brp >= 2 => TimingOf(number, bts, both)
<1> DEFINE n == GenerateBitTiming(bts.nbt, i, TRUE, least)
           d == GenerateBitTiming(bts.dbt, i, FALSE, 0)
<1>1. LongEnough(n, TRUE)
  BY NominalSamplePoint, Zenon DEF Workable
<1>2. bts.dbt.brp >= 2 => LongEnough(d, FALSE)
  BY DataSamplePoint, Zenon DEF Workable
<1>3. tm = [nbt |-> tm.nbt, dbt |-> tm.dbt, ssp |-> tm.ssp] /\ LongEnough(tm.dbt, FALSE)
  BY Zenon DEF TimingOf
<1>4. number # "8.8.1.2" /\ number # "8.8.1.3"
  BY DEF SamplePointClasses
<1> HIDE DEF n, d
<1> DEFINE tested == [tm EXCEPT !.nbt = n]
           both == [tested EXCEPT !.dbt = d]
<1>5. /\ tested = [nbt |-> tested.nbt, dbt |-> tested.dbt, ssp |-> tested.ssp]
      /\ both = [nbt |-> both.nbt, dbt |-> both.dbt, ssp |-> both.ssp]
      /\ tested.nbt = n /\ tested.dbt = tm.dbt /\ both.nbt = n /\ both.dbt = d
  <2>1. tested = [nbt |-> n, dbt |-> tm.dbt, ssp |-> tm.ssp]
    BY <1>3
  <2> HIDE DEF tested
  <2>2. both = [nbt |-> n, dbt |-> d, ssp |-> tm.ssp]
    BY <2>1
  <2> HIDE DEF both
  <2> QED BY <2>1, <2>2
<1> HIDE DEF tested, both
<1>6. TimingOf(number, bts, tested) /\ (LongEnough(d, FALSE) => TimingOf(number, bts, both))
  BY <1>1, <1>3, <1>4, <1>5, Zenon DEF TimingOf
<1> QED BY <1>2, <1>6, Zenon DEF n, d, tested, both

LEMMA PartedLengths ==
  ASSUME NEW bt \in BitTimings, NEW prop \in Nat, NEW ph2 \in Nat
  PROVE  /\ Parted(bt, prop, ph2) \in BitTimings /\ Parted(bt, prop, ph2).brp = bt.brp
         /\ Parted(bt, prop, ph2).ph2 = ph2 /\ Tseg1Len(Parted(bt, prop, ph2)) = 1 + prop
         /\ GetBitLenTQ(Parted(bt, prop, ph2)) = prop + ph2 + 1
<1>1. bt.brp \in Nat \ {0} /\ bt.sjw \in Nat
  BY LengthIsNatural
<1>2. bt = [brp |-> bt.brp, prop |-> bt.prop, ph1 |-> bt.ph1, ph2 |-> bt.ph2, sjw |-> bt.sjw]
  BY DEF BitTimings
<1>3. Parted(bt, prop, ph2) = [brp |-> bt.brp, prop |-> prop, ph1 |-> 0, ph2 |-> ph2, sjw |-> bt.sjw]
  <2> DEFINE one == [bt EXCEPT !.ph1 = 0]
             two == [one EXCEPT !.prop = prop]
             three == [two EXCEPT !.ph2 = ph2]
  <2>1. Parted(bt, prop, ph2) = three BY DEF Parted
  <2>2. one = [brp |-> bt.brp, prop |-> bt.prop, ph1 |-> 0, ph2 |-> bt.ph2, sjw |-> bt.sjw] BY <1>2
  <2> HIDE DEF one
  <2>3. two = [brp |-> bt.brp, prop |-> prop, ph1 |-> 0, ph2 |-> bt.ph2, sjw |-> bt.sjw] BY <2>2
  <2> HIDE DEF two
  <2>4. three = [brp |-> bt.brp, prop |-> prop, ph1 |-> 0, ph2 |-> ph2, sjw |-> bt.sjw] BY <2>3
  <2> QED BY <2>1, <2>4
<1> QED BY <1>1, <1>3 DEF BitTimings, Tseg1Len, GetBitLenTQ

\* What is left of a bit is cut to a register, and is a time quantum at least.
LEMMA WithinRegister ==
  ASSUME NEW n \in Int, NEW most \in Nat, 1 <= most
  PROVE  Within(n, most) \in Nat /\ 1 <= Within(n, most) /\ Within(n, most) <= most
         /\ (1 <= n /\ n <= most => Within(n, most) = n)
         /\ (2 <= n /\ 2 <= most => 2 <= Within(n, most))
BY DEF Within, Least, Greatest

\* TestIso_8_8_1_2: the nominal bit is as long as it was.
LEMMA HalvesOfNominalKeep ==
  ASSUME NEW bts, Workable(bts), GetBitLenTQ(bts.nbt) <= 65, bts.nbt.brp > 2,
         NEW tm, TimingOf("8.8.1.2", bts, tm),
         NEW i \in Nat, 1 <= i, i <= GetBitLenTQ(bts.nbt) - 2
  PROVE  TimingOf("8.8.1.2", bts, HalvesOfNominal(tm, i))
<1> DEFINE len == GetBitLenTQ(tm.nbt)
           n == Parted(tm.nbt, Least(i, 63), Within(Minus(len, i + 1), 63))
           d == Parted(tm.dbt, Least(i + 1, 63), Within(Minus(len, i), 31))
           halves == HalvesOfNominal(tm, i)
<1>1. /\ tm = [nbt |-> tm.nbt, dbt |-> tm.dbt, ssp |-> tm.ssp]
      /\ tm.nbt \in BitTimings /\ tm.nbt.brp = bts.nbt.brp /\ len = GetBitLenTQ(bts.nbt) /\ tm.dbt \in BitTimings
  BY Zenon DEF TimingOf
<1>2. len \in Nat /\ len <= 65 /\ i <= len - 2
  BY <1>1, LengthIsNatural
<1> HIDE DEF len
<1>3. /\ Minus(len, i + 1) = len - i - 1 /\ Minus(len, i) = len - i
      /\ Least(i, 63) = i /\ Least(i + 1, 63) \in Nat /\ 2 <= Least(i + 1, 63)
  BY <1>2 DEF Minus, Least
<1>4. /\ Within(len - i - 1, 63) = len - i - 1
      /\ Within(len - i, 31) \in Nat /\ 2 <= Within(len - i, 31)
  <2>1. len - i - 1 \in Int /\ 1 <= len - i - 1 /\ len - i - 1 <= 63 BY <1>2
  <2>2. len - i \in Int /\ 2 <= len - i BY <1>2
  <2>3. Within(len - i - 1, 63) = len - i - 1 BY <2>1, WithinRegister
  <2>4. Within(len - i, 31) \in Nat /\ 2 <= Within(len - i, 31) BY <2>2 DEF Within, Least, Greatest
  <2> QED BY <2>3, <2>4
<1>5. /\ n \in BitTimings /\ n.brp = tm.nbt.brp /\ n.ph2 = len - i - 1 /\ Tseg1Len(n) = 1 + i
      /\ GetBitLenTQ(n) = i + (len - i - 1) + 1
  <2>1. len - i - 1 \in Nat BY <1>2
  <2>2. n = Parted(tm.nbt, i, len - i - 1) BY <1>3, <1>4
  <2> QED BY <1>1, <2>1, <2>2, PartedLengths
<1>6. /\ d \in BitTimings /\ d.ph2 = Within(len - i, 31) /\ Tseg1Len(d) = 1 + Least(i + 1, 63)
  <2>1. d = Parted(tm.dbt, Least(i + 1, 63), Within(len - i, 31)) BY <1>3
  <2> DEFINE prop == Least(i + 1, 63)
             ph2 == Within(len - i, 31)
  <2>2. prop \in Nat /\ ph2 \in Nat /\ tm.dbt \in BitTimings BY <1>1, <1>3, <1>4
  <2> HIDE DEF d, prop, ph2
  <2>3. Parted(tm.dbt, prop, ph2) \in BitTimings /\ Parted(tm.dbt, prop, ph2).ph2 = ph2
        /\ Tseg1Len(Parted(tm.dbt, prop, ph2)) = 1 + prop
    BY <2>2, PartedLengths
  <2> QED BY <2>1, <2>3 DEF prop, ph2
<1> HIDE DEF n, d
<1>7. halves = [nbt |-> n, dbt |-> d, ssp |-> tm.ssp]
  <2> DEFINE one == [tm EXCEPT !.nbt = n]
             two == [one EXCEPT !.dbt = d]
  <2>1. halves = two BY DEF HalvesOfNominal, n, d, len
  <2>2. one = [nbt |-> n, dbt |-> tm.dbt, ssp |-> tm.ssp] BY <1>1
  <2> HIDE DEF one
  <2>3. two = [nbt |-> n, dbt |-> d, ssp |-> tm.ssp] BY <2>2
  <2> QED BY <2>1, <2>3
<1>8. halves = [nbt |-> halves.nbt, dbt |-> halves.dbt, ssp |-> halves.ssp] /\ halves.nbt = n /\ halves.dbt = d
  <2> HIDE DEF halves
  <2> QED BY <1>7
<1>9. n.brp >= 3 /\ Tseg1Len(n) >= 2 /\ n.ph2 >= 1 /\ Tseg1Len(d) >= 3 /\ d.ph2 >= 2
  <2>1. tm.nbt.brp \in Nat BY <1>1, LengthIsNatural
  <2> QED BY <1>1, <1>2, <1>3, <1>4, <1>5, <1>6, <2>1
<1>10. LongEnough(n, TRUE) /\ LongEnough(d, FALSE)
  BY <1>5, <1>6, <1>9, ShortPhasesLongEnough, Zenon
<1>11. GetBitLenTQ(n) = GetBitLenTQ(bts.nbt)
  <2>1. i + (len - i - 1) + 1 = len BY <1>2
  <2> QED BY <1>1, <1>5, <2>1
<1> HIDE DEF halves
<1>12. "8.8.1.2" # "8.8.1.3" OBVIOUS
<1> QED BY <1>1, <1>5, <1>6, <1>8, <1>10, <1>11, <1>12, Zenon DEF TimingOf, halves

\* TestIso_8_8_1_3: whatever is left of the data bit, its time quanta are long.
LEMMA HalvesOfDataKeep ==
  ASSUME NEW bts, bts.dbt.brp > 2, NEW tm, TimingOf("8.8.1.3", bts, tm), NEW i \in Nat, 1 <= i
  PROVE  TimingOf("8.8.1.3", bts, HalvesOfData(tm, i))
<1> DEFINE half == (i + 1) \div 2
           prop == Least(half, 63)
           left == Minus(GetBitLenTQ(tm.dbt), half + 1)
           ph2 == Within(left, 31)
           d == Parted(tm.dbt, prop, ph2)
           halves == HalvesOfData(tm, i)
<1>1. /\ tm = [nbt |-> tm.nbt, dbt |-> tm.dbt, ssp |-> tm.ssp] /\ LongEnough(tm.nbt, TRUE)
      /\ tm.dbt \in BitTimings /\ tm.dbt.brp = bts.dbt.brp
  BY Zenon DEF TimingOf
<1>2. half \in Nat /\ 1 <= half
  OBVIOUS
<1> HIDE DEF half
<1>3. prop \in Nat /\ 1 <= prop
  BY <1>2 DEF Least
<1>4. left \in Int
  <2>1. GetBitLenTQ(tm.dbt) \in Nat BY <1>1, LengthIsNatural
  <2> QED BY <1>2, <2>1, SizeModAssumption DEF Minus
<1> HIDE DEF prop, left
<1>5. ph2 \in Nat /\ 1 <= ph2
  BY <1>4 DEF Within, Least, Greatest
<1> HIDE DEF ph2
<1>6. d \in BitTimings /\ d.brp = tm.dbt.brp /\ d.ph2 = ph2 /\ Tseg1Len(d) = 1 + prop
  <2>1. tm.dbt \in BitTimings /\ prop \in Nat /\ ph2 \in Nat BY <1>1, <1>3, <1>5
  <2> QED BY <2>1, PartedLengths
<1> HIDE DEF d
<1>7. halves = [nbt |-> tm.nbt, dbt |-> d, ssp |-> tm.ssp]
  BY <1>1 DEF HalvesOfData, half, prop, left, ph2, d
<1>8. halves = [nbt |-> halves.nbt, dbt |-> halves.dbt, ssp |-> halves.ssp]
      /\ halves.nbt = tm.nbt /\ halves.dbt = d
  <2> HIDE DEF halves
  <2> QED BY <1>7
<1>9. d.brp >= 3 /\ Tseg1Len(d) >= 2 /\ d.ph2 >= 1
  <2>1. tm.dbt.brp \in Nat BY <1>1, LengthIsNatural
  <2> QED BY <1>1, <1>3, <1>5, <1>6, <2>1
<1>10. LongEnough(d, FALSE)
  BY <1>6, <1>9, ShortPhasesLongEnough, Zenon
<1> HIDE DEF halves
<1>11. "8.8.1.2" # "8.8.1.3" OBVIOUS
<1> QED BY <1>1, <1>6, <1>8, <1>10, <1>11, Zenon DEF TimingOf, halves

\* An elementary test gives the DUT a timing it can work with.
LEMMA RetimedKeeps ==
  ASSUME ElemInv, TimingInv, Retimed
  PROVE  TimingOf(elem.name[1], Backup, timing')
<1> DEFINE i == elem.index
           number == elem.name[1]
           nlen == GetBitLenTQ(Backup.nbt)
           dlen == GetBitLenTQ(Backup.dbt)
           nsps == CalcNumSPs(Backup.nbt, TRUE)
           dsps == CalcNumSPs(Backup.dbt, FALSE)
<1>1. i # 0 /\ i \in Nat /\ 1 <= i
  BY DEF Retimed, ElemInv
<1>2. /\ Workable(Backup) /\ TimingOf(number, Backup, timing)
      /\ number \in SamplePointClasses => i <= nsps
      /\ number = "8.8.1.2" => i <= GetBitLenTQ(Backup.nbt) - 2
      /\ number = "8.8.1.4" => i <= dsps
      /\ LongTimeQuanta(number, Backup)
  BY <1>1, BackupTimings, WithinSamplePoints, Zenon DEF TimingInv
<1>3. /\ Backup.nbt \in BitTimings /\ LongEnough(Backup.nbt, TRUE) /\ GetBitLenTQ(Backup.nbt) <= MaxLength
      /\ Backup.dbt \in BitTimings /\ LongEnough(Backup.dbt, FALSE) /\ GetBitLenTQ(Backup.dbt) <= MaxLength
      /\ GetBitLenCycles(Backup.dbt) <= GetBitLenCycles(Backup.nbt)
  BY <1>2, Zenon DEF Workable
<1>4. nsps <= nlen /\ dsps <= dlen
  BY <1>3, CountsWithinBit, Zenon
<1>5. nlen \in Int /\ nsps \in Int /\ dlen \in Int /\ dsps \in Int
  BY <1>3, CountsAreNumbers, Zenon
<1> HIDE DEF nlen, dlen, nsps, dsps
<1>6. nlen <= MaxLength /\ dlen <= MaxLength /\ MaxLength \in Int
  <2>1. nlen <= MaxLength /\ dlen <= MaxLength BY <1>3, Zenon DEF nlen, dlen
  <2>2. MaxLength \in Int BY DEF MaxLength
  <2> QED BY <2>1, <2>2
<1>7. CASE number \in SamplePointClasses /\ \E least \in {0, 2, 4} : timing' = SamplePointTest(least)
  <2>1. PICK least \in {0, 2, 4} : timing' = SamplePointTest(least)
    BY <1>7
  <2>2. i <= nsps
    BY <1>2, <1>7
  <2>3. i <= MaxLength
    BY <1>1, <1>4, <1>5, <1>6, <2>2
  <2>4. timing' = [timing EXCEPT !.nbt = GenerateBitTiming(Backup.nbt, i, TRUE, least)]
    BY <2>1 DEF SamplePointTest
  <2>5. number \in SamplePointClasses \cup {"8.8.1.4"}
    BY <1>7
  <2> QED BY <1>1, <1>2, <2>2, <2>3, <2>4, <2>5, SamplePointKeeps, Zenon DEF nsps
<1>8. CASE number = "8.8.1.2" /\ timing' = HalvesOfNominal(timing, elem.index)
  <2>1. Backup.nbt.brp > 2 /\ i <= GetBitLenTQ(Backup.nbt) - 2
    BY <1>2, <1>8 DEF LongTimeQuanta
  <2>2. GetBitLenTQ(Backup.nbt) <= 65
    BY <1>8, NominalBitAssumption, Zenon DEF ElemInv, Backup
  <2> QED BY <1>1, <1>2, <1>8, <2>1, <2>2, HalvesOfNominalKeep, Zenon
<1>9. CASE number = "8.8.1.3" /\ timing' = HalvesOfData(timing, elem.index)
  <2>1. Backup.dbt.brp > 2
    BY <1>2, <1>9 DEF LongTimeQuanta
  <2> QED BY <1>1, <1>2, <1>9, <2>1, HalvesOfDataKeep, Zenon
<1>10. CASE /\ number = "8.8.1.4"
           /\ timing' = [SamplePointTest(0) EXCEPT !.dbt = GenerateBitTiming(Backup.dbt, elem.index, FALSE, 0)]
  <2>1. Backup.dbt.brp >= 3 /\ Backup.dbt.brp >= 2 /\ i <= dsps /\ i <= MaxLength
    <3>1. Backup.dbt.brp > 2 /\ i <= dsps BY <1>2, <1>10 DEF LongTimeQuanta
    <3>2. Backup.dbt.brp \in Nat BY <1>3, LengthIsNatural
    <3> QED BY <1>1, <1>4, <1>5, <1>6, <3>1, <3>2
  <2>2. Backup.nbt.brp >= 2 \/ i <= nsps
    <3>1. Backup.nbt.brp = 1 => dsps <= nsps
      BY <1>3, <2>1, FewerDataSamplePoints, Zenon DEF nsps, dsps
    <3>2. Backup.nbt.brp \in Nat \ {0} BY <1>3, LengthIsNatural
    <3> QED BY <1>1, <1>5, <2>1, <3>1, <3>2
  <2>3. timing' = [[timing EXCEPT !.nbt = GenerateBitTiming(Backup.nbt, i, TRUE, 0)]
                     EXCEPT !.dbt = GenerateBitTiming(Backup.dbt, i, FALSE, 0)]
    BY <1>10 DEF SamplePointTest
  <2>4. number \in SamplePointClasses \cup {"8.8.1.4"} /\ 0 \in {0, 2, 4}
    BY <1>10
  <2> QED BY <1>1, <1>2, <2>1, <2>2, <2>3, <2>4, SamplePointKeeps, Zenon DEF nsps
<1>11. CASE \E ssp : timing' = [timing EXCEPT !.ssp = ssp]
  <2>1. PICK ssp : timing' = [timing EXCEPT !.ssp = ssp]
    BY <1>11
  <2>2. timing = [nbt |-> timing.nbt, dbt |-> timing.dbt, ssp |-> timing.ssp]
    BY <1>2, Zenon DEF TimingOf
  <2>3. timing' = [nbt |-> timing.nbt, dbt |-> timing.dbt, ssp |-> ssp]
    BY <2>1, <2>2
  <2>4. timing' = [nbt |-> timing'.nbt, dbt |-> timing'.dbt, ssp |-> timing'.ssp]
        /\ timing'.nbt = timing.nbt /\ timing'.dbt = timing.dbt
    BY <2>3
  <2> QED BY <1>2, <2>4, Zenon DEF TimingOf
<1> QED BY <1>7, <1>8, <1>9, <1>10, <1>11 DEF Retimed

-----------------------------------------------------------------------------
(* The theorem.                                                            *)

\* TestBase.cpp:774-776, and the timings TestIso_8_8_1_2 and TestIso_8_8_1_3 make
\* themselves: whatever the bit timings, the classes and the random numbers, no elementary
\* test leaves the DUT a TSEG1 or TSEG2 that is shorter than it can work with.
THEOREM TimingsLongEnough == Spec => []MinimalDurations
<1>1. TimedInit => ElemInv /\ TimingInv
  <2> SUFFICES ASSUME TimedInit PROVE ElemInv /\ TimingInv
    OBVIOUS
  <2>1. PICK name \in DOMAIN Classes, seed \in DOMAIN Outcomes :
          elem = [name |-> name, seed |-> seed, fdf |-> FirstVariant(Classes[name]), index |-> 1, round |-> 1]
    BY DEF TimedInit, Init
  <2>2. ElemInv
    <3>1. HasElemTests(Classes[name])
      BY ClassesAssumption, Zenon
    <3>2. /\ elem.name = name /\ elem.index = 1 /\ elem.fdf = FirstVariant(Classes[name])
          /\ elem = [name |-> elem.name, seed |-> elem.seed, fdf |-> elem.fdf, index |-> elem.index,
                     round |-> elem.round]
      BY <2>1
    <3>3. FirstVariant(Classes[name]) \in {Can20, CanFd} /\ elem.index \in Nat
      BY <3>2 DEF FirstVariant
    <3>4. elem.index <= Tests(elem.fdf)
      BY <3>1, <3>2 DEF HasElemTests, FirstVariant, Tests, Setup, Can20, CanFd
    <3> QED BY <3>2, <3>3, <3>4 DEF ElemInv
  <2>3. timing = [nbt |-> Backup.nbt, dbt |-> Backup.dbt, ssp |-> NoSsp]
    BY DEF TimedInit, Backup
  <2>4. /\ timing = [nbt |-> timing.nbt, dbt |-> timing.dbt, ssp |-> timing.ssp]
        /\ timing.nbt = Backup.nbt /\ timing.dbt = Backup.dbt
    BY <2>3
  <2> QED BY <2>2, <2>4, BackupTimings, Zenon DEF TimingInv, TimingOf, Workable
<1>2. ElemInv /\ TimingInv /\ [Next]_timed_vars => ElemInv' /\ TimingInv'
  <2> SUFFICES ASSUME ElemInv, TimingInv, [Next]_timed_vars PROVE ElemInv' /\ TimingInv'
    OBVIOUS
  <2>1. CASE SameTiming
    <3>1. ElemInv' /\ elem'.name = elem.name
      BY <2>1, ElemKept, Zenon DEF SameTiming
    <3>2. Backup' = Backup
      BY <3>1 DEF Backup
    <3> QED BY <2>1, <3>1, <3>2 DEF SameTiming, TimingInv
  <2>2. CASE Retimed
    <3>1. elem' = elem
      BY <2>2 DEF Retimed
    <3>2. ElemInv'
      BY <3>1, ElemKept, Zenon
    <3>3. Backup' = Backup
      BY <3>1 DEF Backup
    <3>4. TimingOf(elem.name[1], Backup, timing')
      BY <2>2, RetimedKeeps
    <3> QED BY <3>1, <3>2, <3>3, <3>4 DEF TimingInv
  <2> QED BY <2>1, <2>2, StepTiming
<1>3. TimingInv => MinimalDurations
  BY Zenon DEF TimingInv, TimingOf, MinimalDurations, nbt, dbt
<1> QED BY <1>1, <1>2, <1>3, PTL DEF Spec

-----------------------------------------------------------------------------
(* What driver and monitor are given.                                      *)

\* Whatever the classes of TestIso_7_7, 7_8, 8_7 and 8_8 do to the time quanta of their
\* frames: as long as a frame fits TestSequence, its items match it.
THEOREM SequenceMatchesFittingFrames ==
  ASSUME NEW Bits, frames.drv \in Seq(Bits), frames.mon \in Seq(Bits), FramesFit
  PROVE  SequenceMatchesFrame
<1>1. Fit(frames.drv, frames.mon)
  BY DEF FramesFit
<1>2. ItemsMatch(frames.drv, frames.mon)
  BY <1>1, ItemsPlayFrames
<1> QED BY <1>2 DEF SequenceMatchesFrame
=============================================================================
