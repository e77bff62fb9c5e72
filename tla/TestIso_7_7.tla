---------------------------- MODULE TestIso_7_7 ----------------------------
(***************************************************************************)
(* Bit timing tests of a receiving DUT: the classes TestIso_7_7_*.  The    *)
(* lower tester shifts edges by a phase error, the monitor expects what a  *)
(* DUT sends that synchronizes to them.                                    *)
(***************************************************************************)
EXTENDS TimedLoop

\* ConfigureTest of the classes, with a bit timing.  One elementary test for each
\* phase error.
Setup_7_7(bts) ==
  LET n == bts.nbt
      FedTests(k) == Receiving(Fed(Class(k, 0)))
      Tests_7_7(k) == Receiving(Class(k, 0))
  IN  "7.7.1" :> FedTests(1) @@ "7.7.2" :> FedTests(GetBitLenTQ(n)) @@ "7.7.3" :> FedTests(n.sjw)
      @@ "7.7.4" :> FedTests(GetBitLenTQ(n) - n.ph2 - n.sjw - 1) @@ "7.7.5" :> FedTests(n.sjw)
      @@ "7.7.6" :> FedTests(IF n.ph2 > n.sjw THEN n.ph2 - n.sjw ELSE 0)
      @@ "7.7.7" :> FedTests(1) @@ "7.7.8" :> FedTests(1) @@ "7.7.9.1" :> Tests_7_7(1)
      @@ "7.7.9.2" :> Tests_7_7(1) @@ "7.7.10" :> FedTests(1) @@ "7.7.11" :> Tests_7_7(n.sjw)

NoRx == [no_more |-> TRUE]
ReadsOnly(gold) == [reads |-> <<gold>>]

BaseFrameWith(ident) ==
  Frame([fdf |-> Can20, ide |-> Base, dlc |-> 1, ident |-> ident], draw)

\* The DUT sees an error in bit i.
ErrorIn(i, drv, mon, checks) ==
  RunTimed(PasErrFrmAt(drv, i + 1), ActErrFrmAt(mon, i + 1), checks)

\* The last time quantum of a phase.
ForceLastOf(bits, i, phase, val) ==
  [bits EXCEPT ![i].tqs = ForceTQs(@, {GetLastTQIter(@, phase)}, val)]

-----------------------------------------------------------------------------
(* Sample point, hard synchronization, and synchronization to late edges.  *)

\* Two stuff bits that end just behind and just before the sample point.
TestIso_7_7_1 ==
  /\ RunsTimed("7.7.1")
  /\ \E bits \in {ConvBitFrame(BaseFrameWith(2047))} :
     LET first == GetStuffBit(bits, 0)
         second == GetStuffBit(bits, 1)
         sampled == Shorten(bits, first, "Ph2", nbt.ph2)
         shorter == Shorten(sampled, second, "Ph2", nbt.ph2)
         missed == Shorten(shorter, second, BeforePh2(shorter, second), 1)
         mon == Shorten(ConvRXFrame(bits), GetBitOf(bits, 11, "BaseIdent"), "Ph2", Least(nbt.ph2, nbt.sjw))
     IN  ErrorIn(GetBitOf(bits, 11, "BaseIdent"), missed, mon, NoRx)

\* Nothing but the synchronization segment, e time quanta long.
OnlySync(bits, i, e) ==
  LET sync == Shorten(Shorten(Shorten(bits, i, "Ph2", nbt.ph2), i, "Ph1", nbt.ph1), i, "Prop", nbt.prop)
  IN  Lengthen(sync, i, "Sync", e - 1)

\* The next frame begins e time quanta after the second bit of the intermission.
TestIso_7_7_2 ==
  /\ RunsTimed("7.7.2")
  /\ \E bits \in {ConvBitFrame(BaseFrameWith(0))} :
     LET at == GetBitOf(bits, 4, "BaseIdent")
         drv == PasErrFrmAt(FlipVal(bits, at), at + 1)
         mon == ActErrFrmAt(ConvRXFrame(bits), at + 1)
         Begun(frame) == OnlySync(frame, GetBitOf(frame, 2, "Interm"), elem.index) \o frame
     IN  RunTimedWith(SetRec(node, 0), timing, Begun(drv), Begun(mon), NoRx)

LongerBeforeStuff(bits, n, e) == Lengthen(bits, GetBitOf(bits, n, "BaseIdent"), "Ph2", e)

TestIso_7_7_3 ==
  /\ RunsTimed("7.7.3")
  /\ \E bits \in {LongerBeforeStuff(ConvBitFrame(BaseFrameWith(2047)), 4, elem.index)} :
     LET stuff == GetStuffBit(bits, 0)
         drv == ForceLastOf(ForcePh2(bits, stuff, Recessive), stuff, BeforePh2(bits, stuff), Recessive)
     IN  ErrorIn(stuff, drv, ConvRXFrame(bits), NoRx)

\* As much of the phase as there is, and the rest of the phase before it.
ShortenBackwards(bits, i, phase, n) ==
  LET of == bits[i].tqs
      shorter == Shorten(bits, i, phase, n)
  IN  IF Shortened(of, phase, n) = n THEN shorter
      ELSE Shorten(shorter, i, PrevBitPhase(shorter[i].tqs, phase), n - Shortened(of, phase, n))

TestIso_7_7_4 ==
  /\ RunsTimed("7.7.4")
  /\ \E bits \in {ConvBitFrame(BaseFrameWith(2047))} :
     LET e == nbt.sjw + elem.index
         stuff == GetStuffBit(bits, 0)
         drv == ForcePh2(LongerBeforeStuff(bits, 3, e), stuff, Recessive)
     IN  RunTimedWith(SetRec(node, 0), timing,
           PasErrFrmAt(ShortenBackwards(drv, stuff, BeforePh2(drv, stuff), e + 1 - nbt.sjw), stuff + 1),
           ActErrFrmAt(Lengthen(ConvRXFrame(bits), stuff, "Sync", nbt.sjw), stuff + 1), <<>>)

-----------------------------------------------------------------------------
(* Synchronization to early edges.                                         *)

\* A stuff bit that is dominant for one time quantum comes early by e: the DUT
\* shortens its bit by less, if it has to.
EarlyGlitch(e, shortened) ==
  \E bits \in {ConvBitFrame(BaseFrameWith(2047))} :
    LET before == GetBitOf(bits, 4, "BaseIdent")
        stuff == GetStuffBit(bits, 0)
        drv == SetVal(Shorten(bits, before, "Ph2", e), stuff, Recessive)
    IN  ErrorIn(stuff, ForceInBit(drv, stuff, 0, 0, Dominant),
                Shorten(ConvRXFrame(bits), before, "Ph2", shortened), <<>>)

TestIso_7_7_5 == RunsTimed("7.7.5") /\ EarlyGlitch(elem.index, elem.index)
TestIso_7_7_6 == RunsTimed("7.7.6") /\ EarlyGlitch(nbt.sjw + elem.index, nbt.sjw)

-----------------------------------------------------------------------------
(* Glitches.                                                               *)

\* One recessive time quantum in a stuff bit makes a second edge in it.
Glitched(bits) == ForceInBit(bits, GetStuffBit(bits, 0), 2, 2, Recessive)

TestIso_7_7_7 ==
  /\ RunsTimed("7.7.7")
  /\ \E bits \in {ConvBitFrame(BaseFrameWith(2047))} :
     LET second == GetStuffBit(bits, 1)
     IN  ErrorIn(second, SetVal(Glitched(bits), second, Recessive), ConvRXFrame(bits), <<>>)

\* The bit before it is shorter by one.  Both frames have an active error flag.
TestIso_7_7_8 ==
  /\ RunsTimed("7.7.8")
  /\ \E bits \in {ConvBitFrame(BaseFrameWith(2047))} :
     LET before == GetBitOf(bits, 4, "BaseIdent")
         second == GetStuffBit(bits, 1)
         drv == SetVal(Glitched(Shorten(bits, before, "Ph2", 1)), second, Recessive)
     IN  RunTimed(ActErrFrmAt(drv, second + 1),
                  ActErrFrmAt(Shorten(ConvRXFrame(bits), before, "Ph2", 1), second + 1), <<>>)

RandomCan == Frame([fdf |-> Can20], draw)

\* A dominant pulse that ends before the sample point starts no frame.
TestIso_7_7_9_1 ==
  /\ RunsTimed("7.7.9.1")
  /\ \E sof \in {SubSeq(ConvBitFrame(RandomCan), 1, 1)} :
     LET pulse == Shorten(Shorten(sof, 1, "Ph2", nbt.ph2), 1, "Sync", 1)
         idle == Field("Sof", Times(9, Recessive))
     IN  RunTimed(AppendBits(Shorten(pulse, 1, BeforePh2(pulse, 1), 1), idle),
                  AppendBits(SetVal(sof, 1, Recessive), idle), <<>>)

\* All of PH2, and as much of the other phases, taken from the first five bits.
Pulses(bits) ==
  [i \in DOMAIN bits |->
     IF i = 6 THEN bits[i]
     ELSE Shorten(Shorten(Shorten(bits, i, "Ph2", nbt.ph2), i, "Ph1", nbt.ph2), i, "Prop", nbt.ph2)[i]]

\* Three pulses, each of which the DUT synchronizes to, and a dominant sample.
TestIso_7_7_9_2 ==
  /\ RunsTimed("7.7.9.2")
  /\ \E bits \in {ConvBitFrame(RandomCan)} :
     LET half == (nbt.prop + nbt.ph1 - 2) \div 2 - 1
         vals == <<Dominant, Recessive, Dominant, Recessive, Dominant, Recessive>>
         pulses == Pulses([SubSeq(bits, 1, 6) EXCEPT ![1].val = vals[1]])
         values == [i \in 1 .. 6 |-> [pulses[i] EXCEPT !.val = vals[i]]]
         first == Lengthen(Lengthen(values, 1, "Sync", half), 2, "Sync", 1)
         third == [Lengthen(first, 3, "Sync", half) EXCEPT ![3].tqs = ShortenTQ(@, 1, 1)]
         fourth == [third EXCEPT ![4].tqs = LengthenTQ(@, 1, 2)]
     IN  RunTimed(Lengthen(fourth, 5, "Sync", nbt.prop + nbt.ph1 - 3),
                  PasErrFrmAt(SetVal(bits, 1, Recessive), 2), <<>>)

\* A recessive time quantum just behind the sample point.
TestIso_7_7_10 ==
  /\ RunsTimed("7.7.10")
  /\ \E bits \in {ConvBitFrame(BaseFrameWith(1984))} :
     LET first == GetStuffBit(bits, 0)
         second == GetStuffBit(bits, 1)
         behind == Len(bits[first].tqs) - nbt.ph2
     IN  ErrorIn(second, SetVal(ForceInBit(bits, first, behind, behind, Recessive), second, Dominant),
                 ConvRXFrame(bits), <<>>)

\* The last n time quanta of a bit whose PH2 is whole.
ForceEnd(bits, i, n, val) ==
  LET len == Len(bits[i].tqs) IN ForceInBit(bits, i, len - n, len - 1, val)

\* The acknowledge of the lower tester comes early, and ends before the sample point.
TestIso_7_7_11 ==
  /\ RunsTimed("7.7.11")
  /\ \E bits \in {ConvBitFrame(RandomCan)} :
     LET e == elem.index
         delim == GetBitOf(bits, 0, "CrcDelim")
         ack == GetBitOf(bits, 0, "Ack")
         drv == ForceEnd(SetVal(ForceEnd(bits, delim, e, Dominant), ack, Dominant), ack, e + nbt.ph2, Recessive)
     IN  RunTimed(drv, Shorten(ConvRXFrame(bits), delim, "Ph2", e), ReadsOnly(RandomCan))

TestIso_7_7_Any ==
  \/ TestIso_7_7_1 \/ TestIso_7_7_2 \/ TestIso_7_7_3 \/ TestIso_7_7_4 \/ TestIso_7_7_5
  \/ TestIso_7_7_6 \/ TestIso_7_7_7 \/ TestIso_7_7_8 \/ TestIso_7_7_9_1 \/ TestIso_7_7_9_2
  \/ TestIso_7_7_10 \/ TestIso_7_7_11
=============================================================================
