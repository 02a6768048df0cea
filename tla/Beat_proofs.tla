------------------------------ MODULE Beat_proofs ------------------------------
(***************************************************************************)
(* Proofs about the sound sensor.  First SoundBuffer, for every length of  *)
(* the halves and every schedule: the halves are kept apart and processed  *)
(* in turn, and samples are dropped only while there is something to       *)
(* process, unless the processor once overtook the end of the handshake.   *)
(* Then Beat, for every number of callers and lines: it implements         *)
(* SoundBuffer, and the ring is searched while it is full of fresh lines   *)
(* and hardly changes, unless two callers were inside GetBPM at once.      *)
(***************************************************************************)
EXTENDS Beat, FiniteSetTheorems, TLAPS

\* The half the partition flag says is full.
Full == IF partition THEN 1 ELSE 2

\* A half is handed over, or being worked on, only between two claims.
Handshake ==
  /\ ready \/ ppc # "poll" => ~ processed \/ rpc = "claim"
  /\ ~ ready /\ ppc = "poll" => processed \/ overtaken
  /\ ~ ready /\ ppc = "poll" /\ rpc = "claim" => overtaken
  /\ rpc \in {"flip", "raise"} => processed /\ ~ ready /\ ppc = "poll"
  /\ ppc = "clear" => ready
  /\ ppc \in {"transform", "done"} => ~ ready
  /\ ppc = "done" => half = Full

\* The reader is in the half that is not full.
Position ==
  /\ rpc = "check" => IF partition THEN pointer \in (fft + 1)..(2 * fft)
                                   ELSE pointer \in 1..fft
  /\ rpc = "store" => IF partition THEN pointer \in fft..(2 * fft - 1)
                                   ELSE pointer \in 0..(fft - 1)
  /\ rpc = "flip"  => pointer = IF partition THEN 2 * fft ELSE fft
  /\ rpc \in {"raise", "claim", "wrap"} =>
       pointer = IF partition THEN fft ELSE 2 * fft

\* The half transformed last is the full one, or the other one while the full
\* one still has to be processed.
Order == IF ready \/ ppc # "poll" \/ rpc = "raise" THEN turns # Full ELSE turns = Full

IInv == TypeOK /\ Handshake /\ Position /\ Order

LEMMA HalfBoundary ==
  ASSUME NEW p \in 1..(2 * fft)
  PROVE  /\ p \in 1..fft => (p % fft = 0 <=> p = fft)
         /\ p \in (fft + 1)..(2 * fft) => (p % fft = 0 <=> p = 2 * fft)
BY SoundAssumption, SMTT(30)

LEMMA IInvInit == Init => IInv
<1> SUFFICES ASSUME Init PROVE IInv
  OBVIOUS
<1> USE SoundAssumption DEF Init
<1>1. TypeOK
  <2>1. pointer \in 0..(2 * fft)
    OBVIOUS
  <2> QED BY <2>1, Zenon DEF TypeOK
<1>2. Handshake /\ Order
  BY DEF Handshake, Order, Full
<1>3. Position
  BY DEF Position
<1> QED BY <1>1, <1>2, <1>3 DEF IInv

LEMMA IInvStep == IInv /\ [Next]_vars => IInv'
<1> SUFFICES ASSUME IInv, [Next]_vars PROVE IInv'
  OBVIOUS
<1> USE SoundAssumption DEF IInv, TypeOK, Handshake, Position, Order, Full,
                            reader, processor
<1>1. CASE Check
  <2>1. pointer \in 1..(2 * fft) /\ fft \in Nat
    BY <1>1 DEF Check
  <2>2. UNCHANGED <<ready, partition, processed, pointer, ppc, half, turns, overtaken>>
    BY <1>1 DEF Check
  <2>3. CASE pointer % fft # 0
    <3>1. rpc' = "store"
      BY <1>1, <2>3 DEF Check
    <3>2. IF partition THEN pointer \in fft..(2 * fft - 1) ELSE pointer \in 0..(fft - 1)
      <4>1. IF partition THEN pointer \in (fft + 1)..(2 * fft) ELSE pointer \in 1..fft
        BY <1>1 DEF Check
      <4>2. pointer # fft \/ partition
        BY <2>1, <2>3, <4>1, HalfBoundary
      <4>3. pointer # 2 * fft \/ ~ partition
        BY <2>1, <2>3, <4>1, HalfBoundary
      <4> QED BY <2>1, <4>1, <4>2, <4>3
    <3> QED BY <1>1, <2>2, <3>1, <3>2 DEF Check
  <2>4. CASE pointer % fft = 0 /\ processed
    <3>1. rpc' = "flip"
      BY <1>1, <2>4 DEF Check
    <3>2. pointer = IF partition THEN 2 * fft ELSE fft
      <4>1. IF partition THEN pointer \in (fft + 1)..(2 * fft) ELSE pointer \in 1..fft
        BY <1>1 DEF Check
      <4> QED BY <2>1, <2>4, <4>1, HalfBoundary
    <3> QED BY <1>1, <2>2, <2>4, <3>1, <3>2 DEF Check
  <2>5. CASE pointer % fft = 0 /\ ~ processed
    BY <1>1, <2>2, <2>5 DEF Check
  <2> QED BY <2>3, <2>4, <2>5
<1>2. CASE Flip
  <2>1. /\ rpc = "flip" /\ rpc' = "raise" /\ partition' = ~ partition
        /\ UNCHANGED <<ready, processed, pointer, ppc, half, turns, overtaken>>
    BY <1>2 DEF Flip
  <2>2. processed /\ ~ ready /\ ppc = "poll" /\ turns = Full
    BY <2>1
  <2>3. TypeOK' /\ Handshake'
    BY <2>1, <2>2
  <2>4. Position'
    BY <2>1
  <2>5. Order'
    <3>1. turns # Full'
      <4>1. Full # Full'
        <5>1. partition => Full = 1 /\ Full' = 2
          BY Zenon, <2>1 DEF Full
        <5>2. ~ partition => Full = 2 /\ Full' = 1
          BY Zenon, <2>1 DEF Full
        <5> HIDE DEF Full
        <5> QED BY <5>1, <5>2
      <4> QED BY <2>2, <4>1
    <3> QED BY Zenon, <2>1, <3>1 DEF Order
  <2> QED BY <2>3, <2>4, <2>5
<1>3. CASE Raise
  BY <1>3 DEF Raise
<1>4. CASE Claim
  BY <1>4 DEF Claim
<1>5. CASE Wrap
  BY <1>5 DEF Wrap
<1>6. CASE Store
  BY <1>6 DEF Store
<1>7. CASE Poll
  BY <1>7 DEF Poll
<1>8. CASE Clear
  BY <1>8 DEF Clear
<1>9. CASE Transform
  BY <1>9 DEF Transform
<1>10. CASE Done
  BY <1>10 DEF Done
<1>11. CASE UNCHANGED vars
  BY <1>11 DEF vars
<1> QED BY <1>1, <1>2, <1>3, <1>4, <1>5, <1>6, <1>7, <1>8, <1>9, <1>10, <1>11
        DEF Next, ReadData, Process

\* The pointer stays inside the buffer, and every flag keeps its type.
THEOREM TypeCorrect == Spec => []TypeOK
<1>1. IInv => TypeOK
  BY DEF IInv
<1> QED BY <1>1, IInvInit, IInvStep, PTL DEF Spec

\* ReadData never stores a sample into the half Transform is reading, although
\* nothing locks the buffer and the handshake may be preempted anywhere.
THEOREM HalvesDisjoint == Spec => []NoOverlap
<1>1. IInv => NoOverlap
  BY SoundAssumption DEF IInv, TypeOK, Handshake, Position, Full, NoOverlap, HalfOf
<1> QED BY <1>1, IInvInit, IInvStep, PTL DEF Spec

\* Nothing but an overtaken handshake makes ReadData drop samples for nothing.
THEOREM SkipsOnlyWhileProcessing == Spec => []SkipsOnlyUnprocessed
<1>1. IInv => SkipsOnlyUnprocessed
  BY DEF IInv, Handshake, SkipsOnlyUnprocessed, NothingToProcess
<1> QED BY <1>1, IInvInit, IInvStep, PTL DEF Spec

\* Processor takes the halves in turn: none is transformed twice or skipped.
THEOREM HalvesInTurn == Spec => HalvesAlternate
<1>1. IInv /\ [Next]_vars => [ppc = "done" /\ ppc' = "poll" => half # turns]_vars
  BY DEF IInv, Handshake, Order
<1> QED BY <1>1, IInvInit, IInvStep, PTL DEF Spec, HalvesAlternate

-----------------------------------------------------------------------------
(* Beat. *)

\* The callers that have stored a result and not yet looked for the end.
Wrapping == {c \in Callers : gpc[c] = "wrap"}

RingOK == /\ reading_flux \in BOOLEAN
          /\ bpm_cycle \in 0..FLUXLINES
          /\ flux_point \in 0..(FLUXLINES - 1)
          /\ lpc \in {"none", "test", "lines", "count", "store", "advance"}
          /\ cycle \in 0..FLUXLINES
          /\ gpc \in [Callers -> {"out", "claim", "reset", "sum", "smooth", "wrap"}]
          /\ fresh \in 0..FLUXLINES
          /\ disturbed \in 0..2
          /\ calls \in {"apart", "crossed", "alone"}

\* Each caller that is about to wrap has moved the pointer by one.
PointerInv == /\ bmp_pointer \in Nat
              /\ bmp_pointer <= BPMSMOOTH + Cardinality(Wrapping)

\* Callers that did not cross are inside one at a time.
Solo == calls # "crossed" =>
          \A c, d \in Callers : gpc[c] # "out" /\ gpc[d] # "out" => c = d

\* Only the caller that is inside can empty the cycle it found full.
FoundFull == calls # "crossed" =>
               \A c \in Callers : gpc[c] \in {"claim", "reset"} => bpm_cycle = FLUXLINES

\* The ring is claimed as long as it is searched, and the one line that may still
\* change it is the one Processor has begun.
Held == calls # "crossed" =>
          \A c \in Callers : gpc[c] \in {"reset", "sum"} =>
            /\ reading_flux
            /\ disturbed <= 1
            /\ lpc = "lines" => disturbed = 0

\* What Processor is about to store is one more than the count, if nobody reset
\* that meanwhile.
Loaded == lpc = "store" => cycle < FLUXLINES /\ bpm_cycle \in {0, cycle}

\* No more lines are counted than were recorded since the count was reset, except
\* for the one that was recorded before the reset and counted after it.
Counted == calls = "apart" =>
             /\ bpm_cycle <= fresh + 1
             /\ lpc \in {"count", "store"} => bpm_cycle <= fresh
             /\ lpc = "store" => bpm_cycle = cycle

\* The ring is marked as being read only while somebody reads it.
ReleasedAfterUse == reading_flux => \E c \in Callers : gpc[c] \in {"reset", "sum"}

RingInv == RingOK /\ Solo /\ FoundFull /\ Held /\ Loaded /\ Counted /\ ReleasedAfterUse

BeatInv == RingInv /\ PointerInv

LEMMA BeatInvInit == BeatInit => BeatInv
<1> SUFFICES ASSUME BeatInit PROVE BeatInv
  OBVIOUS
<1>1. RingInv
  <2>1. RingOK
    <3>1. /\ bpm_cycle = 0 /\ flux_point = 0 /\ cycle = 0 /\ fresh = 0 /\ disturbed = 0
          /\ lpc = "none" /\ calls = "apart" /\ gpc = [c \in Callers |-> "out"]
      BY DEF BeatInit
    <3>2. reading_flux \in BOOLEAN
      BY Zenon DEF BeatInit
    <3> QED BY <3>1, <3>2, BeatAssumption DEF RingOK
  <2>2. Solo /\ FoundFull /\ Held /\ Loaded /\ Counted /\ ReleasedAfterUse
    BY BeatAssumption DEF BeatInit, Solo, FoundFull, Held, Loaded, Counted, ReleasedAfterUse
  <2> QED BY <2>1, <2>2 DEF RingInv
<1>2. PointerInv
  <2>1. Wrapping = {}
    BY DEF BeatInit, Wrapping
  <2> QED BY <2>1, FS_EmptySet, BeatAssumption DEF BeatInit, PointerInv
<1> QED BY <1>1, <1>2 DEF BeatInv

\* What the sampling and the transform of a half leave alone.
LEMMA SamplingStep ==
  ASSUME RingInv, (ReadData /\ UNCHANGED beat) \/ ProcessHalf \/ UNCHANGED beatVars
  PROVE  RingInv'
BY DEF RingInv, RingOK, Solo, FoundFull, Held, Loaded, Counted, ReleasedAfterUse,
       beat, record, beatVars, ProcessHalf

LEMMA RecordStep == ASSUME RingInv, Record PROVE RingInv'
<1> USE BeatAssumption DEF RingInv, RingOK, Solo, FoundFull, Held, Loaded, Counted,
                           ReleasedAfterUse, AtMost
<1>1. CASE Test
  BY <1>1 DEF Test
<1>2. CASE Lines
  BY <1>2 DEF Lines
<1>3. CASE Count
  BY <1>3 DEF Count
<1>4. CASE StoreCount
  BY <1>4 DEF StoreCount
<1>5. CASE Advance
  BY <1>5 DEF Advance
<1> QED BY <1>1, <1>2, <1>3, <1>4, <1>5 DEF Record

LEMMA CallerStep == ASSUME RingInv, NEW c \in Callers, GetBPM(c) PROVE RingInv'
<1> USE BeatAssumption DEF RingInv, RingOK, Solo, FoundFull, Held, Loaded, Counted,
                           ReleasedAfterUse, record
<1>1. CASE Enough(c)
  BY <1>1 DEF Enough, Inside
<1>2. CASE ClaimFlux(c)
  BY <1>2 DEF ClaimFlux
<1>3. CASE ResetCycle(c)
  BY <1>3 DEF ResetCycle
<1>4. CASE Sum(c)
  BY <1>4 DEF Sum
<1>5. CASE Smooth(c)
  BY <1>5 DEF Smooth
<1>6. CASE WrapSmooth(c)
  BY <1>6 DEF WrapSmooth
<1> QED BY <1>1, <1>2, <1>3, <1>4, <1>5, <1>6 DEF GetBPM, Compute

LEMMA PointerStep == ASSUME RingInv, PointerInv, [BeatNext]_beatVars PROVE PointerInv'
<1> USE DEF PointerInv
<1>1. IsFiniteSet(Wrapping) /\ Cardinality(Wrapping) \in Nat
  BY FS_Subset, FS_CardinalityType, BeatAssumption DEF Wrapping
<1>2. CASE UNCHANGED <<bmp_pointer, gpc>>
  BY <1>2 DEF Wrapping
<1>3. ASSUME NEW c \in Callers, Enough(c) \/ ClaimFlux(c) \/ ResetCycle(c) \/ Sum(c)
      PROVE  PointerInv'
  <2>1. bmp_pointer' = bmp_pointer /\ Wrapping' = Wrapping
    BY <1>3 DEF Enough, ClaimFlux, ResetCycle, Sum, Wrapping, RingInv, RingOK
  <2> QED BY <2>1
<1>4. ASSUME NEW c \in Callers, Smooth(c)
      PROVE  PointerInv'
  <2>1. bmp_pointer' = bmp_pointer + 1 /\ c \notin Wrapping /\ Wrapping' = Wrapping \cup {c}
    BY <1>4 DEF Smooth, Wrapping, RingInv, RingOK
  <2>2. Cardinality(Wrapping') = Cardinality(Wrapping) + 1
    BY <1>1, <2>1, FS_AddElement
  <2> QED BY <1>1, <2>1, <2>2, BeatAssumption
<1>5. ASSUME NEW c \in Callers, WrapSmooth(c)
      PROVE  PointerInv'
  <2>1. bmp_pointer' \in Nat /\ bmp_pointer' <= BPMSMOOTH
    BY <1>5, BeatAssumption DEF WrapSmooth
  <2>2. Cardinality(Wrapping') \in Nat
    <3>1. Wrapping' = Wrapping \ {c}
      BY <1>5 DEF WrapSmooth, Wrapping, RingInv, RingOK
    <3> QED BY <1>1, <3>1, FS_RemoveElement, FS_CardinalityType
  <2> QED BY <2>1, <2>2, BeatAssumption
<1>6. CASE (ReadData /\ UNCHANGED beat) \/ ProcessHalf \/ Record \/ UNCHANGED beatVars
  BY <1>2, <1>6 DEF beat, beatVars, ProcessHalf, Record, Test, Lines, Count, StoreCount, Advance
<1> QED BY <1>3, <1>4, <1>5, <1>6 DEF BeatNext, GetBPM, Compute

LEMMA BeatInvStep == BeatInv /\ [BeatNext]_beatVars => BeatInv'
BY SamplingStep, RecordStep, CallerStep, PointerStep DEF BeatInv, BeatNext

LEMMA BeatInvAlways == BeatSpec => []BeatInv
BY BeatInvInit, BeatInvStep, PTL DEF BeatSpec

\* The rest of the sensor does not disturb the sampling: every step of it is one of
\* SoundBuffer or leaves its variables alone.
THEOREM ImplementsSoundBuffer == BeatSpec => Spec
<1>1. BeatInit => Init
  BY DEF BeatInit
<1>2. [BeatNext]_beatVars => [Next]_vars
  BY Zenon DEF BeatNext, ProcessHalf, Record, GetBPM, Compute, Next, beatVars
<1> QED BY <1>1, <1>2, PTL DEF BeatSpec, Spec

\* _flux_point stays inside the ring whatever the threads do, and _bmp_pointer runs
\* at most as many slots over the end of its own as there are callers.
THEOREM BeatTypeCorrect == BeatSpec => []BeatTypeOK
<1>1. BeatInv => bmp_pointer \in 0..(BPMSMOOTH + Cardinality(Callers))
  <2> SUFFICES ASSUME BeatInv PROVE bmp_pointer \in 0..(BPMSMOOTH + Cardinality(Callers))
    OBVIOUS
  <2>1. IsFiniteSet(Callers) /\ Wrapping \in SUBSET Callers
    BY BeatAssumption DEF Wrapping
  <2>2. /\ Cardinality(Wrapping) <= Cardinality(Callers)
        /\ Cardinality(Wrapping) \in Nat /\ Cardinality(Callers) \in Nat
    BY <2>1, FS_Subset, FS_CardinalityType
  <2> QED BY <2>2, BeatAssumption DEF BeatInv, PointerInv
<1>2. BeatInv /\ TypeOK => BeatTypeOK
  BY <1>1 DEF BeatInv, RingInv, RingOK, BeatTypeOK
<1> QED BY <1>2, BeatInvAlways, ImplementsSoundBuffer, TypeCorrect, PTL

\* The halves of the buffer are kept apart in the whole sensor, too.
THEOREM SensorKeepsHalvesApart == BeatSpec => [](NoOverlap /\ SkipsOnlyUnprocessed)
BY ImplementsSoundBuffer, HalvesDisjoint, SkipsOnlyWhileProcessing, PTL

\* The ring is searched only when it has been filled anew, but for one line, since
\* the search before, unless two callers were inside GetBPM at once.
THEOREM SearchedWhenFresh == BeatSpec => WindowIsFresh
<1>1. BeatInv /\ [BeatNext]_beatVars
        => [\A c \in Callers : gpc[c] = "reset" /\ gpc'[c] = "sum" /\ calls = "apart"
                                => fresh + 1 >= FLUXLINES]_beatVars
  BY BeatAssumption DEF BeatInv, RingInv, RingOK, FoundFull, Counted
<1> QED BY <1>1, BeatInvAlways, PTL DEF BeatSpec, WindowIsFresh

\* While one caller searches the ring Processor changes at most the line it had begun.
THEOREM SearchIsUndisturbed == BeatSpec => []SearchedUndisturbed
<1>1. BeatInv => SearchedUndisturbed
  BY DEF BeatInv, RingInv, Held, SearchedUndisturbed
<1> QED BY <1>1, BeatInvAlways, PTL

\* However the callers cross, none leaves the ring marked as being read: Processor can
\* go on recording as soon as nobody searches.
THEOREM RingIsReleased == BeatSpec => []ReleasedAfterUse
<1>1. BeatInv => ReleasedAfterUse
  BY DEF BeatInv, RingInv
<1> QED BY <1>1, BeatInvAlways, PTL
=============================================================================
