--------------------------- MODULE DrawingProofs ----------------------------
(***************************************************************************)
(* What holds of the threads that draw animations and of their caches, for *)
(* any keys, frames, workers, players and ceilings.                        *)
(***************************************************************************)
EXTENDS RasterPool, TextureLedger, PlaybackHub, Stepwise, SequenceTheorems,
        FiniteSetTheorems, TLAPS

(* The raster pool and the frame cache.                                     *)

Stages == {"taken", "looking", "drawing", "keeping", "showing", "sweeping", "tearing", "done"}
SoFar == 1..Len(keyOf)

(* The types, and that only sequences that were opened are worked on.       *)
RasterTyped ==
    /\ entries \in [Keys -> SoFar \cup {0}] /\ bytes \in Nat
    /\ lastUse \in [Keys -> 0..Cardinality(Keys)]
    /\ priced \in [Keys -> Nat] /\ retained \in [Keys -> Nat]
    /\ keyOf \in Seq(Keys) /\ Len(keyOf) <= MaxSequences
    /\ tornDown \subseteq SoFar /\ compressed \in [Ids -> SUBSET Frames]
    /\ decoded \in Seq(Keys \X Frames)
    /\ queued \in Seq(SoFar \X Frames) /\ Len(queued) <= MaximumPending
    /\ asking = <<>> \/ asking \in SoFar \X Frames
    /\ worker \in [Workers -> {Idling} \cup [at : Stages, job : SoFar \X Frames, evicted : SUBSET SoFar]]
    /\ releasing \subseteq SoFar
    /\ draws \in [AnimationViews -> SoFar \cup {0}] /\ holds \in [AnimationViews -> {"no", "late", "safe"}]
    /\ \A v \in AnimationViews : holds[v] # "no" => draws[v] # 0
    /\ relaxed \in BOOLEAN /\ frameRequests \in 0..MaxRequests

LEMMA RasterSizes ==
    /\ IsFiniteSet(Keys) /\ IsFiniteSet(Frames) /\ IsFiniteSet(Workers) /\ IsFiniteSet(AnimationViews)
    /\ Cardinality(Keys) \in Nat /\ MaximumPending \in Nat /\ MaximumPending > 0 /\ CacheCeiling \in Nat
    /\ MaxSequences \in Nat /\ MaxRequests \in Nat
  BY RasterAssumption, FS_CardinalityType

LEMMA NamesAreNames ==
    ASSUME RasterTyped, NEW job \in SoFar \X Frames
    PROVE  NameOf(job) \in Keys \X Frames
<1>1. keyOf \in Seq(Keys) /\ job[1] \in 1..Len(keyOf) /\ job[2] \in Frames
  BY DEF RasterTyped, SoFar
<1>2. keyOf[job[1]] \in Keys
  BY <1>1, ElementOfSeq
<1>3. QED
  BY <1>1, <1>2 DEF NameOf

LEMMA WorkerMoves ==
    ASSUME RasterTyped, NEW w \in Workers, NEW from, NEW to \in Stages, from # "free", WorkerGoes(w, from, to)
    PROVE  /\ worker[w] \in [at : Stages, job : SoFar \X Frames, evicted : SUBSET SoFar]
           /\ worker'[w] = [at |-> to, job |-> worker[w].job, evicted |-> worker[w].evicted]
           /\ worker' \in [Workers -> {Idling} \cup [at : Stages, job : SoFar \X Frames, evicted : SUBSET SoFar]]
           /\ \A u \in Workers : u # w => worker'[u] = worker[u]
<1> DEFINE W == [at : Stages, job : SoFar \X Frames, evicted : SUBSET SoFar]
<1>1. worker[w].at = from /\ worker' = [worker EXCEPT ![w].at = to] /\ worker \in [Workers -> {Idling} \cup W]
  BY DEF WorkerGoes, RasterTyped
<1>2. worker[w] \in W
  BY <1>1 DEF Idling
<1>3. worker'[w] = [worker[w] EXCEPT !.at = to] /\ \A u \in Workers : u # w => worker'[u] = worker[u]
  BY <1>1
<1>4. worker'[w] = [at |-> to, job |-> worker[w].job, evicted |-> worker[w].evicted]
  BY <1>2, <1>3
<1>5. worker'[w] \in W
  BY <1>2, <1>4
<1>6. worker' \in [Workers -> {Idling} \cup W]
  <2>1. \A u \in Workers : worker'[u] \in {Idling} \cup W
    BY <1>1, <1>3, <1>5
  <2>2. DOMAIN worker' = Workers /\ worker' = [u \in Workers |-> worker'[u]]
    BY <1>1
  <2> HIDE DEF W
  <2>3. QED
    BY <2>1, <2>2
<1>7. QED
  BY <1>2, <1>3, <1>4, <1>6

LEMMA TouchedIsTyped ==
    ASSUME RasterTyped, NEW k \in Keys
    PROVE  UsedNow(k) \in [Keys -> 0..Cardinality(Keys)]
<1>1. /\ lastUse \in [Keys -> 0..Cardinality(Keys)] /\ Cardinality(Keys) \in Nat
  BY RasterSizes DEF RasterTyped
<1>2. ASSUME NEW j \in Keys
      PROVE  (IF j = k THEN 0 ELSE IF lastUse[j] < lastUse[k] THEN lastUse[j] + 1 ELSE lastUse[j])
                \in 0..Cardinality(Keys)
  BY <1>1
<1>3. QED
  BY <1>2 DEF UsedNow

LEMMA LatestIsTyped ==
    ASSUME NEW T, NEW order \in Seq(T), NEW x \in T
    PROVE  Latest(order, x) \in Seq(T)
<1>1. Remaining(order, {x}) \in Seq(T)
  BY RemainingKeeps
<1>2. QED
  BY <1>1 DEF Latest

(* A worker moves, and what it works on changes as its stage says.          *)
OnlyWorkers == UNCHANGED <<cacheVars, keyOf, tornDown, poolVars, releasing, viewVars, relaxed>>
LEMMA StagesTyped ==
    ASSUME RasterTyped, OnlyWorkers, NEW w \in Workers, NEW from, NEW to \in Stages, from # "free",
           WorkerGoes(w, from, to), compressed' \in [Ids -> SUBSET Frames], decoded' \in Seq(Keys \X Frames)
    PROVE  RasterTyped'
<1>1. worker' \in [Workers -> {Idling} \cup [at : Stages, job : SoFar \X Frames, evicted : SUBSET SoFar]]
  BY WorkerMoves
<1>2. SoFar' = SoFar
  BY DEF OnlyWorkers, SoFar
<1>3. QED
  BY <1>1, <1>2 DEF RasterTyped, OnlyWorkers, cacheVars, poolVars, viewVars

(* Nobody's work changes.                                                   *)
LEMMA OpenTyped ==
    ASSUME RasterTyped, NEW v \in AnimationViews, NEW k \in Keys, OpenSequence(v, k)
    PROVE  RasterTyped' /\ SoFar \subseteq SoFar'
<1>1. /\ draws[v] = 0 /\ lastUse' = UsedNow(k)
      /\ UNCHANGED <<bytes, retained, tornDown, compressed, decoded, queued, inflight, asking, frameRequests,
                     worker, releasing, holds, relaxed>>
  BY DEF OpenSequence, poolVars
<1>2. lastUse' \in [Keys -> 0..Cardinality(Keys)]
  BY <1>1, TouchedIsTyped
<1>3. CASE entries[k] # 0
  <2>1. draws' = [draws EXCEPT ![v] = entries[k]] /\ UNCHANGED <<entries, priced, keyOf>>
    BY <1>3 DEF OpenSequence
  <2>2. SoFar' = SoFar /\ entries[k] \in SoFar \cup {0}
    BY <2>1 DEF SoFar, RasterTyped
  <2>3. QED
    BY <1>1, <1>2, <2>1, <2>2 DEF RasterTyped
<1>4. CASE entries[k] = 0
  <2> DEFINE n == Len(keyOf) + 1
  <2>1. /\ Len(keyOf) < MaxSequences /\ keyOf' = Append(keyOf, k)
        /\ entries' = [entries EXCEPT ![k] = Len(keyOf')]
        /\ priced' = [priced EXCEPT ![k] = 0]
        /\ draws' = [draws EXCEPT ![v] = Len(keyOf')]
    BY <1>4 DEF OpenSequence
  <2>2. /\ keyOf' \in Seq(Keys) /\ Len(keyOf') = n /\ n <= MaxSequences
        /\ SoFar \subseteq SoFar' /\ n \in SoFar'
    BY <2>1, RasterSizes DEF RasterTyped, SoFar
  <2> HIDE DEF n
  <2>3. /\ entries' \in [Keys -> SoFar' \cup {0}] /\ priced' \in [Keys -> Nat]
        /\ draws' \in [AnimationViews -> SoFar' \cup {0}]
    BY <2>1, <2>2 DEF RasterTyped
  <2>4. /\ tornDown' \subseteq SoFar' /\ releasing' \subseteq SoFar'
        /\ (asking' = <<>> \/ asking' \in SoFar' \X Frames)
    BY <1>1, <2>2 DEF RasterTyped
  <2>5. queued' \in Seq(SoFar' \X Frames)
    <3>1. SoFar \X Frames \subseteq SoFar' \X Frames
      BY <2>2
    <3>2. queued \in Seq(SoFar \X Frames)
      BY DEF RasterTyped
    <3>3. QED
      BY <1>1, <3>1, <3>2
  <2>6. worker' \in [Workers -> {Idling} \cup [at : Stages, job : SoFar' \X Frames, evicted : SUBSET SoFar']]
    <3>1. [at : Stages, job : SoFar \X Frames, evicted : SUBSET SoFar]
             \subseteq [at : Stages, job : SoFar' \X Frames, evicted : SUBSET SoFar']
      BY <2>2
    <3>2. worker \in [Workers -> {Idling} \cup [at : Stages, job : SoFar \X Frames, evicted : SUBSET SoFar]]
      BY DEF RasterTyped
    <3>3. QED
      BY <1>1, <3>1, <3>2
  <2>7. \A u \in AnimationViews : holds'[u] # "no" => draws'[u] # 0
    BY <1>1, <2>1, <2>2 DEF RasterTyped, SoFar
  <2>8. QED
    BY <1>1, <1>2, <2>2, <2>3, <2>4, <2>5, <2>6, <2>7 DEF RasterTyped
<1>5. QED
  BY <1>3, <1>4 DEF RasterTyped, SoFar

LEMMA HoldsTyped ==
    ASSUME RasterTyped, NEW v \in AnimationViews, Retain(v) \/ ReleaseKey(v),
           holds[v] # "no" => retained[keyOf[draws[v]]] > 0
    PROVE  RasterTyped'
<1>1. UNCHANGED <<entries, priced, bytes, keyOf, tornDown, compressed, decoded, queued, inflight, asking,
                  frameRequests, worker, releasing>>
  BY DEF Retain, ReleaseKey, sequenceVars, poolVars
<1>2. SoFar' = SoFar
  BY <1>1 DEF SoFar
<1>3. draws[v] # 0 /\ draws[v] \in 1..Len(keyOf) /\ keyOf[draws[v]] \in Keys
  <2>1. draws[v] # 0 /\ draws[v] \in 1..Len(keyOf) /\ keyOf \in Seq(Keys)
    BY DEF Retain, ReleaseKey, RasterTyped, SoFar
  <2>2. QED
    BY <2>1, ElementOfSeq
<1> DEFINE k == keyOf[draws[v]]
<1>4. CASE Retain(v)
  <2>1. lastUse' \in [Keys -> 0..Cardinality(Keys)]
    BY <1>3, <1>4, TouchedIsTyped DEF Retain, RasterTyped
  <2>5. /\ retained' = [retained EXCEPT ![k] = @ + 1] /\ draws' = draws /\ relaxed' = relaxed
        /\ holds' = [holds EXCEPT ![v] = IF entries[k] = draws[v] THEN "safe" ELSE "late"]
    BY <1>4 DEF Retain
  <2>6. k \in Keys /\ retained \in [Keys -> Nat] /\ holds \in [AnimationViews -> {"no", "late", "safe"}]
    BY <1>3 DEF RasterTyped
  <2> HIDE DEF k
  <2>7. retained' \in [Keys -> Nat]
    BY <2>5, <2>6
  <2>8. holds' \in [AnimationViews -> {"no", "late", "safe"}]
    <3>1. (IF entries[k] = draws[v] THEN "safe" ELSE "late") \in {"no", "late", "safe"}
      OBVIOUS
    <3>2. QED
      BY <2>5, <2>6, <3>1
  <2>2. retained' \in [Keys -> Nat] /\ holds' \in [AnimationViews -> {"no", "late", "safe"}] /\ draws' = draws
        /\ relaxed' = relaxed
    BY <2>5, <2>7, <2>8
  <2>3. \A u \in AnimationViews : holds'[u] # "no" => draws'[u] # 0
    BY <1>3, <1>4 DEF Retain, RasterTyped
  <2>4. QED
    BY <1>1, <1>2, <2>1, <2>2, <2>3 DEF RasterTyped
<1>5. CASE ReleaseKey(v)
  <2>1. retained' \in [Keys -> Nat]
    <3>1. /\ retained' = [retained EXCEPT ![k] = @ - 1] /\ k \in Keys /\ retained \in [Keys -> Nat]
          /\ retained[k] - 1 \in Nat
      <4>1. /\ retained' = [retained EXCEPT ![k] = @ - 1] /\ retained[k] > 0
        BY <1>5 DEF ReleaseKey
      <4>2. k \in Keys /\ retained \in [Keys -> Nat]
        BY <1>3 DEF RasterTyped
      <4> HIDE DEF k
      <4>3. retained[k] - 1 \in Nat
        BY <4>1, <4>2
      <4>4. QED
        BY <4>1, <4>2, <4>3
    <3> HIDE DEF k
    <3>2. QED
      BY <3>1
  <2>2. /\ draws' = [draws EXCEPT ![v] = 0] /\ holds' = [holds EXCEPT ![v] = "no"] /\ relaxed' = TRUE
        /\ lastUse' = lastUse
    BY <1>5 DEF ReleaseKey
  <2>3. /\ draws' \in [AnimationViews -> SoFar \cup {0}] /\ holds' \in [AnimationViews -> {"no", "late", "safe"}]
        /\ \A u \in AnimationViews : holds'[u] # "no" => draws'[u] # 0
    BY <2>2 DEF RasterTyped
  <2>4. QED
    BY <1>1, <1>2, <2>1, <2>2, <2>3 DEF RasterTyped
<1>6. QED
  BY <1>4, <1>5

(* What is asked for goes to the queue.                                     *)
LEMMA QueueTyped ==
    ASSUME RasterTyped, QueueJob \/ \E v \in AnimationViews : \E f \in Frames : AskForFrame(v, f)
    PROVE  RasterTyped'
<1>1. SoFar' = SoFar
  BY DEF QueueJob, AskForFrame, sequenceVars, SoFar
<1>2. CASE QueueJob
  <2>1. /\ asking' = <<>> /\ asking \in SoFar \X Frames
        /\ UNCHANGED <<entries, lastUse, priced, bytes, retained, keyOf, tornDown, compressed, decoded,
                        frameRequests, worker, releasing, draws, holds, relaxed>>
    BY <1>2 DEF QueueJob, cacheVars, sequenceVars, viewVars, RasterTyped
  <2>2. queued' \in Seq(SoFar \X Frames) /\ Len(queued') <= MaximumPending
    <3>1. CASE queued' = queued
      BY <3>1 DEF RasterTyped
    <3>2. CASE Len(queued) >= MaximumPending /\ queued' = Append(Tail(queued), asking)
      <4>1. queued \in Seq(SoFar \X Frames) /\ Len(queued) <= MaximumPending /\ queued # <<>>
        BY <3>2, RasterSizes DEF RasterTyped
      <4>2. Tail(queued) \in Seq(SoFar \X Frames) /\ Len(Tail(queued)) = Len(queued) - 1
        BY <4>1
      <4>3. QED
        BY <2>1, <3>2, <4>1, <4>2, RasterSizes
    <3>3. CASE ~(Len(queued) >= MaximumPending) /\ queued' = Append(queued, asking)
      BY <2>1, <3>3, RasterSizes DEF RasterTyped
    <3>4. QED
      BY <1>2, <3>1, <3>2, <3>3 DEF QueueJob
  <2>3. QED
    BY <1>1, <2>1, <2>2 DEF RasterTyped
<1>3. ASSUME NEW v \in AnimationViews, NEW f \in Frames, AskForFrame(v, f) PROVE RasterTyped'
  <2> DEFINE job == <<draws[v], f>>
  <2>1. /\ draws[v] # 0 /\ frameRequests' = frameRequests + 1 /\ frameRequests < MaxRequests
        /\ UNCHANGED <<entries, lastUse, priced, bytes, retained, keyOf, tornDown, compressed, queued,
                        worker, releasing, draws, holds, relaxed>>
        /\ \/ decoded' = Latest(decoded, NameOf(job)) /\ asking' = asking
           \/ asking' = job /\ decoded' = decoded
    BY <1>3 DEF AskForFrame, cacheVars, viewVars
  <2>2. job \in SoFar \X Frames
    BY <2>1 DEF RasterTyped
  <2> HIDE DEF job
  <2>3. NameOf(job) \in Keys \X Frames
    BY <2>2, NamesAreNames
  <2>4. Latest(decoded, NameOf(job)) \in Seq(Keys \X Frames)
    BY <2>3, LatestIsTyped DEF RasterTyped
  <2>5. frameRequests' \in 0..MaxRequests
    BY <2>1, RasterSizes DEF RasterTyped
  <2>6. QED
    BY <1>1, <2>1, <2>2, <2>4, <2>5 DEF RasterTyped
<1>4. QED
  BY <1>2, <1>3

LEMMA JobsTyped ==
    ASSUME RasterTyped, NEW w \in Workers, TakeJob(w) \/ FinishJob(w)
    PROVE  RasterTyped'
<1> DEFINE W == [at : Stages, job : SoFar \X Frames, evicted : SUBSET SoFar]
<1>1. /\ SoFar' = SoFar
      /\ UNCHANGED <<entries, lastUse, priced, bytes, retained, keyOf, tornDown, compressed, decoded,
                      asking, frameRequests, releasing, draws, holds, relaxed>>
  BY DEF TakeJob, FinishJob, cacheVars, sequenceVars, viewVars, SoFar
<1>2. /\ queued \in Seq(SoFar \X Frames) /\ Len(queued) <= MaximumPending
      /\ worker \in [Workers -> {Idling} \cup W]
  BY DEF RasterTyped
<1>3. CASE TakeJob(w)
  <2>1. queued # <<>> /\ queued' = Tail(queued)
        /\ worker' = [worker EXCEPT ![w] = [at |-> "taken", job |-> Head(queued), evicted |-> {}]]
    BY <1>3 DEF TakeJob
  <2>2. /\ queued' \in Seq(SoFar \X Frames) /\ Len(queued') <= MaximumPending
        /\ Head(queued) \in SoFar \X Frames
    BY <1>2, <2>1, RasterSizes
  <2>3. [at |-> "taken", job |-> Head(queued), evicted |-> {}] \in W
    BY <2>2 DEF Stages
  <2> HIDE DEF W
  <2>4. worker' \in [Workers -> {Idling} \cup W]
    BY <1>2, <2>1, <2>3
  <2>5. QED
    BY <1>1, <2>2, <2>4 DEF RasterTyped, W
<1>4. CASE FinishJob(w)
  <2> HIDE DEF W
  <2>1. queued' = queued /\ worker' \in [Workers -> {Idling} \cup W]
    BY <1>2, <1>4 DEF FinishJob
  <2>2. QED
    BY <1>1, <1>2, <2>1 DEF RasterTyped, W
<1>5. QED
  BY <1>3, <1>4
-----------------------------------------------------------------------------
(* Prices, and who goes in a sweep.                                         *)
LEMMA PricesAreNat ==
    ASSUME RasterTyped
    PROVE  /\ Prices \in [Keys -> Nat] /\ \A k \in Keys : Prices[k] = Price(k) /\ Price(k) \in Nat
           /\ \A S \in SUBSET Keys : IsFiniteSet(S) /\ Priced(S) \in Nat
<1>1. ASSUME NEW k \in Keys PROVE Price(k) \in Nat
  <2>1. CASE entries[k] = 0
    BY <2>1 DEF Price
  <2>2. CASE entries[k] # 0
    <3>1. entries[k] \in Ids
      BY <2>2, RasterSizes DEF RasterTyped, SoFar, Ids
    <3>2. compressed[entries[k]] \subseteq Frames
      BY <3>1 DEF RasterTyped
    <3>3. Cardinality(compressed[entries[k]]) \in Nat
      BY <3>2, RasterSizes, FS_Subset, FS_CardinalityType
    <3>4. QED
      BY <2>2, <3>3 DEF Price
  <2>3. QED
    BY <2>1, <2>2
<1>2. Prices \in [Keys -> Nat] /\ \A k \in Keys : Prices[k] = Price(k)
  BY <1>1 DEF Prices
<1>3. ASSUME NEW S \in SUBSET Keys PROVE IsFiniteSet(S) /\ Priced(S) \in Nat
  <2>1. IsFiniteSet(S)
    BY RasterSizes, FS_Subset
  <2>2. \A x \in S : Prices[x] \in Nat /\ Prices[x] = Prices[x]
    BY <1>2
  <2>3. QED
    BY <2>1, <2>2, SumAgrees DEF Priced
<1>4. QED
  BY <1>1, <1>2, <1>3

FitsAt(use) == Priced(Resident \ Evictable(use)) <= CacheCeiling
                  /\ Cardinality(Resident \ Evictable(use)) <= MaximumResident

LEMMA VictimsAre ==
    ASSUME RasterTyped
    PROVE  /\ Victims \subseteq Resident /\ \A k \in Victims : retained[k] = 0
           /\ Priced(Resident \ Victims) <= CacheCeiling \/ \A k \in Resident \ Victims : retained[k] # 0
<1> DEFINE none == Cardinality(Keys) + 1
           Cut(use) == /\ FitsAt(use) \/ use = 0
                       /\ \A more \in (use + 1)..none : ~FitsAt(more)
           cut == CHOOSE use \in 0..none : Cut(use)
<1>1. none \in Nat
  BY RasterSizes
<1> HIDE DEF none
<1>2. \E use \in 0..none : Cut(use)
  <2> DEFINE Good == {use \in 0..none : FitsAt(use) \/ use = 0}
  <2>1. Good \subseteq 0..none /\ Good # {}
    BY <1>1
  <2>2. PICK m \in Good : \A k \in (m + 1)..none : k \notin Good
    BY <1>1, <2>1, GreatestOf
  <2>3. ASSUME NEW more \in (m + 1)..none PROVE ~FitsAt(more)
    <3>1. more \in 0..none /\ more \notin Good
      BY <1>1, <2>2
    <3>2. QED
      BY <3>1
  <2>4. QED
    BY <2>2, <2>3
<1> HIDE DEF Cut
<1>3. cut \in 0..none /\ Cut(cut)
  BY <1>2
<1>4. Victims = Evictable(cut)
  BY DEF Victims, cut, Cut, FitsAt, none
<1> HIDE DEF cut
<1>5. CASE FitsAt(cut)
  BY <1>4, <1>5 DEF Evictable, FitsAt
<1>6. CASE cut = 0
  <2>1. \A k \in Resident : lastUse[k] >= 0
    BY RasterSizes DEF RasterTyped, Resident
  <2>2. QED
    BY <1>4, <1>6, <2>1 DEF Evictable
<1>7. QED
  BY <1>3, <1>5, <1>6 DEF Cut
-----------------------------------------------------------------------------
LEMMA SweepTyped ==
    ASSUME RasterTyped, NEW w \in Workers, Sweep(w)
    PROVE  /\ RasterTyped'
           /\ worker'[w] = [at |-> IF Victims = {} THEN "done" ELSE "tearing", job |-> worker[w].job,
                             evicted |-> {entries[k] : k \in Victims}]
           /\ \A u \in Workers : u # w => worker'[u] = worker[u]
<1> DEFINE W == [at : Stages, job : SoFar \X Frames, evicted : SUBSET SoFar]
           stage == IF Victims = {} THEN "done" ELSE "tearing"
           torn == {entries[k] : k \in Victims}
           new == [at |-> stage, job |-> worker[w].job, evicted |-> torn]
<1>1. /\ worker[w].at = "sweeping" /\ Evict(Victims) /\ priced' = Prices
      /\ bytes' = Priced(Resident \ Victims) /\ relaxed' = FALSE
      /\ worker' = [worker EXCEPT ![w].at = stage, ![w].evicted = torn]
      /\ UNCHANGED <<lastUse, retained, keyOf, tornDown, compressed, decoded, queued, inflight, asking,
                      frameRequests, releasing, draws, holds>>
  BY DEF Sweep, sequenceVars, poolVars, viewVars
<1>2. SoFar' = SoFar /\ worker \in [Workers -> {Idling} \cup W] /\ entries \in [Keys -> SoFar \cup {0}]
  BY <1>1 DEF SoFar, RasterTyped
<1>3. worker[w] \in W
  BY <1>1, <1>2 DEF Idling
<1>4. torn \subseteq SoFar
  <2>1. ASSUME NEW k \in Victims PROVE entries[k] \in SoFar
    BY <1>2, VictimsAre DEF Resident
  <2>2. QED
    BY <2>1
<1>5. worker'[w] = [worker[w] EXCEPT !.at = stage, !.evicted = torn] /\ \A u \in Workers : u # w => worker'[u] = worker[u]
  <2> HIDE DEF stage, torn, W
  <2>1. QED
    BY <1>1, <1>2
<1>6. stage \in Stages
  BY DEF Stages
<1> HIDE DEF stage, torn
<1>7. worker'[w] = new /\ new \in W
  BY <1>3, <1>4, <1>5, <1>6
<1> HIDE DEF new
<1>8. worker' \in [Workers -> {Idling} \cup W]
  <2>1. \A u \in Workers : worker'[u] \in {Idling} \cup W
    BY <1>2, <1>5, <1>7
  <2>2. worker' = [u \in Workers |-> worker'[u]]
    BY <1>1, <1>2
  <2> HIDE DEF W
  <2>3. QED
    BY <2>1, <2>2
<1>9. entries' \in [Keys -> SoFar \cup {0}]
  BY <1>1, <1>2 DEF Evict
<1>10. priced' \in [Keys -> Nat] /\ bytes' \in Nat
  BY <1>1, PricesAreNat DEF Resident
<1>11. RasterTyped'
  BY <1>1, <1>2, <1>8, <1>9, <1>10 DEF RasterTyped, W
<1>12. QED
  BY <1>5, <1>7, <1>11 DEF new, stage, torn

LEMMA TornTyped ==
    ASSUME RasterTyped, NEW n \in SoFar, TearDown(n), releasing' \subseteq SoFar,
           worker' \in [Workers -> {Idling} \cup [at : Stages, job : SoFar \X Frames, evicted : SUBSET SoFar]]
    PROVE  RasterTyped'
<1>1. /\ tornDown' = tornDown \cup {n} /\ compressed' = [compressed EXCEPT ![n] = {}]
      /\ decoded' = Remaining(decoded, {keyOf[n]} \X Frames) /\ SoFar' = SoFar
      /\ UNCHANGED <<entries, lastUse, priced, bytes, retained, keyOf, queued, inflight, asking, frameRequests,
                      draws, holds, relaxed>>
  BY DEF TearDown, cacheVars, poolVars, viewVars, SoFar
<1>2. decoded' \in Seq(Keys \X Frames)
  BY <1>1, RemainingKeeps DEF RasterTyped
<1>3. compressed' \in [Ids -> SUBSET Frames]
  BY <1>1 DEF RasterTyped
<1>4. tornDown' \subseteq SoFar
  BY <1>1 DEF RasterTyped
<1>5. QED
  BY <1>1, <1>2, <1>3, <1>4 DEF RasterTyped

LEMMA SweptTears ==
    ASSUME RasterTyped, NEW w \in Workers, TearDownSwept(w)
    PROVE  \E n \in worker[w].evicted :
              /\ TearDown(n) /\ n \in SoFar /\ releasing' = releasing
              /\ worker'[w] = [at |-> IF worker[w].evicted = {n} THEN "done" ELSE "tearing", job |-> worker[w].job,
                                evicted |-> worker[w].evicted \ {n}]
              /\ \A u \in Workers : u # w => worker'[u] = worker[u]
              /\ RasterTyped'
<1> DEFINE W == [at : Stages, job : SoFar \X Frames, evicted : SUBSET SoFar]
<1>1. PICK n \in worker[w].evicted :
          /\ TearDown(n)
          /\ worker' = [worker EXCEPT ![w] =
                 [at |-> IF @.evicted = {n} THEN "done" ELSE "tearing", job |-> @.job, evicted |-> @.evicted \ {n}]]
  BY DEF TearDownSwept
<1>2. worker[w].at = "tearing" /\ releasing' = releasing /\ releasing \subseteq SoFar
      /\ worker \in [Workers -> {Idling} \cup W]
  BY DEF TearDownSwept, RasterTyped
<1>3. worker[w] \in W
  BY <1>2 DEF Idling
<1> DEFINE stage == IF worker[w].evicted = {n} THEN "done" ELSE "tearing"
           rest == worker[w].evicted \ {n}
           new == [at |-> stage, job |-> worker[w].job, evicted |-> rest]
<1>4. n \in SoFar /\ stage \in Stages /\ rest \subseteq SoFar
  BY <1>3 DEF Stages
<1>5. worker' = [worker EXCEPT ![w] = new]
  BY <1>1, <1>2
<1> HIDE DEF stage, rest
<1>6. new \in W
  BY <1>3, <1>4
<1> HIDE DEF new
<1>7. worker'[w] = new /\ (\A u \in Workers : u # w => worker'[u] = worker[u])
  BY <1>2, <1>5, <1>6
<1>8. worker' \in [Workers -> {Idling} \cup W]
  <2> HIDE DEF W
  <2>1. QED
    BY <1>2, <1>5, <1>6
<1>9. RasterTyped'
  BY <1>1, <1>2, <1>4, <1>8, TornTyped
<1>10. QED
  BY <1>1, <1>2, <1>4, <1>7, <1>9 DEF new, stage, rest

LEMMA PressureTyped ==
    ASSUME RasterTyped, ReleaseDecoded \/ ReleaseUnretained \/ TearDownReleased
    PROVE  RasterTyped'
<1>1. CASE ReleaseDecoded
  <2>1. /\ decoded' = <<>> /\ SoFar' = SoFar
        /\ UNCHANGED <<entries, lastUse, priced, bytes, retained, keyOf, tornDown, compressed, queued, inflight,
                        asking, frameRequests, worker, releasing, draws, holds, relaxed>>
    BY <1>1 DEF ReleaseDecoded, cacheVars, poolVars, viewVars, SoFar
  <2>2. QED
    BY <2>1 DEF RasterTyped
<1>2. CASE ReleaseUnretained
  <2> DEFINE keys == {k \in Resident : retained[k] = 0}
             charge == SumFunctionOnSet(priced, keys)
  <2>1. /\ Evict(keys) /\ bytes' = IF bytes < charge THEN 0 ELSE bytes - charge
        /\ releasing' = {entries[k] : k \in keys} /\ decoded' = <<>> /\ SoFar' = SoFar
        /\ UNCHANGED <<lastUse, priced, retained, keyOf, tornDown, compressed, queued, inflight, asking,
                        frameRequests, worker, draws, holds, relaxed>>
    BY <1>2 DEF ReleaseUnretained, poolVars, viewVars, SoFar
  <2>2. entries \in [Keys -> SoFar \cup {0}] /\ keys \subseteq Keys
    BY DEF RasterTyped, Resident
  <2>3. charge \in Nat
    <3>1. IsFiniteSet(keys) /\ \A k \in keys : priced[k] \in Nat /\ priced[k] = priced[k]
      BY <2>2, RasterSizes, FS_Subset DEF RasterTyped
    <3> HIDE DEF keys
    <3>2. QED
      BY <3>1, SumAgrees
  <2>4. entries' \in [Keys -> SoFar \cup {0}]
    BY <2>1, <2>2 DEF Evict
  <2>5. releasing' \subseteq SoFar
    BY <2>1, <2>2 DEF Resident
  <2> HIDE DEF charge, keys
  <2>6. bytes' \in Nat
    BY <2>1, <2>3 DEF RasterTyped
  <2>7. QED
    BY <2>1, <2>4, <2>5, <2>6 DEF RasterTyped
<1>3. CASE TearDownReleased
  <2>1. PICK n \in releasing : TearDown(n) /\ releasing' = releasing \ {n} /\ worker' = worker
    BY <1>3 DEF TearDownReleased
  <2>2. QED
    BY <2>1, TornTyped DEF RasterTyped
<1>4. QED
  BY <1>1, <1>2, <1>3

(* The stages of a job.                                                     *)
StageStep(w) == LookDecoded(w) \/ LookCompressed(w) \/ Draw(w) \/ RetainCompressed(w) \/ InsertDecoded(w)

LEMMA StageIs ==
    ASSUME RasterTyped, NEW w \in Workers, StageStep(w)
    PROVE  /\ OnlyWorkers /\ RasterTyped'
           /\ \E from \in Stages, to \in Stages :
                 /\ WorkerGoes(w, from, to)
                 /\ from \in {"showing", "sweeping"} => to \in {"showing", "sweeping"}
                 /\ compressed' = compressed \/ to = "showing"
<1> DEFINE job == JobOf(w)
           name == NameOf(job)
           W == [at : Stages, job : SoFar \X Frames, evicted : SUBSET SoFar]
<1>1. OnlyWorkers
  BY DEF StageStep, LookDecoded, LookCompressed, Draw, RetainCompressed, InsertDecoded, OnlyWorkers, sequenceVars, cacheVars, viewVars, poolVars
<1>2. worker[w].at # "free" => job \in SoFar \X Frames /\ name \in Keys \X Frames
  <2>1. SUFFICES ASSUME worker[w].at # "free" PROVE job \in SoFar \X Frames /\ name \in Keys \X Frames
    BY Zenon
  <2>2. worker[w] \in W
    BY <2>1 DEF RasterTyped, Idling
  <2>3. job \in SoFar \X Frames
    BY <2>2 DEF JobOf
  <2>4. QED
    BY <2>3, NamesAreNames
<1>3. decoded \in Seq(Keys \X Frames) /\ compressed \in [Ids -> SUBSET Frames]
  BY DEF RasterTyped
<1>4. ASSUME NEW from \in Stages, NEW to \in Stages, WorkerGoes(w, from, to),
             from \in {"showing", "sweeping"} => to \in {"showing", "sweeping"},
             compressed' = compressed \/ to = "showing",
             compressed' \in [Ids -> SUBSET Frames], decoded' \in Seq(Keys \X Frames)
      PROVE  RasterTyped' /\ \E f \in Stages, t \in Stages :
                 /\ WorkerGoes(w, f, t)
                 /\ f \in {"showing", "sweeping"} => t \in {"showing", "sweeping"}
                 /\ compressed' = compressed \/ t = "showing"
  <2>1. from # "free"
    BY DEF Stages
  <2>2. RasterTyped'
    BY <1>1, <1>4, <2>1, StagesTyped
  <2>3. QED
    BY <1>4, <2>2
<1>5. CASE LookDecoded(w)
  <2> DEFINE to == IF IsDecoded(name) THEN "sweeping" ELSE "looking"
  <2>1. /\ WorkerGoes(w, "taken", to) /\ compressed' = compressed
        /\ decoded' = IF IsDecoded(name) THEN Latest(decoded, name) ELSE decoded
    BY <1>5 DEF LookDecoded
  <2>2. to \in Stages /\ "taken" \in Stages
    BY DEF Stages
  <2>3. name \in Keys \X Frames
    BY <1>2, <2>1 DEF WorkerGoes
  <2>4. decoded' \in Seq(Keys \X Frames)
    BY <1>3, <2>1, <2>3, LatestIsTyped
  <2> HIDE DEF to
  <2>5. QED
    BY <1>1, <1>3, <1>4, <2>1, <2>2, <2>4
<1>6. CASE LookCompressed(w)
  <2> DEFINE to == IF JobOf(w)[1] \in tornDown THEN "done"
                   ELSE IF JobOf(w)[2] \in compressed[JobOf(w)[1]] THEN "showing" ELSE "drawing"
  <2>1. WorkerGoes(w, "looking", to) /\ compressed' = compressed /\ decoded' = decoded
    BY <1>6 DEF LookCompressed, sequenceVars
  <2>2. to \in Stages /\ "looking" \in Stages
    BY DEF Stages
  <2> HIDE DEF to
  <2>3. QED
    BY <1>1, <1>3, <1>4, <2>1, <2>2
<1>7. CASE Draw(w)
  <2> DEFINE to == IF JobOf(w)[1] \in tornDown THEN "done" ELSE "keeping"
  <2>1. WorkerGoes(w, "drawing", to) /\ compressed' = compressed /\ decoded' = decoded
    BY <1>7 DEF Draw, sequenceVars
  <2>2. to \in Stages /\ "drawing" \in Stages
    BY DEF Stages
  <2> HIDE DEF to
  <2>3. QED
    BY <1>1, <1>3, <1>4, <2>1, <2>2
<1>8. CASE RetainCompressed(w)
  <2> DEFINE n == JobOf(w)[1]
             f == JobOf(w)[2]
  <2>1. /\ WorkerGoes(w, "keeping", "showing") /\ decoded' = decoded
        /\ compressed' = IF n \in tornDown \/ Cardinality(compressed[n]) >= SequenceCeiling
                         THEN compressed ELSE [compressed EXCEPT ![n] = @ \cup {f}]
    BY <1>8 DEF RetainCompressed
  <2>2. "showing" \in Stages /\ "keeping" \in Stages
    BY DEF Stages
  <2>3. f \in Frames
    BY <1>2, <2>1 DEF WorkerGoes
  <2> HIDE DEF n, f
  <2>4. compressed' \in [Ids -> SUBSET Frames]
    BY <1>3, <2>1, <2>3
  <2>5. QED
    BY <1>1, <1>3, <1>4, <2>1, <2>2, <2>4
<1>9. CASE InsertDecoded(w)
  <2> DEFINE more == IF IsDecoded(name) THEN decoded ELSE Append(decoded, name)
  <2>1. /\ WorkerGoes(w, "showing", "sweeping") /\ compressed' = compressed
        /\ decoded' = IF Len(more) > DecodedCeiling /\ Len(more) > 1 THEN Tail(more) ELSE more
    BY <1>9 DEF InsertDecoded
  <2>2. "showing" \in Stages /\ "sweeping" \in Stages
    BY DEF Stages
  <2>3. name \in Keys \X Frames
    BY <1>2, <2>1 DEF WorkerGoes
  <2>4. more \in Seq(Keys \X Frames)
    BY <1>3, <2>3
  <2> HIDE DEF more
  <2>5. decoded' \in Seq(Keys \X Frames)
    <3>1. CASE Len(more) > 1
      <4>1. more # <<>>
        BY <2>4, <3>1
      <4>2. Tail(more) \in Seq(Keys \X Frames)
        BY <2>4, <4>1
      <4>3. QED
        BY <2>1, <2>4, <4>2
    <3>2. CASE ~(Len(more) > 1)
      BY <2>1, <2>4, <3>2
    <3>3. QED
      BY <3>1, <3>2
  <2>6. QED
    BY <1>1, <1>3, <1>4, <2>1, <2>2, <2>5
<1>10. QED
  BY <1>1, <1>5, <1>6, <1>7, <1>8, <1>9 DEF StageStep
-----------------------------------------------------------------------------
(* A frame is in flight once: p names the queue, b what the workers draw.   *)
Once(p, n, b, B, I) ==
    /\ \A i, j \in 1..n : p[i] = p[j] => i = j
    /\ \A u, w \in B : b[u] = b[w] => u = w
    /\ \A i \in 1..n, w \in B : p[i] # b[w]
    /\ I = {p[i] : i \in 1..n} \cup {b[w] : w \in B}

LEMMA OnceAsBefore ==
    ASSUME NEW p, NEW n \in Nat, NEW b, NEW B, NEW I, Once(p, n, b, B, I),
           NEW q, \A i \in 1..n : q[i] = p[i], NEW c, \A w \in B : c[w] = b[w]
    PROVE  Once(q, n, c, B, I)
<1>1. {q[i] : i \in 1..n} = {p[i] : i \in 1..n} /\ {c[w] : w \in B} = {b[w] : w \in B}
  OBVIOUS
<1>2. QED
  BY <1>1 DEF Once

LEMMA OnceAppended ==
    ASSUME NEW p, NEW n \in Nat, NEW b, NEW B, NEW I, Once(p, n, b, B, I), NEW x, x \notin I,
           NEW q, \A i \in 1..n : q[i] = p[i], q[n + 1] = x
    PROVE  Once(q, n + 1, b, B, I \cup {x})
<1>1. \A i \in 1..(n + 1) : i = n + 1 \/ i \in 1..n
  OBVIOUS
<1>2. n + 1 \in 1..(n + 1) /\ \A i \in 1..n : i \in 1..(n + 1)
  OBVIOUS
<1>3. (\A i \in 1..n : q[i] \in I /\ q[i] # x) /\ (\A w \in B : b[w] \in I /\ b[w] # x)
  BY DEF Once
<1> DEFINE N == 1..n
           M == 1..(n + 1)
           z == n + 1
<1>4. /\ \A i \in M : i = z \/ i \in N
      /\ z \in M /\ \A i \in N : i \in M
      /\ \A i \in N : q[i] = p[i] /\ q[i] # x
      /\ q[z] = x
  BY <1>1, <1>2, <1>3
<1>5. /\ \A i, j \in N : p[i] = p[j] => i = j
      /\ \A u, w \in B : b[u] = b[w] => u = w
      /\ \A i \in N, w \in B : p[i] # b[w]
      /\ I = {p[i] : i \in N} \cup {b[w] : w \in B}
  BY DEF Once
<1>6. SUFFICES /\ \A i, j \in M : q[i] = q[j] => i = j
               /\ \A u, w \in B : b[u] = b[w] => u = w
               /\ \A i \in M, w \in B : q[i] # b[w]
               /\ I \cup {x} = {q[i] : i \in M} \cup {b[w] : w \in B}
  BY DEF Once
<1> HIDE DEF M, N, z
<1>7. \A i, j \in M : q[i] = q[j] => i = j
  BY <1>4, <1>5, Zenon
<1>8. \A i \in M, w \in B : q[i] # b[w]
  BY <1>3, <1>4, <1>5, Zenon
<1>9. {q[i] : i \in M} = {p[i] : i \in N} \cup {x}
  BY <1>4
<1>10. QED
  BY <1>5, <1>7, <1>8, <1>9

LEMMA OnceDropped ==
    ASSUME NEW p, NEW n \in Nat, n > 0, NEW b, NEW B, NEW I, Once(p, n, b, B, I),
           NEW q, \A i \in 1..(n - 1) : q[i] = p[i + 1]
    PROVE  Once(q, n - 1, b, B, I \ {p[1]})
<1>1. /\ \A i, j \in 1..n : p[i] = p[j] => i = j
      /\ \A u, w \in B : b[u] = b[w] => u = w
      /\ \A i \in 1..n, w \in B : p[i] # b[w]
      /\ I = {p[i] : i \in 1..n} \cup {b[w] : w \in B}
  BY DEF Once
<1>2. /\ \A i \in 1..(n - 1) : i + 1 \in 1..n /\ i + 1 # 1
      /\ 1 \in 1..n
      /\ \A k \in 1..n : k = 1 \/ (k - 1 \in 1..(n - 1) /\ (k - 1) + 1 = k)
  OBVIOUS
<1>3. ASSUME NEW i \in 1..(n - 1), NEW j \in 1..(n - 1), q[i] = q[j] PROVE i = j
  <2>1. i + 1 = j + 1
    BY <1>1, <1>2, <1>3
  <2>2. QED
    BY <2>1
<1>4. \A i \in 1..(n - 1), w \in B : q[i] # b[w]
  BY <1>1, <1>2
<1>5. {q[i] : i \in 1..(n - 1)} = {p[i] : i \in 1..n} \ {p[1]}
  <2>1. ASSUME NEW i \in 1..(n - 1) PROVE q[i] \in {p[k] : k \in 1..n} \ {p[1]}
    BY <1>1, <1>2
  <2>2. ASSUME NEW k \in 1..n, p[k] # p[1] PROVE p[k] \in {q[i] : i \in 1..(n - 1)}
    <3>1. k # 1
      BY <2>2
    <3>2. k - 1 \in 1..(n - 1) /\ q[k - 1] = p[k]
      BY <1>2, <3>1
    <3>3. QED
      BY <3>2
  <2>3. QED
    BY <2>1, <2>2
<1>6. \A w \in B : b[w] # p[1]
  BY <1>1, <1>2
<1>7. I \ {p[1]} = {q[i] : i \in 1..(n - 1)} \cup {b[w] : w \in B}
  BY <1>1, <1>5, <1>6
<1>8. QED
  BY <1>1, <1>3, <1>4, <1>7 DEF Once

LEMMA OnceTaken ==
    ASSUME NEW p, NEW n \in Nat, NEW b, NEW B, NEW I, Once(p, n, b, B, I), NEW x, x \notin I,
           NEW u, u \notin B, NEW c, c[u] = x, \A w \in B : c[w] = b[w]
    PROVE  Once(p, n, c, B \cup {u}, I \cup {x})
<1>1. /\ \A i, j \in 1..n : p[i] = p[j] => i = j
      /\ \A v, w \in B : b[v] = b[w] => v = w
      /\ \A i \in 1..n, w \in B : p[i] # b[w]
      /\ I = {p[i] : i \in 1..n} \cup {b[w] : w \in B}
  BY DEF Once
<1>2. {c[w] : w \in B \cup {u}} = {b[w] : w \in B} \cup {x}
  OBVIOUS
<1>3. \A v, w \in B \cup {u} : c[v] = c[w] => v = w
  BY <1>1
<1>4. \A i \in 1..n, w \in B \cup {u} : p[i] # c[w]
  BY <1>1
<1>5. QED
  BY <1>1, <1>2, <1>3, <1>4 DEF Once

LEMMA OnceFinished ==
    ASSUME NEW p, NEW n \in Nat, NEW b, NEW B, NEW I, Once(p, n, b, B, I), NEW u \in B
    PROVE  Once(p, n, b, B \ {u}, I \ {b[u]})
<1>1. /\ \A i, j \in 1..n : p[i] = p[j] => i = j
      /\ \A v, w \in B : b[v] = b[w] => v = w
      /\ \A i \in 1..n, w \in B : p[i] # b[w]
      /\ I = {p[i] : i \in 1..n} \cup {b[w] : w \in B}
  BY DEF Once
<1>2. {b[w] : w \in B \ {u}} = {b[w] : w \in B} \ {b[u]}
  BY <1>1
<1>3. \A i \in 1..n : p[i] # b[u]
  BY <1>1
<1>4. QED
  BY <1>1, <1>2, <1>3 DEF Once

QueueNames == [i \in 1..Len(queued) |-> NameOf(queued[i])]
WorkerNames == [w \in Workers |-> NameOf(JobOf(w))]
OnceEach == Once(QueueNames, Len(queued), WorkerNames, Busy, inflight)

LEMMA OneImageEach ==
    ASSUME NEW S, IsFiniteSet(S), NEW f, \A x, y \in S : f[x] = f[y] => x = y
    PROVE  IsFiniteSet({f[x] : x \in S}) /\ Cardinality({f[x] : x \in S}) = Cardinality(S)
<1> DEFINE T == {f[x] : x \in S}
           g == [x \in S |-> f[x]]
<1>1. g \in Bijection(S, T)
  BY DEF Bijection, Injection, Surjection, IsInjective
<1>2. ExistsBijection(S, T)
  BY <1>1 DEF ExistsBijection
<1>3. QED
  BY <1>2, FS_Bijection

LEMMA OnceIsExact ==
    ASSUME RasterTyped, OnceEach
    PROVE  InflightIsExact
<1> DEFINE I == 1..Len(queued)
           f == QueueNames
           g == WorkerNames
           A == {NameOf(queued[i]) : i \in I}
           B == {NameOf(JobOf(w)) : w \in Busy}
<1>1. Len(queued) \in Nat /\ DOMAIN queued = I
  BY DEF RasterTyped
<1>2. IsFiniteSet(I) /\ Cardinality(I) = Len(queued)
  <2> DEFINE n == Len(queued)
  <2>1. n \in Int /\ n >= 0
    BY <1>1
  <2> HIDE DEF n
  <2>2. IsFiniteSet(1..n) /\ Cardinality(1..n) = IF 1 > n THEN 0 ELSE n - 1 + 1
    BY <2>1, FS_Interval
  <2>3. Cardinality(1..n) = n
    BY <2>1, <2>2
  <2>4. QED
    BY <2>2, <2>3 DEF n
<1>3. IsFiniteSet(Busy)
  BY RasterSizes, FS_Subset DEF Busy
<1>4. IsFiniteSet(A) /\ Cardinality(A) = Len(queued)
  <2>1. \A x, y \in I : f[x] = f[y] => x = y
    BY DEF OnceEach, Once
  <2>2. A = {f[x] : x \in I}
    BY DEF QueueNames
  <2> HIDE DEF f, I, A
  <2>3. QED
    BY <1>2, <2>1, <2>2, OneImageEach
<1>5. IsFiniteSet(B) /\ Cardinality(B) = Cardinality(Busy)
  <2>1. \A x, y \in Busy : g[x] = g[y] => x = y
    BY DEF OnceEach, Once
  <2>2. B = {g[x] : x \in Busy}
    BY DEF WorkerNames, Busy
  <2> HIDE DEF g, B
  <2>3. QED
    BY <1>3, <2>1, <2>2, OneImageEach
<1>6. A \cap B = {} /\ inflight = A \cup B
  <2>1. A = {QueueNames[i] : i \in I}
    BY DEF QueueNames
  <2>2. B = {WorkerNames[w] : w \in Busy}
    BY DEF WorkerNames, Busy
  <2>3. /\ \A i \in I, w \in Busy : QueueNames[i] # WorkerNames[w]
        /\ inflight = {QueueNames[i] : i \in I} \cup {WorkerNames[w] : w \in Busy}
    BY DEF OnceEach, Once
  <2> HIDE DEF A, B, I, f, g
  <2>4. QED
    BY <2>1, <2>2, <2>3
<1>7. inflight = {NameOf(queued[i]) : i \in DOMAIN queued} \cup {NameOf(JobOf(w)) : w \in Busy}
  BY <1>1, <1>6
<1> HIDE DEF A, B
<1>8. Cardinality(inflight) = Len(queued) + Cardinality(Busy)
  <2>1. Cardinality(A \cup B) = Cardinality(A) + Cardinality(B) - Cardinality(A \cap B)
    BY <1>4, <1>5, FS_Union
  <2>2. Cardinality(A \cap B) = 0
    BY <1>6, FS_EmptySet
  <2>3. Cardinality(Busy) \in Nat
    BY <1>3, FS_CardinalityType
  <2>4. QED
    BY <1>1, <1>4, <1>5, <1>6, <2>1, <2>2, <2>3
<1>9. QED
  BY <1>7, <1>8 DEF InflightIsExact

SameJobs == \A w \in Workers : \/ worker[w] = Idling /\ worker'[w] = Idling
                               \/ worker[w] # Idling /\ worker'[w] # Idling /\ worker'[w].job = worker[w].job
SameKeys == \A n \in SoFar : keyOf'[n] = keyOf[n]

LEMMA BusyJobs ==
    ASSUME RasterTyped, NEW w \in Busy
    PROVE  w \in Workers /\ JobOf(w) \in SoFar \X Frames /\ worker[w].at \in Stages
           /\ worker[w] \in [at : Stages, job : SoFar \X Frames, evicted : SUBSET SoFar]
  BY DEF RasterTyped, Busy, JobOf

LEMMA NamesStay ==
    ASSUME RasterTyped, SameKeys
    PROVE  \A job \in SoFar \X Frames : NameOf(job)' = NameOf(job)
  BY DEF NameOf, SameKeys

(* What the workers draw is named as before.                                *)
LEMMA WorkersDrawOn ==
    ASSUME RasterTyped, SameKeys, NEW w \in Busy, w \in Workers, worker'[w].job = worker[w].job
    PROVE  WorkerNames'[w] = WorkerNames[w]
<1>1. worker[w].job \in SoFar \X Frames
  BY BusyJobs DEF JobOf
<1>2. <<keyOf'[worker'[w].job[1]], worker'[w].job[2]>> = <<keyOf[worker[w].job[1]], worker[w].job[2]>>
  BY <1>1 DEF SameKeys
<1>3. QED
  BY <1>2 DEF WorkerNames, NameOf, JobOf

LEMMA OnceStays ==
    ASSUME RasterTyped, OnceEach, SameJobs, SameKeys, queued' = queued, inflight' = inflight
    PROVE  OnceEach'
<1>1. Busy' = Busy
  BY DEF SameJobs, Busy
<1>2. \A w \in Busy : WorkerNames'[w] = WorkerNames[w]
  BY WorkersDrawOn, BusyJobs DEF SameJobs, Busy
<1>3. \A i \in 1..Len(queued) : QueueNames'[i] = QueueNames[i]
  <2>1. ASSUME NEW i \in 1..Len(queued) PROVE QueueNames'[i] = QueueNames[i]
    <3>1. queued[i] \in SoFar \X Frames
      BY ElementOfSeq DEF RasterTyped
    <3>2. <<keyOf'[queued[i][1]], queued[i][2]>> = <<keyOf[queued[i][1]], queued[i][2]>>
      BY <3>1 DEF SameKeys
    <3>3. QED
      BY <3>2 DEF QueueNames, NameOf
  <2>2. QED
    BY <2>1
<1>4. Len(queued) \in Nat
  BY DEF RasterTyped
<1>5. Once(QueueNames', Len(queued), WorkerNames', Busy, inflight)
  BY <1>2, <1>3, <1>4, OnceAsBefore DEF OnceEach
<1>6. QED
  BY <1>1, <1>5 DEF OnceEach

(* The three steps that change what is in flight.                           *)
LEMMA QueueOnce ==
    ASSUME RasterTyped, OnceEach, QueueJob
    PROVE  OnceEach'
<1>1. asking \in SoFar \X Frames /\ keyOf' = keyOf /\ worker' = worker
  BY DEF QueueJob, RasterTyped, sequenceVars
<1>2. SameJobs /\ SameKeys
  BY <1>1 DEF SameJobs, SameKeys
<1>3. CASE queued' = queued /\ inflight' = inflight
  BY <1>2, <1>3, OnceStays
<1> DEFINE full == Len(queued) >= MaximumPending
           kept == IF full THEN Tail(queued) ELSE queued
           rest == IF full THEN inflight \ {NameOf(Head(queued))} ELSE inflight
           p == [i \in 1..Len(kept) |-> NameOf(kept[i])]
<1>4. CASE /\ NameOf(asking) \notin inflight /\ queued' = Append(kept, asking)
           /\ inflight' = rest \cup {NameOf(asking)}
  <2>1. queued \in Seq(SoFar \X Frames) /\ (full => queued # <<>>)
    BY RasterSizes DEF RasterTyped
  <2>2. kept \in Seq(SoFar \X Frames)
    BY <2>1
  <2>3. Once(p, Len(kept), WorkerNames, Busy, rest)
    <3>1. CASE full
      <4>1. kept = Tail(queued) /\ Len(kept) = Len(queued) - 1 /\ Len(queued) \in Nat /\ Len(queued) > 0
        BY <2>1, <3>1
      <4>2. \A i \in 1..(Len(queued) - 1) : p[i] = QueueNames[i + 1]
        <5>1. ASSUME NEW i \in 1..(Len(queued) - 1) PROVE p[i] = QueueNames[i + 1]
          <6>1. kept[i] = queued[i + 1] /\ i + 1 \in 1..Len(queued) /\ i \in 1..Len(kept)
            BY <2>1, <4>1
          <6>2. QED
            BY <6>1 DEF QueueNames
        <5>2. QED
          BY <5>1
      <4>3. rest = inflight \ {QueueNames[1]}
        <5>1. Head(queued) = queued[1] /\ 1 \in 1..Len(queued)
          BY <2>1, <4>1
        <5>2. QED
          BY <3>1, <5>1 DEF QueueNames
      <4> HIDE DEF p, rest, kept
      <4>4. QED
        BY <4>1, <4>2, <4>3, OnceDropped DEF OnceEach
    <3>2. CASE ~full
      <4>1. kept = queued /\ rest = inflight
        BY <3>2
      <4>2. p = QueueNames
        BY <4>1 DEF QueueNames
      <4> HIDE DEF p, rest, kept
      <4>3. QED
        BY <4>1, <4>2 DEF OnceEach
    <3>3. QED
      BY <3>1, <3>2
  <2>4. Len(kept) \in Nat /\ Len(queued') = Len(kept) + 1
    BY <1>1, <1>4, <2>2
  <2>5. \A i \in 1..Len(kept) : QueueNames'[i] = p[i]
    <3>1. ASSUME NEW i \in 1..Len(kept) PROVE QueueNames'[i] = p[i]
      <4>1. queued'[i] = kept[i] /\ i \in 1..Len(queued')
        BY <1>1, <1>4, <2>2, <2>4
      <4>2. <<keyOf'[queued'[i][1]], queued'[i][2]>> = NameOf(kept[i])
        BY <1>1, <4>1 DEF NameOf
      <4>3. QED
        BY <4>1, <4>2 DEF QueueNames, NameOf
    <3>2. QED
      BY <3>1
  <2>6. QueueNames'[Len(kept) + 1] = NameOf(asking)
    <3>1. queued'[Len(kept) + 1] = asking /\ Len(kept) + 1 \in 1..Len(queued')
      BY <1>1, <1>4, <2>2, <2>4
    <3>2. QED
      BY <1>1, <3>1, <2>4 DEF QueueNames, NameOf
  <2>7. NameOf(asking) \notin rest
    BY <1>4
  <2> HIDE DEF p, kept, full, rest
  <2>8. Once(QueueNames', Len(kept) + 1, WorkerNames, Busy, rest \cup {NameOf(asking)})
    BY <2>3, <2>4, <2>5, <2>6, <2>7, OnceAppended
  <2>9. WorkerNames' = WorkerNames /\ Busy' = Busy
    BY <1>1 DEF WorkerNames, Busy, NameOf, JobOf
  <2>10. inflight' = rest \cup {NameOf(asking)}
    BY <1>4
  <2>11. Once(QueueNames', Len(queued'), WorkerNames', Busy', inflight')
    BY <2>4, <2>8, <2>9, <2>10
  <2>12. QED
    BY <2>11 DEF OnceEach
<1>5. QED
  BY <1>3, <1>4 DEF QueueJob

LEMMA TakeOnce ==
    ASSUME RasterTyped, OnceEach, NEW u \in Workers, TakeJob(u)
    PROVE  OnceEach'
<1>1. /\ worker[u] = Idling /\ queued # <<>> /\ queued' = Tail(queued)
      /\ worker' = [worker EXCEPT ![u] = [at |-> "taken", job |-> Head(queued), evicted |-> {}]]
      /\ keyOf' = keyOf /\ inflight' = inflight
  BY DEF TakeJob, sequenceVars
<1>2. /\ queued \in Seq(SoFar \X Frames) /\ DOMAIN worker = Workers
  BY DEF RasterTyped
<1>3. Len(queued) \in Nat /\ Len(queued) > 0 /\ Len(queued') = Len(queued) - 1
  BY <1>1, <1>2
<1>4. \A i \in 1..(Len(queued) - 1) : QueueNames'[i] = QueueNames[i + 1]
  <2>1. ASSUME NEW i \in 1..(Len(queued) - 1) PROVE QueueNames'[i] = QueueNames[i + 1]
    <3>1. queued'[i] = queued[i + 1] /\ i + 1 \in 1..Len(queued) /\ i \in 1..Len(queued')
      BY <1>1, <1>2, <1>3
    <3>2. QED
      BY <1>1, <3>1 DEF QueueNames, NameOf
  <2>2. QED
    BY <2>1
<1> DEFINE x == QueueNames[1]
<1>5. Once(QueueNames', Len(queued) - 1, WorkerNames, Busy, inflight \ {x})
  BY <1>3, <1>4, OnceDropped DEF OnceEach
<1>6. x = NameOf(Head(queued)) /\ x \in inflight
  <2>1. Head(queued) = queued[1] /\ 1 \in 1..Len(queued)
    BY <1>1, <1>2, <1>3
  <2>2. x \in inflight
    BY <2>1 DEF OnceEach, Once
  <2>3. QED
    BY <2>1, <2>2 DEF QueueNames
<1>7. /\ worker'[u] = [at |-> "taken", job |-> Head(queued), evicted |-> {}]
      /\ \A w \in Workers : w # u => worker'[w] = worker[w]
  BY <1>1, <1>2
<1>8. u \notin Busy /\ Busy' = Busy \cup {u}
  <2>1. worker'[u] # Idling
    <3>1. worker'[u].at = "taken" /\ Idling.at = "free"
      BY <1>7 DEF Idling
    <3>2. QED
      BY <3>1
  <2>2. QED
    BY <1>1, <1>7, <2>1 DEF Busy
<1>9. WorkerNames'[u] = x
  BY <1>1, <1>6, <1>7 DEF WorkerNames, NameOf, JobOf
<1>10. \A w \in Busy : WorkerNames'[w] = WorkerNames[w]
  BY <1>1, <1>7, <1>8 DEF WorkerNames, NameOf, JobOf, Busy
<1> HIDE DEF x
<1>11. Once(QueueNames', Len(queued) - 1, WorkerNames', Busy \cup {u}, (inflight \ {x}) \cup {x})
  <2>1. Len(queued) - 1 \in Nat /\ x \notin inflight \ {x}
    BY <1>3
  <2>2. QED
    BY <1>5, <1>8, <1>9, <1>10, <2>1, OnceTaken
<1>12. (inflight \ {x}) \cup {x} = inflight
  BY <1>6
<1>13. QED
  BY <1>1, <1>3, <1>8, <1>11, <1>12 DEF OnceEach

LEMMA FinishOnce ==
    ASSUME RasterTyped, OnceEach, NEW u \in Workers, FinishJob(u)
    PROVE  OnceEach'
<1>1. /\ worker[u].at = "done" /\ inflight' = inflight \ {NameOf(JobOf(u))}
      /\ worker' = [worker EXCEPT ![u] = Idling] /\ keyOf' = keyOf /\ queued' = queued
  BY DEF FinishJob, sequenceVars
<1>2. DOMAIN worker = Workers
  BY DEF RasterTyped
<1>3. worker'[u] = Idling /\ \A w \in Workers : w # u => worker'[w] = worker[w]
  BY <1>1, <1>2
<1>4. u \in Busy /\ Busy' = Busy \ {u}
  <2>1. worker[u] # Idling
    BY <1>1 DEF Idling
  <2>2. QED
    BY <1>3, <2>1 DEF Busy
<1>5. \A w \in Busy \ {u} : WorkerNames'[w] = WorkerNames[w]
  BY <1>1, <1>3 DEF WorkerNames, NameOf, JobOf, Busy
<1>6. QueueNames' = QueueNames /\ Len(queued) \in Nat
  BY <1>1 DEF QueueNames, NameOf, RasterTyped
<1>7. Once(QueueNames, Len(queued), WorkerNames, Busy \ {u}, inflight \ {WorkerNames[u]})
  BY <1>4, <1>6, OnceFinished DEF OnceEach
<1>8. WorkerNames[u] = NameOf(JobOf(u))
  BY DEF WorkerNames
<1>9. Once(QueueNames', Len(queued), WorkerNames', Busy \ {u}, inflight')
  <2>1. Once(QueueNames, Len(queued), WorkerNames, Busy \ {u}, inflight')
    BY <1>1, <1>7, <1>8
  <2>2. QED
    BY <2>1, <1>5, <1>6, OnceAsBefore
<1>10. QED
  BY <1>1, <1>4, <1>9 DEF OnceEach

-----------------------------------------------------------------------------
(* The sequences that are torn down, or about to be.                        *)
Doomed == tornDown \cup releasing
             \cup {n \in SoFar : \E w \in Workers : worker[w] # Idling /\ n \in worker[w].evicted}
Holders(k) == {v \in AnimationViews : holds[v] # "no" /\ keyOf[draws[v]] = k}
EntryOf(k) == entries[k] # 0 => keyOf[entries[k]] = k /\ entries[k] \notin Doomed

(* What is resident is of its key and not doomed, a key is retained once by *)
(* every player that holds it, and what was retained while it was resident  *)
(* still is.                                                                *)
OnGlass ==
    /\ \A k \in Keys : EntryOf(k)
    /\ \A k \in Keys : retained[k] = Cardinality(Holders(k))
    /\ \A v \in AnimationViews : holds[v] = "safe" => entries[keyOf[draws[v]]] = draws[v]

LEMMA HeldIsOpen ==
    ASSUME RasterTyped, NEW v \in AnimationViews, draws[v] # 0
    PROVE  draws[v] \in SoFar /\ keyOf[draws[v]] \in Keys
<1>1. draws[v] \in 1..Len(keyOf) /\ keyOf \in Seq(Keys)
  BY DEF RasterTyped, SoFar
<1>2. QED
  BY <1>1, ElementOfSeq DEF SoFar

LEMMA GlassShows ==
    ASSUME RasterTyped, OnGlass
    PROVE  OnScreenStays
<1>1. SUFFICES ASSUME NEW v \in AnimationViews, holds[v] = "safe"
               PROVE  entries[keyOf[draws[v]]] = draws[v] /\ draws[v] \notin tornDown
  BY Zenon DEF OnScreenStays
<1>2. draws[v] # 0 /\ keyOf[draws[v]] \in Keys
  BY <1>1, HeldIsOpen DEF RasterTyped
<1>3. entries[keyOf[draws[v]]] = draws[v]
  BY <1>1 DEF OnGlass
<1>4. draws[v] \notin Doomed
  BY <1>2, <1>3 DEF OnGlass, EntryOf
<1>5. QED
  BY <1>3, <1>4 DEF Doomed

LEMMA HeldIsCounted ==
    ASSUME RasterTyped, OnGlass, NEW v \in AnimationViews, holds[v] # "no"
    PROVE  retained[keyOf[draws[v]]] > 0
<1> DEFINE k == keyOf[draws[v]]
<1>1. k \in Keys
  BY HeldIsOpen DEF RasterTyped
<1>2. v \in Holders(k) /\ IsFiniteSet(Holders(k))
  BY RasterSizes, FS_Subset DEF Holders
<1> HIDE DEF k
<1>3. Cardinality(Holders(k)) \in Nat /\ Cardinality(Holders(k)) # 0
  BY <1>2, FS_CardinalityType, FS_EmptySet
<1>4. retained[k] = Cardinality(Holders(k))
  BY <1>1 DEF OnGlass
<1>5. QED
  BY <1>3, <1>4 DEF k

(* What is free to go is held by no player.                                 *)
LEMMA NobodyHolds ==
    ASSUME RasterTyped, OnGlass, NEW k \in Keys, retained[k] = 0, NEW v \in AnimationViews, holds[v] # "no"
    PROVE  keyOf[draws[v]] # k
  BY HeldIsCounted

(* Nothing new is doomed.                                                   *)
LEMMA GlassKept ==
    ASSUME RasterTyped, OnGlass, Doomed' \subseteq Doomed,
           UNCHANGED <<entries, keyOf, retained, draws, holds>>
    PROVE  OnGlass'
<1>1. \A k \in Keys : Holders(k)' = Holders(k)
  BY DEF Holders
<1>2. \A k \in Keys : EntryOf(k)'
  <2>1. ASSUME NEW k \in Keys PROVE EntryOf(k)'
    <3>1. EntryOf(k)
      BY DEF OnGlass
    <3>2. QED
      BY <3>1 DEF EntryOf
  <2>2. QED
    BY <2>1
<1>3. \A k \in Keys : retained'[k] = Cardinality(Holders(k)')
  BY <1>1 DEF OnGlass
<1>4. \A v \in AnimationViews : holds'[v] = "safe" => entries'[keyOf'[draws'[v]]] = draws'[v]
  BY DEF OnGlass
<1>5. QED
  BY <1>2, <1>3, <1>4 DEF OnGlass

LEMMA WorkersDoomNothing ==
    ASSUME RasterTyped, tornDown' = tornDown, releasing' = releasing, keyOf' = keyOf,
           \A u \in Workers : worker'[u] # Idling =>
               \/ worker'[u].evicted = {}
               \/ worker[u] # Idling /\ worker'[u].evicted \subseteq worker[u].evicted
    PROVE  Doomed' \subseteq Doomed
<1>1. SoFar' = SoFar
  BY DEF SoFar
<1>2. ASSUME NEW n \in SoFar, NEW w \in Workers, worker'[w] # Idling, n \in worker'[w].evicted
      PROVE  n \in Doomed
  BY <1>2 DEF Doomed
<1>3. QED
  BY <1>1, <1>2 DEF Doomed

(* A view opens a sequence.                                                 *)
LEMMA OpenGlass ==
    ASSUME RasterTyped, OnGlass, NEW v \in AnimationViews, NEW k \in Keys, OpenSequence(v, k)
    PROVE  OnGlass'
<1>1. /\ draws[v] = 0 /\ holds[v] = "no" /\ holds' = holds /\ retained' = retained
      /\ tornDown' = tornDown /\ releasing' = releasing /\ worker' = worker
      /\ draws \in [AnimationViews -> SoFar \cup {0}] /\ entries \in [Keys -> SoFar \cup {0}]
      /\ keyOf \in Seq(Keys) /\ Len(keyOf) \in Nat
  BY DEF OpenSequence, RasterTyped, SoFar
<1>2. CASE entries[k] # 0
  <2>1. draws' = [draws EXCEPT ![v] = entries[k]] /\ entries' = entries /\ keyOf' = keyOf
    BY <1>2 DEF OpenSequence
  <2>2. \A u \in AnimationViews : holds[u] # "no" => draws'[u] = draws[u]
    BY <1>1, <2>1
  <2>3. \A j \in Keys : Holders(j)' = Holders(j)
    BY <1>1, <2>1, <2>2 DEF Holders
  <2>4. Doomed' = Doomed
    BY <1>1, <2>1 DEF Doomed, SoFar
  <2>5. \A j \in Keys : EntryOf(j)'
    BY <2>1, <2>4 DEF OnGlass, EntryOf
  <2>6. \A j \in Keys : retained'[j] = Cardinality(Holders(j)')
    BY <1>1, <2>3 DEF OnGlass
  <2>7. \A u \in AnimationViews : holds'[u] = "safe" => entries'[keyOf'[draws'[u]]] = draws'[u]
    BY <1>1, <2>1, <2>2 DEF OnGlass
  <2>8. QED
    BY <2>5, <2>6, <2>7 DEF OnGlass
<1>3. CASE entries[k] = 0
  <2> DEFINE n == Len(keyOf) + 1
  <2>1. /\ keyOf' = Append(keyOf, k) /\ Len(keyOf') = n
        /\ entries' = [entries EXCEPT ![k] = n] /\ draws' = [draws EXCEPT ![v] = n]
    BY <1>1, <1>3 DEF OpenSequence
  <2>2. (\A i \in SoFar : keyOf'[i] = keyOf[i] /\ i # n) /\ keyOf'[n] = k /\ n # 0 /\ 0 \notin SoFar
    BY <1>1, <2>1 DEF SoFar
  <2>3. Doomed' = Doomed /\ Doomed \subseteq SoFar
    <3>1. SoFar' = SoFar \cup {n}
      BY <1>1, <2>1 DEF SoFar
    <3>2. \A w \in Workers : worker[w] # Idling => worker[w].evicted \subseteq SoFar
      BY DEF RasterTyped
    <3>3. tornDown \subseteq SoFar /\ releasing \subseteq SoFar
      BY DEF RasterTyped
    <3>4. QED
      BY <1>1, <3>1, <3>2, <3>3 DEF Doomed
  <2> HIDE DEF n
  <2>4. \A u \in AnimationViews : holds[u] # "no" => draws'[u] = draws[u] /\ keyOf'[draws[u]] = keyOf[draws[u]]
    <3>1. ASSUME NEW u \in AnimationViews, holds[u] # "no"
          PROVE  draws'[u] = draws[u] /\ keyOf'[draws[u]] = keyOf[draws[u]]
      <4>1. u # v /\ draws[u] \in SoFar
        BY <1>1, <3>1, HeldIsOpen DEF RasterTyped
      <4>2. QED
        BY <1>1, <2>1, <2>2, <4>1
    <3>2. QED
      BY <3>1
  <2>5. \A j \in Keys : Holders(j)' = Holders(j)
    BY <1>1, <2>4 DEF Holders
  <2>6. \A j \in Keys : EntryOf(j)'
    <3>1. ASSUME NEW j \in Keys PROVE EntryOf(j)'
      <4>1. CASE j = k
        <5>1. entries'[j] = n /\ keyOf'[n] = j /\ n \notin Doomed'
          BY <1>1, <2>1, <2>2, <2>3, <4>1
        <5>2. QED
          BY <5>1 DEF EntryOf
      <4>2. CASE j # k
        <5>1. entries'[j] = entries[j] /\ (entries[j] # 0 => entries[j] \in SoFar) /\ EntryOf(j)
          BY <1>1, <2>1, <4>2 DEF OnGlass
        <5>2. QED
          BY <2>2, <2>3, <5>1 DEF EntryOf
      <4>3. QED
        BY <4>1, <4>2
    <3>2. QED
      BY <3>1
  <2>7. \A j \in Keys : retained'[j] = Cardinality(Holders(j)')
    BY <1>1, <2>5 DEF OnGlass
  <2>8. \A u \in AnimationViews : holds'[u] = "safe" => entries'[keyOf'[draws'[u]]] = draws'[u]
    <3>1. ASSUME NEW u \in AnimationViews, holds'[u] = "safe"
          PROVE  entries'[keyOf'[draws'[u]]] = draws'[u]
      <4>1. holds[u] = "safe" /\ draws[u] # 0 /\ entries[keyOf[draws[u]]] = draws[u] /\ keyOf[draws[u]] \in Keys
        BY <1>1, <3>1, HeldIsOpen DEF OnGlass, RasterTyped
      <4>2. keyOf[draws[u]] # k
        BY <1>3, <4>1
      <4>3. draws'[u] = draws[u] /\ keyOf'[draws[u]] = keyOf[draws[u]]
        BY <2>4, <4>1
      <4>4. QED
        BY <1>1, <2>1, <4>1, <4>2, <4>3
    <3>2. QED
      BY <3>1
  <2>9. QED
    BY <2>6, <2>7, <2>8 DEF OnGlass
<1>4. QED
  BY <1>2, <1>3

LEMMA RetainGlass ==
    ASSUME RasterTyped, OnGlass, NEW v \in AnimationViews, Retain(v)
    PROVE  OnGlass'
<1> DEFINE k == keyOf[draws[v]]
<1>1. /\ draws[v] # 0 /\ holds[v] = "no"
      /\ retained' = [retained EXCEPT ![k] = @ + 1]
      /\ holds' = [holds EXCEPT ![v] = IF entries[k] = draws[v] THEN "safe" ELSE "late"]
      /\ UNCHANGED <<entries, keyOf, draws, tornDown, releasing, worker>>
      /\ retained \in [Keys -> Nat] /\ holds \in [AnimationViews -> {"no", "late", "safe"}]
  BY DEF Retain, sequenceVars, RasterTyped
<1>2. k \in Keys
  BY <1>1, HeldIsOpen
<1>3. Doomed' = Doomed
  BY <1>1 DEF Doomed, SoFar
<1>4. \A j \in Keys : EntryOf(j)'
  BY <1>1, <1>3 DEF OnGlass, EntryOf
<1>5. \A j \in Keys : retained'[j] = Cardinality(Holders(j)')
  <2>1. ASSUME NEW j \in Keys PROVE retained'[j] = Cardinality(Holders(j)')
    <3>1. IsFiniteSet(Holders(j)) /\ retained[j] = Cardinality(Holders(j))
      BY RasterSizes, FS_Subset DEF Holders, OnGlass
    <3>2. CASE j = k
      <4>1. Holders(j)' = Holders(j) \cup {v} /\ v \notin Holders(j)
        BY <1>1, <3>2 DEF Holders
      <4>2. Cardinality(Holders(j)') = Cardinality(Holders(j)) + 1
        BY <3>1, <4>1, FS_AddElement
      <4>3. retained'[j] = retained[j] + 1
        BY <1>1, <1>2, <3>2
      <4>4. QED
        BY <3>1, <4>2, <4>3
    <3>3. CASE j # k
      <4>1. Holders(j)' = Holders(j)
        BY <1>1, <3>3 DEF Holders
      <4>2. QED
        BY <1>1, <3>1, <3>3, <4>1
    <3>4. QED
      BY <3>2, <3>3
  <2>2. QED
    BY <2>1
<1>6. \A u \in AnimationViews : holds'[u] = "safe" => entries'[keyOf'[draws'[u]]] = draws'[u]
  BY <1>1 DEF OnGlass
<1>7. QED
  BY <1>4, <1>5, <1>6 DEF OnGlass

LEMMA ReleaseGlass ==
    ASSUME RasterTyped, OnGlass, NEW v \in AnimationViews, ReleaseKey(v)
    PROVE  OnGlass'
<1> DEFINE k == keyOf[draws[v]]
<1>1. /\ holds[v] # "no" /\ draws[v] # 0
      /\ retained' = [retained EXCEPT ![k] = @ - 1]
      /\ draws' = [draws EXCEPT ![v] = 0] /\ holds' = [holds EXCEPT ![v] = "no"]
      /\ UNCHANGED <<entries, keyOf, tornDown, releasing, worker>>
      /\ retained \in [Keys -> Nat] /\ holds \in [AnimationViews -> {"no", "late", "safe"}]
      /\ DOMAIN draws = AnimationViews
  BY DEF ReleaseKey, sequenceVars, RasterTyped
<1>2. k \in Keys
  BY <1>1, HeldIsOpen
<1>3. Doomed' = Doomed
  BY <1>1 DEF Doomed, SoFar
<1>4. \A j \in Keys : EntryOf(j)'
  BY <1>1, <1>3 DEF OnGlass, EntryOf
<1>5. \A j \in Keys : retained'[j] = Cardinality(Holders(j)')
  <2>1. ASSUME NEW j \in Keys PROVE retained'[j] = Cardinality(Holders(j)')
    <3>1. IsFiniteSet(Holders(j)) /\ retained[j] = Cardinality(Holders(j))
      BY RasterSizes, FS_Subset DEF Holders, OnGlass
    <3>2. CASE j = k
      <4>1. Holders(j)' = Holders(j) \ {v} /\ v \in Holders(j)
        BY <1>1, <3>2 DEF Holders
      <4>2. Cardinality(Holders(j)') = Cardinality(Holders(j)) - 1
        BY <3>1, <4>1, FS_RemoveElement
      <4>3. retained'[j] = retained[j] - 1
        BY <1>1, <1>2, <3>2
      <4>4. QED
        BY <3>1, <4>2, <4>3
    <3>3. CASE j # k
      <4>1. Holders(j)' = Holders(j)
        BY <1>1, <3>3 DEF Holders
      <4>2. QED
        BY <1>1, <3>1, <3>3, <4>1
    <3>4. QED
      BY <3>2, <3>3
  <2>2. QED
    BY <2>1
<1>6. \A u \in AnimationViews : holds'[u] = "safe" => entries'[keyOf'[draws'[u]]] = draws'[u]
  BY <1>1 DEF OnGlass
<1>7. QED
  BY <1>4, <1>5, <1>6 DEF OnGlass

(* Keys that nobody holds are evicted: only their entries are doomed.       *)
LEMMA EvictGlass ==
    ASSUME RasterTyped, OnGlass, NEW gone, gone \subseteq Resident, \A k \in gone : retained[k] = 0,
           Evict(gone), UNCHANGED <<keyOf, retained, draws, holds>>,
           Doomed' \subseteq Doomed \cup {entries[k] : k \in gone}
    PROVE  OnGlass'
<1>1. \A k \in Keys : Holders(k)' = Holders(k)
  BY DEF Holders
<1>2. \A k \in Keys : entries'[k] = IF k \in gone THEN 0 ELSE entries[k]
  BY DEF Evict
<1>3. ASSUME NEW j \in Keys PROVE EntryOf(j)'
  <2>1. CASE j \in gone
    BY <1>2, <2>1 DEF EntryOf
  <2>2. CASE j \notin gone
    <3>1. EntryOf(j) /\ entries'[j] = entries[j]
      BY <1>2, <2>2 DEF OnGlass
    <3>2. ASSUME NEW k \in gone, entries[j] # 0 PROVE entries[j] # entries[k]
      <4>1. k \in Keys /\ entries[k] # 0 /\ EntryOf(k)
        BY DEF Resident, OnGlass
      <4>2. QED
        BY <2>2, <3>1, <3>2, <4>1 DEF EntryOf
    <3>3. QED
      BY <3>1, <3>2 DEF EntryOf
  <2>3. QED
    BY <2>1, <2>2
<1>4. \A k \in Keys : retained'[k] = Cardinality(Holders(k)')
  BY <1>1 DEF OnGlass
<1>5. \A v \in AnimationViews : holds'[v] = "safe" => entries'[keyOf'[draws'[v]]] = draws'[v]
  <2>1. ASSUME NEW v \in AnimationViews, holds'[v] = "safe"
        PROVE  entries'[keyOf'[draws'[v]]] = draws'[v]
    <3>1. holds[v] = "safe" /\ entries[keyOf[draws[v]]] = draws[v] /\ keyOf[draws[v]] \in Keys
      BY <2>1, HeldIsOpen DEF OnGlass, RasterTyped
    <3>2. keyOf[draws[v]] \notin gone
      BY <3>1, HeldIsCounted
    <3>3. QED
      BY <1>2, <3>1, <3>2
  <2>2. QED
    BY <2>1
<1>6. QED
  BY <1>3, <1>4, <1>5 DEF OnGlass

LEMMA SweepGlass ==
    ASSUME RasterTyped, OnGlass, NEW w \in Workers, Sweep(w)
    PROVE  OnGlass'
<1>1. Evict(Victims) /\ UNCHANGED <<keyOf, retained, draws, holds, tornDown, releasing>>
  BY DEF Sweep, sequenceVars, viewVars
<1>2. /\ worker'[w].evicted = {entries[k] : k \in Victims}
      /\ \A u \in Workers : u # w => worker'[u] = worker[u]
  <2> DEFINE torn == {entries[k] : k \in Victims}
  <2>1. worker'[w] = [at |-> IF Victims = {} THEN "done" ELSE "tearing", job |-> worker[w].job, evicted |-> torn]
    BY SweepTyped
  <2>2. \A u \in Workers : u # w => worker'[u] = worker[u]
    BY SweepTyped
  <2> HIDE DEF torn
  <2>3. worker'[w].evicted = torn
    BY <2>1
  <2>4. QED
    BY <2>2, <2>3 DEF torn
<1>3. Doomed' \subseteq Doomed \cup {entries[k] : k \in Victims}
  <2>1. SoFar' = SoFar
    BY <1>1 DEF SoFar
  <2>2. QED
    BY <1>1, <1>2, <2>1 DEF Doomed
<1>4. Victims \subseteq Resident /\ \A k \in Victims : retained[k] = 0
  BY VictimsAre
<1>5. QED
  BY <1>1, <1>3, <1>4, EvictGlass

LEMMA PressureGlass ==
    ASSUME RasterTyped, OnGlass, ReleaseDecoded \/ ReleaseUnretained \/ TearDownReleased
    PROVE  OnGlass'
<1>1. CASE ReleaseDecoded
  <2>1. UNCHANGED <<entries, keyOf, retained, draws, holds, tornDown, releasing, worker>>
    BY <1>1 DEF ReleaseDecoded, cacheVars, viewVars
  <2>2. Doomed' = Doomed
    BY <2>1 DEF Doomed, SoFar
  <2>3. QED
    BY <2>1, <2>2, GlassKept
<1>2. CASE ReleaseUnretained
  <2> DEFINE keys == {k \in Resident : retained[k] = 0}
  <2>1. /\ Evict(keys) /\ releasing' = {entries[k] : k \in keys}
        /\ UNCHANGED <<keyOf, retained, draws, holds, tornDown, worker>>
    BY <1>2 DEF ReleaseUnretained, viewVars
  <2>2. SoFar' = SoFar
    BY <2>1 DEF SoFar
  <2>3. Doomed' \subseteq Doomed \cup {entries[k] : k \in keys}
    BY <2>1, <2>2 DEF Doomed
  <2>4. keys \subseteq Resident /\ \A k \in keys : retained[k] = 0
    OBVIOUS
  <2> HIDE DEF keys
  <2>5. QED
    BY <2>1, <2>3, <2>4, EvictGlass
<1>3. CASE TearDownReleased
  <2>1. PICK n \in releasing : TearDown(n) /\ releasing' = releasing \ {n} /\ worker' = worker
    BY <1>3 DEF TearDownReleased
  <2>2. tornDown' = tornDown \cup {n} /\ UNCHANGED <<entries, keyOf, retained, draws, holds>>
    BY <2>1 DEF TearDown, cacheVars, viewVars
  <2>3. Doomed' \subseteq Doomed
    BY <2>1, <2>2 DEF Doomed, SoFar
  <2>4. QED
    BY <2>2, <2>3, GlassKept
<1>4. QED
  BY <1>1, <1>2, <1>3

LEMMA WorkGlass ==
    ASSUME RasterTyped, OnGlass, NEW w \in Workers,
           StageStep(w) \/ TakeJob(w) \/ FinishJob(w) \/ TearDownSwept(w)
    PROVE  OnGlass'
<1>1. DOMAIN worker = Workers
  BY DEF RasterTyped
<1>2. CASE StageStep(w)
  <2>1. PICK from \in Stages, to \in Stages : OnlyWorkers /\ WorkerGoes(w, from, to)
    BY <1>2, StageIs
  <2>2. worker[w].at = from /\ worker' = [worker EXCEPT ![w].at = to]
    BY <2>1 DEF WorkerGoes
  <2>3. worker[w] # Idling
    BY <2>2 DEF Idling, Stages
  <2>4. worker[w] \in [at : Stages, job : SoFar \X Frames, evicted : SUBSET SoFar]
    BY <2>3 DEF RasterTyped
  <2>5. worker'[w].evicted = worker[w].evicted /\ \A u \in Workers : u # w => worker'[u] = worker[u]
    BY <1>1, <2>2, <2>4
  <2>6. UNCHANGED <<entries, keyOf, retained, draws, holds, tornDown, releasing>>
    BY <2>1 DEF OnlyWorkers, cacheVars, viewVars
  <2>7. Doomed' \subseteq Doomed
    BY <2>3, <2>5, <2>6, WorkersDoomNothing
  <2>8. QED
    BY <2>6, <2>7, GlassKept
<1>3. CASE TakeJob(w)
  <2>1. /\ UNCHANGED <<entries, keyOf, retained, draws, holds, tornDown, releasing>>
        /\ worker' = [worker EXCEPT ![w] = [at |-> "taken", job |-> Head(queued), evicted |-> {}]]
    BY <1>3 DEF TakeJob, cacheVars, sequenceVars, viewVars
  <2>2. worker'[w].evicted = {} /\ \A u \in Workers : u # w => worker'[u] = worker[u]
    BY <1>1, <2>1
  <2>3. Doomed' \subseteq Doomed
    BY <2>1, <2>2, WorkersDoomNothing
  <2>4. QED
    BY <2>1, <2>3, GlassKept
<1>4. CASE FinishJob(w)
  <2>1. /\ UNCHANGED <<entries, keyOf, retained, draws, holds, tornDown, releasing>>
        /\ worker' = [worker EXCEPT ![w] = Idling]
    BY <1>4 DEF FinishJob, cacheVars, sequenceVars, viewVars
  <2>2. worker'[w] = Idling /\ \A u \in Workers : u # w => worker'[u] = worker[u]
    BY <1>1, <2>1
  <2>3. Doomed' \subseteq Doomed
    BY <2>1, <2>2, WorkersDoomNothing
  <2>4. QED
    BY <2>1, <2>3, GlassKept
<1>5. CASE TearDownSwept(w)
  <2>1. PICK n \in worker[w].evicted :
              /\ TearDown(n) /\ n \in SoFar /\ releasing' = releasing
              /\ worker'[w] = [at |-> IF worker[w].evicted = {n} THEN "done" ELSE "tearing", job |-> worker[w].job,
                                evicted |-> worker[w].evicted \ {n}]
              /\ \A u \in Workers : u # w => worker'[u] = worker[u]
    BY <1>5, SweptTears
  <2>2. tornDown' = tornDown \cup {n} /\ UNCHANGED <<entries, keyOf, retained, draws, holds>>
    BY <2>1 DEF TearDown, cacheVars, viewVars
  <2>3. worker[w] # Idling /\ worker'[w].evicted = worker[w].evicted \ {n}
    BY <1>5, <2>1 DEF TearDownSwept, Idling
  <2>4. SoFar' = SoFar
    BY <2>2 DEF SoFar
  <2>5. Doomed' \subseteq Doomed
    BY <2>1, <2>2, <2>3, <2>4 DEF Doomed
  <2>6. QED
    BY <2>2, <2>5, GlassKept
<1>6. QED
  BY <1>2, <1>3, <1>4, <1>5

-----------------------------------------------------------------------------
-----------------------------------------------------------------------------
(* The ledger is true and fits, as far as it can.                           *)
FramesSettled ==
    /\ \A k \in Resident : priced[k] = Price(k)
    /\ bytes = Priced(Resident)
    /\ bytes <= CacheCeiling \/ relaxed \/ \A k \in Resident : retained[k] > 0 \/ Price(k) = 0
Astir == \E w \in Workers : worker[w].at \in {"showing", "sweeping"}
Blank(n) == compressed[n] = {}

(* Until a worker that kept a frame has swept, the ledger is behind.        *)
Ledger ==
    /\ \A n \in Ids \ SoFar : Blank(n)
    /\ FramesSettled \/ Astir

LEMMA LedgerShows ==
    ASSUME RasterTyped, Ledger
    PROVE  LedgerFitsAtRest
<1>1. SUFFICES ASSUME Busy = {}
               PROVE  /\ bytes = Priced(Resident)
                      /\ bytes <= CacheCeiling \/ relaxed \/ \A k \in Resident : retained[k] > 0 \/ Price(k) = 0
  BY Zenon DEF LedgerFitsAtRest
<1>2. \A w \in Workers : worker[w].at = "free"
  BY <1>1 DEF Busy, Idling
<1>3. ~Astir
  BY <1>2 DEF Astir
<1>4. FramesSettled
  BY <1>3 DEF Ledger
<1>5. QED
  BY <1>4, Zenon DEF FramesSettled

LEMMA SumOfPrices ==
    ASSUME RasterTyped, NEW keys, keys \subseteq Keys
    PROVE  /\ IsFiniteSet(keys) /\ Priced(keys) \in Nat
           /\ \A f : (\A k \in keys : f[k] = Prices[k]) => SumFunctionOnSet(f, keys) = Priced(keys)
<1>1. IsFiniteSet(keys) /\ \A k \in keys : Prices[k] \in Nat
  BY PricesAreNat, RasterSizes, FS_Subset
<1>2. ASSUME NEW f, \A k \in keys : f[k] = Prices[k] PROVE SumFunctionOnSet(f, keys) = Priced(keys)
  BY <1>1, <1>2, SumAgrees DEF Priced
<1>3. Priced(keys) \in Nat
  BY <1>1, SumAgrees DEF Priced
<1>4. QED
  BY <1>1, <1>2, <1>3

(* Nothing that the ledger is about has changed, or a key was released.     *)
LEMMA SettledStays ==
    ASSUME RasterTyped, FramesSettled, RasterTyped', UNCHANGED <<entries, priced, bytes>>,
           \A k \in Resident : Price(k)' = Price(k),
           relaxed' \/ (relaxed' = relaxed /\ \A k \in Keys : retained'[k] >= retained[k])
    PROVE  FramesSettled'
<1>1. Resident' = Resident /\ Resident \subseteq Keys
  BY DEF Resident
<1>2. \A k \in Resident : Prices'[k] = Prices[k]
  BY <1>1 DEF Prices
<1>3. Priced(Resident)' = Priced(Resident)
  <2>1. Priced(Resident)' = SumFunctionOnSet(Prices', Resident)
    BY <1>1 DEF Priced
  <2>2. QED
    BY <1>1, <1>2, <2>1, SumOfPrices
<1>4. \A k \in Resident' : priced'[k] = Price(k)'
  BY <1>1 DEF FramesSettled
<1>5. bytes' <= CacheCeiling \/ relaxed' \/ \A k \in Resident' : retained'[k] > 0 \/ Price(k)' = 0
  <2>1. CASE bytes <= CacheCeiling
    BY <2>1
  <2>2. CASE relaxed
    BY <2>2
  <2>3. CASE \A k \in Resident : retained[k] > 0 \/ Price(k) = 0
    <3>1. CASE relaxed'
      BY <3>1
    <3>2. CASE \A k \in Keys : retained'[k] >= retained[k]
      <4>1. ASSUME NEW k \in Resident PROVE retained'[k] > 0 \/ Price(k)' = 0
        <5>1. CASE Price(k) = 0
          BY <5>1
        <5>2. CASE retained[k] > 0
          <6>1. retained'[k] >= retained[k] /\ retained[k] \in Nat /\ retained'[k] \in Nat
            BY <1>1, <3>2 DEF RasterTyped
          <6>2. QED
            BY <5>2, <6>1
        <5>3. QED
          BY <2>3, <5>1, <5>2
      <4>2. QED
        BY <1>1, <4>1
    <3>3. QED
      BY <3>1, <3>2
  <2>4. QED
    BY <2>1, <2>2, <2>3, Zenon DEF FramesSettled
<1>6. bytes' = Priced(Resident)'
  BY <1>3 DEF FramesSettled
<1>7. QED
  BY <1>4, <1>5, <1>6, Zenon DEF FramesSettled

LEMMA SamePrices ==
    ASSUME entries' = entries, compressed' = compressed
    PROVE  \A k \in Resident : Price(k)' = Price(k)
  BY DEF Price

LEMMA OpenLedger ==
    ASSUME RasterTyped, Ledger, NEW v \in AnimationViews, NEW k \in Keys, OpenSequence(v, k), RasterTyped'
    PROVE  Ledger'
<1>1. UNCHANGED <<bytes, retained, compressed, worker, relaxed>>
  BY DEF OpenSequence
<1>2. Astir => Astir'
  BY <1>1 DEF Astir
<1>3. CASE entries[k] # 0
  <2>1. UNCHANGED <<entries, priced, keyOf>>
    BY <1>3 DEF OpenSequence
  <2>2. SoFar' = SoFar /\ \A n \in Ids : Blank(n)' = Blank(n)
    BY <1>1, <2>1 DEF SoFar, Blank
  <2>3. FramesSettled => FramesSettled'
    <3>1. \A j \in Keys : retained'[j] >= retained[j]
      BY <1>1 DEF RasterTyped
    <3>2. QED
      BY <1>1, <2>1, <3>1, SamePrices, SettledStays
  <2>4. QED
    BY <1>2, <2>2, <2>3 DEF Ledger
<1>4. CASE entries[k] = 0
  <2> DEFINE n == Len(keyOf) + 1
  <2>1. /\ keyOf' = Append(keyOf, k) /\ Len(keyOf') = n /\ n <= MaxSequences
        /\ entries' = [entries EXCEPT ![k] = n] /\ priced' = [priced EXCEPT ![k] = 0]
        /\ keyOf \in Seq(Keys) /\ Len(keyOf) \in Nat
    <3>1. keyOf \in Seq(Keys) /\ Len(keyOf) \in Nat
      BY DEF RasterTyped
    <3>2. /\ keyOf' = Append(keyOf, k) /\ Len(keyOf) < MaxSequences
          /\ entries' = [entries EXCEPT ![k] = Len(keyOf')] /\ priced' = [priced EXCEPT ![k] = 0]
      BY <1>4 DEF OpenSequence
    <3>3. Len(keyOf') = n /\ n <= MaxSequences
      BY <3>1, <3>2, RasterSizes
    <3>4. QED
      BY <3>1, <3>2, <3>3
  <2>2. n \in Ids \ SoFar /\ SoFar' = SoFar \cup {n} /\ n # 0
    BY <2>1, RasterSizes DEF Ids, SoFar
  <2> HIDE DEF n
  <2>3. \A i \in Ids \ SoFar' : Blank(i)'
    BY <1>1, <2>2 DEF Ledger, Blank
  <2>4. compressed[n] = {}
    BY <2>2 DEF Ledger, Blank
  <2>5. /\ DOMAIN entries = Keys /\ DOMAIN priced = Keys /\ DOMAIN entries' = Keys
        /\ entries'[k] = n /\ priced'[k] = 0 /\ k \notin Resident /\ Resident \subseteq Keys
        /\ \A j \in Keys : j # k => entries'[j] = entries[j] /\ priced'[j] = priced[j]
    BY <1>4, <2>1 DEF RasterTyped, Resident
  <2>6. Resident' = Resident \cup {k}
    BY <2>2, <2>5 DEF Resident
  <2>7. Price(k)' = 0 /\ Price(k) = 0
    BY <1>1, <1>4, <2>2, <2>4, <2>5, FS_EmptySet DEF Price
  <2>8. \A j \in Keys : Price(j)' = Price(j)
    <3>1. ASSUME NEW j \in Keys, j # k PROVE Price(j)' = Price(j)
      BY <1>1, <2>5, <3>1 DEF Price
    <3>2. QED
      BY <2>7, <3>1
  <2>9. Prices' = Prices
    BY <2>8 DEF Prices
  <2>10. Priced(Resident)' = Priced(Resident)
    <3>1. Priced(Resident)' = SumFunctionOnSet(Prices, Resident \cup {k})
      BY <2>6, <2>9 DEF Priced
    <3>2. IsFiniteSet(Resident \cup {k}) /\ (\A j \in Resident \cup {k} : Prices[j] \in Nat) /\ k \in Resident \cup {k}
      BY <2>5, SumOfPrices, PricesAreNat
    <3>3. SumFunctionOnSet(Prices, Resident \cup {k}) = Prices[k] + SumFunctionOnSet(Prices, (Resident \cup {k}) \ {k})
      BY <3>2, SumTakesOne
    <3>4. (Resident \cup {k}) \ {k} = Resident /\ Prices[k] = 0
      BY <2>5, <2>7 DEF Prices
    <3>5. Priced(Resident) \in Nat
      BY <2>5, SumOfPrices
    <3>6. QED
      BY <3>1, <3>3, <3>4, <3>5 DEF Priced
  <2>11. FramesSettled => FramesSettled'
    <3>1. SUFFICES ASSUME FramesSettled PROVE FramesSettled'
      BY Zenon
    <3>2. \A j \in Resident' : priced'[j] = Price(j)'
      <4>1. ASSUME NEW j \in Resident PROVE priced'[j] = Price(j)'
        BY <2>5, <2>8, <3>1 DEF FramesSettled
      <4>2. QED
        BY <2>5, <2>6, <2>7, <4>1
    <3>3. bytes' = Priced(Resident)'
      BY <1>1, <2>10, <3>1 DEF FramesSettled
    <3>4. bytes' <= CacheCeiling \/ relaxed' \/ \A j \in Resident' : retained'[j] > 0 \/ Price(j)' = 0
      <4>1. CASE bytes <= CacheCeiling \/ relaxed
        BY <1>1, <4>1
      <4>2. CASE \A j \in Resident : retained[j] > 0 \/ Price(j) = 0
        <5>1. \A j \in Resident : retained'[j] > 0 \/ Price(j)' = 0
          BY <1>1, <2>5, <2>8, <4>2
        <5>2. QED
          BY <2>6, <2>7, <5>1
      <4>3. QED
        BY <3>1, <4>1, <4>2, Zenon DEF FramesSettled
    <3>5. QED
      BY <3>2, <3>3, <3>4, Zenon DEF FramesSettled
  <2>12. QED
    BY <1>2, <2>3, <2>11 DEF Ledger
<1>5. QED
  BY <1>3, <1>4

LEMMA HoldsLedger ==
    ASSUME RasterTyped, Ledger, NEW v \in AnimationViews, Retain(v) \/ ReleaseKey(v), RasterTyped'
    PROVE  Ledger'
<1>1. UNCHANGED <<entries, priced, bytes, keyOf, compressed, worker>>
  BY DEF Retain, ReleaseKey, sequenceVars
<1>2. SoFar' = SoFar /\ (Astir => Astir') /\ \A n \in Ids : Blank(n)' = Blank(n)
  BY <1>1 DEF SoFar, Astir, Blank
<1>3. relaxed' \/ (relaxed' = relaxed /\ \A k \in Keys : retained'[k] >= retained[k])
  <2>1. CASE ReleaseKey(v)
    BY <2>1 DEF ReleaseKey
  <2>2. CASE Retain(v)
    <3>1. retained' = [retained EXCEPT ![keyOf[draws[v]]] = @ + 1] /\ relaxed' = relaxed /\ retained \in [Keys -> Nat]
      BY <2>2 DEF Retain, RasterTyped
    <3>2. \A k \in Keys : retained'[k] >= retained[k]
      BY <3>1
    <3>3. QED
      BY <3>1, <3>2
  <2>3. QED
    BY <2>1, <2>2
<1>4. FramesSettled => FramesSettled'
  BY <1>1, <1>3, SamePrices, SettledStays
<1>5. QED
  BY <1>2, <1>4 DEF Ledger

(* Steps that leave the cache and what is compressed alone.                 *)
LEMMA LedgerStays ==
    ASSUME RasterTyped, Ledger, RasterTyped', UNCHANGED <<cacheVars, keyOf, compressed, relaxed>>, Astir => Astir'
    PROVE  Ledger'
<1>1. UNCHANGED <<entries, priced, bytes, retained, keyOf, compressed, relaxed>>
  BY DEF cacheVars
<1>2. SoFar' = SoFar /\ \A n \in Ids : Blank(n)' = Blank(n)
  BY <1>1 DEF SoFar, Blank
<1>3. \A k \in Keys : retained'[k] >= retained[k]
  BY <1>1 DEF RasterTyped
<1>4. FramesSettled => FramesSettled'
  BY <1>1, <1>3, SamePrices, SettledStays
<1>5. QED
  BY <1>2, <1>4 DEF Ledger

LEMMA OthersAstir ==
    ASSUME NEW w \in Workers, worker[w].at \notin {"showing", "sweeping"} \/ worker'[w].at \in {"showing", "sweeping"},
           \A u \in Workers : u # w => worker'[u] = worker[u]
    PROVE  Astir => Astir'
  BY DEF Astir

LEMMA StageLedger ==
    ASSUME RasterTyped, Ledger, NEW w \in Workers, StageStep(w)
    PROVE  Ledger'
<1>1. PICK from \in Stages, to \in Stages :
          /\ OnlyWorkers /\ RasterTyped'
          /\ WorkerGoes(w, from, to)
          /\ from \in {"showing", "sweeping"} => to \in {"showing", "sweeping"}
          /\ compressed' = compressed \/ to = "showing"
  BY StageIs
<1>2. from # "free"
  BY DEF Stages
<1>3. /\ worker[w].at = from
      /\ worker'[w] = [at |-> to, job |-> worker[w].job, evicted |-> worker[w].evicted]
      /\ \A u \in Workers : u # w => worker'[u] = worker[u]
  <2>1. worker[w].at = from
    BY <1>1 DEF WorkerGoes
  <2>2. worker'[w] = [at |-> to, job |-> worker[w].job, evicted |-> worker[w].evicted]
    BY <1>1, <1>2, WorkerMoves
  <2>3. \A u \in Workers : u # w => worker'[u] = worker[u]
    BY <1>1, <1>2, WorkerMoves
  <2>4. QED
    BY <2>1, <2>2, <2>3
<1>4. worker'[w].at = to
  BY <1>3
<1>5. CASE compressed' = compressed
  <2>1. Astir => Astir'
    BY <1>1, <1>3, <1>4, OthersAstir
  <2>2. QED
    BY <1>1, <1>5, <2>1, LedgerStays DEF OnlyWorkers
<1>6. CASE to = "showing"
  <2>1. Astir'
    BY <1>4, <1>6 DEF Astir
  <2>2. \A n \in Ids \ SoFar : compressed'[n] = compressed[n]
    <3>1. CASE compressed' = compressed
      BY <3>1
    <3>2. CASE RetainCompressed(w)
      <4>1. compressed' = compressed \/ compressed' = [compressed EXCEPT ![JobOf(w)[1]] = @ \cup {JobOf(w)[2]}]
        BY <3>2 DEF RetainCompressed
      <4>2. JobOf(w)[1] \in SoFar /\ DOMAIN compressed = Ids
        <5>1. worker[w] \in [at : Stages, job : SoFar \X Frames, evicted : SUBSET SoFar]
          BY <1>1, <1>2, WorkerMoves
        <5>2. QED
          BY <5>1 DEF JobOf, RasterTyped
      <4>3. QED
        BY <4>1, <4>2
    <3>3. QED
      BY <3>1, <3>2 DEF StageStep, LookDecoded, LookCompressed, Draw, InsertDecoded, sequenceVars
  <2>3. SoFar' = SoFar
    BY <1>1 DEF OnlyWorkers, SoFar
  <2>4. QED
    BY <2>1, <2>2, <2>3 DEF Ledger, Blank
<1>7. QED
  BY <1>1, <1>5, <1>6

LEMMA JobsLedger ==
    ASSUME RasterTyped, Ledger, NEW w \in Workers, TakeJob(w) \/ FinishJob(w), RasterTyped'
    PROVE  Ledger'
<1>1. UNCHANGED <<cacheVars, keyOf, compressed, relaxed>> /\ DOMAIN worker = Workers
  BY DEF TakeJob, FinishJob, sequenceVars, RasterTyped
<1>2. worker[w].at \notin {"showing", "sweeping"} /\ \A u \in Workers : u # w => worker'[u] = worker[u]
  BY <1>1 DEF TakeJob, FinishJob, Idling
<1>3. Astir => Astir'
  BY <1>2, OthersAstir
<1>4. QED
  BY <1>1, <1>3, LedgerStays

(* What is torn down is no entry, so nothing that is resident changes price.*)
LEMMA TornLedger ==
    ASSUME RasterTyped, OnGlass, Ledger, RasterTyped', NEW n \in Doomed, n \in SoFar, TearDown(n), Astir => Astir'
    PROVE  Ledger'
<1>1. /\ UNCHANGED <<entries, priced, bytes, retained, keyOf, relaxed>>
      /\ compressed' = [compressed EXCEPT ![n] = {}] /\ DOMAIN compressed = Ids
  BY DEF TearDown, cacheVars, RasterTyped
<1>2. SoFar' = SoFar /\ \A i \in Ids \ SoFar : Blank(i)'
  BY <1>1 DEF SoFar, Blank, Ledger
<1>3. \A k \in Resident : Price(k)' = Price(k)
  <2>1. ASSUME NEW k \in Resident PROVE Price(k)' = Price(k)
    <3>1. entries[k] # n
      BY DEF OnGlass, EntryOf, Resident
    <3>2. compressed'[entries[k]] = compressed[entries[k]]
      BY <1>1, <3>1
    <3>3. QED
      BY <1>1, <3>2 DEF Price
  <2>2. QED
    BY <2>1
<1>4. \A k \in Keys : retained'[k] >= retained[k]
  BY <1>1 DEF RasterTyped
<1>5. FramesSettled => FramesSettled'
  BY <1>1, <1>3, <1>4, SettledStays
<1>6. QED
  BY <1>2, <1>5 DEF Ledger

(* What is left after an eviction, at the price it had.                     *)
LEMMA RestPriced ==
    ASSUME RasterTyped, NEW gone, gone \subseteq Resident, Evict(gone), compressed' = compressed
    PROVE  /\ Resident' = Resident \ gone
           /\ \A k \in Resident' : Price(k)' = Price(k)
           /\ Priced(Resident)' = Priced(Resident \ gone)
<1>1. \A k \in Keys : entries'[k] = IF k \in gone THEN 0 ELSE entries[k]
  BY DEF Evict
<1>2. Resident' = Resident \ gone /\ Resident \ gone \subseteq Keys
  BY <1>1 DEF Resident
<1>3. \A k \in Resident' : Price(k)' = Price(k)
  BY <1>1, <1>2 DEF Price, Resident
<1>4. Priced(Resident)' = Priced(Resident \ gone)
  <2>1. Priced(Resident)' = SumFunctionOnSet(Prices', Resident \ gone)
    BY <1>2 DEF Priced
  <2>2. \A k \in Resident \ gone : Prices'[k] = Prices[k]
    BY <1>2, <1>3 DEF Prices
  <2>3. QED
    BY <1>2, <2>1, <2>2, SumOfPrices
<1>5. QED
  BY <1>2, <1>3, <1>4

LEMMA SweepLedger ==
    ASSUME RasterTyped, Ledger, NEW w \in Workers, Sweep(w)
    PROVE  Ledger'
<1>1. /\ Evict(Victims) /\ priced' = Prices /\ bytes' = Priced(Resident \ Victims)
      /\ UNCHANGED <<retained, keyOf, compressed>>
  BY DEF Sweep, sequenceVars
<1>2. /\ Victims \subseteq Resident
      /\ Priced(Resident \ Victims) <= CacheCeiling \/ \A k \in Resident \ Victims : retained[k] # 0
  BY VictimsAre
<1>3. /\ Resident' = Resident \ Victims
      /\ \A k \in Resident' : Price(k)' = Price(k)
      /\ Priced(Resident)' = Priced(Resident \ Victims)
  BY <1>1, <1>2, RestPriced
<1>4. Resident' \subseteq Keys
  BY <1>3 DEF Resident
<1>5. \A k \in Resident' : priced'[k] = Price(k)'
  BY <1>1, <1>3, <1>4, PricesAreNat
<1>6. bytes' = Priced(Resident)'
  BY <1>1, <1>3
<1>7. bytes' <= CacheCeiling \/ \A k \in Resident' : retained'[k] > 0
  <2>1. \A k \in Keys : retained[k] \in Nat
    BY DEF RasterTyped
  <2>2. CASE Priced(Resident \ Victims) <= CacheCeiling
    BY <1>1, <2>2
  <2>3. CASE \A k \in Resident \ Victims : retained[k] # 0
    BY <1>1, <1>3, <1>4, <2>1, <2>3
  <2>4. QED
    BY <1>2, <2>2, <2>3
<1>8. FramesSettled'
  BY <1>5, <1>6, <1>7, Zenon DEF FramesSettled
<1>9. SoFar' = SoFar /\ \A n \in Ids : Blank(n)' = Blank(n)
  BY <1>1 DEF SoFar, Blank
<1>10. QED
  BY <1>8, <1>9 DEF Ledger

LEMMA ReleaseLedger ==
    ASSUME RasterTyped, Ledger, ReleaseUnretained
    PROVE  Ledger'
<1> DEFINE keys == {k \in Resident : retained[k] = 0}
           charge == SumFunctionOnSet(priced, keys)
<1>1. /\ Evict(keys) /\ bytes' = IF bytes < charge THEN 0 ELSE bytes - charge
      /\ UNCHANGED <<priced, retained, keyOf, compressed, worker, relaxed>>
  BY DEF ReleaseUnretained
<1>2. keys \subseteq Resident /\ Resident \subseteq Keys /\ (\A k \in Resident \ keys : retained[k] > 0)
  BY DEF Resident, RasterTyped
<1> HIDE DEF keys
<1>3. /\ Resident' = Resident \ keys
      /\ \A k \in Resident' : Price(k)' = Price(k)
      /\ Priced(Resident)' = Priced(Resident \ keys)
  BY <1>1, <1>2, RestPriced
<1>4. Astir => Astir'
  BY <1>1 DEF Astir
<1>5. SoFar' = SoFar /\ \A n \in Ids : Blank(n)' = Blank(n)
  BY <1>1 DEF SoFar, Blank
<1>6. ASSUME FramesSettled PROVE FramesSettled'
  <2>1. charge = Priced(keys)
    <3>1. \A k \in keys : priced[k] = Prices[k]
      BY <1>2, <1>6 DEF FramesSettled, Prices
    <3>2. QED
      BY <1>2, <3>1, SumOfPrices
  <2>2. Priced(Resident) = Priced(keys) + Priced(Resident \ keys)
    <3>1. IsFiniteSet(Resident) /\ (\A k \in Resident : Prices[k] \in Nat) /\ keys \in SUBSET Resident
      BY <1>2, SumOfPrices, PricesAreNat
    <3>2. QED
      BY <3>1, SumSplits DEF Priced
  <2>3. Priced(keys) \in Nat /\ Priced(Resident \ keys) \in Nat /\ Resident \ keys \subseteq Keys
    BY <1>2, SumOfPrices
  <2>4. bytes = Priced(Resident)
    BY <1>6 DEF FramesSettled
  <2> HIDE DEF charge
  <2>5. bytes' = Priced(Resident \ keys)
    BY <1>1, <2>1, <2>2, <2>3, <2>4
  <2>6. \A k \in Resident' : priced'[k] = Price(k)'
    BY <1>1, <1>2, <1>3, <1>6 DEF FramesSettled
  <2>7. \A k \in Resident' : retained'[k] > 0
    BY <1>1, <1>2, <1>3
  <2>8. QED
    BY <1>3, <2>5, <2>6, <2>7, Zenon DEF FramesSettled
<1>7. QED
  BY <1>4, <1>5, <1>6 DEF Ledger

-----------------------------------------------------------------------------
RasterInv == RasterTyped /\ OnceEach /\ OnGlass /\ Ledger

LEMMA RasterInvInit == RasterInit => RasterInv
<1>1. SUFFICES ASSUME RasterInit PROVE RasterInv
  OBVIOUS
<1>2. keyOf = <<>> /\ queued = <<>> /\ decoded = <<>> /\ Len(keyOf) = 0 /\ Len(queued) = 0 /\ SoFar = {}
  BY <1>1 DEF RasterInit, SoFar
<1>3. RasterTyped
  <2>1. /\ entries \in [Keys -> SoFar \cup {0}] /\ bytes \in Nat
        /\ priced \in [Keys -> Nat] /\ retained \in [Keys -> Nat]
        /\ tornDown \subseteq SoFar /\ compressed \in [Ids -> SUBSET Frames]
        /\ releasing \subseteq SoFar
        /\ draws \in [AnimationViews -> SoFar \cup {0}] /\ holds \in [AnimationViews -> {"no", "late", "safe"}]
        /\ relaxed \in BOOLEAN /\ asking = <<>>
        /\ \A v \in AnimationViews : holds[v] # "no" => draws[v] # 0
    BY <1>1 DEF RasterInit
  <2>2. lastUse \in [Keys -> 0..Cardinality(Keys)] /\ frameRequests \in 0..MaxRequests
    BY <1>1, RasterSizes DEF RasterInit
  <2>3. keyOf \in Seq(Keys) /\ decoded \in Seq(Keys \X Frames) /\ queued \in Seq(SoFar \X Frames)
    BY <1>2
  <2>4. worker \in [Workers -> {Idling} \cup [at : Stages, job : SoFar \X Frames, evicted : SUBSET SoFar]]
    BY <1>1 DEF RasterInit
  <2>5. Len(keyOf) <= MaxSequences /\ Len(queued) <= MaximumPending
    BY <1>2, RasterSizes
  <2>6. QED
    BY <2>1, <2>2, <2>3, <2>4, <2>5 DEF RasterTyped
<1>4. Busy = {}
  BY <1>1 DEF Busy, RasterInit
<1>5. OnceEach
  <2>1. 1..Len(queued) = {} /\ inflight = {}
    BY <1>1, <1>2 DEF RasterInit
  <2>2. QED
    BY <1>4, <2>1 DEF OnceEach, Once
<1>6. OnGlass
  <2>1. /\ \A k \in Keys : entries[k] = 0 /\ retained[k] = 0
        /\ \A v \in AnimationViews : holds[v] = "no"
    BY <1>1 DEF RasterInit
  <2>2. \A k \in Keys : Holders(k) = {}
    BY <2>1 DEF Holders
  <2>3. QED
    BY <2>1, <2>2, FS_EmptySet DEF OnGlass, EntryOf
<1>7. Ledger
  <2>1. Resident = {} /\ bytes = 0 /\ \A n \in Ids : compressed[n] = {}
    BY <1>1 DEF RasterInit, Resident
  <2>2. Priced(Resident) = 0
    BY <2>1, SumOfNone DEF Priced
  <2>3. bytes <= CacheCeiling
    BY <2>1, RasterSizes
  <2>4. QED
    BY <2>1, <2>2, <2>3 DEF Ledger, FramesSettled, Blank
<1>8. QED
  BY <1>3, <1>5, <1>6, <1>7 DEF RasterInv

ViewStep(v) ==
    \/ \E k \in Keys : OpenSequence(v, k)
    \/ Retain(v) \/ ReleaseKey(v)
    \/ \E f \in Frames : AskForFrame(v, f)

LEMMA ViewKeeps ==
    ASSUME RasterInv, NEW v \in AnimationViews, ViewStep(v)
    PROVE  RasterInv'
<1>1. RasterTyped /\ OnceEach /\ OnGlass /\ Ledger
  BY DEF RasterInv
<1>2. CASE \E k \in Keys : OpenSequence(v, k)
  <2>1. PICK k \in Keys : OpenSequence(v, k)
    BY <1>2
  <2>2. RasterTyped'
    BY <1>1, <2>1, OpenTyped
  <2>3. OnceEach'
    <3>1. UNCHANGED <<worker, queued, inflight>>
      BY <2>1 DEF OpenSequence, poolVars
    <3>2. SameKeys
      <4>1. keyOf' = keyOf \/ keyOf' = Append(keyOf, k)
        BY <2>1 DEF OpenSequence
      <4>2. keyOf \in Seq(Keys)
        BY <1>1 DEF RasterTyped
      <4>3. QED
        BY <4>1, <4>2 DEF SameKeys, SoFar
    <3>3. SameJobs
      BY <3>1 DEF SameJobs
    <3>4. QED
      BY <1>1, <3>1, <3>2, <3>3, OnceStays
  <2>4. QED
    BY <1>1, <2>1, <2>2, <2>3, OpenGlass, OpenLedger DEF RasterInv
<1>3. CASE Retain(v) \/ ReleaseKey(v)
  <2>1. RasterTyped'
    BY <1>1, <1>3, HeldIsCounted, HoldsTyped
  <2>2. OnceEach'
    <3>1. UNCHANGED <<worker, queued, inflight, keyOf>>
      BY <1>3 DEF Retain, ReleaseKey, poolVars, sequenceVars
    <3>2. QED
      BY <1>1, <3>1, OnceStays DEF SameJobs, SameKeys
  <2>3. OnGlass'
    BY <1>1, <1>3, RetainGlass, ReleaseGlass
  <2>4. Ledger'
    BY <1>1, <1>3, <2>1, HoldsLedger
  <2>5. QED
    BY <2>1, <2>2, <2>3, <2>4 DEF RasterInv
<1>4. CASE \E f \in Frames : AskForFrame(v, f)
  <2>1. PICK f \in Frames : AskForFrame(v, f)
    BY <1>4
  <2>2. RasterTyped'
    BY <1>1, <1>4, QueueTyped
  <2>3. UNCHANGED <<cacheVars, keyOf, tornDown, compressed, queued, inflight, worker, releasing, draws, holds, relaxed>>
    BY <2>1 DEF AskForFrame, viewVars
  <2>4. OnceEach'
    BY <1>1, <2>3, OnceStays DEF SameJobs, SameKeys
  <2>5. OnGlass'
    <3>1. Doomed' = Doomed
      BY <2>3 DEF Doomed, SoFar
    <3>2. QED
      BY <1>1, <2>3, <3>1, GlassKept DEF cacheVars
  <2>6. Ledger'
    <3>1. Astir => Astir'
      BY <2>3 DEF Astir
    <3>2. QED
      BY <1>1, <2>2, <2>3, <3>1, LedgerStays
  <2>7. QED
    BY <2>2, <2>4, <2>5, <2>6 DEF RasterInv
<1>5. QED
  BY <1>2, <1>3, <1>4 DEF ViewStep

PoolStep == QueueJob \/ ReleaseDecoded \/ ReleaseUnretained \/ TearDownReleased

LEMMA PoolKeeps ==
    ASSUME RasterInv, PoolStep
    PROVE  RasterInv'
<1>1. RasterTyped /\ OnceEach /\ OnGlass /\ Ledger
  BY DEF RasterInv
<1>2. worker' = worker /\ keyOf' = keyOf
  BY DEF PoolStep, QueueJob, ReleaseDecoded, ReleaseUnretained, TearDownReleased, TearDown, sequenceVars
<1>3. Astir => Astir'
  BY <1>2 DEF Astir
<1>4. CASE QueueJob
  <2>1. RasterTyped'
    BY <1>1, <1>4, QueueTyped
  <2>2. UNCHANGED <<cacheVars, sequenceVars, releasing, viewVars, relaxed>>
    BY <1>4 DEF QueueJob
  <2>3. OnGlass'
    <3>1. UNCHANGED <<entries, keyOf, retained, draws, holds, tornDown, releasing>>
      BY <2>2 DEF cacheVars, sequenceVars, viewVars
    <3>2. Doomed' = Doomed
      BY <1>2, <3>1 DEF Doomed, SoFar
    <3>3. QED
      BY <1>1, <3>1, <3>2, GlassKept
  <2>4. Ledger'
    BY <1>1, <1>3, <2>1, <2>2, LedgerStays DEF sequenceVars
  <2>5. QED
    BY <1>1, <1>4, <2>1, <2>3, <2>4, QueueOnce DEF RasterInv
<1>5. CASE ReleaseDecoded \/ ReleaseUnretained \/ TearDownReleased
  <2>1. RasterTyped'
    BY <1>1, <1>5, PressureTyped
  <2>2. OnGlass'
    BY <1>1, <1>5, PressureGlass
  <2>3. OnceEach'
    <3>1. queued' = queued /\ inflight' = inflight
      BY <1>5 DEF ReleaseDecoded, ReleaseUnretained, TearDownReleased, TearDown, poolVars
    <3>2. QED
      BY <1>1, <1>2, <3>1, OnceStays DEF SameJobs, SameKeys
  <2>4. Ledger'
    <3>1. CASE ReleaseDecoded
      BY <1>1, <1>3, <2>1, <3>1, LedgerStays DEF ReleaseDecoded
    <3>2. CASE ReleaseUnretained
      BY <1>1, <3>2, ReleaseLedger
    <3>3. CASE TearDownReleased
      <4>1. PICK n \in releasing : TearDown(n)
        BY <3>3 DEF TearDownReleased
      <4>2. n \in Doomed /\ n \in SoFar
        BY <1>1 DEF Doomed, RasterTyped
      <4>3. QED
        BY <1>1, <1>3, <2>1, <4>1, <4>2, TornLedger
    <3>4. QED
      BY <1>5, <3>1, <3>2, <3>3
  <2>5. QED
    BY <2>1, <2>2, <2>3, <2>4 DEF RasterInv
<1>6. QED
  BY <1>4, <1>5 DEF PoolStep

WorkStep(w) == StageStep(w) \/ TakeJob(w) \/ FinishJob(w) \/ Sweep(w) \/ TearDownSwept(w)

LEMMA WorkKeeps ==
    ASSUME RasterInv, NEW w \in Workers, WorkStep(w)
    PROVE  RasterInv'
<1>1. RasterTyped /\ OnceEach /\ OnGlass /\ Ledger
  BY DEF RasterInv
<1>2. CASE StageStep(w)
  <2>1. PICK from \in Stages, to \in Stages : OnlyWorkers /\ RasterTyped' /\ WorkerGoes(w, from, to)
    BY <1>1, <1>2, StageIs
  <2>2. from # "free"
    BY DEF Stages
  <2>3. /\ worker'[w] = [at |-> to, job |-> worker[w].job, evicted |-> worker[w].evicted]
        /\ worker[w].at = from /\ \A u \in Workers : u # w => worker'[u] = worker[u]
    <3>1. worker[w].at = from
      BY <2>1 DEF WorkerGoes
    <3>2. worker'[w] = [at |-> to, job |-> worker[w].job, evicted |-> worker[w].evicted]
      BY <1>1, <2>1, <2>2, WorkerMoves
    <3>3. \A u \in Workers : u # w => worker'[u] = worker[u]
      BY <1>1, <2>1, <2>2, WorkerMoves
    <3>4. QED
      BY <3>1, <3>2, <3>3
  <2>4. worker[w] # Idling /\ worker'[w] # Idling /\ worker'[w].job = worker[w].job
    <3>1. worker'[w].at = to /\ worker'[w].job = worker[w].job
      BY <2>3
    <3>2. QED
      BY <2>2, <2>3, <3>1 DEF Idling, Stages
  <2>5. SameJobs
    BY <2>3, <2>4 DEF SameJobs
  <2>6. UNCHANGED <<keyOf, queued, inflight>>
    BY <2>1 DEF OnlyWorkers, poolVars
  <2>7. OnceEach'
    BY <1>1, <2>5, <2>6, OnceStays DEF SameKeys
  <2>8. QED
    BY <1>1, <1>2, <2>1, <2>7, WorkGlass, StageLedger DEF RasterInv
<1>3. CASE TakeJob(w) \/ FinishJob(w)
  <2>1. RasterTyped'
    BY <1>1, <1>3, JobsTyped
  <2>2. OnceEach'
    BY <1>1, <1>3, TakeOnce, FinishOnce
  <2>3. OnGlass'
    BY <1>1, <1>3, WorkGlass
  <2>4. Ledger'
    BY <1>1, <1>3, <2>1, JobsLedger
  <2>5. QED
    BY <2>1, <2>2, <2>3, <2>4 DEF RasterInv
<1>4. CASE Sweep(w)
  <2> DEFINE stage == IF Victims = {} THEN "done" ELSE "tearing"
             torn == {entries[k] : k \in Victims}
  <2>1. /\ RasterTyped' /\ \A u \in Workers : u # w => worker'[u] = worker[u]
        /\ worker'[w] = [at |-> stage, job |-> worker[w].job, evicted |-> torn]
    BY <1>1, <1>4, SweepTyped
  <2>2. stage # "free"
    OBVIOUS
  <2> HIDE DEF stage, torn
  <2>3. worker'[w].at = stage /\ worker'[w].job = worker[w].job
    BY <2>1
  <2>4. worker[w] # Idling /\ worker'[w] # Idling
    <3>1. worker[w].at # "free" /\ worker'[w].at # "free"
      BY <1>4, <2>2, <2>3 DEF Sweep
    <3>2. QED
      BY <3>1 DEF Idling
  <2>5. SameJobs
    BY <2>1, <2>3, <2>4 DEF SameJobs
  <2>6. UNCHANGED <<keyOf, queued, inflight>>
    BY <1>4 DEF Sweep, sequenceVars, poolVars
  <2>7. OnceEach'
    BY <1>1, <2>5, <2>6, OnceStays DEF SameKeys
  <2>8. QED
    BY <1>1, <1>4, <2>1, <2>7, SweepGlass, SweepLedger DEF RasterInv
<1>5. CASE TearDownSwept(w)
  <2>1. PICK n \in worker[w].evicted :
              /\ TearDown(n) /\ n \in SoFar /\ releasing' = releasing
              /\ worker'[w] = [at |-> IF worker[w].evicted = {n} THEN "done" ELSE "tearing", job |-> worker[w].job,
                                evicted |-> worker[w].evicted \ {n}]
              /\ \A u \in Workers : u # w => worker'[u] = worker[u]
              /\ RasterTyped'
    BY <1>1, <1>5, SweptTears
  <2> DEFINE stage == IF worker[w].evicted = {n} THEN "done" ELSE "tearing"
             rest == worker[w].evicted \ {n}
  <2>2. worker'[w] = [at |-> stage, job |-> worker[w].job, evicted |-> rest] /\ stage # "free"
    BY <2>1
  <2> HIDE DEF stage, rest
  <2>3. worker'[w].at = stage /\ worker'[w].job = worker[w].job
    BY <2>2
  <2>4. worker[w].at = "tearing" /\ worker[w] # Idling /\ worker'[w] # Idling
    BY <1>5, <2>2, <2>3 DEF TearDownSwept, Idling
  <2>5. SameJobs
    BY <2>1, <2>3, <2>4 DEF SameJobs
  <2>6. UNCHANGED <<keyOf, queued, inflight>>
    BY <2>1 DEF TearDown, poolVars
  <2>7. OnceEach'
    BY <1>1, <2>5, <2>6, OnceStays DEF SameKeys
  <2>8. Ledger'
    <3>1. n \in Doomed
      BY <2>1, <2>4 DEF Doomed
    <3>2. Astir => Astir'
      BY <2>1, <2>4, OthersAstir
    <3>3. QED
      BY <1>1, <2>1, <3>1, <3>2, TornLedger
  <2>9. QED
    BY <1>1, <1>5, <2>1, <2>7, <2>8, WorkGlass DEF RasterInv
<1>6. QED
  BY <1>2, <1>3, <1>4, <1>5 DEF WorkStep

LEMMA RasterInvStutters ==
    ASSUME RasterInv, UNCHANGED rasterVars
    PROVE  RasterInv'
<1>1. RasterTyped /\ OnceEach /\ OnGlass /\ Ledger
  BY DEF RasterInv
<1>2. UNCHANGED <<entries, lastUse, priced, bytes, retained, keyOf, tornDown, compressed, decoded, queued, inflight,
                  asking, frameRequests, worker, releasing, draws, holds, relaxed>>
  BY DEF rasterVars, cacheVars, sequenceVars, poolVars, viewVars
<1>3. SoFar' = SoFar /\ Doomed' = Doomed /\ (Astir => Astir') /\ UNCHANGED cacheVars
  BY <1>2 DEF SoFar, Doomed, Astir, cacheVars
<1>4. RasterTyped'
  BY <1>1, <1>2, <1>3 DEF RasterTyped
<1>5. OnceEach'
  BY <1>1, <1>2, OnceStays DEF SameJobs, SameKeys
<1>6. OnGlass'
  BY <1>1, <1>2, <1>3, GlassKept
<1>7. Ledger'
  BY <1>1, <1>2, <1>3, <1>4, LedgerStays
<1>8. QED
  BY <1>4, <1>5, <1>6, <1>7 DEF RasterInv

LEMMA RasterInvStep == RasterInv /\ [RasterNext]_rasterVars => RasterInv'
<1>1. SUFFICES ASSUME RasterInv, [RasterNext]_rasterVars PROVE RasterInv'
  OBVIOUS
<1>2. CASE RasterNext
  <2>1. \/ \E v \in AnimationViews : ViewStep(v)
        \/ PoolStep
        \/ \E w \in Workers : WorkStep(w)
    BY <1>2, Zenon DEF RasterNext, ViewStep, PoolStep, WorkStep, StageStep
  <2>2. QED
    BY <1>1, <2>1, ViewKeeps, PoolKeeps, WorkKeeps
<1>3. CASE UNCHANGED rasterVars
  BY <1>1, <1>3, RasterInvStutters
<1>4. QED
  BY <1>1, <1>2, <1>3

LEMMA RasterInvHolds == RasterSpec => []RasterInv
  BY RasterInvInit, RasterInvStep, PTL DEF RasterSpec

(* The types of the pool and of its cache.                                  *)
THEOREM RasterKeepsItsTypes == RasterSpec => []RasterTypeOK
<1>1. ASSUME RasterTyped, OnceEach PROVE inflight \subseteq Keys \X Frames
  <2>1. \A i \in 1..Len(queued) : NameOf(queued[i]) \in Keys \X Frames
    BY <1>1, ElementOfSeq, NamesAreNames DEF RasterTyped
  <2>2. \A w \in Busy : NameOf(JobOf(w)) \in Keys \X Frames
    BY <1>1, BusyJobs, NamesAreNames
  <2>3. QED
    BY <1>1, <2>1, <2>2 DEF OnceEach, Once, QueueNames, WorkerNames, Busy
<1>2. RasterInv => RasterTypeOK
  <2>1. SUFFICES ASSUME RasterTyped, OnceEach PROVE RasterTypeOK
    BY DEF RasterInv
  <2>2. SoFar \subseteq Ids
    BY <2>1, RasterSizes DEF RasterTyped, SoFar, Ids
  <2>3. queued \in Seq(FrameJob)
    BY <2>1, <2>2 DEF RasterTyped, FrameJob
  <2>4. \A w \in Workers : worker[w].at \in
          {"free", "taken", "looking", "drawing", "keeping", "showing", "sweeping", "tearing", "done"}
    BY <2>1 DEF RasterTyped, Idling, Stages
  <2>5. entries \in [Keys -> Ids \cup {0}] /\ draws \in [AnimationViews -> Ids \cup {0}]
    BY <2>1, <2>2 DEF RasterTyped
  <2>6. asking \in FrameJob \cup {<<>>} /\ tornDown \subseteq Ids /\ releasing \subseteq Ids
    BY <2>1, <2>2 DEF RasterTyped, FrameJob
  <2>7. /\ bytes \in Nat /\ lastUse \in [Keys -> 0..Cardinality(Keys)]
        /\ priced \in [Keys -> Nat] /\ retained \in [Keys -> Nat]
        /\ keyOf \in Seq(Keys) /\ Len(keyOf) <= MaxSequences
        /\ compressed \in [Ids -> SUBSET Frames] /\ decoded \in Seq(Keys \X Frames)
        /\ Len(queued) <= MaximumPending /\ holds \in [AnimationViews -> {"no", "late", "safe"}]
        /\ relaxed \in BOOLEAN /\ frameRequests \in 0..MaxRequests
    BY <2>1 DEF RasterTyped
  <2>8. inflight \subseteq Keys \X Frames
    BY <1>1, <2>1
  <2>9. QED
    BY <2>3, <2>4, <2>5, <2>6, <2>7, <2>8 DEF RasterTypeOK
<1>3. QED
  BY <1>2, RasterInvHolds, PTL

(* Frames are kept.                                                         *)
THEOREM FramesStayKept == RasterSpec => []FramesAreKept
<1>1. RasterInv => FramesAreKept
  BY OnceIsExact, GlassShows, LedgerShows DEF RasterInv, FramesAreKept
<1>2. QED
  BY <1>1, RasterInvHolds, PTL

-----------------------------------------------------------------------------
(* The texture budget and the atlas.                                        *)

OnPage(i) == {tile \in tiles : tile[1] = i}

(* A page: its free slots are apart, and with those that are drawn on they  *)
(* are all there are.                                                       *)
PageHolds(i) ==
    /\ AllApart(atlas[i])
    /\ \A tile \in OnPage(i) : tile[2] \notin Range(atlas[i])
    /\ Len(atlas[i]) + Cardinality(OnPage(i)) = TilesPerPage

AllCharges == SumFunctionOnSet(Charges, Textures)
Paid == inUse = AllCharges + PageCost * Len(atlas)

LedgerInv ==
    /\ LedgerTypeOK
    /\ inUse <= TextureCeiling /\ (~refused => Paid)
    /\ \A tile \in tiles : tile[1] \in 1..Len(atlas)
    /\ \A i \in 1..Len(atlas) : PageHolds(i)

LEMMA LedgerSizes ==
    /\ IsFiniteSet(Textures) /\ PageCost \in Nat /\ TextureCeiling \in Nat
    /\ TilesPerPage \in Nat /\ TilesPerPage > 0 /\ MaxPages \in Nat
    /\ \A price \in FrameCosts : price \in Nat
  BY LedgerAssumption

LEMMA LedgerIsTyped ==
    ASSUME LedgerTypeOK
    PROVE  /\ IsFiniteSet(tiles) /\ Len(atlas) \in Nat /\ DOMAIN atlas = 1..Len(atlas)
           /\ \A i \in 1..Len(atlas) : /\ atlas[i] \in Seq(TileSlots) /\ Len(atlas[i]) \in Nat
                                       /\ DOMAIN atlas[i] = 1..Len(atlas[i])
           /\ \A i : IsFiniteSet(OnPage(i)) /\ Cardinality(OnPage(i)) \in Nat
           /\ \A s \in Textures : Charges[s] \in Nat /\ reserved[s] \in Nat /\ target[s] \in Nat
<1>1. IsFiniteSet(tiles)
  <2>1. IsFiniteSet(1..MaxPages) /\ IsFiniteSet(TileSlots)
    BY LedgerSizes, FS_Interval DEF TileSlots
  <2>2. IsFiniteSet((1..MaxPages) \X TileSlots)
    BY <2>1, FS_Product
  <2>3. QED
    BY <2>2, FS_Subset DEF LedgerTypeOK
<1>2. atlas \in Seq(Seq(TileSlots))
  BY DEF LedgerTypeOK
<1>3. \A i \in 1..Len(atlas) : atlas[i] \in Seq(TileSlots)
  BY <1>2, ElementOfSeq
<1>4. \A i : IsFiniteSet(OnPage(i)) /\ Cardinality(OnPage(i)) \in Nat
  <2>1. ASSUME NEW i PROVE IsFiniteSet(OnPage(i)) /\ Cardinality(OnPage(i)) \in Nat
    BY <1>1, FS_Subset, FS_CardinalityType DEF OnPage
  <2>2. QED
    BY <2>1
<1>5. \A s \in Textures : reserved[s] \in Nat /\ target[s] \in Nat
  BY LedgerSizes DEF LedgerTypeOK
<1>6. \A s \in Textures : Charges[s] \in Nat
  BY <1>5 DEF Charges
<1>7. QED
  BY <1>1, <1>2, <1>3, <1>4, <1>5, <1>6

LEMMA SpentIsNat == ASSUME LedgerTypeOK PROVE AllCharges \in Nat
<1>1. \A s \in Textures : Charges[s] \in Nat /\ Charges[s] = Charges[s]
  BY LedgerIsTyped
<1>2. QED
  BY <1>1, LedgerSizes, SumAgrees DEF AllCharges

(* The pages as they were.                                                  *)
LEMMA PagesStay ==
    ASSUME LedgerInv, atlas' = atlas, tiles' = tiles
    PROVE  /\ \A tile \in tiles' : tile[1] \in 1..Len(atlas')
           /\ \A i \in 1..Len(atlas') : PageHolds(i)'
<1>1. \A i \in 1..Len(atlas) : PageHolds(i)'
  <2>1. ASSUME NEW i \in 1..Len(atlas) PROVE PageHolds(i)'
    <3>1. PageHolds(i)
      BY DEF LedgerInv
    <3>2. OnPage(i)' = OnPage(i)
      BY DEF OnPage
    <3>3. QED
      BY <3>1, <3>2 DEF PageHolds
  <2>2. QED
    BY <2>1
<1>2. QED
  BY <1>1 DEF LedgerInv

-----------------------------------------------------------------------------
(* A texture moves: what is charged for it is what the ledger moves by.     *)
LEMMA TextureSpends ==
    ASSUME LedgerTypeOK, LedgerTypeOK', NEW s \in Textures,
           \A t \in Textures : t # s => texture'[t] = texture[t] /\ reserved'[t] = reserved[t]
    PROVE  /\ AllCharges \in Nat /\ AllCharges' \in Nat /\ AllCharges >= Charges[s]
           /\ AllCharges' + Charges[s] = AllCharges + Charges'[s]
<1>1. \A t \in Textures : Charges[t] \in Nat /\ Charges'[t] \in Nat
  <2>1. \A t \in Textures : Charges[t] \in Nat
    BY LedgerIsTyped
  <2>2. \A t \in Textures : Charges'[t] \in Nat
    BY LedgerSizes DEF LedgerTypeOK, Charges
  <2>3. QED
    BY <2>1, <2>2
<1>2. \A t \in Textures : t # s => Charges'[t] = Charges[t]
  BY DEF Charges
<1>3. AllCharges' = SumFunctionOnSet(Charges', Textures)
  BY DEF AllCharges
<1>4. QED
  BY <1>1, <1>2, <1>3, LedgerSizes, SumChangesAt DEF AllCharges

TextureStep(s) ==
    \/ \E price \in FrameCosts : OpenTexture(s, price) \/ WriteReleases(s, price)
    \/ WriteReserves(s) \/ WriteRefused(s) \/ RollBack(s) \/ DropTexture(s)

LEMMA TextureTyped ==
    ASSUME LedgerInv, NEW s \in Textures, TextureStep(s)
    PROVE  /\ LedgerTypeOK' /\ atlas' = atlas /\ tiles' = tiles
           /\ \A t \in Textures : t # s => texture'[t] = texture[t] /\ reserved'[t] = reserved[t]
<1>1. /\ LedgerTypeOK /\ inUse \in Nat /\ texture \in [Textures -> {"closed", "open", "released", "refused"}]
      /\ reserved \in [Textures -> FrameCosts \cup {0}] /\ target \in [Textures -> FrameCosts \cup {0}]
      /\ reserved[s] \in Nat /\ target[s] \in Nat
  BY LedgerIsTyped DEF LedgerInv, LedgerTypeOK
<1>2. atlas' = atlas /\ tiles' = tiles
  BY DEF TextureStep, OpenTexture, WriteReleases, WriteReserves, WriteRefused, RollBack, DropTexture
<1>3. texture' \in [Textures -> {"closed", "open", "released", "refused"}]
      /\ \A t \in Textures : t # s => texture'[t] = texture[t]
  BY <1>1 DEF TextureStep, OpenTexture, WriteReleases, WriteReserves, WriteRefused, RollBack, DropTexture, Goes
<1>4. reserved' \in [Textures -> FrameCosts \cup {0}]
      /\ \A t \in Textures : t # s => reserved'[t] = reserved[t]
  BY <1>1 DEF TextureStep, OpenTexture, WriteReleases, WriteReserves, WriteRefused, RollBack, DropTexture
<1>5. target' \in [Textures -> FrameCosts \cup {0}]
  BY <1>1 DEF TextureStep, OpenTexture, WriteReleases, WriteReserves, WriteRefused, RollBack, DropTexture
<1>6. inUse' \in Nat
  <2>1. \A price \in FrameCosts : price \in Nat
    BY LedgerSizes
  <2>2. QED
    BY <1>1, <2>1 DEF TextureStep, OpenTexture, WriteReleases, WriteReserves, WriteRefused, RollBack, DropTexture,
                      Reserve, GiveBack, Fits
<1>7. refused' \in BOOLEAN
  BY DEF TextureStep, OpenTexture, WriteReleases, WriteReserves, WriteRefused, RollBack, DropTexture, LedgerInv, LedgerTypeOK
<1>8. LedgerTypeOK'
  BY <1>1, <1>2, <1>3, <1>4, <1>5, <1>6, <1>7 DEF LedgerTypeOK
<1>9. QED
  BY <1>2, <1>3, <1>4, <1>8

LEMMA TextureKeeps ==
    ASSUME LedgerInv, NEW s \in Textures, TextureStep(s)
    PROVE  LedgerInv'
<1>1. /\ LedgerTypeOK' /\ atlas' = atlas /\ tiles' = tiles
      /\ \A t \in Textures : t # s => texture'[t] = texture[t] /\ reserved'[t] = reserved[t]
  BY TextureTyped
<1>2. LedgerTypeOK /\ inUse \in Nat /\ inUse <= TextureCeiling /\ Len(atlas) \in Nat /\ (~refused => Paid)
  BY LedgerIsTyped DEF LedgerInv, LedgerTypeOK
<1>3. /\ AllCharges \in Nat /\ AllCharges' \in Nat /\ AllCharges >= Charges[s]
      /\ AllCharges' + Charges[s] = AllCharges + Charges'[s]
  BY <1>1, <1>2, TextureSpends
<1>4. Charges[s] = (IF texture[s] = "open" THEN reserved[s] ELSE 0)
      /\ Charges'[s] = (IF texture'[s] = "open" THEN reserved'[s] ELSE 0)
  BY DEF Charges
<1>5. reserved[s] \in Nat /\ target[s] \in Nat /\ \A price \in FrameCosts : price \in Nat
  BY <1>2, LedgerIsTyped, LedgerSizes
<1>6. DOMAIN texture = Textures /\ DOMAIN reserved = Textures
  BY <1>2 DEF LedgerTypeOK
<1> DEFINE P == PageCost * Len(atlas)
<1>7. P \in Nat /\ (PageCost * Len(atlas))' = P
  <2>1. PageCost \in Nat /\ Len(atlas) \in Nat
    BY <1>2, LedgerSizes
  <2>2. P \in Nat
    BY <2>1
  <2>3. QED
    BY <1>1, <2>2
<1>8. ~refused => inUse = AllCharges + P
  BY <1>2 DEF Paid
<1> HIDE DEF P
<1>9. TextureCeiling \in Nat
  BY LedgerSizes
<1>0. ASSUME inUse' = (IF inUse < reserved[s] THEN 0 ELSE inUse - reserved[s]), refused' = refused,
             Charges[s] = reserved[s], Charges'[s] = 0
      PROVE  inUse' <= TextureCeiling /\ (~refused' => inUse' = AllCharges' + P)
  <2>1. AllCharges' + reserved[s] = AllCharges /\ reserved[s] <= AllCharges
    BY <1>2, <1>3, <1>5, <1>0
  <2>2. ~refused => inUse' = inUse - reserved[s]
    BY <1>2, <1>3, <1>5, <1>7, <1>8, <1>0, <2>1
  <2>3. inUse' <= inUse /\ inUse' \in Int
    BY <1>2, <1>5, <1>0
  <2>4. inUse' <= TextureCeiling
    BY <1>2, <1>9, <2>3
  <2>5. ~refused' => inUse' = AllCharges' + P
    <3>1. /\ AllCharges \in Nat /\ AllCharges' \in Nat /\ P \in Nat /\ reserved[s] \in Nat
          /\ refused' = refused
      BY <1>3, <1>5, <1>7, <1>0
    <3>2. QED
      BY <1>8, <2>1, <2>2, <3>1
  <2>6. QED
    BY <2>4, <2>5
<1>10. inUse' <= TextureCeiling /\ (~refused' => inUse' = AllCharges' + P)
  <2>1. CASE \E price \in FrameCosts : OpenTexture(s, price)
    <3>1. PICK n \in Nat : OpenTexture(s, n)
      BY <1>5, <2>1
    <3>2. /\ inUse' = inUse + n /\ inUse + n <= TextureCeiling /\ refused' = refused
          /\ Charges[s] = 0 /\ Charges'[s] = n
      BY <1>4, <1>6, <3>1 DEF OpenTexture, Goes, Reserve, Fits
    <3>3. /\ inUse' = inUse + Charges'[s] /\ inUse + Charges'[s] <= TextureCeiling /\ refused' = refused
          /\ Charges[s] = 0 /\ Charges'[s] \in Nat
      BY <3>2, Zenon
    <3>4. AllCharges' = AllCharges + Charges'[s] /\ AllCharges \in Nat /\ inUse \in Nat /\ P \in Nat
      BY <1>2, <1>3, <1>7, <3>3
    <3>5. QED
      BY <1>8, <3>3, <3>4
  <2>2. CASE \E price \in FrameCosts : WriteReleases(s, price)
    <3>1. /\ inUse' = (IF inUse < reserved[s] THEN 0 ELSE inUse - reserved[s]) /\ refused' = refused
          /\ Charges[s] = reserved[s] /\ Charges'[s] = 0
      <4>1. PICK price \in FrameCosts : WriteReleases(s, price)
        BY <2>2
      <4>2. /\ texture[s] = "open" /\ texture'[s] = "released"
            /\ inUse' = (IF inUse < reserved[s] THEN 0 ELSE inUse - reserved[s]) /\ refused' = refused
        BY <1>6, <4>1 DEF WriteReleases, Goes, GiveBack
      <4>3. QED
        BY <1>4, <4>2
    <3>2. QED
      BY <1>0, <3>1
  <2>3. CASE WriteReserves(s)
    <3>1. /\ inUse' = inUse + target[s] /\ inUse + target[s] <= TextureCeiling /\ refused' = refused
          /\ Charges[s] = 0 /\ Charges'[s] = target[s]
      BY <1>4, <1>6, <2>3 DEF WriteReserves, Goes, Reserve, Fits
    <3>2. QED
      BY <1>2, <1>3, <1>5, <1>7, <1>8, <3>1
  <2>4. CASE WriteRefused(s)
    <3>1. Charges[s] = 0 /\ Charges'[s] = 0
      BY <1>4, <1>6, <2>4 DEF WriteRefused, Goes
    <3>2. AllCharges' = AllCharges
      <4>1. \A a, b \in Nat : a + 0 = b + 0 => a = b
        OBVIOUS
      <4>2. AllCharges' + 0 = AllCharges + 0
        BY <1>3, <3>1, Zenon
      <4>3. QED
        BY <1>3, <4>1, <4>2, Zenon
    <3>3. inUse' = inUse /\ refused' = refused
      BY <2>4 DEF WriteRefused
    <3>4. inUse' <= TextureCeiling /\ (~refused' => inUse' = AllCharges' + P)
      BY <1>2, <1>8, <3>2, <3>3, Zenon
    <3>5. QED
      BY <3>4, Zenon
  <2>5. CASE RollBack(s)
    <3>1. Charges[s] = 0 /\ Charges'[s] = reserved[s]
      <4>1. texture[s] = "refused" /\ texture'[s] = "open" /\ reserved' = reserved
        BY <1>6, <2>5 DEF RollBack, Goes
      <4>2. QED
        BY <1>4, <4>1
    <3>2. CASE Fits(reserved[s])
      <4>1. inUse' = inUse + reserved[s] /\ inUse + reserved[s] <= TextureCeiling /\ refused' = refused
        BY <2>5, <3>2 DEF RollBack, Reserve, Fits
      <4>2. QED
        BY <1>2, <1>3, <1>5, <1>7, <1>8, <3>1, <4>1
    <3>3. CASE ~Fits(reserved[s])
      <4>1. inUse' = inUse /\ refused' = TRUE
        BY <2>5, <3>3 DEF RollBack
      <4>2. QED
        BY <1>2, <4>1
    <3>4. QED
      BY <3>2, <3>3
  <2>6. CASE DropTexture(s)
    <3>1. /\ inUse' = (IF inUse < reserved[s] THEN 0 ELSE inUse - reserved[s]) /\ refused' = refused
          /\ Charges[s] = reserved[s] /\ Charges'[s] = 0
      BY <1>4, <1>6, <2>6 DEF DropTexture, Goes, GiveBack
    <3>2. QED
      BY <1>0, <3>1
  <2>7. QED
    BY <2>1, <2>2, <2>3, <2>4, <2>5, <2>6 DEF TextureStep
<1>11. ~refused' => Paid'
  BY <1>7, <1>10 DEF Paid
<1>12. (\A tile \in tiles' : tile[1] \in 1..Len(atlas')) /\ \A i \in 1..Len(atlas') : PageHolds(i)'
  BY <1>1, PagesStay
<1>13. QED
  BY <1>1, <1>10, <1>11, <1>12 DEF LedgerInv

-----------------------------------------------------------------------------
(* A slot is taken from the end of a page's free ones.                      *)
LEMMA SlotTaken ==
    ASSUME NEW T, NEW free \in Seq(T), free # <<>>, AllApart(free)
    PROVE  /\ WithoutTop(free) \in Seq(T) /\ Len(WithoutTop(free)) = Len(free) - 1
           /\ AllApart(WithoutTop(free)) /\ free[Len(free)] \in T /\ free[Len(free)] \in Range(free)
           /\ Range(WithoutTop(free)) = Range(free) \ {free[Len(free)]}
<1> DEFINE n == Len(free)
           rest == WithoutTop(free)
<1>1. n \in Nat /\ n > 0 /\ DOMAIN free = 1..n
  OBVIOUS
<1>2. rest \in Seq(T) /\ Len(rest) = n - 1 /\ (\A i \in 1..(n - 1) : rest[i] = free[i]) /\ DOMAIN rest = 1..(n - 1)
  <2>1. rest = SubSeq(free, 1, n - 1)
    BY DEF WithoutTop
  <2>2. QED
    BY <1>1, <2>1
<1>3. free[n] \in T /\ n \in 1..n /\ \A i \in 1..n : i = n \/ i \in 1..(n - 1)
  <2>1. free[n] \in T
    BY <1>1, ElementOfSeq
  <2> HIDE DEF n
  <2>2. n \in 1..n /\ \A i \in 1..n : i = n \/ i \in 1..(n - 1)
    BY <1>1
  <2>3. QED
    BY <2>1, <2>2
<1>4. \A a, b \in 1..n : free[a] = free[b] => a = b
  BY DEF AllApart
<1> HIDE DEF n, rest
<1>5. AllApart(rest)
  <2>1. \A a, b \in 1..(n - 1) : rest[a] = rest[b] => a = b
    <3>1. \A a \in 1..(n - 1) : a \in 1..n
      BY <1>1
    <3>2. QED
      BY <1>2, <1>4, <3>1
  <2>2. QED
    BY <1>2, <2>1 DEF AllApart
<1>6. Range(rest) = Range(free) \ {free[n]}
  <2>1. Range(rest) = {rest[i] : i \in 1..(n - 1)} /\ Range(free) = {free[i] : i \in 1..n}
    BY <1>1, <1>2 DEF Range
  <2>2. \A i \in 1..(n - 1) : i \in 1..n /\ i # n
    BY <1>1
  <2>3. QED
    BY <1>2, <1>3, <1>4, <2>1, <2>2
<1>7. free[n] \in Range(free)
  BY <1>1, <1>3 DEF Range
<1>8. QED
  BY <1>2, <1>3, <1>5, <1>6, <1>7 DEF n, rest

LEMMA FreshPage ==
    /\ NewPage \in Seq(TileSlots) /\ NewPage # <<>> /\ Len(NewPage) = TilesPerPage
    /\ AllApart(NewPage)
<1> DEFINE n == TilesPerPage
<1>1. n \in Nat /\ n > 0
  BY LedgerSizes
<1>2. NewPage = [i \in 1..n |-> n + 1 - i]
  BY DEF NewPage, TileSlots
<1>3. \A i \in 1..n : n + 1 - i \in TileSlots
  BY <1>1 DEF TileSlots
<1> HIDE DEF n
<1>4. NewPage \in Seq(TileSlots) /\ Len(NewPage) = n
  <2>1. NewPage \in [1..n -> TileSlots]
    BY <1>2, <1>3
  <2>2. QED
    BY <1>1, <2>1
<1>5. NewPage # <<>>
  BY <1>1, <1>4
<1>6. \A a, b \in 1..n : NewPage[a] = NewPage[b] => a = b
  BY <1>1, <1>2
<1>7. QED
  BY <1>4, <1>5, <1>6 DEF AllApart, n

(* A page whose free slots and tiles are as before.                         *)
LEMMA PageStays ==
    ASSUME NEW i, PageHolds(i), atlas'[i] = atlas[i], OnPage(i)' = OnPage(i)
    PROVE  PageHolds(i)'
  BY DEF PageHolds

(* A page that gave a slot to a view.                                       *)
LEMMA PageGives ==
    ASSUME LedgerTypeOK, NEW i, NEW free \in Seq(TileSlots), free # <<>>, AllApart(free),
           \A tile \in OnPage(i) : tile[2] \notin Range(free),
           Len(free) + Cardinality(OnPage(i)) = TilesPerPage,
           atlas'[i] = WithoutTop(free), tiles' = tiles \cup {<<i, free[Len(free)]>>}
    PROVE  PageHolds(i)'
<1> DEFINE x == free[Len(free)]
           rest == WithoutTop(free)
<1>1. /\ rest \in Seq(TileSlots) /\ Len(rest) = Len(free) - 1 /\ AllApart(rest) /\ x \in Range(free)
      /\ Range(rest) = Range(free) \ {x} /\ Len(free) \in Nat
  BY SlotTaken
<1>2. OnPage(i)' = OnPage(i) \cup {<<i, x>>}
  BY DEF OnPage
<1>3. <<i, x>> \notin OnPage(i)
  BY <1>1
<1>4. IsFiniteSet(OnPage(i)) /\ Cardinality(OnPage(i)) \in Nat
  BY LedgerIsTyped
<1> HIDE DEF x, rest
<1>5. Cardinality(OnPage(i)') = Cardinality(OnPage(i)) + 1
  BY <1>2, <1>3, <1>4, FS_AddElement
<1>6. \A tile \in OnPage(i)' : tile[2] \notin Range(rest)
  BY <1>1, <1>2
<1>7. Len(rest) + Cardinality(OnPage(i)') = TilesPerPage
  BY <1>1, <1>4, <1>5
<1>8. QED
  BY <1>1, <1>6, <1>7 DEF PageHolds, rest

(* Steps of the atlas change what is spent on textures by nothing.          *)
LEMMA TexturesStay ==
    ASSUME UNCHANGED <<texture, reserved>>
    PROVE  AllCharges' = AllCharges
<1>1. Charges' = Charges
  BY DEF Charges
<1>2. QED
  BY <1>1 DEF AllCharges

LEMMA AllocateKeeps ==
    ASSUME LedgerInv, AllocateTile
    PROVE  LedgerInv'
<1>1. UNCHANGED <<texture, reserved, target, refused>> /\ LedgerTypeOK
  BY DEF AllocateTile, LedgerInv
<1>2. AllCharges' = AllCharges /\ AllCharges \in Nat
  BY <1>1, TexturesStay, SpentIsNat
<1> DEFINE N == Len(atlas)
<1>3. /\ N \in Nat /\ DOMAIN atlas = 1..N /\ N <= MaxPages /\ MaxPages \in Nat
      /\ atlas \in Seq(Seq(TileSlots)) /\ inUse \in Nat /\ tiles \subseteq (1..MaxPages) \X TileSlots
  BY <1>1, LedgerIsTyped, LedgerSizes DEF LedgerTypeOK
<1>4. /\ \A tile \in tiles : tile[1] \in 1..N
      /\ \A i \in 1..N : PageHolds(i) /\ atlas[i] \in Seq(TileSlots)
  BY <1>1, LedgerIsTyped DEF LedgerInv
<1>5. CASE \E i \in WithRoom :
              /\ atlas' = [atlas EXCEPT ![i] = WithoutTop(@)]
              /\ tiles' = tiles \cup {<<i, atlas[i][Len(atlas[i])]>>}
              /\ UNCHANGED inUse
  <2>1. PICK i \in WithRoom :
              /\ atlas' = [atlas EXCEPT ![i] = WithoutTop(@)]
              /\ tiles' = tiles \cup {<<i, atlas[i][Len(atlas[i])]>>}
              /\ UNCHANGED inUse
    BY <1>5
  <2>2. i \in 1..N /\ atlas[i] # <<>> /\ atlas[i] \in Seq(TileSlots) /\ AllApart(atlas[i])
    BY <1>3, <1>4, <2>1 DEF WithRoom, PageHolds
  <2>3. /\ WithoutTop(atlas[i]) \in Seq(TileSlots) /\ atlas[i][Len(atlas[i])] \in TileSlots
    BY <2>2, SlotTaken
  <2> DEFINE x == atlas[i][Len(atlas[i])]
             rest == WithoutTop(atlas[i])
  <2>4. /\ atlas' \in Seq(Seq(TileSlots)) /\ Len(atlas') = N /\ atlas'[i] = rest
        /\ \A j \in 1..N : j # i => atlas'[j] = atlas[j]
    <3> HIDE DEF rest
    <3>1. atlas' = [atlas EXCEPT ![i] = rest]
      BY <2>1 DEF rest
    <3>2. rest \in Seq(TileSlots)
      BY <2>3 DEF rest
    <3>3. QED
      BY <1>3, <2>2, <3>1, <3>2
  <2>5. PageHolds(i)'
    <3>1. PageHolds(i)
      BY <1>4, <2>2
    <3>2. QED
      BY <1>1, <2>1, <2>2, <2>4, <3>1, PageGives DEF PageHolds
  <2>6. \A j \in 1..N : PageHolds(j)'
    <3>1. ASSUME NEW j \in 1..N, j # i PROVE PageHolds(j)'
      <4>1. OnPage(j)' = OnPage(j)
        BY <2>1, <3>1 DEF OnPage
      <4>2. QED
        BY <1>4, <2>4, <3>1, <4>1, PageStays
    <3>2. QED
      BY <2>5, <3>1
  <2> HIDE DEF x, rest
  <2>7. \A tile \in tiles' : tile[1] \in 1..N
    BY <1>4, <2>1, <2>2
  <2>8. tiles' \subseteq (1..MaxPages) \X TileSlots
    <3>1. i \in 1..MaxPages
      BY <1>3, <2>2
    <3>2. QED
      BY <1>3, <2>1, <2>3, <3>1
  <2>9. LedgerTypeOK'
    BY <1>1, <1>3, <2>1, <2>4, <2>8 DEF LedgerTypeOK
  <2>10. inUse' <= TextureCeiling /\ (~refused' => Paid')
    BY <1>1, <1>2, <2>1, <2>4 DEF LedgerInv, Paid
  <2>11. QED
    BY <2>4, <2>6, <2>7, <2>9, <2>10 DEF LedgerInv
<1>6. CASE /\ Len(atlas) < MaxPages /\ Reserve(PageCost)
           /\ atlas' = Append(atlas, WithoutTop(NewPage))
           /\ tiles' = tiles \cup {<<Len(atlas) + 1, NewPage[TilesPerPage]>>}
  <2> DEFINE rest == WithoutTop(NewPage)
  <2>0. PICK i : i = N + 1
    OBVIOUS
  <2>1. rest \in Seq(TileSlots) /\ NewPage[TilesPerPage] \in TileSlots
    BY FreshPage, SlotTaken
  <2>2. /\ atlas' \in Seq(Seq(TileSlots)) /\ Len(atlas') = i /\ atlas'[i] = rest /\ i <= MaxPages
        /\ i \in 1..MaxPages /\ \A j \in 1..N : atlas'[j] = atlas[j]
    <3> HIDE DEF rest
    <3>1. atlas' = Append(atlas, rest) /\ N < MaxPages
      BY <1>6 DEF rest
    <3>2. QED
      BY <1>3, <2>0, <2>1, <3>1
  <2>3. \A j \in 1..i : j = i \/ j \in 1..N
    BY <1>3, <2>0
  <2>4. i \notin 1..N /\ tiles' = tiles \cup {<<i, NewPage[TilesPerPage]>>}
    BY <1>3, <1>6, <2>0
  <2>5. OnPage(i) = {} /\ Cardinality(OnPage(i)) = 0
    <3>1. OnPage(i) = {}
      BY <1>4, <2>4 DEF OnPage
    <3>2. QED
      BY <3>1, FS_EmptySet
  <2>6. PageHolds(i)'
    <3>1. /\ NewPage \in Seq(TileSlots) /\ NewPage # <<>> /\ AllApart(NewPage) /\ Len(NewPage) = TilesPerPage
      BY FreshPage
    <3>2. Len(NewPage) + Cardinality(OnPage(i)) = TilesPerPage
      BY <2>5, <3>1, LedgerSizes
    <3>3. \A tile \in OnPage(i) : tile[2] \notin Range(NewPage)
      BY <2>5
    <3>4. atlas'[i] = WithoutTop(NewPage) /\ tiles' = tiles \cup {<<i, NewPage[Len(NewPage)]>>}
      BY <2>2, <2>4, <3>1
    <3>5. atlas'[i] = WithoutTop(NewPage)
      BY <3>4
    <3>6. QED
      BY <1>1, <3>1, <3>2, <3>3, <3>4, <3>5, PageGives, Zenon
  <2>7. ASSUME NEW j \in 1..N PROVE PageHolds(j)'
    <3>1. OnPage(j)' = OnPage(j)
      BY <2>4 DEF OnPage
    <3>2. QED
      BY <1>4, <2>2, <3>1, PageStays
  <2>8. \A j \in 1..i : PageHolds(j)'
    <3>1. ASSUME NEW j \in 1..i PROVE PageHolds(j)'
      <4>1. CASE j = i
        BY <2>6, <4>1, Zenon
      <4>2. CASE j \in 1..N
        BY <2>7, <4>2, Zenon
      <4>3. QED
        BY <2>3, <4>1, <4>2
    <3>2. QED
      BY <3>1, Zenon
  <2>9. \A tile \in tiles' : tile[1] \in 1..i
    <3>1. i \in 1..i /\ \A j \in 1..N : j \in 1..i
      BY <1>3, <2>0
    <3>2. QED
      BY <1>4, <2>4, <3>1
  <2>10. tiles' \subseteq (1..MaxPages) \X TileSlots
    BY <1>3, <2>1, <2>2, <2>4
  <2>11. inUse' = inUse + PageCost /\ inUse + PageCost <= TextureCeiling /\ PageCost \in Nat
    BY <1>6, LedgerSizes DEF Reserve, Fits
  <2>12. LedgerTypeOK'
    BY <1>1, <1>3, <2>2, <2>10, <2>11 DEF LedgerTypeOK
  <2>13. ~refused' => Paid'
    <3>1. SUFFICES ASSUME ~refused PROVE inUse + PageCost = AllCharges + PageCost * (N + 1)
      BY <1>1, <1>2, <2>0, <2>2, <2>11, Zenon DEF Paid
    <3>2. inUse = AllCharges + PageCost * N
      BY <3>1 DEF LedgerInv, Paid
    <3> HIDE DEF N
    <3>3. PageCost * (N + 1) = PageCost * N + PageCost /\ PageCost * N \in Nat
      BY <1>3, <2>11
    <3>4. QED
      BY <1>2, <1>3, <2>11, <3>2, <3>3
  <2>14. QED
    BY <2>2, <2>8, <2>9, <2>11, <2>12, <2>13 DEF LedgerInv
<1>7. QED
  BY <1>5, <1>6 DEF AllocateTile

LEMMA ReleaseTileKeeps ==
    ASSUME LedgerInv, NEW tile \in tiles, ReleaseTile(tile)
    PROVE  LedgerInv'
<1>1. UNCHANGED <<inUse, texture, reserved, target, refused>> /\ LedgerTypeOK
  BY DEF ReleaseTile, LedgerInv
<1>2. AllCharges' = AllCharges
  BY <1>1, TexturesStay
<1> DEFINE N == Len(atlas)
           i == tile[1]
           x == tile[2]
           more == Append(atlas[i], x)
<1>3. /\ N \in Nat /\ DOMAIN atlas = 1..N /\ atlas \in Seq(Seq(TileSlots))
      /\ tiles \subseteq (1..MaxPages) \X TileSlots
  BY <1>1, LedgerIsTyped DEF LedgerTypeOK
<1>4. /\ \A t \in tiles : t[1] \in 1..N
      /\ \A j \in 1..N : PageHolds(j) /\ atlas[j] \in Seq(TileSlots)
  BY <1>1, LedgerIsTyped DEF LedgerInv
<1>5. i \in 1..N /\ x \in TileSlots /\ tile \in OnPage(i) /\ tile = <<i, x>>
  BY <1>3, <1>4 DEF OnPage
<1>6. /\ atlas[i] \in Seq(TileSlots) /\ AllApart(atlas[i]) /\ x \notin Range(atlas[i])
      /\ Len(atlas[i]) + Cardinality(OnPage(i)) = TilesPerPage
      /\ \A t \in OnPage(i) : t[2] \notin Range(atlas[i])
  BY <1>4, <1>5 DEF PageHolds
<1>7. atlas' = [atlas EXCEPT ![i] = more] /\ tiles' = tiles \ {tile}
  BY <1>3, <1>5, <1>6 DEF ReleaseTile
<1>8. /\ more \in Seq(TileSlots) /\ Len(more) = Len(atlas[i]) + 1 /\ Len(atlas[i]) \in Nat
      /\ more[Len(atlas[i]) + 1] = x /\ \A a \in 1..Len(atlas[i]) : more[a] = atlas[i][a]
  BY <1>5, <1>6
<1> HIDE DEF more, x, i, N
<1>9. /\ atlas' \in Seq(Seq(TileSlots)) /\ Len(atlas') = N /\ atlas'[i] = more
      /\ \A j \in 1..N : j # i => atlas'[j] = atlas[j]
  BY <1>3, <1>5, <1>7, <1>8 DEF N
<1>10. PageHolds(i)'
  <2> DEFINE m == Len(atlas[i])
             old == atlas[i]
  <2>1. /\ m \in Nat /\ Len(more) = m + 1 /\ more[m + 1] = x /\ (\A a \in 1..m : more[a] = old[a])
        /\ (\A a, b \in 1..m : old[a] = old[b] => a = b)
        /\ Range(old) = {old[a] : a \in 1..m} /\ x \notin Range(old)
        /\ DOMAIN more = 1..(m + 1)
    BY <1>6, <1>8 DEF AllApart, Range
  <2> HIDE DEF m, old
  <2>2. \A a \in 1..(m + 1) : a = m + 1 \/ a \in 1..m
    BY <2>1
  <2>3. \A a, b \in 1..(m + 1) : more[a] = more[b] => a = b
    <3>1. \A a \in 1..m : more[a] # x
      BY <2>1
    <3>2. QED
      BY <2>1, <2>2, <3>1
  <2>4. AllApart(more)
    BY <2>1, <2>3 DEF AllApart
  <2>5. Range(more) \subseteq Range(old) \cup {x}
    BY <2>1, <2>2 DEF Range
  <2>6. OnPage(i)' = OnPage(i) \ {tile}
    BY <1>7 DEF OnPage
  <2>7. IsFiniteSet(OnPage(i)) /\ Cardinality(OnPage(i)) \in Nat
    BY <1>1, LedgerIsTyped
  <2>8. Cardinality(OnPage(i)') = Cardinality(OnPage(i)) - 1
    BY <1>5, <2>6, <2>7, FS_RemoveElement
  <2>9. Len(more) + Cardinality(OnPage(i)') = TilesPerPage
    <3> DEFINE c == Cardinality(OnPage(i))
    <3>1. m + c = TilesPerPage /\ m \in Nat /\ c \in Nat /\ Len(more) = m + 1
      BY <1>6, <2>1, <2>7 DEF m
    <3>2. Cardinality(OnPage(i)') = c - 1
      BY <2>8
    <3> HIDE DEF c
    <3>3. QED
      BY <3>1, <3>2
  <2>10. ASSUME NEW t \in OnPage(i)' PROVE t[2] \notin Range(more)
    <3>1. t \in OnPage(i) /\ t # tile
      BY <2>6
    <3>2. t[1] = i /\ t = <<t[1], t[2]>>
      BY <1>3, <3>1 DEF OnPage
    <3>3. t[2] # x
      BY <1>5, <3>1, <3>2
    <3>4. t[2] \notin Range(old)
      BY <1>6, <3>1 DEF old
    <3>5. QED
      BY <2>5, <3>3, <3>4
  <2>11. QED
    BY <1>9, <2>4, <2>9, <2>10 DEF PageHolds
<1>11. \A j \in 1..N : PageHolds(j)'
  <2>1. ASSUME NEW j \in 1..N, j # i PROVE PageHolds(j)'
    <3>1. OnPage(j)' = OnPage(j)
      BY <1>5, <1>7, <2>1 DEF OnPage
    <3>2. QED
      BY <1>4, <1>9, <2>1, <3>1, PageStays
  <2>2. QED
    BY <1>10, <2>1
<1>12. (\A t \in tiles' : t[1] \in 1..N) /\ tiles' \subseteq (1..MaxPages) \X TileSlots
  BY <1>3, <1>4, <1>7
<1>13. LedgerTypeOK'
  BY <1>1, <1>9, <1>12 DEF LedgerTypeOK, N
<1>14. inUse' <= TextureCeiling /\ (~refused' => Paid')
  BY <1>1, <1>2, <1>9 DEF LedgerInv, Paid, N
<1>15. QED
  BY <1>9, <1>11, <1>12, <1>13, <1>14 DEF LedgerInv

(* The first pages stay, the others hold nothing and go.                    *)
LEMMA PagesGo ==
    ASSUME LedgerInv, NEW keep \in 0..Len(atlas), atlas' = SubSeq(atlas, 1, keep),
           GiveBack(PageCost * (Len(atlas) - keep)), UNCHANGED <<texture, reserved, target, refused>>,
           tiles' \subseteq tiles, \A tile \in tiles' : tile[1] \in 1..keep,
           \A i \in 1..keep : OnPage(i)' = OnPage(i)
    PROVE  LedgerInv'
<1> DEFINE N == Len(atlas)
           P == PageCost * (N - keep)
<1>1. /\ LedgerTypeOK /\ N \in Nat /\ atlas \in Seq(Seq(TileSlots)) /\ keep \in Nat /\ keep <= N
      /\ inUse \in Nat /\ inUse <= TextureCeiling /\ N <= MaxPages /\ PageCost \in Nat
      /\ TextureCeiling \in Nat /\ MaxPages \in Nat
  BY LedgerIsTyped, LedgerSizes DEF LedgerInv, LedgerTypeOK
<1>2. AllCharges' = AllCharges /\ AllCharges \in Nat
  BY <1>1, TexturesStay, SpentIsNat
<1>3. atlas' \in Seq(Seq(TileSlots)) /\ Len(atlas') = keep /\ \A i \in 1..keep : atlas'[i] = atlas[i]
  BY <1>1
<1>4. \A i \in 1..keep : PageHolds(i)'
  <2>1. ASSUME NEW i \in 1..keep PROVE PageHolds(i)'
    <3>1. i \in 1..N
      BY <1>1
    <3>2. PageHolds(i)
      BY <3>1 DEF LedgerInv
    <3>3. QED
      BY <1>3, <3>2, PageStays
  <2>2. QED
    BY <2>1
<1>5. P \in Nat /\ PageCost * N = PageCost * keep + P /\ PageCost * keep \in Nat
  <2> HIDE DEF N
  <2>1. N - keep \in Nat
    BY <1>1
  <2>2. P \in Nat /\ PageCost * keep \in Nat
    BY <1>1, <2>1
  <2>3. PageCost * N = PageCost * keep + P
    BY <1>1
  <2>4. QED
    BY <2>2, <2>3
<1>6. inUse' = IF inUse < P THEN 0 ELSE inUse - P
  BY DEF GiveBack
<1> HIDE DEF P, N
<1>7. inUse' \in Nat /\ inUse' <= TextureCeiling
  BY <1>1, <1>5, <1>6
<1>8. ~refused' => Paid'
  <2>1. SUFFICES ASSUME ~refused PROVE inUse' = AllCharges + PageCost * keep
    BY <1>2, <1>3, Zenon DEF Paid
  <2>2. inUse = AllCharges + PageCost * N
    BY <2>1 DEF LedgerInv, Paid, N
  <2> DEFINE K == PageCost * keep
  <2>3. K \in Nat /\ P \in Nat /\ PageCost * N = K + P
    BY <1>5
  <2> HIDE DEF K
  <2>4. inUse = AllCharges + (K + P)
    BY <2>2, <2>3
  <2>5. inUse' = AllCharges + K
    BY <1>1, <1>2, <1>6, <2>3, <2>4
  <2>6. QED
    BY <2>5 DEF K
<1>9. LedgerTypeOK'
  BY <1>1, <1>3, <1>7 DEF LedgerTypeOK
<1>10. /\ \A tile \in tiles' : tile[1] \in 1..Len(atlas')
       /\ \A i \in 1..Len(atlas') : PageHolds(i)'
  BY <1>3, <1>4, Zenon
<1>11. QED
  BY <1>7, <1>8, <1>9, <1>10, Zenon DEF LedgerInv

LedgerKeeps(n) ==
    /\ n <= 1 => n = Len(atlas) \/ n = 1
    /\ n > 1 => ~IsEmptyPage(n)
    /\ \A i \in (n + 1)..Len(atlas) : IsEmptyPage(i)

LEMMA SomePagesAreKept ==
    ASSUME LedgerTypeOK
    PROVE  \E n \in 0..Len(atlas) : LedgerKeeps(n)
<1> DEFINE N == Len(atlas)
           Full == {n \in 0..N : n > 1 /\ ~IsEmptyPage(n)}
<1>1. N \in Nat
  BY LedgerIsTyped
<1>2. CASE N = 0
  BY <1>2 DEF LedgerKeeps
<1>3. CASE N > 0 /\ Full = {}
  <2>1. 1 \in 0..N
    BY <1>1, <1>3
  <2>2. \A i \in 2..N : IsEmptyPage(i)
    BY <1>1, <1>3
  <2>3. LedgerKeeps(1)
    BY <1>1, <1>3, <2>2 DEF LedgerKeeps
  <2>4. QED
    BY <2>1, <2>3
<1>4. CASE Full # {}
  <2>1. PICK m \in Full : \A i \in (m + 1)..N : i \notin Full
    <3>1. Full \subseteq 0..N
      OBVIOUS
    <3> HIDE DEF Full, N
    <3>2. QED
      BY <1>1, <1>4, <3>1, GreatestOf
  <2>2. m \in 0..N /\ m > 1 /\ ~IsEmptyPage(m)
    BY <2>1
  <2>3. \A i \in (m + 1)..N : IsEmptyPage(i)
    BY <1>1, <2>1, <2>2
  <2>4. LedgerKeeps(m)
    BY <1>1, <2>2, <2>3 DEF LedgerKeeps
  <2>5. QED
    BY <2>2, <2>4
<1>5. QED
  BY <1>1, <1>2, <1>3, <1>4

LEMMA ShrinkKeeps ==
    ASSUME LedgerInv, Shrink
    PROVE  LedgerInv'
<1> DEFINE keep == CHOOSE n \in 0..Len(atlas) : LedgerKeeps(n)
<1>1. LedgerTypeOK
  BY DEF LedgerInv
<1>2. keep \in 0..Len(atlas) /\ LedgerKeeps(keep)
  BY <1>1, SomePagesAreKept
<1>3. /\ atlas' = SubSeq(atlas, 1, keep) /\ GiveBack(PageCost * (Len(atlas) - keep))
      /\ UNCHANGED <<texture, reserved, target, tiles, refused>>
  BY DEF Shrink, keep, LedgerKeeps
<1> HIDE DEF keep
<1>4. \A i : OnPage(i)' = OnPage(i)
  BY <1>3 DEF OnPage
<1>5. ASSUME NEW tile \in tiles PROVE tile[1] \in 1..keep
  <2> DEFINE i == tile[1]
  <2>1. i \in 1..Len(atlas) /\ PageHolds(i) /\ tile \in OnPage(i) /\ Len(atlas) \in Nat
    BY <1>1, LedgerIsTyped DEF LedgerInv, OnPage
  <2>2. IsFiniteSet(OnPage(i)) /\ Cardinality(OnPage(i)) \in Nat /\ Len(atlas[i]) \in Nat
    BY <1>1, <2>1, LedgerIsTyped
  <2>3. Cardinality(OnPage(i)) # 0
    BY <2>1, <2>2, FS_EmptySet
  <2>4. Len(atlas[i]) # TilesPerPage
    BY <2>1, <2>2, <2>3, LedgerSizes DEF PageHolds
  <2> HIDE DEF i
  <2>5. i \notin (keep + 1)..Len(atlas)
    BY <1>2, <2>4 DEF LedgerKeeps, IsEmptyPage
  <2>6. i \in 1..keep
    BY <1>2, <2>1, <2>5
  <2>7. QED
    BY <2>6 DEF i
<1>6. QED
  BY <1>2, <1>3, <1>4, <1>5, PagesGo

LEMMA ReleaseAllKeeps ==
    ASSUME LedgerInv, ReleaseAll
    PROVE  LedgerInv'
<1>1. /\ atlas' = <<>> /\ tiles' = {} /\ GiveBack(PageCost * Len(atlas))
      /\ UNCHANGED <<texture, reserved, target, refused>>
  BY DEF ReleaseAll
<1>2. Len(atlas) \in Nat /\ atlas \in Seq(Seq(TileSlots))
  BY LedgerIsTyped DEF LedgerInv, LedgerTypeOK
<1>3. SubSeq(atlas, 1, 0) = <<>> /\ 0 \in 0..Len(atlas) /\ Len(atlas) - 0 = Len(atlas) /\ 1..0 = {}
  BY <1>2
<1>4. QED
  BY <1>1, <1>3, PagesGo

-----------------------------------------------------------------------------
LEMMA LedgerInvInit == LedgerInit => LedgerInv
<1>1. SUFFICES ASSUME LedgerInit PROVE LedgerInv
  OBVIOUS
<1>2. /\ inUse = 0 /\ atlas = <<>> /\ tiles = {} /\ refused = FALSE /\ Len(atlas) = 0
      /\ texture = [s \in Textures |-> "closed"]
      /\ reserved = [s \in Textures |-> 0] /\ target = [s \in Textures |-> 0]
  BY <1>1 DEF LedgerInit
<1>3. LedgerTypeOK
  <2>1. atlas \in Seq(Seq(TileSlots)) /\ Len(atlas) <= MaxPages
    BY <1>2, LedgerSizes
  <2>2. inUse \in Nat /\ refused \in BOOLEAN /\ tiles \subseteq (1..MaxPages) \X TileSlots
    BY <1>2
  <2>3. /\ texture \in [Textures -> {"closed", "open", "released", "refused"}]
        /\ reserved \in [Textures -> FrameCosts \cup {0}]
        /\ target \in [Textures -> FrameCosts \cup {0}]
    BY <1>2
  <2>4. QED
    BY <2>1, <2>2, <2>3 DEF LedgerTypeOK
<1>4. Charges = [s \in Textures |-> 0]
  BY <1>2 DEF Charges
<1>5. AllCharges = 0
  <2> DEFINE Good == {S \in SUBSET Textures : SumFunctionOnSet(Charges, S) = 0}
  <2>1. {} \in Good
    BY SumOfNone
  <2>2. ASSUME NEW S \in SUBSET Textures, S # {}, \A x \in S : S \ {x} \in Good PROVE S \in Good
    <3>1. PICK x \in S : TRUE
      BY <2>2
    <3>2. IsFiniteSet(S) /\ \A y \in S : Charges[y] \in Nat
      BY <1>4, LedgerSizes, FS_Subset
    <3>3. SumFunctionOnSet(Charges, S) = Charges[x] + SumFunctionOnSet(Charges, S \ {x})
      BY <3>1, <3>2, SumTakesOne
    <3>4. SumFunctionOnSet(Charges, S \ {x}) = 0 /\ Charges[x] = 0
      BY <1>4, <2>2, <3>1
    <3>5. QED
      BY <3>3, <3>4
  <2> HIDE DEF Good
  <2>3. SUBSET Textures \subseteq Good
    BY <2>1, <2>2, LedgerSizes, OneByOne
  <2>4. Textures \in Good
    BY <2>3
  <2>5. QED
    BY <2>4 DEF Good, AllCharges
<1>6. Paid /\ inUse <= TextureCeiling
  BY <1>2, <1>5, LedgerSizes DEF Paid
<1>7. QED
  BY <1>2, <1>3, <1>6 DEF LedgerInv

LEMMA LedgerInvStutters ==
    ASSUME LedgerInv, UNCHANGED ledgerVars
    PROVE  LedgerInv'
<1>1. UNCHANGED <<inUse, texture, reserved, target, atlas, tiles, refused>>
  BY DEF ledgerVars
<1>2. (\A tile \in tiles' : tile[1] \in 1..Len(atlas')) /\ \A i \in 1..Len(atlas') : PageHolds(i)'
  BY <1>1, PagesStay
<1>3. AllCharges' = AllCharges
  BY <1>1, TexturesStay
<1>4. LedgerTypeOK'
  BY <1>1 DEF LedgerInv, LedgerTypeOK
<1>5. inUse' <= TextureCeiling /\ (~refused' => Paid')
  BY <1>1, <1>3 DEF LedgerInv, Paid
<1>6. QED
  BY <1>2, <1>4, <1>5 DEF LedgerInv

LEMMA LedgerInvStep == LedgerInv /\ [LedgerNext]_ledgerVars => LedgerInv'
<1>1. SUFFICES ASSUME LedgerInv, [LedgerNext]_ledgerVars PROVE LedgerInv'
  OBVIOUS
<1>2. CASE LedgerNext
  <2>1. \/ \E s \in Textures : TextureStep(s)
        \/ AllocateTile \/ Shrink \/ ReleaseAll
        \/ \E tile \in tiles : ReleaseTile(tile)
    BY <1>2, Zenon DEF LedgerNext, TextureStep
  <2>2. QED
    BY <1>1, <2>1, TextureKeeps, AllocateKeeps, ShrinkKeeps, ReleaseAllKeeps, ReleaseTileKeeps
<1>3. CASE UNCHANGED ledgerVars
  BY <1>1, <1>3, LedgerInvStutters
<1>4. QED
  BY <1>1, <1>2, <1>3

LEMMA LedgerInvShows == LedgerInv => LedgerTypeOK /\ MemoryIsAccounted
<1>1. SUFFICES ASSUME LedgerInv PROVE LedgerTypeOK /\ MemoryIsAccounted
  OBVIOUS
<1>2. DOMAIN atlas = 1..Len(atlas) /\ LedgerTypeOK
  BY <1>1, LedgerIsTyped DEF LedgerInv
<1>3. ASSUME NEW tile \in tiles PROVE tile[1] \in DOMAIN atlas /\ tile[2] \notin Range(atlas[tile[1]])
  BY <1>1, <1>2 DEF LedgerInv, PageHolds, OnPage
<1>4. \A i \in DOMAIN atlas : Len(atlas[i]) + Cardinality({tile \in tiles : tile[1] = i}) = TilesPerPage
  BY <1>1, <1>2 DEF LedgerInv, PageHolds, OnPage
<1>5. inUse <= TextureCeiling /\ (~refused => inUse = SumFunctionOnSet(Charges, Textures) + PageCost * Len(atlas))
  BY <1>1 DEF LedgerInv, Paid, AllCharges
<1>6. QED
  BY <1>2, <1>3, <1>4, <1>5 DEF MemoryIsAccounted

(* Whatever is loaded, evicted, refused and drawn, the memory in use is     *)
(* within the ceiling and is that of the textures and pages there are, and  *)
(* a place of a page is free or drawn on (TextureLedger).                   *)
THEOREM MemoryStaysAccounted == LedgerSpec => [](LedgerTypeOK /\ MemoryIsAccounted)
  BY LedgerInvInit, LedgerInvStep, LedgerInvShows, PTL DEF LedgerSpec

-----------------------------------------------------------------------------
(* The playback hub.                                                        *)

(* upTo[n]: what the first n of them cost.                                  *)
CostsTo(upTo, members) ==
    /\ upTo \in [0..Len(members) -> Nat] /\ upTo[0] = 0
    /\ \A n \in 1..Len(members) : upTo[n] = upTo[n - 1] + Cost(members[n])

LEMMA CostIsNat == ASSUME NEW m \in Participant PROVE Cost(m) \in Nat /\ Cost(m) > 0
<1>1. m.kind \in Kinds
  BY DEF Participant
<1>2. CostOf[m.kind] \in Nat \ {0}
  BY <1>1, CostsAssumption
<1>3. QED
  BY <1>2 DEF Cost

LEMMA CostsAddUp ==
    ASSUME NEW members \in Seq(Participant)
    PROVE  \E upTo : CostsTo(upTo, members) /\ CostSum(members) = upTo[Len(members)]
<1> DEFINE N == Len(members)
           next == [n \in 1..N |-> [sum \in Nat |-> sum + Cost(members[n])]]
           Is(f) == f = [n \in 0..N |-> IF n = 0 THEN 0 ELSE f[n - 1] + Cost(members[n])]
           upTo == CHOOSE f : Is(f)
<1>1. N \in Nat /\ \A n \in 1..N : Cost(members[n]) \in Nat
  <2>1. \A n \in 1..N : members[n] \in Participant
    BY ElementOfSeq
  <2>2. QED
    BY <2>1, CostIsNat
<1>2. next \in [1..N -> [Nat -> Nat]]
  <2>1. \A n \in 1..N : \A sum \in Nat : sum + Cost(members[n]) \in Nat
    BY <1>1
  <2>2. QED
    BY <2>1
<1>3. \A n \in 1..N : \A sum \in Nat : next[n][sum] = sum + Cost(members[n])
  OBVIOUS
<1> HIDE DEF next
<1>4. PICK f : Takes(f, Nat, N, 0, next)
  BY <1>1, <1>2, StepsCanBeTaken
<1>5. Is(f)
  <2>1. /\ f \in [0..N -> Nat] /\ f[0] = 0
        /\ \A n \in 1..N : f[n] = next[n][f[n - 1]]
    BY <1>4 DEF Takes
  <2>2. ASSUME NEW n \in 0..N
        PROVE  f[n] = IF n = 0 THEN 0 ELSE f[n - 1] + Cost(members[n])
    <3>1. CASE n = 0
      BY <2>1, <3>1
    <3>2. CASE n # 0
      <4>1. n \in 1..N /\ n - 1 \in 0..N
        BY <1>1, <3>2
      <4>2. f[n - 1] \in Nat
        BY <2>1, <4>1
      <4>3. QED
        BY <1>3, <2>1, <3>2, <4>1, <4>2
    <3>3. QED
      BY <3>1, <3>2
  <2>3. f = [n \in 0..N |-> f[n]]
    BY <2>1
  <2>4. QED
    BY <2>2, <2>3
<1> HIDE DEF Is
<1>6. Is(upTo)
  BY <1>5, Zenon
<1>7. CostSum(members) = upTo[N]
  BY Zenon DEF CostSum, upTo, Is
<1>8. upTo[0] = 0 /\ \A n \in 1..N : upTo[n] = upTo[n - 1] + Cost(members[n])
  <2>1. upTo = [n \in 0..N |-> IF n = 0 THEN 0 ELSE upTo[n - 1] + Cost(members[n])]
    BY <1>6 DEF Is
  <2> HIDE DEF upTo
  <2>2. \A n \in 0..N : upTo[n] = IF n = 0 THEN 0 ELSE upTo[n - 1] + Cost(members[n])
    BY <2>1
  <2>3. 0 \in 0..N /\ \A n \in 1..N : n \in 0..N /\ n # 0
    BY <1>1
  <2>4. QED
    BY <2>2, <2>3
<1>9. DOMAIN upTo = 0..N /\ upTo = [n \in 0..N |-> upTo[n]]
  BY <1>6 DEF Is
<1> HIDE DEF upTo
<1> DEFINE Good == {n \in 0..N : upTo[n] \in Nat}
<1>10. 0 \in Good
  BY <1>1, <1>8
<1>11. ASSUME NEW n \in 0..N, n + 1 \in 0..N, n \in Good PROVE n + 1 \in Good
  <2>1. n + 1 \in 1..N /\ (n + 1) - 1 = n
    BY <1>1, <1>11
  <2>2. upTo[n + 1] = upTo[n] + Cost(members[n + 1])
    BY <1>8, <2>1
  <2>3. QED
    BY <1>1, <1>11, <2>1, <2>2
<1> HIDE DEF Good
<1>12. 0..N \subseteq Good
  BY <1>1, <1>10, <1>11, StepByStep
<1>13. upTo \in [0..N -> Nat]
  BY <1>9, <1>12 DEF Good
<1>14. QED
  BY <1>7, <1>8, <1>13 DEF CostsTo

(* Sequences that cost the same one by one cost the same.                   *)
LEMMA CostsAgree ==
    ASSUME NEW s \in Seq(Participant), NEW t \in Seq(Participant), NEW n \in Nat, n <= Len(s), n <= Len(t),
           NEW f, CostsTo(f, s), NEW g, CostsTo(g, t), \A i \in 1..n : Cost(s[i]) = Cost(t[i])
    PROVE  f[n] = g[n]
<1> DEFINE Good == {i \in 0..n : f[i] = g[i]}
<1>1. /\ f[0] = 0 /\ g[0] = 0 /\ Len(s) \in Nat /\ Len(t) \in Nat
      /\ \A i \in 1..Len(s) : f[i] = f[i - 1] + Cost(s[i])
      /\ \A i \in 1..Len(t) : g[i] = g[i - 1] + Cost(t[i])
  BY DEF CostsTo
<1>2. 0 \in Good
  BY <1>1
<1>3. ASSUME NEW i \in 0..n, i + 1 \in 0..n, i \in Good PROVE i + 1 \in Good
  <2>1. i + 1 \in 1..Len(s) /\ i + 1 \in 1..Len(t) /\ i + 1 \in 1..n /\ (i + 1) - 1 = i
    BY <1>1, <1>3
  <2>2. f[i + 1] = f[i] + Cost(s[i + 1]) /\ g[i + 1] = g[i] + Cost(t[i + 1])
    BY <1>1, <2>1
  <2>3. QED
    BY <1>3, <2>1, <2>2
<1> HIDE DEF Good
<1>4. 0..n \subseteq Good
  BY <1>2, <1>3, StepByStep
<1>5. n \in Good
  BY <1>4
<1>6. QED
  BY <1>5 DEF Good

LEMMA CostSumIsNat == ASSUME NEW s \in Seq(Participant) PROVE CostSum(s) \in Nat
<1>1. PICK f : CostsTo(f, s) /\ CostSum(s) = f[Len(s)]
  BY CostsAddUp
<1>2. f \in [0..Len(s) -> Nat] /\ Len(s) \in 0..Len(s)
  BY <1>1 DEF CostsTo
<1>3. QED
  BY <1>1, <1>2

LEMMA CostOfNone == CostSum(<<>>) = 0
<1>1. <<>> \in Seq(Participant) /\ Len(<<>>) = 0
  OBVIOUS
<1>2. PICK f : CostsTo(f, <<>>) /\ CostSum(<<>>) = f[0]
  BY <1>1, CostsAddUp
<1>3. QED
  BY <1>2 DEF CostsTo

LEMMA CostOfSame ==
    ASSUME NEW s \in Seq(Participant), NEW t \in Seq(Participant), Len(s) = Len(t),
           \A i \in 1..Len(s) : Cost(s[i]) = Cost(t[i])
    PROVE  CostSum(s) = CostSum(t)
<1>1. PICK f : CostsTo(f, s) /\ CostSum(s) = f[Len(s)]
  BY CostsAddUp
<1>2. PICK g : CostsTo(g, t) /\ CostSum(t) = g[Len(t)]
  BY CostsAddUp
<1>3. Len(s) \in Nat /\ Len(s) <= Len(s)
  OBVIOUS
<1>4. f[Len(s)] = g[Len(s)]
  BY <1>1, <1>2, <1>3, CostsAgree
<1>5. QED
  BY <1>1, <1>2, <1>4

LEMMA CostOfMore ==
    ASSUME NEW s \in Seq(Participant), NEW m \in Participant
    PROVE  CostSum(Append(s, m)) = CostSum(s) + Cost(m)
<1> DEFINE n == Len(s)
           t == Append(s, m)
<1>1. n \in Nat /\ t \in Seq(Participant) /\ Len(t) = n + 1 /\ t[n + 1] = m /\ \A i \in 1..n : t[i] = s[i]
  OBVIOUS
<1>2. PICK f : CostsTo(f, s) /\ CostSum(s) = f[n]
  BY CostsAddUp
<1> HIDE DEF t
<1>3. PICK g : CostsTo(g, t) /\ CostSum(t) = g[n + 1]
  BY <1>1, CostsAddUp
<1>4. f[n] = g[n]
  <2>1. \A i \in 1..n : Cost(s[i]) = Cost(t[i])
    BY <1>1
  <2>2. n <= Len(s) /\ n <= Len(t)
    BY <1>1
  <2>3. QED
    BY <1>1, <1>2, <1>3, <2>1, <2>2, CostsAgree
<1>5. g[n + 1] = g[n] + Cost(m)
  <2>1. n + 1 \in 1..Len(t) /\ (n + 1) - 1 = n
    BY <1>1
  <2>2. g[n + 1] = g[(n + 1) - 1] + Cost(t[n + 1])
    BY <1>3, <2>1 DEF CostsTo
  <2>3. QED
    BY <1>1, <2>1, <2>2
<1>6. QED
  BY <1>2, <1>3, <1>4, <1>5 DEF t

LEMMA CostOfFewer ==
    ASSUME NEW s \in Seq(Participant), NEW gone
    PROVE  CostSum(Remaining(s, gone)) <= CostSum(s)
<1> DEFINE N == Len(s)
<1>1. PICK f : CostsTo(f, s) /\ CostSum(s) = f[N]
  BY CostsAddUp
<1>2. PICK left : Leaves(left, s, gone) /\ Remaining(s, gone) = left[N]
  BY RemainingSteps
<1>3. /\ N \in Nat /\ f \in [0..N -> Nat] /\ f[0] = 0 /\ left[0] = <<>>
      /\ \A n \in 1..N : /\ f[n] = f[n - 1] + Cost(s[n]) /\ s[n] \in Participant
                         /\ left[n] = IF s[n] \in gone THEN left[n - 1] ELSE Append(left[n - 1], s[n])
  BY <1>1, <1>2, ElementOfSeq DEF CostsTo, Leaves
<1> DEFINE Good == {n \in 0..N : left[n] \in Seq(Participant) /\ CostSum(left[n]) <= f[n]}
<1>4. 0 \in Good
  <2>1. left[0] \in Seq(Participant) /\ CostSum(left[0]) = 0 /\ f[0] = 0 /\ 0 \in 0..N
    BY <1>3, CostOfNone
  <2>2. QED
    BY <2>1
<1>5. ASSUME NEW n \in 0..N, n + 1 \in 0..N, n \in Good PROVE n + 1 \in Good
  <2>1. n + 1 \in 1..N /\ (n + 1) - 1 = n
    BY <1>3, <1>5
  <2>2. /\ f[n + 1] = f[n] + Cost(s[n + 1]) /\ s[n + 1] \in Participant
        /\ left[n + 1] = IF s[n + 1] \in gone THEN left[n] ELSE Append(left[n], s[n + 1])
    BY <1>3, <2>1
  <2>3. left[n] \in Seq(Participant) /\ CostSum(left[n]) <= f[n] /\ f[n] \in Nat
    BY <1>3, <1>5
  <2>4. Cost(s[n + 1]) \in Nat /\ CostSum(left[n]) \in Nat
    BY <2>2, <2>3, CostIsNat, CostSumIsNat
  <2>5. CASE s[n + 1] \in gone
    <3>1. left[n + 1] = left[n]
      BY <2>2, <2>5
    <3>2. CostSum(left[n]) <= f[n + 1]
      BY <2>2, <2>3, <2>4
    <3>3. QED
      BY <1>5, <2>3, <3>1, <3>2
  <2>6. CASE s[n + 1] \notin gone
    <3>1. left[n + 1] = Append(left[n], s[n + 1]) /\ left[n + 1] \in Seq(Participant)
      BY <2>2, <2>3, <2>6
    <3>2. CostSum(left[n + 1]) = CostSum(left[n]) + Cost(s[n + 1])
      BY <2>2, <2>3, <3>1, CostOfMore
    <3>3. CostSum(left[n + 1]) <= f[n + 1]
      BY <2>2, <2>3, <2>4, <3>2
    <3>4. QED
      BY <1>5, <3>1, <3>3
  <2>7. QED
    BY <2>5, <2>6
<1> HIDE DEF Good
<1>6. 0..N \subseteq Good
  BY <1>3, <1>4, <1>5, StepByStep
<1>7. N \in Good
  BY <1>3, <1>6
<1>8. QED
  BY <1>1, <1>2, <1>7 DEF Good

-----------------------------------------------------------------------------
(* What holds of those who play, those who wait and the grants drawn under. *)
Seats(p, w, d) ==
    /\ p \in Seq(Participant) /\ w \in Seq(Participant) /\ AllApart(p) /\ AllApart(w)
    /\ d \in [Players -> {NoGrant} \cup 1..MaxGranted]
    /\ Range(p) \cap Range(w) = {}
    /\ \A x, y \in Range(p) \cup Range(w) : x.player = y.player \/ x.grant = y.grant => x = y
    /\ \A x \in Range(p) : d[x.player] = x.grant
    /\ \A q \in Players : (\A x \in Range(p) : x.player # q) => d[q] = NoGrant
HubHolds(hub) ==
    /\ hub = [playing |-> hub.playing, waiting |-> hub.waiting, drawsUnder |-> hub.drawsUnder]
    /\ Seats(hub.playing, hub.waiting, hub.drawsUnder)
Everyone(hub) == Range(hub.playing) \cup Range(hub.waiting)
NoneFits(p, w, limit) == \A x \in Range(w) : ~(CostSum(p) + Cost(x) <= limit)

LEMMA FittingIs ==
    ASSUME NEW hub, hub.waiting \in Seq(Participant), NEW limit
    PROVE  Fitting(hub, limit) = {} <=> NoneFits(hub.playing, hub.waiting, limit)
<1>1. DOMAIN hub.waiting = 1..Len(hub.waiting)
  OBVIOUS
<1>2. QED
  BY <1>1, ElementsOf DEF Fitting, NoneFits

(* One who waits takes a slot.                                              *)
LEMMA SeatTaken ==
    ASSUME NEW p, NEW w, NEW d, Seats(p, w, d), NEW k \in 1..Len(w)
    PROVE  /\ Seats(Append(p, w[k]), FromOne(w, k), [d EXCEPT ![w[k].player] = w[k].grant])
           /\ Range(Append(p, w[k])) \cup Range(FromOne(w, k)) = Range(p) \cup Range(w)
           /\ CostSum(Append(p, w[k])) = CostSum(p) + Cost(w[k]) /\ Len(FromOne(w, k)) = Len(w) - 1
<1> DEFINE m == w[k]
           v == FromOne(w, k)
           q == Append(p, m)
           e == [d EXCEPT ![m.player] = m.grant]
<1>1. /\ p \in Seq(Participant) /\ w \in Seq(Participant) /\ AllApart(p) /\ AllApart(w)
      /\ d \in [Players -> {NoGrant} \cup 1..MaxGranted]
      /\ Range(p) \cap Range(w) = {}
      /\ \A x, y \in Range(p) \cup Range(w) : x.player = y.player \/ x.grant = y.grant => x = y
      /\ \A x \in Range(p) : d[x.player] = x.grant
      /\ \A r \in Players : (\A x \in Range(p) : x.player # r) => d[r] = NoGrant
  BY DEF Seats
<1>2. /\ v \in Seq(Participant) /\ Len(v) = Len(w) - 1 /\ AllApart(v)
      /\ m \in Range(w) /\ m \in Participant /\ Range(v) = Range(w) \ {m}
  <2>1. w \in Seq(Participant) /\ AllApart(w)
    BY <1>1
  <2>2. /\ v \in Seq(Participant) /\ Len(v) = Len(w) - 1 /\ AllApart(v)
        /\ w[k] \in Range(w) /\ w[k] \in Participant /\ Range(v) = Range(w) \ {w[k]}
    BY <2>1, ApartFromOne, Zenon
  <2>3. QED
    BY <2>2
<1>3. /\ q \in Seq(Participant) /\ AllApart(q) /\ Range(q) = Range(p) \cup {m}
      /\ CostSum(q) = CostSum(p) + Cost(m)
  <2>1. p \in Seq(Participant) /\ AllApart(p) /\ m \in Participant /\ m \notin Range(p)
    BY <1>1, <1>2
  <2> HIDE DEF m
  <2>2. /\ Append(p, m) \in Seq(Participant) /\ AllApart(Append(p, m))
        /\ Range(Append(p, m)) = Range(p) \cup {m}
    BY <2>1, ApartWithLast
  <2>3. CostSum(Append(p, m)) = CostSum(p) + Cost(m)
    BY <2>1, CostOfMore
  <2>4. QED
    BY <2>2, <2>3, Zenon
<1>4. m.player \in Players /\ m.grant \in 1..MaxGranted
  BY <1>2 DEF Participant
<1>5. /\ e \in [Players -> {NoGrant} \cup 1..MaxGranted] /\ e[m.player] = m.grant
      /\ \A r \in Players : r # m.player => e[r] = d[r]
  BY <1>1, <1>4
<1>6. \A x \in Range(p) : x \in Participant /\ x.player \in Players
  <2>1. Range(p) \subseteq Participant
    BY <1>1, ElementsAreOf, Zenon
  <2>2. QED
    BY <2>1 DEF Participant
<1> HIDE DEF m, q, e, v
<1>7. Range(q) \cup Range(v) = Range(p) \cup Range(w) /\ Range(q) \cap Range(v) = {}
  BY <1>1, <1>2, <1>3
<1>8. ASSUME NEW x \in Range(q) PROVE e[x.player] = x.grant
  <2>1. CASE x = m
    BY <1>5, <2>1
  <2>2. CASE x # m
    <3>1. x \in Range(p) /\ x \in Range(p) \cup Range(w) /\ m \in Range(p) \cup Range(w)
      BY <1>2, <1>3, <2>2
    <3>2. x.player # m.player
      BY <1>1, <2>2, <3>1
    <3>3. QED
      BY <1>1, <1>5, <1>6, <3>1, <3>2
  <2>3. QED
    BY <2>1, <2>2
<1>9. ASSUME NEW r \in Players, \A x \in Range(q) : x.player # r PROVE e[r] = NoGrant
  BY <1>1, <1>3, <1>5, <1>9
<1>10. \A x, y \in Range(q) \cup Range(v) : x.player = y.player \/ x.grant = y.grant => x = y
  BY <1>1, <1>7
<1>11. Seats(q, v, e)
  BY <1>2, <1>3, <1>5, <1>7, <1>8, <1>9, <1>10 DEF Seats
<1>12. QED
  BY <1>2, <1>3, <1>7, <1>11 DEF m, q, e, v

(* The oldest grant is revoked.                                             *)
LEMMA SeatRevoked ==
    ASSUME NEW p, NEW w, NEW d, Seats(p, w, d), p # <<>>, NEW m, m = Head(p)
    PROVE  /\ Seats(Tail(p), <<m>> \o w, [d EXCEPT ![m.player] = NoGrant])
           /\ Range(Tail(p)) \cup Range(<<m>> \o w) = Range(p) \cup Range(w)
           /\ Len(Tail(p)) = Len(p) - 1
<1> DEFINE q == Tail(p)
           v == <<m>> \o w
           e == [d EXCEPT ![m.player] = NoGrant]
<1>1. /\ p \in Seq(Participant) /\ w \in Seq(Participant) /\ AllApart(p) /\ AllApart(w)
      /\ d \in [Players -> {NoGrant} \cup 1..MaxGranted]
      /\ Range(p) \cap Range(w) = {}
      /\ \A x, y \in Range(p) \cup Range(w) : x.player = y.player \/ x.grant = y.grant => x = y
      /\ \A x \in Range(p) : d[x.player] = x.grant
      /\ \A r \in Players : (\A x \in Range(p) : x.player # r) => d[r] = NoGrant
  BY DEF Seats
<1>2. /\ q \in Seq(Participant) /\ Len(q) = Len(p) - 1 /\ AllApart(q)
      /\ m \in Range(p) /\ m \in Participant /\ Range(q) = Range(p) \ {m}
  BY <1>1, ApartFromFirst
<1>3. v \in Seq(Participant) /\ AllApart(v) /\ Range(v) = Range(w) \cup {m}
  <2>1. m \notin Range(w)
    BY <1>1, <1>2
  <2>2. QED
    BY <1>1, <1>2, <2>1, ApartWithFirst
<1>4. m.player \in Players
  BY <1>2 DEF Participant
<1>5. /\ e \in [Players -> {NoGrant} \cup 1..MaxGranted] /\ e[m.player] = NoGrant
      /\ \A r \in Players : r # m.player => e[r] = d[r]
  BY <1>1, <1>4
<1>6. \A x \in Range(p) : x \in Participant /\ x.player \in Players
  <2>1. Range(p) \subseteq Participant
    BY <1>1, ElementsAreOf, Zenon
  <2>2. QED
    BY <2>1 DEF Participant
<1> HIDE DEF q, v, e
<1>7. Range(q) \cup Range(v) = Range(p) \cup Range(w) /\ Range(q) \cap Range(v) = {}
  BY <1>1, <1>2, <1>3
<1>8. ASSUME NEW x \in Range(q) PROVE e[x.player] = x.grant
  <2>1. x \in Range(p) /\ x # m /\ x.player # m.player
    BY <1>1, <1>2
  <2>2. QED
    BY <1>1, <1>5, <1>6, <2>1
<1>9. ASSUME NEW r \in Players, \A x \in Range(q) : x.player # r PROVE e[r] = NoGrant
  <2>1. CASE r = m.player
    BY <1>5, <2>1
  <2>2. CASE r # m.player
    <3>1. \A x \in Range(p) : x.player # r
      BY <1>2, <1>9, <2>2
    <3>2. QED
      BY <1>1, <1>5, <2>2, <3>1
  <2>3. QED
    BY <2>1, <2>2
<1>10. \A x, y \in Range(q) \cup Range(v) : x.player = y.player \/ x.grant = y.grant => x = y
  BY <1>1, <1>7
<1>11. Seats(q, v, e)
  BY <1>2, <1>3, <1>5, <1>7, <1>8, <1>9, <1>10 DEF Seats
<1>12. QED
  BY <1>2, <1>7, <1>11 DEF q, v, e

LEMMA PromoteHolds ==
    ASSUME NEW hub, HubHolds(hub), NEW k \in DOMAIN hub.waiting
    PROVE  /\ HubHolds(Promote(hub, k)) /\ Everyone(Promote(hub, k)) = Everyone(hub)
           /\ CostSum(Promote(hub, k).playing) = CostSum(hub.playing) + Cost(hub.waiting[k])
           /\ Len(Promote(hub, k).waiting) = Len(hub.waiting) - 1
<1> DEFINE p == hub.playing
           w == hub.waiting
           d == hub.drawsUnder
           m == w[k]
           v == FromOne(w, k)
           e == [d EXCEPT ![m.player] = m.grant]
<1>1. hub = [playing |-> p, waiting |-> w, drawsUnder |-> d] /\ Seats(p, w, d)
  BY DEF HubHolds
<1>2. k \in 1..Len(w)
  BY <1>1 DEF Seats
<1>3. Promote(hub, k) = [playing |-> Append(p, m), waiting |-> v, drawsUnder |-> e]
  <2> DEFINE left == [hub EXCEPT !.waiting = v]
  <2>1. left.playing = p /\ left.waiting = v /\ left.drawsUnder = d
    BY <1>1
  <2>2. Promote(hub, k) = Granted(left, m)
    BY DEF Promote, FromOne
  <2> HIDE DEF left, p, w, d, v, m
  <2>3. QED
    BY <2>1, <2>2 DEF Granted
<1> HIDE DEF p, w, d
<1>4. /\ Seats(Append(p, m), v, e) /\ Range(Append(p, m)) \cup Range(v) = Range(p) \cup Range(w)
      /\ CostSum(Append(p, m)) = CostSum(p) + Cost(m) /\ Len(v) = Len(w) - 1
  BY <1>1, <1>2, SeatTaken, Zenon
<1> HIDE DEF v, m, e
<1>5. QED
  BY <1>3, <1>4 DEF HubHolds, Everyone, p, w, m

LEMMA RevokeHolds ==
    ASSUME NEW hub, HubHolds(hub), hub.playing # <<>>
    PROVE  /\ HubHolds(Revoke(hub)) /\ Everyone(Revoke(hub)) = Everyone(hub)
           /\ Len(Revoke(hub).playing) = Len(hub.playing) - 1
<1> DEFINE p == hub.playing
           w == hub.waiting
           d == hub.drawsUnder
           m == Head(p)
           e == [d EXCEPT ![m.player] = NoGrant]
<1>1. hub = [playing |-> p, waiting |-> w, drawsUnder |-> d] /\ Seats(p, w, d)
  BY DEF HubHolds
<1>2. Revoke(hub) = [playing |-> Tail(p), waiting |-> <<m>> \o w, drawsUnder |-> e]
  BY <1>1 DEF Revoke
<1> HIDE DEF p, w, d
<1>3. /\ Seats(Tail(p), <<m>> \o w, e) /\ Range(Tail(p)) \cup Range(<<m>> \o w) = Range(p) \cup Range(w)
      /\ Len(Tail(p)) = Len(p) - 1
  <2>1. p # <<>>
    BY DEF p
  <2>2. QED
    BY <1>1, <2>1, SeatRevoked
<1> HIDE DEF m, e
<1>4. QED
  BY <1>2, <1>3 DEF HubHolds, Everyone, p, w

-----------------------------------------------------------------------------
(* Steps of a hub: first the ones that give slots, then those that revoke.  *)
Hubs == [playing : Seq(Participant), waiting : Seq(Participant),
         drawsUnder : [Players -> {NoGrant} \cup 1..MaxGranted]]
FirstToFit(hub, limit) == CHOOSE i \in Fitting(hub, limit) : \A j \in Fitting(hub, limit) : i <= j
Fills(hub, limit) ==
    IF Fitting(hub, limit) = {} THEN hub ELSE Promote(hub, FirstToFit(hub, limit))
Trims(hub, limit) == IF CostSum(hub.playing) > limit THEN Revoke(hub) ELSE hub
WithinBudget(hub, limit) == CostSum(hub.playing) <= limit

LEMMA HoldsIsTyped ==
    ASSUME NEW hub, HubHolds(hub)
    PROVE  /\ hub \in Hubs /\ CostSum(hub.playing) \in Nat
           /\ DOMAIN hub.waiting = 1..Len(hub.waiting) /\ Len(hub.waiting) \in Nat /\ Len(hub.playing) \in Nat
<1>1. /\ hub.playing \in Seq(Participant) /\ hub.waiting \in Seq(Participant)
      /\ hub.drawsUnder \in [Players -> {NoGrant} \cup 1..MaxGranted]
      /\ hub = [playing |-> hub.playing, waiting |-> hub.waiting, drawsUnder |-> hub.drawsUnder]
  BY DEF HubHolds, Seats
<1>2. hub \in Hubs
  BY <1>1 DEF Hubs
<1>3. QED
  BY <1>1, <1>2, CostSumIsNat

LEMMA FillsHolds ==
    ASSUME NEW hub, HubHolds(hub), NEW limit \in Nat
    PROVE  /\ HubHolds(Fills(hub, limit)) /\ Everyone(Fills(hub, limit)) = Everyone(hub)
           /\ WithinBudget(hub, limit) => WithinBudget(Fills(hub, limit), limit)
           /\ Fitting(hub, limit) = {} => Fills(hub, limit) = hub
           /\ Fitting(hub, limit) # {} => Len(Fills(hub, limit).waiting) = Len(hub.waiting) - 1
<1>1. CASE Fitting(hub, limit) = {}
  BY <1>1 DEF Fills
<1>2. CASE Fitting(hub, limit) # {}
  <2> DEFINE k == FirstToFit(hub, limit)
  <2>1. k \in Fitting(hub, limit)
    <3>1. Fitting(hub, limit) \subseteq Nat
      BY HoldsIsTyped DEF Fitting
    <3>2. \E i \in Fitting(hub, limit) : \A j \in Fitting(hub, limit) : i <= j
      BY <1>2, <3>1, Smallest
    <3>3. QED
      BY <3>2 DEF FirstToFit
  <2>2. Fills(hub, limit) = Promote(hub, k)
    BY <1>2 DEF Fills
  <2> HIDE DEF k
  <2>3. k \in DOMAIN hub.waiting /\ CostSum(hub.playing) + Cost(hub.waiting[k]) <= limit
    BY <2>1 DEF Fitting
  <2>4. /\ HubHolds(Promote(hub, k)) /\ Everyone(Promote(hub, k)) = Everyone(hub)
        /\ CostSum(Promote(hub, k).playing) = CostSum(hub.playing) + Cost(hub.waiting[k])
        /\ Len(Promote(hub, k).waiting) = Len(hub.waiting) - 1
    BY <2>3, PromoteHolds
  <2>5. WithinBudget(Promote(hub, k), limit)
    BY <2>3, <2>4 DEF WithinBudget
  <2>6. QED
    BY <1>2, <2>2, <2>4, <2>5
<1>3. QED
  BY <1>1, <1>2

LEMMA TrimsHolds ==
    ASSUME NEW hub, HubHolds(hub), NEW limit \in Nat
    PROVE  /\ HubHolds(Trims(hub, limit)) /\ Everyone(Trims(hub, limit)) = Everyone(hub)
           /\ WithinBudget(hub, limit) => Trims(hub, limit) = hub
           /\ ~WithinBudget(hub, limit) => Len(Trims(hub, limit).playing) = Len(hub.playing) - 1
<1>1. CostSum(hub.playing) \in Nat
  BY HoldsIsTyped
<1>2. CASE WithinBudget(hub, limit)
  <2>1. ~(CostSum(hub.playing) > limit)
    BY <1>1, <1>2 DEF WithinBudget
  <2>2. QED
    BY <1>2, <2>1 DEF Trims
<1>3. CASE ~WithinBudget(hub, limit)
  <2>1. CostSum(hub.playing) > limit /\ CostSum(hub.playing) # 0
    BY <1>1, <1>3 DEF WithinBudget
  <2>2. hub.playing # <<>>
    BY <2>1, CostOfNone
  <2>3. Trims(hub, limit) = Revoke(hub)
    BY <2>1 DEF Trims
  <2>4. QED
    BY <1>3, <2>2, <2>3, RevokeHolds
<1>4. QED
  BY <1>2, <1>3

LEMMA FilledHolds ==
    ASSUME NEW hub, HubHolds(hub), NEW limit \in Nat
    PROVE  /\ HubHolds(Filled(hub, limit)) /\ Everyone(Filled(hub, limit)) = Everyone(hub)
           /\ WithinBudget(hub, limit) => WithinBudget(Filled(hub, limit), limit)
           /\ Fitting(Filled(hub, limit), limit) = {}
<1> DEFINE N == Len(hub.waiting)
           S == {h \in Hubs : /\ HubHolds(h) /\ Everyone(h) = Everyone(hub)
                              /\ WithinBudget(hub, limit) => WithinBudget(h, limit)}
           next == [n \in 1..N |-> [h \in S |-> Fills(h, limit)]]
           Is(f) == f = [n \in 0..N |-> IF n = 0 THEN hub ELSE Fills(f[n - 1], limit)]
           after == CHOOSE f : Is(f)
<1>1. N \in Nat /\ hub \in S
  BY HoldsIsTyped
<1>2. \A h \in S : Fills(h, limit) \in S
  <2>1. ASSUME NEW h \in S PROVE Fills(h, limit) \in S
    <3>1. HubHolds(h) /\ Everyone(h) = Everyone(hub) /\ (WithinBudget(hub, limit) => WithinBudget(h, limit))
      OBVIOUS
    <3>2. /\ HubHolds(Fills(h, limit)) /\ Everyone(Fills(h, limit)) = Everyone(h)
          /\ WithinBudget(h, limit) => WithinBudget(Fills(h, limit), limit)
      BY <3>1, FillsHolds
    <3>3. Fills(h, limit) \in Hubs
      BY <3>2, HoldsIsTyped
    <3>4. QED
      BY <3>1, <3>2, <3>3
  <2>2. QED
    BY <2>1
<1>3. \A n \in 1..N : \A h \in S : next[n][h] = Fills(h, limit)
  OBVIOUS
<1>4. next \in [1..N -> [S -> S]]
  BY <1>2
<1> HIDE DEF next, S
<1>5. PICK f : Takes(f, S, N, hub, next)
  BY <1>1, <1>4, StepsCanBeTaken
<1>6. Is(f)
  <2>1. /\ f \in [0..N -> S] /\ f[0] = hub
        /\ \A n \in 1..N : f[n] = next[n][f[n - 1]]
    BY <1>5 DEF Takes
  <2> HIDE DEF N
  <2>2. ASSUME NEW n \in 0..N
        PROVE  f[n] = IF n = 0 THEN hub ELSE Fills(f[n - 1], limit)
    <3>1. CASE n = 0
      BY <2>1, <3>1
    <3>2. CASE n # 0
      <4>1. n \in 1..N /\ n - 1 \in 0..N
        BY <1>1, <3>2
      <4>2. f[n - 1] \in S
        BY <2>1, <4>1
      <4>3. QED
        BY <1>3, <2>1, <3>2, <4>1, <4>2
    <3>3. QED
      BY <3>1, <3>2
  <2>3. f = [n \in 0..N |-> f[n]]
    BY <2>1
  <2>4. QED
    BY <2>2, <2>3
<1> HIDE DEF Is
<1>7. Is(after)
  BY <1>6, Zenon
<1>8. Filled(hub, limit) = after[N]
  BY Zenon DEF Filled, after, Is, Fills, FirstToFit
<1> HIDE DEF after
<1>9. after[0] = hub /\ \A n \in 1..N : after[n] = Fills(after[n - 1], limit)
  <2>1. after = [n \in 0..N |-> IF n = 0 THEN hub ELSE Fills(after[n - 1], limit)]
    BY <1>7 DEF Is
  <2> HIDE DEF N
  <2>2. \A n \in 0..N : after[n] = IF n = 0 THEN hub ELSE Fills(after[n - 1], limit)
    BY <2>1
  <2>3. 0 \in 0..N /\ \A n \in 1..N : n \in 0..N /\ n # 0
    BY <1>1
  <2>4. QED
    BY <2>2, <2>3
<1> DEFINE Good == {n \in 0..N : /\ after[n] \in S
                                 /\ Fitting(after[n], limit) = {} \/ Len(after[n].waiting) = N - n}
<1>10. 0 \in Good
  <2>1. Len(hub.waiting) = N - 0 /\ 0 \in 0..N
    BY <1>1
  <2>2. QED
    BY <1>1, <1>9, <2>1
<1>11. ASSUME NEW n \in 0..N, n + 1 \in 0..N, n \in Good PROVE n + 1 \in Good
  <2> DEFINE h == after[n]
  <2>1. /\ n \in Nat /\ n + 1 \in 1..N /\ (n + 1) - 1 = n /\ N - (n + 1) = (N - n) - 1 /\ h \in S
        /\ Fitting(h, limit) = {} \/ Len(h.waiting) = N - n
    BY <1>1, <1>11
  <2>2. after[n + 1] = Fills(h, limit)
    BY <1>9, <2>1
  <2> HIDE DEF h
  <2>3. Fills(h, limit) \in S
    BY <1>2, <2>1
  <2>4. Fitting(Fills(h, limit), limit) = {} \/ Len(Fills(h, limit).waiting) = N - (n + 1)
    <3>1. HubHolds(h)
      BY <2>1 DEF S
    <3>2. CASE Fitting(h, limit) = {}
      BY <3>1, <3>2, FillsHolds, Zenon
    <3>3. CASE Fitting(h, limit) # {}
      <4>1. Len(Fills(h, limit).waiting) = Len(h.waiting) - 1
        BY <3>1, <3>3, FillsHolds, Zenon
      <4>2. QED
        BY <2>1, <3>3, <4>1
    <3>4. QED
      BY <3>2, <3>3
  <2>5. QED
    BY <1>11, <2>2, <2>3, <2>4
<1> HIDE DEF Good, N
<1>12. 0..N \subseteq Good
  BY <1>1, <1>10, <1>11, StepByStep
<1>13. N \in Good
  BY <1>1, <1>12
<1> DEFINE h == after[N]
<1>14. h \in S /\ (Fitting(h, limit) = {} \/ Len(h.waiting) = N - N)
  BY <1>13 DEF Good
<1> HIDE DEF h
<1>15. HubHolds(h) /\ Everyone(h) = Everyone(hub) /\ (WithinBudget(hub, limit) => WithinBudget(h, limit))
  BY <1>14 DEF S
<1>16. Fitting(h, limit) = {}
  <2>1. CASE Len(h.waiting) = N - N
    <3>1. Len(h.waiting) = 0 /\ DOMAIN h.waiting = 1..0
      BY <1>1, <1>15, <2>1, HoldsIsTyped
    <3>2. QED
      BY <3>1 DEF Fitting
  <2>2. QED
    BY <1>14, <2>1
<1>17. QED
  BY <1>8, <1>15, <1>16 DEF h

LEMMA TrimmedHolds ==
    ASSUME NEW hub, HubHolds(hub), NEW limit \in Nat
    PROVE  /\ HubHolds(Trimmed(hub, limit)) /\ Everyone(Trimmed(hub, limit)) = Everyone(hub)
           /\ WithinBudget(Trimmed(hub, limit), limit)
<1> DEFINE N == Len(hub.playing)
           S == {h \in Hubs : HubHolds(h) /\ Everyone(h) = Everyone(hub)}
           next == [n \in 1..N |-> [h \in S |-> Trims(h, limit)]]
           Is(f) == f = [n \in 0..N |-> IF n = 0 THEN hub ELSE Trims(f[n - 1], limit)]
           after == CHOOSE f : Is(f)
<1>1. N \in Nat /\ hub \in S
  BY HoldsIsTyped
<1>2. \A h \in S : Trims(h, limit) \in S
  <2>1. ASSUME NEW h \in S PROVE Trims(h, limit) \in S
    <3>1. HubHolds(h) /\ Everyone(h) = Everyone(hub)
      OBVIOUS
    <3>2. HubHolds(Trims(h, limit)) /\ Everyone(Trims(h, limit)) = Everyone(h)
      BY <3>1, TrimsHolds
    <3>3. Trims(h, limit) \in Hubs
      BY <3>2, HoldsIsTyped
    <3>4. QED
      BY <3>1, <3>2, <3>3
  <2>2. QED
    BY <2>1
<1>3. \A n \in 1..N : \A h \in S : next[n][h] = Trims(h, limit)
  OBVIOUS
<1>4. next \in [1..N -> [S -> S]]
  BY <1>2
<1> HIDE DEF next, S
<1>5. PICK f : Takes(f, S, N, hub, next)
  BY <1>1, <1>4, StepsCanBeTaken
<1>6. Is(f)
  <2>1. /\ f \in [0..N -> S] /\ f[0] = hub
        /\ \A n \in 1..N : f[n] = next[n][f[n - 1]]
    BY <1>5 DEF Takes
  <2> HIDE DEF N
  <2>2. ASSUME NEW n \in 0..N
        PROVE  f[n] = IF n = 0 THEN hub ELSE Trims(f[n - 1], limit)
    <3>1. CASE n = 0
      BY <2>1, <3>1
    <3>2. CASE n # 0
      <4>1. n \in 1..N /\ n - 1 \in 0..N
        BY <1>1, <3>2
      <4>2. f[n - 1] \in S
        BY <2>1, <4>1
      <4>3. QED
        BY <1>3, <2>1, <3>2, <4>1, <4>2
    <3>3. QED
      BY <3>1, <3>2
  <2>3. f = [n \in 0..N |-> f[n]]
    BY <2>1
  <2>4. QED
    BY <2>2, <2>3
<1> HIDE DEF Is
<1>7. Is(after)
  BY <1>6, Zenon
<1>8. Trimmed(hub, limit) = after[N]
  BY Zenon DEF Trimmed, after, Is, Trims
<1> HIDE DEF after
<1>9. after[0] = hub /\ \A n \in 1..N : after[n] = Trims(after[n - 1], limit)
  <2>1. after = [n \in 0..N |-> IF n = 0 THEN hub ELSE Trims(after[n - 1], limit)]
    BY <1>7 DEF Is
  <2> HIDE DEF N
  <2>2. \A n \in 0..N : after[n] = IF n = 0 THEN hub ELSE Trims(after[n - 1], limit)
    BY <2>1
  <2>3. 0 \in 0..N /\ \A n \in 1..N : n \in 0..N /\ n # 0
    BY <1>1
  <2>4. QED
    BY <2>2, <2>3
<1> DEFINE Good == {n \in 0..N : /\ after[n] \in S
                                 /\ WithinBudget(after[n], limit) \/ Len(after[n].playing) = N - n}
<1>10. 0 \in Good
  <2>1. Len(hub.playing) = N - 0 /\ 0 \in 0..N
    BY <1>1
  <2>2. QED
    BY <1>1, <1>9, <2>1
<1>11. ASSUME NEW n \in 0..N, n + 1 \in 0..N, n \in Good PROVE n + 1 \in Good
  <2> DEFINE h == after[n]
  <2>1. /\ n \in Nat /\ n + 1 \in 1..N /\ (n + 1) - 1 = n /\ N - (n + 1) = (N - n) - 1 /\ h \in S
        /\ WithinBudget(h, limit) \/ Len(h.playing) = N - n
    BY <1>1, <1>11
  <2>2. after[n + 1] = Trims(h, limit)
    BY <1>9, <2>1
  <2> HIDE DEF h
  <2>3. Trims(h, limit) \in S
    BY <1>2, <2>1
  <2>4. WithinBudget(Trims(h, limit), limit) \/ Len(Trims(h, limit).playing) = N - (n + 1)
    <3>1. HubHolds(h)
      BY <2>1 DEF S
    <3>2. CASE WithinBudget(h, limit)
      BY <3>1, <3>2, TrimsHolds, Zenon
    <3>3. CASE ~WithinBudget(h, limit)
      <4>1. Len(Trims(h, limit).playing) = Len(h.playing) - 1
        BY <3>1, <3>3, TrimsHolds, Zenon
      <4>2. QED
        BY <2>1, <3>3, <4>1
    <3>4. QED
      BY <3>2, <3>3
  <2>5. QED
    BY <1>11, <2>2, <2>3, <2>4
<1> HIDE DEF Good, N
<1>12. 0..N \subseteq Good
  BY <1>1, <1>10, <1>11, StepByStep
<1>13. N \in Good
  BY <1>1, <1>12
<1> DEFINE h == after[N]
<1>14. h \in S /\ (WithinBudget(h, limit) \/ Len(h.playing) = N - N)
  BY <1>13 DEF Good
<1> HIDE DEF h
<1>15. HubHolds(h) /\ Everyone(h) = Everyone(hub)
  BY <1>14 DEF S
<1>16. WithinBudget(h, limit)
  <2>1. CASE Len(h.playing) = N - N
    <3>1. h.playing \in Seq(Participant) /\ Len(h.playing) = 0
      BY <1>1, <1>15, <2>1 DEF HubHolds, Seats
    <3>2. h.playing = <<>>
      BY <3>1
    <3>3. QED
      BY <3>2, CostOfNone DEF WithinBudget
  <2>2. QED
    BY <1>14, <2>1
<1>17. QED
  BY <1>8, <1>15, <1>16 DEF h

-----------------------------------------------------------------------------
(* A newcomer takes a slot, or waits; waiting ones go; one leaves.          *)
LEMMA NewcomerSits ==
    ASSUME NEW p, NEW w, NEW d, Seats(p, w, d), NEW m \in Participant,
           \A x \in Range(p) \cup Range(w) : x.player # m.player /\ x.grant # m.grant
    PROVE  /\ Seats(Append(p, m), w, [d EXCEPT ![m.player] = m.grant])
           /\ Seats(p, Append(w, m), d)
           /\ Range(Append(p, m)) = Range(p) \cup {m} /\ Range(Append(w, m)) = Range(w) \cup {m}
           /\ CostSum(Append(p, m)) = CostSum(p) + Cost(m)
<1> DEFINE q == Append(p, m)
           v == Append(w, m)
           e == [d EXCEPT ![m.player] = m.grant]
<1>1. /\ p \in Seq(Participant) /\ w \in Seq(Participant) /\ AllApart(p) /\ AllApart(w)
      /\ d \in [Players -> {NoGrant} \cup 1..MaxGranted]
      /\ Range(p) \cap Range(w) = {}
      /\ \A x, y \in Range(p) \cup Range(w) : x.player = y.player \/ x.grant = y.grant => x = y
      /\ \A x \in Range(p) : d[x.player] = x.grant
      /\ \A r \in Players : (\A x \in Range(p) : x.player # r) => d[r] = NoGrant
  BY DEF Seats
<1>2. m \notin Range(p) /\ m \notin Range(w)
  OBVIOUS
<1>3. /\ q \in Seq(Participant) /\ AllApart(q) /\ Range(q) = Range(p) \cup {m}
      /\ CostSum(q) = CostSum(p) + Cost(m)
  <2>1. p \in Seq(Participant) /\ AllApart(p) /\ m \in Participant /\ m \notin Range(p)
    BY <1>1, <1>2
  <2>2. /\ Append(p, m) \in Seq(Participant) /\ AllApart(Append(p, m))
        /\ Range(Append(p, m)) = Range(p) \cup {m}
    BY <2>1, ApartWithLast
  <2>3. CostSum(Append(p, m)) = CostSum(p) + Cost(m)
    BY <2>1, CostOfMore
  <2>4. QED
    BY <2>2, <2>3, Zenon
<1>4. v \in Seq(Participant) /\ AllApart(v) /\ Range(v) = Range(w) \cup {m}
  <2>1. w \in Seq(Participant) /\ AllApart(w) /\ m \in Participant /\ m \notin Range(w)
    BY <1>1, <1>2
  <2>2. /\ Append(w, m) \in Seq(Participant) /\ AllApart(Append(w, m))
        /\ Range(Append(w, m)) = Range(w) \cup {m}
    BY <2>1, ApartWithLast
  <2>3. QED
    BY <2>2, Zenon
<1>5. m.player \in Players /\ m.grant \in 1..MaxGranted
  BY DEF Participant
<1>6. /\ e \in [Players -> {NoGrant} \cup 1..MaxGranted] /\ e[m.player] = m.grant
      /\ \A r \in Players : r # m.player => e[r] = d[r]
  BY <1>1, <1>5
<1>7. \A x \in Range(p) : x \in Participant /\ x.player \in Players
  <2>1. Range(p) \subseteq Participant
    BY <1>1, ElementsAreOf, Zenon
  <2>2. QED
    BY <2>1 DEF Participant
<1> HIDE DEF q, v, e
<1> DEFINE All == Range(p) \cup Range(w) \cup {m}
<1>8. \A x, y \in All : x.player = y.player \/ x.grant = y.grant => x = y
  BY <1>1
<1>9. Range(q) \cup Range(w) = All /\ Range(p) \cup Range(v) = All
  BY <1>3, <1>4
<1>10. Range(q) \cap Range(w) = {} /\ Range(p) \cap Range(v) = {}
  BY <1>1, <1>2, <1>3, <1>4
<1>11. \A x \in Range(q) : e[x.player] = x.grant
  BY <1>1, <1>3, <1>6, <1>7
<1>12. ASSUME NEW r \in Players, \A x \in Range(q) : x.player # r PROVE e[r] = NoGrant
  BY <1>1, <1>3, <1>6, <1>12
<1> HIDE DEF All
<1>13. \A x, y \in Range(q) \cup Range(w) : x.player = y.player \/ x.grant = y.grant => x = y
  BY <1>8, <1>9, Zenon
<1>14. \A x, y \in Range(p) \cup Range(v) : x.player = y.player \/ x.grant = y.grant => x = y
  BY <1>8, <1>9, Zenon
<1>15. Seats(q, w, e)
  BY <1>1, <1>3, <1>6, <1>10, <1>11, <1>12, <1>13 DEF Seats
<1>16. Seats(p, v, d)
  BY <1>1, <1>4, <1>10, <1>14 DEF Seats
<1>17. QED
  BY <1>3, <1>4, <1>15, <1>16 DEF q, v, e

LEMMA WaitersGo ==
    ASSUME NEW p, NEW w, NEW d, Seats(p, w, d), NEW gone
    PROVE  /\ Seats(p, Remaining(w, gone), d)
           /\ Range(Remaining(w, gone)) = Range(w) \ gone
<1> DEFINE v == Remaining(w, gone)
<1>1. /\ w \in Seq(Participant) /\ AllApart(w) /\ Range(p) \cap Range(w) = {}
      /\ \A x, y \in Range(p) \cup Range(w) : x.player = y.player \/ x.grant = y.grant => x = y
  BY DEF Seats
<1>2. v \in Seq(Participant) /\ AllApart(v) /\ Range(v) = Range(w) \ gone
  BY <1>1, ApartFromSome, Zenon
<1> HIDE DEF v
<1>3. Range(p) \cap Range(v) = {}
  BY <1>1, <1>2
<1>4. \A x, y \in Range(p) \cup Range(v) : x.player = y.player \/ x.grant = y.grant => x = y
  BY <1>1, <1>2
<1>5. Seats(p, v, d)
  BY <1>2, <1>3, <1>4 DEF Seats
<1>6. QED
  BY <1>2, <1>5 DEF v

LEMMA PlayerLeaves ==
    ASSUME NEW p, NEW w, NEW d, Seats(p, w, d), NEW r \in Players
    PROVE  /\ Seats(Without(p, r), Without(w, r), [d EXCEPT ![r] = NoGrant])
           /\ Range(Without(p, r)) \subseteq Range(p) /\ Range(Without(w, r)) \subseteq Range(w)
           /\ CostSum(Without(p, r)) <= CostSum(p)
<1> DEFINE gone == {m \in Participant : m.player = r}
           q == Without(p, r)
           v == Without(w, r)
           e == [d EXCEPT ![r] = NoGrant]
<1>1. /\ p \in Seq(Participant) /\ w \in Seq(Participant) /\ AllApart(p) /\ AllApart(w)
      /\ d \in [Players -> {NoGrant} \cup 1..MaxGranted]
      /\ Range(p) \cap Range(w) = {}
      /\ \A x, y \in Range(p) \cup Range(w) : x.player = y.player \/ x.grant = y.grant => x = y
      /\ \A x \in Range(p) : d[x.player] = x.grant
      /\ \A t \in Players : (\A x \in Range(p) : x.player # t) => d[t] = NoGrant
  BY DEF Seats
<1>2. q = Remaining(p, gone) /\ v = Remaining(w, gone)
  BY DEF Without
<1>3. Range(p) \subseteq Participant
  BY <1>1, ElementsAreOf, Zenon
<1> HIDE DEF gone, q, v
<1>4. q \in Seq(Participant) /\ AllApart(q) /\ Range(q) = Range(p) \ gone
  <2>1. /\ Remaining(p, gone) \in Seq(Participant) /\ AllApart(Remaining(p, gone))
        /\ Range(Remaining(p, gone)) = Range(p) \ gone
    BY <1>1, ApartFromSome
  <2>2. QED
    BY <1>2, <2>1, Zenon
<1>5. v \in Seq(Participant) /\ AllApart(v) /\ Range(v) = Range(w) \ gone
  <2>1. /\ Remaining(w, gone) \in Seq(Participant) /\ AllApart(Remaining(w, gone))
        /\ Range(Remaining(w, gone)) = Range(w) \ gone
    BY <1>1, ApartFromSome
  <2>2. QED
    BY <1>2, <2>1, Zenon
<1>6. CostSum(q) <= CostSum(p)
  BY <1>1, <1>2, CostOfFewer, Zenon
<1>7. e \in [Players -> {NoGrant} \cup 1..MaxGranted] /\ e[r] = NoGrant /\ \A t \in Players : t # r => e[t] = d[t]
  BY <1>1
<1> HIDE DEF e
<1>8. \A x \in Range(p) : x \in Range(q) <=> x.player # r
  BY <1>3, <1>4 DEF gone
<1>9. \A x \in Range(p) : x.player \in Players
  BY <1>3 DEF Participant
<1>10. \A x \in Range(q) : e[x.player] = x.grant
  BY <1>1, <1>4, <1>7, <1>8, <1>9
<1>11. ASSUME NEW t \in Players, \A x \in Range(q) : x.player # t PROVE e[t] = NoGrant
  <2>1. CASE t = r
    BY <1>7, <2>1
  <2>2. CASE t # r
    <3>1. \A x \in Range(p) : x.player # t
      BY <1>8, <1>11, <2>2
    <3>2. QED
      BY <1>1, <1>7, <2>2, <3>1
  <2>3. QED
    BY <2>1, <2>2
<1>12. Range(q) \cap Range(v) = {}
  BY <1>1, <1>4, <1>5
<1>13. \A x, y \in Range(q) \cup Range(v) : x.player = y.player \/ x.grant = y.grant => x = y
  BY <1>1, <1>4, <1>5
<1>14. Seats(q, v, e)
  BY <1>4, <1>5, <1>7, <1>10, <1>11, <1>12, <1>13 DEF Seats
<1>15. QED
  BY <1>4, <1>5, <1>6, <1>14 DEF q, v, e

(* One who plays changes its kind, and keeps its grant.                     *)
LEMMA KindChanges ==
    ASSUME NEW p, NEW w, NEW d, Seats(p, w, d), NEW k \in 1..Len(p), NEW m \in Participant,
           m.player = p[k].player, m.grant = p[k].grant
    PROVE  /\ Seats(Another(p, k, m), w, d)
           /\ Range(Another(p, k, m)) = (Range(p) \ {p[k]}) \cup {m}
           /\ Cost(m) = Cost(p[k]) => CostSum(Another(p, k, m)) = CostSum(p)
<1> DEFINE q == Another(p, k, m)
           o == p[k]
<1>1. /\ p \in Seq(Participant) /\ w \in Seq(Participant) /\ AllApart(p) /\ AllApart(w)
      /\ d \in [Players -> {NoGrant} \cup 1..MaxGranted]
      /\ Range(p) \cap Range(w) = {}
      /\ \A x, y \in Range(p) \cup Range(w) : x.player = y.player \/ x.grant = y.grant => x = y
      /\ \A x \in Range(p) : d[x.player] = x.grant
      /\ \A t \in Players : (\A x \in Range(p) : x.player # t) => d[t] = NoGrant
  BY DEF Seats
<1>2. o \in Range(p) /\ m.player = o.player /\ m.grant = o.grant
  BY <1>1, ElementsOf
<1>3. \A x \in Range(p) \cup Range(w) : x # o => x.player # m.player /\ x.grant # m.grant /\ x # m
  BY <1>1, <1>2
<1>4. \A y \in Range(p) : y # p[k] => y # m
  BY <1>3
<1>5. q \in Seq(Participant) /\ Len(q) = Len(p) /\ AllApart(q) /\ Range(q) = (Range(p) \ {p[k]}) \cup {m}
  <2>1. /\ p \in Seq(Participant) /\ AllApart(p) /\ k \in 1..Len(p) /\ m \in Participant
        /\ \A y \in Range(p) : y # p[k] => y # m
    BY <1>1, <1>4
  <2> HIDE DEF q, o
  <2>2. Another(p, k, m) \in Seq(Participant) /\ AllApart(Another(p, k, m))
    BY <2>1, ApartWithAnother
  <2>3. Len(Another(p, k, m)) = Len(p)
    BY <2>1, ApartWithAnother
  <2>4. Range(Another(p, k, m)) = (Range(p) \ {p[k]}) \cup {m}
    BY <2>1, ApartWithAnother
  <2>5. QED
    BY <2>2, <2>3, <2>4 DEF q
<1>6. ASSUME Cost(m) = Cost(p[k]) PROVE CostSum(q) = CostSum(p)
  <2>1. \A i \in 1..Len(p) : q[i] = IF i = k THEN m ELSE p[i]
    BY <1>1, ExceptSeq DEF Another
  <2>2. \A i \in 1..Len(q) : Cost(q[i]) = Cost(p[i])
    BY <1>5, <1>6, <2>1
  <2> HIDE DEF q
  <2>3. QED
    BY <1>1, <1>5, <2>2, CostOfSame, Zenon
<1> HIDE DEF q
<1>7. Range(q) = (Range(p) \ {o}) \cup {m}
  BY <1>5
<1> HIDE DEF o
<1>8. Range(q) \cap Range(w) = {}
  BY <1>1, <1>2, <1>3, <1>7
<1>9. \A x, y \in Range(q) \cup Range(w) : x.player = y.player \/ x.grant = y.grant => x = y
  <2>1. \A x \in Range(q) \cup Range(w) : x = m \/ (x \in Range(p) \cup Range(w) /\ x # o)
    BY <1>1, <1>2, <1>7
  <2>2. QED
    BY <1>1, <1>3, <2>1
<1>10. \A x \in Range(q) : d[x.player] = x.grant
  BY <1>1, <1>2, <1>7
<1>11. ASSUME NEW t \in Players, \A x \in Range(q) : x.player # t PROVE d[t] = NoGrant
  <2>1. \A x \in Range(p) : x.player # t
    BY <1>2, <1>7, <1>11
  <2>2. QED
    BY <1>1, <2>1
<1>12. Seats(q, w, d)
  BY <1>1, <1>5, <1>8, <1>9, <1>10, <1>11 DEF Seats
<1>13. QED
  BY <1>5, <1>6, <1>12 DEF q

-----------------------------------------------------------------------------
All == Range(playing) \cup Range(waiting)
Spending(p, w, limit) == CostSum(p) <= limit /\ NoneFits(p, w, limit)
HubInv ==
    /\ Seats(playing, waiting, drawsUnder)
    /\ budget \in {0, NominalBudget} /\ nextGrant \in 0..MaxGranted /\ repriced \in BOOLEAN
    /\ \A x \in All : x.grant <= nextGrant
    /\ repriced \/ Spending(playing, waiting, budget)

LEMMA HubInvTypes ==
    ASSUME HubInv
    PROVE  /\ playing \in Seq(Participant) /\ waiting \in Seq(Participant)
           /\ budget \in Nat /\ nextGrant \in Nat /\ MaxGranted \in Nat /\ CostSum(playing) \in Nat
           /\ DOMAIN playing = 1..Len(playing) /\ All \subseteq Participant
           /\ \A x \in All : x.grant <= nextGrant /\ x.grant \in Nat
           /\ \A x \in Range(waiting) : Cost(x) \in Nat /\ Cost(x) > 0
<1>1. /\ playing \in Seq(Participant) /\ waiting \in Seq(Participant)
      /\ budget \in Nat /\ nextGrant \in Nat /\ MaxGranted \in Nat
  BY CostsAssumption DEF HubInv, Seats
<1>2. CostSum(playing) \in Nat /\ DOMAIN playing = 1..Len(playing)
  BY <1>1, CostSumIsNat
<1>3. Range(playing) \subseteq Participant /\ Range(waiting) \subseteq Participant
  BY <1>1, ElementsAreOf, Zenon
<1>4. All \subseteq Participant
  BY <1>3 DEF All
<1>5. \A x \in All : x.grant <= nextGrant /\ x.grant \in Nat
  BY <1>4 DEF HubInv, Participant
<1>6. \A x \in Range(waiting) : Cost(x) \in Nat /\ Cost(x) > 0
  BY <1>3, CostIsNat
<1>7. QED
  BY <1>1, <1>2, <1>4, <1>5, <1>6

(* A hub that holds, whose members are ones there were, and that spends.    *)
LEMMA HubBecomes ==
    ASSUME HubInv, NEW hub, Becomes(hub), HubHolds(hub), Everyone(hub) \subseteq All,
           nextGrant' = nextGrant, budget' \in {0, NominalBudget}, repriced' \in BOOLEAN,
           repriced' \/ (WithinBudget(hub, budget') /\ Fitting(hub, budget') = {})
    PROVE  HubInv'
<1>1. playing' = hub.playing /\ waiting' = hub.waiting /\ drawsUnder' = hub.drawsUnder
  BY DEF Becomes
<1>2. Seats(playing', waiting', drawsUnder') /\ hub.waiting \in Seq(Participant)
  BY <1>1 DEF HubHolds, Seats
<1>3. \A x \in Range(playing') \cup Range(waiting') : x.grant <= nextGrant
  BY <1>1 DEF Everyone, HubInv
<1>4. repriced' \/ Spending(playing', waiting', budget')
  <2>1. CASE WithinBudget(hub, budget') /\ Fitting(hub, budget') = {}
    <3>1. NoneFits(hub.playing, hub.waiting, budget')
      BY <1>2, <2>1, FittingIs
    <3>2. QED
      BY <1>1, <2>1, <3>1 DEF WithinBudget, Spending
  <2>2. QED
    BY <2>1
<1>5. QED
  BY <1>2, <1>3, <1>4 DEF HubInv, All

LEMMA AgainKeeps ==
    ASSUME HubInv, NEW p \in Players, NEW kind \in Kinds, RequestSlotAgain(p, kind)
    PROVE  HubInv'
<1>1. PICK i \in DOMAIN playing :
        /\ playing[i].player = p /\ playing' = [playing EXCEPT ![i].kind = kind]
        /\ repriced' = (repriced \/ CostOf[kind] # Cost(playing[i]))
        /\ UNCHANGED <<waiting, budget, nextGrant, drawsUnder>>
  BY DEF RequestSlotAgain
<1> DEFINE m == [playing[i] EXCEPT !.kind = kind]
<1>2. i \in 1..Len(playing) /\ playing[i] \in Participant /\ playing[i] \in Range(playing)
  BY <1>1, HubInvTypes, ElementsOf
<1>3. m \in Participant /\ m.player = playing[i].player /\ m.grant = playing[i].grant /\ Cost(m) = CostOf[kind]
  BY <1>2 DEF Participant, Cost
<1>4. playing' = Another(playing, i, m)
  BY <1>1 DEF Another
<1> HIDE DEF m
<1>5. /\ Seats(Another(playing, i, m), waiting, drawsUnder)
      /\ Range(Another(playing, i, m)) = (Range(playing) \ {playing[i]}) \cup {m}
      /\ Cost(m) = Cost(playing[i]) => CostSum(Another(playing, i, m)) = CostSum(playing)
  BY <1>2, <1>3, KindChanges DEF HubInv
<1>6. Seats(playing', waiting', drawsUnder')
  BY <1>1, <1>4, <1>5
<1>7. \A x \in Range(playing') \cup Range(waiting') : x.grant <= nextGrant
  BY <1>1, <1>2, <1>3, <1>4, <1>5 DEF HubInv, All
<1>8. repriced' \/ Spending(playing', waiting', budget')
  <2>1. CASE ~repriced /\ CostOf[kind] = Cost(playing[i])
    <3>1. CostSum(playing') = CostSum(playing)
      BY <1>3, <1>4, <1>5, <2>1
    <3>2. QED
      BY <1>1, <2>1, <3>1 DEF HubInv, Spending, NoneFits
  <2>2. CASE repriced \/ CostOf[kind] # Cost(playing[i])
    BY <1>1, <2>2, Zenon
  <2>3. QED
    BY <2>1, <2>2
<1>9. repriced' \in BOOLEAN
  BY <1>1
<1>10. QED
  BY <1>1, <1>6, <1>7, <1>8, <1>9 DEF HubInv, All

LEMMA RequestKeeps ==
    ASSUME HubInv, NEW p \in Players, NEW kind \in Kinds, RequestSlot(p, kind)
    PROVE  HubInv'
<1> DEFINE n == nextGrant + 1
           m == [player |-> p, grant |-> nextGrant + 1, kind |-> kind]
           v == Without(waiting, p)
           gone == {x \in Participant : x.player = p}
           hub == [Hub EXCEPT !.waiting = v]
           fits == CostSum(playing) + CostOf[kind] <= budget
<1>1. /\ p \notin PlayersIn(playing) /\ nextGrant < MaxGranted /\ nextGrant' = n
      /\ UNCHANGED <<budget, repriced>>
      /\ Becomes(IF fits THEN Granted(hub, m) ELSE [hub EXCEPT !.waiting = Append(v, m)])
  BY DEF RequestSlot, Hub
<1>2. hub = [playing |-> playing, waiting |-> v, drawsUnder |-> drawsUnder]
  BY DEF Hub
<1>3. m \in Participant /\ m.player = p /\ m.grant = n /\ m.kind = kind /\ n \in 1..MaxGranted /\ Cost(m) = CostOf[kind]
  BY <1>1, HubInvTypes DEF Participant, Cost
<1>4. Seats(playing, v, drawsUnder) /\ Range(v) = Range(waiting) \ gone
  BY WaitersGo DEF HubInv, Without
<1>5. ASSUME fits
      PROVE  /\ playing' = Append(playing, m) /\ waiting' = v
             /\ drawsUnder' = [drawsUnder EXCEPT ![m.player] = m.grant]
  <2> HIDE DEF m, v, fits
  <2>1. Becomes(Granted(hub, m))
    BY <1>1, <1>5
  <2>2. QED
    BY <1>2, <2>1 DEF Becomes, Granted
<1>6. ASSUME ~fits
      PROVE  playing' = playing /\ waiting' = Append(v, m) /\ drawsUnder' = drawsUnder
  <2> HIDE DEF m, v, fits
  <2>1. Becomes([hub EXCEPT !.waiting = Append(v, m)])
    BY <1>1, <1>6
  <2>2. QED
    BY <1>2, <2>1 DEF Becomes
<1>7. \A x \in Range(playing) \cup Range(v) : x.player # p /\ x.grant # n /\ x.grant <= n
  <2>1. \A x \in Range(playing) : x.player # p
    BY <1>1, HubInvTypes DEF PlayersIn, Range
  <2>2. \A x \in Range(v) : x.player # p
    BY <1>4, HubInvTypes DEF All
  <2>3. \A x \in Range(playing) \cup Range(v) : x.grant # n /\ x.grant <= n
    <3>1. \A x \in Range(playing) \cup Range(v) : x.grant <= nextGrant /\ x.grant \in Nat
      BY <1>4, HubInvTypes DEF All
    <3>2. QED
      BY <3>1, HubInvTypes
  <2>4. QED
    BY <2>1, <2>2, <2>3
<1> HIDE DEF m, v, gone, hub
<1>8. /\ Seats(Append(playing, m), v, [drawsUnder EXCEPT ![m.player] = m.grant])
      /\ Seats(playing, Append(v, m), drawsUnder)
      /\ Range(Append(playing, m)) = Range(playing) \cup {m} /\ Range(Append(v, m)) = Range(v) \cup {m}
      /\ CostSum(Append(playing, m)) = CostSum(playing) + Cost(m)
  BY <1>3, <1>4, <1>7, NewcomerSits
<1>9. Cost(m) \in Nat /\ Cost(m) > 0
  BY <1>3, CostIsNat
<1>10. n \in 0..MaxGranted /\ n <= n
  BY <1>3, HubInvTypes
<1> HIDE DEF n, fits
<1>11. ASSUME NEW x \in Range(playing') \cup Range(waiting') PROVE x.grant <= n
  <2>1. x \in Range(playing) \cup Range(v) \cup {m}
    BY <1>5, <1>6, <1>8
  <2>2. QED
    BY <1>3, <1>7, <1>10, <2>1
<1>12. CASE fits
  <2>1. Seats(playing', waiting', drawsUnder')
    BY <1>5, <1>8, <1>12
  <2>2. CostSum(playing) + Cost(m) <= budget
    BY <1>3, <1>12 DEF fits
  <2>3. ASSUME Spending(playing, waiting, budget) PROVE Spending(playing', waiting', budget)
    <3>1. CostSum(playing') = CostSum(playing) + Cost(m)
      BY <1>5, <1>8, <1>12
    <3>2. ASSUME NEW x \in Range(waiting') PROVE ~(CostSum(playing') + Cost(x) <= budget)
      <4>1. x \in Range(waiting)
        BY <1>4, <1>5, <1>12
      <4>2. ~(CostSum(playing) + Cost(x) <= budget) /\ Cost(x) \in Nat
        BY <2>3, <4>1, HubInvTypes DEF Spending, NoneFits
      <4>3. QED
        BY <1>9, <3>1, <4>2, HubInvTypes
    <3>3. QED
      BY <2>2, <3>1, <3>2 DEF Spending, NoneFits
  <2>4. repriced' \/ Spending(playing', waiting', budget')
    BY <1>1, <2>3, Zenon DEF HubInv
  <2>5. budget' \in {0, NominalBudget} /\ repriced' \in BOOLEAN
    BY <1>1 DEF HubInv
  <2>6. QED
    BY <1>1, <1>10, <1>11, <2>1, <2>4, <2>5 DEF HubInv, All
<1>13. CASE ~fits
  <2>1. Seats(playing', waiting', drawsUnder')
    BY <1>6, <1>8, <1>13
  <2>2. ~(CostSum(playing) + Cost(m) <= budget)
    BY <1>3, <1>13 DEF fits
  <2>3. ASSUME Spending(playing, waiting, budget) PROVE Spending(playing', waiting', budget)
    <3>1. \A x \in Range(waiting') : x = m \/ x \in Range(waiting)
      BY <1>4, <1>6, <1>8, <1>13
    <3>2. \A x \in Range(waiting') : ~(CostSum(playing) + Cost(x) <= budget)
      BY <2>2, <2>3, <3>1 DEF Spending, NoneFits
    <3>3. QED
      BY <1>6, <1>13, <2>3, <3>2 DEF Spending, NoneFits
  <2>4. repriced' \/ Spending(playing', waiting', budget')
    BY <1>1, <2>3, Zenon DEF HubInv
  <2>5. budget' \in {0, NominalBudget} /\ repriced' \in BOOLEAN
    BY <1>1 DEF HubInv
  <2>6. QED
    BY <1>1, <1>10, <1>11, <2>1, <2>4, <2>5 DEF HubInv, All
<1>14. QED
  BY <1>12, <1>13

LEMMA ReleaseKeeps ==
    ASSUME HubInv, NEW p \in Players, ReleaseSlot(p)
    PROVE  HubInv'
<1> DEFINE q == Without(playing, p)
           v == Without(waiting, p)
           e == [drawsUnder EXCEPT ![p] = NoGrant]
           hub == [playing |-> q, waiting |-> v, drawsUnder |-> e]
<1>1. Becomes(Filled(hub, budget)) /\ UNCHANGED <<budget, nextGrant, repriced>>
  BY DEF ReleaseSlot
<1>2. /\ Seats(q, v, e) /\ Range(q) \subseteq Range(playing) /\ Range(v) \subseteq Range(waiting)
      /\ CostSum(q) <= CostSum(playing)
  BY PlayerLeaves DEF HubInv
<1> HIDE DEF q, v, e
<1>3. HubHolds(hub)
  BY <1>2 DEF HubHolds
<1>4. Everyone(hub) \subseteq All
  BY <1>2 DEF Everyone, All
<1>5. hub.playing = q
  OBVIOUS
<1> HIDE DEF hub
<1>6. budget \in Nat /\ CostSum(playing) \in Nat /\ CostSum(q) \in Nat
  BY <1>2, HubInvTypes, CostSumIsNat DEF Seats
<1>7. /\ HubHolds(Filled(hub, budget)) /\ Everyone(Filled(hub, budget)) \subseteq All
      /\ WithinBudget(hub, budget) => WithinBudget(Filled(hub, budget), budget)
      /\ Fitting(Filled(hub, budget), budget) = {}
  BY <1>3, <1>4, <1>6, FilledHolds
<1>8. Spending(playing, waiting, budget) => WithinBudget(hub, budget)
  BY <1>2, <1>5, <1>6 DEF Spending, WithinBudget
<1>9. repriced' \/ (WithinBudget(Filled(hub, budget), budget') /\ Fitting(Filled(hub, budget), budget') = {})
  BY <1>1, <1>7, <1>8, Zenon DEF HubInv
<1>10. budget' \in {0, NominalBudget} /\ repriced' \in BOOLEAN
  BY <1>1 DEF HubInv
<1>11. QED
  BY <1>1, <1>7, <1>9, <1>10, HubBecomes, Zenon

LEMMA ConditionsKeep ==
    ASSUME HubInv, NEW limit \in {0, NominalBudget}, SetConditions(limit)
    PROVE  HubInv'
<1> DEFINE trimmed == Trimmed(Hub, limit)
           hub == Filled(trimmed, limit)
<1>1. budget' = limit /\ Becomes(hub) /\ repriced' = FALSE /\ nextGrant' = nextGrant
  BY DEF SetConditions
<1>2. limit \in Nat
  BY CostsAssumption
<1>3. HubHolds(Hub) /\ Everyone(Hub) = All
  BY DEF HubInv, HubHolds, Hub, Everyone, All
<1>4. HubHolds(trimmed) /\ Everyone(trimmed) = All /\ WithinBudget(trimmed, limit)
  BY <1>2, <1>3, TrimmedHolds
<1> HIDE DEF trimmed
<1>5. /\ HubHolds(hub) /\ Everyone(hub) = All /\ WithinBudget(hub, limit) /\ Fitting(hub, limit) = {}
  BY <1>2, <1>4, FilledHolds
<1> HIDE DEF hub
<1>6. Everyone(hub) \subseteq All /\ budget' \in {0, NominalBudget} /\ repriced' \in BOOLEAN
  BY <1>1, <1>5
<1>7. WithinBudget(hub, budget') /\ Fitting(hub, budget') = {}
  BY <1>1, <1>5
<1>8. QED
  BY <1>1, <1>5, <1>6, <1>7, HubBecomes, Zenon

-----------------------------------------------------------------------------
LEMMA HubInvInit == HubInit => HubInv
<1>1. SUFFICES ASSUME HubInit PROVE HubInv
  OBVIOUS
<1>2. /\ playing = <<>> /\ waiting = <<>> /\ budget = NominalBudget /\ nextGrant = 0
      /\ drawsUnder = [p \in Players |-> NoGrant] /\ repriced = FALSE
  BY <1>1 DEF HubInit
<1>3. Range(playing) = {} /\ Range(waiting) = {}
  BY <1>2 DEF Range
<1>4. playing \in Seq(Participant) /\ waiting \in Seq(Participant) /\ AllApart(playing) /\ AllApart(waiting)
  BY <1>2 DEF AllApart
<1>5. drawsUnder \in [Players -> {NoGrant} \cup 1..MaxGranted] /\ \A q \in Players : drawsUnder[q] = NoGrant
  BY <1>2
<1>6. Seats(playing, waiting, drawsUnder)
  BY <1>3, <1>4, <1>5 DEF Seats
<1>7. Spending(playing, waiting, budget)
  <2>1. CostSum(playing) = 0 /\ budget \in Nat
    BY <1>2, CostOfNone, CostsAssumption
  <2>2. QED
    BY <1>3, <2>1 DEF Spending, NoneFits
<1>8. nextGrant \in 0..MaxGranted
  BY <1>2, CostsAssumption
<1>9. QED
  BY <1>2, <1>3, <1>6, <1>7, <1>8 DEF HubInv, All

LEMMA HubInvStep == HubInv /\ [HubNext]_hubVars => HubInv'
<1>1. SUFFICES ASSUME HubInv, [HubNext]_hubVars PROVE HubInv'
  OBVIOUS
<1>2. CASE HubNext
  BY <1>1, <1>2, AgainKeeps, RequestKeeps, ReleaseKeeps, ConditionsKeep DEF HubNext
<1>3. CASE UNCHANGED hubVars
  BY <1>1, <1>3 DEF hubVars, HubInv, Seats, All, Spending, NoneFits
<1>4. QED
  BY <1>1, <1>2, <1>3

LEMMA HubInvShows == HubInv => HubTypeOK /\ SlotsAreSpent
<1>1. SUFFICES ASSUME HubInv PROVE HubTypeOK /\ SlotsAreSpent
  OBVIOUS
<1>2. HubTypeOK
  BY <1>1 DEF HubInv, HubTypeOK, Seats
<1> DEFINE n == Len(playing)
           k == Len(waiting)
           all == playing \o waiting
<1>3. /\ playing \in Seq(Participant) /\ waiting \in Seq(Participant) /\ n \in Nat /\ k \in Nat
      /\ \A a, b \in 1..n : playing[a] = playing[b] => a = b
      /\ \A a, b \in 1..k : waiting[a] = waiting[b] => a = b
      /\ Range(playing) \cap Range(waiting) = {}
      /\ \A x, y \in All : x.player = y.player \/ x.grant = y.grant => x = y
      /\ \A x \in Range(playing) : drawsUnder[x.player] = x.grant
      /\ \A q \in Players : (\A x \in Range(playing) : x.player # q) => drawsUnder[q] = NoGrant
  BY <1>1 DEF HubInv, Seats, AllApart, All
<1>4. (\A i \in 1..n : playing[i] \in Range(playing)) /\ (\A i \in 1..k : waiting[i] \in Range(waiting))
      /\ \A x \in Range(playing) : \E i \in 1..n : x = playing[i]
  BY <1>3, ElementsOf
<1>5. /\ DOMAIN all = 1..(n + k) /\ DOMAIN playing = 1..n
      /\ \A i \in 1..(n + k) : all[i] = IF i <= n THEN playing[i] ELSE waiting[i - n]
  BY <1>3, ConcatProperties
<1> HIDE DEF n, k, all
<1>6. ASSUME NEW i \in 1..(n + k), NEW j \in 1..(n + k),
             all[i].player = all[j].player \/ all[i].grant = all[j].grant
      PROVE  i = j
  <2>1. \A h \in 1..(n + k) : /\ h \in Nat
                              /\ \/ h \in 1..n /\ all[h] = playing[h]
                                 \/ h - n \in 1..k /\ all[h] = waiting[h - n]
    BY <1>3, <1>5
  <2>2. \A h \in 1..(n + k) : all[h] \in All
    BY <1>4, <2>1 DEF All
  <2>3. all[i] = all[j]
    BY <1>3, <1>6, <2>2
  <2>4. QED
    BY <1>3, <1>4, <2>1, <2>3
<1>7. \A i \in DOMAIN playing : drawsUnder[playing[i].player] = playing[i].grant
  BY <1>3, <1>4, <1>5
<1>8. ASSUME NEW q \in Players, q \notin PlayersIn(playing) PROVE drawsUnder[q] = NoGrant
  <2>1. \A x \in Range(playing) : x.player # q
    BY <1>4, <1>5, <1>8 DEF PlayersIn
  <2>2. QED
    BY <1>3, <2>1
<1>9. ~repriced => CostSum(playing) <= budget /\ Fitting(Hub, budget) = {}
  <2>1. Hub.playing = playing /\ Hub.waiting = waiting
    BY DEF Hub
  <2>2. Fitting(Hub, budget) = {} <=> NoneFits(playing, waiting, budget)
    BY <1>3, <2>1, FittingIs
  <2>3. QED
    BY <1>1, <2>2, Zenon DEF HubInv, Spending
<1>10. SlotsAreSpent
  BY <1>5, <1>6, <1>7, <1>8, <1>9 DEF SlotsAreSpent, all
<1>11. QED
  BY <1>2, <1>10

(* Whatever players ask for and however the conditions change: everyone     *)
(* plays or waits once and under a grant of its own, the host knows them    *)
(* all, and the budget is kept and used while nobody changes its cost       *)
(* (PlaybackHub).                                                           *)
THEOREM SlotsStaySpent == HubSpec => [](HubTypeOK /\ SlotsAreSpent)
  BY HubInvInit, HubInvStep, HubInvShows, PTL DEF HubSpec
=============================================================================
