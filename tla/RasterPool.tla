----------------------------- MODULE RasterPool -----------------------------
(***************************************************************************)
(* The threads that draw the frames of animations, and the cache of the    *)
(* animations they draw.  A frame is asked for at most once at a time; the *)
(* queue drops its oldest request when it is full.  What a sequence keeps  *)
(* grows only here, so a worker prices the cache after every frame and     *)
(* tears down what does not fit, outside the lock of the cache.            *)
(***************************************************************************)
EXTENDS Integers, Sequences, FiniteSets, Functions, Removal

CONSTANTS
    Keys, Frames, Workers,
    AnimationViews,            \* the players that draw the animations
    MaximumPending,     \* MAXIMUM_PENDING, 256 in the code
    CacheCeiling,       \* ceiling_bytes, in frames
    MaximumResident,    \* MAXIMUM_RESIDENT_SEQUENCES, 96 in the code
    SequenceCeiling,    \* MAXIMUM_BYTES_PER_SEQUENCE, in frames
    DecodedCeiling,     \* the ceiling of the decoded frames, in frames
    MaxSequences,       \* bound: sequences opened
    MaxRequests         \* bound: frames asked for

ASSUME RasterAssumption ==
    /\ IsFiniteSet(Keys) /\ IsFiniteSet(Frames) /\ IsFiniteSet(Workers) /\ IsFiniteSet(AnimationViews)
    /\ {MaximumPending, CacheCeiling, MaximumResident, SequenceCeiling, DecodedCeiling} \subseteq Nat
    /\ {MaxSequences, MaxRequests} \subseteq Nat /\ MaximumPending > 0

VARIABLES
    entries,            \* entries[k]: the resident sequence of k, or 0
    lastUse,            \* lastUse[k]: how many keys were used since k was
    priced,             \* priced[k]: what the entry of k is charged
    bytes,              \* the ledger of the cache
    retained,           \* retained[k]: how many players hold k
    keyOf,              \* the key of every sequence opened so far
    tornDown,           \* the sequences that refuse work
    compressed,         \* compressed[n]: the frames sequence n keeps
    decoded,            \* decoded frames by use, the latest last
    queued, inflight,   \* the queue of the pool
    asking,             \* a request between its look and the queue
    worker,             \* worker[w]: what w does, for which job
    releasing,          \* the sequences release_unretained has yet to tear down
    draws,              \* draws[v]: the sequence view v opened, or 0
    holds,              \* holds[v]: it retained the key, "safe" while it was resident
    relaxed,            \* a key was released since the last sweep
    frameRequests

cacheVars == <<entries, lastUse, priced, bytes, retained>>
sequenceVars == <<keyOf, tornDown, compressed, decoded>>
poolVars == <<queued, inflight, asking, frameRequests>>
viewVars == <<draws, holds>>
rasterVars == <<cacheVars, sequenceVars, poolVars, worker, releasing, viewVars, relaxed>>

Ids == 1..MaxSequences
FrameJob == Ids \X Frames
Idling == [at |-> "free"]

RasterTypeOK ==
    /\ entries \in [Keys -> Ids \cup {0}] /\ bytes \in Nat
    /\ lastUse \in [Keys -> 0..Cardinality(Keys)]
    /\ priced \in [Keys -> Nat]
    /\ retained \in [Keys -> Nat]
    /\ keyOf \in Seq(Keys) /\ Len(keyOf) <= MaxSequences
    /\ tornDown \subseteq Ids /\ compressed \in [Ids -> SUBSET Frames]
    /\ decoded \in Seq(Keys \X Frames)
    /\ queued \in Seq(FrameJob) /\ Len(queued) <= MaximumPending
    /\ inflight \subseteq Keys \X Frames
    /\ asking \in FrameJob \cup {<<>>}
    /\ \A w \in Workers : worker[w].at \in
          {"free", "taken", "looking", "drawing", "keeping", "showing", "sweeping", "tearing", "done"}
    /\ releasing \subseteq Ids
    /\ draws \in [AnimationViews -> Ids \cup {0}] /\ holds \in [AnimationViews -> {"no", "late", "safe"}]
    /\ relaxed \in BOOLEAN /\ frameRequests \in 0..MaxRequests

RasterInit ==
    /\ entries = [k \in Keys |-> 0] /\ bytes = 0
    /\ lastUse = [k \in Keys |-> Cardinality(Keys)]
    /\ priced = [k \in Keys |-> 0]
    /\ retained = [k \in Keys |-> 0]
    /\ keyOf = <<>> /\ tornDown = {} /\ compressed = [n \in Ids |-> {}] /\ decoded = <<>>
    /\ queued = <<>> /\ inflight = {} /\ asking = <<>> /\ frameRequests = 0
    /\ worker = [w \in Workers |-> Idling]
    /\ releasing = {}
    /\ draws = [v \in AnimationViews |-> 0] /\ holds = [v \in AnimationViews |-> "no"]
    /\ relaxed = FALSE

UsedNow(k) ==
    [j \in Keys |-> IF j = k THEN 0 ELSE IF lastUse[j] < lastUse[k] THEN lastUse[j] + 1 ELSE lastUse[j]]
Latest(order, x) == Append(Remaining(order, {x}), x)
NameOf(job) == <<keyOf[job[1]], job[2]>>
IsDecoded(name) == name \in Range(decoded)
Resident == {k \in Keys : entries[k] # 0}

-----------------------------------------------------------------------------
(* A view opens a sequence, and declares its interest in a second call.   *)
OpenSequence(v, k) ==
    /\ draws[v] = 0
    /\ lastUse' = UsedNow(k)
    /\ IF entries[k] # 0
         THEN draws' = [draws EXCEPT ![v] = entries[k]] /\ UNCHANGED <<entries, priced, keyOf>>
         ELSE /\ Len(keyOf) < MaxSequences /\ keyOf' = Append(keyOf, k)
              /\ entries' = [entries EXCEPT ![k] = Len(keyOf')]
              /\ priced' = [priced EXCEPT ![k] = 0]
              /\ draws' = [draws EXCEPT ![v] = Len(keyOf')]
    /\ UNCHANGED <<bytes, retained, tornDown, compressed, decoded, poolVars, worker, releasing, holds, relaxed>>

Retain(v) ==
    /\ draws[v] # 0 /\ holds[v] = "no"
    /\ LET k == keyOf[draws[v]] IN
       /\ retained' = [retained EXCEPT ![k] = @ + 1]
       /\ lastUse' = IF entries[k] # 0 THEN UsedNow(k) ELSE lastUse
       /\ holds' = [holds EXCEPT ![v] = IF entries[k] = draws[v] THEN "safe" ELSE "late"]
    /\ UNCHANGED <<entries, priced, bytes, sequenceVars, poolVars, worker, releasing, draws, relaxed>>

ReleaseKey(v) ==
    /\ holds[v] # "no"
    /\ retained' = [retained EXCEPT ![keyOf[draws[v]]] = @ - 1]
    /\ relaxed' = TRUE
    /\ draws' = [draws EXCEPT ![v] = 0] /\ holds' = [holds EXCEPT ![v] = "no"]
    /\ UNCHANGED <<entries, lastUse, priced, bytes, sequenceVars, poolVars, worker, releasing>>

(* request(): a look at the decoded frames, which counts as a use of them,  *)
(* then the queue.                                                          *)
AskForFrame(v, f) ==
    LET job == <<draws[v], f>> IN
    /\ draws[v] # 0 /\ asking = <<>> /\ frameRequests < MaxRequests
    /\ frameRequests' = frameRequests + 1
    /\ IF IsDecoded(NameOf(job)) THEN decoded' = Latest(decoded, NameOf(job)) /\ UNCHANGED asking
       ELSE asking' = job /\ UNCHANGED decoded
    /\ UNCHANGED <<cacheVars, keyOf, tornDown, compressed, queued, inflight, worker, releasing, viewVars, relaxed>>

QueueJob ==
    LET full == Len(queued) >= MaximumPending IN
    /\ asking # <<>> /\ asking' = <<>>
    /\ IF NameOf(asking) \in inflight THEN UNCHANGED <<queued, inflight>>
       ELSE /\ queued' = Append(IF full THEN Tail(queued) ELSE queued, asking)
            /\ inflight' = (IF full THEN inflight \ {NameOf(Head(queued))} ELSE inflight)
                               \cup {NameOf(asking)}
    /\ UNCHANGED <<cacheVars, sequenceVars, frameRequests, worker, releasing, viewVars, relaxed>>

-----------------------------------------------------------------------------
WorkerGoes(w, from, to) == worker[w].at = from /\ worker' = [worker EXCEPT ![w].at = to]

TakeJob(w) ==
    /\ worker[w] = Idling /\ queued # <<>>
    /\ queued' = Tail(queued)
    /\ worker' = [worker EXCEPT ![w] = [at |-> "taken", job |-> Head(queued), evicted |-> {}]]
    /\ UNCHANGED <<cacheVars, sequenceVars, inflight, asking, frameRequests, releasing, viewVars, relaxed>>

JobOf(w) == worker[w].job

(* FrameSequence::frame: decoded, else compressed, else drawn.              *)
LookDecoded(w) ==
    /\ WorkerGoes(w, "taken", IF IsDecoded(NameOf(JobOf(w))) THEN "sweeping" ELSE "looking")
    /\ decoded' = IF IsDecoded(NameOf(JobOf(w))) THEN Latest(decoded, NameOf(JobOf(w))) ELSE decoded
    /\ UNCHANGED <<cacheVars, keyOf, tornDown, compressed, poolVars, releasing, viewVars, relaxed>>

LookCompressed(w) ==
    /\ WorkerGoes(w, "looking",
           IF JobOf(w)[1] \in tornDown THEN "done"
           ELSE IF JobOf(w)[2] \in compressed[JobOf(w)[1]] THEN "showing" ELSE "drawing")
    /\ UNCHANGED <<cacheVars, sequenceVars, poolVars, releasing, viewVars, relaxed>>

(* The rasteriser is behind a lock of its own, and gone after a teardown.   *)
Draw(w) ==
    /\ WorkerGoes(w, "drawing", IF JobOf(w)[1] \in tornDown THEN "done" ELSE "keeping")
    /\ UNCHANGED <<cacheVars, sequenceVars, poolVars, releasing, viewVars, relaxed>>

RetainCompressed(w) ==
    LET n == JobOf(w)[1] IN
    /\ WorkerGoes(w, "keeping", "showing")
    /\ compressed' = IF n \in tornDown \/ Cardinality(compressed[n]) >= SequenceCeiling
                     THEN compressed ELSE [compressed EXCEPT ![n] = @ \cup {JobOf(w)[2]}]
    /\ UNCHANGED <<cacheVars, keyOf, tornDown, decoded, poolVars, releasing, viewVars, relaxed>>

InsertDecoded(w) ==
    LET name == NameOf(JobOf(w))
        more == IF IsDecoded(name) THEN decoded ELSE Append(decoded, name) IN
    /\ WorkerGoes(w, "showing", "sweeping")
    /\ decoded' = IF Len(more) > DecodedCeiling /\ Len(more) > 1 THEN Tail(more) ELSE more
    /\ UNCHANGED <<cacheVars, keyOf, tornDown, compressed, poolVars, releasing, viewVars, relaxed>>

(* sweep(): every entry is priced, and the least recently used that no      *)
(* player holds go until the rest fits.                                     *)
Price(k) == IF entries[k] = 0 THEN 0 ELSE Cardinality(compressed[entries[k]])
Prices == [k \in Keys |-> Price(k)]
Priced(keys) == SumFunctionOnSet(Prices, keys)
EvictableOnScreen(use) ==        \* mutant: what players hold goes like the rest
    {k \in Resident : lastUse[k] >= use}
Evictable(use) == {k \in Resident : retained[k] = 0 /\ lastUse[k] >= use}
Victims ==
    LET fits(use) == LET rest == Resident \ Evictable(use) IN
                     Priced(rest) <= CacheCeiling /\ Cardinality(rest) <= MaximumResident
        none == Cardinality(Keys) + 1
    IN  Evictable(CHOOSE use \in 0..none : /\ fits(use) \/ use = 0
                                           /\ \A more \in (use + 1)..none : ~fits(more))

Evict(keys) == entries' = [k \in Keys |-> IF k \in keys THEN 0 ELSE entries[k]]

Sweep(w) ==
    /\ worker[w].at = "sweeping"
    /\ Evict(Victims)
    /\ priced' = Prices
    /\ bytes' = Priced(Resident \ Victims)
    /\ worker' = [worker EXCEPT ![w].at = IF Victims = {} THEN "done" ELSE "tearing",
                                ![w].evicted = {entries[k] : k \in Victims}]
    /\ relaxed' = FALSE
    /\ UNCHANGED <<lastUse, retained, sequenceVars, poolVars, releasing, viewVars>>

(* teardown(): outside the lock of the cache, one sequence after the other. *)
TearDown(n) ==
    /\ tornDown' = tornDown \cup {n}
    /\ compressed' = [compressed EXCEPT ![n] = {}]
    /\ decoded' = Remaining(decoded, {keyOf[n]} \X Frames)
    /\ UNCHANGED <<cacheVars, keyOf, poolVars, viewVars, relaxed>>

TearDownSwept(w) ==
    /\ worker[w].at = "tearing"
    /\ \E n \in worker[w].evicted :
          /\ TearDown(n)
          /\ worker' = [worker EXCEPT ![w] =
                 [at |-> IF @.evicted = {n} THEN "done" ELSE "tearing", job |-> @.job, evicted |-> @.evicted \ {n}]]
    /\ UNCHANGED releasing

FinishJob(w) ==
    /\ worker[w].at = "done"
    /\ inflight' = inflight \ {NameOf(JobOf(w))}
    /\ worker' = [worker EXCEPT ![w] = Idling]
    /\ UNCHANGED <<cacheVars, sequenceVars, queued, asking, frameRequests, releasing, viewVars, relaxed>>

(* Memory pressure: decoded frames first, then whatever no player holds.    *)
ReleaseDecoded ==
    /\ decoded # <<>> /\ decoded' = <<>>
    /\ UNCHANGED <<cacheVars, keyOf, tornDown, compressed, poolVars, worker, releasing, viewVars, relaxed>>

ReleaseUnretained ==
    LET keys == {k \in Resident : retained[k] = 0}
        charge == SumFunctionOnSet(priced, keys) IN
    /\ releasing = {} /\ keys # {} /\ Evict(keys)
    /\ bytes' = IF bytes < charge THEN 0 ELSE bytes - charge
    /\ releasing' = {entries[k] : k \in keys}
    /\ decoded' = <<>>
    /\ UNCHANGED <<lastUse, priced, retained, keyOf, tornDown, compressed, poolVars, worker, viewVars, relaxed>>

TearDownReleased ==
    /\ \E n \in releasing : TearDown(n) /\ releasing' = releasing \ {n}
    /\ UNCHANGED worker

RasterNext ==
    \/ \E v \in AnimationViews :
          \/ \E k \in Keys : OpenSequence(v, k)
          \/ Retain(v) \/ ReleaseKey(v)
          \/ \E f \in Frames : AskForFrame(v, f)
    \/ QueueJob \/ ReleaseDecoded \/ ReleaseUnretained \/ TearDownReleased
    \/ \E w \in Workers :
          \/ TakeJob(w) \/ LookDecoded(w) \/ LookCompressed(w) \/ Draw(w) \/ RetainCompressed(w)
          \/ InsertDecoded(w) \/ Sweep(w) \/ TearDownSwept(w) \/ FinishJob(w)
RasterSpec == RasterInit /\ [][RasterNext]_rasterVars

-----------------------------------------------------------------------------
Busy == {w \in Workers : worker[w] # Idling}

(* What is in flight is what is queued or being drawn, each once: no frame  *)
(* is drawn by two workers, and none is left in flight by a request that was*)
(* dropped, which would never be drawn again.                               *)
InflightIsExact ==
    /\ inflight = {NameOf(queued[i]) : i \in DOMAIN queued} \cup {NameOf(JobOf(w)) : w \in Busy}
    /\ Cardinality(inflight) = Len(queued) + Cardinality(Busy)

(* Eviction never tears down what a player retained while it was resident.  *)
OnScreenStays ==
    \A v \in AnimationViews : holds[v] = "safe" =>
        entries[keyOf[draws[v]]] = draws[v] /\ draws[v] \notin tornDown

(* With no frame being drawn the ledger is the price of what is resident,   *)
(* which fits the ceiling unless players hold all that costs anything or let*)
(* go of some since the last sweep.                                         *)
LedgerFitsAtRest ==
    Busy = {} =>
        /\ bytes = Priced(Resident)
        /\ bytes <= CacheCeiling \/ relaxed \/ \A k \in Resident : retained[k] > 0 \/ Price(k) = 0

FramesAreKept == InflightIsExact /\ OnScreenStays /\ LedgerFitsAtRest
=============================================================================
