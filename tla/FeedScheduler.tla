---------------------------- MODULE FeedScheduler ----------------------------
(***************************************************************************)
(* Which videos of a scrolling feed have a decoder open.  The policy is    *)
(* pure: a viewport in, a plan of transitions out, which the player applies*)
(* in order.                                                               *)
(***************************************************************************)
EXTENDS Naturals, Sequences, FiniteSets, Removal, DecoderPlans

CONSTANTS
    FeedLength,     \* bound: the feed is 1..FeedLength, in feed order
    MaxVisible,     \* bound: videos on screen at once
    MaxLive,        \* MAX_LIVE_DECODERS, 5 in the code
    PreloadAhead,   \* PRELOAD_AHEAD, 2 in the code
    PreloadBehind   \* PRELOAD_BEHIND, 1 in the code

ASSUME FeedAssumption ==
    {FeedLength, MaxVisible, MaxLive, PreloadAhead, PreloadBehind} \subseteq Nat

VARIABLES
    videos,         \* states: what the pool takes each stream for
    order,          \* the open streams, first opened first
    wish,           \* the desired states of the last viewport
    opened,         \* the streams open before its plan
    plan            \* the plan made for it

feedVars == <<videos, order, wish, opened, plan>>

Streams == 1..FeedLength
NoPlan == <<>>
Transition == [op : {"open", "play", "pause", "close"}, id : Streams]

FeedTypeOK ==
    /\ videos \in [Streams -> {"playing", "warm", "closed"}]
    /\ order \in Seq(Streams) /\ opened \subseteq Streams
    /\ plan \in Seq(Transition)

FeedInit ==
    /\ videos = [s \in Streams |-> "closed"] /\ order = <<>>
    /\ wish = <<>> /\ opened = {} /\ plan = NoPlan

LiveVideos(states) == {s \in Streams : states[s] # "closed"}

-----------------------------------------------------------------------------
(* A viewport is the window first..last; what is after it comes in feed     *)
(* order and what is before it nearest first.                               *)
Desired(first, last) ==
    LET playing(s) == [id |-> s, state |-> "playing"]
        warm(s) == [id |-> s, state |-> "warm"]
        ahead == IF last + PreloadAhead < FeedLength THEN PreloadAhead ELSE FeedLength - last
        behind == IF first - 1 < PreloadBehind THEN first - 1 ELSE PreloadBehind
    IN  [i \in 1..(last - first + 1) |-> playing(first + i - 1)]
          \o [i \in 1..ahead |-> warm(last + i)]
          \o [i \in 1..behind |-> warm(first - i)]

Wanted(desired) == {desired[i].id : i \in DOMAIN desired}
WantedPlaying(desired) == {desired[i].id : i \in {j \in DOMAIN desired : desired[j].state = "playing"}}

(* close(): the pool as the three passes of reconcile() hand it on.         *)
CloseIn(pool, id) ==
    [videos |-> [pool.videos EXCEPT ![id] = "closed"],
     order |-> Remaining(pool.order, {id}),
     plan |-> Append(pool.plan, [op |-> "close", id |-> id])]
CloseAll(pool, ids) ==
    LET left[n \in 0..Len(ids)] == IF n = 0 THEN pool ELSE CloseIn(left[n - 1], ids[n])
    IN  left[Len(ids)]

Unwanted(pool, desired) == Remaining(pool.order, Wanted(desired))

(* Warm streams that should not play, of those that are left the first      *)
(* opened first; one that plays is never a candidate.                       *)
EvictionCandidates(pool, desired) ==
    Remaining(pool.order, {id \in Streams : pool.videos[id] # "warm" \/ id \in WantedPlaying(desired)})

DeficitBeforeClosing(desired) ==     \* mutant: what is closed anyway is counted
    LET wanted == Cardinality(LiveVideos(videos) \cup Wanted(desired)) IN
    IF wanted > MaxLive THEN wanted - MaxLive ELSE 0
Deficit(desired) == IF Len(desired) > MaxLive THEN Len(desired) - MaxLive ELSE 0
FirstOf(ids, n) == SubSeq(ids, 1, IF Len(ids) < n THEN Len(ids) ELSE n)

Reach(pool, target) ==
    LET id == target.id
        reached == [pool.videos EXCEPT ![id] = target.state]
        say(op) == [op |-> op, id |-> id]
    IN
    IF pool.videos[id] = target.state THEN pool
    ELSE IF pool.videos[id] # "closed"
      THEN [videos |-> reached, order |-> pool.order,
            plan |-> Append(pool.plan, say(IF target.state = "playing" THEN "play" ELSE "pause"))]
    ELSE IF Cardinality(LiveVideos(pool.videos)) >= MaxLive THEN pool     \* denied
    ELSE [videos |-> reached, order |-> Append(pool.order, id),
          plan |-> IF target.state = "playing"
                     THEN Append(Append(pool.plan, say("open")), say("play"))
                     ELSE Append(pool.plan, say("open"))]

(* Every wish in its turn.                                                  *)
ReachAll(pool, desired) ==
    LET reached[n \in 0..Len(desired)] ==
          IF n = 0 THEN pool ELSE Reach(reached[n - 1], desired[n])
    IN  reached[Len(desired)]

Reconciled(desired) ==
    LET pool == [videos |-> videos, order |-> order, plan |-> NoPlan]
        left == CloseAll(pool, Unwanted(pool, desired))
        thinned == CloseAll(left, FirstOf(EvictionCandidates(left, desired), Deficit(desired)))
    IN  ReachAll(thinned, desired)

Follow(pool, desired) ==
    /\ videos' = pool.videos /\ order' = pool.order /\ plan' = pool.plan
    /\ wish' = desired /\ opened' = LiveVideos(videos)

ReconcileFeed(first, last) ==
    LET desired == Desired(first, last) IN Follow(Reconciled(desired), desired)

CloseFeed ==
    Follow(CloseAll([videos |-> videos, order |-> order, plan |-> NoPlan], order), <<>>)

FeedNext ==
    \/ \E first, last \in Streams :
          first <= last /\ last - first < MaxVisible /\ ReconcileFeed(first, last)
    \/ CloseFeed
FeedSpec == FeedInit /\ [][FeedNext]_feedVars

-----------------------------------------------------------------------------
(* Whatever the user scrolls to, applying the plan in order never has more  *)
(* decoders open than there may be, and ends with the ones the pool counts; *)
(* when all that is wanted fits, all of it is open in the state it should   *)
(* have and nothing was closed to be opened again.                          *)
FeedPoolHolds ==
    /\ StaysWithin(opened, plan, MaxLive)
    /\ Applying(opened, plan, Len(plan)) = LiveVideos(videos)
    /\ LiveVideos(videos) = {order[i] : i \in DOMAIN order} /\ Cardinality(LiveVideos(videos)) = Len(order)
    /\ LiveVideos(videos) \subseteq Wanted(wish)
    /\ Len(wish) <= MaxLive =>
          /\ \A i \in DOMAIN wish : videos[wish[i].id] = wish[i].state
          /\ \A i, j \in DOMAIN plan :
                plan[i].op = "close" /\ plan[j].op = "open" => plan[i].id # plan[j].id
=============================================================================
