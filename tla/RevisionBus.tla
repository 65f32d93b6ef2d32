---------------------------- MODULE RevisionBus ----------------------------
(***************************************************************************)
(* The broadcast that tells readers which view moved.  Writers commit and  *)
(* then publish, each in its own time; a subscriber reads the view again   *)
(* for every change of it, and when it is told that it fell behind.        *)
(***************************************************************************)
EXTENDS Integers, Sequences

CONSTANTS
    BusViews,
    Writers,
    Readers,
    Watches,        \* Watches[r]: the one view r shows
    BusCapacity,    \* CHANNEL_CAPACITY, 32 in the code
    MaxCommits      \* bound: commits

ASSUME WatchesAssumption == Watches \in [Readers -> BusViews]
ASSUME BusCapacityAssumption == BusCapacity \in Nat \ {0} /\ MaxCommits \in Nat

VARIABLES
    revision,       \* revision[v]: in the store
    commits,
    publishing,     \* publishing[w]: the view w committed, or Nothing
    sent,           \* every change ever broadcast, in order
    cursor,         \* cursor[r]: how many r has been past; Unsubscribed
    stale,          \* stale[r]: r must read its view again
    shown           \* shown[r]: the revision r last read

busVars == <<revision, commits, publishing, sent, cursor, stale, shown>>

Nothing == "nothing"
ASSUME NothingIsNoView == Nothing \notin BusViews
Unsubscribed == 0 - 1

BusTypeOK ==
    /\ revision \in [BusViews -> 0..MaxCommits] /\ commits \in 0..MaxCommits
    /\ publishing \in [Writers -> BusViews \cup {Nothing}]
    /\ sent \in Seq(BusViews)
    /\ cursor \in [Readers -> Nat \cup {Unsubscribed}]
    /\ stale \in [Readers -> BOOLEAN]
    /\ shown \in [Readers -> 0..MaxCommits]

BusInit ==
    /\ revision = [v \in BusViews |-> 0] /\ commits = 0
    /\ publishing = [w \in Writers |-> Nothing]
    /\ sent = <<>>
    /\ cursor = [r \in Readers |-> Unsubscribed]
    /\ stale = [r \in Readers |-> FALSE]
    /\ shown = [r \in Readers |-> 0]

CommitRevision(w, v) ==
    /\ publishing[w] = Nothing /\ commits < MaxCommits
    /\ commits' = commits + 1
    /\ revision' = [revision EXCEPT ![v] = @ + 1]
    /\ publishing' = [publishing EXCEPT ![w] = v]
    /\ UNCHANGED <<sent, cursor, stale, shown>>

(* The channel keeps the last BusCapacity changes for every subscriber.    *)
Publish(w) ==
    /\ publishing[w] # Nothing
    /\ sent' = Append(sent, publishing[w])
    /\ publishing' = [publishing EXCEPT ![w] = Nothing]
    /\ UNCHANGED <<revision, commits, cursor, stale, shown>>

(* A receiver sees what is sent after it subscribed, so it reads then.     *)
Subscribe(r) ==
    /\ cursor[r] = Unsubscribed
    /\ cursor' = [cursor EXCEPT ![r] = Len(sent)]
    /\ stale' = [stale EXCEPT ![r] = TRUE]
    /\ UNCHANGED <<revision, commits, publishing, sent, shown>>

Listening(r) == cursor[r] # Unsubscribed /\ ~stale[r]
Oldest == IF Len(sent) > BusCapacity THEN Len(sent) - BusCapacity ELSE 0

NextChange(r) ==
    /\ Listening(r) /\ cursor[r] >= Oldest /\ cursor[r] < Len(sent)
    /\ cursor' = [cursor EXCEPT ![r] = @ + 1]
    /\ stale' = [stale EXCEPT ![r] = (sent[cursor[r] + 1] = Watches[r])]
    /\ UNCHANGED <<revision, commits, publishing, sent, shown>>

SkipOverflow(r) ==          \* mutant: recv() is tried again without a word
    /\ Listening(r) /\ cursor[r] < Oldest
    /\ cursor' = [cursor EXCEPT ![r] = Oldest]
    /\ UNCHANGED <<revision, commits, publishing, sent, stale, shown>>
Overflow(r) ==
    /\ Listening(r) /\ cursor[r] < Oldest
    /\ cursor' = [cursor EXCEPT ![r] = Oldest]
    /\ stale' = [stale EXCEPT ![r] = TRUE]
    /\ UNCHANGED <<revision, commits, publishing, sent, shown>>

ReadAgain(r) ==
    /\ stale[r]
    /\ shown' = [shown EXCEPT ![r] = revision[Watches[r]]]
    /\ stale' = [stale EXCEPT ![r] = FALSE]
    /\ UNCHANGED <<revision, commits, publishing, sent, cursor>>

BusNext ==
    \/ \E w \in Writers : Publish(w) \/ \E v \in BusViews : CommitRevision(w, v)
    \/ \E r \in Readers : Subscribe(r) \/ NextChange(r) \/ Overflow(r) \/ ReadAgain(r)
BusSpec == BusInit /\ [][BusNext]_busVars

-----------------------------------------------------------------------------
(* A reader that has nothing left to hear shows the newest revision of its  *)
(* view, however far it fell behind and in whatever order the writers came  *)
(* to publish (ObserveError::Overflow means: read the view again).          *)
CaughtUpIsCurrent ==
    \A r \in Readers :
        Listening(r) /\ cursor[r] = Len(sent) /\ Watches[r] \notin {publishing[w] : w \in Writers}
            => shown[r] = revision[Watches[r]]
=============================================================================
