------------------------------ MODULE Presence ------------------------------
(***************************************************************************)
(* Who is watched for being online.  Screens own sets of users; the wire   *)
(* hears only of changes to the union.  Requests are spawned tasks that    *)
(* may overtake one another, subscriptions live on the connection, and the *)
(* composition root learns of a reconnect through a watch channel, which   *)
(* keeps the last state only.                                              *)
(***************************************************************************)
EXTENDS Naturals, Sequences, FiniteSets

CONSTANTS
    Owners,         \* screens
    Users,          \* user ids; the account's own is one of them
    Accounts,       \* the user ids that may sign in
    MaxSent,        \* bound: requests spawned
    MaxDrops        \* bound: connections lost

ASSUME AccountsAssumption == Accounts \subseteq Users /\ MaxSent \in Nat /\ MaxDrops \in Nat

VARIABLES
    desired,        \* desired[o]: desired_by_owner
    subscribed,     \* the union last told to the wire
    selfId,         \* the account presence was told of, or Nobody
    active,         \* the account that is signed in, or Nobody
    requests,       \* the spawned requests, in spawn order
    sentCount,
    connected,      \* the socket
    held,           \* what the gateway holds for the connection
    watched,        \* the state in the watch channel differs since last seen
    wasConnected,   \* follow_connection's local
    dropCount,
    replayed,       \* the requests since the last reset, applied in order
    spoiled         \* what has gone wrong so far

presenceVars == <<desired, subscribed, selfId, active, requests, sentCount, connected,
                  held, watched, wasConnected, dropCount, replayed, spoiled>>

Nobody == "nobody"
Request == [subscribe : BOOLEAN, users : SUBSET Users]

PresenceTypeOK ==
    /\ desired \in [Owners -> SUBSET Users]
    /\ subscribed \subseteq Users /\ held \subseteq Users /\ replayed \subseteq Users
    /\ {selfId, active} \subseteq Accounts \cup {Nobody}
    /\ requests \in Seq(Request) /\ sentCount \in 0..MaxSent
    /\ connected \in BOOLEAN /\ watched \in BOOLEAN /\ wasConnected \in BOOLEAN
    /\ dropCount \in 0..MaxDrops
    /\ spoiled \subseteq {"account", "unseen", "overtaken", "lost"}

PresenceInit ==
    /\ desired = [o \in Owners |-> {}]
    /\ subscribed = {} /\ held = {} /\ replayed = {}
    /\ selfId = Nobody /\ active = Nobody
    /\ requests = <<>> /\ sentCount = 0
    /\ connected = FALSE /\ watched = FALSE /\ wasConnected = FALSE
    /\ dropCount = 0 /\ spoiled = {}

AskFor(subscribe, users) == IF users = {} THEN <<>>
                            ELSE <<[subscribe |-> subscribe, users |-> users]>>

Send(out) ==
    /\ sentCount + Len(out) <= MaxSent
    /\ requests' = requests \o out
    /\ sentCount' = sentCount + Len(out)

AfterAll(base, out) ==
    LET upTo[n \in 0..Len(out)] ==
            IF n = 0 THEN base
            ELSE IF out[n].subscribe THEN upTo[n - 1] \cup out[n].users
                 ELSE upTo[n - 1] \ out[n].users
    IN upTo[Len(out)]

Union(wanted) == UNION {wanted[o] : o \in Owners}

-----------------------------------------------------------------------------
(* set_desired, stop_observing: one owner changes, the union is compared.   *)
Reconcile(wanted, o) ==
    LET out == AskFor(TRUE, Union(wanted) \ subscribed)
                 \o AskFor(FALSE, subscribed \ Union(wanted)) IN
    /\ desired' = wanted /\ subscribed' = Union(wanted)
    /\ replayed' = AfterAll(replayed, out)
    /\ Send(out)

Observe(o, users) ==
    /\ Reconcile([desired EXCEPT ![o] = users \ {selfId}], o)
    /\ UNCHANGED <<selfId, active, connected, held, watched, wasConnected, dropCount, spoiled>>

StopObserving(o) ==
    /\ desired[o] # {}
    /\ Reconcile([desired EXCEPT ![o] = {}], o)
    /\ UNCHANGED <<selfId, active, connected, held, watched, wasConnected, dropCount, spoiled>>

(* The signed-in account moves, and follow_account forgets the one before.  *)
(* The gateway holds the earlier account's subscriptions until the socket,  *)
(* which is told separately, reconnects.                                    *)
FollowAccount(a) ==
    /\ a # active
    /\ active' = a /\ selfId' = a
    /\ desired' = [o \in Owners |-> {}]
    /\ subscribed' = {} /\ replayed' = {}
    /\ spoiled' = spoiled \cup (IF held # {} \/ requests # <<>> THEN {"account"} ELSE {})
    /\ UNCHANGED <<requests, sentCount, connected, held, watched, wasConnected, dropCount>>

-----------------------------------------------------------------------------
(* The socket and the gateway. *)
Connect ==
    /\ ~connected /\ connected' = TRUE
    /\ held' = {} /\ watched' = TRUE
    /\ spoiled' = spoiled \cup (IF watched /\ wasConnected THEN {"unseen"} ELSE {})
    /\ UNCHANGED <<desired, subscribed, selfId, active, requests, sentCount, wasConnected,
                   dropCount, replayed>>

DropConnection ==
    /\ connected /\ dropCount < MaxDrops
    /\ connected' = FALSE /\ dropCount' = dropCount + 1
    /\ held' = {} /\ watched' = TRUE
    /\ UNCHANGED <<desired, subscribed, selfId, active, requests, sentCount, wasConnected,
                   replayed, spoiled>>

Removed(s, i) == SubSeq(s, 1, i - 1) \o SubSeq(s, i + 1, Len(s))

Reach(i) ==
    /\ connected /\ i \in 1..Len(requests)
    /\ held' = AfterAll(held, <<requests[i]>>)
    /\ requests' = Removed(requests, i)
    /\ spoiled' = spoiled \cup (IF i > 1 THEN {"overtaken"} ELSE {})
    /\ UNCHANGED <<desired, subscribed, selfId, active, sentCount, connected, watched,
                   wasConnected, dropCount, replayed>>

(* A refused, timed out or disconnected call is only logged. *)
Fail(i) ==
    /\ i \in 1..Len(requests)
    /\ requests' = Removed(requests, i)
    /\ spoiled' = spoiled \cup {"lost"}
    /\ UNCHANGED <<desired, subscribed, selfId, active, sentCount, connected, held, watched,
                   wasConnected, dropCount, replayed>>

(* follow_connection: changed() wakes, borrow() reads whatever is there.    *)
FollowConnectionQuietly ==      \* mutant: a reconnect re-subscribes nobody
    /\ watched /\ watched' = FALSE
    /\ wasConnected' = connected
    /\ UNCHANGED <<desired, subscribed, selfId, active, requests, sentCount, connected,
                   held, dropCount, replayed, spoiled>>
FollowConnection ==
    /\ watched /\ watched' = FALSE
    /\ wasConnected' = connected
    /\ Send(IF connected /\ ~wasConnected THEN AskFor(TRUE, subscribed) ELSE <<>>)
    /\ UNCHANGED <<desired, subscribed, selfId, active, connected, held, dropCount,
                   replayed, spoiled>>

PresenceNext ==
    \/ \E o \in Owners : StopObserving(o) \/ \E users \in SUBSET Users : Observe(o, users)
    \/ \E a \in Accounts \cup {Nobody} : FollowAccount(a)
    \/ Connect \/ DropConnection \/ FollowConnection
    \/ \E i \in 1..MaxSent : Reach(i) \/ Fail(i)
PresenceSpec == PresenceInit /\ [][PresenceNext]_presenceVars

-----------------------------------------------------------------------------
Settled == connected /\ ~watched /\ requests = <<>>

(* The changes told to the wire add up to what the screens want, each user  *)
(* once however many screens watch them: two views of one person subscribe  *)
(* once, and closing one keeps the other's (presence/CONTEXT.txt).          *)
ChangesAddUp == replayed = subscribed /\ selfId \notin subscribed

(* While no request overtakes another or fails, and no reconnect goes       *)
(* unseen, a settled connection holds exactly the subscriptions the screens *)
(* want, through any number of drops.                                       *)
SettledIsSubscribed == Settled /\ spoiled = {} => held = subscribed

(* What the gateway is told, and with that what it holds, is what the       *)
(* screens want.                                                            *)
WireFollowsTheScreens == ChangesAddUp /\ SettledIsSubscribed
=============================================================================
