------------------------------ MODULE AppUpdate ------------------------------
(***************************************************************************)
(* An update of the program by itself: the decision over a feed, what must *)
(* hold before there is a plan, and the plan, two renames between three    *)
(* paths, any of which may be refused and between any two of which the     *)
(* process may die.  Only plans that replace in place change anything from *)
(* here: a helper or a package manager does the others.                    *)
(*                                                                         *)
(* Fetching, staging and relaunching are the caller's.  Version 1 runs     *)
(* first; a version at a path stands for a whole copy of it.               *)
(***************************************************************************)
EXTENDS Integers, FiniteSets

CONSTANTS
    Feeds,          \* sets of releases: a version, a channel, built for this machine or not
    Policies,       \* what is known of the build and of the feed
    Nothing,        \* no copy, no update
    Other,          \* a download that is not what the feed promised
    MaxTroubles,    \* bound: what the system refuses or sweeps away
    MaxChecks       \* bound: decisions

Channels == {"stable", "beta"}
Releases == [version : Nat \ {0}, channel : Channels \cup {"nightly"}, built : BOOLEAN]

ASSUME UpdateAssumption ==
    /\ Feeds \subseteq SUBSET Releases
    /\ Policies \subseteq [production : BOOLEAN, signed : BOOLEAN, enabled : BOOLEAN]
    /\ MaxTroubles \in Nat /\ MaxChecks \in Nat
    /\ Nothing \notin Nat \cup Releases /\ Other \notin Nat /\ Other # Nothing

VARIABLES
    running,                        \* the version that runs, or Nothing
    channel, policy,                \* what the caller passes
    offer, plan,                    \* what was decided on, and what was prepared
    staged, installed, displaced,   \* what lies at the three paths
    swap,                           \* where swap_in_place is, and had_previous
    checks, troubles,               \* bounds
    stranded,                       \* history: a refused rollback or a death left the place empty
    newestRun                       \* history: the newest version that ever ran

updateVars == <<running, channel, policy, offer, plan, staged, installed, displaced, swap,
                checks, troubles, stranded, newestRun>>
paths == <<staged, installed, displaced>>
caller == <<running, channel, policy, offer, checks, newestRun>>

At(step, had) == [at |-> step, had |-> had]
Idle == At("idle", FALSE)

UpdateTypeOK ==
    /\ channel \in Channels /\ policy \in Policies
    /\ swap.at \in {"idle", "aside", "in", "undo", "clean"} /\ swap.had \in BOOLEAN
    /\ offer \in Releases \cup {Nothing} /\ plan \in Nat \cup {Nothing, Other}
    /\ checks \in 0..MaxChecks /\ troubles \in 0..MaxTroubles /\ stranded \in BOOLEAN

UpdateInit ==
    /\ running = 1 /\ newestRun = 1 /\ channel \in Channels /\ policy \in Policies
    /\ offer = Nothing /\ plan = Nothing
    /\ installed = 1 /\ staged = Nothing /\ displaced = Nothing
    /\ swap = Idle
    /\ checks = 0 /\ troubles = 0 /\ stranded = FALSE

-----------------------------------------------------------------------------
(* decide(): only what is strictly newer than the version that runs.       *)
Accepts(mine, offered) == ~(mine = "stable" /\ offered = "beta")

(* The newest wins, and of two copies of one build the stable one.         *)
Beats(r, s) ==
    r.version > s.version \/ (r.version = s.version /\ r.channel = "stable" /\ s.channel = "beta")

Acceptable(feed) == {r \in feed : r.channel \in Channels /\ Accepts(channel, r.channel)}
Candidates(feed) == {r \in Acceptable(feed) : r.built /\ r.version > running}

Decide(feed) ==
    /\ running # Nothing /\ swap = Idle /\ checks < MaxChecks
    /\ checks' = checks + 1
    /\ IF Candidates(feed) = {} THEN offer' = Nothing
       ELSE \E r \in Candidates(feed) :
                /\ offer' = r
                /\ \A s \in Candidates(feed) : ~Beats(s, r)
    /\ UNCHANGED <<running, channel, policy, plan, paths, swap, troubles, stranded, newestRun>>

(* prepare(): permission, then integrity, then the plan; then the caller   *)
(* stages the bytes.                                                       *)
Permitted(p) == (p.production => p.signed) /\ p.enabled
Verified(bytes) == bytes = offer.version
Prepare(bytes) ==
    /\ swap = Idle /\ offer # Nothing
    /\ Permitted(policy) /\ Verified(bytes)
    /\ plan' = bytes /\ staged' = bytes
    /\ UNCHANGED <<caller, installed, displaced, swap, troubles, stranded>>

-----------------------------------------------------------------------------
(* install(), of a plan that replaces in place.                            *)
Troubled == troubles < MaxTroubles /\ troubles' = troubles + 1
Fine == UNCHANGED troubles

(* What an earlier swap left aside goes first.                             *)
BeginSwap ==
    /\ running # Nothing /\ swap = Idle /\ plan # Nothing
    /\ \/ Fine /\ displaced' = Nothing /\ swap' = At("aside", FALSE)
       \/ Troubled /\ displaced # Nothing /\ UNCHANGED <<displaced, swap>>
    /\ UNCHANGED <<caller, plan, staged, installed, stranded>>

MoveAside ==
    /\ swap.at = "aside"
    /\ \/ /\ Fine /\ installed = Nothing
          /\ swap' = At("in", FALSE) /\ UNCHANGED <<installed, displaced>>
       \/ /\ Fine /\ installed # Nothing
          /\ displaced' = installed /\ installed' = Nothing /\ swap' = At("in", TRUE)
       \/ /\ Troubled /\ installed # Nothing
          /\ swap' = Idle /\ UNCHANGED <<installed, displaced>>
    /\ UNCHANGED <<caller, plan, staged, stranded>>

(* Fails without further trouble when nothing is staged.                   *)
MoveIn ==
    /\ swap.at = "in"
    /\ \/ /\ Fine /\ staged # Nothing
          /\ installed' = staged /\ staged' = Nothing /\ swap' = At("clean", swap.had)
          /\ stranded' = FALSE
       \/ /\ IF staged = Nothing THEN Fine ELSE Troubled
          /\ swap' = At("undo", swap.had) /\ UNCHANGED <<staged, installed, stranded>>
    /\ UNCHANGED <<caller, plan, displaced>>

PutBackNothing ==       \* mutant: the failure is reported, and that is all
    /\ swap.at = "undo" /\ swap' = Idle
    /\ UNCHANGED <<caller, plan, paths, troubles, stranded>>
(* Whether it could be put back is not looked at.                          *)
PutBack ==
    /\ swap.at = "undo" /\ swap' = Idle
    /\ \/ /\ Fine /\ swap.had
          /\ installed' = displaced /\ displaced' = Nothing /\ UNCHANGED stranded
       \/ /\ Troubled /\ swap.had
          /\ stranded' = TRUE /\ UNCHANGED <<installed, displaced>>
       \/ Fine /\ ~swap.had /\ UNCHANGED <<installed, displaced, stranded>>
    /\ UNCHANGED <<caller, plan, staged>>

(* Nor whether it could be removed.                                        *)
CleanUp ==
    /\ swap.at = "clean" /\ swap' = Idle /\ plan' = Nothing
    /\ \/ Fine /\ displaced' = Nothing
       \/ Troubled /\ UNCHANGED displaced
    /\ UNCHANGED <<caller, staged, installed, stranded>>

-----------------------------------------------------------------------------
(* relaunch(); a death at any step; a start of what lies at the path; and  *)
(* whoever sweeps the staging directory.                                   *)
Begin(version) ==
    /\ running' = version
    /\ newestRun' = IF version > newestRun THEN version ELSE newestRun

Relaunch ==
    /\ running # Nothing /\ swap = Idle /\ installed # Nothing
    /\ Begin(installed) /\ offer' = Nothing /\ plan' = Nothing
    /\ UNCHANGED <<channel, policy, paths, swap, checks, troubles, stranded>>

Die ==
    /\ running # Nothing
    /\ running' = Nothing /\ offer' = Nothing /\ plan' = Nothing /\ swap' = Idle
    /\ stranded' = (stranded \/ installed = Nothing)
    /\ UNCHANGED <<channel, policy, paths, checks, troubles, newestRun>>

Start ==
    /\ running = Nothing /\ installed # Nothing
    /\ Begin(installed)
    /\ UNCHANGED <<channel, policy, offer, plan, paths, swap, checks, troubles, stranded>>

SweepStaging ==
    /\ staged # Nothing /\ Troubled /\ staged' = Nothing
    /\ UNCHANGED <<caller, plan, installed, displaced, swap, stranded>>

UpdateNext ==
    \/ \E feed \in Feeds : Decide(feed)
    \/ offer # Nothing /\ \E bytes \in {offer.version, Other} : Prepare(bytes)
    \/ BeginSwap \/ MoveAside \/ MoveIn \/ PutBack \/ CleanUp
    \/ Relaunch \/ Die \/ Start \/ SweepStaging

UpdateSpec == UpdateInit /\ [][UpdateNext]_updateVars

-----------------------------------------------------------------------------
(* Through refused renames, an empty staging directory and deaths between  *)
(* any two steps: a whole copy lies at the installed path, or aside while  *)
(* its place is empty between the renames.  The exceptions are a death     *)
(* there and a refused rollback: those leave the place empty, and it stays *)
(* so, whatever a retry then removes, until a swap puts a copy in.  Always *)
(* a copy that lies there is one the feed promised and the policy          *)
(* permitted, and what starts is never older than what ran before.         *)
UpdatesAreSafe ==
    /\ IF stranded THEN installed = Nothing
       ELSE \/ installed # Nothing
            \/ swap.at \in {"in", "undo"} /\ swap.had /\ displaced # Nothing
    /\ installed \notin {1, Nothing} => installed # Other /\ Permitted(policy)
    /\ running # Nothing => running = newestRun
=============================================================================
