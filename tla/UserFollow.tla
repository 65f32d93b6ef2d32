----------------------------- MODULE UserFollow -----------------------------
(***************************************************************************)
(* The follow button of rise-user: the repository actor shows a toggle at  *)
(* once, lets a debouncer of the profile send the commit back into its own *)
(* command channel, and reconciles with what the server answers.  A read   *)
(* of the profile and a change of account move the generation that a       *)
(* commit is checked against.                                              *)
(*                                                                         *)
(* One task handles the commands to the end, so nothing of its state moves *)
(* while it awaits the server; the debouncers and the interface go on.     *)
(* Profiles are other people's, addressed by id; the relationship is       *)
(* whether the viewer follows, of a public profile (a follow of a private  *)
(* one stays optimistic until the next read).  The server is external.     *)
(***************************************************************************)
EXTENDS Naturals, Sequences

CONSTANTS
    Profiles,       \* profiles on screen
    Viewers,        \* accounts that may be active
    NoViewer,       \* signed out
    NoCall,         \* the actor awaits nothing
    QueueCapacity,  \* 64, of the command channel
    MaxCommands,    \* bound: commands the interface gives
    MaxLost         \* bound: follows applied whose answer is lost

VARIABLES
    viewer,     \* viewer_id
    loaded,     \* did_load of each entry: its profile is there
    shown,      \* is_subbed of each entry
    inFlight,   \* follow_in_flight of each entry
    committed,  \* committed: what a rollback returns to
    generation, \* generations
    debounced,  \* the generation each debouncer will commit, 0 without one
    queue,      \* the command channel
    call,       \* what the actor awaits
    given,      \* commands the interface has given
    follows,    \* the server: whom each account follows
    lost,       \* follows applied whose answer was lost
    toggledBy   \* history: the account that last toggled each profile

entryVars == <<loaded, shown, inFlight, committed>>
serverVars == <<follows, lost>>
vars == <<viewer, entryVars, generation, debounced, queue, call, given, serverVars, toggledBy>>

Commands ==
    [op : {"activate", "refresh", "toggle"}, profile : Profiles]
      \cup [op : {"setViewer"}, viewer : Viewers \cup {NoViewer}] \cup [op : {"reset"}]
Commits == [op : {"commit"}, profile : Profiles, generation : 1..MaxCommands]
Calls == [op : {"load"}, profile : Profiles]
           \cup [op : {"follow"}, profile : Profiles, viewer : Viewers, desired : BOOLEAN]

ASSUME FollowAssumption ==
    /\ NoViewer \notin Viewers /\ NoCall \notin Calls
    /\ QueueCapacity \in Nat \ {0} /\ MaxCommands \in Nat /\ MaxLost \in Nat

TypeOK ==
    /\ viewer \in Viewers \cup {NoViewer}
    /\ loaded \in [Profiles -> BOOLEAN]
    /\ shown \in [Profiles -> BOOLEAN]
    /\ inFlight \in [Profiles -> BOOLEAN]
    /\ committed \in [Profiles -> BOOLEAN]
    /\ generation \in [Profiles -> 0..MaxCommands]
    /\ debounced \in [Profiles -> 0..MaxCommands]
    /\ queue \in Seq(Commands \cup Commits) /\ Len(queue) <= QueueCapacity
    /\ call \in Calls \cup {NoCall}
    /\ given \in 0..MaxCommands
    /\ follows \in [Viewers -> SUBSET Profiles]
    /\ lost \in 0..MaxLost
    /\ toggledBy \in [Profiles -> Viewers \cup {NoViewer}]

Nowhere(value) == [profile \in Profiles |-> value]

Init ==
    /\ viewer = NoViewer
    /\ loaded = Nowhere(FALSE) /\ shown = Nowhere(FALSE)
    /\ inFlight = Nowhere(FALSE) /\ committed = Nowhere(FALSE)
    /\ generation = Nowhere(0) /\ debounced = Nowhere(0)
    /\ queue = <<>> /\ call = NoCall /\ given = 0
    /\ follows \in [Viewers -> SUBSET Profiles] /\ lost = 0
    /\ toggledBy = Nowhere(NoViewer)

-----------------------------------------------------------------------------
DispatchUnbounded(command) ==   \* mutant: an unbounded channel
    /\ given < MaxCommands /\ given' = given + 1
    /\ queue' = Append(queue, command)
    /\ UNCHANGED <<viewer, entryVars, generation, debounced, call, serverVars, toggledBy>>
(* dispatch() is a try_send: with the channel full the command is lost.    *)
Dispatch(command) ==
    /\ given < MaxCommands /\ given' = given + 1
    /\ Len(queue) < QueueCapacity /\ queue' = Append(queue, command)
    /\ UNCHANGED <<viewer, entryVars, generation, debounced, call, serverVars, toggledBy>>

(* The debouncer's window ends: its task sends the commit, or waits for    *)
(* room, and a newer toggle may still abort it.                            *)
Fire(profile) ==
    /\ debounced[profile] # 0
    /\ Len(queue) < QueueCapacity
    /\ queue' = Append(queue, [op |-> "commit", profile |-> profile,
                               generation |-> debounced[profile]])
    /\ debounced' = [debounced EXCEPT ![profile] = 0]
    /\ UNCHANGED <<viewer, entryVars, generation, call, given, serverVars, toggledBy>>

Take(op) == call = NoCall /\ queue # <<>> /\ Head(queue).op = op /\ queue' = Tail(queue)
Taken == Head(queue)

BumpGeneration(profile) == generation' = [generation EXCEPT ![profile] = @ + 1]

(* Only entries have their generation moved; one that never loaded has no  *)
(* commit to void, and counts as none.                                     *)
Reset ==
    /\ generation' = [profile \in Profiles |->
                        generation[profile] + (IF loaded[profile] THEN 1 ELSE 0)]
    /\ loaded' = Nowhere(FALSE) /\ shown' = Nowhere(FALSE)
    /\ inFlight' = Nowhere(FALSE) /\ committed' = Nowhere(FALSE)
    /\ debounced' = Nowhere(0)

SetViewerKeepingProfiles ==     \* mutant: the account changes under its profiles
    /\ Take("setViewer")
    /\ viewer' = Taken.viewer
    /\ UNCHANGED <<entryVars, generation, debounced, call, given, serverVars, toggledBy>>
SetViewer ==
    /\ Take("setViewer")
    /\ viewer' = Taken.viewer
    /\ IF viewer' # viewer THEN Reset ELSE UNCHANGED <<entryVars, generation, debounced>>
    /\ UNCHANGED <<call, given, serverVars, toggledBy>>

ResetAll ==
    /\ Take("reset")
    /\ Reset
    /\ UNCHANGED <<viewer, call, given, serverVars, toggledBy>>

-----------------------------------------------------------------------------
(* activate() and load(), around their await.                              *)
Load(profile) ==
    IF viewer = NoViewer THEN UNCHANGED <<generation, call>>
    ELSE BumpGeneration(profile) /\ call' = [op |-> "load", profile |-> profile]

Activate ==
    /\ Take("activate")
    /\ IF loaded[Taken.profile] THEN UNCHANGED <<generation, call>> ELSE Load(Taken.profile)
    /\ UNCHANGED <<viewer, entryVars, debounced, given, serverVars, toggledBy>>

Refresh ==
    /\ Take("refresh")
    /\ Load(Taken.profile)
    /\ UNCHANGED <<viewer, entryVars, debounced, given, serverVars, toggledBy>>

Loading(profile) == call # NoCall /\ call.op = "load" /\ call.profile = profile

(* A follow in flight is newer than a read that raced it.                  *)
LoadAnswered(profile) ==
    /\ Loading(profile) /\ call' = NoCall
    /\ loaded' = [loaded EXCEPT ![profile] = TRUE]
    /\ IF inFlight[profile] THEN UNCHANGED <<shown, committed>>
       ELSE /\ shown' = [shown EXCEPT ![profile] = profile \in follows[viewer]]
            /\ committed' = [committed EXCEPT ![profile] = profile \in follows[viewer]]
    /\ UNCHANGED <<viewer, inFlight, generation, debounced, queue, given, serverVars, toggledBy>>

LoadFails(profile) ==
    /\ Loading(profile) /\ call' = NoCall
    /\ UNCHANGED <<viewer, entryVars, generation, debounced, queue, given, serverVars, toggledBy>>

-----------------------------------------------------------------------------
ToggleFollow ==
    /\ Take("toggle")
    /\ LET profile == Taken.profile IN
       IF viewer # NoViewer /\ loaded[profile]
       THEN /\ committed' = IF inFlight[profile] THEN committed
                            ELSE [committed EXCEPT ![profile] = shown[profile]]
            /\ shown' = [shown EXCEPT ![profile] = ~shown[profile]]
            /\ inFlight' = [inFlight EXCEPT ![profile] = TRUE]
            /\ BumpGeneration(profile)
            /\ debounced' = [debounced EXCEPT ![profile] = generation[profile] + 1]
            /\ toggledBy' = [toggledBy EXCEPT ![profile] = viewer]
       ELSE UNCHANGED <<shown, inFlight, committed, generation, debounced, toggledBy>>
    /\ UNCHANGED <<viewer, loaded, call, given, serverVars>>

(* commit_follow() up to its await: the debouncer goes first, even when    *)
(* the commit turns out stale and the debouncer is a newer toggle's.       *)
CommitFollow ==
    /\ Take("commit")
    /\ LET profile == Taken.profile IN
       /\ debounced' = [debounced EXCEPT ![profile] = 0]
       /\ IF Taken.generation # generation[profile] \/ viewer = NoViewer \/ ~loaded[profile]
          THEN UNCHANGED <<inFlight, call>>
          ELSE IF committed[profile] = shown[profile]
          THEN inFlight' = [inFlight EXCEPT ![profile] = FALSE] /\ UNCHANGED call
          ELSE /\ call' = [op |-> "follow", profile |-> profile, viewer |-> viewer,
                           desired |-> shown[profile]]
               /\ UNCHANGED inFlight
    /\ UNCHANGED <<viewer, loaded, shown, committed, generation, given, serverVars, toggledBy>>

Following(profile) == call # NoCall /\ call.op = "follow" /\ call.profile = profile

Applied == [follows EXCEPT ![call.viewer] =
               IF call.desired THEN @ \cup {call.profile} ELSE @ \ {call.profile}]

(* The server applied it and said so.                                      *)
FollowAnswered(profile) ==
    /\ Following(profile) /\ call' = NoCall
    /\ follows' = Applied
    /\ shown' = [shown EXCEPT ![profile] = call.desired]
    /\ committed' = [committed EXCEPT ![profile] = call.desired]
    /\ inFlight' = [inFlight EXCEPT ![profile] = FALSE]
    /\ UNCHANGED <<viewer, loaded, generation, debounced, queue, given, lost, toggledBy>>

(* The server refused it, or it never got there, or the answer was lost.   *)
FollowFailsShowingIt(profile) ==        \* mutant: no rollback
    /\ Following(profile) /\ call' = NoCall
    /\ UNCHANGED serverVars
    /\ inFlight' = [inFlight EXCEPT ![profile] = FALSE]
    /\ UNCHANGED <<viewer, loaded, shown, committed, generation, debounced, queue, given, toggledBy>>
FollowFails(profile) ==
    /\ Following(profile) /\ call' = NoCall
    /\ \/ UNCHANGED serverVars
       \/ follows' = Applied /\ lost < MaxLost /\ lost' = lost + 1
    /\ shown' = [shown EXCEPT ![profile] = committed[profile]]
    /\ inFlight' = [inFlight EXCEPT ![profile] = FALSE]
    /\ UNCHANGED <<viewer, loaded, committed, generation, debounced, queue, given, toggledBy>>

-----------------------------------------------------------------------------
Next ==
    \/ \E command \in Commands : Dispatch(command)
    \/ SetViewer \/ ResetAll \/ Activate \/ Refresh \/ ToggleFollow \/ CommitFollow
    \/ \E profile \in Profiles :
          \/ Fire(profile) \/ LoadAnswered(profile) \/ LoadFails(profile)
          \/ FollowAnswered(profile) \/ FollowFails(profile)

Spec == Init /\ [][Next]_vars
-----------------------------------------------------------------------------
(* Properties.                                                             *)

(* With no follow in flight the button shows what the server has for the   *)
(* active account: through toggles that cancel out, refusals, rereads and  *)
(* changes of account, as long as no answer to an applied follow is lost.  *)
RestingButtonIsTrue ==
    \A profile \in Profiles :
        lost = 0 /\ loaded[profile] /\ ~inFlight[profile] =>
            (shown[profile] <=> profile \in follows[viewer])

(* A mutation that reaches the server changes something there: however the *)
(* button was pressed, it is never told what it already has.               *)
NoEmptyMutation ==
    lost = 0 /\ call # NoCall /\ call.op = "follow" =>
        (call.desired <=> call.profile \notin follows[call.viewer])

(* "The old account's write is dead": a follow is sent only as the account *)
(* that pressed the button.                                                *)
FollowsAreTheTogglers ==
    call # NoCall /\ call.op = "follow" => call.viewer = toggledBy[call.profile]

(* Every follow on its way was meant: by the account it is sent as, and     *)
(* with an effect.                                                          *)
FollowsAreMeant == NoEmptyMutation /\ FollowsAreTheTogglers

(* "The mutation is newer than the request that raced it" (CONTEXT.txt of  *)
(* the module): a follow shown as in flight is on its way to the server.   *)
InFlightIsPursued ==
    \A profile \in Profiles :
        inFlight[profile] =>
            \/ debounced[profile] # 0
            \/ Following(profile)
            \/ \E i \in 1..Len(queue) :
                  queue[i] = [op |-> "commit", profile |-> profile,
                              generation |-> generation[profile]]
=============================================================================
