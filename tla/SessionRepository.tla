------------------------- MODULE SessionRepository -------------------------
(***************************************************************************)
(* The list of an account's sessions.  The actor removes a row as soon as  *)
(* its end is asked for and puts it back when the server refuses.  Every   *)
(* command carries the identity it is for, since the account may change    *)
(* under the repository.                                                   *)
(***************************************************************************)
EXTENDS Naturals, Sequences, FiniteSets

CONSTANTS
    Identities,     \* accounts, each on this device
    SessionIds,     \* the sessions there are
    OwnerOf,        \* OwnerOf[s]: the account whose session s is
    CurrentOf,      \* CurrentOf[a]: a's session on this device
    SessionPage,    \* PAGE_SIZE, 20 in the code
    MaxSessionCommands  \* bound: commands served

ASSUME SessionsAssumption ==
    /\ OwnerOf \in [SessionIds -> Identities]
    /\ CurrentOf \in [Identities -> SessionIds]
    /\ \A a \in Identities : OwnerOf[CurrentOf[a]] = a
    /\ MaxSessionCommands \in Nat

VARIABLES
    listed,         \* the rows; their order is the server's business
    previous,       \* the rows before a termination
    hasMore,
    nextAfter,      \* the rows the cursor stands behind; {} is no cursor
    didLoad,
    signOut,        \* should_sign_out
    serving,        \* the command that awaits the server
    alive,          \* the sessions the server has
    told,           \* the rows the server gave since the last full load
    users,          \* the accounts that used the list since it was empty
    unsure,         \* an answer to a termination that was served was lost
    served          \* commands served

sessionVars == <<listed, previous, hasMore, nextAfter, didLoad, signOut, serving, alive,
                 told, users, unsure, served>>

Unserved == [op |-> "none"]
SessionTypeOK ==
    /\ \A set \in {listed, previous, nextAfter, alive, told} : set \subseteq SessionIds
    /\ {hasMore, didLoad, signOut, unsure} \subseteq BOOLEAN
    /\ serving.op \in {"none", "load", "more", "end", "endOthers"}
    /\ users \subseteq Identities
    /\ served \in 0..MaxSessionCommands

SessionInit ==
    /\ listed = {} /\ previous = {} /\ nextAfter = {} /\ told = {} /\ users = {}
    /\ hasMore = FALSE /\ didLoad = FALSE /\ signOut = FALSE /\ unsure = FALSE
    /\ serving = Unserved
    /\ alive = SessionIds
    /\ served = 0

ServeSessions(a, command) ==
    /\ serving = Unserved /\ served < MaxSessionCommands
    /\ served' = served + 1
    /\ serving' = command
    /\ users' = users \cup {a}

AliveOf(a) == {s \in alive : OwnerOf[s] = a}
IsCurrent(s) == s = CurrentOf[OwnerOf[s]]

-----------------------------------------------------------------------------
(* A list that was loaded answers an unforced load at once, whoever asks.   *)
LoadSessions(a, force) ==
    /\ IF didLoad /\ ~force
         THEN ServeSessions(a, Unserved)
         ELSE ServeSessions(a, [op |-> "load", who |-> a])
    /\ UNCHANGED <<listed, previous, hasMore, nextAfter, didLoad, signOut, alive, told, unsure>>

LoadMoreSessions(a) ==
    /\ hasMore /\ nextAfter # {}
    /\ ServeSessions(a, [op |-> "more", who |-> a])
    /\ UNCHANGED <<listed, previous, hasMore, nextAfter, didLoad, signOut, alive, told, unsure>>

(* The server's answer: up to a page of the rows behind the cursor.         *)
Pages(a, seen) == {page \in SUBSET (AliveOf(a) \ seen) :
                      Cardinality(page) <= SessionPage /\ (page = {} => AliveOf(a) \subseteq seen)}

SessionsAnswered ==
    /\ serving.op \in {"load", "more"}
    /\ LET fresh == serving.op = "load"
           seen == IF fresh THEN {} ELSE nextAfter IN
       \E page \in Pages(serving.who, seen) :
          /\ listed' = IF fresh THEN page ELSE listed \cup page
          /\ told' = IF fresh THEN page ELSE told \cup page
          /\ nextAfter' = IF page = {} THEN {} ELSE seen \cup page
          /\ hasMore' = (AliveOf(serving.who) \ (seen \cup page) # {})
          /\ didLoad' = (didLoad \/ fresh)
          /\ unsure' = (unsure /\ ~fresh)
    /\ serving' = Unserved
    /\ UNCHANGED <<previous, signOut, alive, users, served>>

SessionsFail ==
    /\ serving.op \in {"load", "more"} /\ serving' = Unserved
    /\ UNCHANGED <<listed, previous, hasMore, nextAfter, didLoad, signOut, alive, told, users,
                   unsure, served>>

-----------------------------------------------------------------------------
(* The rows leave the list before the server is asked: the one that was     *)
(* named, or every one that is not marked as this device's.                 *)
Terminate(a, op, s) ==
    /\ ServeSessions(a, [op |-> op, who |-> a,
              targets |-> IF op = "end" THEN {s} ELSE SessionIds \ {CurrentOf[a]}])
    /\ previous' = listed
    /\ listed' = IF op = "end" THEN listed \ {s} ELSE {r \in listed : IsCurrent(r)}
    /\ UNCHANGED <<hasMore, nextAfter, didLoad, signOut, alive, told, unsure>>

Ended == {s \in serving.targets : OwnerOf[s] = serving.who}

(* Granted: the answer may list what remains, and says when it ended the    *)
(* session on this device.                                                  *)
Terminated(remaining) ==
    /\ serving.op \in {"end", "endOthers"}
    /\ alive' = alive \ Ended
    /\ signOut' = (signOut \/ CurrentOf[serving.who] \in Ended)
    /\ listed' = IF remaining THEN {s \in alive' : OwnerOf[s] = serving.who} ELSE listed
    /\ told' = IF remaining THEN listed' ELSE told
    /\ previous' = {}
    /\ serving' = Unserved
    /\ UNCHANGED <<hasMore, nextAfter, didLoad, users, unsure, served>>

RolledBack == previous
(* Refused, or the answer to a termination that was served is lost.         *)
TerminationFails(lost) ==
    /\ serving.op \in {"end", "endOthers"}
    /\ listed' = RolledBack
    /\ previous' = {}
    /\ alive' = IF lost THEN alive \ Ended ELSE alive
    /\ unsure' = (unsure \/ lost)
    /\ serving' = Unserved
    /\ UNCHANGED <<hasMore, nextAfter, didLoad, signOut, told, users, served>>

ResetSessions ==
    /\ serving = Unserved /\ served < MaxSessionCommands /\ served' = served + 1
    /\ listed' = {} /\ previous' = {} /\ nextAfter' = {} /\ told' = {} /\ users' = {}
    /\ hasMore' = FALSE /\ didLoad' = FALSE /\ signOut' = FALSE /\ unsure' = FALSE
    /\ UNCHANGED <<serving, alive>>

SessionNext ==
    \/ \E a \in Identities :
          \/ \E force \in BOOLEAN : LoadSessions(a, force)
          \/ LoadMoreSessions(a)
          \/ \E s \in SessionIds, op \in {"end", "endOthers"} : Terminate(a, op, s)
    \/ SessionsAnswered \/ SessionsFail
    \/ \E b \in BOOLEAN : Terminated(b) \/ TerminationFails(b)
    \/ ResetSessions
SessionSpec == SessionInit /\ [][SessionNext]_sessionVars

-----------------------------------------------------------------------------
(* Between commands the list shows what the server gave and still has: a    *)
(* refused termination puts its rows back, a page behind the cursor adds to *)
(* them, a failed load clears nothing and a session that ended is gone,     *)
(* while one account uses the list and no answer to a termination was lost. *)
RestingListIsTrue ==
    serving.op = "none" /\ ~unsure /\ Cardinality(users) <= 1 => listed = told \cap alive
=============================================================================
