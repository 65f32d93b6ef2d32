--------------------------- MODULE UploadProgress ---------------------------
(***************************************************************************)
(* Byte progress coalesced into updates a UI can observe.  report() decides *)
(* and records under a lock, and broadcasts after it let the lock go.       *)
(***************************************************************************)
EXTENDS Integers, Sequences

CONSTANTS
    Uploads,
    Reporters,      \* threads that report
    NoEntry,
    TotalBytes,     \* of every upload
    Epsilon,        \* in bytes, of that total
    MaxReports      \* bound: reports

ASSUME EpsilonAssumption == TotalBytes \in Nat \ {0} /\ Epsilon \in 1..TotalBytes

VARIABLES
    published,      \* published[u]: the map's entry, or NoEntry
    sending,        \* sending[t]: the update t has yet to broadcast
    updates,        \* what was broadcast, in order
    latest,         \* latest[u]: the last progress reported
    reports

uploadVars == <<published, sending, updates, latest, reports>>

TerminalStates == {"Completed", "Failed", "Cancelled"}
Progress == [id : Uploads, sent : 0..TotalBytes, state : {"Pending", "Uploading"} \cup TerminalStates]
IsTerminal(p) == p.state \in TerminalStates
ASSUME UploadAssumption == NoEntry \notin Progress /\ MaxReports \in Nat

UploadTypeOK ==
    /\ published \in [Uploads -> Progress \cup {NoEntry}]
    /\ sending \in [Reporters -> Progress \cup {NoEntry}]
    /\ updates \in Seq(Progress)
    /\ latest \in [Uploads -> Progress \cup {NoEntry}]
    /\ reports \in 0..MaxReports

UploadInit ==
    /\ published = [u \in Uploads |-> NoEntry]
    /\ sending = [t \in Reporters |-> NoEntry]
    /\ updates = <<>>
    /\ latest = [u \in Uploads |-> NoEntry]
    /\ reports = 0

Distance(a, b) == IF a < b THEN b - a ELSE a - b
ShouldPublish(p) ==
    \/ published[p.id] = NoEntry
    \/ published[p.id].state # p.state
    \/ IsTerminal(p)
    \/ Distance(p.sent, published[p.id].sent) >= Epsilon

ReportRecordingAll(t, p) ==     \* mutant: what was coalesced away is recorded
    /\ sending[t] = NoEntry /\ reports < MaxReports
    /\ reports' = reports + 1
    /\ latest' = [latest EXCEPT ![p.id] = p]
    /\ published' = [published EXCEPT ![p.id] = p]
    /\ sending' = [sending EXCEPT ![t] = IF ShouldPublish(p) THEN p ELSE NoEntry]
    /\ UNCHANGED updates
Report(t, p) ==
    /\ sending[t] = NoEntry /\ reports < MaxReports
    /\ reports' = reports + 1
    /\ latest' = [latest EXCEPT ![p.id] = p]
    /\ IF ShouldPublish(p)
       THEN /\ published' = [published EXCEPT ![p.id] = p]
            /\ sending' = [sending EXCEPT ![t] = p]
       ELSE UNCHANGED <<published, sending>>
    /\ UNCHANGED updates

Broadcast(t) ==
    /\ sending[t] # NoEntry
    /\ updates' = Append(updates, sending[t])
    /\ sending' = [sending EXCEPT ![t] = NoEntry]
    /\ UNCHANGED <<published, latest, reports>>

ForgetTerminal ==
    /\ \E u \in Uploads : published[u] # NoEntry /\ IsTerminal(published[u])
    /\ published' = [u \in Uploads |->
                        IF published[u] # NoEntry /\ IsTerminal(published[u])
                        THEN NoEntry ELSE published[u]]
    /\ UNCHANGED <<sending, updates, latest, reports>>

UploadNext ==
    \/ \E t \in Reporters : Broadcast(t) \/ \E p \in Progress : Report(t, p)
    \/ ForgetTerminal
UploadSpec == UploadInit /\ [][UploadNext]_uploadVars

-----------------------------------------------------------------------------
Announced == {updates[i] : i \in 1..Len(updates)} \cup {sending[t] : t \in Reporters}

(* What an observer was sent is never far from the truth: the last report   *)
(* of an upload either was broadcast or is about to be, or is less than     *)
(* epsilon from one in the same state that was.  However slowly the bytes   *)
(* creep, and whatever is forgotten, and a terminal state is never lost.    *)
NeverFarBehind ==
    \A u \in Uploads :
        latest[u] # NoEntry =>
            \/ latest[u] \in Announced
            \/ /\ ~IsTerminal(latest[u]) /\ published[u] # NoEntry
               /\ published[u] \in Announced
               /\ published[u].state = latest[u].state
               /\ Distance(published[u].sent, latest[u].sent) < Epsilon
=============================================================================
