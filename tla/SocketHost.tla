----------------------------- MODULE SocketHost -----------------------------
(***************************************************************************)
(* The socket host of the desktop app and the RiseWire it feeds.  One task *)
(* owns the connection: it waits out a backoff, connects under the current *)
(* credential, flushes what it queued while offline, then pumps commands,  *)
(* heartbeats and inbound frames until the socket drops, the credential    *)
(* changes or the app shuts down, and then fails every pending call.       *)
(* Callers, and whoever changes the credential, reach it only through a    *)
(* bounded channel filled with try_send.                                   *)
(*                                                                         *)
(* The gateway and the network are external: they serve written frames in  *)
(* any order, answer or stay silent, and may break at any moment.          *)
(***************************************************************************)
EXTENDS RiseWire, Sequences

CONSTANTS
    Credentials,    \* bearer tokens an account may present
    Anonymous,      \* SocketCredential::Anonymous
    Capacity,       \* OUTBOUND_CAPACITY, of the command channel
    QueueCapacity,  \* OUTBOUND_CAPACITY again, of the frames set aside offline
    MaxAttempt,     \* bound: where the attempt counter saturates
    MaxFaults,      \* bound: connection failures the network may cause
    MaxChanges      \* bound: credential changes the application asks for

ASSUME HostAssumption ==
    /\ Anonymous \notin Credentials
    /\ Capacity \in Nat \ {0} /\ QueueCapacity \in Nat \ {0}
    /\ MaxAttempt \in Nat \ {0}
    /\ MaxFaults \in Nat
    /\ MaxChanges \in Nat

VARIABLES
    inbox,      \* the command channel
    queued,     \* frames set aside while there is no connection
    credential, \* what the next connection will present
    attempt,    \* consecutive failed attempts
    host,       \* where the host task is
    published,  \* the ConnectionState watch channel
    link,       \* the network under the connection: "none", "up" or "broken"
    linkAs,     \* the credential the connection was opened with
    uplink,     \* frames written to the connection and not yet served
    downlink,   \* responses on their way back over the connection
    served,     \* calls the gateway has served
    faults,     \* faults the network has caused
    accepted,   \* history: the credentials the channel took, in order
    written     \* history: how the last write of a call's frame ended

hostVars == <<inbox, queued, credential, attempt, host, published>>
netVars == <<link, linkAs, uplink, downlink, served, faults>>
historyVars == <<accepted, written>>
vars == <<wireVars, hostVars, netVars, historyVars>>

AnyCredential == Credentials \cup {Anonymous}
(* `epoch` is history: how many credentials the channel had taken. *)
Frame == [id : 1..MaxRequestId, call : GatewayAnswers, epoch : 1..(MaxChanges + 1)]
Reply == [id : 1..MaxRequestId, of : GatewayAnswers]
Command == [op : {"send"}, frame : Frame]
             \cup [op : {"authenticate"}, credential : AnyCredential]
             \cup [op : {"shutdown"}]

HostStates == {"waiting", "connecting", "draining", "pumping",
               "dropped", "reauthenticate", "shuttingDown",
               "stopping", "exiting", "stopped"}

TypeOK ==
    /\ WireTypeOK
    /\ inbox \in Seq(Command) /\ Len(inbox) <= Capacity
    /\ queued \in Seq(Frame) /\ Len(queued) <= QueueCapacity
    /\ credential \in AnyCredential
    /\ attempt \in 0..MaxAttempt
    /\ host \in HostStates
    /\ published \in {"idle", "connecting", "connected", "reconnecting"}
    /\ link \in {"none", "up", "broken"}
    /\ linkAs \in AnyCredential
    /\ uplink \subseteq Frame
    /\ downlink \subseteq Reply
    /\ served \subseteq Calls
    /\ faults \in 0..MaxFaults
    /\ accepted \in Seq(AnyCredential) /\ Len(accepted) \in 1..(MaxChanges + 1)
    /\ written \in [Calls -> {"never", "failed", "ok"}]

(* delay_for(0) is zero: the task starts by connecting, anonymously. *)
Init ==
    /\ WireInit
    /\ inbox = <<>> /\ queued = <<>>
    /\ credential = Anonymous
    /\ attempt = 0 /\ host = "connecting" /\ published = "connecting"
    /\ link = "none" /\ linkAs = Anonymous
    /\ uplink = {} /\ downlink = {} /\ served = {} /\ faults = 0
    /\ accepted = <<Anonymous>>
    /\ written = [c \in Calls |-> "never"]

-----------------------------------------------------------------------------
(* Callers. *)
HasRoomUnbounded == host # "stopped"     \* mutant: an unbounded channel
HasRoom == Len(inbox) < Capacity /\ host # "stopped"
CallFrame(c) == [id |-> requestId[c], call |-> c, epoch |-> Len(accepted)]

StartCall(c) ==
    /\ Insert(c)
    /\ UNCHANGED <<hostVars, netVars, historyVars>>

SendFrame(c) ==
    /\ \/ /\ HasRoom
          /\ inbox' = Append(inbox, [op |-> "send", frame |-> CallFrame(c)])
          /\ SendAccepted(c)
       \/ /\ ~HasRoom
          /\ SendRefused(c)
          /\ UNCHANGED inbox
    /\ UNCHANGED <<queued, credential, attempt, host, published, netVars, historyVars>>

EndCallUntimed(c) ==        \* mutant: the await has no timeout
    /\ Return(c)
    /\ UNCHANGED <<hostVars, netVars, historyVars>>
EndCall(c) ==
    /\ Return(c) \/ Timeout(c)
    /\ UNCHANGED <<hostVars, netVars, historyVars>>

DropCall(c) ==
    /\ Drop(c)
    /\ UNCHANGED <<hostVars, netVars, historyVars>>

(* authenticate_through and shutdown ignore what try_send returns. *)
Authenticate(cred) ==
    /\ Len(accepted) <= MaxChanges
    /\ IF HasRoom
       THEN /\ inbox' = Append(inbox, [op |-> "authenticate", credential |-> cred])
            /\ accepted' = Append(accepted, cred)
       ELSE UNCHANGED <<inbox, accepted>>
    /\ UNCHANGED <<wireVars, queued, credential, attempt, host, published, netVars, written>>

Shutdown ==
    /\ HasRoom
    /\ \A i \in DOMAIN inbox : inbox[i].op # "shutdown"
    /\ inbox' = Append(inbox, [op |-> "shutdown"])
    /\ UNCHANGED <<wireVars, queued, credential, attempt, host, published, netVars, historyVars>>

-----------------------------------------------------------------------------
(* The host between connections. *)
PushQueued(frame) ==
    queued' = Append(IF Len(queued) >= QueueCapacity THEN Tail(queued) ELSE queued, frame)

RequiresReconnectNever(next) == FALSE    \* mutant: the new token waits for a drop
RequiresReconnect(next) == credential # next

WaitElapsed ==
    /\ host = "waiting"
    /\ host' = "connecting"
    /\ UNCHANGED <<wireVars, inbox, queued, credential, attempt, published, netVars, historyVars>>

WaitCommand ==
    /\ host = "waiting" /\ inbox # <<>>
    /\ inbox' = Tail(inbox)
    /\ LET command == Head(inbox) IN
       \/ /\ command.op = "send"
          /\ PushQueued(command.frame)
          /\ UNCHANGED <<credential, attempt, host>>
       \/ /\ command.op = "authenticate"
          /\ credential' = command.credential
          /\ IF RequiresReconnect(command.credential)
             THEN attempt' = 0 /\ host' = "connecting"
             ELSE UNCHANGED <<attempt, host>>
          /\ UNCHANGED queued
       \/ /\ command.op = "shutdown"
          /\ host' = "stopping"
          /\ UNCHANGED <<queued, credential, attempt>>
    /\ UNCHANGED <<wireVars, published, netVars, historyVars>>

ConnectSucceeds ==
    /\ host = "connecting"
    /\ host' = "draining" /\ attempt' = 0 /\ published' = "connected"
    /\ link' = "up" /\ linkAs' = credential
    /\ UNCHANGED <<wireVars, inbox, queued, credential, uplink, downlink, served, faults,
                   historyVars>>

ConnectFails ==
    /\ host = "connecting" /\ faults < MaxFaults
    /\ faults' = faults + 1
    /\ attempt' = IF attempt < MaxAttempt THEN attempt + 1 ELSE attempt
    /\ host' = "waiting" /\ published' = "reconnecting"
    /\ UNCHANGED <<wireVars, inbox, queued, credential, link, linkAs, uplink, downlink, served,
                   historyVars>>

-----------------------------------------------------------------------------
(* Writing to the socket: over a broken network the write fails, or still   *)
(* goes into a buffer nobody will read.                                     *)
NoteWrite(frame, result) ==
    written' = [c \in Calls |-> IF c = frame.call THEN result ELSE written[c]]

WriteOk(frame) ==
    /\ uplink' = IF link = "up" THEN uplink \cup {frame} ELSE uplink
    /\ NoteWrite(frame, "ok")

WriteFails(frame) ==
    /\ link = "broken"
    /\ NoteWrite(frame, "failed")
    /\ UNCHANGED uplink

(* queued.drain(..): leaving the loop early drops the rest of the queue. *)
DrainFrame ==
    /\ host = "draining" /\ queued # <<>>
    /\ \/ WriteOk(Head(queued)) /\ queued' = Tail(queued) /\ UNCHANGED host
       \/ WriteFails(Head(queued)) /\ queued' = <<>> /\ host' = "dropped"
    /\ UNCHANGED <<wireVars, inbox, credential, attempt, published,
                   link, linkAs, downlink, served, faults, accepted>>

DrainDone ==
    /\ host = "draining" /\ queued = <<>>
    /\ host' = "pumping"
    /\ UNCHANGED <<wireVars, inbox, queued, credential, attempt, published, netVars, historyVars>>

PumpSend ==
    /\ host = "pumping" /\ inbox # <<>> /\ Head(inbox).op = "send"
    /\ inbox' = Tail(inbox)
    /\ LET frame == Head(inbox).frame IN
       \/ WriteOk(frame) /\ UNCHANGED <<queued, host>>
       \/ WriteFails(frame) /\ PushQueued(frame) /\ host' = "dropped"
    /\ UNCHANGED <<wireVars, credential, attempt, published,
                   link, linkAs, downlink, served, faults, accepted>>

PumpAuthenticate ==
    /\ host = "pumping" /\ inbox # <<>> /\ Head(inbox).op = "authenticate"
    /\ inbox' = Tail(inbox)
    /\ credential' = Head(inbox).credential
    /\ host' = IF RequiresReconnect(Head(inbox).credential) THEN "reauthenticate" ELSE host
    /\ UNCHANGED <<wireVars, queued, attempt, published, netVars, historyVars>>

PumpShutdown ==
    /\ host = "pumping" /\ inbox # <<>> /\ Head(inbox).op = "shutdown"
    /\ inbox' = Tail(inbox)
    /\ host' = "shuttingDown"
    /\ UNCHANGED <<wireVars, queued, credential, attempt, published, netVars, historyVars>>

(* The heartbeat draws its id from the allocator the calls use. *)
PumpHeartbeat ==
    /\ host = "pumping"
    /\ AllocateId
    /\ LET frame == [id |-> nextId, call |-> Ping, epoch |-> 1] IN
       \/ WriteOk(frame) /\ UNCHANGED host
       \/ WriteFails(frame) /\ host' = "dropped"
    /\ UNCHANGED <<inbox, queued, credential, attempt, published,
                   link, linkAs, downlink, served, faults, accepted>>

PumpAccept ==
    /\ host = "pumping"
    /\ \E reply \in downlink :
          /\ downlink' = downlink \ {reply}
          /\ Accept(reply.id, reply.of)
    /\ UNCHANGED <<hostVars, link, linkAs, uplink, served, faults, historyVars>>

PumpNoticesDropNever ==     \* mutant: a closed reader is taken for an idle one
    host = "pumping" /\ link = "broken" /\ UNCHANGED vars
PumpNoticesDrop ==
    /\ host = "pumping" /\ link = "broken"
    /\ host' = "dropped"
    /\ UNCHANGED <<wireVars, inbox, queued, credential, attempt, published, netVars, historyVars>>

-----------------------------------------------------------------------------
(* After the pump: the connection is gone, every pending call is failed and *)
(* the loop starts over, or the task ends.                                  *)
AfterPump ==
    /\ host \in {"dropped", "reauthenticate", "shuttingDown"}
    /\ FailAllPending
    /\ link' = "none" /\ uplink' = {} /\ downlink' = {}
    /\ \/ /\ host = "dropped"
          /\ attempt' = 1 /\ host' = "waiting" /\ published' = "reconnecting"
       \/ /\ host = "reauthenticate"
          /\ host' = "connecting" /\ published' = "connecting"
          /\ UNCHANGED attempt
       \/ /\ host = "shuttingDown"
          /\ host' = "stopping"
          /\ UNCHANGED <<attempt, published>>
    /\ UNCHANGED <<inbox, queued, credential, linkAs, served, faults, historyVars>>

Stop ==
    /\ host = "stopping"
    /\ FailAllPending
    /\ host' = "exiting" /\ published' = "idle"
    /\ UNCHANGED <<inbox, queued, credential, attempt, netVars, historyVars>>

(* run() returns and drops the receiver: what is in the channel is lost. *)
Exit ==
    /\ host = "exiting"
    /\ host' = "stopped"
    /\ inbox' = <<>> /\ queued' = <<>>
    /\ UNCHANGED <<wireVars, credential, attempt, published, netVars, historyVars>>

-----------------------------------------------------------------------------
(* The gateway and the network. *)
Serve ==
    /\ link = "up"
    /\ \E frame \in uplink :
          /\ uplink' = uplink \ {frame}
          /\ downlink' = downlink \cup {[id |-> frame.id, of |-> frame.call]}
          /\ served' = served \cup ({frame.call} \cap Calls)
    /\ UNCHANGED <<wireVars, hostVars, link, linkAs, faults, historyVars>>

Break ==
    /\ link = "up" /\ faults < MaxFaults
    /\ faults' = faults + 1
    /\ link' = "broken" /\ uplink' = {}
    /\ UNCHANGED <<wireVars, hostVars, linkAs, downlink, served, historyVars>>

-----------------------------------------------------------------------------
Host == \/ WaitElapsed \/ WaitCommand \/ ConnectSucceeds \/ ConnectFails
        \/ DrainFrame \/ DrainDone
        \/ PumpSend \/ PumpAuthenticate \/ PumpShutdown
        \/ PumpHeartbeat \/ PumpAccept \/ PumpNoticesDrop
        \/ AfterPump \/ Stop \/ Exit

Next ==
    \/ \E c \in Calls : StartCall(c) \/ SendFrame(c) \/ EndCall(c) \/ DropCall(c)
    \/ \E cred \in AnyCredential : Authenticate(cred)
    \/ Shutdown
    \/ Host
    \/ Serve \/ Break

Spec == Init /\ [][Next]_vars

(* The runtime polls the host task and every live call, timers fire, and    *)
(* select! picks a ready branch at random, so none is passed over for ever. *)
Fairness ==
    /\ \A c \in Calls : WF_vars(SendFrame(c)) /\ WF_vars(EndCall(c))
    /\ WF_vars(WaitElapsed) /\ WF_vars(ConnectSucceeds)
    /\ WF_vars(DrainFrame) /\ WF_vars(DrainDone)
    /\ WF_vars(PumpSend) /\ WF_vars(PumpAuthenticate) /\ WF_vars(PumpShutdown)
    /\ WF_vars(PumpAccept) /\ WF_vars(PumpNoticesDrop)
    /\ WF_vars(AfterPump) /\ WF_vars(Stop) /\ WF_vars(Exit)

FairSpec == Spec /\ Fairness
-----------------------------------------------------------------------------
(* Properties.                                                             *)

(* A caller is only ever given the gateway's answer to its own request:    *)
(* heartbeats, late answers and answers to other calls never reach it.     *)
AnswersAreOwn ==
    \A c \in Calls : answer[c] \in GatewayAnswers => answer[c] = c

(* The slot table holds exactly what can still be answered: a caller that  *)
(* waits unanswered has its slot, and no slot outlives a call that         *)
(* returned.  Only a dropped future leaves its slot behind.                *)
SlotsMatchCallers ==
    /\ \A i \in DOMAIN pending :
          /\ requestId[pending[i]] = i
          /\ caller[pending[i]] \in {"inserted", "waiting", "dropped"}
          /\ answer[pending[i]] = NoAnswer
    /\ \A c \in Calls :
          caller[c] = "waiting" /\ answer[c] = NoAnswer => c \in Slotted

(* The connection in use presents the credential the host holds, so a      *)
(* frame on it was issued under that credential or an earlier one: what    *)
(* the app asks for after a credential change is never sent as the account *)
(* it changed from.                                                        *)
NeverUnderAnEarlierCredential ==
    \A frame \in uplink :
        \E e \in frame.epoch..Len(accepted) : linkAs = accepted[e] \/ frame.call = Ping

(* The wire and the host together keep the contract of a call.             *)
Outcome(c) ==
    CASE caller[c] = "idle" -> "idle"
      [] caller[c] \in {"inserted", "waiting"} -> "open"
      [] caller[c] = "dropped" -> "abandoned"
      [] OTHER -> IF answer[c] \in GatewayAnswers THEN "answered" ELSE "failed"
Contract == INSTANCE RpcContract WITH outcome <- [c \in Calls |-> Outcome(c)]
KeepsContract == Contract!Spec

(* Every call ends, however often the network breaks.                      *)
CallsEnd == \A c \in Calls : caller[c] = "inserted" ~> caller[c] \in {"returned", "dropped"}

(* Once the network stops failing the host ends up, for good, on a         *)
(* live connection opened with the last credential the channel took, unless *)
(* it was shut down: no broken socket is kept, no loop goes round for ever. *)
HostSettles ==
    <>[](\/ host = "stopped"
         \/ host = "pumping" /\ link = "up" /\ linkAs = accepted[Len(accepted)])

(* Ending a session never replays (modules/session/CONTEXT.txt): the frame *)
(* of a call is handed to a socket once, and a write that failed           *)
(* inconclusively is not attempted again.                                  *)
NeverReplays == [][\A c \in Calls : written[c] = "failed" => written'[c] = "failed"]_vars
=============================================================================
