------------------------- MODULE SocketHostProofs ---------------------------
(***************************************************************************)
(* What holds of the socket host and the wire for every set of calls and   *)
(* credentials, every capacity and every number of faults: first the       *)
(* answers, then the order of the credentials, whose invariant names a     *)
(* position: how far in the history of accepted credentials the host will  *)
(* be once it has taken the first i commands of its channel.               *)
(***************************************************************************)
EXTENDS SocketHost, SequenceTheorems, TLAPS

(* The frame carrying `id` is the request of `call`.                       *)
Names(id, call) ==
    /\ id < nextId
    /\ IF call = Ping THEN \A c \in Calls : requestId[c] # id
                      ELSE requestId[call] = id

(* Ids are handed out once: to one call, or to one heartbeat.              *)
IdsAreUnique ==
    /\ \A c \in Calls : requestId[c] < nextId /\ (requestId[c] = 0 <=> caller[c] = "idle")
    /\ \A c, d \in Calls : requestId[c] = requestId[d] /\ requestId[c] # 0 => c = d

(* Every frame and reply, wherever it is, names the call it belongs to.    *)
FramesMatchCalls ==
    /\ \A i \in DOMAIN inbox :
          inbox[i].op = "send" => Names(inbox[i].frame.id, inbox[i].frame.call)
    /\ \A i \in DOMAIN queued : Names(queued[i].id, queued[i].call)
    /\ \A frame \in uplink : Names(frame.id, frame.call)
    /\ \A reply \in downlink :
          Names(reply.id, reply.of) /\ (reply.of \in Calls => reply.of \in served)

(* A gateway answer is the caller's own, and was served.                   *)
AnswersAreServed ==
    \A c \in Calls : answer[c] \in GatewayAnswers => answer[c] = c /\ c \in served

-----------------------------------------------------------------------------
LEMMA TypeInit == Init => TypeOK /\ IdsAreUnique
  BY WireAssumption, HostAssumption
  DEF Init, WireInit, TypeOK, WireTypeOK, AnyCredential, Answers, NoAnswer, CallerStates,
      HostStates, Command, Frame, IdsAreUnique

USE DEF wireVars, hostVars, netVars, historyVars

(* Lemmas about the operators the actions are built from.                  *)
LEMMA CommandFields ==
    /\ \A frame \in Frame : [op |-> "send", frame |-> frame] \in Command
    /\ \A cred \in AnyCredential : [op |-> "authenticate", credential |-> cred] \in Command
    /\ [op |-> "shutdown"] \in Command
    /\ \A command \in Command :
          /\ command.op = "send" => command.frame \in Frame
          /\ command.op = "authenticate" => command.credential \in AnyCredential
  BY DEF Command

LEMMA TailElements ==
    ASSUME NEW S, NEW seq \in Seq(S), seq # <<>>
    PROVE  \A i \in DOMAIN Tail(seq) : i + 1 \in DOMAIN seq /\ Tail(seq)[i] = seq[i + 1]
  BY HeadTailProperties, LenProperties

LEMMA AppendElements ==
    ASSUME NEW S, NEW seq \in Seq(S), NEW elt \in S
    PROVE  \A i \in DOMAIN Append(seq, elt) :
              \/ i \in DOMAIN seq /\ Append(seq, elt)[i] = seq[i]
              \/ Append(seq, elt)[i] = elt
  BY AppendProperties, LenProperties

LEMMA PushQueuedElements ==
    ASSUME queued \in Seq(Frame), Len(queued) <= QueueCapacity, NEW frame \in Frame,
           PushQueued(frame)
    PROVE  \A i \in DOMAIN queued' :
              queued'[i] = frame \/ \E j \in DOMAIN queued : queued'[i] = queued[j]
<1>1. CASE Len(queued) >= QueueCapacity
  <2>1. queued # <<>>
    BY <1>1, HostAssumption
  <2>2. Tail(queued) \in Seq(Frame)
    BY <2>1, HeadTailProperties
  <2>3. queued' = Append(Tail(queued), frame)
    BY <1>1 DEF PushQueued
  <2>4. QED
    BY <2>1, <2>2, <2>3, TailElements, AppendElements
<1>2. CASE ~(Len(queued) >= QueueCapacity)
  <2>1. queued' = Append(queued, frame)
    BY <1>2 DEF PushQueued
  <2>2. QED
    BY <2>1, AppendElements
<1>3. QED
  BY <1>1, <1>2

LEMMA PushQueuedBounded ==
    ASSUME queued \in Seq(Frame), Len(queued) <= QueueCapacity, NEW frame \in Frame,
           PushQueued(frame)
    PROVE  queued' \in Seq(Frame) /\ Len(queued') <= QueueCapacity
<1>1. CASE Len(queued) >= QueueCapacity
  <2>1. queued # <<>>
    BY <1>1, HostAssumption
  <2>2. Tail(queued) \in Seq(Frame) /\ Len(Tail(queued)) = Len(queued) - 1
    BY <2>1, HeadTailProperties
  <2>3. QED
    BY <1>1, <2>2, AppendProperties, HostAssumption DEF PushQueued
<1>2. CASE ~(Len(queued) >= QueueCapacity)
  BY <1>2, AppendProperties, HostAssumption DEF PushQueued
<1>3. QED
  BY <1>1, <1>2

LEMMA WithoutType ==
    ASSUME WireTypeOK, NEW ids
    PROVE  /\ DOMAIN Without(ids) \subseteq 1..MaxRequestId
           /\ Without(ids) \in [DOMAIN Without(ids) -> Calls]
  BY DEF WireTypeOK, Without

LEMMA InsertType == ASSUME WireTypeOK, NEW c \in Calls, Insert(c) PROVE WireTypeOK'
<1>1. nextId' \in 1..(MaxRequestId + 1) /\ nextId \in 1..MaxRequestId
  BY WireAssumption DEF Insert, WireTypeOK
<1>2. /\ DOMAIN pending' \subseteq 1..MaxRequestId
      /\ pending' \in [DOMAIN pending' -> Calls]
  BY <1>1 DEF Insert, With, WireTypeOK
<1>3. QED
  BY <1>1, <1>2 DEF Insert, WireTypeOK, CallerStates

LEMMA DeliverType ==
    ASSUME WireTypeOK, NEW calls, NEW ans \in Answers, Deliver(calls, ans)
    PROVE  answer' \in [Calls -> Answers]
  BY DEF WireTypeOK, Deliver

LEMMA DeliverOne ==
    ASSUME NEW owner, NEW ans, Deliver({owner}, ans)
    PROVE  \A c \in Calls : answer'[c] = answer[c] \/ (c = owner /\ answer'[c] = ans)
  BY DEF Deliver

LEMMA LocalTypes == NoAnswer \in Answers /\ LocalFailures \subseteq Answers
  BY DEF Answers

LEMMA EndType ==
    ASSUME WireTypeOK, NEW c \in Calls,
           SendAccepted(c) \/ SendRefused(c) \/ Return(c) \/ Timeout(c) \/ Drop(c)
    PROVE  WireTypeOK'
<1>1. DOMAIN pending' \subseteq 1..MaxRequestId /\ pending' \in [DOMAIN pending' -> Calls]
  BY WithoutType DEF SendAccepted, SendRefused, Return, Timeout, Drop, WireTypeOK
<1>2. QED
  BY <1>1, LocalTypes
  DEF SendAccepted, SendRefused, Return, Timeout, Drop, WireTypeOK, CallerStates, LocalFailures

LEMMA AcceptType ==
    ASSUME WireTypeOK, NEW id, NEW ans \in Answers, Accept(id, ans)
    PROVE  WireTypeOK'
<1>1. DOMAIN pending' \subseteq 1..MaxRequestId /\ pending' \in [DOMAIN pending' -> Calls]
  BY WithoutType DEF Accept, WireTypeOK
<1>2. answer' \in [Calls -> Answers]
  BY DeliverType DEF Accept, WireTypeOK
<1>3. QED
  BY <1>1, <1>2 DEF Accept, WireTypeOK

LEMMA FailAllType == WireTypeOK /\ FailAllPending => WireTypeOK'
<1> SUFFICES ASSUME WireTypeOK, FailAllPending PROVE WireTypeOK'
  OBVIOUS
<1>1. DOMAIN pending' \subseteq 1..MaxRequestId /\ pending' \in [DOMAIN pending' -> Calls]
  BY WithoutType DEF FailAllPending
<1>2. answer' \in [Calls -> Answers]
  BY DeliverType, LocalTypes DEF FailAllPending, LocalFailures
<1>3. QED
  BY <1>1, <1>2 DEF FailAllPending, WireTypeOK

LEMMA AllocateType == WireTypeOK /\ AllocateId => WireTypeOK'
  BY WireAssumption DEF AllocateId, WireTypeOK

LEMMA WireUnchanged == WireTypeOK /\ UNCHANGED wireVars => WireTypeOK'
  BY DEF WireTypeOK, wireVars

(* What a step of the whole does to the wire: one of the wire's own steps. *)
WireStep ==
    \/ \E c \in Calls : Insert(c) \/ SendAccepted(c) \/ SendRefused(c)
                        \/ Return(c) \/ Timeout(c) \/ Drop(c)
    \/ \E reply \in downlink : Accept(reply.id, reply.of)
    \/ FailAllPending
    \/ AllocateId
    \/ UNCHANGED wireVars

LEMMA WireSteps == [Next]_vars => WireStep
<1> USE DEF WireStep
<1>1. ASSUME NEW c \in Calls, StartCall(c) \/ SendFrame(c) \/ EndCall(c) \/ DropCall(c)
      PROVE  WireStep
  BY <1>1 DEF StartCall, SendFrame, EndCall, DropCall
<1>2. ASSUME PumpAccept PROVE WireStep
  BY <1>2 DEF PumpAccept
<1>3. ASSUME AfterPump \/ Stop PROVE WireStep
  BY <1>3 DEF AfterPump, Stop
<1>4. ASSUME PumpHeartbeat PROVE WireStep
  BY <1>4 DEF PumpHeartbeat
<1>5. ASSUME WaitElapsed \/ WaitCommand \/ ConnectSucceeds \/ ConnectFails \/ DrainFrame
             \/ DrainDone \/ PumpSend \/ PumpAuthenticate \/ PumpShutdown
             \/ PumpNoticesDrop \/ Exit
      PROVE  UNCHANGED wireVars
  BY <1>5 DEF WaitElapsed, WaitCommand, ConnectSucceeds, ConnectFails, DrainFrame, DrainDone,
              PumpSend, PumpAuthenticate, PumpShutdown, PumpNoticesDrop, Exit
<1>6. ASSUME Serve \/ Break \/ Shutdown \/ (\E cred \in AnyCredential : Authenticate(cred))
      PROVE  UNCHANGED wireVars
  BY <1>6 DEF Serve, Break, Shutdown, Authenticate
<1>7. UNCHANGED vars => UNCHANGED wireVars
  BY DEF vars
<1>8. QED
  BY <1>1, <1>2, <1>3, <1>4, <1>5, <1>6, <1>7 DEF Next, Host

LEMMA WireTypeNext == TypeOK /\ WireStep => WireTypeOK'
  BY InsertType, EndType, AcceptType, FailAllType, AllocateType, WireUnchanged
  DEF WireStep, TypeOK, Reply, Answers

LEMMA IdsNext == TypeOK /\ IdsAreUnique /\ WireStep => IdsAreUnique'
<1> SUFFICES ASSUME TypeOK, IdsAreUnique, WireStep PROVE IdsAreUnique'
  OBVIOUS
<1> USE DEF TypeOK, WireTypeOK, IdsAreUnique
<1>1. ASSUME NEW c \in Calls, Insert(c) PROVE IdsAreUnique'
  BY <1>1 DEF Insert
<1>2. ASSUME NEW c \in Calls,
             SendAccepted(c) \/ SendRefused(c) \/ Return(c) \/ Timeout(c) \/ Drop(c)
      PROVE  IdsAreUnique'
  BY <1>2 DEF SendAccepted, SendRefused, Return, Timeout, Drop
<1>3. ASSUME \/ \E reply \in downlink : Accept(reply.id, reply.of)
             \/ FailAllPending \/ UNCHANGED wireVars
      PROVE  IdsAreUnique'
  BY <1>3 DEF Accept, FailAllPending
<1>4. ASSUME AllocateId PROVE IdsAreUnique'
  BY <1>4 DEF AllocateId
<1>5. QED
  BY <1>1, <1>2, <1>3, <1>4 DEF WireStep

LEMMA TypeNext == TypeOK /\ IdsAreUnique /\ [Next]_vars => TypeOK'
<1> SUFFICES ASSUME TypeOK, IdsAreUnique, [Next]_vars PROVE TypeOK'
  OBVIOUS
<1> USE HostAssumption
<1>0. WireTypeOK'
  BY WireSteps, WireTypeNext
<1>1. ASSUME NEW c \in Calls, StartCall(c) \/ EndCall(c) \/ DropCall(c) PROVE TypeOK'
  BY <1>0, <1>1 DEF StartCall, EndCall, DropCall, TypeOK
<1>2. ASSUME NEW c \in Calls, SendFrame(c) PROVE TypeOK'
  <2>1. CASE HasRoom /\ SendAccepted(c)
    <3>1. requestId[c] \in 1..MaxRequestId
      BY <2>1 DEF SendAccepted, IdsAreUnique, TypeOK, WireTypeOK
    <3>2. CallFrame(c) \in Frame
      BY <3>1 DEF CallFrame, Frame, GatewayAnswers, TypeOK
    <3>3. [op |-> "send", frame |-> CallFrame(c)] \in Command
      BY <3>2, CommandFields
    <3>4. inbox' = Append(inbox, [op |-> "send", frame |-> CallFrame(c)])
      BY <1>2, <2>1 DEF SendFrame
    <3>5. inbox' \in Seq(Command) /\ Len(inbox') = Len(inbox) + 1
      BY <3>3, <3>4, AppendProperties DEF TypeOK
    <3>6. QED
      BY <1>0, <1>2, <2>1, <3>5 DEF SendFrame, HasRoom, TypeOK
  <2>2. CASE SendRefused(c) /\ UNCHANGED inbox
    BY <1>0, <1>2, <2>2 DEF SendFrame, TypeOK
  <2>3. QED
    BY <1>2, <2>1, <2>2 DEF SendFrame
<1>3. ASSUME NEW cred \in AnyCredential, Authenticate(cred) PROVE TypeOK'
  <2>0. [op |-> "authenticate", credential |-> cred] \in Command
    BY CommandFields
  <2>1. inbox' \in Seq(Command) /\ Len(inbox') <= Capacity
    <3>1. CASE HasRoom
      <4>1. inbox' = Append(inbox, [op |-> "authenticate", credential |-> cred])
        BY <1>3, <3>1 DEF Authenticate
      <4>2. inbox' \in Seq(Command) /\ Len(inbox') = Len(inbox) + 1
        BY <2>0, <4>1, AppendProperties DEF TypeOK
      <4>3. QED
        BY <3>1, <4>2 DEF HasRoom, TypeOK
    <3>2. CASE ~HasRoom
      BY <1>3, <3>2 DEF Authenticate, TypeOK
    <3>3. QED
      BY <3>1, <3>2
  <2>2. accepted' \in Seq(AnyCredential) /\ Len(accepted') \in 1..(MaxChanges + 1)
    <3>1. CASE HasRoom
      <4>1. accepted' = Append(accepted, cred) /\ Len(accepted) <= MaxChanges
        BY <1>3, <3>1 DEF Authenticate
      <4>2. accepted' \in Seq(AnyCredential) /\ Len(accepted') = Len(accepted) + 1
        BY <4>1, AppendProperties DEF TypeOK
      <4>3. QED
        BY <4>1, <4>2 DEF TypeOK
    <3>2. CASE ~HasRoom
      BY <1>3, <3>2 DEF Authenticate, TypeOK
    <3>3. QED
      BY <3>1, <3>2
  <2>3. QED
    BY <1>0, <1>3, <2>1, <2>2 DEF Authenticate, TypeOK
<1>4. ASSUME Shutdown PROVE TypeOK'
  <2>1. inbox' \in Seq(Command) /\ Len(inbox') <= Capacity
    BY <1>4, CommandFields, AppendProperties DEF Shutdown, HasRoom, TypeOK
  <2>2. QED
    BY <1>0, <1>4, <2>1 DEF Shutdown, TypeOK
<1>5. ASSUME inbox # <<>>
      PROVE  /\ Head(inbox) \in Command
             /\ Tail(inbox) \in Seq(Command) /\ Len(Tail(inbox)) <= Capacity
  BY <1>5, HeadTailProperties DEF TypeOK
<1>6. ASSUME queued # <<>>
      PROVE  /\ Head(queued) \in Frame
             /\ Tail(queued) \in Seq(Frame) /\ Len(Tail(queued)) <= QueueCapacity
  BY <1>6, HeadTailProperties DEF TypeOK
<1>7. ASSUME NEW frame \in Frame, WriteOk(frame) \/ WriteFails(frame)
      PROVE  uplink' \subseteq Frame /\ written' \in [Calls -> {"never", "failed", "ok"}]
  BY <1>7 DEF WriteOk, WriteFails, NoteWrite, TypeOK
<1>8. ASSUME WaitElapsed \/ DrainDone \/ PumpNoticesDrop \/ ConnectSucceeds \/ ConnectFails PROVE TypeOK'
  BY <1>0, <1>8 DEF WaitElapsed, DrainDone, PumpNoticesDrop, ConnectSucceeds, ConnectFails, HostStates, TypeOK
<1>9. ASSUME WaitCommand PROVE TypeOK'
  <2> DEFINE command == Head(inbox)
  <2>0. command \in Command /\ inbox' \in Seq(Command) /\ Len(inbox') <= Capacity
    BY <1>5, <1>9 DEF WaitCommand
  <2>1. CASE command.op = "send" /\ PushQueued(command.frame) /\ UNCHANGED <<credential, attempt, host>>
    <3>1. queued' \in Seq(Frame) /\ Len(queued') <= QueueCapacity
      BY <2>0, <2>1, CommandFields, PushQueuedBounded DEF TypeOK
    <3>2. QED
      BY <1>0, <1>9, <2>0, <2>1, <3>1 DEF WaitCommand, TypeOK
  <2>2. CASE command.op = "authenticate" /\ credential' = command.credential /\ UNCHANGED queued
    BY <1>0, <1>9, <2>0, <2>2, CommandFields DEF WaitCommand, HostStates, TypeOK
  <2>3. CASE host' = "stopping" /\ UNCHANGED <<queued, credential, attempt>>
    BY <1>0, <1>9, <2>0, <2>3 DEF WaitCommand, HostStates, TypeOK
  <2>4. QED
    BY <1>9, <2>1, <2>2, <2>3 DEF WaitCommand
<1>10. ASSUME DrainFrame PROVE TypeOK'
  <2>0. Head(queued) \in Frame
    BY <1>6, <1>10 DEF DrainFrame
  <2>1. queued' \in Seq(Frame) /\ Len(queued') <= QueueCapacity
    <3>1. CASE queued' = Tail(queued)
      BY <1>6, <1>10, <3>1 DEF DrainFrame
    <3>2. CASE queued' = <<>>
      BY <3>2, EmptySeq
    <3>3. QED
      BY <1>10, <3>1, <3>2 DEF DrainFrame
  <2>2. uplink' \subseteq Frame /\ written' \in [Calls -> {"never", "failed", "ok"}]
    BY <1>7, <1>10, <2>0 DEF DrainFrame
  <2>3. QED
    BY <1>0, <1>10, <2>1, <2>2 DEF DrainFrame, HostStates, TypeOK
<1>11. ASSUME PumpSend PROVE TypeOK'
  <2>0. /\ Head(inbox).frame \in Frame
        /\ inbox' \in Seq(Command) /\ Len(inbox') <= Capacity
    BY <1>5, <1>11, CommandFields DEF PumpSend
  <2>1. queued' \in Seq(Frame) /\ Len(queued') <= QueueCapacity
    BY <1>11, <2>0, PushQueuedBounded DEF PumpSend, TypeOK
  <2>2. QED
    BY <1>0, <1>7, <1>11, <2>0, <2>1 DEF PumpSend, HostStates, TypeOK
<1>12. ASSUME PumpAuthenticate \/ PumpShutdown PROVE TypeOK'
  <2>0. /\ Head(inbox) \in Command
        /\ inbox' \in Seq(Command) /\ Len(inbox') <= Capacity
    BY <1>5, <1>12 DEF PumpAuthenticate, PumpShutdown
  <2>1. QED
    BY <1>0, <1>12, <2>0, CommandFields DEF PumpAuthenticate, PumpShutdown, HostStates, TypeOK
<1>13. ASSUME PumpHeartbeat PROVE TypeOK'
  <2>1. [id |-> nextId, call |-> Ping, epoch |-> 1] \in Frame
    BY <1>13 DEF PumpHeartbeat, AllocateId, Frame, GatewayAnswers, TypeOK, WireTypeOK
  <2>2. QED
    BY <1>0, <1>7, <1>13, <2>1 DEF PumpHeartbeat, HostStates, TypeOK
<1>14. ASSUME PumpAccept PROVE TypeOK'
  BY <1>0, <1>14 DEF PumpAccept, TypeOK
<1>15. ASSUME AfterPump \/ Stop \/ Exit PROVE TypeOK'
  <2>1. CASE AfterPump \/ Stop
    BY <1>0, <2>1 DEF AfterPump, Stop, HostStates, TypeOK
  <2>2. CASE Exit
    <3>1. inbox' \in Seq(Command) /\ queued' \in Seq(Frame) /\ Len(inbox') = 0 /\ Len(queued') = 0
      BY <2>2, EmptySeq DEF Exit
    <3>2. QED
      BY <1>0, <2>2, <3>1 DEF Exit, HostStates, TypeOK
  <2>3. QED
    BY <1>15, <2>1, <2>2
<1>16. ASSUME Serve PROVE TypeOK'
  <2>1. downlink' \subseteq Reply
    BY <1>16 DEF Serve, Frame, Reply, TypeOK
  <2>2. QED
    BY <1>0, <1>16, <2>1 DEF Serve, TypeOK
<1>17. ASSUME Break PROVE TypeOK'
  BY <1>0, <1>17 DEF Break, TypeOK
<1>18. CASE UNCHANGED vars
  BY <1>0, <1>18 DEF vars, TypeOK
<1>19. QED
  BY <1>1, <1>2, <1>3, <1>4, <1>8, <1>9, <1>10, <1>11, <1>12, <1>13, <1>14, <1>15, <1>16, <1>17,
     <1>18 DEF Next, Host

(* Every variable of the host and the wire keeps its type, and neither the *)
(* channel nor the offline queue outgrows its capacity.                    *)
THEOREM TypeCorrect == Spec => []TypeOK
<1>1. TypeOK /\ IdsAreUnique /\ [Next]_vars => (TypeOK /\ IdsAreUnique)'
  BY TypeNext, IdsNext, WireSteps
<1>2. QED
  BY <1>1, TypeInit, PTL DEF Spec

-----------------------------------------------------------------------------
(* Correlation.  What a frame names, it names for good.                    *)
LEMMA NamesStable ==
    TypeOK /\ IdsAreUnique /\ WireStep =>
        \A id \in 1..MaxRequestId, call \in GatewayAnswers : Names(id, call) => Names(id, call)'
<1> SUFFICES ASSUME TypeOK, IdsAreUnique, WireStep,
                    NEW id \in 1..MaxRequestId, NEW call \in GatewayAnswers, Names(id, call)
             PROVE  Names(id, call)'
  OBVIOUS
<1> USE DEF TypeOK, WireTypeOK, IdsAreUnique, Names, GatewayAnswers
<1>1. ASSUME NEW c \in Calls, Insert(c) PROVE Names(id, call)'
  BY <1>1 DEF Insert
<1>2. ASSUME NEW c \in Calls,
             SendAccepted(c) \/ SendRefused(c) \/ Return(c) \/ Timeout(c) \/ Drop(c)
      PROVE  Names(id, call)'
  BY <1>2 DEF SendAccepted, SendRefused, Return, Timeout, Drop
<1>3. ASSUME \/ \E reply \in downlink : Accept(reply.id, reply.of)
             \/ FailAllPending \/ UNCHANGED wireVars
      PROVE  Names(id, call)'
  BY <1>3 DEF Accept, FailAllPending
<1>4. ASSUME AllocateId PROVE Names(id, call)'
  BY <1>4 DEF AllocateId
<1>5. QED
  BY <1>1, <1>2, <1>3, <1>4 DEF WireStep

(* A step only moves frames about, adds a call's own or a fresh heartbeat. *)
InboxMatches ==
    \A i \in DOMAIN inbox :
        inbox[i].op = "send" => Names(inbox[i].frame.id, inbox[i].frame.call)
QueueMatches == \A i \in DOMAIN queued : Names(queued[i].id, queued[i].call)
LinkMatches ==
    /\ \A frame \in uplink : Names(frame.id, frame.call)
    /\ \A reply \in downlink :
          Names(reply.id, reply.of) /\ (reply.of \in Calls => reply.of \in served)

LEMMA FramesNext ==
    TypeOK /\ IdsAreUnique /\ FramesMatchCalls /\ [Next]_vars => FramesMatchCalls'
<1> SUFFICES ASSUME TypeOK, IdsAreUnique, FramesMatchCalls, [Next]_vars
             PROVE  FramesMatchCalls'
  OBVIOUS
<1>a. \A id \in 1..MaxRequestId, call \in GatewayAnswers : Names(id, call) => Names(id, call)'
  BY NamesStable, WireSteps
<1>b. InboxMatches /\ QueueMatches /\ LinkMatches
  BY DEF FramesMatchCalls, InboxMatches, QueueMatches, LinkMatches
<1>c. /\ \A i \in DOMAIN inbox : inbox[i].op = "send" => inbox[i].frame \in Frame
      /\ \A i \in DOMAIN queued : queued[i] \in Frame
  BY CommandFields DEF TypeOK
<1>1. UNCHANGED inbox => InboxMatches'
  BY <1>a, <1>b, <1>c DEF InboxMatches, Names, Frame
<1>2. UNCHANGED queued => QueueMatches'
  BY <1>a, <1>b, <1>c DEF QueueMatches, Names, Frame
<1>3. uplink' \subseteq uplink /\ downlink' \subseteq downlink /\ served' = served => LinkMatches'
  <2> SUFFICES ASSUME uplink' \subseteq uplink, downlink' \subseteq downlink, served' = served
               PROVE  LinkMatches'
    OBVIOUS
  <2>1. /\ \A frame \in uplink : frame.id \in 1..MaxRequestId /\ frame.call \in GatewayAnswers
        /\ \A reply \in downlink : reply.id \in 1..MaxRequestId /\ reply.of \in GatewayAnswers
    BY DEF TypeOK, Frame, Reply
  <2>2. \A frame \in uplink' : Names(frame.id, frame.call)'
    BY <1>a, <1>b, <2>1 DEF LinkMatches
  <2>3. \A reply \in downlink' :
            Names(reply.id, reply.of)' /\ (reply.of \in Calls => reply.of \in served')
    BY <1>a, <1>b, <2>1 DEF LinkMatches
  <2>4. QED
    BY <2>2, <2>3 DEF LinkMatches
<1>4. inbox # <<>> /\ inbox' = Tail(inbox) => InboxMatches'
  <2> SUFFICES ASSUME inbox # <<>>, inbox' = Tail(inbox) PROVE InboxMatches'
    OBVIOUS
  <2>1. \A i \in DOMAIN inbox' : i + 1 \in DOMAIN inbox /\ inbox'[i] = inbox[i + 1]
    BY TailElements DEF TypeOK
  <2>2. QED
    BY <1>a, <1>b, <1>c, <2>1 DEF InboxMatches, Names, Frame
<1>5. inbox' = <<>> => InboxMatches'
  BY DEF InboxMatches
<1>6. queued # <<>> /\ queued' = Tail(queued) => QueueMatches'
  <2> SUFFICES ASSUME queued # <<>>, queued' = Tail(queued) PROVE QueueMatches'
    OBVIOUS
  <2>1. \A i \in DOMAIN queued' : i + 1 \in DOMAIN queued /\ queued'[i] = queued[i + 1]
    BY TailElements DEF TypeOK
  <2>2. QED
    BY <1>a, <1>b, <1>c, <2>1 DEF QueueMatches, Names, Frame
<1>7. queued' = <<>> => QueueMatches'
  BY DEF QueueMatches
<1>8. ASSUME NEW frame \in Frame, Names(frame.id, frame.call), PushQueued(frame)
      PROVE  QueueMatches'
  <2>1. \A i \in DOMAIN queued' :
           queued'[i] = frame \/ \E j \in DOMAIN queued : queued'[i] = queued[j]
    BY <1>8, PushQueuedElements DEF TypeOK
  <2>2. QED
    BY <1>8, <1>a, <1>b, <1>c, <2>1 DEF QueueMatches, Names, Frame
<1>9. ASSUME NEW frame \in Frame, Names(frame.id, frame.call)',
             WriteOk(frame) \/ WriteFails(frame), UNCHANGED <<downlink, served>>
      PROVE  LinkMatches'
  <2>1. /\ \A other \in uplink : other.id \in 1..MaxRequestId /\ other.call \in GatewayAnswers
        /\ \A reply \in downlink : reply.id \in 1..MaxRequestId /\ reply.of \in GatewayAnswers
    BY DEF TypeOK, Frame, Reply
  <2>2. uplink' \subseteq uplink \cup {frame}
    BY <1>9 DEF WriteOk, WriteFails
  <2>3. \A other \in uplink' : Names(other.id, other.call)'
    BY <1>9, <1>a, <1>b, <2>1, <2>2 DEF LinkMatches
  <2>4. \A reply \in downlink' :
            Names(reply.id, reply.of)' /\ (reply.of \in Calls => reply.of \in served')
    BY <1>9, <1>a, <1>b, <2>1 DEF LinkMatches
  <2>5. QED
    BY <2>3, <2>4 DEF LinkMatches
<1>10. InboxMatches' /\ QueueMatches' /\ LinkMatches' => FramesMatchCalls'
  BY DEF FramesMatchCalls, InboxMatches, QueueMatches, LinkMatches
<1>11. ASSUME NEW c \in Calls, SendFrame(c) PROVE FramesMatchCalls'
  <2>1. CASE HasRoom /\ SendAccepted(c)
    <3>1. requestId[c] \in 1..MaxRequestId /\ requestId[c] < nextId /\ c # Ping
      BY <2>1, WireAssumption DEF SendAccepted, IdsAreUnique, TypeOK, WireTypeOK
    <3>2. CallFrame(c) \in Frame /\ Names(CallFrame(c).id, CallFrame(c).call)
      BY <3>1 DEF CallFrame, Frame, GatewayAnswers, Names, TypeOK
    <3>3. \A i \in DOMAIN inbox' :
             \/ i \in DOMAIN inbox /\ inbox'[i] = inbox[i]
             \/ inbox'[i] = [op |-> "send", frame |-> CallFrame(c)]
      <4>1. inbox' = Append(inbox, [op |-> "send", frame |-> CallFrame(c)])
        BY <1>11, <2>1 DEF SendFrame
      <4>2. QED
        BY <3>2, <4>1, CommandFields, AppendElements DEF TypeOK
    <3>4. InboxMatches'
      BY <1>a, <1>b, <1>c, <3>2, <3>3 DEF InboxMatches, Names, Frame
    <3>5. QED
      BY <1>2, <1>3, <1>10, <1>11, <3>4 DEF SendFrame
  <2>2. CASE UNCHANGED inbox
    BY <1>1, <1>2, <1>3, <1>10, <1>11, <2>2 DEF SendFrame
  <2>3. QED
    BY <1>11, <2>1, <2>2 DEF SendFrame
<1>12. ASSUME Shutdown \/ (\E cred \in AnyCredential : Authenticate(cred))
       PROVE  FramesMatchCalls'
  <2>1. CASE UNCHANGED inbox
    BY <1>1, <1>2, <1>3, <1>10, <1>12, <2>1 DEF Shutdown, Authenticate
  <2>2. ASSUME NEW command \in Command, command.op # "send", inbox' = Append(inbox, command)
        PROVE  FramesMatchCalls'
    <3>1. \A i \in DOMAIN inbox' :
             \/ i \in DOMAIN inbox /\ inbox'[i] = inbox[i]
             \/ inbox'[i] = command
      BY <2>2, AppendElements DEF TypeOK
    <3>2. InboxMatches'
      BY <1>a, <1>b, <1>c, <2>2, <3>1 DEF InboxMatches, Names, Frame
    <3>3. QED
      BY <1>2, <1>3, <1>10, <1>12, <3>2 DEF Shutdown, Authenticate
  <2>3. QED
    BY <1>12, <2>1, <2>2, CommandFields DEF Shutdown, Authenticate
<1>13. ASSUME WaitCommand PROVE FramesMatchCalls'
  <2>1. InboxMatches' /\ LinkMatches'
    BY <1>3, <1>4, <1>13 DEF WaitCommand
  <2>2. QueueMatches'
    <3>1. ASSUME Head(inbox).op = "send", PushQueued(Head(inbox).frame) PROVE QueueMatches'
      <4>1. 1 \in DOMAIN inbox /\ Head(inbox) = inbox[1]
        BY <1>13, HeadTailProperties, LenProperties DEF WaitCommand, TypeOK
      <4>2. QED
        BY <1>8, <1>b, <1>c, <3>1, <4>1 DEF InboxMatches
    <3>2. QED
      BY <1>2, <1>13, <3>1 DEF WaitCommand
  <2>3. QED
    BY <1>10, <2>1, <2>2
<1>14. ASSUME DrainFrame PROVE FramesMatchCalls'
  <2>1. 1 \in DOMAIN queued /\ Head(queued) = queued[1]
    BY <1>14, HeadTailProperties, LenProperties DEF DrainFrame, TypeOK
  <2>2. PICK head \in Frame : head = Head(queued) /\ Names(head.id, head.call)
    BY <1>b, <1>c, <2>1 DEF QueueMatches
  <2>3. LinkMatches'
    <3>1. Names(head.id, head.call)'
      BY <1>a, <2>2 DEF Frame, Names
    <3>2. (WriteOk(head) \/ WriteFails(head)) /\ UNCHANGED <<downlink, served>>
      BY <1>14, <2>2 DEF DrainFrame
    <3>3. QED
      BY <1>9, <3>1, <3>2
  <2>4. QED
    BY <1>1, <1>6, <1>7, <1>10, <1>14, <2>3 DEF DrainFrame
<1>15. ASSUME PumpSend PROVE FramesMatchCalls'
  <2>1. 1 \in DOMAIN inbox /\ Head(inbox) = inbox[1]
    BY <1>15, HeadTailProperties, LenProperties DEF PumpSend, TypeOK
  <2>2. PICK head \in Frame : head = Head(inbox).frame /\ Names(head.id, head.call)
    BY <1>b, <1>c, <1>15, <2>1 DEF InboxMatches, PumpSend
  <2>3. LinkMatches'
    <3>1. Names(head.id, head.call)'
      BY <1>a, <2>2 DEF Frame, Names
    <3>2. (WriteOk(head) \/ WriteFails(head)) /\ UNCHANGED <<downlink, served>>
      BY <1>15, <2>2 DEF PumpSend
    <3>3. QED
      BY <1>9, <3>1, <3>2
  <2>4. QueueMatches'
    BY <1>2, <1>8, <1>15, <2>2 DEF PumpSend
  <2>5. QED
    BY <1>4, <1>10, <1>15, <2>3, <2>4 DEF PumpSend
<1>16. ASSUME PumpHeartbeat PROVE FramesMatchCalls'
  <2>0. [id |-> nextId, call |-> Ping, epoch |-> 1] \in Frame
    BY <1>16, HostAssumption DEF PumpHeartbeat, AllocateId, Frame, GatewayAnswers, TypeOK, WireTypeOK
  <2>1. PICK ping \in Frame : ping = [id |-> nextId, call |-> Ping, epoch |-> 1]
    BY <2>0
  <2>2. Names(ping.id, ping.call)'
    BY <1>16, <2>1 DEF PumpHeartbeat, AllocateId, Names, IdsAreUnique, TypeOK, WireTypeOK
  <2>3. LinkMatches'
    BY <1>9, <1>16, <2>1, <2>2 DEF PumpHeartbeat
  <2>4. QED
    BY <1>1, <1>2, <1>10, <1>16, <2>3 DEF PumpHeartbeat
<1>17. ASSUME Serve PROVE FramesMatchCalls'
  <2>1. LinkMatches'
    BY <1>a, <1>b, <1>17 DEF Serve, LinkMatches, Names, Frame, Reply, GatewayAnswers, TypeOK
  <2>2. QED
    BY <1>1, <1>2, <1>10, <1>17, <2>1 DEF Serve
<1>18. ASSUME PumpAuthenticate \/ PumpShutdown PROVE FramesMatchCalls'
  BY <1>2, <1>3, <1>4, <1>10, <1>18 DEF PumpAuthenticate, PumpShutdown
<1>19. ASSUME Exit PROVE FramesMatchCalls'
  BY <1>3, <1>5, <1>7, <1>10, <1>19 DEF Exit
<1>20. ASSUME UNCHANGED <<inbox, queued, served>>, uplink' \subseteq uplink,
              downlink' \subseteq downlink
       PROVE  FramesMatchCalls'
  BY <1>1, <1>2, <1>3, <1>10, <1>20
<1>21. ASSUME \/ \E c \in Calls : StartCall(c) \/ EndCall(c) \/ DropCall(c)
              \/ WaitElapsed \/ ConnectSucceeds \/ ConnectFails \/ DrainDone
              \/ PumpAccept \/ PumpNoticesDrop \/ AfterPump \/ Stop \/ Break
              \/ UNCHANGED vars
       PROVE  FramesMatchCalls'
  BY <1>20, <1>21
  DEF StartCall, EndCall, DropCall, WaitElapsed, ConnectSucceeds, ConnectFails, DrainDone,
      PumpAccept, PumpNoticesDrop, AfterPump, Stop, Break, vars
<1>22. QED
  BY <1>11, <1>12, <1>13, <1>14, <1>15, <1>16, <1>17, <1>18, <1>19, <1>21 DEF Next, Host

-----------------------------------------------------------------------------
(* The slot table.  SlotsMatchCallers is not inductive: a slot must already *)
(* be there when its caller, having sent its frame, starts to wait.        *)
SlotsNamed ==
    \A i \in DOMAIN pending :
        /\ requestId[pending[i]] = i
        /\ caller[pending[i]] \in {"inserted", "waiting", "dropped"}
        /\ answer[pending[i]] = NoAnswer
OpenCallsHaveSlots ==
    \A c \in Calls : caller[c] \in {"inserted", "waiting"} /\ answer[c] = NoAnswer =>
        requestId[c] \in DOMAIN pending /\ pending[requestId[c]] = c
IdleUnanswered == \A c \in Calls : caller[c] = "idle" => answer[c] = NoAnswer
Slots == SlotsNamed /\ OpenCallsHaveSlots /\ IdleUnanswered

LEMMA SlotsImply == TypeOK /\ Slots => SlotsMatchCallers
  BY DEF TypeOK, WireTypeOK, Slots, SlotsNamed, OpenCallsHaveSlots, SlotsMatchCallers, Slotted

LEMMA SlotsInit == Init => Slots
  BY DEF Init, WireInit, Slots, SlotsNamed, OpenCallsHaveSlots, IdleUnanswered

LEMMA SlotsNext == TypeOK /\ IdsAreUnique /\ Slots /\ WireStep => Slots'
<1> SUFFICES ASSUME TypeOK, IdsAreUnique, Slots, WireStep PROVE Slots'
  OBVIOUS
<1> USE DEF TypeOK, WireTypeOK, IdsAreUnique, Slots, SlotsNamed, OpenCallsHaveSlots, IdleUnanswered
<1>1. ASSUME NEW c \in Calls, Insert(c) PROVE Slots'
  <2>1. /\ DOMAIN pending' = DOMAIN pending \cup {nextId}
        /\ pending'[nextId] = c
        /\ \A i \in DOMAIN pending : i # nextId => pending'[i] = pending[i]
    BY <1>1 DEF Insert, With
  <2>2. \A i \in DOMAIN pending : i < nextId /\ pending[i] # c
    BY <1>1 DEF Insert
  <2>3. /\ requestId'[c] = nextId /\ caller'[c] = "inserted" /\ answer'[c] = NoAnswer
        /\ \A d \in Calls \ {c} : /\ requestId'[d] = requestId[d]
                                  /\ caller'[d] = caller[d]
        /\ answer' = answer
    BY <1>1 DEF Insert
  <2>4. SlotsNamed'
    BY <2>1, <2>2, <2>3
  <2>5. OpenCallsHaveSlots'
    BY <2>1, <2>2, <2>3
  <2>6. IdleUnanswered'
    BY <2>3
  <2>7. QED
    BY <2>4, <2>5, <2>6
<1>2. ASSUME NEW c \in Calls, SendAccepted(c) \/ Return(c) \/ Drop(c) PROVE Slots'
  <2>1. UNCHANGED <<requestId, answer, pending>>
    BY <1>2 DEF SendAccepted, Return, Drop
  <2>2. /\ caller[c] \in {"inserted", "waiting"}
        /\ caller'[c] \in {"waiting", "dropped", "returned"}
        /\ caller'[c] = "returned" => answer[c] # NoAnswer
        /\ \A d \in Calls \ {c} : caller'[d] = caller[d]
    BY <1>2 DEF SendAccepted, Return, Drop
  <2>3. SlotsNamed'
    <3>1. ASSUME NEW i \in DOMAIN pending
          PROVE  /\ requestId[pending[i]] = i /\ answer[pending[i]] = NoAnswer
                 /\ caller'[pending[i]] \in {"inserted", "waiting", "dropped"}
      BY <2>2
    <3>2. QED
      BY <2>1, <3>1
  <2>4. OpenCallsHaveSlots' /\ IdleUnanswered'
    BY <2>1, <2>2
  <2>5. QED
    BY <2>3, <2>4
<1>3. ASSUME NEW c \in Calls, SendRefused(c) \/ Timeout(c) PROVE Slots'
  <2>1. /\ DOMAIN pending' = DOMAIN pending \ {requestId[c]}
        /\ \A i \in DOMAIN pending' : pending'[i] = pending[i]
    BY <1>3 DEF SendRefused, Timeout, Without
  <2>2. /\ requestId' = requestId
        /\ caller'[c] = "returned" /\ answer'[c] # NoAnswer /\ caller[c] # "idle"
        /\ \A d \in Calls \ {c} : caller'[d] = caller[d] /\ answer'[d] = answer[d]
    BY <1>3 DEF SendRefused, Timeout, NoAnswer
  <2>3. SlotsNamed'
    BY <2>1, <2>2
  <2>4. OpenCallsHaveSlots'
    <3>1. ASSUME NEW d \in Calls, caller'[d] \in {"inserted", "waiting"}, answer'[d] = NoAnswer
          PROVE  requestId'[d] \in DOMAIN pending' /\ pending'[requestId'[d]] = d
      <4>1. d # c /\ caller[d] \in {"inserted", "waiting"} /\ answer[d] = NoAnswer
        BY <2>2, <3>1
      <4>2. /\ requestId[d] \in DOMAIN pending /\ pending[requestId[d]] = d
            /\ requestId[d] # requestId[c]
        BY <4>1
      <4>3. QED
        BY <2>1, <2>2, <4>2
    <3>2. QED
      BY <3>1
  <2>5. IdleUnanswered'
    BY <2>2
  <2>6. QED
    BY <2>3, <2>4, <2>5
<1>4. ASSUME NEW id, NEW ans \in Answers \ {NoAnswer}, Accept(id, ans) PROVE Slots'
  <2>1. CASE id \in DOMAIN pending
    <3>1. /\ DOMAIN pending' = DOMAIN pending \ {id}
          /\ \A i \in DOMAIN pending' : pending'[i] = pending[i]
      BY <1>4, <2>1 DEF Accept, Without
    <3>2. UNCHANGED <<requestId, caller>> /\ requestId[pending[id]] = id /\ pending[id] \in Calls
      BY <1>4, <2>1 DEF Accept
    <3>3. /\ caller[pending[id]] # "dropped" => answer'[pending[id]] = ans
          /\ \A d \in Calls \ {pending[id]} : answer'[d] = answer[d]
      BY <1>4, <2>1, <3>2 DEF Accept, Deliver
    <3>4. QED
      BY <2>1, <3>1, <3>2, <3>3
  <2>2. CASE id \notin DOMAIN pending
    BY <1>4, <2>2 DEF Accept
  <2>3. QED
    BY <2>1, <2>2
<1>5. ASSUME FailAllPending PROVE Slots'
  <2>1. DOMAIN pending' = {} /\ UNCHANGED <<requestId, caller>>
    BY <1>5 DEF FailAllPending, Without
  <2>2. \A c \in Calls : answer[c] = NoAnswer /\ caller[c] \in {"inserted", "waiting"} =>
            answer'[c] # NoAnswer
    BY <1>5 DEF FailAllPending, Deliver, Slotted, NoAnswer
  <2>3. \A c \in Calls : answer[c] # NoAnswer => answer'[c] # NoAnswer
    BY <1>5 DEF FailAllPending, Deliver, NoAnswer
  <2>4. \A c \in Calls : caller[c] = "idle" => answer'[c] = answer[c]
    BY <1>5 DEF FailAllPending, Deliver, Slotted
  <2>5. QED
    BY <2>1, <2>2, <2>3, <2>4
<1>6. ASSUME AllocateId \/ UNCHANGED wireVars PROVE Slots'
  BY <1>6 DEF AllocateId
<1>7. \A reply \in downlink : reply.of \in Answers \ {NoAnswer}
  BY WireAssumption DEF Reply, Answers
<1>8. QED
  BY <1>1, <1>2, <1>3, <1>4, <1>5, <1>6, <1>7 DEF WireStep

(* A caller that waits unanswered has its slot, and no slot outlives a call *)
(* that returned, whatever the interleaving of answers, timers, drops and  *)
(* reconnects.                                                             *)
THEOREM SlotsCorrect == Spec => []SlotsMatchCallers
<1>1. TypeOK /\ IdsAreUnique /\ Slots /\ [Next]_vars => (TypeOK /\ IdsAreUnique /\ Slots)'
  BY TypeNext, IdsNext, WireSteps, SlotsNext
<1>2. QED
  BY <1>1, TypeInit, SlotsInit, SlotsImply, PTL DEF Spec

-----------------------------------------------------------------------------
(* Answers.                                                                *)
LEMMA AnswersNext ==
    /\ TypeOK /\ IdsAreUnique /\ FramesMatchCalls /\ Slots /\ AnswersAreServed
    /\ WireStep /\ served \subseteq served'
    => AnswersAreServed'
<1> SUFFICES ASSUME TypeOK, IdsAreUnique, FramesMatchCalls, Slots, AnswersAreServed,
                    WireStep, served \subseteq served'
             PROVE  AnswersAreServed'
  OBVIOUS
<1> USE DEF TypeOK, WireTypeOK, AnswersAreServed
<1>1. LocalFailures \cap GatewayAnswers = {} /\ NoAnswer \notin GatewayAnswers
  BY WireAssumption
<1>2. ASSUME NEW c \in Calls, Insert(c) \/ SendAccepted(c) \/ Return(c) \/ Drop(c)
      PROVE  AnswersAreServed'
  BY <1>2 DEF Insert, SendAccepted, Return, Drop
<1>3. ASSUME NEW c \in Calls, SendRefused(c) \/ Timeout(c) PROVE AnswersAreServed'
  BY <1>1, <1>3 DEF SendRefused, Timeout, LocalFailures
<1>4. ASSUME NEW reply \in downlink, Accept(reply.id, reply.of) PROVE AnswersAreServed'
  <2>1. CASE reply.id \in DOMAIN pending
    <3>1. PICK owner \in Calls : owner = pending[reply.id] /\ requestId[owner] = reply.id
      BY <2>1 DEF Slots, SlotsNamed
    <3>2. reply.of = owner /\ owner \in served
      <4>1. Names(reply.id, reply.of) /\ (reply.of \in Calls => reply.of \in served)
        BY DEF FramesMatchCalls
      <4>2. reply.id # 0 /\ reply.of \in GatewayAnswers
        BY DEF Reply
      <4>3. QED
        BY <3>1, <4>1, <4>2 DEF Names, IdsAreUnique, GatewayAnswers
    <3>3. \A c \in Calls : answer'[c] = answer[c] \/ (c = owner /\ answer'[c] = reply.of)
      <4>1. Deliver({owner}, reply.of)
        BY <1>4, <2>1, <3>1 DEF Accept
      <4>2. QED
        BY <4>1 DEF Deliver
    <3>4. QED
      BY <3>2, <3>3
  <2>2. CASE reply.id \notin DOMAIN pending
    BY <1>4, <2>2 DEF Accept
  <2>3. QED
    BY <2>1, <2>2
<1>5. ASSUME FailAllPending PROVE AnswersAreServed'
  <2>1. \A c \in Calls : answer'[c] = answer[c] \/ answer'[c] = "disconnected"
    BY <1>5 DEF FailAllPending, Deliver
  <2>2. QED
    BY <1>1, <2>1 DEF LocalFailures
<1>6. ASSUME AllocateId \/ UNCHANGED wireVars PROVE AnswersAreServed'
  BY <1>6 DEF AllocateId
<1>7. QED
  BY <1>2, <1>3, <1>4, <1>5, <1>6 DEF WireStep

(* The gateway only ever serves a call that was made.                      *)
ServedWereMade == \A c \in served : caller[c] # "idle"

LEMMA ServedSteps == [Next]_vars =>
    \/ UNCHANGED served
    \/ Serve
  BY DEF Next, Host, StartCall, SendFrame, EndCall, DropCall, Authenticate, Shutdown,
         WaitElapsed, WaitCommand, ConnectSucceeds, ConnectFails, DrainFrame, DrainDone, PumpSend,
         PumpAuthenticate, PumpShutdown, PumpHeartbeat, PumpAccept, PumpNoticesDrop, AfterPump,
         Stop, Exit, Break, vars

LEMMA ServedGrows == [Next]_vars => served \subseteq served'
  BY ServedSteps DEF Serve

LEMMA ServedNext ==
    /\ TypeOK /\ IdsAreUnique /\ FramesMatchCalls /\ ServedWereMade /\ [Next]_vars
    => ServedWereMade'
<1> SUFFICES ASSUME TypeOK, IdsAreUnique, FramesMatchCalls, ServedWereMade, [Next]_vars
             PROVE  ServedWereMade'
  OBVIOUS
<1> USE DEF TypeOK, WireTypeOK, ServedWereMade
<1>1. \A c \in Calls : caller[c] # "idle" => caller'[c] # "idle"
  <2>1. WireStep
    BY WireSteps
  <2>2. QED
    BY <2>1 DEF WireStep, Insert, SendAccepted, SendRefused, Return, Timeout, Drop, Accept,
                FailAllPending, AllocateId
<1>2. CASE Serve
  <2>1. PICK frame \in uplink : served' = served \cup ({frame.call} \cap Calls)
    BY <1>2 DEF Serve
  <2>2. Names(frame.id, frame.call) /\ frame.id # 0
    BY DEF FramesMatchCalls, Frame
  <2>3. frame.call \in Calls => caller[frame.call] # "idle"
    BY <2>2, WireAssumption DEF Names, IdsAreUnique
  <2>4. QED
    BY <1>1, <2>1, <2>3
<1>3. CASE UNCHANGED served
  BY <1>1, <1>3
<1>4. QED
  BY <1>2, <1>3, ServedSteps

-----------------------------------------------------------------------------
(* The inductive invariant: TypeOK and SlotsMatchCallers say nothing of the *)
(* frames and replies on their way, which decide what a caller is told.    *)
IInv ==
    TypeOK /\ IdsAreUnique /\ FramesMatchCalls /\ Slots /\ AnswersAreServed /\ ServedWereMade

LEMMA IInvInit == Init => IInv
<1> SUFFICES ASSUME Init PROVE IInv
  OBVIOUS
<1>1. FramesMatchCalls
  BY DEF Init, FramesMatchCalls
<1>2. AnswersAreServed
  BY WireAssumption DEF Init, WireInit, AnswersAreServed
<1>3. ServedWereMade
  BY DEF Init, ServedWereMade
<1>4. QED
  BY <1>1, <1>2, <1>3, TypeInit, SlotsInit DEF IInv

LEMMA IInvNext == IInv /\ [Next]_vars => IInv'
  BY TypeNext, IdsNext, FramesNext, SlotsNext, AnswersNext, ServedNext, WireSteps, ServedGrows
  DEF IInv

LEMMA IInvCorrect == Spec => []IInv
  BY IInvInit, IInvNext, PTL DEF Spec

(* A caller is only ever given the gateway's answer to its own request.    *)
THEOREM AnswersCorrect == Spec => []AnswersAreOwn
<1>1. IInv => AnswersAreOwn
  BY DEF IInv, AnswersAreServed, AnswersAreOwn
<1>2. QED
  BY <1>1, IInvCorrect, PTL

-----------------------------------------------------------------------------
(* Refinement: every step of the host and the wire is a step of the        *)
(* contract for one call, or leaves every outcome as it is.                *)
Outcomes == [c \in Calls |-> Outcome(c)]

LEMMA OutcomeCases ==
    \A c \in Calls : caller[c] \in CallerStates =>
        /\ caller[c] = "idle" => Outcome(c) = "idle"
        /\ caller[c] \in {"inserted", "waiting"} => Outcome(c) = "open"
        /\ caller[c] = "dropped" => Outcome(c) = "abandoned"
        /\ caller[c] = "returned" /\ answer[c] \in GatewayAnswers => Outcome(c) = "answered"
        /\ caller[c] = "returned" /\ answer[c] \notin GatewayAnswers => Outcome(c) = "failed"
  BY DEF Outcome, CallerStates

LEMMA OutcomesSame ==
    ASSUME UNCHANGED caller,
           \A c \in Calls : caller[c] \in CallerStates,
           \A c \in Calls : caller[c] = "returned" => answer'[c] = answer[c]
    PROVE  UNCHANGED Outcomes
<1>1. \A c \in Calls : Outcome(c)' = Outcome(c)
  BY DEF Outcome, CallerStates
<1>2. QED
  BY <1>1 DEF Outcomes

LEMMA OutcomesChange ==
    ASSUME NEW c \in Calls, NEW to, Outcome(c)' = to,
           \A d \in Calls \ {c} : caller'[d] = caller[d] /\ answer'[d] = answer[d]
    PROVE  Outcomes' = [Outcomes EXCEPT ![c] = to]
<1>1. \A d \in Calls \ {c} : Outcome(d)' = Outcome(d)
  BY DEF Outcome
<1>2. QED
  BY <1>1 DEF Outcomes

LEMMA ContractStep ==
    IInv /\ IInv' /\ [Next]_vars => [Contract!Next]_<<Outcomes, served>>
<1> SUFFICES ASSUME IInv, IInv', [Next]_vars
             PROVE  [Contract!Next]_<<Outcomes, served>>
  OBVIOUS
<1> USE DEF IInv, TypeOK, WireTypeOK, Contract!Next, Contract!Become
<1>1. Contract!Next <=>
        \E c \in Calls :
          \/ Outcomes[c] = "idle" /\ Outcomes' = [Outcomes EXCEPT ![c] = "open"] /\ UNCHANGED served
          \/ /\ c \in served
             /\ Outcomes[c] = "open" /\ Outcomes' = [Outcomes EXCEPT ![c] = "answered"]
             /\ UNCHANGED served
          \/ /\ Outcomes[c] = "open" /\ UNCHANGED served
             /\ \/ Outcomes' = [Outcomes EXCEPT ![c] = "failed"]
                \/ Outcomes' = [Outcomes EXCEPT ![c] = "abandoned"]
          \/ Outcomes[c] # "idle" /\ served' = served \cup {c} /\ UNCHANGED Outcomes
  BY DEF Contract!Start, Contract!Answer, Contract!Fail, Contract!Abandon, Contract!Serve, Outcomes
<1>2. \A c \in Calls : caller[c] \in CallerStates /\ caller'[c] \in CallerStates
  OBVIOUS
<1>3. \A c \in Calls : Outcomes[c] = Outcome(c)
  BY DEF Outcomes
<1>4. \A c \in Calls : caller[c] = "returned" => \A i \in DOMAIN pending : pending[i] # c
  BY DEF Slots, SlotsNamed
<1>5. ASSUME NEW c \in Calls, Insert(c), UNCHANGED served PROVE Contract!Next
  <2>1. Outcome(c) = "idle"
    BY <1>2, <1>5, OutcomeCases DEF Insert
  <2>2. Outcome(c)' = "open"
    BY <1>5 DEF Insert, Outcome
  <2>3. Outcomes' = [Outcomes EXCEPT ![c] = "open"]
    BY <1>5, <2>2, OutcomesChange DEF Insert
  <2>4. QED
    BY <1>1, <1>3, <1>5, <2>1, <2>3
<1>6. ASSUME NEW c \in Calls, SendAccepted(c) PROVE UNCHANGED Outcomes
  <2>1. \A d \in Calls : Outcome(d)' = Outcome(d)
    BY <1>6 DEF SendAccepted, Outcome
  <2>2. QED
    BY <2>1 DEF Outcomes
<1>7. ASSUME NEW c \in Calls, SendRefused(c) \/ Timeout(c), UNCHANGED served PROVE Contract!Next
  <2>1. Outcome(c) = "open"
    BY <1>2, <1>7, OutcomeCases DEF SendRefused, Timeout
  <2>2. Outcome(c)' = "failed"
    BY <1>7, WireAssumption DEF SendRefused, Timeout, Outcome, LocalFailures
  <2>3. Outcomes' = [Outcomes EXCEPT ![c] = "failed"]
    BY <1>7, <2>2, OutcomesChange DEF SendRefused, Timeout
  <2>4. QED
    BY <1>1, <1>3, <1>7, <2>1, <2>3
<1>8. ASSUME NEW c \in Calls, Return(c), UNCHANGED served PROVE Contract!Next
  <2>1. Outcome(c) = "open"
    BY <1>2, <1>8, OutcomeCases DEF Return
  <2>2. CASE answer[c] \in GatewayAnswers
    <3>1. Outcome(c)' = "answered"
      BY <1>8, <2>2 DEF Return, Outcome
    <3>2. c \in served
      BY <2>2 DEF AnswersAreServed
    <3>3. Outcomes' = [Outcomes EXCEPT ![c] = "answered"]
      BY <1>8, <3>1, OutcomesChange DEF Return
    <3>4. QED
      BY <1>1, <1>3, <1>8, <2>1, <3>2, <3>3
  <2>3. CASE answer[c] \notin GatewayAnswers
    <3>1. Outcome(c)' = "failed"
      BY <1>8, <2>3 DEF Return, Outcome
    <3>2. Outcomes' = [Outcomes EXCEPT ![c] = "failed"]
      BY <1>8, <3>1, OutcomesChange DEF Return
    <3>3. QED
      BY <1>1, <1>3, <1>8, <2>1, <3>2
  <2>4. QED
    BY <2>2, <2>3
<1>9. ASSUME NEW c \in Calls, Drop(c), UNCHANGED served PROVE Contract!Next
  <2>1. Outcome(c) = "open"
    BY <1>2, <1>9, OutcomeCases DEF Drop
  <2>2. Outcome(c)' = "abandoned"
    BY <1>9 DEF Drop, Outcome
  <2>3. Outcomes' = [Outcomes EXCEPT ![c] = "abandoned"]
    BY <1>9, <2>2, OutcomesChange DEF Drop
  <2>4. QED
    BY <1>1, <1>3, <1>9, <2>1, <2>3
<1>10. ASSUME NEW id, NEW ans, Accept(id, ans) PROVE UNCHANGED Outcomes
  <2>1. \A c \in Calls : caller[c] = "returned" => answer'[c] = answer[c]
    BY <1>4, <1>10 DEF Accept, Deliver
  <2>2. QED
    BY <1>2, <1>10, <2>1, OutcomesSame DEF Accept
<1>11. ASSUME FailAllPending PROVE UNCHANGED Outcomes
  <2>1. \A c \in Calls : caller[c] = "returned" => answer'[c] = answer[c]
    BY <1>4, <1>11 DEF FailAllPending, Deliver, Slotted
  <2>2. QED
    BY <1>2, <1>11, <2>1, OutcomesSame DEF FailAllPending
<1>12. ASSUME AllocateId \/ UNCHANGED wireVars PROVE UNCHANGED Outcomes
  BY <1>2, <1>12, OutcomesSame DEF AllocateId
<1>13. CASE Serve
  <2>1. PICK frame \in uplink : served' = served \cup ({frame.call} \cap Calls)
    BY <1>13 DEF Serve
  <2>2. UNCHANGED wireVars
    BY <1>13 DEF Serve
  <2>3. CASE frame.call \in Calls
    <3>1. served' = served \cup {frame.call} /\ caller[frame.call] # "idle"
      BY <2>1, <2>2, <2>3 DEF ServedWereMade
    <3>2. Outcome(frame.call) # "idle"
      BY <1>2, <2>3, <3>1, OutcomeCases DEF CallerStates
    <3>3. QED
      BY <1>1, <1>3, <1>12, <2>2, <2>3, <3>1, <3>2
  <2>4. CASE frame.call \notin Calls
    BY <1>12, <2>1, <2>2, <2>4
  <2>5. QED
    BY <2>3, <2>4
<1>14. CASE UNCHANGED served
  BY <1>5, <1>6, <1>7, <1>8, <1>9, <1>10, <1>11, <1>12, <1>14, WireSteps DEF WireStep
<1>15. QED
  BY <1>13, <1>14, ServedSteps

(* The wire and the host together implement the contract of a call: it ends *)
(* at most once, and only with the gateway's answer to what the gateway was *)
(* asked in its name, or with a failure.                                   *)
THEOREM ContractKept == Spec => KeepsContract
<1>1. Init => Contract!Init
  BY DEF Init, WireInit, Contract!Init, Outcome
<1>2. IInv /\ IInv' /\ [Next]_vars => [Contract!Next]_Contract!vars
  BY ContractStep DEF Contract!vars, Outcomes
<1>3. QED
  BY <1>1, <1>2, IInvCorrect, PTL DEF Spec, KeepsContract, Contract!Spec

-----------------------------------------------------------------------------
Positions == [0..Len(inbox) -> 1..Len(accepted)]

PositionsFit(pos) ==
    /\ pos[Len(inbox)] = Len(accepted)
    /\ accepted[pos[0]] = credential
    /\ \A i \in 1..Len(inbox) :
          /\ pos[i - 1] <= pos[i]
          /\ inbox[i].op = "authenticate" => accepted[pos[i]] = inbox[i].credential
          /\ inbox[i].op # "authenticate" => pos[i] = pos[i - 1]
          /\ inbox[i].op = "send" => inbox[i].frame.epoch <= pos[i]
    /\ \A i \in 1..Len(queued) : queued[i].epoch <= pos[0]

Ordered == \E pos \in Positions : PositionsFit(pos)

(* The connection was opened with what the host holds, and nothing written *)
(* outlives a connection.                                                  *)
LinkIsCurrent ==
    /\ host \in {"draining", "pumping"} => linkAs = credential
    /\ host \in {"waiting", "connecting"} => uplink = {}

CredentialInv ==
    /\ host # "stopped" => Ordered
    /\ LinkIsCurrent
    /\ NeverUnderAnEarlierCredential

-----------------------------------------------------------------------------
LEMMA ChannelTypes ==
    ASSUME TypeOK
    PROVE  /\ Len(inbox) \in Nat /\ DOMAIN inbox = 1..Len(inbox)
           /\ \A i \in 1..Len(inbox) : inbox[i] \in Command
           /\ Len(queued) \in Nat /\ DOMAIN queued = 1..Len(queued)
           /\ \A i \in 1..Len(queued) : queued[i] \in Frame
           /\ Len(accepted) \in Nat \ {0} /\ DOMAIN accepted = 1..Len(accepted)
  BY LenProperties, ElementOfSeq DEF TypeOK

LEMMA EpochTypes == \A frame \in Frame : frame.epoch \in Nat
  BY HostAssumption DEF Frame

(* A queue that only loses frames keeps the order.                         *)
LEMMA OrderSurvives ==
    ASSUME TypeOK, TypeOK', Ordered, UNCHANGED <<inbox, credential, accepted>>,
           \A i \in DOMAIN queued' : \E j \in DOMAIN queued : queued'[i] = queued[j]
    PROVE  Ordered'
<1>1. PICK pos \in Positions : PositionsFit(pos)
  BY DEF Ordered
<1>2. \A i \in 1..Len(queued') : \E j \in 1..Len(queued) : queued'[i] = queued[j]
  <2>1. DOMAIN queued' = 1..Len(queued')
    BY LenProperties DEF TypeOK
  <2>2. QED
    BY <2>1, ChannelTypes
<1>3. PositionsFit(pos)'
  BY <1>1, <1>2 DEF PositionsFit
<1>4. QED
  BY <1>1, <1>3 DEF Ordered, Positions

(* A command enters the channel: a credential moves the end of it on, and  *)
(* anything else is behind all credentials taken so far.                   *)
LEMMA OrderGrows ==
    ASSUME TypeOK, Ordered, NEW command \in Command,
           inbox' = Append(inbox, command), UNCHANGED <<queued, credential>>,
           \/ /\ command.op = "authenticate"
              /\ accepted' = Append(accepted, command.credential)
           \/ /\ command.op # "authenticate" /\ UNCHANGED accepted
              /\ command.op = "send" => command.frame.epoch <= Len(accepted)
    PROVE  Ordered'
<1>1. PICK pos \in Positions : PositionsFit(pos)
  BY DEF Ordered
<1> DEFINE n == Len(inbox)
<1>0. PICK next : next = [i \in 0..(n + 1) |-> IF i <= n THEN pos[i] ELSE Len(accepted')]
  OBVIOUS
<1>2. /\ n \in Nat /\ Len(inbox') = n + 1
      /\ \A i \in 1..n : inbox'[i] = inbox[i]
      /\ inbox'[n + 1] = command
  BY ChannelTypes, AppendProperties DEF TypeOK
<1>3. /\ Len(accepted') \in Nat \ {0} /\ Len(accepted) \in Nat \ {0}
      /\ Len(accepted) <= Len(accepted')
      /\ \A e \in 1..Len(accepted) : accepted'[e] = accepted[e]
      /\ command.op = "authenticate" => accepted'[Len(accepted')] = command.credential
      /\ command.op # "authenticate" => Len(accepted') = Len(accepted)
  <2>1. Len(accepted) \in Nat \ {0}
    BY ChannelTypes
  <2>2. CASE command.op = "authenticate"
    <3>1. command.credential \in AnyCredential
      BY <2>2, CommandFields
    <3>2. QED
      <4>1. accepted \in Seq(AnyCredential) /\ accepted' = Append(accepted, command.credential)
        BY <2>2 DEF TypeOK
      <4>2. /\ Len(accepted') = Len(accepted) + 1
            /\ \A e \in 1..Len(accepted) : accepted'[e] = accepted[e]
            /\ accepted'[Len(accepted) + 1] = command.credential
        BY <3>1, <4>1, AppendProperties
      <4>3. QED
        BY <2>1, <2>2, <4>2
  <2>3. CASE command.op # "authenticate"
    BY <2>1, <2>3
  <2>4. QED
    BY <2>2, <2>3
<1>4. pos \in [0..n -> 1..Len(accepted)] /\ pos[n] = Len(accepted)
  BY <1>1 DEF Positions, PositionsFit
<1>5. next \in Positions'
  BY <1>0, <1>2, <1>3, <1>4 DEF Positions
<1>6. PositionsFit(next)'
  <2>1. next[n + 1] = Len(accepted') /\ \A i \in 0..n : next[i] = pos[i]
    BY <1>0, <1>2
  <2>2. next[Len(inbox')] = Len(accepted') /\ accepted'[next[0]] = credential'
    <3>1. Len(inbox') = n + 1 /\ 0 \in 0..n /\ n \in Nat
      BY <1>2
    <3>2. pos[0] \in 1..Len(accepted) /\ accepted[pos[0]] = credential
      BY <1>1, <1>4, <3>1 DEF PositionsFit
    <3>3. QED
      BY <1>3, <2>1, <3>1, <3>2
  <2>3. ASSUME NEW i \in 1..n
        PROVE  /\ next[i - 1] <= next[i]
               /\ inbox'[i].op = "authenticate" => accepted'[next[i]] = inbox'[i].credential
               /\ inbox'[i].op # "authenticate" => next[i] = next[i - 1]
               /\ inbox'[i].op = "send" => inbox'[i].frame.epoch <= next[i]
    <3>1. i \in 0..n /\ i - 1 \in 0..n
      BY <1>2
    <3>2. next[i] = pos[i] /\ next[i - 1] = pos[i - 1] /\ inbox'[i] = inbox[i]
      BY <1>2, <2>1, <3>1
    <3>3. pos[i] \in 1..Len(accepted) /\ accepted'[pos[i]] = accepted[pos[i]]
      BY <1>3, <1>4, <3>1
    <3>4. QED
      BY <1>1, <3>2, <3>3 DEF PositionsFit
  <2>4. /\ next[n] <= next[n + 1]
        /\ command.op = "authenticate" => accepted'[next[n + 1]] = command.credential
        /\ command.op # "authenticate" => next[n + 1] = next[n]
        /\ command.op = "send" => command.frame.epoch <= next[n + 1]
    BY <1>2, <1>3, <1>4, <2>1
  <2>5. \A i \in 1..Len(queued') : queued'[i].epoch <= next[0]
    BY <1>1, <1>2, <2>1 DEF PositionsFit
  <2>6. \A i \in 1..Len(inbox') : i \in 1..n \/ (i = n + 1 /\ i - 1 = n)
    BY <1>2
  <2>7. \A i \in 1..Len(inbox') :
          /\ next[i - 1] <= next[i]
          /\ inbox'[i].op = "authenticate" => accepted'[next[i]] = inbox'[i].credential
          /\ inbox'[i].op # "authenticate" => next[i] = next[i - 1]
          /\ inbox'[i].op = "send" => inbox'[i].frame.epoch <= next[i]
    BY <1>2, <2>3, <2>4, <2>6
  <2>8. QED
    BY <2>2, <2>5, <2>7 DEF PositionsFit
<1>7. QED
  BY <1>5, <1>6 DEF Ordered

(* The host takes a command: the first position is behind it.              *)
LEMMA OrderMoves ==
    ASSUME TypeOK, TypeOK', Ordered, inbox # <<>>, inbox' = Tail(inbox), UNCHANGED accepted,
           IF Head(inbox).op = "authenticate" THEN credential' = Head(inbox).credential
                                              ELSE credential' = credential,
           \A i \in DOMAIN queued' :
              \/ Head(inbox).op = "send" /\ queued'[i] = Head(inbox).frame
              \/ \E j \in DOMAIN queued : queued'[i] = queued[j]
    PROVE  Ordered'
<1>1. PICK pos \in Positions : PositionsFit(pos)
  BY DEF Ordered
<1> DEFINE n == Len(inbox)
<1>0. PICK next : next = [i \in 0..(n - 1) |-> pos[i + 1]]
  OBVIOUS
<1>2. /\ n \in Nat \ {0} /\ Len(inbox') = n - 1
      /\ \A i \in 1..(n - 1) : inbox'[i] = inbox[i + 1]
      /\ Head(inbox) = inbox[1]
  BY ChannelTypes, HeadTailProperties, EmptySeq DEF TypeOK
<1>3. pos \in [0..n -> 1..Len(accepted)] /\ Len(accepted) \in Nat
  BY <1>1, ChannelTypes DEF Positions
<1>4. next \in Positions'
  BY <1>0, <1>2, <1>3 DEF Positions
<1>5. \A i \in 0..(n - 1) : next[i] = pos[i + 1]
  BY <1>0
<1>6. PositionsFit(next)'
  <2>1. next[n - 1] = Len(accepted) /\ next[0] = pos[1]
    BY <1>1, <1>2, <1>5 DEF PositionsFit
  <2>2. /\ pos[0] <= pos[1]
        /\ inbox[1].op = "authenticate" => accepted[pos[1]] = inbox[1].credential
        /\ inbox[1].op # "authenticate" => pos[1] = pos[0]
        /\ inbox[1].op = "send" => inbox[1].frame.epoch <= pos[1]
    <3>1. 1 \in 1..n /\ 1 - 1 = 0
      BY <1>2
    <3>2. QED
      BY <1>1, <3>1 DEF PositionsFit
  <2>3. accepted[pos[1]] = credential'
    BY <1>1, <1>2, <2>2 DEF PositionsFit
  <2>4. ASSUME NEW i \in 1..(n - 1)
        PROVE  /\ next[i - 1] <= next[i]
               /\ inbox'[i].op = "authenticate" => accepted[next[i]] = inbox'[i].credential
               /\ inbox'[i].op # "authenticate" => next[i] = next[i - 1]
               /\ inbox'[i].op = "send" => inbox'[i].frame.epoch <= next[i]
    <3>1. i + 1 \in 1..n /\ (i + 1) - 1 = i /\ (i - 1) + 1 = i /\ i - 1 \in 0..(n - 1)
      BY <1>2
    <3>2. next[i] = pos[i + 1] /\ next[i - 1] = pos[i] /\ inbox'[i] = inbox[i + 1]
      BY <1>2, <1>5, <3>1
    <3>3. QED
      BY <1>1, <3>1, <3>2 DEF PositionsFit
  <2>5. ASSUME NEW i \in 1..Len(queued') PROVE queued'[i].epoch <= next[0]
    <3>1. i \in DOMAIN queued'
      BY LenProperties DEF TypeOK
    <3>2. CASE Head(inbox).op = "send" /\ queued'[i] = Head(inbox).frame
      BY <1>2, <2>1, <2>2, <3>2
    <3>3. CASE \E j \in DOMAIN queued : queued'[i] = queued[j]
      <4>1. PICK j \in 1..Len(queued) : queued'[i] = queued[j]
        BY <3>3, ChannelTypes
      <4>2. queued[j].epoch <= pos[0] /\ queued[j].epoch \in Nat
        BY <1>1, ChannelTypes, EpochTypes DEF PositionsFit
      <4>3. pos[0] \in Nat /\ pos[1] \in Nat
        BY <1>2, <1>3
      <4>4. QED
        BY <2>1, <2>2, <4>1, <4>2, <4>3
    <3>4. QED
      BY <3>1, <3>2, <3>3
  <2>6. QED
    BY <1>2, <2>1, <2>3, <2>4, <2>5 DEF PositionsFit
<1>7. QED
  BY <1>4, <1>6 DEF Ordered

-----------------------------------------------------------------------------
LEMMA CredentialInit == Init => CredentialInv
<1> SUFFICES ASSUME Init PROVE CredentialInv
  OBVIOUS
<1>1. Ordered
  <2> DEFINE pos == [i \in 0..0 |-> 1]
  <2>1. Len(inbox) = 0 /\ Len(queued) = 0 /\ Len(accepted) = 1 /\ accepted[1] = Anonymous
    BY DEF Init
  <2>2. pos \in Positions /\ PositionsFit(pos)
    BY <2>1 DEF Positions, PositionsFit, Init
  <2>3. QED
    BY <2>2 DEF Ordered
<1>2. QED
  BY <1>1 DEF CredentialInv, LinkIsCurrent, NeverUnderAnEarlierCredential, Init

(* What is on the wire stays in order while only the history grows.        *)
LEMMA WireStaysOrdered ==
    ASSUME TypeOK, NeverUnderAnEarlierCredential,
           uplink' \subseteq uplink, uplink' = {} \/ UNCHANGED linkAs,
           UNCHANGED accepted \/ \E cred \in AnyCredential : accepted' = Append(accepted, cred)
    PROVE  NeverUnderAnEarlierCredential'
<1>1. /\ Len(accepted) \in Nat /\ Len(accepted') \in Nat /\ Len(accepted) <= Len(accepted')
      /\ \A e \in 1..Len(accepted) : accepted'[e] = accepted[e]
  BY ChannelTypes, AppendProperties DEF TypeOK
<1>2. \A frame \in uplink : frame.epoch \in 1..(MaxChanges + 1)
  BY DEF TypeOK, Frame
<1>3. QED
  BY <1>1, <1>2, HostAssumption DEF NeverUnderAnEarlierCredential

(* A frame that is no newer than where the host stands may be written.     *)
LEMMA WriteKeepsOrder ==
    ASSUME TypeOK, CredentialInv, host \in {"draining", "pumping"}, NEW frame \in Frame,
           WriteOk(frame) \/ WriteFails(frame), UNCHANGED <<linkAs, accepted>>,
           \/ frame.call = Ping /\ frame.epoch = 1
           \/ \E pos \in Positions : PositionsFit(pos) /\ frame.epoch <= pos[0]
    PROVE  NeverUnderAnEarlierCredential'
<1>1. uplink' \subseteq uplink \cup {frame}
  BY DEF WriteOk, WriteFails
<1>2. (frame.call = Ping /\ frame.epoch = 1) \/ \E e \in frame.epoch..Len(accepted) : linkAs = accepted[e]
  <2>1. CASE frame.call = Ping /\ frame.epoch = 1
    BY <2>1
  <2>2. CASE \E pos \in Positions : PositionsFit(pos) /\ frame.epoch <= pos[0]
    <3>1. PICK pos \in Positions : PositionsFit(pos) /\ frame.epoch <= pos[0]
      BY <2>2
    <3>2. pos[0] \in 1..Len(accepted) /\ Len(accepted) \in Nat /\ frame.epoch \in Nat
      BY ChannelTypes, EpochTypes DEF Positions
    <3>3. linkAs = accepted[pos[0]]
      BY <3>1 DEF PositionsFit, CredentialInv, LinkIsCurrent
    <3>4. QED
      BY <3>1, <3>2, <3>3
  <2>3. QED
    BY <2>1, <2>2
<1>3. ASSUME NEW other \in uplink'
      PROVE  \E e \in other.epoch..Len(accepted) : linkAs = accepted[e] \/ other.call = Ping
  <2>1. CASE other \in uplink
    BY <2>1 DEF CredentialInv, NeverUnderAnEarlierCredential
  <2>2. CASE other = frame
    <3>1. frame.epoch \in 1..(MaxChanges + 1) /\ Len(accepted) \in Nat \ {0}
      BY ChannelTypes DEF Frame
    <3>2. QED
      BY <1>2, <2>2, <3>1, HostAssumption
  <2>3. QED
    BY <1>1, <2>1, <2>2
<1>4. QED
  BY <1>3 DEF NeverUnderAnEarlierCredential

-----------------------------------------------------------------------------
(* One step lemma per group of actions that move the same things.          *)
USE DEF wireVars, hostVars, netVars, historyVars

LEMMA ApplicationKeepsInv ==
    ASSUME TypeOK, TypeOK', CredentialInv,
           \/ \E c \in Calls : StartCall(c) \/ SendFrame(c) \/ EndCall(c) \/ DropCall(c)
           \/ \E cred \in AnyCredential : Authenticate(cred)
           \/ Shutdown
    PROVE  CredentialInv'
<1> USE DEF CredentialInv
<1>1. UNCHANGED <<queued, credential, host, linkAs, uplink>>
  BY DEF StartCall, SendFrame, EndCall, DropCall, Authenticate, Shutdown
<1>2. \/ UNCHANGED <<inbox, accepted>>
      \/ /\ host # "stopped"
         /\ \E command \in Command :
              /\ inbox' = Append(inbox, command)
              /\ \/ /\ command.op = "authenticate"
                    /\ accepted' = Append(accepted, command.credential)
                 \/ /\ command.op # "authenticate" /\ UNCHANGED accepted
                    /\ command.op = "send" => command.frame.epoch <= Len(accepted)
  <2>1. ASSUME NEW c \in Calls, StartCall(c) \/ EndCall(c) \/ DropCall(c)
        PROVE  UNCHANGED <<inbox, accepted>>
    BY <2>1 DEF StartCall, EndCall, DropCall
  <2>2. ASSUME NEW c \in Calls, SendFrame(c), UNCHANGED inbox
        PROVE  UNCHANGED <<inbox, accepted>>
    BY <2>2 DEF SendFrame
  <2>3. ASSUME NEW c \in Calls, SendFrame(c), inbox' # inbox
        PROVE  <1>2
    <3>1. /\ HasRoom /\ UNCHANGED accepted
          /\ inbox' = Append(inbox, [op |-> "send", frame |-> CallFrame(c)])
      BY <2>3 DEF SendFrame
    <3>2. inbox'[Len(inbox) + 1] = [op |-> "send", frame |-> CallFrame(c)]
          /\ Len(inbox') = Len(inbox) + 1 /\ Len(inbox) \in Nat
      BY <3>1, ChannelTypes DEF TypeOK
    <3>3. [op |-> "send", frame |-> CallFrame(c)] \in Command
      <4>1. Len(inbox) + 1 \in 1..Len(inbox')
        BY <3>2
      <4>2. inbox'[Len(inbox) + 1] \in Command
        BY <4>1, LenProperties, ElementOfSeq DEF TypeOK
      <4>3. QED
        BY <3>2, <4>2
    <3>4. CallFrame(c).epoch = Len(accepted) /\ Len(accepted) \in Nat
      BY ChannelTypes DEF CallFrame
    <3>5. QED
      BY <3>1, <3>3, <3>4 DEF HasRoom
  <2>4. ASSUME NEW cred \in AnyCredential, Authenticate(cred)
        PROVE  <1>2
    BY <2>4, CommandFields DEF Authenticate, HasRoom
  <2>5. ASSUME Shutdown PROVE <1>2
    BY <2>5, CommandFields DEF Shutdown, HasRoom
  <2>6. QED
    BY <2>1, <2>2, <2>3, <2>4, <2>5
<1>3. host' # "stopped" => Ordered'
  <2>1. CASE UNCHANGED <<inbox, accepted>>
    BY <1>1, <2>1, OrderSurvives
  <2>2. CASE host # "stopped" /\ inbox' # inbox
    BY <1>1, <1>2, <2>2, OrderGrows
  <2>3. QED
    BY <1>1, <1>2, <2>1, OrderGrows
<1>4. LinkIsCurrent'
  BY <1>1 DEF LinkIsCurrent
<1>5. NeverUnderAnEarlierCredential'
  <2>1. \/ UNCHANGED accepted
        \/ \E cred \in AnyCredential : accepted' = Append(accepted, cred)
    BY <1>2, CommandFields
  <2>2. QED
    BY <1>1, <2>1, WireStaysOrdered
<1>6. QED
  BY <1>3, <1>4, <1>5

(* Steps that take no command and write nothing.                           *)
LEMMA QuietKeepsInv ==
    ASSUME TypeOK, TypeOK', CredentialInv,
           \/ WaitElapsed \/ ConnectSucceeds \/ ConnectFails \/ DrainDone
           \/ PumpAccept \/ PumpNoticesDrop \/ AfterPump \/ Stop \/ Serve \/ Break
           \/ UNCHANGED vars
    PROVE  CredentialInv'
<1> USE DEF CredentialInv
<1>1. UNCHANGED <<inbox, queued, credential, accepted>>
  BY DEF WaitElapsed, ConnectSucceeds, ConnectFails, DrainDone, PumpAccept, PumpNoticesDrop,
         AfterPump, Stop, Serve, Break, vars
<1>2. host' # "stopped" => host # "stopped"
  BY DEF WaitElapsed, ConnectSucceeds, ConnectFails, DrainDone, PumpAccept, PumpNoticesDrop,
         AfterPump, Stop, Serve, Break, vars
<1>3. host' # "stopped" => Ordered'
  BY <1>1, <1>2, OrderSurvives
<1>4. /\ uplink' \subseteq uplink
      /\ uplink' = {} \/ UNCHANGED linkAs
  BY DEF WaitElapsed, ConnectSucceeds, ConnectFails, DrainDone, PumpAccept, PumpNoticesDrop,
         AfterPump, Stop, Serve, Break, vars, LinkIsCurrent
<1>5. LinkIsCurrent'
  BY <1>1, <1>4
  DEF WaitElapsed, ConnectSucceeds, ConnectFails, DrainDone, PumpAccept, PumpNoticesDrop,
      AfterPump, Stop, Serve, Break, vars, LinkIsCurrent
<1>6. QED
  BY <1>1, <1>3, <1>4, <1>5, WireStaysOrdered

(* Steps that take a command while nothing is written.                     *)
LEMMA TakingKeepsInv ==
    ASSUME TypeOK, TypeOK', CredentialInv,
           WaitCommand \/ PumpAuthenticate \/ PumpShutdown
    PROVE  CredentialInv'
<1> USE DEF CredentialInv
<1>1. /\ inbox # <<>> /\ inbox' = Tail(inbox) /\ host # "stopped"
      /\ UNCHANGED <<accepted, linkAs, uplink>>
  BY DEF WaitCommand, PumpAuthenticate, PumpShutdown
<1>2. Head(inbox) \in Command
  BY <1>1, HeadTailProperties DEF TypeOK
<1>3. IF Head(inbox).op = "authenticate" THEN credential' = Head(inbox).credential
                                         ELSE credential' = credential
  BY DEF WaitCommand, PumpAuthenticate, PumpShutdown
<1>4. \A i \in DOMAIN queued' :
          \/ Head(inbox).op = "send" /\ queued'[i] = Head(inbox).frame
          \/ \E j \in DOMAIN queued : queued'[i] = queued[j]
  <2>1. CASE UNCHANGED queued
    BY <2>1
  <2>2. CASE Head(inbox).op = "send" /\ PushQueued(Head(inbox).frame)
    <3>1. Head(inbox).frame \in Frame
      BY <1>2, <2>2, CommandFields
    <3>2. QED
      BY <2>2, <3>1, PushQueuedElements DEF TypeOK
  <2>3. QED
    BY <2>1, <2>2 DEF WaitCommand, PumpAuthenticate, PumpShutdown
<1>5. Ordered'
  BY <1>1, <1>3, <1>4, OrderMoves
<1>6. LinkIsCurrent'
  BY <1>1 DEF WaitCommand, PumpAuthenticate, PumpShutdown, LinkIsCurrent, RequiresReconnect
<1>7. QED
  BY <1>1, <1>5, <1>6, WireStaysOrdered

(* Steps that write.                                                       *)
LEMMA WritingKeepsInv ==
    ASSUME TypeOK, TypeOK', CredentialInv, DrainFrame \/ PumpSend \/ PumpHeartbeat
    PROVE  CredentialInv'
<1> USE DEF CredentialInv
<1>1. /\ UNCHANGED <<credential, linkAs, accepted>>
      /\ host \in {"draining", "pumping"} /\ host' \in {host, "dropped"}
  BY DEF DrainFrame, PumpSend, PumpHeartbeat, WriteOk, WriteFails
<1>2. LinkIsCurrent'
  BY <1>1 DEF LinkIsCurrent
<1>3. CASE DrainFrame
  <2>1. Head(queued) \in Frame /\ Head(queued) = queued[1] /\ 1 \in 1..Len(queued)
    BY <1>3, ChannelTypes, EmptySeq DEF DrainFrame, TypeOK
  <2>2. \E pos \in Positions : PositionsFit(pos) /\ Head(queued).epoch <= pos[0]
    BY <1>1, <2>1 DEF Ordered, PositionsFit
  <2>3. NeverUnderAnEarlierCredential'
    BY <1>1, <1>3, <2>1, <2>2, WriteKeepsOrder DEF DrainFrame
  <2>4. \A i \in DOMAIN queued' : \E j \in DOMAIN queued : queued'[i] = queued[j]
    <3>1. CASE queued' = Tail(queued)
      BY <1>3, <3>1, TailElements DEF DrainFrame, TypeOK
    <3>2. CASE queued' = <<>>
      BY <3>2
    <3>3. QED
      BY <1>3, <3>1, <3>2 DEF DrainFrame
  <2>5. Ordered'
    BY <1>1, <1>3, <2>4, OrderSurvives DEF DrainFrame
  <2>6. QED
    BY <1>2, <2>3, <2>5
<1>4. CASE PumpSend
  <2>1. /\ inbox # <<>> /\ inbox' = Tail(inbox) /\ Head(inbox).op = "send"
        /\ Head(inbox) = inbox[1] /\ 1 \in 1..Len(inbox) /\ Head(inbox) \in Command
    BY <1>4, ChannelTypes, HeadTailProperties, EmptySeq DEF PumpSend, TypeOK
  <2>2. Head(inbox).frame \in Frame
    BY <2>1, CommandFields
  <2>3. \E pos \in Positions : PositionsFit(pos) /\ Head(inbox).frame.epoch <= pos[0]
    <3>1. PICK pos \in Positions : PositionsFit(pos)
      BY <1>1 DEF Ordered
    <3>2. inbox[1].frame.epoch <= pos[1] /\ pos[1] = pos[1 - 1]
      BY <2>1, <3>1 DEF PositionsFit
    <3>3. QED
      BY <2>1, <3>1, <3>2
  <2>4. NeverUnderAnEarlierCredential'
    BY <1>1, <1>4, <2>2, <2>3, WriteKeepsOrder DEF PumpSend
  <2>5. \A i \in DOMAIN queued' :
          \/ Head(inbox).op = "send" /\ queued'[i] = Head(inbox).frame
          \/ \E j \in DOMAIN queued : queued'[i] = queued[j]
    <3>1. CASE UNCHANGED queued
      BY <3>1
    <3>2. CASE PushQueued(Head(inbox).frame)
      BY <2>1, <2>2, <3>2, PushQueuedElements DEF TypeOK
    <3>3. QED
      BY <1>4, <3>1, <3>2 DEF PumpSend
  <2>6. Ordered'
    BY <1>1, <2>1, <2>5, OrderMoves
  <2>7. QED
    BY <1>2, <2>4, <2>6
<1>5. CASE PumpHeartbeat
  <2> DEFINE ping == [id |-> nextId, call |-> Ping, epoch |-> 1]
  <2>1. ping \in Frame
    BY <1>5, HostAssumption DEF PumpHeartbeat, AllocateId, Frame, GatewayAnswers, TypeOK, WireTypeOK
  <2>2. WriteOk(ping) \/ WriteFails(ping)
    BY <1>5 DEF PumpHeartbeat
  <2>3. ping.call = Ping /\ ping.epoch = 1
    OBVIOUS
  <2> HIDE DEF ping
  <2>4. NeverUnderAnEarlierCredential'
    BY <1>1, <2>1, <2>2, <2>3, WriteKeepsOrder
  <2>5. Ordered'
    BY <1>1, <1>5, OrderSurvives DEF PumpHeartbeat
  <2>6. QED
    BY <1>2, <2>4, <2>5
<1>6. QED
  BY <1>3, <1>4, <1>5

LEMMA ExitKeepsInv == ASSUME TypeOK, CredentialInv, Exit PROVE CredentialInv'
<1>1. UNCHANGED <<credential, linkAs, uplink, accepted>> /\ host' = "stopped"
  BY DEF Exit
<1>2. NeverUnderAnEarlierCredential'
  BY <1>1, WireStaysOrdered DEF CredentialInv
<1>3. QED
  BY <1>1, <1>2 DEF CredentialInv, LinkIsCurrent

LEMMA CredentialNext == IInv /\ CredentialInv /\ [Next]_vars => CredentialInv'
<1> SUFFICES ASSUME IInv, CredentialInv, [Next]_vars PROVE CredentialInv'
  OBVIOUS
<1>1. TypeOK /\ TypeOK'
  BY IInvNext DEF IInv
<1>2. QED
  BY <1>1, ApplicationKeepsInv, QuietKeepsInv, TakingKeepsInv, WritingKeepsInv, ExitKeepsInv
  DEF Next, Host

(* No frame goes out as an account the app had already changed away from   *)
(* when it asked for it.                                                   *)
THEOREM CredentialsKeepOrder == Spec => []NeverUnderAnEarlierCredential
<1>1. CredentialInv => NeverUnderAnEarlierCredential
  BY DEF CredentialInv
<1>2. QED
  BY <1>1, IInvCorrect, CredentialInit, CredentialNext, PTL DEF Spec
=============================================================================
