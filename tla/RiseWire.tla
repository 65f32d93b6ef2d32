------------------------------ MODULE RiseWire ------------------------------
(***************************************************************************)
(* The request/response correlator of rise-engine.  A caller allocates a   *)
(* request id, registers a one-shot slot under it and awaits the slot.     *)
(* The slot is emptied by a response frame, by the caller's own timeout,   *)
(* or by fail_all_pending when the socket host loses its connection.       *)
(*                                                                         *)
(* A call is one use of RiseWire::call; a retry is another call.           *)
(***************************************************************************)
EXTENDS Naturals

CONSTANTS
    Calls,          \* the calls the application makes
    Ping,           \* stands for the host's heartbeat where a call is named
    MaxRequestId    \* bound: ids the allocator may hand out

VARIABLES
    nextId,     \* RequestIdAllocator: the next id, shared with the heartbeat
    requestId,  \* requestId[c]: the id call c was given, 0 before it starts
    caller,     \* caller[c]: where the caller is in RiseWire::call
    answer,     \* answer[c]: what its one-shot channel, then call(), delivers
    pending     \* the slot table: a function from ids to calls

wireVars == <<nextId, requestId, caller, answer, pending>>

(* What a call can be told: the gateway's answer, a payload or a remote     *)
(* error, which is named by the call it is for, or a local failure.         *)
LocalFailures == {"disconnected", "timeout", "notConnected"}
NoAnswer == "none"
GatewayAnswers == Calls \cup {Ping}
Answers == GatewayAnswers \cup LocalFailures \cup {NoAnswer}

ASSUME WireAssumption ==
    /\ Ping \notin Calls
    /\ GatewayAnswers \cap (LocalFailures \cup {NoAnswer}) = {}
    /\ MaxRequestId \in Nat

CallerStates == {"idle", "inserted", "waiting", "returned", "dropped"}

WireTypeOK ==
    /\ nextId \in 1..(MaxRequestId + 1)
    /\ requestId \in [Calls -> 0..MaxRequestId]
    /\ caller \in [Calls -> CallerStates]
    /\ answer \in [Calls -> Answers]
    /\ DOMAIN pending \subseteq 1..MaxRequestId
    /\ pending \in [DOMAIN pending -> Calls]

WireInit ==
    /\ nextId = 1
    /\ requestId = [c \in Calls |-> 0]
    /\ caller = [c \in Calls |-> "idle"]
    /\ answer = [c \in Calls |-> NoAnswer]
    /\ pending = [i \in {} |-> Ping]

-----------------------------------------------------------------------------
(* The slot table. *)
Without(ids) == [i \in DOMAIN pending \ ids |-> pending[i]]
With(id, c) == [i \in DOMAIN pending \cup {id} |-> IF i = id THEN c ELSE pending[i]]
Slotted == {pending[i] : i \in DOMAIN pending}

(* The two halves of call() before its await: the slot goes in first, then  *)
(* the frame is handed to the host's channel, which may have no room.       *)
Insert(c) ==
    /\ caller[c] = "idle"
    /\ nextId <= MaxRequestId
    /\ requestId' = [requestId EXCEPT ![c] = nextId]
    /\ nextId' = nextId + 1
    /\ pending' = With(nextId, c)
    /\ caller' = [caller EXCEPT ![c] = "inserted"]
    /\ UNCHANGED answer

SendAccepted(c) ==
    /\ caller[c] = "inserted"
    /\ caller' = [caller EXCEPT ![c] = "waiting"]
    /\ UNCHANGED <<nextId, requestId, answer, pending>>

SendRefused(c) ==
    /\ caller[c] = "inserted"
    /\ pending' = Without({requestId[c]})
    /\ caller' = [caller EXCEPT ![c] = "returned"]
    /\ answer' = [answer EXCEPT ![c] = "notConnected"]
    /\ UNCHANGED <<nextId, requestId>>

(* The await: the slot's answer is returned, or the timer fires and the     *)
(* slot is forgotten.  A ready answer wins over an elapsed timer.           *)
Return(c) ==
    /\ caller[c] = "waiting"
    /\ answer[c] # NoAnswer
    /\ caller' = [caller EXCEPT ![c] = "returned"]
    /\ UNCHANGED <<nextId, requestId, answer, pending>>

TimeoutKeepsSlot(c) ==      \* mutant: forget() is left out
    /\ caller[c] = "waiting"
    /\ answer[c] = NoAnswer
    /\ caller' = [caller EXCEPT ![c] = "returned"]
    /\ answer' = [answer EXCEPT ![c] = "timeout"]
    /\ UNCHANGED <<nextId, requestId, pending>>
Timeout(c) ==
    /\ caller[c] = "waiting"
    /\ answer[c] = NoAnswer
    /\ pending' = Without({requestId[c]})
    /\ caller' = [caller EXCEPT ![c] = "returned"]
    /\ answer' = [answer EXCEPT ![c] = "timeout"]
    /\ UNCHANGED <<nextId, requestId>>

(* The call's future is dropped mid-await (sign-out gives up after its      *)
(* grace): nothing runs, so the slot stays behind.                          *)
Drop(c) ==
    /\ caller[c] = "waiting"
    /\ caller' = [caller EXCEPT ![c] = "dropped"]
    /\ UNCHANGED <<nextId, requestId, answer, pending>>

(* Sending into a slot whose receiver is gone is ignored. *)
Deliver(calls, ans) ==
    answer' = [c \in Calls |->
                  IF c \in calls /\ caller[c] # "dropped" THEN ans ELSE answer[c]]

AcceptInOrder(id, ans) ==   \* mutant: answers the oldest slot, whatever the id
    /\ IF pending # <<>>
       THEN LET oldest == CHOOSE i \in DOMAIN pending : \A j \in DOMAIN pending : i <= j IN
            /\ pending' = Without({oldest})
            /\ Deliver({pending[oldest]}, ans)
       ELSE UNCHANGED <<pending, answer>>
    /\ UNCHANGED <<nextId, requestId, caller>>

(* accept(): a response empties the slot of its id; an unknown id is        *)
(* dropped, as the response may outlive its timed-out request.              *)
Accept(id, ans) ==
    /\ IF id \in DOMAIN pending
       THEN /\ pending' = Without({id})
            /\ Deliver({pending[id]}, ans)
       ELSE UNCHANGED <<pending, answer>>
    /\ UNCHANGED <<nextId, requestId, caller>>

FailAllPending ==
    /\ pending' = Without(DOMAIN pending)
    /\ Deliver(Slotted, "disconnected")
    /\ UNCHANGED <<nextId, requestId, caller>>

AllocateIdApart ==          \* mutant: the heartbeat has an allocator of its own
    nextId <= MaxRequestId /\ UNCHANGED wireVars
AllocateId ==
    /\ nextId <= MaxRequestId
    /\ nextId' = nextId + 1
    /\ UNCHANGED <<requestId, caller, answer, pending>>
=============================================================================
