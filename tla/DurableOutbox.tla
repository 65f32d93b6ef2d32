--------------------------- MODULE DurableOutbox ---------------------------
(***************************************************************************)
(* The durable outbox of rise-engine: operations wait in enqueue order,    *)
(* each in the lane of its ordering key.  A drain claims the first ready   *)
(* operation whose lane has none in flight, under a fresh token, sends it  *)
(* and reports how that went with its token.  Reports come late, twice, or *)
(* after a reconnect has made another drain claim the operation again.     *)
(*                                                                         *)
(* The drain itself is external: src/ holds the state machine it drives.   *)
(***************************************************************************)
EXTENDS Naturals

CONSTANTS
    MaxOps,         \* bound: operations enqueued, numbered in enqueue order
    Lanes,          \* ordering keys
    MaxClaims,      \* bound: claims made over the run
    MaxNow,         \* bound: where the clock stops
    BaseDelay,      \* 1000 ms
    MaxExponent     \* 6

Ops == 1..MaxOps
Tokens == 1..MaxClaims
NoToken == 0

ASSUME OutboxAssumption ==
    /\ MaxOps \in Nat /\ MaxClaims \in Nat /\ MaxNow \in Nat
    /\ BaseDelay \in Nat \ {0} /\ MaxExponent \in Nat

VARIABLES
    lane,       \* ordering_key of each operation
    state,      \* DurableState, or "absent" before and after the row exists
    attempts,   \* attempt_count
    nextAt,     \* next_attempt_ms
    token,      \* claim_token
    now,        \* the clock the caller passes in
    claims,     \* how many tokens the drains have used
    claimOf,    \* history: the operation each token was made for
    landed,     \* history: how often each operation was completed
    failedAt    \* history: when its last retryable failure was reported

rowVars == <<state, attempts, nextAt, token>>
vars == <<lane, rowVars, now, claims, claimOf, landed, failedAt>>

States == {"absent", "queued", "in_flight", "retry_waiting", "terminal_failure", "removed"}

TypeOK ==
    /\ lane \in [Ops -> Lanes]
    /\ state \in [Ops -> States]
    /\ attempts \in [Ops -> 0..MaxClaims]
    /\ nextAt \in [Ops -> Nat]
    /\ token \in [Ops -> Tokens \cup {NoToken}]
    /\ now \in 0..MaxNow
    /\ claims \in 0..MaxClaims
    /\ claimOf \in [Tokens -> Ops \cup {0}]
    /\ landed \in [Ops -> Nat]
    /\ failedAt \in [Ops -> 0..MaxNow]

Init ==
    /\ lane \in [Ops -> Lanes]
    /\ state = [op \in Ops |-> "absent"]
    /\ attempts = [op \in Ops |-> 0]
    /\ nextAt = [op \in Ops |-> 0]
    /\ token = [op \in Ops |-> NoToken]
    /\ now = 0 /\ claims = 0
    /\ claimOf = [t \in Tokens |-> 0]
    /\ landed = [op \in Ops |-> 0]
    /\ failedAt = [op \in Ops |-> 0]

-----------------------------------------------------------------------------
Least(a, b) == IF a <= b THEN a ELSE b
Greatest(a, b) == IF a >= b THEN a ELSE b

RetryDelay(op, attempt) ==
    LET exponent == Least(IF attempt = 0 THEN 0 ELSE attempt - 1, MaxExponent)
        base == BaseDelay * 2 ^ exponent
    IN base + (op % Greatest(base \div 4, 1))

IsReady(op) == state[op] \in {"queued", "retry_waiting"} /\ nextAt[op] <= now

BlockedNever(op) == FALSE       \* mutant: the lanes are not held
Blocked(op) == \E other \in Ops : state[other] = "in_flight" /\ lane[other] = lane[op]

ClaimableHasty(op) == state[op] \in {"queued", "retry_waiting"} /\ ~Blocked(op)   \* mutant
Claimable(op) == IsReady(op) /\ ~Blocked(op)

(* next_claimable: the first that qualifies, in enqueue order.             *)
IsNextClaimable(op) == Claimable(op) /\ \A other \in 1..(op - 1) : ~Claimable(other)

CheckClaimLoose(op, t) == state[op] = "in_flight"       \* mutant: any token will do
CheckClaim(op, t) == state[op] = "in_flight" /\ token[op] = t

-----------------------------------------------------------------------------
Enqueue(op) ==
    /\ state[op] = "absent"
    /\ \A earlier \in 1..(op - 1) : state[earlier] # "absent"
    /\ state' = [state EXCEPT ![op] = "queued"]
    /\ nextAt' = [nextAt EXCEPT ![op] = now]
    /\ UNCHANGED <<lane, attempts, token, now, claims, claimOf, landed, failedAt>>

Claim(op) ==
    /\ IsNextClaimable(op)
    /\ claims < MaxClaims
    /\ claims' = claims + 1
    /\ state' = [state EXCEPT ![op] = "in_flight"]
    /\ attempts' = [attempts EXCEPT ![op] = @ + 1]
    /\ token' = [token EXCEPT ![op] = claims + 1]
    /\ claimOf' = [claimOf EXCEPT ![claims + 1] = op]
    /\ UNCHANGED <<lane, nextAt, now, landed, failedAt>>

(* Reports made with token t, which may be stale: then nothing changes.    *)
CompleteKeepingTheClaim(op, t) ==   \* mutant: a completed operation still has its token
    /\ claimOf[t] = op /\ CheckClaim(op, t)
    /\ landed' = [landed EXCEPT ![op] = @ + 1]
    /\ UNCHANGED <<lane, rowVars, now, claims, claimOf, failedAt>>
Complete(op, t) ==
    /\ claimOf[t] = op /\ CheckClaim(op, t)
    /\ token' = [token EXCEPT ![op] = NoToken]
    /\ landed' = [landed EXCEPT ![op] = @ + 1]
    /\ UNCHANGED <<lane, state, attempts, nextAt, now, claims, claimOf, failedAt>>

FailRetryableCounting(op, t) ==  \* mutant: the attempt is counted again when it fails
    /\ claimOf[t] = op /\ CheckClaim(op, t)
    /\ state' = [state EXCEPT ![op] = "retry_waiting"]
    /\ attempts' = [attempts EXCEPT ![op] = @ + 1]
    /\ token' = [token EXCEPT ![op] = NoToken]
    /\ nextAt' = [nextAt EXCEPT ![op] = now + RetryDelay(op, attempts[op])]
    /\ failedAt' = [failedAt EXCEPT ![op] = now]
    /\ UNCHANGED <<lane, now, claims, claimOf, landed>>
FailRetryable(op, t) ==
    /\ claimOf[t] = op /\ CheckClaim(op, t)
    /\ state' = [state EXCEPT ![op] = "retry_waiting"]
    /\ token' = [token EXCEPT ![op] = NoToken]
    /\ nextAt' = [nextAt EXCEPT ![op] = now + RetryDelay(op, attempts[op])]
    /\ failedAt' = [failedAt EXCEPT ![op] = now]
    /\ UNCHANGED <<lane, attempts, now, claims, claimOf, landed>>

FailTerminal(op, t) ==
    /\ claimOf[t] = op /\ CheckClaim(op, t)
    /\ state' = [state EXCEPT ![op] = "terminal_failure"]
    /\ token' = [token EXCEPT ![op] = NoToken]
    /\ UNCHANGED <<lane, attempts, nextAt, now, claims, claimOf, landed, failedAt>>

(* External: whoever completed an operation deletes its row, later.        *)
DeleteRow(op) ==
    /\ state[op] = "in_flight" /\ token[op] = NoToken
    /\ state' = [state EXCEPT ![op] = "removed"]
    /\ UNCHANGED <<lane, attempts, nextAt, token, now, claims, claimOf, landed, failedAt>>

Tick ==
    /\ now < MaxNow
    /\ now' = now + 1
    /\ UNCHANGED <<lane, rowVars, claims, claimOf, landed, failedAt>>

Next ==
    \/ \E op \in Ops : Enqueue(op) \/ Claim(op) \/ DeleteRow(op)
    \/ \E op \in Ops, t \in Tokens : Complete(op, t) \/ FailRetryable(op, t) \/ FailTerminal(op, t)
    \/ Tick

Spec == Init /\ [][Next]_vars
-----------------------------------------------------------------------------
(* Properties.                                                             *)

(* Head-of-line: of the operations of one ordering key, at most one is in  *)
(* flight, through retries, stale reports and rows not yet deleted.        *)
OneInFlightPerLane ==
    \A op, other \in Ops :
        state[op] = "in_flight" /\ state[other] = "in_flight" /\ lane[op] = lane[other]
            => op = other

(* An operation is completed at most once, whatever its drains report and  *)
(* however late: a completed one is in flight without a token, or gone.    *)
LandsAtMostOnce ==
    \A op \in Ops :
        /\ landed[op] <= 1
        /\ landed[op] = 1 => token[op] = NoToken /\ state[op] \in {"in_flight", "removed"}

(* Between a retryable failure and the next claim of the operation lies at *)
(* least the backoff of its attempt: 1 s doubled each time up to 64 s.     *)
BackoffIsHonoured ==
    [][\A op \in Ops :
          state[op] = "retry_waiting" /\ state'[op] = "in_flight" =>
              now - failedAt[op] >= BaseDelay * 2 ^ Least(attempts[op] - 1, MaxExponent)]_vars

(* The outbox keeps its contract: reports that are stale or come twice, and *)
(* the wait between two attempts, are not seen from outside.  Both          *)
(* invariants above are part of it: a second in flight in a lane is no      *)
(* attempt the contract allows, a second landing no standing it knows.      *)
Standing(op) ==
    CASE state[op] = "absent" -> "unknown"
      [] state[op] = "terminal_failure" -> "given_up"
      [] OTHER -> IF landed[op] = 0 THEN "owed"
                  ELSE IF landed[op] = 1 THEN "landed" ELSE "landed again"
InFlight == {op \in Ops : state[op] = "in_flight"}
Promised == INSTANCE OutboxContract WITH
    standing <- [op \in Ops |-> Standing(op)], attempted <- InFlight
KeepsTheOutboxContract == Promised!Spec

(* Two mutations against the same chat cannot land out of order (the       *)
(* comment on next_claimable, rise_sync.rs:209).                           *)
LaneLandsInOrder ==
    \A op, later \in Ops :
        op < later /\ lane[op] = lane[later] /\ landed[later] = 1 =>
            landed[op] = 1 \/ state[op] = "terminal_failure"
=============================================================================
