--------------------------- MODULE EngineProofs -----------------------------
(***************************************************************************)
(* What holds of the parts of the engine crate, for every number of        *)
(* operations, processes, engines, batches, readers, uploads and edits, and*)
(* every bound: the outbox, the store's one owner, its answers and its     *)
(* tables, request ids, the broadcast of revisions, upload progress, the   *)
(* debouncer, the audio ring, the two schedulers of decoders, and then all *)
(* of them as they are put together.                                       *)
(***************************************************************************)
EXTENDS MCEngine, DrawingProofs, Integers, Stepwise, SequenceTheorems,
        FiniteSetTheorems, TLAPS

(* The durable outbox.                                                      *)

RowsOK ==
    /\ lane \in [Ops -> Lanes]
    /\ state \in [Ops -> States]
    /\ token \in [Ops -> Tokens \cup {NoToken}]
    /\ claims \in 0..MaxClaims
    /\ landed \in [Ops -> Nat]

(* Only a row in flight holds a claim token.                               *)
TokensAreHeld ==
    \A op \in Ops :
        token[op] # NoToken => state[op] = "in_flight"

OutboxInv == RowsOK /\ TokensAreHeld /\ OneInFlightPerLane /\ LandsAtMostOnce

LEMMA OutboxInit == Init => OutboxInv
  BY OutboxAssumption
  DEF Init, OutboxInv, RowsOK, States, TokensAreHeld, OneInFlightPerLane, LandsAtMostOnce

USE DEF rowVars

(* The first claimable operation is claimable: its lane is free.           *)
LEMMA ClaimedLaneIsFree ==
    ASSUME NEW op \in Ops, IsNextClaimable(op)
    PROVE  /\ state[op] \in {"queued", "retry_waiting"}
           /\ \A other \in Ops : lane[other] = lane[op] => state[other] # "in_flight"
  BY DEF IsNextClaimable, Claimable, IsReady, Blocked

(* An accepted report leaves its operation without a token.                *)
LEMMA ReportStep ==
    ASSUME OutboxInv, NEW op \in Ops, NEW t \in Tokens,
           Complete(op, t) \/ FailRetryable(op, t) \/ FailTerminal(op, t)
    PROVE  OutboxInv'
<1> USE DEF OutboxInv, RowsOK
<1>1. state[op] = "in_flight" /\ token[op] # NoToken /\ landed[op] = 0
  BY OutboxAssumption
  DEF Complete, FailRetryable, FailTerminal, CheckClaim, Tokens, NoToken, LandsAtMostOnce
<1>2. /\ token' = [token EXCEPT ![op] = NoToken] /\ UNCHANGED <<lane, claims>>
      /\ \/ landed' = [landed EXCEPT ![op] = @ + 1] /\ state' = state
         \/ landed' = landed /\ state' = [state EXCEPT ![op] = "retry_waiting"]
         \/ landed' = landed /\ state' = [state EXCEPT ![op] = "terminal_failure"]
  BY DEF Complete, FailRetryable, FailTerminal
<1>3. RowsOK'
  BY <1>2 DEF States
<1>4. TokensAreHeld'
  BY <1>2 DEF TokensAreHeld
<1>5. OneInFlightPerLane'
  BY <1>2 DEF OneInFlightPerLane
<1>6. LandsAtMostOnce'
  BY <1>1, <1>2 DEF LandsAtMostOnce
<1>7. QED
  BY <1>3, <1>4, <1>5, <1>6

LEMMA OutboxNext == OutboxInv /\ [Next]_vars => OutboxInv'
<1> SUFFICES ASSUME OutboxInv, [Next]_vars PROVE OutboxInv'
  OBVIOUS
<1> USE DEF OutboxInv, RowsOK
<1>1. ASSUME NEW op \in Ops, Enqueue(op) PROVE OutboxInv'
  <2>1. landed[op] = 0
    BY <1>1 DEF Enqueue, LandsAtMostOnce
  <2>2. QED
    BY <1>1, <2>1
    DEF Enqueue, States, TokensAreHeld, OneInFlightPerLane, LandsAtMostOnce
<1>2. ASSUME NEW op \in Ops, Claim(op) PROVE OutboxInv'
  <2>1. /\ state' = [state EXCEPT ![op] = "in_flight"]
        /\ token' = [token EXCEPT ![op] = claims + 1]
        /\ claims' = claims + 1 /\ UNCHANGED <<lane, landed>>
    BY <1>2 DEF Claim
  <2>2. claims + 1 \in Tokens
    BY <1>2, OutboxAssumption DEF Claim, Tokens
  <2>3. landed[op] = 0
    BY <1>2, ClaimedLaneIsFree DEF Claim, LandsAtMostOnce
  <2>4. OneInFlightPerLane'
    BY <1>2, <2>1, ClaimedLaneIsFree DEF Claim, OneInFlightPerLane
  <2>5. RowsOK'
    BY <2>1, <2>2, OutboxAssumption DEF Tokens, States
  <2>6. TokensAreHeld' /\ LandsAtMostOnce'
    BY <2>1, <2>3 DEF TokensAreHeld, LandsAtMostOnce
  <2>7. QED
    BY <2>4, <2>5, <2>6
<1>3. ASSUME NEW op \in Ops, DeleteRow(op) PROVE OutboxInv'
  BY <1>3 DEF DeleteRow, States, TokensAreHeld, OneInFlightPerLane, LandsAtMostOnce
<1>4. ASSUME Tick \/ UNCHANGED vars PROVE OutboxInv'
  BY <1>4 DEF Tick, vars, TokensAreHeld, OneInFlightPerLane, LandsAtMostOnce
<1>5. QED
  BY <1>1, <1>2, <1>3, <1>4, ReportStep DEF Next

LEMMA OutboxCorrect == Spec => []OutboxInv
  BY OutboxInit, OutboxNext, PTL DEF Spec

(* Of the operations of one ordering key, at most one is in flight.        *)
THEOREM LanesAreExclusive == Spec => []OneInFlightPerLane
<1>1. OutboxInv => OneInFlightPerLane
  BY DEF OutboxInv
<1>2. QED
  BY <1>1, OutboxCorrect, PTL

(* No operation is completed twice, nor after it was given up.             *)
THEOREM LandingIsUnique == Spec => []LandsAtMostOnce
<1>1. OutboxInv => LandsAtMostOnce
  BY DEF OutboxInv
<1>2. QED
  BY <1>1, OutboxCorrect, PTL

(* A row in flight without a token, and one that is gone, has landed.       *)
Settled ==
    \A op \in Ops : state[op] = "removed" \/ (state[op] = "in_flight" /\ token[op] = NoToken) =>
        landed[op] = 1

LEMMA SettledInit == Init => Settled
  BY DEF Init, Settled

LEMMA SettledNext == OutboxInv /\ Settled /\ [Next]_vars => Settled'
<1> SUFFICES ASSUME OutboxInv, Settled, [Next]_vars PROVE Settled'
  OBVIOUS
<1> USE DEF OutboxInv, RowsOK, Settled
<1>1. ASSUME NEW op \in Ops, Enqueue(op) PROVE Settled'
  BY <1>1 DEF Enqueue
<1>2. ASSUME NEW op \in Ops, Claim(op) PROVE Settled'
  <2>1. claims + 1 # NoToken
    BY OutboxAssumption DEF NoToken
  <2>2. QED
    BY <1>2, <2>1 DEF Claim
<1>3. ASSUME NEW op \in Ops, DeleteRow(op) PROVE Settled'
  BY <1>3 DEF DeleteRow
<1>4. ASSUME NEW op \in Ops, NEW t \in Tokens, Complete(op, t) PROVE Settled'
  <2>1. landed[op] = 0
    BY <1>4, OutboxAssumption DEF Complete, CheckClaim, Tokens, NoToken, LandsAtMostOnce
  <2>2. QED
    BY <1>4, <2>1 DEF Complete
<1>5. ASSUME NEW op \in Ops, NEW t \in Tokens, FailRetryable(op, t) \/ FailTerminal(op, t)
      PROVE  Settled'
  BY <1>5 DEF FailRetryable, FailTerminal
<1>6. ASSUME Tick \/ UNCHANGED vars PROVE Settled'
  BY <1>6 DEF Tick, vars
<1>7. QED
  BY <1>1, <1>2, <1>3, <1>4, <1>5, <1>6 DEF Next

(* What a row shows of itself, and of its operation's standing.             *)
LEMMA StandingIs ==
    ASSUME OutboxInv, Settled, NEW op \in Ops
    PROVE  /\ Standing(op) = "unknown" <=> state[op] = "absent"
           /\ Standing(op) = "given_up" <=> state[op] = "terminal_failure"
           /\ Standing(op) = "landed" <=> landed[op] = 1
           /\ Standing(op) \in {"unknown", "given_up", "landed", "owed"}
<1>1. landed[op] \in {0, 1} /\ (landed[op] = 1 => state[op] \in {"in_flight", "removed"})
  BY DEF OutboxInv, RowsOK, LandsAtMostOnce
<1>2. QED
  BY <1>1 DEF Standing

LEMMA StandingChanges ==
    ASSUME NEW op \in Ops, NEW from, NEW to, Standing(op) = from, Standing(op)' = to,
           \A other \in Ops : other # op => Standing(other)' = Standing(other)
    PROVE  Promised!Become(op, from, to)
  BY DEF Promised!Become

LEMMA StandingsStay ==
    ASSUME \A op \in Ops : Standing(op)' = Standing(op)
    PROVE  UNCHANGED [op \in Ops |-> Standing(op)]
  OBVIOUS

(* Whatever leaves a row and its landings alone leaves its standing alone.  *)
LEMMA OthersStand ==
    ASSUME NEW op \in Ops, state'[op] = state[op], landed'[op] = landed[op]
    PROVE  Standing(op)' = Standing(op)
  BY DEF Standing

(* A row that waits for its retry or is deleted stands where it stood.      *)
LEMMA AttemptOver ==
    ASSUME NEW op \in Ops, state[op] = "in_flight", state'[op] \in {"retry_waiting", "removed"},
           landed[op] = 0 \/ landed[op] = 1, landed'[op] = landed[op]
    PROVE  Standing(op)' = Standing(op) /\ Standing(op) \in {"owed", "landed"}
<1>1. CASE landed[op] = 0
  <2>1. Standing(op) = "owed"
    BY <1>1 DEF Standing
  <2>2. Standing(op)' = "owed"
    BY <1>1 DEF Standing
  <2>3. QED
    BY <2>1, <2>2
<1>2. CASE landed[op] = 1
  <2>1. Standing(op) = "landed"
    BY <1>2 DEF Standing
  <2>2. Standing(op)' = "landed"
    BY <1>2 DEF Standing
  <2>3. QED
    BY <2>1, <2>2
<1>3. QED
  BY <1>1, <1>2

LEMMA PromiseStep ==
    ASSUME OutboxInv, Settled, OutboxInv', Settled', [Next]_vars
    PROVE  [Promised!Next]_Promised!vars
<1> USE DEF OutboxInv, RowsOK
<1>0. lane' = lane
  BY DEF Next, Enqueue, Claim, DeleteRow, Complete, FailRetryable, FailTerminal, Tick, vars
<1>1. ASSUME NEW op \in Ops, Enqueue(op) PROVE Promised!Next
  <2>1. /\ state[op] = "absent" /\ state' = [state EXCEPT ![op] = "queued"] /\ landed' = landed
    BY <1>1 DEF Enqueue
  <2>2. Standing(op) = "unknown" /\ Standing(op)' = "owed"
    BY <2>1, StandingIs DEF Standing, LandsAtMostOnce
  <2>3. \A other \in Ops : other # op => Standing(other)' = Standing(other)
    BY <2>1, OthersStand
  <2>4. Promised!Become(op, "unknown", "owed")
    BY <2>2, <2>3, StandingChanges
  <2>5. UNCHANGED InFlight
    BY <2>1 DEF InFlight
  <2>6. \A earlier \in Ops : earlier < op => Standing(earlier) # "unknown"
    BY <1>1, StandingIs, OutboxAssumption DEF Enqueue, Ops
  <2>7. Promised!Accept(op)
    BY <1>0, <2>4, <2>5, <2>6 DEF Promised!Accept
  <2>8. QED
    BY <2>7 DEF Promised!Next
<1>2. ASSUME NEW op \in Ops, Claim(op) PROVE Promised!Next
  <2>1. /\ state' = [state EXCEPT ![op] = "in_flight"] /\ landed' = landed
        /\ state[op] \in {"queued", "retry_waiting"}
        /\ \A other \in Ops : lane[other] = lane[op] => state[other] # "in_flight"
    BY <1>2, ClaimedLaneIsFree DEF Claim
  <2>2. Standing(op) = "owed" /\ Standing(op)' = "owed"
    BY <2>1 DEF Standing, LandsAtMostOnce
  <2>3. UNCHANGED [o \in Ops |-> Standing(o)]
    BY <2>1, <2>2, OthersStand, StandingsStay
  <2>4. InFlight' = InFlight \cup {op}
    BY <2>1 DEF InFlight
  <2>5. \A other \in InFlight : lane[other] # lane[op]
    BY <2>1 DEF InFlight
  <2>6. Promised!Attempt(op)
    BY <1>0, <2>2, <2>3, <2>4, <2>5 DEF Promised!Attempt
  <2>7. QED
    BY <2>6 DEF Promised!Next
<1>3. ASSUME NEW op \in Ops, NEW t \in Tokens, Complete(op, t) PROVE Promised!Next
  <2>1. /\ state' = state /\ landed' = [landed EXCEPT ![op] = @ + 1]
        /\ state[op] = "in_flight" /\ token[op] # NoToken
    BY <1>3, OutboxAssumption DEF Complete, CheckClaim, Tokens, NoToken
  <2>2. landed[op] = 0 /\ landed'[op] = 1
    BY <2>1 DEF LandsAtMostOnce
  <2>3. Standing(op) = "owed" /\ Standing(op)' = "landed"
    BY <2>1, <2>2 DEF Standing
  <2>4. \A other \in Ops : other # op => Standing(other)' = Standing(other)
    BY <2>1, OthersStand
  <2>5. Promised!Become(op, "owed", "landed")
    BY <2>3, <2>4, StandingChanges
  <2>6. UNCHANGED InFlight /\ op \in InFlight
    BY <2>1 DEF InFlight
  <2>7. Promised!Land(op)
    BY <1>0, <2>5, <2>6 DEF Promised!Land
  <2>8. QED
    BY <2>7 DEF Promised!Next
<1>4. ASSUME NEW op \in Ops, NEW t \in Tokens, FailTerminal(op, t) PROVE Promised!Next
  <2>1. /\ state' = [state EXCEPT ![op] = "terminal_failure"] /\ landed' = landed
        /\ state[op] = "in_flight" /\ token[op] # NoToken
    BY <1>4, OutboxAssumption DEF FailTerminal, CheckClaim, Tokens, NoToken
  <2>2. Standing(op) = "owed" /\ Standing(op)' = "given_up"
    BY <2>1 DEF Standing, LandsAtMostOnce
  <2>3. \A other \in Ops : other # op => Standing(other)' = Standing(other)
    BY <2>1, OthersStand
  <2>4. Promised!Become(op, "owed", "given_up")
    BY <2>2, <2>3, StandingChanges
  <2>5. InFlight' = InFlight \ {op} /\ op \in InFlight
    BY <2>1 DEF InFlight
  <2>6. Promised!GiveUp(op)
    BY <1>0, <2>4, <2>5 DEF Promised!GiveUp
  <2>7. QED
    BY <2>6 DEF Promised!Next
<1>5. ASSUME NEW op \in Ops, state[op] = "in_flight", landed' = landed,
             \/ state' = [state EXCEPT ![op] = "retry_waiting"] /\ landed[op] = 0
             \/ state' = [state EXCEPT ![op] = "removed"] /\ landed[op] = 1
      PROVE  Promised!Next
  <2>1. Standing(op)' = Standing(op) /\ Standing(op) \in {"owed", "landed"}
    <3>1. state'[op] \in {"retry_waiting", "removed"} /\ landed'[op] = landed[op]
      BY <1>5
    <3>2. landed[op] = 0 \/ landed[op] = 1
      BY <1>5
    <3>3. QED
      BY <1>5, <3>1, <3>2, AttemptOver
  <2>2. UNCHANGED [o \in Ops |-> Standing(o)]
    BY <1>5, <2>1, OthersStand, StandingsStay
  <2>3. InFlight' = InFlight \ {op} /\ op \in InFlight
    BY <1>5 DEF InFlight
  <2>4. Promised!Leave(op)
    BY <1>0, <2>1, <2>2, <2>3 DEF Promised!Leave
  <2>5. QED
    BY <2>4 DEF Promised!Next
<1>6. ASSUME NEW op \in Ops, NEW t \in Tokens, FailRetryable(op, t) PROVE Promised!Next
  <2>1. /\ state' = [state EXCEPT ![op] = "retry_waiting"] /\ landed' = landed
        /\ state[op] = "in_flight" /\ token[op] # NoToken
    BY <1>6, OutboxAssumption DEF FailRetryable, CheckClaim, Tokens, NoToken
  <2>2. landed[op] = 0
    BY <2>1 DEF LandsAtMostOnce
  <2>3. QED
    BY <1>5, <2>1, <2>2
<1>7. ASSUME NEW op \in Ops, DeleteRow(op) PROVE Promised!Next
  BY <1>5, <1>7 DEF DeleteRow, Settled
<1>8. ASSUME Tick \/ UNCHANGED vars PROVE UNCHANGED Promised!vars
  <2>1. state' = state /\ landed' = landed
    BY <1>8 DEF Tick, vars
  <2>2. UNCHANGED [o \in Ops |-> Standing(o)] /\ UNCHANGED InFlight
    BY <2>1, OthersStand, StandingsStay DEF InFlight
  <2>3. QED
    BY <1>0, <2>2 DEF Promised!vars
<1>9. QED
  BY <1>1, <1>2, <1>3, <1>4, <1>6, <1>7, <1>8 DEF Next

(* The outbox keeps its contract: an operation that was enqueued is owed,   *)
(* through retries and reports that are stale or come twice, until it lands *)
(* or is given up, once and for all, and is attempted alone in its lane.    *)
THEOREM OutboxKeepsItsContract == Spec => KeepsTheOutboxContract
<1>1. Init => Promised!Init
  BY DEF Init, Promised!Init, Standing, InFlight
<1>2. OutboxInv /\ Settled /\ OutboxInv' /\ Settled' /\ [Next]_vars => [Promised!Next]_Promised!vars
  BY PromiseStep
<1>3. QED
  BY <1>1, <1>2, OutboxInit, OutboxNext, SettledInit, SettledNext, PTL
     DEF Spec, KeepsTheOutboxContract, Promised!Spec

HIDE DEF rowVars

-----------------------------------------------------------------------------
(* Backoff: what an attempt waits.                                          *)

LEMMA PowersAreNat == ASSUME NEW n \in Nat PROVE 2 ^ n \in Nat
<1>1. IsFiniteSet(1..n) /\ Cardinality(1..n) = n
  BY FS_Interval
<1>2. IsFiniteSet(SUBSET (1..n)) /\ Cardinality(SUBSET (1..n)) = 2 ^ n
  BY <1>1, FS_SUBSET
<1>3. QED
  BY <1>2, FS_CardinalityType

(* What an attempt waits at least, and what the lane adds to it.           *)
Backoff(attempt) == BaseDelay * 2 ^ Least(attempt - 1, MaxExponent)

LEMMA DelayIsNat ==
    ASSUME NEW op \in Ops, NEW attempt \in Nat \ {0}
    PROVE  /\ Backoff(attempt) \in Nat /\ RetryDelay(op, attempt) \in Nat
           /\ RetryDelay(op, attempt) >= Backoff(attempt)
<1> DEFINE exponent == Least(attempt - 1, MaxExponent)
           base == BaseDelay * 2 ^ exponent
           spread == Greatest(base \div 4, 1)
<1>1. exponent \in Nat
  BY OutboxAssumption DEF Least
<1>2. 2 ^ exponent \in Nat
  BY <1>1, PowersAreNat
<1>3. \A p \in Nat : BaseDelay * p \in Nat
  BY OutboxAssumption
<1>4. base \in Nat
  BY <1>2, <1>3
<1>5. RetryDelay(op, attempt) = base + (op % spread)
  BY DEF RetryDelay
<1> HIDE DEF base
<1>6. spread \in Nat /\ spread > 0
  BY <1>4 DEF Greatest
<1>7. op \in Nat /\ op % spread \in Nat
  <2>1. op \in Nat
    BY OutboxAssumption DEF Ops
  <2>2. \A m \in Nat : m > 0 => op % m \in Nat
    BY <2>1
  <2>3. QED
    BY <1>6, <2>1, <2>2
<1>8. QED
  BY <1>4, <1>5, <1>7 DEF Backoff, base

(* A claim is an attempt, and what waits for a retry waits its backoff out. *)
RetriesWait ==
    \A op \in Ops :
        /\ attempts[op] <= claims
        /\ state[op] \in {"in_flight", "retry_waiting"} => attempts[op] > 0
        /\ state[op] = "retry_waiting" => nextAt[op] >= failedAt[op] + Backoff(attempts[op])

RowsInv == TypeOK /\ RetriesWait

LEMMA RowsStart == Init => RowsInv
  BY OutboxAssumption DEF Init, RowsInv, TypeOK, RetriesWait, States, NoToken

LEMMA ClaimKeepsRows == ASSUME RowsInv, NEW op \in Ops, Claim(op) PROVE RowsInv'
<1>1. /\ claims \in Nat /\ claims + 1 \in 1..MaxClaims /\ claims' = claims + 1
      /\ attempts[op] \in Nat /\ attempts[op] + 1 \in 0..MaxClaims
      /\ \A other \in Ops : attempts[other] \in Nat /\ attempts[other] <= claims
  BY OutboxAssumption DEF Claim, RowsInv, TypeOK, RetriesWait
<1>2. TypeOK'
  BY <1>1 DEF Claim, RowsInv, TypeOK, Tokens, States
<1>3. RetriesWait'
  BY <1>1 DEF Claim, RowsInv, TypeOK, RetriesWait, Backoff
<1>4. QED
  BY <1>2, <1>3 DEF RowsInv

LEMMA ReportKeepsRows ==
    ASSUME RowsInv, NEW op \in Ops, NEW t \in Tokens,
           Complete(op, t) \/ FailRetryable(op, t) \/ FailTerminal(op, t)
    PROVE  RowsInv'
<1>1. attempts[op] \in Nat \ {0} /\ now \in Nat /\ state[op] = "in_flight"
  BY OutboxAssumption
  DEF Complete, FailRetryable, FailTerminal, CheckClaim, RowsInv, TypeOK, RetriesWait
<1>2. CASE FailRetryable(op, t)
  <2> DEFINE delay == RetryDelay(op, attempts[op])
             least == Backoff(attempts[op])
  <2>1. least \in Nat /\ delay \in Nat /\ delay >= least
    BY <1>1, DelayIsNat
  <2>2. nextAt' = [nextAt EXCEPT ![op] = now + delay] /\ failedAt' = [failedAt EXCEPT ![op] = now]
        /\ state' = [state EXCEPT ![op] = "retry_waiting"] /\ token' = [token EXCEPT ![op] = NoToken]
        /\ UNCHANGED <<lane, attempts, now, claims, claimOf, landed>>
    BY <1>2 DEF FailRetryable
  <2> HIDE DEF delay
  <2>3. TypeOK'
    BY <1>1, <2>1, <2>2 DEF RowsInv, TypeOK, States
  <2>4. now + delay >= now + least
    BY <1>1, <2>1
  <2> HIDE DEF least
  <2>5. ASSUME NEW other \in Ops, state'[other] = "retry_waiting"
        PROVE  nextAt'[other] >= failedAt'[other] + (Backoff(attempts[other]))'
    <3>1. (Backoff(attempts[other]))' = Backoff(attempts[other])
      BY <2>2 DEF Backoff
    <3>2. CASE other = op
      BY <2>2, <2>4, <3>1, <3>2 DEF RowsInv, TypeOK, least
    <3>3. CASE other # op
      BY <2>2, <2>5, <3>1, <3>3 DEF RowsInv, TypeOK, RetriesWait
    <3>4. QED
      BY <3>2, <3>3
  <2>6. RetriesWait'
    BY <1>1, <2>2, <2>5 DEF RowsInv, TypeOK, RetriesWait
  <2>7. QED
    BY <2>3, <2>6 DEF RowsInv
<1>3. CASE Complete(op, t) \/ FailTerminal(op, t)
  <2>1. TypeOK'
    BY <1>3 DEF Complete, FailTerminal, RowsInv, TypeOK, States
  <2>2. RetriesWait'
    BY <1>3 DEF Complete, FailTerminal, RowsInv, TypeOK, RetriesWait, Backoff
  <2>3. QED
    BY <2>1, <2>2 DEF RowsInv
<1>4. QED
  BY <1>2, <1>3

LEMMA RowsStep == RowsInv /\ [Next]_vars => RowsInv'
<1> SUFFICES ASSUME RowsInv, [Next]_vars PROVE RowsInv'
  OBVIOUS
<1>1. ASSUME NEW op \in Ops, Enqueue(op) PROVE RowsInv'
  <2>1. TypeOK'
    BY <1>1, OutboxAssumption DEF Enqueue, RowsInv, TypeOK, States
  <2>2. RetriesWait'
    BY <1>1 DEF Enqueue, RowsInv, TypeOK, RetriesWait, Backoff
  <2>3. QED
    BY <2>1, <2>2 DEF RowsInv
<1>2. ASSUME NEW op \in Ops, DeleteRow(op) PROVE RowsInv'
  <2>1. TypeOK'
    BY <1>2 DEF DeleteRow, RowsInv, TypeOK, States
  <2>2. RetriesWait'
    BY <1>2 DEF DeleteRow, RowsInv, TypeOK, RetriesWait, Backoff
  <2>3. QED
    BY <2>1, <2>2 DEF RowsInv
<1>3. CASE Tick
  BY <1>3, OutboxAssumption DEF Tick, RowsInv, TypeOK, RetriesWait, Backoff, rowVars
<1>4. CASE UNCHANGED vars
  BY <1>4 DEF vars, rowVars, RowsInv, TypeOK, RetriesWait, Backoff
<1>5. QED
  BY <1>1, <1>2, <1>3, <1>4, ClaimKeepsRows, ReportKeepsRows DEF Next

(* Rows, claim tokens and clock of the outbox keep their types; an attempt  *)
(* is at most one per claim, so its delay is a number.                      *)
THEOREM RowsKeepTheirTypes == Spec => []TypeOK
<1>1. RowsInv => TypeOK
  BY DEF RowsInv
<1>2. QED
  BY <1>1, RowsStart, RowsStep, PTL DEF Spec

(* A retried operation is claimed again only after the delay of its         *)
(* attempt, doubled per attempt up to the exponent's limit (retry_delay_ms, *)
(* is_ready), for every base delay, limit and clock.                        *)
THEOREM BackoffIsWaitedOut == Spec => BackoffIsHonoured
<1>1. RowsInv /\ [Next]_vars =>
        [\A op \in Ops :
          state[op] = "retry_waiting" /\ state'[op] = "in_flight" =>
              now - failedAt[op] >= BaseDelay * 2 ^ Least(attempts[op] - 1, MaxExponent)]_vars
  <2> SUFFICES ASSUME RowsInv, Next, NEW op \in Ops,
                      state[op] = "retry_waiting", state'[op] = "in_flight"
               PROVE  now - failedAt[op] >= BaseDelay * 2 ^ Least(attempts[op] - 1, MaxExponent)
    OBVIOUS
  <2>1. Claim(op)
    BY DEF Next, Enqueue, Claim, DeleteRow, Complete, FailRetryable, FailTerminal, Tick, rowVars,
           RowsInv, TypeOK
  <2>2. nextAt[op] <= now /\ nextAt[op] >= failedAt[op] + Backoff(attempts[op])
    BY <2>1 DEF Claim, IsNextClaimable, Claimable, IsReady, RowsInv, RetriesWait
  <2>3. attempts[op] \in Nat \ {0}
    BY DEF RowsInv, TypeOK, RetriesWait
  <2>4. Backoff(attempts[op]) \in Nat
    BY <2>3, DelayIsNat
  <2>5. now \in Nat /\ failedAt[op] \in Nat /\ nextAt[op] \in Nat
    BY DEF RowsInv, TypeOK
  <2>6. now - failedAt[op] >= Backoff(attempts[op])
    BY <2>2, <2>4, <2>5
  <2>7. QED
    BY <2>6 DEF Backoff
<1>2. QED
  BY <1>1, RowsStart, RowsStep, PTL DEF Spec, BackoffIsHonoured

-----------------------------------------------------------------------------
(* The store: who owns it.                                                  *)

OwnerTypes ==
    /\ leased \in [Processes -> BOOLEAN]
    /\ fileLock \in Engines \cup {NoEngine}
    /\ engine \in [Engines -> EngineStates]
    /\ thread \in [Engines -> ThreadStates]
    /\ version \in BOOLEAN /\ verifier \in BOOLEAN
    /\ mishaps \in Nat /\ astray \subseteq Engines

(* The registry of a process has one entry for the account.                *)
OneLease ==
    \A e, f \in Engines :
        ProcessOf(e) = ProcessOf(f) /\ engine[e] \in HoldsLease /\ engine[f] \in HoldsLease => e = f

(* A thread that has the database open belongs to an engine that holds the *)
(* file lock; after open() only as long as the engine does not go astray.  *)
Preparing == {"preparing", "creating", "versioning", "sealing", "ready"}
ThreadsHaveOwners ==
    \A e \in Engines :
        /\ thread[e] \in Preparing => engine[e] = "starting"
        /\ e \notin astray /\ thread[e] \in {"running", "finishing"}
               => engine[e] \in {"open", "closing", "joining"}

(* The store of an open engine is served, and only the engine's own close  *)
(* is in its channel, unless it went astray.                               *)
Ended == {"closing", "joining", "closed", "releasing", "gone"}
HasClose(e) == \E i \in 1..Len(jobs[e]) : jobs[e][i] = CloseCommand
OpenIsServed ==
    /\ jobs \in [Engines -> Seq(Jobs \cup {CloseCommand})]
    /\ \A e \in Engines \ astray :
          /\ engine[e] = "open" => thread[e] = "running"
          /\ HasClose(e) => engine[e] \in Ended

(* Between the version and the verifier somebody is about to write it.     *)
SealedSoon ==
    mishaps = 0 /\ version /\ ~verifier => \E e \in Engines : thread[e] = "sealing"

OwnerInv ==
    /\ OwnerTypes /\ OneLease /\ GuardsAreReturned
    /\ ThreadsHaveOwners /\ OpenIsServed /\ SealedSoon /\ RightKeyIsAccepted

USE DEF guardVars, databaseVars, EngineGoes, ThreadGoes, Mishap, GoesAstray, CannotOpen, Accepts

LEMMA StartsOwned == StoreInit => OwnerInv
<1> SUFFICES ASSUME StoreInit PROVE OwnerInv
  OBVIOUS
<1>1. OwnerTypes
  BY DEF StoreInit, OwnerTypes, EngineStates, ThreadStates
<1>2. OneLease /\ GuardsAreReturned
  BY StoreAssumption DEF StoreInit, OneLease, GuardsAreReturned, HoldsLease, HoldsLock
<1>3. ThreadsHaveOwners /\ SealedSoon /\ RightKeyIsAccepted
  BY DEF StoreInit, ThreadsHaveOwners, SealedSoon, RightKeyIsAccepted, Preparing
<1>4. OpenIsServed
  BY DEF StoreInit, OpenIsServed, HasClose
<1>5. QED
  BY <1>1, <1>2, <1>3, <1>4 DEF OwnerInv

LEMMA ProcessesOfEngines == \A e \in Engines : ProcessOf(e) \in Processes
  BY DEF Engines, ProcessOf

(* Two threads that prepare would both be under the one file lock.         *)
LEMMA OnePrepares ==
    ASSUME OwnerInv, NEW e \in Engines, NEW f \in Engines,
           thread[e] \in Preparing, thread[f] \in Preparing
    PROVE  e = f
  BY StoreAssumption DEF OwnerInv, GuardsAreReturned, ThreadsHaveOwners, HoldsLock

(* The guards: what moves an engine, or takes or gives back a guard.       *)
GuardStep(e) ==
    \/ ClaimLease(e) \/ AcquireLock(e) \/ SpawnThread(e) \/ Opened(e)
    \/ DropLockAfterFailure(e) \/ DropLeaseAfterFailure(e)
    \/ Close(e) \/ CloseAnswered(e) \/ Join(e) \/ DropLease(e) \/ DropLock(e)

(* Whoever appends a close to a channel: the engine itself, or a holder of *)
(* the handle, with whom the engine goes astray.                           *)
LEMMA AppendsClose ==
    ASSUME OwnerInv, NEW e \in Engines, jobs' = [jobs EXCEPT ![e] = Append(@, CloseCommand)]
    PROVE  /\ jobs' \in [Engines -> Seq(Jobs \cup {CloseCommand})]
           /\ \A f \in Engines : f # e => (HasClose(f)' <=> HasClose(f))
<1>1. jobs[e] \in Seq(Jobs \cup {CloseCommand}) /\ jobs \in [Engines -> Seq(Jobs \cup {CloseCommand})]
  BY DEF OwnerInv, OpenIsServed
<1>2. Append(jobs[e], CloseCommand) \in Seq(Jobs \cup {CloseCommand})
  BY <1>1
<1>3. \A f \in Engines : f # e => jobs'[f] = jobs[f]
  BY <1>1
<1>4. QED
  BY <1>1, <1>2, <1>3 DEF HasClose

LEMMA CloseKeepsServed ==
    ASSUME OwnerInv, NEW e \in Engines, Close(e) PROVE OpenIsServed'
<1>1. astray' = astray /\ thread' = thread /\ engine'[e] \in Ended
      /\ \A f \in Engines : f # e => engine'[f] = engine[f]
  BY DEF Close, OwnerInv, OwnerTypes, Ended
<1>2. CASE jobs' = [jobs EXCEPT ![e] = Append(@, CloseCommand)]
  BY <1>1, <1>2, AppendsClose DEF OwnerInv, OpenIsServed, Ended
<1>3. CASE UNCHANGED jobs
  BY <1>1, <1>3 DEF OwnerInv, OpenIsServed, HasClose, Ended
<1>4. QED
  BY <1>2, <1>3 DEF Close

LEMMA GuardsKeepOwner ==
    ASSUME OwnerInv, NEW e \in Engines, GuardStep(e) PROVE OwnerInv'
<1> USE DEF OwnerInv
<1> USE ProcessesOfEngines
<1>1. OwnerTypes'
  <2>1. leased' \in [Processes -> BOOLEAN] /\ fileLock' \in Engines \cup {NoEngine}
    BY DEF GuardStep, OwnerTypes,
         ClaimLease, AcquireLock, SpawnThread, Opened, DropLockAfterFailure, DropLeaseAfterFailure,
         Close, CloseAnswered, Join, DropLease, DropLock
  <2>2. engine' \in [Engines -> EngineStates]
    BY DEF GuardStep, OwnerTypes, EngineStates, HoldsLease, HoldsLock,
         ClaimLease, AcquireLock, SpawnThread, Opened, DropLockAfterFailure, DropLeaseAfterFailure,
         Close, CloseAnswered, Join, DropLease, DropLock
  <2>3. thread' \in [Engines -> ThreadStates] /\ UNCHANGED <<version, verifier>>
       /\ mishaps' \in Nat /\ astray' \subseteq Engines
    BY DEF GuardStep, OwnerTypes, ThreadStates, Connected,
         ClaimLease, AcquireLock, SpawnThread, Opened, DropLockAfterFailure, DropLeaseAfterFailure,
         Close, CloseAnswered, Join, DropLease, DropLock
  <2>4. QED
    BY <2>1, <2>2, <2>3 DEF OwnerTypes
<1>2. OneLease'
  BY DEF GuardStep, OwnerTypes, OneLease, GuardsAreReturned, HoldsLease,
         ClaimLease, AcquireLock, SpawnThread, Opened, DropLockAfterFailure, DropLeaseAfterFailure,
         Close, CloseAnswered, Join, DropLease, DropLock
<1>3. GuardsAreReturned'
  BY StoreAssumption
  DEF GuardStep, OwnerTypes, OneLease, GuardsAreReturned, HoldsLease, HoldsLock,
         ClaimLease, AcquireLock, SpawnThread, Opened, DropLockAfterFailure, DropLeaseAfterFailure,
         Close, CloseAnswered, Join, DropLease, DropLock
<1>4. ThreadsHaveOwners'
  BY DEF GuardStep, OwnerTypes, ThreadsHaveOwners, OpenIsServed, Preparing,
         ClaimLease, AcquireLock, SpawnThread, Opened, DropLockAfterFailure, DropLeaseAfterFailure,
         Close, CloseAnswered, Join, DropLease, DropLock
<1>5. OpenIsServed'
  <2>1. CASE Close(e)
    BY <2>1, CloseKeepsServed
  <2>2. CASE ~Close(e)
    BY <2>2 DEF GuardStep, OwnerTypes, OpenIsServed, HasClose, Ended,
         ClaimLease, AcquireLock, SpawnThread, Opened, DropLockAfterFailure, DropLeaseAfterFailure,
         CloseAnswered, Join, DropLease, DropLock
  <2>3. QED
    BY <2>1, <2>2
<1>6. SealedSoon' /\ RightKeyIsAccepted'
  BY DEF GuardStep, OwnerTypes, ThreadsHaveOwners, SealedSoon, RightKeyIsAccepted, Preparing,
         ClaimLease, AcquireLock, SpawnThread, Opened, DropLockAfterFailure, DropLeaseAfterFailure,
         Close, CloseAnswered, Join, DropLease, DropLock
<1>7. QED
  BY <1>1, <1>2, <1>3, <1>4, <1>5, <1>6

(* The thread: what moves it, and what it and its clients write.           *)
ThreadStep(e) ==
    \/ ReadVersion(e) \/ VerifierUnread(e) \/ CreateSchema(e) \/ SetVersion(e) \/ WriteVerifier(e)
    \/ (\E j \in Jobs : Submit(e, j))
    \/ RunJob(e) \/ HolderCloses(e) \/ TakeClose(e) \/ Orphaned(e) \/ ThreadEnds(e)

LEMMA ThreadsKeepServed ==
    ASSUME OwnerInv, NEW e \in Engines, ThreadStep(e) PROVE OpenIsServed'
<1> DEFINE Items == Jobs \cup {CloseCommand}
<1>1. jobs \in [Engines -> Seq(Items)] /\ jobs[e] \in Seq(Items) /\ engine' = engine
  BY DEF OwnerInv, OpenIsServed, ThreadStep, ReadVersion, VerifierUnread, CreateSchema,
         SetVersion, WriteVerifier, Submit, RunJob, HolderCloses, TakeClose, Orphaned, ThreadEnds
<1>2. ASSUME UNCHANGED <<jobs, astray>>, UNCHANGED thread \/ thread[e] \in Preparing \/ Orphaned(e) \/ ThreadEnds(e),
             \A f \in Engines : f # e => thread'[f] = thread[f]
      PROVE  OpenIsServed'
  BY <1>1, <1>2 DEF OwnerInv, OwnerTypes, OpenIsServed, ThreadsHaveOwners, HasClose, Preparing,
         Orphaned, ThreadEnds
<1>3. CASE \E j \in Jobs : Submit(e, j)
  <2>1. PICK j \in Jobs : Submit(e, j)
    BY <1>3
  <2>2. CASE jobs' = [jobs EXCEPT ![e] = Append(@, j)]
    <3>1. /\ Append(jobs[e], j) \in Seq(Items) /\ Len(jobs[e]) \in Nat
          /\ Len(Append(jobs[e], j)) = Len(jobs[e]) + 1
          /\ \A i \in 1..Len(jobs[e]) : Append(jobs[e], j)[i] = jobs[e][i]
          /\ Append(jobs[e], j)[Len(jobs[e]) + 1] = j
      BY <1>1
    <3>2. /\ jobs' \in [Engines -> Seq(Items)] /\ jobs'[e] = Append(jobs[e], j)
          /\ \A f \in Engines : f # e => jobs'[f] = jobs[f]
      BY <1>1, <2>2, <3>1
    <3>3. j # CloseCommand
      BY StoreAssumption
    <3>4. HasClose(e)' => HasClose(e)
      <4>1. \A i \in 1..(Len(jobs[e]) + 1) : i \in 1..Len(jobs[e]) \/ i = Len(jobs[e]) + 1
        BY <3>1
      <4>2. QED
        BY <3>1, <3>2, <3>3, <4>1 DEF HasClose
    <3>5. \A f \in Engines : HasClose(f)' => HasClose(f)
      BY <3>2, <3>4 DEF HasClose
    <3>6. QED
      BY <1>1, <2>1, <3>2, <3>5 DEF OwnerInv, OpenIsServed, Submit
  <2>3. CASE UNCHANGED jobs
    BY <1>2, <2>1, <2>3 DEF Submit
  <2>4. QED
    BY <2>1, <2>2, <2>3 DEF Submit
<1>4. CASE RunJob(e)
  <2>1. jobs[e] # <<>> /\ jobs' = [jobs EXCEPT ![e] = Tail(@)] /\ UNCHANGED <<thread, astray>>
    BY <1>4 DEF RunJob
  <2>2. /\ Tail(jobs[e]) \in Seq(Items) /\ Len(jobs[e]) \in Nat
        /\ Len(Tail(jobs[e])) = Len(jobs[e]) - 1
        /\ \A i \in 1..(Len(jobs[e]) - 1) : Tail(jobs[e])[i] = jobs[e][i + 1] /\ i + 1 \in 1..Len(jobs[e])
    BY <1>1, <2>1
  <2>3. /\ jobs' \in [Engines -> Seq(Items)] /\ jobs'[e] = Tail(jobs[e])
        /\ \A f \in Engines : f # e => jobs'[f] = jobs[f]
    BY <1>1, <2>1, <2>2
  <2>4. HasClose(e)' => HasClose(e)
    BY <2>2, <2>3 DEF HasClose
  <2>5. \A f \in Engines : HasClose(f)' => HasClose(f)
    BY <2>3, <2>4 DEF HasClose
  <2>6. QED
    BY <1>1, <2>1, <2>3, <2>5 DEF OwnerInv, OpenIsServed
<1>5. CASE HolderCloses(e)
  <2>1. /\ jobs' = [jobs EXCEPT ![e] = Append(@, CloseCommand)]
        /\ astray' = astray \cup {e} /\ thread' = thread
    BY <1>5 DEF HolderCloses
  <2>2. QED
    BY <1>1, <2>1, AppendsClose DEF OwnerInv, OpenIsServed
<1>6. CASE TakeClose(e)
  <2>1. /\ jobs[e] # <<>> /\ Head(jobs[e]) = CloseCommand /\ astray' = astray
        /\ jobs' = [jobs EXCEPT ![e] = <<>>] /\ thread' = [thread EXCEPT ![e] = "finishing"]
    BY <1>6 DEF TakeClose
  <2>2. HasClose(e)
    BY <1>1, <2>1 DEF HasClose
  <2>3. /\ jobs' \in [Engines -> Seq(Items)]
        /\ \A f \in Engines : f # e => jobs'[f] = jobs[f] /\ thread'[f] = thread[f]
    BY <1>1, <2>1 DEF OwnerInv, OwnerTypes
  <2>4. ~HasClose(e)'
    BY <1>1, <2>1 DEF HasClose
  <2>5. \A f \in Engines : HasClose(f)' => f # e /\ HasClose(f)
    BY <2>3, <2>4 DEF HasClose
  <2>6. QED
    BY <1>1, <2>1, <2>2, <2>3, <2>5 DEF OwnerInv, OpenIsServed, Ended
<1>7. CASE ReadVersion(e) \/ VerifierUnread(e) \/ CreateSchema(e) \/ SetVersion(e) \/ WriteVerifier(e)
  BY <1>2, <1>7 DEF OwnerInv, OwnerTypes, Preparing, ReadVersion, VerifierUnread, CreateSchema,
         SetVersion, WriteVerifier
<1>8. CASE Orphaned(e) \/ ThreadEnds(e)
  BY <1>2, <1>8 DEF OwnerInv, OwnerTypes, Orphaned, ThreadEnds
<1>9. QED
  BY <1>3, <1>4, <1>5, <1>6, <1>7, <1>8 DEF ThreadStep

LEMMA ThreadsKeepOwner ==
    ASSUME OwnerInv, NEW e \in Engines, ThreadStep(e) PROVE OwnerInv'
<1> USE DEF OwnerInv
<1>1. /\ UNCHANGED <<leased, fileLock, engine>>
      /\ mishaps' \in Nat /\ (mishaps' = 0 => mishaps = 0) /\ astray \subseteq astray'
  BY DEF OwnerTypes, ThreadStep, ReadVersion, VerifierUnread, CreateSchema,
         SetVersion, WriteVerifier, Submit, RunJob, HolderCloses, TakeClose, Orphaned, ThreadEnds
<1>2. OwnerTypes'
  <2>1. thread' \in [Engines -> ThreadStates] /\ version' \in BOOLEAN /\ verifier' \in BOOLEAN
        /\ astray' \subseteq Engines
    BY DEF ThreadStep, OwnerTypes, ThreadStates, Connected, ReadVersion, VerifierUnread, CreateSchema,
         SetVersion, WriteVerifier, Submit, RunJob, HolderCloses, TakeClose, Orphaned, ThreadEnds
  <2>2. QED
    BY <1>1, <2>1 DEF OwnerTypes
<1>3. OneLease' /\ GuardsAreReturned'
  BY <1>1 DEF OneLease, GuardsAreReturned
<1>4. ThreadsHaveOwners'
  BY <1>1 DEF ThreadStep, OwnerTypes, ThreadsHaveOwners, Preparing, ReadVersion, VerifierUnread, CreateSchema,
         SetVersion, WriteVerifier, Submit, RunJob, HolderCloses, TakeClose, Orphaned, ThreadEnds
<1>5. SealedSoon'
  <2>1. CASE ReadVersion(e) \/ VerifierUnread(e) \/ CreateSchema(e) \/ SetVersion(e) \/ WriteVerifier(e)
    <3>1. CASE Mishap
      BY <3>1 DEF OwnerTypes, SealedSoon
    <3>2. CASE ~Mishap /\ (ReadVersion(e) \/ VerifierUnread(e) \/ CreateSchema(e))
      <4>1. /\ UNCHANGED <<version, verifier, mishaps>>
            /\ \A f \in Engines : thread[f] = "sealing" => thread'[f] = "sealing"
        BY <3>2 DEF OwnerTypes, ReadVersion, VerifierUnread, CreateSchema
      <4>2. QED
        BY <4>1 DEF SealedSoon
    <3>3. CASE ~Mishap /\ SetVersion(e)
      BY <3>3 DEF OwnerTypes, SealedSoon, SetVersion
    <3>4. CASE ~Mishap /\ WriteVerifier(e)
      BY <3>4 DEF OwnerTypes, SealedSoon, WriteVerifier
    <3>5. QED
      BY <2>1, <3>1, <3>2, <3>3, <3>4
  <2>2. CASE (\E j \in Jobs : Submit(e, j)) \/ RunJob(e) \/ HolderCloses(e) \/ TakeClose(e)
             \/ Orphaned(e) \/ ThreadEnds(e)
    <3>1. /\ UNCHANGED <<version, verifier, mishaps>>
          /\ \A f \in Engines : thread[f] = "sealing" => thread'[f] = "sealing"
      BY <2>2 DEF OwnerTypes, Submit, RunJob, HolderCloses, TakeClose, Orphaned, ThreadEnds
    <3>2. QED
      BY <3>1 DEF SealedSoon
  <2>3. QED
    BY <2>1, <2>2 DEF ThreadStep
<1>6. RightKeyIsAccepted'
  <2>1. CASE ReadVersion(e)
    <3>1. mishaps = 0 /\ version /\ ~verifier
              => \E f \in Engines : thread[f] = "sealing" /\ thread[e] # "preparing"
      BY OnePrepares DEF SealedSoon, Preparing
    <3>2. QED
      BY <1>1, <2>1, <3>1 DEF RightKeyIsAccepted, OwnerTypes, ReadVersion
  <2>2. CASE VerifierUnread(e)
    BY <2>2 DEF RightKeyIsAccepted, OwnerTypes, VerifierUnread
  <2>3. CASE ~ReadVersion(e) /\ ~VerifierUnread(e)
    BY <1>1, <2>3 DEF ThreadStep, OwnerTypes, RightKeyIsAccepted, CreateSchema,
         SetVersion, WriteVerifier, Submit, RunJob, HolderCloses, TakeClose, Orphaned, ThreadEnds
  <2>4. QED
    BY <2>1, <2>2, <2>3
<1>7. OpenIsServed'
  BY ThreadsKeepServed
<1>8. QED
  BY <1>2, <1>3, <1>4, <1>5, <1>6, <1>7

LEMMA KillsKeepOwner ==
    ASSUME OwnerInv, NEW p \in Processes, Kill(p) PROVE OwnerInv'
<1> USE DEF OwnerInv
<1> DEFINE mine == {e \in Engines : ProcessOf(e) = p}
           used == {e \in mine : engine[e] # "idle"}
<1>1. /\ mishaps' = mishaps + 1 /\ UNCHANGED <<version, verifier, astray>>
      /\ leased' = [leased EXCEPT ![p] = FALSE]
      /\ fileLock' = IF fileLock \in mine THEN NoEngine ELSE fileLock
      /\ engine' = [e \in Engines |-> IF e \in used THEN "gone" ELSE engine[e]]
      /\ thread' = [e \in Engines |-> IF e \in mine THEN "none" ELSE thread[e]]
  BY DEF Kill
<1>2. \A e \in Engines : IF e \in mine THEN engine'[e] \in {"gone", "idle"} /\ thread'[e] = "none"
                                       ELSE engine'[e] = engine[e] /\ thread'[e] = thread[e]
  BY <1>1 DEF OwnerTypes
<1>3. OwnerTypes'
  BY <1>1 DEF OwnerTypes, EngineStates, ThreadStates
<1>4. OneLease'
  BY <1>2 DEF OneLease, HoldsLease
<1>5. GuardsAreReturned'
  <2>1. \A q \in Processes : leased'[q] <=>
            \E e \in Engines : ProcessOf(e) = q /\ engine'[e] \in HoldsLease
    BY <1>1, <1>2 DEF GuardsAreReturned, OwnerTypes, HoldsLease
  <2>2. \A e \in Engines : fileLock' = e <=> engine'[e] \in HoldsLock
    BY <1>1, <1>2, StoreAssumption DEF GuardsAreReturned, OwnerTypes, HoldsLock
  <2>3. QED
    BY <2>1, <2>2 DEF GuardsAreReturned
<1>6. ThreadsHaveOwners'
  BY <1>1, <1>2 DEF ThreadsHaveOwners, Preparing
<1>7. SealedSoon' /\ RightKeyIsAccepted'
  BY <1>1 DEF SealedSoon, RightKeyIsAccepted, OwnerTypes
<1>8. OpenIsServed'
  <2>1. jobs' = [e \in Engines |-> IF e \in mine THEN <<>> ELSE jobs[e]]
    BY DEF Kill
  <2>2. jobs' \in [Engines -> Seq(Jobs \cup {CloseCommand})]
    BY <2>1 DEF OpenIsServed
  <2>3. \A e \in Engines : HasClose(e)' => e \notin mine /\ HasClose(e)
    BY <2>1 DEF HasClose
  <2>4. QED
    BY <1>1, <1>2, <2>2, <2>3 DEF OpenIsServed, Ended
<1>9. QED
  BY <1>3, <1>4, <1>5, <1>6, <1>7, <1>8

LEMMA OwnerStep == OwnerInv /\ [StoreNext]_storeVars => OwnerInv'
<1>1. ASSUME OwnerInv, StoreNext PROVE OwnerInv'
  BY <1>1, GuardsKeepOwner, ThreadsKeepOwner, KillsKeepOwner DEF StoreNext, GuardStep, ThreadStep
<1>2. ASSUME OwnerInv, UNCHANGED storeVars PROVE OwnerInv'
  BY <1>2 DEF storeVars, OwnerInv, OwnerTypes, OneLease, GuardsAreReturned, ThreadsHaveOwners,
              OpenIsServed, HasClose, SealedSoon, RightKeyIsAccepted
<1>3. QED
  BY <1>1, <1>2

LEMMA OwnerIsOne == OwnerInv => OneOwner
<1> SUFFICES ASSUME OwnerInv
             PROVE  Cardinality({e \in Engines \ astray : thread[e] \in Connected}) <= 1
  BY DEF OneOwner, OneConnection, OwnerInv
<1> DEFINE connected == {e \in Engines \ astray : thread[e] \in Connected}
<1>1. \A e \in connected : engine[e] \in HoldsLock
  BY DEF OwnerInv, ThreadsHaveOwners, Connected, Preparing, HoldsLock
<1>2. \A e, f \in connected : e = f
  BY <1>1 DEF OwnerInv, GuardsAreReturned
<1>3. CASE connected = {}
  BY <1>3, FS_EmptySet
<1>4. CASE connected # {}
  <2>1. PICK e \in connected : connected = {e}
    BY <1>2, <1>4
  <2>2. QED
    BY <2>1, FS_Singleton
<1>5. QED
  BY <1>3, <1>4

(* However many copies of the program open an account, in whatever order   *)
(* they open, fail, close, drop and die, the engines that nobody dropped   *)
(* or closed under have one connection between them, the guards are held   *)
(* exactly by those who should hold them, and while no process died and no *)
(* statement failed the account's own key is not called wrong              *)
(* (rise_engine.rs, rise_store_concurrency.rs, rise_sqlite.rs).            *)
THEOREM OneOwnerAlways == StoreSpec => []OneOwner
<1>1. StoreInit => OwnerInv
  BY StartsOwned
<1>2. OwnerInv /\ [StoreNext]_storeVars => OwnerInv'
  BY OwnerStep
<1>3. OwnerInv => OneOwner
  BY OwnerIsOne
<1>4. QED
  BY <1>1, <1>2, <1>3, PTL DEF StoreSpec

-----------------------------------------------------------------------------
(* The store: what a submitter is told.                                     *)

Items == Jobs \cup {CloseCommand}
Answers == {"unsent", "sent", "ok", "failed", "closed", "lost"}
JobTypes ==
    /\ jobs \in [Engines -> Seq(Items)]
    /\ answer \in [Jobs -> Answers]
    /\ applied \subseteq Jobs

Waits(j, e, i) == i \in 1..Len(jobs[e]) /\ jobs[e][i] = j

(* A batch is in one channel, in one place, or in none.                    *)
QueuedOnce ==
    \A j \in Jobs, e, f \in Engines, i, k \in Nat :
        Waits(j, e, i) /\ Waits(j, f, k) => e = f /\ i = k

ToldTheTruth ==
    \A j \in Jobs :
        /\ j \in applied <=> answer[j] = "ok"
        /\ answer[j] = "sent" <=> \E e \in Engines, i \in Nat : Waits(j, e, i)

AnswersInv == JobTypes /\ QueuedOnce /\ ToldTheTruth

LEMMA QueuedWaits ==
    ASSUME JobTypes, NEW j \in Jobs, NEW e \in Engines
    PROVE  j \in StillQueued(e) <=> \E i \in Nat : Waits(j, e, i)
  BY DEF StillQueued, Waits, JobTypes

LEMMA AnswersStart == StoreInit => AnswersInv
<1> SUFFICES ASSUME StoreInit PROVE AnswersInv
  OBVIOUS
<1>1. JobTypes
  BY DEF StoreInit, JobTypes, Answers
<1>2. \A e \in Engines : jobs[e] = <<>>
  BY DEF StoreInit
<1>3. \A j, e, i : e \in Engines => ~Waits(j, e, i)
  BY <1>2 DEF Waits
<1>4. QED
  BY <1>1, <1>3 DEF StoreInit, AnswersInv, QueuedOnce, ToldTheTruth

LEMMA SubmitKeepsAnswers ==
    ASSUME AnswersInv, NEW e \in Engines, NEW j \in Jobs, Submit(e, j) PROVE AnswersInv'
<1>1. answer[j] = "unsent" /\ applied' = applied
  BY DEF Submit
<1>2. CASE jobs' = [jobs EXCEPT ![e] = Append(@, j)] /\ answer' = [answer EXCEPT ![j] = "sent"]
  <2>1. JobTypes'
    BY <1>1, <1>2 DEF AnswersInv, JobTypes, Items, Answers
  <2>2. jobs[e] \in Seq(Items) /\ j \in Items /\ jobs'[e] = Append(jobs[e], j)
        /\ \A f \in Engines : f # e => jobs'[f] = jobs[f]
    BY <1>2 DEF AnswersInv, JobTypes, Items
  <2>3. /\ Len(jobs'[e]) = Len(jobs[e]) + 1 /\ jobs'[e][Len(jobs[e]) + 1] = j
        /\ \A i \in 1..Len(jobs[e]) : jobs'[e][i] = jobs[e][i]
        /\ Len(jobs[e]) \in Nat
    BY <2>2
  <2>4. \A f \in Engines, i \in Nat : ~Waits(j, f, i)
    BY <1>1 DEF AnswersInv, ToldTheTruth
  <2>5. ASSUME NEW k \in Jobs, NEW f \in Engines, NEW i \in Nat
        PROVE  Waits(k, f, i)' <=> Waits(k, f, i) \/ (k = j /\ f = e /\ i = Len(jobs[e]) + 1)
    <3>1. CASE f = e
      BY <2>3, <3>1 DEF Waits
    <3>2. CASE f # e
      BY <2>2, <3>2 DEF Waits
    <3>3. QED
      BY <3>1, <3>2
  <2>6. QueuedOnce'
    BY <2>4, <2>5 DEF AnswersInv, QueuedOnce
  <2>7. ToldTheTruth'
    BY <1>1, <1>2, <2>3, <2>5 DEF AnswersInv, ToldTheTruth, JobTypes
  <2>8. QED
    BY <2>1, <2>6, <2>7 DEF AnswersInv
<1>3. CASE answer' = [answer EXCEPT ![j] = "closed"] /\ UNCHANGED jobs
  <2>1. JobTypes'
    BY <1>1, <1>3 DEF AnswersInv, JobTypes, Answers
  <2>2. QED
    BY <1>1, <1>3, <2>1 DEF AnswersInv, JobTypes, QueuedOnce, ToldTheTruth, Waits
<1>4. QED
  BY <1>2, <1>3 DEF Submit

LEMMA RunKeepsAnswers == ASSUME AnswersInv, NEW e \in Engines, RunJob(e) PROVE AnswersInv'
<1> DEFINE j == Head(jobs[e])
<1>1. /\ jobs[e] \in Seq(Items) /\ jobs[e] # <<>> /\ j # CloseCommand
      /\ jobs' = [jobs EXCEPT ![e] = Tail(@)]
      /\ \/ answer' = [answer EXCEPT ![j] = "ok"] /\ applied' = applied \cup {j}
         \/ answer' = [answer EXCEPT ![j] = "failed"] /\ UNCHANGED applied
  BY DEF RunJob, AnswersInv, JobTypes
<1>2. /\ Len(jobs[e]) \in Nat /\ Len(jobs[e]) > 0 /\ j = jobs[e][1] /\ j \in Items
      /\ Tail(jobs[e]) \in Seq(Items) /\ Len(Tail(jobs[e])) = Len(jobs[e]) - 1
      /\ \A i \in 1..(Len(jobs[e]) - 1) : Tail(jobs[e])[i] = jobs[e][i + 1]
  BY <1>1
<1>3. j \in Jobs
  BY <1>1, <1>2 DEF Items
<1> HIDE DEF j
<1>4. JobTypes'
  BY <1>1, <1>2, <1>3 DEF AnswersInv, JobTypes, Answers
<1>5. jobs'[e] = Tail(jobs[e]) /\ \A f \in Engines : f # e => jobs'[f] = jobs[f]
  BY <1>1 DEF AnswersInv, JobTypes
<1>6. Waits(j, e, 1)
  BY <1>2 DEF Waits
<1>7. ASSUME NEW k \in Jobs, NEW f \in Engines, NEW i \in Nat
      PROVE  Waits(k, f, i)' => k # j /\ Waits(k, f, IF f = e THEN i + 1 ELSE i)
  <2>1. CASE f = e
    <3>1. Waits(k, f, i)' => Waits(k, e, i + 1) /\ i + 1 # 1
      <4>1. \A n \in 1..(Len(jobs[e]) - 1) : n + 1 \in 1..Len(jobs[e]) /\ n + 1 # 1
        BY <1>2
      <4>2. QED
        BY <1>2, <1>5, <2>1, <4>1 DEF Waits
    <3>2. Waits(k, e, i + 1) /\ i + 1 # 1 => k # j
      BY <1>3, <1>6 DEF AnswersInv, QueuedOnce
    <3>3. QED
      BY <2>1, <3>1, <3>2
  <2>2. CASE f # e
    <3>1. Waits(k, f, i)' => Waits(k, f, i)
      BY <1>5, <2>2 DEF Waits
    <3>2. Waits(k, f, i) => k # j
      BY <1>3, <1>6, <2>2 DEF AnswersInv, QueuedOnce
    <3>3. QED
      BY <2>2, <3>1, <3>2
  <2>3. QED
    BY <2>1, <2>2
<1>8. ASSUME NEW k \in Jobs, k # j, NEW f \in Engines, NEW i \in Nat, Waits(k, f, i)
      PROVE  \E n \in Nat : Waits(k, f, n)'
  <2>1. CASE f = e
    <3>1. i # 1 /\ i - 1 \in 1..(Len(jobs[e]) - 1) /\ (i - 1) + 1 = i
      BY <1>2, <1>8, <2>1 DEF Waits
    <3>2. Waits(k, f, i - 1)'
      BY <1>2, <1>5, <1>8, <2>1, <3>1 DEF Waits
    <3>3. QED
      BY <3>1, <3>2
  <2>2. CASE f # e
    BY <1>5, <1>8, <2>2 DEF Waits
  <2>3. QED
    BY <2>1, <2>2
<1>9. QueuedOnce'
  <2> SUFFICES ASSUME NEW k \in Jobs, NEW f \in Engines, NEW g \in Engines, NEW i \in Nat, NEW n \in Nat,
                      Waits(k, f, i)', Waits(k, g, n)'
               PROVE  f = g /\ i = n
    BY DEF QueuedOnce
  <2> DEFINE fi == IF f = e THEN i + 1 ELSE i
             gn == IF g = e THEN n + 1 ELSE n
  <2>1. Waits(k, f, fi) /\ Waits(k, g, gn) /\ fi \in Nat /\ gn \in Nat
    BY <1>7
  <2>2. f = g /\ fi = gn
    BY <2>1 DEF AnswersInv, QueuedOnce
  <2>3. QED
    BY <2>2
<1>10. ToldTheTruth'
  <2> SUFFICES ASSUME NEW k \in Jobs
               PROVE  /\ k \in applied' <=> answer'[k] = "ok"
                      /\ answer'[k] = "sent" <=> \E f \in Engines, i \in Nat : Waits(k, f, i)'
    BY DEF ToldTheTruth
  <2>1. answer[j] = "sent"
    BY <1>3, <1>6 DEF AnswersInv, ToldTheTruth
  <2>2. k \in applied' <=> answer'[k] = "ok"
    BY <1>1, <1>3, <2>1 DEF AnswersInv, ToldTheTruth, JobTypes, j
  <2>3. CASE k = j
    <3>1. answer'[k] # "sent"
      BY <1>1, <1>3, <2>3 DEF AnswersInv, JobTypes
    <3>2. QED
      BY <1>7, <2>2, <2>3, <3>1
  <2>4. CASE k # j
    <3>1. answer'[k] = answer[k]
      BY <1>1, <1>3, <2>4 DEF AnswersInv, JobTypes
    <3>2. (\E f \in Engines, i \in Nat : Waits(k, f, i)') <=> \E f \in Engines, i \in Nat : Waits(k, f, i)
      <4>1. \A f \in Engines, i \in Nat : (IF f = e THEN i + 1 ELSE i) \in Nat
        OBVIOUS
      <4>2. QED
        BY <1>7, <1>8, <2>4, <4>1
    <3>3. QED
      BY <2>2, <3>1, <3>2 DEF AnswersInv, ToldTheTruth
  <2>5. QED
    BY <2>3, <2>4
<1>11. QED
  BY <1>4, <1>9, <1>10 DEF AnswersInv

(* The channels of one engine, or of a process that dies, are emptied, and *)
(* what was in them is told something else than Ok.                        *)
LEMMA EmptyingKeepsAnswers ==
    ASSUME AnswersInv, NEW these \in SUBSET Engines, NEW told \in {"closed", "lost"},
           applied' = applied,
           jobs' = [e \in Engines |-> IF e \in these THEN <<>> ELSE jobs[e]],
           answer' = [j \in Jobs |->
                         IF \E e \in these : j \in StillQueued(e) THEN told ELSE answer[j]]
    PROVE  AnswersInv'
<1>1. JobTypes'
  BY DEF AnswersInv, JobTypes, Answers
<1>2. ASSUME NEW j \in Jobs, NEW e \in Engines, NEW i \in Nat
      PROVE  Waits(j, e, i)' <=> e \notin these /\ Waits(j, e, i)
  BY DEF Waits
<1>3. QueuedOnce'
  BY <1>2 DEF AnswersInv, QueuedOnce
<1>4. ASSUME NEW j \in Jobs
      PROVE  /\ j \in applied' <=> answer'[j] = "ok"
             /\ answer'[j] = "sent" <=> \E e \in Engines, i \in Nat : Waits(j, e, i)'
  <2>1. (\E e \in these : j \in StillQueued(e)) <=> \E e \in these, i \in Nat : Waits(j, e, i)
    BY QueuedWaits DEF AnswersInv
  <2>2. CASE \E e \in these, i \in Nat : Waits(j, e, i)
    <3>1. PICK e \in these, i \in Nat : Waits(j, e, i)
      BY <2>2
    <3>2. answer[j] = "sent" /\ answer'[j] = told
      BY <2>1, <3>1 DEF AnswersInv, ToldTheTruth
    <3>3. \A f \in Engines, n \in Nat : Waits(j, f, n) => f \in these
      BY <3>1 DEF AnswersInv, QueuedOnce
    <3>4. QED
      BY <1>2, <3>2, <3>3 DEF AnswersInv, ToldTheTruth
  <2>3. CASE ~\E e \in these, i \in Nat : Waits(j, e, i)
    BY <1>2, <2>1, <2>3 DEF AnswersInv, ToldTheTruth
  <2>4. QED
    BY <2>2, <2>3
<1>5. QED
  BY <1>1, <1>3, <1>4 DEF AnswersInv, ToldTheTruth

(* A close in the channel, whoever sends it, is no batch.                  *)
LEMMA ClosesKeepAnswers ==
    ASSUME AnswersInv, NEW e \in Engines, UNCHANGED <<answer, applied>>,
           jobs' = [jobs EXCEPT ![e] = Append(@, CloseCommand)]
    PROVE  AnswersInv'
<1>1. jobs[e] \in Seq(Items) /\ CloseCommand \in Items
  BY DEF AnswersInv, JobTypes, Items
<1>2. /\ jobs'[e] = Append(jobs[e], CloseCommand) /\ Len(jobs[e]) \in Nat
      /\ \A f \in Engines : f # e => jobs'[f] = jobs[f]
  BY <1>1 DEF AnswersInv, JobTypes
<1>3. /\ Len(jobs'[e]) = Len(jobs[e]) + 1 /\ jobs'[e][Len(jobs[e]) + 1] = CloseCommand
      /\ \A i \in 1..Len(jobs[e]) : jobs'[e][i] = jobs[e][i]
  BY <1>1, <1>2
<1>4. JobTypes'
  BY <1>1 DEF AnswersInv, JobTypes
<1>5. ASSUME NEW j \in Jobs, NEW f \in Engines, NEW i \in Nat
      PROVE  Waits(j, f, i)' <=> Waits(j, f, i)
  <2>1. CASE f = e
    BY <1>2, <1>3, <2>1, StoreAssumption DEF Waits
  <2>2. CASE f # e
    BY <1>2, <2>2 DEF Waits
  <2>3. QED
    BY <2>1, <2>2
<1>6. QED
  BY <1>1, <1>4, <1>5 DEF AnswersInv, QueuedOnce, ToldTheTruth

LEMMA AnswersStep == AnswersInv /\ [StoreNext]_storeVars => AnswersInv'
<1> SUFFICES ASSUME AnswersInv, [StoreNext]_storeVars PROVE AnswersInv'
  OBVIOUS
<1>1. ASSUME UNCHANGED <<jobs, answer, applied>> PROVE AnswersInv'
  BY <1>1 DEF AnswersInv, JobTypes, QueuedOnce, ToldTheTruth, Waits
<1>2. ASSUME NEW e \in Engines, TakeClose(e) PROVE AnswersInv'
  <2>1. /\ applied' = applied /\ jobs' = [f \in Engines |-> IF f \in {e} THEN <<>> ELSE jobs[f]]
        /\ answer' = [j \in Jobs |->
                         IF \E f \in {e} : j \in StillQueued(f) THEN "closed" ELSE answer[j]]
    BY <1>2 DEF TakeClose, AnswersInv, JobTypes
  <2> DEFINE these == {e}
  <2>2. these \in SUBSET Engines
    OBVIOUS
  <2>3. /\ applied' = applied /\ jobs' = [f \in Engines |-> IF f \in these THEN <<>> ELSE jobs[f]]
        /\ answer' = [j \in Jobs |->
                         IF \E f \in these : j \in StillQueued(f) THEN "closed" ELSE answer[j]]
    BY <2>1, Zenon
  <2> HIDE DEF these
  <2>4. QED
    BY <2>2, <2>3, EmptyingKeepsAnswers
<1>3. ASSUME NEW p \in Processes, Kill(p) PROVE AnswersInv'
  <2> DEFINE mine == {e \in Engines : ProcessOf(e) = p}
  <2>1. /\ applied' = applied /\ jobs' = [f \in Engines |-> IF f \in mine THEN <<>> ELSE jobs[f]]
        /\ answer' = [j \in Jobs |->
                         IF \E f \in mine : j \in StillQueued(f) THEN "lost" ELSE answer[j]]
    BY <1>3 DEF Kill
  <2>2. QED
    BY <2>1, EmptyingKeepsAnswers
<1>4. ASSUME NEW e \in Engines, Close(e) \/ HolderCloses(e) PROVE AnswersInv'
  BY <1>1, <1>4, ClosesKeepAnswers DEF Close, HolderCloses
<1>5. ASSUME NEW e \in Engines, GuardStep(e), ~Close(e) PROVE AnswersInv'
  BY <1>1, <1>5
  DEF GuardStep, ClaimLease, AcquireLock, SpawnThread, Opened, DropLockAfterFailure,
      DropLeaseAfterFailure, CloseAnswered, Join, DropLease, DropLock
<1>6. ASSUME NEW e \in Engines, ThreadStep(e) PROVE AnswersInv'
  BY <1>1, <1>2, <1>4, <1>6, SubmitKeepsAnswers, RunKeepsAnswers
  DEF ThreadStep, ReadVersion, VerifierUnread, CreateSchema, SetVersion, WriteVerifier, Orphaned,
      ThreadEnds
<1>7. QED
  BY <1>1, <1>3, <1>4, <1>5, <1>6 DEF StoreNext, storeVars, GuardStep, ThreadStep

(* What a submitter of a batch is told is what happened (with_connection,   *)
(* run_loop, close): Ok is in the database, Closed and an error are not,    *)
(* and a batch nobody was told of is still in one channel, for any          *)
(* processes, engines and batches, closes, drops and kills.                 *)
THEOREM SubmittersAreToldTheTruth == StoreSpec => []AnswersAreTrue
<1>1. AnswersInv => AnswersAreTrue
  <2> SUFFICES ASSUME AnswersInv, NEW j \in Jobs
               PROVE  /\ answer[j] = "ok" => j \in applied
                      /\ answer[j] \in {"closed", "failed"} => j \notin applied
                      /\ answer[j] = "sent" <=> \E e \in Engines : j \in StillQueued(e)
    BY DEF AnswersAreTrue
  <2>1. (\E e \in Engines : j \in StillQueued(e)) <=> \E e \in Engines, i \in Nat : Waits(j, e, i)
    BY QueuedWaits DEF AnswersInv
  <2>2. QED
    BY <2>1 DEF AnswersInv, ToldTheTruth
<1>2. QED
  BY <1>1, AnswersStart, AnswersStep, PTL DEF StoreSpec

(* Who creates the schema has a statement of it left to execute.           *)
SchemaLeft ==
    /\ schema \in 0..SchemaStatements /\ mishaps \in 0..MaxMishaps
    /\ \A e \in Engines : thread[e] = "creating" => schema < SchemaStatements

LEMMA SchemaStep == OwnerInv /\ SchemaLeft /\ [StoreNext]_storeVars => SchemaLeft'
<1> SUFFICES ASSUME OwnerInv, SchemaLeft, [StoreNext]_storeVars PROVE SchemaLeft'
  OBVIOUS
<1> USE DEF SchemaLeft, SchemaStatements
<1>1. ASSUME NEW e \in Engines, CreateSchema(e) PROVE SchemaLeft'
  <2>1. \A f \in Engines : thread[f] = "creating" => f = e
    BY <1>1, OnePrepares DEF CreateSchema, Preparing
  <2>2. QED
    BY <1>1, <2>1, StoreAssumption DEF CreateSchema, OwnerInv, OwnerTypes
<1>2. ASSUME NEW e \in Engines, ReadVersion(e) PROVE SchemaLeft'
  BY <1>2, StoreAssumption DEF ReadVersion, OwnerInv, OwnerTypes
<1>3. ASSUME NEW p \in Processes, Kill(p) PROVE SchemaLeft'
  BY <1>3, StoreAssumption DEF Kill, OwnerInv, OwnerTypes
<1>4. ASSUME NEW e \in Engines, GuardStep(e) PROVE SchemaLeft'
  BY <1>4, StoreAssumption
  DEF GuardStep, OwnerInv, OwnerTypes,
      ClaimLease, AcquireLock, SpawnThread, Opened, DropLockAfterFailure, DropLeaseAfterFailure,
      Close, CloseAnswered, Join, DropLease, DropLock
<1>5. ASSUME NEW e \in Engines, ThreadStep(e) PROVE SchemaLeft'
  BY <1>1, <1>2, <1>5, StoreAssumption
  DEF ThreadStep, OwnerInv, OwnerTypes, VerifierUnread, SetVersion, WriteVerifier, Submit, RunJob,
      HolderCloses, TakeClose, Orphaned, ThreadEnds
<1>6. CASE UNCHANGED storeVars
  BY <1>6 DEF storeVars
<1>7. QED
  BY <1>3, <1>4, <1>5, <1>6 DEF StoreNext, GuardStep, ThreadStep

(* Guards, threads, channels and answers of the store keep their types,     *)
(* whoever opens, closes or dies.                                           *)
THEOREM StoreKeepsItsTypes == StoreSpec => []StoreTypeOK
<1>1. StoreInit => SchemaLeft
  BY StoreAssumption DEF StoreInit, SchemaLeft, SchemaStatements
<1>2. OwnerInv /\ SchemaLeft /\ AnswersInv => StoreTypeOK
  BY DEF StoreTypeOK, OwnerInv, OwnerTypes, SchemaLeft, AnswersInv, JobTypes, Items, Answers
<1>3. QED
  BY <1>1, <1>2, StartsOwned, OwnerStep, AnswersStart, AnswersStep, SchemaStep, PTL DEF StoreSpec

HIDE DEF guardVars, databaseVars, EngineGoes, ThreadGoes, Mishap, GoesAstray, CannotOpen, Accepts

-----------------------------------------------------------------------------
(* The store: the tables a batch touches.                                   *)

Listed == Views \X Entities \X Positions
AnyTables == [entities : [Entities -> Nat], aliases : SUBSET (Aliases \X Entities),
              rows : SUBSET Listed, counts : [Views -> Int], revisions : [Views -> Nat]]
OneRowEach(t) == \A r, s \in t.rows : r[1] = s[1] /\ r[2] = s[2] => r = s

LEMMA ListedRows ==
    ASSUME NEW r \in Listed
    PROVE  r[1] \in Views /\ r[2] \in Entities /\ r[3] \in Positions /\ r[3] \in Nat /\ r[3] # 0
           /\ r[2] \in Nat
  BY ViewsAssumption DEF Listed

(* An entity has at most one row in a view, so the rows can be counted.     *)
LEMMA RowsAreCounted ==
    ASSUME NEW t \in AnyTables, OneRowEach(t), NEW v \in Views
    PROVE  /\ IsFiniteSet(RowsOf(t, v)) /\ Cardinality(RowsOf(t, v)) \in Nat
           /\ Cardinality(RowsOf(t, v)) <= Cardinality(Entities)
           /\ \A e : \/ RowOf(t, v, e) = {} /\ Cardinality(RowOf(t, v, e)) = 0
                     \/ \E r \in RowsOf(t, v) : /\ RowOf(t, v, e) = {r}
                                                /\ Cardinality(RowOf(t, v, e)) = 1
<1> DEFINE rows == RowsOf(t, v)
           ids == {r[2] : r \in rows}
           row == [e \in ids |-> CHOOSE r \in rows : r[2] = e]
<1>1. rows \subseteq Listed /\ \A r \in rows : r[1] = v
  BY DEF RowsOf, AnyTables
<1>2. ids \subseteq Entities
  BY <1>1, ListedRows
<1>3. \A r, s \in rows : r[2] = s[2] => r = s
  BY <1>1 DEF OneRowEach, RowsOf
<1>4. \A e \in ids : row[e] \in rows /\ row[e][2] = e
  OBVIOUS
<1>5. \A r \in rows : r[2] \in ids /\ row[r[2]] = r
  BY <1>3, <1>4
<1>6. row \in Surjection(ids, rows)
  <2>1. row \in [ids -> rows]
    BY <1>4
  <2> HIDE DEF row
  <2>2. \A r \in rows : \E e \in ids : row[e] = r
    BY <1>5
  <2>3. QED
    BY <2>1, <2>2, Zenon DEF Surjection
<1>7. IsFiniteSet(ids) /\ Cardinality(ids) <= Cardinality(Entities) /\ Cardinality(ids) \in Nat
      /\ Cardinality(Entities) \in Nat
  BY <1>2, ViewsAssumption, FS_Subset, FS_CardinalityType
<1>8. IsFiniteSet(rows) /\ Cardinality(rows) <= Cardinality(ids)
  BY <1>6, <1>7, FS_Surjection
<1>9. Cardinality(rows) \in Nat
  BY <1>8, FS_CardinalityType
<1>10. ASSUME NEW e
       PROVE  \/ RowOf(t, v, e) = {} /\ Cardinality(RowOf(t, v, e)) = 0
              \/ \E r \in rows : RowOf(t, v, e) = {r} /\ Cardinality(RowOf(t, v, e)) = 1
  <2>1. RowOf(t, v, e) = {r \in rows : r[2] = e}
    BY DEF RowOf, RowsOf
  <2>2. CASE \E r \in rows : r[2] = e
    <3>1. PICK r \in rows : r[2] = e
      BY <2>2
    <3>2. RowOf(t, v, e) = {r}
      BY <1>3, <2>1, <3>1
    <3>3. QED
      BY <3>2, FS_Singleton
  <2>3. CASE ~\E r \in rows : r[2] = e
    <3>1. RowOf(t, v, e) = {}
      BY <2>1, <2>3
    <3>2. QED
      BY <3>1, FS_EmptySet
  <2>4. QED
    BY <2>2, <2>3
<1>11. QED
  BY <1>7, <1>8, <1>9, <1>10

Counted(t) == \A v \in Views : t.counts[v] = Cardinality(RowsOf(t, v))
Referring(t) == /\ \A r \in t.rows : Exists(t, r[2])
                /\ \A a \in t.aliases : Exists(t, a[2])
TablesHold(t) == t \in Tables /\ OneRowEach(t) /\ Counted(t) /\ Referring(t)

LEMMA TablesAreAny == \A t \in Tables : t \in AnyTables
  BY DEF Tables, AnyTables, Listed

(* What an operation leaves of each table.                                  *)
TableFields == {"entities", "aliases", "rows", "counts", "revisions"}
Table(e, a, r, c, v) ==
    [entities |-> e, aliases |-> a, rows |-> r, counts |-> c, revisions |-> v]

LEMMA TablesAreRecords ==
    ASSUME NEW u, DOMAIN u = TableFields, u = [f \in TableFields |-> u[f]],
           u.entities \in [Entities -> Nat], u.aliases \in SUBSET (Aliases \X Entities),
           u.rows \in SUBSET Listed, u.counts \in [Views -> Int], u.revisions \in [Views -> Nat]
    PROVE  u \in AnyTables
<1>1. u = Table(u.entities, u.aliases, u.rows, u.counts, u.revisions)
  BY DEF TableFields, Table
<1>2. Table(u.entities, u.aliases, u.rows, u.counts, u.revisions) \in AnyTables
  BY DEF Table, AnyTables
<1>3. QED
  BY <1>1, <1>2

LEMMA EntityRemoved ==
    ASSUME NEW t \in AnyTables, OneRowEach(t), NEW e \in Entities
    PROVE  LET u == RemoveEntity(t, e) IN
           u \in AnyTables /\ OneRowEach(u) /\ (TablesHold(t) => TablesHold(u))
<1> DEFINE u == RemoveEntity(t, e)
           counts == [v \in Views |-> t.counts[v] - Cardinality(RowOf(t, v, e))]
<1>1. /\ u.entities = [t.entities EXCEPT ![e] = 0]
      /\ u.aliases = {a \in t.aliases : a[2] # e}
      /\ u.rows = {r \in t.rows : r[2] # e}
      /\ u.counts = counts
      /\ u.revisions = t.revisions
  BY DEF RemoveEntity, AnyTables
<1>0. DOMAIN u = TableFields /\ u = [f \in TableFields |-> u[f]]
  BY DEF RemoveEntity, AnyTables, TableFields
<1> HIDE DEF u
<1>2. \A v \in Views : Cardinality(RowOf(t, v, e)) \in {0, 1}
  BY RowsAreCounted
<1>3. counts \in [Views -> Int]
  BY <1>2 DEF AnyTables
<1>4. u \in AnyTables
  <2>1. /\ t.entities \in [Entities -> Nat] /\ t.aliases \in SUBSET (Aliases \X Entities)
        /\ t.rows \in SUBSET Listed
    BY DEF AnyTables
  <2>2. /\ u.entities \in [Entities -> Nat] /\ u.aliases \in SUBSET (Aliases \X Entities)
        /\ u.rows \in SUBSET Listed
    BY <1>1, <2>1
  <2>3. u.counts \in [Views -> Int] /\ u.revisions = t.revisions
    BY <1>1, <1>3, Zenon
  <2>4. QED
    BY <1>0, <2>2, <2>3, TablesAreRecords DEF AnyTables
<1>5. OneRowEach(u)
  BY <1>1 DEF OneRowEach
<1>6. ASSUME TablesHold(t) PROVE TablesHold(u)
  <2>1. ASSUME NEW v \in Views
        PROVE  u.counts[v] = Cardinality(RowsOf(u, v)) /\ u.counts[v] \in Nat
    <3>1. RowsOf(u, v) = RowsOf(t, v) \ RowOf(t, v, e)
      BY <1>1 DEF RowsOf, RowOf
    <3>2. u.counts[v] = Cardinality(RowsOf(t, v)) - Cardinality(RowOf(t, v, e))
      BY <1>1, <1>6 DEF TablesHold, Counted
    <3>3. IsFiniteSet(RowsOf(t, v)) /\ Cardinality(RowsOf(t, v)) \in Nat
      BY RowsAreCounted
    <3>4. CASE RowOf(t, v, e) = {} /\ Cardinality(RowOf(t, v, e)) = 0
      BY <3>1, <3>2, <3>3, <3>4
    <3>5. CASE \E r \in RowsOf(t, v) : RowOf(t, v, e) = {r} /\ Cardinality(RowOf(t, v, e)) = 1
      <4>1. PICK r \in RowsOf(t, v) : RowOf(t, v, e) = {r} /\ Cardinality(RowOf(t, v, e)) = 1
        BY <3>5
      <4>2. /\ IsFiniteSet(RowsOf(t, v) \ {r})
            /\ Cardinality(RowsOf(t, v) \ {r}) = Cardinality(RowsOf(t, v)) - 1
        BY <3>3, <4>1, FS_RemoveElement
      <4>3. Cardinality(RowsOf(t, v) \ {r}) \in Nat
        BY <4>2, FS_CardinalityType
      <4>4. QED
        BY <3>1, <3>2, <4>1, <4>2, <4>3
    <3>6. QED
      BY <3>4, <3>5, RowsAreCounted
  <2>2. u.counts \in [Views -> Nat]
    BY <1>1, <2>1
  <2>3. u \in Tables
    BY <1>1, <1>4, <2>2 DEF AnyTables, Tables, Listed
  <2>4. Referring(u)
    BY <1>1, <1>6, <2>3 DEF TablesHold, Referring, Exists, Tables
  <2>5. QED
    BY <1>5, <2>1, <2>3, <2>4 DEF TablesHold, Counted
<1>7. QED
  BY <1>4, <1>5, <1>6 DEF u

(* Counts that are true are numbers.                                        *)
LEMMA WhatTablesHold ==
    ASSUME NEW u \in AnyTables, OneRowEach(u), Counted(u), Referring(u)
    PROVE  TablesHold(u)
<1>1. \A v \in Views : u.counts[v] \in Nat
  BY RowsAreCounted DEF Counted
<1>2. u.counts \in [Views -> Nat]
  BY <1>1 DEF AnyTables
<1>3. u \in Tables
  BY <1>2 DEF AnyTables, Tables, Listed
<1>4. QED
  BY <1>3 DEF TablesHold

LEMMA EntityPut ==
    ASSUME NEW t \in AnyTables, OneRowEach(t), NEW e \in Entities
    PROVE  LET u == [t EXCEPT !.entities[e] = @ + 1] IN
           u \in AnyTables /\ OneRowEach(u) /\ (TablesHold(t) => TablesHold(u))
<1> DEFINE u == [t EXCEPT !.entities[e] = @ + 1]
<1>1. /\ u.entities = [t.entities EXCEPT ![e] = @ + 1]
      /\ u.aliases = t.aliases /\ u.rows = t.rows /\ u.counts = t.counts
      /\ u.revisions = t.revisions
  BY DEF AnyTables
<1>2. DOMAIN u = TableFields /\ u = [f \in TableFields |-> u[f]]
  BY DEF AnyTables, TableFields
<1> HIDE DEF u
<1>3. t.entities \in [Entities -> Nat] /\ u.entities \in [Entities -> Nat]
  BY <1>1 DEF AnyTables
<1>4. u \in AnyTables
  BY <1>1, <1>2, <1>3, TablesAreRecords DEF AnyTables
<1>5. OneRowEach(u)
  BY <1>1 DEF OneRowEach
<1>6. ASSUME TablesHold(t) PROVE TablesHold(u)
  <2>1. Counted(u)
    BY <1>1, <1>6 DEF TablesHold, Counted, RowsOf
  <2>2. \A x \in Entities : Exists(t, x) => Exists(u, x)
    BY <1>1, <1>3 DEF Exists
  <2>3. (\A r \in t.rows : r[2] \in Entities) /\ (\A a \in t.aliases : a[2] \in Entities)
    BY DEF AnyTables, Listed
  <2>4. Referring(u)
    BY <1>1, <1>6, <2>2, <2>3 DEF TablesHold, Referring
  <2>5. QED
    BY <1>4, <1>5, <2>1, <2>4, WhatTablesHold
<1>7. QED
  BY <1>4, <1>5, <1>6 DEF u

LEMMA AliasPut ==
    ASSUME NEW t \in AnyTables, OneRowEach(t), NEW a \in Aliases, NEW e \in Entities
    PROVE  LET u == PutAlias(t, a, e) IN
           u \in AnyTables /\ OneRowEach(u)
           /\ (TablesHold(t) /\ Exists(t, e) => TablesHold(u))
<1> DEFINE u == PutAlias(t, a, e)
<1>1. /\ u.aliases = {x \in t.aliases : x[1] # a} \cup {<<a, e>>}
      /\ u.entities = t.entities /\ u.rows = t.rows /\ u.counts = t.counts
      /\ u.revisions = t.revisions
  BY DEF PutAlias, AnyTables
<1>2. DOMAIN u = TableFields /\ u = [f \in TableFields |-> u[f]]
  BY DEF PutAlias, AnyTables, TableFields
<1> HIDE DEF u
<1>3. u \in AnyTables
  <2>1. u.aliases \in SUBSET (Aliases \X Entities)
    BY <1>1 DEF AnyTables
  <2>2. QED
    BY <1>1, <1>2, <2>1, TablesAreRecords DEF AnyTables
<1>4. OneRowEach(u)
  BY <1>1 DEF OneRowEach
<1>5. ASSUME TablesHold(t), Exists(t, e) PROVE TablesHold(u)
  <2>1. Counted(u)
    BY <1>1, <1>5 DEF TablesHold, Counted, RowsOf
  <2>2. Referring(u)
    BY <1>1, <1>5 DEF TablesHold, Referring, Exists
  <2>3. QED
    BY <1>3, <1>4, <2>1, <2>2, WhatTablesHold
<1>6. QED
  BY <1>3, <1>4, <1>5 DEF u

LEMMA ViewBumped ==
    ASSUME NEW t \in AnyTables, OneRowEach(t), NEW v \in Views
    PROVE  LET u == [t EXCEPT !.revisions[v] = @ + 1] IN
           u \in AnyTables /\ OneRowEach(u) /\ (TablesHold(t) => TablesHold(u))
<1> DEFINE u == [t EXCEPT !.revisions[v] = @ + 1]
<1>1. /\ u.revisions = [t.revisions EXCEPT ![v] = @ + 1]
      /\ u.entities = t.entities /\ u.aliases = t.aliases /\ u.rows = t.rows
      /\ u.counts = t.counts
  BY DEF AnyTables
<1>2. DOMAIN u = TableFields /\ u = [f \in TableFields |-> u[f]]
  BY DEF AnyTables, TableFields
<1> HIDE DEF u
<1>3. t.revisions \in [Views -> Nat] /\ u.revisions \in [Views -> Nat]
  BY <1>1 DEF AnyTables
<1>4. u \in AnyTables
  BY <1>1, <1>2, <1>3, TablesAreRecords DEF AnyTables
<1>5. OneRowEach(u)
  BY <1>1 DEF OneRowEach
<1>6. ASSUME TablesHold(t) PROVE TablesHold(u)
  BY <1>1, <1>4, <1>5, <1>6, WhatTablesHold DEF TablesHold, Counted, Referring, Exists, RowsOf
<1>7. QED
  BY <1>4, <1>5, <1>6 DEF u

(* Only the rows and the count of one view change, by a row that came or    *)
(* went.                                                                    *)
RowsChange(t, u, v) ==
    /\ \A w \in Views \ {v} : RowsOf(u, w) = RowsOf(t, w) /\ u.counts[w] = t.counts[w]
    /\ \E n \in Int : /\ u.counts[v] = t.counts[v] + n
                     /\ Cardinality(RowsOf(u, v)) = Cardinality(RowsOf(t, v)) + n

LEMMA RowsChangeCounted ==
    ASSUME NEW t \in AnyTables, OneRowEach(t), NEW u, NEW v \in Views, Counted(t),
           RowsChange(t, u, v)
    PROVE  Counted(u)
<1>1. ASSUME NEW w \in Views PROVE u.counts[w] = Cardinality(RowsOf(u, w))
  <2>1. CASE w = v
    BY <2>1, RowsAreCounted DEF RowsChange, Counted
  <2>2. CASE w # v
    BY <2>2 DEF RowsChange, Counted
  <2>3. QED
    BY <2>1, <2>2
<1>2. QED
  BY <1>1 DEF Counted

LEMMA RowRemoved ==
    ASSUME NEW t \in AnyTables, OneRowEach(t), NEW v \in Views, NEW e \in Entities
    PROVE  LET u == RemoveRow(t, v, e) IN
           u \in AnyTables /\ OneRowEach(u) /\ (TablesHold(t) => TablesHold(u))
<1> DEFINE u == RemoveRow(t, v, e)
           n == Cardinality(RowOf(t, v, e))
<1>1. /\ u.rows = t.rows \ RowOf(t, v, e)
      /\ u.counts = [t.counts EXCEPT ![v] = @ - n]
      /\ u.entities = t.entities /\ u.aliases = t.aliases /\ u.revisions = t.revisions
  BY DEF RemoveRow, AnyTables
<1>2. DOMAIN u = TableFields /\ u = [f \in TableFields |-> u[f]]
  BY DEF RemoveRow, AnyTables, TableFields
<1>3. n \in {0, 1}
  BY RowsAreCounted
<1> HIDE DEF u
<1>4. u \in AnyTables
  <2>1. u.counts \in [Views -> Int] /\ u.rows \in SUBSET Listed
    BY <1>1, <1>3 DEF AnyTables
  <2>2. QED
    BY <1>1, <1>2, <2>1, TablesAreRecords DEF AnyTables
<1>5. OneRowEach(u)
  BY <1>1 DEF OneRowEach
<1>6. RowsChange(t, u, v)
  <2>1. \A w \in Views \ {v} : RowsOf(u, w) = RowsOf(t, w) /\ u.counts[w] = t.counts[w]
    BY <1>1 DEF RowsOf, RowOf, AnyTables
  <2>2. RowsOf(u, v) = RowsOf(t, v) \ RowOf(t, v, e)
    BY <1>1 DEF RowsOf
  <2>3. IsFiniteSet(RowsOf(t, v)) /\ Cardinality(RowsOf(t, v)) \in Nat
    BY RowsAreCounted
  <2>4. u.counts[v] = t.counts[v] - n /\ t.counts[v] \in Int
    BY <1>1 DEF AnyTables
  <2>5. CASE RowOf(t, v, e) = {} /\ n = 0
    <3>1. RowsOf(u, v) = RowsOf(t, v)
      BY <2>2, <2>5
    <3>2. u.counts[v] = t.counts[v] + 0 /\ Cardinality(RowsOf(u, v)) = Cardinality(RowsOf(t, v)) + 0
      BY <2>3, <2>4, <2>5, <3>1
    <3>3. QED
      BY <2>1, <3>2 DEF RowsChange
  <2>6. CASE \E r \in RowsOf(t, v) : RowOf(t, v, e) = {r} /\ n = 1
    <3>1. PICK r \in RowsOf(t, v) : RowOf(t, v, e) = {r} /\ n = 1
      BY <2>6
    <3>4. Cardinality(RowsOf(t, v) \ {r}) = Cardinality(RowsOf(t, v)) - 1
      BY <2>3, <3>1, FS_RemoveElement
    <3>2. Cardinality(RowsOf(u, v)) = Cardinality(RowsOf(t, v)) - 1
      BY <2>2, <3>1, <3>4
    <3>3. u.counts[v] = t.counts[v] + (-1) /\ Cardinality(RowsOf(u, v)) = Cardinality(RowsOf(t, v)) + (-1)
      BY <2>3, <2>4, <3>1, <3>2
    <3>5. QED
      BY <2>1, <3>3 DEF RowsChange
  <2>7. QED
    BY <2>5, <2>6, RowsAreCounted
<1>7. ASSUME TablesHold(t) PROVE TablesHold(u)
  <2>1. Counted(u)
    BY <1>6, <1>7, RowsChangeCounted DEF TablesHold
  <2>2. Referring(u)
    BY <1>1, <1>7 DEF TablesHold, Referring, Exists
  <2>3. QED
    BY <1>4, <1>5, <2>1, <2>2, WhatTablesHold
<1>8. QED
  BY <1>4, <1>5, <1>7 DEF u

LEMMA RowPut ==
    ASSUME NEW t \in AnyTables, OneRowEach(t), NEW v \in Views, NEW e \in Entities,
           NEW p \in Positions
    PROVE  LET u == PutRow(t, v, e, p) IN
           u \in AnyTables /\ OneRowEach(u)
           /\ (TablesHold(t) /\ Exists(t, e) => TablesHold(u))
<1> DEFINE u == PutRow(t, v, e, p)
           new == <<v, e, p>>
<1>1. /\ u.rows = (t.rows \ RowOf(t, v, e)) \cup {new}
      /\ u.counts = [t.counts EXCEPT ![v] = IF RowOf(t, v, e) = {} THEN @ + 1 ELSE @]
      /\ u.entities = t.entities /\ u.aliases = t.aliases /\ u.revisions = t.revisions
  BY DEF PutRow, AnyTables
<1>2. DOMAIN u = TableFields /\ u = [f \in TableFields |-> u[f]]
  BY DEF PutRow, AnyTables, TableFields
<1>3. new \in Listed /\ new[1] = v /\ new[2] = e
  BY DEF Listed
<1> HIDE DEF u, new
<1>4. u \in AnyTables
  <2>1. u.counts \in [Views -> Int] /\ u.rows \in SUBSET Listed
    BY <1>1, <1>3 DEF AnyTables
  <2>2. QED
    BY <1>1, <1>2, <2>1, TablesAreRecords DEF AnyTables
<1>5. OneRowEach(u)
  BY <1>1, <1>3 DEF OneRowEach, RowOf
<1>6. RowsChange(t, u, v)
  <2>1. \A w \in Views \ {v} : RowsOf(u, w) = RowsOf(t, w) /\ u.counts[w] = t.counts[w]
    BY <1>1, <1>3 DEF RowsOf, RowOf, AnyTables
  <2>2. RowsOf(u, v) = (RowsOf(t, v) \ RowOf(t, v, e)) \cup {new}
    BY <1>1, <1>3 DEF RowsOf
  <2>3. IsFiniteSet(RowsOf(t, v)) /\ Cardinality(RowsOf(t, v)) \in Nat
    BY RowsAreCounted
  <2>4. new \notin RowsOf(t, v) \ RowOf(t, v, e)
    BY <1>3 DEF RowsOf, RowOf
  <2>5. CASE RowOf(t, v, e) = {}
    <3>1. u.counts[v] = t.counts[v] + 1
      BY <1>1, <2>5 DEF AnyTables
    <3>4. /\ RowsOf(u, v) = RowsOf(t, v) \cup {new}
          /\ new \notin RowsOf(t, v)
      BY <2>2, <2>4, <2>5
    <3>2. Cardinality(RowsOf(u, v)) = Cardinality(RowsOf(t, v)) + 1
      BY <2>3, <3>4, FS_AddElement
    <3>3. QED
      BY <2>1, <3>1, <3>2 DEF RowsChange
  <2>6. CASE \E r \in RowsOf(t, v) : RowOf(t, v, e) = {r}
    <3>1. PICK r \in RowsOf(t, v) : RowOf(t, v, e) = {r}
      BY <2>6
    <3>2. u.counts[v] = t.counts[v] + 0
      BY <1>1, <3>1 DEF AnyTables
    <3>3. /\ IsFiniteSet(RowsOf(t, v) \ {r})
          /\ Cardinality(RowsOf(t, v) \ {r}) = Cardinality(RowsOf(t, v)) - 1
      BY <2>3, <3>1, FS_RemoveElement
    <3>4. Cardinality(RowsOf(u, v)) = Cardinality(RowsOf(t, v) \ {r}) + 1
      <4>1. /\ RowsOf(u, v) = (RowsOf(t, v) \ {r}) \cup {new}
            /\ new \notin RowsOf(t, v) \ {r}
        BY <2>2, <2>4, <3>1
      <4>2. QED
        BY <3>3, <4>1, FS_AddElement
    <3>5. Cardinality(RowsOf(u, v)) = Cardinality(RowsOf(t, v)) + 0
      BY <2>3, <3>3, <3>4
    <3>6. QED
      BY <2>1, <3>2, <3>5 DEF RowsChange
  <2>7. QED
    BY <2>5, <2>6, RowsAreCounted
<1>7. ASSUME TablesHold(t), Exists(t, e) PROVE TablesHold(u)
  <2>1. Counted(u)
    BY <1>6, <1>7, RowsChangeCounted DEF TablesHold
  <2>2. Referring(u)
    BY <1>1, <1>3, <1>7 DEF TablesHold, Referring, Exists
  <2>3. QED
    BY <1>4, <1>5, <2>1, <2>2, WhatTablesHold
<1>8. QED
  BY <1>4, <1>5, <1>7 DEF u

(* Every operation keeps the tables, whether its entity exists or not; that *)
(* what is counted and referred to is there needs the foreign key.          *)
LEMMA OperationsKeepTables ==
    ASSUME NEW t \in AnyTables, OneRowEach(t), NEW o \in Operations
    PROVE  /\ Applied(t, o) \in AnyTables /\ OneRowEach(Applied(t, o))
           /\ TablesHold(t) /\ Allowed(t, o) => TablesHold(Applied(t, o))
<1>1. CASE o \in [op : {"putEntity", "removeEntity"}, entity : Entities]
  <2>1. o.entity \in Entities /\ o.op \in {"putEntity", "removeEntity"}
    BY <1>1
  <2>2. CASE o.op = "putEntity"
    <3>1. Applied(t, o) = [t EXCEPT !.entities[o.entity] = @ + 1]
      BY <2>2 DEF Applied
    <3>2. QED
      BY <2>1, <3>1, EntityPut
  <2>3. CASE o.op = "removeEntity"
    <3>1. Applied(t, o) = RemoveEntity(t, o.entity)
      BY <2>3 DEF Applied
    <3>2. QED
      BY <2>1, <3>1, EntityRemoved
  <2>4. QED
    BY <2>1, <2>2, <2>3
<1>2. CASE o \in [op : {"putAlias"}, alias : Aliases, entity : Entities]
  <2>1. o.entity \in Entities /\ o.alias \in Aliases /\ o.op = "putAlias"
    BY <1>2
  <2>2. Applied(t, o) = PutAlias(t, o.alias, o.entity) /\ (Allowed(t, o) => Exists(t, o.entity))
    BY <2>1 DEF Applied, Allowed
  <2>3. QED
    BY <2>1, <2>2, AliasPut
<1>3. CASE o \in [op : {"putRow"}, view : Views, entity : Entities, position : Positions]
  <2>1. /\ o.entity \in Entities /\ o.view \in Views /\ o.position \in Positions
        /\ o.op = "putRow"
    BY <1>3
  <2>2. /\ Applied(t, o) = PutRow(t, o.view, o.entity, o.position)
        /\ Allowed(t, o) => Exists(t, o.entity)
    BY <2>1 DEF Applied, Allowed
  <2>3. QED
    BY <2>1, <2>2, RowPut
<1>4. CASE o \in [op : {"removeRow"}, view : Views, entity : Entities]
  <2>1. o.entity \in Entities /\ o.view \in Views /\ o.op = "removeRow"
    BY <1>4
  <2>2. Applied(t, o) = RemoveRow(t, o.view, o.entity)
    BY <2>1 DEF Applied
  <2>3. QED
    BY <2>1, <2>2, RowRemoved
<1>5. CASE o \in [op : {"bump"}, view : Views]
  <2>1. o.view \in Views /\ o.op = "bump"
    BY <1>5
  <2>2. Applied(t, o) = [t EXCEPT !.revisions[o.view] = @ + 1]
    BY <2>1 DEF Applied
  <2>3. QED
    BY <2>1, <2>2, ViewBumped
<1>6. QED
  BY <1>1, <1>2, <1>3, <1>4, <1>5 DEF Operations

(* Where WholeBatch has come after the first n operations.                  *)
BatchGoes(f, t, b) == f = [n \in 0..Len(b) |-> IF n = 0 THEN t ELSE Applied(f[n - 1], b[n])]
Upto(t, b) == CHOOSE f : BatchGoes(f, t, b)
Counting == {t \in AnyTables : OneRowEach(t)}

LEMMA BatchStepByStep ==
    ASSUME NEW t \in Counting, NEW b \in Seq(Operations)
    PROVE  /\ Upto(t, b)[0] = t
           /\ \A n \in 0..Len(b) : n < Len(b) => Upto(t, b)[n + 1] = Applied(Upto(t, b)[n], b[n + 1])
           /\ WholeBatch(t, b) = Upto(t, b)[Len(b)]
<1> DEFINE N == Len(b)
           next == [n \in 1..N |-> [s \in Counting |-> Applied(s, b[n])]]
<1>1. N \in Nat /\ \A n \in 1..N : b[n] \in Operations
  OBVIOUS
<1>2. \A n \in 1..N : \A s \in Counting : Applied(s, b[n]) \in Counting
  <2> HIDE DEF N
  <2>1. QED
    BY <1>1, OperationsKeepTables DEF Counting
<1>3. next \in [1..N -> [Counting -> Counting]]
  <2> HIDE DEF N
  <2>1. QED
    BY <1>2
<1>4. \E f : BatchGoes(f, t, b)
  <2> HIDE DEF N
  <2>1. \A n \in 1..N : \A s \in Counting : next[n][s] = Applied(s, b[n])
    OBVIOUS
  <2> HIDE DEF next
  <2>2. PICK f : Takes(f, Counting, N, t, next)
    BY <1>1, <1>3, StepsCanBeTaken
  <2>3. f \in [0..N -> Counting] /\ f[0] = t /\ \A n \in 1..N : f[n] = next[n][f[n - 1]]
    BY <2>2 DEF Takes
  <2>4. \A n \in 1..N : f[n] = Applied(f[n - 1], b[n])
    <3>1. \A n \in 1..N : n - 1 \in 0..N
      BY <1>1
    <3>2. QED
      BY <2>1, <2>3, <3>1
  <2>5. \A n \in 0..N : n = 0 \/ (n \in 1..N /\ n # 0)
    BY <1>1
  <2>6. \A n \in 0..N : f[n] = IF n = 0 THEN t ELSE Applied(f[n - 1], b[n])
    BY <2>3, <2>4, <2>5
  <2>7. f = [n \in 0..N |-> IF n = 0 THEN t ELSE Applied(f[n - 1], b[n])]
    BY <2>3, <2>6
  <2>8. QED
    BY <2>7 DEF BatchGoes, N
<1>5. BatchGoes(Upto(t, b), t, b)
  BY <1>4 DEF Upto
<1>6. WholeBatch(t, b) = Upto(t, b)[N]
  BY DEF WholeBatch, Upto, BatchGoes
<1> DEFINE up == Upto(t, b)
<1>7. \A n \in 0..N : up[n] = IF n = 0 THEN t ELSE Applied(up[n - 1], b[n])
  <2> HIDE DEF up
  <2>1. up = [n \in 0..N |-> IF n = 0 THEN t ELSE Applied(up[n - 1], b[n])]
    BY <1>5 DEF BatchGoes, up
  <2>2. QED
    BY <2>1
<1> HIDE DEF up, N
<1>8. up[0] = t
  BY <1>1, <1>7
<1>9. ASSUME NEW n \in 0..N, n < N PROVE up[n + 1] = Applied(up[n], b[n + 1])
  <2>1. n + 1 \in 0..N /\ n + 1 # 0 /\ (n + 1) - 1 = n
    BY <1>1, <1>9
  <2>2. up[n + 1] = Applied(up[(n + 1) - 1], b[n + 1])
    BY <1>7, <2>1
  <2>3. QED
    BY <2>1, <2>2
<1>10. QED
  BY <1>6, <1>8, <1>9 DEF up, N

(* The tables committed and in work hold, and what is in work is what the   *)
(* first done operations of the batch make of what is committed.            *)
ViewsInv ==
    /\ TablesHold(stored) /\ TablesHold(working)
    /\ batch \in Batches \cup {<<>>} /\ batches \in 0..MaxBatches
    /\ done \in 0..Len(batch)
    /\ working = Upto(stored, batch)[done]

LEMMA BatchesAreSequences ==
    ASSUME NEW b \in Batches \cup {<<>>}
    PROVE  b \in Seq(Operations) /\ Len(b) \in 0..MaxBatch
<1>1. CASE b = <<>>
  BY <1>1, ViewsAssumption
<1>2. CASE b \in Batches
  <2>1. PICK n \in 1..MaxBatch : b \in [1..n -> Operations]
    BY <1>2 DEF Batches
  <2>2. \A m \in Nat : \A f \in [1..m -> Operations] : f \in Seq(Operations) /\ Len(f) = m
    OBVIOUS
  <2>3. QED
    BY <2>1, <2>2, ViewsAssumption
<1>3. QED
  BY <1>1, <1>2

LEMMA ViewsType == ViewsInv => ViewsTypeOK
  BY BatchesAreSequences, ViewsAssumption DEF ViewsInv, ViewsTypeOK, TablesHold

LEMMA TablesAreCounting == \A t : TablesHold(t) => t \in Counting
  BY TablesAreAny DEF TablesHold, Counting

LEMMA ViewsBegin == ViewsInit => ViewsInv
<1> SUFFICES ASSUME ViewsInit PROVE ViewsInv
  OBVIOUS
<1>1. EmptyTables \in AnyTables /\ OneRowEach(EmptyTables) /\ Referring(EmptyTables)
  BY DEF EmptyTables, AnyTables, OneRowEach, Referring
<1>2. Counted(EmptyTables)
  <2>1. \A v \in Views : RowsOf(EmptyTables, v) = {} /\ EmptyTables.counts[v] = 0
    BY DEF EmptyTables, RowsOf
  <2>2. QED
    BY <2>1, FS_EmptySet DEF Counted
<1>3. TablesHold(EmptyTables)
  BY <1>1, <1>2, WhatTablesHold
<1>4. Upto(EmptyTables, <<>>)[0] = EmptyTables
  <2>1. <<>> \in Seq(Operations) /\ EmptyTables \in Counting
    BY <1>3, TablesAreCounting
  <2>2. QED
    BY <2>1, BatchStepByStep
<1>5. QED
  BY <1>3, <1>4, ViewsAssumption DEF ViewsInit, ViewsInv

LEMMA ViewsGoOn == ViewsInv /\ [ViewsNext]_viewsVars => ViewsInv'
<1> SUFFICES ASSUME ViewsInv, [ViewsNext]_viewsVars PROVE ViewsInv'
  OBVIOUS
<1>1. TablesHold(stored) /\ TablesHold(working) /\ stored \in Counting /\ working \in Counting
  BY TablesAreCounting DEF ViewsInv
<1>2. batch \in Seq(Operations) /\ Len(batch) \in Nat /\ done \in 0..Len(batch)
  BY BatchesAreSequences DEF ViewsInv
<1>3. \A t \in Counting : \A b \in Seq(Operations) : Upto(t, b)[0] = t
  BY BatchStepByStep
<1>4. \A b \in Batches : b \in Seq(Operations) /\ Len(b) \in Nat
  BY BatchesAreSequences
<1>0. <<>> \in Seq(Operations) /\ Len(<<>>) = 0 /\ 0 \in 0..0
  OBVIOUS
<1>5. ASSUME NEW b \in Batches, BeginCommit(b) PROVE ViewsInv'
  BY <1>1, <1>3, <1>4, <1>5, ViewsAssumption DEF BeginCommit, ViewsInv
<1>6. CASE ApplyOperation
  <2>1. batch[done + 1] \in Operations /\ done + 1 \in 0..Len(batch) /\ done < Len(batch)
    BY <1>2, <1>6 DEF ApplyOperation
  <2>2. TablesHold(working')
    BY <1>1, <1>6, <2>1, OperationsKeepTables DEF ApplyOperation, Counting
  <2>3. Upto(stored, batch)[done + 1] = Applied(working, batch[done + 1])
    BY <1>1, <1>2, <2>1, BatchStepByStep DEF ViewsInv
  <2>4. QED
    BY <1>6, <2>1, <2>2, <2>3 DEF ApplyOperation, ViewsInv
<1>7. CASE Rollback
  <2>1. Upto(stored', <<>>)[0] = stored' /\ TablesHold(stored')
    BY <1>0, <1>1, <1>3, <1>7 DEF Rollback
  <2>2. /\ working' = stored' /\ batch' = <<>> /\ done' = 0 /\ batches' = batches
    BY <1>7 DEF Rollback
  <2>3. QED
    BY <1>0, <2>1, <2>2 DEF ViewsInv
<1>8. CASE Commit
  <2>1. Upto(stored', <<>>)[0] = stored' /\ TablesHold(stored')
    BY <1>0, <1>1, <1>3, <1>8 DEF Commit
  <2>2. /\ working' = stored' /\ batch' = <<>> /\ done' = 0 /\ batches' = batches
    BY <1>8 DEF Commit
  <2>3. QED
    BY <1>0, <2>1, <2>2 DEF ViewsInv
<1>9. CASE UNCHANGED viewsVars
  BY <1>9 DEF viewsVars, ViewsInv
<1>10. QED
  BY <1>5, <1>6, <1>7, <1>8, <1>9 DEF ViewsNext

LEMMA ViewsHold == ViewsSpec => []ViewsInv
  BY ViewsBegin, ViewsGoOn, PTL DEF ViewsSpec

(* The tables of every database keep the types of the schema, and no batch  *)
(* exceeds its bounds.                                                      *)
THEOREM ViewsAreTyped == ViewsSpec => []ViewsTypeOK
  BY ViewsHold, ViewsType, PTL

(* A change of the tables is a whole batch, whatever the operations in it,  *)
(* refused, failed or cut short by a death anywhere in it.                  *)
THEOREM WholeBatchesOnly == ViewsSpec => BatchesAreWhole
<1>1. ViewsInv /\ [ViewsNext]_viewsVars
        => [stored' # stored => stored' = WholeBatch(stored, batch)]_viewsVars
  <2> SUFFICES ASSUME ViewsInv, ViewsNext, stored' # stored
               PROVE  stored' = WholeBatch(stored, batch)
    BY DEF viewsVars
  <2>1. Commit
    BY DEF ViewsNext, BeginCommit, ApplyOperation, Rollback
  <2>2. stored \in Counting /\ batch \in Seq(Operations)
    BY TablesAreCounting, BatchesAreSequences DEF ViewsInv
  <2>3. working = Upto(stored, batch)[Len(batch)]
    BY <2>1 DEF Commit, ViewsInv
  <2>4. QED
    BY <2>1, <2>2, <2>3, BatchStepByStep DEF Commit
<1>2. QED
  BY <1>1, ViewsHold, PTL DEF ViewsSpec, BatchesAreWhole

-----------------------------------------------------------------------------
(* A window of one row is the row of the smallest position after `after`.   *)
Apart(t, v) == \A r, s \in RowsOf(t, v) : r[3] = s[3] => r = s
RowsAfter(t, v, after) == {r \in RowsOf(t, v) : r[3] > after}
NextRow(t, v, after, m) ==
    /\ m \in RowsAfter(t, v, after)
    /\ \A r \in RowsAfter(t, v, after) : m[3] <= r[3]
    /\ PageAfter(t, v, 1, after) = {m} /\ LastPosition({m}, after) = m[3]

LEMMA WindowOfOne ==
    ASSUME NEW t \in Counting, NEW v \in Views, Apart(t, v), NEW after \in Nat
    PROVE  \/ /\ RowsAfter(t, v, after) = {}
              /\ PageAfter(t, v, 1, after) = {} /\ LastPosition({}, after) = after
           \/ \E m : NextRow(t, v, after, m)
<1> DEFINE rows == RowsAfter(t, v, after)
           places == {r[3] : r \in rows}
<1>1. RowsOf(t, v) \subseteq Listed /\ IsFiniteSet(RowsOf(t, v))
  BY RowsAreCounted DEF Counting, AnyTables, RowsOf
<1>2. rows \subseteq RowsOf(t, v) /\ IsFiniteSet(rows)
  BY <1>1, FS_Subset DEF RowsAfter
<1>3. \A r \in rows : r[3] \in Nat /\ r[3] \in Positions /\ r[2] \in Nat
  BY <1>1, <1>2, ListedRows
<1>4. PageAfter(t, v, 1, after) = {r \in rows : {s \in rows : Before(s, r)} = {}}
  <2> DEFINE before(r) == {s \in rows : Before(s, r)}
  <2>1. PageAfter(t, v, 1, after) = {r \in rows : Cardinality(before(r)) < 1}
    BY DEF PageAfter, RowsAfter
  <2>2. ASSUME NEW r \in rows PROVE Cardinality(before(r)) < 1 <=> before(r) = {}
    <3>1. before(r) \subseteq rows
      OBVIOUS
    <3> HIDE DEF before
    <3>2. IsFiniteSet(before(r))
      BY <1>2, <3>1, FS_Subset
    <3>3. Cardinality(before(r)) \in Nat /\ (Cardinality(before(r)) = 0 <=> before(r) = {})
      BY <3>2, FS_CardinalityType, FS_EmptySet
    <3>4. QED
      BY <3>3
  <2> HIDE DEF before, rows
  <2>3. PageAfter(t, v, 1, after) = {r \in rows : before(r) = {}}
    BY <2>1, <2>2
  <2>4. QED
    BY <2>3 DEF before
<1> HIDE DEF rows
<1>5. CASE rows = {}
  BY <1>4, <1>5 DEF LastPosition, rows
<1>6. CASE rows # {}
  <2>1. places \subseteq Nat /\ places # {}
    BY <1>3, <1>6
  <2> HIDE DEF places
  <2>2. PICK p \in places : \A q \in places : p <= q
    BY <2>1, Smallest
  <2>3. PICK m \in rows : m[3] = p
    BY <2>2 DEF places
  <2>4. \A r \in rows : m[3] <= r[3] /\ (r[3] = m[3] => r = m)
    BY <1>2, <2>2, <2>3 DEF places, Apart
  <2>5. PageAfter(t, v, 1, after) = {m}
    <3>1. ASSUME NEW r \in rows PROVE {s \in rows : Before(s, r)} = {} <=> r = m
      <4>1. CASE r = m
        <5>1. \A s \in rows : ~Before(s, m)
          BY <1>3, <2>3, <2>4 DEF Before
        <5>2. QED
          BY <4>1, <5>1
      <4>2. CASE r # m
        <5>1. Before(m, r)
          BY <1>3, <2>3, <2>4, <4>2 DEF Before
        <5>2. QED
          BY <2>3, <4>2, <5>1
      <4>3. QED
        BY <4>1, <4>2
    <3>2. QED
      BY <1>4, <2>3, <3>1
  <2>6. LastPosition({m}, after) = m[3]
    <3>1. LastPosition({m}, after) = CHOOSE q \in Positions :
                (\E r \in {m} : r[3] = q) /\ \A r \in {m} : r[3] <= q
      BY DEF LastPosition
    <3>2. \A q \in Positions : ((\E r \in {m} : r[3] = q) /\ \A r \in {m} : r[3] <= q) <=> q = m[3]
      BY <1>3, <2>3
    <3>3. QED
      BY <1>3, <2>3, <3>1, <3>2
  <2>7. NextRow(t, v, after, m)
    BY <2>3, <2>4, <2>5, <2>6 DEF NextRow, rows
  <2>8. QED
    BY <2>7
<1>7. QED
  BY <1>5, <1>6

(* Where a reader is after n windows of one row.                            *)
Start == [rows |-> {}, after |-> 0]
PageOn(t, v, p) ==
    LET next == PageAfter(t, v, 1, p.after) IN
    [rows |-> p.rows \cup next, after |-> LastPosition(next, p.after)]
Pages(f, t, v) ==
    f = [n \in 0..Cardinality(Entities) |-> IF n = 0 THEN Start ELSE PageOn(t, v, f[n - 1])]
PageUpto(t, v) == CHOOSE f : Pages(f, t, v)
Places == [rows : SUBSET Listed, after : Nat]

LEMMA PagesStepByStep ==
    ASSUME NEW t \in Counting, NEW v \in Views, Apart(t, v)
    PROVE  LET up == PageUpto(t, v)
               N == Cardinality(Entities) IN
           /\ N \in Nat /\ up[0] = Start /\ Paged(t, v, 1) = up[N].rows
           /\ \A n \in 0..N : n < N => up[n + 1] = PageOn(t, v, up[n])
<1> DEFINE N == Cardinality(Entities)
           up == PageUpto(t, v)
           next == [n \in 1..N |-> [s \in Places |-> PageOn(t, v, s)]]
<1>1. N \in Nat
  BY ViewsAssumption, FS_CardinalityType
<1>2. Paged(t, v, 1) = up[N].rows
  BY DEF Paged, PageUpto, Pages, PageOn, Start
<1> HIDE DEF N
<1>3. \A s \in Places : PageOn(t, v, s) \in Places
  <2> SUFFICES ASSUME NEW s \in Places PROVE PageOn(t, v, s) \in Places
    OBVIOUS
  <2>1. s.after \in Nat /\ s.rows \subseteq Listed
    BY DEF Places
  <2>2. RowsOf(t, v) \subseteq Listed
    BY DEF Counting, AnyTables, RowsOf
  <2>3. PageAfter(t, v, 1, s.after) \subseteq Listed
    BY <2>2 DEF PageAfter
  <2>4. LastPosition(PageAfter(t, v, 1, s.after), s.after) \in Nat
    <3>1. CASE \E m : NextRow(t, v, s.after, m)
      <4>1. PICK m : NextRow(t, v, s.after, m)
        BY <3>1
      <4>2. m \in Listed /\ LastPosition(PageAfter(t, v, 1, s.after), s.after) = m[3]
        BY <2>2, <4>1 DEF NextRow, RowsAfter
      <4>3. QED
        BY <4>2, ListedRows
    <3>2. QED
      BY <2>1, <3>1, WindowOfOne
  <2>5. QED
    BY <2>1, <2>3, <2>4 DEF PageOn, Places
<1>4. \E f : Pages(f, t, v)
  <2>1. \A n \in 1..N : \A s \in Places : next[n][s] = PageOn(t, v, s)
    OBVIOUS
  <2>2. next \in [1..N -> [Places -> Places]]
    BY <1>3
  <2>3. Start \in Places
    BY DEF Start, Places
  <2> HIDE DEF next
  <2>4. PICK f : Takes(f, Places, N, Start, next)
    BY <1>1, <2>2, <2>3, StepsCanBeTaken
  <2>5. f \in [0..N -> Places] /\ f[0] = Start /\ \A n \in 1..N : f[n] = next[n][f[n - 1]]
    BY <2>4 DEF Takes
  <2>6. \A n \in 1..N : n - 1 \in 0..N
    BY <1>1
  <2>7. \A n \in 1..N : f[n] = PageOn(t, v, f[n - 1])
    BY <2>1, <2>5, <2>6
  <2>8. \A n \in 0..N : n = 0 \/ (n \in 1..N /\ n # 0)
    BY <1>1
  <2>9. \A n \in 0..N : f[n] = IF n = 0 THEN Start ELSE PageOn(t, v, f[n - 1])
    BY <2>5, <2>7, <2>8
  <2>10. f = [n \in 0..N |-> IF n = 0 THEN Start ELSE PageOn(t, v, f[n - 1])]
    BY <2>5, <2>9
  <2>11. QED
    BY <2>10 DEF Pages, N
<1>5. Pages(up, t, v)
  BY <1>4 DEF PageUpto
<1> HIDE DEF up, next
<1>6. up = [n \in 0..N |-> IF n = 0 THEN Start ELSE PageOn(t, v, up[n - 1])]
  BY <1>5 DEF Pages, N
<1>7. \A n \in 0..N : up[n] = IF n = 0 THEN Start ELSE PageOn(t, v, up[n - 1])
  BY <1>6
<1>8. up[0] = Start
  BY <1>1, <1>7
<1>9. ASSUME NEW n \in 0..N, n < N PROVE up[n + 1] = PageOn(t, v, up[n])
  <2>1. n + 1 \in 0..N /\ n + 1 # 0 /\ (n + 1) - 1 = n
    BY <1>1, <1>9
  <2>2. up[n + 1] = PageOn(t, v, up[(n + 1) - 1])
    BY <1>7, <2>1
  <2>3. QED
    BY <2>1, <2>2
<1>10. QED
  BY <1>1, <1>2, <1>8, <1>9 DEF up, N

(* After n windows a reader has n rows or all of them, and none is between  *)
(* those it has and the cursor.                                             *)
HasPaged(t, v, p, n) ==
    /\ p.after \in Nat /\ p.rows = {r \in RowsOf(t, v) : r[3] <= p.after}
    /\ p.rows = RowsOf(t, v) \/ Cardinality(p.rows) >= n

LEMMA AllIsPaged ==
    ASSUME NEW t \in Counting, NEW v \in Views, Apart(t, v)
    PROVE  Paged(t, v, 1) = RowsOf(t, v)
<1> DEFINE N == Cardinality(Entities)
           up == PageUpto(t, v)
           all == RowsOf(t, v)
           Good == {n \in 0..N : HasPaged(t, v, up[n], n)}
<1>1. /\ N \in Nat /\ up[0] = Start /\ Paged(t, v, 1) = up[N].rows
      /\ \A n \in 0..N : n < N => up[n + 1] = PageOn(t, v, up[n])
  BY PagesStepByStep
<1>2. /\ all \subseteq Listed /\ IsFiniteSet(all) /\ Cardinality(all) \in Nat
      /\ Cardinality(all) <= N
  BY RowsAreCounted DEF Counting, AnyTables, RowsOf
<1>3. \A r \in all : r[3] \in Nat /\ r[3] # 0
  BY <1>2, ListedRows
<1> HIDE DEF N, up
<1>4. 0 \in Good
  <2>1. up[0].rows = {} /\ up[0].after = 0
    BY <1>1 DEF Start
  <2>2. Cardinality({}) = 0
    BY FS_EmptySet
  <2>3. {r \in all : r[3] <= 0} = {}
    BY <1>3
  <2> HIDE DEF all
  <2>4. HasPaged(t, v, up[0], 0)
    BY <2>1, <2>2, <2>3 DEF HasPaged, all
  <2>5. QED
    BY <1>1, <2>4
<1>5. ASSUME NEW n \in 0..N, n + 1 \in 0..N, n \in Good PROVE n + 1 \in Good
  <2> DEFINE p == up[n]
             q == up[n + 1]
  <2>1. q = PageOn(t, v, p) /\ HasPaged(t, v, p, n) /\ n \in Nat
    BY <1>1, <1>5
  <2> HIDE DEF p, q
  <2>2. p.after \in Nat /\ p.rows = {r \in all : r[3] <= p.after}
    BY <2>1 DEF HasPaged
  <2>3. CASE /\ RowsAfter(t, v, p.after) = {}
             /\ PageAfter(t, v, 1, p.after) = {} /\ LastPosition({}, p.after) = p.after
    <3>1. q.rows = p.rows /\ q.after = p.after
      BY <2>1, <2>3 DEF PageOn
    <3>2. p.rows = all
      BY <1>3, <2>2, <2>3 DEF RowsAfter
    <3>3. HasPaged(t, v, q, n + 1)
      BY <2>2, <3>1, <3>2 DEF HasPaged
    <3>4. QED
      BY <1>5, <3>3 DEF q
  <2>4. CASE \E m : NextRow(t, v, p.after, m)
    <3>1. PICK m : NextRow(t, v, p.after, m)
      BY <2>4
    <3>2. /\ m \in all /\ m[3] > p.after /\ m[3] \in Nat
          /\ \A r \in all : r[3] > p.after => m[3] <= r[3]
      BY <1>3, <3>1 DEF NextRow, RowsAfter
    <3>3. q.rows = p.rows \cup {m} /\ q.after = m[3]
      BY <2>1, <3>1 DEF PageOn, NextRow
    <3>4. q.rows = {r \in all : r[3] <= q.after}
      <4>1. \A r \in all : r[3] <= m[3] <=> r[3] <= p.after \/ r = m
        BY <1>3, <2>2, <3>2 DEF Apart
      <4>2. QED
        BY <2>2, <3>2, <3>3, <4>1
    <3>5. IsFiniteSet(p.rows) /\ m \notin p.rows /\ Cardinality(p.rows) \in Nat
      BY <1>2, <2>2, <3>2, FS_Subset, FS_CardinalityType
    <3>6. Cardinality(q.rows) = Cardinality(p.rows) + 1
      BY <3>3, <3>5, FS_AddElement
    <3>7. Cardinality(p.rows) >= n
      BY <2>1, <3>2, <3>5 DEF HasPaged
    <3>8. HasPaged(t, v, q, n + 1)
      BY <2>1, <3>2, <3>3, <3>4, <3>5, <3>6, <3>7 DEF HasPaged
    <3>9. QED
      BY <1>5, <3>8 DEF q
  <2>5. QED
    BY <2>2, <2>3, <2>4, WindowOfOne
<1> HIDE DEF Good
<1>6. 0..N \subseteq Good
  BY <1>1, <1>4, <1>5, StepByStep
<1>7. HasPaged(t, v, up[N], N)
  BY <1>1, <1>6 DEF Good
<1>8. up[N].rows \subseteq all
  BY <1>7 DEF HasPaged
<1>9. up[N].rows = all
  <2>1. CASE Cardinality(up[N].rows) >= N
    <3>1. /\ Cardinality(up[N].rows) <= Cardinality(all) /\ Cardinality(up[N].rows) \in Nat
          /\ Cardinality(up[N].rows) = Cardinality(all) => up[N].rows = all
      BY <1>2, <1>8, FS_Subset, FS_CardinalityType
    <3>2. QED
      BY <1>1, <1>2, <2>1, <3>1
  <2>2. QED
    BY <1>7, <2>1 DEF HasPaged
<1>10. QED
  BY <1>1, <1>9

(* What readers rely on after any history of batches: the counts the        *)
(* triggers keep are the rows there are, no row or alias is of an entity    *)
(* that is gone, and who pages through a view sees every row of it.         *)
THEOREM ViewsAgree == ViewsSpec => []TablesAgree
<1>1. ViewsInv => TablesAgree
  <2> SUFFICES ASSUME ViewsInv PROVE TablesAgree
    OBVIOUS
  <2>1. TablesHold(stored) /\ stored \in Counting
    BY TablesAreCounting DEF ViewsInv
  <2>2. CountsAreTrue /\ NothingDangles
    BY <2>1 DEF TablesHold, Counted, Referring, CountsAreTrue, NothingDangles
  <2>3. PagingIsComplete
    BY <2>1, AllIsPaged DEF PagingIsComplete, Apart
  <2>4. QED
    BY <2>2, <2>3 DEF TablesAgree
<1>2. QED
  BY <1>1, ViewsHold, PTL

-----------------------------------------------------------------------------
(* Request ids, and the broadcast of revisions.                             *)

LastId == Raw(logical, sequence)

(* The allocator's own state bounds every id it has given out. *)
IdsBounded ==
    /\ \A i \in 1..Len(issued) : issued[i] <= LastId
    /\ issued # <<>> => LastId > 0
IdsInv == IdsTypeOK /\ IdsBounded /\ IdsIncrease

(* Raw is a natural number. *)
LEMMA RawIsNat ==
    ASSUME NEW m \in Nat, NEW s \in Nat
    PROVE  Raw(m, s) \in Nat
<1>1. SequenceMask + 1 \in Nat
  BY MaskAssumption
<1>2. m * (SequenceMask + 1) \in Nat
  BY <1>1
<1> QED
  BY <1>2 DEF Raw

(* One turn of the allocator moves Raw(logical, sequence) strictly up. *)
LEMMA AdvanceGrows ==
    ASSUME logical \in Nat, sequence \in 0..SequenceMask,
           NEW millis \in Nat, Advance(millis)
    PROVE  logical' \in Nat /\ sequence' \in 0..SequenceMask /\ LastId' > LastId
<1>1. CASE millis > logical
  <2>1. logical' = millis /\ sequence' = 0
    BY <1>1 DEF Advance
  <2>2. logical' >= logical + 1
    BY <1>1, <2>1
  <2>3. logical' * (SequenceMask + 1) >= (logical + 1) * (SequenceMask + 1)
    BY <2>1, <2>2, MaskAssumption
  <2> QED
    BY <2>1, <2>3, MaskAssumption DEF LastId, Raw
<1>2. CASE ~(millis > logical)
  BY <1>2, MaskAssumption DEF Advance, LastId, Raw
<1> QED
  BY <1>1, <1>2

LEMMA IdsInvHolds == IdsSpec => []IdsInv
<1>1. IdsInit => IdsInv
  BY MaskAssumption DEF IdsInit, IdsInv, IdsTypeOK, IdsBounded, IdsIncrease
<1>2. IdsInv /\ [IdsNext]_idVars => IdsInv'
  <2> SUFFICES ASSUME IdsInv, [IdsNext]_idVars PROVE IdsInv'
    OBVIOUS
  <2> USE DEF IdsInv
  <2>1. CASE SetClock
    BY <2>1 DEF SetClock, IdsTypeOK, IdsBounded, IdsIncrease, LastId, Raw
  <2>2. ASSUME NEW t \in Threads, ReadClock(t) PROVE IdsInv'
    BY <2>2 DEF ReadClock, IdsTypeOK, IdsBounded, IdsIncrease, LastId, Raw
  <2>3. ASSUME NEW t \in Threads, NextAt(t) PROVE IdsInv'
    <3>1. reading[t] \in Nat
      BY <2>3, BoundsAssumption DEF NextAt, IdsTypeOK, Outside
    <3>2. logical' \in Nat /\ sequence' \in 0..SequenceMask /\ LastId' > LastId
      BY <2>3, <3>1, AdvanceGrows DEF NextAt, IdsTypeOK
    <3>3. LastId \in Nat /\ LastId' \in Nat
      BY <3>2, RawIsNat, MaskAssumption DEF IdsTypeOK, LastId
    <3>4. issued' = Append(issued, LastId')
      BY <2>3, <3>2, <3>3 DEF NextAt, LastId, AtLeastOne
    <3>5. /\ issued \in Seq(Nat)
          /\ Len(issued') = Len(issued) + 1
          /\ issued'[Len(issued) + 1] = LastId'
          /\ \A i \in 1..Len(issued) : issued'[i] = issued[i]
      BY <3>3, <3>4 DEF IdsTypeOK
    <3>6. IdsTypeOK'
      BY <2>3, <3>2, <3>3, <3>4 DEF NextAt, IdsTypeOK
    <3>7. \A i \in 1..Len(issued) : issued[i] \in Nat /\ issued[i] < LastId'
      BY <3>2, <3>3, <3>5 DEF IdsBounded
    <3>8. IdsBounded'
      BY <3>2, <3>3, <3>5, <3>7 DEF IdsBounded
    <3>9. IdsIncrease'
      <4>1. ASSUME NEW i \in 1..Len(issued'), NEW j \in 1..Len(issued'), i < j
            PROVE  issued'[i] < issued'[j]
        <5>1. i \in 1..Len(issued)
          BY <3>5, <4>1
        <5>2. CASE j \in 1..Len(issued)
          BY <3>5, <4>1, <5>1, <5>2 DEF IdsIncrease
        <5>3. CASE j = Len(issued) + 1
          BY <3>5, <3>7, <5>1, <5>3
        <5> QED
          BY <3>5, <5>2, <5>3
      <4>2. ASSUME NEW i \in 1..Len(issued') PROVE issued'[i] > 0
        <5>1. CASE i \in 1..Len(issued)
          BY <3>5, <5>1 DEF IdsIncrease
        <5>2. CASE i = Len(issued) + 1
          BY <3>2, <3>3, <3>5, <5>2, RawIsNat, MaskAssumption DEF IdsTypeOK, LastId
        <5> QED
          BY <3>5, <5>1, <5>2
      <4> QED
        BY <4>1, <4>2 DEF IdsIncrease
    <3> QED
      BY <3>6, <3>8, <3>9
  <2>4. CASE UNCHANGED idVars
    BY <2>4 DEF idVars, IdsTypeOK, IdsBounded, IdsIncrease, LastId, Raw
  <2> QED
    BY <2>1, <2>2, <2>3, <2>4 DEF IdsNext
<1> QED
  BY <1>1, <1>2, PTL DEF IdsSpec

(* Request ids strictly increase in the order they are taken. *)
THEOREM IdsIncreaseThm == IdsSpec => []IdsIncrease
<1>1. IdsInv => IdsIncrease
  BY DEF IdsInv
<1> QED
  BY <1>1, IdsInvHolds, PTL

-----------------------------------------------------------------------------
(* Readers of the broadcast.                                               *)
BusTypes ==
    /\ revision \in [BusViews -> Nat]
    /\ publishing \in [Writers -> BusViews \cup {Nothing}]
    /\ sent \in Seq(BusViews)
    /\ cursor \in [Readers -> Nat \cup {Unsubscribed}]
    /\ stale \in [Readers -> BOOLEAN]
    /\ shown \in [Readers -> Nat]
    /\ \A r \in Readers : cursor[r] <= Len(sent)

(* A change of v is on its way to r: some writer has yet to publish it, or *)
(* r has yet to come to it in the channel.                                 *)
OnItsWay(r, v) ==
    \/ \E w \in Writers : publishing[w] = v
    \/ \E i \in 1..Len(sent) : cursor[r] < i /\ sent[i] = v

NewsIsOnItsWay ==
    \A r \in Readers :
        Listening(r) /\ shown[r] # revision[Watches[r]] => OnItsWay(r, Watches[r])

BusInv == BusTypes /\ NewsIsOnItsWay

LEMMA BusStarts == BusInit => BusInv
  BY DEF BusInit, BusInv, BusTypes, NewsIsOnItsWay, Listening, Unsubscribed

LEMMA OldestInSent ==
    ASSUME BusTypes PROVE Oldest \in Nat /\ Oldest <= Len(sent)
  BY BusCapacityAssumption DEF BusTypes, Oldest

LEMMA CursorsAreInt ==
    ASSUME BusTypes
    PROVE  \A r \in Readers : cursor[r] \in Int /\ (cursor[r] # Unsubscribed => cursor[r] \in Nat)
  BY DEF BusTypes, Unsubscribed

LEMMA WritersStep ==
    ASSUME BusInv, NEW w \in Writers, Publish(w) \/ \E v \in BusViews : CommitRevision(w, v)
    PROVE  BusInv'
<1>1. CASE Publish(w)
  <2>1. publishing[w] \in BusViews
    BY <1>1 DEF Publish, BusInv, BusTypes
  <2>2. /\ sent' \in Seq(BusViews) /\ Len(sent') = Len(sent) + 1
        /\ sent'[Len(sent) + 1] = publishing[w]
        /\ \A i \in 1..Len(sent) : sent'[i] = sent[i]
    BY <1>1, <2>1 DEF Publish, BusInv, BusTypes
  <2>3. BusTypes'
    <3>1. publishing' \in [Writers -> BusViews \cup {Nothing}]
      BY <1>1 DEF Publish, BusInv, BusTypes
    <3>2. \A r \in Readers : cursor'[r] <= Len(sent')
      BY <1>1, <2>2, CursorsAreInt DEF Publish, BusInv, BusTypes
    <3>3. QED
      BY <1>1, <2>2, <3>1, <3>2 DEF Publish, BusInv, BusTypes
  <2>4. ASSUME NEW r \in Readers, NEW v \in BusViews, OnItsWay(r, v) PROVE OnItsWay(r, v)'
    <3>1. CASE publishing[w] = v
      <4>1. cursor'[r] < Len(sent) + 1 /\ Len(sent) + 1 \in 1..Len(sent')
        BY <1>1, <2>2, CursorsAreInt DEF Publish, BusInv, BusTypes
      <4>2. QED
        BY <2>2, <3>1, <4>1 DEF OnItsWay
    <3>2. ASSUME NEW x \in Writers, publishing[x] = v, publishing[w] # v PROVE OnItsWay(r, v)'
      <4>1. publishing'[x] = v
        BY <1>1, <3>2 DEF Publish, BusInv, BusTypes
      <4>2. QED
        BY <4>1 DEF OnItsWay
    <3>3. ASSUME NEW i \in 1..Len(sent), cursor[r] < i, sent[i] = v PROVE OnItsWay(r, v)'
      <4>1. i \in 1..Len(sent') /\ sent'[i] = v
        BY <2>2, <3>3 DEF BusInv, BusTypes
      <4>2. cursor'[r] < i
        BY <1>1, <3>3 DEF Publish
      <4>3. QED
        BY <4>1, <4>2 DEF OnItsWay
    <3>4. QED
      BY <2>4, <3>1, <3>2, <3>3 DEF OnItsWay
  <2>5. NewsIsOnItsWay'
    BY <1>1, <2>4, WatchesAssumption DEF Publish, NewsIsOnItsWay, Listening, BusInv
  <2>6. QED
    BY <2>3, <2>5 DEF BusInv
<1>2. ASSUME NEW v \in BusViews, CommitRevision(w, v) PROVE BusInv'
  <2>1. BusTypes'
    BY <1>2 DEF CommitRevision, BusInv, BusTypes
  <2>2. ASSUME NEW r \in Readers, Listening(r)', shown'[r] # revision'[Watches[r]]
        PROVE  OnItsWay(r, Watches[r])'
    <3>1. CASE Watches[r] = v
      BY <1>2, <3>1 DEF CommitRevision, OnItsWay, BusInv, BusTypes
    <3>2. CASE Watches[r] # v
      <4>1. OnItsWay(r, Watches[r])
        BY <1>2, <2>2, <3>2, WatchesAssumption
        DEF CommitRevision, NewsIsOnItsWay, Listening, BusInv, BusTypes
      <4>2. QED
        BY <1>2, <4>1, NothingIsNoView, WatchesAssumption DEF CommitRevision, OnItsWay, BusInv, BusTypes
    <3>3. QED
      BY <3>1, <3>2
  <2>3. QED
    BY <2>1, <2>2 DEF BusInv, NewsIsOnItsWay
<1>3. QED
  BY <1>1, <1>2

LEMMA ReadersStep ==
    ASSUME BusInv, NEW r \in Readers,
           Subscribe(r) \/ NextChange(r) \/ Overflow(r) \/ ReadAgain(r)
    PROVE  BusInv'
<1>1. UNCHANGED <<revision, publishing, sent>>
  BY DEF Subscribe, NextChange, Overflow, ReadAgain
<1>2. BusTypes'
  <2>1. cursor' \in [Readers -> Nat \cup {Unsubscribed}]
    <3>1. /\ cursor \in [Readers -> Nat \cup {Unsubscribed}] /\ Len(sent) \in Nat /\ Oldest \in Nat
      BY OldestInSent DEF BusInv, BusTypes
    <3>2. \/ cursor' = cursor
          \/ cursor' = [cursor EXCEPT ![r] = Len(sent)]
          \/ cursor' = [cursor EXCEPT ![r] = Oldest]
          \/ cursor[r] # Unsubscribed /\ cursor' = [cursor EXCEPT ![r] = cursor[r] + 1]
      BY DEF Subscribe, NextChange, Listening, Overflow, ReadAgain
    <3>3. cursor[r] # Unsubscribed => cursor[r] + 1 \in Nat
      BY <3>1
    <3>4. QED
      BY <3>1, <3>2, <3>3
  <2>2. \A s \in Readers : cursor'[s] <= Len(sent)
    <3>1. CASE NextChange(r)
      BY <3>1, CursorsAreInt DEF BusInv, BusTypes, NextChange, Listening
    <3>2. CASE Subscribe(r)
      BY <3>2 DEF BusInv, BusTypes, Subscribe
    <3>3. CASE Overflow(r)
      BY <3>3, OldestInSent DEF BusInv, BusTypes, Overflow
    <3>4. CASE ReadAgain(r)
      BY <3>4 DEF BusInv, BusTypes, ReadAgain
    <3>5. QED
      BY <3>1, <3>2, <3>3, <3>4
  <2>3. stale' \in [Readers -> BOOLEAN]
    BY DEF BusInv, BusTypes, Subscribe, NextChange, Overflow, ReadAgain
  <2>4. shown' \in [Readers -> Nat]
    BY WatchesAssumption DEF BusInv, BusTypes, Subscribe, NextChange, Overflow, ReadAgain
  <2>5. QED
    BY <1>1, <2>1, <2>2, <2>3, <2>4 DEF BusInv, BusTypes
<1>3. ASSUME NEW s \in Readers, Listening(s)', shown'[s] # revision'[Watches[s]]
      PROVE  OnItsWay(s, Watches[s])'
  <2>1. CASE s # r
    <3>1. cursor'[s] = cursor[s] /\ stale'[s] = stale[s] /\ shown'[s] = shown[s]
      BY <2>1 DEF BusInv, BusTypes, Subscribe, NextChange, Overflow, ReadAgain
    <3>2. QED
      BY <1>1, <1>3, <3>1 DEF BusInv, NewsIsOnItsWay, OnItsWay, Listening
  <2>2. CASE s = r
    <3>1. NextChange(r) /\ sent[cursor[r] + 1] # Watches[r]
      BY <1>1, <1>3, <2>2
      DEF BusInv, BusTypes, Subscribe, NextChange, Overflow, ReadAgain, Listening
    <3>2. OnItsWay(r, Watches[r])
      BY <1>1, <1>3, <2>2, <3>1 DEF BusInv, NewsIsOnItsWay, NextChange, Listening
    <3>3. cursor[r] \in Nat /\ cursor'[r] = cursor[r] + 1
      BY <3>1 DEF BusInv, BusTypes, NextChange, Listening
    <3>4. QED
      BY <1>1, <2>2, <3>1, <3>2, <3>3 DEF OnItsWay, BusInv, BusTypes
  <2>3. QED
    BY <2>1, <2>2
<1>4. QED
  BY <1>2, <1>3 DEF BusInv, NewsIsOnItsWay

LEMMA BusStep == BusInv /\ [BusNext]_busVars => BusInv'
<1>1. ASSUME BusInv, UNCHANGED busVars PROVE BusInv'
  BY <1>1 DEF busVars, BusInv, BusTypes, NewsIsOnItsWay, OnItsWay, Listening
<1>2. QED
  BY <1>1, WritersStep, ReadersStep DEF BusNext

LEMMA NothingMissed == BusInv => CaughtUpIsCurrent
<1> SUFFICES ASSUME BusInv, NEW r \in Readers, Listening(r), cursor[r] = Len(sent),
                    Watches[r] \notin {publishing[w] : w \in Writers}
             PROVE  shown[r] = revision[Watches[r]]
  BY DEF CaughtUpIsCurrent
<1>1. ~ OnItsWay(r, Watches[r])
  BY DEF OnItsWay, BusInv, BusTypes
<1>2. QED
  BY <1>1 DEF BusInv, NewsIsOnItsWay

(* A reader that has heard all there is shows what is in the store, for any*)
(* number of writers and readers, and a channel of any size, which is what *)
(* Overflow is for (rise_store_observation.rs).                            *)
THEOREM ReadersCatchUp == BusSpec => []CaughtUpIsCurrent
  BY BusStarts, BusStep, NothingMissed, PTL DEF BusSpec

-----------------------------------------------------------------------------
(* Upload progress.                                                         *)

(* An entry of the map was announced, and is the upload's own.             *)
EntriesAreAnnounced ==
    \A u \in Uploads : published[u] # NoEntry => published[u].id = u /\ published[u] \in Announced
UploadInv == UploadTypeOK /\ EntriesAreAnnounced /\ NeverFarBehind

LEMMA UploadStarts == UploadInit => UploadInv
  BY UploadAssumption DEF UploadInit, UploadInv, UploadTypeOK, EntriesAreAnnounced, NeverFarBehind

LEMMA ReportKeeps ==
    ASSUME UploadInv, NEW t \in Reporters, NEW p \in Progress, Report(t, p) PROVE UploadInv'
<1>1. /\ sending[t] = NoEntry /\ updates' = updates /\ p.id \in Uploads /\ p # NoEntry
      /\ latest' = [latest EXCEPT ![p.id] = p]
  BY UploadAssumption DEF Report, Progress
<1>2. \/ published' = [published EXCEPT ![p.id] = p] /\ sending' = [sending EXCEPT ![t] = p]
      \/ ~ShouldPublish(p) /\ UNCHANGED <<published, sending>>
  <2>1. CASE ShouldPublish(p)
    BY <2>1 DEF Report
  <2>2. CASE ~ShouldPublish(p)
    BY <2>2 DEF Report
  <2>3. QED
    BY <2>1, <2>2
<1>3. \A q \in Announced : q # NoEntry => q \in Announced'
  BY <1>1, <1>2 DEF Announced, UploadInv, UploadTypeOK
<1>4. UploadTypeOK'
  <2>1. reports' \in 0..MaxReports
    BY UploadAssumption DEF Report, UploadInv, UploadTypeOK
  <2>2. published' \in [Uploads -> Progress \cup {NoEntry}] /\ sending' \in [Reporters -> Progress \cup {NoEntry}]
    BY <1>1, <1>2 DEF UploadInv, UploadTypeOK
  <2>3. latest' \in [Uploads -> Progress \cup {NoEntry}]
    BY <1>1 DEF UploadInv, UploadTypeOK
  <2>4. QED
    BY <1>1, <2>1, <2>2, <2>3 DEF UploadInv, UploadTypeOK
<1>5. CASE sending' = [sending EXCEPT ![t] = p] /\ published' = [published EXCEPT ![p.id] = p]
  <2>1. p \in Announced'
    BY <1>5 DEF Announced, UploadInv, UploadTypeOK
  <2>2. QED
    BY <1>1, <1>3, <1>4, <1>5, <2>1
    DEF UploadInv, UploadTypeOK, EntriesAreAnnounced, NeverFarBehind
<1>6. CASE ~ShouldPublish(p) /\ UNCHANGED <<published, sending>>
  <2>1. Announced' = Announced
    BY <1>1, <1>6 DEF Announced
  <2>2. /\ published[p.id] # NoEntry /\ published[p.id].state = p.state /\ ~IsTerminal(p)
        /\ Distance(p.sent, published[p.id].sent) < Epsilon
    BY <1>6, <1>1, EpsilonAssumption
    DEF ShouldPublish, Distance, Progress, UploadInv, UploadTypeOK
  <2>3. Distance(p.sent, published[p.id].sent) = Distance(published[p.id].sent, p.sent)
    BY <1>1, <2>2, EpsilonAssumption DEF Distance, Progress, UploadInv, UploadTypeOK
  <2>4. QED
    BY <1>1, <1>4, <1>6, <2>1, <2>2, <2>3
    DEF UploadInv, UploadTypeOK, EntriesAreAnnounced, NeverFarBehind
<1>7. QED
  BY <1>2, <1>5, <1>6

LEMMA BroadcastKeeps ==
    ASSUME UploadInv, NEW t \in Reporters, Broadcast(t) PROVE UploadInv'
<1>1. /\ sending[t] \in Progress /\ updates' = Append(updates, sending[t])
      /\ sending' = [sending EXCEPT ![t] = NoEntry] /\ UNCHANGED <<published, latest, reports>>
  BY DEF Broadcast, UploadInv, UploadTypeOK
<1>2. /\ updates' \in Seq(Progress) /\ Len(updates') = Len(updates) + 1
      /\ updates'[Len(updates) + 1] = sending[t]
      /\ \A i \in 1..Len(updates) : updates'[i] = updates[i]
      /\ Len(updates) \in Nat
  BY <1>1 DEF UploadInv, UploadTypeOK
<1>3. UploadTypeOK'
  BY <1>1, <1>2 DEF UploadInv, UploadTypeOK
<1>4. ASSUME NEW q \in Announced PROVE q \in Announced'
  <2>1. CASE q = sending[t]
    BY <1>2, <2>1 DEF Announced
  <2>2. ASSUME NEW i \in 1..Len(updates), q = updates[i] PROVE q \in Announced'
    BY <1>2, <2>2 DEF Announced
  <2>3. ASSUME NEW r \in Reporters, r # t, q = sending[r] PROVE q \in Announced'
    BY <1>1, <2>3 DEF Announced, UploadInv, UploadTypeOK
  <2>4. QED
    BY <2>1, <2>2, <2>3 DEF Announced
<1>5. QED
  BY <1>1, <1>3, <1>4 DEF UploadInv, EntriesAreAnnounced, NeverFarBehind

LEMMA ForgetKeeps == ASSUME UploadInv, ForgetTerminal PROVE UploadInv'
<1>1. Announced' = Announced /\ UNCHANGED <<latest, sending, updates, reports>>
  BY DEF ForgetTerminal, Announced
<1>2. \A u \in Uploads : published'[u] = IF published[u] # NoEntry /\ IsTerminal(published[u])
                                           THEN NoEntry ELSE published[u]
  BY DEF ForgetTerminal
<1>3. UploadTypeOK'
  BY <1>1 DEF ForgetTerminal, UploadInv, UploadTypeOK
<1>4. QED
  BY <1>1, <1>2, <1>3 DEF UploadInv, EntriesAreAnnounced, NeverFarBehind, IsTerminal

LEMMA UploadInvHolds == UploadSpec => []UploadInv
<1>1. UploadInv /\ [UploadNext]_uploadVars => UploadInv'
  <2>1. ASSUME UploadInv, UNCHANGED uploadVars PROVE UploadInv'
    BY <2>1 DEF uploadVars, UploadInv, UploadTypeOK, EntriesAreAnnounced, NeverFarBehind, Announced
  <2>2. QED
    BY <2>1, ReportKeeps, BroadcastKeeps, ForgetKeeps DEF UploadNext
<1>2. QED
  BY <1>1, UploadStarts, PTL DEF UploadSpec

(* What an observer was sent of an upload is less than epsilon from the     *)
(* last report in the same state, or that report is itself sent or about to *)
(* be; a terminal state is never lost (report, forget_terminal), for any    *)
(* uploads and any reporters at once.                                       *)
THEOREM ObserversKeepUp == UploadSpec => []NeverFarBehind
<1>1. UploadInv => NeverFarBehind
  BY DEF UploadInv
<1>2. QED
  BY <1>1, UploadInvHolds, PTL

-----------------------------------------------------------------------------
(* The debouncer.                                                           *)

(* What an edit past the count left, and the burst, while it lasts, held by *)
(* the newest edit, whose task fires by itself before the ceiling.          *)
EditsAreCounted ==
    /\ pending \in {0, edits}
    /\ \A i \in Edits : i > edits => task[i] = "none" /\ ran[i] = NoTime
    /\ \A i \in Edits : i <= edits => editedAt[i] <= time
    /\ \A i \in Edits : task[i] \in {"sending", "done"} => i \in woken
    /\ \A i \in Edits : ran[i] # NoTime => task[i] = "done" /\ ran[i] <= time
BurstIsHeld ==
    ~dropped /\ burstStarted # NoTime =>
        /\ edits >= 1 /\ pending = edits
        /\ task[edits] \in {"asleep", "sending", "done"}
        /\ MaxWait # NoMaxWait /\ task[edits] = "asleep" => deadline[edits] <= burstStarted + MaxWait
DebounceInv ==
    DebounceTypeOK /\ EditsAreCounted /\ BurstIsHeld /\ OnlyTheNewest /\ CeilingHolds

LEMMA DebounceStarts == DebounceInit => DebounceInv
<1> SUFFICES ASSUME DebounceInit PROVE DebounceInv
  OBVIOUS
<1>1. DebounceTypeOK
  <2>1. {Window, MaxEdits, MaxTime, Capacity} \subseteq Nat
    BY MaxWaitAssumption
  <2>2. NoTime \in Times /\ 0 \in 0..MaxTime /\ 0 \in 0..MaxEdits /\ 0 \in 0..(MaxTime + Window)
    BY <2>1 DEF NoTime, Times
  <2>3. dropped \in BOOLEAN
    BY DEF DebounceInit
  <2>4. channel \in Seq(Edits) /\ Len(channel) <= Capacity
    BY <2>1 DEF DebounceInit
  <2>5. QED
    BY <2>2, <2>3, <2>4 DEF DebounceInit, DebounceTypeOK
<1>2. EditsAreCounted /\ BurstIsHeld
  BY DEF DebounceInit, EditsAreCounted, BurstIsHeld, NoTime
<1>3. OnlyTheNewest /\ CeilingHolds
  BY DEF DebounceInit, OnlyTheNewest, CeilingHolds, Alive, Edits
<1>4. QED
  BY <1>1, <1>2, <1>3 DEF DebounceInv

(* What abort() does to the task the debouncer holds. *)
LEMMA AbortIsExact ==
    ASSUME DebounceInv, NEW t, t = Aborting(task, pending)
    PROVE  /\ t \in [Edits -> {"none", "asleep", "signalled", "sending", "done", "aborted"}]
           /\ \A i \in Edits : t[i] = IF i = pending /\ Alive(i) THEN "aborted" ELSE task[i]
<1>1. pending \in 0..MaxEdits /\ MaxEdits \in Nat
      /\ task \in [Edits -> {"none", "asleep", "signalled", "sending", "done", "aborted"}]
  BY MaxWaitAssumption DEF DebounceInv, DebounceTypeOK
<1>2. pending # 0 => pending \in Edits
  BY <1>1 DEF Edits
<1>3. 0 \notin Edits
  BY <1>1 DEF Edits
<1>4. QED
  BY <1>1, <1>2, <1>3 DEF Aborting, Alive

LEMMA RunKeeps == ASSUME DebounceInv, Run PROVE DebounceInv'
<1> DEFINE new == edits + 1
           began == IF burstStarted = NoTime THEN time ELSE burstStarted
           base == Aborting(task, pending)
           due == IF MaxWait = NoMaxWait THEN time + Window
                  ELSE EarlierOf(time + Window, began + MaxWait)
<1>1. /\ {Window, MaxEdits, MaxTime, Capacity} \subseteq Nat
      /\ MaxWait # NoMaxWait => MaxWait \in Nat /\ MaxWait >= Window
  BY MaxWaitAssumption
<1>2. /\ time \in 0..MaxTime /\ edits \in 0..MaxEdits /\ burstStarted \in 0..NoTime
      /\ editedAt \in [Edits -> Times] /\ ran \in [Edits -> Times]
      /\ deadline \in [Edits -> 0..(MaxTime + Window)] /\ NoTime = MaxTime + 1
      /\ EditsAreCounted /\ BurstIsHeld /\ OnlyTheNewest /\ CeilingHolds
  BY DEF DebounceInv, DebounceTypeOK, Times, NoTime
<1>3. /\ ~dropped /\ new \in Edits /\ new \in 1..MaxEdits
      /\ edits' = new /\ editedAt' = [editedAt EXCEPT ![new] = time]
      /\ burstStarted' = began /\ task' = [base EXCEPT ![new] = "asleep"]
      /\ deadline' = [deadline EXCEPT ![new] = due] /\ pending' = new
  BY <1>1, <1>2 DEF Run, Edits
<1>4. UNCHANGED <<time, channel, ran, asked, woken, dropped>>
  BY DEF Run
<1>5. /\ base \in [Edits -> {"none", "asleep", "signalled", "sending", "done", "aborted"}]
      /\ \A i \in Edits : base[i] = IF i = pending /\ Alive(i) THEN "aborted" ELSE task[i]
  BY AbortIsExact
<1>6. due \in 0..(MaxTime + Window) /\ began \in 0..MaxTime \cup {burstStarted}
      /\ (MaxWait # NoMaxWait => due <= began + MaxWait) /\ began # NoTime /\ began \in Nat
  BY <1>1, <1>2 DEF EarlierOf
<1> HIDE DEF base, due
<1>7. DebounceTypeOK'
  <2>1. edits' \in 0..MaxEdits /\ pending' \in 0..MaxEdits /\ time \in Times
    BY <1>1, <1>2, <1>3 DEF Times
  <2>2. burstStarted' \in Times
    BY <1>1, <1>2, <1>3 DEF Times
  <2> HIDE DEF began, new
  <2>3. editedAt' \in [Edits -> Times]
    BY <1>2, <1>3, <2>1
  <2>4. task' \in [Edits -> {"none", "asleep", "signalled", "sending", "done", "aborted"}]
    BY <1>3, <1>5
  <2>5. deadline' \in [Edits -> 0..(MaxTime + Window)]
    BY <1>2, <1>3, <1>6
  <2>6. Times' = Times
    BY DEF Times, NoTime
  <2>7. QED
    BY <1>4, <2>1, <2>2, <2>3, <2>4, <2>5 DEF DebounceInv, DebounceTypeOK, Times, NoTime
<1>8. /\ \A i \in Edits : task'[i] = IF i = new THEN "asleep" ELSE base[i]
      /\ \A i \in Edits : editedAt'[i] = IF i = new THEN time ELSE editedAt[i]
      /\ deadline'[new] = due
  BY <1>2, <1>3, <1>5
<1>9. Edits \subseteq Nat /\ edits \in Nat /\ time \in Nat /\ new > edits
  BY <1>2 DEF Edits
<1>10. EditsAreCounted'
  <2>1. pending' \in {0, edits'}
    BY <1>3
  <2>2. \A i \in Edits : i > new => task[i] = "none" /\ ran[i] = NoTime /\ i > edits
    BY <1>2, <1>9 DEF EditsAreCounted
  <2>3. \A i \in Edits : i > edits' => task'[i] = "none" /\ ran'[i] = NoTime'
    <3>1. NoTime' = NoTime
      BY DEF NoTime
    <3>2. QED
      BY <1>3, <1>4, <1>5, <1>8, <1>9, <2>2, <3>1 DEF Alive
  <2>4. \A i \in Edits : i <= edits' => editedAt'[i] <= time'
    BY <1>2, <1>3, <1>4, <1>8, <1>9 DEF EditsAreCounted
  <2>5. \A i \in Edits : task'[i] \in {"sending", "done"} => i \in woken'
    BY <1>2, <1>4, <1>5, <1>8 DEF EditsAreCounted
  <2>6. \A i \in Edits : ran'[i] # NoTime' => task'[i] = "done" /\ ran'[i] <= time'
    <3>1. NoTime' = NoTime /\ ran' = ran /\ time' = time
      BY <1>4 DEF NoTime
    <3>2. ran[new] = NoTime
      BY <1>2, <1>3, <1>9 DEF EditsAreCounted
    <3>3. QED
      BY <1>2, <1>5, <1>8, <3>1, <3>2 DEF EditsAreCounted, Alive
  <2>7. QED
    BY <2>1, <2>3, <2>4, <2>5, <2>6 DEF EditsAreCounted
<1>11. BurstIsHeld'
  BY <1>1, <1>3, <1>6, <1>8, <1>9 DEF BurstIsHeld
<1>12. OnlyTheNewest'
  <2>1. SUFFICES ASSUME NEW i \in Edits, i \notin asked
                 PROVE  /\ Alive(i)' => i = new
                        /\ ran[i] # NoTime /\ i < new => ran[i] <= editedAt'[i + 1]
    BY <1>3, <1>4 DEF OnlyTheNewest, NoTime
  <2>2. ASSUME Alive(i)', i # new PROVE FALSE
    <3>1. task'[i] = base[i]
      BY <1>8, <2>2
    <3>2. Alive(i) => i = pending
      BY <1>2, <2>1 DEF OnlyTheNewest
    <3>3. QED
      BY <1>5, <2>2, <3>1, <3>2 DEF Alive
  <2>3. ASSUME ran[i] # NoTime, i < new PROVE ran[i] <= editedAt'[i + 1]
    <3>1. i + 1 \in Edits /\ (i + 1 = new \/ i < edits) /\ i + 1 <= new
      BY <1>1, <1>2, <1>3, <1>9, <2>3 DEF Edits
    <3>2. CASE i + 1 = new
      BY <1>2, <1>8, <2>3, <3>1, <3>2 DEF EditsAreCounted
    <3>3. CASE i + 1 # new
      <4>1. i < edits
        BY <3>1, <3>3
      <4>2. ran[i] <= editedAt[i + 1]
        BY <1>2, <2>1, <2>3, <4>1 DEF OnlyTheNewest
      <4>3. QED
        BY <1>8, <3>1, <3>3, <4>2
    <3>4. QED
      BY <3>2, <3>3
  <2>4. QED
    BY <2>2, <2>3
<1>13. CeilingHolds'
  <2>1. SUFFICES ASSUME MaxWait # NoMaxWait, NEW i \in 1..new, began <= editedAt'[i],
                        editedAt'[i] + MaxWait < time
                 PROVE  \E j \in i..new : j \in woken
    BY <1>3, <1>4 DEF CeilingHolds
  <2>2. i \in Edits /\ i \in Nat
    BY <1>3, <1>1, <2>1 DEF Edits
  <2>3. i # new /\ i \in 1..edits
    BY <1>1, <1>8, <1>9, <2>1, <2>2
  <2>4. editedAt'[i] = editedAt[i] /\ editedAt[i] \in Nat
    BY <1>1, <1>2, <1>8, <2>2, <2>3 DEF Times, NoTime
  <2>5. burstStarted # NoTime
    BY <1>1, <1>9, <2>1, <2>4
  <2>6. \E j \in i..edits : j \in woken
    BY <1>2, <1>3, <2>1, <2>3, <2>4, <2>5 DEF CeilingHolds
  <2>7. QED
    BY <1>9, <2>2, <2>6
<1>14. QED
  BY <1>7, <1>10, <1>11, <1>12, <1>13 DEF DebounceInv

LEMMA EndsKeep ==
    ASSUME DebounceInv, Flush \/ Cancel \/ DropDebouncer PROVE DebounceInv'
<1> DEFINE states == {"none", "asleep", "signalled", "sending", "done", "aborted"}
<1>1. /\ DebounceTypeOK /\ EditsAreCounted /\ BurstIsHeld /\ OnlyTheNewest /\ CeilingHolds
      /\ {Window, MaxEdits, MaxTime, Capacity} \subseteq Nat
  BY MaxWaitAssumption DEF DebounceInv
<1>2. pending' = 0 /\ UNCHANGED <<time, edits, editedAt, deadline, channel, ran, woken>>
      /\ asked \subseteq asked' /\ (burstStarted' = NoTime \/ dropped')
  BY DEF Flush, Cancel, DropDebouncer
<1>3. task \in [Edits -> states] /\ (pending # 0 => pending \in Edits) /\ asked \subseteq Edits
  BY <1>1 DEF DebounceTypeOK, Edits
<1>4. /\ task' \in [Edits -> states]
      /\ \A i \in Edits :
             \/ task'[i] = task[i] /\ (Alive(i) => i # pending \/ i \in asked')
             \/ i = pending /\ Alive(i) /\ task'[i] = "aborted"
             \/ task[i] = "asleep" /\ i = pending /\ task'[i] = "signalled" /\ i \in asked'
  <2>1. CASE Flush
    <3>1. pending # 0 => pending \in asked'
      BY <2>1 DEF Flush
    <3>2. CASE pending # 0 /\ task[pending] = "asleep"
      <4>1. task' = [task EXCEPT ![pending] = "signalled"]
        BY <2>1, <3>2 DEF Flush
      <4>2. QED
        BY <1>3, <3>1, <3>2, <4>1
    <3>3. CASE ~(pending # 0 /\ task[pending] = "asleep")
      <4>1. task' = task
        BY <2>1, <3>3 DEF Flush
      <4>2. \A i \in Edits : i # 0
        BY DEF Edits
      <4>3. QED
        BY <1>3, <3>1, <4>1, <4>2
    <3>4. QED
      BY <3>2, <3>3
  <2>2. CASE Cancel \/ DropDebouncer
    <3>1. task' = Aborting(task, pending)
      BY <2>2 DEF Cancel, DropDebouncer
    <3>2. QED
      BY <3>1, AbortIsExact
  <2>3. QED
    BY <2>1, <2>2
<1>5. asked' \subseteq Edits /\ burstStarted' \in Times /\ dropped' \in BOOLEAN
  <2>1. NoTime \in Times
    BY <1>1 DEF NoTime, Times
  <2>2. asked' \subseteq Edits
    BY <1>1, <1>3 DEF Flush, Cancel, DropDebouncer, DebounceTypeOK
  <2>3. burstStarted' \in Times
    BY <1>1, <2>1 DEF Flush, Cancel, DropDebouncer, DebounceTypeOK
  <2>4. dropped' \in BOOLEAN
    BY <1>1 DEF Flush, Cancel, DropDebouncer, DebounceTypeOK
  <2>5. QED
    BY <2>2, <2>3, <2>4
<1>6. DebounceTypeOK'
  BY <1>1, <1>2, <1>4, <1>5 DEF DebounceTypeOK, Times, NoTime, Edits
<1>7. EditsAreCounted'
  <2>1. \A i \in Edits : i > edits => task'[i] = "none"
    BY <1>1, <1>4 DEF EditsAreCounted, Alive
  <2>2. \A i \in Edits : task'[i] \in {"sending", "done"} => task'[i] = task[i]
    BY <1>4
  <2>3. \A i \in Edits : task[i] = "done" => task'[i] = "done"
    BY <1>4 DEF Alive
  <2>4. QED
    BY <1>1, <1>2, <2>1, <2>2, <2>3 DEF EditsAreCounted, NoTime
<1>8. BurstIsHeld'
  BY <1>2 DEF BurstIsHeld, NoTime
<1>9. OnlyTheNewest'
  <2>1. SUFFICES ASSUME NEW i \in Edits, i \notin asked'
                 PROVE  /\ ~Alive(i)'
                        /\ ran[i] # NoTime /\ i < edits => ran[i] <= editedAt[i + 1]
    BY <1>2 DEF OnlyTheNewest, NoTime
  <2>2. i \notin asked
    BY <1>2, <2>1
  <2>3. (Alive(i) => i = pending) /\ (ran[i] # NoTime /\ i < edits => ran[i] <= editedAt[i + 1])
    BY <1>1, <2>1, <2>2 DEF OnlyTheNewest
  <2>4. ~Alive(i)'
    BY <1>4, <2>1, <2>3 DEF Alive
  <2>5. QED
    BY <2>3, <2>4
<1>10. CeilingHolds'
  <2>1. /\ edits \in 0..MaxEdits /\ time \in 0..MaxTime /\ NoTime = MaxTime + 1
        /\ \A i \in Edits : editedAt[i] \in 0..(MaxTime + 1)
    BY <1>1 DEF DebounceTypeOK, NoTime, Times
  <2>2. ASSUME NEW i \in 1..edits PROVE ~(NoTime <= editedAt[i])
    <3>1. i \in Edits /\ i <= edits
      BY <1>1, <2>1 DEF Edits
    <3>2. editedAt[i] <= time
      BY <1>1, <3>1 DEF EditsAreCounted
    <3>3. QED
      BY <1>1, <2>1, <3>1, <3>2
  <2>3. QED
    BY <1>2, <2>2 DEF CeilingHolds
<1>11. QED
  BY <1>6, <1>7, <1>8, <1>9, <1>10 DEF DebounceInv

LEMMA WakeKeeps == ASSUME DebounceInv, NEW i \in Edits, Wake(i) PROVE DebounceInv'
<1>1. /\ DebounceTypeOK /\ EditsAreCounted /\ BurstIsHeld /\ OnlyTheNewest /\ CeilingHolds
      /\ {Window, MaxEdits, MaxTime, Capacity} \subseteq Nat /\ NoTime' = NoTime
  BY MaxWaitAssumption DEF DebounceInv, NoTime
<1>2. UNCHANGED <<time, edits, editedAt, deadline, pending, burstStarted, channel, ran, asked, dropped>>
  BY DEF Wake
<1>3. /\ woken' = woken \cup {i} /\ task[i] \in {"asleep", "signalled"}
      /\ task' = [task EXCEPT ![i] = "sending"]
  BY DEF Wake
<1>4. \A j \in Edits : task'[j] = IF j = i THEN "sending" ELSE task[j]
  BY <1>1, <1>3 DEF DebounceTypeOK
<1>5. DebounceTypeOK'
  BY <1>1, <1>2, <1>3 DEF DebounceTypeOK, Times, NoTime, Edits
<1>6. EditsAreCounted'
  BY <1>1, <1>2, <1>3, <1>4 DEF EditsAreCounted
<1>7. BurstIsHeld'
  <2>1. edits >= 1 => edits \in Edits
    BY <1>1 DEF DebounceTypeOK, Edits
  <2>2. QED
    BY <1>1, <1>2, <1>4, <2>1 DEF BurstIsHeld, NoTime
<1>8. OnlyTheNewest'
  BY <1>1, <1>2, <1>3, <1>4 DEF OnlyTheNewest, Alive
<1>9. CeilingHolds'
  BY <1>1, <1>2, <1>3 DEF CeilingHolds
<1>10. QED
  BY <1>5, <1>6, <1>7, <1>8, <1>9 DEF DebounceInv

LEMMA DeliverKeeps == ASSUME DebounceInv, NEW i \in Edits, Deliver(i) PROVE DebounceInv'
<1>1. /\ DebounceTypeOK /\ EditsAreCounted /\ BurstIsHeld /\ OnlyTheNewest /\ CeilingHolds
      /\ {Window, MaxEdits, MaxTime, Capacity} \subseteq Nat /\ NoTime' = NoTime
      /\ Edits \subseteq Nat
  BY MaxWaitAssumption DEF DebounceInv, NoTime, Edits
<1>2. UNCHANGED <<time, edits, editedAt, deadline, pending, burstStarted, asked, woken, dropped>>
  BY DEF Deliver
<1>3. /\ task[i] = "sending" /\ Len(channel) < Capacity /\ channel' = Append(channel, i)
      /\ task' = [task EXCEPT ![i] = "done"] /\ ran' = [ran EXCEPT ![i] = time]
  BY DEF Deliver
<1>4. /\ \A j \in Edits : task'[j] = IF j = i THEN "done" ELSE task[j]
      /\ \A j \in Edits : ran'[j] = IF j = i THEN time ELSE ran[j]
  BY <1>1, <1>3 DEF DebounceTypeOK
<1>5. DebounceTypeOK'
  <2>1. channel' \in Seq(Edits) /\ Len(channel') <= Capacity
    BY <1>1, <1>3 DEF DebounceTypeOK
  <2>2. ran' \in [Edits -> Times] /\ Times' = Times
    BY <1>1, <1>3 DEF DebounceTypeOK, Times, NoTime
  <2>3. QED
    BY <1>1, <1>2, <1>3, <2>1, <2>2 DEF DebounceTypeOK, NoTime
<1>6. EditsAreCounted'
  <2>1. time \in Nat
    BY <1>1 DEF DebounceTypeOK
  <2>2. i <= edits /\ i \in woken
    BY <1>1, <1>3 DEF EditsAreCounted, DebounceTypeOK
  <2>3. \A j \in Edits : j > edits => task'[j] = "none" /\ ran'[j] = NoTime
    <3>1. edits \in Nat
      BY <1>1 DEF DebounceTypeOK
    <3>2. \A j \in Edits : j > edits => j # i
      BY <1>1, <2>2, <3>1
    <3>3. QED
      BY <1>1, <1>4, <3>2 DEF EditsAreCounted
  <2>4. \A j \in Edits : task'[j] \in {"sending", "done"} => j \in woken
    BY <1>1, <1>4, <2>2 DEF EditsAreCounted
  <2>5. \A j \in Edits : ran'[j] # NoTime => task'[j] = "done" /\ ran'[j] <= time
    BY <1>1, <1>4, <2>1 DEF EditsAreCounted
  <2>6. QED
    BY <1>1, <1>2, <2>3, <2>4, <2>5 DEF EditsAreCounted
<1>7. BurstIsHeld'
  <2>1. edits >= 1 => edits \in Edits
    BY <1>1 DEF DebounceTypeOK, Edits
  <2>2. QED
    BY <1>1, <1>2, <1>4, <2>1 DEF BurstIsHeld, NoTime
<1>8. OnlyTheNewest'
  <2>1. SUFFICES ASSUME NEW j \in Edits, j \notin asked
                 PROVE  /\ Alive(j)' => j = pending /\ ~dropped
                        /\ ran'[j] # NoTime /\ j < edits => ran'[j] <= editedAt[j + 1]
    BY <1>1, <1>2 DEF OnlyTheNewest
  <2>2. Alive(j)' => Alive(j)
    BY <1>4 DEF Alive
  <2>3. j = i => j = pending
    BY <1>1, <1>3, <2>1 DEF OnlyTheNewest, Alive
  <2>4. j = i => j = edits
    BY <1>1, <2>3 DEF EditsAreCounted, Edits
  <2>5. QED
    BY <1>1, <1>4, <2>1, <2>2, <2>4 DEF OnlyTheNewest
<1>9. CeilingHolds'
  BY <1>1, <1>2 DEF CeilingHolds
<1>10. QED
  BY <1>5, <1>6, <1>7, <1>8, <1>9 DEF DebounceInv

LEMMA TimeKeeps == ASSUME DebounceInv, TimePasses PROVE DebounceInv'
<1>1. /\ DebounceTypeOK /\ EditsAreCounted /\ BurstIsHeld /\ OnlyTheNewest /\ CeilingHolds
      /\ {Window, MaxEdits, MaxTime, Capacity} \subseteq Nat /\ NoTime' = NoTime
      /\ (MaxWait # NoMaxWait => MaxWait \in Nat)
  BY MaxWaitAssumption DEF DebounceInv, NoTime
<1>2. UNCHANGED <<edits, editedAt, task, deadline, pending, burstStarted, channel, ran, asked, woken, dropped>>
  BY DEF TimePasses
<1>3. /\ time < MaxTime /\ time' = time + 1
      /\ \A i \in Edits : task[i] = "asleep" => ~(time >= deadline[i])
  BY DEF TimePasses
<1>4. /\ time \in Nat /\ edits \in 0..MaxEdits
      /\ \A i \in Edits : editedAt[i] \in Nat /\ ran[i] \in Nat /\ deadline[i] \in Nat
  BY <1>1 DEF DebounceTypeOK, Times, NoTime
<1>5. DebounceTypeOK'
  BY <1>1, <1>2, <1>3 DEF DebounceTypeOK, Times, NoTime, Edits
<1>6. EditsAreCounted'
  BY <1>1, <1>2, <1>3, <1>4 DEF EditsAreCounted
<1>7. BurstIsHeld' /\ OnlyTheNewest'
  BY <1>1, <1>2 DEF BurstIsHeld, OnlyTheNewest, Alive
<1>8. CeilingHolds'
  <2>1. SUFFICES ASSUME MaxWait # NoMaxWait, NEW i \in 1..edits, burstStarted <= editedAt[i],
                        editedAt[i] + MaxWait < time + 1, ~dropped
                 PROVE  \E j \in i..edits : j \in woken
    BY <1>2, <1>3 DEF CeilingHolds
  <2>2. i \in Edits /\ edits \in Edits /\ edits \in i..edits /\ i <= edits
    BY <1>1, <1>4, <2>1 DEF Edits
  <2>3. burstStarted # NoTime /\ burstStarted \in Nat
    <3>1. editedAt[i] <= time /\ time < MaxTime /\ NoTime = MaxTime + 1
      BY <1>1, <1>3, <2>2 DEF EditsAreCounted, NoTime
    <3>2. burstStarted \in 0..NoTime
      BY <1>1 DEF DebounceTypeOK, Times
    <3>3. QED
      BY <1>1, <1>4, <2>1, <2>2, <3>1, <3>2
  <2>4. /\ task[edits] \in {"asleep", "sending", "done"}
        /\ task[edits] = "asleep" => deadline[edits] <= burstStarted + MaxWait
    BY <1>1, <2>1, <2>3 DEF BurstIsHeld
  <2>5. task[edits] # "asleep"
    <3>1. SUFFICES ASSUME task[edits] = "asleep" PROVE FALSE
      OBVIOUS
    <3>2. deadline[edits] <= burstStarted + MaxWait /\ time < deadline[edits]
      BY <1>3, <1>4, <2>2, <2>4, <3>1
    <3>3. QED
      BY <1>1, <1>4, <2>1, <2>2, <2>3, <3>2
  <2>6. edits \in woken
    BY <1>1, <2>2, <2>4, <2>5 DEF EditsAreCounted
  <2>7. QED
    BY <2>2, <2>6
<1>9. QED
  BY <1>5, <1>6, <1>7, <1>8 DEF DebounceInv

LEMMA TakeKeeps == ASSUME DebounceInv, Take \/ UNCHANGED debounceVars PROVE DebounceInv'
<1>1. /\ UNCHANGED <<time, edits, editedAt, task, deadline, pending, burstStarted, ran, asked,
                     woken, dropped>>
      /\ channel' = channel \/ (channel # <<>> /\ channel' = Tail(channel))
  BY DEF Take, debounceVars
<1>2. channel' \in Seq(Edits) /\ Len(channel') <= Capacity
  <2>1. channel \in Seq(Edits) /\ Len(channel) <= Capacity /\ Capacity \in Nat
    BY MaxWaitAssumption DEF DebounceInv, DebounceTypeOK
  <2>2. QED
    BY <1>1, <2>1
<1>3. DebounceTypeOK'
  BY <1>1, <1>2 DEF DebounceInv, DebounceTypeOK, Times, NoTime, Edits
<1>4. EditsAreCounted' /\ BurstIsHeld' /\ OnlyTheNewest' /\ CeilingHolds'
  BY <1>1 DEF DebounceInv, EditsAreCounted, BurstIsHeld, OnlyTheNewest, CeilingHolds, Alive, NoTime
<1>5. QED
  BY <1>3, <1>4 DEF DebounceInv

LEMMA DebounceSteps == ASSUME DebounceInv, [DebounceNext]_debounceVars PROVE DebounceInv'
  BY RunKeeps, EndsKeep, WakeKeeps, DeliverKeeps, TimeKeeps, TakeKeeps DEF DebounceNext

(* The debouncer's memory, its tasks and its channel keep their types, and  *)
(* the channel never holds more than its capacity.                          *)
THEOREM DebouncerKeepsItsTypes == DebounceSpec => []DebounceTypeOK
<1>1. DebounceInv => DebounceTypeOK
  BY DEF DebounceInv
<1>2. QED
  BY <1>1, DebounceStarts, DebounceSteps, PTL DEF DebounceSpec

(* Of a burst only the newest edit waits and runs (the earlier task is      *)
(* aborted by run), and a ceiling, where one is given, holds: max_wait      *)
(* after an edit of a burst a task has run, for every window, ceiling,      *)
(* channel capacity and sequence of edits, flushes, cancels and drops.      *)
THEOREM NewestAlwaysRunsInTime == DebounceSpec => []NewestRunsInTime
<1>1. DebounceInv => NewestRunsInTime
  BY DEF DebounceInv, NewestRunsInTime
<1>2. QED
  BY <1>1, DebounceStarts, DebounceSteps, PTL DEF DebounceSpec

-----------------------------------------------------------------------------
(* The audio ring and what is trimmed into it.                              *)

(* Rests of a division.                                                     *)
LEMMA Divided ==
    ASSUME NEW a \in Nat, NEW b \in Nat \ {0}
    PROVE  a % b \in 0..(b - 1) /\ a = b * (a \div b) + (a % b) /\ a \div b \in Nat
  OBVIOUS
LEMMA Further ==
    ASSUME NEW b \in Nat \ {0}, NEW d \in Nat \ {0}
    PROVE  b * d >= b

<1>1. b * d = b + b * (d - 1) /\ d - 1 \in Nat
  OBVIOUS
<1>2. b * (d - 1) \in Nat
  BY <1>1
<1>3. QED
  BY <1>1, <1>2
LEMMA OneRest ==
    ASSUME NEW b \in Nat \ {0}, NEW p \in Nat, NEW q \in Nat, NEW r \in 0..(b - 1), NEW s \in 0..(b - 1),
           b * p + r = b * q + s
    PROVE  r = s
<1>1. CASE p > q
  <2>1. b * (p - q) = s - r /\ p - q \in Nat \ {0}
    <3>1. b * (p - q) = b * p - b * q
      BY <1>1
    <3>2. QED
      BY <1>1, <3>1
  <2>2. b * (p - q) >= b
    BY <2>1, Further
  <2>3. QED
    BY <2>1, <2>2
<1>2. CASE q > p
  <2>1. b * (q - p) = r - s /\ q - p \in Nat \ {0}
    <3>1. b * (q - p) = b * q - b * p
      BY <1>2
    <3>2. QED
      BY <1>2, <3>1
  <2>2. b * (q - p) >= b
    BY <2>1, Further
  <2>3. QED
    BY <2>1, <2>2
<1>3. CASE p = q
  BY <1>3
<1>4. QED
  BY <1>1, <1>2, <1>3
LEMMA LapsVanish ==
    ASSUME NEW a \in Nat, NEW b \in Nat \ {0}, NEW k \in Nat
    PROVE  (a + k * b) % b = a % b
<1> DEFINE m == a + k * b
           x == a \div b
           y == m \div b
<1>1. m \in Nat
  OBVIOUS
<1>2. a % b \in 0..(b - 1) /\ a = b * x + (a % b) /\ x \in Nat
  BY Divided
<1>3. m % b \in 0..(b - 1) /\ m = b * y + (m % b) /\ y \in Nat
  <2> HIDE DEF m
  <2>1. QED
    BY <1>1, Divided
<1>4. m = b * (x + k) + (a % b) /\ x + k \in Nat
  <2> DEFINE r == a % b
  <2>1. m = a + k * b /\ a = b * x + r /\ r \in Nat /\ x \in Nat
    BY <1>2
  <2> HIDE DEF m, x, r
  <2>2. b * (x + k) = b * x + k * b
    BY <2>1
  <2>3. QED
    BY <2>1, <2>2 DEF r
<1> HIDE DEF m, x, y
<1>5. m % b = a % b
  BY <1>2, <1>3, <1>4, OneRest
<1>6. QED
  BY <1>5 DEF m

LEMMA RestsDiffer ==
    ASSUME NEW a \in Nat, NEW b \in Nat \ {0}, NEW c \in Nat, c < b, (a + c) % b = a % b
    PROVE  c = 0
<1> DEFINE m == a + c
           x == a \div b
           y == m \div b
<1>1. m \in Nat /\ m % b = a % b
  OBVIOUS
<1>2. a % b \in 0..(b - 1) /\ a = b * x + (a % b) /\ x \in Nat
  BY Divided
<1>3. m = b * y + (m % b) /\ y \in Nat
  <2> HIDE DEF m
  <2>1. QED
    BY <1>1, Divided
<1>4. b * x + c = b * y + 0
  <2> DEFINE r == a % b
             bx == b * x
             by == b * y
  <2>1. a = bx + r /\ m = by + r /\ m = a + c /\ r \in Nat /\ bx \in Nat /\ by \in Nat
    BY <1>1, <1>2, <1>3
  <2> HIDE DEF m, x, y, r, bx, by
  <2>2. bx + c = by + 0
    BY <2>1
  <2>3. QED
    BY <2>2 DEF bx, by
<1> HIDE DEF m, x, y
<1>5. c \in 0..(b - 1) /\ 0 \in 0..(b - 1)
  OBVIOUS
<1>6. QED
  BY <1>2, <1>3, <1>4, <1>5, OneRest, Zenon

LEMMA RoundedDown ==
    ASSUME NEW a \in Nat, NEW b \in Nat \ {0}
    PROVE  a \div b \in Nat /\ b * (a \div b) <= a /\ a < b * (a \div b) + b
<1> DEFINE whole == b * (a \div b)
           rest == a % b
<1>1. rest \in 0..(b - 1) /\ a = whole + rest /\ a \div b \in Nat
  BY Divided
<1>2. whole \in Nat
  BY <1>1
<1> HIDE DEF whole, rest
<1>3. whole <= a /\ a < whole + b
  BY <1>1, <1>2
<1>4. QED
  BY <1>1, <1>3 DEF whole

LEMMA FewerTimes ==
    ASSUME NEW b \in Nat \ {0}, NEW p \in Nat, NEW q \in Nat, b * p < b * q + b
    PROVE  p <= q
<1>1. ASSUME p > q PROVE FALSE
  <2>1. p - q \in Nat \ {0} /\ b * (p - q) = b * p - b * q
    BY <1>1
  <2>2. b * (p - q) >= b
    BY <2>1, Further
  <2> DEFINE bp == b * p
             bq == b * q
             gap == b * (p - q)
  <2>3. gap = bp - bq /\ gap >= b /\ bp < bq + b /\ bp \in Nat /\ bq \in Nat
    BY <2>1, <2>2
  <2> HIDE DEF bp, bq, gap
  <2>4. QED
    BY <2>3
<1>2. QED
  BY <1>1

-----------------------------------------------------------------------------
(* Where the n-th sample behind an index lies.                              *)
Address(index, n) == SlotOf(Wrapping(index + n))
Index == 0..(IndexModulus - 1)

LEMMA RingSizes ==
    /\ RingCapacity \in Nat \ {0} /\ IndexModulus \in Nat \ {0} /\ RingCapacity < IndexModulus
    /\ \E k \in Nat : IndexModulus = k * RingCapacity
<1>1. PICK k \in 2..IndexModulus : IndexModulus = k * RingCapacity
  BY RingAssumption
<1>2. RingCapacity \in Nat \ {0} /\ IndexModulus \in Nat /\ k \in Nat /\ k >= 2
  BY <1>1, RingAssumption
<1>3. k * RingCapacity = RingCapacity * (k - 1) + RingCapacity /\ k - 1 \in Nat \ {0}
  BY <1>2
<1>4. RingCapacity * (k - 1) >= RingCapacity
  BY <1>2, <1>3, Further
<1>5. QED
  <2> DEFINE rest == RingCapacity * (k - 1)
  <2>1. rest \in Nat /\ IndexModulus = rest + RingCapacity /\ rest >= RingCapacity
    BY <1>1, <1>2, <1>3, <1>4
  <2> HIDE DEF rest
  <2>2. QED
    BY <1>1, <1>2, <2>1

Lap(x) == IF x < IndexModulus THEN x ELSE x - IndexModulus

LEMMA OneLap ==
    ASSUME NEW x \in Nat, x < 2 * IndexModulus
    PROVE  Wrapping(x) = Lap(x) /\ Wrapping(x) \in Index
<1>1. IndexModulus \in Nat \ {0}
  BY RingSizes
<1>2. CASE x < IndexModulus
  BY <1>1, <1>2 DEF Wrapping, Index, Lap
<1>3. CASE ~(x < IndexModulus)
  BY <1>1, <1>3 DEF Wrapping, Index, Lap
<1>4. QED
  BY <1>2, <1>3

LEMMA AddressIs ==
    ASSUME NEW index \in Index, NEW n \in Nat, n <= RingCapacity
    PROVE  Address(index, n) = (index + n) % RingCapacity
<1>1. PICK k \in Nat : IndexModulus = k * RingCapacity
  BY RingSizes
<1>2. /\ RingCapacity \in Nat \ {0} /\ IndexModulus \in Nat /\ RingCapacity < IndexModulus
      /\ index + n \in Nat /\ index + n < 2 * IndexModulus
  BY RingSizes DEF Index
<1>3. CASE index + n < IndexModulus
  BY <1>2, <1>3, OneLap DEF Address, SlotOf, Lap
<1>4. CASE ~(index + n < IndexModulus)
  <2> DEFINE x == (index + n) - IndexModulus
  <2>1. Address(index, n) = x % RingCapacity /\ x \in Nat /\ index + n = x + k * RingCapacity
    BY <1>1, <1>2, <1>4, OneLap DEF Address, SlotOf, Lap
  <2> HIDE DEF x
  <2>2. (x + k * RingCapacity) % RingCapacity = x % RingCapacity
    BY <1>2, <2>1, LapsVanish
  <2>3. QED
    BY <2>1, <2>2
<1>5. QED
  BY <1>3, <1>4

LEMMA AddressesDiffer ==
    ASSUME NEW index \in Index, NEW m \in Nat, NEW n \in Nat, m < n, n < m + RingCapacity, n <= RingCapacity
    PROVE  Address(index, m) # Address(index, n)
<1>1. /\ RingCapacity \in Nat \ {0} /\ index + m \in Nat /\ n - m \in Nat /\ n - m < RingCapacity
      /\ (index + m) + (n - m) = index + n /\ n - m # 0 /\ m <= RingCapacity
  BY RingSizes DEF Index
<1>2. Address(index, m) = (index + m) % RingCapacity /\ Address(index, n) = (index + n) % RingCapacity
  BY <1>1, AddressIs
<1>3. ASSUME (index + n) % RingCapacity = (index + m) % RingCapacity PROVE FALSE
  <2> DEFINE a == index + m
             c == n - m
  <2>1. (a + c) % RingCapacity = a % RingCapacity /\ a \in Nat /\ c \in Nat /\ c < RingCapacity /\ c # 0
    BY <1>1, <1>3
  <2> HIDE DEF a, c
  <2>2. QED
    BY <1>1, <2>1, RestsDiffer
<1>4. QED
  BY <1>2, <1>3

LEMMA AddressInRing ==
    ASSUME NEW index \in Index, NEW n \in Nat, n <= RingCapacity
    PROVE  Address(index, n) \in 0..(RingCapacity - 1)
<1>1. RingCapacity \in Nat \ {0} /\ index + n \in Nat
  BY RingSizes DEF Index
<1>2. QED
  BY <1>1, AddressIs, Divided

(* An index that is moved, and the distance between two.                    *)
Moved(index, n) == Wrapping(index + n)

LEMMA MovedTwice ==
    ASSUME NEW index \in Index, NEW m \in Nat, NEW n \in Nat, m + n <= RingCapacity
    PROVE  /\ Moved(index, m) \in Index /\ Moved(Moved(index, m), n) = Moved(index, m + n)
           /\ Address(Moved(index, m), n) = Address(index, m + n)
<1>1. /\ RingCapacity \in Nat /\ IndexModulus \in Nat \ {0} /\ RingCapacity < IndexModulus
      /\ index + m \in Nat /\ index + m < 2 * IndexModulus
      /\ index + (m + n) \in Nat /\ index + (m + n) < 2 * IndexModulus
  BY RingSizes DEF Index
<1>2. Moved(index, m) \in Index /\ Moved(index, m) = Lap(index + m)
  BY <1>1, OneLap, Zenon DEF Moved
<1>3. Moved(index, m) + n \in Nat /\ Moved(index, m) + n < 2 * IndexModulus
  BY <1>1, <1>2 DEF Index
<1>4. Wrapping(Moved(index, m) + n) = Wrapping(index + (m + n))
  <2>1. Wrapping(Moved(index, m) + n) = Lap(Moved(index, m) + n)
    BY <1>3, OneLap, Zenon
  <2>2. Wrapping(index + (m + n)) = Lap(index + (m + n))
    BY <1>1, OneLap, Zenon
  <2>3. QED
    BY <1>1, <1>2, <2>1, <2>2 DEF Index, Lap
<1>5. QED
  BY <1>2, <1>4 DEF Moved, Address

LEMMA BehindIsMoved ==
    ASSUME NEW index \in Index, NEW n \in Nat, n <= RingCapacity
    PROVE  Behind(Moved(index, n), index) = n
<1>1. /\ RingCapacity \in Nat /\ IndexModulus \in Nat \ {0} /\ RingCapacity < IndexModulus
      /\ index + n \in Nat /\ index + n < 2 * IndexModulus /\ index \in Nat /\ index < IndexModulus
  BY RingSizes DEF Index
<1>2. Moved(index, n) \in Index /\ Moved(index, n) = Lap(index + n)
  BY <1>1, OneLap, Zenon DEF Moved
<1>3. CASE index + n < IndexModulus
  <2>1. Moved(index, n) + IndexModulus - index = n + IndexModulus
    BY <1>1, <1>2, <1>3 DEF Lap
  <2>2. Wrapping(n + IndexModulus) = n
    BY <1>1, OneLap DEF Lap
  <2>3. QED
    BY <2>1, <2>2 DEF Behind, Wrapping
<1>4. CASE ~(index + n < IndexModulus)
  <2>1. Moved(index, n) + IndexModulus - index = n
    BY <1>1, <1>2, <1>4 DEF Lap
  <2>2. Wrapping(n) = n
    BY <1>1, OneLap DEF Lap
  <2>3. QED
    BY <2>1, <2>2 DEF Behind, Wrapping
<1>5. QED
  BY <1>3, <1>4
-----------------------------------------------------------------------------
(* A sequence that is extended by a count of numbers in a row.              *)
Row(first, count) == [i \in 1..count |-> first + i - 1]

RowIn(first, count, S) == \A i \in 1..count : first + i - 1 \in S
WithRow(s, first, count, t) ==
    /\ Len(t) = Len(s) + count /\ \A i \in 1..Len(s) : t[i] = s[i]
    /\ \A i \in (Len(s) + 1)..(Len(s) + count) : t[i] = first + (i - Len(s)) - 1

LEMMA RowAdded ==
    ASSUME NEW S, NEW s \in Seq(S), NEW first \in Nat, NEW count \in Nat, RowIn(first, count, S)
    PROVE  s \o Row(first, count) \in Seq(S) /\ WithRow(s, first, count, s \o Row(first, count))
<1> USE DEF RowIn
<1> DEFINE t == Row(first, count)
<1>1. t \in Seq(S) /\ Len(t) = count /\ \A i \in 1..count : t[i] = first + i - 1
  BY DEF Row
<1>2. Len(s) \in Nat
  OBVIOUS
<1> HIDE DEF t
<1>3. /\ s \o t \in Seq(S) /\ Len(s \o t) = Len(s) + count
      /\ \A i \in 1..Len(s) : (s \o t)[i] = s[i]
  <2>1. s \o t \in Seq(S) /\ Len(s \o t) = Len(s) + count
    BY <1>1, <1>2
  <2>2. ASSUME NEW i \in 1..Len(s) PROVE (s \o t)[i] = s[i]
    <3>1. i \in 1..(Len(s) + Len(t)) /\ i <= Len(s)
      BY <1>1, <1>2
    <3>2. QED
      BY <1>1, <3>1, ConcatProperties
  <2>3. QED
    BY <2>1, <2>2
<1>4. ASSUME NEW i \in (Len(s) + 1)..(Len(s) + count) PROVE (s \o t)[i] = first + (i - Len(s)) - 1
  <2>1. i \in 1..(Len(s) + Len(t)) /\ ~(i <= Len(s)) /\ i - Len(s) \in 1..count
    BY <1>1, <1>2
  <2>2. (s \o t)[i] = IF i <= Len(s) THEN s[i] ELSE t[i - Len(s)]
    BY <1>1, <2>1, ConcatProperties
  <2>3. QED
    BY <1>1, <2>1, <2>2
<1>5. QED
  BY <1>3, <1>4 DEF t, WithRow
-----------------------------------------------------------------------------
(* The invariant of the ring: what lies between the indices is what was     *)
(* pushed and not yet heard, and what lies before the writer is half a push.*)
Read == IF callback.at = "copying" THEN callback.done ELSE 0

Wheels ==
    /\ writeIndex \in Index /\ readIndex \in Index /\ slots \in [0..(RingCapacity - 1) -> 0..MaxTape]
    /\ Published \in Nat /\ Published <= RingCapacity /\ writeIndex = Moved(readIndex, Published)
    /\ pushed \in Seq(1..MaxTape) /\ heard \in Seq(1..MaxTape)
    /\ tape \in Seq(0..(StreamFrames - 1)) /\ Len(tape) <= MaxTape
    /\ tooLarge \in BOOLEAN

Reader ==
    \/ callback = Resting
    \/ /\ callback \in [at : {"copying"}, count : Nat, done : Nat]
       /\ callback.done <= callback.count /\ callback.count <= Published

Contents ==
    /\ Read <= Len(heard) /\ Len(pushed) = (Len(heard) - Read) + Published
    /\ \A i \in 0..(Published - 1) :
          slots[Address(readIndex, i)] = pushed[(Len(heard) - Read) + 1 + i]
    /\ \A i \in 1..Len(heard) : heard[i] = pushed[i]

BlockWaits ==
    /\ pump \in [at : {"block"}, from : Nat, size : Nat]
    /\ pump.from >= 1 /\ pump.size >= 1 /\ pump.from + pump.size - 1 = Len(tape)
    /\ RingCapacity - Published >= RingCapacity \div 2
    /\ ~tooLarge => pump.size <= RingCapacity \div 2
BlockCopies ==
    /\ pump \in [at : {"copying"}, from : Nat, count : Nat, done : Nat]
    /\ pump.from >= 1 /\ pump.from + pump.count - 1 <= Len(tape)
    /\ pump.done <= pump.count /\ Published + pump.count <= RingCapacity
    /\ ~tooLarge => pump.from + pump.count - 1 = Len(tape)
    /\ \A j \in 0..(pump.done - 1) : slots[Address(readIndex, Published + j)] = pump.from + j
Writer == pump = Resting \/ BlockWaits \/ BlockCopies

InOrder ==
    /\ \A n \in 2..Len(pushed) : pushed[n - 1] < pushed[n]
    /\ pushed # <<>> => pushed[1] >= 1 /\ pushed[Len(pushed)] <= HandedOver
    /\ ~tooLarge => Len(pushed) = HandedOver

RingInv == Wheels /\ Reader /\ Contents /\ Writer /\ InOrder

LEMMA RingIsSafe == RingInv => NothingTears
<1> SUFFICES ASSUME RingInv PROVE NothingTears
  OBVIOUS
<1>1. Wheels /\ Reader /\ Contents /\ Writer /\ InOrder
  BY DEF RingInv
<1>2. /\ readIndex \in Index /\ writeIndex = Moved(readIndex, Published) /\ Published \in Nat
      /\ Published <= RingCapacity /\ RingCapacity \in Nat \ {0}
  BY <1>1, RingSizes DEF Wheels
<1>3. Ahead(writeIndex, pump) \cap Ahead(readIndex, callback) = {}
  <2>1. SUFFICES ASSUME NEW slot, slot \in Ahead(writeIndex, pump), slot \in Ahead(readIndex, callback)
                 PROVE  FALSE
    BY Zenon
  <2>2. pump.at = "copying" /\ callback.at = "copying"
    BY <2>1, Zenon DEF Ahead
  <2>3. BlockCopies /\ callback.count \in Nat /\ callback.done \in Nat /\ callback.count <= Published
    BY <1>1, <2>2 DEF Writer, Reader, BlockWaits, Resting
  <2>4. pump.count \in Nat /\ pump.done \in Nat /\ Published + pump.count <= RingCapacity
    BY <2>3 DEF BlockCopies
  <2>5. PICK m \in pump.done..(pump.count - 1) : slot = Address(writeIndex, m)
    BY <2>1, <2>2 DEF Ahead, Address
  <2>6. PICK n \in callback.done..(callback.count - 1) : slot = Address(readIndex, n)
    BY <2>1, <2>2 DEF Ahead, Address
  <2>7. m \in Nat /\ n \in Nat /\ Published + m < RingCapacity /\ n < Published
    BY <1>2, <2>3, <2>4, <2>5, <2>6
  <2>8. slot = Address(readIndex, Published + m)
    BY <1>2, <2>5, <2>7, MovedTwice
  <2>9. Address(readIndex, n) # Address(readIndex, Published + m)
    BY <1>2, <2>7, AddressesDiffer
  <2>10. QED
    BY <2>6, <2>8, <2>9
<1>4. Awaited = Published - Read /\ Read \in Nat /\ Len(heard) \in Nat
  <2>1. Read \in Nat
    BY <1>1 DEF Reader, Read, Resting
  <2>2. QED
    BY <1>1, <2>1 DEF Awaited, Read, Wheels
<1>5. Len(heard) + Awaited = Len(pushed)
  BY <1>1, <1>2, <1>4 DEF Contents
<1>6. heard = SubSeq(pushed, 1, Len(heard))
  <2>1. Read <= Published
    BY <1>1, <1>2 DEF Reader, Read, Resting
  <2>2. Len(heard) <= Len(pushed) /\ Len(pushed) \in Nat
    BY <1>1, <1>2, <1>4, <2>1 DEF Contents, Wheels
  <2> DEFINE k == Len(heard)
             t == SubSeq(pushed, 1, k)
  <2>3. k \in Nat /\ \A i \in 1..k : pushed[i] \in 1..MaxTape
    <3>1. pushed \in Seq(1..MaxTape)
      BY <1>1 DEF Wheels
    <3>2. k \in Nat /\ \A i \in 1..k : i \in 1..Len(pushed)
      BY <1>4, <2>2
    <3> HIDE DEF k
    <3>3. QED
      BY <3>1, <3>2, ElementOfSeq
  <2> HIDE DEF k
  <2>4. /\ t \in Seq(1..MaxTape) /\ Len(t) = (IF 1 <= k THEN k - 1 + 1 ELSE 0)
        /\ \A i \in 1..(k - 1 + 1) : t[i] = pushed[1 + i - 1]
    BY <2>3, SubSeqProperties
  <2>5. Len(t) = k /\ \A i \in 1..k : t[i] = pushed[i]
    <3>1. \A i \in 1..k : i \in 1..(k - 1 + 1) /\ 1 + i - 1 = i
      BY <2>3
    <3> HIDE DEF t
    <3>2. QED
      BY <2>3, <2>4, <3>1
  <2> HIDE DEF t
  <2>6. heard \in Seq(1..MaxTape) /\ Len(heard) = k /\ \A i \in 1..k : heard[i] = pushed[i]
    BY <1>1 DEF k, Wheels, Contents
  <2>7. heard = t
    BY <2>4, <2>5, <2>6, SeqEqual
  <2>8. QED
    BY <2>7 DEF t, k
<1>7. QED
  BY <1>1, <1>2, <1>3, <1>5, <1>6 DEF NothingTears, InOrder

-----------------------------------------------------------------------------
(* The steps that leave the ring alone: what the decoder yields.            *)
TrimmerStep == (\E frames \in 1..MaxBlock : Decode(frames)) \/ EndOfTrack
                  \/ \E frame \in 0..StreamFrames : Seek(frame)

LEMMA KeptIsNat ==
    ASSUME position \in Nat, skipped \in Nat, skipped <= TrimStart, emitted \in Nat, NEW frames \in Nat
    PROVE  /\ SkippedOf(frames) \in Nat /\ SkippedOf(frames) <= frames /\ SkippedOf(frames) <= TrimStart - skipped
           /\ (SkippedOf(frames) < frames => SkippedOf(frames) = TrimStart - skipped)
           /\ KeptOf(frames) \in Nat /\ KeptOf(frames) <= frames - SkippedOf(frames)
           /\ (emitted < TrimValid => KeptOf(frames) <= TrimValid - emitted)
           /\ (KeptOf(frames) < frames - SkippedOf(frames) /\ emitted < TrimValid => KeptOf(frames) = TrimValid - emitted)
<1>1. TrimStart \in Nat /\ TrimValid \in Nat
  BY RingAssumption
<1>2. /\ SkippedOf(frames) \in Nat /\ SkippedOf(frames) <= frames /\ SkippedOf(frames) <= TrimStart - skipped
      /\ (SkippedOf(frames) < frames => SkippedOf(frames) = TrimStart - skipped)
  BY <1>1 DEF SkippedOf, Min2
<1> DEFINE k == SkippedOf(frames)
<1> HIDE DEF k
<1>3. KeptOf(frames) = Min2(frames - k, Minus(TrimValid, emitted))
  BY DEF KeptOf, k
<1>4. k \in Nat /\ k <= frames
  BY <1>2 DEF k
<1>5. /\ KeptOf(frames) \in Nat /\ KeptOf(frames) <= frames - k
      /\ (emitted < TrimValid => KeptOf(frames) <= TrimValid - emitted)
      /\ (KeptOf(frames) < frames - k /\ emitted < TrimValid => KeptOf(frames) = TrimValid - emitted)
  BY <1>1, <1>3, <1>4 DEF Min2, Minus
<1>6. QED
  BY <1>2, <1>5 DEF k

(* What a seek loses on its way through milliseconds.                       *)
LEMMA SlipIsSmall ==
    ASSUME NEW frame \in Nat
    PROVE  /\ Reported(frame) \in Nat /\ Reported(frame) <= frame
           /\ frame - Reported(frame) <= Millisecond /\ Millisecond \in Nat
<1> DEFINE R == SampleRate
           S == SecondMillis
           m == FramesToMillis(frame)
           h == S \div 2
           t == Reported(frame)
           up == R \div S
<1>1. R \in Nat \ {0} /\ S \in Nat \ {0}
  BY RingAssumption
<1> DEFINE fS == frame * S
           mR == m * R
<1>2. fS \in Nat /\ m = fS \div R
  BY <1>1 DEF FramesToMillis
<1>3. m \in Nat /\ R * m <= fS /\ fS < R * m + R
  BY <1>1, <1>2, RoundedDown
<1>4. mR \in Nat /\ mR <= fS /\ fS < mR + R
  <2>1. R * m = m * R
    BY <1>1, <1>3
  <2>2. QED
    BY <1>1, <1>3, <2>1
<1>5. h \in Nat /\ h < S
  BY <1>1
<1>6. t = (mR + h) \div S
  BY DEF Reported, MillisToFrames
<1> HIDE DEF m, h, mR, fS
<1>7. t \in Nat /\ S * t <= mR + h /\ mR + h < S * t + S
  BY <1>1, <1>4, <1>5, <1>6, RoundedDown
<1>8. up \in Nat /\ S * up <= R /\ R < S * up + S
  BY <1>1, RoundedDown
<1> HIDE DEF t, up, R, S
<1>9. fS = S * frame
  BY <1>1 DEF fS
<1>10. t <= frame
  <2>1. S * t < S * frame + S
    BY <1>1, <1>4, <1>5, <1>7, <1>9
  <2>2. QED
    BY <1>1, <1>7, <2>1, FewerTimes
<1>11. frame - t <= up + 1
  <2>1. S * frame < S * t + S * up + S + S
    BY <1>1, <1>4, <1>5, <1>7, <1>8, <1>9
  <2>2. S * t + S * up + S + S = S * (t + up + 1) + S /\ t + up + 1 \in Nat
    BY <1>1, <1>7, <1>8
  <2>3. frame <= t + up + 1
    BY <1>1, <2>1, <2>2, FewerTimes
  <2>4. QED
    BY <1>7, <1>8, <2>3
<1>12. Millisecond = up + 1
  BY DEF Millisecond, up, R, S
<1>13. QED
  BY <1>7, <1>8, <1>10, <1>11, <1>12 DEF t

(* The invariant of the trimmer: it counts from the frame that was reported.*)
FramesCounted == position - Slip
PushedSince == Len(tape) + 1 - mark          \* since the last seek

Trimmer ==
    /\ aim \in 0..StreamFrames /\ position \in aim..StreamFrames
    /\ skipped = Min2(TrimStart, FramesCounted)
    /\ emitted \in Nat /\ emitted <= Minus(FramesCounted, TrimStart)
    /\ emitted < TrimValid => emitted = Minus(FramesCounted, TrimStart)
    /\ ended \in BOOLEAN /\ mark \in 1..(Len(tape) + 1)

Taped ==
    /\ PushedSince > 0 => emitted <= TrimValid
    /\ FirstFrame + PushedSince = TrimStart + Slip + emitted
    /\ TrimIsExact

TapeInv == Trimmer /\ Taped
StreamIsFinite == tape \in Seq(0..(StreamFrames - 1)) /\ Len(tape) <= MaxTape

LEMMA TrimSizes == StreamFrames \in Nat /\ TrimStart \in Nat /\ TrimValid \in Nat /\ MaxTape \in Nat /\ MaxBlock \in Nat
  BY RingAssumption

LEMMA SlipIs == ASSUME aim \in Nat PROVE Slip \in Nat /\ Slip <= aim /\ Slip \in 0..Millisecond
  BY SlipIsSmall DEF Slip

LEMMA LastFrameIs ==
    ASSUME Slip \in Nat
    PROVE  /\ LastFrame \in Int /\ LastFrame <= StreamFrames - 1 /\ LastFrame <= TrimStart + TrimValid + Slip - 1
           /\ LastFrame = StreamFrames - 1 \/ LastFrame = TrimStart + TrimValid + Slip - 1
  BY TrimSizes DEF LastFrame, Min2

(* What a decoded block adds to the tape.                                   *)
Extends(k, first) ==
    /\ k \in Nat /\ first \in Nat /\ first = TrimStart + Slip + emitted /\ Len(tape) \in Nat
    /\ Len(tape) + k <= MaxTape /\ emitted < TrimValid /\ ~ended
    /\ position' \in aim..StreamFrames /\ skipped' = Min2(TrimStart, position' - Slip)
    /\ emitted' = emitted + k /\ emitted' <= TrimValid /\ emitted' <= Minus(position' - Slip, TrimStart)
    /\ (emitted' < TrimValid => emitted' = Minus(position' - Slip, TrimStart))
    /\ tape' = tape \o Row(first, k)
    /\ \A i \in 1..k : first + i - 1 \in 0..(StreamFrames - 1) /\ first + i - 1 <= LastFrame

LEMMA DecodeExtends ==
    ASSUME TapeInv, StreamIsFinite, NEW frames \in 1..MaxBlock, Decode(frames)
    PROVE  Extends(KeptOf(frames), TrimStart + Slip + emitted)
<1> DEFINE k == KeptOf(frames)
           s == SkippedOf(frames)
           first == TrimStart + Slip + emitted
           from == position + s
<1>1. /\ ~ended /\ ~(emitted >= TrimValid) /\ frames <= StreamFrames - position /\ Len(tape) + k <= MaxTape
      /\ position' = position + frames /\ skipped' = skipped + s /\ emitted' = emitted + k
      /\ tape' = tape \o [i \in 1..k |-> from + i - 1]
  BY DEF Decode, MayFill, IsComplete
<1> DEFINE counted == position - Slip
<1>2. /\ position \in aim..StreamFrames /\ skipped = Min2(TrimStart, counted) /\ emitted \in Nat
      /\ emitted <= Minus(counted, TrimStart) /\ (emitted < TrimValid => emitted = Minus(counted, TrimStart))
      /\ TrimStart \in Nat /\ TrimValid \in Nat /\ StreamFrames \in Nat /\ frames \in Nat /\ frames >= 1
      /\ Len(tape) \in Nat /\ aim \in Nat
  BY TrimSizes DEF TapeInv, Trimmer, StreamIsFinite, FramesCounted
<1>a. Slip \in Nat /\ counted \in Nat /\ position = counted + Slip /\ position \in Nat
  BY <1>2, SlipIs
<1> HIDE DEF counted
<1>3. skipped \in Nat /\ skipped <= TrimStart /\ skipped <= counted
      /\ (skipped < TrimStart => skipped = counted)
  BY <1>2, <1>a DEF Min2
<1>4. /\ s \in Nat /\ s <= frames /\ s <= TrimStart - skipped /\ (s < frames => s = TrimStart - skipped)
      /\ k \in Nat /\ k <= frames - s /\ (emitted < TrimValid => k <= TrimValid - emitted)
      /\ (k < frames - s /\ emitted < TrimValid => k = TrimValid - emitted)
  BY <1>2, <1>a, <1>3, KeptIsNat
<1> HIDE DEF k, s
<1>5. emitted < TrimValid /\ emitted = Minus(counted, TrimStart)
  BY <1>1, <1>2
<1>b. position' - Slip = counted + frames
  BY <1>1, <1>2, <1>a
<1>6. position' \in aim..StreamFrames /\ skipped' = Min2(TrimStart, position' - Slip)
  <2>1. position' \in aim..StreamFrames
    BY <1>1, <1>2, <1>a
  <2>2. skipped' = Min2(TrimStart, counted + frames)
    BY <1>1, <1>2, <1>a, <1>3, <1>4 DEF Min2
  <2>3. QED
    BY <1>b, <2>1, <2>2
<1>7. /\ emitted' <= TrimValid /\ emitted' <= Minus(position' - Slip, TrimStart)
      /\ (emitted' < TrimValid => emitted' = Minus(position' - Slip, TrimStart))
  <2>1. /\ emitted' <= TrimValid /\ emitted' <= Minus(counted + frames, TrimStart)
        /\ (emitted' < TrimValid => emitted' = Minus(counted + frames, TrimStart))
    BY <1>1, <1>2, <1>a, <1>3, <1>4, <1>5 DEF Minus
  <2>2. QED
    BY <1>b, <2>1
<1>8. k > 0 => from = first
  BY <1>2, <1>a, <1>3, <1>4, <1>5 DEF Minus
<1>9. tape' = tape \o Row(first, k)
  <2>1. [i \in 1..k |-> from + i - 1] = Row(first, k)
    <3>1. CASE k > 0
      BY <1>8, <3>1 DEF Row
    <3>2. CASE k = 0
      BY <3>2 DEF Row
    <3>3. QED
      BY <1>4, <3>1, <3>2
  <2>2. QED
    BY <1>1, <2>1
<1>10. ASSUME NEW i \in 1..k
       PROVE  first + i - 1 \in 0..(StreamFrames - 1) /\ first + i - 1 <= LastFrame
  <2>1. /\ first + i - 1 >= 0 /\ first + i - 1 <= TrimStart + TrimValid + Slip - 1
    BY <1>2, <1>a, <1>4, <1>5
  <2>2. first + i - 1 <= StreamFrames - 1
    BY <1>1, <1>2, <1>a, <1>3, <1>4, <1>8
  <2>3. QED
    BY <1>2, <1>a, <1>4, <2>1, <2>2, LastFrameIs
<1>11. first \in Nat
  BY <1>2, <1>a
<1> HIDE DEF first
<1>12. Extends(k, first)
  BY <1>1, <1>2, <1>4, <1>5, <1>6, <1>7, <1>9, <1>10, <1>11 DEF Extends, first
<1>13. QED
  BY <1>12 DEF k, first

LEMMA DecodeTapes ==
    ASSUME TapeInv, StreamIsFinite, NEW frames \in 1..MaxBlock, Decode(frames)
    PROVE  TapeInv' /\ StreamIsFinite'
<1> DEFINE k == KeptOf(frames)
           first == TrimStart + Slip + emitted
           L == Len(tape)
<1>1. Extends(k, first) /\ ended' = ended /\ mark' = mark /\ aim' = aim
  BY DecodeExtends DEF Decode
<1> HIDE DEF k, first
<1>2. /\ k \in Nat /\ first \in Nat /\ first = TrimStart + Slip + emitted /\ L \in Nat
      /\ emitted \in Nat /\ emitted < TrimValid /\ emitted' = emitted + k /\ TrimStart \in Nat /\ TrimValid \in Nat
      /\ mark \in 1..(L + 1) /\ tape \in Seq(0..(StreamFrames - 1)) /\ aim \in Nat
  BY <1>1, TrimSizes DEF Extends, TapeInv, Trimmer, StreamIsFinite
<1>a. Slip \in Nat /\ Slip \in 0..Millisecond /\ Slip' = Slip
  BY <1>1, <1>2, SlipIs DEF Slip
<1>b. FirstFrame' = FirstFrame /\ LastFrame' = LastFrame /\ FirstFrame \in Nat /\ LastFrame \in Int
  BY <1>1, <1>2, <1>a, LastFrameIs DEF FirstFrame, LastFrame
<1>c. FirstFrame + (L + 1 - mark) = first
  BY <1>2 DEF TapeInv, Taped, PushedSince
<1>3. /\ tape' \in Seq(0..(StreamFrames - 1)) /\ Len(tape') = L + k
      /\ \A i \in 1..L : tape'[i] = tape[i]
      /\ \A i \in (L + 1)..(L + k) : tape'[i] = first + (i - L) - 1
  <2>1. tape' = tape \o Row(first, k) /\ RowIn(first, k, 0..(StreamFrames - 1))
    BY <1>1 DEF Extends, RowIn
  <2>2. tape' \in Seq(0..(StreamFrames - 1)) /\ WithRow(tape, first, k, tape')
    BY <1>2, <2>1, RowAdded, Zenon
  <2>3. QED
    BY <2>2 DEF WithRow
<1>4. StreamIsFinite'
  BY <1>1, <1>3 DEF StreamIsFinite, Extends
<1>5. Trimmer'
  <2>1. mark' \in 1..(Len(tape') + 1) /\ aim' \in 0..StreamFrames
    BY <1>1, <1>2, <1>3 DEF TapeInv, Trimmer
  <2>2. emitted' \in Nat
    BY <1>2
  <2>3. FramesCounted' = position' - Slip
    BY <1>a DEF FramesCounted
  <2>4. QED
    BY <1>1, <2>1, <2>2, <2>3 DEF Extends, Trimmer, TapeInv
<1>6. TrimIsExact'
  <2>1. ASSUME NEW n \in mark..(L + k)
        PROVE  tape'[n] = FirstFrame + (n - mark) /\ tape'[n] <= LastFrame
    <3>1. CASE n <= L
      <4>1. n \in mark..L /\ n \in 1..L
        BY <1>2, <2>1, <3>1
      <4>2. tape[n] = FirstFrame + (n - mark) /\ tape[n] <= LastFrame
        BY <4>1 DEF TapeInv, Taped, TrimIsExact
      <4>3. QED
        BY <1>3, <4>1, <4>2
    <3>2. CASE n > L
      <4>1. n - L \in 1..k /\ n \in (L + 1)..(L + k)
        BY <1>2, <2>1, <3>2
      <4>2. tape'[n] = first + (n - L) - 1
        BY <1>3, <4>1
      <4>3. first + (n - L) - 1 <= LastFrame
        BY <1>1, <4>1 DEF Extends
      <4>4. first + (n - L) - 1 = FirstFrame + (n - mark)
        BY <1>2, <1>b, <1>c, <4>1
      <4>5. QED
        BY <4>2, <4>3, <4>4
    <3>3. QED
      BY <1>2, <3>1, <3>2
  <2>2. ~(ended')
    BY <1>1 DEF Extends
  <2> HIDE DEF L
  <2>3. QED
    BY <1>1, <1>a, <1>b, <1>3, <2>1, <2>2 DEF TrimIsExact, Millisecond
<1>7. Taped'
  <2>a. PushedSince' = L + k + 1 - mark
    BY <1>1, <1>3 DEF PushedSince
  <2> HIDE DEF L
  <2>1. FirstFrame' + PushedSince' = TrimStart + Slip' + emitted'
    <3>1. FirstFrame' + PushedSince' = FirstFrame + (L + k + 1 - mark)
      BY <1>b, <2>a
    <3>2. FirstFrame + (L + k + 1 - mark) = first + k
      BY <1>2, <1>b, <1>c
    <3>3. TrimStart + Slip' + emitted' = first + k
      BY <1>2, <1>a
    <3>4. QED
      BY <3>1, <3>2, <3>3
  <2>2. emitted' <= TrimValid
    BY <1>1 DEF Extends
  <2>3. QED
    BY <1>6, <2>1, <2>2 DEF Taped
<1>8. QED
  BY <1>4, <1>5, <1>7 DEF TapeInv

LEMMA EndTapes ==
    ASSUME TapeInv, StreamIsFinite, EndOfTrack
    PROVE  TapeInv' /\ StreamIsFinite'
<1>1. /\ UNCHANGED <<position, skipped, emitted, tape, mark, aim>> /\ ended' = TRUE
      /\ emitted >= TrimValid \/ position = StreamFrames
  BY DEF EndOfTrack, IsComplete
<1>2. Trimmer' /\ StreamIsFinite'
  BY <1>1 DEF TapeInv, Trimmer, StreamIsFinite, FramesCounted, Slip
<1>3. FirstFrame + PushedSince > LastFrame
  <2>1. /\ position \in aim..StreamFrames /\ emitted \in Nat /\ aim \in Nat
        /\ (emitted < TrimValid => emitted = Minus(FramesCounted, TrimStart))
        /\ TrimStart \in Nat /\ TrimValid \in Nat /\ StreamFrames \in Nat
        /\ FirstFrame + PushedSince = TrimStart + Slip + emitted
    BY TrimSizes DEF TapeInv, Trimmer, Taped
  <2>2. Slip \in Nat
    BY <2>1, SlipIs
  <2>3. FramesCounted = position - Slip
    BY DEF FramesCounted
  <2>4. TrimStart + Slip + emitted > LastFrame
    BY <1>1, <2>1, <2>2, <2>3, LastFrameIs DEF Minus
  <2>5. QED
    BY <2>1, <2>4
<1>4. Taped'
  <2>1. FirstFrame' = FirstFrame /\ LastFrame' = LastFrame /\ Slip' = Slip /\ PushedSince' = PushedSince
    BY <1>1 DEF FirstFrame, LastFrame, Slip, PushedSince
  <2>2. TrimIsExact'
    BY <1>1, <1>3, <2>1 DEF TapeInv, Taped, TrimIsExact, PushedSince, Millisecond
  <2>3. QED
    BY <1>1, <2>1, <2>2 DEF TapeInv, Taped
<1>5. QED
  BY <1>2, <1>4 DEF TapeInv

LEMMA SeekTapes ==
    ASSUME TapeInv, StreamIsFinite, NEW frame \in 0..StreamFrames, Seek(frame)
    PROVE  TapeInv' /\ StreamIsFinite'
<1>1. /\ position' = frame /\ skipped' = Min2(TrimStart, Reported(frame))
      /\ emitted' = Minus(Reported(frame), TrimStart)
      /\ ended' = FALSE /\ mark' = Len(tape) + 1 /\ aim' = frame /\ tape' = tape
  BY DEF Seek
<1>2. StreamIsFinite'
  BY <1>1 DEF StreamIsFinite
<1>3. /\ frame \in Nat /\ Reported(frame) \in Nat /\ Reported(frame) <= frame /\ TrimStart \in Nat
      /\ Len(tape) \in Nat /\ TrimValid \in Nat
  BY SlipIsSmall, TrimSizes DEF StreamIsFinite
<1>4. Slip' = frame - Reported(frame) /\ Slip' \in 0..Millisecond /\ Slip' \in Nat /\ Millisecond' = Millisecond
  <2>1. Slip' = frame - Reported(frame)
    BY <1>1 DEF Slip, Reported, MillisToFrames, FramesToMillis
  <2>2. frame - Reported(frame) \in 0..Millisecond
    BY SlipIsSmall
  <2>3. Millisecond' = Millisecond
    BY DEF Millisecond
  <2>4. frame - Reported(frame) \in Nat
    BY <1>3
  <2>5. QED
    BY <2>1, <2>2, <2>3, <2>4
<1>5. FramesCounted' = Reported(frame)
  BY <1>1, <1>3, <1>4 DEF FramesCounted
<1>6. PushedSince' = 0
  BY <1>1, <1>3 DEF PushedSince
<1>7. Trimmer'
  <2>1. emitted' \in Nat /\ mark' \in 1..(Len(tape') + 1)
    BY <1>1, <1>3 DEF Minus
  <2>2. position' \in aim'..StreamFrames /\ aim' \in 0..StreamFrames /\ ended' \in BOOLEAN
    <3>1. StreamFrames \in Nat /\ frame \in frame..StreamFrames
      BY <1>3, TrimSizes
    <3>2. QED
      BY <1>1, <3>1
  <2>3. emitted' = Minus(FramesCounted', TrimStart) /\ emitted' <= emitted'
    BY <1>1, <1>5, <2>1
  <2>4. skipped' = Min2(TrimStart, FramesCounted')
    BY <1>1, <1>5
  <2>5. QED
    BY <2>1, <2>2, <2>3, <2>4, Zenon DEF Trimmer
<1>8. TrimIsExact'
  <2>1. mark'..Len(tape') = {}
    BY <1>1, <1>3
  <2>2. QED
    BY <1>1, <1>4, <2>1 DEF TrimIsExact
<1>9. FirstFrame' = TrimStart + Slip' + emitted'
  BY <1>1, <1>3, <1>4 DEF FirstFrame, Minus
<1>10. Taped'
  <2>1. FirstFrame' + PushedSince' = TrimStart + Slip' + emitted' /\ ~(PushedSince' > 0)
    BY <1>3, <1>4, <1>6, <1>9, <1>1 DEF Minus
  <2>2. QED
    BY <1>8, <2>1 DEF Taped
<1>11. QED
  BY <1>2, <1>7, <1>10 DEF TapeInv

(* The ring does not touch the tape.                                        *)
LEMMA RestTapes ==
    ASSUME TapeInv, StreamIsFinite, UNCHANGED <<position, skipped, emitted, ended, tape, mark, aim>>
    PROVE  TapeInv' /\ StreamIsFinite'
  BY DEF TapeInv, StreamIsFinite, Trimmer, Taped, TrimIsExact, FramesCounted, PushedSince, Slip, FirstFrame,
         LastFrame, Millisecond
-----------------------------------------------------------------------------
(* The steps of the ring.                                                   *)
LEMMA ReadIsNat ==
    ASSUME RingInv
    PROVE  /\ Read \in Nat /\ Read <= Published /\ Len(heard) \in Nat /\ Len(pushed) \in Nat
           /\ Published \in Nat /\ Published <= RingCapacity /\ RingCapacity \in Nat \ {0}
           /\ Len(tape) \in Nat
  BY RingSizes DEF RingInv, Wheels, Reader, Read, Resting

(* The indices, the slots and the callback as they were.                    *)
RingStays == UNCHANGED <<writeIndex, readIndex, slots, callback, pushed, heard>>

LEMMA StaysPublished ==
    ASSUME RingInv, RingStays
    PROVE  /\ Published' = Published /\ Read' = Read /\ Reader' /\ Contents'
           /\ writeIndex' \in Index /\ readIndex' \in Index /\ slots' \in [0..(RingCapacity - 1) -> 0..MaxTape]
           /\ pushed' \in Seq(1..MaxTape) /\ heard' \in Seq(1..MaxTape)
           /\ writeIndex' = Moved(readIndex', Published')
<1>1. Published' = Published /\ Read' = Read
  BY DEF RingStays, Published, Read
<1>2. Reader' /\ Contents'
  BY <1>1 DEF RingInv, RingStays, Reader, Contents
<1>3. QED
  BY <1>1, <1>2 DEF RingInv, RingStays, Wheels

LEMMA DecodeKeepsRing ==
    ASSUME RingInv, TapeInv, NEW frames \in 1..MaxBlock, Decode(frames)
    PROVE  RingInv'
<1> DEFINE k == KeptOf(frames)
<1>1. RingStays /\ StreamIsFinite
  BY DEF Decode, RingStays, RingInv, Wheels, StreamIsFinite
<1>2. StreamIsFinite' /\ k \in Nat /\ Len(tape') = Len(tape) + k
  <2>1. StreamIsFinite' /\ Extends(k, TrimStart + Slip + emitted)
    BY <1>1, DecodeTapes, DecodeExtends
  <2>2. Len(tape') = Len(tape) + k
    <3> DEFINE first == TrimStart + Slip + emitted
    <3>1. /\ tape' = tape \o Row(first, k) /\ RowIn(first, k, 0..(StreamFrames - 1)) /\ k \in Nat /\ first \in Nat
      BY <2>1 DEF Extends, RowIn
    <3>2. tape \in Seq(0..(StreamFrames - 1))
      BY <1>1 DEF StreamIsFinite
    <3> HIDE DEF first, k
    <3>3. WithRow(tape, first, k, tape')
      BY <3>1, <3>2, RowAdded, Zenon
    <3>4. QED
      BY <3>3 DEF WithRow
  <2>3. QED
    BY <2>1, <2>2 DEF Extends
<1> HIDE DEF k
<1>3. /\ pump = Resting /\ RingCapacity - Published >= RingCapacity \div 2
      /\ pump' = (IF k = 0 THEN Resting ELSE [at |-> "block", from |-> Len(tape) + 1, size |-> k])
      /\ tooLarge' = (tooLarge \/ k > RingCapacity \div 2)
  BY DEF Decode, MayFill, Published, k
<1>4. /\ Published' = Published /\ Reader' /\ Contents' /\ Published \in Nat /\ RingCapacity \in Nat
      /\ Len(tape) \in Nat /\ pushed' = pushed
  BY <1>1, StaysPublished, ReadIsNat DEF RingStays
<1>5. tooLarge' \in BOOLEAN
  BY <1>3, Zenon
<1>6. Wheels'
  BY <1>1, <1>2, <1>4, <1>5, StaysPublished DEF Wheels, StreamIsFinite, RingInv
<1>7. HandedOver = Len(tape) /\ HandedOver' = Len(tape)
  BY <1>2, <1>3, <1>4 DEF HandedOver, Resting
<1>8. ~tooLarge' => ~tooLarge /\ ~(k > RingCapacity \div 2)
  BY <1>3, Zenon
<1>9. InOrder'
  BY <1>4, <1>7, <1>8 DEF RingInv, InOrder
<1>10. Writer'
  <2>1. CASE k = 0
    BY <1>3, <2>1 DEF Writer
  <2>2. CASE k # 0
    <3>1. pump' = [at |-> "block", from |-> Len(tape) + 1, size |-> k]
      BY <1>3, <2>2
    <3>2. ~tooLarge' => k <= RingCapacity \div 2
      BY <1>2, <1>4, <1>8
    <3>3. /\ pump'.from = Len(tape) + 1 /\ pump'.size = k
          /\ pump' \in [at : {"block"}, from : Nat, size : Nat]
      BY <1>2, <1>4, <3>1
    <3>4. BlockWaits'
      BY <1>2, <1>3, <1>4, <2>2, <3>2, <3>3 DEF BlockWaits
    <3>5. QED
      BY <3>4 DEF Writer
  <2>3. QED
    BY <2>1, <2>2
<1>11. QED
  BY <1>4, <1>6, <1>9, <1>10 DEF RingInv

LEMMA RestKeepsRing ==
    ASSUME RingInv, RingStays, UNCHANGED <<pump, tape, tooLarge>>
    PROVE  RingInv'
<1>1. Published' = Published /\ Reader' /\ Contents'
  BY StaysPublished
<1>2. Wheels'
  BY <1>1, StaysPublished DEF Wheels, RingInv
<1>3. Writer'
  BY <1>1 DEF RingInv, Writer, BlockWaits, BlockCopies, RingStays
<1>4. InOrder'
  BY DEF RingInv, InOrder, RingStays, HandedOver
<1>5. QED
  BY <1>1, <1>2, <1>3, <1>4 DEF RingInv

LEMMA PushLoadsKeeps ==
    ASSUME RingInv, PushLoads
    PROVE  RingInv'
<1> DEFINE free == RingCapacity - Published
           count == Min2(pump.size, free)
<1>1. /\ RingStays /\ UNCHANGED <<tape, tooLarge>> /\ pump.at = "block"
      /\ pump' = [at |-> "copying", from |-> pump.from, count |-> count, done |-> 0]
  BY DEF PushLoads, RingStays, Published
<1>2. BlockWaits
  BY <1>1 DEF RingInv, Writer, BlockCopies, Resting
<1>3. /\ pump.from \in Nat /\ pump.size \in Nat /\ pump.from >= 1 /\ pump.from + pump.size - 1 = Len(tape)
      /\ free >= RingCapacity \div 2 /\ (~tooLarge => pump.size <= RingCapacity \div 2)
      /\ Published \in Nat /\ Published <= RingCapacity /\ RingCapacity \in Nat /\ free \in Nat
  BY <1>2, ReadIsNat DEF BlockWaits
<1>4. /\ count \in Nat /\ count <= pump.size /\ Published + count <= RingCapacity
      /\ (~tooLarge => count = pump.size)
  BY <1>3 DEF Min2
<1> HIDE DEF free, count
<1>5. Published' = Published /\ Reader' /\ Contents'
  BY <1>1, StaysPublished
<1>6. Wheels'
  BY <1>1, <1>5, StaysPublished DEF Wheels, RingInv
<1>7. BlockCopies'
  <2>1. /\ pump' \in [at : {"copying"}, from : Nat, count : Nat, done : Nat]
        /\ pump'.from = pump.from /\ pump'.count = count /\ pump'.done = 0
    BY <1>1, <1>3, <1>4
  <2>2. pump.from + count - 1 <= Len(tape) /\ (~tooLarge => pump.from + count - 1 = Len(tape))
    BY <1>3, <1>4
  <2>3. QED
    BY <1>1, <1>3, <1>4, <1>5, <2>1, <2>2 DEF BlockCopies
<1>8. InOrder'
  <2>1. HandedOver' = HandedOver
    BY <1>1 DEF HandedOver
  <2>2. QED
    BY <1>1, <2>1 DEF RingInv, InOrder, RingStays
<1>9. QED
  BY <1>5, <1>6, <1>7, <1>8 DEF RingInv, Writer

LEMMA PushWritesKeeps ==
    ASSUME RingInv, PushWrites
    PROVE  RingInv'
<1> DEFINE p == Published
           d == pump.done
           a(n) == Address(readIndex, n)
<1>1. /\ pump.at = "copying" /\ d < pump.count
      /\ slots' = [slots EXCEPT ![Address(writeIndex, d)] = pump.from + d]
      /\ pump' = [pump EXCEPT !.done = @ + 1]
      /\ UNCHANGED <<writeIndex, readIndex, callback, tape, pushed, heard, tooLarge>>
  BY DEF PushWrites, Address
<1>2. BlockCopies
  BY <1>1 DEF RingInv, Writer, BlockWaits, Resting
<1>3. /\ pump \in [at : {"copying"}, from : Nat, count : Nat, done : Nat]
      /\ pump.from >= 1 /\ pump.from + pump.count - 1 <= Len(tape) /\ d <= pump.count
      /\ p + pump.count <= RingCapacity /\ (~tooLarge => pump.from + pump.count - 1 = Len(tape))
      /\ \A j \in 0..(d - 1) : slots[a(p + j)] = pump.from + j
  BY <1>2 DEF BlockCopies
<1>4. /\ d \in Nat /\ pump.from \in Nat /\ pump.count \in Nat /\ p \in Nat /\ p <= RingCapacity
      /\ RingCapacity \in Nat \ {0} /\ readIndex \in Index /\ writeIndex = Moved(readIndex, p)
      /\ slots \in [0..(RingCapacity - 1) -> 0..MaxTape] /\ Len(tape) <= MaxTape /\ Len(tape) \in Nat
      /\ p + d < RingCapacity
  <2>1. /\ pump.from \in Nat /\ pump.count \in Nat /\ d \in Nat
    BY <1>3
  <2>2. /\ p \in Nat /\ p <= RingCapacity /\ RingCapacity \in Nat \ {0} /\ Len(tape) \in Nat
    BY ReadIsNat
  <2>3. /\ readIndex \in Index /\ writeIndex = Moved(readIndex, p) /\ Len(tape) <= MaxTape
        /\ slots \in [0..(RingCapacity - 1) -> 0..MaxTape]
    BY DEF RingInv, Wheels
  <2>4. d < pump.count /\ p + pump.count <= RingCapacity
    BY <1>1, <1>3
  <2> HIDE DEF p, d
  <2>5. p + d < RingCapacity
    BY <2>1, <2>2, <2>4
  <2>6. QED
    BY <2>1, <2>2, <2>3, <2>5
<1>5. Published' = p /\ Read' = Read /\ Reader'
  BY <1>1 DEF RingInv, Reader, Published, Read
<1>6. Address(writeIndex, d) = a(p + d) /\ a(p + d) \in 0..(RingCapacity - 1)
  <2>1. p + d <= RingCapacity /\ p + d \in Nat
    BY <1>4
  <2>2. Address(Moved(readIndex, p), d) = Address(readIndex, p + d)
    BY <1>4, <2>1, MovedTwice, Zenon
  <2>3. Address(readIndex, p + d) \in 0..(RingCapacity - 1)
    BY <1>4, <2>1, AddressInRing, Zenon
  <2>4. QED
    BY <1>4, <2>2, <2>3
<1>7. pump.from + d \in 0..MaxTape
  <2>1. /\ pump.from + pump.count - 1 <= Len(tape) /\ d < pump.count
        /\ Len(tape) <= MaxTape /\ MaxTape \in Nat
    BY <1>1, <1>3, <1>4, TrimSizes
  <2>2. /\ d \in Nat /\ pump.from \in Nat /\ pump.count \in Nat /\ Len(tape) \in Nat
    BY <1>4
  <2> HIDE DEF d
  <2>3. QED
    BY <2>1, <2>2
<1>8. slots' \in [0..(RingCapacity - 1) -> 0..MaxTape]
  BY <1>1, <1>4, <1>6, <1>7
<1>9. ASSUME NEW n \in Nat, n < p + d PROVE slots'[a(n)] = slots[a(n)]
  <2>1. n <= RingCapacity /\ p + d \in Nat /\ p + d < n + RingCapacity /\ p + d <= RingCapacity
    <3>1. p \in Nat /\ d \in Nat /\ RingCapacity \in Nat /\ p + d < RingCapacity
      BY <1>4
    <3> HIDE DEF p, d
    <3>2. QED
      BY <1>9, <3>1
  <2>2. a(n) # a(p + d)
    BY <1>4, <1>9, <2>1, AddressesDiffer
  <2>3. a(n) \in 0..(RingCapacity - 1)
    BY <1>4, <2>1, AddressInRing
  <2> HIDE DEF a, p, d
  <2>4. QED
    BY <1>1, <1>4, <1>6, <2>2, <2>3
<1>10. slots'[a(p + d)] = pump.from + d
  BY <1>1, <1>4, <1>6
<1>11. Wheels'
  BY <1>1, <1>5, <1>8 DEF RingInv, Wheels
<1>12. Contents'
  <2>1. ASSUME NEW i \in 0..(p - 1) PROVE slots'[a(i)] = pushed[(Len(heard) - Read) + 1 + i]
    <3>1. i \in Nat /\ i < p + d
      BY <1>4, <2>1
    <3>2. slots[a(i)] = pushed[(Len(heard) - Read) + 1 + i]
      BY DEF RingInv, Contents
    <3>3. QED
      BY <1>9, <3>1, <3>2
  <2>2. QED
    BY <1>1, <1>5, <2>1 DEF RingInv, Contents
<1>13. BlockCopies'
  <2>1. /\ pump' \in [at : {"copying"}, from : Nat, count : Nat, done : Nat]
        /\ pump'.from = pump.from /\ pump'.count = pump.count /\ pump'.done = d + 1
    <3> HIDE DEF p, a
    <3>1. pump' = [at |-> "copying", from |-> pump.from, count |-> pump.count, done |-> d + 1]
      BY <1>1, <1>3
    <3>2. QED
      BY <1>4, <3>1
  <2>2. ASSUME NEW j \in 0..d PROVE slots'[a(p + j)] = pump.from + j
    <3>1. CASE j = d
      BY <1>10, <3>1
    <3>2. CASE j # d
      <4>1. j \in 0..(d - 1) /\ p + j \in Nat /\ p + j < p + d
        BY <1>4, <2>2, <3>2
      <4>2. QED
        BY <1>3, <1>9, <4>1
    <3>3. QED
      BY <3>1, <3>2
  <2>3. \A j \in 0..(pump'.done - 1) : slots'[Address(readIndex', Published' + j)] = pump'.from + j
    <3>1. 0..((d + 1) - 1) = 0..d
      BY <1>4
    <3>2. QED
      BY <1>1, <1>5, <2>1, <2>2, <3>1
  <2>4. d + 1 <= pump.count
    BY <1>1, <1>4
  <2> HIDE DEF d, p, a
  <2>5. QED
    BY <1>1, <1>3, <1>5, <2>1, <2>3, <2>4 DEF BlockCopies
<1>14. InOrder'
  <2>1. HandedOver' = HandedOver
    BY <1>1, <1>3 DEF HandedOver
  <2>2. QED
    BY <1>1, <2>1 DEF RingInv, InOrder
<1>15. QED
  BY <1>5, <1>11, <1>12, <1>13, <1>14 DEF RingInv, Writer

LEMMA PushStoresKeeps ==
    ASSUME RingInv, PushStores
    PROVE  RingInv'
<1> DEFINE p == Published
           c == pump.count
           from == pump.from
           h == Len(heard) - Read
           L == Len(pushed)
<1>1. /\ pump.at = "copying" /\ pump.done = c /\ writeIndex' = Moved(writeIndex, c) /\ pump' = Resting
      /\ pushed' = pushed \o Row(from, c)
      /\ UNCHANGED <<readIndex, slots, callback, tape, heard, tooLarge>>
  BY DEF PushStores, Moved, Row
<1>2. BlockCopies
  BY <1>1 DEF RingInv, Writer, BlockWaits, Resting
<1>3. /\ from \in Nat /\ c \in Nat /\ from >= 1 /\ from + c - 1 <= Len(tape)
      /\ p + c <= RingCapacity /\ (~tooLarge => from + c - 1 = Len(tape))
      /\ \A j \in 0..(c - 1) : slots[Address(readIndex, p + j)] = from + j
  BY <1>1, <1>2 DEF BlockCopies
<1>4. /\ p \in Nat /\ p <= RingCapacity /\ RingCapacity \in Nat \ {0} /\ readIndex \in Index
      /\ writeIndex = Moved(readIndex, p) /\ Len(tape) <= MaxTape /\ Len(tape) \in Nat /\ MaxTape \in Nat
      /\ L \in Nat /\ h \in Nat /\ L = h + p /\ pushed \in Seq(1..MaxTape) /\ Read <= p
  BY ReadIsNat, TrimSizes DEF RingInv, Wheels, Contents
<1>20. /\ p \in Nat /\ L \in Nat /\ h \in Nat /\ L = h + p /\ from \in Nat /\ c \in Nat /\ from >= 1
       /\ (~tooLarge => from + c - 1 = Len(tape)) /\ from + c - 1 <= Len(tape) /\ Len(tape) \in Nat
  BY <1>3, <1>4
<1>21. h = Len(heard) - Read /\ L = Len(pushed) /\ p = Published /\ c = pump.count /\ from = pump.from
  OBVIOUS
<1> HIDE DEF p, c, from, h, L
<1>5. writeIndex' = Moved(readIndex, p + c) /\ writeIndex' \in Index /\ Published' = p + c
  <2>1. p + c \in Nat /\ p + c <= RingCapacity
    BY <1>3, <1>4
  <2>2. Moved(Moved(readIndex, p), c) = Moved(readIndex, p + c)
    BY <1>3, <1>4, MovedTwice, Zenon
  <2>3. Moved(readIndex, p + c) \in Index
    <3>1. (p + c) + 0 <= RingCapacity /\ 0 \in Nat
      BY <2>1
    <3>2. QED
      BY <1>4, <2>1, <3>1, MovedTwice, Zenon
  <2>4. Behind(Moved(readIndex, p + c), readIndex) = p + c
    BY <1>4, <2>1, BehindIsMoved, Zenon
  <2>5. QED
    BY <1>1, <1>4, <2>2, <2>3, <2>4 DEF Published
<1>6. pushed' \in Seq(1..MaxTape) /\ WithRow(pushed, from, c, pushed')
  <2>1. RowIn(from, c, 1..MaxTape)
    BY <1>3, <1>4 DEF RowIn
  <2>2. QED
    BY <1>1, <1>3, <1>4, <2>1, RowAdded, Zenon
<1>7. /\ Len(pushed') = L + c /\ \A i \in 1..L : pushed'[i] = pushed[i]
      /\ \A i \in (L + 1)..(L + c) : pushed'[i] = from + (i - L) - 1
  BY <1>6, <1>21 DEF WithRow
<1>8. Read' = Read /\ Reader'
  <2>1. Read' = Read
    BY <1>1 DEF Read
  <2>2. p <= p + c
    BY <1>3, <1>4
  <2>3. QED
    BY <1>1, <1>5, <1>20, <1>21, <2>1, <2>2 DEF RingInv, Reader
<1>9. Wheels'
  <2>1. p + c \in Nat
    BY <1>3, <1>4
  <2>2. QED
    BY <1>1, <1>3, <1>5, <1>6, <2>1 DEF RingInv, Wheels
<1>10. Contents'
  <2>1. ASSUME NEW i \in 0..(p + c - 1) PROVE slots[Address(readIndex, i)] = pushed'[h + 1 + i]
    <3>1. CASE i < p
      <4>1. i \in 0..(p - 1) /\ h + 1 + i \in 1..L
        BY <1>20, <2>1, <3>1
      <4>2. slots[Address(readIndex, i)] = pushed[h + 1 + i]
        BY <1>21, <4>1 DEF RingInv, Contents
      <4>3. QED
        BY <1>7, <4>1, <4>2
    <3>2. CASE i >= p
      <4>1. /\ i - p \in 0..(c - 1) /\ p + (i - p) = i /\ h + 1 + i \in (L + 1)..(L + c)
            /\ from + ((h + 1 + i) - L) - 1 = from + (i - p)
        BY <1>20, <2>1, <3>2
      <4>2. slots[Address(readIndex, p + (i - p))] = from + (i - p)
        BY <1>3, <4>1
      <4>3. pushed'[h + 1 + i] = from + ((h + 1 + i) - L) - 1
        BY <1>7, <4>1
      <4>4. QED
        BY <4>1, <4>2, <4>3
    <3>3. QED
      BY <1>20, <2>1, <3>1, <3>2
  <2>2. \A i \in 1..Len(heard) : heard[i] = pushed'[i]
    <3>1. Len(heard) <= L /\ Len(heard) \in Nat
      BY <1>4, <1>20, <1>21, ReadIsNat
    <3>2. \A i \in 1..Len(heard) : i \in 1..L /\ heard[i] = pushed[i]
      BY <1>4, <3>1 DEF RingInv, Contents
    <3>3. QED
      BY <1>7, <3>2
  <2>3. Read <= Len(heard)
    BY DEF RingInv, Contents
  <2>4. L + c = h + (p + c)
    BY <1>20
  <2>5. Len(heard') - Read' = h
    BY <1>1, <1>8, <1>21
  <2>6. slots' = slots /\ readIndex' = readIndex /\ heard' = heard
    BY <1>1
  <2>7. Read' <= Len(heard')
    BY <1>8, <2>3, <2>6
  <2>8. Len(pushed') = (Len(heard') - Read') + Published'
    BY <1>5, <1>7, <2>4, <2>5
  <2>9. \A i \in 0..(Published' - 1) :
           slots'[Address(readIndex', i)] = pushed'[(Len(heard') - Read') + 1 + i]
    <3>1. 0..(Published' - 1) = 0..(p + c - 1)
      <4>1. Published' = p + c
        BY <1>5
      <4>2. Published' - 1 = p + c - 1
        BY <1>20, <4>1
      <4>3. QED
        BY <4>2
    <3>2. ASSUME NEW i \in 0..(p + c - 1)
          PROVE  slots'[Address(readIndex', i)] = pushed'[(Len(heard') - Read') + 1 + i]
      <4>1. slots[Address(readIndex, i)] = pushed'[h + 1 + i]
        BY <2>1, <3>2
      <4>2. QED
        BY <2>5, <2>6, <4>1, Zenon
    <3>3. QED
      BY <3>1, <3>2, Zenon
  <2>10. \A i \in 1..Len(heard') : heard'[i] = pushed'[i]
    BY <2>2, <2>6
  <2>11. QED
    BY <2>7, <2>8, <2>9, <2>10, Zenon DEF Contents
<1>11. InOrder'
  <2>1. HandedOver = from - 1 /\ HandedOver' = Len(tape)
    BY <1>1, <1>21 DEF HandedOver, Resting
  <2>2. /\ \A n \in 2..L : pushed[n - 1] < pushed[n]
        /\ (pushed # <<>> => pushed[1] >= 1 /\ pushed[L] <= from - 1)
        /\ (~tooLarge => L = from - 1)
    BY <1>21, <2>1 DEF RingInv, InOrder
  <2>3. ASSUME NEW n \in 2..(L + c) PROVE pushed'[n - 1] < pushed'[n]
    <3>1. CASE n <= L
      <4>1. n \in 2..L /\ n - 1 \in 1..L /\ n \in 1..L
        BY <1>20, <2>3, <3>1
      <4>2. QED
        BY <1>7, <2>2, <4>1
    <3>2. CASE n = L + 1
      <4>1. n - 1 = L /\ L \in 1..L /\ pushed # <<>> /\ n \in (L + 1)..(L + c)
        <5>1. L \in Nat /\ c \in Nat /\ L >= 1 /\ n <= L + c /\ n \in Int
          BY <1>20, <1>21, <2>3, <3>2
        <5>2. pushed # <<>>
          BY <5>1, <1>21
        <5> HIDE DEF L
        <5>3. n - 1 = L /\ L \in 1..L /\ n \in (L + 1)..(L + c)
          BY <3>2, <5>1
        <5>4. QED
          BY <5>2, <5>3
      <4>2. pushed'[n - 1] = pushed[L] /\ pushed'[n] = from + (n - L) - 1 /\ pushed[L] \in 1..MaxTape
        <5>1. pushed[L] \in 1..MaxTape
          BY <1>4, <1>21, <4>1, ElementOfSeq
        <5>2. QED
          BY <1>7, <4>1, <5>1
      <4>3. QED
        BY <1>20, <2>2, <3>2, <4>1, <4>2
    <3>3. CASE n > L + 1
      <4>1. n - 1 \in (L + 1)..(L + c) /\ n \in (L + 1)..(L + c)
        BY <1>20, <2>3, <3>3
      <4>2. pushed'[n - 1] = from + ((n - 1) - L) - 1 /\ pushed'[n] = from + (n - L) - 1
        BY <1>7, <4>1
      <4>3. QED
        BY <1>20, <4>1, <4>2
    <3>4. QED
      BY <1>20, <2>3, <3>1, <3>2, <3>3
  <2>4. ASSUME pushed' # <<>> PROVE pushed'[1] >= 1 /\ pushed'[Len(pushed')] <= Len(tape)
    <3>1. L + c \in Nat \ {0}
      BY <1>6, <1>7, <1>20, <2>4, EmptySeq
    <3>2. pushed'[1] \in 1..MaxTape
      <4>1. 1 \in 1..Len(pushed')
        BY <1>7, <3>1
      <4>2. QED
        BY <1>6, <4>1, ElementOfSeq
    <3>3. CASE c = 0
      <4>1. L \in 1..L /\ L + c = L /\ pushed # <<>>
        BY <1>20, <1>21, <3>1, <3>3
      <4>2. pushed'[L + c] = pushed[L] /\ pushed[L] <= from - 1 /\ pushed[L] \in 1..MaxTape
        BY <1>4, <1>7, <1>21, <2>2, <4>1, ElementOfSeq
      <4>3. from - 1 <= Len(tape)
        BY <1>20, <3>3
      <4>4. QED
        BY <1>7, <1>20, <3>2, <4>2, <4>3
    <3>4. CASE c > 0
      <4>1. L + c \in (L + 1)..(L + c)
        BY <1>20, <3>4
      <4>2. pushed'[L + c] = from + ((L + c) - L) - 1
        BY <1>7, <4>1
      <4>3. QED
        <5>1. (L + c) - L = c
          BY <1>20
        <5>2. from + c - 1 <= Len(tape)
          BY <1>20
        <5>3. QED
          BY <1>7, <3>2, <4>2, <5>1, <5>2
    <3>5. QED
      BY <1>20, <3>3, <3>4
  <2>5. ~tooLarge => L + c = Len(tape)
    BY <1>20, <2>2
  <2>6. QED
    BY <1>1, <1>7, <2>1, <2>3, <2>4, <2>5 DEF InOrder
<1>12. QED
  BY <1>1, <1>8, <1>9, <1>10, <1>11 DEF RingInv, Writer

LEMMA PopLoadsKeeps ==
    ASSUME RingInv, NEW amount \in 1..MaxCallback, PopLoads(amount)
    PROVE  RingInv'
<1> DEFINE count == Min2(amount, Published)
<1>1. /\ callback = Resting /\ callback' = [at |-> "copying", count |-> count, done |-> 0]
      /\ UNCHANGED <<writeIndex, readIndex, slots, pump, tape, pushed, heard, tooLarge>>
  BY DEF PopLoads, Published
<1>2. Published \in Nat /\ count \in Nat /\ count <= Published /\ Published' = Published
  <2>1. Published \in Nat /\ amount \in Nat
    BY ReadIsNat, RingAssumption
  <2>2. Published' = Published
    BY <1>1 DEF Published
  <2>3. QED
    BY <2>1, <2>2 DEF Min2
<1> HIDE DEF count
<1>3. Read = 0 /\ Read' = 0
  BY <1>1 DEF Read, Resting
<1>4. Reader'
  BY <1>1, <1>2 DEF Reader
<1>5. Contents'
  BY <1>1, <1>2, <1>3 DEF RingInv, Contents
<1>6. Wheels'
  BY <1>1, <1>2 DEF RingInv, Wheels
<1>7. Writer'
  BY <1>1, <1>2 DEF RingInv, Writer, BlockWaits, BlockCopies
<1>8. InOrder'
  BY <1>1 DEF RingInv, InOrder, HandedOver
<1>9. QED
  BY <1>4, <1>5, <1>6, <1>7, <1>8 DEF RingInv

LEMMA PopReadsKeeps ==
    ASSUME RingInv, PopReads
    PROVE  RingInv'
<1> DEFINE d == callback.done
           H == Len(heard)
           x == slots[Address(readIndex, d)]
<1>1. /\ callback.at = "copying" /\ d < callback.count /\ heard' = Append(heard, x)
      /\ callback' = [callback EXCEPT !.done = @ + 1]
      /\ UNCHANGED <<writeIndex, readIndex, slots, pump, tape, pushed, tooLarge>>
  BY DEF PopReads, Address
<1>2. /\ callback \in [at : {"copying"}, count : Nat, done : Nat] /\ d \in Nat /\ callback.count \in Nat
      /\ callback.count <= Published /\ Published \in Nat /\ Read = d
  BY <1>1, ReadIsNat DEF RingInv, Reader, Resting, Read
<1>3. /\ H \in Nat /\ d <= H /\ Len(pushed) = (H - d) + Published /\ heard \in Seq(1..MaxTape)
      /\ pushed \in Seq(1..MaxTape) /\ Len(pushed) \in Nat
      /\ \A i \in 0..(Published - 1) : slots[Address(readIndex, i)] = pushed[(H - d) + 1 + i]
      /\ \A i \in 1..H : heard[i] = pushed[i]
  BY <1>2, ReadIsNat DEF RingInv, Contents, Wheels
<1>4. x = pushed[H + 1] /\ H + 1 \in 1..Len(pushed)
  <2>1. d \in 0..(Published - 1) /\ (H - d) + 1 + d = H + 1 /\ H + 1 \in 1..Len(pushed)
    BY <1>1, <1>2, <1>3
  <2>2. QED
    BY <1>3, <2>1
<1>5. x \in 1..MaxTape
  BY <1>3, <1>4, ElementOfSeq
<1> HIDE DEF x
<1>6. heard' \in Seq(1..MaxTape) /\ Len(heard') = H + 1 /\ \A i \in 1..(H + 1) : heard'[i] = pushed[i]
  BY <1>1, <1>3, <1>4, <1>5
<1>7. /\ callback' \in [at : {"copying"}, count : Nat, done : Nat]
      /\ callback'.done = d + 1 /\ callback'.count = callback.count /\ callback'.at = "copying"
  <2>1. callback' = [at |-> "copying", count |-> callback.count, done |-> d + 1]
    BY <1>1, <1>2
  <2>2. QED
    BY <1>2, <2>1
<1>8. Published' = Published /\ Read' = d + 1
  BY <1>1, <1>7 DEF Published, Read
<1>9. Reader'
  <2>1. d + 1 <= callback.count
    BY <1>1, <1>2
  <2>2. QED
    BY <1>2, <1>7, <1>8, <2>1 DEF Reader
<1>10. Contents'
  <2>1. (H + 1) - (d + 1) = H - d /\ d + 1 <= H + 1
    BY <1>2, <1>3
  <2> HIDE DEF d, H
  <2>2. QED
    BY <1>1, <1>3, <1>6, <1>8, <2>1 DEF Contents
<1>11. Wheels'
  BY <1>1, <1>6, <1>8 DEF RingInv, Wheels
<1>12. Writer'
  BY <1>1, <1>8 DEF RingInv, Writer, BlockWaits, BlockCopies
<1>13. InOrder'
  BY <1>1 DEF RingInv, InOrder, HandedOver
<1>14. QED
  BY <1>9, <1>10, <1>11, <1>12, <1>13 DEF RingInv

LEMMA PopStoresKeeps ==
    ASSUME RingInv, PopStores
    PROVE  RingInv'
<1> DEFINE p == Published
           c == callback.count
           q == Published - callback.count
           H == Len(heard)
<1>1. /\ callback.at = "copying" /\ callback.done = c /\ readIndex' = Moved(readIndex, c)
      /\ callback' = Resting
      /\ UNCHANGED <<writeIndex, slots, pump, tape, pushed, heard, tooLarge>>
  BY DEF PopStores, Moved
<1>2. /\ c \in Nat /\ c <= p /\ p \in Nat /\ p <= RingCapacity /\ RingCapacity \in Nat \ {0}
      /\ Read = c /\ q \in Nat /\ c + q = p /\ q <= p
  <2>1. c \in Nat /\ c <= p /\ Read = c
    BY <1>1 DEF RingInv, Reader, Resting, Read
  <2>2. QED
    BY <2>1, ReadIsNat
<1>3. readIndex \in Index /\ writeIndex \in Index /\ writeIndex = Moved(readIndex, p)
  BY DEF RingInv, Wheels
<1> HIDE DEF p, q, c
<1>4. readIndex' \in Index /\ writeIndex' = Moved(readIndex', q)
  <2>1. Moved(readIndex, c) \in Index /\ Moved(Moved(readIndex, c), q) = Moved(readIndex, c + q)
    BY <1>2, <1>3, MovedTwice
  <2>2. QED
    BY <1>1, <1>2, <1>3, <2>1
<1>5. Published' = q
  <2>1. Behind(Moved(readIndex', q), readIndex') = q
    BY <1>2, <1>4, BehindIsMoved
  <2>2. QED
    BY <1>4, <2>1 DEF Published
<1>6. ASSUME NEW n \in Nat, c + n <= RingCapacity
      PROVE  Address(readIndex', n) = Address(readIndex, c + n)
  BY <1>1, <1>2, <1>3, <1>6, MovedTwice
<1>7. Reader' /\ Read' = 0
  BY <1>1 DEF Reader, Read, Resting
<1>8. Wheels'
  BY <1>1, <1>2, <1>3, <1>4, <1>5 DEF RingInv, Wheels
<1>9. Contents'
  <2>1. /\ H \in Nat /\ c <= H /\ Len(pushed) = (H - c) + p
        /\ \A i \in 0..(p - 1) : slots[Address(readIndex, i)] = pushed[(H - c) + 1 + i]
        /\ \A i \in 1..H : heard[i] = pushed[i]
    BY <1>2, ReadIsNat DEF RingInv, Contents, p, c
  <2> HIDE DEF H
  <2>2. ASSUME NEW i \in 0..(q - 1) PROVE slots[Address(readIndex', i)] = pushed[H + 1 + i]
    <3>1. i \in Nat /\ c + i <= RingCapacity /\ c + i \in 0..(p - 1) /\ (H - c) + 1 + (c + i) = H + 1 + i
      BY <1>2, <2>1, <2>2
    <3>2. Address(readIndex', i) = Address(readIndex, c + i)
      BY <1>6, <3>1
    <3>3. slots[Address(readIndex, c + i)] = pushed[(H - c) + 1 + (c + i)]
      BY <2>1, <3>1
    <3>4. QED
      BY <3>1, <3>2, <3>3
  <2>3. Len(pushed) = H + q
    BY <1>2, <2>1
  <2>4. H - 0 = H
    BY <2>1
  <2>5. Len(heard') = H /\ 0 <= H
    BY <1>1, <2>1 DEF H
  <2>6. QED
    BY <1>1, <1>5, <1>7, <2>1, <2>2, <2>3, <2>4, <2>5 DEF Contents
<1>10. Writer'
  <2>1. CASE pump = Resting
    BY <1>1, <2>1 DEF Writer
  <2>2. CASE BlockWaits
    <3>1. RingCapacity - q >= RingCapacity \div 2
      BY <1>2, <2>2 DEF BlockWaits, p
    <3>2. QED
      BY <1>1, <1>5, <2>2, <3>1 DEF BlockWaits, Writer
  <2>3. CASE BlockCopies
    <3>1. /\ pump.count \in Nat /\ pump.done \in Nat /\ pump.done <= pump.count
          /\ p + pump.count <= RingCapacity
          /\ \A j \in 0..(pump.done - 1) : slots[Address(readIndex, p + j)] = pump.from + j
      BY <2>3 DEF BlockCopies, p
    <3>2. ASSUME NEW j \in 0..(pump.done - 1) PROVE slots[Address(readIndex', q + j)] = pump.from + j
      <4>1. q + j \in Nat /\ c + (q + j) <= RingCapacity /\ c + (q + j) = p + j
        BY <1>2, <3>1, <3>2
      <4>2. Address(readIndex', q + j) = Address(readIndex, c + (q + j))
        BY <1>6, <4>1
      <4>3. QED
        BY <3>1, <4>1, <4>2
    <3>3. q + pump.count <= RingCapacity
      BY <1>2, <3>1
    <3>4. QED
      BY <1>1, <1>5, <2>3, <3>2, <3>3 DEF BlockCopies, Writer
  <2>4. QED
    BY <2>1, <2>2, <2>3 DEF RingInv, Writer
<1>11. InOrder'
  BY <1>1 DEF RingInv, InOrder, HandedOver
<1>12. QED
  BY <1>7, <1>8, <1>9, <1>10, <1>11 DEF RingInv

-----------------------------------------------------------------------------
(* The ring and the tape together.                                          *)
HearInv == RingInv /\ TapeInv

LEMMA RingStarts == RingInit => HearInv
<1> SUFFICES ASSUME RingInit PROVE HearInv
  OBVIOUS
<1>1. PICK start \in Index : writeIndex = start /\ readIndex = start
  BY DEF RingInit, Index
<1>2. /\ slots = [i \in 0..(RingCapacity - 1) |-> 0] /\ pump = Resting /\ callback = Resting
      /\ position = 0 /\ skipped = 0 /\ emitted = 0 /\ ended = FALSE
      /\ tape = <<>> /\ mark = 1 /\ aim = 0 /\ pushed = <<>> /\ heard = <<>> /\ tooLarge = FALSE
  BY DEF RingInit
<1>3. Published = 0 /\ writeIndex = Moved(readIndex, 0)
  <2>1. Moved(Moved(readIndex, 0), 0) = Moved(readIndex, 0) /\ Behind(Moved(readIndex, 0), readIndex) = 0
    BY <1>1, RingSizes, MovedTwice, BehindIsMoved
  <2>2. Moved(readIndex, 0) = readIndex
    BY <1>1, RingSizes DEF Moved, Wrapping, Index
  <2>3. QED
    BY <1>1, <2>1, <2>2 DEF Published
<1>4. Wheels
  <2>1. slots \in [0..(RingCapacity - 1) -> 0..MaxTape]
    BY <1>2, TrimSizes
  <2>2. Published \in Nat /\ Published <= RingCapacity
    BY <1>3, RingSizes
  <2>3. Len(tape) <= MaxTape /\ tape \in Seq(0..(StreamFrames - 1)) /\ pushed \in Seq(1..MaxTape) /\ heard \in Seq(1..MaxTape)
    BY <1>2, TrimSizes
  <2>4. tooLarge \in BOOLEAN
    BY <1>2
  <2>5. writeIndex \in Index /\ readIndex \in Index
    BY <1>1
  <2>6. QED
    BY <1>3, <2>1, <2>2, <2>3, <2>4, <2>5 DEF Wheels
<1>5. Reader /\ Writer /\ InOrder
  <2>1. Reader /\ Writer
    BY <1>2, Zenon DEF Reader, Writer
  <2>2. HandedOver = 0 /\ Len(pushed) = 0
    BY <1>2 DEF HandedOver, Resting
  <2>3. InOrder
    BY <1>2, <2>2 DEF InOrder
  <2>4. QED
    BY <2>1, <2>3
<1>6. Contents
  BY <1>2, <1>3 DEF Contents, Read, Resting
<1>7. TapeInv
  <2>1. Len(tape) = 0 /\ Min2(TrimStart, 0) = 0 /\ Minus(0, TrimStart) = 0
    BY <1>2, TrimSizes DEF Min2, Minus
  <2>2. Slip = 0 /\ Slip \in 0..Millisecond /\ FramesCounted = 0 /\ PushedSince = 0
    BY <1>2, <2>1, SlipIs DEF FramesCounted, PushedSince
  <2>3. Trimmer
    <3>1. aim \in 0..StreamFrames /\ position \in aim..StreamFrames
          /\ skipped = Min2(TrimStart, FramesCounted) /\ emitted \in Nat
      BY <1>2, <2>1, <2>2, TrimSizes
    <3>2. emitted = Minus(FramesCounted, TrimStart) /\ emitted <= emitted
      BY <1>2, <2>1, <2>2
    <3>3. ended \in BOOLEAN
      BY <1>2
    <3>4. mark \in 1..(Len(tape) + 1)
      BY <1>2, <2>1
    <3>5. QED
      BY <3>1, <3>2, <3>3, <3>4, Zenon DEF Trimmer
  <2>4. TrimIsExact
    <3>1. mark..Len(tape) = {}
      BY <1>2, <2>1
    <3>2. QED
      BY <1>2, <2>2, <3>1 DEF TrimIsExact
  <2>5. FirstFrame = TrimStart
    BY <1>2, <2>2, TrimSizes DEF FirstFrame
  <2>6. QED
    BY <1>2, <2>2, <2>3, <2>4, <2>5, TrimSizes DEF TapeInv, Taped
<1>8. QED
  BY <1>4, <1>5, <1>6, <1>7 DEF HearInv, RingInv

LEMMA RingSteps == HearInv /\ [RingNext]_ringVars => HearInv'
<1> SUFFICES ASSUME HearInv, [RingNext]_ringVars PROVE HearInv'
  OBVIOUS
<1>1. RingInv /\ TapeInv /\ StreamIsFinite
  BY DEF HearInv, RingInv, Wheels, StreamIsFinite
<1>2. CASE \E frames \in 1..MaxBlock : Decode(frames)
  BY <1>1, <1>2, DecodeTapes, DecodeKeepsRing DEF HearInv
<1>3. CASE EndOfTrack
  BY <1>1, <1>3, EndTapes, RestKeepsRing DEF HearInv, EndOfTrack, RingStays
<1>4. CASE \E frame \in 0..StreamFrames : Seek(frame)
  BY <1>1, <1>4, SeekTapes, RestKeepsRing DEF HearInv, Seek, RingStays
<1>5. ASSUME UNCHANGED <<position, skipped, emitted, ended, tape, mark, aim>>
      PROVE  TapeInv'
  BY <1>1, <1>5, RestTapes
<1>6. CASE PushLoads
  BY <1>1, <1>5, <1>6, PushLoadsKeeps DEF HearInv, PushLoads, trimVars
<1>7. CASE PushWrites
  BY <1>1, <1>5, <1>7, PushWritesKeeps DEF HearInv, PushWrites, trimVars
<1>8. CASE PushStores
  BY <1>1, <1>5, <1>8, PushStoresKeeps DEF HearInv, PushStores, trimVars
<1>9. CASE \E amount \in 1..MaxCallback : PopLoads(amount)
  BY <1>1, <1>5, <1>9, PopLoadsKeeps DEF HearInv, PopLoads, trimVars
<1>10. CASE PopReads
  BY <1>1, <1>5, <1>10, PopReadsKeeps DEF HearInv, PopReads, trimVars
<1>11. CASE PopStores
  BY <1>1, <1>5, <1>11, PopStoresKeeps DEF HearInv, PopStores, trimVars
<1>12. CASE UNCHANGED ringVars
  BY <1>1, <1>5, <1>12, RestKeepsRing DEF HearInv, ringVars, trimVars, RingStays
<1>13. QED
  BY <1>2, <1>3, <1>4, <1>6, <1>7, <1>8, <1>9, <1>10, <1>11, <1>12 DEF RingNext

LEMMA RingIsTyped == HearInv => RingTypeOK
<1> SUFFICES ASSUME HearInv PROVE RingTypeOK
  OBVIOUS
<1>1. Wheels /\ Reader /\ Writer /\ Trimmer
  BY DEF HearInv, RingInv, TapeInv
<1>2. pump.at \in {"rest", "block", "copying"} /\ callback.at \in {"rest", "copying"}
  BY <1>1 DEF Reader, Writer, Resting, BlockWaits, BlockCopies
<1>3. position \in 0..StreamFrames /\ skipped \in 0..TrimStart /\ emitted \in 0..StreamFrames
  <2>1. /\ aim \in Nat /\ position \in aim..StreamFrames /\ StreamFrames \in Nat /\ TrimStart \in Nat
        /\ Slip \in Nat /\ Slip <= aim
    BY <1>1, TrimSizes, SlipIs DEF Trimmer
  <2>2. FramesCounted \in 0..StreamFrames
    BY <2>1 DEF FramesCounted
  <2>3. skipped = Min2(TrimStart, FramesCounted) /\ emitted \in Nat /\ emitted <= Minus(FramesCounted, TrimStart)
    BY <1>1 DEF Trimmer
  <2> HIDE DEF FramesCounted
  <2>4. skipped \in 0..TrimStart /\ emitted \in 0..StreamFrames
    BY <2>1, <2>2, <2>3 DEF Min2, Minus
  <2>5. QED
    BY <2>1, <2>4
<1>4. mark \in 1..(MaxTape + 1) /\ aim \in 0..StreamFrames
  BY <1>1, TrimSizes DEF Wheels, Trimmer
<1>5. ended \in BOOLEAN
  BY <1>1 DEF Trimmer
<1>6. QED
  BY <1>1, <1>2, <1>3, <1>4, <1>5 DEF RingTypeOK, Wheels, Index

THEOREM RingKeepsItsTypes == RingSpec => []RingTypeOK
<1>1. QED
  BY RingStarts, RingSteps, RingIsTyped, PTL DEF RingSpec

(* No slot is torn, the device hears what was pushed, in order and once,    *)
(* and what is pushed from the start or from a seek on is the real audio    *)
(* of the stream, shifted by the less than a millisecond of frames that the *)
(* seek lost on its way through milliseconds (Pump::seek, frames_to_millis, *)
(* millis_to_frames), at any rate of at least a frame a millisecond.        *)
THEOREM TheDeviceHearsInOrder == RingSpec => []HeardInOrder
<1>1. HearInv => HeardInOrder
  BY RingIsSafe DEF HearInv, TapeInv, Taped, HeardInOrder
<1>2. QED
  BY <1>1, RingStarts, RingSteps, PTL DEF RingSpec

(* What is stored goes into the channel, if anything is: it fits, also when *)
(* a part of what lies in the ring was read already, and follows the last.  *)
LEMMA PushStoresSends ==
    ASSUME RingInv, PushStores
    PROVE  [Channel!Next]_Channel!vars
<1> DEFINE from == pump.from
           c == pump.count
<1>1. /\ pump.at = "copying" /\ pushed' = pushed \o [i \in 1..c |-> from + i - 1] /\ heard' = heard
  BY DEF PushStores
<1>2. BlockCopies
  BY <1>1 DEF RingInv, Writer, BlockWaits, Resting
<1>3. /\ from \in Nat /\ c \in Nat /\ from >= 1 /\ from + c - 1 <= Len(tape)
      /\ Published + c <= RingCapacity
  BY <1>1, <1>2 DEF BlockCopies
<1>4. /\ Len(tape) \in Nat /\ Len(tape) <= MaxTape /\ MaxTape \in Nat /\ Published \in Nat
      /\ RingCapacity \in Nat /\ Len(heard) \in Nat /\ Read \in Nat /\ Len(pushed) \in Nat
      /\ Len(pushed) = (Len(heard) - Read) + Published
  BY ReadIsNat, TrimSizes, RingSizes DEF RingInv, Wheels, Contents
<1>5. pushed # <<>> => pushed[Len(pushed)] < from
  <2>1. pushed # <<>> => pushed[Len(pushed)] <= from - 1 /\ pushed[Len(pushed)] \in Nat
    <3>1. pushed # <<>> => pushed[Len(pushed)] \in 1..MaxTape
      BY <1>4 DEF RingInv, Wheels
    <3>2. QED
      BY <1>1, <1>4, <3>1 DEF RingInv, InOrder, HandedOver
  <2> HIDE DEF from
  <2>2. QED
    BY <1>3, <2>1
<1>6. Len(pushed) + c <= Len(heard) + RingCapacity /\ c \in 0..RingCapacity
  <2> HIDE DEF c
  <2>1. QED
    BY <1>3, <1>4
<1>7. CASE c = 0
  <2>1. [i \in 1..c |-> from + i - 1] = <<>>
    BY <1>7
  <2>2. pushed \in Seq(1..MaxTape)
    BY DEF RingInv, Wheels
  <2>3. pushed' = pushed \o <<>>
    BY <1>1, <2>1, Zenon
  <2>4. pushed \o <<>> = pushed
    BY <2>2, ConcatEmptySeq
  <2>5. QED
    BY <1>1, <2>3, <2>4 DEF Channel!vars
<1>8. CASE c # 0
  <2>1. from \in 1..MaxTape
    <3> HIDE DEF from, c
    <3>1. QED
      BY <1>3, <1>4, <1>8
  <2>2. Channel!Send(from, c)
    BY <1>1, <1>5, <1>6 DEF Channel!Send
  <2> HIDE DEF from, c
  <2>3. QED
    BY <1>6, <2>1, <2>2 DEF Channel!Next
<1>9. QED
  BY <1>7, <1>8

(* The slot that is read holds the next of what was sent.                   *)
LEMMA PopReadsReceives ==
    ASSUME RingInv, PopReads
    PROVE  Channel!Next
<1> DEFINE d == callback.done
           H == Len(heard)
           x == slots[Address(readIndex, d)]
<1>1. /\ callback.at = "copying" /\ d < callback.count /\ heard' = Append(heard, x) /\ pushed' = pushed
  BY DEF PopReads, Address
<1>2. /\ d \in Nat /\ callback.count \in Nat /\ callback.count <= Published /\ Published \in Nat /\ Read = d
  BY <1>1, ReadIsNat DEF RingInv, Reader, Resting, Read
<1>3. /\ H \in Nat /\ d <= H /\ Len(pushed) = (H - d) + Published /\ Len(pushed) \in Nat
      /\ \A i \in 0..(Published - 1) : slots[Address(readIndex, i)] = pushed[(H - d) + 1 + i]
  BY <1>2, ReadIsNat DEF RingInv, Contents, Wheels
<1>4. x = pushed[H + 1] /\ H < Len(pushed)
  <2>1. d \in 0..(Published - 1) /\ (H - d) + 1 + d = H + 1 /\ H < Len(pushed)
    BY <1>1, <1>2, <1>3
  <2>2. QED
    BY <1>3, <2>1
<1> HIDE DEF x
<1>5. Channel!Receive
  BY <1>1, <1>4 DEF Channel!Receive
<1>6. QED
  BY <1>5 DEF Channel!Next

(* The two threads, the indices that wrap and the slots they share together *)
(* implement a channel of the ring's capacity: what comes out is what went  *)
(* in, in order and once, and no more is on its way than there is room for. *)
THEOREM RingImplementsAChannel == RingSpec => IsAChannel
<1>1. RingInit => Channel!Init
  BY DEF RingInit, Channel!Init
<1>2. ASSUME RingInv, [RingNext]_ringVars PROVE [Channel!Next]_Channel!vars
  <2>1. CASE PushStores
    BY <1>2, <2>1, PushStoresSends
  <2>2. CASE PopReads
    BY <1>2, <2>2, PopReadsReceives
  <2>3. CASE UNCHANGED <<pushed, heard>>
    BY <2>3 DEF Channel!vars
  <2>4. CASE UNCHANGED ringVars
    BY <2>3, <2>4 DEF ringVars
  <2>5. ASSUME \/ \E frames \in 1..MaxBlock : Decode(frames)
               \/ EndOfTrack \/ \E frame \in 0..StreamFrames : Seek(frame)
               \/ PushLoads \/ PushWrites \/ \E wanted \in 1..MaxCallback : PopLoads(wanted)
               \/ PopStores
        PROVE  UNCHANGED <<pushed, heard>>
    BY <2>5 DEF Decode, EndOfTrack, Seek, PushLoads, PushWrites, PopLoads, PopStores
  <2>6. QED
    BY <1>2, <2>1, <2>2, <2>3, <2>4, <2>5 DEF RingNext
<1>3. HearInv => RingInv
  BY DEF HearInv
<1>4. QED
  BY <1>1, <1>2, <1>3, RingStarts, RingSteps, PTL DEF RingSpec, IsAChannel, Channel!Spec

-----------------------------------------------------------------------------
(* Plans of decoders.                                                       *)

Steps(X) == [op : {"open", "play", "pause", "close"}, id : X]

LEMMA TransitionedIs ==
    ASSUME NEW X, NEW set \in SUBSET X, NEW step \in Steps(X)
    PROVE  /\ Transitioned(set, step) \in SUBSET X
           /\ step.op = "open" => Transitioned(set, step) = set \cup {step.id}
           /\ step.op = "close" => Transitioned(set, step) = set \ {step.id}
           /\ step.op \in {"play", "pause"} => Transitioned(set, step) = set
<1>1. step.id \in X /\ step.op \in {"open", "play", "pause", "close"}
  BY DEF Steps
<1>2. CASE step.op = "open"
  <2>1. Transitioned(set, step) = set \cup {step.id}
    BY <1>2 DEF Transitioned
  <2>2. QED
    BY <1>1, <1>2, <2>1
<1>3. CASE step.op = "close"
  <2>1. Transitioned(set, step) = set \ {step.id}
    BY <1>3 DEF Transitioned
  <2>2. QED
    BY <1>1, <1>3, <2>1
<1>4. CASE step.op \in {"play", "pause"}
  <2>1. Transitioned(set, step) = set
    BY <1>4 DEF Transitioned
  <2>2. QED
    BY <1>1, <1>4, <2>1
<1>5. QED
  BY <1>1, <1>2, <1>3, <1>4

(* after: the decoders after each of the transitions.                       *)
After(after, decoders, steps) ==
    /\ after[0] = decoders
    /\ \A k \in 1..Len(steps) : after[k] = Transitioned(after[k - 1], steps[k])

LEMMA PlanSteps ==
    ASSUME NEW X, NEW decoders \in SUBSET X, NEW steps \in Seq(Steps(X))
    PROVE  \E after : /\ After(after, decoders, steps)
                      /\ \A n \in 0..Len(steps) : Applying(decoders, steps, n) = after[n]
<1> DEFINE N == Len(steps)
           next == [n \in 1..N |-> [acc \in SUBSET X |-> Transitioned(acc, steps[n])]]
           Is(f) == f = [k \in 0..N |-> IF k = 0 THEN decoders ELSE Transitioned(f[k - 1], steps[k])]
           after == CHOOSE f : Is(f)
<1>1. N \in Nat /\ \A n \in 1..N : steps[n] \in Steps(X)
  BY ElementOfSeq
<1>2. next \in [1..N -> [SUBSET X -> SUBSET X]]
  <2>1. \A n \in 1..N : \A acc \in SUBSET X : Transitioned(acc, steps[n]) \in SUBSET X
    BY <1>1, TransitionedIs
  <2>2. QED
    BY <2>1
<1>3. \A n \in 1..N : \A acc \in SUBSET X : next[n][acc] = Transitioned(acc, steps[n])
  OBVIOUS
<1> HIDE DEF next
<1>4. PICK f : Takes(f, SUBSET X, N, decoders, next)
  BY <1>1, <1>2, StepsCanBeTaken
<1>5. Is(f)
  <2>1. /\ f \in [0..N -> SUBSET X] /\ f[0] = decoders
        /\ \A n \in 1..N : f[n] = next[n][f[n - 1]]
    BY <1>4 DEF Takes
  <2>2. ASSUME NEW k \in 0..N
        PROVE  f[k] = IF k = 0 THEN decoders ELSE Transitioned(f[k - 1], steps[k])
    <3>1. CASE k = 0
      BY <2>1, <3>1
    <3>2. CASE k # 0
      <4>1. k \in 1..N /\ k - 1 \in 0..N
        BY <1>1, <3>2
      <4>2. f[k - 1] \in SUBSET X
        BY <2>1, <4>1
      <4>3. QED
        BY <1>3, <2>1, <3>2, <4>1, <4>2
    <3>3. QED
      BY <3>1, <3>2
  <2>3. f = [k \in 0..N |-> f[k]]
    BY <2>1
  <2>4. QED
    BY <2>2, <2>3
<1> HIDE DEF Is
<1>6. Is(after)
  BY <1>5, Zenon
<1>7. After(after, decoders, steps)
  <2>1. after = [k \in 0..N |-> IF k = 0 THEN decoders ELSE Transitioned(after[k - 1], steps[k])]
    BY <1>6 DEF Is
  <2> HIDE DEF after
  <2>2. \A k \in 0..N : after[k] = IF k = 0 THEN decoders ELSE Transitioned(after[k - 1], steps[k])
    BY <2>1
  <2>3. 0 \in 0..N /\ \A k \in 1..N : k \in 0..N /\ k # 0
    BY <1>1
  <2>4. QED
    BY <2>2, <2>3 DEF After
<1>8. \A n \in 0..N : Applying(decoders, steps, n) = after[n]
  BY Zenon DEF Applying, after, Is
<1> HIDE DEF after
<1>9. QED
  BY <1>7, <1>8

(* What a plan may do, and what it leads to.                                *)
LeadsTo(decoders, steps, limit, result) ==
    /\ StaysWithin(decoders, steps, limit)
    /\ Applying(decoders, steps, Len(steps)) = result

LEMMA NoSteps ==
    ASSUME NEW X, NEW decoders \in SUBSET X, NEW limit \in Nat, Cardinality(decoders) <= limit
    PROVE  LeadsTo(decoders, <<>>, limit, decoders)
<1>1. <<>> \in Seq(Steps(X)) /\ Len(<<>>) = 0
  OBVIOUS
<1>2. PICK after : /\ After(after, decoders, <<>>)
                   /\ \A n \in 0..Len(<<>>) : Applying(decoders, <<>>, n) = after[n]
  BY <1>1, PlanSteps
<1>3. \A n \in 0..0 : Applying(decoders, <<>>, n) = decoders
  BY <1>1, <1>2 DEF After
<1>4. QED
  BY <1>1, <1>3 DEF LeadsTo, StaysWithin

LEMMA OneStepMore ==
    ASSUME NEW X, NEW decoders \in SUBSET X, NEW steps \in Seq(Steps(X)), NEW limit \in Nat,
           NEW result, LeadsTo(decoders, steps, limit, result),
           NEW step \in Steps(X), Cardinality(Transitioned(result, step)) <= limit
    PROVE  LeadsTo(decoders, Append(steps, step), limit, Transitioned(result, step))
<1> DEFINE N == Len(steps)
           more == Append(steps, step)
<1>1. /\ more \in Seq(Steps(X)) /\ Len(more) = N + 1 /\ N \in Nat /\ more[N + 1] = step
      /\ \A k \in 1..N : more[k] = steps[k]
  OBVIOUS
<1> HIDE DEF more
<1>2. PICK a : After(a, decoders, steps) /\ \A n \in 0..N : Applying(decoders, steps, n) = a[n]
  BY PlanSteps
<1>3. PICK b : After(b, decoders, more) /\ \A n \in 0..Len(more) : Applying(decoders, more, n) = b[n]
  BY <1>1, PlanSteps
<1> DEFINE Good == {n \in 0..N : b[n] = a[n]}
<1>4. 0 \in Good
  BY <1>1, <1>2, <1>3 DEF After
<1>5. ASSUME NEW n \in 0..N, n + 1 \in 0..N, n \in Good PROVE n + 1 \in Good
  <2>1. n + 1 \in 1..N /\ n + 1 \in 1..(N + 1) /\ (n + 1) - 1 = n
    BY <1>1, <1>5
  <2>2. a[n + 1] = Transitioned(a[n], steps[n + 1])
    BY <1>2, <2>1 DEF After
  <2>3. b[n + 1] = Transitioned(b[n], more[n + 1])
    BY <1>1, <1>3, <2>1 DEF After
  <2>4. QED
    BY <1>1, <1>5, <2>1, <2>2, <2>3
<1>6. \A n \in 0..N : b[n] = a[n]
  <2> HIDE DEF Good
  <2>1. 0..N \subseteq Good
    BY <1>1, <1>4, <1>5, StepByStep
  <2>2. QED
    BY <2>1 DEF Good
<1>7. N \in 0..N /\ N + 1 \in 1..(N + 1) /\ (N + 1) - 1 = N /\ N + 1 \in 0..(N + 1)
  BY <1>1
<1>8. b[N + 1] = Transitioned(result, step)
  BY <1>1, <1>2, <1>3, <1>6, <1>7 DEF After, LeadsTo
<1>9. \A n \in 0..(N + 1) : Cardinality(b[n]) <= limit
  <2>1. ASSUME NEW n \in 0..(N + 1) PROVE Cardinality(b[n]) <= limit
    <3>1. CASE n = N + 1
      BY <1>8, <3>1
    <3>2. CASE n # N + 1
      <4>1. n \in 0..N
        BY <1>1, <3>2
      <4>2. QED
        BY <1>2, <1>6, <4>1 DEF LeadsTo, StaysWithin
    <3>3. QED
      BY <3>1, <3>2
  <2>2. QED
    BY <2>1
<1>10. QED
  BY <1>1, <1>3, <1>7, <1>8, <1>9 DEF LeadsTo, StaysWithin, more

(* A plan that closes one after another.                                    *)
Closing(ids, n) == [i \in 1..n |-> [op |-> "close", id |-> ids[i]]]

LEMMA ClosingMore ==
    ASSUME NEW X, NEW ids \in Seq(X), NEW n \in Nat, n + 1 \in 1..Len(ids)
    PROVE  /\ Closing(ids, n) \in Seq(Steps(X)) /\ [op |-> "close", id |-> ids[n + 1]] \in Steps(X)
           /\ Closing(ids, n + 1) = Append(Closing(ids, n), [op |-> "close", id |-> ids[n + 1]])
<1> DEFINE close(i) == [op |-> "close", id |-> ids[i]]
           less == [i \in 1..n |-> close(i)]
           more == [i \in 1..(n + 1) |-> close(i)]
<1>1. \A i \in 1..(n + 1) : close(i) \in Steps(X)
  <2>1. \A i \in 1..(n + 1) : ids[i] \in X
    OBVIOUS
  <2>2. QED
    BY <2>1 DEF Steps
<1>2. less \in Seq(Steps(X)) /\ Len(less) = n /\ \A i \in 1..n : less[i] = close(i)
  BY <1>1
<1>3. more \in Seq(Steps(X)) /\ Len(more) = n + 1 /\ \A i \in 1..(n + 1) : more[i] = close(i)
  BY <1>1
<1>4. close(n + 1) \in Steps(X)
  BY <1>1
<1> HIDE DEF close
<1>5. more = Append(less, close(n + 1))
  <2> HIDE DEF less, more
  <2> DEFINE t == Append(less, close(n + 1))
  <2>1. t \in Seq(Steps(X)) /\ Len(t) = n + 1 /\ t[n + 1] = close(n + 1) /\ \A i \in 1..n : t[i] = close(i)
    BY <1>2, <1>4
  <2> HIDE DEF t
  <2>2. \A i \in 1..(n + 1) : t[i] = more[i]
    BY <1>3, <2>1
  <2>3. t = more
    BY <1>3, <2>1, <2>2, SeqEqual
  <2>4. QED
    BY <2>3 DEF t
<1>6. QED
  BY <1>2, <1>4, <1>5 DEF Closing, close

LEMMA ClosingLeads ==
    ASSUME NEW X, NEW decoders \in SUBSET X, IsFiniteSet(decoders), NEW limit \in Nat,
           Cardinality(decoders) <= limit, NEW ids \in Seq(X)
    PROVE  /\ Closing(ids, Len(ids)) \in Seq(Steps(X))
           /\ LeadsTo(decoders, Closing(ids, Len(ids)), limit, decoders \ Range(ids))
<1> DEFINE N == Len(ids)
           Left(n) == decoders \ {ids[i] : i \in 1..n}
           Good == {n \in 0..N : /\ Closing(ids, n) \in Seq(Steps(X))
                                 /\ LeadsTo(decoders, Closing(ids, n), limit, Left(n))}
<1>1. N \in Nat /\ \A i \in 1..N : ids[i] \in X
  BY ElementOfSeq
<1>2. 0 \in Good
  <2>1. Closing(ids, 0) = <<>> /\ Left(0) = decoders /\ <<>> \in Seq(Steps(X))
    BY DEF Closing
  <2>2. LeadsTo(decoders, <<>>, limit, decoders)
    BY NoSteps
  <2> HIDE DEF Left
  <2>3. LeadsTo(decoders, Closing(ids, 0), limit, Left(0))
    BY <2>1, <2>2, Zenon
  <2>4. 0 \in 0..N
    BY <1>1
  <2>5. Closing(ids, 0) \in Seq(Steps(X))
    BY <2>1, Zenon
  <2>6. QED
    BY <2>3, <2>4, <2>5
<1>3. ASSUME NEW n \in 0..N, n + 1 \in 0..N, n \in Good PROVE n + 1 \in Good
  <2> DEFINE step == [op |-> "close", id |-> ids[n + 1]]
  <2>1. n \in Nat /\ n + 1 \in 1..N
    BY <1>1, <1>3
  <2>2. /\ Closing(ids, n) \in Seq(Steps(X)) /\ step \in Steps(X)
        /\ Closing(ids, n + 1) = Append(Closing(ids, n), step)
    BY <2>1, ClosingMore
  <2>3. LeadsTo(decoders, Closing(ids, n), limit, Left(n)) /\ Left(n) \in SUBSET X
    BY <1>3
  <2>4. step.op = "close" /\ step.id = ids[n + 1]
    OBVIOUS
  <2> HIDE DEF step
  <2>5. Transitioned(Left(n), step) = Left(n) \ {ids[n + 1]}
    <3>1. step \in Steps(X) /\ Left(n) \in SUBSET X
      BY <2>2, <2>3
    <3> HIDE DEF Left
    <3>2. QED
      BY <3>1, <2>4, TransitionedIs
  <2>6. Left(n) \ {ids[n + 1]} = Left(n + 1)
    BY <1>1, <2>1
  <2>7. Left(n + 1) \in SUBSET decoders
    OBVIOUS
  <2> HIDE DEF Left
  <2>8. Cardinality(Left(n + 1)) <= limit
    <3>1. Cardinality(Left(n + 1)) <= Cardinality(decoders) /\ IsFiniteSet(Left(n + 1))
      BY <2>7, FS_Subset
    <3>2. Cardinality(Left(n + 1)) \in Nat /\ Cardinality(decoders) \in Nat
      BY <3>1, FS_CardinalityType
    <3>3. QED
      BY <3>1, <3>2
  <2>9. LeadsTo(decoders, Append(Closing(ids, n), step), limit, Left(n + 1))
    <3>1. Cardinality(Transitioned(Left(n), step)) <= limit
      BY <2>5, <2>6, <2>8
    <3>2. LeadsTo(decoders, Append(Closing(ids, n), step), limit, Transitioned(Left(n), step))
      BY <2>2, <2>3, <3>1, OneStepMore
    <3>3. QED
      BY <2>5, <2>6, <3>2
  <2>10. Append(Closing(ids, n), step) \in Seq(Steps(X))
    BY <2>2
  <2>11. QED
    BY <1>3, <2>2, <2>9, <2>10
<1>4. N \in Good
  <2> HIDE DEF Good
  <2>1. 0..N \subseteq Good
    BY <1>1, <1>2, <1>3, StepByStep
  <2>2. QED
    BY <1>1, <2>1
<1>5. Left(N) = decoders \ Range(ids)
  <2>1. Range(ids) = {ids[i] : i \in 1..N}
    BY DEF Range
  <2>2. QED
    BY <2>1
<1>6. QED
  BY <1>4, <1>5

-----------------------------------------------------------------------------
(* The scheduler of tracks.                                                 *)

TracksInv ==
    /\ TracksTypeOK /\ TrackPoolHolds
    /\ IsFiniteSet(LiveTracks(tracks)) /\ Cardinality(LiveTracks(tracks)) <= 2

(* Any order of the members of a set closes all of it.                      *)
LEMMA AnyOrder ==
    ASSUME NEW X, NEW S \in SUBSET X, IsFiniteSet(S), NEW closes \in SetToSeqs(S)
    PROVE  closes \in Seq(X) /\ Range(closes) = S /\ DOMAIN closes = 1..Len(closes)
<1> DEFINE n == Cardinality(S)
           D == 1..n
<1>1. n \in Nat
  BY FS_CardinalityType
<1>2. closes \in [D -> S] /\ \A i, j \in D : i # j => closes[i] # closes[j]
  BY DEF SetToSeqs
<1>3. IsFiniteSet(D) /\ Cardinality(D) = n
  <2>1. 1 \in Int /\ n \in Int
    BY <1>1
  <2>2. IsFiniteSet(1..n) /\ Cardinality(1..n) = IF 1 > n THEN 0 ELSE n - 1 + 1
    BY <2>1, FS_Interval
  <2>3. (IF 1 > n THEN 0 ELSE n - 1 + 1) = n
    BY <1>1
  <2>4. QED
    BY <2>2, <2>3
<1> HIDE DEF n
<1>4. closes \in Injection(D, S)
  BY <1>2 DEF Injection, IsInjective
<1>5. closes \in Surjection(D, S)
  <2>1. Cardinality(D) = Cardinality(S)
    BY <1>3 DEF n
  <2>2. IsFiniteSet(S)
    OBVIOUS
  <2> HIDE DEF D
  <2>3. Cardinality(D) = Cardinality(S) <=> closes \in Surjection(D, S)
    BY <1>4, <2>2, FS_Injection
  <2>4. QED
    BY <2>1, <2>3
<1>6. \A x \in S : \E i \in D : closes[i] = x
  BY <1>5 DEF Surjection
<1>7. closes \in Seq(X) /\ Len(closes) = n
  BY <1>1, <1>2
<1>8. QED
  BY <1>2, <1>6, <1>7 DEF Range

LEMMA AtMostTwo ==
    ASSUME NEW a, NEW b, NEW S \in SUBSET {a, b}
    PROVE  IsFiniteSet(S) /\ Cardinality(S) <= 2
<1>1. IsFiniteSet({a}) /\ Cardinality({a}) = 1
  BY FS_Singleton
<1>2. {a} \cup {b} = {a, b}
  OBVIOUS
<1>3. IsFiniteSet({a, b}) /\ Cardinality({a, b}) <= 2
  BY <1>1, <1>2, FS_AddElement
<1>4. IsFiniteSet(S) /\ Cardinality(S) <= Cardinality({a, b})
  BY <1>3, FS_Subset
<1>5. Cardinality(S) \in Nat /\ Cardinality({a, b}) \in Nat
  BY <1>3, <1>4, FS_CardinalityType
<1>6. QED
  BY <1>3, <1>4, <1>5

LEMMA TracksStart == TracksInit => TracksInv
<1> SUFFICES ASSUME TracksInit PROVE TracksInv
  OBVIOUS
<1>1. tracks = [t \in Tracks |-> "closed"] /\ onNow = NoTrack /\ cued = {} /\ cues = <<>> /\ kept = FALSE
  BY DEF TracksInit
<1>2. LiveTracks(tracks) = {}
  BY <1>1 DEF LiveTracks
<1>3. IsFiniteSet({}) /\ Cardinality({}) = 0
  BY FS_EmptySet
<1>4. LeadsTo({}, <<>>, 2, {})
  <2>1. {} \in SUBSET Tracks /\ 2 \in Nat /\ Cardinality({}) <= 2
    BY <1>3
  <2>2. QED
    BY <2>1, NoSteps
<1>5. StaysWithin(cued, cues, MaxLiveTracks) /\ Applying(cued, cues, Len(cues)) = LiveTracks(tracks)
  BY <1>1, <1>2, <1>4, Zenon DEF LeadsTo, MaxLiveTracks
<1>6. \A t \in Tracks : tracks[t] # "playing"
  BY <1>1
<1>7. TrackPoolHolds
  BY <1>1, <1>5, <1>6 DEF TrackPoolHolds
<1>8. TracksTypeOK
  <2>1. cues \in Seq(Cue) /\ cued \subseteq Tracks /\ onNow \in Tracks \cup {NoTrack}
    BY <1>1
  <2>2. tracks \in [Tracks -> {"playing", "preloaded", "closed"}]
    BY <1>1
  <2>3. kept \in BOOLEAN
    BY <1>1
  <2>4. QED
    BY <2>1, <2>2, <2>3 DEF TracksTypeOK
<1>9. Cardinality(LiveTracks(tracks)) <= 2
  BY <1>2, <1>3
<1>10. QED
  BY <1>2, <1>3, <1>7, <1>8, <1>9 DEF TracksInv

LEMMA CloseTracksHolds == ASSUME TracksInv, CloseTracks PROVE TracksInv'
<1> DEFINE live == LiveTracks(tracks)
<1>1. PICK closes \in SetToSeqs(live) : cues' = [i \in DOMAIN closes |-> [op |-> "close", id |-> closes[i]]]
  BY DEF CloseTracks
<1>2. tracks' = [t \in Tracks |-> "closed"] /\ onNow' = NoTrack /\ cued' = live /\ kept' = kept
  BY DEF CloseTracks
<1>3. live \in SUBSET Tracks /\ IsFiniteSet(live) /\ Cardinality(live) <= 2 /\ kept \in BOOLEAN
  BY DEF TracksInv, LiveTracks, TracksTypeOK
<1> HIDE DEF live
<1>4. closes \in Seq(Tracks) /\ Range(closes) = live /\ DOMAIN closes = 1..Len(closes)
  BY <1>3, AnyOrder
<1>5. cues' = Closing(closes, Len(closes))
  BY <1>1, <1>4 DEF Closing
<1>6. LeadsTo(live, cues', 2, {})
  <2>1. LeadsTo(live, Closing(closes, Len(closes)), 2, live \ Range(closes))
    BY <1>3, <1>4, ClosingLeads
  <2>2. QED
    BY <1>4, <1>5, <2>1
<1>7. LiveTracks(tracks') = {} /\ \A t \in Tracks : tracks'[t] # "playing"
  BY <1>2 DEF LiveTracks
<1>8. IsFiniteSet({}) /\ Cardinality({}) = 0
  BY FS_EmptySet
<1>9. TrackPoolHolds'
  BY <1>2, <1>6, <1>7 DEF TrackPoolHolds, LeadsTo, MaxLiveTracks
<1>10. cues' \in Seq(Cue)
  <2>1. \A i \in 1..Len(closes) : [op |-> "close", id |-> closes[i]] \in Cue
    BY <1>4 DEF Cue
  <2>2. QED
    BY <1>4, <1>5, <2>1 DEF Closing
<1>11. TracksTypeOK'
  BY <1>2, <1>3, <1>10 DEF TracksTypeOK
<1>12. QED
  BY <1>7, <1>8, <1>9, <1>11 DEF TracksInv

LEMMA ReconcileTracksHolds ==
    ASSUME TracksInv, NEW current \in Tracks \cup {NoTrack}, NEW next \in Tracks \cup {NoTrack},
           NEW near \in BOOLEAN, ReconcileTracks(current, next, near)
    PROVE  TracksInv'
<1> DEFINE preload == Preload(next, near)
           live == LiveTracks(tracks)
           gone == {t \in live : t # current /\ t # preload}
           left == [t \in Tracks |-> IF t \in gone THEN "closed" ELSE tracks[t]]
           played == [t \in Tracks |-> IF t = current THEN "playing" ELSE left[t]]
           preloads == /\ preload # NoTrack /\ played[preload] = "closed"
                       /\ Cardinality(LiveTracks(played)) < MaxLiveTracks
           open(t) == [op |-> "open", id |-> t]
           play(t) == [op |-> "play", id |-> t]
<1>1. /\ tracks \in [Tracks -> {"playing", "preloaded", "closed"}] /\ kept \in BOOLEAN
      /\ live \in SUBSET Tracks /\ IsFiniteSet(live) /\ Cardinality(live) <= 2 /\ preload \in Tracks \cup {NoTrack}
  BY DEF TracksInv, TracksTypeOK, LiveTracks, Preload
<1>2. /\ tracks' = IF preloads THEN [played EXCEPT ![preload] = "preloaded"] ELSE played
      /\ onNow' = current /\ cued' = live
      /\ kept' = (kept \/ \E t \in Tracks : tracks[t] = "playing" /\ t = preload /\ t # current)
  BY DEF ReconcileTracks
<1>3. PICK closes \in SetToSeqs(gone) :
         cues' = [i \in DOMAIN closes |-> [op |-> "close", id |-> closes[i]]]
              \o (IF current = NoTrack \/ left[current] = "playing" THEN <<>>
                  ELSE IF left[current] = "closed" THEN <<open(current)>> \o <<play(current)>>
                       ELSE <<play(current)>>)
              \o (IF preloads THEN <<open(preload)>> ELSE <<>>)
  BY DEF ReconcileTracks
<1>4. IsFiniteSet(gone) /\ gone \in SUBSET Tracks
  <2>1. gone \in SUBSET live
    OBVIOUS
  <2>2. QED
    BY <1>1, <2>1, FS_Subset
<1>5. closes \in Seq(Tracks) /\ Range(closes) = gone /\ DOMAIN closes = 1..Len(closes)
  BY <1>4, AnyOrder
<1>6. LiveTracks(left) = live \ gone /\ LiveTracks(left) \in SUBSET {current, preload}
      /\ LiveTracks(left) \in SUBSET Tracks
  BY <1>1 DEF LiveTracks
<1>7. \A t \in Tracks : left[t] = "playing" => tracks[t] = "playing" /\ (t = current \/ t = preload)
  BY <1>1 DEF LiveTracks
<1>8. left \in [Tracks -> {"playing", "preloaded", "closed"}] /\ NoTrack \notin Tracks
  BY <1>1, TracksAssumption
<1> HIDE DEF left, gone
<1>9. /\ played \in [Tracks -> {"playing", "preloaded", "closed"}]
      /\ LiveTracks(played) = LiveTracks(left) \cup {t \in {current} : t \in Tracks}
      /\ \A t \in Tracks : played[t] = IF t = current THEN "playing" ELSE left[t]
  BY <1>8 DEF LiveTracks
<1> HIDE DEF played
(* What is open is of two tracks.                                           *)
<1>10. ASSUME NEW S \in SUBSET {current, preload} PROVE IsFiniteSet(S) /\ Cardinality(S) <= 2
  BY AtMostTwo
<1> DEFINE base == Closing(closes, Len(closes))
           middle == IF current = NoTrack \/ left[current] = "playing" THEN <<>>
                     ELSE IF left[current] = "closed" THEN <<open(current)>> \o <<play(current)>>
                          ELSE <<play(current)>>
           end == IF preloads THEN <<open(preload)>> ELSE <<>>
<1>11. cues' = base \o middle \o end
  BY <1>3, <1>5 DEF Closing
<1>12. base \in Seq(Steps(Tracks)) /\ LeadsTo(live, base, 2, LiveTracks(left))
  <2>1. base \in Seq(Steps(Tracks)) /\ LeadsTo(live, base, 2, live \ Range(closes))
    BY <1>1, <1>5, ClosingLeads
  <2>2. QED
    BY <1>5, <1>6, <2>1
<1>13. base \in Seq(Cue)
  <2>1. \A i \in 1..Len(closes) : [op |-> "close", id |-> closes[i]] \in Cue
    BY <1>5 DEF Cue
  <2>2. QED
    BY <1>5, <2>1 DEF Closing
<1> HIDE DEF base
<1>14. ASSUME NEW t \in Tracks
       PROVE  /\ open(t) \in Cue /\ play(t) \in Cue /\ open(t) \in Steps(Tracks) /\ play(t) \in Steps(Tracks)
              /\ open(t).op = "open" /\ open(t).id = t /\ play(t).op = "play"
  BY DEF Cue, Steps
<1>15. ASSUME NEW t \in Tracks, NEW S \in SUBSET Tracks
       PROVE  Transitioned(S, open(t)) = S \cup {t} /\ Transitioned(S, play(t)) = S
  <2> HIDE DEF open, play
  <2>1. open(t) \in Steps(Tracks) /\ play(t) \in Steps(Tracks)
    BY <1>14
  <2>2. Transitioned(S, open(t)) = S \cup {open(t).id}
    BY <1>14, <2>1, TransitionedIs
  <2>3. Transitioned(S, play(t)) = S
    BY <1>14, <2>1, TransitionedIs
  <2>4. QED
    BY <1>14, <2>2, <2>3
<1> HIDE DEF open, play
<1>16. /\ base \o middle \in Seq(Cue) /\ base \o middle \in Seq(Steps(Tracks))
       /\ LeadsTo(live, base \o middle, 2, LiveTracks(played))
  <2>1. CASE current = NoTrack \/ left[current] = "playing"
    <3>1. LiveTracks(played) = LiveTracks(left)
      BY <1>8, <1>9, <2>1 DEF LiveTracks
    <3>2. base \o middle = base
      BY <1>12, <2>1
    <3>3. QED
      BY <1>12, <1>13, <3>1, <3>2
  <2>2. CASE ~(current = NoTrack \/ left[current] = "playing")
    <3>1. current \in Tracks /\ LiveTracks(played) = LiveTracks(left) \cup {current}
          /\ LiveTracks(played) \in SUBSET {current, preload} /\ LiveTracks(played) \in SUBSET Tracks
      BY <1>6, <1>9, <2>2
    <3>2. Cardinality(LiveTracks(played)) <= 2
      BY <1>10, <3>1
    <3>3. CASE left[current] = "closed"
      <4> DEFINE once == Append(base, open(current))
      <4>1. once \in Seq(Cue) /\ once \in Seq(Steps(Tracks))
        BY <1>12, <1>13, <1>14, <3>1
      <4>2. LeadsTo(live, once, 2, LiveTracks(played))
        <5>1. Transitioned(LiveTracks(left), open(current)) = LiveTracks(played)
          BY <1>6, <1>15, <3>1
        <5>2. LeadsTo(live, base, 2, LiveTracks(left)) /\ Cardinality(Transitioned(LiveTracks(left), open(current))) <= 2
              /\ open(current) \in Steps(Tracks) /\ live \in SUBSET Tracks
          BY <1>1, <1>12, <1>14, <3>1, <3>2, <5>1
        <5> HIDE DEF live
        <5>3. LeadsTo(live, once, 2, Transitioned(LiveTracks(left), open(current)))
          BY <1>12, <5>2, OneStepMore
        <5>4. QED
          BY <5>1, <5>3
      <4> HIDE DEF once
      <4>3. Append(once, play(current)) \in Seq(Cue) /\ Append(once, play(current)) \in Seq(Steps(Tracks))
        BY <1>14, <3>1, <4>1
      <4>4. LeadsTo(live, Append(once, play(current)), 2, LiveTracks(played))
        <5>1. Transitioned(LiveTracks(played), play(current)) = LiveTracks(played)
          BY <1>15, <3>1
        <5>2. Cardinality(Transitioned(LiveTracks(played), play(current))) <= 2
              /\ play(current) \in Steps(Tracks) /\ live \in SUBSET Tracks
          BY <1>1, <1>14, <3>1, <3>2, <5>1
        <5> HIDE DEF live
        <5>3. LeadsTo(live, Append(once, play(current)), 2, Transitioned(LiveTracks(played), play(current)))
          BY <4>1, <4>2, <5>2, OneStepMore
        <5>4. QED
          BY <5>1, <5>3
      <4>5. base \o middle = Append(once, play(current))
        <5>1. middle = <<open(current)>> \o <<play(current)>>
          BY <2>2, <3>3
        <5>2. base \o (<<open(current)>> \o <<play(current)>>) = Append(Append(base, open(current)), play(current))
          BY <1>12, <1>14, <3>1
        <5>3. QED
          BY <5>1, <5>2 DEF once
      <4>6. QED
        BY <4>3, <4>4, <4>5
    <3>4. CASE left[current] # "closed"
      <4>1. LiveTracks(played) = LiveTracks(left)
        BY <1>8, <3>1, <3>4 DEF LiveTracks
      <4>2. Append(base, play(current)) \in Seq(Cue) /\ Append(base, play(current)) \in Seq(Steps(Tracks))
        BY <1>12, <1>13, <1>14, <3>1
      <4>3. LeadsTo(live, Append(base, play(current)), 2, LiveTracks(played))
        <5>1. Transitioned(LiveTracks(played), play(current)) = LiveTracks(played)
          BY <1>15, <3>1
        <5>2. Cardinality(Transitioned(LiveTracks(played), play(current))) <= 2
              /\ play(current) \in Steps(Tracks) /\ live \in SUBSET Tracks /\ LeadsTo(live, base, 2, LiveTracks(played))
          BY <1>1, <1>12, <1>14, <3>1, <3>2, <4>1, <5>1
        <5> HIDE DEF live
        <5>3. LeadsTo(live, Append(base, play(current)), 2, Transitioned(LiveTracks(played), play(current)))
          BY <1>12, <5>2, OneStepMore
        <5>4. QED
          BY <5>1, <5>3
      <4>4. base \o middle = Append(base, play(current))
        <5>1. middle = <<play(current)>>
          BY <2>2, <3>4
        <5>2. base \o <<play(current)>> = Append(base, play(current))
          BY <1>12, <1>14, <3>1
        <5>3. QED
          BY <5>1, <5>2
      <4>5. QED
        BY <4>2, <4>3, <4>4
    <3>5. QED
      BY <3>3, <3>4
  <2>3. QED
    BY <2>1, <2>2
<1> DEFINE most == base \o middle
<1> HIDE DEF middle, most
<1>17. most \in Seq(Cue) /\ most \in Seq(Steps(Tracks)) /\ LeadsTo(live, most, 2, LiveTracks(played))
       /\ cues' = most \o end
  BY <1>11, <1>16 DEF most
<1>18. /\ cues' \in Seq(Cue) /\ LeadsTo(live, cues', 2, LiveTracks(tracks'))
       /\ tracks' \in [Tracks -> {"playing", "preloaded", "closed"}]
       /\ LiveTracks(tracks') \in SUBSET {current, preload}
       /\ \A t \in Tracks : tracks'[t] = "playing" <=> played[t] = "playing"
  <2>1. CASE ~preloads
    <3>1. tracks' = played /\ end = <<>>
      BY <1>2, <2>1
    <3>2. most \o end = most
      BY <1>17, <3>1
    <3>3. LiveTracks(played) \in SUBSET {current, preload}
      BY <1>6, <1>9
    <3>4. QED
      BY <1>9, <1>17, <3>1, <3>2, <3>3
  <2>2. CASE preloads
    <3>1. preload \in Tracks /\ end = <<open(preload)>> /\ tracks' = [played EXCEPT ![preload] = "preloaded"]
          /\ played[preload] = "closed"
      BY <1>1, <1>2, <2>2
    <3>2. most \o end = Append(most, open(preload)) /\ most \o end \in Seq(Cue)
      BY <1>14, <1>17, <3>1
    <3>3. LiveTracks(tracks') = LiveTracks(played) \cup {preload} /\ LiveTracks(played) \in SUBSET Tracks
          /\ tracks' \in [Tracks -> {"playing", "preloaded", "closed"}]
          /\ \A t \in Tracks : tracks'[t] = "playing" <=> played[t] = "playing"
      BY <1>9, <3>1 DEF LiveTracks
    <3>4. LiveTracks(tracks') \in SUBSET {current, preload}
      BY <1>6, <1>9, <3>3
    <3>5. Cardinality(LiveTracks(tracks')) <= 2
      BY <1>10, <3>4
    <3>6. LeadsTo(live, Append(most, open(preload)), 2, LiveTracks(tracks'))
      <4>1. Transitioned(LiveTracks(played), open(preload)) = LiveTracks(tracks')
        BY <1>15, <3>1, <3>3
      <4>2. Cardinality(Transitioned(LiveTracks(played), open(preload))) <= 2
            /\ open(preload) \in Steps(Tracks) /\ live \in SUBSET Tracks
        BY <1>1, <1>14, <3>1, <3>5, <4>1
      <4> HIDE DEF live, preload
      <4>3. LeadsTo(live, Append(most, open(preload)), 2, Transitioned(LiveTracks(played), open(preload)))
        BY <1>17, <4>2, OneStepMore
      <4>4. QED
        BY <4>1, <4>3
    <3>7. QED
      BY <1>17, <3>2, <3>3, <3>4, <3>6
  <2>3. QED
    BY <2>1, <2>2
<1>19. IsFiniteSet(LiveTracks(tracks')) /\ Cardinality(LiveTracks(tracks')) <= 2
  BY <1>10, <1>18
<1>20. TracksTypeOK'
  <2>1. kept' \in BOOLEAN
    BY <1>2
  <2>2. QED
    BY <1>1, <1>2, <1>18, <2>1 DEF TracksTypeOK
<1>21. onNow' # NoTrack => tracks'[onNow'] = "playing"
  BY <1>2, <1>9, <1>18
<1>22. ~kept' => \A t \in Tracks : tracks'[t] = "playing" => t = onNow'
  BY <1>2, <1>7, <1>9, <1>18
<1>23. TrackPoolHolds'
  BY <1>2, <1>18, <1>21, <1>22 DEF TrackPoolHolds, LeadsTo, MaxLiveTracks
<1>24. QED
  BY <1>19, <1>20, <1>23 DEF TracksInv

(* The invariant of the scheduler of tracks.                                *)
LEMMA TracksInvHolds == TracksSpec => []TracksInv
<1>1. ASSUME TracksInv, [TracksNext]_trackVars PROVE TracksInv'
  <2>1. CASE CloseTracks
    BY <1>1, <2>1, CloseTracksHolds
  <2>2. ASSUME NEW current \in Tracks \cup {NoTrack}, NEW next \in Tracks \cup {NoTrack},
               NEW near \in BOOLEAN, ReconcileTracks(current, next, near)
        PROVE  TracksInv'
    BY <1>1, <2>2, ReconcileTracksHolds
  <2>3. CASE UNCHANGED trackVars
    BY <1>1, <2>3 DEF trackVars, TracksInv, TracksTypeOK, TrackPoolHolds, LiveTracks, StaysWithin
  <2>4. QED
    BY <1>1, <2>1, <2>2, <2>3 DEF TracksNext
<1>2. QED
  BY <1>1, TracksStart, PTL DEF TracksSpec

-----------------------------------------------------------------------------
(* The scheduler of the feed.                                               *)

Wishes == [id : Streams, state : {"playing", "warm"}]
Pools == [videos : [Streams -> {"playing", "warm", "closed"}], order : Seq(Streams), plan : Seq(Transition)]

(* The pool counts what its plan leads to.                                  *)
PoolHolds(pool, decoders) ==
    /\ pool \in Pools
    /\ AllApart(pool.order) /\ Range(pool.order) = LiveVideos(pool.videos)
    /\ LeadsTo(decoders, pool.plan, MaxLive, LiveVideos(pool.videos))

ClosesOnly(steps, S) == \A i \in 1..Len(steps) : steps[i].op = "close" => steps[i].id \in S
OpensOnly(steps, S) == \A i \in 1..Len(steps) : steps[i].op = "open" => steps[i].id \in S

LEMMA TransitionsAreSteps == Transition = Steps(Streams)
  BY DEF Transition, Steps

LEMMA FewVideos ==
    ASSUME NEW videos0, NEW S \in SUBSET Streams
    PROVE  /\ LiveVideos(videos0) \in SUBSET Streams /\ IsFiniteSet(LiveVideos(videos0))
           /\ Cardinality(LiveVideos(videos0)) \in Nat /\ IsFiniteSet(S) /\ Cardinality(S) \in Nat
           /\ MaxLive \in Nat /\ FeedLength \in Nat
<1>1. MaxLive \in Nat /\ FeedLength \in Nat /\ 1 \in Int /\ FeedLength \in Int
  BY FeedAssumption
<1>2. IsFiniteSet(Streams)
  BY <1>1, FS_Interval DEF Streams
<1>3. LiveVideos(videos0) \in SUBSET Streams
  BY DEF LiveVideos
<1>4. IsFiniteSet(LiveVideos(videos0)) /\ IsFiniteSet(S)
  BY <1>2, <1>3, FS_Subset
<1>5. QED
  BY <1>1, <1>3, <1>4, FS_CardinalityType

(* One transition more in a plan.                                           *)
LEMMA SaidMore ==
    ASSUME NEW steps \in Seq(Transition), NEW step \in Transition, NEW decoders \in SUBSET Streams,
           NEW live, LeadsTo(decoders, steps, MaxLive, live), live \in SUBSET Streams,
           Cardinality(Transitioned(live, step)) <= MaxLive
    PROVE  /\ Append(steps, step) \in Seq(Transition)
           /\ LeadsTo(decoders, Append(steps, step), MaxLive, Transitioned(live, step))
           /\ \A S : ClosesOnly(steps, S) /\ (step.op = "close" => step.id \in S) => ClosesOnly(Append(steps, step), S)
           /\ \A S : OpensOnly(steps, S) /\ (step.op = "open" => step.id \in S) => OpensOnly(Append(steps, step), S)
<1> DEFINE n == Len(steps)
           more == Append(steps, step)
<1>1. /\ more \in Seq(Transition) /\ n \in Nat /\ Len(more) = n + 1 /\ more[n + 1] = step
      /\ \A i \in 1..n : more[i] = steps[i]
  OBVIOUS
<1> HIDE DEF more
<1>2. \A i \in 1..(n + 1) : i = n + 1 \/ i \in 1..n
  BY <1>1
<1>3. \A S : ClosesOnly(steps, S) /\ (step.op = "close" => step.id \in S) => ClosesOnly(more, S)
  BY <1>1, <1>2 DEF ClosesOnly
<1>4. \A S : OpensOnly(steps, S) /\ (step.op = "open" => step.id \in S) => OpensOnly(more, S)
  BY <1>1, <1>2 DEF OpensOnly
<1>5. LeadsTo(decoders, Append(steps, step), MaxLive, Transitioned(live, step))
  <2>1. steps \in Seq(Steps(Streams)) /\ step \in Steps(Streams) /\ MaxLive \in Nat
    BY TransitionsAreSteps, FeedAssumption
  <2>2. QED
    BY <2>1, OneStepMore
<1>6. QED
  BY <1>1, <1>3, <1>4, <1>5 DEF more

LEMMA ClosedIn ==
    ASSUME NEW decoders \in SUBSET Streams, NEW pool, PoolHolds(pool, decoders), NEW id \in Streams
    PROVE  /\ PoolHolds(CloseIn(pool, id), decoders)
           /\ \A s \in Streams : CloseIn(pool, id).videos[s] = IF s = id THEN "closed" ELSE pool.videos[s]
           /\ \A S : ClosesOnly(pool.plan, S) /\ id \in S => ClosesOnly(CloseIn(pool, id).plan, S)
           /\ \A S : OpensOnly(pool.plan, S) => OpensOnly(CloseIn(pool, id).plan, S)
<1> DEFINE new == CloseIn(pool, id)
           step == [op |-> "close", id |-> id]
           live == LiveVideos(pool.videos)
<1>1. /\ pool.videos \in [Streams -> {"playing", "warm", "closed"}] /\ pool.order \in Seq(Streams)
      /\ pool.plan \in Seq(Transition) /\ AllApart(pool.order) /\ Range(pool.order) = live
      /\ LeadsTo(decoders, pool.plan, MaxLive, live)
  BY DEF PoolHolds, Pools
<1>2. /\ new.videos = [pool.videos EXCEPT ![id] = "closed"] /\ new.order = Remaining(pool.order, {id})
      /\ new.plan = Append(pool.plan, step)
      /\ new = [videos |-> new.videos, order |-> new.order, plan |-> new.plan]
  BY DEF CloseIn
<1>3. step \in Transition /\ step.op = "close" /\ step.id = id
  BY DEF Transition
<1> HIDE DEF new, step
<1>4. /\ new.videos \in [Streams -> {"playing", "warm", "closed"}]
      /\ \A s \in Streams : new.videos[s] = IF s = id THEN "closed" ELSE pool.videos[s]
      /\ LiveVideos(new.videos) = live \ {id}
  BY <1>1, <1>2 DEF LiveVideos
<1>5. /\ new.order \in Seq(Streams) /\ AllApart(new.order) /\ Range(new.order) = live \ {id}
  BY <1>1, <1>2, ApartFromSome
<1>6. /\ live \in SUBSET Streams /\ IsFiniteSet(live) /\ Cardinality(live) \in Nat /\ MaxLive \in Nat
      /\ Cardinality(live) <= MaxLive
  <2>1. live \in SUBSET Streams /\ IsFiniteSet(live) /\ Cardinality(live) \in Nat /\ MaxLive \in Nat
    BY FewVideos
  <2>2. Len(pool.plan) \in 0..Len(pool.plan)
    BY <1>1
  <2>3. QED
    BY <1>1, <2>1, <2>2 DEF LeadsTo, StaysWithin
<1> HIDE DEF live
<1>7. Transitioned(live, step) = live \ {id} /\ Cardinality(live \ {id}) <= MaxLive
  <2>1. Transitioned(live, step) = live \ {id}
    BY <1>3, <1>6, TransitionsAreSteps, TransitionedIs
  <2>2. live \ {id} \in SUBSET live
    OBVIOUS
  <2>3. Cardinality(live \ {id}) <= Cardinality(live) /\ IsFiniteSet(live \ {id})
    BY <1>6, <2>2, FS_Subset
  <2>4. Cardinality(live \ {id}) \in Nat
    BY <2>3, FS_CardinalityType
  <2>5. QED
    BY <1>6, <2>1, <2>3, <2>4
<1>8. /\ new.plan \in Seq(Transition) /\ LeadsTo(decoders, new.plan, MaxLive, Transitioned(live, step))
      /\ \A S : ClosesOnly(pool.plan, S) /\ (step.op = "close" => step.id \in S) => ClosesOnly(new.plan, S)
      /\ \A S : OpensOnly(pool.plan, S) /\ (step.op = "open" => step.id \in S) => OpensOnly(new.plan, S)
  <2>1. Cardinality(Transitioned(live, step)) <= MaxLive
    BY <1>7
  <2> DEFINE more == Append(pool.plan, step)
  <2>2. pool.plan \in Seq(Transition) /\ step \in Transition /\ LeadsTo(decoders, pool.plan, MaxLive, live)
        /\ live \in SUBSET Streams
    BY <1>1, <1>3, <1>6
  <2>3. /\ more \in Seq(Transition) /\ LeadsTo(decoders, more, MaxLive, Transitioned(live, step))
        /\ \A S : ClosesOnly(pool.plan, S) /\ (step.op = "close" => step.id \in S) => ClosesOnly(more, S)
        /\ \A S : OpensOnly(pool.plan, S) /\ (step.op = "open" => step.id \in S) => OpensOnly(more, S)
    BY <2>1, <2>2, SaidMore
  <2>4. new.plan = more
    BY <1>2
  <2> HIDE DEF more
  <2>5. QED
    BY <2>3, <2>4
<1>9. PoolHolds(new, decoders)
  <2>1. new \in Pools
    BY <1>2, <1>4, <1>5, <1>8 DEF Pools
  <2>2. QED
    BY <1>4, <1>5, <1>7, <1>8, <2>1 DEF PoolHolds
<1>10. QED
  BY <1>3, <1>4, <1>8, <1>9 DEF new

(* left: the pool after each of the closes.                                 *)
ClosesFrom(left, pool, ids) ==
    left[0] = pool /\ \A n \in 1..Len(ids) : left[n] = CloseIn(left[n - 1], ids[n])

LEMMA ClosingSteps ==
    ASSUME NEW decoders \in SUBSET Streams, NEW pool, PoolHolds(pool, decoders), NEW ids \in Seq(Streams)
    PROVE  \E left : ClosesFrom(left, pool, ids) /\ CloseAll(pool, ids) = left[Len(ids)]
<1> DEFINE N == Len(ids)
           S == {p \in Pools : PoolHolds(p, decoders)}
           next == [n \in 1..N |-> [acc \in S |-> CloseIn(acc, ids[n])]]
           Is(f) == f = [n \in 0..N |-> IF n = 0 THEN pool ELSE CloseIn(f[n - 1], ids[n])]
           left == CHOOSE f : Is(f)
<1>1. N \in Nat /\ \A n \in 1..N : ids[n] \in Streams
  BY ElementOfSeq
<1>2. next \in [1..N -> [S -> S]] /\ pool \in S
  <2>1. \A n \in 1..N : \A acc \in S : CloseIn(acc, ids[n]) \in S
    <3>1. ASSUME NEW n \in 1..N, NEW acc \in S PROVE CloseIn(acc, ids[n]) \in S
      <4>1. PoolHolds(acc, decoders) /\ ids[n] \in Streams
        BY <1>1
      <4>2. PoolHolds(CloseIn(acc, ids[n]), decoders)
        BY <4>1, ClosedIn
      <4>3. QED
        BY <4>2 DEF PoolHolds
    <3>2. QED
      BY <3>1
  <2>2. pool \in S
    BY DEF PoolHolds
  <2> HIDE DEF S
  <2>3. QED
    BY <2>1, <2>2
<1>3. \A n \in 1..N : \A acc \in S : next[n][acc] = CloseIn(acc, ids[n])
  OBVIOUS
<1> HIDE DEF next, S
<1>4. PICK f : Takes(f, S, N, pool, next)
  BY <1>1, <1>2, StepsCanBeTaken
<1>5. Is(f)
  <2>1. f \in [0..N -> S] /\ f[0] = pool /\ \A n \in 1..N : f[n] = next[n][f[n - 1]]
    BY <1>4 DEF Takes
  <2>2. ASSUME NEW n \in 0..N
        PROVE  f[n] = IF n = 0 THEN pool ELSE CloseIn(f[n - 1], ids[n])
    <3>1. CASE n = 0
      BY <2>1, <3>1
    <3>2. CASE n # 0
      <4>1. n \in 1..N /\ n - 1 \in 0..N
        BY <1>1, <3>2
      <4>2. f[n - 1] \in S
        BY <2>1, <4>1
      <4>3. QED
        BY <1>3, <2>1, <3>2, <4>1, <4>2
    <3>3. QED
      BY <3>1, <3>2
  <2>3. f = [n \in 0..N |-> f[n]]
    BY <2>1
  <2>4. QED
    BY <2>2, <2>3
<1> HIDE DEF Is
<1>6. Is(left)
  BY <1>5, Zenon
<1>7. left[0] = pool /\ \A n \in 1..N : left[n] = CloseIn(left[n - 1], ids[n])
  <2>1. left = [n \in 0..N |-> IF n = 0 THEN pool ELSE CloseIn(left[n - 1], ids[n])]
    BY <1>6 DEF Is
  <2> HIDE DEF left
  <2>2. \A n \in 0..N : left[n] = IF n = 0 THEN pool ELSE CloseIn(left[n - 1], ids[n])
    BY <2>1
  <2>3. 0 \in 0..N /\ \A n \in 1..N : n \in 0..N /\ n # 0
    BY <1>1
  <2>4. QED
    BY <2>2, <2>3
<1>8. CloseAll(pool, ids) = left[N]
  BY Zenon DEF CloseAll, left, Is
<1> HIDE DEF left
<1>9. QED
  BY <1>7, <1>8 DEF ClosesFrom

LEMMA ClosedAll ==
    ASSUME NEW decoders \in SUBSET Streams, NEW pool, PoolHolds(pool, decoders), NEW ids \in Seq(Streams),
           NEW S, Range(ids) \subseteq S, ClosesOnly(pool.plan, S), NEW T, OpensOnly(pool.plan, T)
    PROVE  /\ PoolHolds(CloseAll(pool, ids), decoders)
           /\ \A s \in Streams : CloseAll(pool, ids).videos[s]
                                    = IF s \in Range(ids) THEN "closed" ELSE pool.videos[s]
           /\ ClosesOnly(CloseAll(pool, ids).plan, S) /\ OpensOnly(CloseAll(pool, ids).plan, T)
<1> DEFINE N == Len(ids)
<1>0. PICK left : ClosesFrom(left, pool, ids) /\ CloseAll(pool, ids) = left[N]
  BY ClosingSteps
<1>1. /\ left[0] = pool /\ CloseAll(pool, ids) = left[N]
      /\ \A n \in 1..N : left[n] = CloseIn(left[n - 1], ids[n])
  BY <1>0 DEF ClosesFrom
<1>2. N \in Nat /\ (\A n \in 1..N : ids[n] \in Streams /\ ids[n] \in S) /\ Range(ids) = {ids[i] : i \in 1..N}
  <2>1. \A n \in 1..N : ids[n] \in Streams /\ ids[n] \in Range(ids)
    BY ElementsOf
  <2>2. QED
    BY <2>1 DEF Range
<1> DEFINE Gone(n) == {ids[i] : i \in 1..n}
           Holds(p, n) == /\ PoolHolds(p, decoders) /\ ClosesOnly(p.plan, S) /\ OpensOnly(p.plan, T)
                          /\ \A s \in Streams : p.videos[s] = IF s \in Gone(n) THEN "closed" ELSE pool.videos[s]
           Good == {n \in 0..N : Holds(left[n], n)}
<1>3. 0 \in Good
  <2>1. Gone(0) = {} /\ 0 \in 0..N
    BY <1>2
  <2>2. Holds(pool, 0)
    BY <2>1
  <2>3. QED
    BY <1>1, <2>1, <2>2
<1>4. ASSUME NEW n \in 0..N, n + 1 \in 0..N, n \in Good PROVE n + 1 \in Good
  <2> DEFINE p == left[n]
             new == CloseIn(p, ids[n + 1])
  <2>1. n \in Nat /\ n + 1 \in 1..N /\ (n + 1) - 1 = n
    BY <1>2, <1>4
  <2>2. left[n + 1] = new
    BY <1>1, <2>1
  <2>3. Holds(p, n)
    BY <1>4
  <2>4. ids[n + 1] \in Streams /\ ids[n + 1] \in S
    BY <1>2, <2>1
  <2>5. Gone(n + 1) = Gone(n) \cup {ids[n + 1]}
    BY <2>1
  <2> HIDE DEF p, new, Gone
  <2>6. PoolHolds(p, decoders) /\ ClosesOnly(p.plan, S) /\ OpensOnly(p.plan, T)
    BY <2>3
  <2>7. /\ PoolHolds(new, decoders)
        /\ \A s \in Streams : new.videos[s] = IF s = ids[n + 1] THEN "closed" ELSE p.videos[s]
        /\ ClosesOnly(new.plan, S) /\ OpensOnly(new.plan, T)
    <3> DEFINE id == ids[n + 1]
    <3>1. id \in Streams /\ PoolHolds(p, decoders)
      BY <2>4, <2>6
    <3> HIDE DEF id
    <3>2. /\ PoolHolds(CloseIn(p, id), decoders)
          /\ \A s \in Streams : CloseIn(p, id).videos[s] = IF s = id THEN "closed" ELSE p.videos[s]
          /\ \A R : ClosesOnly(p.plan, R) /\ id \in R => ClosesOnly(CloseIn(p, id).plan, R)
          /\ \A R : OpensOnly(p.plan, R) => OpensOnly(CloseIn(p, id).plan, R)
      BY <3>1, ClosedIn
    <3>3. new = CloseIn(p, id) /\ id = ids[n + 1]
      BY DEF new, id
    <3>4. QED
      BY <2>4, <2>6, <3>2, <3>3
  <2>8. \A s \in Streams : new.videos[s] = IF s \in Gone(n + 1) THEN "closed" ELSE pool.videos[s]
    BY <2>3, <2>5, <2>7
  <2>9. Holds(new, n + 1)
    BY <2>7, <2>8
  <2>10. QED
    BY <1>4, <2>2, <2>9
<1>5. N \in Good
  <2> HIDE DEF Good
  <2>1. 0..N \subseteq Good
    BY <1>2, <1>3, <1>4, StepByStep
  <2>2. QED
    BY <1>2, <2>1
<1>6. Gone(N) = Range(ids)
  BY <1>2
<1> HIDE DEF Gone
<1>7. QED
  BY <1>1, <1>5, <1>6

-----------------------------------------------------------------------------
(* What a wish does to the pool: it opens or moves one video, or nothing.   *)
Reaches(pool, desire, new) ==
    /\ \A s \in Streams : s # desire.id => new.videos[s] = pool.videos[s]
    /\ LiveVideos(new.videos) \subseteq LiveVideos(pool.videos) \cup {desire.id}
    /\ pool.videos[desire.id] # "closed" \/ Cardinality(LiveVideos(pool.videos)) < MaxLive
          => new.videos[desire.id] = desire.state
    /\ \A S : ClosesOnly(pool.plan, S) => ClosesOnly(new.plan, S)
    /\ \A S : OpensOnly(pool.plan, S) /\ desire.id \in S => OpensOnly(new.plan, S)

LEMMA Reached ==
    ASSUME NEW decoders \in SUBSET Streams, NEW pool, PoolHolds(pool, decoders), NEW desire \in Wishes
    PROVE  PoolHolds(Reach(pool, desire), decoders) /\ Reaches(pool, desire, Reach(pool, desire))
<1> DEFINE new == Reach(pool, desire)
           id == desire.id
           goal == desire.state
           say(op) == [op |-> op, id |-> id]
           live == LiveVideos(pool.videos)
           moved == [pool.videos EXCEPT ![id] = goal]
<1>1. /\ pool \in Pools /\ pool.videos \in [Streams -> {"playing", "warm", "closed"}] /\ pool.order \in Seq(Streams)
      /\ pool.plan \in Seq(Transition) /\ AllApart(pool.order) /\ Range(pool.order) = live
      /\ LeadsTo(decoders, pool.plan, MaxLive, live)
  BY DEF PoolHolds, Pools
<1>2. /\ id \in Streams /\ goal \in {"playing", "warm"} /\ live \in SUBSET Streams
      /\ IsFiniteSet(live) /\ Cardinality(live) \in Nat /\ MaxLive \in Nat
  BY FewVideos DEF Wishes
<1>3. \A op \in {"open", "play", "pause", "close"} : say(op) \in Transition /\ say(op).op = op /\ say(op).id = id
  BY <1>2 DEF Transition
<1>4. /\ moved \in [Streams -> {"playing", "warm", "closed"}] /\ moved[id] = goal
      /\ \A s \in Streams : s # id => moved[s] = pool.videos[s]
      /\ LiveVideos(moved) = live \cup {id}
  BY <1>1, <1>2 DEF LiveVideos
<1>5. Cardinality(live) <= MaxLive
  <2>1. Len(pool.plan) \in 0..Len(pool.plan)
    BY <1>1
  <2>2. QED
    BY <1>1, <2>1 DEF LeadsTo, StaysWithin
<1>6. ASSUME NEW op \in {"open", "play", "pause"}, NEW set \in SUBSET Streams
      PROVE  Transitioned(set, say(op)) = IF op = "open" THEN set \cup {id} ELSE set
  <2> HIDE DEF say
  <2>1. say(op) \in Steps(Streams) /\ say(op).op = op /\ say(op).id = id
    BY <1>3, TransitionsAreSteps
  <2>2. QED
    BY <2>1, TransitionedIs
<1>7. CASE pool.videos[id] = goal
  <2>1. new = pool
    BY <1>7 DEF Reach
  <2> HIDE DEF new
  <2>2. Reaches(pool, desire, pool)
    BY <1>7 DEF Reaches
  <2>3. PoolHolds(new, decoders) /\ Reaches(pool, desire, new)
    BY <2>1, <2>2
  <2>4. QED
    BY <2>3 DEF new
<1>8. CASE pool.videos[id] # goal /\ pool.videos[id] # "closed"
  <2> DEFINE op == IF goal = "playing" THEN "play" ELSE "pause"
  <2>1. /\ new = [videos |-> moved, order |-> pool.order, plan |-> Append(pool.plan, say(op))]
        /\ op \in {"open", "play", "pause"} /\ op # "open" /\ op # "close"
    BY <1>8 DEF Reach
  <2>2. /\ new.videos = moved /\ new.order = pool.order /\ new.plan = Append(pool.plan, say(op))
        /\ new = [videos |-> new.videos, order |-> new.order, plan |-> new.plan]
    BY <2>1
  <2>3. LiveVideos(moved) = live /\ id \in live
    BY <1>2, <1>4, <1>8 DEF LiveVideos
  <2>4. Transitioned(live, say(op)) = live
    BY <1>2, <1>6, <2>1
  <2>5. say(op) \in Transition /\ say(op).op = op /\ say(op).id = id
    BY <1>3, <2>1
  <2> DEFINE step == say(op)
             more == Append(pool.plan, step)
  <2> HIDE DEF step, op, say, moved, live, new
  <2>6. /\ more \in Seq(Transition) /\ LeadsTo(decoders, more, MaxLive, Transitioned(live, step))
        /\ \A S : ClosesOnly(pool.plan, S) /\ (step.op = "close" => step.id \in S) => ClosesOnly(more, S)
        /\ \A S : OpensOnly(pool.plan, S) /\ (step.op = "open" => step.id \in S) => OpensOnly(more, S)
    <3>1. Cardinality(Transitioned(live, step)) <= MaxLive /\ step \in Transition
      BY <1>5, <2>4, <2>5 DEF step
    <3>2. QED
      BY <1>1, <1>2, <3>1, SaidMore
  <2>7. new.plan = more /\ Transitioned(live, step) = live /\ step.op # "close" /\ step.op # "open"
    BY <2>1, <2>2, <2>4, <2>5 DEF step
  <2> HIDE DEF more
  <2>8. PoolHolds(new, decoders)
    <3>1. new \in Pools
      BY <1>1, <1>4, <2>2, <2>6, <2>7 DEF Pools
    <3>2. QED
      BY <1>1, <2>2, <2>3, <2>6, <2>7, <3>1 DEF PoolHolds
  <2>9. Reaches(pool, desire, new)
    BY <1>4, <2>2, <2>3, <2>6, <2>7 DEF Reaches, live
  <2>10. QED
    BY <2>8, <2>9 DEF new
<1>9. CASE pool.videos[id] = "closed" /\ Cardinality(live) >= MaxLive
  <2>1. new = pool
    BY <1>2, <1>9 DEF Reach
  <2> HIDE DEF new
  <2>2. Reaches(pool, desire, pool)
    BY <1>2, <1>9 DEF Reaches
  <2>3. PoolHolds(new, decoders) /\ Reaches(pool, desire, new)
    BY <2>1, <2>2
  <2>4. QED
    BY <2>3 DEF new
<1>10. CASE pool.videos[id] = "closed" /\ ~(Cardinality(live) >= MaxLive)
  <2> DEFINE one == Append(pool.plan, say("open"))
             two == Append(one, say("play"))
  <2>1. new = [videos |-> moved, order |-> Append(pool.order, id), plan |-> IF goal = "playing" THEN two ELSE one]
    BY <1>2, <1>10 DEF Reach
  <2>2. /\ new.videos = moved /\ new.order = Append(pool.order, id)
        /\ new.plan = IF goal = "playing" THEN two ELSE one
        /\ new = [videos |-> new.videos, order |-> new.order, plan |-> new.plan]
    BY <2>1
  <2>3. id \notin live
    BY <1>10 DEF LiveVideos
  <2>4. say("open") \in Transition /\ say("play") \in Transition
        /\ say("open").op = "open" /\ say("open").id = id /\ say("play").op = "play"
    BY <1>3
  <2>5. Cardinality(live \cup {id}) <= MaxLive /\ live \cup {id} \in SUBSET Streams
    <3>1. Cardinality(live \cup {id}) = Cardinality(live) + 1
      BY <1>2, <2>3, FS_AddElement
    <3>2. QED
      BY <1>2, <1>10, <3>1
  <2>6. Transitioned(live, say("open")) = live \cup {id} /\ Transitioned(live \cup {id}, say("play")) = live \cup {id}
    BY <1>2, <1>6, <2>5
  <2> HIDE DEF say, moved, live, new
  <2>7. /\ one \in Seq(Transition) /\ LeadsTo(decoders, one, MaxLive, live \cup {id})
        /\ \A S : ClosesOnly(pool.plan, S) => ClosesOnly(one, S)
        /\ \A S : OpensOnly(pool.plan, S) /\ id \in S => OpensOnly(one, S)
    <3> DEFINE step == say("open")
               more == Append(pool.plan, step)
    <3>1. step \in Transition /\ step.op = "open" /\ step.id = id /\ Transitioned(live, step) = live \cup {id}
      BY <2>4, <2>6
    <3> HIDE DEF step
    <3>2. Cardinality(Transitioned(live, step)) <= MaxLive
      BY <2>5, <3>1
    <3>3. /\ more \in Seq(Transition) /\ LeadsTo(decoders, more, MaxLive, Transitioned(live, step))
          /\ \A S : ClosesOnly(pool.plan, S) /\ (step.op = "close" => step.id \in S) => ClosesOnly(more, S)
          /\ \A S : OpensOnly(pool.plan, S) /\ (step.op = "open" => step.id \in S) => OpensOnly(more, S)
      BY <1>1, <1>2, <3>1, <3>2, SaidMore
    <3>4. one = more
      BY DEF step
    <3> HIDE DEF more, one
    <3>5. QED
      BY <3>1, <3>3, <3>4
  <2> HIDE DEF one
  <2>8. /\ two \in Seq(Transition) /\ LeadsTo(decoders, two, MaxLive, live \cup {id})
        /\ \A S : ClosesOnly(pool.plan, S) => ClosesOnly(two, S)
        /\ \A S : OpensOnly(pool.plan, S) /\ id \in S => OpensOnly(two, S)
    <3> DEFINE step == say("play")
               more == Append(one, step)
               opening == live \cup {id}
    <3>1. step \in Transition /\ step.op = "play" /\ Transitioned(opening, step) = opening
          /\ opening \in SUBSET Streams /\ Cardinality(opening) <= MaxLive
      BY <2>4, <2>5, <2>6
    <3> HIDE DEF step, opening
    <3>2. Cardinality(Transitioned(opening, step)) <= MaxLive
      BY <3>1
    <3>3. LeadsTo(decoders, one, MaxLive, opening) /\ one \in Seq(Transition)
      BY <2>7 DEF opening
    <3>4. /\ more \in Seq(Transition) /\ LeadsTo(decoders, more, MaxLive, Transitioned(opening, step))
          /\ \A S : ClosesOnly(one, S) /\ (step.op = "close" => step.id \in S) => ClosesOnly(more, S)
          /\ \A S : OpensOnly(one, S) /\ (step.op = "open" => step.id \in S) => OpensOnly(more, S)
      BY <3>1, <3>2, <3>3, SaidMore
    <3>5. two = more
      BY DEF step
    <3> HIDE DEF more, two
    <3>6. QED
      BY <2>7, <3>1, <3>4, <3>5 DEF opening
  <2> HIDE DEF two
  <2>9. /\ new.plan \in Seq(Transition) /\ LeadsTo(decoders, new.plan, MaxLive, live \cup {id})
        /\ \A S : ClosesOnly(pool.plan, S) => ClosesOnly(new.plan, S)
        /\ \A S : OpensOnly(pool.plan, S) /\ id \in S => OpensOnly(new.plan, S)
    <3>1. CASE goal = "playing"
      <4>1. new.plan = two
        BY <2>2, <3>1
      <4>2. QED
        BY <2>8, <4>1
    <3>2. CASE goal # "playing"
      <4>1. new.plan = one
        BY <2>2, <3>2
      <4>2. QED
        BY <2>7, <4>1
    <3>3. QED
      BY <3>1, <3>2
  <2>10. /\ new.order \in Seq(Streams) /\ AllApart(new.order) /\ Range(new.order) = live \cup {id}
    BY <1>1, <1>2, <2>2, <2>3, ApartWithLast
  <2>11. PoolHolds(new, decoders)
    <3>1. new \in Pools
      BY <1>4, <2>2, <2>9, <2>10 DEF Pools
    <3>2. QED
      BY <1>4, <2>2, <2>9, <2>10, <3>1 DEF PoolHolds
  <2>12. Reaches(pool, desire, new)
    BY <1>4, <2>2, <2>9 DEF Reaches, live
  <2>13. QED
    BY <2>11, <2>12 DEF new
<1>11. QED
  BY <1>2, <1>7, <1>8, <1>9, <1>10

ReachesFrom(reached, pool, desired) ==
    reached[0] = pool /\ \A n \in 1..Len(desired) : reached[n] = Reach(reached[n - 1], desired[n])

LEMMA ReachSteps ==
    ASSUME NEW decoders \in SUBSET Streams, NEW pool, PoolHolds(pool, decoders), NEW desired \in Seq(Wishes)
    PROVE  \E reached : /\ ReachesFrom(reached, pool, desired)
                        /\ ReachAll(pool, desired) = reached[Len(desired)]
<1> DEFINE N == Len(desired)
           S == {p \in Pools : PoolHolds(p, decoders)}
           next == [n \in 1..N |-> [acc \in S |-> Reach(acc, desired[n])]]
           Is(f) == f = [n \in 0..N |-> IF n = 0 THEN pool ELSE Reach(f[n - 1], desired[n])]
           reached == CHOOSE f : Is(f)
<1>1. N \in Nat /\ \A n \in 1..N : desired[n] \in Wishes
  BY ElementOfSeq
<1>2. next \in [1..N -> [S -> S]] /\ pool \in S
  <2>1. \A n \in 1..N : \A acc \in S : Reach(acc, desired[n]) \in S
    <3>1. ASSUME NEW n \in 1..N, NEW acc \in S PROVE Reach(acc, desired[n]) \in S
      <4>1. PoolHolds(acc, decoders) /\ desired[n] \in Wishes
        BY <1>1
      <4>2. PoolHolds(Reach(acc, desired[n]), decoders)
        BY <4>1, Reached
      <4>3. QED
        BY <4>2 DEF PoolHolds
    <3>2. QED
      BY <3>1
  <2>2. pool \in S
    BY DEF PoolHolds
  <2> HIDE DEF S
  <2>3. QED
    BY <2>1, <2>2
<1>3. \A n \in 1..N : \A acc \in S : next[n][acc] = Reach(acc, desired[n])
  OBVIOUS
<1> HIDE DEF next, S
<1>4. PICK f : Takes(f, S, N, pool, next)
  BY <1>1, <1>2, StepsCanBeTaken
<1>5. Is(f)
  <2>1. f \in [0..N -> S] /\ f[0] = pool /\ \A n \in 1..N : f[n] = next[n][f[n - 1]]
    BY <1>4 DEF Takes
  <2>2. ASSUME NEW n \in 0..N
        PROVE  f[n] = IF n = 0 THEN pool ELSE Reach(f[n - 1], desired[n])
    <3>1. CASE n = 0
      BY <2>1, <3>1
    <3>2. CASE n # 0
      <4>1. n \in 1..N /\ n - 1 \in 0..N
        BY <1>1, <3>2
      <4>2. f[n - 1] \in S
        BY <2>1, <4>1
      <4>3. QED
        BY <1>3, <2>1, <3>2, <4>1, <4>2
    <3>3. QED
      BY <3>1, <3>2
  <2>3. f = [n \in 0..N |-> f[n]]
    BY <2>1
  <2>4. QED
    BY <2>2, <2>3
<1> HIDE DEF Is
<1>6. Is(reached)
  BY <1>5, Zenon
<1>7. reached[0] = pool /\ \A n \in 1..N : reached[n] = Reach(reached[n - 1], desired[n])
  <2>1. reached = [n \in 0..N |-> IF n = 0 THEN pool ELSE Reach(reached[n - 1], desired[n])]
    BY <1>6 DEF Is
  <2> HIDE DEF reached
  <2>2. \A n \in 0..N : reached[n] = IF n = 0 THEN pool ELSE Reach(reached[n - 1], desired[n])
    BY <2>1
  <2>3. 0 \in 0..N /\ \A n \in 1..N : n \in 0..N /\ n # 0
    BY <1>1
  <2>4. QED
    BY <2>2, <2>3
<1>8. ReachAll(pool, desired) = reached[N]
  BY Zenon DEF ReachAll, reached, Is
<1> HIDE DEF reached
<1>9. QED
  BY <1>7, <1>8 DEF ReachesFrom

(* No video is wished for twice.                                            *)
WishesApart(desired) == \A i, j \in 1..Len(desired) : desired[i].id = desired[j].id => i = j

LEMMA WishesCounted ==
    ASSUME NEW desired \in Seq(Wishes)
    PROVE  /\ Wanted(desired) \in SUBSET Streams /\ IsFiniteSet(Wanted(desired))
           /\ Cardinality(Wanted(desired)) \in Nat /\ Cardinality(Wanted(desired)) <= Len(desired)
           /\ \A i \in 1..Len(desired) : desired[i] \in Wishes /\ desired[i].id \in Wanted(desired)
<1> DEFINE N == Len(desired)
           f == [i \in 1..N |-> desired[i].id]
<1>1. N \in Nat /\ DOMAIN desired = 1..N /\ \A i \in 1..N : desired[i] \in Wishes
  BY ElementOfSeq
<1>2. \A i \in 1..N : desired[i].id \in Streams /\ desired[i].id \in Wanted(desired)
  BY <1>1 DEF Wanted, Wishes
<1>3. Wanted(desired) \in SUBSET Streams
  BY <1>1, <1>2 DEF Wanted
<1>4. f \in Surjection(1..N, Wanted(desired))
  <2>1. f \in [1..N -> Wanted(desired)]
    BY <1>2
  <2>2. \A x \in Wanted(desired) : \E i \in 1..N : f[i] = x
    BY <1>1 DEF Wanted
  <2>3. QED
    BY <2>1, <2>2 DEF Surjection
<1>5. IsFiniteSet(1..N) /\ Cardinality(1..N) = N
  <2>1. 1 \in Int /\ N \in Int
    BY <1>1
  <2>2. IsFiniteSet(1..N) /\ Cardinality(1..N) = IF 1 > N THEN 0 ELSE N - 1 + 1
    BY <2>1, FS_Interval
  <2>3. (IF 1 > N THEN 0 ELSE N - 1 + 1) = N
    BY <1>1
  <2>4. QED
    BY <2>2, <2>3
<1> HIDE DEF N, f
<1>6. Cardinality(Wanted(desired)) <= N /\ IsFiniteSet(Wanted(desired))
  <2>1. Cardinality(Wanted(desired)) <= Cardinality(1..N) /\ IsFiniteSet(Wanted(desired))
    BY <1>4, <1>5, FS_Surjection
  <2>2. QED
    BY <1>5, <2>1
<1>7. Cardinality(Wanted(desired)) \in Nat
  BY <1>6, FS_CardinalityType
<1>8. QED
  BY <1>1, <1>2, <1>3, <1>6, <1>7 DEF N

AsWished(pool, desired) == \A i \in 1..Len(desired) : pool.videos[desired[i].id] = desired[i].state

LEMMA ReachedAll ==
    ASSUME NEW decoders \in SUBSET Streams, NEW pool, PoolHolds(pool, decoders), NEW desired \in Seq(Wishes),
           WishesApart(desired), LiveVideos(pool.videos) \subseteq Wanted(desired),
           NEW S, ClosesOnly(pool.plan, S), OpensOnly(pool.plan, Wanted(desired)),
           NEW new, new = ReachAll(pool, desired)
    PROVE  /\ PoolHolds(new, decoders) /\ LiveVideos(new.videos) \subseteq Wanted(desired)
           /\ ClosesOnly(new.plan, S) /\ OpensOnly(new.plan, Wanted(desired))
           /\ Len(desired) <= MaxLive => AsWished(new, desired)
<1> DEFINE N == Len(desired)
           W == Wanted(desired)
           AllFits == N <= MaxLive
           Holds(p, n) == /\ PoolHolds(p, decoders) /\ LiveVideos(p.videos) \subseteq W
                          /\ ClosesOnly(p.plan, S) /\ OpensOnly(p.plan, W)
                          /\ AllFits => \A i \in 1..n : p.videos[desired[i].id] = desired[i].state
<1>1. PICK reached : ReachesFrom(reached, pool, desired) /\ new = reached[N]
  BY ReachSteps
<1>2. reached[0] = pool /\ \A n \in 1..N : reached[n] = Reach(reached[n - 1], desired[n])
  BY <1>1 DEF ReachesFrom
<1>3. /\ N \in Nat /\ W \in SUBSET Streams /\ IsFiniteSet(W) /\ Cardinality(W) \in Nat /\ Cardinality(W) <= N
      /\ \A i \in 1..N : desired[i] \in Wishes /\ desired[i].id \in W
  BY WishesCounted
<1> DEFINE Good == {n \in 0..N : Holds(reached[n], n)}
<1>4. 0 \in Good
  <2>1. Holds(pool, 0) /\ 0 \in 0..N
    BY <1>3
  <2> HIDE DEF Holds
  <2>2. QED
    BY <1>2, <2>1
<1>5. ASSUME NEW n \in 0..N, n + 1 \in 0..N, n \in Good PROVE n + 1 \in Good
  <2> DEFINE p == reached[n]
             desire == desired[n + 1]
             q == Reach(p, desire)
  <2>1. n \in Nat /\ n + 1 \in 1..N /\ (n + 1) - 1 = n
    BY <1>3, <1>5
  <2>2. reached[n + 1] = q /\ Holds(p, n)
    BY <1>2, <1>5, <2>1
  <2>3. desire \in Wishes /\ desire.id \in W /\ desire.id \in Streams
    BY <1>3, <2>1
  <2>4. \A i \in 1..n : desired[i].id # desire.id /\ desired[i].id \in Streams
    BY <1>3, <2>1 DEF WishesApart
  <2>5. desire = desired[n + 1]
    OBVIOUS
  <2> HIDE DEF p, desire, W
  <2>6. PoolHolds(p, decoders) /\ LiveVideos(p.videos) \subseteq W /\ ClosesOnly(p.plan, S) /\ OpensOnly(p.plan, W)
    BY <2>2
  <2>7. PoolHolds(q, decoders) /\ Reaches(p, desire, q)
    BY <2>3, <2>6, Reached
  <2> HIDE DEF q
  <2>8. LiveVideos(q.videos) \subseteq W /\ ClosesOnly(q.plan, S) /\ OpensOnly(q.plan, W)
    BY <2>3, <2>6, <2>7 DEF Reaches
  <2>9. ASSUME AllFits PROVE q.videos[desire.id] = desire.state
    <3>1. CASE p.videos[desire.id] # "closed"
      BY <2>7, <3>1 DEF Reaches
    <3>2. CASE p.videos[desire.id] = "closed"
      <4>1. LiveVideos(p.videos) \in SUBSET (W \ {desire.id})
        BY <2>6, <3>2 DEF LiveVideos
      <4>2. IsFiniteSet(W \ {desire.id}) /\ Cardinality(W \ {desire.id}) = Cardinality(W) - 1
        BY <1>3, <2>3, FS_RemoveElement
      <4>3. Cardinality(LiveVideos(p.videos)) <= Cardinality(W \ {desire.id})
        BY <4>1, <4>2, FS_Subset
      <4>4. Cardinality(LiveVideos(p.videos)) \in Nat /\ MaxLive \in Nat
        BY FewVideos
      <4>5. Cardinality(LiveVideos(p.videos)) < MaxLive
        BY <1>3, <2>9, <4>2, <4>3, <4>4
      <4>6. QED
        BY <2>7, <4>5 DEF Reaches
    <3>3. QED
      BY <3>1, <3>2
  <2>10. AllFits => \A i \in 1..(n + 1) : q.videos[desired[i].id] = desired[i].state
    <3>1. ASSUME AllFits, NEW i \in 1..(n + 1) PROVE q.videos[desired[i].id] = desired[i].state
      <4>1. CASE i = n + 1
        BY <2>5, <2>9, <3>1, <4>1
      <4>2. CASE i # n + 1
        <5>1. i \in 1..n
          BY <2>1, <4>2
        <5>2. p.videos[desired[i].id] = desired[i].state
          BY <2>2, <3>1, <5>1
        <5>3. q.videos[desired[i].id] = p.videos[desired[i].id]
          BY <2>4, <2>7, <5>1 DEF Reaches
        <5>4. QED
          BY <5>2, <5>3
      <4>3. QED
        BY <4>1, <4>2
    <3>2. QED
      BY <3>1
  <2>11. Holds(q, n + 1)
    BY <2>7, <2>8, <2>10
  <2> HIDE DEF Holds
  <2>12. QED
    BY <1>5, <2>2, <2>11
<1>6. Holds(new, N)
  <2> HIDE DEF Good, Holds
  <2>1. 0..N \subseteq Good
    BY <1>3, <1>4, <1>5, StepByStep
  <2>2. Holds(reached[N], N)
    BY <1>3, <2>1 DEF Good
  <2>3. QED
    BY <1>1, <2>2
<1>7. QED
  BY <1>6 DEF AsWished

-----------------------------------------------------------------------------
(* Three runs of videos, none of which shares one with another.             *)
LEMMA Desires ==
    ASSUME NEW first \in Streams, NEW last \in Streams, first <= last
    PROVE  Desired(first, last) \in Seq(Wishes) /\ WishesApart(Desired(first, last))
<1> DEFINE plays(s) == [id |-> s, state |-> "playing"]
           warm(s) == [id |-> s, state |-> "warm"]
           ahead == IF last + PreloadAhead < FeedLength THEN PreloadAhead ELSE FeedLength - last
           behind == IF first - 1 < PreloadBehind THEN first - 1 ELSE PreloadBehind
           seen == last - first + 1
           A == [i \in 1..seen |-> plays(first + i - 1)]
           B == [i \in 1..ahead |-> warm(last + i)]
           C == [i \in 1..behind |-> warm(first - i)]
<1>1. /\ FeedLength \in Nat /\ PreloadAhead \in Nat /\ PreloadBehind \in Nat
      /\ first \in 1..FeedLength /\ last \in 1..FeedLength
  BY FeedAssumption DEF Streams
<1>2. /\ seen \in Nat /\ ahead \in Nat /\ behind \in Nat
      /\ last + ahead <= FeedLength /\ first - behind >= 1
  BY <1>1
<1> HIDE DEF ahead, behind
<1>3. /\ \A i \in 1..seen : first + i - 1 \in first..last /\ first + i - 1 \in Streams
      /\ \A i \in 1..ahead : last + i > last /\ last + i \in Streams
      /\ \A i \in 1..behind : first - i < first /\ first - i \in Streams
  BY <1>1, <1>2 DEF Streams
<1>4. \A s \in Streams : plays(s) \in Wishes /\ warm(s) \in Wishes /\ plays(s).id = s /\ warm(s).id = s
  BY DEF Wishes
<1> HIDE DEF plays, warm
<1>5. A \in Seq(Wishes) /\ Len(A) = seen /\ \A i \in 1..seen : A[i].id = first + i - 1
  BY <1>2, <1>3, <1>4
<1>6. B \in Seq(Wishes) /\ Len(B) = ahead /\ \A i \in 1..ahead : B[i].id = last + i
  BY <1>2, <1>3, <1>4
<1>7. C \in Seq(Wishes) /\ Len(C) = behind /\ \A i \in 1..behind : C[i].id = first - i
  BY <1>2, <1>3, <1>4
<1>8. Desired(first, last) = A \o B \o C
  BY DEF Desired, ahead, behind, plays, warm
<1> HIDE DEF A, B, C, seen
<1> DEFINE D == A \o B
           E == D \o C
<1>9. /\ D \in Seq(Wishes) /\ Len(D) = seen + ahead
      /\ \A i \in 1..(seen + ahead) : D[i] = IF i <= seen THEN A[i] ELSE B[i - seen]
  BY <1>5, <1>6, ConcatProperties
<1> HIDE DEF D
<1>10. /\ E \in Seq(Wishes) /\ Len(E) = seen + ahead + behind
       /\ \A i \in 1..(seen + ahead + behind) : E[i] = IF i <= seen + ahead THEN D[i] ELSE C[i - (seen + ahead)]
  <2>1. /\ E \in Seq(Wishes) /\ Len(E) = Len(D) + Len(C)
        /\ \A i \in 1..(Len(D) + Len(C)) : E[i] = IF i <= Len(D) THEN D[i] ELSE C[i - Len(D)]
    BY <1>7, <1>9, ConcatProperties
  <2> HIDE DEF E
  <2>2. QED
    BY <1>7, <1>9, <2>1
<1> DEFINE At(i) == IF i <= seen THEN first + i - 1
                    ELSE IF i <= seen + ahead THEN last + (i - seen)
                    ELSE first - (i - (seen + ahead))
<1> HIDE DEF E
<1>11. \A i \in 1..(seen + ahead + behind) : E[i].id = At(i)
  <2>1. ASSUME NEW i \in 1..(seen + ahead + behind) PROVE E[i].id = At(i)
    <3>1. CASE i <= seen
      <4>1. i \in 1..seen /\ i \in 1..(seen + ahead) /\ i <= seen + ahead
        BY <1>2, <3>1
      <4>2. QED
        BY <1>5, <1>9, <1>10, <3>1, <4>1
    <3>2. CASE ~(i <= seen) /\ i <= seen + ahead
      <4>1. i \in 1..(seen + ahead) /\ i - seen \in 1..ahead
        BY <1>2, <3>2
      <4>2. QED
        BY <1>6, <1>9, <1>10, <3>2, <4>1
    <3>3. CASE ~(i <= seen + ahead)
      <4>1. i - (seen + ahead) \in 1..behind /\ ~(i <= seen)
        BY <1>2, <3>3
      <4>2. QED
        BY <1>7, <1>10, <3>3, <4>1
    <3>4. QED
      BY <1>2, <3>1, <3>2, <3>3
  <2>2. QED
    BY <2>1
<1>12. \A i, j \in 1..(seen + ahead + behind) : At(i) = At(j) => i = j
  BY <1>1, <1>2 DEF seen
<1>13. WishesApart(E)
  <2> HIDE DEF At
  <2>1. QED
    BY <1>10, <1>11, <1>12 DEF WishesApart
<1>14. QED
  BY <1>8, <1>10, <1>13 DEF D, E

Pool == [videos |-> videos, order |-> order, plan |-> plan]

FeedInv ==
    /\ FeedTypeOK /\ FeedPoolHolds
    /\ PoolHolds(Pool, opened)

(* The pool that a plan starts from.                                        *)
Untouched == [videos |-> videos, order |-> order, plan |-> NoPlan]

LEMMA FreshHolds ==
    ASSUME FeedInv
    PROVE  /\ PoolHolds(Untouched, LiveVideos(videos)) /\ LiveVideos(videos) \in SUBSET Streams
           /\ Range(order) = LiveVideos(videos) /\ order \in Seq(Streams)
           /\ \A S : ClosesOnly(Untouched.plan, S) /\ OpensOnly(Untouched.plan, S)
<1> DEFINE live == LiveVideos(videos)
<1>1. /\ Untouched.videos = videos /\ Untouched.order = order /\ Untouched.plan = <<>>
      /\ Pool.videos = videos /\ Pool.order = order /\ Pool.plan = plan
  BY DEF Untouched, Pool, NoPlan
<1>2. /\ Pool \in Pools /\ AllApart(order) /\ Range(order) = live /\ LeadsTo(opened, plan, MaxLive, live)
  BY <1>1 DEF FeedInv, PoolHolds
<1>3. /\ videos \in [Streams -> {"playing", "warm", "closed"}] /\ order \in Seq(Streams) /\ plan \in Seq(Transition)
  BY DEF FeedInv, FeedTypeOK
<1>4. Untouched \in Pools
  BY <1>3 DEF Untouched, Pools, NoPlan
<1>5. live \in SUBSET Streams /\ Cardinality(live) <= MaxLive /\ MaxLive \in Nat
  <2>1. live \in SUBSET Streams /\ MaxLive \in Nat
    BY FewVideos
  <2>2. Len(plan) \in 0..Len(plan)
    BY <1>3
  <2>3. QED
    BY <1>2, <2>1, <2>2 DEF LeadsTo, StaysWithin
<1>6. LeadsTo(live, <<>>, MaxLive, live)
  <2> HIDE DEF live
  <2>1. QED
    BY <1>5, NoSteps
<1>7. PoolHolds(Untouched, live)
  BY <1>1, <1>2, <1>4, <1>6, Zenon DEF PoolHolds
<1>8. \A S : ClosesOnly(<<>>, S) /\ OpensOnly(<<>>, S)
  BY DEF ClosesOnly, OpensOnly
<1>9. QED
  BY <1>1, <1>2, <1>3, <1>5, <1>7, <1>8

(* What a pool that was reached makes true.                                 *)
LEMMA FollowHolds ==
    ASSUME FeedInv, NEW pool, NEW desired \in Seq(Wishes), Follow(pool, desired),
           PoolHolds(pool, LiveVideos(videos)), LiveVideos(pool.videos) \subseteq Wanted(desired),
           Len(desired) <= MaxLive =>
              /\ \A i \in 1..Len(desired) : pool.videos[desired[i].id] = desired[i].state
              /\ ClosesOnly(pool.plan, Streams \ Wanted(desired)) /\ OpensOnly(pool.plan, Wanted(desired))
    PROVE  FeedInv'
<1>1. /\ videos' = pool.videos /\ order' = pool.order /\ plan' = pool.plan
      /\ wish' = desired /\ opened' = LiveVideos(videos)
  BY DEF Follow
<1>2. /\ pool \in Pools /\ AllApart(pool.order) /\ Range(pool.order) = LiveVideos(pool.videos)
      /\ LeadsTo(LiveVideos(videos), pool.plan, MaxLive, LiveVideos(pool.videos))
  BY DEF PoolHolds
<1>3. /\ pool.videos \in [Streams -> {"playing", "warm", "closed"}] /\ pool.order \in Seq(Streams)
      /\ pool.plan \in Seq(Transition) /\ LiveVideos(videos) \in SUBSET Streams
  BY <1>2, FewVideos DEF Pools
<1>4. FeedTypeOK'
  BY <1>1, <1>3 DEF FeedTypeOK
<1>5. PoolHolds(Pool, opened)'
  <2>1. Pool' = [videos |-> pool.videos, order |-> pool.order, plan |-> pool.plan]
    BY <1>1 DEF Pool
  <2>2. Pool' \in Pools /\ Pool'.videos = pool.videos /\ Pool'.order = pool.order /\ Pool'.plan = pool.plan
    BY <1>3, <2>1 DEF Pools
  <2>3. PoolHolds(Pool', LiveVideos(videos))
    BY <1>2, <2>2 DEF PoolHolds
  <2>4. QED
    BY <1>1, <2>3 DEF PoolHolds
<1>6. /\ LiveVideos(videos') = {order'[i] : i \in DOMAIN order'}
      /\ Cardinality(LiveVideos(videos')) = Len(order')
  <2> DEFINE o == pool.order
             n == Len(o)
  <2>1. n \in Nat /\ DOMAIN o = 1..n /\ \A i \in 1..n : o[i] \in Range(o)
    BY <1>3, ElementsOf
  <2>2. \A i, j \in 1..n : o[i] = o[j] => i = j
    BY <1>2, <2>1 DEF AllApart
  <2>3. o \in Bijection(1..n, Range(o))
    <3>1. o \in [1..n -> Range(o)]
      BY <1>3, <2>1
    <3>2. \A x \in Range(o) : \E i \in 1..n : o[i] = x
      BY <2>1 DEF Range
    <3>3. QED
      BY <2>2, <3>1, <3>2 DEF Bijection, Injection, IsInjective, Surjection
  <2>4. IsFiniteSet(1..n) /\ Cardinality(1..n) = n
    <3>1. 1 \in Int /\ n \in Int
      BY <2>1
    <3> HIDE DEF n
    <3>2. IsFiniteSet(1..n) /\ Cardinality(1..n) = IF 1 > n THEN 0 ELSE n - 1 + 1
      BY <3>1, FS_Interval
    <3>3. (IF 1 > n THEN 0 ELSE n - 1 + 1) = n
      BY <2>1
    <3>4. QED
      BY <3>2, <3>3
  <2>5. Cardinality(Range(o)) = n
    <3>1. ExistsBijection(1..n, Range(o))
      BY <2>3 DEF ExistsBijection
    <3> HIDE DEF n, o
    <3>2. Cardinality(Range(o)) = Cardinality(1..n)
      BY <2>4, <3>1, FS_Bijection
    <3>3. QED
      BY <2>4, <3>2
  <2>6. Range(o) = {o[i] : i \in DOMAIN o}
    BY DEF Range
  <2>7. QED
    BY <1>1, <1>2, <2>5, <2>6
<1>7. StaysWithin(opened, plan, MaxLive)' /\ (Applying(opened, plan, Len(plan)) = LiveVideos(videos))'
  BY <1>1, <1>2 DEF LeadsTo, StaysWithin
<1>8. DOMAIN desired = 1..Len(desired) /\ DOMAIN pool.plan = 1..Len(pool.plan)
  BY <1>3
<1>9. Len(desired) <= MaxLive =>
         /\ \A i \in DOMAIN desired : pool.videos[desired[i].id] = desired[i].state
         /\ \A i, j \in DOMAIN pool.plan :
               pool.plan[i].op = "close" /\ pool.plan[j].op = "open" => pool.plan[i].id # pool.plan[j].id
  <2>1. SUFFICES ASSUME Len(desired) <= MaxLive
                 PROVE  /\ \A i \in DOMAIN desired : pool.videos[desired[i].id] = desired[i].state
                        /\ \A i, j \in DOMAIN pool.plan :
                              pool.plan[i].op = "close" /\ pool.plan[j].op = "open"
                                 => pool.plan[i].id # pool.plan[j].id
    OBVIOUS
  <2>2. ClosesOnly(pool.plan, Streams \ Wanted(desired)) /\ OpensOnly(pool.plan, Wanted(desired))
        /\ \A i \in 1..Len(desired) : pool.videos[desired[i].id] = desired[i].state
    BY <2>1
  <2>3. \A i, j \in 1..Len(pool.plan) :
           pool.plan[i].op = "close" /\ pool.plan[j].op = "open" => pool.plan[i].id # pool.plan[j].id
    BY <2>2 DEF ClosesOnly, OpensOnly
  <2>4. QED
    BY <1>8, <2>2, <2>3
<1>10. FeedPoolHolds'
  BY <1>1, <1>6, <1>7, <1>9 DEF FeedPoolHolds
<1>11. QED
  BY <1>4, <1>5, <1>10 DEF FeedInv

LEMMA CloseFeedHolds == ASSUME FeedInv, CloseFeed PROVE FeedInv'
<1> DEFINE live == LiveVideos(videos)
           pool == CloseAll(Untouched, order)
<1>1. Follow(pool, <<>>) /\ <<>> \in Seq(Wishes)
  BY DEF CloseFeed, Untouched
<1>2. /\ PoolHolds(Untouched, live) /\ live \in SUBSET Streams /\ Range(order) = live /\ order \in Seq(Streams)
      /\ \A S : ClosesOnly(Untouched.plan, S) /\ OpensOnly(Untouched.plan, S)
  BY FreshHolds
<1>3. Wanted(<<>>) = {}
  BY DEF Wanted
<1>4. /\ PoolHolds(pool, live)
      /\ \A s \in Streams : pool.videos[s] = IF s \in Range(order) THEN "closed" ELSE Untouched.videos[s]
      /\ ClosesOnly(pool.plan, Streams) /\ OpensOnly(pool.plan, {})
  <2>1. Range(order) \subseteq Streams /\ ClosesOnly(Untouched.plan, Streams) /\ OpensOnly(Untouched.plan, {})
    BY <1>2
  <2> HIDE DEF live
  <2>2. QED
    BY <1>2, <2>1, ClosedAll
<1>5. LiveVideos(pool.videos) = {}
  <2>1. \A s \in Streams : Untouched.videos[s] = videos[s]
    BY DEF Untouched
  <2>2. QED
    BY <1>2, <1>4, <2>1 DEF LiveVideos
<1>6. \A i \in 1..Len(<<>>) : FALSE
  OBVIOUS
<1> DEFINE none == <<>>
<1> HIDE DEF pool, live
<1>7. /\ none \in Seq(Wishes) /\ Follow(pool, none) /\ LiveVideos(pool.videos) \subseteq Wanted(none)
      /\ ClosesOnly(pool.plan, Streams \ Wanted(none)) /\ OpensOnly(pool.plan, Wanted(none))
      /\ \A i \in 1..Len(none) : pool.videos[none[i].id] = none[i].state
  <2>1. Streams \ {} = Streams
    OBVIOUS
  <2>2. QED
    BY <1>1, <1>3, <1>4, <1>5, <1>6, <2>1
<1> HIDE DEF none
<1>8. QED
  BY <1>4, <1>7, FollowHolds DEF live

LEMMA ReconcileFeedHolds ==
    ASSUME FeedInv, NEW first \in Streams, NEW last \in Streams, first <= last, ReconcileFeed(first, last)
    PROVE  FeedInv'
<1> DEFINE desired == Desired(first, last)
           live == LiveVideos(videos)
           W == Wanted(desired)
           gone == Unwanted(Untouched, desired)
           left == CloseAll(Untouched, gone)
           cut == FirstOf(EvictionCandidates(left, desired), Deficit(desired))
           thinned == CloseAll(left, cut)
           pool == ReachAll(thinned, desired)
<1>1. Follow(pool, desired)
  BY Zenon DEF ReconcileFeed, Reconciled, Untouched
<1>2. desired \in Seq(Wishes) /\ WishesApart(desired)
  BY Desires
<1> HIDE DEF desired
<1>3. /\ PoolHolds(Untouched, live) /\ live \in SUBSET Streams /\ Range(order) = live /\ order \in Seq(Streams)
      /\ Untouched.order = order /\ Untouched.videos = videos
      /\ \A S : ClosesOnly(Untouched.plan, S) /\ OpensOnly(Untouched.plan, S)
  BY FreshHolds DEF Untouched
<1>4. gone \in Seq(Streams) /\ Range(gone) = live \ W
  BY <1>3, ApartFromSome DEF Unwanted
<1> HIDE DEF gone, live
<1>5. /\ PoolHolds(left, live)
      /\ \A s \in Streams : left.videos[s] = IF s \in Range(gone) THEN "closed" ELSE videos[s]
      /\ ClosesOnly(left.plan, Streams \ W) /\ OpensOnly(left.plan, W)
  <2>1. Range(gone) \subseteq Streams \ W /\ ClosesOnly(Untouched.plan, Streams \ W) /\ OpensOnly(Untouched.plan, W)
    BY <1>3, <1>4
  <2>2. PoolHolds(Untouched, live) /\ live \in SUBSET Streams /\ gone \in Seq(Streams) /\ Untouched.videos = videos
    BY <1>3, <1>4
  <2> DEFINE others == Streams \ W
  <2> HIDE DEF W, others, left
  <2>3. /\ PoolHolds(CloseAll(Untouched, gone), live)
        /\ \A s \in Streams : CloseAll(Untouched, gone).videos[s]
                                 = IF s \in Range(gone) THEN "closed" ELSE Untouched.videos[s]
        /\ ClosesOnly(CloseAll(Untouched, gone).plan, others) /\ OpensOnly(CloseAll(Untouched, gone).plan, W)
    <3>1. Range(gone) \subseteq others /\ ClosesOnly(Untouched.plan, others)
      BY <2>1 DEF others
    <3>2. QED
      BY <2>1, <2>2, <3>1, ClosedAll
  <2>4. QED
    BY <2>2, <2>3, Zenon DEF left, others
<1>6. LiveVideos(left.videos) \subseteq W
  BY <1>4, <1>5 DEF LiveVideos, live
<1> HIDE DEF left
<1>7. cut \in Seq(Streams) /\ (Len(desired) <= MaxLive => Range(cut) = {})
  <2> DEFINE cands == EvictionCandidates(left, desired)
             d == Deficit(desired)
             k == IF Len(cands) < d THEN Len(cands) ELSE d
  <2>1. left.order \in Seq(Streams)
    BY <1>5 DEF PoolHolds, Pools
  <2>2. cands \in Seq(Streams)
    BY <2>1, ApartFromSome DEF EvictionCandidates
  <2>3. /\ d \in Nat /\ MaxLive \in Nat /\ Len(desired) \in Nat
        /\ Len(desired) <= MaxLive => d = 0
    BY <1>2, FeedAssumption DEF Deficit
  <2>4. cut = SubSeq(cands, 1, k)
    BY DEF FirstOf
  <2> HIDE DEF cands, d
  <2>5. k \in Nat /\ k <= Len(cands) /\ (d = 0 => k = 0)
    BY <2>2, <2>3
  <2> HIDE DEF k, cut
  <2>6. cut \in Seq(Streams) /\ Len(cut) = k
    BY <2>2, <2>4, <2>5
  <2>7. k = 0 => Range(cut) = {}
    BY <2>6 DEF Range
  <2>8. QED
    BY <2>3, <2>5, <2>6, <2>7
<1> HIDE DEF cut
<1>8. \A T : /\ Range(cut) \subseteq T /\ ClosesOnly(left.plan, T)
             => /\ PoolHolds(thinned, live)
                /\ \A s \in Streams : thinned.videos[s] = IF s \in Range(cut) THEN "closed" ELSE left.videos[s]
                /\ ClosesOnly(thinned.plan, T) /\ OpensOnly(thinned.plan, W)
  <2>1. ASSUME NEW T, Range(cut) \subseteq T, ClosesOnly(left.plan, T)
        PROVE  /\ PoolHolds(thinned, live)
               /\ \A s \in Streams : thinned.videos[s] = IF s \in Range(cut) THEN "closed" ELSE left.videos[s]
               /\ ClosesOnly(thinned.plan, T) /\ OpensOnly(thinned.plan, W)
    <3> HIDE DEF W
    <3>1. OpensOnly(left.plan, W) /\ PoolHolds(left, live) /\ live \in SUBSET Streams
      BY <1>3, <1>5
    <3>2. QED
      BY <1>7, <2>1, <3>1, ClosedAll
  <2>2. QED
    BY <2>1
<1>9. ClosesOnly(left.plan, Streams) /\ Range(cut) \subseteq Streams
  <2>1. \A x \in Range(cut) : x \in Streams
    BY <1>7, ElementsOf
  <2>2. QED
    BY <1>5, <2>1 DEF ClosesOnly
<1> DEFINE S == IF Len(desired) <= MaxLive THEN Streams \ W ELSE Streams
<1>10. Range(cut) \subseteq S /\ ClosesOnly(left.plan, S)
  BY <1>5, <1>7, <1>9
<1> HIDE DEF thinned
<1>11. /\ PoolHolds(thinned, live) /\ ClosesOnly(thinned.plan, S) /\ OpensOnly(thinned.plan, W)
       /\ \A s \in Streams : thinned.videos[s] = IF s \in Range(cut) THEN "closed" ELSE left.videos[s]
  BY <1>8, <1>10
<1>12. LiveVideos(thinned.videos) \subseteq W
  BY <1>6, <1>11 DEF LiveVideos
<1>13. /\ PoolHolds(pool, live) /\ LiveVideos(pool.videos) \subseteq W
       /\ ClosesOnly(pool.plan, S) /\ OpensOnly(pool.plan, W)
       /\ Len(desired) <= MaxLive =>
             \A i \in 1..Len(desired) : pool.videos[desired[i].id] = desired[i].state
  <2> HIDE DEF S
  <2>1. live \in SUBSET Streams /\ PoolHolds(thinned, live) /\ desired \in Seq(Wishes) /\ WishesApart(desired)
    BY <1>2, <1>3, <1>11
  <2>2. /\ LiveVideos(thinned.videos) \subseteq Wanted(desired)
        /\ ClosesOnly(thinned.plan, S) /\ OpensOnly(thinned.plan, Wanted(desired))
    BY <1>11, <1>12
  <2>3. pool = ReachAll(thinned, desired)
    OBVIOUS
  <2> HIDE DEF pool
  <2>4. /\ PoolHolds(pool, live) /\ LiveVideos(pool.videos) \subseteq Wanted(desired)
        /\ ClosesOnly(pool.plan, S) /\ OpensOnly(pool.plan, Wanted(desired))
        /\ Len(desired) <= MaxLive => AsWished(pool, desired)
    BY <2>1, <2>2, <2>3, ReachedAll
  <2>5. QED
    BY <2>4 DEF AsWished
<1> HIDE DEF pool
<1>14. QED
  BY <1>1, <1>2, <1>13, FollowHolds DEF live

LEMMA FeedStarts == FeedInit => FeedInv
<1> SUFFICES ASSUME FeedInit PROVE FeedInv
  OBVIOUS
<1>1. videos = [s \in Streams |-> "closed"] /\ order = <<>> /\ wish = <<>> /\ opened = {} /\ plan = <<>>
  BY DEF FeedInit, NoPlan
<1>2. LiveVideos(videos) = {}
  BY <1>1 DEF LiveVideos
<1>3. IsFiniteSet({}) /\ Cardinality({}) = 0 /\ MaxLive \in Nat
  BY FS_EmptySet, FeedAssumption
<1>4. LeadsTo({}, <<>>, MaxLive, {})
  <2>1. {} \in SUBSET Streams /\ Cardinality({}) <= MaxLive
    BY <1>3
  <2>2. QED
    BY <1>3, <2>1, NoSteps
<1>5. FeedTypeOK
  BY <1>1 DEF FeedTypeOK
<1>6. Pool \in Pools /\ Pool.videos = videos /\ Pool.order = order /\ Pool.plan = plan
  BY <1>5 DEF FeedTypeOK, Pool, Pools
<1>7. AllApart(order) /\ Range(order) = {} /\ Len(order) = 0
  BY <1>1 DEF AllApart, Range
<1>8. LeadsTo(opened, plan, MaxLive, LiveVideos(videos))
  BY <1>1, <1>2, <1>4, Zenon
<1>9. PoolHolds(Pool, opened)
  BY <1>2, <1>6, <1>7, <1>8 DEF PoolHolds
<1>10. Wanted(wish) = {} /\ DOMAIN wish = {} /\ DOMAIN plan = {} /\ DOMAIN order = {}
  BY <1>1 DEF Wanted
<1>11. FeedPoolHolds
  <2>1. LiveVideos(videos) = {order[i] : i \in DOMAIN order} /\ Cardinality(LiveVideos(videos)) = Len(order)
    BY <1>2, <1>3, <1>7, <1>10
  <2>2. QED
    BY <1>2, <1>8, <1>10, <2>1 DEF FeedPoolHolds, LeadsTo
<1>12. QED
  BY <1>5, <1>9, <1>11 DEF FeedInv

(* The invariant of the feed.                                               *)
LEMMA FeedInvHolds == FeedSpec => []FeedInv
<1>1. ASSUME FeedInv, [FeedNext]_feedVars PROVE FeedInv'
  <2>1. CASE CloseFeed
    BY <1>1, <2>1, CloseFeedHolds
  <2>2. ASSUME NEW first \in Streams, NEW last \in Streams, first <= last, ReconcileFeed(first, last)
        PROVE  FeedInv'
    BY <1>1, <2>2, ReconcileFeedHolds
  <2>3. CASE UNCHANGED feedVars
    <3>1. FeedTypeOK'
      BY <1>1, <2>3, Zenon DEF feedVars, FeedInv, FeedTypeOK
    <3>2. PoolHolds(Pool, opened)'
      BY <1>1, <2>3, Zenon DEF feedVars, FeedInv, Pool, PoolHolds
    <3>3. FeedPoolHolds'
      <4>1. FeedPoolHolds /\ videos' = videos /\ order' = order /\ wish' = wish
            /\ opened' = opened /\ plan' = plan
        BY <1>1, <2>3 DEF feedVars, FeedInv
      <4>2. /\ StaysWithin(opened', plan', MaxLive)
            /\ Applying(opened', plan', Len(plan')) = LiveVideos(videos')
            /\ LiveVideos(videos') = {order'[i] : i \in DOMAIN order'}
            /\ Cardinality(LiveVideos(videos')) = Len(order')
            /\ LiveVideos(videos') \subseteq Wanted(wish')
        BY <4>1 DEF FeedPoolHolds
      <4>3. ASSUME Len(wish') <= MaxLive
            PROVE  /\ \A i \in DOMAIN wish' : videos'[wish'[i].id] = wish'[i].state
                   /\ \A i, j \in DOMAIN plan' :
                         plan'[i].op = "close" /\ plan'[j].op = "open" => plan'[i].id # plan'[j].id
        BY <4>1, <4>3 DEF FeedPoolHolds
      <4>4. QED
        BY <4>2, <4>3 DEF FeedPoolHolds
    <3>4. QED
      BY <3>1, <3>2, <3>3 DEF FeedInv
  <2>4. QED
    BY <1>1, <2>1, <2>2, <2>3 DEF FeedNext
<1>2. QED
  BY <1>1, FeedStarts, PTL DEF FeedSpec

-----------------------------------------------------------------------------
(* The parts together.                                                      *)

(* Whoever asked, the ids in hand and the clock keep their types.           *)
LEMMA IdsAreTyped == IdsSpec => []IdsTypeOK
<1>1. IdsInv => IdsTypeOK
  BY DEF IdsInv
<1>2. QED
  BY <1>1, IdsInvHolds, PTL

LEMMA UploadsAreTyped == UploadSpec => []UploadTypeOK
<1>1. UploadInv => UploadTypeOK
  BY DEF UploadInv
<1>2. QED
  BY <1>1, UploadInvHolds, PTL

(* A view is at most at the revision of as many commits as there were.      *)
BusCounts ==
    /\ commits \in 0..MaxCommits
    /\ revision \in [BusViews -> 0..commits]
    /\ shown \in [Readers -> 0..commits]

LEMMA BusIsTyped == BusSpec => []BusTypeOK
<1>1. BusInit => BusCounts
  BY BusCapacityAssumption DEF BusInit, BusCounts
<1>2. ASSUME BusInv, BusCounts, [BusNext]_busVars PROVE BusCounts'
  <2>1. ASSUME NEW w \in Writers, Publish(w) PROVE BusCounts'
    BY <1>2, <2>1 DEF Publish, BusCounts
  <2>2. ASSUME NEW w \in Writers, NEW v \in BusViews, CommitRevision(w, v) PROVE BusCounts'
    <3>1. /\ commits' = commits + 1 /\ commits \in Nat /\ MaxCommits \in Nat
          /\ commits' \in 0..MaxCommits /\ shown' = shown /\ revision' = [revision EXCEPT ![v] = @ + 1]
      BY <1>2, <2>2, BusCapacityAssumption DEF CommitRevision, BusCounts
    <3>2. \A u \in BusViews : revision'[u] \in 0..commits'
      BY <1>2, <3>1 DEF BusCounts
    <3>3. \A r \in Readers : shown'[r] \in 0..commits'
      BY <1>2, <3>1 DEF BusCounts
    <3>4. QED
      BY <1>2, <3>1, <3>2, <3>3 DEF BusCounts
  <2>3. ASSUME NEW r \in Readers, ReadAgain(r) PROVE BusCounts'
    <3>1. Watches[r] \in BusViews
      BY WatchesAssumption
    <3>2. QED
      BY <1>2, <2>3, <3>1 DEF ReadAgain, BusCounts
  <2>4. ASSUME NEW r \in Readers, Subscribe(r) \/ NextChange(r) \/ Overflow(r) PROVE BusCounts'
    BY <1>2, <2>4 DEF Subscribe, NextChange, Overflow, BusCounts
  <2>5. CASE UNCHANGED busVars
    BY <1>2, <2>5 DEF busVars, BusCounts
  <2>6. QED
    BY <1>2, <2>1, <2>2, <2>3, <2>4, <2>5 DEF BusNext
<1>3. ASSUME BusInv, BusCounts PROVE BusTypeOK
  <2>1. 0..commits \subseteq 0..MaxCommits
    BY <1>3, BusCapacityAssumption DEF BusCounts
  <2>2. QED
    BY <1>3, <2>1 DEF BusInv, BusTypes, BusCounts, BusTypeOK
<1>4. QED
  BY <1>1, <1>2, <1>3, BusStarts, BusStep, PTL DEF BusSpec

(* A part that moves takes a step of its own; one at rest takes none.       *)
LEMMA EnginePartsStep ==
    ASSUME [EngineNext]_<<part, engineVars, mediaVars>>
    PROVE  /\ [Next]_vars /\ [StoreNext]_storeVars /\ [ViewsNext]_viewsVars /\ [BusNext]_busVars
           /\ [DebounceNext]_debounceVars /\ [IdsNext]_idVars /\ [UploadNext]_uploadVars
           /\ [FeedNext]_feedVars /\ [TracksNext]_trackVars /\ [RasterNext]_rasterVars /\ [RingNext]_ringVars
<1>1. CASE EngineNext
  BY <1>1, Zenon DEF EngineNext, OthersRest
<1>2. CASE UNCHANGED <<part, engineVars, mediaVars>>
  BY <1>2 DEF engineVars, mediaVars
<1>3. QED
  BY <1>1, <1>2

LEMMA EnginePartsStart ==
    EngineInit => /\ Init /\ StoreInit /\ ViewsInit /\ BusInit /\ DebounceInit /\ IdsInit /\ UploadInit
                  /\ FeedInit /\ TracksInit /\ RasterInit /\ RingInit
  BY DEF EngineInit

(* Whatever the user scrolls to and whatever is queued, at every moment of  *)
(* every plan no more decoders are open than there may be, and the ones     *)
(* open at its end are those the two schedulers count; when all that is     *)
(* wanted fits, all of it is open as wished and nothing is closed to be     *)
(* opened again (reconcile, close_all).                                     *)
THEOREM DecodersAlwaysHold == EngineSpec => []DecodersHold
<1>1. EngineSpec => FeedSpec /\ TracksSpec
  BY EnginePartsStart, EnginePartsStep, PTL DEF EngineSpec, FeedSpec, TracksSpec
<1>2. FeedInv /\ TracksInv => DecodersHold
  BY DEF FeedInv, TracksInv, DecodersHold
<1>3. QED
  BY <1>1, <1>2, FeedInvHolds, TracksInvHolds, PTL

(* Every part of the engine and of what decodes and rasterises keeps to its *)
(* types, whichever of them moves.                                          *)
THEOREM EngineIsTyped == EngineSpec => []EngineTypeOK
<1>1. /\ EngineSpec => Spec /\ StoreSpec /\ ViewsSpec /\ BusSpec /\ DebounceSpec /\ IdsSpec
      /\ EngineSpec => UploadSpec /\ FeedSpec /\ TracksSpec /\ RasterSpec /\ RingSpec
  BY EnginePartsStart, EnginePartsStep, PTL
     DEF EngineSpec, Spec, StoreSpec, ViewsSpec, BusSpec, DebounceSpec, IdsSpec,
         UploadSpec, FeedSpec, TracksSpec, RasterSpec, RingSpec
<1>2. FeedInv /\ TracksInv => FeedTypeOK /\ TracksTypeOK
  BY DEF FeedInv, TracksInv
<1>3. /\ TypeOK /\ StoreTypeOK /\ ViewsTypeOK /\ BusTypeOK /\ DebounceTypeOK /\ IdsTypeOK /\ UploadTypeOK
      /\ FeedTypeOK /\ TracksTypeOK /\ RasterTypeOK /\ RingTypeOK
      => EngineTypeOK
  BY DEF EngineTypeOK
<1>4. QED
  BY <1>1, <1>2, <1>3, RowsKeepTheirTypes, StoreKeepsItsTypes, ViewsAreTyped, BusIsTyped,
     DebouncerKeepsItsTypes, IdsAreTyped, UploadsAreTyped, FeedInvHolds, TracksInvHolds,
     RasterKeepsItsTypes, RingKeepsItsTypes, PTL

(* All that the parts promise holds of them together, whichever moves: the  *)
(* outbox lands what it owes once, alone in its lane and after its backoff; *)
(* the store has one owner, tells the truth and takes batches whole; what   *)
(* is broadcast, debounced, numbered and reported is current and in order;  *)
(* decoders, frames and samples are where they should be.                   *)
THEOREM EngineKeepsItsPromises ==
    EngineSpec =>
        /\ []OneInFlightPerLane /\ []LandsAtMostOnce /\ BackoffIsHonoured /\ KeepsTheOutboxContract
        /\ []OneOwner /\ []AnswersAreTrue /\ []TablesAgree /\ BatchesAreWhole
        /\ []CaughtUpIsCurrent /\ []NewestRunsInTime /\ []IdsIncrease /\ []NeverFarBehind
        /\ []DecodersHold /\ []FramesAreKept /\ []HeardInOrder /\ IsAChannel
<1>1. EngineSpec => Spec /\ StoreSpec /\ ViewsSpec /\ BusSpec
  BY EnginePartsStart, EnginePartsStep, PTL DEF EngineSpec, Spec, StoreSpec, ViewsSpec, BusSpec
<1>2. EngineSpec => DebounceSpec /\ IdsSpec /\ UploadSpec /\ RasterSpec /\ RingSpec
  BY EnginePartsStart, EnginePartsStep, PTL
     DEF EngineSpec, DebounceSpec, IdsSpec, UploadSpec, RasterSpec, RingSpec
<1>3. Spec => []OneInFlightPerLane /\ []LandsAtMostOnce /\ BackoffIsHonoured /\ KeepsTheOutboxContract
  BY LanesAreExclusive, LandingIsUnique, BackoffIsWaitedOut, OutboxKeepsItsContract
<1>4. /\ StoreSpec => []OneOwner /\ []AnswersAreTrue
      /\ ViewsSpec => []TablesAgree /\ BatchesAreWhole
  BY OneOwnerAlways, SubmittersAreToldTheTruth, ViewsAgree, WholeBatchesOnly
<1>5. /\ BusSpec => []CaughtUpIsCurrent
      /\ DebounceSpec => []NewestRunsInTime
      /\ IdsSpec => []IdsIncrease
      /\ UploadSpec => []NeverFarBehind
  BY ReadersCatchUp, NewestAlwaysRunsInTime, IdsIncreaseThm, ObserversKeepUp
<1>6. /\ RasterSpec => []FramesAreKept
      /\ RingSpec => []HeardInOrder /\ IsAChannel
  BY FramesStayKept, TheDeviceHearsInOrder, RingImplementsAChannel
<1>7. QED
  BY <1>1, <1>2, <1>3, <1>4, <1>5, <1>6, DecodersAlwaysHold
=============================================================================
