--------------------------- MODULE OutboxContract ---------------------------
(***************************************************************************)
(* What the durable outbox promises whoever enqueues an operation: it is   *)
(* owed from then on, through any number of attempts that fail, until it   *)
(* lands or is given up, and neither is ever taken back.  An operation is  *)
(* only attempted while it is owed, and no two of one lane at a time.      *)
(***************************************************************************)
EXTENDS Naturals

CONSTANT Ops        \* numbered in the order they are enqueued

VARIABLES
    lane,
    standing,       \* of each operation: "unknown", "owed", "landed" or "given_up"
    attempted       \* the operations being attempted

vars == <<lane, standing, attempted>>

Init ==
    /\ standing = [op \in Ops |-> "unknown"]
    /\ attempted = {}

Become(op, from, to) ==
    /\ standing[op] = from
    /\ standing' = [standing EXCEPT ![op] = to]

Accept(op) ==
    /\ \A earlier \in Ops : earlier < op => standing[earlier] # "unknown"
    /\ Become(op, "unknown", "owed")
    /\ UNCHANGED <<lane, attempted>>

Attempt(op) ==
    /\ standing[op] = "owed"
    /\ \A other \in attempted : lane[other] # lane[op]
    /\ attempted' = attempted \cup {op}
    /\ UNCHANGED <<lane, standing>>

Land(op) ==
    /\ op \in attempted /\ Become(op, "owed", "landed")
    /\ UNCHANGED <<lane, attempted>>

GiveUp(op) ==
    /\ op \in attempted /\ Become(op, "owed", "given_up")
    /\ attempted' = attempted \ {op}
    /\ UNCHANGED lane

(* The attempt is over: it failed for now, or the operation has landed.     *)
Leave(op) ==
    /\ op \in attempted /\ standing[op] \in {"owed", "landed"}
    /\ attempted' = attempted \ {op}
    /\ UNCHANGED <<lane, standing>>

Next == \E op \in Ops : Accept(op) \/ Attempt(op) \/ Land(op) \/ GiveUp(op) \/ Leave(op)

Spec == Init /\ [][Next]_vars
=============================================================================
