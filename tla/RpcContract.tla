---------------------------- MODULE RpcContract ----------------------------
(***************************************************************************)
(* What RiseWire::call promises its caller, whatever the socket does: a    *)
(* call that is made ends at most once, and a gateway answer is only ever  *)
(* returned to the call whose own request the gateway served.  A call that *)
(* fails or is given up may be served all the same, before or after.       *)
(***************************************************************************)
CONSTANT Calls

VARIABLES
    outcome,    \* outcome[c]: "idle", "open", "answered", "failed" or "abandoned"
    served      \* calls the gateway has served

vars == <<outcome, served>>

Init ==
    /\ outcome = [c \in Calls |-> "idle"]
    /\ served = {}

Become(c, from, to) ==
    /\ outcome[c] = from
    /\ outcome' = [outcome EXCEPT ![c] = to]
    /\ UNCHANGED served

Start(c) == Become(c, "idle", "open")
Answer(c) == c \in served /\ Become(c, "open", "answered")
Fail(c) == Become(c, "open", "failed")
Abandon(c) == Become(c, "open", "abandoned")

Serve(c) ==
    /\ outcome[c] # "idle"
    /\ served' = served \cup {c}
    /\ UNCHANGED outcome

Next == \E c \in Calls : Start(c) \/ Answer(c) \/ Fail(c) \/ Abandon(c) \/ Serve(c)

Spec == Init /\ [][Next]_vars
=============================================================================
