--------------------------- MODULE SampleChannel ----------------------------
(***************************************************************************)
(* What the audio ring promises the two threads at its ends: a channel of  *)
(* bounded room.  Samples go in behind each other, a run of consecutive    *)
(* serials at a time and as many as there is room for; they come out one   *)
(* by one, in that order, each once.                                       *)
(***************************************************************************)
EXTENDS Naturals, Sequences

CONSTANTS
    Room,
    LastSerial

VARIABLES
    sent,       \* the serials that went in
    received    \* those that came out

vars == <<sent, received>>

Init == sent = <<>> /\ received = <<>>

Send(from, count) ==
    /\ sent # <<>> => sent[Len(sent)] < from
    /\ Len(sent) + count <= Len(received) + Room
    /\ sent' = sent \o [i \in 1..count |-> from + i - 1]
    /\ UNCHANGED received

Receive ==
    /\ Len(received) < Len(sent)
    /\ received' = Append(received, sent[Len(received) + 1])
    /\ UNCHANGED sent

Next ==
    \/ \E from \in 1..LastSerial, count \in 0..Room : Send(from, count)
    \/ Receive

Spec == Init /\ [][Next]_vars
=============================================================================
