---------------------------- MODULE DecoderPlans ----------------------------
(***************************************************************************)
(* What a player has open that applies the transitions of a plan in order. *)
(***************************************************************************)
EXTENDS Naturals, Sequences, FiniteSets

Transitioned(decoders, step) ==
    CASE step.op = "open" -> decoders \cup {step.id}
      [] step.op = "close" -> decoders \ {step.id}
      [] OTHER -> decoders

(* The decoders of a player that applied the first n transitions of a plan. *)
Applying(decoders, steps, n) ==
    LET after[k \in 0..Len(steps)] == IF k = 0 THEN decoders ELSE Transitioned(after[k - 1], steps[k])
    IN  after[n]
StaysWithin(decoders, steps, limit) ==
    \A n \in 0..Len(steps) : Cardinality(Applying(decoders, steps, n)) <= limit
=============================================================================
