-------------------------- MODULE MCDurableOutbox --------------------------
(* TLC instance of DurableOutbox. *)
EXTENDS DurableOutbox, TLC

Symmetric == Permutations(Lanes)
=============================================================================
