---------------------------- MODULE MCUserFollow ----------------------------
(* TLC instance of UserFollow. *)
EXTENDS UserFollow, TLC

Symmetric == Permutations(Profiles) \cup Permutations(Viewers)
=============================================================================
