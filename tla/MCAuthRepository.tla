-------------------------- MODULE MCAuthRepository --------------------------
(* TLC instance of AuthRepository. *)
EXTENDS AuthRepository, TLC

Symmetric == Permutations(Users)
=============================================================================
