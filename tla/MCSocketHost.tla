---------------------------- MODULE MCSocketHost ----------------------------
(* TLC instance of SocketHost. *)
EXTENDS SocketHost, TLC

Symmetric == Permutations(Calls) \cup Permutations(Credentials)
=============================================================================
