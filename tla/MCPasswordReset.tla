-------------------------- MODULE MCPasswordReset ---------------------------
(* PasswordReset on a small instance for TLC.                              *)
EXTENDS PasswordReset, TLC

Symmetry == Permutations(Requests) \cup Permutations(Tokens)
=============================================================================
