---------------------------- MODULE MCTwoFactor ----------------------------
(* TwoFactor on small instances for TLC. *)
EXTENDS TwoFactor, TLC

Symmetric ==
  Permutations(Requests) \cup Permutations(Secrets)
    \cup Permutations(Codes) \cup Permutations(Batches)
=============================================================================
