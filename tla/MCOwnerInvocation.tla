-------------------------- MODULE MCOwnerInvocation --------------------------
(* OwnerInvocation on small instances for TLC. *)
EXTENDS OwnerInvocation, TLC

Symmetric == Permutations(Handlers) \cup Permutations(Calls) \cup Permutations(Results)
=============================================================================
