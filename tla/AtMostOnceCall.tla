--------------------------- MODULE AtMostOnceCall ---------------------------
(***************************************************************************)
(* What the owner invocation journal promises its callers: a stable        *)
(* operation key stands for one call, the owner performs it at most once,  *)
(* and an answer to a caller is the result of that very performance.       *)
(***************************************************************************)
EXTENDS Sequences

CONSTANTS Keys, Calls, Results

VARIABLES
  applied,  \* for each key, the performances of its call by the owner
  told      \* the answers callers were given

vars == <<applied, told>>

Init ==
  /\ applied = [k \in Keys |-> <<>>]
  /\ told = {}

Perform(k, call, result) ==
  /\ applied[k] = <<>>
  /\ applied' = [applied EXCEPT ![k] = <<[call |-> call, result |-> result]>>]
  /\ UNCHANGED told

Answer(k) ==
  /\ applied[k] # <<>>
  /\ told' = told \cup {[key |-> k, call |-> applied[k][1].call, receipt |-> applied[k][1]]}
  /\ UNCHANGED applied

Next ==
  \E k \in Keys :
    \/ \E call \in Calls, result \in Results : Perform(k, call, result)
    \/ Answer(k)

Spec == Init /\ [][Next]_vars
=============================================================================
