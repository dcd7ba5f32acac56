------------------------------ MODULE MCDurable ------------------------------
(***************************************************************************)
(* DurableControl on small instances for TLC: a behaviour is of one        *)
(* process, or of two, one after the other or overlapping, with fewer      *)
(* commands but two texts.  Both reach the bound on retained events.       *)
(***************************************************************************)
EXTENDS DurableControl

CONSTANTS t1, t2, k1, k2, p1, p2

VARIABLE overlapping

MCBytes == [t \in Texts \cup {SeedText} |-> 1]

(* Fewer events are retained, so that the overlap also reaches that bound.  *)
Overlap == INSTANCE DurableControl WITH
  Procs <- {p1, p2}, Texts <- {t1, t2}, Keys <- {k1, k2}, MaxEvents <- 4,
  MaxPreviews <- 0, MaxControlVersion <- 2, MaxControllerEpoch <- 1,
  Bytes <- [t \in {t1, t2, SeedText} |-> 1]

Symmetric == Permutations(Keys) \cup Permutations({p1, p2})

MCInit ==
  \/ overlapping = FALSE /\ DurableInit
  \/ overlapping = TRUE /\ Overlap!DurableInit

MCNext ==
  /\ overlapping' = overlapping
  /\ \/ ~overlapping /\ DurableNext
     \/ overlapping /\ Overlap!DurableNext

MCSpec == MCInit /\ [][MCNext]_<<durableVars, overlapping>>
=============================================================================
