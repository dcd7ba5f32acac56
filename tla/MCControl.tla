------------------------------ MODULE MCControl ------------------------------
(* ControlSession on small instances for TLC. *)
EXTENDS ControlSession

CONSTANTS t1, t2

(* One text fills a note budget slot, the other two. *)
MCBytes == [t \in Texts \cup {SeedText} |-> IF t = t2 THEN 2 ELSE 1]

=============================================================================
