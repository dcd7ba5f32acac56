------------------------------- MODULE MCDemo -------------------------------
(***************************************************************************)
(* DemoServer on small instances for TLC.  The tables of the session route *)
(* and the control plane with its store have nothing in common but the     *)
(* dispatch, so a behaviour changes one or the other; every request is     *)
(* made in both.                                                           *)
(***************************************************************************)
EXTENDS DemoServer

VARIABLE part

(* Two runs and two keys whose dedupe keys can be the same text.           *)
MCRuns == {<<"a">>, <<"a", "b">>}
MCKeys == {<<"c">>, <<"b", "c">>}

MCInit == Init /\ part \in {"session", "control"}

MCNext ==
  /\ Next /\ part' = part
  /\ \/ part = "session" /\ UNCHANGED <<control, disk, outbox>>
     \/ part = "control" /\ UNCHANGED <<bindings, operations, idempotency>>

MCSpec == MCInit /\ [][MCNext]_<<vars, part>>
=============================================================================
