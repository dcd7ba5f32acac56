-------------------------- MODULE MCControlApproval --------------------------
(***************************************************************************)
(* ControlSession on four small instances for TLC: operators race to       *)
(* approve and commit two drafts; or one draft is edited with patches of   *)
(* every kind, committed and restored; or patches of two operations fail   *)
(* at the second, in a run whose notes have the names of host items; or    *)
(* the host moves, and the run is recovered, between the commands.         *)
(***************************************************************************)
EXTENDS ControlSession

CONSTANTS t1, t2, n, h, locked

VARIABLE part

MCBytes == [t \in Texts \cup {SeedText} |-> 1]

AllKinds == {"include_item", "exclude_item", "pin_item", "unpin_item", "put_note",
             "remove_note", "set_objective", "restore_configuration"}

Editing == INSTANCE ControlSession WITH
  OpKinds <- AllKinds, MaxDrafts <- 1, MaxDraftVersion <- 4, MaxPreviews <- 1,
  MaxItemVersion <- 2, MaxControlVersion <- 2, MaxNow <- 0, Forever <- 1

Patching == INSTANCE ControlSession WITH
  Texts <- {t2}, Bytes <- [t \in {t2, SeedText} |-> IF t = t2 THEN 2 ELSE 1],
  NoteIds <- {n, locked}, SeedIds <- {n}, OpKinds <- AllKinds, MaxOperations <- 2,
  MaxDrafts <- 1, MaxDraftVersion <- 3, MaxPreviews <- 0, MaxItemVersion <- 2,
  MaxControlVersion <- 0, MaxNow <- 0, Forever <- 1, MaxSequence <- 2

Fencing == INSTANCE ControlSession WITH
  HostMoves <- {"observation", "catalog", "provider"}, MaxDrafts <- 1, MaxPreviews <- 1,
  MaxControlVersion <- 3, MaxControllerEpoch <- 2, MaxSequence <- 1, MaxNow <- 0, Forever <- 1

MCInit ==
  \/ part = "racing" /\ Init
  \/ part = "editing" /\ Editing!Init
  \/ part = "patching" /\ Patching!Init
  \/ part = "fencing" /\ Fencing!Init

MCNext ==
  /\ part' = part
  /\ \/ part = "racing" /\ Next
     \/ part = "editing" /\ Editing!Next
     \/ part = "patching" /\ Patching!Next
     \/ part = "fencing" /\ Fencing!Next

MCSpec == MCInit /\ [][MCNext]_<<vars, part>>
=============================================================================
