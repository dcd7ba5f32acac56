------------------------------ MODULE MCFacade ------------------------------
(* HarnessFacade on two small instances for TLC: calls of every kind but
   patches, legacy and trusted; or patches of every kind over more items
   and revisions.                                                          *)
EXTENDS HarnessFacade, TLC

CONSTANT o1

VARIABLE patching

MCOneRevision == <<None>>

Symmetric == Permutations(Keys) \cup Permutations(Objectives) \cup Permutations(Requests)

Patching == INSTANCE HarnessFacade WITH
  Requests <- {}, Modes <- {FALSE}, Ops <- {"apply_patch"},
  OtherOps <- {"create_draft", "apply_patch"},
  Edits <- {"put_note", "include_item", "remove_note", "set_objective",
            "restore_configuration"},
  FirstRevisions <- <<None, o1>>, MaxNotes <- 0, MaxItemCount <- 2,
  MaxDraftVersion <- 2, MaxPreviews <- 0

MCInit ==
  \/ patching = FALSE /\ Init
  \/ patching = TRUE /\ Patching!Init

MCNext ==
  /\ patching' = patching
  /\ \/ ~patching /\ Next
     \/ patching /\ Patching!Next

MCSpec == MCInit /\ [][MCNext]_<<vars, patching>>
=============================================================================
