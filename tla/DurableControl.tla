--------------------------- MODULE DurableControl ---------------------------
(***************************************************************************)
(* The control plane over its encrypted SQLite store (control/durable.rs): *)
(* each process works on a copy of the plane it loaded, applies a mutation *)
(* to a clone, writes journal, outbox and memory binding in one            *)
(* transaction, and replaces its own copy only once that has committed.    *)
(*                                                                         *)
(* A transaction that fails before it commits changes nothing and is not a *)
(* step.  The integrated service is one process; two processes stand for   *)
(* CLI invocations that overlap, which nothing in the store excludes.      *)
(***************************************************************************)
EXTENDS ControlPlane

CONSTANTS
  Procs,          \* processes that have the store open
  BindingIds,     \* names of memory bindings
  SnapshotIds     \* names of Phase 1 snapshots

VARIABLES
  live,       \* the plane each process holds, None when it has none
  journal,    \* the one journal row, decrypted
  outbox,     \* the outbox rows, by sequence
  bindings,   \* the memory bindings, by name
  snapshots,  \* the Phase 1 snapshot bytes, by name
  acked,      \* the receipts processes have answered with (history)
  overlapped  \* whether two processes ever had the store open at once (history)

durableVars == <<live, journal, outbox, bindings, snapshots, acked, overlapped>>

(* DurableControlStore::create with a fresh plane.                         *)
DurableInit ==
  /\ live = [p \in Procs |-> None]
  /\ journal = InitPlane
  /\ outbox = [s \in {} |-> None]
  /\ bindings = [b \in BindingIds |-> None]
  /\ snapshots = [s \in SnapshotIds |-> None]
  /\ acked = {}
  /\ overlapped = FALSE

-----------------------------------------------------------------------------
(* What one accepted mutation can make of a plane.  A rejected mutation,   *)
(* a patch that fails part of the way included, discards the clone.        *)

PatchesOf(p) ==
  [draft : DOMAIN p.drafts, revision : {p.active}, version : 1..(MaxDraftVersion - 1),
   operations : {<<[kind |-> "put_note", id |-> n, expected |-> None, text |-> t,
                    expires |-> Forever]>> : n \in NoteIds, t \in Texts}]

CommandsOf(p, kind, revision, preview, manifest) ==
  [key : Keys, kind : {kind}, controlVersion : {p.controlVersion},
   revision : {revision}, preview : {preview}, manifest : {manifest}]

Drafting(p) ==
  (IF DraftAccepted(p, p.active) /\ Len(p.drafts) < MaxDrafts THEN {CreateDraft(p)} ELSE {})
  \cup {ApplyPatch(p, patch, FALSE) : patch \in
          {x \in PatchesOf(p) : /\ PatchAccepted(p, x)
                              /\ ApplyOperations(p, x.draft, x.operations, FALSE).ok}}
  \cup {CreatePreview(p, d, TRUE, TRUE) : d \in
          {x \in DOMAIN p.drafts :
             /\ Len(p.previews) < MaxPreviews
             /\ PreviewAccepted(p, x, p.drafts[x].version, p.controlVersion)}}

Commits(p) ==
  IF p.controlVersion >= MaxControlVersion THEN {}
  ELSE UNION { {Commit(p, c) : c \in
                  {x \in CommandsOf(p, "commit", p.active, i, p.previews[i].manifest) :
                     CommitAllowed(p, x)}} : i \in DOMAIN p.previews }

Latching(p) ==
  IF p.controlVersion >= MaxControlVersion THEN {}
  ELSE {Pause(p, c) : c \in {x \in CommandsOf(p, "pause", 0, 0, None) : PauseAllowed(p, x)}}
       \cup {Resume(p, c) : c \in
               {x \in CommandsOf(p, "resume", p.active, p.continuation, None) :
                  ResumeAllowed(p, x)}}

Mutations(p) == Drafting(p) \cup Commits(p) \cup Latching(p)

ReceiptsOf(p) ==
  {[key |-> k, receipt |-> p.commands[k].receipt] :
     k \in {x \in Keys : p.commands[x] # None}}

-----------------------------------------------------------------------------
(* Mutant: a stored event is not compared with the new one.                *)
OutboxUnchecked(q) == TRUE

(* insert_outbox: an event already stored under its sequence must be the   *)
(* same event, otherwise the transaction fails as Corrupt.                 *)
OutboxAgrees(q) ==
  \A e \in Range(q.events) : e.sequence \in DOMAIN outbox => outbox[e.sequence] = e

(* Mutant: rows are inserted for the newest event only.                    *)
OutboxWithNewest(q) ==
  [s \in DOMAIN outbox \cup {e.sequence : e \in {x \in Range(q.events) :
                               x.sequence = q.lastSequence}} |->
     IF \E e \in Range(q.events) : e.sequence = s
     THEN CHOOSE e \in Range(q.events) : e.sequence = s
     ELSE outbox[s]]

OutboxWith(q) ==
  [s \in DOMAIN outbox \cup {e.sequence : e \in Range(q.events)} |->
     IF \E e \in Range(q.events) : e.sequence = s
     THEN CHOOSE e \in Range(q.events) : e.sequence = s
     ELSE outbox[s]]

(* persist_internal up to its commit, with an optional memory binding for  *)
(* the revision the plane makes active.                                    *)
Persist(q, binding) ==
  /\ OutboxAgrees(q)
  /\ journal' = q
  /\ outbox' = OutboxWith(q)
  /\ \/ binding = None /\ UNCHANGED bindings
     \/ /\ binding # None
        /\ LET row == [revision |-> q.active,
                       preview |-> q.revisions[q.active].preview,
                       manifest |-> q.revisions[q.active].manifest]
           IN  /\ bindings[binding] \in {None, row}
               /\ bindings' = [bindings EXCEPT ![binding] = row]

(* Mutant: the clone is published although the transaction rolled back.    *)
MutateUnpersisted(p) ==
  /\ live[p] # None
  /\ \E q \in Mutations(live[p]) :
       /\ live' = [live EXCEPT ![p] = q]
       /\ acked' = acked \cup (ReceiptsOf(q) \ ReceiptsOf(live[p]))
  /\ UNCHANGED <<journal, outbox, bindings, snapshots, overlapped>>

(* mutate_control and the CLI's mutate: the clone is published and the     *)
(* caller answered after the commit.                                       *)
Mutate(p) ==
  /\ live[p] # None
  /\ \E q \in Mutations(live[p]) :
       /\ Persist(q, None)
       /\ live' = [live EXCEPT ![p] = q]
       /\ acked' = acked \cup (ReceiptsOf(q) \ ReceiptsOf(live[p]))
  /\ UNCHANGED <<snapshots, overlapped>>

(* run_phase3_adapter: the commit of an edited draft, which makes a new    *)
(* revision active, together with its memory binding.                      *)
CommitWithBinding(p) ==
  /\ live[p] # None
  /\ \E q \in Commits(live[p]), b \in BindingIds :
       /\ q.active # live[p].active
       /\ Persist(q, b)
       /\ live' = [live EXCEPT ![p] = q]
       /\ acked' = acked \cup (ReceiptsOf(q) \ ReceiptsOf(live[p]))
  /\ UNCHANGED <<snapshots, overlapped>>

(* The AfterCommitBeforePublication failpoint: the transaction committed,  *)
(* the caller is told it failed and the process keeps its old plane.       *)
MutateUnpublished(p) ==
  /\ live[p] # None
  /\ \/ \E q \in Mutations(live[p]) : Persist(q, None)
     \/ \E q \in Commits(live[p]), b \in BindingIds :
          q.active # live[p].active /\ Persist(q, b)
  /\ UNCHANGED <<live, snapshots, acked, overlapped>>

(* A retried command is answered from the live plane's stored receipt.     *)
Replay(p) ==
  /\ live[p] # None
  /\ acked' = acked \cup ReceiptsOf(live[p])
  /\ UNCHANGED <<live, journal, outbox, bindings, snapshots, overlapped>>

(* load: controller recovery; load_for_operator: the epoch stays.          *)
Open(p) ==
  /\ live[p] = None
  /\ JournalValid(journal)
  /\ \/ live' = [live EXCEPT ![p] = journal]
     \/ /\ journal.controllerEpoch < MaxControllerEpoch
        /\ live' = [live EXCEPT ![p] = Recovered(journal)]
  /\ overlapped' = (overlapped \/ \E o \in Procs : live[o] # None)
  /\ UNCHANGED <<journal, outbox, bindings, snapshots, acked>>

(* The process ends or crashes; only the database survives.                *)
Crash(p) ==
  /\ live[p] # None
  /\ live' = [live EXCEPT ![p] = None]
  /\ UNCHANGED <<journal, outbox, bindings, snapshots, acked, overlapped>>

(* copy_phase1_snapshot *)
CopySnapshot(p) ==
  /\ live[p] # None
  /\ \E s \in SnapshotIds, t \in Texts :
       /\ snapshots[s] \in {None, t}
       /\ snapshots' = [snapshots EXCEPT ![s] = t]
  /\ UNCHANGED <<live, journal, outbox, bindings, acked, overlapped>>

DurableNext ==
  \E p \in Procs :
    Mutate(p) \/ CommitWithBinding(p) \/ MutateUnpublished(p) \/ Replay(p)
      \/ Open(p) \/ Crash(p) \/ CopySnapshot(p)

DurableSpec == DurableInit /\ [][DurableNext]_durableVars

-----------------------------------------------------------------------------
(* A receipt a process has answered with is in the journal from then on,   *)
(* whatever crashes, failed publications and reloads follow: a retry after *)
(* a restart finds it, and every retry gets the same one, also when the    *)
(* first effect was committed, reported as failed and repeated on the      *)
(* stale plane.  The store is meant for one process at a time: those that  *)
(* overlap do lose receipts.                                               *)
AckedNeverLostByOne == ~overlapped => acked \subseteq ReceiptsOf(journal)

(* The outbox repeats the journal: every retained event is in it, so a     *)
(* publisher can neither miss one nor see another in its place.            *)
JournalInOutbox ==
  \A e \in Range(journal.events) :
    e.sequence \in DOMAIN outbox /\ outbox[e.sequence] = e

(* Rows keyed by identity keep their content: outbox events, bindings and  *)
(* Phase 1 snapshots, also when two processes overlap.                     *)
StoredOnce ==
  [][/\ \A s \in DOMAIN outbox : s \in DOMAIN outbox' /\ outbox'[s] = outbox[s]
     /\ \A b \in BindingIds : bindings[b] # None => bindings'[b] = bindings[b]
     /\ \A s \in SnapshotIds : snapshots[s] # None => snapshots'[s] = snapshots[s]]_durableVars

(* A plane has the revision a memory binding names, approved by the        *)
(* preview and manifest the binding recorded.                              *)
Resolves(q, row) ==
  /\ row.revision \in DOMAIN q.revisions
  /\ q.revisions[row.revision].preview = row.preview
  /\ q.revisions[row.revision].manifest = row.manifest

(* Every memory binding resolves in the journal.  Two processes that       *)
(* overlap can roll the revision back, and so can one: once the journal    *)
(* retains no further events nothing tells a repeated mutation from        *)
(* another one, and a commit that was stored with its binding but reported *)
(* as failed is overwritten.                                               *)
BindingsResolve ==
  ~overlapped /\ Len(journal.events) < MaxEvents =>
    \A b \in BindingIds : bindings[b] # None => Resolves(journal, bindings[b])

(* Whatever the journal's transactions store beside it follows it: a       *)
(* publisher that reads the outbox sees the journal's events, and a memory *)
(* binding leads to the revision that was approved with it, after every    *)
(* crash, reload and publication reported as failed.                       *)
StoreFollowsJournal == JournalInOutbox /\ BindingsResolve
=============================================================================
