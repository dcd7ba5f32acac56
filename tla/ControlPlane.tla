---------------------------- MODULE ControlPlane ----------------------------
(***************************************************************************)
(* The Phase 2 control plane of crates/context-service/src/control: the    *)
(* state of one run as a record, and each operation of ControlPlane as a   *)
(* pair of operators, the conditions under which the code performs it and  *)
(* the plane it leaves.  The module has no variables: ControlSession runs  *)
(* one plane in memory, DurableControl runs the same operations over the   *)
(* encrypted journal.                                                      *)
(*                                                                         *)
(* Abstractions.  Drafts, previews and revisions are numbered by creation  *)
(* order, which stands for the fresh names ControlPlane::id hands out.     *)
(* SHA-256 is injective, so a digest is the value it is the digest of.     *)
(* There is one run scope, one author, and every text is within the        *)
(* per-note byte bound.  No code ever fills outstanding_provider_attempts  *)
(* or unresolved_operations, so quiescent() is TRUE and is left out.       *)
(***************************************************************************)
EXTENDS Naturals, Sequences, FiniteSets, SequencesExt

CONSTANTS
  None,          \* an absent Option
  Keys,          \* idempotency keys of commands
  Texts,         \* note and objective texts
  Bytes,         \* the size of each text
  NoteIds,       \* names an operator may give a note
  SeedIds,       \* ordinary items seeded by seed_items
  LockedIds,     \* protected items seeded by seed_items
  ObjectiveId,   \* "objective-override"
  SeedText,      \* the bytes of the seeded items
  MaxItems, MaxNotes, MaxTotalNoteBytes, MaxComponentBytes, MaxEvents,
  DraftTtl, PreviewTtl, WindowTtl, Forever,
  MaxDrafts, MaxDraftVersion, MaxPreviews, MaxControlVersion,
  MaxControllerEpoch   \* bounds of the models that run a plane

ASSUME ControlPlaneAssumption ==
  /\ Bytes \in [Texts \cup {SeedText} -> Nat]
  /\ {MaxItems, MaxNotes, MaxTotalNoteBytes, MaxComponentBytes, MaxEvents} \subseteq Nat
  /\ {DraftTtl, PreviewTtl, WindowTtl, Forever} \subseteq Nat \ {0}
  /\ ObjectiveId \notin LockedIds

ItemIds == NoteIds \cup SeedIds \cup LockedIds \cup {ObjectiveId}

Statuses == {"running", "paused_ready", "paused_stale", "paused_committed", "stopped"}

(* What a draft and a revision say about the next prepared input.          *)
EmptyConfig == [selected |-> <<>>, pinned |-> <<>>, notes |-> <<>>, objective |-> None]

InitBoundary == [generation |-> 7, catalog |-> 0, provider |-> 0,
                 controllerEpoch |-> 1, gateEpoch |-> 0, controlVersion |-> 0]

(* ControlPlane::new with management enabled, at time 0.                   *)
InitPlane ==
  [ enabled |-> TRUE, now |-> 0, status |-> "running",
    controlVersion |-> 0, controllerEpoch |-> 1, gateEpoch |-> 0, planEpoch |-> 1,
    active |-> 1, pauseLatched |-> FALSE, stopLatched |-> FALSE,
    windowExpires |-> WindowTtl, lastSequence |-> 0, events |-> <<>>, nextId |-> 1,
    boundary |-> InitBoundary,
    items |-> [k \in (SeedIds \cup LockedIds) \X {1} |->
                 [text |-> SeedText, expires |-> Forever]],
    latest |-> [i \in ItemIds |-> IF i \in SeedIds \cup LockedIds THEN 1 ELSE 0],
    drafts |-> <<>>, previews |-> <<>>,
    revisions |-> <<[parent |-> 1, config |-> EmptyConfig, preview |-> 0,
                     manifest |-> None, planEpoch |-> 1]>>,
    commands |-> [k \in Keys |-> None],
    continuation |-> 0, prepared |-> None ]

-----------------------------------------------------------------------------
(* Bookkeeping shared by the operations.                                   *)

(* record_event for each entry of evs: last_sequence always advances, the  *)
(* event itself, with the next name id hands out, is dropped once          *)
(* MAX_EVENTS are retained.                                                *)
RecordEvents(p, evs, preview) ==
  LET kept == IF MaxEvents - Len(p.events) < Len(evs)
              THEN MaxEvents - Len(p.events) ELSE Len(evs)
  IN  [p EXCEPT
         !.lastSequence = @ + Len(evs),
         !.nextId = @ + kept,
         !.events = @ \o [i \in 1..kept |->
                            [sequence |-> p.lastSequence + i, id |-> p.nextId + i - 1,
                             what |-> evs[i], preview |-> preview]]]

(* id, n times.                                                            *)
TakeIds(p, n) == [p EXCEPT !.nextId = @ + n]

(* sync_boundary: the fence fields of the boundary follow the state.       *)
SyncBoundary(p) ==
  [p EXCEPT !.boundary.controlVersion = p.controlVersion,
            !.boundary.controllerEpoch = p.controllerEpoch,
            !.boundary.gateEpoch = p.gateEpoch]

(* Mutant: a continuation matches whatever the boundary has become.        *)
AnyBoundary(a, b) == TRUE

(* same_external_boundary: every field but the control version.            *)
SameExternalBoundary(a, b) ==
  [a EXCEPT !.controlVersion = 0] = [b EXCEPT !.controlVersion = 0]

Withdrawn(q) == [q EXCEPT !.applicable = FALSE, !.manifest = None, !.material = None]

(* Mutant: previews of an edited draft stay approved.                      *)
KeepPreviews(p, d) == p.previews

(* invalidate_previews: a saved draft withdraws its unconsumed previews.   *)
InvalidatePreviews(p, d) ==
  [i \in DOMAIN p.previews |->
     IF p.previews[i].draft = d /\ ~p.previews[i].consumed
     THEN Withdrawn(p.previews[i]) ELSE p.previews[i]]

(* invalidate_all_previews, after a boundary change.                       *)
InvalidateAllPreviews(p) ==
  [i \in DOMAIN p.previews |->
     IF p.previews[i].consumed THEN p.previews[i] ELSE Withdrawn(p.previews[i])]

-----------------------------------------------------------------------------
(* Items and the operations of a patch.  A patch threads [ok, items,       *)
(* latest, config] through its operations; the rest of the plane cannot    *)
(* change while it runs.                                                   *)

Ref(id, version, text) == [id |-> id, version |-> version, text |-> text]
KeyOf(ref) == <<ref.id, ref.version>>
IdsOf(refs) == {refs[i].id : i \in DOMAIN refs}

(* retained_item: the exact reference, bytes included, is still there.     *)
Retained(items, ref) ==
  KeyOf(ref) \in DOMAIN items /\ items[KeyOf(ref)].text = ref.text

(* Mutant: the protection of an item is not checked.                       *)
EditableUnprotected(items, now, ref) ==
  Retained(items, ref) /\ items[KeyOf(ref)].expires > now

(* editable_item *)
Editable(items, now, ref) ==
  /\ Retained(items, ref)
  /\ ref.id \notin LockedIds
  /\ items[KeyOf(ref)].expires > now

(* retain: the elements of a sequence that are not in dropped, in order.    *)
Dropping(seq, dropped) ==
  LET kept[n \in 0..Len(seq)] ==
        IF n = 0 THEN <<>>
        ELSE IF seq[n] \in dropped THEN kept[n - 1] ELSE Append(kept[n - 1], seq[n])
  IN  kept[Len(seq)]

Without(refs, id) == Dropping(refs, {r \in Range(refs) : r.id = id})

NoteVersion(config, id) ==
  IF id \in IdsOf(config.notes)
  THEN (CHOOSE r \in Range(config.notes) : r.id = id).version
  ELSE None

BytesOf(items, refs) ==
  FoldLeft(LAMBDA sum, r : sum + Bytes[items[KeyOf(r)].text], 0, refs)

(* Mutant: only the latest version of an item is retained.                 *)
InsertLatestOnly(s, id, version, text, expires) ==
  [s EXCEPT
     !.latest[id] = version,
     !.items = [k \in {j \in DOMAIN s.items : j[1] # id} \cup {<<id, version>>} |->
                  IF k = <<id, version>>
                  THEN [text |-> text, expires |-> expires] ELSE s.items[k]]]

(* insert_item: the registry entry and the latest version of the name are  *)
(* overwritten, whatever was there.                                        *)
InsertItem(s, id, version, text, expires) ==
  [s EXCEPT
     !.latest[id] = version,
     !.items = [k \in DOMAIN s.items \cup {<<id, version>>} |->
                  IF k = <<id, version>>
                  THEN [text |-> text, expires |-> expires] ELSE s.items[k]]]

(* The version put_note writes: the one after the draft's own copy of the  *)
(* note, or after the latest version of that name in the registry.         *)
NextNoteVersion(s, id) ==
  LET current == NoteVersion(s.config, id)
  IN  (IF current = None THEN s.latest[id] ELSE current) + 1

PutNoteAllowed(s, now, op) ==
  LET current  == NoteVersion(s.config, op.id)
      replaced == IF current = None THEN 0 ELSE Bytes[s.items[<<op.id, current>>].text]
  IN  /\ op.id \notin LockedIds
      /\ op.expires > now
      /\ current = op.expected
      /\ current # None \/ Len(s.config.notes) < MaxNotes
      /\ BytesOf(s.items, s.config.notes) - replaced + Bytes[op.text]
           <= MaxTotalNoteBytes

(* Mutant: the old version of an updated note stays selected.              *)
PutNoteKeepsOld(s, op) ==
  LET version == NextNoteVersion(s, op.id)
      ref     == Ref(op.id, version, op.text)
      t       == InsertItem(s, op.id, version, op.text, op.expires)
  IN  [t EXCEPT !.config.notes = Append(Without(@, op.id), ref),
                !.config.selected = Append(@, ref)]

PutNote(s, op) ==
  LET version == NextNoteVersion(s, op.id)
      ref     == Ref(op.id, version, op.text)
      t       == InsertItem(s, op.id, version, op.text, op.expires)
  IN  [t EXCEPT !.config.notes = Append(Without(@, op.id), ref),
                !.config.selected = Append(Without(@, op.id), ref)]

(* The conditions of each arm of apply_operation.                          *)
OperationAllowed(p, s, op, authorized) ==
  CASE op.kind = "include_item" ->
         /\ Editable(s.items, p.now, op.item)
         /\ Len(s.config.selected) < MaxItems
         /\ op.item.id \notin IdsOf(s.config.selected)
    [] op.kind = "exclude_item" ->
         /\ Retained(s.items, op.item)
         /\ op.item.id \notin Range(s.config.pinned)
    [] op.kind = "pin_item" ->
         /\ Editable(s.items, p.now, op.item)
         /\ op.item \in Range(s.config.selected)
    [] op.kind = "unpin_item" -> Retained(s.items, op.item)
    [] op.kind = "put_note" -> PutNoteAllowed(s, p.now, op)
    [] op.kind = "remove_note" ->
         op.expected # None /\ NoteVersion(s.config, op.id) = op.expected
    [] op.kind = "set_objective" -> authorized
    [] op.kind = "restore_configuration" ->
         /\ op.revision \in DOMAIN p.revisions
         /\ \/ s.config.objective = p.revisions[op.revision].config.objective
            \/ authorized

(* The effect of each arm of apply_operation.                              *)
OperationEffect(p, s, op) ==
  CASE op.kind = "include_item" ->
         [s EXCEPT !.config.selected = Append(@, op.item)]
    [] op.kind = "exclude_item" ->
         [s EXCEPT !.config.selected = Without(@, op.item.id),
                   !.config.notes = Without(@, op.item.id)]
    [] op.kind = "pin_item" ->
         [s EXCEPT !.config.pinned =
            IF op.item.id \in Range(@) THEN @ ELSE Append(@, op.item.id)]
    [] op.kind = "unpin_item" ->
         [s EXCEPT !.config.pinned = Dropping(@, {op.item.id})]
    [] op.kind = "put_note" -> PutNote(s, op)
    [] op.kind = "remove_note" ->
         [s EXCEPT !.config.notes = Without(@, op.id),
                   !.config.selected = Without(@, op.id),
                   !.config.pinned = Dropping(@, {op.id})]
    [] op.kind = "set_objective" ->
         LET version == s.latest[ObjectiveId] + 1
             t == InsertItem(s, ObjectiveId, version, op.text, p.now + DraftTtl)
         IN  [t EXCEPT !.config.objective = Ref(ObjectiveId, version, op.text)]
    [] op.kind = "restore_configuration" ->
         [s EXCEPT !.config = p.revisions[op.revision].config]

(* A failed operation ends the loop of apply_patch, and what earlier ones  *)
(* inserted into the registry stays.                                       *)
ApplyOperation(p, s, op, authorized) ==
  IF ~s.ok THEN s
  ELSE IF OperationAllowed(p, s, op, authorized) THEN OperationEffect(p, s, op)
       ELSE [s EXCEPT !.ok = FALSE]

(* The loop of apply_patch over its operations.                            *)
ApplyOperations(p, d, ops, authorized) ==
  LET after[n \in 0..Len(ops)] ==
        IF n = 0
        THEN [ok |-> TRUE, items |-> p.items, latest |-> p.latest,
              config |-> p.drafts[d].config]
        ELSE ApplyOperation(p, after[n - 1], ops[n], authorized)
  IN  after[Len(ops)]

-----------------------------------------------------------------------------
(* Drafts and previews.                                                    *)

DraftAccepted(p, revision) == p.enabled /\ revision = p.active

CreateDraft(p) ==
  RecordEvents(
    [TakeIds(p, 1) EXCEPT !.drafts = Append(@, [version |-> 1, base |-> p.active,
                                                config |-> EmptyConfig,
                                                expires |-> p.now + DraftTtl])],
    <<"draft.created">>, 0)

(* The checks of apply_patch before its loop.                              *)
PatchAccepted(p, patch) ==
  /\ p.enabled
  /\ patch.revision = p.active
  /\ patch.draft \in DOMAIN p.drafts
  /\ p.drafts[patch.draft].expires > p.now
  /\ p.drafts[patch.draft].version = patch.version
  /\ \/ Len(patch.operations) = 1
     \/ \A i \in DOMAIN patch.operations :
          patch.operations[i].kind # "restore_configuration"

ApplyPatch(p, patch, authorized) ==
  LET r == ApplyOperations(p, patch.draft, patch.operations, authorized)
      q == [p EXCEPT !.items = r.items, !.latest = r.latest]
  IN  IF ~r.ok THEN q
      ELSE RecordEvents(
             [q EXCEPT !.drafts[patch.draft].version = @ + 1,
                       !.drafts[patch.draft].config = r.config,
                       !.previews = InvalidatePreviews(p, patch.draft)],
             <<"draft.saved">>, 0)

(* What render puts in front of the provider: the protected part of the    *)
(* boundary and the bytes the draft's references stand for.                *)
Input(config, boundary) ==
  [generation |-> boundary.generation, catalog |-> boundary.catalog,
   selected |-> config.selected, notes |-> config.notes,
   objective |-> config.objective]

ReferencesOf(config) ==
  Range(config.selected) \cup Range(config.notes)
    \cup (IF config.objective = None THEN {} ELSE {config.objective})

(* render succeeds: every reference is retained, editable and unexpired,   *)
(* and the input fits a component.                                         *)
Renderable(p, config) ==
  /\ \A r \in ReferencesOf(config) : Editable(p.items, p.now, r)
  /\ BytesOf(p.items, config.selected \o config.notes
       \o (IF config.objective = None THEN <<>> ELSE <<config.objective>>))
       <= MaxComponentBytes

Held(p) == p.pauseLatched /\ p.status = "paused_ready"

PreviewAccepted(p, d, draftVersion, controlVersion) ==
  /\ p.enabled
  /\ controlVersion = p.controlVersion
  /\ d \in DOMAIN p.drafts
  /\ p.drafts[d].expires > p.now
  /\ p.drafts[d].version = draftVersion

CreatePreview(p, d, requested, riskAck) ==
  LET draft      == p.drafts[d]
      applicable == requested /\ Held(p)
      blocked    == (requested /\ ~Held(p)) \/ (applicable /\ ~riskAck)
      material   == IF ~blocked /\ Renderable(p, draft.config)
                    THEN Input(draft.config, p.boundary) ELSE None
      id         == Len(p.previews) + 1
  IN  RecordEvents(
        [TakeIds(p, IF material = None THEN 1 ELSE 3) EXCEPT !.previews = Append(@,
           [draft |-> d, draftVersion |-> draft.version, base |-> draft.base,
            boundary |-> p.boundary, selected |-> draft.config.selected,
            applicable |-> applicable /\ material # None,
            manifest |-> IF material = None THEN None
                         ELSE <<id, p.boundary.provider, material>>,
            material |-> material, expires |-> p.now + PreviewTtl,
            consumed |-> FALSE])],
        <<"preview.built">>, id)

-----------------------------------------------------------------------------
(* Operator commands.  A command is [key, kind, controlVersion, revision,  *)
(* preview, manifest]; revision and preview are 0 when the field is None.  *)

(* Mutant: a reused key executes again.                                    *)
AnyKey(p, c) == TRUE

(* idempotent_result: the key is new, so the command is executed.  A known *)
(* key returns the stored receipt or a conflict, and changes nothing.      *)
FreshKey(p, c) == p.commands[c.key] = None

(* Mutant: the control version of the command is not compared.             *)
CommandGuardAnyVersion(p, c) ==
  /\ p.now < p.windowExpires
  /\ c.revision # 0 => c.revision = p.active

(* command_guard *)
CommandGuard(p, c) ==
  /\ p.now < p.windowExpires
  /\ c.revision # 0 => c.revision = p.active
  /\ c.controlVersion = p.controlVersion

(* receipt and save_command; the receipt takes a name for the command.     *)
SaveCommand(p, c, effect) ==
  [TakeIds(p, 1) EXCEPT !.commands[c.key] =
     [command |-> c,
      receipt |-> [effect |-> effect, controlVersion |-> p.controlVersion,
                   active |-> p.active, paused |-> p.pauseLatched]]]

CommandAccepted(p, c) == p.enabled /\ FreshKey(p, c) /\ CommandGuard(p, c)

PauseAllowed(p, c) == CommandAccepted(p, c) /\ ~p.stopLatched /\ ~p.pauseLatched

Pause(p, c) ==
  RecordEvents(
    SaveCommand(
      SyncBoundary([p EXCEPT !.pauseLatched = TRUE, !.gateEpoch = @ + 1,
                             !.controlVersion = @ + 1, !.status = "paused_ready"]),
      c, "pause_requested"),
    <<"pause.accepted", "pause.ready">>, 0)

(* The host's stop; it is not a command and asks for nothing.              *)
Stop(p) ==
  RecordEvents(
    SyncBoundary([p EXCEPT !.stopLatched = TRUE, !.pauseLatched = TRUE,
                           !.status = "stopped", !.gateEpoch = @ + 1,
                           !.controlVersion = @ + 1]),
    <<"stop.latched">>, 0)

(* Mutant: the boundary of the preview is not compared.                    *)
CommitAllowedAnyBoundary(p, c) ==
  /\ CommandAccepted(p, c)
  /\ p.pauseLatched
  /\ p.status \in {"paused_ready", "paused_stale"}
  /\ c.preview \in DOMAIN p.previews
  /\ LET q == p.previews[c.preview]
     IN  ~q.consumed /\ q.applicable /\ q.manifest = c.manifest /\ q.expires > p.now

CommitAllowed(p, c) ==
  /\ CommandAccepted(p, c)
  /\ p.pauseLatched
  /\ p.status \in {"paused_ready", "paused_stale"}
  /\ c.preview \in DOMAIN p.previews
  /\ LET q == p.previews[c.preview]
     IN  /\ ~q.consumed
         /\ q.applicable
         /\ q.manifest = c.manifest
         /\ q.expires > p.now
         /\ q.boundary = p.boundary

NoChange(p, c) ==
  p.drafts[p.previews[c.preview].draft].config = p.revisions[p.active].config

(* Mutant: the name of the revision is taken twice.                        *)
NewRevisionTwice(p) == Len(p.revisions) + 2

(* The name of the revision commit appends.                                *)
NewRevision(p) == Len(p.revisions) + 1

(* commit: the configuration of the draft, as it is now, becomes the       *)
(* active revision; an identical one only consumes the preview.            *)
Commit(p, c) ==
  LET q == p.previews[c.preview]
      r == [p EXCEPT !.previews[c.preview].consumed = TRUE,
                     !.continuation = c.preview]
  IN  IF NoChange(p, c)
      THEN RecordEvents(SaveCommand([r EXCEPT !.prepared = None], c, "no_change"),
                        <<"revision.no_change">>, c.preview)
      ELSE TakeIds(RecordEvents(
             SaveCommand(
               SyncBoundary(
                 [TakeIds(r, 2) EXCEPT !.revisions = Append(@,
                             [parent |-> p.active, config |-> p.drafts[q.draft].config,
                              preview |-> c.preview, manifest |-> q.manifest,
                              planEpoch |-> p.planEpoch + 1]),
                           !.active = NewRevision(p),
                           !.planEpoch = @ + 1,
                           !.controlVersion = @ + 1,
                           !.status = "paused_committed",
                           !.prepared = q.material]),
               c, "revision_committed"),
             <<"revision.committed", "plan.retired">>, c.preview), 1)

(* Mutant: resume looks at the pause latch only.                           *)
ResumeAllowedAfterStop(p, c) ==
  /\ CommandAccepted(p, c)
  /\ p.pauseLatched
  /\ c.preview = p.continuation

ResumeAllowed(p, c) ==
  /\ CommandAccepted(p, c)
  /\ ~p.stopLatched
  /\ p.pauseLatched
  /\ c.preview = p.continuation
  /\ p.continuation # 0 =>
       /\ p.previews[p.continuation].expires > p.now
       /\ SameExternalBoundary(p.previews[p.continuation].boundary, p.boundary)

(* Mutant: the submitted input stays prepared.                             *)
ResumeKeepsInput(p, c) ==
  RecordEvents(
    SaveCommand(
      SyncBoundary([p EXCEPT !.pauseLatched = FALSE, !.gateEpoch = @ + 1,
                             !.controlVersion = @ + 1, !.status = "running"]),
      c, "resume_accepted"),
    <<"resume.accepted">>, p.continuation)

(* resume: the prepared input, if any, is claimed and submitted, and the   *)
(* continuation is spent.                                                  *)
Resume(p, c) ==
  RecordEvents(
    SaveCommand(
      SyncBoundary([p EXCEPT !.pauseLatched = FALSE, !.gateEpoch = @ + 1,
                             !.controlVersion = @ + 1, !.status = "running",
                             !.continuation = 0, !.prepared = None]),
      c, "resume_accepted"),
    IF p.prepared = None THEN <<"resume.accepted">>
    ELSE <<"resume.accepted", "input.claimed", "input.submitted">>,
    p.continuation)

(* validate_plan_epoch: may a plan made in this epoch still be dispatched? *)
Dispatchable(p, epoch) == epoch = p.planEpoch /\ ~p.pauseLatched /\ ~p.stopLatched

-----------------------------------------------------------------------------
(* What the host does to a plane.                                          *)

MoveBoundary(p, boundary) ==
  [p EXCEPT !.boundary = boundary,
            !.status = IF p.pauseLatched THEN "paused_stale" ELSE @,
            !.previews = InvalidateAllPreviews(p)]

(* advance_boundary: a new observation.                                    *)
AdvanceBoundary(p) ==
  MoveBoundary(p, [p.boundary EXCEPT !.generation = @ + 1])

(* advance_catalog and advance_provider_fingerprint name the new value     *)
(* after the gate epoch, so it repeats while the gate does not move.       *)
AdvanceCatalog(p) ==
  MoveBoundary(p, [p.boundary EXCEPT !.catalog = p.boundary.gateEpoch + 1])

AdvanceProvider(p) ==
  MoveBoundary(p, [p.boundary EXCEPT !.provider = p.boundary.gateEpoch + 1])

AdvanceTime(p, seconds) == [p EXCEPT !.now = @ + seconds]

Deactivate(p) == RecordEvents([p EXCEPT !.enabled = FALSE], <<"management.disabled">>, 0)
Activate(p) == RecordEvents([p EXCEPT !.enabled = TRUE], <<"management.enabled">>, 0)

-----------------------------------------------------------------------------
(* Journal recovery.                                                       *)

(* validate_references over a configuration.                               *)
ReferencesRetained(p, config) ==
  \A r \in ReferencesOf(config) : Retained(p.items, r)

PinsSelected(config) == Range(config.pinned) \subseteq IdsOf(config.selected)

PreviewsSound(p) ==
  \A q \in Range(p.previews) : q.applicable => q.material # None

ContinuationSound(p) ==
  /\ p.continuation # 0 => p.continuation \in DOMAIN p.previews
  /\ p.prepared # None =>
       \E q \in Range(p.previews) : q.consumed /\ q.material = p.prepared

(* validate_journal_integrity, the part that depends on how the plane was  *)
(* used rather than on its encoding.                                       *)
JournalValid(p) ==
  /\ p.active \in DOMAIN p.revisions
  /\ \A d \in Range(p.drafts) : ReferencesRetained(p, d.config) /\ PinsSelected(d.config)
  /\ \A r \in Range(p.revisions) : ReferencesRetained(p, r.config) /\ PinsSelected(r.config)
  /\ \A q \in Range(p.previews) : \A r \in Range(q.selected) : Retained(p.items, r)
  /\ PreviewsSound(p)
  /\ ContinuationSound(p)

(* recover_journal: a validated plane under the next controller epoch.     *)
Recovered(p) == SyncBoundary([p EXCEPT !.controllerEpoch = @ + 1])
=============================================================================
