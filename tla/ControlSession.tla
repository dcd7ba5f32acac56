--------------------------- MODULE ControlSession ---------------------------
(***************************************************************************)
(* One in-memory ControlPlane driven by operators that race each other     *)
(* with possibly stale expectations, by the host (stop, boundary, clock)   *)
(* and by recovery from its own exported journal.                          *)
(*                                                                         *)
(* A call the code rejects leaves the plane alone, so only accepted calls  *)
(* are steps; the one exception is a patch that fails part of the way,     *)
(* which apply_patch lets keep what it inserted into the registry.         *)
(***************************************************************************)
EXTENDS ControlPlane

CONSTANTS
  OpKinds,        \* the kinds of operation the patches of a run use
  MaxOperations,  \* operations in one patch
  HostMoves,      \* the parts of the boundary the host moves in a run
  MaxItemVersion, MaxGeneration, MaxNow, MaxSequence   \* bounds of the model

VARIABLE plane

vars == <<plane>>

Init == plane = InitPlane

-----------------------------------------------------------------------------
(* Inputs an operator can name: items it has seen in the registry or in a  *)
(* draft, versions up to the present ones, keys, previews and manifests.   *)

KnownRefs ==
  {Ref(k[1], k[2], plane.items[k].text) : k \in DOMAIN plane.items}
    \cup UNION {Range(d.config.selected) : d \in Range(plane.drafts)}

NoteVersions == {None} \cup 1..MaxItemVersion

Operations ==
  [kind : {"include_item", "exclude_item", "pin_item", "unpin_item"} \cap OpKinds,
   item : KnownRefs]
  \cup [kind : {"put_note"} \cap OpKinds, id : NoteIds, expected : NoteVersions,
        text : Texts, expires : {plane.now + 1, Forever}]
  \cup [kind : {"remove_note"} \cap OpKinds, id : NoteIds, expected : 1..MaxItemVersion]
  \cup [kind : {"set_objective"} \cap OpKinds, text : Texts]
  \cup [kind : {"restore_configuration"} \cap OpKinds, revision : DOMAIN plane.revisions]

Patches ==
  [ draft : DOMAIN plane.drafts, revision : DOMAIN plane.revisions,
    version : 1..(MaxDraftVersion - 1),
    operations : UNION {[1..n -> Operations] : n \in 1..MaxOperations} ]

(* Keys a command may carry: one already used, or a fresh one; which fresh *)
(* one does not matter, as keys are only compared.                         *)
KeysToTry ==
  LET used == {k \in Keys : plane.commands[k] # None}
  IN  IF used = Keys THEN used ELSE used \cup {CHOOSE k \in Keys : k \notin used}

(* The command contract requires the active revision of commit and resume  *)
(* and forbids it to pause.                                                *)
Commands(kind, revisions, previews, manifests) ==
  [ key : KeysToTry, kind : {kind}, controlVersion : 0..plane.controlVersion,
    revision : revisions, preview : previews, manifest : manifests ]

Manifests == {q.manifest : q \in Range(plane.previews)}

-----------------------------------------------------------------------------
DoCreateDraft ==
  /\ Len(plane.drafts) < MaxDrafts
  /\ \E revision \in DOMAIN plane.revisions : DraftAccepted(plane, revision)
  /\ plane' = CreateDraft(plane)

DoApplyPatch ==
  /\ plane.enabled
  /\ \E patch \in Patches, authorized \in BOOLEAN :
       /\ PatchAccepted(plane, patch)
       /\ plane' = ApplyPatch(plane, patch, authorized)
       /\ \A i \in ItemIds : plane'.latest[i] <= MaxItemVersion

DoCreatePreview ==
  /\ Len(plane.previews) < MaxPreviews
  /\ \E d \in DOMAIN plane.drafts, v \in 1..MaxDraftVersion,
        cv \in 0..plane.controlVersion, requested, riskAck \in BOOLEAN :
       /\ PreviewAccepted(plane, d, v, cv)
       /\ plane' = CreatePreview(plane, d, requested, riskAck)

DoPause ==
  /\ plane.controlVersion < MaxControlVersion
  /\ \E c \in Commands("pause", {0}, {0}, {None}) :
       PauseAllowed(plane, c) /\ plane' = Pause(plane, c)

DoCommit ==
  /\ plane.controlVersion < MaxControlVersion
  /\ \E c \in Commands("commit", DOMAIN plane.revisions, DOMAIN plane.previews, Manifests) :
       CommitAllowed(plane, c) /\ plane' = Commit(plane, c)

DoResume ==
  /\ plane.controlVersion < MaxControlVersion
  /\ \E c \in Commands("resume", DOMAIN plane.revisions, {0} \cup DOMAIN plane.previews, {None}) :
       ResumeAllowed(plane, c) /\ plane' = Resume(plane, c)

DoStop ==
  /\ plane.controlVersion < MaxControlVersion
  /\ plane' = Stop(plane)

(* The host observes a new state, installs another catalog, or upgrades    *)
(* the provider configuration.                                             *)
DoMoveBoundary ==
  \/ /\ "observation" \in HostMoves
     /\ plane.boundary.generation < MaxGeneration
     /\ plane' = AdvanceBoundary(plane)
  \/ "catalog" \in HostMoves /\ plane' = AdvanceCatalog(plane)
  \/ "provider" \in HostMoves /\ plane' = AdvanceProvider(plane)

DoAdvanceTime ==
  /\ plane.now < MaxNow
  /\ plane' = AdvanceTime(plane, 1)

DoToggle ==
  /\ plane.lastSequence < MaxSequence
  /\ plane' = IF plane.enabled THEN Deactivate(plane) ELSE Activate(plane)

DoRecover ==
  /\ plane.controllerEpoch < MaxControllerEpoch
  /\ JournalValid(plane)
  /\ plane' = Recovered(plane)

Next ==
  \/ DoCreateDraft \/ DoApplyPatch \/ DoCreatePreview
  \/ DoPause \/ DoCommit \/ DoResume \/ DoStop
  \/ DoMoveBoundary \/ DoAdvanceTime \/ DoToggle \/ DoRecover

Spec == Init /\ [][Next]_vars

-----------------------------------------------------------------------------
(* The plane has the shape of ControlPlane.                                *)
TypeOK ==
  /\ plane.enabled \in BOOLEAN /\ plane.pauseLatched \in BOOLEAN
  /\ plane.stopLatched \in BOOLEAN /\ plane.status \in Statuses
  /\ plane.controlVersion \in Nat /\ plane.gateEpoch \in Nat
  /\ plane.planEpoch \in Nat /\ plane.controllerEpoch \in Nat
  /\ plane.now \in Nat /\ plane.lastSequence \in Nat
  /\ plane.active \in DOMAIN plane.revisions
  /\ plane.continuation \in {0} \cup DOMAIN plane.previews
  /\ \A q \in Range(plane.previews) : q.draft \in DOMAIN plane.drafts

(* A committed revision is exactly what its operator approved: commit      *)
(* copies the draft as it is at that moment, and this is still what render *)
(* put into the preview whose manifest the command named.                  *)
CommittedAsApproved ==
  \A r \in 2..Len(plane.revisions) :
    LET rev == plane.revisions[r]
        q   == plane.previews[rev.preview]
    IN  /\ rev.preview \in DOMAIN plane.previews /\ q.consumed
        /\ q.manifest = rev.manifest
        /\ q.material = Input(rev.config, q.boundary)

(* Whatever input is ready to be submitted belongs to the active revision  *)
(* and to the continuation resume will check; while it waits, a plan of no *)
(* epoch, neither the retired nor the new one, can be dispatched.          *)
PreparedIsActive ==
  plane.prepared # None =>
    /\ \A epoch \in 1..plane.planEpoch : ~Dispatchable(plane, epoch)
    /\ plane.continuation # 0
    /\ plane.revisions[plane.active].preview = plane.continuation
    /\ plane.prepared = Input(plane.revisions[plane.active].config,
                              plane.previews[plane.continuation].boundary)

(* Racing operators: of the commands that were given the same control      *)
(* version, command_guard lets at most one change the run.                 *)
OneWinnerPerVersion ==
  \A k1, k2 \in Keys :
    LET c1 == plane.commands[k1]
        c2 == plane.commands[k2]
    IN  (/\ k1 # k2 /\ c1 # None /\ c2 # None
         /\ c1.receipt.effect # "no_change" /\ c2.receipt.effect # "no_change")
        => c1.command.controlVersion # c2.command.controlVersion

(* A recorded receipt is what every retry of its key gets, for ever.       *)
ReceiptsImmutable ==
  [][\A k \in Keys : plane.commands[k] # None =>
       plane'.commands[k] = plane.commands[k]]_vars

(* After stop no command releases the run or changes its revision, even    *)
(* though commit never looks at the stop latch and a later boundary change *)
(* turns the status from stopped into paused_stale, which commit accepts.  *)
StopIsFinal ==
  [][plane.stopLatched =>
       /\ plane'.stopLatched /\ plane'.pauseLatched
       /\ plane'.active = plane.active /\ plane'.planEpoch = plane.planEpoch
       /\ plane'.prepared = plane.prepared]_vars

(* A revision is approved and committed within one hold: the preview was   *)
(* built behind the same gate, by the same controller, of the observation, *)
(* catalog and provider the run still has.                                 *)
ApprovedInThisHold ==
  [][plane'.active # plane.active =>
       LET q == plane'.previews[plane'.revisions[plane'.active].preview]
       IN  /\ plane.pauseLatched /\ plane'.pauseLatched
           /\ q.boundary.gateEpoch = plane.gateEpoch
           /\ q.boundary.controllerEpoch = plane.controllerEpoch
           /\ q.boundary.generation = plane.boundary.generation
           /\ q.boundary.catalog = plane.boundary.catalog
           /\ q.boundary.provider = plane.boundary.provider]_vars

(* The observation, catalog, provider, controller or gate of the approved  *)
(* continuation is no longer the run's.                                    *)
ContinuationMoved(p) ==
  /\ p.continuation # 0
  /\ LET b == p.previews[p.continuation].boundary
     IN  \/ b.generation # p.boundary.generation
         \/ b.catalog # p.boundary.catalog
         \/ b.provider # p.boundary.provider
         \/ b.controllerEpoch # p.controllerEpoch
         \/ b.gateEpoch # p.gateEpoch

(* An approved continuation whose boundary moved is never submitted.  Once *)
(* the hold is no longer paused_ready the run stays held for good: no      *)
(* sequence of commands, recoveries or further boundary moves releases it, *)
(* and no digest comes back to the value that was approved.                *)
StaleContinuationHeld ==
  [][(ContinuationMoved(plane) /\ plane.status # "paused_ready") =>
       /\ plane'.pauseLatched
       /\ ContinuationMoved(plane') /\ plane'.status # "paused_ready"]_vars

(* The boundary that previews are compared with carries the run's present  *)
(* versions after every operation, recovery included.                      *)
BoundaryInSync ==
  /\ plane.boundary.controlVersion = plane.controlVersion
  /\ plane.boundary.controllerEpoch = plane.controllerEpoch
  /\ plane.boundary.gateEpoch = plane.gateEpoch

(* The configuration of a draft or revision is coherent: no item twice, no *)
(* pin without its item, every note selected in the version noted.         *)
ConfigCoherent(config) ==
  /\ Cardinality(IdsOf(config.selected)) = Len(config.selected)
  /\ Cardinality(IdsOf(config.notes)) = Len(config.notes)
  /\ IsInjective(config.pinned)
  /\ PinsSelected(config)
  /\ Range(config.notes) \subseteq Range(config.selected)

(* No sequence of patch operations, restores included, makes an incoherent *)
(* draft or revision.                                                      *)
DraftsCoherent ==
  /\ \A d \in Range(plane.drafts) : ConfigCoherent(d.config)
  /\ \A r \in Range(plane.revisions) : ConfigCoherent(r.config)

(* Protected items never enter a draft, so none reaches the prepared input *)
(* as an edit.                                                             *)
ProtectedNeverSelected ==
  \A d \in Range(plane.drafts) :
    \A r \in ReferencesOf(d.config) : r.id \notin LockedIds

(* The part of journal validation that every history passes: references    *)
(* name a version the registry has, pins are selected, an applicable       *)
(* preview has material, the continuation exists with its input, and the   *)
(* boundary carries the versions the run has now, after a recovery too.    *)
(* Bytes and digests are not compared here; JournalRecoverable says what   *)
(* becomes of them.                                                        *)
JournalResolvable ==
  /\ BoundaryInSync
  /\ \A d \in Range(plane.drafts) \cup Range(plane.revisions) :
       /\ \A r \in ReferencesOf(d.config) : KeyOf(r) \in DOMAIN plane.items
       /\ PinsSelected(d.config)
  /\ PreviewsSound(plane)
  /\ ContinuationSound(plane)

(* The journal the plane exports is one recover_journal accepts.           *)
JournalRecoverable == JournalValid(plane)

(* A draft stays within the item limit of its contract.                    *)
DraftWithinItemLimit ==
  \A d \in Range(plane.drafts) : Len(d.config.selected) <= MaxItems
=============================================================================
