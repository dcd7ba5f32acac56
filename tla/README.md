# A TLA+ verification of the context console

The console lets operators pause a running agent, edit the context of its next
provider input, have the edited input previewed, approve it, and resume.  Its
source is `crates/context-service`, with the parsers of `crates/context-reader`;
a companion "Harness" owns the game and the provider and is outside this
repository.  This directory models the parts that decide *what is submitted,
whether it happens once, and by whose authority*, checks them with TLC and proves with
TLAPS the promises of each: every safety property that a passing run checks is a
theorem.

Paths below are relative to `src/crates/context-service/src`.

## 1. Inventory

| Part | State | Operations | What must hold, and what makes it hard |
|---|---|---|---|
| Control plane, `control/*` | drafts, items, previews, revisions, receipts by key, latches, boundary, epochs | drafts, patches, previews, pause, commit, resume, stop, host moves, recovery | what is submitted is what was approved, in the same hold; racing operators, outdated approvals, patches that fail half way |
| Durable control store, `control/durable*.rs` | one journal row, outbox, memory bindings, snapshots | persist, load, copy snapshots | an answered receipt survives; crash between commit and publication, two processes on one file |
| Owner invocation store, `owner_invocation_store/*` | one sealed record per stable key | reserve, claim, complete, mark unknown, lookup, rotate keys | a call happens at most once and is answered truthfully; crash around a send, overtaken permits, a late owner |
| Harness owner transport, `harness_owner_transport*` | a one-use permit | send a write, a lookup, a read | deadlines, lost and unreadable replies |
| Owner operator, `owner_operator/*` | process lock, principals, slots, keys, configuration | serve a request, provision, revoke, rotate | authority that lapses during a request; files replaced between two reads |
| Authenticated ingress, `authenticated_ingress*` | trusted snapshot of a request | admit, revalidate | the same, with a clock that may be set back |
| Subject grants, `subject_grants*` | rows with generation and lifetime | provision, revoke, reserve | old evidence must never name another grant |
| Harness facade, `harness_facade.rs` | reference index, capabilities, request reference | lists, reads, drafts, patches, previews, commands, receipt recovery | a bounded index ahead of or behind the owner; mutations with a lost answer |
| Owner port, `owner.rs`, and the attached routes of `memory.rs` and `provider_session` | grant book, learnt references | owner calls, receipt lookups, revocations | a grant revoked while a call waits; references of two scopes |
| Effective limits, `effective_limits.rs`, `capability_*.rs` | a configured descriptor | trust a reply, present limits, admit a query | an owner that restarts, replays an older schema or widens a limit |
| Demo server, `demo/*`, with the local session route | control plane, its disk and outbox, session tables | every route | each write proved, shown only when durable, also after a commit that was reported as failed; colliding keys, full tables |
| Phase 1 store, `store/*`, and read API, `read_api/*` | snapshots, events, content, revoked tokens | ingest, append, revoke; list, read, compare, page, resolve | pages of one stream under late events; grants that end between pages |
| Capture and vault, `capture/*`, `private_store/*` | ring, gaps, encrypted objects, quota, counter | record, put, get | the ring and the quota at their limits; nonces never repeat |
| Owner wire types, operator files, HTTP, telemetry, web console | none | parse, validate, show | section 7 |

**How they interact.**  An operator reaches the control plane through the CLI or the
demo server, which clone it, mutate the clone, persist it and then publish it
(`demo/state.rs:148`, `cli.rs:574`).  Against a real Harness the operator's request
goes through the owner operator: ingress admits it against the principals, the
slots and the grants; the journal reserves and claims its key; the transport
redeems the sealed bearer and sends; the journal completes; the authority is
checked again and only then is the answer disclosed.  The facade and the attached
memory and session routes talk to the same kind of owner through the owner port,
under a grant book both routes share.

What is hard to test is the list `hazards` of `PROJECT.json`; each is covered by a
property of section 3, but for one the code does not promise anything about (section 5).

## 2. Modules

| Module | Models | Its state |
|---|---|---|
| `ControlPlane` | `control/state/*`, `control/render.rs` as operators on one record | |
| `ControlSession` | one plane in memory, with operators, host, clock and recovery | `plane` |
| `DurableControl` | the plane over `control/durable*.rs`, processes and crashes | `live`, `journal`, `outbox`, `bindings`, `snapshots`, `acked`, `overlapped` |
| `AtMostOnceCall` | abstract: what a journaled or attached call promises | `applied`, `told` |
| `OwnerInvocation` | the store, the transport and `owner_operator/routes.rs` against an external owner | `rows`, `jobs`, `wire`, `applied`, `told` |
| `SubjectGrants` | `subject_grants*`: the table and its transactions | `grants` |
| `OwnerAuthority` | `authenticated_ingress*`, principals, slots, currentness checks, the redemption of bearers | `principals`, `slots`, `wall`, `mono`, `job`, `trusted`, `sealed` |
| `JournalKeys` | `owner_operator/keys.rs`, `crypto.rs`, open and `rotate_data_keys` | `manifest`, `meta`, `rows`, `store`, `written` |
| `HarnessFacade` | `harness_facade.rs` against an owner and other consoles | `owner`, `index`, `caps`, `reference`, `last`, `job`, `answer`, `learned` |
| `EffectiveLimits` | `effective_limits.rs`, `capability_*.rs` as operators | |
| `CapabilityAdmission` | a configured console against every reply an owner may give | `trust`, `reply`, `changes` |
| `OwnerPort` | `owner.rs` and the attached routes, step by step, with revocations and lost replies | `book`, `clock`, `owner`, `jobs`, `index`, ... |
| `ProviderSession` | `provider_session/*`: the local route and its idempotency table | `mode`, `bindings`, `operations`, `idempotency`, ... |
| `DemoServer` | `demo/*`: dispatch, proofs, durable writes; contains `ProviderSession` | `control`, `disk`, `outbox` |
| `CaptureWire` | the rules of `context-reader` that relate fields, as operators | |
| `ReadStore` | `store/*`, `read_api/*`, `association.rs` | `entries`, `events`, `content`, revoked tokens, clock, cursors |
| `CaptureVault` | `capture/*`, `private_store/*` | `ring`, `dropped`, `objects`, `used`, `counter` |
| `*Proofs` | theorems: `ControlPlaneProofs`, `ControlProofs`, `OwnerInvocationProofs`, `AuthorityProofs`, `OwnerPortProofs`, `HarnessFacadeProofs`, `DemoServerProofs`, `StoreProofs` | |
| `MC*` | instances for TLC | a scenario, where a run has several |

**Control.**  `ControlPlane` gives each operation two operators, its conditions
(`CommitAllowed`) and the plane it leaves (`Commit`), so that one translation runs in
memory (`ControlSession`) and over the store (`DurableControl`).  A call the code
rejects changes nothing and is no step, except a patch that fails half way, which
keeps what it inserted into the item registry.  Every trailing event, boundary
synchronisation and invalidation is part of the operation.

**Owner operator.**  The request handler is modelled twice, each time with what the
other leaves out.  In `OwnerInvocation` a handler is one operator process serving
one request; its steps are the transactions and the exchanges of `handle`:
`ReserveNew`, `ReserveAgain` and `ReadCached` are the outcomes of `reserve`, `Claim`
is `claim_send` and `claim_exact_lookup`, `Send` the request leaving, `GiveUp`
every failure after a claim, `Complete` and `FindNothing` the completions, and
`Disclose` the response after the final checks.  `OwnerPerforms`, `OwnerRefuses`
and `OwnerLooksUp` are external: the owner may act at any later time or never, and
is *not* assumed to recognise a repeated write.  Authority is one failure there.
In `OwnerAuthority` the journal is one step and each read of a file, of the grant
table or of a clock is a step of its own, between which the operator replaces the
principal or slot file, revokes a grant or sets the wall clock (bounded by
`MaxEdits`).  `SubjectGrants` is the table it reads.  `JournalKeys` is the third
part: the operator edits the key manifest while the journal is opened, written and
rotated, with a crash between any two steps.

**Facade.**  A call is a sequence of steps, one for each helper its handler calls
(`Checks`): `EnsureKnown` is `ensure_known_id` and `ensure_item` with the
revalidation they may start, `EnsureVersion`, `EnsureNote`, `EnsureContent` and
`DecideAuthority` the checks of a patch, `RequireOwner` is `require_owner`,
`LoadCapabilities` and `Reload` the refresh; then the call itself runs, as `List`,
`Read`, `RecoverReceipt`, `Forward`, `ForwardLost` or `ForwardRefused`.
`OtherConsole` may change the owner between any two steps.  An answer names more than
it is about: a receipt the active revision, a draft its base, a preview its draft and
base.  `answer.names` has all of these, and `learned` what the owner was seen to have:
lists, objects read or made, commands, and the revision of a *recovered* receipt.

**Owner port.**  A call is authorised against the grant book, admitted against the
owner's published limits where it is a query, authorised again, sent, checked, or
looked up once by its receipt when the answer got lost; the book, the clock and
the owner's profile change between the steps.  An answer names the binding, the
operation and the plan it is about (`refs`), which the session route records, all or none;
a list carries others within its items (`within`), which it does not.  Of what else an
answer may name, the target of a fork plan and the job of a compaction are not
recorded either and are left out.  `CapabilityAdmission` takes the admission
alone and tries it against every reply within `MaxChanges` changes of a good one.

**Demo server.**  `mutate_control` edits a copy, persists it and then shows it.  `control`
and `disk` are the changes that made the plane in memory and the stored one, and `outbox`
the events stored beside it; a write is stored and shown, rolled back, or committed and
yet reported as failed, whereupon memory stays behind the store (`Mutate`).  The next
write then has to agree with the outbox (`Agrees`): a change that records another event
under the stored sequence is refused, for good, until the server is started again.

**Read store.**  A read changes nothing, so reads are functions of the state.  `View`
collects every answer that the holder of a grant can get on any route, and the properties
say what may happen to it.  Cursors that were handed out are kept as a trail, so that a
page is compared with the pages before it.  `compare.rs` looks at identifiers, ordinals,
digests, status and sizes alone; `Same` translates that and says what it leaves aside.

**Abstractions.**  Names are numbered by creation; SHA-256 is injective, so a digest
is what it digests; a sealed record opens only under what its sealing binds; a key
is a stable locator and a call is all that `same_call` and `admission_matches`
compare.  Checks of files, locks and framing, and deadlines, fail
nondeterministically.

## 3. Runs

Several runs check more than one scenario of the same subject; a variable of the MC
module (`patching`, `overlapping`, `part`) is chosen in the initial state
and never changes, so no behaviour mixes them.

| Run | Shows | Bounds |
|---|---|---|
| `control` | `CommittedAsApproved`, `ApprovedInThisHold`: what is committed is what was approved, in the same hold; `OneWinnerPerVersion`: one command wins a control version; `ReceiptsImmutable`; `PreparedIsActive`; `DraftsCoherent`, `JournalResolvable`, `ProtectedNeverSelected`: whatever patches did, drafts and journal resolve to editable items (bytes and digests are not compared: section 5); `StopIsFinal`; `StaleContinuationHeld` | *racing*: 2 drafts, 2 previews, 4 keys, 4 control versions, 1 tick: pause, two approvals, commit and resume with a competitor at each; *editing*: all eight operations, draft version 4, pause and commit so that a restore is not empty; *patching*: patches of 2 operations that fail at the second, notes named like seeded and protected items; *fencing*: 1 draft, 1 preview, 3 control versions, 1 recovery, 1 deactivation, all host moves |
| `control_unrecoverable`, `control_item_limit`, `facade_receipts` | three disagreements with the documents, section 5 | 2 drafts and 2 texts; 1 draft and 2 items; 1 draft, 2 keys, 2 revisions |
| `durable` | `AckedNeverLostByOne`: one process loses no answered receipt; `StoreFollowsJournal`: outbox, bindings and journal agree; `StoredOnce`: stored rows are never replaced, with two processes too | 1 process, 3 keys, 2 previews, 1 recovery; or 2 processes, 2 texts, 2 keys and no recovery; 8 and 4 events retained, so that both meet the end of the journal's list |
| `owner_race` | `ImplementsAtMostOnce`, `TruthfulAnswers`, `RecordsValid`, `SettledByHolder` | 2 processes, 2 keys (one without lookup), 2 calls, 2 results, 3 attempts |
| `owner_live` | `EveryRequestEnds`, nothing deadlocks | 1 process, 2 keys, 1 row, so that the row limit is met |
| `facade` | `IndexSound`: within its bound, no list is taken for complete without all that the owner had at the last list of its kind and every object listed, read, made, commanded or recovered since, so what is called foreign is newer than that list; `ForwardedIsIssued`; `RetryableMeansUnapplied`; `OwnReference`: a trusted request is served from its own reference; `AuthorityAgrees`: the authority sent with a patch fits the owner's draft | both modes, 2 alternating trusted requests, every call but patches, an index of 1 entry per kind with 2 revisions, so that it overflows, while another console drafts and commits; or all five kinds of patch on 1 draft of 2 versions and 2 revisions while the other console patches it |
| `owner_port` | `CallsAreAuthorized`: what reaches the owner had its authority at the epoch and time it names (a query is dated after its capability read, any other call when it came in, so a revocation in between does not stop it), and a query is within the trusted limits; `ReferencesAreOwn`: what answers name can be used, by their scope alone; `ImplementsAtMostOnce`; `EveryRequestEnds`; `OffersAreTrusted`: what is presented and admitted is what is trusted | *port*: 2 clients, 2 scopes, 3 grants so that a binding made under one is read and listed under another, 2 requests, 2 profiles of which one is wider, 1 event, sizes on both sides of the limit; *offer*: 2 surfaces, 1 change for each of 2 places, limits at 0, 1, and on both sides of each ceiling |
| `demo` | `ServerSound`: tables bounded, answers are of what was performed, in the own run; `ShownIsDurable`: what is shown is in the store, which is ahead by one unreported change at most, and the outbox tells of what is stored; `StepsAreProved`: no change without its proof, in the store too | *session*: 2 runs and 2 keys whose joined text collides (over runs only through the library's route: `demo/routes.rs:95` takes one run), tables of 1 and 2 rows; *control*: 3 changes, fewer than `MAX_EVENTS`; 4 tokens in both |
| `store` | `PagesArePrefixes`; `ReadsWithinGrant`: what happens outside a grant's scope changes no answer its holder can get on any route, what could be read can be read again and is the same, and a dead grant reads nothing for ever; `StoreSound`: limits, order, no false completeness, and `RoutesAgree`: what can be fetched is listed, snapshots that compare without a change have the same bytes, an association resolves to what can be fetched; `VaultKeeps`: ring newest and gap exact, quota held, nonces fresh within one vault, latest bytes returned | 2 snapshots, 3 events, 2 contents, 2 grants, a ring of 2, a quota of two objects; manifests and events varied in every field a rule relates |
| `authority` | `GrantsAreEvidence`: evidence names the row it was reserved from; `RevocationIsFence`: no send after a revocation that a check could see; `SentUnderEvidence`: what is sent is within the admitted lifetime and uses the sealed bearer; `RowsStayOpenable` | 2 grant ids, 2 grant specifications of which one starts later, 3 principal files, 4 slot files, 2 edits, 5 seconds; 2 key ids, 3 materials, 2 rows, 2 writes each |

Compound properties are conjunctions of named parts; the parts are the definitions
just above each in its module and carry their own comments.  `PROJECT.json` lists,
for each property, the changes of the model that break it, and for compound ones
a change for each part.

`CHECK_DEADLOCK FALSE` is set where the bounds end the run, or where a system at rest
has nothing to do: control commands are numbered by the control version, which only
grows (`control`, `durable`); store, demo and owner port stop when the bounded
requests, rows or times are used up.  The owner, facade and authority runs do check
deadlock.  Symmetry is over idempotency keys, processes, calls, results and trusted
requests, which no definition tells apart; runs with liveness properties use none, and
the commands of `ControlSession` instead try one fresh key, which stands for all.

**Fairness.**  `owner_live` assumes weak fairness of each handler's steps: connect,
read and write all take the request deadline (`harness_owner_transport/framing.rs:50`,
`owner_operator/service.rs:190`) and the SQLite transactions are local.  `owner_port`
assumes weak fairness of each client's `Serve`: a call of the port returns, with an
answer or an error (`owner.rs`), and the owner's failure is one of its outcomes.
Nothing is assumed of callers, of the owner, of other consoles or of crashes.

## 4. Abstract specification and refinement

`AtMostOnceCall` says that a key's call is performed at most once and that a caller is
told only the result of what was performed.  `OwnerInvocation` implements it with
the receipts of the owner; the step in which the owner performs a
message off the wire is its `Perform`, every other step a stutter or a `Tell`.
`OwnerPort` implements the same specification with other means: no journal, one
send, and at most one lookup of the receipt the call named.  Both refinements are
checked (`ImplementsAtMostOnce`) and proved.

## 5. What the checks found

* *An exported journal need not be recoverable.*  `put_note` numbers a note after
  the draft's own copy of it (`control/state/mod.rs:490`).  Two drafts that both hold
  version 1 and both update it write version 2 twice, and the second overwrites the
  bytes behind the first draft's reference, which
  `docs/decisions/0002-context-control-phase2.md:5` calls immutable.  That reference
  then carries a digest the registry does not have, and `recover_journal` rejects the
  whole journal, although line 12 of the same document says that recovery retains
  the run (`control_unrecoverable`).
* *Notes exceed the item limit.*  `put_note` does not apply `MAX_ITEMS`, which the
  contract of a draft states (`control_item_limit`).
* *A receipt names a revision that is then refused.*  `recover_receipt` caches the
  revision a receipt names, so that a resume can follow a commit whose answer was lost
  (comment at `harness_facade.rs:1850`).  `receipts` and `read_receipt`, by which
  `docs/HARNESS_FACADE.md:106` lets a client reconcile as well, cache the command only
  (lines 1820, 1880): the revision stays foreign while the list of revisions is taken for
  complete (`facade_receipts`).  The base of a draft, the draft and base of a preview and the
  active revision in `state` are not cached either.

One more thing can surprise and contradicts no text: the bindings a session route *lists*
cannot be used until another answer names them or the composition registers them, for
`record_attached_references` reads the top level of an answer (`service.rs:286`).
`ReferencesAreOwn` therefore speaks of what answers name.

Everything else listed holds, including promises that look broken at the line
where they bite: `commit` never looks at the stop latch, yet stop is final because a
stop moves the gate epoch that previews are compared with; `commit` copies the draft
instead of the previewed material, yet commits what was approved because saving
a draft withdraws its previews; the dedupe key of a session command joins run and
key with a colon that both may contain, yet no caller gets another's answer, since
the stored body, which repeats the key, is compared as well and the run follows from
both; rotation adopts its keys after the transaction that used them, yet a crash
between leaves rows that the manifest opens.

A commit of the demo server that is reported as failed leaves its store ahead of what it
shows by one change (`durable.rs:203`).  Nothing shown is lost by that, but from then on the
store takes only a change with the event of the unreported one; every other is refused
until the server is started again.

Overlapping processes on one control store do lose answered receipts; decision
0013 limits the store to one process, and `AckedNeverLostByOne` says so.  One process
alone can lose a bound revision, which the proof of `StoreFollowsJournal` brought out:
once the journal is full no mutation leaves a retained event, so nothing tells the
repetition of a commit that was stored but reported as failed from a different
mutation, which then overwrites the journal and leaves the binding behind.
`BindingsResolve` therefore speaks of journals with room for an event (`MAX_EVENTS`).

## 6. What is proved

For every value of the constants, from the named assumptions of the modules alone:

* `OwnerInvocationProofs`: `TypeCorrect`, `PerformedAtMostOnce`,
  `AnswersAreTruthful`, `RecordsStayValid` (invariants), `CompletedStays`,
  `SettledByItsHolder` (action properties), `ImplementsCall` (refinement of
  `AtMostOnceCall`).
* `AuthorityProofs`: `EvidenceStands`, `Spec => []GrantsAreEvidence`,
  `RevocationFences`, `Spec => []RevocationIsFence`, and `SendsRestOnEvidence`,
  `Spec => []SentUnderEvidence`; of `JournalKeys`, `RowsNeverLost`,
  `KeysSpec => []RowsStayOpenable`: all that `authority` checks.
* `ControlProofs`, on the lemmas of `ControlPlaneProofs`: `ControlPlaneIsSound`
  (the inductive invariant `IInv`), and from it the invariants `ControlPlaneTyped`,
  `CommitsAreApproved`, `PreparedInputIsActive`, `RacingCommandsHaveOneWinner`,
  `PatchesKeepDraftsCoherent`, `ProtectedItemsStayOut` and `JournalsResolve` and the
  action properties `ReceiptsAreImmutable`, `StopIsForEver`, `CommitsStayInTheirHold`
  and `StaleContinuationsStayHeld`: all eleven properties that `control` checks.
  For the store the plane is kept in, `DurableControlIsSound`
  (the inductive invariant `DurableInv`), `AckedReceiptsKept`, `StoreFollows` and
  `RowsStoredOnce`: all that `durable` checks.
* `OwnerPortProofs`: `PortIsSound` (the inductive invariant `PortInv`), and from it
  `PortCallsAuthorized`, `PortReferencesOwn` and the refinement `PortImplementsCall`.
  Of `CapabilityAdmission`, `OffersStayTrusted` (the inductive invariant `OfferInv`),
  `AdmissionSpec => []OffersAreTrusted`.
* `HarnessFacadeProofs`: `FacadeIsSound` (the inductive invariant `FacadeInv`), and
  from it `IndexIsSound`, `OnlyIssuedForwarded`, `RetriesAreSafe`,
  `ReferencesStayApart` and `AuthorityIsRight`: all five properties of `facade`.
* `DemoServerProofs`: `EveryStepProved`, `Spec => StepsAreProved` (action property), and
  `DurableBeforeShown`, `Spec => []ShownIsDurable`; and `RoutesAreSound`,
  `Spec => []ServerSound`.
* `StoreProofs`: of `ReadStore`, `StoreStaysSound`, `ReadsStayWithinGrant`
  (action property) and `PagesFollowOneStream`; of
  `CaptureVault`, `ProducerKeepsItsWord`,
  `VaultSpec => []VaultKeeps`: all that `store` checks.

**At most once** is not inductive: nothing in it says that a write on the wire, or
that a handler is about to send, has not been performed.  `JournalInv` adds

* `JobsInv`: each request holds the key, the call and the permit its phase needs;
* `RowsInv`: a row that is present belongs to a call and is a valid record;
* `OnceInv`: a key with no row or a prepared one has no permit, no write on the
  wire and no performance; an unused write permit or a write message of a key is
  the only one and excludes any performance; a message carries the row's call, and
  what was performed is at most once that call;
* `ReplyInv`: a readable reply is the owner's first receipt for the key;
* `TruthfulAnswers` itself, which the completion of a row relies on.

**Rows stay openable** because `KeysInv` ties three things together.  `RowsInv`: each
written locator has one row, with its last body, bound to the index key the journal was
created with.  `StoreInv`: an open store has that index key; until a rotation commits,
the keys it holds open every row; from the load on, the keys to come do as well.  The
manifest itself appears nowhere: the operator may put any valid manifest in place at
any time, and a rotation refuses one that does not keep the keys in use (`Retains`).
With a weaker `Retains` the proof fails.

**Evidence and the fence.**  `AuthorityInv` adds to the type invariant that the table is
finite and one the store accepts itself (`TableInv`); that sealed evidence identifies
the row it was reserved from, unchanged but for a revocation, which its generation
tells (`EvidenceIdentifiesRow`); and, phase by phase, which parts of the authority
may have lapsed before the last currentness check began and still be looked at
(`JobInv`, with `FenceInv`).  A grant id is never provisioned again and a revocation
counts once, so evidence names one row for good.  With a slot check that only resolves, or a
repeated provisioning, the proofs fail.

`UseInv` is what bounds a send.  The clock a request reads never falls below its floor,
which starts at the wall time of its arrival, so the deadline the seal counts from the
start is before every expiry of the evidence (`LifetimeInv`, with `EarliestIsLeast`,
which holds of any set of times as `<` is well-founded); a send is before that deadline
and with a bearer of the sealed reference (`SendInv`).  The end of a facade request is
counted from its arrival in the same way (`TrustedInv`).  TLC checked `UseInv` on the
instance of `authority` first.  The assumptions are that what the registries hold
expires at natural numbers (`RegistriesAssumption`) and that requests are typed
(`RequestsAssumption`); `SubjectGrantsAssumption` and `OwnerAuthorityAssumption` type
the rest.

**The control plane.**  `IInv` is `Sound(plane)`, a conjunction that TLC checked on the
instances of `control` before it was proved.  What a
commit writes is the draft, not the previewed bytes, so "committed as approved" needs

* `PreviewsKept`: a preview not yet consumed shows its draft's present configuration,
  because saving the draft withdraws it; a preview that is still applicable while
  the run is not `paused_ready` is older than the control version, so a commit finds
  the run paused (this, and not a look at the latches, is why stop is final);
  and no counter of its boundary is ahead of the run's;
* `InSync`: the boundary carries the run's versions, and the catalog and provider
  values never exceed the gate epoch by more than one.  They are named after the
  gate, so a value that was left behind never returns; without this a stale
  continuation could match its boundary again;
* `RevisionsApproved`, `PreparedSound`, `Latches`: each revision but the first points at a
  consumed preview whose material it is, the prepared input is the continuation's,
  a stop implies a pause and excludes `paused_ready`;
* `Winners`: a command that had an effect spent a control version below the present;
* `Shape`: field by field, which records, sequences and references there are; every
  draft and revision has a sound configuration over the registry.

`OperationsKeep` shows that a patch of *any* number of operations, complete or
failed midway, keeps the registry typed and the draft sound.  The patch loop is a
recursive function; the induction over its prefixes is `InductionOverNat`, which takes
the *set* of the numbers a fact holds of and follows from the well-foundedness
of `<` on the naturals.  The only assumption is `ControlPlaneAssumption`.

**The durable store.**  `DurableInv` says that the journal and every copy of it is a sound
plane with events numbered apart, and, while one process at a time has the store open,
that the process's copy knows every receipt it answered with, and the journal every
receipt of the copy (`AckedKnown`).  A memory
binding is the hard part: a commit may be stored with its binding and reported as
failed, and the process works on without the revision.  `LedIn` says that such a
binding *awaits* its commit: the outbox holds the event that announced it under
the next sequence of the stale copy.  Every mutation announces itself in its first event
(`Announced`), and `insert_outbox` refuses another event under a stored sequence, so the
next mutation that can be stored is that same commit.  The argument ends where the journal
stops retaining events, and so does the property (section 5).

**The owner port.**  A request reads the grant book, the descriptor and the index at
different moments, so what authorises it is dated: a revocation has the epoch
that it began, and a call stands if its grant was not revoked by the epoch it names.
`Now` collects what authority is measured by, `Later` says that each part of it moves one
way only, and `AuthorityKept` that a call authorised at its date stays so.  `PortInv` joins

* `JobInv`, `SentInv`: what an open request and a sent call rely on, step by step;
* `SerialInv`: an answer closes its serial for good, so a second performance or a
  second answer of one request has nowhere to come from;
* `DoneInv`: the owner's entry of a call is its only one, with references of its
  scope, of which at most one is a binding the call did not name.  The session route checks
  its bounds for one new binding and one new operation (`FitsBindings`), and this is why
  that suffices;
* `IndexInv`: the index is within its bounds, holds issued references, each under its
  own scope, and everything an answer has named.

An index is dropped only with no session call open (`Restart`), as the route holds its
lock for the whole call; without that guard `JobInv` fails.

**The facade.**  None of its properties is inductive: a call is at some check, and what
the earlier ones found may have been evicted since or edited at the owner.  `FacadeInv`
says what of it survives, and TLC checked it on both instances before it was proved:

* `IndexOk`: each list is within its capacity and holds only issued ids, and a kind
  that is `complete` holds all that was learned of it, since the one insertion that can
  drop an id also clears the flag; a cached draft is the owner's, or an earlier
  *version* of it (`Cached`), never a different draft of the same version;
* `LearnedOk`: what was learned was issued as well.  An object of an answer is inserted
  (`ObjectLearned`), a list brings in all that the owner has of its kind
  (`ListLearned`), and a forgotten list is complete in nothing (`ClearedLearned`);
* `JobOk`: a mutation has passed a prefix of its checks (`Advanced`), and each has left
  behind what `Passed` says of it.  Both outlive any change at the owner, which only
  grows (`Grown`, `PassedGrown`): ids stay issued, and a draft changes with its
  version.  The version check keeps the cached draft in place for the authority
  decision, because no check after it caches a draft;
* `RequestInv`: the reference of a trusted service is that of its last request.

So if the owner can take a patch at all, its draft has the version the check saw, is the
cached draft, and asks for the authority that was decided (`CachedIsCurrent`).  The
loops over items, drafts and lists are recursive functions, handled as above.

**The demo server.**  A step that leaves the answer alone must not turn it into one a
reviewer may not see, so `DemoInv` joins `ShownIsDurable` with what is so of the
last answer (`AnswersGranted`) and the types of the planes (`PlanesTyped`); the lemmas say
of each area what it may change and answer, and the theorem combines them over the routes.
That memory stays a prefix of the store after a commit that was reported as failed is
`ChangeKeeps`: the next change that can be stored takes the place of the unreported one,
under an event the outbox already has, so the outbox still tells of what is stored.

Its session route joins identifiers by colons that they may contain, so different
commands can share a dedupe key.  `KeyTells` shows that, for one client key, they then
have the same kind and the same run or binding; as the body repeats the key, a record
with an equal body is the command's own (`ReplayQuiet`).  `SessionInv` is inductive because
`HistoryInv` ties what was performed to the idempotency table both ways, and
`TablesInv` counts: each binding has an operation, and a prepared binding, the one
command without an entry of its own, was let in while the idempotency table was below
`MAX_OPERATIONS`.

**What an owner offers.**  `Outcome` names the first check that fails, so `OutcomeOk`
needs it to be "ok" only when all hold: no check may carry "ok" as its error
(`Telling`), also one whose error is the outcome of an inner list.  From there the
proof is of the converse directions: that the trusted reply *is* presented rests on the
row checks, each of which admits a limit against itself, and these need the descriptor
to be enabled, which `DescriptorValid` demands of a session; that the classes of the
rows never refuse a limit within the schema rests on every policy being at or above
its schema (`CeilingsOK`, field by field).  `OfferInv` only keeps the form of a reply
and the trust as it was configured.  `NoneAssumption` says that `None` is not one of the
descriptors.

**The read store.**  That pages follow one stream is `StreamInv` with `TrailInv`: the
events of each scope, in the order they were appended, bear the ordinals from 0 up
to the count of the scope, and every cursor handed out lies within its stream, whose
events up to there its client has been shown.  A page sorts the events after a
place; as they are distinct, ordered and fill an interval they are that interval
(`Contiguous`, `SortedIsRest`), so the page continues the trail.  `SoundInv` keeps what the
ingest checked of snapshots (`Kept`), and that an event's ordinal lies below the count of
its scope.  `DocumentsAssumption` types manifests, with their ranks, and grants.

That reads stay within their grant is a property of steps.  The store only grows
(`OnlyGrows`), so a step that adds nothing in a grant's scope leaves that scope as it was
(`SameScope`), with it the listings under each limit (`SameListings`), the bytes a
listed component leads to (`SameBytes`), comparisons and associations (`SameAnswers`) and
pages (`SamePages`): its `View` is unmoved (`ViewUnmoved`).  What was readable stays so
(`ReadableStays`), because the snapshots before one are too few to push it out of the
*full* listing (`FewBefore`, `FullyListed`).  That routes agree rests on `UnchangedIsSame`: a
comparison that lists no change has paired every component with one of the same digest.

**The vault.**  `VaultInv` joins `RingInv` (the ring holds the newest records in order, and
what is not in it is counted as dropped), `QuotaInv` (`used` is the sum of the stored
sizes, which `SumUnrolled` and `SumStored` keep over a put that replaces an object),
`NonceInv` (every nonce used lies below the counter, so the next is fresh) and
`OpensInv` (each object lies under the associated data it was sealed with, which tells
scopes apart).  `PrivateScopesAssumption` says which fields a scope has.

Each action's preservation is a step or a lemma of its own, and under it there is
one step per conjunct the action can disturb.

**Only model-checked:** liveness (`EveryRequestEnds`), which the prover does not reach.
The three runs that expect a violation have no theorem, as what they check is false.

## 7. Not modelled

* Operator configuration, protected files, database files and the HTTP parsers check
  and refuse; their refusals are the failing steps of `OwnerAuthority` and
  `OwnerInvocation`.
* The owner wire types validate encodings of one message and keep no state; what the
  journal and the authority tell apart of an invocation stands for them.
* Encryption, key derivation, SQLite, JSON codecs and file permissions are trusted:
  the models take their contracts (a transaction is atomic and durable, a sealed
  record opens under what it binds).
* Of the context memory, what a fixture finds is data; of the facade, the grant
  registry and the reads of `capabilities` and `state` are left out.
* The web console has no authority of its own; telemetry counters have no reader.
* `DefinitelyNotSent` rows are left out, since no code enters that state.
* Two limits are left as they are: the command window of a run is set once and never
  renewed, so commands end with it (`control/state/mod.rs:95`); owner rows are
  never deleted, so `MAX_ROWS` distinct keys fill the journal for good
  (`owner_invocation_store/storage/core.rs:17`; `owner_live` meets that limit).

## 8. Plan

1. The composition of `OwnerAuthority` with `OwnerInvocation`, so that a lapse of
   authority meets the journal's claim in one behaviour.
2. The owner wire types' draft and boundary rules, as operators beside `CaptureWire`.
