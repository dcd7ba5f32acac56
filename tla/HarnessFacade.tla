--------------------------- MODULE HarnessFacade ----------------------------
(***************************************************************************)
(* The facade between Console callers and the Harness owner                *)
(* (harness_facade.rs).  It keeps a bounded index of the references the    *)
(* owner has issued, refuses what it does not know, and forwards the rest. *)
(* A call is a sequence of steps, one for each helper the handler calls;   *)
(* the facade serves one call at a time, but other consoles change the     *)
(* owner between its steps, and every reply of the owner may be lost.      *)
(*                                                                         *)
(* The owner is external: it is modelled by what its port promises, and    *)
(* may refuse anything.  A call that the grant registry refuses at once    *)
(* changes nothing and is no step; capabilities and state, which neither   *)
(* read nor write the index, are none either.  A patch has one operation,  *)
(* and of a revision only the objective is kept: not its parent, its items *)
(* and its preview, which an answer with it names too.                     *)
(***************************************************************************)
EXTENDS Naturals, Sequences, FiniteSets, SequencesExt

CONSTANTS
  None,
  Requests,      \* trusted request identities, each with its owner reference
  Modes,         \* whether the service is made with new_trusted: a set of BOOLEAN
  Ops,           \* the operations callers of the facade use
  OtherOps,      \* the operations other consoles use at the owner
  Edits,         \* the operations that patches have
  Keys,          \* idempotency keys
  Objectives,
  FirstRevisions, \* the objectives of the revisions the owner has at the start
  MaxEntries,    \* MAX_FACADE_CACHE_ENTRIES, which is MAX_ITEMS
  MaxNotes,      \* MAX_NOTES: the item index holds that many more
  MaxItemCount, MaxRevisions, MaxDrafts, MaxDraftVersion, MaxPreviews

ASSUME FacadeAssumption ==
  /\ MaxEntries \in Nat \ {0} /\ MaxNotes \in Nat
  /\ MaxItemCount \in Nat \ {0} /\ MaxDrafts \in Nat
  /\ FirstRevisions \in Seq(Objectives \cup {None})
  /\ Modes \subseteq BOOLEAN
  /\ None \notin Requests \cup Objectives

VARIABLES
  trusted,    \* trusted_ingress_only
  owner,      \* external: what the owner has issued, and whether it is enabled
  index,      \* ReferenceIndex
  caps,       \* owner_capabilities and owner_capability_error
  reference,  \* HarnessOwnerClient::request_auth_reference
  last,       \* last_trusted_request
  job,        \* the call being served, None between calls
  answer,     \* the last answer, with the references in its body (history)
  learned,    \* what the owner was seen to have since the index was last reset:
              \* every object listed, read, made or commanded, the items of a draft
              \* and the revision of a command or of a recovered receipt (history)
  sources     \* the owner references under which the index was filled (history)

vars == <<trusted, owner, index, caps, reference, last, job, answer, learned, sources>>

Kinds == {"item", "revision", "draft", "preview", "receipt"}
OwnerErrors == {"unsupported", "unavailable", "denied", "stale", "unknown",
                "not_found", "expired", "invalid"}

-----------------------------------------------------------------------------
(* External: the owner.  References of a kind are numbered as issued.      *)

InitOwner == [items |-> 1, revisions |-> FirstRevisions, drafts |-> <<>>,
              previews |-> <<>>, receipts |-> <<>>, enabled |-> TRUE]

Active(o) == Len(o.revisions)

Issued(o, k) ==
  CASE k = "item"     -> o.items
    [] k = "revision" -> Len(o.revisions)
    [] k = "draft"    -> Len(o.drafts)
    [] k = "preview"  -> Len(o.previews)
    [] k = "receipt"  -> Len(o.receipts)

IssuedIds(o, k) == 1..Issued(o, k)

(* The references an object carries besides its own id.                    *)
Mentions(o, k, x) ==
  CASE k = "draft"   -> {<<"revision", o.drafts[x].base>>} \cup ({"item"} \X o.drafts[x].items)
    [] k = "preview" -> {<<"draft", o.previews[x].draft>>, <<"revision", o.previews[x].base>>}
                        \cup ({"item"} \X o.previews[x].items)
    [] k = "receipt" -> {<<"revision", o.receipts[x].active>>}
    [] OTHER         -> {}

(* All the references in an answer with these objects.                     *)
NamesIn(o, k, ids) == ({k} \X ids) \cup UNION {Mentions(o, k, x) : x \in ids}

ReceiptOf(o, key) == {i \in DOMAIN o.receipts : o.receipts[i].key = key}

(* A patch may be applied to the draft version and under the revision that *)
(* its author saw.                                                         *)
Current(o, c) ==
  /\ c.draft \in DOMAIN o.drafts
  /\ o.drafts[c.draft].version = c.version
  /\ c.revision = Active(o)

ObjectiveAfter(o, c) ==
  CASE c.change = "set_objective"         -> c.to
    [] c.change = "restore_configuration" -> o.revisions[c.to]
    [] OTHER                              -> o.drafts[c.draft].objective

NeedsObjective(o, c) ==
  \/ c.change = "set_objective"
  \/ ObjectiveAfter(o, c) # o.drafts[c.draft].objective

(* The references a mutation carries.                                      *)
References(c) ==
  CASE c.op = "create_draft" -> {<<"revision", c.revision>>}
    [] c.op = "pause" -> {<<"revision", c.revision>>}
    [] c.op \in {"commit", "resume"} -> {<<"revision", c.revision>>, <<"preview", c.preview>>}
    [] c.op = "create_preview" -> {<<"draft", c.draft>>}
    [] c.op = "apply_patch" ->
         {<<"draft", c.draft>>, <<"revision", c.revision>>}
         \cup (IF c.change \in {"include_item", "remove_note"} THEN {<<"item", c.to>>}
               ELSE IF c.change = "restore_configuration" THEN {<<"revision", c.to>>} ELSE {})

Accepts(o, c) ==
  /\ o.enabled
  /\ \A r \in References(c) : r[2] \in IssuedIds(o, r[1])
  /\ CASE c.op = "create_draft" ->
            c.revision = Active(o) /\ Len(o.drafts) < MaxDrafts
       [] c.op = "apply_patch" ->
            /\ Current(o, c) /\ c.version < MaxDraftVersion
            /\ c.change = "put_note" => o.items < MaxItemCount
            /\ NeedsObjective(o, c) => c.objective
       [] c.op = "create_preview" ->
            /\ c.draft \in DOMAIN o.drafts /\ Len(o.previews) < MaxPreviews
            /\ o.drafts[c.draft].version = c.version
       [] OTHER ->
            \/ ReceiptOf(o, c.key) # {}
            \/ c.op = "pause"
            \/ c.op = "resume" /\ c.revision = Active(o)
            \/ /\ c.op = "commit" /\ c.revision = Active(o)
               /\ Len(o.revisions) < MaxRevisions

Patched(o, c) ==
  LET items == o.drafts[c.draft].items
  IN  [version |-> c.version + 1, base |-> o.drafts[c.draft].base,
       objective |-> ObjectiveAfter(o, c),
       items |-> CASE c.change = "put_note"     -> items \cup {o.items + 1}
                   [] c.change = "include_item" -> items \cup {c.to}
                   [] c.change = "remove_note"  -> items \ {c.to}
                   [] OTHER                     -> items]

(* A command under a key that has a receipt does nothing again.            *)
Commanded(o, c) ==
  LET revisions == IF c.op = "commit" THEN Append(o.revisions, o.previews[c.preview].objective)
                                      ELSE o.revisions
  IN  IF ReceiptOf(o, c.key) # {} THEN o
      ELSE [o EXCEPT !.revisions = revisions,
              !.receipts = Append(@, [key |-> c.key, active |-> Len(revisions)])]

PreviewOf(o, d) ==
  LET draft == o.drafts[d]
  IN  [draft |-> d, base |-> draft.base, objective |-> draft.objective, items |-> draft.items]

Perform(o, c) ==
  CASE c.op = "create_draft" ->
         [o EXCEPT !.drafts = Append(@, [version |-> 1, base |-> c.revision,
                                         objective |-> None, items |-> {}])]
    [] c.op = "apply_patch" ->
         [o EXCEPT !.drafts[c.draft] = Patched(o, c),
                   !.items = IF c.change = "put_note" THEN @ + 1 ELSE @]
    [] c.op = "create_preview" ->
         [o EXCEPT !.previews = Append(@, PreviewOf(o, c.draft))]
    [] OTHER -> Commanded(o, c)

-----------------------------------------------------------------------------
(* The reference index: for each kind the ids it holds, oldest first, and  *)
(* whether they are all the owner has; the drafts themselves; and the      *)
(* revisions whose content it has, in an order of their own.               *)

EmptyIndex == [ids |-> [k \in Kinds |-> <<>>], complete |-> [k \in Kinds |-> FALSE],
               drafts |-> [d \in {} |-> None], contents |-> <<>>]

Holds(ix, k) == ToSet(ix.ids[k])

Capacity(k) == IF k = "item" THEN MaxEntries + MaxNotes ELSE MaxEntries

(* The list without one id (retain); it holds each id once.                *)
Without(s, x) ==
  IF x \in ToSet(s) THEN RemoveAt(s, CHOOSE i \in DOMAIN s : s[i] = x) ELSE s

Bounded(s, capacity) == IF Len(s) > capacity THEN Tail(s) ELSE s

(* Without the bound.                                                      *)
InsertedUnbounded(s, x, capacity) == Append(Without(s, x), x)

(* bounded_set_insert and bounded_map_insert: to the back, the oldest out. *)
Inserted(s, x, capacity) == Bounded(Append(Without(s, x), x), capacity)

Evicts(s, x, capacity) == x \notin ToSet(s) /\ Len(s) = capacity

(* As above, without taking note of the eviction.                          *)
CacheIdQuietly(ix, k, x) == [ix EXCEPT !.ids[k] = Inserted(@, x, Capacity(k))]

CacheId(ix, k, x) ==
  [ix EXCEPT !.ids[k] = Inserted(@, x, Capacity(k)),
             !.complete[k] = @ /\ ~Evicts(ix.ids[k], x, Capacity(k))]

(* Items one after the other, in ascending order.                          *)
CacheItems(ix, items) ==
  LET after[n \in 0..MaxItemCount] ==
        IF n = 0 THEN ix
        ELSE IF n \in items THEN CacheId(after[n - 1], "item", n) ELSE after[n - 1]
  IN  after[MaxItemCount]

(* A revision with its content.                                            *)
CacheRevision(ix, r) ==
  [CacheId(ix, "revision", r) EXCEPT !.contents = Inserted(@, r, MaxEntries)]

(* A draft with the items it refers to.                                    *)
CacheDraft(ix, d, draft) ==
  LET next == CacheId(CacheItems(ix, draft.items), "draft", d)
  IN  [next EXCEPT !.drafts =
         [e \in Holds(next, "draft") |-> IF e = d THEN draft ELSE ix.drafts[e]]]

(* One object read from the owner, of any kind.                            *)
Cache(ix, k, x) ==
  CASE k = "revision" -> CacheRevision(ix, x)
    [] k = "draft"    -> CacheDraft(ix, x, owner.drafts[x])
    [] OTHER          -> CacheId(ix, k, x)

Cleared(ix, k) ==
  [ix EXCEPT !.ids[k] = <<>>, !.complete[k] = FALSE,
             !.drafts = IF k = "draft" THEN [d \in {} |-> None] ELSE @,
             !.contents = IF k = "revision" THEN <<>> ELSE @]

(* A kind replaced by the owner's list; the list is complete unless it     *)
(* evicts, which it does only while extra references are added.            *)
Relisted(ix, k) ==
  LET after[n \in 0..Issued(owner, k)] ==
        IF n = 0 THEN [Cleared(ix, k) EXCEPT !.complete[k] = TRUE]
        ELSE Cache(after[n - 1], k, n)
  IN  after[Issued(owner, k)]

DraftReferences(ix) == UNION {ix.drafts[d].items : d \in DOMAIN ix.drafts}

(* The items, and again those that the cached drafts refer to.             *)
RelistedItems(ix) ==
  LET after[d \in 0..MaxDrafts] ==
        IF d = 0 THEN Relisted(ix, "item")
        ELSE IF d \in DOMAIN ix.drafts THEN CacheItems(after[d - 1], ix.drafts[d].items)
        ELSE after[d - 1]
  IN  after[MaxDrafts]

(* project_items and its like reject a list that is too long.              *)
Listable(k) == Issued(owner, k) <= MaxEntries

-----------------------------------------------------------------------------
(* Calls.  A caller may name anything the owner has issued, to whichever   *)
(* console, and also something it has not.                                 *)

Named(k) == 1..Issued(owner, k) + 1

Reads ==
  [op : {"list"}, kind : Kinds]
  \cup [op : {"read"}, kind : {"draft"}, id : Named("draft")]
  \cup [op : {"read"}, kind : {"preview"}, id : Named("preview")]
  \cup [op : {"read"}, kind : {"receipt"}, id : Named("receipt")]
  \cup [op : {"recover_receipt"}, key : Keys]
  \cup [op : {"refresh_capabilities"}]

Changes ==
  {<<"put_note", None>>}
  \cup ({"include_item", "remove_note"} \X Named("item"))
  \cup ({"set_objective"} \X Objectives)
  \cup ({"restore_configuration"} \X Named("revision"))

Patches ==
  {[op |-> "apply_patch", draft |-> d, version |-> v, revision |-> r,
    change |-> c[1], to |-> c[2], objective |-> FALSE] :
     d \in Named("draft"), v \in 1..MaxDraftVersion, r \in Named("revision"),
     c \in {x \in Changes : x[1] \in Edits}}

Mutations ==
  [op : {"create_draft"}, revision : Named("revision")]
  \cup Patches
  \cup [op : {"create_preview"}, draft : Named("draft"), version : 1..MaxDraftVersion]
  \cup [op : {"pause"}, key : Keys, revision : Named("revision")]
  \cup [op : {"commit", "resume"}, key : Keys, revision : Named("revision"),
        preview : Named("preview")]

MutationOps == {"create_draft", "apply_patch", "create_preview", "pause", "resume", "commit"}

(* Without ensure_item.                                                    *)
ChangeChecksNoItem(c) ==
  CASE c.change = "remove_note"  -> <<<<"note">>>>
    [] c.change = "restore_configuration" ->
         <<<<"known", "revision", c.to>>, <<"content">>>>
    [] OTHER -> <<>>

(* The checks of each handler, in their order, after authorize.            *)
ChangeChecks(c) ==
  CASE c.change = "include_item" -> <<<<"known", "item", c.to>>>>
    [] c.change = "remove_note"  -> <<<<"note">>>>
    [] c.change = "restore_configuration" ->
         <<<<"known", "revision", c.to>>, <<"content">>>>
    [] OTHER -> <<>>

Checks(c) ==
  CASE c.op = "read" -> <<<<"known", c.kind, c.id>>, <<"owner">>>>
    [] c.op \in {"create_draft", "pause"} ->
         <<<<"known", "revision", c.revision>>, <<"owner">>>>
    [] c.op \in {"commit", "resume"} ->
         <<<<"known", "revision", c.revision>>, <<"known", "preview", c.preview>>, <<"owner">>>>
    [] c.op = "create_preview" -> <<<<"known", "draft", c.draft>>, <<"owner">>>>
    [] c.op = "apply_patch" ->
         <<<<"known", "draft", c.draft>>, <<"version">>, <<"known", "revision", c.revision>>>>
         \o ChangeChecks(c) \o <<<<"authority">>, <<"owner">>>>
    [] c.op = "refresh_capabilities" -> <<<<"capabilities">>>>
    [] OTHER -> <<<<"owner">>>>

ReloadOrder == <<<<"reload", "item">>, <<"reload", "revision">>, <<"reload", "draft">>,
                 <<"reload", "preview">>, <<"reload", "receipt">>>>

NoAnswer == [retryable |-> FALSE, applied |-> FALSE, names |-> {}]
NothingLearned == [k \in Kinds |-> {}]

Job(r, c, todo) == [request |-> r, call |-> c, todo |-> todo]

(* HarnessBackedContextService::new asks the owner at once, new_trusted    *)
(* only under the reference of its first request.                          *)
Init ==
  /\ trusted \in Modes
  /\ owner = InitOwner
  /\ index = EmptyIndex
  /\ caps = "unknown"
  /\ reference = None
  /\ last = None
  /\ job = IF trusted THEN None
           ELSE Job(None, [op |-> "refresh_capabilities"], <<<<"capabilities">>>>)
  /\ answer = NoAnswer
  /\ learned = NothingLearned
  /\ sources = {}

-----------------------------------------------------------------------------
(* Admission.                                                              *)

(* authorize, of a legacy request.                                         *)
Accept ==
  /\ ~trusted /\ job = None
  /\ \E c \in {x \in Reads \cup Mutations : x.op \in Ops} : job' = Job(None, c, Checks(c))
  /\ reference' = None
  /\ answer' = NoAnswer
  /\ UNCHANGED <<owner, index, caps, last, learned, sources>>

(* Without dropping what was learned.                                      *)
AcceptTrustedKeeping ==
  /\ trusted /\ job = None
  /\ \E r \in Requests, c \in {x \in Reads : x.op \in Ops} :
       /\ reference' = r
       /\ last' = r
       /\ job' = Job(r, c, IF last = None THEN <<<<"capabilities">>>> \o Checks(c) ELSE Checks(c))
  /\ answer' = NoAnswer
  /\ UNCHANGED <<owner, index, caps, learned, sources>>

(* authorize, of a trusted request: it installs the reference of the       *)
(* request, and drops what was learned for another.  Mutations are refused *)
(* as unsupported.                                                         *)
AcceptTrusted ==
  /\ trusted /\ job = None
  /\ \E r \in Requests, c \in {x \in Reads : x.op \in Ops} :
       /\ reference' = r
       /\ last' = r
       /\ IF last = r
          THEN /\ job' = Job(r, c, Checks(c))
               /\ UNCHANGED <<index, caps, learned, sources>>
          ELSE /\ job' = Job(r, c, <<<<"capabilities">>, <<"permitted">>>> \o Checks(c))
               /\ index' = EmptyIndex
               /\ caps' = "unknown"
               /\ learned' = NothingLearned
               /\ sources' = {}
  /\ answer' = NoAnswer
  /\ UNCHANGED owner

-----------------------------------------------------------------------------
(* Steps of the call being served.                                         *)

At(step) == /\ job # None
            /\ job.todo # <<>>
            /\ Head(job.todo)[1] = step

Ready(ops) == /\ job # None
              /\ job.todo = <<>>
              /\ job.call.op \in ops

Pass == /\ job' = [job EXCEPT !.todo = Tail(@)]
        /\ UNCHANGED answer

Answer(retryable, applied, names) ==
  /\ job' = None
  /\ answer' = [retryable |-> retryable, applied |-> applied, names |-> names]

Refuse(retryable) == Answer(retryable, FALSE, {})

Show(names) == Answer(FALSE, FALSE, names)

Learn(new) == learned' = [k \in Kinds |-> learned[k] \cup new[k]]

Only(k, ids) == [NothingLearned EXCEPT ![k] = ids]

(* A draft comes with the items it refers to.                              *)
LearnedDrafts(ids) ==
  [Only("draft", ids) EXCEPT !["item"] = UNION {owner.drafts[d].items : d \in ids}]

Learned(k, ids) == IF k = "draft" THEN LearnedDrafts(ids) ELSE Only(k, ids)

(* The whole list of a kind.                                               *)
LearnAll(k) == Learn(Learned(k, IssuedIds(owner, k)))

(* FacadeError::owner and FacadeError::owner_mutation.                     *)
Retryable(e) == e \in {"unavailable", "stale", "unknown"}
MutationRetryable(e) == Retryable(e) /\ e \notin {"unavailable", "unknown"}

ReadFails == \E e \in OwnerErrors : Refuse(Retryable(e))

(* load_owner_capabilities and the reset of refresh_reference_index, which *)
(* ends there when the capabilities are not known.                         *)
LoadCapabilities ==
  /\ At("capabilities")
  /\ \E c \in {"unknown", IF owner.enabled THEN "enabled" ELSE "disabled"} :
       /\ caps' = c
       /\ job' = [job EXCEPT !.todo =
                    (IF c = "unknown" THEN <<>> ELSE ReloadOrder) \o Tail(@)]
  /\ index' = EmptyIndex
  /\ learned' = NothingLearned
  /\ UNCHANGED <<owner, reference, last, answer>>

(* refresh_reference_index, one kind; a failed list leaves it empty.       *)
Reload ==
  /\ At("reload")
  /\ Pass
  /\ \/ /\ Listable(Head(job.todo)[2])
        /\ index' = Relisted(index, Head(job.todo)[2])
        /\ LearnAll(Head(job.todo)[2])
     \/ UNCHANGED <<index, learned>>
  /\ UNCHANGED <<owner, caps, reference, last>>

(* The second check of a trusted request's permission, after its reload.   *)
Permitted ==
  /\ At("permitted")
  /\ Pass \/ Refuse(FALSE)
  /\ UNCHANGED <<owner, index, caps, reference, last, learned>>

(* revalidate_reference: the owner is asked for the one object; a revision *)
(* is looked for in the whole list when the owner cannot do that.          *)
Revalidate(k, x) ==
  \/ caps # "enabled" /\ Refuse(FALSE) /\ UNCHANGED <<index, learned>>
  \/ /\ caps = "enabled"
     /\ \/ /\ x \in IssuedIds(owner, k)
           /\ index' = Cache(index, k, x)
           /\ Learn(Learned(k, {x}))
           /\ Pass
        \/ x \notin IssuedIds(owner, k) /\ Refuse(FALSE) /\ UNCHANGED <<index, learned>>
        \/ ReadFails /\ UNCHANGED <<index, learned>>
        \/ /\ k = "revision" /\ Listable(k)
           /\ index' = Relisted(index, k)
           /\ LearnAll(k)
           /\ IF x \in Holds(index', k) THEN Pass ELSE Refuse(FALSE)

(* revalidate_item lists all items and adds those of the cached drafts.    *)
RevalidateItem(x) ==
  \/ caps # "enabled" /\ Refuse(FALSE) /\ UNCHANGED <<index, learned>>
  \/ /\ caps = "enabled"
     /\ \/ /\ Listable("item")
           /\ LearnAll("item")
           /\ IF x \in IssuedIds(owner, "item") \cup DraftReferences(index)
              THEN index' = CacheId(RelistedItems(index), "item", x) /\ Pass
              ELSE index' = RelistedItems(index) /\ Refuse(FALSE)
        \/ ~Listable("item") /\ Refuse(FALSE) /\ UNCHANGED <<index, learned>>
        \/ ReadFails /\ UNCHANGED <<index, learned>>

(* Without revalidation of what an incomplete index does not hold.         *)
TrustsIncomplete(k, x) == x \in Holds(index, k) \/ ~index.complete[k]

(* ensure_known_id and ensure_item.                                        *)
Trusts(k, x) == x \in Holds(index, k)
RejectsUnknown(k) == index.complete[k]

EnsureKnown ==
  /\ At("known")
  /\ LET k == Head(job.todo)[2]
         x == Head(job.todo)[3]
     IN  \/ Trusts(k, x) /\ Pass /\ UNCHANGED <<index, learned>>
         \/ /\ ~Trusts(k, x) /\ RejectsUnknown(k)
            /\ Refuse(FALSE) /\ UNCHANGED <<index, learned>>
         \/ /\ ~Trusts(k, x) /\ ~RejectsUnknown(k)
            /\ IF k = "item" THEN RevalidateItem(x) ELSE Revalidate(k, x)
  /\ UNCHANGED <<owner, caps, reference, last>>

(* Without the check.                                                      *)
AnyVersion(c) == TRUE

(* ensure_current_draft_version; the draft has just been made known.       *)
SameVersion(c) ==
  c.draft \in DOMAIN index.drafts /\ index.drafts[c.draft].version = c.version

EnsureVersion ==
  /\ At("version")
  /\ IF SameVersion(job.call) THEN Pass ELSE Refuse(TRUE)
  /\ UNCHANGED <<owner, index, caps, reference, last, learned>>

(* validate_patch: a note is removed only from a draft that holds it.      *)
EnsureNote ==
  /\ At("note")
  /\ IF job.call.to \in index.drafts[job.call.draft].items THEN Pass ELSE Refuse(FALSE)
  /\ UNCHANGED <<owner, index, caps, reference, last, learned>>

(* patch_requires_objective_authority: the content of the revision that is *)
(* restored must be at hand.                                               *)
EnsureContent ==
  /\ At("content")
  /\ IF job.call.to \in ToSet(index.contents)
     THEN Pass /\ UNCHANGED <<index, learned>>
     ELSE Revalidate("revision", job.call.to)
  /\ UNCHANGED <<owner, caps, reference, last>>

(* It is compared with the cached draft, and then the objective grant is   *)
(* needed, which the caller may not have.                                  *)
ObjectiveNeeded(c) ==
  \/ c.change = "set_objective"
  \/ /\ c.change = "restore_configuration"
     /\ index.drafts[c.draft].objective # owner.revisions[c.to]

DecideAuthority ==
  /\ At("authority")
  /\ \/ /\ job' = [job EXCEPT !.todo = Tail(@),
                              !.call.objective = ObjectiveNeeded(job.call)]
        /\ UNCHANGED answer
     \/ ObjectiveNeeded(job.call) /\ Refuse(FALSE)
  /\ UNCHANGED <<owner, index, caps, reference, last, learned>>

(* require_owner.                                                          *)
RequireOwner ==
  /\ At("owner")
  /\ \/ caps = "enabled" /\ Pass
     \/ caps = "disabled" /\ Refuse(FALSE)
     \/ caps = "unknown" /\ ReadFails
  /\ UNCHANGED <<owner, index, caps, reference, last, learned>>

-----------------------------------------------------------------------------
(* The call itself, once its checks have passed.                           *)

(* eligible_items, revisions, drafts, previews, receipts.  A list that is  *)
(* too long is refused and leaves nothing known of its kind.               *)
List ==
  /\ Ready({"list"})
  /\ LET k == job.call.kind
     IN  \/ /\ Listable(k)
            /\ index' = IF k = "item" THEN RelistedItems(index) ELSE Relisted(index, k)
            /\ LearnAll(k)
            /\ Show(NamesIn(owner, k, IssuedIds(owner, k)))
         \/ /\ ~Listable(k)
            /\ index' = Cleared(index, k)
            /\ Refuse(FALSE) /\ UNCHANGED learned
         \/ ReadFails /\ UNCHANGED <<index, learned>>
  /\ UNCHANGED <<owner, caps, reference, last>>

(* read_draft, read_preview, read_receipt; what is known was issued.  Of   *)
(* what the answer names, the object is cached, and the items of a draft.  *)
Read ==
  /\ Ready({"read"})
  /\ LET k == job.call.kind
         x == job.call.id
     IN  \/ /\ x \in IssuedIds(owner, k)
            /\ index' = Cache(index, k, x)
            /\ Learn(Learned(k, {x}))
            /\ Show(NamesIn(owner, k, {x}))
         \/ ReadFails /\ UNCHANGED <<index, learned>>
  /\ UNCHANGED <<owner, caps, reference, last>>

(* A receipt also makes known the revision it names.                       *)
CacheReceipt(ix, o, i) == CacheId(CacheId(ix, "receipt", i), "revision", o.receipts[i].active)
LearnedReceipt(o, i) == [Only("receipt", {i}) EXCEPT !["revision"] = {o.receipts[i].active}]

(* recover_receipt asks by the caller's key, without the index.            *)
RecoverReceipt ==
  /\ Ready({"recover_receipt"})
  /\ \/ \E i \in ReceiptOf(owner, job.call.key) :
          /\ index' = CacheReceipt(index, owner, i)
          /\ Learn(LearnedReceipt(owner, i))
          /\ Show(NamesIn(owner, "receipt", {i}))
     \/ ReceiptOf(owner, job.call.key) = {} /\ Refuse(FALSE) /\ UNCHANGED <<index, learned>>
     \/ ReadFails /\ UNCHANGED <<index, learned>>
  /\ UNCHANGED <<owner, caps, reference, last>>

(* The end of refresh_capabilities.                                        *)
Refreshed ==
  /\ Ready({"refresh_capabilities"})
  /\ IF caps = "unknown" THEN ReadFails ELSE Show({})
  /\ UNCHANGED <<owner, index, caps, reference, last, learned>>

(* What the answer of a mutation makes known, and names.                   *)
ResultDraft(o, c) == IF c.op = "create_draft" THEN Len(o.drafts) ELSE c.draft

CacheResult(ix, o, c) ==
  CASE c.op \in {"create_draft", "apply_patch"} ->
         CacheDraft(ix, ResultDraft(o, c), o.drafts[ResultDraft(o, c)])
    [] c.op = "create_preview" -> CacheId(ix, "preview", Len(o.previews))
    [] OTHER -> CacheReceipt(ix, o, CHOOSE i \in ReceiptOf(o, c.key) : TRUE)

LearnedResult(o, c) ==
  CASE c.op \in {"create_draft", "apply_patch"} ->
         [Only("draft", {ResultDraft(o, c)})
            EXCEPT !["item"] = o.drafts[ResultDraft(o, c)].items]
    [] c.op = "create_preview" -> Only("preview", {Len(o.previews)})
    [] OTHER -> LearnedReceipt(o, CHOOSE i \in ReceiptOf(o, c.key) : TRUE)

ResultNames(o, c) ==
  CASE c.op \in {"create_draft", "apply_patch"} -> NamesIn(o, "draft", {ResultDraft(o, c)})
    [] c.op = "create_preview" -> NamesIn(o, "preview", {Len(o.previews)})
    [] OTHER -> NamesIn(o, "receipt", ReceiptOf(o, c.key))

(* create_draft, edit_draft, preview, pause, held_commit, resume: the      *)
(* owner performs the call and its answer arrives, ...                     *)
Forward ==
  /\ Ready(MutationOps)
  /\ Accepts(owner, job.call)
  /\ owner' = Perform(owner, job.call)
  /\ index' = CacheResult(index, owner', job.call)
  /\ Learn(LearnedResult(owner', job.call))
  /\ Answer(FALSE, TRUE, ResultNames(owner', job.call))
  /\ UNCHANGED <<caps, reference, last>>

(* ... or performs it and the answer is lost, or cannot be used, ...       *)
ForwardLost ==
  /\ Ready(MutationOps)
  /\ Accepts(owner, job.call)
  /\ owner' = Perform(owner, job.call)
  /\ \E e \in {"unavailable", "unknown", "invalid"} : Answer(MutationRetryable(e), TRUE, {})
  /\ UNCHANGED <<index, caps, reference, last, learned>>

(* ... or refuses it.                                                      *)
ForwardRefused ==
  /\ Ready(MutationOps)
  /\ \E e \in OwnerErrors : Refuse(MutationRetryable(e))
  /\ UNCHANGED <<owner, index, caps, reference, last, learned>>

(* External: another console uses the owner, or it is switched on or off.  *)
OtherConsole ==
  /\ \/ \E c \in {x \in Mutations : x.op \in OtherOps} :
          /\ Accepts(owner, IF c.op = "apply_patch" THEN [c EXCEPT !.objective = TRUE] ELSE c)
          /\ owner' = Perform(owner, c)
     \/ "switch" \in OtherOps /\ owner' = [owner EXCEPT !.enabled = ~@]
  /\ UNCHANGED <<index, caps, reference, last, job, answer, learned, sources>>

ServeStep ==
  \/ LoadCapabilities \/ Reload \/ Permitted
  \/ EnsureKnown \/ EnsureVersion \/ EnsureNote \/ EnsureContent
  \/ DecideAuthority \/ RequireOwner
  \/ List \/ Read \/ RecoverReceipt \/ Refreshed
  \/ Forward \/ ForwardLost \/ ForwardRefused

Fills == sources' = IF index' = index THEN sources ELSE sources \cup {reference}

Next == /\ \/ Accept
           \/ AcceptTrusted
           \/ ServeStep /\ Fills
           \/ OtherConsole
        /\ UNCHANGED trusted

Spec == Init /\ [][Next]_vars

-----------------------------------------------------------------------------
(* Properties.                                                             *)

TypeOK ==
  /\ caps \in {"unknown", "enabled", "disabled"}
  /\ reference \in Requests \cup {None} /\ last \in Requests \cup {None}
  /\ \A k \in Kinds : /\ Len(index.ids[k]) <= Capacity(k)
                      /\ IsInjective(index.ids[k])
  /\ Len(index.contents) <= MaxEntries
  /\ DOMAIN index.drafts = Holds(index, "draft")
  /\ answer.retryable \in BOOLEAN /\ answer.applied \in BOOLEAN

(* Whenever the facade takes its index for complete, and refuses the rest  *)
(* as foreign (ensure_known_id), it still holds all that the owner had at  *)
(* the last list of the kind and every object it has read, made, commanded *)
(* or recovered since, however entries were evicted, revalidated or        *)
(* relisted in between.  So what it calls foreign is new since that list.  *)
(* An answer may name such a thing: see NamesStayKnown.                    *)
LearnedStaysKnown ==
  \A k \in Kinds : index.complete[k] => learned[k] \subseteq Holds(index, k)

(* The bounded index stays within its capacities and never takes itself    *)
(* for complete when something learned has left it.                        *)
IndexSound == TypeOK /\ LearnedStaysKnown

(* A reference in an answer can be used in the next call: no list is taken *)
(* for complete without it.  recover_receipt does this for the revision in *)
(* a receipt (comment at harness_facade.rs:1850), so that a resume can     *)
(* follow a commit whose reply was lost; a client that reconnects may also *)
(* refresh its receipts (docs/HARNESS_FACADE.md:106).                      *)
NamesStayKnown ==
  \A r \in answer.names : index.complete[r[1]] => r[2] \in Holds(index, r[1])

(* The objective authority the facade sends with a patch, decided on its   *)
(* cache, is the one the owner's draft calls for whenever the owner would  *)
(* take the patch (patch_requires_objective_authority), although other     *)
(* consoles may have edited the draft since it was cached.                 *)
AuthorityAgrees ==
  (Ready({"apply_patch"}) /\ Current(owner, job.call))
    => (job.call.objective <=> NeedsObjective(owner, job.call))

(* An answer that invites the caller to repeat a mutation is given only    *)
(* when the owner has not performed it (comment on owner_mutation).        *)
RetryableMeansUnapplied == ~(answer.retryable /\ answer.applied)

(* A mutation reaches the owner only with references the owner has issued  *)
(* (docs/HARNESS_FACADE.md:79), those that were evicted included.          *)
ForwardedIsIssued ==
  Ready(MutationOps) => \A r \in References(job.call) : r[2] \in IssuedIds(owner, r[1])

(* A trusted request is served under its own owner reference and only from *)
(* what was learned under that (authorize drops the rest), whichever       *)
(* requests came in between.                                               *)
OwnReference ==
  (trusted /\ job # None) => (reference = job.request /\ sources \subseteq {job.request})
=============================================================================
