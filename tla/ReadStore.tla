------------------------------ MODULE ReadStore ------------------------------
(***************************************************************************)
(* The Phase 1 store and its read API (store/*.rs, read_api/*.rs,          *)
(* association.rs).  Snapshots, events and content are appended while      *)
(* clients page through event streams, tokens are revoked and grants       *)
(* expire.  A read changes nothing: its answer is a function of the store, *)
(* and the properties speak of every read a client could make next.        *)
(*                                                                         *)
(* A client of the API presents the token of its grant; framing, Host,     *)
(* Origin and the shape of a path are checked before and are left out.     *)
(***************************************************************************)
EXTENDS CaptureWire, FiniteSets, SequencesExt

CONSTANTS
  Manifests,       \* snapshots a producer may send: [id, bytes, project, run, ...]
  EventInputs,     \* events a producer may send: [id, bytes, snapshot, position]
  Contents,        \* retained bytes a producer may send: [ref, digest]
  Grants,          \* ReadGrant: [token, project, run, privilege, expires]
  Associations,    \* WorkflowContextAssociation that a workflow may hold
  MaxSnapshots,    \* max_snapshots
  MaxEvents,       \* MAX_EVENTS
  MaxContents,     \* MAX_CONTENT_REFS
  MaxCompare,      \* max_compare_bytes
  MaxChanged,      \* changed components one comparison lists
  Limits,          \* page limits that clients ask for
  MaxTime, MaxTrail   \* bounds of the model: the clock, and cursors handed out

ASSUME StoreAssumption ==
  /\ MaxSnapshots \in Nat /\ MaxEvents \in Nat /\ MaxContents \in Nat /\ MaxCompare \in Nat
  /\ MaxChanged \in Nat \ {0} /\ Limits \subseteq Nat \ {0} /\ MaxTime \in Nat

(* What the wire types of context-reader and the grants allow: a capture   *)
(* mode is one of three, components are a list, ids are ordered, grants     *)
(* expire at a time.                                                       *)
ASSUME DocumentsAssumption ==
  /\ \A m \in Manifests : /\ m.mode \in {"metadata", "memory", "private"}
                         /\ m.components \in Seq(Range(m.components))
                         /\ m.rank \in Nat
  /\ \A g \in Grants : g.expires \in Nat
  /\ \A g \in Grants, m \in Manifests : <<g.project, m.run>> # None

VARIABLES
  entries,     \* [id -> manifest]
  events,      \* [id -> [event, scope, sequence]]
  sequences,   \* event_scope_sequences
  content,     \* [ref -> digest of the bytes]
  revoked,     \* tokens
  clock,
  appended,    \* event ids in the order they were appended (history)
  trail        \* [cursor handed out -> what its client has seen so far] (history)

vars == <<entries, events, sequences, content, revoked, clock, appended, trail>>

Least(a, b) == IF a < b THEN a ELSE b

(* The elements of a sequence that are in S, in their order: filter.       *)
Keeping(seq, S) ==
  LET kept[n \in 0..Len(seq)] ==
        IF n = 0 THEN <<>>
        ELSE IF seq[n] \in S THEN Append(kept[n - 1], seq[n]) ELSE kept[n - 1]
  IN  kept[Len(seq)]

With(f, key, value) == [x \in DOMAIN f \cup {key} |-> IF x = key THEN value ELSE f[x]]

-----------------------------------------------------------------------------
(* Store::ingest, ingest_content, append_event: appending again is allowed *)
(* for the same bytes only.                                                *)

Acceptable(m) ==
  /\ ManifestValid(m)
  /\ ~(m.mode = "private" /\ \E i \in DOMAIN m.components : m.components[i].ref # None)

IngestReplacing(m) ==
  /\ Acceptable(m)
  /\ Cardinality(DOMAIN entries) < MaxSnapshots
  /\ entries' = With(entries, m.id, m)
  /\ UNCHANGED <<events, sequences, content, revoked, clock, appended, trail>>

Ingest(m) ==
  /\ Acceptable(m)
  /\ m.id \notin DOMAIN entries
  /\ Cardinality(DOMAIN entries) < MaxSnapshots
  /\ entries' = With(entries, m.id, m)
  /\ UNCHANGED <<events, sequences, content, revoked, clock, appended, trail>>

IngestContent(c) ==
  /\ c.ref \notin DOMAIN content
  /\ Cardinality(DOMAIN content) < MaxContents
  /\ content' = With(content, c.ref, c.digest)
  /\ UNCHANGED <<entries, events, sequences, revoked, clock, appended, trail>>

ScopeOf(e) ==
  IF e.snapshot = None THEN None
  ELSE <<entries[e.snapshot].project, entries[e.snapshot].run>>

OrdinalOfProducer(e, scope) == e.position

(* The append ordinal within the scope, and not the producer's position.   *)
Ordinal(e, scope) == IF scope \in DOMAIN sequences THEN sequences[scope] ELSE 0

AppendEvent(e) ==
  /\ EventValid(e)
  /\ e.snapshot # None => e.snapshot \in DOMAIN entries
  /\ e.id \notin DOMAIN events
  /\ Cardinality(DOMAIN events) < MaxEvents
  /\ LET scope == ScopeOf(e)
         sequence == IF scope = None THEN None ELSE Ordinal(e, scope)
     IN  /\ events' = With(events, e.id, [event |-> e, scope |-> scope, sequence |-> sequence])
         /\ sequences' = IF scope = None THEN sequences
                         ELSE With(sequences, scope, sequence + 1)
  /\ appended' = Append(appended, e.id)
  /\ UNCHANGED <<entries, content, revoked, clock, trail>>

Revoke(token) ==
  /\ token \notin revoked
  /\ revoked' = revoked \cup {token}
  /\ UNCHANGED <<entries, events, sequences, content, clock, appended, trail>>

Tick ==
  /\ clock < MaxTime
  /\ clock' = clock + 1
  /\ UNCHANGED <<entries, events, sequences, content, revoked, appended, trail>>

-----------------------------------------------------------------------------
(* Authority.                                                              *)

AuthorizedUnlessExpired(g) == clock < g.expires

Authorized(g) == clock < g.expires /\ g.token \notin revoked

Permits(g, m) == g.project = m.project /\ (g.run = None \/ g.run = m.run)

(* scoped_entry: out of scope is as good as unknown.                       *)
Scoped(g) == {id \in DOMAIN entries : Permits(g, entries[id])}

-----------------------------------------------------------------------------
(* The reads, each the set of what it shows: empty when it is refused.     *)

ReadCapabilities(g) == IF Authorized(g) THEN {"capabilities"} ELSE {}

ListedCutFirst(g, limit) ==
  IF ~Authorized(g) THEN {}
  ELSE {id \in Scoped(g) : Cardinality({x \in DOMAIN entries : entries[x].rank < entries[id].rank})
                             < limit}

(* Store::list cuts the snapshots, ordered by their ids, to the limit; the *)
(* handlers then select from what is left.                                 *)
Listed(g, limit) ==
  IF ~Authorized(g) THEN {}
  ELSE {id \in Scoped(g) : Cardinality({x \in Scoped(g) : entries[x].rank < entries[id].rank})
                             < limit}

ReadRuns(g, limit) == {entries[id].run : id \in Listed(g, limit)}

ReadSnapshots(g, run, limit) == {id \in Listed(g, limit) : entries[id].run = run}

(* Store::get: a metadata grant reads no manifest that refers to content.  *)
Gettable(g) ==
  IF ~Authorized(g) THEN {}
  ELSE {id \in Scoped(g) :
          \/ g.privilege = "content"
          \/ \A i \in DOMAIN entries[id].components : entries[id].components[i].ref = None}

ReadSnapshot(g, run) == {id \in Gettable(g) : entries[id].run = run}

AvailableAnyBytes(g, m, c) ==
  /\ c.ref # None /\ c.digest # None
  /\ g.privilege = "content" /\ m.mode # "private" /\ c.status # "expired"
  /\ c.ref \in DOMAIN content

Available(g, m, c) ==
  /\ c.ref # None /\ c.digest # None
  /\ g.privilege = "content" /\ m.mode # "private" /\ c.status # "expired"
  /\ c.ref \in DOMAIN content /\ content[c.ref] = c.digest

(* The components whose metadata the API shows, and what it says of the    *)
(* bytes of each; and those whose bytes it returns.                        *)
ReadComponents(g, run) ==
  UNION {{id} \X DOMAIN entries[id].components : id \in ReadSnapshots(g, run, MaxSnapshots)}

SaidAvailable(g, id, i) == Available(g, entries[id], entries[id].components[i])

BytesOf(x) == content[entries[x[1]].components[x[2]].ref]

ReadContent(g, run) ==
  {x \in ReadComponents(g, run) :
     g.privilege = "content" /\ Available(g, entries[x[1]], entries[x[1]].components[x[2]])}

ResolveByRun(g, a) ==
  {id \in Gettable(g) : entries[id].run = a.run /\ entries[id].project = a.project}

(* resolve_workflow_context_association.                                   *)
Resolve(g, a) ==
  IF ~AssociationValid(a) \/ a.availability # "available" THEN {}
  ELSE {id \in Gettable(g) :
          /\ id = a.snapshot
          /\ entries[id].run = a.run /\ entries[id].project = a.project
          /\ entries[id].episode = a.episode /\ entries[id].attempt = a.attempt}

-----------------------------------------------------------------------------
(* Store::compare.                                                         *)

Comparable(g, run) == ReadSnapshot(g, run)

Fits(l, r) == entries[l].size + entries[r].size <= MaxCompare

SameSize(c, d) == c.id = d.id /\ c.ordinal = d.ordinal /\ c.size = d.size /\ c.status = d.status

(* What a comparison looks at: components that differ only in their kind,  *)
(* role, media type, origin, measurement or content reference are not       *)
(* reported as changed.                                                    *)
Same(c, d) ==
  /\ c.id = d.id /\ c.ordinal = d.ordinal /\ c.size = d.size
  /\ c.status = d.status /\ c.digest = d.digest

Places(a, b) == [i \in 1..(IF Len(a) < Len(b) THEN Len(b) ELSE Len(a)) |-> i]

ChangedInBoth(a, b) ==
  Keeping(Places(a, b), {i \in DOMAIN a \cap DOMAIN b : ~Same(a[i], b[i])})

ChangedAt(a, b) ==
  Keeping(Places(a, b), {i \in DOMAIN a \cup DOMAIN b :
                           i \notin DOMAIN a \/ i \notin DOMAIN b \/ ~Same(a[i], b[i])})

Compared(l, r) ==
  LET a == entries[l].components
      b == entries[r].components
      changed == ChangedAt(a, b)
  IN  [changed |-> [k \in 1..Least(Len(changed), MaxChanged) |->
                      IF changed[k] \in DOMAIN a THEN a[changed[k]].id ELSE b[changed[k]].id],
       same_boundary |-> entries[l].boundary = entries[r].boundary,
       same_order |-> /\ Len(a) = Len(b)
                      /\ \A i \in DOMAIN a : a[i].ordinal = b[i].ordinal]

-----------------------------------------------------------------------------
(* Event pages.  A cursor carries its grant, its stream and the ordinal of *)
(* the last event before it, and a digest over all of them.                *)

Cursor(g, run, sequence) ==
  [token |-> g.token, project |-> g.project, run |-> run, sequence |-> sequence]

Decodes(g, run, cursor) == cursor = Cursor(g, run, cursor.sequence)

InStreamOfProject(id, project, run) ==
  events[id].scope # None /\ events[id].scope[1] = project

InStream(id, project, run) == events[id].scope = <<project, run>>

(* The events of a stream after a cursor, in the order of their ordinals.  *)
Following(g, run, cursor) ==
  {id \in DOMAIN events :
     /\ InStream(id, g.project, run)
     /\ cursor # None => events[id].sequence > cursor.sequence}

Sorted(ids) ==
  CHOOSE list \in [1..Cardinality(ids) -> ids] :
    /\ IsInjective(list)
    /\ \A i, j \in DOMAIN list : i < j => events[list[i]].sequence <= events[list[j]].sequence

After(g, run, cursor) == Sorted(Following(g, run, cursor))

MayPage(g, run, cursor) ==
  /\ Authorized(g) /\ g.run \in {None, run}
  /\ cursor # None => Decodes(g, run, cursor)

Seen(cursor) == IF cursor = None THEN <<>> ELSE trail[cursor]

PageOf(g, run, cursor, limit) ==
  LET rest == After(g, run, cursor)
  IN  SubSeq(rest, 1, Least(Len(rest), limit))

HasNext(g, run, cursor, limit) == Len(After(g, run, cursor)) > limit

(* A page with more to come hands out a cursor.                            *)
ReadEvents(g, run, cursor, limit) ==
  /\ MayPage(g, run, cursor)
  /\ HasNext(g, run, cursor, limit)
  /\ LET page == PageOf(g, run, cursor, limit)
         next == Cursor(g, run, events[page[Len(page)]].sequence)
     IN  /\ next \notin DOMAIN trail
         /\ trail' = With(trail, next, Seen(cursor) \o page)
  /\ Cardinality(DOMAIN trail) < MaxTrail
  /\ UNCHANGED <<entries, events, sequences, content, revoked, clock, appended>>

Runs == {m.run : m \in Manifests}

Init ==
  /\ entries = <<>> /\ events = <<>> /\ sequences = <<>> /\ content = <<>>
  /\ revoked = {} /\ clock = 0
  /\ appended = <<>> /\ trail = <<>>

Next ==
  \/ \E m \in Manifests : Ingest(m)
  \/ \E e \in EventInputs : AppendEvent(e)
  \/ \E c \in Contents : IngestContent(c)
  \/ \E g \in Grants : Revoke(g.token)
  \/ Tick
  \/ \E g \in Grants, run \in Runs, cursor \in DOMAIN trail \cup {None}, limit \in Limits :
       ReadEvents(g, run, cursor, limit)

Spec == Init /\ [][Next]_vars

-----------------------------------------------------------------------------
TypeOK ==
  /\ Cardinality(DOMAIN entries) <= MaxSnapshots /\ Cardinality(DOMAIN events) <= MaxEvents
  /\ Cardinality(DOMAIN content) <= MaxContents
  /\ DOMAIN events = {appended[i] : i \in DOMAIN appended}
  /\ \A id \in DOMAIN events :
       events[id].scope # None => events[id].sequence < sequences[events[id].scope]

(* docs/API.md: event cursors are contiguous within the authorized scope,  *)
(* and docs/ARCHITECTURE.md: late events do not invalidate them.  A client *)
(* that follows cursors sees the events of its stream in the order they    *)
(* were appended, none twice and none left out, whatever is appended       *)
(* meanwhile; and where no cursor is handed out it has seen them all.      *)
Stream(project, run) ==
  Keeping(appended, {id \in DOMAIN events : InStream(id, project, run)})

PagesArePrefixes ==
  \A g \in Grants, run \in Runs, cursor \in DOMAIN trail \cup {None}, limit \in Limits :
    MayPage(g, run, cursor) =>
      LET seen == Seen(cursor) \o PageOf(g, run, cursor, limit)
      IN  IF HasNext(g, run, cursor, limit) THEN IsPrefix(seen, Stream(g.project, run))
          ELSE seen = Stream(g.project, run)

(* All that the holder of a grant can be shown, on every route.            *)
View(g) ==
  [capabilities |-> ReadCapabilities(g),
   runs |-> [limit \in Limits |-> ReadRuns(g, limit)],
   summaries |-> [limit \in Limits |-> [id \in Listed(g, limit) |-> entries[id]]],
   manifests |-> [id \in Gettable(g) |-> entries[id]],
   components |-> [run \in Runs |->
                     [x \in ReadComponents(g, run) |->
                        <<entries[x[1]].components[x[2]], SaidAvailable(g, x[1], x[2])>>]],
   bytes |-> [run \in Runs |-> [x \in ReadContent(g, run) |-> BytesOf(x)]],
   compared |-> [run \in Runs |->
                   [pair \in Comparable(g, run) \X Comparable(g, run) |->
                      IF Fits(pair[1], pair[2]) THEN Compared(pair[1], pair[2]) ELSE None]],
   resolved |-> [a \in Associations |-> Resolve(g, a)],
   pages |-> [run \in Runs |-> [cursor \in DOMAIN trail \cup {None} |->
                [limit \in Limits |->
                   IF MayPage(g, run, cursor)
                     THEN <<PageOf(g, run, cursor, limit), HasNext(g, run, cursor, limit)>>
                     ELSE None]]]]

ReadsNothing(g) ==
  /\ ReadCapabilities(g) = {} /\ Gettable(g) = {}
  /\ \A limit \in Limits \cup {MaxSnapshots} : Listed(g, limit) = {}
  /\ \A run \in Runs :
       /\ ReadComponents(g, run) = {} /\ ReadContent(g, run) = {}
       /\ \A cursor \in DOMAIN trail \cup {None} : ~MayPage(g, run, cursor)
  /\ \A a \in Associations : Resolve(g, a) = {}

InReach(g, scope) == scope # None /\ scope[1] = g.project /\ g.run \in {None, scope[2]}

(* What a step adds lies outside the grant: snapshots and events of other  *)
(* scopes, bytes that no snapshot in scope refers to, the revocation of    *)
(* another token, time that passes no expiry.                              *)
OnlyOutside(g) ==
  /\ \A id \in DOMAIN entries' \ DOMAIN entries : ~Permits(g, entries'[id])
  /\ \A id \in DOMAIN events' \ DOMAIN events : ~InReach(g, events'[id].scope)
  /\ \A ref \in DOMAIN content' \ DOMAIN content :
       \A id \in Scoped(g) : \A i \in DOMAIN entries[id].components :
         entries[id].components[i].ref # ref
  /\ (g.token \in revoked') = (g.token \in revoked)
  /\ (clock' < g.expires) = (clock < g.expires)
  /\ trail' = trail

(* query.rs: out of scope is as good as unknown.  Whatever happens outside *)
(* the grant leaves every answer its holder can get as it was: what is     *)
(* listed under a limit, the pages of its streams and their cursors, what  *)
(* is said of bytes, a comparison, an association.                         *)
OutsideUnseen(g) == OnlyOutside(g) => View(g)' = View(g)

(* docs/API.md: "immutable snapshot summaries".  What a grant can read it  *)
(* can read again, and gets the same, as long as it is valid, whatever is  *)
(* ingested meanwhile; only a listing under a limit may shift.             *)
StaysReadable(g) ==
  Authorized(g)' =>
    /\ \A id \in Gettable(g) : id \in Gettable(g)' /\ entries'[id] = entries[id]
    /\ \A run \in Runs :
         /\ ReadComponents(g, run) \subseteq ReadComponents(g, run)'
         /\ \A x \in ReadContent(g, run) : x \in ReadContent(g, run)' /\ BytesOf(x)' = BytesOf(x)
    /\ \A a \in Associations : Resolve(g, a) \subseteq Resolve(g, a)'

Dead(g) == clock >= g.expires \/ g.token \in revoked

(* docs/API.md: expiry and revocation are checked against the time of the  *)
(* request, within one listener too.  A grant that is dead reads nothing   *)
(* on any route, then and ever after.                                      *)
StaysDead(g) == Dead(g) \/ Dead(g)' => ReadsNothing(g)'

(* No step lets a grant read what lies outside it, takes from it what it   *)
(* could read, or gives it anything once it is dead.                       *)
ReadsWithinGrant == [][\A g \in Grants : OutsideUnseen(g) /\ StaysReadable(g) /\ StaysDead(g)]_vars

(* read_api/handlers.rs, compare.rs, content.rs, association.rs: the       *)
(* routes tell one story.  What can be fetched under a run is in the full  *)
(* listing of the run, which shows a content grant nothing else; snapshots *)
(* that compare with no change have as many components, and those whose    *)
(* bytes can be fetched from both have the same bytes, under whatever      *)
(* references they were stored; and an association resolves to the one     *)
(* snapshot it names and that can be fetched under its run, or not at all. *)
RoutesAgree ==
  \A g \in Grants :
    /\ \A run \in Runs :
         /\ ReadSnapshot(g, run) \subseteq ReadSnapshots(g, run, MaxSnapshots)
         /\ g.privilege = "content" =>
              ReadSnapshots(g, run, MaxSnapshots) = ReadSnapshot(g, run)
         /\ \A l, r \in Comparable(g, run) :
              Fits(l, r) /\ Compared(l, r).changed = <<>> =>
                /\ Len(entries[l].components) = Len(entries[r].components)
                /\ \A i \in DOMAIN entries[l].components :
                     {<<l, i>>, <<r, i>>} \subseteq ReadContent(g, run) =>
                       BytesOf(<<l, i>>) = BytesOf(<<r, i>>)
    /\ \A a \in Associations : Resolve(g, a) \subseteq ReadSnapshot(g, a.run) \cap {a.snapshot}

(* docs/ARCHITECTURE.md: false completeness is rejected.  A snapshot that  *)
(* is kept as complete was captured in memory mode, and each component     *)
(* names its bytes by a reference and a digest.  (The bytes are stored by  *)
(* a call of their own, so that they need not be there yet.)               *)
CompleteIsRetained ==
  \A id \in DOMAIN entries :
    entries[id].complete =>
      /\ entries[id].mode = "memory" /\ entries[id].reasons = {}
      /\ \A i \in DOMAIN entries[id].components :
           Given(entries[id].components[i].ref) /\ Given(entries[id].components[i].digest)

(* What is accepted keeps the store usable: within its limits, every event *)
(* ordered in its scope, no snapshot falsely complete, and the routes of   *)
(* one mind about it.                                                      *)
StoreSound == TypeOK /\ CompleteIsRetained /\ RoutesAgree
=============================================================================
