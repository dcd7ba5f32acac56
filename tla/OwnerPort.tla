----------------------------- MODULE OwnerPort ------------------------------
(***************************************************************************)
(* The attached routes (owner.rs, memory.rs, provider_session/service.rs): *)
(* a memory route, which serves several clients at once, and a session     *)
(* route, which serves one call at a time, delegate to one Harness owner   *)
(* under one grant book that both share.  Grants are revoked, the clock    *)
(* moves and the owner changes its profile between the steps of a call;    *)
(* the owner's replies get lost and are looked up once.                    *)
(*                                                                         *)
(* A request that is refused before anything was asked of the owner leaves *)
(* no trace and is no step.  Host, Origin and CSRF proofs are part of what *)
(* a grant must match and do not change while a request is served.         *)
(***************************************************************************)
EXTENDS EffectiveLimits

CONSTANTS
  MemoryClients, SessionClient,
  Ops,             \* the operations that clients ask for
  Scopes, Home,    \* owner scopes; the memory route serves Home alone
  Grants,          \* the grant book: [id -> [class, scope, expires]]
  Versions,        \* capability_version of the routes: one is chosen
  Profiles,        \* the memory descriptors the owner may publish: [name -> descriptor]
  TrustedName,     \* the one the composition was configured with
  Sizes,           \* the sizes of a query: max_results it asks for
  Faults,          \* how a reply of the owner may be wrong
  MaxBindings,     \* MAX_BINDINGS
  MaxOperations,   \* MAX_OPERATIONS
  MaxRequests, MaxEvents   \* bounds of the model

ASSUME PortAssumption ==
  /\ SessionClient \notin MemoryClients
  /\ Home \in Scopes
  /\ TrustedName \in DOMAIN Profiles
  /\ Versions \subseteq {"v1", "v3"}
  /\ MaxBindings \in Nat /\ MaxOperations \in Nat /\ MaxRequests \in Nat /\ MaxEvents \in Nat

VARIABLES
  version,    \* capability_version
  book,       \* OwnerGrantBook: [revoked, epoch]
  clock,
  owner,      \* external: [profile, epoch, changes, sent, done, issued]
  index,      \* attached_bindings and attached_operations: [id -> scope]
  jobs,       \* the request each client has open, or None
  serial,     \* the number of requests received
  told,       \* the answers given (history)
  shown,      \* references that answers named since the route started (history)
  revokedAt   \* the epoch that revoked each grant, 0 before (history)

vars == <<version, book, clock, owner, index, jobs, serial, told, shown, revokedAt>>

Clients == MemoryClients \cup {SessionClient}
Serials == 1..MaxRequests

-----------------------------------------------------------------------------
(* OwnerOperation.                                                         *)

Reads ==
  {"memory.capabilities", "memory.status", "memory.query", "session.capabilities",
   "session.status", "session.binding", "session.list", "session.history",
   "session.events", "session.operation"}

Reviews == {"memory.generation", "memory.review"}

ClassOf(op) ==
  CASE op \in Reads -> "read_search"
    [] op \in Reviews -> "generation_review"
    [] OTHER -> "control"

ReadOnly(op) == op \in Reads

MemoryOps ==
  {"memory.capabilities", "memory.status", "memory.query", "memory.generation",
   "memory.review", "memory.selection"}

Unbound == {"session.capabilities", "session.status", "session.list", "session.events",
            "session.candidate"}

Creating == {"session.candidate", "session.prepared_binding"}

CreatesOperation(op) == op \notin MemoryOps /\ ~ReadOnly(op)

(* The kind of reference in the path of an operation.                      *)
Needs(op) ==
  CASE op \in MemoryOps \cup Unbound -> None
    [] op = "session.operation" -> "operation"
    [] OTHER -> "binding"

-----------------------------------------------------------------------------
(* The grant book.                                                         *)

AuthorizedUnlessExpired(g, op, scope, now) ==
  /\ now < Grants[g].expires
  /\ Grants[g].class = ClassOf(op)
  /\ Grants[g].scope = scope

Authorized(g, op, scope, now) ==
  /\ g \notin book.revoked
  /\ now < Grants[g].expires
  /\ Grants[g].class = ClassOf(op)
  /\ Grants[g].scope = scope

(* What happens around the requests, which MaxEvents bounds.               *)
Events == clock + owner.changes + Cardinality(book.revoked)

(* Revoking a revoked grant again changes nothing.                         *)
Revoke(g) ==
  /\ g \notin book.revoked /\ Events < MaxEvents
  /\ book' = [revoked |-> book.revoked \cup {g}, epoch |-> book.epoch + 1]
  /\ revokedAt' = [revokedAt EXCEPT ![g] = book.epoch + 1]
  /\ UNCHANGED <<version, clock, owner, index, jobs, serial, told, shown>>

Tick ==
  /\ Events < MaxEvents
  /\ clock' = clock + 1
  /\ UNCHANGED <<version, book, owner, index, jobs, serial, told, shown, revokedAt>>

-----------------------------------------------------------------------------
(* External: the owner.  It issues numbered references, each of a kind and *)
(* for a scope, and performs a call that reached it whenever it likes.     *)

InitOwner == [profile |-> TrustedName, epoch |-> 1, changes |-> 0,
              sent |-> {}, done |-> {}, issued |-> <<>>]

OwnerChanges ==
  /\ Events < MaxEvents
  /\ \/ \E p \in DOMAIN Profiles \ {owner.profile} :
          owner' = [owner EXCEPT !.profile = p, !.changes = @ + 1]
     \/ owner' = [owner EXCEPT !.epoch = @ + 1, !.changes = @ + 1]
  /\ UNCHANGED <<version, book, clock, index, jobs, serial, told, shown, revokedAt>>

Done(call) == \E e \in owner.done : e.call = call

(* A new binding is its own reference; an operation and a plan are two.    *)
Issue(call, operations) ==
  (IF call.op \in Creating THEN <<[kind |-> "binding", scope |-> call.scope]>> ELSE <<>>)
  \o (IF CreatesOperation(call.op)
        THEN [i \in 1..operations |-> [kind |-> "operation", scope |-> call.scope]]
        ELSE <<>>)

(* What a list carries in its items: the bindings of its scope, or, in     *)
(* events, the operations too.                                             *)
Within(call) ==
  {r \in DOMAIN owner.issued :
     /\ owner.issued[r].scope = call.scope
     /\ \/ call.op = "session.list" /\ owner.issued[r].kind = "binding"
        \/ call.op = "session.events"}

(* A reply names the binding, the operation and the plan it is about.      *)
Perform(call) ==
  /\ call \in owner.sent /\ ~Done(call)
  /\ \E operations \in 1..2 :
       LET new == Issue(call, operations)
           ids == {Len(owner.issued) + i : i \in DOMAIN new}
       IN  owner' = [owner EXCEPT
             !.issued = @ \o new,
             !.done = @ \cup {[call |-> call,
                               refs |-> ids \cup (IF call.ref = None THEN {} ELSE {call.ref}),
                               within |-> Within(call)]}]
  /\ UNCHANGED <<version, book, clock, index, jobs, serial, told, shown, revokedAt>>

-----------------------------------------------------------------------------
(* The index of references, which keeps bindings and operations apart.     *)

Known(kind) == {r \in DOMAIN index : owner.issued[r].kind = kind}

ResolvedInAnyScope(op, scope, ref) ==
  IF Needs(op) = None THEN ref = None ELSE ref \in Known(Needs(op))

Resolved(op, scope, ref) ==
  IF Needs(op) = None THEN ref = None
  ELSE ref \in Known(Needs(op)) /\ index[ref] = scope

HasCapacity(op) ==
  /\ op \in Creating => Cardinality(Known("binding")) < MaxBindings
  /\ CreatesOperation(op) => Cardinality(Known("operation")) < MaxOperations

OfKind(refs, kind) == {r \in refs : owner.issued[r].kind = kind}

EnteredBindings(scope, refs) ==
  [r \in DOMAIN index \cup OfKind(refs, "binding") |->
     IF r \in OfKind(refs, "binding") THEN scope ELSE index[r]]

(* A binding takes the scope it was last answered for, an operation keeps  *)
(* its first one.                                                          *)
Entered(scope, refs) ==
  [r \in DOMAIN index \cup refs |->
     IF r \in DOMAIN index \ OfKind(refs, "binding") THEN index[r] ELSE scope]

FitsBindings(refs) ==
  OfKind(refs, "binding") \subseteq DOMAIN index \/ Cardinality(Known("binding")) < MaxBindings

(* record_attached_references takes all that a reply names (binding_id,    *)
(* operation_id, plan_id) or none of it, and nothing within a list.        *)
Fits(refs) ==
  /\ FitsBindings(refs)
  /\ Cardinality(Known("operation") \cup OfKind(refs, "operation")) <= MaxOperations

-----------------------------------------------------------------------------
(* Serving a request.                                                      *)

Answered(job, outcome, receipt, refs) ==
  [serial |-> job.serial, op |-> job.op, outcome |-> outcome, receipt |-> receipt,
   refs |-> refs]

Answer(c, outcome) ==
  /\ told' = told \cup {Answered(jobs[c], outcome, None, {})}
  /\ jobs' = [jobs EXCEPT ![c] = None]

Step(c, s) == jobs[c] # None /\ jobs[c].step = s

NeedsAdmission(op) == op = "memory.query" /\ version = "v3"

Receive(c, op, scope, ref, g, size) ==
  /\ jobs[c] = None
  /\ (op \in MemoryOps) = (c \in MemoryClients)
  /\ c \in MemoryClients => scope = Home
  /\ Resolved(op, scope, ref)
  /\ Authorized(g, op, scope, clock)
  /\ c = SessionClient => HasCapacity(op)
  /\ serial' = serial + 1
  /\ jobs' = [jobs EXCEPT ![c] =
       [serial |-> serial + 1, op |-> op, scope |-> scope, ref |-> ref, grant |-> g,
        now |-> clock, epoch |-> book.epoch, size |-> size, call |-> None, asked |-> 0,
        step |-> IF NeedsAdmission(op) THEN "asking" ELSE "ready"]]
  /\ UNCHANGED <<version, book, clock, owner, index, told, shown, revokedAt>>

Trusted == Profiles[TrustedName]

Trust == [descriptor |-> Trusted, scope |-> Home, source |-> "harness", epoch |-> 1]

Query(size) == [max_results |-> size, max_candidates |-> 1, max_query_bytes |-> 1]

AdmittedUnbounded(job, reply) ==
  Present("v3", Trust, job.scope, reply).error = "ok"

Admitted(job, reply) ==
  IF Present("v3", Trust, job.scope, reply).error # "ok"
    THEN FALSE
    ELSE AdmitQuery(Trust, job.scope, reply, Query(job.size)) = "ok"

(* The extra capability call before a query: the owner answers it, and the *)
(* console presents the publication and admits the query under it.         *)
Ask(c) ==
  /\ Step(c, "asking")
  /\ \/ Answer(c, "error")
     \/ \E reply \in {Publication(Profiles[owner.profile], Home, owner.epoch)} :
          IF Admitted(jobs[c], reply)
            THEN /\ jobs' = [jobs EXCEPT ![c].step = "ready", ![c].asked = book.epoch]
                 /\ UNCHANGED told
            ELSE Answer(c, "limit")
  /\ UNCHANGED <<version, book, clock, owner, index, serial, shown, revokedAt>>

CallOf(job, epoch) ==
  [serial |-> job.serial, op |-> job.op, scope |-> job.scope, ref |-> job.ref,
   grant |-> job.grant, now |-> job.now, epoch |-> epoch, size |-> job.size,
   asked |-> job.asked,
   try |-> Cardinality({k \in owner.sent : k.serial = job.serial}) + 1]

Deliver(c, epoch) ==
  LET call == CallOf(jobs[c], epoch)
  IN  /\ owner' = [owner EXCEPT !.sent = @ \cup {call}]
      /\ jobs' = [jobs EXCEPT ![c].step = "called", ![c].epoch = epoch, ![c].call = call]
      /\ UNCHANGED told

SendThenAuthorize(c) ==
  /\ Step(c, "ready")
  /\ owner' = [owner EXCEPT !.sent = @ \cup {CallOf(jobs[c], jobs[c].epoch)}]
  /\ IF Authorized(jobs[c].grant, jobs[c].op, jobs[c].scope, jobs[c].now)
       THEN /\ jobs' = [jobs EXCEPT ![c].step = "called",
                                    ![c].call = CallOf(jobs[c], jobs[c].epoch)]
            /\ UNCHANGED told
       ELSE Answer(c, "denied")
  /\ UNCHANGED <<version, book, clock, index, serial, shown, revokedAt>>

(* A query is authorized again after the capability call.                  *)
Send(c) ==
  /\ Step(c, "ready")
  /\ IF NeedsAdmission(jobs[c].op)
       THEN IF Authorized(jobs[c].grant, jobs[c].op, jobs[c].scope, jobs[c].now)
              THEN Deliver(c, book.epoch)
              ELSE Answer(c, "denied") /\ UNCHANGED owner
       ELSE Deliver(c, jobs[c].epoch)
  /\ UNCHANGED <<version, book, clock, index, serial, shown, revokedAt>>

(* A reply that carries the receipt of an entry of the owner's journal may *)
(* be for another operation, or report an effect a read cannot have.       *)
FaultsOf(op) == {None} \cup {f \in Faults : f = "effect" => ReadOnly(op)}

ValidReply(op, fault) ==
  /\ fault # "other_operation"
  /\ ReadOnly(op) => fault # "effect"

(* A capability reply is presented before it is answered with.             *)
Presented(job) ==
  \/ job.op # "memory.capabilities"
  \/ Present(version, Trust, job.scope,
             Publication(Profiles[owner.profile], Home, owner.epoch)).error = "ok"

Settle(c, entry, fault) ==
  LET job  == jobs[c]
      refs == IF c = SessionClient THEN entry.refs ELSE {}
  IN  /\ jobs' = [jobs EXCEPT ![c] = None]
      /\ CASE ~ValidReply(job.op, fault) ->
                /\ told' = told \cup {Answered(job, "error", None, {})}
                /\ UNCHANGED <<index, shown>>
           [] ValidReply(job.op, fault) /\ ~Presented(job) ->
                /\ told' = told \cup {Answered(job, "limit", None, {})}
                /\ UNCHANGED <<index, shown>>
           [] ValidReply(job.op, fault) /\ Presented(job) /\ ~Fits(refs) ->
                /\ told' = told \cup {Answered(job, "capacity", None, {})}
                /\ UNCHANGED <<index, shown>>
           [] OTHER ->
                /\ told' = told \cup {Answered(job, "accepted",
                             [entry |-> entry, effect |-> fault = "effect"], refs)}
                /\ index' = Entered(job.scope, refs)
                /\ shown' = shown \cup refs

(* The owner returns from the call: with a reply, without one, or saying   *)
(* that the reply was lost.                                                *)
Return(c) ==
  /\ Step(c, "called")
  /\ \/ /\ Answer(c, "error")
        /\ UNCHANGED <<index, shown>>
     \/ /\ jobs' = [jobs EXCEPT ![c].step = "lost"]
        /\ UNCHANGED <<told, index, shown>>
     \/ /\ ~Done(jobs[c].call)
        /\ \E outcome \in {"unsupported", "unknown"} : Answer(c, outcome)
        /\ UNCHANGED <<index, shown>>
     \/ \E e \in owner.done, fault \in FaultsOf(jobs[c].op) :
          e.call = jobs[c].call /\ Settle(c, e, fault)
  /\ UNCHANGED <<version, book, clock, owner, serial, revokedAt>>

LookupUntilKnown(c) ==
  /\ Step(c, "lost") /\ Done(jobs[c].call)
  /\ \/ /\ \E outcome \in {"unknown", "unsupported", "error"} : Answer(c, outcome)
        /\ UNCHANGED <<index, shown>>
     \/ \E e \in owner.done, fault \in FaultsOf(jobs[c].op) :
          e.call = jobs[c].call /\ Settle(c, e, fault)
  /\ UNCHANGED <<version, book, clock, owner, serial, revokedAt>>

LookupAnyReceipt(c) ==
  /\ Step(c, "lost")
  /\ \/ \E e \in owner.done, fault \in FaultsOf(jobs[c].op) :
          \/ e.call = jobs[c].call /\ Settle(c, e, fault)
          \/ e.call # jobs[c].call /\ Settle(c, e, None)
     \/ Answer(c, "unknown") /\ UNCHANGED <<index, shown>>
  /\ UNCHANGED <<version, book, clock, owner, serial, revokedAt>>

(* The one lookup: a reply for another receipt is refused, a receipt that  *)
(* the owner does not know or cannot look up now is answered as unknown.   *)
Lookup(c) ==
  /\ Step(c, "lost")
  /\ \/ /\ \E outcome \in {"unknown", "unsupported", "error"} : Answer(c, outcome)
        /\ UNCHANGED <<index, shown>>
     \/ \E e \in owner.done, fault \in FaultsOf(jobs[c].op) :
          e.call = jobs[c].call /\ Settle(c, e, fault)
  /\ UNCHANGED <<version, book, clock, owner, serial, revokedAt>>

-----------------------------------------------------------------------------
(* A new session route starts with an empty index; references that the     *)
(* owner issued are registered again.                                      *)

Restart ==
  /\ jobs[SessionClient] = None
  /\ DOMAIN index # {}
  /\ index' = <<>> /\ shown' = {}
  /\ UNCHANGED <<version, book, clock, owner, jobs, serial, told, revokedAt>>

Register(r) ==
  /\ jobs[SessionClient] = None
  /\ r \in DOMAIN owner.issued \ DOMAIN index
  /\ IF owner.issued[r].kind = "binding" THEN Cardinality(Known("binding")) < MaxBindings
     ELSE Cardinality(Known("operation")) < MaxOperations
  /\ index' = Entered(owner.issued[r].scope, {r})
  /\ UNCHANGED <<version, book, clock, owner, jobs, serial, told, shown, revokedAt>>

Init ==
  /\ version \in Versions
  /\ book = [revoked |-> {}, epoch |-> 0]
  /\ clock = 0
  /\ owner = InitOwner
  /\ index = <<>>
  /\ jobs = [c \in Clients |-> None]
  /\ serial = 0
  /\ told = {} /\ shown = {}
  /\ revokedAt = [g \in DOMAIN Grants |-> 0]

Serve(c) == Ask(c) \/ Send(c) \/ Return(c) \/ Lookup(c)

References == DOMAIN owner.issued \cup {None}

Next ==
  \/ /\ serial < MaxRequests
     /\ \E c \in {x \in Clients : jobs[x] = None}, op \in Ops, scope \in Scopes,
          ref \in References, g \in DOMAIN Grants :
          \E size \in IF op = "memory.query" THEN Sizes ELSE {0} :
            Receive(c, op, scope, ref, g, size)
  \/ \E c \in Clients : Serve(c)
  \/ \E g \in DOMAIN Grants : Revoke(g)
  \/ Tick
  \/ OwnerChanges
  \/ \E call \in owner.sent : Perform(call)
  \/ Restart
  \/ \E r \in DOMAIN owner.issued : Register(r)

Spec == Init /\ [][Next]_vars

(* The owner port is synchronous: its calls return, and so each step of a  *)
(* request that has begun is taken.                                        *)
FairSpec == Spec /\ \A c \in Clients : WF_vars(Serve(c))

-----------------------------------------------------------------------------
TypeOK ==
  /\ version \in Versions
  /\ book.revoked \subseteq DOMAIN Grants /\ book.epoch = Cardinality(book.revoked)
  /\ clock \in 0..MaxEvents /\ serial \in 0..MaxRequests
  /\ DOMAIN index \subseteq DOMAIN owner.issued
  /\ Cardinality(Known("binding")) <= MaxBindings
  /\ Cardinality(Known("operation")) <= MaxOperations
  /\ \A c \in Clients :
       jobs[c] # None => jobs[c].step \in {"asking", "ready", "called", "lost"}

(* memory.rs: a revocation during the extra capability read must stop the  *)
(* query that follows it: no query reaches the owner under a grant that    *)
(* was revoked by the time its publication was read.                       *)
RevocationStopsQuery ==
  \A k \in owner.sent :
    (k.op = "memory.query" /\ version = "v3") =>
      revokedAt[k.grant] = 0 \/ revokedAt[k.grant] > k.asked

(* owner.rs: the revocation epoch in a call dates its authority: at that   *)
(* epoch, and at the time the request came in, the grant stood, for this   *)
(* class of operation and this scope.                                      *)
EpochDatesAuthority ==
  \A k \in owner.sent :
    LET g == Grants[k.grant]
    IN  /\ revokedAt[k.grant] = 0 \/ revokedAt[k.grant] > k.epoch
        /\ k.now < g.expires /\ g.class = ClassOf(k.op) /\ g.scope = k.scope

(* docs/decisions/0021: a rejected value causes no memory.query call: what *)
(* reaches the owner was within the limits of the configured descriptor.   *)
QueryWithinTrust ==
  \A k \in owner.sent :
    (k.op = "memory.query" /\ version = "v3") =>
      Trusted.enabled /\ k.size <= Trusted.limits["max_results"]

(* provider_session/service.rs: a foreign reference is never forwarded,    *)
(* and the index holds only what the owner issued for the scope it says.   *)
NoForeignReference ==
  /\ \A r \in DOMAIN index : index[r] = owner.issued[r].scope
  /\ \A k \in owner.sent : k.ref # None => owner.issued[k.ref].scope = k.scope

(* Every reference that an answer of the session route named can be used   *)
(* in a path until the route is made anew.  This is not so of what is      *)
(* within a list: a binding in its items can be used only if another       *)
(* answer named it, or it is registered.                                   *)
AnsweredIsAddressable == shown \subseteq DOMAIN index

(* An answer that refuses before the call was made tells the truth: the    *)
(* owner was never sent the call.                                          *)
RefusedIsUnsent ==
  \A a \in told :
    (a.outcome = "denied" \/ (a.outcome = "limit" /\ a.op = "memory.query"))
      => \A k \in owner.sent : k.serial # a.serial

(* What reaches the owner had its authority at the date it names: the      *)
(* grant stood at that epoch (a query is dated again after the capability  *)
(* read, any other call when it came in), a query was within the           *)
(* configured descriptor, and what a client is told was refused never went *)
(* out.                                                                    *)
CallsAreAuthorized ==
  RevocationStopsQuery /\ EpochDatesAuthority /\ QueryWithinTrust /\ RefusedIsUnsent

(* The bounded index of the session route gives each client its own        *)
(* references, all that answers named, and nobody else's.                  *)
ReferencesAreOwn ==
  TypeOK /\ NoForeignReference /\ AnsweredIsAddressable

(* Every request that was received is answered.                            *)
EveryRequestEnds == \A c \in Clients : jobs[c] # None ~> jobs[c] = None

-----------------------------------------------------------------------------
(* What the routes promise: each request is performed at most once, and an *)
(* accepted answer is the result of its own performance.                   *)

Receipt(e) == [call |-> e.call.op, result |-> e.call.serial]

Performances(s) ==
  LET of == {e \in owner.done : e.call.serial = s}
  IN  [i \in 1..Cardinality(of) |-> Receipt(CHOOSE e \in of : e.call.try = i)]

AcceptedAnswers ==
  {[key |-> a.serial, call |-> a.op, receipt |-> Receipt(a.receipt.entry)] :
     a \in {b \in told : b.outcome = "accepted"}}

Promise == INSTANCE AtMostOnceCall WITH
  Keys    <- Serials,
  Calls   <- Ops,
  Results <- Serials,
  applied <- [s \in Serials |-> Performances(s)],
  told    <- AcceptedAnswers

(* docs/decisions/0019: a lost response is looked up once, and an          *)
(* operation that may have taken effect is never retried.                  *)
ImplementsAtMostOnce == Promise!Spec
=============================================================================
