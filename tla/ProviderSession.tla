--------------------------- MODULE ProviderSession ---------------------------
(***************************************************************************)
(* The local fixture of the provider session route (provider_session/      *)
(* route.rs, service.rs): bindings, operations and an idempotency table,   *)
(* all in memory.  A client that lost a reply sends its command again      *)
(* under the same idempotency key.                                         *)
(*                                                                         *)
(* Identifiers may contain the colon that joins the parts of a dedupe key: *)
(* an identifier is the sequence of its parts, a dedupe key is their       *)
(* concatenation.  A body stands for its canonical digest.                 *)
(***************************************************************************)
EXTENDS Naturals, Sequences, FiniteSets

CONSTANTS
  None,
  Runs, Keys,      \* run ids and idempotency keys: sequences of parts
  Details,         \* what else a body says
  Modes,           \* SessionRouteMode: one is chosen
  PlanKinds, OperationKinds,
  MaxBindings,     \* MAX_BINDINGS
  MaxCandidates,   \* MAX_CANDIDATES
  MaxOperations    \* MAX_OPERATIONS

ASSUME SessionAssumption ==
  /\ Runs # {} /\ Modes \subseteq {"disabled", "inspect_only", "fixture_only", "enabled"}
  /\ PlanKinds \subseteq {"fork-plans", "compaction-plans", "prepared-bindings"}
  /\ OperationKinds \subseteq {"refresh", "reconnect", "fork", "compact", "retire", "cleanup"}
  /\ \A s \in Runs \cup Keys : s \in Seq({s[i] : i \in DOMAIN s})
  /\ MaxBindings \in Nat /\ MaxCandidates \in Nat /\ MaxOperations \in Nat \ {0}

VARIABLES
  mode,
  bindings,      \* [binding -> [run, purpose]]
  operations,    \* [operation or plan -> [run, binding, kind, key, body, state]]
  idempotency,   \* [dedupe key -> [body, operation, binding]]
  next_id,
  performed,     \* what each accepted command did (history)
  reply          \* the answer to the last request, which may not arrive

sessionVars == <<mode, bindings, operations, idempotency, next_id, performed, reply>>

-----------------------------------------------------------------------------
(* Commands.  A request names its place, by which a client knows it again. *)

Bodies == [key : Keys, detail : Details]

DedupeKey(place, key) ==
  CASE place.kind = "candidate" -> <<"candidate">> \o place.run \o key
    [] place.kind \in PlanKinds -> <<"plan", place.kind, place.binding>> \o key
    [] OTHER                    -> <<place.kind, place.binding>> \o key

Request(place, body) == [place |-> place, key |-> body.key]

Accepted(place, body, record) ==
  [kind |-> "accepted", request |-> Request(place, body), body |-> body,
   operation |-> record.operation, binding |-> record.binding]

(* An answer that changes nothing; what a refusal or a read says in full   *)
(* is left out.                                                            *)
Reply(answer) ==
  /\ reply' = answer
  /\ UNCHANGED <<bindings, operations, idempotency, next_id, performed>>

Errors == {"unsupported", "not_found", "conflict", "capacity", "unauthorized", "not_allowed",
           "forbidden", "refused", "rejected", "storage", "denied"}

Refuse(error) == error \in Errors /\ Reply([kind |-> "refused"])

Say(what) == Reply([kind |-> "said"])

(* The idempotency table first: the same key with another body conflicts.  *)
Known(place, body) == DedupeKey(place, body.key) \in DOMAIN idempotency

ReplayAnyBody(place, body) ==
  /\ Known(place, body)
  /\ Reply(Accepted(place, body, idempotency[DedupeKey(place, body.key)]))

Replay(place, body) ==
  /\ Known(place, body)
  /\ LET record == idempotency[DedupeKey(place, body.key)]
     IN  IF record.body # body THEN Refuse("conflict")
         ELSE Reply(Accepted(place, body, record))

With(f, key, value) == [x \in DOMAIN f \cup {key} |-> IF x = key THEN value ELSE f[x]]

Accept(place, body, record) ==
  /\ idempotency' = With(idempotency, DedupeKey(place, body.key), record)
  /\ performed' = performed \cup {Accepted(place, body, record)}
  /\ reply' = Accepted(place, body, record)

Operation(place, binding, body, state) ==
  [run |-> place.run, binding |-> binding, kind |-> place.kind, key |-> body.key,
   body |-> body, state |-> state]

-----------------------------------------------------------------------------
(* mutate_candidate.  A binding stays a candidate for ever.                *)

CandidatesOf(run) == {b \in DOMAIN bindings : bindings[b].run = run}

CandidateKeepingId(place, body) ==
  /\ place.kind = "candidate"
  /\ IF Known(place, body) THEN Replay(place, body)
     ELSE IF \/ Cardinality(DOMAIN bindings) >= MaxBindings
             \/ Cardinality(CandidatesOf(place.run)) >= MaxCandidates
       THEN Refuse("capacity")
       ELSE LET binding == <<"binding", next_id>>
                operation == <<"operation", next_id>>
            IN  /\ bindings' = With(bindings, binding, [run |-> place.run, purpose |-> body.detail])
                /\ operations' = With(operations, operation,
                                      Operation(place, binding, body, "intent_persisted"))
                /\ Accept(place, body,
                          [body |-> body, operation |-> operation, binding |-> binding])
                /\ UNCHANGED next_id

Candidate(place, body) ==
  /\ place.kind = "candidate"
  /\ IF Known(place, body) THEN Replay(place, body)
     ELSE IF \/ Cardinality(DOMAIN bindings) >= MaxBindings
             \/ Cardinality(CandidatesOf(place.run)) >= MaxCandidates
       THEN Refuse("capacity")
       ELSE LET binding == <<"binding", next_id>>
                operation == <<"operation", next_id>>
            IN  /\ bindings' = With(bindings, binding, [run |-> place.run, purpose |-> body.detail])
                /\ operations' = With(operations, operation,
                                      Operation(place, binding, body, "intent_persisted"))
                /\ Accept(place, body,
                          [body |-> body, operation |-> operation, binding |-> binding])
                /\ next_id' = next_id + 1

(* handle_local finds the binding of a path, and only for the run in it.   *)
FoundInAnyRun(place) == place.binding \in DOMAIN bindings

Found(place) ==
  place.binding \in DOMAIN bindings /\ bindings[place.binding].run = place.run

(* accept_plan.  A prepared binding is a plan without an operation.        *)
PlanFull == Cardinality(DOMAIN operations) >= MaxOperations

PlanRoomless == PlanFull \/ Cardinality(DOMAIN idempotency) >= MaxOperations

Plan(place, body) ==
  /\ place.kind \in PlanKinds
  /\ IF ~Found(place) THEN Refuse("not_found")
     ELSE IF Known(place, body) THEN Replay(place, body)
     ELSE IF PlanRoomless THEN Refuse("capacity")
     ELSE LET plan == <<"plan", next_id>>
          IN  /\ operations' =
                   IF place.kind = "prepared-bindings" THEN operations
                   ELSE With(operations, plan, Operation(place, place.binding, body, "planned"))
              /\ Accept(place, body,
                        [body |-> body, operation |-> plan, binding |-> place.binding])
              /\ next_id' = next_id + 1
              /\ UNCHANGED bindings

(* accept_operation.                                                       *)
Operate(place, body) ==
  /\ place.kind \in OperationKinds
  /\ IF ~Found(place) THEN Refuse("not_found")
     ELSE IF Known(place, body) THEN Replay(place, body)
     ELSE IF Cardinality(DOMAIN operations) >= MaxOperations THEN Refuse("capacity")
     ELSE LET operation == <<"operation", next_id>>
          IN  /\ operations' = With(operations, operation,
                   Operation(place, place.binding, body, "intent_persisted"))
              /\ Accept(place, body,
                        [body |-> body, operation |-> operation, binding |-> place.binding])
              /\ next_id' = next_id + 1
              /\ UNCHANGED bindings

-----------------------------------------------------------------------------
(* Reads.  An operation or a binding of another run is not found.          *)

ListOf(run) ==
  {o \in DOMAIN operations : operations[o].run = run} \cup CandidatesOf(run)

ReadFound(run, id) ==
  \/ id \in DOMAIN operations /\ operations[id].run = run
  \/ id \in CandidatesOf(run)

Read(run, id) == IF ReadFound(run, id) THEN Say("an entry") ELSE Refuse("not_found")

Places ==
  [kind : {"candidate"}, run : Runs, binding : {None}]
    \cup [kind : PlanKinds \cup OperationKinds, run : Runs, binding : DOMAIN bindings]

Command(place, body) ==
  IF mode = "disabled" \/ mode = "inspect_only" THEN Refuse("unsupported")
  ELSE Candidate(place, body) \/ Plan(place, body) \/ Operate(place, body)

HandleLocal ==
  /\ \/ \E place \in Places, body \in Bodies : Command(place, body)
     \/ \E run \in Runs, id \in DOMAIN operations \cup DOMAIN bindings :
          IF mode = "disabled" THEN Refuse("unsupported") ELSE Read(run, id)
  /\ UNCHANGED mode

SessionInit ==
  /\ mode \in Modes
  /\ bindings = <<>> /\ operations = <<>> /\ idempotency = <<>>
  /\ next_id = 1
  /\ performed = {} /\ reply = [kind |-> "none"]

SessionSpec == SessionInit /\ [][HandleLocal]_sessionVars

-----------------------------------------------------------------------------
SessionTypeOK ==
  /\ mode \in Modes
  /\ \A b \in DOMAIN bindings : bindings[b].run \in Runs /\ b[2] < next_id
  /\ \A o \in DOMAIN operations :
       operations[o].binding \in DOMAIN bindings /\ o[2] < next_id
  /\ \A k \in DOMAIN idempotency : idempotency[k].binding \in DOMAIN bindings

(* A candidate, which comes first, is checked against neither              *)
(* MAX_OPERATIONS nor the idempotency table, and an operation not against  *)
(* the latter: the tables stay within the sum of their caps all the same.  *)
TablesBounded ==
  /\ Cardinality(DOMAIN bindings) <= MaxBindings
  /\ Cardinality(DOMAIN operations) < MaxOperations + MaxBindings
  /\ Cardinality(DOMAIN idempotency) < 2 * MaxOperations + MaxBindings - 1

(* Nothing reaches across runs: what a command did under a run's path is   *)
(* for a binding of that run, whatever colons the identifiers contain.     *)
OwnRunOnly ==
  \A p \in performed : bindings[p.binding].run = p.request.place.run

(* docs/API.md: one idempotency key stands for one command.  However often *)
(* a command is sent it is done once, and an accepted answer names what    *)
(* was done for that body: a reused key is refused, or finds its own.      *)
AnsweredAsPerformed ==
  /\ \A p, q \in performed : p.request = q.request => p = q
  /\ reply.kind = "accepted" => reply \in performed

=============================================================================
