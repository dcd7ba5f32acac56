-------------------------- MODULE DemoServerProofs --------------------------
(***************************************************************************)
(* What the demonstration server changes and shows takes the token and the *)
(* proof of its area, and what it shows of the control plane is durable,   *)
(* for any runs, keys, tokens and table sizes; and its local routes keep   *)
(* their tables bounded, each run to itself and each key to one command.   *)
(***************************************************************************)
EXTENDS DemoServer, FiniteSetTheorems, SequenceTheorems, TLAPS

Tables == <<bindings, operations, idempotency>>

(* No answer of the memory route is open to a caller without a search grant. *)
AnswersGranted == reply.kind = "memory" => reply.to \in SearchPrincipals

(* The planes hold changes; whether they are within the model's bound is   *)
(* another matter (ControlBounded below).                                  *)
PlanesTyped == control \in Seq(Changes) /\ disk \in Seq(Changes)

DemoInv == AnswersGranted /\ PlanesTyped /\ ShownIsDurable

-----------------------------------------------------------------------------
(* A refusal or a plain answer changes no table and finds nothing.         *)
LEMMA PlainAnswers ==
  /\ \A error : Refuse(error) => Tables' = Tables /\ reply'.kind # "memory"
  /\ \A what : Say(what) => Tables' = Tables /\ reply'.kind # "memory"
BY DEF Refuse, Say, Reply, Tables

LEMMA ReplayAnswers ==
  ASSUME NEW place, NEW body, Replay(place, body)
  PROVE  Tables' = Tables /\ reply'.kind # "memory"
<1> DEFINE record == idempotency[DedupeKey(place, body.key)]
<1>1. CASE record.body # body
  BY <1>1 DEF Replay, Refuse, Reply, Tables
<1>2. CASE record.body = body
  BY <1>2 DEF Replay, Reply, Accepted, Tables
<1> QED BY <1>1, <1>2

(* No command of the session route is answered as a search is.             *)
LEMMA CommandAnswers ==
  ASSUME NEW place, NEW body, Command(place, body)
  PROVE  reply'.kind # "memory"
<1>1. ASSUME NEW error, Refuse(error)  PROVE reply'.kind # "memory"
  BY <1>1 DEF Refuse, Reply
<1>2. ASSUME NEW record, Accept(place, body, record)  PROVE reply'.kind # "memory"
  BY <1>2 DEF Accept, Accepted
<1>3. CASE Candidate(place, body)
  BY <1>1, <1>2, <1>3, ReplayAnswers DEF Candidate
<1>4. CASE Plan(place, body)
  BY <1>1, <1>2, <1>4, ReplayAnswers DEF Plan
<1>5. CASE Operate(place, body)
  BY <1>1, <1>2, <1>5, ReplayAnswers DEF Operate
<1> QED BY <1>1, <1>3, <1>4, <1>5 DEF Command

-----------------------------------------------------------------------------
(* What each area may change and answer.                                   *)

PlanesQuiet == UNCHANGED <<control, disk, outbox>>

Quiet == Tables' = Tables /\ PlanesQuiet

(* A change is persisted, and shown or not.                                *)
Changed(change) ==
  /\ change \in Changes /\ Len(control) < MaxVersion
  /\ Persist(Edit(change)) /\ control' \in {control, Edit(change)}

LEMMA ControlServed ==
  ASSUME NEW r \in Requested, ServeControl(r)
  PROVE  /\ Tables' = Tables /\ reply'.kind # "memory"
         /\ \/ PlanesQuiet
            \/ /\ r.token \in {"editor", "objective"} /\ r.proved /\ r.method = "POST"
               /\ \E change \in Changes : Changed(change) /\ Editable(r, change)
<1>1. r.method \in {"GET", "POST"}
  BY DEF Requested
<1>2. CASE r.token \notin {"editor", "objective"} \/ ~Proved(r)
  BY PlainAnswers, <1>2 DEF ServeControl, PlanesQuiet
<1>3. CASE r.token \in {"editor", "objective"} /\ Proved(r) /\ r.method = "GET"
  BY PlainAnswers, <1>3 DEF ServeControl, PlanesQuiet
<1>4. CASE r.token \in {"editor", "objective"} /\ Proved(r) /\ r.method # "GET"
  <2>1. r.proved /\ r.method = "POST"
    BY <1>1, <1>4 DEF Proved
  <2>2. ASSUME NEW change \in Changes, Len(control) < MaxVersion, Mutate(Edit(change))
        PROVE  /\ Tables' = Tables /\ reply'.kind # "memory"
               /\ PlanesQuiet \/ Changed(change)
    <3> DEFINE candidate == Edit(change)
    <3>1. /\ Say("a receipt") \/ Refuse("storage")
          /\ \/ PlanesQuiet
             \/ Persist(candidate) /\ control' \in {control, candidate}
      BY <2>2 DEF Mutate, PlanesQuiet
    <3> QED BY PlainAnswers, <2>2, <3>1 DEF Changed
  <2>3. \/ \E error : Refuse(error) /\ PlanesQuiet
        \/ \E change \in Changes :
             Len(control) < MaxVersion /\ Editable(r, change) /\ Mutate(Edit(change))
    BY <1>4 DEF ServeControl, PlanesQuiet
  <2> QED BY <1>4, <2>1, <2>2, <2>3, PlainAnswers
<1> QED BY <1>2, <1>3, <1>4

(* What a change makes of the planes.                                      *)
LEMMA ChangeKeeps ==
  ASSUME PlanesTyped, ShownIsDurable, NEW change, Changed(change)
  PROVE  /\ PlanesTyped' /\ ShownIsDurable'
         /\ Len(disk') = Len(control) + 1 /\ disk'[Len(disk')] = change
         /\ Len(control') \in {Len(control), Len(control) + 1}
<1> DEFINE n == Len(control)
           candidate == Edit(change)
<1>1. control \in Seq(Changes) /\ disk \in Seq(Changes) /\ n \in Nat /\ change \in Changes
  BY DEF PlanesTyped, Changed
<1>2. /\ candidate \in Seq(Changes) /\ Len(candidate) = n + 1
      /\ candidate[n + 1] = change
      /\ \A i \in 1..n : candidate[i] = control[i]
  BY <1>1 DEF Edit
<1>3. DOMAIN control = 1..n /\ DOMAIN candidate = 1..n + 1
  BY <1>1, <1>2
<1>4. Agrees(candidate) /\ disk' = candidate /\ control' \in {control, candidate}
      /\ outbox' = [i \in DOMAIN outbox \cup DOMAIN candidate |->
                      IF i \in DOMAIN outbox THEN outbox[i] ELSE EventOf(candidate[i])]
  BY DEF Changed, Persist
<1>5. /\ Len(disk) \in {n, n + 1}
      /\ \A i \in 1..n : disk[i] = control[i]
      /\ outbox = [i \in DOMAIN disk |-> EventOf(disk[i])]
  BY <1>3 DEF ShownIsDurable
<1> HIDE DEF candidate, n
<1>6. DOMAIN disk \in {1..n, 1..n + 1} /\ DOMAIN outbox = DOMAIN disk
  BY <1>1, <1>5
<1>7. DOMAIN outbox \cup DOMAIN candidate = DOMAIN candidate
  BY <1>1, <1>3, <1>6
<1>8. ASSUME NEW i \in DOMAIN candidate
      PROVE  outbox'[i] = EventOf(candidate[i])
  <2>1. CASE i \in DOMAIN outbox
    <3>1. outbox[i] = EventOf(candidate[i])
      BY <1>4, <1>8, <2>1 DEF Agrees
    <3> QED BY <1>4, <1>7, <1>8, <2>1, <3>1
  <2>2. CASE i \notin DOMAIN outbox
    BY <1>4, <1>7, <1>8, <2>2
  <2> QED BY <2>1, <2>2
<1>9. outbox' = [i \in DOMAIN candidate |-> EventOf(candidate[i])]
  BY <1>4, <1>7, <1>8
<1>10. PlanesTyped'
  BY <1>1, <1>2, <1>4 DEF PlanesTyped
<1>11. Len(disk') = n + 1 /\ Len(control') \in {n, n + 1}
  BY <1>2, <1>4 DEF n
<1>12. \A i \in DOMAIN control' : disk'[i] = control'[i]
  BY <1>2, <1>3, <1>4
<1>13. ShownIsDurable'
  BY <1>1, <1>2, <1>4, <1>9, <1>11, <1>12 DEF ShownIsDurable, n
<1> QED BY <1>2, <1>4, <1>10, <1>11, <1>13 DEF n

(* Where the planes stay as they are, so does what is so of them.          *)
LEMMA PlanesStay ==
  ASSUME PlanesTyped, ShownIsDurable, PlanesQuiet
  PROVE  PlanesTyped' /\ ShownIsDurable'
BY DEF PlanesTyped, ShownIsDurable, PlanesQuiet

LEMMA MemoryServed ==
  ASSUME NEW r \in Requested, ServeMemory(r)
  PROVE  Quiet /\ AnswersGranted'
<1>1. ASSUME NEW what, Search(r, what),
             Reply([kind |-> "memory", what |-> what, to |-> r.token])
      PROVE  Tables' = Tables /\ reply'.to \in SearchPrincipals
  BY <1>1 DEF Search, Reply, Tables
<1>2. PlanesQuiet
  BY DEF ServeMemory, PlanesQuiet
<1>3. Tables' = Tables /\ (reply'.kind = "memory" => reply'.to \in SearchPrincipals)
  BY PlainAnswers, <1>1 DEF ServeMemory
<1> QED BY <1>2, <1>3 DEF Quiet, AnswersGranted, SearchPrincipals

LEMMA SessionServed ==
  ASSUME NEW r \in Requested, ServeSession(r)
  PROVE  /\ PlanesQuiet /\ reply'.kind # "memory"
         /\ Tables' # Tables => r.token = "session" /\ r.proved /\ r.method = "POST"
<1>1. PlanesQuiet
  BY DEF ServeSession, PlanesQuiet
<1>2. CASE ~MaySession(r)
  BY PlainAnswers, <1>1, <1>2 DEF ServeSession
<1>3. CASE MaySession(r) /\ r.method = "POST"
  <2>1. r.token = "session" /\ r.proved
    BY <1>3 DEF MaySession, Proved
  <2>2. reply'.kind # "memory"
    BY <1>3, CommandAnswers DEF ServeSession
  <2> QED BY <1>1, <1>3, <2>1, <2>2
<1>4. CASE MaySession(r) /\ r.method # "POST"
  <2>1. Tables' = Tables /\ reply'.kind # "memory"
    BY PlainAnswers, <1>4 DEF ServeSession, Read
  <2> QED BY <1>1, <2>1
<1> QED BY <1>2, <1>3, <1>4

-----------------------------------------------------------------------------
EntitledStep == SessionChangeProved /\ ControlChangeProved /\ ObjectiveSeparate /\ SearchGranted

LEMMA DispatchEntitled ==
  ASSUME DemoInv, NEW r \in Requested, Dispatch(r)
  PROVE  EntitledStep /\ DemoInv'
<1>1. author' = IF <<control, disk, bindings, operations, idempotency>>'
                   = <<control, disk, bindings, operations, idempotency>> THEN author ELSE r
  BY DEF Dispatch
<1>2. <<control, disk>>' # <<control, disk>> \/ Tables' # Tables => author' = r
  BY <1>1 DEF Tables
<1>3. /\ Tables' # Tables => r.token = "session" /\ r.proved /\ r.method = "POST"
      /\ AnswersGranted'
      /\ \/ PlanesQuiet
         \/ /\ r.token \in {"editor", "objective"} /\ r.proved /\ r.method = "POST"
            /\ \E change \in Changes : Changed(change) /\ Editable(r, change)
  <2>1. CASE Refuse("not_allowed") /\ UNCHANGED <<control, disk, outbox>>
    BY PlainAnswers, <2>1 DEF AnswersGranted, PlanesQuiet
  <2>2. CASE ServeStatic(r)
    <3>1. Quiet /\ reply'.kind # "memory"
      BY PlainAnswers, <2>2 DEF ServeStatic, Quiet, PlanesQuiet
    <3> QED BY <3>1 DEF Quiet, AnswersGranted
  <2>3. CASE ServeRead(r)
    <3>1. Quiet /\ reply'.kind # "memory"
      BY PlainAnswers, <2>3 DEF ServeRead, Quiet, PlanesQuiet
    <3> QED BY <3>1 DEF Quiet, AnswersGranted
  <2>4. CASE ServeControl(r)
    BY <2>4, ControlServed DEF AnswersGranted
  <2>5. CASE ServeMemory(r)
    BY <2>5, MemoryServed DEF Quiet
  <2>6. CASE ServeSession(r)
    BY <2>6, SessionServed DEF AnswersGranted
  <2> QED BY <2>1, <2>2, <2>3, <2>4, <2>5, <2>6 DEF Dispatch, Serve
<1>4. /\ PlanesTyped' /\ ShownIsDurable'
      /\ <<control, disk>>' # <<control, disk>> =>
           /\ r.token \in {"editor", "objective"} /\ r.proved /\ r.method = "POST"
           /\ disk'[Len(disk')] = "objective" => r.token = "objective"
  <2>1. PlanesTyped /\ ShownIsDurable
    BY DEF DemoInv
  <2>2. CASE PlanesQuiet
    BY <2>1, <2>2, PlanesStay DEF PlanesQuiet
  <2>3. ASSUME NEW change \in Changes, Changed(change), Editable(r, change),
               r.token \in {"editor", "objective"} /\ r.proved /\ r.method = "POST"
        PROVE  /\ PlanesTyped' /\ ShownIsDurable'
               /\ r.token \in {"editor", "objective"} /\ r.proved /\ r.method = "POST"
               /\ disk'[Len(disk')] = "objective" => r.token = "objective"
    BY <2>1, <2>3, ChangeKeeps DEF Editable
  <2> QED BY <1>3, <2>2, <2>3
<1>5. SessionChangeProved
  BY <1>2, <1>3 DEF SessionChangeProved, Tables
<1>6. ControlChangeProved /\ ObjectiveSeparate
  BY <1>2, <1>4 DEF ControlChangeProved, ObjectiveSeparate
<1>7. SearchGranted /\ DemoInv'
  BY <1>3, <1>4 DEF SearchGranted, AnswersGranted, DemoInv, SearchPrincipals
<1> QED BY <1>5, <1>6, <1>7 DEF EntitledStep

LEMMA StutterEntitled ==
  ASSUME DemoInv, UNCHANGED vars
  PROVE  EntitledStep /\ DemoInv'
<1>1. PlanesQuiet /\ PlanesTyped /\ ShownIsDurable
  BY DEF DemoInv, PlanesQuiet, vars
<1>2. PlanesTyped' /\ ShownIsDurable'
  BY <1>1, PlanesStay
<1> QED BY <1>2 DEF DemoInv, EntitledStep, AnswersGranted, SessionChangeProved,
            ControlChangeProved, ObjectiveSeparate, SearchGranted, SearchPrincipals, vars,
            sessionVars

LEMMA InitEntitled == Init => DemoInv
<1> SUFFICES ASSUME Init PROVE DemoInv
  OBVIOUS
<1>1. control = <<>> /\ disk = <<>> /\ outbox = <<>> /\ reply.kind = "none"
  BY DEF Init, SessionInit
<1>2. PlanesTyped /\ ShownIsDurable
  BY <1>1 DEF PlanesTyped, ShownIsDurable
<1> QED BY <1>1, <1>2 DEF DemoInv, AnswersGranted

LEMMA NextEntitled == DemoInv /\ [Next]_vars => EntitledStep /\ DemoInv'
BY DispatchEntitled, StutterEntitled DEF Next

(* docs/SECURITY.md, docs/MEMORY.md: whatever any caller sends, in any     *)
(* order, nothing changes without the token of its area and the proof of   *)
(* its origin, the objective by its own token alone, and nothing found is  *)
(* shown to a principal that may only review.                              *)
THEOREM EveryStepProved == Spec => StepsAreProved
<1>1. DemoInv /\ [Next]_vars => [EntitledStep]_vars
  BY NextEntitled
<1> QED BY InitEntitled, NextEntitled, <1>1, PTL DEF Spec, StepsAreProved, EntitledStep

(* docs/decisions/0013: whatever writes fail, those that are committed and *)
(* reported as failed among them, all that is shown of the control plane   *)
(* is stored, in order, at most one unreported change is stored beyond it, *)
(* and the outbox keeps the event first stored under each number.          *)
THEOREM DurableBeforeShown == Spec => []ShownIsDurable
<1>1. DemoInv => ShownIsDurable
  BY DEF DemoInv
<1> QED BY InitEntitled, NextEntitled, <1>1, PTL DEF Spec

-----------------------------------------------------------------------------
(* The local routes.                                                       *)

(* A place as a request names it, besides the binding of a command.        *)
PlaceOk(place) ==
  /\ place = [kind |-> place.kind, run |-> place.run, binding |-> place.binding]
  /\ place.kind \in {"candidate"} \cup PlanKinds \cup OperationKinds
  /\ place.run \in Runs
  /\ place.kind = "candidate" => place.binding = None

(* What was performed is in the idempotency table, under its dedupe key,   *)
(* and for a binding of its run.                                           *)
PerformedOk(p) ==
  LET place == p.request.place
      d == DedupeKey(place, p.request.key)
  IN  /\ p = [kind |-> "accepted", request |-> p.request, body |-> p.body,
              operation |-> p.operation, binding |-> p.binding]
      /\ p.request = [place |-> place, key |-> p.request.key]
      /\ PlaceOk(place)
      /\ p.request.key \in Keys /\ p.body.key = p.request.key
      /\ p.binding \in DOMAIN bindings /\ bindings[p.binding].run = place.run
      /\ place.kind # "candidate" => place.binding = p.binding
      /\ d \in DOMAIN idempotency
      /\ idempotency[d] = [body |-> p.body, operation |-> p.operation, binding |-> p.binding]

HistoryInv ==
  /\ \A p \in performed : PerformedOk(p)
  /\ \A d \in DOMAIN idempotency :
       \E p \in performed : d = DedupeKey(p.request.place, p.request.key)
  /\ reply.kind = "accepted" => reply \in performed

(* Every binding has an operation, every prepared binding found room.      *)
TablesInv ==
  /\ IsFiniteSet(DOMAIN bindings) /\ IsFiniteSet(DOMAIN operations)
  /\ IsFiniteSet(DOMAIN idempotency)
  /\ Cardinality(DOMAIN bindings) <= MaxBindings
  /\ Cardinality(DOMAIN bindings) <= Cardinality(DOMAIN operations)
  /\ Cardinality(DOMAIN operations) < MaxOperations + Cardinality(DOMAIN bindings)
  /\ Cardinality(DOMAIN idempotency) < MaxOperations + Cardinality(DOMAIN operations)

IdsInv ==
  /\ next_id \in Nat \ {0}
  /\ DOMAIN bindings \subseteq {"binding"} \X (1..next_id - 1)
  /\ DOMAIN operations \subseteq {"operation", "plan"} \X (1..next_id - 1)
  /\ \A b \in DOMAIN bindings : bindings[b].run \in Runs
  /\ \A o \in DOMAIN operations : operations[o].binding \in DOMAIN bindings

SessionInv == IdsInv /\ TablesInv /\ HistoryInv

-----------------------------------------------------------------------------
(* A dedupe key tells the command from which it was made, for one key.     *)

Parts == UNION {{s[i] : i \in DOMAIN s} : s \in Runs \cup Keys}

(* Identifiers are sequences of their parts.                               *)
LEMMA IdentifierParts == Runs \subseteq Seq(Parts) /\ Keys \subseteq Seq(Parts)
<1>1. ASSUME NEW s \in Runs \cup Keys  PROVE s \in Seq(Parts)
  <2> DEFINE P == {s[i] : i \in DOMAIN s}
  <2>1. s \in Seq(P)
    BY SessionAssumption
  <2>2. P \subseteq Parts
    BY DEF Parts
  <2> HIDE DEF P
  <2> QED BY <2>1, <2>2
<1> QED BY <1>1

(* What stands before the same end is the same.                            *)
LEMMA SameBefore ==
  ASSUME NEW S, NEW r \in Seq(S), NEW s \in Seq(S), NEW k \in Seq(S), r \o k = s \o k
  PROVE  r = s
<1>1. /\ Len(r \o k) = Len(r) + Len(k) /\ Len(s \o k) = Len(s) + Len(k)
      /\ \A i \in 1..Len(r) + Len(k) : (r \o k)[i] = IF i <= Len(r) THEN r[i] ELSE k[i - Len(r)]
      /\ \A i \in 1..Len(s) + Len(k) : (s \o k)[i] = IF i <= Len(s) THEN s[i] ELSE k[i - Len(s)]
  BY ConcatProperties
<1>2. Len(r) = Len(s) /\ Len(r) \in Nat /\ Len(k) \in Nat
  BY <1>1
<1>3. \A i \in 1..Len(r) : r[i] = s[i]
  BY <1>1, <1>2
<1> QED BY <1>2, <1>3

(* The same with one part before both.                                     *)
LEMMA SameAfter ==
  ASSUME NEW S, NEW r \in Seq(S), NEW s \in Seq(S), NEW c \in S, <<c>> \o r = <<c>> \o s
  PROVE  r = s
<1> DEFINE h == <<c>>
<1>0. h \in Seq(S) /\ Len(h) = 1
  OBVIOUS
<1> HIDE DEF h
<1>1. ASSUME NEW t \in Seq(S)
      PROVE  /\ Len(h \o t) = 1 + Len(t)
             /\ \A i \in 1..1 + Len(t) : (h \o t)[i] = IF i <= 1 THEN h[i] ELSE t[i - 1]
  <2>1. /\ Len(h \o t) = Len(h) + Len(t)
        /\ \A i \in 1..Len(h) + Len(t) : (h \o t)[i] = IF i <= Len(h) THEN h[i] ELSE t[i - Len(h)]
    BY <1>0, <1>1, ConcatProperties, Zenon
  <2> QED BY <1>0, <2>1
<1>2. h \o r = h \o s
  BY DEF h
<1>3. Len(r) = Len(s) /\ Len(r) \in Nat
  BY <1>1, <1>2
<1>4. ASSUME NEW i \in 1..Len(r)  PROVE r[i] = s[i]
  <2>1. i + 1 \in 1..1 + Len(r) /\ ~(i + 1 <= 1) /\ (i + 1) - 1 = i
    BY <1>3
  <2> QED BY <1>1, <1>2, <1>3, <2>1
<1> QED BY <1>3, <1>4

(* The part of a dedupe key before the client's key.                       *)
Prefix(place) ==
  CASE place.kind = "candidate" -> <<"candidate">> \o place.run
    [] place.kind \in PlanKinds -> <<"plan", place.kind, place.binding>>
    [] OTHER                    -> <<place.kind, place.binding>>

(* The three forms of a dedupe key.                                        *)
LEMMA PrefixForms ==
  ASSUME NEW place, PlaceOk(place), NEW key
  PROVE  /\ DedupeKey(place, key) = Prefix(place) \o key
         /\ place.kind = "candidate" => Prefix(place) = <<"candidate">> \o place.run
         /\ place.kind \in PlanKinds => Prefix(place) = <<"plan", place.kind, place.binding>>
         /\ place.kind \in OperationKinds => Prefix(place) = <<place.kind, place.binding>>
<1>1. "candidate" \notin PlanKinds \cup OperationKinds /\ PlanKinds \cap OperationKinds = {}
  BY SessionAssumption
<1>2. CASE place.kind = "candidate"
  <2>0. place.kind \notin PlanKinds /\ place.kind \notin OperationKinds
    BY <1>1, <1>2
  <2>1. DedupeKey(place, key) = <<"candidate">> \o place.run \o key
    BY <1>2, <2>0 DEF DedupeKey
  <2>2. Prefix(place) = <<"candidate">> \o place.run
    BY <1>2, <2>0 DEF Prefix
  <2> QED BY <2>0, <2>1, <2>2, Zenon
<1>3. CASE place.kind \in PlanKinds
  <2>0. place.kind # "candidate" /\ place.kind \notin OperationKinds
    BY <1>1, <1>3
  <2>1. DedupeKey(place, key) = <<"plan", place.kind, place.binding>> \o key
    BY <1>3, <2>0 DEF DedupeKey
  <2>2. Prefix(place) = <<"plan", place.kind, place.binding>>
    BY <1>3, <2>0 DEF Prefix
  <2> QED BY <2>0, <2>1, <2>2, Zenon
<1>4. CASE place.kind \in OperationKinds
  <2>0. place.kind # "candidate" /\ place.kind \notin PlanKinds
    BY <1>1, <1>4
  <2>1. DedupeKey(place, key) = <<place.kind, place.binding>> \o key
    BY <1>4, <2>0 DEF DedupeKey
  <2>2. Prefix(place) = <<place.kind, place.binding>>
    BY <1>4, <2>0 DEF Prefix
  <2> QED BY <2>0, <2>1, <2>2, Zenon
<1> QED BY <1>2, <1>3, <1>4 DEF PlaceOk

(* For one key, a dedupe key tells the kind, and the run or the binding.   *)
LEMMA KeyTells ==
  ASSUME NEW p, PlaceOk(p), NEW q, PlaceOk(q), NEW key \in Keys,
         DedupeKey(p, key) = DedupeKey(q, key)
  PROVE  /\ p.kind = q.kind
         /\ p.kind = "candidate" => p.run = q.run
         /\ p.kind # "candidate" => p.binding = q.binding
<1> DEFINE S == Parts \cup {"candidate", "plan", p.kind, q.kind, p.binding, q.binding}
<1>1. p.run \in Seq(S) /\ q.run \in Seq(S) /\ key \in Seq(S) /\ "candidate" \in S
  <2>1. Parts \subseteq S
    OBVIOUS
  <2>2. p.run \in Seq(Parts) /\ q.run \in Seq(Parts) /\ key \in Seq(Parts)
    BY IdentifierParts DEF PlaceOk
  <2>3. "candidate" \in S
    OBVIOUS
  <2> HIDE DEF S
  <2> QED BY <2>1, <2>2, <2>3
<1>2. {"plan", p.kind, q.kind, p.binding, q.binding} \subseteq S
  OBVIOUS
<1> HIDE DEF S
<1>3. /\ DedupeKey(p, key) = Prefix(p) \o key /\ DedupeKey(q, key) = Prefix(q) \o key
  BY PrefixForms
<1>4. ASSUME NEW r, PlaceOk(r), r.run \in Seq(S), r.kind \in S, r.binding \in S
      PROVE  Prefix(r) \in Seq(S)
  <2>1. CASE r.kind = "candidate"
    <3>1. <<"candidate">> \in Seq(S)
      BY <1>1
    <3>2. <<"candidate">> \o r.run \in Seq(S)
      BY <1>4, <3>1, ConcatProperties
    <3> QED BY <1>4, <2>1, <3>2, PrefixForms
  <2>2. CASE r.kind \in PlanKinds
    <3>1. <<"plan", r.kind, r.binding>> \in Seq(S)
      BY <1>2, <1>4
    <3> QED BY <1>4, <2>2, <3>1, PrefixForms
  <2>3. CASE r.kind \in OperationKinds
    <3>1. <<r.kind, r.binding>> \in Seq(S)
      BY <1>4
    <3> QED BY <1>4, <2>3, <3>1, PrefixForms
  <2> QED BY <1>4, <2>1, <2>2, <2>3 DEF PlaceOk
<1>5. Prefix(p) = Prefix(q)
  BY <1>1, <1>2, <1>3, <1>4, SameBefore
<1>6. /\ p.kind \in {"candidate"} \cup PlanKinds \cup OperationKinds
      /\ q.kind \in {"candidate"} \cup PlanKinds \cup OperationKinds
      /\ "candidate" \notin PlanKinds \cup OperationKinds
      /\ "plan" \notin OperationKinds /\ PlanKinds \cap OperationKinds = {}
  BY SessionAssumption DEF PlaceOk
<1>7. ASSUME NEW run \in Seq(S)  PROVE (<<"candidate">> \o run)[1] = "candidate"
  <2> DEFINE h == <<"candidate">>
  <2>1. h \in Seq(S) /\ Len(h) = 1 /\ h[1] = "candidate"
    BY <1>1
  <2> HIDE DEF h
  <2>2. (h \o run)[1] = h[1]
    BY <2>1, ConcatProperties
  <2> QED BY <2>1, <2>2 DEF h
<1>8. /\ p.kind = "candidate" => Prefix(p) = <<"candidate">> \o p.run /\ Prefix(p)[1] = "candidate"
      /\ q.kind = "candidate" => Prefix(q) = <<"candidate">> \o q.run /\ Prefix(q)[1] = "candidate"
      /\ p.kind \in PlanKinds => Prefix(p) = <<"plan", p.kind, p.binding>>
      /\ q.kind \in PlanKinds => Prefix(q) = <<"plan", q.kind, q.binding>>
      /\ p.kind \in OperationKinds => Prefix(p) = <<p.kind, p.binding>>
      /\ q.kind \in OperationKinds => Prefix(q) = <<q.kind, q.binding>>
  BY <1>1, <1>7, PrefixForms
<1>9. CASE p.kind = "candidate"
  <2>1. q.kind = "candidate"
    BY <1>5, <1>6, <1>8, <1>9
  <2>2. p.run = q.run
    BY <1>1, <1>5, <1>8, <1>9, <2>1, SameAfter
  <2> QED BY <1>9, <2>1, <2>2
<1>10. CASE p.kind # "candidate"
  <2>1. q.kind # "candidate"
    BY <1>5, <1>6, <1>8, <1>10
  <2> QED BY <1>5, <1>6, <1>8, <1>10, <2>1
<1> QED BY <1>9, <1>10

-----------------------------------------------------------------------------
(* Commands.                                                               *)

(* A new entry makes a table one longer.                                   *)
LEMMA OneLonger ==
  ASSUME NEW f, IsFiniteSet(DOMAIN f), NEW x, x \notin DOMAIN f, NEW value
  PROVE  /\ IsFiniteSet(DOMAIN With(f, x, value))
         /\ Cardinality(DOMAIN With(f, x, value)) = Cardinality(DOMAIN f) + 1
<1>1. DOMAIN With(f, x, value) = DOMAIN f \cup {x}
  BY DEF With
<1> QED BY <1>1, FS_AddElement

(* What the tables need for one more performed command.                    *)
Ready(place, body, record) ==
  /\ PlaceOk(place) /\ body.key \in Keys
  /\ record = [body |-> body, operation |-> record.operation, binding |-> record.binding]
  /\ record.body = body
  /\ place.kind # "candidate" => place.binding = record.binding

(* A new command enters the idempotency table and the history as one.      *)
LEMMA AcceptKeeps ==
  ASSUME HistoryInv, TablesInv, NEW place, NEW body, NEW record, Ready(place, body, record),
         ~Known(place, body), Accept(place, body, record),
         record.binding \in DOMAIN bindings', bindings'[record.binding].run = place.run,
         \A b \in DOMAIN bindings : b \in DOMAIN bindings' /\ bindings'[b] = bindings[b]
  PROVE  /\ HistoryInv'
         /\ IsFiniteSet(DOMAIN idempotency')
         /\ Cardinality(DOMAIN idempotency') = Cardinality(DOMAIN idempotency) + 1
<1> DEFINE d == DedupeKey(place, body.key)
           new == Accepted(place, body, record)
<1>1. /\ idempotency' = With(idempotency, d, record)
      /\ performed' = performed \cup {new} /\ reply' = new
  BY DEF Accept
<1>2. d \notin DOMAIN idempotency
  BY DEF Known
<1> HIDE DEF d
<1>3. /\ IsFiniteSet(DOMAIN idempotency')
      /\ Cardinality(DOMAIN idempotency') = Cardinality(DOMAIN idempotency) + 1
  BY <1>1, <1>2, OneLonger DEF TablesInv
<1>4. /\ DOMAIN idempotency' = DOMAIN idempotency \cup {d} /\ idempotency'[d] = record
      /\ \A e \in DOMAIN idempotency : idempotency'[e] = idempotency[e]
  BY <1>1, <1>2 DEF With
<1>5. /\ new = [kind |-> "accepted", request |-> new.request, body |-> new.body,
                operation |-> new.operation, binding |-> new.binding]
      /\ new.request = [place |-> place, key |-> body.key]
      /\ new.request.place = place /\ new.request.key = body.key
      /\ new.body = body /\ new.operation = record.operation /\ new.binding = record.binding
  BY DEF Accepted, Request
<1> HIDE DEF new
<1>6. PerformedOk(new)'
  <2>1. DedupeKey(new.request.place, new.request.key) = d
    BY <1>5 DEF d
  <2>2. idempotency'[d] = [body |-> new.body, operation |-> new.operation,
                           binding |-> new.binding]
    BY <1>4, <1>5 DEF Ready
  <2>3. PlaceOk(place) /\ body.key \in Keys
        /\ (place.kind # "candidate" => place.binding = record.binding)
    BY DEF Ready
  <2> QED BY <1>4, <1>5, <2>1, <2>2, <2>3 DEF PerformedOk
<1>7. ASSUME NEW p \in performed  PROVE PerformedOk(p)'
  <2>1. PerformedOk(p)
    BY DEF HistoryInv
  <2>2. DedupeKey(p.request.place, p.request.key) \in DOMAIN idempotency
    BY <2>1 DEF PerformedOk
  <2> QED BY <1>4, <2>1, <2>2 DEF PerformedOk
<1>8. ASSUME NEW e \in DOMAIN idempotency'
      PROVE  \E p \in performed' : e = DedupeKey(p.request.place, p.request.key)
  <2>1. CASE e = d
    BY <1>1, <1>5, <2>1 DEF d
  <2>2. CASE e \in DOMAIN idempotency
    BY <1>1, <2>2 DEF HistoryInv
  <2> QED BY <1>4, <2>1, <2>2
<1>9. HistoryInv'
  BY <1>1, <1>6, <1>7, <1>8 DEF HistoryInv
<1> QED BY <1>3, <1>9

(* An answer that accepts nothing, and changes nothing.                    *)
SessionQuiet == /\ UNCHANGED <<bindings, operations, idempotency, next_id, performed>>
                /\ reply'.kind = "accepted" => reply' \in performed

(* What changes nothing keeps the routes sound.                            *)
LEMMA QuietKeeps ==
  ASSUME SessionInv, SessionQuiet
  PROVE  SessionInv'
<1>1. IdsInv' /\ TablesInv'
  BY DEF SessionInv, SessionQuiet, IdsInv, TablesInv
<1>2. HistoryInv'
  BY DEF SessionInv, SessionQuiet, HistoryInv, PerformedOk
<1> QED BY <1>1, <1>2 DEF SessionInv

(* Refusals and plain answers change nothing.                              *)
LEMMA PlainQuiet ==
  /\ \A error : Refuse(error) => SessionQuiet
  /\ \A what : Say(what) => SessionQuiet
BY DEF Refuse, Say, Reply, SessionQuiet

(* A repeated command is answered with what was done for it: whatever else *)
(* has the dedupe key is the same command, or has another body.            *)
LEMMA ReplayQuiet ==
  ASSUME SessionInv, NEW place, PlaceOk(place), NEW body, body.key \in Keys,
         place.kind # "candidate" => Found(place), Replay(place, body)
  PROVE  SessionQuiet
<1> DEFINE d == DedupeKey(place, body.key)
           record == idempotency[d]
<1>1. d \in DOMAIN idempotency
  BY DEF Replay, Known
<1>2. CASE record.body # body
  BY <1>2, PlainQuiet DEF Replay
<1>3. CASE record.body = body
  <2>1. Reply(Accepted(place, body, record))
    BY <1>3 DEF Replay
  <2>2. PICK p \in performed : d = DedupeKey(p.request.place, p.request.key)
    BY <1>1 DEF SessionInv, HistoryInv
  <2> DEFINE q == p.request.place
  <2>3. PerformedOk(p)
    BY DEF SessionInv, HistoryInv
  <2>4. record = [body |-> p.body, operation |-> p.operation, binding |-> p.binding]
    BY <2>2, <2>3 DEF PerformedOk
  <2> HIDE DEF record
  <2>5. record.body = p.body /\ record.operation = p.operation /\ record.binding = p.binding
    BY <2>4
  <2>6. p.body = body /\ p.request.key = body.key
    BY <1>3, <2>3, <2>5 DEF PerformedOk
  <2>7. PlaceOk(q) /\ DedupeKey(place, body.key) = DedupeKey(q, body.key)
    BY <2>2, <2>3, <2>6 DEF PerformedOk
  <2>8. /\ place.kind = q.kind
        /\ place.kind = "candidate" => place.run = q.run
        /\ place.kind # "candidate" => place.binding = q.binding
    BY <2>7, KeyTells
  <2>9. place = q
    <3>1. CASE place.kind = "candidate"
      BY <2>7, <2>8, <3>1 DEF PlaceOk
    <3>2. CASE place.kind # "candidate"
      <4>1. bindings[place.binding].run = place.run
        BY <3>2 DEF Found
      <4>2. bindings[q.binding].run = q.run
        BY <2>3, <2>8, <3>2 DEF PerformedOk
      <4> QED BY <2>7, <2>8, <3>2, <4>1, <4>2 DEF PlaceOk
    <3> QED BY <3>1, <3>2
  <2>10. Accepted(place, body, record) = p
    <3>1. p = [kind |-> "accepted", request |-> p.request, body |-> p.body,
               operation |-> p.operation, binding |-> p.binding]
          /\ p.request = [place |-> q, key |-> p.request.key]
      BY <2>3 DEF PerformedOk
    <3>2. Request(place, body) = p.request
      BY <2>6, <2>9, <3>1 DEF Request
    <3> HIDE DEF q
    <3>3. Accepted(place, body, record) =
            [kind |-> "accepted", request |-> Request(place, body), body |-> body,
             operation |-> record.operation, binding |-> record.binding]
      BY DEF Accepted
    <3> QED BY <2>5, <2>6, <3>1, <3>2, <3>3, Zenon
  <2> QED BY <2>1, <2>10 DEF Reply, SessionQuiet
<1> QED BY <1>2, <1>3

-----------------------------------------------------------------------------
(* How much the tables grow.                                               *)
LEMMA TablesGrow ==
  ASSUME TablesInv,
         IsFiniteSet(DOMAIN bindings'), IsFiniteSet(DOMAIN operations'),
         IsFiniteSet(DOMAIN idempotency'),
         Cardinality(DOMAIN idempotency') = Cardinality(DOMAIN idempotency) + 1,
         \/ /\ Cardinality(DOMAIN bindings') = Cardinality(DOMAIN bindings) + 1
            /\ Cardinality(DOMAIN operations') = Cardinality(DOMAIN operations) + 1
            /\ ~(Cardinality(DOMAIN bindings) >= MaxBindings)
         \/ /\ DOMAIN bindings' = DOMAIN bindings /\ DOMAIN bindings # {}
            /\ Cardinality(DOMAIN operations') = Cardinality(DOMAIN operations) + 1
            /\ ~(Cardinality(DOMAIN operations) >= MaxOperations)
         \/ /\ DOMAIN bindings' = DOMAIN bindings /\ DOMAIN bindings # {}
            /\ DOMAIN operations' = DOMAIN operations
            /\ ~(Cardinality(DOMAIN idempotency) >= MaxOperations)
  PROVE  TablesInv'
<1> DEFINE b == Cardinality(DOMAIN bindings)
           o == Cardinality(DOMAIN operations)
           i == Cardinality(DOMAIN idempotency)
           b2 == Cardinality(DOMAIN bindings')
           o2 == Cardinality(DOMAIN operations')
           i2 == Cardinality(DOMAIN idempotency')
<1>1. b \in Nat /\ o \in Nat /\ i \in Nat
  BY FS_CardinalityType DEF TablesInv
<1>2. MaxBindings \in Nat /\ MaxOperations \in Nat
  BY SessionAssumption
<1>3. b <= MaxBindings /\ b <= o /\ o < MaxOperations + b /\ i < MaxOperations + o
  BY DEF TablesInv
<1>4. i2 = i + 1
  OBVIOUS
<1>5. \/ b2 = b + 1 /\ o2 = o + 1 /\ ~(b >= MaxBindings)
      \/ b2 = b /\ b # 0 /\ o2 = o + 1 /\ ~(o >= MaxOperations)
      \/ b2 = b /\ b # 0 /\ o2 = o /\ ~(i >= MaxOperations)
  <2>1. DOMAIN bindings # {} => b # 0
    BY FS_EmptySet DEF TablesInv
  <2> QED BY <2>1
<1> HIDE DEF b, o, i, b2, o2, i2
<1>6. b2 <= MaxBindings /\ b2 <= o2 /\ o2 < MaxOperations + b2 /\ i2 < MaxOperations + o2
  BY <1>1, <1>2, <1>3, <1>4, <1>5
<1> QED BY <1>6 DEF TablesInv, b2, o2, i2

(* An id of this command is in no table yet, and older than the next.      *)
LEMMA FreshIds ==
  ASSUME IdsInv
  PROVE  /\ <<"binding", next_id>> \notin DOMAIN bindings
         /\ <<"operation", next_id>> \notin DOMAIN operations
         /\ <<"plan", next_id>> \notin DOMAIN operations
         /\ \A T : \A id \in T \X (1..next_id - 1) : id \in T \X (1..(next_id + 1) - 1)
         /\ \A T : \A t \in T : <<t, next_id>> \in T \X (1..(next_id + 1) - 1)
         /\ next_id + 1 \in Nat \ {0}
<1> DEFINE n == next_id
<1>1. n \in Nat \ {0}
  BY DEF IdsInv
<1>2. /\ DOMAIN bindings \subseteq {"binding"} \X (1..n - 1)
      /\ DOMAIN operations \subseteq {"operation", "plan"} \X (1..n - 1)
  BY DEF IdsInv
<1> HIDE DEF n
<1>3. n \notin 1..n - 1 /\ n \in 1..(n + 1) - 1 /\ (1..n - 1) \subseteq 1..(n + 1) - 1
      /\ n + 1 \in Nat \ {0}
  BY <1>1
<1> DEFINE before == 1..n - 1
           upTo == 1..(n + 1) - 1
<1>4. n \notin before /\ n \in upTo /\ before \subseteq upTo
  BY <1>3
<1>5. DOMAIN bindings \subseteq {"binding"} \X before
      /\ DOMAIN operations \subseteq {"operation", "plan"} \X before
  BY <1>2
<1> HIDE DEF before, upTo
<1>6. /\ <<"binding", n>> \notin DOMAIN bindings
      /\ <<"operation", n>> \notin DOMAIN operations
      /\ <<"plan", n>> \notin DOMAIN operations
      /\ \A T : \A id \in T \X before : id \in T \X upTo
      /\ \A T : \A t \in T : <<t, n>> \in T \X upTo
  BY <1>4, <1>5
<1> QED BY <1>3, <1>6 DEF n, before, upTo

(* mutate_candidate: a binding with its operation.                         *)
LEMMA CandidateKeeps ==
  ASSUME SessionInv, NEW place, PlaceOk(place), NEW body \in Bodies, Candidate(place, body)
  PROVE  SessionInv'
<1>1. body.key \in Keys /\ place.kind = "candidate"
  BY DEF Bodies, Candidate
<1>2. CASE Known(place, body)
  <2>1. Replay(place, body)
    BY <1>2 DEF Candidate
  <2> QED BY <1>1, <2>1, ReplayQuiet, QuietKeeps
<1>3. CASE /\ ~Known(place, body)
           /\ \/ Cardinality(DOMAIN bindings) >= MaxBindings
              \/ Cardinality(CandidatesOf(place.run)) >= MaxCandidates
  <2>1. Refuse("capacity")
    BY <1>3 DEF Candidate
  <2> QED BY <2>1, PlainQuiet, QuietKeeps
<1>4. CASE /\ ~Known(place, body)
           /\ ~(Cardinality(DOMAIN bindings) >= MaxBindings)
           /\ ~(Cardinality(CandidatesOf(place.run)) >= MaxCandidates)
  <2> DEFINE binding == <<"binding", next_id>>
             operation == <<"operation", next_id>>
             record == [body |-> body, operation |-> operation, binding |-> binding]
             entry == [run |-> place.run, purpose |-> body.detail]
             job == Operation(place, binding, body, "intent_persisted")
  <2>1. /\ bindings' = With(bindings, binding, entry)
        /\ operations' = With(operations, operation, job)
        /\ Accept(place, body, record) /\ next_id' = next_id + 1
    BY <1>1, <1>4 DEF Candidate
  <2>2. IdsInv /\ TablesInv /\ HistoryInv
    BY DEF SessionInv
  <2>3. binding \notin DOMAIN bindings /\ operation \notin DOMAIN operations
    BY <2>2, FreshIds
  <2>4. Ready(place, body, record) /\ record.binding = binding
    BY <1>1 DEF Ready
  <2>5. entry.run = place.run /\ job.binding = binding
    BY DEF Operation
  <2>6. /\ binding \in {"binding"} \X (1..next_id' - 1)
        /\ operation \in {"operation", "plan"} \X (1..next_id' - 1)
    BY <2>1, <2>2, FreshIds
  <2> HIDE DEF binding, operation, record, entry, job
  <2>7. /\ DOMAIN bindings' = DOMAIN bindings \cup {binding} /\ bindings'[binding] = entry
        /\ \A b \in DOMAIN bindings : bindings'[b] = bindings[b]
        /\ DOMAIN operations' = DOMAIN operations \cup {operation} /\ operations'[operation] = job
        /\ \A o \in DOMAIN operations : operations'[o] = operations[o]
    <3>1. /\ DOMAIN bindings' = DOMAIN bindings \cup {binding} /\ bindings'[binding] = entry
          /\ \A b \in DOMAIN bindings : bindings'[b] = bindings[b]
      BY <2>1, <2>3 DEF With
    <3>2. /\ DOMAIN operations' = DOMAIN operations \cup {operation} /\ operations'[operation] = job
          /\ \A o \in DOMAIN operations : operations'[o] = operations[o]
      BY <2>1, <2>3 DEF With
    <3> QED BY <3>1, <3>2
  <2>8. /\ HistoryInv' /\ IsFiniteSet(DOMAIN idempotency')
        /\ Cardinality(DOMAIN idempotency') = Cardinality(DOMAIN idempotency) + 1
    BY <1>4, <2>1, <2>2, <2>4, <2>5, <2>7, AcceptKeeps
  <2>9. /\ IsFiniteSet(DOMAIN bindings') /\ IsFiniteSet(DOMAIN operations')
        /\ Cardinality(DOMAIN bindings') = Cardinality(DOMAIN bindings) + 1
        /\ Cardinality(DOMAIN operations') = Cardinality(DOMAIN operations) + 1
    BY <2>1, <2>2, <2>3, OneLonger DEF TablesInv
  <2>10. TablesInv'
    BY <1>4, <2>2, <2>8, <2>9, TablesGrow
  <2>11. IdsInv'
    <3>1. /\ next_id' \in Nat \ {0}
          /\ DOMAIN bindings' \subseteq {"binding"} \X (1..next_id' - 1)
          /\ DOMAIN operations' \subseteq {"operation", "plan"} \X (1..next_id' - 1)
      BY <2>1, <2>2, <2>6, <2>7, FreshIds DEF IdsInv
    <3>2. \A b \in DOMAIN bindings' : bindings'[b].run \in Runs
      BY <2>2, <2>5, <2>7 DEF IdsInv, PlaceOk
    <3>3. \A o \in DOMAIN operations' : operations'[o].binding \in DOMAIN bindings'
      BY <2>2, <2>5, <2>7 DEF IdsInv
    <3> QED BY <3>1, <3>2, <3>3 DEF IdsInv
  <2> QED BY <2>8, <2>10, <2>11 DEF SessionInv
<1> QED BY <1>2, <1>3, <1>4

(* A plan or an operation, of a binding of its run.                        *)
LEMMA EntryKeeps ==
  ASSUME SessionInv, NEW place, PlaceOk(place), place.kind # "candidate", Found(place),
         NEW body \in Bodies, ~Known(place, body),
         NEW kind \in {"operation", "plan"}, NEW state,
         LET id == <<kind, next_id>>
         IN  /\ Accept(place, body, [body |-> body, operation |-> id, binding |-> place.binding])
             /\ \/ /\ operations' =
                        With(operations, id, Operation(place, place.binding, body, state))
                   /\ ~(Cardinality(DOMAIN operations) >= MaxOperations)
                \/ /\ operations' = operations
                   /\ ~(Cardinality(DOMAIN idempotency) >= MaxOperations),
         next_id' = next_id + 1, bindings' = bindings
  PROVE  SessionInv'
<1> DEFINE id == <<kind, next_id>>
           record == [body |-> body, operation |-> id, binding |-> place.binding]
           job == Operation(place, place.binding, body, state)
<1>1. IdsInv /\ TablesInv /\ HistoryInv /\ body.key \in Keys
  BY DEF SessionInv, Bodies
<1>2. place.binding \in DOMAIN bindings /\ bindings[place.binding].run = place.run
  BY DEF Found
<1>3. id \notin DOMAIN operations
  BY <1>1, FreshIds
<1>4. Ready(place, body, record) /\ record.binding = place.binding /\ job.binding = place.binding
  BY <1>1 DEF Ready, Operation
<1>5. id \in {"operation", "plan"} \X (1..(next_id + 1) - 1)
  BY <1>1, FreshIds
<1>6. /\ Accept(place, body, record)
      /\ \/ /\ operations' = With(operations, id, job)
            /\ ~(Cardinality(DOMAIN operations) >= MaxOperations)
         \/ operations' = operations /\ ~(Cardinality(DOMAIN idempotency) >= MaxOperations)
  OBVIOUS
<1> HIDE DEF id, record, job
<1>7. /\ HistoryInv' /\ IsFiniteSet(DOMAIN idempotency')
      /\ Cardinality(DOMAIN idempotency') = Cardinality(DOMAIN idempotency) + 1
  BY <1>1, <1>2, <1>4, <1>6, AcceptKeeps
<1>8. TablesInv' /\ DOMAIN operations' \subseteq DOMAIN operations \cup {id}
      /\ \A o \in DOMAIN operations' :
           operations'[o] = job \/ (o \in DOMAIN operations /\ operations'[o] = operations[o])
  <2>1. CASE operations' = operations /\ ~(Cardinality(DOMAIN idempotency) >= MaxOperations)
    <3>1. TablesInv'
      BY <1>1, <1>2, <1>7, <2>1, TablesGrow DEF TablesInv
    <3> QED BY <2>1, <3>1
  <2>2. CASE /\ operations' = With(operations, id, job)
             /\ ~(Cardinality(DOMAIN operations) >= MaxOperations)
    <3>1. /\ IsFiniteSet(DOMAIN operations')
          /\ Cardinality(DOMAIN operations') = Cardinality(DOMAIN operations) + 1
      BY <1>1, <1>3, <2>2, OneLonger DEF TablesInv
    <3>2. TablesInv'
      BY <1>1, <1>2, <1>7, <2>2, <3>1, TablesGrow DEF TablesInv
    <3> QED BY <2>2, <3>2 DEF With
  <2> QED BY <1>6, <2>1, <2>2
<1>9. IdsInv'
  <2>1. /\ next_id' \in Nat \ {0}
        /\ DOMAIN bindings' \subseteq {"binding"} \X (1..next_id' - 1)
    BY <1>1, FreshIds DEF IdsInv
  <2>2. DOMAIN operations' \subseteq {"operation", "plan"} \X (1..next_id' - 1)
    BY <1>1, <1>5, <1>8, FreshIds DEF IdsInv
  <2>3. \A b \in DOMAIN bindings' : bindings'[b].run \in Runs
    BY <1>1 DEF IdsInv
  <2>4. \A o \in DOMAIN operations' : operations'[o].binding \in DOMAIN bindings'
    BY <1>1, <1>2, <1>4, <1>8 DEF IdsInv
  <2> QED BY <2>1, <2>2, <2>3, <2>4 DEF IdsInv
<1> QED BY <1>7, <1>8, <1>9 DEF SessionInv

(* accept_plan.                                                            *)
LEMMA PlanKeeps ==
  ASSUME SessionInv, NEW place, PlaceOk(place), NEW body \in Bodies, Plan(place, body)
  PROVE  SessionInv'
<1>1. body.key \in Keys /\ place.kind \in PlanKinds /\ place.kind # "candidate"
  BY SessionAssumption DEF Bodies, Plan
<1>2. CASE ~Found(place)
  BY <1>2, PlainQuiet, QuietKeeps DEF Plan
<1>3. CASE Found(place) /\ Known(place, body)
  <2>1. Replay(place, body)
    BY <1>3 DEF Plan
  <2> QED BY <1>1, <1>3, <2>1, ReplayQuiet, QuietKeeps
<1>4. CASE Found(place) /\ ~Known(place, body) /\ PlanRoomless
  BY <1>4, PlainQuiet, QuietKeeps DEF Plan
<1>5. CASE Found(place) /\ ~Known(place, body) /\ ~PlanRoomless
  <2> DEFINE id == <<"plan", next_id>>
  <2>1. /\ operations' = IF place.kind = "prepared-bindings" THEN operations
                         ELSE With(operations, id, Operation(place, place.binding, body, "planned"))
        /\ Accept(place, body, [body |-> body, operation |-> id, binding |-> place.binding])
        /\ next_id' = next_id + 1 /\ bindings' = bindings
    BY <1>5 DEF Plan
  <2>2. /\ ~(Cardinality(DOMAIN operations) >= MaxOperations)
        /\ ~(Cardinality(DOMAIN idempotency) >= MaxOperations)
    BY <1>5 DEF PlanRoomless, PlanFull
  <2> QED BY <1>1, <1>5, <2>1, <2>2, EntryKeeps
<1> QED BY <1>2, <1>3, <1>4, <1>5

(* accept_operation.                                                       *)
LEMMA OperateKeeps ==
  ASSUME SessionInv, NEW place, PlaceOk(place), NEW body \in Bodies, Operate(place, body)
  PROVE  SessionInv'
<1>1. body.key \in Keys /\ place.kind # "candidate"
  BY SessionAssumption DEF Bodies, Operate
<1>2. CASE ~Found(place)
  BY <1>2, PlainQuiet, QuietKeeps DEF Operate
<1>3. CASE Found(place) /\ Known(place, body)
  <2>1. Replay(place, body)
    BY <1>3 DEF Operate
  <2> QED BY <1>1, <1>3, <2>1, ReplayQuiet, QuietKeeps
<1>4. CASE Found(place) /\ ~Known(place, body) /\ Cardinality(DOMAIN operations) >= MaxOperations
  BY <1>4, PlainQuiet, QuietKeeps DEF Operate
<1>5. CASE Found(place) /\ ~Known(place, body) /\ ~(Cardinality(DOMAIN operations) >= MaxOperations)
  <2> DEFINE id == <<"operation", next_id>>
  <2>1. /\ operations' = With(operations, id,
                              Operation(place, place.binding, body, "intent_persisted"))
        /\ Accept(place, body, [body |-> body, operation |-> id, binding |-> place.binding])
        /\ next_id' = next_id + 1 /\ bindings' = bindings
    BY <1>5 DEF Operate
  <2> QED BY <1>1, <1>5, <2>1, EntryKeeps
<1> QED BY <1>2, <1>3, <1>4, <1>5

(* handle_local: whatever command is sent.                                 *)
LEMMA CommandKeeps ==
  ASSUME SessionInv, NEW place \in Places, NEW body \in Bodies, Command(place, body)
  PROVE  SessionInv'
<1>1. PlaceOk(place)
  BY SessionAssumption DEF Places, PlaceOk
<1> QED BY <1>1, CandidateKeeps, PlanKeeps, OperateKeeps, PlainQuiet, QuietKeeps DEF Command

-----------------------------------------------------------------------------
(* The server around it.                                                   *)

ControlBounded ==
  /\ PlanesTyped /\ ShownIsDurable
  /\ Len(control) <= MaxVersion /\ Len(disk) <= MaxVersion

ServerInv ==
  SessionInv /\ mode \in Modes /\ author \in Requested \cup {None} /\ ControlBounded

(* Outside the session route only the control plane changes, by one edit.  *)
LEMMA AreasKeep ==
  ASSUME ServerInv, NEW r \in Requested, Serve(r)
  PROVE  SessionInv' /\ ControlBounded'
<1>1. SessionInv /\ ControlBounded
  BY DEF ServerInv
<1>2. ASSUME SessionQuiet, PlanesQuiet  PROVE SessionInv' /\ ControlBounded'
  <2>1. PlanesTyped' /\ ShownIsDurable'
    BY <1>1, <1>2, PlanesStay DEF ControlBounded
  <2>2. Len(control') <= MaxVersion /\ Len(disk') <= MaxVersion
    BY <1>1, <1>2 DEF ControlBounded, PlanesQuiet
  <2> QED BY <1>1, <1>2, <2>1, <2>2, QuietKeeps DEF ControlBounded
<1>3. CASE Refuse("not_allowed") /\ PlanesQuiet
  BY <1>2, <1>3, PlainQuiet
<1>4. CASE ServeStatic(r)
  BY <1>2, <1>4, PlainQuiet DEF ServeStatic, PlanesQuiet
<1>5. CASE ServeRead(r)
  BY <1>2, <1>5, PlainQuiet DEF ServeRead, PlanesQuiet
<1>6. CASE ServeControl(r)
  <2>1. SessionQuiet
    <3>1. ASSUME NEW candidate, Mutate(candidate)  PROVE SessionQuiet
      BY <3>1, PlainQuiet DEF Mutate
    <3> QED BY <1>6, <3>1, PlainQuiet DEF ServeControl
  <2>2. PlanesQuiet \/ \E change \in Changes : Changed(change)
    BY <1>6, ControlServed
  <2>3. ASSUME NEW change \in Changes, Changed(change)  PROVE ControlBounded'
    <3>1. /\ PlanesTyped' /\ ShownIsDurable' /\ Len(disk') = Len(control) + 1
          /\ Len(control') \in {Len(control), Len(control) + 1}
      BY <1>1, <2>3, ChangeKeeps DEF ControlBounded
    <3>2. Len(control) \in Nat /\ MaxVersion \in Nat /\ Len(control) < MaxVersion
      BY <1>1, <2>3, DemoAssumption DEF ControlBounded, PlanesTyped, Changed
    <3> QED BY <3>1, <3>2 DEF ControlBounded
  <2> QED BY <1>1, <1>2, <2>1, <2>2, <2>3, QuietKeeps
<1>7. CASE ServeMemory(r)
  <2>1. ASSUME NEW what, Reply([kind |-> "memory", what |-> what, to |-> r.token])
        PROVE  SessionQuiet
    BY <2>1 DEF Reply, SessionQuiet
  <2>2. SessionQuiet /\ PlanesQuiet
    BY <1>7, <2>1, PlainQuiet DEF ServeMemory, PlanesQuiet
  <2> QED BY <1>2, <2>2
<1>8. CASE ServeSession(r)
  <2>1. PlanesQuiet
    BY <1>8 DEF ServeSession, PlanesQuiet
  <2>2. SessionQuiet \/ \E place \in Places, body \in Bodies : Command(place, body)
    BY <1>8, PlainQuiet DEF ServeSession, Read
  <2>3. ASSUME NEW place \in Places, NEW body \in Bodies, Command(place, body)
        PROVE  SessionInv' /\ ControlBounded'
    <3>1. PlanesTyped' /\ ShownIsDurable'
      BY <1>1, <2>1, PlanesStay DEF ControlBounded
    <3>2. SessionInv'
      BY <1>1, <2>3, CommandKeeps
    <3> QED BY <1>1, <2>1, <3>1, <3>2 DEF ControlBounded, PlanesQuiet
  <2> QED BY <1>2, <2>1, <2>2, <2>3
<1> QED BY <1>3, <1>4, <1>5, <1>6, <1>7, <1>8 DEF Serve, PlanesQuiet

(* Every request of any caller keeps the server sound.                     *)
LEMMA ServerStep == ServerInv /\ [Next]_vars => ServerInv'
<1> SUFFICES ASSUME ServerInv, [Next]_vars PROVE ServerInv'
  OBVIOUS
<1>1. ASSUME NEW r \in Requested, Dispatch(r)  PROVE ServerInv'
  <2>1. SessionInv' /\ ControlBounded'
    BY <1>1, AreasKeep DEF Dispatch
  <2>2. mode' = mode /\ author' \in {author, r}
    BY <1>1 DEF Dispatch
  <2>3. mode' \in Modes /\ author' \in Requested \cup {None}
    BY <2>2 DEF ServerInv
  <2> QED BY <2>1, <2>3 DEF ServerInv, Requested
<1>2. ASSUME UNCHANGED vars  PROVE ServerInv'
  <2>1. SessionQuiet /\ PlanesQuiet /\ UNCHANGED <<mode, author>>
    BY <1>2 DEF vars, sessionVars, SessionQuiet, PlanesQuiet, ServerInv, SessionInv, HistoryInv
  <2>2. PlanesTyped' /\ ShownIsDurable'
    BY <2>1, PlanesStay DEF ServerInv, ControlBounded
  <2> QED BY <2>1, <2>2, QuietKeeps DEF ServerInv, ControlBounded, PlanesQuiet, Requested
<1> QED BY <1>1, <1>2 DEF Next

(* The server starts with empty tables.                                    *)
LEMMA ServerStart == Init => ServerInv
<1> SUFFICES ASSUME Init PROVE ServerInv
  OBVIOUS
<1>1. /\ DOMAIN bindings = {} /\ DOMAIN operations = {} /\ DOMAIN idempotency = {}
      /\ next_id = 1 /\ performed = {} /\ reply.kind = "none" /\ mode \in Modes
      /\ author = None /\ control = <<>> /\ disk = <<>> /\ outbox = <<>>
  BY DEF Init, SessionInit
<1>2. IdsInv /\ HistoryInv
  BY <1>1 DEF IdsInv, HistoryInv
<1>3. TablesInv
  BY <1>1, FS_EmptySet, SessionAssumption DEF TablesInv
<1>4. ControlBounded
  BY <1>1, DemoAssumption DEF ControlBounded, PlanesTyped, ShownIsDurable
<1> QED BY <1>1, <1>2, <1>3, <1>4 DEF ServerInv, SessionInv

(* What was performed for one request is one thing.                        *)
LEMMA PerformedOnce ==
  ASSUME HistoryInv, NEW p \in performed, NEW q \in performed, p.request = q.request
  PROVE  p = q
<1>1. PerformedOk(p) /\ PerformedOk(q)
  BY DEF HistoryInv
<1> DEFINE d == DedupeKey(p.request.place, p.request.key)
<1>2. /\ idempotency[d] = [body |-> p.body, operation |-> p.operation, binding |-> p.binding]
      /\ idempotency[d] = [body |-> q.body, operation |-> q.operation, binding |-> q.binding]
  BY <1>1 DEF PerformedOk
<1> HIDE DEF d
<1>3. p.body = q.body /\ p.operation = q.operation /\ p.binding = q.binding
  BY <1>2
<1>4. /\ p = [kind |-> "accepted", request |-> p.request, body |-> p.body,
              operation |-> p.operation, binding |-> p.binding]
      /\ q = [kind |-> "accepted", request |-> q.request, body |-> q.body,
              operation |-> q.operation, binding |-> q.binding]
  BY <1>1 DEF PerformedOk
<1> QED BY <1>3, <1>4, Zenon

(* The local routes keep their tables within the sum of their caps and of  *)
(* one run each, and one idempotency key stands for one command, whatever  *)
(* the identifiers contain and however often a command is sent.            *)
THEOREM RoutesAreSound == Spec => []ServerSound
<1>1. ServerInv => ServerSound
  <2> SUFFICES ASSUME ServerInv PROVE ServerSound
    OBVIOUS
  <2>1. IdsInv /\ TablesInv /\ HistoryInv
    BY DEF ServerInv, SessionInv
  <2>2. TypeOK
    <3>1. \A b \in DOMAIN bindings : bindings[b].run \in Runs /\ b[2] < next_id
      BY <2>1 DEF IdsInv
    <3>2. \A o \in DOMAIN operations :
            operations[o].binding \in DOMAIN bindings /\ o[2] < next_id
      BY <2>1 DEF IdsInv
    <3>3. ASSUME NEW k \in DOMAIN idempotency
          PROVE  idempotency[k].binding \in DOMAIN bindings
      <4>1. PICK p \in performed : k = DedupeKey(p.request.place, p.request.key)
        BY <2>1 DEF HistoryInv
      <4>2. PerformedOk(p)
        BY <2>1 DEF HistoryInv
      <4>3. /\ idempotency[k] = [body |-> p.body, operation |-> p.operation,
                                 binding |-> p.binding]
            /\ p.binding \in DOMAIN bindings
        BY <4>1, <4>2 DEF PerformedOk
      <4> QED BY <4>3
    <3>4. ASSUME NEW plane \in {control, disk}
          PROVE  plane \in UNION {[1..n -> Changes] : n \in 0..MaxVersion}
      <4>1. plane \in Seq(Changes) /\ Len(plane) <= MaxVersion /\ MaxVersion \in Nat
        BY <3>4, DemoAssumption DEF ServerInv, ControlBounded, PlanesTyped
      <4>2. Len(plane) \in 0..MaxVersion /\ plane \in [1..Len(plane) -> Changes]
        BY <4>1
      <4> QED BY <4>2
    <3> QED BY <3>1, <3>2, <3>3, <3>4 DEF ServerInv, TypeOK, SessionTypeOK
  <2>3. TablesBounded
    <3> DEFINE b == Cardinality(DOMAIN bindings)
               o == Cardinality(DOMAIN operations)
               i == Cardinality(DOMAIN idempotency)
    <3>1. b \in Nat /\ o \in Nat /\ i \in Nat
      BY <2>1, FS_CardinalityType DEF TablesInv
    <3>2. MaxBindings \in Nat /\ MaxOperations \in Nat \ {0}
      BY SessionAssumption
    <3>3. b <= MaxBindings /\ b <= o /\ o < MaxOperations + b /\ i < MaxOperations + o
      BY <2>1 DEF TablesInv
    <3> HIDE DEF b, o, i
    <3>4. b <= MaxBindings /\ o < MaxOperations + MaxBindings
          /\ i < 2 * MaxOperations + MaxBindings - 1
      BY <3>1, <3>2, <3>3
    <3> QED BY <3>4 DEF TablesBounded, b, o, i
  <2>4. OwnRunOnly
    BY <2>1 DEF OwnRunOnly, HistoryInv, PerformedOk
  <2>5. AnsweredAsPerformed
    BY <2>1, PerformedOnce DEF AnsweredAsPerformed, HistoryInv
  <2> QED BY <2>2, <2>3, <2>4, <2>5 DEF ServerSound
<1> QED BY <1>1, ServerStart, ServerStep, PTL DEF Spec
=============================================================================
