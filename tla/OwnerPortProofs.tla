--------------------------- MODULE OwnerPortProofs ---------------------------
(***************************************************************************)
(* What reaches the owner had its authority when it was sent, the routes   *)
(* keep to their own references, and each request is performed at most     *)
(* once: for any clients, grants, profiles, revocations and lost replies.  *)
(* And what an owner offers is presented and admitted just when it is what *)
(* the operator configured as trusted.                                     *)
(***************************************************************************)
EXTENDS OwnerPort, CapabilityAdmission,
        FiniteSetTheorems, SequenceTheorems, WellFoundedInduction, TLAPS

-----------------------------------------------------------------------------
(* Sequences of checks.                                                    *)

AllHold(checks) == \A i \in DOMAIN checks : checks[i].holds

(* A check that names no error cannot fail.                                *)
Tells(check) == check.error = "ok" => check.holds

(* A list of checks each of which tells what it failed on.                 *)
Telling(checks) ==
  /\ \E S : checks \in Seq(S)
  /\ \A i \in DOMAIN checks : Tells(checks[i])

(* A set of positions that is not empty has a first one.                   *)
LEMMA FirstPosition ==
  ASSUME NEW T, T \subseteq Nat, T # {}
  PROVE  Min(T) \in T
<1> DEFINE R == {ss \in Nat \X Nat : ss[1] < ss[2]}
<1>1. IsWellFoundedOn(R, Nat)
  BY NatLessThanWellFounded DEF OpToRel
<1>2. \A k, m \in Nat : k < m => <<k, m>> \in R
  OBVIOUS
<1> HIDE DEF R
<1>3. PICK m \in T : \A k \in T : <<k, m>> \notin R
  BY <1>1, WFMin
<1>4. ASSUME NEW k \in T  PROVE m <= k
  <2>1. k \in Nat /\ m \in Nat /\ ~(k < m)
    BY <1>2, <1>3
  <2> QED BY <2>1
<1> QED BY <1>4, Zenon DEF Min

(* Outcome is "ok" just when every check holds.                            *)
LEMMA OutcomeOk ==
  ASSUME NEW checks, Telling(checks)
  PROVE  Outcome(checks) = "ok" <=> AllHold(checks)
<1> DEFINE failed == {i \in DOMAIN checks : ~checks[i].holds}
<1>1. failed = {} <=> AllHold(checks)
  BY DEF AllHold
<1>2. ASSUME failed # {}  PROVE Outcome(checks) # "ok"
  <2> DEFINE m == Min(failed)
  <2>1. m \in failed
    <3>1. failed \subseteq Nat
      <4>1. PICK S : checks \in Seq(S)
        BY DEF Telling
      <4>2. DOMAIN checks = 1..Len(checks) /\ Len(checks) \in Nat
        BY <4>1, LenProperties
      <4> QED BY <4>2
    <3> HIDE DEF failed
    <3> QED BY <1>2, <3>1, FirstPosition
  <2>2. m \in DOMAIN checks /\ ~checks[m].holds
    <3> HIDE DEF m
    <3> QED BY <2>1
  <2>3. Outcome(checks) = checks[m].error
    BY <1>2, Zenon DEF Outcome
  <2> HIDE DEF m, failed
  <2> QED BY <2>2, <2>3, Zenon DEF Telling, Tells
<1>3. ASSUME failed = {}  PROVE Outcome(checks) = "ok"
  BY <1>3, Zenon DEF Outcome
<1> QED BY <1>1, <1>2, <1>3

(* Checks put together hold just when all of them do.                      *)
LEMMA ChecksTogether ==
  ASSUME NEW s, NEW t, Telling(s), Telling(t)
  PROVE  /\ Telling(s \o t)
         /\ AllHold(s \o t) <=> AllHold(s) /\ AllHold(t)
<1> DEFINE u == s \o t
<1>1. PICK S : s \in Seq(S)
  BY DEF Telling
<1>2. PICK T : t \in Seq(T)
  BY DEF Telling
<1> DEFINE U == S \cup T
<1>3. s \in Seq(U) /\ t \in Seq(U)
  BY <1>1, <1>2, SeqMonotonic
<1> HIDE DEF U
<1>4. /\ u \in Seq(U) /\ Len(u) = Len(s) + Len(t)
      /\ \A i \in 1..Len(s) + Len(t) : u[i] = IF i <= Len(s) THEN s[i] ELSE t[i - Len(s)]
  BY <1>3, ConcatProperties
<1>5. /\ DOMAIN u = 1..Len(s) + Len(t) /\ DOMAIN s = 1..Len(s) /\ DOMAIN t = 1..Len(t)
      /\ Len(s) \in Nat /\ Len(t) \in Nat
  <2> HIDE DEF u
  <2> QED BY <1>3, <1>4
<1> HIDE DEF u
<1>6. \A i \in 1..Len(s) : i \in DOMAIN u /\ u[i] = s[i]
  BY <1>4, <1>5
<1>7. \A i \in 1..Len(t) : i + Len(s) \in DOMAIN u /\ u[i + Len(s)] = t[i]
  <2> TAKE i \in 1..Len(t)
  <2> DEFINE m == Len(s)
             n == Len(t)
             at == i + m
  <2>1. /\ m \in Nat /\ n \in Nat /\ i \in 1..n /\ DOMAIN u = 1..m + n
        /\ \A x \in 1..m + n : u[x] = IF x <= m THEN s[x] ELSE t[x - m]
    BY <1>4, <1>5
  <2> HIDE DEF m, n
  <2>2. at \in 1..m + n /\ ~(at <= m) /\ at - m = i
    BY <2>1
  <2> HIDE DEF at
  <2>3. at \in DOMAIN u /\ u[at] = t[i]
    BY <2>1, <2>2
  <2> QED BY <2>3 DEF at, m
<1>8. \A i \in DOMAIN u : (\E j \in DOMAIN s : u[i] = s[j]) \/ (\E j \in DOMAIN t : u[i] = t[j])
  <2> TAKE i \in DOMAIN u
  <2>1. CASE i <= Len(s)
    BY <1>4, <1>5, <2>1
  <2>2. CASE ~(i <= Len(s))
    <3>1. i - Len(s) \in DOMAIN t /\ u[i] = t[i - Len(s)]
      BY <1>4, <1>5, <2>2
    <3> QED BY <3>1
  <2> QED BY <2>1, <2>2
<1>9. Telling(u)
  BY <1>4, <1>8, Zenon DEF Telling
<1>10. AllHold(u) => AllHold(s) /\ AllHold(t)
  <2>1. AllHold(u) => AllHold(s)
    BY <1>5, <1>6, Zenon DEF AllHold
  <2>2. AllHold(u) => AllHold(t)
    BY <1>5, <1>7, Zenon DEF AllHold
  <2> QED BY <2>1, <2>2
<1>11. AllHold(s) /\ AllHold(t) => AllHold(u)
  BY <1>8, Zenon DEF AllHold
<1> QED BY <1>9, <1>10, <1>11 DEF u

(* The fields of a check.                                                  *)
LEMMA CheckFields ==
  ASSUME NEW holds, NEW error
  PROVE  /\ Check(holds, error).holds = holds
         /\ Check(holds, error).error = error
BY DEF Check

(* One to four checks.                                                     *)
LEMMA OneCheck ==
  ASSUME NEW a, Tells(a)
  PROVE  Telling(<<a>>) /\ (AllHold(<<a>>) <=> a.holds)
<1>1. <<a>> \in Seq({a}) /\ DOMAIN <<a>> = {1} /\ <<a>>[1] = a
  OBVIOUS
<1> QED BY <1>1 DEF Telling, AllHold

LEMMA TwoChecks ==
  ASSUME NEW a, NEW b, Tells(a), Tells(b)
  PROVE  Telling(<<a, b>>) /\ (AllHold(<<a, b>>) <=> a.holds /\ b.holds)
<1>1. /\ <<a, b>> \in Seq({a, b}) /\ DOMAIN <<a, b>> = {1, 2}
      /\ <<a, b>>[1] = a /\ <<a, b>>[2] = b
  OBVIOUS
<1> QED BY <1>1 DEF Telling, AllHold

LEMMA ThreeChecks ==
  ASSUME NEW a, NEW b, NEW c, Tells(a), Tells(b), Tells(c)
  PROVE  Telling(<<a, b, c>>) /\ (AllHold(<<a, b, c>>) <=> a.holds /\ b.holds /\ c.holds)
<1>1. /\ <<a, b, c>> \in Seq({a, b, c}) /\ DOMAIN <<a, b, c>> = {1, 2, 3}
      /\ <<a, b, c>>[1] = a /\ <<a, b, c>>[2] = b /\ <<a, b, c>>[3] = c
  OBVIOUS
<1> QED BY <1>1 DEF Telling, AllHold

LEMMA FourChecks ==
  ASSUME NEW a, NEW b, NEW c, NEW d, Tells(a), Tells(b), Tells(c), Tells(d)
  PROVE  /\ Telling(<<a, b, c, d>>)
         /\ AllHold(<<a, b, c, d>>) <=> a.holds /\ b.holds /\ c.holds /\ d.holds
<1>1. /\ <<a, b, c, d>> \in Seq({a, b, c, d}) /\ DOMAIN <<a, b, c, d>> = {1, 2, 3, 4}
      /\ <<a, b, c, d>>[1] = a /\ <<a, b, c, d>>[2] = b
      /\ <<a, b, c, d>>[3] = c /\ <<a, b, c, d>>[4] = d
  OBVIOUS
<1> QED BY <1>1 DEF Telling, AllHold

LEMMA NoChecks == Telling(<<>>) /\ AllHold(<<>>)
<1>1. <<>> \in Seq({}) /\ DOMAIN <<>> = {}
  OBVIOUS
<1> QED BY <1>1 DEF Telling, AllHold

(* admit_executable: a field is admitted if it is enabled, advertised and  *)
(* within its limit.                                                       *)
LEMMA AdmittedField ==
  ASSUME NEW record, NEW field, NEW requested
  PROVE  Admit(record, field, requested) = "ok" <=>
           /\ record.enabled /\ field \in DOMAIN record.rows
           /\ requested <= record.rows[field].executable
<1> DEFINE limit == record.rows[field].executable
           a == Check(record.enabled, "disabled")
           b == Check(field \in DOMAIN record.rows, "field_not_advertised")
           c == Check(field \in DOMAIN record.rows => requested <= limit,
                      "effective_limit_exceeded")
<1>1. /\ a.holds = record.enabled /\ b.holds = (field \in DOMAIN record.rows)
      /\ c.holds = (field \in DOMAIN record.rows => requested <= limit)
      /\ a.error # "ok" /\ b.error # "ok" /\ c.error # "ok"
  <2> HIDE DEF limit
  <2> QED BY CheckFields
<1>2. Admit(record, field, requested) = Outcome(<<a, b, c>>)
  BY DEF Admit
<1> HIDE DEF a, b, c
<1>3. Tells(a) /\ Tells(b) /\ Tells(c)
  BY <1>1 DEF Tells
<1>4. Telling(<<a, b, c>>) /\ (AllHold(<<a, b, c>>) <=> a.holds /\ b.holds /\ c.holds)
  BY <1>3, ThreeChecks, Zenon
<1>5. Outcome(<<a, b, c>>) = "ok" <=> a.holds /\ b.holds /\ c.holds
  BY <1>4, OutcomeOk
<1> HIDE DEF limit
<1>6. Admit(record, field, requested) = "ok" <=>
        record.enabled /\ field \in DOMAIN record.rows /\ requested <= limit
  BY <1>1, <1>2, <1>5
<1> QED BY <1>6 DEF limit

(* authenticate: the published record is the trusted one.                  *)
LEMMA AuthenticRecord ==
  ASSUME NEW record, NEW trusted
  PROVE  Authenticate(record, trusted) = "ok" <=> RecordValid(trusted) /\ record = trusted
<1> DEFINE a == Check(RecordValid(trusted), "descriptor_tampered")
           b == Check(record.surface = trusted.surface /\ record.owner = trusted.owner,
                      "profile_mismatch")
           c == Check(record.digest = trusted.digest, "descriptor_stale")
           d == Check(record = trusted, "descriptor_tampered")
<1>1. /\ a.holds = RecordValid(trusted)
      /\ b.holds = (record.surface = trusted.surface /\ record.owner = trusted.owner)
      /\ c.holds = (record.digest = trusted.digest) /\ d.holds = (record = trusted)
      /\ a.error # "ok" /\ b.error # "ok" /\ c.error # "ok" /\ d.error # "ok"
  BY CheckFields
<1>2. Authenticate(record, trusted) = Outcome(<<a, b, c, d>>)
  BY DEF Authenticate
<1> HIDE DEF a, b, c, d
<1>3. Tells(a) /\ Tells(b) /\ Tells(c) /\ Tells(d)
  BY <1>1 DEF Tells
<1>4. /\ Telling(<<a, b, c, d>>)
      /\ AllHold(<<a, b, c, d>>) <=> a.holds /\ b.holds /\ c.holds /\ d.holds
  BY <1>3, FourChecks, Zenon
<1>5. Outcome(<<a, b, c, d>>) = "ok" <=> a.holds /\ b.holds /\ c.holds /\ d.holds
  BY <1>4, OutcomeOk
<1> QED BY <1>1, <1>2, <1>5

(* admit_consumer: a consumer's value is admitted under the trusted record, *)
(* by a console that adopted the limits, and under no other record.         *)
LEMMA AdmittedConsumer ==
  ASSUME NEW level, NEW surface, NEW record, NEW trusted, NEW field, NEW requested
  PROVE  AdmitConsumer(level, surface, record, trusted, field, requested) = "ok" <=>
           /\ level = "v3" /\ PinnedSchema(level, surface) = record.schema
           /\ Authenticate(record, trusted) = "ok"
           /\ Admit(trusted, field, requested) = "ok"
<1> DEFINE authentic == Authenticate(record, trusted)
           within == Admit(trusted, field, requested)
           a == Check(level = "v3", "consumer_pin_not_adopted")
           b == Check(PinnedSchema(level, surface) = record.schema, "field_not_advertised")
           c == Check(authentic = "ok", authentic)
           d == Check(within = "ok", within)
<1>1. AdmitConsumer(level, surface, record, trusted, field, requested) = Outcome(<<a, b, c, d>>)
  BY DEF AdmitConsumer
<1>2. /\ a.holds = (level = "v3") /\ b.holds = (PinnedSchema(level, surface) = record.schema)
      /\ a.error # "ok" /\ b.error # "ok"
      /\ c.holds = (authentic = "ok") /\ c.error = authentic
      /\ d.holds = (within = "ok") /\ d.error = within
  <2> HIDE DEF authentic, within
  <2> QED BY CheckFields
<1> HIDE DEF a, b, c, d, authentic, within
<1>3. Tells(a) /\ Tells(b) /\ Tells(c) /\ Tells(d)
  BY <1>2 DEF Tells
<1>4. /\ Telling(<<a, b, c, d>>)
      /\ AllHold(<<a, b, c, d>>) <=> a.holds /\ b.holds /\ c.holds /\ d.holds
  BY <1>3, FourChecks, Zenon
<1>5. Outcome(<<a, b, c, d>>) = "ok" <=> a.holds /\ b.holds /\ c.holds /\ d.holds
  BY <1>4, OutcomeOk
<1> QED BY <1>1, <1>2, <1>5 DEF authentic, within

(* admit_memory_query: a query passes just when each of its fields is       *)
(* admitted under what the trusted owner published.                         *)
LEMMA AdmittedQuery ==
  ASSUME NEW own, NEW scope, NEW answer, NEW query
  PROVE  LET admit(f) == AdmitConsumer("v3", "context-memory", answer.record,
                                       RecordOf(own.descriptor), f, query[f])
         IN  AdmitQuery(own, scope, answer, query) = "ok" <=>
               /\ own # None
               /\ scope = own.scope /\ answer.source = own.source
               /\ answer.epoch = own.epoch
               /\ answer.record # None
               /\ admit("max_results") = "ok" /\ admit("max_candidates") = "ok"
               /\ admit("max_query_bytes") = "ok"
<1> DEFINE trusted == RecordOf(own.descriptor)
           admit(f) == AdmitConsumer("v3", "context-memory", answer.record, trusted, f, query[f])
           r == admit("max_results")
           n == admit("max_candidates")
           z == admit("max_query_bytes")
           a == Check(scope = own.scope /\ answer.source = own.source, "profile_mismatch")
           b == Check(answer.epoch = own.epoch, "descriptor_stale")
           c == Check(answer.record # None, "field_not_advertised")
           d == Check(r = "ok", r)
           e == Check(n = "ok", n)
           f == Check(z = "ok", z)
           rest == Chosen(answer.record # None, <<d, e, f>>)
           all == <<a, b>> \o <<c>> \o rest
<1>1. AdmitQuery(own, scope, answer, query) =
        IF own = None THEN "consumer_not_recorded" ELSE Outcome(all)
  BY DEF AdmitQuery, BindingChecks
<1>2. /\ a.error # "ok" /\ b.error # "ok" /\ c.error # "ok"
      /\ a.holds = (scope = own.scope /\ answer.source = own.source)
      /\ b.holds = (answer.epoch = own.epoch)
      /\ c.holds = (answer.record # None)
      /\ d.holds = (r = "ok") /\ d.error = r
      /\ e.holds = (n = "ok") /\ e.error = n
      /\ f.holds = (z = "ok") /\ f.error = z
  <2> HIDE DEF r, n, z, admit
  <2> QED BY CheckFields
<1>3. /\ Tells(a) /\ Tells(b) /\ Tells(c)
      /\ Tells(d) /\ Tells(e) /\ Tells(f)
  <2> HIDE DEF a, b, c, d, e, f, r, n, z
  <2> QED BY <1>2 DEF Tells
<1>4. rest = IF answer.record # None THEN <<d, e, f>> ELSE <<>>
  <2> HIDE DEF d, e, f
  <2> QED BY DEF Chosen
<1> HIDE DEF a, b, c, d, e, f, r, n, z, rest, admit
<1>5. /\ Telling(<<a, b>>) /\ (AllHold(<<a, b>>) <=> a.holds /\ b.holds)
      /\ Telling(<<c>>) /\ (AllHold(<<c>>) <=> c.holds)
      /\ Telling(<<d, e, f>>) /\ (AllHold(<<d, e, f>>) <=> d.holds /\ e.holds /\ f.holds)
  BY <1>3, OneCheck, TwoChecks, ThreeChecks, Zenon
<1>6. Telling(rest) /\ (answer.record # None => (AllHold(rest) <=> AllHold(<<d, e, f>>)))
  BY <1>4, <1>5, NoChecks
<1> DEFINE first == <<a, b>> \o <<c>>
<1>7. Telling(first) /\ (AllHold(first) <=> AllHold(<<a, b>>) /\ AllHold(<<c>>))
  BY <1>5, ChecksTogether
<1> HIDE DEF first
<1>8. Telling(first \o rest) /\ (AllHold(first \o rest) <=> AllHold(first) /\ AllHold(rest))
  BY <1>6, <1>7, ChecksTogether
<1>9. all = first \o rest
  BY DEF first
<1> HIDE DEF all
<1>10. Outcome(all) = "ok" <=> AllHold(first) /\ AllHold(rest)
  BY <1>8, <1>9, OutcomeOk
<1>11. AdmitQuery(own, scope, answer, query) = "ok" <=>
         /\ own # None
         /\ scope = own.scope /\ answer.source = own.source
         /\ answer.epoch = own.epoch
         /\ answer.record # None
         /\ r = "ok" /\ n = "ok" /\ z = "ok"
  BY <1>1, <1>2, <1>5, <1>6, <1>7, <1>10
<1> QED BY <1>11 DEF r, n, z, admit, trusted

(* What an admitted query was checked against.                              *)
LEMMA AdmittedWithin ==
  ASSUME NEW own, NEW scope, NEW answer, NEW query,
         AdmitQuery(own, scope, answer, query) = "ok"
  PROVE  /\ own.descriptor.enabled
         /\ query["max_results"] <= own.descriptor.limits["max_results"]
<1> DEFINE trusted == RecordOf(own.descriptor)
           f == "max_results"
<1>1. AdmitConsumer("v3", "context-memory", answer.record, trusted, f, query[f]) = "ok"
  BY AdmittedQuery
<1> HIDE DEF trusted
<1>2. /\ trusted.enabled /\ f \in DOMAIN trusted.rows
      /\ query[f] <= trusted.rows[f].executable
  BY <1>1, AdmittedConsumer, AdmittedField
<1>3. /\ trusted.enabled = own.descriptor.enabled
      /\ DOMAIN trusted.rows = DOMAIN own.descriptor.limits
      /\ f \in DOMAIN trusted.rows =>
           trusted.rows[f].executable = own.descriptor.limits[f]
  BY DEF RecordOf, Row, trusted
<1> QED BY <1>2, <1>3

-----------------------------------------------------------------------------
(* Types.                                                                  *)

AllSizes == {0} \cup Sizes
Steps == {"asking", "ready", "called", "lost"}
Issued == [kind : {"binding", "operation"}, scope : Scopes]

SentCalls ==
  [serial : Serials, op : Ops, scope : Scopes, ref : Nat \cup {None},
   grant : DOMAIN Grants, now : Nat, epoch : Nat, size : AllSizes, asked : Nat, try : Nat]

Jobs ==
  [serial : Serials, op : Ops, scope : Scopes, ref : Nat \cup {None},
   grant : DOMAIN Grants, now : Nat, epoch : Nat, size : AllSizes,
   call : SentCalls \cup {None}, asked : Nat, step : Steps]

Entries == [call : SentCalls, refs : SUBSET Nat, within : SUBSET Nat]

Owners ==
  [profile : DOMAIN Profiles, epoch : Nat, changes : Nat,
   sent : SUBSET SentCalls, done : SUBSET Entries, issued : Seq(Issued)]

Typed ==
  /\ version \in Versions
  /\ book \in [revoked : SUBSET DOMAIN Grants, epoch : Nat]
  /\ IsFiniteSet(book.revoked) /\ book.epoch = Cardinality(book.revoked)
  /\ clock \in 0..MaxEvents /\ serial \in 0..MaxRequests
  /\ owner \in Owners
  /\ jobs \in [Clients -> Jobs \cup {None}]
  /\ revokedAt \in [DOMAIN Grants -> Nat]


-----------------------------------------------------------------------------
(* The parts of the invariant.  x is a job or a call: both say which grant *)
(* authorised them when, and what they are about.  What they are measured  *)
(* by is what only moves one way.                                          *)

Now == [version |-> version, serial |-> serial, epoch |-> book.epoch, dates |-> revokedAt,
        sent |-> owner.sent, issued |-> owner.issued, known |-> DOMAIN index]

(* The grant of x was not revoked when the book was at epoch e.            *)
Stood(x, e, now) == now.dates[x.grant] = 0 \/ now.dates[x.grant] > e

Authority(x, now) ==
  /\ x.epoch <= now.epoch /\ x.asked <= now.epoch
  /\ x.now < Grants[x.grant].expires
  /\ Grants[x.grant].class = ClassOf(x.op) /\ Grants[x.grant].scope = x.scope
  /\ Stood(x, x.epoch, now)

Queried(x, now) == x.op = "memory.query" /\ now.version = "v3"

WithinProfile(x) == Trusted.enabled /\ x.size <= Trusted.limits["max_results"]

OwnReference(x, now) ==
  x.ref # None => x.ref \in DOMAIN now.issued /\ now.issued[x.ref].scope = x.scope

(* What an open request relies on.                                         *)
JobSound(c, j, now) ==
  /\ j.serial <= now.serial
  /\ Authority(j, now) /\ OwnReference(j, now)
  /\ j.ref # None => c = SessionClient /\ j.ref \in now.known
  /\ j.step = "ready" /\ Queried(j, now) => WithinProfile(j)
  /\ j.step \in {"asking", "ready"} => \A k \in now.sent : k.serial # j.serial
  /\ j.step \in {"called", "lost"} =>
       /\ j.call \in now.sent
       /\ j.call.serial = j.serial /\ j.call.op = j.op
       /\ j.call.scope = j.scope /\ j.call.ref = j.ref

CallSound(k, now) ==
  /\ k.serial <= now.serial /\ k.try = 1
  /\ Authority(k, now) /\ OwnReference(k, now)
  /\ Queried(k, now) => WithinProfile(k) /\ Stood(k, k.asked, now)

(* The book dates each revocation by the epoch that it began.              *)
BookInv ==
  \A g \in DOMAIN Grants :
    revokedAt[g] <= book.epoch /\ (g \in book.revoked <=> revokedAt[g] # 0)

JobInv == \A c \in Clients : jobs[c] # None => JobSound(c, jobs[c], Now)

SentInv ==
  /\ \A k \in owner.sent : CallSound(k, Now)
  /\ \A k1, k2 \in owner.sent : k1.serial = k2.serial => k1 = k2

(* Serials number the requests: an answer closes its own for good.         *)
SerialInv ==
  /\ \A c1, c2 \in Clients :
       jobs[c1] # None /\ jobs[c2] # None /\ jobs[c1].serial = jobs[c2].serial => c1 = c2
  /\ \A a \in told :
       /\ a.serial \in Nat /\ a.serial <= serial
       /\ \A c \in Clients : jobs[c] # None => jobs[c].serial # a.serial

(* The bindings of an entry that its call did not name.                    *)
NewBindings(e, issued) ==
  {r \in e.refs : issued[r].kind = "binding" /\ (e.call.ref = None \/ r # e.call.ref)}

(* The owner answers a call with references of its scope, of which at most *)
(* one is a binding that the call did not name.                            *)
EntrySound(e, issued) ==
  /\ e.refs \subseteq DOMAIN issued
  /\ \A r \in e.refs : issued[r].scope = e.call.scope
  /\ \A r1, r2 \in NewBindings(e, issued) : r1 = r2

DoneInv ==
  /\ \A e \in owner.done : e.call \in owner.sent /\ EntrySound(e, owner.issued)
  /\ \A e1, e2 \in owner.done : e1.call = e2.call => e1 = e2

IndexInv ==
  /\ DOMAIN index \subseteq DOMAIN owner.issued
  /\ \A r \in DOMAIN index : index[r] = owner.issued[r].scope
  /\ Cardinality(Known("binding")) <= MaxBindings
  /\ Cardinality(Known("operation")) <= MaxOperations
  /\ shown \subseteq DOMAIN index

PortInv ==
  /\ Typed
  /\ BookInv /\ JobInv /\ SentInv /\ SerialInv
  /\ RefusedIsUnsent /\ DoneInv /\ IndexInv

-----------------------------------------------------------------------------
(* What moves one way.                                                     *)

Views ==
  [version : Versions, serial : Nat, epoch : Nat, dates : [DOMAIN Grants -> Nat],
   sent : SUBSET SentCalls, issued : Seq(Issued), known : SUBSET Nat]

Later(n, m) ==
  /\ m.version = n.version /\ n.serial <= m.serial /\ n.epoch <= m.epoch
  /\ \A g \in DOMAIN Grants :
       m.dates[g] = n.dates[g] \/ (n.dates[g] = 0 /\ m.dates[g] > n.epoch)
  /\ n.sent \subseteq m.sent
  /\ \A r \in DOMAIN n.issued : r \in DOMAIN m.issued /\ m.issued[r] = n.issued[r]

(* What every view has, and the fields of Now.                             *)
IndexIssued == DOMAIN index \subseteq DOMAIN owner.issued

(* The state of the port is a view.                                        *)
LEMMA NowTyped == Typed /\ IndexIssued => Now \in Views
<1> SUFFICES ASSUME Typed, IndexIssued  PROVE Now \in Views
  OBVIOUS
<1>1. DOMAIN owner.issued = 1..Len(owner.issued) /\ Len(owner.issued) \in Nat
  BY DEF Typed, Owners
<1>2. DOMAIN index \subseteq Nat
  BY <1>1 DEF IndexIssued
<1>3. serial \in Nat
  BY PortAssumption DEF Typed
<1> QED BY <1>2, <1>3 DEF Typed, Owners, Now, Views

(* And stays one.                                                          *)
LEMMA NowTypedNext == Typed' /\ IndexIssued' => (Now \in Views)'
BY NowTyped, PTL

(* What a view shows of the state.                                         *)
LEMMA NowFields ==
  /\ Now.version = version /\ Now.serial = serial /\ Now.epoch = book.epoch
  /\ Now.dates = revokedAt /\ Now.sent = owner.sent /\ Now.issued = owner.issued
  /\ Now.known = DOMAIN index
BY DEF Now

(* What was authorised stays so at its date.                               *)
LEMMA AuthorityKept ==
  ASSUME NEW x \in Jobs \cup SentCalls, NEW n \in Views, NEW m \in Views, Later(n, m),
         Authority(x, n), OwnReference(x, n)
  PROVE  /\ Authority(x, m) /\ OwnReference(x, m)
         /\ Stood(x, x.asked, n) => Stood(x, x.asked, m)
<1>1. /\ x.grant \in DOMAIN Grants /\ x.epoch \in Nat /\ x.asked \in Nat
  BY DEF Jobs, SentCalls
<1>2. /\ n.epoch \in Nat /\ m.epoch \in Nat /\ n.dates[x.grant] \in Nat
      /\ m.dates[x.grant] \in Nat
  BY <1>1 DEF Views
<1>3. \/ m.dates[x.grant] = n.dates[x.grant]
      \/ n.dates[x.grant] = 0 /\ m.dates[x.grant] > n.epoch
  BY <1>1 DEF Later
<1>4. n.epoch <= m.epoch
  BY DEF Later
<1>5. x.epoch <= m.epoch /\ x.asked <= m.epoch
  BY <1>1, <1>2, <1>4 DEF Authority
<1>6. \A e \in Nat : e <= n.epoch /\ Stood(x, e, n) => Stood(x, e, m)
  BY <1>2, <1>3 DEF Stood
<1>7. OwnReference(x, m)
  BY DEF OwnReference, Later
<1> QED BY <1>1, <1>5, <1>6, <1>7 DEF Authority

(* A request that waits is not disturbed by the others.                    *)
LEMMA JobKept ==
  ASSUME NEW c, NEW j \in Jobs, NEW n \in Views, NEW m \in Views, Later(n, m),
         JobSound(c, j, n),
         \A k \in m.sent \ n.sent : k.serial # j.serial,
         j.ref # None => j.ref \in m.known
  PROVE  JobSound(c, j, m)
<1>1. Authority(j, m) /\ OwnReference(j, m)
  BY AuthorityKept DEF JobSound
<1>2. j.serial <= m.serial
  <2>1. j.serial \in Nat /\ n.serial \in Nat /\ m.serial \in Nat /\ n.serial <= m.serial
    BY DEF Jobs, Views, Later, Serials
  <2> QED BY <2>1 DEF JobSound
<1>3. j.step = "ready" /\ Queried(j, m) => WithinProfile(j)
  BY DEF JobSound, Queried, Later
<1>4. j.step \in {"asking", "ready"} => \A k \in m.sent : k.serial # j.serial
  BY DEF JobSound
<1>5. j.step \in {"called", "lost"} =>
        /\ j.call \in m.sent
        /\ j.call.serial = j.serial /\ j.call.op = j.op
        /\ j.call.scope = j.scope /\ j.call.ref = j.ref
  BY DEF JobSound, Later
<1> QED BY <1>1, <1>2, <1>3, <1>4, <1>5 DEF JobSound

(* A sound call stays sound.                                               *)
LEMMA CallKept ==
  ASSUME NEW k \in SentCalls, NEW n \in Views, NEW m \in Views, Later(n, m),
         CallSound(k, n)
  PROVE  CallSound(k, m)
<1>1. /\ Authority(k, m) /\ OwnReference(k, m)
      /\ Stood(k, k.asked, n) => Stood(k, k.asked, m)
  BY AuthorityKept DEF CallSound
<1>2. k.serial <= m.serial
  <2>1. k.serial \in Nat /\ n.serial \in Nat /\ m.serial \in Nat /\ n.serial <= m.serial
    BY DEF SentCalls, Views, Later, Serials
  <2> QED BY <2>1 DEF CallSound
<1>3. Queried(k, m) => WithinProfile(k) /\ Stood(k, k.asked, m)
  BY <1>1 DEF CallSound, Queried, Later
<1> QED BY <1>1, <1>2, <1>3 DEF CallSound

(* The invariant of the requests and calls, from what a step did to them.  *)
LEMMA JobsKept ==
  ASSUME PortInv, Typed', IndexIssued', Later(Now, Now'),
         \A c \in Clients : jobs'[c] # None =>
           \/ JobSound(c, jobs'[c], Now')
           \/ /\ jobs'[c] = jobs[c]
              /\ \A k \in owner'.sent \ owner.sent : k.serial # jobs[c].serial
              /\ jobs[c].ref # None => jobs[c].ref \in DOMAIN index'
  PROVE  JobInv'
<1>1. Now \in Views /\ Now' \in Views
  BY NowTyped, NowTypedNext DEF PortInv, IndexInv, IndexIssued
<1>2. ASSUME NEW c \in Clients, jobs'[c] # None  PROVE JobSound(c, jobs'[c], Now')
  <2>1. CASE JobSound(c, jobs'[c], Now')
    BY <2>1
  <2>2. CASE /\ jobs'[c] = jobs[c]
             /\ \A k \in owner'.sent \ owner.sent : k.serial # jobs[c].serial
             /\ jobs[c].ref # None => jobs[c].ref \in DOMAIN index'
    <3>1. jobs[c] \in Jobs /\ JobSound(c, jobs[c], Now)
      BY <1>2, <2>2 DEF PortInv, Typed, JobInv
    <3>2. \A k \in Now'.sent \ Now.sent : k.serial # jobs[c].serial
      BY <2>2 DEF Now
    <3>3. jobs[c].ref # None => jobs[c].ref \in Now'.known
      BY <2>2 DEF Now
    <3> QED BY <1>1, <2>2, <3>1, <3>2, <3>3, JobKept
  <2> QED BY <1>2, <2>1, <2>2
<1> QED BY <1>2 DEF JobInv

(* The calls stay sound if the new ones are.                               *)
LEMMA SentKept ==
  ASSUME PortInv, Typed', IndexIssued', Later(Now, Now'),
         \A k \in owner'.sent \ owner.sent :
           CallSound(k, Now') /\ \A k2 \in owner'.sent : k2.serial = k.serial => k2 = k
  PROVE  SentInv'
<1>1. Now \in Views /\ Now' \in Views
  BY NowTyped, NowTypedNext DEF PortInv, IndexInv, IndexIssued
<1>2. ASSUME NEW k \in owner'.sent  PROVE CallSound(k, Now')
  <2>1. CASE k \in owner.sent
    <3>1. k \in SentCalls
      BY <2>1 DEF PortInv, Typed, Owners
    <3>2. CallSound(k, Now)
      BY <2>1 DEF PortInv, SentInv
    <3> QED BY <1>1, <3>1, <3>2, CallKept
  <2> QED BY <1>2, <2>1
<1>3. \A k1, k2 \in owner'.sent : k1.serial = k2.serial => k1 = k2
  BY DEF PortInv, SentInv
<1> QED BY <1>2, <1>3 DEF SentInv

-----------------------------------------------------------------------------
(* What happens around the requests.                                       *)

(* A step that neither sends nor answers leaves the requests as they are.  *)
LEMMA AroundKeeps ==
  ASSUME PortInv, Typed', IndexIssued', Later(Now, Now'),
         UNCHANGED <<jobs, told, serial>>, owner'.sent = owner.sent,
         \A c \in Clients : jobs[c] # None /\ jobs[c].ref # None => jobs[c].ref \in DOMAIN index'
  PROVE  JobInv' /\ SentInv' /\ SerialInv' /\ RefusedIsUnsent'
<1>1. JobInv'
  <2>1. \A c \in Clients : jobs'[c] # None =>
          /\ jobs'[c] = jobs[c]
          /\ \A k \in owner'.sent \ owner.sent : k.serial # jobs[c].serial
          /\ jobs[c].ref # None => jobs[c].ref \in DOMAIN index'
    OBVIOUS
  <2> QED BY <2>1, JobsKept
<1>2. SentInv'
  <2>1. \A k \in owner'.sent \ owner.sent :
          CallSound(k, Now') /\ \A k2 \in owner'.sent : k2.serial = k.serial => k2 = k
    OBVIOUS
  <2> QED BY <2>1, SentKept
<1>3. SerialInv'
  BY DEF PortInv, SerialInv
<1>4. RefusedIsUnsent'
  BY DEF PortInv, RefusedIsUnsent
<1> QED BY <1>1, <1>2, <1>3, <1>4

(* The references of open requests are in the index.                       *)
LEMMA RefsKnown ==
  ASSUME PortInv
  PROVE  /\ IndexIssued
         /\ \A c \in Clients : jobs[c] # None /\ jobs[c].ref # None =>
              c = SessionClient /\ jobs[c].ref \in DOMAIN index
BY DEF PortInv, IndexInv, IndexIssued, JobInv, JobSound, Now

(* A step that moves none of what authorises is a later view.              *)
LEMMA LaterAlike ==
  ASSUME PortInv, version' = version, serial' = serial, book'.epoch = book.epoch,
         revokedAt' = revokedAt, owner.sent \subseteq owner'.sent,
         owner'.issued = owner.issued
  PROVE  Later(Now, Now')
<1>1. serial \in Nat /\ book.epoch \in Nat
  BY PortAssumption DEF PortInv, Typed
<1> QED BY <1>1 DEF Later, Now

(* revoke: the grant is dated by the epoch that its revocation begins.     *)
LEMMA RevokeKeeps ==
  ASSUME PortInv, NEW g \in DOMAIN Grants, Revoke(g)
  PROVE  PortInv'
<1> DEFINE more == book.revoked \cup {g}
           next == book.epoch + 1
<1>0. /\ book.epoch \in Nat /\ revokedAt \in [DOMAIN Grants -> Nat]
      /\ g \notin book.revoked /\ book.revoked \subseteq DOMAIN Grants
  BY DEF PortInv, Typed, Revoke
<1>1. /\ book' = [revoked |-> more, epoch |-> next]
      /\ revokedAt' = [revokedAt EXCEPT ![g] = next]
      /\ UNCHANGED <<version, clock, owner, index, jobs, serial, told, shown>>
  BY DEF Revoke
<1>2. book'.revoked = more /\ book'.epoch = next
  BY <1>1
<1>3. Typed'
  <2>1. IsFiniteSet(more) /\ Cardinality(more) = Cardinality(book.revoked) + 1
    BY <1>0, FS_AddElement DEF PortInv, Typed
  <2>2. book' \in [revoked : SUBSET DOMAIN Grants, epoch : Nat]
    BY <1>0, <1>1
  <2>3. next = Cardinality(more)
    BY <2>1 DEF PortInv, Typed
  <2>4. revokedAt' \in [DOMAIN Grants -> Nat]
    BY <1>0, <1>1
  <2> HIDE DEF more, next
  <2> QED BY <1>1, <1>2, <2>1, <2>2, <2>3, <2>4 DEF PortInv, Typed
<1>4. BookInv'
  <2>1. \A x \in DOMAIN Grants :
          revokedAt'[x] = (IF x = g THEN next ELSE revokedAt[x]) /\ revokedAt[x] \in Nat
    BY <1>0, <1>1
  <2>2. next \in Nat /\ next > book.epoch
    BY <1>0
  <2>3. \A x \in DOMAIN Grants :
          revokedAt[x] <= book.epoch /\ (x \in book.revoked <=> revokedAt[x] # 0)
    BY DEF PortInv, BookInv
  <2> HIDE DEF next
  <2>4. ASSUME NEW x \in DOMAIN Grants
        PROVE  revokedAt'[x] <= next /\ (x \in more <=> revokedAt'[x] # 0)
    BY <1>0, <2>1, <2>2, <2>3
  <2> QED BY <1>2, <2>4 DEF BookInv
<1>5. Later(Now, Now')
  <2>1. \A x \in DOMAIN Grants :
          revokedAt'[x] = revokedAt[x] \/ (revokedAt[x] = 0 /\ revokedAt'[x] > book.epoch)
    <3>1. revokedAt[g] = 0
      BY <1>0 DEF PortInv, BookInv
    <3> QED BY <1>0, <1>1, <3>1
  <2>2. serial \in Nat /\ book.epoch <= next
    BY <1>0, PortAssumption DEF PortInv, Typed
  <2> HIDE DEF next
  <2> QED BY <1>1, <1>2, <2>1, <2>2 DEF Later, Now
<1>6. IndexIssued'
  BY <1>1, RefsKnown DEF IndexIssued
<1>7. JobInv' /\ SentInv' /\ SerialInv' /\ RefusedIsUnsent'
  BY <1>1, <1>3, <1>5, <1>6, RefsKnown, AroundKeeps
<1>8. DoneInv' /\ IndexInv'
  BY <1>1 DEF PortInv, DoneInv, IndexInv, Known
<1> QED BY <1>3, <1>4, <1>7, <1>8 DEF PortInv

(* Time passes: only what is not sent yet can expire.                      *)
LEMMA TickKeeps ==
  ASSUME PortInv, Tick
  PROVE  PortInv'
<1>1. /\ clock' = clock + 1
      /\ UNCHANGED <<version, book, owner, index, jobs, serial, told, shown, revokedAt>>
  BY DEF Tick
<1>2. Typed'
  <2>1. clock < MaxEvents
    <3>1. owner.changes \in Nat /\ Cardinality(book.revoked) \in Nat /\ clock \in Nat
      BY DEF PortInv, Typed, Owners
    <3> QED BY <3>1, PortAssumption DEF Tick, Events
  <2>2. clock' \in 0..MaxEvents
    BY <1>1, <2>1, PortAssumption DEF PortInv, Typed
  <2> QED BY <1>1, <2>2 DEF PortInv, Typed
<1>3. Later(Now, Now')
  BY <1>1, LaterAlike
<1>4. IndexIssued'
  BY <1>1, RefsKnown DEF IndexIssued
<1>5. JobInv' /\ SentInv' /\ SerialInv' /\ RefusedIsUnsent'
  BY <1>1, <1>2, <1>3, <1>4, RefsKnown, AroundKeeps
<1>6. BookInv' /\ DoneInv' /\ IndexInv'
  BY <1>1 DEF PortInv, BookInv, DoneInv, IndexInv, Known
<1> QED BY <1>2, <1>5, <1>6 DEF PortInv

(* The owner turns its profile or epoch: no reference and no call changes. *)
LEMMA OwnerChangesKeeps ==
  ASSUME PortInv, OwnerChanges
  PROVE  PortInv'
<1>1. /\ UNCHANGED <<version, book, clock, index, jobs, serial, told, shown, revokedAt>>
      /\ \/ \E p \in DOMAIN Profiles : owner' = [owner EXCEPT !.profile = p, !.changes = @ + 1]
         \/ owner' = [owner EXCEPT !.epoch = @ + 1, !.changes = @ + 1]
  BY DEF OwnerChanges
<1>2. owner \in Owners
  BY DEF PortInv, Typed
<1>3. /\ owner' \in Owners /\ owner'.sent = owner.sent /\ owner'.done = owner.done
      /\ owner'.issued = owner.issued
  <2>1. CASE \E p \in DOMAIN Profiles : owner' = [owner EXCEPT !.profile = p, !.changes = @ + 1]
    <3>1. PICK p \in DOMAIN Profiles : owner' = [owner EXCEPT !.profile = p, !.changes = @ + 1]
      BY <2>1
    <3>2. owner.changes + 1 \in Nat
      BY <1>2 DEF Owners
    <3> QED BY <1>2, <3>1, <3>2 DEF Owners
  <2>2. CASE owner' = [owner EXCEPT !.epoch = @ + 1, !.changes = @ + 1]
    <3>1. owner.changes + 1 \in Nat /\ owner.epoch + 1 \in Nat
      BY <1>2 DEF Owners
    <3> QED BY <1>2, <2>2, <3>1 DEF Owners
  <2> QED BY <1>1, <2>1, <2>2
<1>4. Typed'
  BY <1>1, <1>3 DEF PortInv, Typed
<1>5. Later(Now, Now')
  BY <1>1, <1>3, LaterAlike
<1>6. IndexIssued'
  BY <1>1, <1>3, RefsKnown DEF IndexIssued
<1>7. JobInv' /\ SentInv' /\ SerialInv' /\ RefusedIsUnsent'
  BY <1>1, <1>3, <1>4, <1>5, <1>6, RefsKnown, AroundKeeps
<1>8. BookInv' /\ DoneInv'
  BY <1>1, <1>3 DEF PortInv, BookInv, DoneInv
<1>9. IndexInv'
  BY <1>1, <1>3 DEF PortInv, IndexInv, Known
<1> QED BY <1>4, <1>7, <1>8, <1>9 DEF PortInv

-----------------------------------------------------------------------------
(* The owner performs.                                                     *)

(* What a call is answered with anew: references of its scope, a binding   *)
(* at most in the first place.                                             *)
LEMMA IssueFields ==
  ASSUME NEW call \in SentCalls, NEW operations \in 1..2
  PROVE  /\ Issue(call, operations) \in Seq(Issued)
         /\ \A i \in DOMAIN Issue(call, operations) :
              /\ Issue(call, operations)[i].scope = call.scope
              /\ Issue(call, operations)[i].kind = "binding" => i = 1
<1> DEFINE b == [kind |-> "binding", scope |-> call.scope]
           o == [kind |-> "operation", scope |-> call.scope]
           bs == IF call.op \in Creating THEN <<b>> ELSE <<>>
           os == IF CreatesOperation(call.op) THEN [i \in 1..operations |-> o] ELSE <<>>
<1>1. b \in Issued /\ o \in Issued
  BY DEF Issued, SentCalls
<1>2. b.kind = "binding" /\ o.kind = "operation" /\ b.scope = call.scope /\ o.scope = call.scope
  OBVIOUS
<1> HIDE DEF b, o
<1>3. bs \in Seq(Issued) /\ Len(bs) <= 1 /\ (\A i \in 1..Len(bs) : bs[i] = b)
  BY <1>1
<1>4. os \in Seq(Issued) /\ (\A i \in 1..Len(os) : os[i] = o)
  BY <1>1
<1> HIDE DEF bs, os
<1> DEFINE new == bs \o os
<1>5. /\ new \in Seq(Issued) /\ Len(new) = Len(bs) + Len(os)
      /\ \A i \in 1..Len(bs) + Len(os) : new[i] = IF i <= Len(bs) THEN bs[i] ELSE os[i - Len(bs)]
  BY <1>3, <1>4, ConcatProperties
<1>6. DOMAIN new = 1..Len(bs) + Len(os) /\ Len(bs) \in Nat /\ Len(os) \in Nat
  <2> HIDE DEF new
  <2> QED BY <1>3, <1>4, <1>5
<1> HIDE DEF new
<1>7. ASSUME NEW i \in DOMAIN new
      PROVE  new[i].scope = call.scope /\ (new[i].kind = "binding" => i = 1)
  <2>1. CASE i <= Len(bs)
    <3>1. new[i] = b /\ i = 1
      BY <1>3, <1>5, <1>6, <2>1
    <3> QED BY <1>2, <3>1
  <2>2. CASE ~(i <= Len(bs))
    <3>1. new[i] = o
      BY <1>4, <1>5, <1>6, <2>2
    <3> QED BY <1>2, <3>1
  <2> QED BY <2>1, <2>2
<1>8. Issue(call, operations) = new
  BY DEF Issue, new, bs, os, b, o
<1> QED BY <1>5, <1>7, <1>8

(* Sound entries stay so as the owner issues more.                         *)
LEMMA EntryKept ==
  ASSUME NEW e, NEW old, NEW more, EntrySound(e, old),
         \A r \in DOMAIN old : r \in DOMAIN more /\ more[r] = old[r]
  PROVE  EntrySound(e, more)
BY DEF EntrySound, NewBindings

(* The owner performs a call once, with references of its scope.           *)
LEMMA PerformKeeps ==
  ASSUME PortInv, NEW call, Perform(call)
  PROVE  PortInv'
<1>1. /\ UNCHANGED <<version, book, clock, index, jobs, serial, told, shown, revokedAt>>
      /\ call \in owner.sent /\ \A e \in owner.done : e.call # call
  BY DEF Perform, Done
<1>2. owner \in Owners /\ call \in SentCalls
  BY <1>1 DEF PortInv, Typed, Owners
<1>3. PICK operations \in 1..2 :
        owner' = [owner EXCEPT
          !.issued = @ \o Issue(call, operations),
          !.done = @ \cup {[call |-> call,
                            refs |-> {Len(owner.issued) + i : i \in DOMAIN Issue(call, operations)}
                                     \cup (IF call.ref = None THEN {} ELSE {call.ref}),
                            within |-> Within(call)]}]
  BY DEF Perform
<1> DEFINE new == Issue(call, operations)
           more == owner.issued \o new
           ids == {Len(owner.issued) + i : i \in DOMAIN new}
           named == IF call.ref = None THEN {} ELSE {call.ref}
           entry == [call |-> call, refs |-> ids \cup named, within |-> Within(call)]
<1>4. /\ new \in Seq(Issued)
      /\ \A i \in DOMAIN new : new[i].scope = call.scope /\ (new[i].kind = "binding" => i = 1)
  BY <1>2, IssueFields
<1>5. owner' = [owner EXCEPT !.issued = more, !.done = owner.done \cup {entry}]
  BY <1>3
<1> HIDE DEF new
<1>6. owner.issued \in Seq(Issued) /\ Len(owner.issued) \in Nat
      /\ DOMAIN owner.issued = 1..Len(owner.issued)
  BY <1>2 DEF Owners
<1>7. /\ more \in Seq(Issued) /\ Len(more) = Len(owner.issued) + Len(new)
      /\ \A i \in 1..Len(owner.issued) + Len(new) :
           more[i] = IF i <= Len(owner.issued) THEN owner.issued[i] ELSE new[i - Len(owner.issued)]
  BY <1>4, <1>6, ConcatProperties
<1> HIDE DEF more
<1>8. DOMAIN more = 1..Len(more) /\ DOMAIN new = 1..Len(new) /\ Len(new) \in Nat
  BY <1>4, <1>7
<1>9. \A r \in DOMAIN owner.issued : r \in DOMAIN more /\ more[r] = owner.issued[r]
  BY <1>6, <1>7, <1>8
<1>10. \A i \in DOMAIN new :
         /\ Len(owner.issued) + i \in DOMAIN more
         /\ more[Len(owner.issued) + i] = new[i]
  <2> SUFFICES ASSUME NEW i \in DOMAIN new
               PROVE  /\ Len(owner.issued) + i \in DOMAIN more
                      /\ more[Len(owner.issued) + i] = new[i]
    OBVIOUS
  <2> DEFINE base == Len(owner.issued)
             len == Len(new)
             at == base + i
  <2>1. /\ base \in Nat /\ len \in Nat /\ i \in 1..len /\ DOMAIN more = 1..base + len
        /\ \A x \in 1..base + len :
             more[x] = IF x <= base THEN owner.issued[x] ELSE new[x - base]
    BY <1>6, <1>7, <1>8
  <2> HIDE DEF base, len
  <2>2. at \in 1..base + len /\ ~(at <= base) /\ at - base = i
    BY <2>1
  <2> HIDE DEF at
  <2>3. at \in DOMAIN more /\ more[at] = new[i]
    BY <2>1, <2>2
  <2> QED BY <2>3 DEF at, base
<1>11. call.ref # None =>
         call.ref \in DOMAIN owner.issued /\ owner.issued[call.ref].scope = call.scope
  BY <1>1 DEF PortInv, SentInv, CallSound, OwnReference, Now
<1>12. entry.call = call /\ entry.refs = ids \cup named
  OBVIOUS
<1>13. EntrySound(entry, more)
  <2>1. \A r \in entry.refs : r \in DOMAIN more /\ more[r].scope = call.scope
    BY <1>4, <1>9, <1>10, <1>11, <1>12
  <2>2. \A r \in ids : more[r].kind = "binding" => r = Len(owner.issued) + 1
    BY <1>4, <1>10
  <2>3. \A r \in NewBindings(entry, more) : r = Len(owner.issued) + 1
    BY <1>12, <2>2 DEF NewBindings
  <2> HIDE DEF entry, ids, named
  <2> QED BY <1>12, <2>1, <2>3 DEF EntrySound
<1>14. entry \in Entries
  <2>1. \A i \in DOMAIN new : Len(owner.issued) + i \in Nat
    BY <1>6, <1>8
  <2>2. named \subseteq Nat
    BY <1>6, <1>11
  <2>3. Within(call) \subseteq Nat
    BY <1>6 DEF Within
  <2> DEFINE refs == ids \cup named
  <2>4. refs \in SUBSET Nat /\ entry = [call |-> call, refs |-> refs, within |-> Within(call)]
    BY <2>1, <2>2
  <2> HIDE DEF ids, named, entry, refs
  <2> QED BY <1>2, <2>3, <2>4 DEF Entries
<1> HIDE DEF entry, ids, named
<1>15. /\ owner' \in Owners /\ owner'.sent = owner.sent /\ owner'.issued = more
       /\ owner'.done = owner.done \cup {entry}
  <2>1. owner.done \cup {entry} \subseteq Entries
    BY <1>2, <1>14 DEF Owners
  <2> DEFINE done == owner.done \cup {entry}
  <2> HIDE DEF done
  <2> QED BY <1>2, <1>5, <1>7, <2>1 DEF Owners, done
<1>16. Typed'
  BY <1>1, <1>15 DEF PortInv, Typed
<1>17. Later(Now, Now')
  <2>1. serial \in Nat /\ book.epoch \in Nat
    BY PortAssumption DEF PortInv, Typed
  <2> QED BY <1>1, <1>9, <1>15, <2>1 DEF Later, Now
<1>18. IndexIssued'
  BY <1>1, <1>9, <1>15, RefsKnown DEF IndexIssued
<1>19. JobInv' /\ SentInv' /\ SerialInv' /\ RefusedIsUnsent'
  BY <1>1, <1>15, <1>16, <1>17, <1>18, RefsKnown, AroundKeeps
<1>20. DoneInv'
  <2>1. \A e \in owner.done : e.call \in owner.sent /\ EntrySound(e, more)
    BY <1>9, EntryKept DEF PortInv, DoneInv
  <2>2. \A e1, e2 \in owner.done \cup {entry} : e1.call = e2.call => e1 = e2
    BY <1>1, <1>12 DEF PortInv, DoneInv
  <2> QED BY <1>1, <1>12, <1>13, <1>15, <2>1, <2>2 DEF DoneInv
<1>21. IndexInv'
  <2>1. Known("binding")' = Known("binding") /\ Known("operation")' = Known("operation")
    BY <1>1, <1>9, <1>15, RefsKnown DEF Known, IndexIssued
  <2> QED BY <1>1, <1>9, <1>15, <2>1 DEF PortInv, IndexInv
<1>22. BookInv'
  BY <1>1 DEF PortInv, BookInv
<1> QED BY <1>16, <1>19, <1>20, <1>21, <1>22 DEF PortInv

-----------------------------------------------------------------------------
(* The index.                                                              *)

(* The index is finite, so its kinds are counted.                          *)
LEMMA KnownFinite ==
  ASSUME PortInv
  PROVE  \A kind : IsFiniteSet(Known(kind))
<1>1. IsFiniteSet(DOMAIN owner.issued)
  <2>1. DOMAIN owner.issued = 1..Len(owner.issued) /\ Len(owner.issued) \in Nat
    BY DEF PortInv, Typed, Owners
  <2> DEFINE n == Len(owner.issued)
             ids == DOMAIN owner.issued
  <2> HIDE DEF n, ids
  <2>2. ids = 1..n /\ n \in Int /\ 1 \in Int
    BY <2>1 DEF n, ids
  <2>3. IsFiniteSet(1..n)
    BY <2>2, FS_Interval, Zenon
  <2>4. IsFiniteSet(ids)
    BY <2>2, <2>3, Zenon
  <2> QED BY <2>4 DEF ids
<1>2. \A kind : Known(kind) \subseteq DOMAIN owner.issued
  BY RefsKnown DEF Known, IndexIssued
<1> QED BY <1>1, <1>2, FS_Subset

(* The session starts again with an empty index, and no call is open.      *)
LEMMA RestartKeeps ==
  ASSUME PortInv, Restart
  PROVE  PortInv'
<1>1. /\ UNCHANGED <<version, book, clock, owner, jobs, serial, told, revokedAt>>
      /\ jobs[SessionClient] = None /\ index' = <<>> /\ shown' = {}
  BY DEF Restart
<1>2. Typed'
  BY <1>1 DEF PortInv, Typed
<1>3. Later(Now, Now')
  BY <1>1, LaterAlike
<1>4. DOMAIN index' = {}
  BY <1>1
<1>5. IndexIssued'
  BY <1>4 DEF IndexIssued
<1>6. JobInv' /\ SentInv' /\ SerialInv' /\ RefusedIsUnsent'
  BY <1>1, <1>2, <1>3, <1>5, RefsKnown, AroundKeeps
<1>7. IndexInv'
  <2>1. Known("binding")' = {} /\ Known("operation")' = {}
    BY <1>4 DEF Known
  <2>2. Cardinality(Known("binding")') <= MaxBindings
    BY <2>1, FS_EmptySet, PortAssumption
  <2>3. Cardinality(Known("operation")') <= MaxOperations
    BY <2>1, FS_EmptySet, PortAssumption
  <2> QED BY <1>1, <1>4, <2>2, <2>3 DEF IndexInv
<1>8. BookInv' /\ DoneInv'
  BY <1>1 DEF PortInv, BookInv, DoneInv
<1> QED BY <1>2, <1>6, <1>7, <1>8 DEF PortInv

(* The fields of the index after references of one scope were entered.     *)
LEMMA EnteredFields ==
  ASSUME NEW scope, NEW refs, index' = Entered(scope, refs), owner' = owner,
         refs \subseteq DOMAIN owner.issued,
         \A r \in refs : owner.issued[r].scope = scope, PortInv
  PROVE  /\ DOMAIN index' = DOMAIN index \cup refs /\ IndexIssued'
         /\ \A r \in DOMAIN index' : index'[r] = owner'.issued[r].scope
         /\ \A kind : Known(kind)' = Known(kind) \cup OfKind(refs, kind)
<1>1. /\ DOMAIN index' = DOMAIN index \cup refs
      /\ \A r \in DOMAIN index' :
           index'[r] = IF r \in DOMAIN index \ OfKind(refs, "binding") THEN index[r] ELSE scope
  BY DEF Entered
<1>2. IndexIssued'
  BY <1>1, RefsKnown DEF IndexIssued
<1>3. \A r \in DOMAIN index' : index'[r] = owner'.issued[r].scope
  BY <1>1 DEF PortInv, IndexInv, OfKind
<1>4. \A kind : Known(kind)' = Known(kind) \cup OfKind(refs, kind)
  BY <1>1 DEF Known, OfKind
<1> QED BY <1>1, <1>2, <1>3, <1>4

(* A set below its bound has room for one more.                            *)
LEMMA OneMore ==
  ASSUME NEW S, IsFiniteSet(S), NEW x, NEW bound \in Nat, Cardinality(S) < bound
  PROVE  Cardinality(S \cup {x}) <= bound
<1>1. Cardinality(S \cup {x}) = (IF x \in S THEN Cardinality(S) ELSE Cardinality(S) + 1)
  BY FS_AddElement
<1>2. Cardinality(S) \in Nat
  BY FS_CardinalityType
<1> DEFINE n == Cardinality(S)
<1> HIDE DEF n
<1>3. n \in Nat /\ n < bound /\ (Cardinality(S \cup {x}) = n \/ Cardinality(S \cup {x}) = n + 1)
  BY <1>1, <1>2 DEF n
<1> QED BY <1>3

(* register: one more reference, below its bound.                          *)
LEMMA RegisterKeeps ==
  ASSUME PortInv, NEW r, Register(r)
  PROVE  PortInv'
<1>1. /\ UNCHANGED <<version, book, clock, owner, jobs, serial, told, shown, revokedAt>>
      /\ r \in DOMAIN owner.issued /\ index' = Entered(owner.issued[r].scope, {r})
  BY DEF Register
<1>2. /\ DOMAIN index' = DOMAIN index \cup {r} /\ IndexIssued'
      /\ \A x \in DOMAIN index' : index'[x] = owner'.issued[x].scope
      /\ \A kind : Known(kind)' = Known(kind) \cup OfKind({r}, kind)
  <2> DEFINE scope == owner.issued[r].scope
             one == {r}
  <2>1. /\ index' = Entered(scope, one) /\ owner' = owner /\ one \subseteq DOMAIN owner.issued
        /\ \A x \in one : owner.issued[x].scope = scope
    BY <1>1
  <2> HIDE DEF scope, one
  <2>2. /\ DOMAIN index' = DOMAIN index \cup one /\ IndexIssued'
        /\ \A x \in DOMAIN index' : index'[x] = owner'.issued[x].scope
        /\ \A kind : Known(kind)' = Known(kind) \cup OfKind(one, kind)
    BY <2>1, EnteredFields, ZenonT(30)
  <2> QED BY <2>2 DEF one
<1>3. Typed'
  BY <1>1 DEF PortInv, Typed
<1>4. Later(Now, Now')
  BY <1>1, LaterAlike
<1>5. JobInv' /\ SentInv' /\ SerialInv' /\ RefusedIsUnsent'
  BY <1>1, <1>2, <1>3, <1>4, RefsKnown, AroundKeeps
<1>6. IndexInv'
  <2>1. IsFiniteSet(Known("binding")) /\ IsFiniteSet(Known("operation"))
    BY KnownFinite
  <2>2. /\ Cardinality(Known("binding")) \in Nat /\ Cardinality(Known("operation")) \in Nat
        /\ Cardinality(Known("binding")) <= MaxBindings
        /\ Cardinality(Known("operation")) <= MaxOperations
    BY <2>1, FS_CardinalityType DEF PortInv, IndexInv
  <2>3. owner.issued[r].kind \in {"binding", "operation"}
    <3>1. owner.issued \in Seq(Issued)
      BY DEF PortInv, Typed, Owners
    <3>2. owner.issued[r] \in Issued
      BY <1>1, <3>1
    <3> QED BY <3>2 DEF Issued
  <2>4. CASE owner.issued[r].kind = "binding"
    <3>1. /\ Known("binding")' = Known("binding") \cup {r}
          /\ Known("operation")' = Known("operation")
      BY <1>2, <2>4 DEF OfKind
    <3>2. Cardinality(Known("binding")) < MaxBindings
      BY <2>4 DEF Register
    <3>3. Cardinality(Known("binding") \cup {r}) <= MaxBindings
      BY <2>1, <2>2, <3>2, OneMore, PortAssumption
    <3> QED BY <1>1, <1>2, <2>2, <3>1, <3>3, RefsKnown DEF IndexInv, IndexIssued, PortInv
  <2>5. CASE owner.issued[r].kind = "operation"
    <3>1. /\ Known("operation")' = Known("operation") \cup {r}
          /\ Known("binding")' = Known("binding")
      BY <1>2, <2>5 DEF OfKind
    <3>2. Cardinality(Known("operation")) < MaxOperations
      BY <2>5 DEF Register
    <3>3. Cardinality(Known("operation") \cup {r}) <= MaxOperations
      BY <2>1, <2>2, <3>2, OneMore, PortAssumption
    <3> QED BY <1>1, <1>2, <2>2, <3>1, <3>3, RefsKnown DEF IndexInv, IndexIssued, PortInv
  <2> QED BY <2>3, <2>4, <2>5
<1>7. BookInv' /\ DoneInv'
  BY <1>1 DEF PortInv, BookInv, DoneInv
<1> QED BY <1>3, <1>5, <1>6, <1>7 DEF PortInv

-----------------------------------------------------------------------------
(* The steps of a request.                                                 *)

Refused(a) == a.outcome = "denied" \/ (a.outcome = "limit" /\ a.op = "memory.query")

(* A request is answered and closed; the index may have grown.             *)
LEMMA CloseKeeps ==
  ASSUME PortInv, NEW c \in Clients, jobs[c] # None, NEW a,
         jobs' = [jobs EXCEPT ![c] = None], told' = told \cup {a},
         a.serial = jobs[c].serial,
         Refused(a) => \A k \in owner.sent : k.serial # a.serial,
         UNCHANGED <<version, book, clock, owner, serial, revokedAt>>,
         DOMAIN index \subseteq DOMAIN index', IndexInv'
  PROVE  PortInv'
<1>1. Typed'
  BY DEF PortInv, Typed
<1>2. /\ jobs'[c] = None
      /\ \A x \in Clients : jobs'[x] # None => x # c /\ jobs'[x] = jobs[x]
  BY DEF PortInv, Typed
<1>3. Later(Now, Now')
  BY LaterAlike
<1>4. IndexIssued'
  BY DEF IndexInv, IndexIssued
<1>5. JobInv'
  <2>1. \A x \in Clients : jobs'[x] # None =>
          /\ jobs'[x] = jobs[x]
          /\ \A k \in owner'.sent \ owner.sent : k.serial # jobs[x].serial
          /\ jobs[x].ref # None => jobs[x].ref \in DOMAIN index'
    BY <1>2, RefsKnown
  <2> QED BY <1>1, <1>3, <1>4, <2>1, JobsKept
<1>6. SentInv'
  <2>1. \A k \in owner'.sent \ owner.sent :
          CallSound(k, Now') /\ \A k2 \in owner'.sent : k2.serial = k.serial => k2 = k
    OBVIOUS
  <2> QED BY <1>1, <1>3, <1>4, <2>1, SentKept
<1>7. SerialInv'
  <2>1. a.serial \in Nat /\ a.serial <= serial
    BY DEF PortInv, Typed, Jobs, Serials, JobInv, JobSound, Now
  <2>2. \A x \in Clients : jobs'[x] # None => jobs'[x].serial # a.serial
    BY <1>2 DEF PortInv, SerialInv
  <2> QED BY <1>2, <2>1, <2>2 DEF PortInv, SerialInv
<1>8. RefusedIsUnsent'
  BY DEF PortInv, RefusedIsUnsent, Refused
<1>9. BookInv' /\ DoneInv'
  BY DEF PortInv, BookInv, DoneInv
<1> QED BY <1>1, <1>5, <1>6, <1>7, <1>8, <1>9 DEF PortInv

(* An answer without references, whatever its outcome.                     *)
LEMMA AnswerKeeps ==
  ASSUME PortInv, NEW c \in Clients, jobs[c] # None, NEW outcome, Answer(c, outcome),
         \/ outcome \notin {"denied", "limit"}
         \/ jobs[c].step \in {"asking", "ready"},
         UNCHANGED <<version, book, clock, owner, serial, revokedAt, index, shown>>
  PROVE  PortInv'
<1> DEFINE a == Answered(jobs[c], outcome, None, {})
<1>1. jobs' = [jobs EXCEPT ![c] = None] /\ told' = told \cup {a}
  BY DEF Answer
<1>2. a.serial = jobs[c].serial /\ a.outcome = outcome
  BY DEF Answered
<1>3. jobs[c].step \in {"asking", "ready"} => \A k \in owner.sent : k.serial # jobs[c].serial
  BY DEF PortInv, JobInv, JobSound, Now
<1> HIDE DEF a
<1>4. Refused(a) => \A k \in owner.sent : k.serial # a.serial
  BY <1>2, <1>3 DEF Refused
<1>5. IndexInv'
  BY DEF PortInv, IndexInv, Known
<1> QED BY <1>1, <1>2, <1>4, <1>5, CloseKeeps

(* A request comes to another step of its own, before its call is sent or  *)
(* after.                                                                  *)
LEMMA MoveKeeps ==
  ASSUME PortInv, NEW c \in Clients, jobs[c] # None, NEW j \in Jobs,
         jobs' = [jobs EXCEPT ![c] = j], j.serial = jobs[c].serial,
         Typed', Later(Now, Now'), JobSound(c, j, Now'),
         \A k \in owner'.sent \ owner.sent :
           k.serial = j.serial /\ CallSound(k, Now')
             /\ \A k2 \in owner'.sent : k2.serial = k.serial => k2 = k,
         owner'.issued = owner.issued, owner'.done = owner.done,
         UNCHANGED <<version, book, clock, serial, revokedAt, told, index, shown>>
  PROVE  PortInv'
<1>1. /\ jobs'[c] = j
      /\ \A x \in Clients : x # c => jobs'[x] = jobs[x]
  BY DEF PortInv, Typed
<1>2. IndexIssued'
  BY RefsKnown DEF IndexIssued
<1>3. JobInv'
  <2>1. ASSUME NEW x \in Clients, jobs'[x] # None
        PROVE  \/ JobSound(x, jobs'[x], Now')
               \/ /\ jobs'[x] = jobs[x]
                  /\ \A k \in owner'.sent \ owner.sent : k.serial # jobs[x].serial
                  /\ jobs[x].ref # None => jobs[x].ref \in DOMAIN index'
    <3>1. CASE x = c
      BY <1>1, <3>1
    <3>2. CASE x # c
      <4>1. jobs'[x] = jobs[x] /\ jobs[x].serial # jobs[c].serial
        BY <1>1, <2>1, <3>2 DEF PortInv, SerialInv
      <4> QED BY <2>1, <4>1, RefsKnown
    <3> QED BY <3>1, <3>2
  <2> QED BY <1>2, <2>1, JobsKept
<1>4. SentInv'
  BY <1>2, SentKept
<1>5. SerialInv'
  <2>1. \A x \in Clients : jobs'[x] # None =>
          jobs[x] # None /\ jobs'[x].serial = jobs[x].serial
    BY <1>1
  <2> QED BY <2>1 DEF PortInv, SerialInv
<1>6. RefusedIsUnsent'
  <2>1. \A a \in told : a.serial # j.serial
    BY DEF PortInv, SerialInv
  <2> QED BY <2>1 DEF PortInv, RefusedIsUnsent
<1>7. BookInv'
  BY DEF PortInv, BookInv
<1>8. DoneInv'
  BY DEF PortInv, DoneInv, Later, Now
<1>9. IndexInv'
  BY DEF PortInv, IndexInv, Known
<1> QED BY <1>3, <1>4, <1>5, <1>6, <1>7, <1>8, <1>9 DEF PortInv

(* A request: what is admitted has its grant, its scope and its reference. *)
LEMMA ReceiveKeeps ==
  ASSUME PortInv, serial < MaxRequests,
         NEW c \in Clients, NEW op \in Ops, NEW scope \in Scopes, NEW ref \in References,
         NEW g \in DOMAIN Grants, NEW size \in AllSizes, Receive(c, op, scope, ref, g, size)
  PROVE  PortInv'
<1> DEFINE step == IF NeedsAdmission(op) THEN "asking" ELSE "ready"
           j == [serial |-> serial + 1, op |-> op, scope |-> scope, ref |-> ref, grant |-> g,
                 now |-> clock, epoch |-> book.epoch, size |-> size, call |-> None,
                 asked |-> 0, step |-> step]
<1>1. /\ UNCHANGED <<version, book, clock, owner, index, told, shown, revokedAt>>
      /\ jobs[c] = None /\ serial' = serial + 1 /\ jobs' = [jobs EXCEPT ![c] = j]
      /\ (op \in MemoryOps) = (c \in MemoryClients)
      /\ Resolved(op, scope, ref) /\ Authorized(g, op, scope, clock)
  BY DEF Receive
<1>2. /\ serial \in Nat /\ serial + 1 \in Serials /\ serial + 1 \in 0..MaxRequests
      /\ clock \in Nat /\ book.epoch \in Nat
  BY PortAssumption DEF PortInv, Typed, Serials
<1>3. ref \in Nat \cup {None}
  <2>1. DOMAIN owner.issued = 1..Len(owner.issued) /\ Len(owner.issued) \in Nat
    BY DEF PortInv, Typed, Owners
  <2> QED BY <2>1 DEF References
<1>4. step \in {"asking", "ready"} /\ (step = "ready" => ~NeedsAdmission(op))
  OBVIOUS
<1>5. /\ j.serial = serial + 1 /\ j.op = op /\ j.scope = scope /\ j.ref = ref /\ j.grant = g
      /\ j.now = clock /\ j.epoch = book.epoch /\ j.asked = 0 /\ j.step = step
  OBVIOUS
<1>6. j \in Jobs
  <2> HIDE DEF step
  <2> QED BY <1>2, <1>3, <1>4 DEF Jobs, Steps
<1> HIDE DEF j, step
<1>7. Typed'
  <2>1. jobs' \in [Clients -> Jobs \cup {None}]
    BY <1>1, <1>6 DEF PortInv, Typed
  <2>2. serial' \in 0..MaxRequests
    BY <1>1, <1>2
  <2> QED BY <1>1, <2>1, <2>2 DEF PortInv, Typed
<1>8. /\ jobs'[c] = j
      /\ \A x \in Clients : x # c => jobs'[x] = jobs[x]
  BY <1>1 DEF PortInv, Typed
<1>9. Later(Now, Now')
  BY <1>1, <1>2 DEF Later, Now
<1>10. IndexIssued'
  BY <1>1, RefsKnown DEF IndexIssued
<1>11. \A k \in owner.sent : k.serial # serial + 1
  <2>1. \A k \in owner.sent : k.serial <= serial /\ k.serial \in Nat
    BY DEF PortInv, Typed, Owners, SentInv, CallSound, Now, SentCalls, Serials
  <2> QED BY <1>2, <2>1
<1>12. JobSound(c, j, Now')
  <2>0. /\ Now'.version = version /\ Now'.serial = serial + 1 /\ Now'.epoch = book.epoch
        /\ Now'.dates = revokedAt /\ Now'.sent = owner.sent /\ Now'.issued = owner.issued
        /\ Now'.known = DOMAIN index
    BY <1>1 DEF Now
  <2>1. revokedAt[g] = 0
    BY <1>1 DEF Authorized, PortInv, BookInv
  <2>2. Authority(j, Now')
    BY <1>1, <1>2, <1>5, <2>0, <2>1 DEF Authority, Authorized, Stood
  <2>3. ref # None => ref \in DOMAIN index /\ index[ref] = scope /\ op \notin MemoryOps
    <3>1. op \in MemoryOps => Needs(op) = None
      <4>1. op \in MemoryOps => op # "session.operation" /\ op \in MemoryOps \cup Unbound
        BY DEF MemoryOps
      <4> QED BY <4>1 DEF Needs
    <3>2. Resolved(op, scope, ref)
      BY <1>1
    <3>3. ref # None => Needs(op) # None /\ ref \in Known(Needs(op)) /\ index[ref] = scope
      BY <3>2, Zenon DEF Resolved
    <3>4. \A kind : Known(kind) \subseteq DOMAIN index
      BY DEF Known
    <3> QED BY <3>1, <3>3, <3>4, Zenon
  <2>4. OwnReference(j, Now')
    BY <1>5, <2>0, <2>3, RefsKnown DEF OwnReference, PortInv, IndexInv
  <2>5. j.ref # None => c = SessionClient /\ j.ref \in Now'.known
    BY <1>1, <1>5, <2>0, <2>3 DEF Clients
  <2>6. j.step = "ready" /\ Queried(j, Now') => WithinProfile(j)
    BY <1>4, <1>5, <2>0 DEF NeedsAdmission, Queried
  <2>7. j.serial <= Now'.serial
    BY <1>2, <1>5, <2>0
  <2> QED BY <1>4, <1>5, <1>11, <2>0, <2>2, <2>4, <2>5, <2>6, <2>7 DEF JobSound
<1>13. JobInv'
  <2>1. \A x \in Clients : jobs'[x] # None =>
          \/ JobSound(x, jobs'[x], Now')
          \/ /\ jobs'[x] = jobs[x]
             /\ \A k \in owner'.sent \ owner.sent : k.serial # jobs[x].serial
             /\ jobs[x].ref # None => jobs[x].ref \in DOMAIN index'
    BY <1>1, <1>8, <1>12, RefsKnown
  <2> QED BY <1>7, <1>9, <1>10, <2>1, JobsKept
<1>14. SentInv'
  <2>1. \A k \in owner'.sent \ owner.sent :
          CallSound(k, Now') /\ \A k2 \in owner'.sent : k2.serial = k.serial => k2 = k
    BY <1>1
  <2> QED BY <1>7, <1>9, <1>10, <2>1, SentKept
<1>15. SerialInv'
  <2>1. \A x \in Clients : jobs[x] # None => jobs[x].serial \in Nat /\ jobs[x].serial <= serial
    BY DEF PortInv, Typed, Jobs, Serials, JobInv, JobSound, Now
  <2>2. \A x \in Clients : jobs[x] # None => jobs[x].serial # serial + 1
    BY <1>2, <2>1
  <2>3. \A a \in told : a.serial \in Nat /\ a.serial <= serial + 1 /\ a.serial # serial + 1
    <3> SUFFICES ASSUME NEW a \in told  PROVE a.serial \in Nat /\ a.serial <= serial + 1 /\ a.serial # serial + 1
      OBVIOUS
    <3>1. a.serial \in Nat /\ a.serial <= serial
      BY DEF PortInv, SerialInv
    <3> QED BY <1>2, <3>1
  <2>4. \A c1, c2 \in Clients :
          jobs'[c1] # None /\ jobs'[c2] # None /\ jobs'[c1].serial = jobs'[c2].serial => c1 = c2
    BY <1>5, <1>8, <2>2 DEF PortInv, SerialInv
  <2>5. \A a \in told : \A x \in Clients : jobs'[x] # None => jobs'[x].serial # a.serial
    BY <1>5, <1>8, <2>3 DEF PortInv, SerialInv
  <2> QED BY <1>1, <2>3, <2>4, <2>5 DEF SerialInv
<1>16. RefusedIsUnsent'
  BY <1>1 DEF PortInv, RefusedIsUnsent
<1>17. BookInv' /\ DoneInv'
  BY <1>1 DEF PortInv, BookInv, DoneInv
<1>18. IndexInv'
  BY <1>1 DEF PortInv, IndexInv, Known
<1> QED BY <1>7, <1>13, <1>14, <1>15, <1>16, <1>17, <1>18 DEF PortInv

(* The descriptor is asked for, and the query is admitted or refused.      *)
LEMMA AskKeeps ==
  ASSUME PortInv, NEW c \in Clients, Ask(c)
  PROVE  PortInv'
<1>1. /\ jobs[c] # None /\ jobs[c].step = "asking"
      /\ UNCHANGED <<version, book, clock, owner, index, serial, shown, revokedAt>>
  BY DEF Ask, Step
<1>2. CASE \E outcome : Answer(c, outcome)
  BY <1>1, <1>2, AnswerKeeps
<1>3. CASE /\ \E answer : Admitted(jobs[c], answer)
           /\ jobs' = [jobs EXCEPT ![c].step = "ready", ![c].asked = book.epoch]
           /\ UNCHANGED told
  <2> DEFINE j == [jobs[c] EXCEPT !.step = "ready", !.asked = book.epoch]
  <2>1. jobs[c] \in Jobs /\ book.epoch \in Nat
    BY <1>1 DEF PortInv, Typed
  <2>2. j \in Jobs
    BY <2>1 DEF Jobs, Steps
  <2>3. /\ j.serial = jobs[c].serial /\ j.op = jobs[c].op /\ j.scope = jobs[c].scope
        /\ j.ref = jobs[c].ref /\ j.grant = jobs[c].grant /\ j.now = jobs[c].now
        /\ j.epoch = jobs[c].epoch /\ j.size = jobs[c].size
        /\ j.asked = book.epoch /\ j.step = "ready"
    BY <2>1 DEF Jobs
  <2>4. jobs' = [jobs EXCEPT ![c] = j]
    BY <1>3
  <2> HIDE DEF j
  <2>5. Typed'
    BY <1>1, <2>2, <2>4 DEF PortInv, Typed
  <2>6. Later(Now, Now')
    BY <1>1, LaterAlike
  <2>7. JobSound(c, j, Now')
    <3>0. Now' = Now
      BY <1>1 DEF Now
    <3>1. JobSound(c, jobs[c], Now)
      BY <1>1 DEF PortInv, JobInv
    <3>2. Authority(j, Now) /\ OwnReference(j, Now)
      BY <2>1, <2>3, <3>1, NowFields DEF JobSound, Authority, OwnReference, Stood
    <3>3. WithinProfile(j)
      <4>1. PICK answer : AdmitQuery(Trust, jobs[c].scope, answer, Query(jobs[c].size)) = "ok"
        BY <1>3 DEF Admitted
      <4>2. /\ Trust.descriptor.enabled
            /\ Query(jobs[c].size)["max_results"] <= Trust.descriptor.limits["max_results"]
        BY <4>1, AdmittedWithin
      <4>3. Trust.descriptor = Trusted
        BY DEF Trust
      <4>4. Query(jobs[c].size)["max_results"] = jobs[c].size
        BY DEF Query
      <4> QED BY <2>3, <4>2, <4>3, <4>4 DEF WithinProfile
    <3> QED BY <1>1, <2>3, <3>0, <3>1, <3>2, <3>3 DEF JobSound
  <2>8. \A k \in owner'.sent \ owner.sent :
          k.serial = j.serial /\ CallSound(k, Now')
            /\ \A k2 \in owner'.sent : k2.serial = k.serial => k2 = k
    BY <1>1
  <2> QED BY <1>1, <1>3, <2>2, <2>3, <2>4, <2>5, <2>6, <2>7, <2>8, MoveKeeps
<1> QED BY <1>2, <1>3, Zenon DEF Ask

(* What is sent carries the authority of its request at the epoch it names. *)
LEMMA DeliverKeeps ==
  ASSUME PortInv, NEW c \in Clients, jobs[c] # None, jobs[c].step = "ready",
         NEW epoch \in Nat, Deliver(c, epoch), epoch <= book.epoch,
         Stood(jobs[c], epoch, Now),
         NeedsAdmission(jobs[c].op) => Stood(jobs[c], jobs[c].asked, Now),
         UNCHANGED <<version, book, clock, index, serial, shown, revokedAt>>
  PROVE  PortInv'
<1> DEFINE call == CallOf(jobs[c], epoch)
           j == [jobs[c] EXCEPT !.step = "called", !.epoch = epoch, !.call = call]
<1>1. /\ owner' = [owner EXCEPT !.sent = owner.sent \cup {call}]
      /\ jobs' = [jobs EXCEPT ![c] = j] /\ UNCHANGED told
  BY DEF Deliver
<1>2. jobs[c] \in Jobs /\ owner \in Owners
  BY DEF PortInv, Typed
<1>3. JobSound(c, jobs[c], Now)
  BY DEF PortInv, JobInv
<1>4. \A k \in owner.sent : k.serial # jobs[c].serial
  BY <1>3, NowFields DEF JobSound
<1>5. /\ call.serial = jobs[c].serial /\ call.op = jobs[c].op /\ call.scope = jobs[c].scope
      /\ call.ref = jobs[c].ref /\ call.grant = jobs[c].grant /\ call.now = jobs[c].now
      /\ call.epoch = epoch /\ call.size = jobs[c].size /\ call.asked = jobs[c].asked
      /\ call.try = 1
  <2>1. {k \in owner.sent : k.serial = jobs[c].serial} = {}
    BY <1>4
  <2> DEFINE same == {k \in owner.sent : k.serial = jobs[c].serial}
  <2> HIDE DEF same
  <2>2. Cardinality(same) = 0
    BY <2>1, FS_EmptySet DEF same
  <2>3. Cardinality(same) + 1 = 1
    BY <2>2
  <2> QED BY <2>3 DEF CallOf, same
<1>6. call \in SentCalls
  <2>1. call = [serial |-> jobs[c].serial, op |-> jobs[c].op, scope |-> jobs[c].scope,
                ref |-> jobs[c].ref, grant |-> jobs[c].grant, now |-> jobs[c].now,
                epoch |-> epoch, size |-> jobs[c].size, asked |-> jobs[c].asked, try |-> 1]
    BY <1>5 DEF CallOf
  <2> HIDE DEF call
  <2> QED BY <1>2, <2>1 DEF Jobs, SentCalls
<1> HIDE DEF call
<1>7. j \in Jobs
  BY <1>2, <1>6 DEF Jobs, Steps
<1>8. /\ j.serial = jobs[c].serial /\ j.op = jobs[c].op /\ j.scope = jobs[c].scope
      /\ j.ref = jobs[c].ref /\ j.grant = jobs[c].grant /\ j.now = jobs[c].now
      /\ j.epoch = epoch /\ j.size = jobs[c].size /\ j.asked = jobs[c].asked
      /\ j.step = "called" /\ j.call = call
  BY <1>2 DEF Jobs
<1> HIDE DEF j
<1>9. /\ owner' \in Owners /\ owner'.sent = owner.sent \cup {call}
      /\ owner'.issued = owner.issued /\ owner'.done = owner.done
  <2> DEFINE sent == owner.sent \cup {call}
  <2>1. sent \in SUBSET SentCalls
    BY <1>2, <1>6 DEF Owners
  <2> HIDE DEF sent
  <2>2. owner' = [owner EXCEPT !.sent = sent]
    BY <1>1 DEF sent
  <2> QED BY <1>2, <2>1, <2>2 DEF Owners, sent
<1>10. Typed'
  BY <1>1, <1>7, <1>9 DEF PortInv, Typed
<1>11. Later(Now, Now')
  BY <1>9, LaterAlike
<1>12. /\ Now'.version = version /\ Now'.serial = serial /\ Now'.epoch = book.epoch
       /\ Now'.dates = revokedAt /\ Now'.sent = owner.sent \cup {call}
       /\ Now'.issued = owner.issued /\ Now'.known = DOMAIN index
  BY <1>9 DEF Now
<1>13. /\ Authority(j, Now') /\ OwnReference(j, Now')
       /\ Authority(call, Now') /\ OwnReference(call, Now')
       /\ NeedsAdmission(call.op) => Stood(call, call.asked, Now')
  BY <1>3, <1>5, <1>8, <1>12, NowFields DEF JobSound, Authority, OwnReference, Stood
<1>14. JobSound(c, j, Now')
  BY <1>3, <1>5, <1>8, <1>12, <1>13, NowFields DEF JobSound
<1>15. CallSound(call, Now')
  <2>1. Queried(call, Now') => NeedsAdmission(call.op) /\ Queried(jobs[c], Now)
    BY <1>5, <1>12, NowFields DEF Queried, NeedsAdmission
  <2>2. Queried(jobs[c], Now) => WithinProfile(call)
    BY <1>3, <1>5 DEF JobSound, WithinProfile
  <2>3. call.serial <= Now'.serial
    BY <1>3, <1>5, <1>12, NowFields DEF JobSound
  <2> QED BY <1>5, <1>13, <2>1, <2>2, <2>3 DEF CallSound
<1>16. \A k \in owner'.sent \ owner.sent :
         k.serial = j.serial /\ CallSound(k, Now')
           /\ \A k2 \in owner'.sent : k2.serial = k.serial => k2 = k
  BY <1>4, <1>5, <1>8, <1>9, <1>15
<1> QED BY <1>1, <1>7, <1>8, <1>9, <1>10, <1>11, <1>14, <1>16, MoveKeeps

(* The call goes to the owner under its own epoch, or is refused unsent.   *)
LEMMA SendKeeps ==
  ASSUME PortInv, NEW c \in Clients, Send(c)
  PROVE  PortInv'
<1>1. /\ jobs[c] # None /\ jobs[c].step = "ready"
      /\ UNCHANGED <<version, book, clock, index, serial, shown, revokedAt>>
  BY DEF Send, Step
<1>2. jobs[c] \in Jobs /\ JobSound(c, jobs[c], Now) /\ book.epoch \in Nat
  BY <1>1 DEF PortInv, Typed, JobInv
<1>3. CASE /\ NeedsAdmission(jobs[c].op)
           /\ Authorized(jobs[c].grant, jobs[c].op, jobs[c].scope, jobs[c].now)
           /\ Deliver(c, book.epoch)
  <2>1. revokedAt[jobs[c].grant] = 0
    BY <1>2, <1>3 DEF Authorized, PortInv, BookInv, Jobs
  <2>2. Stood(jobs[c], book.epoch, Now) /\ Stood(jobs[c], jobs[c].asked, Now)
    BY <2>1, NowFields DEF Stood
  <2>3. book.epoch <= book.epoch
    BY <1>2
  <2> QED BY <1>1, <1>2, <1>3, <2>2, <2>3, DeliverKeeps
<1>4. CASE Answer(c, "denied") /\ UNCHANGED owner
  BY <1>1, <1>4, AnswerKeeps
<1>5. CASE ~NeedsAdmission(jobs[c].op) /\ Deliver(c, jobs[c].epoch)
  <2>1. Stood(jobs[c], jobs[c].epoch, Now) /\ jobs[c].epoch <= book.epoch
    BY <1>2, NowFields DEF JobSound, Authority
  <2>2. jobs[c].epoch \in Nat
    BY <1>2 DEF Jobs
  <2> QED BY <1>1, <1>5, <2>1, <2>2, DeliverKeeps
<1> QED BY <1>3, <1>4, <1>5, Zenon DEF Send

(* A reply or a receipt: its references enter the index, or the request is *)
(* answered without them.                                                  *)
LEMMA SettleKeeps ==
  ASSUME PortInv, NEW c \in Clients, jobs[c] # None, jobs[c].step \in {"called", "lost"},
         NEW e \in owner.done, NEW fault, e.call = jobs[c].call, Settle(c, e, fault),
         UNCHANGED <<version, book, clock, owner, serial, revokedAt>>
  PROVE  PortInv'
<1> DEFINE j == jobs[c]
           refs == IF c = SessionClient THEN e.refs ELSE {}
<1>1. jobs' = [jobs EXCEPT ![c] = None]
  BY DEF Settle
<1>2. /\ EntrySound(e, owner.issued) /\ j.call.scope = j.scope /\ j.call.ref = j.ref
      /\ j.ref # None => j.ref \in DOMAIN index
  <2>1. JobSound(c, j, Now)
    BY DEF PortInv, JobInv
  <2> QED BY <2>1, NowFields DEF PortInv, DoneInv, JobSound
<1>3. ASSUME NEW a, told' = told \cup {a}, a.serial = j.serial, ~Refused(a),
             UNCHANGED <<index, shown>>
      PROVE  PortInv'
  <2>1. IndexInv'
    BY <1>3 DEF PortInv, IndexInv, Known
  <2> QED BY <1>1, <1>3, <2>1, CloseKeeps
<1>4. CASE ~ValidReply(j.op, fault)
  <2> DEFINE a == Answered(j, "error", None, {})
  <2>1. told' = told \cup {a} /\ UNCHANGED <<index, shown>>
    BY <1>4 DEF Settle
  <2>2. a.serial = j.serial /\ ~Refused(a)
    BY DEF Answered, Refused
  <2> HIDE DEF a
  <2> QED BY <1>3, <2>1, <2>2
<1>5. CASE ValidReply(j.op, fault) /\ ~Presented(j)
  <2> DEFINE a == Answered(j, "limit", None, {})
  <2>1. told' = told \cup {a} /\ UNCHANGED <<index, shown>>
    BY <1>5 DEF Settle
  <2>2. j.op = "memory.capabilities"
    BY <1>5 DEF Presented
  <2>3. a.serial = j.serial /\ ~Refused(a)
    BY <2>2 DEF Answered, Refused
  <2> HIDE DEF a
  <2> QED BY <1>3, <2>1, <2>3
<1>6. CASE ValidReply(j.op, fault) /\ Presented(j) /\ ~Fits(refs)
  <2> DEFINE a == Answered(j, "capacity", None, {})
  <2>1. told' = told \cup {a} /\ UNCHANGED <<index, shown>>
    BY <1>6 DEF Settle
  <2>2. a.serial = j.serial /\ ~Refused(a)
    BY DEF Answered, Refused
  <2> HIDE DEF a
  <2> QED BY <1>3, <2>1, <2>2
<1>7. CASE ValidReply(j.op, fault) /\ Presented(j) /\ Fits(refs)
  <2> DEFINE a == Answered(j, "accepted", [entry |-> e, effect |-> fault = "effect"], refs)
  <2>1. /\ told' = told \cup {a} /\ index' = Entered(j.scope, refs)
        /\ shown' = shown \cup refs
    BY <1>7 DEF Settle
  <2>2. a.serial = j.serial /\ ~Refused(a)
    BY DEF Answered, Refused
  <2> HIDE DEF a
  <2>3. refs \subseteq DOMAIN owner.issued /\ \A r \in refs : owner.issued[r].scope = j.scope
    BY <1>2 DEF EntrySound
  <2>4. \A r1, r2 \in OfKind(refs, "binding") \ DOMAIN index : r1 = r2
    <3>1. OfKind(refs, "binding") \ DOMAIN index \subseteq NewBindings(e, owner.issued)
      BY <1>2 DEF OfKind, NewBindings
    <3> QED BY <1>2, <3>1 DEF EntrySound
  <2> DEFINE scope == j.scope
  <2> HIDE DEF refs, scope
  <2>5. /\ index' = Entered(scope, refs) /\ owner' = owner /\ refs \subseteq DOMAIN owner.issued
        /\ \A r \in refs : owner.issued[r].scope = scope
    BY <2>1, <2>3 DEF scope
  <2>6. /\ DOMAIN index' = DOMAIN index \cup refs /\ IndexIssued'
        /\ \A r \in DOMAIN index' : index'[r] = owner'.issued[r].scope
        /\ \A kind : Known(kind)' = Known(kind) \cup OfKind(refs, kind)
    BY <2>5, EnteredFields, ZenonT(30)
  <2>7. Fits(refs)
    BY <1>7 DEF refs
  <2>8. Cardinality(Known("binding")') <= MaxBindings
    <3>1. CASE OfKind(refs, "binding") \subseteq DOMAIN index
      <4>1. OfKind(refs, "binding") \subseteq Known("binding")
        BY <3>1 DEF OfKind, Known
      <4>2. Known("binding")' = Known("binding")
        BY <2>6, <4>1
      <4> QED BY <4>2 DEF PortInv, IndexInv
    <3>2. CASE ~(OfKind(refs, "binding") \subseteq DOMAIN index)
      <4>1. Cardinality(Known("binding")) < MaxBindings
        BY <2>7, <3>2 DEF Fits, FitsBindings
      <4>2. PICK x \in OfKind(refs, "binding") : x \notin DOMAIN index
        BY <3>2
      <4>3. Known("binding") \cup OfKind(refs, "binding") = Known("binding") \cup {x}
        BY <2>4, <4>2 DEF OfKind, Known
      <4> QED BY <2>6, <4>1, <4>3, KnownFinite, OneMore, PortAssumption
    <3> QED BY <3>1, <3>2
  <2>9. Cardinality(Known("operation")') <= MaxOperations
    BY <2>6, <2>7 DEF Fits
  <2>10. IndexInv'
    <3>1. shown' \subseteq DOMAIN index'
      BY <2>1, <2>6 DEF PortInv, IndexInv, refs
    <3> QED BY <2>6, <2>8, <2>9, <3>1 DEF IndexInv, IndexIssued
  <2>11. DOMAIN index \subseteq DOMAIN index'
    BY <2>6
  <2> QED BY <1>1, <2>1, <2>2, <2>10, <2>11, CloseKeeps
<1> QED BY <1>4, <1>5, <1>6, <1>7

(* A lost answer is looked up once, and the request closes.                *)
LEMMA LookupKeeps ==
  ASSUME PortInv, NEW c \in Clients, Lookup(c)
  PROVE  PortInv'
<1>1. /\ jobs[c] # None /\ jobs[c].step = "lost"
      /\ UNCHANGED <<version, book, clock, owner, serial, revokedAt>>
  BY DEF Lookup, Step
<1>2. CASE /\ \E outcome \in {"unknown", "unsupported", "error"} : Answer(c, outcome)
           /\ UNCHANGED <<index, shown>>
  BY <1>1, <1>2, AnswerKeeps
<1>3. CASE \E e \in owner.done : \E fault : e.call = jobs[c].call /\ Settle(c, e, fault)
  BY <1>1, <1>3, SettleKeeps
<1> QED BY <1>2, <1>3, Zenon DEF Lookup

(* The answer of a call arrives and closes the request, or is lost.        *)
LEMMA ReturnKeeps ==
  ASSUME PortInv, NEW c \in Clients, Return(c)
  PROVE  PortInv'
<1>1. /\ jobs[c] # None /\ jobs[c].step = "called"
      /\ UNCHANGED <<version, book, clock, owner, serial, revokedAt>>
  BY DEF Return, Step
<1>2. CASE /\ \E outcome \in {"unknown", "unsupported", "error"} : Answer(c, outcome)
           /\ UNCHANGED <<index, shown>>
  BY <1>1, <1>2, AnswerKeeps
<1>3. CASE \E e \in owner.done : \E fault : e.call = jobs[c].call /\ Settle(c, e, fault)
  BY <1>1, <1>3, SettleKeeps
<1>4. CASE jobs' = [jobs EXCEPT ![c].step = "lost"] /\ UNCHANGED <<told, index, shown>>
  <2> DEFINE j == [jobs[c] EXCEPT !.step = "lost"]
  <2>1. jobs[c] \in Jobs
    BY <1>1 DEF PortInv, Typed
  <2>2. j \in Jobs
    BY <2>1 DEF Jobs, Steps
  <2>3. /\ j.serial = jobs[c].serial /\ j.op = jobs[c].op /\ j.scope = jobs[c].scope
        /\ j.ref = jobs[c].ref /\ j.grant = jobs[c].grant /\ j.now = jobs[c].now
        /\ j.epoch = jobs[c].epoch /\ j.size = jobs[c].size /\ j.call = jobs[c].call
        /\ j.asked = jobs[c].asked /\ j.step = "lost"
    BY <2>1 DEF Jobs
  <2>4. jobs' = [jobs EXCEPT ![c] = j]
    BY <1>4
  <2> HIDE DEF j
  <2>5. Typed'
    BY <1>1, <2>2, <2>4 DEF PortInv, Typed
  <2>6. Later(Now, Now')
    BY <1>1, LaterAlike
  <2>7. JobSound(c, j, Now')
    <3>0. Now' = Now
      BY <1>1, <1>4 DEF Now
    <3>1. JobSound(c, jobs[c], Now)
      BY <1>1 DEF PortInv, JobInv
    <3>2. Authority(j, Now) /\ OwnReference(j, Now)
      BY <2>3, <3>1 DEF JobSound, Authority, OwnReference, Stood
    <3> QED BY <1>1, <2>3, <3>0, <3>1, <3>2 DEF JobSound
  <2>8. \A k \in owner'.sent \ owner.sent :
          k.serial = j.serial /\ CallSound(k, Now')
            /\ \A k2 \in owner'.sent : k2.serial = k.serial => k2 = k
    BY <1>1
  <2> QED BY <1>1, <1>4, <2>2, <2>3, <2>4, <2>5, <2>6, <2>7, <2>8, MoveKeeps
<1> QED BY <1>2, <1>3, <1>4, Zenon DEF Return

-----------------------------------------------------------------------------
(* The invariant.                                                          *)

(* The port starts sound: nothing is sent and nothing is open.             *)
LEMMA PortInit == Init => PortInv
<1> SUFFICES ASSUME Init  PROVE PortInv
  OBVIOUS
<1>1. /\ version \in Versions /\ book = [revoked |-> {}, epoch |-> 0] /\ clock = 0
      /\ owner = InitOwner /\ index = <<>> /\ jobs = [c \in Clients |-> None]
      /\ serial = 0 /\ told = {} /\ shown = {} /\ revokedAt = [g \in DOMAIN Grants |-> 0]
  BY DEF Init
<1>2. /\ owner \in Owners /\ owner.sent = {} /\ owner.done = {} /\ owner.issued = <<>>
  <2>1. <<>> \in Seq(Issued)
    OBVIOUS
  <2> QED BY <1>1, <2>1, PortAssumption DEF InitOwner, Owners
<1>3. book.revoked = {} /\ book.epoch = 0 /\ IsFiniteSet({}) /\ Cardinality({}) = 0
  BY <1>1, FS_EmptySet
<1>4. Typed
  <2>1. book \in [revoked : SUBSET DOMAIN Grants, epoch : Nat]
    BY <1>1
  <2>2. clock \in 0..MaxEvents /\ serial \in 0..MaxRequests
    BY <1>1, PortAssumption
  <2> QED BY <1>1, <1>2, <1>3, <2>1, <2>2 DEF Typed
<1>5. BookInv
  BY <1>1, <1>3 DEF BookInv
<1>6. JobInv /\ SerialInv /\ RefusedIsUnsent
  BY <1>1 DEF JobInv, SerialInv, RefusedIsUnsent
<1>7. SentInv /\ DoneInv
  BY <1>2 DEF SentInv, DoneInv
<1>8. IndexInv
  <2>1. DOMAIN index = {}
    BY <1>1
  <2>2. Known("binding") = {} /\ Known("operation") = {}
    BY <2>1 DEF Known
  <2>3. Cardinality(Known("binding")) <= MaxBindings
    BY <1>3, <2>2, PortAssumption
  <2>4. Cardinality(Known("operation")) <= MaxOperations
    BY <1>3, <2>2, PortAssumption
  <2> QED BY <1>1, <2>1, <2>3, <2>4 DEF IndexInv
<1> QED BY <1>4, <1>5, <1>6, <1>7, <1>8 DEF PortInv

(* Every step of the port keeps it sound.                                  *)
LEMMA PortStep == PortInv /\ [Next]_vars => PortInv'
<1> SUFFICES ASSUME PortInv, [Next]_vars  PROVE PortInv'
  OBVIOUS
<1>1. CASE UNCHANGED vars
  BY <1>1 DEF vars, PortInv, Typed, BookInv, JobInv, SentInv, SerialInv, RefusedIsUnsent,
              DoneInv, IndexInv, Known, Now
<1>2. ASSUME serial < MaxRequests, NEW c \in Clients, NEW op \in Ops, NEW scope \in Scopes,
             NEW ref \in References, NEW g \in DOMAIN Grants,
             NEW size \in IF op = "memory.query" THEN Sizes ELSE {0},
             Receive(c, op, scope, ref, g, size)
      PROVE  PortInv'
  <2>1. size \in AllSizes
    BY DEF AllSizes
  <2> QED BY <1>2, <2>1, ReceiveKeeps
<1>3. ASSUME NEW c \in Clients, Serve(c)  PROVE PortInv'
  BY <1>3, AskKeeps, SendKeeps, ReturnKeeps, LookupKeeps DEF Serve
<1>4. CASE Next
  BY <1>2, <1>3, <1>4, RevokeKeeps, TickKeeps, OwnerChangesKeeps, PerformKeeps,
     RestartKeeps, RegisterKeeps, Zenon DEF Next
<1> QED BY <1>1, <1>4

(* The inductive invariant of the port: books, requests, calls, entries    *)
(* and index stay sound, whatever is revoked, lost, repeated or restarted. *)
THEOREM PortIsSound == Spec => []PortInv
BY PortInit, PortStep, PTL DEF Spec

(* The invariant gives the first promise of the port.                      *)
LEMMA ImpliesAuthorized == PortInv => CallsAreAuthorized
<1> SUFFICES ASSUME PortInv  PROVE CallsAreAuthorized
  OBVIOUS
<1>1. ASSUME NEW k \in owner.sent  PROVE CallSound(k, Now)
  BY DEF PortInv, SentInv
<1>2. RevocationStopsQuery
  BY <1>1, NowFields DEF RevocationStopsQuery, CallSound, Queried, Stood
<1>3. EpochDatesAuthority
  BY <1>1, NowFields DEF EpochDatesAuthority, CallSound, Authority, Stood
<1>4. QueryWithinTrust
  BY <1>1, NowFields DEF QueryWithinTrust, CallSound, Queried, WithinProfile
<1> QED BY <1>2, <1>3, <1>4 DEF CallsAreAuthorized, PortInv

(* And the second.                                                         *)
LEMMA ImpliesOwn == PortInv => ReferencesAreOwn
<1> SUFFICES ASSUME PortInv  PROVE ReferencesAreOwn
  OBVIOUS
<1>1. ASSUME NEW c \in Clients, jobs[c] # None
      PROVE  jobs[c].step \in {"asking", "ready", "called", "lost"}
  BY <1>1 DEF PortInv, Typed, Jobs, Steps
<1>2. TypeOK
  BY <1>1 DEF TypeOK, PortInv, Typed, IndexInv
<1>3. \A k \in owner.sent : k.ref # None => owner.issued[k.ref].scope = k.scope
  BY NowFields DEF PortInv, SentInv, CallSound, OwnReference
<1> QED BY <1>2, <1>3 DEF ReferencesAreOwn, NoForeignReference, AnsweredIsAddressable, PortInv,
                          IndexInv

(* memory.rs, owner.rs: what reaches the owner had its authority when it   *)
(* was sent, in time, in scope and within the configured descriptor.       *)
THEOREM PortCallsAuthorized == Spec => []CallsAreAuthorized
BY PortIsSound, ImpliesAuthorized, PTL

(* provider_session/service.rs: the bounded index gives each client its    *)
(* own references, all that answers named (what is within a list is not    *)
(* among them), and nobody else's.                                         *)
THEOREM PortReferencesOwn == Spec => []ReferencesAreOwn
BY PortIsSound, ImpliesOwn, PTL

-----------------------------------------------------------------------------
(* The port implements the at-most-once call.                              *)

(* What was performed of a serial: nothing, or its one entry.              *)
Performed ==
  \A s \in Serials :
    /\ (\A e \in owner.done : e.call.serial # s) => Performances(s) = <<>>
    /\ \A e \in owner.done : e.call.serial = s => Performances(s) = <<Receipt(e)>>

(* An entry has its serial to itself.                                      *)
LEMMA OnePerformance == PortInv => Performed
<1> SUFFICES ASSUME PortInv, NEW s \in Serials
             PROVE  /\ (\A e \in owner.done : e.call.serial # s) => Performances(s) = <<>>
                    /\ \A e \in owner.done : e.call.serial = s => Performances(s) = <<Receipt(e)>>
  BY DEF Performed
<1> DEFINE of == {e \in owner.done : e.call.serial = s}
           first(i) == Receipt(CHOOSE e \in of : e.call.try = i)
<1>1. Performances(s) = [i \in 1..Cardinality(of) |-> first(i)]
  BY DEF Performances
<1>2. ASSUME \A e \in owner.done : e.call.serial # s  PROVE Performances(s) = <<>>
  <2>1. of = {}
    BY <1>2
  <2> HIDE DEF of
  <2>2. Cardinality(of) = 0
    BY <2>1, FS_EmptySet
  <2> HIDE DEF first
  <2>3. Performances(s) = [i \in 1..0 |-> first(i)]
    BY <1>1, <2>2
  <2> QED BY <2>3
<1>3. ASSUME NEW e \in owner.done, e.call.serial = s  PROVE Performances(s) = <<Receipt(e)>>
  <2>1. \A x \in owner.done : x.call.serial = s => x = e
    BY <1>3 DEF PortInv, DoneInv, SentInv
  <2>2. of = {e}
    BY <1>3, <2>1
  <2>3. e.call.try = 1
    BY DEF PortInv, DoneInv, SentInv, CallSound
  <2> HIDE DEF of
  <2>4. Cardinality(of) = 1
    BY <2>2, FS_Singleton
  <2>5. (CHOOSE x \in of : x.call.try = 1) = e
    BY <2>2, <2>3
  <2>6. first(1) = Receipt(e)
    BY <2>5
  <2> HIDE DEF first
  <2>7. Performances(s) = [i \in 1..1 |-> first(i)]
    BY <1>1, <2>4
  <2>8. [i \in 1..1 |-> first(i)] = <<first(1)>>
    OBVIOUS
  <2> QED BY <2>6, <2>7, <2>8
<1> QED BY <1>2, <1>3

(* And has it after a step.                                                *)
LEMMA OnePerformanceNext == PortInv' => Performed'
BY OnePerformance, PTL

(* Nothing performed and nothing accepted: a stutter of the promise.       *)
LEMMA NothingTold ==
  ASSUME owner'.done = owner.done,
         told' = told \/ \E a : a.outcome # "accepted" /\ told' = told \cup {a}
  PROVE  UNCHANGED Promise!vars
<1>1. [s \in Serials |-> Performances(s)]' = [s \in Serials |-> Performances(s)]
  BY DEF Performances
<1>2. {b \in told' : b.outcome = "accepted"} = {b \in told : b.outcome = "accepted"}
  OBVIOUS
<1>3. AcceptedAnswers' = AcceptedAnswers
  BY <1>2 DEF AcceptedAnswers
<1> QED BY <1>1, <1>3 DEF Promise!vars

(* What an answer that was not accepted tells.                             *)
LEMMA AnswerTold ==
  ASSUME NEW c, NEW outcome, outcome # "accepted", Answer(c, outcome)
  PROVE  \E a : a.outcome # "accepted" /\ told' = told \cup {a}
BY DEF Answer, Answered

(* The owner performs a call: the promise's Perform of its serial.         *)
LEMMA PerformPromised ==
  ASSUME PortInv, PortInv', NEW call, Perform(call)
  PROVE  Promise!Next
<1>1. /\ call \in owner.sent /\ (\A e \in owner.done : e.call # call) /\ UNCHANGED told
  BY DEF Perform, Done
<1>2. PICK entry : entry.call = call /\ owner'.done = owner.done \cup {entry}
  <2>1. PICK refs :
          owner'.done =
            owner.done \cup {[call |-> call, refs |-> refs, within |-> Within(call)]}
    <3>1. owner \in Owners
      BY DEF PortInv, Typed
    <3> QED BY <3>1 DEF Perform, Owners
  <2> QED BY <2>1
<1>3. call \in SentCalls
  BY <1>1 DEF PortInv, Typed, Owners
<1> DEFINE s == call.serial
           r == Receipt(entry)
<1>4. s \in Serials /\ call.op \in Ops
  BY <1>3 DEF SentCalls
<1>5. \A e \in owner.done : e.call.serial # s
  BY <1>1 DEF PortInv, DoneInv, SentInv
<1>6. Performances(s) = <<>>
  BY <1>4, <1>5, OnePerformance DEF Performed
<1>7. Performances(s)' = <<r>>
  <2>1. entry \in owner'.done /\ entry.call.serial = s
    BY <1>2
  <2> HIDE DEF s, r
  <2>2. Performed'
    BY OnePerformanceNext
  <2> QED BY <1>4, <2>1, <2>2 DEF Performed, r
<1>8. \A x \in Serials : x # s => Performances(x)' = Performances(x)
  <2> SUFFICES ASSUME NEW x \in Serials, x # s
               PROVE  Performances(x)' = Performances(x)
    OBVIOUS
  <2> DEFINE before == {e \in owner.done : e.call.serial = x}
             after  == {e \in owner'.done : e.call.serial = x}
             order(S) == [i \in 1..Cardinality(S) |-> Receipt(CHOOSE e \in S : e.call.try = i)]
  <2>1. after = before
    BY <1>2
  <2>2. Performances(x) = order(before) /\ Performances(x)' = order(after)
    BY DEF Performances, Receipt
  <2> HIDE DEF before, after, order
  <2> QED BY <2>1, <2>2
<1>9. r = [call |-> call.op, result |-> s]
  BY <1>2 DEF Receipt
<1> HIDE DEF s, r
<1>10. [x \in Serials |-> Performances(x)]'
         = [[x \in Serials |-> Performances(x)] EXCEPT ![s] = <<r>>]
  BY <1>4, <1>7, <1>8
<1>11. AcceptedAnswers' = AcceptedAnswers
  BY <1>1 DEF AcceptedAnswers
<1>12. Promise!Perform(s, call.op, s)
  BY <1>4, <1>6, <1>9, <1>10, <1>11 DEF Promise!Perform
<1> QED BY <1>4, <1>12 DEF Promise!Next

(* An accepted answer tells what was performed of its own serial.          *)
LEMMA SettlePromised ==
  ASSUME PortInv, NEW c \in Clients, jobs[c] # None, jobs[c].step \in {"called", "lost"},
         NEW e \in owner.done, NEW fault, e.call = jobs[c].call, Settle(c, e, fault),
         owner' = owner
  PROVE  [Promise!Next]_Promise!vars
<1> DEFINE j == jobs[c]
           refs == IF c = SessionClient THEN e.refs ELSE {}
<1>1. CASE \E outcome : outcome # "accepted" /\ told' = told \cup {Answered(j, outcome, None, {})}
  BY <1>1, NothingTold DEF Answered
<1>2. CASE told' = told \cup {Answered(j, "accepted", [entry |-> e, effect |-> fault = "effect"], refs)}
  <2> DEFINE a == Answered(j, "accepted", [entry |-> e, effect |-> fault = "effect"], refs)
             s == j.serial
             r == Receipt(e)
  <2>1. a.serial = s /\ a.op = j.op /\ a.outcome = "accepted" /\ a.receipt.entry = e
    BY DEF Answered
  <2>2. e.call.serial = s /\ e.call.op = j.op /\ s \in Serials
    <3>1. j \in Jobs /\ JobSound(c, j, Now)
      BY DEF PortInv, Typed, JobInv
    <3> QED BY <3>1 DEF JobSound, Jobs
  <2>3. told' = told \cup {a}
    BY <1>2
  <2> HIDE DEF a
  <2>4. Performances(s) = <<r>>
    BY <2>2, OnePerformance DEF Performed
  <2>5. r.call = j.op
    BY <2>2 DEF Receipt
  <2>6. {b \in told' : b.outcome = "accepted"} = {b \in told : b.outcome = "accepted"} \cup {a}
    BY <2>1, <2>3
  <2>7. AcceptedAnswers' = AcceptedAnswers \cup {[key |-> s, call |-> j.op, receipt |-> r]}
    BY <2>1, <2>6 DEF AcceptedAnswers
  <2>8. [x \in Serials |-> Performances(x)]' = [x \in Serials |-> Performances(x)]
    BY DEF Performances
  <2> HIDE DEF s, r
  <2>9. Promise!Answer(s)
    BY <2>2, <2>4, <2>5, <2>7, <2>8 DEF Promise!Answer
  <2> QED BY <2>2, <2>9 DEF Promise!Next
<1> QED BY <1>1, <1>2 DEF Settle

(* Serving a request performs nothing, and tells what was performed.       *)
LEMMA ServePromised ==
  ASSUME PortInv, NEW c \in Clients, Serve(c)
  PROVE  [Promise!Next]_Promise!vars
<1>1. CASE Ask(c)
  BY <1>1, AnswerTold, NothingTold DEF Ask
<1>2. CASE Send(c)
  <2>1. owner'.done = owner.done
    <3>1. owner \in Owners
      BY DEF PortInv, Typed
    <3>2. owner' = owner \/ \E sent : owner' = [owner EXCEPT !.sent = sent]
      BY <1>2 DEF Send, Deliver
    <3> QED BY <3>1, <3>2 DEF Owners
  <2>2. told' = told \/ Answer(c, "denied")
    BY <1>2 DEF Send, Deliver
  <2> QED BY <2>1, <2>2, AnswerTold, NothingTold
<1>3. CASE Return(c)
  BY <1>3, AnswerTold, NothingTold, SettlePromised DEF Return, Step
<1>4. CASE Lookup(c)
  BY <1>4, AnswerTold, NothingTold, SettlePromised DEF Lookup, Step
<1> QED BY <1>1, <1>2, <1>3, <1>4 DEF Serve

(* Every step of the port is a step of the promise or a stutter.           *)
LEMMA StepPromised == PortInv /\ PortInv' /\ [Next]_vars => [Promise!Next]_Promise!vars
<1> SUFFICES ASSUME PortInv, PortInv', [Next]_vars  PROVE [Promise!Next]_Promise!vars
  OBVIOUS
<1>1. ASSUME owner'.done = owner.done, told' = told  PROVE UNCHANGED Promise!vars
  BY <1>1, NothingTold
<1>2. CASE UNCHANGED vars
  BY <1>1, <1>2 DEF vars
<1>3. CASE \E c \in Clients : \E op, scope, ref, g, size : Receive(c, op, scope, ref, g, size)
  BY <1>1, <1>3 DEF Receive
<1>4. CASE (\E g : Revoke(g)) \/ Tick \/ Restart \/ (\E r : Register(r))
  BY <1>1, <1>4 DEF Revoke, Tick, Restart, Register
<1>5. CASE OwnerChanges
  <2>1. owner \in Owners
    BY DEF PortInv, Typed
  <2> QED BY <1>1, <1>5, <2>1 DEF OwnerChanges, Owners
<1>6. CASE \E call : Perform(call)
  BY <1>6, PerformPromised
<1>7. CASE \E c \in Clients : Serve(c)
  BY <1>7, ServePromised
<1> QED BY <1>2, <1>3, <1>4, <1>5, <1>6, <1>7, Zenon DEF Next

(* Both start with nothing performed and nothing told.                     *)
LEMMA InitPromised == Init => Promise!Init
<1> SUFFICES ASSUME Init  PROVE Promise!Init
  OBVIOUS
<1>1. owner.done = {} /\ told = {}
  BY DEF Init, InitOwner
<1>2. \A s \in Serials : Performances(s) = <<>>
  <2>1. Performed
    BY PortInit, OnePerformance
  <2> QED BY <1>1, <2>1 DEF Performed
<1>3. AcceptedAnswers = {}
  BY <1>1 DEF AcceptedAnswers
<1> QED BY <1>2, <1>3 DEF Promise!Init

(* docs/decisions/0019: a request is performed at most once, and what a    *)
(* client is told was accepted is the result of its own performance.       *)
THEOREM PortImplementsCall == Spec => ImplementsAtMostOnce
<1>1. PortInv /\ PortInv' /\ [Next]_vars => [Promise!Next]_Promise!vars
  BY StepPromised
<1> QED BY <1>1, InitPromised, PortIsSound, PTL DEF Spec, ImplementsAtMostOnce, Promise!Spec

-----------------------------------------------------------------------------
(* The ceilings of the schemas.                                            *)

EntryOK(entry) ==
  /\ entry.class \in {"policy", "profile_selected", "runtime_guard"}
  /\ entry.schema \in Nat /\ entry.schema >= 1
  /\ entry.class = "policy" => entry.policy \in Nat /\ entry.policy >= entry.schema
  /\ entry.class # "policy" => entry.policy = None

(* An entry with a portable policy.                                        *)
LEMMA PolicyOK ==
  ASSUME NEW p \in Nat, NEW n \in Nat, n >= 1, p >= n
  PROVE  EntryOK(Policy(p, n))
BY DEF EntryOK, Policy

(* An entry that a profile selects, or that guards the runtime.            *)
LEMMA ProfileOK ==
  ASSUME NEW n \in Nat, n >= 1
  PROVE  EntryOK(Profile(n)) /\ EntryOK(Guard(n))
BY DEF EntryOK, Profile, Guard

(* Every limit has a ceiling, and that of the portable policy, if there is *)
(* one, is no lower than that of the schema.                               *)
LEMMA CeilingsOK ==
  ASSUME NEW s, NEW f \in DOMAIN Ceilings(s)
  PROVE  EntryOK(Ceilings(s)[f])
<1>1. \A p, n \in Nat : n >= 1 /\ p >= n => EntryOK(Policy(p, n))
  BY PolicyOK
<1>2. \A n \in Nat : n >= 1 => EntryOK(Profile(n)) /\ EntryOK(Guard(n))
  BY ProfileOK
<1>3. \A g \in DOMAIN MemoryCeilings : EntryOK(MemoryCeilings[g])
  BY <1>1, <1>2 DEF MemoryCeilings
<1>4. \A g \in DOMAIN SessionCeilings : EntryOK(SessionCeilings[g])
  BY <1>1, <1>2 DEF SessionCeilings
<1> QED BY <1>3, <1>4 DEF Ceilings

(* effective_limits.rs, validate: the class of a row adds nothing to its   *)
(* limit lying between 1 and the ceiling of the schema.                    *)
LEMMA RowWithinCeiling ==
  ASSUME NEW entry, EntryOK(entry), NEW n \in Nat
  PROVE  RowValid(Row(entry, n)) <=> n \in 1..entry.schema
<1>1. CASE entry.class = "policy" /\ entry.policy = n
  BY <1>1 DEF EntryOK, RowValid, Row, PolicyClass
<1>2. CASE entry.class = "policy" /\ entry.policy # n
  BY <1>2 DEF EntryOK, RowValid, Row, PolicyClass
<1>3. CASE entry.class # "policy"
  BY <1>3 DEF EntryOK, RowValid, Row, PolicyClass
<1> QED BY <1>1, <1>2, <1>3

(* The limits that are tried are limits.                                   *)
LimitsOf(s) == [DOMAIN Ceilings(s) -> Nat]

LEMMA ChoicesAreLimits ==
  ASSUME NEW s
  PROVE  LimitChoices(s) \subseteq LimitsOf(s)
<1> DEFINE C == Ceilings(s)
<1>1. \A f \in DOMAIN C : EntryOK(C[f])
  BY CeilingsOK
<1> DEFINE fixture == FixtureLimits(s)
<1>2. fixture \in [DOMAIN C -> Nat]
  BY <1>1 DEF FixtureLimits, EntryOK
<1>3. \A f \in DOMAIN C : Boundaries(C[f]) \subseteq Nat
  <2> TAKE f \in DOMAIN C
  <2> DEFINE e == C[f]
  <2>1. EntryOK(e)
    BY <1>1
  <2> HIDE DEF e
  <2>2. /\ e.schema \in Nat /\ e.schema - 1 \in Nat /\ e.schema + 1 \in Nat
        /\ e.policy # None => e.policy \in Nat
    BY <2>1 DEF EntryOK
  <2>3. Boundaries(e) \subseteq Nat
    BY <2>2 DEF Boundaries
  <2> QED BY <2>3 DEF e
<1> HIDE DEF C, fixture
<1>4. ASSUME NEW l \in LimitChoices(s)  PROVE l \in [DOMAIN C -> Nat]
  <2>1. CASE l = fixture
    BY <1>2, <2>1
  <2>2. CASE \E f \in Varied[s] : \E n \in Boundaries(C[f]) : l = [fixture EXCEPT ![f] = n]
    <3>1. PICK f \in Varied[s] : \E n \in Boundaries(C[f]) : l = [fixture EXCEPT ![f] = n]
      BY <2>2
    <3>2. PICK n \in Boundaries(C[f]) : l = [fixture EXCEPT ![f] = n]
      BY <3>1
    <3>3. CASE f \in DOMAIN C
      <4>1. n \in Nat
        BY <1>3, <3>2, <3>3
      <4> QED BY <1>2, <3>2, <4>1
    <3>4. CASE f \notin DOMAIN C
      <4>1. l = fixture
        BY <1>2, <3>2, <3>4
      <4> QED BY <1>2, <4>1
    <3> QED BY <3>3, <3>4
  <2>3. l \in {fixture} \cup
          UNION {{[fixture EXCEPT ![f] = n] : n \in Boundaries(C[f])} : f \in Varied[s]}
    BY <1>4, Zenon DEF LimitChoices, C, fixture
  <2> QED BY <2>1, <2>2, <2>3
<1> QED BY <1>4 DEF LimitsOf, C

-----------------------------------------------------------------------------
(* What is configured does not change; a reply keeps its form.             *)

(* A descriptor, whatever its fields.                                      *)
DescriptorForm(d) ==
  d = [surface |-> d.surface, schema |-> d.schema, owner |-> d.owner, scope |-> d.scope,
       enabled |-> d.enabled, operations |-> d.operations, pinned |-> d.pinned,
       limits |-> d.limits, digest |-> d.digest]

(* A descriptor of a surface: with limits of its fields, or the legacy     *)
(* advertisement that has none.                                            *)
DescriptorOf(d, s) ==
  /\ DescriptorForm(d) /\ d.surface = s
  /\ d.limits = <<>> \/ d.limits \in LimitsOf(s)

TrustInv ==
  LET d == trust.descriptor
  IN  /\ trust = Configured(d)
      /\ \E s \in Surfaces, enabled \in BOOLEAN :
           \E limits \in LimitChoices(s) : d = Descriptor(s, limits, enabled)
      /\ DescriptorValid(d)

ReplyInv ==
  /\ reply = [outcome |-> "accepted", scope |-> TrustedScope, epoch |-> reply.epoch,
              source |-> reply.source, record |-> reply.record, value |-> reply.value]
  /\ changes \in 0..MaxChanges
  /\ reply.epoch \in 1..changes + 1
  /\ reply.value # None => DescriptorOf(reply.value, trust.descriptor.surface)

(* The inductive invariant.                                                *)
OfferInv == TrustInv /\ ReplyInv

(* What a signed descriptor of the console's choice is.                    *)
LEMMA DescriptorFields ==
  ASSUME NEW s, NEW limits, NEW enabled
  PROVE  LET d == Descriptor(s, limits, enabled)
         IN  /\ DescriptorForm(d) /\ d.surface = s /\ d.limits = limits
             /\ d.schema = CurrentSchema(s) /\ d.enabled = enabled
<1> DEFINE scope == IF s = "context-memory" THEN TrustedScope ELSE None
           schema == CurrentSchema(s)
           u == [surface |-> s, schema |-> schema, owner |-> "sts2-harness",
                 scope |-> scope, enabled |-> enabled, operations |-> FALSE, pinned |-> TRUE,
                 limits |-> limits, digest |-> None]
           g == DescriptorDigest(u)
<1>1. Descriptor(s, limits, enabled) = [u EXCEPT !.digest = g]
  BY DEF Descriptor, Signed
<1> DEFINE no == FALSE
           yes == TRUE
<1>2. u = [surface |-> s, schema |-> schema, owner |-> "sts2-harness",
           scope |-> scope, enabled |-> enabled, operations |-> no, pinned |-> yes,
           limits |-> limits, digest |-> None]
  BY Zenon
<1> HIDE DEF scope, schema, g, no, yes, u
<1> DEFINE d == [u EXCEPT !.digest = g]
<1>3. d = [surface |-> s, schema |-> schema, owner |-> "sts2-harness",
           scope |-> scope, enabled |-> enabled, operations |-> no, pinned |-> yes,
           limits |-> limits, digest |-> g]
  BY <1>2
<1> HIDE DEF d
<1>4. DescriptorForm(d)
  BY <1>3 DEF DescriptorForm
<1>5. /\ d.surface = s /\ d.limits = limits /\ d.schema = schema /\ d.enabled = enabled
  BY <1>3
<1> QED BY <1>1, <1>4, <1>5 DEF d, schema

(* Every descriptor of a choice of limits is one of its surface.           *)
LEMMA DescriptorFromChoices ==
  ASSUME NEW s, NEW limits \in LimitChoices(s), NEW enabled
  PROVE  DescriptorOf(Descriptor(s, limits, enabled), s)
<1> DEFINE d == Descriptor(s, limits, enabled)
<1>1. limits \in LimitsOf(s)
  BY ChoicesAreLimits
<1>2. DescriptorForm(d) /\ d.surface = s /\ d.limits = limits
  BY DescriptorFields
<1> HIDE DEF d
<1>3. DescriptorOf(d, s)
  BY <1>1, <1>2 DEF DescriptorOf
<1> QED BY <1>3 DEF d

(* Signing changes the digest alone.                                       *)
LEMMA SignedForm ==
  ASSUME NEW d, DescriptorForm(d)
  PROVE  /\ DescriptorForm(Signed(d))
         /\ Signed(d).surface = d.surface /\ Signed(d).limits = d.limits
<1> DEFINE g == DescriptorDigest(d)
<1>1. Signed(d) = [d EXCEPT !.digest = g]
  BY DEF Signed
<1> HIDE DEF g
<1> QED BY <1>1 DEF DescriptorForm

(* The legacy advertisement of a descriptor has no limits.                  *)
LEMMA LegacyForm ==
  ASSUME NEW d, DescriptorForm(d)
  PROVE  DescriptorForm(ToV1(d)) /\ ToV1(d).surface = d.surface /\ ToV1(d).limits = <<>>
<1> DEFINE none == <<>>
           a == [d EXCEPT !.schema = "v1"]
           b == [a EXCEPT !.limits = none]
           c == [b EXCEPT !.digest = None]
           e == [c EXCEPT !.owner = None]
<1>1. ToV1(d) = e
  BY Zenon DEF ToV1
<1> HIDE DEF none
<1>2. DescriptorForm(a) /\ a.surface = d.surface
  BY DEF DescriptorForm
<1> HIDE DEF a
<1>3. DescriptorForm(b) /\ b.surface = d.surface /\ b.limits = none
  BY <1>2 DEF DescriptorForm
<1> HIDE DEF b
<1>4. DescriptorForm(c) /\ c.surface = d.surface /\ c.limits = none
  BY <1>3 DEF DescriptorForm
<1> HIDE DEF c
<1>5. DescriptorForm(e) /\ e.surface = d.surface /\ e.limits = none
  BY <1>4 DEF DescriptorForm
<1> QED BY <1>1, <1>5, Zenon DEF none

(* The fields of a reply published in good faith.                          *)
LEMMA PublicationFields ==
  ASSUME NEW d, NEW scope, NEW epoch
  PROVE  LET p == Publication(d, scope, epoch)
         IN  /\ p.outcome = "accepted" /\ p.scope = scope /\ p.epoch = epoch
             /\ p.source = "harness" /\ p.record = RecordOf(d) /\ p.value = d
             /\ p = [outcome |-> "accepted", scope |-> p.scope, epoch |-> p.epoch,
                     source |-> p.source, record |-> p.record, value |-> p.value]
BY DEF Publication

(* The fields of what is configured.                                       *)
LEMMA ConfiguredFields ==
  ASSUME NEW d
  PROVE  /\ Configured(d).descriptor = d /\ Configured(d).scope = TrustedScope
         /\ Configured(d).source = "harness" /\ Configured(d).epoch = 1
BY DEF Configured

(* It holds of what the console starts with.                               *)
LEMMA OfferInit ==
  ASSUME AdmissionInit
  PROVE  OfferInv
<1>1. PICK s \in Surfaces, enabled \in BOOLEAN :
        \E limits \in LimitChoices(s) :
          LET d == Descriptor(s, limits, enabled)
          IN  /\ DescriptorValid(d)
              /\ trust = Configured(d)
              /\ reply = Publication(d, TrustedScope, 1)
  BY DEF AdmissionInit
<1>2. PICK limits \in LimitChoices(s) :
          LET d == Descriptor(s, limits, enabled)
          IN  /\ DescriptorValid(d)
              /\ trust = Configured(d)
              /\ reply = Publication(d, TrustedScope, 1)
  BY <1>1
<1> DEFINE d == Descriptor(s, limits, enabled)
<1>3. DescriptorOf(d, s)
  BY DescriptorFromChoices
<1>4. d = Descriptor(s, limits, enabled) /\ d.surface = s
  BY DescriptorFields
<1>5. DescriptorValid(d) /\ trust = Configured(d) /\ reply = Publication(d, TrustedScope, 1)
  BY <1>2
<1> HIDE DEF d
<1>6. TrustInv
  BY <1>4, <1>5, ConfiguredFields, Zenon DEF TrustInv
<1>7. changes = 0 /\ MaxChanges \in Nat
  BY AdmissionAssumption DEF AdmissionInit
<1>8. /\ reply = [outcome |-> "accepted", scope |-> TrustedScope, epoch |-> reply.epoch,
                  source |-> reply.source, record |-> reply.record, value |-> reply.value]
      /\ reply.epoch = 1 /\ reply.value = d
  BY <1>5, PublicationFields
<1>9. trust.descriptor.surface = s
  BY <1>4, <1>5, ConfiguredFields
<1>10. changes \in 0..MaxChanges /\ reply.epoch \in 1..changes + 1
  BY <1>7, <1>8
<1>11. ReplyInv
  BY <1>3, <1>8, <1>9, <1>10, Zenon DEF ReplyInv
<1> QED BY <1>6, <1>11 DEF OfferInv

(* What a change of the reply must keep.                                   *)
LEMMA ReplyChanged ==
  ASSUME OfferInv, NEW r, Changed(r),
         r = [outcome |-> "accepted", scope |-> TrustedScope, epoch |-> r.epoch,
              source |-> r.source, record |-> r.record, value |-> r.value],
         r.epoch = reply.epoch \/ r.epoch = reply.epoch + 1,
         r.value # None => DescriptorOf(r.value, trust.descriptor.surface)
  PROVE  OfferInv'
<1>1. /\ reply' = r /\ changes' = changes + 1 /\ changes < MaxChanges /\ trust' = trust
  BY DEF Changed
<1>2. TrustInv'
  BY <1>1, Zenon DEF OfferInv, TrustInv
<1>3. /\ MaxChanges \in Nat /\ changes \in 0..MaxChanges /\ reply.epoch \in 1..changes + 1
  BY AdmissionAssumption DEF OfferInv, ReplyInv
<1>4. changes' \in 0..MaxChanges
  BY <1>1, <1>3
<1>5. r.epoch \in 1..changes' + 1
  BY <1>1, <1>3
<1>6. /\ reply' = [outcome |-> "accepted", scope |-> TrustedScope, epoch |-> reply'.epoch,
              source |-> reply'.source, record |-> reply'.record, value |-> reply'.value]
      /\ reply'.value # None => DescriptorOf(reply'.value, trust'.descriptor.surface)
  BY <1>1, Zenon
<1>7. reply'.epoch \in 1..changes' + 1
  BY <1>1, <1>5, Zenon
<1>8. ReplyInv'
  BY <1>4, <1>6, <1>7, Zenon DEF ReplyInv
<1> QED BY <1>2, <1>8 DEF OfferInv

(* A change of the value that the reply publishes.                         *)
LEMMA ValueChanged ==
  ASSUME OfferInv, NEW d, DescriptorOf(d, trust.descriptor.surface),
         Changed([reply EXCEPT !.value = d])
  PROVE  OfferInv'
<1> DEFINE r == [reply EXCEPT !.value = d]
<1>1. reply = [outcome |-> "accepted", scope |-> TrustedScope, epoch |-> reply.epoch,
               source |-> reply.source, record |-> reply.record, value |-> reply.value]
  BY DEF OfferInv, ReplyInv
<1>2. /\ r = [outcome |-> "accepted", scope |-> TrustedScope, epoch |-> r.epoch,
              source |-> r.source, record |-> r.record, value |-> r.value]
      /\ r.epoch = reply.epoch /\ r.value = d
  BY <1>1
<1>3. Changed(r)
  OBVIOUS
<1> HIDE DEF r
<1> QED BY <1>2, <1>3, ReplyChanged

(* The owner publishes another profile, or restarts.                       *)
LEMMA ReselectKeeps ==
  ASSUME OfferInv, Reselect
  PROVE  OfferInv'
<1> DEFINE s == trust.descriptor.surface
<1>1. PICK limits \in LimitChoices(s), enabled \in BOOLEAN :
        Changed(Publication(Descriptor(s, limits, enabled), reply.scope, reply.epoch))
  BY DEF Reselect
<1> HIDE DEF s
<1> DEFINE d == Descriptor(s, limits, enabled)
           r == Publication(d, reply.scope, reply.epoch)
<1>2. DescriptorOf(d, s)
  BY DescriptorFromChoices
<1>3. Changed(r)
  BY <1>1
<1> HIDE DEF d
<1>4. reply.scope = TrustedScope
  <2>1. reply = [outcome |-> "accepted", scope |-> TrustedScope, epoch |-> reply.epoch,
                 source |-> reply.source, record |-> reply.record, value |-> reply.value]
    BY DEF OfferInv, ReplyInv
  <2> QED BY <2>1
<1>5. /\ r.outcome = "accepted" /\ r.scope = reply.scope /\ r.epoch = reply.epoch /\ r.value = d
      /\ r = [outcome |-> "accepted", scope |-> r.scope, epoch |-> r.epoch,
              source |-> r.source, record |-> r.record, value |-> r.value]
  BY PublicationFields
<1> HIDE DEF r
<1>6. r = [outcome |-> "accepted", scope |-> TrustedScope, epoch |-> r.epoch,
           source |-> r.source, record |-> r.record, value |-> r.value]
  BY <1>4, <1>5, Zenon
<1>7. r.value # None => DescriptorOf(r.value, trust.descriptor.surface)
  BY <1>2, <1>5, Zenon DEF s
<1> QED BY <1>3, <1>5, <1>6, <1>7, ReplyChanged

(* The form of a reply, as a fact of its own.                               *)
LEMMA ReplyForm ==
  ASSUME OfferInv
  PROVE  reply = [outcome |-> "accepted", scope |-> TrustedScope, epoch |-> reply.epoch,
                  source |-> reply.source, record |-> reply.record, value |-> reply.value]
BY DEF OfferInv, ReplyInv

(* A restart turns the epoch.                                              *)
LEMMA OwnerRestartsKeeps ==
  ASSUME OfferInv, OwnerRestarts
  PROVE  OfferInv'
<1> DEFINE r == [reply EXCEPT !.epoch = @ + 1]
<1>1. Changed(r)
  BY DEF OwnerRestarts
<1>2. /\ r = [outcome |-> "accepted", scope |-> TrustedScope, epoch |-> r.epoch,
              source |-> r.source, record |-> r.record, value |-> r.value]
      /\ r.epoch = reply.epoch + 1 /\ r.value = reply.value
  BY ReplyForm
<1>3. reply.value # None => DescriptorOf(reply.value, trust.descriptor.surface)
  BY DEF OfferInv, ReplyInv
<1> HIDE DEF r
<1>4. r.value # None => DescriptorOf(r.value, trust.descriptor.surface)
  BY <1>2, <1>3, Zenon
<1> QED BY <1>1, <1>2, <1>4, ReplyChanged

(* A reply of another source, or with another record, has the same value.  *)
LEMMA SourceOrRecordChanged ==
  ASSUME OfferInv, NEW r, Changed(r),
         \/ \E x : r = [reply EXCEPT !.source = x]
         \/ \E x : r = [reply EXCEPT !.record = x]
  PROVE  OfferInv'
<1>1. /\ r = [outcome |-> "accepted", scope |-> TrustedScope, epoch |-> r.epoch,
              source |-> r.source, record |-> r.record, value |-> r.value]
      /\ r.epoch = reply.epoch /\ r.value = reply.value
  <2>1. CASE \E x : r = [reply EXCEPT !.source = x]
    BY <2>1, ReplyForm
  <2>2. CASE \E x : r = [reply EXCEPT !.record = x]
    BY <2>2, ReplyForm
  <2> QED BY <2>1, <2>2
<1>2. reply.value # None => DescriptorOf(reply.value, trust.descriptor.surface)
  BY DEF OfferInv, ReplyInv
<1>3. r.value # None => DescriptorOf(r.value, trust.descriptor.surface)
  BY <1>1, <1>2, Zenon
<1> QED BY <1>1, <1>3, ReplyChanged

(* The reply comes from another source, or describes another scope.        *)
LEMMA OtherOwnerKeeps ==
  ASSUME OfferInv, OtherOwner
  PROVE  OfferInv'
<1>1. CASE Changed([reply EXCEPT !.source = "other"])
  <2> DEFINE r == [reply EXCEPT !.source = "other"]
  <2>1. \E x : r = [reply EXCEPT !.source = x]
    OBVIOUS
  <2>2. Changed(r)
    BY <1>1
  <2> HIDE DEF r
  <2> QED BY <2>1, <2>2, SourceOrRecordChanged
<1>2. CASE /\ reply.value # None
           /\ Changed([reply EXCEPT !.value = Signed([@ EXCEPT !.scope = OtherScope])])
  <2> DEFINE v == reply.value
             moved == [v EXCEPT !.scope = OtherScope]
             d == Signed(moved)
  <2>1. DescriptorOf(v, trust.descriptor.surface)
    BY <1>2, Zenon DEF OfferInv, ReplyInv
  <2>2. Changed([reply EXCEPT !.value = d])
    <3>1. [reply EXCEPT !.value = d]
            = [reply EXCEPT !.value = Signed([@ EXCEPT !.scope = OtherScope])]
      OBVIOUS
    <3> QED BY <1>2, <3>1, Zenon
  <2> HIDE DEF v
  <2>3. DescriptorForm(moved) /\ moved.surface = v.surface /\ moved.limits = v.limits
    BY <2>1 DEF DescriptorOf, DescriptorForm
  <2> HIDE DEF moved
  <2>4. DescriptorForm(d) /\ d.surface = moved.surface /\ d.limits = moved.limits
    BY <2>3, SignedForm
  <2> HIDE DEF d
  <2>5. DescriptorOf(d, trust.descriptor.surface)
    BY <2>1, <2>3, <2>4, Zenon DEF DescriptorOf
  <2> QED BY <2>2, <2>5, ValueChanged
<1> QED BY <1>1, <1>2, Zenon DEF OtherOwner

(* A limit of the record is altered.                                       *)
LEMMA AlterRecordKeeps ==
  ASSUME OfferInv, AlterRecord
  PROVE  OfferInv'
<1>1. PICK f, n : Changed([reply EXCEPT !.record.rows[f].executable = n])
  BY DEF AlterRecord
<1> DEFINE r == [reply EXCEPT !.record.rows[f].executable = n]
<1>2. \E x : r = [reply EXCEPT !.record = x]
  OBVIOUS
<1>3. Changed(r)
  BY <1>1
<1> HIDE DEF r
<1> QED BY <1>2, <1>3, SourceOrRecordChanged

(* A limit of the descriptor is altered, signed again or not.              *)
LEMMA AlterValueKeeps ==
  ASSUME OfferInv, AlterValue
  PROVE  OfferInv'
<1> DEFINE v == reply.value
<1>1. PICK f \in Varied[trust.descriptor.surface], n \in {0, 1, 2}, resign \in BOOLEAN :
        /\ v # None
        /\ f \in DOMAIN v.limits
        /\ LET altered == [v EXCEPT !.limits[f] = n]
           IN  Changed([reply EXCEPT !.value = IF resign THEN Signed(altered) ELSE altered])
  BY Zenon DEF AlterValue
<1>2. DescriptorOf(v, trust.descriptor.surface)
  BY <1>1, Zenon DEF OfferInv, ReplyInv
<1> HIDE DEF v
<1> DEFINE s == trust.descriptor.surface
           altered == [v EXCEPT !.limits[f] = n]
           d == IF resign THEN Signed(altered) ELSE altered
<1>3. DescriptorForm(altered) /\ altered.surface = v.surface
      /\ altered.limits = [v.limits EXCEPT ![f] = n]
  BY <1>2 DEF DescriptorOf, DescriptorForm
<1>4. v.limits \in LimitsOf(s)
  <2>1. DOMAIN <<>> = {}
    OBVIOUS
  <2>2. v.limits # <<>>
    BY <1>1, <2>1
  <2> QED BY <1>2, <2>2 DEF DescriptorOf
<1>5. altered.limits \in LimitsOf(s)
  <2> HIDE DEF altered, s
  <2>1. n \in Nat
    BY <1>1
  <2> QED BY <1>3, <1>4, <2>1 DEF LimitsOf
<1>6. Changed([reply EXCEPT !.value = d])
  BY <1>1
<1> HIDE DEF altered
<1>7. /\ DescriptorForm(Signed(altered)) /\ Signed(altered).surface = altered.surface
      /\ Signed(altered).limits = altered.limits
  BY <1>3, SignedForm
<1>8. DescriptorForm(d) /\ d.surface = altered.surface /\ d.limits = altered.limits
  BY <1>3, <1>7
<1> HIDE DEF d
<1>9. DescriptorOf(d, s)
  BY <1>2, <1>3, <1>5, <1>8, Zenon DEF DescriptorOf
<1> QED BY <1>6, <1>9, ValueChanged

(* An older schema is published.                                           *)
LEMMA OlderSchemaKeeps ==
  ASSUME OfferInv, OlderSchema
  PROVE  OfferInv'
<1> DEFINE v == reply.value
<1>1. PICK w \in {"v1", "v3"} :
        /\ v # None
        /\ Changed([reply EXCEPT !.value = IF w = "v1" THEN ToV1(v)
                                           ELSE Signed([v EXCEPT !.schema = w])])
  BY DEF OlderSchema
<1>2. DescriptorOf(v, trust.descriptor.surface)
  BY <1>1, Zenon DEF OfferInv, ReplyInv
<1> HIDE DEF v
<1> DEFINE older == [v EXCEPT !.schema = w]
           d == IF w = "v1" THEN ToV1(v) ELSE Signed(older)
<1>3. DescriptorForm(older) /\ older.surface = v.surface /\ older.limits = v.limits
  BY <1>2 DEF DescriptorOf, DescriptorForm
<1>4. DescriptorForm(ToV1(v)) /\ ToV1(v).surface = v.surface /\ ToV1(v).limits = <<>>
  BY <1>2, LegacyForm DEF DescriptorOf
<1>5. Changed([reply EXCEPT !.value = d])
  BY <1>1
<1> HIDE DEF older
<1>6. /\ DescriptorForm(Signed(older)) /\ Signed(older).surface = older.surface
      /\ Signed(older).limits = older.limits
  BY <1>3, SignedForm
<1>7. /\ DescriptorForm(d) /\ d.surface = v.surface
      /\ d.limits = <<>> \/ d.limits = v.limits
  BY <1>3, <1>4, <1>6
<1> HIDE DEF d
<1>8. DescriptorOf(d, trust.descriptor.surface)
  BY <1>2, <1>7, Zenon DEF DescriptorOf
<1> QED BY <1>5, <1>8, ValueChanged

(* The record or the descriptor is left out.                               *)
LEMMA WithholdKeeps ==
  ASSUME OfferInv, Withhold
  PROVE  OfferInv'
<1>1. CASE Changed([reply EXCEPT !.record = None])
  <2> DEFINE r == [reply EXCEPT !.record = None]
  <2>1. \E x : r = [reply EXCEPT !.record = x]
    OBVIOUS
  <2>2. Changed(r)
    BY <1>1
  <2> HIDE DEF r
  <2> QED BY <2>1, <2>2, SourceOrRecordChanged
<1>2. CASE Changed([reply EXCEPT !.value = None])
  <2> DEFINE r == [reply EXCEPT !.value = None]
  <2>1. Changed(r)
    BY <1>2
  <2>2. /\ r = [outcome |-> "accepted", scope |-> TrustedScope, epoch |-> r.epoch,
                source |-> r.source, record |-> r.record, value |-> r.value]
        /\ r.epoch = reply.epoch /\ r.value = None
    BY ReplyForm
  <2> HIDE DEF r
  <2> QED BY <2>1, <2>2, ReplyChanged
<1> QED BY <1>1, <1>2, Zenon DEF Withhold

(* Each step keeps the invariant.                                          *)
LEMMA OfferStep ==
  ASSUME OfferInv, [AdmissionNext]_admissionVars
  PROVE  OfferInv'
<1>1. CASE Reselect
  BY <1>1, ReselectKeeps
<1>2. CASE OwnerRestarts
  BY <1>2, OwnerRestartsKeeps
<1>3. CASE OtherOwner
  BY <1>3, OtherOwnerKeeps
<1>4. CASE AlterRecord
  BY <1>4, AlterRecordKeeps
<1>5. CASE AlterValue
  BY <1>5, AlterValueKeeps
<1>6. CASE OlderSchema
  BY <1>6, OlderSchemaKeeps
<1>7. CASE Withhold
  BY <1>7, WithholdKeeps
<1>8. CASE UNCHANGED admissionVars
  BY <1>8, Zenon DEF OfferInv, TrustInv, ReplyInv, admissionVars
<1> QED
  BY <1>1, <1>2, <1>3, <1>4, <1>5, <1>6, <1>7, <1>8, Zenon DEF AdmissionNext

-----------------------------------------------------------------------------
(* What is presented and admitted.                                         *)

(* What the configured descriptor is.                                      *)
LEMMA TrustFacts ==
  ASSUME OfferInv
  PROVE  LET d == trust.descriptor
         IN  /\ trust # None /\ d # None /\ RecordOf(d) # None
             /\ trust.scope = TrustedScope /\ trust.source = "harness" /\ trust.epoch = 1
             /\ d.surface \in Surfaces /\ d.enabled \in BOOLEAN
             /\ d.limits \in LimitsOf(d.surface)
             /\ d.schema = CurrentSchema(d.surface)
             /\ DescriptorValid(d) /\ RecordValid(RecordOf(d))
<1> DEFINE d == trust.descriptor
<1>1. /\ trust = Configured(d) /\ DescriptorValid(d)
      /\ \E s \in Surfaces, enabled \in BOOLEAN :
           \E limits \in LimitChoices(s) : d = Descriptor(s, limits, enabled)
  BY Zenon DEF OfferInv, TrustInv
<1>2. PICK s \in Surfaces, enabled \in BOOLEAN :
        \E limits \in LimitChoices(s) : d = Descriptor(s, limits, enabled)
  BY <1>1
<1>3. PICK limits \in LimitChoices(s) : d = Descriptor(s, limits, enabled)
  BY <1>2
<1>4. d # None /\ RecordOf(d) # None /\ Configured(d) # None
  BY <1>3, NoneAssumption, Zenon
<1>5. limits \in LimitsOf(s)
  BY ChoicesAreLimits
<1>6. d.surface = s /\ d.limits = limits /\ d.schema = CurrentSchema(s) /\ d.enabled = enabled
  BY <1>3, DescriptorFields
<1>7. RecordValid(RecordOf(d))
  BY <1>1, Zenon DEF DescriptorValid
<1>8. trust.scope = TrustedScope /\ trust.source = "harness" /\ trust.epoch = 1
  <2> HIDE DEF d
  <2> QED BY <1>1, ConfiguredFields
<1>9. trust # None
  BY <1>1, <1>4, Zenon
<1> HIDE DEF d
<1>10. /\ d.surface \in Surfaces /\ d.enabled \in BOOLEAN /\ d.limits \in LimitsOf(d.surface)
       /\ d.schema = CurrentSchema(d.surface)
  BY <1>5, <1>6
<1> QED BY <1>1, <1>4, <1>7, <1>8, <1>9, <1>10 DEF d

(* The record derived from a descriptor.                                   *)
LEMMA RecordFields ==
  ASSUME NEW d
  PROVE  LET r == RecordOf(d)
         IN  /\ r.surface = d.surface /\ r.owner = d.owner /\ r.schema = d.schema
             /\ r.digest = d.digest /\ r.enabled = d.enabled
             /\ DOMAIN r.rows = DOMAIN d.limits
             /\ \A f \in DOMAIN d.limits :
                  /\ r.rows[f] = Row(Ceilings(d.surface)[f], d.limits[f])
                  /\ r.rows[f].executable = d.limits[f]
<1> DEFINE rows == [f \in DOMAIN d.limits |-> Row(Ceilings(d.surface)[f], d.limits[f])]
           r == [surface |-> d.surface, owner |-> d.owner, schema |-> d.schema,
                 digest |-> d.digest, enabled |-> d.enabled, rows |-> rows]
<1>1. RecordOf(d) = r
  BY Zenon DEF RecordOf
<1>2. /\ DOMAIN rows = DOMAIN d.limits
      /\ \A f \in DOMAIN d.limits :
           rows[f] = Row(Ceilings(d.surface)[f], d.limits[f])
  OBVIOUS
<1>3. \A f \in DOMAIN d.limits : rows[f].executable = d.limits[f]
  BY <1>2 DEF Row
<1> HIDE DEF rows
<1>4. /\ r.surface = d.surface /\ r.owner = d.owner /\ r.schema = d.schema
      /\ r.digest = d.digest /\ r.enabled = d.enabled /\ r.rows = rows
  OBVIOUS
<1> HIDE DEF r
<1> QED BY <1>1, <1>2, <1>3, <1>4, Zenon

(* A chosen list of checks holds when it is chosen and all of it holds.    *)
LEMMA ChosenChecks ==
  ASSUME NEW condition \in BOOLEAN, NEW checks, Telling(checks)
  PROVE  /\ Telling(Chosen(condition, checks))
         /\ AllHold(Chosen(condition, checks)) <=> (condition => AllHold(checks))
<1>1. CASE condition
  <2>1. Chosen(condition, checks) = checks
    BY <1>1 DEF Chosen
  <2> QED BY <1>1, <2>1
<1>2. CASE ~condition
  <2>1. Chosen(condition, checks) = <<>>
    BY <1>2 DEF Chosen
  <2> QED BY <1>2, <2>1, NoChecks
<1> QED BY <1>1, <1>2

(* TypeOK of the admission.                                                *)
LEMMA TypesFromInv ==
  ASSUME OfferInv
  PROVE  AdmissionTypeOK
<1>1. trust.descriptor.surface \in Surfaces /\ trust.epoch = 1
  BY TrustFacts
<1>2. reply.outcome = "accepted"
  BY ReplyForm
<1>3. MaxChanges \in Nat /\ changes \in 0..MaxChanges /\ reply.epoch \in 1..changes + 1
  BY AdmissionAssumption DEF OfferInv, ReplyInv
<1>4. reply.epoch \in 1..(MaxChanges + 1)
  BY <1>3
<1> QED BY <1>1, <1>2, <1>3, <1>4 DEF AdmissionTypeOK

(* The rows of a published descriptor are valid just when its limits lie   *)
(* between 1 and the ceilings.                                             *)
LEMMA RowsFromInv ==
  ASSUME OfferInv
  PROVE  RowsValidIffWithinCeilings
<1> SUFFICES ASSUME reply.value # None
             PROVE  RecordValid(RecordOf(reply.value)) <=>
                      /\ reply.value.digest # None
                      /\ reply.value.limits # <<>>
                      /\ \A f \in DOMAIN reply.value.limits :
                           reply.value.limits[f] \in 1..Ceilings(reply.value.surface)[f].schema
  BY Zenon DEF RowsValidIffWithinCeilings
<1> DEFINE v == reply.value
           s == v.surface
           l == v.limits
           r == RecordOf(v)
<1>1. l = <<>> \/ l \in LimitsOf(s)
  BY Zenon DEF OfferInv, ReplyInv, DescriptorOf
<1>2. /\ r.digest = v.digest /\ DOMAIN r.rows = DOMAIN l
      /\ \A f \in DOMAIN l : r.rows[f] = Row(Ceilings(s)[f], l[f])
  <2> HIDE DEF v
  <2> QED BY RecordFields
<1> HIDE DEF v, s, l, r
<1>3. DOMAIN l = {} <=> l = <<>>
  <2>1. DOMAIN <<>> = {}
    OBVIOUS
  <2>2. \A t : t \in LimitsOf(s) /\ DOMAIN t = {} => t = <<>>
    <3> TAKE t
    <3> HAVE t \in LimitsOf(s) /\ DOMAIN t = {}
    <3>1. t = [x \in {} |-> t[x]]
      BY DEF LimitsOf
    <3>2. <<>> = [x \in {} |-> t[x]]
      OBVIOUS
    <3> QED BY <3>1, <3>2
  <2> QED BY <1>1, <2>1, <2>2
<1>4. ASSUME NEW f \in DOMAIN l
      PROVE  RowValid(r.rows[f]) <=> l[f] \in 1..Ceilings(s)[f].schema
  <2>1. l \in LimitsOf(s)
    BY <1>1, <1>3
  <2>2. l[f] \in Nat /\ f \in DOMAIN Ceilings(s)
    BY <2>1 DEF LimitsOf
  <2>3. EntryOK(Ceilings(s)[f])
    BY <2>2, CeilingsOK
  <2> DEFINE e == Ceilings(s)[f]
             n == l[f]
  <2>4. r.rows[f] = Row(e, n) /\ n \in Nat /\ EntryOK(e)
    BY <1>2, <2>2, <2>3
  <2> HIDE DEF e, n
  <2>5. RowValid(r.rows[f]) <=> n \in 1..e.schema
    BY <2>4, RowWithinCeiling
  <2> QED BY <2>5 DEF e, n
<1>5. (\A f \in DOMAIN r.rows : RowValid(r.rows[f])) <=>
        \A f \in DOMAIN l : l[f] \in 1..Ceilings(s)[f].schema
  BY <1>2, <1>4, Zenon
<1>6. RecordValid(r) <=> /\ v.digest # None /\ l # <<>>
                         /\ \A f \in DOMAIN l : l[f] \in 1..Ceilings(s)[f].schema
  BY <1>2, <1>3, <1>5, Zenon DEF RecordValid
<1> QED BY <1>6 DEF v, s, l, r

(* A query is admitted under the trusted record and within its limits.     *)
LEMMA QueriesFromInv ==
  ASSUME OfferInv
  PROVE  QueryAdmittedIffTrusted
<1> SUFFICES ASSUME trust.descriptor.surface = "context-memory", NEW q \in Queries
             PROVE  (AdmitQuery(trust, TrustedScope, reply, q) = "ok") <=>
                      /\ reply.record = GoodFaith.record
                      /\ reply.epoch = GoodFaith.epoch /\ reply.source = GoodFaith.source
                      /\ trust.descriptor.enabled
                      /\ WithinTrust(q)
  BY Zenon DEF QueryAdmittedIffTrusted
<1> DEFINE d == trust.descriptor
           trusted == RecordOf(d)
           admit(f) == AdmitConsumer("v3", "context-memory", reply.record, trusted, f, q[f])
           fields == {"max_results", "max_candidates", "max_query_bytes"}
<1>1. AdmitQuery(trust, TrustedScope, reply, q) = "ok" <=>
        /\ trust # None
        /\ TrustedScope = trust.scope /\ reply.source = trust.source
        /\ reply.epoch = trust.epoch
        /\ reply.record # None
        /\ admit("max_results") = "ok" /\ admit("max_candidates") = "ok"
        /\ admit("max_query_bytes") = "ok"
  BY AdmittedQuery
<1>2. /\ trust # None /\ trusted # None
      /\ trust.scope = TrustedScope /\ trust.source = "harness" /\ trust.epoch = 1
      /\ d.limits \in LimitsOf(d.surface) /\ d.schema = CurrentSchema(d.surface)
      /\ RecordValid(trusted)
  BY TrustFacts, Zenon
<1>3. /\ trusted.schema = d.schema /\ trusted.enabled = d.enabled
      /\ DOMAIN trusted.rows = DOMAIN d.limits
      /\ \A f \in DOMAIN d.limits : trusted.rows[f].executable = d.limits[f]
  <2> HIDE DEF d
  <2> QED BY RecordFields
<1>4. GoodFaith.record = trusted /\ GoodFaith.epoch = 1 /\ GoodFaith.source = "harness"
  <2> HIDE DEF d
  <2>1. GoodFaith = Publication(d, TrustedScope, 1)
    BY DEF GoodFaith, d
  <2> QED BY <2>1, PublicationFields
<1>5. d.schema = PinnedSchema("v3", "context-memory")
  BY <1>2 DEF PinnedSchema, CurrentSchema
<1> HIDE DEF trusted
<1>6. \A f : admit(f) = "ok" <=>
               /\ reply.record = trusted
               /\ trusted.enabled /\ f \in DOMAIN trusted.rows
               /\ q[f] <= trusted.rows[f].executable
  <2> TAKE f
  <2>1. admit(f) = "ok" <=>
           /\ PinnedSchema("v3", "context-memory") = reply.record.schema
           /\ Authenticate(reply.record, trusted) = "ok"
           /\ Admit(trusted, f, q[f]) = "ok"
    BY AdmittedConsumer
  <2>2. Authenticate(reply.record, trusted) = "ok" <=> reply.record = trusted
    BY <1>2, AuthenticRecord
  <2>3. reply.record = trusted => PinnedSchema("v3", "context-memory") = reply.record.schema
    BY <1>3, <1>5
  <2>4. Admit(trusted, f, q[f]) = "ok" <=>
           /\ trusted.enabled /\ f \in DOMAIN trusted.rows
           /\ q[f] <= trusted.rows[f].executable
    BY AdmittedField
  <2> QED BY <2>1, <2>2, <2>3, <2>4, Zenon
<1>7. DOMAIN q = fields
  BY DEF Queries
<1>8. fields \subseteq DOMAIN d.limits
  <2>1. fields \subseteq DOMAIN MemoryCeilings
    BY DEF MemoryCeilings
  <2>2. DOMAIN d.limits = DOMAIN MemoryCeilings
    BY <1>2 DEF LimitsOf, Ceilings
  <2> QED BY <2>1, <2>2
<1>9. \A f \in fields : admit(f) = "ok" <=>
               /\ reply.record = trusted /\ d.enabled
               /\ q[f] <= d.limits[f]
  BY <1>3, <1>6, <1>8, Zenon
<1>10. WithinTrust(q) <=> \A f \in fields : q[f] <= d.limits[f]
  BY <1>7, Zenon DEF WithinTrust, d
<1> HIDE DEF admit, d
<1>11. /\ admit("max_results") = "ok" /\ admit("max_candidates") = "ok"
       /\ admit("max_query_bytes") = "ok"
       <=> \A f \in fields : admit(f) = "ok"
  OBVIOUS
<1>12. (\A f \in fields : admit(f) = "ok") <=>
          reply.record = trusted /\ d.enabled /\ \A f \in fields : q[f] <= d.limits[f]
  <2>1. "max_results" \in fields
    OBVIOUS
  <2> HIDE DEF fields
  <2> QED BY <1>9, <2>1
<1> HIDE DEF fields
<1>13. AdmitQuery(trust, TrustedScope, reply, q) = "ok" <=>
         /\ reply.source = "harness" /\ reply.epoch = 1 /\ reply.record # None
         /\ reply.record = trusted /\ d.enabled /\ WithinTrust(q)
  BY <1>1, <1>2, <1>10, <1>11, <1>12, Zenon
<1> QED BY <1>2, <1>4, <1>13, Zenon DEF d

(* A console rolled back to the v1 advertisement discloses no limit.       *)
LEMMA RollbackFromInv ==
  ASSUME OfferInv
  PROVE  RollbackDisclosesNoLimit
<1> DEFINE offered == Present("v1", trust, TrustedScope, reply)
           e == LegacyProjection(reply)
           v == IF e = "ok" THEN ToV1(reply.value) ELSE None
<1>1. reply.outcome = "accepted"
  BY ReplyForm
<1>2. offered = [error |-> e, value |-> v]
  BY <1>1 DEF Present
<1>3. offered.value = v
  <2> HIDE DEF e, v, offered
  <2> QED BY <1>2
<1>4. v # None => v.limits = <<>>
  <2> SUFFICES ASSUME v # None PROVE v.limits = <<>>
    OBVIOUS
  <2>1. e = "ok" /\ v = ToV1(reply.value)
    OBVIOUS
  <2>2. reply.value # None
    <3> DEFINE a == Check(reply.value # None, "field_not_advertised")
               holds == reply.value # None =>
                          \/ reply.value.schema = "v1"
                          \/ reply.value.schema # "v1" /\ DescriptorValid(reply.value)
               b == Check(holds, "descriptor_tampered")
    <3>1. /\ a.holds = (reply.value # None) /\ a.error # "ok" /\ b.error # "ok"
      <4> HIDE DEF holds
      <4> QED BY CheckFields
    <3>2. e = Outcome(<<a, b>>)
      BY Zenon DEF LegacyProjection
    <3> HIDE DEF a, b, e
    <3>3. Tells(a) /\ Tells(b)
      BY <3>1 DEF Tells
    <3>4. Telling(<<a, b>>) /\ (AllHold(<<a, b>>) <=> a.holds /\ b.holds)
      BY <3>3, TwoChecks
    <3>5. a.holds
      BY <2>1, <3>2, <3>4, OutcomeOk
    <3> QED BY <3>1, <3>5
  <2>3. DescriptorForm(reply.value)
    BY <2>2, Zenon DEF OfferInv, ReplyInv, DescriptorOf
  <2> HIDE DEF v
  <2> QED BY <2>1, <2>3, LegacyForm
<1>5. offered.value # None => offered.value.limits = <<>>
  BY <1>3, <1>4, Zenon
<1>6. \A surface, record, trusted, f, n :
        AdmitConsumer("v1", surface, record, trusted, f, n) # "ok"
  BY AdmittedConsumer
<1> QED BY <1>5, <1>6, Zenon DEF RollbackDisclosesNoLimit

(* Whether the rows of a published descriptor are admitted one by one.     *)
LEMMA RowsChecked ==
  ASSUME NEW own, NEW answer
  PROVE  LET surface == own.descriptor.surface
             rows    == RecordOf(answer.value).rows
             admit(f) == AdmitConsumer("v3", surface, answer.record, RecordOf(own.descriptor),
                                       f, rows[f].executable)
         IN  /\ Telling(RowChecks(own, answer))
             /\ AllHold(RowChecks(own, answer)) <=>
                  \/ \A f \in DOMAIN rows : admit(f) = "ok"
                  \/ ~(surface = "provider-session" \/ RecordOf(own.descriptor).enabled)
<1> DEFINE surface == own.descriptor.surface
           trusted == RecordOf(own.descriptor)
           rows == RecordOf(answer.value).rows
           admit(f) == AdmitConsumer("v3", surface, answer.record, trusted,
                                     f, rows[f].executable)
           refused == {f \in DOMAIN rows : admit(f) # "ok"}
           error == admit(CHOOSE f \in refused : TRUE)
           never == FALSE
           a == Check(never, error)
           condition == refused # {} /\ (surface = "provider-session" \/ trusted.enabled)
<1>1. RowChecks(own, answer) = Chosen(condition, <<a>>)
  BY DEF RowChecks
<1>2. a.holds = never /\ a.error = error
  <2> HIDE DEF error, never
  <2> QED BY CheckFields
<1>3. refused # {} => error # "ok"
  <2> HIDE DEF admit
  <2> QED OBVIOUS
<1>4. refused = {} <=> \A f \in DOMAIN rows : admit(f) = "ok"
  <2> HIDE DEF admit, rows
  <2> QED OBVIOUS
<1>5. condition <=> refused # {} /\ (surface = "provider-session" \/ trusted.enabled)
  OBVIOUS
<1> HIDE DEF a, error, admit, rows, refused, trusted, surface
<1>6. CASE condition
  <2>1. Chosen(condition, <<a>>) = <<a>>
    BY <1>6, Zenon DEF Chosen
  <2>2. Tells(a) /\ ~a.holds
    BY <1>2, <1>3, <1>5, <1>6 DEF Tells
  <2>3. Telling(<<a>>) /\ ~AllHold(<<a>>)
    BY <2>2, OneCheck
  <2> QED BY <1>1, <1>4, <1>5, <1>6, <2>1, <2>3, Zenon DEF admit, rows, trusted, surface
<1>7. CASE ~condition
  <2>1. Chosen(condition, <<a>>) = <<>>
    BY <1>7, Zenon DEF Chosen
  <2>2. Telling(RowChecks(own, answer)) /\ AllHold(RowChecks(own, answer))
    BY <1>1, <2>1, NoChecks, Zenon
  <2> QED BY <1>4, <1>5, <1>7, <2>2, Zenon DEF admit, rows, trusted, surface
<1> QED BY <1>6, <1>7, Zenon

(* The checks of a published descriptor.                                   *)
LEMMA DescriptorChecked ==
  ASSUME NEW own, NEW answer
  PROVE  /\ Telling(DescriptorChecks(own, answer))
         /\ AllHold(DescriptorChecks(own, answer)) <=>
              /\ answer.value.schema = CurrentSchema(own.descriptor.surface)
              /\ answer.value.scope = own.descriptor.scope
              /\ AllHold(RowChecks(own, answer))
              /\ DescriptorValid(answer.value)
              /\ answer.value = own.descriptor
<1> DEFINE v == answer.value
           a == Check(v.schema = CurrentSchema(own.descriptor.surface),
                      "consumer_pin_not_adopted")
           b == Check(v.scope = own.descriptor.scope, "profile_mismatch")
           c == Check(DescriptorValid(v), "descriptor_tampered")
           d == Check(v = own.descriptor, "descriptor_stale")
           rows == RowChecks(own, answer)
<1>1. DescriptorChecks(own, answer) = <<a, b>> \o rows \o <<c, d>>
  BY DEF DescriptorChecks
<1>2. /\ a.holds = (v.schema = CurrentSchema(own.descriptor.surface)) /\ a.error # "ok"
      /\ b.holds = (v.scope = own.descriptor.scope) /\ b.error # "ok"
      /\ c.holds = DescriptorValid(v) /\ c.error # "ok"
      /\ d.holds = (v = own.descriptor) /\ d.error # "ok"
  <2> HIDE DEF v
  <2> QED BY CheckFields
<1>3. Telling(rows)
  BY RowsChecked
<1> HIDE DEF a, b, c, d, rows
<1>4. Tells(a) /\ Tells(b) /\ Tells(c) /\ Tells(d)
  BY <1>2 DEF Tells
<1>5. /\ Telling(<<a, b>>) /\ (AllHold(<<a, b>>) <=> a.holds /\ b.holds)
      /\ Telling(<<c, d>>) /\ (AllHold(<<c, d>>) <=> c.holds /\ d.holds)
  BY <1>4, TwoChecks
<1> DEFINE first == <<a, b>> \o rows
<1>6. Telling(first) /\ (AllHold(first) <=> AllHold(<<a, b>>) /\ AllHold(rows))
  BY <1>3, <1>5, ChecksTogether
<1> HIDE DEF first
<1>7. /\ Telling(first \o <<c, d>>)
      /\ AllHold(first \o <<c, d>>) <=> AllHold(first) /\ AllHold(<<c, d>>)
  BY <1>5, <1>6, ChecksTogether
<1>8. DescriptorChecks(own, answer) = first \o <<c, d>>
  BY <1>1 DEF first
<1>9. /\ Telling(DescriptorChecks(own, answer))
      /\ AllHold(DescriptorChecks(own, answer)) <=>
           a.holds /\ b.holds /\ AllHold(rows) /\ c.holds /\ d.holds
  BY <1>5, <1>6, <1>7, <1>8, Zenon
<1> QED BY <1>2, <1>9, Zenon DEF rows, v

(* What a trusted presentation went through.                               *)
LEMMA PresentedOk ==
  ASSUME NEW own, NEW scope, NEW answer
  PROVE  TrustedPresentation(own, scope, answer) = "ok" <=>
           /\ scope = own.scope /\ answer.source = own.source
           /\ answer.epoch = own.epoch
           /\ answer.record # None /\ answer.value # None
           /\ Authenticate(answer.record, RecordOf(own.descriptor)) = "ok"
           /\ AllHold(DescriptorChecks(own, answer))
<1> DEFINE authentic == Authenticate(answer.record, RecordOf(own.descriptor))
           a == Check(scope = own.scope /\ answer.source = own.source, "profile_mismatch")
           b == Check(answer.epoch = own.epoch, "descriptor_stale")
           c == Check(answer.record # None, "field_not_advertised")
           d == Check(authentic = "ok", authentic)
           e == Check(answer.value # None, "field_not_advertised")
           hasRecord == answer.record # None
           hasBoth == answer.record # None /\ answer.value # None
           checks == DescriptorChecks(own, answer)
           p == Chosen(hasRecord, <<d>>)
           q == Chosen(hasBoth, checks)
<1>1. TrustedPresentation(own, scope, answer) =
        Outcome(<<a, b>> \o <<c>> \o p \o <<e>> \o q)
  BY DEF TrustedPresentation, BindingChecks
<1>2. /\ a.holds = (scope = own.scope /\ answer.source = own.source) /\ a.error # "ok"
      /\ b.holds = (answer.epoch = own.epoch) /\ b.error # "ok"
      /\ c.holds = (answer.record # None) /\ c.error # "ok"
      /\ d.holds = (authentic = "ok") /\ d.error = authentic
      /\ e.holds = (answer.value # None) /\ e.error # "ok"
  <2> HIDE DEF authentic
  <2> QED BY CheckFields
<1>3. Telling(checks)
  BY DescriptorChecked
<1>4. hasRecord \in BOOLEAN /\ hasBoth \in BOOLEAN
  OBVIOUS
<1> HIDE DEF a, b, c, d, e, checks, authentic
<1>5. Tells(a) /\ Tells(b) /\ Tells(c) /\ Tells(d) /\ Tells(e)
  BY <1>2 DEF Tells
<1>6. /\ Telling(<<a, b>>) /\ (AllHold(<<a, b>>) <=> a.holds /\ b.holds)
      /\ Telling(<<c>>) /\ (AllHold(<<c>>) <=> c.holds)
      /\ Telling(<<d>>) /\ (AllHold(<<d>>) <=> d.holds)
      /\ Telling(<<e>>) /\ (AllHold(<<e>>) <=> e.holds)
  BY <1>5, OneCheck, TwoChecks
<1>7. hasRecord <=> answer.record # None
  OBVIOUS
<1>8. hasBoth <=> answer.record # None /\ answer.value # None
  OBVIOUS
<1> HIDE DEF hasRecord, hasBoth
<1>9. /\ Telling(p) /\ (AllHold(p) <=> (hasRecord => AllHold(<<d>>)))
      /\ Telling(q) /\ (AllHold(q) <=> (hasBoth => AllHold(checks)))
  BY <1>3, <1>4, <1>6, ChosenChecks
<1> HIDE DEF p, q
<1> DEFINE f == <<a, b>> \o <<c>>
           g == f \o p
           h == g \o <<e>>
<1>10. Telling(f) /\ (AllHold(f) <=> AllHold(<<a, b>>) /\ AllHold(<<c>>))
  BY <1>6, ChecksTogether
<1> HIDE DEF f
<1>11. Telling(g) /\ (AllHold(g) <=> AllHold(f) /\ AllHold(p))
  BY <1>9, <1>10, ChecksTogether
<1> HIDE DEF g
<1>12. Telling(h) /\ (AllHold(h) <=> AllHold(g) /\ AllHold(<<e>>))
  BY <1>6, <1>11, ChecksTogether
<1> HIDE DEF h
<1>13. Telling(h \o q) /\ (AllHold(h \o q) <=> AllHold(h) /\ AllHold(q))
  BY <1>9, <1>12, ChecksTogether
<1>14. TrustedPresentation(own, scope, answer) = Outcome(h \o q)
  BY <1>1, Zenon DEF f, g, h
<1>15. TrustedPresentation(own, scope, answer) = "ok" <=> AllHold(h) /\ AllHold(q)
  BY <1>13, <1>14, OutcomeOk
<1>16. TrustedPresentation(own, scope, answer) = "ok" <=>
         /\ a.holds /\ b.holds /\ c.holds /\ e.holds
         /\ hasRecord => d.holds
         /\ hasBoth => AllHold(checks)
  BY <1>6, <1>9, <1>10, <1>11, <1>12, <1>15, Zenon
<1> QED BY <1>2, <1>7, <1>8, <1>16, Zenon DEF authentic, checks

(* What is presented is the trusted descriptor, and it always is.          *)
LEMMA PresentationFromInv ==
  ASSUME OfferInv
  PROVE  PresentsExactlyTheTrusted
<1> DEFINE d == trust.descriptor
           trusted == RecordOf(d)
           outcome == TrustedPresentation(trust, TrustedScope, reply)
           offered == Present("v3", trust, TrustedScope, reply)
           s == d.surface
<1>1. /\ trust # None /\ d # None /\ trusted # None
      /\ trust.scope = TrustedScope /\ trust.source = "harness" /\ trust.epoch = 1
      /\ s \in Surfaces /\ d.limits \in LimitsOf(s) /\ d.schema = CurrentSchema(s)
      /\ DescriptorValid(d) /\ RecordValid(trusted) /\ d.enabled \in BOOLEAN
  BY TrustFacts, Zenon
<1>2. offered.error = outcome
  <2>1. reply.outcome = "accepted"
    BY ReplyForm
  <2>2. offered = [error |-> outcome, value |-> IF outcome = "ok" THEN reply.value ELSE None]
    BY <1>1, <2>1 DEF Present
  <2> HIDE DEF outcome, offered
  <2> QED BY <2>2
<1>3. outcome = "ok" <=>
        /\ TrustedScope = trust.scope /\ reply.source = trust.source
        /\ reply.epoch = trust.epoch
        /\ reply.record # None /\ reply.value # None
        /\ Authenticate(reply.record, trusted) = "ok"
        /\ AllHold(DescriptorChecks(trust, reply))
  BY PresentedOk, Zenon
<1>4. AllHold(DescriptorChecks(trust, reply)) <=>
        /\ reply.value.schema = CurrentSchema(s)
        /\ reply.value.scope = d.scope
        /\ AllHold(RowChecks(trust, reply))
        /\ DescriptorValid(reply.value)
        /\ reply.value = d
  BY DescriptorChecked, Zenon
<1>5. Authenticate(reply.record, trusted) = "ok" <=> reply.record = trusted
  <2> HIDE DEF trusted
  <2> QED BY <1>1, AuthenticRecord
<1>6. ASSUME reply = GoodFaith  PROVE outcome = "ok"
  <2>1. /\ reply.source = "harness" /\ reply.epoch = 1
        /\ reply.record = trusted /\ reply.value = d
    <3> HIDE DEF d
    <3>1. reply = Publication(d, TrustedScope, 1)
      BY <1>6 DEF GoodFaith, d
    <3> QED BY <3>1, PublicationFields
  <2>2. AllHold(RowChecks(trust, reply))
    <3> DEFINE admit(f) == AdmitConsumer("v3", s, reply.record, trusted,
                                         f, trusted.rows[f].executable)
    <3>1. AllHold(RowChecks(trust, reply)) <=>
            \/ \A f \in DOMAIN trusted.rows : admit(f) = "ok"
            \/ ~(s = "provider-session" \/ trusted.enabled)
      <4>1. reply.value = trust.descriptor
        BY <2>1
      <4> QED BY <4>1, RowsChecked
    <3>2. /\ trusted.schema = d.schema /\ trusted.enabled = d.enabled
          /\ DOMAIN trusted.rows = DOMAIN d.limits
          /\ \A f \in DOMAIN d.limits : trusted.rows[f].executable = d.limits[f]
      <4> HIDE DEF d
      <4> QED BY RecordFields
    <3>3. CASE ~(s = "provider-session" \/ trusted.enabled)
      BY <3>1, <3>3, Zenon
    <3>4. CASE s = "provider-session" \/ trusted.enabled
      <4>1. d.enabled
        BY <1>1, <3>2, <3>4 DEF DescriptorValid
      <4>2. s = "context-memory" \/ s = "provider-session"
        BY <1>1 DEF Surfaces
      <4>3. PinnedSchema("v3", s) = trusted.schema
        BY <1>1, <3>2 DEF PinnedSchema
      <4> HIDE DEF d, trusted, s
      <4>4. ASSUME NEW f \in DOMAIN trusted.rows  PROVE admit(f) = "ok"
        <5> DEFINE n == trusted.rows[f].executable
        <5>1. n \in Nat
          BY <1>1, <3>2 DEF LimitsOf
        <5>2. n <= n
          <6> HIDE DEF n
          <6> QED BY <5>1
        <5>3. Admit(trusted, f, n) = "ok"
          BY <3>2, <4>1, <5>2, AdmittedField
        <5> HIDE DEF n
        <5>4. AdmitConsumer("v3", s, reply.record, trusted, f, n) = "ok"
          BY <1>5, <2>1, <4>3, <5>3, AdmittedConsumer
        <5> QED BY <5>4 DEF n
      <4> QED BY <3>1, <4>4, Zenon
    <3> QED BY <3>3, <3>4
  <2> HIDE DEF d, trusted, s, outcome
  <2> QED BY <1>1, <1>3, <1>4, <1>5, <2>1, <2>2 DEF d, s
<1>7. ASSUME outcome = "ok"  PROVE reply = GoodFaith
  <2>1. /\ reply.source = "harness" /\ reply.epoch = 1
        /\ reply.record = trusted /\ reply.value = d
    BY <1>1, <1>3, <1>4, <1>5, <1>7, Zenon
  <2>2. reply = [outcome |-> "accepted", scope |-> TrustedScope, epoch |-> 1,
                 source |-> "harness", record |-> trusted, value |-> d]
    BY <2>1, ReplyForm, Zenon
  <2> QED BY <2>2, Zenon DEF GoodFaith, Publication
<1> QED BY <1>2, <1>6, <1>7, Zenon DEF PresentsExactlyTheTrusted

(* However an owner restarts, selects other profiles, alters or withholds  *)
(* what it publishes, only what the operator configured as trusted is      *)
(* presented and admitted, and that always is (capability_admission.rs).   *)
THEOREM OffersStayTrusted == AdmissionSpec => []OffersAreTrusted
<1>1. AdmissionInit => OfferInv
  BY OfferInit
<1>2. OfferInv /\ [AdmissionNext]_admissionVars => OfferInv'
  BY OfferStep
<1>3. OfferInv => OffersAreTrusted
  BY TypesFromInv, PresentationFromInv, RowsFromInv, QueriesFromInv, RollbackFromInv
     DEF OffersAreTrusted
<1> QED BY <1>1, <1>2, <1>3, PTL DEF AdmissionSpec

=============================================================================
