--------------------------- MODULE AuthorityProofs ---------------------------
(***************************************************************************)
(* What a request rests on stays evidence, and a revocation before its     *)
(* last currentness check stops it, for any registries, grants, clocks and *)
(* number of edits; and no edit of the key manifest, rotation or crash     *)
(* makes a row of the journal unreadable.                                  *)
(***************************************************************************)
EXTENDS OwnerAuthority, JournalKeys, FiniteSetTheorems, WellFoundedInduction, TLAPS

-----------------------------------------------------------------------------
(* The grant table.                                                        *)

TableInv ==
  /\ GrantsTypeOK
  /\ IsFiniteSet(Stored)
  /\ StoreAcceptsItself

(* What reserve hands out are stored rows that are not revoked.            *)
LEMMA ReserveFinds ==
  ASSUME GrantsTypeOK, NEW subject, NEW scope, NEW required, NEW optional, NEW now,
         Reserve(subject, scope, required, optional, now) # None
  PROVE  \A e \in Reserve(subject, scope, required, optional, now) :
           /\ e.id \in Stored /\ e = Admitted(e.id) /\ ~grants[e.id].revoked
           /\ e \in AdmittedGrants
<1> DEFINE found == UNION {FindAdmitted(subject, scope, p, now) : p \in required \cup optional}
<1>1. Reserve(subject, scope, required, optional, now) = found
  BY DEF Reserve
<1>2. ASSUME NEW e \in found
      PROVE  e.id \in Stored /\ e = Admitted(e.id) /\ ~grants[e.id].revoked
  <2>1. PICK p \in required \cup optional : e \in FindAdmitted(subject, scope, p, now)
    OBVIOUS
  <2>2. PICK g \in GrantIds : Admissible(g, subject, scope, p, now) /\ e = Admitted(g)
    BY <2>1 DEF FindAdmitted
  <2>3. e.id = g
    BY <2>2 DEF Admitted
  <2> QED BY <2>2, <2>3 DEF Admissible
<1>3. ASSUME NEW g \in Stored  PROVE Admitted(g) \in AdmittedGrants
  <2>1. g \in GrantIds /\ grants[g] \in Rows
    BY <1>3 DEF Stored, GrantsTypeOK
  <2> QED BY <2>1 DEF Rows, Admitted, AdmittedGrants
<1> HIDE DEF found
<1> QED BY <1>1, <1>2, <1>3

(* An id is provisioned once, so no stored row changes.                    *)
LEMMA ProvisionTable ==
  ASSUME TableInv, NEW g \in GrantIds, NEW spec \in Specs, Provision(g, spec)
  PROVE  TableInv' /\ \A e \in Stored : e \in Stored' /\ grants'[e] = grants[e]
<1>1. NewRow(spec) \in Rows /\ NewRow(spec) # None
  <2>1. NewRow(spec) \in Rows
    BY DEF NewRow, Rows, Specs
  <2> QED BY <2>1, NoneAssumption
<1>2. /\ grants' = [grants EXCEPT ![g] = NewRow(spec)] /\ g \notin Stored
      /\ Cardinality(Stored) < MaxSubjectGrants /\ grants \in [GrantIds -> Rows \cup {None}]
  BY DEF Provision, Stored, TableInv, GrantsTypeOK
<1>3. Stored' = Stored \cup {g}
  BY <1>1, <1>2 DEF Stored
<1>4. IsFiniteSet(Stored') /\ Cardinality(Stored') = Cardinality(Stored) + 1
  BY <1>2, <1>3, FS_AddElement DEF TableInv
<1>5. Cardinality(Stored) \in Nat
  BY FS_CardinalityType DEF TableInv
<1>6. \A h \in Stored' : ValidRow(grants'[h])
  <2>1. ValidRow(NewRow(spec))
    BY DEF Provision, ValidSpec, NewRow, ValidRow
  <2>2. grants'[g] = NewRow(spec) /\ \A h \in Stored : grants'[h] = grants[h]
    BY <1>2 DEF Stored
  <2> QED BY <1>3, <2>1, <2>2 DEF TableInv, StoreAcceptsItself
<1>7. GrantsTypeOK'
  BY <1>1, <1>2 DEF GrantsTypeOK
<1>8. StoreAcceptsItself'
  BY <1>2, <1>4, <1>5, <1>6, SubjectGrantsAssumption DEF StoreAcceptsItself
<1>9. \A e \in Stored : e \in Stored' /\ grants'[e] = grants[e]
  BY <1>2, <1>3 DEF Stored
<1> QED BY <1>4, <1>7, <1>8, <1>9 DEF TableInv

(* The row a first revocation writes.                                      *)
LEMMA RevokedRow ==
  ASSUME NEW row \in Rows, row.generation = 0
  PROVE  LET new == [row EXCEPT !.revoked = TRUE, !.generation = @ + 1]
         IN  /\ new \in Rows /\ new.revoked /\ new.generation = 1
             /\ new.notBefore = row.notBefore /\ new.expires = row.expires
             /\ new.subject = row.subject /\ new.permission = row.permission
             /\ new.scope = row.scope
<1> DEFINE mid == [row EXCEPT !.revoked = TRUE]
           new == [mid EXCEPT !.generation = @ + 1]
<1>1. /\ mid \in Rows /\ mid.revoked /\ mid.generation = 0
      /\ mid.notBefore = row.notBefore /\ mid.expires = row.expires
      /\ mid.subject = row.subject /\ mid.permission = row.permission
      /\ mid.scope = row.scope
  BY DEF Rows
<1> HIDE DEF mid
<1>2. /\ new \in Rows /\ new.revoked /\ new.generation = 1
      /\ new.notBefore = mid.notBefore /\ new.expires = mid.expires
      /\ new.subject = mid.subject /\ new.permission = mid.permission
      /\ new.scope = mid.scope
  BY <1>1 DEF Rows
<1>3. new = [row EXCEPT !.revoked = TRUE, !.generation = @ + 1]
  BY DEF mid
<1> HIDE DEF new
<1> QED BY <1>1, <1>2, <1>3

(* A revocation marks one row, once, with a new generation.                *)
LEMMA RevokeTable ==
  ASSUME TableInv, NEW g \in GrantIds, Revoke(g)
  PROVE  /\ TableInv' /\ Stored' = Stored
         /\ \A e \in Stored :
              \/ grants'[e] = grants[e]
              \/ /\ ~grants[e].revoked /\ grants'[e].revoked /\ grants'[e] \in Rows
                 /\ grants'[e].generation # grants[e].generation
                 /\ Admitted(e)' = [Admitted(e) EXCEPT !.generation = grants'[e].generation]
<1> DEFINE row == grants[g]
           new == [row EXCEPT !.revoked = TRUE, !.generation = @ + 1]
<1>1. /\ g \in Stored /\ row \in Rows /\ grants \in [GrantIds -> Rows \cup {None}]
      /\ ValidRow(row)
  <2>1. g \in Stored /\ grants \in [GrantIds -> Rows \cup {None}]
    BY DEF Revoke, TableInv, GrantsTypeOK
  <2>2. row \in Rows
    BY <2>1 DEF Stored
  <2> QED BY <2>1, <2>2 DEF TableInv, StoreAcceptsItself
<1>2. CASE row.revoked
  <2>1. grants' = grants
    BY <1>2 DEF Revoke
  <2> QED BY <2>1 DEF TableInv, GrantsTypeOK, StoreAcceptsItself, Stored
<1>3. CASE ~row.revoked
  <2>1. grants' = [grants EXCEPT ![g] = new]
    BY <1>3 DEF Revoke
  <2>2. /\ new \in Rows /\ new.revoked /\ new.generation # row.generation
        /\ new.notBefore = row.notBefore /\ new.expires = row.expires
        /\ new.subject = row.subject /\ new.permission = row.permission
        /\ new.scope = row.scope /\ ValidRow(new)
    <3>1. row.generation = 0 /\ row.notBefore < row.expires
      BY <1>1, <1>3 DEF Rows, ValidRow
    <3>2. /\ new \in Rows /\ new.revoked /\ new.generation = 1
          /\ new.notBefore = row.notBefore /\ new.expires = row.expires
          /\ new.subject = row.subject /\ new.permission = row.permission
          /\ new.scope = row.scope
      BY <1>1, <3>1, RevokedRow
    <3> HIDE DEF new
    <3> QED BY <3>1, <3>2 DEF ValidRow
  <2> HIDE DEF new
  <2>3. new # None
    BY <2>2, NoneAssumption
  <2>4. Stored' = Stored
    BY <1>1, <2>1, <2>3 DEF Stored
  <2>5. TableInv'
    <3>1. GrantsTypeOK'
      BY <1>1, <2>1, <2>2 DEF GrantsTypeOK
    <3>2. \A h \in Stored' : ValidRow(grants'[h])
      BY <1>1, <2>1, <2>2, <2>4 DEF TableInv, StoreAcceptsItself, Stored
    <3> QED BY <2>4, <3>1, <3>2 DEF TableInv, StoreAcceptsItself
  <2>6. \A e \in Stored : e # g => grants'[e] = grants[e]
    BY <1>1, <2>1 DEF Stored
  <2>7. grants'[g] = new
    BY <1>1, <2>1 DEF Stored
  <2>8. Admitted(g)' = [Admitted(g) EXCEPT !.generation = grants'[g].generation]
    BY <2>2, <2>7 DEF Admitted
  <2> QED BY <1>3, <2>2, <2>4, <2>5, <2>6, <2>7, <2>8
<1> QED BY <1>2, <1>3

-----------------------------------------------------------------------------
(* The request.  Each currentness check that has passed clears what it     *)
(* looked at from the parts that had lapsed when the checks began.         *)
JobTypes ==
  /\ job = [f \in DOMAIN Idle |-> job[f]]
  /\ job.phase \in Phases /\ job.stage \in Stages
  /\ job.grants \subseteq AdmittedGrants

FenceInv ==
  /\ job.lapsed \subseteq {"principal", "slot", "grants"}
  /\ job.phase \notin {"idle", "received"} => job.principal # None
  /\ job.phase \notin {"idle", "received", "verified", "reserved"} => job.credential # None
  /\ job.phase = "samePrincipal" => "principal" \notin job.lapsed
  /\ job.phase = "sameSlot" => job.lapsed \subseteq {"grants"}
  /\ job.phase \in {"checked", "sent", "told"} => job.lapsed = {}

JobInv == JobTypes /\ FenceInv

(* The steps that admit a request.                                         *)
LEMMA AdmitJob ==
  ASSUME JobInv, GrantsTypeOK,
         \/ \E request \in Requests, use \in Uses : Receive(request, use)
         \/ Verify \/ ReserveGrants \/ ResolveSlot \/ Seal \/ Redeem \/ ReadCached
  PROVE  JobInv'
<1> USE DEF JobInv, JobTypes, FenceInv, Phases, Stages, Idle
<1>1. CASE \E request \in Requests, use \in Uses : Receive(request, use)
  <2>1. PICK request \in Requests, use \in Uses : Receive(request, use)
    BY <1>1
  <2>2. job' = [Idle EXCEPT !.phase = "received", !.request = request, !.use = use,
                            !.startWall = wall, !.startMono = mono, !.floor = wall]
    BY <2>1 DEF Receive
  <2> QED BY <2>2
<1>2. CASE Verify
  BY <1>2 DEF Verify
<1>3. CASE ReserveGrants
  <2> DEFINE found == Reserve(job.principal.subject, ConsoleScope, Permissions_(job), {},
                              Now(job))
  <2>1. /\ job.phase = "verified" /\ found # None
        /\ job' = [job EXCEPT !.phase = "reserved", !.grants = found, !.floor = Now(job)]
    BY <1>3 DEF ReserveGrants
  <2>2. found \subseteq AdmittedGrants
    BY <2>1, ReserveFinds
  <2> HIDE DEF found
  <2> QED BY <2>1, <2>2
<1>4. CASE ResolveSlot
  BY <1>4 DEF ResolveSlot
<1>5. CASE Seal
  BY <1>5 DEF Seal
<1>6. CASE Redeem
  BY <1>6 DEF Redeem
<1>7. CASE ReadCached
  BY <1>7 DEF ReadCached
<1> QED BY <1>1, <1>2, <1>3, <1>4, <1>5, <1>6, <1>7

(* A principal that verifies as before has not lapsed.                     *)
LEMMA SamePrincipalStands ==
  ASSUME NEW now, job.principal # None, Verified(job.request.bearer, now) = job.principal
  PROVE  "principal" \notin Lapsed(job)
BY DEF Verified, Lapsed, SamePrincipal

(* A slot that resolves as before has not lapsed.                          *)
LEMMA SameSlotStands ==
  ASSUME NEW principal, NEW scopes, NEW now, job.credential # None,
         Resolve(principal, scopes, now) = job.credential
  PROVE  "slot" \notin Lapsed(job)
<1> DEFINE mine == {s \in slots : /\ s.subject = principal.subject
                                  /\ s.credential = principal.credential
                                  /\ s.scope = ConsoleScope
                                  /\ ~s.revoked}
<1>1. PICK s \in mine : mine = {s} /\ Resolved(CHOOSE t \in mine : TRUE) = job.credential
  BY DEF Resolve
<1>2. Resolved(s) = job.credential /\ s \in slots /\ ~s.revoked
  BY <1>1
<1> QED BY <1>2 DEF Lapsed

(* Grants that are reserved as before have not lapsed.                     *)
LEMMA SameGrantsStand ==
  ASSUME GrantsTypeOK, NEW subject, NEW scope, NEW required, NEW now,
         job.grants \subseteq AdmittedGrants,
         Reserve(subject, scope, required, {}, now) # None,
         Reserve(subject, scope, required, {}, now) = job.grants
  PROVE  "grants" \notin Lapsed(job)
<1>1. \A e \in job.grants : ~grants[e.id].revoked
  BY ReserveFinds
<1> QED BY <1>1 DEF Lapsed

(* The steps of a currentness check.                                       *)
LEMMA CheckJob ==
  ASSUME JobInv, GrantsTypeOK, BeginCheck \/ CheckPrincipal \/ CheckSlot \/ CheckGrants
  PROVE  JobInv'
<1> USE DEF JobInv, JobTypes, FenceInv, Phases, Stages, Idle
<1>1. Lapsed(job) \subseteq {"principal", "slot", "grants"}
  BY DEF Lapsed
<1>2. CASE BeginCheck
  BY <1>1, <1>2 DEF BeginCheck
<1>3. CASE CheckPrincipal
  <2>1. "principal" \notin Lapsed(job)
    BY <1>3, SamePrincipalStands DEF CheckPrincipal
  <2> QED BY <1>3, <2>1 DEF CheckPrincipal
<1>4. CASE CheckSlot
  <2>1. "slot" \notin Lapsed(job)
    BY <1>4, SameSlotStands DEF CheckSlot
  <2> QED BY <1>4, <2>1 DEF CheckSlot
<1>5. CASE CheckGrants
  <2> DEFINE found == Reserve(job.principal.subject, ConsoleScope, Permissions_(job), {},
                              Now(job))
             lapsed == job.lapsed \cap Lapsed(job)
  <2>1. /\ job.phase = "sameSlot" /\ found # None /\ found = job.grants
        /\ job' = [job EXCEPT !.phase = "checked", !.floor = Now(job), !.lapsed = lapsed]
    BY <1>5 DEF CheckGrants
  <2>2. "grants" \notin Lapsed(job)
    BY <2>1, SameGrantsStand
  <2>3. lapsed = {} /\ job.principal # None /\ job.credential # None
    BY <2>1, <2>2
  <2> HIDE DEF found, lapsed
  <2> QED BY <2>1, <2>3
<1> QED BY <1>2, <1>3, <1>4, <1>5

(* The steps a check has let through.                                      *)
LEMMA UseJob ==
  ASSUME JobInv, Claim \/ Send \/ Answered \/ Accept \/ Tell \/ End
  PROVE  JobInv'
<1> USE DEF JobInv, JobTypes, FenceInv, Phases, Stages, Idle
<1>1. CASE Claim
  BY <1>1 DEF Claim
<1>2. CASE Send
  BY <1>2 DEF Send
<1>3. CASE Answered
  BY <1>3 DEF Answered
<1>4. CASE Accept
  BY <1>4 DEF Accept
<1>5. CASE Tell
  BY <1>5 DEF Tell
<1>6. CASE End
  BY <1>6 DEF End
<1> QED BY <1>1, <1>2, <1>3, <1>4, <1>5, <1>6

-----------------------------------------------------------------------------
AuthorityInv == TypeOK /\ TableInv /\ EvidenceIdentifiesRow /\ JobInv

(* Evidence of a row: the row is stored, unchanged but for a revocation,   *)
(* which its generation tells.                                             *)
Identifies(e) ==
  /\ e.id \in Stored
  /\ [Admitted(e.id) EXCEPT !.generation = e.generation] = e
  /\ grants[e.id].revoked <=> grants[e.id].generation # e.generation

LEMMA InitAuthority == Init => AuthorityInv
<1> SUFFICES ASSUME Init  PROVE AuthorityInv
  OBVIOUS
<1>1. GrantsTypeOK /\ Stored = {}
  BY DEF Init, GrantsInit, GrantsTypeOK, Stored
<1>2. IsFiniteSet(Stored) /\ Cardinality(Stored) = 0
  BY <1>1, FS_EmptySet
<1>3. TableInv
  BY <1>1, <1>2, SubjectGrantsAssumption DEF TableInv, StoreAcceptsItself
<1>4. JobInv
  BY DEF Init, JobInv, JobTypes, FenceInv, Idle, Phases, Stages
<1>5. TypeOK
  BY <1>1, <1>4, SubjectGrantsAssumption, OwnerAuthorityAssumption
  DEF Init, TypeOK, JobInv, JobTypes, Time
<1>6. EvidenceIdentifiesRow
  BY DEF Init, EvidenceIdentifiesRow
<1> QED BY <1>3, <1>4, <1>5, <1>6 DEF AuthorityInv

(* What was just reserved identifies its row: it is not revoked.           *)
LEMMA ReservedIdentifies ==
  ASSUME TableInv, NEW subject, NEW scope, NEW required, NEW optional, NEW now,
         Reserve(subject, scope, required, optional, now) # None
  PROVE  \A e \in Reserve(subject, scope, required, optional, now) :
           e \in AdmittedGrants /\ Identifies(e)
<1> SUFFICES ASSUME NEW e \in Reserve(subject, scope, required, optional, now)
             PROVE  e \in AdmittedGrants /\ Identifies(e)
  OBVIOUS
<1>1. e.id \in Stored /\ e = Admitted(e.id) /\ ~grants[e.id].revoked /\ e \in AdmittedGrants
  BY ReserveFinds DEF TableInv
<1>2. e.generation = grants[e.id].generation
  BY <1>1 DEF Admitted
<1>3. [Admitted(e.id) EXCEPT !.generation = e.generation] = e
  BY <1>1, <1>2 DEF Admitted
<1> QED BY <1>1, <1>2, <1>3 DEF Identifies

(* The steps that leave the registries and the evidence alone.             *)
LEMMA ServeAuthority ==
  ASSUME AuthorityInv, JobInv', UNCHANGED <<env, sealed>>
  PROVE  AuthorityInv'
<1>1. TypeOK'
  BY DEF AuthorityInv, TypeOK, GrantsTypeOK, JobInv, JobTypes, env
<1>2. TableInv'
  BY DEF AuthorityInv, TableInv, GrantsTypeOK, StoreAcceptsItself, Stored, ValidRow, env
<1>3. EvidenceIdentifiesRow'
  BY DEF AuthorityInv, EvidenceIdentifiesRow, Stored, Admitted, env
<1> QED BY <1>1, <1>2, <1>3 DEF AuthorityInv

(* The steps that seal evidence: each grant of it has just been reserved.  *)
LEMMA SealAuthority ==
  ASSUME AuthorityInv, JobInv', UNCHANGED env,
         NEW new, sealed' = sealed \cup new,
         \A e \in new : e \in AdmittedGrants /\ Identifies(e)
  PROVE  AuthorityInv'
<1>1. TypeOK'
  BY DEF AuthorityInv, TypeOK, GrantsTypeOK, JobInv, JobTypes, env
<1>2. TableInv'
  BY DEF AuthorityInv, TableInv, GrantsTypeOK, StoreAcceptsItself, Stored, ValidRow, env
<1>3. \A e \in sealed \cup new : Identifies(e)
  BY DEF AuthorityInv, EvidenceIdentifiesRow, Identifies
<1>4. EvidenceIdentifiesRow'
  BY <1>3 DEF EvidenceIdentifiesRow, Identifies, Stored, Admitted, env
<1> QED BY <1>1, <1>2, <1>4 DEF AuthorityInv

(* The steps around the request.                                           *)
LEMMA AroundAuthority ==
  ASSUME AuthorityInv, Tick \/ SetClock \/ EditPrincipals \/ EditSlots
  PROVE  AuthorityInv'
<1>1. UNCHANGED <<grants, job, sealed>>
  BY DEF Tick, SetClock, EditPrincipals, EditSlots, Unchanged
<1>2. wall' \in Time /\ mono' \in Time /\ edits' \in 0 .. MaxEdits
      /\ principals' \in PrincipalFiles /\ slots' \in SlotFiles
  BY SubjectGrantsAssumption, OwnerAuthorityAssumption
  DEF AuthorityInv, TypeOK, Tick, SetClock, EditPrincipals, EditSlots, Time
<1>3. TypeOK'
  BY <1>1, <1>2 DEF AuthorityInv, TypeOK, GrantsTypeOK
<1>4. TableInv'
  BY <1>1 DEF AuthorityInv, TableInv, GrantsTypeOK, StoreAcceptsItself, Stored, ValidRow
<1>5. EvidenceIdentifiesRow'
  BY <1>1 DEF AuthorityInv, EvidenceIdentifiesRow, Stored, Admitted
<1>6. JobInv'
  BY <1>1 DEF AuthorityInv, JobInv, JobTypes, FenceInv
<1> QED BY <1>3, <1>4, <1>5, <1>6 DEF AuthorityInv

(* The commands on the grant table.                                        *)
LEMMA TableAuthority ==
  ASSUME AuthorityInv, ProvisionGrant \/ RevokeGrant
  PROVE  AuthorityInv'
<1>1. /\ UNCHANGED <<principals, slots, wall, mono, job, sealed>>
      /\ edits' \in 0 .. MaxEdits
  BY OwnerAuthorityAssumption
  DEF AuthorityInv, TypeOK, ProvisionGrant, RevokeGrant, Unchanged
<1>2. JobInv'
  BY <1>1 DEF AuthorityInv, JobInv, JobTypes, FenceInv
<1>3. ASSUME TableInv'  PROVE TypeOK'
  BY <1>1, <1>3 DEF AuthorityInv, TypeOK, TableInv
<1>4. CASE ProvisionGrant
  <2>1. PICK g \in GrantIds, spec \in GrantSpecs : Provision(g, spec)
    BY <1>4 DEF ProvisionGrant
  <2>2. TableInv' /\ \A e \in Stored : e \in Stored' /\ grants'[e] = grants[e]
    BY <2>1, ProvisionTable, OwnerAuthorityAssumption DEF AuthorityInv
  <2>3. EvidenceIdentifiesRow'
    BY <1>1, <2>2 DEF AuthorityInv, EvidenceIdentifiesRow, Admitted
  <2> QED BY <1>2, <1>3, <2>2, <2>3 DEF AuthorityInv
<1>5. CASE RevokeGrant
  <2>1. PICK g \in GrantIds : Revoke(g)
    BY <1>5 DEF RevokeGrant
  <2>2. /\ TableInv' /\ Stored' = Stored
        /\ \A e \in Stored :
             \/ grants'[e] = grants[e]
             \/ /\ ~grants[e].revoked /\ grants'[e].revoked /\ grants'[e] \in Rows
                /\ grants'[e].generation # grants[e].generation
                /\ Admitted(e)' = [Admitted(e) EXCEPT !.generation = grants'[e].generation]
    BY <2>1, RevokeTable DEF AuthorityInv
  <2>3. ASSUME NEW e \in sealed
        PROVE  /\ e.id \in Stored'
               /\ [Admitted(e.id)' EXCEPT !.generation = e.generation] = e
               /\ grants'[e.id].revoked <=> grants'[e.id].generation # e.generation
    <3>1. /\ e.id \in Stored
          /\ [Admitted(e.id) EXCEPT !.generation = e.generation] = e
          /\ grants[e.id].revoked <=> grants[e.id].generation # e.generation
      BY DEF AuthorityInv, EvidenceIdentifiesRow
    <3>2. CASE grants'[e.id] = grants[e.id]
      BY <2>2, <3>1, <3>2 DEF Admitted
    <3>3. CASE grants'[e.id] # grants[e.id]
      <4>1. /\ ~grants[e.id].revoked /\ grants'[e.id].revoked
            /\ grants'[e.id].generation # grants[e.id].generation
            /\ Admitted(e.id)'
                 = [Admitted(e.id) EXCEPT !.generation = grants'[e.id].generation]
        BY <2>2, <3>1, <3>3
      <4>2. grants[e.id].generation = e.generation
        BY <3>1, <4>1
      <4>3. [Admitted(e.id)' EXCEPT !.generation = e.generation] = e
        BY <3>1, <4>1 DEF Admitted
      <4> QED BY <2>2, <3>1, <4>1, <4>2, <4>3
    <3> QED BY <3>2, <3>3
  <2>4. EvidenceIdentifiesRow'
    BY <1>1, <2>3 DEF EvidenceIdentifiesRow
  <2> QED BY <1>2, <1>3, <2>2, <2>4 DEF AuthorityInv
<1> QED BY <1>4, <1>5

LEMMA AuthorityInvariant == Spec => []AuthorityInv
<1>1. ASSUME AuthorityInv, [Next]_vars  PROVE AuthorityInv'
  <2> USE <1>1
  <2>1. CASE \/ \E request \in Requests, use \in Uses : Receive(request, use)
             \/ Verify \/ ReserveGrants \/ ResolveSlot \/ Redeem \/ ReadCached
    <3>1. JobInv'
      BY <2>1, AdmitJob DEF AuthorityInv, TableInv
    <3>2. UNCHANGED <<env, sealed>>
      BY <2>1 DEF Receive, Verify, ReserveGrants, ResolveSlot, Redeem, ReadCached
    <3> QED BY <3>1, <3>2, ServeAuthority
  <2>2. CASE Seal
    <3> DEFINE found == Reserve(job.principal.subject, ConsoleScope, Permissions_(job), {},
                                Now(job))
    <3>1. JobInv'
      BY <2>2, AdmitJob DEF AuthorityInv, TableInv
    <3>2. found = job.grants /\ sealed' = sealed \cup found /\ UNCHANGED env
      BY <2>2 DEF Seal
    <3>3. found # None
      BY <2>2 DEF Seal
    <3>4. \A e \in found : e \in AdmittedGrants /\ Identifies(e)
      BY <3>3, ReservedIdentifies DEF AuthorityInv
    <3> HIDE DEF found
    <3> QED BY <3>1, <3>2, <3>4, SealAuthority
  <2>3. CASE BeginCheck \/ CheckPrincipal \/ CheckSlot \/ CheckGrants
    <3>1. JobInv'
      BY <2>3, CheckJob DEF AuthorityInv, TableInv
    <3>2. UNCHANGED <<env, sealed>>
      BY <2>3 DEF BeginCheck, CheckPrincipal, CheckSlot, CheckGrants
    <3> QED BY <3>1, <3>2, ServeAuthority
  <2>4. CASE Claim \/ Send \/ Answered \/ Accept \/ Tell \/ End
    <3>1. JobInv'
      BY <2>4, UseJob DEF AuthorityInv
    <3>2. UNCHANGED <<env, sealed>>
      BY <2>4 DEF Claim, Send, Answered, Accept, Tell, End
    <3> QED BY <3>1, <3>2, ServeAuthority
  <2>5. CASE (\E request \in Requests : HttpArrive(request)) \/ HttpEnd \/ UNCHANGED vars
    <3>1. UNCHANGED <<env, job, sealed>>
      BY <2>5 DEF HttpArrive, HttpEnd, vars, env
    <3>2. JobInv'
      BY <3>1 DEF AuthorityInv, JobInv, JobTypes, FenceInv
    <3> QED BY <3>1, <3>2, ServeAuthority
  <2>6. CASE \E optional \in {{}, {"edit"}} :
               HttpAdmit(RequiredPermissions("read", "read"), optional)
    <3>1. PICK optional : HttpAdmit(RequiredPermissions("read", "read"), optional)
      BY <2>6
    <3> DEFINE principal == Verified(trusted.request.bearer, trusted.now)
               found == Reserve(principal.subject, ConsoleScope,
                                RequiredPermissions("read", "read"), optional, trusted.now)
    <3>2. PICK kept : kept \subseteq found /\ sealed' = sealed \cup kept
      BY <3>1 DEF HttpAdmit
    <3>3. found # None /\ UNCHANGED <<env, job>>
      BY <3>1 DEF HttpAdmit
    <3>4. \A e \in found : e \in AdmittedGrants /\ Identifies(e)
      BY <3>3, ReservedIdentifies DEF AuthorityInv
    <3>5. JobInv'
      BY <3>3 DEF AuthorityInv, JobInv, JobTypes, FenceInv
    <3> HIDE DEF found
    <3> QED BY <3>2, <3>3, <3>4, <3>5, SealAuthority
  <2>7. CASE Tick \/ SetClock \/ EditPrincipals \/ EditSlots
    BY <2>7, AroundAuthority
  <2>8. CASE ProvisionGrant \/ RevokeGrant
    BY <2>8, TableAuthority
  <2> QED BY <2>1, <2>2, <2>3, <2>4, <2>5, <2>6, <2>7, <2>8 DEF Next
<1>2. AuthorityInv /\ [Next]_vars => AuthorityInv'
  BY <1>1
<1> QED BY <1>2, InitAuthority, PTL DEF Spec

-----------------------------------------------------------------------------
(* The grant table never refuses itself, and what was sealed of a row      *)
(* names it ever after (provision, revoke, reserve), whatever requests and *)
(* commands interleave.                                                    *)
THEOREM EvidenceStands == Spec => []GrantsAreEvidence
<1>1. AuthorityInv => GrantsAreEvidence
  BY DEF AuthorityInv, TableInv, GrantsAreEvidence
<1> QED BY <1>1, AuthorityInvariant, PTL

(* A part of the sealed authority that was revoked or replaced before the  *)
(* last currentness check began, and stayed so, stops the request before   *)
(* it is claimed, sent, accepted or told.                                  *)
THEOREM RevocationFences == Spec => []RevocationIsFence
<1>1. AuthorityInv => RevocationIsFence
  BY DEF AuthorityInv, JobInv, FenceInv, RevocationIsFence
<1> QED BY <1>1, AuthorityInvariant, PTL

-----------------------------------------------------------------------------
(* Lifetimes.                                                              *)

(* A deadline counted from a start ends before every expiry.               *)
EndsBefore(deadline, start, origin, times) ==
  /\ deadline \in Int
  /\ \A t \in times : t \in Nat /\ origin + (deadline - start) <= t

Early == {"idle", "received", "verified", "reserved", "resolved"}

(* The request: what it was sealed with bounds the deadline, which bounds  *)
(* the send, and the bearer in use is of the sealed reference.             *)
LifetimeInv ==
  /\ job.startWall \in Nat /\ job.startMono \in Nat /\ job.floor \in Nat
  /\ job.startWall <= job.floor
  /\ job.phase # "idle" => job.request \in Requests
  /\ job.phase \notin {"idle", "received"} => job.principal.expires \in Nat
  /\ job.phase \notin {"idle", "received", "verified", "reserved"} =>
       job.credential.expires \in Nat
  /\ job.phase \notin Early =>
       /\ job.deadline \in Int
       /\ EndsBefore(job.deadline + 1, job.startMono, job.startWall,
                     Expiries(job.principal, job.credential, job.grants))

SendInv ==
  /\ job.phase \in Early \cup {"sealed"} => job.stage = "none" /\ job.sentAt = None
  /\ job.phase = "sent" => job.stage = "connect"
  /\ job.stage \in {"claim", "connect"} => job.redeemed.reference = job.credential.reference
  /\ job.sentAt # None => job.sentAt \in Nat /\ job.sentAt < job.deadline

(* The facade request: its end is no later than any expiry it rests on.    *)
TrustedInv ==
  trusted # None =>
    /\ trusted.phase \in {"arrived", "admitted"}
    /\ trusted.now \in Nat /\ trusted.started \in Nat
    /\ trusted.phase = "arrived" => trusted.request \in Requests
    /\ trusted.phase = "admitted" =>
         EndsBefore(trusted.until, trusted.started, trusted.now,
                    Expiries(trusted.principal, trusted.credential, trusted.grants))

UseInv == LifetimeInv /\ SendInv /\ TrustedInv

(* A set of times has an earliest one.                                     *)
LEMMA EarliestIsLeast ==
  ASSUME NEW S, S \subseteq Nat, S # {}
  PROVE  Earliest(S) \in S /\ \A t \in S : Earliest(S) <= t
<1>1. PICK x \in S : \A y \in S : ~(<<y, x>> \in OpToRel(<, Nat))
  BY NatLessThanWellFounded, WFMin
<1>2. \A y \in S : x <= y
  <2>1. ASSUME NEW y \in S  PROVE x <= y
    <3>1. y \in Nat /\ x \in Nat
      OBVIOUS
    <3>2. ~(y < x)
      BY <1>1, <3>1 DEF OpToRel
    <3> QED BY <3>1, <3>2
  <2> QED BY <2>1
<1> QED BY <1>2 DEF Earliest

(* The expiries of typed evidence are times.                               *)
LEMMA ExpiriesAreTimes ==
  ASSUME NEW principal, NEW credential, NEW found, principal.expires \in Nat,
         credential.expires \in Nat, found \subseteq AdmittedGrants
  PROVE  /\ Expiries(principal, credential, found) \subseteq Nat
         /\ Expiries(principal, credential, found) # {}
<1>1. \A g \in found : g.expires \in Nat
  BY SubjectGrantsAssumption DEF AdmittedGrants, Time
<1> QED BY <1>1 DEF Expiries

(* What the registries tell expires.                                       *)
LEMMA VerifiedExpires ==
  ASSUME TypeOK, NEW bearer \in Bearers, NEW now, Verified(bearer, now) # None
  PROVE  Verified(bearer, now).expires \in Nat
<1>1. principals \in PrincipalFiles /\ principals[bearer] # None
  BY DEF TypeOK, Verified
<1>2. principals[bearer].expires \in Nat
  BY <1>1, RegistriesAssumption
<1> QED BY <1>2 DEF Verified

LEMMA ResolvedExpires ==
  ASSUME TypeOK, NEW principal, NEW scopes, NEW now, Resolve(principal, scopes, now) # None
  PROVE  Resolve(principal, scopes, now).expires \in Nat
<1> DEFINE mine == {s \in slots : /\ s.subject = principal.subject
                                  /\ s.credential = principal.credential
                                  /\ s.scope = ConsoleScope
                                  /\ ~s.revoked}
           chosen == CHOOSE s \in mine : TRUE
<1>1. mine # {} /\ Resolve(principal, scopes, now) = Resolved(chosen)
  BY DEF Resolve
<1>2. chosen \in slots
  BY <1>1
<1>3. chosen.expires \in Nat
  BY <1>2, RegistriesAssumption DEF TypeOK
<1> HIDE DEF chosen
<1> QED BY <1>1, <1>3 DEF Resolved

LEMMA NowIsLater ==
  ASSUME TypeOK, LifetimeInv
  PROVE  Now(job) \in Nat /\ job.floor <= Now(job) /\ job.startWall <= Now(job)
<1>1. wall \in Nat /\ job.floor \in Nat /\ job.startWall \in Nat /\ job.startWall <= job.floor
  BY SubjectGrantsAssumption DEF TypeOK, Time, LifetimeInv
<1> QED BY <1>1 DEF Now

(* A step that keeps the evidence keeps what bounds the deadline.          *)
LEMMA EvidenceKept ==
  ASSUME TypeOK, LifetimeInv, job.phase \notin Early, job'.phase \notin Early,
         job'.floor \in {job.floor, Now(job)}, job'.request = job.request,
         job'.startWall = job.startWall, job'.startMono = job.startMono,
         job'.principal = job.principal, job'.credential = job.credential,
         job'.grants = job.grants, job'.deadline = job.deadline
  PROVE  LifetimeInv'
<1>1. job'.floor \in Nat /\ job.startWall <= job'.floor
  BY NowIsLater DEF LifetimeInv
<1>2. job'.phase \notin {"idle", "received", "verified", "reserved"}
  BY DEF Early
<1>3. /\ job.request \in Requests
      /\ job.principal.expires \in Nat /\ job.credential.expires \in Nat
  BY DEF LifetimeInv, Early
<1>4. /\ job.deadline \in Int
      /\ EndsBefore(job.deadline + 1, job.startMono, job.startWall,
                    Expiries(job.principal, job.credential, job.grants))
  BY DEF LifetimeInv
<1> QED BY <1>1, <1>2, <1>3, <1>4 DEF LifetimeInv

(* The steps that gather the evidence.                                     *)
LEMMA GatherUse ==
  ASSUME TypeOK, JobTypes, LifetimeInv, SendInv,
         \/ \E request \in Requests, use \in Uses : Receive(request, use)
         \/ Verify \/ ReserveGrants \/ ResolveSlot
  PROVE  LifetimeInv' /\ SendInv'
<1> USE DEF JobTypes, LifetimeInv, SendInv, Early, Idle
<1>1. Now(job) \in Nat /\ job.startWall <= Now(job) /\ wall \in Nat /\ mono \in Nat
  BY NowIsLater, SubjectGrantsAssumption DEF TypeOK, Time
<1>2. CASE \E request \in Requests, use \in Uses : Receive(request, use)
  <2>1. PICK request \in Requests, use \in Uses : Receive(request, use)
    BY <1>2
  <2>2. /\ job'.phase = "received" /\ job'.request = request /\ job'.stage = "none"
        /\ job'.startWall = wall /\ job'.startMono = mono /\ job'.floor = wall
        /\ job'.sentAt = None
    BY <2>1 DEF Receive
  <2> QED BY <1>1, <2>2
<1>3. CASE Verify
  <2> DEFINE principal == Verified(job.request.bearer, Now(job))
  <2>1. /\ job.phase = "received" /\ principal # None
        /\ job' = [job EXCEPT !.phase = "verified", !.principal = principal,
                              !.floor = Now(job)]
    BY <1>3 DEF Verify
  <2>2. job.request.bearer \in Bearers
    BY <2>1, RequestsAssumption DEF RequestType
  <2>3. principal.expires \in Nat
    BY <2>1, <2>2, VerifiedExpires
  <2> HIDE DEF principal
  <2> QED BY <1>1, <2>1, <2>3
<1>4. CASE ReserveGrants
  <2> DEFINE found == Reserve(job.principal.subject, ConsoleScope, Permissions_(job), {},
                              Now(job))
  <2>1. /\ job.phase = "verified"
        /\ job' = [job EXCEPT !.phase = "reserved", !.grants = found, !.floor = Now(job)]
    BY <1>4 DEF ReserveGrants
  <2> HIDE DEF found
  <2> QED BY <1>1, <2>1
<1>5. CASE ResolveSlot
  <2> DEFINE credential == Resolve(job.principal, RequiredScopes(job.request.op, job.use),
                                   Now(job))
  <2>1. /\ job.phase = "reserved" /\ credential # None
        /\ job' = [job EXCEPT !.phase = "resolved", !.credential = credential,
                              !.floor = Now(job)]
    BY <1>5 DEF ResolveSlot
  <2>2. credential.expires \in Nat
    BY <2>1, ResolvedExpires
  <2> HIDE DEF credential
  <2> QED BY <1>1, <2>1, <2>2
<1> QED BY <1>2, <1>3, <1>4, <1>5

(* The seal: the deadline is counted from the start of the request, less   *)
(* the time that has passed on the floored clock.                          *)
LEMMA SealUse ==
  ASSUME TypeOK, JobTypes, LifetimeInv, SendInv, Seal
  PROVE  LifetimeInv' /\ SendInv'
<1> DEFINE times == Expiries(job.principal, job.credential, job.grants)
           remaining == Earliest(times)
           now == Now(job)
           deadline == job.startMono + remaining - now - 1
<1>1. now \in Nat /\ job.startWall <= now
  BY NowIsLater
<1>2. /\ job.phase = "resolved"
      /\ job' = [job EXCEPT !.phase = "sealed", !.floor = now, !.deadline = deadline]
  BY DEF Seal
<1>3. /\ job.principal.expires \in Nat /\ job.credential.expires \in Nat
      /\ job.startMono \in Nat /\ job.startWall \in Nat /\ job.request \in Requests
  BY <1>2 DEF LifetimeInv
<1>4. times \subseteq Nat /\ times # {}
  BY <1>3, ExpiriesAreTimes DEF JobTypes
<1>5. remaining \in Nat /\ \A t \in times : t \in Nat /\ remaining <= t
  <2> HIDE DEF times
  <2> QED BY <1>4, EarliestIsLeast
<1>6. deadline \in Int /\ EndsBefore(deadline + 1, job.startMono, job.startWall, times)
  <2> HIDE DEF times, remaining, now
  <2>1. deadline + 1 = job.startMono + remaining - now /\ deadline \in Int
    BY <1>1, <1>3, <1>5
  <2>2. \A t \in times : job.startWall + ((deadline + 1) - job.startMono) <= t
    BY <1>1, <1>3, <1>5, <2>1
  <2> QED BY <1>5, <2>1, <2>2 DEF EndsBefore
<1> HIDE DEF remaining, now, deadline
<1>7. /\ job'.phase = "sealed" /\ job'.floor = now /\ job'.deadline = deadline
      /\ \A f \in {"stage", "request", "startWall", "startMono", "principal", "credential",
                   "grants", "redeemed", "sentAt"} : job'[f] = job[f]
  BY <1>2 DEF JobTypes, Idle
<1>8. LifetimeInv'
  BY <1>1, <1>3, <1>6, <1>7 DEF LifetimeInv, Early
<1>9. SendInv'
  BY <1>2, <1>7 DEF SendInv, Early
<1> QED BY <1>8, <1>9

(* The steps under the seal: the evidence stays, and what is redeemed is   *)
(* of its reference.                                                       *)
LEMMA SealedUse ==
  ASSUME TypeOK, JobTypes, LifetimeInv, SendInv,
         Redeem \/ ReadCached \/ BeginCheck \/ CheckPrincipal \/ CheckSlot \/ CheckGrants
           \/ Claim \/ Send \/ Answered \/ Accept \/ Tell
  PROVE  LifetimeInv' /\ SendInv'
<1> DEFINE kept == {"request", "startWall", "startMono", "principal", "credential", "grants",
                    "deadline"}
<1>1. /\ job.phase \notin Early /\ job'.phase \notin Early
      /\ job'.floor \in {job.floor, Now(job)}
      /\ \A f \in kept : job'[f] = job[f]
      /\ SendInv'
  <2> USE DEF JobTypes, Idle, Early, SendInv
  <2>1. CASE Redeem
    <3>1. PICK s : /\ job.phase = "sealed" /\ Redeemable(s, job)
                   /\ job' = [job EXCEPT !.phase = "live", !.stage = "claim", !.redeemed = s]
      BY <2>1 DEF Redeem
    <3>2. s.reference = job.credential.reference
      BY <3>1 DEF Redeemable
    <3>3. /\ job'.phase = "live" /\ job'.stage = "claim" /\ job'.redeemed = s
          /\ job'.floor = job.floor /\ job'.sentAt = None
          /\ \A f \in kept : job'[f] = job[f]
      BY <3>1
    <3> QED BY <3>1, <3>2, <3>3
  <2>2. CASE ReadCached
    BY <2>2 DEF ReadCached
  <2>3. CASE BeginCheck
    <3>1. /\ job.phase = "live"
          /\ job' = [job EXCEPT !.phase = "began", !.floor = Now(job), !.lapsed = Lapsed(job)]
      BY <2>3 DEF BeginCheck
    <3> QED BY <3>1
  <2>4. CASE CheckPrincipal
    <3>1. /\ job.phase = "began"
          /\ job' = [job EXCEPT !.phase = "samePrincipal", !.floor = Now(job),
                                !.lapsed = @ \cap Lapsed(job)]
      BY <2>4 DEF CheckPrincipal
    <3> QED BY <3>1
  <2>5. CASE CheckSlot
    <3>1. /\ job.phase = "samePrincipal"
          /\ job' = [job EXCEPT !.phase = "sameSlot", !.floor = Now(job),
                                !.lapsed = @ \cap Lapsed(job)]
      BY <2>5 DEF CheckSlot
    <3> QED BY <3>1
  <2>6. CASE CheckGrants
    <3>1. /\ job.phase = "sameSlot"
          /\ job' = [job EXCEPT !.phase = "checked", !.floor = Now(job),
                                !.lapsed = @ \cap Lapsed(job)]
      BY <2>6 DEF CheckGrants
    <3> QED BY <3>1
  <2>7. CASE Claim
    BY <2>7 DEF Claim
  <2>8. CASE Send
    <3>1. mono \in Nat
      BY SubjectGrantsAssumption DEF TypeOK, Time
    <3> QED BY <2>8, <3>1 DEF Send
  <2>9. CASE Answered
    BY <2>9 DEF Answered
  <2>10. CASE Accept
    BY <2>10 DEF Accept
  <2>11. CASE Tell
    BY <2>11 DEF Tell
  <2> QED BY <2>1, <2>2, <2>3, <2>4, <2>5, <2>6, <2>7, <2>8, <2>9, <2>10, <2>11
<1>2. LifetimeInv'
  BY <1>1, EvidenceKept
<1> QED BY <1>1, <1>2

LEMMA EndUse ==
  ASSUME End  PROVE LifetimeInv' /\ SendInv'
BY DEF End, LifetimeInv, SendInv, Idle, Early

-----------------------------------------------------------------------------
(* The facade request.  Its end is counted from its start, as its evidence *)
(* from the time it was admitted at.                                       *)
LEMMA AdmittedEnds ==
  ASSUME TypeOK, GrantsTypeOK, TrustedInv, NEW required, NEW optional,
         HttpAdmit(required, optional)
  PROVE  TrustedInv'
<1> DEFINE now == trusted.now
           principal == Verified(trusted.request.bearer, now)
           found == Reserve(principal.subject, ConsoleScope, required, optional, now)
           credential == Resolve(principal, {HarnessScope(g.permission) : g \in found}, now)
           kept == {g \in found : HarnessScope(g.permission) \in credential.scopes}
           times == Expiries(principal, credential, kept)
           earliest == Earliest(times)
           until == trusted.started + earliest - now
<1>1. /\ trusted # None /\ trusted.phase = "arrived"
      /\ principal # None /\ found # None /\ credential # None
      /\ trusted' = [ phase |-> "admitted", now |-> now, started |-> trusted.started,
                      principal |-> principal, credential |-> credential, grants |-> kept,
                      until |-> until ]
  BY DEF HttpAdmit, LifetimeStart
<1>2. now \in Nat /\ trusted.started \in Nat /\ trusted.request.bearer \in Bearers
  BY <1>1, RequestsAssumption DEF TrustedInv, RequestType
<1>3. principal.expires \in Nat
  BY <1>1, <1>2, VerifiedExpires
<1>4. credential.expires \in Nat
  <2> HIDE DEF principal, found
  <2> QED BY <1>1, ResolvedExpires
<1>5. kept \subseteq AdmittedGrants
  <2>1. \A e \in found : e \in AdmittedGrants
    <3> HIDE DEF principal
    <3> QED BY <1>1, ReserveFinds
  <2> HIDE DEF found, credential
  <2> QED BY <2>1
<1>6. times \subseteq Nat /\ times # {}
  <2> HIDE DEF principal, credential, kept
  <2> QED BY <1>3, <1>4, <1>5, ExpiriesAreTimes
<1>7. earliest \in Nat /\ \A t \in times : t \in Nat /\ earliest <= t
  <2> HIDE DEF times
  <2> QED BY <1>6, EarliestIsLeast
<1>8. EndsBefore(until, trusted.started, now, times)
  <2> HIDE DEF times, earliest, now
  <2>1. until \in Int /\ now + (until - trusted.started) = earliest
    BY <1>2, <1>7
  <2> QED BY <1>7, <2>1 DEF EndsBefore
<1>9. /\ trusted'.phase = "admitted" /\ trusted'.now = now /\ trusted'.until = until
      /\ trusted'.started = trusted.started /\ trusted'.principal = principal
      /\ trusted'.credential = credential /\ trusted'.grants = kept
  <2> HIDE DEF now, principal, credential, kept, until
  <2> QED BY <1>1
<1>10. EndsBefore(trusted'.until, trusted'.started, trusted'.now,
                  Expiries(trusted'.principal, trusted'.credential, trusted'.grants))
  <2> HIDE DEF now, principal, credential, kept, until
  <2> QED BY <1>8, <1>9
<1> HIDE DEF now, principal, credential, kept, until
<1> QED BY <1>2, <1>9, <1>10 DEF TrustedInv

LEMMA UseInvariant == Spec => []UseInv
<1>1. Init => UseInv
  <2> SUFFICES ASSUME Init  PROVE UseInv
    OBVIOUS
  <2>1. LifetimeInv /\ SendInv
    BY DEF Init, LifetimeInv, SendInv, Idle, Early
  <2>2. TrustedInv
    BY DEF Init, TrustedInv
  <2> QED BY <2>1, <2>2 DEF UseInv
<1>2. ASSUME AuthorityInv, UseInv, [Next]_vars  PROVE UseInv'
  <2>1. TypeOK /\ GrantsTypeOK /\ JobTypes /\ LifetimeInv /\ SendInv /\ TrustedInv
    BY <1>2 DEF AuthorityInv, TableInv, JobInv, UseInv
  <2>2. ASSUME trusted' = trusted  PROVE TrustedInv'
    BY <2>1, <2>2 DEF TrustedInv
  <2>3. ASSUME job' = job  PROVE LifetimeInv' /\ SendInv'
    BY <2>1, <2>3 DEF LifetimeInv, SendInv
  <2>4. CASE \/ \E request \in Requests, use \in Uses : Receive(request, use)
             \/ Verify \/ ReserveGrants \/ ResolveSlot
    <3>1. trusted' = trusted
      BY <2>4 DEF Receive, Verify, ReserveGrants, ResolveSlot
    <3>2. LifetimeInv' /\ SendInv'
      BY <2>1, <2>4, GatherUse
    <3> QED BY <2>2, <3>1, <3>2 DEF UseInv
  <2>5. CASE Seal
    <3>1. trusted' = trusted
      BY <2>5 DEF Seal
    <3>2. LifetimeInv' /\ SendInv'
      BY <2>1, <2>5, SealUse
    <3> QED BY <2>2, <3>1, <3>2 DEF UseInv
  <2>6. CASE \/ Redeem \/ ReadCached \/ BeginCheck \/ CheckPrincipal \/ CheckSlot
             \/ CheckGrants \/ Claim \/ Send \/ Answered \/ Accept \/ Tell
    <3>1. trusted' = trusted
      BY <2>6 DEF Redeem, ReadCached, BeginCheck, CheckPrincipal, CheckSlot, CheckGrants,
                  Claim, Send, Answered, Accept, Tell
    <3>2. LifetimeInv' /\ SendInv'
      BY <2>1, <2>6, SealedUse
    <3> QED BY <2>2, <3>1, <3>2 DEF UseInv
  <2>7. CASE End
    <3>1. trusted' = trusted
      BY <2>7 DEF End
    <3> QED BY <2>2, <2>7, <3>1, EndUse DEF UseInv
  <2>8. CASE \E request \in Requests : HttpArrive(request)
    <3>1. PICK request \in Requests : HttpArrive(request)
      BY <2>8
    <3>2. wall \in Nat /\ mono \in Nat
      BY <2>1, SubjectGrantsAssumption DEF TypeOK, Time
    <3>3. TrustedInv' /\ job' = job
      BY <3>1, <3>2 DEF HttpArrive, TrustedInv
    <3> QED BY <2>3, <3>3 DEF UseInv
  <2>9. CASE \E optional \in {{}, {"edit"}} :
               HttpAdmit(RequiredPermissions("read", "read"), optional)
    <3>1. PICK optional \in {{}, {"edit"}} :
                 HttpAdmit(RequiredPermissions("read", "read"), optional)
      BY <2>9
    <3>2. TrustedInv'
      BY <2>1, <3>1, AdmittedEnds
    <3>3. job' = job
      BY <3>1 DEF HttpAdmit
    <3> QED BY <2>3, <3>2, <3>3 DEF UseInv
  <2>10. CASE HttpEnd
    BY <2>3, <2>10 DEF HttpEnd, TrustedInv, UseInv
  <2>11. CASE \/ Tick \/ SetClock \/ EditPrincipals \/ EditSlots \/ ProvisionGrant
              \/ RevokeGrant \/ UNCHANGED vars
    <3>1. job' = job /\ trusted' = trusted
      BY <2>11 DEF Tick, SetClock, EditPrincipals, EditSlots, ProvisionGrant, RevokeGrant,
                   Unchanged, vars
    <3> QED BY <2>2, <2>3, <3>1 DEF UseInv
  <2> QED BY <1>2, <2>4, <2>5, <2>6, <2>7, <2>8, <2>9, <2>10, <2>11 DEF Next
<1>3. AuthorityInv /\ UseInv /\ [Next]_vars => UseInv'
  BY <1>2
<1> QED BY <1>1, <1>3, AuthorityInvariant, PTL DEF Spec

(* What a request sends, it sends before the earliest expiry of what it    *)
(* was sealed with, counted from its arrival and however the wall clock is *)
(* set, and with the bearer of the sealed reference; and a facade request  *)
(* is permitted nothing after the evidence it rests on has expired         *)
(* (AuthenticatedIngress::admit, exchange_with_authorization, permits).    *)
THEOREM SendsRestOnEvidence == Spec => []SentUnderEvidence
<1>1. ASSUME AuthorityInv, UseInv  PROVE SentUnderEvidence
  <2>1. SentWithinLifetime
    <3> SUFFICES ASSUME job.sentAt # None,
                        NEW t \in Expiries(job.principal, job.credential, job.grants)
                 PROVE  job.startWall + (job.sentAt - job.startMono) < t
      BY DEF SentWithinLifetime
    <3>1. /\ job.phase \notin Early /\ job.sentAt \in Nat /\ job.sentAt < job.deadline
          /\ job.startWall \in Nat /\ job.startMono \in Nat
      BY <1>1 DEF UseInv, LifetimeInv, SendInv
    <3>2. /\ job.deadline \in Int /\ t \in Nat
          /\ job.startWall + ((job.deadline + 1) - job.startMono) <= t
      BY <1>1, <3>1 DEF UseInv, LifetimeInv, EndsBefore
    <3> QED BY <3>1, <3>2
  <2>2. SentBearerIsSealed
    BY <1>1 DEF SentBearerIsSealed, UseInv, SendInv
  <2>3. TrustedWithinLifetime
    <3> SUFFICES ASSUME trusted # None, trusted.phase = "admitted",
                        NEW p \in Permissions, Permits(trusted, p)
                 PROVE  \E g \in trusted.grants :
                          /\ g.permission = p
                          /\ \A t \in Expiries(trusted.principal, trusted.credential, {g}) :
                               trusted.now + (mono - trusted.started) < t
      BY DEF TrustedWithinLifetime
    <3>1. PICK g \in trusted.grants : g.permission = p /\ mono < trusted.until
      BY DEF Permits
    <3>2. \A t \in Expiries(trusted.principal, trusted.credential, {g}) :
            t \in Expiries(trusted.principal, trusted.credential, trusted.grants)
      BY DEF Expiries
    <3>3. mono \in Nat /\ trusted.now \in Nat /\ trusted.started \in Nat
      BY <1>1, SubjectGrantsAssumption DEF AuthorityInv, TypeOK, Time, UseInv, TrustedInv
    <3>4. /\ trusted.until \in Int
          /\ \A t \in Expiries(trusted.principal, trusted.credential, trusted.grants) :
               t \in Nat /\ trusted.now + (trusted.until - trusted.started) <= t
      BY <1>1 DEF UseInv, TrustedInv, EndsBefore
    <3>5. ASSUME NEW t \in Expiries(trusted.principal, trusted.credential, {g})
          PROVE  trusted.now + (mono - trusted.started) < t
      <4>1. t \in Nat /\ trusted.now + (trusted.until - trusted.started) <= t
        BY <3>2, <3>4
      <4> QED BY <3>1, <3>3, <3>4, <4>1
    <3> QED BY <3>1, <3>5
  <2> QED BY <2>1, <2>2, <2>3 DEF SentUnderEvidence
<1>2. AuthorityInv /\ UseInv => SentUnderEvidence
  BY <1>1
<1> QED BY <1>2, AuthorityInvariant, UseInvariant, PTL

-----------------------------------------------------------------------------
(* The keys of the journal.                                                *)

(* One row per written locator, with its last body, and every row under    *)
(* the index key the journal was created with.                             *)
RowsInv ==
  /\ \A row \in rows : /\ row.tagIndex = meta /\ row.index = meta
                       /\ row.body = written[row.locator]
  /\ \A r, s \in rows : r.locator = s.locator => r = s
  /\ \A l \in Locators : written[l] # 0 => \E row \in rows : row.locator = l

(* An open store has that index key; until a rotation commits its keys     *)
(* open all rows, and from its load on the keys to come hold all of them.  *)
StoreInv ==
  store # NoKeys =>
    /\ store.keys.index = meta
    /\ store.stage # "committed" => RowsOpen(store.keys)
    /\ store.stage # "open" => store.next.index = meta /\ RowsOpen(store.next)

KeysInv == KeysTypeOK /\ RowsInv /\ StoreInv

-----------------------------------------------------------------------------
(* The fields of a valid manifest.                                         *)
LEMMA ManifestFields ==
  ASSUME NEW m \in Manifests
  PROVE  /\ m.index \in Materials /\ m.current \in KeyIds
         /\ m.current \in DOMAIN m.data /\ m.data[m.current] \in Materials
<1>1. /\ m.index \in Materials /\ m.current \in KeyIds /\ m.current \in DOMAIN m.data
      /\ m.data \in UNION {[ids -> Materials] : ids \in SUBSET KeyIds}
  BY DEF Manifests
<1>2. PICK ids \in SUBSET KeyIds : m.data \in [ids -> Materials]
  BY <1>1
<1> QED BY <1>1, <1>2

(* A sealed row has the type of a row and opens under the keys it was      *)
(* sealed with when its tag is of their index key.                         *)
LEMMA SealedOpens ==
  ASSUME NEW keys \in Manifests, NEW l \in Locators, NEW tag \in Materials,
         NEW body \in 1 .. MaxBody
  PROVE  LET row == SealedRow(keys, l, tag, body)
         IN  /\ row \in JournalRows
             /\ row.locator = l /\ row.tagIndex = tag /\ row.index = keys.index
             /\ row.body = body
             /\ tag = keys.index => Opens(keys, row)
BY ManifestFields DEF SealedRow, JournalRows, Opens

(* Keys that retain others open whatever those open.                       *)
LEMMA RetainedOpen ==
  ASSUME NEW keys, NEW new, SameIndex(keys, new), Retains(keys, new), RowsOpen(keys)
  PROVE  RowsOpen(new)
BY DEF SameIndex, Retains, RowsOpen, Opens

-----------------------------------------------------------------------------
LEMMA KeysInitInv == KeysInit => KeysInv
BY JournalKeysAssumption DEF KeysInit, KeysInv, KeysTypeOK, RowsInv, StoreInv

(* Opening records the index key of an empty journal, or finds its own.    *)
LEMMA OpenInv == KeysInv /\ Open => KeysInv'
<1> SUFFICES ASSUME KeysInv, Open  PROVE KeysInv'
  OBVIOUS
<1> USE DEF Open, KeysInv
<1>1. KeysTypeOK'
  BY ManifestFields, NoKeysAssumption DEF KeysTypeOK, Stores
<1>2. rows # {} => meta' = meta
  BY DEF IndexAgrees
<1>3. RowsInv'
  BY <1>2 DEF RowsInv
<1>4. StoreInv'
  BY DEF StoreInv, RowsOpen
<1> QED BY <1>1, <1>3, <1>4

(* A write replaces the one row of its locator by one the store opens.     *)
LEMMA WriteInv == ASSUME NEW l \in Locators  PROVE KeysInv /\ Write(l) => KeysInv'
<1> SUFFICES ASSUME KeysInv, Write(l)  PROVE KeysInv'
  OBVIOUS
<1> DEFINE found == {row \in rows : row.locator = l /\ row.tagIndex = store.keys.index}
           new == SealedRow(store.keys, l, store.keys.index, written[l] + 1)
<1>1. /\ store # NoKeys /\ store.stage = "open" /\ store.keys \in Manifests
      /\ store.keys.index \in Materials /\ store.keys.index = meta
      /\ RowsOpen(store.keys)
  BY ManifestFields DEF KeysInv, KeysTypeOK, StoreInv, Stores, Write
<1>2. /\ rows' = (rows \ found) \cup {new}
      /\ written' = [written EXCEPT ![l] = @ + 1]
      /\ UNCHANGED <<manifest, meta, store>>
  BY DEF Write
<1>3. written[l] + 1 \in 1 .. MaxBody /\ written \in [Locators -> 0 .. MaxBody]
  BY JournalKeysAssumption DEF Write, KeysInv, KeysTypeOK
<1>4. /\ new \in JournalRows /\ new.locator = l /\ new.body = written[l] + 1
      /\ new.tagIndex = meta /\ new.index = meta /\ Opens(store.keys, new)
  BY <1>1, <1>3, SealedOpens
<1>5. found = {row \in rows : row.locator = l}
  BY <1>1 DEF KeysInv, RowsInv
<1> HIDE DEF found, new
<1>6. KeysTypeOK'
  BY <1>2, <1>3, <1>4 DEF KeysInv, KeysTypeOK
<1>7. RowsInv'
  <2>1. \A row \in rows' : /\ row.tagIndex = meta' /\ row.index = meta'
                           /\ row.body = written'[row.locator]
    <3>1. \A row \in rows : row.locator \in Locators
      BY DEF KeysInv, KeysTypeOK, JournalRows
    <3> QED BY <1>2, <1>3, <1>4, <1>5, <3>1 DEF KeysInv, RowsInv
  <2>2. \A r, s \in rows' : r.locator = s.locator => r = s
    BY <1>2, <1>4, <1>5 DEF KeysInv, RowsInv
  <2>3. \A k \in Locators : written'[k] # 0 => \E row \in rows' : row.locator = k
    BY <1>2, <1>3, <1>4, <1>5 DEF KeysInv, RowsInv
  <2> QED BY <2>1, <2>2, <2>3 DEF RowsInv
<1>8. StoreInv'
  BY <1>1, <1>2, <1>4 DEF StoreInv, RowsOpen, Opens
<1> QED BY <1>6, <1>7, <1>8 DEF KeysInv

(* Loaded keys open all rows because they retain the keys in use.          *)
LEMMA RotateLoadInv == KeysInv /\ RotateLoad => KeysInv'
<1> SUFFICES ASSUME KeysInv, RotateLoad  PROVE KeysInv'
  OBVIOUS
<1>1. /\ store # NoKeys /\ store.stage = "open" /\ store \in Stores
      /\ manifest \in Manifests /\ store.keys.index = meta /\ RowsOpen(store.keys)
  BY DEF KeysInv, KeysTypeOK, StoreInv, RotateLoad
<1>2. /\ store' = [store EXCEPT !.next = manifest, !.stage = "loaded"]
      /\ UNCHANGED <<manifest, meta, rows, written>>
  BY DEF RotateLoad
<1>3. manifest.index = meta /\ RowsOpen(manifest)
  BY <1>1, RetainedOpen DEF RotateLoad, SameIndex
<1>4. /\ store' \in Stores /\ store'.keys = store.keys /\ store'.next = manifest
      /\ store'.stage = "loaded"
  BY <1>1, <1>2 DEF Stores
<1>5. KeysTypeOK'
  BY <1>1, <1>2, <1>4, NoKeysAssumption DEF KeysInv, KeysTypeOK
<1>6. RowsInv'
  BY <1>2 DEF KeysInv, RowsInv
<1>7. StoreInv'
  BY <1>1, <1>2, <1>3, <1>4 DEF StoreInv, RowsOpen
<1> QED BY <1>5, <1>6, <1>7 DEF KeysInv

(* The transaction gives each row the key to come and keeps the rest of it. *)
LEMMA RotateCommitInv == KeysInv /\ RotateCommit => KeysInv'
<1> SUFFICES ASSUME KeysInv, RotateCommit  PROVE KeysInv'
  OBVIOUS
<1>1. /\ store # NoKeys /\ store.stage = "loaded" /\ store \in Stores
      /\ store.next \in Manifests /\ store.next.index = meta /\ store.keys.index = meta
  BY DEF KeysInv, KeysTypeOK, StoreInv, RotateCommit, Stores
<1>2. /\ rows' = {Reencrypted(row) : row \in rows}
      /\ store' = [store EXCEPT !.stage = "committed"]
      /\ UNCHANGED <<manifest, meta, written>>
  BY DEF RotateCommit
<1>3. /\ store' \in Stores /\ store'.keys = store.keys /\ store'.next = store.next
      /\ store'.stage = "committed"
  BY <1>1, <1>2 DEF Stores
<1>4. ASSUME NEW row \in rows
      PROVE  /\ Reencrypted(row) \in JournalRows
             /\ Reencrypted(row).locator = row.locator /\ Reencrypted(row).body = row.body
             /\ Reencrypted(row).tagIndex = meta /\ Reencrypted(row).index = meta
             /\ Opens(store.next, Reencrypted(row))
  <2>1. /\ row.locator \in Locators /\ row.tagIndex \in Materials /\ row.tagIndex = meta
        /\ row.body \in 1 .. MaxBody
    BY DEF KeysInv, KeysTypeOK, RowsInv, JournalRows
  <2> QED BY <1>1, <2>1, SealedOpens DEF Reencrypted
<1>5. KeysTypeOK'
  BY <1>1, <1>2, <1>3, <1>4 DEF KeysInv, KeysTypeOK
<1>6. RowsInv'
  BY <1>2, <1>4 DEF KeysInv, RowsInv
<1>7. StoreInv'
  BY <1>1, <1>2, <1>3, <1>4 DEF StoreInv, RowsOpen, Opens
<1> QED BY <1>5, <1>6, <1>7 DEF KeysInv

(* Adopting the keys of a committed rotation never fails to open a row.    *)
LEMMA RotateAdoptInv == KeysInv /\ RotateAdopt => KeysInv'
<1> SUFFICES ASSUME KeysInv, RotateAdopt  PROVE KeysInv'
  OBVIOUS
<1>1. /\ store # NoKeys /\ store.stage = "committed" /\ store.next \in Manifests
      /\ store.next.index = meta /\ RowsOpen(store.next)
  BY DEF KeysInv, KeysTypeOK, StoreInv, RotateAdopt, Stores
<1>2. /\ store' = [keys |-> store.next, next |-> NoKeys, stage |-> "open"]
      /\ UNCHANGED <<manifest, meta, rows, written>>
  BY <1>1 DEF RotateAdopt
<1>3. KeysTypeOK'
  BY <1>1, <1>2 DEF KeysInv, KeysTypeOK, Stores
<1>4. RowsInv'
  BY <1>2 DEF KeysInv, RowsInv
<1>5. StoreInv'
  BY <1>1, <1>2 DEF StoreInv, RowsOpen
<1> QED BY <1>3, <1>4, <1>5 DEF KeysInv

(* An edit or a crash leaves the journal and its invariant alone.          *)
LEMMA OutsideInv ==
  KeysInv /\ (EditManifest \/ Close \/ UNCHANGED keyVars) => KeysInv'
<1> SUFFICES ASSUME KeysInv, EditManifest \/ Close \/ UNCHANGED keyVars  PROVE KeysInv'
  OBVIOUS
<1>1. KeysTypeOK'
  BY DEF KeysInv, KeysTypeOK, EditManifest, Close, keyVars
<1>2. RowsInv'
  BY DEF KeysInv, RowsInv, EditManifest, Close, keyVars
<1>3. StoreInv'
  BY DEF KeysInv, StoreInv, RowsOpen, Opens, EditManifest, Close, keyVars
<1> QED BY <1>1, <1>2, <1>3 DEF KeysInv

LEMMA KeysInvariant == KeysSpec => []KeysInv
<1>1. KeysInv /\ [KeysNext]_keyVars => KeysInv'
  BY OpenInv, WriteInv, RotateLoadInv, RotateCommitInv, RotateAdoptInv, OutsideInv
  DEF KeysNext
<1> QED BY <1>1, KeysInitInv, PTL DEF KeysSpec

-----------------------------------------------------------------------------
(* Each written locator keeps exactly one row, with its last body.         *)
LEMMA InvReads == KeysInv => OpenStoreReads
<1> SUFFICES ASSUME KeysInv  PROVE OpenStoreReads
  OBVIOUS
<1>1. ASSUME NEW l \in Locators, written[l] # 0
      PROVE  \E row \in rows : {r \in rows : r.locator = l} = {row} /\ row.body = written[l]
  <2>1. PICK row \in rows : row.locator = l
    BY <1>1 DEF KeysInv, RowsInv
  <2>2. {r \in rows : r.locator = l} = {row} /\ row.body = written[l]
    BY <2>1 DEF KeysInv, RowsInv
  <2> QED BY <2>2
<1>2. store # NoKeys /\ store.stage # "committed" => RowsOpen(store.keys)
  BY DEF KeysInv, StoreInv
<1> QED BY <1>1, <1>2 DEF OpenStoreReads

(* However the manifest is edited and wherever a rotation or the process   *)
(* ends (rotate_data_keys, open), every written row is still there with    *)
(* its last body, open to the store and to the manifest a rotation loaded. *)
THEOREM RowsNeverLost == KeysSpec => []RowsStayOpenable
<1>1. KeysInv => RowsStayOpenable
  BY InvReads DEF RowsStayOpenable, KeysInv, StoreInv, CrashLeavesRowsOpenable
<1> QED BY <1>1, KeysInvariant, PTL
=============================================================================
