---------------------------- MODULE SubjectGrants ----------------------------
(***************************************************************************)
(* The durable table of subject grants (subject_grants.rs), with the       *)
(* operator's provision and revoke commands over it.                       *)
(*                                                                         *)
(* Every operation is one Immediate transaction, so each is one step, and  *)
(* the table survives a crash between any two.  A row is refused before it *)
(* is stored unless it is well formed; storage limits, file identity and   *)
(* lock waits only refuse, and a refusal changes nothing.  The issuer is   *)
(* the one the operator is configured with.                                *)
(***************************************************************************)
EXTENDS Naturals, FiniteSets

CONSTANTS
  None,
  GrantIds,          \* grant ids, in their text order
  Subjects,
  Scopes,            \* Console scopes
  Permissions,
  MaxTime,           \* the last second the model counts
  MaxSubjectGrants   \* MAX_SUBJECT_GRANTS

ASSUME SubjectGrantsAssumption ==
  /\ GrantIds \subseteq Nat /\ MaxTime \in Nat /\ MaxSubjectGrants \in Nat

VARIABLE grants      \* the table: a row per id, or None

Time == 0 .. MaxTime

Specs ==
  [ subject : Subjects, permission : Permissions, scope : Scopes,
    notBefore : Time, expires : Time ]

Rows ==
  [ subject : Subjects, permission : Permissions, scope : Scopes,
    notBefore : Time, expires : Time, generation : {0, 1}, revoked : BOOLEAN ]

(* What reserve hands out of a row.                                        *)
AdmittedGrants ==
  [ id : GrantIds, subject : Subjects, permission : Permissions, scope : Scopes,
    notBefore : Time, expires : Time, generation : {0, 1} ]

(* No row stands for absence.                                              *)
ASSUME NoneAssumption == None \notin Rows

GrantsInit == grants = [g \in GrantIds |-> None]

Stored == {g \in GrantIds : grants[g] # None}

-----------------------------------------------------------------------------
(* valid_spec *)
ValidSpec(spec) == spec.notBefore < spec.expires

(* validate_existing_rows: what every operation asks of every row first.   *)
ValidRow(row) ==
  row.notBefore < row.expires /\ (row.revoked <=> row.generation # 0)

NewRow(spec) ==
  [ subject |-> spec.subject, permission |-> spec.permission, scope |-> spec.scope,
    notBefore |-> spec.notBefore, expires |-> spec.expires,
    generation |-> 0, revoked |-> FALSE ]

(* Mutant: an id may be provisioned again.                                 *)
ProvisionAgain(g, spec) ==
  /\ ValidSpec(spec)
  /\ grants' = [grants EXCEPT ![g] = NewRow(spec)]

Provision(g, spec) ==
  /\ ValidSpec(spec)
  /\ Cardinality(Stored) < MaxSubjectGrants
  /\ grants[g] = None
  /\ grants' = [grants EXCEPT ![g] = NewRow(spec)]

(* Mutant: every revocation counts.                                        *)
RevokeAgain(g) ==
  /\ g \in Stored
  /\ grants' = [grants EXCEPT ![g].revoked = TRUE, ![g].generation = @ + 1]

(* Mutant: the generation is left alone.                                   *)
RevokeSameGeneration(g) ==
  /\ g \in Stored
  /\ grants' = [grants EXCEPT ![g].revoked = TRUE]

(* A revoked grant is revoked again without a new generation.              *)
Revoke(g) ==
  /\ g \in Stored
  /\ grants' = IF grants[g].revoked THEN grants
               ELSE [grants EXCEPT ![g].revoked = TRUE, ![g].generation = @ + 1]

-----------------------------------------------------------------------------
(* find_admitted_grant and reserve: reads of one snapshot.                 *)

Admissible(g, subject, scope, permission, now) ==
  /\ g \in Stored
  /\ grants[g].subject = subject /\ grants[g].scope = scope
  /\ grants[g].permission = permission
  /\ ~grants[g].revoked
  /\ grants[g].notBefore <= now /\ now < grants[g].expires

Admitted(g) ==
  [ id |-> g, subject |-> grants[g].subject, permission |-> grants[g].permission,
    scope |-> grants[g].scope, notBefore |-> grants[g].notBefore,
    expires |-> grants[g].expires, generation |-> grants[g].generation ]

(* The first row in the order: latest expiry, then lowest id.              *)
FindAdmitted(subject, scope, permission, now) ==
  LET rows == {g \in GrantIds : Admissible(g, subject, scope, permission, now)}
      first == {g \in rows : \A h \in rows \ {g} :
                  \/ grants[g].expires > grants[h].expires
                  \/ grants[g].expires = grants[h].expires /\ g < h}
  IN {Admitted(g) : g \in first}

(* The rows found for the permissions asked for; None is a refusal.        *)
Reserve(subject, scope, required, optional, now) ==
  LET found == UNION {FindAdmitted(subject, scope, p, now) : p \in required \cup optional}
  IN IF /\ required # {} /\ required \cap optional = {}
        /\ \A p \in required : \E r \in found : r.permission = p
     THEN found ELSE None

-----------------------------------------------------------------------------
GrantsTypeOK == grants \in [GrantIds -> Rows \cup {None}]

=============================================================================
