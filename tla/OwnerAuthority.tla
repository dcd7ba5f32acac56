--------------------------- MODULE OwnerAuthority ---------------------------
(***************************************************************************)
(* How a request to the owner operator gets, keeps and loses its authority *)
(* (authenticated_ingress, the operator's principal and slot files, the    *)
(* subject grants, and the currentness checks of the route and of the      *)
(* transport), while the operator edits those files, grants are revoked,   *)
(* time passes and the wall clock is set.                                  *)
(*                                                                         *)
(* The operator serves one request at a time, but every read of a file or  *)
(* of the grant table is a step of its own: what one step read may have    *)
(* changed before the next.  What the journal does with the request is     *)
(* OwnerInvocation; here a request is claimed, sent, answered and told.    *)
(* Any step may also fail (file identity, lock, deadline, framing): the    *)
(* request then ends.  Time is counted in seconds.                         *)
(***************************************************************************)
EXTENDS SubjectGrants

CONSTANTS
  Bearers,         \* bearers callers may present
  Requests,        \* invocations callers may submit, see RequestType
  GrantSpecs,      \* the grants the operator may provision
  PrincipalFiles,  \* what the principal registry may hold: [Bearers -> record or None]
  SlotFiles,       \* what the slot registry may hold: sets of slots
  ConsoleScope,    \* the configured scope
  MaxEdits         \* bound: edits of files and of the clock

ASSUME OwnerAuthorityAssumption ==
  GrantSpecs \subseteq Specs /\ MaxEdits \in Nat

(* What the registries hold: records per bearer, and slots, that expire.   *)
ASSUME RegistriesAssumption ==
  /\ \A file \in PrincipalFiles, bearer \in Bearers :
       file[bearer] # None => file[bearer].expires \in Nat
  /\ \A file \in SlotFiles : \A slot \in file : slot.expires \in Nat

VARIABLES
  principals,  \* the principal registry file
  slots,       \* the owner slot registry file
  wall,        \* the wall clock, which may be set
  mono,        \* the monotonic clock
  edits,       \* how many edits were made
  job,         \* the request being served
  trusted,     \* the last authorization admit_http made
  sealed       \* every grant ever sealed as evidence (history)

vars == <<grants, principals, slots, wall, mono, edits, job, trusted, sealed>>
env == <<grants, principals, slots, wall, mono, edits>>

-----------------------------------------------------------------------------
(* The closed policy of an operation.                                      *)

Writes == {"edit", "objective", "upload", "publish", "commit", "pause"}
Ops == {"read", "content"} \cup Writes
Uses == {"read", "write", "lookup", "cached"}

(* operation_supports_use *)
Supports(op, use) ==
  \/ use = "read" /\ op \notin Writes
  \/ use \in {"write", "cached"} /\ op \in Writes
  \/ use = "lookup" /\ op \in Writes \ {"upload"}

(* required_console_permissions *)
RequiredPermissions(op, use) ==
  CASE use \in {"lookup", "cached"} -> {"metadata_read"}
    [] op = "read" -> {"metadata_read"}
    [] op = "content" -> {"metadata_read", "content_read"}
    [] op = "edit" -> {"edit"}
    [] op = "objective" -> {"edit", "objective"}
    [] op \in {"upload", "publish"} -> {"content_write"}
    [] op = "commit" -> {"commit"}
    [] op = "pause" -> {"pause"}

(* harness_scope_for *)
HarnessScope(permission) == IF permission \in {"commit", "pause"} THEN "control" ELSE permission

(* required_harness_scopes is the image of the permissions; selected_policy
   refuses a request for which the two tables differ.                      *)
RequiredScopes(op, use) == {HarnessScope(p) : p \in RequiredPermissions(op, use)}

-----------------------------------------------------------------------------
(* Records.                                                                *)

RequestType ==
  [ bearer : Bearers, subject : Subjects, credential : STRING, grant : GrantIds,
    generation : Nat, grantExpires : Time, reference : STRING,
    credentialExpires : Time, op : Ops ]

ASSUME RequestsAssumption == Requests \subseteq RequestType

(* An owner credential as resolved: the reference and its descriptor.      *)
Resolved(slot) ==
  [ reference |-> slot.reference, subject |-> slot.subject, scope |-> slot.scope,
    scopes |-> slot.scopes, expires |-> slot.expires ]

Phases == {"idle", "received", "verified", "reserved", "resolved", "sealed",
           "live", "began", "samePrincipal", "sameSlot", "checked", "sent", "told"}
Stages == {"none", "claim", "connect", "accept", "answer"}

Idle ==
  [ phase |-> "idle", stage |-> "none", request |-> None, use |-> "none",
    startWall |-> 0, startMono |-> 0, floor |-> 0, principal |-> None,
    grants |-> {}, credential |-> None, deadline |-> 0, redeemed |-> None,
    lapsed |-> {}, sentAt |-> None ]

Init ==
  /\ GrantsInit
  /\ principals \in PrincipalFiles
  /\ slots \in SlotFiles
  /\ wall \in Time
  /\ mono = 0 /\ edits = 0
  /\ job = Idle /\ trusted = None /\ sealed = {}

(* Mutant: the clock is read without its floor.                            *)
NowUnfloored(j) == wall

(* advance_wall_clock and observe_wall_clock *)
Now(j) == IF wall > j.floor THEN wall ELSE j.floor

Permissions_(j) == RequiredPermissions(j.request.op, j.use)

-----------------------------------------------------------------------------
(* The checks the phases share.                                            *)

(* FilePrincipalVerifier::verify, then validate_claims.                    *)
Verified(bearer, now) ==
  LET record == principals[bearer]
  IN IF record # None /\ ~record.revoked /\ record.expires > wall /\ record.expires > now
     THEN [subject |-> record.subject, credential |-> record.credential,
           expires |-> record.expires]
     ELSE None

(* validate_principal_for_invocation *)
PrincipalFits(principal, request, now) ==
  /\ principal.expires > now
  /\ principal.subject = request.subject
  /\ principal.credential = request.credential

(* validate_selected_grants *)
GrantsFit(found, principal, required, now) ==
  /\ {g.permission : g \in found} = required
  /\ Cardinality(found) = Cardinality(required)
  /\ \A g \in found :
       /\ g.subject = principal.subject /\ g.scope = ConsoleScope
       /\ g.notBefore <= now /\ now < g.expires

(* FileOwnerSlotResolver::resolve: exactly one slot of the principal.      *)
Resolve(principal, scopes, now) ==
  LET mine == {s \in slots : /\ s.subject = principal.subject
                             /\ s.credential = principal.credential
                             /\ s.scope = ConsoleScope
                             /\ ~s.revoked}
  IN IF \E s \in mine : mine = {s} /\ s.expires > now /\ scopes \subseteq s.scopes
     THEN Resolved(CHOOSE s \in mine : TRUE) ELSE None

(* validate_owner_credential *)
CredentialFits(credential, principal, required, now) ==
  /\ credential.subject = principal.subject
  /\ credential.scope = ConsoleScope
  /\ credential.expires > now
  /\ credential.expires <= principal.expires
  /\ {HarnessScope(p) : p \in required} \subseteq credential.scopes

(* is_valid_at: the sealed admission, at one wall time.                    *)
AdmissionValid(j, now) ==
  /\ mono < j.deadline
  /\ j.principal.expires > now
  /\ j.credential.expires > now
  /\ \A g \in j.grants : g.notBefore <= now /\ now < g.expires

Expiries(principal, credential, found) ==
  {principal.expires, credential.expires} \cup {g.expires : g \in found}

Earliest(times) == CHOOSE t \in times : \A u \in times : t <= u

-----------------------------------------------------------------------------
(* The life of a request.                                                  *)

(* handle up to the admission: route, body, configured identity, use.      *)
Receive(request, use) ==
  /\ job.phase = "idle"
  /\ Supports(request.op, use)
  /\ job' = [Idle EXCEPT !.phase = "received", !.request = request, !.use = use,
                         !.startWall = wall, !.startMono = mono, !.floor = wall]
  /\ UNCHANGED <<env, trusted, sealed>>

Verify ==
  /\ job.phase = "received"
  /\ LET now == Now(job)
         principal == Verified(job.request.bearer, now)
     IN /\ principal # None
        /\ PrincipalFits(principal, job.request, now)
        /\ job' = [job EXCEPT !.phase = "verified", !.principal = principal, !.floor = now]
  /\ UNCHANGED <<env, trusted, sealed>>

ReserveGrants ==
  /\ job.phase = "verified"
  /\ LET now == Now(job)
         found == Reserve(job.principal.subject, ConsoleScope, Permissions_(job), {}, now)
     IN /\ found # None
        /\ job.principal.expires > now
        /\ GrantsFit(found, job.principal, Permissions_(job), now)
        /\ job' = [job EXCEPT !.phase = "reserved", !.grants = found, !.floor = now]
  /\ UNCHANGED <<env, trusted, sealed>>

ResolveSlot ==
  /\ job.phase = "reserved"
  /\ LET now == Now(job)
         credential == Resolve(job.principal, RequiredScopes(job.request.op, job.use), now)
     IN /\ credential # None
        /\ job.principal.expires > now
        /\ GrantsFit(job.grants, job.principal, Permissions_(job), now)
        /\ CredentialFits(credential, job.principal, Permissions_(job), now)
        /\ job' = [job EXCEPT !.phase = "resolved", !.credential = credential, !.floor = now]
  /\ UNCHANGED <<env, trusted, sealed>>

(* from_verified_ingress: what the request names is what was found.        *)
NamesEvidence(request, principal, credential, found) ==
  /\ PrincipalFits(principal, request, 0)
  /\ credential.reference = request.reference
  /\ credential.expires = request.credentialExpires
  /\ \E g \in found : /\ g.id = request.grant
                      /\ g.generation = request.generation
                      /\ g.expires = request.grantExpires

(* The second reservation, which must find the same rows, and the seal.    *)
Seal ==
  /\ job.phase = "resolved"
  /\ LET now == Now(job)
         found == Reserve(job.principal.subject, ConsoleScope, Permissions_(job), {}, now)
         remaining == Earliest(Expiries(job.principal, job.credential, job.grants))
     IN /\ found # None /\ found = job.grants
        /\ job.principal.expires > now
        /\ GrantsFit(found, job.principal, Permissions_(job), now)
        /\ CredentialFits(job.credential, job.principal, Permissions_(job), now)
        /\ NamesEvidence(job.request, job.principal, job.credential, found)
        /\ remaining > now + 1
        /\ mono < job.startMono + remaining - now - 1
        /\ job' = [job EXCEPT !.phase = "sealed", !.floor = now,
                     !.deadline = job.startMono + remaining - now - 1]
        /\ sealed' = sealed \cup found
  /\ UNCHANGED <<env, trusted>>

(* Mutant: the bearer of whatever slot the principal now has.              *)
RedeemableByPrincipal(s, j) ==
  /\ s.subject = j.request.subject
  /\ s.credential = j.request.credential
  /\ s.scope = ConsoleScope /\ ~s.revoked
  /\ s.digestHolds

(* FileHarnessBearerRedeemer::redeem: the slot of the sealed reference.    *)
Redeemable(s, j) ==
  /\ s.reference = j.credential.reference
  /\ s.subject = j.request.subject
  /\ s.credential = j.request.credential
  /\ s.scope = ConsoleScope /\ ~s.revoked
  /\ s.expires = j.request.credentialExpires
  /\ Resolved(s) = j.credential
  /\ RequiredScopes(j.request.op, j.use) \subseteq s.scopes
  /\ s.digestHolds

(* A cached answer needs no bearer.                                        *)
Redeem ==
  /\ job.phase = "sealed" /\ job.use # "cached"
  /\ AdmissionValid(job, wall)
  /\ job.credential.expires > wall
  /\ \E s \in slots :
       /\ Redeemable(s, job)
       /\ job' = [job EXCEPT !.phase = "live", !.stage = "claim", !.redeemed = s]
  /\ UNCHANGED <<env, trusted, sealed>>

ReadCached ==
  /\ job.phase = "sealed" /\ job.use = "cached"
  /\ job' = [job EXCEPT !.phase = "live", !.stage = "accept"]
  /\ UNCHANGED <<env, trusted, sealed>>

-----------------------------------------------------------------------------
(* Currentness: nothing sealed was revoked or replaced since.              *)

SamePrincipal(record, principal) ==
  /\ record # None
  /\ ~record.revoked
  /\ record.credential = principal.credential
  /\ record.expires = principal.expires

(* The parts of the sealed authority that are now revoked or replaced
   (history).                                                              *)
Lapsed(j) ==
  {part \in {"principal", "slot", "grants"} :
     CASE part = "principal" -> ~SamePrincipal(principals[j.request.bearer], j.principal)
       [] part = "slot" -> \A s \in slots : s.revoked \/ Resolved(s) # j.credential
       [] part = "grants" -> \E g \in j.grants : grants[g.id].revoked}

(* The sealed values are checked against the clock first.                  *)
BeginCheck ==
  /\ job.phase = "live"
  /\ LET now == Now(job)
     IN /\ AdmissionValid(job, now)
        /\ PrincipalFits(job.principal, job.request, now)
        /\ CredentialFits(job.credential, job.principal, Permissions_(job), now)
        /\ job' = [job EXCEPT !.phase = "began", !.floor = now, !.lapsed = Lapsed(job)]
  /\ UNCHANGED <<env, trusted, sealed>>

(* require_same_principal *)
CheckPrincipal ==
  /\ job.phase = "began"
  /\ LET now == Now(job)
     IN /\ Verified(job.request.bearer, now) = job.principal
        /\ AdmissionValid(job, now)
        /\ job' = [job EXCEPT !.phase = "samePrincipal", !.floor = now,
                               !.lapsed = @ \cap Lapsed(job)]
  /\ UNCHANGED <<env, trusted, sealed>>

(* Mutant: the slot is resolved again but not compared.                    *)
CheckSlotResolves ==
  /\ job.phase = "samePrincipal"
  /\ LET now == Now(job)
         credential == Resolve(job.principal, RequiredScopes(job.request.op, job.use), now)
     IN /\ credential # None
        /\ job' = [job EXCEPT !.phase = "sameSlot", !.floor = now,
                               !.lapsed = @ \cap Lapsed(job)]
  /\ UNCHANGED <<env, trusted, sealed>>

CheckSlot ==
  /\ job.phase = "samePrincipal"
  /\ LET now == Now(job)
         credential == Resolve(job.principal, RequiredScopes(job.request.op, job.use), now)
     IN /\ credential = job.credential
        /\ CredentialFits(credential, job.principal, Permissions_(job), now)
        /\ job' = [job EXCEPT !.phase = "sameSlot", !.floor = now,
                               !.lapsed = @ \cap Lapsed(job)]
  /\ UNCHANGED <<env, trusted, sealed>>

(* revalidate_owner_invocation: the same rows, and the deadline once more. *)
CheckGrants ==
  /\ job.phase = "sameSlot"
  /\ LET now == Now(job)
         found == Reserve(job.principal.subject, ConsoleScope, Permissions_(job), {}, now)
     IN /\ found # None /\ found = job.grants
        /\ PrincipalFits(job.principal, job.request, now)
        /\ GrantsFit(found, job.principal, Permissions_(job), now)
        /\ CredentialFits(job.credential, job.principal, Permissions_(job), now)
        /\ AdmissionValid(job, now)
        /\ job' = [job EXCEPT !.phase = "checked", !.floor = now,
                               !.lapsed = @ \cap Lapsed(job)]
  /\ UNCHANGED <<env, trusted, sealed>>

(* claim_send or claim_exact_lookup, which a read has no need of; the
   connection then has its own check.                                      *)
Claim ==
  /\ job.phase = "checked" /\ job.stage = "claim"
  /\ job' = [job EXCEPT !.phase = "live", !.stage = "connect"]
  /\ UNCHANGED <<env, trusted, sealed>>

(* exchange_with_authorization, within the deadline of the admission.      *)
Send ==
  /\ job.phase = "checked" /\ job.stage = "connect"
  /\ mono < job.deadline
  /\ job' = [job EXCEPT !.phase = "sent", !.sentAt = mono]
  /\ UNCHANGED <<env, trusted, sealed>>

(* The owner answers; the answer is used under a live admission.           *)
Answered ==
  /\ job.phase = "sent"
  /\ mono < job.deadline
  /\ AdmissionValid(job, wall)
  /\ job' = [job EXCEPT !.phase = "live", !.stage = "accept"]
  /\ UNCHANGED <<env, trusted, sealed>>

Accept ==
  /\ job.phase = "checked" /\ job.stage = "accept"
  /\ job' = [job EXCEPT !.phase = "live", !.stage = "answer"]
  /\ UNCHANGED <<env, trusted, sealed>>

Tell ==
  /\ job.phase = "checked" /\ job.stage = "answer"
  /\ job' = [job EXCEPT !.phase = "told"]
  /\ UNCHANGED <<env, trusted, sealed>>

(* The request ends: answered, refused, failed or out of time.             *)
End ==
  /\ job.phase # "idle"
  /\ job' = Idle
  /\ UNCHANGED <<env, trusted, sealed>>

-----------------------------------------------------------------------------
(* Trusted facade requests (admit_http): one admission at a fixed time.    *)

(* The caller reads the clock and the admission starts.                    *)
HttpArrive(request) ==
  /\ trusted = None
  /\ trusted' = [phase |-> "arrived", request |-> request, now |-> wall, started |-> mono]
  /\ UNCHANGED <<env, job, sealed>>

(* Mutant: the lifetime is counted from the end of the admission.          *)
LifetimeStartLate(arrived) == mono

LifetimeStart(arrived) == arrived.started

HttpAdmit(required, optional) ==
  /\ trusted # None /\ trusted.phase = "arrived"
  /\ LET now == trusted.now
         principal == Verified(trusted.request.bearer, now)
         found == Reserve(principal.subject, ConsoleScope, required, optional, now)
         credential == Resolve(principal, {HarnessScope(g.permission) : g \in found}, now)
         kept == {g \in found : HarnessScope(g.permission) \in credential.scopes}
         earliest == Earliest(Expiries(principal, credential, kept))
     IN /\ principal # None
        /\ found # None
        /\ credential # None
        /\ CredentialFits(credential, principal, required, now)
        /\ earliest > now
        /\ mono < LifetimeStart(trusted) + earliest - now
        /\ trusted' = [ phase |-> "admitted", now |-> now, started |-> trusted.started,
                        principal |-> principal, credential |-> credential, grants |-> kept,
                        until |-> LifetimeStart(trusted) + earliest - now ]
        /\ sealed' = sealed \cup kept
  /\ UNCHANGED <<env, job>>

(* TrustedRequestAuthorization::permits, at the request's fixed time.      *)
Permits(t, permission) ==
  /\ mono < t.until
  /\ t.principal.expires > t.now
  /\ t.credential.expires > t.now
  /\ \E g \in t.grants : /\ g.permission = permission
                         /\ g.notBefore <= t.now /\ t.now < g.expires
                         /\ HarnessScope(permission) \in t.credential.scopes

HttpEnd ==
  /\ trusted # None
  /\ trusted' = None
  /\ UNCHANGED <<env, job, sealed>>

-----------------------------------------------------------------------------
(* What happens around the request.                                        *)

Unchanged == UNCHANGED <<job, trusted, sealed>>

Tick ==
  /\ mono < MaxTime
  /\ mono' = mono + 1
  /\ wall' = IF wall < MaxTime THEN wall + 1 ELSE wall
  /\ UNCHANGED <<grants, principals, slots, edits>> /\ Unchanged

SetClock ==
  /\ edits < MaxEdits /\ edits' = edits + 1
  /\ wall' \in Time \ {wall}
  /\ UNCHANGED <<grants, principals, slots, mono>> /\ Unchanged

EditPrincipals ==
  /\ edits < MaxEdits /\ edits' = edits + 1
  /\ principals' \in PrincipalFiles \ {principals}
  /\ UNCHANGED <<grants, slots, wall, mono>> /\ Unchanged

EditSlots ==
  /\ edits < MaxEdits /\ edits' = edits + 1
  /\ slots' \in SlotFiles \ {slots}
  /\ UNCHANGED <<grants, principals, wall, mono>> /\ Unchanged

ProvisionGrant ==
  /\ \E g \in GrantIds, spec \in GrantSpecs : Provision(g, spec)
  /\ UNCHANGED <<principals, slots, wall, mono, edits>> /\ Unchanged

RevokeGrant ==
  /\ edits < MaxEdits /\ edits' = edits + 1
  /\ \E g \in GrantIds : Revoke(g)
  /\ UNCHANGED <<principals, slots, wall, mono>> /\ Unchanged

Next ==
  \/ \E request \in Requests, use \in Uses : Receive(request, use)
  \/ Verify \/ ReserveGrants \/ ResolveSlot \/ Seal \/ Redeem \/ ReadCached
  \/ BeginCheck \/ CheckPrincipal \/ CheckSlot \/ CheckGrants
  \/ Claim \/ Send \/ Answered \/ Accept \/ Tell \/ End
  \/ \E request \in Requests : HttpArrive(request)
  \/ \E optional \in {{}, {"edit"}} : HttpAdmit(RequiredPermissions("read", "read"), optional)
  \/ HttpEnd
  \/ Tick \/ SetClock \/ EditPrincipals \/ EditSlots \/ ProvisionGrant \/ RevokeGrant

Spec == Init /\ [][Next]_vars

-----------------------------------------------------------------------------
(* Properties.                                                             *)

(* Every variable has its type: rows, jobs and clocks are well formed.     *)
TypeOK ==
  /\ GrantsTypeOK
  /\ principals \in PrincipalFiles /\ slots \in SlotFiles
  /\ wall \in Time /\ mono \in Time /\ edits \in 0 .. MaxEdits
  /\ job.phase \in Phases /\ job.stage \in Stages
  /\ job.grants \subseteq AdmittedGrants
  /\ sealed \subseteq AdmittedGrants

(* The grant store never writes a row its own validate_existing_rows would
   refuse: then every later operation on the whole table would fail.       *)
StoreAcceptsItself ==
  /\ Cardinality(Stored) <= MaxSubjectGrants
  /\ \A g \in Stored : ValidRow(grants[g])

(* A grant sealed as evidence names one row for ever: the row of its id has
   the same subject, permission, scope and times, and its generation differs
   exactly when the row was revoked since (provision never reuses an id).  *)
EvidenceIdentifiesRow ==
  \A e \in sealed :
    /\ e.id \in Stored
    /\ [Admitted(e.id) EXCEPT !.generation = e.generation] = e
    /\ grants[e.id].revoked <=> grants[e.id].generation # e.generation

(* A revocation is a fence: whatever was revoked or replaced before the last
   currentness check began, and stayed so, stops the request before it is
   claimed, sent, accepted or told (revalidate_current_owner_identity).    *)
RevocationIsFence ==
  job.phase \in {"checked", "sent", "told"} => job.lapsed = {}

(* Nothing is sent at or after the earliest expiry of the evidence, counted
   from the wall time at which the request arrived, even when the wall clock
   is set back while the request is served.                                *)
SentWithinLifetime ==
  job.sentAt # None =>
    \A t \in Expiries(job.principal, job.credential, job.grants) :
      job.startWall + (job.sentAt - job.startMono) < t

(* The bearer that is sent was redeemed from the slot whose reference was
   sealed, though the registry is read again for it and may change twice.  *)
SentBearerIsSealed ==
  job.phase = "sent" => job.redeemed.reference = job.credential.reference

(* A trusted facade request permits nothing once any part of the authority
   it rests on has expired, counted from the time it was admitted at.      *)
TrustedWithinLifetime ==
  trusted # None /\ trusted.phase = "admitted" =>
    \A p \in Permissions : Permits(trusted, p) =>
      \E g \in trusted.grants :
        /\ g.permission = p
        /\ \A t \in Expiries(trusted.principal, trusted.credential, {g}) :
             trusted.now + (mono - trusted.started) < t

(* A grant is evidence that stands: the table stays one the store accepts, *)
(* and what was sealed of a row identifies it ever after.                  *)
GrantsAreEvidence == TypeOK /\ StoreAcceptsItself /\ EvidenceIdentifiesRow

(* Whatever changes between the reads of a request, what is sent and what  *)
(* is permitted rests on the sealed evidence and ends with it.             *)
SentUnderEvidence == SentWithinLifetime /\ SentBearerIsSealed /\ TrustedWithinLifetime
=============================================================================
