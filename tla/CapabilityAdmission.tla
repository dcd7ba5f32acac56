------------------------ MODULE CapabilityAdmission -------------------------
(***************************************************************************)
(* A console that was configured with a trusted descriptor, and the        *)
(* replies an owner may give when asked for its capabilities: of the       *)
(* trusted profile, of a profile selected or an owner restarted since, and *)
(* changed in one or two places on the way.                                *)
(***************************************************************************)
EXTENDS EffectiveLimits

CONSTANTS
  TrustedScope, OtherScope,   \* the owner scope that the console serves, and another one
  Varied,        \* for each surface, the fields whose limits vary
  MaxChanges     \* the bound on the changes to a reply

ASSUME AdmissionAssumption ==
  /\ TrustedScope # OtherScope /\ MaxChanges \in Nat
  /\ \A s \in Surfaces : Varied[s] \subseteq DOMAIN Ceilings(s)

VARIABLES
  trust,     \* MemoryCapabilityTrust or SessionCapabilityTrust
  reply,     \* the owner's reply to the capability call
  changes    \* how often reply was changed since it was published in good faith

admissionVars == <<trust, reply, changes>>

(* The limits worth trying: around the ceiling of the schema, and that of  *)
(* the portable policy where there is one.                                 *)
Boundaries(entry) ==
  {0, 1, entry.schema - 1, entry.schema, entry.schema + 1}
  \cup (IF entry.policy = None THEN {} ELSE {entry.policy})

LimitChoices(surface) ==
  {FixtureLimits(surface)} \cup
  UNION {{[FixtureLimits(surface) EXCEPT ![f] = n] : n \in Boundaries(Ceilings(surface)[f])} :
           f \in Varied[surface]}

Descriptor(surface, limits, enabled) ==
  Signed([surface |-> surface, schema |-> CurrentSchema(surface), owner |-> "sts2-harness",
          scope |-> IF surface = "context-memory" THEN TrustedScope ELSE None,
          enabled |-> enabled, operations |-> FALSE, pinned |-> TRUE,
          limits |-> limits, digest |-> None])

(* The configured descriptor, bound to its owner.                          *)
Configured(d) ==
  [descriptor |-> d, scope |-> TrustedScope, source |-> "harness", epoch |-> 1]

(* None is nothing that a console is configured with or an owner publishes. *)
ASSUME NoneAssumption ==
  \A surface \in Surfaces, enabled \in BOOLEAN :
    \A limits \in LimitChoices(surface) :
      LET d == Descriptor(surface, limits, enabled)
      IN  d # None /\ RecordOf(d) # None /\ Configured(d) # None

AdmissionInit ==
  /\ \E surface \in Surfaces, enabled \in BOOLEAN :
       \E limits \in LimitChoices(surface) :
         LET d == Descriptor(surface, limits, enabled)
         IN  /\ DescriptorValid(d)
             /\ trust = Configured(d)
             /\ reply = Publication(d, TrustedScope, 1)
  /\ changes = 0

Changed(r) ==
  /\ changes < MaxChanges
  /\ r # reply
  /\ reply' = r
  /\ changes' = changes + 1
  /\ UNCHANGED trust

(* The owner publishes another profile in good faith.                      *)
Reselect ==
  \E limits \in LimitChoices(trust.descriptor.surface), enabled \in BOOLEAN :
    Changed(Publication(Descriptor(trust.descriptor.surface, limits, enabled),
                        reply.scope, reply.epoch))

OwnerRestartsTwice == Changed([reply EXCEPT !.epoch = @ + 2])

OwnerRestarts == Changed([reply EXCEPT !.epoch = @ + 1])

OtherOwner ==
  \/ Changed([reply EXCEPT !.source = "other"])
  \/ /\ reply.value # None
     /\ Changed([reply EXCEPT !.value = Signed([@ EXCEPT !.scope = OtherScope])])

(* One limit of the record, or of the descriptor, is not what was signed.  *)
AlterRecord ==
  \E f \in Varied[trust.descriptor.surface], n \in {1, 2} :
    /\ reply.record # None
    /\ f \in DOMAIN reply.record.rows
    /\ Changed([reply EXCEPT !.record.rows[f].executable = n])

AlterValue ==
  \E f \in Varied[trust.descriptor.surface], n \in {0, 1, 2}, resign \in BOOLEAN :
    /\ reply.value # None
    /\ f \in DOMAIN reply.value.limits
    /\ LET altered == [reply.value EXCEPT !.limits[f] = n]
       IN  Changed([reply EXCEPT !.value = IF resign THEN Signed(altered) ELSE altered])

(* The owner still publishes the schema before the current one.            *)
OlderSchema ==
  \E v \in {"v1", "v3"} :
    /\ reply.value # None
    /\ Changed([reply EXCEPT !.value = IF v = "v1" THEN ToV1(@)
                                       ELSE Signed([@ EXCEPT !.schema = v])])

Withhold ==
  \/ Changed([reply EXCEPT !.record = None])
  \/ Changed([reply EXCEPT !.value = None])

AdmissionNext ==
  \/ Reselect \/ OwnerRestarts \/ OtherOwner
  \/ AlterRecord \/ AlterValue \/ OlderSchema \/ Withhold

AdmissionSpec == AdmissionInit /\ [][AdmissionNext]_admissionVars

-----------------------------------------------------------------------------
AdmissionTypeOK ==
  /\ trust.descriptor.surface \in Surfaces /\ trust.epoch = 1
  /\ reply.outcome = "accepted" /\ reply.epoch \in 1..(MaxChanges + 1)
  /\ changes \in 0..MaxChanges

(* What the trusted profile executes, read off its limits alone.           *)
WithinTrust(query) ==
  \A f \in DOMAIN query : query[f] <= trust.descriptor.limits[f]

GoodFaith == Publication(trust.descriptor, TrustedScope, 1)

(* capability_admission.rs: a descriptor is presented when, and only when, *)
(* the owner published the trusted one: no other reply is presented, and   *)
(* the honest one always is, on both surfaces and whatever the profile.    *)
PresentsExactlyTheTrusted ==
  (Present("v3", trust, TrustedScope, reply).error = "ok") <=> (reply = GoodFaith)

(* The row classes of effective_limits.rs say no more and no less than     *)
(* that every limit lies between 1 and the ceiling of its schema.          *)
RowsValidIffWithinCeilings ==
  reply.value # None =>
    (RecordValid(RecordOf(reply.value)) <=>
       /\ reply.value.digest # None
       /\ reply.value.limits # <<>>
       /\ \A f \in DOMAIN reply.value.limits :
            reply.value.limits[f] \in 1..Ceilings(reply.value.surface)[f].schema)

Asked == {1, 64, 128}

Queries ==
  [max_results : {16, 17}, max_candidates : {1, 2, 63, 64, 65}, max_query_bytes : {4096}]
  \cup [max_results : {1}, max_candidates : {1}, max_query_bytes : {4097}]

(* admit_memory_query: a query passes only under the record of the trusted *)
(* profile, enabled and from the trusted owner, and within its limits; and *)
(* then it always passes.                                                  *)
QueryAdmittedIffTrusted ==
  trust.descriptor.surface = "context-memory" =>
    \A q \in Queries :
      (AdmitQuery(trust, TrustedScope, reply, q) = "ok") <=>
        /\ reply.record = GoodFaith.record
        /\ reply.epoch = GoodFaith.epoch /\ reply.source = GoodFaith.source
        /\ trust.descriptor.enabled
        /\ WithinTrust(q)

(* capability_validation.rs: a console rolled back to the v1 advertisement *)
(* discloses no limit and admits no value, whatever the owner publishes.   *)
RollbackDisclosesNoLimit ==
  LET shown == Present("v1", trust, TrustedScope, reply)
  IN  /\ shown.value # None => shown.value.limits = <<>>
      /\ reply.record # None =>
           \A f \in Varied[trust.descriptor.surface], n \in Asked :
             AdmitConsumer("v1", trust.descriptor.surface, reply.record,
                           RecordOf(trust.descriptor), f, n) # "ok"

(* Only what the operator configured as trusted is offered, disclosed and  *)
(* executed, however the owner restarts, changes its profile, alters or    *)
(* withholds what it publishes or the console is rolled back; and what is  *)
(* trusted is never refused.                                               *)
OffersAreTrusted ==
  /\ AdmissionTypeOK
  /\ PresentsExactlyTheTrusted
  /\ RowsValidIffWithinCeilings
  /\ QueryAdmittedIffTrusted
  /\ RollbackDisclosesNoLimit
=============================================================================
