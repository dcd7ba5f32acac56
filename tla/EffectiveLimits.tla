-------------------------- MODULE EffectiveLimits ---------------------------
(***************************************************************************)
(* Effective limits (effective_limits.rs, capability_admission.rs,         *)
(* capability_validation.rs): a Harness owner publishes a capability       *)
(* descriptor and, beside it, a record of the limits it really enforces.   *)
(* The console compares both with a descriptor it was configured with,     *)
(* before it presents a limit or admits a value under it.                  *)
(*                                                                         *)
(* A descriptor keeps what the checks tell apart: the identities and flags *)
(* that the contract pins are one Boolean, and its digest is the content   *)
(* it was computed from.                                                   *)
(***************************************************************************)
EXTENDS Naturals, Sequences, FiniteSets, SequencesExt, FiniteSetsExt

CONSTANT None

Surfaces == {"context-memory", "provider-session"}

-----------------------------------------------------------------------------
(* The ceilings that the pinned schemas give the fields of a descriptor.   *)

Policy(policy, schema) == [class |-> "policy", policy |-> policy, schema |-> schema]
Profile(schema) == [class |-> "profile_selected", policy |-> None, schema |-> schema]
Guard(schema) == [class |-> "runtime_guard", policy |-> None, schema |-> schema]

MemoryCeilings == [
  max_candidates           |-> Policy(64, 64),
  max_results              |-> Policy(16, 16),
  max_selected             |-> Policy(32, 32),
  optional_byte_budget     |-> Policy(65536, 8192),
  max_entries_per_run      |-> Profile(10000),
  max_corpus_bytes         |-> Profile(268435456),
  max_source_bytes         |-> Guard(65536),
  max_sources_per_job      |-> Guard(16),
  max_job_input_bytes      |-> Guard(65536),
  max_summary_output_bytes |-> Guard(8192),
  max_query_bytes          |-> Guard(4096),
  max_lineage_depth        |-> Guard(2),
  max_global_memory_bytes  |-> Guard(262144),
  max_global_memory_jobs   |-> Guard(32),
  max_retention_resources  |-> Guard(512),
  max_retention_bytes      |-> Guard(268435456),
  max_cache_entries        |-> Guard(256),
  max_review_records       |-> Guard(512),
  max_memory_bindings      |-> Guard(256),
  max_usage_attempts       |-> Guard(1024)]

SessionCeilings == [
  max_completed_turns      |-> Policy(1024, 128),
  max_history_ttl_seconds  |-> Policy(604800, 86400),
  max_session_items        |-> Guard(512),
  max_dependencies         |-> Guard(128),
  max_events               |-> Guard(4096),
  max_operations           |-> Guard(1024),
  max_prepared             |-> Guard(1024),
  max_candidates           |-> Guard(4),
  max_maintenance_jobs     |-> Guard(2),
  max_frame_bytes          |-> Guard(262144),
  max_history_bytes        |-> Guard(4194304),
  max_prepared_bytes       |-> Guard(4194304),
  max_suffix_bytes         |-> Guard(131072),
  max_output_schema_bytes  |-> Guard(65536),
  max_method_bytes         |-> Guard(128),
  max_json_depth           |-> Guard(64)]

Ceilings(surface) ==
  IF surface = "context-memory" THEN MemoryCeilings ELSE SessionCeilings

(* The limits of the local fixtures are the ceilings of the schemas.       *)
FixtureLimits(surface) == [f \in DOMAIN Ceilings(surface) |-> Ceilings(surface)[f].schema]

-----------------------------------------------------------------------------
(* The first of a sequence of checks that fails names the outcome.         *)
Check(holds, error) == [holds |-> holds, error |-> error]

Outcome(checks) ==
  LET failed == {i \in DOMAIN checks : ~checks[i].holds}
  IN  IF failed = {} THEN "ok" ELSE checks[Min(failed)].error

Chosen(condition, checks) == IF condition THEN checks ELSE <<>>

-----------------------------------------------------------------------------
(* The record derived from a descriptor, with one row for each limit.      *)

PolicyClass(entry, executable) ==
  IF entry.policy = executable THEN "schema_executable_equal"
                               ELSE "schema_broader_than_executable"

Row(entry, executable) ==
  [class |-> IF entry.class = "policy" THEN PolicyClass(entry, executable) ELSE entry.class,
   policy |-> entry.policy, schema |-> entry.schema, executable |-> executable]

RowWithoutCeilingValid(row) ==
  /\ row.executable > 0
  /\ CASE row.class = "schema_executable_equal" -> row.policy = row.executable
       [] row.class = "schema_broader_than_executable" -> row.policy > row.executable
       [] OTHER -> row.policy = None

RowValid(row) ==
  /\ row.executable > 0
  /\ row.executable <= row.schema
  /\ CASE row.class = "schema_executable_equal" ->
            /\ row.policy = row.executable
            /\ row.schema = row.executable
       [] row.class = "schema_broader_than_executable" ->
            /\ row.policy > row.executable
            /\ row.policy >= row.schema
       [] OTHER -> row.policy = None

RecordOf(d) ==
  [surface |-> d.surface, owner |-> d.owner, schema |-> d.schema, digest |-> d.digest,
   enabled |-> d.enabled,
   rows |-> [f \in DOMAIN d.limits |-> Row(Ceilings(d.surface)[f], d.limits[f])]]

RecordValid(record) ==
  /\ record.digest # None
  /\ DOMAIN record.rows # {}
  /\ \A f \in DOMAIN record.rows : RowValid(record.rows[f])

Admit(record, field, requested) ==
  Outcome(<<
    Check(record.enabled, "disabled"),
    Check(field \in DOMAIN record.rows, "field_not_advertised"),
    Check(field \in DOMAIN record.rows => requested <= record.rows[field].executable,
          "effective_limit_exceeded")>>)

AuthenticateDigestOnly(record, trusted) ==
  Outcome(<<
    Check(RecordValid(trusted), "descriptor_tampered"),
    Check(record.surface = trusted.surface /\ record.owner = trusted.owner, "profile_mismatch"),
    Check(record.digest = trusted.digest, "descriptor_stale")>>)

Authenticate(record, trusted) ==
  Outcome(<<
    Check(RecordValid(trusted), "descriptor_tampered"),
    Check(record.surface = trusted.surface /\ record.owner = trusted.owner, "profile_mismatch"),
    Check(record.digest = trusted.digest, "descriptor_stale"),
    Check(record = trusted, "descriptor_tampered")>>)

-----------------------------------------------------------------------------
(* The console's own pin: the schema it reads on each surface, and whether *)
(* it can disclose limits at all.                                          *)

CurrentSchema(surface) == IF surface = "context-memory" THEN "v3" ELSE "v4"

PinnedSchemaOfVersion(version, surface) == IF version = "v3" THEN "v3" ELSE "v1"

PinnedSchema(version, surface) == IF version = "v3" THEN CurrentSchema(surface) ELSE "v1"

AdmitRolledBack(version, surface, record, trusted, field, requested) ==
  Outcome(<<
    Check(PinnedSchema("v3", surface) = record.schema, "field_not_advertised"),
    Check(Authenticate(record, trusted) = "ok", Authenticate(record, trusted)),
    Check(Admit(trusted, field, requested) = "ok", Admit(trusted, field, requested))>>)

AdmitConsumer(version, surface, record, trusted, field, requested) ==
  LET authentic == Authenticate(record, trusted)
      within    == Admit(trusted, field, requested)
  IN  Outcome(<<
        Check(version = "v3", "consumer_pin_not_adopted"),
        Check(PinnedSchema(version, surface) = record.schema, "field_not_advertised"),
        Check(authentic = "ok", authentic),
        Check(within = "ok", within)>>)

-----------------------------------------------------------------------------
(* Descriptors.                                                            *)

(* The digest of a descriptor is taken with its own field cleared.         *)
DescriptorDigest(d) == [d EXCEPT !.digest = None]
Signed(d) == [d EXCEPT !.digest = DescriptorDigest(d)]

DescriptorValid(d) ==
  /\ d.schema = CurrentSchema(d.surface)
  /\ d.pinned
  /\ d.surface = "provider-session" => d.enabled
  /\ (d.surface = "context-memory" /\ d.operations) => d.enabled
  /\ RecordValid(RecordOf(d))
  /\ d.digest = DescriptorDigest(d)

(* The legacy advertisement has no limits and no binding.                  *)
ToV1(d) == [d EXCEPT !.schema = "v1", !.limits = <<>>, !.digest = None, !.owner = None]

(* What an owner that is not at fault replies when asked for capabilities. *)
Publication(d, scope, epoch) ==
  [outcome |-> "accepted", scope |-> scope, epoch |-> epoch, source |-> "harness",
   record |-> RecordOf(d), value |-> d]

-----------------------------------------------------------------------------
(* Presenting the reply to a capability call.  trust is the configured     *)
(* descriptor with the scope, source and epoch of its owner.               *)

BindingChecks(trust, scope, reply) == <<
  Check(scope = trust.scope /\ reply.source = trust.source, "profile_mismatch"),
  Check(reply.epoch = trust.epoch, "descriptor_stale")>>

(* Each row of a published descriptor is admitted as if it were asked for, *)
(* unless the trusted descriptor of the memory surface is disabled.        *)
RowChecks(trust, reply) ==
  LET surface == trust.descriptor.surface
      trusted == RecordOf(trust.descriptor)
      rows    == RecordOf(reply.value).rows
      admit(f) == AdmitConsumer("v3", surface, reply.record, trusted, f, rows[f].executable)
      refused == {f \in DOMAIN rows : admit(f) # "ok"}
  IN Chosen(refused # {} /\ (surface = "provider-session" \/ trusted.enabled),
            <<Check(FALSE, admit(CHOOSE f \in refused : TRUE))>>)

DescriptorChecks(trust, reply) == <<
  Check(reply.value.schema = CurrentSchema(trust.descriptor.surface), "consumer_pin_not_adopted"),
  Check(reply.value.scope = trust.descriptor.scope, "profile_mismatch")>>
  \o RowChecks(trust, reply)
  \o <<Check(DescriptorValid(reply.value), "descriptor_tampered"),
       Check(reply.value = trust.descriptor, "descriptor_stale")>>

TrustedPresentation(trust, scope, reply) ==
  LET authentic == Authenticate(reply.record, RecordOf(trust.descriptor))
  IN Outcome(
       BindingChecks(trust, scope, reply)
       \o <<Check(reply.record # None, "field_not_advertised")>>
       \o Chosen(reply.record # None, <<Check(authentic = "ok", authentic)>>)
       \o <<Check(reply.value # None, "field_not_advertised")>>
       \o Chosen(reply.record # None /\ reply.value # None, DescriptorChecks(trust, reply)))

LegacyProjection(reply) ==
  Outcome(<<
    Check(reply.value # None, "field_not_advertised"),
    Check(reply.value # None =>
            \/ reply.value.schema = "v1"
            \/ reply.value.schema # "v1" /\ DescriptorValid(reply.value),
          "descriptor_tampered")>>)

Present(version, trust, scope, reply) ==
  CASE reply.outcome # "accepted" -> [error |-> "ok", value |-> None]
    [] reply.outcome = "accepted" /\ version = "v3" ->
         IF trust = None THEN [error |-> "consumer_not_recorded", value |-> None]
         ELSE LET error == TrustedPresentation(trust, scope, reply)
              IN  [error |-> error, value |-> IF error = "ok" THEN reply.value ELSE None]
    [] OTHER ->
         LET error == LegacyProjection(reply)
         IN  [error |-> error, value |-> IF error = "ok" THEN ToV1(reply.value) ELSE None]

(* A query is admitted field by field under the published record.          *)
AdmitQuery(trust, scope, reply, query) ==
  IF trust = None THEN "consumer_not_recorded"
  ELSE LET trusted == RecordOf(trust.descriptor)
           admit(f) == AdmitConsumer("v3", "context-memory", reply.record, trusted, f, query[f])
       IN  Outcome(
             BindingChecks(trust, scope, reply)
             \o <<Check(reply.record # None, "field_not_advertised")>>
             \o Chosen(reply.record # None,
                  << Check(admit("max_results") = "ok", admit("max_results")),
                     Check(admit("max_candidates") = "ok", admit("max_candidates")),
                     Check(admit("max_query_bytes") = "ok", admit("max_query_bytes"))>>))
=============================================================================
