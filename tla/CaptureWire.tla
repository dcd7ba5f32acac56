----------------------------- MODULE CaptureWire -----------------------------
(***************************************************************************)
(* What context-reader accepts (snapshot/*.rs, event/*.rs,                 *)
(* association.rs) of a document whose fields have their types and bounds: *)
(* the rules that relate one field to another.  An optional field is a     *)
(* value or None.                                                          *)
(***************************************************************************)
EXTENDS Naturals, Sequences

CONSTANT None

Given(x) == x # None

(* A count that was not measured says nothing else; one that was names the *)
(* revision or the turn it comes from.                                     *)
MeasurementValid(m) ==
  /\ m.source = "unavailable" => ~Given(m.value) /\ ~Given(m.revision) /\ ~Given(m.turn)
  /\ m.source # "unavailable" => Given(m.value)
  /\ m.source \in {"heuristic", "local_tokenizer"} => Given(m.revision)
  /\ m.source = "provider_reported" => Given(m.turn)

Retained == {"complete", "redacted", "partial"}

(* A component is retained with a reference and a digest, or has neither.  *)
ComponentValid(c) ==
  /\ c.status \in Retained => Given(c.ref) /\ Given(c.digest)
  /\ c.status \notin Retained => ~Given(c.ref) /\ ~Given(c.digest)
  /\ MeasurementValid(c.measurement)

ComponentsValid(cs) ==
  /\ cs # <<>>
  /\ \A i \in DOMAIN cs : ComponentValid(cs[i]) /\ cs[i].ordinal = i - 1
  /\ \A i, j \in DOMAIN cs : cs[i].id = cs[j].id => i = j

MappingValid(m, cs) ==
  /\ \A i, j \in DOMAIN m.components : m.components[i] = m.components[j] => i = j
  /\ \A i \in DOMAIN m.components : \E k \in DOMAIN cs : cs[k].id = m.components[i]

Statuses(m) == {m.components[i].status : i \in DOMAIN m.components}

Kinds(m) == {m.components[i].kind : i \in DOMAIN m.components}

CompleteClaimed(m) == m.complete = (m.reasons = {})

(* A capture that claims to be complete is so in every component; one that *)
(* does not, says why.                                                     *)
CompleteValid(m) ==
  /\ m.complete => m.reasons = {} /\ Statuses(m) = {"complete"}
  /\ ~m.complete => m.reasons # {}
  /\ m.complete /\ m.boundary = "adapter.cli_input" =>
       {"stdin", "output_schema", "configuration"} \subseteq Kinds(m)

MetadataValid(m) ==
  m.mode = "metadata" =>
    \A i \in DOMAIN m.components :
      LET c == m.components[i]
      IN  ~Given(c.ref) /\ ~Given(c.digest) /\ c.status \notin Retained

ManifestValid(m) ==
  /\ ComponentsValid(m.components)
  /\ \A i \in DOMAIN m.mapping : MappingValid(m.mapping[i], m.components)
  /\ MeasurementValid(m.measurement)
  /\ CompleteValid(m)
  /\ MetadataValid(m)

(* What an event of each type must say.                                    *)
EventValid(e) ==
  /\ e.type = "provider.receipt_reported" => "provider_request_ref" \in e.details
  /\ e.type = "usage.reported" => "usage" \in e.details
  /\ e.type = "action.reference" => {"action_id", "model_execution_id"} \subseteq e.details
  /\ e.type = "content.expired" => "component_id" \in e.details
  /\ e.type = "capture.gap" => {"code", "dropped_entries"} \subseteq e.details
  /\ e.type = "input.write_failed" => "code" \in e.details
  /\ "usage" \in e.details => MeasurementValid(e.usage)

(* An association binds all of its identities or none of them.             *)
Identities(a) == <<a.context_ref, a.run, a.episode, a.project, a.snapshot, a.revision>>

AssociationValid(a) ==
  IF a.availability = "available"
    THEN (\A i \in DOMAIN Identities(a) : Given(Identities(a)[i])) /\ Given(a.epoch) /\ a.epoch > 0
    ELSE (\A i \in DOMAIN Identities(a) : ~Given(Identities(a)[i])) /\ ~Given(a.epoch)
=============================================================================
