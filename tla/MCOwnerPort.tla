---------------------------- MODULE MCOwnerPort -----------------------------
(* The owner port and the admission of what an owner publishes, on small
   instances for TLC: a behaviour is of one of the two.                    *)
EXTENDS OwnerPort, CapabilityAdmission

VARIABLE part

MCTrusted ==
  Signed([surface |-> "context-memory", schema |-> "v3", owner |-> "sts2-harness",
          scope |-> Home, enabled |-> TRUE, operations |-> TRUE, pinned |-> TRUE,
          limits |-> [max_results |-> 2, max_candidates |-> 64, max_query_bytes |-> 4096],
          digest |-> None])

(* The owner may come to allow more than the configured descriptor does.   *)
MCWider == Signed([MCTrusted EXCEPT !.limits["max_results"] = 16, !.digest = None])
MCProfiles == [trusted |-> MCTrusted, wider |-> MCWider]

(* The keeper makes bindings, the viewer of the same scope reads and lists *)
(* them, and the reader is of another scope.                               *)
Away == CHOOSE s \in Scopes : s # Home

MCGrants ==
  [reader |-> [class |-> "read_search", scope |-> Home, expires |-> 1],
   keeper |-> [class |-> "control", scope |-> Away, expires |-> 2],
   viewer |-> [class |-> "read_search", scope |-> Away, expires |-> 2]]

MCVaried ==
  [s \in Surfaces |->
     IF s = "context-memory" THEN {"max_candidates", "optional_byte_budget"}
     ELSE {"max_completed_turns"}]

PortNext == part = "port" /\ Next

OfferNext == part = "offer" /\ AdmissionNext

(* While the port is at work, what was offered is the trusted profile and  *)
(* does not change.                                                        *)
MCInit ==
  /\ Init /\ AdmissionInit
  /\ \/ /\ part = "port"
        /\ trust.descriptor =
             Descriptor("provider-session", FixtureLimits("provider-session"), TRUE)
     \/ part = "offer" /\ version = "v3"

MCNext ==
  /\ part' = part
  /\ \/ PortNext /\ UNCHANGED admissionVars
     \/ OfferNext /\ UNCHANGED vars

MCSpec ==
  /\ MCInit /\ [][MCNext]_<<vars, admissionVars, part>>
  /\ \A c \in Clients : WF_vars(Serve(c))
=============================================================================
