------------------------------- MODULE MCStore -------------------------------
(***************************************************************************)
(* The store, the rules of what it accepts and the producer's stores, side *)
(* by side: a behaviour exercises one of the parts, event pages, the other    *)
(* reads, what is accepted, or the producer's stores.                      *)
(***************************************************************************)
EXTENDS ReadStore, CaptureVault

VARIABLE part

Unmeasured == [source |-> "unavailable", value |-> None, revision |-> None, turn |-> None]

Component(id, ordinal, status, ref, digest, kind) ==
  [id |-> id, ordinal |-> ordinal, size |-> 1, status |-> status, ref |-> ref,
   digest |-> digest, kind |-> kind, measurement |-> Unmeasured]

Manifest(id, rank, project, run, components, complete) ==
  [id |-> id, bytes |-> 1, rank |-> rank, project |-> project, run |-> run, episode |-> "ep",
   attempt |-> id, mode |-> "memory", boundary |-> "adapter", complete |-> complete,
   reasons |-> IF complete THEN {} ELSE {"write_failed"}, size |-> 2,
   measurement |-> Unmeasured, mapping |-> <<>>, components |-> components]

C1 == Component("c1", 0, "complete", "b1", "d1", "stdin")
C2 == Component("c2", 1, "partial", "b1", "d2", "stdin")

First == Manifest("s1", 1, "p", "r1", <<C1>>, TRUE)

StoreManifests ==
  {First,
   [First EXCEPT !.bytes = 2, !.episode = "other"],
   Manifest("s2", 2, "p", "r1", <<C1, C2>>, FALSE),
   Manifest("s3", 3, "p", "r2", <<[C2 EXCEPT !.ordinal = 0]>>, FALSE),
   [Manifest("s4", 4, "q", "r1", <<Component("c1", 0, "omitted", None, None, "stdin")>>, FALSE)
      EXCEPT !.mode = "private"],
   Manifest("s5", 5, "p", "r1", <<[C1 EXCEPT !.ref = "b2"]>>, FALSE),
   Manifest("s6", 0, "p", "r1", <<[C1 EXCEPT !.ref = "b2", !.digest = "d2"]>>, FALSE)}

(* A manifest varied in the fields the rules of context-reader relate.     *)
Measurements ==
  {[source |-> source, value |-> value, revision |-> revision, turn |-> turn] :
     source \in {"unavailable", "heuristic", "provider_reported"}, value \in {1, None},
     revision \in {"v", None}, turn \in {"t", None}}

Varied ==
  {[First EXCEPT !.id = "v", !.complete = complete, !.reasons = reasons, !.mode = mode,
                 !.boundary = boundary,
                 !.components = <<Component("c1", 0, status, ref, digest, "stdin")>>] :
     complete \in BOOLEAN, reasons \in {{}, {"write_failed"}},
     mode \in {"metadata", "memory", "private"},
     boundary \in {"adapter", "adapter.cli_input"},
     status \in {"complete", "partial", "omitted", "expired"},
     ref \in {"b1", None}, digest \in {"d1", None}}
  \cup {[First EXCEPT !.id = "v", !.measurement = m] : m \in Measurements}
  \cup {[First EXCEPT !.id = "v", !.mapping = <<[components |-> named]>>] :
          named \in {<<"c1">>, <<"c1", "c1">>, <<"c9">>}}
  \cup {[First EXCEPT !.id = "v", !.components = <<C1, c>>] :
          c \in {C1, [C1 EXCEPT !.ordinal = 1], [C1 EXCEPT !.ordinal = 1, !.id = "c2"]}}

MCManifests == StoreManifests \cup Varied

Event(id, snapshot, position) ==
  [id |-> id, bytes |-> 1, snapshot |-> snapshot, position |-> position,
   type |-> "input.prepared", details |-> {}, usage |-> Unmeasured]

StoreEvents ==
  {Event("e0", None, 0), Event("e1", "s1", 5), Event("e2", "s1", 2), Event("e3", "s1", 2), Event("e4", "s3", 0)}

MCEventInputs ==
  StoreEvents
  \cup {[Event("v", None, 0) EXCEPT !.type = type, !.details = details] :
          type \in {"provider.receipt_reported", "usage.reported", "action.reference",
                    "content.expired", "capture.gap", "input.write_failed"},
          details \in {{}, {"provider_request_ref"}, {"usage"}, {"component_id"}, {"code"},
                       {"action_id", "model_execution_id"}, {"code", "dropped_entries"}}}

MCContents ==
  {[ref |-> "b1", digest |-> "d1"], [ref |-> "b1", digest |-> "d2"], [ref |-> "b2", digest |-> "d2"]}

Grant(token, project, run, privilege, expires) ==
  [token |-> token, project |-> project, run |-> run, privilege |-> privilege,
   expires |-> expires]

MCGrants ==
  {Grant("t1", "p", None, "content", 1), Grant("t2", "p", "r1", "metadata", 2)}

MCAssociations ==
  {[availability |-> availability, context_ref |-> "c", run |-> m.run, episode |-> m.episode,
    project |-> m.project, snapshot |-> m.id, revision |-> "r", epoch |-> epoch,
    attempt |-> m.attempt] :
     m \in StoreManifests, availability \in {"available", "unavailable"}, epoch \in {0, 1}}

MCScopes ==
  {[project |-> "p", snapshot |-> "s1", component |-> "c1", ref |-> "b1"],
   [project |-> "p", snapshot |-> "s1", component |-> "c2", ref |-> "b1"]}

-----------------------------------------------------------------------------
MCInit == Init /\ VaultInit /\ part \in {"pages", "reads", "parse", "vault"}

PagesPart ==
  /\ part = "pages"
  /\ Next
  /\ DOMAIN entries' \subseteq {"s1", "s3"} /\ content' = content
  /\ \A id \in DOMAIN entries' : entries'[id].bytes = 1
  /\ "v" \notin DOMAIN events'
  /\ UNCHANGED vaultVars

ReadsPart ==
  /\ part = "reads"
  /\ \/ \E m \in StoreManifests : Ingest(m)
     \/ \E c \in Contents : IngestContent(c)
     \/ \E g \in Grants : Revoke(g.token)
     \/ Tick
  /\ UNCHANGED vaultVars

ParsePart ==
  /\ part = "parse"
  /\ \/ \E m \in Varied : Ingest(m)
     \/ \E e \in MCEventInputs : AppendEvent(e)
  /\ DOMAIN entries' \subseteq {"v"} /\ DOMAIN events' \subseteq {"v"}
  /\ UNCHANGED vaultVars

VaultPart == part = "vault" /\ VaultNext /\ UNCHANGED vars

MCNext == (PagesPart \/ ReadsPart \/ ParsePart \/ VaultPart) /\ UNCHANGED part

MCSpec == MCInit /\ [][MCNext]_<<vars, vaultVars, part>>
=============================================================================
