----------------------------- MODULE MCAuthority -----------------------------
(* Two subjects of the operator that share no state: a behaviour is of the
   authority of requests or of the keys of the journal.                    *)
EXTENDS OwnerAuthority, JournalKeys

VARIABLE part

MCPermissions == {"metadata_read", "content_read", "content_write", "edit", "objective",
                  "commit", "pause"}

MCGrantSpecs ==
  { [subject |-> "alice", permission |-> "edit", scope |-> "s", notBefore |-> 0, expires |-> 4],
    [subject |-> "alice", permission |-> "metadata_read", scope |-> "s", notBefore |-> 1,
     expires |-> 4] }

Record(expires, revoked) ==
  [subject |-> "alice", credential |-> "c", expires |-> expires, revoked |-> revoked]

MCPrincipalFiles ==
  {[b \in Bearers |-> r] : r \in {Record(4, FALSE), Record(3, FALSE), Record(4, TRUE)}}

Slot(reference, revoked) ==
  [ reference |-> reference, subject |-> "alice", credential |-> "c", scope |-> "s",
    scopes |-> {"metadata_read", "edit"}, expires |-> 4, revoked |-> revoked,
    digestHolds |-> TRUE ]

MCSlotFiles ==
  { {Slot("A", FALSE)}, {Slot("B", FALSE)}, {Slot("A", TRUE), Slot("B", FALSE)},
    {Slot("A", FALSE), Slot("B", FALSE)} }

MCRequests ==
  { [ bearer |-> "b", subject |-> "alice", credential |-> "c", grant |-> 1, generation |-> 0,
      grantExpires |-> 4, reference |-> "A", credentialExpires |-> 4, op |-> op ] :
        op \in {"edit"} }

(* The operator and a facade share only what both read, so one of them acts
   at a time.                                                              *)
AuthorityNext == part = "authority" /\ Next /\ (job' = Idle \/ trusted' = None)

JournalKeysNext == part = "keys" /\ KeysNext

(* The files start in order.                                               *)
MCInit ==
  /\ Init /\ KeysInit
  /\ part \in {"authority", "keys"}
  /\ wall = 0
  /\ principals = [b \in Bearers |-> Record(4, FALSE)]
  /\ slots = {Slot("A", FALSE)}
  /\ part = "authority" => manifest = CHOOSE m \in Manifests : TRUE

MCNext ==
  /\ part' = part
  /\ \/ AuthorityNext /\ UNCHANGED keyVars
     \/ JournalKeysNext /\ UNCHANGED vars

MCSpec == MCInit /\ [][MCNext]_<<vars, keyVars, part>>
=============================================================================
