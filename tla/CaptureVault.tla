---------------------------- MODULE CaptureVault -----------------------------
(***************************************************************************)
(* Where a producer keeps what it captured: the bounded ring of memory     *)
(* capture (capture/memory.rs), which drops its oldest record when full,   *)
(* and the private vault (private_store/vault.rs), which holds encrypted   *)
(* objects up to a quota.                                                  *)
(***************************************************************************)
EXTENDS Naturals, Sequences, FiniteSets, Functions

CONSTANTS
  CaptureIds,     \* the snapshots a producer captures
  CaptureSizes,   \* the sizes of what it captures
  PrivateScopes,  \* PrivateScope: [project, snapshot, component, ref]
  MaxQueue,       \* max_queue_entries
  MaxRecord,      \* max_record_bytes
  MaxObject,      \* MAX_PRIVATE_OBJECT_BYTES
  Quota,          \* quota_bytes
  Tag,            \* what authenticated encryption adds to an object
  MaxPuts         \* bound of the model: captures and puts

ASSUME VaultAssumption ==
  /\ MaxQueue \in Nat \ {0} /\ MaxRecord \in Nat /\ MaxObject \in Nat
  /\ Quota \in Nat \ {0}
  /\ Tag \in Nat /\ CaptureSizes \subseteq Nat /\ MaxPuts \in Nat

(* PrivateScope has these fields and no others.                            *)
ASSUME PrivateScopesAssumption ==
  \A s \in PrivateScopes :
    s = [project |-> s.project, snapshot |-> s.snapshot, component |-> s.component,
         ref |-> s.ref]

VARIABLES
  ring,      \* the records of memory capture
  dropped,   \* how many it dropped
  offered,   \* all the records ever pushed (history)
  objects,   \* the vault: [storage key -> [nonce, aad, plain]]
  used,      \* used_bytes
  counter,
  nonces,    \* the nonces of all encryptions so far (history)
  latest     \* what was last put under each scope (history)

vaultVars == <<ring, dropped, offered, objects, used, counter, nonces, latest>>

-----------------------------------------------------------------------------
(* MemoryCapture.                                                          *)

PushNewest(record) ==
  /\ Len(offered) < MaxPuts
  /\ IF Len(ring) >= MaxQueue THEN dropped' = dropped + 1 /\ UNCHANGED ring
     ELSE ring' = Append(ring, record) /\ UNCHANGED dropped
  /\ offered' = Append(offered, record)
  /\ UNCHANGED <<objects, used, counter, nonces, latest>>

Push(record) ==
  /\ Len(offered) < MaxPuts
  /\ IF Len(ring) >= MaxQueue
       THEN ring' = Append(Tail(ring), record) /\ dropped' = dropped + 1
       ELSE ring' = Append(ring, record) /\ UNCHANGED dropped
  /\ offered' = Append(offered, record)
  /\ UNCHANGED <<objects, used, counter, nonces, latest>>

Prepared(id, size) ==
  /\ size <= MaxRecord
  /\ Push([snapshot |-> id, state |-> "prepared", bytes |-> size])

Written(id, state) == Push([snapshot |-> id, state |-> state, bytes |-> 0])

-----------------------------------------------------------------------------
(* PrivateVault.  An object is stored under its scope's associated data,   *)
(* every field of the scope; putting under a scope again replaces its      *)
(* object.  A nonce is a digest of the counter, the associated data and    *)
(* the length.                                                             *)

AadByReference(scope) == <<scope.snapshot, scope.ref>>

Aad(scope) == <<scope.project, scope.snapshot, scope.component, scope.ref>>

Stored(f, key, value) == [x \in DOMAIN f \cup {key} |-> IF x = key THEN value ELSE f[x]]

Sealed(size) == size + Tag

OldSize(scope) ==
  IF Aad(scope) \in DOMAIN objects THEN Sealed(objects[Aad(scope)].plain.size) ELSE 0

Projected(scope, size) == used - OldSize(scope) + Sealed(size)

AddedUp(scope, size) == used + Sealed(size)

Accounted(scope, size) == Projected(scope, size)

NonceOfScope(scope, size) == <<Aad(scope), size>>

Nonce(scope, size) == <<counter, Aad(scope), size>>

(* put: the number of the encryption stands for the plaintext.             *)
Put(scope, size) ==
  /\ counter < MaxPuts
  /\ size <= MaxObject
  /\ Projected(scope, size) <= Quota
  /\ LET plain == [size |-> size, put |-> counter]
         object == [nonce |-> Nonce(scope, size), aad |-> Aad(scope), plain |-> plain]
     IN  /\ objects' = Stored(objects, Aad(scope), object)
         /\ latest' = Stored(latest, scope, plain)
  /\ used' = Accounted(scope, size)
  /\ nonces' = nonces \cup {Nonce(scope, size)}
  /\ counter' = counter + 1
  /\ UNCHANGED <<ring, dropped, offered>>

(* Whether a restricted get returns the object under a scope.              *)
Opens(scope) == Aad(scope) \in DOMAIN objects /\ objects[Aad(scope)].aad = Aad(scope)

VaultInit ==
  /\ ring = <<>> /\ dropped = 0 /\ offered = <<>>
  /\ objects = <<>> /\ used = 0 /\ counter = 0 /\ nonces = {} /\ latest = <<>>

VaultNext ==
  \/ \E id \in CaptureIds, size \in CaptureSizes : Prepared(id, size)
  \/ \E id \in CaptureIds, state \in {"input_write_completed", "input_write_failed"} :
       Written(id, state)
  \/ \E scope \in PrivateScopes, size \in CaptureSizes : Put(scope, size)

VaultSpec == VaultInit /\ [][VaultNext]_vaultVars

-----------------------------------------------------------------------------
(* docs/RETENTION.md: overflow evicts the oldest record and reports a gap  *)
(* counter: the ring is the newest part of all that was offered, and the   *)
(* counter is what is missing of it.                                       *)
RingIsNewest ==
  /\ Len(ring) <= MaxQueue
  /\ dropped = Len(offered) - Len(ring)
  /\ ring = SubSeq(offered, dropped + 1, Len(offered))

(* docs/RETENTION.md: a 512 MiB quota: what the vault holds is what it     *)
(* counts, within the quota, however often an object is replaced.          *)
QuotaHeld ==
  /\ used = SumFunction([a \in DOMAIN objects |-> Sealed(objects[a].plain.size)])
  /\ used <= Quota

(* private_store/scope.rs: no two encryptions of one vault share a nonce,  *)
(* also when an object is replaced by one of the same length.  (The        *)
(* counter is the vault's, not the key's: a second vault starts at 0.)     *)
NoncesFresh == Cardinality(nonces) = counter

(* private_store/scope.rs: a ciphertext of one scope does not decrypt for  *)
(* another: what a scope opens is what was last put under that very scope. *)
OpensLatest ==
  \A s \in PrivateScopes :
    /\ Opens(s) = (s \in DOMAIN latest)
    /\ Opens(s) => objects[Aad(s)].plain = latest[s]

(* The producer's bounded stores lose only what they say they lose and     *)
(* give back what was last put, under fresh nonces.                        *)
VaultKeeps == RingIsNewest /\ QuotaHeld /\ NoncesFresh /\ OpensLatest
=============================================================================
