----------------------------- MODULE JournalKeys -----------------------------
(***************************************************************************)
(* The keys of the owner invocation journal (owner_operator/keys.rs and    *)
(* owner_invocation_store crypto, open and rotate_data_keys): the operator *)
(* edits the key manifest, one process at a time opens the journal, writes *)
(* rows under its current key or rotates every row to a new one, and may   *)
(* crash between any two steps.                                            *)
(*                                                                         *)
(* The process lock admits one holder, the service or the rotation command *)
(* (a file replaced under it is OwnerInvocation's subject).  Sealing with  *)
(* the AEAD is modelled by what it binds: a row opens only under the data  *)
(* key, the index key and the key id it was sealed with.  A row stands for *)
(* a stable locator, its body counts the writes made under it.             *)
(***************************************************************************)
EXTENDS Naturals, FiniteSets

CONSTANTS
  NoKeys,      \* no store open, or no keys loaded
  Locators,
  KeyIds,      \* ids of data keys
  Materials,   \* what a key file may hold
  MaxBody      \* bound: writes per locator

ASSUME JournalKeysAssumption == MaxBody \in Nat

VARIABLES
  manifest,  \* the key manifest and the files it names
  meta,      \* the index key the journal was created with, or NoKeys
  rows,      \* the journal's rows
  store,     \* the open store of the process that holds the lock, or NoKeys
  written    \* how often each locator was written (history)

keyVars == <<manifest, meta, rows, store, written>>

(* validate_manifest and OwnerInvocationKeyMaterial::new: the current key  *)
(* is one of the data keys, and no key file serves twice.                  *)
Manifests ==
  {m \in [ index : Materials, data : UNION {[ids -> Materials] : ids \in SUBSET KeyIds},
           current : KeyIds ] :
     /\ m.current \in DOMAIN m.data
     /\ \A a \in DOMAIN m.data : /\ m.data[a] # m.index
                                 /\ \A b \in DOMAIN m.data : m.data[a] = m.data[b] => a = b}

(* No manifest stands for its own absence.                                 *)
ASSUME NoKeysAssumption == NoKeys \notin Manifests

JournalRows ==
  [ locator : Locators, tagIndex : Materials, index : Materials, keyId : KeyIds,
    key : Materials, body : 1 .. MaxBody ]

Stores == [keys : Manifests, next : Manifests \cup {NoKeys}, stage : {"open", "loaded", "committed"}]

KeysInit ==
  /\ manifest \in Manifests
  /\ meta = NoKeys /\ rows = {} /\ store = NoKeys
  /\ written = [l \in Locators |-> 0]

-----------------------------------------------------------------------------
(* decrypt and open_record_with_keys *)
Opens(keys, row) ==
  /\ row.index = keys.index /\ row.tagIndex = keys.index
  /\ row.keyId \in DOMAIN keys.data
  /\ keys.data[row.keyId] = row.key

(* validate_all_rows *)
RowsOpen(keys) == \A row \in rows : Opens(keys, row)

(* encrypt under the current data key; the tag is given.                   *)
SealedRow(keys, locator, tagIndex, body) ==
  [ locator |-> locator, tagIndex |-> tagIndex, index |-> keys.index,
    keyId |-> keys.current, key |-> keys.data[keys.current], body |-> body ]

(* same_index_material *)
SameIndex(keys, new) == new.index = keys.index

(* Mutant: rotation asks only that the new keys hold the old current one.  *)
RetainsCurrent(keys, new) ==
  keys.current \in DOMAIN new.data

(* retains_existing_data_key_material *)
Retains(keys, new) ==
  \A id \in DOMAIN keys.data : id \in DOMAIN new.data /\ new.data[id] = keys.data[id]

-----------------------------------------------------------------------------
(* The operator, who may put any valid manifest in place.                  *)
EditManifest ==
  /\ manifest' \in Manifests \ {manifest}
  /\ UNCHANGED <<meta, rows, store, written>>

(* initialize_index_id: the first process to open the journal records its  *)
(* index key, every other one must come with the same.                     *)
IndexAgrees(keys) ==
  \/ meta = NoKeys /\ rows = {}
  \/ meta = keys.index

(* open: every row must open, or the store is refused.                     *)
Open ==
  /\ store = NoKeys
  /\ IndexAgrees(manifest)
  /\ RowsOpen(manifest)
  /\ meta' = manifest.index
  /\ store' = [keys |-> manifest, next |-> NoKeys, stage |-> "open"]
  /\ UNCHANGED <<manifest, rows, written>>

(* reserve and every later step of a row: read by tag, sealed again.       *)
Write(l) ==
  /\ store # NoKeys /\ store.stage = "open"
  /\ LET found == {row \in rows : row.locator = l /\ row.tagIndex = store.keys.index}
     IN /\ \A row \in found : Opens(store.keys, row)
        /\ written[l] < MaxBody
        /\ rows' = (rows \ found)
                     \cup {SealedRow(store.keys, l, store.keys.index, written[l] + 1)}
  /\ written' = [written EXCEPT ![l] = @ + 1]
  /\ UNCHANGED <<manifest, meta, store>>

(* rotate_data_keys loads the manifest anew.                               *)
RotateLoad ==
  /\ store # NoKeys /\ store.stage = "open"
  /\ SameIndex(store.keys, manifest)
  /\ Retains(store.keys, manifest)
  /\ store' = [store EXCEPT !.next = manifest, !.stage = "loaded"]
  /\ UNCHANGED <<manifest, meta, rows, written>>

Reencrypted(row) == SealedRow(store.next, row.locator, row.tagIndex, row.body)

(* One transaction over all rows: all of them or, after a crash, none.     *)
RotateCommit ==
  /\ store # NoKeys /\ store.stage = "loaded"
  /\ RowsOpen(store.keys)
  /\ rows' = {Reencrypted(row) : row \in rows}
  /\ store' = [store EXCEPT !.stage = "committed"]
  /\ UNCHANGED <<manifest, meta, written>>

(* Mutant: the loaded keys are not cleared.                                *)
RotateAdoptAndKeep ==
  /\ store # NoKeys /\ store.stage = "committed"
  /\ store' = [store EXCEPT !.keys = store.next, !.stage = "open"]
  /\ UNCHANGED <<manifest, meta, rows, written>>

(* Mutant: the process keeps its old keys.                                 *)
RotateAdoptNothing ==
  /\ store # NoKeys /\ store.stage = "committed"
  /\ store' = [store EXCEPT !.stage = "open", !.next = NoKeys]
  /\ UNCHANGED <<manifest, meta, rows, written>>

(* The new keys become the store's; validate_all_rows follows.             *)
RotateAdopt ==
  /\ store # NoKeys /\ store.stage = "committed"
  /\ store' = IF RowsOpen(store.next)
              THEN [keys |-> store.next, next |-> NoKeys, stage |-> "open"] ELSE NoKeys
  /\ UNCHANGED <<manifest, meta, rows, written>>

(* The process ends or crashes.                                            *)
Close ==
  /\ store # NoKeys
  /\ store' = NoKeys
  /\ UNCHANGED <<manifest, meta, rows, written>>

KeysNext ==
  \/ EditManifest \/ Open \/ RotateLoad \/ RotateCommit \/ RotateAdopt \/ Close
  \/ \E l \in Locators : Write(l)

KeysSpec == KeysInit /\ [][KeysNext]_keyVars

-----------------------------------------------------------------------------
(* Properties.                                                             *)

(* The journal, its creation record and the open store are well formed, and
   keys loaded for a rotation are forgotten when it ends.                  *)
KeysTypeOK ==
  /\ manifest \in Manifests
  /\ meta \in Materials \cup {NoKeys}
  /\ rows \subseteq JournalRows
  /\ store \in Stores \cup {NoKeys}
  /\ store # NoKeys => (store.next = NoKeys <=> store.stage = "open")
  /\ written \in [Locators -> 0 .. MaxBody]

(* Whatever the operator does to the manifest meanwhile, an open store can
   open every row, and each written locator has one row, with its last body. *)
OpenStoreReads ==
  /\ \A l \in Locators : written[l] # 0 =>
       \E row \in rows : {r \in rows : r.locator = l} = {row} /\ row.body = written[l]
  /\ store # NoKeys /\ store.stage # "committed" => RowsOpen(store.keys)

(* A crash at any step of a rotation, before or after its transaction, leaves
   a journal that the manifest the rotation loaded opens entirely.         *)
CrashLeavesRowsOpenable ==
  store # NoKeys /\ store.stage # "open" => RowsOpen(store.next)

(* Whatever the operator does to the manifest, and wherever a rotation or  *)
(* the process ends, the journal keeps each row, readable by the store that *)
(* is open and by the manifest a rotation has loaded.                      *)
RowsStayOpenable == KeysTypeOK /\ OpenStoreReads /\ CrashLeavesRowsOpenable
=============================================================================
