------------------------- MODULE ControlPlaneProofs -------------------------
(***************************************************************************)
(* What the operators of the control plane keep, for patches of any number *)
(* of operations: the registry of items stays well typed and the           *)
(* configuration of the edited draft stays sound (its references distinct, *)
(* unlocked, retained, its pins selected, its notes and objective there).  *)
(* ControlProofs builds the inductive invariants on these lemmas.          *)
(***************************************************************************)
EXTENDS ControlPlane, SequenceTheorems, FiniteSetTheorems, WellFoundedInduction, TLAPS

-----------------------------------------------------------------------------
(* Induction over the natural numbers, for a set of them.                  *)

(* A set of naturals that is not empty has a least member.                  *)
LEMMA LeastNatural ==
  ASSUME NEW T, T \subseteq Nat, T # {}
  PROVE  \E m \in T : \A k \in T : m <= k
<1> DEFINE R == {ss \in Nat \X Nat : ss[1] < ss[2]}
<1>1. IsWellFoundedOn(R, Nat)
  BY NatLessThanWellFounded DEF OpToRel
<1>2. \A k, m \in Nat : k < m => <<k, m>> \in R
  OBVIOUS
<1> HIDE DEF R
<1>3. PICK m \in T : \A k \in T : <<k, m>> \notin R
  BY <1>1, WFMin
<1>4. ASSUME NEW k \in T  PROVE m <= k
  <2>1. k \in Nat /\ m \in Nat /\ ~(k < m)
    BY <1>2, <1>3
  <2> QED BY <2>1
<1> QED BY <1>4

(* Induction over Nat, on the set of the numbers a fact holds of.           *)
LEMMA InductionOverNat ==
  ASSUME NEW T, 0 \in T, \A n \in Nat : n \in T => n + 1 \in T
  PROVE  Nat \subseteq T
<1> SUFFICES ASSUME Nat \ T # {}  PROVE FALSE
  OBVIOUS
<1>1. PICK m \in Nat \ T : \A k \in Nat \ T : m <= k
  BY LeastNatural
<1>2. m # 0 /\ m - 1 \in Nat /\ ~(m <= m - 1)
  BY <1>1
<1>3. m - 1 \in T
  BY <1>1, <1>2
<1> QED BY <1>1, <1>2, <1>3

-----------------------------------------------------------------------------
(* Dropping, the retain of a vector.                                       *)

KeptIn(seq, dropped, n, f) ==
  f = [i \in 0..n |->
         IF i = 0 THEN <<>>
         ELSE IF seq[i] \in dropped THEN f[i - 1] ELSE Append(f[i - 1], seq[i])]

(* Dropping's recursive function is defined on every prefix of the list.    *)
LEMMA KeptExists ==
  ASSUME NEW seq, NEW dropped, NEW n \in Nat
  PROVE  \E f : KeptIn(seq, dropped, n, f)
<1> DEFINE T == {m \in Nat : \E f : KeptIn(seq, dropped, m, f)}
<1>1. 0 \in T
  <2>1. KeptIn(seq, dropped, 0, [i \in 0..0 |-> <<>>])
    BY DEF KeptIn
  <2> QED BY <2>1
<1>2. ASSUME NEW m \in Nat, m \in T  PROVE m + 1 \in T
  <2>1. PICK f : KeptIn(seq, dropped, m, f)
    BY <1>2
  <2> DEFINE e == IF seq[m + 1] \in dropped THEN f[m] ELSE Append(f[m], seq[m + 1])
             g == [i \in 0..(m + 1) |-> IF i = m + 1 THEN e ELSE f[i]]
  <2>2. \A i \in 0..m : f[i] = IF i = 0 THEN <<>>
          ELSE IF seq[i] \in dropped THEN f[i - 1] ELSE Append(f[i - 1], seq[i])
    BY <2>1 DEF KeptIn
  <2>3. \A i \in 0..(m + 1) : g[i] = IF i = 0 THEN <<>>
          ELSE IF seq[i] \in dropped THEN g[i - 1] ELSE Append(g[i - 1], seq[i])
    BY <2>2
  <2>4. KeptIn(seq, dropped, m + 1, g)
    BY <2>3 DEF KeptIn
  <2> QED BY <2>4
<1>3. n \in T
  BY <1>1, <1>2, InductionOverNat
<1> QED BY <1>3

(* Dropping, one element at a time: retain over the list.                   *)
LEMMA DroppingUnrolled ==
  ASSUME NEW seq, NEW dropped, Len(seq) \in Nat
  PROVE  \E f : KeptIn(seq, dropped, Len(seq), f) /\ Dropping(seq, dropped) = f[Len(seq)]
<1> DEFINE kept == CHOOSE h : KeptIn(seq, dropped, Len(seq), h)
<1>1. KeptIn(seq, dropped, Len(seq), kept)
  <2>1. \E h : KeptIn(seq, dropped, Len(seq), h)
    BY KeptExists
  <2> QED BY <2>1, Zenon
<1>2. Dropping(seq, dropped) = kept[Len(seq)]
  BY Zenon DEF Dropping, KeptIn
<1> QED BY <1>1, <1>2

(* What is left are elements of the sequence that are not dropped, all of  *)
(* them, from different places.                                            *)
LEMMA DroppingKeeps ==
  ASSUME NEW S, NEW seq \in Seq(S), NEW dropped
  PROVE  LET left == Dropping(seq, dropped)
         IN  /\ left \in Seq(S)
             /\ Range(left) = Range(seq) \ dropped
             /\ \E at \in [1..Len(left) -> 1..Len(seq)] :
                  /\ \A i, j \in 1..Len(left) : at[i] = at[j] => i = j
                  /\ \A i \in 1..Len(left) : left[i] = seq[at[i]]
<1>1. PICK f : KeptIn(seq, dropped, Len(seq), f) /\ Dropping(seq, dropped) = f[Len(seq)]
  BY DroppingUnrolled
<1>2. \A i \in 0..Len(seq) : f[i] = IF i = 0 THEN <<>>
        ELSE IF seq[i] \in dropped THEN f[i - 1] ELSE Append(f[i - 1], seq[i])
  BY <1>1 DEF KeptIn
<1> DEFINE From(n) ==
             \E at \in [1..Len(f[n]) -> 1..n] :
               /\ \A i, j \in 1..Len(f[n]) : at[i] = at[j] => i = j
               /\ \A i \in 1..Len(f[n]) : f[n][i] = seq[at[i]]
           Kept(n) == f[n] \in Seq(S)
                      /\ Range(f[n]) = {seq[i] : i \in 1..n} \ dropped
                      /\ From(n)
           T == {n \in Nat : n <= Len(seq) => Kept(n)}
<1>3. 0 \in T
  <2>1. f[0] = <<>>
    BY <1>2
  <2>2. From(0)
    <3> DEFINE at == [i \in 1..0 |-> i]
    <3>1. Len(f[0]) = 0 /\ at \in [1..0 -> 1..0]
      BY <2>1
    <3>2. \A i \in 1..0 : FALSE
      OBVIOUS
    <3> HIDE DEF at
    <3> QED BY <3>1, <3>2
  <2>3. f[0] \in Seq(S) /\ Range(f[0]) = {}
    BY <2>1 DEF Range
  <2> QED BY <2>2, <2>3
<1>4. ASSUME NEW n \in Nat, n \in T  PROVE n + 1 \in T
  <2> SUFFICES ASSUME n + 1 <= Len(seq)  PROVE Kept(n + 1)
    <3> HIDE DEF Kept
    <3> QED OBVIOUS
  <2>1. Kept(n) /\ n + 1 \in 1..Len(seq) /\ seq[n + 1] \in S
    BY <1>4
  <2>2. f[n + 1] = IF seq[n + 1] \in dropped THEN f[n] ELSE Append(f[n], seq[n + 1])
    BY <1>2, <2>1
  <2>3. PICK at \in [1..Len(f[n]) -> 1..n] :
               /\ \A i, j \in 1..Len(f[n]) : at[i] = at[j] => i = j
               /\ \A i \in 1..Len(f[n]) : f[n][i] = seq[at[i]]
    BY <2>1
  <2>4. CASE seq[n + 1] \in dropped
    <3>1. at \in [1..Len(f[n + 1]) -> 1..(n + 1)]
      BY <2>2, <2>3, <2>4
    <3>2. From(n + 1)
      BY <2>2, <2>3, <2>4, <3>1
    <3>3. {seq[i] : i \in 1..(n + 1)} = {seq[i] : i \in 1..n} \cup {seq[n + 1]}
      OBVIOUS
    <3> QED BY <2>1, <2>2, <2>4, <3>2, <3>3
  <2>5. CASE seq[n + 1] \notin dropped
    <3> DEFINE k == Len(f[n])
               too == [i \in 1..(k + 1) |-> IF i = k + 1 THEN n + 1 ELSE at[i]]
    <3>1. f[n + 1] = Append(f[n], seq[n + 1]) /\ k \in Nat
      BY <2>1, <2>2, <2>5
    <3>2. /\ f[n + 1] \in Seq(S)
          /\ Len(f[n + 1]) = k + 1
          /\ \A i \in 1..k : f[n + 1][i] = f[n][i]
          /\ f[n + 1][k + 1] = seq[n + 1]
      BY <2>1, <3>1, AppendProperties
    <3>3. too \in [1..Len(f[n + 1]) -> 1..(n + 1)]
      BY <2>3, <3>1, <3>2
    <3>4. ASSUME NEW i \in 1..(k + 1), NEW j \in 1..(k + 1), too[i] = too[j]
          PROVE  i = j
      <4>1. \A x \in 1..k : at[x] \in 1..n /\ at[x] # n + 1
        BY <2>3
      <4>2. CASE i \in 1..k /\ j \in 1..k
        BY <2>3, <3>1, <3>4, <4>2
      <4>3. CASE i = k + 1 \/ j = k + 1
        BY <3>1, <3>4, <4>1, <4>3
      <4> QED BY <3>1, <4>2, <4>3
    <3>5. \A i \in 1..(k + 1) : f[n + 1][i] = seq[too[i]]
      BY <2>3, <3>1, <3>2
    <3>6. From(n + 1)
      BY <3>2, <3>3, <3>4, <3>5
    <3>7. {seq[i] : i \in 1..(n + 1)} = {seq[i] : i \in 1..n} \cup {seq[n + 1]}
      OBVIOUS
    <3>8. Range(f[n + 1]) = Range(f[n]) \cup {seq[n + 1]}
      <4>1. DOMAIN f[n + 1] = 1..(k + 1) /\ DOMAIN f[n] = 1..k
        BY <2>1, <3>1, <3>2
      <4> QED BY <3>1, <3>2, <4>1 DEF Range
    <3> QED BY <2>1, <2>5, <3>2, <3>6, <3>7, <3>8
  <2> QED BY <2>4, <2>5
<1>5. Len(seq) \in T
  <2> HIDE DEF T
  <2> QED BY <1>3, <1>4, InductionOverNat
<1>6. Kept(Len(seq))
  BY <1>5
<1>7. Range(seq) = {seq[i] : i \in 1..Len(seq)}
  BY DEF Range
<1> QED BY <1>1, <1>6, <1>7

-----------------------------------------------------------------------------
(* Configurations.                                                         *)

AllTexts == Texts \cup {SeedText}
Refs == [id : ItemIds, version : Nat, text : AllTexts]

Configs == [selected : Seq(Refs), pinned : Seq(ItemIds), notes : Seq(Refs),
            objective : {None} \cup Refs]

DistinctIds(refs) == \A i, j \in DOMAIN refs : refs[i].id = refs[j].id => i = j

Coherent(config) ==
  /\ DistinctIds(config.selected)
  /\ DistinctIds(config.notes)
  /\ IsInjective(config.pinned)
  /\ PinsSelected(config)
  /\ Range(config.notes) \subseteq Range(config.selected)

(* Each reference names a version the registry has, of an item that is not *)
(* protected.                                                              *)
Resolvable(items, config) ==
  \A r \in ReferencesOf(config) : KeyOf(r) \in DOMAIN items /\ r.id \notin LockedIds

ConfigSound(items, config) ==
  config \in Configs /\ Coherent(config) /\ Resolvable(items, config)

(* What push adds to a list of references.                                  *)
LEMMA RangeOfAppend ==
  ASSUME NEW S, NEW seq \in Seq(S), NEW e \in S
  PROVE  /\ Append(seq, e) \in Seq(S)
         /\ Range(Append(seq, e)) = Range(seq) \cup {e}
         /\ DOMAIN Append(seq, e) = 1..(Len(seq) + 1)
         /\ \A i \in DOMAIN seq : Append(seq, e)[i] = seq[i]
         /\ Append(seq, e)[Len(seq) + 1] = e
<1>1. /\ Append(seq, e) \in Seq(S)
      /\ Len(Append(seq, e)) = Len(seq) + 1
      /\ \A i \in 1..Len(seq) : Append(seq, e)[i] = seq[i]
      /\ Append(seq, e)[Len(seq) + 1] = e
  BY AppendProperties
<1>2. DOMAIN seq = 1..Len(seq) /\ Len(seq) \in Nat
      /\ DOMAIN Append(seq, e) = 1..(Len(seq) + 1)
  BY <1>1
<1>3. Range(Append(seq, e)) = Range(seq) \cup {e}
  BY <1>1, <1>2 DEF Range
<1> QED BY <1>1, <1>2, <1>3

(* The ids of a list are the ids of the references in it.                   *)
LEMMA IdsOfRange ==
  ASSUME NEW refs
  PROVE  IdsOf(refs) = {r.id : r \in Range(refs)}
BY DEF IdsOf, Range

(* push of a new reference keeps the references of a list apart.            *)
LEMMA DistinctAppend ==
  ASSUME NEW refs \in Seq(Refs), DistinctIds(refs), NEW r \in Refs, r.id \notin IdsOf(refs)
  PROVE  DistinctIds(Append(refs, r))
<1>1. /\ DOMAIN Append(refs, r) = 1..(Len(refs) + 1)
      /\ \A i \in DOMAIN refs : Append(refs, r)[i] = refs[i]
      /\ Append(refs, r)[Len(refs) + 1] = r
  BY RangeOfAppend
<1>2. \A i \in DOMAIN refs : refs[i].id # r.id
  BY DEF IdsOf
<1>3. DOMAIN refs = 1..Len(refs) /\ Len(refs) \in Nat
  OBVIOUS
<1> QED BY <1>1, <1>2, <1>3 DEF DistinctIds

(* push of a new id keeps the ids of a list apart.                          *)
LEMMA InjectiveAppend ==
  ASSUME NEW S, NEW seq \in Seq(S), IsInjective(seq), NEW e \in S, e \notin Range(seq)
  PROVE  IsInjective(Append(seq, e))
<1>1. /\ DOMAIN Append(seq, e) = 1..(Len(seq) + 1)
      /\ \A i \in DOMAIN seq : Append(seq, e)[i] = seq[i]
      /\ Append(seq, e)[Len(seq) + 1] = e
  BY RangeOfAppend
<1>2. \A i \in DOMAIN seq : seq[i] # e
  BY DEF Range
<1>3. DOMAIN seq = 1..Len(seq) /\ Len(seq) \in Nat
  OBVIOUS
<1> QED BY <1>1, <1>2, <1>3 DEF IsInjective

(* Removing one id from a list of references leaves the others in it.       *)
LEMMA WithoutKeeps ==
  ASSUME NEW refs \in Seq(Refs), NEW id
  PROVE  /\ Without(refs, id) \in Seq(Refs)
         /\ Range(Without(refs, id)) = {r \in Range(refs) : r.id # id}
         /\ DistinctIds(refs) => DistinctIds(Without(refs, id))
<1> DEFINE named == {r \in Range(refs) : r.id = id}
           left == Dropping(refs, named)
<1>1. /\ left \in Seq(Refs)
      /\ Range(left) = Range(refs) \ named
      /\ \E at \in [1..Len(left) -> 1..Len(refs)] :
           /\ \A i, j \in 1..Len(left) : at[i] = at[j] => i = j
           /\ \A i \in 1..Len(left) : left[i] = refs[at[i]]
  <2> HIDE DEF named
  <2> QED BY DroppingKeeps
<1> HIDE DEF left
<1>2. DOMAIN left = 1..Len(left) /\ DOMAIN refs = 1..Len(refs)
  BY <1>1
<1>3. ASSUME DistinctIds(refs)  PROVE DistinctIds(left)
  <2>1. PICK at \in [1..Len(left) -> 1..Len(refs)] :
           /\ \A i, j \in 1..Len(left) : at[i] = at[j] => i = j
           /\ \A i \in 1..Len(left) : left[i] = refs[at[i]]
    BY <1>1
  <2>2. \A i \in 1..Len(left) : at[i] \in DOMAIN refs
    BY <1>2
  <2> QED BY <1>2, <1>3, <2>1, <2>2 DEF DistinctIds
<1>4. Range(left) = {r \in Range(refs) : r.id # id}
  BY <1>1
<1>5. left = Without(refs, id)
  BY DEF left, Without
<1> QED BY <1>1, <1>3, <1>4, <1>5

(* Removing a pin keeps the pins apart and within the selection.            *)
LEMMA DroppingPin ==
  ASSUME NEW pinned \in Seq(ItemIds), NEW id
  PROVE  /\ Dropping(pinned, {id}) \in Seq(ItemIds)
         /\ Range(Dropping(pinned, {id})) = Range(pinned) \ {id}
         /\ IsInjective(pinned) => IsInjective(Dropping(pinned, {id}))
<1> DEFINE named == {id}
           left == Dropping(pinned, named)
<1>1. /\ left \in Seq(ItemIds)
      /\ Range(left) = Range(pinned) \ named
      /\ \E at \in [1..Len(left) -> 1..Len(pinned)] :
           /\ \A i, j \in 1..Len(left) : at[i] = at[j] => i = j
           /\ \A i \in 1..Len(left) : left[i] = pinned[at[i]]
  <2> HIDE DEF named
  <2> QED BY DroppingKeeps
<1> HIDE DEF left
<1>2. DOMAIN left = 1..Len(left) /\ DOMAIN pinned = 1..Len(pinned)
  BY <1>1
<1>3. ASSUME IsInjective(pinned)  PROVE IsInjective(left)
  <2>1. PICK at \in [1..Len(left) -> 1..Len(pinned)] :
           /\ \A i, j \in 1..Len(left) : at[i] = at[j] => i = j
           /\ \A i \in 1..Len(left) : left[i] = pinned[at[i]]
    BY <1>1
  <2>2. \A i \in 1..Len(left) : at[i] \in DOMAIN pinned
    BY <1>2
  <2> QED BY <1>2, <1>3, <2>1, <2>2 DEF IsInjective
<1> QED BY <1>1, <1>3 DEF left

-----------------------------------------------------------------------------
(* One operation of a patch.                                               *)

RegistryTyped(items, latest) ==
  /\ DOMAIN items \subseteq ItemIds \X Nat
  /\ \A k \in DOMAIN items : items[k].text \in AllTexts /\ items[k].expires \in Nat
  /\ latest \in [ItemIds -> Nat]

(* What a patch finds: a clock, and revisions whose configurations are as  *)
(* sound as its draft is.                                                  *)
PatchGround(p) ==
  /\ p.now \in Nat
  /\ RegistryTyped(p.items, p.latest)
  /\ \A r \in DOMAIN p.revisions : ConfigSound(p.items, p.revisions[r].config)

PatchFields == {"ok", "items", "latest", "config"}

(* What a patch has made of the registry and the draft so far.             *)
PatchSound(p, s) ==
  /\ DOMAIN s = PatchFields /\ s.ok \in BOOLEAN
  /\ RegistryTyped(s.items, s.latest)
  /\ ConfigSound(s.items, s.config)
  /\ DOMAIN p.items \subseteq DOMAIN s.items

OperationTyped(p, op) ==
  /\ op.kind \in {"include_item", "exclude_item", "pin_item", "unpin_item", "put_note",
                  "remove_note", "set_objective", "restore_configuration"}
  /\ op.kind \in {"include_item", "exclude_item", "pin_item", "unpin_item"} => op.item \in Refs
  /\ op.kind = "put_note" => op.id \in ItemIds /\ op.text \in AllTexts /\ op.expires \in Nat
  /\ op.kind = "remove_note" => op.id \in ItemIds
  /\ op.kind = "set_objective" => op.text \in AllTexts
  /\ op.kind = "restore_configuration" => op.revision \in DOMAIN p.revisions

(* What a sound configuration is made of, field by field.                   *)
LEMMA ConfigFields ==
  ASSUME NEW config \in Configs
  PROVE  /\ config.selected \in Seq(Refs) /\ config.notes \in Seq(Refs)
         /\ config.pinned \in Seq(ItemIds) /\ config.objective \in {None} \cup Refs
         /\ DOMAIN config = {"selected", "pinned", "notes", "objective"}
BY DEF Configs

(* Sound configurations stay so when the registry grows.                   *)
LEMMA RegistryGrows ==
  ASSUME NEW before, NEW after, DOMAIN before \subseteq DOMAIN after,
         NEW config, ConfigSound(before, config)
  PROVE  ConfigSound(after, config)
BY DEF ConfigSound, Resolvable

(* The insertion into the registry.                                        *)
LEMMA InsertKeeps ==
  ASSUME NEW p, NEW s, PatchSound(p, s), NEW id \in ItemIds, NEW version \in Nat,
         NEW text \in AllTexts, NEW expires \in Nat
  PROVE  LET t == InsertItem(s, id, version, text, expires)
         IN  /\ PatchSound(p, t)
             /\ <<id, version>> \in DOMAIN t.items
             /\ t.ok = s.ok /\ t.config = s.config
<1> DEFINE t == InsertItem(s, id, version, text, expires)
           items == [k \in DOMAIN s.items \cup {<<id, version>>} |->
                       IF k = <<id, version>>
                       THEN [text |-> text, expires |-> expires] ELSE s.items[k]]
<1>1. /\ t.ok = s.ok /\ t.config = s.config /\ t.items = items
      /\ t.latest = [s.latest EXCEPT ![id] = version]
      /\ DOMAIN t = PatchFields
  BY DEF InsertItem, PatchSound, PatchFields
<1> HIDE DEF t
<1>2. DOMAIN items = DOMAIN s.items \cup {<<id, version>>}
      /\ \A k \in DOMAIN items : items[k] =
           IF k = <<id, version>> THEN [text |-> text, expires |-> expires] ELSE s.items[k]
  OBVIOUS
<1> HIDE DEF items
<1>3. RegistryTyped(t.items, t.latest)
  BY <1>1, <1>2 DEF PatchSound, RegistryTyped
<1>4. ConfigSound(t.items, t.config)
  <2>1. DOMAIN s.items \subseteq DOMAIN t.items
    BY <1>1, <1>2
  <2> QED BY <1>1, <2>1, RegistryGrows DEF PatchSound
<1>5. PatchSound(p, t)
  BY <1>1, <1>2, <1>3, <1>4 DEF PatchSound
<1> QED BY <1>1, <1>2, <1>5 DEF t

(* Writing one field of the configuration of a patch leaves the rest of it. *)
LEMMA ConfigReplaced ==
  ASSUME NEW p, NEW s, PatchSound(p, s), NEW config, ConfigSound(s.items, config)
  PROVE  PatchSound(p, [s EXCEPT !.config = config])
<1> DEFINE t == [s EXCEPT !.config = config]
<1>1. /\ t.config = config /\ t.items = s.items /\ t.latest = s.latest /\ t.ok = s.ok
      /\ DOMAIN t = PatchFields
  BY DEF PatchSound, PatchFields
<1> HIDE DEF t
<1>2. PatchSound(p, t)
  BY <1>1 DEF PatchSound
<1> QED BY <1>2 DEF t

(* include: the item is there, unlocked, and its id is not selected yet.    *)
LEMMA IncludeKeeps ==
  ASSUME NEW p, NEW s, NEW op, PatchSound(p, s), NEW authorized,
         op.kind = "include_item", OperationTyped(p, op),
         OperationAllowed(p, s, op, authorized)
  PROVE  PatchSound(p, OperationEffect(p, s, op))
<1> DEFINE t == OperationEffect(p, s, op)
           c == s.config
           d == [c EXCEPT !.selected = Append(c.selected, op.item)]
<1>1. t = [s EXCEPT !.config = d]
  BY DEF OperationEffect
<1>2. /\ op.item \in Refs /\ c \in Configs /\ Coherent(c) /\ Resolvable(s.items, c)
      /\ KeyOf(op.item) \in DOMAIN s.items /\ op.item.id \notin LockedIds
      /\ op.item.id \notin IdsOf(c.selected)
  BY DEF OperationAllowed, OperationTyped, Editable, Retained, PatchSound, ConfigSound
<1>3. /\ d.selected = Append(c.selected, op.item)
      /\ d.notes = c.notes /\ d.pinned = c.pinned /\ d.objective = c.objective
  BY <1>2, ConfigFields
<1>4. /\ d.selected \in Seq(Refs)
      /\ Range(d.selected) = Range(c.selected) \cup {op.item}
  BY <1>2, <1>3, ConfigFields, RangeOfAppend
<1>5. d \in Configs
  BY <1>2, <1>3, <1>4 DEF Configs
<1>6. Coherent(d)
  <2>1. DistinctIds(d.selected)
    BY <1>2, <1>3, ConfigFields, DistinctAppend DEF Coherent
  <2>2. IdsOf(c.selected) \subseteq IdsOf(d.selected)
    BY <1>4, IdsOfRange
  <2> QED BY <1>2, <1>3, <1>4, <2>1, <2>2 DEF Coherent, PinsSelected
<1>7. Resolvable(s.items, d)
  BY <1>2, <1>3, <1>4 DEF Resolvable, ReferencesOf
<1> HIDE DEF d
<1> QED BY <1>1, <1>5, <1>6, <1>7, ConfigReplaced DEF ConfigSound

(* exclude: the id goes from the selection and from the pins.               *)
LEMMA ExcludeKeeps ==
  ASSUME NEW p, NEW s, NEW op, PatchSound(p, s), NEW authorized,
         op.kind = "exclude_item", OperationTyped(p, op),
         OperationAllowed(p, s, op, authorized)
  PROVE  PatchSound(p, OperationEffect(p, s, op))
<1> DEFINE t == OperationEffect(p, s, op)
           c == s.config
           id == op.item.id
           d == [c EXCEPT !.selected = Without(c.selected, id),
                          !.notes = Without(c.notes, id)]
<1>1. t = [s EXCEPT !.config = d]
  <2>1. DOMAIN s = PatchFields
    BY DEF PatchSound
  <2> QED BY <2>1 DEF OperationEffect, PatchFields
<1>2. /\ c \in Configs /\ Coherent(c) /\ Resolvable(s.items, c)
      /\ id \notin Range(c.pinned)
  BY DEF OperationAllowed, PatchSound, ConfigSound
<1>3. /\ d.selected = Without(c.selected, id) /\ d.notes = Without(c.notes, id)
      /\ d.pinned = c.pinned /\ d.objective = c.objective
  BY <1>2, ConfigFields
<1>4. /\ d.selected \in Seq(Refs) /\ d.notes \in Seq(Refs)
      /\ Range(d.selected) = {r \in Range(c.selected) : r.id # id}
      /\ Range(d.notes) = {r \in Range(c.notes) : r.id # id}
      /\ DistinctIds(c.selected) => DistinctIds(d.selected)
      /\ DistinctIds(c.notes) => DistinctIds(d.notes)
  BY <1>2, <1>3, ConfigFields, WithoutKeeps
<1>5. d \in Configs
  BY <1>2, <1>3, <1>4 DEF Configs
<1>6. Coherent(d)
  <2>1. PinsSelected(d)
    BY <1>2, <1>3, <1>4, IdsOfRange DEF Coherent, PinsSelected
  <2> QED BY <1>2, <1>3, <1>4, <2>1 DEF Coherent
<1>7. Resolvable(s.items, d)
  BY <1>2, <1>3, <1>4 DEF Resolvable, ReferencesOf
<1> HIDE DEF d
<1> QED BY <1>1, <1>5, <1>6, <1>7, ConfigReplaced DEF ConfigSound

(* pin: only what is selected is pinned.                                    *)
LEMMA PinKeeps ==
  ASSUME NEW p, NEW s, NEW op, PatchSound(p, s), NEW authorized,
         op.kind = "pin_item", OperationTyped(p, op),
         OperationAllowed(p, s, op, authorized)
  PROVE  PatchSound(p, OperationEffect(p, s, op))
<1> DEFINE t == OperationEffect(p, s, op)
           c == s.config
           id == op.item.id
           d == [c EXCEPT !.pinned = IF id \in Range(c.pinned) THEN c.pinned
                                     ELSE Append(c.pinned, id)]
<1>1. t = [s EXCEPT !.config = d]
  BY DEF OperationEffect
<1>2. /\ op.item \in Refs /\ c \in Configs /\ Coherent(c) /\ Resolvable(s.items, c)
      /\ op.item \in Range(c.selected)
  BY DEF OperationAllowed, OperationTyped, PatchSound, ConfigSound
<1>3. /\ d.pinned = IF id \in Range(c.pinned) THEN c.pinned ELSE Append(c.pinned, id)
      /\ d.selected = c.selected /\ d.notes = c.notes /\ d.objective = c.objective
  BY <1>2, ConfigFields
<1>4. id \in ItemIds /\ id \in IdsOf(c.selected)
  BY <1>2, IdsOfRange DEF Refs
<1>5. /\ d.pinned \in Seq(ItemIds) /\ Range(d.pinned) = Range(c.pinned) \cup {id}
      /\ IsInjective(d.pinned)
  <2>1. CASE id \in Range(c.pinned)
    BY <1>2, <1>3, <2>1, ConfigFields DEF Coherent
  <2>2. CASE id \notin Range(c.pinned)
    <3>1. IsInjective(c.pinned) /\ c.pinned \in Seq(ItemIds)
      BY <1>2, ConfigFields DEF Coherent
    <3> QED BY <1>3, <1>4, <2>2, <3>1, RangeOfAppend, InjectiveAppend
  <2> QED BY <2>1, <2>2
<1>6. d \in Configs
  BY <1>2, <1>3, <1>5 DEF Configs
<1>7. Coherent(d)
  BY <1>2, <1>3, <1>4, <1>5 DEF Coherent, PinsSelected
<1>8. Resolvable(s.items, d)
  BY <1>2, <1>3 DEF Resolvable, ReferencesOf
<1> HIDE DEF d
<1> QED BY <1>1, <1>6, <1>7, <1>8, ConfigReplaced DEF ConfigSound

(* unpin: the pin goes, the selection stays.                                *)
LEMMA UnpinKeeps ==
  ASSUME NEW p, NEW s, NEW op, PatchSound(p, s), NEW authorized,
         op.kind = "unpin_item", OperationTyped(p, op),
         OperationAllowed(p, s, op, authorized)
  PROVE  PatchSound(p, OperationEffect(p, s, op))
<1> DEFINE t == OperationEffect(p, s, op)
           c == s.config
           id == op.item.id
           d == [c EXCEPT !.pinned = Dropping(c.pinned, {id})]
<1>1. t = [s EXCEPT !.config = d]
  BY DEF OperationEffect
<1>2. c \in Configs /\ Coherent(c) /\ Resolvable(s.items, c)
  BY DEF PatchSound, ConfigSound
<1>3. /\ d.pinned = Dropping(c.pinned, {id})
      /\ d.selected = c.selected /\ d.notes = c.notes /\ d.objective = c.objective
  BY <1>2, ConfigFields
<1>4. /\ d.pinned \in Seq(ItemIds) /\ Range(d.pinned) \subseteq Range(c.pinned)
      /\ IsInjective(d.pinned)
  <2>1. IsInjective(c.pinned) /\ c.pinned \in Seq(ItemIds)
    BY <1>2, ConfigFields DEF Coherent
  <2> QED BY <1>3, <2>1, DroppingPin
<1>5. d \in Configs
  BY <1>2, <1>3, <1>4 DEF Configs
<1>6. Coherent(d)
  BY <1>2, <1>3, <1>4 DEF Coherent, PinsSelected
<1>7. Resolvable(s.items, d)
  BY <1>2, <1>3 DEF Resolvable, ReferencesOf
<1> HIDE DEF d
<1> QED BY <1>1, <1>5, <1>6, <1>7, ConfigReplaced DEF ConfigSound

(* remove_note: the note goes from notes, selection and pins.               *)
LEMMA RemoveNoteKeeps ==
  ASSUME NEW p, NEW s, NEW op, PatchSound(p, s), NEW authorized,
         op.kind = "remove_note", OperationTyped(p, op),
         OperationAllowed(p, s, op, authorized)
  PROVE  PatchSound(p, OperationEffect(p, s, op))
<1> DEFINE t == OperationEffect(p, s, op)
           c == s.config
           id == op.id
           d == [c EXCEPT !.notes = Without(c.notes, id),
                          !.selected = Without(c.selected, id),
                          !.pinned = Dropping(c.pinned, {id})]
<1>1. t = [s EXCEPT !.config = d]
  <2>1. DOMAIN s = PatchFields
    BY DEF PatchSound
  <2> QED BY <2>1 DEF OperationEffect, PatchFields
<1>2. c \in Configs /\ Coherent(c) /\ Resolvable(s.items, c)
  BY DEF PatchSound, ConfigSound
<1>3. /\ d.selected = Without(c.selected, id) /\ d.notes = Without(c.notes, id)
      /\ d.pinned = Dropping(c.pinned, {id}) /\ d.objective = c.objective
  BY <1>2, ConfigFields
<1>4. /\ d.selected \in Seq(Refs) /\ d.notes \in Seq(Refs)
      /\ Range(d.selected) = {r \in Range(c.selected) : r.id # id}
      /\ Range(d.notes) = {r \in Range(c.notes) : r.id # id}
      /\ DistinctIds(d.selected) /\ DistinctIds(d.notes)
  BY <1>2, <1>3, ConfigFields, WithoutKeeps DEF Coherent
<1>5. /\ d.pinned \in Seq(ItemIds) /\ Range(d.pinned) = Range(c.pinned) \ {id}
      /\ IsInjective(d.pinned)
  <2>1. IsInjective(c.pinned) /\ c.pinned \in Seq(ItemIds)
    BY <1>2, ConfigFields DEF Coherent
  <2> QED BY <1>3, <2>1, DroppingPin
<1>6. d \in Configs
  BY <1>2, <1>3, <1>4, <1>5 DEF Configs
<1>7. Coherent(d)
  <2>1. PinsSelected(d)
    BY <1>2, <1>4, <1>5, IdsOfRange DEF Coherent, PinsSelected
  <2> QED BY <1>2, <1>4, <1>5, <2>1 DEF Coherent
<1>8. Resolvable(s.items, d)
  BY <1>2, <1>3, <1>4 DEF Resolvable, ReferencesOf
<1> HIDE DEF d
<1> QED BY <1>1, <1>6, <1>7, <1>8, ConfigReplaced DEF ConfigSound

(* The version put_note gives a note is a version of the registry.          *)
LEMMA NextNoteVersionTyped ==
  ASSUME NEW p, NEW s, PatchSound(p, s), NEW id \in ItemIds
  PROVE  NextNoteVersion(s, id) \in Nat
<1> DEFINE current == NoteVersion(s.config, id)
<1>1. s.config.notes \in Seq(Refs) /\ s.latest[id] \in Nat
  BY ConfigFields DEF PatchSound, ConfigSound, RegistryTyped
<1>2. CASE id \in IdsOf(s.config.notes)
  <2>1. \E r \in Range(s.config.notes) : r.id = id
    BY <1>2, IdsOfRange
  <2>2. (CHOOSE r \in Range(s.config.notes) : r.id = id) \in Range(s.config.notes)
    BY <2>1
  <2>3. Range(s.config.notes) \subseteq Refs
    BY <1>1 DEF Range
  <2>4. current \in Nat
    BY <1>2, <2>2, <2>3 DEF NoteVersion, Refs
  <2> HIDE DEF current
  <2>5. NextNoteVersion(s, id) = (IF current = None THEN s.latest[id] ELSE current) + 1
    BY DEF NextNoteVersion, current
  <2> QED BY <1>1, <2>4, <2>5
<1>3. CASE id \notin IdsOf(s.config.notes)
  BY <1>1, <1>3 DEF NextNoteVersion, NoteVersion
<1> QED BY <1>2, <1>3

(* put_note: the new version replaces the old one wherever it is selected.  *)
LEMMA PutNoteKeeps ==
  ASSUME NEW p, NEW s, NEW op, PatchSound(p, s), NEW authorized,
         op.kind = "put_note", OperationTyped(p, op),
         OperationAllowed(p, s, op, authorized)
  PROVE  PatchSound(p, OperationEffect(p, s, op))
<1> DEFINE id == op.id
           version == NextNoteVersion(s, id)
           ref == Ref(id, version, op.text)
           t == InsertItem(s, id, version, op.text, op.expires)
           c == s.config
           d == [c EXCEPT !.notes = Append(Without(c.notes, id), ref),
                          !.selected = Append(Without(c.selected, id), ref)]
<1>1. /\ id \in ItemIds /\ op.text \in AllTexts /\ op.expires \in Nat /\ version \in Nat
      /\ id \notin LockedIds
  BY NextNoteVersionTyped DEF OperationTyped, OperationAllowed, PutNoteAllowed
<1>2. /\ PatchSound(p, t) /\ <<id, version>> \in DOMAIN t.items /\ t.config = c
  BY <1>1, InsertKeeps
<1>3. ref \in Refs /\ ref.id = id /\ KeyOf(ref) = <<id, version>>
  BY <1>1 DEF Refs, Ref, KeyOf
<1>4. OperationEffect(p, s, op) = [t EXCEPT !.config = d]
  <2>1. OperationEffect(p, s, op)
          = [t EXCEPT !.config.notes = Append(Without(@, id), ref),
                      !.config.selected = Append(Without(@, id), ref)]
    BY DEF OperationEffect, PutNote
  <2> HIDE DEF t, ref
  <2>2. DOMAIN t = PatchFields
    BY <1>2 DEF PatchSound
  <2>3. DOMAIN c = {"selected", "pinned", "notes", "objective"}
    BY ConfigFields DEF PatchSound, ConfigSound
  <2> HIDE DEF c
  <2> QED BY <1>2, <2>1, <2>2, <2>3 DEF PatchFields
<1> HIDE DEF version, ref, t
<1>5. c \in Configs /\ Coherent(c) /\ Resolvable(t.items, c)
  BY <1>2 DEF PatchSound, ConfigSound
<1> HIDE DEF c
<1>6. /\ d.selected = Append(Without(c.selected, id), ref)
      /\ d.notes = Append(Without(c.notes, id), ref)
      /\ d.pinned = c.pinned /\ d.objective = c.objective
  BY <1>5, ConfigFields
<1>7. ASSUME NEW refs \in Seq(Refs), DistinctIds(refs)
      PROVE  LET new == Append(Without(refs, id), ref)
             IN  /\ new \in Seq(Refs) /\ DistinctIds(new)
                 /\ Range(new) = {r \in Range(refs) : r.id # id} \cup {ref}
  <2>1. /\ Without(refs, id) \in Seq(Refs)
        /\ Range(Without(refs, id)) = {r \in Range(refs) : r.id # id}
        /\ DistinctIds(Without(refs, id))
    BY <1>7, WithoutKeeps
  <2>2. ref.id \notin IdsOf(Without(refs, id))
    BY <1>3, <2>1, IdsOfRange
  <2> QED BY <1>3, <2>1, <2>2, RangeOfAppend, DistinctAppend
<1>8. /\ d.selected \in Seq(Refs) /\ DistinctIds(d.selected)
      /\ Range(d.selected) = {r \in Range(c.selected) : r.id # id} \cup {ref}
  BY <1>5, <1>6, <1>7, ConfigFields DEF Coherent
<1>9. /\ d.notes \in Seq(Refs) /\ DistinctIds(d.notes)
      /\ Range(d.notes) = {r \in Range(c.notes) : r.id # id} \cup {ref}
  BY <1>5, <1>6, <1>7, ConfigFields DEF Coherent
<1>10. d \in Configs
  BY <1>5, <1>6, <1>8, <1>9 DEF Configs
<1>11. Coherent(d)
  <2>1. IdsOf(c.selected) \subseteq IdsOf(d.selected)
    BY <1>3, <1>8, IdsOfRange
  <2> QED BY <1>5, <1>6, <1>8, <1>9, <2>1 DEF Coherent, PinsSelected
<1>12. Resolvable(t.items, d)
  BY <1>1, <1>2, <1>3, <1>5, <1>6, <1>8, <1>9 DEF Resolvable, ReferencesOf
<1> HIDE DEF d
<1> QED BY <1>2, <1>4, <1>10, <1>11, <1>12, ConfigReplaced DEF ConfigSound

(* set_objective: the objective stays selected and pinned.                  *)
LEMMA SetObjectiveKeeps ==
  ASSUME ObjectiveId \notin LockedIds, {DraftTtl} \subseteq Nat,
         NEW p, p.now \in Nat, NEW s, NEW op, PatchSound(p, s), NEW authorized,
         op.kind = "set_objective", OperationTyped(p, op),
         OperationAllowed(p, s, op, authorized)
  PROVE  PatchSound(p, OperationEffect(p, s, op))
<1> DEFINE version == s.latest[ObjectiveId] + 1
           ref == Ref(ObjectiveId, version, op.text)
           t == InsertItem(s, ObjectiveId, version, op.text, p.now + DraftTtl)
           c == s.config
           d == [c EXCEPT !.objective = ref]
<1>1. /\ ObjectiveId \in ItemIds /\ op.text \in AllTexts
      /\ p.now + DraftTtl \in Nat /\ version \in Nat
  BY DEF OperationTyped, ItemIds, PatchSound, RegistryTyped
<1>2. /\ PatchSound(p, t) /\ <<ObjectiveId, version>> \in DOMAIN t.items /\ t.config = c
  BY <1>1, InsertKeeps
<1>3. ref \in Refs /\ ref.id = ObjectiveId /\ KeyOf(ref) = <<ObjectiveId, version>>
  BY <1>1 DEF Refs, Ref, KeyOf
<1>4. OperationEffect(p, s, op) = [t EXCEPT !.config = d]
  <2>1. OperationEffect(p, s, op) = [t EXCEPT !.config.objective = ref]
    BY DEF OperationEffect
  <2> HIDE DEF t, ref, c
  <2> QED BY <1>2, <2>1
<1> HIDE DEF version, ref, t
<1>5. c \in Configs /\ Coherent(c) /\ Resolvable(t.items, c)
  BY <1>2 DEF PatchSound, ConfigSound
<1> HIDE DEF c
<1>6. /\ d.selected = c.selected /\ d.notes = c.notes /\ d.pinned = c.pinned
      /\ d.objective = ref
  BY <1>5, ConfigFields
<1>7. d \in Configs
  BY <1>3, <1>5, <1>6 DEF Configs
<1>8. Coherent(d)
  BY <1>5, <1>6 DEF Coherent, PinsSelected
<1>9. Resolvable(t.items, d)
  BY <1>2, <1>3, <1>5, <1>6 DEF Resolvable, ReferencesOf
<1> HIDE DEF d
<1> QED BY <1>2, <1>4, <1>7, <1>8, <1>9, ConfigReplaced DEF ConfigSound

(* restore: the draft takes the whole configuration of a sound revision.    *)
LEMMA RestoreKeeps ==
  ASSUME NEW p, PatchGround(p), NEW s, NEW op, PatchSound(p, s),
         op.kind = "restore_configuration", OperationTyped(p, op)
  PROVE  PatchSound(p, OperationEffect(p, s, op))
<1> DEFINE c == p.revisions[op.revision].config
<1>1. OperationEffect(p, s, op) = [s EXCEPT !.config = c]
  BY DEF OperationEffect
<1>2. ConfigSound(p.items, c)
  BY DEF OperationTyped, PatchGround
<1> HIDE DEF c
<1>3. ConfigSound(s.items, c)
  BY <1>2, RegistryGrows DEF PatchSound
<1> QED BY <1>1, <1>3, ConfigReplaced

(* Whatever operation of a patch comes next, and whether or not it is      *)
(* allowed, registry and draft stay sound.                                 *)
LEMMA OperationKeeps ==
  ASSUME NEW p, PatchGround(p), NEW s, PatchSound(p, s), NEW op, OperationTyped(p, op),
         NEW authorized
  PROVE  PatchSound(p, ApplyOperation(p, s, op, authorized))
<1> DEFINE t == ApplyOperation(p, s, op, authorized)
<1>1. CASE ~s.ok
  BY <1>1 DEF ApplyOperation
<1>2. CASE s.ok /\ ~OperationAllowed(p, s, op, authorized)
  <2>1. t = [s EXCEPT !.ok = FALSE]
    BY <1>2 DEF ApplyOperation
  <2>2. /\ t.ok = FALSE /\ t.items = s.items /\ t.latest = s.latest /\ t.config = s.config
        /\ DOMAIN t = PatchFields
    BY <2>1 DEF PatchSound, PatchFields
  <2> HIDE DEF t
  <2>3. PatchSound(p, t)
    BY <2>2 DEF PatchSound
  <2> QED BY <2>3 DEF t
<1>3. CASE s.ok /\ OperationAllowed(p, s, op, authorized)
  <2>1. t = OperationEffect(p, s, op)
    BY <1>3 DEF ApplyOperation
  <2>2. op.kind \in {"include_item", "exclude_item", "pin_item", "unpin_item", "put_note",
                     "remove_note", "set_objective", "restore_configuration"}
    BY DEF OperationTyped
  <2>3. /\ ObjectiveId \notin LockedIds /\ {DraftTtl} \subseteq Nat /\ p.now \in Nat
    BY ControlPlaneAssumption DEF PatchGround
  <2>4. CASE op.kind = "include_item"
    BY <1>3, <2>1, <2>4, IncludeKeeps
  <2>5. CASE op.kind = "exclude_item"
    BY <1>3, <2>1, <2>5, ExcludeKeeps
  <2>6. CASE op.kind = "pin_item"
    BY <1>3, <2>1, <2>6, PinKeeps
  <2>7. CASE op.kind = "unpin_item"
    BY <1>3, <2>1, <2>7, UnpinKeeps
  <2>8. CASE op.kind = "put_note"
    BY <1>3, <2>1, <2>8, PutNoteKeeps
  <2>9. CASE op.kind = "remove_note"
    BY <1>3, <2>1, <2>9, RemoveNoteKeeps
  <2>10. CASE op.kind = "set_objective"
    BY <1>3, <2>1, <2>3, <2>10, SetObjectiveKeeps
  <2>11. CASE op.kind = "restore_configuration"
    BY <1>3, <2>1, <2>11, RestoreKeeps
  <2> QED BY <2>2, <2>4, <2>5, <2>6, <2>7, <2>8, <2>9, <2>10, <2>11
<1> QED BY <1>1, <1>2, <1>3

-----------------------------------------------------------------------------
(* A whole patch.                                                          *)

AfterIn(p, d, ops, authorized, n, f) ==
  f = [i \in 0..n |->
         IF i = 0 THEN [ok |-> TRUE, items |-> p.items, latest |-> p.latest,
                        config |-> p.drafts[d].config]
         ELSE ApplyOperation(p, f[i - 1], ops[i], authorized)]

(* The patch loop's recursive function is defined on every prefix.          *)
LEMMA AfterExists ==
  ASSUME NEW p, NEW d, NEW ops, NEW authorized, NEW n \in Nat
  PROVE  \E f : AfterIn(p, d, ops, authorized, n, f)
<1> DEFINE start == [ok |-> TRUE, items |-> p.items, latest |-> p.latest,
                     config |-> p.drafts[d].config]
           Step(s, i) == ApplyOperation(p, s, ops[i], authorized)
           In(m, f) == f = [i \in 0..m |-> IF i = 0 THEN start ELSE Step(f[i - 1], i)]
           T == {m \in Nat : \E f : In(m, f)}
<1> HIDE DEF start, Step
<1>1. 0 \in T
  <2>1. In(0, [i \in 0..0 |-> start])
    OBVIOUS
  <2> QED BY <2>1
<1>2. ASSUME NEW m \in Nat, m \in T  PROVE m + 1 \in T
  <2>1. PICK f : In(m, f)
    BY <1>2
  <2> DEFINE e == Step(f[m], m + 1)
             g == [i \in 0..(m + 1) |-> IF i = m + 1 THEN e ELSE f[i]]
  <2> HIDE DEF e
  <2>2. \A i \in 0..m : f[i] = IF i = 0 THEN start ELSE Step(f[i - 1], i)
    BY <2>1
  <2>3. \A i \in 0..(m + 1) : g[i] = IF i = 0 THEN start ELSE Step(g[i - 1], i)
    BY <2>2 DEF e
  <2>4. In(m + 1, g)
    BY <2>3
  <2> HIDE DEF g, In
  <2> QED BY <2>4
<1>3. n \in T
  <2> HIDE DEF T
  <2> QED BY <1>1, <1>2, InductionOverNat
<1>4. \E f : In(n, f)
  BY <1>3
<1> QED BY <1>4 DEF AfterIn, start, Step

(* apply_patch, one operation at a time.                                    *)
LEMMA ApplyOperationsUnrolled ==
  ASSUME NEW p, NEW d, NEW ops, NEW authorized, Len(ops) \in Nat
  PROVE  \E f : /\ AfterIn(p, d, ops, authorized, Len(ops), f)
                /\ ApplyOperations(p, d, ops, authorized) = f[Len(ops)]
<1> DEFINE after == CHOOSE f : AfterIn(p, d, ops, authorized, Len(ops), f)
<1>1. AfterIn(p, d, ops, authorized, Len(ops), after)
  <2>1. \E f : AfterIn(p, d, ops, authorized, Len(ops), f)
    BY AfterExists
  <2> QED BY <2>1, Zenon
<1>2. ApplyOperations(p, d, ops, authorized) = after[Len(ops)]
  BY Zenon DEF ApplyOperations, AfterIn
<1> QED BY <1>1, <1>2

(* However many operations a patch has and wherever it fails.              *)
LEMMA OperationsKeep ==
  ASSUME NEW p, PatchGround(p), NEW d, ConfigSound(p.items, p.drafts[d].config),
         NEW S, NEW ops \in Seq(S), \A op \in S : OperationTyped(p, op),
         NEW authorized
  PROVE  PatchSound(p, ApplyOperations(p, d, ops, authorized))
<1>1. PICK f : /\ AfterIn(p, d, ops, authorized, Len(ops), f)
               /\ ApplyOperations(p, d, ops, authorized) = f[Len(ops)]
  BY ApplyOperationsUnrolled
<1> DEFINE start == [ok |-> TRUE, items |-> p.items, latest |-> p.latest,
                     config |-> p.drafts[d].config]
           T == {n \in Nat : n <= Len(ops) => PatchSound(p, f[n])}
<1>2. f[0] = start /\ \A n \in 1..Len(ops) : f[n] = ApplyOperation(p, f[n - 1], ops[n], authorized)
  <2> DEFINE A(n) == ApplyOperation(p, f[n - 1], ops[n], authorized)
  <2>1. f = [i \in 0..Len(ops) |-> IF i = 0 THEN start ELSE A(i)]
    BY <1>1 DEF AfterIn
  <2> HIDE DEF A, start
  <2>2. f[0] = start /\ \A n \in 1..Len(ops) : f[n] = A(n)
    BY <2>1
  <2> QED BY <2>2 DEF A
<1>3. 0 \in T
  <2>1. PatchSound(p, start)
    BY DEF PatchSound, PatchGround, PatchFields
  <2> HIDE DEF start
  <2> QED BY <1>2, <2>1
<1>4. ASSUME NEW n \in Nat, n \in T  PROVE n + 1 \in T
  <2> SUFFICES ASSUME n + 1 <= Len(ops)  PROVE PatchSound(p, f[n + 1])
    OBVIOUS
  <2>1. PatchSound(p, f[n]) /\ n + 1 \in 1..Len(ops)
    BY <1>4
  <2>2. OperationTyped(p, ops[n + 1])
    BY <2>1
  <2>3. PatchSound(p, ApplyOperation(p, f[n], ops[n + 1], authorized))
    BY <2>1, <2>2, OperationKeeps
  <2>4. f[n + 1] = ApplyOperation(p, f[n], ops[n + 1], authorized)
    <3>1. (n + 1) - 1 = n
      OBVIOUS
    <3> QED BY <1>2, <2>1, <3>1
  <2> QED BY <2>3, <2>4
<1>5. Len(ops) \in T
  <2> HIDE DEF T
  <2> QED BY <1>3, <1>4, InductionOverNat
<1>6. PatchSound(p, f[Len(ops)])
  BY <1>5
<1> QED BY <1>1, <1>6

=============================================================================
