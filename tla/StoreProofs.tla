---------------------------- MODULE StoreProofs -----------------------------
(***************************************************************************)
(* What the Phase 1 store, its reads and the producer's stores promise,    *)
(* for any documents, grants, limits and number of reads: pages that       *)
(* follow one stream, reads that nothing outside their grant reaches,      *)
(* routes that agree, a store that stays sound, a ring that is the newest  *)
(* of what was offered, and a vault within its quota that gives back what  *)
(* was last put.                                                           *)
(***************************************************************************)
EXTENDS ReadStore, CaptureVault, SequenceTheorems, FiniteSetTheorems, WellFoundedInduction,
        TLAPS

-----------------------------------------------------------------------------
(* Induction over the natural numbers, for a set of them.                  *)

(* A set of naturals that is not empty has a least member.                  *)
LEMMA LeastNatural ==
  ASSUME NEW T, T \subseteq Nat, T # {}
  PROVE  \E m \in T : \A k \in T : m <= k
<1> DEFINE R == {ss \in Nat \X Nat : ss[1] < ss[2]}
<1>1. IsWellFoundedOn(R, Nat)
  BY NatLessThanWellFounded DEF OpToRel
<1>2. \A k, m \in Nat : k < m => <<k, m>> \in R
  OBVIOUS
<1> HIDE DEF R
<1>3. PICK m \in T : \A k \in T : <<k, m>> \notin R
  BY <1>1, WFMin
<1>4. ASSUME NEW k \in T  PROVE m <= k
  <2>1. k \in Nat /\ m \in Nat /\ ~(k < m)
    BY <1>2, <1>3
  <2> QED BY <2>1
<1> QED BY <1>4

(* Induction over Nat, on the set of the numbers a fact holds of.           *)
LEMMA InductionOverNat ==
  ASSUME NEW T, 0 \in T, \A n \in Nat : n \in T => n + 1 \in T
  PROVE  Nat \subseteq T
<1> SUFFICES ASSUME Nat \ T # {}  PROVE FALSE
  OBVIOUS
<1>1. PICK m \in Nat \ T : \A k \in Nat \ T : m <= k
  BY LeastNatural
<1>2. m # 0 /\ m - 1 \in Nat /\ ~(m <= m - 1)
  BY <1>1
<1>3. m - 1 \in T
  BY <1>1, <1>2
<1> QED BY <1>1, <1>2, <1>3

-----------------------------------------------------------------------------
(* Sums over finite functions (SumFunction).                               *)

Member(s) == CHOOSE x \in s : TRUE

SumsUpTo(f, n, g) ==
  g = [s \in {t \in SUBSET DOMAIN f : Cardinality(t) <= n} |->
         IF s = {} THEN 0 ELSE f[Member(s)] + g[s \ {Member(s)}]]

Sums(f, g) ==
  g = [s \in SUBSET DOMAIN f |-> IF s = {} THEN 0 ELSE f[Member(s)] + g[s \ {Member(s)}]]

LEMMA MemberIsIn ==
  ASSUME NEW s, s # {}
  PROVE  Member(s) \in s
BY DEF Member

(* A member less is a smaller finite set.                                   *)
LEMMA OneLess ==
  ASSUME NEW S, IsFiniteSet(S), NEW s \in SUBSET S, NEW x \in s
  PROVE  /\ IsFiniteSet(s) /\ Cardinality(s) \in Nat /\ Cardinality(s) # 0
         /\ s \ {x} \in SUBSET S /\ Cardinality(s \ {x}) = Cardinality(s) - 1
<1>1. IsFiniteSet(s)
  BY FS_Subset
<1>2. Cardinality(s) \in Nat /\ Cardinality(s \ {x}) = Cardinality(s) - 1
  BY <1>1, FS_CardinalityType, FS_RemoveElement
<1>3. Cardinality(s) # 0
  BY <1>1, FS_EmptySet
<1> QED BY <1>1, <1>2, <1>3

(* The sums of the small subsets exist, by induction on their size.         *)
LEMMA SumsExist ==
  ASSUME NEW f, IsFiniteSet(DOMAIN f), NEW n \in Nat
  PROVE  \E g : SumsUpTo(f, n, g)
<1> DEFINE D(k) == {t \in SUBSET DOMAIN f : Cardinality(t) <= k}
           T == {k \in Nat : \E g : SumsUpTo(f, k, g)}
<1>1. 0 \in T
  <2> DEFINE g == [s \in D(0) |-> 0]
  <2>1. \A s \in D(0) : s = {}
    <3> SUFFICES ASSUME NEW s \in D(0), s # {}  PROVE FALSE
      OBVIOUS
    <3>1. PICK x \in s : TRUE
      OBVIOUS
    <3>2. Cardinality(s) \in Nat /\ Cardinality(s) # 0 /\ Cardinality(s) <= 0
      BY OneLess, <3>1
    <3> QED BY <3>2
  <2>2. g = [s \in D(0) |-> IF s = {} THEN 0 ELSE f[Member(s)] + g[s \ {Member(s)}]]
    BY <2>1
  <2>3. SumsUpTo(f, 0, g)
    BY <2>2 DEF SumsUpTo
  <2> QED BY <2>3
<1>2. ASSUME NEW k \in Nat, k \in T  PROVE k + 1 \in T
  <2>1. PICK h : SumsUpTo(f, k, h)
    BY <1>2
  <2>2. \A s \in D(k) : h[s] = IF s = {} THEN 0 ELSE f[Member(s)] + h[s \ {Member(s)}]
    BY <2>1 DEF SumsUpTo
  <2> DEFINE g == [s \in D(k + 1) |-> IF s = {} THEN 0 ELSE f[Member(s)] + h[s \ {Member(s)}]]
  <2>3. ASSUME NEW s \in D(k + 1), s # {}
        PROVE  s \ {Member(s)} \in D(k) /\ s \ {Member(s)} \in D(k + 1)
    <3>1. /\ Cardinality(s) \in Nat /\ s \ {Member(s)} \in SUBSET DOMAIN f
          /\ Cardinality(s \ {Member(s)}) = Cardinality(s) - 1
      BY <2>3, MemberIsIn, OneLess
    <3>2. Cardinality(s) <= k + 1
      OBVIOUS
    <3> DEFINE c == Cardinality(s)
               d == Cardinality(s \ {Member(s)})
    <3>3. d <= k /\ d <= k + 1
      <4> HIDE DEF d
      <4>1. d = c - 1 /\ c \in Nat /\ c <= k + 1
        BY <3>1, <3>2 DEF d
      <4> HIDE DEF c
      <4> QED BY <4>1
    <3> QED BY <3>1, <3>3
  <2>4. \A s \in D(k) : s \in D(k + 1) /\ g[s] = h[s]
    <3>1. ASSUME NEW s \in D(k)  PROVE s \in D(k + 1)
      <4>1. IsFiniteSet(s)
        BY FS_Subset
      <4>2. Cardinality(s) \in Nat /\ Cardinality(s) <= k
        BY <4>1, FS_CardinalityType
      <4> DEFINE c == Cardinality(s)
      <4>3. c <= k + 1
        <5>1. c \in Nat /\ c <= k
          BY <4>2
        <5> HIDE DEF c
        <5> QED BY <5>1
      <4> QED BY <4>3
    <3> QED BY <2>2, <3>1
  <2>5. ASSUME NEW s \in D(k + 1)
        PROVE  g[s] = IF s = {} THEN 0 ELSE f[Member(s)] + g[s \ {Member(s)}]
    <3>1. CASE s = {}
      BY <3>1
    <3>2. CASE s # {}
      <4>1. g[s] = f[Member(s)] + h[s \ {Member(s)}]
        BY <3>2
      <4>2. g[s \ {Member(s)}] = h[s \ {Member(s)}]
        BY <2>3, <2>4, <3>2
      <4> HIDE DEF g
      <4> QED BY <3>2, <4>1, <4>2
    <3> QED BY <3>1, <3>2
  <2>6. SumsUpTo(f, k + 1, g)
    <3>1. g = [s \in D(k + 1) |-> g[s]]
      OBVIOUS
    <3> HIDE DEF g
    <3>2. g = [s \in D(k + 1) |-> IF s = {} THEN 0 ELSE f[Member(s)] + g[s \ {Member(s)}]]
      BY <2>5, <3>1
    <3> QED BY <3>2 DEF SumsUpTo
  <2> HIDE DEF g
  <2> QED BY <2>6
<1> HIDE DEF T
<1>3. Nat \subseteq T
  BY <1>1, <1>2, InductionOverNat
<1> QED BY <1>3 DEF T

(* SumFunction adds one member after the other.                             *)
LEMMA SumUnrolled ==
  ASSUME NEW f, IsFiniteSet(DOMAIN f)
  PROVE  \E g : Sums(f, g) /\ SumFunction(f) = g[DOMAIN f]
<1> DEFINE n == Cardinality(DOMAIN f)
<1>1. PICK h : SumsUpTo(f, n, h)
  <2>1. n \in Nat
    BY FS_CardinalityType
  <2> QED BY <2>1, SumsExist
<1>2. {t \in SUBSET DOMAIN f : Cardinality(t) <= n} = SUBSET DOMAIN f
  BY FS_Subset
<1>3. Sums(f, h)
  BY <1>1, <1>2 DEF SumsUpTo, Sums
<1> DEFINE it == CHOOSE it : Sums(f, it)
<1>4. Sums(f, it)
  BY <1>3, Zenon
<1>5. SumFunction(f) = it[DOMAIN f]
  BY Zenon DEF SumFunction, SumFunctionOnSet, FoldFunctionOnSet, MapThenFoldSet, Sums, Member
<1> QED BY <1>4, <1>5

(* A set of one more than k members has one.                                *)
LEMMA NotEmpty ==
  ASSUME NEW t, NEW k \in Nat, Cardinality(t) = k + 1
  PROVE  t # {} /\ Member(t) \in t
<1>1. Cardinality({}) = 0 /\ k + 1 # 0
  BY FS_EmptySet
<1>2. t # {}
  BY <1>1
<1> QED BY <1>2, MemberIsIn

LEMMA SumTyped ==
  ASSUME NEW f, IsFiniteSet(DOMAIN f), \A x \in DOMAIN f : f[x] \in Nat,
         NEW g, Sums(f, g), NEW s \in SUBSET DOMAIN f
  PROVE  g[s] \in Nat
<1> DEFINE T == {k \in Nat : \A t \in SUBSET DOMAIN f : Cardinality(t) = k => g[t] \in Nat}
<1>1. \A t \in SUBSET DOMAIN f : g[t] = IF t = {} THEN 0 ELSE f[Member(t)] + g[t \ {Member(t)}]
  BY DEF Sums
<1>2. 0 \in T
  <2>1. ASSUME NEW t \in SUBSET DOMAIN f, Cardinality(t) = 0  PROVE t = {}
    BY <2>1, FS_Subset, FS_EmptySet
  <2>2. g[{}] = 0
    BY <1>1
  <2> QED BY <2>1, <2>2
<1>3. ASSUME NEW k \in Nat, k \in T  PROVE k + 1 \in T
  <2> SUFFICES ASSUME NEW t \in SUBSET DOMAIN f, Cardinality(t) = k + 1
               PROVE  g[t] \in Nat
    OBVIOUS
  <2> DEFINE y == Member(t)
  <2>1. t # {} /\ y \in t
    BY NotEmpty
  <2>2. g[t] = f[y] + g[t \ {y}]
    BY <1>1, <2>1
  <2> HIDE DEF y
  <2>3. t \ {y} \in SUBSET DOMAIN f /\ Cardinality(t \ {y}) = (k + 1) - 1
    BY <2>1, OneLess
  <2>4. g[t \ {y}] \in Nat
    BY <1>3, <2>3
  <2>5. f[y] \in Nat
    BY <2>1
  <2> QED BY <2>2, <2>4, <2>5
<1>4. Nat \subseteq T
  <2> HIDE DEF T
  <2> QED BY <1>2, <1>3, InductionOverNat
<1>5. Cardinality(s) \in Nat
  BY FS_Subset, FS_CardinalityType
<1> QED BY <1>4, <1>5

(* The sum does not depend on which member is added first.                  *)
LEMMA SumWithout ==
  ASSUME NEW f, IsFiniteSet(DOMAIN f), \A x \in DOMAIN f : f[x] \in Nat,
         NEW g, Sums(f, g), NEW s \in SUBSET DOMAIN f
  PROVE  \A x \in s : g[s] = f[x] + g[s \ {x}]
<1> DEFINE Right(t) == \A x \in t : g[t] = f[x] + g[t \ {x}]
           T == {k \in Nat : \A t \in SUBSET DOMAIN f : Cardinality(t) = k => Right(t)}
<1>1. \A t \in SUBSET DOMAIN f : g[t] = IF t = {} THEN 0 ELSE f[Member(t)] + g[t \ {Member(t)}]
  BY DEF Sums
<1>2. \A t \in SUBSET DOMAIN f : g[t] \in Nat
  BY SumTyped
<1>3. 0 \in T
  <2>1. ASSUME NEW t \in SUBSET DOMAIN f, Cardinality(t) = 0  PROVE t = {}
    BY <2>1, FS_Subset, FS_EmptySet
  <2> QED BY <2>1
<1>4. ASSUME NEW k \in Nat, k \in T  PROVE k + 1 \in T
  <2> SUFFICES ASSUME NEW t \in SUBSET DOMAIN f, Cardinality(t) = k + 1  PROVE Right(t)
    OBVIOUS
  <2> DEFINE y == Member(t)
  <2>1. t # {} /\ y \in t
    BY NotEmpty
  <2>2. g[t] = f[y] + g[t \ {y}]
    BY <1>1, <2>1
  <2> HIDE DEF y
  <2>3. \A x \in t : t \ {x} \in SUBSET DOMAIN f /\ Cardinality(t \ {x}) = (k + 1) - 1
    BY OneLess
  <2>4. \A x \in t : Right(t \ {x})
    BY <1>4, <2>3
  <2>5. ASSUME NEW x \in t, x # y  PROVE g[t] = f[x] + g[t \ {x}]
    <3> DEFINE r == g[(t \ {x}) \ {y}]
    <3>1. x \in t \ {y} /\ y \in t \ {x} /\ (t \ {y}) \ {x} = (t \ {x}) \ {y}
      BY <2>1, <2>5
    <3>2. g[t \ {y}] = f[x] + r /\ g[t \ {x}] = f[y] + r
      BY <2>1, <2>4, <3>1
    <3>3. r \in Nat /\ f[x] \in Nat /\ f[y] \in Nat
      BY <1>2, <2>1
    <3> HIDE DEF r
    <3> QED BY <2>2, <3>2, <3>3
  <2> QED BY <2>2, <2>5
<1> HIDE DEF Right
<1>5. Nat \subseteq T
  <2> HIDE DEF T
  <2> QED BY <1>3, <1>4, InductionOverNat
<1>6. Cardinality(s) \in Nat
  BY FS_Subset, FS_CardinalityType
<1>7. Right(s)
  BY <1>5, <1>6
<1> QED BY <1>7 DEF Right

(* Functions that agree on a set have the same sum over it.                 *)
LEMMA SumsAgree ==
  ASSUME NEW f, IsFiniteSet(DOMAIN f), NEW g, Sums(f, g),
         NEW e, IsFiniteSet(DOMAIN e), NEW h, Sums(e, h),
         NEW s, s \subseteq DOMAIN f, s \subseteq DOMAIN e,
         \A x \in s : f[x] = e[x]
  PROVE  g[s] = h[s]
<1> DEFINE T == {k \in Nat : \A t \in SUBSET s : Cardinality(t) = k => g[t] = h[t]}
<1>1. IsFiniteSet(s)
  BY FS_Subset
<1>2. \A t \in SUBSET s :
        /\ g[t] = IF t = {} THEN 0 ELSE f[Member(t)] + g[t \ {Member(t)}]
        /\ h[t] = IF t = {} THEN 0 ELSE e[Member(t)] + h[t \ {Member(t)}]
  BY DEF Sums
<1>3. 0 \in T
  <2>1. ASSUME NEW t \in SUBSET s, Cardinality(t) = 0  PROVE t = {}
    BY <1>1, <2>1, FS_Subset, FS_EmptySet
  <2> QED BY <1>2, <2>1
<1>4. ASSUME NEW k \in Nat, k \in T  PROVE k + 1 \in T
  <2> SUFFICES ASSUME NEW t \in SUBSET s, Cardinality(t) = k + 1  PROVE g[t] = h[t]
    OBVIOUS
  <2> DEFINE y == Member(t)
  <2>1. t # {} /\ y \in t
    BY NotEmpty
  <2>2. g[t] = f[y] + g[t \ {y}] /\ h[t] = e[y] + h[t \ {y}]
    BY <1>2, <2>1
  <2> HIDE DEF y
  <2>3. t \ {y} \in SUBSET s /\ Cardinality(t \ {y}) = (k + 1) - 1
    BY <1>1, <2>1, OneLess
  <2>4. g[t \ {y}] = h[t \ {y}]
    BY <1>4, <2>3
  <2> QED BY <2>1, <2>2, <2>4
<1>5. Nat \subseteq T
  <2> HIDE DEF T
  <2> QED BY <1>3, <1>4, InductionOverNat
<1>6. Cardinality(s) \in Nat
  BY <1>1, FS_CardinalityType
<1> QED BY <1>5, <1>6

(* What a new value under one key does to the sum.                          *)
LEMMA SumStored ==
  ASSUME NEW f, IsFiniteSet(DOMAIN f), \A x \in DOMAIN f : f[x] \in Nat,
         NEW k, NEW v \in Nat
  PROVE  /\ IsFiniteSet(DOMAIN Stored(f, k, v))
         /\ SumFunction(f) \in Nat
         /\ k \in DOMAIN f =>
              f[k] <= SumFunction(f)
                /\ SumFunction(Stored(f, k, v)) = SumFunction(f) - f[k] + v
         /\ k \notin DOMAIN f => SumFunction(Stored(f, k, v)) = SumFunction(f) + v
<1> DEFINE e == Stored(f, k, v)
           rest == DOMAIN f \ {k}
<1>1. /\ DOMAIN e = DOMAIN f \cup {k} /\ e[k] = v
      /\ \A x \in rest : e[x] = f[x]
  BY DEF Stored
<1> HIDE DEF e
<1>2. IsFiniteSet(DOMAIN e)
  BY <1>1, FS_AddElement
<1>3. \A x \in DOMAIN e : e[x] \in Nat
  BY <1>1
<1>4. PICK g : Sums(f, g) /\ SumFunction(f) = g[DOMAIN f]
  BY SumUnrolled
<1>5. PICK h : Sums(e, h) /\ SumFunction(e) = h[DOMAIN e]
  BY <1>2, SumUnrolled
<1>6. g[rest] = h[rest]
  BY <1>1, <1>2, <1>4, <1>5, SumsAgree
<1>7. g[DOMAIN f] \in Nat /\ g[rest] \in Nat
      /\ (k \in DOMAIN f => g[DOMAIN f] = f[k] + g[rest])
  <2>1. DOMAIN f \in SUBSET DOMAIN f /\ rest \in SUBSET DOMAIN f
    OBVIOUS
  <2>2. \A x \in DOMAIN f : g[DOMAIN f] = f[x] + g[DOMAIN f \ {x}]
    BY <1>4, <2>1, SumWithout
  <2> QED BY <1>4, <2>1, <2>2, SumTyped
<1>8. h[DOMAIN e] = v + h[rest]
  <2>1. DOMAIN e \in SUBSET DOMAIN e /\ k \in DOMAIN e /\ DOMAIN e \ {k} = rest
    BY <1>1
  <2>2. \A x \in DOMAIN e : h[DOMAIN e] = e[x] + h[DOMAIN e \ {x}]
    BY <1>2, <1>3, <1>5, <2>1, SumWithout
  <2> QED BY <1>1, <2>1, <2>2
<1>9. k \notin DOMAIN f => rest = DOMAIN f
  OBVIOUS
<1> DEFINE a == SumFunction(f)
           b == SumFunction(e)
           r == g[rest]
<1>10. /\ a \in Nat /\ r \in Nat /\ b = v + r
       /\ (k \in DOMAIN f => a = f[k] + r)
       /\ (k \notin DOMAIN f => a = r)
  BY <1>4, <1>5, <1>6, <1>7, <1>8, <1>9
<1> HIDE DEF a, b, r
<1>11. /\ a \in Nat
       /\ k \in DOMAIN f => f[k] <= a /\ b = a - f[k] + v
       /\ k \notin DOMAIN f => b = a + v
  BY <1>10
<1> QED BY <1>2, <1>11 DEF a, b, e

-----------------------------------------------------------------------------
(* The producer's stores.                                                  *)

Records ==
  [snapshot : CaptureIds, bytes : Nat,
   state : {"prepared", "input_write_completed", "input_write_failed"}]

RingInv ==
  /\ ring \in Seq(Records) /\ offered \in Seq(Records) /\ dropped \in Nat
  /\ RingIsNewest

StoredSizes == [a \in DOMAIN objects |-> Sealed(objects[a].plain.size)]

QuotaInv ==
  /\ IsFiniteSet(DOMAIN objects)
  /\ \A a \in DOMAIN objects : objects[a].plain.size \in Nat
  /\ QuotaHeld

NonceInv ==
  /\ counter \in Nat /\ IsFiniteSet(nonces) /\ NoncesFresh
  /\ \A n \in nonces : n[1] \in Nat /\ n[1] < counter

(* Each object lies under the associated data of the scope it was last put *)
(* under, and there are no others.                                         *)
OpensInv ==
  /\ DOMAIN latest \subseteq PrivateScopes
  /\ DOMAIN objects = {Aad(s) : s \in DOMAIN latest}
  /\ \A a \in DOMAIN objects : objects[a].aad = a
  /\ \A s \in DOMAIN latest : objects[Aad(s)].plain = latest[s]

VaultInv == RingInv /\ QuotaInv /\ NonceInv /\ OpensInv

(* PrivateScope::aad tells scopes apart.                                    *)
LEMMA AadTells ==
  ASSUME NEW s \in PrivateScopes, NEW t \in PrivateScopes, Aad(s) = Aad(t)
  PROVE  s = t
<1>1. /\ s.project = t.project /\ s.snapshot = t.snapshot
      /\ s.component = t.component /\ s.ref = t.ref
  BY DEF Aad
<1>2. /\ s = [project |-> s.project, snapshot |-> s.snapshot, component |-> s.component,
              ref |-> s.ref]
      /\ t = [project |-> t.project, snapshot |-> t.snapshot, component |-> t.component,
              ref |-> t.ref]
  BY PrivateScopesAssumption
<1> QED BY <1>1, <1>2

(* MemoryCapture::push keeps the newest records and counts the others.      *)
LEMMA PushKeeps ==
  ASSUME RingInv, NEW record \in Records, Push(record)
  PROVE  RingInv'
<1> DEFINE n == Len(ring)
           m == Len(offered)
           new == Append(offered, record)
<1>1. /\ n \in Nat /\ m \in Nat /\ dropped \in Nat /\ MaxQueue \in Nat \ {0}
      /\ n <= MaxQueue /\ dropped = m - n
      /\ ring = SubSeq(offered, dropped + 1, m)
  <2>1. ring \in Seq(Records) /\ offered \in Seq(Records) /\ dropped \in Nat
    BY DEF RingInv
  <2>2. n \in Nat /\ m \in Nat
    BY <2>1, LenProperties
  <2>3. /\ n <= MaxQueue /\ dropped = m - n
        /\ ring = SubSeq(offered, dropped + 1, m)
    BY Zenon DEF RingInv, RingIsNewest
  <2> HIDE DEF n, m
  <2> QED BY <2>1, <2>2, <2>3, VaultAssumption
<1>2. \A i \in 1..n : ring[i] = offered[dropped + i]
  <2>1. \A i \in (dropped + 1)..m : offered[i] \in Records
    BY <1>1 DEF RingInv
  <2> HIDE DEF n, m
  <2>2. dropped + 1 \in Int /\ m \in Int
    BY <1>1
  <2>3. \A i \in 1..(m - (dropped + 1) + 1) :
           SubSeq(offered, dropped + 1, m)[i] = offered[(dropped + 1) + i - 1]
    BY <2>1, <2>2, SubSeqProperties
  <2>4. \A i \in 1..n : i \in 1..(m - (dropped + 1) + 1) /\ (dropped + 1) + i - 1 = dropped + i
    BY <1>1
  <2> QED BY <1>1, <2>3, <2>4
<1>3. /\ offered' = new /\ new \in Seq(Records) /\ Len(new) = m + 1
      /\ \A i \in 1..m : new[i] = offered[i]
      /\ new[m + 1] = record
  BY AppendProperties DEF RingInv, Push
<1>4. ASSUME NEW r \in Seq(Records), NEW d \in Nat, Len(r) <= m + 1, d = m + 1 - Len(r),
             \A i \in 1..Len(r) : r[i] = new[d + i]
      PROVE  r = SubSeq(new, d + 1, m + 1)
  <2> DEFINE l == Len(r)
             part == SubSeq(new, d + 1, m + 1)
  <2>1. l \in Nat /\ l <= m + 1 /\ d = m + 1 - l
    BY <1>4
  <2>2. \A i \in (d + 1)..(m + 1) : new[i] \in Records
    <3>1. \A i \in (d + 1)..(m + 1) : i \in 1..Len(new)
      BY <1>1, <1>3
    <3> HIDE DEF m, new
    <3> QED BY <1>3, <3>1
  <2>3. m \in Nat
    BY <1>1
  <2> HIDE DEF l, m
  <2>4. /\ part \in Seq(Records)
        /\ Len(part) = IF d + 1 <= m + 1 THEN (m + 1) - (d + 1) + 1 ELSE 0
        /\ \A i \in 1..((m + 1) - (d + 1) + 1) : part[i] = new[(d + 1) + i - 1]
    <3> HIDE DEF new
    <3> QED BY <2>2, <2>3, SubSeqProperties
  <2> HIDE DEF part
  <2>5. Len(part) = l
    BY <2>1, <2>3, <2>4
  <2>6. \A i \in 1..l : part[i] = r[i]
    <3> HIDE DEF new
    <3> QED BY <1>4, <2>1, <2>3, <2>4 DEF l
  <2>7. r = part
    BY <2>4, <2>5, <2>6, SeqEqual DEF l
  <2> QED BY <2>7 DEF part, m
<1>5. /\ ring' \in Seq(Records) /\ dropped' \in Nat /\ Len(ring') <= MaxQueue
      /\ dropped' = m + 1 - Len(ring') /\ Len(ring') <= m + 1
      /\ \A i \in 1..Len(ring') : ring'[i] = new[dropped' + i]
  <2>1. CASE n >= MaxQueue
    <3> DEFINE tail == Tail(ring)
    <3>1. ring' = Append(tail, record) /\ dropped' = dropped + 1
      BY <2>1 DEF Push
    <3>2. ring \in Seq(Records) /\ ring # <<>>
      BY <1>1, <2>1 DEF RingInv
    <3>3. tail \in Seq(Records) /\ Len(tail) = n - 1 /\ \A i \in 1..(n - 1) : tail[i] = ring[i + 1]
      BY <3>2, HeadTailProperties
    <3> HIDE DEF tail
    <3>4. /\ ring' \in Seq(Records) /\ Len(ring') = n
          /\ \A i \in 1..(n - 1) : ring'[i] = tail[i]
          /\ ring'[n] = record
      <4>1. Len(tail) + 1 = n
        BY <1>1, <3>3
      <4> QED BY <3>1, <3>3, <4>1, AppendProperties
    <3> HIDE DEF n, m, new
    <3>5. dropped' = m + 1 - n /\ dropped' \in Nat /\ n <= m + 1
      BY <1>1, <3>1
    <3>6. ASSUME NEW i \in 1..n  PROVE ring'[i] = new[dropped' + i]
      <4>1. CASE i = n
        <5>1. dropped' + i = m + 1
          BY <1>1, <3>5, <4>1
        <5> QED BY <1>3, <3>4, <4>1, <5>1
      <4>2. CASE i # n
        <5>1. i \in 1..(n - 1) /\ i + 1 \in 1..n /\ dropped' + i = dropped + (i + 1)
              /\ dropped + (i + 1) \in 1..m
          BY <1>1, <3>1, <4>2
        <5> QED BY <1>2, <1>3, <3>3, <3>4, <5>1
      <4> QED BY <4>1, <4>2
    <3> QED BY <1>1, <3>4, <3>5, <3>6
  <2>2. CASE ~(n >= MaxQueue)
    <3>1. ring' = Append(ring, record) /\ dropped' = dropped
      BY <2>2 DEF Push
    <3>2. /\ ring' \in Seq(Records) /\ Len(ring') = n + 1
          /\ \A i \in 1..n : ring'[i] = ring[i]
          /\ ring'[n + 1] = record
      BY <3>1, AppendProperties DEF RingInv
    <3> HIDE DEF n, m, new
    <3>3. dropped' = m + 1 - (n + 1) /\ dropped' \in Nat /\ n + 1 <= m + 1 /\ n + 1 <= MaxQueue
      BY <1>1, <2>2, <3>1
    <3>4. ASSUME NEW i \in 1..(n + 1)  PROVE ring'[i] = new[dropped' + i]
      <4>1. CASE i = n + 1
        <5>1. dropped' + i = m + 1
          BY <1>1, <3>3, <4>1
        <5> QED BY <1>3, <3>2, <4>1, <5>1
      <4>2. CASE i # n + 1
        <5>1. i \in 1..n /\ dropped + i \in 1..m
          BY <1>1, <4>2
        <5> QED BY <1>2, <1>3, <3>1, <3>2, <5>1
      <4> QED BY <4>1, <4>2
    <3> QED BY <3>2, <3>3, <3>4
  <2> QED BY <2>1, <2>2
<1>6. ring' = SubSeq(offered', dropped' + 1, Len(offered'))
  <2> HIDE DEF m, new
  <2>1. ring' = SubSeq(new, dropped' + 1, m + 1)
    BY <1>4, <1>5
  <2> QED BY <1>3, <2>1
<1> DEFINE l == Len(ring')
<1>7. dropped' = Len(offered') - l /\ offered' \in Seq(Records)
  <2>1. dropped' = m + 1 - l
    BY <1>5
  <2>2. Len(offered') = m + 1 /\ offered' \in Seq(Records)
    BY <1>3
  <2>3. m \in Nat /\ l \in Nat
    <3>1. m \in Nat
      BY <1>1
    <3>2. ring' \in Seq(Records)
      BY <1>5
    <3> HIDE DEF m, new
    <3> QED BY <3>1, <3>2, LenProperties
  <2> DEFINE o == Len(offered')
  <2>4. o = m + 1
    BY <2>2
  <2> HIDE DEF m, new, l, o
  <2>5. dropped' = o - l
    BY <2>1, <2>3, <2>4
  <2> QED BY <2>2, <2>5 DEF o
<1> HIDE DEF m, new
<1> QED BY <1>5, <1>6, <1>7, Zenon DEF RingInv, RingIsNewest

(* put keeps the quota: what it counts is what the vault then holds.        *)
LEMMA PutKeepsQuota ==
  ASSUME QuotaInv, NEW scope, NEW size \in Nat, Put(scope, size)
  PROVE  QuotaInv'
<1> DEFINE a == Aad(scope)
           object == [nonce |-> Nonce(scope, size), aad |-> Aad(scope),
                      plain |-> [size |-> size, put |-> counter]]
           f == StoredSizes
           v == Sealed(size)
<1>1. /\ objects' = Stored(objects, a, object) /\ used' = Projected(scope, size)
      /\ Projected(scope, size) <= Quota
  BY DEF Put, Accounted
<1>2. object.plain.size = size
  OBVIOUS
<1> HIDE DEF object, a
<1>3. /\ DOMAIN f = DOMAIN objects
      /\ \A x \in DOMAIN f : f[x] = Sealed(objects[x].plain.size)
  BY DEF StoredSizes
<1>4. used = SumFunction(f) /\ IsFiniteSet(DOMAIN f) /\ v \in Nat
      /\ \A x \in DOMAIN f : f[x] \in Nat
  BY <1>3, VaultAssumption DEF QuotaInv, QuotaHeld, StoredSizes, Sealed
<1>5. /\ DOMAIN objects' = DOMAIN objects \cup {a}
      /\ \A x \in DOMAIN objects' :
           objects'[x] = IF x = a THEN object ELSE objects[x]
  BY <1>1 DEF Stored
<1>6. StoredSizes' = Stored(f, a, v)
  BY <1>2, <1>3, <1>5 DEF StoredSizes, Stored
<1>7. OldSize(scope) = IF a \in DOMAIN f THEN f[a] ELSE 0
  BY <1>3 DEF OldSize, a
<1>8. used' = used - OldSize(scope) + v
  BY <1>1 DEF Projected
<1> DEFINE sum == SumFunction(f)
           next == SumFunction(Stored(f, a, v))
<1>9. /\ IsFiniteSet(DOMAIN Stored(f, a, v)) /\ sum \in Nat
      /\ a \in DOMAIN f => f[a] <= sum /\ next = sum - f[a] + v
      /\ a \notin DOMAIN f => next = sum + v
  <2> HIDE DEF f, v
  <2> QED BY <1>4, SumStored
<1> HIDE DEF f, v, sum, next
<1>10. used' = next
  BY <1>4, <1>7, <1>8, <1>9 DEF sum
<1>11. used' = SumFunction(StoredSizes')
  BY <1>6, <1>10 DEF next
<1>12. /\ IsFiniteSet(DOMAIN objects')
       /\ \A x \in DOMAIN objects' : objects'[x].plain.size \in Nat
  <2>1. IsFiniteSet(DOMAIN objects \cup {a})
    BY FS_AddElement DEF QuotaInv
  <2> QED BY <1>2, <1>5, <2>1 DEF QuotaInv
<1>13. used' <= Quota
  BY <1>1
<1> QED BY <1>11, <1>12, <1>13 DEF QuotaInv, QuotaHeld, StoredSizes

(* No counter is used twice.                                                *)
LEMMA PutKeepsNonces ==
  ASSUME NonceInv, NEW scope, NEW size, Put(scope, size)
  PROVE  NonceInv'
<1> DEFINE n == Nonce(scope, size)
<1>1. n[1] = counter
  BY DEF Nonce
<1> HIDE DEF n
<1>2. nonces' = nonces \cup {n} /\ counter' = counter + 1
  BY DEF Put, n
<1>3. counter \in Nat /\ n \notin nonces
  BY <1>1 DEF NonceInv
<1>4. IsFiniteSet(nonces') /\ Cardinality(nonces') = counter'
  BY <1>2, <1>3, FS_AddElement DEF NonceInv, NoncesFresh
<1>5. \A m \in nonces' : m[1] \in Nat /\ m[1] < counter'
  BY <1>1, <1>2, <1>3 DEF NonceInv
<1> QED BY <1>2, <1>3, <1>4, <1>5 DEF NonceInv, NoncesFresh

(* put stores the object under its own scope and disturbs no other.         *)
LEMMA PutKeepsObjects ==
  ASSUME OpensInv, NEW scope \in PrivateScopes, NEW size, Put(scope, size)
  PROVE  OpensInv'
<1> DEFINE a == Aad(scope)
           plain == [size |-> size, put |-> counter]
           object == [nonce |-> Nonce(scope, size), aad |-> Aad(scope), plain |-> plain]
<1>1. objects' = Stored(objects, a, object) /\ latest' = Stored(latest, scope, plain)
  BY DEF Put
<1>2. object.aad = a /\ object.plain = plain
  OBVIOUS
<1> HIDE DEF object, plain
<1>3. /\ DOMAIN objects' = DOMAIN objects \cup {a}
      /\ \A x \in DOMAIN objects' : objects'[x] = IF x = a THEN object ELSE objects[x]
      /\ DOMAIN latest' = DOMAIN latest \cup {scope}
      /\ \A x \in DOMAIN latest' : latest'[x] = IF x = scope THEN plain ELSE latest[x]
  BY <1>1 DEF Stored
<1>4. DOMAIN latest' \subseteq PrivateScopes
  BY <1>3 DEF OpensInv
<1>5. DOMAIN objects' = {Aad(s) : s \in DOMAIN latest'}
  BY <1>3 DEF OpensInv
<1>6. \A x \in DOMAIN objects' : objects'[x].aad = x
  BY <1>2, <1>3 DEF OpensInv
<1>7. ASSUME NEW s \in DOMAIN latest'  PROVE objects'[Aad(s)].plain = latest'[s]
  <2>1. CASE s = scope
    BY <1>2, <1>3, <2>1
  <2>2. CASE s # scope
    <3>1. Aad(s) # a
      BY <1>4, <2>2, AadTells DEF a
    <3>2. s \in DOMAIN latest /\ Aad(s) \in DOMAIN objects
      BY <1>3, <2>2 DEF OpensInv
    <3> QED BY <1>3, <2>2, <3>1, <3>2 DEF OpensInv
  <2> QED BY <2>1, <2>2
<1> QED BY <1>4, <1>5, <1>6, <1>7 DEF OpensInv

(* The inductive invariant of capture and vault.                            *)
LEMMA VaultStart == VaultInit => VaultInv
<1> SUFFICES ASSUME VaultInit  PROVE VaultInv
  OBVIOUS
<1>1. /\ ring = <<>> /\ dropped = 0 /\ offered = <<>> /\ objects = <<>> /\ used = 0
      /\ counter = 0 /\ nonces = {} /\ latest = <<>>
  BY DEF VaultInit
<1>2. RingInv
  <2>1. <<>> \in Seq(Records) /\ Len(<<>>) = 0 /\ 0 <= MaxQueue
    BY VaultAssumption
  <2>2. SubSeq(<<>>, 0 + 1, 0) = <<>>
    BY SubSeqEmpty
  <2> QED BY <1>1, <2>1, <2>2 DEF RingInv, RingIsNewest
<1>3. DOMAIN objects = {} /\ DOMAIN latest = {}
  BY <1>1
<1>4. QuotaInv
  <2>1. IsFiniteSet({})
    BY FS_EmptySet
  <2>2. DOMAIN StoredSizes = {}
    BY <1>3 DEF StoredSizes
  <2>3. PICK g : Sums(StoredSizes, g) /\ SumFunction(StoredSizes) = g[DOMAIN StoredSizes]
    BY <2>1, <2>2, SumUnrolled
  <2>4. SumFunction(StoredSizes) = 0
    BY <2>2, <2>3 DEF Sums
  <2>5. 0 <= Quota
    BY VaultAssumption
  <2> QED BY <1>1, <1>3, <2>1, <2>4, <2>5 DEF QuotaInv, QuotaHeld, StoredSizes
<1>5. NonceInv
  BY <1>1, FS_EmptySet DEF NonceInv, NoncesFresh
<1>6. OpensInv
  BY <1>3 DEF OpensInv
<1> QED BY <1>2, <1>4, <1>5, <1>6 DEF VaultInv

LEMMA VaultStep ==
  ASSUME VaultInv, [VaultNext]_vaultVars
  PROVE  VaultInv'
<1>1. CASE UNCHANGED vaultVars
  BY <1>1 DEF vaultVars, VaultInv, RingInv, RingIsNewest, QuotaInv, QuotaHeld, NonceInv,
     NoncesFresh, OpensInv
<1>2. ASSUME NEW record \in Records, Push(record)  PROVE VaultInv'
  <2>1. RingInv'
    BY <1>2, PushKeeps DEF VaultInv
  <2>2. UNCHANGED <<objects, used, counter, nonces, latest>>
    BY <1>2 DEF Push
  <2> QED BY <2>1, <2>2 DEF VaultInv, QuotaInv, QuotaHeld, NonceInv, NoncesFresh, OpensInv
<1>3. ASSUME NEW scope \in PrivateScopes, NEW size \in CaptureSizes, Put(scope, size)
      PROVE  VaultInv'
  <2>1. size \in Nat
    BY VaultAssumption
  <2>2. QuotaInv' /\ NonceInv' /\ OpensInv'
    BY <1>3, <2>1, PutKeepsQuota, PutKeepsNonces, PutKeepsObjects DEF VaultInv
  <2>3. RingInv'
    BY <1>3 DEF Put, VaultInv, RingInv, RingIsNewest
  <2> QED BY <2>2, <2>3 DEF VaultInv
<1>4. ASSUME NEW id \in CaptureIds, NEW size \in CaptureSizes, Prepared(id, size)
      PROVE  VaultInv'
  <2>1. [snapshot |-> id, state |-> "prepared", bytes |-> size] \in Records
    BY VaultAssumption DEF Records
  <2> QED BY <1>2, <1>4, <2>1 DEF Prepared
<1>5. ASSUME NEW id \in CaptureIds,
             NEW state \in {"input_write_completed", "input_write_failed"}, Written(id, state)
      PROVE  VaultInv'
  <2>1. [snapshot |-> id, state |-> state, bytes |-> 0] \in Records
    BY DEF Records
  <2> QED BY <1>2, <1>5, <2>1 DEF Written
<1> QED BY <1>1, <1>3, <1>4, <1>5 DEF VaultNext

(* The ring is the newest of what was offered and counts the rest; what    *)
(* the vault counts it holds, within its quota; no nonce is used twice;    *)
(* a scope opens what was last put under it (capture/memory.rs,            *)
(* private_store/vault.rs and scope.rs).                                   *)
THEOREM ProducerKeepsItsWord == VaultSpec => []VaultKeeps
<1>1. VaultInv /\ [VaultNext]_vaultVars => VaultInv'
  BY VaultStep
<1>2. VaultInv => VaultKeeps
  <2> SUFFICES ASSUME VaultInv  PROVE VaultKeeps
    OBVIOUS
  <2>1. ASSUME NEW s \in PrivateScopes
        PROVE  /\ Opens(s) = (s \in DOMAIN latest)
               /\ Opens(s) => objects[Aad(s)].plain = latest[s]
    <3>1. Aad(s) \in DOMAIN objects <=> s \in DOMAIN latest
      BY AadTells DEF VaultInv, OpensInv
    <3> QED BY <3>1 DEF Opens, VaultInv, OpensInv
  <2>2. OpensLatest
    BY <2>1 DEF OpensLatest
  <2> QED BY <2>2 DEF VaultInv, RingInv, QuotaInv, NonceInv, VaultKeeps
<1> QED BY <1>1, <1>2, VaultStart, PTL DEF VaultSpec


-----------------------------------------------------------------------------
(* What the store accepts.                                                 *)

Kept(es) == \A id \in DOMAIN es : es[id] \in Manifests /\ Acceptable(es[id])

(* An event of a scope bears an ordinal below the count of the scope.       *)
OrdinalsInv(es, counts) ==
  /\ \A scope \in DOMAIN counts : counts[scope] \in Nat
  /\ \A id \in DOMAIN es : es[id].scope # None =>
       /\ es[id].scope \in DOMAIN counts
       /\ es[id].sequence \in Nat /\ es[id].sequence < counts[es[id].scope]

AppendedInv(es, ids) ==
  /\ ids \in Seq(DOMAIN es)
  /\ DOMAIN es = {ids[i] : i \in DOMAIN ids}

Within(f, limit) == IsFiniteSet(DOMAIN f) /\ Cardinality(DOMAIN f) <= limit

SoundInv ==
  /\ Within(entries, MaxSnapshots) /\ Within(events, MaxEvents) /\ Within(content, MaxContents)
  /\ Kept(entries)
  /\ OrdinalsInv(events, sequences)
  /\ AppendedInv(events, appended)

LEMMA WithGiven ==
  ASSUME NEW f, NEW key, NEW value
  PROVE  /\ DOMAIN With(f, key, value) = DOMAIN f \cup {key}
         /\ With(f, key, value)[key] = value
         /\ \A x \in DOMAIN f : x # key => With(f, key, value)[x] = f[x]
BY DEF With

LEMMA WithWithin ==
  ASSUME NEW f, NEW key, NEW value, NEW limit \in Nat, Within(f, limit),
         key \notin DOMAIN f, Cardinality(DOMAIN f) < limit
  PROVE  Within(With(f, key, value), limit)
<1> DEFINE S == DOMAIN f
           n == Cardinality(S)
           n1 == Cardinality(S \cup {key})
<1>1. IsFiniteSet(S)
  BY DEF Within
<1>2. n \in Nat
  BY <1>1, FS_CardinalityType
<1>3. IsFiniteSet(S \cup {key}) /\ n1 = n + 1
  BY <1>1, FS_AddElement
<1>4. n < limit
  OBVIOUS
<1>5. n1 <= limit
  <2> HIDE DEF n, n1
  <2> QED BY <1>2, <1>3, <1>4
<1> QED BY <1>3, <1>5, WithGiven DEF Within

(* A snapshot that is kept as complete was captured in memory mode, with    *)
(* the bytes of every component.                                            *)
LEMMA AcceptedIsRetained ==
  ASSUME NEW m \in Manifests, Acceptable(m), m.complete
  PROVE  /\ m.mode = "memory" /\ m.reasons = {}
         /\ \A i \in DOMAIN m.components :
              Given(m.components[i].ref) /\ Given(m.components[i].digest)
<1> DEFINE cs == m.components
<1>1. /\ m.reasons = {} /\ Statuses(m) = {"complete"}
      /\ cs # <<>> /\ \A i \in DOMAIN cs : ComponentValid(cs[i])
  BY DEF Acceptable, ManifestValid, CompleteValid, ComponentsValid
<1>2. \A i \in DOMAIN cs : cs[i].status = "complete"
  BY <1>1 DEF Statuses
<1>3. \A i \in DOMAIN cs : Given(cs[i].ref) /\ Given(cs[i].digest)
  BY <1>1, <1>2 DEF ComponentValid, Retained
<1>4. 1 \in DOMAIN cs
  <2>1. cs \in Seq(Range(cs))
    BY DocumentsAssumption
  <2> HIDE DEF cs
  <2>2. Len(cs) \in Nat /\ DOMAIN cs = 1..Len(cs)
    BY <2>1, LenProperties
  <2>3. Len(cs) # 0
    BY <1>1, <2>1, EmptySeq
  <2> QED BY <2>2, <2>3
<1>5. m.mode # "private"
  BY <1>3, <1>4 DEF Acceptable, Given
<1>6. m.mode # "metadata"
  BY <1>3, <1>4 DEF Acceptable, ManifestValid, MetadataValid
<1> QED BY <1>1, <1>3, <1>5, <1>6, DocumentsAssumption

LEMMA KeptIsSound ==
  ASSUME SoundInv
  PROVE  TypeOK /\ CompleteIsRetained
<1>1. CompleteIsRetained
  BY AcceptedIsRetained DEF SoundInv, Kept, CompleteIsRetained
<1> QED BY <1>1 DEF TypeOK, SoundInv, Within, OrdinalsInv, AppendedInv

LEMMA SoundStart ==
  ASSUME Init
  PROVE  SoundInv
<1>1. DOMAIN entries = {} /\ DOMAIN events = {} /\ DOMAIN sequences = {} /\ DOMAIN content = {}
  BY DEF Init
<1>2. IsFiniteSet({}) /\ Cardinality({}) = 0
  BY FS_EmptySet
<1>3. appended \in Seq(DOMAIN events) /\ DOMAIN appended = {}
  BY DEF Init
<1> QED BY <1>1, <1>2, <1>3, StoreAssumption
        DEF SoundInv, Within, Kept, OrdinalsInv, AppendedInv

(* Store::append_event keeps ordinals below the count of their scope.       *)
LEMMA AppendKeepsSound ==
  ASSUME SoundInv, NEW e, AppendEvent(e)
  PROVE  SoundInv'
<1> DEFINE scope == ScopeOf(e)
           sequence == IF scope = None THEN None ELSE Ordinal(e, scope)
           new == [event |-> e, scope |-> scope, sequence |-> sequence]
<1>1. /\ events' = With(events, e.id, new) /\ e.id \notin DOMAIN events
      /\ sequences' = IF scope = None THEN sequences ELSE With(sequences, scope, sequence + 1)
      /\ appended' = Append(appended, e.id)
      /\ entries' = entries /\ content' = content
      /\ Cardinality(DOMAIN events) < MaxEvents
  BY DEF AppendEvent
<1>2. new.scope = scope /\ new.sequence = sequence
  OBVIOUS
<1>3. scope # None => sequence = Ordinal(e, scope) /\ sequence \in Nat
  BY DEF SoundInv, OrdinalsInv, Ordinal
<1>4. /\ DOMAIN events' = DOMAIN events \cup {e.id} /\ events'[e.id] = new
      /\ \A id \in DOMAIN events : events'[id] = events[id]
  <2> DEFINE id == e.id
  <2> HIDE DEF new, id
  <2>1. events' = With(events, id, new) /\ id \notin DOMAIN events
    BY <1>1 DEF id
  <2>2. /\ DOMAIN events' = DOMAIN events \cup {id} /\ events'[id] = new
        /\ \A x \in DOMAIN events : events'[x] = events[x]
    BY <2>1 DEF With
  <2> QED BY <2>2 DEF id
<1> HIDE DEF new, sequence, scope
<1>5. Within(events', MaxEvents)
  BY <1>1, WithWithin, StoreAssumption DEF SoundInv
<1>6. AppendedInv(events', appended')
  <2>1. appended \in Seq(DOMAIN events) /\ DOMAIN events = {appended[i] : i \in DOMAIN appended}
    BY DEF SoundInv, AppendedInv
  <2>2. appended \in Seq(DOMAIN events')
    BY <1>4, <2>1, SeqMonotonic
  <2> DEFINE n == Len(appended)
  <2>3. /\ appended' \in Seq(DOMAIN events') /\ Len(appended') = n + 1
        /\ \A i \in 1..n : appended'[i] = appended[i]
        /\ appended'[n + 1] = e.id
    BY <1>1, <1>4, <2>2, AppendProperties
  <2>4. n \in Nat /\ DOMAIN appended = 1..n /\ DOMAIN appended' = 1..(n + 1)
    BY <2>1, <2>3, LenProperties
  <2> HIDE DEF n
  <2>5. DOMAIN events' = {appended'[i] : i \in DOMAIN appended'}
    <3>1. ASSUME NEW id \in DOMAIN events'  PROVE \E i \in DOMAIN appended' : id = appended'[i]
      <4>1. CASE id = e.id
        BY <2>3, <2>4, <4>1
      <4>2. CASE id \in DOMAIN events
        <5>1. PICK i \in DOMAIN appended : id = appended[i]
          BY <2>1, <4>2
        <5> QED BY <2>3, <2>4, <5>1
      <4> QED BY <1>4, <4>1, <4>2
    <3>2. ASSUME NEW i \in DOMAIN appended'  PROVE appended'[i] \in DOMAIN events'
      BY <2>3, <2>4, ElementOfSeq
    <3> QED BY <3>1, <3>2
  <2> QED BY <2>3, <2>5 DEF AppendedInv
<1>7. OrdinalsInv(events', sequences')
  <2>1. CASE scope = None
    BY <1>1, <1>2, <1>4, <2>1 DEF SoundInv, OrdinalsInv
  <2>2. CASE scope # None
    <3>1. /\ DOMAIN sequences' = DOMAIN sequences \cup {scope}
          /\ sequences'[scope] = sequence + 1
          /\ \A x \in DOMAIN sequences : x # scope => sequences'[x] = sequences[x]
      <4> DEFINE next == sequence + 1
      <4> HIDE DEF next
      <4>1. sequences' = With(sequences, scope, next)
        BY <1>1, <2>2 DEF next
      <4>2. /\ DOMAIN sequences' = DOMAIN sequences \cup {scope}
            /\ sequences'[scope] = next
            /\ \A x \in DOMAIN sequences : x # scope => sequences'[x] = sequences[x]
        BY <4>1 DEF With
      <4> QED BY <4>2 DEF next
    <3>2. \A x \in DOMAIN sequences' : sequences'[x] \in Nat
      BY <1>3, <2>2, <3>1 DEF SoundInv, OrdinalsInv
    <3>3. scope \in DOMAIN sequences => sequences[scope] = sequence
      BY <1>3, <2>2 DEF Ordinal
    <3>4. ASSUME NEW id \in DOMAIN events', events'[id].scope # None
          PROVE  /\ events'[id].scope \in DOMAIN sequences'
                 /\ events'[id].sequence \in Nat
                 /\ events'[id].sequence < sequences'[events'[id].scope]
      <4>1. CASE id = e.id
        BY <1>2, <1>3, <1>4, <2>2, <3>1, <4>1
      <4>2. CASE id \in DOMAIN events /\ id # e.id
        <5>1. /\ events'[id] = events[id] /\ events[id].scope \in DOMAIN sequences
              /\ events[id].sequence \in Nat /\ events[id].sequence < sequences[events[id].scope]
          BY <1>4, <3>4, <4>2 DEF SoundInv, OrdinalsInv
        <5> QED BY <1>3, <2>2, <3>1, <3>3, <5>1
      <4> QED BY <1>4, <4>1, <4>2
    <3> QED BY <3>2, <3>4 DEF OrdinalsInv
  <2> QED BY <2>1, <2>2
<1> QED BY <1>1, <1>5, <1>6, <1>7 DEF SoundInv, Kept, Acceptable

LEMMA SoundStep ==
  ASSUME SoundInv, [Next]_vars
  PROVE  SoundInv'
<1>1. ASSUME NEW m \in Manifests, Ingest(m)  PROVE SoundInv'
  <2>1. /\ Acceptable(m) /\ m.id \notin DOMAIN entries
        /\ Cardinality(DOMAIN entries) < MaxSnapshots
        /\ entries' = With(entries, m.id, m)
        /\ UNCHANGED <<events, sequences, content, appended>>
    BY <1>1 DEF Ingest
  <2>2. Within(entries', MaxSnapshots)
    BY <2>1, WithWithin, StoreAssumption DEF SoundInv
  <2>3. Kept(entries')
    <3>1. \A id \in DOMAIN entries' :
             entries'[id] = m \/ (id \in DOMAIN entries /\ entries'[id] = entries[id])
      BY <2>1 DEF With
    <3> QED BY <1>1, <2>1, <3>1 DEF SoundInv, Kept
  <2> QED BY <2>1, <2>2, <2>3 DEF SoundInv
<1>2. ASSUME NEW c \in Contents, IngestContent(c)  PROVE SoundInv'
  <2>1. /\ c.ref \notin DOMAIN content /\ Cardinality(DOMAIN content) < MaxContents
        /\ content' = With(content, c.ref, c.digest)
        /\ UNCHANGED <<entries, events, sequences, appended>>
    BY <1>2 DEF IngestContent
  <2>2. Within(content', MaxContents)
    BY <2>1, WithWithin, StoreAssumption DEF SoundInv
  <2> QED BY <2>1, <2>2 DEF SoundInv
<1>3. ASSUME UNCHANGED <<entries, events, sequences, content, appended>>  PROVE SoundInv'
  BY <1>3 DEF SoundInv
<1> QED BY <1>1, <1>2, <1>3, AppendKeepsSound DEF Next, vars, Revoke, Tick, ReadEvents

-----------------------------------------------------------------------------
(* Keeping, the filter of a list.                                          *)

KeepsIn(seq, S, n, f) ==
  f = [i \in 0..n |->
         IF i = 0 THEN <<>>
         ELSE IF seq[i] \in S THEN Append(f[i - 1], seq[i]) ELSE f[i - 1]]

(* Keeping's recursive function is defined on every prefix of the list.     *)
LEMMA KeepsExist ==
  ASSUME NEW seq, NEW S, NEW n \in Nat
  PROVE  \E f : KeepsIn(seq, S, n, f)
<1> DEFINE T == {m \in Nat : \E f : KeepsIn(seq, S, m, f)}
<1>1. 0 \in T
  <2>1. KeepsIn(seq, S, 0, [i \in 0..0 |-> <<>>])
    BY DEF KeepsIn
  <2> QED BY <2>1
<1>2. ASSUME NEW m \in Nat, m \in T  PROVE m + 1 \in T
  <2>1. PICK f : KeepsIn(seq, S, m, f)
    BY <1>2
  <2> DEFINE e == IF seq[m + 1] \in S THEN Append(f[m], seq[m + 1]) ELSE f[m]
             g == [i \in 0..(m + 1) |-> IF i = m + 1 THEN e ELSE f[i]]
  <2>2. \A i \in 0..m : f[i] = IF i = 0 THEN <<>>
          ELSE IF seq[i] \in S THEN Append(f[i - 1], seq[i]) ELSE f[i - 1]
    BY <2>1 DEF KeepsIn
  <2>3. \A i \in 0..(m + 1) : g[i] = IF i = 0 THEN <<>>
          ELSE IF seq[i] \in S THEN Append(g[i - 1], seq[i]) ELSE g[i - 1]
    BY <2>2
  <2>4. KeepsIn(seq, S, m + 1, g)
    BY <2>3 DEF KeepsIn
  <2> QED BY <2>4
<1>3. n \in T
  BY <1>1, <1>2, InductionOverNat
<1> QED BY <1>3

(* Keeping, one element at a time.                                          *)
LEMMA KeepingUnrolled ==
  ASSUME NEW seq, NEW S, Len(seq) \in Nat
  PROVE  \E f : /\ Keeping(seq, S) = f[Len(seq)]
                /\ \A i \in 0..Len(seq) :
                     f[i] = IF i = 0 THEN <<>>
                            ELSE IF seq[i] \in S THEN Append(f[i - 1], seq[i]) ELSE f[i - 1]
<1> DEFINE kept == CHOOSE h : KeepsIn(seq, S, Len(seq), h)
<1>1. KeepsIn(seq, S, Len(seq), kept)
  <2>1. \E h : KeepsIn(seq, S, Len(seq), h)
    BY KeepsExist
  <2> QED BY <2>1, Zenon
<1>2. Keeping(seq, S) = kept[Len(seq)]
  BY Zenon DEF Keeping, KeepsIn
<1> HIDE DEF kept
<1>3. \A i \in 0..Len(seq) :
        kept[i] = IF i = 0 THEN <<>>
                  ELSE IF seq[i] \in S THEN Append(kept[i - 1], seq[i]) ELSE kept[i - 1]
  BY <1>1 DEF KeepsIn
<1> QED BY <1>2, <1>3

(* What is kept is a list of elements of S, and it is empty just when there *)
(* is none.                                                                 *)
LEMMA KeepingTyped ==
  ASSUME NEW U, NEW seq \in Seq(U), NEW S
  PROVE  /\ Keeping(seq, S) \in Seq(U)
         /\ Keeping(seq, S) = <<>> <=> \A i \in 1..Len(seq) : seq[i] \notin S
<1> DEFINE n == Len(seq)
<1>1. n \in Nat /\ \A i \in 1..n : seq[i] \in U
  BY LenProperties, ElementOfSeq
<1>2. PICK f : /\ Keeping(seq, S) = f[n]
               /\ \A i \in 0..n :
                    f[i] = IF i = 0 THEN <<>>
                           ELSE IF seq[i] \in S THEN Append(f[i - 1], seq[i]) ELSE f[i - 1]
  BY <1>1, KeepingUnrolled
<1> HIDE DEF n
<1> DEFINE T == {m \in Nat : m <= n => /\ f[m] \in Seq(U)
                                       /\ f[m] = <<>> <=> \A i \in 1..m : seq[i] \notin S}
<1>3. 0 \in T
  <2>1. f[0] = <<>>
    BY <1>1, <1>2
  <2>2. f[0] \in Seq(U)
    BY <2>1, EmptySeq
  <2>3. \A i \in 1..0 : FALSE
    OBVIOUS
  <2> QED BY <2>1, <2>2, <2>3
<1>4. ASSUME NEW m \in Nat, m \in T  PROVE m + 1 \in T
  <2> SUFFICES ASSUME m + 1 <= n
               PROVE  /\ f[m + 1] \in Seq(U)
                      /\ f[m + 1] = <<>> <=> \A i \in 1..(m + 1) : seq[i] \notin S
    OBVIOUS
  <2>1. /\ f[m] \in Seq(U) /\ (f[m] = <<>> <=> \A i \in 1..m : seq[i] \notin S)
        /\ seq[m + 1] \in U
        /\ f[m + 1] = IF seq[m + 1] \in S THEN Append(f[m], seq[m + 1]) ELSE f[m]
    BY <1>1, <1>2, <1>4
  <2>2. CASE seq[m + 1] \in S
    BY <2>1, <2>2, AppendProperties
  <2>3. CASE seq[m + 1] \notin S
    BY <2>1, <2>3
  <2> QED BY <2>2, <2>3
<1> HIDE DEF T
<1>5. n \in T
  BY <1>1, <1>3, <1>4, InductionOverNat
<1> QED BY <1>1, <1>2, <1>5 DEF T, n

(* What is kept of a longer list starts with what is kept of the shorter.   *)
LEMMA KeepingAppend ==
  ASSUME NEW U, NEW seq \in Seq(U), NEW x \in U, NEW S, NEW R,
         \A i \in 1..Len(seq) : seq[i] \in S <=> seq[i] \in R
  PROVE  Keeping(Append(seq, x), R) = IF x \in R THEN Append(Keeping(seq, S), x)
                                      ELSE Keeping(seq, S)
<1> DEFINE n == Len(seq)
           more == Append(seq, x)
<1>1. n \in Nat
  BY LenProperties
<1>2. Len(more) = n + 1 /\ more[n + 1] = x /\ \A i \in 1..n : more[i] = seq[i]
  BY AppendProperties
<1>3. PICK f : /\ Keeping(seq, S) = f[n]
               /\ \A i \in 0..n :
                    f[i] = IF i = 0 THEN <<>>
                           ELSE IF seq[i] \in S THEN Append(f[i - 1], seq[i]) ELSE f[i - 1]
  BY <1>1, KeepingUnrolled
<1>4. PICK g : /\ Keeping(more, R) = g[n + 1]
               /\ \A i \in 0..(n + 1) :
                    g[i] = IF i = 0 THEN <<>>
                           ELSE IF more[i] \in R THEN Append(g[i - 1], more[i]) ELSE g[i - 1]
  <2> HIDE DEF more, n
  <2>1. Len(more) \in Nat
    BY <1>1, <1>2
  <2>2. \E g : /\ Keeping(more, R) = g[Len(more)]
               /\ \A i \in 0..Len(more) :
                    g[i] = IF i = 0 THEN <<>>
                           ELSE IF more[i] \in R THEN Append(g[i - 1], more[i]) ELSE g[i - 1]
    BY <2>1, KeepingUnrolled
  <2> QED BY <1>2, <2>2
<1>5. \A i \in 1..n : seq[i] \in S <=> seq[i] \in R
  OBVIOUS
<1> HIDE DEF more, n
<1> DEFINE T == {m \in Nat : m <= n => f[m] = g[m]}
<1>6. 0 \in T
  BY <1>1, <1>3, <1>4
<1>7. ASSUME NEW m \in Nat, m \in T  PROVE m + 1 \in T
  <2> SUFFICES ASSUME m + 1 <= n  PROVE f[m + 1] = g[m + 1]
    OBVIOUS
  <2>1. f[m] = g[m] /\ m + 1 \in 1..n /\ m + 1 \in 0..n /\ m + 1 \in 0..(n + 1)
    BY <1>1, <1>7
  <2>2. f[m + 1] = IF seq[m + 1] \in S THEN Append(f[m], seq[m + 1]) ELSE f[m]
    BY <1>3, <2>1
  <2>3. g[m + 1] = IF more[m + 1] \in R THEN Append(g[m], more[m + 1]) ELSE g[m]
    BY <1>4, <2>1
  <2> QED BY <1>2, <1>5, <2>1, <2>2, <2>3
<1> HIDE DEF T
<1>8. n \in T
  BY <1>1, <1>6, <1>7, InductionOverNat
<1>9. f[n] = g[n]
  BY <1>1, <1>8 DEF T
<1>10. g[n + 1] = IF x \in R THEN Append(g[n], x) ELSE g[n]
  BY <1>1, <1>2, <1>4
<1> QED BY <1>3, <1>4, <1>9, <1>10 DEF more

-----------------------------------------------------------------------------
(* Reads.                                                                  *)

LEMMA LengthOfList ==
  ASSUME NEW n \in Nat, NEW f, DOMAIN f = 1..n, f = [k \in 1..n |-> f[k]]
  PROVE  Len(f) = n /\ (f = <<>> <=> n = 0)
<1> DEFINE S == {f[k] : k \in 1..n}
<1>1. f \in [1..n -> S]
  OBVIOUS
<1>2. f \in Seq(S)
  BY <1>1, SeqDef
<1> HIDE DEF S
<1> DEFINE m == Len(f)
<1>3. m \in Nat /\ 1..m = 1..n
  BY <1>2, LenProperties
<1> HIDE DEF m
<1>4. m = n
  <2>1. m <= n
    <3>1. CASE m = 0
      BY <3>1
    <3>2. CASE m # 0
      <4>1. m \in 1..m
        BY <1>3, <3>2
      <4> QED BY <1>3, <4>1
    <3> QED BY <3>1, <3>2
  <2>2. n <= m
    <3>1. CASE n = 0
      BY <1>3, <3>1
    <3>2. CASE n # 0
      <4>1. n \in 1..n
        BY <3>2
      <4> QED BY <1>3, <4>1
    <3> QED BY <3>1, <3>2
  <2> QED BY <1>3, <2>1, <2>2
<1>5. f = <<>> <=> m = 0
  BY <1>2, <1>3, EmptySeq DEF m
<1> QED BY <1>4, <1>5 DEF m

Differing(a, b) ==
  {i \in DOMAIN a \cup DOMAIN b : i \notin DOMAIN a \/ i \notin DOMAIN b \/ ~Same(a[i], b[i])}

LEMMA PlacesTyped ==
  ASSUME NEW a, NEW b, Len(a) \in Nat, Len(b) \in Nat
  PROVE  \E k \in Nat :
           /\ k >= Len(a) /\ k >= Len(b) /\ k \in {Len(a), Len(b)}
           /\ Places(a, b) \in Seq(Nat) /\ Len(Places(a, b)) = k
           /\ \A i \in 1..k : Places(a, b)[i] = i
<1> DEFINE m == Len(a)
           n == Len(b)
           k == IF m < n THEN n ELSE m
           f == [i \in 1..k |-> i]
<1>1. k \in Nat /\ k >= m /\ k >= n /\ k \in {m, n}
  <2>1. m \in Nat /\ n \in Nat
    OBVIOUS
  <2> HIDE DEF m, n
  <2> QED BY <2>1
<1>2. Places(a, b) = f
  BY DEF Places
<1> HIDE DEF k, m, n
<1>4. f \in Seq(Nat)
  <2>1. f \in [1..k -> Nat]
    OBVIOUS
  <2> QED BY <1>1, <2>1, SeqDef
<1>5. Len(f) = k
  BY <1>1, LengthOfList
<1>6. \A i \in 1..k : f[i] = i
  OBVIOUS
<1> HIDE DEF f
<1> QED BY <1>1, <1>2, <1>4, <1>5, <1>6 DEF m, n

(* Store::compare lists no place just when it finds no two components that  *)
(* differ in what it looks at.                                              *)
LEMMA ComparesSame ==
  ASSUME NEW S, NEW T, NEW a \in Seq(S), NEW b \in Seq(T)
  PROVE  /\ ChangedAt(a, b) \in Seq(Nat)
         /\ ChangedAt(a, b) = <<>> <=>
              Len(a) = Len(b) /\ \A i \in DOMAIN a : Same(a[i], b[i])
<1> DEFINE m == Len(a)
           n == Len(b)
<1>1. m \in Nat /\ n \in Nat /\ DOMAIN a = 1..m /\ DOMAIN b = 1..n
  BY LenProperties
<1> DEFINE places == Places(a, b)
           differing == Differing(a, b)
<1>2. PICK k \in Nat :
        /\ k >= m /\ k >= n /\ k \in {m, n}
        /\ places \in Seq(Nat) /\ Len(places) = k
        /\ \A i \in 1..k : places[i] = i
  BY <1>1, PlacesTyped
<1>4. ChangedAt(a, b) = Keeping(places, differing)
  BY DEF ChangedAt, Differing
<1> HIDE DEF places, differing
<1>6. /\ Keeping(places, differing) \in Seq(Nat)
      /\ Keeping(places, differing) = <<>> <=> \A i \in 1..Len(places) : places[i] \notin differing
  BY <1>2, KeepingTyped
<1>7. (\A i \in 1..k : i \notin differing) <=> m = n /\ \A i \in DOMAIN a : Same(a[i], b[i])
  <2> HIDE DEF m, n
  <2>1. \A i \in 1..k : i \in differing <=> i \notin 1..m \/ i \notin 1..n \/ ~Same(a[i], b[i])
    BY <1>1, <1>2 DEF differing, Differing
  <2>2. ASSUME m # n  PROVE k \in 1..k /\ (k \notin 1..m \/ k \notin 1..n)
    BY <1>1, <1>2, <2>2
  <2>3. ASSUME m = n  PROVE k = m
    BY <1>2, <2>3
  <2> QED BY <1>1, <2>1, <2>2, <2>3
<1>8. (\A i \in 1..Len(places) : places[i] \notin differing) <=> \A i \in 1..k : i \notin differing
  BY <1>2
<1> QED BY <1>4, <1>6, <1>7, <1>8

LEMMA ListedChanges ==
  ASSUME Kept(entries), NEW l \in DOMAIN entries, NEW r \in DOMAIN entries
  PROVE  LET changed == Compared(l, r).changed
             places == ChangedAt(entries[l].components, entries[r].components)
         IN  changed = <<>> <=> places = <<>>
<1> DEFINE a == entries[l].components
           b == entries[r].components
           places == ChangedAt(a, b)
           n == Least(Len(places), MaxChanged)
           id(k) == IF places[k] \in DOMAIN a THEN a[places[k]].id ELSE b[places[k]].id
           changed == [k \in 1..n |-> id(k)]
<1>1. Compared(l, r).changed = changed
  BY DEF Compared
<1>2. a \in Seq(Range(a)) /\ b \in Seq(Range(b))
  BY DocumentsAssumption DEF Kept
<1> HIDE DEF a, b
<1>3. places \in Seq(Nat)
  BY <1>2, ComparesSame
<1> HIDE DEF places
<1>4. Len(places) \in Nat /\ (places = <<>> <=> Len(places) = 0)
  BY <1>3, EmptySeq
<1>5. n \in Nat /\ (n = 0 <=> Len(places) = 0)
  BY <1>4, StoreAssumption DEF Least
<1>6. DOMAIN changed = 1..n /\ changed = [k \in 1..n |-> changed[k]]
  OBVIOUS
<1> HIDE DEF n, changed
<1>7. Len(changed) = n /\ (changed = <<>> <=> n = 0)
  BY <1>5, <1>6, LengthOfList
<1>8. changed = <<>> <=> places = <<>>
  BY <1>4, <1>5, <1>7 DEF n
<1> QED BY <1>1, <1>8 DEF a, b, places

(* The routes of one run agree (RoutesAgree).                               *)
LEMMA FewBefore ==
  ASSUME NEW es, Within(es, MaxSnapshots), Kept(es),
         NEW S, S \subseteq DOMAIN es, NEW id \in S
  PROVE  Cardinality({x \in S : es[x].rank < es[id].rank}) < MaxSnapshots
<1> DEFINE before == {x \in S : es[x].rank < es[id].rank}
           all == DOMAIN es
           k == Cardinality(before)
           n == Cardinality(all)
<1>1. IsFiniteSet(all) /\ n <= MaxSnapshots /\ id \in all /\ before \subseteq all
  BY DEF Within
<1>2. id \notin before
  <2>1. es[id].rank \in Nat
    BY <1>1, DocumentsAssumption DEF Kept
  <2> QED BY <2>1
<1> HIDE DEF before, all
<1>3. IsFiniteSet(all \ {id}) /\ Cardinality(all \ {id}) = n - 1 /\ n \in Nat
  BY <1>1, FS_RemoveElement, FS_CardinalityType
<1>4. before \subseteq all \ {id}
  BY <1>1, <1>2
<1>5. k <= Cardinality(all \ {id}) /\ IsFiniteSet(before)
  BY <1>3, <1>4, FS_Subset
<1>6. k \in Nat
  BY <1>5, FS_CardinalityType
<1> HIDE DEF k, n
<1>7. k < MaxSnapshots
  BY <1>1, <1>3, <1>5, <1>6, StoreAssumption
<1> QED BY <1>7 DEF k, before

(* A listing under the highest limit leaves out nothing in scope.           *)
LEMMA FullyListed ==
  ASSUME SoundInv, NEW g \in Grants, Authorized(g), NEW id \in Scoped(g)
  PROVE  id \in Listed(g, MaxSnapshots)
<1>1. Scoped(g) \subseteq DOMAIN entries
  BY DEF Scoped
<1>2. Cardinality({x \in Scoped(g) : entries[x].rank < entries[id].rank}) < MaxSnapshots
  <2> DEFINE S == Scoped(g)
  <2> HIDE DEF S
  <2>1. Cardinality({x \in S : entries[x].rank < entries[id].rank}) < MaxSnapshots
    BY <1>1, FewBefore DEF SoundInv, S
  <2> QED BY <2>1 DEF S
<1> QED BY <1>2 DEF Listed

LEMMA ListingsAgree ==
  ASSUME SoundInv, NEW g \in Grants, NEW run \in Runs
  PROVE  /\ ReadSnapshot(g, run) \subseteq ReadSnapshots(g, run, MaxSnapshots)
         /\ g.privilege = "content" =>
              ReadSnapshots(g, run, MaxSnapshots) = ReadSnapshot(g, run)
<1>1. ASSUME NEW id \in ReadSnapshot(g, run)  PROVE id \in ReadSnapshots(g, run, MaxSnapshots)
  <2>1. Authorized(g) /\ id \in Scoped(g) /\ entries[id].run = run
    BY DEF ReadSnapshot, Gettable
  <2>2. id \in Listed(g, MaxSnapshots)
    BY <2>1, FullyListed
  <2> QED BY <2>1, <2>2 DEF ReadSnapshots
<1>2. ASSUME g.privilege = "content", NEW id \in ReadSnapshots(g, run, MaxSnapshots)
      PROVE  id \in ReadSnapshot(g, run)
  <2>1. Authorized(g) /\ id \in Scoped(g) /\ entries[id].run = run
    BY <1>2 DEF ReadSnapshots, Listed
  <2> QED BY <1>2, <2>1 DEF ReadSnapshot, Gettable
<1> QED BY <1>1, <1>2

(* Snapshots in which a comparison finds no change show the same bytes.     *)
LEMMA UnchangedIsSame ==
  ASSUME Kept(entries), NEW g \in Grants, NEW run \in Runs,
         NEW l \in Comparable(g, run), NEW r \in Comparable(g, run),
         Compared(l, r).changed = <<>>
  PROVE  /\ Len(entries[l].components) = Len(entries[r].components)
         /\ \A i \in DOMAIN entries[l].components :
              {<<l, i>>, <<r, i>>} \subseteq ReadContent(g, run) =>
                BytesOf(<<l, i>>) = BytesOf(<<r, i>>)
<1> DEFINE a == entries[l].components
           b == entries[r].components
           S == Range(a)
           T == Range(b)
<1>1. l \in DOMAIN entries /\ r \in DOMAIN entries
  BY DEF Comparable, ReadSnapshot, Gettable, Scoped
<1>2. a \in Seq(S) /\ b \in Seq(T)
  BY <1>1, DocumentsAssumption DEF Kept
<1>3. ChangedAt(a, b) = <<>>
  BY <1>1, ListedChanges
<1>4. Len(a) = Len(b) /\ \A i \in DOMAIN a : Same(a[i], b[i])
  <2> HIDE DEF a, b, S, T
  <2> QED BY <1>2, <1>3, ComparesSame
<1>5. ASSUME NEW i \in DOMAIN a, {<<l, i>>, <<r, i>>} \subseteq ReadContent(g, run)
      PROVE  BytesOf(<<l, i>>) = BytesOf(<<r, i>>)
  <2>1. Available(g, entries[l], a[i]) /\ Available(g, entries[r], b[i])
    BY <1>5 DEF ReadContent
  <2>2. content[a[i].ref] = a[i].digest /\ content[b[i].ref] = b[i].digest
    BY <2>1 DEF Available
  <2>3. a[i].digest = b[i].digest
    BY <1>4 DEF Same
  <2>4. BytesOf(<<l, i>>) = content[a[i].ref] /\ BytesOf(<<r, i>>) = content[b[i].ref]
    BY DEF BytesOf
  <2> QED BY <2>2, <2>3, <2>4
<1> QED BY <1>4, <1>5

LEMMA ResolvesToRead ==
  ASSUME NEW g \in Grants, NEW a \in Associations
  PROVE  Resolve(g, a) \subseteq ReadSnapshot(g, a.run) \cap {a.snapshot}
BY DEF Resolve, ReadSnapshot

LEMMA RoutesHold ==
  ASSUME SoundInv
  PROVE  RoutesAgree
<1>1. Kept(entries)
  BY DEF SoundInv
<1> QED BY <1>1, ListingsAgree, UnchangedIsSame, ResolvesToRead DEF RoutesAgree

(* Store::ingest, append_event and ingest_content: for any documents and    *)
(* limits, the store stays within its limits, an event that has a scope     *)
(* bears an ordinal below the next one of it, and no snapshot is kept as    *)
(* complete that was not captured in memory mode and names all its bytes.   *)
(* And read_api/handlers.rs, compare.rs, content.rs, association.rs: the    *)
(* routes agree on what is kept.  What can be fetched under a run is in its *)
(* full listing, which shows a content grant nothing else; snapshots that   *)
(* compare with no change have as many components and, where both can be    *)
(* fetched, the same bytes; an association resolves to the snapshot it      *)
(* names or not at all.                                                     *)
THEOREM StoreStaysSound == Spec => []StoreSound
<1>1. Init => SoundInv
  BY SoundStart
<1>2. SoundInv /\ [Next]_vars => SoundInv'
  BY SoundStep
<1>3. SoundInv => StoreSound
  BY KeptIsSound, RoutesHold DEF StoreSound
<1> QED BY <1>1, <1>2, <1>3, PTL DEF Spec

-----------------------------------------------------------------------------
(* What a step changes of the reads.                                       *)

Extends(f, more) == DOMAIN f \subseteq DOMAIN more /\ \A x \in DOMAIN f : more[x] = f[x]

(* Store: nothing that was appended is taken back or replaced.              *)
LEMMA OnlyGrows ==
  ASSUME [Next]_vars, clock \in Nat
  PROVE  /\ Extends(entries, entries') /\ Extends(events, events') /\ Extends(content, content')
         /\ revoked \subseteq revoked' /\ clock' \in Nat /\ clock <= clock'
<1>1. ASSUME NEW f  PROVE Extends(f, f)
  BY DEF Extends
<1>2. ASSUME NEW f, NEW key, NEW value, key \notin DOMAIN f  PROVE Extends(f, With(f, key, value))
  BY <1>2 DEF Extends, With
<1> DEFINE Still == clock' = clock /\ revoked' = revoked
           Later == revoked \subseteq revoked' /\ clock' \in Nat /\ clock <= clock'
           Longer == /\ Extends(entries, entries') /\ Extends(events, events')
                     /\ Extends(content, content')
<1>3. Still => Later
  OBVIOUS
<1>4. ASSUME UNCHANGED <<entries, events, content>>  PROVE Longer
  BY <1>1, <1>4
<1>5. ASSUME NEW m \in Manifests, Ingest(m)  PROVE Later /\ Longer
  <2>1. Extends(entries, entries') /\ events' = events /\ content' = content
    BY <1>2, <1>5 DEF Ingest
  <2>2. Still
    BY <1>5 DEF Ingest
  <2> QED BY <1>1, <1>3, <2>1, <2>2
<1>6. ASSUME NEW e \in EventInputs, AppendEvent(e)  PROVE Later /\ Longer
  <2>1. PICK new : /\ events' = With(events, e.id, new) /\ e.id \notin DOMAIN events
                   /\ entries' = entries /\ content' = content
    BY <1>6, Zenon DEF AppendEvent
  <2>2. Still
    BY <1>6, Zenon DEF AppendEvent
  <2> QED BY <1>1, <1>2, <1>3, <2>1, <2>2
<1>7. ASSUME NEW c \in Contents, IngestContent(c)  PROVE Later /\ Longer
  <2>1. entries' = entries /\ events' = events /\ Extends(content, content')
    BY <1>2, <1>7 DEF IngestContent
  <2>2. Still
    BY <1>7 DEF IngestContent
  <2> QED BY <1>1, <1>3, <2>1, <2>2
<1>8. ASSUME NEW g \in Grants, Revoke(g.token)  PROVE Later /\ Longer
  BY <1>4, <1>8 DEF Revoke
<1>9. ASSUME Tick  PROVE Later /\ Longer
  BY <1>4, <1>9 DEF Tick
<1>10. ASSUME NEW g \in Grants, NEW run \in Runs, NEW cursor \in DOMAIN trail \cup {None},
              NEW limit \in Limits, ReadEvents(g, run, cursor, limit)
       PROVE  Later /\ Longer
  <2>1. Still /\ UNCHANGED <<entries, events, content>>
    BY <1>10, Zenon DEF ReadEvents
  <2> QED BY <1>3, <1>4, <2>1
<1>11. ASSUME UNCHANGED vars  PROVE Later /\ Longer
  BY <1>3, <1>4, <1>11 DEF vars
<1> HIDE DEF Later, Longer, Still
<1>12. Later /\ Longer
  BY <1>5, <1>6, <1>7, <1>8, <1>9, <1>10, <1>11 DEF Next
<1> QED BY <1>12 DEF Later, Longer

(* What changes nothing in scope: OnlyOutside, on a store that only grows.  *)
Outside(g) ==
  /\ Extends(entries, entries') /\ Extends(events, events') /\ Extends(content, content')
  /\ OnlyOutside(g)

LEMMA SameScope ==
  ASSUME NEW g \in Grants, Outside(g)
  PROVE  /\ Authorized(g)' = Authorized(g) /\ Scoped(g)' = Scoped(g)
         /\ \A id \in Scoped(g) : entries'[id] = entries[id]
<1>1. Authorized(g)' = Authorized(g)
  <2>1. (g.token \notin revoked') = (g.token \notin revoked)
    BY DEF Outside, OnlyOutside
  <2>2. (clock' < g.expires) = (clock < g.expires)
    BY Zenon DEF Outside, OnlyOutside
  <2> QED BY <2>1, <2>2, Zenon DEF Authorized
<1>2. \A id \in DOMAIN entries : id \in DOMAIN entries' /\ entries'[id] = entries[id]
  BY DEF Outside, Extends
<1>3. \A id \in DOMAIN entries' : id \in DOMAIN entries \/ ~Permits(g, entries'[id])
  BY DEF Outside, OnlyOutside
<1>4. Scoped(g)' = {id \in DOMAIN entries' : Permits(g, entries'[id])}
  BY DEF Scoped, Permits
<1>5. Scoped(g)' = Scoped(g)
  BY <1>2, <1>3, <1>4 DEF Scoped
<1> QED BY <1>1, <1>2, <1>5 DEF Scoped

LEMMA SameListings ==
  ASSUME NEW g \in Grants, Outside(g)
  PROVE  /\ \A limit : Listed(g, limit)' = Listed(g, limit)
         /\ \A limit : ReadRuns(g, limit)' = ReadRuns(g, limit)
         /\ \A run, limit : ReadSnapshots(g, run, limit)' = ReadSnapshots(g, run, limit)
         /\ Gettable(g)' = Gettable(g)
         /\ \A run : ReadSnapshot(g, run)' = ReadSnapshot(g, run)
         /\ ReadCapabilities(g)' = ReadCapabilities(g)
<1>1. /\ Authorized(g)' = Authorized(g) /\ Scoped(g)' = Scoped(g)
      /\ \A id \in Scoped(g) : entries'[id] = entries[id]
  BY SameScope
<1>2. ASSUME NEW limit  PROVE Listed(g, limit)' = Listed(g, limit)
  <2>1. \A id \in Scoped(g) : {x \in Scoped(g) : entries'[x].rank < entries'[id].rank}
                               = {x \in Scoped(g) : entries[x].rank < entries[id].rank}
    BY <1>1
  <2>2. Listed(g, limit)' =
          IF ~Authorized(g)' THEN {}
          ELSE {id \in Scoped(g)' :
                  Cardinality({x \in Scoped(g)' : entries'[x].rank < entries'[id].rank}) < limit}
    BY DEF Listed
  <2> QED BY <1>1, <2>1, <2>2 DEF Listed
<1>3. \A limit : Listed(g, limit) \subseteq Scoped(g)
  BY DEF Listed
<1>4. Gettable(g)' = Gettable(g)
  BY <1>1 DEF Gettable
<1>5. Gettable(g) \subseteq Scoped(g)
  BY DEF Gettable
<1>6. \A limit : ReadRuns(g, limit)' = ReadRuns(g, limit)
  BY <1>1, <1>2, <1>3 DEF ReadRuns
<1>7. \A run, limit : ReadSnapshots(g, run, limit)' = ReadSnapshots(g, run, limit)
  BY <1>1, <1>2, <1>3 DEF ReadSnapshots
<1>8. \A run : ReadSnapshot(g, run)' = ReadSnapshot(g, run)
  BY <1>1, <1>4, <1>5 DEF ReadSnapshot
<1>9. ReadCapabilities(g)' = ReadCapabilities(g)
  BY <1>1 DEF ReadCapabilities
<1> QED BY <1>2, <1>4, <1>6, <1>7, <1>8, <1>9

LEMMA ComponentsInScope ==
  ASSUME NEW g, NEW run, NEW x \in ReadComponents(g, run)
  PROVE  /\ x = <<x[1], x[2]>> /\ x[1] \in Scoped(g) /\ x[2] \in DOMAIN entries[x[1]].components
         /\ x[1] \in ReadSnapshots(g, run, MaxSnapshots)
<1>1. PICK id \in ReadSnapshots(g, run, MaxSnapshots) :
        x \in {id} \X DOMAIN entries[id].components
  BY DEF ReadComponents
<1>2. id \in Scoped(g)
  BY DEF ReadSnapshots, Listed
<1> DEFINE places == DOMAIN entries[id].components
<1>3. x = <<x[1], x[2]>> /\ x[1] = id /\ x[2] \in places
  <2> HIDE DEF places
  <2> QED BY <1>1 DEF places
<1> QED BY <1>2, <1>3

SaidOf(held, g, m, c) ==
  /\ c.ref # None /\ c.digest # None
  /\ g.privilege = "content" /\ m.mode # "private" /\ c.status # "expired"
  /\ c.ref \in DOMAIN held /\ held[c.ref] = c.digest

(* What is said of the bytes of a component, and the bytes that are         *)
(* returned, depend on its own reference only.                              *)
LEMMA SameBytes ==
  ASSUME NEW g \in Grants, Outside(g)
  PROVE  \A run :
           /\ ReadComponents(g, run)' = ReadComponents(g, run)
           /\ ReadContent(g, run)' = ReadContent(g, run)
           /\ \A x \in ReadComponents(g, run) :
                /\ entries'[x[1]] = entries[x[1]]
                /\ SaidAvailable(g, x[1], x[2])' = SaidAvailable(g, x[1], x[2])
           /\ \A x \in ReadContent(g, run) : BytesOf(x)' = BytesOf(x)
<1>1. /\ Scoped(g)' = Scoped(g) /\ \A id \in Scoped(g) : entries'[id] = entries[id]
      /\ \A run, limit : ReadSnapshots(g, run, limit)' = ReadSnapshots(g, run, limit)
  BY SameScope, SameListings
<1>2. \A ref \in DOMAIN content : ref \in DOMAIN content' /\ content'[ref] = content[ref]
  BY DEF Outside, Extends
<1>3. ASSUME NEW id \in Scoped(g), NEW i \in DOMAIN entries[id].components,
             entries[id].components[i].ref \in DOMAIN content'
      PROVE  entries[id].components[i].ref \in DOMAIN content
  BY <1>3 DEF Outside, OnlyOutside
<1>4. ASSUME NEW id \in Scoped(g), NEW i \in DOMAIN entries[id].components
      PROVE  SaidAvailable(g, id, i)' = SaidAvailable(g, id, i)
  <2> DEFINE m == entries[id]
             c == m.components[i]
  <2>1. entries'[id] = m
    BY <1>1
  <2>2. c.ref \in DOMAIN content' <=> c.ref \in DOMAIN content
    BY <1>2, <1>3, <1>4
  <2>3. c.ref \in DOMAIN content => content'[c.ref] = content[c.ref]
    BY <1>2
  <2>4. SaidAvailable(g, id, i) = SaidOf(content, g, m, c)
    BY DEF SaidAvailable, SaidOf, Available
  <2>5. SaidAvailable(g, id, i)' = SaidOf(content', g, m, c)
    BY <2>1 DEF SaidAvailable, SaidOf, Available
  <2> HIDE DEF m, c
  <2>6. SaidOf(content', g, m, c) = SaidOf(content, g, m, c)
    BY <2>2, <2>3 DEF SaidOf
  <2> QED BY <2>4, <2>5, <2>6
<1>5. ASSUME NEW run
      PROVE  ReadComponents(g, run)' = ReadComponents(g, run)
  <2>1. \A id \in ReadSnapshots(g, run, MaxSnapshots) : entries'[id] = entries[id]
    BY <1>1 DEF ReadSnapshots, Listed
  <2>2. ReadComponents(g, run)' =
          UNION {{id} \X DOMAIN entries'[id].components :
                   id \in ReadSnapshots(g, run, MaxSnapshots)'}
    BY DEF ReadComponents
  <2> QED BY <1>1, <2>1, <2>2 DEF ReadComponents
<1>6. ASSUME NEW run, NEW x \in ReadComponents(g, run)
      PROVE  /\ x[1] \in Scoped(g) /\ entries'[x[1]] = entries[x[1]]
             /\ SaidAvailable(g, x[1], x[2])' = SaidAvailable(g, x[1], x[2])
  BY <1>1, <1>4, <1>6, ComponentsInScope
<1>7. ASSUME NEW run
      PROVE  ReadContent(g, run)' = ReadContent(g, run)
  <2>1. ReadContent(g, run) =
          {x \in ReadComponents(g, run) : g.privilege = "content" /\ SaidAvailable(g, x[1], x[2])}
    BY DEF ReadContent, SaidAvailable
  <2>2. ReadContent(g, run)' =
          {x \in ReadComponents(g, run)' : g.privilege = "content" /\ SaidAvailable(g, x[1], x[2])'}
    BY DEF ReadContent, SaidAvailable
  <2> QED BY <1>5, <1>6, <2>1, <2>2
<1>8. ASSUME NEW run, NEW x \in ReadContent(g, run)
      PROVE  BytesOf(x)' = BytesOf(x)
  <2>1. /\ x \in ReadComponents(g, run)
        /\ entries[x[1]].components[x[2]].ref \in DOMAIN content
    BY <1>8 DEF ReadContent, Available
  <2>2. entries'[x[1]] = entries[x[1]]
    BY <1>6, <2>1
  <2> QED BY <1>2, <2>1, <2>2 DEF BytesOf
<1> QED BY <1>5, <1>6, <1>7, <1>8

(* A comparison and an association speak of snapshots in scope only.        *)
LEMMA SameAnswers ==
  ASSUME NEW g \in Grants, Outside(g)
  PROVE  /\ \A run : Comparable(g, run)' = Comparable(g, run)
         /\ \A run : \A l, r \in Comparable(g, run) :
              /\ Fits(l, r)' = Fits(l, r)
              /\ Compared(l, r)' = Compared(l, r)
         /\ \A a : Resolve(g, a)' = Resolve(g, a)
<1>1. /\ \A id \in Scoped(g) : entries'[id] = entries[id]
      /\ Gettable(g)' = Gettable(g) /\ Gettable(g) \subseteq Scoped(g)
      /\ \A run : ReadSnapshot(g, run)' = ReadSnapshot(g, run)
  BY SameScope, SameListings DEF Gettable
<1>2. \A run : Comparable(g, run)' = Comparable(g, run) /\ Comparable(g, run) \subseteq Scoped(g)
  BY <1>1 DEF Comparable, ReadSnapshot
<1>3. ASSUME NEW l \in Scoped(g), NEW r \in Scoped(g)
      PROVE  Fits(l, r)' = Fits(l, r) /\ Compared(l, r)' = Compared(l, r)
  <2>1. entries'[l] = entries[l] /\ entries'[r] = entries[r]
    BY <1>1
  <2>2. Fits(l, r)' = Fits(l, r)
    BY <2>1 DEF Fits
  <2>3. Compared(l, r)' = Compared(l, r)
    BY <2>1 DEF Compared
  <2> QED BY <2>2, <2>3
<1>4. ASSUME NEW a  PROVE Resolve(g, a)' = Resolve(g, a)
  BY <1>1 DEF Resolve
<1> QED BY <1>2, <1>3, <1>4

(* The events of a stream within reach stay as they are, and so do its      *)
(* pages: the same set of events is sorted by the same ordinals.            *)
LEMMA SamePages ==
  ASSUME NEW g \in Grants, Outside(g), NEW run \in Runs,
         NEW cursor \in DOMAIN trail \cup {None}
  PROVE  /\ MayPage(g, run, cursor)' = MayPage(g, run, cursor)
         /\ MayPage(g, run, cursor) =>
              \A limit : /\ PageOf(g, run, cursor, limit)' = PageOf(g, run, cursor, limit)
                         /\ HasNext(g, run, cursor, limit)' = HasNext(g, run, cursor, limit)
<1>1. Authorized(g)' = Authorized(g)
  BY SameScope
<1>2. MayPage(g, run, cursor)' = MayPage(g, run, cursor)
  BY <1>1 DEF MayPage, Decodes, Cursor
<1>3. ASSUME MayPage(g, run, cursor)
      PROVE  After(g, run, cursor)' = After(g, run, cursor)
  <2> DEFINE ids == Following(g, run, cursor)
             lists == [1..Cardinality(ids) -> ids]
             InOrder(list, es) ==
               /\ IsInjective(list)
               /\ \A i, j \in DOMAIN list :
                    i < j => es[list[i]].sequence <= es[list[j]].sequence
  <2>1. \A id \in DOMAIN events : id \in DOMAIN events' /\ events'[id] = events[id]
    BY DEF Outside, Extends
  <2>2. ASSUME NEW id \in DOMAIN events', events'[id].scope = <<g.project, run>>
        PROVE  id \in DOMAIN events
    <3>1. InReach(g, <<g.project, run>>)
      <4>1. <<g.project, run>> # None
        BY DocumentsAssumption DEF Runs
      <4>2. g.run \in {None, run}
        BY <1>3 DEF MayPage
      <4> QED BY <4>1, <4>2 DEF InReach
    <3>2. id \in DOMAIN events \/ ~InReach(g, events'[id].scope)
      BY DEF Outside, OnlyOutside
    <3> QED BY <2>2, <3>1, <3>2
  <2>3. ids' = ids
    <3>1. ids' = {id \in DOMAIN events' :
                    /\ events'[id].scope = <<g.project, run>>
                    /\ cursor # None => events'[id].sequence > cursor.sequence}
      BY DEF Following, InStream
    <3>2. ids = {id \in DOMAIN events :
                    /\ events[id].scope = <<g.project, run>>
                    /\ cursor # None => events[id].sequence > cursor.sequence}
      BY DEF Following, InStream
    <3> HIDE DEF ids
    <3> QED BY <2>1, <2>2, <3>1, <3>2
  <2>4. ASSUME NEW list \in lists
        PROVE  InOrder(list, events') <=> InOrder(list, events)
    <3>1. \A i \in DOMAIN list : list[i] \in DOMAIN events
      BY DEF Following
    <3>2. \A i \in DOMAIN list : events'[list[i]] = events[list[i]]
      BY <2>1, <3>1
    <3> QED BY <3>2
  <2>5. Sorted(ids) = CHOOSE list \in lists : InOrder(list, events)
    BY DEF Sorted
  <2>6. Sorted(ids)' = CHOOSE list \in lists : InOrder(list, events')
    BY <2>3 DEF Sorted
  <2> HIDE DEF lists, InOrder, ids
  <2>7. (CHOOSE list \in lists : InOrder(list, events'))
          = CHOOSE list \in lists : InOrder(list, events)
    BY <2>4
  <2> QED BY <2>5, <2>6, <2>7 DEF After, ids
<1>4. ASSUME MayPage(g, run, cursor), NEW limit
      PROVE  /\ PageOf(g, run, cursor, limit)' = PageOf(g, run, cursor, limit)
             /\ HasNext(g, run, cursor, limit)' = HasNext(g, run, cursor, limit)
  BY <1>3, <1>4 DEF PageOf, HasNext
<1> QED BY <1>2, <1>4

(* What happens outside a grant leaves its view as it was.                  *)
LEMMA ViewUnmoved ==
  ASSUME NEW g \in Grants, Outside(g)
  PROVE  View(g)' = View(g)
<1>1. ReadCapabilities(g)' = ReadCapabilities(g)
  BY SameListings
<1>2. [limit \in Limits |-> ReadRuns(g, limit)]' = [limit \in Limits |-> ReadRuns(g, limit)]
  BY SameListings
<1>3. [limit \in Limits |-> [id \in Listed(g, limit) |-> entries[id]]]'
        = [limit \in Limits |-> [id \in Listed(g, limit) |-> entries[id]]]
  <2>1. ASSUME NEW limit \in Limits
        PROVE  [id \in Listed(g, limit) |-> entries[id]]' = [id \in Listed(g, limit) |-> entries[id]]
    <3>1. Listed(g, limit)' = Listed(g, limit) /\ Listed(g, limit) \subseteq Scoped(g)
      BY SameListings DEF Listed
    <3> QED BY <3>1, SameScope
  <2> QED BY <2>1
<1>4. [id \in Gettable(g) |-> entries[id]]' = [id \in Gettable(g) |-> entries[id]]
  <2>1. Gettable(g)' = Gettable(g) /\ Gettable(g) \subseteq Scoped(g)
    BY SameListings DEF Gettable
  <2> QED BY <2>1, SameScope
<1>5. ASSUME NEW run \in Runs
      PROVE  [x \in ReadComponents(g, run) |->
                <<entries[x[1]].components[x[2]], SaidAvailable(g, x[1], x[2])>>]'
               = [x \in ReadComponents(g, run) |->
                    <<entries[x[1]].components[x[2]], SaidAvailable(g, x[1], x[2])>>]
  BY SameBytes
<1>6. ASSUME NEW run \in Runs
      PROVE  [x \in ReadContent(g, run) |-> BytesOf(x)]' = [x \in ReadContent(g, run) |-> BytesOf(x)]
  BY SameBytes
<1>7. ASSUME NEW run \in Runs
      PROVE  [pair \in Comparable(g, run) \X Comparable(g, run) |->
                IF Fits(pair[1], pair[2]) THEN Compared(pair[1], pair[2]) ELSE None]'
               = [pair \in Comparable(g, run) \X Comparable(g, run) |->
                    IF Fits(pair[1], pair[2]) THEN Compared(pair[1], pair[2]) ELSE None]
  <2>1. Comparable(g, run)' = Comparable(g, run)
    BY SameAnswers
  <2>2. ASSUME NEW pair \in Comparable(g, run) \X Comparable(g, run)
        PROVE  /\ Fits(pair[1], pair[2])' = Fits(pair[1], pair[2])
               /\ Compared(pair[1], pair[2])' = Compared(pair[1], pair[2])
    <3>1. pair[1] \in Comparable(g, run) /\ pair[2] \in Comparable(g, run)
      OBVIOUS
    <3> QED BY <3>1, SameAnswers
  <2> QED BY <2>1, <2>2
<1>8. [a \in Associations |-> Resolve(g, a)]' = [a \in Associations |-> Resolve(g, a)]
  BY SameAnswers
<1>9. DOMAIN trail' = DOMAIN trail
  BY DEF Outside, OnlyOutside
<1>10. ASSUME NEW run \in Runs, NEW cursor \in DOMAIN trail \cup {None}
       PROVE  [limit \in Limits |->
                 IF MayPage(g, run, cursor)
                   THEN <<PageOf(g, run, cursor, limit), HasNext(g, run, cursor, limit)>>
                   ELSE None]'
                = [limit \in Limits |->
                     IF MayPage(g, run, cursor)
                       THEN <<PageOf(g, run, cursor, limit), HasNext(g, run, cursor, limit)>>
                       ELSE None]
  BY SamePages
<1>11. [run \in Runs |-> [x \in ReadComponents(g, run) |->
                <<entries[x[1]].components[x[2]], SaidAvailable(g, x[1], x[2])>>]]'
         = [run \in Runs |-> [x \in ReadComponents(g, run) |->
                <<entries[x[1]].components[x[2]], SaidAvailable(g, x[1], x[2])>>]]
  BY <1>5
<1>12. [run \in Runs |-> [x \in ReadContent(g, run) |-> BytesOf(x)]]'
         = [run \in Runs |-> [x \in ReadContent(g, run) |-> BytesOf(x)]]
  BY <1>6
<1>13. [run \in Runs |->
          [pair \in Comparable(g, run) \X Comparable(g, run) |->
             IF Fits(pair[1], pair[2]) THEN Compared(pair[1], pair[2]) ELSE None]]'
         = [run \in Runs |->
              [pair \in Comparable(g, run) \X Comparable(g, run) |->
                 IF Fits(pair[1], pair[2]) THEN Compared(pair[1], pair[2]) ELSE None]]
  BY <1>7
<1>14. [run \in Runs |-> [cursor \in DOMAIN trail \cup {None} |-> [limit \in Limits |->
                 IF MayPage(g, run, cursor)
                   THEN <<PageOf(g, run, cursor, limit), HasNext(g, run, cursor, limit)>>
                   ELSE None]]]'
         = [run \in Runs |-> [cursor \in DOMAIN trail \cup {None} |-> [limit \in Limits |->
                 IF MayPage(g, run, cursor)
                   THEN <<PageOf(g, run, cursor, limit), HasNext(g, run, cursor, limit)>>
                   ELSE None]]]
  BY <1>9, <1>10
<1> QED BY <1>1, <1>2, <1>3, <1>4, <1>8, <1>11, <1>12, <1>13, <1>14 DEF View

(* Nothing that could be read is taken back or replaced.                    *)
LEMMA ReadableStays ==
  ASSUME SoundInv, SoundInv', NEW g \in Grants,
         Extends(entries, entries'), Extends(content, content')
  PROVE  StaysReadable(g)
<1> SUFFICES ASSUME Authorized(g)'  PROVE
      /\ \A id \in Gettable(g) : id \in Gettable(g)' /\ entries'[id] = entries[id]
      /\ \A run \in Runs :
           /\ ReadComponents(g, run) \subseteq ReadComponents(g, run)'
           /\ \A x \in ReadContent(g, run) : x \in ReadContent(g, run)' /\ BytesOf(x)' = BytesOf(x)
      /\ \A a \in Associations : Resolve(g, a) \subseteq Resolve(g, a)'
  BY DEF StaysReadable
<1>1. \A id \in Scoped(g) : id \in Scoped(g)' /\ entries'[id] = entries[id]
  BY DEF Scoped, Permits, Extends
<1>2. ASSUME NEW id \in Gettable(g)
      PROVE  id \in Gettable(g)' /\ entries'[id] = entries[id]
  BY <1>1 DEF Gettable
<1>3. ASSUME NEW a \in Associations, NEW id \in Resolve(g, a)
      PROVE  id \in Resolve(g, a)'
  <2>1. id \in Gettable(g)
    BY <1>3 DEF Resolve
  <2> QED BY <1>2, <1>3, <2>1 DEF Resolve
<1>4. ASSUME NEW id \in Scoped(g)
      PROVE  id \in Listed(g, MaxSnapshots)'
  <2> DEFINE S == Scoped(g)'
  <2>1. S \subseteq DOMAIN entries' /\ id \in S
    BY <1>1 DEF Scoped
  <2>2. Within(entries', MaxSnapshots) /\ Kept(entries')
    BY DEF SoundInv
  <2> HIDE DEF S
  <2>3. Cardinality({x \in S : entries'[x].rank < entries'[id].rank}) < MaxSnapshots
    BY <2>1, <2>2, FewBefore
  <2> QED BY <2>1, <2>3 DEF Listed, S
<1>5. ASSUME NEW run \in Runs, NEW x \in ReadComponents(g, run)
      PROVE  x \in ReadComponents(g, run)' /\ entries'[x[1]] = entries[x[1]]
  <2>1. /\ x = <<x[1], x[2]>> /\ x[1] \in Scoped(g)
        /\ x[2] \in DOMAIN entries[x[1]].components
        /\ x[1] \in ReadSnapshots(g, run, MaxSnapshots)
    BY <1>5, ComponentsInScope
  <2>2. entries'[x[1]] = entries[x[1]] /\ x[1] \in Listed(g, MaxSnapshots)'
    BY <1>1, <1>4, <2>1
  <2>3. x[1] \in ReadSnapshots(g, run, MaxSnapshots)'
    BY <2>1, <2>2 DEF ReadSnapshots
  <2> DEFINE id == x[1]
             i == x[2]
  <2>4. <<id, i>> \in {id} \X DOMAIN entries'[id].components
    <3>1. i \in DOMAIN entries'[id].components
      BY <2>1, <2>2
    <3> QED BY <3>1
  <2> HIDE DEF id, i
  <2>5. <<id, i>> \in ReadComponents(g, run)'
    BY <2>3, <2>4 DEF ReadComponents, id
  <2> QED BY <2>1, <2>2, <2>5 DEF id, i
<1>6. ASSUME NEW run \in Runs, NEW x \in ReadContent(g, run)
      PROVE  x \in ReadContent(g, run)' /\ BytesOf(x)' = BytesOf(x)
  <2>1. x \in ReadComponents(g, run) /\ g.privilege = "content"
    BY <1>6 DEF ReadContent
  <2>2. Available(g, entries[x[1]], entries[x[1]].components[x[2]])
    BY <1>6 DEF ReadContent
  <2>3. x \in ReadComponents(g, run)' /\ entries'[x[1]] = entries[x[1]]
    BY <1>5, <2>1
  <2> DEFINE m == entries[x[1]]
             c == m.components[x[2]]
  <2>4. /\ c.ref # None /\ c.digest # None
        /\ g.privilege = "content" /\ m.mode # "private" /\ c.status # "expired"
        /\ c.ref \in DOMAIN content /\ content[c.ref] = c.digest
    BY <2>2 DEF Available
  <2>5. c.ref \in DOMAIN content' /\ content'[c.ref] = content[c.ref]
    BY <2>4 DEF Extends
  <2>6. BytesOf(x)' = BytesOf(x)
    BY <2>3, <2>5 DEF BytesOf
  <2>7. x \in ReadContent(g, run)'
    BY <2>1, <2>3, <2>4, <2>5 DEF ReadContent, Available
  <2> QED BY <2>6, <2>7
<1> QED BY <1>2, <1>3, <1>5, <1>6

LEMMA DeadStays ==
  ASSUME NEW g \in Grants, clock \in Nat, clock' \in Nat, clock <= clock', revoked \subseteq revoked'
  PROVE  StaysDead(g)
<1> SUFFICES ASSUME Dead(g) \/ Dead(g)'  PROVE ReadsNothing(g)'
  BY DEF StaysDead
<1>1. Dead(g)'
  BY DocumentsAssumption DEF Dead
<1>2. ~Authorized(g)'
  BY <1>1, DocumentsAssumption DEF Authorized, Dead
<1>3. /\ ReadCapabilities(g)' = {} /\ Gettable(g)' = {}
      /\ \A limit : Listed(g, limit)' = {}
      /\ \A run, cursor : ~MayPage(g, run, cursor)'
  BY <1>2 DEF ReadCapabilities, Gettable, Listed, MayPage
<1>4. \A run \in Runs : ReadComponents(g, run)' = {}
  BY <1>3 DEF ReadComponents, ReadSnapshots
<1>5. \A run \in Runs : ReadContent(g, run)' = {}
  BY <1>4 DEF ReadContent
<1>6. \A a \in Associations : Resolve(g, a)' = {}
  BY <1>3 DEF Resolve
<1> QED BY <1>3, <1>4, <1>5, <1>6 DEF ReadsNothing

LEMMA ClockStart ==
  ASSUME Init
  PROVE  clock \in Nat
BY DEF Init

(* read_api: whatever is stored, granted, revoked or expires, a step that   *)
(* lies outside a grant leaves every answer of it as it was, what a valid   *)
(* grant could read stays readable and the same, and a dead grant reads     *)
(* nothing, then and ever after.                                            *)
THEOREM ReadsStayWithinGrant == Spec => ReadsWithinGrant
<1> DEFINE I == SoundInv /\ clock \in Nat
           A == \A g \in Grants : OutsideUnseen(g) /\ StaysReadable(g) /\ StaysDead(g)
<1>1. Init => I
  BY SoundStart, ClockStart
<1>2. I /\ [Next]_vars => I'
  BY SoundStep, OnlyGrows
<1>3. I /\ I' /\ [Next]_vars => [A]_vars
  <2> SUFFICES ASSUME I, I', [Next]_vars, NEW g \in Grants
               PROVE  OutsideUnseen(g) /\ StaysReadable(g) /\ StaysDead(g)
    OBVIOUS
  <2>1. /\ Extends(entries, entries') /\ Extends(events, events') /\ Extends(content, content')
        /\ revoked \subseteq revoked' /\ clock' \in Nat /\ clock <= clock'
    BY OnlyGrows
  <2>2. OutsideUnseen(g)
    <3>1. OnlyOutside(g) => Outside(g)
      BY <2>1 DEF Outside
    <3> QED BY <3>1, ViewUnmoved DEF OutsideUnseen
  <2>3. StaysReadable(g)
    BY <2>1, ReadableStays
  <2>4. StaysDead(g)
    BY <2>1, DeadStays
  <2> QED BY <2>2, <2>3, <2>4
<1> HIDE DEF I
<1>4. Spec => [][A]_vars
  <2> HIDE DEF A
  <2> QED BY <1>1, <1>2, <1>3, PTL DEF Spec
<1> QED BY <1>4 DEF ReadsWithinGrant

-----------------------------------------------------------------------------
(* Event pages.                                                            *)

Scopes == {<<g.project, run>> : g \in Grants, run \in Runs}

LEMMA ScopesAreGiven ==
  ASSUME NEW scope \in Scopes
  PROVE  scope # None
BY DocumentsAssumption DEF Scopes, Runs

Count(counts, scope) == IF scope \in DOMAIN counts THEN counts[scope] ELSE 0

Line(es, ids, scope) == Keeping(ids, {id \in DOMAIN es : es[id].scope = scope})

(* The events of a scope, in the order they were appended, bear the         *)
(* ordinals from 0 on.                                                      *)
Ordered(es, scope, count, line) ==
  /\ count \in Nat
  /\ line \in Seq(DOMAIN es) /\ Len(line) = count
  /\ \A i \in 1..count : es[line[i]].scope = scope /\ es[line[i]].sequence = i - 1
  /\ \A id \in DOMAIN es : es[id].scope = scope => \E i \in 1..count : line[i] = id

StreamInv(es, ids, counts) ==
  \A scope \in Scopes : Ordered(es, scope, Count(counts, scope), Line(es, ids, scope))

(* A cursor that was handed out lies within its stream, and its client has  *)
(* seen the stream up to there.                                             *)
Covers(cursor, seen, es, ids, counts, g, run, n) ==
  LET scope == <<g.project, run>>
  IN  /\ cursor = Cursor(g, run, n)
      /\ n < Count(counts, scope)
      /\ seen = SubSeq(Line(es, ids, scope), 1, n + 1)

TrailInv(es, ids, counts, handed) ==
  \A cursor \in DOMAIN handed :
    \E g \in Grants, run \in Runs, n \in Nat :
      Covers(cursor, handed[cursor], es, ids, counts, g, run, n)

PagesInv ==
  /\ StreamInv(events, appended, sequences)
  /\ TrailInv(events, appended, sequences, trail)

(* Distinct numbers in order that fill an interval are the interval.        *)
LEMMA Contiguous ==
  ASSUME NEW k \in Nat, NEW c \in Nat, NEW h,
         \A i \in 1..k : h[i] \in Nat /\ c <= h[i] /\ h[i] <= c + k - 1,
         \A i, j \in 1..k : i < j => h[i] < h[j]
  PROVE  \A i \in 1..k : h[i] = c + i - 1
<1> DEFINE T == {m \in Nat : m + 1 <= k => h[m + 1] >= c + m}
           D == {m \in Nat : m + 1 <= k => h[k - m] <= c + k - m - 1}
<1>1. \A i \in 1..k : i + 1 \in 1..k => h[i] + 1 <= h[i + 1]
  <2> SUFFICES ASSUME NEW i \in 1..k, i + 1 \in 1..k  PROVE h[i] + 1 <= h[i + 1]
    OBVIOUS
  <2>1. h[i] < h[i + 1] /\ h[i] \in Nat /\ h[i + 1] \in Nat
    OBVIOUS
  <2> QED BY <2>1
<1>2. 0 \in T /\ 0 \in D
  <2>1. ASSUME 0 + 1 <= k  PROVE h[1] >= c + 0
    BY <2>1
  <2>2. ASSUME 0 + 1 <= k  PROVE h[k - 0] <= c + k - 0 - 1
    <3>1. k \in 1..k /\ k - 0 = k
      BY <2>2
    <3>2. h[k] \in Nat /\ h[k] <= c + k - 1
      BY <3>1
    <3> QED BY <3>1, <3>2
  <2> QED BY <2>1, <2>2
<1>3. ASSUME NEW m \in Nat, m \in T  PROVE m + 1 \in T
  <2> SUFFICES ASSUME m + 1 + 1 <= k  PROVE h[m + 1 + 1] >= c + (m + 1)
    OBVIOUS
  <2>1. m + 1 \in 1..k /\ m + 1 + 1 \in 1..k /\ h[m + 1] >= c + m
    BY <1>3
  <2>2. h[m + 1] + 1 <= h[m + 1 + 1] /\ h[m + 1] \in Nat /\ h[m + 1 + 1] \in Nat
    BY <1>1, <2>1
  <2> QED BY <2>1, <2>2
<1>4. ASSUME NEW m \in Nat, m \in D  PROVE m + 1 \in D
  <2> SUFFICES ASSUME m + 1 + 1 <= k  PROVE h[k - (m + 1)] <= c + k - (m + 1) - 1
    OBVIOUS
  <2> DEFINE i == k - (m + 1)
  <2>1. i \in 1..k /\ i + 1 \in 1..k /\ i + 1 = k - m /\ h[k - m] <= c + k - m - 1
    BY <1>4
  <2>2. h[i] + 1 <= h[i + 1] /\ h[i] \in Nat /\ h[i + 1] \in Nat
    BY <1>1, <2>1
  <2>3. h[i] <= c + i - 1
    <3>1. h[i + 1] <= c + i
      BY <2>1
    <3> HIDE DEF i
    <3> QED BY <2>1, <2>2, <3>1
  <2> QED BY <2>3
<1>5. Nat \subseteq T /\ Nat \subseteq D
  <2> HIDE DEF T, D
  <2> QED BY <1>2, <1>3, <1>4, InductionOverNat
<1>6. ASSUME NEW i \in 1..k  PROVE h[i] = c + i - 1
  <2>1. h[i] >= c + (i - 1)
    <3>1. i - 1 \in T
      BY <1>5
    <3>2. i - 1 + 1 = i
      OBVIOUS
    <3> QED BY <3>1, <3>2
  <2>2. h[i] <= c + i - 1
    <3>1. k - i \in D
      BY <1>5
    <3>2. k - (k - i) = i /\ k - i + 1 <= k /\ c + k - (k - i) - 1 = c + i - 1
      OBVIOUS
    <3> QED BY <3>1, <3>2
  <2>3. h[i] \in Nat
    OBVIOUS
  <2> QED BY <2>1, <2>2, <2>3
<1> QED BY <1>6

(* Sorting the events from a place of their stream on gives the rest of it.  *)
LEMMA SortedIsRest ==
  ASSUME NEW scope, NEW count, NEW line, Ordered(events, scope, count, line),
         NEW c \in Nat, c <= count
  PROVE  LET ids == {id \in DOMAIN events :
                       events[id].scope = scope /\ events[id].sequence >= c}
         IN  Sorted(ids) = SubSeq(line, c + 1, count)
<1> DEFINE ids == {id \in DOMAIN events :
                     events[id].scope = scope /\ events[id].sequence >= c}
           k == count - c
           rest == [i \in 1..k |-> line[c + i]]
           Is(list) == /\ IsInjective(list)
                       /\ \A i, j \in DOMAIN list :
                            i < j => events[list[i]].sequence <= events[list[j]].sequence
<1>1. /\ count \in Nat /\ k \in Nat /\ line \in Seq(DOMAIN events) /\ Len(line) = count
      /\ \A i \in 1..count : /\ line[i] \in DOMAIN events
                             /\ events[line[i]].scope = scope
                             /\ events[line[i]].sequence = i - 1
      /\ \A id \in DOMAIN events : events[id].scope = scope => \E i \in 1..count : line[i] = id
  BY ElementOfSeq DEF Ordered
<1>2. \A i \in 1..k : /\ c + i \in 1..count /\ rest[i] \in ids
                      /\ events[rest[i]].sequence = c + i - 1
  BY <1>1
<1>3. \A id \in ids : \E i \in 1..k : rest[i] = id
  <2> SUFFICES ASSUME NEW id \in ids  PROVE \E i \in 1..k : rest[i] = id
    OBVIOUS
  <2>1. PICK j \in 1..count : line[j] = id
    BY <1>1
  <2>2. j - 1 >= c
    BY <1>1, <2>1
  <2>3. j - c \in 1..k /\ c + (j - c) = j
    BY <1>1, <2>2
  <2> QED BY <2>1, <2>3
<1> HIDE DEF ids, k, rest
<1>4. rest \in [1..k -> ids] /\ DOMAIN rest = 1..k
  BY <1>2 DEF rest
<1>5. Is(rest)
  <2>1. ASSUME NEW i \in 1..k, NEW j \in 1..k, rest[i] = rest[j]  PROVE i = j
    <3>1. c + i - 1 = c + j - 1
      BY <1>2, <2>1
    <3> QED BY <3>1
  <2>2. ASSUME NEW i \in 1..k, NEW j \in 1..k, i < j
        PROVE  events[rest[i]].sequence <= events[rest[j]].sequence
    BY <1>2, <2>2
  <2> QED BY <1>4, <2>1, <2>2 DEF IsInjective
<1>6. IsFiniteSet(ids) /\ Cardinality(ids) = k
  <2>1. rest \in Bijection(1..k, ids)
    BY <1>3, <1>4, <1>5 DEF IsInjective, Bijection, Injection, Surjection
  <2>2. IsFiniteSet(1..k) /\ Cardinality(1..k) = k
    <3> DEFINE many == Cardinality(1..k)
    <3>1. IsFiniteSet(1..k) /\ many = IF 1 > k THEN 0 ELSE k - 1 + 1
      BY <1>1, FS_Interval
    <3> HIDE DEF many
    <3>2. many = k
      BY <1>1, <3>1
    <3> QED BY <3>1, <3>2 DEF many
  <2>3. ExistsBijection(1..k, ids)
    BY <2>1 DEF ExistsBijection
  <2> QED BY <2>2, <2>3, FS_Bijection
<1> DEFINE sorted == Sorted(ids)
<1>7. sorted \in [1..k -> ids] /\ Is(sorted)
  <2>1. \E list \in [1..Cardinality(ids) -> ids] : Is(list)
    BY <1>4, <1>5, <1>6
  <2>2. Sorted(ids) = CHOOSE list \in [1..Cardinality(ids) -> ids] : Is(list)
    BY DEF Sorted
  <2> HIDE DEF Is
  <2> QED BY <1>6, <2>1, <2>2
<1> HIDE DEF sorted
<1> DEFINE h == [i \in 1..k |-> events[sorted[i]].sequence]
<1>8. \A id \in ids : /\ events[id].sequence \in Nat
                      /\ c <= events[id].sequence /\ events[id].sequence <= c + k - 1
  <2> SUFFICES ASSUME NEW id \in ids
               PROVE  /\ events[id].sequence \in Nat
                      /\ c <= events[id].sequence /\ events[id].sequence <= c + k - 1
    OBVIOUS
  <2>1. PICK i \in 1..k : rest[i] = id
    BY <1>3
  <2>2. events[id].sequence = c + i - 1
    BY <1>2, <2>1
  <2> QED BY <1>1, <2>2
<1>9. \A i \in 1..k : h[i] \in Nat /\ c <= h[i] /\ h[i] <= c + k - 1
  BY <1>7, <1>8
<1>10. \A id, other \in ids : events[id].sequence = events[other].sequence => id = other
  <2> SUFFICES ASSUME NEW id \in ids, NEW other \in ids,
                      events[id].sequence = events[other].sequence
               PROVE  id = other
    OBVIOUS
  <2>1. PICK i \in 1..k : rest[i] = id
    BY <1>3
  <2>2. PICK j \in 1..k : rest[j] = other
    BY <1>3
  <2>3. c + i - 1 = c + j - 1
    BY <1>2, <2>1, <2>2
  <2>4. i = j
    BY <2>3
  <2> QED BY <2>1, <2>2, <2>4
<1>11. \A i, j \in 1..k : i < j => h[i] < h[j]
  <2> SUFFICES ASSUME NEW i \in 1..k, NEW j \in 1..k, i < j  PROVE h[i] < h[j]
    OBVIOUS
  <2>1. h[i] = events[sorted[i]].sequence /\ h[j] = events[sorted[j]].sequence
    OBVIOUS
  <2>2. h[i] <= h[j]
    BY <1>7, <2>1
  <2>3. sorted[i] # sorted[j]
    BY <1>7 DEF IsInjective
  <2>4. h[i] # h[j]
    BY <1>7, <1>10, <2>1, <2>3
  <2>5. h[i] \in Nat /\ h[j] \in Nat
    BY <1>9
  <2> HIDE DEF h
  <2> QED BY <2>2, <2>4, <2>5
<1>12. \A i \in 1..k : h[i] = c + i - 1
  <2>1. k \in Nat /\ c \in Nat
    BY <1>1
  <2> HIDE DEF h
  <2> QED BY <1>9, <1>11, <2>1, Contiguous, Zenon
<1>13. \A i \in 1..k : sorted[i] = rest[i]
  <2> SUFFICES ASSUME NEW i \in 1..k  PROVE sorted[i] = rest[i]
    OBVIOUS
  <2>1. events[sorted[i]].sequence = events[rest[i]].sequence
    BY <1>2, <1>12
  <2> QED BY <1>2, <1>7, <1>10, <2>1
<1>14. sorted = SubSeq(line, c + 1, count)
  <2> DEFINE U == DOMAIN events
             part == SubSeq(line, c + 1, count)
  <2>1. \A i \in (c + 1)..count : line[i] \in U
    BY <1>1
  <2>2. /\ part \in Seq(U)
        /\ Len(part) = IF c + 1 <= count THEN count - (c + 1) + 1 ELSE 0
        /\ \A i \in 1..(count - (c + 1) + 1) : part[i] = line[(c + 1) + i - 1]
    <3> HIDE DEF U
    <3> QED BY <1>1, <2>1, SubSeqProperties
  <2>3. count - (c + 1) + 1 = k /\ Len(part) = k
    <3> DEFINE l == Len(part)
    <3>1. l = IF c + 1 <= count THEN count - (c + 1) + 1 ELSE 0
      BY <2>2
    <3> HIDE DEF l
    <3>2. count - (c + 1) + 1 = k /\ l = k
      BY <1>1, <3>1 DEF k
    <3> QED BY <3>2 DEF l
  <2>4. \A i \in 1..k : part[i] = rest[i]
    <3> HIDE DEF part
    <3> SUFFICES ASSUME NEW i \in 1..k  PROVE part[i] = rest[i]
      OBVIOUS
    <3>1. part[i] = line[(c + 1) + i - 1] /\ (c + 1) + i - 1 = c + i
      BY <2>2, <2>3
    <3> QED BY <3>1 DEF rest
  <2> HIDE DEF part
  <2>5. DOMAIN part = 1..k
    BY <2>2, <2>3, LenProperties
  <2>6. part = [i \in 1..k |-> part[i]] /\ sorted = [i \in 1..k |-> sorted[i]]
    <3>1. part \in [1..k -> U]
      BY <2>2, <2>3, LenProperties
    <3> QED BY <1>7, <3>1
  <2> QED BY <1>13, <2>4, <2>6 DEF part
<1> QED BY <1>14 DEF sorted, ids

(* An event is appended at the end of its stream and of no other.           *)
LEMMA LineGrows ==
  ASSUME SoundInv, StreamInv(events, appended, sequences), NEW e, AppendEvent(e),
         NEW scope \in Scopes
  PROVE  LET line == Line(events, appended, scope)
             more == Line(events', appended', scope)
             n == Count(sequences, scope)
             m == Count(sequences', scope)
         IN  /\ Ordered(events', scope, m, more)
             /\ n <= m /\ \A i \in 1..n : more[i] = line[i]
<1> DEFINE line == Line(events, appended, scope)
           more == Line(events', appended', scope)
           n == Count(sequences, scope)
           m == Count(sequences', scope)
           of == ScopeOf(e)
           ordinal == IF of = None THEN None ELSE Ordinal(e, of)
           new == [event |-> e, scope |-> of, sequence |-> ordinal]
           id == e.id
<1>1. /\ events' = With(events, id, new) /\ id \notin DOMAIN events
      /\ sequences' = IF of = None THEN sequences ELSE With(sequences, of, ordinal + 1)
      /\ appended' = Append(appended, id)
  BY DEF AppendEvent
<1>2. new.scope = of /\ new.sequence = ordinal
  OBVIOUS
<1>3. scope # None
  BY ScopesAreGiven
<1>4. of = scope => ordinal = n
  BY <1>3 DEF Ordinal, Count
<1>5. /\ n \in Nat /\ line \in Seq(DOMAIN events) /\ Len(line) = n
      /\ \A i \in 1..n : events[line[i]].scope = scope /\ events[line[i]].sequence = i - 1
      /\ \A x \in DOMAIN events : events[x].scope = scope => \E i \in 1..n : line[i] = x
  BY DEF StreamInv, Ordered
<1>6. \A i \in 1..n : line[i] \in DOMAIN events
  BY <1>5, ElementOfSeq
<1> DEFINE S == {x \in DOMAIN events : events[x].scope = scope}
           R == {x \in DOMAIN events' : events'[x].scope = scope}
<1>7. line = Keeping(appended, S) /\ more = Keeping(Append(appended, id), R)
  BY <1>1 DEF Line
<1> HIDE DEF new, id, ordinal, of
<1>8. /\ DOMAIN events' = DOMAIN events \cup {id} /\ events'[id] = new
      /\ \A x \in DOMAIN events : events'[x] = events[x]
  BY <1>1 DEF With
<1>9. /\ appended \in Seq(DOMAIN events') /\ id \in DOMAIN events'
      /\ \A i \in 1..Len(appended) : appended[i] \in DOMAIN events
  <2>1. appended \in Seq(DOMAIN events)
    BY DEF SoundInv, AppendedInv
  <2> QED BY <1>8, <2>1, SeqMonotonic, ElementOfSeq
<1>10. \A x \in DOMAIN events : x \in S <=> x \in R
  BY <1>8
<1>11. id \in R <=> of = scope
  BY <1>2, <1>8
<1> HIDE DEF S, R
<1>12. more = IF of = scope THEN Append(line, id) ELSE line
  <2>1. \A i \in 1..Len(appended) : appended[i] \in S <=> appended[i] \in R
    BY <1>9, <1>10
  <2> QED BY <1>7, <1>9, <1>11, <2>1, KeepingAppend
<1>13. line \in Seq(DOMAIN events')
  BY <1>5, <1>8, SeqMonotonic
<1> HIDE DEF line, more, n
<1>14. CASE of = scope
  <2>1. m = n + 1
    <3>1. sequences' = With(sequences, of, n + 1)
      BY <1>1, <1>3, <1>4, <1>14
    <3> QED BY <1>14, <3>1 DEF Count, With
  <2> HIDE DEF m
  <2>2. /\ more \in Seq(DOMAIN events') /\ Len(more) = n + 1
        /\ \A i \in 1..n : more[i] = line[i]
        /\ more[n + 1] = id
    <3>1. more = Append(line, id)
      BY <1>12, <1>14
    <3> QED BY <1>5, <1>9, <1>13, <3>1, AppendProperties
  <2>3. ASSUME NEW i \in 1..(n + 1)
        PROVE  events'[more[i]].scope = scope /\ events'[more[i]].sequence = i - 1
    <3>1. CASE i \in 1..n
      BY <1>5, <1>6, <1>8, <2>2, <3>1
    <3>2. CASE i = n + 1
      BY <1>2, <1>4, <1>5, <1>8, <1>14, <2>2, <3>2
    <3> QED BY <1>5, <3>1, <3>2
  <2>4. ASSUME NEW x \in DOMAIN events', events'[x].scope = scope
        PROVE  \E i \in 1..(n + 1) : more[i] = x
    <3>1. CASE x = id
      BY <1>5, <2>2, <3>1
    <3>2. CASE x \in DOMAIN events
      <4>1. PICK i \in 1..n : line[i] = x
        BY <1>5, <1>8, <2>4, <3>2
      <4> QED BY <1>5, <2>2, <4>1
    <3> QED BY <1>8, <3>1, <3>2
  <2>5. Ordered(events', scope, m, more) /\ n <= m
    BY <1>5, <2>1, <2>2, <2>3, <2>4 DEF Ordered
  <2> QED BY <2>2, <2>5 DEF line, more, m, n
<1>15. CASE of # scope
  <2>1. m = n
    BY <1>1, <1>15 DEF Count, With, n
  <2> HIDE DEF m
  <2>2. more = line
    BY <1>12, <1>15
  <2>3. ASSUME NEW i \in 1..n
        PROVE  events'[line[i]].scope = scope /\ events'[line[i]].sequence = i - 1
    BY <1>5, <1>6, <1>8
  <2>4. ASSUME NEW x \in DOMAIN events', events'[x].scope = scope
        PROVE  \E i \in 1..n : line[i] = x
    <3>1. x # id
      BY <1>2, <1>8, <1>15, <2>4
    <3> QED BY <1>5, <1>8, <2>4, <3>1
  <2>5. Ordered(events', scope, m, more) /\ n <= m /\ \A i \in 1..n : more[i] = line[i]
    BY <1>5, <1>13, <2>1, <2>2, <2>3, <2>4 DEF Ordered
  <2> QED BY <2>5 DEF line, more, m, n
<1> QED BY <1>14, <1>15

(* The start of a stream, whatever follows it.                              *)
LEMMA SameStart ==
  ASSUME NEW S, NEW T, NEW s \in Seq(S), NEW t \in Seq(T), NEW k \in Nat,
         k <= Len(s), k <= Len(t), \A i \in 1..k : s[i] = t[i]
  PROVE  SubSeq(s, 1, k) = SubSeq(t, 1, k)
<1> DEFINE U == S \cup T
           a == SubSeq(s, 1, k)
           b == SubSeq(t, 1, k)
<1>1. \A i \in 1..k : s[i] \in U /\ t[i] \in U
  <2>1. Len(s) \in Nat /\ \A i \in 1..Len(s) : s[i] \in S
    BY LenProperties, ElementOfSeq
  <2> QED BY <2>1
<1> HIDE DEF U
<1>2. /\ a \in Seq(U) /\ Len(a) = IF 1 <= k THEN k - 1 + 1 ELSE 0
      /\ \A i \in 1..(k - 1 + 1) : a[i] = s[1 + i - 1]
  BY <1>1, SubSeqProperties
<1>3. /\ b \in Seq(U) /\ Len(b) = IF 1 <= k THEN k - 1 + 1 ELSE 0
      /\ \A i \in 1..(k - 1 + 1) : b[i] = t[1 + i - 1]
  BY <1>1, SubSeqProperties
<1> HIDE DEF a, b
<1> DEFINE l == Len(a)
<1>4. l = Len(b) /\ l = IF 1 <= k THEN k - 1 + 1 ELSE 0
  BY <1>2, <1>3
<1> HIDE DEF l
<1>5. \A i \in 1..l : a[i] = b[i]
  <2> SUFFICES ASSUME NEW i \in 1..l  PROVE a[i] = b[i]
    OBVIOUS
  <2>1. i \in 1..(k - 1 + 1) /\ i \in 1..k /\ 1 + i - 1 = i
    BY <1>4
  <2> QED BY <1>2, <1>3, <2>1
<1> QED BY <1>2, <1>3, <1>4, <1>5, SeqEqual DEF l, a, b

LEMMA ScopeOfGrant ==
  ASSUME NEW g \in Grants, NEW run \in Runs
  PROVE  <<g.project, run>> \in Scopes
BY DEF Scopes

(* What a client may ask for next, in terms of its stream: it has seen the  *)
(* stream up to a place, and the rest of it follows.                        *)
LEMMA FollowsStream ==
  ASSUME PagesInv, NEW g \in Grants, NEW run \in Runs,
         NEW cursor \in DOMAIN trail \cup {None}, MayPage(g, run, cursor)
  PROVE  LET scope == <<g.project, run>>
             line == Line(events, appended, scope)
             n == Count(sequences, scope)
         IN  \E c \in Nat : /\ c <= n
                            /\ Seen(cursor) = SubSeq(line, 1, c)
                            /\ After(g, run, cursor) = SubSeq(line, c + 1, n)
<1> DEFINE scope == <<g.project, run>>
           line == Line(events, appended, scope)
           n == Count(sequences, scope)
           Rest(c) == {id \in DOMAIN events :
                         events[id].scope = scope /\ events[id].sequence >= c}
<1>1. scope \in Scopes
  BY ScopeOfGrant
<1>2. Ordered(events, scope, n, line)
  <2> HIDE DEF scope
  <2> QED BY <1>1 DEF PagesInv, StreamInv
<1>3. \A id \in DOMAIN events : events[id].scope = scope => events[id].sequence \in Nat
  <2> HIDE DEF scope, line, n
  <2> QED BY <1>2 DEF Ordered
<1>4. n \in Nat
  BY <1>2, Zenon DEF Ordered
<1>5. ASSUME NEW c \in Nat, c <= n
      PROVE  Sorted(Rest(c)) = SubSeq(line, c + 1, n)
  <2> HIDE DEF scope, line, n
  <2> QED BY <1>2, <1>5, SortedIsRest
<1>6. CASE cursor = None
  <2>1. Following(g, run, cursor) = Rest(0)
    BY <1>3, <1>6 DEF Following, InStream
  <2>2. After(g, run, cursor) = SubSeq(line, 0 + 1, n)
    <3>1. 0 <= n
      <4> HIDE DEF n
      <4> QED BY <1>4
    <3>2. Sorted(Rest(0)) = SubSeq(line, 0 + 1, n)
      BY <1>5, <3>1, Zenon
    <3> QED BY <2>1, <3>2, Zenon DEF After
  <2>3. Seen(cursor) = SubSeq(line, 1, 0)
    BY <1>6, SubSeqEmpty DEF Seen
  <2> HIDE DEF scope, line, n
  <2>4. 0 \in Nat /\ 0 <= n
    BY <1>4
  <2> QED BY <2>2, <2>3, <2>4 DEF scope, line, n
<1>7. CASE cursor # None
  <2>1. /\ cursor \in DOMAIN trail /\ Seen(cursor) = trail[cursor]
        /\ cursor = Cursor(g, run, cursor.sequence)
    BY <1>7 DEF MayPage, Decodes, Seen
  <2>2. PICK o \in Grants, r \in Runs, k \in Nat :
          Covers(cursor, trail[cursor], events, appended, sequences, o, r, k)
    BY <2>1 DEF PagesInv, TrailInv
  <2>3. cursor = Cursor(o, r, k)
    BY <2>2 DEF Covers
  <2>4. o.project = g.project /\ r = run /\ k = cursor.sequence
    <3>1. /\ cursor.project = g.project /\ cursor.run = run
      BY <2>1 DEF Cursor
    <3>2. cursor.project = o.project /\ cursor.run = r /\ cursor.sequence = k
      BY <2>3 DEF Cursor
    <3> QED BY <3>1, <3>2
  <2>5. k < n /\ trail[cursor] = SubSeq(line, 1, k + 1)
    BY <2>2, <2>4 DEF Covers
  <2>6. Following(g, run, cursor) = Rest(k + 1)
    <3>1. \A id \in DOMAIN events : events[id].scope = scope =>
             (events[id].sequence > k <=> events[id].sequence >= k + 1)
      BY <1>3
    <3> QED BY <1>7, <2>4, <3>1 DEF Following, InStream
  <2>7. k + 1 \in Nat /\ k + 1 <= n
    <3> HIDE DEF n
    <3> QED BY <1>4, <2>5
  <2>8. After(g, run, cursor) = SubSeq(line, (k + 1) + 1, n)
    <3>1. Sorted(Rest(k + 1)) = SubSeq(line, (k + 1) + 1, n)
      BY <1>5, <2>7, Zenon
    <3> QED BY <2>6, <3>1, Zenon DEF After
  <2> DEFINE c == k + 1
  <2>9. c \in Nat /\ c <= n /\ Seen(cursor) = SubSeq(line, 1, c)
        /\ After(g, run, cursor) = SubSeq(line, c + 1, n)
    BY <2>1, <2>5, <2>7, <2>8, Zenon
  <2> HIDE DEF c
  <2> QED BY <2>9
<1> QED BY <1>6, <1>7

LEMMA PartOfList ==
  ASSUME NEW U, NEW s \in Seq(U), NEW a \in Nat, NEW b \in Nat, a <= b, b <= Len(s)
  PROVE  /\ SubSeq(s, a + 1, b) \in Seq(U)
         /\ Len(SubSeq(s, a + 1, b)) = b - a
         /\ \A i \in 1..(b - a) : SubSeq(s, a + 1, b)[i] = s[a + i]
<1> DEFINE part == SubSeq(s, a + 1, b)
           l == Len(part)
<1>1. \A i \in (a + 1)..b : s[i] \in U
  <2>1. Len(s) \in Nat /\ \A i \in 1..Len(s) : s[i] \in U
    BY LenProperties, ElementOfSeq
  <2> QED BY <2>1
<1>2. /\ part \in Seq(U) /\ l = IF a + 1 <= b THEN b - (a + 1) + 1 ELSE 0
      /\ \A i \in 1..(b - (a + 1) + 1) : part[i] = s[(a + 1) + i - 1]
  <2>1. a + 1 \in Int /\ b \in Int
    OBVIOUS
  <2> QED BY <1>1, <2>1, SubSeqProperties
<1> HIDE DEF part, l
<1>3. l = b - a
  BY <1>2
<1>4. \A i \in 1..(b - a) : part[i] = s[a + i]
  <2> SUFFICES ASSUME NEW i \in 1..(b - a)  PROVE part[i] = s[a + i]
    OBVIOUS
  <2>1. i \in 1..(b - (a + 1) + 1) /\ (a + 1) + i - 1 = a + i
    OBVIOUS
  <2> QED BY <1>2, <2>1
<1> QED BY <1>2, <1>3, <1>4 DEF part, l

LEMMA StartOfList ==
  ASSUME NEW U, NEW s \in Seq(U), NEW k \in Nat, k <= Len(s)
  PROVE  /\ SubSeq(s, 1, k) \in Seq(U)
         /\ Len(SubSeq(s, 1, k)) = k
         /\ \A i \in 1..k : SubSeq(s, 1, k)[i] = s[i]
<1> DEFINE part == SubSeq(s, 0 + 1, k)
           l == Len(part)
<1>1. 0 \in Nat /\ 0 <= k
  OBVIOUS
<1>2. part \in Seq(U) /\ l = k - 0 /\ \A i \in 1..(k - 0) : part[i] = s[0 + i]
  BY <1>1, PartOfList
<1>3. part = SubSeq(s, 1, k)
  OBVIOUS
<1> HIDE DEF part, l
<1>4. l = k /\ \A i \in 1..k : part[i] = s[i]
  BY <1>2
<1> QED BY <1>2, <1>3, <1>4 DEF l

(* A page goes on in the stream where the client's cursor left it, and is   *)
(* the last just when it reaches the end.                                   *)
LEMMA PageGoesOn ==
  ASSUME PagesInv, NEW g \in Grants, NEW run \in Runs,
         NEW cursor \in DOMAIN trail \cup {None}, MayPage(g, run, cursor),
         NEW limit \in Limits
  PROVE  LET scope == <<g.project, run>>
             line == Line(events, appended, scope)
             n == Count(sequences, scope)
             page == PageOf(g, run, cursor, limit)
         IN  \E m \in Nat :
               /\ Seen(cursor) \o page = SubSeq(line, 1, m)
               /\ HasNext(g, run, cursor, limit) =>
                    m # 0 /\ m < n /\ events[page[Len(page)]].sequence = m - 1
               /\ ~HasNext(g, run, cursor, limit) => m = n
<1> DEFINE scope == <<g.project, run>>
           line == Line(events, appended, scope)
           n == Count(sequences, scope)
           page == PageOf(g, run, cursor, limit)
           seen == Seen(cursor)
           rest == After(g, run, cursor)
           U == DOMAIN events
<1>1. PICK c \in Nat : /\ c <= n
                       /\ seen = SubSeq(line, 1, c)
                       /\ rest = SubSeq(line, c + 1, n)
  BY FollowsStream
<1>2. Ordered(events, scope, n, line)
  <2>1. scope \in Scopes
    BY ScopeOfGrant
  <2> HIDE DEF scope
  <2> QED BY <2>1 DEF PagesInv, StreamInv
<1>3. page = SubSeq(rest, 1, Least(Len(rest), limit))
  BY Zenon DEF PageOf
<1>4. HasNext(g, run, cursor, limit) <=> Len(rest) > limit
  BY DEF HasNext
<1> HIDE DEF scope, line, n, page, seen, rest
<1>5. /\ n \in Nat /\ line \in Seq(U) /\ Len(line) = n
      /\ \A i \in 1..n : events[line[i]].sequence = i - 1
  BY <1>2 DEF Ordered
<1> HIDE DEF U
<1>6. rest \in Seq(U) /\ Len(rest) = n - c /\ \A i \in 1..(n - c) : rest[i] = line[c + i]
  BY <1>1, <1>5, PartOfList
<1>7. seen \in Seq(U) /\ Len(seen) = c /\ \A i \in 1..c : seen[i] = line[i]
  <2>1. c <= Len(line)
    BY <1>1, <1>5
  <2> QED BY <1>1, <1>5, <2>1, StartOfList
<1> DEFINE k == Least(n - c, limit)
           m == c + k
<1>8. limit \in Nat /\ limit # 0
  BY StoreAssumption
<1>9. k \in Nat /\ k <= n - c /\ k <= limit /\ k \in {n - c, limit}
  BY <1>1, <1>5, <1>8 DEF Least
<1>10. page = SubSeq(rest, 1, k)
  BY <1>3, <1>6
<1> HIDE DEF k
<1>11. page \in Seq(U) /\ Len(page) = k /\ \A i \in 1..k : page[i] = line[c + i]
  <2>1. k <= Len(rest)
    BY <1>6, <1>9
  <2>2. /\ page \in Seq(U) /\ Len(page) = k /\ \A i \in 1..k : page[i] = rest[i]
    BY <1>6, <1>9, <1>10, <2>1, StartOfList
  <2>3. \A i \in 1..k : i \in 1..(n - c)
    BY <1>1, <1>5, <1>9
  <2> QED BY <1>6, <2>2, <2>3
<1>12. m \in Nat /\ m <= n /\ m <= Len(line) /\ m = c + k
  BY <1>1, <1>5, <1>9
<1> HIDE DEF m
<1> DEFINE both == seen \o page
<1>13. /\ both \in Seq(U) /\ Len(both) = m
       /\ \A i \in 1..m : both[i] = line[i]
  <2>1. /\ both \in Seq(U) /\ Len(both) = c + k
        /\ \A i \in 1..(c + k) : both[i] = IF i <= c THEN seen[i] ELSE page[i - c]
    <3>1. seen \in Seq(U) /\ page \in Seq(U) /\ Len(seen) = c /\ Len(page) = k
      BY <1>7, <1>11
    <3>2. /\ both \in Seq(U) /\ Len(both) = Len(seen) + Len(page)
          /\ \A i \in 1..(Len(seen) + Len(page)) :
               both[i] = IF i <= Len(seen) THEN seen[i] ELSE page[i - Len(seen)]
      BY <3>1, ConcatProperties
    <3> QED BY <3>1, <3>2
  <2> HIDE DEF both
  <2>2. ASSUME NEW i \in 1..m  PROVE both[i] = line[i]
    <3>1. CASE i <= c
      BY <1>7, <1>12, <2>1, <3>1
    <3>2. CASE ~(i <= c)
      <4>1. i - c \in 1..k /\ c + (i - c) = i /\ i \in 1..(c + k)
        BY <1>9, <1>12, <3>2
      <4> QED BY <1>11, <2>1, <3>2, <4>1
    <3> QED BY <3>1, <3>2
  <2> QED BY <1>12, <2>1, <2>2
<1> HIDE DEF both
<1>14. both = SubSeq(line, 1, m)
  <2>1. m <= Len(both)
    BY <1>12, <1>13
  <2>2. SubSeq(both, 1, m) = SubSeq(line, 1, m)
    BY <1>5, <1>12, <1>13, <2>1, SameStart
  <2>3. SubSeq(both, 1, m) = both
    BY <1>13, SubSeqFull
  <2> QED BY <2>2, <2>3
<1>15. ASSUME Len(rest) > limit
       PROVE  m # 0 /\ m < n /\ events[page[Len(page)]].sequence = m - 1
  <2>1. n - c > limit
    BY <1>6, <1>15
  <2>2. k = limit
    BY <1>1, <1>5, <1>8, <1>9, <2>1
  <2>3. m # 0 /\ m < n /\ k \in 1..k /\ m \in 1..n
    BY <1>1, <1>5, <1>8, <1>12, <2>1, <2>2
  <2>4. page[Len(page)] = line[m]
    BY <1>11, <1>12, <2>3
  <2> QED BY <1>5, <2>3, <2>4
<1>16. ASSUME ~(Len(rest) > limit)  PROVE m = n
  <2>1. ~(n - c > limit)
    BY <1>6, <1>16
  <2>2. k = n - c
    BY <1>1, <1>5, <1>8, <1>9, <2>1
  <2> QED BY <1>1, <1>5, <1>12, <2>2
<1>17. /\ m \in Nat /\ seen \o page = SubSeq(line, 1, m)
       /\ HasNext(g, run, cursor, limit) =>
            m # 0 /\ m < n /\ events[page[Len(page)]].sequence = m - 1
       /\ ~HasNext(g, run, cursor, limit) => m = n
  BY <1>4, <1>12, <1>14, <1>15, <1>16 DEF both
<1> QED BY <1>17, Zenon DEF scope, line, n, page, seen

LEMMA PagesFollow ==
  ASSUME PagesInv
  PROVE  PagesArePrefixes
<1> SUFFICES ASSUME NEW g \in Grants, NEW run \in Runs,
                    NEW cursor \in DOMAIN trail \cup {None}, NEW limit \in Limits,
                    MayPage(g, run, cursor)
             PROVE  LET seen == Seen(cursor) \o PageOf(g, run, cursor, limit)
                    IN  IF HasNext(g, run, cursor, limit)
                          THEN IsPrefix(seen, Stream(g.project, run))
                          ELSE seen = Stream(g.project, run)
  BY Zenon DEF PagesArePrefixes
<1> DEFINE scope == <<g.project, run>>
           line == Line(events, appended, scope)
           n == Count(sequences, scope)
           both == Seen(cursor) \o PageOf(g, run, cursor, limit)
           U == DOMAIN events
<1>1. PICK m \in Nat :
        /\ both = SubSeq(line, 1, m)
        /\ HasNext(g, run, cursor, limit) => m < n
        /\ ~HasNext(g, run, cursor, limit) => m = n
  <2>1. \E m \in Nat :
          LET page == PageOf(g, run, cursor, limit)
          IN  /\ Seen(cursor) \o page = SubSeq(line, 1, m)
              /\ HasNext(g, run, cursor, limit) =>
                   m # 0 /\ m < n /\ events[page[Len(page)]].sequence = m - 1
              /\ ~HasNext(g, run, cursor, limit) => m = n
    BY PageGoesOn, Zenon
  <2> QED BY <2>1, Zenon
<1>2. Stream(g.project, run) = line
  BY DEF Stream, Line, InStream
<1>3. Ordered(events, scope, n, line)
  <2>1. scope \in Scopes
    BY ScopeOfGrant
  <2> HIDE DEF scope
  <2> QED BY <2>1 DEF PagesInv, StreamInv
<1> HIDE DEF scope, line, n, both
<1>4. n \in Nat /\ line \in Seq(U) /\ Len(line) = n
  BY <1>3 DEF Ordered
<1> HIDE DEF U
<1>5. CASE HasNext(g, run, cursor, limit)
  <2>1. m < n /\ m <= n /\ m <= Len(line)
    BY <1>1, <1>4, <1>5
  <2>2. both \in Seq(U) /\ Len(both) = m
    BY <1>1, <1>4, <2>1, StartOfList
  <2>3. SubSeq(both, 1, m) = both
    BY <2>2, SubSeqFull
  <2>4. IsPrefix(both, line)
    BY <1>1, <2>1, <2>2, <2>3 DEF IsPrefix
  <2> QED BY <1>2, <1>5, <2>4, Zenon DEF both
<1>6. CASE ~HasNext(g, run, cursor, limit)
  <2>1. both = line
    BY <1>1, <1>4, <1>6, SubSeqFull
  <2> QED BY <1>2, <1>6, <2>1, Zenon DEF both
<1> QED BY <1>5, <1>6

LEMMA PagesStart ==
  ASSUME Init
  PROVE  PagesInv
<1>1. events = <<>> /\ sequences = <<>> /\ appended = <<>> /\ trail = <<>>
  BY DEF Init
<1>2. ASSUME NEW scope \in Scopes
      PROVE  Ordered(events, scope, Count(sequences, scope), Line(events, appended, scope))
  <2> DEFINE S == {id \in DOMAIN events : events[id].scope = scope}
             line == Keeping(appended, S)
             U == DOMAIN events
  <2>1. appended \in Seq(U) /\ Len(appended) = 0 /\ U = {} /\ DOMAIN sequences = {}
    BY <1>1, EmptySeq
  <2>2. Count(sequences, scope) = 0
    BY <2>1 DEF Count
  <2> HIDE DEF S
  <2>3. line = <<>>
    <3> HIDE DEF U
    <3>1. line = <<>> <=> \A i \in 1..Len(appended) : appended[i] \notin S
      BY <2>1, KeepingTyped
    <3>2. \A i \in 1..Len(appended) : FALSE
      BY <2>1
    <3> QED BY <3>1, <3>2
  <2>4. line \in Seq(U) /\ Len(line) = 0
    BY <2>3, EmptySeq
  <2> HIDE DEF line
  <2>5. Ordered(events, scope, 0, line)
    BY <2>1, <2>4 DEF Ordered
  <2> QED BY <2>2, <2>5 DEF Line, line, S
<1>3. DOMAIN trail = {}
  BY <1>1
<1> QED BY <1>2, <1>3 DEF PagesInv, StreamInv, TrailInv

(* AppendEvent: late events do not invalidate a cursor.                     *)
LEMMA AppendKeepsPages ==
  ASSUME SoundInv, PagesInv, NEW e, AppendEvent(e)
  PROVE  PagesInv'
<1>1. StreamInv(events, appended, sequences)
  BY DEF PagesInv
<1>2. StreamInv(events', appended', sequences')
  <2>1. ASSUME NEW scope \in Scopes
        PROVE  Ordered(events', scope, Count(sequences', scope), Line(events', appended', scope))
    BY <1>1, <2>1, LineGrows
  <2> QED BY <2>1 DEF StreamInv
<1>3. trail' = trail
  BY DEF AppendEvent
<1>4. ASSUME NEW cursor \in DOMAIN trail
      PROVE  \E g \in Grants, run \in Runs, k \in Nat :
               Covers(cursor, trail[cursor], events', appended', sequences', g, run, k)
  <2>1. PICK g \in Grants, run \in Runs, k \in Nat :
          Covers(cursor, trail[cursor], events, appended, sequences, g, run, k)
    BY <1>4 DEF PagesInv, TrailInv
  <2> DEFINE scope == <<g.project, run>>
             line == Line(events, appended, scope)
             more == Line(events', appended', scope)
             n == Count(sequences, scope)
             m == Count(sequences', scope)
  <2>2. cursor = Cursor(g, run, k) /\ k < n /\ trail[cursor] = SubSeq(line, 1, k + 1)
    BY <2>1 DEF Covers
  <2>3. scope \in Scopes
    BY ScopeOfGrant
  <2>4. Ordered(events', scope, m, more) /\ n <= m /\ \A i \in 1..n : more[i] = line[i]
    <3> HIDE DEF scope
    <3> QED BY <1>1, <2>3, LineGrows
  <2>5. Ordered(events, scope, n, line)
    <3> HIDE DEF scope
    <3> QED BY <1>1, <2>3 DEF StreamInv
  <2> HIDE DEF scope, line, more, n, m
  <2>6. /\ n \in Nat /\ line \in Seq(DOMAIN events) /\ Len(line) = n
        /\ m \in Nat /\ more \in Seq(DOMAIN events') /\ Len(more) = m
    BY <2>4, <2>5 DEF Ordered
  <2> DEFINE a == k + 1
  <2>7. a \in Nat /\ a <= n /\ a <= m /\ k < m
    BY <2>2, <2>4, <2>6
  <2>8. SubSeq(more, 1, a) = SubSeq(line, 1, a)
    <3>1. \A i \in 1..a : line[i] = more[i]
      BY <2>4, <2>6, <2>7
    <3>2. a <= Len(line) /\ a <= Len(more)
      BY <2>6, <2>7
    <3> HIDE DEF a
    <3>3. SubSeq(line, 1, a) = SubSeq(more, 1, a)
      BY <2>6, <2>7, <3>1, <3>2, SameStart
    <3> QED BY <3>3
  <2>9. Covers(cursor, trail[cursor], events', appended', sequences', g, run, k)
    BY <2>2, <2>7, <2>8, Zenon DEF Covers, scope, line, more, n, m
  <2> QED BY <2>9
<1>5. TrailInv(events', appended', sequences', trail')
  BY <1>3, <1>4, Zenon DEF TrailInv
<1> QED BY <1>2, <1>5 DEF PagesInv

(* read_api::events: the cursor it hands out covers what was read.          *)
LEMMA ReadKeepsPages ==
  ASSUME PagesInv, NEW g \in Grants, NEW run \in Runs,
         NEW cursor \in DOMAIN trail \cup {None}, NEW limit \in Limits,
         ReadEvents(g, run, cursor, limit)
  PROVE  PagesInv'
<1> DEFINE scope == <<g.project, run>>
           line == Line(events, appended, scope)
           n == Count(sequences, scope)
           page == PageOf(g, run, cursor, limit)
           both == Seen(cursor) \o page
           ordinal == events[page[Len(page)]].sequence
           next == Cursor(g, run, ordinal)
<1>1. /\ MayPage(g, run, cursor) /\ HasNext(g, run, cursor, limit)
      /\ trail' = With(trail, next, both)
      /\ UNCHANGED <<events, appended, sequences>>
  BY DEF ReadEvents
<1>2. PICK m \in Nat : both = SubSeq(line, 1, m) /\ m # 0 /\ m < n /\ ordinal = m - 1
  <2>1. \E m \in Nat :
          /\ both = SubSeq(line, 1, m)
          /\ HasNext(g, run, cursor, limit) => m # 0 /\ m < n /\ ordinal = m - 1
          /\ ~HasNext(g, run, cursor, limit) => m = n
    BY <1>1, PageGoesOn, Zenon
  <2> QED BY <1>1, <2>1, Zenon
<1>3. n \in Nat
  <2>1. scope \in Scopes
    BY ScopeOfGrant
  <2> HIDE DEF scope
  <2> QED BY <2>1 DEF PagesInv, StreamInv, Ordered
<1>4. Covers(next, both, events, appended, sequences, g, run, ordinal) /\ ordinal \in Nat
  <2> HIDE DEF both, n, line, ordinal
  <2>1. ordinal \in Nat /\ ordinal < n /\ ordinal + 1 = m
    BY <1>2, <1>3
  <2>2. both = SubSeq(line, 1, ordinal + 1)
    BY <1>2, <2>1
  <2> QED BY <2>1, <2>2 DEF Covers, n, line
<1> HIDE DEF next, both, ordinal
<1>5. /\ DOMAIN trail' = DOMAIN trail \cup {next} /\ trail'[next] = both
      /\ \A x \in DOMAIN trail : x # next => trail'[x] = trail[x]
  BY <1>1 DEF With
<1>6. ASSUME NEW x \in DOMAIN trail'
      PROVE  \E o \in Grants, r \in Runs, k \in Nat :
               Covers(x, trail'[x], events, appended, sequences, o, r, k)
  <2>1. CASE x = next
    BY <1>4, <1>5, <2>1
  <2>2. CASE x # next
    BY <1>5, <1>6, <2>2 DEF PagesInv, TrailInv
  <2> QED BY <2>1, <2>2
<1>7. TrailInv(events, appended, sequences, trail')
  BY <1>6 DEF TrailInv
<1> QED BY <1>1, <1>7 DEF PagesInv

LEMMA PagesStep ==
  ASSUME SoundInv, PagesInv, [Next]_vars
  PROVE  PagesInv'
<1>1. ASSUME UNCHANGED <<events, sequences, appended, trail>>  PROVE PagesInv'
  BY <1>1 DEF PagesInv
<1> QED BY <1>1, AppendKeepsPages, ReadKeepsPages
        DEF Next, vars, Ingest, IngestContent, Revoke, Tick

(* read_api::events and Store::append_event: whoever follows cursors, and   *)
(* whatever is appended, revoked or expires meanwhile, what a client has    *)
(* seen is the start of its stream in the order it was appended, and all of *)
(* it where no cursor is handed out.                                        *)
THEOREM PagesFollowOneStream == Spec => []PagesArePrefixes
<1> DEFINE I == SoundInv /\ PagesInv
<1>1. Init => I
  BY SoundStart, PagesStart
<1>2. I /\ [Next]_vars => I'
  BY SoundStep, PagesStep
<1>3. I => PagesArePrefixes
  BY PagesFollow
<1> QED BY <1>1, <1>2, <1>3, PTL DEF Spec
=============================================================================
