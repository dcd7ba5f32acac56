------------------------ MODULE HarnessFacadeProofs -------------------------
(***************************************************************************)
(* The facade's bounded index and what it forwards, for any owner history, *)
(* any calls of any number of requests, and any capacities: no list is     *)
(* taken for complete without all that was learned, only issued references *)
(* reach the owner, and the authority sent with a patch is the one the     *)
(* owner asks for.                                                         *)
(***************************************************************************)
EXTENDS HarnessFacade, FiniteSetTheorems, SequenceTheorems, WellFoundedInduction, TLAPS

-----------------------------------------------------------------------------
(* The owner.                                                              *)

Contents == Objectives \cup {None}
DraftRecords == [version : Nat, base : Nat, objective : Contents, items : SUBSET Nat]
PreviewRecords == [draft : Nat, base : Nat, objective : Contents, items : SUBSET Nat]
ReceiptRecords == [key : Keys, active : Nat]

Owners ==
  [items : Nat, revisions : Seq(Contents), drafts : Seq(DraftRecords),
   previews : Seq(PreviewRecords), receipts : Seq(ReceiptRecords), enabled : BOOLEAN]

OwnerOk(o) ==
  /\ o \in Owners
  /\ o.items \in 1..MaxItemCount
  /\ \A d \in DOMAIN o.drafts : o.drafts[d].items \subseteq 1..o.items
  /\ \A i \in DOMAIN o.receipts : o.receipts[i].active \in DOMAIN o.revisions

(* What an owner has issued it keeps; a draft changes with its version.    *)
Grown(o, p) ==
  /\ \A k \in Kinds : Issued(o, k) <= Issued(p, k)
  /\ \A r \in DOMAIN o.revisions : p.revisions[r] = o.revisions[r]
  /\ \A d \in DOMAIN o.drafts :
       p.drafts[d] = o.drafts[d] \/ p.drafts[d].version > o.drafts[d].version

-----------------------------------------------------------------------------
(* The index.                                                              *)

Shaped(ix) ==
  /\ ix = [ids |-> ix.ids, complete |-> ix.complete, drafts |-> ix.drafts,
           contents |-> ix.contents]
  /\ ix.ids \in [Kinds -> Seq(Nat)] /\ ix.complete \in [Kinds -> BOOLEAN]

(* A list within its capacity that holds each id once.                     *)
Listing(s, capacity) == s \in Seq(Nat) /\ Len(s) <= capacity /\ IsInjective(s)

(* What was learned is listed if the list is complete; what is listed was  *)
(* issued.                                                                 *)
ListsOk(ix, o, le) ==
  /\ Shaped(ix)
  /\ \A k \in Kinds :
       /\ Listing(ix.ids[k], Capacity(k))
       /\ Holds(ix, k) \subseteq IssuedIds(o, k)
       /\ ix.complete[k] => le[k] \subseteq Holds(ix, k)
  /\ Listing(ix.contents, MaxEntries)

(* A cached draft is the owner's, or an earlier version of it.             *)
Cached(draft, d, o) ==
  /\ draft \in DraftRecords /\ d \in DOMAIN o.drafts
  /\ draft.items \subseteq 1..o.items
  /\ draft.version <= o.drafts[d].version
  /\ draft.version = o.drafts[d].version => draft = o.drafts[d]

DraftsOk(ix, o) ==
  /\ DOMAIN ix.drafts = Holds(ix, "draft")
  /\ \A d \in DOMAIN ix.drafts : Cached(ix.drafts[d], d, o)

IndexOk(ix, o, le) == ListsOk(ix, o, le) /\ DraftsOk(ix, o)

-----------------------------------------------------------------------------
(* The call being served.                                                  *)

ReadCalls ==
  [op : {"list"}, kind : Kinds]
  \cup [op : {"read"}, kind : {"draft", "preview", "receipt"}, id : Nat]
  \cup [op : {"recover_receipt"}, key : Keys]
  \cup [op : {"refresh_capabilities"}]

PatchCalls ==
  [op : {"apply_patch"}, draft : Nat, version : Nat, revision : Nat,
   change : {"put_note"}, to : {None}, objective : BOOLEAN]
  \cup [op : {"apply_patch"}, draft : Nat, version : Nat, revision : Nat,
        change : {"include_item", "remove_note", "restore_configuration"}, to : Nat,
        objective : BOOLEAN]
  \cup [op : {"apply_patch"}, draft : Nat, version : Nat, revision : Nat,
        change : {"set_objective"}, to : Objectives, objective : BOOLEAN]

MutationCalls ==
  [op : {"create_draft"}, revision : Nat]
  \cup PatchCalls
  \cup [op : {"create_preview"}, draft : Nat, version : Nat]
  \cup [op : {"pause"}, key : Keys, revision : Nat]
  \cup [op : {"commit", "resume"}, key : Keys, revision : Nat, preview : Nat]

CheckSteps ==
  {<<"capabilities">>, <<"permitted">>, <<"version">>, <<"note">>, <<"content">>,
   <<"authority">>, <<"owner">>}
  \cup ({"reload"} \X Kinds)
  \cup ({"known"} \X Kinds \X Nat)

ReadChecks == {"capabilities", "reload", "permitted", "known", "owner"}

(* What a check leaves behind for the checks and the call that follow.     *)
Passed(check, c, o, ix) ==
  /\ check[1] = "known" => check[3] \in IssuedIds(o, check[2])
  /\ check[1] = "version" =>
       c.draft \in DOMAIN ix.drafts /\ ix.drafts[c.draft].version = c.version
  /\ check[1] = "note" => c.to \in IssuedIds(o, "item")
  /\ check[1] = "authority" /\ Current(o, c) => (c.objective <=> NeedsObjective(o, c))

(* A mutation has passed its first n checks and has the others before it.  *)
Advanced(todo, c, n, o, ix) ==
  /\ Len(Checks(c)) = n + Len(todo)
  /\ \A i \in DOMAIN todo : todo[i] = Checks(c)[n + i]
  /\ \A i \in 1..n : Passed(Checks(c)[i], c, o, ix)

JobOk(j, o, ix) ==
  /\ j = [request |-> j.request, call |-> j.call, todo |-> j.todo]
  /\ j.call \in ReadCalls \cup MutationCalls
  /\ j.todo \in Seq(CheckSteps)
  /\ j.call \in ReadCalls => \A i \in DOMAIN j.todo : j.todo[i][1] \in ReadChecks
  /\ j.call \in MutationCalls =>
       \E n \in 0..Len(Checks(j.call)) : Advanced(j.todo, j.call, n, o, ix)

-----------------------------------------------------------------------------
(* The inductive invariant.                                                *)

Basics ==
  /\ caps \in {"unknown", "enabled", "disabled"}
  /\ answer.retryable \in BOOLEAN /\ answer.applied \in BOOLEAN
  /\ learned \in [Kinds -> SUBSET Nat]
  /\ \A k \in Kinds : learned[k] \subseteq IssuedIds(owner, k)

(* A trusted request is served under its own reference.                    *)
RequestInv ==
  /\ reference \in Requests \cup {None} /\ last \in Requests \cup {None}
  /\ trusted => /\ reference = last /\ sources \subseteq {reference}
                /\ job # None => job.request = reference

Core ==
  /\ Basics
  /\ OwnerOk(owner)
  /\ IndexOk(index, owner, learned)
  /\ job # None => JobOk(job, owner, index)
  /\ RetryableMeansUnapplied

FacadeInv == Core /\ RequestInv
-----------------------------------------------------------------------------
(* Induction over the natural numbers, for a set of them.                  *)

(* A set of naturals that is not empty has a least member.                 *)
LEMMA LeastNatural ==
  ASSUME NEW T, T \subseteq Nat, T # {}
  PROVE  \E m \in T : \A k \in T : m <= k
<1> DEFINE R == {ss \in Nat \X Nat : ss[1] < ss[2]}
<1>1. IsWellFoundedOn(R, Nat)
  BY NatLessThanWellFounded DEF OpToRel
<1>2. \A k, m \in Nat : k < m => <<k, m>> \in R
  OBVIOUS
<1> HIDE DEF R
<1>3. PICK m \in T : \A k \in T : <<k, m>> \notin R
  BY <1>1, WFMin
<1>4. ASSUME NEW k \in T  PROVE m <= k
  <2>1. k \in Nat /\ m \in Nat /\ ~(k < m)
    BY <1>2, <1>3
  <2> QED BY <2>1
<1> QED BY <1>4

(* Induction over Nat, on the set of the numbers a fact holds of.          *)
LEMMA InductionOverNat ==
  ASSUME NEW T, 0 \in T, \A n \in Nat : n \in T => n + 1 \in T
  PROVE  Nat \subseteq T
<1> SUFFICES ASSUME Nat \ T # {}  PROVE FALSE
  OBVIOUS
<1>1. PICK m \in Nat \ T : \A k \in Nat \ T : m <= k
  BY LeastNatural
<1>2. m # 0 /\ m - 1 \in Nat /\ ~(m <= m - 1)
  BY <1>1
<1>3. m - 1 \in T
  BY <1>1, <1>2
<1> QED BY <1>1, <1>2, <1>3

-----------------------------------------------------------------------------
(* One list of the index.                                                  *)

(* A position taken out of a list that holds each id once.                 *)
LEMMA RemovedAt ==
  ASSUME NEW s \in Seq(Nat), IsInjective(s), NEW at \in DOMAIN s
  PROVE  LET r == RemoveAt(s, at)
         IN  /\ r \in Seq(Nat) /\ Len(r) = Len(s) - 1 /\ IsInjective(r)
             /\ ToSet(r) = ToSet(s) \ {s[at]}
<1> DEFINE r == RemoveAt(s, at)
           n == Len(s)
           from == SubSeq(s, 1, at - 1)
           rest == SubSeq(s, at + 1, n)
<1>1. n \in Nat /\ at \in 1..n /\ DOMAIN s = 1..n /\ \A i \in 1..n : s[i] \in Nat
  OBVIOUS
<1>2. /\ from \in Seq(Nat) /\ Len(from) = at - 1
      /\ \A i \in 1..at - 1 : from[i] = s[i]
  <2> HIDE DEF n
  <2>1. 1 \in 1..n + 1 /\ at - 1 \in 1 - 1..n
    BY <1>1
  <2> QED BY <1>1, <2>1 DEF n
<1>3. /\ rest \in Seq(Nat) /\ Len(rest) = n - at
      /\ \A i \in 1..n - at : rest[i] = s[at + i]
  <2> DEFINE m == at + 1
  <2>1. m \in Int /\ n \in Int /\ (\A i \in m..n : s[i] \in Nat)
    <3>1. \A i \in m..n : i \in 1..n
      BY <1>1
    <3> QED BY <1>1, <3>1
  <2> DEFINE S == Nat
  <2> HIDE DEF m, n, S
  <2>2. /\ SubSeq(s, m, n) \in Seq(S) /\ Len(SubSeq(s, m, n)) = IF m <= n THEN n - m + 1 ELSE 0
        /\ \A i \in 1..n - m + 1 : SubSeq(s, m, n)[i] = s[m + i - 1]
    <3>1. \A i \in m..n : s[i] \in S
      BY <2>1 DEF S
    <3> QED BY <2>1, <3>1, SubSeqProperties
  <2>3. rest = SubSeq(s, m, n)
    BY DEF m, n
  <2> HIDE DEF rest
  <2>4. (IF m <= n THEN n - m + 1 ELSE 0) = n - at /\ n - m + 1 = n - at
    BY <1>1 DEF m
  <2>5. \A i \in 1..n - at : m + i - 1 = at + i
    BY <1>1 DEF m
  <2> QED BY <2>2, <2>3, <2>4, <2>5 DEF S
<1>4. r = from \o rest
  BY DEF RemoveAt
<1> HIDE DEF from, rest, r, n
<1>5. /\ r \in Seq(Nat) /\ Len(r) = n - 1
      /\ \A i \in 1..n - 1 : r[i] = IF i < at THEN s[i] ELSE s[i + 1]
  <2> DEFINE S == Nat
  <2>9. from \in Seq(S) /\ rest \in Seq(S)
    BY <1>2, <1>3
  <2> HIDE DEF S
  <2>0. /\ from \o rest \in Seq(S) /\ Len(from \o rest) = Len(from) + Len(rest)
        /\ \A i \in 1..Len(from) + Len(rest) :
             (from \o rest)[i] = IF i <= Len(from) THEN from[i] ELSE rest[i - Len(from)]
    BY <2>9, ConcatProperties
  <2>1. /\ r \in Seq(Nat) /\ Len(r) = (at - 1) + (n - at)
        /\ \A i \in 1..(at - 1) + (n - at) :
             r[i] = IF i <= at - 1 THEN from[i] ELSE rest[i - (at - 1)]
    BY <1>2, <1>3, <1>4, <2>0 DEF S
  <2>2. Len(r) = n - 1
    BY <1>1, <2>1
  <2>3. ASSUME NEW i \in 1..n - 1  PROVE r[i] = IF i < at THEN s[i] ELSE s[i + 1]
    <3>1. CASE i < at
      <4>1. i \in 1..at - 1 /\ i <= at - 1 /\ i \in 1..(at - 1) + (n - at)
        BY <1>1, <3>1
      <4> QED BY <1>2, <2>1, <3>1, <4>1
    <3>2. CASE ~(i < at)
      <4>1. i - (at - 1) \in 1..n - at /\ at + (i - (at - 1)) = i + 1
            /\ ~(i <= at - 1) /\ i \in 1..(at - 1) + (n - at)
        BY <1>1, <3>2
      <4>2. r[i] = rest[i - (at - 1)]
        BY <2>1, <4>1
      <4> QED BY <1>3, <3>2, <4>1, <4>2
    <3> QED BY <3>1, <3>2
  <2> QED BY <2>1, <2>2, <2>3
<1>6. DOMAIN r = 1..n - 1
  BY <1>1, <1>5
<1>7. IsInjective(r)
  <2> SUFFICES ASSUME NEW i \in 1..n - 1, NEW j \in 1..n - 1, r[i] = r[j]
               PROVE  i = j
    BY <1>6 DEF IsInjective
  <2>1. \A k, m \in 1..n : s[k] = s[m] => k = m
    BY <1>1 DEF IsInjective
  <2>2. i \in 1..n /\ j \in 1..n /\ i + 1 \in 1..n /\ j + 1 \in 1..n
    BY <1>1
  <2>3. CASE i < at /\ j < at
    BY <1>5, <2>1, <2>2, <2>3
  <2>4. CASE i < at /\ ~(j < at)
    <3>1. s[i] = s[j + 1]
      BY <1>5, <2>4
    <3>2. i = j + 1
      BY <2>1, <2>2, <3>1
    <3> QED BY <1>1, <2>4, <3>2
  <2>5. CASE ~(i < at) /\ j < at
    <3>1. s[i + 1] = s[j]
      BY <1>5, <2>5
    <3>2. i + 1 = j
      BY <2>1, <2>2, <3>1
    <3> QED BY <1>1, <2>5, <3>2
  <2>6. CASE ~(i < at) /\ ~(j < at)
    <3>1. s[i + 1] = s[j + 1]
      BY <1>5, <2>6
    <3>2. i + 1 = j + 1
      BY <2>1, <2>2, <3>1
    <3> QED BY <3>2
  <2> QED BY <2>3, <2>4, <2>5, <2>6
<1>8. ToSet(r) = ToSet(s) \ {s[at]}
  <2>1. \A k, m \in 1..n : s[k] = s[m] => k = m
    BY <1>1 DEF IsInjective
  <2>2. ASSUME NEW i \in 1..n - 1
        PROVE  \E k \in 1..n : k # at /\ r[i] = s[k]
    <3>1. CASE i < at
      BY <1>1, <1>5, <3>1, i \in 1..n
    <3>2. CASE ~(i < at)
      BY <1>1, <1>5, <3>2, i + 1 \in 1..n, i + 1 # at
    <3> QED BY <3>1, <3>2
  <2>3. ASSUME NEW k \in 1..n, k # at
        PROVE  \E i \in 1..n - 1 : r[i] = s[k]
    <3>1. CASE k < at
      BY <1>1, <1>5, <3>1, k \in 1..n - 1
    <3>2. CASE ~(k < at)
      BY <1>1, <1>5, <2>3, <3>2, k - 1 \in 1..n - 1, ~(k - 1 < at), (k - 1) + 1 = k
    <3> QED BY <3>1, <3>2
  <2>4. ToSet(r) = {r[i] : i \in 1..n - 1} /\ ToSet(s) = {s[k] : k \in 1..n}
    BY <1>1, <1>6 DEF ToSet
  <2>5. ASSUME NEW v \in ToSet(r)  PROVE v \in ToSet(s) \ {s[at]}
    <3>1. PICK i \in 1..n - 1 : v = r[i]
      BY <2>4, <2>5
    <3>2. PICK k \in 1..n : k # at /\ r[i] = s[k]
      BY <2>2
    <3> QED BY <1>1, <2>1, <2>4, <3>1, <3>2
  <2>6. ASSUME NEW v \in ToSet(s) \ {s[at]}  PROVE v \in ToSet(r)
    <3>1. PICK k \in 1..n : v = s[k]
      BY <2>4, <2>6
    <3>2. PICK i \in 1..n - 1 : r[i] = s[k]
      BY <2>3, <2>6, <3>1
    <3> QED BY <2>4, <3>1, <3>2
  <2> QED BY <2>5, <2>6
<1>9. /\ r \in Seq(Nat) /\ Len(r) = Len(s) - 1 /\ IsInjective(r)
      /\ ToSet(r) = ToSet(s) \ {s[at]}
  BY <1>5, <1>7, <1>8 DEF n
<1> QED BY <1>9 DEF r

(* retain of all but one id.                                               *)
LEMMA WithoutOne ==
  ASSUME NEW s \in Seq(Nat), IsInjective(s), NEW x \in Nat
  PROVE  /\ Without(s, x) \in Seq(Nat) /\ IsInjective(Without(s, x))
         /\ ToSet(Without(s, x)) = ToSet(s) \ {x}
         /\ Len(Without(s, x)) = IF x \in ToSet(s) THEN Len(s) - 1 ELSE Len(s)
<1>1. CASE x \in ToSet(s)
  <2> DEFINE at == CHOOSE i \in DOMAIN s : s[i] = x
  <2>1. \E i \in DOMAIN s : s[i] = x
    BY <1>1 DEF ToSet
  <2>2. at \in DOMAIN s /\ s[at] = x
    BY <2>1, Zenon
  <2>3. Without(s, x) = RemoveAt(s, at)
    BY <1>1, Zenon DEF Without
  <2> HIDE DEF at
  <2>4. LET r == RemoveAt(s, at)
        IN  /\ r \in Seq(Nat) /\ Len(r) = Len(s) - 1 /\ IsInjective(r)
            /\ ToSet(r) = ToSet(s) \ {s[at]}
    BY <2>2, RemovedAt
  <2> QED BY <1>1, <2>2, <2>3, <2>4, Zenon
<1>2. CASE x \notin ToSet(s)
  <2>1. Without(s, x) = s
    BY <1>2, Zenon DEF Without
  <2> QED BY <1>2, <2>1, Zenon
<1> QED BY <1>1, <1>2

(* A new id at the back of a list that does not hold it.                   *)
LEMMA AppendedId ==
  ASSUME NEW s \in Seq(Nat), IsInjective(s), NEW x \in Nat, x \notin ToSet(s)
  PROVE  LET t == Append(s, x)
         IN  /\ t \in Seq(Nat) /\ Len(t) = Len(s) + 1 /\ IsInjective(t)
             /\ t[Len(t)] = x /\ ToSet(t) = ToSet(s) \cup {x}
<1> DEFINE t == Append(s, x)
           n == Len(s)
<1>1. n \in Nat /\ DOMAIN s = 1..n /\ \A i \in 1..n : s[i] \in Nat /\ s[i] # x
  BY DEF ToSet
<1>2. /\ t \in Seq(Nat) /\ Len(t) = n + 1 /\ DOMAIN t = 1..n + 1
      /\ \A i \in 1..n : t[i] = s[i]
      /\ t[n + 1] = x
  OBVIOUS
<1> HIDE DEF t, n
<1>3. IsInjective(t)
  <2> SUFFICES ASSUME NEW i \in 1..n + 1, NEW j \in 1..n + 1, t[i] = t[j]  PROVE i = j
    BY <1>2 DEF IsInjective
  <2>1. \A k, m \in 1..n : s[k] = s[m] => k = m
    BY <1>1 DEF IsInjective
  <2>2. CASE i \in 1..n /\ j \in 1..n
    BY <1>2, <2>1, <2>2
  <2>3. CASE i \notin 1..n \/ j \notin 1..n
    <3>1. i = n + 1 \/ j = n + 1
      BY <1>1, <2>3
    <3>2. i \in 1..n \/ i = n + 1
      BY <1>1
    <3>3. j \in 1..n \/ j = n + 1
      BY <1>1
    <3> QED BY <1>1, <1>2, <3>1, <3>2, <3>3
  <2> QED BY <2>2, <2>3
<1>4. ToSet(t) = ToSet(s) \cup {x}
  <2>1. \A i \in 1..n + 1 : i \in 1..n \/ i = n + 1
    BY <1>1
  <2>2. \A i \in 1..n : i \in 1..n + 1
    BY <1>1
  <2>3. n + 1 \in 1..n + 1
    BY <1>1
  <2> QED BY <1>1, <1>2, <2>1, <2>2, <2>3 DEF ToSet
<1>5. /\ t \in Seq(Nat) /\ Len(t) = Len(s) + 1 /\ IsInjective(t)
      /\ t[Len(t)] = x /\ ToSet(t) = ToSet(s) \cup {x}
  BY <1>2, <1>3, <1>4 DEF n
<1> QED BY <1>5 DEF t

(* Without its oldest id a list of two or more keeps the newest.           *)
LEMMA TailOfList ==
  ASSUME NEW t \in Seq(Nat), IsInjective(t), Len(t) > 1
  PROVE  /\ Tail(t) \in Seq(Nat) /\ Len(Tail(t)) = Len(t) - 1 /\ IsInjective(Tail(t))
         /\ ToSet(Tail(t)) \subseteq ToSet(t) /\ t[Len(t)] \in ToSet(Tail(t))
<1> DEFINE n == Len(t)
           r == Tail(t)
<1>1. n \in Nat /\ n > 1 /\ DOMAIN t = 1..n
  OBVIOUS
<1>2. /\ r \in Seq(Nat) /\ Len(r) = n - 1 /\ DOMAIN r = 1..n - 1
      /\ \A i \in 1..n - 1 : r[i] = t[i + 1]
  OBVIOUS
<1> HIDE DEF n, r
<1>3. \A i \in 1..n - 1 : i + 1 \in 1..n
  BY <1>1
<1>4. IsInjective(r)
  <2> SUFFICES ASSUME NEW i \in 1..n - 1, NEW j \in 1..n - 1, r[i] = r[j]  PROVE i = j
    BY <1>2 DEF IsInjective
  <2>1. i + 1 = j + 1
    BY <1>1, <1>2, <1>3 DEF IsInjective
  <2> QED BY <2>1
<1>5. ToSet(r) \subseteq ToSet(t)
  BY <1>1, <1>2, <1>3 DEF ToSet
<1>6. t[n] \in ToSet(r)
  <2>1. n - 1 \in 1..n - 1 /\ (n - 1) + 1 = n
    BY <1>1
  <2>2. r[n - 1] = t[n]
    BY <1>2, <2>1
  <2> QED BY <1>2, <2>1, <2>2 DEF ToSet
<1> QED BY <1>2, <1>4, <1>5, <1>6 DEF n, r

(* bounded_set_insert: the new id is there, the bound holds, and ids are   *)
(* lost only by an eviction.                                               *)
LEMMA InsertedId ==
  ASSUME NEW capacity \in Nat \ {0}, NEW s, Listing(s, capacity), NEW x \in Nat
  PROVE  LET t == Inserted(s, x, capacity)
         IN  /\ Listing(t, capacity) /\ x \in ToSet(t)
             /\ ToSet(t) \subseteq ToSet(s) \cup {x}
             /\ ~Evicts(s, x, capacity) => ToSet(t) = ToSet(s) \cup {x}
<1> DEFINE w == Without(s, x)
           u == Append(w, x)
           t == Inserted(s, x, capacity)
<1>1. s \in Seq(Nat) /\ Len(s) \in Nat /\ Len(s) <= capacity /\ IsInjective(s)
  BY DEF Listing
<1>2. /\ w \in Seq(Nat) /\ IsInjective(w) /\ ToSet(w) = ToSet(s) \ {x}
      /\ Len(w) = IF x \in ToSet(s) THEN Len(s) - 1 ELSE Len(s)
  BY <1>1, WithoutOne
<1>3. t = IF Len(u) > capacity THEN Tail(u) ELSE u
  BY DEF Inserted, Bounded
<1> HIDE DEF w, t
<1>4. /\ u \in Seq(Nat) /\ Len(u) = Len(w) + 1 /\ IsInjective(u)
      /\ u[Len(u)] = x /\ ToSet(u) = ToSet(w) \cup {x}
  BY <1>2, AppendedId
<1> HIDE DEF u
<1>5. ToSet(u) = ToSet(s) \cup {x}
  BY <1>2, <1>4
<1>6. CASE Len(u) > capacity
  <2>1. x \notin ToSet(s) /\ Len(s) = capacity /\ Len(u) = capacity + 1
    BY <1>1, <1>2, <1>4, <1>6
  <2>2. Evicts(s, x, capacity)
    BY <2>1 DEF Evicts
  <2>3. Len(u) > 1
    BY <2>1
  <2>4. /\ Tail(u) \in Seq(Nat) /\ Len(Tail(u)) = Len(u) - 1 /\ IsInjective(Tail(u))
        /\ ToSet(Tail(u)) \subseteq ToSet(u) /\ u[Len(u)] \in ToSet(Tail(u))
    BY <1>4, <2>3, TailOfList
  <2>5. t = Tail(u)
    BY <1>3, <1>6
  <2>6. Listing(t, capacity)
    BY <2>1, <2>4, <2>5 DEF Listing
  <2>7. x \in ToSet(t) /\ ToSet(t) \subseteq ToSet(s) \cup {x}
    BY <1>4, <1>5, <2>4, <2>5
  <2> QED BY <2>2, <2>6, <2>7 DEF t
<1>7. CASE ~(Len(u) > capacity)
  <2>1. t = u
    BY <1>3, <1>7
  <2>2. Listing(t, capacity)
    BY <1>1, <1>2, <1>4, <1>7, <2>1 DEF Listing
  <2> QED BY <1>5, <2>1, <2>2 DEF t
<1> QED BY <1>6, <1>7

-----------------------------------------------------------------------------
(* One id of a kind.                                                       *)

(* The fields that caching an id changes.                                  *)
LEMMA CacheIdFields ==
  ASSUME NEW ix, Shaped(ix), NEW k \in Kinds, NEW x
  PROVE  LET n == CacheId(ix, k, x)
         IN  /\ n.ids = [ix.ids EXCEPT ![k] = Inserted(ix.ids[k], x, Capacity(k))]
             /\ n.complete = [ix.complete EXCEPT
                                ![k] = ix.complete[k] /\ ~Evicts(ix.ids[k], x, Capacity(k))]
             /\ n.drafts = ix.drafts /\ n.contents = ix.contents
             /\ n = [ids |-> n.ids, complete |-> n.complete, drafts |-> n.drafts,
                     contents |-> n.contents]
<1> DEFINE a == ix.ids
           b == ix.complete
           c == ix.drafts
           d == ix.contents
           i == Inserted(a[k], x, Capacity(k))
           e == b[k] /\ ~Evicts(a[k], x, Capacity(k))
<1>1. ix = [ids |-> a, complete |-> b, drafts |-> c, contents |-> d]
  BY DEF Shaped
<1>2. CacheId(ix, k, x) = [ix EXCEPT !.ids = [a EXCEPT ![k] = i],
                                     !.complete = [b EXCEPT ![k] = e]]
  BY DEF CacheId
<1> HIDE DEF a, b, c, d, i, e
<1>3. CacheId(ix, k, x) = [ids |-> [a EXCEPT ![k] = i], complete |-> [b EXCEPT ![k] = e],
                           drafts |-> c, contents |-> d]
  BY <1>1, <1>2
<1> DEFINE n == CacheId(ix, k, x)
<1> HIDE DEF n
<1>4. /\ n.ids = [a EXCEPT ![k] = i] /\ n.complete = [b EXCEPT ![k] = e]
      /\ n.drafts = c /\ n.contents = d
      /\ n = [ids |-> n.ids, complete |-> n.complete, drafts |-> n.drafts,
              contents |-> n.contents]
  BY <1>3 DEF n
<1> QED BY <1>4 DEF n, a, b, c, d, i, e

(* The capacities of the lists.                                            *)
LEMMA Capacities == \A k \in Kinds : Capacity(k) \in Nat \ {0}
BY FacadeAssumption DEF Capacity

(* Fewer things learned are known as well.                                 *)
LEMMA FewerLearned ==
  ASSUME NEW ix, NEW o, NEW le, NEW less, ListsOk(ix, o, le),
         \A k \in Kinds : less[k] \subseteq le[k]
  PROVE  ListsOk(ix, o, less)
BY DEF ListsOk

(* Caching an issued id keeps the lists sound, and shows that id.          *)
LEMMA CacheIdLists ==
  ASSUME NEW ix, NEW o, NEW le, ListsOk(ix, o, le), NEW k \in Kinds,
         NEW x \in IssuedIds(o, k), NEW more,
         \A j \in Kinds : more[j] \subseteq le[j] \cup (IF j = k THEN {x} ELSE {})
  PROVE  LET n == CacheId(ix, k, x)
         IN  /\ ListsOk(n, o, more)
             /\ n.drafts = ix.drafts /\ n.contents = ix.contents
             /\ \A j \in Kinds : j # k => n.ids[j] = ix.ids[j]
             /\ x \in Holds(n, k) /\ Holds(n, k) \subseteq Holds(ix, k) \cup {x}
<1> DEFINE n == CacheId(ix, k, x)
           cap == Capacity(k)
           s == ix.ids[k]
           t == Inserted(s, x, cap)
           out == Evicts(s, x, cap)
<1>1. x \in Nat
  BY DEF IssuedIds
<1>2. Shaped(ix) /\ ix.ids \in [Kinds -> Seq(Nat)] /\ ix.complete \in [Kinds -> BOOLEAN]
  BY DEF ListsOk, Shaped
<1>3. /\ n.ids = [ix.ids EXCEPT ![k] = t]
      /\ n.complete = [ix.complete EXCEPT ![k] = ix.complete[k] /\ ~out]
      /\ n.drafts = ix.drafts /\ n.contents = ix.contents
      /\ n = [ids |-> n.ids, complete |-> n.complete, drafts |-> n.drafts,
              contents |-> n.contents]
  BY <1>2, CacheIdFields
<1>4. cap \in Nat \ {0} /\ Listing(s, cap)
  BY Capacities DEF ListsOk
<1> HIDE DEF n, cap, s, t, out
<1>5. /\ Listing(t, cap) /\ x \in ToSet(t)
      /\ ToSet(t) \subseteq ToSet(s) \cup {x}
      /\ ~out => ToSet(t) = ToSet(s) \cup {x}
  BY <1>1, <1>4, InsertedId DEF t, out
<1>6. /\ n.ids[k] = t /\ (n.complete[k] <=> ix.complete[k] /\ ~out)
      /\ \A j \in Kinds : j # k => n.ids[j] = ix.ids[j] /\ n.complete[j] = ix.complete[j]
  BY <1>2, <1>3
<1>7. Shaped(n)
  <2>1. t \in Seq(Nat)
    BY <1>5 DEF Listing
  <2>2. n.ids \in [Kinds -> Seq(Nat)]
    BY <1>2, <1>3, <2>1
  <2>3. n.complete \in [Kinds -> BOOLEAN]
    BY <1>2, <1>3
  <2> QED BY <1>3, <2>2, <2>3 DEF Shaped
<1>8. x \in Holds(n, k) /\ Holds(n, k) \subseteq Holds(ix, k) \cup {x}
  BY <1>5, <1>6 DEF Holds, s
<1>9. ASSUME NEW j \in Kinds
      PROVE  /\ Listing(n.ids[j], Capacity(j)) /\ Holds(n, j) \subseteq IssuedIds(o, j)
             /\ n.complete[j] => more[j] \subseteq Holds(n, j)
  <2>1. CASE j = k
    <3>1. Listing(n.ids[j], Capacity(j))
      BY <1>5, <1>6, <2>1 DEF cap
    <3>2. Holds(n, j) \subseteq IssuedIds(o, j)
      BY <1>8, <2>1 DEF ListsOk
    <3>3. ASSUME n.complete[j]  PROVE more[j] \subseteq Holds(n, j)
      <4>1. ix.complete[k] /\ ~out
        BY <1>6, <2>1, <3>3
      <4>2. le[k] \subseteq Holds(ix, k)
        BY <4>1 DEF ListsOk
      <4>3. Holds(n, k) = Holds(ix, k) \cup {x}
        BY <1>5, <1>6, <4>1 DEF Holds, s
      <4> QED BY <2>1, <4>2, <4>3
    <3> QED BY <3>1, <3>2, <3>3
  <2>2. CASE j # k
    <3>1. Holds(n, j) = Holds(ix, j)
      BY <1>6, <2>2 DEF Holds
    <3>2. more[j] \subseteq le[j]
      BY <2>2
    <3> QED BY <1>6, <2>2, <3>1, <3>2 DEF ListsOk
  <2> QED BY <2>1, <2>2
<1>10. ListsOk(n, o, more)
  BY <1>3, <1>7, <1>9 DEF ListsOk
<1> QED BY <1>3, <1>6, <1>8, <1>10 DEF n

(* Of a kind other than drafts, it keeps the whole index sound.            *)
LEMMA CacheIdKeeps ==
  ASSUME NEW ix, NEW o, NEW le, IndexOk(ix, o, le), NEW k \in Kinds, k # "draft",
         NEW x \in IssuedIds(o, k), NEW more,
         \A j \in Kinds : more[j] \subseteq le[j] \cup (IF j = k THEN {x} ELSE {})
  PROVE  LET n == CacheId(ix, k, x)
         IN  IndexOk(n, o, more) /\ n.drafts = ix.drafts /\ x \in Holds(n, k)
<1> DEFINE n == CacheId(ix, k, x)
<1>1. ListsOk(ix, o, le)
  BY DEF IndexOk
<1>2. /\ ListsOk(n, o, more) /\ n.drafts = ix.drafts
      /\ \A j \in Kinds : j # k => n.ids[j] = ix.ids[j]
      /\ x \in Holds(n, k)
  BY <1>1, CacheIdLists
<1> HIDE DEF n
<1>3. Holds(n, "draft") = Holds(ix, "draft")
  BY <1>2 DEF Holds, Kinds
<1>4. DraftsOk(n, o)
  BY <1>2, <1>3 DEF IndexOk, DraftsOk
<1>5. IndexOk(n, o, more) /\ n.drafts = ix.drafts /\ x \in Holds(n, k)
  BY <1>2, <1>4 DEF IndexOk
<1> QED BY <1>5 DEF n

-----------------------------------------------------------------------------
(* The items of a draft.                                                   *)

ItemsIn(ix, items, m, f) ==
  f = [n \in 0..m |->
         IF n = 0 THEN ix
         ELSE IF n \in items THEN CacheId(f[n - 1], "item", n) ELSE f[n - 1]]

(* The recursive function of CacheItems is defined on every prefix.        *)
LEMMA ItemsExist ==
  ASSUME NEW ix, NEW items, NEW m \in Nat
  PROVE  \E f : ItemsIn(ix, items, m, f)
<1> DEFINE T == {n \in Nat : \E f : ItemsIn(ix, items, n, f)}
<1>1. 0 \in T
  <2>1. ItemsIn(ix, items, 0, [i \in 0..0 |-> ix])
    BY DEF ItemsIn
  <2> QED BY <2>1
<1>2. ASSUME NEW n \in Nat, n \in T  PROVE n + 1 \in T
  <2>1. PICK f : ItemsIn(ix, items, n, f)
    BY <1>2
  <2> DEFINE e == IF n + 1 \in items THEN CacheId(f[n], "item", n + 1) ELSE f[n]
             g == [i \in 0..(n + 1) |-> IF i = n + 1 THEN e ELSE f[i]]
  <2>2. \A i \in 0..n : f[i] = IF i = 0 THEN ix
          ELSE IF i \in items THEN CacheId(f[i - 1], "item", i) ELSE f[i - 1]
    BY <2>1 DEF ItemsIn
  <2>3. \A i \in 0..(n + 1) : g[i] = IF i = 0 THEN ix
          ELSE IF i \in items THEN CacheId(g[i - 1], "item", i) ELSE g[i - 1]
    BY <2>2
  <2>4. ItemsIn(ix, items, n + 1, g)
    BY <2>3 DEF ItemsIn
  <2> QED BY <2>4
<1>3. m \in T
  BY <1>1, <1>2, InductionOverNat
<1> QED BY <1>3

(* CacheItems, one item at a time.                                         *)
LEMMA ItemsUnrolled ==
  ASSUME NEW ix, NEW items
  PROVE  \E f : ItemsIn(ix, items, MaxItemCount, f) /\ CacheItems(ix, items) = f[MaxItemCount]
<1> DEFINE g == CHOOSE h : ItemsIn(ix, items, MaxItemCount, h)
<1>1. ItemsIn(ix, items, MaxItemCount, g)
  <2>1. \E h : ItemsIn(ix, items, MaxItemCount, h)
    BY ItemsExist, FacadeAssumption
  <2> QED BY <2>1, Zenon
<1>2. CacheItems(ix, items) = g[MaxItemCount]
  BY Zenon DEF CacheItems, ItemsIn
<1> QED BY <1>1, <1>2

(* Caching issued items keeps the index sound, and shows them.             *)
LEMMA CacheItemsKeeps ==
  ASSUME NEW ix, NEW o, NEW le, IndexOk(ix, o, le), OwnerOk(o),
         NEW items, items \subseteq IssuedIds(o, "item"), NEW more,
         \A j \in Kinds : more[j] \subseteq le[j] \cup (IF j = "item" THEN items ELSE {})
  PROVE  LET n == CacheItems(ix, items)
         IN  IndexOk(n, o, more) /\ n.drafts = ix.drafts
<1>1. PICK f : ItemsIn(ix, items, MaxItemCount, f) /\ CacheItems(ix, items) = f[MaxItemCount]
  BY ItemsUnrolled
<1>2. \A i \in 0..MaxItemCount : f[i] = IF i = 0 THEN ix
        ELSE IF i \in items THEN CacheId(f[i - 1], "item", i) ELSE f[i - 1]
  BY <1>1 DEF ItemsIn
<1> DEFINE upTo(n) == [j \in Kinds |-> IF j = "item" THEN le[j] \cup (items \cap 1..n) ELSE le[j]]
           Kept(n) == IndexOk(f[n], o, upTo(n)) /\ f[n].drafts = ix.drafts
           T == {n \in Nat : n <= MaxItemCount => Kept(n)}
<1>3. MaxItemCount \in Nat /\ "item" \in Kinds
  BY FacadeAssumption DEF Kinds
<1>4. 0 \in T
  <2>1. f[0] = ix
    BY <1>2, <1>3
  <2>2. \A j \in Kinds : upTo(0)[j] \subseteq le[j]
    OBVIOUS
  <2> HIDE DEF upTo
  <2>3. IndexOk(ix, o, upTo(0))
    BY <2>2, FewerLearned DEF IndexOk
  <2> QED BY <2>1, <2>3
<1>5. ASSUME NEW n \in Nat, n \in T  PROVE n + 1 \in T
  <2> SUFFICES ASSUME n + 1 <= MaxItemCount  PROVE Kept(n + 1)
    <3> HIDE DEF Kept
    <3> QED OBVIOUS
  <2>1. Kept(n) /\ n + 1 \in 0..MaxItemCount /\ n + 1 # 0 /\ (n + 1) - 1 = n
    BY <1>3, <1>5
  <2>2. f[n + 1] = IF n + 1 \in items THEN CacheId(f[n], "item", n + 1) ELSE f[n]
    BY <1>2, <2>1
  <2>3. \A j \in Kinds :
          upTo(n + 1)[j] \subseteq upTo(n)[j]
            \cup (IF j = "item" THEN items \cap {n + 1} ELSE {})
    <3>1. 1..n + 1 \subseteq 1..n \cup {n + 1}
      OBVIOUS
    <3> QED BY <3>1
  <2> HIDE DEF upTo
  <2>4. CASE n + 1 \in items
    <3>1. n + 1 \in IssuedIds(o, "item")
      BY <2>4
    <3>2. \A j \in Kinds :
            upTo(n + 1)[j] \subseteq upTo(n)[j] \cup (IF j = "item" THEN {n + 1} ELSE {})
      BY <2>3
    <3>3. IndexOk(f[n], o, upTo(n)) /\ "item" # "draft" /\ f[n].drafts = ix.drafts
      BY <2>1
    <3> DEFINE g == CacheId(f[n], "item", n + 1)
               a == upTo(n)
               b == upTo(n + 1)
               i == n + 1
    <3> HIDE DEF a, b, i
    <3>4. IndexOk(CacheId(f[n], "item", i), o, b) /\ CacheId(f[n], "item", i).drafts = f[n].drafts
      BY <1>3, <3>1, <3>2, <3>3, CacheIdKeeps DEF a, b, i
    <3>5. f[i] = CacheId(f[n], "item", i)
      BY <2>2, <2>4 DEF i
    <3>6. IndexOk(f[i], o, b) /\ f[i].drafts = ix.drafts
      BY <3>3, <3>4, <3>5
    <3> QED BY <3>6 DEF b, i
  <2>5. CASE n + 1 \notin items
    <3>1. f[n + 1] = f[n]
      BY <2>2, <2>5
    <3>2. \A j \in Kinds : upTo(n + 1)[j] \subseteq upTo(n)[j]
      BY <2>3, <2>5
    <3>3. IndexOk(f[n], o, upTo(n + 1))
      BY <2>1, <3>2, FewerLearned DEF IndexOk
    <3> QED BY <2>1, <3>1, <3>3
  <2> QED BY <2>4, <2>5
<1>6. Kept(MaxItemCount)
  <2>1. MaxItemCount \in T
    BY <1>3, <1>4, <1>5, InductionOverNat
  <2> HIDE DEF Kept
  <2> QED BY <1>3, <2>1
<1>7. \A j \in Kinds : more[j] \subseteq upTo(MaxItemCount)[j]
  <2>1. IssuedIds(o, "item") \subseteq 1..MaxItemCount
    BY <1>3 DEF OwnerOk, IssuedIds, Issued
  <2> QED BY <2>1
<1> HIDE DEF upTo
<1>8. IndexOk(f[MaxItemCount], o, more)
  BY <1>6, <1>7, FewerLearned DEF IndexOk
<1> QED BY <1>1, <1>6, <1>8

-----------------------------------------------------------------------------
(* One object of any kind.                                                 *)

(* What ids of a kind make known: a draft comes with its items.            *)
Brings(o, k, xs) ==
  [j \in Kinds |-> IF j = k THEN xs
                   ELSE IF k = "draft" /\ j = "item" THEN UNION {o.drafts[d].items : d \in xs}
                   ELSE {}]

(* What is replaced in an index besides its lists.                         *)
LEMMA ListsAlone ==
  ASSUME NEW ix, NEW o, NEW le, ListsOk(ix, o, le), NEW drafts,
         NEW contents, Listing(contents, MaxEntries)
  PROVE  LET n == [ix EXCEPT !.drafts = drafts]
             m == [ix EXCEPT !.contents = contents]
         IN  /\ ListsOk(n, o, le) /\ n.ids = ix.ids /\ n.drafts = drafts
             /\ ListsOk(m, o, le) /\ m.ids = ix.ids /\ m.drafts = ix.drafts
<1> DEFINE a == ix.ids
           b == ix.complete
           c == ix.drafts
           d == ix.contents
           n == [ix EXCEPT !.drafts = drafts]
           m == [ix EXCEPT !.contents = contents]
<1>1. ix = [ids |-> a, complete |-> b, drafts |-> c, contents |-> d]
  BY DEF ListsOk, Shaped
<1> HIDE DEF a, b, c, d
<1>2. n = [ids |-> a, complete |-> b, drafts |-> drafts, contents |-> d]
  BY <1>1
<1>3. m = [ids |-> a, complete |-> b, drafts |-> c, contents |-> contents]
  BY <1>1
<1> HIDE DEF n, m
<1>4. Shaped(n) /\ n.ids = ix.ids /\ n.complete = ix.complete /\ n.contents = ix.contents
      /\ n.drafts = drafts
  BY <1>2 DEF ListsOk, Shaped, a, b, d
<1>5. Shaped(m) /\ m.ids = ix.ids /\ m.complete = ix.complete /\ m.drafts = ix.drafts
      /\ m.contents = contents
  BY <1>3 DEF ListsOk, Shaped, a, b, c
<1>6. ListsOk(n, o, le)
  BY <1>4 DEF ListsOk, Holds
<1>7. ListsOk(m, o, le)
  BY <1>5 DEF ListsOk, Holds
<1> QED BY <1>4, <1>5, <1>6, <1>7 DEF n, m

(* Lists that are the same are as sound.                                   *)
LEMMA SameLists ==
  ASSUME NEW ix, NEW o, NEW le, ListsOk(ix, o, le), NEW n, Shaped(n), n.ids = ix.ids,
         n.complete = ix.complete, n.contents = ix.contents
  PROVE  ListsOk(n, o, le)
BY DEF ListsOk, Holds

(* cache_revision: the revision and its content.                           *)
LEMMA CacheRevisionKeeps ==
  ASSUME NEW ix, NEW o, NEW le, IndexOk(ix, o, le), NEW x \in IssuedIds(o, "revision"), NEW more,
         \A j \in Kinds : more[j] \subseteq le[j] \cup (IF j = "revision" THEN {x} ELSE {})
  PROVE  LET n == CacheRevision(ix, x)
         IN  IndexOk(n, o, more) /\ n.drafts = ix.drafts /\ x \in Holds(n, "revision")
<1> DEFINE g == CacheId(ix, "revision", x)
           contents == Inserted(g.contents, x, MaxEntries)
           n == CacheRevision(ix, x)
<1>1. "revision" \in Kinds /\ "revision" # "draft" /\ x \in Nat
  BY DEF Kinds, IssuedIds
<1>2. IndexOk(g, o, more) /\ g.drafts = ix.drafts /\ x \in Holds(g, "revision")
  BY <1>1, CacheIdKeeps
<1>3. n = [g EXCEPT !.contents = contents]
  BY DEF CacheRevision
<1> HIDE DEF g, contents, n
<1>4. Listing(contents, MaxEntries)
  <2>1. Listing(g.contents, MaxEntries) /\ MaxEntries \in Nat \ {0}
    BY <1>2, FacadeAssumption DEF IndexOk, ListsOk
  <2> QED BY <1>1, <2>1, InsertedId DEF contents
<1>5. ListsOk(n, o, more) /\ n.ids = g.ids /\ n.drafts = g.drafts
  BY <1>2, <1>3, <1>4, ListsAlone DEF IndexOk
<1>6. IndexOk(n, o, more) /\ n.drafts = ix.drafts /\ x \in Holds(n, "revision")
  BY <1>2, <1>5 DEF IndexOk, DraftsOk, Holds
<1> QED BY <1>6 DEF n

(* cache_draft: the draft and the items it refers to.                      *)
LEMMA CacheDraftKeeps ==
  ASSUME NEW ix, NEW o, NEW le, IndexOk(ix, o, le), OwnerOk(o),
         NEW d, NEW draft, Cached(draft, d, o), NEW more,
         \A j \in Kinds : more[j] \subseteq
           le[j] \cup (IF j = "draft" THEN {d} ELSE IF j = "item" THEN draft.items ELSE {})
  PROVE  LET n == CacheDraft(ix, d, draft)
         IN  IndexOk(n, o, more) /\ d \in Holds(n, "draft")
<1> DEFINE between == [j \in Kinds |-> IF j = "item" THEN le[j] \cup draft.items ELSE le[j]]
           g == CacheItems(ix, draft.items)
           next == CacheId(g, "draft", d)
           drafts == [e \in Holds(next, "draft") |-> IF e = d THEN draft ELSE ix.drafts[e]]
           n == CacheDraft(ix, d, draft)
<1>1. "draft" \in Kinds /\ "item" \in Kinds
  BY DEF Kinds
<1>2. IndexOk(g, o, between) /\ g.drafts = ix.drafts
  <2>1. draft.items \subseteq IssuedIds(o, "item")
    BY DEF Cached, IssuedIds, Issued
  <2>2. \A j \in Kinds :
          between[j] \subseteq le[j] \cup (IF j = "item" THEN draft.items ELSE {})
    OBVIOUS
  <2> HIDE DEF between
  <2> QED BY <2>1, <2>2, CacheItemsKeeps
<1>3. d \in IssuedIds(o, "draft")
  <2>1. d \in DOMAIN o.drafts /\ o.drafts \in Seq(DraftRecords)
    BY DEF Cached, OwnerOk, Owners
  <2> QED BY <2>1 DEF IssuedIds, Issued
<1>4. \A j \in Kinds : more[j] \subseteq between[j] \cup (IF j = "draft" THEN {d} ELSE {})
  <2>1. ASSUME NEW j \in Kinds
        PROVE  more[j] \subseteq between[j] \cup (IF j = "draft" THEN {d} ELSE {})
    <3>1. CASE j = "draft"
      BY <3>1
    <3>2. CASE j # "draft"
      BY <3>2
    <3> QED BY <3>1, <3>2
  <2> QED BY <2>1
<1> HIDE DEF between
<1>5. /\ ListsOk(next, o, more)
      /\ d \in Holds(next, "draft") /\ Holds(next, "draft") \subseteq Holds(g, "draft") \cup {d}
  <2> HIDE DEF g
  <2> QED BY <1>1, <1>2, <1>3, <1>4, CacheIdLists DEF IndexOk
<1>6. n = [next EXCEPT !.drafts = drafts]
  BY DEF CacheDraft
<1> HIDE DEF g, next, n
<1>7. ListsOk(n, o, more) /\ n.ids = next.ids /\ n.drafts = drafts
  <2> DEFINE a == next.ids
             b == next.complete
             c == next.drafts
             f == next.contents
  <2>1. next = [ids |-> a, complete |-> b, drafts |-> c, contents |-> f]
    BY <1>5 DEF ListsOk, Shaped
  <2> HIDE DEF drafts, a, b, c, f
  <2>2. n = [ids |-> a, complete |-> b, drafts |-> drafts, contents |-> f]
    BY <1>6, <2>1
  <2>3. n.ids = a /\ n.complete = b /\ n.drafts = drafts /\ n.contents = f
    BY <2>2
  <2>4. a \in [Kinds -> Seq(Nat)] /\ b \in [Kinds -> BOOLEAN]
    BY <1>5 DEF ListsOk, Shaped, a, b
  <2>5. Shaped(n)
    BY <2>2, <2>3, <2>4 DEF Shaped
  <2>6. n.ids = next.ids /\ n.complete = next.complete /\ n.contents = next.contents
    BY <2>3 DEF a, b, f
  <2>7. ListsOk(next, o, more)
    BY <1>5
  <2> QED BY <2>3, <2>5, <2>6, <2>7, SameLists
<1>8. Holds(n, "draft") = Holds(next, "draft") /\ DOMAIN drafts = Holds(next, "draft")
  BY <1>7 DEF Holds
<1>9. ASSUME NEW e \in Holds(next, "draft")  PROVE Cached(drafts[e], e, o)
  <2>1. CASE e = d
    BY <2>1
  <2>2. CASE e # d
    <3>1. e \in DOMAIN ix.drafts
      BY <1>2, <1>5, <1>9, <2>2 DEF IndexOk, DraftsOk
    <3>2. drafts[e] = ix.drafts[e]
      BY <2>2
    <3> QED BY <3>1, <3>2 DEF IndexOk, DraftsOk
  <2> QED BY <2>1, <2>2
<1> HIDE DEF drafts
<1>10. IndexOk(n, o, more) /\ d \in Holds(n, "draft")
  BY <1>5, <1>7, <1>8, <1>9 DEF IndexOk, DraftsOk
<1> QED BY <1>10 DEF n

(* Any object read from the owner.                                         *)
LEMMA CacheKeeps ==
  ASSUME NEW ix, NEW le, IndexOk(ix, owner, le), OwnerOk(owner),
         NEW k \in Kinds, NEW x \in IssuedIds(owner, k), NEW more,
         \A j \in Kinds : more[j] \subseteq le[j] \cup Brings(owner, k, {x})[j]
  PROVE  LET n == Cache(ix, k, x)
         IN  /\ IndexOk(n, owner, more) /\ x \in Holds(n, k)
             /\ k # "draft" => n.drafts = ix.drafts
<1>1. CASE k = "draft"
  <2> DEFINE draft == owner.drafts[x]
  <2>1. Cache(ix, k, x) = CacheDraft(ix, x, draft)
    BY <1>1 DEF Cache
  <2>2. Cached(draft, x, owner)
    <3>1. owner.drafts \in Seq(DraftRecords) /\ x \in DOMAIN owner.drafts
      BY <1>1 DEF OwnerOk, Owners, IssuedIds, Issued
    <3>2. draft \in DraftRecords
      BY <3>1
    <3>3. draft.version \in Nat
      BY <3>2 DEF DraftRecords
    <3> QED BY <3>1, <3>2, <3>3 DEF Cached, OwnerOk
  <2>3. \A j \in Kinds : more[j] \subseteq
          le[j] \cup (IF j = "draft" THEN {x} ELSE IF j = "item" THEN draft.items ELSE {})
    BY <1>1 DEF Brings
  <2> HIDE DEF draft
  <2>4. IndexOk(CacheDraft(ix, x, draft), owner, more)
        /\ x \in Holds(CacheDraft(ix, x, draft), "draft")
    BY <2>2, <2>3, CacheDraftKeeps
  <2> QED BY <1>1, <2>1, <2>4
<1>2. CASE k # "draft"
  <2>1. \A j \in Kinds : more[j] \subseteq le[j] \cup (IF j = k THEN {x} ELSE {})
    BY <1>2 DEF Brings
  <2>2. CASE k = "revision"
    <3>1. Cache(ix, k, x) = CacheRevision(ix, x)
      BY <2>2 DEF Cache
    <3> QED BY <2>1, <2>2, <3>1, CacheRevisionKeeps
  <2>3. CASE k # "revision"
    <3>1. Cache(ix, k, x) = CacheId(ix, k, x)
      BY <1>2, <2>3 DEF Cache
    <3> QED BY <1>2, <2>1, <3>1, CacheIdKeeps
  <2> QED BY <2>2, <2>3
<1> QED BY <1>1, <1>2

-----------------------------------------------------------------------------
(* A kind listed anew.                                                     *)

(* An empty list of a kind that may take itself for complete.              *)
LEMMA ClearedKeeps ==
  ASSUME NEW ix, NEW o, NEW le, IndexOk(ix, o, le), NEW k \in Kinds, NEW more,
         \A j \in Kinds : more[j] \subseteq IF j = k THEN {} ELSE le[j]
  PROVE  LET n == [Cleared(ix, k) EXCEPT !.complete[k] = TRUE]
         IN  /\ IndexOk(n, o, more) /\ IndexOk(Cleared(ix, k), o, more)
             /\ k # "draft" => n.drafts = ix.drafts /\ Cleared(ix, k).drafts = ix.drafts
<1> DEFINE a == ix.ids
           b == ix.complete
           c == ix.drafts
           d == ix.contents
           none == [e \in {} |-> None]
           a2 == [a EXCEPT ![k] = <<>>]
           b2 == [b EXCEPT ![k] = FALSE]
           b3 == [b2 EXCEPT ![k] = TRUE]
           c2 == IF k = "draft" THEN none ELSE c
           d2 == IF k = "revision" THEN <<>> ELSE d
           m == Cleared(ix, k)
           n == [m EXCEPT !.complete[k] = TRUE]
<1>1. ix = [ids |-> a, complete |-> b, drafts |-> c, contents |-> d]
      /\ a \in [Kinds -> Seq(Nat)] /\ b \in [Kinds -> BOOLEAN]
  BY DEF IndexOk, ListsOk, Shaped
<1>0. m = [ix EXCEPT !.ids = a2, !.complete = b2, !.drafts = c2, !.contents = d2]
  BY DEF Cleared
<1> HIDE DEF a, b, c, d, none
<1>2. m = [ids |-> a2, complete |-> b2, drafts |-> c2, contents |-> d2]
  <2> HIDE DEF a2, b2, c2, d2, m
  <2> QED BY <1>0, <1>1
<1> HIDE DEF m
<1>3. n = [ids |-> a2, complete |-> b3, drafts |-> c2, contents |-> d2]
  <2> HIDE DEF a2, b2, c2, d2
  <2>1. m.complete = b2
    BY <1>2
  <2> DEFINE e == [m.complete EXCEPT ![k] = TRUE]
  <2>2. e = b3
    BY <2>1
  <2>3. n = [m EXCEPT !.complete = e]
    OBVIOUS
  <2> HIDE DEF b3, e, n
  <2> QED BY <1>2, <2>2, <2>3
<1>4. /\ a2 \in [Kinds -> Seq(Nat)] /\ a2[k] = <<>> /\ \A j \in Kinds : j # k => a2[j] = a[j]
      /\ b2 \in [Kinds -> BOOLEAN] /\ \A j \in Kinds : j # k => b2[j] = b[j]
      /\ b3 \in [Kinds -> BOOLEAN] /\ \A j \in Kinds : j # k => b3[j] = b[j]
  BY <1>1
<1>5. Listing(d2, MaxEntries)
  <2>1. Listing(<<>>, MaxEntries)
    BY FacadeAssumption DEF Listing, IsInjective
  <2> QED BY <2>1 DEF IndexOk, ListsOk, d
<1> HIDE DEF a2, b2, b3, d2
<1>6. ASSUME NEW w, NEW bw \in [Kinds -> BOOLEAN],
             w = [ids |-> a2, complete |-> bw, drafts |-> c2, contents |-> d2],
             \A j \in Kinds : j # k => bw[j] = b[j]
      PROVE  IndexOk(w, o, more)
  <2>1. /\ w.ids = a2 /\ w.complete = bw /\ w.drafts = c2 /\ w.contents = d2 /\ Shaped(w)
    <3> HIDE DEF c2
    <3> QED BY <1>4, <1>6 DEF Shaped
  <2>2. ASSUME NEW j \in Kinds
        PROVE  /\ Listing(w.ids[j], Capacity(j)) /\ Holds(w, j) \subseteq IssuedIds(o, j)
               /\ w.complete[j] => more[j] \subseteq Holds(w, j)
    <3>1. CASE j = k
      <4>1. w.ids[j] = <<>> /\ more[j] = {}
        BY <1>4, <2>1, <3>1
      <4>2. Listing(<<>>, Capacity(j)) /\ Holds(w, j) = {}
        BY <4>1, Capacities DEF Listing, IsInjective, Holds, ToSet
      <4> QED BY <4>1, <4>2
    <3>2. CASE j # k
      <4>1. w.ids[j] = ix.ids[j] /\ w.complete[j] = ix.complete[j] /\ Holds(w, j) = Holds(ix, j)
        BY <1>4, <1>6, <2>1, <3>2 DEF Holds, a, b
      <4>2. more[j] \subseteq le[j]
        BY <3>2
      <4> QED BY <4>1, <4>2 DEF IndexOk, ListsOk
    <3> QED BY <3>1, <3>2
  <2>3. ListsOk(w, o, more)
    BY <1>5, <2>1, <2>2 DEF ListsOk
  <2>4. DraftsOk(w, o)
    <3>1. CASE k = "draft"
      <4>1. Holds(w, "draft") = {} /\ DOMAIN w.drafts = {}
        BY <1>4, <2>1, <3>1 DEF Holds, ToSet, c2, none
      <4> QED BY <4>1 DEF DraftsOk
    <3>2. CASE k # "draft"
      <4>1. Holds(w, "draft") = Holds(ix, "draft") /\ w.drafts = ix.drafts
        BY <1>4, <2>1, <3>2 DEF Holds, c2, a, c, Kinds
      <4> QED BY <4>1 DEF DraftsOk, IndexOk
    <3> QED BY <3>1, <3>2
  <2> QED BY <2>3, <2>4 DEF IndexOk
<1>7. IndexOk(n, o, more) /\ IndexOk(m, o, more)
  <2> HIDE DEF n
  <2> QED BY <1>2, <1>3, <1>4, <1>6
<1>8. k # "draft" => n.drafts = ix.drafts /\ m.drafts = ix.drafts
  BY <1>2, <1>3 DEF c, c2
<1> QED BY <1>7, <1>8 DEF m

(* Nothing known of any kind.                                              *)
LEMMA EmptyKeeps ==
  ASSUME NEW o, NEW le
  PROVE  IndexOk(EmptyIndex, o, le)
<1> DEFINE n == EmptyIndex
<1>1. /\ n.ids = [k \in Kinds |-> <<>>] /\ n.complete = [k \in Kinds |-> FALSE]
      /\ n.drafts = [d \in {} |-> None] /\ n.contents = <<>>
      /\ n = [ids |-> n.ids, complete |-> n.complete, drafts |-> n.drafts,
              contents |-> n.contents]
  BY DEF EmptyIndex
<1> HIDE DEF n
<1>2. Shaped(n)
  <2>1. <<>> \in Seq(Nat)
    OBVIOUS
  <2> QED BY <1>1, <2>1 DEF Shaped
<1>3. \A k \in Kinds : Holds(n, k) = {} /\ n.ids[k] = <<>> /\ ~n.complete[k]
  BY <1>1 DEF Holds, ToSet
<1>4. \A k \in Kinds : Listing(<<>>, Capacity(k))
  BY Capacities DEF Listing, IsInjective
<1>5. Listing(<<>>, MaxEntries)
  BY FacadeAssumption DEF Listing, IsInjective
<1>6. ListsOk(n, o, le)
  BY <1>1, <1>2, <1>3, <1>4, <1>5 DEF ListsOk
<1>7. DraftsOk(n, o)
  <2>1. DOMAIN n.drafts = {} /\ Holds(n, "draft") = {}
    BY <1>1, <1>3 DEF Kinds
  <2> QED BY <2>1 DEF DraftsOk
<1> QED BY <1>6, <1>7 DEF IndexOk, n

ListIn(ix, k, m, f) ==
  f = [n \in 0..m |->
         IF n = 0 THEN [Cleared(ix, k) EXCEPT !.complete[k] = TRUE] ELSE Cache(f[n - 1], k, n)]

(* The recursive function of Relisted is defined on every prefix.          *)
LEMMA ListExists ==
  ASSUME NEW ix, NEW k, NEW m \in Nat
  PROVE  \E f : ListIn(ix, k, m, f)
<1> DEFINE start == [Cleared(ix, k) EXCEPT !.complete[k] = TRUE]
           T == {n \in Nat : \E f : ListIn(ix, k, n, f)}
<1>1. 0 \in T
  <2>1. ListIn(ix, k, 0, [i \in 0..0 |-> start])
    BY DEF ListIn
  <2> QED BY <2>1
<1>2. ASSUME NEW n \in Nat, n \in T  PROVE n + 1 \in T
  <2>1. PICK f : ListIn(ix, k, n, f)
    BY <1>2
  <2>2. \A i \in 0..n : f[i] = IF i = 0 THEN start ELSE Cache(f[i - 1], k, i)
    BY <2>1 DEF ListIn
  <2> HIDE DEF start
  <2> DEFINE e == Cache(f[n], k, n + 1)
             g == [i \in 0..(n + 1) |-> IF i = n + 1 THEN e ELSE f[i]]
  <2>3. \A i \in 0..(n + 1) : g[i] = IF i = 0 THEN start ELSE Cache(g[i - 1], k, i)
    BY <2>2
  <2>4. ListIn(ix, k, n + 1, g)
    BY <2>3 DEF ListIn, start
  <2> QED BY <2>4
<1>3. m \in T
  BY <1>1, <1>2, InductionOverNat
<1> QED BY <1>3

(* Relisted, one object at a time.                                         *)
LEMMA ListUnrolled ==
  ASSUME NEW ix, NEW k, Issued(owner, k) \in Nat
  PROVE  \E f : ListIn(ix, k, Issued(owner, k), f) /\ Relisted(ix, k) = f[Issued(owner, k)]
<1> DEFINE g == CHOOSE h : ListIn(ix, k, Issued(owner, k), h)
<1>1. ListIn(ix, k, Issued(owner, k), g)
  <2>1. \E h : ListIn(ix, k, Issued(owner, k), h)
    BY ListExists
  <2> QED BY <2>1, Zenon
<1>2. Relisted(ix, k) = g[Issued(owner, k)]
  BY Zenon DEF Relisted, ListIn
<1> QED BY <1>1, <1>2

(* How much there is of each kind.                                         *)
LEMMA IssuedCounts ==
  ASSUME NEW o, OwnerOk(o)
  PROVE  /\ \A k \in Kinds : Issued(o, k) \in Nat
         /\ IssuedIds(o, "revision") = DOMAIN o.revisions
         /\ IssuedIds(o, "draft") = DOMAIN o.drafts
         /\ IssuedIds(o, "preview") = DOMAIN o.previews
         /\ IssuedIds(o, "receipt") = DOMAIN o.receipts
         /\ IssuedIds(o, "item") = 1..o.items
BY DEF OwnerOk, Owners, Issued, IssuedIds, Kinds

(* A list of the owner's: the kind is known, and so is what it brings      *)
(* with it; the other kinds lose nothing but what they evict.              *)
LEMMA RelistedKeeps ==
  ASSUME NEW ix, NEW le, IndexOk(ix, owner, le), OwnerOk(owner), NEW k \in Kinds, NEW more,
         \A j \in Kinds : more[j] \subseteq
           IF j = k THEN IssuedIds(owner, k)
           ELSE le[j] \cup Brings(owner, k, IssuedIds(owner, k))[j]
  PROVE  /\ IndexOk(Relisted(ix, k), owner, more)
         /\ k # "draft" => Relisted(ix, k).drafts = ix.drafts
<1> DEFINE all == Issued(owner, k)
<1>1. all \in Nat /\ IssuedIds(owner, k) = 1..all
  BY IssuedCounts DEF IssuedIds
<1>2. PICK f : ListIn(ix, k, all, f) /\ Relisted(ix, k) = f[all]
  BY <1>1, ListUnrolled
<1> HIDE DEF all
<1> DEFINE start == [Cleared(ix, k) EXCEPT !.complete[k] = TRUE]
           upTo(n) == [j \in Kinds |-> IF j = k THEN 1..n ELSE le[j] \cup Brings(owner, k, 1..n)[j]]
           Kept(n) == /\ IndexOk(f[n], owner, upTo(n))
                      /\ k # "draft" => f[n].drafts = ix.drafts
           T == {n \in Nat : n <= all => Kept(n)}
<1>3. \A i \in 0..all : f[i] = IF i = 0 THEN start ELSE Cache(f[i - 1], k, i)
  BY <1>2 DEF ListIn
<1> HIDE DEF start
<1>4. 0 \in T
  <2>1. f[0] = start
    BY <1>1, <1>3
  <2>2. \A j \in Kinds : upTo(0)[j] \subseteq IF j = k THEN {} ELSE le[j]
    BY DEF Brings
  <2> HIDE DEF upTo
  <2>3. IndexOk(start, owner, upTo(0)) /\ (k # "draft" => start.drafts = ix.drafts)
    BY <2>2, ClearedKeeps DEF start
  <2> QED BY <2>1, <2>3
<1>5. ASSUME NEW n \in Nat, n \in T  PROVE n + 1 \in T
  <2> SUFFICES ASSUME n + 1 <= all  PROVE Kept(n + 1)
    <3> HIDE DEF Kept
    <3> QED OBVIOUS
  <2>1. Kept(n) /\ n + 1 \in 1..all /\ n + 1 \in 0..all /\ n + 1 # 0 /\ (n + 1) - 1 = n
    BY <1>1, <1>5
  <2>2. f[n + 1] = Cache(f[n], k, n + 1)
    BY <1>3, <2>1
  <2> DEFINE i == n + 1
  <2>3. \A j \in Kinds : upTo(i)[j] \subseteq upTo(n)[j] \cup Brings(owner, k, {i})[j]
    <3>1. 1..i = 1..n \cup {i}
      OBVIOUS
    <3> HIDE DEF i
    <3> QED BY <3>1 DEF Brings
  <2> HIDE DEF upTo, i
  <2>4. i \in IssuedIds(owner, k)
    BY <1>1, <2>1 DEF i
  <2> DEFINE a == upTo(n)
             b == upTo(i)
  <2>5. IndexOk(f[n], owner, a) /\ (\A j \in Kinds : b[j] \subseteq a[j] \cup Brings(owner, k, {i})[j])
    BY <2>1, <2>3
  <2> HIDE DEF a, b
  <2>6. IndexOk(Cache(f[n], k, i), owner, b)
        /\ (k # "draft" => Cache(f[n], k, i).drafts = f[n].drafts)
    BY <2>4, <2>5, CacheKeeps
  <2>7. f[i] = Cache(f[n], k, i)
    BY <2>2 DEF i
  <2>8. IndexOk(f[i], owner, b) /\ (k # "draft" => f[i].drafts = ix.drafts)
    BY <2>1, <2>6, <2>7
  <2> QED BY <2>8 DEF b, i
<1>6. Kept(all)
  <2>1. all \in T
    BY <1>1, <1>4, <1>5, InductionOverNat
  <2> HIDE DEF Kept
  <2> QED BY <1>1, <2>1
<1>7. \A j \in Kinds : more[j] \subseteq upTo(all)[j]
  BY <1>1
<1> HIDE DEF upTo
<1>8. IndexOk(f[all], owner, more)
  BY <1>6, <1>7, FewerLearned DEF IndexOk
<1> QED BY <1>2, <1>6, <1>8

ReferencesIn(ix, m, f) ==
  f = [d \in 0..m |->
         IF d = 0 THEN Relisted(ix, "item")
         ELSE IF d \in DOMAIN ix.drafts THEN CacheItems(f[d - 1], ix.drafts[d].items)
         ELSE f[d - 1]]

(* The recursive function of RelistedItems is defined on every prefix.     *)
LEMMA ReferencesExist ==
  ASSUME NEW ix, NEW m \in Nat
  PROVE  \E f : ReferencesIn(ix, m, f)
<1> DEFINE start == Relisted(ix, "item")
           more(j, i) == IF i \in DOMAIN ix.drafts THEN CacheItems(j, ix.drafts[i].items) ELSE j
           T == {n \in Nat : \E f : ReferencesIn(ix, n, f)}
<1>1. 0 \in T
  <2>1. ReferencesIn(ix, 0, [i \in 0..0 |-> start])
    BY DEF ReferencesIn
  <2> QED BY <2>1
<1>2. ASSUME NEW n \in Nat, n \in T  PROVE n + 1 \in T
  <2>1. PICK f : ReferencesIn(ix, n, f)
    BY <1>2
  <2>2. \A i \in 0..n : f[i] = IF i = 0 THEN start ELSE more(f[i - 1], i)
    BY <2>1 DEF ReferencesIn
  <2> DEFINE e == more(f[n], n + 1)
             g == [i \in 0..(n + 1) |-> IF i = n + 1 THEN e ELSE f[i]]
  <2>3. \A i \in 0..(n + 1) : g[i] = IF i = 0 THEN start ELSE more(g[i - 1], i)
    <3> HIDE DEF start, more
    <3> QED BY <2>2
  <2>4. ReferencesIn(ix, n + 1, g)
    BY <2>3 DEF ReferencesIn
  <2> QED BY <2>4
<1>3. m \in T
  BY <1>1, <1>2, InductionOverNat
<1> QED BY <1>3

(* RelistedItems, one draft at a time.                                     *)
LEMMA ReferencesUnrolled ==
  ASSUME NEW ix
  PROVE  \E f : ReferencesIn(ix, MaxDrafts, f) /\ RelistedItems(ix) = f[MaxDrafts]
<1> DEFINE g == CHOOSE h : ReferencesIn(ix, MaxDrafts, h)
<1>1. ReferencesIn(ix, MaxDrafts, g)
  <2>1. \E h : ReferencesIn(ix, MaxDrafts, h)
    BY ReferencesExist, FacadeAssumption
  <2> QED BY <2>1, Zenon
<1>2. RelistedItems(ix) = g[MaxDrafts]
  BY Zenon DEF RelistedItems, ReferencesIn
<1> QED BY <1>1, <1>2

(* The items listed anew, and those of the cached drafts.                  *)
LEMMA RelistedItemsKeeps ==
  ASSUME NEW ix, NEW le, IndexOk(ix, owner, le), OwnerOk(owner), NEW more,
         \A j \in Kinds : more[j] \subseteq IF j = "item" THEN IssuedIds(owner, "item") ELSE le[j]
  PROVE  IndexOk(RelistedItems(ix), owner, more) /\ RelistedItems(ix).drafts = ix.drafts
<1>1. PICK f : ReferencesIn(ix, MaxDrafts, f) /\ RelistedItems(ix) = f[MaxDrafts]
  BY ReferencesUnrolled
<1> DEFINE start == Relisted(ix, "item")
<1>2. \A i \in 0..MaxDrafts : f[i] = IF i = 0 THEN start
        ELSE IF i \in DOMAIN ix.drafts THEN CacheItems(f[i - 1], ix.drafts[i].items)
        ELSE f[i - 1]
  BY <1>1 DEF ReferencesIn
<1>3. MaxDrafts \in Nat /\ "item" \in Kinds
  BY FacadeAssumption DEF Kinds
<1> DEFINE Kept(n) == IndexOk(f[n], owner, more) /\ f[n].drafts = ix.drafts
           T == {n \in Nat : n <= MaxDrafts => Kept(n)}
<1>4. 0 \in T
  <2>1. f[0] = start
    <3> HIDE DEF start
    <3> QED BY <1>2, <1>3
  <2>2. \A j \in Kinds : more[j] \subseteq
          IF j = "item" THEN IssuedIds(owner, "item")
          ELSE le[j] \cup Brings(owner, "item", IssuedIds(owner, "item"))[j]
    OBVIOUS
  <2>3. IndexOk(start, owner, more) /\ start.drafts = ix.drafts
    BY <1>3, <2>2, RelistedKeeps
  <2> HIDE DEF start
  <2> QED BY <2>1, <2>3
<1> HIDE DEF start
<1>5. ASSUME NEW n \in Nat, n \in T  PROVE n + 1 \in T
  <2> SUFFICES ASSUME n + 1 <= MaxDrafts  PROVE Kept(n + 1)
    <3> HIDE DEF Kept
    <3> QED OBVIOUS
  <2>1. Kept(n) /\ n + 1 \in 0..MaxDrafts /\ n + 1 # 0 /\ (n + 1) - 1 = n
    BY <1>3, <1>5
  <2> DEFINE i == n + 1
  <2>2. f[i] = IF i \in DOMAIN ix.drafts THEN CacheItems(f[n], ix.drafts[i].items) ELSE f[n]
    BY <1>2, <2>1
  <2> HIDE DEF i
  <2>3. CASE i \in DOMAIN ix.drafts
    <3> DEFINE items == ix.drafts[i].items
    <3>1. items \subseteq IssuedIds(owner, "item")
      BY <2>3, IssuedCounts DEF IndexOk, DraftsOk, Cached
    <3> HIDE DEF items
    <3>2. \A j \in Kinds : more[j] \subseteq more[j] \cup (IF j = "item" THEN items ELSE {})
      OBVIOUS
    <3>3. IndexOk(CacheItems(f[n], items), owner, more)
          /\ CacheItems(f[n], items).drafts = f[n].drafts
      BY <2>1, <3>1, <3>2, CacheItemsKeeps
    <3>4. f[i] = CacheItems(f[n], items)
      BY <2>2, <2>3 DEF items
    <3> QED BY <2>1, <3>3, <3>4 DEF i
  <2>4. CASE i \notin DOMAIN ix.drafts
    BY <2>1, <2>2, <2>4 DEF i
  <2> QED BY <2>3, <2>4
<1>6. Kept(MaxDrafts)
  <2>1. MaxDrafts \in T
    BY <1>3, <1>4, <1>5, InductionOverNat
  <2> HIDE DEF Kept
  <2> QED BY <1>3, <2>1
<1> QED BY <1>1, <1>6

-----------------------------------------------------------------------------
(* The owner's operations.                                                 *)

(* What the owner has issued stays issued as it grows.                     *)
LEMMA GrownIssued ==
  ASSUME NEW o, NEW p, OwnerOk(o), OwnerOk(p), Grown(o, p), NEW k \in Kinds
  PROVE  IssuedIds(o, k) \subseteq IssuedIds(p, k)
<1>1. Issued(o, k) \in Nat /\ Issued(p, k) \in Nat /\ Issued(o, k) <= Issued(p, k)
  BY IssuedCounts DEF Grown
<1> QED BY <1>1 DEF IssuedIds

(* An index that was sound for the owner is so for the grown owner.        *)
LEMMA GrownIndex ==
  ASSUME NEW o, NEW p, OwnerOk(o), OwnerOk(p), Grown(o, p),
         NEW ix, NEW le, IndexOk(ix, o, le)
  PROVE  IndexOk(ix, p, le)
<1>1. \A k \in Kinds : IssuedIds(o, k) \subseteq IssuedIds(p, k)
  BY GrownIssued
<1>2. ListsOk(ix, p, le)
  BY <1>1 DEF IndexOk, ListsOk
<1>3. ASSUME NEW d \in DOMAIN ix.drafts  PROVE Cached(ix.drafts[d], d, p)
  <2> DEFINE draft == ix.drafts[d]
  <2>1. Cached(draft, d, o)
    BY DEF IndexOk, DraftsOk
  <2> HIDE DEF draft
  <2>2. draft \in DraftRecords /\ d \in DOMAIN o.drafts
    BY <2>1 DEF Cached
  <2>3. d \in DOMAIN p.drafts /\ draft.items \subseteq 1..p.items
    <3>1. "draft" \in Kinds /\ "item" \in Kinds
      BY DEF Kinds
    <3>2. d \in IssuedIds(p, "draft") /\ draft.items \subseteq IssuedIds(p, "item")
      BY <1>1, <2>1, <2>2, <3>1, IssuedCounts DEF Cached
    <3> QED BY <3>2, IssuedCounts
  <2>4. /\ draft.version \in Nat /\ o.drafts[d].version \in Nat /\ p.drafts[d].version \in Nat
    <3>1. o.drafts[d] \in DraftRecords /\ p.drafts[d] \in DraftRecords
      BY <2>2, <2>3 DEF OwnerOk, Owners
    <3> QED BY <2>2, <3>1 DEF DraftRecords
  <2>5. p.drafts[d] = o.drafts[d] \/ p.drafts[d].version > o.drafts[d].version
    BY <2>2 DEF Grown
  <2>6. CASE p.drafts[d] = o.drafts[d]
    BY <2>1, <2>3, <2>6 DEF Cached, draft
  <2>7. CASE p.drafts[d].version > o.drafts[d].version
    <3>1. draft.version < p.drafts[d].version
      BY <2>1, <2>4, <2>7 DEF Cached
    <3> QED BY <2>2, <2>3, <2>4, <3>1 DEF Cached, draft
  <2> QED BY <2>5, <2>6, <2>7
<1> QED BY <1>2, <1>3 DEF IndexOk, DraftsOk

(* What the owner does at most: the references are its own, a patch meets  *)
(* the draft version it was made for, and notes stay within their number.  *)
Takes(o, c) ==
  /\ \A r \in References(c) : r[2] \in IssuedIds(o, r[1])
  /\ c.op = "apply_patch" =>
       Current(o, c) /\ (c.change = "put_note" => o.items < MaxItemCount)

(* What the owner accepts it can take.                                     *)
LEMMA AcceptsTakes ==
  ASSUME NEW o, NEW c \in MutationCalls, Accepts(o, c)
  PROVE  Takes(o, c)
BY DEF Accepts, Takes

(* A mutation is one of six, with the fields of its kind.                  *)
LEMMA MutationFields ==
  ASSUME NEW c \in MutationCalls
  PROVE  /\ c.op \in MutationOps
         /\ c.op = "apply_patch" => c \in PatchCalls
         /\ c.op # "apply_patch" /\ c.op # "create_preview" => c.revision \in Nat
         /\ c.op = "create_preview" => c.draft \in Nat
         /\ c.op \in {"commit", "resume"} => c.preview \in Nat
         /\ c.op \in {"pause", "commit", "resume"} => c.key \in Keys
BY DEF MutationCalls, MutationOps, PatchCalls

(* The fields of a patch, by its change.                                   *)
LEMMA PatchFields ==
  ASSUME NEW c \in PatchCalls
  PROVE  /\ c.op = "apply_patch" /\ c.draft \in Nat /\ c.version \in Nat /\ c.revision \in Nat
         /\ c.objective \in BOOLEAN
         /\ c.change \in {"put_note", "include_item", "remove_note", "restore_configuration",
                          "set_objective"}
         /\ c.change \in {"include_item", "remove_note", "restore_configuration"} => c.to \in Nat
         /\ c.change = "set_objective" => c.to \in Objectives
BY DEF PatchCalls

(* The parts of an owner.                                                  *)
LEMMA OwnerParts ==
  ASSUME NEW o, OwnerOk(o)
  PROVE  /\ o = [items |-> o.items, revisions |-> o.revisions, drafts |-> o.drafts,
                 previews |-> o.previews, receipts |-> o.receipts, enabled |-> o.enabled]
         /\ o.items \in 1..MaxItemCount /\ o.revisions \in Seq(Contents)
         /\ o.drafts \in Seq(DraftRecords) /\ o.previews \in Seq(PreviewRecords)
         /\ o.receipts \in Seq(ReceiptRecords) /\ o.enabled \in BOOLEAN
         /\ \A d \in DOMAIN o.drafts : o.drafts[d].items \subseteq 1..o.items
         /\ \A i \in DOMAIN o.receipts : o.receipts[i].active \in DOMAIN o.revisions
BY DEF OwnerOk, Owners

(* One more at the end of a list.                                          *)
LEMMA Appended ==
  ASSUME NEW S, NEW s \in Seq(S), NEW x \in S
  PROVE  LET t == Append(s, x)
         IN  /\ t \in Seq(S) /\ Len(t) = Len(s) + 1 /\ DOMAIN t = DOMAIN s \cup {Len(s) + 1}
             /\ t[Len(s) + 1] = x /\ \A i \in DOMAIN s : t[i] = s[i]
OBVIOUS

(* A new draft.                                                            *)
LEMMA CreateKeeps ==
  ASSUME NEW o, OwnerOk(o), NEW c, c.op = "create_draft", c.revision \in Nat
  PROVE  OwnerOk(Perform(o, c)) /\ Grown(o, Perform(o, c))
<1> DEFINE new == [version |-> 1, base |-> c.revision, objective |-> None, items |-> {}]
           drafts == Append(o.drafts, new)
           p == Perform(o, c)
<1>1. new \in DraftRecords /\ new.items = {}
  BY DEF DraftRecords, Contents
<1>2. p = [o EXCEPT !.drafts = drafts]
  BY DEF Perform
<1> HIDE DEF new, p
<1>3. /\ drafts \in Seq(DraftRecords) /\ Len(o.drafts) <= Len(drafts)
      /\ \A d \in DOMAIN drafts : d \in DOMAIN o.drafts \/ drafts[d] = new
      /\ \A d \in DOMAIN o.drafts : drafts[d] = o.drafts[d]
  BY <1>1, OwnerParts, Appended
<1> HIDE DEF drafts
<1>4. \A d \in DOMAIN drafts : drafts[d].items \subseteq 1..o.items
  BY <1>1, <1>3, OwnerParts
<1>5. p = [items |-> o.items, revisions |-> o.revisions, drafts |-> drafts,
           previews |-> o.previews, receipts |-> o.receipts, enabled |-> o.enabled]
  BY <1>2, OwnerParts
<1>6. /\ p.items = o.items /\ p.revisions = o.revisions /\ p.drafts = drafts
      /\ p.previews = o.previews /\ p.receipts = o.receipts /\ p.enabled = o.enabled
  BY <1>5
<1>7. OwnerOk(p)
  <2>1. p \in Owners
    BY <1>3, <1>5, OwnerParts DEF Owners
  <2> QED BY <1>4, <1>6, <2>1, OwnerParts DEF OwnerOk
<1>8. Grown(o, p)
  BY <1>3, <1>6, OwnerParts DEF Grown, Issued, Kinds
<1> QED BY <1>7, <1>8 DEF p

(* A preview of a draft.                                                   *)
LEMMA PreviewKeeps ==
  ASSUME NEW o, OwnerOk(o), NEW c, c.op = "create_preview", c.draft \in Nat,
         c.draft \in DOMAIN o.drafts
  PROVE  OwnerOk(Perform(o, c)) /\ Grown(o, Perform(o, c))
<1> DEFINE new == PreviewOf(o, c.draft)
           previews == Append(o.previews, new)
           p == Perform(o, c)
<1>1. new \in PreviewRecords
  <2>1. o.drafts[c.draft] \in DraftRecords
    BY OwnerParts
  <2> QED BY <2>1 DEF DraftRecords, PreviewRecords, PreviewOf
<1>2. p = [o EXCEPT !.previews = previews]
  BY DEF Perform
<1> HIDE DEF new, p
<1>3. previews \in Seq(PreviewRecords) /\ Len(o.previews) <= Len(previews)
  BY <1>1, OwnerParts, Appended
<1> HIDE DEF previews
<1>4. p = [items |-> o.items, revisions |-> o.revisions, drafts |-> o.drafts,
           previews |-> previews, receipts |-> o.receipts, enabled |-> o.enabled]
  <2>1. o = [items |-> o.items, revisions |-> o.revisions, drafts |-> o.drafts,
             previews |-> o.previews, receipts |-> o.receipts, enabled |-> o.enabled]
    BY OwnerParts
  <2> QED BY <1>2, <2>1
<1>5. /\ p.items = o.items /\ p.revisions = o.revisions /\ p.drafts = o.drafts
      /\ p.previews = previews /\ p.receipts = o.receipts /\ p.enabled = o.enabled
  BY <1>4
<1>6. OwnerOk(p)
  <2>1. p \in Owners
    BY <1>3, <1>4, OwnerParts DEF Owners
  <2> QED BY <1>5, <2>1, OwnerParts DEF OwnerOk
<1>7. Grown(o, p)
  BY <1>3, <1>5, OwnerParts DEF Grown, Issued, Kinds
<1> QED BY <1>6, <1>7 DEF p

(* A command: a revision more if it commits, and its receipt.              *)
LEMMA CommandKeeps ==
  ASSUME NEW o, OwnerOk(o), NEW c, c.op \in {"pause", "commit", "resume"}, c.key \in Keys,
         o.revisions # <<>>, c.op = "commit" => c.preview \in DOMAIN o.previews
  PROVE  /\ OwnerOk(Perform(o, c)) /\ Grown(o, Perform(o, c))
         /\ ReceiptOf(Perform(o, c), c.key) # {}
<1> DEFINE p == Perform(o, c)
           revisions == IF c.op = "commit" THEN Append(o.revisions, o.previews[c.preview].objective)
                                           ELSE o.revisions
           new == [key |-> c.key, active |-> Len(revisions)]
           receipts == Append(o.receipts, new)
<1>1. p = IF ReceiptOf(o, c.key) # {} THEN o
          ELSE [o EXCEPT !.revisions = revisions, !.receipts = receipts]
  BY DEF Perform, Commanded
<1> HIDE DEF p
<1>2. CASE ReceiptOf(o, c.key) # {}
  <2>1. p = o
    BY <1>1, <1>2
  <2>2. Grown(o, o)
    BY IssuedCounts DEF Grown
  <2> QED BY <1>2, <2>1, <2>2 DEF p
<1>3. CASE ReceiptOf(o, c.key) = {}
  <2>1. /\ revisions \in Seq(Contents) /\ Len(revisions) \in Nat \ {0}
        /\ Len(o.revisions) <= Len(revisions)
        /\ \A r \in DOMAIN o.revisions : r \in DOMAIN revisions /\ revisions[r] = o.revisions[r]
    <3>1. CASE c.op = "commit"
      <4> DEFINE x == o.previews[c.preview].objective
      <4>1. x \in Contents /\ o.revisions \in Seq(Contents)
        <5>1. o.previews[c.preview] \in PreviewRecords /\ o.revisions \in Seq(Contents)
          BY <3>1, OwnerParts
        <5> QED BY <5>1 DEF PreviewRecords
      <4>2. revisions = Append(o.revisions, x)
        BY <3>1
      <4> HIDE DEF x, revisions
      <4> QED BY <4>1, <4>2, Appended
    <3>2. CASE c.op # "commit"
      <4>1. revisions = o.revisions /\ o.revisions \in Seq(Contents)
        BY <3>2, OwnerParts
      <4> HIDE DEF revisions
      <4> QED BY <4>1
    <3> QED BY <3>1, <3>2
  <2> HIDE DEF revisions
  <2>2. new \in ReceiptRecords /\ new.key = c.key /\ new.active \in DOMAIN revisions
    BY <2>1 DEF ReceiptRecords
  <2> HIDE DEF new
  <2>3. /\ receipts \in Seq(ReceiptRecords) /\ Len(receipts) = Len(o.receipts) + 1
        /\ Len(o.receipts) \in Nat
        /\ \A i \in DOMAIN receipts :
             receipts[i] = new \/ (i \in DOMAIN o.receipts /\ receipts[i] = o.receipts[i])
        /\ \E i \in DOMAIN receipts : receipts[i] = new
    <3>1. o.receipts \in Seq(ReceiptRecords)
      BY OwnerParts
    <3>2. Len(o.receipts) \in Nat
      BY <3>1
    <3>3. /\ receipts \in Seq(ReceiptRecords) /\ Len(receipts) = Len(o.receipts) + 1
          /\ DOMAIN receipts = DOMAIN o.receipts \cup {Len(o.receipts) + 1}
          /\ receipts[Len(o.receipts) + 1] = new
          /\ \A i \in DOMAIN o.receipts : receipts[i] = o.receipts[i]
      BY <2>2, <3>1, Appended
    <3> HIDE DEF receipts
    <3> QED BY <3>2, <3>3
  <2> HIDE DEF receipts
  <2>4. p = [items |-> o.items, revisions |-> revisions, drafts |-> o.drafts,
             previews |-> o.previews, receipts |-> receipts, enabled |-> o.enabled]
    <3>1. p = [o EXCEPT !.revisions = revisions, !.receipts = receipts]
      BY <1>1, <1>3
    <3> DEFINE a == o.items
               b == o.revisions
               d == o.drafts
               e == o.previews
               f == o.receipts
               g == o.enabled
    <3>2. o = [items |-> a, revisions |-> b, drafts |-> d, previews |-> e, receipts |-> f,
               enabled |-> g]
      BY OwnerParts
    <3> HIDE DEF a, b, d, e, f, g
    <3>3. p = [items |-> a, revisions |-> revisions, drafts |-> d, previews |-> e,
               receipts |-> receipts, enabled |-> g]
      BY <3>1, <3>2
    <3> QED BY <3>3 DEF a, d, e, g
  <2>5. /\ p.items = o.items /\ p.revisions = revisions /\ p.drafts = o.drafts
        /\ p.previews = o.previews /\ p.receipts = receipts /\ p.enabled = o.enabled
    BY <2>4
  <2>6. \A i \in DOMAIN receipts : receipts[i].active \in DOMAIN revisions
    BY <2>1, <2>2, <2>3, OwnerParts
  <2>7. OwnerOk(p)
    <3>1. p \in Owners
      BY <2>1, <2>3, <2>4, OwnerParts DEF Owners
    <3> QED BY <2>5, <2>6, <3>1, OwnerParts DEF OwnerOk
  <2>8. Grown(o, p)
    BY <2>1, <2>3, <2>5, OwnerParts DEF Grown, Issued, Kinds
  <2>9. ReceiptOf(p, c.key) # {}
    BY <2>2, <2>3, <2>5 DEF ReceiptOf
  <2> QED BY <2>7, <2>8, <2>9 DEF p
<1> QED BY <1>2, <1>3

(* A patch: the draft's next version, with one note more if it puts one.   *)
LEMMA PatchKeeps ==
  ASSUME NEW o, OwnerOk(o), NEW c \in PatchCalls, Takes(o, c)
  PROVE  OwnerOk(Perform(o, c)) /\ Grown(o, Perform(o, c))
<1> DEFINE p == Perform(o, c)
           d == c.draft
           old == o.drafts[d]
           new == Patched(o, c)
           items == IF c.change = "put_note" THEN o.items + 1 ELSE o.items
           drafts == [o.drafts EXCEPT ![d] = new]
<1>1. c.op = "apply_patch"
  BY PatchFields
<1>2. d \in DOMAIN o.drafts /\ old.version = c.version /\ old \in DraftRecords
      /\ old.items \subseteq 1..o.items
  BY <1>1, OwnerParts DEF Takes, Current
<1>3. items \in 1..MaxItemCount /\ o.items <= items /\ o.items \in Nat
  BY <1>1, OwnerParts, FacadeAssumption DEF Takes
<1>4. ObjectiveAfter(o, c) \in Contents
  <2>1. CASE c.change = "set_objective"
    BY <2>1, PatchFields DEF ObjectiveAfter, Contents
  <2>2. CASE c.change = "restore_configuration"
    <3>1. <<"revision", c.to>> \in References(c)
      BY <1>1, <2>2 DEF References
    <3>2. c.to \in IssuedIds(o, "revision")
      BY <3>1 DEF Takes
    <3>3. o.revisions[c.to] \in Contents
      BY <3>2, IssuedCounts, OwnerParts
    <3> QED BY <2>2, <3>3 DEF ObjectiveAfter
  <2>3. CASE c.change \notin {"set_objective", "restore_configuration"}
    BY <1>2, <2>3 DEF ObjectiveAfter, DraftRecords
  <2> QED BY <2>1, <2>2, <2>3
<1>5. new.version = c.version + 1 /\ new.items \subseteq 1..items /\ new \in DraftRecords
  <2> DEFINE notes == CASE c.change = "put_note"     -> old.items \cup {o.items + 1}
                        [] c.change = "include_item" -> old.items \cup {c.to}
                        [] c.change = "remove_note"  -> old.items \ {c.to}
                        [] OTHER                     -> old.items
  <2>1. new = [version |-> c.version + 1, base |-> old.base,
               objective |-> ObjectiveAfter(o, c), items |-> notes]
    BY DEF Patched
  <2>2. notes \subseteq 1..items
    <3>1. CASE c.change = "put_note"
      <4>1. notes = old.items \cup {o.items + 1} /\ items = o.items + 1
        BY <3>1
      <4>2. o.items + 1 \in 1..(o.items + 1) /\ 1..o.items \subseteq 1..(o.items + 1)
        BY <1>3
      <4> HIDE DEF notes, old
      <4> QED BY <1>2, <4>1, <4>2
    <3>2. CASE c.change = "include_item"
      <4>1. <<"item", c.to>> \in References(c)
        BY <1>1, <3>2 DEF References
      <4>2. c.to \in IssuedIds(o, "item")
        BY <4>1 DEF Takes
      <4>3. c.to \in 1..o.items
        BY <4>2, IssuedCounts
      <4>4. notes = old.items \cup {c.to} /\ items = o.items
        BY <3>2
      <4> HIDE DEF notes, old, items
      <4> QED BY <1>2, <4>3, <4>4
    <3>3. CASE c.change \notin {"put_note", "include_item"}
      <4>1. notes \subseteq old.items /\ items = o.items
        BY <3>3
      <4> HIDE DEF notes, old, items
      <4> QED BY <1>2, <4>1
    <3> QED BY <3>1, <3>2, <3>3
  <2> HIDE DEF notes, new
  <2>3. notes \subseteq Nat
    <3> HIDE DEF items
    <3> QED BY <1>3, <2>2
  <2>4. c.version + 1 \in Nat /\ old.base \in Nat
    BY <1>2, PatchFields DEF DraftRecords
  <2> HIDE DEF items
  <2> QED BY <1>4, <2>1, <2>2, <2>3, <2>4 DEF DraftRecords
<1>6. p = [o EXCEPT !.drafts = drafts, !.items = items]
  <2>1. p = [o EXCEPT !.drafts[d] = new, !.items = IF c.change = "put_note" THEN @ + 1 ELSE @]
    BY <1>1 DEF Perform
  <2> HIDE DEF p, new
  <2> QED BY <2>1, OwnerParts
<1> HIDE DEF p, new, items
<1>7. /\ drafts \in Seq(DraftRecords) /\ DOMAIN drafts = DOMAIN o.drafts
      /\ Len(drafts) = Len(o.drafts)
      /\ drafts[d] = new /\ \A e \in DOMAIN o.drafts : e # d => drafts[e] = o.drafts[e]
  <2> HIDE DEF d
  <2> QED BY <1>2, <1>5, OwnerParts
<1> HIDE DEF drafts
<1>8. p = [items |-> items, revisions |-> o.revisions, drafts |-> drafts,
           previews |-> o.previews, receipts |-> o.receipts, enabled |-> o.enabled]
  <2> DEFINE a == o.items
             b == o.revisions
             h == o.drafts
             e == o.previews
             f == o.receipts
             g == o.enabled
  <2>1. o = [items |-> a, revisions |-> b, drafts |-> h, previews |-> e, receipts |-> f,
             enabled |-> g]
    BY OwnerParts
  <2> HIDE DEF a, b, h, e, f, g
  <2>2. p = [items |-> items, revisions |-> b, drafts |-> drafts, previews |-> e,
             receipts |-> f, enabled |-> g]
    BY <1>6, <2>1
  <2> QED BY <2>2 DEF b, e, f, g
<1>9. /\ p.items = items /\ p.revisions = o.revisions /\ p.drafts = drafts
      /\ p.previews = o.previews /\ p.receipts = o.receipts /\ p.enabled = o.enabled
  BY <1>8
<1>10. \A e \in DOMAIN drafts : drafts[e].items \subseteq 1..items
  <2> SUFFICES ASSUME NEW e \in DOMAIN drafts  PROVE drafts[e].items \subseteq 1..items
    OBVIOUS
  <2>1. CASE e = d
    BY <1>5, <1>7, <2>1
  <2>2. CASE e # d
    <3>1. drafts[e].items \subseteq 1..o.items
      BY <1>7, <2>2, OwnerParts
    <3>2. 1..o.items \subseteq 1..items
      BY <1>3
    <3> QED BY <3>1, <3>2
  <2> QED BY <2>1, <2>2
<1>11. OwnerOk(p)
  <2>1. p \in Owners
    BY <1>3, <1>7, <1>8, OwnerParts DEF Owners
  <2> QED BY <1>3, <1>9, <1>10, <2>1, OwnerParts DEF OwnerOk
<1>12. Grown(o, p)
  <2>1. \A e \in DOMAIN o.drafts : drafts[e] = o.drafts[e] \/ drafts[e].version > o.drafts[e].version
    <3>1. new.version > old.version
      BY <1>2, <1>5, PatchFields
    <3> QED BY <1>7, <3>1
  <2>2. Issued(o, "item") <= Issued(p, "item")
    BY <1>3, <1>9 DEF Issued
  <2>3. \A k \in Kinds : k # "item" => Issued(p, k) = Issued(o, k) /\ Issued(o, k) \in Nat
    BY <1>7, <1>9, IssuedCounts DEF Issued, Kinds
  <2>4. \A k \in Kinds : Issued(o, k) <= Issued(p, k)
    BY <2>2, <2>3
  <2> QED BY <1>9, <2>1, <2>4 DEF Grown
<1> QED BY <1>11, <1>12 DEF p

(* What the owner does for a mutation it may take.                         *)
LEMMA PerformKeeps ==
  ASSUME NEW o, OwnerOk(o), NEW c \in MutationCalls, Takes(o, c)
  PROVE  /\ OwnerOk(Perform(o, c)) /\ Grown(o, Perform(o, c))
         /\ c.op \in {"pause", "commit", "resume"} => ReceiptOf(Perform(o, c), c.key) # {}
<1>1. CASE c.op = "create_draft"
  <2>1. c.revision \in Nat
    BY <1>1, MutationFields
  <2> QED BY <1>1, <2>1, CreateKeeps
<1>2. CASE c.op = "create_preview"
  <2>1. <<"draft", c.draft>> \in References(c)
    BY <1>2 DEF References
  <2>2. c.draft \in IssuedIds(o, "draft")
    BY <2>1 DEF Takes
  <2>3. c.draft \in Nat
    BY <1>2, MutationFields
  <2> QED BY <1>2, <2>2, <2>3, IssuedCounts, PreviewKeeps
<1>3. CASE c.op \in {"pause", "commit", "resume"}
  <2>1. c.key \in Keys
    BY <1>3, MutationFields
  <2>2. <<"revision", c.revision>> \in References(c)
        /\ (c.op = "commit" => <<"preview", c.preview>> \in References(c))
    BY <1>3 DEF References
  <2>3. c.revision \in IssuedIds(o, "revision")
        /\ (c.op = "commit" => c.preview \in IssuedIds(o, "preview"))
    BY <2>2 DEF Takes
  <2>4. o.revisions # <<>> /\ (c.op = "commit" => c.preview \in DOMAIN o.previews)
    BY <2>3, IssuedCounts
  <2> QED BY <1>3, <2>1, <2>4, CommandKeeps
<1>4. CASE c.op = "apply_patch"
  BY <1>4, MutationFields, PatchKeeps
<1> QED BY <1>1, <1>2, <1>3, <1>4, MutationFields DEF MutationOps

(* The owner switched on or off.                                           *)
LEMMA SwitchKeeps ==
  ASSUME NEW o, OwnerOk(o)
  PROVE  LET p == [o EXCEPT !.enabled = ~@] IN OwnerOk(p) /\ Grown(o, p)
<1> DEFINE p == [o EXCEPT !.enabled = ~@]
           on == ~o.enabled
<1>1. p = [items |-> o.items, revisions |-> o.revisions, drafts |-> o.drafts,
           previews |-> o.previews, receipts |-> o.receipts, enabled |-> on] /\ on \in BOOLEAN
  <2>1. p = [o EXCEPT !.enabled = on]
    BY OwnerParts
  <2> HIDE DEF p
  <2>2. on \in BOOLEAN
    BY OwnerParts
  <2>3. o = [items |-> o.items, revisions |-> o.revisions, drafts |-> o.drafts,
             previews |-> o.previews, receipts |-> o.receipts, enabled |-> o.enabled]
    BY OwnerParts
  <2> HIDE DEF on
  <2> QED BY <2>1, <2>2, <2>3
<1> HIDE DEF p, on
<1>2. /\ p.items = o.items /\ p.revisions = o.revisions /\ p.drafts = o.drafts
      /\ p.previews = o.previews /\ p.receipts = o.receipts
  BY <1>1
<1>3. p \in Owners
  BY <1>1, OwnerParts DEF Owners
<1>4. OwnerOk(p)
  BY <1>2, <1>3, OwnerParts DEF OwnerOk
<1>5. Grown(o, p)
  <2>1. \A k \in Kinds : Issued(p, k) = Issued(o, k) /\ Issued(o, k) \in Nat
    BY <1>2, IssuedCounts DEF Issued, Kinds
  <2>2. \A k \in Kinds : Issued(o, k) <= Issued(p, k)
    BY <2>1
  <2> QED BY <1>2, <2>2 DEF Grown
<1> QED BY <1>4, <1>5 DEF p

(* There is an answer to show of a mutation that was taken.                *)
LEMMA PerformAnswers ==
  ASSUME NEW o, OwnerOk(o), NEW c \in MutationCalls, Takes(o, c)
  PROVE  LET p == Perform(o, c)
         IN  /\ c.op \in {"create_draft", "apply_patch"} => ResultDraft(p, c) \in DOMAIN p.drafts
             /\ c.op = "create_preview" => Len(p.previews) \in DOMAIN p.previews
             /\ c.op \in {"pause", "commit", "resume"} => ReceiptOf(p, c.key) # {}
<1> DEFINE p == Perform(o, c)
<1>1. OwnerOk(p) /\ Grown(o, p) /\ (c.op \in {"pause", "commit", "resume"} => ReceiptOf(p, c.key) # {})
  BY PerformKeeps
<1>2. CASE c.op = "create_draft"
  <2> DEFINE new == [version |-> 1, base |-> c.revision, objective |-> None, items |-> {}]
  <2>1. p = [o EXCEPT !.drafts = Append(o.drafts, new)]
    BY <1>2 DEF Perform
  <2> HIDE DEF p, new
  <2>2. p.drafts = Append(o.drafts, new)
    BY <2>1, OwnerParts
  <2>3. Len(p.drafts) \in DOMAIN p.drafts
    <3>1. Len(o.drafts) \in Nat /\ Len(p.drafts) = Len(o.drafts) + 1 /\ p.drafts \in Seq(DraftRecords)
      BY <1>1, <2>2, OwnerParts
    <3> QED BY <3>1
  <2> QED BY <1>2, <2>3 DEF p, ResultDraft
<1>3. CASE c.op = "apply_patch"
  <2>1. c.draft \in DOMAIN o.drafts
    BY <1>3 DEF Takes, Current
  <2> HIDE DEF p
  <2>2. c.draft \in IssuedIds(o, "draft") /\ "draft" \in Kinds
    BY <2>1, IssuedCounts DEF Kinds
  <2>3. c.draft \in DOMAIN p.drafts
    BY <1>1, <2>2, GrownIssued, IssuedCounts
  <2> QED BY <1>3, <2>3 DEF p, ResultDraft
<1>4. CASE c.op = "create_preview"
  <2> DEFINE new == PreviewOf(o, c.draft)
  <2>1. p = [o EXCEPT !.previews = Append(o.previews, new)]
    BY <1>4 DEF Perform
  <2> HIDE DEF p, new
  <2>2. p.previews = Append(o.previews, new)
    BY <2>1, OwnerParts
  <2>3. Len(p.previews) \in DOMAIN p.previews
    <3>1. /\ Len(o.previews) \in Nat /\ Len(p.previews) = Len(o.previews) + 1
          /\ p.previews \in Seq(PreviewRecords)
      BY <1>1, <2>2, OwnerParts
    <3> QED BY <3>1
  <2> QED BY <1>4, <2>3 DEF p
<1>5. CASE c.op \in {"pause", "commit", "resume"}
  BY <1>1, <1>5
<1> QED BY <1>2, <1>3, <1>4, <1>5, MutationFields DEF MutationOps

-----------------------------------------------------------------------------
(* What answers make known.                                                *)

(* A receipt, and the revision it names.                                   *)
LEMMA CacheReceiptKeeps ==
  ASSUME NEW ix, NEW o, NEW le, IndexOk(ix, o, le), OwnerOk(o), NEW i \in DOMAIN o.receipts,
         NEW more, \A j \in Kinds : more[j] \subseteq le[j] \cup LearnedReceipt(o, i)[j]
  PROVE  IndexOk(CacheReceipt(ix, o, i), o, more)
<1> DEFINE r == o.receipts[i].active
           g == CacheId(ix, "receipt", i)
           between == [j \in Kinds |-> IF j = "receipt" THEN le[j] \cup {i} ELSE le[j]]
<1>1. i \in IssuedIds(o, "receipt") /\ r \in IssuedIds(o, "revision")
  BY IssuedCounts, OwnerParts
<1>2. CacheReceipt(ix, o, i) = CacheId(g, "revision", r)
  BY DEF CacheReceipt
<1>3. \A j \in Kinds : more[j] \subseteq between[j] \cup (IF j = "revision" THEN {r} ELSE {})
  <2>1. \A j \in Kinds : LearnedReceipt(o, i)[j] =
          IF j = "revision" THEN {r} ELSE IF j = "receipt" THEN {i} ELSE {}
    BY DEF LearnedReceipt, Only, NothingLearned, Kinds
  <2> HIDE DEF r
  <2> QED BY <2>1
<1>4. \A j \in Kinds : between[j] \subseteq le[j] \cup (IF j = "receipt" THEN {i} ELSE {})
  OBVIOUS
<1>5. "receipt" \in Kinds /\ "revision" \in Kinds /\ "receipt" # "draft" /\ "revision" # "draft"
  BY DEF Kinds
<1> HIDE DEF r, g, between
<1>6. IndexOk(g, o, between)
  BY <1>1, <1>4, <1>5, CacheIdKeeps DEF g
<1>7. IndexOk(CacheId(g, "revision", r), o, more)
  BY <1>1, <1>3, <1>5, <1>6, CacheIdKeeps
<1> QED BY <1>2, <1>7

(* The answer of a mutation.                                               *)
LEMMA CacheResultKeeps ==
  ASSUME NEW ix, NEW o, NEW le, IndexOk(ix, o, le), OwnerOk(o), NEW c \in MutationCalls,
         c.op \in {"create_draft", "apply_patch"} => ResultDraft(o, c) \in DOMAIN o.drafts,
         c.op = "create_preview" => Len(o.previews) \in DOMAIN o.previews,
         c.op \in {"pause", "commit", "resume"} => ReceiptOf(o, c.key) # {},
         NEW more, \A j \in Kinds : more[j] \subseteq le[j] \cup LearnedResult(o, c)[j]
  PROVE  IndexOk(CacheResult(ix, o, c), o, more)
<1>1. CASE c.op \in {"create_draft", "apply_patch"}
  <2> DEFINE d == ResultDraft(o, c)
             draft == o.drafts[d]
  <2>1. CacheResult(ix, o, c) = CacheDraft(ix, d, draft)
    BY <1>1 DEF CacheResult
  <2>2. \A j \in Kinds : LearnedResult(o, c)[j] =
          IF j = "draft" THEN {d} ELSE IF j = "item" THEN draft.items ELSE {}
    <3>1. LearnedResult(o, c) = [Only("draft", {d}) EXCEPT !["item"] = draft.items]
      BY <1>1 DEF LearnedResult
    <3> HIDE DEF d, draft
    <3> QED BY <3>1 DEF Only, NothingLearned, Kinds
  <2>3. Cached(draft, d, o)
    <3>1. draft \in DraftRecords /\ draft.items \subseteq 1..o.items /\ d \in DOMAIN o.drafts
      BY <1>1, OwnerParts
    <3>2. draft.version \in Nat
      BY <3>1 DEF DraftRecords
    <3> QED BY <3>1, <3>2 DEF Cached
  <2> HIDE DEF d, draft
  <2>4. \A j \in Kinds : more[j] \subseteq
          le[j] \cup (IF j = "draft" THEN {d} ELSE IF j = "item" THEN draft.items ELSE {})
    BY <2>2
  <2>5. IndexOk(CacheDraft(ix, d, draft), o, more)
    BY <2>3, <2>4, CacheDraftKeeps
  <2> QED BY <2>1, <2>5
<1>2. CASE c.op = "create_preview"
  <2> DEFINE x == Len(o.previews)
  <2>1. CacheResult(ix, o, c) = CacheId(ix, "preview", x)
    BY <1>2 DEF CacheResult
  <2>2. \A j \in Kinds : LearnedResult(o, c)[j] = IF j = "preview" THEN {x} ELSE {}
    <3>1. LearnedResult(o, c) = Only("preview", {x})
      BY <1>2 DEF LearnedResult
    <3> HIDE DEF x
    <3> QED BY <3>1 DEF Only, NothingLearned, Kinds
  <2>3. x \in IssuedIds(o, "preview") /\ "preview" \in Kinds /\ "preview" # "draft"
    BY <1>2, IssuedCounts DEF Kinds
  <2> HIDE DEF x
  <2>4. \A j \in Kinds : more[j] \subseteq le[j] \cup (IF j = "preview" THEN {x} ELSE {})
    BY <2>2
  <2>5. IndexOk(CacheId(ix, "preview", x), o, more)
    BY <2>3, <2>4, CacheIdKeeps
  <2> QED BY <2>1, <2>5
<1>3. CASE c.op \in {"pause", "commit", "resume"}
  <2> DEFINE i == CHOOSE i \in ReceiptOf(o, c.key) : TRUE
  <2>1. i \in ReceiptOf(o, c.key)
    <3>1. \E n \in ReceiptOf(o, c.key) : TRUE
      BY <1>3
    <3> QED BY <3>1, Zenon
  <2>2. i \in DOMAIN o.receipts
    <3> HIDE DEF i
    <3> QED BY <2>1 DEF ReceiptOf
  <2>3. CacheResult(ix, o, c) = CacheReceipt(ix, o, i) /\ LearnedResult(o, c) = LearnedReceipt(o, i)
    BY <1>3 DEF CacheResult, LearnedResult
  <2> HIDE DEF i
  <2> QED BY <2>2, <2>3, CacheReceiptKeeps
<1> QED BY <1>1, <1>2, <1>3, MutationFields DEF MutationOps

-----------------------------------------------------------------------------
(* Calls and their checks.                                                 *)

MutationChecks == {"known", "version", "note", "content", "authority", "owner"}

(* The parts of a check.                                                   *)
LEMMA StepFields ==
  ASSUME NEW s \in CheckSteps
  PROVE  /\ s[1] = "known" => s[2] \in Kinds /\ s[3] \in Nat
         /\ s[1] = "reload" => s[2] \in Kinds
<1>1. CASE s \in {"reload"} \X Kinds
  BY <1>1
<1>2. CASE s \in {"known"} \X Kinds \X Nat
  BY <1>2
<1>3. CASE s \notin ({"reload"} \X Kinds) \cup ({"known"} \X Kinds \X Nat)
  BY <1>3 DEF CheckSteps
<1> QED BY <1>1, <1>2, <1>3

(* A check that a reference is known.                                      *)
LEMMA KnownStep ==
  ASSUME NEW k \in Kinds, NEW x \in Nat
  PROVE  <<"known", k, x>> \in CheckSteps
BY DEF CheckSteps

(* The checks without a parameter.                                         *)
LEMMA PlainSteps ==
  {<<"version">>, <<"note">>, <<"content">>, <<"authority">>, <<"owner">>, <<"capabilities">>,
   <<"permitted">>} \subseteq CheckSteps
BY DEF CheckSteps

(* Three lists one after the other.                                        *)
LEMMA ThreeLists ==
  ASSUME NEW S, NEW s \in Seq(S), NEW t \in Seq(S), NEW u \in Seq(S)
  PROVE  LET all == s \o t \o u
         IN  /\ all \in Seq(S) /\ Len(all) = Len(s) + Len(t) + Len(u)
             /\ \A i \in 1..Len(s) : all[i] = s[i]
             /\ \A i \in 1..Len(t) : all[Len(s) + i] = t[i]
             /\ \A i \in 1..Len(u) : all[Len(s) + Len(t) + i] = u[i]
<1> DEFINE a == Len(s)
           b == Len(t)
           c == Len(u)
           st == s \o t
           all == st \o u
<1>1. a \in Nat /\ b \in Nat /\ c \in Nat
  OBVIOUS
<1>2. /\ st \in Seq(S) /\ Len(st) = a + b
      /\ \A i \in 1..a + b : st[i] = IF i <= a THEN s[i] ELSE t[i - a]
  BY ConcatProperties
<1> HIDE DEF st
<1>3. /\ all \in Seq(S) /\ Len(all) = Len(st) + c
      /\ \A i \in 1..Len(st) + c : all[i] = IF i <= Len(st) THEN st[i] ELSE u[i - Len(st)]
  <2>1. st \in Seq(S)
    BY <1>2
  <2> QED BY <2>1, ConcatProperties, Zenon
<1> HIDE DEF a, b, c, all
<1>4. \A i \in 1..a + b + c : all[i] = IF i <= a + b THEN st[i] ELSE u[i - (a + b)]
  BY <1>1, <1>2, <1>3
<1>5. \A i \in 1..a : all[i] = s[i]
  <2> SUFFICES ASSUME NEW i \in 1..a  PROVE all[i] = s[i]
    OBVIOUS
  <2>1. i \in 1..a + b /\ i \in 1..a + b + c /\ i <= a /\ i <= a + b
    BY <1>1
  <2> QED BY <1>2, <1>4, <2>1
<1>6. \A i \in 1..b : all[a + i] = t[i]
  <2> SUFFICES ASSUME NEW i \in 1..b  PROVE all[a + i] = t[i]
    OBVIOUS
  <2> DEFINE j == a + i
  <2>1. j \in 1..a + b /\ j \in 1..a + b + c /\ ~(j <= a) /\ j <= a + b /\ j - a = i
    BY <1>1
  <2> HIDE DEF j
  <2>2. all[j] = st[j] /\ st[j] = t[j - a]
    BY <1>2, <1>4, <2>1
  <2> QED BY <2>1, <2>2 DEF j
<1>7. \A i \in 1..c : all[a + b + i] = u[i]
  <2> SUFFICES ASSUME NEW i \in 1..c  PROVE all[a + b + i] = u[i]
    OBVIOUS
  <2> DEFINE j == a + b + i
  <2>1. j \in 1..a + b + c /\ ~(j <= a + b) /\ j - (a + b) = i
    BY <1>1
  <2> HIDE DEF j
  <2>2. all[j] = u[j - (a + b)]
    BY <1>4, <2>1
  <2> QED BY <2>1, <2>2 DEF j
<1> QED BY <1>2, <1>3, <1>5, <1>6, <1>7 DEF a, b, c, all, st

(* Where the checks of a patch stand.                                      *)
LEMMA PatchOrder ==
  ASSUME NEW c \in PatchCalls
  PROVE  LET s == Checks(c)
         IN  /\ s \in Seq(CheckSteps) /\ Len(s) \in {5, 6, 7}
             /\ s[1] = <<"known", "draft", c.draft>> /\ s[2] = <<"version">>
             /\ s[3] = <<"known", "revision", c.revision>>
             /\ s[Len(s) - 1] = <<"authority">> /\ s[Len(s)] = <<"owner">>
             /\ c.change \in {"put_note", "set_objective"} => Len(s) = 5
             /\ c.change = "include_item" => Len(s) = 6 /\ s[4] = <<"known", "item", c.to>>
             /\ c.change = "remove_note" => Len(s) = 6 /\ s[4] = <<"note">>
             /\ c.change = "restore_configuration" =>
                  Len(s) = 7 /\ s[4] = <<"known", "revision", c.to>> /\ s[5] = <<"content">>
<1> DEFINE k == <<"known", "draft", c.draft>>
           v == <<"version">>
           r == <<"known", "revision", c.revision>>
           a == <<"authority">>
           w == <<"owner">>
           front == <<k, v, r>>
           change == ChangeChecks(c)
           back == <<a, w>>
           s == Checks(c)
<1>1. s = front \o change \o back
  BY PatchFields DEF Checks
<1>2. {k, v, r, a, w} \subseteq CheckSteps
  BY PatchFields, PlainSteps, KnownStep DEF Kinds
<1>3. /\ change \in Seq(CheckSteps) /\ Len(change) \in {0, 1, 2}
      /\ c.change \in {"put_note", "set_objective"} => Len(change) = 0
      /\ c.change = "include_item" => Len(change) = 1 /\ change[1] = <<"known", "item", c.to>>
      /\ c.change = "remove_note" => Len(change) = 1 /\ change[1] = <<"note">>
      /\ c.change = "restore_configuration" =>
           Len(change) = 2 /\ change[1] = <<"known", "revision", c.to>> /\ change[2] = <<"content">>
  <2> DEFINE i == <<"known", "item", c.to>>
             q == <<"known", "revision", c.to>>
             n == <<"note">>
             t == <<"content">>
  <2>1. n \in CheckSteps /\ t \in CheckSteps
    BY PlainSteps
  <2>2. CASE c.change \in {"put_note", "set_objective"}
    <3>1. change = <<>>
      BY <2>2 DEF ChangeChecks
    <3> HIDE DEF change
    <3> QED BY <2>2, <3>1
  <2>3. CASE c.change = "include_item"
    <3>1. change = <<i>>
      BY <2>3 DEF ChangeChecks
    <3>2. i \in CheckSteps
      BY <2>3, PatchFields, KnownStep DEF Kinds
    <3> HIDE DEF change, i
    <3>3. change \in Seq(CheckSteps) /\ Len(change) = 1 /\ change[1] = i
      BY <3>1, <3>2
    <3> QED BY <2>3, <3>3 DEF i
  <2>4. CASE c.change = "remove_note"
    <3>1. change = <<n>>
      BY <2>4 DEF ChangeChecks
    <3> HIDE DEF change, n
    <3>2. change \in Seq(CheckSteps) /\ Len(change) = 1 /\ change[1] = n
      BY <2>1, <3>1
    <3> QED BY <2>4, <3>2 DEF n
  <2>5. CASE c.change = "restore_configuration"
    <3>1. change = <<q, t>>
      BY <2>5 DEF ChangeChecks
    <3>2. q \in CheckSteps
      BY <2>5, PatchFields, KnownStep DEF Kinds
    <3> HIDE DEF change, q, t
    <3>3. change \in Seq(CheckSteps) /\ Len(change) = 2 /\ change[1] = q /\ change[2] = t
      BY <2>1, <3>1, <3>2
    <3> QED BY <2>5, <3>3 DEF q, t
  <2> QED BY <2>2, <2>3, <2>4, <2>5, PatchFields
<1> HIDE DEF k, v, r, a, w
<1>4. /\ front \in Seq(CheckSteps) /\ Len(front) = 3 /\ front[1] = k /\ front[2] = v
      /\ front[3] = r
  BY <1>2
<1>5. back \in Seq(CheckSteps) /\ Len(back) = 2 /\ back[1] = a /\ back[2] = w
  BY <1>2
<1> HIDE DEF front, back, change, s
<1>6. /\ s \in Seq(CheckSteps) /\ Len(s) = Len(front) + Len(change) + Len(back)
      /\ \A i \in 1..Len(front) : s[i] = front[i]
      /\ \A i \in 1..Len(change) : s[Len(front) + i] = change[i]
      /\ \A i \in 1..Len(back) : s[Len(front) + Len(change) + i] = back[i]
  <2>1. front \in Seq(CheckSteps) /\ change \in Seq(CheckSteps) /\ back \in Seq(CheckSteps)
    BY <1>3, <1>4, <1>5
  <2> DEFINE all == front \o change \o back
  <2>2. /\ all \in Seq(CheckSteps) /\ Len(all) = Len(front) + Len(change) + Len(back)
        /\ \A i \in 1..Len(front) : all[i] = front[i]
        /\ \A i \in 1..Len(change) : all[Len(front) + i] = change[i]
        /\ \A i \in 1..Len(back) : all[Len(front) + Len(change) + i] = back[i]
    BY <2>1, ThreeLists
  <2>3. s = all
    BY <1>1
  <2> HIDE DEF all
  <2> QED BY <2>2, <2>3
<1> DEFINE m == Len(change)
<1>7. m \in {0, 1, 2} /\ Len(s) = 5 + m
  BY <1>3, <1>4, <1>5, <1>6
<1> HIDE DEF m
<1>8. s[1] = k /\ s[2] = v /\ s[3] = r /\ s[4 + m] = a /\ s[5 + m] = w
      /\ (m >= 1 => s[4] = change[1]) /\ (m = 2 => s[5] = change[2])
  <2>1. /\ \A i \in 1..3 : s[i] = front[i]
        /\ \A i \in 1..m : s[3 + i] = change[i]
        /\ \A i \in 1..2 : s[3 + m + i] = back[i]
    <3>1. Len(front) = 3 /\ Len(back) = 2 /\ Len(change) = m
      BY <1>4, <1>5 DEF m
    <3>2. \A i \in 1..3 : s[i] = front[i]
      BY <1>6, <3>1
    <3>3. \A i \in 1..m : s[3 + i] = change[i]
      BY <1>6, <3>1
    <3>4. \A i \in 1..2 : s[3 + m + i] = back[i]
      BY <1>6, <3>1
    <3> QED BY <3>2, <3>3, <3>4
  <2>2. s[1] = k /\ s[2] = v /\ s[3] = r
    BY <1>4, <2>1
  <2>3. s[3 + m + 1] = a /\ s[3 + m + 2] = w
    BY <1>5, <2>1
  <2>4. 3 + m + 1 = 4 + m /\ 3 + m + 2 = 5 + m
    BY <1>7
  <2>5. m >= 1 => s[3 + 1] = change[1]
    BY <1>7, <2>1
  <2>6. m = 2 => s[3 + 2] = change[2]
    BY <1>7, <2>1
  <2> QED BY <2>2, <2>3, <2>4, <2>5, <2>6
<1>9. Len(s) - 1 = 4 + m /\ Len(s) \in {5, 6, 7} /\ Len(s) = 5 + m
  BY <1>7
<1>10. s[Len(s) - 1] = a /\ s[Len(s)] = w
  BY <1>8, <1>9
<1>11. /\ c.change \in {"put_note", "set_objective"} => Len(s) = 5
       /\ c.change = "include_item" => Len(s) = 6 /\ s[4] = <<"known", "item", c.to>>
       /\ c.change = "remove_note" => Len(s) = 6 /\ s[4] = <<"note">>
       /\ c.change = "restore_configuration" =>
            Len(s) = 7 /\ s[4] = <<"known", "revision", c.to>> /\ s[5] = <<"content">>
  <2>1. /\ c.change \in {"put_note", "set_objective"} => m = 0
        /\ c.change = "include_item" => m = 1 /\ change[1] = <<"known", "item", c.to>>
        /\ c.change = "remove_note" => m = 1 /\ change[1] = <<"note">>
        /\ c.change = "restore_configuration" =>
             m = 2 /\ change[1] = <<"known", "revision", c.to>> /\ change[2] = <<"content">>
    BY <1>3 DEF m
  <2>2. (m = 0 => Len(s) = 5) /\ (m = 1 => Len(s) = 6 /\ s[4] = change[1])
        /\ (m = 2 => Len(s) = 7 /\ s[4] = change[1] /\ s[5] = change[2])
    BY <1>7, <1>8, <1>9
  <2> QED BY <2>1, <2>2
<1> QED BY <1>6, <1>8, <1>9, <1>10, <1>11 DEF k, v, r, a, w, s

(* Which of a patch's checks stand where.                                  *)
LEMMA PatchPositions ==
  ASSUME NEW c \in PatchCalls, NEW i \in DOMAIN Checks(c)
  PROVE  LET s == Checks(c)[i]
         IN  /\ s[1] \in MutationChecks
             /\ s[1] = "known" /\ s[2] = "draft" => i = 1
             /\ s[1] = "version" => i = 2
             /\ s[1] = "note" => i = 4 /\ c.change = "remove_note"
             /\ s[1] = "content" => i = 5 /\ c.change = "restore_configuration"
             /\ s[1] = "authority" => i = Len(Checks(c)) - 1
<1> DEFINE all == Checks(c)
           n == Len(all)
           s == all[i]
<1>1. /\ all \in Seq(CheckSteps) /\ n \in {5, 6, 7}
      /\ all[1] = <<"known", "draft", c.draft>> /\ all[2] = <<"version">>
      /\ all[3] = <<"known", "revision", c.revision>>
      /\ all[n - 1] = <<"authority">> /\ all[n] = <<"owner">>
      /\ c.change \in {"put_note", "set_objective"} => n = 5
      /\ c.change = "include_item" => n = 6 /\ all[4] = <<"known", "item", c.to>>
      /\ c.change = "remove_note" => n = 6 /\ all[4] = <<"note">>
      /\ c.change = "restore_configuration" =>
           n = 7 /\ all[4] = <<"known", "revision", c.to>> /\ all[5] = <<"content">>
  BY PatchOrder
<1>2. i \in 1..n /\ n \in Nat
  BY <1>1
<1> HIDE DEF all, n
<1>3. CASE i \in {1, 2, 3}
  BY <1>1, <1>3 DEF MutationChecks, all
<1>4. CASE i \in {n - 1, n} /\ i \notin {1, 2, 3}
  <2>1. (all[i] = <<"authority">> /\ i = n - 1) \/ all[i] = <<"owner">>
    BY <1>1, <1>4
  <2> QED BY <1>4, <2>1 DEF MutationChecks, n, all
<1>5. CASE i \notin {1, 2, 3, n - 1, n}
  <2>1. \/ i = 4 /\ c.change = "include_item" /\ all[4] = <<"known", "item", c.to>>
        \/ i = 4 /\ c.change = "remove_note" /\ all[4] = <<"note">>
        \/ /\ c.change = "restore_configuration"
           /\ \/ i = 4 /\ all[4] = <<"known", "revision", c.to>>
              \/ i = 5 /\ all[5] = <<"content">>
    BY <1>1, <1>2, <1>5, PatchFields
  <2> QED BY <2>1 DEF MutationChecks, n, all
<1> QED BY <1>3, <1>4, <1>5

(* The checks of the other mutations.                                      *)
LEMMA OtherChecks ==
  ASSUME NEW c \in MutationCalls, c.op # "apply_patch"
  PROVE  LET s == Checks(c)
         IN  /\ s \in Seq(CheckSteps)
             /\ c.op \in {"create_draft", "pause"} =>
                  Len(s) = 2 /\ s[1] = <<"known", "revision", c.revision>> /\ s[2] = <<"owner">>
             /\ c.op = "create_preview" =>
                  Len(s) = 2 /\ s[1] = <<"known", "draft", c.draft>> /\ s[2] = <<"owner">>
             /\ c.op \in {"commit", "resume"} =>
                  /\ Len(s) = 3 /\ s[1] = <<"known", "revision", c.revision>>
                  /\ s[2] = <<"known", "preview", c.preview>> /\ s[3] = <<"owner">>
<1> DEFINE d == <<"known", "draft", c.draft>>
           r == <<"known", "revision", c.revision>>
           p == <<"known", "preview", c.preview>>
           w == <<"owner">>
           s == Checks(c)
<1>1. w \in CheckSteps
  BY PlainSteps
<1>2. CASE c.op \in {"create_draft", "pause"}
  <2>1. r \in CheckSteps
    BY <1>2, MutationFields, KnownStep DEF Kinds
  <2>2. s = <<r, w>>
    BY <1>2 DEF Checks
  <2> HIDE DEF r, w, s
  <2>3. s \in Seq(CheckSteps) /\ Len(s) = 2 /\ s[1] = r /\ s[2] = w
    BY <1>1, <2>1, <2>2
  <2> QED BY <1>2, <2>3 DEF r, w, s
<1>3. CASE c.op = "create_preview"
  <2>1. d \in CheckSteps
    BY <1>3, MutationFields, KnownStep DEF Kinds
  <2>2. s = <<d, w>>
    BY <1>3 DEF Checks
  <2> HIDE DEF d, w, s
  <2>3. s \in Seq(CheckSteps) /\ Len(s) = 2 /\ s[1] = d /\ s[2] = w
    BY <1>1, <2>1, <2>2
  <2> QED BY <1>3, <2>3 DEF d, w, s
<1>4. CASE c.op \in {"commit", "resume"}
  <2>1. r \in CheckSteps /\ p \in CheckSteps
    BY <1>4, MutationFields, KnownStep DEF Kinds
  <2>2. s = <<r, p, w>>
    BY <1>4 DEF Checks
  <2> HIDE DEF r, p, w, s
  <2>3. s \in Seq(CheckSteps) /\ Len(s) = 3 /\ s[1] = r /\ s[2] = p /\ s[3] = w
    BY <1>1, <2>1, <2>2
  <2> QED BY <1>4, <2>3 DEF r, p, w, s
<1> QED BY <1>2, <1>3, <1>4, MutationFields DEF MutationOps

(* What the checks of a mutation are at most, and which stand first.       *)
LEMMA MutationPositions ==
  ASSUME NEW c \in MutationCalls
  PROVE  /\ Checks(c) \in Seq(CheckSteps)
         /\ \A i \in DOMAIN Checks(c) :
              LET s == Checks(c)[i]
              IN  /\ s[1] \in MutationChecks
                  /\ s[1] = "known" /\ s[2] = "draft" => i = 1
                  /\ s[1] \in {"version", "note", "content", "authority"} => c \in PatchCalls
<1>1. CASE c.op = "apply_patch"
  <2>1. c \in PatchCalls
    BY <1>1, MutationFields
  <2> QED BY <2>1, PatchOrder, PatchPositions
<1>2. CASE c.op # "apply_patch"
  <2>1. Checks(c) \in Seq(CheckSteps)
    BY <1>2, OtherChecks
  <2>2. ASSUME NEW i \in DOMAIN Checks(c)
        PROVE  LET s == Checks(c)[i]
               IN  s[1] \in {"known", "owner"} /\ (s[1] = "known" /\ s[2] = "draft" => i = 1)
    <3> DEFINE s == Checks(c)
    <3>1. i \in 1..Len(s)
      BY <2>1
    <3>2. /\ c.op \in {"create_draft", "pause"} =>
               Len(s) = 2 /\ s[1] = <<"known", "revision", c.revision>> /\ s[2] = <<"owner">>
          /\ c.op = "create_preview" =>
               Len(s) = 2 /\ s[1] = <<"known", "draft", c.draft>> /\ s[2] = <<"owner">>
          /\ c.op \in {"commit", "resume"} =>
               /\ Len(s) = 3 /\ s[1] = <<"known", "revision", c.revision>>
               /\ s[2] = <<"known", "preview", c.preview>> /\ s[3] = <<"owner">>
      BY <1>2, OtherChecks
    <3>3. c.op \in {"create_draft", "pause", "create_preview", "commit", "resume"}
      BY <1>2, MutationFields DEF MutationOps
    <3> HIDE DEF s
    <3>4. CASE c.op \in {"create_draft", "pause"}
      BY <3>1, <3>2, <3>4 DEF s
    <3>5. CASE c.op = "create_preview"
      BY <3>1, <3>2, <3>5 DEF s
    <3>6. CASE c.op \in {"commit", "resume"}
      BY <3>1, <3>2, <3>6 DEF s
    <3> QED BY <3>3, <3>4, <3>5, <3>6
  <2> QED BY <2>1, <2>2 DEF MutationChecks
<1> QED BY <1>1, <1>2

(* A mutation whose checks have all passed carries issued references.      *)
LEMMA ReferencesChecked ==
  ASSUME NEW c \in MutationCalls, NEW o, NEW ix,
         \A i \in 1..Len(Checks(c)) : Passed(Checks(c)[i], c, o, ix)
  PROVE  \A r \in References(c) : r[2] \in IssuedIds(o, r[1])
<1> DEFINE all == Checks(c)
<1>1. ASSUME NEW k, NEW x, NEW i \in 1..Len(all), all[i] = <<"known", k, x>>
      PROVE  x \in IssuedIds(o, k)
  <2>1. Passed(<<"known", k, x>>, c, o, ix)
    BY <1>1
  <2> QED BY <2>1 DEF Passed
<1>2. CASE c.op = "apply_patch"
  <2>1. c \in PatchCalls
    BY <1>2, MutationFields
  <2>2. /\ Len(all) \in {5, 6, 7}
        /\ all[1] = <<"known", "draft", c.draft>> /\ all[3] = <<"known", "revision", c.revision>>
        /\ c.change = "include_item" => all[4] = <<"known", "item", c.to>>
        /\ c.change = "remove_note" => all[4] = <<"note">> /\ Len(all) = 6
        /\ c.change = "restore_configuration" => all[4] = <<"known", "revision", c.to>> /\ Len(all) = 7
        /\ c.change = "include_item" => Len(all) = 6
    BY <2>1, PatchOrder
  <2> HIDE DEF all
  <2>3. 1 \in 1..Len(all) /\ 3 \in 1..Len(all)
        /\ (c.change \in {"include_item", "remove_note", "restore_configuration"} => 4 \in 1..Len(all))
    BY <2>2
  <2>4. c.draft \in IssuedIds(o, "draft") /\ c.revision \in IssuedIds(o, "revision")
    BY <1>1, <2>2, <2>3
  <2>5. CASE c.change = "include_item"
    <3>1. c.to \in IssuedIds(o, "item")
      BY <1>1, <2>2, <2>3, <2>5
    <3>2. References(c) = {<<"draft", c.draft>>, <<"revision", c.revision>>, <<"item", c.to>>}
      BY <1>2, <2>5 DEF References
    <3> QED BY <2>4, <3>1, <3>2
  <2>6. CASE c.change = "remove_note"
    <3>1. Passed(all[4], c, o, ix) /\ all[4][1] = "note"
      BY <2>2, <2>3, <2>6 DEF all
    <3>2. c.to \in IssuedIds(o, "item")
      BY <3>1 DEF Passed
    <3>3. References(c) = {<<"draft", c.draft>>, <<"revision", c.revision>>, <<"item", c.to>>}
      BY <1>2, <2>6 DEF References
    <3> QED BY <2>4, <3>2, <3>3
  <2>7. CASE c.change = "restore_configuration"
    <3>1. c.to \in IssuedIds(o, "revision")
      BY <1>1, <2>2, <2>3, <2>7
    <3>2. References(c) = {<<"draft", c.draft>>, <<"revision", c.revision>>, <<"revision", c.to>>}
      BY <1>2, <2>7 DEF References
    <3> QED BY <2>4, <3>1, <3>2
  <2>8. CASE c.change \in {"put_note", "set_objective"}
    <3>1. References(c) = {<<"draft", c.draft>>, <<"revision", c.revision>>}
      BY <1>2, <2>8 DEF References
    <3> QED BY <2>4, <3>1
  <2> QED BY <2>1, <2>5, <2>6, <2>7, <2>8, PatchFields
<1>3. CASE c.op # "apply_patch"
  <2>1. /\ c.op \in {"create_draft", "pause"} =>
             Len(all) = 2 /\ all[1] = <<"known", "revision", c.revision>>
        /\ c.op = "create_preview" => Len(all) = 2 /\ all[1] = <<"known", "draft", c.draft>>
        /\ c.op \in {"commit", "resume"} =>
             /\ Len(all) = 3 /\ all[1] = <<"known", "revision", c.revision>>
             /\ all[2] = <<"known", "preview", c.preview>>
    BY <1>3, OtherChecks
  <2> HIDE DEF all
  <2>2. CASE c.op \in {"create_draft", "pause"}
    <3>1. 1 \in 1..Len(all) /\ References(c) = {<<"revision", c.revision>>}
      BY <2>1, <2>2 DEF References
    <3>2. c.revision \in IssuedIds(o, "revision")
      BY <1>1, <2>1, <2>2, <3>1
    <3> QED BY <3>1, <3>2
  <2>3. CASE c.op = "create_preview"
    <3>1. 1 \in 1..Len(all)
      BY <2>1, <2>3
    <3>2. References(c) = {<<"draft", c.draft>>}
      BY <2>3 DEF References
    <3>3. c.draft \in IssuedIds(o, "draft")
      BY <1>1, <2>1, <2>3, <3>1
    <3> QED BY <3>2, <3>3
  <2>4. CASE c.op \in {"commit", "resume"}
    <3>1. 1 \in 1..Len(all) /\ 2 \in 1..Len(all)
          /\ References(c) = {<<"revision", c.revision>>, <<"preview", c.preview>>}
      BY <2>1, <2>4 DEF References
    <3>2. c.revision \in IssuedIds(o, "revision") /\ c.preview \in IssuedIds(o, "preview")
      BY <1>1, <2>1, <2>4, <3>1
    <3> QED BY <3>1, <3>2
  <2> QED BY <1>3, <2>2, <2>3, <2>4, MutationFields DEF MutationOps
<1> QED BY <1>2, <1>3

(* What a patch's checks up to the authority say of the owner and index.   *)
LEMMA PatchChecked ==
  ASSUME NEW c \in PatchCalls, NEW o, NEW ix, NEW n \in Nat, n >= Len(Checks(c)) - 2,
         n <= Len(Checks(c)), \A i \in 1..n : Passed(Checks(c)[i], c, o, ix)
  PROVE  /\ c.draft \in DOMAIN ix.drafts /\ ix.drafts[c.draft].version = c.version
         /\ c.revision \in IssuedIds(o, "revision")
         /\ c.change = "restore_configuration" => c.to \in IssuedIds(o, "revision")
<1> DEFINE all == Checks(c)
<1>1. /\ Len(all) \in {5, 6, 7}
      /\ all[2] = <<"version">> /\ all[3] = <<"known", "revision", c.revision>>
      /\ c.change = "restore_configuration" =>
           all[4] = <<"known", "revision", c.to>> /\ Len(all) = 7
  BY PatchOrder
<1> HIDE DEF all
<1>2. 2 \in 1..n /\ 3 \in 1..n /\ (c.change = "restore_configuration" => 4 \in 1..n)
  <2> DEFINE m == Len(Checks(c))
  <2>1. m \in {5, 6, 7} /\ n >= m - 2 /\ (c.change = "restore_configuration" => m = 7)
    BY <1>1 DEF all
  <2> HIDE DEF m
  <2> QED BY <2>1
<1>3. Passed(<<"version">>, c, o, ix) /\ Passed(<<"known", "revision", c.revision>>, c, o, ix)
  BY <1>1, <1>2 DEF all
<1>4. c.change = "restore_configuration" => Passed(<<"known", "revision", c.to>>, c, o, ix)
  BY <1>1, <1>2 DEF all
<1> QED BY <1>3, <1>4 DEF Passed

(* An owner whose version the cached draft has is the one it was cached    *)
(* from, and what its patch needs is decided by the cached draft.          *)
LEMMA CachedIsCurrent ==
  ASSUME NEW c \in PatchCalls, NEW o, NEW ix, NEW le, IndexOk(ix, o, le), Current(o, c),
         c.draft \in DOMAIN ix.drafts, ix.drafts[c.draft].version = c.version
  PROVE  ix.drafts[c.draft] = o.drafts[c.draft]
BY DEF IndexOk, DraftsOk, Cached, Current

(* Checks that have passed have passed for the grown owner too.            *)
LEMMA PassedGrown ==
  ASSUME NEW c \in MutationCalls, NEW o, NEW p, NEW ix, NEW le, IndexOk(ix, o, le),
         OwnerOk(o), OwnerOk(p), Grown(o, p), NEW n \in 0..Len(Checks(c)),
         \A i \in 1..n : Passed(Checks(c)[i], c, o, ix)
  PROVE  \A i \in 1..n : Passed(Checks(c)[i], c, p, ix)
<1> SUFFICES ASSUME NEW i \in 1..n  PROVE Passed(Checks(c)[i], c, p, ix)
  OBVIOUS
<1> DEFINE s == Checks(c)[i]
<1>1. Checks(c) \in Seq(CheckSteps) /\ Len(Checks(c)) \in Nat
  BY MutationPositions
<1>2. i \in DOMAIN Checks(c) /\ s \in CheckSteps /\ Passed(s, c, o, ix)
  BY <1>1
<1>3. \A k \in Kinds : IssuedIds(o, k) \subseteq IssuedIds(p, k)
  BY GrownIssued
<1>4. s[1] \in {"version", "note", "content", "authority"} => c \in PatchCalls
  BY <1>2, MutationPositions
<1>5. s[1] = "authority" /\ c \in PatchCalls => i = Len(Checks(c)) - 1
  BY <1>2, PatchPositions
<1> HIDE DEF s
<1>6. s[1] = "known" => s[3] \in IssuedIds(p, s[2])
  BY <1>2, <1>3, StepFields DEF Passed
<1>7. s[1] = "note" => c.to \in IssuedIds(p, "item")
  BY <1>2, <1>3 DEF Passed, Kinds
<1>8. ASSUME s[1] = "authority", Current(p, c)
      PROVE  c.objective <=> NeedsObjective(p, c)
  <2> DEFINE d == c.draft
  <2>1. c \in PatchCalls /\ i = Len(Checks(c)) - 1
    BY <1>4, <1>5, <1>8
  <2>2. n >= Len(Checks(c)) - 2 /\ n <= Len(Checks(c)) /\ n \in Nat
    BY <1>1, <2>1
  <2>3. /\ d \in DOMAIN ix.drafts /\ ix.drafts[d].version = c.version
        /\ c.revision \in IssuedIds(o, "revision")
        /\ c.change = "restore_configuration" => c.to \in IssuedIds(o, "revision")
    BY <2>1, <2>2, PatchChecked
  <2>4. d \in DOMAIN o.drafts /\ c.version <= o.drafts[d].version /\ c.version \in Nat
        /\ o.drafts[d].version \in Nat
    <3>1. Cached(ix.drafts[d], d, o)
      BY <2>3 DEF IndexOk, DraftsOk
    <3>2. d \in DOMAIN o.drafts /\ o.drafts[d] \in DraftRecords
      BY <3>1, OwnerParts DEF Cached
    <3> QED BY <2>1, <2>3, <3>1, <3>2, PatchFields DEF Cached, DraftRecords
  <2>5. p.drafts[d] = o.drafts[d]
    <3>1. p.drafts[d].version = c.version
      BY <1>8 DEF Current
    <3> QED BY <2>4, <3>1 DEF Grown
  <2>6. c.revision = Active(o)
    <3>1. c.revision = Len(p.revisions) /\ c.revision \in 1..Len(o.revisions)
      BY <1>8, <2>3 DEF Current, Active, IssuedIds, Issued
    <3>2. Len(o.revisions) <= Len(p.revisions) /\ Len(o.revisions) \in Nat /\ Len(p.revisions) \in Nat
      BY OwnerParts DEF Grown, Issued, Kinds
    <3> QED BY <3>1, <3>2 DEF Active
  <2>7. Current(o, c)
    <3>1. o.drafts[d].version = c.version
      BY <1>8, <2>5 DEF Current
    <3> QED BY <2>4, <2>6, <3>1 DEF Current
  <2>8. c.objective <=> NeedsObjective(o, c)
    BY <1>2, <1>8, <2>7 DEF Passed
  <2>9. c.change = "restore_configuration" => p.revisions[c.to] = o.revisions[c.to]
    BY <2>3, IssuedCounts DEF Grown
  <2>10. ObjectiveAfter(p, c) = ObjectiveAfter(o, c)
    BY <2>5, <2>9 DEF ObjectiveAfter
  <2>11. NeedsObjective(p, c) <=> NeedsObjective(o, c)
    BY <2>5, <2>10 DEF NeedsObjective
  <2> QED BY <2>8, <2>11
<1>9. s[1] = "version" => c.draft \in DOMAIN ix.drafts /\ ix.drafts[c.draft].version = c.version
  BY <1>2 DEF Passed
<1> QED BY <1>6, <1>7, <1>8, <1>9 DEF Passed, s

-----------------------------------------------------------------------------
(* The call being served.                                                  *)

(* No read is a mutation.                                                  *)
LEMMA CallKinds ==
  ASSUME NEW c \in ReadCalls
  PROVE  c \notin MutationCalls /\ c.op \notin MutationOps
BY DEF ReadCalls, MutationCalls, PatchCalls, MutationOps

(* The parts of a job.                                                     *)
LEMMA JobParts ==
  ASSUME NEW j, NEW todo
  PROVE  LET k == [j EXCEPT !.todo = todo]
         IN  j = [request |-> j.request, call |-> j.call, todo |-> j.todo] =>
               /\ k = [request |-> k.request, call |-> k.call, todo |-> k.todo]
               /\ k.request = j.request /\ k.call = j.call /\ k.todo = todo
<1> DEFINE a == j.request
           b == j.call
           t == j.todo
           k == [j EXCEPT !.todo = todo]
<1> SUFFICES ASSUME j = [request |-> a, call |-> b, todo |-> t]
             PROVE  /\ k = [request |-> k.request, call |-> k.call, todo |-> k.todo]
                    /\ k.request = a /\ k.call = b /\ k.todo = todo
  OBVIOUS
<1> HIDE DEF a, b, t
<1>1. k = [request |-> a, call |-> b, todo |-> todo]
  OBVIOUS
<1> HIDE DEF k
<1> QED BY <1>1

(* A mutation at a check: those before it have passed.                     *)
Facing(todo, c, n, o, ix) ==
  /\ n + 1 \in DOMAIN Checks(c) /\ Head(todo) = Checks(c)[n + 1]
  /\ \A i \in 1..n : Passed(Checks(c)[i], c, o, ix)
  /\ Len(Checks(c)) = (n + 1) + Len(Tail(todo))
  /\ \A i \in DOMAIN Tail(todo) : Tail(todo)[i] = Checks(c)[(n + 1) + i]

(* The check a call is at.                                                 *)
LEMMA HeadCheck ==
  ASSUME NEW j, NEW o, NEW ix, JobOk(j, o, ix), j.todo # <<>>
  PROVE  /\ Head(j.todo) \in CheckSteps /\ Tail(j.todo) \in Seq(CheckSteps)
         /\ j.call \in ReadCalls =>
              /\ Head(j.todo)[1] \in ReadChecks
              /\ \A i \in DOMAIN Tail(j.todo) : Tail(j.todo)[i][1] \in ReadChecks
         /\ j.call \in MutationCalls => \E n \in Nat : Facing(j.todo, j.call, n, o, ix)
<1> DEFINE t == j.todo
           c == j.call
           u == Tail(t)
<1>1. t \in Seq(CheckSteps)
  BY DEF JobOk
<1>2. /\ Head(t) = t[1] /\ Head(t) \in CheckSteps /\ u \in Seq(CheckSteps)
      /\ Len(t) = Len(u) + 1 /\ Len(u) \in Nat
      /\ \A i \in DOMAIN u : u[i] = t[i + 1] /\ i + 1 \in DOMAIN t
      /\ 1 \in DOMAIN t
  <2> HIDE DEF t
  <2> QED BY <1>1 DEF t
<1>3. ASSUME c \in ReadCalls
      PROVE  Head(t)[1] \in ReadChecks /\ \A i \in DOMAIN u : u[i][1] \in ReadChecks
  <2>1. \A i \in DOMAIN t : t[i][1] \in ReadChecks
    BY <1>3 DEF JobOk
  <2> HIDE DEF t, u
  <2> QED BY <1>2, <2>1
<1>4. ASSUME c \in MutationCalls
      PROVE  \E n \in Nat : Facing(t, c, n, o, ix)
  <2>1. PICK n \in 0..Len(Checks(c)) : Advanced(t, c, n, o, ix)
    BY <1>4 DEF JobOk
  <2> DEFINE all == Checks(c)
             m == Len(all)
  <2>2. all \in Seq(CheckSteps) /\ m \in Nat /\ DOMAIN all = 1..m
    BY <1>4, MutationPositions
  <2>3. /\ m = n + Len(t) /\ \A i \in DOMAIN t : t[i] = all[n + i]
        /\ \A i \in 1..n : Passed(all[i], c, o, ix)
    BY <2>1 DEF Advanced
  <2>4. n \in Nat
    BY <2>2
  <2> HIDE DEF all, m, t, u, c
  <2>5. n + 1 \in 1..m /\ m = (n + 1) + Len(u)
    BY <1>2, <2>2, <2>3, <2>4
  <2>6. Head(t) = all[n + 1]
    BY <1>2, <2>3
  <2>7. \A i \in DOMAIN u : u[i] = all[(n + 1) + i]
    <3> SUFFICES ASSUME NEW i \in DOMAIN u  PROVE u[i] = all[(n + 1) + i]
      OBVIOUS
    <3>1. i \in Nat
      BY <1>2
    <3>2. u[i] = t[i + 1] /\ i + 1 \in DOMAIN t
      BY <1>2
    <3>3. u[i] = all[n + (i + 1)]
      BY <2>3, <3>2
    <3>4. n + (i + 1) = (n + 1) + i
      BY <2>4, <3>1
    <3> QED BY <3>3, <3>4
  <2>8. n + 1 \in DOMAIN all
    BY <2>2, <2>5
  <2>9. Facing(t, c, n, o, ix)
    BY <2>3, <2>5, <2>6, <2>7, <2>8 DEF Facing, all, m, u
  <2> QED BY <2>4, <2>9
<1> HIDE DEF t, u, c
<1> QED BY <1>2, <1>3, <1>4 DEF t, u, c

(* A call that has passed the check it was at.                             *)
LEMMA PassedOn ==
  ASSUME NEW j, NEW o, NEW ix, JobOk(j, o, ix), j.todo # <<>>, NEW ix2,
         j.call \in MutationCalls => Passed(Head(j.todo), j.call, o, ix2),
         ix2.drafts = ix.drafts \/ (Head(j.todo)[1] = "known" /\ Head(j.todo)[2] = "draft")
  PROVE  JobOk([j EXCEPT !.todo = Tail(@)], o, ix2)
<1> DEFINE t == j.todo
           u == Tail(t)
           c == j.call
           k == [j EXCEPT !.todo = u]
<1>1. /\ k = [request |-> k.request, call |-> k.call, todo |-> k.todo]
      /\ k.call = c /\ k.todo = u /\ c \in ReadCalls \cup MutationCalls
  BY JobParts DEF JobOk
<1>2. [j EXCEPT !.todo = Tail(@)] = k
  OBVIOUS
<1> HIDE DEF k
<1>3. u \in Seq(CheckSteps) /\ (c \in ReadCalls => \A i \in DOMAIN u : u[i][1] \in ReadChecks)
  BY HeadCheck
<1>4. ASSUME c \in MutationCalls
      PROVE  \E n \in 0..Len(Checks(c)) : Advanced(u, c, n, o, ix2)
  <2> DEFINE all == Checks(c)
  <2>0. PICK n \in Nat : Facing(t, c, n, o, ix)
    BY <1>4, HeadCheck
  <2>1. /\ n + 1 \in DOMAIN all /\ Head(t) = all[n + 1]
        /\ \A i \in 1..n : Passed(all[i], c, o, ix)
        /\ Len(all) = (n + 1) + Len(u)
        /\ \A i \in DOMAIN u : u[i] = all[(n + 1) + i]
    BY <2>0 DEF Facing
  <2>2. all \in Seq(CheckSteps)
    BY <1>4, MutationPositions
  <2>3. Head(t)[1] = "known" /\ Head(t)[2] = "draft" => n + 1 = 1
    BY <1>4, <2>1, MutationPositions
  <2>4. Passed(all[n + 1], c, o, ix2)
    BY <1>4, <2>1
  <2>5. \A i \in 1..n : Passed(all[i], c, o, ix2)
    <3>1. CASE ix2.drafts = ix.drafts
      BY <2>1, <3>1 DEF Passed
    <3>2. CASE ix2.drafts # ix.drafts
      <4>1. n = 0
        BY <2>3, <3>2
      <4> QED BY <4>1
    <3> QED BY <3>1, <3>2
  <2> HIDE DEF all, t, u, c
  <2>6. \A i \in 1..(n + 1) : Passed(all[i], c, o, ix2)
    <3>1. \A i \in 1..(n + 1) : i = n + 1 \/ i \in 1..n
      OBVIOUS
    <3> QED BY <2>4, <2>5, <3>1
  <2>7. n + 1 \in 0..Len(all)
    BY <2>1, <2>2
  <2>8. Advanced(u, c, n + 1, o, ix2)
    BY <2>1, <2>6 DEF Advanced, all
  <2> QED BY <2>7, <2>8 DEF all
<1> HIDE DEF u, c
<1> QED BY <1>1, <1>2, <1>3, <1>4 DEF JobOk

(* A mutation all of whose checks have passed.                             *)
LEMMA AllPassed ==
  ASSUME NEW j, NEW o, NEW ix, JobOk(j, o, ix), j.todo = <<>>, j.call \in MutationCalls
  PROVE  \A i \in 1..Len(Checks(j.call)) : Passed(Checks(j.call)[i], j.call, o, ix)
<1> DEFINE c == j.call
<1>1. PICK n \in 0..Len(Checks(c)) : Advanced(<<>>, c, n, o, ix)
  BY DEF JobOk
<1>2. Checks(c) \in Seq(CheckSteps)
  BY MutationPositions
<1>3. Len(Checks(c)) = n + 0 /\ n \in Nat
  BY <1>1, <1>2 DEF Advanced
<1> HIDE DEF c
<1>4. Len(Checks(c)) = n
  BY <1>3
<1>5. \A i \in 1..n : Passed(Checks(c)[i], c, o, ix)
  BY <1>1 DEF Advanced
<1>6. \A i \in 1..Len(Checks(c)) : Passed(Checks(c)[i], c, o, ix)
  BY <1>4, <1>5
<1> QED BY <1>6 DEF c

(* A patch with another authority is the same patch.                       *)
LEMMA SamePatch ==
  ASSUME NEW c \in PatchCalls, NEW b \in BOOLEAN
  PROVE  LET d == [c EXCEPT !.objective = b]
         IN  /\ d \in PatchCalls /\ d.objective = b /\ d.op = c.op /\ d.draft = c.draft
             /\ d.version = c.version /\ d.revision = c.revision /\ d.change = c.change
             /\ d.to = c.to
<1> DEFINE d == [c EXCEPT !.objective = b]
<1>1. CASE c \in [op : {"apply_patch"}, draft : Nat, version : Nat, revision : Nat,
                  change : {"put_note"}, to : {None}, objective : BOOLEAN]
  <2>1. d \in [op : {"apply_patch"}, draft : Nat, version : Nat, revision : Nat,
               change : {"put_note"}, to : {None}, objective : BOOLEAN]
    BY <1>1
  <2> QED BY <1>1, <2>1 DEF PatchCalls
<1>2. CASE c \in [op : {"apply_patch"}, draft : Nat, version : Nat, revision : Nat,
                  change : {"include_item", "remove_note", "restore_configuration"}, to : Nat,
                  objective : BOOLEAN]
  <2>1. d \in [op : {"apply_patch"}, draft : Nat, version : Nat, revision : Nat,
               change : {"include_item", "remove_note", "restore_configuration"}, to : Nat,
               objective : BOOLEAN]
    BY <1>2
  <2> QED BY <1>2, <2>1 DEF PatchCalls
<1>3. CASE c \in [op : {"apply_patch"}, draft : Nat, version : Nat, revision : Nat,
                  change : {"set_objective"}, to : Objectives, objective : BOOLEAN]
  <2>1. d \in [op : {"apply_patch"}, draft : Nat, version : Nat, revision : Nat,
               change : {"set_objective"}, to : Objectives, objective : BOOLEAN]
    BY <1>3
  <2> QED BY <1>3, <2>1 DEF PatchCalls
<1> QED BY <1>1, <1>2, <1>3 DEF PatchCalls

(* ... with the same checks, taken by the owner in the same states.        *)
LEMMA SameMeaning ==
  ASSUME NEW c, NEW d, NEW o, d.op = c.op, d.draft = c.draft,
         d.version = c.version, d.revision = c.revision, d.change = c.change, d.to = c.to,
         c.op = "apply_patch"
  PROVE  /\ Checks(d) = Checks(c) /\ References(d) = References(c)
         /\ (Current(o, d) <=> Current(o, c))
         /\ (NeedsObjective(o, d) <=> NeedsObjective(o, c))
         /\ (Takes(o, d) <=> Takes(o, c))
<1>1. Checks(d) = Checks(c)
  <2>1. ChangeChecks(d) = ChangeChecks(c)
    BY Zenon DEF ChangeChecks
  <2>2. /\ Checks(c) = <<<<"known", "draft", c.draft>>, <<"version">>,
                         <<"known", "revision", c.revision>>>>
                       \o ChangeChecks(c) \o <<<<"authority">>, <<"owner">>>>
        /\ Checks(d) = <<<<"known", "draft", d.draft>>, <<"version">>,
                         <<"known", "revision", d.revision>>>>
                       \o ChangeChecks(d) \o <<<<"authority">>, <<"owner">>>>
    BY DEF Checks
  <2>3. d.draft = c.draft /\ d.revision = c.revision
    OBVIOUS
  <2> HIDE DEF Checks
  <2> QED BY <2>1, <2>2, <2>3, Zenon
<1>2. References(d) = References(c)
  BY DEF References
<1>3. Current(o, d) <=> Current(o, c)
  BY DEF Current
<1>4. ObjectiveAfter(o, d) = ObjectiveAfter(o, c)
  BY DEF ObjectiveAfter
<1>5. NeedsObjective(o, d) <=> NeedsObjective(o, c)
  BY <1>4 DEF NeedsObjective
<1>6. Takes(o, d) <=> Takes(o, c)
  BY <1>2, <1>3 DEF Takes
<1> QED BY <1>1, <1>2, <1>3, <1>5, <1>6

(* The owner grows: what has passed has passed.                            *)
LEMMA JobGrown ==
  ASSUME NEW j, NEW o, NEW p, NEW ix, NEW le, JobOk(j, o, ix), IndexOk(ix, o, le),
         OwnerOk(o), OwnerOk(p), Grown(o, p)
  PROVE  JobOk(j, p, ix)
<1>1. ASSUME j.call \in MutationCalls
      PROVE  \E n \in 0..Len(Checks(j.call)) : Advanced(j.todo, j.call, n, p, ix)
  <2>1. PICK n \in 0..Len(Checks(j.call)) : Advanced(j.todo, j.call, n, o, ix)
    BY <1>1 DEF JobOk
  <2>2. \A i \in 1..n : Passed(Checks(j.call)[i], j.call, o, ix)
    BY <2>1 DEF Advanced
  <2>3. \A i \in 1..n : Passed(Checks(j.call)[i], j.call, p, ix)
    BY <1>1, <2>2, PassedGrown
  <2>4. Advanced(j.todo, j.call, n, p, ix)
    BY <2>1, <2>3 DEF Advanced
  <2> QED BY <2>4
<1> QED BY <1>1 DEF JobOk

(* The authority decided on the cached draft.                              *)
LEMMA DecidedOn ==
  ASSUME NEW j, NEW le, JobOk(j, owner, index), IndexOk(index, owner, le),
         j.todo # <<>>, Head(j.todo)[1] = "authority", j.call \in MutationCalls
  PROVE  JobOk([j EXCEPT !.todo = Tail(@), !.call.objective = ObjectiveNeeded(j.call)],
               owner, index)
<1> DEFINE t == j.todo
           u == Tail(t)
           c == j.call
           b == ObjectiveNeeded(c)
           d == [c EXCEPT !.objective = b]
           all == Checks(c)
           k == [request |-> j.request, call |-> d, todo |-> u]
           new == [j EXCEPT !.todo = Tail(@), !.call.objective = b]
<1>1. new = k
  <2> DEFINE q == j.request
  <2>1. j = [request |-> q, call |-> c, todo |-> t]
    BY DEF JobOk
  <2>2. new = [j EXCEPT !.todo = u, !.call = d]
    <3> HIDE DEF b
    <3> QED OBVIOUS
  <2> HIDE DEF q, c, t, u, d, new
  <2>3. new = [request |-> q, call |-> d, todo |-> u]
    BY <2>1, <2>2
  <2> QED BY <2>3 DEF q
<1>2. PICK n \in Nat : Facing(t, c, n, owner, index)
  BY HeadCheck
<1>3. /\ n + 1 \in DOMAIN all /\ Head(t) = all[n + 1]
      /\ \A i \in 1..n : Passed(all[i], c, owner, index)
      /\ Len(all) = (n + 1) + Len(u)
      /\ \A i \in DOMAIN u : u[i] = all[(n + 1) + i]
  BY <1>2 DEF Facing
<1>4. u \in Seq(CheckSteps)
  BY HeadCheck
<1>5. c \in PatchCalls
  BY <1>3, MutationPositions
<1>6. all \in Seq(CheckSteps) /\ n + 1 = Len(all) - 1 /\ Len(all) \in Nat
  <2>1. all \in Seq(CheckSteps)
    BY <1>5, PatchOrder
  <2>2. all[n + 1][1] = "authority"
    BY <1>3
  <2> DEFINE i == n + 1
  <2>3. i \in DOMAIN all /\ all[i][1] = "authority"
    BY <1>3, <2>2
  <2> HIDE DEF i
  <2>4. i = Len(all) - 1
    BY <1>5, <2>3, PatchPositions
  <2> HIDE DEF all
  <2> QED BY <2>1, <2>4 DEF i
<1>7. b \in BOOLEAN
  BY DEF ObjectiveNeeded
<1>8. /\ d \in PatchCalls /\ d.objective = b /\ d.op = c.op /\ d.draft = c.draft
      /\ d.version = c.version /\ d.revision = c.revision /\ d.change = c.change
      /\ d.to = c.to
  <2> HIDE DEF b, c
  <2> QED BY <1>5, <1>7, SamePatch
<1>9. c.op = "apply_patch"
  BY <1>5, PatchFields
<1>10. Current(owner, c) => (b <=> NeedsObjective(owner, c))
  <2> SUFFICES ASSUME Current(owner, c)  PROVE b <=> NeedsObjective(owner, c)
    OBVIOUS
  <2>1. n \in Nat /\ n >= Len(all) - 2 /\ n <= Len(all)
    <3> HIDE DEF all
    <3> QED BY <1>6
  <2>2. c.draft \in DOMAIN index.drafts /\ index.drafts[c.draft].version = c.version
    BY <1>3, <1>5, <2>1, PatchChecked
  <2>3. index.drafts[c.draft] = owner.drafts[c.draft]
    BY <1>5, <2>2, CachedIsCurrent
  <2> QED BY <2>3 DEF ObjectiveNeeded, NeedsObjective, ObjectiveAfter
<1> HIDE DEF b, d
<1>11. /\ Checks(d) = all /\ (Current(owner, d) <=> Current(owner, c))
       /\ (NeedsObjective(owner, d) <=> NeedsObjective(owner, c))
  BY <1>8, <1>9, SameMeaning
<1>12. \A i \in 1..n : all[i][1] # "authority"
  <2> SUFFICES ASSUME NEW i \in 1..n  PROVE all[i][1] # "authority"
    OBVIOUS
  <2>1. i \in DOMAIN all /\ i # Len(all) - 1
    <3> HIDE DEF all
    <3> QED BY <1>6
  <2> QED BY <1>5, <2>1, PatchPositions
<1>13. \A i \in 1..(n + 1) : Passed(all[i], d, owner, index)
  <2> SUFFICES ASSUME NEW i \in 1..(n + 1)  PROVE Passed(all[i], d, owner, index)
    OBVIOUS
  <2>1. CASE i \in 1..n
    <3>1. Passed(all[i], c, owner, index) /\ all[i][1] # "authority"
      BY <1>3, <1>12, <2>1
    <3> HIDE DEF all, c
    <3> QED BY <1>8, <3>1 DEF Passed
  <2>2. CASE i = n + 1
    <3>1. all[i][1] = "authority"
      BY <1>3, <2>2
    <3> HIDE DEF all, c
    <3> QED BY <1>8, <1>10, <1>11, <3>1 DEF Passed
  <2> QED BY <2>1, <2>2
<1>14. Advanced(u, d, n + 1, owner, index)
  BY <1>3, <1>11, <1>13 DEF Advanced
<1>15. n + 1 \in 0..Len(Checks(d))
  BY <1>6, <1>11
<1>16. /\ k.call = d /\ k.todo = u /\ d \in MutationCalls /\ d \notin ReadCalls
       /\ k = [request |-> k.request, call |-> k.call, todo |-> k.todo]
  BY <1>8, CallKinds DEF MutationCalls
<1> HIDE DEF u, k, new
<1>17. JobOk(k, owner, index)
  BY <1>4, <1>14, <1>15, <1>16 DEF JobOk
<1> QED BY <1>1, <1>17 DEF new, b, c

-----------------------------------------------------------------------------
(* The ways in which a step of the call ends.                              *)

(* The call goes on, or it ends, under the same reference.                 *)
Goes == /\ reference' = reference /\ last' = last
        /\ job' = None \/ (job # None /\ job'.request = job.request)

(* A step of a call leaves it under the reference it came with.            *)
LEMMA GoesKeeps ==
  ASSUME RequestInv, Goes, Fills, trusted' = trusted
  PROVE  RequestInv'
<1>1. sources' \subseteq sources \cup {reference}
  BY DEF Fills
<1> QED BY <1>1 DEF RequestInv, Goes

(* What is learned with ids of a kind.                                     *)
LEMMA LearnedWith ==
  ASSUME NEW k \in Kinds, NEW ids
  PROVE  \A j \in Kinds :
           Learned(k, ids)[j] = Brings(owner, k, ids)[j]
<1> DEFINE all == UNION {owner.drafts[d].items : d \in ids}
<1>1. \A j \in Kinds : Only(k, ids)[j] = IF j = k THEN ids ELSE {}
  BY DEF Only, NothingLearned
<1>2. \A j \in Kinds : LearnedDrafts(ids)[j] = IF j = "item" THEN all ELSE Only("draft", ids)[j]
  <2>1. LearnedDrafts(ids) = [Only("draft", ids) EXCEPT !["item"] = all]
    BY DEF LearnedDrafts
  <2>2. Only("draft", ids) \in [Kinds -> {ids, {}}]
    BY DEF Only, NothingLearned
  <2> HIDE DEF all
  <2> QED BY <2>1, <2>2
<1>3. \A j \in Kinds : Brings(owner, k, ids)[j] =
        IF j = k THEN ids ELSE IF k = "draft" /\ j = "item" THEN all ELSE {}
  BY DEF Brings
<1> HIDE DEF all
<1>4. "draft" # "item"
  OBVIOUS
<1> QED BY <1>1, <1>2, <1>3, <1>4 DEF Learned

(* Everything learned was issued.                                          *)
LEMMA BringsIssued ==
  ASSUME NEW o, OwnerOk(o), NEW k \in Kinds, NEW ids, ids \subseteq IssuedIds(o, k)
  PROVE  \A j \in Kinds : Brings(o, k, ids)[j] \subseteq IssuedIds(o, j)
<1> SUFFICES ASSUME NEW j \in Kinds  PROVE Brings(o, k, ids)[j] \subseteq IssuedIds(o, j)
  OBVIOUS
<1>1. CASE j = k
  BY <1>1 DEF Brings
<1>2. CASE j # k /\ k = "draft" /\ j = "item"
  <2>1. \A d \in ids : o.drafts[d].items \subseteq IssuedIds(o, "item")
    BY <1>2, OwnerParts, IssuedCounts
  <2> QED BY <1>2, <2>1 DEF Brings
<1>3. CASE j # k /\ ~(k = "draft" /\ j = "item")
  BY <1>3 DEF Brings
<1> QED BY <1>1, <1>2, <1>3

(* A list that is forgotten does not take itself for complete.             *)
LEMMA ClearedForgets ==
  ASSUME NEW ix, Shaped(ix), NEW k \in Kinds
  PROVE  ~Cleared(ix, k).complete[k]
<1> DEFINE a == ix.ids
           b == ix.complete
           c == ix.drafts
           d == ix.contents
           a2 == [a EXCEPT ![k] = <<>>]
           b2 == [b EXCEPT ![k] = FALSE]
           c2 == IF k = "draft" THEN [e \in {} |-> None] ELSE c
           d2 == IF k = "revision" THEN <<>> ELSE d
           m == Cleared(ix, k)
<1>1. ix = [ids |-> a, complete |-> b, drafts |-> c, contents |-> d] /\ b \in [Kinds -> BOOLEAN]
  BY DEF Shaped
<1>2. m = [ix EXCEPT !.ids = a2, !.complete = b2, !.drafts = c2, !.contents = d2]
  BY DEF Cleared
<1> HIDE DEF a, b, c, d
<1>3. ~b2[k]
  BY <1>1
<1> HIDE DEF a2, b2, c2, d2, m
<1>4. m.complete = b2
  BY <1>1, <1>2
<1> QED BY <1>3, <1>4 DEF m

(* What has been learned, with an index that has room for it.              *)
LearnedOk(ix, o, le) ==
  /\ le \in [Kinds -> SUBSET Nat]
  /\ \A k \in Kinds : le[k] \subseteq IssuedIds(o, k)
  /\ IndexOk(ix, o, le)

(* It is so in every state.                                                *)
LEMMA NothingNew ==
  ASSUME Core
  PROVE  LearnedOk(index, owner, learned)
BY DEF Core, Basics, LearnedOk

(* Something more is learned, which the index holds.                       *)
LEMMA LearnKeeps ==
  ASSUME NEW o, NEW ix, NEW new, Learn(new), learned \in [Kinds -> SUBSET Nat],
         \A k \in Kinds : learned[k] \subseteq IssuedIds(o, k),
         \A k \in Kinds : new[k] \subseteq IssuedIds(o, k),
         IndexOk(ix, o, [k \in Kinds |-> learned[k] \cup new[k]])
  PROVE  LearnedOk(ix, o, learned')
<1> DEFINE more == [k \in Kinds |-> learned[k] \cup new[k]]
<1>1. learned' = more
  BY DEF Learn
<1>2. \A k \in Kinds : more[k] \subseteq IssuedIds(o, k)
  OBVIOUS
<1>3. more \in [Kinds -> SUBSET Nat]
  <2>1. \A k \in Kinds : IssuedIds(o, k) \subseteq Nat
    BY DEF IssuedIds
  <2>2. \A k \in Kinds : learned[k] \cup new[k] \subseteq Nat
    BY <2>1
  <2> QED BY <2>2
<1>4. IndexOk(ix, o, more)
  OBVIOUS
<1> HIDE DEF more
<1> QED BY <1>1, <1>2, <1>3, <1>4 DEF LearnedOk

(* One object of the owner's is cached.                                    *)
LEMMA ObjectLearned ==
  ASSUME Core, NEW k \in Kinds, NEW x \in IssuedIds(owner, k), Learn(Learned(k, {x}))
  PROVE  /\ LearnedOk(Cache(index, k, x), owner, learned')
         /\ k # "draft" => Cache(index, k, x).drafts = index.drafts
<1> DEFINE new == Learned(k, {x})
           more == [j \in Kinds |-> learned[j] \cup new[j]]
<1>1. IndexOk(index, owner, learned) /\ OwnerOk(owner) /\ Basics
  BY DEF Core
<1>2. \A j \in Kinds : new[j] = Brings(owner, k, {x})[j]
  BY LearnedWith
<1>3. Learn(new)
  OBVIOUS
<1> HIDE DEF new
<1>4. \A j \in Kinds : new[j] \subseteq IssuedIds(owner, j)
  BY <1>1, <1>2, BringsIssued
<1>5. \A j \in Kinds : more[j] \subseteq learned[j] \cup Brings(owner, k, {x})[j]
  BY <1>2
<1> HIDE DEF more
<1>6. /\ IndexOk(Cache(index, k, x), owner, more)
      /\ k # "draft" => Cache(index, k, x).drafts = index.drafts
  BY <1>1, <1>5, CacheKeeps
<1> QED BY <1>1, <1>3, <1>4, <1>6, LearnKeeps DEF Basics, more

(* A kind is listed anew, the items with those of the cached drafts.       *)
LEMMA ListLearned ==
  ASSUME Core, NEW k \in Kinds, LearnAll(k)
  PROVE  /\ LearnedOk(Relisted(index, k), owner, learned')
         /\ k # "draft" => Relisted(index, k).drafts = index.drafts
         /\ k = "item" => /\ LearnedOk(RelistedItems(index), owner, learned')
                          /\ RelistedItems(index).drafts = index.drafts
<1> DEFINE ids == IssuedIds(owner, k)
           new == Learned(k, ids)
           more == [j \in Kinds |-> learned[j] \cup new[j]]
<1>1. IndexOk(index, owner, learned) /\ OwnerOk(owner) /\ Basics
  BY DEF Core
<1>2. \A j \in Kinds : new[j] = Brings(owner, k, ids)[j]
  BY LearnedWith
<1>3. Learn(new)
  BY DEF LearnAll
<1> HIDE DEF new
<1>4. \A j \in Kinds : new[j] \subseteq IssuedIds(owner, j)
  BY <1>1, <1>2, BringsIssued
<1>5. \A j \in Kinds : more[j] \subseteq
        IF j = k THEN ids ELSE learned[j] \cup Brings(owner, k, ids)[j]
  <2>1. \A j \in Kinds : more[j] = learned[j] \cup Brings(owner, k, ids)[j]
    BY <1>2
  <2>2. Brings(owner, k, ids)[k] = ids /\ learned[k] \subseteq ids
    BY <1>1 DEF Brings, Basics
  <2> QED BY <2>1, <2>2
<1>6. \A j \in Kinds : Brings(owner, "item", ids)[j] \subseteq IF j = "item" THEN ids ELSE {}
  BY DEF Brings
<1> HIDE DEF more
<1>7. /\ IndexOk(Relisted(index, k), owner, more)
      /\ k # "draft" => Relisted(index, k).drafts = index.drafts
  BY <1>1, <1>5, RelistedKeeps
<1>8. ASSUME k = "item"
      PROVE  /\ IndexOk(RelistedItems(index), owner, more)
             /\ RelistedItems(index).drafts = index.drafts
  <2>1. \A j \in Kinds : more[j] \subseteq
          IF j = "item" THEN IssuedIds(owner, "item") ELSE learned[j]
    BY <1>5, <1>6, <1>8
  <2> QED BY <1>1, <2>1, RelistedItemsKeeps
<1>9. LearnedOk(Relisted(index, k), owner, learned')
  BY <1>1, <1>3, <1>4, <1>7, LearnKeeps DEF Basics, more
<1>10. ASSUME k = "item"  PROVE LearnedOk(RelistedItems(index), owner, learned')
  BY <1>1, <1>3, <1>4, <1>8, <1>10, LearnKeeps DEF Basics, more
<1> QED BY <1>7, <1>8, <1>9, <1>10

(* A list that is forgotten.                                               *)
LEMMA ClearedLearned ==
  ASSUME Core, NEW k \in Kinds
  PROVE  LearnedOk(Cleared(index, k), owner, learned)
<1> DEFINE less == [j \in Kinds |-> IF j = k THEN {} ELSE learned[j]]
           n == Cleared(index, k)
<1>1. IndexOk(index, owner, learned) /\ Basics
  BY DEF Core
<1>2. \A j \in Kinds : less[j] \subseteq IF j = k THEN {} ELSE learned[j]
  OBVIOUS
<1>3. \A j \in Kinds : j # k => less[j] = learned[j]
  OBVIOUS
<1> HIDE DEF less
<1>4. IndexOk(n, owner, less)
  BY <1>1, <1>2, ClearedKeeps
<1>5. ~n.complete[k]
  BY <1>1, ClearedForgets DEF IndexOk, ListsOk
<1> HIDE DEF n
<1>6. IndexOk(n, owner, learned)
  BY <1>3, <1>4, <1>5 DEF IndexOk, ListsOk
<1> QED BY <1>1, <1>6 DEF LearnedOk, Basics, n

(* ... past its check, ...                                                 *)
LEMMA PassKeeps ==
  ASSUME Core, job # None, job.todo # <<>>, Pass, owner' = owner, caps' = caps,
         LearnedOk(index', owner, learned'),
         job.call \in MutationCalls => Passed(Head(job.todo), job.call, owner, index'),
         index'.drafts = index.drafts
           \/ (Head(job.todo)[1] = "known" /\ Head(job.todo)[2] = "draft")
  PROVE  Core' /\ job'.request = job.request
<1>1. job' = [job EXCEPT !.todo = Tail(@)] /\ answer' = answer
  BY DEF Pass
<1>2. JobOk(job, owner, index)
  BY DEF Core
<1>3. JobOk([job EXCEPT !.todo = Tail(@)], owner, index')
  BY <1>2, PassedOn
<1>4. job'.request = job.request
  <2> DEFINE u == Tail(job.todo)
  <2>1. job' = [job EXCEPT !.todo = u]
    BY <1>1
  <2>2. job = [request |-> job.request, call |-> job.call, todo |-> job.todo]
    BY <1>2 DEF JobOk
  <2> HIDE DEF u
  <2> QED BY <2>1, <2>2, JobParts
<1>5. JobOk(job', owner', index')
  BY <1>1, <1>3
<1>6. IndexOk(index', owner', learned') /\ OwnerOk(owner')
  BY DEF Core, LearnedOk
<1>7. Basics' /\ RetryableMeansUnapplied'
  BY <1>1 DEF Core, Basics, RetryableMeansUnapplied, LearnedOk
<1> QED BY <1>4, <1>5, <1>6, <1>7 DEF Core

(* ... with an answer of some kind, ...                                    *)
LEMMA AnswerKeeps ==
  ASSUME Core, NEW r \in BOOLEAN, NEW a \in BOOLEAN, ~(r /\ a), NEW names, Answer(r, a, names),
         OwnerOk(owner'), caps' = caps, LearnedOk(index', owner', learned')
  PROVE  Core' /\ job' = None
<1>1. job' = None /\ answer' = [retryable |-> r, applied |-> a, names |-> names]
  BY DEF Answer
<1>2. answer'.retryable = r /\ answer'.applied = a
  BY <1>1
<1>3. Basics'
  BY <1>2 DEF Core, Basics, LearnedOk
<1>4. RetryableMeansUnapplied'
  BY <1>2 DEF RetryableMeansUnapplied
<1>5. IndexOk(index', owner', learned')
  BY DEF LearnedOk
<1> QED BY <1>1, <1>3, <1>4, <1>5 DEF Core

(* ... with a refusal, ...                                                 *)
LEMMA RefuseKeeps ==
  ASSUME Core, NEW r \in BOOLEAN, Refuse(r), owner' = owner, caps' = caps,
         LearnedOk(index', owner, learned')
  PROVE  Core' /\ job' = None
<1>1. Answer(r, FALSE, {}) /\ FALSE \in BOOLEAN
  BY DEF Refuse
<1>2. OwnerOk(owner') /\ LearnedOk(index', owner', learned')
  BY DEF Core
<1> DEFINE a == FALSE
           none == {}
<1>3. a \in BOOLEAN /\ ~(r /\ a) /\ Answer(r, a, none)
  BY <1>1
<1> HIDE DEF a, none
<1> QED BY <1>2, <1>3, AnswerKeeps

(* A failed read ends the call and leaves the index alone.                 *)
LEMMA ReadFailsKeeps ==
  ASSUME Core, ReadFails, owner' = owner, caps' = caps, index' = index, learned' = learned
  PROVE  Core' /\ job' = None
<1>1. PICK e \in OwnerErrors : Refuse(Retryable(e))
  BY DEF ReadFails
<1>2. Retryable(e) \in BOOLEAN
  BY DEF Retryable
<1>3. LearnedOk(index', owner, learned')
  BY NothingNew
<1> QED BY <1>1, <1>2, <1>3, RefuseKeeps

(* ... or with something to show, which the index has learned.             *)
LEMMA ShowKeeps ==
  ASSUME Core, NEW names, Show(names), owner' = owner, caps' = caps,
         LearnedOk(index', owner, learned')
  PROVE  Core' /\ job' = None
<1> DEFINE a == FALSE
<1>1. a \in BOOLEAN /\ ~(a /\ a) /\ Answer(a, a, names)
  BY DEF Show
<1> HIDE DEF a
<1>2. OwnerOk(owner') /\ LearnedOk(index', owner', learned')
  BY DEF Core
<1> QED BY <1>1, <1>2, AnswerKeeps

-----------------------------------------------------------------------------
(* The steps of the call.                                                  *)

(* The call at a check of a name.                                          *)
LEMMA AtFacts ==
  ASSUME Core, NEW step, At(step)
  PROVE  /\ job # None /\ job.todo # <<>> /\ Head(job.todo)[1] = step
         /\ JobOk(job, owner, index) /\ Head(job.todo) \in CheckSteps
         /\ IndexOk(index, owner, learned) /\ OwnerOk(owner)
         /\ \A k \in Kinds : learned[k] \subseteq IssuedIds(owner, k)
<1>1. job # None /\ job.todo # <<>> /\ Head(job.todo)[1] = step
  BY DEF At
<1>2. JobOk(job, owner, index)
  BY <1>1 DEF Core
<1>3. Head(job.todo) \in CheckSteps
  BY <1>1, <1>2, HeadCheck
<1> QED BY <1>1, <1>2, <1>3 DEF Core, Basics

(* A check that only a mutation has, or only a read.                       *)
LEMMA WhoseCheck ==
  ASSUME Core, NEW step, At(step)
  PROVE  /\ step \in {"version", "note", "content", "authority"} =>
              job.call \in MutationCalls /\ job.call \notin ReadCalls
         /\ step \in {"capabilities", "reload", "permitted"} =>
              job.call \in ReadCalls /\ job.call \notin MutationCalls
<1>1. /\ job # None /\ job.todo # <<>> /\ Head(job.todo)[1] = step
      /\ JobOk(job, owner, index)
  BY AtFacts
<1>2. job.call \in ReadCalls \cup MutationCalls
  BY <1>1 DEF JobOk
<1>3. job.call \in ReadCalls => step \in ReadChecks /\ job.call \notin MutationCalls
  BY <1>1, HeadCheck, CallKinds
<1>4. ASSUME job.call \in MutationCalls  PROVE step \in MutationChecks
  <2>1. PICK n \in Nat : Facing(job.todo, job.call, n, owner, index)
    BY <1>1, <1>4, HeadCheck
  <2>2. n + 1 \in DOMAIN Checks(job.call) /\ Head(job.todo) = Checks(job.call)[n + 1]
    BY <2>1 DEF Facing
  <2> DEFINE i == n + 1
  <2>3. i \in DOMAIN Checks(job.call) /\ Checks(job.call)[i][1] = step
    BY <1>1, <2>2
  <2> HIDE DEF i
  <2> QED BY <1>4, <2>3, MutationPositions
<1>5. ASSUME step \in {"version", "note", "content", "authority"}
      PROVE  job.call \in MutationCalls /\ job.call \notin ReadCalls
  BY <1>2, <1>3, <1>5 DEF ReadChecks
<1>6. ASSUME step \in {"capabilities", "reload", "permitted"}
      PROVE  job.call \in ReadCalls /\ job.call \notin MutationCalls
  BY <1>2, <1>4, <1>6 DEF MutationChecks
<1> QED BY <1>5, <1>6

(* A read call goes on with other checks of its own.                       *)
LEMMA ReadGoesOn ==
  ASSUME NEW j, NEW o, NEW ix, JobOk(j, o, ix), j.call \in ReadCalls, NEW p, NEW ix2,
         NEW todo \in Seq(CheckSteps), \A i \in DOMAIN todo : todo[i][1] \in ReadChecks
  PROVE  LET k == [j EXCEPT !.todo = todo] IN JobOk(k, p, ix2) /\ k.request = j.request
<1> DEFINE k == [j EXCEPT !.todo = todo]
<1>1. /\ k = [request |-> k.request, call |-> k.call, todo |-> k.todo]
      /\ k.request = j.request /\ k.call = j.call /\ k.todo = todo
  BY JobParts DEF JobOk
<1> HIDE DEF k
<1>2. k.call \in ReadCalls /\ k.call \notin MutationCalls
  BY <1>1, CallKinds
<1> QED BY <1>1, <1>2 DEF JobOk, k

(* A read is past a check, whatever has become of the index.               *)
LEMMA PassReads ==
  ASSUME Core, Pass, job # None, job.todo # <<>>, job.call \in ReadCalls, UNCHANGED <<owner, caps>>,
         LearnedOk(index', owner, learned')
  PROVE  Core' /\ job'.request = job.request
<1> DEFINE u == Tail(job.todo)
           n == [job EXCEPT !.todo = u]
<1>1. JobOk(job, owner, index)
  BY DEF Core
<1>2. u \in Seq(CheckSteps) /\ \A i \in DOMAIN u : u[i][1] \in ReadChecks
  BY <1>1, HeadCheck
<1>3. job' = n /\ answer' = answer
  BY DEF Pass
<1> HIDE DEF u
<1>4. JobOk(n, owner, index') /\ n.request = job.request
  BY <1>1, <1>2, ReadGoesOn
<1> HIDE DEF n
<1>5. JobOk(job', owner', index') /\ job'.request = job.request
  BY <1>3, <1>4
<1>6. IndexOk(index', owner', learned') /\ OwnerOk(owner')
  BY DEF Core, LearnedOk
<1>7. Basics' /\ RetryableMeansUnapplied'
  BY <1>3 DEF Core, Basics, RetryableMeansUnapplied, LearnedOk
<1> QED BY <1>5, <1>6, <1>7 DEF Core

(* Where nothing is learned.                                               *)
LEMMA NothingLearnedIn ==
  /\ NothingLearned \in [Kinds -> SUBSET Nat]
  /\ \A k \in Kinds : NothingLearned[k] = {}
BY DEF NothingLearned

(* load_owner_capabilities: the index and what was learned are emptied.    *)
LEMMA LoadCapabilitiesKeeps ==
  ASSUME Core, LoadCapabilities
  PROVE  Core' /\ Goes
<1>1. At("capabilities") /\ UNCHANGED <<owner, reference, last, answer>>
      /\ index' = EmptyIndex /\ learned' = NothingLearned
  BY DEF LoadCapabilities
<1>2. PICK c \in {"unknown", IF owner.enabled THEN "enabled" ELSE "disabled"} :
        /\ caps' = c
        /\ job' = [job EXCEPT !.todo =
                     (IF c = "unknown" THEN <<>> ELSE ReloadOrder) \o Tail(@)]
  BY DEF LoadCapabilities
<1> DEFINE u == Tail(job.todo)
           t == IF c = "unknown" THEN <<>> ELSE ReloadOrder
           todo == t \o u
           k == [job EXCEPT !.todo = todo]
<1>3. /\ job # None /\ job.todo # <<>> /\ JobOk(job, owner, index) /\ job.call \in ReadCalls
  BY <1>1, AtFacts, WhoseCheck
<1>4. u \in Seq(CheckSteps) /\ \A i \in DOMAIN u : u[i][1] \in ReadChecks
  BY <1>3, HeadCheck
<1>5. t \in Seq(CheckSteps) /\ \A i \in DOMAIN t : t[i][1] \in ReadChecks
  <2>1. ReloadOrder \in Seq(CheckSteps) /\ \A i \in DOMAIN ReloadOrder : ReloadOrder[i][1] \in ReadChecks
    <3> DEFINE a == <<"reload", "item">>
               b == <<"reload", "revision">>
               d == <<"reload", "draft">>
               e == <<"reload", "preview">>
               f == <<"reload", "receipt">>
    <3>1. {a, b, d, e, f} \subseteq CheckSteps
      BY DEF CheckSteps, Kinds
    <3>2. \A x \in {a, b, d, e, f} : x[1] \in ReadChecks
      BY DEF ReadChecks
    <3>3. ReloadOrder = <<a, b, d, e, f>>
      BY DEF ReloadOrder
    <3> HIDE DEF a, b, d, e, f
    <3> QED BY <3>1, <3>2, <3>3
  <2> QED BY <2>1
<1> HIDE DEF u, t
<1>6. todo \in Seq(CheckSteps) /\ \A i \in DOMAIN todo : todo[i][1] \in ReadChecks
  <2>1. /\ todo \in Seq(CheckSteps) /\ Len(todo) = Len(t) + Len(u)
        /\ \A i \in 1..Len(t) + Len(u) : todo[i] = IF i <= Len(t) THEN t[i] ELSE u[i - Len(t)]
    BY <1>4, <1>5, ConcatProperties
  <2> HIDE DEF todo
  <2>2. ASSUME NEW i \in DOMAIN todo  PROVE todo[i][1] \in ReadChecks
    <3>1. i \in 1..Len(t) + Len(u) /\ Len(t) \in Nat /\ Len(u) \in Nat
      BY <1>4, <1>5, <2>1
    <3>2. CASE i <= Len(t)
      BY <1>5, <2>1, <3>1, <3>2
    <3>3. CASE ~(i <= Len(t))
      <4>1. i - Len(t) \in DOMAIN u /\ todo[i] = u[i - Len(t)]
        BY <1>4, <2>1, <3>1, <3>3
      <4> QED BY <1>4, <4>1
    <3> QED BY <3>2, <3>3
  <2> QED BY <2>1, <2>2
<1>7. job' = k
  BY <1>2 DEF u, t
<1> HIDE DEF todo
<1>8. JobOk(k, owner, EmptyIndex) /\ k.request = job.request
  BY <1>3, <1>6, ReadGoesOn
<1> HIDE DEF k
<1>9. JobOk(job', owner', index') /\ job'.request = job.request
  BY <1>1, <1>7, <1>8
<1>10. IndexOk(index', owner', learned') /\ OwnerOk(owner')
  BY <1>1, EmptyKeeps DEF Core
<1>11. Basics' /\ RetryableMeansUnapplied'
  <2>1. c \in {"unknown", "enabled", "disabled"}
    BY <1>2
  <2> QED BY <1>1, <1>2, <2>1, NothingLearnedIn DEF Core, Basics, RetryableMeansUnapplied
<1>12. Goes
  BY <1>1, <1>3, <1>9 DEF Goes
<1> QED BY <1>9, <1>10, <1>11, <1>12 DEF Core

(* refresh_reference_index: a kind is listed anew, or stays empty.         *)
LEMMA ReloadKeeps ==
  ASSUME Core, Reload
  PROVE  Core' /\ Goes
<1> DEFINE k == Head(job.todo)[2]
<1>1. /\ At("reload") /\ Pass /\ UNCHANGED <<owner, caps, reference, last>>
      /\ \/ index' = Relisted(index, k) /\ LearnAll(k)
         \/ UNCHANGED <<index, learned>>
  BY DEF Reload
<1>2. job # None /\ job.todo # <<>> /\ Head(job.todo)[1] = "reload" /\ Head(job.todo) \in CheckSteps
  BY <1>1, AtFacts
<1>3. job.call \in ReadCalls
  BY <1>1, WhoseCheck
<1>4. k \in Kinds
  BY <1>2, StepFields
<1> HIDE DEF k
<1>5. LearnedOk(index', owner, learned')
  <2>1. CASE index' = Relisted(index, k) /\ LearnAll(k)
    BY <1>4, <2>1, ListLearned
  <2>2. CASE UNCHANGED <<index, learned>>
    BY <2>2, NothingNew
  <2> QED BY <1>1, <2>1, <2>2
<1>6. Core' /\ job'.request = job.request
  BY <1>1, <1>2, <1>3, <1>5, PassReads
<1> QED BY <1>1, <1>2, <1>6 DEF Goes

(* A check passed or refused that changes nothing else.                    *)
LEMMA CheckKeeps ==
  ASSUME Core, NEW step, At(step), UNCHANGED <<owner, index, caps, reference, last, learned>>,
         (Pass /\ (job.call \in MutationCalls => Passed(Head(job.todo), job.call, owner, index)))
           \/ (\E r \in BOOLEAN : Refuse(r)) \/ ReadFails
  PROVE  Core' /\ Goes
<1>1. /\ job # None /\ job.todo # <<>> /\ LearnedOk(index', owner, learned')
  BY AtFacts, NothingNew
<1>2. CASE Pass /\ (job.call \in MutationCalls => Passed(Head(job.todo), job.call, owner, index))
  <2>1. Core' /\ job'.request = job.request
    BY <1>1, <1>2, PassKeeps
  <2> QED BY <1>1, <2>1 DEF Goes
<1>3. CASE \E r \in BOOLEAN : Refuse(r)
  <2>1. PICK r \in BOOLEAN : Refuse(r)
    BY <1>3
  <2>2. Core' /\ job' = None
    BY <1>1, <2>1, RefuseKeeps
  <2> QED BY <2>2 DEF Goes
<1>4. CASE ReadFails
  <2>1. Core' /\ job' = None
    BY <1>4, ReadFailsKeeps
  <2> QED BY <2>1 DEF Goes
<1> QED BY <1>2, <1>3, <1>4

(* The second check of the permission touches nothing else.                *)
LEMMA PermittedKeeps ==
  ASSUME Core, Permitted
  PROVE  Core' /\ Goes
<1>1. At("permitted") /\ UNCHANGED <<owner, index, caps, reference, last, learned>>
      /\ (Pass \/ Refuse(FALSE))
  BY DEF Permitted
<1>2. job.call \notin MutationCalls
  BY <1>1, WhoseCheck
<1> QED BY <1>1, <1>2, CheckKeeps

(* ensure_current_draft_version: the cached version is the one named.      *)
LEMMA EnsureVersionKeeps ==
  ASSUME Core, EnsureVersion
  PROVE  Core' /\ Goes
<1>1. At("version") /\ UNCHANGED <<owner, index, caps, reference, last, learned>>
      /\ (IF SameVersion(job.call) THEN Pass ELSE Refuse(TRUE))
  BY DEF EnsureVersion
<1>2. SameVersion(job.call) => Passed(Head(job.todo), job.call, owner, index)
  <2>1. Head(job.todo)[1] = "version"
    BY <1>1, AtFacts
  <2> QED BY <2>1 DEF Passed, SameVersion
<1> QED BY <1>1, <1>2, CheckKeeps

(* A note that the cached draft holds was issued.                          *)
LEMMA EnsureNoteKeeps ==
  ASSUME Core, EnsureNote
  PROVE  Core' /\ Goes
<1> DEFINE c == job.call
<1>1. At("note") /\ UNCHANGED <<owner, index, caps, reference, last, learned>>
      /\ (IF c.to \in index.drafts[c.draft].items THEN Pass ELSE Refuse(FALSE))
  BY DEF EnsureNote
<1>2. /\ job # None /\ job.todo # <<>> /\ Head(job.todo)[1] = "note"
      /\ JobOk(job, owner, index) /\ IndexOk(index, owner, learned) /\ OwnerOk(owner)
  BY <1>1, AtFacts
<1>3. c \in MutationCalls
  BY <1>1, WhoseCheck
<1>4. PICK n \in Nat : Facing(job.todo, c, n, owner, index)
  BY <1>2, <1>3, HeadCheck
<1>5. /\ n + 1 \in DOMAIN Checks(c) /\ Head(job.todo) = Checks(c)[n + 1]
      /\ \A i \in 1..n : Passed(Checks(c)[i], c, owner, index)
  BY <1>4 DEF Facing
<1>6. c \in PatchCalls /\ n + 1 = 4
  <2> DEFINE i == n + 1
  <2>1. i \in DOMAIN Checks(c) /\ Checks(c)[i][1] = "note"
    BY <1>2, <1>5
  <2> HIDE DEF i
  <2>2. c \in PatchCalls
    BY <1>3, <2>1, MutationPositions
  <2>3. i = 4
    BY <2>1, <2>2, PatchPositions
  <2> QED BY <2>2, <2>3 DEF i
<1>7. c.draft \in DOMAIN index.drafts
  <2>1. Checks(c)[2] = <<"version">> /\ 2 \in 1..n
    BY <1>6, PatchOrder
  <2>2. Passed(Checks(c)[2], c, owner, index)
    BY <1>5, <2>1
  <2> QED BY <2>1, <2>2 DEF Passed
<1>8. index.drafts[c.draft].items \subseteq IssuedIds(owner, "item")
  <2>1. Cached(index.drafts[c.draft], c.draft, owner)
    BY <1>2, <1>7 DEF IndexOk, DraftsOk
  <2> QED BY <1>2, <2>1, IssuedCounts DEF Cached
<1>9. c.to \in index.drafts[c.draft].items => Passed(Head(job.todo), c, owner, index)
  BY <1>2, <1>8 DEF Passed
<1> QED BY <1>1, <1>9, CheckKeeps

(* require_owner reads only what the capabilities said.                    *)
LEMMA RequireOwnerKeeps ==
  ASSUME Core, RequireOwner
  PROVE  Core' /\ Goes
<1>1. At("owner") /\ UNCHANGED <<owner, index, caps, reference, last, learned>>
      /\ (Pass \/ Refuse(FALSE) \/ ReadFails)
  BY DEF RequireOwner
<1>2. Passed(Head(job.todo), job.call, owner, index)
  <2>1. Head(job.todo)[1] = "owner"
    BY <1>1, AtFacts
  <2> QED BY <2>1 DEF Passed
<1> QED BY <1>1, <1>2, CheckKeeps

(* patch_requires_objective_authority, decided on the cached draft.        *)
LEMMA DecideAuthorityKeeps ==
  ASSUME Core, DecideAuthority
  PROVE  Core' /\ Goes
<1> DEFINE new == [job EXCEPT !.todo = Tail(@), !.call.objective = ObjectiveNeeded(job.call)]
<1>1. At("authority") /\ UNCHANGED <<owner, index, caps, reference, last, learned>>
      /\ ((job' = new /\ answer' = answer) \/ Refuse(FALSE))
  BY DEF DecideAuthority
<1>2. /\ job # None /\ job.todo # <<>> /\ Head(job.todo)[1] = "authority"
      /\ JobOk(job, owner, index) /\ IndexOk(index, owner, learned) /\ OwnerOk(owner)
  BY <1>1, AtFacts
<1>3. job.call \in MutationCalls
  BY <1>1, WhoseCheck
<1>4. CASE Refuse(FALSE)
  BY <1>1, <1>4, CheckKeeps
<1>5. CASE job' = new /\ answer' = answer
  <2>1. JobOk(new, owner, index)
    BY <1>2, <1>3, DecidedOn
  <2>2. new.request = job.request
    <3> DEFINE q == job.request
               d == [job.call EXCEPT !.objective = ObjectiveNeeded(job.call)]
               c == job.call
               t == job.todo
               u == Tail(t)
    <3>1. job = [request |-> q, call |-> c, todo |-> t]
      BY <1>2 DEF JobOk
    <3>2. new = [job EXCEPT !.todo = u, !.call = d]
      OBVIOUS
    <3> HIDE DEF q, c, t, u, d, new
    <3>3. new.request = q
      BY <3>1, <3>2
    <3> QED BY <3>3 DEF q
  <2> HIDE DEF new
  <2>3. JobOk(job', owner', index') /\ IndexOk(index', owner', learned') /\ OwnerOk(owner')
    BY <1>1, <1>2, <1>5, <2>1
  <2>4. Basics' /\ RetryableMeansUnapplied'
    BY <1>1, <1>5 DEF Core, Basics, RetryableMeansUnapplied
  <2>5. Goes
    BY <1>1, <1>2, <1>5, <2>2 DEF Goes
  <2> QED BY <2>3, <2>4, <2>5 DEF Core
<1> QED BY <1>1, <1>4, <1>5

(* What is asked for anew of the owner is issued if the call goes on.      *)
LEMMA RevalidateKeeps ==
  ASSUME Core, NEW k \in Kinds, NEW x, Revalidate(k, x), job # None, job.todo # <<>>,
         Head(job.todo)[1] \in {"known", "content"},
         Head(job.todo)[1] = "known" => Head(job.todo)[2] = k /\ Head(job.todo)[3] = x,
         k = "draft" => Head(job.todo)[1] = "known",
         UNCHANGED <<owner, caps, reference, last>>
  PROVE  Core' /\ Goes
<1> DEFINE s == Head(job.todo)
<1>1. LearnedOk(index, owner, learned)
  BY NothingNew
<1>2. ASSUME Pass, x \in IssuedIds(owner, k), LearnedOk(index', owner, learned'),
             k # "draft" => index'.drafts = index.drafts
      PROVE  Core' /\ Goes
  <2>1. Passed(s, job.call, owner, index')
    BY <1>2 DEF Passed
  <2>2. index'.drafts = index.drafts \/ (s[1] = "known" /\ s[2] = "draft")
    BY <1>2
  <2> HIDE DEF s
  <2>3. Core' /\ job'.request = job.request
    BY <1>2, <2>1, <2>2, PassKeeps DEF s
  <2> QED BY <2>3 DEF Goes
<1>3. ASSUME Refuse(FALSE), LearnedOk(index', owner, learned')
      PROVE  Core' /\ Goes
  <2>1. Core' /\ job' = None
    BY <1>3, RefuseKeeps
  <2> QED BY <2>1 DEF Goes
<1>4. CASE Refuse(FALSE) /\ UNCHANGED <<index, learned>>
  BY <1>1, <1>3, <1>4
<1>5. CASE /\ x \in IssuedIds(owner, k) /\ index' = Cache(index, k, x)
           /\ Learn(Learned(k, {x})) /\ Pass
  <2>1. /\ LearnedOk(Cache(index, k, x), owner, learned')
        /\ k # "draft" => Cache(index, k, x).drafts = index.drafts
    BY <1>5, ObjectLearned
  <2> QED BY <1>2, <1>5, <2>1
<1>6. CASE ReadFails /\ UNCHANGED <<index, learned>>
  <2>1. Core' /\ job' = None
    BY <1>6, ReadFailsKeeps
  <2> QED BY <2>1 DEF Goes
<1>7. CASE /\ k = "revision" /\ index' = Relisted(index, k) /\ LearnAll(k)
           /\ IF x \in Holds(index', k) THEN Pass ELSE Refuse(FALSE)
  <2>1. /\ LearnedOk(index', owner, learned')
        /\ k # "draft" => index'.drafts = index.drafts
    BY <1>7, ListLearned
  <2>2. x \in Holds(index', k) => x \in IssuedIds(owner, k)
    BY <2>1 DEF LearnedOk, IndexOk, ListsOk
  <2>3. CASE x \in Holds(index', k)
    BY <1>2, <1>7, <2>1, <2>2, <2>3
  <2>4. CASE x \notin Holds(index', k)
    BY <1>3, <1>7, <2>1, <2>4
  <2> QED BY <2>3, <2>4
<1>8. \/ Refuse(FALSE) /\ UNCHANGED <<index, learned>>
      \/ /\ x \in IssuedIds(owner, k) /\ index' = Cache(index, k, x)
         /\ Learn(Learned(k, {x})) /\ Pass
      \/ ReadFails /\ UNCHANGED <<index, learned>>
      \/ /\ k = "revision" /\ index' = Relisted(index, k) /\ LearnAll(k)
         /\ IF x \in Holds(index', k) THEN Pass ELSE Refuse(FALSE)
  BY DEF Revalidate
<1> QED BY <1>4, <1>5, <1>6, <1>7, <1>8

(* revalidate_item: the items listed anew with those of the drafts.        *)
LEMMA RevalidateItemKeeps ==
  ASSUME Core, NEW x, RevalidateItem(x), job # None, job.todo # <<>>,
         Head(job.todo) = <<"known", "item", x>>,
         UNCHANGED <<owner, caps, reference, last>>
  PROVE  Core' /\ Goes
<1> DEFINE s == Head(job.todo)
           n == RelistedItems(index)
<1>1. IndexOk(index, owner, learned) /\ OwnerOk(owner) /\ LearnedOk(index, owner, learned)
  BY NothingNew DEF Core
<1>2. "item" \in Kinds /\ "item" # "draft"
  BY DEF Kinds
<1>3. ASSUME LearnAll("item")
      PROVE  LearnedOk(n, owner, learned') /\ n.drafts = index.drafts
  BY <1>2, <1>3, ListLearned
<1>4. DraftReferences(index) \subseteq IssuedIds(owner, "item")
  <2> SUFFICES ASSUME NEW d \in DOMAIN index.drafts
               PROVE  index.drafts[d].items \subseteq IssuedIds(owner, "item")
    BY DEF DraftReferences
  <2>1. Cached(index.drafts[d], d, owner)
    BY <1>1 DEF IndexOk, DraftsOk
  <2> QED BY <1>1, <2>1, IssuedCounts DEF Cached
<1> HIDE DEF n
<1>5. CASE /\ x \in IssuedIds(owner, "item") \cup DraftReferences(index) /\ LearnAll("item")
           /\ index' = CacheId(n, "item", x) /\ Pass
  <2>1. x \in IssuedIds(owner, "item")
    BY <1>4, <1>5
  <2> DEFINE le == learned'
  <2>2. LearnedOk(n, owner, le) /\ n.drafts = index.drafts
    BY <1>3, <1>5
  <2>3. \A j \in Kinds : le[j] \subseteq le[j] \cup (IF j = "item" THEN {x} ELSE {})
    OBVIOUS
  <2> HIDE DEF le
  <2>4. IndexOk(CacheId(n, "item", x), owner, le) /\ CacheId(n, "item", x).drafts = n.drafts
    BY <1>2, <2>1, <2>2, <2>3, CacheIdKeeps DEF LearnedOk
  <2>5. LearnedOk(index', owner, le) /\ index'.drafts = index.drafts
    BY <1>5, <2>2, <2>4 DEF LearnedOk
  <2>6. Passed(s, job.call, owner, index')
    BY <2>1 DEF Passed
  <2>7. Core' /\ job'.request = job.request
    BY <1>5, <2>5, <2>6, PassKeeps DEF le
  <2> QED BY <2>7 DEF Goes
<1>6. CASE Refuse(FALSE) /\ index' = n /\ LearnAll("item")
  <2>1. Core' /\ job' = None
    BY <1>3, <1>6, RefuseKeeps
  <2> QED BY <2>1 DEF Goes
<1>7. CASE Refuse(FALSE) /\ UNCHANGED <<index, learned>>
  <2>1. Core' /\ job' = None
    BY <1>1, <1>7, RefuseKeeps
  <2> QED BY <2>1 DEF Goes
<1>8. CASE ReadFails /\ UNCHANGED <<index, learned>>
  <2>1. Core' /\ job' = None
    BY <1>8, ReadFailsKeeps
  <2> QED BY <2>1 DEF Goes
<1>9. \/ /\ x \in IssuedIds(owner, "item") \cup DraftReferences(index) /\ LearnAll("item")
         /\ index' = CacheId(n, "item", x) /\ Pass
      \/ Refuse(FALSE) /\ index' = n /\ LearnAll("item")
      \/ Refuse(FALSE) /\ UNCHANGED <<index, learned>>
      \/ ReadFails /\ UNCHANGED <<index, learned>>
  BY DEF RevalidateItem, n
<1> QED BY <1>5, <1>6, <1>7, <1>8, <1>9

(* ensure_known_id and ensure_item: what passes was issued.                *)
LEMMA EnsureKnownKeeps ==
  ASSUME Core, EnsureKnown
  PROVE  Core' /\ Goes
<1> DEFINE s == Head(job.todo)
           k == s[2]
           x == s[3]
<1>1. At("known") /\ UNCHANGED <<owner, caps, reference, last>>
  BY DEF EnsureKnown
<1>2. /\ job # None /\ job.todo # <<>> /\ s[1] = "known" /\ s \in CheckSteps
      /\ IndexOk(index, owner, learned)
  BY <1>1, AtFacts
<1>3. k \in Kinds /\ s = <<"known", k, x>>
  <2>1. k \in Kinds
    BY <1>2, StepFields
  <2>2. s = <<"known", k, x>>
    <3> HIDE DEF s
    <3>1. CASE s \in {"known"} \X Kinds \X Nat
      BY <3>1
    <3>2. CASE s \in {"reload"} \X Kinds
      BY <1>2, <3>2
    <3>3. CASE s \in {<<"capabilities">>, <<"permitted">>, <<"version">>, <<"note">>, <<"content">>,
                      <<"authority">>, <<"owner">>}
      BY <1>2, <3>3
    <3> QED BY <1>2, <3>1, <3>2, <3>3 DEF CheckSteps
  <2> QED BY <2>1, <2>2
<1>4. \/ x \in Holds(index, k) /\ Pass /\ UNCHANGED <<index, learned>>
      \/ Refuse(FALSE) /\ UNCHANGED <<index, learned>>
      \/ k = "item" /\ RevalidateItem(x)
      \/ Revalidate(k, x)
  BY DEF EnsureKnown, Trusts
<1> HIDE DEF k, x
<1>5. CASE x \in Holds(index, k) /\ Pass /\ UNCHANGED <<index, learned>>
  <2>1. x \in IssuedIds(owner, k)
    BY <1>2, <1>3, <1>5 DEF IndexOk, ListsOk
  <2>2. Passed(s, job.call, owner, index)
    BY <1>3, <2>1 DEF Passed
  <2> QED BY <1>1, <1>5, <2>2, CheckKeeps
<1>6. CASE Refuse(FALSE) /\ UNCHANGED <<index, learned>>
  BY <1>1, <1>6, CheckKeeps
<1>7. CASE k = "item" /\ RevalidateItem(x)
  BY <1>1, <1>2, <1>3, <1>7, RevalidateItemKeeps
<1>8. CASE Revalidate(k, x)
  <2>1. s[1] = "known" /\ s[2] = k /\ s[3] = x
    BY <1>2 DEF k, x
  <2> QED BY <1>1, <1>2, <1>3, <1>8, <2>1, RevalidateKeeps
<1> QED BY <1>4, <1>5, <1>6, <1>7, <1>8

(* The content of the revision that is restored is at hand.                *)
LEMMA EnsureContentKeeps ==
  ASSUME Core, EnsureContent
  PROVE  Core' /\ Goes
<1>1. /\ At("content") /\ UNCHANGED <<owner, caps, reference, last>>
      /\ \/ Pass /\ UNCHANGED <<index, learned>>
         \/ Revalidate("revision", job.call.to)
  BY DEF EnsureContent
<1>2. job # None /\ job.todo # <<>> /\ Head(job.todo)[1] = "content"
  BY <1>1, AtFacts
<1>3. CASE Pass /\ UNCHANGED <<index, learned>>
  <2>1. Passed(Head(job.todo), job.call, owner, index)
    BY <1>2 DEF Passed
  <2> QED BY <1>1, <1>3, <2>1, CheckKeeps
<1>4. CASE Revalidate("revision", job.call.to)
  <2>1. "revision" \in Kinds /\ "revision" # "draft"
    BY DEF Kinds
  <2> QED BY <1>1, <1>2, <1>4, <2>1, RevalidateKeeps
<1> QED BY <1>1, <1>3, <1>4

-----------------------------------------------------------------------------
(* The call itself.                                                        *)

(* A call whose checks are over.                                           *)
LEMMA ReadyFacts ==
  ASSUME Core, NEW ops, Ready(ops)
  PROVE  /\ job # None /\ job.todo = <<>> /\ job.call.op \in ops
         /\ JobOk(job, owner, index) /\ job.call \in ReadCalls \cup MutationCalls
         /\ IndexOk(index, owner, learned) /\ OwnerOk(owner)
         /\ \A k \in Kinds : learned[k] \subseteq IssuedIds(owner, k)
<1>1. job # None /\ job.todo = <<>> /\ job.call.op \in ops
  BY DEF Ready
<1>2. JobOk(job, owner, index)
  BY <1>1 DEF Core
<1> QED BY <1>1, <1>2 DEF Core, Basics, JobOk

(* What is learned of a receipt was issued.                                *)
LEMMA ReceiptIssued ==
  ASSUME NEW o, OwnerOk(o), NEW i \in DOMAIN o.receipts
  PROVE  \A j \in Kinds : LearnedReceipt(o, i)[j] \subseteq IssuedIds(o, j)
<1>1. i \in IssuedIds(o, "receipt") /\ o.receipts[i].active \in IssuedIds(o, "revision")
  BY IssuedCounts, OwnerParts
<1>2. \A j \in Kinds : LearnedReceipt(o, i)[j] =
        IF j = "revision" THEN {o.receipts[i].active} ELSE IF j = "receipt" THEN {i} ELSE {}
  BY DEF LearnedReceipt, Only, NothingLearned, Kinds
<1> QED BY <1>1, <1>2

(* A list replaces what is known of its kind, or clears it.                *)
LEMMA ListKeeps ==
  ASSUME Core, List
  PROVE  Core' /\ Goes
<1> DEFINE k == job.call.kind
           names == NamesIn(owner, k, IssuedIds(owner, k))
<1>1. Ready({"list"}) /\ UNCHANGED <<owner, caps, reference, last>>
  BY DEF List
<1>2. k \in Kinds
  <2>1. job.call.op = "list" /\ job.call \in ReadCalls \cup MutationCalls
    BY <1>1, ReadyFacts
  <2> QED BY <2>1 DEF ReadCalls, MutationCalls, PatchCalls
<1>3. \/ /\ index' = IF k = "item" THEN RelistedItems(index) ELSE Relisted(index, k)
         /\ LearnAll(k) /\ Show(names)
      \/ index' = Cleared(index, k) /\ Refuse(FALSE) /\ UNCHANGED learned
      \/ ReadFails /\ UNCHANGED <<index, learned>>
  BY DEF List
<1> HIDE DEF k, names
<1>4. CASE /\ index' = IF k = "item" THEN RelistedItems(index) ELSE Relisted(index, k)
           /\ LearnAll(k) /\ Show(names)
  <2>1. LearnedOk(index', owner, learned')
    BY <1>2, <1>4, ListLearned
  <2>2. Core' /\ job' = None
    BY <1>1, <1>4, <2>1, ShowKeeps
  <2> QED BY <1>1, <2>2 DEF Goes
<1>5. CASE index' = Cleared(index, k) /\ Refuse(FALSE) /\ UNCHANGED learned
  <2>1. LearnedOk(index', owner, learned')
    BY <1>2, <1>5, ClearedLearned
  <2>2. Core' /\ job' = None
    BY <1>1, <1>5, <2>1, RefuseKeeps
  <2> QED BY <1>1, <2>2 DEF Goes
<1>6. CASE ReadFails /\ UNCHANGED <<index, learned>>
  <2>1. Core' /\ job' = None
    BY <1>1, <1>6, ReadFailsKeeps
  <2> QED BY <1>1, <2>1 DEF Goes
<1> QED BY <1>3, <1>4, <1>5, <1>6

(* What is read is cached before it is learned.                            *)
LEMMA ReadKeeps ==
  ASSUME Core, Read
  PROVE  Core' /\ Goes
<1> DEFINE k == job.call.kind
           x == job.call.id
           names == NamesIn(owner, k, {x})
<1>1. Ready({"read"}) /\ UNCHANGED <<owner, caps, reference, last>>
  BY DEF Read
<1>2. k \in Kinds
  <2>1. job.call.op = "read" /\ job.call \in ReadCalls \cup MutationCalls
    BY <1>1, ReadyFacts
  <2> QED BY <2>1 DEF ReadCalls, MutationCalls, PatchCalls, Kinds
<1>3. \/ /\ x \in IssuedIds(owner, k) /\ index' = Cache(index, k, x)
         /\ Learn(Learned(k, {x})) /\ Show(names)
      \/ ReadFails /\ UNCHANGED <<index, learned>>
  BY DEF Read
<1> HIDE DEF k, x, names
<1>4. CASE /\ x \in IssuedIds(owner, k) /\ index' = Cache(index, k, x)
           /\ Learn(Learned(k, {x})) /\ Show(names)
  <2>1. LearnedOk(index', owner, learned')
    BY <1>2, <1>4, ObjectLearned
  <2>2. Core' /\ job' = None
    BY <1>1, <1>4, <2>1, ShowKeeps
  <2> QED BY <1>1, <2>2 DEF Goes
<1>5. CASE ReadFails /\ UNCHANGED <<index, learned>>
  <2>1. Core' /\ job' = None
    BY <1>1, <1>5, ReadFailsKeeps
  <2> QED BY <1>1, <2>1 DEF Goes
<1> QED BY <1>3, <1>4, <1>5

(* recover_receipt: the receipt and its revision are cached and learned.   *)
LEMMA RecoverReceiptKeeps ==
  ASSUME Core, RecoverReceipt
  PROVE  Core' /\ Goes
<1>1. Ready({"recover_receipt"}) /\ UNCHANGED <<owner, caps, reference, last>>
  BY DEF RecoverReceipt
<1>2. /\ IndexOk(index, owner, learned) /\ OwnerOk(owner) /\ learned \in [Kinds -> SUBSET Nat]
      /\ \A k \in Kinds : learned[k] \subseteq IssuedIds(owner, k)
      /\ LearnedOk(index, owner, learned)
  BY <1>1, ReadyFacts, NothingNew DEF Core, Basics
<1>3. ASSUME NEW i \in ReceiptOf(owner, job.call.key), index' = CacheReceipt(index, owner, i),
             Learn(LearnedReceipt(owner, i)), Show(NamesIn(owner, "receipt", {i}))
      PROVE  Core' /\ Goes
  <2> DEFINE new == LearnedReceipt(owner, i)
             more == [j \in Kinds |-> learned[j] \cup new[j]]
             names == NamesIn(owner, "receipt", {i})
  <2>1. i \in DOMAIN owner.receipts
    BY <1>3 DEF ReceiptOf
  <2>2. \A j \in Kinds : more[j] \subseteq learned[j] \cup LearnedReceipt(owner, i)[j]
    OBVIOUS
  <2>3. \A j \in Kinds : new[j] \subseteq IssuedIds(owner, j)
    BY <1>2, <2>1, ReceiptIssued
  <2>4. Learn(new) /\ Show(names)
    BY <1>3
  <2> HIDE DEF new, more, names
  <2>5. IndexOk(index', owner, more)
    BY <1>2, <1>3, <2>1, <2>2, CacheReceiptKeeps
  <2>6. LearnedOk(index', owner, learned')
    BY <1>2, <2>3, <2>4, <2>5, LearnKeeps DEF more
  <2>7. Core' /\ job' = None
    BY <1>1, <2>4, <2>6, ShowKeeps
  <2> QED BY <1>1, <2>7 DEF Goes
<1>4. CASE Refuse(FALSE) /\ UNCHANGED <<index, learned>>
  <2>1. Core' /\ job' = None
    BY <1>1, <1>2, <1>4, RefuseKeeps
  <2> QED BY <1>1, <2>1 DEF Goes
<1>5. CASE ReadFails /\ UNCHANGED <<index, learned>>
  <2>1. Core' /\ job' = None
    BY <1>1, <1>5, ReadFailsKeeps
  <2> QED BY <1>1, <2>1 DEF Goes
<1>6. \/ \E i \in ReceiptOf(owner, job.call.key) :
           /\ index' = CacheReceipt(index, owner, i)
           /\ Learn(LearnedReceipt(owner, i)) /\ Show(NamesIn(owner, "receipt", {i}))
      \/ Refuse(FALSE) /\ UNCHANGED <<index, learned>>
      \/ ReadFails /\ UNCHANGED <<index, learned>>
  BY DEF RecoverReceipt
<1> QED BY <1>3, <1>4, <1>5, <1>6

(* The end of refresh_capabilities shows nothing.                          *)
LEMMA RefreshedKeeps ==
  ASSUME Core, Refreshed
  PROVE  Core' /\ Goes
<1> DEFINE none == {}
<1>1. UNCHANGED <<owner, index, caps, reference, last, learned>> /\ (ReadFails \/ Show(none))
  BY DEF Refreshed
<1> HIDE DEF none
<1>2. LearnedOk(index', owner, learned')
  BY <1>1, NothingNew
<1>3. CASE ReadFails
  <2>1. Core' /\ job' = None
    BY <1>1, <1>3, ReadFailsKeeps
  <2> QED BY <1>1, <2>1 DEF Goes
<1>4. CASE Show(none)
  <2>1. Core' /\ job' = None
    BY <1>1, <1>2, <1>4, ShowKeeps
  <2> QED BY <1>1, <2>1 DEF Goes
<1> QED BY <1>1, <1>3, <1>4

(* The owner performs only what the facade has checked.                    *)
LEMMA ReadyMutation ==
  ASSUME Core, Ready(MutationOps)
  PROVE  /\ job # None /\ job.call \in MutationCalls
         /\ IndexOk(index, owner, learned) /\ OwnerOk(owner)
         /\ \A k \in Kinds : learned[k] \subseteq IssuedIds(owner, k)
<1>1. /\ job # None /\ job.call.op \in MutationOps /\ job.call \in ReadCalls \cup MutationCalls
      /\ IndexOk(index, owner, learned) /\ OwnerOk(owner)
      /\ \A k \in Kinds : learned[k] \subseteq IssuedIds(owner, k)
  BY ReadyFacts
<1> QED BY <1>1, CallKinds

(* What is learned of the answer of a mutation was issued.                 *)
LEMMA ResultIssued ==
  ASSUME NEW o, OwnerOk(o), NEW c \in MutationCalls,
         c.op \in {"create_draft", "apply_patch"} => ResultDraft(o, c) \in DOMAIN o.drafts,
         c.op = "create_preview" => Len(o.previews) \in DOMAIN o.previews,
         c.op \in {"pause", "commit", "resume"} => ReceiptOf(o, c.key) # {}
  PROVE  \A j \in Kinds : LearnedResult(o, c)[j] \subseteq IssuedIds(o, j)
<1>1. CASE c.op \in {"create_draft", "apply_patch"}
  <2> DEFINE d == ResultDraft(o, c)
             items == o.drafts[d].items
  <2>1. d \in IssuedIds(o, "draft") /\ items \subseteq IssuedIds(o, "item")
    BY <1>1, IssuedCounts, OwnerParts
  <2>2. LearnedResult(o, c) = [Only("draft", {d}) EXCEPT !["item"] = items]
    BY <1>1 DEF LearnedResult
  <2> HIDE DEF d, items
  <2>3. \A j \in Kinds : LearnedResult(o, c)[j] =
          IF j = "draft" THEN {d} ELSE IF j = "item" THEN items ELSE {}
    BY <2>2 DEF Only, NothingLearned, Kinds
  <2> QED BY <2>1, <2>3
<1>2. CASE c.op = "create_preview"
  <2> DEFINE x == Len(o.previews)
  <2>1. x \in IssuedIds(o, "preview")
    BY <1>2, IssuedCounts
  <2>2. LearnedResult(o, c) = Only("preview", {x})
    BY <1>2 DEF LearnedResult
  <2> HIDE DEF x
  <2>3. \A j \in Kinds : LearnedResult(o, c)[j] = IF j = "preview" THEN {x} ELSE {}
    BY <2>2 DEF Only, NothingLearned, Kinds
  <2> QED BY <2>1, <2>3
<1>3. CASE c.op \in {"pause", "commit", "resume"}
  <2> DEFINE i == CHOOSE i \in ReceiptOf(o, c.key) : TRUE
  <2>1. i \in ReceiptOf(o, c.key)
    <3>1. \E n \in ReceiptOf(o, c.key) : TRUE
      BY <1>3
    <3> QED BY <3>1, Zenon
  <2>2. LearnedResult(o, c) = LearnedReceipt(o, i)
    BY <1>3 DEF LearnedResult
  <2> HIDE DEF i
  <2>3. i \in DOMAIN o.receipts
    BY <2>1 DEF ReceiptOf
  <2> QED BY <2>2, <2>3, ReceiptIssued
<1> QED BY <1>1, <1>2, <1>3, MutationFields DEF MutationOps

(* The owner after a mutation that it took.                                *)
LEMMA Performed ==
  ASSUME Core, Ready(MutationOps), Accepts(owner, job.call), owner' = Perform(owner, job.call)
  PROVE  OwnerOk(owner') /\ LearnedOk(index, owner', learned)
<1>1. /\ job.call \in MutationCalls /\ OwnerOk(owner) /\ IndexOk(index, owner, learned)
      /\ \A k \in Kinds : learned[k] \subseteq IssuedIds(owner, k)
  BY ReadyMutation
<1>2. Takes(owner, job.call)
  BY <1>1, AcceptsTakes
<1> DEFINE p == Perform(owner, job.call)
<1>3. OwnerOk(p) /\ Grown(owner, p)
  BY <1>1, <1>2, PerformKeeps
<1> HIDE DEF p
<1>4. IndexOk(index, p, learned) /\ \A k \in Kinds : IssuedIds(owner, k) \subseteq IssuedIds(p, k)
  BY <1>1, <1>3, GrownIndex, GrownIssued
<1>5. owner' = p
  BY DEF p
<1>6. \A k \in Kinds : learned[k] \subseteq IssuedIds(p, k)
  BY <1>1, <1>4
<1>7. LearnedOk(index, p, learned)
  BY <1>4, <1>6 DEF LearnedOk, Core, Basics
<1> QED BY <1>3, <1>5, <1>7

(* The owner performs the call, and its answer is cached and learned.      *)
LEMMA ForwardKeeps ==
  ASSUME Core, Forward
  PROVE  Core' /\ Goes
<1> DEFINE c == job.call
           p == Perform(owner, c)
           new == LearnedResult(p, c)
           more == [k \in Kinds |-> learned[k] \cup new[k]]
           names == ResultNames(p, c)
           r == FALSE
           a == TRUE
<1>1. /\ Ready(MutationOps) /\ Accepts(owner, c) /\ owner' = p
      /\ index' = CacheResult(index, p, c) /\ Answer(r, a, names) /\ Learn(new)
      /\ UNCHANGED <<caps, reference, last>>
  BY DEF Forward
<1>2. c \in MutationCalls /\ OwnerOk(owner) /\ learned \in [Kinds -> SUBSET Nat]
  BY <1>1, ReadyMutation DEF Core, Basics
<1>3. /\ OwnerOk(p) /\ IndexOk(index, p, learned)
      /\ \A k \in Kinds : learned[k] \subseteq IssuedIds(p, k)
  BY <1>1, Performed DEF LearnedOk
<1>4. Takes(owner, c)
  BY <1>1, <1>2, AcceptsTakes
<1>5. /\ c.op \in {"create_draft", "apply_patch"} => ResultDraft(p, c) \in DOMAIN p.drafts
      /\ c.op = "create_preview" => Len(p.previews) \in DOMAIN p.previews
      /\ c.op \in {"pause", "commit", "resume"} => ReceiptOf(p, c.key) # {}
  BY <1>2, <1>4, PerformAnswers
<1>6. r \in BOOLEAN /\ a \in BOOLEAN /\ ~(r /\ a)
  OBVIOUS
<1> HIDE DEF c, p, names, r, a
<1>7. \A j \in Kinds : new[j] \subseteq IssuedIds(p, j)
  BY <1>2, <1>3, <1>5, ResultIssued
<1>8. \A j \in Kinds : more[j] \subseteq learned[j] \cup LearnedResult(p, c)[j]
  OBVIOUS
<1> HIDE DEF new, more
<1>9. IndexOk(CacheResult(index, p, c), p, more)
  BY <1>2, <1>3, <1>5, <1>8, CacheResultKeeps
<1>10. LearnedOk(CacheResult(index, p, c), p, learned')
  BY <1>1, <1>2, <1>3, <1>7, <1>9, LearnKeeps DEF more
<1>11. OwnerOk(owner') /\ caps' = caps /\ LearnedOk(index', owner', learned')
  BY <1>1, <1>3, <1>10
<1>12. Core' /\ job' = None
  BY <1>1, <1>6, <1>11, AnswerKeeps
<1> QED BY <1>1, <1>12 DEF Goes

(* The owner performs the call, and the answer invites no repetition.      *)
LEMMA ForwardLostKeeps ==
  ASSUME Core, ForwardLost
  PROVE  Core' /\ Goes
<1> DEFINE r == FALSE
           a == TRUE
           none == {}
<1>1. /\ Ready(MutationOps) /\ Accepts(owner, job.call) /\ owner' = Perform(owner, job.call)
      /\ UNCHANGED <<index, caps, reference, last, learned>>
  BY DEF ForwardLost
<1>2. Answer(r, a, none)
  <2>1. PICK e \in {"unavailable", "unknown", "invalid"} : Answer(MutationRetryable(e), TRUE, {})
    BY DEF ForwardLost
  <2>2. MutationRetryable(e) = FALSE
    BY DEF MutationRetryable, Retryable
  <2> QED BY <2>1, <2>2
<1>3. r \in BOOLEAN /\ a \in BOOLEAN /\ ~(r /\ a)
  OBVIOUS
<1> HIDE DEF r, a, none
<1>4. OwnerOk(owner') /\ caps' = caps /\ LearnedOk(index', owner', learned')
  BY <1>1, Performed
<1>5. Core' /\ job' = None
  BY <1>2, <1>3, <1>4, AnswerKeeps
<1> QED BY <1>1, <1>5 DEF Goes

(* The owner refuses the call and has not performed it.                    *)
LEMMA ForwardRefusedKeeps ==
  ASSUME Core, ForwardRefused
  PROVE  Core' /\ Goes
<1>1. Ready(MutationOps) /\ UNCHANGED <<owner, index, caps, reference, last, learned>>
  BY DEF ForwardRefused
<1>2. PICK e \in OwnerErrors : Refuse(MutationRetryable(e))
  BY DEF ForwardRefused
<1>3. MutationRetryable(e) \in BOOLEAN
  BY DEF MutationRetryable, Retryable
<1>4. LearnedOk(index', owner, learned')
  BY <1>1, NothingNew
<1>5. Core' /\ job' = None
  BY <1>1, <1>2, <1>3, <1>4, RefuseKeeps
<1> QED BY <1>1, <1>5 DEF Goes

-----------------------------------------------------------------------------
(* Calls that arrive, and other consoles.                                  *)

(* The calls that callers make are of the forms above.                     *)
LEMMA CallsMade ==
  ASSUME OwnerOk(owner)
  PROVE  Reads \subseteq ReadCalls /\ Mutations \subseteq MutationCalls
<1>1. \A k \in Kinds : Named(k) \subseteq Nat
  BY DEF Named
<1>2. Reads \subseteq ReadCalls
  BY <1>1 DEF Reads, ReadCalls, Kinds
<1>3. Patches \subseteq PatchCalls
  <2> SUFFICES ASSUME NEW d \in Named("draft"), NEW v \in 1..MaxDraftVersion,
                      NEW r \in Named("revision"), NEW c \in Changes
               PROVE  [op |-> "apply_patch", draft |-> d, version |-> v, revision |-> r,
                       change |-> c[1], to |-> c[2], objective |-> FALSE] \in PatchCalls
    BY DEF Patches
  <2> DEFINE x == [op |-> "apply_patch", draft |-> d, version |-> v, revision |-> r,
                   change |-> c[1], to |-> c[2], objective |-> FALSE]
  <2>1. d \in Nat /\ v \in Nat /\ r \in Nat
    BY <1>1 DEF Kinds
  <2>2. \/ c[1] = "put_note" /\ c[2] = None
        \/ c[1] \in {"include_item", "remove_note", "restore_configuration"} /\ c[2] \in Nat
        \/ c[1] = "set_objective" /\ c[2] \in Objectives
    BY <1>1 DEF Changes, Kinds
  <2>3. CASE c[1] = "put_note" /\ c[2] = None
    BY <2>1, <2>3 DEF PatchCalls
  <2>4. CASE c[1] \in {"include_item", "remove_note", "restore_configuration"} /\ c[2] \in Nat
    BY <2>1, <2>4 DEF PatchCalls
  <2>5. CASE c[1] = "set_objective" /\ c[2] \in Objectives
    BY <2>1, <2>5 DEF PatchCalls
  <2> QED BY <2>2, <2>3, <2>4, <2>5
<1>4. Mutations \subseteq MutationCalls
  <2>1. [op : {"create_draft"}, revision : Named("revision")] \subseteq MutationCalls
    BY <1>1 DEF MutationCalls, Kinds
  <2>2. [op : {"create_preview"}, draft : Named("draft"), version : 1..MaxDraftVersion]
          \subseteq MutationCalls
    BY <1>1 DEF MutationCalls, Kinds
  <2>3. [op : {"pause"}, key : Keys, revision : Named("revision")] \subseteq MutationCalls
    BY <1>1 DEF MutationCalls, Kinds
  <2>4. [op : {"commit", "resume"}, key : Keys, revision : Named("revision"),
         preview : Named("preview")] \subseteq MutationCalls
    BY <1>1 DEF MutationCalls, Kinds
  <2>5. Patches \subseteq MutationCalls
    BY <1>3 DEF MutationCalls
  <2> QED BY <2>1, <2>2, <2>3, <2>4, <2>5 DEF Mutations
<1> QED BY <1>2, <1>4

(* The checks of a read.                                                   *)
LEMMA ReadOrder ==
  ASSUME NEW c \in ReadCalls
  PROVE  /\ Checks(c) \in Seq(CheckSteps)
         /\ \A i \in DOMAIN Checks(c) : Checks(c)[i][1] \in ReadChecks
<1> DEFINE k == <<"known", c.kind, c.id>>
           w == <<"owner">>
           a == <<"capabilities">>
           s == Checks(c)
<1>1. {w, a} \subseteq CheckSteps /\ w[1] \in ReadChecks /\ a[1] \in ReadChecks
  BY PlainSteps DEF ReadChecks
<1>2. CASE c.op = "read"
  <2>1. c.kind \in Kinds /\ c.id \in Nat
    BY <1>2 DEF ReadCalls, Kinds
  <2>2. k \in CheckSteps /\ k[1] \in ReadChecks
    BY <2>1, KnownStep DEF ReadChecks
  <2>3. s = <<k, w>>
    BY <1>2 DEF Checks
  <2> HIDE DEF k, w, s
  <2>4. s \in Seq(CheckSteps) /\ \A i \in DOMAIN s : s[i][1] \in ReadChecks
    BY <1>1, <2>2, <2>3
  <2> QED BY <2>4 DEF s
<1>3. CASE c.op = "refresh_capabilities"
  <2>1. s = <<a>>
    BY <1>3 DEF Checks
  <2> HIDE DEF a, s
  <2>2. s \in Seq(CheckSteps) /\ \A i \in DOMAIN s : s[i][1] \in ReadChecks
    BY <1>1, <2>1
  <2> QED BY <2>2 DEF s
<1>4. CASE c.op \in {"list", "recover_receipt"}
  <2>1. s = <<w>>
    BY <1>4 DEF Checks
  <2> HIDE DEF w, s
  <2>2. s \in Seq(CheckSteps) /\ \A i \in DOMAIN s : s[i][1] \in ReadChecks
    BY <1>1, <2>1
  <2> QED BY <2>2 DEF s
<1>5. c.op \in {"read", "refresh_capabilities", "list", "recover_receipt"}
  BY DEF ReadCalls
<1> QED BY <1>2, <1>3, <1>4, <1>5

(* A call that has just been accepted.                                     *)
LEMMA AcceptedOk ==
  ASSUME NEW r, NEW c \in ReadCalls \cup MutationCalls, NEW o, NEW ix
  PROVE  JobOk(Job(r, c, Checks(c)), o, ix)
<1> DEFINE j == Job(r, c, Checks(c))
           all == Checks(c)
<1>1. /\ j = [request |-> j.request, call |-> j.call, todo |-> j.todo]
      /\ j.call = c /\ j.todo = all
  BY DEF Job
<1>2. all \in Seq(CheckSteps) /\ (c \in ReadCalls => \A i \in DOMAIN all : all[i][1] \in ReadChecks)
  BY ReadOrder, MutationPositions
<1>3. ASSUME c \in MutationCalls
      PROVE  \E n \in 0..Len(all) : Advanced(all, c, n, o, ix)
  <2>1. Len(all) \in Nat /\ \A i \in DOMAIN all : i \in Nat
    BY <1>2
  <2>2. Len(all) = 0 + Len(all) /\ \A i \in DOMAIN all : 0 + i = i
    <3> HIDE DEF all
    <3> QED BY <2>1
  <2>3. Advanced(all, c, 0, o, ix)
    BY <2>2 DEF Advanced
  <2>4. 0 \in 0..Len(all)
    BY <2>1
  <2> QED BY <2>3, <2>4
<1> HIDE DEF j, all
<1>4. JobOk(j, o, ix)
  BY <1>1, <1>2, <1>3 DEF JobOk, all
<1> QED BY <1>4 DEF j

(* A legacy call starts with all of its checks ahead.                      *)
LEMMA AcceptKeeps ==
  ASSUME FacadeInv, Accept, trusted' = trusted
  PROVE  FacadeInv'
<1>1. /\ ~trusted /\ job = None /\ reference' = None /\ answer' = NoAnswer
      /\ UNCHANGED <<owner, index, caps, last, learned, sources>>
  BY DEF Accept
<1>2. PICK c \in Reads \cup Mutations : job' = Job(None, c, Checks(c))
  BY DEF Accept
<1>3. c \in ReadCalls \cup MutationCalls
  BY <1>2, CallsMade DEF FacadeInv, Core
<1>4. JobOk(job', owner', index')
  BY <1>2, <1>3, AcceptedOk
<1>5. OwnerOk(owner') /\ IndexOk(index', owner', learned')
  BY <1>1 DEF FacadeInv, Core
<1>6. Basics' /\ RetryableMeansUnapplied'
  BY <1>1 DEF FacadeInv, Core, Basics, NoAnswer, RetryableMeansUnapplied
<1>7. RequestInv'
  BY <1>1 DEF FacadeInv, RequestInv
<1> QED BY <1>4, <1>5, <1>6, <1>7 DEF FacadeInv, Core

(* A trusted request starts under its reference, with nothing of another.  *)
LEMMA AcceptTrustedKeeps ==
  ASSUME FacadeInv, AcceptTrusted, trusted' = trusted
  PROVE  FacadeInv'
<1> DEFINE a == <<"capabilities">>
           b == <<"permitted">>
<1>1. PICK r \in Requests, c \in Reads :
        /\ reference' = r /\ last' = r
        /\ IF last = r
           THEN job' = Job(r, c, Checks(c)) /\ UNCHANGED <<index, caps, learned, sources>>
           ELSE /\ job' = Job(r, c, <<a, b>> \o Checks(c))
                /\ index' = EmptyIndex /\ caps' = "unknown" /\ learned' = NothingLearned
                /\ sources' = {}
  BY DEF AcceptTrusted
<1>2. trusted /\ answer' = NoAnswer /\ owner' = owner
  BY DEF AcceptTrusted
<1>3. c \in ReadCalls /\ c \notin MutationCalls
  BY CallsMade, CallKinds DEF FacadeInv, Core
<1>4. OwnerOk(owner') /\ RetryableMeansUnapplied'
      /\ answer'.retryable \in BOOLEAN /\ answer'.applied \in BOOLEAN
  BY <1>2 DEF FacadeInv, Core, NoAnswer, RetryableMeansUnapplied
<1>5. CASE last = r
  <2>1. JobOk(job', owner', index')
    BY <1>1, <1>3, <1>5, AcceptedOk
  <2>2. job'.request = r
    BY <1>1, <1>5 DEF Job
  <2>3. IndexOk(index', owner', learned') /\ Basics'
    BY <1>1, <1>2, <1>4, <1>5 DEF FacadeInv, Core, Basics
  <2>4. RequestInv'
    BY <1>1, <1>2, <1>5, <2>2 DEF FacadeInv, RequestInv
  <2> QED BY <1>4, <2>1, <2>3, <2>4 DEF FacadeInv, Core
<1>6. CASE last # r
  <2> DEFINE all == Checks(c)
             todo == <<a, b>> \o all
             j == Job(r, c, todo)
  <2>1. all \in Seq(CheckSteps) /\ \A i \in DOMAIN all : all[i][1] \in ReadChecks
    BY <1>3, ReadOrder
  <2>2. /\ {a, b} \subseteq CheckSteps /\ a[1] \in ReadChecks /\ b[1] \in ReadChecks
    BY PlainSteps DEF ReadChecks
  <2> HIDE DEF all, a, b
  <2>3. todo \in Seq(CheckSteps) /\ \A i \in DOMAIN todo : todo[i][1] \in ReadChecks
    <3> DEFINE s == <<a, b>>
    <3>1. s \in Seq(CheckSteps) /\ Len(s) = 2 /\ s[1] = a /\ s[2] = b
      BY <2>2
    <3> HIDE DEF s
    <3>2. /\ s \o all \in Seq(CheckSteps) /\ Len(s \o all) = Len(s) + Len(all)
          /\ \A i \in 1..Len(s) + Len(all) :
               (s \o all)[i] = IF i <= Len(s) THEN s[i] ELSE all[i - Len(s)]
      BY <2>1, <3>1, ConcatProperties
    <3>3. todo = s \o all
      BY DEF s
    <3> HIDE DEF todo
    <3>4. ASSUME NEW i \in DOMAIN todo  PROVE todo[i][1] \in ReadChecks
      <4>1. i \in 1..2 + Len(all) /\ Len(all) \in Nat
        BY <2>1, <3>1, <3>2, <3>3
      <4>2. CASE i <= 2
        <5>1. todo[i] = s[i] /\ i \in {1, 2}
          BY <3>1, <3>2, <3>3, <4>1, <4>2
        <5> QED BY <2>2, <3>1, <5>1
      <4>3. CASE ~(i <= 2)
        <5>1. i - 2 \in DOMAIN all /\ todo[i] = all[i - 2]
          BY <2>1, <3>1, <3>2, <3>3, <4>1, <4>3
        <5> QED BY <2>1, <5>1
      <4> QED BY <4>2, <4>3
    <3> QED BY <3>2, <3>3, <3>4
  <2> HIDE DEF todo
  <2>4. /\ j = [request |-> j.request, call |-> j.call, todo |-> j.todo]
        /\ j.request = r /\ j.call = c /\ j.todo = todo
    BY DEF Job
  <2> HIDE DEF j
  <2>5. JobOk(j, owner', index')
    BY <1>3, <2>3, <2>4 DEF JobOk
  <2>6. job' = j
    BY <1>1, <1>6 DEF j, todo, all
  <2>7. IndexOk(index', owner', learned')
    BY <1>1, <1>6, EmptyKeeps
  <2>8. Basics'
    BY <1>1, <1>4, <1>6, NothingLearnedIn DEF Basics
  <2>9. RequestInv'
    BY <1>1, <1>2, <1>6, <2>4, <2>6 DEF FacadeInv, RequestInv
  <2> QED BY <1>4, <2>5, <2>6, <2>7, <2>8, <2>9 DEF FacadeInv, Core
<1> QED BY <1>5, <1>6

(* An owner that has grown changes nothing the facade relies on.           *)
LEMMA OwnerGrows ==
  ASSUME FacadeInv, OwnerOk(owner'), Grown(owner, owner'), trusted' = trusted,
         UNCHANGED <<index, caps, reference, last, job, answer, learned, sources>>
  PROVE  FacadeInv'
<1>1. /\ OwnerOk(owner) /\ IndexOk(index, owner, learned) /\ Basics
      /\ job # None => JobOk(job, owner, index)
  BY DEF FacadeInv, Core
<1>2. IndexOk(index, owner', learned) /\ (job # None => JobOk(job, owner', index))
  BY <1>1, GrownIndex, JobGrown
<1>3. \A k \in Kinds : learned[k] \subseteq IssuedIds(owner', k)
  BY <1>1, GrownIssued DEF Basics
<1>4. Basics'
  BY <1>1, <1>3 DEF Basics
<1>5. RequestInv' /\ RetryableMeansUnapplied'
  BY DEF FacadeInv, Core, RequestInv, RetryableMeansUnapplied
<1>6. IndexOk(index', owner', learned') /\ (job' # None => JobOk(job', owner', index'))
  BY <1>2
<1> QED BY <1>4, <1>5, <1>6 DEF FacadeInv, Core

(* Another console only lets the owner grow.                               *)
LEMMA OtherConsoleKeeps ==
  ASSUME FacadeInv, OtherConsole, trusted' = trusted
  PROVE  FacadeInv'
<1>1. OwnerOk(owner)
  BY DEF FacadeInv, Core
<1>2. UNCHANGED <<index, caps, reference, last, job, answer, learned, sources>>
  BY DEF OtherConsole
<1>3. ASSUME NEW c \in Mutations,
             Accepts(owner, IF c.op = "apply_patch" THEN [c EXCEPT !.objective = TRUE] ELSE c),
             owner' = Perform(owner, c)
      PROVE  FacadeInv'
  <2>1. c \in MutationCalls
    BY <1>1, CallsMade
  <2>2. ASSUME c.op = "apply_patch"  PROVE Takes(owner, c)
    <3> DEFINE d == [c EXCEPT !.objective = TRUE]
    <3>1. c \in PatchCalls
      BY <2>1, <2>2, MutationFields
    <3>2. /\ d \in PatchCalls /\ d.op = c.op /\ d.draft = c.draft
          /\ d.version = c.version /\ d.revision = c.revision /\ d.change = c.change
          /\ d.to = c.to
      BY <3>1, SamePatch
    <3>3. Accepts(owner, d)
      BY <1>3, <2>2
    <3> HIDE DEF d
    <3>4. d \in MutationCalls
      BY <3>2 DEF MutationCalls
    <3>5. Takes(owner, d)
      BY <3>3, <3>4, AcceptsTakes
    <3> QED BY <2>2, <3>2, <3>5, SameMeaning
  <2>3. Takes(owner, c)
    BY <1>3, <2>1, <2>2, AcceptsTakes
  <2>4. OwnerOk(owner') /\ Grown(owner, owner')
    BY <1>1, <1>3, <2>1, <2>3, PerformKeeps
  <2> QED BY <1>2, <2>4, OwnerGrows
<1>4. ASSUME owner' = [owner EXCEPT !.enabled = ~@]
      PROVE  FacadeInv'
  <2>1. OwnerOk(owner') /\ Grown(owner, owner')
    BY <1>1, <1>4, SwitchKeeps
  <2> QED BY <1>2, <2>1, OwnerGrows
<1> QED BY <1>3, <1>4 DEF OtherConsole

(* The facade starts with an empty index.                                  *)
LEMMA InitKeeps == Init => FacadeInv
<1> SUFFICES ASSUME Init PROVE FacadeInv
  OBVIOUS
<1>1. OwnerOk(InitOwner)
  <2>1. FirstRevisions \in Seq(Contents)
    BY FacadeAssumption DEF Contents
  <2>2. 1 \in 1..MaxItemCount
    BY FacadeAssumption
  <2> QED BY <2>1, <2>2 DEF InitOwner, OwnerOk, Owners
<1>2. OwnerOk(owner) /\ IndexOk(index, owner, learned)
  BY <1>1, EmptyKeeps DEF Init
<1>3. job # None => JobOk(job, owner, index)
  <2> DEFINE c == [op |-> "refresh_capabilities"]
  <2>1. c \in ReadCalls /\ Checks(c) = <<<<"capabilities">>>>
    BY DEF ReadCalls, Checks
  <2>2. job # None => job = Job(None, c, <<<<"capabilities">>>>)
    BY DEF Init
  <2> HIDE DEF c
  <2> QED BY <2>1, <2>2, AcceptedOk
<1>4. Basics /\ RetryableMeansUnapplied
  BY NothingLearnedIn DEF Init, Basics, NoAnswer, RetryableMeansUnapplied
<1>5. RequestInv
  BY DEF Init, RequestInv
<1> QED BY <1>2, <1>3, <1>4, <1>5 DEF FacadeInv, Core

(* Every step of a call.                                                   *)
LEMMA ServeKeeps ==
  ASSUME FacadeInv, ServeStep, Fills, trusted' = trusted
  PROVE  FacadeInv'
<1>1. Core /\ RequestInv
  BY DEF FacadeInv
<1>2. Core' /\ Goes
  BY <1>1, LoadCapabilitiesKeeps, ReloadKeeps, PermittedKeeps, EnsureKnownKeeps,
     EnsureVersionKeeps, EnsureNoteKeeps, EnsureContentKeeps, DecideAuthorityKeeps,
     RequireOwnerKeeps, ListKeeps, ReadKeeps, RecoverReceiptKeeps, RefreshedKeeps,
     ForwardKeeps, ForwardLostKeeps, ForwardRefusedKeeps, Zenon DEF ServeStep
<1> QED BY <1>1, <1>2, GoesKeeps DEF FacadeInv

(* Whatever the callers, the other consoles and the owner do, the facade   *)
(* keeps its index, and the checks its call has passed, true of the owner. *)
THEOREM FacadeIsSound == Spec => []FacadeInv
<1>1. Init => FacadeInv
  BY InitKeeps
<1>2. FacadeInv /\ [Next]_vars => FacadeInv'
  <2> SUFFICES ASSUME FacadeInv, [Next]_vars PROVE FacadeInv'
    OBVIOUS
  <2>1. ASSUME Accept, trusted' = trusted  PROVE FacadeInv'
    BY <2>1, AcceptKeeps
  <2>2. ASSUME AcceptTrusted, trusted' = trusted  PROVE FacadeInv'
    BY <2>2, AcceptTrustedKeeps
  <2>3. ASSUME ServeStep, Fills, trusted' = trusted  PROVE FacadeInv'
    BY <2>3, ServeKeeps
  <2>4. ASSUME OtherConsole, trusted' = trusted  PROVE FacadeInv'
    BY <2>4, OtherConsoleKeeps
  <2>5. ASSUME UNCHANGED vars  PROVE FacadeInv'
    BY <2>5 DEF vars, FacadeInv, Core, Basics, RequestInv, RetryableMeansUnapplied
  <2> QED BY <2>1, <2>2, <2>3, <2>4, <2>5, Zenon DEF Next
<1> QED BY <1>1, <1>2, PTL DEF Spec

-----------------------------------------------------------------------------
(* What it means for callers and for the owner.                            *)

(* The index stays within its capacities, and whenever a kind is taken to  *)
(* be complete it holds all that the owner had at the last list, and every *)
(* object read, made, commanded or recovered since (ensure_known_id).      *)
THEOREM IndexIsSound == Spec => []IndexSound
<1>1. FacadeInv => IndexSound
  <2> SUFFICES ASSUME FacadeInv PROVE IndexSound
    OBVIOUS
  <2>1. ListsOk(index, owner, learned) /\ DraftsOk(index, owner)
    BY DEF FacadeInv, Core, IndexOk
  <2>2. TypeOK
    BY <2>1 DEF FacadeInv, Core, Basics, RequestInv, TypeOK, ListsOk, DraftsOk, Listing
  <2>3. LearnedStaysKnown
    BY <2>1 DEF LearnedStaysKnown, ListsOk
  <2> QED BY <2>2, <2>3 DEF IndexSound
<1> QED BY <1>1, FacadeIsSound, PTL

(* A mutation that has passed its checks names only what the owner has     *)
(* issued.                                                                 *)
THEOREM OnlyIssuedForwarded == Spec => []ForwardedIsIssued
<1>1. FacadeInv => ForwardedIsIssued
  <2> SUFFICES ASSUME FacadeInv, Ready(MutationOps)
               PROVE  \A r \in References(job.call) : r[2] \in IssuedIds(owner, r[1])
    BY DEF ForwardedIsIssued
  <2>1. Core /\ job # None /\ job.call \in MutationCalls /\ job.todo = <<>>
    BY ReadyMutation DEF FacadeInv, Ready
  <2>2. JobOk(job, owner, index)
    BY <2>1 DEF Core
  <2>3. \A i \in 1..Len(Checks(job.call)) : Passed(Checks(job.call)[i], job.call, owner, index)
    BY <2>1, <2>2, AllPassed
  <2> QED BY <2>1, <2>3, ReferencesChecked
<1> QED BY <1>1, FacadeIsSound, PTL

(* An invitation to repeat means that the owner did not perform the call.  *)
THEOREM RetriesAreSafe == Spec => []RetryableMeansUnapplied
<1>1. FacadeInv => RetryableMeansUnapplied
  BY DEF FacadeInv, Core
<1> QED BY <1>1, FacadeIsSound, PTL

(* A trusted request is served under its own reference, from what was      *)
(* learned under it.                                                       *)
THEOREM ReferencesStayApart == Spec => []OwnReference
<1>1. FacadeInv => OwnReference
  BY DEF FacadeInv, RequestInv, OwnReference
<1> QED BY <1>1, FacadeIsSound, PTL

(* The authority sent with a patch is what the owner's draft asks for, if  *)
(* the owner can take the patch at all.                                    *)
THEOREM AuthorityIsRight == Spec => []AuthorityAgrees
<1>1. FacadeInv => AuthorityAgrees
  <2> SUFFICES ASSUME FacadeInv, Ready({"apply_patch"}), Current(owner, job.call)
               PROVE  job.call.objective <=> NeedsObjective(owner, job.call)
    BY DEF AuthorityAgrees
  <2> DEFINE c == job.call
             n == Len(Checks(c))
  <2>1. Ready(MutationOps) /\ c.op = "apply_patch"
    BY DEF Ready, MutationOps
  <2>2. Core /\ job # None /\ c \in MutationCalls /\ job.todo = <<>>
    BY <2>1, ReadyMutation DEF FacadeInv, Ready
  <2>3. JobOk(job, owner, index)
    BY <2>2 DEF Core
  <2>4. \A i \in 1..n : Passed(Checks(c)[i], c, owner, index)
    BY <2>2, <2>3, AllPassed
  <2>5. c \in PatchCalls
    BY <2>1, <2>2, MutationFields
  <2>6. n \in {5, 6, 7} /\ Checks(c)[n - 1] = <<"authority">>
    BY <2>5, PatchOrder
  <2> HIDE DEF n
  <2>7. n - 1 \in 1..n
    BY <2>6
  <2>8. Passed(<<"authority">>, c, owner, index)
    BY <2>4, <2>6, <2>7
  <2> QED BY <2>8 DEF Passed
<1> QED BY <1>1, FacadeIsSound, PTL

=============================================================================
