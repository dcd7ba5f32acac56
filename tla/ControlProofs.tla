--------------------------- MODULE ControlProofs ---------------------------
(***************************************************************************)
(* The inductive invariants of the control plane and of the durable store  *)
(* it is kept in, and what follows from them, for every choice of texts,   *)
(* items, keys, limits and lifetimes and for any number of processes.      *)
(***************************************************************************)
EXTENDS ControlSession, DurableControl, ControlPlaneProofs

-----------------------------------------------------------------------------
(* The shape of a plane.                                                   *)

PlaneFields ==
  {"enabled", "now", "status", "controlVersion", "controllerEpoch", "gateEpoch",
   "planEpoch", "active", "pauseLatched", "stopLatched", "windowExpires",
   "lastSequence", "events", "nextId", "boundary", "items", "latest", "drafts",
   "previews", "revisions", "commands", "continuation", "prepared"}

Boundaries == [generation : Nat, catalog : Nat, provider : Nat,
               controllerEpoch : Nat, gateEpoch : Nat, controlVersion : Nat]

PreviewFields == {"draft", "draftVersion", "base", "boundary", "selected", "applicable",
                  "manifest", "material", "expires", "consumed"}

Counters(p) ==
  /\ p.enabled \in BOOLEAN /\ p.pauseLatched \in BOOLEAN /\ p.stopLatched \in BOOLEAN
  /\ p.status \in Statuses
  /\ p.controlVersion \in Nat /\ p.controllerEpoch \in Nat /\ p.gateEpoch \in Nat
  /\ p.planEpoch \in Nat /\ p.now \in Nat /\ p.lastSequence \in Nat
  /\ p.boundary \in Boundaries

Preview(p, q) ==
  /\ DOMAIN q = PreviewFields
  /\ q.applicable \in BOOLEAN /\ q.consumed \in BOOLEAN
  /\ q.draft \in DOMAIN p.drafts /\ q.boundary \in Boundaries

Draft(p, d) ==
  /\ DOMAIN d = {"version", "base", "config", "expires"}
  /\ ConfigSound(p.items, d.config)

Revision(p, r) ==
  /\ DOMAIN r = {"parent", "config", "preview", "manifest", "planEpoch"}
  /\ ConfigSound(p.items, r.config)

IsSequence(s) == \E n \in Nat : DOMAIN s = 1..n

Shape(p) ==
  /\ DOMAIN p = PlaneFields
  /\ Counters(p)
  /\ RegistryTyped(p.items, p.latest)
  /\ p.drafts \in Seq(Range(p.drafts)) /\ p.previews \in Seq(Range(p.previews))
  /\ p.revisions \in Seq(Range(p.revisions))
  /\ \A d \in DOMAIN p.drafts : Draft(p, p.drafts[d])
  /\ \A i \in DOMAIN p.previews : Preview(p, p.previews[i])
  /\ \A r \in DOMAIN p.revisions : Revision(p, p.revisions[r])
  /\ p.active \in DOMAIN p.revisions
  /\ p.continuation \in {0} \cup DOMAIN p.previews
  /\ DOMAIN p.commands = Keys

-----------------------------------------------------------------------------
(* The parts of the invariant.                                             *)

InSync(p) ==
  /\ p.boundary.controlVersion = p.controlVersion
  /\ p.boundary.controllerEpoch = p.controllerEpoch
  /\ p.boundary.gateEpoch = p.gateEpoch
  /\ p.boundary.catalog <= p.gateEpoch + 1
  /\ p.boundary.provider <= p.gateEpoch + 1

(* b is a boundary the run had: no counter of it is ahead, and a catalog   *)
(* or provider value named after the present gate is the present one.      *)
Earlier(b, now) ==
  /\ b.generation <= now.generation
  /\ b.controllerEpoch <= now.controllerEpoch
  /\ b.gateEpoch <= now.gateEpoch
  /\ b.controlVersion <= now.controlVersion
  /\ b.catalog <= b.gateEpoch + 1
  /\ b.provider <= b.gateEpoch + 1
  /\ b.gateEpoch = now.gateEpoch /\ b.catalog = b.gateEpoch + 1 => now.catalog = b.catalog
  /\ b.gateEpoch = now.gateEpoch /\ b.provider = b.gateEpoch + 1 => now.provider = b.provider

(* What an unconsumed preview would commit is what it shows, and only the  *)
(* hold it was built in can still commit it.                               *)
Pending(p, q) ==
  /\ q.material # None => q.material = Input(p.drafts[q.draft].config, q.boundary)
  /\ q.applicable /\ p.status # "paused_ready" =>
       q.boundary.controlVersion < p.controlVersion

PreviewsKept(p) ==
  \A i \in DOMAIN p.previews :
    LET q == p.previews[i]
    IN  /\ Earlier(q.boundary, p.boundary)
        /\ q.applicable => q.material # None
        /\ ~q.consumed => Pending(p, q)

Approved(p, rev) ==
  LET q == p.previews[rev.preview]
  IN  /\ rev.preview \in DOMAIN p.previews /\ q.consumed
      /\ q.manifest = rev.manifest
      /\ q.material = Input(rev.config, q.boundary)

RevisionsApproved(p) ==
  \A r \in DOMAIN p.revisions : r # 1 => Approved(p, p.revisions[r])

PreparedSound(p) ==
  p.prepared # None =>
    /\ p.continuation # 0
    /\ p.active # 1
    /\ p.revisions[p.active].preview = p.continuation
    /\ p.prepared = p.previews[p.continuation].material

Latches(p) ==
  /\ p.stopLatched => p.pauseLatched /\ p.status # "paused_ready"
  /\ p.continuation # 0 => p.pauseLatched /\ p.previews[p.continuation].consumed

(* Commands that changed the run spent their control version.              *)
Winners(p) ==
  LET won(k) == p.commands[k] # None /\ p.commands[k].receipt.effect # "no_change"
      version(k) == p.commands[k].command.controlVersion
  IN  /\ \A k \in Keys : won(k) => version(k) \in Nat /\ version(k) < p.controlVersion
      /\ \A k1, k2 \in Keys : won(k1) /\ won(k2) /\ k1 # k2 => version(k1) # version(k2)

Sound(p) ==
  /\ Shape(p)
  /\ InSync(p)
  /\ PreviewsKept(p)
  /\ RevisionsApproved(p)
  /\ PreparedSound(p)
  /\ Latches(p)
  /\ Winners(p)

IInv == Sound(plane)

-----------------------------------------------------------------------------
(* Sequences of drafts, previews and revisions.                            *)

(* What push changes of a journal.                                          *)
LEMMA Appended ==
  ASSUME NEW seq, seq \in Seq(Range(seq)), NEW e
  PROVE  LET new == Append(seq, e)
             n == Len(seq) + 1
         IN  /\ new \in Seq(Range(new))
             /\ n \in Nat \ {0} /\ n \notin DOMAIN seq
             /\ DOMAIN new = DOMAIN seq \cup {n}
             /\ \A i \in DOMAIN seq : new[i] = seq[i]
             /\ new[n] = e
<1> DEFINE S == Range(seq) \cup {e}
           new == Append(seq, e)
<1>1. seq \in Seq(S)
  BY DEF S
<1> HIDE DEF S
<1>2. e \in S
  BY DEF S
<1>3. /\ new \in Seq(S) /\ Range(new) = Range(seq) \cup {e}
      /\ DOMAIN new = 1..(Len(seq) + 1)
      /\ \A i \in DOMAIN seq : new[i] = seq[i]
      /\ new[Len(seq) + 1] = e
  BY <1>1, <1>2, RangeOfAppend
<1>4. Len(seq) \in Nat /\ DOMAIN seq = 1..Len(seq)
  BY <1>1
<1> HIDE DEF new
<1>5. new \in Seq(Range(new))
  BY <1>3 DEF S
<1> QED BY <1>3, <1>4, <1>5 DEF new

(* A list whose records are rewritten in place keeps its length.            *)
LEMMA Remapped ==
  ASSUME NEW seq, seq \in Seq(Range(seq)), NEW t, t = [i \in DOMAIN seq |-> t[i]]
  PROVE  t \in Seq(Range(t))
<1>1. Len(seq) \in Nat /\ DOMAIN seq = 1..Len(seq)
  OBVIOUS
<1>2. t \in [1..Len(seq) -> Range(t)]
  BY <1>1 DEF Range
<1> QED BY <1>1, <1>2

-----------------------------------------------------------------------------
(* What the bookkeeping of an operation leaves alone.                      *)

SameExcept(p, q, changed) ==
  DOMAIN q = PlaneFields /\ \A f \in PlaneFields \ changed : q[f] = p[f]

(* record_events touches the event sequence only.                           *)
LEMMA RecordEventsFrame ==
  ASSUME NEW p, DOMAIN p = PlaneFields, p.lastSequence \in Nat,
         NEW evs, Len(evs) \in Nat, NEW preview
  PROVE  LET q == RecordEvents(p, evs, preview)
         IN  /\ SameExcept(p, q, {"lastSequence", "nextId", "events"})
             /\ q.lastSequence \in Nat
<1> DEFINE kept == IF MaxEvents - Len(p.events) < Len(evs)
                   THEN MaxEvents - Len(p.events) ELSE Len(evs)
           sequence == p.lastSequence + Len(evs)
           id == p.nextId + kept
           events == p.events \o [i \in 1..kept |->
                       [sequence |-> p.lastSequence + i, id |-> p.nextId + i - 1,
                        what |-> evs[i], preview |-> preview]]
           q == [p EXCEPT !.lastSequence = sequence, !.nextId = id, !.events = events]
<1>1. RecordEvents(p, evs, preview) = q
  BY DEF RecordEvents
<1>2. sequence \in Nat
  OBVIOUS
<1> HIDE DEF kept, sequence, id, events
<1>3. SameExcept(p, q, {"lastSequence", "nextId", "events"}) /\ q.lastSequence = sequence
  BY DEF SameExcept, PlaneFields
<1> HIDE DEF q
<1> QED BY <1>1, <1>2, <1>3

(* next_id touches the id counter only.                                     *)
LEMMA TakeIdsFrame ==
  ASSUME NEW p, DOMAIN p = PlaneFields, NEW n
  PROVE  SameExcept(p, TakeIds(p, n), {"nextId"})
BY DEF SameExcept, PlaneFields, TakeIds

(* sync_boundary touches boundary and action digest only.                   *)
LEMMA SyncBoundaryFrame ==
  ASSUME NEW p, DOMAIN p = PlaneFields, p.boundary \in Boundaries,
         p.controlVersion \in Nat, p.controllerEpoch \in Nat, p.gateEpoch \in Nat
  PROVE  LET q == SyncBoundary(p)
         IN  /\ SameExcept(p, q, {"boundary"})
             /\ q.boundary \in Boundaries
             /\ q.boundary.controlVersion = p.controlVersion
             /\ q.boundary.controllerEpoch = p.controllerEpoch
             /\ q.boundary.gateEpoch = p.gateEpoch
             /\ q.boundary.generation = p.boundary.generation
             /\ q.boundary.catalog = p.boundary.catalog
             /\ q.boundary.provider = p.boundary.provider
<1> DEFINE b == [p.boundary EXCEPT !.controlVersion = p.controlVersion,
                                   !.controllerEpoch = p.controllerEpoch,
                                   !.gateEpoch = p.gateEpoch]
           q == [p EXCEPT !.boundary = b]
<1>1. SyncBoundary(p) = q
  BY DEF SyncBoundary, PlaneFields, Boundaries
<1>2. /\ b \in Boundaries
      /\ b.controlVersion = p.controlVersion /\ b.controllerEpoch = p.controllerEpoch
      /\ b.gateEpoch = p.gateEpoch /\ b.generation = p.boundary.generation
      /\ b.catalog = p.boundary.catalog /\ b.provider = p.boundary.provider
  BY DEF Boundaries
<1> HIDE DEF b
<1>3. SameExcept(p, q, {"boundary"}) /\ q.boundary = b
  BY DEF SameExcept, PlaneFields
<1> HIDE DEF q
<1> QED BY <1>1, <1>2, <1>3

(* save_idempotent touches the receipts and the winners only.               *)
LEMMA SaveCommandFrame ==
  ASSUME NEW p, DOMAIN p = PlaneFields, DOMAIN p.commands = Keys,
         NEW c, c.key \in Keys, NEW effect
  PROVE  LET q == SaveCommand(p, c, effect)
         IN  /\ SameExcept(p, q, {"nextId", "commands"})
             /\ DOMAIN q.commands = Keys
             /\ q.commands[c.key].command = c
             /\ q.commands[c.key].receipt.effect = effect
             /\ \A k \in Keys : k # c.key => q.commands[k] = p.commands[k]
<1> DEFINE t == TakeIds(p, 1)
           e == [command |-> c,
                 receipt |-> [effect |-> effect, controlVersion |-> p.controlVersion,
                              active |-> p.active, paused |-> p.pauseLatched]]
           m == [p.commands EXCEPT ![c.key] = e]
           q == [t EXCEPT !.commands = m]
<1>1. SameExcept(p, t, {"nextId"})
  BY TakeIdsFrame
<1>2. SaveCommand(p, c, effect) = q
  <2>1. t.commands = p.commands
    BY <1>1 DEF SameExcept, PlaneFields
  <2>2. SaveCommand(p, c, effect) = [t EXCEPT !.commands[c.key] = e]
    BY DEF SaveCommand
  <2> HIDE DEF t, e
  <2> QED BY <2>1, <2>2
<1> HIDE DEF t
<1>3. e.command = c /\ e.receipt.effect = effect
  OBVIOUS
<1> HIDE DEF e
<1>4. DOMAIN m = Keys /\ m[c.key] = e /\ \A k \in Keys : k # c.key => m[k] = p.commands[k]
  OBVIOUS
<1> HIDE DEF m
<1>5. SameExcept(p, q, {"nextId", "commands"}) /\ q.commands = m
  BY <1>1 DEF SameExcept, PlaneFields
<1> HIDE DEF q
<1> QED BY <1>2, <1>3, <1>4, <1>5

(* The bookkeeping fields are in no part of the invariant.                 *)
LEMMA BookkeepingKeeps ==
  ASSUME NEW p, Sound(p), NEW q, q.lastSequence \in Nat,
         SameExcept(p, q, {"lastSequence", "nextId", "events"})
  PROVE  Sound(q)
<1>1. DOMAIN q = PlaneFields
  BY DEF SameExcept
<1>2. /\ q.enabled = p.enabled /\ q.pauseLatched = p.pauseLatched
      /\ q.stopLatched = p.stopLatched /\ q.status = p.status
      /\ q.controlVersion = p.controlVersion /\ q.controllerEpoch = p.controllerEpoch
      /\ q.gateEpoch = p.gateEpoch /\ q.planEpoch = p.planEpoch /\ q.now = p.now
      /\ q.boundary = p.boundary /\ q.items = p.items /\ q.latest = p.latest
      /\ q.drafts = p.drafts /\ q.previews = p.previews /\ q.revisions = p.revisions
      /\ q.active = p.active /\ q.continuation = p.continuation
      /\ q.prepared = p.prepared /\ q.commands = p.commands
  BY DEF SameExcept, PlaneFields
<1>3. Shape(q)
  BY <1>1, <1>2 DEF Sound, Shape, Counters, Draft, Preview, Revision
<1>4. InSync(q)
  BY <1>2 DEF Sound, InSync
<1>5. PreviewsKept(q)
  BY <1>2 DEF Sound, PreviewsKept, Pending
<1>6. RevisionsApproved(q)
  BY <1>2 DEF Sound, RevisionsApproved, Approved
<1>7. PreparedSound(q) /\ Latches(q)
  BY <1>2 DEF Sound, PreparedSound, Latches
<1>8. Winners(q)
  BY <1>2 DEF Sound, Winners
<1> QED BY <1>3, <1>4, <1>5, <1>6, <1>7, <1>8 DEF Sound

(* record_events keeps the plane sound.                                     *)
LEMMA RecordEventsKeeps ==
  ASSUME NEW p, Sound(p), NEW evs, Len(evs) \in Nat, NEW preview
  PROVE  LET q == RecordEvents(p, evs, preview)
         IN  Sound(q) /\ SameExcept(p, q, {"lastSequence", "nextId", "events"})
<1>1. DOMAIN p = PlaneFields /\ p.lastSequence \in Nat
  BY DEF Sound, Shape, Counters
<1> QED BY <1>1, RecordEventsFrame, BookkeepingKeeps

(* next_id keeps the plane sound.                                           *)
LEMMA TakeIdsKeeps ==
  ASSUME NEW p, Sound(p), NEW n
  PROVE  Sound(TakeIds(p, n)) /\ SameExcept(p, TakeIds(p, n), {"nextId"})
<1> DEFINE q == TakeIds(p, n)
<1>1. DOMAIN p = PlaneFields /\ p.lastSequence \in Nat
  BY DEF Sound, Shape, Counters
<1>2. SameExcept(p, q, {"nextId"})
  BY <1>1, TakeIdsFrame
<1> HIDE DEF q
<1>3. SameExcept(p, q, {"lastSequence", "nextId", "events"}) /\ q.lastSequence \in Nat
  BY <1>1, <1>2 DEF SameExcept, PlaneFields
<1>4. Sound(q)
  BY <1>3, BookkeepingKeeps
<1> QED BY <1>2, <1>4 DEF q

-----------------------------------------------------------------------------
(* Commands.                                                               *)

(* The control versions of the commands that changed the run are below v.  *)
SpentBelow(p, v) ==
  \A k \in Keys : p.commands[k] # None /\ p.commands[k].receipt.effect # "no_change"
                    => /\ p.commands[k].command.controlVersion \in Nat
                       /\ p.commands[k].command.controlVersion < v

(* Only the receipt of c is new.                                           *)
Recorded(p, q, c) ==
  \A k \in Keys : k # c.key => q.commands[k] = p.commands[k]

(* A new receipt keeps the plane sound: its key had none, its version no winner.*)
LEMMA SaveCommandKeeps ==
  ASSUME NEW p, Sound(p), NEW c, c.key \in Keys, c.controlVersion \in Nat, NEW effect,
         effect # "no_change"
           => SpentBelow(p, c.controlVersion) /\ c.controlVersion < p.controlVersion
  PROVE  LET q == SaveCommand(p, c, effect)
         IN  /\ Sound(q) /\ Recorded(p, q, c)
             /\ SameExcept(p, q, {"nextId", "commands"})
<1> DEFINE q == SaveCommand(p, c, effect)
<1>1. DOMAIN p = PlaneFields /\ DOMAIN p.commands = Keys /\ p.lastSequence \in Nat
  BY DEF Sound, Shape, Counters
<1>2. /\ SameExcept(p, q, {"nextId", "commands"})
      /\ DOMAIN q.commands = Keys
      /\ q.commands[c.key].command = c
      /\ q.commands[c.key].receipt.effect = effect
      /\ \A k \in Keys : k # c.key => q.commands[k] = p.commands[k]
  BY <1>1, SaveCommandFrame
<1> HIDE DEF q
<1>3. Winners(q)
  <2>1. q.controlVersion = p.controlVersion
    BY <1>2 DEF SameExcept, PlaneFields
  <2>2. CASE effect = "no_change"
    BY <1>2, <2>1, <2>2 DEF Sound, Winners
  <2>3. CASE effect # "no_change"
    <3>1. ASSUME NEW k \in Keys, k # c.key, q.commands[k] # None,
                 q.commands[k].receipt.effect # "no_change"
          PROVE  /\ q.commands[k].command.controlVersion \in Nat
                 /\ q.commands[k].command.controlVersion < c.controlVersion
      BY <1>2, <2>3, <3>1 DEF SpentBelow
    <3> QED BY <1>2, <2>1, <2>3, <3>1 DEF Sound, Winners
  <2> QED BY <2>2, <2>3
<1>4. /\ q.enabled = p.enabled /\ q.pauseLatched = p.pauseLatched
      /\ q.stopLatched = p.stopLatched /\ q.status = p.status
      /\ q.controlVersion = p.controlVersion /\ q.controllerEpoch = p.controllerEpoch
      /\ q.gateEpoch = p.gateEpoch /\ q.planEpoch = p.planEpoch /\ q.now = p.now
      /\ q.lastSequence = p.lastSequence
      /\ q.boundary = p.boundary /\ q.items = p.items /\ q.latest = p.latest
      /\ q.drafts = p.drafts /\ q.previews = p.previews /\ q.revisions = p.revisions
      /\ q.active = p.active /\ q.continuation = p.continuation
      /\ q.prepared = p.prepared /\ DOMAIN q = PlaneFields
  BY <1>2 DEF SameExcept, PlaneFields
<1>5. Shape(q)
  BY <1>2, <1>4 DEF Sound, Shape, Counters, Draft, Preview, Revision
<1>6. InSync(q)
  BY <1>4 DEF Sound, InSync
<1>7. PreviewsKept(q)
  BY <1>4 DEF Sound, PreviewsKept, Pending
<1>8. RevisionsApproved(q)
  BY <1>4 DEF Sound, RevisionsApproved, Approved
<1>9. PreparedSound(q) /\ Latches(q)
  BY <1>4 DEF Sound, PreparedSound, Latches
<1>10. Sound(q) /\ Recorded(p, q, c)
  BY <1>2, <1>3, <1>5, <1>6, <1>7, <1>8, <1>9 DEF Sound, Recorded
<1> QED BY <1>2, <1>10 DEF q

(* Every change of the latches moves the gate and the control version on.  *)
GateFields == {"pauseLatched", "stopLatched", "status", "gateEpoch", "controlVersion",
               "boundary", "continuation", "prepared"}

(* A gate step: the run leaves paused_ready or its previews are older.      *)
LEMMA GateKeeps ==
  ASSUME NEW p, Sound(p), NEW q, SameExcept(p, q, GateFields),
         q.pauseLatched \in BOOLEAN, q.stopLatched \in BOOLEAN, q.status \in Statuses,
         q.gateEpoch = p.gateEpoch + 1, q.controlVersion = p.controlVersion + 1,
         q.boundary \in Boundaries,
         q.boundary.controlVersion = q.controlVersion,
         q.boundary.controllerEpoch = p.controllerEpoch,
         q.boundary.gateEpoch = q.gateEpoch,
         q.boundary.generation = p.boundary.generation,
         q.boundary.catalog = p.boundary.catalog,
         q.boundary.provider = p.boundary.provider,
         \/ q.continuation = p.continuation /\ q.prepared = p.prepared
         \/ q.continuation = 0 /\ q.prepared = None,
         Latches(q)
  PROVE  Sound(q) /\ SpentBelow(q, p.controlVersion)
<1>1. DOMAIN q = PlaneFields
  BY DEF SameExcept
<1>2. /\ q.enabled = p.enabled /\ q.controllerEpoch = p.controllerEpoch
      /\ q.planEpoch = p.planEpoch /\ q.now = p.now /\ q.lastSequence = p.lastSequence
      /\ q.items = p.items /\ q.latest = p.latest
      /\ q.drafts = p.drafts /\ q.previews = p.previews /\ q.revisions = p.revisions
      /\ q.active = p.active /\ q.commands = p.commands
  BY DEF SameExcept, PlaneFields, GateFields
<1>3. Counters(p) /\ p.boundary \in Boundaries
  BY DEF Sound, Shape, Counters
<1>4. Shape(q)
  <2>1. Counters(q)
    BY <1>2, <1>3 DEF Counters
  <2>2. q.continuation \in {0} \cup DOMAIN q.previews
    BY <1>2 DEF Sound, Shape
  <2> QED BY <1>1, <1>2, <2>1, <2>2 DEF Sound, Shape, Draft, Preview, Revision
<1>5. InSync(q)
  BY <1>2, <1>3 DEF Sound, InSync, Counters, Boundaries
<1>6. PreviewsKept(q)
  <2> SUFFICES ASSUME NEW i \in DOMAIN p.previews
               PROVE  LET x == p.previews[i]
                      IN  /\ Earlier(x.boundary, q.boundary)
                          /\ x.applicable => x.material # None
                          /\ ~x.consumed => Pending(q, x)
    BY <1>2 DEF PreviewsKept
  <2> DEFINE x == p.previews[i]
  <2>1. /\ Earlier(x.boundary, p.boundary) /\ x.boundary \in Boundaries
        /\ x.applicable => x.material # None
        /\ ~x.consumed => Pending(p, x)
    BY DEF Sound, PreviewsKept, Shape, Preview
  <2>2. p.boundary.controlVersion = p.controlVersion /\ p.boundary.gateEpoch = p.gateEpoch
        /\ p.boundary.controllerEpoch = p.controllerEpoch
    BY DEF Sound, InSync
  <2> HIDE DEF x
  <2>3. Earlier(x.boundary, q.boundary)
    BY <1>3, <2>1, <2>2 DEF Earlier, Counters, Boundaries
  <2>4. x.boundary.controlVersion < q.controlVersion
    BY <1>3, <2>1, <2>2 DEF Earlier, Counters, Boundaries
  <2>5. ~x.consumed => Pending(q, x)
    BY <1>2, <2>1, <2>4 DEF Pending
  <2> QED BY <2>1, <2>3, <2>5 DEF x
<1>7. RevisionsApproved(q)
  BY <1>2 DEF Sound, RevisionsApproved, Approved
<1>8. PreparedSound(q)
  BY <1>2 DEF Sound, PreparedSound
<1>9. SpentBelow(q, p.controlVersion) /\ Winners(q)
  BY <1>2, <1>3 DEF Sound, Winners, SpentBelow, Counters
<1> QED BY <1>4, <1>5, <1>6, <1>7, <1>8, <1>9 DEF Sound

(* A sound plane, part by part.                                             *)
LEMMA SoundFields ==
  ASSUME NEW p, Sound(p)
  PROVE  /\ DOMAIN p = PlaneFields /\ Counters(p) /\ p.boundary \in Boundaries
         /\ p.controlVersion \in Nat /\ p.controllerEpoch \in Nat /\ p.gateEpoch \in Nat
         /\ p.lastSequence \in Nat /\ p.planEpoch \in Nat /\ p.now \in Nat
         /\ DOMAIN p.commands = Keys /\ InSync(p)
BY DEF Sound, Shape, Counters

(* A step that moves gate and control version, then follows the boundary.  *)
LEMMA SyncedGateKeeps ==
  ASSUME NEW p, Sound(p), NEW y, SameExcept(p, y, GateFields \ {"boundary"}),
         y.pauseLatched \in BOOLEAN, y.stopLatched \in BOOLEAN, y.status \in Statuses,
         y.gateEpoch = p.gateEpoch + 1, y.controlVersion = p.controlVersion + 1,
         \/ y.continuation = p.continuation /\ y.prepared = p.prepared
         \/ y.continuation = 0 /\ y.prepared = None,
         Latches(y)
  PROVE  LET q == SyncBoundary(y)
         IN  /\ Sound(q) /\ SpentBelow(q, p.controlVersion)
             /\ q.controlVersion = p.controlVersion + 1
             /\ SameExcept(p, q, GateFields) /\ SameExcept(y, q, {"boundary"})
<1> DEFINE q == SyncBoundary(y)
<1>1. /\ DOMAIN y = PlaneFields /\ y.boundary = p.boundary
      /\ y.controllerEpoch = p.controllerEpoch
  BY DEF SameExcept, GateFields, PlaneFields
<1>2. /\ SameExcept(y, q, {"boundary"})
      /\ q.boundary \in Boundaries
      /\ q.boundary.controlVersion = y.controlVersion
      /\ q.boundary.controllerEpoch = y.controllerEpoch
      /\ q.boundary.gateEpoch = y.gateEpoch
      /\ q.boundary.generation = y.boundary.generation
      /\ q.boundary.catalog = y.boundary.catalog
      /\ q.boundary.provider = y.boundary.provider
  BY <1>1, SoundFields, SyncBoundaryFrame
<1> HIDE DEF q
<1>3. /\ q.pauseLatched = y.pauseLatched /\ q.stopLatched = y.stopLatched
      /\ q.status = y.status /\ q.gateEpoch = y.gateEpoch
      /\ q.controlVersion = y.controlVersion /\ q.continuation = y.continuation
      /\ q.prepared = y.prepared /\ q.previews = y.previews
  BY <1>2 DEF SameExcept, PlaneFields
<1>4. SameExcept(p, q, GateFields)
  BY <1>2 DEF SameExcept, GateFields, PlaneFields
<1>5. Latches(q)
  BY <1>3 DEF Latches
<1>6. Sound(q) /\ SpentBelow(q, p.controlVersion)
  BY <1>1, <1>2, <1>3, <1>4, <1>5, GateKeeps
<1> QED BY <1>2, <1>3, <1>4, <1>6 DEF q

(* pause keeps the plane sound.                                             *)
LEMMA PauseKeeps ==
  ASSUME NEW p, Sound(p), NEW c, c.key \in Keys, PauseAllowed(p, c)
  PROVE  LET q == Pause(p, c)
         IN  Sound(q) /\ Recorded(p, q, c) /\ q.active = p.active
<1> DEFINE y == [p EXCEPT !.pauseLatched = TRUE, !.gateEpoch = @ + 1,
                          !.controlVersion = @ + 1, !.status = "paused_ready"]
           q == SyncBoundary(y)
           r == SaveCommand(q, c, "pause_requested")
<1>1. /\ SameExcept(p, y, GateFields \ {"boundary"})
      /\ y.pauseLatched = TRUE /\ y.stopLatched = p.stopLatched
      /\ y.status = "paused_ready"
      /\ y.gateEpoch = p.gateEpoch + 1 /\ y.controlVersion = p.controlVersion + 1
      /\ y.continuation = p.continuation /\ y.prepared = p.prepared
      /\ y.previews = p.previews
  BY SoundFields DEF SameExcept, GateFields, PlaneFields
<1> HIDE DEF y
<1>2. c.controlVersion = p.controlVersion /\ ~p.stopLatched /\ ~p.pauseLatched
  BY DEF PauseAllowed, CommandAccepted, CommandGuard
<1>3. Latches(y)
  BY <1>1, <1>2 DEF Sound, Latches
<1>4. /\ Sound(q) /\ SpentBelow(q, p.controlVersion)
      /\ q.controlVersion = p.controlVersion + 1 /\ SameExcept(p, q, GateFields)
  <2>1. y.stopLatched \in BOOLEAN /\ y.status \in Statuses
    BY <1>1, SoundFields DEF Counters, Statuses
  <2> QED BY <1>1, <1>3, <2>1, SyncedGateKeeps
<1> HIDE DEF q
<1>5. Sound(r) /\ Recorded(q, r, c) /\ SameExcept(q, r, {"nextId", "commands"})
  <2>1. c.controlVersion \in Nat /\ c.controlVersion < q.controlVersion
    BY <1>2, <1>4, SoundFields
  <2> QED BY <1>2, <1>4, <2>1, SaveCommandKeeps
<1>6. Pause(p, c) = RecordEvents(r, <<"pause.accepted", "pause.ready">>, 0)
  BY DEF Pause, r, q, y
<1> HIDE DEF r
<1> DEFINE z == Pause(p, c)
<1>7. Sound(z) /\ SameExcept(r, z, {"lastSequence", "nextId", "events"})
  BY <1>5, <1>6, RecordEventsKeeps
<1> HIDE DEF z
<1>8. z.commands = r.commands /\ q.commands = p.commands /\ z.active = p.active
  BY <1>4, <1>5, <1>7 DEF SameExcept, GateFields, PlaneFields
<1> QED BY <1>5, <1>7, <1>8 DEF Recorded, z

(* stop keeps the plane sound.                                              *)
LEMMA StopKeeps ==
  ASSUME NEW p, Sound(p)
  PROVE  LET q == Stop(p)
         IN  /\ Sound(q) /\ q.pauseLatched /\ q.stopLatched /\ q.status = "stopped"
             /\ q.gateEpoch = p.gateEpoch + 1 /\ q.planEpoch = p.planEpoch
             /\ q.active = p.active /\ q.prepared = p.prepared
             /\ q.continuation = p.continuation /\ q.previews = p.previews
             /\ q.commands = p.commands
<1> DEFINE y == [p EXCEPT !.stopLatched = TRUE, !.pauseLatched = TRUE,
                          !.status = "stopped", !.gateEpoch = @ + 1,
                          !.controlVersion = @ + 1]
           q == SyncBoundary(y)
<1>1. /\ SameExcept(p, y, GateFields \ {"boundary"})
      /\ y.pauseLatched = TRUE /\ y.stopLatched = TRUE /\ y.status = "stopped"
      /\ y.gateEpoch = p.gateEpoch + 1 /\ y.controlVersion = p.controlVersion + 1
      /\ y.continuation = p.continuation /\ y.prepared = p.prepared
      /\ y.previews = p.previews
  BY SoundFields DEF SameExcept, GateFields, PlaneFields
<1> HIDE DEF y
<1>2. Latches(y)
  BY <1>1 DEF Sound, Latches
<1>3. /\ Sound(q)
      /\ SameExcept(p, q, GateFields) /\ SameExcept(y, q, {"boundary"})
  BY <1>1, <1>2, SyncedGateKeeps DEF Statuses
<1>4. Stop(p) = RecordEvents(q, <<"stop.latched">>, 0)
  BY DEF Stop, q, y
<1> HIDE DEF q
<1> DEFINE z == Stop(p)
<1>5. Sound(z) /\ SameExcept(q, z, {"lastSequence", "nextId", "events"})
  BY <1>3, <1>4, RecordEventsKeeps
<1> HIDE DEF z
<1>6. /\ z.pauseLatched /\ z.stopLatched /\ z.status = "stopped"
      /\ z.gateEpoch = p.gateEpoch + 1 /\ z.planEpoch = p.planEpoch
      /\ z.active = p.active /\ z.prepared = p.prepared
      /\ z.continuation = p.continuation /\ z.previews = p.previews
      /\ z.commands = p.commands
  BY <1>1, <1>3, <1>5 DEF SameExcept, GateFields, PlaneFields
<1> QED BY <1>5, <1>6 DEF z

(* resume keeps the plane sound.                                            *)
LEMMA ResumeKeeps ==
  ASSUME NEW p, Sound(p), NEW c, c.key \in Keys, ResumeAllowed(p, c)
  PROVE  LET q == Resume(p, c)
         IN  Sound(q) /\ Recorded(p, q, c) /\ q.active = p.active
<1> DEFINE y == [p EXCEPT !.pauseLatched = FALSE, !.gateEpoch = @ + 1,
                          !.controlVersion = @ + 1, !.status = "running",
                          !.continuation = 0, !.prepared = None]
           q == SyncBoundary(y)
           r == SaveCommand(q, c, "resume_accepted")
           evs == IF p.prepared = None THEN <<"resume.accepted">>
                  ELSE <<"resume.accepted", "input.claimed", "input.submitted">>
<1>1. /\ SameExcept(p, y, GateFields \ {"boundary"})
      /\ y.pauseLatched = FALSE /\ y.stopLatched = p.stopLatched /\ y.status = "running"
      /\ y.gateEpoch = p.gateEpoch + 1 /\ y.controlVersion = p.controlVersion + 1
      /\ y.continuation = 0 /\ y.prepared = None
  BY SoundFields DEF SameExcept, GateFields, PlaneFields
<1> HIDE DEF y
<1>2. c.controlVersion = p.controlVersion /\ ~p.stopLatched
  BY DEF ResumeAllowed, CommandAccepted, CommandGuard
<1>3. Latches(y)
  BY <1>1, <1>2 DEF Latches
<1>4. /\ Sound(q) /\ SpentBelow(q, p.controlVersion)
      /\ q.controlVersion = p.controlVersion + 1 /\ SameExcept(p, q, GateFields)
  <2>1. y.stopLatched \in BOOLEAN /\ y.status \in Statuses
    BY <1>1, SoundFields DEF Counters, Statuses
  <2> QED BY <1>1, <1>3, <2>1, SyncedGateKeeps
<1> HIDE DEF q
<1>5. Sound(r) /\ Recorded(q, r, c) /\ SameExcept(q, r, {"nextId", "commands"})
  <2>1. c.controlVersion \in Nat /\ c.controlVersion < q.controlVersion
    BY <1>2, <1>4, SoundFields
  <2> QED BY <1>2, <1>4, <2>1, SaveCommandKeeps
<1>6. Resume(p, c) = RecordEvents(r, evs, p.continuation)
  BY DEF Resume, r, q, y
<1>7. Len(evs) \in Nat
  OBVIOUS
<1> HIDE DEF r, evs
<1> DEFINE z == Resume(p, c)
<1>8. Sound(z) /\ SameExcept(r, z, {"lastSequence", "nextId", "events"})
  BY <1>5, <1>6, <1>7, RecordEventsKeeps
<1> HIDE DEF z
<1>9. z.commands = r.commands /\ q.commands = p.commands /\ z.active = p.active
  BY <1>4, <1>5, <1>8 DEF SameExcept, GateFields, PlaneFields
<1> QED BY <1>5, <1>8, <1>9 DEF Recorded, z

-----------------------------------------------------------------------------
(* Drafts and patches.                                                     *)

(* What no draft, patch, preview or clock step touches.                    *)
Quiet(p, q) ==
  /\ q.pauseLatched = p.pauseLatched /\ q.stopLatched = p.stopLatched
  /\ q.status = p.status /\ q.controllerEpoch = p.controllerEpoch
  /\ q.gateEpoch = p.gateEpoch /\ q.planEpoch = p.planEpoch
  /\ q.boundary = p.boundary /\ q.active = p.active
  /\ q.continuation = p.continuation /\ q.prepared = p.prepared
  /\ q.commands = p.commands
  /\ \A i \in DOMAIN p.previews :
       i \in DOMAIN q.previews /\ q.previews[i].boundary = p.previews[i].boundary

(* An event alone keeps the plane sound.                                    *)
LEMMA QuietlyRecorded ==
  ASSUME NEW p, NEW y, Sound(y), Quiet(p, y), NEW evs, Len(evs) \in Nat, NEW preview
  PROVE  LET q == RecordEvents(y, evs, preview) IN Sound(q) /\ Quiet(p, q)
<1> DEFINE q == RecordEvents(y, evs, preview)
<1>1. Sound(q) /\ SameExcept(y, q, {"lastSequence", "nextId", "events"})
  BY RecordEventsKeeps
<1> HIDE DEF q
<1>2. Quiet(p, q)
  BY <1>1 DEF Quiet, SameExcept, PlaneFields
<1> QED BY <1>1, <1>2 DEF q

(* The configuration a new draft starts from is sound.                      *)
LEMMA EmptyConfigSound ==
  ASSUME NEW items
  PROVE  ConfigSound(items, EmptyConfig)
<1> DEFINE c == EmptyConfig
<1>1. c.selected = <<>> /\ c.notes = <<>> /\ c.pinned = <<>> /\ c.objective = None
  BY DEF EmptyConfig
<1>2. EmptyConfig \in Configs
  BY DEF EmptyConfig, Configs
<1> HIDE DEF c
<1>3. Range(<<>>) = {} /\ DOMAIN <<>> = {}
  BY DEF Range
<1>4. Coherent(c)
  BY <1>1, <1>3 DEF Coherent, DistinctIds, IsInjective, PinsSelected
<1>5. Resolvable(items, c)
  BY <1>1, <1>3 DEF Resolvable, ReferencesOf
<1> QED BY <1>2, <1>4, <1>5 DEF ConfigSound, c

(* create_draft keeps the plane sound.                                      *)
LEMMA CreateDraftKeeps ==
  ASSUME NEW p, Sound(p)
  PROVE  Sound(CreateDraft(p)) /\ Quiet(p, CreateDraft(p))
<1> DEFINE t == TakeIds(p, 1)
           e == [version |-> 1, base |-> p.active, config |-> EmptyConfig,
                 expires |-> p.now + DraftTtl]
           n == Len(p.drafts) + 1
           drafts == Append(p.drafts, e)
           y == [t EXCEPT !.drafts = Append(@, e)]
<1>1. SameExcept(p, t, {"nextId"})
  BY SoundFields, TakeIdsFrame
<1>2. CreateDraft(p) = RecordEvents(y, <<"draft.created">>, 0)
  BY DEF CreateDraft
<1> HIDE DEF t
<1>3. DOMAIN e = {"version", "base", "config", "expires"} /\ e.config = EmptyConfig
  OBVIOUS
<1> HIDE DEF e
<1>4. SameExcept(p, y, {"nextId", "drafts"}) /\ y.drafts = drafts
  BY <1>1 DEF SameExcept, PlaneFields
<1> HIDE DEF y
<1>5. /\ drafts \in Seq(Range(drafts))
      /\ DOMAIN drafts = DOMAIN p.drafts \cup {n} /\ n \notin DOMAIN p.drafts
      /\ \A i \in DOMAIN p.drafts : drafts[i] = p.drafts[i]
      /\ drafts[n] = e
  BY Appended DEF Sound, Shape
<1> HIDE DEF drafts, n
<1>6. /\ y.enabled = p.enabled /\ y.pauseLatched = p.pauseLatched
      /\ y.stopLatched = p.stopLatched /\ y.status = p.status
      /\ y.controlVersion = p.controlVersion /\ y.controllerEpoch = p.controllerEpoch
      /\ y.gateEpoch = p.gateEpoch /\ y.planEpoch = p.planEpoch /\ y.now = p.now
      /\ y.lastSequence = p.lastSequence
      /\ y.boundary = p.boundary /\ y.items = p.items /\ y.latest = p.latest
      /\ y.previews = p.previews /\ y.revisions = p.revisions
      /\ y.active = p.active /\ y.continuation = p.continuation
      /\ y.prepared = p.prepared /\ y.commands = p.commands /\ DOMAIN y = PlaneFields
  BY <1>4 DEF SameExcept, PlaneFields
<1>7. Shape(y)
  <2>1. \A d \in DOMAIN y.drafts : Draft(y, y.drafts[d])
    BY <1>3, <1>4, <1>5, <1>6, EmptyConfigSound DEF Sound, Shape, Draft
  <2>2. \A i \in DOMAIN y.previews : Preview(y, y.previews[i])
    BY <1>4, <1>5, <1>6 DEF Sound, Shape, Preview
  <2>3. \A r \in DOMAIN y.revisions : Revision(y, y.revisions[r])
    BY <1>6 DEF Sound, Shape, Revision
  <2>4. Counters(y)
    BY <1>6 DEF Sound, Shape, Counters
  <2> QED BY <1>4, <1>5, <1>6, <2>1, <2>2, <2>3, <2>4 DEF Sound, Shape
<1>8. PreviewsKept(y)
  <2>1. \A i \in DOMAIN p.previews : y.drafts[p.previews[i].draft] = p.drafts[p.previews[i].draft]
    BY <1>4, <1>5 DEF Sound, Shape, Preview
  <2> QED BY <1>6, <2>1 DEF Sound, PreviewsKept, Pending
<1>9. InSync(y) /\ PreparedSound(y) /\ Latches(y)
  BY <1>6 DEF Sound, InSync, PreparedSound, Latches
<1>10. RevisionsApproved(y)
  BY <1>6 DEF Sound, RevisionsApproved, Approved
<1>11. Winners(y)
  BY <1>6 DEF Sound, Winners
<1>12. Sound(y) /\ Quiet(p, y)
  BY <1>6, <1>7, <1>8, <1>9, <1>10, <1>11 DEF Sound, Quiet
<1> QED BY <1>2, <1>12, QuietlyRecorded

(* The registry only grows under a failed patch.                           *)
LEMMA RegistryKeeps ==
  ASSUME NEW p, Sound(p), NEW q, SameExcept(p, q, {"items", "latest"}),
         RegistryTyped(q.items, q.latest), DOMAIN p.items \subseteq DOMAIN q.items
  PROVE  Sound(q) /\ Quiet(p, q)
<1>1. /\ q.enabled = p.enabled /\ q.pauseLatched = p.pauseLatched
      /\ q.stopLatched = p.stopLatched /\ q.status = p.status
      /\ q.controlVersion = p.controlVersion /\ q.controllerEpoch = p.controllerEpoch
      /\ q.gateEpoch = p.gateEpoch /\ q.planEpoch = p.planEpoch /\ q.now = p.now
      /\ q.lastSequence = p.lastSequence
      /\ q.boundary = p.boundary /\ q.drafts = p.drafts
      /\ q.previews = p.previews /\ q.revisions = p.revisions
      /\ q.active = p.active /\ q.continuation = p.continuation
      /\ q.prepared = p.prepared /\ q.commands = p.commands /\ DOMAIN q = PlaneFields
  BY DEF SameExcept, PlaneFields
<1>2. Shape(q)
  <2>1. ASSUME NEW d \in DOMAIN p.drafts  PROVE Draft(q, p.drafts[d])
    <3>1. Draft(p, p.drafts[d])
      BY DEF Sound, Shape
    <3>2. ConfigSound(q.items, p.drafts[d].config)
      BY <3>1, RegistryGrows DEF Draft
    <3> QED BY <3>1, <3>2 DEF Draft
  <2>2. ASSUME NEW r \in DOMAIN p.revisions  PROVE Revision(q, p.revisions[r])
    <3>1. Revision(p, p.revisions[r])
      BY DEF Sound, Shape
    <3>2. ConfigSound(q.items, p.revisions[r].config)
      BY <3>1, RegistryGrows DEF Revision
    <3> QED BY <3>1, <3>2 DEF Revision
  <2>3. Counters(q)
    BY <1>1 DEF Sound, Shape, Counters
  <2> QED BY <1>1, <2>1, <2>2, <2>3 DEF Sound, Shape, Preview
<1>3. PreviewsKept(q)
  BY <1>1 DEF Sound, PreviewsKept, Pending
<1>4. InSync(q) /\ PreparedSound(q) /\ Latches(q)
  BY <1>1 DEF Sound, InSync, PreparedSound, Latches
<1>5. RevisionsApproved(q)
  BY <1>1 DEF Sound, RevisionsApproved, Approved
<1>6. Winners(q)
  BY <1>1 DEF Sound, Winners
<1> QED BY <1>1, <1>2, <1>3, <1>4, <1>5, <1>6 DEF Sound, Quiet

(* The previews of a changed draft are withdrawn, the others untouched.     *)
LEMMA WithdrawnFrame ==
  ASSUME NEW p, NEW q, Preview(p, q)
  PROVE  LET w == Withdrawn(q)
         IN  /\ Preview(p, w) /\ w.applicable = FALSE /\ w.material = None
             /\ w.draft = q.draft /\ w.boundary = q.boundary /\ w.consumed = q.consumed
<1> DEFINE w == Withdrawn(q)
<1>1. /\ w.applicable = FALSE /\ w.material = None /\ w.draft = q.draft
      /\ w.boundary = q.boundary /\ w.consumed = q.consumed /\ DOMAIN w = PreviewFields
  BY DEF Withdrawn, Preview, PreviewFields
<1> HIDE DEF w
<1>2. Preview(p, w)
  BY <1>1 DEF Preview
<1> QED BY <1>1, <1>2 DEF w

(* A saved draft: its configuration is replaced, and the previews that     *)
(* were to commit it are withdrawn.                                        *)
LEMMA DraftSavedKeeps ==
  ASSUME NEW p, Sound(p), NEW d \in DOMAIN p.drafts,
         NEW q, SameExcept(p, q, {"drafts", "previews"}),
         NEW e, DOMAIN e = DOMAIN p.drafts[d], ConfigSound(p.items, e.config),
         q.drafts = [p.drafts EXCEPT ![d] = e],
         q.previews = InvalidatePreviews(p, d)
  PROVE  Sound(q) /\ Quiet(p, q)
<1>1. /\ q.enabled = p.enabled /\ q.pauseLatched = p.pauseLatched
      /\ q.stopLatched = p.stopLatched /\ q.status = p.status
      /\ q.controlVersion = p.controlVersion /\ q.controllerEpoch = p.controllerEpoch
      /\ q.gateEpoch = p.gateEpoch /\ q.planEpoch = p.planEpoch /\ q.now = p.now
      /\ q.lastSequence = p.lastSequence
      /\ q.boundary = p.boundary /\ q.items = p.items /\ q.latest = p.latest
      /\ q.revisions = p.revisions
      /\ q.active = p.active /\ q.continuation = p.continuation
      /\ q.prepared = p.prepared /\ q.commands = p.commands /\ DOMAIN q = PlaneFields
  BY DEF SameExcept, PlaneFields
<1>2. /\ DOMAIN q.drafts = DOMAIN p.drafts /\ q.drafts[d] = e
      /\ \A i \in DOMAIN p.drafts : i # d => q.drafts[i] = p.drafts[i]
      /\ q.drafts \in Seq(Range(q.drafts))
  <2>1. p.drafts \in Seq(Range(p.drafts))
    BY DEF Sound, Shape
  <2>2. /\ DOMAIN q.drafts = DOMAIN p.drafts /\ q.drafts[d] = e
        /\ \A i \in DOMAIN p.drafts : i # d => q.drafts[i] = p.drafts[i]
        /\ q.drafts = [i \in DOMAIN p.drafts |-> q.drafts[i]]
    OBVIOUS
  <2> QED BY <2>1, <2>2, Remapped
<1>3. /\ DOMAIN q.previews = DOMAIN p.previews
      /\ q.previews \in Seq(Range(q.previews))
      /\ \A i \in DOMAIN p.previews :
           q.previews[i] = IF p.previews[i].draft = d /\ ~p.previews[i].consumed
                           THEN Withdrawn(p.previews[i]) ELSE p.previews[i]
  <2>1. p.previews \in Seq(Range(p.previews))
    BY DEF Sound, Shape
  <2>2. /\ DOMAIN q.previews = DOMAIN p.previews
        /\ \A i \in DOMAIN p.previews :
             q.previews[i] = IF p.previews[i].draft = d /\ ~p.previews[i].consumed
                             THEN Withdrawn(p.previews[i]) ELSE p.previews[i]
        /\ q.previews = [i \in DOMAIN p.previews |-> q.previews[i]]
    BY DEF InvalidatePreviews
  <2> QED BY <2>1, <2>2, Remapped
<1>4. ASSUME NEW i \in DOMAIN p.previews
      PROVE  LET x == p.previews[i]
                 y == q.previews[i]
             IN  /\ Preview(p, y) /\ y.boundary = x.boundary /\ y.consumed = x.consumed
                 /\ y.draft = x.draft
                 /\ \/ y = x /\ (x.draft = d => x.consumed)
                    \/ ~y.consumed /\ y.applicable = FALSE /\ y.material = None
  <2>1. Preview(p, p.previews[i])
    <3>1. Shape(p)
      BY DEF Sound
    <3> QED BY <3>1, Zenon DEF Shape
  <2> DEFINE x == p.previews[i]
             w == Withdrawn(x)
  <2>2. q.previews[i] = IF x.draft = d /\ ~x.consumed THEN w ELSE x
    BY <1>3
  <2>3. /\ Preview(p, w) /\ w.applicable = FALSE /\ w.material = None
        /\ w.draft = x.draft /\ w.boundary = x.boundary /\ w.consumed = x.consumed
    BY <2>1, WithdrawnFrame
  <2> HIDE DEF x, w
  <2> QED BY <2>1, <2>2, <2>3 DEF x
<1>5. Shape(q)
  <2>1. \A i \in DOMAIN q.drafts : Draft(q, q.drafts[i])
    BY <1>1, <1>2 DEF Sound, Shape, Draft
  <2>2. \A i \in DOMAIN q.previews : Preview(q, q.previews[i])
    BY <1>2, <1>3, <1>4 DEF Preview
  <2>3. \A r \in DOMAIN q.revisions : Revision(q, q.revisions[r])
    BY <1>1 DEF Sound, Shape, Revision
  <2>4. Counters(q)
    BY <1>1 DEF Sound, Shape, Counters
  <2> QED BY <1>1, <1>2, <1>3, <2>1, <2>2, <2>3, <2>4 DEF Sound, Shape
<1>6. PreviewsKept(q)
  <2> SUFFICES ASSUME NEW i \in DOMAIN p.previews
               PROVE  LET y == q.previews[i]
                      IN  /\ Earlier(y.boundary, q.boundary)
                          /\ y.applicable => y.material # None
                          /\ ~y.consumed => Pending(q, y)
    BY <1>3 DEF PreviewsKept
  <2> DEFINE x == p.previews[i]
             y == q.previews[i]
  <2>1. /\ Earlier(x.boundary, p.boundary) /\ x.draft \in DOMAIN p.drafts
        /\ x.applicable => x.material # None
        /\ ~x.consumed => Pending(p, x)
    BY DEF Sound, PreviewsKept, Shape, Preview
  <2>2. /\ y.boundary = x.boundary /\ y.consumed = x.consumed /\ y.draft = x.draft
        /\ \/ y = x /\ (x.draft = d => x.consumed)
           \/ ~y.consumed /\ y.applicable = FALSE /\ y.material = None
    BY <1>4
  <2> HIDE DEF x, y
  <2>3. ASSUME ~y.consumed  PROVE Pending(q, y)
    BY <1>1, <1>2, <2>1, <2>2, <2>3 DEF Pending
  <2>4. /\ Earlier(y.boundary, q.boundary)
        /\ y.applicable => y.material # None
    BY <1>1, <2>1, <2>2
  <2> QED BY <2>3, <2>4 DEF y
<1>7. ASSUME NEW i \in DOMAIN p.previews, p.previews[i].consumed
      PROVE  q.previews[i] = p.previews[i]
  BY <1>3, <1>7
<1>8. InSync(q) /\ PreparedSound(q) /\ Latches(q)
  BY <1>1, <1>3, <1>7 DEF Sound, Shape, InSync, PreparedSound, Latches
<1>9. RevisionsApproved(q)
  BY <1>1, <1>3, <1>7 DEF Sound, RevisionsApproved, Approved
<1>10. Winners(q)
  BY <1>1 DEF Sound, Winners
<1>11. Quiet(p, q)
  BY <1>1, <1>3, <1>4 DEF Quiet
<1> QED BY <1>5, <1>6, <1>8, <1>9, <1>10, <1>11 DEF Sound

(* apply_patch keeps the plane sound, whether it succeeds or fails midway.  *)
LEMMA ApplyPatchKeeps ==
  ASSUME NEW p, Sound(p), NEW patch, patch.draft \in DOMAIN p.drafts,
         NEW S, patch.operations \in Seq(S), \A op \in S : OperationTyped(p, op),
         NEW authorized
  PROVE  LET q == ApplyPatch(p, patch, authorized) IN Sound(q) /\ Quiet(p, q)
<1> DEFINE d == patch.draft
           r == ApplyOperations(p, d, patch.operations, authorized)
           q == [p EXCEPT !.items = r.items, !.latest = r.latest]
           old == p.drafts[d]
           v == q.drafts[d].version + 1
           e == [old EXCEPT !.version = v, !.config = r.config]
           z == [q EXCEPT !.drafts[d].version = v,
                          !.drafts[d].config = r.config,
                          !.previews = InvalidatePreviews(p, d)]
<1>1. PatchSound(p, r)
  <2>1. ConfigSound(p.items, p.drafts[d].config)
    BY DEF Sound, Shape, Draft
  <2>2. PatchGround(p)
    BY DEF Sound, Shape, Counters, PatchGround, Revision
  <2> QED BY <2>1, <2>2, OperationsKeep
<1>2. ApplyPatch(p, patch, authorized)
        = IF ~r.ok THEN q ELSE RecordEvents(z, <<"draft.saved">>, 0)
  BY DEF ApplyPatch
<1> HIDE DEF r
<1>3. /\ SameExcept(p, q, {"items", "latest"})
      /\ q.items = r.items /\ q.latest = r.latest
  BY SoundFields DEF SameExcept, PlaneFields
<1> HIDE DEF q
<1>4. Sound(q) /\ Quiet(p, q)
  BY <1>1, <1>3, RegistryKeeps DEF PatchSound
<1>5. q.drafts = p.drafts /\ q.previews = p.previews
  BY <1>3 DEF SameExcept, PlaneFields
<1>6. /\ DOMAIN e = DOMAIN old /\ e.config = r.config
      /\ ConfigSound(q.items, e.config)
  <2>1. DOMAIN old = {"version", "base", "config", "expires"}
    BY DEF Sound, Shape, Draft
  <2> HIDE DEF old
  <2> QED BY <1>1, <1>3, <2>1 DEF PatchSound
<1>7. /\ SameExcept(q, z, {"drafts", "previews"})
      /\ z.drafts = [q.drafts EXCEPT ![d] = e]
      /\ z.previews = InvalidatePreviews(q, d)
  <2>1. InvalidatePreviews(p, d) = InvalidatePreviews(q, d)
    BY <1>5 DEF InvalidatePreviews
  <2>2. DOMAIN q = PlaneFields
    BY <1>4, SoundFields
  <2> DEFINE m == [q.drafts EXCEPT ![d].version = v, ![d].config = r.config]
             n == InvalidatePreviews(p, d)
  <2> HIDE DEF v, n
  <2>3. z = [q EXCEPT !.drafts = m, !.previews = n]
    BY <1>5, <2>2 DEF PlaneFields, n
  <2>4. m = [q.drafts EXCEPT ![d] = e]
    BY <1>5
  <2> HIDE DEF m, n
  <2>5. /\ SameExcept(q, [q EXCEPT !.drafts = m, !.previews = n], {"drafts", "previews"})
        /\ [q EXCEPT !.drafts = m, !.previews = n].drafts = m
        /\ [q EXCEPT !.drafts = m, !.previews = n].previews = n
    BY <2>2 DEF SameExcept, PlaneFields
  <2> HIDE DEF z
  <2> QED BY <2>1, <2>3, <2>4, <2>5 DEF n
<1> HIDE DEF z, e
<1>8. Sound(z) /\ Quiet(p, z)
  <2>1. Sound(z) /\ Quiet(q, z)
    BY <1>4, <1>5, <1>6, <1>7, DraftSavedKeeps
  <2> QED BY <1>4, <2>1 DEF Quiet
<1> QED BY <1>2, <1>4, <1>8, QuietlyRecorded

-----------------------------------------------------------------------------
(* Previews and commits.                                                   *)

(* create_preview keeps the plane sound: what it hashes is what it stores.  *)
LEMMA CreatePreviewKeeps ==
  ASSUME NEW p, Sound(p), NEW d \in DOMAIN p.drafts,
         NEW requested \in BOOLEAN, NEW riskAck \in BOOLEAN
  PROVE  LET q == CreatePreview(p, d, requested, riskAck) IN Sound(q) /\ Quiet(p, q)
<1> DEFINE draft      == p.drafts[d]
           applicable == requested /\ Held(p)
           blocked    == (requested /\ ~Held(p)) \/ (applicable /\ ~riskAck)
           material   == IF ~blocked /\ Renderable(p, draft.config)
                         THEN Input(draft.config, p.boundary) ELSE None
           id         == Len(p.previews) + 1
           e == [draft |-> d, draftVersion |-> draft.version, base |-> draft.base,
                 boundary |-> p.boundary, selected |-> draft.config.selected,
                 applicable |-> applicable /\ material # None,
                 manifest |-> IF material = None THEN None
                              ELSE <<id, p.boundary.provider, material>>,
                 material |-> material, expires |-> p.now + PreviewTtl,
                 consumed |-> FALSE]
           t == TakeIds(p, IF material = None THEN 1 ELSE 3)
           y == [t EXCEPT !.previews = Append(@, e)]
           previews == Append(p.previews, e)
<1>1. CreatePreview(p, d, requested, riskAck) = RecordEvents(y, <<"preview.built">>, id)
  BY DEF CreatePreview
<1>2. SameExcept(p, t, {"nextId"})
  BY SoundFields, TakeIdsFrame
<1> HIDE DEF t
<1>3. /\ DOMAIN e = PreviewFields /\ e.applicable \in BOOLEAN /\ e.consumed = FALSE
      /\ e.draft = d /\ e.boundary = p.boundary
      /\ e.applicable => e.material # None
      /\ e.material # None => e.material = Input(p.drafts[d].config, p.boundary)
      /\ e.applicable => p.status = "paused_ready"
  <2>1. applicable => p.status = "paused_ready"
    BY DEF Held
  <2>2. material # None => material = Input(draft.config, p.boundary)
    OBVIOUS
  <2> HIDE DEF applicable, blocked, material, id
  <2> QED BY <2>1, <2>2 DEF PreviewFields
<1> HIDE DEF e
<1>4. SameExcept(p, y, {"nextId", "previews"}) /\ y.previews = previews
  BY <1>2 DEF SameExcept, PlaneFields
<1> HIDE DEF y
<1>5. /\ previews \in Seq(Range(previews))
      /\ DOMAIN previews = DOMAIN p.previews \cup {id}
      /\ id \in Nat \ {0} /\ id \notin DOMAIN p.previews
      /\ \A i \in DOMAIN p.previews : previews[i] = p.previews[i]
      /\ previews[id] = e
  BY Appended DEF Sound, Shape
<1> HIDE DEF previews, id
<1>6. /\ y.enabled = p.enabled /\ y.pauseLatched = p.pauseLatched
      /\ y.stopLatched = p.stopLatched /\ y.status = p.status
      /\ y.controlVersion = p.controlVersion /\ y.controllerEpoch = p.controllerEpoch
      /\ y.gateEpoch = p.gateEpoch /\ y.planEpoch = p.planEpoch /\ y.now = p.now
      /\ y.lastSequence = p.lastSequence
      /\ y.boundary = p.boundary /\ y.items = p.items /\ y.latest = p.latest
      /\ y.drafts = p.drafts /\ y.revisions = p.revisions
      /\ y.active = p.active /\ y.continuation = p.continuation
      /\ y.prepared = p.prepared /\ y.commands = p.commands /\ DOMAIN y = PlaneFields
  BY <1>4 DEF SameExcept, PlaneFields
<1>7. Shape(y)
  <2>1. \A i \in DOMAIN y.drafts : Draft(y, y.drafts[i])
    BY <1>6 DEF Sound, Shape, Draft
  <2>2. \A i \in DOMAIN y.previews : Preview(y, y.previews[i])
    <3>1. Preview(y, e)
      BY <1>3, <1>6, SoundFields DEF Preview
    <3>2. ASSUME NEW j \in DOMAIN p.previews  PROVE Preview(y, p.previews[j])
      <4>1. Preview(p, p.previews[j])
        BY DEF Sound, Shape
      <4> QED BY <1>6, <4>1 DEF Preview
    <3> QED BY <1>4, <1>5, <3>1, <3>2
  <2>3. \A r \in DOMAIN y.revisions : Revision(y, y.revisions[r])
    BY <1>6 DEF Sound, Shape, Revision
  <2>4. Counters(y)
    BY <1>6 DEF Sound, Shape, Counters
  <2> QED BY <1>4, <1>5, <1>6, <2>1, <2>2, <2>3, <2>4 DEF Sound, Shape
<1>8. PreviewsKept(y)
  <2>1. /\ Earlier(e.boundary, y.boundary)
        /\ e.applicable => e.material # None
        /\ Pending(y, e)
    <3>1. Earlier(p.boundary, p.boundary)
      BY SoundFields DEF Earlier, InSync, Boundaries, Counters
    <3> QED BY <1>3, <1>6, <3>1 DEF Pending
  <2>2. ASSUME NEW i \in DOMAIN p.previews
        PROVE  LET q == p.previews[i]
               IN  /\ Earlier(q.boundary, y.boundary)
                   /\ q.applicable => q.material # None
                   /\ ~q.consumed => Pending(y, q)
    BY <1>6 DEF Sound, PreviewsKept, Pending
  <2> QED BY <1>4, <1>5, <2>1, <2>2 DEF PreviewsKept
<1>9. InSync(y) /\ PreparedSound(y) /\ Latches(y)
  <2>1. p.continuation # 0 => p.continuation \in DOMAIN p.previews
    BY DEF Sound, Shape
  <2> QED BY <1>4, <1>5, <1>6, <2>1 DEF Sound, InSync, PreparedSound, Latches
<1>10. RevisionsApproved(y)
  BY <1>4, <1>5, <1>6 DEF Sound, RevisionsApproved, Approved
<1>11. Winners(y)
  BY <1>6 DEF Sound, Winners
<1>12. Sound(y) /\ Quiet(p, y)
  BY <1>4, <1>5, <1>6, <1>7, <1>8, <1>9, <1>10, <1>11 DEF Sound, Quiet
<1>13. Len(<<"preview.built">>) \in Nat
  OBVIOUS
<1> QED BY <1>1, <1>12, <1>13, QuietlyRecorded

(* A commit is within the hold of its preview: the run is paused_ready.    *)
LEMMA CommitIsHeld ==
  ASSUME NEW p, Sound(p), NEW c, CommitAllowed(p, c)
  PROVE  LET q == p.previews[c.preview]
         IN  /\ c.preview \in DOMAIN p.previews
             /\ ~q.consumed /\ q.boundary = p.boundary /\ q.manifest = c.manifest
             /\ q.material = Input(p.drafts[q.draft].config, q.boundary)
             /\ q.draft \in DOMAIN p.drafts
             /\ p.pauseLatched /\ ~p.stopLatched /\ p.status = "paused_ready"
             /\ c.controlVersion = p.controlVersion
<1> DEFINE q == p.previews[c.preview]
<1>1. /\ c.preview \in DOMAIN p.previews /\ ~q.consumed /\ q.boundary = p.boundary
      /\ q.applicable /\ p.pauseLatched /\ q.manifest = c.manifest
      /\ c.controlVersion = p.controlVersion
  BY DEF CommitAllowed, CommandAccepted, CommandGuard
<1>2. /\ q.applicable => q.material # None
      /\ Pending(p, q)
  BY <1>1 DEF Sound, PreviewsKept
<1>3. q.draft \in DOMAIN p.drafts
  BY <1>1 DEF Sound, Shape, Preview
<1> HIDE DEF q
<1>4. q.boundary.controlVersion = p.controlVersion
  BY <1>1, SoundFields DEF InSync
<1>5. p.status = "paused_ready"
  BY <1>1, <1>2, <1>4, SoundFields DEF Pending
<1>6. ~p.stopLatched
  BY <1>5 DEF Sound, Latches
<1>7. q.material = Input(p.drafts[q.draft].config, q.boundary)
  BY <1>1, <1>2 DEF Pending
<1> QED BY <1>1, <1>3, <1>5, <1>6, <1>7 DEF q

(* The preview of a commit is consumed and becomes the continuation.       *)
Consumed(p, i) == [p EXCEPT !.previews[i].consumed = TRUE, !.continuation = i,
                            !.prepared = None]

ConsumedFrom(p, i, y) ==
  /\ SameExcept(p, y, {"previews", "continuation", "prepared"})
  /\ y.continuation = i /\ DOMAIN y.previews = DOMAIN p.previews
  /\ y.previews[i].consumed
  /\ \A f \in PreviewFields \ {"consumed"} : y.previews[i][f] = p.previews[i][f]

(* The preview a commit consumes can never be committed again.              *)
LEMMA ConsumedKeeps ==
  ASSUME NEW p, Sound(p), p.pauseLatched, NEW i \in DOMAIN p.previews
  PROVE  LET y == Consumed(p, i)
         IN  /\ Sound(y)
             /\ ConsumedFrom(p, i, y)
<1> DEFINE y == Consumed(p, i)
           x == [p.previews[i] EXCEPT !.consumed = TRUE]
           previews == [p.previews EXCEPT ![i] = x]
<1>1. Preview(p, p.previews[i])
  BY DEF Sound, Shape
<1>2. /\ x.consumed = TRUE /\ DOMAIN x = PreviewFields
      /\ \A f \in PreviewFields \ {"consumed"} : x[f] = p.previews[i][f]
  BY <1>1 DEF Preview
<1>3. y = [p EXCEPT !.previews = previews, !.continuation = i, !.prepared = None]
  BY SoundFields DEF Consumed, PlaneFields
<1> HIDE DEF x
<1>4. /\ DOMAIN previews = DOMAIN p.previews /\ previews[i] = x
      /\ \A j \in DOMAIN p.previews : j # i => previews[j] = p.previews[j]
      /\ previews = [j \in DOMAIN p.previews |-> previews[j]]
  OBVIOUS
<1> HIDE DEF previews
<1>5. /\ SameExcept(p, y, {"previews", "continuation", "prepared"})
      /\ y.previews = previews /\ y.continuation = i /\ y.prepared = None
  <2> HIDE DEF y
  <2> QED BY <1>3, SoundFields DEF SameExcept, PlaneFields
<1> HIDE DEF y
<1>6. /\ y.enabled = p.enabled /\ y.pauseLatched = p.pauseLatched
      /\ y.stopLatched = p.stopLatched /\ y.status = p.status
      /\ y.controlVersion = p.controlVersion /\ y.controllerEpoch = p.controllerEpoch
      /\ y.gateEpoch = p.gateEpoch /\ y.planEpoch = p.planEpoch /\ y.now = p.now
      /\ y.lastSequence = p.lastSequence
      /\ y.boundary = p.boundary /\ y.items = p.items /\ y.latest = p.latest
      /\ y.drafts = p.drafts /\ y.revisions = p.revisions
      /\ y.active = p.active /\ y.commands = p.commands /\ DOMAIN y = PlaneFields
  BY <1>5 DEF SameExcept, PlaneFields
<1>7. /\ x.draft = p.previews[i].draft /\ x.boundary = p.previews[i].boundary
      /\ x.applicable = p.previews[i].applicable /\ x.material = p.previews[i].material
      /\ x.manifest = p.previews[i].manifest
  BY <1>2 DEF PreviewFields
<1>8. Shape(y)
  <2>1. previews \in Seq(Range(previews))
    BY <1>4, Remapped DEF Sound, Shape
  <2>2. \A j \in DOMAIN previews : Preview(y, previews[j])
    <3>1. Preview(y, x)
      BY <1>1, <1>2, <1>6, <1>7 DEF Preview
    <3>2. ASSUME NEW j \in DOMAIN p.previews  PROVE Preview(y, p.previews[j])
      <4>1. Preview(p, p.previews[j])
        BY DEF Sound, Shape
      <4> QED BY <1>6, <4>1 DEF Preview
    <3> QED BY <1>4, <3>1, <3>2
  <2>3. \A r \in DOMAIN y.revisions : Revision(y, y.revisions[r])
    BY <1>6 DEF Sound, Shape, Revision
  <2>4. \A d \in DOMAIN y.drafts : Draft(y, y.drafts[d])
    BY <1>6 DEF Sound, Shape, Draft
  <2>5. Counters(y)
    BY <1>6 DEF Sound, Shape, Counters
  <2> QED BY <1>4, <1>5, <1>6, <2>1, <2>2, <2>3, <2>4, <2>5 DEF Sound, Shape
<1>9. PreviewsKept(y)
  <2>1. ASSUME NEW j \in DOMAIN p.previews, j # i
        PROVE  LET q == p.previews[j]
               IN  /\ Earlier(q.boundary, y.boundary)
                   /\ q.applicable => q.material # None
                   /\ ~q.consumed => Pending(y, q)
    BY <1>6 DEF Sound, PreviewsKept, Pending
  <2>2. /\ Earlier(x.boundary, y.boundary)
        /\ x.applicable => x.material # None
    BY <1>6, <1>7 DEF Sound, PreviewsKept
  <2> QED BY <1>2, <1>4, <1>5, <2>1, <2>2 DEF PreviewsKept
<1>10. InSync(y) /\ PreparedSound(y) /\ Latches(y)
  BY <1>2, <1>4, <1>5, <1>6 DEF Sound, InSync, PreparedSound, Latches
<1>11. RevisionsApproved(y)
  <2> SUFFICES ASSUME NEW r \in DOMAIN p.revisions, r # 1
               PROVE  Approved(y, p.revisions[r])
    BY <1>6 DEF RevisionsApproved
  <2>1. Approved(p, p.revisions[r])
    BY DEF Sound, RevisionsApproved
  <2> QED BY <1>2, <1>4, <1>5, <1>7, <2>1 DEF Approved
<1>12. Winners(y)
  BY <1>6 DEF Sound, Winners
<1>13. Sound(y)
  BY <1>8, <1>9, <1>10, <1>11, <1>12 DEF Sound
<1> QED BY <1>2, <1>4, <1>5, <1>13 DEF y, ConsumedFrom

(* The plane of a commit that changed the run, before its receipt: y is    *)
(* the plane with the preview consumed, n the new revision.                *)
RevisionAdded(p, i, n, z) ==
  /\ n # 1 /\ n \notin DOMAIN p.revisions
  /\ z.revisions \in Seq(Range(z.revisions))
  /\ DOMAIN z.revisions = DOMAIN p.revisions \cup {n}
  /\ \A j \in DOMAIN p.revisions : z.revisions[j] = p.revisions[j]
  /\ DOMAIN z.revisions[n] = {"parent", "config", "preview", "manifest", "planEpoch"}
  /\ z.revisions[n].config = p.drafts[p.previews[i].draft].config
  /\ z.revisions[n].preview = i
  /\ z.revisions[n].manifest = p.previews[i].manifest

CommittedFrom(p, i, y, n, z) ==
  /\ SameExcept(y, z, {"nextId", "revisions", "active", "planEpoch", "controlVersion",
                       "status", "prepared", "boundary"})
  /\ z.active = n /\ z.planEpoch = p.planEpoch + 1
  /\ z.controlVersion = p.controlVersion + 1
  /\ z.status = "paused_committed" /\ z.prepared = p.previews[i].material
  /\ z.boundary \in Boundaries
  /\ z.boundary.controlVersion = z.controlVersion
  /\ z.boundary.controllerEpoch = p.controllerEpoch
  /\ z.boundary.gateEpoch = p.gateEpoch
  /\ z.boundary.generation = p.boundary.generation
  /\ z.boundary.catalog = p.boundary.catalog
  /\ z.boundary.provider = p.boundary.provider

(* The new revision is the approved one, and the prepared input is its.     *)
LEMMA CommittedKeeps ==
  ASSUME NEW p, Sound(p), p.pauseLatched, ~p.stopLatched,
         NEW i \in DOMAIN p.previews, p.previews[i].draft \in DOMAIN p.drafts,
         p.previews[i].material
           = Input(p.drafts[p.previews[i].draft].config, p.previews[i].boundary),
         NEW y, Sound(y), ConsumedFrom(p, i, y),
         NEW n, NEW z, RevisionAdded(p, i, n, z), CommittedFrom(p, i, y, n, z)
  PROVE  Sound(z) /\ SpentBelow(z, p.controlVersion)
<1> DEFINE q == y.previews[i]
<1>1. /\ z.enabled = p.enabled /\ z.pauseLatched = p.pauseLatched
      /\ z.stopLatched = p.stopLatched
      /\ z.controllerEpoch = p.controllerEpoch /\ z.gateEpoch = p.gateEpoch
      /\ z.now = p.now /\ z.lastSequence = p.lastSequence
      /\ z.items = p.items /\ z.latest = p.latest
      /\ z.drafts = p.drafts /\ z.previews = y.previews
      /\ z.continuation = i /\ z.commands = p.commands /\ DOMAIN z = PlaneFields
      /\ y.items = p.items /\ y.drafts = p.drafts /\ y.boundary = p.boundary
      /\ y.status = p.status /\ y.controlVersion = p.controlVersion
      /\ y.revisions = p.revisions
  <2>1. /\ y.enabled = p.enabled /\ y.pauseLatched = p.pauseLatched
        /\ y.stopLatched = p.stopLatched
        /\ y.controllerEpoch = p.controllerEpoch /\ y.gateEpoch = p.gateEpoch
        /\ y.now = p.now /\ y.lastSequence = p.lastSequence
        /\ y.items = p.items /\ y.latest = p.latest
        /\ y.drafts = p.drafts /\ y.continuation = i /\ y.commands = p.commands
        /\ y.boundary = p.boundary /\ y.status = p.status
        /\ y.controlVersion = p.controlVersion /\ y.revisions = p.revisions
    BY DEF ConsumedFrom, SameExcept, PlaneFields
  <2>2. /\ z.enabled = y.enabled /\ z.pauseLatched = y.pauseLatched
        /\ z.stopLatched = y.stopLatched
        /\ z.controllerEpoch = y.controllerEpoch /\ z.gateEpoch = y.gateEpoch
        /\ z.now = y.now /\ z.lastSequence = y.lastSequence
        /\ z.items = y.items /\ z.latest = y.latest
        /\ z.drafts = y.drafts /\ z.previews = y.previews
        /\ z.continuation = y.continuation /\ z.commands = y.commands
        /\ DOMAIN z = PlaneFields
    BY DEF CommittedFrom, SameExcept, PlaneFields
  <2> QED BY <2>1, <2>2
<1>2. /\ q.draft = p.previews[i].draft /\ q.boundary = p.previews[i].boundary
      /\ q.material = p.previews[i].material /\ q.manifest = p.previews[i].manifest
      /\ q.consumed
  BY DEF ConsumedFrom, PreviewFields
<1>3. Shape(z)
  <2>1. \A d \in DOMAIN z.drafts : Draft(z, z.drafts[d])
    BY <1>1 DEF Sound, Shape, Draft
  <2>2. ASSUME NEW j \in DOMAIN y.previews  PROVE Preview(z, y.previews[j])
    <3>1. Preview(y, y.previews[j])
      BY DEF Sound, Shape
    <3> QED BY <1>1, <3>1 DEF Preview
  <2>3. ASSUME NEW r \in DOMAIN z.revisions  PROVE Revision(z, z.revisions[r])
    <3>1. CASE r = n
      <4>1. ConfigSound(p.items, p.drafts[p.previews[i].draft].config)
        BY DEF Sound, Shape, Draft
      <4> QED BY <1>1, <3>1, <4>1 DEF Revision, RevisionAdded
    <3>2. CASE r \in DOMAIN p.revisions
      <4>1. Revision(p, p.revisions[r])
        BY <3>2 DEF Sound, Shape
      <4> QED BY <1>1, <3>2, <4>1 DEF Revision, RevisionAdded
    <3> QED BY <3>1, <3>2 DEF RevisionAdded
  <2>4. Counters(z)
    BY <1>1, SoundFields DEF Counters, Statuses, CommittedFrom
  <2>5. RegistryTyped(z.items, z.latest) /\ z.drafts \in Seq(Range(z.drafts))
        /\ z.previews \in Seq(Range(z.previews)) /\ DOMAIN z.commands = Keys
    BY <1>1 DEF Sound, Shape
  <2>6. z.active \in DOMAIN z.revisions /\ z.revisions \in Seq(Range(z.revisions))
        /\ z.continuation \in DOMAIN z.previews
    BY <1>1 DEF RevisionAdded, CommittedFrom, ConsumedFrom
  <2> QED BY <1>1, <2>1, <2>2, <2>3, <2>4, <2>5, <2>6 DEF Shape
<1>4. InSync(z)
  BY <1>1, SoundFields DEF InSync, CommittedFrom
<1>5. PreviewsKept(z)
  <2> SUFFICES ASSUME NEW j \in DOMAIN y.previews
               PROVE  LET x == y.previews[j]
                      IN  /\ Earlier(x.boundary, z.boundary)
                          /\ x.applicable => x.material # None
                          /\ ~x.consumed => Pending(z, x)
    BY <1>1 DEF PreviewsKept
  <2> DEFINE x == y.previews[j]
  <2>1. /\ Earlier(x.boundary, p.boundary)
        /\ x.applicable => x.material # None
        /\ ~x.consumed => Pending(y, x)
    BY <1>1 DEF Sound, PreviewsKept
  <2>2. x.boundary \in Boundaries
    BY DEF Sound, Shape, Preview
  <2> HIDE DEF x
  <2>3. /\ p.boundary.controlVersion = p.controlVersion
        /\ p.boundary.controllerEpoch = p.controllerEpoch
        /\ p.boundary.gateEpoch = p.gateEpoch
    BY SoundFields DEF InSync
  <2>4. Earlier(x.boundary, z.boundary) /\ x.boundary.controlVersion < z.controlVersion
    BY <2>1, <2>2, <2>3, SoundFields DEF Earlier, Boundaries, CommittedFrom
  <2>5. ~x.consumed => Pending(z, x)
    BY <1>1, <2>1, <2>4 DEF Pending
  <2> QED BY <2>1, <2>4, <2>5 DEF x
<1>6. RevisionsApproved(z)
  <2> SUFFICES ASSUME NEW r \in DOMAIN z.revisions, r # 1
               PROVE  Approved(z, z.revisions[r])
    BY DEF RevisionsApproved
  <2>1. CASE r = n
    BY <1>1, <1>2, <2>1 DEF Approved, RevisionAdded, ConsumedFrom
  <2>2. CASE r \in DOMAIN p.revisions
    <3>1. Approved(y, p.revisions[r])
      BY <1>1, <2>2 DEF Sound, RevisionsApproved
    <3> QED BY <1>1, <2>2, <3>1 DEF Approved, RevisionAdded
  <2> QED BY <2>1, <2>2 DEF RevisionAdded
<1>7. PreparedSound(z) /\ Latches(z)
  <2>1. i # 0
    <3>1. p.previews \in Seq(Range(p.previews))
      BY DEF Sound, Shape
    <3> QED BY <3>1
  <2> QED BY <1>1, <1>2, <2>1 DEF PreparedSound, Latches, RevisionAdded, CommittedFrom
<1>8. SpentBelow(z, p.controlVersion) /\ Winners(z)
  <2>1. z.controlVersion = p.controlVersion + 1 /\ p.controlVersion \in Nat /\ Winners(p)
    BY SoundFields DEF CommittedFrom, Sound
  <2> QED BY <1>1, <2>1 DEF Winners, SpentBelow
<1> QED BY <1>3, <1>4, <1>5, <1>6, <1>7, <1>8 DEF Sound

(* commit keeps the plane sound.                                            *)
LEMMA CommitKeeps ==
  ASSUME NEW p, Sound(p), NEW c, c.key \in Keys, CommitAllowed(p, c)
  PROVE  LET z == Commit(p, c)
         IN  /\ Sound(z) /\ Recorded(p, z, c)
             /\ z.active # p.active =>
                  /\ z.revisions[z.active].preview = c.preview
                  /\ z.previews[c.preview].boundary = p.boundary
                  /\ z.pauseLatched
<1> DEFINE i == c.preview
           q == p.previews[i]
           r == [p EXCEPT !.previews[i].consumed = TRUE, !.continuation = i]
           y == Consumed(p, i)
           n == NewRevision(p)
           e == [parent |-> p.active, config |-> p.drafts[q.draft].config,
                 preview |-> i, manifest |-> q.manifest, planEpoch |-> p.planEpoch + 1]
           t == TakeIds(r, 2)
           u == [t EXCEPT !.revisions = Append(@, e), !.active = n, !.planEpoch = @ + 1,
                          !.controlVersion = @ + 1, !.status = "paused_committed",
                          !.prepared = q.material]
           z == SyncBoundary(u)
           same == RecordEvents(SaveCommand([r EXCEPT !.prepared = None], c, "no_change"),
                                <<"revision.no_change">>, i)
           done == SaveCommand(z, c, "revision_committed")
           evs == <<"revision.committed", "plan.retired">>
           last == TakeIds(RecordEvents(done, evs, i), 1)
<1>1. Commit(p, c) = IF NoChange(p, c) THEN same ELSE last
  BY DEF Commit
<1>2. /\ i \in DOMAIN p.previews
      /\ ~q.consumed /\ q.boundary = p.boundary
      /\ q.material = Input(p.drafts[q.draft].config, q.boundary)
      /\ q.draft \in DOMAIN p.drafts
      /\ p.pauseLatched /\ ~p.stopLatched /\ p.status = "paused_ready"
      /\ c.controlVersion = p.controlVersion
  BY CommitIsHeld
<1>3. Sound(y) /\ ConsumedFrom(p, i, y)
  BY <1>2, ConsumedKeeps
<1>4. y = [r EXCEPT !.prepared = None]
  BY SoundFields DEF Consumed, PlaneFields
<1>5. /\ DOMAIN r = PlaneFields
      /\ r.previews = y.previews /\ r.continuation = y.continuation
      /\ SameExcept(p, r, {"previews", "continuation"})
  <2> DEFINE previews == [p.previews EXCEPT ![i].consumed = TRUE]
  <2>1. r = [p EXCEPT !.previews = previews, !.continuation = i]
    BY SoundFields DEF PlaneFields
  <2>2. y = [p EXCEPT !.previews = previews, !.continuation = i, !.prepared = None]
    BY SoundFields DEF Consumed, PlaneFields
  <2> HIDE DEF previews, r, y
  <2> QED BY <2>1, <2>2, SoundFields DEF SameExcept, PlaneFields
<1> HIDE DEF y
<1>6. CASE NoChange(p, c)
  <2> DEFINE effect == "no_change"
             sc == SaveCommand(y, c, effect)
  <2>1. c.controlVersion \in Nat
    BY <1>2, SoundFields
  <2>2. Sound(sc) /\ Recorded(y, sc, c)
    <3>1. effect = "no_change"
      OBVIOUS
    <3> HIDE DEF effect
    <3> QED BY <1>3, <2>1, <3>1, SaveCommandKeeps
  <2>3. same = RecordEvents(sc, <<"revision.no_change">>, i)
    BY <1>4
  <2> HIDE DEF same
  <2>4. DOMAIN sc = PlaneFields /\ sc.lastSequence \in Nat /\ sc.active = y.active
    <3>1. SameExcept(y, sc, {"nextId", "commands"})
      BY <1>3, SoundFields, SaveCommandFrame
    <3> QED BY <2>2, <3>1, SoundFields DEF SameExcept, PlaneFields
  <2> HIDE DEF sc
  <2>5. Len(<<"revision.no_change">>) \in Nat
    OBVIOUS
  <2>6. Sound(same)
    BY <2>2, <2>3, <2>5, RecordEventsKeeps
  <2>7. same.active = p.active /\ same.commands = sc.commands /\ y.commands = p.commands
    <3>1. SameExcept(sc, same, {"lastSequence", "nextId", "events"})
      BY <2>3, <2>4, <2>5, RecordEventsFrame
    <3> QED BY <1>3, <2>4, <3>1 DEF SameExcept, PlaneFields, ConsumedFrom
  <2> QED BY <1>1, <1>6, <2>2, <2>6, <2>7 DEF Recorded
<1> HIDE DEF r, same
<1>7. CASE ~NoChange(p, c)
  <2>1. SameExcept(r, t, {"nextId"})
    BY <1>5, TakeIdsFrame
  <2> HIDE DEF t
  <2>2. /\ DOMAIN e = {"parent", "config", "preview", "manifest", "planEpoch"}
        /\ e.config = p.drafts[q.draft].config /\ e.preview = i /\ e.manifest = q.manifest
    OBVIOUS
  <2> HIDE DEF e
  <2> DEFINE revisions == Append(p.revisions, e)
  <2>3. /\ revisions \in Seq(Range(revisions))
        /\ DOMAIN revisions = DOMAIN p.revisions \cup {n}
        /\ n \in Nat \ {0} /\ n \notin DOMAIN p.revisions
        /\ \A j \in DOMAIN p.revisions : revisions[j] = p.revisions[j]
        /\ revisions[n] = e
    BY Appended DEF NewRevision, Sound, Shape
  <2>4. n # 1 /\ n # p.active
    <3>1. p.active \in DOMAIN p.revisions /\ p.revisions \in Seq(Range(p.revisions))
      BY DEF Sound, Shape
    <3>2. Len(p.revisions) >= 1 /\ DOMAIN p.revisions = 1..Len(p.revisions)
      BY <3>1
    <3> QED BY <3>1, <3>2 DEF NewRevision
  <2> HIDE DEF n, q
  <2>5. /\ SameExcept(y, u, {"nextId", "revisions", "active", "planEpoch", "controlVersion",
                             "status", "prepared"})
        /\ u.revisions = revisions /\ u.active = n /\ u.planEpoch = p.planEpoch + 1
        /\ u.controlVersion = p.controlVersion + 1 /\ u.status = "paused_committed"
        /\ u.prepared = q.material
    <3>1. /\ DOMAIN t = PlaneFields /\ t.revisions = p.revisions
          /\ t.planEpoch = p.planEpoch /\ t.controlVersion = p.controlVersion
      BY <1>5, <2>1 DEF SameExcept, PlaneFields
    <3> DEFINE material == q.material
               v == p.controlVersion + 1
               g == p.planEpoch + 1
    <3>2. u = [t EXCEPT !.revisions = revisions, !.active = n, !.planEpoch = g,
                        !.controlVersion = v, !.status = "paused_committed",
                        !.prepared = material]
      BY <3>1
    <3> HIDE DEF u, revisions, material, v, g
    <3>3. /\ u.revisions = revisions /\ u.active = n /\ u.planEpoch = g
          /\ u.controlVersion = v /\ u.status = "paused_committed"
          /\ u.prepared = material
          /\ SameExcept(t, u, {"revisions", "active", "planEpoch", "controlVersion",
                               "status", "prepared"})
      BY <3>1, <3>2 DEF SameExcept, PlaneFields
    <3>4. SameExcept(y, u, {"nextId", "revisions", "active", "planEpoch", "controlVersion",
                            "status", "prepared"})
      BY <1>3, <1>5, <2>1, <3>3 DEF SameExcept, PlaneFields, ConsumedFrom
    <3> QED BY <3>3, <3>4 DEF material, v, g
  <2> HIDE DEF u, revisions
  <2>6. /\ SameExcept(u, z, {"boundary"})
        /\ z.boundary \in Boundaries
        /\ z.boundary.controlVersion = u.controlVersion
        /\ z.boundary.controllerEpoch = u.controllerEpoch
        /\ z.boundary.gateEpoch = u.gateEpoch
        /\ z.boundary.generation = u.boundary.generation
        /\ z.boundary.catalog = u.boundary.catalog
        /\ z.boundary.provider = u.boundary.provider
    <3>1. /\ DOMAIN u = PlaneFields /\ u.boundary = y.boundary
          /\ u.controllerEpoch = y.controllerEpoch /\ u.gateEpoch = y.gateEpoch
      BY <2>5 DEF SameExcept, PlaneFields
    <3>2. u.controlVersion \in Nat
      BY <2>5, SoundFields
    <3> QED BY <1>3, <3>1, <3>2, SoundFields, SyncBoundaryFrame
  <2> HIDE DEF z
  <2>7. /\ z.enabled = p.enabled /\ z.pauseLatched = p.pauseLatched
        /\ z.stopLatched = p.stopLatched /\ z.status = "paused_committed"
        /\ z.controlVersion = p.controlVersion + 1
        /\ z.controllerEpoch = p.controllerEpoch /\ z.gateEpoch = p.gateEpoch
        /\ z.planEpoch = p.planEpoch + 1 /\ z.now = p.now
        /\ z.lastSequence = p.lastSequence /\ z.items = p.items /\ z.latest = p.latest
        /\ z.drafts = p.drafts /\ z.previews = y.previews /\ z.revisions = revisions
        /\ z.active = n /\ z.continuation = i /\ z.prepared = q.material
        /\ z.commands = p.commands /\ DOMAIN z = PlaneFields
        /\ u.boundary = p.boundary /\ u.gateEpoch = p.gateEpoch
        /\ u.controllerEpoch = p.controllerEpoch
    BY <1>3, <2>5, <2>6 DEF SameExcept, PlaneFields, ConsumedFrom
  <2>8. Sound(z) /\ SpentBelow(z, p.controlVersion)
    <3>1. SameExcept(y, z, {"nextId", "revisions", "active", "planEpoch",
                            "controlVersion", "status", "prepared", "boundary"})
      BY <2>5, <2>6 DEF SameExcept, PlaneFields
    <3>2. CommittedFrom(p, i, y, n, z)
      BY <2>5, <2>6, <2>7, <3>1 DEF CommittedFrom, q
    <3>3. RevisionAdded(p, i, n, z)
      BY <2>2, <2>3, <2>4, <2>7 DEF RevisionAdded, q
    <3>4. p.previews[i].draft \in DOMAIN p.drafts
          /\ p.previews[i].material
               = Input(p.drafts[p.previews[i].draft].config, p.previews[i].boundary)
      BY <1>2 DEF q
    <3> HIDE DEF i
    <3> QED BY <1>2, <1>3, <3>2, <3>3, <3>4, CommittedKeeps
  <2>9. /\ Sound(done) /\ Recorded(z, done, c)
        /\ SameExcept(z, done, {"nextId", "commands"})
    <3>1. c.controlVersion \in Nat /\ c.controlVersion < z.controlVersion
      BY <1>2, <2>7, SoundFields
    <3> QED BY <1>2, <2>8, <3>1, SaveCommandKeeps
  <2> HIDE DEF done
  <2> DEFINE told == RecordEvents(done, evs, i)
  <2>10. Sound(told) /\ SameExcept(done, told, {"lastSequence", "nextId", "events"})
    BY <2>9, RecordEventsKeeps
  <2> HIDE DEF told
  <2>11. Sound(last) /\ SameExcept(told, last, {"nextId"})
    BY <2>10, TakeIdsKeeps DEF told
  <2> HIDE DEF last
  <2>12. /\ last.revisions = revisions /\ last.active = n /\ last.previews = y.previews
         /\ last.pauseLatched = p.pauseLatched /\ last.commands = done.commands
    BY <2>7, <2>9, <2>10, <2>11 DEF SameExcept, PlaneFields
  <2>13. last.previews[i].boundary = p.boundary
    BY <1>2, <1>3, <2>12 DEF PreviewFields, ConsumedFrom, q
  <2>14. Recorded(p, last, c)
    BY <2>7, <2>9, <2>12 DEF Recorded
  <2>15. last.revisions[last.active].preview = i
    BY <2>2, <2>3, <2>12
  <2> QED BY <1>1, <1>2, <1>7, <2>11, <2>12, <2>13, <2>14, <2>15
<1> QED BY <1>6, <1>7

-----------------------------------------------------------------------------
(* The host.                                                               *)

(* The clock and the management switch are read, never related.            *)
LEMMA ClockKeeps ==
  ASSUME NEW p, Sound(p), NEW q, SameExcept(p, q, {"now", "enabled"}),
         q.now \in Nat, q.enabled \in BOOLEAN
  PROVE  Sound(q) /\ Quiet(p, q)
<1>1. /\ q.pauseLatched = p.pauseLatched
      /\ q.stopLatched = p.stopLatched /\ q.status = p.status
      /\ q.controlVersion = p.controlVersion /\ q.controllerEpoch = p.controllerEpoch
      /\ q.gateEpoch = p.gateEpoch /\ q.planEpoch = p.planEpoch
      /\ q.lastSequence = p.lastSequence
      /\ q.boundary = p.boundary /\ q.items = p.items /\ q.latest = p.latest
      /\ q.drafts = p.drafts /\ q.previews = p.previews /\ q.revisions = p.revisions
      /\ q.active = p.active /\ q.continuation = p.continuation
      /\ q.prepared = p.prepared /\ q.commands = p.commands /\ DOMAIN q = PlaneFields
  BY DEF SameExcept, PlaneFields
<1>2. Shape(q)
  BY <1>1 DEF Sound, Shape, Counters, Draft, Preview, Revision
<1>3. InSync(q) /\ PreparedSound(q) /\ Latches(q)
  BY <1>1 DEF Sound, InSync, PreparedSound, Latches
<1>4. PreviewsKept(q)
  BY <1>1 DEF Sound, PreviewsKept, Pending
<1>5. RevisionsApproved(q)
  BY <1>1 DEF Sound, RevisionsApproved, Approved
<1>6. Winners(q)
  BY <1>1 DEF Sound, Winners
<1> QED BY <1>1, <1>2, <1>3, <1>4, <1>5, <1>6 DEF Sound, Quiet

(* Time passing keeps the plane sound.                                      *)
LEMMA AdvanceTimeKeeps ==
  ASSUME NEW p, Sound(p), NEW seconds \in Nat
  PROVE  LET q == AdvanceTime(p, seconds) IN Sound(q) /\ Quiet(p, q)
<1> DEFINE q == AdvanceTime(p, seconds)
<1>1. SameExcept(p, q, {"now", "enabled"}) /\ q.now \in Nat /\ q.enabled = p.enabled
  BY SoundFields DEF AdvanceTime, SameExcept, PlaneFields
<1>2. p.enabled \in BOOLEAN
  BY SoundFields DEF Counters
<1> HIDE DEF q
<1>3. Sound(q) /\ Quiet(p, q)
  BY <1>1, <1>2, ClockKeeps
<1> QED BY <1>3 DEF q

(* Losing or regaining management keeps the plane sound.                    *)
LEMMA ToggleKeeps ==
  ASSUME NEW p, Sound(p), NEW enabled \in BOOLEAN, NEW evs, Len(evs) \in Nat
  PROVE  LET q == RecordEvents([p EXCEPT !.enabled = enabled], evs, 0)
         IN  Sound(q) /\ Quiet(p, q)
<1> DEFINE y == [p EXCEPT !.enabled = enabled]
<1>1. SameExcept(p, y, {"now", "enabled"}) /\ y.now \in Nat /\ y.enabled = enabled
  BY SoundFields DEF SameExcept, PlaneFields
<1> HIDE DEF y
<1>2. Sound(y) /\ Quiet(p, y)
  BY <1>1, ClockKeeps
<1>3. LET q == RecordEvents(y, evs, 0) IN Sound(q) /\ Quiet(p, q)
  BY <1>2, QuietlyRecorded
<1> QED BY <1>3 DEF y

(* The new boundary b: an observation not before the present one, and a    *)
(* catalog and provider as they are or named after the present gate.       *)
Moves(p, b) ==
  /\ b \in Boundaries
  /\ b.controlVersion = p.boundary.controlVersion
  /\ b.controllerEpoch = p.boundary.controllerEpoch
  /\ b.gateEpoch = p.boundary.gateEpoch
  /\ p.boundary.generation <= b.generation
  /\ b.catalog \in {p.boundary.catalog, p.boundary.gateEpoch + 1}
  /\ b.provider \in {p.boundary.provider, p.boundary.gateEpoch + 1}

(* Everything a move of the boundary leaves, and the previews' boundaries. *)
Moved(p, q) ==
  /\ q.pauseLatched = p.pauseLatched /\ q.stopLatched = p.stopLatched
  /\ q.status = IF p.pauseLatched THEN "paused_stale" ELSE p.status
  /\ q.controllerEpoch = p.controllerEpoch /\ q.gateEpoch = p.gateEpoch
  /\ q.planEpoch = p.planEpoch /\ q.active = p.active
  /\ q.continuation = p.continuation /\ q.prepared = p.prepared
  /\ q.commands = p.commands
  /\ \A i \in DOMAIN p.previews :
       i \in DOMAIN q.previews /\ q.previews[i].boundary = p.previews[i].boundary

(* A move of the host keeps the plane sound.                                *)
LEMMA MoveBoundaryKeeps ==
  ASSUME NEW p, Sound(p), NEW b, Moves(p, b)
  PROVE  LET q == MoveBoundary(p, b) IN Sound(q) /\ Moved(p, q) /\ q.boundary = b
<1> DEFINE previews == InvalidateAllPreviews(p)
           status == IF p.pauseLatched THEN "paused_stale" ELSE p.status
           q == MoveBoundary(p, b)
<1>1. q = [p EXCEPT !.boundary = b, !.status = status, !.previews = previews]
  BY SoundFields DEF MoveBoundary, PlaneFields
<1>2. /\ DOMAIN previews = DOMAIN p.previews
      /\ previews = [i \in DOMAIN p.previews |-> previews[i]]
      /\ \A i \in DOMAIN p.previews :
           previews[i] = IF p.previews[i].consumed THEN p.previews[i]
                         ELSE Withdrawn(p.previews[i])
  BY DEF InvalidateAllPreviews
<1> HIDE DEF previews, status, q
<1>3. /\ q.boundary = b /\ q.status = status /\ q.previews = previews
      /\ SameExcept(p, q, {"boundary", "status", "previews"})
  BY <1>1, SoundFields DEF SameExcept, PlaneFields
<1>4. /\ q.enabled = p.enabled /\ q.pauseLatched = p.pauseLatched
      /\ q.stopLatched = p.stopLatched
      /\ q.controlVersion = p.controlVersion /\ q.controllerEpoch = p.controllerEpoch
      /\ q.gateEpoch = p.gateEpoch /\ q.planEpoch = p.planEpoch /\ q.now = p.now
      /\ q.lastSequence = p.lastSequence
      /\ q.items = p.items /\ q.latest = p.latest
      /\ q.drafts = p.drafts /\ q.revisions = p.revisions
      /\ q.active = p.active /\ q.continuation = p.continuation
      /\ q.prepared = p.prepared /\ q.commands = p.commands /\ DOMAIN q = PlaneFields
  BY <1>3 DEF SameExcept, PlaneFields
<1>5. ASSUME NEW i \in DOMAIN p.previews
      PROVE  LET x == p.previews[i]
                 y == previews[i]
             IN  /\ Preview(p, y) /\ y.boundary = x.boundary /\ y.consumed = x.consumed
                 /\ \/ y = x /\ x.consumed
                    \/ ~y.consumed /\ y.applicable = FALSE /\ y.material = None
  <2>1. Preview(p, p.previews[i])
    BY DEF Sound, Shape
  <2> DEFINE x == p.previews[i]
             w == Withdrawn(x)
  <2>2. previews[i] = IF x.consumed THEN x ELSE w
    BY <1>2
  <2>3. /\ Preview(p, w) /\ w.applicable = FALSE /\ w.material = None
        /\ w.draft = x.draft /\ w.boundary = x.boundary /\ w.consumed = x.consumed
    BY <2>1, WithdrawnFrame
  <2> HIDE DEF x, w
  <2> QED BY <2>1, <2>2, <2>3 DEF x
<1>6. status \in Statuses
  BY SoundFields DEF Counters, Statuses, status
<1>7. Shape(q)
  <2>1. previews \in Seq(Range(previews))
    BY <1>2, Remapped DEF Sound, Shape
  <2>2. \A i \in DOMAIN previews : Preview(q, previews[i])
    BY <1>2, <1>4, <1>5 DEF Preview
  <2>3. \A r \in DOMAIN q.revisions : Revision(q, q.revisions[r])
    BY <1>4 DEF Sound, Shape, Revision
  <2>4. \A d \in DOMAIN q.drafts : Draft(q, q.drafts[d])
    BY <1>4 DEF Sound, Shape, Draft
  <2>5. Counters(q)
    BY <1>3, <1>4, <1>6, SoundFields DEF Counters, Moves
  <2> QED BY <1>2, <1>3, <1>4, <2>1, <2>2, <2>3, <2>4, <2>5 DEF Sound, Shape
<1>8. InSync(q)
  BY <1>3, <1>4, SoundFields DEF InSync, Moves
<1>9. PreviewsKept(q)
  <2> SUFFICES ASSUME NEW i \in DOMAIN p.previews
               PROVE  LET y == previews[i]
                      IN  /\ Earlier(y.boundary, b)
                          /\ y.applicable => y.material # None
                          /\ ~y.consumed => Pending(q, y)
    BY <1>2, <1>3 DEF PreviewsKept
  <2> DEFINE x == p.previews[i]
             y == previews[i]
  <2>1. /\ Earlier(x.boundary, p.boundary)
        /\ x.boundary \in Boundaries
    BY DEF Sound, PreviewsKept, Shape, Preview
  <2>2. /\ y.boundary = x.boundary
        /\ \/ y = x /\ x.consumed
           \/ ~y.consumed /\ y.applicable = FALSE /\ y.material = None
    BY <1>5
  <2> HIDE DEF x, y
  <2>3. Earlier(x.boundary, b)
    BY <2>1, SoundFields DEF Earlier, Moves, Boundaries
  <2>4. y.applicable => y.material # None
    <3>1. x.applicable => x.material # None
      BY DEF Sound, PreviewsKept, x
    <3> QED BY <2>2, <3>1
  <2> QED BY <2>2, <2>3, <2>4 DEF Pending, y
<1>10. ASSUME NEW i \in DOMAIN p.previews, p.previews[i].consumed
       PROVE  previews[i] = p.previews[i]
  BY <1>2, <1>10
<1>11. PreparedSound(q) /\ Latches(q)
  <2>1. /\ p.continuation # 0 => /\ p.continuation \in DOMAIN p.previews
                                 /\ p.previews[p.continuation].consumed
        /\ PreparedSound(p) /\ Latches(p)
    BY DEF Sound, Shape, Latches
  <2>2. p.continuation # 0 => previews[p.continuation] = p.previews[p.continuation]
    BY <1>10, <2>1
  <2>3. PreparedSound(q)
    BY <1>3, <1>4, <2>1, <2>2 DEF PreparedSound
  <2>4. Latches(q)
    BY <1>3, <1>4, <2>1, <2>2 DEF Latches, status
  <2> QED BY <2>3, <2>4
<1>12. RevisionsApproved(q)
  <2> SUFFICES ASSUME NEW r \in DOMAIN p.revisions, r # 1
               PROVE  Approved(q, p.revisions[r])
    BY <1>4 DEF RevisionsApproved
  <2>1. Approved(p, p.revisions[r])
    BY DEF Sound, RevisionsApproved
  <2>2. previews[p.revisions[r].preview] = p.previews[p.revisions[r].preview]
    BY <1>10, <2>1 DEF Approved
  <2> QED BY <1>2, <1>3, <2>1, <2>2 DEF Approved
<1>13. Winners(q)
  BY <1>4 DEF Sound, Winners
<1>14. Moved(p, q)
  BY <1>2, <1>3, <1>4, <1>5 DEF Moved, status
<1>15. Sound(q)
  BY <1>7, <1>8, <1>9, <1>11, <1>12, <1>13 DEF Sound
<1> QED BY <1>3, <1>14, <1>15 DEF q

(* A new task or step keeps the plane sound.                                *)
LEMMA AdvanceBoundaryKeeps ==
  ASSUME NEW p, Sound(p)
  PROVE  LET q == AdvanceBoundary(p)
         IN  /\ Sound(q) /\ Moved(p, q)
             /\ q.boundary.generation = p.boundary.generation + 1
<1> DEFINE b == [p.boundary EXCEPT !.generation = @ + 1]
<1>1. Moves(p, b) /\ b.generation = p.boundary.generation + 1
  BY SoundFields DEF Moves, Boundaries
<1> HIDE DEF b
<1> QED BY <1>1, MoveBoundaryKeeps DEF AdvanceBoundary, b

(* A new catalog keeps the plane sound: its digest never returns.           *)
LEMMA AdvanceCatalogKeeps ==
  ASSUME NEW p, Sound(p)
  PROVE  LET q == AdvanceCatalog(p)
         IN  /\ Sound(q) /\ Moved(p, q)
             /\ q.boundary = [p.boundary EXCEPT !.catalog = p.boundary.gateEpoch + 1]
<1> DEFINE b == [p.boundary EXCEPT !.catalog = p.boundary.gateEpoch + 1]
<1>1. Moves(p, b)
  BY SoundFields DEF Moves, Boundaries
<1> HIDE DEF b
<1> QED BY <1>1, MoveBoundaryKeeps DEF AdvanceCatalog, b

(* A new provider session keeps the plane sound.                            *)
LEMMA AdvanceProviderKeeps ==
  ASSUME NEW p, Sound(p)
  PROVE  LET q == AdvanceProvider(p)
         IN  /\ Sound(q) /\ Moved(p, q)
             /\ q.boundary = [p.boundary EXCEPT !.provider = p.boundary.gateEpoch + 1]
<1> DEFINE b == [p.boundary EXCEPT !.provider = p.boundary.gateEpoch + 1]
<1>1. Moves(p, b)
  BY SoundFields DEF Moves, Boundaries
<1> HIDE DEF b
<1> QED BY <1>1, MoveBoundaryKeeps DEF AdvanceProvider, b

(* Recovery: only the controller epoch and its copy in the boundary move.  *)
LEMMA RecoveredKeeps ==
  ASSUME NEW p, Sound(p)
  PROVE  LET q == Recovered(p)
         IN  /\ Sound(q)
             /\ SameExcept(p, q, {"controllerEpoch", "boundary"})
             /\ q.controllerEpoch = p.controllerEpoch + 1
<1> DEFINE y == [p EXCEPT !.controllerEpoch = @ + 1]
           q == Recovered(p)
<1>1. /\ SameExcept(p, y, {"controllerEpoch"})
      /\ y.controllerEpoch = p.controllerEpoch + 1
  BY SoundFields DEF SameExcept, PlaneFields
<1>2. q = SyncBoundary(y)
  BY DEF Recovered
<1> HIDE DEF y, q
<1>3. /\ DOMAIN y = PlaneFields /\ y.boundary = p.boundary
      /\ y.controlVersion = p.controlVersion /\ y.gateEpoch = p.gateEpoch
  BY <1>1 DEF SameExcept, PlaneFields
<1>4. /\ SameExcept(y, q, {"boundary"})
      /\ q.boundary \in Boundaries
      /\ q.boundary.controlVersion = p.controlVersion
      /\ q.boundary.controllerEpoch = p.controllerEpoch + 1
      /\ q.boundary.gateEpoch = p.gateEpoch
      /\ q.boundary.generation = p.boundary.generation
      /\ q.boundary.catalog = p.boundary.catalog
      /\ q.boundary.provider = p.boundary.provider
  BY <1>1, <1>2, <1>3, SoundFields, SyncBoundaryFrame
<1>5. /\ q.controllerEpoch = p.controllerEpoch + 1
      /\ q.enabled = p.enabled /\ q.pauseLatched = p.pauseLatched
      /\ q.stopLatched = p.stopLatched /\ q.status = p.status
      /\ q.controlVersion = p.controlVersion
      /\ q.gateEpoch = p.gateEpoch /\ q.planEpoch = p.planEpoch /\ q.now = p.now
      /\ q.lastSequence = p.lastSequence /\ q.items = p.items /\ q.latest = p.latest
      /\ q.drafts = p.drafts /\ q.previews = p.previews /\ q.revisions = p.revisions
      /\ q.active = p.active /\ q.continuation = p.continuation
      /\ q.prepared = p.prepared /\ q.commands = p.commands /\ DOMAIN q = PlaneFields
  BY <1>1, <1>4 DEF SameExcept, PlaneFields
<1>6. SameExcept(p, q, {"controllerEpoch", "boundary"})
  BY <1>1, <1>4 DEF SameExcept, PlaneFields
<1>7. Shape(q)
  <2>1. Counters(q)
    BY <1>4, <1>5, SoundFields DEF Counters
  <2> QED BY <1>5, <2>1 DEF Sound, Shape, Draft, Preview, Revision
<1>8. InSync(q)
  BY <1>4, <1>5, SoundFields DEF InSync
<1>9. PreviewsKept(q)
  <2> SUFFICES ASSUME NEW i \in DOMAIN p.previews
               PROVE  LET x == p.previews[i]
                      IN  /\ Earlier(x.boundary, q.boundary)
                          /\ x.applicable => x.material # None
                          /\ ~x.consumed => Pending(q, x)
    BY <1>5 DEF PreviewsKept
  <2> DEFINE x == p.previews[i]
  <2>1. /\ Earlier(x.boundary, p.boundary) /\ x.boundary \in Boundaries
        /\ x.applicable => x.material # None
        /\ ~x.consumed => Pending(p, x)
    BY DEF Sound, PreviewsKept, Shape, Preview
  <2> HIDE DEF x
  <2>2. Earlier(x.boundary, q.boundary)
    BY <1>4, <2>1, SoundFields DEF Earlier, InSync, Boundaries
  <2> QED BY <1>5, <2>1, <2>2 DEF Pending, x
<1>10. PreparedSound(q) /\ Latches(q)
  BY <1>5 DEF Sound, PreparedSound, Latches
<1>11. RevisionsApproved(q)
  BY <1>5 DEF Sound, RevisionsApproved, Approved
<1>12. Winners(q)
  BY <1>5 DEF Sound, Winners
<1>13. Sound(q)
  BY <1>7, <1>8, <1>9, <1>10, <1>11, <1>12 DEF Sound
<1> QED BY <1>5, <1>6, <1>13 DEF q

-----------------------------------------------------------------------------
(* The initial plane and the steps of a session.                           *)

(* A new control plane is sound.                                            *)
LEMMA InitSound == Sound(InitPlane)
<1> DEFINE p == InitPlane
           rev == [parent |-> 1, config |-> EmptyConfig, preview |-> 0,
                   manifest |-> None, planEpoch |-> 1]
<1>1. /\ p.enabled = TRUE /\ p.pauseLatched = FALSE /\ p.stopLatched = FALSE
      /\ p.status = "running" /\ p.controlVersion = 0 /\ p.controllerEpoch = 1
      /\ p.gateEpoch = 0 /\ p.planEpoch = 1 /\ p.now = 0 /\ p.lastSequence = 0
      /\ p.boundary = InitBoundary /\ p.drafts = <<>> /\ p.previews = <<>>
      /\ p.revisions = <<rev>> /\ p.active = 1 /\ p.continuation = 0
      /\ p.prepared = None /\ p.commands = [k \in Keys |-> None]
      /\ p.items = [k \in (SeedIds \cup LockedIds) \X {1} |->
                      [text |-> SeedText, expires |-> Forever]]
      /\ p.latest = [i \in ItemIds |-> IF i \in SeedIds \cup LockedIds THEN 1 ELSE 0]
  BY DEF InitPlane
<1>2. DOMAIN p = PlaneFields
  BY DEF InitPlane, PlaneFields
<1> HIDE DEF p
<1>3. /\ InitBoundary \in Boundaries
      /\ InitBoundary.controlVersion = 0 /\ InitBoundary.controllerEpoch = 1
      /\ InitBoundary.gateEpoch = 0 /\ InitBoundary.catalog = 0
      /\ InitBoundary.provider = 0
  BY DEF InitBoundary, Boundaries
<1>4. DOMAIN <<>> = {} /\ DOMAIN <<rev>> = {1} /\ <<rev>>[1] = rev
  OBVIOUS
<1>5. DOMAIN rev = {"parent", "config", "preview", "manifest", "planEpoch"}
      /\ rev.config = EmptyConfig
  OBVIOUS
<1> HIDE DEF rev
<1>6. RegistryTyped(p.items, p.latest)
  <2>1. Forever \in Nat
    BY ControlPlaneAssumption
  <2>2. SeedIds \cup LockedIds \subseteq ItemIds
    BY DEF ItemIds
  <2>3. DOMAIN p.items = (SeedIds \cup LockedIds) \X {1}
        /\ \A k \in DOMAIN p.items : p.items[k].text = SeedText /\ p.items[k].expires = Forever
    BY <1>1
  <2>4. p.latest \in [ItemIds -> Nat]
    BY <1>1
  <2> QED BY <2>1, <2>2, <2>3, <2>4 DEF RegistryTyped, AllTexts
<1>7. Shape(p)
  <2>1. Counters(p)
    <3>1. /\ p.enabled \in BOOLEAN /\ p.pauseLatched \in BOOLEAN
          /\ p.stopLatched \in BOOLEAN /\ p.status \in Statuses
      BY <1>1, Zenon DEF Statuses
    <3>2. /\ p.controlVersion \in Nat /\ p.controllerEpoch \in Nat
          /\ p.gateEpoch \in Nat /\ p.planEpoch \in Nat /\ p.now \in Nat
          /\ p.lastSequence \in Nat /\ p.boundary \in Boundaries
      BY <1>1, <1>3
    <3> QED BY <3>1, <3>2 DEF Counters
  <2>2. <<>> \in Seq(Range(<<>>)) /\ <<rev>> \in Seq(Range(<<rev>>))
    BY <1>4 DEF Range
  <2>3. Revision(p, rev)
    BY <1>5, EmptyConfigSound DEF Revision
  <2> QED BY <1>1, <1>2, <1>4, <1>6, <2>1, <2>2, <2>3 DEF Shape
<1>8. InSync(p) /\ PreparedSound(p) /\ Latches(p)
  BY <1>1, <1>3 DEF InSync, PreparedSound, Latches
<1>9. PreviewsKept(p) /\ RevisionsApproved(p) /\ Winners(p)
  BY <1>1, <1>4 DEF PreviewsKept, RevisionsApproved, Winners
<1> QED BY <1>7, <1>8, <1>9 DEF Sound, p

(* Commands name a key and a control version the run has had.              *)
LEMMA CommandTyped ==
  ASSUME Sound(plane), NEW kind, NEW revisions, NEW previews, NEW manifests,
         NEW c \in Commands(kind, revisions, previews, manifests)
  PROVE  c.key \in Keys
<1>1. KeysToTry \subseteq Keys
  <2> DEFINE used == {k \in Keys : plane.commands[k] # None}
  <2>1. CASE used = Keys
    BY <2>1 DEF KeysToTry
  <2>2. CASE used # Keys
    <3>1. \E k \in Keys : k \notin used
      BY <2>2
    <3>2. (CHOOSE k \in Keys : k \notin used) \in Keys
      BY <3>1
    <3> QED BY <2>2, <3>2 DEF KeysToTry
  <2> QED BY <2>1, <2>2
<1>2. c.key \in KeysToTry
  BY DEF Commands
<1> QED BY <1>1, <1>2

(* The operations of a patch name references, items, texts and revisions   *)
(* that exist.                                                             *)
LEMMA OperationsTyped ==
  ASSUME Sound(plane), NEW op \in Operations
  PROVE  OperationTyped(plane, op)
<1>1. KnownRefs \subseteq Refs
  <2>1. ASSUME NEW k \in DOMAIN plane.items
        PROVE  Ref(k[1], k[2], plane.items[k].text) \in Refs
    <3>1. k \in ItemIds \X Nat /\ plane.items[k].text \in AllTexts
      BY DEF Sound, Shape, RegistryTyped
    <3>2. k[1] \in ItemIds /\ k[2] \in Nat
      BY <3>1
    <3> QED BY <3>1, <3>2 DEF Ref, Refs
  <2>2. ASSUME NEW d \in Range(plane.drafts)  PROVE Range(d.config.selected) \subseteq Refs
    <3>1. PICK i \in DOMAIN plane.drafts : d = plane.drafts[i]
      BY DEF Range
    <3>2. d.config \in Configs
      BY <3>1 DEF Sound, Shape, Draft, ConfigSound
    <3>3. d.config.selected \in Seq(Refs)
      BY <3>2, ConfigFields
    <3> QED BY <3>3 DEF Range
  <2> QED BY <2>1, <2>2 DEF KnownRefs
<1>2. plane.now + 1 \in Nat /\ Forever \in Nat
  BY SoundFields, ControlPlaneAssumption
<1>3. NoteIds \subseteq ItemIds /\ Texts \subseteq AllTexts
  BY DEF ItemIds, AllTexts
<1>4. CASE op \in [kind : {"include_item", "exclude_item", "pin_item", "unpin_item"} \cap OpKinds,
                   item : KnownRefs]
  BY <1>1, <1>4 DEF OperationTyped
<1>5. CASE op \in [kind : {"put_note"} \cap OpKinds, id : NoteIds, expected : NoteVersions,
                   text : Texts, expires : {plane.now + 1, Forever}]
  <2>1. op.kind = "put_note" /\ op.id \in NoteIds /\ op.text \in Texts
        /\ op.expires \in {plane.now + 1, Forever}
    BY <1>5
  <2> QED BY <1>2, <1>3, <2>1 DEF OperationTyped
<1>6. CASE op \in [kind : {"remove_note"} \cap OpKinds, id : NoteIds,
                   expected : 1..MaxItemVersion]
  <2>1. op.kind = "remove_note" /\ op.id \in NoteIds
    BY <1>6
  <2> QED BY <1>3, <2>1 DEF OperationTyped
<1>7. CASE op \in [kind : {"set_objective"} \cap OpKinds, text : Texts]
  BY <1>3, <1>7 DEF OperationTyped
<1>8. CASE op \in [kind : {"restore_configuration"} \cap OpKinds,
                   revision : DOMAIN plane.revisions]
  BY <1>8 DEF OperationTyped
<1> QED BY <1>4, <1>5, <1>6, <1>7, <1>8 DEF Operations

(* Patches name a draft that exists and a sequence of operations.           *)
LEMMA PatchesTyped ==
  ASSUME Sound(plane), NEW patch \in Patches, NEW authorized \in BOOLEAN
  PROVE  LET q == ApplyPatch(plane, patch, authorized) IN Sound(q) /\ Quiet(plane, q)
<1>1. /\ patch.draft \in DOMAIN plane.drafts
      /\ patch.operations \in UNION {[1..n -> Operations] : n \in 1..MaxOperations}
  BY DEF Patches
<1>2. PICK n \in 1..MaxOperations : patch.operations \in [1..n -> Operations]
  BY <1>1
<1>3. n \in Nat
  BY <1>2
<1>4. patch.operations \in Seq(Operations)
  BY <1>2, <1>3
<1>5. \A op \in Operations : OperationTyped(plane, op)
  BY OperationsTyped
<1> QED BY <1>1, <1>4, <1>5, ApplyPatchKeeps

-----------------------------------------------------------------------------
(* Inductiveness.                                                          *)

(* The inductive invariant holds at the start.                              *)
LEMMA IInvInit == Init => IInv
BY InitSound DEF Init, IInv

(* Every step of the control plane keeps it.                                *)
LEMMA IInvStep == IInv /\ [Next]_vars => IInv'
<1> SUFFICES ASSUME Sound(plane), [Next]_vars  PROVE Sound(plane')
  BY DEF IInv
<1>1. CASE DoCreateDraft
  BY <1>1, CreateDraftKeeps DEF DoCreateDraft
<1>2. CASE DoApplyPatch
  BY <1>2, PatchesTyped DEF DoApplyPatch
<1>3. CASE DoCreatePreview
  BY <1>3, CreatePreviewKeeps DEF DoCreatePreview
<1>4. CASE DoPause
  BY <1>4, CommandTyped, PauseKeeps DEF DoPause
<1>5. CASE DoCommit
  BY <1>5, CommandTyped, CommitKeeps DEF DoCommit
<1>6. CASE DoResume
  BY <1>6, CommandTyped, ResumeKeeps DEF DoResume
<1>7. CASE DoStop
  BY <1>7, StopKeeps DEF DoStop
<1>8. CASE DoMoveBoundary
  BY <1>8, AdvanceBoundaryKeeps, AdvanceCatalogKeeps, AdvanceProviderKeeps
     DEF DoMoveBoundary
<1>9. CASE DoAdvanceTime
  BY <1>9, AdvanceTimeKeeps DEF DoAdvanceTime
<1>10. CASE DoToggle
  <2>1. Sound(Deactivate(plane)) /\ Sound(Activate(plane))
    BY ToggleKeeps DEF Deactivate, Activate
  <2> QED BY <1>10, <2>1 DEF DoToggle
<1>11. CASE DoRecover
  BY <1>11, RecoveredKeeps DEF DoRecover
<1>12. CASE UNCHANGED vars
  BY <1>12 DEF vars
<1> QED BY <1>1, <1>2, <1>3, <1>4, <1>5, <1>6, <1>7, <1>8, <1>9, <1>10, <1>11, <1>12 DEF Next

-----------------------------------------------------------------------------
(* What the invariant implies.                                             *)

(* A list with as many ids as entries has no id twice.                      *)
LEMMA DistinctCount ==
  ASSUME NEW refs \in Seq(Refs), DistinctIds(refs)
  PROVE  Cardinality(IdsOf(refs)) = Len(refs)
<1> DEFINE n == Len(refs)
           f == [i \in 1..n |-> refs[i].id]
<1>1. n \in Nat /\ DOMAIN refs = 1..n
  OBVIOUS
<1>2. f \in [1..n -> IdsOf(refs)] /\ \A id \in IdsOf(refs) : \E i \in 1..n : f[i] = id
  BY <1>1 DEF IdsOf
<1>3. \A i, j \in 1..n : f[i] = f[j] => i = j
  BY <1>1 DEF DistinctIds
<1>4. f \in Bijection(1..n, IdsOf(refs))
  <2> HIDE DEF f, n
  <2>1. DOMAIN f = 1..n
    BY <1>2
  <2>2. IsInjective(f)
    BY <1>3, <2>1 DEF IsInjective
  <2> QED BY <1>2, <2>2 DEF Bijection, Injection, Surjection
<1>5. ExistsBijection(1..n, IdsOf(refs))
  BY <1>4 DEF ExistsBijection
<1> HIDE DEF n
<1> QED BY <1>1, <1>5, FS_CountingElements DEF n

(* A sound configuration is coherent.                                       *)
LEMMA SoundIsCoherent ==
  ASSUME NEW items, NEW config, ConfigSound(items, config)
  PROVE  ConfigCoherent(config)
<1>1. config \in Configs /\ Coherent(config)
  BY DEF ConfigSound
<1>2. config.selected \in Seq(Refs) /\ config.notes \in Seq(Refs)
  BY <1>1, ConfigFields
<1>3. /\ Cardinality(IdsOf(config.selected)) = Len(config.selected)
      /\ Cardinality(IdsOf(config.notes)) = Len(config.notes)
  BY <1>1, <1>2, DistinctCount DEF Coherent
<1> QED BY <1>1, <1>3 DEF Coherent, ConfigCoherent

(* Every draft and revision of a sound plane has a sound configuration.     *)
LEMMA ElementsSound ==
  ASSUME NEW p, Sound(p)
  PROVE  /\ \A d \in Range(p.drafts) : ConfigSound(p.items, d.config)
         /\ \A r \in Range(p.revisions) : ConfigSound(p.items, r.config)
         /\ \A q \in Range(p.previews) : Preview(p, q) /\ (q.applicable => q.material # None)
<1>1. \A d \in DOMAIN p.drafts : ConfigSound(p.items, p.drafts[d].config)
  BY DEF Sound, Shape, Draft
<1>2. \A r \in DOMAIN p.revisions : ConfigSound(p.items, p.revisions[r].config)
  BY DEF Sound, Shape, Revision
<1>3. \A i \in DOMAIN p.previews :
        Preview(p, p.previews[i]) /\ (p.previews[i].applicable => p.previews[i].material # None)
  BY DEF Sound, Shape, PreviewsKept
<1> QED BY <1>1, <1>2, <1>3 DEF Range

(* The invariant gives the types.                                           *)
LEMMA ImpliesTypeOK == IInv => TypeOK
<1> SUFFICES ASSUME Sound(plane)  PROVE TypeOK
  BY DEF IInv
<1>1. \A q \in Range(plane.previews) : q.draft \in DOMAIN plane.drafts
  BY ElementsSound DEF Preview
<1> QED BY <1>1 DEF TypeOK, Sound, Shape, Counters

(* The invariant gives that what is committed was approved.                 *)
LEMMA ImpliesApproved == IInv => CommittedAsApproved
<1> SUFFICES ASSUME Sound(plane), NEW r \in 2..Len(plane.revisions)
             PROVE  Approved(plane, plane.revisions[r])
  BY DEF IInv, CommittedAsApproved, Approved
<1>1. plane.revisions \in Seq(Range(plane.revisions))
  BY DEF Sound, Shape
<1>2. r \in DOMAIN plane.revisions /\ r # 1
  BY <1>1
<1> QED BY <1>2 DEF Sound, RevisionsApproved

(* The invariant gives that what is prepared is active.                     *)
LEMMA ImpliesPrepared == IInv => PreparedIsActive
<1> SUFFICES ASSUME Sound(plane), plane.prepared # None
             PROVE  /\ \A epoch \in 1..plane.planEpoch : ~Dispatchable(plane, epoch)
                    /\ plane.continuation # 0
                    /\ plane.revisions[plane.active].preview = plane.continuation
                    /\ plane.prepared = Input(plane.revisions[plane.active].config,
                                              plane.previews[plane.continuation].boundary)
  BY DEF IInv, PreparedIsActive
<1>1. /\ plane.continuation # 0 /\ plane.active # 1
      /\ plane.revisions[plane.active].preview = plane.continuation
      /\ plane.prepared = plane.previews[plane.continuation].material
  BY DEF Sound, PreparedSound
<1>2. plane.active \in DOMAIN plane.revisions
  BY DEF Sound, Shape
<1>3. Approved(plane, plane.revisions[plane.active])
  BY <1>1, <1>2 DEF Sound, RevisionsApproved
<1>4. plane.pauseLatched
  BY <1>1 DEF Sound, Latches
<1> QED BY <1>1, <1>3, <1>4 DEF Approved, Dispatchable

(* The invariant gives one winner per control version.                      *)
LEMMA ImpliesOneWinner == IInv => OneWinnerPerVersion
BY DEF IInv, Sound, Winners, OneWinnerPerVersion

(* The invariant gives that drafts are coherent.                            *)
LEMMA ImpliesCoherent == IInv => DraftsCoherent
BY ElementsSound, SoundIsCoherent DEF IInv, DraftsCoherent

(* The invariant gives that no protected item is selected.                  *)
LEMMA ImpliesUnlocked == IInv => ProtectedNeverSelected
BY ElementsSound DEF IInv, ProtectedNeverSelected, ConfigSound, Resolvable

(* The invariant gives that journals resolve.                               *)
LEMMA ImpliesResolvable == IInv => JournalResolvable
<1> SUFFICES ASSUME Sound(plane)  PROVE JournalResolvable
  BY DEF IInv
<1>1. BoundaryInSync
  BY SoundFields DEF InSync, BoundaryInSync
<1>2. \A d \in Range(plane.drafts) \cup Range(plane.revisions) :
        /\ \A r \in ReferencesOf(d.config) : KeyOf(r) \in DOMAIN plane.items
        /\ PinsSelected(d.config)
  BY ElementsSound DEF ConfigSound, Coherent, Resolvable
<1>3. PreviewsSound(plane)
  BY ElementsSound DEF PreviewsSound
<1>4. ContinuationSound(plane)
  <2>1. plane.continuation # 0 => /\ plane.continuation \in DOMAIN plane.previews
                                  /\ plane.previews[plane.continuation].consumed
    BY DEF Sound, Shape, Latches
  <2>2. plane.prepared # None =>
          plane.continuation # 0 /\ plane.prepared = plane.previews[plane.continuation].material
    BY DEF Sound, PreparedSound
  <2>3. \A i \in DOMAIN plane.previews : plane.previews[i] \in Range(plane.previews)
    BY DEF Range
  <2> QED BY <2>1, <2>2, <2>3 DEF ContinuationSound
<1> QED BY <1>1, <1>2, <1>3, <1>4 DEF JournalResolvable

-----------------------------------------------------------------------------
(* What a step of the session does, for the action properties.             *)

(* What a step can be: a command, a patch, a move, a recovery, a stutter.   *)
LEMMA StepKinds ==
  ASSUME Sound(plane), Next
  PROVE  \/ Quiet(plane, plane')
         \/ \E c : PauseAllowed(plane, c) /\ c.key \in Keys /\ plane' = Pause(plane, c)
         \/ \E c : CommitAllowed(plane, c) /\ c.key \in Keys /\ plane' = Commit(plane, c)
         \/ \E c : ResumeAllowed(plane, c) /\ c.key \in Keys /\ plane' = Resume(plane, c)
         \/ plane' = Stop(plane)
         \/ plane' \in {AdvanceBoundary(plane), AdvanceCatalog(plane), AdvanceProvider(plane)}
         \/ plane' = Recovered(plane)
<1>1. CASE DoCreateDraft
  BY <1>1, CreateDraftKeeps DEF DoCreateDraft
<1>2. CASE DoApplyPatch
  BY <1>2, PatchesTyped DEF DoApplyPatch
<1>3. CASE DoCreatePreview
  BY <1>3, CreatePreviewKeeps DEF DoCreatePreview
<1>4. CASE DoPause
  BY <1>4, CommandTyped DEF DoPause
<1>5. CASE DoCommit
  BY <1>5, CommandTyped DEF DoCommit
<1>6. CASE DoResume
  BY <1>6, CommandTyped DEF DoResume
<1>7. CASE DoStop
  BY <1>7 DEF DoStop
<1>8. CASE DoMoveBoundary
  BY <1>8 DEF DoMoveBoundary
<1>9. CASE DoAdvanceTime
  BY <1>9, AdvanceTimeKeeps DEF DoAdvanceTime
<1>10. CASE DoToggle
  <2>1. Quiet(plane, Deactivate(plane)) /\ Quiet(plane, Activate(plane))
    BY ToggleKeeps DEF Deactivate, Activate
  <2> QED BY <1>10, <2>1 DEF DoToggle
<1>11. CASE DoRecover
  BY <1>11 DEF DoRecover
<1> QED BY <1>1, <1>2, <1>3, <1>4, <1>5, <1>6, <1>7, <1>8, <1>9, <1>10, <1>11 DEF Next

(* A move of the host leaves the receipts and the run.                      *)
LEMMA MovesMoved ==
  ASSUME NEW p, Sound(p),
         NEW q \in {AdvanceBoundary(p), AdvanceCatalog(p), AdvanceProvider(p)}
  PROVE  Moved(p, q)
BY AdvanceBoundaryKeeps, AdvanceCatalogKeeps, AdvanceProviderKeeps

(* What recovery leaves alone.                                              *)
LEMMA RecoveredFields ==
  ASSUME NEW p, Sound(p)
  PROVE  LET q == Recovered(p)
         IN  /\ q.pauseLatched = p.pauseLatched /\ q.stopLatched = p.stopLatched
             /\ q.status = p.status /\ q.gateEpoch = p.gateEpoch
             /\ q.planEpoch = p.planEpoch /\ q.active = p.active
             /\ q.continuation = p.continuation /\ q.prepared = p.prepared
             /\ q.commands = p.commands /\ q.previews = p.previews
             /\ q.controllerEpoch = p.controllerEpoch + 1
<1> DEFINE q == Recovered(p)
<1>1. /\ SameExcept(p, q, {"controllerEpoch", "boundary"})
      /\ q.controllerEpoch = p.controllerEpoch + 1
  BY RecoveredKeeps
<1> HIDE DEF q
<1> QED BY <1>1 DEF SameExcept, PlaneFields, q

(* A step keeps every receipt.                                              *)
LEMMA ReceiptsStep ==
  ASSUME Sound(plane), Next
  PROVE  \A k \in Keys : plane.commands[k] # None => plane'.commands[k] = plane.commands[k]
<1> DEFINE Same == \A k \in Keys : plane.commands[k] # None
                     => plane'.commands[k] = plane.commands[k]
<1>1. CASE Quiet(plane, plane')
  BY <1>1 DEF Quiet
<1>2. ASSUME NEW c, c.key \in Keys, Recorded(plane, plane', c), FreshKey(plane, c)
      PROVE  Same
  BY <1>2 DEF Recorded, FreshKey
<1>3. ASSUME NEW c, PauseAllowed(plane, c), c.key \in Keys, plane' = Pause(plane, c)
      PROVE  Same
  BY <1>2, <1>3, PauseKeeps DEF PauseAllowed, CommandAccepted
<1>4. ASSUME NEW c, CommitAllowed(plane, c), c.key \in Keys, plane' = Commit(plane, c)
      PROVE  Same
  BY <1>2, <1>4, CommitKeeps DEF CommitAllowed, CommandAccepted
<1>5. ASSUME NEW c, ResumeAllowed(plane, c), c.key \in Keys, plane' = Resume(plane, c)
      PROVE  Same
  BY <1>2, <1>5, ResumeKeeps DEF ResumeAllowed, CommandAccepted
<1>6. CASE plane' = Stop(plane)
  BY <1>6, StopKeeps
<1>7. CASE plane' \in {AdvanceBoundary(plane), AdvanceCatalog(plane), AdvanceProvider(plane)}
  BY <1>7, MovesMoved DEF Moved
<1>8. CASE plane' = Recovered(plane)
  BY <1>8, RecoveredFields
<1> HIDE DEF Same
<1>9. Same
  BY <1>1, <1>3, <1>4, <1>5, <1>6, <1>7, <1>8, StepKinds DEF Same
<1> QED BY <1>9 DEF Same

(* A step keeps a stopped run stopped.                                      *)
LEMMA StopStep ==
  ASSUME Sound(plane), Next, plane.stopLatched
  PROVE  /\ plane'.stopLatched /\ plane'.pauseLatched
         /\ plane'.active = plane.active /\ plane'.planEpoch = plane.planEpoch
         /\ plane'.prepared = plane.prepared
<1>1. plane.pauseLatched
  BY DEF Sound, Latches
<1>2. \A c : ~PauseAllowed(plane, c) /\ ~ResumeAllowed(plane, c)
  BY DEF PauseAllowed, ResumeAllowed
<1>3. \A c : ~CommitAllowed(plane, c)
  BY CommitIsHeld
<1>4. CASE Quiet(plane, plane')
  BY <1>1, <1>4 DEF Quiet
<1>5. CASE plane' = Stop(plane)
  BY <1>5, StopKeeps
<1>6. CASE plane' \in {AdvanceBoundary(plane), AdvanceCatalog(plane), AdvanceProvider(plane)}
  BY <1>1, <1>6, MovesMoved DEF Moved
<1>7. CASE plane' = Recovered(plane)
  BY <1>1, <1>7, RecoveredFields
<1> QED BY <1>2, <1>3, <1>4, <1>5, <1>6, <1>7, StepKinds

(* A step that commits commits in the hold of its preview.                  *)
LEMMA ApprovedStep ==
  ASSUME Sound(plane), Next, plane'.active # plane.active
  PROVE  LET q == plane'.previews[plane'.revisions[plane'.active].preview]
         IN  /\ plane.pauseLatched /\ plane'.pauseLatched
             /\ q.boundary.gateEpoch = plane.gateEpoch
             /\ q.boundary.controllerEpoch = plane.controllerEpoch
             /\ q.boundary.generation = plane.boundary.generation
             /\ q.boundary.catalog = plane.boundary.catalog
             /\ q.boundary.provider = plane.boundary.provider
<1>1. ~Quiet(plane, plane')
  BY DEF Quiet
<1>2. ~\E c : PauseAllowed(plane, c) /\ c.key \in Keys /\ plane' = Pause(plane, c)
  BY PauseKeeps
<1>3. ~\E c : ResumeAllowed(plane, c) /\ c.key \in Keys /\ plane' = Resume(plane, c)
  BY ResumeKeeps
<1>4. plane' # Stop(plane)
  BY StopKeeps
<1>5. plane' \notin {AdvanceBoundary(plane), AdvanceCatalog(plane), AdvanceProvider(plane)}
  BY MovesMoved DEF Moved
<1>6. plane' # Recovered(plane)
  BY RecoveredFields
<1>7. PICK c : CommitAllowed(plane, c) /\ c.key \in Keys /\ plane' = Commit(plane, c)
  BY <1>1, <1>2, <1>3, <1>4, <1>5, <1>6, StepKinds
<1>8. /\ plane'.revisions[plane'.active].preview = c.preview
      /\ plane'.previews[c.preview].boundary = plane.boundary
      /\ plane'.pauseLatched
  BY <1>7, CommitKeeps
<1>9. plane.pauseLatched
  BY <1>7, CommitIsHeld
<1> QED BY <1>8, <1>9, SoundFields DEF InSync

(* A step leaves a stale continuation held.                                 *)
LEMMA StaleStep ==
  ASSUME Sound(plane), Next, ContinuationMoved(plane), plane.status # "paused_ready"
  PROVE  /\ plane'.pauseLatched
         /\ ContinuationMoved(plane') /\ plane'.status # "paused_ready"
<1> DEFINE i == plane.continuation
           b == plane.previews[i].boundary
           now == plane.boundary
<1>1. /\ i # 0 /\ i \in DOMAIN plane.previews /\ plane.pauseLatched
      /\ \/ b.generation # now.generation
         \/ b.catalog # now.catalog
         \/ b.provider # now.provider
         \/ b.controllerEpoch # plane.controllerEpoch
         \/ b.gateEpoch # plane.gateEpoch
  BY DEF ContinuationMoved, Sound, Shape, Latches
<1>2. Earlier(b, now) /\ b \in Boundaries
  BY <1>1 DEF Sound, PreviewsKept, Shape, Preview
<1>3. /\ now.controllerEpoch = plane.controllerEpoch /\ now.gateEpoch = plane.gateEpoch
      /\ now \in Boundaries
      /\ plane.controllerEpoch \in Nat /\ plane.gateEpoch \in Nat
  BY SoundFields DEF InSync
<1> HIDE DEF now, b
<1>4. \A c : ~PauseAllowed(plane, c)
  BY <1>1 DEF PauseAllowed
<1>5. \A c : ~CommitAllowed(plane, c)
  BY CommitIsHeld
<1>6. ASSUME NEW c, ResumeAllowed(plane, c)  PROVE FALSE
  <2>1. SameExternalBoundary(b, now)
    BY <1>1, <1>6 DEF ResumeAllowed, b, now
  <2>2. [b EXCEPT !.controlVersion = 0] = [now EXCEPT !.controlVersion = 0]
    BY <2>1 DEF SameExternalBoundary
  <2>3. /\ b.generation = now.generation /\ b.catalog = now.catalog
        /\ b.provider = now.provider /\ b.controllerEpoch = now.controllerEpoch
        /\ b.gateEpoch = now.gateEpoch
    BY <1>2, <1>3, <2>2 DEF Boundaries
  <2> QED BY <1>1, <1>3, <2>3
<1>7. CASE Quiet(plane, plane')
  BY <1>1, <1>7 DEF Quiet, ContinuationMoved, b, now
<1>8. CASE plane' = Stop(plane)
  <2>1. /\ plane'.pauseLatched /\ plane'.status = "stopped"
        /\ plane'.gateEpoch = plane.gateEpoch + 1
        /\ plane'.continuation = i /\ plane'.previews = plane.previews
    BY <1>8, StopKeeps
  <2>2. b.gateEpoch \in Nat /\ b.gateEpoch <= plane.gateEpoch
    BY <1>2, <1>3 DEF Earlier, Boundaries
  <2>3. b.gateEpoch # plane'.gateEpoch
    BY <1>3, <2>1, <2>2
  <2> QED BY <1>1, <2>1, <2>3 DEF ContinuationMoved, b
<1>9. CASE plane' \in {AdvanceBoundary(plane), AdvanceCatalog(plane), AdvanceProvider(plane)}
  <2>1. Moved(plane, plane')
    BY <1>9, MovesMoved
  <2>2. /\ plane'.pauseLatched /\ plane'.status = "paused_stale"
        /\ plane'.continuation = i /\ plane'.previews[i].boundary = b
        /\ plane'.controllerEpoch = plane.controllerEpoch
        /\ plane'.gateEpoch = plane.gateEpoch
    BY <1>1, <2>1 DEF Moved, b
  <2>3. CASE b.controllerEpoch # plane.controllerEpoch \/ b.gateEpoch # plane.gateEpoch
    BY <1>1, <2>2, <2>3 DEF ContinuationMoved
  <2>4. CASE /\ b.controllerEpoch = plane.controllerEpoch
             /\ b.gateEpoch = plane.gateEpoch
    <3>1. /\ b.generation <= now.generation
          /\ b.catalog <= now.gateEpoch + 1 /\ b.provider <= now.gateEpoch + 1
          /\ b.catalog = now.gateEpoch + 1 => now.catalog = b.catalog
          /\ b.provider = now.gateEpoch + 1 => now.provider = b.provider
          /\ b.generation \in Nat /\ now.generation \in Nat
      BY <1>2, <1>3, <2>4 DEF Earlier, Boundaries
    <3>2. CASE plane' = AdvanceBoundary(plane)
      <4>1. plane'.boundary.generation = now.generation + 1
        BY <3>2, AdvanceBoundaryKeeps DEF now
      <4> QED BY <1>1, <2>2, <3>1, <4>1 DEF ContinuationMoved
    <3>3. CASE plane' = AdvanceCatalog(plane)
      <4>1. plane'.boundary = [now EXCEPT !.catalog = now.gateEpoch + 1]
        BY <3>3, AdvanceCatalogKeeps DEF now
      <4>2. /\ plane'.boundary.catalog = now.gateEpoch + 1
            /\ plane'.boundary.generation = now.generation
            /\ plane'.boundary.provider = now.provider
        BY <1>3, <4>1 DEF Boundaries
      <4> QED BY <1>1, <2>2, <2>4, <3>1, <4>2 DEF ContinuationMoved
    <3>4. CASE plane' = AdvanceProvider(plane)
      <4>1. plane'.boundary = [now EXCEPT !.provider = now.gateEpoch + 1]
        BY <3>4, AdvanceProviderKeeps DEF now
      <4>2. /\ plane'.boundary.provider = now.gateEpoch + 1
            /\ plane'.boundary.generation = now.generation
            /\ plane'.boundary.catalog = now.catalog
        BY <1>3, <4>1 DEF Boundaries
      <4> QED BY <1>1, <2>2, <2>4, <3>1, <4>2 DEF ContinuationMoved
    <3> QED BY <1>9, <3>2, <3>3, <3>4
  <2> QED BY <2>3, <2>4
<1>10. CASE plane' = Recovered(plane)
  <2>1. /\ plane'.pauseLatched = plane.pauseLatched /\ plane'.status = plane.status
        /\ plane'.continuation = i /\ plane'.previews = plane.previews
        /\ plane'.controllerEpoch = plane.controllerEpoch + 1
    BY <1>10, RecoveredFields
  <2>2. b.controllerEpoch \in Nat /\ b.controllerEpoch <= plane.controllerEpoch
    BY <1>2, <1>3 DEF Earlier, Boundaries
  <2>3. b.controllerEpoch # plane'.controllerEpoch
    BY <1>3, <2>1, <2>2
  <2> QED BY <1>1, <2>1, <2>3 DEF ContinuationMoved, b
<1> QED BY <1>4, <1>5, <1>6, <1>7, <1>8, <1>9, <1>10, StepKinds

-----------------------------------------------------------------------------
(* The theorems.                                                           *)

(* The inductive invariant holds of every history of the control plane,    *)
(* whatever commands, patches, host moves and recoveries it is made of.    *)
THEOREM ControlPlaneIsSound == Spec => []IInv
BY IInvInit, IInvStep, PTL DEF Spec

(* The plane keeps the shape of ControlPlane, and its names (the active    *)
(* revision, the continuation, the draft of a preview) always resolve.     *)
THEOREM ControlPlaneTyped == Spec => []TypeOK
BY ControlPlaneIsSound, ImpliesTypeOK, PTL

(* commit copies the draft as it is then, and that is still what render    *)
(* put into the preview its operator approved.                             *)
THEOREM CommitsAreApproved == Spec => []CommittedAsApproved
BY ControlPlaneIsSound, ImpliesApproved, PTL

(* The input ready for submission is the active revision's and the         *)
(* continuation's, and nothing can be dispatched while it waits.           *)
THEOREM PreparedInputIsActive == Spec => []PreparedIsActive
BY ControlPlaneIsSound, ImpliesPrepared, PTL

(* command_guard lets one of the commands with a control version win.      *)
THEOREM RacingCommandsHaveOneWinner == Spec => []OneWinnerPerVersion
BY ControlPlaneIsSound, ImpliesOneWinner, PTL

(* No sequence of patches, failed ones included, of any length leaves a    *)
(* draft or revision incoherent.                                           *)
THEOREM PatchesKeepDraftsCoherent == Spec => []DraftsCoherent
BY ControlPlaneIsSound, ImpliesCoherent, PTL

(* No patch brings a protected item into a draft: editable_item bars it    *)
(* and put_note reserves its name.                                         *)
THEOREM ProtectedItemsStayOut == Spec => []ProtectedNeverSelected
BY ControlPlaneIsSound, ImpliesUnlocked, PTL

(* The part of validate_journal_integrity every history passes.            *)
THEOREM JournalsResolve == Spec => []JournalResolvable
BY ControlPlaneIsSound, ImpliesResolvable, PTL

(* idempotent_result: a stored receipt is never replaced.                  *)
THEOREM ReceiptsAreImmutable == Spec => ReceiptsImmutable
<1>1. IInv /\ [Next]_vars =>
        [\A k \in Keys : plane.commands[k] # None =>
           plane'.commands[k] = plane.commands[k]]_vars
  BY ReceiptsStep DEF IInv
<1> QED BY <1>1, ControlPlaneIsSound, PTL DEF Spec, ReceiptsImmutable

(* After Stop no command, boundary move or recovery releases the run or    *)
(* changes its revision, its plan epoch or its prepared input.             *)
THEOREM StopIsForEver == Spec => StopIsFinal
<1>1. IInv /\ [Next]_vars =>
        [plane.stopLatched =>
           /\ plane'.stopLatched /\ plane'.pauseLatched
           /\ plane'.active = plane.active /\ plane'.planEpoch = plane.planEpoch
           /\ plane'.prepared = plane.prepared]_vars
  BY StopStep DEF IInv
<1> QED BY <1>1, ControlPlaneIsSound, PTL DEF Spec, StopIsFinal

(* The active revision changes only by a commit of a preview whose whole   *)
(* boundary is the run's present one.                                      *)
THEOREM CommitsStayInTheirHold == Spec => ApprovedInThisHold
<1>1. IInv /\ [Next]_vars =>
        [plane'.active # plane.active =>
           LET q == plane'.previews[plane'.revisions[plane'.active].preview]
           IN  /\ plane.pauseLatched /\ plane'.pauseLatched
               /\ q.boundary.gateEpoch = plane.gateEpoch
               /\ q.boundary.controllerEpoch = plane.controllerEpoch
               /\ q.boundary.generation = plane.boundary.generation
               /\ q.boundary.catalog = plane.boundary.catalog
               /\ q.boundary.provider = plane.boundary.provider]_vars
  BY ApprovedStep DEF IInv
<1> QED BY <1>1, ControlPlaneIsSound, PTL DEF Spec, ApprovedInThisHold

(* An approved continuation whose boundary moved stays held: neither the   *)
(* counters of the boundary nor the names of catalog and provider return   *)
(* to the approved ones.                                                   *)
THEOREM StaleContinuationsStayHeld == Spec => StaleContinuationHeld
<1>1. IInv /\ [Next]_vars =>
        [(ContinuationMoved(plane) /\ plane.status # "paused_ready") =>
           /\ plane'.pauseLatched
           /\ ContinuationMoved(plane') /\ plane'.status # "paused_ready"]_vars
  BY StaleStep DEF IInv
<1> QED BY <1>1, ControlPlaneIsSound, PTL DEF Spec, StaleContinuationHeld

-----------------------------------------------------------------------------
(* The durable store: what one mutation makes of a plane.                  *)

(* The retained events have sequences of their own, none ahead of the      *)
(* counter.                                                                *)
EventsApart(p) ==
  /\ p.events \in Seq(Range(p.events))
  /\ \A i \in DOMAIN p.events :
       p.events[i].sequence \in Nat /\ p.events[i].sequence <= p.lastSequence
  /\ \A i, j \in DOMAIN p.events : p.events[i].sequence = p.events[j].sequence => i = j

(* The first event of a mutation of p, kept while there is room, says what *)
(* the mutation was.                                                       *)
Announced(p, q, what, preview) ==
  /\ Len(p.events) <= Len(q.events)
  /\ Len(p.events) < MaxEvents =>
       \E e \in Range(q.events) :
         e.sequence = p.lastSequence + 1 /\ e.what = what /\ e.preview = preview

(* record_events keeps the sequences apart and announces its first event.   *)
LEMMA EventsRecorded ==
  ASSUME NEW p, DOMAIN p = PlaneFields, p.lastSequence \in Nat, EventsApart(p),
         NEW evs, Len(evs) \in Nat \ {0}, NEW preview
  PROVE  LET q == RecordEvents(p, evs, preview)
         IN  EventsApart(q) /\ Announced(p, q, evs[1], preview)
<1> DEFINE kept == IF MaxEvents - Len(p.events) < Len(evs)
                   THEN MaxEvents - Len(p.events) ELSE Len(evs)
           sequence == p.lastSequence + Len(evs)
           id == p.nextId + kept
           new == [i \in 1..kept |->
                     [sequence |-> p.lastSequence + i, id |-> p.nextId + i - 1,
                      what |-> evs[i], preview |-> preview]]
           events == p.events \o new
           q == RecordEvents(p, evs, preview)
           l == Len(p.events)
           last == p.lastSequence
<1>1. q.events = events /\ q.lastSequence = sequence
  <2>1. q = [p EXCEPT !.lastSequence = sequence, !.nextId = id, !.events = events]
    BY DEF RecordEvents
  <2> HIDE DEF q, sequence, id, events
  <2> QED BY <2>1 DEF PlaneFields
<1> HIDE DEF q
<1>2. l \in Nat /\ last \in Nat /\ sequence = last + Len(evs) /\ p.events \in Seq(Range(p.events))
      /\ DOMAIN p.events = 1..l
  BY DEF EventsApart
<1>3. MaxEvents \in Nat
  BY ControlPlaneAssumption
<1> HIDE DEF l, last, sequence
<1> DEFINE m == IF kept < 0 THEN 0 ELSE kept
<1>4. kept \in Int /\ kept <= Len(evs) /\ (l < MaxEvents => kept >= 1) /\ 1..kept = 1..m
  BY <1>2, <1>3 DEF l
<1>5. m \in Nat /\ m <= Len(evs) /\ (l < MaxEvents => m >= 1)
  BY <1>4
<1>6. /\ DOMAIN new = 1..m
      /\ \A i \in 1..m : new[i].sequence = last + i /\ new[i].what = evs[i]
                           /\ new[i].preview = preview
  BY <1>4 DEF last
<1> HIDE DEF kept, m, new
<1>7. /\ new \in Seq(Range(new)) /\ Len(new) = m
  <2>1. new \in [1..m -> Range(new)]
    <3>1. new = [i \in 1..m |-> new[i]]
      BY <1>4 DEF new
    <3> QED BY <1>6, <3>1 DEF Range
  <2> QED BY <1>5, <2>1
<1>8. /\ events \in Seq(Range(p.events) \cup Range(new))
      /\ Len(events) = l + m
      /\ \A i \in 1..l : events[i] = p.events[i]
      /\ \A i \in 1..m : events[l + i] = new[i]
  <2> DEFINE S == Range(p.events) \cup Range(new)
             old == p.events
  <2>1. old \in Seq(S) /\ new \in Seq(S) /\ Len(old) = l
    BY <1>2, <1>7 DEF l
  <2> HIDE DEF S, old
  <2>2. /\ old \o new \in Seq(S) /\ Len(old \o new) = Len(old) + Len(new)
        /\ \A i \in 1..Len(old) + Len(new) :
             (old \o new)[i] = IF i <= Len(old) THEN old[i] ELSE new[i - Len(old)]
    BY <2>1, ConcatProperties
  <2>3. \A i \in 1..l : (old \o new)[i] = old[i]
    BY <1>2, <1>5, <1>7, <2>1, <2>2
  <2>4. ASSUME NEW i \in 1..m  PROVE (old \o new)[l + i] = new[i]
    <3>1. l + i \in 1..Len(old) + Len(new) /\ ~(l + i <= l) /\ (l + i) - l = i
      BY <1>2, <1>5, <1>7, <2>1
    <3> QED BY <2>1, <2>2, <3>1
  <2> QED BY <1>7, <2>1, <2>2, <2>3, <2>4 DEF S, old
<1> HIDE DEF events
<1>9. DOMAIN events = 1..(l + m) /\ events \in Seq(Range(events))
  <2>1. DOMAIN events = 1..(l + m)
    BY <1>8
  <2>2. events \in [1..(l + m) -> Range(events)]
    BY <1>8, <2>1 DEF Range
  <2>3. l + m \in Nat
    BY <1>2, <1>5
  <2> QED BY <2>1, <2>2, <2>3
<1>10. ASSUME NEW i \in DOMAIN events
       PROVE  \/ i \in 1..l /\ events[i].sequence = p.events[i].sequence
                   /\ events[i].sequence \in Nat /\ events[i].sequence <= last
              \/ i \notin 1..l /\ events[i].sequence = last + (i - l)
                   /\ i - l \in 1..m
  <2>1. CASE i \in 1..l
    BY <1>2, <1>8, <2>1 DEF EventsApart, last
  <2>2. CASE i \notin 1..l
    <3>1. i - l \in 1..m /\ l + (i - l) = i
      BY <1>2, <1>5, <1>9, <2>2
    <3>2. events[i] = new[i - l]
      BY <1>8, <3>1
    <3> QED BY <1>6, <2>2, <3>1, <3>2
  <2> QED BY <2>1, <2>2
<1>11. \A i \in DOMAIN events : events[i].sequence \in Nat /\ events[i].sequence <= sequence
  BY <1>2, <1>5, <1>10
<1>12. ASSUME NEW i \in DOMAIN events, NEW j \in DOMAIN events,
              events[i].sequence = events[j].sequence
       PROVE  i = j
  <2>1. CASE i \in 1..l /\ j \in 1..l
    BY <1>2, <1>10, <1>12, <2>1 DEF EventsApart
  <2>2. CASE i \in 1..l /\ j \notin 1..l
    BY <1>2, <1>5, <1>10, <1>12, <2>2
  <2>3. CASE i \notin 1..l /\ j \in 1..l
    BY <1>2, <1>5, <1>10, <1>12, <2>3
  <2>4. CASE i \notin 1..l /\ j \notin 1..l
    BY <1>2, <1>5, <1>9, <1>10, <1>12, <2>4
  <2> QED BY <2>1, <2>2, <2>3, <2>4
<1>13. EventsApart(q)
  BY <1>1, <1>9, <1>11, <1>12 DEF EventsApart
<1>14. Announced(p, q, evs[1], preview)
  <2>1. Len(p.events) <= Len(q.events)
    BY <1>1, <1>2, <1>5, <1>8 DEF l
  <2>2. ASSUME l < MaxEvents
        PROVE  \E e \in Range(q.events) :
                 e.sequence = last + 1 /\ e.what = evs[1] /\ e.preview = preview
    <3>1. 1 \in 1..m /\ l + 1 \in DOMAIN events
      BY <1>2, <1>5, <1>9, <2>2
    <3>2. events[l + 1] = new[1] /\ events[l + 1] \in Range(q.events)
      BY <1>1, <1>8, <3>1 DEF Range
    <3> QED BY <1>6, <3>1, <3>2
  <2> QED BY <2>1, <2>2 DEF Announced, l, last
<1> QED BY <1>13, <1>14 DEF q

(* What the store relies on: q comes of p by a mutation that announces     *)
(* itself, keeps every receipt, and adds a revision only with a commit.    *)
Kept(p, q) ==
  /\ Sound(q) /\ EventsApart(q)
  /\ \A k \in Keys : p.commands[k] # None => q.commands[k] = p.commands[k]

Unrevised(p, q) ==
  /\ q.revisions = p.revisions /\ q.active = p.active
  /\ \E what, preview : what # "revision.committed" /\ Announced(p, q, what, preview)

Revised(p, q) ==
  LET n == Len(p.revisions) + 1
  IN  /\ q.active = n
      /\ DOMAIN q.revisions = DOMAIN p.revisions \cup {n}
      /\ \A r \in DOMAIN p.revisions : q.revisions[r] = p.revisions[r]
      /\ n \notin DOMAIN p.revisions
      /\ LET v == q.revisions[n].preview
         IN  /\ q.revisions[n].manifest = p.previews[v].manifest
             /\ Announced(p, q, "revision.committed", v)

(* An operation that ends with its events, on what it made of the rest.     *)
LEMMA RecordedOn ==
  ASSUME NEW p, EventsApart(p), NEW y, DOMAIN y = PlaneFields, p.lastSequence \in Nat,
         y.events = p.events, y.lastSequence = p.lastSequence,
         NEW evs, Len(evs) \in Nat \ {0}, NEW preview
  PROVE  LET q == RecordEvents(y, evs, preview)
         IN  /\ EventsApart(q) /\ Announced(p, q, evs[1], preview)
             /\ SameExcept(y, q, {"lastSequence", "nextId", "events"})
<1> DEFINE q == RecordEvents(y, evs, preview)
<1>1. EventsApart(y)
  BY DEF EventsApart
<1>2. EventsApart(q) /\ Announced(y, q, evs[1], preview)
  BY <1>1, EventsRecorded
<1>3. SameExcept(y, q, {"lastSequence", "nextId", "events"})
  BY RecordEventsFrame
<1> HIDE DEF q
<1>4. Announced(p, q, evs[1], preview)
  BY <1>2 DEF Announced
<1> QED BY <1>2, <1>3, <1>4 DEF q

(* create_draft, as the journal sees it.                                    *)
LEMMA CreateDraftTraced ==
  ASSUME NEW p, Sound(p), EventsApart(p)
  PROVE  Kept(p, CreateDraft(p)) /\ Unrevised(p, CreateDraft(p))
<1> DEFINE t == TakeIds(p, 1)
           drafts == Append(t.drafts, [version |-> 1, base |-> p.active,
                                       config |-> EmptyConfig, expires |-> p.now + DraftTtl])
           y == [t EXCEPT !.drafts = drafts]
           evs == <<"draft.created">>
           q == CreateDraft(p)
<1>1. q = RecordEvents(y, evs, 0)
  BY DEF CreateDraft
<1>2. SameExcept(p, t, {"nextId"})
  BY SoundFields, TakeIdsFrame
<1> HIDE DEF t, drafts
<1>3. SameExcept(p, y, {"nextId", "drafts"})
  BY <1>2 DEF SameExcept, PlaneFields
<1>4. Len(evs) \in Nat \ {0} /\ evs[1] = "draft.created"
  OBVIOUS
<1> HIDE DEF y, evs
<1>5. /\ DOMAIN y = PlaneFields /\ y.events = p.events /\ y.lastSequence = p.lastSequence
      /\ y.revisions = p.revisions /\ y.active = p.active
  BY <1>3 DEF SameExcept, PlaneFields
<1>6. /\ EventsApart(q) /\ Announced(p, q, evs[1], 0)
      /\ SameExcept(y, q, {"lastSequence", "nextId", "events"})
  BY <1>1, <1>4, <1>5, SoundFields, RecordedOn
<1>7. Sound(q) /\ Quiet(p, q)
  BY CreateDraftKeeps
<1> HIDE DEF q
<1>8. q.revisions = p.revisions /\ q.active = p.active
  BY <1>5, <1>6 DEF SameExcept, PlaneFields
<1> QED BY <1>4, <1>6, <1>7, <1>8 DEF Kept, Unrevised, Quiet, q

(* apply_patch of one note, as the journal sees it.                         *)
LEMMA ApplyPatchTraced ==
  ASSUME NEW p, Sound(p), EventsApart(p), NEW patch \in PatchesOf(p),
         ApplyOperations(p, patch.draft, patch.operations, FALSE).ok
  PROVE  LET q == ApplyPatch(p, patch, FALSE) IN Kept(p, q) /\ Unrevised(p, q)
<1> DEFINE d == patch.draft
           r == ApplyOperations(p, d, patch.operations, FALSE)
           y == [p EXCEPT !.items = r.items, !.latest = r.latest]
           previews == InvalidatePreviews(p, d)
           v == y.drafts[d].version + 1
           drafts == [y.drafts EXCEPT ![d].version = v, ![d].config = r.config]
           z == [y EXCEPT !.drafts[d].version = v, !.drafts[d].config = r.config,
                          !.previews = previews]
           evs == <<"draft.saved">>
           q == ApplyPatch(p, patch, FALSE)
<1>1. q = RecordEvents(z, evs, 0)
  BY DEF ApplyPatch
<1>2. /\ patch.draft \in DOMAIN p.drafts
      /\ patch.operations \in
           {<<[kind |-> "put_note", id |-> n, expected |-> None, text |-> t,
               expires |-> Forever]>> : n \in NoteIds, t \in Texts}
  BY DEF PatchesOf
<1>3. Sound(q) /\ Quiet(p, q)
  <2> DEFINE S == {op \in {patch.operations[1]} : OperationTyped(p, op)}
  <2>1. PICK n \in NoteIds, t \in Texts :
          patch.operations = <<[kind |-> "put_note", id |-> n, expected |-> None,
                                text |-> t, expires |-> Forever]>>
    BY <1>2
  <2>2. n \in ItemIds /\ t \in AllTexts /\ Forever \in Nat
    BY ControlPlaneAssumption DEF ItemIds, AllTexts
  <2>3. patch.operations[1] \in S
    BY <2>1, <2>2 DEF OperationTyped
  <2>4. patch.operations = <<patch.operations[1]>>
    BY <2>1
  <2> DEFINE op == patch.operations[1]
  <2>5. op \in S /\ patch.operations = <<op>>
    BY <2>3, <2>4
  <2> HIDE DEF op
  <2>6. patch.operations \in Seq(S)
    BY <2>5
  <2>7. \A x \in S : OperationTyped(p, x)
    OBVIOUS
  <2> HIDE DEF S
  <2> DEFINE authorized == FALSE
  <2> HIDE DEF authorized
  <2>8. LET x == ApplyPatch(p, patch, authorized) IN Sound(x) /\ Quiet(p, x)
    BY <1>2, <2>6, <2>7, ApplyPatchKeeps
  <2> QED BY <2>8 DEF authorized
<1> HIDE DEF r, previews, d
<1>4. SameExcept(p, y, {"items", "latest"})
  BY SoundFields DEF SameExcept, PlaneFields
<1> HIDE DEF y
<1>5. SameExcept(y, z, {"drafts", "previews"})
  <2> HIDE DEF v
  <2>1. z = [y EXCEPT !.drafts = drafts, !.previews = previews]
    <3>1. "drafts" \in DOMAIN y
      BY <1>4 DEF SameExcept, PlaneFields
    <3> HIDE DEF previews
    <3> QED BY <3>1
  <2> HIDE DEF drafts, z
  <2> QED BY <1>4, <2>1 DEF SameExcept, PlaneFields
<1> HIDE DEF z
<1>6. /\ DOMAIN z = PlaneFields /\ z.events = p.events /\ z.lastSequence = p.lastSequence
      /\ z.revisions = p.revisions /\ z.active = p.active
  BY <1>4, <1>5 DEF SameExcept, PlaneFields
<1>7. Len(evs) \in Nat \ {0} /\ evs[1] = "draft.saved"
  OBVIOUS
<1> HIDE DEF evs
<1> HIDE DEF q
<1>8. /\ EventsApart(q) /\ Announced(p, q, evs[1], 0)
      /\ SameExcept(z, q, {"lastSequence", "nextId", "events"})
  BY <1>1, <1>6, <1>7, SoundFields, RecordedOn
<1>9. q.revisions = p.revisions /\ q.active = p.active
  BY <1>6, <1>8 DEF SameExcept, PlaneFields
<1> QED BY <1>3, <1>7, <1>8, <1>9 DEF Kept, Unrevised, Quiet, q

(* create_preview, as the journal sees it.                                  *)
LEMMA CreatePreviewTraced ==
  ASSUME NEW p, Sound(p), EventsApart(p), NEW d \in DOMAIN p.drafts
  PROVE  LET q == CreatePreview(p, d, TRUE, TRUE) IN Kept(p, q) /\ Unrevised(p, q)
<1> DEFINE draft      == p.drafts[d]
           applicable == TRUE /\ Held(p)
           blocked    == (TRUE /\ ~Held(p)) \/ (applicable /\ ~TRUE)
           material   == IF ~blocked /\ Renderable(p, draft.config)
                         THEN Input(draft.config, p.boundary) ELSE None
           id         == Len(p.previews) + 1
           e == [draft |-> d, draftVersion |-> draft.version, base |-> draft.base,
                 boundary |-> p.boundary, selected |-> draft.config.selected,
                 applicable |-> applicable /\ material # None,
                 manifest |-> IF material = None THEN None
                              ELSE <<id, p.boundary.provider, material>>,
                 material |-> material, expires |-> p.now + PreviewTtl,
                 consumed |-> FALSE]
           t == TakeIds(p, IF material = None THEN 1 ELSE 3)
           previews == Append(t.previews, e)
           y == [t EXCEPT !.previews = previews]
           evs == <<"preview.built">>
           q == CreatePreview(p, d, TRUE, TRUE)
<1>1. q = RecordEvents(y, evs, id)
  BY DEF CreatePreview
<1>2. SameExcept(p, t, {"nextId"})
  BY SoundFields, TakeIdsFrame
<1> HIDE DEF t, previews, id
<1>3. SameExcept(p, y, {"nextId", "previews"})
  BY <1>2 DEF SameExcept, PlaneFields
<1>4. Len(evs) \in Nat \ {0} /\ evs[1] = "preview.built"
  OBVIOUS
<1> HIDE DEF y, evs
<1>5. /\ DOMAIN y = PlaneFields /\ y.events = p.events /\ y.lastSequence = p.lastSequence
      /\ y.revisions = p.revisions /\ y.active = p.active
  BY <1>3 DEF SameExcept, PlaneFields
<1>7. Sound(q) /\ Quiet(p, q)
  BY CreatePreviewKeeps
<1> HIDE DEF q
<1>6. /\ EventsApart(q) /\ Announced(p, q, evs[1], id)
      /\ SameExcept(y, q, {"lastSequence", "nextId", "events"})
  BY <1>1, <1>4, <1>5, SoundFields, RecordedOn
<1>8. q.revisions = p.revisions /\ q.active = p.active
  BY <1>5, <1>6 DEF SameExcept, PlaneFields
<1> QED BY <1>4, <1>6, <1>7, <1>8 DEF Kept, Unrevised, Quiet, q

(* pause and resume, as the journal sees them.                              *)
LEMMA LatchTraced ==
  ASSUME NEW p, Sound(p), EventsApart(p), NEW c, c.key \in Keys, FreshKey(p, c),
         NEW y, SameExcept(p, y, GateFields \ {"boundary"}),
         y.controlVersion \in Nat, y.gateEpoch \in Nat, NEW effect,
         NEW evs, Len(evs) \in Nat \ {0}, evs[1] # "revision.committed", NEW preview,
         NEW q, q = RecordEvents(SaveCommand(SyncBoundary(y), c, effect), evs, preview),
         Sound(q), Recorded(p, q, c)
  PROVE  Kept(p, q) /\ Unrevised(p, q)
<1> DEFINE s == SyncBoundary(y)
           r == SaveCommand(s, c, effect)
<1>1. DOMAIN y = PlaneFields /\ y.boundary = p.boundary
      /\ y.controllerEpoch = p.controllerEpoch
  BY DEF SameExcept, GateFields, PlaneFields
<1>2. SameExcept(y, s, {"boundary"})
  BY <1>1, SoundFields, SyncBoundaryFrame
<1> HIDE DEF s
<1>3. DOMAIN s = PlaneFields /\ DOMAIN s.commands = Keys
  BY <1>2, SoundFields DEF SameExcept, GateFields, PlaneFields
<1>4. SameExcept(s, r, {"nextId", "commands"})
  BY <1>3, SaveCommandFrame
<1>5. q = RecordEvents(r, evs, preview)
  BY DEF r, s
<1> HIDE DEF r
<1>6. /\ DOMAIN r = PlaneFields /\ r.events = p.events /\ r.lastSequence = p.lastSequence
      /\ r.revisions = p.revisions /\ r.active = p.active
  BY <1>2, <1>4 DEF SameExcept, GateFields, PlaneFields
<1>7. /\ EventsApart(q) /\ Announced(p, q, evs[1], preview)
      /\ SameExcept(r, q, {"lastSequence", "nextId", "events"})
  BY <1>5, <1>6, SoundFields, RecordedOn
<1>8. q.revisions = p.revisions /\ q.active = p.active
  BY <1>6, <1>7 DEF SameExcept, PlaneFields
<1>9. \A k \in Keys : p.commands[k] # None => q.commands[k] = p.commands[k]
  BY DEF Recorded, FreshKey
<1> QED BY <1>7, <1>8, <1>9 DEF Kept, Unrevised

(* pause, as the journal sees it.                                           *)
LEMMA PauseTraced ==
  ASSUME NEW p, Sound(p), EventsApart(p), NEW c, c.key \in Keys, PauseAllowed(p, c)
  PROVE  Kept(p, Pause(p, c)) /\ Unrevised(p, Pause(p, c))
<1> DEFINE y == [p EXCEPT !.pauseLatched = TRUE, !.gateEpoch = @ + 1,
                          !.controlVersion = @ + 1, !.status = "paused_ready"]
           evs == <<"pause.accepted", "pause.ready">>
           q == Pause(p, c)
<1>1. SameExcept(p, y, GateFields \ {"boundary"})
      /\ y.controlVersion = p.controlVersion + 1 /\ y.gateEpoch = p.gateEpoch + 1
  BY SoundFields DEF SameExcept, GateFields, PlaneFields
<1>2. Len(evs) \in Nat \ {0} /\ evs[1] # "revision.committed"
  OBVIOUS
<1>3. q = RecordEvents(SaveCommand(SyncBoundary(y), c, "pause_requested"), evs, 0)
  BY DEF Pause
<1>4. Sound(q) /\ Recorded(p, q, c) /\ FreshKey(p, c)
  BY PauseKeeps DEF PauseAllowed, CommandAccepted
<1> HIDE DEF y, evs, q
<1>5. y.controlVersion \in Nat /\ y.gateEpoch \in Nat
  BY <1>1, SoundFields
<1> QED BY <1>1, <1>2, <1>3, <1>4, <1>5, LatchTraced DEF q

(* resume, as the journal sees it.                                          *)
LEMMA ResumeTraced ==
  ASSUME NEW p, Sound(p), EventsApart(p), NEW c, c.key \in Keys, ResumeAllowed(p, c)
  PROVE  Kept(p, Resume(p, c)) /\ Unrevised(p, Resume(p, c))
<1> DEFINE y == [p EXCEPT !.pauseLatched = FALSE, !.gateEpoch = @ + 1,
                          !.controlVersion = @ + 1, !.status = "running",
                          !.continuation = 0, !.prepared = None]
           evs == IF p.prepared = None THEN <<"resume.accepted">>
                  ELSE <<"resume.accepted", "input.claimed", "input.submitted">>
           q == Resume(p, c)
<1>1. SameExcept(p, y, GateFields \ {"boundary"})
      /\ y.controlVersion = p.controlVersion + 1 /\ y.gateEpoch = p.gateEpoch + 1
  BY SoundFields DEF SameExcept, GateFields, PlaneFields
<1>2. Len(evs) \in Nat \ {0} /\ evs[1] # "revision.committed"
  OBVIOUS
<1>3. q = RecordEvents(SaveCommand(SyncBoundary(y), c, "resume_accepted"), evs,
                       p.continuation)
  BY DEF Resume
<1>4. Sound(q) /\ Recorded(p, q, c) /\ FreshKey(p, c)
  BY ResumeKeeps DEF ResumeAllowed, CommandAccepted
<1> HIDE DEF y, evs, q
<1>5. y.controlVersion \in Nat /\ y.gateEpoch \in Nat
  BY <1>1, SoundFields
<1> QED BY <1>1, <1>2, <1>3, <1>4, <1>5, LatchTraced DEF q

(* commit, as the journal sees it.                                          *)
LEMMA CommitTraced ==
  ASSUME NEW p, Sound(p), EventsApart(p), NEW c, c.key \in Keys, CommitAllowed(p, c)
  PROVE  LET q == Commit(p, c) IN Kept(p, q) /\ (Unrevised(p, q) \/ Revised(p, q))
<1> DEFINE i == c.preview
           q == p.previews[i]
           previews == [p.previews EXCEPT ![i].consumed = TRUE]
           r == [p EXCEPT !.previews[i].consumed = TRUE, !.continuation = i]
           x == [r EXCEPT !.prepared = None]
           n == NewRevision(p)
           e == [parent |-> p.active, config |-> p.drafts[q.draft].config,
                 preview |-> i, manifest |-> q.manifest, planEpoch |-> p.planEpoch + 1]
           t == TakeIds(r, 2)
           u == [t EXCEPT !.revisions = Append(@, e), !.active = n, !.planEpoch = @ + 1,
                          !.controlVersion = @ + 1, !.status = "paused_committed",
                          !.prepared = q.material]
           z == SyncBoundary(u)
           sc == SaveCommand(x, c, "no_change")
           none == <<"revision.no_change">>
           done == SaveCommand(z, c, "revision_committed")
           evs == <<"revision.committed", "plan.retired">>
           told == RecordEvents(done, evs, i)
           w == Commit(p, c)
<1>1. w = IF NoChange(p, c) THEN RecordEvents(sc, none, i) ELSE TakeIds(told, 1)
  BY DEF Commit
<1>2. Sound(w) /\ Recorded(p, w, c) /\ FreshKey(p, c)
  BY CommitKeeps DEF CommitAllowed, CommandAccepted
<1>3. \A k \in Keys : p.commands[k] # None => w.commands[k] = p.commands[k]
  BY <1>2 DEF Recorded, FreshKey
<1>4. SameExcept(p, r, {"previews", "continuation"})
  <2>1. r = [p EXCEPT !.previews = previews, !.continuation = i]
    BY SoundFields DEF PlaneFields
  <2> HIDE DEF previews, r
  <2> QED BY <2>1, SoundFields DEF SameExcept, PlaneFields
<1> HIDE DEF r
<1>5. DOMAIN r = PlaneFields
  BY <1>4 DEF SameExcept
<1> HIDE DEF w
<1>6. CASE NoChange(p, c)
  <2>1. SameExcept(r, x, {"prepared"})
    BY <1>5 DEF SameExcept, PlaneFields
  <2> HIDE DEF x
  <2>2. DOMAIN x = PlaneFields /\ DOMAIN x.commands = Keys
    BY <1>4, <2>1, SoundFields DEF SameExcept, PlaneFields
  <2>3. SameExcept(x, sc, {"nextId", "commands"})
    BY <2>2, SaveCommandFrame
  <2> HIDE DEF sc
  <2>4. /\ DOMAIN sc = PlaneFields /\ sc.events = p.events
        /\ sc.lastSequence = p.lastSequence
        /\ sc.revisions = p.revisions /\ sc.active = p.active
    BY <1>4, <2>1, <2>3 DEF SameExcept, PlaneFields
  <2>5. Len(none) \in Nat \ {0} /\ none[1] = "revision.no_change"
    OBVIOUS
  <2> HIDE DEF none, i
  <2>6. w = RecordEvents(sc, none, i)
    BY <1>1, <1>6
  <2>7. /\ EventsApart(w) /\ Announced(p, w, none[1], i)
        /\ SameExcept(sc, w, {"lastSequence", "nextId", "events"})
    BY <2>4, <2>5, <2>6, SoundFields, RecordedOn
  <2>8. w.revisions = p.revisions /\ w.active = p.active
    BY <2>4, <2>7 DEF SameExcept, PlaneFields
  <2>9. Unrevised(p, w)
    BY <2>5, <2>7, <2>8 DEF Unrevised
  <2> QED BY <1>2, <1>3, <2>7, <2>9 DEF Kept, w
<1>7. CASE ~NoChange(p, c)
  <2>1. SameExcept(r, t, {"nextId"})
    BY <1>5, TakeIdsFrame
  <2> HIDE DEF t
  <2>2. e.preview = i /\ e.manifest = q.manifest
    OBVIOUS
  <2> HIDE DEF e
  <2> DEFINE revisions == Append(p.revisions, e)
             material == q.material
             v == t.controlVersion + 1
             g == t.planEpoch + 1
  <2>3. /\ DOMAIN revisions = DOMAIN p.revisions \cup {n}
        /\ n \notin DOMAIN p.revisions
        /\ \A j \in DOMAIN p.revisions : revisions[j] = p.revisions[j]
        /\ revisions[n] = e
    BY Appended DEF NewRevision, Sound, Shape
  <2>4. n = Len(p.revisions) + 1
    BY DEF NewRevision
  <2> HIDE DEF n
  <2>5. /\ DOMAIN t = PlaneFields /\ t.revisions = p.revisions
        /\ t.controlVersion = p.controlVersion
    BY <1>4, <2>1 DEF SameExcept, PlaneFields
  <2>6. u = [t EXCEPT !.revisions = revisions, !.active = n, !.planEpoch = g,
                      !.controlVersion = v, !.status = "paused_committed",
                      !.prepared = material]
    BY <2>5
  <2>7. v \in Nat
    BY <2>5, SoundFields
  <2> HIDE DEF u, revisions, material, v, g
  <2>8. /\ u.revisions = revisions /\ u.active = n /\ u.controlVersion = v
        /\ SameExcept(t, u, {"revisions", "active", "planEpoch", "controlVersion",
                             "status", "prepared"})
    BY <2>5, <2>6 DEF SameExcept, PlaneFields
  <2>9. /\ DOMAIN u = PlaneFields /\ u.boundary = p.boundary
        /\ u.controllerEpoch = p.controllerEpoch /\ u.gateEpoch = p.gateEpoch
        /\ u.commands = p.commands /\ u.events = p.events
        /\ u.lastSequence = p.lastSequence
    BY <1>4, <2>1, <2>8 DEF SameExcept, PlaneFields
  <2>10. SameExcept(u, z, {"boundary"})
    BY <2>7, <2>8, <2>9, SoundFields, SyncBoundaryFrame
  <2> HIDE DEF z
  <2>11. DOMAIN z = PlaneFields /\ DOMAIN z.commands = Keys
    BY <2>9, <2>10, SoundFields DEF SameExcept, PlaneFields
  <2>12. SameExcept(z, done, {"nextId", "commands"})
    BY <2>11, SaveCommandFrame
  <2> HIDE DEF done
  <2>13. /\ DOMAIN done = PlaneFields /\ done.events = p.events
         /\ done.lastSequence = p.lastSequence
         /\ done.revisions = revisions /\ done.active = n
    BY <2>8, <2>9, <2>10, <2>12 DEF SameExcept, PlaneFields
  <2>14. Len(evs) \in Nat \ {0} /\ evs[1] = "revision.committed"
    OBVIOUS
  <2> HIDE DEF evs
  <2>15. /\ EventsApart(told) /\ Announced(p, told, evs[1], i)
         /\ SameExcept(done, told, {"lastSequence", "nextId", "events"})
    <3> HIDE DEF i
    <3> QED BY <2>13, <2>14, SoundFields, RecordedOn
  <2> HIDE DEF told
  <2>16. w = TakeIds(told, 1)
    BY <1>1, <1>7
  <2>17. SameExcept(told, w, {"nextId"})
    BY <2>15, <2>16, TakeIdsFrame DEF SameExcept
  <2>18. /\ w.events = told.events /\ w.lastSequence = told.lastSequence
         /\ w.revisions = revisions /\ w.active = n
    BY <2>13, <2>15, <2>17 DEF SameExcept, PlaneFields
  <2>19. EventsApart(w) /\ Announced(p, w, "revision.committed", i)
    BY <2>14, <2>15, <2>18 DEF EventsApart, Announced
  <2>20. Revised(p, w)
    BY <2>2, <2>3, <2>4, <2>18, <2>19 DEF Revised
  <2> QED BY <1>2, <1>3, <2>19, <2>20 DEF Kept, w
<1> QED BY <1>6, <1>7

(* Each mutation of the store's processes is one of these.                  *)
LEMMA MutationTraced ==
  ASSUME NEW p, Sound(p), EventsApart(p), NEW q \in Mutations(p)
  PROVE  Kept(p, q) /\ (Unrevised(p, q) \/ Revised(p, q))
<1>1. CASE q \in Drafting(p)
  <2>1. CASE q = CreateDraft(p)
    BY <2>1, CreateDraftTraced
  <2>2. CASE \E patch \in PatchesOf(p) :
               /\ ApplyOperations(p, patch.draft, patch.operations, FALSE).ok
               /\ q = ApplyPatch(p, patch, FALSE)
    BY <2>2, ApplyPatchTraced
  <2>3. CASE \E d \in DOMAIN p.drafts : q = CreatePreview(p, d, TRUE, TRUE)
    BY <2>3, CreatePreviewTraced
  <2> QED BY <1>1, <2>1, <2>2, <2>3 DEF Drafting
<1>2. CASE q \in Commits(p)
  <2>1. PICK c : c.key \in Keys /\ CommitAllowed(p, c) /\ q = Commit(p, c)
    BY <1>2 DEF Commits, CommandsOf
  <2> QED BY <2>1, CommitTraced
<1>3. CASE q \in Latching(p)
  <2>1. \/ \E c : c.key \in Keys /\ PauseAllowed(p, c) /\ q = Pause(p, c)
        \/ \E c : c.key \in Keys /\ ResumeAllowed(p, c) /\ q = Resume(p, c)
    BY <1>3 DEF Latching, CommandsOf
  <2>2. CASE \E c : c.key \in Keys /\ PauseAllowed(p, c) /\ q = Pause(p, c)
    BY <2>2, PauseTraced
  <2>3. CASE \E c : c.key \in Keys /\ ResumeAllowed(p, c) /\ q = Resume(p, c)
    BY <2>3, ResumeTraced
  <2> QED BY <2>1, <2>2, <2>3
<1> QED BY <1>1, <1>2, <1>3 DEF Mutations

-----------------------------------------------------------------------------
(* The inductive invariant of the durable store.                           *)

Journaled(p) == Sound(p) /\ EventsApart(p)

(* The journal and every process's copy of it are sound.                   *)
CopiesSound ==
  /\ Journaled(journal)
  /\ DOMAIN live = Procs
  /\ \A p \in Procs : live[p] # None => Journaled(live[p])

RowsTyped == DOMAIN bindings = BindingIds /\ DOMAIN snapshots = SnapshotIds

OneAtATime ==
  ~overlapped => \A p, o \in Procs : live[p] # None /\ live[o] # None => p = o

(* The copy a process still has knows every receipt it answered with, and  *)
(* the journal every receipt of the copy.                                  *)
AckedKnown ==
  ~overlapped =>
    /\ acked \subseteq ReceiptsOf(journal)
    /\ \A p \in Procs : live[p] # None =>
         /\ acked \subseteq ReceiptsOf(live[p])
         /\ ReceiptsOf(live[p]) \subseteq ReceiptsOf(journal)

(* A binding stored with a commit its process does not know of: the next   *)
(* event of the process must repeat that commit.                           *)
AwaitsIn(box, q, row) ==
  LET s == q.lastSequence + 1
  IN  /\ row.revision = Len(q.revisions) + 1
      /\ row.manifest = q.previews[row.preview].manifest
      /\ s \in DOMAIN box
      /\ box[s].what = "revision.committed" /\ box[s].preview = row.preview

Awaits(q, row) == AwaitsIn(outbox, q, row)

LedIn(rows, box, q) ==
  Len(q.events) < MaxEvents =>
    \A b \in BindingIds : rows[b] # None => Resolves(q, rows[b]) \/ AwaitsIn(box, q, rows[b])

Led(q) == LedIn(bindings, outbox, q)

BindingsLed ==
  /\ BindingsResolve
  /\ ~overlapped => \A p \in Procs : live[p] # None => Led(live[p])

DurableInv ==
  /\ CopiesSound /\ RowsTyped /\ JournalInOutbox
  /\ OneAtATime /\ AckedKnown /\ BindingsLed

(* What StoredOnce says of a step.                                         *)
RowsStay ==
  /\ \A s \in DOMAIN outbox : s \in DOMAIN outbox' /\ outbox'[s] = outbox[s]
  /\ \A b \in BindingIds : bindings[b] # None => bindings'[b] = bindings[b]
  /\ \A s \in SnapshotIds : snapshots[s] # None => snapshots'[s] = snapshots[s]

(* A mutation keeps the receipts of its plane.                              *)
LEMMA ReceiptsKept ==
  ASSUME NEW p, NEW q, Kept(p, q)
  PROVE  ReceiptsOf(p) \subseteq ReceiptsOf(q)
BY DEF Kept, ReceiptsOf

(* What recovery leaves of a plane, as the store sees it.                   *)
LEMMA RecoveredJournaled ==
  ASSUME NEW p, Journaled(p)
  PROVE  LET q == Recovered(p)
         IN  /\ Journaled(q) /\ q.events = p.events /\ q.revisions = p.revisions
             /\ q.commands = p.commands
<1> DEFINE q == Recovered(p)
<1>1. Sound(q) /\ SameExcept(p, q, {"controllerEpoch", "boundary"})
  BY RecoveredKeeps DEF Journaled
<1> HIDE DEF q
<1>2. /\ q.events = p.events /\ q.revisions = p.revisions /\ q.commands = p.commands
      /\ q.lastSequence = p.lastSequence
  BY <1>1 DEF SameExcept, PlaneFields
<1> QED BY <1>1, <1>2 DEF Journaled, EventsApart, q

(* insert_outbox keeps the rows that are there and adds every event.        *)
LEMMA OutboxKept ==
  ASSUME NEW q, EventsApart(q), OutboxAgrees(q), outbox' = OutboxWith(q)
  PROVE  /\ \A s \in DOMAIN outbox : s \in DOMAIN outbox' /\ outbox'[s] = outbox[s]
         /\ \A e \in Range(q.events) :
              e.sequence \in DOMAIN outbox' /\ outbox'[e.sequence] = e
<1> DEFINE E == Range(q.events)
           S == DOMAIN outbox \cup {e.sequence : e \in E}
           At(s) == CHOOSE e \in E : e.sequence = s
           Row(s) == IF \E e \in E : e.sequence = s THEN At(s) ELSE outbox[s]
<1>1. outbox' = [s \in S |-> Row(s)]
  BY DEF OutboxWith
<1>2. ASSUME NEW s, NEW e \in E, e.sequence = s
      PROVE  At(s) = e /\ At(s) \in E /\ At(s).sequence = s
  <2>1. At(s) \in E /\ At(s).sequence = s
    BY <1>2
  <2> HIDE DEF At
  <2>2. PICK i \in DOMAIN q.events : e = q.events[i]
    BY DEF Range
  <2>3. PICK j \in DOMAIN q.events : At(s) = q.events[j]
    BY <2>1 DEF Range
  <2>4. i = j
    BY <1>2, <2>1, <2>2, <2>3 DEF EventsApart
  <2> QED BY <2>1, <2>2, <2>3, <2>4
<1>3. ASSUME NEW s \in DOMAIN outbox  PROVE Row(s) = outbox[s]
  <2>1. CASE \E e \in E : e.sequence = s
    <3>1. PICK e \in E : e.sequence = s
      BY <2>1
    <3>2. At(s) = e
      BY <1>2, <3>1
    <3>3. outbox[s] = e
      BY <3>1 DEF OutboxAgrees
    <3> HIDE DEF At
    <3> QED BY <3>1, <3>2, <3>3
  <2>2. CASE ~\E e \in E : e.sequence = s
    BY <2>2
  <2> QED BY <2>1, <2>2
<1>4. ASSUME NEW e \in E  PROVE Row(e.sequence) = e
  <2>1. At(e.sequence) = e
    BY <1>2
  <2> HIDE DEF At
  <2> QED BY <2>1
<1> HIDE DEF Row, E
<1>5. \A s \in S : outbox'[s] = Row(s)
  BY <1>1
<1>6. DOMAIN outbox' = S
  BY <1>1
<1> QED BY <1>3, <1>4, <1>5, <1>6 DEF E

(* What one transaction does to the store.                                  *)
LEMMA Persisted ==
  ASSUME NEW q, EventsApart(q), NEW binding, Persist(q, binding), RowsTyped,
         binding \in {None} \cup BindingIds
  PROVE  /\ journal' = q /\ JournalInOutbox'
         /\ \A s \in DOMAIN outbox : s \in DOMAIN outbox' /\ outbox'[s] = outbox[s]
         /\ DOMAIN bindings' = BindingIds
         /\ \A b \in BindingIds : bindings[b] # None => bindings'[b] = bindings[b]
         /\ \A b \in BindingIds :
              bindings'[b] # bindings[b] =>
                b = binding /\ bindings'[b] = [revision |-> q.active,
                                 preview |-> q.revisions[q.active].preview,
                                 manifest |-> q.revisions[q.active].manifest]
<1> DEFINE row == [revision |-> q.active,
                   preview |-> q.revisions[q.active].preview,
                   manifest |-> q.revisions[q.active].manifest]
<1>1. /\ OutboxAgrees(q) /\ journal' = q /\ outbox' = OutboxWith(q)
      /\ \/ binding = None /\ UNCHANGED bindings
         \/ /\ binding # None
            /\ bindings[binding] \in {None, row}
            /\ bindings' = [bindings EXCEPT ![binding] = row]
  BY DEF Persist
<1>2. /\ \A s \in DOMAIN outbox : s \in DOMAIN outbox' /\ outbox'[s] = outbox[s]
      /\ \A e \in Range(q.events) :
           e.sequence \in DOMAIN outbox' /\ outbox'[e.sequence] = e
  BY <1>1, OutboxKept
<1>3. JournalInOutbox'
  BY <1>1, <1>2 DEF JournalInOutbox
<1> HIDE DEF row
<1>4. CASE binding = None /\ UNCHANGED bindings
  BY <1>1, <1>2, <1>3, <1>4 DEF RowsTyped
<1>5. CASE /\ binding # None
           /\ bindings[binding] \in {None, row}
           /\ bindings' = [bindings EXCEPT ![binding] = row]
  <2>1. DOMAIN bindings = BindingIds /\ binding \in BindingIds
    BY <1>5 DEF RowsTyped
  <2>2. /\ DOMAIN bindings' = BindingIds
        /\ \A b \in BindingIds : bindings[b] # None => bindings'[b] = bindings[b]
        /\ \A b \in BindingIds : bindings'[b] # bindings[b] => b = binding /\ bindings'[b] = row
    BY <1>5, <2>1
  <2> QED BY <1>1, <1>2, <1>3, <2>2 DEF row
<1> QED BY <1>1, <1>4, <1>5

(* A transaction of a process alone with the store: every binding resolves *)
(* in what it stores, and the copy it started from is led there.           *)
LEMMA BindingsFollow ==
  ASSUME NEW p, Journaled(p), Led(p), RowsTyped,
         NEW q, Kept(p, q), Unrevised(p, q) \/ Revised(p, q),
         NEW binding \in {None} \cup BindingIds,
         binding # None => Revised(p, q), Persist(q, binding)
  PROVE  /\ Len(q.events) < MaxEvents =>
              \A b \in BindingIds : bindings'[b] # None => Resolves(q, bindings'[b])
         /\ LedIn(bindings', outbox', p)
<1> DEFINE s == p.lastSequence + 1
           n == Len(p.revisions) + 1
           row == [revision |-> q.active,
                   preview |-> q.revisions[q.active].preview,
                   manifest |-> q.revisions[q.active].manifest]
<1>1. /\ \A x \in DOMAIN outbox : x \in DOMAIN outbox' /\ outbox'[x] = outbox[x]
      /\ \A e \in Range(q.events) :
           e.sequence \in DOMAIN outbox' /\ outbox'[e.sequence] = e
  BY OutboxKept DEF Persist, Kept
<1>2. ASSUME NEW b \in BindingIds
      PROVE  \/ bindings'[b] = bindings[b]
             \/ Revised(p, q) /\ bindings'[b] = row
  <2>1. bindings'[b] # bindings[b] => b = binding /\ bindings'[b] = row
    BY Persisted DEF Kept
  <2>2. binding = None => bindings' = bindings \/ Revised(p, q)
    BY DEF Persist
  <2> QED BY <2>1, <2>2
<1>3. q.active \in DOMAIN q.revisions
  BY DEF Kept, Sound, Shape
<1>4. Resolves(q, row)
  BY <1>3 DEF Resolves
<1>5. Len(p.events) <= Len(q.events)
  BY DEF Unrevised, Revised, Announced
<1>6. Len(p.events) \in Nat /\ Len(q.events) \in Nat /\ MaxEvents \in Nat
  <2>1. p.events \in Seq(Range(p.events)) /\ q.events \in Seq(Range(q.events))
    BY DEF Journaled, Kept, EventsApart
  <2> QED BY <2>1, ControlPlaneAssumption
<1> HIDE DEF row
<1>7. ASSUME NEW x, Resolves(p, x)  PROVE Resolves(q, x)
  BY <1>7 DEF Resolves, Unrevised, Revised
<1>8. ASSUME NEW x, Awaits(p, x), Len(p.events) < MaxEvents  PROVE Resolves(q, x)
  <2>1. /\ x.revision = n /\ x.manifest = p.previews[x.preview].manifest
        /\ s \in DOMAIN outbox
        /\ outbox[s].what = "revision.committed" /\ outbox[s].preview = x.preview
    BY <1>8 DEF Awaits, AwaitsIn
  <2>2. ASSUME NEW what, NEW preview, Announced(p, q, what, preview)
        PROVE  what = "revision.committed" /\ preview = x.preview
    <3>1. PICK e \in Range(q.events) :
             e.sequence = s /\ e.what = what /\ e.preview = preview
      BY <1>8, <2>2 DEF Announced
    <3>2. outbox[s] = e
      BY <1>1, <2>1, <3>1
    <3> QED BY <2>1, <3>1, <3>2
  <2>3. Revised(p, q)
    BY <2>2 DEF Unrevised
  <2>4. q.revisions[n].preview = x.preview
    BY <2>2, <2>3 DEF Revised
  <2> QED BY <2>1, <2>3, <2>4 DEF Revised, Resolves
<1>9. ASSUME Len(p.events) < MaxEvents, Revised(p, q)
      PROVE  AwaitsIn(outbox', p, row)
  <2> DEFINE v == q.revisions[n].preview
  <2>1. /\ q.active = n /\ q.revisions[n].manifest = p.previews[v].manifest
        /\ Announced(p, q, "revision.committed", v)
    BY <1>9 DEF Revised
  <2>2. row.revision = n /\ row.preview = v /\ row.manifest = p.previews[v].manifest
    BY <2>1 DEF row
  <2> HIDE DEF v
  <2>3. PICK e \in Range(q.events) :
           e.sequence = s /\ e.what = "revision.committed" /\ e.preview = v
    BY <1>9, <2>1 DEF Announced
  <2>4. s \in DOMAIN outbox' /\ outbox'[s] = e
    BY <1>1, <2>3
  <2> QED BY <2>2, <2>3, <2>4 DEF AwaitsIn
<1>10. ASSUME Len(p.events) < MaxEvents, NEW b \in BindingIds, bindings'[b] # None
       PROVE  /\ Resolves(q, bindings'[b])
              /\ Resolves(p, bindings'[b]) \/ AwaitsIn(outbox', p, bindings'[b])
  <2>1. CASE Revised(p, q) /\ bindings'[b] = row
    BY <1>4, <1>9, <1>10, <2>1
  <2>2. CASE bindings'[b] = bindings[b]
    <3>1. Resolves(p, bindings[b]) \/ Awaits(p, bindings[b])
      BY <1>10, <2>2 DEF Led, LedIn, Awaits
    <3>2. Awaits(p, bindings[b]) => AwaitsIn(outbox', p, bindings[b])
      BY <1>1 DEF Awaits, AwaitsIn
    <3> QED BY <1>7, <1>8, <1>10, <2>2, <3>1, <3>2
  <2> QED BY <1>2, <2>1, <2>2
<1>11. LedIn(bindings', outbox', p)
  BY <1>10 DEF LedIn
<1>12. Len(q.events) < MaxEvents => Len(p.events) < MaxEvents
  BY <1>5, <1>6
<1> QED BY <1>10, <1>11, <1>12

(* A transaction, published or not, keeps the store.                        *)
LEMMA TransactionKeeps ==
  ASSUME DurableInv, NEW p \in Procs, live[p] # None,
         NEW q \in Mutations(live[p]), NEW binding \in {None} \cup BindingIds,
         binding # None => Revised(live[p], q),
         Persist(q, binding), UNCHANGED <<snapshots, overlapped>>,
         \/ /\ live' = [live EXCEPT ![p] = q]
            /\ acked' = acked \cup (ReceiptsOf(q) \ ReceiptsOf(live[p]))
         \/ UNCHANGED <<live, acked>>
  PROVE  DurableInv' /\ RowsStay
<1>1. /\ Journaled(live[p]) /\ DOMAIN live = Procs
      /\ \A o \in Procs : live[o] # None => Journaled(live[o])
      /\ RowsTyped /\ OneAtATime /\ AckedKnown /\ BindingsLed
  BY DEF DurableInv, CopiesSound
<1>2. Kept(live[p], q) /\ (Unrevised(live[p], q) \/ Revised(live[p], q))
  BY <1>1, MutationTraced DEF Journaled
<1>3. /\ journal' = q /\ JournalInOutbox'
      /\ \A s \in DOMAIN outbox : s \in DOMAIN outbox' /\ outbox'[s] = outbox[s]
      /\ DOMAIN bindings' = BindingIds
      /\ \A b \in BindingIds : bindings[b] # None => bindings'[b] = bindings[b]
  BY <1>1, <1>2, Persisted DEF Kept
<1>4. RowsStay
  BY <1>3 DEF RowsStay
<1>5. /\ DOMAIN live' = Procs
      /\ \A o \in Procs : live'[o] = live[o] \/ (o = p /\ live'[o] = q)
      /\ \/ /\ live'[p] = live[p]
            /\ acked' = acked
         \/ /\ live'[p] = q
            /\ acked' = acked \cup (ReceiptsOf(q) \ ReceiptsOf(live[p]))
  <2>1. CASE /\ live' = [live EXCEPT ![p] = q]
             /\ acked' = acked \cup (ReceiptsOf(q) \ ReceiptsOf(live[p]))
    <3>1. /\ DOMAIN live' = Procs /\ live'[p] = q
          /\ \A o \in Procs : o # p => live'[o] = live[o]
      BY <1>1, <2>1
    <3> QED BY <2>1, <3>1
  <2>2. CASE UNCHANGED <<live, acked>>
    BY <1>1, <2>2
  <2> QED BY <2>1, <2>2
<1>6. CopiesSound'
  BY <1>1, <1>2, <1>3, <1>5 DEF CopiesSound, Journaled, Kept
<1>7. RowsTyped'
  BY <1>1, <1>3 DEF RowsTyped
<1>8. OneAtATime'
  BY <1>1, <1>5 DEF OneAtATime
<1>9. ASSUME ~overlapped  PROVE \A o \in Procs : live'[o] # None => o = p
  BY <1>1, <1>5, <1>9 DEF OneAtATime
<1>10. AckedKnown'
  <2>1. ReceiptsOf(live[p]) \subseteq ReceiptsOf(q)
    BY <1>2, ReceiptsKept
  <2>2. ~overlapped => acked \subseteq ReceiptsOf(live[p])
    BY <1>1 DEF AckedKnown
  <2> SUFFICES ASSUME ~overlapped
               PROVE  /\ acked' \subseteq ReceiptsOf(q)
                      /\ \A o \in Procs : live'[o] # None =>
                           /\ acked' \subseteq ReceiptsOf(live'[o])
                           /\ ReceiptsOf(live'[o]) \subseteq ReceiptsOf(q)
    BY <1>3 DEF AckedKnown, ReceiptsOf
  <2>3. /\ acked' \subseteq ReceiptsOf(q) /\ acked' \subseteq ReceiptsOf(live'[p])
        /\ ReceiptsOf(live'[p]) \subseteq ReceiptsOf(q)
    BY <1>5, <2>1, <2>2
  <2> QED BY <1>9, <2>3
<1>11. BindingsLed'
  <2> SUFFICES ASSUME ~overlapped
               PROVE  /\ Len(q.events) < MaxEvents =>
                           \A b \in BindingIds :
                             bindings'[b] # None => Resolves(q, bindings'[b])
                      /\ \A o \in Procs : live'[o] # None =>
                           LedIn(bindings', outbox', live'[o])
    BY <1>3 DEF BindingsLed, BindingsResolve, Led, Resolves
  <2>1. Led(live[p])
    BY <1>1 DEF BindingsLed
  <2>2. /\ Len(q.events) < MaxEvents =>
             \A b \in BindingIds : bindings'[b] # None => Resolves(q, bindings'[b])
        /\ LedIn(bindings', outbox', live[p])
    BY <1>1, <1>2, <2>1, BindingsFollow
  <2>3. LedIn(bindings', outbox', q)
    BY <2>2 DEF LedIn
  <2> QED BY <1>5, <1>9, <2>2, <2>3
<1> QED BY <1>3, <1>4, <1>6, <1>7, <1>8, <1>10, <1>11 DEF DurableInv

(* A step that stores nothing leaves what is stored sound.                 *)
LEMMA UnstoredKeeps ==
  ASSUME DurableInv, UNCHANGED <<journal, outbox, bindings>>
  PROVE  Journaled(journal)' /\ JournalInOutbox' /\ (DOMAIN bindings = BindingIds)'
BY DEF DurableInv, CopiesSound, JournalInOutbox, RowsTyped, Journaled, Sound, EventsApart

(* load_with_recovery keeps the store: the copy is of the journal.          *)
LEMMA OpenKeeps ==
  ASSUME DurableInv, NEW p \in Procs, Open(p)
  PROVE  DurableInv' /\ RowsStay
<1>1. /\ Journaled(journal) /\ DOMAIN live = Procs
      /\ \A o \in Procs : live[o] # None => Journaled(live[o])
      /\ RowsTyped /\ JournalInOutbox /\ OneAtATime /\ AckedKnown /\ BindingsLed
  BY DEF DurableInv, CopiesSound
<1>2. /\ UNCHANGED <<journal, outbox, bindings, snapshots, acked>>
      /\ overlapped' = (overlapped \/ \E o \in Procs : live[o] # None)
      /\ live[p] = None
  BY DEF Open
<1>3. PICK q : /\ live' = [live EXCEPT ![p] = q]
               /\ Journaled(q) /\ q.events = journal.events
               /\ q.revisions = journal.revisions /\ q.commands = journal.commands
  BY <1>1, RecoveredJournaled DEF Open
<1>4. /\ DOMAIN live' = Procs /\ live'[p] = q
      /\ \A o \in Procs : o # p => live'[o] = live[o]
  BY <1>1, <1>3
<1>5. ASSUME ~overlapped'  PROVE ~overlapped /\ \A o \in Procs : live[o] = None
  <2>1. ~(overlapped \/ \E o \in Procs : live[o] # None)
    BY <1>2, <1>5
  <2> QED BY <2>1
<1>6. CopiesSound'
  BY <1>1, <1>2, <1>3, <1>4 DEF CopiesSound
<1>7. RowsTyped' /\ JournalInOutbox' /\ RowsStay
  BY <1>1, <1>2 DEF RowsTyped, JournalInOutbox, RowsStay
<1>8. OneAtATime'
  BY <1>4, <1>5 DEF OneAtATime
<1>9. AckedKnown'
  <2> SUFFICES ASSUME ~overlapped'
               PROVE  /\ acked \subseteq ReceiptsOf(journal)
                      /\ \A o \in Procs : live'[o] # None =>
                           /\ acked \subseteq ReceiptsOf(live'[o])
                           /\ ReceiptsOf(live'[o]) \subseteq ReceiptsOf(journal)
    BY <1>2 DEF AckedKnown, ReceiptsOf
  <2>1. ReceiptsOf(q) = ReceiptsOf(journal)
    BY <1>3 DEF ReceiptsOf
  <2>2. acked \subseteq ReceiptsOf(journal)
    BY <1>1, <1>5 DEF AckedKnown
  <2> QED BY <1>4, <1>5, <2>1, <2>2
<1>10. BindingsLed'
  <2> SUFFICES ASSUME ~overlapped'
               PROVE  /\ Len(journal.events) < MaxEvents =>
                           \A b \in BindingIds :
                             bindings[b] # None => Resolves(journal, bindings[b])
                      /\ \A o \in Procs : live'[o] # None =>
                           LedIn(bindings, outbox, live'[o])
    BY <1>2 DEF BindingsLed, BindingsResolve, Led, Resolves
  <2>1. Len(journal.events) < MaxEvents =>
          \A b \in BindingIds : bindings[b] # None => Resolves(journal, bindings[b])
    BY <1>1, <1>5 DEF BindingsLed, BindingsResolve
  <2>2. LedIn(bindings, outbox, q)
    BY <1>3, <2>1 DEF LedIn, Resolves
  <2> QED BY <1>4, <1>5, <2>1, <2>2
<1> QED BY <1>6, <1>7, <1>8, <1>9, <1>10 DEF DurableInv

(* A retried command is answered from the copy, which the journal follows.  *)
LEMMA ReplayKeeps ==
  ASSUME DurableInv, NEW p \in Procs, Replay(p)
  PROVE  DurableInv' /\ RowsStay
<1>1. /\ UNCHANGED <<live, journal, outbox, bindings, snapshots, overlapped>>
      /\ live[p] # None /\ acked' = acked \cup ReceiptsOf(live[p])
  BY DEF Replay
<1>2. CopiesSound' /\ RowsTyped' /\ JournalInOutbox' /\ OneAtATime' /\ RowsStay
  BY <1>1 DEF DurableInv, CopiesSound, RowsTyped, JournalInOutbox, OneAtATime, RowsStay
<1>3. BindingsLed'
  BY <1>1 DEF DurableInv, BindingsLed, BindingsResolve, Led
<1>4. AckedKnown'
  <2> SUFFICES ASSUME ~overlapped
               PROVE  /\ acked' \subseteq ReceiptsOf(journal)
                      /\ \A o \in Procs : live[o] # None =>
                           /\ acked' \subseteq ReceiptsOf(live[o])
                           /\ ReceiptsOf(live[o]) \subseteq ReceiptsOf(journal)
    BY <1>1 DEF AckedKnown, ReceiptsOf
  <2>1. ReceiptsOf(live[p]) \subseteq ReceiptsOf(journal)
    BY <1>1 DEF DurableInv, AckedKnown
  <2>2. \A o \in Procs : live[o] # None => o = p
    BY <1>1 DEF DurableInv, OneAtATime
  <2> QED BY <1>1, <2>1, <2>2 DEF DurableInv, AckedKnown
<1> QED BY <1>2, <1>3, <1>4 DEF DurableInv

(* A crash takes a copy away and nothing else.                              *)
LEMMA CrashKeeps ==
  ASSUME DurableInv, NEW p \in Procs, Crash(p)
  PROVE  DurableInv' /\ RowsStay
<1>1. /\ UNCHANGED <<journal, outbox, bindings, snapshots, acked, overlapped>>
      /\ DOMAIN live' = Procs
      /\ \A o \in Procs : live'[o] # None => live'[o] = live[o]
  BY DEF Crash, DurableInv, CopiesSound
<1>2. CopiesSound' /\ RowsTyped' /\ JournalInOutbox' /\ OneAtATime' /\ RowsStay
  BY <1>1 DEF DurableInv, CopiesSound, RowsTyped, JournalInOutbox, OneAtATime, RowsStay
<1>3. BindingsLed'
  BY <1>1 DEF DurableInv, BindingsLed, BindingsResolve, Led
<1>4. AckedKnown'
  BY <1>1 DEF DurableInv, AckedKnown, ReceiptsOf
<1> QED BY <1>2, <1>3, <1>4 DEF DurableInv

(* copy_phase1_snapshot touches the snapshots only.                         *)
LEMMA CopySnapshotKeeps ==
  ASSUME DurableInv, NEW p \in Procs, CopySnapshot(p)
  PROVE  DurableInv' /\ RowsStay
<1>1. /\ UNCHANGED <<live, journal, outbox, bindings, acked, overlapped>>
      /\ DOMAIN snapshots' = SnapshotIds
      /\ \A s \in SnapshotIds : snapshots[s] # None => snapshots'[s] = snapshots[s]
  <2>1. PICK x \in SnapshotIds, t \in Texts :
           snapshots[x] \in {None, t} /\ snapshots' = [snapshots EXCEPT ![x] = t]
    BY DEF CopySnapshot
  <2>2. DOMAIN snapshots = SnapshotIds
    BY DEF DurableInv, RowsTyped
  <2>3. UNCHANGED <<live, journal, outbox, bindings, acked, overlapped>>
    BY DEF CopySnapshot
  <2>4. /\ DOMAIN snapshots' = SnapshotIds
        /\ \A s \in SnapshotIds : snapshots[s] # None => snapshots'[s] = snapshots[s]
    BY <2>1, <2>2
  <2> QED BY <2>3, <2>4
<1>2. CopiesSound' /\ RowsTyped' /\ JournalInOutbox' /\ OneAtATime' /\ RowsStay
  BY <1>1 DEF DurableInv, CopiesSound, RowsTyped, JournalInOutbox, OneAtATime, RowsStay
<1>3. BindingsLed'
  BY <1>1 DEF DurableInv, BindingsLed, BindingsResolve, Led
<1>4. AckedKnown'
  BY <1>1 DEF DurableInv, AckedKnown, ReceiptsOf
<1> QED BY <1>2, <1>3, <1>4 DEF DurableInv

(* A commit that makes another revision active is a revised plane.          *)
LEMMA CommitRevises ==
  ASSUME NEW p, Journaled(p), NEW q \in Commits(p), q.active # p.active
  PROVE  q \in Mutations(p) /\ Revised(p, q)
<1>1. q \in Mutations(p)
  BY DEF Mutations
<1>2. Unrevised(p, q) \/ Revised(p, q)
  BY <1>1, MutationTraced DEF Journaled
<1> QED BY <1>1, <1>2 DEF Unrevised

(* Every step of a process keeps the invariant and the rows.                *)
LEMMA DurableStep ==
  ASSUME DurableInv, [DurableNext]_durableVars
  PROVE  DurableInv' /\ RowsStay
<1>1. CASE UNCHANGED durableVars
  BY <1>1 DEF durableVars, DurableInv, CopiesSound, RowsTyped, JournalInOutbox, OneAtATime,
     AckedKnown, BindingsLed, BindingsResolve, Led, RowsStay, ReceiptsOf
<1>2. CASE DurableNext
  <2>1. PICK p \in Procs : \/ Mutate(p) \/ CommitWithBinding(p) \/ MutateUnpublished(p)
                           \/ Replay(p) \/ Open(p) \/ Crash(p) \/ CopySnapshot(p)
    BY <1>2 DEF DurableNext
  <2>2. live[p] # None => Journaled(live[p])
    BY DEF DurableInv, CopiesSound
  <2>3. CASE Mutate(p)
    <3>1. PICK q \in Mutations(live[p]) :
             /\ Persist(q, None)
             /\ live' = [live EXCEPT ![p] = q]
             /\ acked' = acked \cup (ReceiptsOf(q) \ ReceiptsOf(live[p]))
      BY <2>3 DEF Mutate
    <3>2. live[p] # None /\ UNCHANGED <<snapshots, overlapped>>
      BY <2>3 DEF Mutate
    <3> QED BY <3>1, <3>2, TransactionKeeps
  <2>4. CASE CommitWithBinding(p)
    <3>1. PICK q \in Commits(live[p]), b \in BindingIds :
             /\ q.active # live[p].active
             /\ Persist(q, b)
             /\ live' = [live EXCEPT ![p] = q]
             /\ acked' = acked \cup (ReceiptsOf(q) \ ReceiptsOf(live[p]))
      BY <2>4 DEF CommitWithBinding
    <3>2. live[p] # None /\ UNCHANGED <<snapshots, overlapped>>
      BY <2>4 DEF CommitWithBinding
    <3>3. q \in Mutations(live[p]) /\ Revised(live[p], q)
      BY <2>2, <3>1, <3>2, CommitRevises
    <3> QED BY <3>1, <3>2, <3>3, TransactionKeeps
  <2>5. CASE MutateUnpublished(p)
    <3>1. live[p] # None /\ UNCHANGED <<live, snapshots, acked, overlapped>>
      BY <2>5 DEF MutateUnpublished
    <3>2. CASE \E q \in Mutations(live[p]) : Persist(q, None)
      BY <3>1, <3>2, TransactionKeeps
    <3>3. CASE \E q \in Commits(live[p]), b \in BindingIds :
                 q.active # live[p].active /\ Persist(q, b)
      <4>1. PICK q \in Commits(live[p]), b \in BindingIds :
               q.active # live[p].active /\ Persist(q, b)
        BY <3>3
      <4>2. q \in Mutations(live[p]) /\ Revised(live[p], q)
        BY <2>2, <3>1, <4>1, CommitRevises
      <4> QED BY <3>1, <4>1, <4>2, TransactionKeeps
    <3> QED BY <2>5, <3>2, <3>3 DEF MutateUnpublished
  <2> QED BY <2>1, <2>3, <2>4, <2>5, ReplayKeeps, OpenKeeps, CrashKeeps, CopySnapshotKeeps
<1> QED BY <1>1, <1>2

(* A fresh store.                                                           *)
LEMMA DurableStart ==
  ASSUME DurableInit  PROVE DurableInv
<1>1. /\ live = [p \in Procs |-> None] /\ journal = InitPlane
      /\ bindings = [b \in BindingIds |-> None]
      /\ snapshots = [s \in SnapshotIds |-> None]
      /\ acked = {} /\ overlapped = FALSE
  BY DEF DurableInit
<1>2. InitPlane.events = <<>>
  BY DEF InitPlane
<1>3. EventsApart(InitPlane)
  <2> DEFINE e == InitPlane.events
  <2>1. e = <<>> /\ e \in Seq(Range(e)) /\ DOMAIN e = {}
    BY <1>2
  <2> HIDE DEF e
  <2> QED BY <2>1 DEF EventsApart, e
<1>4. Range(InitPlane.events) = {}
  BY <1>2 DEF Range
<1>5. CopiesSound
  BY <1>1, <1>3, InitSound DEF CopiesSound, Journaled
<1> QED BY <1>1, <1>4, <1>5 DEF DurableInv, RowsTyped, JournalInOutbox, OneAtATime,
     AckedKnown, BindingsLed, BindingsResolve

(* The journal and its copies are sound planes, and while one process at a *)
(* time has the store open they agree on what was answered and bound.      *)
THEOREM DurableControlIsSound == DurableSpec => []DurableInv
<1>1. DurableInit => DurableInv
  BY DurableStart
<1>2. DurableInv /\ [DurableNext]_durableVars => DurableInv'
  BY DurableStep
<1> QED BY <1>1, <1>2, PTL DEF DurableSpec

(* A receipt that was answered is never lost: whatever crashes, failed     *)
(* publications and reloads follow, the journal has it (control/durable.rs,*)
(* persist_internal before the clone is published).                        *)
THEOREM AckedReceiptsKept == DurableSpec => []AckedNeverLostByOne
<1>1. DurableInv => AckedNeverLostByOne
  BY DEF DurableInv, AckedKnown, AckedNeverLostByOne
<1> QED BY <1>1, DurableControlIsSound, PTL

(* The outbox and the memory bindings follow the journal they were stored  *)
(* with (control/durable.rs, insert_outbox and the binding of              *)
(* run_phase3_adapter).                                                    *)
THEOREM StoreFollows == DurableSpec => []StoreFollowsJournal
<1>1. DurableInv => StoreFollowsJournal
  BY DEF DurableInv, BindingsLed, StoreFollowsJournal
<1> QED BY <1>1, DurableControlIsSound, PTL

(* Rows keyed by identity keep their content, also when two processes      *)
(* overlap (control/durable.rs, insert_outbox, the binding and             *)
(* copy_phase1_snapshot).                                                  *)
THEOREM RowsStoredOnce == DurableSpec => StoredOnce
<1>1. DurableInv /\ [DurableNext]_durableVars => [RowsStay]_durableVars
  BY DurableStep
<1>2. DurableSpec => [][RowsStay]_durableVars
  BY <1>1, DurableControlIsSound, PTL DEF DurableSpec
<1> QED BY <1>2, PTL DEF StoredOnce, RowsStay
=============================================================================
