----------------------------- MODULE DemoServer -----------------------------
(***************************************************************************)
(* The loopback demonstration server (demo/routes.rs, demo/state.rs): one  *)
(* request at a time, dispatched by its path to static files, the read     *)
(* API, the control plane with its durable store, the local memory route   *)
(* or the local provider session route, each behind its own token, and     *)
(* every write behind an origin and CSRF proof.                            *)
(***************************************************************************)
EXTENDS ProviderSession

CONSTANTS
  Tokens,           \* bearer tokens, the known ones among them; None: no header
  MaxVersion        \* bound of the model: changes of the control plane, fewer
                    \* than the events its journal retains

ASSUME DemoAssumption ==
  /\ {"editor", "objective", "session", "read"} \subseteq Tokens
  /\ MaxVersion \in Nat

VARIABLES
  control,   \* the changes of the control plane in memory, in order
  disk,      \* those of the one in the durable store
  outbox,    \* the events stored beside it, by sequence number
  author     \* the request that made the last change (history)

vars == <<sessionVars, control, disk, outbox, author>>

-----------------------------------------------------------------------------
(* A request: the area its path leads to, its method, its token, whether a *)
(* write carries the proof of its origin, and whether a GET has a body.    *)

Areas == {"static", "control", "memory", "session", "read", "unknown"}

Requested ==
  [area : Areas, method : {"GET"}, token : Tokens \cup {None}, proved : {FALSE}, body : BOOLEAN]
    \cup [area : Areas, method : {"POST"}, token : Tokens \cup {None}, proved : BOOLEAN,
          body : {TRUE}]

ProvedByToken(r) == r.method = "GET" \/ r.token # None

Proved(r) == r.method = "GET" \/ r.proved

(* Static files, and the projections of the read API, change nothing.      *)
ServeStatic(r) ==
  /\ r.area \in {"static", "unknown"}
  /\ IF r.area = "static" THEN Say("a static file") ELSE Refuse("not_found")
  /\ UNCHANGED <<control, disk, outbox>>

ServeRead(r) ==
  /\ r.area = "read"
  /\ IF r.method = "GET" /\ r.token = "read" THEN Say("a projection")
     ELSE Refuse("refused")
  /\ UNCHANGED <<control, disk, outbox>>

-----------------------------------------------------------------------------
(* The control plane.  mutate_control changes a copy, persists it and only *)
(* then puts it in the place of the control plane in memory.               *)

(* A draft made, its items edited, its objective edited.  Previews and     *)
(* commands record events of their own, as a draft does.                   *)
Changes == {"draft", "items", "objective"}

(* record_event: a saved patch leaves the same event whatever it changed;  *)
(* event ids are counted, and the clock of the fixture stands still.       *)
EventOf(change) == IF change = "draft" THEN "draft_created" ELSE "draft_saved"

Edit(change) == Append(control, change)

(* Mutant: an event that is stored already is not compared.                *)
AgreesUnchecked(candidate) == TRUE

(* insert_outbox: an event stored under its sequence must be the same one. *)
Agrees(candidate) ==
  \A i \in DOMAIN outbox \cap DOMAIN candidate : outbox[i] = EventOf(candidate[i])

(* persist, up to its commit.                                              *)
Persist(candidate) ==
  /\ Agrees(candidate)
  /\ disk' = candidate
  /\ outbox' = [i \in DOMAIN outbox \cup DOMAIN candidate |->
                  IF i \in DOMAIN outbox THEN outbox[i] ELSE EventOf(candidate[i])]

(* Mutant: the control plane is changed before it is persisted.            *)
MutateInPlace(candidate) ==
  \/ control' = candidate /\ Persist(candidate) /\ Say("a receipt")
  \/ control' = candidate /\ UNCHANGED <<disk, outbox>> /\ Refuse("storage")

(* A write that is reported as failed was rolled back, or was committed    *)
(* all the same: the plane in memory then stays behind the store.          *)
Mutate(candidate) ==
  \/ control' = candidate /\ Persist(candidate) /\ Say("a receipt")
  \/ UNCHANGED <<control, disk, outbox>> /\ Refuse("storage")
  \/ UNCHANGED control /\ Persist(candidate) /\ Refuse("storage")

(* An edit of the objective takes the objective token: the control plane   *)
(* refuses it from an editor.                                              *)
EditableByBoth(r, change) == r.token \in {"editor", "objective"}

Editable(r, change) == change = "objective" => r.token = "objective"

ServeControl(r) ==
  /\ r.area = "control"
  /\ IF r.token \notin {"editor", "objective"} \/ ~Proved(r)
       THEN Refuse("forbidden") /\ UNCHANGED <<control, disk, outbox>>
     ELSE IF r.method = "GET"
       THEN Say("the state") /\ UNCHANGED <<control, disk, outbox>>
     ELSE \/ Refuse("rejected") /\ UNCHANGED <<control, disk, outbox>>
          \/ /\ Len(control) < MaxVersion
             /\ \E change \in Changes :
                  IF Editable(r, change) THEN Mutate(Edit(change))
                  ELSE Refuse("forbidden") /\ UNCHANGED <<control, disk, outbox>>

-----------------------------------------------------------------------------
(* The local memory route: the editor token is granted search, the         *)
(* objective token review; neither generates anything here.                *)

SearchPrincipals == {"editor"}
ReviewPrincipals == {"objective"}

Searches == {"capabilities", "status", "retrieval"}

SearchAnyGrant(r, what) == r.token \in SearchPrincipals \cup ReviewPrincipals

Search(r, what) == r.token \in SearchPrincipals

ServeMemory(r) ==
  /\ r.area = "memory"
  /\ IF r.token = None \/ ~Proved(r) THEN Refuse("denied")
     ELSE \/ \E what \in Searches :
               /\ (what = "retrieval") = (r.method = "POST")
               /\ IF Search(r, what) THEN Reply([kind |-> "memory", what |-> what, to |-> r.token]) ELSE Refuse("denied")
          \/ /\ r.method = "POST"
             /\ IF r.token \in ReviewPrincipals THEN Refuse("unsupported") ELSE Refuse("denied")
  /\ UNCHANGED <<control, disk, outbox>>

-----------------------------------------------------------------------------
(* The local provider session route.                                       *)

MaySession(r) == r.token = "session" /\ Proved(r)

ServeSession(r) ==
  /\ r.area = "session"
  /\ IF ~MaySession(r) THEN Refuse("unauthorized")
     ELSE IF r.method = "POST" THEN \E place \in Places, body \in Bodies : Command(place, body)
     ELSE \E run \in Runs, id \in DOMAIN operations \cup DOMAIN bindings :
            IF mode = "disabled" THEN Refuse("unsupported") ELSE Read(run, id)
  /\ UNCHANGED <<control, disk, outbox>>

Serve(r) ==
  IF \/ r.method = "GET" /\ r.body
     \/ r.method # "GET" /\ r.area \in {"static", "unknown"}
    THEN Refuse("not_allowed") /\ UNCHANGED <<control, disk, outbox>>
    ELSE ServeStatic(r) \/ ServeRead(r) \/ ServeControl(r) \/ ServeMemory(r) \/ ServeSession(r)

(* A GET carries no body; only the versioned areas take another method.    *)
Dispatch(r) ==
  /\ Serve(r)
  /\ author' = IF <<control, disk, bindings, operations, idempotency>>'
                  = <<control, disk, bindings, operations, idempotency>> THEN author ELSE r
  /\ UNCHANGED mode

Init ==
  /\ SessionInit
  /\ control = <<>> /\ disk = <<>> /\ outbox = <<>>
  /\ author = None

Next == \E r \in Requested : Dispatch(r)

Spec == Init /\ [][Next]_vars

-----------------------------------------------------------------------------
TypeOK ==
  /\ SessionTypeOK
  /\ author \in Requested \cup {None}
  /\ {control, disk} \subseteq UNION {[1..n -> Changes] : n \in 0..MaxVersion}

(* The local routes are sound: their tables are bounded and refer to each  *)
(* other, no command reaches another run, and no retry or colliding key is *)
(* answered with another command's result.                                 *)
ServerSound == TypeOK /\ TablesBounded /\ OwnRunOnly /\ AnsweredAsPerformed

(* docs/decisions/0013: "The live projection is replaced only after commit *)
(* succeeds."  All that the server shows of the control plane, and every   *)
(* change it gave a receipt for, is in the store, in that order; the store *)
(* is ahead of it by one change at most, one that was reported as failed;  *)
(* and the outbox has the event of every stored change, the first that was *)
(* stored under its number, whatever is tried after such a report.         *)
ShownIsDurable ==
  /\ Len(disk) \in {Len(control), Len(control) + 1}
  /\ \A i \in DOMAIN control : disk[i] = control[i]
  /\ outbox = [i \in DOMAIN disk |-> EventOf(disk[i])]

(* docs/SECURITY.md: no request changes anything without the token of the  *)
(* area it changes and, being a write, the proof of its origin.            *)
SessionChangeProved ==
  <<bindings, operations, idempotency>>' # <<bindings, operations, idempotency>> =>
    author'.token = "session" /\ author'.proved /\ author'.method = "POST"

ControlChangeProved ==
  <<control, disk>>' # <<control, disk>> =>
    author'.token \in {"editor", "objective"} /\ author'.proved /\ author'.method = "POST"

(* The objective is changed by the objective token alone, in the store as  *)
(* in memory.                                                              *)
ObjectiveSeparate ==
  <<control, disk>>' # <<control, disk>> /\ disk'[Len(disk')] = "objective" =>
    author'.token = "objective"

(* docs/MEMORY.md: search and review are granted apart: no answer of the   *)
(* memory route goes to a principal that was granted review alone.         *)
SearchGranted == reply'.kind = "memory" => reply'.to \in SearchPrincipals

(* Every step of the server is one its caller was entitled to: what it     *)
(* changes and what it answers take the token and the proof of its area.   *)
StepsAreProved ==
  [][SessionChangeProved /\ ControlChangeProved /\ ObjectiveSeparate /\ SearchGranted]_vars
=============================================================================
