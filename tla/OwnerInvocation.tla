--------------------------- MODULE OwnerInvocation ---------------------------
(***************************************************************************)
(* The owner invocation journal (owner_invocation_store), the operator     *)
(* route that drives it (owner_operator/routes.rs) and the transport that  *)
(* sends its writes and lookups (harness_owner_transport), against an      *)
(* external Harness owner that may act late, refuse, or answer unreadably. *)
(*                                                                         *)
(* A handler is one operator process serving one request at a time.  The   *)
(* process lock allows one; a second one stands for a lock file that was   *)
(* replaced under a running process, which notices at its next check.      *)
(*                                                                         *)
(* Abstractions.  A key is a stable locator (principal, scope, family and  *)
(* idempotency key), a call is everything same_call and admission_matches  *)
(* compare.  Admissions, grants, bearers and the deadline are sampled many *)
(* times per request and may lapse at any of them, so those checks fail    *)
(* nondeterministically.  A transaction that fails is no step of its own.  *)
(* No code enters EntryState::DefinitelyNotSent, so it is left out.        *)
(***************************************************************************)
EXTENDS Naturals, Sequences, FiniteSets

CONSTANTS
  None,
  Handlers,     \* operator processes
  Keys,         \* stable operation keys
  LookupKeys,   \* those of a family with an exact receipt lookup
  Calls,        \* typed calls a caller may submit under a key
  Results,      \* what the owner may make of a call
  MaxRows,      \* MAX_ROWS
  MaxAttempts   \* MAX_ATTEMPTS

ASSUME OwnerInvocationAssumption ==
  /\ LookupKeys \subseteq Keys
  /\ None \notin [call : Calls, result : Results]
  /\ MaxRows \in Nat /\ MaxAttempts \in Nat

VARIABLES
  rows,     \* the journal: one record per key, durable
  jobs,     \* the request each handler is working on, volatile
  wire,     \* requests sent to the owner and not yet handled by it
  applied,  \* what the owner did for each key, in order
  told      \* the answers callers were given (history)

vars == <<rows, jobs, wire, applied, told>>

Receipts == [call : Calls, result : Results]

States == {"Absent", "Prepared", "WriteClaimed", "LookupClaimed", "Unknown", "Completed"}
Uses == {"write", "lookup", "cached"}
Phases == {"idle", "received", "reserved", "claimed", "awaiting", "answered"}

(* InvocationRecord.                                                       *)
Rows ==
  [ state : States, sequence : Nat, call : Calls \cup {None},
    attempts : Seq({"write", "lookup"}), response : Receipts \cup {None} ]

NoReply == [status |-> "none", receipt |-> None]
Replies == [status : {"none", "ok", "missing", "failed"}, receipt : Receipts \cup {None}]

(* A request and, once claimed, its one-use permit: the sequence.          *)
Jobs ==
  [ phase : Phases, key : Keys \cup {None}, call : Calls \cup {None},
    use : Uses \cup {None}, sequence : Nat, reply : Replies ]

Messages == [use : {"write", "lookup"}, key : Keys, call : Calls, sequence : Nat]

NoRow == [state |-> "Absent", sequence |-> 0, call |-> None, attempts |-> <<>>,
          response |-> None]

Idle == [phase |-> "idle", key |-> None, call |-> None, use |-> None, sequence |-> 0,
         reply |-> NoReply]

Init ==
  /\ rows = [k \in Keys |-> NoRow]
  /\ jobs = [h \in Handlers |-> Idle]
  /\ wire = {}
  /\ applied = [k \in Keys |-> <<>>]
  /\ told = {}

-----------------------------------------------------------------------------
(* The journal's own rules.                                                *)

(* Mutant: an unknown write may be claimed, and so sent, again.            *)
TransitionsWithRetry ==
  {<<"Prepared", "WriteClaimed">>, <<"WriteClaimed", "Completed">>,
   <<"WriteClaimed", "Unknown">>, <<"WriteClaimed", "LookupClaimed">>,
   <<"Unknown", "LookupClaimed">>, <<"LookupClaimed", "LookupClaimed">>,
   <<"LookupClaimed", "Completed">>, <<"LookupClaimed", "Unknown">>,
   <<"Unknown", "WriteClaimed">>}

(* The table of advance; claim_send and claim_exact_lookup accept exactly  *)
(* the states that have an entry to the one they claim.                    *)
Transitions ==
  {<<"Prepared", "WriteClaimed">>, <<"WriteClaimed", "Completed">>,
   <<"WriteClaimed", "Unknown">>, <<"WriteClaimed", "LookupClaimed">>,
   <<"Unknown", "LookupClaimed">>, <<"LookupClaimed", "LookupClaimed">>,
   <<"LookupClaimed", "Completed">>, <<"LookupClaimed", "Unknown">>}

CanAdvance(row, next) == <<row.state, next>> \in Transitions

Advance(row, next) == [row EXCEPT !.state = next, !.sequence = @ + 1]

(* Mutant: a key is resolved by its blind index alone.                     *)
AnyCall(row, call) == TRUE

(* check_exact_match *)
SameCall(row, call) == row.call = call

(* push_attempt *)
AttemptLeft(row) == Len(row.attempts) < MaxAttempts

PushAttempt(row, kind) == [row EXCEPT !.attempts = Append(@, kind)]

ClaimState(use) == IF use = "write" THEN "WriteClaimed" ELSE "LookupClaimed"

(* Mutant: the sequence of the permit is not compared.                     *)
PermitHoldsAnySequence(row, job) == row.state = ClaimState(job.use)

(* The permit of a job is still the claim the row records.                 *)
PermitHolds(row, job) ==
  /\ row.sequence = job.sequence
  /\ row.state = ClaimState(job.use)

(* The row with its response, in one update.                               *)
Settle(row, receipt) == [Advance(row, "Completed") EXCEPT !.response = receipt]

LastAttemptIs(row, kind) == row.attempts # <<>> /\ row.attempts[Len(row.attempts)] = kind

(* validate_record: state, attempts, sequence and response of a row agree. *)
ValidRecord(row) ==
  /\ row.sequence # 0 /\ Len(row.attempts) <= MaxAttempts
  /\ row.state = "Prepared" => row.attempts = <<>>
  /\ row.state = "WriteClaimed" => LastAttemptIs(row, "write")
  /\ row.state = "LookupClaimed" => LastAttemptIs(row, "lookup")
  /\ row.state \in {"Unknown", "Completed"} => row.attempts # <<>>
  /\ (row.state = "Completed") <=> (row.response # None)

RowCount == Cardinality({k \in Keys : rows[k].state # "Absent"})

-----------------------------------------------------------------------------
(* The handler.                                                            *)

At(job, phase) == [job EXCEPT !.phase = phase]
WithPermit(job, sequence) == [job EXCEPT !.sequence = sequence]
WithReply(job, reply) == [job EXCEPT !.reply = reply]

(* serve_request up to a successful admission.                             *)
Receive(h) ==
  /\ jobs[h].phase = "idle"
  /\ \E k \in Keys, c \in Calls, use \in Uses :
       jobs' = [jobs EXCEPT ![h] = [phase |-> "received", key |-> k, call |-> c,
                                    use |-> use, sequence |-> 0, reply |-> NoReply]]
  /\ UNCHANGED <<rows, wire, applied, told>>

(* reserve of a key without a row: only a write makes one.                 *)
ReserveNew(h) ==
  LET j == jobs[h]
  IN  /\ j.phase = "received" /\ j.use = "write"
      /\ rows[j.key].state = "Absent"
      /\ RowCount < MaxRows
      /\ rows' = [rows EXCEPT ![j.key] =
                    [state |-> "Prepared", sequence |-> 1, call |-> j.call,
                     attempts |-> <<>>, response |-> None]]
      /\ jobs' = [jobs EXCEPT ![h] = At(j, "reserved")]
      /\ UNCHANGED <<wire, applied, told>>

(* reserve of a row: a write only while it is Prepared, a lookup only of   *)
(* a claimed or unknown write of a family that has one.                    *)
ReserveAgain(h) ==
  LET j   == jobs[h]
      row == rows[j.key]
  IN  /\ j.phase = "received"
      /\ SameCall(row, j.call)
      /\ \/ j.use = "write" /\ row.state = "Prepared"
         \/ /\ j.use = "lookup" /\ j.key \in LookupKeys
            /\ row.state \in {"WriteClaimed", "LookupClaimed", "Unknown"}
      /\ jobs' = [jobs EXCEPT ![h] = At(j, "reserved")]
      /\ UNCHANGED <<rows, wire, applied, told>>

(* reserve of a completed row, by the cached-result route only.            *)
ReadCached(h) ==
  LET j   == jobs[h]
      row == rows[j.key]
  IN  /\ j.phase = "received" /\ j.use = "cached"
      /\ row.state = "Completed" /\ SameCall(row, j.call)
      /\ jobs' = [jobs EXCEPT ![h] =
                    WithReply(At(j, "answered"), [status |-> "ok", receipt |-> row.response])]
      /\ UNCHANGED <<rows, wire, applied, told>>

(* claim_send and claim_exact_lookup: the claim is durable before the      *)
(* permit exists.                                                          *)
Claim(h) ==
  LET j    == jobs[h]
      row  == rows[j.key]
      next == ClaimState(j.use)
  IN  /\ j.phase = "reserved"
      /\ SameCall(row, j.call)
      /\ CanAdvance(row, next)
      /\ AttemptLeft(row)
      /\ rows' = [rows EXCEPT ![j.key] = Advance(PushAttempt(row, j.use), next)]
      /\ jobs' = [jobs EXCEPT ![h] = WithPermit(At(j, "claimed"), row.sequence + 1)]
      /\ UNCHANGED <<wire, applied, told>>

(* exchange_with_authorization once it is connected: the stored body of    *)
(* the call goes out, or a lookup of it.                                   *)
Send(h) ==
  LET j == jobs[h]
  IN  /\ j.phase = "claimed"
      /\ wire' = wire \cup {[use |-> j.use, key |-> j.key, call |-> rows[j.key].call,
                             sequence |-> j.sequence]}
      /\ jobs' = [jobs EXCEPT ![h] = At(j, "awaiting")]
      /\ UNCHANGED <<rows, applied, told>>

(* Mutant: the exchange waits for its reply without a deadline.            *)
GiveUpOnReplyOnly(h) ==
  LET j   == jobs[h]
      row == rows[j.key]
  IN  /\ j.phase = "awaiting" /\ j.reply.status # "none"
      /\ rows' = IF PermitHolds(row, j)
                 THEN [rows EXCEPT ![j.key] = Advance(row, "Unknown")] ELSE rows
      /\ jobs' = [jobs EXCEPT ![h] = Idle]
      /\ UNCHANGED <<wire, applied, told>>

(* mark_send_unknown and mark_lookup_unknown: a check, the connection, the *)
(* deadline, the status or the decoding failed after the claim, whether or *)
(* not the request went out.  A permit that is no longer the newest claim  *)
(* changes nothing.                                                        *)
GiveUp(h) ==
  LET j   == jobs[h]
      row == rows[j.key]
  IN  /\ j.phase \in {"claimed", "awaiting"}
      /\ rows' = IF PermitHolds(row, j)
                 THEN [rows EXCEPT ![j.key] = Advance(row, "Unknown")] ELSE rows
      /\ jobs' = [jobs EXCEPT ![h] = Idle]
      /\ UNCHANGED <<wire, applied, told>>

(* complete_send, and complete_lookup with a receipt: the response is      *)
(* durable before it can be disclosed.                                     *)
Complete(h) ==
  LET j   == jobs[h]
      row == rows[j.key]
  IN  /\ j.phase = "awaiting" /\ j.reply.status = "ok"
      /\ PermitHolds(row, j)
      /\ rows' = [rows EXCEPT ![j.key] = Settle(row, j.reply.receipt)]
      /\ jobs' = [jobs EXCEPT ![h] = At(j, "answered")]
      /\ UNCHANGED <<wire, applied, told>>

(* Mutant: a lookup that finds nothing settles the row.                    *)
MissingIsCompleted == "Completed"

(* The state a lookup without a receipt leaves.                            *)
MissingReceiptState == "Unknown"

(* complete_lookup without a receipt; the pinned 404 of a control lookup   *)
(* has the same effect through mark_lookup_unknown.                        *)
FindNothing(h) ==
  LET j   == jobs[h]
      row == rows[j.key]
  IN  /\ j.phase = "awaiting" /\ j.use = "lookup" /\ j.reply.status = "missing"
      /\ PermitHolds(row, j)
      /\ rows' = [rows EXCEPT ![j.key] = Advance(row, MissingReceiptState)]
      /\ jobs' = [jobs EXCEPT ![h] = Idle]
      /\ UNCHANGED <<wire, applied, told>>

(* The final currentness checks passed and the response is written.        *)
Disclose(h) ==
  LET j == jobs[h]
  IN  /\ j.phase = "answered"
      /\ told' = told \cup {[key |-> j.key, call |-> j.call, receipt |-> j.reply.receipt]}
      /\ jobs' = [jobs EXCEPT ![h] = Idle]
      /\ UNCHANGED <<rows, wire, applied>>

(* A request that is refused before it holds a permit, or whose authority  *)
(* lapsed before its answer was disclosed: nothing is stored.              *)
Refuse(h) ==
  /\ jobs[h].phase \in {"received", "reserved", "answered"}
  /\ jobs' = [jobs EXCEPT ![h] = Idle]
  /\ UNCHANGED <<rows, wire, applied, told>>

(* The process dies, or the transaction that would mark its claim fails:   *)
(* the permit is gone and the row stays as claimed.                        *)
Crash(h) ==
  /\ jobs[h].phase # "idle"
  /\ jobs' = [jobs EXCEPT ![h] = Idle]
  /\ UNCHANGED <<rows, wire, applied, told>>

-----------------------------------------------------------------------------
(* The Harness owner and the connection to it.  It handles a request at    *)
(* any time after it was sent, however long its sender has given up, or    *)
(* never.  A reply reaches the handler only while it still awaits it.      *)

Waiting(h, m) ==
  jobs[h].phase = "awaiting" /\ jobs[h].key = m.key /\ jobs[h].sequence = m.sequence

Replied(m, reply) ==
  jobs' = [h \in Handlers |->
             IF Waiting(h, m) THEN WithReply(jobs[h], reply) ELSE jobs[h]]

(* The owner performs a write; it is not assumed to recognise a second     *)
(* one.  Its reply may be unreadable.                                      *)
OwnerPerforms(m) ==
  /\ m.use = "write"
  /\ \E result \in Results, readable \in BOOLEAN :
       LET receipt == [call |-> m.call, result |-> result]
       IN  /\ applied' = [applied EXCEPT ![m.key] = Append(@, receipt)]
           /\ Replied(m, IF readable THEN [status |-> "ok", receipt |-> receipt]
                         ELSE [status |-> "failed", receipt |-> None])
  /\ wire' = wire \ {m}
  /\ UNCHANGED <<rows, told>>

(* The owner turns a request down with an error status.                    *)
OwnerRefuses(m) ==
  /\ Replied(m, [status |-> "failed", receipt |-> None])
  /\ wire' = wire \ {m}
  /\ UNCHANGED <<rows, applied, told>>

(* The owner looks up the exact receipt of the call.                       *)
OwnerLooksUp(m) ==
  /\ m.use = "lookup"
  /\ Replied(m, IF applied[m.key] = <<>>
                THEN [status |-> "missing", receipt |-> None]
                ELSE [status |-> "ok", receipt |-> applied[m.key][1]])
  /\ wire' = wire \ {m}
  /\ UNCHANGED <<rows, applied, told>>

-----------------------------------------------------------------------------
(* One step of a request that was admitted.                                *)
Step(h) ==
  \/ ReserveNew(h) \/ ReserveAgain(h) \/ ReadCached(h) \/ Claim(h) \/ Send(h)
  \/ GiveUp(h) \/ Complete(h) \/ FindNothing(h) \/ Disclose(h) \/ Refuse(h)

Owner == \E m \in wire : OwnerPerforms(m) \/ OwnerRefuses(m) \/ OwnerLooksUp(m)

Next == \/ \E h \in Handlers : Receive(h) \/ Step(h) \/ Crash(h)
        \/ Owner

(* Every blocking call of a handler has a deadline, so a handler that runs *)
(* takes its next step.  Nothing is assumed of callers or of the owner.    *)
Fairness == \A h \in Handlers : WF_vars(Step(h))

Spec == Init /\ [][Next]_vars /\ Fairness

-----------------------------------------------------------------------------
(* The journal, the jobs and the wire have their types, and no row holds   *)
(* more than MAX_ATTEMPTS attempts.                                        *)
TypeOK ==
  /\ rows \in [Keys -> Rows]
  /\ \A k \in Keys : Len(rows[k].attempts) <= MaxAttempts
  /\ jobs \in [Handlers -> Jobs]
  /\ wire \subseteq Messages
  /\ applied \in [Keys -> Seq(Receipts)]
  /\ told \subseteq [key : Keys, call : Calls, receipt : Receipts]

(* The owner performs the call of a key at most once, whatever is retried, *)
(* crashes, arrives late or runs in a second process, although the owner   *)
(* itself would perform it again: claim_send hands out one permit per row. *)
AtMostOnce == \A k \in Keys : Len(applied[k]) <= 1

(* Whatever a caller is told and whatever the journal keeps as completed   *)
(* is the owner's own receipt for exactly the call the caller submitted.   *)
TruthfulAnswers ==
  /\ \A t \in told : applied[t.key] # <<>> /\ t.receipt = applied[t.key][1]
                       /\ t.receipt.call = t.call
  /\ \A k \in Keys : rows[k].state = "Completed" =>
       applied[k] # <<>> /\ rows[k].response = applied[k][1]

(* Every row is one that open accepts after a restart: a write, a lookup,  *)
(* a failure or a completion never leaves a record that validate_record    *)
(* rejects, which would make the whole journal unusable.                   *)
RecordsValid == \A k \in Keys : rows[k].state # "Absent" => ValidRecord(rows[k])

(* A claim is settled only through its own permit: a handler that was      *)
(* overtaken by a newer claim cannot complete it or mark it unknown.       *)
SettledByHolder ==
  [][\A k \in Keys :
       (/\ rows[k].state \in {"WriteClaimed", "LookupClaimed"}
        /\ rows'[k].state \in {"Unknown", "Completed"})
       => \E h \in Handlers : /\ jobs[h].key = k
                              /\ jobs[h].sequence = rows[k].sequence
                              /\ jobs'[h].phase \in {"idle", "answered"}]_vars

(* A completed row never changes again: no late permit, stale reservation  *)
(* or lookup reopens it, so the cached result stays available.             *)
CompletedIsFinal ==
  [][\A k \in Keys : rows[k].state = "Completed" => rows'[k] = rows[k]]_vars

(* A request ends, even if the owner never answers.                        *)
EveryRequestEnds ==
  \A h \in Handlers : jobs[h].phase # "idle" ~> jobs[h].phase = "idle"

(* Every performance by the owner and every answer to a caller, by key.    *)
Promise == INSTANCE AtMostOnceCall WITH
  Keys    <- Keys,
  Calls   <- Calls,
  Results <- Results,
  applied <- applied,
  told    <- told

(* The journal implements the at-most-once call it promises.               *)
ImplementsAtMostOnce == Promise!Spec
=============================================================================
