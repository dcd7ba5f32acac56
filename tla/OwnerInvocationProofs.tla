------------------------ MODULE OwnerInvocationProofs ------------------------
(***************************************************************************)
(* Proofs about OwnerInvocation, for any number of handlers, keys, calls   *)
(* and results.  JournalInv is the inductive strengthening: the one write  *)
(* of a key is, at any time, an unused permit, a message on the wire or a  *)
(* performance by the owner, and never two of these.                       *)
(***************************************************************************)
EXTENDS OwnerInvocation, TLAPS

(* A handler holds the send permit of k and has not used it.               *)
Permit(h, k) ==
  jobs[h].phase = "claimed" /\ jobs[h].use = "write" /\ jobs[h].key = k

WriteOnWire(m, k) == m \in wire /\ m.use = "write" /\ m.key = k

(* A request is well formed, and past its claim it belongs to a row that   *)
(* was claimed for the same call.                                          *)
JobOK(j) ==
  /\ j.phase # "idle" => j.key \in Keys /\ j.call \in Calls /\ j.use \in Uses
  /\ j.phase \in {"reserved", "claimed", "awaiting"} => j.use \in {"write", "lookup"}
  /\ j.phase \in {"claimed", "awaiting", "answered"} =>
       /\ rows[j.key].state \notin {"Absent", "Prepared"}
       /\ rows[j.key].call = j.call

JobsInv == \A h \in Handlers : JobOK(jobs[h])

RowsInv ==
  \A k \in Keys : rows[k].state # "Absent" => rows[k].call \in Calls

(* Before its claim a key has no write anywhere; afterwards at most one.   *)
OnceInv ==
  \A k \in Keys :
    /\ rows[k].state \in {"Absent", "Prepared"} =>
         /\ applied[k] = <<>>
         /\ \A h \in Handlers : ~Permit(h, k)
         /\ \A m \in wire : ~WriteOnWire(m, k)
    /\ \A h \in Handlers : Permit(h, k) =>
         /\ applied[k] = <<>>
         /\ \A g \in Handlers : Permit(g, k) => g = h
         /\ \A m \in wire : ~WriteOnWire(m, k)
    /\ \A m \in wire : WriteOnWire(m, k) =>
         /\ applied[k] = <<>>
         /\ m.call = rows[k].call
         /\ \A n \in wire : WriteOnWire(n, k) => n = m
    /\ Len(applied[k]) <= 1
    /\ applied[k] # <<>> => applied[k][1].call = rows[k].call

(* A readable reply is the owner's receipt.                                *)
ReplyOK(j) ==
  /\ j.phase = "answered" => j.reply.status = "ok"
  /\ j.phase # "idle" /\ j.reply.status = "ok" =>
       applied[j.key] # <<>> /\ j.reply.receipt = applied[j.key][1]

ReplyInv == \A h \in Handlers : ReplyOK(jobs[h])

JournalInv == JobsInv /\ RowsInv /\ OnceInv /\ ReplyInv /\ TruthfulAnswers

-----------------------------------------------------------------------------
(* What the updates of a request leave, field by field.                    *)
LEMMA AtFields ==
  ASSUME NEW j \in Jobs, NEW p \in Phases
  PROVE  /\ At(j, p) \in Jobs
         /\ At(j, p).phase = p
         /\ At(j, p).key = j.key /\ At(j, p).call = j.call /\ At(j, p).use = j.use
         /\ At(j, p).sequence = j.sequence /\ At(j, p).reply = j.reply
  BY DEF Jobs, At

(* claim_send: the permit of a request, the rest of it unchanged.           *)
LEMMA PermitFields ==
  ASSUME NEW j \in Jobs, NEW s \in Nat
  PROVE  /\ WithPermit(j, s) \in Jobs
         /\ WithPermit(j, s).phase = j.phase /\ WithPermit(j, s).key = j.key
         /\ WithPermit(j, s).call = j.call /\ WithPermit(j, s).use = j.use
         /\ WithPermit(j, s).sequence = s /\ WithPermit(j, s).reply = j.reply
  BY DEF Jobs, WithPermit

(* read_response: the reply of a request, the rest of it unchanged.         *)
LEMMA ReplyFields ==
  ASSUME NEW j \in Jobs, NEW r \in Replies
  PROVE  /\ WithReply(j, r) \in Jobs
         /\ WithReply(j, r).phase = j.phase /\ WithReply(j, r).key = j.key
         /\ WithReply(j, r).call = j.call /\ WithReply(j, r).use = j.use
         /\ WithReply(j, r).sequence = j.sequence /\ WithReply(j, r).reply = r
  BY DEF Jobs, WithReply

(* What the updates of a row leave, field by field.                        *)
LEMMA AdvanceFields ==
  ASSUME NEW row \in Rows, NEW s \in States
  PROVE  /\ Advance(row, s) \in Rows
         /\ Advance(row, s).state = s /\ Advance(row, s).sequence = row.sequence + 1
         /\ Advance(row, s).call = row.call /\ Advance(row, s).attempts = row.attempts
         /\ Advance(row, s).response = row.response
<1> DEFINE mid == [row EXCEPT !.state = s]
<1>1. /\ mid \in Rows /\ mid.state = s /\ mid.sequence = row.sequence
      /\ mid.call = row.call /\ mid.attempts = row.attempts /\ mid.response = row.response
  BY DEF Rows
<1>2. Advance(row, s) = [mid EXCEPT !.sequence = row.sequence + 1]
  BY DEF Advance
<1>3. row.sequence + 1 \in Nat
  BY DEF Rows
<1> HIDE DEF mid
<1> QED BY <1>1, <1>2, <1>3 DEF Rows

(* push_attempt: one more attempt, within the limit.                        *)
LEMMA PushFields ==
  ASSUME NEW row \in Rows, NEW kind \in {"write", "lookup"}
  PROVE  /\ PushAttempt(row, kind) \in Rows
         /\ PushAttempt(row, kind).state = row.state
         /\ PushAttempt(row, kind).sequence = row.sequence
         /\ PushAttempt(row, kind).call = row.call
         /\ PushAttempt(row, kind).response = row.response
         /\ PushAttempt(row, kind).attempts = Append(row.attempts, kind)
<1>1. row.attempts \in Seq({"write", "lookup"})
  BY DEF Rows
<1>2. Append(row.attempts, kind) \in Seq({"write", "lookup"})
  BY <1>1
<1> QED BY <1>2 DEF Rows, PushAttempt

(* complete_send and complete_lookup: state, sequence and response at once.  *)
LEMMA SettleFields ==
  ASSUME NEW row \in Rows, NEW r \in Receipts
  PROVE  /\ Settle(row, r) \in Rows
         /\ Settle(row, r).state = "Completed" /\ Settle(row, r).call = row.call
         /\ Settle(row, r).sequence = row.sequence + 1
         /\ Settle(row, r).attempts = row.attempts /\ Settle(row, r).response = r
<1> DEFINE mid == Advance(row, "Completed")
<1>1. /\ mid \in Rows /\ mid.state = "Completed" /\ mid.sequence = row.sequence + 1
      /\ mid.call = row.call /\ mid.attempts = row.attempts
  BY AdvanceFields DEF States
<1>2. Settle(row, r) = [mid EXCEPT !.response = r]
  BY DEF Settle
<1> HIDE DEF mid
<1> QED BY <1>1, <1>2 DEF Rows

(* Constants of the state space have their types.                          *)
LEMMA RestingTypes ==
  /\ Idle \in Jobs /\ Idle.phase = "idle"
  /\ NoRow \in Rows /\ NoRow.state = "Absent" /\ NoRow.attempts = <<>>
  BY DEF Idle, NoRow, NoReply, Jobs, Rows, Replies, Phases, States

-----------------------------------------------------------------------------
(* A step that changes one request only, and not into an unused permit,    *)
(* preserves the invariant if the new request is sound.                    *)
LEMMA JobOnly ==
  ASSUME TypeOK, JournalInv, NEW h \in Handlers, NEW nj \in Jobs,
         JobOK(nj), ReplyOK(nj), nj.phase # "claimed",
         jobs' = [jobs EXCEPT ![h] = nj], UNCHANGED <<rows, wire, applied, told>>
  PROVE  TypeOK' /\ JournalInv'
<1>1. /\ jobs'[h] = nj /\ \A g \in Handlers \ {h} : jobs'[g] = jobs[g]
      /\ \A g \in Handlers, k \in Keys : Permit(g, k)' => Permit(g, k)
  BY DEF TypeOK, Permit
<1>2. TypeOK'
  BY DEF TypeOK
<1>3. JobsInv'
  BY <1>1 DEF JournalInv, JobsInv, JobOK
<1>4. RowsInv' /\ TruthfulAnswers'
  BY DEF JournalInv, RowsInv, TruthfulAnswers
<1>5. OnceInv'
  BY <1>1 DEF JournalInv, OnceInv, WriteOnWire
<1>6. ReplyInv'
  BY <1>1 DEF JournalInv, ReplyInv, ReplyOK
<1> QED BY <1>2, <1>3, <1>4, <1>5, <1>6 DEF JournalInv

(* Admission, a repeated reservation, a cached read, a refusal and a crash *)
(* change a request only.                                                  *)
LEMMA RequestSteps ==
  ASSUME TypeOK, JournalInv, NEW h \in Handlers,
         Receive(h) \/ ReserveAgain(h) \/ ReadCached(h) \/ Refuse(h) \/ Crash(h)
  PROVE  TypeOK' /\ JournalInv'
<1> DEFINE j == jobs[h]
<1>1. j \in Jobs /\ JobOK(j) /\ ReplyOK(j) /\ rows \in [Keys -> Rows]
  BY DEF TypeOK, JournalInv, JobsInv, ReplyInv
<1>2. CASE Receive(h)
  <2>1. PICK k \in Keys, c \in Calls, use \in Uses :
          jobs' = [jobs EXCEPT ![h] = [phase |-> "received", key |-> k, call |-> c,
                                       use |-> use, sequence |-> 0, reply |-> NoReply]]
    BY <1>2 DEF Receive
  <2> DEFINE nj == [phase |-> "received", key |-> k, call |-> c,
                    use |-> use, sequence |-> 0, reply |-> NoReply]
  <2>2. nj \in Jobs /\ nj.phase = "received" /\ JobOK(nj) /\ ReplyOK(nj)
    BY DEF Jobs, Phases, Uses, Replies, NoReply, JobOK, ReplyOK
  <2> HIDE DEF nj
  <2>3. jobs' = [jobs EXCEPT ![h] = nj] /\ UNCHANGED <<rows, wire, applied, told>>
    BY <1>2, <2>1 DEF Receive, nj
  <2> QED BY <2>2, <2>3, JobOnly
<1>3. CASE ReserveAgain(h)
  <2>1. At(j, "reserved") \in Jobs
        /\ JobOK(At(j, "reserved")) /\ ReplyOK(At(j, "reserved"))
        /\ At(j, "reserved").phase = "reserved"
    BY <1>1, <1>3, AtFields DEF ReserveAgain, Phases, JobOK, ReplyOK
  <2> QED BY <1>3, <2>1, JobOnly DEF ReserveAgain
<1>4. CASE ReadCached(h)
  <2> DEFINE reply == [status |-> "ok", receipt |-> rows[j.key].response]
             nj == WithReply(At(j, "answered"), reply)
  <2>1. j.phase = "received" /\ j.key \in Keys /\ rows[j.key].state = "Completed"
        /\ rows[j.key].call = j.call
    BY <1>1, <1>4 DEF ReadCached, JobOK, SameCall
  <2>2. rows[j.key].response \in Receipts \cup {None}
    BY <1>1, <2>1 DEF Rows
  <2>3. reply \in Replies
    BY <2>2 DEF Replies
  <2>4. applied[j.key] # <<>> /\ reply.receipt = applied[j.key][1] /\ reply.status = "ok"
    BY <2>1 DEF JournalInv, TruthfulAnswers
  <2> HIDE DEF reply
  <2>5. /\ nj \in Jobs /\ nj.phase = "answered" /\ nj.key = j.key /\ nj.call = j.call
        /\ nj.use = j.use /\ nj.reply = reply
    BY <1>1, <2>3, AtFields, ReplyFields DEF Phases
  <2>6. jobs' = [jobs EXCEPT ![h] = nj] /\ UNCHANGED <<rows, wire, applied, told>>
    BY <1>4 DEF ReadCached, reply
  <2> HIDE DEF nj
  <2>7. JobOK(nj) /\ ReplyOK(nj)
    BY <1>1, <2>1, <2>4, <2>5 DEF JobOK, ReplyOK
  <2> QED BY <2>5, <2>6, <2>7, JobOnly
<1>5. CASE Refuse(h) \/ Crash(h)
  <2>1. JobOK(Idle) /\ ReplyOK(Idle) /\ Idle \in Jobs /\ Idle.phase = "idle"
    BY RestingTypes DEF JobOK, ReplyOK
  <2> QED BY <1>5, <2>1, JobOnly DEF Refuse, Crash
<1> QED BY <1>2, <1>3, <1>4, <1>5

(* reserve of a new key: the row appears where nothing was sent.           *)
LEMMA ReserveNewStep ==
  ASSUME TypeOK, JournalInv, NEW h \in Handlers, ReserveNew(h)
  PROVE  TypeOK' /\ JournalInv'
<1> DEFINE j == jobs[h]
           k == jobs[h].key
           nr == [state |-> "Prepared", sequence |-> 1, call |-> j.call,
                  attempts |-> <<>>, response |-> None]
           nj == At(j, "reserved")
<1>1. /\ j \in Jobs /\ JobOK(j) /\ ReplyOK(j) /\ rows \in [Keys -> Rows]
      /\ j.phase = "received" /\ j.use = "write" /\ rows[k].state = "Absent"
  BY DEF TypeOK, JournalInv, JobsInv, ReplyInv, ReserveNew
<1>2. k \in Keys /\ j.call \in Calls
  BY <1>1 DEF JobOK
<1>3. /\ nr \in Rows /\ nr.state = "Prepared" /\ nr.call = j.call
      /\ Len(nr.attempts) <= MaxAttempts
  BY <1>2, OwnerInvocationAssumption DEF Rows, States
<1>4. /\ nj \in Jobs /\ nj.phase = "reserved" /\ nj.key = k /\ nj.call = j.call
      /\ nj.use = "write" /\ nj.reply = j.reply
  BY <1>1, AtFields DEF Phases
<1>5. /\ rows' = [rows EXCEPT ![k] = nr] /\ jobs' = [jobs EXCEPT ![h] = nj]
      /\ UNCHANGED <<wire, applied, told>>
  BY DEF ReserveNew
<1> HIDE DEF nr, nj
<1>6. /\ jobs'[h] = nj /\ \A g \in Handlers \ {h} : jobs'[g] = jobs[g]
      /\ rows'[k] = nr /\ \A i \in Keys \ {k} : rows'[i] = rows[i]
      /\ \A g \in Handlers, i \in Keys : Permit(g, i)' => Permit(g, i)
  BY <1>2, <1>4, <1>5 DEF TypeOK, Permit
<1>7. TypeOK'
  BY <1>2, <1>3, <1>4, <1>5, <1>6 DEF TypeOK
<1>8. JobsInv'
  <2>1. JobOK(jobs[h])'
    BY <1>2, <1>4, <1>6 DEF JobOK, Uses
  <2>2. ASSUME NEW g \in Handlers \ {h}  PROVE JobOK(jobs[g])'
    <3>1. JobOK(jobs[g]) /\ jobs'[g] = jobs[g]
      BY <1>6 DEF JournalInv, JobsInv
    <3>2. jobs[g].phase \in {"claimed", "awaiting", "answered"} =>
            jobs[g].key \in Keys \ {k}
      BY <1>1, <3>1 DEF JobOK
    <3> QED BY <1>6, <3>1, <3>2 DEF JobOK
  <2> QED BY <1>6, <2>1, <2>2 DEF JobsInv
<1>9. RowsInv'
  BY <1>2, <1>3, <1>6 DEF JournalInv, RowsInv
<1>10. OnceInv'
  <2>1. applied[k] = <<>> /\ (\A g \in Handlers : ~Permit(g, k))
        /\ \A m \in wire : ~WriteOnWire(m, k)
    BY <1>1, <1>2 DEF JournalInv, OnceInv
  <2> QED BY <1>3, <1>5, <1>6, <2>1 DEF JournalInv, OnceInv, WriteOnWire
<1>11. ReplyInv'
  BY <1>1, <1>4, <1>5, <1>6 DEF JournalInv, ReplyInv, ReplyOK
<1>12. TruthfulAnswers'
  BY <1>3, <1>5, <1>6 DEF JournalInv, TruthfulAnswers
<1> QED BY <1>7, <1>8, <1>9, <1>10, <1>11, <1>12 DEF JournalInv

(* A step that settles a claimed row, or leaves it, and ends or answers    *)
(* the request.                                                            *)
LEMMA Settling ==
  ASSUME TypeOK, JournalInv, NEW h \in Handlers, NEW nj \in Jobs,
         JobOK(nj), ReplyOK(nj), nj.phase # "claimed",
         NEW k \in Keys, NEW nr \in Rows, Len(nr.attempts) <= MaxAttempts,
         rows[k].state \notin {"Absent", "Prepared"}, nr.call = rows[k].call,
         nr.state \notin {"Absent", "Prepared"},
         nr.state = "Completed" => applied[k] # <<>> /\ nr.response = applied[k][1],
         rows' = [rows EXCEPT ![k] = nr], jobs' = [jobs EXCEPT ![h] = nj],
         UNCHANGED <<wire, applied, told>>
  PROVE  TypeOK' /\ JournalInv'
<1>1. /\ jobs'[h] = nj /\ \A g \in Handlers \ {h} : jobs'[g] = jobs[g]
      /\ rows'[k] = nr /\ \A i \in Keys \ {k} : rows'[i] = rows[i]
      /\ \A g \in Handlers, i \in Keys : Permit(g, i)' => Permit(g, i)
  BY DEF TypeOK, Permit
<1>2. TypeOK'
  BY <1>1 DEF TypeOK
<1>3. JobsInv'
  <2>1. JobOK(jobs[h])'
    BY <1>1 DEF JobOK
  <2>2. ASSUME NEW g \in Handlers \ {h}  PROVE JobOK(jobs[g])'
    <3>1. JobOK(jobs[g]) /\ jobs'[g] = jobs[g]
      BY <1>1 DEF JournalInv, JobsInv
    <3> QED BY <1>1, <3>1 DEF JobOK
  <2> QED BY <1>1, <2>1, <2>2 DEF JobsInv
<1>4. RowsInv'
  BY <1>1 DEF JournalInv, RowsInv
<1>5. OnceInv'
  BY <1>1 DEF JournalInv, OnceInv, WriteOnWire
<1>6. ReplyInv'
  BY <1>1 DEF JournalInv, ReplyInv, ReplyOK
<1>7. TruthfulAnswers'
  BY <1>1 DEF JournalInv, TruthfulAnswers
<1> QED BY <1>2, <1>3, <1>4, <1>5, <1>6, <1>7 DEF JournalInv

(* mark_send_unknown, mark_lookup_unknown, complete_send, complete_lookup. *)
LEMMA SettleSteps ==
  ASSUME TypeOK, JournalInv, NEW h \in Handlers, GiveUp(h) \/ Complete(h) \/ FindNothing(h)
  PROVE  TypeOK' /\ JournalInv'
<1> DEFINE j == jobs[h]
           k == jobs[h].key
           row == rows[k]
<1>1. /\ j \in Jobs /\ JobOK(j) /\ ReplyOK(j) /\ rows \in [Keys -> Rows]
      /\ j.phase \in {"claimed", "awaiting"}
  BY DEF TypeOK, JournalInv, JobsInv, ReplyInv, GiveUp, Complete, FindNothing
<1>2. k \in Keys /\ row \in Rows /\ row.state \notin {"Absent", "Prepared"}
      /\ row.call = j.call /\ Len(row.attempts) <= MaxAttempts
  BY <1>1 DEF JobOK, TypeOK
<1>3. JobOK(Idle) /\ ReplyOK(Idle) /\ Idle \in Jobs /\ Idle.phase = "idle"
  BY RestingTypes DEF JobOK, ReplyOK
<1>4. /\ Advance(row, "Unknown") \in Rows /\ Advance(row, "Unknown").state = "Unknown"
      /\ Advance(row, "Unknown").call = row.call
      /\ Len(Advance(row, "Unknown").attempts) <= MaxAttempts
  BY <1>2, AdvanceFields DEF States
<1>5. CASE GiveUp(h)
  <2>1. CASE PermitHolds(row, j)
    BY <1>2, <1>3, <1>4, <1>5, <2>1, Settling DEF GiveUp
  <2>2. CASE ~PermitHolds(row, j)
    BY <1>3, <1>5, <2>2, JobOnly DEF GiveUp
  <2> QED BY <2>1, <2>2
<1>6. CASE FindNothing(h)
  BY <1>2, <1>3, <1>4, <1>6, Settling DEF FindNothing, MissingReceiptState
<1>7. CASE Complete(h)
  <2>1. j.phase = "awaiting" /\ j.reply.status = "ok"
    BY <1>7 DEF Complete
  <2>2. applied[k] # <<>> /\ j.reply.receipt = applied[k][1]
    BY <1>1, <2>1 DEF ReplyOK
  <2>3. j.reply.receipt \in Receipts
    BY <1>2, <2>2 DEF TypeOK
  <2>4. /\ Settle(row, j.reply.receipt) \in Rows
        /\ Settle(row, j.reply.receipt).state = "Completed"
        /\ Settle(row, j.reply.receipt).call = row.call
        /\ Settle(row, j.reply.receipt).response = applied[k][1]
        /\ Len(Settle(row, j.reply.receipt).attempts) <= MaxAttempts
    BY <1>2, <2>2, <2>3, SettleFields
  <2>5. /\ At(j, "answered") \in Jobs /\ At(j, "answered").phase = "answered"
        /\ JobOK(At(j, "answered")) /\ ReplyOK(At(j, "answered"))
    BY <1>1, <1>2, <2>1, <2>2, AtFields DEF Phases, JobOK, ReplyOK
  <2>6. /\ rows' = [rows EXCEPT ![k] = Settle(row, j.reply.receipt)]
        /\ jobs' = [jobs EXCEPT ![h] = At(j, "answered")]
        /\ UNCHANGED <<wire, applied, told>>
    BY <1>7 DEF Complete
  <2> QED BY <1>2, <2>2, <2>4, <2>5, <2>6, Settling
<1> QED BY <1>5, <1>6, <1>7

(* claim_send and claim_exact_lookup: a write permit is made only from a   *)
(* Prepared row, where no permit, message or performance exists.           *)
LEMMA ClaimStep ==
  ASSUME TypeOK, JournalInv, NEW h \in Handlers, Claim(h)
  PROVE  TypeOK' /\ JournalInv'
<1> DEFINE j == jobs[h]
           k == jobs[h].key
           row == rows[k]
           pushed == PushAttempt(row, j.use)
           nr == Advance(pushed, ClaimState(j.use))
           nj == WithPermit(At(j, "claimed"), row.sequence + 1)
<1>1. /\ j \in Jobs /\ JobOK(j) /\ ReplyOK(j) /\ rows \in [Keys -> Rows]
      /\ j.phase = "reserved"
  BY DEF TypeOK, JournalInv, JobsInv, ReplyInv, Claim
<1>2. k \in Keys /\ row \in Rows /\ j.call \in Calls /\ j.use \in {"write", "lookup"}
  BY <1>1 DEF JobOK
<1>3. /\ row.call = j.call /\ Len(row.attempts) < MaxAttempts
      /\ <<row.state, ClaimState(j.use)>> \in Transitions
  BY DEF Claim, SameCall, AttemptLeft, CanAdvance
<1>4. /\ j.use = "write" => row.state = "Prepared"
      /\ j.use = "lookup" => row.state \in {"WriteClaimed", "Unknown", "LookupClaimed"}
      /\ ClaimState(j.use) \in {"WriteClaimed", "LookupClaimed"}
  BY <1>2, <1>3 DEF Transitions, ClaimState
<1>5. /\ nr \in Rows /\ nr.state \in {"WriteClaimed", "LookupClaimed"}
      /\ nr.call = row.call /\ Len(nr.attempts) <= MaxAttempts
  <2>1. pushed \in Rows /\ pushed.call = row.call
        /\ pushed.attempts = Append(row.attempts, j.use)
    BY <1>2, PushFields
  <2>2. row.attempts \in Seq({"write", "lookup"})
    BY <1>2 DEF Rows
  <2>3. Len(Append(row.attempts, j.use)) <= MaxAttempts
    BY <1>2, <1>3, <2>2, OwnerInvocationAssumption
  <2>4. ClaimState(j.use) \in States
    BY <1>4 DEF States
  <2> HIDE DEF pushed
  <2>5. /\ nr \in Rows /\ nr.state = ClaimState(j.use)
        /\ nr.call = pushed.call /\ nr.attempts = pushed.attempts
    BY <2>1, <2>4, AdvanceFields
  <2> HIDE DEF nr
  <2> QED BY <1>4, <2>1, <2>3, <2>5
<1>6. /\ nj \in Jobs /\ nj.phase = "claimed" /\ nj.key = k /\ nj.call = j.call
      /\ nj.use = j.use /\ nj.reply = j.reply
  <2>1. row.sequence + 1 \in Nat
    BY <1>2 DEF Rows
  <2> DEFINE mid == At(j, "claimed")
  <2>2. /\ mid \in Jobs /\ mid.phase = "claimed" /\ mid.key = k /\ mid.call = j.call
        /\ mid.use = j.use /\ mid.reply = j.reply
    BY <1>1, AtFields DEF Phases
  <2>3. nj = WithPermit(mid, row.sequence + 1)
    OBVIOUS
  <2> HIDE DEF mid, nj
  <2> QED BY <2>1, <2>2, <2>3, PermitFields
<1>7. /\ rows' = [rows EXCEPT ![k] = nr] /\ jobs' = [jobs EXCEPT ![h] = nj]
      /\ UNCHANGED <<wire, applied, told>>
  BY DEF Claim
<1> HIDE DEF nr, nj
<1>8. /\ jobs'[h] = nj /\ \A g \in Handlers \ {h} : jobs'[g] = jobs[g]
      /\ rows'[k] = nr /\ \A i \in Keys \ {k} : rows'[i] = rows[i]
  BY <1>2, <1>7 DEF TypeOK
<1>9. TypeOK'
  BY <1>2, <1>5, <1>6, <1>7, <1>8 DEF TypeOK
<1>10. JobsInv'
  <2>1. JobOK(jobs[h])'
    BY <1>2, <1>3, <1>5, <1>6, <1>8 DEF JobOK, Uses
  <2>2. ASSUME NEW g \in Handlers \ {h}  PROVE JobOK(jobs[g])'
    <3>1. JobOK(jobs[g]) /\ jobs'[g] = jobs[g]
      BY <1>8 DEF JournalInv, JobsInv
    <3> QED BY <1>5, <1>8, <3>1 DEF JobOK
  <2> QED BY <1>8, <2>1, <2>2 DEF JobsInv
<1>11. RowsInv'
  BY <1>2, <1>3, <1>5, <1>8 DEF JournalInv, RowsInv
<1>12. OnceInv'
  <2>1. \A g \in Handlers, i \in Keys :
          Permit(g, i)' => Permit(g, i) \/ (g = h /\ i = k /\ j.use = "write")
    BY <1>6, <1>8 DEF Permit
  <2>2. j.use = "write" => /\ applied[k] = <<>>
                           /\ \A g \in Handlers : ~Permit(g, k)
                           /\ \A m \in wire : ~WriteOnWire(m, k)
    BY <1>2, <1>4 DEF JournalInv, OnceInv
  <2> QED BY <1>5, <1>7, <1>8, <2>1, <2>2 DEF JournalInv, OnceInv, WriteOnWire
<1>13. ReplyInv'
  BY <1>1, <1>6, <1>7, <1>8 DEF JournalInv, ReplyInv, ReplyOK
<1>14. TruthfulAnswers'
  BY <1>5, <1>7, <1>8 DEF JournalInv, TruthfulAnswers
<1> QED BY <1>9, <1>10, <1>11, <1>12, <1>13, <1>14 DEF JournalInv

(* exchange_with_authorization: the permit becomes a message.              *)
LEMMA SendStep ==
  ASSUME TypeOK, JournalInv, NEW h \in Handlers, Send(h)
  PROVE  TypeOK' /\ JournalInv'
<1> DEFINE j == jobs[h]
           k == jobs[h].key
           m == [use |-> j.use, key |-> k, call |-> rows[k].call, sequence |-> j.sequence]
           nj == At(j, "awaiting")
<1>1. /\ j \in Jobs /\ JobOK(j) /\ ReplyOK(j) /\ rows \in [Keys -> Rows]
      /\ j.phase = "claimed" /\ j.sequence \in Nat
  BY DEF TypeOK, JournalInv, JobsInv, ReplyInv, Send, Jobs
<1>2. /\ k \in Keys /\ j.call \in Calls /\ j.use \in {"write", "lookup"}
      /\ rows[k].call = j.call /\ rows[k].state \notin {"Absent", "Prepared"}
  BY <1>1 DEF JobOK
<1>3. m \in Messages /\ m.use = j.use /\ m.key = k /\ m.call = rows[k].call
  BY <1>1, <1>2 DEF Messages
<1>4. /\ nj \in Jobs /\ nj.phase = "awaiting" /\ nj.key = k /\ nj.call = j.call
      /\ nj.use = j.use /\ nj.reply = j.reply
  BY <1>1, AtFields DEF Phases
<1>5. /\ wire' = wire \cup {m} /\ jobs' = [jobs EXCEPT ![h] = nj]
      /\ UNCHANGED <<rows, applied, told>>
  BY DEF Send
<1> HIDE DEF m, nj
<1>6. jobs'[h] = nj /\ \A g \in Handlers \ {h} : jobs'[g] = jobs[g]
  BY <1>5 DEF TypeOK
<1>7. TypeOK'
  BY <1>3, <1>4, <1>5 DEF TypeOK
<1>8. JobsInv'
  BY <1>1, <1>2, <1>4, <1>5, <1>6 DEF JournalInv, JobsInv, JobOK
<1>9. RowsInv' /\ TruthfulAnswers'
  BY <1>5 DEF JournalInv, RowsInv, TruthfulAnswers
<1>10. OnceInv'
  <2>1. \A g \in Handlers, i \in Keys : Permit(g, i)' => Permit(g, i) /\ g # h
    BY <1>4, <1>6 DEF Permit
  <2>2. \A n \in wire', i \in Keys :
          WriteOnWire(n, i)' =>
            (n \in wire /\ WriteOnWire(n, i)) \/ (n = m /\ i = k /\ Permit(h, k))
    BY <1>1, <1>3, <1>5 DEF WriteOnWire, Permit
  <2> QED BY <1>2, <1>3, <1>5, <2>1, <2>2 DEF JournalInv, OnceInv
<1>11. ReplyInv'
  BY <1>1, <1>4, <1>5, <1>6 DEF JournalInv, ReplyInv, ReplyOK
<1> QED BY <1>7, <1>8, <1>9, <1>10, <1>11 DEF JournalInv

(* The answer of a request is the owner's receipt for its own call.        *)
LEMMA DiscloseStep ==
  ASSUME TypeOK, JournalInv, NEW h \in Handlers, Disclose(h)
  PROVE  TypeOK' /\ JournalInv'
<1> DEFINE j == jobs[h]
           t == [key |-> j.key, call |-> j.call, receipt |-> j.reply.receipt]
<1>1. /\ j \in Jobs /\ JobOK(j) /\ ReplyOK(j) /\ j.phase = "answered"
  BY DEF TypeOK, JournalInv, JobsInv, ReplyInv, Disclose
<1>2. /\ j.key \in Keys /\ j.call \in Calls /\ rows[j.key].call = j.call
      /\ applied[j.key] # <<>> /\ j.reply.receipt = applied[j.key][1]
  BY <1>1 DEF JobOK, ReplyOK
<1>3. j.reply.receipt \in Receipts /\ j.reply.receipt.call = j.call
  BY <1>2 DEF TypeOK, JournalInv, OnceInv
<1>4. t \in [key : Keys, call : Calls, receipt : Receipts]
      /\ t.key = j.key /\ t.call = j.call /\ t.receipt = j.reply.receipt
  BY <1>2, <1>3
<1>5. /\ told' = told \cup {t} /\ jobs' = [jobs EXCEPT ![h] = Idle]
      /\ UNCHANGED <<rows, wire, applied>>
  BY DEF Disclose
<1> HIDE DEF t
<1>6. /\ jobs'[h] = Idle /\ \A g \in Handlers \ {h} : jobs'[g] = jobs[g]
      /\ \A g \in Handlers, i \in Keys : Permit(g, i)' => Permit(g, i)
  BY <1>5, RestingTypes DEF TypeOK, Permit
<1>7. TypeOK'
  BY <1>4, <1>5, RestingTypes DEF TypeOK
<1>8. JobsInv' /\ RowsInv'
  BY <1>5, <1>6, RestingTypes DEF JournalInv, JobsInv, RowsInv, JobOK
<1>9. OnceInv'
  BY <1>5, <1>6 DEF JournalInv, OnceInv, WriteOnWire
<1>10. ReplyInv'
  BY <1>5, <1>6, RestingTypes DEF JournalInv, ReplyInv, ReplyOK
<1>11. TruthfulAnswers'
  BY <1>2, <1>3, <1>4, <1>5 DEF JournalInv, TruthfulAnswers
<1> QED BY <1>7, <1>8, <1>9, <1>10, <1>11 DEF JournalInv

(* The owner handles a message: it performs its write, or it changes       *)
(* nothing, and a reply reaches the handlers that still await it.          *)
LEMMA OwnerReply ==
  ASSUME TypeOK, JournalInv, NEW m \in wire, NEW reply \in Replies, Replied(m, reply),
         wire' = wire \ {m}, UNCHANGED <<rows, told>>,
         applied' \in [Keys -> Seq(Receipts)],
         \A k \in Keys \ {m.key} : applied'[k] = applied[k],
         \/ applied'[m.key] = applied[m.key]
         \/ /\ m.use = "write" /\ Len(applied'[m.key]) = 1
            /\ applied'[m.key][1].call = m.call,
         reply.status = "ok" => /\ applied'[m.key] # <<>>
                                /\ reply.receipt = applied'[m.key][1]
  PROVE  TypeOK' /\ JournalInv'
<1>1. m.key \in Keys
  BY DEF TypeOK, Messages
<1>2. jobs' \in [Handlers -> Jobs]
  BY ReplyFields DEF TypeOK, Replied
<1>3. ASSUME NEW h \in Handlers
      PROVE  /\ jobs'[h].phase = jobs[h].phase /\ jobs'[h].key = jobs[h].key
             /\ jobs'[h].call = jobs[h].call /\ jobs'[h].use = jobs[h].use
             /\ \/ jobs'[h].reply = jobs[h].reply
                \/ /\ jobs'[h].reply = reply /\ jobs[h].key = m.key
                   /\ jobs[h].phase = "awaiting"
  <2>1. jobs[h] \in Jobs
    BY DEF TypeOK
  <2>2. jobs'[h] = IF Waiting(h, m) THEN WithReply(jobs[h], reply) ELSE jobs[h]
    BY DEF Replied
  <2> QED BY <2>1, <2>2, ReplyFields DEF Waiting
<1>4. TypeOK'
  BY <1>2 DEF TypeOK
<1>5. JobsInv' /\ RowsInv'
  BY <1>3 DEF JournalInv, JobsInv, RowsInv, JobOK
<1>6. m.use = "write" => /\ applied[m.key] = <<>> /\ m.call = rows[m.key].call
                         /\ rows[m.key].state \notin {"Absent", "Prepared"}
                         /\ \A h \in Handlers : ~Permit(h, m.key)
                         /\ \A n \in wire : WriteOnWire(n, m.key) => n = m
  BY <1>1 DEF JournalInv, OnceInv, WriteOnWire
<1>7. OnceInv'
  <2>1. \A g \in Handlers, k \in Keys : Permit(g, k)' => Permit(g, k)
    BY <1>3 DEF Permit
  <2>2. \A n \in wire', k \in Keys : WriteOnWire(n, k)' => n \in wire /\ WriteOnWire(n, k) /\ n # m
    BY DEF WriteOnWire
  <2>3. ASSUME NEW k \in Keys, applied'[k] = applied[k]
        PROVE  /\ rows'[k].state \in {"Absent", "Prepared"} =>
                    /\ applied'[k] = <<>>
                    /\ \A h \in Handlers : ~Permit(h, k)'
                    /\ \A n \in wire' : ~WriteOnWire(n, k)'
               /\ \A h \in Handlers : Permit(h, k)' =>
                    /\ applied'[k] = <<>>
                    /\ \A g \in Handlers : Permit(g, k)' => g = h
                    /\ \A n \in wire' : ~WriteOnWire(n, k)'
               /\ \A n \in wire' : WriteOnWire(n, k)' =>
                    /\ applied'[k] = <<>>
                    /\ n.call = rows'[k].call
                    /\ \A o \in wire' : WriteOnWire(o, k)' => o = n
               /\ Len(applied'[k]) <= 1
               /\ applied'[k] # <<>> => applied'[k][1].call = rows'[k].call
    BY <2>1, <2>2, <2>3 DEF JournalInv, OnceInv
  <2>4. ASSUME m.use = "write", Len(applied'[m.key]) = 1, applied'[m.key][1].call = m.call
        PROVE  LET k == m.key
               IN  /\ rows'[k].state \notin {"Absent", "Prepared"}
                   /\ \A h \in Handlers : ~Permit(h, k)'
                   /\ \A n \in wire' : ~WriteOnWire(n, k)'
                   /\ Len(applied'[k]) <= 1
                   /\ applied'[k][1].call = rows'[k].call
    BY <1>1, <1>6, <2>1, <2>2, <2>4
  <2> QED BY <1>1, <2>3, <2>4 DEF OnceInv
<1>8. \A k \in Keys : applied[k] # <<>> => applied'[k] = applied[k]
  BY <1>6
<1>9. ReplyInv'
  <2>1. ASSUME NEW h \in Handlers  PROVE ReplyOK(jobs[h])'
    <3>1. ReplyOK(jobs[h]) /\ (jobs[h].phase # "idle" => jobs[h].key \in Keys)
      BY DEF JournalInv, ReplyInv, JobsInv, JobOK
    <3> QED BY <1>3, <1>8, <3>1 DEF ReplyOK
  <2> QED BY <2>1 DEF ReplyInv
<1>10. TruthfulAnswers'
  <2>1. \A t \in told : t.key \in Keys
    BY DEF TypeOK
  <2> QED BY <1>8, <2>1 DEF JournalInv, TruthfulAnswers
<1> QED BY <1>4, <1>5, <1>7, <1>9, <1>10 DEF JournalInv

(* The three things the owner may do with a message.                       *)
LEMMA OwnerSteps ==
  ASSUME TypeOK, JournalInv, NEW m \in wire,
         OwnerPerforms(m) \/ OwnerRefuses(m) \/ OwnerLooksUp(m)
  PROVE  TypeOK' /\ JournalInv'
<1> DEFINE failed == [status |-> "failed", receipt |-> None]
<1>1. m \in Messages /\ m.key \in Keys /\ m.call \in Calls /\ applied \in [Keys -> Seq(Receipts)]
  BY DEF TypeOK, Messages
<1>2. failed \in Replies /\ failed.status # "ok"
  BY DEF Replies
<1>3. CASE OwnerPerforms(m)
  <2>1. PICK result \in Results, readable \in BOOLEAN :
          LET receipt == [call |-> m.call, result |-> result]
          IN  /\ applied' = [applied EXCEPT ![m.key] = Append(@, receipt)]
              /\ Replied(m, IF readable THEN [status |-> "ok", receipt |-> receipt]
                            ELSE failed)
    BY <1>3 DEF OwnerPerforms
  <2> DEFINE receipt == [call |-> m.call, result |-> result]
             reply == IF readable THEN [status |-> "ok", receipt |-> receipt] ELSE failed
  <2>2. receipt \in Receipts /\ receipt.call = m.call
    BY <1>1 DEF Receipts
  <2>3. applied[m.key] = <<>> /\ m.use = "write"
    BY <1>1, <1>3 DEF OwnerPerforms, JournalInv, OnceInv, WriteOnWire
  <2>4. /\ applied' = [applied EXCEPT ![m.key] = Append(applied[m.key], receipt)]
        /\ Replied(m, reply)
        /\ wire' = wire \ {m} /\ UNCHANGED <<rows, told>>
    BY <1>3, <2>1 DEF OwnerPerforms
  <2>5. reply \in Replies /\ (reply.status = "ok" => reply.receipt = receipt)
    BY <1>2, <2>2 DEF Replies
  <2> HIDE DEF receipt, reply
  <2>6. /\ applied' \in [Keys -> Seq(Receipts)]
        /\ \A k \in Keys \ {m.key} : applied'[k] = applied[k]
        /\ applied'[m.key] = <<receipt>>
    BY <1>1, <2>2, <2>3, <2>4
  <2>7. Len(applied'[m.key]) = 1 /\ applied'[m.key][1] = receipt /\ applied'[m.key] # <<>>
    BY <2>6
  <2> QED BY <2>2, <2>3, <2>4, <2>5, <2>6, <2>7, OwnerReply
<1>4. CASE OwnerRefuses(m)
  <2>1. Replied(m, failed) /\ wire' = wire \ {m} /\ UNCHANGED <<rows, applied, told>>
    BY <1>4 DEF OwnerRefuses
  <2> HIDE DEF failed
  <2> QED BY <1>1, <1>2, <2>1, OwnerReply
<1>5. CASE OwnerLooksUp(m)
  <2> DEFINE reply == IF applied[m.key] = <<>>
                      THEN [status |-> "missing", receipt |-> None]
                      ELSE [status |-> "ok", receipt |-> applied[m.key][1]]
  <2>1. applied[m.key] # <<>> => applied[m.key][1] \in Receipts
    BY <1>1
  <2>2. /\ reply \in Replies
        /\ reply.status = "ok" => /\ applied[m.key] # <<>>
                                  /\ reply.receipt = applied[m.key][1]
    BY <2>1 DEF Replies
  <2>3. Replied(m, reply) /\ wire' = wire \ {m} /\ UNCHANGED <<rows, applied, told>>
    BY <1>5 DEF OwnerLooksUp
  <2> HIDE DEF reply
  <2> QED BY <1>1, <2>2, <2>3, OwnerReply
<1> QED BY <1>3, <1>4, <1>5

-----------------------------------------------------------------------------
(* The journal starts empty.                                               *)
LEMMA InvInit ==
  ASSUME Init  PROVE TypeOK /\ JournalInv
<1>1. TypeOK
  <2>1. Len(<<>>) <= MaxAttempts
    BY OwnerInvocationAssumption
  <2> QED BY <2>1, RestingTypes DEF Init, TypeOK
<1>2. JobsInv /\ RowsInv /\ ReplyInv /\ TruthfulAnswers
  BY RestingTypes DEF Init, JobsInv, RowsInv, ReplyInv, TruthfulAnswers, JobOK, ReplyOK
<1>3. OnceInv
  BY RestingTypes DEF Init, OnceInv, Permit, WriteOnWire
<1> QED BY <1>1, <1>2, <1>3 DEF JournalInv

(* Every step of every handler and of the owner preserves the invariant.   *)
LEMMA InvNext ==
  ASSUME TypeOK, JournalInv, [Next]_vars  PROVE TypeOK' /\ JournalInv'
<1>1. CASE UNCHANGED vars
  BY <1>1 DEF vars, TypeOK, JournalInv, JobsInv, RowsInv, OnceInv, ReplyInv, TruthfulAnswers,
              JobOK, ReplyOK, Permit, WriteOnWire
<1>2. ASSUME NEW h \in Handlers, Receive(h) \/ Step(h) \/ Crash(h)
      PROVE  TypeOK' /\ JournalInv'
  BY <1>2, RequestSteps, ReserveNewStep, ClaimStep, SendStep, SettleSteps, DiscloseStep
  DEF Step
<1>3. CASE Owner
  BY <1>3, OwnerSteps DEF Owner
<1> QED BY <1>1, <1>2, <1>3 DEF Next

(* In every reachable state, for any number of processes, keys and calls.  *)
LEMMA Invariance == Spec => [](TypeOK /\ JournalInv)
<1>1. Init => TypeOK /\ JournalInv
  BY InvInit
<1>2. (TypeOK /\ JournalInv) /\ [Next]_vars => (TypeOK /\ JournalInv)'
  BY InvNext
<1> QED BY <1>1, <1>2, PTL DEF Spec

(* The journal, the requests and the wire keep their types, and no row     *)
(* ever holds more than MAX_ATTEMPTS attempts.                             *)
THEOREM TypeCorrect == Spec => []TypeOK
  BY Invariance, PTL

(* The owner performs the call of a stable key at most once, whatever the  *)
(* number of operator processes, retries, lookups and crashes.             *)
THEOREM PerformedAtMostOnce == Spec => []AtMostOnce
<1>1. JournalInv => AtMostOnce
  BY DEF JournalInv, OnceInv, AtMostOnce
<1> QED BY <1>1, Invariance, PTL

(* What callers are told and what completed rows keep is the owner's own   *)
(* receipt for the very call that was submitted.                           *)
THEOREM AnswersAreTruthful == Spec => []TruthfulAnswers
<1>1. JournalInv => TruthfulAnswers
  BY DEF JournalInv
<1> QED BY <1>1, Invariance, PTL

(* A completed row is never changed again.                                 *)
THEOREM CompletedStays == Spec => CompletedIsFinal
<1> DEFINE Kept == \A k \in Keys : rows[k].state = "Completed" => rows'[k] = rows[k]
<1>1. ASSUME TypeOK, JournalInv, [Next]_vars  PROVE [Kept]_vars
  <2>1. CASE rows' = rows
    BY <2>1
  <2>2. ASSUME NEW h \in Handlers, NEW nr,
               rows[jobs[h].key].state # "Completed",
               rows' = [rows EXCEPT ![jobs[h].key] = nr]
        PROVE  Kept
    BY <1>1, <2>2 DEF TypeOK
  <2>3. ASSUME NEW h \in Handlers, ReserveNew(h)  PROVE Kept
    BY <2>2, <2>3 DEF ReserveNew
  <2>4. ASSUME NEW h \in Handlers, Claim(h)  PROVE Kept
    <3>1. rows[jobs[h].key].state # "Completed"
      BY <2>4 DEF Claim, CanAdvance, Transitions
    <3> QED BY <2>2, <2>4, <3>1 DEF Claim
  <2>5. ASSUME NEW h \in Handlers, GiveUp(h) \/ Complete(h) \/ FindNothing(h)  PROVE Kept
    <3>1. PermitHolds(rows[jobs[h].key], jobs[h]) => rows[jobs[h].key].state # "Completed"
      BY DEF PermitHolds, ClaimState
    <3> QED BY <2>1, <2>2, <2>5, <3>1 DEF GiveUp, Complete, FindNothing
  <2>6. ASSUME NEW h \in Handlers, Receive(h) \/ Step(h) \/ Crash(h)  PROVE Kept
    BY <2>1, <2>3, <2>4, <2>5, <2>6
    DEF Step, Receive, ReserveAgain, ReadCached, Send, Disclose, Refuse, Crash
  <2>7. CASE Owner
    BY <2>1, <2>7 DEF Owner, OwnerPerforms, OwnerRefuses, OwnerLooksUp
  <2> QED BY <1>1, <2>6, <2>7 DEF Next
<1>2. TypeOK /\ JournalInv /\ [Next]_vars => [Kept]_vars
  BY <1>1
<1> QED BY <1>2, Invariance, PTL DEF Spec, CompletedIsFinal

(* A claimed row becomes unknown or completed only through the request     *)
(* that holds the permit of that very claim.                               *)
THEOREM SettledByItsHolder == Spec => SettledByHolder
<1> DEFINE Held ==
      \A k \in Keys :
        (/\ rows[k].state \in {"WriteClaimed", "LookupClaimed"}
         /\ rows'[k].state \in {"Unknown", "Completed"})
        => \E h \in Handlers : /\ jobs[h].key = k
                               /\ jobs[h].sequence = rows[k].sequence
                               /\ jobs'[h].phase \in {"idle", "answered"}
<1>1. ASSUME TypeOK, JournalInv, [Next]_vars  PROVE [Held]_vars
  <2>1. CASE rows' = rows
    BY <2>1
  <2>2. ASSUME NEW h \in Handlers, ReserveNew(h)  PROVE Held
    BY <1>1, <2>2 DEF ReserveNew, TypeOK
  <2>3. ASSUME NEW h \in Handlers, Claim(h)  PROVE Held
    <3> DEFINE row == rows[jobs[h].key]
    <3>1. row \in Rows /\ jobs[h].use \in {"write", "lookup"}
      BY <1>1, <2>3 DEF Claim, TypeOK, JournalInv, JobsInv, JobOK
    <3>2. /\ PushAttempt(row, jobs[h].use) \in Rows
          /\ ClaimState(jobs[h].use) \in {"WriteClaimed", "LookupClaimed"}
      BY <3>1, PushFields DEF ClaimState
    <3>3. Advance(PushAttempt(row, jobs[h].use), ClaimState(jobs[h].use)).state
            \in {"WriteClaimed", "LookupClaimed"}
      BY <3>2, AdvanceFields DEF States
    <3> QED BY <1>1, <2>3, <3>3 DEF Claim, TypeOK
  <2>4. ASSUME NEW h \in Handlers, GiveUp(h) \/ Complete(h) \/ FindNothing(h)  PROVE Held
    <3>1. /\ \A k \in Keys \ {jobs[h].key} : rows'[k] = rows[k]
          /\ \/ rows' = rows
             \/ jobs[h].sequence = rows[jobs[h].key].sequence
      BY <1>1, <2>4 DEF GiveUp, Complete, FindNothing, TypeOK, PermitHolds
    <3>2. jobs'[h].phase \in {"idle", "answered"}
      <4>1. jobs[h] \in Jobs /\ (jobs' = [jobs EXCEPT ![h] = Idle]
                                 \/ jobs' = [jobs EXCEPT ![h] = At(jobs[h], "answered")])
        BY <1>1, <2>4 DEF GiveUp, Complete, FindNothing, TypeOK
      <4> QED BY <1>1, <4>1, AtFields, RestingTypes DEF Phases, TypeOK
    <3> QED BY <3>1, <3>2
  <2>5. ASSUME NEW h \in Handlers, Receive(h) \/ Step(h) \/ Crash(h)  PROVE Held
    BY <2>1, <2>2, <2>3, <2>4, <2>5
    DEF Step, Receive, ReserveAgain, ReadCached, Send, Disclose, Refuse, Crash
  <2>6. CASE Owner
    BY <2>1, <2>6 DEF Owner, OwnerPerforms, OwnerRefuses, OwnerLooksUp
  <2> QED BY <1>1, <2>5, <2>6 DEF Next
<1>2. TypeOK /\ JournalInv /\ [Next]_vars => [Held]_vars
  BY <1>1
<1> QED BY <1>2, Invariance, PTL DEF Spec, SettledByHolder

(* A claim keeps a record valid, and its last attempt is the claimed one.  *)
LEMMA ClaimedRecord ==
  ASSUME NEW row \in Rows, NEW use \in {"write", "lookup"}, ValidRecord(row),
         row.state # "Completed", AttemptLeft(row)
  PROVE  ValidRecord(Advance(PushAttempt(row, use), ClaimState(use)))
<1> DEFINE pushed == PushAttempt(row, use)
           nr == Advance(pushed, ClaimState(use))
<1>1. /\ pushed \in Rows /\ pushed.response = row.response
      /\ pushed.attempts = Append(row.attempts, use) /\ pushed.sequence \in Nat
  BY PushFields DEF Rows
<1>2. ClaimState(use) \in States
  BY DEF ClaimState, States
<1> HIDE DEF pushed
<1>3. /\ nr.state = ClaimState(use) /\ nr.sequence = pushed.sequence + 1
      /\ nr.attempts = Append(row.attempts, use) /\ nr.response = row.response
  BY <1>1, <1>2, AdvanceFields
<1>4. LastAttemptIs(nr, use)
  <2>1. row.attempts \in Seq({"write", "lookup"})
    BY DEF Rows
  <2>2. /\ Append(row.attempts, use) # <<>>
        /\ Append(row.attempts, use)[Len(Append(row.attempts, use))] = use
    BY <2>1
  <2> HIDE DEF nr
  <2> QED BY <1>3, <2>2 DEF LastAttemptIs
<1> HIDE DEF nr
<1>5. nr.sequence # 0
  BY <1>1, <1>3
<1>6. row.response = None
  BY DEF ValidRecord
<1>7. Len(nr.attempts) <= MaxAttempts
  BY <1>3, OwnerInvocationAssumption DEF AttemptLeft, Rows
<1>8. ValidRecord(nr)
  BY <1>3, <1>4, <1>5, <1>6, <1>7 DEF ValidRecord, ClaimState
<1> QED BY <1>8 DEF nr, pushed

(* A settled claim keeps a record valid.                                   *)
LEMMA SettledRecord ==
  ASSUME NEW row \in Rows, ValidRecord(row), row.state \in {"WriteClaimed", "LookupClaimed"}
  PROVE  /\ ValidRecord(Advance(row, "Unknown"))
         /\ \A r \in Receipts : ValidRecord(Settle(row, r))
<1>1. row.sequence \in Nat /\ row.attempts # <<>> /\ row.response = None
  <2>1. row.sequence \in Nat
    BY DEF Rows
  <2>2. row.attempts # <<>> /\ row.response = None
    BY DEF ValidRecord, LastAttemptIs
  <2> QED BY <2>1, <2>2
<1>2. ValidRecord(Advance(row, "Unknown"))
  BY <1>1, AdvanceFields DEF ValidRecord, States
<1>3. ASSUME NEW r \in Receipts  PROVE ValidRecord(Settle(row, r))
  BY <1>1, <1>3, SettleFields, OwnerInvocationAssumption DEF ValidRecord, Receipts
<1> QED BY <1>2, <1>3

(* Whatever happens, the journal stays one that open accepts.              *)
THEOREM RecordsStayValid == Spec => []RecordsValid
<1>1. Init => RecordsValid
  BY DEF Init, RecordsValid, NoRow
<1>2. ASSUME TypeOK, JournalInv, RecordsValid, [Next]_vars  PROVE RecordsValid'
  <2>1. CASE rows' = rows
    BY <1>2, <2>1 DEF RecordsValid, ValidRecord, LastAttemptIs
  <2>2. ASSUME NEW h \in Handlers, NEW nr, ValidRecord(nr),
               rows' = [rows EXCEPT ![jobs[h].key] = nr]
        PROVE  RecordsValid'
    BY <1>2, <2>2 DEF TypeOK, RecordsValid, ValidRecord, LastAttemptIs
  <2>3. ASSUME NEW h \in Handlers, ReserveNew(h)  PROVE RecordsValid'
    <3> DEFINE nr == [state |-> "Prepared", sequence |-> 1, call |-> jobs[h].call,
                      attempts |-> <<>>, response |-> None]
    <3>1. ValidRecord(nr)
      BY OwnerInvocationAssumption DEF ValidRecord
    <3>2. rows' = [rows EXCEPT ![jobs[h].key] = nr]
      BY <2>3 DEF ReserveNew
    <3> HIDE DEF nr
    <3> QED BY <2>2, <3>1, <3>2
  <2>4. ASSUME NEW h \in Handlers, Claim(h)  PROVE RecordsValid'
    <3> DEFINE row == rows[jobs[h].key]
    <3>1. /\ jobs[h].key \in Keys /\ row \in Rows /\ jobs[h].use \in {"write", "lookup"}
          /\ row.state \notin {"Absent", "Completed"}
      BY <1>2, <2>4
      DEF Claim, TypeOK, JournalInv, JobsInv, JobOK, CanAdvance, Transitions
    <3>2. ValidRecord(row)
      BY <1>2, <3>1 DEF RecordsValid
    <3> QED BY <2>2, <2>4, <3>1, <3>2, ClaimedRecord DEF Claim
  <2>5. ASSUME NEW h \in Handlers, GiveUp(h) \/ Complete(h) \/ FindNothing(h)
        PROVE  RecordsValid'
    <3> DEFINE row == rows[jobs[h].key]
    <3>1. jobs[h].key \in Keys /\ row \in Rows
      BY <1>2, <2>5 DEF GiveUp, Complete, FindNothing, TypeOK, JournalInv, JobsInv, JobOK
    <3>2. PermitHolds(row, jobs[h]) =>
            ValidRecord(row) /\ row.state \in {"WriteClaimed", "LookupClaimed"}
      BY <1>2, <3>1 DEF PermitHolds, ClaimState, RecordsValid
    <3>3. CASE GiveUp(h) \/ FindNothing(h)
      BY <2>1, <2>2, <3>1, <3>2, <3>3, SettledRecord
      DEF GiveUp, FindNothing, MissingReceiptState
    <3>4. CASE Complete(h)
      <4>1. /\ jobs[h].phase = "awaiting" /\ jobs[h].reply.status = "ok"
            /\ PermitHolds(row, jobs[h])
            /\ rows' = [rows EXCEPT ![jobs[h].key] = Settle(row, jobs[h].reply.receipt)]
        BY <3>4 DEF Complete
      <4>2. jobs[h].reply.receipt = applied[jobs[h].key][1] /\ applied[jobs[h].key] # <<>>
        BY <1>2, <4>1 DEF JournalInv, ReplyInv, ReplyOK
      <4>3. jobs[h].reply.receipt \in Receipts
        BY <1>2, <3>1, <4>2 DEF TypeOK
      <4> QED BY <2>2, <3>1, <3>2, <4>1, <4>3, SettledRecord
    <3> QED BY <2>5, <3>3, <3>4
  <2>6. ASSUME NEW h \in Handlers, Receive(h) \/ Step(h) \/ Crash(h)  PROVE RecordsValid'
    BY <2>1, <2>3, <2>4, <2>5, <2>6
    DEF Step, Receive, ReserveAgain, ReadCached, Send, Disclose, Refuse, Crash
  <2>7. CASE Owner
    BY <2>1, <2>7 DEF Owner, OwnerPerforms, OwnerRefuses, OwnerLooksUp
  <2>8. CASE UNCHANGED vars
    BY <2>1, <2>8 DEF vars
  <2> QED BY <1>2, <2>6, <2>7, <2>8 DEF Next
<1>3. TypeOK /\ JournalInv /\ RecordsValid /\ [Next]_vars => RecordsValid'
  BY <1>2
<1> QED BY <1>1, <1>3, Invariance, PTL DEF Spec

(* Every step of the journal, the handlers and the owner is a step of the  *)
(* at-most-once call, or changes nothing a caller or the owner can see.    *)
THEOREM ImplementsCall == Spec => ImplementsAtMostOnce
<1>1. Init => Promise!Init
  BY DEF Init, Promise!Init
<1>2. ASSUME TypeOK, JournalInv, [Next]_vars  PROVE [Promise!Next]_Promise!vars
  <2>1. CASE UNCHANGED <<applied, told>>
    BY <2>1 DEF Promise!vars
  <2>2. ASSUME NEW h \in Handlers, Disclose(h)  PROVE Promise!Next
    <3>1. /\ jobs[h].key \in Keys /\ applied[jobs[h].key] # <<>>
          /\ jobs[h].reply.receipt = applied[jobs[h].key][1]
          /\ jobs[h].call = applied[jobs[h].key][1].call
      BY <1>2, <2>2 DEF Disclose, JournalInv, JobsInv, ReplyInv, OnceInv, JobOK, ReplyOK
    <3>2. Promise!Answer(jobs[h].key)
      BY <2>2, <3>1 DEF Disclose, Promise!Answer
    <3> QED BY <3>1, <3>2 DEF Promise!Next
  <2>3. ASSUME NEW m \in wire, OwnerPerforms(m)  PROVE Promise!Next
    <3>1. m.key \in Keys /\ m.call \in Calls /\ applied \in [Keys -> Seq(Receipts)]
      BY <1>2 DEF TypeOK, Messages
    <3>2. applied[m.key] = <<>>
      BY <1>2, <2>3, <3>1 DEF OwnerPerforms, JournalInv, OnceInv, WriteOnWire
    <3>3. PICK result \in Results :
            applied' = [applied EXCEPT ![m.key] =
                          Append(applied[m.key], [call |-> m.call, result |-> result])]
      BY <2>3 DEF OwnerPerforms
    <3>4. \A receipt : Append(<<>>, receipt) = <<receipt>>
      OBVIOUS
    <3>5. applied' = [applied EXCEPT ![m.key] = <<[call |-> m.call, result |-> result]>>]
      BY <3>2, <3>3, <3>4, Zenon
    <3>6. Promise!Perform(m.key, m.call, result)
      BY <2>3, <3>2, <3>5 DEF OwnerPerforms, Promise!Perform
    <3> QED BY <3>1, <3>6 DEF Promise!Next
  <2>4. ASSUME NEW h \in Handlers, Receive(h) \/ Step(h) \/ Crash(h)
        PROVE  [Promise!Next]_Promise!vars
    BY <2>1, <2>2, <2>4
    DEF Step, Receive, ReserveNew, ReserveAgain, ReadCached, Claim, Send, GiveUp, Complete,
        FindNothing, Refuse, Crash
  <2>5. CASE Owner
    BY <2>1, <2>3, <2>5 DEF Owner, OwnerRefuses, OwnerLooksUp
  <2>6. CASE UNCHANGED vars
    BY <2>1, <2>6 DEF vars
  <2> QED BY <1>2, <2>4, <2>5, <2>6 DEF Next
<1>3. TypeOK /\ JournalInv /\ [Next]_vars => [Promise!Next]_Promise!vars
  BY <1>2
<1> QED BY <1>1, <1>3, Invariance, PTL DEF Spec, ImplementsAtMostOnce, Promise!Spec
=============================================================================
