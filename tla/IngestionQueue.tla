--------------------------- MODULE IngestionQueue ---------------------------
(***************************************************************************)
(* The durable ingestion queue (src/db/ingestion_jobs.rs) and the consumer *)
(* loop that drains it (src/ingestion/mod.rs, the outcome half of          *)
(* src/ingestion/pipeline.rs).                                             *)
(*                                                                         *)
(* A row of ingestion_jobs is created by a capture, claimed in batches by  *)
(* a consumer, processed one row at a time, and marked done, put back with *)
(* a backoff, or parked as failed.  A claim older than StaleAfter is taken *)
(* for the leavings of a crashed worker and claimed again.                 *)
(*                                                                         *)
(* Time is kept as distances from NOW(), in ticks of a minute, saturating  *)
(* where the code stops telling values apart, so the clock itself needs no *)
(* bound.  What processing a row does to the rest of the database is       *)
(* abstracted to its outcome, Ok or Err.                                   *)
(***************************************************************************)
EXTENDS Integers, FiniteSets

CONSTANTS Jobs,          \* row ids
          Instances,     \* running copies of the program, one consumer each
          MaxAttempts,   \* INGESTION_MAX_ATTEMPTS
          BatchSize,     \* INGESTION_BATCH_SIZE
          ContextWait,   \* CONTEXT_WINDOW_WAIT_SECS, the delay of a link
          StaleAfter,    \* STALE_CLAIM_MINUTES
          BaseBackoff,   \* the 60 seconds of backoff_for_attempt
          MaxBackoff,    \* MAX_BACKOFF_SECS
          MaxShift,      \* the clamp on the backoff shift
          Overdue,       \* bound: how far past run_after is told apart
          MaxFaults      \* bound: crashes and database errors of a behaviour

ASSUME QueueAssumption ==
    /\ BatchSize \in Nat \ {0}
    /\ MaxAttempts \in Nat
    /\ {ContextWait, StaleAfter, BaseBackoff, MaxBackoff,
        MaxShift, Overdue, MaxFaults} \subseteq Nat

\* The shifted value is an integer for every shift the clamp lets through.
ASSUME BackoffAssumption == \A s \in 0..MaxShift : 2^s \in Nat

VARIABLES
    \* The ingestion_jobs table.
    rows,       \* ids present in the table
    status,     \* status column; for a deleted row, the last one it had
    attempts,   \* attempts column
    wait,       \* run_after - NOW(): at most 0 when due
    claimAge,   \* NOW() - claimed_at, read only while claimed
    band,       \* which retention interval created_at has left behind
    \* The memory of each instance, lost in a crash.
    phase,      \* where the consumer loop stands
    stage,      \* stage[i][j]: how far i is with row j of its batch
    ticket,     \* ticket[i][j]: the attempts value the claim returned
    permit,     \* the stored permit of ingestion_notify
    \* Observations.
    processed,  \* rows whose processing has returned Ok at least once
    faults      \* faults so far

table == <<rows, status, attempts, wait, claimAge, band>>
memory == <<phase, stage, ticket, permit>>
vars == <<table, memory, processed, faults>>

Statuses == {"none", "pending", "claimed", "done", "failed"}
Stages == {"none", "queued", "running", "ok", "err"}
Phases == {"polling", "idle", "backoff", "working"}
Bands == {"young", "week", "month"}

TypeOK ==
    /\ rows \subseteq Jobs
    /\ status \in [Jobs -> Statuses]
    /\ attempts \in [Jobs -> Nat]
    /\ wait \in [Jobs -> Int]
    /\ claimAge \in [Jobs -> 0..StaleAfter + 1]
    /\ band \in [Jobs -> Bands]
    /\ phase \in [Instances -> Phases]
    /\ stage \in [Instances -> [Jobs -> Stages]]
    /\ ticket \in [Instances -> [Jobs -> Nat]]
    /\ permit \in [Instances -> BOOLEAN]
    /\ processed \subseteq Jobs
    /\ faults \in 0..MaxFaults

Init ==
    /\ rows = {}
    /\ status = [j \in Jobs |-> "none"]
    /\ attempts = [j \in Jobs |-> 0]
    /\ wait = [j \in Jobs |-> 0]
    /\ claimAge = [j \in Jobs |-> 0]
    /\ band = [j \in Jobs |-> "young"]
    /\ phase = [i \in Instances |-> "polling"]
    /\ stage = [i \in Instances |-> [j \in Jobs |-> "none"]]
    /\ ticket = [i \in Instances |-> [j \in Jobs |-> 0]]
    /\ permit = [i \in Instances |-> FALSE]
    /\ processed = {}
    /\ faults = 0
-----------------------------------------------------------------------------
Lesser(a, b) == IF a <= b THEN a ELSE b

\* backoff_for_attempt: the base doubled per further attempt, then capped.
Backoff(a) ==
    LET shift == IF a < 1 THEN 0 ELSE Lesser(a - 1, MaxShift)
    IN  Lesser(BaseBackoff * 2^shift, MaxBackoff)

\* Wrong: a claim a crashed worker left behind is never taken again.
DueNeverStale == {j \in rows : status[j] = "pending" /\ wait[j] <= 0}

\* The WHERE clause of the claim.
Due == {j \in rows : \/ status[j] = "pending" /\ wait[j] <= 0
                     \/ status[j] = "claimed" /\ claimAge[j] > StaleAfter}

\* ORDER BY run_after LIMIT BatchSize; ties are broken arbitrarily.
Claimable ==
    {batch \in SUBSET Due :
        /\ Cardinality(batch) = Lesser(BatchSize, Cardinality(Due))
        /\ \A j \in batch, k \in Due \ batch : wait[j] <= wait[k]}

Held(i) == {j \in Jobs : stage[i][j] # "none"}

Fault == /\ faults < MaxFaults
         /\ faults' = faults + 1
-----------------------------------------------------------------------------
\* enqueue_link and enqueue_note: the INSERT, with run_after as given.
InsertRow(j, delay) ==
    /\ status[j] = "none"
    /\ rows' = rows \cup {j}
    /\ status' = [status EXCEPT ![j] = "pending"]
    /\ wait' = [wait EXCEPT ![j] = delay]
    /\ UNCHANGED <<attempts, claimAge, band>>

\* intake::schedule_link: due after the chatter that follows the link.
EnqueueLink(i, j) ==
    /\ InsertRow(j, ContextWait)
    /\ permit' = [permit EXCEPT ![i] = TRUE]
    /\ UNCHANGED <<phase, stage, ticket, processed, faults>>

\* intake::schedule_note: the content is in hand, so due at once.
EnqueueNote(i, j) ==
    /\ InsertRow(j, 0)
    /\ permit' = [permit EXCEPT ![i] = TRUE]
    /\ UNCHANGED <<phase, stage, ticket, processed, faults>>

\* The single UPDATE of claim_batch, which commits as one statement.
TakeClaim(batch) ==
    /\ status' = [j \in Jobs |-> IF j \in batch THEN "claimed" ELSE status[j]]
    /\ attempts' = [j \in Jobs |-> IF j \in batch THEN attempts[j] + 1
                                                  ELSE attempts[j]]
    /\ claimAge' = [j \in Jobs |-> IF j \in batch THEN 0 ELSE claimAge[j]]
    /\ UNCHANGED <<rows, wait, band>>

\* The claim returns rows: the consumer holds them with their attempts.
ClaimBatch(i) ==
    /\ phase[i] = "polling"
    /\ Due # {}
    /\ \E batch \in Claimable :
        /\ TakeClaim(batch)
        /\ stage' = [stage EXCEPT ![i] =
               [j \in Jobs |-> IF j \in batch THEN "queued" ELSE "none"]]
        /\ ticket' = [ticket EXCEPT ![i] =
               [j \in Jobs |-> IF j \in batch THEN attempts[j] + 1 ELSE 0]]
    /\ phase' = [phase EXCEPT ![i] = "working"]
    /\ UNCHANGED <<permit, processed, faults>>

\* Nothing is due: the consumer waits for the timer or a notification.
ClaimNothing(i) ==
    /\ phase[i] = "polling"
    /\ Due = {}
    /\ phase' = [phase EXCEPT ![i] = "idle"]
    /\ UNCHANGED <<table, stage, ticket, permit, processed, faults>>

\* The claim query returns an error: either it did nothing, or it committed
\* and the answer was lost, which leaves rows claimed that nobody holds.
ClaimError(i) ==
    /\ phase[i] = "polling"
    /\ Fault
    /\ \/ UNCHANGED table
       \/ \E batch \in Claimable : batch # {} /\ TakeClaim(batch)
    /\ phase' = [phase EXCEPT ![i] = "backoff"]
    /\ UNCHANGED <<stage, ticket, permit, processed>>

\* Wrong: an idle consumer relies on the notification alone.
WakeByTimerAfterError(i) ==
    /\ phase[i] = "backoff"
    /\ phase' = [phase EXCEPT ![i] = "polling"]
    /\ UNCHANGED <<table, stage, ticket, permit, processed, faults>>

\* POLL_INTERVAL or POLL_ERROR_BACKOFF elapses.
WakeByTimer(i) ==
    /\ phase[i] \in {"idle", "backoff"}
    /\ phase' = [phase EXCEPT ![i] = "polling"]
    /\ UNCHANGED <<table, stage, ticket, permit, processed, faults>>

\* The other arm of the select: only an idle consumer listens to it.
WakeByNotify(i) ==
    /\ phase[i] = "idle"
    /\ permit[i]
    /\ phase' = [phase EXCEPT ![i] = "polling"]
    /\ permit' = [permit EXCEPT ![i] = FALSE]
    /\ UNCHANGED <<table, stage, ticket, processed, faults>>
-----------------------------------------------------------------------------
\* The for loop of run_consumer: one row of the batch at a time.
StartJob(i, j) ==
    /\ stage[i][j] = "queued"
    /\ \A k \in Jobs : stage[i][k] \in {"none", "queued"}
    /\ stage' = [stage EXCEPT ![i][j] = "running"]
    /\ UNCHANGED <<table, phase, ticket, permit, processed, faults>>

\* process_inner returns Ok(()) or an error; the row is not touched yet.
ProcessOk(i, j) ==
    /\ stage[i][j] = "running"
    /\ stage' = [stage EXCEPT ![i][j] = "ok"]
    /\ processed' = processed \cup {j}
    /\ UNCHANGED <<table, phase, ticket, permit, faults>>

ProcessErr(i, j) ==
    /\ stage[i][j] = "running"
    /\ stage' = [stage EXCEPT ![i][j] = "err"]
    /\ UNCHANGED <<table, phase, ticket, permit, processed, faults>>

\* The loop moves on to the next row, or back to polling after the last.
Release(i, j) ==
    /\ stage' = [stage EXCEPT ![i][j] = "none"]
    /\ ticket' = [ticket EXCEPT ![i][j] = 0]
    /\ phase' = [phase EXCEPT ![i] = IF Held(i) = {j} THEN "polling"
                                                      ELSE "working"]
    /\ UNCHANGED permit

\* UPDATE ... WHERE id = $1: nothing else guards it, and a deleted row stays
\* deleted.  claimed_at, and run_after of a settled row, are read no more:
\* the model parks them at 0.
SetRow(j, newStatus, delay) ==
    /\ IF j \in rows
       THEN /\ status' = [status EXCEPT ![j] = newStatus]
            /\ wait' = [wait EXCEPT ![j] = delay]
            /\ claimAge' = [claimAge EXCEPT ![j] = 0]
       ELSE UNCHANGED <<status, wait, claimAge>>
    /\ UNCHANGED <<rows, attempts, band>>

MarkDone(i, j) ==
    /\ stage[i][j] = "ok"
    /\ SetRow(j, "done", 0)
    /\ Release(i, j)
    /\ UNCHANGED <<processed, faults>>

\* Wrong: off by one, the last attempt is not made.
MarkFailedEarly(i, j) ==
    /\ stage[i][j] = "err"
    /\ IF ticket[i][j] + 1 >= MaxAttempts
       THEN SetRow(j, "failed", 0)
       ELSE SetRow(j, "pending", Backoff(ticket[i][j]))
    /\ Release(i, j)
    /\ UNCHANGED <<processed, faults>>

MarkFailed(i, j) ==
    /\ stage[i][j] = "err"
    /\ IF ticket[i][j] >= MaxAttempts
       THEN SetRow(j, "failed", 0)
       ELSE SetRow(j, "pending", Backoff(ticket[i][j]))
    /\ Release(i, j)
    /\ UNCHANGED <<processed, faults>>

\* The write of the outcome fails: process logs it and drops the outcome.
MarkError(i, j) ==
    /\ stage[i][j] \in {"ok", "err"}
    /\ Fault
    /\ Release(i, j)
    /\ UNCHANGED <<table, processed>>

\* The process dies and is started again: its batch and permit are gone, the
\* rows it had claimed stay claimed.
Crash(i) ==
    /\ Fault
    /\ phase' = [phase EXCEPT ![i] = "polling"]
    /\ stage' = [stage EXCEPT ![i] = [j \in Jobs |-> "none"]]
    /\ ticket' = [ticket EXCEPT ![i] = [j \in Jobs |-> 0]]
    /\ permit' = [permit EXCEPT ![i] = FALSE]
    /\ UNCHANGED <<table, processed>>
-----------------------------------------------------------------------------
\* A minute passes for every row still open.
Tick ==
    /\ wait' = [j \in Jobs |->
           IF status[j] \in {"pending", "claimed"} /\ wait[j] > -Overdue
           THEN wait[j] - 1 ELSE wait[j]]
    /\ claimAge' = [j \in Jobs |->
           IF status[j] = "claimed" /\ claimAge[j] <= StaleAfter
           THEN claimAge[j] + 1 ELSE claimAge[j]]
    /\ UNCHANGED <<rows, status, attempts, band, memory, processed, faults>>

\* created_at falls behind the next retention interval, 7 days or 30 days.
\* Those are far longer than every other delay, and a row may outlive them
\* unsettled (a long outage): the model lets them elapse at any time.
Age(j) ==
    /\ j \in rows
    /\ band[j] # "month"
    /\ band' = [band EXCEPT ![j] = IF @ = "young" THEN "week" ELSE "month"]
    /\ UNCHANGED <<rows, status, attempts, wait, claimAge, memory,
                   processed, faults>>

\* Wrong: the status filter of the first DELETE is missing.
OldAnyStatus == {j \in rows : band[j] # "young"}
\* Wrong: the second DELETE repeats the status of the first.
OldFailedNever == {j \in rows : status[j] = "done" /\ band[j] = "month"}

OldDone == {j \in rows : status[j] = "done" /\ band[j] # "young"}
OldFailed == {j \in rows : status[j] = "failed" /\ band[j] = "month"}

\* purge_old: two DELETEs; if the first one fails the second is not tried.
PurgeOld ==
    /\ \E failedToo \in BOOLEAN :
         rows' = rows \ (OldDone \cup IF failedToo THEN OldFailed ELSE {})
    /\ UNCHANGED <<status, attempts, wait, claimAge, band, memory,
                   processed, faults>>
-----------------------------------------------------------------------------
Poll(i) == ClaimBatch(i) \/ ClaimNothing(i)
Process(i, j) == ProcessOk(i, j) \/ ProcessErr(i, j)
Mark(i, j) == MarkDone(i, j) \/ MarkFailed(i, j)

Next ==
    \/ \E i \in Instances :
        \/ \E j \in Jobs : EnqueueLink(i, j) \/ EnqueueNote(i, j)
        \/ Poll(i) \/ ClaimError(i) \/ WakeByTimer(i) \/ WakeByNotify(i)
        \/ \E j \in Jobs : \/ StartJob(i, j) \/ Process(i, j)
                           \/ Mark(i, j) \/ MarkError(i, j)
        \/ Crash(i)
    \/ Tick
    \/ \E j \in Jobs : Age(j)
    \/ PurgeOld

Spec == Init /\ [][Next]_vars

\* The consumer is a task the runtime keeps polling, its sleeps and requests
\* end, the clock advances, and cron runs the purge.  Nothing is assumed of
\* captures, of the choice between Ok and Err, or of faults, whose number is
\* bounded: after the last of them the process stays up.
Fairness ==
    /\ \A i \in Instances :
        /\ WF_vars(Poll(i))
        /\ WF_vars(WakeByTimer(i))
        /\ WF_vars(\E j \in Jobs : StartJob(i, j))
        /\ WF_vars(\E j \in Jobs : Process(i, j))
        /\ WF_vars(\E j \in Jobs : Mark(i, j))
    /\ WF_vars(Tick)
    /\ \A j \in Jobs : WF_vars(Age(j))
    /\ WF_vars(PurgeOld)

FairSpec == Spec /\ Fairness
-----------------------------------------------------------------------------
Settled == {"done", "failed"}

\* The number of a claim is a ticket nobody else holds: two instances may end
\* up with the same row, after a claim went stale, but never under the same
\* attempts value.  It is what "prevents two concurrent claimers from taking
\* the same row" (claim_batch), whatever crashes, lost answers and late marks.
UniqueTickets ==
    \A i, k \in Instances, j \in Jobs :
        i # k /\ j \in Held(i) \cap Held(k) => ticket[i][j] # ticket[k][j]

\* No accepted row is given up silently: it is done only if its processing has
\* returned Ok, failed only once all its attempts are used up, and leaves the
\* table only done or failed (mark_done, mark_failed and purge_old).
NothingLost ==
    \A j \in Jobs :
        /\ status[j] = "done" => j \in processed
        /\ status[j] = "failed" => attempts[j] > 0 /\ attempts[j] >= MaxAttempts
        /\ status[j] # "none" /\ j \notin rows => status[j] \in Settled

\* With one consumer, which is what main.rs starts, a row in its batch is
\* claimed under the very ticket it holds until it marks it: no stale reclaim,
\* purge or late mark takes a row from under a live worker.
HolderOwnsRow ==
    \A i \in Instances : \A j \in Held(i) :
        j \in rows /\ status[j] = "claimed" /\ ticket[i][j] = attempts[j]

\* The queue as its callers see it: done and failed are final, whether or not
\* purge_old has removed the row since.
Fate == [j \in Jobs |-> CASE status[j] = "none"   -> "unseen"
                          [] status[j] = "done"   -> "captured"
                          [] status[j] = "failed" -> "abandoned"
                          [] OTHER                -> "open"]

Ledger == INSTANCE CaptureLedger WITH fate <- Fate, tries <- attempts

\* With one consumer the queue implements the ledger: nothing settled is ever
\* reopened, and every accepted row is settled, across crashes and faults.
LedgerSpec == Ledger!Spec

\* Whatever the number of instances, every row is settled for good in the end,
\* even though a late mark may put a settled row back (process, mark_failed).
SettledForGood ==
    \A j \in Jobs : status[j] = "pending" ~> [](status[j] \in Settled)

\* purge_old keeps the table from growing without bound: a row that was
\* accepted is eventually deleted.
EventuallyDeleted == \A j \in Jobs : j \in rows ~> j \notin rows
=============================================================================
