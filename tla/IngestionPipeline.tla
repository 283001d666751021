------------------------- MODULE IngestionPipeline -------------------------
(***************************************************************************)
(* What becomes of one capture: the duplicate check when it is shared      *)
(* (bot/handler.rs, whatsapp/handler.rs), process_inner of                 *)
(* ingestion/pipeline.rs with the relevance interrupt it ends in           *)
(* (scorer/relevance.rs), the 15-minute sweep that fetches stubs again     *)
(* (cron/jobs.rs) and the /reindex command (bot/commands.rs), all of them  *)
(* writing the same items, chunks and logs without a common transaction.   *)
(*                                                                         *)
(* The durable queue below is taken at its word: it is CaptureLedger, which*)
(* IngestionQueue implements.  One job is processed at a time, as by the   *)
(* single consumer main.rs starts.  Every await between two writes is a    *)
(* step boundary.  All captures belong to one group, as the unique index   *)
(* and the duplicate check are per group.                                  *)
(***************************************************************************)
EXTENDS Naturals, FiniteSets

CONSTANTS Captures,      \* messages that may be shared
          Urls,          \* their URLs, pseudo-URLs of notes included
          UrlOf,         \* UrlOf[c]: the URL capture c carries
          Notes,         \* captures whose text is in hand: no fetch, no check
          Users,         \* members of the group with a taste profile
          Sweepers,      \* runs of health_and_retry that may overlap
          MaxAttempts,   \* INGESTION_MAX_ATTEMPTS
          DedupDays,     \* URL_DEDUP_DAYS
          SweepLimit,    \* the LIMIT of pending_retries
          MaxDay,        \* bound: days of a behaviour
          MaxErrors,     \* bound: database and Telegram errors
          MaxCrashes     \* bound: restarts of the program

ASSUME PipelineAssumption ==
    /\ Captures # {} /\ UrlOf \in [Captures -> Urls]
    /\ Notes \subseteq Captures
    /\ IsFiniteSet(Sweepers)
    /\ {MaxAttempts, DedupDays, SweepLimit, MaxDay, MaxErrors, MaxCrashes}
          \subseteq Nat

VARIABLES
    fate, tries,    \* the durable queue, as CaptureLedger knows it
    day,            \* the UTC date
    \* Tables.  An item is named by what its unique index holds of it.
    text,           \* items: what raw_content and summary were made from
    fetch,          \* items.fetch_status
    chunks,         \* chunks: the text the passages were cut from
    events,         \* user_events: how many capture events the item has
    taught,         \* profile updates of the sharer made for the item
    notified,       \* notifications_log
    \* Memory of the program, lost in a crash.
    job,            \* the capture process_inner works on, if step is not idle
    step,           \* how far it is
    item,           \* the id its insert returned
    body,           \* the text it fetched
    audience,       \* users the relevance interrupt has still to look at
    recipient,      \* the user, if any, sent the item but not yet logged
    sweep,          \* sweep[s]: rows pending_retries returned to s
    missing,        \* /reindex: items without chunks, with the text read
    \* Observations and bounds.
    dms,            \* relevance messages delivered
    completed,      \* items whose process_inner ran to its end
    outcomes,       \* how often sweeps have settled the item
    errors, crashes

queue == <<fate, tries>>
store == <<text, fetch, chunks, events, taught, notified>>
loop == <<audience, recipient>>
working == <<job, step, item, body, loop>>
others == <<sweep, missing>>
seen == <<dms, completed, outcomes>>
vars == <<queue, day, store, working, others, seen, errors, crashes>>

Queue == INSTANCE CaptureLedger WITH Jobs <- Captures

Days == 0..MaxDay
Items == Urls \X Days
Texts == {"none", "stub", "full"}
FetchStatuses == {"none", "ok", "pending_retry", "unavailable"}
Steps == {"idle", "fetching", "inserted", "indexed", "logged", "taught",
          "notifying", "ok", "err"}

TypeOK ==
    /\ fate \in [Captures -> Queue!Fates] /\ tries \in [Captures -> Nat]
    /\ day \in Days
    /\ text \in [Items -> Texts] /\ fetch \in [Items -> FetchStatuses]
    /\ chunks \in [Items -> Texts]
    /\ events \in [Items -> Nat] /\ taught \in [Items -> Nat]
    /\ notified \in [Users \X Items -> {"none", "scored", "sent"}]
    /\ job \in Captures /\ step \in Steps /\ item \in Items
    /\ body \in Texts /\ audience \subseteq Users /\ recipient \subseteq Users
    /\ sweep \in [Sweepers -> SUBSET Items] /\ missing \in [Items -> Texts]
    /\ dms \in [Users \X Items -> Nat] /\ completed \subseteq Items
    /\ outcomes \in [Items -> Nat]
    /\ errors \in 0..MaxErrors /\ crashes \in 0..MaxCrashes

NoJob == CHOOSE c \in Captures : TRUE
NoItem == CHOOSE x \in Items : TRUE

Init ==
    /\ Queue!Init
    /\ day = 0
    /\ text = [x \in Items |-> "none"] /\ fetch = [x \in Items |-> "none"]
    /\ chunks = [x \in Items |-> "none"]
    /\ events = [x \in Items |-> 0] /\ taught = [x \in Items |-> 0]
    /\ notified = [ux \in Users \X Items |-> "none"]
    /\ job = NoJob /\ step = "idle" /\ item = NoItem
    /\ body = "none" /\ audience = {} /\ recipient = {}
    /\ sweep = [s \in Sweepers |-> {}] /\ missing = [x \in Items |-> "none"]
    /\ dms = [ux \in Users \X Items |-> 0] /\ completed = {}
    /\ outcomes = [x \in Items |-> 0]
    /\ errors = 0 /\ crashes = 0
-----------------------------------------------------------------------------
Stored == {x \in Items : text[x] # "none"}

Error == errors < MaxErrors /\ errors' = errors + 1
NoError == UNCHANGED errors

\* is_duplicate.  An item exactly DedupDays dates old is in or out of the
\* window by its hour, which the model does not keep.
MayBeNew(u) == \A x \in Stored : x[1] = u => day - x[2] >= DedupDays

\* schedule_urls, and its twin for WhatsApp: a link found to be a duplicate
\* is dropped, and a check that fails counts as "not a duplicate".  A note is
\* not checked.
Share(c) ==
    /\ Queue!Accept(c)
    /\ \/ (c \in Notes \/ MayBeNew(UrlOf[c])) /\ NoError
       \/ c \notin Notes /\ Error
    /\ UNCHANGED <<day, store, working, others, seen, crashes>>

\* Wrong: a row that was claimed once is not claimed again.
ClaimOnce(c) ==
    /\ step = "idle" /\ tries[c] = 0
    /\ Queue!Try({c})
    /\ job' = c
    /\ step' = "fetching"
    /\ UNCHANGED <<day, store, item, body, loop, others, seen, errors,
                   crashes>>

\* claim_batch, as far as the row processed next is concerned.
Claim(c) ==
    /\ step = "idle"
    /\ Queue!Try({c})
    /\ job' = c
    /\ step' = "fetching"
    /\ UNCHANGED <<day, store, item, body, loop, others, seen, errors,
                   crashes>>

\* The claim commits but its answer never arrives.
ClaimLost(c) ==
    /\ step = "idle"
    /\ Queue!Try({c})
    /\ Error
    /\ UNCHANGED <<day, store, working, others, seen, crashes>>
-----------------------------------------------------------------------------
\* Wrong: the error of the insert is logged like the others, and passed over.
InsertErrorLogged ==
    /\ step = "fetching"
    /\ Error
    /\ step' = "ok"
    /\ UNCHANGED <<queue, day, store, job, item, body, loop, others, seen,
                   crashes>>

\* upsert_group or the insert returns an error.
InsertError ==
    /\ step = "fetching"
    /\ Error
    /\ step' = "err"
    /\ UNCHANGED <<queue, day, store, job, item, body, loop, others, seen,
                   crashes>>

StoreItem(x, fetched) ==
    /\ text[x] = "none"
    /\ text' = [text EXCEPT ![x] = fetched]
    /\ fetch' = [fetch EXCEPT ![x] = IF fetched = "full" THEN "ok"
                                                    ELSE "pending_retry"]
    /\ UNCHANGED <<chunks, events, taught, notified>>

\* Wrong: a conflict returns the id of the row that is already there.
InsertUpserts(fetched) ==
    /\ step = "fetching"
    /\ LET x == <<UrlOf[job], day>>
       IN  /\ IF x \in Stored THEN UNCHANGED store ELSE StoreItem(x, fetched)
           /\ item' = x
    /\ step' = "inserted"
    /\ body' = fetched
    /\ UNCHANGED <<queue, day, job, loop, others, seen, errors, crashes>>

\* Wrong: a stub is left for the sweep, nothing more is done with it.
InsertStubAndStop(fetched) ==
    /\ step = "fetching"
    /\ LET x == <<UrlOf[job], day>>
       IN  IF x \in Stored
           THEN step' = "ok" /\ UNCHANGED <<store, item, body>>
           ELSE /\ StoreItem(x, fetched)
                /\ item' = x /\ body' = fetched
                /\ step' = IF fetched = "stub" THEN "ok" ELSE "inserted"
    /\ UNCHANGED <<queue, day, job, loop, others, seen, errors, crashes>>

\* Fetch, summarise, embed, then INSERT .. ON CONFLICT DO NOTHING.  A fetch
\* that fails still makes an item, a stub to be fetched again; a row already
\* there for this URL and day ends the job with Ok.
Insert(fetched) ==
    /\ step = "fetching"
    /\ job \in Notes => fetched = "full"
    /\ LET x == <<UrlOf[job], day>>
       IN  IF x \in Stored
           THEN step' = "ok" /\ UNCHANGED <<store, item, body>>
           ELSE /\ StoreItem(x, fetched)
                /\ item' = x /\ body' = fetched /\ step' = "inserted"
    /\ UNCHANGED <<queue, day, job, loop, others, seen, errors, crashes>>

\* The insert commits but its answer is lost: for the job, an error.
InsertLost(fetched) ==
    /\ step = "fetching"
    /\ job \in Notes => fetched = "full"
    /\ StoreItem(<<UrlOf[job], day>>, fetched)
    /\ Error
    /\ step' = "err"
    /\ UNCHANGED <<queue, day, job, item, body, loop, others, seen,
                   crashes>>

\* index_chunks: replace_for_item with the text fetched, or nothing at all
\* when no passage could be embedded or written, which is only logged.
IndexChunks ==
    /\ step = "inserted"
    /\ \/ chunks' = [chunks EXCEPT ![item] = body]
       \/ UNCHANGED chunks
    /\ step' = "indexed"
    /\ UNCHANGED <<queue, day, text, fetch, events, taught, notified, job,
                   item, body, loop, others, seen, errors, crashes>>

\* events::log; a failure is only logged.
LogEvent ==
    /\ step = "indexed"
    /\ \/ events' = [events EXCEPT ![item] = @ + 1] /\ NoError
       \/ UNCHANGED events /\ Error
    /\ step' = "logged"
    /\ UNCHANGED <<queue, day, text, fetch, chunks, taught, notified, job,
                   item, body, loop, others, seen, crashes>>

Finish == step' = "ok" /\ completed' = completed \cup {item}

\* An item without an embedding teaches nothing and interrupts nobody.
SkipTaste ==
    /\ step = "logged"
    /\ Finish
    /\ UNCHANGED <<queue, day, store, job, item, body, loop, others, dms,
                   outcomes, errors, crashes>>

\* apply_signal: the only write after the insert whose failure fails the job.
ApplyTaste ==
    /\ step = "logged"
    /\ taught' = [taught EXCEPT ![item] = @ + 1]
    /\ step' = "taught"
    /\ UNCHANGED <<queue, day, text, fetch, chunks, events, notified, job,
                   item, body, loop, others, seen, errors, crashes>>

\* It may have committed all the same.
ApplyTasteError ==
    /\ step = "logged"
    /\ Error
    /\ \/ taught' = [taught EXCEPT ![item] = @ + 1]
       \/ UNCHANGED taught
    /\ step' = "err"
    /\ UNCHANGED <<queue, day, text, fetch, chunks, events, notified, job,
                   item, body, loop, others, seen, crashes>>
-----------------------------------------------------------------------------
\* list_active_in_group: a snapshot of the profiles the loop will go through.
\* An error here ends relevance::run, as an empty list does.
ListAudience ==
    /\ step = "taught"
    /\ audience' \in SUBSET Users
    /\ step' = "notifying"
    /\ UNCHANGED <<queue, day, store, job, item, body, recipient, others, seen,
                   errors, crashes>>

Logged(u, what) ==
    notified' = [notified EXCEPT ![<<u, item>>] = IF @ = "none" THEN what
                                                               ELSE @]

\* The loop turns to a user of the snapshot, once it is done with the last.
Considering(u) ==
    /\ step = "notifying" /\ u \in audience /\ recipient = {}
    /\ audience' = audience \ {u}

\* The score is below the user's threshold; it is logged if so configured,
\* and a log that fails is passed over.
BelowThreshold(u) ==
    /\ Considering(u)
    /\ Logged(u, "scored") \/ UNCHANGED notified
    /\ UNCHANGED <<queue, day, text, fetch, chunks, events, taught, job, step,
                   item, body, recipient, others, seen, errors, crashes>>

\* Muted, already notified, or the message could not be sent.
NotSent(u) ==
    /\ Considering(u)
    /\ UNCHANGED <<queue, day, store, job, step, item, body, recipient, others,
                   seen, errors, crashes>>

\* Not notified yet, and send_message is answered Ok; the log comes next.
SendDM(u) ==
    /\ Considering(u)
    /\ notified[<<u, item>>] = "none"
    /\ dms' = [dms EXCEPT ![<<u, item>>] = @ + 1]
    /\ recipient' = {u}
    /\ UNCHANGED <<queue, day, store, job, step, item, body, others, completed,
                   outcomes, errors, crashes>>

\* It is delivered all the same, but Telegram's answer is lost.
SendLost(u) ==
    /\ Considering(u)
    /\ notified[<<u, item>>] = "none"
    /\ dms' = [dms EXCEPT ![<<u, item>>] = @ + 1]
    /\ Error
    /\ UNCHANGED <<queue, day, store, job, step, item, body, recipient, others,
                   completed, outcomes, crashes>>

\* notifications::log, then the event and signal of the recipient, whose
\* failures are only logged.
LogSent(u) ==
    /\ step = "notifying" /\ u \in recipient
    /\ Logged(u, "sent")
    /\ recipient' = {}
    /\ UNCHANGED <<queue, day, text, fetch, chunks, events, taught, job, step,
                   item, body, audience, others, seen, errors, crashes>>

\* An error of already_notified or of notifications::log ends the loop: the
\* users left are not looked at, and the job is Ok all the same.
StopNotifying ==
    /\ step = "notifying" /\ audience \cup recipient # {}
    /\ Error
    /\ audience' = {} /\ recipient' = {}
    /\ Finish
    /\ UNCHANGED <<queue, day, store, job, item, body, others, dms, outcomes,
                   crashes>>

DoneNotifying ==
    /\ step = "notifying" /\ audience \cup recipient = {}
    /\ Finish
    /\ UNCHANGED <<queue, day, store, job, item, body, loop,
                   others, dms, outcomes, errors, crashes>>
-----------------------------------------------------------------------------
\* The working memory of a consumer between jobs.
Rest == /\ step' = "idle" /\ job' = NoJob /\ item' = NoItem
        /\ body' = "none" /\ audience' = {} /\ recipient' = {}

\* mark_done.
MarkDone ==
    /\ step = "ok"
    /\ Queue!Capture(job)
    /\ Rest
    /\ UNCHANGED <<day, store, others, seen, errors, crashes>>

\* mark_failed: parked when out of attempts, else back in line.
MarkFailed ==
    /\ step = "err"
    /\ IF tries[job] >= MaxAttempts THEN Queue!Abandon(job) ELSE UNCHANGED queue
    /\ Rest
    /\ UNCHANGED <<day, store, others, seen, errors, crashes>>

\* Neither could be written: the row stays claimed until it goes stale.
MarkError ==
    /\ step \in {"ok", "err"}
    /\ Error
    /\ Rest
    /\ UNCHANGED <<queue, day, store, others, seen, crashes>>

Crash ==
    /\ crashes < MaxCrashes
    /\ crashes' = crashes + 1
    /\ Rest
    /\ sweep' = [s \in Sweepers |-> {}]
    /\ missing' = [x \in Items |-> "none"]
    /\ UNCHANGED <<queue, day, store, seen, errors>>

Midnight ==
    /\ day < MaxDay
    /\ day' = day + 1
    /\ UNCHANGED <<queue, store, working, others, seen, errors, crashes>>
-----------------------------------------------------------------------------
\* Wrong: everything that is not ok is taken for pending.
PendingNotOk == {x \in Items : fetch[x] \in {"pending_retry", "unavailable"}}
Pending == {x \in Items : fetch[x] = "pending_retry"}

Older(x, y) == x[2] <= y[2]

\* pending_retries: ORDER BY created_at LIMIT 20, ties broken arbitrarily.
SweepBegin(s) ==
    /\ sweep[s] = {}
    /\ Pending # {}
    /\ \E batch \in SUBSET Pending :
        /\ Cardinality(batch) = IF Cardinality(Pending) < SweepLimit
                                THEN Cardinality(Pending) ELSE SweepLimit
        /\ \A x \in batch, y \in Pending \ batch : Older(x, y)
        /\ sweep' = [sweep EXCEPT ![s] = batch]
    /\ UNCHANGED <<queue, day, store, working, missing, seen, errors, crashes>>

SweepNext(s, x) ==
    /\ x \in sweep[s]
    /\ \A y \in sweep[s] : Older(x, y)
    /\ sweep' = [sweep EXCEPT ![s] = @ \ {x}]

Settle(x, outcome) ==
    /\ fetch' = [fetch EXCEPT ![x] = outcome]
    /\ outcomes' = [outcomes EXCEPT ![x] = @ + 1]
    /\ UNCHANGED <<dms, completed>>

\* update_after_fetch.  The chunks are left as they are.
Refetched(s, x) ==
    /\ SweepNext(s, x)
    /\ text' = [text EXCEPT ![x] = "full"]
    /\ Settle(x, "ok")
    /\ UNCHANGED <<queue, day, chunks, events, taught, notified, working,
                   missing, errors, crashes>>

\* Wrong: an item that is still unavailable is left for the next sweep.
ExhaustedNever(s, x) ==
    /\ SweepNext(s, x)
    /\ UNCHANGED <<queue, day, store, working, missing, seen, errors, crashes>>

\* mark_retry_exhausted, after one fetch that failed.
Exhausted(s, x) ==
    /\ SweepNext(s, x)
    /\ Settle(x, "unavailable")
    /\ UNCHANGED <<queue, day, text, chunks, events, taught, notified, working,
                   missing, errors, crashes>>

\* Wrong: the passages are cut anew before the item is written.
SweepErrorAfterIndexing(s, x) ==
    /\ SweepNext(s, x)
    /\ Error
    /\ chunks' = [chunks EXCEPT ![x] = "full"]
    /\ UNCHANGED <<queue, day, text, fetch, events, taught, notified, working,
                   missing, seen, crashes>>

\* Either write fails: logged, and the sweep goes on.
SweepError(s, x) ==
    /\ SweepNext(s, x)
    /\ Error
    /\ UNCHANGED <<queue, day, store, working, missing, seen, crashes>>

SweepOne(s) == \E x \in Items : Refetched(s, x) \/ Exhausted(s, x)
-----------------------------------------------------------------------------
Unchunked == {x \in Stored : chunks[x] = "none"}

\* /reindex: items_missing_chunks reads the texts of all items it will index.
ReindexBegin ==
    /\ \A x \in Items : missing[x] = "none"
    /\ Unchunked # {}
    /\ missing' = [x \in Items |-> IF x \in Unchunked THEN text[x] ELSE "none"]
    /\ UNCHANGED <<queue, day, store, working, sweep, seen, errors, crashes>>

\* index_chunks of the text read, whatever has been written since; nothing is
\* written when no passage could be embedded.
ReindexItem(x) ==
    /\ missing[x] # "none"
    /\ \/ chunks' = [chunks EXCEPT ![x] = missing[x]]
       \/ UNCHANGED chunks
    /\ missing' = [missing EXCEPT ![x] = "none"]
    /\ UNCHANGED <<queue, day, text, fetch, events, taught, notified, working,
                   sweep, seen, errors, crashes>>
-----------------------------------------------------------------------------
Ingest == \E fetched \in {"stub", "full"} : Insert(fetched)
Learn == IndexChunks \/ LogEvent \/ SkipTaste \/ ApplyTaste
Notify == \/ ListAudience \/ DoneNotifying
          \/ \E u \in Users : \/ BelowThreshold(u) \/ NotSent(u)
                              \/ SendDM(u) \/ LogSent(u)
Mark == MarkDone \/ MarkFailed

Next ==
    \/ \E c \in Captures : Share(c) \/ Claim(c) \/ ClaimLost(c)
    \/ Ingest \/ InsertError
    \/ \E fetched \in {"stub", "full"} : InsertLost(fetched)
    \/ Learn \/ ApplyTasteError \/ Notify \/ StopNotifying
    \/ \E u \in Users : SendLost(u)
    \/ Mark \/ MarkError \/ Crash \/ Midnight
    \/ \E s \in Sweepers : \/ SweepBegin(s) \/ SweepOne(s)
                           \/ \E x \in Items : SweepError(s, x)
    \/ ReindexBegin \/ \E x \in Items : ReindexItem(x)

Spec == Init /\ [][Next]_vars

\* The consumer is a task the runtime keeps polling, every await of which
\* ends, and the queue hands it each open row again (LedgerSpec of
\* IngestionQueue).  Cron keeps starting the sweep, whose fetches time out.
\* Nothing is assumed of shares, commands, fetch results, errors or crashes,
\* the number of which is bounded.
Fairness ==
    /\ \A c \in Captures : SF_vars(Claim(c))
    /\ WF_vars(Ingest) /\ WF_vars(Learn) /\ WF_vars(Notify) /\ WF_vars(Mark)
    /\ \A s \in Sweepers : WF_vars(SweepBegin(s)) /\ WF_vars(SweepOne(s))

FairSpec == Spec /\ Fairness
-----------------------------------------------------------------------------
\* A capture recorded as done has left an item with its URL, whatever errors,
\* lost answers and restarts its job went through (process, process_inner).
CapturedHasItem ==
    \A c \in Captures :
        fate[c] = "captured" => \E x \in Stored : x[1] = UrlOf[c]

\* A job is run again after a crash or a lost mark, but an item is learned
\* from once: it counts once in the sharer's profile and event stream, and no
\* user is sent it twice ("One-per-(user,item)", notifications_log).
LearnedOnce ==
    /\ \A x \in Items : events[x] <= 1 /\ taught[x] <= 1
    /\ \A ux \in Users \X Items : dms[ux] <= 1

\* The price of not being atomic after the insert: each error or restart
\* leaves at most one item that was stored but never indexed, learned from and
\* offered to others (process_inner after items::insert).
UnlearnedArePaidFor ==
    LET atWork == IF step \in {"idle", "fetching", "err"} THEN {} ELSE {item}
    IN  Cardinality(Stored \ (completed \cup atWork)) <= errors + crashes

\* Sweeps may overlap, and each writes the outcomes of the items it has read,
\* whatever the others wrote of them since: but one that begins when an item
\* is settled passes it over, so it is settled no more often than sweeps
\* overlap, and once without overlap (pending_retries, update_after_fetch,
\* mark_retry_exhausted).
OneOutcomePerSweep == \A x \in Items : outcomes[x] <= Cardinality(Sweepers)

\* No passage is cut from a text the item does not have: chunks may lag
\* behind a refetched item but are never ahead of it, although /reindex, the
\* pipeline and the sweep write without looking at each other.
ChunksNotAhead == \A x \in Items : chunks[x] = "full" => text[x] = "full"

\* Every stub is fetched again and settled, across restarts that cut sweeps
\* short (health_and_retry).
StubsSettled ==
    \A x \in Items :
        fetch[x] = "pending_retry" ~> fetch[x] \in {"ok", "unavailable"}

\* Every accepted capture is settled: no path through process_inner leaves
\* its job unmarked for ever.
CapturesSettled == Queue!EventuallySettled

\* "Restart the EC2 instance and nothing is lost" (README): a capture is done
\* only when an item of its URL has been through the whole pipeline.
RestartLosesNothing ==
    \A c \in Captures :
        fate[c] = "captured" => \E x \in completed : x[1] = UrlOf[c]
=============================================================================
