# A formal model of Arnheid

Arnheid (`src/`) is a chat bot, one Rust process on tokio, that turns what people share in Telegram
groups and WhatsApp chats into a searchable corpus in CockroachDB. Whatever is worth keeping goes
through a durable queue (`ingestion_jobs`) into an ingestion pipeline; cron jobs retry, prune and
build a graph; a language model answers questions over the corpus; and each user has a taste profile
that decides what they are interrupted with.

This directory holds TLA+ modules of that program, TLC configurations that check them on small
instances, and TLAPS proofs. Paths below are relative to `src/src/` unless they say otherwise.

## Inventory

| Component | State | Operations | What makes it hard | What makes it correct |
|---|---|---|---|---|
| Durable queue (`db/ingestion_jobs.rs`) | rows: status, attempts, run_after, claimed_at | enqueue, claim (with stale reclaim), mark done / failed, purge | claims that go stale, several instances, lost answers | nothing accepted is lost; outcomes are final; retries are counted; the table stays bounded |
| Consumer (`ingestion/mod.rs`) | loop phase, batch, notify permit | poll, wait, back off, process a row at a time | crash at any await, a notification nobody waits for | every row is eventually settled |
| Pipeline (`ingestion/pipeline.rs`, `db/items.rs`, `db/chunks.rs`) | items, chunks, events, profile updates | fetch, insert, index, log, learn, notify | a dozen writes without a transaction, run again after failures | done means stored; learned from at most once |
| Relevance interrupt (`scorer/relevance.rs`, `db/notifications.rs`) | notifications_log | score, send, log per user | send and log are apart; the audience is read once | one message per user and item; nobody is skipped; a mute holds for later runs |
| Cron (`cron/mod.rs`, `cron/jobs.rs`) | fetch_status of stubs | retry sweep, purge, graph, monitor | runs that overlap, restarts in between | every stub is settled, once |
| Telegram intake (`bot/handler.rs`, `bot/member.rs`, `intake.rs`) | message buffer, queue | buffer, link and note capture, routing to commands, questions and notes | the duplicate check and the enqueue are apart; two model calls that need not agree; partial failures | what is acknowledged is safe; every message meant for the bot is answered, kept or reported |
| Telegram commands (`bot/commands.rs`) | all tables | /ask, /reindex, /buildgraph, /mute, /threshold, ... | long loops over a snapshot, failures | no older text over a newer one; a command always ends in a reply or an alert |
| WhatsApp intake (`http.rs`, `whatsapp/handler.rs`, `db/channels.rs`) | channel_events, one task per delivery | webhook, record, queue, acknowledge | concurrent redelivery, answered before handled | queued once; acknowledged only if queued; never silent |
| Graph builder (`graph/builder.rs`, `db/edges.rs`, `db/entities.rs`) | graph_processed, entities, edges | build by cron or command | two builds at once, failing batches | each item contributes once |
| Taste (`db/taste.rs`, `scorer/vectors.rs`, `bot/callbacks.rs`) | vector, weight, threshold, mute | signal, decay, calibrate, mute | read-modify-write by many tasks | signals are lost to overlaps only; a dismissal never attracts; a threshold is raised only for dismissals |
| Agent loop (`query/agent.rs`, `query/handler.rs`, `mcp/toolbox.rs`) | turn, tool and repair budgets, sources | ask, call tools, repair, answer | budgets that run out, failing models, repeated calls | one reply, no effect twice, citations that name what was shown |
| Sessions (`db/sessions.rs`) | one session per user and chat, its turns | open or reuse, append, read back | concurrent messages, equal timestamps | turns come in exchanges, the oldest go first |
| Agent memory (`db/agent_memory.rs`) | blocks with a size limit | append, replace | read-modify-write | limits hold, notes are lost to overlaps only |
| MCP sources (`mcp/mod.rs`, `mcp/client.rs`, `mcp/gsuite.rs`) | registry, sessions, cached token | connect, list, call, refresh | servers that are down, clashing names, concurrent refreshes | a name leads to its owner; no expired token is sent; one refresh at a time |
| Delivery (`bot/alerts.rs`, `bot/send.rs`) | cooldowns | alert, retry a send | lost answers, concurrent failures | one alert per window; a reply at most once per lost answer more |
| Chunker (`ingestion/chunker.rs`) | none | split a text | boundaries | nothing is dropped, sizes hold |
| The rest: fetchers, LLM clients, search SQL, wire formats, formatting, configuration, metrics, web front end, scripts | none of its own to interleave | | | |

How they interact: the intakes insert rows and poke `ingestion_notify`; the consumer claims rows and runs
the pipeline on them; the pipeline, the sweep and `/reindex` write the same items and chunks; the pipeline
ends in the relevance loop, which reads the taste profiles that captures, dismissals, commands and the
nightly calibration write. Questions of one user share a session per chat, the core memory blocks and,
inside the process, the registry of tools with its cached token; failures of every handler meet in the
cooldowns of the alerts. Tables are the only shared state that survives; there is no transaction over more
than one statement on the ingestion path.

## Modules

`CaptureLedger` is the abstract specification: a capture is accepted, tried, and then captured or,
after at least `MaxAttempts` tries, abandoned. Both fates are final and one is reached.

`IngestionQueue` is the queue and its consumers in detail.
- Its table variables are columns of `ingestion_jobs`; its memory variables are the locals of
  `run_consumer` in each instance: where the loop stands, the batch with the `attempts` value each
  claim returned (`ticket`), and the permit `Notify` stores.
- `ClaimBatch` is the single UPDATE of `claim_batch`, `ClaimError` that UPDATE failing, or committing
  without its answer. `MarkDone` and `MarkFailed` write by id only, as the code does, so a worker
  whose claim went stale overwrites what it no longer owns. `Crash` forgets the memory of an instance.
- Time is a distance from NOW() in ticks, saturating where the code stops comparing, so the clock
  needs no bound.
- It implements `CaptureLedger` under the refinement mapping `Fate`, when there is one instance.

`IngestionPipeline` takes the queue as `CaptureLedger` promises it, and models what processing a job
does: each await that writes is an action, with the errors `process_inner` returns (`InsertError`,
`ApplyTasteError`), those it only logs, and answers that are lost after the write committed. Beside
it run the sweep of `health_and_retry`, `/reindex` and midnight, which changes the date of the unique
index. An item is named by what that index holds: URL and day. `text` says what the item was made of
(nothing, a stub, the full text), `chunks` which text its passages were cut from.

`WhatsAppIntake` models the webhook, one task per delivery, and what Meta may do: not deliver yet,
deliver again after a 200 or while the first delivery is being handled. Its end is an inserted row, a reply,
a refusal, an alert, or nothing at all: an empty text is passed over, and the refusal of a kind that cannot be
kept is sent once, its failure dropped (`PassOver`).

`GraphBuilder` models `builder::run` as cron and `/buildgraph` start it, over items that keep being stored.
Per run it holds the locals of the code: the items of the batch whose group is still to be done, those of
the group at hand, and the edges of the model's answer still to be inserted. The answer is an arbitrary list
of edges among the items of the prompt and the entities, in which an edge may stand up to `MaxRepeats`
times, since nothing in the code looks for repetitions. Edges are counted per run that inserted them, so
that a run repeating itself and two runs repeating each other are told apart. `RecentError`, `ExtractFails`
and `AddError` all end in the mark, as in the code; `RunError` ends the run.

`TasteProfile` has every writer of `user_taste_profiles` as the code has it: a SELECT, some arithmetic, and
an INSERT ... ON CONFLICT DO UPDATE that writes back columns of the row it read (`Upsert`). The writers are
the consumer, which learns from a capture and then runs the relevance interrupt over the audience it listed
(`ListAudience`, `Interrupt`, `Send`, `LogSent`, `Credit`), the dismiss button (`Dismiss`,
`ReadForDismissal`, `PushAway`), which ends in a calibration of its own, `calibrate_all` of the night
(`Sweep`), `/threshold` and `/mute`. A vector is the set of items mixed into it and a weight is there or
not: `WeightedUpdate` keeps what the floating-point code distinguishes, whether an item moves the vector and
whether the old vector survives. A list of tags is kept as each tag's place in it, so that `MergeTags`
moves, pushes and in the end drops tags as `merge_tags` does. `week` counts dismissals that are less than
seven days old.

`AgentLoop` is one `/ask`, or several at once: the turns of the model, each an arbitrary reply, the
repair, the calls of a turn, dispatched one after the other to a tool each, the numbered sources, and what
becomes of errors. A result is cut to `MAX_RESULT_CHARS` before the model sees it, so what was found and what
was shown are kept apart. The questions are those of one user: they share the chat's session, whose turns are
rows with a timestamp, and a block of core memory, edited as a read (`CoreMemoryRead`) and a write
(`WriteBlock`). What the registry does with an integration is `McpSources`.

`McpSources` is the registry and the sources behind it: startup goes through the configured servers one by
one, paging through their tools (`ListTools`), adding it to the backends (`AddServer`) and giving each tool
an exposed name (`RegisterTool`), or skipping what cannot be reached. Calls of GSuite take the token from
the cache or refresh it while they hold the mutex (`UseToken` to `Refreshed`), and a search is a chain of
requests that each take it again. Time is a `Tick` that ages tokens and requests alike; `Mint` and `Arrive`
are the moments at the far end when a token is issued and a request is judged.

`TelegramIntake` is the message endpoint, message by message, with the dispatcher's rule that a chat's
messages wait for each other and chats do not. It takes a message apart as the handler does, by kind,
sender, mention, command, links and flags, and follows it to a job, a reply, an acknowledgement or an
alert: `schedule_urls` link by link, the two calls of the classifier as two independent choices,
`with_retry` attempt by attempt, `notify` with its cooldown. `/buildgraph` and `/reindex` announce themselves
before they run, so an answer has two parts, a notice and a reply, each sent with retries of its own.

`MCIngestionQueue`, `MCIngestionPipeline`, `MCWhatsAppIntake`, `MCGraphBuilder`, `MCTasteProfile`,
`MCAgentLoop`, `MCMcpSources` and `MCTelegramIntake` give the constants their values.
Operators whose comment begins with "Wrong:" are defects a change could plausibly introduce; no
specification uses them. They are kept to show that the properties notice each of them.

## Runs

| Run | Checks | Shows |
|---|---|---|
| `MCQueueOne` | `HolderOwnsRow`, `NothingLost`, `LedgerSpec`, `EventuallyDeleted` | One consumer, two rows, two faults anywhere: the queue implements the ledger with its liveness, and the purge empties the table without touching live rows. |
| `MCQueueTwo` | `SettledForGood` | Two instances and claims that go stale under a slow worker. Rows are independent but for the batch, so one row shows the race; the theorems cover the rest. |
| `MCPipelineTwice` | `CapturedHasItem`, `LearnedOnce`, `UnlearnedArePaidFor`, `ChunksNotAhead` | One link shared twice over two days, one user to interrupt, an error and a restart anywhere, one sweep and `/reindex` beside it. |
| `MCPipelineLive` | `OneOutcomePerSweep`, `StubsSettled`, `CapturesSettled` | A link and a note with an error and a restart, and two sweeps that may overlap: a sweep settles no item again that was settled when it began, and every stub and every capture is settled. |
| `MCPipelineRestart` | `RestartLosesNothing` fails | The insert is where a job becomes "done" for its next run: after a restart there, indexing, learning and notifying never happen. |
| `MCWhatsAppTwice` | `TypeOK`, `QueuedOnce`, `AckedIsQueued`, `NothingSilent` | Any two of a message with two links, a text, a voice note and a sticker, each delivered up to twice, with an error and a restart: queued once; every link of an acknowledged message is queued, known already or reported; and what is to be kept never ends in silence while the process stays up. |
| `MCGraphOverlap` | `OncePerBuilder`, `WrittenOffByErrors`, `RunsEnd`, `EveryItemProcessed` | Cron and `/buildgraph` together, two items in two groups, an error or restart, a model that may fail every time and may name an edge twice: a builder asks about an item once, or once more per fault. |
| `MCTaste` | `VectorHasWeight`, `ThresholdEarned`, `LostOnlyToOverlap`, `DismissalKeepsVector` | Two users, three captures, one dismissal, one command, both calibrations, one fault: overlapping read-modify-writes may lose a signal, a full list loses its oldest tag, and nothing else is lost; they never turn a dismissal into a taste. |
| `MCAudience` | `NobodySkipped`, `MuteHoldsForLaterRuns` | Three users, three captures: the loop over the audience leaves somebody out only when a database error or a restart ends it, and only a run that listed its audience before a mute disregards it. |
| `MCAgent` | `TypeOK`, `ActsOnce`, `CitationsTrue`, `MemoryWithinLimit`, `NotesLostToOverlap`, `EveryQuestionEnds` | Two questions at once, one with every tool: budgets hold, no call takes effect twice, a number that was shown keeps its meaning, and every question is replied to unless its web search hangs. |
| `MCMcp` | `RoutesReachOwner`, `TokenFresh`, `RefreshOnlyWhenNeeded`, `EveryCallEnds` | GSuite and two servers that may be down and share a slug; two callers and a token that expires. |
| `MCTelegram` | `AckedIsSafe`, `OneAlertPerWindow`, `AnsweredOnceOrNoted`, `SomethingHappens` | Two chats side by side, two messages each, two faults anywhere: one message is a command that announces itself, and a question may hang in the agent. |

The run that fails states what the repository says of itself; `PROJECT.json` quotes the sentence.

### Known disagreements

The models have more behaviours at odds with a comment or a document than the one a run shows. All of
them follow from the actions as they stand:

- `max_attempts` is looked at by `mark_failed` alone, so a row that kills the worker is claimed for ever;
  the comment at `db/ingestion_jobs.rs:96-98` says it "still eventually stops being reclaimed".
- Of two overlapping sweeps the later one writes over the earlier one's outcome: an item that was fetched in
  full may end up "unavailable" (`mark_retry_exhausted`, `db/items.rs:217`, writes by id). Only sweeps that
  had read the item before are affected (`OneOutcomePerSweep`).
- `web_search` waits for a shell command without a timeout (`search/shell.rs:82-87`), so a question may never
  be answered, against `bot/commands.rs:157`; the dispatcher handles a chat's messages in turn, so on Telegram
  the later messages of that chat then wait for ever too.
- A WhatsApp message answered with 200 lives in memory until its row is inserted, and is recorded as seen
  before: a restart loses it, against `src/README.md:63-64`.
- Two WhatsApp notes of one sender within a millisecond get one pseudo-URL, against "unique per capture"
  (`intake.rs:288-289`).
- A build by cron and one by `/buildgraph` insert the edges of an item twice, against
  `src/README.md:312-313`.
- `query/agent.rs:270` and `query/handler.rs:563` say that a failing loop falls back to the fixed pipeline;
  `handle_or_fallback` replies with an error text instead, and nothing calls the pipeline (`handle`).
- `bot/commands.rs:102-103` says internal errors of a question "are alerted to the admin";
  `handle_or_fallback` only logs them.
- The reply to a failed question asks to try again although a tool of the failed one may have acted; a
  call takes effect once per question, not once per intention.
- The privacy nudge is sent when no message of the chat is buffered, but the message at hand has been
  buffered by then (`bot/handler.rs:454`), so a first link does not trigger it.
- The cooldown of an alert is taken before the alert is delivered: if the delivery fails, the window passes
  in silence.
- The caption of a voice note is not searched for links (`bot/handler.rs:78` returns before), against
  "links in any message are captured passively" (`bot/handler.rs:8`). `AckedIsSafe` therefore excludes it,
  and the voice note of `MCTelegram` has such a link.
- Both turns of an exchange carry the same `NOW()` and are ordered by it alone, so a reader may find them
  in either order, or one without the other at the limit.

### Bounds

- Queue: two rows make batches with more than one row, rows left behind in a batch and ties; two
  attempts separate "back to pending" from "parked"; two faults allow a crash during recovery from
  another. Delays are a few ticks in an order that matches the code's (`MCIngestionQueue`). The batch
  size is 2 of the code's 20.
- Pipeline: two shares of one URL are what the duplicate check and the unique index are about; two
  days (`MaxDay = 1`) put midnight between any two steps; `DedupDays = 1` lets the window pass too.
  One user suffices for "sent once", which is per user. `SweepLimit = 1` makes the LIMIT bite.
  Errors and crashes are bounded by 1 each, after any of which a job runs again. `MCPipelineLive` has two
  sweeps, so one can begin while another is at any point; the item is one link's, and the note never is a stub.
- WhatsApp: of four messages (two links, a text, a voice note, a sticker) two are sent (`MaxSent = 2`); two
  deliveries of each give four concurrent tasks; two milliseconds tell equal from different stamps; one
  error and one restart.
- Graph: two items in two groups make batches of one and of two groups; `BatchSize = 2` of the code's
  20 lets a batch be full or short. Two runs overlap, and one fault falls on either of them, anywhere.
  `MaxRepeats = 2` is the least that lets an answer repeat itself. One
  entity gives each item one possible edge; edges between entities do not touch the properties.

- Taste: two users make one the sharer and one the audience, and three captures let one user share two; one
  dismissal, one command and one fault meet any of the steps of the others. Scores are 0 and 1, so a
  threshold can be raised once; `DismissLimit` is 0 of the code's 3, since what is counted beyond it is the
  same. Lists hold two tags (`MaxTags`) of the code's 20, fewer than the three captures teach. Three users
  make an audience of two, in either order.
- Agent: two turns of two calls of the code's five and three, with plans that exceed the latter; two
  sources of eight, with searches that find three; a block of three units, so that two edits that each
  fit do not fit together.
- MCP: a list of three pages and a registry of three tools, both of which overflow; a token of four units
  that counts as expired two early, twice the unit a request may last, as 60 s is to 20 s and more.
- Telegram: the first chat has a link shared twice, once in a caption beside another, the second a voice
  note with a link and a command; two attempts of a send, two faults.

Every bound is a constant in its module (`Overdue`, `MaxFaults`, `MaxDay`, `MaxErrors`, `MaxCrashes`,
`MaxDeliveries`, `MaxSent`, `MaxClock`, `MaxRepeats`, `MaxPresses`, `MaxCommands`) and is named as a bound
there. Deadlock is checked for the queue, where the clock always ticks, and the graph builder, which cron
starts again and again; the others stop once their bounded shares, messages or questions are settled.

### Fairness

- The consumer is a task tokio keeps polling, its sleeps end, and the requests and queries it awaits
  time out: weak fairness on polling, waking, starting, processing and marking a row. Which of Ok and
  Err processing returns is not assumed.
- The clock ticks, rows age, and cron runs the purge and the sweep: weak fairness on each.
- In the pipeline the next claim of each open row is strongly fair. That is what the queue provides:
  `LedgerSpec` includes that every open row is settled, which takes being claimed again and again.
- Meta delivers a message it was sent at least once, and the runtime runs each spawned task.
- Cron keeps starting the graph builder, and the calls a run awaits end: weak fairness on the start of the
  builders in `Scheduled`, which are cron's and not `/buildgraph`'s, and on the next step of every run.
  Whether the model's answer is usable is not assumed, ever.
- A question, a call and a message handler, once started, keep running: the clients of the models, of Telegram,
  of pages, of MCP servers and of Google have timeouts (10 s to 180 s), and so have `yt-dlp` and `bash_exec`
  (weak fairness on the steps of each). `web_search` has none, so nothing is assumed of it: the fairness of
  `AgentLoop` leaves out a question at its search (`Searching`), that of the two intakes a message that waits
  for the agent ("asking"), and `EveryQuestionEnds`, `SomethingHappens` and `NothingSilent` allow that one wait.
- Statements end: the database answers, or its connection breaks. sqlx bounds the wait for a connection, not
  a statement; this is an assumption about CockroachDB.
- Tokio's mutex is fair, so a
  caller that waits for the token gets it (strong fairness on `UseToken`, which other callers disable again
  and again). Which of its outcomes a step has is not assumed.
- Nothing is assumed of people, errors, lost answers or crashes. Their number in a behaviour is
  bounded; liveness says what holds once they stop.

`NothingSilent` promises nothing after a restart of the process, nor does `EveryQuestionEnds` of the
questions a restart ends. `TasteProfile` states no fairness: its properties are about what a step may do.

## Proofs

`IngestionQueueProofs` proves for every set of rows and instances and every value of the delays and
bounds (under `QueueAssumption` and `BackoffAssumption`):

| Theorem | Says |
|---|---|
| `TypeCorrect` | `Spec => []TypeOK` |
| `TicketsUnique` | `Spec => []UniqueTickets`, any number of instances |
| `NothingIsLost` | `Spec => []NothingLost`, any number of instances |
| `HolderOwns` | `Spec => []HolderOwnsRow`, with at most one instance |
| `QueueImplementsLedger` | `Spec => Ledger!SafeSpec`, with at most one instance |

The argument: `UniqueTickets` is not inductive. A claim hands out `attempts + 1`, so one must know
that every ticket still held is at most its row's `attempts` (`TicketsBehindRow`); then a new ticket
differs from all older ones. `NothingLost` is not inductive either: a row is marked by what its holder
remembers, so `TicketsBehindRow` also says that a row held at stage "ok" is in `processed`.
`QueueInv` is the conjunction of these with `TypeOK` and the absence of rows not yet enqueued.
With one instance `OwnerInv` adds `HolderOwnsRow` and `IdleHoldsNothing`, a consumer that polls or
waits holds no row: a claim then never takes a row that is still held. The refinement maps each
action to a step of the ledger or a stutter: a claim to `Try(batch)`, a mark to `Capture`, `Abandon`
or nothing, which `HolderOwnsRow` justifies.

`OneInstance` is an assumption of the last two theorems and not of the module. With two
instances a late mark may reopen a settled row (`SettledForGood` is what then remains true).

`GraphBuilderProofs` proves for every finite set of items, any groups, entities, runs and batch sizes
(under `GraphAssumption`):

| Theorem | Says |
|---|---|
| `TypeCorrect` | `Spec => []TypeOK` |
| `BuiltOncePerBuilder` | `Spec => []OncePerBuilder` |
| `ErrorsWriteOff` | `Spec => []WrittenOffByErrors` |

The argument: how often an edge has been inserted says nothing of how often it may be again. `Awaits` says
when a run may yet ask about an item: it is still in its batch, at hand and not asked about, or unprocessed
and not at hand. `RowsBelow` then bounds what is inserted and still to be inserted together by what `1 +
faults` answers can hold (`Held`), and by one answer less while the item awaits its turn, which is what
makes room for the answer. `RunShape` says what the locals hold in each phase, so that asking ends `Awaits`.
For the write-offs the groups of the marked items alone are not inductive: `WrittenOff` adds the items about
to be marked, of which `OneGroup` says that they are of one group.

`TasteProfileProofs` proves for any finite sets of users and items, any sharers, scores, thresholds and
bounds (under `TasteAssumption`):

| Theorem | Says |
|---|---|
| `TypeCorrect` | `Spec => []TypeOK` |
| `VectorsHaveWeight` | `Spec => []VectorHasWeight` |
| `NobodyIsSkipped` | `Spec => []NobodySkipped` |
| `DismissalsKeepVectors` | `Spec => DismissalKeepsVector` |
| `MutesHoldForLaterRuns` | `Spec => MuteHoldsForLaterRuns` |
| `SignalsLostOnlyToOverlap` | `Spec => LostOnlyToOverlap` |
| `ThresholdsAreEarned` | `Spec => []ThresholdEarned`, if `ColumnDefault <= DefaultThreshold` |

The argument: the writers work on copies, so what is said of a row must be said of what they hold.
`WeightInv` says of every copy that its vector has weight, and that whoever is sent a message, and so can
dismiss it, has a vector and keeps it; a dismissal therefore always finds a vector, which is what keeps
it from becoming one. `MuteInv` follows a mute from the row to the copy that the run looks at. `EarnInv`
says that a calibration which goes on to raise has counted a week above the limit, that a row which is not
there has the defaults, and that no copy is of a row which is not there. `RowSteps` lists the few ways in
which a row is written, and `UpsertRow` what `apply_signal` writes; each step goes through the two. For lost
signals `MergedTags` says that a merge keeps every tag but the last of a full list, and `WrittenTaught` that a
write back of a row loses nothing else of that row. The
hypothesis of the last theorem is real: `set_mute` leaves the threshold of a row it creates to the column
(0.72), so under a lower `DEFAULT_RELEVANCE_THRESHOLD` a user who has only muted has a higher threshold than
the configured one. The runs have the two equal, as the repository's own values are.

`IngestionPipelineProofs` proves for any captures, users, sweeps, days, errors and crashes (under
`PipelineAssumption`):

| Theorem | Says |
|---|---|
| `TypeCorrect` | `Spec => []TypeOK` |
| `CapturedHasItemCorrect` | `Spec => []CapturedHasItem` |
| `LearnedOnceCorrect` | `Spec => []LearnedOnce` |
| `ChunksNotAheadCorrect` | `Spec => []ChunksNotAhead` |
| `UnlearnedArePaidForCorrect` | `Spec => []UnlearnedArePaidFor` |
| `OneOutcomePerSweepCorrect` | `Spec => []OneOutcomePerSweep`, for any finite set of sweeps |

The argument: a job may run again and again, but the insert of an item succeeds once, and that puts it in
hand. `InHand` says what the item in hand has not been through yet at each step, `Unstored` that what was
never inserted has left no trace; together they make `LearnedOnce` inductive. `Found` is what a job about to
be marked done has behind it. `NotAhead` adds to the passages what `/reindex` has read and not yet written.
For the items left behind (`Left`, stored, not completed and not in hand) the count alone is not inductive: a
set must be finite for its cardinality to say anything, so `Paid` says both. For the sweeps, `Waiting` are
those that have read an item and not come to it yet. As long as an item is pending any sweep may join them; once
it is settled none does, and each that settles it leaves them. `Outcomes` is that potential: the settlements of
an item and the sweeps that wait with it are together no more than there are sweeps, once it has been settled.

`WhatsAppIntakeProofs` proves for any messages, links, deliveries, faults and restarts (under
`IntakeAssumption`):

| Theorem | Says |
|---|---|
| `TypeCorrect` | `Spec => []TypeOK` |
| `QueuedOnceCorrect` | `Spec => []QueuedOnce` |
| `AckedIsQueuedCorrect` | `Spec => []AckedIsQueued` |

The argument: `OneTask` says that of the tasks which the deliveries of a message start, one at most has
passed the event table, and it needs `Recorded`: who has passed it has left the message there, so that the
next is turned away. `JobsFound` then says that each job is a link of its message or its one note, whose
name is the stamp the task keeps. `Looked` says that a link the task has passed is in the queue, known
already or reported, and `Saved` that a job comes before whatever makes a task say "saved".

`TelegramIntakeProofs` proves for any messages of any admitted shape, chats, links, attempts and faults
(under `TelegramAssumption`, which names no link "note", "voice" or "image", the content types):

| Theorem | Says |
|---|---|
| `TypeCorrect` | `Spec => []TypeOK` |
| `AckedIsSafeCorrect` | `Spec => []AckedIsSafe` |
| `OneAlertPerWindowCorrect` | `Spec => []OneAlertPerWindow` |
| `AnsweredOnceOrNotedCorrect` | `Spec => []AnsweredOnceOrNoted` |

The argument: the chats meet in the cooldowns alone. `Windows` says that the window of an alert that was
sent, or is on its way, is open, and that one handler at most is sending it. The rest is said of each message
(`Good`), which only its own handler moves on: a link is still to be looked at or kept (`LinksKept`), of
each part of an answer a failed attempt leaves at most one copy, the one whose answer was lost (`Replies`, with
`Unsent` and `Trying` for the parts before and while they are sent), and what was replied to was
not kept as a note (`Notes`). Lemmas say that the handler of one message leaves `Good` of the others alone.

`McpSourcesProofs` proves for any servers, tools, pages, caps, callers and times (under `McpAssumption`):

| Theorem | Says |
|---|---|
| `TypeCorrect` | `Spec => []TypeOK` |
| `RoutesReachOwnerCorrect` | `Spec => []RoutesReachOwner` |
| `TokenFreshCorrect` | `Spec => TokenFresh` |
| `RefreshOnlyWhenNeededCorrect` | `Spec => RefreshOnlyWhenNeeded` |

The argument: `Routed` says that a route leads to the backend that listed its tool, under the name it gives
it, and `Covered` that a listed tool has a route, cannot have one, or is still to be registered. A skipped
server is no backend, so a backend's number is not its place in the configuration: `Counted` and `Prefix`
keep the two apart and say that the tools at hand go to the last backend. For the token, `Cached` relates
two clocks, the life that is left and the time for which the program takes it to be usable; what lies
between them is `Slack`, less the time the refresh took, which is why `McpAssumption` asks `2 * Timeout <=
Slack` (20 s and 60 s in the code). `Held` and `Unusable` say that the mutex is held exactly while a refresh
is under way, and that there is no usable token meanwhile.

`AgentLoopProofs` proves for any finite sets of questions and calls, any plans, hits and budgets (under
`AgentAssumption`):

| Theorem | Says |
|---|---|
| `TypeCorrect` | `Spec => []TypeOK`, the budgets of turns, calls and sources included |
| `ActsOnceCorrect` | `Spec => []ActsOnce` |
| `CitationsTrueCorrect` | `Spec => []CitationsTrue` |
| `MemoryWithinLimitCorrect` | `Spec => []MemoryWithinLimit` |
| `NotesLostToOverlapCorrect` | `Spec => NotesLostToOverlap` |

The argument: `Once` adds to `ActsOnce` that a call which has taken effect is known to the loop, as long as
there is one; `Shown` says that what was shown and what is cited is in the list of sources under the number
it has now, which holds only because `Absorb` appends and never renumbers. What `Absorb` does to a list, and
that the length of a block (a sum over its notes) and the time of a session's latest turn (the maximum of a
set) are what they seem, are facts about recursive definitions. The induction theorems of the library take
an operator and cannot be used here, so `Least` derives from its fact on well-foundedness that a set of
numbers has a least element, and the lemmas on `Absorb`, `Length` and `Now` argue by a least counterexample;
that the recursive functions exist at all (`AbsorbingExists`, `AddingExists`) is proved the same way.

Only model-checked: the liveness properties (`SettledForGood`, `EventuallyDeleted`, `StubsSettled`,
`CapturesSettled`, `NothingSilent`, `RunsEnd`, `EveryItemProcessed`, `EveryQuestionEnds`, `EveryCallEnds`,
`SomethingHappens` and the fairness of `LedgerSpec`), which need fairness and ENABLED, and
`RestartLosesNothing`, which fails. `HolderOwnsRow` and the refinement are proved for one instance, as the
run checks them; with two they are false.

## Left out of the modelled parts

- Fetching, summarising, embedding, transcription and the agent's answer are outcomes, not contents.
- Everything of the pipeline is within one group, since both the duplicate check and the unique
  index are per group. Context windows and the column of the vector are not kept.
- The signal a recipient's profile gets after a message is not in the pipeline; it is in `TasteProfile`,
  which in turn takes each capture to run once.
- `TasteProfile` has no decay by degrees: decay shrinks a weight and never makes it zero, which is all that
  the properties tell apart; so `updated_at`, which `set_mute` and `set_threshold` touch too, is not kept.
- The fixed retrieval pipeline of `query/handler.rs` (`handle` and its helpers) has no caller and is not
  modelled, nor are prompts, rendering and the thread state, which nobody reads any more.
- The sources: decoding of answers and what Google returns. Requests are over at `TIMEOUT`, as the client
  enforces.
- The Telegram intake: restarts (an update that was not finished is delivered again by Telegram or lost,
  which the repository does not say), the rows of groups, members and buffered messages, the privacy nudge,
  a program without an admin chat, in which no alert is sent, and the albums and files behind a photo.
- The rows of entities and the attributes of edges are not kept; retrieval from the graph only reads.
- A panic inside the consumer ends it for good (`main.rs:149` drops the handle): outside the fairness.

## Not modelled

The chunker, which is a pure function of one text and waits for a reference definition; the SQL of searches,
the literal encodings and the row types, which have no state to interleave; fetchers, model clients, wire
formats and rendering, whose outcomes are choices in the modules above; configuration, metrics, the web
front end, packaging and scripts. `PROJECT.json` lists each with its reason.

## Plan

Done: the queue, the pipeline, the two intakes, the graph builder, the taste profiles, the agent loop with
sessions and memory, and the sources, each with proofs of every safety and action property that a run
checks. What is left, in order of importance:

1. `Chunker` as a function of one text, checked against a reference definition (nothing is dropped, sizes
   hold) over bounded texts.
2. The commands of `bot/commands.rs` that only the inventory names, as steps of `TelegramIntake`.
3. Lemmas that several proofs repeat (`Min` and `Max` of two numbers) in one module, when a new proof
   needs them again.

Liveness stays with TLC.
