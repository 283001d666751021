--------------------------- MODULE WhatsAppIntake ---------------------------
(***************************************************************************)
(* The WhatsApp channel up to the durable queue: the webhook (http.rs),    *)
(* the task it spawns per message (whatsapp/handler.rs), the event table   *)
(* that makes redeliveries harmless (db/channels.rs) and the enqueueing of *)
(* links and notes (intake.rs).                                            *)
(*                                                                         *)
(* The webhook answers before its task has done anything, so a message     *)
(* lives in memory only until it is a row of ingestion_jobs.  Meta sends a *)
(* message again when it saw no answer, and now and then when it did.  A   *)
(* task is named by its message and the number of the delivery.  Media are *)
(* notes here whose text takes a download and a model to make.             *)
(***************************************************************************)
EXTENDS Naturals, FiniteSets

CONSTANTS Messages,       \* inbound messages, each with Meta's id
          Links,          \* URLs that occur in them
          LinksIn,        \* LinksIn[m]: what extract_urls finds in m
          ContentType,    \* ContentType[m]: of what is kept of m, see Kept
          Sender,         \* Sender[m], who also names the personal space
          MaxSent,        \* bound: messages sent in one behaviour
          MaxDeliveries,  \* bound: deliveries of one message
          MaxClock,       \* bound: distinct milliseconds told apart
          MaxFaults,      \* bound: database, media and WhatsApp errors
          MaxCrashes      \* bound: restarts of the program

ASSUME IntakeAssumption ==
    /\ LinksIn \in [Messages -> SUBSET Links]
    /\ ContentType \in [Messages -> {"note", "voice", "image", "other"}]
    /\ \A m \in Messages : ContentType[m] # "note" => LinksIn[m] = {}
    /\ {MaxSent, MaxDeliveries, MaxClock, MaxFaults, MaxCrashes} \subseteq Nat

VARIABLES
    sent,         \* messages their senders have sent
    deliveries,   \* deliveries[m]: webhook calls carrying m so far
    clock,        \* Utc::now().timestamp_millis()
    \* Tables.
    recorded,     \* channel_events
    jobs,         \* ingestion_jobs, by task and URL
    \* Memory: one task per delivery.
    step,         \* how far the task is
    stamp,        \* its message_id
    todo,         \* links it has still to look at
    queued,       \* whether it has queued one
    \* Observations and bounds.
    acked,        \* messages whose sender was told they are saved
    replied,      \* messages answered otherwise
    dropped,      \* links of messages skipped as duplicate items
    failed,       \* links of messages reported to the admin as not queued
    reported,     \* messages reported to the admin as failed
    faults, crashes

Tasks == Messages \X (1..MaxDeliveries)
Steps == {"none", "spawned", "recorded", "stamped", "linking", "routing",
          "asking", "noting", "acking", "done", "failed", "dead"}
\* A text, a voice note or a photo is kept; a text of nothing but blanks and a
\* message of any other kind is not.
Kept(m) == ContentType[m] \in {"note", "voice", "image"}

\* {content_type}://{group_id}/{message_id}, the group being the sender's.
Noted(m, ms) == <<ContentType[m], Sender[m], ms>>
Targets == Links \cup {Noted(m, ms) : m \in Messages, ms \in 0..MaxClock}

wire == <<sent, deliveries, clock>>
tables == <<recorded, jobs>>
task == <<step, stamp, todo, queued>>
told == <<acked, replied, dropped, failed, reported>>
vars == <<wire, tables, task, told, faults, crashes>>

TypeOK ==
    /\ sent \subseteq Messages /\ deliveries \in [Messages -> 0..MaxDeliveries]
    /\ clock \in 0..MaxClock
    /\ recorded \subseteq sent /\ jobs \subseteq Tasks \X Targets
    /\ step \in [Tasks -> Steps] /\ stamp \in [Tasks -> 0..MaxClock]
    /\ todo \in [Tasks -> SUBSET Links] /\ queued \in [Tasks -> BOOLEAN]
    /\ acked \subseteq sent /\ replied \subseteq sent
    /\ dropped \subseteq sent \X Links /\ failed \subseteq sent \X Links
    /\ reported \subseteq sent
    /\ faults \in 0..MaxFaults /\ crashes \in 0..MaxCrashes

Init ==
    /\ sent = {} /\ deliveries = [m \in Messages |-> 0]
    /\ clock = 0 /\ recorded = {} /\ jobs = {}
    /\ step = [t \in Tasks |-> "none"] /\ stamp = [t \in Tasks |-> 0]
    /\ todo = [t \in Tasks |-> {}] /\ queued = [t \in Tasks |-> FALSE]
    /\ acked = {} /\ replied = {} /\ dropped = {} /\ failed = {} /\ reported = {}
    /\ faults = 0 /\ crashes = 0
-----------------------------------------------------------------------------
Fault == faults < MaxFaults /\ faults' = faults + 1

Goto(t, s) == step' = [step EXCEPT ![t] = s]

Send(m) ==
    /\ m \notin sent /\ Cardinality(sent) < MaxSent
    /\ sent' = sent \cup {m}
    /\ UNCHANGED <<deliveries, clock, tables, task, told, faults, crashes>>

\* receive_webhook: a task is spawned and 200 returned at once.  The answer
\* may be lost, and a message that was answered may come again: either way
\* there is one more delivery.
Deliver(m) ==
    /\ m \in sent
    /\ deliveries[m] < MaxDeliveries
    /\ deliveries' = [deliveries EXCEPT ![m] = @ + 1]
    /\ Goto(<<m, deliveries[m] + 1>>, "spawned")
    /\ UNCHANGED <<sent, clock, tables, stamp, todo, queued, told, faults,
                   crashes>>

Millisecond ==
    /\ clock < MaxClock
    /\ clock' = clock + 1
    /\ UNCHANGED <<sent, deliveries, tables, task, told, faults, crashes>>
-----------------------------------------------------------------------------
\* Wrong: the redelivery check does not look whether its insert did anything.
RecordAnyway(t) ==
    /\ step[t] = "spawned"
    /\ recorded' = recorded \cup {t[1]}
    /\ Goto(t, "recorded")
    /\ UNCHANGED <<wire, jobs, stamp, todo, queued, told, faults, crashes>>

\* record_event: the insert decides which delivery goes on.
RecordEvent(t) ==
    /\ step[t] = "spawned"
    /\ recorded' = recorded \cup {t[1]}
    /\ Goto(t, IF t[1] \in recorded THEN "done" ELSE "recorded")
    /\ UNCHANGED <<wire, jobs, stamp, todo, queued, told, faults, crashes>>

\* Wrong: the arrival time is rounded up.
ResolveAhead(t) ==
    /\ step[t] = "recorded"
    /\ stamp' = [stamp EXCEPT ![t] = clock + 1]
    /\ Goto(t, "stamped")
    /\ UNCHANGED <<wire, tables, todo, queued, told, faults, crashes>>

\* resolve_space, resolve_user, the arrival time as message id, mark_read.
Resolve(t) ==
    /\ step[t] = "recorded"
    /\ stamp' = [stamp EXCEPT ![t] = clock]
    /\ Goto(t, "stamped")
    /\ UNCHANGED <<wire, tables, todo, queued, told, faults, crashes>>

\* A kind the channel does not know: the sender is told, but nobody hears of
\* it when that fails, nor of a text of blanks.
PassOver(t) ==
    /\ step[t] = "stamped" /\ ~Kept(t[1])
    /\ replied' = replied \cup {t[1]} \/ UNCHANGED replied
    /\ Goto(t, "done")
    /\ UNCHANGED <<wire, tables, stamp, todo, queued, acked, dropped, failed,
                   reported, faults, crashes>>

\* A voice note that cannot be transcribed or in which nothing is heard: the
\* sender is told, and it is not kept.  A failing reply is an error, see Fail.
Decline(t) ==
    /\ step[t] = "stamped" /\ ContentType[t[1]] = "voice"
    /\ replied' = replied \cup {t[1]}
    /\ Goto(t, "done")
    /\ UNCHANGED <<wire, tables, stamp, todo, queued, acked, dropped, failed,
                   reported, faults, crashes>>

\* buffer_message, after the transcript or description of a media message;
\* then links are queued, media become notes and other text is routed.
Buffer(t) ==
    /\ step[t] = "stamped" /\ Kept(t[1])
    /\ todo' = [todo EXCEPT ![t] = LinksIn[t[1]]]
    /\ Goto(t, CASE LinksIn[t[1]] # {} -> "linking"
                 [] ContentType[t[1]] # "note" -> "noting"
                 [] OTHER -> "routing")
    /\ UNCHANGED <<wire, tables, stamp, queued, told, faults, crashes>>

\* wants_agent, a model or a heuristic: either answer is possible.
Route(t) ==
    /\ step[t] = "routing"
    /\ Goto(t, "asking") \/ Goto(t, "noting")
    /\ UNCHANGED <<wire, tables, stamp, todo, queued, told, faults, crashes>>

LinkDone(t, u) ==
    /\ step[t] = "linking" /\ u \in todo[t]
    /\ todo' = [todo EXCEPT ![t] = @ \ {u}]
    /\ UNCHANGED <<wire, recorded, step, stamp, crashes>>

\* schedule_link.
QueueLink(t, u) ==
    /\ LinkDone(t, u)
    /\ jobs' = jobs \cup {<<t, u>>}
    /\ queued' = [queued EXCEPT ![t] = TRUE]
    /\ UNCHANGED <<told, faults>>

\* is_duplicate says an item of this URL is recent.
DropLink(t, u) ==
    /\ LinkDone(t, u)
    /\ dropped' = dropped \cup {<<t[1], u>>}
    /\ UNCHANGED <<jobs, queued, acked, replied, failed, reported, faults>>

\* Wrong: what schedule_link returns is not looked at.
LinkErrorIgnored(t, u) ==
    /\ LinkDone(t, u)
    /\ Fault
    /\ queued' = [queued EXCEPT ![t] = TRUE]
    /\ UNCHANGED <<jobs, told>>

\* The insert fails, or only its answer does: reported, and on to the next.
LinkError(t, u) ==
    /\ LinkDone(t, u)
    /\ Fault
    /\ jobs' = jobs \cup {<<t, u>>} \/ UNCHANGED jobs
    /\ reported' = reported \cup {t[1]}
    /\ failed' = failed \cup {<<t[1], u>>}
    /\ UNCHANGED <<queued, acked, replied, dropped>>

LinksDone(t) ==
    /\ step[t] = "linking" /\ todo[t] = {}
    /\ Goto(t, IF queued[t] THEN "acking" ELSE "done")
    /\ UNCHANGED <<wire, tables, stamp, todo, queued, told, faults, crashes>>

\* schedule_note, under a URL made of the sender's space and the arrival time.
QueueNote(t) ==
    /\ step[t] = "noting"
    /\ jobs' = jobs \cup {<<t, Noted(t[1], stamp[t])>>}
    /\ Goto(t, "acking")
    /\ UNCHANGED <<wire, recorded, stamp, todo, queued, told, faults, crashes>>

\* handle_or_fallback comes back, if its web search does: its reply is sent, or
\* the failure of that reported.
Answer(t) ==
    /\ step[t] = "asking"
    /\ Goto(t, "done")
    /\ \/ replied' = replied \cup {t[1]} /\ UNCHANGED <<reported, faults>>
       \/ reported' = reported \cup {t[1]} /\ Fault /\ UNCHANGED replied
    /\ UNCHANGED <<wire, tables, stamp, todo, queued, acked, dropped, failed,
                   crashes>>

\* "saved", "noted": sent if so configured, and if it can be.
Ack(t) ==
    /\ step[t] = "acking"
    /\ acked' = acked \cup {t[1]} \/ UNCHANGED acked
    /\ Goto(t, "done")
    /\ UNCHANGED <<wire, tables, stamp, todo, queued, replied, dropped, failed,
                   reported, faults, crashes>>

\* Where process_inner has a ?.
Fallible(t) == \/ step[t] \in {"spawned", "recorded", "noting"}
               \/ step[t] = "stamped" /\ Kept(t[1])

\* Wrong: an error is taken for a redelivery.
FailSilently(t) ==
    /\ Fallible(t)
    /\ Fault
    /\ Goto(t, "failed")
    /\ UNCHANGED <<wire, tables, stamp, todo, queued, told, crashes>>

\* Any ? of process_inner: process_message reports it and the task ends.  A
\* failing insert may have committed.
Fail(t) ==
    /\ Fallible(t)
    /\ Fault
    /\ \/ UNCHANGED tables
       \/ /\ step[t] = "spawned"
          /\ recorded' = recorded \cup {t[1]} /\ UNCHANGED jobs
       \/ /\ step[t] = "noting" /\ UNCHANGED recorded
          /\ jobs' = jobs \cup {<<t, Noted(t[1], stamp[t])>>}
    /\ reported' = reported \cup {t[1]}
    /\ Goto(t, "failed")
    /\ UNCHANGED <<wire, stamp, todo, queued, acked, replied, dropped, failed,
                   crashes>>

\* The process dies with all its tasks, and is started again.
Crash ==
    /\ crashes < MaxCrashes
    /\ crashes' = crashes + 1
    /\ step' = [t \in Tasks |->
           IF step[t] \in {"none", "done", "failed"} THEN step[t] ELSE "dead"]
    /\ todo' = [t \in Tasks |-> {}]
    /\ UNCHANGED <<wire, tables, stamp, queued, told, faults>>
-----------------------------------------------------------------------------
Proceed(t) ==
    \/ RecordEvent(t) \/ Resolve(t) \/ PassOver(t) \/ Decline(t)
    \/ Buffer(t) \/ Route(t)
    \/ \E u \in Links : QueueLink(t, u) \/ DropLink(t, u)
    \/ LinksDone(t) \/ QueueNote(t) \/ Answer(t) \/ Ack(t)

Next ==
    \/ \E m \in Messages : Send(m) \/ Deliver(m)
    \/ Millisecond
    \/ \E t \in Tasks :
        \/ Proceed(t) \/ Fail(t)
        \/ \E u \in Links : LinkError(t, u)
    \/ Crash

Spec == Init /\ [][Next]_vars

\* Meta delivers what was sent, and the runtime runs every spawned task, whose
\* requests have timeouts, but for the web search of a question.
Fairness ==
    /\ \A m \in Messages : WF_vars(deliveries[m] = 0 /\ Deliver(m))
    /\ \A t \in Tasks : WF_vars(step[t] # "asking" /\ Proceed(t))

FairSpec == Spec /\ Fairness
-----------------------------------------------------------------------------
\* A message that is delivered again, even while its first delivery is being
\* handled, is queued once: each of its links, and its text, makes one job
\* ("first insert wins, replays are dropped", process_inner).
QueuedOnce ==
    \A a, b \in jobs : a[1][1] = b[1][1] => a[1] = b[1]
                       /\ (a[2] \notin Links => a = b)

\* A link that has been looked at: it makes a job, its item is known already,
\* or the admin was told that it could not be queued.
Settled(m, u) == \/ \E j \in jobs : j[1][1] = m /\ j[2] = u
                 \/ <<m, u>> \in dropped \cup failed
HasLeft(m) == \E j \in jobs : j[1][1] = m

\* Nobody is told a message is saved unless it has left a durable job, which
\* the queue keeps whatever happens next, and every link in it is in the queue
\* too, known already, or reported as failed (schedule_urls, ack).
AckedIsQueued ==
    \A m \in acked : HasLeft(m) /\ \A u \in LinksIn[m] : Settled(m, u)

\* What has become of m is known: it is answered or reported, or it is queued,
\* with all its links if it has any.
Accounted(m) ==
    \/ m \in replied \cup reported
    \/ /\ HasLeft(m) \/ LinksIn[m] # {}
       /\ \A u \in LinksIn[m] : Settled(m, u)

\* A question that waits for its web search.
Asking(m) == \E t \in Tasks : t[1] = m /\ step[t] = "asking"

\* While the process stays up, every text, voice note and photo comes to
\* something that somebody can see, whatever fails on the way and however often
\* it is delivered, unless it is a question whose web search never returns.
NothingSilent ==
    \A m \in {k \in Messages : Kept(k)} :
        m \in sent ~> (Accounted(m) \/ crashes > 0 \/ []Asking(m))
=============================================================================
