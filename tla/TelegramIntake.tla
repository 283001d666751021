--------------------------- MODULE TelegramIntake ---------------------------
(***************************************************************************)
(* The Telegram channel: the one message endpoint (bot/handler.rs) with    *)
(* its routing to commands (bot/commands.rs), captures (intake.rs) and     *)
(* questions, the retried delivery of replies (bot/send.rs) and the alerts *)
(* to the admin chat (bot/alerts.rs).                                      *)
(*                                                                         *)
(* The dispatcher handles the messages of one chat one after the other and *)
(* those of different chats concurrently; they meet in the queue, in the   *)
(* items and in the cooldowns.  A message is abstracted to the features    *)
(* the endpoint looks at, and the model that tells a question from a note  *)
(* to a free choice, made anew at each of its two calls.  A reply is sent  *)
(* by with_retry, as is the notice with which /buildgraph and /reindex     *)
(* begin; reactions, acknowledgements and alerts are tried once.  A        *)
(* question waits for the agent, which may wait for a search command with  *)
(* no time limit.                                                          *)
(***************************************************************************)
EXTENDS Naturals, FiniteSets

CONSTANTS Messages,      \* the messages people may send
          Links,         \* URLs that occur in them
          TelegramLinks, \* those of t.me, which are never captured
          Shape,         \* Shape[m]: the features of m, see Shapes
          MaxAttempts,   \* MAX_ATTEMPTS of send.rs
          MaxFaults      \* bound: database, model and Telegram errors

Kinds == {"text", "voice", "photo", "sticker"}
\* "announced" stands for /buildgraph and /reindex.
Commands == {"none", "unknown", "ask", "known", "announced"}

\* private: a DM;  mention: it names the bot;  user: it has a sender (a
\* channel post has none);  here: it starts with --here;  blank: nothing
\* follows the mention and that flag.
Shapes == [chat : STRING, private : BOOLEAN, kind : Kinds, user : BOOLEAN,
           mention : BOOLEAN, command : Commands, links : SUBSET Links,
           here : BOOLEAN, blank : BOOLEAN]

ASSUME TelegramAssumption ==
    /\ \A m \in Messages :
        /\ Shape[m] \in Shapes
        /\ Shape[m].kind # "text" => Shape[m].command = "none"
        /\ Shape[m].kind = "sticker" => Shape[m].links = {}
    /\ Links \cap {"note", "voice", "image"} = {}
    /\ TelegramLinks \subseteq Links
    /\ MaxAttempts \in Nat \ {0} /\ MaxFaults \in Nat

VARIABLES
    \* Tables.
    jobs,      \* ingestion_jobs: <<message, link or content type>>
    items,     \* items: <<chat, link>>
    \* One handler per message under way.
    step,      \* how far it is
    todo,      \* links schedule_urls has still to look at
    tries,     \* the attempt with_retry is at
    tag,       \* the alert being raised, if any
    \* Memory of the process.
    cooling,   \* alert_cooldowns: tags whose window is open
    \* Observations and bound.
    copies,    \* copies[m][p]: how often part p of the answer to m appeared
    lost,      \* lost[m][p]: of those, the ones Telegram's answer to was lost
    acked,     \* messages whose sender was told they are saved
    reported,  \* messages with a failure handed to notify
    heard,     \* heard[g]: alerts of tag g the admin got in this window
    faults

\* A failed command has a tag of its own.
CommandTags == {"known_failed", "announced_failed"}
Tags == CommandTags \cup {"handler_error", "ingestion_enqueue_failed",
                          "telegram_send_failed"}
Steps == {"none", "received", "hearing", "commanding", "announcing", "running",
          "asking", "linking", "acking", "looking", "routing", "noting",
          "sending", "alerting", "paging", "done"}
ContentTypes == {"note", "voice", "image"}
Parts == {"notice", "reply"}

tables == <<jobs, items>>
task == <<step, todo, tries, tag>>
alarm == <<cooling, reported, heard>>
told == <<copies, lost, acked>>
vars == <<tables, task, alarm, told, faults>>

TypeOK ==
    /\ jobs \subseteq Messages \X (Links \cup ContentTypes)
    /\ items \subseteq {Shape[m].chat : m \in Messages} \X Links
    /\ step \in [Messages -> Steps] /\ todo \in [Messages -> SUBSET Links]
    /\ tries \in [Messages -> 1..MaxAttempts]
    /\ tag \in [Messages -> Tags \cup {"none"}]
    /\ cooling \subseteq Tags /\ heard \in [Tags -> Nat]
    /\ copies \in [Messages -> [Parts -> 0..MaxAttempts]]
    /\ lost \in [Messages -> [Parts -> 0..MaxAttempts]]
    /\ acked \subseteq Messages /\ reported \subseteq Messages
    /\ faults \in 0..MaxFaults

Init ==
    /\ jobs = {} /\ items = {}
    /\ step = [m \in Messages |-> "none"] /\ todo = [m \in Messages |-> {}]
    /\ tries = [m \in Messages |-> 1] /\ tag = [m \in Messages |-> "none"]
    /\ cooling = {} /\ reported = {} /\ heard = [g \in Tags |-> 0]
    /\ copies = [m \in Messages |-> [p \in Parts |-> 0]] /\ lost = copies
    /\ acked = {} /\ faults = 0
-----------------------------------------------------------------------------
\* In groups only what @mentions the bot is more than a link.
CaptureEligible(m) == Shape[m].private \/ Shape[m].mention

ContentType(m) == CASE Shape[m].kind = "voice" -> "voice"
                    [] Shape[m].kind = "photo" -> "image"
                    [] OTHER -> "note"

Fault == faults < MaxFaults /\ faults' = faults + 1

Goto(m, s) == step' = [step EXCEPT ![m] = s]

\* A step of the handler that changes nothing but where it is.
Move(m, s) == /\ Goto(m, s)
              /\ UNCHANGED <<tables, todo, tries, tag, alarm,
                             told, faults>>

\* notify is called with tag g.
Raise(m, g) == /\ Goto(m, "alerting")
               /\ tag' = [tag EXCEPT ![m] = g]
               /\ reported' = reported \cup {m}

\* Where the handler goes on after it: only a failed link or command leaves
\* something to do.
Resumed(g) == CASE g = "ingestion_enqueue_failed" -> "linking"
                [] g \in CommandTags -> "sending"
                [] OTHER -> "done"

\* A job of m for one of its links: the local `queued`.
HasLink(m) == \E l \in Links : <<m, l>> \in jobs
HasNote(m) == <<m, ContentType(m)>> \in jobs
-----------------------------------------------------------------------------
\* A message of a chat is handled when those before it have been.
Receive(m) ==
    /\ step[m] = "none"
    /\ \A o \in Messages : Shape[o].chat = Shape[m].chat =>
                                step[o] \in {"none", "done"}
    /\ Move(m, "received")

\* Group, user and reply parent are stored, a text buffered, and the kinds
\* part.  A voice note of nobody or not meant for the bot ends here, as does
\* a photo of nobody; the links of a caption are captured all the same.
Persist(m) ==
    /\ step[m] = "received"
    /\ \/ /\ Shape[m].kind = "voice"
          /\ Goto(m, IF CaptureEligible(m) /\ Shape[m].user THEN "hearing"
                                                            ELSE "done")
          /\ UNCHANGED todo
       \/ /\ Shape[m].kind = "photo"
          /\ Goto(m, IF Shape[m].user THEN "linking" ELSE "done")
          /\ todo' = [todo EXCEPT ![m] = Shape[m].links]
       \/ /\ Shape[m].kind \in {"text", "sticker"}
          /\ Goto(m, "commanding")
          /\ UNCHANGED todo
    /\ UNCHANGED <<tables, tries, tag, alarm, told, faults>>

\* No speech-to-text, or nothing heard: the sender is told, once, and the
\* outcome of telling is ignored.
NotHeard(m) ==
    /\ step[m] = "hearing"
    /\ \/ copies' = [copies EXCEPT ![m]["reply"] = @ + 1] /\ UNCHANGED faults
       \/ Fault /\ UNCHANGED copies
    /\ Goto(m, "done")
    /\ UNCHANGED <<tables, todo, tries, tag, alarm, lost,
                   acked>>

\* A transcript or a description is buffered and becomes a note.
Transcribe(m) ==
    /\ step[m] \in {"hearing", "looking"}
    /\ Move(m, "noting")

\* Storing the message, its download, transcription or description, or the
\* insert of its note fails: the error ends in handle_message.
HandlerError(m) ==
    /\ step[m] \in {"received", "hearing", "looking", "noting"}
    /\ Fault
    /\ Raise(m, "handler_error")
    /\ UNCHANGED <<tables, todo, tries, cooling, heard, told>>
-----------------------------------------------------------------------------
IsCommand(m) == Shape[m].user /\ Shape[m].command \in {"ask", "known", "announced"}

\* try_handle: a question is the agent's, two commands begin with a notice.
TryHandle(m) ==
    /\ step[m] = "commanding" /\ IsCommand(m)
    /\ Move(m, CASE Shape[m].command = "ask" -> "asking"
                 [] Shape[m].command = "announced" -> "announcing"
                 [] Shape[m].command = "known" -> "running")

\* dispatch has a reply.
RunCommand(m) ==
    /\ step[m] = "running"
    /\ Move(m, "sending")

\* The reply is then COMMAND_FAILED.
CommandFails(m) ==
    /\ step[m] = "running"
    /\ Fault
    /\ Raise(m, IF Shape[m].command = "announced" THEN "announced_failed"
                                                 ELSE "known_failed")
    /\ UNCHANGED <<tables, todo, tries, cooling, heard, told>>

\* run_query: the agent's errors are turned into a reply.
RunQuery(m) ==
    /\ step[m] = "asking"
    /\ Move(m, "sending")

\* What step 4 of the endpoint takes on: no group chatter, no empty text,
\* nothing without a sender.
Routable(m) == /\ CaptureEligible(m) /\ Shape[m].user
               /\ Shape[m].kind # "sticker"
               /\ Shape[m].here \/ ~Shape[m].blank

\* An unknown command is a text like any other.
NoCommand(m) ==
    /\ step[m] = "commanding" /\ ~IsCommand(m)
    /\ Goto(m, CASE Shape[m].links # {} /\ Shape[m].user -> "linking"
                 [] Shape[m].links = {} /\ Routable(m) -> "routing"
                 [] OTHER -> "done")
    /\ todo' = [todo EXCEPT ![m] = Shape[m].links]
    /\ UNCHANGED <<tables, tries, tag, alarm, told, faults>>
-----------------------------------------------------------------------------
\* schedule_urls, one link.
Looked(m, l) == /\ step[m] = "linking" /\ l \in todo[m]
                /\ todo' = [todo EXCEPT ![m] = @ \ {l}]

SkipLink(m, l) ==
    /\ Looked(m, l)
    /\ l \in TelegramLinks \/ <<Shape[m].chat, l>> \in items
    /\ UNCHANGED <<tables, step, tries, tag, alarm, told,
                   faults>>

\* The duplicate check sees items, not jobs, and passes when it fails.
QueueLink(m, l) ==
    /\ Looked(m, l)
    /\ l \notin TelegramLinks
    /\ \/ <<Shape[m].chat, l>> \notin items /\ UNCHANGED faults
       \/ Fault
    /\ jobs' = jobs \cup {<<m, l>>}
    /\ UNCHANGED <<items, step, tries, tag, alarm, told>>

\* Wrong: the link that failed is skipped and nobody is alerted.
LinkErrorQuiet(m, l) ==
    /\ Looked(m, l)
    /\ l \notin TelegramLinks /\ <<Shape[m].chat, l>> \notin items
    /\ Fault
    /\ UNCHANGED <<tables, step, tries, tag, alarm, told>>

\* One link failing to be queued is alerted and skipped.
LinkError(m, l) ==
    /\ Looked(m, l)
    /\ l \notin TelegramLinks /\ <<Shape[m].chat, l>> \notin items
    /\ Fault
    /\ Raise(m, "ingestion_enqueue_failed")
    /\ UNCHANGED <<tables, tries, cooling, heard, told>>

AfterLinks(m) == IF Shape[m].kind = "photo" /\ CaptureEligible(m)
                 THEN "looking" ELSE "done"

\* The links of a caption are acknowledged and the photo itself follows if
\* it was meant for the bot.
CaptionDone(m) ==
    /\ step[m] = "linking" /\ todo[m] = {} /\ Shape[m].kind = "photo"
    /\ Goto(m, IF HasLink(m) THEN "acking" ELSE AfterLinks(m))
    /\ UNCHANGED <<tables, todo, tries, tag, alarm, told, faults>>

\* Does the text after the flags want the agent?
MayAsk(m) == Shape[m].here \/ ~Shape[m].blank
MayNote(m) == ~Shape[m].here

\* A text with links is done unless it is a question as well, which goes on
\* without an acknowledgement.
LinksDone(m) ==
    /\ step[m] = "linking" /\ todo[m] = {} /\ Shape[m].kind # "photo"
    /\ \/ /\ CaptureEligible(m) /\ MayAsk(m)
          /\ Goto(m, "routing")
       \/ /\ ~CaptureEligible(m) \/ MayNote(m)
          /\ Goto(m, IF HasLink(m) THEN "acking" ELSE "done")
    /\ UNCHANGED <<tables, todo, tries, tag, alarm, told, faults>>

\* Wrong: a question is answered and kept as a note as well.
AskAndNote(m) ==
    /\ step[m] = "routing" /\ MayAsk(m)
    /\ jobs' = jobs \cup {<<m, ContentType(m)>>}
    /\ Goto(m, IF Shape[m].blank THEN "done" ELSE "asking")
    /\ UNCHANGED <<items, todo, tries, tag, alarm, told, faults>>

\* The second opinion, which need not agree with the first.  A bare --here
\* asks nothing.
Ask(m) ==
    /\ step[m] = "routing" /\ MayAsk(m)
    /\ Move(m, IF Shape[m].blank THEN "done" ELSE "asking")

Note(m) ==
    /\ step[m] = "routing" /\ MayNote(m)
    /\ Move(m, "noting")

QueueNote(m) ==
    /\ step[m] = "noting"
    /\ jobs' = jobs \cup {<<m, ContentType(m)>>}
    /\ Goto(m, "acking")
    /\ UNCHANGED <<items, todo, tries, tag, alarm, told, faults>>

\* capture_ack: a reaction, or else a message; a failure is only logged.
CaptureAck(m) ==
    /\ step[m] = "acking"
    /\ \/ acked' = acked \cup {m} /\ UNCHANGED faults
       \/ Fault /\ UNCHANGED acked
    /\ Goto(m, IF HasNote(m) THEN "done" ELSE AfterLinks(m))
    /\ UNCHANGED <<tables, todo, tries, tag, alarm, copies, lost>>

\* The pipeline captures a queued link some time.
Store(m, l) ==
    /\ <<m, l>> \in jobs
    /\ <<Shape[m].chat, l>> \notin items
    /\ items' = items \cup {<<Shape[m].chat, l>>}
    /\ UNCHANGED <<jobs, task, alarm, told, faults>>
-----------------------------------------------------------------------------
\* with_retry over send_message, one attempt at what is being sent.
Part(m) == IF step[m] = "announcing" THEN "notice" ELSE "reply"

\* After its notice a command runs, whatever became of it.
Onward(m) == /\ Goto(m, IF step[m] = "announcing" THEN "running" ELSE "done")
             /\ tries' = [tries EXCEPT ![m] = 1]

Delivered(m) ==
    /\ step[m] \in {"announcing", "sending"}
    /\ copies' = [copies EXCEPT ![m][Part(m)] = @ + 1]
    /\ Onward(m)
    /\ UNCHANGED <<tables, todo, tag, alarm, lost, acked, faults>>

\* Wrong: a reply that could not be delivered is only logged.
GiveUpQuietly(m) == Onward(m) /\ UNCHANGED <<tag, reported>>

\* send_reply and send_query_reply alert when with_retry returns an error; a
\* notice is not missed.
GiveUp(m) == IF step[m] = "announcing"
             THEN Onward(m) /\ UNCHANGED <<tag, reported>>
             ELSE Raise(m, "telegram_send_failed") /\ UNCHANGED tries

\* Flood control, a network error or a garbled answer: tried again while
\* attempts are left.
TryAgain(m) ==
    IF tries[m] < MaxAttempts
    THEN /\ tries' = [tries EXCEPT ![m] = @ + 1]
         /\ UNCHANGED <<step, tag, reported>>
    ELSE GiveUp(m)

\* The message may have gone out although its answer did not come back.
SendFails(m) ==
    /\ step[m] \in {"announcing", "sending"}
    /\ Fault
    /\ \/ UNCHANGED <<copies, lost>>
       \/ /\ copies' = [copies EXCEPT ![m][Part(m)] = @ + 1]
          /\ lost' = [lost EXCEPT ![m][Part(m)] = @ + 1]
    /\ TryAgain(m)
    /\ UNCHANGED <<tables, todo, cooling, heard, acked>>

\* A rejection no retry can fix.
SendRejected(m) ==
    /\ step[m] \in {"announcing", "sending"}
    /\ Fault
    /\ GiveUp(m)
    /\ UNCHANGED <<tables, todo, cooling, heard, told>>
-----------------------------------------------------------------------------
Resume(m) == /\ Goto(m, Resumed(tag[m]))
             /\ tag' = [tag EXCEPT ![m] = "none"]

\* Wrong: the cooldown is looked at but not taken.
NotifyUntaken(m) ==
    /\ step[m] = "alerting"
    /\ IF tag[m] \in cooling THEN Resume(m) ELSE Goto(m, "paging") /\ UNCHANGED tag
    /\ UNCHANGED <<tables, todo, tries, alarm, told, faults>>

\* should_send: the window is checked and opened under one lock, before the
\* alert is sent.
Notify(m) ==
    /\ step[m] = "alerting"
    /\ IF tag[m] \in cooling
       THEN Resume(m) /\ UNCHANGED cooling
       ELSE Goto(m, "paging") /\ cooling' = cooling \cup {tag[m]} /\ UNCHANGED tag
    /\ UNCHANGED <<tables, todo, tries, reported, heard, told, faults>>

\* The alert reaches the admin, or its failure is only logged; the window
\* stays open either way.
Page(m) ==
    /\ step[m] = "paging"
    /\ \/ heard' = [heard EXCEPT ![tag[m]] = @ + 1] /\ UNCHANGED faults
       \/ Fault /\ UNCHANGED heard
    /\ Resume(m)
    /\ UNCHANGED <<tables, todo, tries, cooling, reported, told>>

\* COOLDOWN has passed, which is far longer than one request takes.
CoolDown(g) ==
    /\ g \in cooling
    /\ \A m \in Messages : ~(step[m] = "paging" /\ tag[m] = g)
    /\ cooling' = cooling \ {g}
    /\ heard' = [heard EXCEPT ![g] = 0]
    /\ UNCHANGED <<tables, task, reported, told, faults>>
-----------------------------------------------------------------------------
Capture(m) == \/ CaptionDone(m) \/ LinksDone(m) \/ QueueNote(m)
              \/ CaptureAck(m)
              \/ \E l \in Links : SkipLink(m, l) \/ QueueLink(m, l)
                                      \/ LinkError(m, l)
Reply(m) == Delivered(m) \/ SendFails(m) \/ SendRejected(m)

Proceed(m) == \/ Persist(m) \/ NotHeard(m) \/ Transcribe(m) \/ HandlerError(m)
              \/ TryHandle(m) \/ RunCommand(m) \/ CommandFails(m)
              \/ RunQuery(m) \/ NoCommand(m) \/ Ask(m) \/ Note(m)
              \/ Capture(m) \/ Reply(m) \/ Notify(m) \/ Page(m)

Next == \/ \E m \in Messages : Receive(m) \/ Proceed(m)
        \/ \E m \in Messages, l \in Links : Store(m, l)
        \/ \E g \in Tags : CoolDown(g)

\* A handler the dispatcher has started keeps running: every request it
\* makes ends, if only by its client's timeout.  The agent need not answer.
Fairness == \A m \in Messages : WF_vars(step[m] # "asking" /\ Proceed(m))

Spec == Init /\ [][Next]_vars /\ Fairness
-----------------------------------------------------------------------------
\* What has become of a link is known: it is queued or stored, or a failure
\* of its message was handed to the admin alert.
LinkKept(m, l) == \/ <<m, l>> \in jobs
                  \/ <<Shape[m].chat, l>> \in items
                  \/ m \in reported

\* Whoever is told "saved" loses no link of the message unnoticed (handler.rs,
\* schedule_urls and capture_ack), unless it is the caption of a voice note,
\* in which no link is looked for.
AckedIsSafe ==
    \A m \in acked : Shape[m].kind # "voice" =>
        \A l \in Shape[m].links \ TelegramLinks : LinkKept(m, l)

\* A tag alerts once per window, however many chats fail at the same time
\* (alerts.rs, should_send).
OneAlertPerWindow == \A g \in Tags : heard[g] <= 1

\* A message is answered or kept as a note, never both, and the notice and
\* the reply it is answered with each appear twice only when Telegram's
\* answer to an attempt was lost (handler.rs, step 4, commands.rs, dispatch,
\* and send.rs).
AnsweredOnceOrNoted ==
    \A m \in Messages, p \in Parts :
        /\ copies[m][p] <= lost[m][p] + 1
        /\ copies[m][p] > 0 => <<m, ContentType(m)>> \notin jobs

\* What is addressed to the bot gets a reply, is kept or has its failure
\* handed to the admin alert: commands, and in DMs or with a mention every
\* text (handler.rs and commands.rs: "guaranteed to produce a reply").  A
\* question may go without, if the agent waits for ever.
Expects(m) ==
    /\ Shape[m].user /\ Shape[m].kind \in {"text", "photo"}
    /\ IsCommand(m) \/ CaptureEligible(m)
    /\ IsCommand(m) \/ ~Shape[m].blank

SomethingHappens ==
    \A m \in Messages :
        step[m] = "received" /\ Expects(m) ~>
            \/ copies[m]["reply"] > 0
            \/ \E l \in Links \cup ContentTypes : <<m, l>> \in jobs
            \/ m \in reported
            \/ Shape[m].links # {} /\ Shape[m].links \subseteq TelegramLinks
            \/ \E l \in Shape[m].links : <<Shape[m].chat, l>> \in items
            \/ [](step[m] = "asking")
=============================================================================
