------------------------ MODULE TelegramIntakeProofs ------------------------
(***************************************************************************)
(* Safety of the Telegram intake for any messages, chats, links, attempts  *)
(* and faults.  The inductive invariant has a part for the alerts, which   *)
(* handlers of different chats share, and a part for each message, which   *)
(* only its own handler moves on: what it has sent, noted and looked at so *)
(* far follows from the step it is at.                                     *)
(***************************************************************************)
EXTENDS TelegramIntake, TLAPS

-----------------------------------------------------------------------------
\* The handler of m has an alert to raise exactly at two of its steps.
Raised(m) ==
    /\ step[m] \in {"alerting", "paging"} <=> tag[m] # "none"
    /\ tag[m] # "none" => m \in reported

\* No part p of the answer to m has been sent yet.
Unsent(m, p) == copies[m][p] = 0 /\ lost[m][p] = 0

\* The part of an answer that is being sent: each failed attempt leaves at
\* most one copy, of which Telegram's answer was lost.
Trying(m, p) == copies[m][p] = lost[m][p] /\ lost[m][p] < tries[m]

\* Steps at which a reply has been, or is being, sent, and those at which a
\* notice may have been.
Answering == {"alerting", "paging", "sending", "done"}
Announced == Answering \cup {"announcing", "running"}

Replies(m) ==
    /\ step[m] \notin Answering => Unsent(m, "reply")
    /\ step[m] \notin Announced => Unsent(m, "notice")
    /\ step[m] \notin Answering \cup {"announcing"} => tries[m] = 1
    /\ tag[m] \in CommandTags => Unsent(m, "reply") /\ tries[m] = 1
    /\ tag[m] = "ingestion_enqueue_failed" =>
           tries[m] = 1 /\ \A p \in Parts : Unsent(m, p)
    /\ step[m] = "sending" => Trying(m, "reply")
    /\ step[m] = "announcing" => Trying(m, "notice")
    /\ \A p \in Parts : copies[m][p] <= lost[m][p] + 1
                         /\ lost[m][p] <= MaxAttempts

\* Only what was kept as a note is acknowledged as one, and never answered.
Notes(m) ==
    /\ step[m] \notin {"acking", "done"} => ~ HasNote(m)
    /\ \A p \in Parts : copies[m][p] > 0 => ~ HasNote(m)

\* The links of m, once looked at, are kept.
LinksKept(m) ==
    /\ step[m] = "hearing" => Shape[m].kind = "voice"
    /\ Shape[m].kind # "voice" =>
        /\ step[m] \in {"linking", "acking", "looking", "routing", "noting"} =>
               \A l \in Shape[m].links \ TelegramLinks :
                   l \in todo[m] \/ LinkKept(m, l)
        /\ step[m] \in {"acking", "looking", "routing", "noting"} =>
               todo[m] = {}
        /\ m \in acked =>
               \A l \in Shape[m].links \ TelegramLinks : LinkKept(m, l)

Good(m) == Raised(m) /\ Replies(m) /\ Notes(m) /\ LinksKept(m)

\* The window of an alert that was sent, or is being sent, is open, and one
\* handler at most is sending it.
Windows ==
    /\ \A m \in Messages : step[m] = "paging" =>
           tag[m] \in cooling /\ heard[tag[m]] = 0
    /\ \A m, n \in Messages :
           step[m] = "paging" /\ step[n] = "paging" /\ tag[m] = tag[n] => m = n
    /\ \A g \in Tags : heard[g] <= 1 /\ (heard[g] > 0 => g \in cooling)

IntakeInv == TypeOK /\ Windows /\ \A m \in Messages : Good(m)

-----------------------------------------------------------------------------
\* The invariant holds before any message.
LEMMA InitInv == Init => IntakeInv
<1> SUFFICES ASSUME Init PROVE IntakeInv
  OBVIOUS
<1>1. TypeOK
  BY TelegramAssumption DEF Init, TypeOK, Steps, Parts
<1>2. Windows
  BY DEF Init, Windows
<1>3. \A m \in Messages : Good(m)
  BY TelegramAssumption DEF Init, Good, Raised, Replies, Unsent, Answering,
     Announced, CommandTags, Parts, Notes, HasNote, LinksKept
<1>4. QED
  BY <1>1, <1>2, <1>3 DEF IntakeInv

-----------------------------------------------------------------------------
\* The handler of m leaves the other messages alone, and takes nothing back.
Alone(m) ==
    /\ \A n \in Messages \ {m} :
        /\ step'[n] = step[n] /\ todo'[n] = todo[n] /\ tries'[n] = tries[n]
        /\ tag'[n] = tag[n] /\ copies'[n] = copies[n] /\ lost'[n] = lost[n]
        /\ n \in acked' <=> n \in acked
        /\ n \in reported' <=> n \in reported
        /\ \A x \in Links \cup ContentTypes :
               <<n, x>> \in jobs' <=> <<n, x>> \in jobs
    /\ jobs \subseteq jobs' /\ items \subseteq items'
    /\ reported \subseteq reported' /\ acked \subseteq acked'

\* Links and content types are what jobs are made of, and differ.
LEMMA JobTargets ==
    /\ \A m \in Messages : ContentType(m) \in ContentTypes
    /\ \A m \in Messages : Shape[m].links \subseteq Links
    /\ Links \cap ContentTypes = {}
BY TelegramAssumption DEF ContentType, ContentTypes, Shapes

LEMMA ProceedAlone ==
    ASSUME TypeOK, NEW m \in Messages, Receive(m) \/ Proceed(m) PROVE Alone(m)
<1> USE DEF TypeOK, Alone, Goto
<1>1. CASE \/ Receive(m) \/ Transcribe(m) \/ TryHandle(m) \/ RunCommand(m)
           \/ RunQuery(m) \/ Ask(m) \/ Note(m)
  BY <1>1 DEF Receive, Transcribe, TryHandle, RunCommand, RunQuery, Ask, Note,
     Move, tables, alarm, told
<1>2. CASE \/ Persist(m) \/ NoCommand(m) \/ CaptionDone(m) \/ LinksDone(m)
           \/ QueueNote(m) \/ CaptureAck(m) \/ NotHeard(m)
  BY <1>2 DEF Persist, NoCommand, CaptionDone, LinksDone, QueueNote, CaptureAck,
     NotHeard, tables, alarm, told
<1>3. CASE HandlerError(m) \/ CommandFails(m)
  BY <1>3 DEF HandlerError, CommandFails, Raise, tables, told
<1>4. ASSUME NEW l \in Links,
             SkipLink(m, l) \/ QueueLink(m, l) \/ LinkError(m, l)
      PROVE  Alone(m)
  BY <1>4 DEF SkipLink, QueueLink, LinkError, Looked, Raise, tables, alarm, told
<1>5. CASE Reply(m)
  BY <1>5 DEF Reply, Delivered, SendFails, SendRejected, TryAgain, GiveUp, Onward,
     Raise, tables, alarm, told
<1>6. CASE Notify(m) \/ Page(m)
  BY <1>6 DEF Notify, Page, Resume, tables, told
<1>7. QED
  BY <1>1, <1>2, <1>3, <1>4, <1>5, <1>6 DEF Proceed, Capture

\* What is left alone stays good.
LEMMA AloneGood ==
    ASSUME TypeOK, NEW m \in Messages, Alone(m), NEW n \in Messages \ {m}, Good(n)
    PROVE  Good(n)'
<1>1. \A l \in Shape[n].links : LinkKept(n, l) => LinkKept(n, l)'
  BY DEF Alone, LinkKept
<1>2. HasNote(n)' <=> HasNote(n)
  BY JobTargets DEF Alone, HasNote, ContentType
<1>3. Raised(n)' /\ Replies(n)' /\ Notes(n)'
  BY <1>2 DEF Alone, Good, Raised, Replies, Notes, Unsent, Trying
<1>4. LinksKept(n)'
  BY <1>1 DEF Alone, Good, LinksKept
<1>5. QED
  BY <1>3, <1>4 DEF Good
-----------------------------------------------------------------------------
\* Each group of steps keeps its own message good.


\* Being received, the kinds parting, commands told from other texts.
LEMMA EntryGood ==
    ASSUME TypeOK, NEW m \in Messages, Good(m),
           \/ Receive(m) \/ Persist(m) \/ TryHandle(m) \/ RunCommand(m)
           \/ RunQuery(m) \/ NoCommand(m)
    PROVE  Good(m)'
<1> USE DEF Goto
<1>1. /\ Raised(m)' /\ Replies(m)'
      /\ HasNote(m)' <=> HasNote(m)
      /\ \A l \in Links : LinkKept(m, l)' <=> LinkKept(m, l)
  <2>1. CASE Persist(m) \/ NoCommand(m)
    BY <2>1, TelegramAssumption DEF Good, Raised, Replies, Unsent, Answering,
       Announced, CommandTags, Parts, HasNote, LinkKept, TypeOK, Persist,
       NoCommand, tables, alarm, told
  <2>2. CASE Receive(m) \/ TryHandle(m) \/ RunCommand(m) \/ RunQuery(m)
    BY <2>2, TelegramAssumption DEF Good, Raised, Replies, Unsent, Trying,
       Answering, Announced, CommandTags, Parts, HasNote, LinkKept, TypeOK,
       Receive, TryHandle, IsCommand, RunCommand, RunQuery, Move, tables, alarm,
       told
  <2>3. QED
    BY <2>1, <2>2
<1>2. Notes(m)'
  BY <1>1 DEF Good, Notes, Replies, Unsent, TypeOK, Receive, Persist, TryHandle,
     IsCommand, RunCommand, RunQuery, NoCommand, Move, told
<1>3. LinksKept(m)'
  <2>1. CASE Receive(m) \/ TryHandle(m) \/ RunCommand(m) \/ RunQuery(m)
    BY <1>1, <2>1, JobTargets DEF Good, LinksKept, TypeOK, Receive, TryHandle,
       IsCommand, RunCommand, RunQuery, Move, tables, alarm, told
  <2>2. CASE Persist(m)
    BY <1>1, <2>2, JobTargets DEF Good, LinksKept, TypeOK, Persist, told
  <2>3. CASE NoCommand(m)
    BY <1>1, <2>3, JobTargets DEF Good, LinksKept, TypeOK, NoCommand, told
  <2>4. QED
    BY <2>1, <2>2, <2>3
<1>4. QED
  BY <1>1, <1>2, <1>3 DEF Good

\* Links looked at, acknowledged, and what follows; questions and notes.
LEMMA CaptureGood ==
    ASSUME TypeOK, NEW m \in Messages, Good(m),
           \/ CaptionDone(m) \/ LinksDone(m) \/ Transcribe(m) \/ Ask(m)
           \/ Note(m) \/ QueueNote(m) \/ CaptureAck(m) \/ NotHeard(m)
    PROVE  Good(m)'
<1> USE DEF Goto
<1>1. Raised(m)'
  BY DEF Good, Raised, TypeOK, CaptionDone, LinksDone, Transcribe, Ask, Note,
     QueueNote, CaptureAck, NotHeard, AfterLinks, Move, alarm
<1>2. Replies(m)'
  <2>1. CASE NotHeard(m)
    BY <2>1, TelegramAssumption DEF Good, Replies, Unsent, Answering, Announced,
       CommandTags, Parts, Raised, TypeOK, NotHeard
  <2>2. CASE UNCHANGED <<tries, tag, copies, lost>>
    BY <2>2, TelegramAssumption DEF Good, Replies, Unsent, Answering, Announced,
       CommandTags, Parts, TypeOK, CaptionDone, LinksDone, Transcribe, Ask, Note,
       QueueNote, CaptureAck, NotHeard, AfterLinks, Move
  <2>3. QED
    BY <2>1, <2>2 DEF CaptionDone, LinksDone, Transcribe, Ask, Note, QueueNote,
       CaptureAck, Move, told
<1>3. Notes(m)'
  <2>1. CASE QueueNote(m)
    BY <2>1 DEF Good, Notes, Replies, Unsent, Answering, Announced, Parts, TypeOK,
       QueueNote, told
  <2>2. CASE UNCHANGED jobs
    BY <2>2 DEF Good, Notes, Replies, Unsent, Answering, Announced, Parts,
       HasNote, TypeOK, CaptionDone, LinksDone, Transcribe, Ask, Note, QueueNote,
       CaptureAck, NotHeard, AfterLinks, Move, told
  <2>3. QED
    BY <2>1, <2>2 DEF CaptionDone, LinksDone, Transcribe, Ask, Note, CaptureAck,
       NotHeard, Move, tables
<1>4. LinksKept(m)'
  <2>1. \A l \in Links : LinkKept(m, l) => LinkKept(m, l)'
    BY DEF LinkKept, CaptionDone, LinksDone, Transcribe, Ask, Note, QueueNote,
       CaptureAck, NotHeard, Move, tables, alarm
  <2>2. QED
    BY <2>1, JobTargets DEF Good, LinksKept, TypeOK, CaptionDone, LinksDone,
       Transcribe, Ask, Note, QueueNote, CaptureAck, NotHeard, AfterLinks, Move,
       tables, alarm, told
<1>5. QED
  BY <1>1, <1>2, <1>3, <1>4 DEF Good

\* A failure before anything was sent: raised, and the links are reported.
LEMMA FailGood ==
    ASSUME TypeOK, NEW m \in Messages, Good(m),
           HandlerError(m) \/ CommandFails(m)
    PROVE  Good(m)'
BY DEF Goto, Good, Raised, Replies, Unsent, Answering, Announced, CommandTags,
   Parts, Notes, HasNote, LinksKept, LinkKept, TypeOK, HandlerError, CommandFails,
   Raise, Tags, tables, told

\* One link is skipped, queued, or cannot be.
LEMMA LinkGood ==
    ASSUME TypeOK, NEW m \in Messages, Good(m), NEW l \in Links,
           SkipLink(m, l) \/ QueueLink(m, l) \/ LinkError(m, l)
    PROVE  Good(m)'
<1>1. step[m] = "linking" /\ todo' = [todo EXCEPT ![m] = todo[m] \ {l}]
  BY DEF SkipLink, QueueLink, LinkError, Looked, TypeOK
<1>2. HasNote(m)' <=> HasNote(m)
  BY JobTargets DEF HasNote, ContentType, SkipLink, QueueLink, LinkError, tables
<1>3. \A k \in Links : LinkKept(m, k) => LinkKept(m, k)'
  BY DEF LinkKept, SkipLink, QueueLink, LinkError, Raise, tables, alarm
<1>4. l \notin TelegramLinks => LinkKept(m, l)'
  BY DEF LinkKept, SkipLink, QueueLink, LinkError, Raise, tables, alarm
<1>5. Raised(m)' /\ Replies(m)' /\ Notes(m)'
  BY <1>1, <1>2 DEF Good, Raised, Replies, Unsent, Answering, Announced,
     CommandTags, Parts, Notes, TypeOK, SkipLink, QueueLink, LinkError, Raise,
     Goto, Tags, alarm, told
<1>6. LinksKept(m)'
  BY <1>1, <1>3, <1>4, JobTargets DEF Good, LinksKept, TypeOK, SkipLink,
     QueueLink, LinkError, Raise, Goto, Tags, alarm, told
<1>7. QED
  BY <1>5, <1>6 DEF Good

\* An attempt to deliver a reply.
LEMMA ReplyGood ==
    ASSUME TypeOK, NEW m \in Messages, Good(m), Reply(m) PROVE Good(m)'
<1> USE DEF Goto
<1>1. HasNote(m)' <=> HasNote(m)
  BY DEF Reply, Delivered, SendFails, SendRejected, HasNote, tables
<1>2. Raised(m)' /\ Replies(m)'
  <2>1. CASE step[m] = "announcing"
    BY <2>1, TelegramAssumption DEF Good, Raised, Replies, Unsent, Trying,
       Answering, Announced, CommandTags, Parts, Part, TypeOK, Reply, Delivered,
       SendFails, SendRejected, TryAgain, GiveUp, Onward, tables, alarm, told
  <2>2. CASE step[m] = "sending"
    BY <2>2, TelegramAssumption DEF Good, Raised, Replies, Unsent, Trying,
       Answering, Announced, CommandTags, Parts, Part, TypeOK, Reply, Delivered,
       SendFails, SendRejected, TryAgain, GiveUp, Onward, Raise, Tags, tables,
       alarm, told
  <2>3. QED
    BY <2>1, <2>2 DEF Reply, Delivered, SendFails, SendRejected
<1>3. Notes(m)'
  BY <1>1 DEF Good, Notes, Replies, Parts, Part, TypeOK, Reply, Delivered,
     SendFails, SendRejected, TryAgain, GiveUp, Onward, Raise, told
<1>4. LinksKept(m)'
  BY JobTargets DEF Good, LinksKept, LinkKept, TypeOK, Reply, Delivered, SendFails,
     SendRejected, TryAgain, GiveUp, Onward, Raise, tables, alarm, told
<1>5. QED
  BY <1>2, <1>3, <1>4 DEF Good

\* An alert is suppressed or sent, and the handler goes on where it was.
LEMMA AlertGood ==
    ASSUME TypeOK, NEW m \in Messages, Good(m), Notify(m) \/ Page(m)
    PROVE  Good(m)'
<1> USE DEF Goto
<1>1. step[m] \in {"alerting", "paging"} /\ tag[m] # "none" /\ m \in reported
  BY DEF Good, Raised, Notify, Page
<1>2. UNCHANGED <<jobs, items, todo, tries, reported, copies, lost, acked>>
  BY DEF Notify, Page, tables, told
<1>3. CASE Resume(m)
  <2>1. HasNote(m)' <=> HasNote(m)
    BY <1>2 DEF HasNote
  <2>2. \A l \in Links : LinkKept(m, l)'
    BY <1>1, <1>2 DEF LinkKept
  <2>3. Raised(m)'
    BY <1>1, <1>2, <1>3 DEF Resume, Resumed, CommandTags, Raised, TypeOK
  <2>4. Replies(m)'
    BY <1>1, <1>2, <1>3, TelegramAssumption DEF Resume, Resumed, Good, Replies,
       Unsent, Trying, Answering, Announced, CommandTags, Parts, TypeOK
  <2>5. Notes(m)'
    BY <1>1, <1>2, <1>3, <2>1 DEF Resume, Resumed, CommandTags, Good, Notes,
       TypeOK
  <2>6. LinksKept(m)'
    BY <1>1, <1>2, <1>3, <2>2, JobTargets DEF Resume, Resumed, CommandTags, Good,
       LinksKept, TypeOK
  <2>7. QED
    BY <2>3, <2>4, <2>5, <2>6 DEF Good
<1>4. CASE step' = [step EXCEPT ![m] = "paging"] /\ UNCHANGED tag
  BY <1>1, <1>2, <1>4 DEF Good, Raised, Replies, Unsent, Trying, Answering,
     Announced, CommandTags, Notes, HasNote, LinksKept, LinkKept, TypeOK
<1>5. QED
  BY <1>3, <1>4 DEF Notify, Page


-----------------------------------------------------------------------------
\* A step of the handler of m keeps every message good.
LEMMA ProceedGood ==
    ASSUME IntakeInv, NEW m \in Messages, Receive(m) \/ Proceed(m)
    PROVE  \A n \in Messages : Good(n)'
<1>1. TypeOK /\ Good(m)
  BY DEF IntakeInv
<1>2. Good(m)'
  BY <1>1, EntryGood, CaptureGood, FailGood, LinkGood, ReplyGood, AlertGood
     DEF Proceed, Capture
<1>3. \A n \in Messages \ {m} : Good(n)'
  BY <1>1, ProceedAlone, AloneGood DEF IntakeInv
<1>4. QED
  BY <1>2, <1>3

\* Storing a link keeps every message good.
LEMMA StoreGood ==
    ASSUME IntakeInv, NEW m \in Messages, NEW l \in Links, Store(m, l)
    PROVE  \A n \in Messages : Good(n)'
BY DEF IntakeInv, Good, Raised, Replies, Unsent, Trying, Notes, HasNote,
   LinksKept, LinkKept, ContentTypes, Store, task, alarm, told

\* The end of a window concerns no message.
LEMMA CoolDownGood ==
    ASSUME IntakeInv, NEW g \in Tags, CoolDown(g)
    PROVE  \A n \in Messages : Good(n)'
BY DEF IntakeInv, Good, Raised, Replies, Unsent, Trying, Notes, HasNote,
   LinksKept, LinkKept, CoolDown, tables, task, told

-----------------------------------------------------------------------------
\* The types the steps of a handler keep, given how far the message is.
LEMMA ProceedType ==
    ASSUME IntakeInv, NEW m \in Messages, Receive(m) \/ Proceed(m)
    PROVE  TypeOK'
<1> USE TelegramAssumption, JobTargets DEF Goto
<1>1. TypeOK /\ Good(m)
  BY DEF IntakeInv
<1>2. step' \in [Messages -> Steps]
  BY <1>1 DEF TypeOK, Steps, Receive, Proceed, Persist, NotHeard, Transcribe,
     HandlerError, TryHandle, IsCommand, RunCommand, CommandFails, RunQuery,
     NoCommand, Ask, Note, Capture, CaptionDone, LinksDone, QueueNote, CaptureAck,
     SkipLink, QueueLink, LinkError, Reply, Delivered, SendFails, SendRejected,
     TryAgain, GiveUp, Onward, Raise, Notify, Page, Resume, Resumed, AfterLinks,
     Move
<1>3. todo' \in [Messages -> SUBSET Links]
  <2>1. TypeOK /\ Shape[m].links \in SUBSET Links
    BY <1>1
  <2>2. CASE UNCHANGED todo
    BY <2>1, <2>2 DEF TypeOK
  <2>3. CASE \/ todo' = [todo EXCEPT ![m] = Shape[m].links]
             \/ \E l \in Links : todo' = [todo EXCEPT ![m] = @ \ {l}]
    BY <2>1, <2>3 DEF TypeOK
  <2>4. QED
    BY <2>2, <2>3 DEF Receive, Proceed, Persist, NotHeard, Transcribe,
       HandlerError, TryHandle, RunCommand, CommandFails, RunQuery, NoCommand,
       Ask, Note, Capture, CaptionDone, LinksDone, QueueNote, CaptureAck,
       SkipLink, QueueLink, LinkError, Looked, Reply, Delivered, SendFails,
       SendRejected, Notify, Page, Move
<1>4. CASE Receive(m) \/ Persist(m) \/ Transcribe(m) \/ TryHandle(m)
           \/ RunCommand(m) \/ RunQuery(m) \/ NoCommand(m) \/ Ask(m) \/ Note(m)
           \/ CaptionDone(m) \/ LinksDone(m) \/ QueueNote(m) \/ CaptureAck(m)
  BY <1>1, <1>2, <1>3, <1>4 DEF TypeOK, Receive, Persist, Transcribe, TryHandle,
     RunCommand, RunQuery, NoCommand, Ask, Note, CaptionDone, LinksDone, QueueNote,
     CaptureAck, Move, Fault, tables, alarm, told
<1>5. CASE NotHeard(m)
  BY <1>1, <1>2, <1>3, <1>5 DEF TypeOK, NotHeard, Fault, Good, Replies, Unsent,
     Answering, Parts, tables, alarm
<1>6. CASE HandlerError(m) \/ CommandFails(m)
  <2>1. \E g \in Tags : Raise(m, g)
    BY <1>6 DEF HandlerError, CommandFails, Tags, CommandTags
  <2>2. UNCHANGED <<tables, tries, cooling, heard, told>> /\ Fault
    BY <1>6 DEF HandlerError, CommandFails
  <2>3. QED
    BY <1>1, <1>2, <1>3, <2>1, <2>2 DEF TypeOK, Raise, Fault, tables, told
<1>7. ASSUME NEW l \in Links,
             SkipLink(m, l) \/ QueueLink(m, l) \/ LinkError(m, l)
      PROVE  TypeOK'
  <2>1. /\ jobs' \subseteq Messages \X (Links \cup ContentTypes)
        /\ tag' \in [Messages -> Tags \cup {"none"}]
        /\ reported' \subseteq Messages
        /\ faults' \in 0..MaxFaults
    <3>1. \/ UNCHANGED jobs
          \/ jobs' = jobs \cup {<<m, l>>}
      BY <1>7 DEF SkipLink, QueueLink, LinkError, tables
    <3>2. \/ UNCHANGED <<tag, reported>>
          \/ /\ tag' = [tag EXCEPT ![m] = "ingestion_enqueue_failed"]
             /\ reported' = reported \cup {m}
      BY <1>7 DEF SkipLink, QueueLink, LinkError, Raise, alarm
    <3>3. UNCHANGED faults \/ Fault
      BY <1>7 DEF SkipLink, QueueLink, LinkError
    <3>4. jobs' \subseteq Messages \X (Links \cup ContentTypes)
      BY <1>1, <3>1 DEF TypeOK
    <3>5. /\ tag' \in [Messages -> Tags \cup {"none"}]
          /\ reported' \subseteq Messages
      BY <1>1, <3>2 DEF TypeOK, Tags
    <3>6. faults' \in 0..MaxFaults
      BY <1>1, <3>3 DEF TypeOK, Fault
    <3>7. QED
      BY <3>4, <3>5, <3>6
  <2>2. UNCHANGED <<items, tries, cooling, heard, told>>
    BY <1>7 DEF SkipLink, QueueLink, LinkError, tables, alarm
  <2>3. QED
    BY <1>1, <1>2, <1>3, <2>1, <2>2 DEF TypeOK, told
<1>8. CASE Reply(m)
  <2>1. /\ copies' \in [Messages -> [Parts -> 0..MaxAttempts]]
        /\ lost' \in [Messages -> [Parts -> 0..MaxAttempts]]
        /\ tries' \in [Messages -> 1..MaxAttempts]
    <3>1. copies \in [Messages -> [Parts -> 0..MaxAttempts]]
          /\ lost \in [Messages -> [Parts -> 0..MaxAttempts]]
          /\ tries \in [Messages -> 1..MaxAttempts]
      BY <1>1 DEF TypeOK
    <3>2. /\ Part(m) \in Parts
          /\ copies[m][Part(m)] = lost[m][Part(m)]
          /\ lost[m][Part(m)] < tries[m]
      BY <1>1, <1>8 DEF Good, Replies, Trying, Part, Parts, Reply, Delivered,
         SendFails, SendRejected
    <3>3. \/ UNCHANGED copies
          \/ copies' = [copies EXCEPT ![m][Part(m)] = @ + 1]
      BY <1>8 DEF Reply, Delivered, SendFails, SendRejected, told
    <3>4. \/ UNCHANGED lost
          \/ lost' = [lost EXCEPT ![m][Part(m)] = @ + 1]
      BY <1>8 DEF Reply, Delivered, SendFails, SendRejected, told
    <3>5. \/ UNCHANGED tries
          \/ tries' = [tries EXCEPT ![m] = 1]
          \/ tries[m] < MaxAttempts /\ tries' = [tries EXCEPT ![m] = @ + 1]
      BY <1>8 DEF Reply, Delivered, SendFails, SendRejected, TryAgain, GiveUp,
         Onward
    <3>6. \A k \in 0..MaxAttempts : k < tries[m] => k + 1 \in 0..MaxAttempts
      BY <3>1
    <3>7. copies[m][Part(m)] + 1 \in 0..MaxAttempts
          /\ lost[m][Part(m)] + 1 \in 0..MaxAttempts
      BY <3>1, <3>2, <3>6
    <3>8. /\ copies' \in [Messages -> [Parts -> 0..MaxAttempts]]
          /\ lost' \in [Messages -> [Parts -> 0..MaxAttempts]]
      <4> DEFINE p == Part(m)
                 S == [Parts -> 0..MaxAttempts]
      <4>1. copies[m] \in S /\ lost[m] \in S
        BY <3>1
      <4>2. /\ [copies[m] EXCEPT ![p] = copies[m][p] + 1] \in S
            /\ [lost[m] EXCEPT ![p] = lost[m][p] + 1] \in S
        BY <3>2, <3>7, <4>1
      <4>3. \/ UNCHANGED copies
            \/ copies' = [copies EXCEPT ![m] =
                              [copies[m] EXCEPT ![p] = copies[m][p] + 1]]
        BY <3>3
      <4>4. \/ UNCHANGED lost
            \/ lost' = [lost EXCEPT ![m] =
                            [lost[m] EXCEPT ![p] = lost[m][p] + 1]]
        BY <3>4
      <4> HIDE DEF p, S
      <4>5. QED
        BY <3>1, <4>2, <4>3, <4>4 DEF S
    <3>9. tries' \in [Messages -> 1..MaxAttempts]
      BY <3>1, <3>5
    <3>10. QED
      BY <3>8, <3>9
  <2>2. /\ tag' \in [Messages -> Tags \cup {"none"}]
        /\ reported' \subseteq Messages
        /\ faults' \in 0..MaxFaults
    BY <1>1, <1>8 DEF TypeOK, Reply, Delivered, SendFails, SendRejected, TryAgain,
       GiveUp, Onward, Raise, Tags, Fault, alarm
  <2>3. UNCHANGED <<jobs, items, cooling, heard, acked>>
    BY <1>8 DEF Reply, Delivered, SendFails, SendRejected, tables, alarm, told
  <2>4. QED
    BY <1>1, <1>2, <1>3, <2>1, <2>2, <2>3 DEF TypeOK
<1>9. CASE Notify(m) \/ Page(m)
  <2>1. tag' \in [Messages -> Tags \cup {"none"}]
    BY <1>1, <1>9 DEF TypeOK, Notify, Page, Resume
  <2>2. cooling' \subseteq Tags /\ heard' \in [Tags -> Nat]
    BY <1>1, <1>9 DEF TypeOK, Notify, Page, Good, Raised
  <2>3. QED
    BY <1>1, <1>2, <1>3, <1>9, <2>1, <2>2 DEF TypeOK, Notify, Page, Fault,
       tables, told
<1>10. QED
  BY <1>4, <1>5, <1>6, <1>7, <1>8, <1>9 DEF Proceed, Capture

\* Storing a link and the end of a window keep the types.
LEMMA OtherType ==
    ASSUME IntakeInv, \/ \E m \in Messages, l \in Links : Store(m, l)
                      \/ \E g \in Tags : CoolDown(g)
                      \/ UNCHANGED vars
    PROVE  TypeOK'
<1>1. TypeOK
  BY DEF IntakeInv
<1>2. CASE \E m \in Messages, l \in Links : Store(m, l)
  BY <1>1, <1>2 DEF TypeOK, Store, task, alarm, told
<1>3. CASE \E g \in Tags : CoolDown(g)
  BY <1>1, <1>3 DEF TypeOK, CoolDown, tables, task, told
<1>4. CASE UNCHANGED vars
  BY <1>1, <1>4 DEF TypeOK, vars, tables, task, alarm, told
<1>5. QED
  BY <1>2, <1>3, <1>4

-----------------------------------------------------------------------------
\* Looking at a window and opening it are one step, so of the handlers that
\* raise a tag one gets to send it; only then is it heard.
LEMMA NotifyWindows ==
    ASSUME IntakeInv, NEW m \in Messages, Notify(m) PROVE Windows'
<1>1. TypeOK /\ Windows /\ tag[m] \in Tags /\ step[m] = "alerting"
  BY DEF IntakeInv, TypeOK, Good, Raised, Notify
<1>2. UNCHANGED heard /\ cooling \subseteq cooling'
  BY DEF Notify
<1>3. CASE tag[m] \in cooling
  <2>1. /\ step'[m] # "paging"
        /\ \A n \in Messages \ {m} : step'[n] = step[n] /\ tag'[n] = tag[n]
    BY <1>1, <1>3 DEF Notify, Resume, Resumed, Goto, TypeOK
  <2>2. QED
    BY <1>1, <1>2, <2>1 DEF Windows
<1>4. CASE tag[m] \notin cooling
  <2>1. /\ step'[m] = "paging" /\ tag' = tag
        /\ \A n \in Messages \ {m} : step'[n] = step[n]
        /\ tag[m] \in cooling'
    BY <1>1, <1>4 DEF Notify, Goto, TypeOK
  <2>2. heard[tag[m]] = 0
    BY <1>1, <1>4 DEF Windows, TypeOK
  <2>3. \A n \in Messages : step[n] = "paging" => tag[n] # tag[m]
    BY <1>1, <1>4 DEF Windows
  <2>4. QED
    BY <1>1, <1>2, <2>1, <2>2, <2>3 DEF Windows
<1>5. QED
  BY <1>3, <1>4

LEMMA PageWindows ==
    ASSUME IntakeInv, NEW m \in Messages, Page(m) PROVE Windows'
<1>1. /\ TypeOK /\ Windows /\ tag[m] \in Tags /\ step[m] = "paging"
      /\ UNCHANGED cooling
  BY DEF IntakeInv, TypeOK, Good, Raised, Page
<1>2. /\ step'[m] # "paging"
      /\ \A n \in Messages \ {m} : step'[n] = step[n] /\ tag'[n] = tag[n]
  BY <1>1 DEF Page, Resume, Resumed, Goto, TypeOK
<1>3. heard[tag[m]] = 0 /\ tag[m] \in cooling
  BY <1>1 DEF Windows
<1>4. \A g \in Tags \ {tag[m]} : heard'[g] = heard[g]
  BY <1>1 DEF Page, TypeOK
<1>5. heard'[tag[m]] \in {0, 1}
  BY <1>1, <1>3 DEF Page, TypeOK
<1>6. \A n \in Messages \ {m} : step[n] = "paging" => tag[n] # tag[m]
  BY <1>1 DEF Windows
<1>7. \A n \in Messages : step[n] = "paging" => tag[n] \in Tags
  BY DEF IntakeInv, TypeOK, Good, Raised
<1>8. QED
  BY <1>1, <1>2, <1>3, <1>4, <1>5, <1>6, <1>7 DEF Windows

\* No other step of a handler begins to send an alert or opens a window.
LEMMA ProceedWindows ==
    ASSUME IntakeInv, NEW m \in Messages, Receive(m) \/ Proceed(m)
    PROVE  Windows'
<1>1. CASE Notify(m) \/ Page(m)
  BY <1>1, NotifyWindows, PageWindows
<1>2. CASE ~ Notify(m) /\ ~ Page(m)
  <2>1. UNCHANGED <<cooling, heard>> /\ step'[m] # "paging"
    BY <1>2 DEF IntakeInv, TypeOK, Goto, Steps, Receive, Proceed, Persist,
       NotHeard, Transcribe, HandlerError, TryHandle, IsCommand, RunCommand,
       CommandFails, RunQuery, NoCommand, Ask, Note, Capture, CaptionDone,
       LinksDone, QueueNote, CaptureAck, SkipLink, QueueLink, LinkError, Looked,
       Reply, Delivered, SendFails, SendRejected, TryAgain, GiveUp, Onward, Raise,
       AfterLinks, Move, alarm
  <2>2. Alone(m) /\ Windows
    BY ProceedAlone DEF IntakeInv
  <2>3. QED
    BY <2>1, <2>2 DEF Alone, Windows
<1>3. QED
  BY <1>1, <1>2

LEMMA OtherWindows ==
    ASSUME IntakeInv, \/ \E m \in Messages, l \in Links : Store(m, l)
                      \/ \E g \in Tags : CoolDown(g)
                      \/ UNCHANGED vars
    PROVE  Windows'
<1>1. TypeOK /\ Windows
  BY DEF IntakeInv
<1>2. CASE UNCHANGED <<step, tag, cooling, heard>>
  BY <1>1, <1>2 DEF Windows
<1>3. ASSUME NEW g \in Tags, CoolDown(g) PROVE Windows'
  <2>1. UNCHANGED <<step, tag>>
    BY <1>3 DEF CoolDown, task
  <2>2. heard'[g] = 0 /\ \A h \in Tags \ {g} : heard'[h] = heard[h]
    BY <1>1, <1>3 DEF CoolDown, TypeOK
  <2>3. \A n \in Messages : step[n] = "paging" => tag[n] \in Tags \ {g}
    BY <1>3 DEF IntakeInv, TypeOK, Good, Raised, CoolDown
  <2>4. cooling' = cooling \ {g}
    BY <1>3 DEF CoolDown
  <2>5. QED
    BY <1>1, <2>1, <2>2, <2>3, <2>4 DEF Windows
<1>4. QED
  BY <1>2, <1>3 DEF Store, vars, task, alarm

-----------------------------------------------------------------------------
\* IntakeInv is inductive.
LEMMA NextInv == IntakeInv /\ [Next]_vars => IntakeInv'
<1> SUFFICES ASSUME IntakeInv, [Next]_vars PROVE IntakeInv'
  OBVIOUS
<1>1. ASSUME NEW m \in Messages, Receive(m) \/ Proceed(m) PROVE IntakeInv'
  BY <1>1, ProceedType, ProceedWindows, ProceedGood DEF IntakeInv
<1>2. ASSUME NEW m \in Messages, NEW l \in Links, Store(m, l) PROVE IntakeInv'
  BY <1>2, OtherType, OtherWindows, StoreGood DEF IntakeInv
<1>3. ASSUME NEW g \in Tags, CoolDown(g) PROVE IntakeInv'
  BY <1>3, OtherType, OtherWindows, CoolDownGood DEF IntakeInv
<1>4. CASE UNCHANGED vars
  <2>1. \A n \in Messages : Good(n)'
    BY <1>4 DEF IntakeInv, Good, Raised, Replies, Unsent, Trying, Notes, HasNote,
       LinksKept, LinkKept, vars, tables, task, alarm, told
  <2>2. QED
    BY <1>4, <2>1, OtherType, OtherWindows DEF IntakeInv
<1>5. QED
  BY <1>1, <1>2, <1>3, <1>4 DEF Next

LEMMA Invariance == Spec => []IntakeInv
BY InitInv, NextInv, PTL DEF Spec

-----------------------------------------------------------------------------
\* Every reachable state has the types the code declares.
THEOREM TypeCorrect == Spec => []TypeOK
BY Invariance, PTL DEF IntakeInv

\* The admin hears of a tag once per window, however many chats fail at the
\* same time (alerts.rs, should_send).
THEOREM OneAlertPerWindowCorrect == Spec => []OneAlertPerWindow
<1>1. IntakeInv => OneAlertPerWindow
  BY DEF IntakeInv, Windows, OneAlertPerWindow
<1>2. QED
  BY <1>1, Invariance, PTL

\* Whoever is told "saved" loses no link of the message unnoticed, whatever
\* failed on the way (handler.rs, schedule_urls and capture_ack).
THEOREM AckedIsSafeCorrect == Spec => []AckedIsSafe
<1>1. IntakeInv => AckedIsSafe
  BY DEF IntakeInv, TypeOK, Good, LinksKept, AckedIsSafe
<1>2. QED
  BY <1>1, Invariance, PTL

\* A message is answered or kept as a note, never both, and each part of the
\* answer appears twice only when Telegram's answer to an attempt was lost,
\* whatever with_retry goes through.
THEOREM AnsweredOnceOrNotedCorrect == Spec => []AnsweredOnceOrNoted
<1>1. IntakeInv => AnsweredOnceOrNoted
  BY DEF IntakeInv, Good, Replies, Notes, HasNote, AnsweredOnceOrNoted
<1>2. QED
  BY <1>1, Invariance, PTL
=============================================================================
