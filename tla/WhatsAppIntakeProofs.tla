------------------------ MODULE WhatsAppIntakeProofs ------------------------
(***************************************************************************)
(* Safety of the WhatsApp intake for any messages, deliveries, faults and  *)
(* restarts.  Everything follows from one inductive invariant, IntakeInv:  *)
(* of the tasks that the deliveries of a message start, one at most gets   *)
(* past the event table, and what it has queued is what its message held.  *)
(***************************************************************************)
EXTENDS WhatsAppIntake, TLAPS

-----------------------------------------------------------------------------
\* The steps of a task that has passed the event table and has not ended.
Working == {"recorded", "stamped", "linking", "routing", "asking", "noting",
            "acking"}

HasJob(t) == \E j \in jobs : j[1] = t

\* A task is of a message that was sent, and of a delivery that was made.
Started == \A t \in Tasks :
    step[t] # "none" => t[1] \in sent /\ t[2] <= deliveries[t[1]]

\* A task that works, or has left a job, is of a recorded message.
Recorded == \A t \in Tasks :
    step[t] \in Working \/ HasJob(t) => t[1] \in recorded

\* Of the tasks of a message one at most works or has left a job.
OneTask == \A s, t \in Tasks :
    /\ s[1] = t[1]
    /\ step[s] \in Working \/ HasJob(s)
    /\ step[t] \in Working \/ HasJob(t)
    => s = t

\* What a task looks at, and where it goes, depends on the links it found.
Found == \A t \in Tasks :
    /\ step[t] = "linking" => todo[t] \subseteq LinksIn[t[1]]
    /\ step[t] \in {"routing", "asking", "noting"} => LinksIn[t[1]] = {}

\* A job is a link of its message, or else the one note of it; the task that
\* queued it will not be stamped again.
JobsFound == \A j \in jobs :
    /\ step[j[1]] \notin {"none", "spawned", "recorded", "stamped"}
    /\ \/ j[2] \in LinksIn[j[1][1]]
       \/ /\ j[2] = Noted(j[1][1], stamp[j[1]])
          /\ LinksIn[j[1][1]] = {}

\* A link that a task has passed is queued, known already or reported.
Looked == \A t \in Tasks : step[t] \in {"linking", "acking"} =>
    \A u \in LinksIn[t[1]] : (step[t] = "linking" /\ u \in todo[t]) \/ Settled(t[1], u)

\* Whatever makes a task say "saved" comes after its job.
Saved ==
    /\ \A t \in Tasks : queued[t] \/ step[t] = "acking" => HasJob(t)
    /\ AckedIsQueued

IntakeInv ==
    /\ TypeOK /\ Started /\ Recorded /\ OneTask /\ Found /\ JobsFound /\ Looked
    /\ Saved

-----------------------------------------------------------------------------
\* The invariant holds of an empty database and no task.
LEMMA InitInv == Init => IntakeInv
<1> SUFFICES ASSUME Init PROVE IntakeInv
  OBVIOUS
<1>1. TypeOK
  BY IntakeAssumption DEF Init, TypeOK, Steps
<1>2. \A t \in Tasks : step[t] = "none" /\ ~ HasJob(t) /\ ~ queued[t]
  BY DEF Init, HasJob
<1>3. jobs = {} /\ acked = {}
  BY DEF Init
<1>4. QED
  BY <1>1, <1>2, <1>3 DEF IntakeInv, Started, Recorded, OneTask, Found,
     JobsFound, Looked, Saved, AckedIsQueued, Working

\* What is known of a link stays known.
LEMMA SettledStays ==
    ASSUME jobs \subseteq jobs', dropped \subseteq dropped', failed \subseteq failed',
           NEW m \in Messages
    PROVE  /\ HasLeft(m) => HasLeft(m)'
           /\ \A u \in Links : Settled(m, u) => Settled(m, u)'
BY DEF HasLeft, Settled

\* Nobody else is told that a message is saved, or what is in it is settled.
LEMMA AckedStays ==
    ASSUME IntakeInv, TypeOK', jobs \subseteq jobs', dropped \subseteq dropped',
           failed \subseteq failed',
           \A m \in acked' \ acked :
               HasLeft(m)' /\ \A u \in LinksIn[m] : Settled(m, u)'
    PROVE  AckedIsQueued'
<1> SUFFICES ASSUME NEW m \in acked', m \in acked
             PROVE  HasLeft(m)' /\ \A u \in LinksIn[m] : Settled(m, u)'
  BY DEF AckedIsQueued, HasLeft, Settled
<1>1. m \in Messages /\ LinksIn[m] \subseteq Links
  BY IntakeAssumption DEF IntakeInv, TypeOK
<1>2. HasLeft(m) /\ \A u \in LinksIn[m] : Settled(m, u)
  BY DEF IntakeInv, Saved, AckedIsQueued
<1>3. QED
  BY <1>1, <1>2, SettledStays

\* A step that moves one task on, having looked at the links it leaves behind.
LEMMA LookedStays ==
    ASSUME IntakeInv, NEW t \in Tasks,
           \A r \in Tasks \ {t} : step'[r] = step[r] /\ todo'[r] = todo[r],
           jobs \subseteq jobs', dropped \subseteq dropped', failed \subseteq failed',
           step'[t] \in {"linking", "acking"} =>
               \A u \in LinksIn[t[1]] :
                   (step'[t] = "linking" /\ u \in todo'[t]) \/ Settled(t[1], u)'
    PROVE  Looked'
<1> SUFFICES ASSUME NEW r \in Tasks, step'[r] \in {"linking", "acking"},
                    NEW u \in LinksIn[r[1]], r # t
             PROVE  (step'[r] = "linking" /\ u \in todo'[r]) \/ Settled(r[1], u)'
  BY DEF Looked, Settled
<1>1. r[1] \in Messages /\ u \in Links
  BY IntakeAssumption DEF Tasks
<1>2. (step[r] = "linking" /\ u \in todo[r]) \/ Settled(r[1], u)
  BY DEF IntakeInv, Looked
<1>3. QED
  BY <1>1, <1>2, SettledStays

\* Of a message that was never recorded no task works or has left a job.
LEMMA Unrecorded ==
    ASSUME IntakeInv, NEW t \in Tasks, t[1] \notin recorded
    PROVE  \A s \in Tasks : s[1] = t[1] => step[s] \notin Working /\ ~ HasJob(s)
BY DEF IntakeInv, Recorded

\* A step that moves one task on, queues nothing and stamps nothing keeps the
\* invariant if the task was working or has stopped, and its types are kept.
LEMMA MoveKeeps ==
    ASSUME IntakeInv, TypeOK', NEW t \in Tasks, NEW s \in Steps, Goto(t, s),
           step[t] \in Working \cup {"spawned"},
           s \in Working => step[t] \in Working,
           s \notin {"none", "spawned"},
           s \in {"recorded", "stamped"} => ~ HasJob(t),
           s = "acking" => HasJob(t),
           s = "linking" => todo'[t] \subseteq LinksIn[t[1]],
           s \in {"routing", "asking", "noting"} => LinksIn[t[1]] = {},
           recorded \subseteq recorded',
           \A r \in Tasks \ {t} : todo'[r] = todo[r],
           HasJob(t) => stamp'[t] = stamp[t],
           \A r \in Tasks \ {t} : stamp'[r] = stamp[r],
           UNCHANGED <<sent, deliveries, jobs, queued>>,
           dropped \subseteq dropped', failed \subseteq failed',
           s \in {"linking", "acking"} => \A u \in LinksIn[t[1]] :
               (s = "linking" /\ u \in todo'[t]) \/ Settled(t[1], u)',
           \A m \in acked' \ acked :
               HasLeft(m)' /\ \A u \in LinksIn[m] : Settled(m, u)'
    PROVE  IntakeInv'
<1>1. step \in [Tasks -> Steps] /\ step' = [step EXCEPT ![t] = s]
  BY DEF IntakeInv, TypeOK, Goto
<1>2. step'[t] = s /\ \A r \in Tasks \ {t} : step'[r] = step[r]
  BY <1>1
<1>3. \A r \in Tasks : HasJob(r)' <=> HasJob(r)
  BY DEF HasJob
<1>4. Started'
  BY <1>2 DEF IntakeInv, Started, Working
<1>5. Recorded'
  BY <1>2, <1>3 DEF IntakeInv, Recorded
<1>6. OneTask'
  BY <1>2, <1>3 DEF IntakeInv, OneTask
<1>7. Found'
  BY <1>2 DEF IntakeInv, Found, Working
<1>8. JobsFound'
  <2> SUFFICES ASSUME NEW j \in jobs
               PROVE  /\ step'[j[1]] \notin {"none", "spawned", "recorded", "stamped"}
                      /\ \/ j[2] \in LinksIn[j[1][1]]
                         \/ /\ j[2] = Noted(j[1][1], stamp'[j[1]])
                            /\ LinksIn[j[1][1]] = {}
    BY DEF JobsFound, Noted
  <2>1. j[1] \in Tasks /\ HasJob(j[1])
    BY DEF IntakeInv, TypeOK, HasJob
  <2>2. QED
    BY <1>2, <2>1 DEF IntakeInv, JobsFound, Noted
<1>9. Saved' /\ Looked'
  BY <1>2, <1>3, AckedStays, LookedStays DEF IntakeInv, Saved
<1>10. QED
  BY <1>4, <1>5, <1>6, <1>7, <1>8, <1>9 DEF IntakeInv

\* A step that adds the job <<t, u>> of a working task keeps the invariant if
\* u is what the message asks for.
LEMMA QueueKeeps ==
    ASSUME IntakeInv, TypeOK', NEW t \in Tasks, NEW u \in Targets,
           NEW s \in {"linking", "acking", "failed"}, Goto(t, s),
           step[t] \in {"linking", "noting"},
           s = "linking" => step[t] = "linking",
           jobs' = jobs \cup {<<t, u>>},
           \/ u \in LinksIn[t[1]]
           \/ u = Noted(t[1], stamp[t]) /\ LinksIn[t[1]] = {},
           \A r \in Tasks : todo'[r] \subseteq todo[r],
           \A r \in Tasks \ {t} : todo'[r] = todo[r],
           dropped \subseteq dropped', failed \subseteq failed',
           s \in {"linking", "acking"} => \A v \in LinksIn[t[1]] :
               (s = "linking" /\ v \in todo'[t]) \/ Settled(t[1], v)',
           \A r \in Tasks \ {t} : queued'[r] = queued[r],
           UNCHANGED <<sent, deliveries, recorded, stamp, acked>>
    PROVE  IntakeInv'
<1>1. step \in [Tasks -> Steps] /\ step' = [step EXCEPT ![t] = s]
  BY DEF IntakeInv, TypeOK, Goto
<1>2. step'[t] = s /\ \A r \in Tasks \ {t} : step'[r] = step[r]
  BY <1>1 DEF Steps
<1>3. /\ HasJob(t)'
      /\ \A r \in Tasks \ {t} : HasJob(r)' <=> HasJob(r)
  <2>1. <<t, u>> \in jobs' /\ <<t, u>>[1] = t
    OBVIOUS
  <2>2. \A j \in jobs' : j \in jobs \/ j[1] = t
    OBVIOUS
  <2>3. QED
    BY <2>1, <2>2 DEF HasJob
<1>4. Started'
  BY <1>2 DEF IntakeInv, Started
<1>5. Recorded'
  BY <1>2, <1>3 DEF IntakeInv, Recorded, Working
<1>6. OneTask'
  BY <1>2, <1>3 DEF IntakeInv, OneTask, Working
<1>7. Found'
  BY <1>2 DEF IntakeInv, Found
<1>8. JobsFound'
  <2> SUFFICES ASSUME NEW j \in jobs'
               PROVE  /\ step'[j[1]] \notin {"none", "spawned", "recorded", "stamped"}
                      /\ \/ j[2] \in LinksIn[j[1][1]]
                         \/ /\ j[2] = Noted(j[1][1], stamp[j[1]])
                            /\ LinksIn[j[1][1]] = {}
    BY DEF JobsFound, Noted
  <2>1. CASE j \in jobs
    <3>1. j[1] \in Tasks
      BY <2>1 DEF IntakeInv, TypeOK
    <3>2. QED
      BY <1>2, <2>1, <3>1 DEF IntakeInv, JobsFound, Noted
  <2>2. CASE j = <<t, u>>
    BY <1>2, <2>2 DEF Noted
  <2>3. QED
    BY <2>1, <2>2
<1>9. Saved' /\ Looked'
  BY <1>2, <1>3, AckedStays, LookedStays DEF IntakeInv, Saved
<1>10. QED
  BY <1>4, <1>5, <1>6, <1>7, <1>8, <1>9 DEF IntakeInv

-----------------------------------------------------------------------------
\* Every step keeps the types, given that the tasks are of sent messages.
LEMMA NextType == IntakeInv /\ [Next]_vars => TypeOK'
<1> SUFFICES ASSUME IntakeInv, [Next]_vars PROVE TypeOK'
  OBVIOUS
<1> USE IntakeAssumption
<1>1. TypeOK /\ Started
  BY DEF IntakeInv
<1>2. ASSUME NEW m \in Messages, Send(m) \/ Deliver(m) PROVE TypeOK'
  <2>1. CASE Send(m)
    BY <1>1, <2>1 DEF TypeOK, Send, tables, task, told
  <2>2. CASE Deliver(m)
    <3>1. step' \in [Tasks -> Steps]
      BY <1>1, <2>2 DEF TypeOK, Deliver, Goto, Steps
    <3>2. QED
      BY <1>1, <2>2, <3>1 DEF TypeOK, Deliver, tables, task, told
  <2>3. QED
    BY <1>2, <2>1, <2>2
<1>3. ASSUME Millisecond PROVE TypeOK'
  BY <1>1, <1>3 DEF TypeOK, Millisecond, tables, task, told
<1>4. ASSUME NEW t \in Tasks, Proceed(t) PROVE TypeOK'
  <2>1. step[t] # "none" => t[1] \in sent
    BY <1>1 DEF Started
  <2>2. t[1] \in Messages /\ Noted(t[1], stamp[t]) \in Targets
    BY <1>1 DEF Tasks, TypeOK, Targets
  <2>3. step' \in [Tasks -> Steps]
    BY <1>1, <1>4 DEF Proceed, TypeOK, Steps, Goto, RecordEvent, Resolve,
       PassOver, Decline, Buffer, Route, QueueLink, DropLink, LinkDone, LinksDone,
       QueueNote, Answer, Ack
  <2>4. CASE RecordEvent(t) \/ Resolve(t) \/ PassOver(t) \/ Decline(t)
    BY <1>1, <2>1, <2>3, <2>4 DEF TypeOK, RecordEvent, Resolve, PassOver, Decline,
       wire, tables, told
  <2>5. CASE Buffer(t)
    <3>1. todo' \in [Tasks -> SUBSET Links]
      BY <1>1, <2>2, <2>5 DEF TypeOK, Buffer
    <3>2. QED
      BY <1>1, <2>3, <2>5, <3>1 DEF TypeOK, Buffer, wire, tables, told
  <2>6. CASE Route(t) \/ LinksDone(t) \/ Ack(t)
    BY <1>1, <2>1, <2>3, <2>6 DEF TypeOK, Route, LinksDone, Ack, wire, tables,
       told
  <2>7. ASSUME NEW u \in Links, QueueLink(t, u) \/ DropLink(t, u)
        PROVE  TypeOK'
    <3>1. jobs' \subseteq Tasks \X Targets
      BY <1>1, <2>7 DEF TypeOK, QueueLink, DropLink, Targets
    <3>2. todo' \in [Tasks -> SUBSET Links] /\ dropped' \subseteq sent \X Links
      BY <1>1, <2>1, <2>7 DEF TypeOK, QueueLink, DropLink, LinkDone, told
    <3>3. QED
      BY <1>1, <2>1, <2>3, <2>7, <3>1, <3>2 DEF TypeOK, QueueLink, DropLink, LinkDone,
         wire, told
  <2>8. CASE QueueNote(t)
    BY <1>1, <2>2, <2>3, <2>8 DEF TypeOK, QueueNote, wire, told
  <2>9. CASE Answer(t)
    BY <1>1, <2>1, <2>3, <2>9 DEF TypeOK, Answer, Fault, wire, tables
  <2>10. QED
    BY <1>4, <2>4, <2>5, <2>6, <2>7, <2>8, <2>9 DEF Proceed
<1>5. ASSUME NEW t \in Tasks, Fail(t) PROVE TypeOK'
  <2>1. t[1] \in sent
    BY <1>1, <1>5 DEF Started, Fail, Fallible
  <2>2. Noted(t[1], stamp[t]) \in Targets
    BY <1>1 DEF Tasks, TypeOK, Targets
  <2>3. recorded' \subseteq sent /\ jobs' \subseteq Tasks \X Targets
    BY <1>1, <1>5, <2>1, <2>2 DEF Fail, TypeOK, tables
  <2>4. QED
    BY <1>1, <1>5, <2>1, <2>3 DEF TypeOK, Fail, Fault, Goto, Steps, wire
<1>6. ASSUME NEW t \in Tasks, NEW u \in Links, LinkError(t, u) PROVE TypeOK'
  <2>1. t[1] \in sent
    BY <1>1, <1>6 DEF Started, LinkError, LinkDone
  <2>2. jobs' \subseteq Tasks \X Targets
    BY <1>1, <1>6 DEF LinkError, TypeOK, Targets
  <2>3. QED
    BY <1>1, <1>6, <2>1, <2>2 DEF TypeOK, LinkError, LinkDone, Fault, wire
<1>7. ASSUME Crash PROVE TypeOK'
  BY <1>1, <1>7 DEF TypeOK, Crash, Steps, wire, tables, told
<1>8. CASE UNCHANGED vars
  BY <1>1, <1>8 DEF TypeOK, vars, wire, tables, task, told
<1>9. QED
  BY <1>2, <1>3, <1>4, <1>5, <1>6, <1>7, <1>8 DEF Next

-----------------------------------------------------------------------------
\* A delivery starts a task that was never heard of, with no job.
LEMMA DeliverInv ==
    ASSUME IntakeInv, TypeOK', NEW m \in Messages, Deliver(m) PROVE IntakeInv'
<1> DEFINE t == <<m, deliveries[m] + 1>>
<1>1. /\ t \in Tasks /\ t[1] = m /\ t[2] = deliveries[m] + 1
      /\ m \in sent /\ deliveries[m] \in Nat
  BY IntakeAssumption DEF IntakeInv, TypeOK, Deliver, Tasks
<1>2. step[t] = "none" /\ ~ HasJob(t) /\ ~ queued[t]
  <2>1. step[t] = "none"
    BY <1>1 DEF IntakeInv, Started
  <2>2. ~ HasJob(t)
    BY <2>1 DEF IntakeInv, JobsFound, HasJob
  <2>3. QED
    BY <1>1, <2>1, <2>2 DEF IntakeInv, Saved
<1>3. /\ step'[t] = "spawned"
      /\ \A r \in Tasks \ {t} : step'[r] = step[r]
      /\ deliveries'[m] = deliveries[m] + 1
      /\ \A n \in Messages \ {m} : deliveries'[n] = deliveries[n]
      /\ UNCHANGED <<sent, recorded, jobs, stamp, todo, queued, acked, dropped,
                     failed>>
  BY <1>1 DEF IntakeInv, TypeOK, Deliver, Goto, tables, told
<1> HIDE DEF t
<1>4. \A r \in Tasks : HasJob(r)' <=> HasJob(r)
  BY <1>3 DEF HasJob
<1>5. Started'
  BY <1>1, <1>3 DEF IntakeInv, Started, TypeOK, Tasks
<1>6. Recorded' /\ OneTask'
  BY <1>2, <1>3, <1>4 DEF IntakeInv, Recorded, OneTask, Working
<1>7. Found'
  BY <1>1, <1>3 DEF IntakeInv, Found
<1>8. JobsFound'
  <2>1. \A j \in jobs : j[1] \in Tasks /\ j[1] # t
    BY <1>2 DEF IntakeInv, TypeOK, HasJob
  <2>2. QED
    BY <1>3, <2>1 DEF IntakeInv, JobsFound, Noted
<1>9. Saved' /\ Looked'
  BY <1>1, <1>3, <1>4, AckedStays, LookedStays DEF IntakeInv, Saved
<1>10. QED
  BY <1>5, <1>6, <1>7, <1>8, <1>9 DEF IntakeInv

\* The insert into the event table lets one task of a message through.
LEMMA RecordEventInv ==
    ASSUME IntakeInv, TypeOK', NEW t \in Tasks, RecordEvent(t)
    PROVE  IntakeInv'
<1>1. /\ step[t] = "spawned" /\ recorded' = recorded \cup {t[1]}
      /\ UNCHANGED <<sent, deliveries, jobs, stamp, todo, queued, acked, dropped,
                     failed>>
  BY DEF RecordEvent, wire, told
<1>2. ~ HasJob(t) /\ t[1] \in sent
  BY <1>1 DEF IntakeInv, JobsFound, HasJob, Started
<1>3. CASE t[1] \in recorded
  BY <1>1, <1>2, <1>3, MoveKeeps DEF RecordEvent, Steps, Working
<1>4. CASE t[1] \notin recorded
  <2>1. /\ step'[t] = "recorded"
        /\ \A r \in Tasks \ {t} : step'[r] = step[r]
    BY <1>4 DEF IntakeInv, TypeOK, RecordEvent, Goto
  <2>2. \A r \in Tasks : HasJob(r)' <=> HasJob(r)
    BY <1>1 DEF HasJob
  <2>3. Started' /\ Found'
    BY <1>1, <1>2, <2>1 DEF IntakeInv, Started, Found
  <2>4. Recorded'
    BY <1>1, <2>1, <2>2 DEF IntakeInv, Recorded
  <2>5. OneTask'
    BY <1>4, <2>1, <2>2, Unrecorded DEF IntakeInv, OneTask
  <2>6. JobsFound'
    <3>1. \A j \in jobs : j[1] \in Tasks /\ j[1] # t
      BY <1>2 DEF IntakeInv, TypeOK, HasJob
    <3>2. QED
      BY <1>1, <2>1, <3>1 DEF IntakeInv, JobsFound, Noted
  <2>7. Saved' /\ Looked'
    BY <1>1, <2>1, <2>2, AckedStays, LookedStays DEF IntakeInv, Saved
  <2>8. QED
    BY <2>3, <2>4, <2>5, <2>6, <2>7 DEF IntakeInv
<1>5. QED
  BY <1>3, <1>4

\* The steps of a task that queue nothing move it on.
LEMMA MoveInv ==
    ASSUME IntakeInv, TypeOK', NEW t \in Tasks,
           \/ Resolve(t) \/ PassOver(t) \/ Decline(t) \/ Buffer(t) \/ Route(t)
           \/ LinksDone(t) \/ Answer(t) \/ Ack(t)
    PROVE  IntakeInv'
<1> USE DEF Steps, Working
<1>1. CASE Resolve(t)
  <2>1. ~ HasJob(t)
    BY <1>1 DEF IntakeInv, JobsFound, HasJob, Resolve
  <2>2. \A r \in Tasks \ {t} : stamp'[r] = stamp[r]
    BY <1>1 DEF Resolve, IntakeInv, TypeOK
  <2>3. QED
    BY <1>1, <2>1, <2>2, MoveKeeps DEF Resolve, wire, tables, told
<1>2. CASE PassOver(t) \/ Decline(t)
  BY <1>2, MoveKeeps DEF PassOver, Decline, wire, tables
<1>3. CASE Buffer(t)
  <2>1. /\ todo'[t] = LinksIn[t[1]]
        /\ \A r \in Tasks \ {t} : todo'[r] = todo[r]
    BY <1>3 DEF Buffer, IntakeInv, TypeOK
  <2>2. /\ step[t] = "stamped"
        /\ UNCHANGED <<sent, deliveries, recorded, jobs, stamp, queued, acked,
                       dropped, failed>>
    BY <1>3 DEF Buffer, wire, tables, told
  <2>3. CASE LinksIn[t[1]] # {}
    <3>1. Goto(t, "linking")
      BY <1>3, <2>3, IntakeAssumption DEF Buffer, Tasks
    <3>2. QED
      BY <2>1, <2>2, <2>3, <3>1, MoveKeeps
  <2>4. CASE LinksIn[t[1]] = {}
    <3>1. Goto(t, "noting") \/ Goto(t, "routing")
      BY <1>3, <2>4, IntakeAssumption DEF Buffer, Tasks
    <3>2. QED
      BY <2>1, <2>2, <2>4, <3>1, MoveKeeps
  <2>5. QED
    BY <2>3, <2>4
<1>4. CASE Route(t)
  <2>1. LinksIn[t[1]] = {}
    BY <1>4 DEF IntakeInv, Found, Route
  <2>2. QED
    BY <1>4, <2>1, MoveKeeps DEF Route, wire, tables, told
<1>5. CASE LinksDone(t)
  <2>1. /\ queued[t] => HasJob(t)
        /\ \A u \in LinksIn[t[1]] : Settled(t[1], u)
    BY <1>5 DEF IntakeInv, Saved, Looked, LinksDone
  <2>2. /\ step[t] = "linking"
        /\ (Goto(t, "acking") /\ queued[t]) \/ Goto(t, "done")
        /\ UNCHANGED <<sent, deliveries, recorded, jobs, stamp, todo, queued, acked,
                       dropped, failed>>
    BY <1>5 DEF LinksDone, wire, tables, told
  <2>3. \A u \in LinksIn[t[1]] : Settled(t[1], u)'
    BY <2>1, <2>2 DEF Settled
  <2>4. QED
    BY <2>1, <2>2, <2>3, MoveKeeps
<1>6. CASE Answer(t)
  BY <1>6, MoveKeeps DEF Answer, wire, tables
<1>7. CASE Ack(t)
  <2>1. HasLeft(t[1]) /\ \A u \in LinksIn[t[1]] : Settled(t[1], u)
    BY <1>7 DEF Ack, IntakeInv, Saved, Looked, HasJob, HasLeft
  <2>2. /\ step[t] = "acking" /\ Goto(t, "done") /\ acked' \ acked \subseteq {t[1]}
        /\ UNCHANGED <<sent, deliveries, recorded, jobs, stamp, todo, queued, dropped,
                       failed>>
    BY <1>7 DEF Ack, wire, tables
  <2>3. HasLeft(t[1])' /\ \A u \in LinksIn[t[1]] : Settled(t[1], u)'
    BY <2>1, <2>2 DEF HasLeft, Settled
  <2>4. QED
    BY <2>2, <2>3, MoveKeeps
<1>8. QED
  BY <1>1, <1>2, <1>3, <1>4, <1>5, <1>6, <1>7

\* Looking at a link: it is queued, known already, or cannot be queued.
LEMMA LinkInv ==
    ASSUME IntakeInv, TypeOK', NEW t \in Tasks, NEW u \in Links,
           QueueLink(t, u) \/ DropLink(t, u) \/ LinkError(t, u)
    PROVE  IntakeInv'
<1>1. /\ step[t] = "linking" /\ u \in LinksIn[t[1]] /\ u \in Targets
      /\ todo' = [todo EXCEPT ![t] = todo[t] \ {u}]
      /\ todo \in [Tasks -> SUBSET Links]
      /\ UNCHANGED <<sent, deliveries, recorded, stamp, acked>>
  BY DEF IntakeInv, TypeOK, Found, QueueLink, DropLink, LinkError, LinkDone,
     Targets, wire, told
<1>2. Goto(t, "linking")
  BY <1>1 DEF IntakeInv, TypeOK, Goto, QueueLink, DropLink, LinkError, LinkDone
<1>3. /\ \A r \in Tasks \ {t} : todo'[r] = todo[r]
      /\ \A r \in Tasks : todo'[r] \subseteq todo[r]
      /\ todo'[t] \subseteq LinksIn[t[1]]
  BY <1>1 DEF IntakeInv, Found
<1>4. /\ \A r \in Tasks \ {t} : queued'[r] = queued[r]
      /\ jobs \subseteq jobs' /\ dropped \subseteq dropped' /\ failed \subseteq failed'
  BY DEF IntakeInv, TypeOK, QueueLink, DropLink, LinkError, told
<1>8. \A v \in LinksIn[t[1]] : v \in todo'[t] \/ Settled(t[1], v)'
  <2>1. t[1] \in Messages /\ LinksIn[t[1]] \subseteq Links
    BY IntakeAssumption DEF Tasks
  <2>2. Settled(t[1], u)'
    <3>1. CASE QueueLink(t, u)
      <4>1. <<t, u>> \in jobs'
        BY <3>1 DEF QueueLink
      <4>2. QED
        BY <4>1 DEF Settled
    <3>2. CASE DropLink(t, u) \/ LinkError(t, u)
      BY <3>2 DEF DropLink, LinkError, Settled
    <3>3. QED
      BY <3>1, <3>2
  <2>3. \A v \in LinksIn[t[1]] : v \in todo[t] \/ Settled(t[1], v)
    BY <1>1 DEF IntakeInv, Looked
  <2>4. \A v \in LinksIn[t[1]] : Settled(t[1], v) => Settled(t[1], v)'
    BY <1>4, <2>1, SettledStays
  <2>5. QED
    BY <1>1, <2>2, <2>3, <2>4
<1>5. CASE jobs' = jobs \cup {<<t, u>>}
  BY <1>1, <1>2, <1>3, <1>4, <1>5, <1>8, QueueKeeps
<1>6. CASE UNCHANGED <<jobs, queued>>
  BY <1>1, <1>2, <1>3, <1>4, <1>6, <1>8, MoveKeeps DEF Steps, Working
<1>7. QED
  BY <1>5, <1>6 DEF QueueLink, DropLink, LinkError

\* The note of a text or of a medium, and the failure of its insert, which
\* may have committed.
LEMMA NoteInv ==
    ASSUME IntakeInv, TypeOK', NEW t \in Tasks, QueueNote(t) \/ Fail(t)
    PROVE  IntakeInv'
<1> DEFINE u == Noted(t[1], stamp[t])
<1>1. u \in Targets
  BY DEF IntakeInv, TypeOK, Tasks, Targets
<1>2. /\ step[t] \in {"spawned", "recorded", "stamped", "noting"}
      /\ Goto(t, "acking") \/ Goto(t, "failed")
      /\ recorded \subseteq recorded'
      /\ UNCHANGED <<sent, deliveries, stamp, todo, queued, acked, dropped, failed>>
  BY DEF QueueNote, Fail, Fallible, wire, told, tables
<1>3. CASE step[t] = "noting" /\ jobs' = jobs \cup {<<t, u>>}
  <2>1. LinksIn[t[1]] = {} /\ UNCHANGED recorded
    BY <1>3 DEF IntakeInv, Found, QueueNote, Fail, tables
  <2>2. QED
    BY <1>1, <1>2, <1>3, <2>1, QueueKeeps
<1>4. CASE Fail(t) /\ UNCHANGED jobs
  BY <1>2, <1>4, MoveKeeps DEF Fail, Steps, Working
<1>5. QED
  BY <1>3, <1>4 DEF QueueNote, Fail, tables

\* A restart ends every task: there is less to keep true.
LEMMA CrashInv == ASSUME IntakeInv, TypeOK', Crash PROVE IntakeInv'
<1>1. /\ \A t \in Tasks : step'[t] = IF step[t] \in {"none", "done", "failed"}
                                    THEN step[t] ELSE "dead"
      /\ UNCHANGED <<sent, deliveries, recorded, jobs, stamp, queued, acked, dropped,
                     failed>>
  BY DEF Crash, wire, tables, told
<1>2. \A t \in Tasks : HasJob(t)' <=> HasJob(t)
  BY <1>1 DEF HasJob
<1>3. Started' /\ Found'
  BY <1>1 DEF IntakeInv, Started, Found
<1>4. Recorded' /\ OneTask'
  BY <1>1, <1>2 DEF IntakeInv, Recorded, OneTask, Working
<1>5. JobsFound'
  <2>1. \A j \in jobs : j[1] \in Tasks
    BY DEF IntakeInv, TypeOK
  <2>2. QED
    BY <1>1, <2>1 DEF IntakeInv, JobsFound, Noted
<1>6. Saved' /\ Looked'
  BY <1>1, <1>2, AckedStays DEF IntakeInv, Saved, Looked
<1>7. QED
  BY <1>3, <1>4, <1>5, <1>6 DEF IntakeInv

\* What the invariant reads is not touched.
LEMMA FrameInv ==
    ASSUME IntakeInv, TypeOK',
           UNCHANGED <<sent, deliveries, recorded, jobs, task, acked, dropped, failed>>
    PROVE  IntakeInv'
BY DEF IntakeInv, Started, Recorded, OneTask, Found, JobsFound, Looked, Saved,
   AckedIsQueued, HasLeft, Settled, HasJob, Noted, task

\* IntakeInv is inductive.
LEMMA NextInv == IntakeInv /\ [Next]_vars => IntakeInv'
<1> SUFFICES ASSUME IntakeInv, [Next]_vars PROVE IntakeInv'
  OBVIOUS
<1>1. TypeOK'
  BY NextType
<1>2. ASSUME NEW m \in Messages, Send(m) PROVE IntakeInv'
  <2>1. /\ sent \subseteq sent'
        /\ UNCHANGED <<deliveries, recorded, jobs, step, stamp, todo, queued,
                       acked, dropped, failed>>
    BY <1>2 DEF Send, tables, task, told
  <2>2. Started'
    BY <2>1 DEF IntakeInv, Started
  <2>3. QED
    BY <1>1, <2>1, <2>2 DEF IntakeInv, Recorded, OneTask, Found, JobsFound,
       Looked, Saved, AckedIsQueued, HasLeft, Settled, HasJob, Noted
<1>3. ASSUME NEW m \in Messages, Deliver(m) PROVE IntakeInv'
  BY <1>1, <1>3, DeliverInv
<1>4. CASE Millisecond
  BY <1>1, <1>4, FrameInv DEF Millisecond, tables, told
<1>5. ASSUME NEW t \in Tasks, Proceed(t) PROVE IntakeInv'
  BY <1>1, <1>5, RecordEventInv, MoveInv, LinkInv, NoteInv DEF Proceed
<1>6. ASSUME NEW t \in Tasks, Fail(t) PROVE IntakeInv'
  BY <1>1, <1>6, NoteInv
<1>7. ASSUME NEW t \in Tasks, NEW u \in Links, LinkError(t, u)
      PROVE  IntakeInv'
  BY <1>1, <1>7, LinkInv
<1>8. CASE Crash
  BY <1>1, <1>8, CrashInv
<1>9. CASE UNCHANGED vars
  BY <1>1, <1>9, FrameInv DEF vars, wire, tables, told
<1>10. QED
  BY <1>2, <1>3, <1>4, <1>5, <1>6, <1>7, <1>8, <1>9 DEF Next

LEMMA Invariance == Spec => []IntakeInv
BY InitInv, NextInv, PTL DEF Spec

-----------------------------------------------------------------------------
\* Every reachable state has the types the code declares.
THEOREM TypeCorrect == Spec => []TypeOK
BY Invariance, PTL DEF IntakeInv

\* However often, and however closely together, Meta delivers a message, it
\* is queued once: one task makes its jobs, and a text or medium makes one
\* ("first insert wins, replays are dropped", process_inner).
THEOREM QueuedOnceCorrect == Spec => []QueuedOnce
<1>1. ASSUME IntakeInv, NEW a \in jobs, NEW b \in jobs, a[1][1] = b[1][1]
      PROVE  a[1] = b[1] /\ (a[2] \notin Links => a = b)
  <2>1. /\ a[1] \in Tasks /\ a = <<a[1], a[2]>>
        /\ b[1] \in Tasks /\ b = <<b[1], b[2]>>
    BY <1>1 DEF IntakeInv, TypeOK
  <2>2. a[1] = b[1]
    BY <1>1, <2>1 DEF IntakeInv, OneTask, HasJob
  <2>3. ASSUME a[2] \notin Links PROVE a = b
    <3>1. a[2] \notin LinksIn[a[1][1]]
      BY <2>1, <2>3, IntakeAssumption DEF Tasks
    <3>2. LinksIn[a[1][1]] = {} /\ a[2] = Noted(a[1][1], stamp[a[1]])
      BY <1>1, <3>1 DEF IntakeInv, JobsFound
    <3>3. b[2] = Noted(a[1][1], stamp[a[1]])
      BY <1>1, <2>2, <3>2 DEF IntakeInv, JobsFound
    <3>4. QED
      BY <2>1, <2>2, <3>2, <3>3
  <2>4. QED
    BY <2>2, <2>3
<1>2. IntakeInv => QueuedOnce
  BY <1>1 DEF QueuedOnce
<1>3. QED
  BY <1>2, Invariance, PTL

\* Nobody is told that a message is saved before it has left a durable job, and
\* each of its links is queued, known already or reported as failed
\* (schedule_link, schedule_note and ack).
THEOREM AckedIsQueuedCorrect == Spec => []AckedIsQueued
BY Invariance, PTL DEF IntakeInv, Saved
=============================================================================
