------------------------ MODULE IngestionQueueProofs ------------------------
(***************************************************************************)
(* Safety of the ingestion queue for any number of rows, instances,        *)
(* attempts and faults.  Type correctness comes first; the rest follows    *)
(* from the inductive invariant QueueInv.                                  *)
(***************************************************************************)
EXTENDS IngestionQueue, TLAPS

-----------------------------------------------------------------------------
\* Facts about the operators the actions are built from.

\* A backoff is a natural number of ticks, whatever the attempt.
LEMMA BackoffNat == ASSUME NEW a \in Nat PROVE Backoff(a) \in Nat
<1> DEFINE shift == IF a < 1 THEN 0 ELSE Lesser(a - 1, MaxShift)
<1>1. MaxShift \in Nat /\ BaseBackoff \in Nat /\ MaxBackoff \in Nat
  BY QueueAssumption
<1>2. shift \in 0..MaxShift
  BY <1>1 DEF Lesser
<1>3. 2^shift \in Nat
  BY <1>2, BackoffAssumption
<1> HIDE DEF shift
<1>4. BaseBackoff * 2^shift \in Nat
  BY <1>1, <1>3
<1>5. Lesser(BaseBackoff * 2^shift, MaxBackoff) \in Nat
  BY <1>1, <1>4 DEF Lesser
<1>6. QED
  BY <1>5 DEF Backoff, shift

\* A claimed batch consists of open rows of the table.
LEMMA ClaimableOpen ==
    ASSUME NEW batch \in Claimable
    PROVE  /\ batch \subseteq rows
           /\ \A j \in batch : status[j] \in {"pending", "claimed"}
BY DEF Claimable, Due

-----------------------------------------------------------------------------
LEMMA InitType == Init => TypeOK
BY QueueAssumption DEF Init, TypeOK, Statuses, Stages, Phases, Bands

\* Each group of actions preserves the part of TypeOK it can disturb.
LEMMA TakeClaimType ==
    ASSUME TypeOK, NEW batch \in Claimable, TakeClaim(batch)
    PROVE  /\ rows' \subseteq Jobs
           /\ status' \in [Jobs -> Statuses]
           /\ attempts' \in [Jobs -> Nat]
           /\ wait' \in [Jobs -> Int]
           /\ claimAge' \in [Jobs -> 0..StaleAfter + 1]
           /\ band' \in [Jobs -> Bands]
BY QueueAssumption DEF TypeOK, TakeClaim, Statuses

LEMMA SetRowType ==
    ASSUME TypeOK, NEW j \in Jobs, NEW s \in Statuses, NEW d \in Int,
           SetRow(j, s, d)
    PROVE  /\ rows' \subseteq Jobs
           /\ status' \in [Jobs -> Statuses]
           /\ attempts' \in [Jobs -> Nat]
           /\ wait' \in [Jobs -> Int]
           /\ claimAge' \in [Jobs -> 0..StaleAfter + 1]
           /\ band' \in [Jobs -> Bands]
<1>1. /\ rows \subseteq Jobs
      /\ status \in [Jobs -> Statuses]
      /\ attempts \in [Jobs -> Nat]
      /\ wait \in [Jobs -> Int]
      /\ claimAge \in [Jobs -> 0..StaleAfter + 1]
      /\ band \in [Jobs -> Bands]
  BY DEF TypeOK
<1>2. 0 \in 0..StaleAfter + 1
  BY QueueAssumption
<1>3. UNCHANGED <<rows, attempts, band>>
  BY DEF SetRow
<1>4. CASE j \in rows
  <2>1. /\ status' = [status EXCEPT ![j] = s]
        /\ wait' = [wait EXCEPT ![j] = d]
        /\ claimAge' = [claimAge EXCEPT ![j] = 0]
    BY <1>4 DEF SetRow
  <2>2. /\ status' \in [Jobs -> Statuses]
        /\ wait' \in [Jobs -> Int]
        /\ claimAge' \in [Jobs -> 0..StaleAfter + 1]
    BY <1>1, <1>2, <2>1
  <2>3. QED
    BY <1>1, <1>3, <2>2
<1>5. CASE j \notin rows
  <2>1. UNCHANGED <<status, wait, claimAge>>
    BY <1>5 DEF SetRow
  <2>2. QED
    BY <1>1, <1>3, <2>1
<1>6. QED
  BY <1>4, <1>5

LEMMA ReleaseType ==
    ASSUME TypeOK, NEW i \in Instances, NEW j \in Jobs, Release(i, j)
    PROVE  /\ phase' \in [Instances -> Phases]
           /\ stage' \in [Instances -> [Jobs -> Stages]]
           /\ ticket' \in [Instances -> [Jobs -> Nat]]
           /\ permit' \in [Instances -> BOOLEAN]
BY DEF TypeOK, Release, Stages, Phases

LEMMA FaultType == TypeOK /\ Fault => faults' \in 0..MaxFaults
BY QueueAssumption DEF TypeOK, Fault

LEMMA NextType == TypeOK /\ [Next]_vars => TypeOK'
<1> SUFFICES ASSUME TypeOK, [Next]_vars PROVE TypeOK'
  OBVIOUS
<1>1. ASSUME NEW i \in Instances, NEW j \in Jobs,
             EnqueueLink(i, j) \/ EnqueueNote(i, j)
      PROVE  TypeOK'
  <2>1. /\ \E delay \in Int : InsertRow(j, delay)
        /\ permit' = [permit EXCEPT ![i] = TRUE]
        /\ UNCHANGED <<phase, stage, ticket, processed, faults>>
    BY <1>1, QueueAssumption DEF EnqueueLink, EnqueueNote
  <2>2. QED
    BY <2>1 DEF TypeOK, InsertRow, Statuses
<1>2. ASSUME NEW i \in Instances, ClaimBatch(i) PROVE TypeOK'
  <2> PICK batch \in Claimable :
          /\ TakeClaim(batch)
          /\ stage' = [stage EXCEPT ![i] =
                 [j \in Jobs |-> IF j \in batch THEN "queued" ELSE "none"]]
          /\ ticket' = [ticket EXCEPT ![i] =
                 [j \in Jobs |-> IF j \in batch THEN attempts[j] + 1 ELSE 0]]
    BY <1>2 DEF ClaimBatch
  <2>1. /\ stage' \in [Instances -> [Jobs -> Stages]]
        /\ ticket' \in [Instances -> [Jobs -> Nat]]
    BY DEF TypeOK, Stages
  <2>2. QED
    BY <1>2, <2>1, TakeClaimType DEF TypeOK, ClaimBatch, Phases
<1>3. ASSUME NEW i \in Instances, ClaimNothing(i) PROVE TypeOK'
  BY <1>3 DEF TypeOK, ClaimNothing, table, Phases
<1>4. ASSUME NEW i \in Instances, ClaimError(i) PROVE TypeOK'
  <2>1. /\ phase' \in [Instances -> Phases]
        /\ UNCHANGED <<stage, ticket, permit, processed>>
        /\ faults' \in 0..MaxFaults
    BY <1>4, FaultType DEF ClaimError, TypeOK, Phases
  <2>2. CASE UNCHANGED table
    BY <2>1, <2>2 DEF TypeOK, table
  <2>3. CASE \E batch \in Claimable : TakeClaim(batch)
    BY <2>1, <2>3, TakeClaimType DEF TypeOK
  <2>4. QED
    BY <1>4, <2>2, <2>3 DEF ClaimError
<1>5. ASSUME NEW i \in Instances, WakeByTimer(i) \/ WakeByNotify(i)
      PROVE  TypeOK'
  BY <1>5 DEF TypeOK, WakeByTimer, WakeByNotify, table, Phases
<1>6. ASSUME NEW i \in Instances, NEW j \in Jobs,
             StartJob(i, j) \/ Process(i, j)
      PROVE  TypeOK'
  <2>1. /\ UNCHANGED <<table, phase, ticket, permit, faults>>
        /\ processed' \subseteq Jobs
    BY <1>6 DEF TypeOK, StartJob, Process, ProcessOk, ProcessErr
  <2>2. \E s \in Stages : stage' = [stage EXCEPT ![i][j] = s]
    BY <1>6 DEF StartJob, Process, ProcessOk, ProcessErr, Stages
  <2>3. stage' \in [Instances -> [Jobs -> Stages]]
    BY <2>2 DEF TypeOK
  <2>4. QED
    BY <2>1, <2>3 DEF TypeOK, table
<1>7. ASSUME NEW i \in Instances, NEW j \in Jobs, MarkDone(i, j)
      PROVE  TypeOK'
  BY <1>7, SetRowType, ReleaseType DEF MarkDone, TypeOK, Statuses
<1>8. ASSUME NEW i \in Instances, NEW j \in Jobs, MarkFailed(i, j)
      PROVE  TypeOK'
  <2>1. Backoff(ticket[i][j]) \in Int
    BY BackoffNat DEF TypeOK
  <2>2. \E s \in Statuses, d \in Int : SetRow(j, s, d)
    BY <1>8, <2>1 DEF MarkFailed, Statuses
  <2>3. QED
    BY <1>8, <2>2, SetRowType, ReleaseType DEF MarkFailed, TypeOK
<1>9. ASSUME NEW i \in Instances, NEW j \in Jobs, MarkError(i, j)
      PROVE  TypeOK'
  BY <1>9, ReleaseType, FaultType DEF MarkError, TypeOK, table
<1>10. ASSUME NEW i \in Instances, Crash(i) PROVE TypeOK'
  BY <1>10, FaultType DEF Crash, TypeOK, table, Stages, Phases
<1>11. CASE Tick
  BY <1>11, QueueAssumption DEF Tick, TypeOK, memory
<1>12. ASSUME NEW j \in Jobs, Age(j) PROVE TypeOK'
  BY <1>12 DEF Age, TypeOK, memory, Bands
<1>13. CASE PurgeOld
  BY <1>13 DEF PurgeOld, TypeOK, memory
<1>14. CASE UNCHANGED vars
  BY <1>14 DEF vars, table, memory, TypeOK
<1>15. QED
  BY <1>1, <1>2, <1>3, <1>4, <1>5, <1>6, <1>7, <1>8, <1>9, <1>10, <1>11,
     <1>12, <1>13, <1>14 DEF Next, Poll, Mark

\* Every reachable state of the queue is well typed (ingestion_jobs' schema,
\* the consumer's memory).
THEOREM TypeCorrect == Spec => []TypeOK
BY InitType, NextType, PTL DEF Spec
-----------------------------------------------------------------------------
(***************************************************************************)
(* The inductive invariant.  UniqueTickets is not inductive: a new claim   *)
(* takes the ticket attempts + 1, so one must know that every ticket still *)
(* held is at most attempts.  NothingLost is not either: a row is marked   *)
(* done, or failed, by what the holder remembers of it.                    *)
(***************************************************************************)
TicketsBehindRow ==
    \A i \in Instances : \A j \in Held(i) :
        /\ ticket[i][j] > 0
        /\ ticket[i][j] <= attempts[j]
        /\ stage[i][j] = "ok" => j \in processed

NewRowsAbsent == \A j \in Jobs : status[j] = "none" => j \notin rows

QueueInv == TypeOK /\ TicketsBehindRow /\ UniqueTickets /\ NothingLost
              /\ NewRowsAbsent

LEMMA InitQueueInv == Init => QueueInv
BY InitType DEF Init, QueueInv, TicketsBehindRow, UniqueTickets, NothingLost,
                NewRowsAbsent, Held

\* Releasing a row takes it from its holder and leaves everything else held.
LEMMA ReleaseHeld ==
    ASSUME TypeOK, NEW i \in Instances, NEW j \in Jobs, Release(i, j)
    PROVE  \A k \in Instances, l \in Jobs :
               stage'[k][l] # "none" =>
                   /\ stage'[k][l] = stage[k][l]
                   /\ ticket'[k][l] = ticket[k][l]
                   /\ l \in Held(k)
BY DEF Release, TypeOK, Held

\* What a step may do to the memory of the instances and still preserve the
\* ticket invariants: forget, or advance a row already held.
Narrows ==
    /\ \A k \in Instances, l \in Jobs :
           stage'[k][l] # "none" =>
               /\ stage[k][l] # "none"
               /\ ticket'[k][l] = ticket[k][l]
               /\ stage'[k][l] = "ok" => l \in processed'
    /\ \A l \in Jobs : attempts'[l] >= attempts[l]
    /\ processed \subseteq processed'

LEMMA NarrowsKeepsTickets ==
    ASSUME TypeOK, TypeOK', TicketsBehindRow, UniqueTickets, Narrows
    PROVE  TicketsBehindRow' /\ UniqueTickets'
<1>1. TicketsBehindRow'
  BY DEF TicketsBehindRow, Narrows, Held, TypeOK
<1>2. UniqueTickets'
  BY DEF UniqueTickets, Narrows, Held, TypeOK
<1>3. QED
  BY <1>1, <1>2

\* A claim leaves every fact about settled rows alone.
LEMMA TakeClaimKeepsRows ==
    ASSUME QueueInv, NEW batch \in Claimable, TakeClaim(batch),
           processed' = processed
    PROVE  NothingLost' /\ NewRowsAbsent'
<1>1. \A j \in batch : j \in rows /\ status[j] \in {"pending", "claimed"}
  BY ClaimableOpen
<1>2. NothingLost'
  BY <1>1 DEF QueueInv, TypeOK, NothingLost, TakeClaim, Settled
<1>3. NewRowsAbsent'
  BY DEF QueueInv, TypeOK, NewRowsAbsent, TakeClaim
<1>4. QED
  BY <1>2, <1>3

\* Writing an outcome the holder vouches for keeps the promise about rows.
LEMMA SetRowKeepsRows ==
    ASSUME QueueInv, NEW j \in Jobs, NEW s \in {"pending", "done", "failed"},
           NEW d \in Int, SetRow(j, s, d), processed' = processed,
           s = "done" => j \in processed,
           s = "failed" => attempts[j] > 0 /\ attempts[j] >= MaxAttempts
    PROVE  NothingLost' /\ NewRowsAbsent'
<1>1. NothingLost'
  BY DEF QueueInv, TypeOK, NothingLost, NewRowsAbsent, SetRow, Settled
<1>2. NewRowsAbsent'
  BY DEF QueueInv, TypeOK, NewRowsAbsent, SetRow
<1>3. QED
  BY <1>1, <1>2

LEMMA NextQueueInv == QueueInv /\ [Next]_vars => QueueInv'
<1> SUFFICES ASSUME QueueInv, [Next]_vars PROVE QueueInv'
  OBVIOUS
<1>type. TypeOK /\ TypeOK'
  BY NextType DEF QueueInv
<1>inv. TicketsBehindRow /\ UniqueTickets /\ NothingLost /\ NewRowsAbsent
  BY DEF QueueInv
\* Steps that touch neither the table nor, except to narrow it, the memory.
<1>quiet. ASSUME UNCHANGED table, processed' = processed, Narrows
          PROVE  QueueInv'
  <2>1. NothingLost' /\ NewRowsAbsent'
    BY <1>quiet, <1>inv DEF NothingLost, NewRowsAbsent, table
  <2>2. QED
    BY <1>quiet, <1>type, <1>inv, <2>1, NarrowsKeepsTickets DEF QueueInv
<1>1. ASSUME NEW i \in Instances, NEW j \in Jobs,
             EnqueueLink(i, j) \/ EnqueueNote(i, j)
      PROVE  QueueInv'
  <2>1. Narrows
    BY <1>1, <1>type, <1>inv
       DEF EnqueueLink, EnqueueNote, InsertRow, Narrows, TypeOK,
           TicketsBehindRow, Held
  <2>2. NothingLost' /\ NewRowsAbsent'
    BY <1>1, <1>type, <1>inv
       DEF EnqueueLink, EnqueueNote, InsertRow, TypeOK, NothingLost,
           NewRowsAbsent
  <2>3. QED
    BY <2>1, <2>2, <1>type, <1>inv, NarrowsKeepsTickets DEF QueueInv
<1>2. ASSUME NEW i \in Instances, ClaimBatch(i) PROVE QueueInv'
  <2> PICK batch \in Claimable :
          /\ TakeClaim(batch)
          /\ stage' = [stage EXCEPT ![i] =
                 [j \in Jobs |-> IF j \in batch THEN "queued" ELSE "none"]]
          /\ ticket' = [ticket EXCEPT ![i] =
                 [j \in Jobs |-> IF j \in batch THEN attempts[j] + 1 ELSE 0]]
    BY <1>2 DEF ClaimBatch
  <2>1. processed' = processed
    BY <1>2 DEF ClaimBatch
  <2>2. NothingLost' /\ NewRowsAbsent'
    BY <2>1, TakeClaimKeepsRows
  <2>3. \A j \in Jobs : attempts'[j] =
            IF j \in batch THEN attempts[j] + 1 ELSE attempts[j]
    BY DEF TakeClaim
  \* The claimer holds exactly the batch, under tickets no one can have.
  <2>4. \A j \in Jobs : stage'[i][j] # "none" =>
            j \in batch /\ stage'[i][j] = "queued"
                /\ ticket'[i][j] = attempts[j] + 1
    BY <1>type DEF TypeOK
  <2>5. \A k \in Instances \ {i} :
            stage'[k] = stage[k] /\ ticket'[k] = ticket[k]
    BY <1>type DEF TypeOK
  <2>6. \A k \in Instances \ {i}, j \in Jobs : stage'[k][j] # "none" =>
            ticket'[k][j] > 0 /\ ticket'[k][j] <= attempts[j]
                /\ (stage'[k][j] = "ok" => j \in processed)
    BY <2>5, <1>inv DEF TicketsBehindRow, Held
  <2>7. TicketsBehindRow'
    BY <1>type, <2>1, <2>3, <2>4, <2>6 DEF TicketsBehindRow, Held, TypeOK
  <2>8. UniqueTickets'
    <3> SUFFICES ASSUME NEW k \in Instances, NEW l \in Instances,
                        NEW j \in Jobs, k # l,
                        stage'[k][j] # "none", stage'[l][j] # "none"
                 PROVE  ticket'[k][j] # ticket'[l][j]
      BY DEF UniqueTickets, Held
    <3>1. CASE k # i /\ l # i
      BY <3>1, <2>5, <1>inv DEF UniqueTickets, Held
    <3>2. CASE k = i
      BY <3>2, <2>4, <2>6, <1>type DEF TypeOK
    <3>3. CASE l = i
      BY <3>3, <2>4, <2>6, <1>type DEF TypeOK
    <3>4. QED
      BY <3>1, <3>2, <3>3
  <2>9. QED
    BY <1>type, <2>2, <2>7, <2>8 DEF QueueInv
<1>3. ASSUME NEW i \in Instances,
             ClaimNothing(i) \/ WakeByTimer(i) \/ WakeByNotify(i)
      PROVE  QueueInv'
  <2>1. Narrows
    BY <1>3, <1>type, <1>inv DEF ClaimNothing, WakeByTimer, WakeByNotify,
                                 Narrows, TypeOK, TicketsBehindRow, Held, table
  <2>2. QED
    BY <1>3, <2>1, <1>quiet DEF ClaimNothing, WakeByTimer, WakeByNotify
<1>4. ASSUME NEW i \in Instances, ClaimError(i) PROVE QueueInv'
  <2>1. UNCHANGED <<stage, ticket, processed>>
    BY <1>4 DEF ClaimError
  <2>2. CASE UNCHANGED table
    <3>1. Narrows
      BY <2>1, <2>2, <1>type, <1>inv DEF Narrows, TypeOK, TicketsBehindRow,
                                         Held, table
    <3>2. QED
      BY <2>1, <2>2, <3>1, <1>quiet
  <2>3. ASSUME NEW batch \in Claimable, TakeClaim(batch) PROVE QueueInv'
    <3>1. Narrows
      BY <2>1, <2>3, <1>type, <1>inv DEF Narrows, TypeOK, TicketsBehindRow,
                                         Held, TakeClaim
    <3>2. QED
      BY <2>1, <2>3, <3>1, <1>type, <1>inv, TakeClaimKeepsRows,
         NarrowsKeepsTickets DEF QueueInv
  <2>4. QED
    BY <1>4, <2>2, <2>3 DEF ClaimError
<1>5. ASSUME NEW i \in Instances, NEW j \in Jobs, StartJob(i, j)
      PROVE  QueueInv'
  <2>1. Narrows
    BY <1>5, <1>type, <1>inv DEF StartJob, Narrows, TypeOK, TicketsBehindRow,
                                 Held, table
  <2>2. QED
    BY <1>5, <2>1, <1>quiet DEF StartJob
<1>6. ASSUME NEW i \in Instances, NEW j \in Jobs, ProcessOk(i, j)
      PROVE  QueueInv'
  <2>1. Narrows
    BY <1>6, <1>type, <1>inv DEF ProcessOk, Narrows, TypeOK, TicketsBehindRow,
                                 Held, table
  <2>2. NothingLost' /\ NewRowsAbsent'
    BY <1>6, <1>inv DEF ProcessOk, NothingLost, NewRowsAbsent, table
  <2>3. QED
    BY <2>1, <2>2, <1>type, <1>inv, NarrowsKeepsTickets DEF QueueInv
<1>7. ASSUME NEW i \in Instances, NEW j \in Jobs, ProcessErr(i, j)
      PROVE  QueueInv'
  <2>1. Narrows
    BY <1>7, <1>type, <1>inv DEF ProcessErr, Narrows, TypeOK, TicketsBehindRow,
                                 Held, table
  <2>2. QED
    BY <1>7, <2>1, <1>quiet DEF ProcessErr
<1>8. ASSUME NEW i \in Instances, NEW j \in Jobs, MarkDone(i, j)
      PROVE  QueueInv'
  <2>1. Narrows
    BY <1>8, <1>type, <1>inv, ReleaseHeld
       DEF MarkDone, SetRow, Narrows, TypeOK, TicketsBehindRow, Held
  <2>2. j \in processed
    BY <1>8, <1>inv DEF MarkDone, TicketsBehindRow, Held
  <2>3. SetRow(j, "done", 0) /\ processed' = processed
    BY <1>8 DEF MarkDone
  <2>4. NothingLost' /\ NewRowsAbsent'
    BY <2>2, <2>3, SetRowKeepsRows
  <2>5. QED
    BY <2>1, <2>4, <1>type, <1>inv, NarrowsKeepsTickets DEF QueueInv
<1>9. ASSUME NEW i \in Instances, NEW j \in Jobs, MarkFailed(i, j)
      PROVE  QueueInv'
  <2>1. Narrows
    BY <1>9, <1>type, <1>inv, ReleaseHeld
       DEF MarkFailed, SetRow, Narrows, TypeOK, TicketsBehindRow, Held
  <2>2. ticket[i][j] > 0 /\ ticket[i][j] <= attempts[j]
    BY <1>9, <1>inv DEF MarkFailed, TicketsBehindRow, Held
  <2>3. ticket[i][j] \in Nat /\ attempts[j] \in Nat
    BY <1>type DEF TypeOK
  <2>4. processed' = processed
    BY <1>9 DEF MarkFailed
  <2>5. CASE ticket[i][j] >= MaxAttempts
    <3>1. SetRow(j, "failed", 0)
      BY <1>9, <2>5 DEF MarkFailed
    <3>2. attempts[j] > 0 /\ attempts[j] >= MaxAttempts
      BY <2>2, <2>3, <2>5, QueueAssumption
    <3>3. QED
      BY <2>1, <2>4, <3>1, <3>2, <1>type, <1>inv, SetRowKeepsRows,
         NarrowsKeepsTickets DEF QueueInv
  <2>6. CASE ~(ticket[i][j] >= MaxAttempts)
    <3>1. SetRow(j, "pending", Backoff(ticket[i][j]))
      BY <1>9, <2>6 DEF MarkFailed
    <3>2. Backoff(ticket[i][j]) \in Int
      BY <2>3, BackoffNat
    <3>3. QED
      BY <2>1, <2>4, <3>1, <3>2, <1>type, <1>inv, SetRowKeepsRows,
         NarrowsKeepsTickets DEF QueueInv
  <2>7. QED
    BY <2>5, <2>6
<1>10. ASSUME NEW i \in Instances, NEW j \in Jobs, MarkError(i, j)
       PROVE  QueueInv'
  <2>1. Narrows
    BY <1>10, <1>type, <1>inv, ReleaseHeld
       DEF MarkError, Narrows, TypeOK, TicketsBehindRow, Held, table
  <2>2. QED
    BY <1>10, <2>1, <1>quiet DEF MarkError
<1>11. ASSUME NEW i \in Instances, Crash(i) PROVE QueueInv'
  <2>1. Narrows
    BY <1>11, <1>type, <1>inv DEF Crash, Narrows, TypeOK, TicketsBehindRow,
                                  Held, table
  <2>2. QED
    BY <1>11, <2>1, <1>quiet DEF Crash
<1>12. ASSUME Tick \/ PurgeOld \/ \E j \in Jobs : Age(j) PROVE QueueInv'
  <2>1. UNCHANGED <<stage, ticket, attempts, status, processed>>
    BY <1>12 DEF Tick, PurgeOld, Age, memory
  <2>2. /\ rows' \subseteq rows
        /\ \A j \in rows \ rows' : status[j] \in Settled
    BY <1>12 DEF Tick, PurgeOld, Age, OldDone, OldFailed, Settled
  <2>3. Narrows
    BY <2>1, <1>type, <1>inv DEF Narrows, TypeOK, TicketsBehindRow, Held
  <2>4. NothingLost' /\ NewRowsAbsent'
    BY <2>1, <2>2, <1>inv DEF NothingLost, NewRowsAbsent
  <2>5. QED
    BY <2>3, <2>4, <1>type, <1>inv, NarrowsKeepsTickets DEF QueueInv
<1>13. CASE UNCHANGED vars
  <2>1. Narrows
    BY <1>13, <1>type, <1>inv DEF vars, memory, table, Narrows, TypeOK,
                                  TicketsBehindRow, Held
  <2>2. QED
    BY <1>13, <2>1, <1>quiet DEF vars
<1>14. QED
  BY <1>1, <1>2, <1>3, <1>4, <1>5, <1>6, <1>7, <1>8, <1>9, <1>10, <1>11,
     <1>12, <1>13 DEF Next, Poll, Process, Mark

LEMMA QueueInvariant == Spec => []QueueInv
BY InitQueueInv, NextQueueInv, PTL DEF Spec

\* No two instances ever hold the same row under the same attempt, so the
\* attempts value could fence off a late mark (claim_batch).
THEOREM TicketsUnique == Spec => []UniqueTickets
<1>1. QueueInv => UniqueTickets
  BY DEF QueueInv
<1>2. QED
  BY <1>1, QueueInvariant, PTL

\* No accepted row is given up silently (mark_done, mark_failed, purge_old).
THEOREM NothingIsLost == Spec => []NothingLost
<1>1. QueueInv => NothingLost
  BY DEF QueueInv
<1>2. QED
  BY <1>1, QueueInvariant, PTL
-----------------------------------------------------------------------------
(***************************************************************************)
(* One consumer, as main.rs starts it: the only holder of a row owns it,   *)
(* and the queue then implements the ledger.  HolderOwnsRow needs to know  *)
(* that a consumer asking for rows holds none: an answer lost on the way   *)
(* back then takes no row from it.                                         *)
(***************************************************************************)
OneInstance == \A i, k \in Instances : i = k

IdleHoldsNothing ==
    \A i \in Instances : phase[i] # "working" => Held(i) = {}

OwnerInv == QueueInv /\ HolderOwnsRow /\ IdleHoldsNothing

LEMMA InitOwner == Init => OwnerInv
BY InitQueueInv DEF Init, OwnerInv, HolderOwnsRow, IdleHoldsNothing, Held

\* A step that lets no row be held anew, and changes no row but those it
\* releases, preserves ownership.
LEMMA HoldersUndisturbed ==
    ASSUME TypeOK, HolderOwnsRow,
           \A k \in Instances, l \in Jobs : stage'[k][l] # "none" =>
               /\ stage[k][l] # "none"
               /\ ticket'[k][l] = ticket[k][l]
               /\ l \in rows => l \in rows'
               /\ status'[l] = status[l]
               /\ attempts'[l] = attempts[l]
    PROVE  HolderOwnsRow'
BY DEF HolderOwnsRow, Held

\* Releasing row j leaves the other rows of the batch, and only them, held.
LEMMA ReleaseOwner ==
    ASSUME OneInstance, OwnerInv, NEW i \in Instances, NEW j \in Jobs,
           stage[i][j] # "none", Release(i, j), UNCHANGED <<rows, attempts>>,
           \A l \in Jobs \ {j} : status'[l] = status[l]
    PROVE  HolderOwnsRow' /\ IdleHoldsNothing'
<1>type. TypeOK
  BY DEF OwnerInv, QueueInv
<1>1. \A k \in Instances : k = i
  BY DEF OneInstance
<1>2. /\ stage'[i][j] = "none"
      /\ \A l \in Jobs \ {j} : /\ stage'[i][l] = stage[i][l]
                               /\ ticket'[i][l] = ticket[i][l]
      /\ phase'[i] = IF Held(i) = {j} THEN "polling" ELSE "working"
  BY <1>type DEF Release, TypeOK
<1>3. HolderOwnsRow'
  BY <1>1, <1>2, <1>type, HoldersUndisturbed DEF OwnerInv
<1>4. IdleHoldsNothing'
  BY <1>1, <1>2 DEF IdleHoldsNothing, Held
<1>5. QED
  BY <1>3, <1>4

LEMMA NextOwner ==
    ASSUME OneInstance PROVE OwnerInv /\ [Next]_vars => OwnerInv'
<1> SUFFICES ASSUME OwnerInv, [Next]_vars
             PROVE  HolderOwnsRow' /\ IdleHoldsNothing'
  BY NextQueueInv DEF OwnerInv
<1>type. TypeOK /\ TypeOK'
  BY NextType DEF OwnerInv, QueueInv
<1>inv. HolderOwnsRow /\ IdleHoldsNothing
  BY DEF OwnerInv
<1>1. ASSUME NEW i \in Instances, NEW j \in Jobs,
             EnqueueLink(i, j) \/ EnqueueNote(i, j)
      PROVE  HolderOwnsRow' /\ IdleHoldsNothing'
  <2>1. \A k \in Instances : stage[k][j] = "none"
    BY <1>1, <1>inv DEF EnqueueLink, EnqueueNote, InsertRow, HolderOwnsRow, Held
  <2>2. HolderOwnsRow'
    BY <1>1, <2>1, <1>type, <1>inv, HoldersUndisturbed
       DEF EnqueueLink, EnqueueNote, InsertRow, TypeOK
  <2>3. IdleHoldsNothing'
    BY <1>1, <1>inv
       DEF EnqueueLink, EnqueueNote, InsertRow, IdleHoldsNothing, Held
  <2>4. QED
    BY <2>2, <2>3
<1>2. ASSUME NEW i \in Instances, ClaimBatch(i)
      PROVE  HolderOwnsRow' /\ IdleHoldsNothing'
  <2> PICK batch \in Claimable :
          /\ TakeClaim(batch)
          /\ stage' = [stage EXCEPT ![i] =
                 [j \in Jobs |-> IF j \in batch THEN "queued" ELSE "none"]]
          /\ ticket' = [ticket EXCEPT ![i] =
                 [j \in Jobs |-> IF j \in batch THEN attempts[j] + 1 ELSE 0]]
    BY <1>2 DEF ClaimBatch
  <2>1. \A k \in Instances : k = i
    BY DEF OneInstance
  <2>2. HolderOwnsRow'
    <3> SUFFICES ASSUME NEW j \in Jobs, stage'[i][j] # "none"
                 PROVE  /\ j \in rows' /\ status'[j] = "claimed"
                        /\ ticket'[i][j] = attempts'[j]
      BY <2>1 DEF HolderOwnsRow, Held
    <3>1. j \in batch
      BY <1>type DEF TypeOK
    <3>2. QED
      BY <3>1, <1>type, ClaimableOpen DEF TakeClaim, TypeOK
  <2>3. phase'[i] = "working"
    BY <1>2, <1>type DEF ClaimBatch, TypeOK
  <2>4. QED
    BY <2>1, <2>2, <2>3 DEF IdleHoldsNothing
<1>3. ASSUME NEW i \in Instances,
             ClaimNothing(i) \/ WakeByTimer(i) \/ WakeByNotify(i)
      PROVE  HolderOwnsRow' /\ IdleHoldsNothing'
  <2>1. UNCHANGED <<rows, status, attempts, stage, ticket>>
    BY <1>3 DEF ClaimNothing, WakeByTimer, WakeByNotify, table
  <2>2. phase[i] # "working" /\ \A k \in Instances \ {i} : phase'[k] = phase[k]
    BY <1>3, <1>type DEF ClaimNothing, WakeByTimer, WakeByNotify, TypeOK
  <2>3. QED
    BY <2>1, <2>2, <1>inv DEF HolderOwnsRow, IdleHoldsNothing, Held
<1>4. ASSUME NEW i \in Instances, ClaimError(i)
      PROVE  HolderOwnsRow' /\ IdleHoldsNothing'
  <2>1. \A k \in Instances : Held(k) = {}
    BY <1>4, <1>inv DEF ClaimError, IdleHoldsNothing, OneInstance
  <2>2. UNCHANGED stage
    BY <1>4 DEF ClaimError
  <2>3. QED
    BY <2>1, <2>2 DEF HolderOwnsRow, IdleHoldsNothing, Held
<1>5. ASSUME NEW i \in Instances, NEW j \in Jobs,
             StartJob(i, j) \/ Process(i, j)
      PROVE  HolderOwnsRow' /\ IdleHoldsNothing'
  <2>1. UNCHANGED <<rows, status, attempts, ticket, phase>>
    BY <1>5 DEF StartJob, Process, ProcessOk, ProcessErr, table
  <2>2. \A k \in Instances, l \in Jobs :
            stage'[k][l] # "none" => stage[k][l] # "none"
    BY <1>5, <1>type DEF StartJob, Process, ProcessOk, ProcessErr, TypeOK
  <2>3. QED
    BY <2>1, <2>2, <1>inv DEF HolderOwnsRow, IdleHoldsNothing, Held
<1>6. ASSUME NEW i \in Instances, NEW j \in Jobs,
             Mark(i, j) \/ MarkError(i, j)
      PROVE  HolderOwnsRow' /\ IdleHoldsNothing'
  <2>1. stage[i][j] # "none" /\ Release(i, j)
    BY <1>6 DEF Mark, MarkDone, MarkFailed, MarkError
  <2>2. /\ UNCHANGED <<rows, attempts>>
        /\ \A l \in Jobs \ {j} : status'[l] = status[l]
    BY <1>6, <1>type DEF Mark, MarkDone, MarkFailed, MarkError, SetRow, table,
                         TypeOK
  <2>3. QED
    BY <2>1, <2>2, ReleaseOwner
<1>7. ASSUME NEW i \in Instances, Crash(i)
      PROVE  HolderOwnsRow' /\ IdleHoldsNothing'
  <2>1. \A k \in Instances, l \in Jobs : stage'[k][l] = "none"
    BY <1>7, <1>type DEF Crash, TypeOK, OneInstance
  <2>2. QED
    BY <2>1 DEF HolderOwnsRow, IdleHoldsNothing, Held
<1>8. ASSUME Tick \/ PurgeOld \/ \E j \in Jobs : Age(j)
      PROVE  HolderOwnsRow' /\ IdleHoldsNothing'
  <2>1. UNCHANGED <<stage, ticket, phase, attempts, status>>
    BY <1>8 DEF Tick, PurgeOld, Age, memory
  <2>2. \A j \in rows \ rows' : status[j] # "claimed"
    BY <1>8 DEF Tick, PurgeOld, Age, OldDone, OldFailed
  <2>3. QED
    BY <2>1, <2>2, <1>inv DEF HolderOwnsRow, IdleHoldsNothing, Held
<1>9. CASE UNCHANGED vars
  BY <1>9, <1>inv DEF vars, memory, table, HolderOwnsRow, IdleHoldsNothing, Held
<1>10. QED
  BY <1>1, <1>2, <1>3, <1>4, <1>5, <1>6, <1>7, <1>8, <1>9 DEF Next, Poll

\* With one consumer, a row it holds is claimed under its ticket until it marks
\* the row (claim_batch, mark_done, mark_failed, purge_old).
THEOREM HolderOwns == ASSUME OneInstance PROVE Spec => []HolderOwnsRow
<1>1. OwnerInv => HolderOwnsRow
  BY DEF OwnerInv
<1>2. Init => OwnerInv
  BY InitOwner
<1>3. OwnerInv /\ [Next]_vars => OwnerInv'
  BY NextOwner
<1>4. QED
  BY <1>1, <1>2, <1>3, PTL DEF Spec

-----------------------------------------------------------------------------
\* With one consumer, every step of the queue is a step of the ledger or leaves
\* it alone: a settled row is never reopened, and a row is abandoned only
\* after MaxAttempts claims.
LEMMA InitLedger == Init => Ledger!Init
BY DEF Init, Ledger!Init, Fate

LEMMA ClaimIsTry ==
    ASSUME TypeOK, NEW batch \in Claimable, TakeClaim(batch)
    PROVE  Ledger!Next
<1>1. batch \subseteq Jobs /\ \A j \in batch : Fate[j] = "open"
  BY ClaimableOpen DEF TypeOK, Fate
<1>2. Fate' = Fate
  BY ClaimableOpen DEF TypeOK, Fate, TakeClaim
<1>3. Ledger!Try(batch)
  BY <1>1, <1>2 DEF Ledger!Try, TakeClaim
<1>4. QED
  BY <1>1, <1>3 DEF Ledger!Next

LEMMA SameFate ==
    ASSUME UNCHANGED <<status, attempts>>
    PROVE  UNCHANGED Ledger!ledger
BY DEF Ledger!ledger, Fate

LEMMA NextLedger == OwnerInv /\ [Next]_vars => [Ledger!Next]_(Ledger!ledger)
<1> SUFFICES ASSUME OwnerInv, [Next]_vars
             PROVE  [Ledger!Next]_(Ledger!ledger)
  OBVIOUS
<1>inv. TypeOK /\ TicketsBehindRow /\ HolderOwnsRow
  BY DEF OwnerInv, QueueInv
<1>1. ASSUME NEW i \in Instances, NEW j \in Jobs,
             EnqueueLink(i, j) \/ EnqueueNote(i, j)
      PROVE  Ledger!Next
  <2>1. Fate[j] = "unseen" /\ Fate' = [Fate EXCEPT ![j] = "open"]
    BY <1>1, <1>inv DEF EnqueueLink, EnqueueNote, InsertRow, TypeOK, Fate
  <2>2. UNCHANGED attempts
    BY <1>1 DEF EnqueueLink, EnqueueNote, InsertRow
  <2>3. QED
    BY <2>1, <2>2 DEF Ledger!Next, Ledger!Accept
<1>2. ASSUME NEW i \in Instances, ClaimBatch(i) \/ ClaimError(i)
      PROVE  [Ledger!Next]_(Ledger!ledger)
  BY <1>2, <1>inv, ClaimIsTry, SameFate DEF ClaimBatch, ClaimError, table
<1>3. ASSUME NEW i \in Instances, NEW j \in Jobs, MarkDone(i, j)
      PROVE  Ledger!Next
  <2>1. j \in rows /\ status[j] = "claimed" /\ attempts[j] > 0
    BY <1>3, <1>inv DEF MarkDone, HolderOwnsRow, TicketsBehindRow, Held
  <2>2. status' = [status EXCEPT ![j] = "done"] /\ UNCHANGED attempts
    BY <1>3, <2>1 DEF MarkDone, SetRow
  <2>3. Fate[j] = "open" /\ Fate' = [Fate EXCEPT ![j] = "captured"]
    BY <2>1, <2>2, <1>inv DEF TypeOK, Fate
  <2>4. QED
    BY <2>1, <2>2, <2>3 DEF Ledger!Next, Ledger!Settle, Ledger!Capture
<1>4. ASSUME NEW i \in Instances, NEW j \in Jobs, MarkFailed(i, j)
      PROVE  [Ledger!Next]_(Ledger!ledger)
  <2>1. /\ j \in rows /\ status[j] = "claimed" /\ attempts[j] > 0
        /\ ticket[i][j] = attempts[j]
    BY <1>4, <1>inv DEF MarkFailed, HolderOwnsRow, TicketsBehindRow, Held
  <2>2. CASE ticket[i][j] >= MaxAttempts
    <3>1. status' = [status EXCEPT ![j] = "failed"] /\ UNCHANGED attempts
      BY <1>4, <2>1, <2>2 DEF MarkFailed, SetRow
    <3>2. Fate[j] = "open" /\ Fate' = [Fate EXCEPT ![j] = "abandoned"]
      BY <2>1, <3>1, <1>inv DEF TypeOK, Fate
    <3>3. QED
      BY <2>1, <2>2, <3>1, <3>2 DEF Ledger!Next, Ledger!Settle, Ledger!Abandon
  <2>3. CASE ~(ticket[i][j] >= MaxAttempts)
    <3>1. status' = [status EXCEPT ![j] = "pending"] /\ UNCHANGED attempts
      BY <1>4, <2>1, <2>3 DEF MarkFailed, SetRow
    <3>2. Fate' = Fate
      BY <2>1, <3>1, <1>inv DEF TypeOK, Fate
    <3>3. QED
      BY <3>1, <3>2 DEF Ledger!ledger
  <2>4. QED
    BY <2>2, <2>3
<1>5. ASSUME \/ \E i \in Instances :
                  \/ ClaimNothing(i) \/ WakeByTimer(i) \/ WakeByNotify(i)
                  \/ \E j \in Jobs : \/ StartJob(i, j) \/ Process(i, j)
                                     \/ MarkError(i, j)
                  \/ Crash(i)
             \/ Tick \/ PurgeOld \/ \E j \in Jobs : Age(j)
             \/ UNCHANGED vars
      PROVE  UNCHANGED Ledger!ledger
  <2>1. UNCHANGED <<status, attempts>>
    BY <1>5 DEF ClaimNothing, WakeByTimer, WakeByNotify, StartJob, Process,
                ProcessOk, ProcessErr, MarkError, Crash, Tick, PurgeOld, Age,
                vars, table
  <2>2. QED
    BY <2>1, SameFate
<1>6. QED
  BY <1>1, <1>2, <1>3, <1>4, <1>5 DEF Next, Poll, Mark

\* The safety half of LedgerSpec: with one consumer the queue keeps the ledger's
\* promise about the order of fates, for every instance of the constants.
THEOREM QueueImplementsLedger ==
    ASSUME OneInstance PROVE Spec => Ledger!SafeSpec
<1>1. Init => OwnerInv
  BY InitOwner
<1>2. OwnerInv /\ [Next]_vars => OwnerInv'
  BY NextOwner
<1>3. QED
  BY <1>1, <1>2, InitLedger, NextLedger, PTL DEF Spec, Ledger!SafeSpec
=============================================================================
