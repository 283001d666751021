---------------------- MODULE IngestionPipelineProofs ----------------------
(***************************************************************************)
(* Safety of the capture pipeline for any captures, users, days, errors    *)
(* and restarts.  The inductive invariant says what the item in hand has   *)
(* been through at each step, and that an item is in hand once: its insert *)
(* succeeds a single time.  Sweeps may overlap: a further invariant counts *)
(* those that still wait with an item that another has settled.            *)
(***************************************************************************)
EXTENDS IngestionPipeline, FiniteSetTheorems, TLAPS

-----------------------------------------------------------------------------
\* The steps between the insert of an item and the end of process_inner.
AtWork == step \in {"inserted", "indexed", "logged", "taught", "notifying"}

\* Items stored but neither run to the end nor still in hand.
Left == Stored \ (completed \cup (IF AtWork THEN {item} ELSE {}))

\* What was never stored has left nothing anywhere.
Unstored == \A x \in Items : text[x] = "none" =>
    /\ fetch[x] = "none" /\ x \notin completed
    /\ events[x] = 0 /\ taught[x] = 0
    /\ \A u \in Users : dms[<<u, x>>] = 0

\* The item in hand is stored, not completed, and has been through no more
\* than the steps behind it.
InHand ==
    /\ AtWork => /\ text[item] # "none" /\ item \notin completed
                 /\ item[1] = UrlOf[job]
                 /\ body = "full" => text[item] = "full"
    /\ step \in {"inserted", "indexed"} => events[item] = 0
    /\ step \in {"inserted", "indexed", "logged"} => taught[item] = 0
    /\ AtWork /\ step # "notifying" => \A u \in Users : dms[<<u, item>>] = 0
    /\ step = "notifying" => \A u \in audience : dms[<<u, item>>] = 0

\* A job about to be marked done has found or made an item of its URL.
Found == step = "ok" => \E x \in Stored : x[1] = UrlOf[job]

\* Neither the passages nor what /reindex has read are ahead of the text.
NotAhead ==
    \A x \in Items : chunks[x] = "full" \/ missing[x] = "full"
                        => text[x] = "full"

\* What a sweep has still to fetch was read from the table.
Swept == \A s \in Sweepers : \A x \in sweep[s] : text[x] # "none"

\* Each error and each restart has left at most one item behind.
Paid == IsFiniteSet(Left) /\ Cardinality(Left) <= errors + crashes

Content == /\ Unstored /\ InHand /\ Found /\ NotAhead /\ Swept
           /\ CapturedHasItem /\ LearnedOnce

PipelineInv == TypeOK /\ Content /\ Paid

-----------------------------------------------------------------------------
\* The working memory of an idle consumer has the right types.
LEMMA NoneTyped == NoJob \in Captures /\ NoItem \in Items
<1>1. NoJob \in Captures
  BY PipelineAssumption DEF NoJob
<1>2. <<UrlOf[NoJob], 0>> \in Items
  BY <1>1, PipelineAssumption DEF Items, Days
<1>3. NoItem \in Items
  BY <1>2 DEF NoItem
<1>4. QED
  BY <1>1, <1>3

LEMMA InitInv == Init => PipelineInv
<1> SUFFICES ASSUME Init PROVE PipelineInv
  OBVIOUS
<1>1. TypeOK
  BY NoneTyped, PipelineAssumption DEF Init, TypeOK, Queue!Init, Queue!Fates,
     Days, Texts, FetchStatuses, Steps
<1>2. Content
  BY DEF Init, Queue!Init, Content, Unstored, InHand, Found, NotAhead,
     Swept, CapturedHasItem, LearnedOnce, AtWork
<1>3. Left = {} /\ errors = 0 /\ crashes = 0
  BY DEF Init, Left, Stored
<1>4. Paid
  BY <1>3, FS_EmptySet DEF Paid
<1>5. QED
  BY <1>1, <1>2, <1>4 DEF PipelineInv

-----------------------------------------------------------------------------
\* Type correctness, by the groups of the next-state relation.

LEMMA ErrorType == TypeOK /\ Error => errors' \in 0..MaxErrors
BY PipelineAssumption DEF TypeOK, Error

LEMMA QueueType ==
    ASSUME TypeOK, NEW c \in Captures, Share(c) \/ Claim(c) \/ ClaimLost(c)
    PROVE  TypeOK'
<1>1. fate' \in [Captures -> Queue!Fates]
  BY DEF TypeOK, Share, Claim, ClaimLost, Queue!Accept, Queue!Try, Queue!Fates
<1>2. tries' \in [Captures -> Nat]
  BY DEF TypeOK, Share, Claim, ClaimLost, Queue!Accept, Queue!Try
<1>3. errors' \in 0..MaxErrors
  BY PipelineAssumption, ErrorType DEF TypeOK, Share, Claim, ClaimLost, NoError
<1>4. step' \in Steps /\ job' \in Captures
  BY DEF TypeOK, Share, Claim, ClaimLost, Steps, working
<1>5. UNCHANGED <<day, store, item, body, loop, others, seen, crashes>>
  BY DEF Share, Claim, ClaimLost, working
<1>6. QED
  BY <1>1, <1>2, <1>3, <1>4, <1>5 DEF TypeOK, store, loop, others, seen

LEMMA InsertType ==
    ASSUME TypeOK, \/ Ingest \/ InsertError
                   \/ \E fetched \in {"stub", "full"} : InsertLost(fetched)
    PROVE  TypeOK'
<1>1. <<UrlOf[job], day>> \in Items
  BY PipelineAssumption DEF TypeOK, Items
<1>2. \/ UNCHANGED store
      \/ \E fetched \in {"stub", "full"} : StoreItem(<<UrlOf[job], day>>, fetched)
  BY DEF Ingest, Insert, InsertError, InsertLost
<1>3. text' \in [Items -> Texts] /\ fetch' \in [Items -> FetchStatuses]
  <2>1. CASE UNCHANGED store
    BY <2>1 DEF TypeOK, store
  <2>2. ASSUME NEW fetched \in {"stub", "full"},
               StoreItem(<<UrlOf[job], day>>, fetched)
        PROVE  /\ text' \in [Items -> Texts]
               /\ fetch' \in [Items -> FetchStatuses]
    BY <2>2 DEF TypeOK, StoreItem, Texts, FetchStatuses
  <2>3. QED
    BY <1>2, <2>1, <2>2
<1>4. UNCHANGED <<chunks, events, taught, notified>>
  BY <1>2 DEF StoreItem, store
<1>5. item' \in Items /\ body' \in Texts /\ step' \in Steps
  BY <1>1 DEF TypeOK, Ingest, Insert, InsertError, InsertLost, Texts, Steps
<1>6. errors' \in 0..MaxErrors
  BY ErrorType DEF TypeOK, Ingest, Insert, InsertError, InsertLost
<1>7. UNCHANGED <<queue, day, job, loop, others, seen, crashes>>
  BY DEF Ingest, Insert, InsertError, InsertLost
<1>8. QED
  BY <1>3, <1>4, <1>5, <1>6, <1>7 DEF TypeOK, queue, loop, others, seen

LEMMA LearnType ==
    ASSUME TypeOK, Learn \/ ApplyTasteError PROVE TypeOK'
<1>1. chunks' \in [Items -> Texts]
  BY DEF TypeOK, Learn, ApplyTasteError, IndexChunks, LogEvent, SkipTaste,
     ApplyTaste, store
<1>10. events' \in [Items -> Nat] /\ taught' \in [Items -> Nat]
  <2>1. \/ UNCHANGED events \/ events' = [events EXCEPT ![item] = events[item] + 1]
    BY DEF TypeOK, Learn, ApplyTasteError, IndexChunks, LogEvent, SkipTaste,
       ApplyTaste, store
  <2>2. \/ UNCHANGED taught \/ taught' = [taught EXCEPT ![item] = taught[item] + 1]
    BY DEF TypeOK, Learn, ApplyTasteError, IndexChunks, LogEvent, SkipTaste,
       ApplyTaste, store
  <2>3. /\ events \in [Items -> Nat] /\ taught \in [Items -> Nat]
        /\ events[item] + 1 \in Nat /\ taught[item] + 1 \in Nat
    BY DEF TypeOK
  <2>4. QED
    BY <2>1, <2>2, <2>3
<1>11. step' \in Steps /\ completed' \subseteq Items
  BY DEF TypeOK, Learn, ApplyTasteError, IndexChunks, LogEvent, SkipTaste,
     ApplyTaste, Finish, Steps, seen
<1>12. errors' \in 0..MaxErrors
  BY ErrorType DEF TypeOK, Learn, ApplyTasteError, IndexChunks, LogEvent,
     SkipTaste, ApplyTaste, NoError
<1>2. UNCHANGED <<queue, day, text, fetch, notified, job, item, body, loop,
                  others, dms, outcomes, crashes>>
  BY DEF Learn, ApplyTasteError, IndexChunks, LogEvent, SkipTaste, ApplyTaste,
     store, seen
<1>3. QED
  BY <1>1, <1>10, <1>11, <1>12, <1>2 DEF TypeOK, queue, loop, others

LEMMA NotifyType ==
    ASSUME TypeOK, \/ Notify \/ StopNotifying
                   \/ \E u \in Users : SendLost(u)
    PROVE  TypeOK'
<1>1. \A u \in Users : <<u, item>> \in Users \X Items
  BY DEF TypeOK
<1>2. notified' \in [Users \X Items -> {"none", "scored", "sent"}]
  BY <1>1 DEF TypeOK, Notify, ListAudience, DoneNotifying, BelowThreshold,
     NotSent, SendDM, LogSent, StopNotifying, SendLost, Logged, store
<1>3. dms' \in [Users \X Items -> Nat]
  <2>1. \/ UNCHANGED dms
        \/ \E u \in Users :
               dms' = [dms EXCEPT ![<<u, item>>] = dms[<<u, item>>] + 1]
    BY DEF Notify, ListAudience, DoneNotifying, BelowThreshold, NotSent, SendDM,
       LogSent, StopNotifying, SendLost, seen
  <2>2. dms \in [Users \X Items -> Nat]
    BY DEF TypeOK
  <2>3. \A u \in Users : dms[<<u, item>>] + 1 \in Nat
    BY <1>1, <2>2
  <2>4. QED
    BY <2>1, <2>2, <2>3
<1>10. audience' \subseteq Users /\ recipient' \subseteq Users
  BY DEF TypeOK, Notify, ListAudience, DoneNotifying, BelowThreshold, NotSent,
     SendDM, LogSent, StopNotifying, SendLost, Considering, loop
<1>11. step' \in Steps /\ completed' \subseteq Items
  BY DEF TypeOK, Notify, ListAudience, DoneNotifying, BelowThreshold, NotSent,
     SendDM, LogSent, StopNotifying, SendLost, Finish, Steps, seen
<1>4. errors' \in 0..MaxErrors
  BY ErrorType DEF TypeOK, Notify, ListAudience, DoneNotifying, BelowThreshold,
     NotSent, SendDM, LogSent, StopNotifying, SendLost
<1>5. UNCHANGED <<queue, day, text, fetch, chunks, events, taught, job, item,
                  body, others, outcomes, crashes>>
  BY DEF Notify, ListAudience, DoneNotifying, BelowThreshold, NotSent, SendDM,
     LogSent, StopNotifying, SendLost, store, seen
<1>6. QED
  BY <1>2, <1>3, <1>10, <1>11, <1>4, <1>5 DEF TypeOK, queue, others

LEMMA MarkType ==
    ASSUME TypeOK, Mark \/ MarkError \/ Crash PROVE TypeOK'
<1>10. fate' \in [Captures -> Queue!Fates] /\ UNCHANGED tries
  BY DEF TypeOK, Mark, MarkDone, MarkFailed, MarkError, Crash, Queue!Capture,
     Queue!Abandon, Queue!Fates, queue
<1>11. sweep' \in [Sweepers -> SUBSET Items] /\ missing' \in [Items -> Texts]
  BY DEF TypeOK, Mark, MarkDone, MarkFailed, MarkError, Crash, Texts, others
<1>1. errors' \in 0..MaxErrors /\ crashes' \in 0..MaxCrashes
  BY ErrorType, PipelineAssumption DEF TypeOK, Mark, MarkDone, MarkFailed,
     MarkError, Crash
<1>2. Rest /\ UNCHANGED <<day, store, seen>>
  BY DEF Mark, MarkDone, MarkFailed, MarkError, Crash
<1>3. QED
  BY <1>10, <1>11, <1>1, <1>2, NoneTyped DEF TypeOK, Rest, Steps, Texts, store, seen

LEMMA SweepType ==
    ASSUME TypeOK, \/ \E s \in Sweepers :
                        \/ SweepBegin(s) \/ SweepOne(s)
                        \/ \E x \in Items : SweepError(s, x)
                   \/ ReindexBegin \/ \E x \in Items : ReindexItem(x)
                   \/ Midnight \/ UNCHANGED vars
    PROVE  TypeOK'
<1>1. CASE \E s \in Sweepers : SweepBegin(s)
  <2>1. sweep' \in [Sweepers -> SUBSET Items]
    BY <1>1 DEF TypeOK, SweepBegin, Pending
  <2>2. QED
    BY <1>1, <2>1 DEF TypeOK, SweepBegin, queue, store, working, loop, seen
<1>2. ASSUME NEW s \in Sweepers, NEW x \in Items,
             Refetched(s, x) \/ Exhausted(s, x) \/ SweepError(s, x)
      PROVE  TypeOK'
  <2>4. sweep' \in [Sweepers -> SUBSET Items]
    BY <1>2 DEF TypeOK, Refetched, Exhausted, SweepError, SweepNext
  <2>5. text' \in [Items -> Texts] /\ fetch' \in [Items -> FetchStatuses]
    BY <1>2 DEF TypeOK, Refetched, Exhausted, SweepError, Settle, Texts,
       FetchStatuses, store
  <2>6. outcomes' \in [Items -> Nat]
    BY <1>2 DEF TypeOK, Refetched, Exhausted, SweepError, Settle, seen
  <2>1. errors' \in 0..MaxErrors
    BY <1>2, ErrorType DEF TypeOK, Refetched, Exhausted, SweepError
  <2>2. UNCHANGED <<queue, day, chunks, events, taught, notified, working,
                    missing, dms, completed, crashes>>
    BY <1>2 DEF Refetched, Exhausted, SweepError, Settle, store, seen
  <2>3. QED
    BY <2>4, <2>5, <2>6, <2>1, <2>2 DEF TypeOK, queue, working, loop
<1>3. CASE ReindexBegin \/ \E x \in Items : ReindexItem(x)
  <2>1. chunks' \in [Items -> Texts] /\ missing' \in [Items -> Texts]
    BY <1>3 DEF TypeOK, ReindexBegin, ReindexItem, Texts, store
  <2>2. UNCHANGED <<queue, day, text, fetch, events, taught, notified, working,
                    sweep, seen, errors, crashes>>
    BY <1>3 DEF ReindexBegin, ReindexItem, store
  <2>3. QED
    BY <2>1, <2>2 DEF TypeOK, queue, working, loop, seen
<1>4. CASE Midnight
  BY <1>4, PipelineAssumption DEF TypeOK, Midnight, Days, queue, store, working,
     loop, others, seen
<1>5. CASE UNCHANGED vars
  BY <1>5 DEF TypeOK, vars, queue, store, working, loop, others, seen
<1>6. QED
  BY <1>1, <1>2, <1>3, <1>4, <1>5 DEF SweepOne

LEMMA NextType == TypeOK /\ [Next]_vars => TypeOK'
BY QueueType, InsertType, LearnType, NotifyType, MarkType, SweepType DEF Next
-----------------------------------------------------------------------------
\* What the item in hand has been through, by the same groups.

\* What was stored stays stored, with as good a text.
LEMMA StoredStays ==
    ASSUME TypeOK, NEW x \in Items, NEW fetched \in {"stub", "full"},
           StoreItem(x, fetched)
    PROVE  /\ text[x] = "none" /\ text'[x] = fetched
           /\ \A y \in Items \ {x} : text'[y] = text[y] /\ fetch'[y] = fetch[y]
           /\ UNCHANGED <<chunks, events, taught, notified>>
BY DEF TypeOK, StoreItem

LEMMA QueueContent ==
    ASSUME TypeOK, Content, NEW c \in Captures,
           Share(c) \/ Claim(c) \/ ClaimLost(c)
    PROVE  Content'
<1>1. \A d \in Captures : fate'[d] = "captured" => fate[d] = "captured"
  BY DEF TypeOK, Share, Claim, ClaimLost, Queue!Accept, Queue!Try
<1>2. /\ UNCHANGED <<text, fetch, chunks, events, taught, dms, missing,
                     sweep, completed, item, body, audience>>
      /\ UNCHANGED <<step, job>> \/ step' = "fetching"
  BY DEF Share, Claim, ClaimLost, store, working, loop, others, seen
<1>3. Unstored' /\ NotAhead' /\ Swept' /\ LearnedOnce'
  BY <1>2 DEF Content, Unstored, NotAhead, Swept, LearnedOnce
<1>4. InHand' /\ Found'
  BY <1>2 DEF Content, InHand, Found, AtWork, Stored
<1>5. CapturedHasItem'
  BY <1>1, <1>2 DEF Content, CapturedHasItem, Stored
<1>6. QED
  BY <1>3, <1>4, <1>5 DEF Content

LEMMA InsertContent ==
    ASSUME TypeOK, Content, \/ Ingest \/ InsertError
                            \/ \E fetched \in {"stub", "full"} : InsertLost(fetched)
    PROVE  Content'
<1> DEFINE x == <<UrlOf[job], day>>
<1>1. x \in Items /\ x[1] = UrlOf[job]
  BY PipelineAssumption DEF TypeOK, Items
<1> HIDE DEF x
<1>2. /\ step = "fetching"
      /\ UNCHANGED <<fate, job, audience, missing, sweep, dms, completed>>
  BY DEF Ingest, Insert, InsertError, InsertLost, queue, loop, others, seen
<1>3. CASE UNCHANGED store /\ step' \in {"ok", "err"}
           /\ (step' = "ok" => x \in Stored)
  <2>1. UNCHANGED <<text, fetch, chunks, events, taught>>
    BY <1>3 DEF store
  <2>2. Unstored' /\ NotAhead' /\ Swept' /\ LearnedOnce' /\ CapturedHasItem'
    BY <1>2, <2>1 DEF Content, Unstored, NotAhead, Swept, LearnedOnce,
       CapturedHasItem, Stored
  <2>3. InHand' /\ Found'
    BY <1>1, <1>2, <1>3, <2>1 DEF InHand, Found, AtWork, Stored
  <2>4. QED
    BY <2>2, <2>3 DEF Content
<1>4. ASSUME NEW fetched \in {"stub", "full"}, StoreItem(x, fetched),
             \/ step' = "err"
             \/ step' = "inserted" /\ item' = x /\ body' = fetched
      PROVE  Content'
  <2>1. /\ text[x] = "none" /\ text'[x] = fetched
        /\ \A y \in Items \ {x} : text'[y] = text[y] /\ fetch'[y] = fetch[y]
        /\ UNCHANGED <<chunks, events, taught>>
    BY <1>1, <1>4, StoredStays
  <2>2. \A y \in Items : text[y] # "none" => text'[y] = text[y]
    BY <2>1
  <2>3. Unstored' /\ NotAhead' /\ LearnedOnce'
    BY <1>2, <2>1 DEF Content, Unstored, NotAhead, LearnedOnce
  <2>4. CapturedHasItem' /\ Swept'
    BY <1>2, <2>2 DEF TypeOK, Content, CapturedHasItem, Swept, Stored
  <2>5. InHand' /\ Found'
    BY <1>1, <1>2, <1>4, <2>1 DEF Content, Unstored, InHand, Found, AtWork
  <2>6. QED
    BY <2>3, <2>4, <2>5 DEF Content
<1>5. QED
  BY <1>3, <1>4 DEF Ingest, Insert, InsertError, InsertLost, x

LEMMA LearnContent ==
    ASSUME TypeOK, Content, Learn \/ ApplyTasteError PROVE Content'
<1>1. /\ AtWork /\ item \in Items /\ text[item] # "none"
      /\ UNCHANGED <<fate, text, fetch, dms, missing, sweep, item, job, body,
                     audience>>
  BY DEF TypeOK, Content, InHand, AtWork, Learn, ApplyTasteError, IndexChunks,
     LogEvent, SkipTaste, ApplyTaste, queue, store, loop, others, seen
<1>2. CapturedHasItem' /\ Swept'
  BY <1>1 DEF Content, CapturedHasItem, Swept, Stored
<1>3. Found'
  BY <1>1 DEF Content, InHand, Found, Stored
<1>4. CASE IndexChunks
  BY <1>1, <1>2, <1>3, <1>4 DEF TypeOK, Content, Unstored, InHand, NotAhead,
     LearnedOnce, AtWork, IndexChunks, seen
<1>5. CASE LogEvent
  BY <1>1, <1>2, <1>3, <1>5 DEF TypeOK, Content, Unstored, InHand, NotAhead,
     LearnedOnce, AtWork, LogEvent, seen
<1>6. CASE SkipTaste
  BY <1>1, <1>2, <1>3, <1>6 DEF TypeOK, Content, Unstored, InHand, NotAhead,
     LearnedOnce, AtWork, SkipTaste, Finish, store
<1>7. CASE ApplyTaste \/ ApplyTasteError
  BY <1>1, <1>2, <1>3, <1>7 DEF TypeOK, Content, Unstored, InHand, NotAhead,
     LearnedOnce, AtWork, ApplyTaste, ApplyTasteError, seen
<1>8. QED
  BY <1>4, <1>5, <1>6, <1>7 DEF Learn

LEMMA NotifyContent ==
    ASSUME TypeOK, Content, \/ Notify \/ StopNotifying
                            \/ \E u \in Users : SendLost(u)
    PROVE  Content'
<1>1. /\ AtWork /\ step \in {"taught", "notifying"}
      /\ item \in Items /\ text[item] # "none"
      /\ UNCHANGED <<fate, text, fetch, chunks, events, taught, missing, sweep,
                     item, job, body>>
  BY DEF TypeOK, Content, InHand, AtWork, Notify, ListAudience, DoneNotifying,
     BelowThreshold, NotSent, SendDM, LogSent, StopNotifying, SendLost,
     Considering, queue, store, others
<1>2. CapturedHasItem' /\ NotAhead' /\ Swept'
  BY <1>1 DEF Content, CapturedHasItem, NotAhead, Swept, Stored
<1>3. Found'
  BY <1>1 DEF Content, InHand, Found, Stored
<1>4. CASE ListAudience
  BY <1>1, <1>2, <1>3, <1>4 DEF Content, Unstored, InHand, LearnedOnce, AtWork,
     ListAudience, seen
<1>5. CASE DoneNotifying \/ StopNotifying
  BY <1>1, <1>2, <1>3, <1>5 DEF Content, Unstored, InHand, LearnedOnce, AtWork,
     DoneNotifying, StopNotifying, Finish
<1>6. ASSUME NEW u \in Users, BelowThreshold(u) \/ NotSent(u) \/ LogSent(u)
      PROVE  Content'
  BY <1>1, <1>2, <1>3, <1>6 DEF Content, Unstored, InHand, LearnedOnce, AtWork,
     BelowThreshold, NotSent, LogSent, Considering, seen
<1>7. ASSUME NEW u \in Users, SendDM(u) \/ SendLost(u)
      PROVE  Content'
  <2>1. /\ step = "notifying" /\ step' = step /\ audience' = audience \ {u}
        /\ dms' = [dms EXCEPT ![<<u, item>>] = dms[<<u, item>>] + 1]
        /\ u \in audience /\ UNCHANGED completed
    BY <1>7 DEF SendDM, SendLost, Considering
  <2>2. dms[<<u, item>>] = 0
    BY <2>1 DEF Content, InHand
  <2>3. /\ dms'[<<u, item>>] = 1
        /\ \A ux \in Users \X Items : ux # <<u, item>> => dms'[ux] = dms[ux]
    BY <1>1, <2>1, <2>2 DEF TypeOK
  <2>4. \A v \in Users, y \in Items :
            v # u \/ y # item => dms'[<<v, y>>] = dms[<<v, y>>]
    BY <2>3
  <2>5. Unstored'
    BY <1>1, <2>1, <2>4 DEF Content, Unstored
  <2>6. InHand'
    BY <1>1, <2>1, <2>4 DEF TypeOK, Content, InHand, AtWork
  <2>7. LearnedOnce'
    BY <1>1, <2>3 DEF Content, LearnedOnce
  <2>8. QED
    BY <1>2, <1>3, <2>5, <2>6, <2>7 DEF Content
<1>8. QED
  BY <1>4, <1>5, <1>6, <1>7 DEF Notify

LEMMA MarkContent ==
    ASSUME TypeOK, Content, Mark \/ MarkError \/ Crash PROVE Content'
<1>1. /\ step' = "idle"
      /\ UNCHANGED <<text, fetch, chunks, events, taught, dms, completed>>
      /\ \A x \in Items : missing'[x] \in {missing[x], "none"}
      /\ \A s \in Sweepers : sweep'[s] \subseteq sweep[s]
  BY DEF TypeOK, Mark, MarkDone, MarkFailed, MarkError, Crash, Rest, store,
     others, seen
<1>2. Unstored' /\ InHand' /\ Found' /\ NotAhead' /\ Swept' /\ LearnedOnce'
  BY <1>1 DEF Content, Unstored, InHand, Found, NotAhead, Swept, LearnedOnce,
     AtWork
<1>3. \A c \in Captures : fate'[c] = "captured" =>
          fate[c] = "captured" \/ (c = job /\ step = "ok")
  BY DEF TypeOK, Mark, MarkDone, MarkFailed, MarkError, Crash, Queue!Capture,
     Queue!Abandon, queue
<1>4. CapturedHasItem'
  BY <1>1, <1>3 DEF Content, CapturedHasItem, Found, Stored
<1>5. QED
  BY <1>2, <1>4 DEF Content

\* Fetching a stub again changes its text, not what has become of it.
LEMMA SweepContent ==
    ASSUME TypeOK, Content, NEW s \in Sweepers,
           \/ SweepBegin(s) \/ SweepOne(s)
           \/ \E x \in Items : SweepError(s, x)
    PROVE  Content'
<1>1. UNCHANGED <<fate, chunks, events, taught, dms, missing, completed, item,
                  job, body, step, audience>>
  BY DEF SweepBegin, SweepOne, Refetched, Exhausted, SweepError, Settle, queue,
     store, working, loop, seen
<1>2. /\ \A x \in Items : \/ text'[x] = text[x]
                          \/ text'[x] = "full" /\ text[x] # "none"
      /\ \A x \in Items : text[x] = "none" => fetch'[x] = fetch[x]
      /\ \A t \in Sweepers : \A x \in sweep'[t] : x \in Items /\ text[x] # "none"
  <2>1. \A t \in Sweepers : \A x \in sweep[t] : x \in Items /\ text[x] # "none"
    BY DEF TypeOK, Content, Swept
  <2>2. CASE SweepBegin(s)
    BY <2>1, <2>2 DEF TypeOK, Content, Unstored, SweepBegin, Pending, store
  <2>3. ASSUME NEW x \in Items,
               Refetched(s, x) \/ Exhausted(s, x) \/ SweepError(s, x)
        PROVE  <1>2!:
    BY <2>1, <2>3 DEF TypeOK, Refetched, Exhausted, SweepError, SweepNext, Settle,
       store
  <2>4. QED
    BY <2>2, <2>3 DEF SweepOne
<1>3. Unstored' /\ InHand' /\ Found' /\ NotAhead' /\ Swept'
  <2>1. item \in Items
    BY DEF TypeOK
  <2>2. Unstored' /\ NotAhead' /\ Swept'
    BY <1>1, <1>2 DEF Content, Unstored, NotAhead, Swept
  <2>3. InHand' /\ Found'
    BY <1>1, <1>2, <2>1 DEF Content, InHand, Found, AtWork, Stored
  <2>4. QED
    BY <2>2, <2>3
<1>4. CapturedHasItem' /\ LearnedOnce'
  BY <1>1, <1>2 DEF Content, CapturedHasItem, LearnedOnce, Stored
<1>5. QED
  BY <1>3, <1>4 DEF Content

\* /reindex cuts passages from the text it has read, which is still there.
LEMMA ReindexContent ==
    ASSUME TypeOK, Content, ReindexBegin \/ \E x \in Items : ReindexItem(x)
    PROVE  Content'
<1>1. UNCHANGED <<fate, text, fetch, events, taught, dms, sweep, completed, item,
                  job, body, step, audience>>
  BY DEF ReindexBegin, ReindexItem, queue, store, working, loop, seen
<1>2. NotAhead'
  BY <1>1 DEF TypeOK, Content, NotAhead, ReindexBegin, ReindexItem, Unchunked,
     Stored, store
<1>3. /\ Unstored' /\ InHand' /\ Found' /\ Swept'
      /\ CapturedHasItem' /\ LearnedOnce'
  BY <1>1 DEF Content, Unstored, InHand, Found, Swept, CapturedHasItem,
     LearnedOnce, AtWork, Stored
<1>4. QED
  BY <1>2, <1>3 DEF Content

LEMMA NextContent == TypeOK /\ Content /\ [Next]_vars => Content'
<1>1. ASSUME TypeOK, Content, Midnight \/ UNCHANGED vars PROVE Content'
  BY <1>1 DEF Midnight, vars, queue, store, working, loop, others, seen, Content,
     Unstored, InHand, Found, NotAhead, Swept, CapturedHasItem, LearnedOnce,
     AtWork, Stored
<1>2. QED
  BY <1>1, QueueContent, InsertContent, LearnContent, NotifyContent, MarkContent,
     SweepContent, ReindexContent DEF Next

-----------------------------------------------------------------------------
\* What errors and restarts leave behind.

\* Nothing more is left.
LEMMA PaidSame ==
    ASSUME TypeOK, TypeOK', Paid, Left' \subseteq Left, errors <= errors',
           crashes <= crashes'
    PROVE  Paid'
<1>1. IsFiniteSet(Left') /\ Cardinality(Left') <= Cardinality(Left)
  BY FS_Subset DEF Paid
<1>2. Cardinality(Left) \in Nat /\ Cardinality(Left') \in Nat
  BY <1>1, FS_CardinalityType DEF Paid
<1>3. {errors, crashes, errors', crashes'} \subseteq Nat
  BY PipelineAssumption DEF TypeOK
<1>4. QED
  BY <1>1, <1>2, <1>3 DEF Paid

\* One more item is left, and an error or restart has paid for it.
LEMMA PaidMore ==
    ASSUME TypeOK, TypeOK', Paid, NEW y, Left' \subseteq Left \cup {y},
           errors' + crashes' = errors + crashes + 1
    PROVE  Paid'
<1>1. /\ IsFiniteSet(Left \cup {y})
      /\ Cardinality(Left \cup {y}) <= Cardinality(Left) + 1
      /\ Cardinality(Left \cup {y}) \in Nat /\ Cardinality(Left) \in Nat
  <2>1. IsFiniteSet(Left) /\ Cardinality(Left) \in Nat
    BY FS_CardinalityType DEF Paid
  <2>2. /\ IsFiniteSet(Left \cup {y})
        /\ Cardinality(Left \cup {y}) =
               IF y \in Left THEN Cardinality(Left) ELSE Cardinality(Left) + 1
    BY <2>1, FS_AddElement
  <2>3. QED
    BY <2>1, <2>2
<1>2. IsFiniteSet(Left') /\ Cardinality(Left') <= Cardinality(Left \cup {y})
  BY <1>1, FS_Subset
<1>3. Cardinality(Left') \in Nat
  BY <1>2, FS_CardinalityType
<1>4. {errors, crashes, errors', crashes'} \subseteq Nat
  BY PipelineAssumption DEF TypeOK
<1>5. QED
  BY <1>1, <1>2, <1>3, <1>4 DEF Paid

LEMMA NextPaid ==
    TypeOK /\ TypeOK' /\ Content /\ Paid /\ [Next]_vars => Paid'
<1> SUFFICES ASSUME TypeOK, TypeOK', Content, Paid, [Next]_vars PROVE Paid'
  OBVIOUS
<1> USE DEF AtWork, Left, Stored
<1>1. {errors, crashes} \subseteq Nat
  BY PipelineAssumption DEF TypeOK
<1>2. ASSUME NEW c \in Captures, Share(c) \/ Claim(c) \/ ClaimLost(c)
      PROVE  Paid'
  <2>1. /\ UNCHANGED <<text, completed, item, crashes>>
        /\ errors <= errors'
        /\ UNCHANGED step \/ (step = "idle" /\ step' = "fetching")
    BY <1>1, <1>2 DEF Share, Claim, ClaimLost, Error, NoError, store, working, seen
  <2>2. QED
    BY <1>1, <2>1, PaidSame
<1>3. CASE Ingest \/ InsertError
  <2>1. /\ Left' \subseteq Left /\ errors <= errors' /\ UNCHANGED crashes
    BY <1>1, <1>3 DEF TypeOK, Ingest, Insert, InsertError, StoreItem, Error, store,
       seen
  <2>2. QED
    BY <1>1, <2>1, PaidSame
<1>4. ASSUME NEW fetched \in {"stub", "full"}, InsertLost(fetched) PROVE Paid'
  <2>1. Left' \subseteq Left \cup {<<UrlOf[job], day>>}
    BY <1>4 DEF TypeOK, InsertLost, StoreItem, seen
  <2>2. errors' = errors + 1 /\ crashes' = crashes
    BY <1>4 DEF InsertLost, Error
  <2>3. QED
    BY <1>1, <2>1, <2>2, PaidMore
<1>5. CASE Learn
  <2>1. UNCHANGED <<text, item, crashes>> /\ errors <= errors'
    BY <1>1, <1>5 DEF Learn, IndexChunks, LogEvent, SkipTaste, ApplyTaste, Error,
       NoError, store
  <2>2. Left' \subseteq Left
    BY <1>5, <2>1 DEF Learn, IndexChunks, LogEvent, SkipTaste, ApplyTaste, Finish,
       seen
  <2>3. QED
    BY <1>1, <2>1, <2>2, PaidSame
<1>6. CASE ApplyTasteError
  <2>1. Left' \subseteq Left \cup {item}
    BY <1>6 DEF ApplyTasteError, seen
  <2>2. errors' = errors + 1 /\ crashes' = crashes
    BY <1>6 DEF ApplyTasteError, Error
  <2> HIDE DEF Left
  <2>3. errors' + crashes' = errors + crashes + 1
    BY <1>1, <2>2
  <2>4. QED
    BY <2>1, <2>3, PaidMore
<1>7. CASE Notify \/ StopNotifying \/ \E u \in Users : SendLost(u)
  <2>1. UNCHANGED <<text, item, crashes>>
    BY <1>7 DEF Notify, ListAudience, DoneNotifying, BelowThreshold, NotSent,
       SendDM, LogSent, StopNotifying, SendLost, store
  <2>3. errors' = errors \/ errors' = errors + 1
    BY <1>7 DEF Notify, ListAudience, DoneNotifying, BelowThreshold, NotSent,
       SendDM, LogSent, StopNotifying, SendLost, Error
  <2>2. Left' \subseteq Left
    BY <1>7, <2>1 DEF Notify, ListAudience, DoneNotifying, BelowThreshold, NotSent,
       SendDM, LogSent, StopNotifying, SendLost, Considering, Finish, seen
  <2>4. QED
    BY <1>1, <2>1, <2>2, <2>3, PaidSame
<1>8. CASE Mark \/ MarkError
  <2>1. UNCHANGED <<text, completed, crashes>> /\ errors <= errors'
    BY <1>1, <1>8 DEF Mark, MarkDone, MarkFailed, MarkError, Error, store, seen
  <2>2. step \in {"ok", "err"} /\ step' = "idle"
    BY <1>8 DEF Mark, MarkDone, MarkFailed, MarkError, Rest
  <2>3. QED
    BY <1>1, <2>1, <2>2, PaidSame
<1>9. CASE Crash
  <2>1. UNCHANGED <<text, completed, errors>> /\ crashes' = crashes + 1
    BY <1>9 DEF Crash, store, seen
  <2>2. Left' \subseteq Left \cup {item}
    BY <2>1
  <2>3. QED
    BY <1>1, <2>1, <2>2, PaidMore
<1>10. ASSUME NEW s \in Sweepers,
              \/ SweepBegin(s) \/ SweepOne(s)
              \/ \E x \in Items : SweepError(s, x)
       PROVE  Paid'
  <2>1. UNCHANGED <<completed, item, step, crashes>> /\ errors <= errors'
    BY <1>1, <1>10 DEF SweepBegin, SweepOne, Refetched, Exhausted, SweepError,
       Settle, Error, working, seen
  <2>2. Stored' \subseteq Stored
    BY <1>10 DEF TypeOK, Content, Swept, SweepBegin, SweepOne, Refetched,
       Exhausted, SweepError, SweepNext, store
  <2>3. QED
    BY <1>1, <2>1, <2>2, PaidSame
<1>11. CASE \/ ReindexBegin \/ \E x \in Items : ReindexItem(x)
            \/ Midnight \/ UNCHANGED vars
  <2>1. UNCHANGED <<text, completed, item, step, errors, crashes>>
    BY <1>11 DEF ReindexBegin, ReindexItem, Midnight, vars, store, working, seen
  <2>2. QED
    BY <1>1, <2>1, PaidSame
<1>12. QED
  BY <1>2, <1>3, <1>4, <1>5, <1>6, <1>7, <1>8, <1>9, <1>10, <1>11 DEF Next

LEMMA Invariance == Spec => []PipelineInv
<1>1. PipelineInv /\ [Next]_vars => PipelineInv'
  BY NextType, NextContent, NextPaid DEF PipelineInv
<1>2. QED
  BY <1>1, InitInv, PTL DEF Spec

-----------------------------------------------------------------------------
\* Every reachable state has the types the code declares.
THEOREM TypeCorrect == Spec => []TypeOK
BY Invariance, PTL DEF PipelineInv

\* A capture recorded as done has left an item with its URL, whatever its job
\* went through (process, process_inner).
THEOREM CapturedHasItemCorrect == Spec => []CapturedHasItem
BY Invariance, PTL DEF PipelineInv, Content

\* However often a job is run again, an item is learned from once, and sent
\* to a user once at most.
THEOREM LearnedOnceCorrect == Spec => []LearnedOnce
BY Invariance, PTL DEF PipelineInv, Content

\* Passages are never cut from a text the item does not have, although
\* /reindex, the pipeline and the sweeps write without looking at each other.
THEOREM ChunksNotAheadCorrect == Spec => []ChunksNotAhead
<1>1. PipelineInv => ChunksNotAhead
  BY DEF PipelineInv, Content, NotAhead, ChunksNotAhead
<1>2. QED
  BY <1>1, Invariance, PTL

\* Each error or restart leaves at most one item that was stored but never
\* run to the end (process_inner after items::insert).
THEOREM UnlearnedArePaidForCorrect == Spec => []UnlearnedArePaidFor
<1>1. ASSUME PipelineInv PROVE UnlearnedArePaidFor
  <2> DEFINE atWork == IF step \in {"idle", "fetching", "err"} THEN {} ELSE {item}
  <2>1. step \in Steps
    BY <1>1 DEF PipelineInv, TypeOK
  <2>2. Stored \ (completed \cup atWork) \subseteq Left
    BY <2>1 DEF Left, AtWork, Steps
  <2>3. IsFiniteSet(Left) /\ Cardinality(Left) <= errors + crashes
    BY <1>1 DEF PipelineInv, Paid
  <2> DEFINE unlearned == Stored \ (completed \cup atWork)
  <2>4. /\ IsFiniteSet(unlearned)
        /\ Cardinality(unlearned) <= Cardinality(Left)
    BY <2>2, <2>3, FS_Subset
  <2>5. Cardinality(unlearned) \in Nat /\ Cardinality(Left) \in Nat
    BY <2>3, <2>4, FS_CardinalityType
  <2>6. errors \in Nat /\ crashes \in Nat
    BY <1>1, PipelineAssumption DEF PipelineInv, TypeOK
  <2> HIDE DEF unlearned
  <2>7. Cardinality(unlearned) <= errors + crashes
    BY <2>3, <2>4, <2>5, <2>6
  <2>8. QED
    BY <2>7 DEF UnlearnedArePaidFor, unlearned
<1>2. QED
  BY <1>1, Invariance, PTL
-----------------------------------------------------------------------------
\* Overlapping sweeps.

\* The sweeps that have read an item and not come to it yet.
Waiting(x) == {s \in Sweepers : x \in sweep[s]}

\* Once a sweep has settled an item no other takes it up: those that still
\* wait with it had read it before.
Outcomes ==
    \A x \in Items : outcomes[x] > 0 =>
        /\ fetch[x] \in {"ok", "unavailable"}
        /\ outcomes[x] + Cardinality(Waiting(x)) <= Cardinality(Sweepers)

\* Sweeps that wait with an item are finitely many, and no more than sweeps.
LEMMA WaitingFinite ==
    ASSUME NEW x \in Items
    PROVE  /\ IsFiniteSet(Waiting(x)) /\ Cardinality(Waiting(x)) \in Nat
           /\ Cardinality(Waiting(x)) <= Cardinality(Sweepers)
           /\ Cardinality(Sweepers) \in Nat
<1>1. IsFiniteSet(Sweepers) /\ Waiting(x) \in SUBSET Sweepers
  BY PipelineAssumption DEF Waiting
<1>2. QED
  BY <1>1, FS_Subset, FS_CardinalityType

\* A step that settles nothing keeps Outcomes if no sweep takes up an item
\* that was settled, and its outcome stays.
LEMMA OutcomesKept ==
    ASSUME TypeOK, Outcomes, UNCHANGED outcomes,
           \A x \in Items : outcomes[x] > 0 =>
               fetch'[x] = fetch[x] /\ \A s \in Sweepers : x \in sweep'[s] => x \in sweep[s]
    PROVE  Outcomes'
<1>1. ASSUME NEW x \in Items, outcomes[x] > 0
      PROVE  outcomes[x] + Cardinality(Waiting(x)') <= Cardinality(Sweepers)
  <2>1. Waiting(x)' \in SUBSET Waiting(x)
    BY <1>1 DEF Waiting
  <2>2. /\ Cardinality(Waiting(x)') <= Cardinality(Waiting(x))
        /\ Cardinality(Waiting(x)') \in Nat
    BY <2>1, WaitingFinite, FS_Subset, FS_CardinalityType
  <2>3. outcomes[x] \in Nat
    BY DEF TypeOK
  <2>4. outcomes[x] + Cardinality(Waiting(x)) <= Cardinality(Sweepers)
    BY <1>1 DEF Outcomes
  <2>5. QED
    BY <2>2, <2>3, <2>4, WaitingFinite
<1>2. QED
  BY <1>1 DEF Outcomes

\* A sweep that settles an item waits with it no longer.
LEMMA SettleOutcomes ==
    ASSUME TypeOK, Outcomes, NEW s \in Sweepers, NEW x \in Items,
           SweepNext(s, x), Settle(x, "ok") \/ Settle(x, "unavailable")
    PROVE  Outcomes'
<1>1. /\ x \in sweep[s] /\ sweep'[s] = sweep[s] \ {x}
      /\ \A t \in Sweepers \ {s} : sweep'[t] = sweep[t]
  BY DEF TypeOK, SweepNext
<1>2. /\ fetch'[x] \in {"ok", "unavailable"} /\ outcomes'[x] = outcomes[x] + 1
      /\ \A y \in Items \ {x} : fetch'[y] = fetch[y] /\ outcomes'[y] = outcomes[y]
  BY DEF TypeOK, Settle
<1>3. ASSUME NEW y \in Items \ {x} PROVE Waiting(y)' = Waiting(y)
  BY <1>1 DEF Waiting
<1>4. outcomes'[x] + Cardinality(Waiting(x)') <= Cardinality(Sweepers)
  <2>1. s \in Waiting(x) /\ Waiting(x)' = Waiting(x) \ {s}
    BY <1>1 DEF Waiting
  <2>2. Cardinality(Waiting(x)') = Cardinality(Waiting(x)) - 1
    BY <2>1, WaitingFinite, FS_RemoveElement
  <2>3. outcomes[x] \in Nat
    BY DEF TypeOK
  <2>4. outcomes[x] > 0
        => outcomes[x] + Cardinality(Waiting(x)) <= Cardinality(Sweepers)
    BY DEF Outcomes
  <2>5. QED
    BY <1>2, <2>2, <2>3, <2>4, WaitingFinite
<1>5. ASSUME NEW y \in Items, outcomes'[y] > 0
      PROVE  /\ fetch'[y] \in {"ok", "unavailable"}
             /\ outcomes'[y] + Cardinality(Waiting(y)') <= Cardinality(Sweepers)
  <2>1. CASE y = x
    BY <1>2, <1>4, <2>1
  <2>2. CASE y # x
    BY <1>2, <1>3, <1>5, <2>2 DEF Outcomes
  <2>3. QED
    BY <2>1, <2>2
<1>6. QED
  BY <1>5 DEF Outcomes

\* Every step keeps Outcomes: an item is inserted once, and a sweep begins with
\* pending items only.
LEMMA NextOutcomes ==
    ASSUME PipelineInv, Outcomes, [Next]_vars PROVE Outcomes'
<1>1. TypeOK /\ Unstored
  BY DEF PipelineInv, Content
<1>2. CASE \/ \E c \in Captures : Share(c) \/ Claim(c) \/ ClaimLost(c)
           \/ Learn \/ ApplyTasteError
  <2>1. UNCHANGED <<fetch, sweep, outcomes>>
    BY <1>2 DEF Share, Claim, ClaimLost, Learn, IndexChunks, LogEvent, SkipTaste,
       ApplyTaste, ApplyTasteError, store, others, seen
  <2>2. QED
    BY <1>1, <2>1, OutcomesKept
<1>3. CASE Ingest \/ InsertError \/ \E f \in {"stub", "full"} : InsertLost(f)
  <2>1. /\ UNCHANGED <<sweep, outcomes>>
        /\ \/ UNCHANGED fetch
           \/ \E f \in {"stub", "full"} : StoreItem(<<UrlOf[job], day>>, f)
    BY <1>3 DEF Ingest, Insert, InsertError, InsertLost, store, others, seen
  <2>2. CASE UNCHANGED fetch
    BY <1>1, <2>1, <2>2, OutcomesKept
  <2>3. ASSUME NEW f \in {"stub", "full"}, StoreItem(<<UrlOf[job], day>>, f)
        PROVE  Outcomes'
    <3>1. <<UrlOf[job], day>> \in Items
      BY <1>1, PipelineAssumption DEF TypeOK, Items
    <3>2. /\ fetch[<<UrlOf[job], day>>] = "none"
          /\ \A y \in Items \ {<<UrlOf[job], day>>} : fetch'[y] = fetch[y]
      BY <1>1, <2>3, <3>1, StoredStays DEF Unstored
    <3>3. \A y \in Items : outcomes[y] > 0 => fetch'[y] = fetch[y]
      BY <3>1, <3>2 DEF Outcomes
    <3>4. QED
      BY <1>1, <2>1, <3>3, OutcomesKept
  <2>4. QED
    BY <2>1, <2>2, <2>3
<1>4. CASE Notify \/ StopNotifying \/ \E u \in Users : SendLost(u)
  <2>1. UNCHANGED <<fetch, sweep, outcomes>>
    BY <1>4 DEF Notify, ListAudience, DoneNotifying, BelowThreshold, NotSent,
       SendDM, LogSent, StopNotifying, SendLost, store, others, seen
  <2>2. QED
    BY <1>1, <2>1, OutcomesKept
<1>5. CASE Mark \/ MarkError \/ Crash
  <2>1. /\ UNCHANGED <<fetch, outcomes>>
        /\ \A s \in Sweepers : sweep'[s] \subseteq sweep[s]
    BY <1>5 DEF Mark, MarkDone, MarkFailed, MarkError, Crash, store, others, seen
  <2>2. QED
    BY <1>1, <2>1, OutcomesKept
<1>6. ASSUME NEW s \in Sweepers, SweepBegin(s) PROVE Outcomes'
  <2>1. UNCHANGED <<fetch, outcomes>>
    BY <1>6 DEF SweepBegin, store, seen
  <2>2. \A t \in Sweepers : \A x \in sweep'[t] \ sweep[t] : fetch[x] = "pending_retry"
    BY <1>1, <1>6 DEF TypeOK, SweepBegin, Pending
  <2>3. \A x \in Items : outcomes[x] > 0 => fetch[x] # "pending_retry"
    BY DEF Outcomes
  <2>4. QED
    BY <1>1, <2>1, <2>2, <2>3, OutcomesKept
<1>7. ASSUME NEW s \in Sweepers, NEW x \in Items, SweepError(s, x) PROVE Outcomes'
  <2>1. /\ UNCHANGED <<fetch, outcomes>>
        /\ \A t \in Sweepers : sweep'[t] \subseteq sweep[t]
    BY <1>1, <1>7 DEF TypeOK, SweepError, SweepNext, store, seen
  <2>2. QED
    BY <1>1, <2>1, OutcomesKept
<1>8. ASSUME NEW s \in Sweepers, NEW x \in Items, Refetched(s, x) \/ Exhausted(s, x)
      PROVE  Outcomes'
  BY <1>1, <1>8, SettleOutcomes DEF Refetched, Exhausted
<1>9. CASE \/ ReindexBegin \/ \E x \in Items : ReindexItem(x)
           \/ Midnight \/ UNCHANGED vars
  <2>1. UNCHANGED <<fetch, sweep, outcomes>>
    BY <1>9 DEF ReindexBegin, ReindexItem, Midnight, vars, store, others, seen
  <2>2. QED
    BY <1>1, <2>1, OutcomesKept
<1>10. QED
  BY <1>2, <1>3, <1>4, <1>5, <1>6, <1>7, <1>8, <1>9 DEF Next, SweepOne

\* However many sweeps overlap, an item is settled at most once by each: one
\* that begins later passes it over (pending_retries, update_after_fetch,
\* mark_retry_exhausted).
THEOREM OneOutcomePerSweepCorrect == Spec => []OneOutcomePerSweep
<1>1. Init => Outcomes
  BY DEF Init, Outcomes
<1>2. PipelineInv /\ Outcomes /\ [Next]_vars => Outcomes'
  BY NextOutcomes
<1>3. ASSUME PipelineInv, Outcomes PROVE OneOutcomePerSweep
  <2>1. ASSUME NEW x \in Items PROVE outcomes[x] <= Cardinality(Sweepers)
    <3>1. outcomes[x] \in Nat
      BY <1>3 DEF PipelineInv, TypeOK
    <3>2. outcomes[x] > 0
          => outcomes[x] + Cardinality(Waiting(x)) <= Cardinality(Sweepers)
      BY <1>3 DEF Outcomes
    <3>3. QED
      BY <3>1, <3>2, WaitingFinite
  <2>2. QED
    BY <2>1 DEF OneOutcomePerSweep
<1>4. QED
  BY <1>1, <1>2, <1>3, Invariance, PTL DEF Spec
=============================================================================
