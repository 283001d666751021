------------------------- MODULE TasteProfileProofs -------------------------
(***************************************************************************)
(* What holds of the taste profiles for any users, items, sharers, scores  *)
(* and bounds: their state is well typed, and the six properties that TLC  *)
(* checks on small instances.                                              *)
(*                                                                         *)
(* Every one of them but NobodySkipped needs to know what the writers      *)
(* remember: WeightInv, what a held copy of a row and a pending press say  *)
(* of vectors; MuteInv, of mutes since the audience was listed; EarnInv,   *)
(* of the dismissals a calibration has counted.  A row is written in few   *)
(* ways (RowSteps), and each argument goes through them.                   *)
(***************************************************************************)
EXTENDS TasteProfile, TLAPS

\* What the memory of the tasks holds where they are.
Shape ==
    /\ phase = "idle" <=> item = "nothing"
    /\ phase \in {"idle", "learning", "listing"} => todo = {}
    /\ phase \in {"sending", "logging", "crediting", "adding"} => target \in Users
    /\ \A u \in Users : press[u].phase # "idle" => press[u].item \in Items
    /\ \A c \in Calibrators :
        calibration[c].phase # "idle" => calibration[c].user \in Users

\* What TypeOK says of a dismissal and of a calibration.
Presses == [phase : {"idle", "reading", "merging"},
            item : Items \cup {"nothing"}, read : Row]
Calibrations == [phase : {"idle", "counting", "reading", "raising"},
                 user : Users \cup {"nobody"}, threshold : Scores]

TypeInv == TypeOK /\ Shape

\* The defaults of the columns make a row.
LEMMA NoRowType == NoRow \in Row
<1>1. NoTags \in TagLists
  BY TasteAssumption DEF NoTags, TagLists, TasteAssumption
<1>2. QED
  BY <1>1, TasteAssumption DEF NoRow, Row, Scores, TasteAssumption

\* merge_tags keeps the tags of a list within its length, and drops none of
\* them but the last of a full list.
LEMMA MergedTags ==
    ASSUME NEW list \in TagLists, NEW tags \in SUBSET Items
    PROVE  /\ MergeTags(list, tags) \in TagLists
           /\ \A t \in Items : list[t] > 0 /\ list[t] # MaxTags
                              => MergeTags(list, tags)[t] > 0
<1> DEFINE pushed(t) == \E n \in tags : list[n] = 0 \/ list[n] > list[t]
           place(t) == IF t \in tags THEN 1
                       ELSE IF list[t] = 0 \/ ~pushed(t) THEN list[t]
                       ELSE IF list[t] < MaxTags THEN list[t] + 1 ELSE 0
<1>1. MergeTags(list, tags) = [t \in Items |-> place(t)]
  BY DEF MergeTags
<1> HIDE DEF pushed
<1>2. \A t \in Items : list[t] \in 0..MaxTags
  BY DEF TagLists
<1>3. MaxTags \in Nat \ {0}
  BY TasteAssumption DEF TasteAssumption
<1>4. \A t \in Items :
          place(t) \in 0..MaxTags /\ (list[t] > 0 /\ list[t] # MaxTags => place(t) > 0)
  BY <1>2, <1>3
<1> HIDE DEF place
<1>5. QED
  BY <1>1, <1>4 DEF TagLists

\* What apply_signal writes.
Written(u, r, i, positive, tags) ==
    /\ \A v \in Users : v # u => row'[v] = row[v]
    /\ row'[u].vec = WeightedUpdate(r, i, positive).vec
    /\ row'[u].weight = WeightedUpdate(r, i, positive).weight
    /\ row'[u].exists = TRUE
    /\ row'[u].muted = row[u].muted
    /\ row'[u].liked = IF positive THEN MergeTags(r.liked, tags) ELSE r.liked
    /\ row'[u].disliked = IF positive THEN r.disliked ELSE MergeTags(r.disliked, tags)
    /\ row'[u].threshold = IF row[u].exists THEN row[u].threshold
                           ELSE IF r.exists THEN r.threshold
                           ELSE DefaultThreshold

\* The new row of an upsert, and the others untouched.
LEMMA UpsertRow ==
    ASSUME row \in [Users -> Row],
           NEW u \in Users, NEW r \in Row, NEW i \in Items,
           NEW positive \in BOOLEAN, NEW tags \in SUBSET Items, NEW count \in Nat,
           Upsert(u, r, i, positive, tags, count)
    PROVE  row' \in [Users -> Row] /\ Written(u, r, i, positive, tags)
<1> DEFINE merged == WeightedUpdate(r, i, positive)
           threshold == IF row[u].exists THEN row[u].threshold
                        ELSE IF r.exists THEN r.threshold
                        ELSE DefaultThreshold
           liked == IF positive THEN MergeTags(r.liked, tags) ELSE r.liked
           disliked == IF positive THEN r.disliked ELSE MergeTags(r.disliked, tags)
           new == [row[u] EXCEPT
                      !.exists = TRUE, !.vec = merged.vec, !.weight = merged.weight,
                      !.threshold = threshold, !.liked = liked,
                      !.disliked = disliked, !.captures = row[u].captures + count]
<1>1. row' = [row EXCEPT ![u] = new]
  BY DEF Upsert, WeightedUpdate
<1>2. row[u] \in Row
  OBVIOUS
<1>3. merged.vec \in SUBSET Items /\ merged.weight \in BOOLEAN
  BY DEF WeightedUpdate, Row
<1>4. threshold \in Scores
  BY <1>2, TasteAssumption DEF Row, Scores, TasteAssumption
<1>5. liked \in TagLists /\ disliked \in TagLists
  BY MergedTags DEF Row
<1> HIDE DEF merged, threshold, liked, disliked
<1>6. row[u].captures + count \in Nat
  BY <1>2 DEF Row
<1>7. /\ new \in Row
      /\ new.vec = merged.vec /\ new.weight = merged.weight
      /\ new.exists = TRUE /\ new.muted = row[u].muted
      /\ new.liked = liked /\ new.disliked = disliked
      /\ new.threshold = threshold
  BY <1>2, <1>3, <1>4, <1>5, <1>6 DEF Row
<1> HIDE DEF new
<1>8. row' \in [Users -> Row] /\ row'[u] = new /\ \A v \in Users : v # u => row'[v] = row[v]
  BY <1>1, <1>7
<1>9. QED
  BY <1>7, <1>8 DEF merged, threshold, liked, disliked, Written

\* What set_threshold changes of one row, and what it leaves alone.
LEMMA SetThresholdRow ==
    ASSUME row \in [Users -> Row], NEW u \in Users, NEW t \in Scores, SetThreshold(u, t)
    PROVE  /\ row' \in [Users -> Row]
           /\ \A v \in Users : v # u => row'[v] = row[v]
           /\ row'[u].threshold = t /\ row'[u].exists = TRUE
           /\ \A f \in {"vec", "weight", "muted", "liked", "disliked"} :
                  row'[u][f] = row[u][f]
BY DEF SetThreshold, Row

\* What set_mute changes of one row, and what it leaves alone.
LEMMA SetMuteRow ==
    ASSUME row \in [Users -> Row], NEW u \in Users, NEW m \in BOOLEAN, SetMute(u, m)
    PROVE  /\ row' \in [Users -> Row]
           /\ \A v \in Users : v # u => row'[v] = row[v]
           /\ row'[u].muted = m /\ row'[u].exists = TRUE
           /\ \A f \in {"vec", "weight", "threshold", "liked", "disliked"} :
                  row'[u][f] = row[u][f]
BY DEF SetMute, Row

\* The count of faults stays within its bound.
LEMMA FaultType == TypeOK /\ Fault => faults' \in 0..MaxFaults
BY TasteAssumption DEF TypeOK, Fault, TasteAssumption

\* The end of a run leaves the consumer idle, with nothing in its memory.
LEMMA EndRunType ==
    ASSUME TypeInv, NEW left \in SUBSET todo, EndRun(left)
    PROVE  /\ phase' = "idle" /\ item' = "nothing" /\ target' = "nobody"
           /\ todo' = {} /\ late' = {}
           /\ read' \in [Users -> Row]
           /\ unseen' \subseteq Users \X Items
BY NoRowType DEF TypeInv, TypeOK, Shape, EndRun

\* The two placeholders are no user and no item.
LEMMA NobodyNothing == "nobody" \notin Users /\ "nothing" \notin Items
BY TasteAssumption DEF TasteAssumption

\* The types hold at first, and each group of actions keeps them.
LEMMA TypeInit == Init => TypeInv
BY NoRowType, TasteAssumption
DEF Init, TypeInv, TypeOK, Shape, TasteAssumption, NoPress, NoCalibration, Scores, Calibrators

\* The steps of the ingestion consumer.
LEMMA ConsumerType == TypeInv /\ Consumer => TypeInv'
<1> SUFFICES ASSUME TypeInv, Consumer PROVE TypeInv'
  OBVIOUS
<1> USE NoRowType, NobodyNothing
<1>1. ASSUME NEW i \in Items, Capture(i) PROVE TypeInv'
  <2>1. SharedBy[i] \in Users
    BY TasteAssumption DEF TasteAssumption
  <2>2. faults' \in 0..MaxFaults
    BY <1>1, FaultType DEF Capture, TypeInv, TypeOK
  <2>3. QED
    BY <1>1, <2>1, <2>2 DEF Capture, TypeInv, TypeOK, Shape, buttons, history, Nightly,
                            Calibrators
<1>2. CASE Learn
  <2>1. SharedBy[item] \in Users /\ item \in Items
    BY <1>2, TasteAssumption DEF Learn, TypeInv, TypeOK, Shape, TasteAssumption
  <2>2. Upsert(SharedBy[item], read[SharedBy[item]], item, TRUE, {item}, 1)
    BY <1>2 DEF Learn
  <2>3. row' \in [Users -> Row]
    <3> HIDE <1>2
    <3>1. row \in [Users -> Row] /\ read[SharedBy[item]] \in Row /\ {item} \in SUBSET Items
      BY <2>1 DEF TypeInv, TypeOK
    <3>2. QED
      BY <2>1, <2>2, <3>1, UpsertRow
  <2>4. QED
    BY <1>2, <2>3 DEF Learn, TypeInv, TypeOK, Shape, buttons, history, bounds
<1>3. CASE ListAudience
  BY <1>3 DEF ListAudience, TypeInv, TypeOK, Shape, tables, buttons, bounds
<1>4. ASSUME NEW u \in Users, NEW score \in Scores, Consider(u, score) PROVE TypeInv'
  <2>1. faults' \in 0..MaxFaults
    BY <1>4, FaultType DEF Consider, BelowThreshold, PassOver, Interrupt, bounds,
                           TypeInv, TypeOK
  <2>2. notified' \subseteq Users \X Items
    BY <1>4 DEF Consider, BelowThreshold, PassOver, Interrupt, tables, TypeInv, TypeOK,
                Shape
  <2>3. QED
    BY <1>4, <2>1, <2>2 DEF Consider, BelowThreshold, PassOver, Interrupt, Seen, tables,
                            buttons, history, bounds, TypeInv, TypeOK, Shape
<1>5. CASE Send \/ SendFails
  <2>1. faults' \in 0..MaxFaults
    BY <1>5, FaultType DEF Send, SendFails, TypeInv, TypeOK
  <2>2. sent' \subseteq Users \X Items
    BY <1>5 DEF Send, SendFails, history, TypeInv, TypeOK, Shape
  <2>3. QED
    BY <1>5, <2>1, <2>2 DEF Send, SendFails, tables, buttons, history, TypeInv, TypeOK,
                            Shape
<1>6. CASE LogSent
  <2>1. notified' \subseteq Users \X Items
    BY <1>6 DEF LogSent, TypeInv, TypeOK, Shape
  <2>2. QED
    BY <1>6, <2>1 DEF LogSent, buttons, history, bounds, TypeInv, TypeOK, Shape
<1>7. CASE ReadForCredit
  BY <1>7 DEF ReadForCredit, tables, buttons, history, bounds, TypeInv, TypeOK, Shape
<1>8. CASE Credit
  <2>1. row \in [Users -> Row] /\ target \in Users /\ read[target] \in Row /\ item \in Items
    BY <1>8 DEF Credit, TypeInv, TypeOK, Shape
  <2>2. row' \in [Users -> Row]
    <3>1. row' = row \/ Upsert(target, read[target], item, TRUE, {}, 0)
      BY <1>8 DEF Credit
    <3>2. CASE Upsert(target, read[target], item, TRUE, {}, 0)
      <4> HIDE <1>8
      <4>1. QED
        BY <2>1, <3>2, UpsertRow
    <3>3. QED
      BY <2>1, <3>1, <3>2
  <2>3. faults' \in 0..MaxFaults
    BY <1>8, FaultType DEF Credit, TypeInv, TypeOK
  <2>4. QED
    BY <1>8, <2>1, <2>2, <2>3 DEF Credit, Seen, buttons, history, TypeInv, TypeOK, Shape
<1>9. CASE FinishRun
  <2>1. EndRun({})
    BY <1>9 DEF FinishRun
  <2>2. QED
    BY <1>9, <2>1, EndRunType DEF FinishRun, tables, buttons, bounds, TypeInv, TypeOK,
                                  Shape
<1>10. CASE RunFails
  <2>1. EndRun(todo)
    BY <1>10 DEF RunFails
  <2>2. faults' \in 0..MaxFaults /\ cut' \subseteq Items
    BY <1>10, FaultType DEF RunFails, TypeInv, TypeOK, Shape
  <2>3. QED
    BY <1>10, <2>1, <2>2, EndRunType DEF RunFails, tables, buttons, TypeInv, TypeOK, Shape
<1>11. QED
  BY <1>1, <1>2, <1>3, <1>4, <1>5, <1>6, <1>7, <1>8, <1>9, <1>10 DEF Consumer

\* The steps of the dismiss button.
LEMMA ButtonType == TypeInv /\ Button => TypeInv'
<1> SUFFICES ASSUME TypeInv, Button PROVE TypeInv'
  OBVIOUS
<1> USE NoRowType, NobodyNothing DEF Presses, Calibrations
<1>1. ASSUME NEW u \in Users, NEW i \in Items, Dismiss(u, i) PROVE TypeInv'
  <2>1. faults' \in 0..MaxFaults /\ presses' \in 0..MaxPresses
    BY <1>1, FaultType, TasteAssumption DEF Dismiss, TypeInv, TypeOK, TasteAssumption
  <2>2. week' \in [Users -> Nat] /\ most' \in [Users -> Nat]
    BY <1>1 DEF Dismiss, TypeInv, TypeOK
  <2>3. /\ press' = [press EXCEPT ![u] = [press[u] EXCEPT !.phase = "reading", !.item = i]]
        /\ UNCHANGED <<row, notified, stored, consumer, calibration, sweeping,
                       chosen, sent, late, unseen, cut, commands>>
    BY <1>1 DEF Dismiss
  <2>4. /\ press' \in [Users -> Presses]
        /\ \A v \in Users : press'[v].phase # "idle" => press'[v].item \in Items
    <3> DEFINE new == [press[u] EXCEPT !.phase = "reading", !.item = i]
    <3>1. press \in [Users -> Presses]
      BY DEF TypeInv, TypeOK
    <3>2. new \in Presses /\ new.item = i
      BY <3>1
    <3>3. press' = [press EXCEPT ![u] = new]
      BY <2>3
    <3> HIDE DEF new
    <3>4. QED
      BY <3>1, <3>2, <3>3 DEF TypeInv, Shape
  <2>5. QED
    BY <2>1, <2>2, <2>3, <2>4 DEF consumer, TypeInv, TypeOK, Shape
<1>2. ASSUME NEW u \in Users, ReadForDismissal(u) PROVE TypeInv'
  BY <1>2 DEF ReadForDismissal, tables, consumer, history, bounds, TypeInv, TypeOK, Shape
<1>3. ASSUME NEW u \in Users, PushAway(u) PROVE TypeInv'
  <2>1. /\ row \in [Users -> Row] /\ press[u].read \in Row /\ press[u].item \in Items
        /\ u \in Calibrators
    BY <1>3 DEF PushAway, TypeInv, TypeOK, Shape, Calibrators
  <2>2. row' \in [Users -> Row]
    <3>1. \/ row' = row
          \/ Upsert(u, press[u].read, press[u].item, FALSE, {press[u].item}, 0)
      BY <1>3 DEF PushAway
    <3>2. CASE Upsert(u, press[u].read, press[u].item, FALSE, {press[u].item}, 0)
      <4> HIDE <1>3
      <4>1. {press[u].item} \in SUBSET Items
        BY <2>1
      <4>2. QED
        BY <2>1, <3>2, <4>1, UpsertRow
    <3>3. QED
      BY <2>1, <3>1, <3>2
  <2>3. faults' \in 0..MaxFaults
    BY <1>3, FaultType DEF PushAway, TypeInv, TypeOK
  <2>4. /\ press' = [press EXCEPT ![u] = NoPress]
        /\ calibration' = [calibration EXCEPT ![u] =
                              [calibration[u] EXCEPT !.phase = "counting", !.user = u]]
        /\ UNCHANGED <<week, notified, stored, consumer, sweeping, history,
                       presses, commands>>
    BY <1>3 DEF PushAway
  <2>5. /\ press' \in [Users -> Presses]
        /\ \A v \in Users : press'[v].phase # "idle" => press'[v].item \in Items
    BY <2>4 DEF NoPress, TypeInv, TypeOK, Shape
  <2>6. /\ calibration' \in [Calibrators -> Calibrations]
        /\ \A c \in Calibrators :
               calibration'[c].phase # "idle" => calibration'[c].user \in Users
    <3> DEFINE new == [calibration[u] EXCEPT !.phase = "counting", !.user = u]
    <3>1. calibration \in [Calibrators -> Calibrations]
      BY DEF TypeInv, TypeOK
    <3>2. new \in Calibrations /\ new.user = u
      BY <2>1, <3>1
    <3>3. calibration' = [calibration EXCEPT ![u] = new]
      BY <2>4
    <3> HIDE DEF new
    <3>4. QED
      BY <2>1, <3>1, <3>2, <3>3 DEF TypeInv, Shape
  <2>7. QED
    BY <2>2, <2>3, <2>4, <2>5, <2>6 DEF consumer, history, TypeInv, TypeOK, Shape
<1>4. QED
  BY <1>1, <1>2, <1>3 DEF Button

\* The steps of the two kinds of calibration.
LEMMA CalibrateType == TypeInv /\ Calibrate => TypeInv'
<1> SUFFICES ASSUME TypeInv, Calibrate PROVE TypeInv'
  OBVIOUS
<1> USE NoRowType, NobodyNothing DEF Presses, Calibrations
<1>1. CASE Sweep
  BY <1>1 DEF Sweep, tables, consumer, history, bounds, TypeInv, TypeOK, Shape
<1>2. ASSUME NEW u \in Users, SweepNext(u) PROVE TypeInv'
  <2>1. Nightly \in Calibrators
    BY DEF Calibrators
  <2>2. QED
    BY <1>2, <2>1 DEF SweepNext, tables, consumer, history, bounds, TypeInv, TypeOK, Shape
<1>3. NoCalibration \in Calibrations
  BY TasteAssumption DEF NoCalibration, Scores, TasteAssumption
<1>4. ASSUME NEW c \in Calibrators, CountDismissals(c) PROVE TypeInv'
  <2>1. /\ calibration' \in [Calibrators -> Calibrations]
        /\ \A d \in Calibrators :
               calibration'[d].phase # "idle" => calibration'[d].user \in Users
    BY <1>3, <1>4 DEF CountDismissals, NoCalibration, TypeInv, TypeOK, Shape
  <2>2. QED
    BY <1>4, <2>1 DEF CountDismissals, tables, consumer, history, bounds, TypeInv,
                      TypeOK, Shape
<1>5. ASSUME NEW c \in Calibrators, ReadThreshold(c) PROVE TypeInv'
  <2> DEFINE r == row[calibration[c].user]
             current == IF r.exists THEN r.threshold ELSE DefaultThreshold
  <2>1. calibration[c].user \in Users
    BY <1>5 DEF ReadThreshold, TypeInv, TypeOK, Shape
  <2>2. current \in Scores
    BY <2>1, TasteAssumption DEF TypeInv, TypeOK, Row, Scores, TasteAssumption
  <2>3. current # Top => current + 1 \in Scores
    BY <2>2, TasteAssumption DEF Scores, TasteAssumption
  <2>4. calibration' = [calibration EXCEPT ![c] =
               IF current = Top THEN NoCalibration
               ELSE [calibration[c] EXCEPT !.phase = "raising", !.threshold = current + 1]]
    BY <1>5 DEF ReadThreshold
  <2> HIDE DEF current
  <2>5. /\ calibration' \in [Calibrators -> Calibrations]
        /\ \A d \in Calibrators :
               calibration'[d].phase # "idle" => calibration'[d].user \in Users
    BY <1>3, <2>1, <2>3, <2>4 DEF NoCalibration, TypeInv, TypeOK, Shape
  <2>6. QED
    BY <1>5, <2>5 DEF ReadThreshold, tables, consumer, history, bounds, TypeInv, TypeOK,
                      Shape
<1>6. ASSUME NEW c \in Calibrators, Raise(c) PROVE TypeInv'
  <2>1. calibration[c].user \in Users /\ calibration[c].threshold \in Scores
    BY <1>6 DEF Raise, TypeInv, TypeOK, Shape
  <2>2. row' \in [Users -> Row]
    BY <1>6, <2>1, SetThresholdRow DEF Raise, TypeInv, TypeOK
  <2>3. QED
    BY <1>3, <1>6, <2>2 DEF Raise, consumer, history, bounds, NoCalibration, TypeInv,
                            TypeOK, Shape
<1>7. ASSUME NEW c \in Calibrators, CalibrationFails(c) PROVE TypeInv'
  <2>1. faults' \in 0..MaxFaults
    BY <1>7, FaultType DEF CalibrationFails, TypeInv
  <2>2. QED
    BY <1>3, <1>7, <2>1 DEF CalibrationFails, tables, consumer, history, NoCalibration,
                            TypeInv, TypeOK, Shape
<1>8. QED
  BY <1>1, <1>2, <1>4, <1>5, <1>6, <1>7 DEF Calibrate

\* Commands, time and restarts.
LEMMA OthersType == TypeInv /\ Others => TypeInv'
<1> SUFFICES ASSUME TypeInv, Others PROVE TypeInv'
  OBVIOUS
<1> USE NoRowType, NobodyNothing DEF Presses, Calibrations
<1>1. TypeOK /\ Command => commands' \in 0..MaxCommands
  BY TasteAssumption DEF TypeOK, Command, TasteAssumption
<1>2. ASSUME NEW u \in Users, NEW t \in Scores, ThresholdCommand(u, t) PROVE TypeInv'
  BY <1>1, <1>2, SetThresholdRow
  DEF ThresholdCommand, consumer, buttons, TypeInv, TypeOK, Shape
<1>3. ASSUME NEW u \in Users, NEW m \in BOOLEAN, MuteCommand(u, m) PROVE TypeInv'
  BY <1>1, <1>3, SetMuteRow
  DEF MuteCommand, consumer, buttons, TypeInv, TypeOK, Shape
<1>4. ASSUME NEW u \in Users, MuteExpires(u) PROVE TypeInv'
  <2>1. row' \in [Users -> Row]
    BY <1>4 DEF MuteExpires, TypeInv, TypeOK, Row
  <2>2. QED
    BY <1>4, <2>1 DEF MuteExpires, consumer, buttons, history, bounds, TypeInv, TypeOK,
                      Shape
<1>5. ASSUME NEW u \in Users, DismissalAges(u) PROVE TypeInv'
  <2>1. week' \in [Users -> Nat]
    BY <1>5 DEF DismissalAges, TypeInv, TypeOK
  <2>2. QED
    BY <1>5, <2>1 DEF DismissalAges, consumer, buttons, history, bounds, TypeInv, TypeOK,
                      Shape
<1>6. CASE Restart
  <2>1. EndRun(todo)
    BY <1>6 DEF Restart
  <2>2. faults' \in 0..MaxFaults /\ cut' \subseteq Items
    BY <1>6, FaultType DEF Restart, TypeInv, TypeOK
  <2>3. /\ press' \in [Users -> Presses]
        /\ calibration' \in [Calibrators -> Calibrations]
        /\ \A u \in Users : press'[u].phase = "idle"
        /\ \A c \in Calibrators : calibration'[c].phase = "idle"
    BY <1>6, TasteAssumption DEF Restart, NoPress, NoCalibration, Scores, TasteAssumption
  <2>4. QED
    BY <1>6, <2>1, <2>2, <2>3, EndRunType DEF Restart, tables, TypeInv, TypeOK, Shape
<1>7. QED
  BY <1>2, <1>3, <1>4, <1>5, <1>6 DEF Others

\* Every step keeps the types.
LEMMA TypeStep == TypeInv /\ [Next]_vars => TypeInv'
<1>1. TypeInv /\ UNCHANGED vars => TypeInv'
  BY DEF vars, tables, consumer, buttons, history, bounds, TypeInv, TypeOK, Shape
<1>2. QED
  BY <1>1, ConsumerType, ButtonType, CalibrateType, OthersType DEF Next

\* The types with what the tasks hold where they are.
LEMMA TypeInvariant == Spec => []TypeInv
BY TypeInit, TypeStep, PTL DEF Spec

\* Every reachable state of the profiles and of what writes them is well typed.
THEOREM TypeCorrect == Spec => []TypeOK
<1>1. TypeInv => TypeOK
  BY DEF TypeInv
<1>2. QED
  BY <1>1, TypeInvariant, PTL
-----------------------------------------------------------------------------
\* The ways a row is written.
Learned ==
    /\ phase = "learning" /\ item \in Items /\ SharedBy[item] \in Users
    /\ Upsert(SharedBy[item], read[SharedBy[item]], item, TRUE, {item}, 1)
Credited ==
    /\ phase = "adding" /\ item \in Items /\ target \in Users
    /\ Upsert(target, read[target], item, TRUE, {}, 0)
Dismissed(u) ==
    /\ press[u].phase = "merging" /\ press[u].item \in Items
    /\ Upsert(u, press[u].read, press[u].item, FALSE, {press[u].item}, 0)
Unmuted(u) == row' = [row EXCEPT ![u].muted = FALSE]

\* A row changes in these ways alone.
LEMMA RowSteps ==
    ASSUME TypeInv, [Next]_vars
    PROVE  \/ row' = row
           \/ Learned \/ Credited
           \/ \E u \in Users : Dismissed(u) \/ Unmuted(u)
           \/ \E u \in Users, t \in Scores : ThresholdCommand(u, t)
           \/ \E u \in Users, m \in BOOLEAN : MuteCommand(u, m)
           \/ \E c \in Calibrators : Raise(c)
<1>1. CASE Consumer
  <2>1. CASE Learn
    <3>1. item \in Items /\ SharedBy[item] \in Users
      BY <2>1, TasteAssumption DEF Learn, TypeInv, TypeOK, Shape, TasteAssumption
    <3>2. QED
      BY <2>1, <3>1 DEF Learn, Learned
  <2>2. CASE Credit
    <3>1. item \in Items /\ target \in Users
      BY <2>2 DEF Credit, TypeInv, TypeOK, Shape
    <3>2. QED
      BY <2>2, <3>1 DEF Credit, Credited
  <2>3. CASE \E u \in Users, score \in Scores : Consider(u, score)
    BY <2>3 DEF Consider, BelowThreshold, PassOver, Interrupt, tables
  <2>4. CASE \/ \E i \in Items : Capture(i)
             \/ ListAudience \/ Send \/ SendFails \/ LogSent \/ ReadForCredit
             \/ FinishRun \/ RunFails
    BY <2>4 DEF Capture, ListAudience, Send, SendFails, LogSent, ReadForCredit,
                FinishRun, RunFails, tables
  <2>5. QED
    BY <1>1, <2>1, <2>2, <2>3, <2>4 DEF Consumer
<1>2. CASE Button
  <2>1. ASSUME NEW u \in Users, PushAway(u) PROVE row' = row \/ Dismissed(u)
    BY <2>1 DEF PushAway, Dismissed, TypeInv, Shape
  <2>2. QED
    BY <1>2, <2>1 DEF Button, Dismiss, ReadForDismissal, tables
<1>3. CASE Calibrate
  BY <1>3 DEF Calibrate, Sweep, SweepNext, CountDismissals, ReadThreshold,
              CalibrationFails, tables
<1>4. CASE Others
  BY <1>4 DEF Others, MuteExpires, DismissalAges, Restart, Unmuted, tables
<1>5. CASE UNCHANGED vars
  BY <1>5 DEF vars, tables
<1>6. QED
  BY <1>1, <1>2, <1>3, <1>4, <1>5 DEF Next

\* The end of calibrate_threshold is a set_threshold.
LEMMA RaiseRow ==
    ASSUME TypeInv, NEW c \in Calibrators, Raise(c)
    PROVE  /\ calibration[c].user \in Users /\ calibration[c].threshold \in Scores
           /\ SetThreshold(calibration[c].user, calibration[c].threshold)
BY DEF Raise, TypeInv, TypeOK, Shape

\* The end of a mute leaves the rest of the row alone.
LEMMA UnmutedRow ==
    ASSUME row \in [Users -> Row], NEW u \in Users, Unmuted(u)
    PROVE  /\ \A v \in Users : v # u => row'[v] = row[v]
           /\ row'[u].muted = FALSE
           /\ \A f \in {"exists", "vec", "weight", "threshold", "liked", "disliked"} :
                  row'[u][f] = row[u][f]
BY DEF Unmuted, Row
-----------------------------------------------------------------------------
\* A vector has weight wherever a row is held, and whoever can dismiss an
\* item has a vector, and keeps one.
Weighted(r) == r.vec # {} => r.weight
HasVector(u) == row[u].vec # {}

WeightInv ==
    /\ \A u \in Users : Weighted(row[u]) /\ Weighted(read[u]) /\ Weighted(press[u].read)
    /\ \A u \in todo : HasVector(u)
    /\ phase \in {"sending", "logging", "crediting", "adding"} => HasVector(target)
    /\ \A pair \in sent : HasVector(pair[1])
    /\ \A u \in Users : press[u].phase # "idle" => HasVector(u)
    /\ \A u \in Users : press[u].phase = "merging" => press[u].read.vec # {}

\* Before the first signal there is no vector.
LEMMA WeightInit == Init => WeightInv
BY DEF Init, WeightInv, Weighted, HasVector, NoRow, NoPress

\* No writer leaves a vector without weight, or takes the last of a vector.
LEMMA VectorsKept ==
    ASSUME TypeInv, WeightInv, [Next]_vars
    PROVE  \A u \in Users : Weighted(row'[u]) /\ (HasVector(u) => HasVector(u)')
<1>1. row \in [Users -> Row] /\ read \in [Users -> Row]
      /\ \A u \in Users : press[u].read \in Row
  BY DEF TypeInv, TypeOK
<1>2. \A u \in Users : Weighted(row[u]) /\ Weighted(read[u]) /\ Weighted(press[u].read)
  BY DEF WeightInv
<1>3. CASE row' = row
  BY <1>2, <1>3 DEF HasVector
<1>4. CASE Learned
  <2> DEFINE u == SharedBy[item]
  <2>1. u \in Users /\ item \in Items /\ read[u] \in Row
        /\ Upsert(u, read[u], item, TRUE, {item}, 1)
    BY <1>1, <1>4 DEF Learned
  <2> HIDE DEF u
  <2>2. Written(u, read[u], item, TRUE, {item})
    <3>1. {item} \in SUBSET Items
      BY <2>1
    <3>2. QED
      BY <1>1, <2>1, <3>1, UpsertRow
  <2>3. row'[u].vec # {} /\ row'[u].weight
    BY <2>2 DEF WeightedUpdate, Written
  <2>4. QED
    BY <1>2, <2>2, <2>3 DEF HasVector, Weighted, Written
<1>5. CASE Credited
  <2>1. target \in Users /\ item \in Items /\ read[target] \in Row
        /\ Upsert(target, read[target], item, TRUE, {}, 0)
    BY <1>1, <1>5 DEF Credited
  <2>2. Written(target, read[target], item, TRUE, {})
    BY <1>1, <2>1, UpsertRow
  <2>3. row'[target].vec # {} /\ row'[target].weight
    BY <2>2 DEF WeightedUpdate, Written
  <2>4. QED
    BY <1>2, <2>2, <2>3 DEF HasVector, Weighted, Written
<1>6. ASSUME NEW u \in Users, Dismissed(u)
      PROVE  \A v \in Users : Weighted(row'[v]) /\ (HasVector(v) => HasVector(v)')
  <2> DEFINE r == press[u].read
             i == press[u].item
  <2>1. r \in Row /\ i \in Items /\ Upsert(u, r, i, FALSE, {i}, 0)
    BY <1>1, <1>6 DEF Dismissed
  <2>2. r.vec # {} /\ r.weight
    BY <1>2, <1>6 DEF Dismissed, WeightInv, Weighted
  <2> HIDE DEF r, i
  <2>3. Written(u, r, i, FALSE, {i})
    <3>1. {i} \in SUBSET Items
      BY <2>1
    <3>2. QED
      BY <1>1, <2>1, <3>1, UpsertRow
  <2>4. row'[u].vec # {} /\ row'[u].weight
    BY <2>2, <2>3 DEF WeightedUpdate, Written
  <2>5. QED
    BY <1>2, <2>3, <2>4 DEF HasVector, Weighted, Written
<1>7. ASSUME NEW u \in Users,
             \/ Unmuted(u)
             \/ \E t \in Scores : SetThreshold(u, t)
             \/ \E m \in BOOLEAN : SetMute(u, m)
      PROVE  \A v \in Users : Weighted(row'[v]) /\ (HasVector(v) => HasVector(v)')
  <2>1. /\ \A v \in Users : v # u => row'[v] = row[v]
        /\ \A f \in {"vec", "weight"} : row'[u][f] = row[u][f]
    BY <1>1, <1>7, UnmutedRow, SetThresholdRow, SetMuteRow
  <2>2. row'[u].vec = row[u].vec /\ row'[u].weight = row[u].weight
    BY <2>1
  <2>3. QED
    BY <1>2, <2>1, <2>2 DEF HasVector, Weighted
<1>8. ASSUME NEW u \in Users, NEW t \in Scores, ThresholdCommand(u, t)
      PROVE  SetThreshold(u, t)
  BY <1>8 DEF ThresholdCommand
<1>9. ASSUME NEW u \in Users, NEW m \in BOOLEAN, MuteCommand(u, m) PROVE SetMute(u, m)
  BY <1>9 DEF MuteCommand
<1>10. ASSUME NEW c \in Calibrators, Raise(c)
       PROVE  \E u \in Users, t \in Scores : SetThreshold(u, t)
  BY <1>10, RaiseRow
<1>11. QED
  BY <1>3, <1>4, <1>5, <1>6, <1>7, <1>8, <1>9, <1>10, RowSteps

\* Every step keeps WeightInv.
LEMMA WeightStep == TypeInv /\ WeightInv /\ [Next]_vars => WeightInv'
<1> SUFFICES ASSUME TypeInv, WeightInv, [Next]_vars PROVE WeightInv'
  OBVIOUS
<1> DEFINE Busy == {"sending", "logging", "crediting", "adding"}
<1>1. /\ \A u \in Users : Weighted(row[u])' /\ (HasVector(u) => HasVector(u)')
      /\ \A u \in Users : Weighted(row[u]) /\ Weighted(read[u]) /\ Weighted(press[u].read)
  BY VectorsKept DEF WeightInv
<1>2. Weighted(NoRow) /\ Weighted(NoPress.read) /\ NoPress.phase = "idle"
  BY DEF NoRow, NoPress, Weighted
<1>3. /\ todo \subseteq Users /\ sent \subseteq Users \X Items
      /\ read \in [Users -> Row]
      /\ press \in [Users -> Presses]
      /\ phase \in Busy => target \in Users
  BY DEF TypeInv, TypeOK, Shape, Presses
\* Each of the parts that changes is restored by what its writer had read.
<1>4. ASSUME \A u \in Users : Weighted(read[u])',
             \A u \in todo' : u \in Users /\ HasVector(u),
             phase' \in Busy => target' \in Users /\ HasVector(target'),
             \A pair \in sent' : pair[1] \in Users /\ HasVector(pair[1]),
             \A u \in Users : Weighted(press[u].read)',
             \A u \in Users : press'[u].phase # "idle" => HasVector(u),
             \A u \in Users : press'[u].phase = "merging" => press'[u].read.vec # {}
      PROVE  WeightInv'
  BY <1>1, <1>4 DEF WeightInv
<1>5. ASSUME UNCHANGED <<read, todo, phase, target, sent, press>> PROVE WeightInv'
  BY <1>1, <1>3, <1>5 DEF WeightInv, HasVector
<1>6. CASE Consumer
  <2>1. ASSUME NEW i \in Items, Capture(i) PROVE WeightInv'
    <3>1. \A u \in Users : Weighted(read[u])'
      BY <1>1, <1>3, <2>1 DEF Capture
    <3>2. phase' \notin Busy /\ UNCHANGED <<todo, target, sent, press>>
      BY <2>1 DEF Capture, buttons, history
    <3>3. QED
      BY <1>1, <1>3, <1>4, <3>1, <3>2 DEF WeightInv
  <2>2. CASE Learn
    <3>1. phase' \notin Busy /\ UNCHANGED <<read, todo, target, sent, press>>
      BY <2>2 DEF Learn, buttons, history
    <3>2. QED
      BY <1>1, <1>3, <1>4, <3>1 DEF WeightInv
  <2>3. CASE ListAudience
    <3>1. /\ phase' \notin Busy /\ UNCHANGED <<target, sent, press>>
          /\ \A u \in todo' : u \in Users /\ HasVector(u)
          /\ \A u \in Users : read'[u] \in {row[u], NoRow}
      BY <2>3 DEF ListAudience, buttons, HasVector
    <3>2. \A u \in Users : Weighted(read[u])'
      BY <1>1, <1>2, <3>1
    <3>3. QED
      BY <1>1, <1>3, <1>4, <3>1, <3>2 DEF WeightInv
  <2>4. ASSUME NEW u \in Users, Seen(u) PROVE \A v \in Users : Weighted(read[v])'
    BY <1>1, <1>2, <1>3, <2>4 DEF Seen
  <2>5. ASSUME NEW u \in Users, NEW score \in Scores, Consider(u, score) PROVE WeightInv'
    <3>1. Seen(u) /\ UNCHANGED <<sent, press>>
      BY <2>5 DEF Consider, BelowThreshold, PassOver, Interrupt, buttons, history
    <3>2. \/ UNCHANGED <<phase, target>>
          \/ phase' = "sending" /\ target' = u
      <4>1. CASE BelowThreshold(u, score)
        BY <4>1 DEF BelowThreshold
      <4>2. CASE PassOver(u, score)
        BY <4>2 DEF PassOver
      <4>3. CASE Interrupt(u, score)
        BY <4>3 DEF Interrupt
      <4>4. QED
        BY <2>5, <4>1, <4>2, <4>3 DEF Consider
    <3>3. phase = "each" /\ u \in todo
      BY <2>5 DEF Consider
    <3>4. \A v \in Users : Weighted(read[v])'
      BY <2>4, <3>1
    <3>5. \A v \in todo' : v \in Users /\ HasVector(v)
      BY <1>3, <3>1 DEF Seen, WeightInv
    <3>6. QED
      BY <1>1, <1>3, <1>4, <3>1, <3>2, <3>3, <3>4, <3>5 DEF WeightInv
  <2>6. CASE Send
    <3>1. /\ UNCHANGED <<read, todo, target, press>>
          /\ phase = "sending" /\ sent' = sent \cup {<<target, item>>}
      BY <2>6 DEF Send, buttons
    <3>2. \A pair \in sent' : pair[1] \in Users /\ HasVector(pair[1])
      BY <1>3, <3>1 DEF WeightInv
    <3>3. QED
      BY <1>1, <1>3, <1>4, <3>1, <3>2 DEF WeightInv
  <2>7. CASE SendFails \/ LogSent
    <3>1. phase \in Busy /\ UNCHANGED <<read, todo, target, sent, press>>
      BY <2>7 DEF SendFails, LogSent, buttons, history
    <3>2. QED
      BY <1>1, <1>3, <1>4, <3>1 DEF WeightInv
  <2>8. CASE ReadForCredit
    <3>1. /\ phase \in Busy /\ UNCHANGED <<todo, target, sent, press>>
          /\ read' = [read EXCEPT ![target] = row[target]]
      BY <2>8 DEF ReadForCredit, buttons, history
    <3>2. \A u \in Users : Weighted(read[u])'
      BY <1>1, <1>3, <3>1
    <3>3. QED
      BY <1>1, <1>3, <1>4, <3>1, <3>2 DEF WeightInv
  <2>9. CASE Credit
    <3>1. phase' \notin Busy /\ Seen(target) /\ target \in Users /\ UNCHANGED <<sent, press>>
      BY <1>3, <2>9 DEF Credit, buttons, history
    <3>2. \A v \in Users : Weighted(read[v])'
      BY <2>4, <3>1
    <3>3. todo' \subseteq todo
      BY <3>1 DEF Seen
    <3>4. QED
      BY <1>1, <1>3, <1>4, <3>1, <3>2, <3>3 DEF WeightInv
  <2>10. CASE FinishRun \/ RunFails
    <3>1. \E left \in SUBSET todo : EndRun(left)
      BY <2>10 DEF FinishRun, RunFails
    <3>2. UNCHANGED <<sent, press>>
      BY <2>10 DEF FinishRun, RunFails, buttons
    <3>3. /\ phase' \notin Busy /\ todo' = {}
          /\ \A u \in Users : read'[u] = NoRow
      BY <3>1 DEF EndRun
    <3>4. QED
      BY <1>1, <1>2, <1>3, <1>4, <3>2, <3>3 DEF WeightInv
  <2>11. QED
    BY <1>6, <2>1, <2>2, <2>3, <2>5, <2>6, <2>7, <2>8, <2>9, <2>10 DEF Consumer
<1>7. CASE Button
  <2>1. UNCHANGED <<read, todo, phase, target, sent>>
    <3>1. ASSUME NEW u \in Users, NEW i \in Items, Dismiss(u, i)
          PROVE  UNCHANGED <<consumer, sent>>
      BY <3>1 DEF Dismiss
    <3>2. ASSUME NEW u \in Users, ReadForDismissal(u) PROVE UNCHANGED <<consumer, sent>>
      BY <3>2 DEF ReadForDismissal, history
    <3>3. ASSUME NEW u \in Users, PushAway(u) PROVE UNCHANGED <<consumer, sent>>
      BY <3>3 DEF PushAway, history
    <3>4. UNCHANGED <<consumer, sent>>
      BY <1>7, <3>1, <3>2, <3>3 DEF Button
    <3>5. QED
      BY <3>4 DEF consumer
  \* What the button holds is the row as it is, or nothing, or what it held.
  <2>2. ASSUME NEW u \in Users, HasVector(u), NEW new, press' = [press EXCEPT ![u] = new],
               Weighted(new.read), new.phase = "merging" => new.read.vec # {}
        PROVE  WeightInv'
    <3>1. \A v \in Users : press'[v] = IF v = u THEN new ELSE press[v]
      BY <1>3, <2>2
    <3>2. QED
      BY <1>1, <1>3, <1>4, <2>1, <2>2, <3>1 DEF WeightInv
  <2>3. ASSUME NEW u \in Users, NEW i \in Items, Dismiss(u, i) PROVE WeightInv'
    <3> DEFINE new == [press[u] EXCEPT !.phase = "reading", !.item = i]
    <3>1. HasVector(u) /\ press' = [press EXCEPT ![u] = new]
      BY <2>3 DEF Dismiss, WeightInv
    <3>2. new.read = press[u].read /\ new.phase = "reading"
      BY <1>3 DEF Presses
    <3> HIDE DEF new
    <3>3. QED
      BY <1>1, <2>2, <3>1, <3>2
  <2>4. ASSUME NEW u \in Users, ReadForDismissal(u) PROVE WeightInv'
    <3> DEFINE new == [press[u] EXCEPT !.phase = "merging", !.read = row[u]]
    <3>1. HasVector(u) /\ press' = [press EXCEPT ![u] = new]
      BY <2>4 DEF ReadForDismissal, WeightInv
    <3>2. new.read = row[u]
      BY <1>3 DEF Presses
    <3>3. Weighted(new.read) /\ new.read.vec # {}
      BY <1>1, <3>1, <3>2 DEF HasVector
    <3> HIDE DEF new
    <3>4. QED
      BY <2>2, <3>1, <3>3
  <2>5. ASSUME NEW u \in Users, PushAway(u) PROVE WeightInv'
    <3>1. HasVector(u) /\ press' = [press EXCEPT ![u] = NoPress]
      BY <2>5 DEF PushAway, WeightInv
    <3>2. QED
      BY <1>2, <2>2, <3>1
  <2>6. QED
    BY <1>7, <2>3, <2>4, <2>5 DEF Button
<1>8. CASE Calibrate
  <2>1. UNCHANGED <<consumer, press, history>>
    BY <1>8 DEF Calibrate, Sweep, SweepNext, CountDismissals, ReadThreshold, Raise,
                CalibrationFails
  <2>2. QED
    BY <1>5, <2>1 DEF consumer, history
<1>9. CASE Others
  <2>1. CASE Restart
    <3>1. /\ EndRun(todo) /\ UNCHANGED sent
          /\ press' = [u \in Users |-> NoPress]
      BY <2>1 DEF Restart
    <3>2. /\ phase' \notin Busy /\ todo' = {}
          /\ \A u \in Users : read'[u] = NoRow /\ press'[u] = NoPress
      BY <3>1 DEF EndRun
    <3>3. QED
      BY <1>2, <1>3, <1>4, <3>1, <3>2 DEF WeightInv
  <2>2. CASE ~Restart
    <3>1. UNCHANGED <<read, todo, phase, target, sent, press>>
      BY <1>9, <2>2 DEF Others, ThresholdCommand, MuteCommand, MuteExpires,
                        DismissalAges, consumer, history, buttons
    <3>2. QED
      BY <1>5, <3>1
  <2>3. QED
    BY <2>1, <2>2
<1>10. CASE UNCHANGED vars
  BY <1>5, <1>10 DEF vars, consumer, history, buttons
<1>11. QED
  BY <1>6, <1>7, <1>8, <1>9, <1>10 DEF Next

\* WeightInv holds throughout, with the types.
LEMMA WeightInvariant == Spec => [](TypeInv /\ WeightInv)
<1>1. Init => TypeInv /\ WeightInv
  BY TypeInit, WeightInit
<1>2. TypeInv /\ WeightInv /\ [Next]_vars => (TypeInv /\ WeightInv)'
  BY TypeStep, WeightStep
<1>3. QED
  BY <1>1, <1>2, PTL DEF Spec

\* A vector in the table always has weight, however the reads and writes of
\* apply_signal interleave (db/taste.rs, weighted_update).
THEOREM VectorsHaveWeight == Spec => []VectorHasWeight
<1>1. WeightInv => VectorHasWeight
  BY DEF WeightInv, Weighted, VectorHasWeight
<1>2. QED
  BY <1>1, WeightInvariant, PTL

\* A run leaves a user of its audience unlooked at only when an error or a
\* restart ended it (scorer/relevance.rs, run_inner).
THEOREM NobodyIsSkipped == Spec => []NobodySkipped
<1> DEFINE Inv == TypeInv /\ NobodySkipped
<1>1. Init => Inv
  BY TypeInit DEF Init, NobodySkipped
<1>2. ASSUME Inv, [Next]_vars PROVE NobodySkipped'
  <2>1. CASE Restart
    <3>1. item = "nothing" => todo = {}
      BY <1>2 DEF TypeInv, Shape
    <3>2. QED
      BY <1>2, <2>1, <3>1 DEF Restart, EndRun, NobodySkipped
  <2>2. CASE RunFails
    BY <1>2, <2>2 DEF RunFails, EndRun, NobodySkipped
  <2>3. CASE FinishRun
    BY <1>2, <2>3 DEF FinishRun, EndRun, NobodySkipped
  <2>4. CASE ~Restart /\ ~RunFails /\ ~FinishRun
    <3>1. ASSUME NEW u \in Users, NEW score \in Scores, Consider(u, score)
          PROVE  UNCHANGED <<unseen, cut>>
      BY <3>1 DEF Consider, BelowThreshold, PassOver, Interrupt, history
    <3>2. Consumer => UNCHANGED <<unseen, cut>>
      BY <2>4, <3>1 DEF Consumer, Capture, Learn, ListAudience, Send, SendFails, LogSent,
                        ReadForCredit, Credit, history
    <3>3. Button => UNCHANGED <<unseen, cut>>
      BY DEF Button, Dismiss, ReadForDismissal, PushAway, history
    <3>4. Calibrate => UNCHANGED <<unseen, cut>>
      BY DEF Calibrate, Sweep, SweepNext, CountDismissals, ReadThreshold, Raise,
             CalibrationFails, history
    <3>5. Others => UNCHANGED <<unseen, cut>>
      BY <2>4 DEF Others, ThresholdCommand, MuteCommand, MuteExpires, DismissalAges,
                  history
    <3>6. UNCHANGED <<unseen, cut>>
      BY <1>2, <3>2, <3>3, <3>4, <3>5 DEF Next, vars, history
    <3>7. QED
      BY <1>2, <3>6 DEF NobodySkipped
  <2>5. QED
    BY <2>1, <2>2, <2>3, <2>4
<1>3. Inv /\ [Next]_vars => Inv'
  BY <1>2, TypeStep
<1>4. QED
  BY <1>1, <1>3, PTL DEF Spec

\* A dismissal writes back the vector that it read or nothing, so it never
\* moves a taste towards the item it rejects (apply_signal, bot/callbacks.rs).
THEOREM DismissalsKeepVectors == Spec => DismissalKeepsVector
<1> DEFINE Kept(u) == press[u].phase = "merging" /\ press'[u].phase = "idle"
                      => row'[u].vec \in {row[u].vec, press[u].read.vec}
<1>1. ASSUME TypeInv, WeightInv, [Next]_vars, NEW u \in Users PROVE Kept(u)
  <2>1. press \in [Users -> Presses] /\ row \in [Users -> Row]
    BY <1>1 DEF TypeInv, TypeOK, Presses
  <2>2. CASE PushAway(u)
    <3> DEFINE r == press[u].read
               i == press[u].item
    <3>1. row' = row \/ Upsert(u, r, i, FALSE, {i}, 0)
      BY <2>2 DEF PushAway
    <3>2. r \in Row /\ i \in Items /\ r.vec # {} /\ r.weight
      <4>1. press[u].phase = "merging"
        BY <2>2 DEF PushAway
      <4>2. QED
        BY <1>1, <2>1, <4>1 DEF Presses, WeightInv, Weighted, TypeInv, Shape
    <3> HIDE DEF r, i
    <3>3. CASE Upsert(u, r, i, FALSE, {i}, 0)
      <4>1. {i} \in SUBSET Items
        BY <3>2
      <4>2. Written(u, r, i, FALSE, {i})
        BY <2>1, <3>2, <3>3, <4>1, UpsertRow
      <4>3. row'[u].vec = r.vec
        BY <3>2, <4>2 DEF Written, WeightedUpdate
      <4>4. QED
        BY <4>3 DEF r
    <3>4. QED
      BY <3>1, <3>3
  <2>3. CASE Restart
    BY <2>3 DEF Restart, tables
  <2>4. CASE press'[u].phase = press[u].phase
    BY <2>4
  <2>5. CASE Button
    <3>1. ASSUME NEW v \in Users, PushAway(v), v # u PROVE press'[u] = press[u]
      BY <2>1, <3>1 DEF PushAway
    <3>2. ASSUME NEW v \in Users, ReadForDismissal(v)
          PROVE  press[u].phase # "merging" \/ press'[u] = press[u]
      BY <2>1, <3>2 DEF ReadForDismissal, Presses
    <3>3. ASSUME NEW v \in Users, NEW i \in Items, Dismiss(v, i)
          PROVE  press[u].phase # "merging" \/ press'[u] = press[u]
      BY <2>1, <3>3 DEF Dismiss, Presses
    <3>4. QED
      BY <2>2, <2>4, <2>5, <3>1, <3>2, <3>3 DEF Button
  <2>6. CASE UNCHANGED press
    BY <2>4, <2>6
  <2>7. UNCHANGED press \/ Button \/ Restart
    <3>1. Consumer => UNCHANGED press
      <4>1. ASSUME NEW v \in Users, NEW score \in Scores, Consider(v, score)
            PROVE  UNCHANGED press
        BY <4>1 DEF Consider, BelowThreshold, PassOver, Interrupt, buttons
      <4>2. QED
        BY <4>1 DEF Consumer, Capture, Learn, ListAudience, Send, SendFails, LogSent,
                    ReadForCredit, Credit, FinishRun, RunFails, buttons
    <3>2. Calibrate => UNCHANGED press
      BY DEF Calibrate, Sweep, SweepNext, CountDismissals, ReadThreshold, Raise,
             CalibrationFails
    <3>3. Others => UNCHANGED press \/ Restart
      BY DEF Others, ThresholdCommand, MuteCommand, MuteExpires, DismissalAges, buttons
    <3>4. QED
      BY <1>1, <3>1, <3>2, <3>3 DEF Next, vars, buttons
  <2>8. QED
    BY <2>3, <2>5, <2>6, <2>7
<1>2. TypeInv /\ WeightInv /\ [Next]_vars => [\A u \in Users : Kept(u)]_vars
  BY <1>1
<1>3. QED
  BY <1>2, WeightInvariant, PTL DEF Spec, DismissalKeepsVector
-----------------------------------------------------------------------------
\* Between two listings, whoever mutes is late.
MuteInv ==
    /\ \A u \in todo : row[u].muted => read[u].muted \/ u \in late
    /\ phase = "sending" /\ row[target].muted => target \in late

\* A row turns muted under /mute alone.
LEMMA MutedRow ==
    ASSUME TypeInv, [Next]_vars, NEW u \in Users
    PROVE  row'[u].muted => row[u].muted \/ u \in late'
<1>1. row \in [Users -> Row] /\ read \in [Users -> Row]
      /\ \A v \in Users : press[v].read \in Row
  BY DEF TypeInv, TypeOK
<1>2. CASE row' = row
  BY <1>2
<1>3. ASSUME NEW v \in Users, NEW r \in Row, NEW i \in Items, NEW p \in BOOLEAN,
             NEW tags \in SUBSET Items, NEW count \in Nat, Upsert(v, r, i, p, tags, count)
      PROVE  row'[u].muted = row[u].muted
  <2>1. Written(v, r, i, p, tags)
    BY <1>1, <1>3, UpsertRow
  <2>2. QED
    BY <2>1 DEF Written
<1>4. CASE Learned
  <2>1. SharedBy[item] \in Users /\ read[SharedBy[item]] \in Row /\ item \in Items
        /\ {item} \in SUBSET Items /\ 1 \in Nat /\ TRUE \in BOOLEAN
        /\ Upsert(SharedBy[item], read[SharedBy[item]], item, TRUE, {item}, 1)
    BY <1>1, <1>4 DEF Learned
  <2>2. QED
    BY <1>3, <2>1
<1>5. CASE Credited
  <2>1. target \in Users /\ read[target] \in Row /\ item \in Items
        /\ {} \in SUBSET Items /\ 0 \in Nat /\ TRUE \in BOOLEAN
        /\ Upsert(target, read[target], item, TRUE, {}, 0)
    BY <1>1, <1>5 DEF Credited
  <2>2. QED
    BY <1>3, <2>1
<1>6. ASSUME NEW v \in Users, Dismissed(v) PROVE row'[u].muted = row[u].muted
  <2>1. press[v].read \in Row /\ press[v].item \in Items
        /\ {press[v].item} \in SUBSET Items /\ 0 \in Nat /\ FALSE \in BOOLEAN
        /\ Upsert(v, press[v].read, press[v].item, FALSE, {press[v].item}, 0)
    BY <1>1, <1>6 DEF Dismissed
  <2>2. QED
    BY <1>3, <2>1
<1>7. ASSUME NEW v \in Users, Unmuted(v) PROVE row'[u].muted => row[u].muted
  BY <1>1, <1>7, UnmutedRow
<1>8. ASSUME NEW v \in Users, NEW t \in Scores, SetThreshold(v, t)
      PROVE  row'[u].muted = row[u].muted
  <2>1. /\ u # v => row'[u] = row[u]
        /\ \A f \in {"vec", "weight", "muted", "liked", "disliked"} : row'[v][f] = row[v][f]
    BY <1>1, <1>8, SetThresholdRow
  <2>2. row'[v].muted = row[v].muted
    BY <2>1
  <2>3. QED
    BY <2>1, <2>2
<1>9. ASSUME NEW v \in Users, NEW t \in Scores, ThresholdCommand(v, t)
      PROVE  row'[u].muted = row[u].muted
  BY <1>8, <1>9 DEF ThresholdCommand
<1>10. ASSUME NEW c \in Calibrators, Raise(c) PROVE row'[u].muted = row[u].muted
  BY <1>8, <1>10, RaiseRow
<1>11. ASSUME NEW v \in Users, NEW m \in BOOLEAN, MuteCommand(v, m)
       PROVE  row'[u].muted => row[u].muted \/ u \in late'
  <2>1. /\ u # v => row'[u] = row[u]
        /\ row'[v].muted = m
    BY <1>1, <1>11, SetMuteRow DEF MuteCommand
  <2>2. late' = IF m THEN late \cup {v} ELSE late
    BY <1>11 DEF MuteCommand
  <2>3. QED
    BY <2>1, <2>2
<1>12. QED
  BY <1>2, <1>4, <1>5, <1>6, <1>7, <1>9, <1>10, <1>11, RowSteps

\* Every step keeps MuteInv.
LEMMA MuteStep == TypeInv /\ MuteInv /\ [Next]_vars => MuteInv'
<1> SUFFICES ASSUME TypeInv, MuteInv, [Next]_vars PROVE MuteInv'
  OBVIOUS
<1>1. \A u \in Users : row'[u].muted => row[u].muted \/ u \in late'
  BY MutedRow
<1>2. todo \subseteq Users /\ read \in [Users -> Row] /\ row \in [Users -> Row]
      /\ (phase = "sending" => target \in Users)
  BY DEF TypeInv, TypeOK, Shape
\* The part of a run that goes on: fewer to do, and what was read of them.
<1>3. ASSUME late \subseteq late',
             todo' \subseteq todo, \A u \in todo' : read'[u] = read[u],
             phase' = "sending" =>
                 \/ phase = "sending" /\ target' = target
                 \/ target' \in todo /\ ~read[target'].muted
      PROVE  MuteInv'
  <2>1. \A u \in todo' : row'[u].muted => read'[u].muted \/ u \in late'
    BY <1>1, <1>2, <1>3 DEF MuteInv
  <2>2. phase' = "sending" /\ row'[target'].muted => target' \in late'
    BY <1>1, <1>2, <1>3 DEF MuteInv
  <2>3. QED
    BY <2>1, <2>2 DEF MuteInv
<1>4. ASSUME todo' = {}, phase' # "sending" PROVE MuteInv'
  BY <1>4 DEF MuteInv
<1>5. CASE Consumer
  <2>1. ASSUME NEW i \in Items, Capture(i) PROVE MuteInv'
    <3>1. todo = {}
      BY <2>1 DEF Capture, TypeInv, Shape
    <3>2. QED
      BY <1>4, <2>1, <3>1 DEF Capture
  <2>2. CASE Learn
    BY <1>3, <2>2 DEF Learn, history
  <2>3. CASE ListAudience
    <3>1. \A u \in todo' : read'[u] = row'[u]
      BY <1>2, <2>3 DEF ListAudience, tables
    <3>2. phase' # "sending"
      BY <2>3 DEF ListAudience
    <3>3. QED
      BY <3>1, <3>2 DEF MuteInv
  <2>4. ASSUME NEW u \in Users, Seen(u)
        PROVE  todo' \subseteq todo /\ \A v \in todo' : read'[v] = read[v]
    BY <1>2, <2>4 DEF Seen
  <2>5. ASSUME NEW u \in Users, NEW score \in Scores, Consider(u, score) PROVE MuteInv'
    <3>1. Seen(u) /\ UNCHANGED late
      BY <2>5 DEF Consider, BelowThreshold, PassOver, Interrupt, history
    <3>2. phase = "each" /\ u \in todo
      BY <2>5 DEF Consider
    <3>3. phase' = "sending" => target' = u /\ ~read[u].muted
      <4>1. CASE BelowThreshold(u, score)
        BY <3>2, <4>1 DEF BelowThreshold
      <4>2. CASE PassOver(u, score)
        BY <3>2, <4>2 DEF PassOver
      <4>3. CASE Interrupt(u, score)
        BY <4>3 DEF Interrupt
      <4>4. QED
        BY <2>5, <4>1, <4>2, <4>3 DEF Consider
    <3>4. QED
      BY <1>3, <2>4, <3>1, <3>2, <3>3
  <2>6. CASE Send \/ SendFails
    <3>1. phase' # "sending" /\ UNCHANGED <<late, todo, read>>
      BY <2>6 DEF Send, SendFails, history
    <3>2. QED
      BY <1>3, <3>1
  <2>7. CASE LogSent
    BY <1>3, <2>7 DEF LogSent, history
  <2>8. CASE ReadForCredit
    <3>1. /\ phase' # "sending" /\ UNCHANGED <<late, todo, row>>
          /\ \A u \in todo : read'[u] \in {read[u], row[u]}
      BY <1>2, <2>8 DEF ReadForCredit, history, tables
    <3>2. QED
      BY <3>1 DEF MuteInv
  <2>9. CASE Credit
    <3>1. Seen(target) /\ phase' # "sending" /\ UNCHANGED late /\ target \in Users
      BY <2>9 DEF Credit, history, TypeInv, Shape
    <3>2. QED
      BY <1>3, <2>4, <3>1
  <2>10. CASE FinishRun \/ RunFails
    BY <1>4, <2>10 DEF FinishRun, RunFails, EndRun
  <2>11. QED
    BY <1>5, <2>1, <2>2, <2>3, <2>5, <2>6, <2>7, <2>8, <2>9, <2>10 DEF Consumer
<1>6. CASE UNCHANGED <<todo, read, phase, target>> /\ late \subseteq late'
  BY <1>3, <1>6
<1>7. CASE Button
  BY <1>6, <1>7 DEF Button, Dismiss, ReadForDismissal, PushAway, consumer, history
<1>8. CASE Calibrate
  <2>1. UNCHANGED <<consumer, history>>
    BY <1>8 DEF Calibrate, Sweep, SweepNext, CountDismissals, ReadThreshold, Raise,
                CalibrationFails
  <2>2. QED
    BY <1>6, <2>1 DEF consumer, history
<1>9. CASE Others
  <2>1. CASE Restart
    BY <1>4, <2>1 DEF Restart, EndRun
  <2>2. CASE ~Restart
    <3>1. UNCHANGED consumer /\ late \subseteq late'
      BY <1>9, <2>2 DEF Others, ThresholdCommand, MuteCommand, MuteExpires,
                        DismissalAges, history
    <3>2. QED
      BY <1>6, <3>1 DEF consumer
  <2>3. QED
    BY <2>1, <2>2
<1>10. CASE UNCHANGED vars
  BY <1>6, <1>10 DEF vars, consumer, history
<1>11. QED
  BY <1>5, <1>7, <1>8, <1>9, <1>10 DEF Next

\* MuteInv holds throughout, with the types.
LEMMA MuteInvariant == Spec => [](TypeInv /\ MuteInv)
<1>1. Init => TypeInv /\ MuteInv
  BY TypeInit DEF Init, MuteInv
<1>2. TypeInv /\ MuteInv /\ [Next]_vars => (TypeInv /\ MuteInv)'
  BY TypeStep, MuteStep
<1>3. QED
  BY <1>1, <1>2, PTL DEF Spec

\* A muted user is interrupted only by a run that had listed its audience
\* before the mute (run_inner, set_mute).
THEOREM MutesHoldForLaterRuns == Spec => MuteHoldsForLaterRuns
<1> DEFINE Told(u) == row[u].muted /\ <<u, item>> \in sent' \ sent => u \in late
<1>1. ASSUME TypeInv, MuteInv, [Next]_vars, NEW u \in Users PROVE Told(u)
  <2>1. CASE Send
    <3>1. <<u, item>> \in sent' \ sent => u = target
      BY <2>1 DEF Send
    <3>2. QED
      BY <1>1, <2>1, <3>1 DEF Send, MuteInv
  <2>2. CASE ~Send
    <3>1. ASSUME NEW v \in Users, NEW score \in Scores, Consider(v, score)
          PROVE  UNCHANGED sent
      BY <3>1 DEF Consider, BelowThreshold, PassOver, Interrupt, history
    <3>2. Consumer => UNCHANGED sent
      BY <2>2, <3>1 DEF Consumer, Capture, Learn, ListAudience, SendFails, LogSent,
                        ReadForCredit, Credit, FinishRun, RunFails, history
    <3>3. Button => UNCHANGED sent
      BY DEF Button, Dismiss, ReadForDismissal, PushAway, history
    <3>4. Calibrate => UNCHANGED sent
      BY DEF Calibrate, Sweep, SweepNext, CountDismissals, ReadThreshold, Raise,
             CalibrationFails, history
    <3>5. Others => UNCHANGED sent
      BY DEF Others, ThresholdCommand, MuteCommand, MuteExpires, DismissalAges, Restart,
             history
    <3>6. UNCHANGED sent
      BY <1>1, <3>2, <3>3, <3>4, <3>5 DEF Next, vars, history
    <3>7. QED
      BY <3>6
  <2>3. QED
    BY <2>1, <2>2
<1>2. TypeInv /\ MuteInv /\ [Next]_vars => [\A u \in Users : Told(u)]_vars
  BY <1>1
<1>3. QED
  BY <1>2, MuteInvariant, PTL DEF Spec, MuteHoldsForLaterRuns
-----------------------------------------------------------------------------
\* A signal in a row is an item of its vector, or a tag of one of its lists.
LEMMA TaughtParts ==
    ASSUME NEW r \in Row, NEW signal
    PROVE  signal \in Taught(r) <=>
               \E t \in Items :
                   \/ signal = <<t, "vec">> /\ t \in r.vec
                   \/ signal = <<t, "liked">> /\ r.liked[t] > 0
                   \/ signal = <<t, "disliked">> /\ r.disliked[t] > 0
<1>1. r.vec \subseteq Items
  BY DEF Row
<1>2. QED
  BY <1>1 DEF Taught, Listed

\* A writer that read the tastes of the row as they are only adds to them, but
\* for the oldest tag of a full list.
LEMMA WrittenTaught ==
    ASSUME row \in [Users -> Row], row' \in [Users -> Row],
           NEW u \in Users, NEW r \in Row, NEW i \in Items,
           NEW positive \in BOOLEAN, NEW tags \in SUBSET Items,
           Written(u, r, i, positive, tags), Weighted(r), Taste(r) = Taste(row[u])
    PROVE  \A signal \in Taught(row[u]) \ Taught(row'[u]) : Oldest(row[u], signal)
<1>1. r.vec = row[u].vec /\ r.liked = row[u].liked /\ r.disliked = row[u].disliked
  BY DEF Taste
<1>2. r.vec \subseteq row'[u].vec
  BY DEF Written, WeightedUpdate, Weighted
<1>3. r.liked \in TagLists /\ r.disliked \in TagLists
  BY DEF Row
<1>4. \A t \in Items : /\ r.liked[t] > 0 /\ r.liked[t] # MaxTags => row'[u].liked[t] > 0
                       /\ r.disliked[t] > 0 /\ r.disliked[t] # MaxTags
                          => row'[u].disliked[t] > 0
  <2>1. /\ row'[u].liked \in {r.liked, MergeTags(r.liked, tags)}
        /\ row'[u].disliked \in {r.disliked, MergeTags(r.disliked, tags)}
    BY DEF Written
  <2>2. QED
    BY <1>3, <2>1, MergedTags
<1>5. ASSUME NEW signal \in Taught(row[u]), signal \notin Taught(row'[u])
      PROVE  Oldest(row[u], signal)
  <2>1. row[u] \in Row /\ row'[u] \in Row
    OBVIOUS
  <2>2. PICK t \in Items : \/ signal = <<t, "vec">> /\ t \in row[u].vec
                           \/ signal = <<t, "liked">> /\ row[u].liked[t] > 0
                           \/ signal = <<t, "disliked">> /\ row[u].disliked[t] > 0
    BY <1>5, <2>1, TaughtParts
  <2>3. /\ signal = <<t, "vec">> => t \notin row'[u].vec
        /\ signal = <<t, "liked">> => ~(row'[u].liked[t] > 0)
        /\ signal = <<t, "disliked">> => ~(row'[u].disliked[t] > 0)
    BY <1>5, <2>1, TaughtParts
  <2>4. \/ signal = <<t, "liked">> /\ row[u].liked[t] = MaxTags
        \/ signal = <<t, "disliked">> /\ row[u].disliked[t] = MaxTags
    BY <1>1, <1>2, <1>4, <2>2, <2>3
  <2>5. QED
    BY <2>4 DEF Oldest
<1>6. QED
  BY <1>5

\* A signal disappears from a row only under a writer that had read the row
\* before somebody else wrote it, or as the oldest tag of a full list
\* (apply_signal, merge_tags).
THEOREM SignalsLostOnlyToOverlap == Spec => LostOnlyToOverlap
<1> DEFINE Lost(u) == \A signal \in Taught(row[u]) \ Taught(row[u])' :
                          Oldest(row[u], signal) \/ Overlapped(u)
<1>1. ASSUME TypeInv, WeightInv, [Next]_vars, NEW u \in Users PROVE Lost(u)
  <2>1. /\ row \in [Users -> Row] /\ read \in [Users -> Row]
        /\ \A v \in Users : press[v].read \in Row
        /\ \A v \in Users : Weighted(read[v]) /\ Weighted(press[v].read)
    BY <1>1 DEF TypeInv, TypeOK, WeightInv
  <2>2. CASE row'[u] = row[u]
    BY <2>2
  <2>3. ASSUME NEW v \in Users, NEW r \in Row, Weighted(r), NEW i \in Items,
               NEW positive \in BOOLEAN, NEW tags \in SUBSET Items, NEW count \in Nat,
               Upsert(v, r, i, positive, tags, count),
               u = v /\ Taste(r) # Taste(row[u]) => Overlapped(u)
        PROVE  Lost(u)
    <3>1. row' \in [Users -> Row] /\ Written(v, r, i, positive, tags)
      BY <2>1, <2>3, UpsertRow
    <3>2. CASE u # v
      BY <2>2, <3>1, <3>2 DEF Written
    <3>3. CASE u = v /\ Taste(r) # Taste(row[u])
      BY <2>3, <3>3
    <3>4. CASE u = v /\ Taste(r) = Taste(row[u])
      <4>1. \A signal \in Taught(row[v]) \ Taught(row'[v]) : Oldest(row[v], signal)
        <5> HIDE DEF Lost
        <5>1. Taste(r) = Taste(row[v])
          BY <3>4
        <5>2. QED
          BY <2>1, <2>3, <3>1, <5>1, WrittenTaught
      <4>2. QED
        BY <3>4, <4>1
    <3>5. QED
      BY <3>2, <3>3, <3>4
  <2>4. CASE Learned
    <3> DEFINE v == SharedBy[item]
    <3>1. /\ v \in Users /\ read[v] \in Row /\ item \in Items /\ {item} \in SUBSET Items
          /\ phase = "learning" /\ Upsert(v, read[v], item, TRUE, {item}, 1)
      BY <2>1, <2>4 DEF Learned
    <3>2. u = v /\ Taste(read[v]) # Taste(row[u]) => Overlapped(u)
      BY <3>1 DEF Overlapped
    <3> HIDE DEF v, Lost
    <3>3. QED
      BY <2>1, <2>3, <3>1, <3>2
  <2>5. CASE Credited
    <3>1. /\ target \in Users /\ read[target] \in Row /\ item \in Items
          /\ {} \in SUBSET Items
          /\ phase = "adding" /\ Upsert(target, read[target], item, TRUE, {}, 0)
      BY <2>1, <2>5 DEF Credited
    <3>2. u = target /\ Taste(read[target]) # Taste(row[u]) => Overlapped(u)
      BY <3>1 DEF Overlapped
    <3> HIDE DEF Lost
    <3>3. QED
      BY <2>1, <2>3, <3>1, <3>2
  <2>6. ASSUME NEW v \in Users, Dismissed(v) PROVE Lost(u)
    <3> DEFINE r == press[v].read
               i == press[v].item
    <3>1. /\ r \in Row /\ Weighted(r) /\ i \in Items /\ {i} \in SUBSET Items
          /\ press[v].phase = "merging" /\ Upsert(v, r, i, FALSE, {i}, 0)
      BY <2>1, <2>6 DEF Dismissed
    <3>2. u = v /\ Taste(r) # Taste(row[u]) => Overlapped(u)
      BY <3>1 DEF Overlapped
    <3> HIDE DEF r, i, Lost
    <3>3. QED
      BY <2>3, <3>1, <3>2
  <2>7. ASSUME NEW v \in Users,
               \/ Unmuted(v)
               \/ \E t \in Scores : SetThreshold(v, t)
               \/ \E m \in BOOLEAN : SetMute(v, m)
        PROVE  Lost(u)
    <3>1. /\ u # v => row'[u] = row[u]
          /\ \A f \in {"vec", "liked", "disliked"} : row'[v][f] = row[v][f]
      BY <2>1, <2>7, UnmutedRow, SetThresholdRow, SetMuteRow
    <3>2. /\ row'[v].vec = row[v].vec /\ row'[v].liked = row[v].liked
          /\ row'[v].disliked = row[v].disliked
      BY <3>1
    <3>3. Taught(row'[v]) = Taught(row[v])
      BY <3>2 DEF Taught
    <3>4. CASE u = v
      BY <3>3, <3>4
    <3>5. QED
      BY <2>2, <3>1, <3>4
  <2>8. ASSUME NEW v \in Users, NEW t \in Scores, ThresholdCommand(v, t)
        PROVE  SetThreshold(v, t)
    BY <2>8 DEF ThresholdCommand
  <2>9. ASSUME NEW v \in Users, NEW m \in BOOLEAN, MuteCommand(v, m) PROVE SetMute(v, m)
    BY <2>9 DEF MuteCommand
  <2>10. ASSUME NEW c \in Calibrators, Raise(c)
         PROVE  \E v \in Users, t \in Scores : SetThreshold(v, t)
    BY <1>1, <2>10, RaiseRow
  <2> HIDE DEF Lost
  <2>11. row' = row => row'[u] = row[u]
    OBVIOUS
  <2>12. QED
    BY <1>1, <2>2, <2>4, <2>5, <2>6, <2>7, <2>8, <2>9, <2>10, <2>11, RowSteps
<1>2. TypeInv /\ WeightInv /\ [Next]_vars => [\A u \in Users : Lost(u)]_vars
  BY <1>1
<1>3. QED
  BY <1>2, WeightInvariant, PTL DEF Spec, LostOnlyToOverlap
-----------------------------------------------------------------------------
\* A row that is not there has its defaults and no copy, and a calibration that
\* goes on to raise has counted a week above the limit.
EarnInv ==
    /\ ThresholdEarned
    /\ \A u \in Users : ~row[u].exists =>
        row[u].threshold = ColumnDefault /\ chosen[u] = DefaultThreshold
    /\ \A u \in Users : read[u].exists \/ press[u].read.exists => row[u].exists
    /\ \A u \in Users : week[u] <= most[u]
    /\ \A c \in Calibrators : calibration[c].phase \in {"reading", "raising"} =>
        most[calibration[c].user] > DismissLimit

\* The part of EarnInv about one row.
Earned(u) ==
    IF row[u].exists THEN row[u].threshold > chosen[u] => most[u] > DismissLimit
    ELSE row[u].threshold = ColumnDefault /\ chosen[u] = DefaultThreshold

\* Nothing is raised at first.
LEMMA EarnInit == Init => EarnInv
BY TasteAssumption DEF Init, EarnInv, ThresholdEarned, NoRow, NoPress, NoCalibration,
                       TasteAssumption

\* The weeks and the records of dismissals.
LEMMA MostStep ==
    ASSUME TypeInv, EarnInv, [Next]_vars
    PROVE  \A u \in Users : week'[u] <= most'[u] /\ most[u] <= most'[u]
<1>1. week \in [Users -> Nat] /\ most \in [Users -> Nat] /\ \A u \in Users : week[u] <= most[u]
  BY DEF TypeInv, TypeOK, EarnInv
<1>2. ASSUME NEW u \in Users, NEW i \in Items, Dismiss(u, i)
      PROVE  \A v \in Users : week'[v] <= most'[v] /\ most[v] <= most'[v]
  <2>1. CASE UNCHANGED <<week, most>>
    BY <1>1, <2>1
  <2>2. CASE /\ week' = [week EXCEPT ![u] = week[u] + 1]
             /\ most' = [most EXCEPT ![u] = IF week'[u] > most[u] THEN week'[u] ELSE most[u]]
    <3>1. week'[u] = week[u] + 1 /\ most'[u] = IF week'[u] > most[u] THEN week'[u] ELSE most[u]
      BY <1>1, <2>2
    <3>2. \A v \in Users : v # u => week'[v] = week[v] /\ most'[v] = most[v]
      BY <1>1, <2>2
    <3>3. week'[u] <= most'[u] /\ most[u] <= most'[u]
      BY <1>1, <3>1
    <3>4. QED
      BY <1>1, <3>2, <3>3
  <2>3. QED
    BY <1>2, <2>1, <2>2 DEF Dismiss
<1>3. ASSUME NEW u \in Users, DismissalAges(u)
      PROVE  \A v \in Users : week'[v] <= most'[v] /\ most[v] <= most'[v]
  <2>1. week[u] > 0 /\ week' = [week EXCEPT ![u] = week[u] - 1] /\ most' = most
    BY <1>3 DEF DismissalAges, history
  <2>2. week'[u] = week[u] - 1 /\ \A v \in Users : v # u => week'[v] = week[v]
    BY <1>1, <2>1
  <2>3. QED
    BY <1>1, <2>1, <2>2
<1>4. CASE UNCHANGED <<week, most>>
  BY <1>1, <1>4
<1>5. Consumer => UNCHANGED <<week, most>>
  <2>1. ASSUME NEW u \in Users, NEW score \in Scores, Consider(u, score)
        PROVE  UNCHANGED <<week, most>>
    BY <2>1 DEF Consider, BelowThreshold, PassOver, Interrupt, tables, history
  <2>2. QED
    BY <2>1 DEF Consumer, Capture, Learn, ListAudience, Send, SendFails, LogSent,
                ReadForCredit, Credit, FinishRun, RunFails, tables, history
<1>6. Button => UNCHANGED <<week, most>> \/ \E u \in Users, i \in Items : Dismiss(u, i)
  BY DEF Button, ReadForDismissal, PushAway, tables, history
<1>7. Calibrate => UNCHANGED <<week, most>>
  BY DEF Calibrate, Sweep, SweepNext, CountDismissals, ReadThreshold, Raise,
         CalibrationFails, tables, history
<1>8. Others => UNCHANGED <<week, most>> \/ \E u \in Users : DismissalAges(u)
  BY DEF Others, ThresholdCommand, MuteCommand, MuteExpires, Restart, tables, history
<1>9. UNCHANGED vars => UNCHANGED <<week, most>>
  BY DEF vars, tables, history
<1>10. QED
  BY <1>2, <1>3, <1>4, <1>5, <1>6, <1>7, <1>8, <1>9 DEF Next

\* A threshold is chosen by its user's command alone.
LEMMA ChosenStep ==
    ASSUME [Next]_vars
    PROVE  UNCHANGED chosen \/ \E u \in Users, t \in Scores : ThresholdCommand(u, t)
<1>1. Consumer => UNCHANGED chosen
  <2>1. ASSUME NEW u \in Users, NEW score \in Scores, Consider(u, score)
        PROVE  UNCHANGED chosen
    BY <2>1 DEF Consider, BelowThreshold, PassOver, Interrupt, history
  <2>2. QED
    BY <2>1 DEF Consumer, Capture, Learn, ListAudience, Send, SendFails, LogSent,
                ReadForCredit, Credit, FinishRun, RunFails, history
<1>2. Button => UNCHANGED chosen
  BY DEF Button, Dismiss, ReadForDismissal, PushAway, history
<1>3. Calibrate => UNCHANGED chosen
  BY DEF Calibrate, Sweep, SweepNext, CountDismissals, ReadThreshold, Raise,
         CalibrationFails, history
<1>4. Others => UNCHANGED chosen \/ \E u \in Users, t \in Scores : ThresholdCommand(u, t)
  BY DEF Others, MuteCommand, MuteExpires, DismissalAges, Restart, history
<1>5. UNCHANGED vars => UNCHANGED chosen
  BY DEF vars, history
<1>6. QED
  BY <1>1, <1>2, <1>3, <1>4, <1>5 DEF Next

\* Whoever writes a row, its threshold stays earned, and it stays there.
LEMMA RowsEarned ==
    ASSUME TypeInv, EarnInv, [Next]_vars, ColumnDefault <= DefaultThreshold
    PROVE  \A u \in Users : Earned(u)' /\ (row[u].exists => row'[u].exists)
<1> SUFFICES ASSUME NEW u \in Users PROVE Earned(u)' /\ (row[u].exists => row'[u].exists)
  OBVIOUS
<1>1. /\ row \in [Users -> Row] /\ read \in [Users -> Row]
      /\ \A v \in Users : press[v].read \in Row
      /\ chosen \in [Users -> Scores] /\ most \in [Users -> Nat]
      /\ most' \in [Users -> Nat]
  BY TypeStep DEF TypeInv, TypeOK
<1>2. /\ Scores \subseteq Nat /\ DismissLimit \in Nat
      /\ ColumnDefault \in Nat /\ DefaultThreshold \in Nat
  BY TasteAssumption DEF TasteAssumption, Scores
<1>3. /\ row[u].threshold \in Nat /\ chosen[u] \in Nat /\ most[u] \in Nat /\ most'[u] \in Nat
      /\ row[u].exists \in BOOLEAN
  BY <1>1, <1>2 DEF Row
<1>4. most[u] <= most'[u]
  BY MostStep
<1>5. Earned(u)
  BY DEF Earned, EarnInv, ThresholdEarned
<1>6. ASSUME row'[u].exists = row[u].exists, row'[u].threshold = row[u].threshold,
             chosen'[u] = chosen[u]
      PROVE  Earned(u)' /\ (row[u].exists => row'[u].exists)
  BY <1>2, <1>3, <1>4, <1>5, <1>6 DEF Earned
<1>7. ASSUME NEW v \in Users, NEW t \in Scores, ThresholdCommand(v, t)
      PROVE  Earned(u)' /\ (row[u].exists => row'[u].exists)
  <2>1. /\ u # v => row'[u] = row[u]
        /\ row'[v].threshold = t /\ row'[v].exists = TRUE
    BY <1>1, <1>7, SetThresholdRow DEF ThresholdCommand
  <2>2. chosen' = [chosen EXCEPT ![v] = t]
    BY <1>7 DEF ThresholdCommand
  <2>3. CASE u = v
    <3>1. chosen'[u] = t /\ t \in Nat
      BY <1>1, <1>2, <2>2, <2>3
    <3>2. QED
      BY <2>1, <2>3, <3>1 DEF Earned
  <2>4. CASE u # v
    BY <1>1, <1>6, <2>1, <2>2, <2>4
  <2>5. QED
    BY <2>3, <2>4
<1>8. CASE chosen' = chosen
  <2>1. CASE row'[u] = row[u]
    BY <1>6, <1>8, <2>1
  <2>2. ASSUME NEW r \in Row, NEW i \in Items, NEW p \in BOOLEAN, NEW tags \in SUBSET Items,
               NEW v \in Users, Written(v, r, i, p, tags), r.exists => row[v].exists
        PROVE  Earned(u)' /\ (row[u].exists => row'[u].exists)
    <3>1. CASE u # v
      BY <2>1, <2>2, <3>1 DEF Written
    <3>2. CASE u = v /\ row[u].exists
      <4>1. row'[u].exists = TRUE /\ row'[u].threshold = row[u].threshold
        BY <2>2, <3>2 DEF Written
      <4>2. QED
        BY <1>3, <1>6, <1>8, <3>2, <4>1
    <3>3. CASE u = v /\ ~row[u].exists
      <4>1. row'[u].exists = TRUE /\ row'[u].threshold = DefaultThreshold
        BY <2>2, <3>3 DEF Written
      <4>2. chosen'[u] = DefaultThreshold
        BY <1>5, <1>8, <3>3 DEF Earned
      <4>3. QED
        BY <1>2, <4>1, <4>2 DEF Earned
    <3>4. QED
      BY <3>1, <3>2, <3>3
  <2>3. \A v \in Users : read[v].exists \/ press[v].read.exists => row[v].exists
    BY DEF EarnInv
  <2>4. CASE Learned
    <3> DEFINE v == SharedBy[item]
    <3>1. /\ v \in Users /\ read[v] \in Row /\ item \in Items /\ {item} \in SUBSET Items
          /\ TRUE \in BOOLEAN
          /\ Upsert(v, read[v], item, TRUE, {item}, 1)
      BY <1>1, <2>4 DEF Learned
    <3> HIDE DEF v
    <3>2. Written(v, read[v], item, TRUE, {item})
      BY <1>1, <3>1, UpsertRow
    <3>3. QED
      BY <2>2, <2>3, <3>1, <3>2
  <2>5. CASE Credited
    <3>1. /\ target \in Users /\ read[target] \in Row /\ item \in Items
          /\ {} \in SUBSET Items /\ TRUE \in BOOLEAN
          /\ Upsert(target, read[target], item, TRUE, {}, 0)
      BY <1>1, <2>5 DEF Credited
    <3>2. Written(target, read[target], item, TRUE, {})
      BY <1>1, <3>1, UpsertRow
    <3>3. QED
      BY <2>2, <2>3, <3>1, <3>2
  <2>6. ASSUME NEW v \in Users, Dismissed(v)
        PROVE  Earned(u)' /\ (row[u].exists => row'[u].exists)
    <3> DEFINE r == press[v].read
               i == press[v].item
    <3>1. /\ r \in Row /\ i \in Items /\ {i} \in SUBSET Items /\ FALSE \in BOOLEAN
          /\ r.exists => row[v].exists
          /\ Upsert(v, r, i, FALSE, {i}, 0)
      BY <1>1, <2>3, <2>6 DEF Dismissed
    <3> HIDE DEF r, i
    <3>2. Written(v, r, i, FALSE, {i})
      BY <1>1, <3>1, UpsertRow
    <3>3. QED
      BY <2>2, <3>1, <3>2
  <2>7. ASSUME NEW v \in Users, Unmuted(v)
        PROVE  Earned(u)' /\ (row[u].exists => row'[u].exists)
    <3>1. /\ u # v => row'[u] = row[u]
          /\ \A f \in {"exists", "vec", "weight", "threshold", "liked", "disliked"} :
                 row'[v][f] = row[v][f]
      BY <1>1, <2>7, UnmutedRow
    <3>2. row'[v].exists = row[v].exists /\ row'[v].threshold = row[v].threshold
      BY <3>1
    <3>3. QED
      BY <1>6, <1>8, <3>1, <3>2
  <2>8. ASSUME NEW v \in Users, NEW m \in BOOLEAN, MuteCommand(v, m)
        PROVE  Earned(u)' /\ (row[u].exists => row'[u].exists)
    <3>1. /\ u # v => row'[u] = row[u]
          /\ row'[v].exists = TRUE
          /\ \A f \in {"vec", "weight", "threshold", "liked", "disliked"} :
                 row'[v][f] = row[v][f]
      BY <1>1, <2>8, SetMuteRow DEF MuteCommand
    <3>2. row'[v].threshold = row[v].threshold
      BY <3>1
    <3>3. CASE u # v
      BY <2>1, <3>1, <3>3
    <3>4. CASE u = v /\ row[u].exists
      BY <1>3, <1>6, <1>8, <3>1, <3>2, <3>4
    <3>5. CASE u = v /\ ~row[u].exists
      <4>1. row'[u].threshold = ColumnDefault /\ chosen'[u] = DefaultThreshold
        BY <1>5, <1>8, <3>2, <3>5 DEF Earned
      <4>2. QED
        BY <1>2, <3>1, <3>5, <4>1 DEF Earned
    <3>6. QED
      BY <3>3, <3>4, <3>5
  <2>9. ASSUME NEW c \in Calibrators, Raise(c)
        PROVE  Earned(u)' /\ (row[u].exists => row'[u].exists)
    <3> DEFINE v == calibration[c].user
               t == calibration[c].threshold
    <3>1. v \in Users /\ t \in Scores /\ SetThreshold(v, t) /\ most[v] > DismissLimit
      BY <2>9, RaiseRow DEF EarnInv, Raise
    <3> HIDE DEF v, t
    <3>2. /\ u # v => row'[u] = row[u]
          /\ row'[v].threshold = t /\ row'[v].exists = TRUE
      BY <1>1, <3>1, SetThresholdRow
    <3>3. CASE u = v
      BY <1>2, <1>3, <1>4, <3>1, <3>2, <3>3 DEF Earned
    <3>4. QED
      BY <2>1, <3>2, <3>3
  <2>10. row' = row => row'[u] = row[u]
    OBVIOUS
  <2>11. QED
    BY <1>7, <2>1, <2>4, <2>5, <2>6, <2>7, <2>8, <2>9, <2>10, RowSteps
<1>9. QED
  BY <1>7, <1>8, ChosenStep

\* The copies of rows come from rows.
LEMMA CopiesKept ==
    ASSUME TypeInv, [Next]_vars, NEW u \in Users
    PROVE  /\ read'[u].exists => read[u].exists \/ row[u].exists
           /\ press'[u].read.exists => press[u].read.exists \/ row[u].exists
<1>1. /\ read \in [Users -> Row] /\ press \in [Users -> Presses] /\ row \in [Users -> Row]
      /\ ~NoRow.exists /\ ~NoPress.read.exists
  BY DEF TypeInv, TypeOK, Presses, NoRow, NoPress
<1>2. Seen(u) => ~read'[u].exists
  BY <1>1 DEF Seen
<1>3. ASSUME NEW v \in Users, Seen(v) PROVE read'[u].exists => read[u].exists
  BY <1>1, <1>3 DEF Seen
<1>4. ASSUME NEW left, EndRun(left) PROVE ~read'[u].exists
  BY <1>1, <1>4 DEF EndRun
<1>5. Consumer => UNCHANGED press
  <2>1. ASSUME NEW v \in Users, NEW score \in Scores, Consider(v, score)
        PROVE  UNCHANGED press
    BY <2>1 DEF Consider, BelowThreshold, PassOver, Interrupt, buttons
  <2>2. QED
    BY <2>1 DEF Consumer, Capture, Learn, ListAudience, Send, SendFails, LogSent,
                ReadForCredit, Credit, FinishRun, RunFails, buttons
<1>6. Consumer => (read'[u].exists => read[u].exists \/ row[u].exists)
  <2>1. ASSUME NEW i \in Items, Capture(i)
        PROVE  read'[u].exists => read[u].exists \/ row[u].exists
    BY <1>1, <2>1 DEF Capture
  <2>2. ASSUME ListAudience PROVE read'[u].exists => row[u].exists
    BY <1>1, <2>2 DEF ListAudience
  <2>3. ASSUME NEW v \in Users, NEW score \in Scores, Consider(v, score)
        PROVE  read'[u].exists => read[u].exists
    <3>1. Seen(v)
      BY <2>3 DEF Consider, BelowThreshold, PassOver, Interrupt
    <3>2. QED
      BY <1>3, <3>1
  <2>4. ASSUME ReadForCredit PROVE read'[u].exists => read[u].exists \/ row[u].exists
    BY <1>1, <2>4 DEF ReadForCredit
  <2>5. ASSUME Credit PROVE read'[u].exists => read[u].exists
    <3>1. Seen(target) /\ target \in Users
      BY <2>5 DEF Credit, TypeInv, Shape
    <3>2. QED
      BY <1>3, <3>1
  <2>6. FinishRun \/ RunFails => ~read'[u].exists
    BY <1>4 DEF FinishRun, RunFails
  <2>7. Learn \/ Send \/ SendFails \/ LogSent => UNCHANGED read
    BY DEF Learn, Send, SendFails, LogSent
  <2>8. QED
    BY <2>1, <2>2, <2>3, <2>4, <2>5, <2>6, <2>7 DEF Consumer
<1>7. Button => UNCHANGED read
  BY DEF Button, Dismiss, ReadForDismissal, PushAway, consumer
<1>8. Button => (press'[u].read.exists => press[u].read.exists \/ row[u].exists)
  <2>1. ASSUME NEW v \in Users, NEW i \in Items, Dismiss(v, i)
        PROVE  press'[u].read = press[u].read
    <3> DEFINE new == [press[v] EXCEPT !.phase = "reading", !.item = i]
    <3>1. press' = [press EXCEPT ![v] = new]
      BY <2>1 DEF Dismiss
    <3>2. new.read = press[v].read
      BY <1>1 DEF Presses
    <3> HIDE DEF new
    <3>3. QED
      BY <1>1, <3>1, <3>2
  <2>2. ASSUME NEW v \in Users, ReadForDismissal(v)
        PROVE  press'[u].read \in {press[u].read, row[u]}
    <3> DEFINE new == [press[v] EXCEPT !.phase = "merging", !.read = row[v]]
    <3>1. press' = [press EXCEPT ![v] = new]
      BY <2>2 DEF ReadForDismissal
    <3>2. new.read = row[v]
      BY <1>1 DEF Presses
    <3> HIDE DEF new
    <3>3. QED
      BY <1>1, <3>1, <3>2
  <2>3. ASSUME NEW v \in Users, PushAway(v) PROVE press'[u] \in {press[u], NoPress}
    BY <1>1, <2>3 DEF PushAway
  <2>4. QED
    BY <1>1, <2>1, <2>2, <2>3 DEF Button
<1>9. Calibrate => UNCHANGED <<read, press>>
  BY DEF Calibrate, Sweep, SweepNext, CountDismissals, ReadThreshold, Raise,
         CalibrationFails, consumer
<1>10. Restart => ~read'[u].exists /\ ~press'[u].read.exists
  BY <1>1, <1>4 DEF Restart
<1>11. Others => UNCHANGED <<read, press>> \/ Restart
  BY DEF Others, ThresholdCommand, MuteCommand, MuteExpires, DismissalAges, consumer,
         buttons
<1>12. UNCHANGED vars => UNCHANGED <<read, press>>
  BY DEF vars, consumer, buttons
<1>13. QED
  BY <1>5, <1>6, <1>7, <1>8, <1>9, <1>10, <1>11, <1>12 DEF Next

\* A calibration goes on only over a week above the limit, and keeps its user.
LEMMA CalibrationsKept ==
    ASSUME TypeInv, EarnInv, [Next]_vars, NEW c \in Calibrators
    PROVE  calibration'[c].phase \in {"reading", "raising"} =>
               most'[calibration'[c].user] > DismissLimit
<1> DEFINE On(r) == r.phase \in {"reading", "raising"} =>
                        r.user \in Users /\ most'[r.user] > DismissLimit
<1>1. /\ calibration \in [Calibrators -> Calibrations]
      /\ \A d \in Calibrators : calibration[d].phase # "idle" => calibration[d].user \in Users
      /\ week \in [Users -> Nat] /\ most \in [Users -> Nat] /\ most' \in [Users -> Nat]
      /\ DismissLimit \in Nat
  BY TypeStep, TasteAssumption DEF TypeInv, TypeOK, Shape, Calibrations, TasteAssumption
<1>2. \A u \in Users : week[u] <= most[u] /\ most[u] <= most'[u]
  BY MostStep DEF EarnInv
<1>3. \A d \in Calibrators : On(calibration[d])
  BY <1>1, <1>2 DEF EarnInv
<1>4. On(NoCalibration)
  BY DEF NoCalibration
<1>5. ASSUME UNCHANGED calibration PROVE On(calibration'[c])
  BY <1>3, <1>5
<1>6. ASSUME NEW d \in Calibrators, NEW new, calibration' = [calibration EXCEPT ![d] = new],
             On(new)
      PROVE  On(calibration'[c])
  <2>1. calibration'[c] = IF c = d THEN new ELSE calibration[c]
    BY <1>1, <1>6
  <2>2. QED
    BY <1>3, <1>6, <2>1
<1>7. ASSUME NEW d \in Calibrators, NEW u \in Users,
             calibration' = [calibration EXCEPT ![d] =
                                [calibration[d] EXCEPT !.phase = "counting", !.user = u]]
      PROVE  On(calibration'[c])
  <2> DEFINE new == [calibration[d] EXCEPT !.phase = "counting", !.user = u]
  <2>1. On(new)
    BY <1>1 DEF Calibrations
  <2>2. calibration' = [calibration EXCEPT ![d] = new]
    BY <1>7
  <2> HIDE DEF new, On
  <2>3. QED
    BY <1>6, <2>1, <2>2
<1>8. ASSUME NEW u \in Users, PushAway(u) PROVE On(calibration'[c])
  BY <1>7, <1>8 DEF PushAway, Calibrators
<1>9. ASSUME NEW u \in Users, SweepNext(u) PROVE On(calibration'[c])
  BY <1>7, <1>9 DEF SweepNext, Calibrators
<1>10. ASSUME NEW d \in Calibrators, CountDismissals(d) PROVE On(calibration'[c])
  <2> DEFINE u == calibration[d].user
             new == IF week[u] > DismissLimit
                    THEN [calibration[d] EXCEPT !.phase = "reading"]
                    ELSE NoCalibration
  <2>1. calibration' = [calibration EXCEPT ![d] = new]
    BY <1>10 DEF CountDismissals
  <2>2. u \in Users
    BY <1>1, <1>10 DEF CountDismissals
  <2>3. On(new)
    <3>1. CASE week[u] > DismissLimit
      <4>1. new.user = u
        BY <1>1, <3>1 DEF Calibrations
      <4> HIDE DEF new, u
      <4>2. week[u] \in Nat /\ most[u] \in Nat /\ most'[u] \in Nat
            /\ week[u] <= most[u] /\ most[u] <= most'[u]
        BY <1>1, <1>2, <2>2
      <4>3. most'[u] > DismissLimit
        BY <1>1, <3>1, <4>2
      <4>4. QED
        BY <2>2, <4>1, <4>3
    <3>2. CASE ~(week[u] > DismissLimit)
      BY <1>4, <3>2
    <3>3. QED
      BY <3>1, <3>2
  <2> HIDE DEF new, On
  <2>4. QED
    BY <1>6, <2>1, <2>3
<1>11. ASSUME NEW d \in Calibrators, ReadThreshold(d) PROVE On(calibration'[c])
  <2> DEFINE r == row[calibration[d].user]
             current == IF r.exists THEN r.threshold ELSE DefaultThreshold
             raising == [calibration[d] EXCEPT !.phase = "raising", !.threshold = current + 1]
             new == IF current = Top THEN NoCalibration ELSE raising
  <2>1. calibration' = [calibration EXCEPT ![d] = new]
    BY <1>11 DEF ReadThreshold
  <2>2. calibration[d].phase = "reading"
    BY <1>11 DEF ReadThreshold
  <2> HIDE DEF current
  <2>3. raising.user = calibration[d].user
    BY <1>1 DEF Calibrations
  <2> HIDE DEF raising
  <2>4. On(raising)
    BY <1>3, <2>2, <2>3
  <2> HIDE DEF On
  <2>5. On(new)
    BY <1>4, <2>4
  <2> HIDE DEF new
  <2>6. QED
    BY <1>6, <2>1, <2>5
<1>12. ASSUME NEW d \in Calibrators, Raise(d) \/ CalibrationFails(d) PROVE On(calibration'[c])
  <2>1. calibration' = [calibration EXCEPT ![d] = NoCalibration]
    BY <1>12 DEF Raise, CalibrationFails
  <2> HIDE DEF On
  <2>2. QED
    BY <1>4, <1>6, <2>1
<1>13. ASSUME Restart PROVE On(calibration'[c])
  <2>1. calibration'[c] = NoCalibration
    BY <1>13 DEF Restart
  <2>2. QED
    BY <1>4, <2>1
<1>14. Consumer => UNCHANGED calibration
  <2>1. ASSUME NEW v \in Users, NEW score \in Scores, Consider(v, score)
        PROVE  UNCHANGED calibration
    BY <2>1 DEF Consider, BelowThreshold, PassOver, Interrupt, buttons
  <2>2. QED
    BY <2>1 DEF Consumer, Capture, Learn, ListAudience, Send, SendFails, LogSent,
                ReadForCredit, Credit, FinishRun, RunFails, buttons
<1>15. Button => UNCHANGED calibration \/ \E u \in Users : PushAway(u)
  BY DEF Button, Dismiss, ReadForDismissal
<1>16. Sweep => UNCHANGED calibration
  BY DEF Sweep
<1>17. Others => UNCHANGED calibration \/ Restart
  BY DEF Others, ThresholdCommand, MuteCommand, MuteExpires, DismissalAges, buttons
<1>18. UNCHANGED vars => UNCHANGED calibration
  BY DEF vars, buttons
<1> HIDE DEF On
<1>19. ASSUME Calibrate PROVE On(calibration'[c])
  BY <1>5, <1>9, <1>10, <1>11, <1>12, <1>16, <1>19 DEF Calibrate
<1>20. On(calibration'[c])
  BY <1>5, <1>8, <1>13, <1>14, <1>15, <1>17, <1>18, <1>19 DEF Next
<1>21. QED
  BY <1>20 DEF On

\* Every step keeps EarnInv.
LEMMA EarnStep ==
    ASSUME ColumnDefault <= DefaultThreshold, TypeInv, EarnInv, [Next]_vars
    PROVE  EarnInv'
<1>1. \A u \in Users : Earned(u)' /\ (row[u].exists => row'[u].exists)
  BY RowsEarned
<1>2. ThresholdEarned'
  BY <1>1 DEF ThresholdEarned, Earned
<1>3. \A u \in Users : ~row'[u].exists =>
          row'[u].threshold = ColumnDefault /\ chosen'[u] = DefaultThreshold
  BY <1>1 DEF Earned
<1>4. \A u \in Users : read'[u].exists \/ press'[u].read.exists => row'[u].exists
  BY <1>1, CopiesKept DEF EarnInv
<1>5. \A u \in Users : week'[u] <= most'[u]
  BY MostStep
<1>6. QED
  BY <1>2, <1>3, <1>4, <1>5, CalibrationsKept DEF EarnInv

\* Unless the column's default is above the configured one, a threshold above the
\* one its user chose was raised for more dismissals in a week than the limit
\* (calibrate_threshold, set_threshold, set_mute).
THEOREM ThresholdsAreEarned ==
    ASSUME ColumnDefault <= DefaultThreshold
    PROVE  Spec => []ThresholdEarned
<1>1. Init => TypeInv /\ EarnInv
  BY TypeInit, EarnInit
<1>2. TypeInv /\ EarnInv /\ [Next]_vars => (TypeInv /\ EarnInv)'
  BY TypeStep, EarnStep
<1>3. EarnInv => ThresholdEarned
  BY DEF EarnInv
<1>4. QED
  BY <1>1, <1>2, <1>3, PTL DEF Spec
=============================================================================
