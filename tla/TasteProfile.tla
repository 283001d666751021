---------------------------- MODULE TasteProfile ----------------------------
(***************************************************************************)
(* The taste profiles (db/taste.rs) and everything that writes them: the   *)
(* ingestion consumer, which learns from a capture and then interrupts     *)
(* the users it may interest (scorer/relevance.rs), the dismiss button of  *)
(* those messages (bot/callbacks.rs), the commands /threshold and /mute,   *)
(* and the nightly calibration.                                            *)
(*                                                                         *)
(* apply_signal and calibrate_threshold read a row, compute, and write it  *)
(* back in a second statement; nothing holds the row in between.           *)
(*                                                                         *)
(* An interest vector is the set of the items mixed into it, {} for NULL,  *)
(* and its weight is whether there is any: decay never takes all of it.    *)
(* An item carries one tag, named like it; a list of tags, the newest      *)
(* first, is the place of each tag in it, 0 for a tag that is not there.   *)
(* Scores and thresholds are small numbers, and what the ranker scores is  *)
(* left open.                                                              *)
(***************************************************************************)
EXTENDS Naturals, FiniteSets

CONSTANTS Users,             \* members of one group
          Items,             \* captures that may be shared in it
          SharedBy,          \* SharedBy[i]: who shares i
          Top,               \* the highest score and threshold, 1.0 in the code
          DefaultThreshold,  \* DEFAULT_RELEVANCE_THRESHOLD
          ColumnDefault,     \* the default of the column notify_threshold
          MaxTags,           \* length of a list of tags, 20
          DismissLimit,      \* dismissals of a week that raise nothing, 3
          MaxPresses,        \* bound: presses of the dismiss button
          MaxCommands,       \* bound: commands
          MaxFaults          \* bound: database errors, lost answers, restarts

ASSUME TasteAssumption ==
    /\ IsFiniteSet(Users) /\ IsFiniteSet(Items)
    /\ SharedBy \in [Items -> Users]
    /\ Top \in Nat
    /\ DefaultThreshold \in 0..Top /\ ColumnDefault \in 0..Top
    /\ MaxTags \in Nat \ {0}
    /\ {DismissLimit, MaxPresses, MaxCommands, MaxFaults} \subseteq Nat
    /\ "nobody" \notin Users /\ "nothing" \notin Items

Scores == 0..Top

VARIABLES
    \* Tables.
    row,       \* user_taste_profiles
    week,      \* week[u]: notify_dismiss events of u in the last seven days
    notified,  \* notifications_log
    stored,    \* items
    \* The consumer: the job at hand, and the rows it has read.
    phase, item, read, todo, target,
    \* The dismissal each user has under way, and the two kinds of calibration.
    press, calibration, sweeping,
    \* Observations and bounds.
    chosen,    \* chosen[u]: the threshold u set last, or the default
    most,      \* most[u]: the most dismissals a week has had
    sent,      \* messages that reached their user
    late,      \* users who muted since the audience was listed
    unseen,    \* users a run ended without looking at
    cut,       \* items whose run an error or a restart ended
    presses, commands, faults

tables == <<row, week, notified, stored>>
consumer == <<phase, item, read, todo, target>>
buttons == <<press, calibration, sweeping>>
history == <<chosen, most, sent, late, unseen, cut>>
bounds == <<presses, commands, faults>>
vars == <<tables, consumer, buttons, history, bounds>>

TagLists == [Items -> 0..MaxTags]
NoTags == [t \in Items |-> 0]

Row == [exists : BOOLEAN, vec : SUBSET Items, weight : BOOLEAN,
        threshold : Scores, muted : BOOLEAN,
        liked : TagLists, disliked : TagLists, captures : Nat]

\* The columns an INSERT leaves to their defaults.
NoRow == [exists |-> FALSE, vec |-> {}, weight |-> FALSE,
          threshold |-> ColumnDefault, muted |-> FALSE,
          liked |-> NoTags, disliked |-> NoTags, captures |-> 0]

Nightly == "nightly"
Calibrators == Users \cup {Nightly}
NoPress == [phase |-> "idle", item |-> "nothing", read |-> NoRow]
NoCalibration == [phase |-> "idle", user |-> "nobody", threshold |-> 0]

TypeOK ==
    /\ row \in [Users -> Row]
    /\ week \in [Users -> Nat]
    /\ notified \subseteq Users \X Items
    /\ stored \subseteq Items
    /\ phase \in {"idle", "learning", "listing", "each", "sending", "logging",
                  "crediting", "adding"}
    /\ item \in Items \cup {"nothing"}
    /\ read \in [Users -> Row]
    /\ todo \subseteq Users
    /\ target \in Users \cup {"nobody"}
    /\ press \in [Users -> [phase : {"idle", "reading", "merging"},
                            item : Items \cup {"nothing"}, read : Row]]
    /\ calibration \in [Calibrators ->
           [phase : {"idle", "counting", "reading", "raising"},
            user : Users \cup {"nobody"}, threshold : Scores]]
    /\ sweeping \subseteq Users
    /\ chosen \in [Users -> Scores]
    /\ most \in [Users -> Nat]
    /\ sent \subseteq Users \X Items /\ late \subseteq Users
    /\ unseen \subseteq Users \X Items /\ cut \subseteq Items
    /\ presses \in 0..MaxPresses /\ commands \in 0..MaxCommands
    /\ faults \in 0..MaxFaults

Init ==
    /\ row = [u \in Users |-> NoRow]
    /\ week = [u \in Users |-> 0]
    /\ notified = {} /\ stored = {}
    /\ phase = "idle" /\ item = "nothing" /\ todo = {} /\ target = "nobody"
    /\ read = [u \in Users |-> NoRow]
    /\ press = [u \in Users |-> NoPress]
    /\ calibration = [c \in Calibrators |-> NoCalibration]
    /\ sweeping = {}
    /\ chosen = [u \in Users |-> DefaultThreshold]
    /\ most = [u \in Users |-> 0]
    /\ sent = {} /\ late = {} /\ unseen = {} /\ cut = {}
    /\ presses = 0 /\ commands = 0 /\ faults = 0
-----------------------------------------------------------------------------
(* The statements on user_taste_profiles.                                  *)

\* Wrong: a dismissal weighs as much as a capture.
Attracted(r, i, positive) == [vec |-> r.vec \cup {i}, weight |-> TRUE]

\* Wrong: the weight of the signal is not added.
Weightless(r, i, positive) ==
    [vec |-> r.vec \cup (IF positive THEN {i} ELSE {}), weight |-> r.weight]

\* vectors::weighted_update of a row read earlier, by a signal of i whose
\* effective weight is zero unless it is positive.
WeightedUpdate(r, i, positive) ==
    IF r.vec = {} \/ (~r.weight /\ ~positive)
    THEN [vec |-> {i}, weight |-> positive]
    ELSE [vec |-> (IF r.weight THEN r.vec ELSE {})
                  \cup (IF positive THEN {i} ELSE {}),
          weight |-> TRUE]

\* Wrong: a list of tags is cut to one less than it had.
ShortenedTags(list, tags) ==
    [t \in Items |-> IF t \in tags THEN 1
                     ELSE IF list[t] \in 1..(MaxTags - 2) THEN list[t] + 1 ELSE 0]

\* merge_tags: a new tag moves to the front, pushes on those that were ahead
\* of it, or all, and the last of a full list out of it.
MergeTags(list, tags) ==
    LET pushed(t) == \E n \in tags : list[n] = 0 \/ list[n] > list[t]
    IN  [t \in Items |->
            IF t \in tags THEN 1
            ELSE IF list[t] = 0 \/ ~pushed(t) THEN list[t]
            ELSE IF list[t] < MaxTags THEN list[t] + 1 ELSE 0]

\* apply_signal's INSERT ... ON CONFLICT DO UPDATE, with r the row it read:
\* the vector and the tags are written from r, the count and the threshold
\* are those of the row as it is now.
Upsert(u, r, i, positive, tags, count) ==
    LET merged == WeightedUpdate(r, i, positive)
        now == row[u]
    IN  row' = [row EXCEPT ![u] =
            [now EXCEPT
                !.exists = TRUE,
                !.vec = merged.vec,
                !.weight = merged.weight,
                !.threshold = IF now.exists THEN now.threshold
                              ELSE IF r.exists THEN r.threshold
                              ELSE DefaultThreshold,
                !.liked = IF positive THEN MergeTags(r.liked, tags) ELSE r.liked,
                !.disliked = IF positive THEN r.disliked
                                         ELSE MergeTags(r.disliked, tags),
                !.captures = now.captures + count]]

\* set_threshold and set_mute: a row they create has no vector.
SetThreshold(u, t) ==
    row' = [row EXCEPT ![u].exists = TRUE, ![u].threshold = t]
SetMute(u, m) ==
    row' = [row EXCEPT ![u].exists = TRUE, ![u].muted = m]

Fault == faults < MaxFaults /\ faults' = faults + 1
-----------------------------------------------------------------------------
(* The consumer.                                                           *)

\* The run of the job at hand ends, with the users in left not looked at.
EndRun(left) ==
    /\ phase' = "idle" /\ item' = "nothing"
    /\ todo' = {} /\ target' = "nobody"
    /\ read' = [u \in Users |-> NoRow]
    /\ late' = {}
    /\ unseen' = unseen \cup (left \X {item})

\* The item is stored; apply_signal reads the sharer's row, unless the item
\* could not be embedded.
Capture(i) ==
    /\ phase = "idle" /\ i \notin stored
    /\ stored' = stored \cup {i}
    /\ \/ /\ phase' = "learning" /\ item' = i
          /\ read' = [read EXCEPT ![SharedBy[i]] = row[SharedBy[i]]]
          /\ UNCHANGED faults
       \/ Fault /\ UNCHANGED <<phase, item, read>>
    /\ UNCHANGED <<row, week, notified, todo, target, buttons, history,
                   presses, commands>>

Learn ==
    /\ phase = "learning"
    /\ LET sharer == SharedBy[item]
       IN  Upsert(sharer, read[sharer], item, TRUE, {item}, 1)
    /\ phase' = "listing"
    /\ UNCHANGED <<week, notified, stored, item, read, todo, target, buttons,
                   history, bounds>>

\* list_active_in_group: the other users with a vector, as they are now.
ListAudience ==
    /\ phase = "listing"
    /\ todo' = {u \in Users \ {SharedBy[item]} : row[u].vec # {}}
    /\ read' = [u \in Users |-> IF u \in todo' THEN row[u] ELSE NoRow]
    /\ phase' = "each" /\ late' = {}
    /\ UNCHANGED <<tables, item, target, buttons, chosen, most, sent,
                   unseen, cut, bounds>>

\* What was read of u is not looked at again.
Seen(u) ==
    /\ todo' = todo \ {u}
    /\ read' = [read EXCEPT ![u] = NoRow]

\* The score is below the user's threshold; it is logged, errors aside.
BelowThreshold(u, score) ==
    /\ score < read[u].threshold
    /\ \/ notified' = notified \cup {<<u, item>>} /\ UNCHANGED faults
       \/ Fault /\ UNCHANGED notified
    /\ Seen(u)
    /\ UNCHANGED <<row, week, stored, phase, item, target, buttons, history,
                   presses, commands>>

\* Wrong: a muted user ends the run.
StopAtMuted(u, score) ==
    /\ score >= read[u].threshold /\ read[u].muted
    /\ EndRun(todo \ {u})
    /\ UNCHANGED <<tables, buttons, chosen, most, sent, cut, bounds>>

\* Muted, or told of the item before.
PassOver(u, score) ==
    /\ score >= read[u].threshold
    /\ read[u].muted \/ <<u, item>> \in notified
    /\ Seen(u)
    /\ UNCHANGED <<tables, phase, item, target, buttons, history, bounds>>

\* Wrong: the mute is not looked at.
InterruptMuted(u, score) ==
    /\ score >= read[u].threshold /\ <<u, item>> \notin notified
    /\ phase' = "sending" /\ target' = u
    /\ Seen(u)
    /\ UNCHANGED <<tables, item, buttons, history, bounds>>

\* Worth a message: the model writes an excerpt of it.
Interrupt(u, score) ==
    /\ score >= read[u].threshold
    /\ ~read[u].muted /\ <<u, item>> \notin notified
    /\ phase' = "sending" /\ target' = u
    /\ Seen(u)
    /\ UNCHANGED <<tables, item, buttons, history, bounds>>

\* send_message, whose answer may be lost after the message was delivered.
Send ==
    /\ phase = "sending"
    /\ sent' = sent \cup {<<target, item>>}
    /\ \/ phase' = "logging" /\ UNCHANGED faults
       \/ phase' = "each" /\ Fault
    /\ UNCHANGED <<tables, item, read, todo, target, buttons, chosen,
                   most, late, unseen, cut, presses, commands>>

SendFails ==
    /\ phase = "sending" /\ Fault
    /\ phase' = "each"
    /\ UNCHANGED <<tables, item, read, todo, target, buttons, history,
                   presses, commands>>

LogSent ==
    /\ phase = "logging"
    /\ notified' = notified \cup {<<target, item>>}
    /\ phase' = "crediting"
    /\ UNCHANGED <<row, week, stored, item, read, todo, target, buttons,
                   history, bounds>>

\* apply_signal of a notification does not create a row.
ReadForCredit ==
    /\ phase = "crediting"
    /\ read' = [read EXCEPT ![target] = row[target]]
    /\ phase' = IF row[target].exists THEN "adding" ELSE "each"
    /\ UNCHANGED <<tables, item, todo, target, buttons, history, bounds>>

Credit ==
    /\ phase = "adding"
    /\ \/ Upsert(target, read[target], item, TRUE, {}, 0) /\ UNCHANGED faults
       \/ Fault /\ UNCHANGED row
    /\ phase' = "each" /\ Seen(target)
    /\ UNCHANGED <<week, notified, stored, item, target, buttons, history,
                   presses, commands>>

FinishRun ==
    /\ phase = "each" /\ todo = {}
    /\ EndRun({})
    /\ UNCHANGED <<tables, buttons, chosen, most, sent, cut, bounds>>

\* An error that apply_signal, list_active_in_group, already_notified or
\* notifications::log returns ends the run; the job has stored its item, so
\* no retry comes back to the users it has left.
RunFails ==
    /\ phase \in {"learning", "listing", "each", "logging"} /\ Fault
    /\ EndRun(todo)
    /\ cut' = cut \cup {item}
    /\ UNCHANGED <<tables, buttons, chosen, most, sent, presses, commands>>

Consider(u, score) ==
    /\ phase = "each" /\ u \in todo
    /\ \/ BelowThreshold(u, score)
       \/ PassOver(u, score)
       \/ Interrupt(u, score)
-----------------------------------------------------------------------------
(* The dismiss button and the calibration it ends with.                    *)

\* The button stays until the message is edited: it can be pressed again.
Dismiss(u, i) ==
    /\ press[u].phase = "idle" /\ calibration[u].phase = "idle"
    /\ <<u, i>> \in sent /\ presses < MaxPresses
    /\ presses' = presses + 1
    /\ press' = [press EXCEPT ![u] = [@ EXCEPT !.phase = "reading", !.item = i]]
    /\ \/ /\ week' = [week EXCEPT ![u] = @ + 1]
          /\ most' = [most EXCEPT ![u] = IF week'[u] > @ THEN week'[u] ELSE @]
          /\ UNCHANGED faults
       \/ Fault /\ UNCHANGED <<week, most>>
    /\ UNCHANGED <<row, notified, stored, consumer, calibration, sweeping,
                   chosen, sent, late, unseen, cut, commands>>

ReadForDismissal(u) ==
    /\ press[u].phase = "reading"
    /\ press' = [press EXCEPT ![u] = [@ EXCEPT !.phase = "merging", !.read = row[u]]]
    /\ UNCHANGED <<tables, consumer, calibration, sweeping, history, bounds>>

\* apply_signal of -1.0; whatever comes of it, calibrate_threshold follows.
PushAway(u) ==
    /\ press[u].phase = "merging"
    /\ \/ Upsert(u, press[u].read, press[u].item, FALSE, {press[u].item}, 0)
          /\ UNCHANGED faults
       \/ Fault /\ UNCHANGED row
    /\ press' = [press EXCEPT ![u] = NoPress]
    /\ calibration' = [calibration EXCEPT ![u] =
                          [@ EXCEPT !.phase = "counting", !.user = u]]
    /\ UNCHANGED <<week, notified, stored, consumer, sweeping, history,
                   presses, commands>>

\* calibrate_all, every night: the users who dismissed something this week.
Sweep ==
    /\ sweeping = {} /\ calibration[Nightly].phase = "idle"
    /\ sweeping' = {u \in Users : week[u] > 0}
    /\ UNCHANGED <<tables, consumer, press, calibration, history, bounds>>

SweepNext(u) ==
    /\ u \in sweeping /\ calibration[Nightly].phase = "idle"
    /\ sweeping' = sweeping \ {u}
    /\ calibration' = [calibration EXCEPT ![Nightly] =
                          [@ EXCEPT !.phase = "counting", !.user = u]]
    /\ UNCHANGED <<tables, consumer, press, history, bounds>>

\* Wrong: the limit itself already raises.
CountToLimit(c) ==
    /\ calibration[c].phase = "counting"
    /\ calibration' = [calibration EXCEPT ![c] =
           IF week[@.user] >= DismissLimit THEN [@ EXCEPT !.phase = "reading"]
                                           ELSE NoCalibration]
    /\ UNCHANGED <<tables, consumer, press, sweeping, history, bounds>>

CountDismissals(c) ==
    /\ calibration[c].phase = "counting"
    /\ calibration' = [calibration EXCEPT ![c] =
           IF week[@.user] > DismissLimit THEN [@ EXCEPT !.phase = "reading"]
                                          ELSE NoCalibration]
    /\ UNCHANGED <<tables, consumer, press, sweeping, history, bounds>>

\* min(current + bump, 1.0), which at the top changes nothing.
ReadThreshold(c) ==
    /\ calibration[c].phase = "reading"
    /\ LET r == row[calibration[c].user]
           current == IF r.exists THEN r.threshold ELSE DefaultThreshold
       IN  calibration' = [calibration EXCEPT ![c] =
               IF current = Top THEN NoCalibration
               ELSE [@ EXCEPT !.phase = "raising", !.threshold = current + 1]]
    /\ UNCHANGED <<tables, consumer, press, sweeping, history, bounds>>

Raise(c) ==
    /\ calibration[c].phase = "raising"
    /\ SetThreshold(calibration[c].user, calibration[c].threshold)
    /\ calibration' = [calibration EXCEPT ![c] = NoCalibration]
    /\ UNCHANGED <<week, notified, stored, consumer, press, sweeping, history,
                   bounds>>

\* An error ends the callback, or the whole sweep.
CalibrationFails(c) ==
    /\ calibration[c].phase # "idle" /\ Fault
    /\ calibration' = [calibration EXCEPT ![c] = NoCalibration]
    /\ sweeping' = IF c = Nightly THEN {} ELSE sweeping
    /\ UNCHANGED <<tables, consumer, press, history, presses, commands>>
-----------------------------------------------------------------------------
(* Commands, time and restarts.                                            *)

Command == commands < MaxCommands /\ commands' = commands + 1

ThresholdCommand(u, t) ==
    /\ Command /\ SetThreshold(u, t)
    /\ chosen' = [chosen EXCEPT ![u] = t]
    /\ UNCHANGED <<week, notified, stored, consumer, buttons, most,
                   sent, late, unseen, cut, presses, faults>>

MuteCommand(u, m) ==
    /\ Command /\ SetMute(u, m)
    /\ late' = IF m THEN late \cup {u} ELSE late
    /\ UNCHANGED <<week, notified, stored, consumer, buttons, chosen,
                   most, sent, unseen, cut, presses, faults>>

\* muted_until passes.
MuteExpires(u) ==
    /\ row[u].muted
    /\ row' = [row EXCEPT ![u].muted = FALSE]
    /\ UNCHANGED <<week, notified, stored, consumer, buttons, history, bounds>>

\* A dismissal turns seven days old.
DismissalAges(u) ==
    /\ week[u] > 0
    /\ week' = [week EXCEPT ![u] = @ - 1]
    /\ UNCHANGED <<row, notified, stored, consumer, buttons, history, bounds>>

Restart ==
    /\ Fault
    /\ EndRun(todo)
    /\ cut' = IF item = "nothing" THEN cut ELSE cut \cup {item}
    /\ press' = [u \in Users |-> NoPress]
    /\ calibration' = [c \in Calibrators |-> NoCalibration]
    /\ sweeping' = {}
    /\ UNCHANGED <<tables, chosen, most, sent, presses, commands>>

Consumer ==
    \/ \E i \in Items : Capture(i)
    \/ Learn \/ ListAudience
    \/ \E u \in Users, score \in Scores : Consider(u, score)
    \/ Send \/ SendFails \/ LogSent \/ ReadForCredit \/ Credit
    \/ FinishRun \/ RunFails

Button ==
    \/ \E u \in Users, i \in Items : Dismiss(u, i)
    \/ \E u \in Users : ReadForDismissal(u) \/ PushAway(u)

Calibrate ==
    \/ Sweep
    \/ \E u \in Users : SweepNext(u)
    \/ \E c \in Calibrators :
        CountDismissals(c) \/ ReadThreshold(c) \/ Raise(c) \/ CalibrationFails(c)

Others ==
    \/ \E u \in Users : \/ \E t \in Scores : ThresholdCommand(u, t)
                        \/ \E m \in BOOLEAN : MuteCommand(u, m)
                        \/ MuteExpires(u) \/ DismissalAges(u)
    \/ Restart

Next == Consumer \/ Button \/ Calibrate \/ Others

Spec == Init /\ [][Next]_vars
-----------------------------------------------------------------------------
(* A vector always has weight.  weighted_update replaces a vector without  *)
(* weight by the item of the signal, so a dismissal would turn into the    *)
(* taste it rejects.                                                       *)
VectorHasWeight == \A u \in Users : row[u].vec # {} => row[u].weight

(* A threshold above the one its user chose was raised for more dismissals *)
(* in a week than the limit, in whatever order commands and calibrations   *)
(* came.                                                                   *)
ThresholdEarned ==
    \A u \in Users :
        row[u].exists /\ row[u].threshold > chosen[u] => most[u] > DismissLimit

(* A run leaves a user of its audience unlooked at only when a database    *)
(* error or a restart ended it.                                            *)
NobodySkipped == \A pair \in unseen : pair[2] \in cut

(* What apply_signal teaches: the items in the vector and the two tag      *)
(* lists.                                                                  *)
Listed(list) == {t \in Items : list[t] > 0}
Taught(r) == (r.vec \X {"vec"}) \cup (Listed(r.liked) \X {"liked"})
             \cup (Listed(r.disliked) \X {"disliked"})

(* A writer is about to write u's row from a copy that is out of date.     *)
Taste(r) == <<r.vec, r.liked, r.disliked>>
Overlapped(u) ==
    \/ /\ \/ phase = "learning" /\ u = SharedBy[item]
          \/ phase = "adding" /\ u = target
       /\ Taste(read[u]) # Taste(row[u])
    \/ press[u].phase = "merging" /\ Taste(press[u].read) # Taste(row[u])

(* The oldest tag of a full list.                                          *)
Oldest(r, signal) == \/ signal[2] = "liked" /\ r.liked[signal[1]] = MaxTags
                     \/ signal[2] = "disliked" /\ r.disliked[signal[1]] = MaxTags

(* A signal disappears from a row only under a writer that had read the    *)
(* row before somebody else wrote it, or as the oldest tag of a full list: *)
(* alone, no signal undoes another (apply_signal, merge_tags).             *)
LostOnlyToOverlap ==
    [][\A u \in Users : \A signal \in Taught(row[u]) \ Taught(row[u])' :
           Oldest(row[u], signal) \/ Overlapped(u)]_vars

(* A dismissal writes back the vector it read: it never moves the taste    *)
(* towards the item, even when the row changed under it.                   *)
DismissalKeepsVector ==
    [][\A u \in Users :
           press[u].phase = "merging" /\ press'[u].phase = "idle"
           => row'[u].vec \in {row[u].vec, press[u].read.vec}]_vars

(* A muted user is interrupted only by a run that had listed its audience  *)
(* before the mute.                                                        *)
MuteHoldsForLaterRuns ==
    [][\A u \in Users : row[u].muted /\ <<u, item>> \in sent' \ sent
           => u \in late]_vars
=============================================================================
