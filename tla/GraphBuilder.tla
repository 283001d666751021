---------------------------- MODULE GraphBuilder ----------------------------
(***************************************************************************)
(* The knowledge graph builder (graph/builder.rs), started by cron every   *)
(* six hours and by /buildgraph, over items that ingestion keeps adding.   *)
(*                                                                         *)
(* A run reads the oldest unprocessed items, has a model extract the graph *)
(* of each group among them, inserts the edges one by one, and marks the   *)
(* items of the group processed whatever came of it.  Nothing keeps two    *)
(* runs apart, and edges have no unique index.                             *)
(*                                                                         *)
(* An edge is named by its two ends, an item or an entity and an entity;   *)
(* the response to one prompt is a bag of them, for a model may repeat     *)
(* itself and every entry becomes a row.  The rows of entities, which are  *)
(* upserted by name and never deleted, are left out.                       *)
(***************************************************************************)
EXTENDS Naturals, FiniteSets

CONSTANTS Items,      \* captures that may be stored
          Groups,
          GroupOf,    \* GroupOf[i]: the group i was shared in
          Names,      \* entities a model may name
          Builders,   \* runs of builder::run that may overlap
          Scheduled,  \* those of cron, the others being commands
          BatchSize,  \* INGESTION_BATCH_SIZE
          MaxRepeats, \* bound: how often one response holds the same edge
          MaxFaults   \* bound: database errors and restarts of a behaviour

ASSUME GraphAssumption ==
    /\ IsFiniteSet(Items) /\ Items \cap Names = {}
    /\ GroupOf \in [Items -> Groups] /\ Scheduled \subseteq Builders
    /\ BatchSize \in Nat \ {0} /\ MaxRepeats \in Nat \ {0} /\ MaxFaults \in Nat

Edges == {e \in (Items \cup Names) \X Names : e[1] # e[2]}

VARIABLES
    \* Tables.
    rank,       \* rank[i]: how manieth i was stored (created_at), 0 if not yet
    processed,  \* items.graph_processed
    edges,      \* edges[b][e]: how many rows of e run b has inserted
    \* The locals of each run, lost in a crash.
    phase,      \* where the run is
    todo,       \* items of its batch whose group is still to be done
    current,    \* items of the group at hand
    plan,       \* plan[b][e]: how many e of the response are still to be inserted
    \* Observations and bounds.
    tried,      \* items a model has been asked about
    faults

tables == <<rank, processed, edges>>
locals == <<phase, todo, current, plan>>
vars == <<tables, locals, tried, faults>>

Phases == {"idle", "reading", "grouping", "extracting", "writing", "marking"}

TypeOK ==
    /\ rank \in [Items -> Nat]
    /\ processed \subseteq Items
    /\ edges \in [Builders -> [Edges -> Nat]]
    /\ phase \in [Builders -> Phases]
    /\ todo \in [Builders -> SUBSET Items]
    /\ current \in [Builders -> SUBSET Items]
    /\ plan \in [Builders -> [Edges -> 0..MaxRepeats]]
    /\ tried \subseteq Items
    /\ faults \in 0..MaxFaults

NoEdges == [e \in Edges |-> 0]

Init ==
    /\ rank = [i \in Items |-> 0]
    /\ processed = {}
    /\ edges = [b \in Builders |-> NoEdges]
    /\ phase = [b \in Builders |-> "idle"]
    /\ todo = [b \in Builders |-> {}]
    /\ current = [b \in Builders |-> {}]
    /\ plan = [b \in Builders |-> NoEdges]
    /\ tried = {}
    /\ faults = 0
-----------------------------------------------------------------------------
Stored == {i \in Items : rank[i] > 0}
\* Wrong: the WHERE clause is missing.
UnprocessedOrNot == Stored
Unprocessed == Stored \ processed

Fault == faults < MaxFaults /\ faults' = faults + 1

Goto(b, p) == phase' = [phase EXCEPT ![b] = p]

\* items::insert: graph_processed starts out false.
StoreItem(i) ==
    /\ rank[i] = 0
    /\ rank' = [rank EXCEPT ![i] = Cardinality(Stored) + 1]
    /\ UNCHANGED <<processed, edges, locals, tried, faults>>

\* The cron job or the command calls builder::run.
Start(b) ==
    /\ phase[b] = "idle"
    /\ Goto(b, "reading")
    /\ UNCHANGED <<tables, todo, current, plan, tried, faults>>

\* Wrong: a short batch is left for the next run.
ReadFullBatch(b) ==
    /\ phase[b] = "reading"
    /\ \/ /\ \E batch \in SUBSET Unprocessed :
               /\ Cardinality(batch) = BatchSize
               /\ todo' = [todo EXCEPT ![b] = batch]
          /\ Goto(b, "grouping")
       \/ /\ Cardinality(Unprocessed) < BatchSize
          /\ Goto(b, "idle")
          /\ UNCHANGED todo
    /\ UNCHANGED <<tables, current, plan, tried, faults>>

\* items::unprocessed: ORDER BY created_at LIMIT BatchSize.
ReadBatch(b) ==
    /\ phase[b] = "reading"
    /\ Unprocessed # {}
    /\ \E batch \in SUBSET Unprocessed :
        /\ \/ Cardinality(batch) = BatchSize
           \/ Cardinality(batch) < BatchSize /\ batch = Unprocessed
        /\ \A i \in batch, j \in Unprocessed \ batch : rank[i] < rank[j]
        /\ todo' = [todo EXCEPT ![b] = batch]
    /\ Goto(b, "grouping")
    /\ UNCHANGED <<tables, current, plan, tried, faults>>

\* Nothing is left: the run returns its statistics.
Finish(b) ==
    /\ phase[b] = "reading"
    /\ Unprocessed = {}
    /\ Goto(b, "idle")
    /\ UNCHANGED <<tables, todo, current, plan, tried, faults>>

\* The next group of the batch, in the arbitrary order of a HashMap.
TakeGroup(b) ==
    /\ phase[b] = "grouping"
    /\ \E g \in {GroupOf[i] : i \in todo[b]} :
        LET ofGroup == {i \in todo[b] : GroupOf[i] = g}
        IN  /\ current' = [current EXCEPT ![b] = ofGroup]
            /\ todo' = [todo EXCEPT ![b] = @ \ ofGroup]
    /\ Goto(b, "extracting")
    /\ UNCHANGED <<tables, plan, tried, faults>>

BatchDone(b) ==
    /\ phase[b] = "grouping"
    /\ todo[b] = {}
    /\ Goto(b, "reading")
    /\ UNCHANGED <<tables, todo, current, plan, tried, faults>>
-----------------------------------------------------------------------------
\* The model answers; an answer that holds no JSON object at all is an empty
\* graph, and a mention of an item outside the prompt is skipped.
Extract(b) ==
    /\ phase[b] = "extracting"
    /\ tried' = tried \cup current[b]
    /\ \E response \in [Edges -> 0..MaxRepeats] :
        /\ \A e \in Edges : e[1] \notin current[b] \cup Names => response[e] = 0
        /\ plan' = [plan EXCEPT ![b] = response]
    /\ Goto(b, "writing")
    /\ UNCHANGED <<tables, todo, current, faults>>

\* Wrong: a group whose extraction failed stays unprocessed.
ExtractFailsUnmarked(b) ==
    /\ phase[b] = "extracting"
    /\ tried' = tried \cup current[b]
    /\ current' = [current EXCEPT ![b] = {}]
    /\ Goto(b, "grouping")
    /\ UNCHANGED <<tables, todo, plan, faults>>

\* The model fails, however often, or its JSON does not have the shape:
\* logged, and the group is marked all the same.
ExtractFails(b) ==
    /\ phase[b] = "extracting"
    /\ tried' = tried \cup current[b]
    /\ Goto(b, "marking")
    /\ UNCHANGED <<tables, todo, current, plan, faults>>

\* entities::recent fails before the model is asked: the group is marked
\* unseen.
RecentError(b) ==
    /\ phase[b] = "extracting"
    /\ Fault
    /\ Goto(b, "marking")
    /\ UNCHANGED <<tables, todo, current, plan, tried>>

\* resolve and edges::insert, a plain INSERT.
AddEdge(b, e) ==
    /\ phase[b] = "writing" /\ plan[b][e] > 0
    /\ edges' = [edges EXCEPT ![b][e] = @ + 1]
    /\ plan' = [plan EXCEPT ![b][e] = @ - 1]
    /\ UNCHANGED <<rank, processed, phase, todo, current, tried, faults>>

\* An upsert or insert fails, if only its answer is lost: the edges left are
\* not inserted, and the group is marked all the same.
AddError(b) ==
    /\ phase[b] = "writing" /\ plan[b] # NoEdges
    /\ Fault
    /\ \/ UNCHANGED edges
       \/ \E e \in Edges : /\ plan[b][e] > 0
                          /\ edges' = [edges EXCEPT ![b][e] = @ + 1]
    /\ plan' = [plan EXCEPT ![b] = NoEdges]
    /\ Goto(b, "marking")
    /\ UNCHANGED <<rank, processed, todo, current, tried>>

AllAdded(b) ==
    /\ phase[b] = "writing" /\ plan[b] = NoEdges
    /\ Goto(b, "marking")
    /\ UNCHANGED <<tables, todo, current, plan, tried, faults>>

\* Wrong: the whole batch is marked with its first group.
MarkBatchProcessed(b) ==
    /\ phase[b] = "marking"
    /\ processed' = processed \cup current[b] \cup todo[b]
    /\ current' = [current EXCEPT ![b] = {}]
    /\ Goto(b, "grouping")
    /\ UNCHANGED <<rank, edges, todo, plan, tried, faults>>

\* items::mark_graph_processed, for the items of the group.
MarkProcessed(b) ==
    /\ phase[b] = "marking"
    /\ processed' = processed \cup current[b]
    /\ current' = [current EXCEPT ![b] = {}]
    /\ Goto(b, "grouping")
    /\ UNCHANGED <<rank, edges, todo, plan, tried, faults>>

Return(b) == /\ Goto(b, "idle")
             /\ todo' = [todo EXCEPT ![b] = {}]
             /\ current' = [current EXCEPT ![b] = {}]

\* Reading or marking fails: the error ends the run.
RunError(b) ==
    /\ phase[b] \in {"reading", "marking"}
    /\ Fault
    /\ \/ UNCHANGED processed
       \/ phase[b] = "marking" /\ processed' = processed \cup current[b]
    /\ Return(b)
    /\ UNCHANGED <<rank, edges, plan, tried>>

\* The process dies, and every run with it.
Crash ==
    /\ Fault
    /\ phase' = [b \in Builders |-> "idle"]
    /\ todo' = [b \in Builders |-> {}]
    /\ current' = [b \in Builders |-> {}]
    /\ plan' = [b \in Builders |-> NoEdges]
    /\ UNCHANGED <<tables, tried>>
-----------------------------------------------------------------------------
Proceed(b) ==
    \/ ReadBatch(b) \/ Finish(b) \/ TakeGroup(b) \/ BatchDone(b)
    \/ Extract(b) \/ ExtractFails(b)
    \/ \E e \in Edges : AddEdge(b, e)
    \/ AllAdded(b) \/ MarkProcessed(b)

Next ==
    \/ \E i \in Items : StoreItem(i)
    \/ \E b \in Builders : Start(b) \/ Proceed(b)
    \/ \E b \in Builders : RecentError(b) \/ AddError(b) \/ RunError(b)
    \/ Crash

Spec == Init /\ [][Next]_vars

\* Cron keeps starting the job, the runtime runs it, and the calls it awaits
\* end.  Whether the model succeeds is not assumed, ever.
Fairness == \A b \in Builders :
                WF_vars((b \in Scheduled /\ Start(b)) \/ Proceed(b))

FairSpec == Spec /\ Fairness
-----------------------------------------------------------------------------
\* A run does not build an item twice, however items arrive, batches are cut
\* and other runs overlap, unless it was cut short before it could mark it
\* (run, process_group_batch): one builder inserts an edge of an item as often
\* as one response can hold it, and once more as often for every error or
\* restart.
OncePerBuilder ==
    \A b \in Builders, i \in Items, n \in Names :
        edges[b][<<i, n>>] <= MaxRepeats * (1 + faults)

\* An item is written off unseen, that is, marked although no model was
\* asked about it, only because of a database error, and each error costs one
\* group its turn, never the rest of the batch, which a run marks group by
\* group from what it read long ago (run, mark_graph_processed).
WrittenOffByErrors ==
    Cardinality({GroupOf[i] : i \in processed \ tried}) <= faults

\* "so a poisoned batch can't loop forever" (run): every run ends, even if
\* the model fails every time.
RunsEnd == \A b \in Builders : phase[b] # "idle" ~> phase[b] = "idle"

\* Every stored item has its turn, across runs that errors cut short.
EveryItemProcessed == \A i \in Items : i \in Stored ~> i \in processed
=============================================================================
