------------------------- MODULE GraphBuilderProofs -------------------------
(***************************************************************************)
(* What holds of the graph builder for any items, groups, builders, batch  *)
(* sizes and responses: its state is well typed, no builder inserts the    *)
(* edge of an item out of a second response without an error or a restart  *)
(* to account for it, and items are written off by errors only.            *)
(*                                                                         *)
(* The rows of an edge are at most what one response and one more for each *)
(* fault may hold.  That is not inductive: it must count what is still to  *)
(* be inserted, and be one response lower while the item awaits its turn.  *)
(***************************************************************************)
EXTENDS GraphBuilder, FiniteSetTheorems, TLAPS

\* Builder b has yet to ask about item i, or may come to ask about it.
Awaits(b, i) ==
    \/ i \in todo[b]
    \/ i \in current[b] /\ phase[b] = "extracting"
    \/ i \notin processed /\ i \notin current[b]

\* What the locals of a run hold in each of its phases.
RunShape ==
    \A b \in Builders :
        /\ todo[b] \cap current[b] = {}
        /\ phase[b] \in {"idle", "reading"} => todo[b] = {}
        /\ phase[b] \in {"idle", "reading", "grouping"} => current[b] = {}
        /\ phase[b] # "writing" => plan[b] = NoEdges
        /\ \A e \in Edges : e[1] \notin current[b] \cup Names => plan[b][e] = 0

\* What k responses can hold of one edge.
Held(k) == MaxRepeats * k

RowsBelow ==
    \A b \in Builders, i \in Items, n \in Names :
        /\ edges[b][<<i, n>>] + plan[b][<<i, n>>] <= Held(1 + faults)
        /\ Awaits(b, i) => edges[b][<<i, n>>] <= Held(faults)

IInv == TypeOK /\ RunShape /\ RowsBelow
-----------------------------------------------------------------------------
\* An edge from an item to an entity is an edge.
LEMMA ItemEdge ==
    ASSUME NEW i \in Items, NEW n \in Names
    PROVE  <<i, n>> \in Edges
BY GraphAssumption DEF Edges, GraphAssumption

\* However many items are stored, their number is a natural one.
LEMMA StoredCount == Cardinality(Stored) \in Nat
<1>1. Stored \subseteq Items
  BY DEF Stored
<1>2. IsFiniteSet(Stored)
  BY <1>1, GraphAssumption, FS_Subset DEF GraphAssumption
<1> QED BY <1>2, FS_CardinalityType

\* Inserting edge e adds one row to its count and to no other.
LEMMA OneMoreRow ==
    ASSUME TypeOK, NEW b \in Builders, NEW e \in Edges,
           edges' = [edges EXCEPT ![b][e] = @ + 1]
    PROVE  /\ edges' \in [Builders -> [Edges -> Nat]]
           /\ edges'[b][e] = edges[b][e] + 1
           /\ \A c \in Builders, d \in Edges :
                  c # b \/ d # e => edges'[c][d] = edges[c][d]
<1>1. edges[b] \in [Edges -> Nat] /\ edges[b][e] \in Nat
  BY DEF TypeOK
<1>2. [edges[b] EXCEPT ![e] = @ + 1] \in [Edges -> Nat]
  BY <1>1
<1>3. edges' = [edges EXCEPT ![b] = [edges[b] EXCEPT ![e] = @ + 1]]
  OBVIOUS
<1> QED BY <1>1, <1>2, <1>3 DEF TypeOK

\* With the row, one edge less is left to be inserted.
LEMMA OneLeftLess ==
    ASSUME TypeOK, NEW b \in Builders, NEW e \in Edges, plan[b][e] > 0,
           plan' = [plan EXCEPT ![b][e] = @ - 1]
    PROVE  /\ plan' \in [Builders -> [Edges -> 0..MaxRepeats]]
           /\ plan'[b][e] = plan[b][e] - 1
           /\ \A c \in Builders, d \in Edges :
                  c # b \/ d # e => plan'[c][d] = plan[c][d]
<1>1. plan[b] \in [Edges -> 0..MaxRepeats] /\ plan[b][e] \in 0..MaxRepeats
  BY DEF TypeOK
<1>2. plan[b][e] - 1 \in 0..MaxRepeats
  BY <1>1, GraphAssumption DEF GraphAssumption
<1>3. [plan[b] EXCEPT ![e] = @ - 1] \in [Edges -> 0..MaxRepeats]
  BY <1>1, <1>2
<1>4. plan' = [plan EXCEPT ![b] = [plan[b] EXCEPT ![e] = @ - 1]]
  OBVIOUS
<1> QED BY <1>1, <1>3, <1>4 DEF TypeOK

\* No edges is as little as a response may hold.
LEMMA NoEdgesType == NoEdges \in [Edges -> 0..MaxRepeats]
BY GraphAssumption DEF NoEdges, GraphAssumption

\* The initial state is well typed.
LEMMA TypeInit == Init => TypeOK
BY GraphAssumption, NoEdgesType DEF Init, TypeOK, Phases, NoEdges, GraphAssumption

\* Every step keeps the types (all actions of the builder).
LEMMA TypeStep == TypeOK /\ [Next]_vars => TypeOK'
<1> SUFFICES ASSUME TypeOK, [Next]_vars PROVE TypeOK'
  OBVIOUS
<1> USE GraphAssumption DEF GraphAssumption, TypeOK, Phases
<1>1. ASSUME NEW i \in Items, StoreItem(i) PROVE TypeOK'
  BY <1>1, StoredCount DEF StoreItem, locals
<1>2. ASSUME NEW b \in Builders, Start(b) PROVE TypeOK'
  BY <1>2 DEF Start, Goto, tables
<1>3. ASSUME NEW b \in Builders, ReadBatch(b) PROVE TypeOK'
  BY <1>3 DEF ReadBatch, Goto, tables, Unprocessed, Stored
<1>4. ASSUME NEW b \in Builders, Finish(b) PROVE TypeOK'
  BY <1>4 DEF Finish, Goto, tables
<1>5. ASSUME NEW b \in Builders, TakeGroup(b) PROVE TypeOK'
  BY <1>5 DEF TakeGroup, Goto, tables
<1>6. ASSUME NEW b \in Builders, BatchDone(b) PROVE TypeOK'
  BY <1>6 DEF BatchDone, Goto, tables
<1>7. ASSUME NEW b \in Builders, Extract(b) PROVE TypeOK'
  BY <1>7 DEF Extract, Goto, tables
<1>8. ASSUME NEW b \in Builders, ExtractFails(b) PROVE TypeOK'
  BY <1>8 DEF ExtractFails, Goto, tables
<1>9. ASSUME NEW b \in Builders, NEW e \in Edges, AddEdge(b, e) PROVE TypeOK'
  <2>1. /\ edges' \in [Builders -> [Edges -> Nat]]
        /\ plan' \in [Builders -> [Edges -> 0..MaxRepeats]]
    BY <1>9, OneMoreRow, OneLeftLess DEF AddEdge
  <2> QED BY <1>9, <2>1 DEF AddEdge
<1>10. ASSUME NEW b \in Builders, AllAdded(b) PROVE TypeOK'
  BY <1>10 DEF AllAdded, Goto, tables
<1>11. ASSUME NEW b \in Builders, MarkProcessed(b) PROVE TypeOK'
  BY <1>11 DEF MarkProcessed, Goto
<1>12. ASSUME NEW b \in Builders, RecentError(b) PROVE TypeOK'
  BY <1>12 DEF RecentError, Fault, Goto, tables
<1>13. ASSUME NEW b \in Builders, AddError(b) PROVE TypeOK'
  <2>1. edges' \in [Builders -> [Edges -> Nat]]
    BY <1>13, OneMoreRow DEF AddError
  <2>2. /\ plan' = [plan EXCEPT ![b] = NoEdges]
        /\ phase' = [phase EXCEPT ![b] = "marking"]
        /\ faults < MaxFaults /\ faults' = faults + 1
        /\ UNCHANGED <<rank, processed, todo, current, tried>>
    BY <1>13 DEF AddError, Fault, Goto
  <2> QED BY <2>1, <2>2, NoEdgesType
<1>14. ASSUME NEW b \in Builders, RunError(b) PROVE TypeOK'
  BY <1>14 DEF RunError, Fault, Return, Goto
<1>15. CASE Crash
  BY <1>15, NoEdgesType DEF Crash, Fault, tables
<1>16. CASE UNCHANGED vars
  BY <1>16 DEF vars, tables, locals
<1> QED
  BY <1>1, <1>2, <1>3, <1>4, <1>5, <1>6, <1>7, <1>8, <1>9, <1>10, <1>11,
     <1>12, <1>13, <1>14, <1>15, <1>16 DEF Next, Proceed

\* Every reachable state of the builder is well typed.
THEOREM TypeCorrect == Spec => []TypeOK
BY TypeInit, TypeStep, PTL DEF Spec
-----------------------------------------------------------------------------
\* Each further response holds MaxRepeats more.
LEMMA HeldStep ==
    ASSUME NEW k \in Nat
    PROVE  Held(k) \in Nat /\ Held(1 + k) = Held(k) + MaxRepeats
BY GraphAssumption DEF Held, GraphAssumption

\* The counts are natural numbers.
LEMMA CountTypes ==
    ASSUME TypeOK, NEW b \in Builders, NEW i \in Items, NEW n \in Names
    PROVE  /\ edges[b][<<i, n>>] \in Nat /\ plan[b][<<i, n>>] \in 0..MaxRepeats
           /\ faults \in Nat /\ MaxRepeats \in Nat
BY ItemEdge, GraphAssumption DEF TypeOK, GraphAssumption

\* At first nothing is held and nothing is counted.
LEMMA InvInit == Init => IInv
<1> SUFFICES ASSUME Init PROVE IInv
  OBVIOUS
<1>1. TypeOK
  BY TypeInit
<1>2. RunShape
  BY DEF Init, RunShape, NoEdges
<1>3. Held(faults) \in Nat /\ Held(1 + faults) \in Nat
  BY GraphAssumption DEF Init, Held, GraphAssumption
<1>4. RowsBelow
  <2>1. \A b \in Builders, i \in Items, n \in Names :
            edges[b][<<i, n>>] = 0 /\ plan[b][<<i, n>>] = 0
    BY ItemEdge DEF Init, NoEdges
  <2>2. 0 <= Held(faults) /\ 0 + 0 <= Held(1 + faults)
    BY <1>3
  <2> QED BY <2>1, <2>2 DEF RowsBelow
<1> QED BY <1>1, <1>2, <1>4 DEF IInv

\* Every step keeps the shape of the runs (phase, todo, current and plan of
\* run and process_group_batch).
LEMMA ShapeStep == TypeOK /\ RunShape /\ [Next]_vars => RunShape'
<1> SUFFICES ASSUME TypeOK, RunShape, [Next]_vars PROVE RunShape'
  OBVIOUS
<1> USE DEF TypeOK, RunShape
<1>0. \A e \in Edges : NoEdges[e] = 0
  BY DEF NoEdges
<1>1. ASSUME NEW i \in Items, StoreItem(i) PROVE RunShape'
  BY <1>1 DEF StoreItem, locals
<1>2. ASSUME NEW b \in Builders, Start(b) PROVE RunShape'
  BY <1>2 DEF Start, Goto
<1>3. ASSUME NEW b \in Builders, ReadBatch(b) PROVE RunShape'
  BY <1>3 DEF ReadBatch, Goto
<1>4. ASSUME NEW b \in Builders, Finish(b) PROVE RunShape'
  BY <1>4 DEF Finish, Goto
<1>5. ASSUME NEW b \in Builders, TakeGroup(b) PROVE RunShape'
  BY <1>5 DEF TakeGroup, Goto
<1>6. ASSUME NEW b \in Builders, BatchDone(b) PROVE RunShape'
  BY <1>6 DEF BatchDone, Goto
<1>7. ASSUME NEW b \in Builders, Extract(b) PROVE RunShape'
  BY <1>7 DEF Extract, Goto
<1>8. ASSUME NEW b \in Builders, ExtractFails(b) PROVE RunShape'
  BY <1>8 DEF ExtractFails, Goto
<1>9. ASSUME NEW b \in Builders, NEW e \in Edges, AddEdge(b, e) PROVE RunShape'
  BY <1>9 DEF AddEdge
<1>10. ASSUME NEW b \in Builders, AllAdded(b) PROVE RunShape'
  BY <1>10 DEF AllAdded, Goto
<1>11. ASSUME NEW b \in Builders, MarkProcessed(b) PROVE RunShape'
  BY <1>0, <1>11 DEF MarkProcessed, Goto
<1>12. ASSUME NEW b \in Builders, RecentError(b) PROVE RunShape'
  BY <1>12 DEF RecentError, Goto
<1>13. ASSUME NEW b \in Builders, AddError(b) PROVE RunShape'
  BY <1>0, <1>13 DEF AddError, Goto
<1>14. ASSUME NEW b \in Builders, RunError(b) PROVE RunShape'
  BY <1>0, <1>14 DEF RunError, Return, Goto
<1>15. CASE Crash
  BY <1>0, <1>15 DEF Crash
<1>16. CASE UNCHANGED vars
  BY <1>16 DEF vars, locals
<1> QED
  BY <1>1, <1>2, <1>3, <1>4, <1>5, <1>6, <1>7, <1>8, <1>9, <1>10, <1>11,
     <1>12, <1>13, <1>14, <1>15, <1>16 DEF Next, Proceed

\* A step that counts a fault and inserts only what was still to be inserted
\* leaves every count below: each fault makes room for a whole response.
LEMMA FaultPays ==
    ASSUME IInv, TypeOK', Fault,
           \A b \in Builders, i \in Items, n \in Names :
               edges'[b][<<i, n>>] + plan'[b][<<i, n>>]
                   <= edges[b][<<i, n>>] + plan[b][<<i, n>>]
    PROVE  RowsBelow'
<1>1. SUFFICES ASSUME NEW b \in Builders, NEW i \in Items, NEW n \in Names
               PROVE  /\ edges'[b][<<i, n>>] + plan'[b][<<i, n>>] <= Held(1 + faults')
                      /\ edges'[b][<<i, n>>] <= Held(faults')
  BY DEF RowsBelow, Held
<1>2. /\ edges'[b][<<i, n>>] \in Nat /\ plan'[b][<<i, n>>] \in Nat
      /\ edges[b][<<i, n>>] \in Nat /\ plan[b][<<i, n>>] \in Nat
      /\ faults \in Nat /\ MaxRepeats \in Nat
  BY ItemEdge, GraphAssumption DEF IInv, TypeOK, GraphAssumption
<1>3. faults' = 1 + faults
  BY <1>2 DEF Fault
<1>4. edges[b][<<i, n>>] + plan[b][<<i, n>>] <= Held(1 + faults)
  BY DEF IInv, RowsBelow
<1>5. /\ Held(1 + faults) \in Nat
      /\ Held(1 + (1 + faults)) = Held(1 + faults) + MaxRepeats
  BY <1>2, HeldStep
<1> HIDE DEF Held
<1> QED BY <1>2, <1>3, <1>4, <1>5

\* A step that inserts nothing and lets nothing new be awaited keeps every
\* count.
LEMMA NothingNew ==
    ASSUME IInv, edges' = edges, plan' = plan, faults' = faults,
           \A b \in Builders, i \in Items : Awaits(b, i)' => Awaits(b, i)
    PROVE  RowsBelow'
BY DEF IInv, RowsBelow, Held

\* A response adds what it holds, about items that were awaiting it.
LEMMA ExtractRows ==
    ASSUME IInv, NEW b \in Builders, Extract(b) PROVE RowsBelow'
<1>1. TypeOK /\ RunShape /\ RowsBelow
  BY DEF IInv
<1>2. PICK response \in [Edges -> 0..MaxRepeats] :
          /\ \A e \in Edges : e[1] \notin current[b] \cup Names => response[e] = 0
          /\ plan' = [plan EXCEPT ![b] = response]
  BY DEF Extract
<1>3. /\ phase[b] = "extracting" /\ phase' = [phase EXCEPT ![b] = "writing"]
      /\ UNCHANGED <<edges, processed, todo, current, faults>>
  BY DEF Extract, Goto, tables
<1>4. SUFFICES ASSUME NEW c \in Builders, NEW i \in Items, NEW n \in Names
               PROVE  /\ edges[c][<<i, n>>] + plan'[c][<<i, n>>] <= Held(1 + faults)
                      /\ Awaits(c, i)' => edges[c][<<i, n>>] <= Held(faults)
  BY <1>3 DEF RowsBelow, Held
<1>5. Awaits(c, i)' => Awaits(c, i)
  BY <1>1, <1>3 DEF Awaits, TypeOK
<1>6. /\ edges[c][<<i, n>>] + plan[c][<<i, n>>] <= Held(1 + faults)
      /\ Awaits(c, i) => edges[c][<<i, n>>] <= Held(faults)
  BY <1>1 DEF RowsBelow
<1>7. <<i, n>> \in Edges /\ <<i, n>>[1] = i /\ i \notin Names
  BY ItemEdge, GraphAssumption DEF GraphAssumption
<1>8. CASE c # b
  BY <1>1, <1>2, <1>5, <1>6, <1>8 DEF TypeOK
<1>9. CASE c = b /\ i \notin current[b]
  <2>1. plan'[c][<<i, n>>] = 0 /\ plan[c][<<i, n>>] = 0
    BY <1>1, <1>2, <1>7, <1>9 DEF TypeOK, RunShape
  <2> QED BY <1>5, <1>6, <2>1
<1>10. CASE c = b /\ i \in current[b]
  <2>1. plan'[c][<<i, n>>] \in 0..MaxRepeats
    BY <1>1, <1>2, <1>7, <1>10 DEF TypeOK
  <2>2. edges[c][<<i, n>>] <= Held(faults)
    BY <1>3, <1>6, <1>10 DEF Awaits
  <2>3. edges[c][<<i, n>>] \in Nat /\ faults \in Nat /\ MaxRepeats \in Nat
    BY <1>1, CountTypes
  <2>4. Held(faults) \in Nat /\ Held(1 + faults) = Held(faults) + MaxRepeats
    BY <2>3, HeldStep
  <2> HIDE DEF Held
  <2> QED BY <2>1, <2>2, <2>3, <2>4
<1> QED BY <1>8, <1>9, <1>10

\* Inserting an edge moves it from what is left to the rows.
LEMMA AddEdgeRows ==
    ASSUME IInv, NEW b \in Builders, NEW e \in Edges, AddEdge(b, e)
    PROVE  RowsBelow'
<1>1. TypeOK /\ RunShape /\ RowsBelow /\ phase[b] = "writing" /\ plan[b][e] > 0
  BY DEF IInv, AddEdge
<1>2. UNCHANGED <<processed, phase, todo, current, faults>>
  BY DEF AddEdge
<1>3. /\ edges'[b][e] = edges[b][e] + 1 /\ plan'[b][e] = plan[b][e] - 1
      /\ \A c \in Builders, d \in Edges :
             c # b \/ d # e => /\ edges'[c][d] = edges[c][d]
                              /\ plan'[c][d] = plan[c][d]
  <2>1. /\ edges' = [edges EXCEPT ![b][e] = @ + 1]
        /\ plan' = [plan EXCEPT ![b][e] = @ - 1]
    BY DEF AddEdge
  <2>2. /\ edges'[b][e] = edges[b][e] + 1
        /\ \A c \in Builders, d \in Edges :
               c # b \/ d # e => edges'[c][d] = edges[c][d]
    BY <1>1, <2>1, OneMoreRow
  <2>3. /\ plan'[b][e] = plan[b][e] - 1
        /\ \A c \in Builders, d \in Edges :
               c # b \/ d # e => plan'[c][d] = plan[c][d]
    BY <1>1, <2>1, OneLeftLess
  <2> QED BY <2>2, <2>3
<1>4. SUFFICES ASSUME NEW c \in Builders, NEW i \in Items, NEW n \in Names
               PROVE  /\ edges'[c][<<i, n>>] + plan'[c][<<i, n>>] <= Held(1 + faults)
                      /\ Awaits(c, i) => edges'[c][<<i, n>>] <= Held(faults)
  BY <1>2 DEF RowsBelow, Held, Awaits
<1>5. /\ edges[c][<<i, n>>] + plan[c][<<i, n>>] <= Held(1 + faults)
      /\ Awaits(c, i) => edges[c][<<i, n>>] <= Held(faults)
  BY <1>1 DEF RowsBelow
<1>6. <<i, n>> \in Edges /\ <<i, n>>[1] = i /\ i \notin Names
  BY ItemEdge, GraphAssumption DEF GraphAssumption
<1>7. CASE c = b /\ <<i, n>> = e
  <2>1. i \in current[b] /\ i \notin todo[b]
    BY <1>1, <1>6, <1>7 DEF RunShape
  <2>2. ~ Awaits(c, i)
    BY <1>1, <1>7, <2>1 DEF Awaits
  <2>3. edges[c][<<i, n>>] \in Nat /\ plan[c][<<i, n>>] \in Int
    BY <1>1, CountTypes
  <2>4. edges'[c][<<i, n>>] + plan'[c][<<i, n>>]
            = edges[c][<<i, n>>] + plan[c][<<i, n>>]
    BY <1>3, <1>7, <2>3
  <2> QED BY <1>5, <2>2, <2>4
<1>8. CASE ~ (c = b /\ <<i, n>> = e)
  BY <1>3, <1>5, <1>6, <1>8
<1> QED BY <1>7, <1>8

\* An insert that fails may have left its row, and gives up the others.
LEMMA AddErrorRows ==
    ASSUME IInv, TypeOK', NEW b \in Builders, AddError(b) PROVE RowsBelow'
<1>1. TypeOK /\ Fault /\ plan' = [plan EXCEPT ![b] = NoEdges]
  BY DEF IInv, AddError
<1>2. ASSUME NEW c \in Builders, NEW i \in Items, NEW n \in Names
      PROVE  edges'[c][<<i, n>>] + plan'[c][<<i, n>>]
                 <= edges[c][<<i, n>>] + plan[c][<<i, n>>]
  <2>1. <<i, n>> \in Edges
    BY ItemEdge
  <2>2. edges[c][<<i, n>>] \in Nat /\ plan[c][<<i, n>>] \in Nat
    BY <1>1, CountTypes
  <2>3. plan'[c][<<i, n>>] = IF c = b THEN 0 ELSE plan[c][<<i, n>>]
    BY <1>1, <2>1 DEF TypeOK, NoEdges
  <2>4. CASE UNCHANGED edges
    BY <2>2, <2>3, <2>4
  <2>5. CASE \E e \in Edges : /\ plan[b][e] > 0
                             /\ edges' = [edges EXCEPT ![b][e] = @ + 1]
    <3>1. PICK e \in Edges : /\ plan[b][e] > 0
                             /\ edges' = [edges EXCEPT ![b][e] = @ + 1]
      BY <2>5
    <3>2. /\ edges'[b][e] = edges[b][e] + 1
          /\ c # b \/ <<i, n>> # e => edges'[c][<<i, n>>] = edges[c][<<i, n>>]
      BY <1>1, <2>1, <3>1, OneMoreRow
    <3>3. CASE c = b /\ <<i, n>> = e
      BY <2>2, <2>3, <3>1, <3>2, <3>3
    <3>4. CASE ~ (c = b /\ <<i, n>> = e)
      BY <2>2, <2>3, <3>2, <3>4
    <3> QED BY <3>3, <3>4
  <2> QED BY <2>4, <2>5 DEF AddError
<1> QED BY <1>1, <1>2, FaultPays

\* Every step keeps the counts (edges::insert and everything around it).
LEMMA CountStep == IInv /\ TypeOK' /\ [Next]_vars => RowsBelow'
<1> SUFFICES ASSUME IInv, TypeOK', [Next]_vars PROVE RowsBelow'
  OBVIOUS
<1> DEFINE NoNews == \A b \in Builders, i \in Items : Awaits(b, i)' => Awaits(b, i)
<1>0. TypeOK /\ RunShape
  BY DEF IInv
<1>1. CASE UNCHANGED vars \/ \E i \in Items : StoreItem(i)
  <2>1. NoNews /\ UNCHANGED <<edges, plan, faults>>
    BY <1>1 DEF StoreItem, vars, tables, locals, Awaits
  <2> QED BY <2>1, NothingNew
<1>2. ASSUME NEW b \in Builders,
             Start(b) \/ Finish(b) \/ BatchDone(b) \/ ExtractFails(b) \/ AllAdded(b)
      PROVE  RowsBelow'
  <2>1. NoNews
    BY <1>0, <1>2 DEF Start, Finish, BatchDone, ExtractFails, AllAdded, Goto, tables,
       Awaits, TypeOK
  <2> QED BY <1>2, <2>1, NothingNew DEF Start, Finish, BatchDone, ExtractFails,
          AllAdded, tables
<1>3. ASSUME NEW b \in Builders, ReadBatch(b) PROVE RowsBelow'
  <2>1. NoNews
    BY <1>0, <1>3
    DEF ReadBatch, Goto, tables, Awaits, TypeOK, RunShape, Unprocessed, Stored
  <2> QED BY <1>3, <2>1, NothingNew DEF ReadBatch, tables
<1>4. ASSUME NEW b \in Builders, TakeGroup(b) PROVE RowsBelow'
  <2>1. NoNews
    BY <1>0, <1>4 DEF TakeGroup, Goto, tables, Awaits, TypeOK, RunShape
  <2> QED BY <1>4, <2>1, NothingNew DEF TakeGroup, tables
<1>5. ASSUME NEW b \in Builders, MarkProcessed(b) PROVE RowsBelow'
  <2>1. NoNews
    BY <1>0, <1>5 DEF MarkProcessed, Goto, Awaits, TypeOK
  <2> QED BY <1>5, <2>1, NothingNew DEF MarkProcessed
<1>6. ASSUME NEW b \in Builders, RecentError(b) \/ RunError(b) PROVE RowsBelow'
  <2>1. Fault /\ UNCHANGED <<edges, plan>>
    BY <1>6 DEF RecentError, RunError, tables
  <2>2. ASSUME NEW c \in Builders, NEW i \in Items, NEW n \in Names
        PROVE  edges[c][<<i, n>>] \in Nat /\ plan[c][<<i, n>>] \in Nat
    BY <1>0, CountTypes
  <2> QED BY <2>1, <2>2, FaultPays
<1>7. CASE Crash
  <2>1. Fault /\ UNCHANGED edges
        /\ \A c \in Builders, e \in Edges : plan'[c][e] = 0
    BY <1>7 DEF Crash, tables, NoEdges
  <2>2. ASSUME NEW c \in Builders, NEW i \in Items, NEW n \in Names
        PROVE  edges[c][<<i, n>>] \in Nat /\ plan[c][<<i, n>>] \in Nat
    BY <1>0, CountTypes
  <2> QED BY <2>1, <2>2, ItemEdge, FaultPays
<1> QED
  BY <1>1, <1>2, <1>3, <1>4, <1>5, <1>6, <1>7, ExtractRows, AddEdgeRows,
     AddErrorRows DEF Next, Proceed

\* One builder inserts an edge of an item as often as one response can hold
\* it, and again only on account of an error or a restart, however runs
\* overlap and items arrive (run, process_group_batch, items::unprocessed).
THEOREM BuiltOncePerBuilder == Spec => []OncePerBuilder
<1>1. IInv /\ [Next]_vars => IInv'
  BY TypeStep, ShapeStep, CountStep DEF IInv
<1>2. IInv => OncePerBuilder
  <2> SUFFICES ASSUME IInv, NEW b \in Builders, NEW i \in Items, NEW n \in Names
               PROVE  edges[b][<<i, n>>] <= MaxRepeats * (1 + faults)
    BY DEF OncePerBuilder
  <2>1. edges[b][<<i, n>>] + plan[b][<<i, n>>] <= Held(1 + faults)
    BY DEF IInv, RowsBelow
  <2>2. edges[b][<<i, n>>] \in Nat /\ plan[b][<<i, n>>] \in Nat /\ faults \in Nat
    BY CountTypes DEF IInv
  <2>3. Held(1 + faults) \in Nat
    BY <2>2, HeldStep
  <2>4. edges[b][<<i, n>>] <= Held(1 + faults)
    BY <2>1, <2>2, <2>3
  <2> QED BY <2>4 DEF Held
<1> QED BY InvInit, <1>1, <1>2, PTL DEF Spec
-----------------------------------------------------------------------------
\* Items marked, or about to be marked, although no model was asked.
WrittenOff ==
    {i \in Items : /\ i \notin tried
                   /\ \/ i \in processed
                      \/ \E b \in Builders :
                             phase[b] = "marking" /\ i \in current[b]}

GroupsOf(S) == {GroupOf[i] : i \in S}

\* A run works on one group at a time, and only writes once it has asked.
OneGroup ==
    \A b \in Builders :
        /\ \A i, j \in current[b] : GroupOf[i] = GroupOf[j]
        /\ phase[b] = "writing" => current[b] \subseteq tried

OffInv == /\ TypeOK /\ RunShape /\ OneGroup
          /\ Cardinality(GroupsOf(WrittenOff)) <= faults

\* Of finitely many items there are finitely many groups, and no more of
\* fewer items.
LEMMA GroupsCount ==
    ASSUME NEW S \in SUBSET Items, NEW T \in SUBSET S
    PROVE  /\ IsFiniteSet(GroupsOf(S))
           /\ Cardinality(GroupsOf(S)) \in Nat
           /\ Cardinality(GroupsOf(T)) \in Nat
           /\ Cardinality(GroupsOf(T)) <= Cardinality(GroupsOf(S))
<1>1. IsFiniteSet(S)
  BY GraphAssumption, FS_Subset DEF GraphAssumption
<1>2. IsFiniteSet(GroupsOf(S))
  <2> DEFINE f == [i \in S |-> GroupOf[i]]
  <2>1. f \in Surjection(S, GroupsOf(S))
    BY DEF GroupsOf, Surjection
  <2> HIDE DEF f
  <2> QED BY <1>1, <2>1, FS_Surjection
<1>3. GroupsOf(T) \subseteq GroupsOf(S)
  BY DEF GroupsOf
<1> QED BY <1>2, <1>3, FS_Subset, FS_CardinalityType

\* Every step keeps runs to one group at a time (run, process_group_batch).
LEMMA OneGroupStep == TypeOK /\ RunShape /\ OneGroup /\ [Next]_vars => OneGroup'
<1> SUFFICES ASSUME TypeOK, RunShape, OneGroup, [Next]_vars PROVE OneGroup'
  OBVIOUS
<1> USE DEF TypeOK, OneGroup
<1>1. ASSUME NEW i \in Items, StoreItem(i) PROVE OneGroup'
  BY <1>1 DEF StoreItem, locals
<1>2. ASSUME NEW b \in Builders, Start(b) PROVE OneGroup'
  BY <1>2 DEF Start, Goto
<1>3. ASSUME NEW b \in Builders, ReadBatch(b) PROVE OneGroup'
  BY <1>3 DEF ReadBatch, Goto
<1>4. ASSUME NEW b \in Builders, Finish(b) PROVE OneGroup'
  BY <1>4 DEF Finish, Goto
<1>5. ASSUME NEW b \in Builders, TakeGroup(b) PROVE OneGroup'
  BY <1>5 DEF TakeGroup, Goto
<1>6. ASSUME NEW b \in Builders, BatchDone(b) PROVE OneGroup'
  BY <1>6 DEF BatchDone, Goto
<1>7. ASSUME NEW b \in Builders, Extract(b) PROVE OneGroup'
  BY <1>7 DEF Extract, Goto
<1>8. ASSUME NEW b \in Builders, ExtractFails(b) PROVE OneGroup'
  BY <1>8 DEF ExtractFails, Goto
<1>9. ASSUME NEW b \in Builders, NEW e \in Edges, AddEdge(b, e) PROVE OneGroup'
  BY <1>9 DEF AddEdge
<1>10. ASSUME NEW b \in Builders, AllAdded(b) PROVE OneGroup'
  BY <1>10 DEF AllAdded, Goto
<1>11. ASSUME NEW b \in Builders, MarkProcessed(b) PROVE OneGroup'
  BY <1>11 DEF MarkProcessed, Goto
<1>12. ASSUME NEW b \in Builders, RecentError(b) PROVE OneGroup'
  BY <1>12 DEF RecentError, Goto
<1>13. ASSUME NEW b \in Builders, AddError(b) PROVE OneGroup'
  BY <1>13 DEF AddError, Goto
<1>14. ASSUME NEW b \in Builders, RunError(b) PROVE OneGroup'
  BY <1>14 DEF RunError, Return, Goto
<1>15. CASE Crash
  BY <1>15 DEF Crash
<1>16. CASE UNCHANGED vars
  BY <1>16 DEF vars, locals
<1> QED
  BY <1>1, <1>2, <1>3, <1>4, <1>5, <1>6, <1>7, <1>8, <1>9, <1>10, <1>11,
     <1>12, <1>13, <1>14, <1>15, <1>16 DEF Next, Proceed

\* Only an error before the model is asked writes items off (RecentError).
LEMMA WrittenOffStep ==
    ASSUME TypeOK, OneGroup, [Next]_vars
    PROVE  \/ WrittenOff' \subseteq WrittenOff /\ faults' \in {faults, faults + 1}
           \/ \E b \in Builders : /\ WrittenOff' \subseteq WrittenOff \cup current[b]
                                  /\ faults' = faults + 1
<1> DEFINE Kept == WrittenOff' \subseteq WrittenOff
           Steps == faults' \in {faults, faults + 1}
<1> USE DEF TypeOK, OneGroup, WrittenOff
<1>1. ASSUME NEW i \in Items, StoreItem(i) PROVE Kept /\ Steps
  BY <1>1 DEF StoreItem, locals
<1>2. ASSUME NEW b \in Builders, Start(b) PROVE Kept /\ Steps
  BY <1>2 DEF Start, Goto, tables
<1>3. ASSUME NEW b \in Builders, ReadBatch(b) PROVE Kept /\ Steps
  BY <1>3 DEF ReadBatch, Goto, tables
<1>4. ASSUME NEW b \in Builders, Finish(b) PROVE Kept /\ Steps
  BY <1>4 DEF Finish, Goto, tables
<1>5. ASSUME NEW b \in Builders, TakeGroup(b) PROVE Kept /\ Steps
  BY <1>5 DEF TakeGroup, Goto, tables
<1>6. ASSUME NEW b \in Builders, BatchDone(b) PROVE Kept /\ Steps
  BY <1>6 DEF BatchDone, Goto, tables
<1>7. ASSUME NEW b \in Builders, Extract(b) PROVE Kept /\ Steps
  BY <1>7 DEF Extract, Goto, tables
<1>8. ASSUME NEW b \in Builders, ExtractFails(b) PROVE Kept /\ Steps
  BY <1>8 DEF ExtractFails, Goto, tables
<1>9. ASSUME NEW b \in Builders, NEW e \in Edges, AddEdge(b, e)
      PROVE  Kept /\ Steps
  BY <1>9 DEF AddEdge
<1>10. ASSUME NEW b \in Builders, AllAdded(b) PROVE Kept /\ Steps
  BY <1>10 DEF AllAdded, Goto, tables
<1>11. ASSUME NEW b \in Builders, MarkProcessed(b) PROVE Kept /\ Steps
  BY <1>11 DEF MarkProcessed, Goto
<1>12. ASSUME NEW b \in Builders, RecentError(b)
       PROVE  WrittenOff' \subseteq WrittenOff \cup current[b] /\ faults' = faults + 1
  BY <1>12 DEF RecentError, Fault, Goto, tables
<1>13. ASSUME NEW b \in Builders, AddError(b) PROVE Kept /\ Steps
  <2>1. /\ phase' = [phase EXCEPT ![b] = "marking"] /\ phase[b] = "writing"
        /\ faults' = faults + 1
        /\ UNCHANGED <<processed, current, tried>>
    BY <1>13 DEF AddError, Fault, Goto
  <2> QED BY <2>1
<1>14. ASSUME NEW b \in Builders, RunError(b) PROVE Kept /\ Steps
  BY <1>14 DEF RunError, Fault, Return, Goto
<1>15. CASE Crash
  BY <1>15 DEF Crash, Fault, tables
<1>16. CASE UNCHANGED vars
  BY <1>16 DEF vars, locals, tables
<1> HIDE DEF Kept, Steps, TypeOK, OneGroup, WrittenOff
<1>17. ASSUME NEW b \in Builders, Proceed(b) PROVE Kept /\ Steps
  BY <1>3, <1>4, <1>5, <1>6, <1>7, <1>8, <1>9, <1>10, <1>11, <1>17 DEF Proceed
<1>18. CASE \E b \in Builders : RecentError(b)
  BY <1>12, <1>18
<1>19. CASE ~ \E b \in Builders : RecentError(b)
  <2>1. CASE \E i \in Items : StoreItem(i)
    BY <1>1, <2>1 DEF Kept, Steps
  <2>2. CASE \E b \in Builders : Start(b) \/ Proceed(b)
    BY <1>2, <1>17, <2>2 DEF Kept, Steps
  <2>3. CASE \E b \in Builders : AddError(b) \/ RunError(b)
    BY <1>13, <1>14, <2>3 DEF Kept, Steps
  <2>4. CASE Crash \/ UNCHANGED vars
    BY <1>15, <1>16, <2>4 DEF Kept, Steps
  <2> QED BY <1>19, <2>1, <2>2, <2>3, <2>4 DEF Next
<1> QED BY <1>18, <1>19

\* Items are marked unseen only because of errors, each of which costs one
\* group its turn (run, entities::recent, mark_graph_processed).
THEOREM ErrorsWriteOff == Spec => []WrittenOffByErrors
<1>1. Init => OffInv
  <2> SUFFICES ASSUME Init PROVE OffInv
    OBVIOUS
  <2>1. WrittenOff = {} /\ OneGroup /\ RunShape /\ faults = 0
    BY DEF Init, WrittenOff, OneGroup, RunShape, NoEdges
  <2>2. GroupsOf({}) = {}
    BY DEF GroupsOf
  <2> QED BY <2>1, <2>2, TypeInit, FS_EmptySet DEF OffInv
<1>2. OffInv /\ [Next]_vars => OffInv'
  <2> SUFFICES ASSUME OffInv, [Next]_vars PROVE OffInv'
    OBVIOUS
  <2>1. TypeOK' /\ RunShape' /\ OneGroup'
    BY TypeStep, ShapeStep, OneGroupStep DEF OffInv
  <2>2. WrittenOff \in SUBSET Items /\ WrittenOff' \in SUBSET Items
    BY DEF WrittenOff
  <2>3. faults \in Nat /\ Cardinality(GroupsOf(WrittenOff)) <= faults
    BY GraphAssumption DEF OffInv, TypeOK, GraphAssumption
  <2>4. ASSUME WrittenOff' \subseteq WrittenOff, faults' \in {faults, faults + 1}
        PROVE  Cardinality(GroupsOf(WrittenOff')) <= faults'
    BY <2>2, <2>3, <2>4, GroupsCount
  <2>5. ASSUME NEW b \in Builders,
               WrittenOff' \subseteq WrittenOff \cup current[b],
               faults' = faults + 1
        PROVE  Cardinality(GroupsOf(WrittenOff')) <= faults'
    <3>1. current[b] \subseteq Items
      BY DEF OffInv, TypeOK
    <3>2. CASE current[b] = {}
      BY <2>2, <2>3, <2>5, <3>2, GroupsCount
    <3>3. CASE current[b] # {}
      <4>1. PICK i \in current[b] : TRUE
        BY <3>3
      <4>2. \A j \in current[b] : GroupOf[j] = GroupOf[i]
        BY <4>1 DEF OffInv, OneGroup
      <4>3. GroupsOf(WrittenOff \cup current[b])
              = GroupsOf(WrittenOff) \cup {GroupOf[i]}
        BY <4>1, <4>2 DEF GroupsOf
      <4>4. Cardinality(GroupsOf(WrittenOff \cup current[b])) <= faults + 1
        <5>1. IsFiniteSet(GroupsOf(WrittenOff))
          BY <2>2, GroupsCount
        <5> DEFINE G == GroupsOf(WrittenOff)
                   g == GroupOf[i]
        <5> HIDE DEF G, g
        <5>2. Cardinality(G) \in Nat
          BY <5>1, FS_CardinalityType DEF G
        <5>3. Cardinality(G \cup {g})
                = IF g \in G THEN Cardinality(G) ELSE Cardinality(G) + 1
          BY <5>1, FS_AddElement DEF G
        <5>4. Cardinality(G \cup {g}) <= Cardinality(G) + 1
          BY <5>2, <5>3
        <5>5. Cardinality(G) <= faults
          BY <2>3 DEF G
        <5>6. Cardinality(G \cup {g}) \in Nat
          BY <5>2, <5>3
        <5>7. Cardinality(G \cup {g}) <= faults + 1
          BY <2>3, <5>2, <5>4, <5>5, <5>6
        <5> QED BY <4>3, <5>7 DEF G, g
      <4> QED BY <2>2, <2>5, <3>1, <4>4, GroupsCount
    <3> QED BY <3>2, <3>3
  <2>6. Cardinality(GroupsOf(WrittenOff')) <= faults'
    BY <2>4, <2>5, WrittenOffStep DEF OffInv
  <2> QED BY <2>1, <2>6 DEF OffInv, GroupsOf
<1>3. OffInv => WrittenOffByErrors
  <2> SUFFICES ASSUME OffInv PROVE WrittenOffByErrors
    OBVIOUS
  <2>1. processed \ tried \subseteq WrittenOff /\ WrittenOff \in SUBSET Items
    BY DEF OffInv, TypeOK, WrittenOff
  <2>2. /\ Cardinality(GroupsOf(processed \ tried)) \in Nat
        /\ Cardinality(GroupsOf(WrittenOff)) \in Nat
        /\ Cardinality(GroupsOf(processed \ tried))
             <= Cardinality(GroupsOf(WrittenOff))
    BY <2>1, GroupsCount
  <2>3. faults \in Nat
    BY GraphAssumption DEF OffInv, TypeOK, GraphAssumption
  <2> QED BY <2>2, <2>3 DEF OffInv, WrittenOffByErrors, GroupsOf
<1> QED BY <1>1, <1>2, <1>3, PTL DEF Spec
=============================================================================
