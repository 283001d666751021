------------------------------ MODULE AgentLoop ------------------------------
(***************************************************************************)
(* One /ask: query/agent.rs asks the model, turn by turn, for an answer or *)
(* for tool calls, which mcp/toolbox.rs runs; query/handler.rs turns its   *)
(* errors into a reply.  Questions run concurrently: they share the chat   *)
(* sessions (db/sessions.rs) and their user's core memory                  *)
(* (db/agent_memory.rs), whose blocks are read, edited and written back.   *)
(*                                                                         *)
(* A call stands for a tool name with its arguments.  What the model says  *)
(* and what the tools find is left open; a block of core memory is the set *)
(* of the notes in it, each named by the call that wrote it.               *)
(***************************************************************************)
EXTENDS Naturals, Sequences, FiniteSets, SequencesExt, FiniteSetsExt

CONSTANTS Questions,
          Chat,              \* Chat[q]: the chat q is asked in, by one user
          Calls,
          Tool,              \* Tool[c]: the tool of call c
          Plans,             \* Plans[q]: the lists of calls the model may make
          Size, Old,         \* of a memory edit: its length, the note it replaces
          Items, Pages,      \* captures and web pages
          ItemHits, PageHits,\* what a search may return of them
          MaxTurns,          \* MAX_TURNS, 5
          MaxCallsPerTurn,   \* MAX_CALLS_PER_TURN, 3
          MaxSources,        \* MAX_SOURCES, 8
          BlockLimit,        \* DEFAULT_CHAR_LIMIT
          TurnsForPrompt,    \* MAX_TURNS_FOR_PROMPT, 6
          TurnsStored        \* MAX_TURNS_STORED, 24

Tools == {"search_brain", "graph_lookup", "web_search", "fetch_url",
          "search_chat_history", "core_memory_append", "core_memory_replace",
          "archival_memory_insert", "archival_memory_search", "bash_exec",
          "file_read", "file_write", "integration", "unknown"}

ASSUME AgentAssumption ==
    /\ IsFiniteSet(Questions) /\ IsFiniteSet(Calls)
    /\ \A q \in Questions : Plans[q] \subseteq Seq(Calls) \ {<<>>}
    /\ Tool \in [Calls -> Tools]
    /\ Size \in [Calls -> Nat] /\ Old \in [Calls -> Calls]
    /\ ItemHits \subseteq Seq(Items) /\ PageHits \subseteq Seq(Pages)
    /\ {MaxTurns, MaxCallsPerTurn, MaxSources, BlockLimit} \subseteq Nat \ {0}
    /\ {TurnsForPrompt, TurnsStored} \subseteq {2 * n : n \in 1..12}

VARIABLES
    pc,      \* where each question is
    local,   \* what the loop holds of each, see Loop
    reply,   \* the kind of reply sent
    block,   \* agent_memory_blocks
    turns,   \* session_turns of each chat
    \* Observations: how often a call took effect outside, and the numbers
    \* under which the transcript showed the model captures.
    acted, shown

vars == <<pc, local, reply, block, turns, acted, shown>>

Chats == {Chat[q] : q \in Questions}
Numbered == (1..MaxSources) \X Items
Rows == [question : Questions, role : {"user", "assistant"}, at : Nat]

\* turn: turns used; repaired: the model was asked once for valid JSON;
\* pending: calls of this turn still to run; found, pages: Sources, by number;
\* memo: the block an edit has read; cited: the sources the answer names.
Loops ==
    [turn : 0..MaxTurns, repaired : BOOLEAN, called : SUBSET Calls,
     pending : {s \in Seq(Calls) : Len(s) <= MaxCallsPerTurn},
     found : {s \in Seq(Items) : Len(s) <= MaxSources}, pages : Seq(Pages),
     memo : SUBSET Calls, cited : SUBSET Numbered,
     session : BOOLEAN, history : SUBSET Rows]
Loop == [turn |-> 0, repaired |-> FALSE, called |-> {}, pending |-> <<>>,
         found |-> <<>>, pages |-> <<>>, memo |-> {}, cited |-> {},
         session |-> FALSE, history |-> {}]

TypeOK ==
    /\ pc \in [Questions -> {"new", "loading", "model", "calling", "editing",
                             "saving", "done", "gone"}]
    /\ local \in [Questions -> Loops]
    /\ reply \in [Questions -> {"none", "chitchat", "answer", "error"}]
    /\ block \subseteq Calls
    /\ turns \in [Chats -> SUBSET Rows]
    /\ acted \in [Questions -> [Calls -> Nat]]
    /\ shown \in [Questions -> SUBSET Numbered]

Init ==
    /\ pc = [q \in Questions |-> "new"]
    /\ local = [q \in Questions |-> Loop]
    /\ reply = [q \in Questions |-> "none"]
    /\ block = {} /\ turns = [c \in Chats |-> {}]
    /\ acted = [q \in Questions |-> [c \in Calls |-> 0]]
    /\ shown = [q \in Questions |-> {}]

GoTo(q, p) == pc' = [pc EXCEPT ![q] = p]

\* The question is replied to, and its loop is gone.
Reply(q, kind) ==
    /\ reply' = [reply EXCEPT ![q] = kind]
    /\ local' = [local EXCEPT ![q] = Loop] /\ shown' = [shown EXCEPT ![q] = {}]
    /\ GoTo(q, "done")
-----------------------------------------------------------------------------
(* The chat session.                                                       *)

\* The rows a LIMIT by created_at alone may keep: those of one instant in
\* any order.
Latest(rows, limit) ==
    {kept \in SUBSET rows :
        /\ Cardinality(kept) = Min({limit, Cardinality(rows)})
        /\ \A r \in kept, s \in rows \ kept : r.at >= s.at}

Exchange(q) ==
    LET now == 1 + Max({0} \cup {r.at : r \in turns[Chat[q]]})
    IN  {[question |-> q, role |-> role, at |-> now] : role \in {"user", "assistant"}}

\* append_exchange: one transaction inserts both turns and trims the rest.
AppendExchange(q) ==
    \E kept \in Latest(turns[Chat[q]] \cup Exchange(q), TurnsStored) :
        turns' = [turns EXCEPT ![Chat[q]] = kept]

\* Small talk is answered without the loop.
Ask(q) ==
    /\ pc[q] = "new"
    /\ \/ GoTo(q, "loading") /\ UNCHANGED <<local, reply, shown>>
       \/ Reply(q, "chitchat")
    /\ UNCHANGED <<block, turns, acted>>

\* get_or_create and recent_turns: there is one session of a user and a chat.
\* Without it there is no history, and turns that cannot be read are none.
OpenSession(q) ==
    \/ \E read \in Latest(turns[Chat[q]], TurnsForPrompt) \cup {{}} :
           local' = [local EXCEPT ![q].session = TRUE, ![q].history = read]
    \/ UNCHANGED local

\* The session and the memory are read, errors aside.
Load(q) ==
    /\ pc[q] = "loading" /\ GoTo(q, "model")
    /\ OpenSession(q)
    /\ UNCHANGED <<reply, block, turns, acted, shown>>

\* The reply is sent whether or not the exchange could be stored.
Save(q) ==
    /\ pc[q] = "saving" /\ Reply(q, "answer")
    /\ \/ local[q].session /\ AppendExchange(q)
       \/ UNCHANGED turns
    /\ UNCHANGED <<block, acted>>
-----------------------------------------------------------------------------
(* The model's turns.                                                      *)

HasTurn(q) == pc[q] = "model" /\ local[q].turn < MaxTurns

\* handle_or_fallback: an error of the loop becomes a reply, and no turn of
\* the conversation is stored.
ModelFails(q) ==
    /\ pc[q] = "model" /\ Reply(q, "error")
    /\ UNCHANGED <<block, turns, acted>>

\* One repair; the second malformed reply is an error.
Malformed(q) ==
    /\ HasTurn(q)
    /\ \/ /\ ~local[q].repaired
          /\ local' = [local EXCEPT ![q].repaired = TRUE, ![q].turn = @ + 1]
          /\ UNCHANGED <<pc, reply, shown>>
       \/ local[q].repaired /\ Reply(q, "error")
    /\ UNCHANGED <<block, turns, acted>>

\* A final message, or one without calls, and the numbers in it that name a
\* source.  After the last turn whatever the model says is the message.
Answer(q, numbers) ==
    /\ pc[q] = "model" /\ GoTo(q, "saving")
    /\ LET found == local[q].found
       IN  local' = [local EXCEPT ![q].cited =
                        {<<n, found[n]>> : n \in numbers \cap DOMAIN found}]
    /\ UNCHANGED <<reply, block, turns, acted, shown>>

SayNothing(q) ==
    /\ HasTurn(q)
    /\ local' = [local EXCEPT ![q].turn = @ + 1]
    /\ UNCHANGED <<pc, reply, block, turns, acted, shown>>

\* Wrong: every call of the list is made.
PlanAll(q, plan) ==
    /\ HasTurn(q) /\ GoTo(q, "calling")
    /\ local' = [local EXCEPT ![q].turn = @ + 1, ![q].pending = plan]
    /\ UNCHANGED <<reply, block, turns, acted, shown>>

\* Wrong: only turns without calls are counted.
PlanFree(q, plan) ==
    /\ HasTurn(q) /\ GoTo(q, "calling")
    /\ local' = [local EXCEPT ![q].pending =
                    SubSeq(plan, 1, Min({Len(plan), MaxCallsPerTurn}))]
    /\ UNCHANGED <<reply, block, turns, acted, shown>>

Plan(q, plan) ==
    /\ HasTurn(q) /\ GoTo(q, "calling")
    /\ local' = [local EXCEPT ![q].turn = @ + 1, ![q].pending =
                    SubSeq(plan, 1, Min({Len(plan), MaxCallsPerTurn}))]
    /\ UNCHANGED <<reply, block, turns, acted, shown>>
-----------------------------------------------------------------------------
(* The tool calls, one after the other.                                    *)

Call(q) == Head(local[q].pending)

\* The next call, or the next turn, with what the call leaves in the loop.
Proceed(q, after) ==
    /\ GoTo(q, IF Len(after.pending) = 1 THEN "model" ELSE "calling")
    /\ local' = [local EXCEPT ![q] = [after EXCEPT !.pending = Tail(@)]]

\* A call is made once, whatever comes of it.
Dispatched(q, tools) ==
    pc[q] = "calling" /\ Call(q) \notin local[q].called /\ Tool[Call(q)] \in tools

Noted(q) == [local[q] EXCEPT !.called = @ \cup {Call(q)}]

\* Text for the model and nothing else.
TextOnly(q) ==
    /\ Proceed(q, Noted(q))
    /\ UNCHANGED <<reply, block, turns, acted, shown>>

\* The same call again is not made.
RepeatedCall(q) ==
    pc[q] = "calling" /\ Call(q) \in local[q].called /\ TextOnly(q)

SearchChatHistory(q) == Dispatched(q, {"search_chat_history"}) /\ TextOnly(q)
ArchivalSearch(q) == Dispatched(q, {"archival_memory_search"}) /\ TextOnly(q)
FileRead(q) == Dispatched(q, {"file_read"}) /\ TextOnly(q)
UnknownTool(q) == Dispatched(q, {"unknown"}) /\ TextOnly(q)

\* Wrong: the latest hits come first.
AbsorbFirst(known, hits, cap) ==
    LET all == hits \o SelectSeq(known, LAMBDA h : h \notin Range(hits))
    IN  SubSeq(all, 1, Min({Len(all), cap}))

\* Sources: what is new is numbered after what was found before, hit by hit.
WithHit(known, h, cap) ==
    IF h \in Range(known) \/ Len(known) >= cap THEN known ELSE Append(known, h)

Absorb(known, hits, cap) ==
    LET after[n \in 0..Len(hits)] ==
            IF n = 0 THEN known ELSE WithHit(after[n - 1], hits[n], cap)
    IN  after[Len(hits)]

\* The passages of a search or of the graph; an error finds nothing.  All of
\* them are numbered, but the transcript takes MAX_RESULT_CHARS of them, which
\* is the passages up to some one.
Passages(q, hits) ==
    LET found == Absorb(local[q].found, hits, MaxSources)
    IN  /\ Proceed(q, [Noted(q) EXCEPT !.found = found])
        /\ \E k \in 0..Len(hits) :
               shown' = [shown EXCEPT ![q] = @ \cup
                   {<<n, found[n]>> : n \in
                       {m \in DOMAIN found : \E h \in 1..k : found[m] = hits[h]}}]
        /\ UNCHANGED <<reply, block, turns, acted>>

SearchBrain(q) ==
    Dispatched(q, {"search_brain"}) /\ \E hits \in ItemHits : Passages(q, hits)
GraphLookup(q) ==
    Dispatched(q, {"graph_lookup"}) /\ \E hits \in ItemHits : Passages(q, hits)

\* Web results are numbered on their own, without a cap; a fetched page is
\* one of them.
WebResults(q, hits) ==
    /\ Proceed(q, [Noted(q) EXCEPT !.pages = Absorb(@, hits, Len(@) + Len(hits))])
    /\ UNCHANGED <<reply, block, turns, acted, shown>>

WebSearch(q) ==
    Dispatched(q, {"web_search"}) /\ \E hits \in PageHits : WebResults(q, hits)
FetchUrl(q) ==
    /\ Dispatched(q, {"fetch_url"})
    /\ \E hits \in {h \in PageHits : Len(h) <= 1} : WebResults(q, hits)

\* Wrong: a call is noted only when it worked.
ActUnnoted(q) ==
    /\ \/ /\ Proceed(q, Noted(q))
          /\ acted' = [acted EXCEPT ![q][Call(q)] = @ + 1]
       \/ /\ Proceed(q, local[q])
          /\ acted' \in {acted, [acted EXCEPT ![q][Call(q)] = @ + 1]}
    /\ UNCHANGED <<reply, block, turns, shown>>

\* Something changes outside or does not: an error is no proof that it did
\* not.
Act(q) ==
    /\ Proceed(q, Noted(q))
    /\ acted' \in {acted, [acted EXCEPT ![q][Call(q)] = @ + 1]}
    /\ UNCHANGED <<reply, block, turns, shown>>

ArchivalInsert(q) == Dispatched(q, {"archival_memory_insert"}) /\ Act(q)
BashExec(q) == Dispatched(q, {"bash_exec"}) /\ Act(q)
FileWrite(q) == Dispatched(q, {"file_write"}) /\ Act(q)
Integration(q) == Dispatched(q, {"integration"}) /\ Act(q)
-----------------------------------------------------------------------------
(* The edits of core memory.                                               *)

\* current_or_default reads the block ...
CoreMemoryRead(q) ==
    /\ Dispatched(q, {"core_memory_append", "core_memory_replace"})
    /\ local' = [local EXCEPT ![q] = [Noted(q) EXCEPT !.memo = block]]
    /\ GoTo(q, "editing")
    /\ UNCHANGED <<reply, block, turns, acted, shown>>

Length(notes) == MapThenSumSet(LAMBDA c : Size[c], notes)
Forgotten(q) == [local[q] EXCEPT !.memo = {}]

\* Wrong: the block becomes the text that replaced a part of it.
EditedOver(q) ==
    LET c == Call(q)
    IN  IF Tool[c] = "core_memory_replace" THEN {c} ELSE local[q].memo \cup {c}

Edited(q) ==
    LET c == Call(q)
    IN  (IF Tool[c] = "core_memory_replace" THEN local[q].memo \ {Old[c]}
                                            ELSE local[q].memo) \cup {c}

\* Over the limit, or nothing to replace.
Rejected(q) ==
    \/ Length(Edited(q)) > BlockLimit
    \/ Tool[Call(q)] = "core_memory_replace" /\ Old[Call(q)] \notin local[q].memo

\* Wrong: the statement appends to the row, which the check has not seen.
WriteAppending(q) ==
    /\ pc[q] = "editing" /\ ~Rejected(q)
    /\ block' = block \cup {Call(q)}
    /\ Proceed(q, Forgotten(q))
    /\ UNCHANGED <<reply, turns, acted, shown>>

\* ... and write_block writes it back, with what was there when it was read.
WriteBlock(q) ==
    /\ pc[q] = "editing" /\ ~Rejected(q)
    /\ block' = Edited(q)
    /\ Proceed(q, Forgotten(q))
    /\ UNCHANGED <<reply, turns, acted, shown>>

\* The edit is rejected, or the database fails: text for the model.
LeaveBlock(q) ==
    /\ pc[q] = "editing"
    /\ Proceed(q, Forgotten(q))
    /\ UNCHANGED <<reply, block, turns, acted, shown>>
-----------------------------------------------------------------------------
\* A restart ends the questions under way.
Restart ==
    LET under == {q \in Questions : pc[q] \notin {"new", "done", "gone"}}
    IN  /\ pc' = [q \in Questions |-> IF q \in under THEN "gone" ELSE pc[q]]
        /\ local' = [q \in Questions |-> Loop]
        /\ shown' = [q \in Questions |-> {}]
        /\ UNCHANGED <<reply, block, turns, acted>>

Turn(q) ==
    \/ ModelFails(q) \/ Malformed(q) \/ SayNothing(q)
    \/ \E numbers \in SUBSET (1..MaxSources) : Answer(q, numbers)
    \/ \E plan \in Plans[q] : Plan(q, plan)

RunCall(q) ==
    \/ RepeatedCall(q) \/ UnknownTool(q)
    \/ SearchChatHistory(q) \/ ArchivalSearch(q) \/ FileRead(q)
    \/ SearchBrain(q) \/ GraphLookup(q) \/ WebSearch(q) \/ FetchUrl(q)
    \/ ArchivalInsert(q) \/ BashExec(q) \/ FileWrite(q) \/ Integration(q)
    \/ CoreMemoryRead(q) \/ WriteBlock(q) \/ LeaveBlock(q)

Step(q) == Load(q) \/ Turn(q) \/ RunCall(q) \/ Save(q)

Next == (\E q \in Questions : Ask(q) \/ Step(q)) \/ Restart

\* Requests to the model and tool calls end, for their clients have timeouts,
\* and so do statements, on the assumption that the database answers or its
\* connection breaks.  web_search alone waits for a command without any.
Searching(q) == Dispatched(q, {"web_search"})
Fairness == \A q \in Questions : WF_vars(Step(q) /\ ~Searching(q))

Spec == Init /\ [][Next]_vars /\ Fairness
-----------------------------------------------------------------------------
(* A call takes effect at most once in a question, even when its answer    *)
(* was an error and the model asks for it again.                           *)
ActsOnce == \A q \in Questions, c \in Calls : acted[q][c] <= 1

(* A number under which the model was shown a capture means that capture,  *)
(* and no other, in an answer, whatever was found in between; a number it  *)
(* was never shown may be cited too, for all that is found is a source.    *)
CitationsTrue ==
    \A q \in Questions : \A c \in local[q].cited, s \in shown[q] :
        c[1] = s[1] => c = s

(* Concurrent edits, each checked against what it read, never take a block *)
(* over its limit.                                                         *)
MemoryWithinLimit == Length(block) <= BlockLimit

(* A note disappears from core memory when it is replaced, or under an     *)
(* edit that had read the block before it was written.                     *)
NotesLostToOverlap ==
    [][\A n \in block \ block' : \E q \in Questions :
           /\ pc[q] = "editing"
           /\ \/ local[q].memo # block
              \/ Tool[Call(q)] = "core_memory_replace" /\ Old[Call(q)] = n]_vars

(* Every question is replied to, unless a restart ends it or a web search  *)
(* never returns: no answer of the model keeps the loop going.             *)
EveryQuestionEnds ==
    \A q \in Questions :
        pc[q] = "loading" ~> (pc[q] \in {"done", "gone"} \/ []Searching(q))
=============================================================================
