--------------------------- MODULE MCAgentLoop ---------------------------
(* Instances of AgentLoop for TLC: p may use every tool, q edits the     *)
(* memory p edits, in the same chat.                                     *)
EXTENDS AgentLoop, TLC

CONSTANTS p, q, chat, i, j, k, page,
          brain, graph, web, fetch, past, none, archive, recall, bash, write, read, mail,
          note, longer, change

SameChat == (p :> chat @@ q :> chat)
Kinds == (brain :> "search_brain" @@ graph :> "graph_lookup" @@ web :> "web_search"
    @@ fetch :> "fetch_url" @@ past :> "search_chat_history" @@ none :> "unknown"
    @@ archive :> "archival_memory_insert" @@ recall :> "archival_memory_search"
    @@ read :> "file_read" @@ bash :> "bash_exec"
    @@ write :> "file_write" @@ mail :> "integration" @@ note :> "core_memory_append"
    @@ longer :> "core_memory_append" @@ change :> "core_memory_replace")
Sizes == [c \in Calls |-> IF c = longer THEN 2 ELSE 1]
Replaces == [c \in Calls |-> note]
Lists == (p :> {<<brain, graph>>, <<web, fetch>>, <<mail, archive, past>>,
                <<note, mail>>, <<change, bash>>, <<past, none>>, <<write, read>>,
                <<recall, web>>}
          @@ q :> {<<longer>>})
Captures == {<<>>, <<j, i>>, <<k, j>>}
Results == {<<>>, <<page>>}
==========================================================================
