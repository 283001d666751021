----------------------------- MODULE McpSources -----------------------------
(***************************************************************************)
(* The tools of other systems (mcp/mod.rs): a registry, filled once at     *)
(* startup from the configured servers, and the calls made through it.     *)
(* Remote servers speak JSON-RPC over HTTP (mcp/client.rs) and bind their  *)
(* clients to a session; GSuite (mcp/gsuite.rs) runs in this process and   *)
(* calls Google with an access token that it caches and that concurrent    *)
(* calls share behind a mutex held across the refresh.                     *)
(*                                                                         *)
(* Time is discrete: Tick is one unit for every request under way and for  *)
(* every token.  A request is over when it is Timeout old.                 *)
(***************************************************************************)
EXTENDS Integers, Sequences, Functions, FiniteSetsExt

CONSTANTS Servers,       \* the configured servers, in order
          Gsuite,        \* the one that runs in this process
          Tools,         \* names of tools, as servers list them
          Slug, Word,    \* what a tool name keeps of a server's slug, of a tool
          Reserved,      \* the agent's own tools
          PagesOf,       \* PagesOf[s]: the pages s may answer tools/list with
          Cursors,
          Callers,       \* concurrent questions
          MaxTools,      \* MAX_TOOLS, 32
          MaxPages,      \* MAX_PAGES, 10
          MaxRequests,   \* requests of one call: MAX_RESULTS, 25, and one
          Lifetime,      \* expires_in
          Slack,         \* EXPIRY_SLACK, 60 s
          Timeout        \* TIMEOUT, 20 s

ASSUME McpAssumption ==
    /\ Servers \in Seq(Range(Servers)) /\ IsInjective(Servers)
    /\ \A s \in Range(Servers) : PagesOf[s] \subseteq Seq(Tools)
    /\ {MaxTools, MaxPages, MaxRequests} \subseteq Nat \ {0}
    /\ {Lifetime, Slack, Timeout} \subseteq Nat /\ "none" \notin Callers
    /\ 2 * Timeout <= Slack /\ Slack < Lifetime

None == "none"
NoName == <<>>
Names == {<<Slug[s], Word[t]>> : s \in Range(Servers), t \in Tools}

VARIABLES
    boot,      \* the server being connected: its number, page, cursor, and
               \* the tools it has listed and that are still to be registered
    backends,  \* Registry.backends
    routes,    \* Registry.routes: tool names, each with a backend and its tool
    defs,      \* Registry.defs, names only
    session,   \* HttpServer.session of each server
    cache,     \* GSuite.token: time left, and time until it counts as expired
    lock,      \* who holds its mutex
    call,      \* the call of each caller
    listed     \* observation: the tools each server has listed

registry == <<boot, backends, routes, defs, listed>>
vars == <<registry, session, cache, lock, call>>

Startup(n) == [server |-> n, step |-> "connect", page |-> 0, cursor |-> None,
               tools |-> <<>>]
Idle == [phase |-> "idle", server |-> None, rest |-> 0,
         first |-> TRUE, age |-> 0, left |-> 0]
Clock == 0..Lifetime

TypeOK ==
    /\ boot \in [server : 1..(Len(Servers) + 1), page : 0..MaxPages,
                 step : {"connect", "list", "add", "register"},
                 cursor : Cursors \cup {None}, tools : Seq(Tools)]
    /\ backends \in Seq(Range(Servers))
    /\ DOMAIN routes \subseteq Names
    /\ \A n \in DOMAIN routes : routes[n] \in (1..Len(Servers)) \X Tools
    /\ defs \in Seq(Names) /\ Len(defs) <= MaxTools
    /\ session \in [Range(Servers) -> {"given", None}]
    /\ cache \in [left : Clock, usable : Clock]
    /\ lock \in Callers \cup {None}
    /\ call \in [Callers ->
           [phase : {"idle", "rpc", "locking", "refreshing", "minted", "sending",
                     "answering"},
            server : Range(Servers) \cup {None}, rest : 0..MaxRequests,
            first : BOOLEAN, age : 0..Timeout, left : Clock]]
    /\ listed \in [Range(Servers) -> SUBSET Tools]

Init ==
    /\ boot = Startup(1) /\ backends = <<>>
    /\ routes = << >> /\ defs = <<>>
    /\ session = [s \in Range(Servers) |-> None]
    /\ cache = [left |-> 0, usable |-> 0] /\ lock = None
    /\ call = [c \in Callers |-> Idle]
    /\ listed = [s \in Range(Servers) |-> {}]
-----------------------------------------------------------------------------
(* Registry::connect.                                                      *)

Connecting(step) == boot.server <= Len(Servers) /\ boot.step = step
Server == Servers[boot.server]
NextServer == boot' = Startup(boot.server + 1)

\* Any answer of a server may hand out a session.
Headers(s) == session' \in {session, [session EXCEPT ![s] = "given"]}

\* A server that cannot be reached is skipped.
Skip ==
    /\ Connecting("connect") \/ Connecting("list")
    /\ NextServer
    /\ UNCHANGED <<backends, routes, defs, session, cache, lock, call, listed>>

\* GSuite lists its tools without a request.
ConnectGsuite(tools) ==
    /\ Connecting("connect") /\ Server = Gsuite
    /\ boot' = [boot EXCEPT !.step = "add", !.tools = tools]
    /\ listed' = [listed EXCEPT ![Server] = Range(tools)]
    /\ UNCHANGED <<backends, routes, defs, session, cache, lock, call>>

\* The handshake; a stateful server hands out its session.
Initialize ==
    /\ Connecting("connect") /\ Server # Gsuite
    /\ Headers(Server)
    /\ boot' = [boot EXCEPT !.step = "list"]
    /\ UNCHANGED <<backends, routes, defs, cache, lock, call, listed>>

\* One page of tools/list.
ListTools(tools, next) ==
    /\ Connecting("list")
    /\ LET all == boot.tools \o tools
           over == \/ Len(all) >= MaxTools
                   \/ next \in {None, boot.cursor}
                   \/ boot.page + 1 = MaxPages
       IN  boot' = [boot EXCEPT
               !.tools = SubSeq(all, 1, Min({Len(all), MaxTools})),
               !.page = @ + 1,
               !.cursor = next,
               !.step = IF over THEN "add" ELSE "list"]
    /\ listed' = [listed EXCEPT ![Server] = Range(boot'.tools)]
    /\ Headers(Server)
    /\ UNCHANGED <<backends, routes, defs, cache, lock, call>>

\* exposed_name: nothing usable is left of some, and the agent's own tools
\* are not to be shadowed.
ExposedName(s, t) ==
    IF Word[t] = None \/ <<Slug[s], Word[t]>> \in Reserved THEN NoName
    ELSE <<Slug[s], Word[t]>>

\* Registry::add: a backend is known by its place among the backends.
AddServer ==
    /\ Connecting("add")
    /\ backends' = Append(backends, Server)
    /\ boot' = [boot EXCEPT !.step = "register"]
    /\ UNCHANGED <<routes, defs, session, cache, lock, call, listed>>

\* Wrong: it is known by its place in the configuration.
ConfiguredIndex == boot.server

BackendIndex == Len(backends)

\* The loop of add: what is over the cap, unusable or taken is dropped.
RegisterTool ==
    /\ Connecting("register") /\ boot.tools # <<>>
    /\ boot' = [boot EXCEPT !.tools = Tail(@)]
    /\ LET tool == Head(boot.tools)
           name == ExposedName(Server, tool)
       IN  IF Len(defs) >= MaxTools \/ name \in DOMAIN routes \cup {NoName}
           THEN UNCHANGED <<routes, defs>>
           ELSE /\ routes' = [n \in DOMAIN routes \cup {name} |->
                       IF n = name THEN <<BackendIndex, tool>> ELSE routes[n]]
                /\ defs' = Append(defs, name)
    /\ UNCHANGED <<backends, session, cache, lock, call, listed>>

Registered ==
    /\ Connecting("register") /\ boot.tools = <<>>
    /\ NextServer
    /\ UNCHANGED <<backends, routes, defs, session, cache, lock, call, listed>>

Booted == boot.server > Len(Servers)
-----------------------------------------------------------------------------
(* Calls.                                                                  *)

\* Registry::call finds the backend.  A search of Gmail is a request and one
\* for each message found.
CallTool(c, name, requests) ==
    /\ Booted /\ call[c].phase = "idle" /\ name \in DOMAIN routes
    /\ LET s == backends[routes[name][1]]
       IN  call' = [call EXCEPT ![c] =
               [Idle EXCEPT !.phase = IF s = Gsuite THEN "locking" ELSE "rpc",
                            !.server = s,
                            !.rest = IF s = Gsuite THEN requests ELSE 0]]
    /\ UNCHANGED <<registry, session, cache, lock>>

\* The answer, an error or the timeout of a remote call.
RpcEnds(c) ==
    /\ call[c].phase = "rpc"
    /\ call' = [call EXCEPT ![c] = Idle]
    /\ Headers(call[c].server)
    /\ UNCHANGED <<registry, cache, lock>>

\* Wrong: the mutex is not held across the refresh.
UseUnlocked(c) ==
    /\ call[c].phase = "locking"
    /\ call' = [call EXCEPT ![c] =
           IF cache.usable > 0
           THEN [@ EXCEPT !.phase = "sending", !.age = 0, !.left = cache.left]
           ELSE [@ EXCEPT !.phase = "refreshing", !.age = 0]]
    /\ UNCHANGED <<registry, session, cache, lock>>

\* access_token: the cached token, or a refresh under the mutex.
UseToken(c) ==
    /\ call[c].phase = "locking" /\ lock = None
    /\ IF cache.usable > 0
       THEN /\ call' = [call EXCEPT ![c] =
                   [@ EXCEPT !.phase = "sending", !.age = 0, !.left = cache.left]]
            /\ UNCHANGED lock
       ELSE /\ call' = [call EXCEPT ![c] = [@ EXCEPT !.phase = "refreshing", !.age = 0]]
            /\ lock' = c
    /\ UNCHANGED <<registry, session, cache>>

\* Google issues a token while the request is under way.
Mint(c) ==
    /\ call[c].phase = "refreshing"
    /\ call' = [call EXCEPT ![c] = [@ EXCEPT !.phase = "minted", !.left = Lifetime]]
    /\ UNCHANGED <<registry, session, cache, lock>>

\* Wrong: the token is used until it expires.
KeepAll == Lifetime

\* ttl.saturating_sub(EXPIRY_SLACK)
Keep == Max({0, Lifetime - Slack})

Refreshed(c) ==
    /\ call[c].phase = "minted"
    /\ cache' = [left |-> call[c].left, usable |-> Keep]
    /\ lock' = None
    /\ call' = [call EXCEPT ![c] = [@ EXCEPT !.phase = "sending", !.age = 0]]
    /\ UNCHANGED <<registry, session>>

\* The next request of a call, or its end.
NextRequest(c) ==
    IF call[c].rest <= 1 THEN Idle
    ELSE [call[c] EXCEPT !.phase = "locking", !.rest = @ - 1, !.first = FALSE,
                         !.age = 0, !.left = 0]

\* Wrong: a message that cannot be read is tried again.
FailedRetried(c) ==
    IF call[c].first THEN Idle
    ELSE [call[c] EXCEPT !.phase = "locking", !.age = 0, !.left = 0]

\* A message that cannot be read is passed over; the list of a search, or
\* the one request of another call, must be.
Failed(c) == IF call[c].first THEN Idle ELSE NextRequest(c)

\* An error of the refresh, or its timeout, releases the mutex.
RefreshFails(c) ==
    /\ call[c].phase \in {"refreshing", "minted"}
    /\ lock' = None
    /\ call' = [call EXCEPT ![c] = Failed(c)]
    /\ UNCHANGED <<registry, session, cache>>

Arrive(c) ==
    /\ call[c].phase = "sending"
    /\ call' = [call EXCEPT ![c].phase = "answering"]
    /\ UNCHANGED <<registry, session, cache, lock>>

\* The request is answered, or fails, at the latest when it times out.
Answered(c) ==
    /\ call[c].phase \in {"sending", "answering"}
    /\ call' \in {[call EXCEPT ![c] = NextRequest(c)], [call EXCEPT ![c] = Failed(c)]}
    /\ UNCHANGED <<registry, session, cache, lock>>

Timed == {"refreshing", "minted", "sending", "answering"}

\* Time passes; a request that is Timeout old ends first.
Tick ==
    LET Less(n) == Max({0, n - 1})
    IN  /\ \A c \in Callers : call[c].phase \in Timed => call[c].age < Timeout
        /\ cache' = [left |-> Less(cache.left), usable |-> Less(cache.usable)]
        /\ call' = [c \in Callers |->
               IF call[c].phase \in Timed
               THEN [call[c] EXCEPT !.age = @ + 1, !.left = Less(@)]
               ELSE call[c]]
        /\ UNCHANGED <<registry, session, lock>>

Boot ==
    \/ Skip \/ Initialize \/ AddServer \/ RegisterTool \/ Registered
    \/ \E tools \in PagesOf[Gsuite] : ConnectGsuite(tools)
    \/ /\ Connecting("list")
       /\ \E tools \in PagesOf[Server], next \in Cursors \cup {None} :
              ListTools(tools, next)

Step(c) ==
    \/ RpcEnds(c) \/ Mint(c) \/ Refreshed(c) \/ RefreshFails(c)
    \/ Arrive(c) \/ Answered(c)

Next ==
    \/ Boot \/ Tick
    \/ \E c \in Callers :
        \/ \E name \in DOMAIN routes, n \in 1..MaxRequests : CallTool(c, name, n)
        \/ UseToken(c) \/ Step(c)

\* The clients have timeouts, and the mutex serves its waiters in order.
Fairness ==
    \A c \in Callers : SF_vars(UseToken(c)) /\ WF_vars(Step(c))

Spec == Init /\ [][Next]_vars /\ Fairness
-----------------------------------------------------------------------------
(* A tool name leads to the server that listed the tool, whichever servers *)
(* were down at startup; and what a connected server listed is reachable,  *)
(* unless its name is unusable, taken, or over the cap.                    *)
RoutesReachOwner ==
    /\ \A name \in DOMAIN routes :
        LET r == routes[name]
        IN  /\ r[1] \in DOMAIN backends
            /\ r[2] \in listed[backends[r[1]]]
            /\ ExposedName(backends[r[1]], r[2]) = name
    /\ Booted =>
        \A n \in DOMAIN backends : \A t \in listed[backends[n]] :
            \/ ExposedName(backends[n], t) \in DOMAIN routes \cup {NoName}
            \/ Len(defs) = MaxTools

(* No request reaches Google with an expired token, although a token may   *)
(* wait for its response and a request for its arrival.                    *)
TokenFresh ==
    [][\A c \in Callers :
           call[c].phase = "sending" /\ call'[c].phase = "answering"
           => call[c].left > 0]_vars

(* Concurrent calls share a refresh: none replaces a token that is usable. *)
RefreshOnlyWhenNeeded ==
    [][\A c \in Callers :
           call[c].phase = "minted" /\ call'[c].phase = "sending"
           => cache.usable = 0]_vars

(* Every call ends, however often tokens expire and messages cannot be     *)
(* read meanwhile.                                                         *)
EveryCallEnds == \A c \in Callers : call[c].phase # "idle" ~> call[c].phase = "idle"
=============================================================================
