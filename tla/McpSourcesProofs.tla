-------------------------- MODULE McpSourcesProofs --------------------------
(***************************************************************************)
(* Safety of the tool registry and of the shared access token, for any     *)
(* servers, tools, callers and times.  The registry needs an invariant on  *)
(* what each step of the startup has added so far; the token one on how    *)
(* much of its life is left at each step of a call, and one on the mutex.  *)
(***************************************************************************)
EXTENDS McpSources, SequenceTheorems, TLAPS

-----------------------------------------------------------------------------
\* The least and the greatest of two integers.
LEMMA MinPair ==
    ASSUME NEW a \in Int, NEW b \in Int
    PROVE  Min({a, b}) = IF a <= b THEN a ELSE b
<1> DEFINE m == IF a <= b THEN a ELSE b
<1>1. m \in {a, b} /\ \A y \in {a, b} : m <= y
  OBVIOUS
<1>2. \A x \in {a, b} : (\A y \in {a, b} : x <= y) => x = m
  OBVIOUS
<1> HIDE DEF m
<1>3. Min({a, b}) = m
  BY <1>1, <1>2 DEF Min
<1>4. QED
  BY <1>3 DEF m

LEMMA MaxPair ==
    ASSUME NEW a \in Int, NEW b \in Int
    PROVE  Max({a, b}) = IF a >= b THEN a ELSE b
<1> DEFINE m == IF a >= b THEN a ELSE b
<1>1. m \in {a, b} /\ \A y \in {a, b} : m >= y
  OBVIOUS
<1>2. \A x \in {a, b} : (\A y \in {a, b} : x >= y) => x = m
  OBVIOUS
<1> HIDE DEF m
<1>3. Max({a, b}) = m
  BY <1>1, <1>2 DEF Max
<1>4. QED
  BY <1>3 DEF m

\* A tick takes one unit of what is left, and nothing of nothing.
LEMMA LessIs ==
    ASSUME NEW n \in Nat
    PROVE  Max({0, n - 1}) = IF n = 0 THEN 0 ELSE n - 1
BY MaxPair

\* A fresh token is kept for all of its life but the slack.
LEMMA KeepIs == Keep = Lifetime - Slack
BY MaxPair, McpAssumption DEF Keep

\* What the answers to tools/list amount to: at most MaxTools of their tools.
LEMMA CutTyped ==
    ASSUME NEW a \in Seq(Tools), NEW b \in Seq(Tools)
    PROVE  SubSeq(a \o b, 1, Min({Len(a \o b), MaxTools})) \in Seq(Tools)
<1> DEFINE all == a \o b
           n == Min({Len(all), MaxTools})
<1>1. all \in Seq(Tools) /\ Len(all) \in Nat
  BY ConcatProperties, LenProperties
<1>2. n \in Int /\ n <= Len(all)
  BY <1>1, MinPair, McpAssumption
<1>3. \A i \in 1..n : all[i] \in Tools
  BY <1>1, <1>2, ElementOfSeq
<1> HIDE DEF all, n
<1>4. SubSeq(all, 1, n) \in Seq(Tools)
  BY <1>2, <1>3, SubSeqProperties
<1>5. QED
  BY <1>4 DEF all, n

\* The tools of a sequence are tools; those of its tail, and its head, are all
\* there are.
LEMMA ToolsOf ==
    ASSUME NEW a \in Seq(Tools)
    PROVE  /\ Range(a) \subseteq Tools
           /\ a # <<>> => /\ Head(a) \in Tools /\ Head(a) \in Range(a)
                          /\ Tail(a) \in Seq(Tools)
                          /\ Range(a) = Range(Tail(a)) \cup {Head(a)}
<1>1. Len(a) \in Nat /\ DOMAIN a = 1..Len(a) /\ \A i \in 1..Len(a) : a[i] \in Tools
  BY LenProperties, ElementOfSeq
<1>2. Range(a) \subseteq Tools
  BY <1>1 DEF Range
<1>3. ASSUME a # <<>>
      PROVE  /\ Head(a) \in Tools /\ Head(a) \in Range(a)
             /\ Tail(a) \in Seq(Tools)
             /\ Range(a) = Range(Tail(a)) \cup {Head(a)}
  <2>1. /\ Head(a) \in Tools /\ Tail(a) \in Seq(Tools)
        /\ Len(Tail(a)) = Len(a) - 1
        /\ \A i \in 1..Len(Tail(a)) : Tail(a)[i] = a[i + 1]
    BY <1>3, HeadTailProperties
  <2>2. Len(a) >= 1 /\ Head(a) = a[1]
    BY <1>1, <1>3, EmptySeq
  <2>3. DOMAIN Tail(a) = 1..(Len(a) - 1)
    BY <2>1, LenProperties
  <2>4. Head(a) \in Range(a)
    BY <1>1, <2>2 DEF Range
  <2>5. Range(Tail(a)) \subseteq Range(a)
    BY <1>1, <2>1, <2>3 DEF Range
  <2>6. Range(a) \subseteq Range(Tail(a)) \cup {Head(a)}
    <3> SUFFICES ASSUME NEW i \in 1..Len(a), i # 1 PROVE a[i] \in Range(Tail(a))
      BY <1>1, <2>2 DEF Range
    <3>1. i - 1 \in 1..Len(Tail(a)) /\ Tail(a)[i - 1] = a[i]
      BY <1>1, <2>1
    <3>2. QED
      BY <2>1, <2>3, <3>1 DEF Range
  <2>7. QED
    BY <2>1, <2>4, <2>5, <2>6
<1>4. QED
  BY <1>2, <1>3
-----------------------------------------------------------------------------
\* The registry.

\* Past its connection a server is one of the configured ones, and its pages
\* are not exhausted while more of them are asked for.
Placed ==
    /\ boot.step # "connect" => boot.server <= Len(Servers)
    /\ boot.step \in {"connect", "list"} => boot.page < MaxPages

\* No server is two backends.
Counted ==
    /\ Len(backends) <= boot.server
    /\ boot.step # "register" => Len(backends) < boot.server

\* A backend is a server that has been dealt with; the one whose tools are
\* being registered is the last.
Prefix ==
    /\ \A n \in DOMAIN backends : \E k \in 1..Len(Servers) :
           /\ backends[n] = Servers[k]
           /\ \/ k < boot.server
              \/ k = boot.server /\ boot.step = "register"
    /\ boot.step = "register" =>
           /\ Len(backends) \in DOMAIN backends
           /\ backends[Len(backends)] = Server

\* What is still to be registered was listed, at first all of it.
Remaining ==
    /\ boot.step \in {"add", "register"} => Range(boot.tools) \subseteq listed[Server]
    /\ boot.step = "add" => listed[Server] \subseteq Range(boot.tools)

\* A route leads to the backend that listed its tool.
Routed == \A name \in DOMAIN routes :
    LET r == routes[name]
    IN  /\ r[1] \in DOMAIN backends
        /\ r[2] \in listed[backends[r[1]]]
        /\ ExposedName(backends[r[1]], r[2]) = name

\* A listed tool has a route, cannot have one, or is still to be registered.
Covered == \A n \in DOMAIN backends : \A t \in listed[backends[n]] :
    \/ ExposedName(backends[n], t) \in DOMAIN routes \cup {NoName}
    \/ Len(defs) = MaxTools
    \/ boot.step = "register" /\ n = Len(backends) /\ t \in Range(boot.tools)

RegistryInv == Placed /\ Counted /\ Prefix /\ Remaining /\ Routed /\ Covered

Steps == {"connect", "list", "add", "register"}

\* The part of TypeOK about the registry.
RegistryType ==
    /\ boot \in [server : 1..(Len(Servers) + 1), page : 0..MaxPages, step : Steps,
                 cursor : Cursors \cup {None}, tools : Seq(Tools)]
    /\ backends \in Seq(Range(Servers))
    /\ DOMAIN routes \subseteq Names
    /\ \A n \in DOMAIN routes : routes[n] \in (1..Len(Servers)) \X Tools
    /\ defs \in Seq(Names) /\ Len(defs) <= MaxTools
    /\ listed \in [Range(Servers) -> SUBSET Tools]

\* Facts about the server being connected.
LEMMA ServerIs ==
    ASSUME RegistryType, boot.server <= Len(Servers)
    PROVE  /\ Len(Servers) \in Nat /\ boot.server \in 1..Len(Servers)
           /\ Server \in Range(Servers)
           /\ \A k \in 1..Len(Servers) : k # boot.server => Servers[k] # Server
<1>1. Servers \in Seq(Range(Servers)) /\ IsInjective(Servers)
  BY McpAssumption
<1>2. Len(Servers) \in Nat /\ DOMAIN Servers = 1..Len(Servers)
  BY <1>1, LenProperties
<1>3. boot.server \in 1..Len(Servers)
  BY <1>2 DEF RegistryType
<1>4. Server \in Range(Servers)
  BY <1>2, <1>3 DEF Server, Range
<1>5. \A k \in 1..Len(Servers) : k # boot.server => Servers[k] # Server
  BY <1>1, <1>2, <1>3 DEF Server, IsInjective
<1>6. QED
  BY <1>2, <1>3, <1>4, <1>5

\* The number of backends, and where the next one is put.
LEMMA BackendsAre ==
    ASSUME RegistryType
    PROVE  /\ Len(backends) \in Nat /\ DOMAIN backends = 1..Len(backends)
           /\ \A n \in DOMAIN backends : backends[n] \in Range(Servers)
BY LenProperties, ElementOfSeq DEF RegistryType

\* Going on to the next server, the last one being complete.
LEMMA NextServerInv ==
    ASSUME RegistryType, RegistryInv, boot.server <= Len(Servers), NextServer,
           boot.step = "register" => boot.tools = <<>>,
           UNCHANGED <<backends, routes, defs, listed>>
    PROVE  RegistryType' /\ RegistryInv'
<1>1. /\ boot'.server = boot.server + 1 /\ boot'.step = "connect"
      /\ boot'.page = 0 /\ boot'.cursor = None /\ boot'.tools = <<>>
      /\ boot' = Startup(boot.server + 1)
  BY DEF NextServer, Startup
<1>2. Len(Servers) \in Nat /\ boot.server \in 1..Len(Servers)
  BY ServerIs
<1>3. RegistryType'
  <2>1. boot' \in [server : 1..(Len(Servers) + 1), page : 0..MaxPages,
                   step : Steps, cursor : Cursors \cup {None}, tools : Seq(Tools)]
    BY <1>1, <1>2, McpAssumption, EmptySeq DEF Startup, Steps
  <2>2. QED
    BY <2>1 DEF RegistryType
<1>4. Placed' /\ Remaining' /\ Routed'
  BY <1>1, McpAssumption DEF RegistryInv, Placed, Remaining, Routed, ExposedName
<1>5. Prefix' /\ Counted'
  BY <1>1, <1>2, BackendsAre DEF RegistryInv, Prefix, Counted
<1>6. Covered'
  <2>1. Range(<<>>) = {}
    BY DEF Range
  <2>2. QED
    BY <1>1, <2>1 DEF RegistryInv, Covered, ExposedName
<1>7. QED
  BY <1>3, <1>4, <1>5, <1>6 DEF RegistryInv

\* Connecting and listing concern a server that is no backend yet.
LEMMA ListingInv ==
    ASSUME RegistryType, RegistryInv, boot.server <= Len(Servers),
           boot.step \in {"connect", "list"},
           boot' \in [server : {boot.server}, page : 0..MaxPages,
                      step : {"list", "add"}, cursor : Cursors \cup {None},
                      tools : Seq(Tools)],
           boot'.step = "list" => boot'.page < MaxPages,
           \/ listed' = [listed EXCEPT ![Server] = Range(boot'.tools)]
           \/ UNCHANGED listed /\ boot'.step = "list",
           UNCHANGED <<backends, routes, defs>>
    PROVE  RegistryType' /\ RegistryInv'
<1>1. /\ Len(Servers) \in Nat /\ boot.server \in 1..Len(Servers)
      /\ Server \in Range(Servers)
      /\ \A k \in 1..Len(Servers) : k # boot.server => Servers[k] # Server
  BY ServerIs
<1>2. Range(boot'.tools) \subseteq Tools
  BY ToolsOf
<1>3. /\ listed' \in [Range(Servers) -> SUBSET Tools]
      /\ \A s \in Range(Servers) : s # Server => listed'[s] = listed[s]
      /\ boot'.step = "add" => listed'[Server] = Range(boot'.tools)
  BY <1>1, <1>2 DEF RegistryType
<1>4. RegistryType'
  <2>1. boot' \in [server : 1..(Len(Servers) + 1), page : 0..MaxPages,
                   step : Steps, cursor : Cursors \cup {None}, tools : Seq(Tools)]
    BY <1>1 DEF Steps
  <2>2. QED
    BY <1>3, <2>1 DEF RegistryType
<1>5. Placed' /\ Remaining' /\ Server' = Server
  BY <1>1, <1>3 DEF Placed, Remaining, Server
<1>6. \A n \in DOMAIN backends :
          backends[n] # Server /\ backends[n] \in Range(Servers)
  BY <1>1, BackendsAre DEF RegistryInv, Prefix
<1>7. Prefix' /\ Counted'
  BY <1>1 DEF RegistryInv, Prefix, Counted
<1>8. Routed' /\ Covered'
  BY <1>3, <1>6 DEF RegistryInv, Routed, Covered, ExposedName
<1>9. QED
  BY <1>4, <1>5, <1>7, <1>8 DEF RegistryInv

\* The new backend is the last; all it has listed is still to be registered.
LEMMA AddServerInv ==
    ASSUME RegistryType, RegistryInv, AddServer
    PROVE  RegistryType' /\ RegistryInv'
<1>1. /\ boot.server <= Len(Servers) /\ boot.step = "add"
      /\ boot' = [boot EXCEPT !.step = "register"]
      /\ backends' = Append(backends, Server)
      /\ UNCHANGED <<routes, defs, listed>>
  BY DEF AddServer, Connecting
<1>2. /\ boot'.step = "register" /\ boot'.server = boot.server
      /\ boot'.tools = boot.tools /\ Server' = Server
  BY <1>1 DEF RegistryType, Server
<1>3. Len(Servers) \in Nat /\ boot.server \in 1..Len(Servers)
      /\ Server \in Range(Servers)
  BY <1>1, ServerIs
<1>4. /\ Len(backends) \in Nat /\ DOMAIN backends = 1..Len(backends)
      /\ backends \in Seq(Range(Servers))
  BY BackendsAre DEF RegistryType
<1>5. /\ backends' \in Seq(Range(Servers)) /\ Len(backends') = Len(backends) + 1
      /\ \A n \in DOMAIN backends : backends'[n] = backends[n]
      /\ backends'[Len(backends')] = Server
  BY <1>1, <1>3, <1>4, AppendProperties
<1>6. DOMAIN backends' = DOMAIN backends \cup {Len(backends')}
  BY <1>4, <1>5, LenProperties
<1>7. RegistryType'
  BY <1>1, <1>5 DEF RegistryType, Steps
<1>8. Placed' /\ Counted' /\ Remaining'
  BY <1>1, <1>2, <1>3, <1>4, <1>5 DEF RegistryInv, Placed, Counted, Remaining
<1>9. Prefix'
  <2>1. Server = Servers[boot.server]
    BY DEF Server
  <2>2. QED
    BY <1>1, <1>2, <1>3, <1>5, <1>6, <2>1 DEF RegistryInv, Prefix
<1>10. Routed'
  BY <1>1, <1>5, <1>6 DEF RegistryInv, Routed, ExposedName
<1>11. Covered'
  BY <1>1, <1>2, <1>5, <1>6 DEF RegistryInv, Remaining, Covered, ExposedName
<1>12. QED
  BY <1>7, <1>8, <1>9, <1>10, <1>11 DEF RegistryInv

\* One tool is given a route, or dropped for good reason.
LEMMA RegisterToolInv ==
    ASSUME RegistryType, RegistryInv, RegisterTool
    PROVE  RegistryType' /\ RegistryInv'
<1> DEFINE tool == Head(boot.tools)
           name == ExposedName(Server, tool)
<1>1. /\ boot.server <= Len(Servers) /\ boot.step = "register"
      /\ boot.tools # <<>> /\ boot.tools \in Seq(Tools)
      /\ boot' = [boot EXCEPT !.tools = Tail(boot.tools)]
      /\ UNCHANGED <<backends, listed>>
  BY DEF RegistryType, RegisterTool, Connecting
<1>2. /\ boot'.step = "register" /\ boot'.server = boot.server
      /\ boot'.tools = Tail(boot.tools) /\ Server' = Server
  BY <1>1 DEF RegistryType, Server
<1>3. Len(Servers) \in Nat /\ boot.server \in 1..Len(Servers)
      /\ Server \in Range(Servers)
  BY <1>1, ServerIs
<1>4. /\ tool \in Tools /\ Tail(boot.tools) \in Seq(Tools)
      /\ Range(boot.tools) = Range(Tail(boot.tools)) \cup {tool}
  BY <1>1, ToolsOf
<1>5. /\ Len(backends) \in DOMAIN backends /\ backends[Len(backends)] = Server
      /\ tool \in listed[Server]
  BY <1>1, <1>4 DEF RegistryInv, Prefix, Remaining
<1>6. boot' \in [server : 1..(Len(Servers) + 1), page : 0..MaxPages,
                 step : Steps, cursor : Cursors \cup {None}, tools : Seq(Tools)]
  BY <1>1, <1>4 DEF RegistryType
<1>7. Placed' /\ Counted' /\ Prefix' /\ Remaining'
  BY <1>1, <1>2, <1>4 DEF RegistryInv, Placed, Counted, Prefix, Remaining
<1>8. /\ Len(defs) \in Nat /\ Len(defs) <= MaxTools
      /\ MaxTools \in Nat
  BY McpAssumption, LenProperties DEF RegistryType
<1> HIDE DEF tool, name
<1>9. CASE Len(defs) >= MaxTools \/ name \in DOMAIN routes \cup {NoName}
  <2>1. UNCHANGED <<routes, defs>>
    BY <1>9 DEF RegisterTool, tool, name
  <2>2. RegistryType' /\ Routed'
    BY <1>1, <1>6, <2>1 DEF RegistryType, RegistryInv, Routed, ExposedName
  <2>3. ExposedName(backends[Len(backends)], tool) = name
    BY <1>5 DEF name
  <2>4. Covered'
    <3> SUFFICES ASSUME NEW n \in DOMAIN backends, NEW t \in listed[backends[n]]
                 PROVE  \/ ExposedName(backends[n], t) \in DOMAIN routes \cup {NoName}
                        \/ Len(defs) = MaxTools
                        \/ n = Len(backends) /\ t \in Range(boot'.tools)
      BY <1>1, <1>2, <2>1 DEF Covered, ExposedName
    <3>1. \/ ExposedName(backends[n], t) \in DOMAIN routes \cup {NoName}
          \/ Len(defs) = MaxTools
          \/ n = Len(backends) /\ t \in Range(boot.tools)
      BY DEF RegistryInv, Covered
    <3>2. CASE n = Len(backends) /\ t = tool
      BY <1>8, <1>9, <2>3, <3>2
    <3>3. QED
      BY <1>2, <1>4, <3>1, <3>2
  <2>5. QED
    BY <1>7, <2>2, <2>4 DEF RegistryInv
<1>10. CASE ~ (Len(defs) >= MaxTools \/ name \in DOMAIN routes \cup {NoName})
  <2>1. /\ routes' = [n \in DOMAIN routes \cup {name} |->
               IF n = name THEN <<Len(backends), tool>> ELSE routes[n]]
        /\ defs' = Append(defs, name)
    BY <1>10 DEF RegisterTool, BackendIndex, tool, name
  <2>2. /\ DOMAIN routes' = DOMAIN routes \cup {name}
        /\ routes'[name] = <<Len(backends), tool>>
        /\ \A n \in DOMAIN routes : routes'[n] = routes[n]
    BY <1>10, <2>1
  <2>3. name \in Names /\ name = <<Slug[Server], Word[tool]>>
    BY <1>3, <1>4, <1>10 DEF name, ExposedName, Names
  <2>4. /\ defs' \in Seq(Names) /\ Len(defs') = Len(defs) + 1
        /\ Len(defs') <= MaxTools
    BY <1>8, <1>10, <2>1, <2>3, AppendProperties DEF RegistryType
  <2>5. ExposedName(backends[Len(backends)], tool) = name
    BY <1>5 DEF name
  <2>6. Routed'
    <3> SUFFICES ASSUME NEW n \in DOMAIN routes'
                 PROVE  /\ routes'[n][1] \in DOMAIN backends
                        /\ routes'[n][2] \in listed[backends[routes'[n][1]]]
                        /\ ExposedName(backends[routes'[n][1]], routes'[n][2]) = n
      BY <1>1 DEF Routed, ExposedName
    <3>1. CASE n = name
      <4>1. routes'[n][1] = Len(backends) /\ routes'[n][2] = tool
        BY <2>2, <3>1
      <4>2. QED
        BY <1>5, <2>5, <3>1, <4>1
    <3>2. CASE n \in DOMAIN routes
      BY <2>2, <3>2 DEF RegistryInv, Routed
    <3>3. QED
      BY <2>2, <3>1, <3>2
  <2>7. Covered'
    <3> SUFFICES ASSUME NEW n \in DOMAIN backends, NEW t \in listed[backends[n]],
                        Len(defs) # MaxTools
                 PROVE  \/ ExposedName(backends[n], t) \in DOMAIN routes'
                                                             \cup {NoName}
                        \/ n = Len(backends) /\ t \in Range(boot'.tools)
      BY <1>1, <1>2, <1>8, <1>10 DEF Covered, ExposedName
    <3>1. \/ ExposedName(backends[n], t) \in DOMAIN routes \cup {NoName}
          \/ n = Len(backends) /\ t \in Range(boot.tools)
      BY DEF RegistryInv, Covered
    <3>2. QED
      BY <1>2, <1>4, <2>2, <2>5, <3>1
  <2>8. Len(backends) \in 1..Len(Servers)
    BY <1>1, <1>3, <1>5, BackendsAre DEF RegistryInv, Counted
  <2>9. \A n \in DOMAIN routes' : routes'[n] \in (1..Len(Servers)) \X Tools
    <3>1. <<Len(backends), tool>> \in (1..Len(Servers)) \X Tools
      BY <1>4, <2>8
    <3>2. \A n \in DOMAIN routes : routes'[n] \in (1..Len(Servers)) \X Tools
      BY <2>2 DEF RegistryType
    <3>3. QED
      BY <2>2, <3>1, <3>2
  <2>10. RegistryType'
    <3>1. DOMAIN routes' \subseteq Names
      BY <2>2, <2>3 DEF RegistryType
    <3>2. QED
      BY <1>1, <1>6, <2>4, <2>9, <3>1 DEF RegistryType
  <2>11. QED
    BY <1>7, <2>6, <2>7, <2>10 DEF RegistryInv
<1>11. QED
  BY <1>9, <1>10

\* The steps of the startup, of which a server's answers are any.
LEMMA BootInv ==
    ASSUME RegistryType, RegistryInv, Boot
    PROVE  RegistryType' /\ RegistryInv'
<1>1. CASE Skip
  <2>1. /\ boot.server <= Len(Servers) /\ boot.step \in {"connect", "list"}
        /\ NextServer /\ UNCHANGED <<backends, routes, defs, listed>>
    BY <1>1 DEF Skip, Connecting
  <2>2. QED
    BY <2>1, NextServerInv
<1>2. CASE Registered
  <2>1. /\ boot.server <= Len(Servers) /\ boot.tools = <<>>
        /\ NextServer /\ UNCHANGED <<backends, routes, defs, listed>>
    BY <1>2 DEF Registered, Connecting
  <2>2. QED
    BY <2>1, NextServerInv
<1>3. CASE AddServer
  BY <1>3, AddServerInv
<1>4. CASE RegisterTool
  BY <1>4, RegisterToolInv
<1>5. CASE Initialize
  <2>1. /\ boot.server <= Len(Servers) /\ boot.step = "connect"
        /\ boot' = [boot EXCEPT !.step = "list"]
        /\ UNCHANGED <<backends, routes, defs, listed>>
    BY <1>5 DEF Initialize, Connecting
  <2>2. /\ boot' \in [server : {boot.server}, page : 0..MaxPages,
                       step : {"list", "add"}, cursor : Cursors \cup {None},
                       tools : Seq(Tools)]
        /\ boot'.page = boot.page /\ boot'.step = "list"
    BY <2>1 DEF RegistryType
  <2>3. boot'.page < MaxPages
    BY <2>1, <2>2 DEF RegistryInv, Placed
  <2>4. QED
    BY <2>1, <2>2, <2>3, ListingInv
<1>6. ASSUME NEW tools \in PagesOf[Gsuite], ConnectGsuite(tools)
      PROVE  RegistryType' /\ RegistryInv'
  <2>1. /\ boot.server <= Len(Servers) /\ boot.step = "connect"
        /\ Server = Gsuite
        /\ boot' = [boot EXCEPT !.step = "add", !.tools = tools]
        /\ listed' = [listed EXCEPT ![Server] = Range(tools)]
        /\ UNCHANGED <<backends, routes, defs>>
    BY <1>6 DEF ConnectGsuite, Connecting
  <2>2. tools \in Seq(Tools)
    BY <2>1, ServerIs, McpAssumption
  <2>3. /\ boot' \in [server : {boot.server}, page : 0..MaxPages,
                       step : {"list", "add"}, cursor : Cursors \cup {None},
                       tools : Seq(Tools)]
        /\ boot'.tools = tools /\ boot'.step = "add"
    BY <2>1, <2>2 DEF RegistryType
  <2>4. QED
    BY <2>1, <2>3, ListingInv
<1>7. ASSUME Connecting("list"), NEW tools \in PagesOf[Server],
             NEW next \in Cursors \cup {None}, ListTools(tools, next)
      PROVE  RegistryType' /\ RegistryInv'
  <2> DEFINE all == boot.tools \o tools
             some == SubSeq(all, 1, Min({Len(all), MaxTools}))
             over == \/ Len(all) >= MaxTools
                     \/ next \in {None, boot.cursor}
                     \/ boot.page + 1 = MaxPages
  <2>1. /\ boot.server <= Len(Servers) /\ boot.step = "list"
        /\ boot' = [boot EXCEPT !.tools = some, !.page = boot.page + 1,
                               !.cursor = next,
                               !.step = IF over THEN "add" ELSE "list"]
        /\ listed' = [listed EXCEPT ![Server] = Range(boot'.tools)]
        /\ UNCHANGED <<backends, routes, defs>>
    BY <1>7 DEF ListTools, Connecting, RegistryType
  <2>2. tools \in Seq(Tools) /\ boot.tools \in Seq(Tools)
    BY <2>1, ServerIs, McpAssumption DEF RegistryType
  <2>3. some \in Seq(Tools)
    BY <2>2, CutTyped
  <2>4. boot.page + 1 \in 0..MaxPages
    BY <2>1, McpAssumption DEF RegistryType, RegistryInv, Placed
  <2>5. boot.page + 1 = MaxPages => over
    OBVIOUS
  <2> HIDE DEF some, over
  <2>6. /\ boot' \in [server : {boot.server}, page : 0..MaxPages,
                       step : {"list", "add"}, cursor : Cursors \cup {None},
                       tools : Seq(Tools)]
        /\ boot'.step = (IF over THEN "add" ELSE "list")
        /\ boot'.page = boot.page + 1
    BY <2>1, <2>3, <2>4 DEF RegistryType
  <2>7. boot'.step = "list" => boot'.page < MaxPages
    BY <2>4, <2>5, <2>6, McpAssumption
  <2>8. QED
    BY <2>1, <2>6, <2>7, ListingInv
<1>8. QED
  BY <1>1, <1>2, <1>3, <1>4, <1>5, <1>6, <1>7 DEF Boot
-----------------------------------------------------------------------------
\* Calls and their token.

Calls ==
    [phase : {"idle", "rpc", "locking", "refreshing", "minted", "sending",
              "answering"},
     server : Range(Servers) \cup {None}, rest : 0..MaxRequests,
     first : BOOLEAN, age : 0..Timeout, left : Clock]

\* The part of TypeOK about calls.
CallType ==
    /\ session \in [Range(Servers) -> {"given", None}]
    /\ cache \in [left : Clock, usable : Clock]
    /\ lock \in Callers \cup {None}
    /\ call \in [Callers -> Calls]

\* A token under way has lost no more of its life than its request is old;
\* one that a request carries outlives the request.
Alive(r) ==
    /\ r.phase = "minted" => r.left + r.age >= Lifetime
    /\ r.phase = "sending" => r.left + r.age > Timeout

\* A cached token that is usable has the slack to live, but for the time its
\* own request took.
Cached == cache.usable > 0 => cache.left + Timeout >= cache.usable + Slack

\* The mutex is held for as long as a refresh is under way, and no longer.
Holding == {"refreshing", "minted"}
Held == \A c \in Callers : call[c].phase \in Holding <=> lock = c

\* While it is, there is no usable token.
Unusable == lock # None => cache.usable = 0

TokenInv == (\A c \in Callers : Alive(call[c])) /\ Cached /\ Held /\ Unusable

\* What the assumption says of times.
LEMMA Times ==
    /\ Timeout \in Nat /\ Slack \in Nat /\ Lifetime \in Nat
    /\ 2 * Timeout <= Slack /\ Slack < Lifetime
    /\ MaxRequests \in Nat /\ MaxRequests >= 1 /\ None \notin Callers
BY McpAssumption DEF None

\* One call is changed, with what that does to the token.
LEMMA CallChanged ==
    ASSUME CallType, TokenInv, NEW c \in Callers, NEW r \in Calls, Alive(r),
           call' = [call EXCEPT ![c] = r],
           session' \in [Range(Servers) -> {"given", None}],
           cache' \in [left : Clock, usable : Clock],
           lock' \in Callers \cup {None},
           Cached', Unusable',
           r.phase \in Holding <=> lock' = c,
           \A d \in Callers \ {c} : lock = d <=> lock' = d
    PROVE  CallType' /\ TokenInv'
<1>1. /\ call' \in [Callers -> Calls] /\ call'[c] = r
      /\ \A d \in Callers \ {c} : call'[d] = call[d]
  BY DEF CallType
<1>2. CallType'
  BY <1>1 DEF CallType
<1>3. \A d \in Callers : Alive(call'[d])
  BY <1>1 DEF TokenInv
<1>4. Held'
  <2> SUFFICES ASSUME NEW d \in Callers
               PROVE  call'[d].phase \in Holding <=> lock' = d
    BY DEF Held, Holding
  <2>1. CASE d = c
    BY <1>1, <2>1
  <2>2. CASE d # c
    BY <1>1, <2>2 DEF TokenInv, Held
  <2>3. QED
    BY <2>1, <2>2
<1>5. QED
  BY <1>2, <1>3, <1>4 DEF TokenInv, Alive

\* The same when the token and the mutex are left alone, and the call is not
\* the holder of the mutex before or after.
LEMMA OnlyCallChanged ==
    ASSUME CallType, TokenInv, NEW c \in Callers, NEW r \in Calls, Alive(r),
           call[c].phase \notin Holding, r.phase \notin Holding,
           call' = [call EXCEPT ![c] = r],
           session' \in [Range(Servers) -> {"given", None}],
           UNCHANGED <<cache, lock>>
    PROVE  CallType' /\ TokenInv'
<1>1. Cached' /\ Unusable' /\ lock' = lock /\ cache' = cache
  BY DEF TokenInv, Cached, Unusable
<1>2. lock' # c
  BY <1>1 DEF TokenInv, Held
<1>3. lock' \in Callers \cup {None} /\ cache' \in [left : Clock, usable : Clock]
  BY <1>1 DEF CallType
<1> HIDE DEF CallType, TokenInv
<1>4. QED
  BY <1>1, <1>2, <1>3, CallChanged

\* Any answer leaves the sessions what they are.
LEMMA HeadersTyped ==
    ASSUME CallType, NEW s, Headers(s)
    PROVE  session' \in [Range(Servers) -> {"given", None}]
BY DEF CallType, Headers

\* A call goes on, or is over; it has no token then.
LEMMA GoesOn ==
    ASSUME CallType, NEW c \in Callers, NEW r \in {NextRequest(c), Failed(c)}
    PROVE  r \in Calls /\ r.phase \in {"idle", "locking"} /\ Alive(r)
<1>1. call[c] \in Calls
  BY DEF CallType
<1>2. Idle \in Calls /\ Idle.phase = "idle"
  BY Times DEF Idle, Calls, Clock
<1>3. call[c].rest \in 0..MaxRequests /\ 0 \in 0..Timeout /\ 0 \in Clock
  BY <1>1, Times DEF Calls, Clock
<1> DEFINE next == [call[c] EXCEPT !.phase = "locking", !.rest = @ - 1,
                                   !.first = FALSE, !.age = 0, !.left = 0]
<1>4. ASSUME call[c].rest > 1
      PROVE  next \in Calls /\ next.phase = "locking"
  <2>1. call[c].rest - 1 \in 0..MaxRequests
    BY <1>3, <1>4, Times
  <2>2. QED
    BY <1>1, <1>3, <2>1 DEF Calls
<1>5. NextRequest(c) = (IF call[c].rest <= 1 THEN Idle ELSE next)
  BY DEF NextRequest
<1> HIDE DEF next
<1>6. r \in Calls /\ r.phase \in {"idle", "locking"}
  <2>1. r \in {Idle, NextRequest(c)}
    BY DEF Failed
  <2>2. CASE call[c].rest <= 1
    BY <1>2, <1>5, <2>1, <2>2
  <2>3. CASE call[c].rest > 1
    BY <1>2, <1>3, <1>4, <1>5, <2>1, <2>3, Times
  <2>4. QED
    BY <1>3, <2>2, <2>3, Times
<1>7. QED
  BY <1>6 DEF Alive

\* The steps of a call.
LEMMA StepInv ==
    ASSUME CallType, TokenInv, NEW c \in Callers, Step(c)
    PROVE  CallType' /\ TokenInv'
<1> USE DEF Holding
<1>1. call[c] \in Calls /\ session \in [Range(Servers) -> {"given", None}]
      /\ lock \in Callers \cup {None} /\ cache \in [left : Clock, usable : Clock]
      /\ Alive(call[c]) /\ (call[c].phase \in Holding <=> lock = c)
  BY DEF CallType, TokenInv, Held
<1>2. CASE RpcEnds(c)
  <2>1. Idle \in Calls /\ Idle.phase = "idle" /\ Alive(Idle)
    BY Times DEF Idle, Calls, Clock, Alive
  <2>2. /\ call[c].phase = "rpc" /\ call' = [call EXCEPT ![c] = Idle]
        /\ UNCHANGED <<cache, lock>>
        /\ session' \in [Range(Servers) -> {"given", None}]
    BY <1>2, HeadersTyped DEF RpcEnds
  <2>3. QED
    BY <2>1, <2>2, OnlyCallChanged
<1>3. CASE Mint(c)
  <2> DEFINE r == [call[c] EXCEPT !.phase = "minted", !.left = Lifetime]
  <2>1. /\ call[c].phase = "refreshing" /\ call' = [call EXCEPT ![c] = r]
        /\ UNCHANGED <<session, cache, lock>>
    BY <1>3 DEF Mint
  <2>2. r \in Calls /\ r.phase = "minted" /\ r.left = Lifetime /\ r.age = call[c].age
    <3>1. Lifetime \in Clock
      BY Times DEF Clock
    <3>2. QED
      BY <1>1, <3>1 DEF Calls
  <2>3. Alive(r)
    <3>1. call[c].age \in Nat
      BY <1>1, Times DEF Calls
    <3>2. QED
      BY <2>2, <3>1, Times DEF Alive
  <2> HIDE DEF r
  <2>4. Cached' /\ Unusable'
    BY <2>1 DEF TokenInv, Cached, Unusable
  <2>5. QED
    BY <1>1, <2>1, <2>2, <2>3, <2>4, CallChanged
<1>4. CASE Refreshed(c)
  <2> DEFINE r == [call[c] EXCEPT !.phase = "sending", !.age = 0]
  <2>1. /\ call[c].phase = "minted" /\ call' = [call EXCEPT ![c] = r]
        /\ lock' = None /\ cache' = [left |-> call[c].left, usable |-> Keep]
        /\ UNCHANGED session
    BY <1>4 DEF Refreshed
  <2>2. /\ call[c].age \in 0..Timeout /\ call[c].left \in Clock
        /\ call[c].left + call[c].age >= Lifetime
    BY <1>1, <2>1 DEF Calls, Alive
  <2>3. r \in Calls /\ r.phase = "sending" /\ r.left = call[c].left /\ r.age = 0
    <3>1. 0 \in 0..Timeout
      BY Times
    <3>2. QED
      BY <1>1, <3>1 DEF Calls
  <2>4. Alive(r)
    BY <2>2, <2>3, Times DEF Alive, Clock
  <2> HIDE DEF r
  <2>5. cache' \in [left : Clock, usable : Clock] /\ Cached'
    BY <2>1, <2>2, KeepIs, Times DEF Cached, Clock
  <2>6. Unusable' /\ lock' # c /\ \A d \in Callers \ {c} : lock' # d /\ lock # d
    BY <1>1, <2>1, Times DEF Unusable
  <2>7. QED
    BY <1>1, <2>1, <2>3, <2>4, <2>5, <2>6, CallChanged
<1>5. CASE RefreshFails(c)
  <2>1. /\ call[c].phase \in Holding /\ call' = [call EXCEPT ![c] = Failed(c)]
        /\ lock' = None /\ UNCHANGED <<session, cache>>
    BY <1>5 DEF RefreshFails
  <2>2. /\ Failed(c) \in Calls /\ Failed(c).phase \in {"idle", "locking"}
        /\ Alive(Failed(c))
    BY GoesOn
  <2>3. /\ Cached' /\ Unusable' /\ lock' # c
        /\ \A d \in Callers \ {c} : lock' # d /\ lock # d
    BY <1>1, <2>1, Times DEF TokenInv, Cached, Unusable
  <2>4. QED
    BY <1>1, <2>1, <2>2, <2>3, CallChanged
<1>6. CASE Arrive(c)
  <2> DEFINE r == [call[c] EXCEPT !.phase = "answering"]
  <2>1. /\ call[c].phase = "sending" /\ call' = [call EXCEPT ![c] = r]
        /\ UNCHANGED <<session, cache, lock>>
    BY <1>6 DEF Arrive, CallType
  <2>2. r \in Calls /\ r.phase = "answering"
    BY <1>1 DEF Calls
  <2>3. Alive(r)
    BY <2>2 DEF Alive
  <2> HIDE DEF r
  <2>4. QED
    BY <1>1, <2>1, <2>2, <2>3, OnlyCallChanged
<1>7. CASE Answered(c)
  <2>1. PICK r \in {NextRequest(c), Failed(c)} : call' = [call EXCEPT ![c] = r]
    BY <1>7 DEF Answered
  <2>2. /\ call[c].phase \in {"sending", "answering"}
        /\ UNCHANGED <<session, cache, lock>>
    BY <1>7 DEF Answered
  <2>3. r \in Calls /\ r.phase \in {"idle", "locking"} /\ Alive(r)
    BY GoesOn
  <2>4. QED
    BY <1>1, <2>1, <2>2, <2>3, OnlyCallChanged
<1>8. QED
  BY <1>2, <1>3, <1>4, <1>5, <1>6, <1>7 DEF Step

\* A token is taken from the cache, or the mutex to refresh it.
LEMMA UseTokenInv ==
    ASSUME CallType, TokenInv, NEW c \in Callers, UseToken(c)
    PROVE  CallType' /\ TokenInv'
<1>1. /\ call[c] \in Calls /\ session \in [Range(Servers) -> {"given", None}]
      /\ cache \in [left : Clock, usable : Clock]
      /\ call[c].phase = "locking" /\ lock = None
      /\ UNCHANGED <<session, cache>>
  BY DEF CallType, UseToken
<1>2. cache.left \in Clock /\ cache.usable \in Clock /\ 0 \in 0..Timeout
  BY <1>1, Times
<1>3. CASE cache.usable > 0
  <2> DEFINE r == [call[c] EXCEPT !.phase = "sending", !.age = 0, !.left = cache.left]
  <2>1. call' = [call EXCEPT ![c] = r] /\ UNCHANGED <<cache, lock>>
    BY <1>3 DEF UseToken
  <2>2. r \in Calls /\ r.phase = "sending" /\ r.left = cache.left /\ r.age = 0
    BY <1>1, <1>2 DEF Calls
  <2>3. Alive(r)
    <3>1. cache.left + Timeout >= cache.usable + Slack
      BY <1>3 DEF TokenInv, Cached
    <3>2. QED
      BY <1>2, <1>3, <2>2, <3>1, Times DEF Alive, Clock
  <2> HIDE DEF r
  <2>4. QED
    BY <1>1, <2>1, <2>2, <2>3, OnlyCallChanged DEF Holding
<1>4. CASE ~ (cache.usable > 0)
  <2> DEFINE r == [call[c] EXCEPT !.phase = "refreshing", !.age = 0]
  <2>1. call' = [call EXCEPT ![c] = r] /\ lock' = c
    BY <1>4 DEF UseToken
  <2>2. r \in Calls /\ r.phase = "refreshing"
    BY <1>1, <1>2 DEF Calls
  <2>3. Alive(r)
    BY <2>2 DEF Alive
  <2> HIDE DEF r
  <2>4. Cached'
    BY <1>1 DEF TokenInv, Cached
  <2>5. Unusable'
    <3>1. cache.usable = 0
      BY <1>2, <1>4, Times DEF Clock
    <3>2. QED
      BY <1>1, <3>1 DEF Unusable
  <2>6. \A d \in Callers \ {c} : lock = d <=> lock' = d
    BY <1>1, <2>1, Times
  <2>7. lock' \in Callers \cup {None} /\ r.phase \in Holding
    BY <2>1, <2>2 DEF Holding
  <2>8. QED
    BY <1>1, <2>1, <2>2, <2>3, <2>4, <2>5, <2>6, <2>7, CallChanged
<1>5. QED
  BY <1>3, <1>4

\* A call starts by its route.
LEMMA CallToolInv ==
    ASSUME RegistryType, RegistryInv, CallType, TokenInv, NEW c \in Callers,
           NEW name \in DOMAIN routes, NEW requests \in 1..MaxRequests,
           CallTool(c, name, requests)
    PROVE  CallType' /\ TokenInv'
<1> DEFINE s == backends[routes[name][1]]
           r == [Idle EXCEPT !.phase = IF s = Gsuite THEN "locking" ELSE "rpc",
                             !.server = s,
                             !.rest = IF s = Gsuite THEN requests ELSE 0]
<1>1. /\ call[c].phase = "idle" /\ call' = [call EXCEPT ![c] = r]
      /\ UNCHANGED <<session, cache, lock>>
  BY DEF CallTool
<1>2. s \in Range(Servers)
  BY BackendsAre DEF RegistryInv, Routed
<1> HIDE DEF s
<1>3. 0 \in 0..MaxRequests /\ requests \in 0..MaxRequests /\ 0 \in 0..Timeout
      /\ 0 \in Clock
  BY Times DEF Clock
<1>4. r \in Calls /\ r.phase \in {"locking", "rpc"}
  BY <1>2, <1>3 DEF Idle, Calls
<1> HIDE DEF r
<1>5. Alive(r) /\ session' \in [Range(Servers) -> {"given", None}]
  BY <1>1, <1>4 DEF Alive, CallType
<1>6. QED
  BY <1>1, <1>4, <1>5, OnlyCallChanged DEF Holding

\* Time passes for every request and every token.
LEMMA TickInv ==
    ASSUME CallType, TokenInv, Tick
    PROVE  CallType' /\ TokenInv'
<1> DEFINE Less(n) == Max({0, n - 1})
           older(c) == [call[c] EXCEPT !.age = @ + 1, !.left = Less(@)]
<1>1. \A n \in Clock : Less(n) \in Clock /\ Less(n) = IF n = 0 THEN 0 ELSE n - 1
  <2> SUFFICES ASSUME NEW n \in Clock
               PROVE  Less(n) \in Clock /\ Less(n) = IF n = 0 THEN 0 ELSE n - 1
    OBVIOUS
  <2>1. n \in Nat /\ n <= Lifetime
    BY Times DEF Clock
  <2>2. Less(n) = IF n = 0 THEN 0 ELSE n - 1
    BY <2>1, LessIs
  <2> HIDE DEF Less
  <2>3. Less(n) \in Clock
    BY <2>1, <2>2, Times DEF Clock
  <2>4. QED
    BY <2>2, <2>3
<1>2. /\ \A c \in Callers : call[c].phase \in Timed => call[c].age < Timeout
      /\ cache' = [left |-> Less(cache.left), usable |-> Less(cache.usable)]
      /\ call' = [c \in Callers |->
                     IF call[c].phase \in Timed THEN older(c) ELSE call[c]]
      /\ UNCHANGED <<session, lock>>
  BY DEF Tick
<1> HIDE DEF Less
<1>3. cache.left \in Clock /\ cache.usable \in Clock
  BY DEF CallType
<1>4. /\ cache' \in [left : Clock, usable : Clock]
      /\ cache'.left = Less(cache.left) /\ cache'.usable = Less(cache.usable)
  BY <1>1, <1>2, <1>3
<1>5. ASSUME NEW c \in Callers, call[c].phase \in Timed
      PROVE  /\ call'[c] \in Calls /\ call'[c].phase = call[c].phase
             /\ Alive(call'[c])
  <2>1. call[c] \in Calls /\ call[c].age \in 0..Timeout /\ call[c].left \in Clock
    BY DEF CallType, Calls
  <2>2. call[c].age + 1 \in 0..Timeout /\ Less(call[c].left) \in Clock
    <3>1. call[c].age < Timeout
      BY <1>2, <1>5
    <3>2. call[c].age + 1 \in 0..Timeout
      BY <2>1, <3>1, Times
    <3>3. QED
      BY <1>1, <2>1, <3>2
  <2>3. /\ older(c) \in Calls /\ older(c).phase = call[c].phase
        /\ older(c).age = call[c].age + 1 /\ older(c).left = Less(call[c].left)
    BY <2>1, <2>2 DEF Calls
  <2>4. older(c).left + older(c).age >= call[c].left + call[c].age
    BY <1>1, <2>1, <2>3, Times DEF Clock
  <2>5. call'[c] = older(c)
    BY <1>2, <1>5
  <2> HIDE DEF older
  <2>6. /\ call'[c].left \in Int /\ call'[c].age \in Int
        /\ call[c].left \in Int /\ call[c].age \in Int
    BY <2>1, <2>2, <2>3, <2>5, Times DEF Clock
  <2>7. Alive(call[c])
    BY DEF TokenInv
  <2>8. Alive(call'[c])
    BY <2>3, <2>4, <2>5, <2>6, <2>7, Times DEF Alive
  <2>9. QED
    BY <2>3, <2>5, <2>8
<1>6. ASSUME NEW c \in Callers, call[c].phase \notin Timed
      PROVE  /\ call'[c] \in Calls /\ call'[c].phase = call[c].phase
             /\ Alive(call'[c])
  BY <1>2, <1>6 DEF CallType, TokenInv
<1>7. call' \in [Callers -> Calls]
  <2>1. call' = [c \in Callers |-> call'[c]]
    BY <1>2
  <2>2. QED
    BY <1>5, <1>6, <2>1
<1>8. CallType'
  BY <1>2, <1>4, <1>7 DEF CallType
<1>9. Cached'
  BY <1>1, <1>3, <1>4, Times DEF TokenInv, Cached, Clock
<1>10. Unusable' /\ Held'
  BY <1>1, <1>2, <1>4, <1>5, <1>6, <1>3 DEF TokenInv, Unusable, Held
<1>11. QED
  BY <1>5, <1>6, <1>8, <1>9, <1>10 DEF TokenInv, Alive
-----------------------------------------------------------------------------
\* The inductive invariant.
McpInv == RegistryType /\ CallType /\ RegistryInv /\ TokenInv

\* It is TypeOK, in two parts, and more.
LEMMA TypeIs == TypeOK <=> RegistryType /\ CallType
BY DEF TypeOK, RegistryType, CallType, Steps, Calls

LEMMA McpInit == Init => McpInv
<1> SUFFICES ASSUME Init PROVE McpInv
  OBVIOUS
<1>1. /\ boot = Startup(1) /\ backends = <<>> /\ routes = << >> /\ defs = <<>>
      /\ session = [s \in Range(Servers) |-> None]
      /\ cache = [left |-> 0, usable |-> 0] /\ lock = None
      /\ call = [c \in Callers |-> Idle]
      /\ listed = [s \in Range(Servers) |-> {}]
  BY DEF Init
<1>2. Len(Servers) \in Nat /\ MaxPages \in Nat /\ MaxPages >= 1 /\ MaxTools \in Nat
  BY LenProperties, McpAssumption
<1>3. /\ Len(<<>>) = 0 /\ DOMAIN <<>> = {}
      /\ <<>> \in Seq(Range(Servers)) /\ <<>> \in Seq(Names) /\ <<>> \in Seq(Tools)
  BY EmptySeq
<1>4. RegistryType
  <2>1. boot \in [server : 1..(Len(Servers) + 1), page : 0..MaxPages, step : Steps,
                  cursor : Cursors \cup {None}, tools : Seq(Tools)]
    BY <1>1, <1>2, <1>3 DEF Startup, Steps
  <2>2. QED
    BY <1>1, <1>2, <1>3, <2>1 DEF RegistryType
<1>5. RegistryInv
  <2>1. boot.server = 1 /\ boot.step = "connect" /\ boot.page = 0
    BY <1>1 DEF Startup
  <2>2. DOMAIN backends = {} /\ DOMAIN routes = {} /\ Len(backends) = 0
    BY <1>1, <1>3
  <2>3. QED
    BY <1>2, <2>1, <2>2 DEF RegistryInv, Placed, Counted, Prefix, Remaining,
       Routed, Covered
<1>6. Idle \in Calls /\ Idle.phase = "idle" /\ 0 \in Clock
  BY Times DEF Idle, Calls, Clock
<1>7. CallType
  BY <1>1, <1>6 DEF CallType
<1>8. TokenInv
  BY <1>1, <1>6, Times DEF TokenInv, Alive, Cached, Held, Holding, Unusable
<1>9. QED
  BY <1>4, <1>5, <1>7, <1>8 DEF McpInv

\* The registry is what its variables are.
LEMMA RegistryStutter ==
    ASSUME RegistryType, RegistryInv, UNCHANGED registry
    PROVE  RegistryType' /\ RegistryInv'
<1>1. /\ boot' = boot /\ backends' = backends /\ routes' = routes
      /\ defs' = defs /\ listed' = listed
  BY DEF registry
<1>2. RegistryType'
  BY <1>1 DEF RegistryType
<1>3. RegistryInv'
  BY <1>1 DEF RegistryInv, Placed, Counted, Prefix, Remaining, Routed, Covered,
     ExposedName, Server
<1>4. QED
  BY <1>2, <1>3

\* Calls are what theirs are, whatever sessions an answer hands out.
LEMMA CallStutter ==
    ASSUME CallType, TokenInv, UNCHANGED <<cache, lock, call>>,
           session' \in [Range(Servers) -> {"given", None}]
    PROVE  CallType' /\ TokenInv'
<1>1. cache' = cache /\ lock' = lock /\ call' = call
  OBVIOUS
<1>2. QED
  BY <1>1 DEF CallType, TokenInv, Alive, Cached, Held, Unusable

LEMMA McpNext == McpInv /\ [Next]_vars => McpInv'
<1> SUFFICES ASSUME McpInv, [Next]_vars PROVE McpInv'
  OBVIOUS
<1>1. RegistryType /\ CallType /\ RegistryInv /\ TokenInv
  BY DEF McpInv
<1>2. CASE Boot
  <2>1. /\ UNCHANGED <<cache, lock, call>>
        /\ session' \in [Range(Servers) -> {"given", None}]
    BY <1>1, <1>2, HeadersTyped DEF CallType, Boot, Skip, Initialize, AddServer,
       RegisterTool, Registered, ConnectGsuite, ListTools
  <2>2. CallType' /\ TokenInv'
    BY <1>1, <2>1, CallStutter
  <2>3. RegistryType' /\ RegistryInv'
    BY <1>1, <1>2, BootInv
  <2>4. QED
    BY <2>2, <2>3 DEF McpInv
<1>3. CASE Tick
  <2>1. UNCHANGED registry
    BY <1>3 DEF Tick
  <2>2. QED
    BY <1>1, <1>3, <2>1, TickInv, RegistryStutter DEF McpInv
<1>4. ASSUME NEW c \in Callers, NEW name \in DOMAIN routes,
             NEW n \in 1..MaxRequests, CallTool(c, name, n)
      PROVE  McpInv'
  <2>1. UNCHANGED registry
    BY <1>4 DEF CallTool
  <2>2. QED
    BY <1>1, <1>4, <2>1, CallToolInv, RegistryStutter DEF McpInv
<1>5. ASSUME NEW c \in Callers, UseToken(c)
      PROVE  McpInv'
  <2>1. UNCHANGED registry
    BY <1>5 DEF UseToken
  <2>2. QED
    BY <1>1, <1>5, <2>1, UseTokenInv, RegistryStutter DEF McpInv
<1>6. ASSUME NEW c \in Callers, Step(c)
      PROVE  McpInv'
  <2>1. UNCHANGED registry
    BY <1>6 DEF Step, RpcEnds, Mint, Refreshed, RefreshFails, Arrive, Answered
  <2>2. QED
    BY <1>1, <1>6, <2>1, StepInv, RegistryStutter DEF McpInv
<1>7. CASE UNCHANGED vars
  <2>1. UNCHANGED registry /\ UNCHANGED <<cache, lock, call>> /\ UNCHANGED session
    BY <1>7 DEF vars
  <2>2. QED
    BY <1>1, <2>1, CallStutter, RegistryStutter DEF McpInv, CallType
<1>8. QED
  BY <1>2, <1>3, <1>4, <1>5, <1>6, <1>7 DEF Next

LEMMA McpInvariant == Spec => []McpInv
BY McpInit, McpNext, PTL DEF Spec
-----------------------------------------------------------------------------
\* Type correctness of the registry, of the token cache and of every call.
THEOREM TypeCorrect == Spec => []TypeOK
<1>1. McpInv => TypeOK
  BY TypeIs DEF McpInv
<1>2. QED
  BY <1>1, McpInvariant, PTL

\* Registry::add and Registry::call: a name leads to the server that listed
\* the tool, whichever servers were skipped; and after the startup every tool
\* that was listed is reachable, or could not be given a name of its own.
THEOREM RoutesReachOwnerCorrect == Spec => []RoutesReachOwner
<1>1. McpInv => RoutesReachOwner
  <2> SUFFICES ASSUME McpInv PROVE RoutesReachOwner
    OBVIOUS
  <2>1. boot.server \in Nat /\ Len(Servers) \in Nat
    BY LenProperties, McpAssumption DEF McpInv, RegistryType
  <2>2. Booted => boot.step # "register"
    BY <2>1 DEF McpInv, RegistryInv, Placed, Booted
  <2>3. QED
    BY <2>2 DEF McpInv, RegistryInv, Routed, Covered, RoutesReachOwner
<1>2. QED
  BY <1>1, McpInvariant, PTL

\* GSuite::access_token and google_request: a token that is still usable when
\* it is taken from the cache, or that a refresh has just brought, cannot
\* expire before its request arrives.
THEOREM TokenFreshCorrect == Spec => TokenFresh
<1>1. McpInv /\ McpInv' /\ [Next]_vars =>
          [\A c \in Callers :
               call[c].phase = "sending" /\ call'[c].phase = "answering"
               => call[c].left > 0]_vars
  <2> SUFFICES ASSUME McpInv, NEW c \in Callers, call[c].phase = "sending"
               PROVE  call[c].left > 0
    OBVIOUS
  <2>1. call[c] \in Calls /\ Alive(call[c])
    BY DEF McpInv, CallType, TokenInv
  <2>2. /\ call[c].left \in Clock /\ call[c].age \in 0..Timeout
        /\ call[c].left + call[c].age > Timeout
    BY <2>1 DEF Calls, Alive
  <2>3. QED
    BY <2>2, Times DEF Clock
<1>2. QED
  BY <1>1, McpInvariant, PTL DEF Spec, TokenFresh

\* GSuite::access_token: the mutex is held across the refresh, so that no call
\* refreshes a token that another has just brought.
THEOREM RefreshOnlyWhenNeededCorrect == Spec => RefreshOnlyWhenNeeded
<1>1. McpInv /\ McpInv' /\ [Next]_vars =>
          [\A c \in Callers :
               call[c].phase = "minted" /\ call'[c].phase = "sending"
               => cache.usable = 0]_vars
  <2> SUFFICES ASSUME McpInv, NEW c \in Callers, call[c].phase = "minted"
               PROVE  cache.usable = 0
    OBVIOUS
  <2>1. lock = c
    BY DEF McpInv, TokenInv, Held, Holding
  <2>2. QED
    BY <2>1, Times DEF McpInv, TokenInv, Unusable
<1>2. QED
  BY <1>1, McpInvariant, PTL DEF Spec, RefreshOnlyWhenNeeded
=============================================================================
