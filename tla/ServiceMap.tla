----------------------------- MODULE ServiceMap -----------------------------
(***************************************************************************)
(* The global service map: src/pages/ServiceMap.tsx with its two requests, *)
(* the graph it draws (src/components/ServiceGraph/ServiceGraph.tsx,       *)
(* without a focus) and the layout of the graph (useELKLayout.ts), which   *)
(* is computed by ELK one graph after the other.                           *)
(*                                                                         *)
(* A graph is known by the answer it was made of.                          *)
(*                                                                         *)
(* Definitions marked "Slip" are wrong variants of the one that follows.   *)
(***************************************************************************)
EXTENDS Integers, FiniteSets, Sequences

CONSTANTS
  Envs,      \* environments of the filter; the first view has none of them
  Sizes,     \* how many nodes an answer may have
  Many,      \* more services than this are shown by namespace: 50
  MaxLayoutNodes,  \* more nodes than this are not laid out by ELK: 300
  MaxMoves,  \* bound of what the user does
  None

VARIABLES
  url,        \* the view that was chosen, if any, and the environment
  clustered,  \* the request of the namespaces, over which the default is decided
  full,       \* the request of all services, made in their view only
  graph,      \* the mounted ServiceGraph: what it draws, what is laid out; or None
  moves

vars == <<url, clustered, full, graph, moves>>

F == INSTANCE UseFetch

-----------------------------------------------------------------------------
totalServices(c) == IF c.data = None THEN 0 ELSE c.data.services

view(u, c) ==
  IF u.view # None THEN u.view
  ELSE IF totalServices(c) > Many THEN "namespaces" ELSE "services"

(* The second request follows the view the first one decides.              *)
FullRendered(f, u, c) == F!Rendered(f, <<u.tick, u.env>>, view(u, c) # "services")

activeData(u, c, f) == IF view(u, c) = "namespaces" THEN c.data ELSE f.data

(* useMemo: a graph is made anew when the answer it comes from is another. *)
toGraphData(u, c, f) ==
  IF activeData(u, c, f) = None THEN [from |-> None, nodes |-> 0]
  ELSE [from |-> activeData(u, c, f), nodes |-> activeData(u, c, f).nodes]

(* Slip: the request that is shown is waited for, not the one that decides. *)
LoadingShown(u, c, f) == IF view(u, c) = "services" THEN f.loading ELSE c.loading

loading(u, c, f) == c.loading \/ (view(u, c) = "services" /\ f.loading)

(* What DataState shows; the error of the second request is not asked for. *)
Shows(u, c, f) ==
  IF c.error THEN "error"
  ELSE IF loading(u, c, f) THEN "spinner"
  ELSE IF toGraphData(u, c, f).nodes = 0 THEN "empty" ELSE "graph"

-----------------------------------------------------------------------------
(* useELKLayout.                                                           *)

(* The graphs ELK works on are in order; one with too many nodes is laid   *)
(* out at once, whatever ELK still works on.                               *)
runLayout(g, input) ==
  IF input.nodes > MaxLayoutNodes
  THEN [g EXCEPT !.input = input, !.laid = input, !.loading = FALSE]
  ELSE [g EXCEPT !.input = input, !.loading = TRUE, !.elk = Append(@, input)]

NoLayout == [input |-> None, laid |-> None, loading |-> TRUE, elk |-> <<>>]

(* ServiceGraph is mounted with the first graph, and unmounted when the    *)
(* page shows something else.                                              *)
ServiceGraph(g, u, c, f) ==
  IF Shows(u, c, f) # "graph" THEN None
  ELSE IF g = None THEN runLayout(NoLayout, toGraphData(u, c, f))
  ELSE IF toGraphData(u, c, f) = g.input THEN g
  ELSE runLayout(g, toGraphData(u, c, f))

(* A render of the page after the URL or the first request has changed.    *)
Renders(u, c, asked) ==
  LET f == FullRendered(asked, u, c)
  IN /\ url' = u /\ clustered' = c /\ full' = f
     /\ graph' = ServiceGraph(graph, u, c, f)

-----------------------------------------------------------------------------
Init ==
  /\ \E v \in {None, "namespaces", "services"} : url = [view |-> v, env |-> None, tick |-> 0]
  /\ clustered = F!Mounted(<<0, None>>, FALSE)
  /\ full = F!Mounted(<<0, None>>, view(url, clustered) # "services")
  /\ graph = None /\ moves = 0

Move == moves < MaxMoves /\ moves' = moves + 1

setView ==
  /\ Move
  /\ \E v \in {"namespaces", "services"} :
       v # view(url, clustered) /\ Renders([url EXCEPT !.view = v], clustered, full)

setEnvFilter ==
  /\ Move
  /\ \E e \in (Envs \cup {None}) \ {url.env} :
       Renders([url EXCEPT !.env = e], F!Rendered(clustered, <<url.tick, e>>, FALSE), full)

(* A relative window moves on, and with it what both requests depend on;   *)
(* of an absolute one both are asked for again.                            *)
handleRefresh ==
  /\ Move
  /\ \/ LET t == url.tick + 1
        IN Renders([url EXCEPT !.tick = t], F!Rendered(clustered, <<t, url.env>>, FALSE), full)
     \/ Renders(url, F!refetch(clustered), F!refetch(full))

(* Its nodes can be clicked: they lead to a namespace, or to the list of   *)
(* services, by the view of the page.                                      *)
Drawn == graph # None /\ ~graph.loading /\ graph.laid # None

Answers(call, kind) ==
  {[of |-> call, kind |-> kind, nodes |-> n, services |-> s] :
     n \in Sizes, s \in IF kind = "namespaces" THEN {0, Many + 1} ELSE {0}}

ClusteredArrives ==
  /\ clustered.call # None
  /\ \E d \in Answers(clustered.call, "namespaces") : Renders(url, F!Answered(clustered, d), full)
  /\ UNCHANGED moves

ClusteredFails ==
  /\ clustered.call # None
  /\ Renders(url, F!Rejected(clustered), full)
  /\ UNCHANGED moves

FullArrives ==
  /\ full.call # None
  /\ \E d \in Answers(full.call, "services") :
       /\ full' = F!Answered(full, d)
       /\ graph' = ServiceGraph(graph, url, clustered, full')
  /\ UNCHANGED <<url, clustered, moves>>

FullFails ==
  /\ full.call # None
  /\ full' = F!Rejected(full)
  /\ graph' = ServiceGraph(graph, url, clustered, full')
  /\ UNCHANGED <<url, clustered, moves>>

(* Slip: a layout that is no longer of the graph is passed over, and with  *)
(* it the one it is waited for.                                            *)
LayoutPassedOver(g) ==
  [g EXCEPT !.laid = Head(g.elk), !.elk = Tail(@), !.loading = Head(g.elk) # g.input]

(* A layout is shown when it is computed; after a failure the nodes are    *)
(* put in rows.                                                            *)
LayoutOf(g) == [g EXCEPT !.laid = Head(g.elk), !.elk = Tail(@), !.loading = FALSE]

LaidOut ==
  /\ graph # None /\ graph.elk # <<>>
  /\ graph' = LayoutOf(graph)
  /\ UNCHANGED <<url, clustered, full, moves>>

User == setView \/ setEnvFilter \/ handleRefresh

Backend == ClusteredArrives \/ ClusteredFails \/ FullArrives \/ FullFails \/ LaidOut

Next == User \/ Backend

(* Every request is answered or fails, and ELK gets on.                    *)
Fairness == WF_vars(Backend)

Spec == Init /\ [][Next]_vars /\ Fairness

-----------------------------------------------------------------------------
Asks == Nat \X (Envs \cup {None})
Found(kind) == [of : Asks, kind : {kind}, nodes : Sizes, services : {0, Many + 1}]
Inputs == [from : Found("namespaces") \cup Found("services"), nodes : Sizes]
Graphs == [input : Inputs, laid : Inputs \cup {None}, loading : BOOLEAN, elk : Seq(Inputs)]

(* Nothing is no answer, and no graph.                                     *)
ConstantsOK ==
  /\ None \notin Graphs \cup Found("namespaces") \cup Found("services")
  /\ Sizes \subseteq Nat /\ Many \in Nat /\ MaxLayoutNodes \in Nat /\ MaxMoves \in Nat

MapTypeOK ==
  /\ url \in [view : {None, "namespaces", "services"}, env : Envs \cup {None}, tick : Nat]
  /\ clustered.data \in Found("namespaces") \cup {None} /\ full.data \in Found("services") \cup {None}
  /\ graph \in Graphs \cup {None} /\ moves \in 0 .. MaxMoves
  /\ view(url, clustered) = "services" <=> ~full.skip
  /\ (graph # None) <=> Shows(url, clustered, full) = "graph"

(* The graph of all services is not drawn before it is known that it is    *)
(* small, unless the reader chose it.                                      *)
NeverFlashesHairball ==
  graph # None /\ graph.input.from.kind = "services" /\ url.view = None =>
    clustered.data # None /\ totalServices(clustered) <= Many

MapWaits == Shows(url, clustered, full) = "spinner" \/ (graph # None /\ ~Drawn)

(* Neither the page nor the graph waits for ever.                          *)
MapComesUp == MapWaits ~> ~MapWaits

(* Violated.  Before the namespaces have been read their view is assumed,  *)
(* and the graph of all services is not even asked for.                    *)
AssumesNamespaces ==
  url.view = None /\ clustered.data = None =>
    view(url, clustered) = "namespaces" /\ full.call = None

(* Violated.  "No traffic found" is the answer of the request that is shown. *)
NoTopologyIsTrue == Shows(url, clustered, full) = "empty" => activeData(url, clustered, full) # None

(* Violated.  A graph on screen is the one the page means.                 *)
LayoutIsOfInput == Drawn => graph.laid = graph.input

(* Violated.  Nor is an old layout left there for good.                    *)
LayoutCatchesUp == graph # None /\ graph.elk = <<>> => graph.laid = graph.input

=============================================================================
