------------------------------ MODULE TabViews ------------------------------
(***************************************************************************)
(* Four tabs of a service page and the requests each makes while it is     *)
(* shown: RuntimeTab.tsx, ServerTab.tsx, DatabaseTab.tsx (with useFetch)   *)
(* and FrontendTab.tsx (with an effect of its own).                        *)
(*                                                                         *)
(* A request of the first three is asked with the environment and the      *)
(* window, the one of the last with the environment only.                  *)
(*                                                                         *)
(* Definitions marked "Slip" are wrong variants of the one that follows.   *)
(***************************************************************************)
EXTENDS Integers, FiniteSets

CONSTANTS
  Envs,        \* environments; the page may have none chosen
  OwnLogs,     \* the environments with a log store of their own
  Namespaces,  \* namespaces of the service; None for one that has none
  Cards,       \* which runtimes a service may have, a set of sets
  Groups,      \* which kinds of spans it may have, a set of sets
  Targets,     \* the attributions of a vital: averages and counts by target
  TopK,        \* rows of such a table: 8 (20 for the pages)
  MaxMoves,    \* bound of what the user does
  None

VARIABLES
  page,   \* service, environment and window of the page, and its tab
  caps,   \* the capabilities, and with them the names of the metrics, are known
  reqs,   \* the requests of a mounted tab
  front,  \* the state of FrontendTab
  moves

tabVars == <<page, caps, reqs, front, moves>>

F == INSTANCE UseFetch
S == INSTANCE ScenePanels

(* What a request depends on, and what it may find.                        *)
Asks == (Envs \cup {None}) \X Nat
Data(r, Of) ==
  CASE r = "runtime"   -> [of : Of, cards : Cards, limits : BOOLEAN, used : BOOLEAN]
    [] r = "endpoints" -> [of : Of, groups : Groups]
    [] OTHER           -> [of : Of, groups : Groups,
                           graphql : {"none", "failed", "bare", "operations"}]

(* Nothing is neither asked nor found.                                     *)
ConstantsOK == \A r \in {"runtime", "endpoints", "server"} : None \notin Asks \cup Data(r, Asks)

-----------------------------------------------------------------------------
deps(p) == <<p.env, p.tick>>

Requests(tab) ==
  CASE tab = "runtime"  -> {"runtime"}
    [] tab = "server"   -> {"server"}
    [] tab = "database" -> {"endpoints", "runtime"}
    [] OTHER            -> {}

NotAsked == [available |-> None, hasLoki |-> FALSE, vitals |-> FALSE, of |-> None, call |-> None]

FrontMounted(p) ==
  IF p.tab = "frontend" THEN [NotAsked EXCEPT !.call = p.env] ELSE NotAsked

Mounted(p) == [r \in Requests(p.tab) |-> F!Mounted(deps(p), FALSE)]

Init ==
  /\ page \in [ns : Namespaces, env : Envs \cup {None}, tick : {0},
               tab : {"runtime", "server", "database", "frontend"}]
  /\ caps \in BOOLEAN
  /\ reqs = Mounted(page) /\ front = FrontMounted(page)
  /\ moves = 0

-----------------------------------------------------------------------------
(* RuntimeTab: a card for each runtime.  A card draws bars; "measured" says *)
(* that the whole is known that the bar is a share of.                     *)

Bar(name, measured) == [name |-> name, measured |-> measured]

BarsIf(cond, names) == IF cond THEN {Bar(n, TRUE) : n \in names} ELSE {}

MemoryPoolTable(d) == BarsIf(d.limits, {"memory pool"})

JVMCard(d) ==
  {Bar("heap", d.limits)} \cup BarsIf(d.used, {"cpu"}) \cup MemoryPoolTable(d)

NodeJSCard(d) ==
  {Bar("heap", d.limits)} \cup BarsIf(d.used, {"event loop", "cpu"})
  \cup BarsIf(d.used /\ d.limits, {"open files"})

GoCard(d) == BarsIf(d.limits, {"memory"}) \cup BarsIf(d.used /\ d.limits, {"open files"})

ContainerCard(d) == BarsIf(d.limits, {"cpu of requests", "memory of requests"})

(* The utilization of a pool is computed by the backend.                   *)
DBPoolCard(d) == {Bar("pool", TRUE)}

(* A table of topics, without a bar.                                       *)
KafkaCard(d) == {}

Card(name, d) ==
  CASE name = "jvm"       -> JVMCard(d)
    [] name = "nodejs"    -> NodeJSCard(d)
    [] name = "go"        -> GoCard(d)
    [] name = "container" -> ContainerCard(d)
    [] name = "dbPool"    -> DBPoolCard(d)
    [] OTHER              -> KafkaCard(d)

(* What every tab with useFetch shows first.                               *)
Pending(f) ==
  IF f.loading THEN "spinner" ELSE IF f.error THEN "error" ELSE "settled"

(* Slip: the note comes with an error.                                     *)
RuntimeTabUnread(f) ==
  IF f.loading THEN "spinner"
  ELSE IF f.data = None THEN "note"
  ELSE IF f.data.cards = {} THEN "note" ELSE "cards"

RuntimeTab(f) ==
  IF Pending(f) # "settled" THEN Pending(f)
  ELSE IF f.data.cards = {} THEN "note" ELSE "cards"

(* ServerTab: two requests in one; GraphQL may fail by itself.             *)
ServerTab(f) ==
  IF Pending(f) # "settled" THEN Pending(f)
  ELSE IF f.data.groups = {} /\ f.data.graphql \notin {"bare", "operations"} THEN "note"
  ELSE "sections"

ServerSections(d) == d.groups \cup (IF d.graphql = "operations" THEN {"graphql"} ELSE {})

-----------------------------------------------------------------------------
(* DatabaseTab.                                                            *)
hasDbSpans(e) == e.data # None /\ "database" \in e.data.groups
hasDbPool(r) == r.data # None /\ "dbPool" \in r.data.cards

(* The failure of the second request is not asked for.                     *)
DatabaseTab(e, r) ==
  IF e.error THEN "error"
  ELSE IF e.loading \/ r.loading THEN "spinner"
  ELSE IF ~hasDbSpans(e) /\ ~hasDbPool(r) THEN "EmptyStateBody" ELSE "sections"

DatabaseScene(p, e, r) ==
  S!buildDatabaseScene([namespace |-> p.ns, environment |-> p.env, named |-> caps,
                        hasDbSpans |-> hasDbSpans(e), hasDbPool |-> hasDbPool(r)])

DatabaseSections(e, r) ==
  (IF hasDbSpans(e) THEN {"operations", "top queries", "n plus one"} ELSE {"MissingSpansNote"})
  \cup (IF hasDbPool(r) THEN {"pools"} ELSE {"MissingPoolMetricsNote"})

(* FrontendTab.                                                            *)
FrontendTab(f) ==
  IF f.available = None THEN "spinner"
  ELSE IF ~f.available THEN "SetupPlaceholder"
  ELSE IF f.vitals THEN "panels" ELSE "panels without recent data"

FrontendScene(p, f) ==
  S!FrontendPanels([environment |-> p.env, ownLogs |-> p.env \in OwnLogs, hasLoki |-> f.hasLoki])

Shows ==
  CASE page.tab = "runtime"  -> RuntimeTab(reqs["runtime"])
    [] page.tab = "server"   -> ServerTab(reqs["server"])
    [] page.tab = "database" -> DatabaseTab(reqs["endpoints"], reqs["runtime"])
    [] OTHER                 -> FrontendTab(front)

Panels ==
  CASE page.tab = "database" /\ Shows = "sections" ->
         DatabaseScene(page, reqs["endpoints"], reqs["runtime"])
    [] page.tab = "frontend" /\ Shows \in {"panels", "panels without recent data"} ->
         FrontendScene(page, front)
    [] OTHER -> {}

-----------------------------------------------------------------------------
(* A tab is mounted when it is opened and unmounted with all it has.       *)
setTab ==
  /\ moves < MaxMoves /\ moves' = moves + 1
  /\ \E tab \in {"runtime", "server", "database", "frontend"} \ {page.tab} :
       page' = [page EXCEPT !.tab = tab]
  /\ reqs' = Mounted(page') /\ front' = FrontMounted(page')
  /\ UNCHANGED caps

Rendered(p) == [r \in DOMAIN reqs |-> F!Rendered(reqs[r], deps(p), FALSE)]

(* Slip: the answer stays when the environment changes.                    *)
FrontRenderedKept(p) == [front EXCEPT !.call = p.env]

(* The clean-up of the effect forgets the answer before the next request.  *)
FrontRendered(p) == FrontMounted(p)

setEnv ==
  /\ moves < MaxMoves /\ moves' = moves + 1
  /\ \E e \in (Envs \cup {None}) \ {page.env} : page' = [page EXCEPT !.env = e]
  /\ reqs' = Rendered(page') /\ front' = FrontRendered(page')
  /\ UNCHANGED caps

(* A relative window moves on; FrontendTab does not ask again.             *)
handleRefresh ==
  /\ moves < MaxMoves /\ moves' = moves + 1
  /\ page' = [page EXCEPT !.tick = @ + 1]
  /\ reqs' = Rendered(page')
  /\ UNCHANGED <<caps, front>>

Arrives ==
  /\ \E r \in DOMAIN reqs :
       /\ reqs[r].call # None
       /\ \E d \in Data(r, {reqs[r].call}) : reqs' = [reqs EXCEPT ![r] = F!Answered(@, d)]
  /\ UNCHANGED <<page, caps, front, moves>>

Fails ==
  /\ \E r \in DOMAIN reqs :
       reqs[r].call # None /\ reqs' = [reqs EXCEPT ![r] = F!Rejected(@)]
  /\ UNCHANGED <<page, caps, front, moves>>

FrontAsked == page.tab = "frontend" /\ front.available = None

FrontArrives ==
  /\ FrontAsked
  /\ \E a, loki, v \in BOOLEAN :
       front' = [front EXCEPT !.available = a, !.hasLoki = loki, !.vitals = v, !.of = front.call]
  /\ UNCHANGED <<page, caps, reqs, moves>>

(* A failure reads as "not available".                                     *)
FrontFails ==
  /\ FrontAsked
  /\ front' = [front EXCEPT !.available = FALSE, !.of = front.call]
  /\ UNCHANGED <<page, caps, reqs, moves>>

CapsArrive ==
  /\ ~caps /\ caps' = TRUE
  /\ UNCHANGED <<page, reqs, front, moves>>

Backend == Arrives \/ Fails \/ FrontArrives \/ FrontFails

Next == setTab \/ setEnv \/ handleRefresh \/ CapsArrive \/ Backend

(* Every request is answered or fails.                                     *)
Fairness == WF_tabVars(Backend)

Spec == Init /\ [][Next]_tabVars /\ Fairness

-----------------------------------------------------------------------------
(* The page as the answers of its tab see it.                              *)
Quiet == \A r \in DOMAIN reqs : reqs[r].call = None

TabTypeOK ==
  /\ DOMAIN reqs = Requests(page.tab)
  /\ \A r \in DOMAIN reqs : reqs[r].deps = deps(page)
  /\ \A c \in UNION Cards : \A b \in Card(c, [limits |-> TRUE, used |-> TRUE]) : b.measured
  /\ page.tab # "frontend" => front = NotAsked

(* Request r was answered, for the environment and window of the page.     *)
AnsweredNow(r) == ~reqs[r].error /\ reqs[r].data # None /\ reqs[r].data.of = deps(page)

(* A tab that has nothing pending says that there is nothing to see only   *)
(* on an answer for the page's own service, environment and window that    *)
(* held none of it, never on one of before; and it shows a section for all *)
(* that is there.  Two failures do read as nothing: that of the GraphQL    *)
(* metrics in the server tab (ServerTab.tsx:44), and that of the runtime   *)
(* metrics in the database tab (DatabaseTab.tsx:90).  The placeholder of   *)
(* the frontend tab is not held to this: it stands for a failure as well.  *)
TabNoteIsTrue ==
  Quiet =>
    /\ page.tab = "runtime" /\ Shows = "note" =>
         AnsweredNow("runtime") /\ reqs["runtime"].data.cards = {}
    /\ page.tab = "server" /\ Shows = "note" =>
         /\ AnsweredNow("server") /\ reqs["server"].data.groups = {}
         /\ reqs["server"].data.graphql \in {"none", "failed"}
    /\ Shows = "EmptyStateBody" =>
         /\ AnsweredNow("endpoints") /\ "database" \notin reqs["endpoints"].data.groups
         /\ reqs["runtime"].error
              \/ (AnsweredNow("runtime") /\ "dbPool" \notin reqs["runtime"].data.cards)
    /\ Shows = "cards" => reqs["runtime"].data.of = deps(page) /\ ~reqs["runtime"].error
    /\ page.tab = "database" /\ Shows = "sections" /\ caps =>
         LET sections == DatabaseSections(reqs["endpoints"], reqs["runtime"])
             titles == {q.title : q \in Panels}
         IN /\ "operations" \in sections <=> "Query rate" \in titles
            /\ "pools" \in sections <=> "Wait Time (P95)" \in titles

(* Each panel of a page that has chosen an environment is narrowed to it   *)
(* and to the service, or asks a store that holds nothing else.            *)
PanelsNarrowed ==
  page.env # None =>
    \A q \in Panels :
      /\ "service" \in q.by
      /\ "environment" \in q.by \/ (q.on = "logs" /\ page.env \in OwnLogs)

(* What the frontend tab knows it knows of the environment of the page.    *)
FrontendOfEnvironment == front.available # None => front.of = page.env

(* A tab does not wait for ever.                                           *)
TabComesUp == Shows = "spinner" ~> Shows # "spinner"

(* Violated.  Nothing that failed reads as nothing there: the GraphQL      *)
(* metrics in the server tab and the runtime metrics in the database tab   *)
(* do.                                                                     *)
EveryNoteIsTrue ==
  /\ page.tab = "server" /\ Shows = "note" => reqs["server"].data.graphql # "failed"
  /\ Shows = "EmptyStateBody" => reqs["runtime"].data # None
  /\ Shows = "sections" /\ page.tab = "database" /\ ~hasDbPool(reqs["runtime"]) => reqs["runtime"].data # None

(* Violated.  The rows of the database tab and the panels above them are   *)
(* of one environment.                                                     *)
TabOfOneEnvironment ==
  Panels # {} /\ page.tab = "database" => reqs["endpoints"].data.of[1] = page.env

(* Violated.  A server tab without a note has a section.                   *)
NoBlankTab == page.tab = "server" /\ Shows = "sections" => ServerSections(reqs["server"].data) # {}

(* Violated.  A bar is a share of something known.                         *)
BarsMeasured ==
  page.tab = "runtime" /\ Shows = "cards" =>
    \A c \in reqs["runtime"].data.cards : \A b \in Card(c, reqs["runtime"].data) : b.measured

(* Violated.  Two services of one name in two namespaces are told apart.   *)
PanelsOfNamespace == page.ns # None => \A q \in Panels : "namespace" \in q.by

(* Violated.  The choice of a browser narrows every panel beside it.       *)
BrowserReachesPanels == page.tab = "frontend" => \A q \in Panels : "browser" \in q.by

(* Violated.  Every attribution in the table comes with its samples.       *)
RankedAreCounted ==
  \A q \in Panels : q.title \in S!ATTRIBUTION_PANELS =>
    \A t \in DOMAIN S!AttributionRows(TopK, Targets) : S!AttributionRows(TopK, Targets)[t].count

(* Violated.  The pages of the per-page table are the most visited.        *)
PagesByVolume ==
  \A q \in Panels : q.title = "Per-Page Performance" =>
    \A p \in S!PerPageRows(TopK, Targets), r \in DOMAIN Targets \ S!PerPageRows(TopK, Targets) :
      Targets[p].count >= Targets[r].count

=============================================================================
