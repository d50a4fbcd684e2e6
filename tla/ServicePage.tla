---------------------------- MODULE ServicePage ----------------------------
(***************************************************************************)
(* The page of one service: src/pages/ServiceOverview.tsx with its data    *)
(* (src/utils/useServiceData.ts over useFetch.ts), its time window         *)
(* (timeRange.ts, HeaderTimeControls, RefreshControl over useInterval.ts), *)
(* its panels (buildServiceScene.ts, useSceneTimeSync.ts) and what decides *)
(* which tabs there are (capabilities.ts, datasources.ts).                 *)
(*                                                                         *)
(* A call is known by what it asked for, so the data of a hook are the     *)
(* arguments of the call that brought them.  The clock counts refresh      *)
(* intervals.  A render and its effects are one step, except that the      *)
(* listener of the settings is added later, as a passive effect is.        *)
(*                                                                         *)
(* Definitions marked "Slip" are wrong variants of the one that follows    *)
(* them.  The specification uses none; each breaks a property below.       *)
(***************************************************************************)
EXTENDS Integers, FiniteSets, Sequences

CONSTANTS
  Services,   \* the services whose page is opened
  Envs,       \* environments
  Hooks,      \* which fetches of useServiceData are followed
  Lists,      \* answers of the service list: who has SERVER spans, and where
  Caps,       \* answers of the capability detection
  TabParams,  \* values of the parameter "tab" that are tried
  MaxNow,     \* bound of the clock
  MaxMoves,   \* bound of what the user does
  None        \* no page; no environment; no data

VARIABLES
  page,       \* service and parameters of the URL
  caps,       \* module state of capabilities.ts: the answer, None before it
  capsCall,   \* and its one promise: "none", "sent", "kept" or "failed"
  ds,         \* module state of datasources.ts and what the page made of it
  now, win,   \* the clock; the window's end, and whether it is frozen
  timer,      \* auto refresh: chosen, its timer runs; hidden: browser tab
  visited,    \* tabs that have been rendered
  list,       \* the service list
  fetch,      \* the state of every useFetch
  flight,     \* calls that are on their way, and whether anybody listens
  panels,     \* the scene, with the instant its window ends at
  alert,      \* the alert template that is asked for, the form that opened
  moves

vars == <<page, caps, capsCall, ds, now, win, timer, visited, list, fetch, flight,
          panels, alert, moves>>

VALID_TABS == {"overview", "issues", "alerts", "backend", "frontend", "database",
               "dependencies", "traces", "logs", "profiling"}

Open == page.svc # None

(* What a hook may ask, and the state of its useFetch.                     *)
Question(h) ==
  CASE h = "services"   -> Seq(Nat)
    [] h = "operations" -> Services \X Nat
    [] h = "health"     -> Services \X Nat \X (Envs \cup {None}) \X BOOLEAN
    [] OTHER            -> Services \X Nat \X (Envs \cup {None})

HookState(h) ==
  [deps : Question(h), data : Question(h) \cup {None},
   loading : BOOLEAN, stale : BOOLEAN, error : BOOLEAN]

ASSUME ServicePageAssumption ==
  /\ None \notin Services          \* no page is not the page of a service
  /\ None \notin Nat               \* no instant is not one
  /\ \A h \in Hooks : None \notin HookState(h) /\ None \notin Question(h)
  /\ Lists \subseteq [Services \X (Envs \cup {None}) -> BOOLEAN] /\ None \notin Lists
  /\ \A c \in Caps : c # None
  /\ MaxNow \in Nat

-----------------------------------------------------------------------------
(* Tabs.                                                                   *)

tabParam(p) == IF p.tab \in {"server", "runtime"} THEN "backend" ELSE p.tab

pyroscopeAvailable(c) == c # None /\ c.pyro

(* Slip: profiling has a button of its own, and is forgotten here.         *)
UnavailableButProfiling(t, c) ==
  c # None /\ \/ t \in {"issues", "logs"} /\ ~c.loki
              \/ t = "traces" /\ ~c.tempo
              \/ t = "dependencies" /\ ~c.graph

tabUnavailable(t, c) ==
  c # None /\ \/ t \in {"issues", "logs"} /\ ~c.loki
              \/ t = "traces" /\ ~c.tempo
              \/ t = "dependencies" /\ ~c.graph
              \/ t = "profiling" /\ ~c.pyro

activeTab(p, c) ==
  IF tabParam(p) \in VALID_TABS /\ ~tabUnavailable(tabParam(p), c) THEN tabParam(p) ELSE "overview"

(* The buttons of the TabsBar.                                             *)
TabsBar ==
  {"overview", "alerts", "backend", "frontend", "database"}
    \cup (IF caps = None \/ caps.loki THEN {"issues", "logs"} ELSE {})
    \cup (IF caps = None \/ caps.graph THEN {"dependencies"} ELSE {})
    \cup (IF caps = None \/ caps.tempo THEN {"traces"} ELSE {})
    \cup (IF pyroscopeAvailable(caps) THEN {"profiling"} ELSE {})

(* The tabs whose content is in the page; all but the active one hidden.   *)
tabContent ==
  {"overview"} \cup (visited \ IF pyroscopeAvailable(caps) THEN {} ELSE {"profiling"})

-----------------------------------------------------------------------------
(* The data of the page.                                                   *)

hasServerSpans(l, p) == l = None \/ l[p.svc, p.env]

(* What a hook calls its endpoint with.                                    *)
Args(h, p, w, l) ==
  CASE h = "services"   -> <<w.at>>
    [] h = "operations" -> <<p.svc, w.at>>
    [] h = "health"     -> <<p.svc, w.at, p.env, hasServerSpans(l, p)>>
    [] OTHER            -> <<p.svc, w.at, p.env>>

(* Slip: the health call is not made again when the span filter changes.   *)
DepsWithoutSpans(h, p, w, l) ==
  CASE h = "services"   -> <<w.at>>
    [] h = "operations" -> <<p.svc, w.at>>
    [] OTHER            -> <<p.svc, w.at, p.env>>

(* What makes it call again.                                               *)
Deps(h, p, w, l) ==
  CASE h = "services"   -> <<w.at>>
    [] h = "operations" -> <<p.svc, w.at>>
    [] h = "health"     -> <<p.svc, w.at, p.env, hasServerSpans(l, p)>>
    [] OTHER            -> <<p.svc, w.at, p.env>>

Mounted(h, p, w, l) ==
  [deps |-> Deps(h, p, w, l), data |-> None, loading |-> TRUE, stale |-> FALSE, error |-> FALSE]

(* Data stay while others are fetched; without data the hook is loading.   *)
Changed(f, d) ==
  [f EXCEPT !.deps = d, !.loading = f.data = None, !.stale = f.data # None, !.error = FALSE]

Unmounted == [h \in Hooks |-> None]

(* Slip: the effect has no cleanup.                                        *)
LaunchUncancelled(fl, again, p, w, l) ==
  fl \cup {[hook |-> h, args |-> Args(h, p, w, l), live |-> TRUE] : h \in again}

(* The cleanup of an effect makes its call an answer nobody listens to.    *)
Launch(fl, again, p, w, l) ==
  {[c EXCEPT !.live = c.live /\ c.hook \notin again] : c \in fl}
    \cup {[hook |-> h, args |-> Args(h, p, w, l), live |-> TRUE] : h \in again}

-----------------------------------------------------------------------------
(* The panels.                                                             *)

(* The "from" and "to" of the URL: instants, or relative to now.           *)
From(w) == IF w.frozen THEN w.at ELSE None

(* There are none before the metric names are known.                       *)
buildServiceScene(p, c, w, l, d) ==
  IF c = None THEN None
  ELSE [svc |-> p.svc, env |-> p.env, pct |-> p.pct, from |-> From(w), calls |-> c.calls,
        spans |-> hasServerSpans(l, p), uids |-> d.mine]

sceneKey(p, c, l, d) ==
  <<d.mine, IF c = None THEN None ELSE c.calls, hasServerSpans(l, p), p.env, p.pct>>

(* Slip: the end of a relative window is rounded up.                       *)
ResolvedUp(w) == IF w.frozen THEN w.at ELSE now + 1

(* The end of a window, as it is resolved now.                             *)
Resolved(w) == IF w.frozen THEN w.at ELSE now

(* Slip: a refresh of a relative window does not reach the panels.         *)
SceneStays(scene, w, key) ==
  IF scene = None THEN None
  ELSE IF panels # None /\ panels.scene = scene THEN panels
  ELSE [scene |-> scene, at |-> Resolved(w), ms |-> w.at, key |-> key]

(* A new scene has resolved its window by itself; one that stays is told   *)
(* to, when the window of the page has been resolved again.                *)
useSceneTimeSync(scene, w, key) ==
  IF scene = None THEN None
  ELSE IF panels = None \/ panels.scene # scene
       THEN [scene |-> scene, at |-> Resolved(w), ms |-> w.at, key |-> key]
  ELSE IF panels.ms = w.at THEN panels
       ELSE [scene |-> scene, at |-> Resolved(w), ms |-> w.at, key |-> key]

-----------------------------------------------------------------------------
(* Rendering: what follows from a change of the URL, the window, the       *)
(* capabilities, the settings or the service list.                         *)

Rerender(p, c, w, l, f, fl, d) ==
  LET again == {h \in Hooks : f[h].deps # Deps(h, p, w, l)}
  IN  /\ visited' = visited \cup {activeTab(p, c)}
      /\ fetch' = [h \in Hooks |-> IF h \in again THEN Changed(f[h], Deps(h, p, w, l)) ELSE f[h]]
      /\ flight' = Launch(fl, again, p, w, l)
      /\ panels' = useSceneTimeSync(buildServiceScene(p, c, w, l, d), w, sceneKey(p, c, l, d))

(* Slip: the page of another service is the same component.                *)
MountKept(p) ==
  /\ ds' = ds /\ list' = list /\ alert' = alert /\ capsCall' = capsCall
  /\ IF Open THEN Rerender(p, caps, win, list, fetch, flight, ds)
     ELSE /\ visited' = {"overview", activeTab(p, caps)}
          /\ fetch' = [h \in Hooks |-> Mounted(h, p, win, None)]
          /\ flight' = Launch(flight, Hooks, p, win, None)
          /\ panels' = useSceneTimeSync(buildServiceScene(p, caps, win, None, ds), win,
                                        sceneKey(p, caps, None, ds))

(* The page is keyed by its service: another one is another page.          *)
Mount(p) ==
  /\ visited' = {"overview", activeTab(p, caps)}
  /\ list' = None
  /\ fetch' = [h \in Hooks |-> Mounted(h, p, win, None)]
  /\ flight' = Launch(flight, Hooks, p, win, None)
  /\ LET d == [ds EXCEPT !.mine = ds.loaded, !.listening = FALSE]
     IN  ds' = d /\ panels' = useSceneTimeSync(buildServiceScene(p, caps, win, None, d), win,
                                               sceneKey(p, caps, None, d))
  /\ capsCall' = IF capsCall = "none" THEN "sent" ELSE capsCall
  /\ alert' = [alert EXCEPT !.creating = FALSE]

Init ==
  /\ page = [svc |-> None, tab |-> "", env |-> None, pct |-> "0.95"]
  /\ caps = None /\ capsCall = "none"
  /\ ds = [loaded |-> FALSE, mine |-> FALSE, listening |-> FALSE]
  /\ now = 0 /\ win = [frozen |-> FALSE, at |-> 0]
  /\ timer \in [on : {FALSE}, running : {FALSE}, hidden : BOOLEAN]
  /\ visited = {} /\ list = None /\ fetch = Unmounted /\ flight = {} /\ panels = None
  /\ alert = [creating |-> FALSE, asked |-> None, form |-> None]
  /\ moves = 0

Moves == moves < MaxMoves /\ ~timer.hidden /\ moves' = moves + 1

(* A link to a service: its parameters are those of the link.  The window  *)
(* is carried along, the environment is not unless the link names it.      *)
Navigate(s, t, e, on) ==
  /\ moves < MaxMoves /\ moves' = moves + 1
  /\ page.svc # s
  /\ timer.hidden => ~Open
  /\ page' = [svc |-> s, tab |-> t, env |-> e, pct |-> page.pct]
  /\ timer' = [timer EXCEPT !.on = on, !.running = on]
  /\ Mount(page')
  /\ UNCHANGED <<caps, now, win>>

(* Back to the list of services: everything of the page is unmounted.      *)
Leave ==
  /\ Open /\ Moves
  /\ page' = [page EXCEPT !.svc = None, !.tab = "", !.env = None]
  /\ timer' = [timer EXCEPT !.on = FALSE, !.running = FALSE]
  /\ visited' = {} /\ list' = None /\ fetch' = Unmounted /\ panels' = None
  /\ flight' = {[c EXCEPT !.live = FALSE] : c \in flight}
  /\ ds' = [ds EXCEPT !.mine = FALSE, !.listening = FALSE]
  /\ alert' = [alert EXCEPT !.creating = FALSE]
  /\ UNCHANGED <<caps, capsCall, now, win>>

ToUrl(p) ==
  /\ Open /\ Moves
  /\ page' = p
  /\ LET d == IF p.env # page.env THEN [ds EXCEPT !.mine = ds.loaded] ELSE ds
     IN  ds' = d /\ Rerender(p, caps, win, list, fetch, flight, d)
  /\ UNCHANGED <<caps, capsCall, now, win, timer, list, alert>>

setActiveTab == \E t \in TabsBar : ToUrl([page EXCEPT !.tab = IF t = "overview" THEN "" ELSE t])

(* From an operation to its traces, in one transaction of the URL.         *)
onViewTraces == ToUrl([page EXCEPT !.tab = "traces"])

setPercentile ==
  /\ activeTab(page, caps) = "overview"
  /\ \E v \in {"0.50", "0.95"} : ToUrl([page EXCEPT !.pct = v])

setEnvironment == list # None /\ \E e \in Envs \cup {None} : ToUrl([page EXCEPT !.env = e])

-----------------------------------------------------------------------------
(* The window.                                                             *)

ToWindow(w) ==
  /\ win' = w
  /\ IF Open THEN Rerender(page, caps, w, list, fetch, flight, ds)
     ELSE UNCHANGED <<visited, fetch, flight, panels>>
  /\ UNCHANGED <<page, caps, capsCall, ds, now, list, alert>>

(* A pick is stored as it is, a shift freezes the window it resolved to.   *)
PickRange == Open /\ Moves /\ ToWindow([frozen |-> FALSE, at |-> now]) /\ UNCHANGED timer
Shift == Open /\ Moves /\ ToWindow([frozen |-> TRUE, at |-> win.at]) /\ UNCHANGED timer

refreshTimeRange == ToWindow([win EXCEPT !.at = Resolved(win)])

setRefresh ==
  /\ Open /\ Moves
  /\ timer' = [timer EXCEPT !.on = ~timer.on, !.running = ~timer.on]
  /\ UNCHANGED <<page, caps, capsCall, ds, now, win, visited, list, fetch, flight, panels, alert>>

(* The interval fires when a unit of the clock has passed.                 *)
Fire ==
  /\ Open /\ timer.running /\ ~win.frozen /\ win.at < now
  /\ refreshTimeRange
  /\ UNCHANGED <<timer, moves>>

(* A hidden browser tab stops its timers; shown again it refreshes at once.*)
Hide ==
  /\ Moves
  /\ timer' = [timer EXCEPT !.hidden = TRUE, !.running = FALSE]
  /\ UNCHANGED <<page, caps, capsCall, ds, now, win, visited, list, fetch, flight, panels, alert>>

Show ==
  /\ timer.hidden
  /\ timer' = [timer EXCEPT !.hidden = FALSE, !.running = timer.on]
  /\ UNCHANGED moves
  /\ IF Open /\ timer.on /\ ~timer.running THEN refreshTimeRange
     ELSE UNCHANGED <<page, caps, capsCall, ds, now, win, visited, list, fetch, flight, panels, alert>>

Tick ==
  /\ now < MaxNow
  /\ now' = now + 1
  /\ UNCHANGED <<page, caps, capsCall, ds, win, timer, visited, list, fetch, flight, panels, alert, moves>>

-----------------------------------------------------------------------------
(* Answers.                                                                *)

(* Only the call of the last effect is listened to.                        *)
Arrive(c) ==
  /\ c \in flight
  /\ \E l \in Lists :
       /\ list' = IF c.live /\ c.hook = "services" THEN l ELSE list
       /\ c.hook # "services" => l = CHOOSE x \in Lists : TRUE
       /\ LET f == IF c.live
                   THEN [fetch EXCEPT ![c.hook] = [deps |-> fetch[c.hook].deps, data |-> c.args,
                                        loading |-> FALSE, stale |-> FALSE, error |-> FALSE]]
                   ELSE fetch
          IN  IF Open THEN Rerender(page, caps, win, list', f, flight \ {c}, ds)
              ELSE flight' = flight \ {c} /\ UNCHANGED <<visited, fetch, panels>>
  /\ UNCHANGED <<page, caps, capsCall, ds, now, win, timer, alert, moves>>

(* Data stay when what should replace them could not be had.               *)
Fail(c) ==
  /\ c \in flight
  /\ flight' = flight \ {c}
  /\ fetch' = IF c.live THEN [fetch EXCEPT ![c.hook].loading = FALSE, ![c.hook].stale = FALSE,
                                           ![c.hook].error = TRUE]
              ELSE fetch
  /\ UNCHANGED <<page, caps, capsCall, ds, now, win, timer, visited, list, panels, alert, moves>>

(* One promise serves every page of the session.                           *)
CapsArrive ==
  /\ capsCall = "sent"
  /\ \E c \in Caps :
       /\ caps' = c
       /\ IF Open THEN Rerender(page, c, win, list, fetch, flight, ds)
          ELSE UNCHANGED <<visited, fetch, flight, panels>>
  /\ capsCall' = "kept"
  /\ UNCHANGED <<page, ds, now, win, timer, list, alert, moves>>

CapsFail ==
  /\ capsCall = "sent" /\ capsCall' = "failed"
  /\ UNCHANGED <<page, caps, ds, now, win, timer, visited, list, fetch, flight, panels, alert, moves>>

(* The effect that adds the listener runs after the page has been painted. *)
Listen ==
  /\ Open /\ ~ds.listening
  /\ ds' = [ds EXCEPT !.listening = TRUE]
  /\ UNCHANGED <<page, caps, capsCall, now, win, timer, visited, list, fetch, flight, panels, alert, moves>>

(* Settings that could not be read are empty ones.                         *)
SettingsArrive ==
  /\ ~ds.loaded
  /\ LET d == [ds EXCEPT !.loaded = TRUE, !.mine = ds.listening]
     IN  /\ ds' = d
         /\ IF Open THEN Rerender(page, caps, win, list, fetch, flight, d)
            ELSE UNCHANGED <<visited, fetch, flight, panels>>
  /\ UNCHANGED <<page, caps, capsCall, now, win, timer, list, alert, moves>>

(* "Alert on error rate" asks for a template and opens the form it gets.   *)
onErrorRateAlert ==
  /\ Open /\ Moves /\ page.env # None /\ ~alert.creating /\ alert.asked = None
  /\ alert' = [alert EXCEPT !.creating = TRUE, !.asked = page.svc]
  /\ UNCHANGED <<page, caps, capsCall, ds, now, win, timer, visited, list, fetch, flight, panels>>

TemplateArrives ==
  /\ alert.asked # None
  /\ \/ alert' = [alert EXCEPT !.form = alert.asked, !.asked = None]
     \/ alert' = [alert EXCEPT !.creating = FALSE, !.asked = None]
  /\ UNCHANGED <<page, caps, capsCall, ds, now, win, timer, visited, list, fetch, flight, panels, moves>>

Next ==
  \/ \E s \in Services, t \in TabParams, e \in Envs \cup {None}, on \in BOOLEAN : Navigate(s, t, e, on)
  \/ Leave \/ setActiveTab \/ onViewTraces \/ setPercentile \/ setEnvironment
  \/ PickRange \/ Shift \/ setRefresh \/ Fire \/ Hide \/ Show \/ Tick
  \/ \E c \in flight : Arrive(c) \/ Fail(c)
  \/ CapsArrive \/ CapsFail \/ Listen \/ SettingsArrive
  \/ onErrorRateAlert \/ TemplateArrives

Spec == Init /\ [][Next]_vars

-----------------------------------------------------------------------------
(* The variables hold what the hooks and modules they stand for can hold.  *)
PageTypeOK ==
  /\ page.svc \in Services \cup {None} /\ page.env \in Envs \cup {None}
  /\ caps \in Caps \cup {None} /\ capsCall \in {"none", "sent", "kept", "failed"}
  /\ ds \in [loaded : BOOLEAN, mine : BOOLEAN, listening : BOOLEAN]
  /\ now \in 0 .. MaxNow /\ win.at \in 0 .. now
  /\ visited \subseteq VALID_TABS /\ list \in Lists \cup {None}
  /\ \A h \in Hooks : IF Open THEN fetch[h] \in HookState(h) ELSE fetch[h] = None
  /\ \A c \in flight : c.hook \in Hooks /\ c.args \in Question(c.hook) /\ c.live \in BOOLEAN

(* What a part of the page shows as final, neither loading nor being       *)
(* refreshed nor failed, is the answer to the question the page asks now:  *)
(* for its service, environment and window, and for the kind of spans the  *)
(* service list says it has (useFetch.ts: only the last effect's answer).  *)
ShownIsAsked ==
  Open => \A h \in Hooks :
            ~fetch[h].loading /\ ~fetch[h].stale /\ ~fetch[h].error
              => fetch[h].data = Args(h, page, win, list)

(* Not even while it is refreshed does a page show what was fetched for    *)
(* another service (the key of ServiceOverviewInner).                      *)
OwnServiceOnly ==
  Open => \A h \in Hooks \ {"services"} : fetch[h].data # None => fetch[h].data[1] = page.svc

(* Once the capabilities are known the tab that is shown has its button,   *)
(* and its content is in the page.                                         *)
TabHasButton ==
  Open /\ caps # None => activeTab(page, caps) \in TabsBar \cap tabContent

(* The panels show the window of the page: the very one when it is frozen, *)
(* one at least as recent when it is relative (useSceneTimeSync.ts).       *)
PanelsKeepUp ==
  panels # None =>
    IF win.frozen THEN panels.at = win.at ELSE panels.at >= win.at

(* A service page shows what its URL asks for now: the final answers are   *)
(* those of its service, environment and window, the panels show its       *)
(* window, and the tab of the URL, or another, has its button and its      *)
(* content.                                                                *)
PageIsCurrent == ShownIsAsked /\ PanelsKeepUp /\ TabHasButton

(* docs/url-contract.md:31 has every tab fall back to the overview when    *)
(* what it needs is absent; before the capabilities have arrived, or when  *)
(* they never do, "profiling" is a page without content.                   *)
TabHasContent == Open => activeTab(page, caps) \in tabContent

(* datasources.ts:117 re-renders when the settings arrive; a page that has *)
(* not yet added its listener is not told.                                 *)
DatasourcesCurrent == Open /\ ds.listening => ds.mine = ds.loaded

(* useInterval.ts:45 has a hidden browser tab ask for nothing; a page that *)
(* was opened in the background does.                                      *)
HiddenAsksNothing == [][timer.hidden /\ Open => win' = win]_vars

(* ServiceOverview.tsx:241 has the key change whenever the scene is built  *)
(* again; the window is not part of it.                                    *)
KeyFollowsScene ==
  [][panels # None /\ panels' # None /\ panels'.scene # panels.scene
       => panels'.key # panels.key]_vars

=============================================================================
