----------------------------- MODULE PagesProofs -----------------------------
(***************************************************************************)
(* Proofs about Pages: the page of one service, the pages that list rows   *)
(* and the tables of the server tab, for any services, environments,       *)
(* answers, rows and sizes of a page.                                      *)
(***************************************************************************)
EXTENDS Pages, OrderingProofs, SequenceTheorems

-----------------------------------------------------------------------------
(* The page of one service.                                                *)

Windows == [frozen : BOOLEAN, at : Nat]
FetchFields == {"deps", "data", "loading", "stale", "error"}
CallFields == {"hook", "args", "live"}

CallOK(c) == DOMAIN c = CallFields /\ c.live \in BOOLEAN

(* A hook that is at rest holds the answer to what it last asked, what it  *)
(* asked and what it holds is of service s, and a call is listened to only *)
(* when it is the last one of its hook.                                    *)
HookOK(f, s, h) ==
  /\ DOMAIN f[h] = FetchFields
  /\ f[h].loading \/ f[h].stale \/ f[h].error \/ f[h].data = f[h].deps
  /\ h # "services" => f[h].deps[1] = s /\ (f[h].data = None \/ f[h].data[1] = s)

CallsOK(f, fl) ==
  \A c \in fl : CallOK(c) /\ (c.live => c.hook \in Hooks /\ c.args = f[c.hook].deps)

FetchOK(f, fl, s) ==
  DOMAIN f = Hooks /\ (\A h \in Hooks : HookOK(f, s, h)) /\ CallsOK(f, fl)

(* What was last asked is what the page asks now.                          *)
AsksNow(f, p, w, l) == \A h \in Hooks : f[h].deps = Deps(h, p, w, l)

(* The panels were built for the window, or told of it.                    *)
PanelsOK(pn, w) ==
  pn = None \/ /\ pn.ms = w.at /\ pn.scene.from = From(w)
               /\ IF w.frozen THEN pn.at = w.at ELSE pn.at >= w.at

Clocked == win \in Windows /\ now \in Nat /\ win.at <= now

PInv ==
  /\ DOMAIN page = {"svc", "tab", "env", "pct"}
  /\ Clocked
  /\ Open => FetchOK(fetch, flight, page.svc) /\ AsksNow(fetch, page, win, list)
  /\ ~Open => \A c \in flight : CallOK(c) /\ ~c.live
  /\ Open => activeTab(page, caps) \in visited
  /\ PanelsOK(panels, win)

-----------------------------------------------------------------------------
(* The parts of a render.                                                  *)

(* A hook asks with exactly what makes it ask again.                       *)
LEMMA ArgsAreDeps ==
  ASSUME NEW h, NEW p, NEW w, NEW l PROVE Args(h, p, w, l) = Deps(h, p, w, l)
BY DEF Args, Deps

(* Every hook but the one of the service list asks for the page's service. *)
LEMMA DepsOfService ==
  ASSUME NEW h, h # "services", NEW p, NEW w, NEW l PROVE Deps(h, p, w, l)[1] = p.svc
<1>1. CASE h = "operations"
  BY <1>1 DEF Deps
<1>2. CASE h = "health"
  BY <1>2 DEF Deps
<1>3. CASE h # "operations" /\ h # "health"
  BY <1>3 DEF Deps
<1> QED
  BY <1>1, <1>2, <1>3

(* The first render of a page.                                             *)
LEMMA MountedOK ==
  ASSUME NEW p, NEW w, NEW l, NEW f, f = [h \in Hooks |-> Mounted(h, p, w, l)],
         NEW fl, \A c \in fl : CallOK(c) /\ (c.live => c.hook \in Hooks)
  PROVE  FetchOK(f, Launch(fl, Hooks, p, w, l), p.svc) /\ AsksNow(f, p, w, l)
<1>1. DOMAIN f = Hooks /\ AsksNow(f, p, w, l)
  BY DEF Mounted, AsksNow
<1>2. \A h \in Hooks : HookOK(f, p.svc, h)
  BY DepsOfService DEF Mounted, HookOK, FetchFields
<1>3. CallsOK(f, Launch(fl, Hooks, p, w, l))
  <2> SUFFICES ASSUME NEW c \in Launch(fl, Hooks, p, w, l)
               PROVE  CallOK(c) /\ (c.live => c.hook \in Hooks /\ c.args = f[c.hook].deps)
    BY DEF CallsOK
  <2>1. CASE \E h \in Hooks : c = [hook |-> h, args |-> Args(h, p, w, l), live |-> TRUE]
    BY <1>1, <2>1, ArgsAreDeps DEF CallOK, CallFields, AsksNow
  <2>2. CASE \E b \in fl : c = [b EXCEPT !.live = b.live /\ b.hook \notin Hooks]
    BY <2>2 DEF CallOK, CallFields
  <2> QED
    BY <2>1, <2>2 DEF Launch
<1> QED
  BY <1>1, <1>2, <1>3 DEF FetchOK

(* A hook that is asked something else.                                    *)
LEMMA ChangedOK ==
  ASSUME NEW x, DOMAIN x = FetchFields, NEW d
  PROVE  LET y == Changed(x, d)
         IN  /\ DOMAIN y = FetchFields /\ y.deps = d /\ y.data = x.data
             /\ y.loading \/ y.stale
BY DEF Changed, FetchFields

(* A later render of the same page.                                        *)
LEMMA RenderedOK ==
  ASSUME NEW p, NEW w, NEW l, NEW f, NEW fl, FetchOK(f, fl, p.svc),
         NEW again, again = {h \in Hooks : f[h].deps # Deps(h, p, w, l)},
         NEW g, g = [h \in Hooks |-> IF h \in again THEN Changed(f[h], Deps(h, p, w, l)) ELSE f[h]]
  PROVE  FetchOK(g, Launch(fl, again, p, w, l), p.svc) /\ AsksNow(g, p, w, l)
<1>1. \A h \in Hooks : DOMAIN f[h] = FetchFields
  BY DEF FetchOK, HookOK
<1>2. \A h \in again : /\ h \in Hooks /\ DOMAIN g[h] = FetchFields /\ g[h].data = f[h].data
                       /\ g[h].deps = Deps(h, p, w, l) /\ (g[h].loading \/ g[h].stale)
  BY <1>1, ChangedOK
<1>3. \A h \in Hooks \ again : g[h] = f[h] /\ f[h].deps = Deps(h, p, w, l)
  OBVIOUS
<1>4. DOMAIN g = Hooks /\ AsksNow(g, p, w, l)
  BY <1>2, <1>3 DEF AsksNow
<1>5. \A h \in Hooks : HookOK(g, p.svc, h)
  BY <1>2, <1>3, DepsOfService DEF HookOK, FetchOK
<1>6. CallsOK(g, Launch(fl, again, p, w, l))
  <2> SUFFICES ASSUME NEW c \in Launch(fl, again, p, w, l)
               PROVE  CallOK(c) /\ (c.live => c.hook \in Hooks /\ c.args = g[c.hook].deps)
    BY DEF CallsOK
  <2>1. CASE \E h \in again : c = [hook |-> h, args |-> Args(h, p, w, l), live |-> TRUE]
    BY <1>2, <2>1, ArgsAreDeps DEF CallOK, CallFields
  <2>2. ASSUME NEW b \in fl, c = [b EXCEPT !.live = b.live /\ b.hook \notin again]
        PROVE  CallOK(c) /\ (c.live => c.hook \in Hooks /\ c.args = g[c.hook].deps)
    <3>1. CallOK(b) /\ (b.live => b.hook \in Hooks /\ b.args = f[b.hook].deps)
      BY DEF FetchOK, CallsOK
    <3>2. /\ CallOK(c) /\ c.hook = b.hook /\ c.args = b.args
          /\ c.live = (b.live /\ b.hook \notin again)
      BY <2>2, <3>1 DEF CallOK, CallFields
    <3> QED
      BY <1>3, <3>1, <3>2
  <2> QED
    BY <2>1, <2>2 DEF Launch
<1> QED
  BY <1>4, <1>5, <1>6 DEF FetchOK

(* The panels follow the window: a scene that stays has the same kind of   *)
(* window as before, and a window that was resolved again reaches it.      *)
LEMMA PanelsFollow ==
  ASSUME PanelsOK(panels, win), Clocked, NEW w \in Windows, w.at <= now,
         NEW p, NEW c, NEW l, NEW d, NEW key
  PROVE  PanelsOK(useSceneTimeSync(buildServiceScene(p, c, w, l, d), w, key), w)
<1> DEFINE scene == buildServiceScene(p, c, w, l, d)
<1>1. scene = None \/ scene.from = From(w)
  BY DEF buildServiceScene
<1>2. w.at \in Nat /\ w.frozen \in BOOLEAN /\ win.at \in Nat /\ win.frozen \in BOOLEAN /\ now \in Nat
  BY DEF Windows, Clocked
<1>3. PanelsOK([scene |-> scene, at |-> Resolved(w), ms |-> w.at, key |-> key], w) \/ scene = None
  BY <1>1, <1>2 DEF PanelsOK, Resolved
<1>4. ASSUME panels # None, panels.scene = scene, panels.ms = w.at, scene # None
      PROVE  PanelsOK(panels, w)
  <2>1. panels.ms = win.at /\ panels.scene.from = From(win)
    BY <1>4 DEF PanelsOK
  <2>2. From(win) = From(w) /\ win.at = w.at
    BY <1>1, <1>4, <2>1
  <2>3. win.frozen = w.frozen
    BY <1>2, <2>2, ServicePageAssumption DEF From
  <2> QED
    BY <1>4, <2>1, <2>2, <2>3 DEF PanelsOK
<1>5. CASE scene = None
  <2>1. useSceneTimeSync(scene, w, key) = None
    BY <1>5 DEF useSceneTimeSync
  <2> QED
    BY <2>1 DEF PanelsOK
<1>6. CASE scene # None
  <2>1. \/ /\ useSceneTimeSync(scene, w, key) = panels
           /\ panels # None /\ panels.scene = scene /\ panels.ms = w.at
        \/ useSceneTimeSync(scene, w, key) =
             [scene |-> scene, at |-> Resolved(w), ms |-> w.at, key |-> key]
    BY <1>6 DEF useSceneTimeSync
  <2>2. CASE /\ useSceneTimeSync(scene, w, key) = panels
             /\ panels # None /\ panels.scene = scene /\ panels.ms = w.at
    <3>1. PanelsOK(panels, w)
      BY <1>4, <1>6, <2>2
    <3> QED
      BY <2>2, <3>1
  <2>3. CASE useSceneTimeSync(scene, w, key) =
               [scene |-> scene, at |-> Resolved(w), ms |-> w.at, key |-> key]
    BY <1>3, <1>6, <2>3
  <2> QED
    BY <2>1, <2>2, <2>3
<1> QED
  BY <1>5, <1>6

(* One render of an open page.                                             *)
LEMMA RerenderKeeps ==
  ASSUME PanelsOK(panels, win), Clocked, NEW w \in Windows, w.at <= now,
         NEW p, NEW c, NEW l, NEW f, NEW fl, NEW d,
         FetchOK(f, fl, p.svc), Rerender(p, c, w, l, f, fl, d)
  PROVE  /\ FetchOK(fetch', flight', p.svc) /\ AsksNow(fetch', p, w, l)
         /\ activeTab(p, c) \in visited'
         /\ PanelsOK(panels', w)
<1> DEFINE again == {h \in Hooks : f[h].deps # Deps(h, p, w, l)}
<1>1. /\ fetch' = [h \in Hooks |-> IF h \in again THEN Changed(f[h], Deps(h, p, w, l)) ELSE f[h]]
      /\ flight' = Launch(fl, again, p, w, l)
      /\ visited' = visited \cup {activeTab(p, c)}
      /\ panels' = useSceneTimeSync(buildServiceScene(p, c, w, l, d), w, sceneKey(p, c, l, d))
  BY DEF Rerender
<1> HIDE DEF again
<1>2. FetchOK(fetch', flight', p.svc) /\ AsksNow(fetch', p, w, l)
  BY <1>1, RenderedOK DEF again
<1>3. PanelsOK(panels', w)
  BY <1>1, PanelsFollow
<1> QED
  BY <1>1, <1>2, <1>3

-----------------------------------------------------------------------------
(* The steps.                                                              *)

LEMMA PInit == Init => PInv
<1> SUFFICES ASSUME Init PROVE PInv
  OBVIOUS
<1>1. DOMAIN page = {"svc", "tab", "env", "pct"} /\ ~Open
  BY DEF Init, Open
<1>2. Clocked
  <2>1. win = [frozen |-> FALSE, at |-> 0] /\ now = 0
    BY DEF Init
  <2> QED
    BY <2>1 DEF Clocked, Windows
<1>3. PanelsOK(panels, win) /\ flight = {}
  BY DEF Init, PanelsOK
<1> QED
  BY <1>1, <1>2, <1>3 DEF PInv

(* A render with the window, the service list and the answers as they are. *)
LEMMA RenderKeeps ==
  ASSUME PInv, Open, DOMAIN page' = DOMAIN page, page'.svc = page.svc,
         NEW d, UNCHANGED <<now, win, list>>,
         Rerender(page', caps', win, list, fetch, flight, d)
  PROVE  PInv'
<1>1. Clocked /\ PanelsOK(panels, win) /\ FetchOK(fetch, flight, page'.svc)
      /\ win \in Windows /\ win.at <= now
  BY DEF PInv, Clocked
<1>2. /\ FetchOK(fetch', flight', page'.svc) /\ AsksNow(fetch', page', win, list)
      /\ activeTab(page', caps') \in visited'
      /\ PanelsOK(panels', win)
  BY <1>1, RerenderKeeps
<1> QED
  BY <1>1, <1>2 DEF PInv, Clocked, Open

(* A step that leaves alone what the invariant speaks of.                  *)
LEMMA RestKeeps ==
  ASSUME PInv, UNCHANGED <<page, caps, win, visited, list, fetch, flight, panels>>,
         now' \in Nat, now' >= now
  PROVE  PInv'
<1>1. Clocked'
  BY DEF PInv, Clocked, Windows
<1> QED
  BY <1>1 DEF PInv, Open

LEMMA MountKeeps ==
  ASSUME PInv, NEW p, DOMAIN p = DOMAIN page, p.svc # None, page' = p, Mount(p),
         UNCHANGED <<caps, now, win>>
  PROVE  PInv'
<1>1. /\ fetch' = [h \in Hooks |-> Mounted(h, p, win, None)]
      /\ flight' = Launch(flight, Hooks, p, win, None)
      /\ visited' = {"overview", activeTab(p, caps)} /\ list' = None
  BY DEF Mount
<1>2. \A c \in flight : CallOK(c) /\ (c.live => c.hook \in Hooks)
  BY DEF PInv, FetchOK, CallsOK
<1>3. FetchOK(fetch', flight', p.svc) /\ AsksNow(fetch', p, win, None)
  BY <1>1, <1>2, MountedOK
<1>4. PanelsOK(panels', win)
  <2>1. Clocked /\ PanelsOK(panels, win) /\ win \in Windows /\ win.at <= now
    BY DEF PInv, Clocked
  <2>2. PICK d : panels' = useSceneTimeSync(buildServiceScene(p, caps, win, None, d), win,
                                            sceneKey(p, caps, None, d))
    BY DEF Mount
  <2> QED
    BY <2>1, <2>2, PanelsFollow
<1> QED
  BY <1>1, <1>3, <1>4 DEF PInv, Open, Clocked

LEMMA LeaveKeeps == ASSUME PInv, Leave PROVE PInv'
<1>1. ~Open' /\ panels' = None /\ DOMAIN page' = DOMAIN page /\ UNCHANGED <<win, now>>
  BY DEF Leave, PInv, Open
<1>2. \A c \in flight : CallOK(c)
  BY DEF PInv, FetchOK, CallsOK
<1>3. \A c \in flight' : CallOK(c) /\ ~c.live
  BY <1>2 DEF Leave, CallOK, CallFields
<1> QED
  BY <1>1, <1>3 DEF PInv, PanelsOK, Clocked

(* The window is resolved again while a page is open.                      *)
LEMMA WindowKeeps ==
  ASSUME PInv, Open, NEW w \in Windows, w.at <= now, ToWindow(w)
  PROVE  PInv'
<1>1. Clocked /\ PanelsOK(panels, win) /\ FetchOK(fetch, flight, page.svc)
  BY DEF PInv
<1>2. UNCHANGED <<page, caps, now, list>> /\ win' = w
      /\ Rerender(page, caps, w, list, fetch, flight, ds)
  BY DEF ToWindow
<1>3. /\ FetchOK(fetch', flight', page.svc) /\ AsksNow(fetch', page, w, list)
      /\ activeTab(page, caps) \in visited'
      /\ PanelsOK(panels', w)
  BY <1>1, <1>2, RerenderKeeps
<1> QED
  BY <1>1, <1>2, <1>3 DEF PInv, Clocked, Open

LEMMA RefreshKeeps == ASSUME PInv, Open, refreshTimeRange PROVE PInv'
<1>1. win \in Windows /\ now \in Nat /\ win.at <= now
  BY DEF PInv, Clocked
<1>2. [win EXCEPT !.at = Resolved(win)] \in Windows
      /\ [win EXCEPT !.at = Resolved(win)].at <= now
  BY <1>1 DEF Windows, Resolved
<1> QED
  BY <1>2, WindowKeeps DEF refreshTimeRange

(* An answer: nobody listens to one that is not the last of its hook.      *)
LEMMA ArriveKeeps == ASSUME PInv, NEW c \in flight, Arrive(c) PROVE PInv'
<1>1. UNCHANGED <<page, caps, now, win>> /\ Clocked /\ PanelsOK(panels, win)
      /\ win \in Windows /\ win.at <= now
  BY DEF Arrive, PInv, Clocked
<1>2. CASE ~Open
  <2>1. ~c.live
    BY <1>2 DEF PInv
  <2>2. flight' = flight \ {c} /\ UNCHANGED <<visited, fetch, panels>>
    BY <1>2 DEF Arrive
  <2> QED
    BY <1>1, <1>2, <2>2 DEF PInv, Open, Clocked
<1>3. CASE Open
  <2> DEFINE f == IF c.live
                  THEN [fetch EXCEPT ![c.hook] = [deps |-> fetch[c.hook].deps, data |-> c.args,
                                       loading |-> FALSE, stale |-> FALSE, error |-> FALSE]]
                  ELSE fetch
  <2>1. Rerender(page, caps, win, list', f, flight \ {c}, ds)
    BY <1>3 DEF Arrive
  <2>2. FetchOK(fetch, flight, page.svc)
    BY <1>3 DEF PInv
  <2>3. FetchOK(f, flight \ {c}, page.svc)
    <3>1. CASE ~c.live
      BY <2>2, <3>1 DEF FetchOK, CallsOK
    <3>2. CASE c.live
      <4>1. c.hook \in Hooks /\ c.args = fetch[c.hook].deps /\ DOMAIN fetch = Hooks
        BY <2>2, <3>2 DEF FetchOK, CallsOK
      <4>2. /\ DOMAIN f = Hooks
            /\ \A h \in Hooks : h # c.hook => f[h] = fetch[h]
            /\ f[c.hook] = [deps |-> fetch[c.hook].deps, data |-> fetch[c.hook].deps,
                            loading |-> FALSE, stale |-> FALSE, error |-> FALSE]
        BY <3>2, <4>1
      <4> HIDE DEF f
      <4>3. \A h \in Hooks : f[h].deps = fetch[h].deps
        BY <4>1, <4>2
      <4>4. \A h \in Hooks : HookOK(f, page.svc, h)
        <5> SUFFICES ASSUME NEW h \in Hooks PROVE HookOK(f, page.svc, h)
          OBVIOUS
        <5>1. HookOK(fetch, page.svc, h)
          BY <2>2 DEF FetchOK
        <5>2. CASE h # c.hook
          BY <4>2, <5>1, <5>2 DEF HookOK
        <5>3. CASE h = c.hook
          BY <4>2, <5>1, <5>3 DEF HookOK, FetchFields
        <5> QED
          BY <5>2, <5>3
      <4>5. CallsOK(f, flight \ {c})
        BY <2>2, <4>3 DEF FetchOK, CallsOK
      <4> QED
        BY <4>2, <4>4, <4>5 DEF FetchOK
    <3>3. c.live \in BOOLEAN
      BY <2>2 DEF FetchOK, CallsOK, CallOK
    <3> QED
      BY <3>1, <3>2, <3>3
  <2> HIDE DEF f
  <2>4. /\ FetchOK(fetch', flight', page.svc) /\ AsksNow(fetch', page, win, list')
        /\ activeTab(page, caps) \in visited'
        /\ PanelsOK(panels', win)
    BY <1>1, <2>1, <2>3, RerenderKeeps
  <2> QED
    BY <1>1, <1>3, <2>4 DEF PInv, Open, Clocked
<1> QED
  BY <1>2, <1>3

LEMMA FailKeeps == ASSUME PInv, NEW c \in flight, Fail(c) PROVE PInv'
<1>1. UNCHANGED <<page, caps, now, win, list, visited, panels>> /\ flight' = flight \ {c}
  BY DEF Fail
<1>2. CASE ~Open
  <2>1. ~c.live
    BY <1>2 DEF PInv
  <2>2. UNCHANGED fetch
    BY <2>1 DEF Fail
  <2> QED
    BY <1>1, <1>2, <2>2 DEF PInv, Open, Clocked
<1>3. CASE Open
  <2>1. FetchOK(fetch, flight, page.svc) /\ AsksNow(fetch, page, win, list)
    BY <1>3 DEF PInv
  <2>2. DOMAIN fetch' = Hooks
    BY <2>1 DEF Fail, FetchOK
  <2>3. \A h \in Hooks : fetch'[h].deps = fetch[h].deps /\ HookOK(fetch', page.svc, h)
    <3> SUFFICES ASSUME NEW h \in Hooks
                 PROVE  fetch'[h].deps = fetch[h].deps /\ HookOK(fetch', page.svc, h)
      OBVIOUS
    <3>1. HookOK(fetch, page.svc, h) /\ DOMAIN fetch = Hooks
      BY <2>1 DEF FetchOK
    <3>2. CASE fetch'[h] = fetch[h]
      BY <3>1, <3>2 DEF HookOK
    <3>3. CASE fetch'[h] # fetch[h]
      <4>1. fetch'[h] = [fetch[h] EXCEPT !.loading = FALSE, !.stale = FALSE, !.error = TRUE]
        BY <3>1, <3>3 DEF Fail
      <4>2. /\ DOMAIN fetch'[h] = FetchFields /\ fetch'[h].error
            /\ fetch'[h].deps = fetch[h].deps /\ fetch'[h].data = fetch[h].data
        BY <3>1, <4>1 DEF HookOK, FetchFields
      <4> QED
        BY <3>1, <4>2 DEF HookOK
    <3> QED
      BY <3>2, <3>3
  <2>4. FetchOK(fetch', flight', page.svc) /\ AsksNow(fetch', page, win, list)
    BY <1>1, <2>1, <2>2, <2>3 DEF FetchOK, CallsOK, AsksNow
  <2> QED
    BY <1>1, <1>3, <2>4 DEF PInv, Open, Clocked
<1> QED
  BY <1>2, <1>3

(* A change of the URL on an open page: its service is the same.           *)
LEMMA UrlKeeps ==
  ASSUME PInv, NEW p, DOMAIN p = DOMAIN page, p.svc = page.svc, ToUrl(p)
  PROVE  PInv'
<1>1. Open /\ page' = p /\ UNCHANGED <<caps, now, win, list>>
  BY DEF ToUrl
<1>2. \E d : Rerender(page', caps', win, list, fetch, flight, d)
  BY <1>1 DEF ToUrl
<1> QED
  BY <1>1, <1>2, RenderKeeps

LEMMA Same == ASSUME PInv, UNCHANGED now PROVE now' \in Nat /\ now' >= now
BY DEF PInv, Clocked

LEMMA PNext == PInv /\ [Next]_vars => PInv'
<1> SUFFICES ASSUME PInv, [Next]_vars PROVE PInv'
  OBVIOUS
<1>d. /\ DOMAIN page = {"svc", "tab", "env", "pct"} /\ Clocked
  BY DEF PInv
<1>1. CASE \E s \in Services, t \in TabParams, e \in Envs \cup {None}, on \in BOOLEAN :
             Navigate(s, t, e, on)
  <2>1. PICK s \in Services, t \in TabParams, e \in Envs \cup {None}, on \in BOOLEAN :
          Navigate(s, t, e, on)
    BY <1>1
  <2>2. page' = [svc |-> s, tab |-> t, env |-> e, pct |-> page.pct] /\ Mount(page')
        /\ UNCHANGED <<caps, now, win>>
    BY <2>1 DEF Navigate
  <2>3. DOMAIN page' = DOMAIN page /\ page'.svc # None
    BY <1>d, <2>2, ServicePageAssumption
  <2> QED
    BY <2>2, <2>3, MountKeeps
<1>2. CASE Leave
  BY <1>2, LeaveKeeps
<1>3. CASE setActiveTab
  BY <1>3, <1>d, UrlKeeps DEF setActiveTab
<1>4. CASE onViewTraces
  BY <1>4, <1>d, UrlKeeps DEF onViewTraces
<1>5. CASE setPercentile
  BY <1>5, <1>d, UrlKeeps DEF setPercentile
<1>6. CASE setEnvironment
  BY <1>6, <1>d, UrlKeeps DEF setEnvironment
<1>7. CASE PickRange
  <2>1. [frozen |-> FALSE, at |-> now] \in Windows /\ now <= now
    BY <1>d DEF Clocked, Windows
  <2> QED
    BY <1>7, <2>1, WindowKeeps DEF PickRange
<1>8. CASE Shift
  <2>1. [frozen |-> TRUE, at |-> win.at] \in Windows /\ win.at <= now
    BY <1>d DEF Clocked, Windows
  <2> QED
    BY <1>8, <2>1, WindowKeeps DEF Shift
<1>9. CASE setRefresh
  BY <1>9, RestKeeps, Same DEF setRefresh
<1>10. CASE Fire
  BY <1>10, RefreshKeeps DEF Fire
<1>11. CASE Hide
  BY <1>11, RestKeeps, Same DEF Hide
<1>12. CASE Show
  <2>1. CASE Open /\ timer.on /\ ~timer.running
    BY <1>12, <2>1, RefreshKeeps DEF Show
  <2>2. CASE ~(Open /\ timer.on /\ ~timer.running)
    BY <1>12, <2>2, RestKeeps, Same DEF Show
  <2> QED
    BY <2>1, <2>2
<1>13. CASE Tick
  <2>1. now' \in Nat /\ now' >= now
    BY <1>13, <1>d DEF Tick, Clocked
  <2> QED
    BY <1>13, <2>1, RestKeeps DEF Tick
<1>14. CASE \E c \in flight : Arrive(c) \/ Fail(c)
  BY <1>14, ArriveKeeps, FailKeeps
<1>15. CASE CapsArrive
  <2>1. CASE Open
    <3>1. Rerender(page', caps', win, list, fetch, flight, ds) /\ UNCHANGED <<page, now, win, list>>
      BY <1>15, <2>1 DEF CapsArrive
    <3> QED
      BY <2>1, <3>1, RenderKeeps
  <2>2. CASE ~Open
    BY <1>15, <2>2 DEF CapsArrive, PInv, Open, Clocked
  <2> QED
    BY <2>1, <2>2
<1>16. CASE CapsFail
  BY <1>16, RestKeeps, Same DEF CapsFail
<1>17. CASE Listen
  BY <1>17, RestKeeps, Same DEF Listen
<1>18. CASE SettingsArrive
  <2>1. CASE Open
    <3>1. (\E d : Rerender(page', caps', win, list, fetch, flight, d))
          /\ UNCHANGED <<page, now, win, list>>
      BY <1>18, <2>1 DEF SettingsArrive
    <3> QED
      BY <2>1, <3>1, RenderKeeps
  <2>2. CASE ~Open
    BY <1>18, <2>2, RestKeeps, Same DEF SettingsArrive
  <2> QED
    BY <2>1, <2>2
<1>19. CASE onErrorRateAlert
  BY <1>19, RestKeeps, Same DEF onErrorRateAlert
<1>20. CASE TemplateArrives
  BY <1>20, RestKeeps, Same DEF TemplateArrives
<1>21. CASE UNCHANGED vars
  BY <1>21, RestKeeps, Same DEF vars
<1> QED
  BY <1>1, <1>2, <1>3, <1>4, <1>5, <1>6, <1>7, <1>8, <1>9, <1>10, <1>11, <1>12, <1>13, <1>14,
     <1>15, <1>16, <1>17, <1>18, <1>19, <1>20, <1>21 DEF Next

LEMMA PAlways == Spec => []PInv
BY PInit, PNext, PTL DEF Spec

-----------------------------------------------------------------------------
(* The types of its variables.                                             *)

LEMMA ArgsType ==
  ASSUME NEW h \in Hooks, NEW p, p.svc \in Services, p.env \in Envs \cup {None},
         NEW w \in Windows, NEW l \in Lists \cup {None}
  PROVE  Args(h, p, w, l) \in Question(h)
<1>1. w.at \in Nat
  BY DEF Windows
<1>2. hasServerSpans(l, p) \in BOOLEAN
  BY DEF hasServerSpans
<1>3. CASE h = "services"
  BY <1>1, <1>3 DEF Args, Question
<1>4. CASE h = "operations"
  BY <1>1, <1>4 DEF Args, Question
<1>5. CASE h = "health"
  BY <1>1, <1>2, <1>5 DEF Args, Question
<1>6. CASE h \notin {"services", "operations", "health"}
  BY <1>1, <1>6 DEF Args, Question
<1> QED
  BY <1>3, <1>4, <1>5, <1>6

LEMMA ChangedType ==
  ASSUME NEW h, NEW x \in HookState(h), NEW q \in Question(h)
  PROVE  Changed(x, q) \in HookState(h)
<1>1. ASSUME NEW o \in BOOLEAN, NEW s \in BOOLEAN
      PROVE  [x EXCEPT !.deps = q, !.loading = o, !.stale = s, !.error = FALSE] \in HookState(h)
  BY <1>1 DEF HookState
<1>2. (x.data = None) \in BOOLEAN /\ (x.data # None) \in BOOLEAN
  OBVIOUS
<1> QED
  BY <1>1, <1>2, Zenon DEF Changed

LEMMA FailedType ==
  ASSUME NEW h, NEW x \in HookState(h)
  PROVE  [x EXCEPT !.loading = FALSE, !.stale = FALSE, !.error = TRUE] \in HookState(h)
BY DEF HookState

CallsTyped(fl) ==
  \A c \in fl : c.hook \in Hooks /\ c.args \in Question(c.hook) /\ c.live \in BOOLEAN

LEMMA LaunchType ==
  ASSUME NEW p, p.svc \in Services, p.env \in Envs \cup {None}, NEW w \in Windows,
         NEW l \in Lists \cup {None}, NEW again \in SUBSET Hooks,
         NEW fl, CallsTyped(fl), \A c \in fl : CallOK(c)
  PROVE  CallsTyped(Launch(fl, again, p, w, l))
<1> SUFFICES ASSUME NEW c \in Launch(fl, again, p, w, l)
             PROVE  c.hook \in Hooks /\ c.args \in Question(c.hook) /\ c.live \in BOOLEAN
  BY DEF CallsTyped
<1>1. CASE \E h \in again : c = [hook |-> h, args |-> Args(h, p, w, l), live |-> TRUE]
  BY <1>1, ArgsType
<1>2. ASSUME NEW b \in fl, c = [b EXCEPT !.live = b.live /\ b.hook \notin again]
      PROVE  c.hook \in Hooks /\ c.args \in Question(c.hook) /\ c.live \in BOOLEAN
  <2>1. c.hook = b.hook /\ c.args = b.args /\ c.live = (b.live /\ b.hook \notin again)
    BY <1>2 DEF CallOK, CallFields
  <2> QED
    BY <2>1 DEF CallsTyped
<1> QED
  BY <1>1, <1>2 DEF Launch

LEMMA ActiveTabType == ASSUME NEW p, NEW c PROVE activeTab(p, c) \in VALID_TABS
BY DEF activeTab, VALID_TABS

FetchTyped(f) == \A h \in Hooks : f[h] \in HookState(h)

LEMMA RerenderTypes ==
  ASSUME NEW p, p.svc \in Services, p.env \in Envs \cup {None}, NEW w \in Windows,
         NEW l \in Lists \cup {None}, NEW c, NEW d, NEW f, FetchTyped(f),
         NEW fl, CallsTyped(fl), \A x \in fl : CallOK(x),
         visited \subseteq VALID_TABS, Rerender(p, c, w, l, f, fl, d)
  PROVE  visited' \subseteq VALID_TABS /\ FetchTyped(fetch') /\ CallsTyped(flight')
<1> DEFINE again == {h \in Hooks : f[h].deps # Deps(h, p, w, l)}
<1>1. /\ fetch' = [h \in Hooks |-> IF h \in again THEN Changed(f[h], Deps(h, p, w, l)) ELSE f[h]]
      /\ flight' = Launch(fl, again, p, w, l)
      /\ visited' = visited \cup {activeTab(p, c)}
  BY DEF Rerender
<1>2. again \in SUBSET Hooks
  OBVIOUS
<1> HIDE DEF again
<1>3. visited' \subseteq VALID_TABS
  BY <1>1, ActiveTabType
<1>4. CallsTyped(flight')
  BY <1>1, <1>2, LaunchType
<1>5. \A h \in Hooks : Deps(h, p, w, l) \in Question(h)
  BY ArgsType, ArgsAreDeps
<1>6. FetchTyped(fetch')
  BY <1>1, <1>5, ChangedType DEF FetchTyped
<1> QED
  BY <1>3, <1>4, <1>6

(* What a render leaves alone, and what it makes.                          *)
KeptTyped ==
  /\ caps \in Caps \cup {None} /\ capsCall \in {"none", "sent", "kept", "failed"}
  /\ ds \in [loaded : BOOLEAN, mine : BOOLEAN, listening : BOOLEAN]
  /\ now \in 0 .. MaxNow /\ win.at \in 0 .. now /\ list \in Lists \cup {None}

RenderTyped ==
  /\ page.svc \in Services \cup {None} /\ page.env \in Envs \cup {None}
  /\ visited \subseteq VALID_TABS
  /\ \A h \in Hooks : IF Open THEN fetch[h] \in HookState(h) ELSE fetch[h] = None
  /\ CallsTyped(flight)

LEMMA PageTypes == PageTypeOK <=> KeptTyped /\ RenderTyped
BY DEF PageTypeOK, KeptTyped, RenderTyped, CallsTyped

LEMMA CallsAreCalls == ASSUME PInv, NEW c \in flight PROVE CallOK(c)
BY DEF PInv, FetchOK, CallsOK

LEMMA RenderType ==
  ASSUME RenderTyped, Open, page'.svc = page.svc, page'.env \in Envs \cup {None},
         NEW w \in Windows, NEW l \in Lists \cup {None}, NEW c, NEW d, NEW f, FetchTyped(f),
         NEW fl, CallsTyped(fl), \A x \in fl : CallOK(x),
         Rerender(page', c, w, l, f, fl, d)
  PROVE  RenderTyped'
<1>1. page'.svc \in Services /\ Open'
  BY DEF Open, RenderTyped
<1>2. visited' \subseteq VALID_TABS /\ FetchTyped(fetch') /\ CallsTyped(flight')
  BY <1>1, RerenderTypes DEF RenderTyped
<1> QED
  BY <1>1, <1>2 DEF RenderTyped, FetchTyped, CallsTyped

LEMMA OpenFetches == ASSUME RenderTyped, Open PROVE FetchTyped(fetch)
BY DEF RenderTyped, FetchTyped

(* A render with the answers as they are.                                  *)
LEMMA RenderAgain ==
  ASSUME PInv, RenderTyped, Open, page'.svc = page.svc, page'.env \in Envs \cup {None},
         NEW w \in Windows, NEW l \in Lists \cup {None}, NEW c, NEW d,
         Rerender(page', c, w, l, fetch, flight, d)
  PROVE  RenderTyped'
BY RenderType, OpenFetches, CallsAreCalls DEF RenderTyped

LEMMA RestTypes ==
  ASSUME RenderTyped, UNCHANGED <<page, visited, fetch, flight>> PROVE RenderTyped'
BY DEF RenderTyped, Open, CallsTyped

LEMMA KeptRest ==
  ASSUME KeptTyped, UNCHANGED <<caps, capsCall, ds, now, win, list>> PROVE KeptTyped'
BY DEF KeptTyped

LEMMA MountType ==
  ASSUME PInv, KeptTyped, RenderTyped, NEW p, p.svc \in Services, p.env \in Envs \cup {None},
         page' = p, Mount(p), UNCHANGED <<caps, now, win>>
  PROVE  KeptTyped' /\ RenderTyped'
<1>1. /\ fetch' = [h \in Hooks |-> Mounted(h, p, win, None)]
      /\ flight' = Launch(flight, Hooks, p, win, None)
      /\ visited' = {"overview", activeTab(p, caps)} /\ list' = None
      /\ ds' = [ds EXCEPT !.mine = ds.loaded, !.listening = FALSE]
      /\ capsCall' = IF capsCall = "none" THEN "sent" ELSE capsCall
  BY DEF Mount
<1>2. win \in Windows
  BY DEF PInv, Clocked
<1>3. \A h \in Hooks : Mounted(h, p, win, None) \in HookState(h)
  <2> SUFFICES ASSUME NEW h \in Hooks PROVE Mounted(h, p, win, None) \in HookState(h)
    OBVIOUS
  <2>1. Deps(h, p, win, None) \in Question(h)
    BY <1>2, ArgsType, ArgsAreDeps
  <2> QED
    BY <2>1 DEF Mounted, HookState
<1>4. CallsTyped(flight')
  BY <1>1, <1>2, LaunchType, CallsAreCalls DEF RenderTyped
<1>5. visited' \subseteq VALID_TABS
  BY <1>1, ActiveTabType DEF VALID_TABS
<1>6. Open'
  BY ServicePageAssumption DEF Open
<1>7. RenderTyped'
  BY <1>1, <1>3, <1>4, <1>5, <1>6 DEF RenderTyped, CallsTyped
<1>8. KeptTyped'
  BY <1>1 DEF KeptTyped
<1> QED
  BY <1>7, <1>8

LEMMA LeaveType == ASSUME PInv, KeptTyped, RenderTyped, Leave PROVE KeptTyped' /\ RenderTyped'
<1>1. /\ page' = [page EXCEPT !.svc = None, !.tab = "", !.env = None]
      /\ visited' = {} /\ list' = None /\ fetch' = Unmounted
      /\ flight' = {[c EXCEPT !.live = FALSE] : c \in flight}
      /\ ds' = [ds EXCEPT !.mine = FALSE, !.listening = FALSE]
      /\ UNCHANGED <<caps, capsCall, now, win>>
  BY DEF Leave
<1>2. page'.svc = None /\ page'.env = None /\ ~Open'
  BY <1>1 DEF PInv, Open
<1>3. CallsTyped(flight')
  <2> SUFFICES ASSUME NEW c \in flight
               PROVE  LET d == [c EXCEPT !.live = FALSE]
                      IN  d.hook \in Hooks /\ d.args \in Question(d.hook) /\ d.live \in BOOLEAN
    BY <1>1 DEF CallsTyped
  <2>1. CallOK(c)
    BY CallsAreCalls
  <2> QED
    BY <2>1 DEF RenderTyped, CallsTyped, CallOK, CallFields
<1>4. RenderTyped'
  BY <1>1, <1>2, <1>3 DEF RenderTyped, Unmounted, CallsTyped
<1>5. KeptTyped'
  BY <1>1 DEF KeptTyped
<1> QED
  BY <1>4, <1>5

LEMMA WindowType ==
  ASSUME PInv, KeptTyped, RenderTyped, NEW w \in Windows, w.at <= now, ToWindow(w)
  PROVE  KeptTyped' /\ RenderTyped'
<1>1. win' = w /\ UNCHANGED <<page, caps, capsCall, ds, now, list>>
  BY DEF ToWindow
<1>2. w.at \in Nat
  BY DEF Windows
<1>3. KeptTyped'
  BY <1>1, <1>2 DEF KeptTyped
<1>4. CASE Open
  <2>1. Rerender(page', caps, w, list, fetch, flight, ds)
    BY <1>1, <1>4 DEF ToWindow
  <2>2. page'.svc = page.svc /\ page'.env \in Envs \cup {None} /\ list \in Lists \cup {None}
    BY <1>1 DEF RenderTyped, KeptTyped
  <2> QED
    BY <1>3, <1>4, <2>1, <2>2, RenderAgain
<1>5. CASE ~Open
  BY <1>1, <1>3, <1>5, RestTypes DEF ToWindow
<1> QED
  BY <1>4, <1>5

LEMMA RefreshType == ASSUME PInv, KeptTyped, RenderTyped, refreshTimeRange PROVE KeptTyped' /\ RenderTyped'
<1>1. win \in Windows /\ now \in Nat /\ win.at <= now
  BY DEF PInv, Clocked
<1>2. [win EXCEPT !.at = Resolved(win)] \in Windows
      /\ [win EXCEPT !.at = Resolved(win)].at <= now
  BY <1>1 DEF Windows, Resolved
<1> QED
  BY <1>2, WindowType DEF refreshTimeRange

LEMMA QueryTyped ==
  ASSUME PInv, KeptTyped, RenderTyped, NEW p, p.svc = page.svc, p.env \in Envs \cup {None}, ToUrl(p)
  PROVE  KeptTyped' /\ RenderTyped'
<1>1. /\ Open /\ page' = p /\ UNCHANGED <<caps, capsCall, now, win, list>>
      /\ Rerender(page', caps, win, list, fetch, flight, ds')
      /\ ds' = IF p.env # page.env THEN [ds EXCEPT !.mine = ds.loaded] ELSE ds
  BY DEF ToUrl
<1>2. win \in Windows /\ list \in Lists \cup {None}
  BY DEF PInv, Clocked, KeptTyped
<1>3. RenderTyped'
  BY <1>1, <1>2, RenderAgain
<1>4. KeptTyped'
  BY <1>1 DEF KeptTyped
<1> QED
  BY <1>3, <1>4

LEMMA ArriveType ==
  ASSUME PInv, KeptTyped, RenderTyped, NEW c \in flight, Arrive(c)
  PROVE  KeptTyped' /\ RenderTyped'
<1>1. UNCHANGED <<page, caps, capsCall, ds, now, win>> /\ list' \in Lists \cup {None}
  BY DEF Arrive, KeptTyped
<1>2. KeptTyped'
  BY <1>1 DEF KeptTyped
<1>3. CallsTyped(flight \ {c}) /\ \A x \in flight \ {c} : CallOK(x)
  BY CallsAreCalls DEF RenderTyped, CallsTyped
<1>4. CASE Open
  <2> DEFINE answered == [deps |-> fetch[c.hook].deps, data |-> c.args, loading |-> FALSE,
                          stale |-> FALSE, error |-> FALSE]
             f == IF c.live THEN [fetch EXCEPT ![c.hook] = answered] ELSE fetch
  <2>1. Rerender(page', caps, win, list', f, flight \ {c}, ds)
    BY <1>1, <1>4 DEF Arrive
  <2>2. answered \in HookState(c.hook) /\ c.hook \in Hooks
    <3>1. c.hook \in Hooks /\ c.args \in Question(c.hook) /\ fetch[c.hook] \in HookState(c.hook)
      BY <1>4 DEF RenderTyped, CallsTyped
    <3> QED
      BY <3>1 DEF HookState
  <2> HIDE DEF answered
  <2>3. FetchTyped(f)
    <3>1. DOMAIN fetch = Hooks /\ FetchTyped(fetch)
      BY <1>4, OpenFetches DEF PInv, FetchOK
    <3> QED
      BY <2>2, <3>1 DEF FetchTyped
  <2> HIDE DEF f
  <2>4. /\ win \in Windows /\ page'.svc = page.svc /\ page'.env \in Envs \cup {None}
    BY <1>1 DEF PInv, Clocked, RenderTyped
  <2>5. RenderTyped'
    BY <1>1, <1>3, <1>4, <2>1, <2>3, <2>4, RenderType
  <2> QED
    BY <1>2, <2>5
<1>5. CASE ~Open
  <2>1. flight' = flight \ {c} /\ UNCHANGED <<visited, fetch, page>>
    BY <1>5 DEF Arrive
  <2>2. RenderTyped'
    BY <1>3, <2>1 DEF RenderTyped, Open, CallsTyped
  <2> QED
    BY <1>2, <2>2
<1> QED
  BY <1>4, <1>5

LEMMA FailType ==
  ASSUME PInv, KeptTyped, RenderTyped, NEW c \in flight, Fail(c)
  PROVE  KeptTyped' /\ RenderTyped'
<1>1. UNCHANGED <<page, caps, capsCall, ds, now, win, list, visited>> /\ flight' = flight \ {c}
  BY DEF Fail
<1>2. KeptTyped'
  BY <1>1, KeptRest
<1>3. CallsTyped(flight')
  BY <1>1 DEF RenderTyped, CallsTyped
<1>4. CASE Open
  <2>1. DOMAIN fetch = Hooks /\ \A h \in Hooks : fetch[h] \in HookState(h)
    BY <1>4 DEF PInv, FetchOK, RenderTyped
  <2>2. \A h \in Hooks : fetch'[h] = fetch[h]
                         \/ fetch'[h] = [fetch[h] EXCEPT !.loading = FALSE, !.stale = FALSE, !.error = TRUE]
    <3> SUFFICES ASSUME NEW h \in Hooks, fetch'[h] # fetch[h]
                 PROVE  fetch'[h] = [fetch[h] EXCEPT !.loading = FALSE, !.stale = FALSE, !.error = TRUE]
      OBVIOUS
    <3>1. DOMAIN fetch = Hooks
      BY <2>1
    <3> QED
      BY <3>1 DEF Fail
  <2>3. ASSUME NEW h \in Hooks PROVE fetch'[h] \in HookState(h)
    <3>1. fetch[h] \in HookState(h)
      BY <2>1
    <3>2. [fetch[h] EXCEPT !.loading = FALSE, !.stale = FALSE, !.error = TRUE] \in HookState(h)
      BY <3>1, FailedType
    <3> QED
      BY <2>2, <3>1, <3>2
  <2> QED
    BY <1>1, <1>2, <1>3, <1>4, <2>3 DEF RenderTyped, Open, CallsTyped
<1>5. CASE ~Open
  <2>1. ~c.live
    BY <1>5 DEF PInv
  <2>2. UNCHANGED fetch
    BY <2>1 DEF Fail
  <2> QED
    BY <1>1, <1>2, <1>3, <1>5, <2>2 DEF RenderTyped, Open, CallsTyped
<1> QED
  BY <1>4, <1>5

LEMMA PageTypeInit == Init => PageTypeOK
<1> SUFFICES ASSUME Init PROVE PageTypeOK
  OBVIOUS
<1>1. page.svc = None /\ page.env = None /\ ~Open
  BY DEF Init, Open
<1>2. RenderTyped
  BY <1>1 DEF Init, RenderTyped, Unmounted, CallsTyped
<1>3. /\ caps = None /\ capsCall = "none" /\ list = None /\ now = 0 /\ win.at = 0
      /\ ds = [loaded |-> FALSE, mine |-> FALSE, listening |-> FALSE]
  BY DEF Init
<1>4. ds \in [loaded : BOOLEAN, mine : BOOLEAN, listening : BOOLEAN]
  BY <1>3
<1>5. KeptTyped
  BY <1>3, <1>4, ServicePageAssumption DEF KeptTyped
<1> QED
  BY <1>2, <1>5, PageTypes

LEMMA PageTypeStep == PInv /\ PageTypeOK /\ [Next]_vars => PageTypeOK'
<1> SUFFICES ASSUME PInv, KeptTyped, RenderTyped, [Next]_vars PROVE KeptTyped' /\ RenderTyped'
  BY DEF PageTypeOK, KeptTyped, RenderTyped, CallsTyped
<1>0. /\ DOMAIN page = {"svc", "tab", "env", "pct"}
      /\ win \in Windows /\ now \in Nat /\ win.at \in Nat /\ win.at <= now /\ list \in Lists \cup {None}
      /\ page.env \in Envs \cup {None}
  BY DEF PInv, Clocked, Windows, KeptTyped, RenderTyped
<1>1. CASE \E s \in Services, t \in TabParams, e \in Envs \cup {None}, on \in BOOLEAN :
             Navigate(s, t, e, on)
  <2>1. PICK s \in Services, t \in TabParams, e \in Envs \cup {None}, on \in BOOLEAN :
          Navigate(s, t, e, on)
    BY <1>1
  <2>2. page' = [svc |-> s, tab |-> t, env |-> e, pct |-> page.pct] /\ Mount(page')
        /\ UNCHANGED <<caps, now, win>>
    BY <2>1 DEF Navigate
  <2>3. page'.svc \in Services /\ page'.env \in Envs \cup {None}
    BY <2>2
  <2> QED
    BY <2>2, <2>3, MountType
<1>2. CASE Leave
  BY <1>2, LeaveType
<1>3. CASE setActiveTab
  BY <1>3, <1>0, QueryTyped DEF setActiveTab
<1>4. CASE onViewTraces
  BY <1>4, <1>0, QueryTyped DEF onViewTraces
<1>5. CASE setPercentile
  BY <1>5, <1>0, QueryTyped DEF setPercentile
<1>6. CASE setEnvironment
  BY <1>6, <1>0, QueryTyped DEF setEnvironment
<1>7. CASE PickRange
  <2>1. [frozen |-> FALSE, at |-> now] \in Windows /\ now <= now
    BY <1>0 DEF Windows
  <2> QED
    BY <1>7, <2>1, WindowType DEF PickRange
<1>8. CASE Shift
  <2>1. [frozen |-> TRUE, at |-> win.at] \in Windows /\ win.at <= now
    BY <1>0 DEF Windows
  <2> QED
    BY <1>8, <2>1, WindowType DEF Shift
<1>9. CASE setRefresh
  BY <1>9, RestTypes, KeptRest DEF setRefresh
<1>10. CASE Fire
  BY <1>10, RefreshType DEF Fire
<1>11. CASE Hide
  BY <1>11, RestTypes, KeptRest DEF Hide
<1>12. CASE Show
  BY <1>12, RefreshType, RestTypes, KeptRest DEF Show
<1>13. CASE Tick
  <2>1. UNCHANGED <<caps, capsCall, ds, win, list>> /\ now' \in 0 .. MaxNow /\ win.at \in 0 .. now'
    BY <1>0, <1>13, ServicePageAssumption DEF Tick, KeptTyped
  <2> QED
    BY <1>13, <2>1, RestTypes DEF Tick, KeptTyped
<1>14. CASE \E c \in flight : Arrive(c) \/ Fail(c)
  BY <1>14, ArriveType, FailType
<1>15. CASE CapsArrive
  <2>1. UNCHANGED <<page, ds, now, win, list>> /\ caps' \in Caps \cup {None} /\ capsCall' = "kept"
    BY <1>15 DEF CapsArrive
  <2>2. KeptTyped'
    BY <2>1 DEF KeptTyped
  <2>3. CASE Open
    <3>1. PICK c \in Caps : Rerender(page', c, win, list, fetch, flight, ds)
      BY <1>15, <2>1, <2>3 DEF CapsArrive
    <3> QED
      BY <1>0, <2>1, <2>2, <2>3, <3>1, RenderAgain
  <2>4. CASE ~Open
    BY <1>15, <2>1, <2>2, <2>4, RestTypes DEF CapsArrive
  <2> QED
    BY <2>3, <2>4
<1>16. CASE CapsFail
  BY <1>16, RestTypes DEF CapsFail, KeptTyped
<1>17. CASE Listen
  BY <1>17, RestTypes DEF Listen, KeptTyped
<1>18. CASE SettingsArrive
  <2>1. /\ UNCHANGED <<page, caps, capsCall, now, win, list>>
        /\ ds' = [ds EXCEPT !.loaded = TRUE, !.mine = ds.listening]
    BY <1>18 DEF SettingsArrive
  <2>2. KeptTyped'
    BY <2>1 DEF KeptTyped
  <2>3. CASE Open
    <3>1. Rerender(page', caps, win, list, fetch, flight, ds')
      BY <1>18, <2>1, <2>3 DEF SettingsArrive
    <3> QED
      BY <1>0, <2>1, <2>2, <2>3, <3>1, RenderAgain
  <2>4. CASE ~Open
    BY <1>18, <2>1, <2>2, <2>4, RestTypes DEF SettingsArrive
  <2> QED
    BY <2>3, <2>4
<1>19. CASE onErrorRateAlert
  BY <1>19, RestTypes, KeptRest DEF onErrorRateAlert
<1>20. CASE TemplateArrives
  BY <1>20, RestTypes, KeptRest DEF TemplateArrives
<1>21. CASE UNCHANGED vars
  BY <1>21, RestTypes, KeptRest DEF vars
<1> QED
  BY <1>1, <1>2, <1>3, <1>4, <1>5, <1>6, <1>7, <1>8, <1>9, <1>10, <1>11, <1>12, <1>13, <1>14,
     <1>15, <1>16, <1>17, <1>18, <1>19, <1>20, <1>21 DEF Next

LEMMA PageTypesAlways == Spec => []PageTypeOK
<1>1. PInv /\ PageTypeOK /\ [Next]_vars /\ PInv' => PageTypeOK'
  BY PageTypeStep
<1> QED
  BY <1>1, PageTypeInit, PAlways, PTL DEF Spec


-----------------------------------------------------------------------------
(* What follows.                                                           *)

LEMMA ShowsAsked == PInv => ShownIsAsked
BY ArgsAreDeps DEF PInv, ShownIsAsked, FetchOK, HookOK, AsksNow

LEMMA PanelsAreRecent == PInv => PanelsKeepUp
BY DEF PInv, PanelsKeepUp, PanelsOK

(* A tab that is active is available, and so has a button; it was rendered.*)
LEMMA ActiveHasButton == PInv => TabHasButton
<1> SUFFICES ASSUME PInv, Open, caps # None
             PROVE  activeTab(page, caps) \in TabsBar \cap tabContent
  BY DEF TabHasButton
<1> DEFINE t == activeTab(page, caps)
<1>1. t \in visited
  BY DEF PInv
<1>2. t = "overview" \/ (t \in VALID_TABS /\ ~tabUnavailable(t, caps))
  BY DEF activeTab
<1> HIDE DEF t
<1>3. t \in TabsBar
  BY <1>2 DEF TabsBar, VALID_TABS, tabUnavailable, pyroscopeAvailable
<1>4. t \in tabContent
  BY <1>1, <1>2 DEF tabContent, tabUnavailable, pyroscopeAvailable
<1> QED
  BY <1>3, <1>4 DEF t

-----------------------------------------------------------------------------
(* The pages that list rows.                                               *)

LEMMA ListCounts == ASSUME NEW S PROVE List!Cardinality(S) = Cardinality(S)
BY Zenon DEF List!Cardinality, Cardinality

LEMMA ListOrders == ASSUME NEW S, NEW R PROVE List!InOrder(S, R) = InOrder(S, R)
<1>1. ASSUME NEW x PROVE List!Place(S, R, x) = Place(S, R, x)
  BY ListCounts DEF List!Place, Place
<1> QED
  BY <1>1, ListCounts DEF List!InOrder, InOrder

LEMMA ListConstants ==
  /\ \A a \in Answers : a.rows \in Seq(List!Row) /\ a.rows # None /\ a.detected \in BOOLEAN
  /\ {} \in NsPicks /\ {} \in EnvPicks /\ None # << >>
  /\ \A q \in Queries : \A n \in DOMAIN Score[q] : Score[q][n] \in Int
  /\ \A a \in Answers : \A k \in DOMAIN a.rows : EnvRank[a.rows[k].env] \in Int
  /\ PageSize \in Nat \ {0} /\ MaxPage \in Nat \ {0}
BY PagesAssumption DEF List!ConstantsOK, List!Range

UrlType ==
  [ns : NsPicks, env : EnvPicks, q : Queries \cup {None}, sidecars : BOOLEAN, favsOnly : BOOLEAN,
   errsOnly : BOOLEAN, field : List!Fields, dir : {"asc", "desc"}, page : 1 .. MaxPage]

LEMMA ListInit == List!Init => List!ListTypeOK
<1> SUFFICES ASSUME List!Init PROVE List!ListTypeOK
  OBVIOUS
<1>1. /\ kind \in Kinds /\ rows = None /\ detected = FALSE /\ failed = FALSE /\ favs = {}
      /\ \E p \in 1 .. MaxPage :
           url = [ns |-> {}, env |-> {}, q |-> None, sidecars |-> FALSE, favsOnly |-> FALSE,
                  errsOnly |-> FALSE, field |-> List!DefaultField, dir |-> List!DefaultDir, page |-> p]
  BY DEF List!Init
<1>2. PICK p \in 1 .. MaxPage :
        url = [ns |-> {}, env |-> {}, q |-> None, sidecars |-> FALSE, favsOnly |-> FALSE,
               errsOnly |-> FALSE, field |-> List!DefaultField, dir |-> List!DefaultDir, page |-> p]
  BY <1>1
<1>3. List!DefaultField \in List!Fields /\ List!DefaultDir \in {"asc", "desc"}
  BY DEF List!DefaultField, List!DefaultDir, List!Fields
<1>4. url \in UrlType
  BY <1>2, <1>3, ListConstants DEF UrlType
<1> QED
  BY <1>1, <1>4 DEF List!ListTypeOK, UrlType

LEMMA UrlStep ==
  ASSUME List!ListTypeOK, NEW u \in UrlType, List!updateParams(u)
  PROVE  List!ListTypeOK'
BY DEF List!ListTypeOK, List!updateParams, UrlType, List!Names, List!Fields

LEMMA UrlTyped == List!ListTypeOK => url \in UrlType
BY DEF List!ListTypeOK, UrlType

LEMMA Typed ==
  ASSUME NEW u \in UrlType, NEW p \in 1 .. MaxPage
  PROVE  /\ \A s \in NsPicks : [u EXCEPT !.ns = s, !.page = p] \in UrlType
         /\ \A s \in EnvPicks : [u EXCEPT !.env = s, !.page = p] \in UrlType
         /\ \A q \in Queries \cup {None} : [u EXCEPT !.q = q, !.page = p] \in UrlType
         /\ \A b \in BOOLEAN : [u EXCEPT !.favsOnly = b, !.page = p] \in UrlType
         /\ \A b \in BOOLEAN : [u EXCEPT !.sidecars = b, !.page = p] \in UrlType
         /\ \A b \in BOOLEAN : [u EXCEPT !.errsOnly = b, !.page = p] \in UrlType
         /\ [u EXCEPT !.page = p] \in UrlType
         /\ \A d \in {"asc", "desc"} : [u EXCEPT !.dir = d] \in UrlType /\ [u EXCEPT !.dir = d, !.page = p] \in UrlType
         /\ \A f \in List!Fields : \A d \in {"asc", "desc"} :
              [u EXCEPT !.field = f, !.page = p, !.dir = d] \in UrlType /\ [u EXCEPT !.field = f, !.dir = d] \in UrlType
<1>1. ASSUME NEW s \in NsPicks PROVE [u EXCEPT !.ns = s, !.page = p] \in UrlType
  BY DEF UrlType
<1>2. ASSUME NEW s \in EnvPicks PROVE [u EXCEPT !.env = s, !.page = p] \in UrlType
  BY DEF UrlType
<1>3. ASSUME NEW q \in Queries \cup {None} PROVE [u EXCEPT !.q = q, !.page = p] \in UrlType
  BY DEF UrlType
<1>4. ASSUME NEW b \in BOOLEAN PROVE [u EXCEPT !.favsOnly = b, !.page = p] \in UrlType
  BY DEF UrlType
<1>5. ASSUME NEW b \in BOOLEAN PROVE [u EXCEPT !.sidecars = b, !.page = p] \in UrlType
  BY DEF UrlType
<1>6. ASSUME NEW b \in BOOLEAN PROVE [u EXCEPT !.errsOnly = b, !.page = p] \in UrlType
  BY DEF UrlType
<1>7. [u EXCEPT !.page = p] \in UrlType
  BY DEF UrlType
<1>8. ASSUME NEW d \in {"asc", "desc"} PROVE [u EXCEPT !.dir = d] \in UrlType
  BY DEF UrlType
<1>9. ASSUME NEW d \in {"asc", "desc"} PROVE [u EXCEPT !.dir = d, !.page = p] \in UrlType
  BY DEF UrlType
<1>10. ASSUME NEW f \in List!Fields, NEW d \in {"asc", "desc"}
       PROVE  [u EXCEPT !.field = f, !.page = p, !.dir = d] \in UrlType
  BY DEF UrlType
<1>11. ASSUME NEW f \in List!Fields, NEW d \in {"asc", "desc"}
       PROVE  [u EXCEPT !.field = f, !.dir = d] \in UrlType
  BY DEF UrlType
<1> QED
  BY <1>1, <1>2, <1>3, <1>4, <1>5, <1>6, <1>7, <1>8, <1>9, <1>10, <1>11, Zenon

LEMMA NotIsBoolean == ASSUME NEW b \in BOOLEAN PROVE (~b) \in BOOLEAN
BY SMT

(* Every control writes a URL that is one.                                 *)
LEMMA ControlType == List!ListTypeOK /\ (List!Filter \/ List!Pager) => List!ListTypeOK'
<1> SUFFICES ASSUME List!ListTypeOK, List!Filter \/ List!Pager PROVE List!ListTypeOK'
  OBVIOUS
<1>u. url \in UrlType
  BY UrlTyped
<1>a. /\ url.favsOnly \in BOOLEAN /\ url.sidecars \in BOOLEAN /\ url.errsOnly \in BOOLEAN
      /\ url.page \in 1 .. MaxPage
  BY <1>u DEF UrlType
<1>b. (~url.favsOnly) \in BOOLEAN /\ (~url.sidecars) \in BOOLEAN /\ (~url.errsOnly) \in BOOLEAN
  BY <1>a, NotIsBoolean, Zenon
<1>p. 1 \in 1 .. MaxPage
  BY ListConstants
<1>f. List!Flip \in {"asc", "desc"}
  BY DEF List!Flip
<1>1. ASSUME NEW s \in NsPicks, List!setNsFilters(s) PROVE List!ListTypeOK'
  <2>1. [url EXCEPT !.ns = s, !.page = 1] \in UrlType
    BY <1>u, <1>p, Typed, Zenon
  <2> QED BY <1>1, <2>1, UrlStep DEF List!setNsFilters
<1>2. ASSUME NEW s \in EnvPicks, List!setEnvFilters(s) PROVE List!ListTypeOK'
  <2>1. [url EXCEPT !.env = s, !.page = 1] \in UrlType
    BY <1>u, <1>p, Typed, Zenon
  <2> QED BY <1>2, <2>1, UrlStep DEF List!setEnvFilters
<1>3. ASSUME NEW q \in Queries \cup {None}, List!setSearch(q) PROVE List!ListTypeOK'
  <2>1. [url EXCEPT !.q = q, !.page = 1] \in UrlType
    BY <1>u, <1>p, Typed, Zenon
  <2> QED BY <1>3, <2>1, UrlStep DEF List!setSearch
<1>4. CASE List!setShowFavorites
  <2>1. [url EXCEPT !.favsOnly = ~@, !.page = 1] \in UrlType
    BY <1>u, <1>b, <1>p, Typed, Zenon
  <2> QED BY <1>4, <2>1, UrlStep, Zenon DEF List!setShowFavorites
<1>5. CASE List!setHideSidecars
  <2>1. [url EXCEPT !.sidecars = ~@, !.page = 1] \in UrlType
    BY <1>u, <1>b, <1>p, Typed, Zenon
  <2> QED BY <1>5, <2>1, UrlStep, Zenon DEF List!setHideSidecars
<1>6. CASE List!setErrorsOnly
  <2> DEFINE p == IF kind = "namespace" THEN url.page ELSE 1
  <2>0. p \in 1 .. MaxPage
    BY <1>a, <1>p
  <2>1. [url EXCEPT !.errsOnly = ~@, !.page = p] \in UrlType
    <3> HIDE DEF p
    <3> QED BY <1>u, <1>b, <2>0, Typed, Zenon
  <2>2. List!updateParams([url EXCEPT !.errsOnly = ~@, !.page = p])
    BY <1>6, Zenon DEF List!setErrorsOnly
  <2> HIDE DEF p
  <2> QED BY <2>1, <2>2, UrlStep, Zenon
<1>7. ASSUME NEW p \in 1 .. MaxPage, List!setPage(p) PROVE List!ListTypeOK'
  <2>1. [url EXCEPT !.page = p] \in UrlType
    BY <1>u, <1>p, Typed, Zenon
  <2> QED BY <1>7, <2>1, UrlStep, Zenon DEF List!setPage
<1>8. ASSUME NEW f \in List!Fields, List!toggleSort(f) PROVE List!ListTypeOK'
  <2>1. [url EXCEPT !.dir = List!Flip, !.page = 1] \in UrlType
    BY <1>u, <1>f, <1>p, Typed, Zenon
  <2>2. [url EXCEPT !.field = f, !.page = 1, !.dir = IF f = "rate" THEN "desc" ELSE "asc"] \in UrlType
    <3>1. (IF f = "rate" THEN "desc" ELSE "asc") \in {"asc", "desc"}
      OBVIOUS
    <3> QED BY <1>u, <1>p, <3>1, Typed, Zenon
  <2> QED BY <1>8, <2>1, <2>2, UrlStep, Zenon DEF List!toggleSort
<1>9. ASSUME NEW f \in List!Fields, List!toggleTableSort(f) PROVE List!ListTypeOK'
  <2>1. [url EXCEPT !.dir = List!Flip] \in UrlType
    BY <1>u, <1>f, <1>p, Typed, Zenon
  <2>2. [url EXCEPT !.field = f, !.dir = "desc"] \in UrlType /\ [url EXCEPT !.dir = "desc"] \in UrlType
    BY <1>u, <1>p, Typed, Zenon
  <2> QED BY <1>9, <2>1, <2>2, UrlStep, Zenon DEF List!toggleTableSort
<1> QED
  BY <1>1, <1>2, <1>3, <1>4, <1>5, <1>6, <1>7, <1>8, <1>9 DEF List!Filter, List!Pager

LEMMA ListStep == List!ListTypeOK /\ [List!Next]_listVars => List!ListTypeOK'
<1> SUFFICES ASSUME List!ListTypeOK, [List!Next]_listVars PROVE List!ListTypeOK'
  OBVIOUS
<1>1. ASSUME NEW a \in Answers, List!Answered(a) PROVE List!ListTypeOK'
  BY <1>1, ListConstants DEF List!ListTypeOK, List!Answered, List!Names, List!Fields
<1>2. CASE List!Failed
  BY <1>2 DEF List!ListTypeOK, List!Failed, List!Names, List!Fields
<1>3. ASSUME NEW n \in List!Names, List!toggleFavorite(n) PROVE List!ListTypeOK'
  BY <1>3 DEF List!ListTypeOK, List!toggleFavorite, List!Names, List!Fields
<1>4. CASE List!Filter \/ List!Pager
  BY <1>4, ControlType
<1>5. CASE UNCHANGED listVars
  BY <1>5 DEF List!ListTypeOK, listVars, List!Names, List!Fields
<1> QED
  BY <1>1, <1>2, <1>3, <1>4, <1>5 DEF List!Next

LEMMA RowsAreRows ==
  ASSUME List!ListTypeOK, rows # None
  PROVE  /\ rows \in Seq(List!Row)
         /\ \A k \in DOMAIN rows : EnvRank[rows[k].env] \in Int
BY ListConstants DEF List!ListTypeOK

-----------------------------------------------------------------------------
(* An order by keys, the most important one first.                         *)
Differ(c, d) == IF c # 0 THEN c ELSE d

ByFour(a1, a2, a3, a4, b1, b2, b3, b4) ==
  Differ(a1 - b1, Differ(a2 - b2, Differ(a3 - b3, a4 - b4)))

LEMMA KeysOrder ==
  ASSUME NEW a1 \in Int, NEW a2 \in Int, NEW a3 \in Int, NEW a4 \in Int,
         NEW b1 \in Int, NEW b2 \in Int, NEW b3 \in Int, NEW b4 \in Int
  PROVE  /\ ByFour(a1, a2, a3, a4, b1, b2, b3, b4) \in Int
         /\ ByFour(b1, b2, b3, b4, a1, a2, a3, a4) < 0 <=> ByFour(a1, a2, a3, a4, b1, b2, b3, b4) > 0
BY DEF Differ, ByFour

LEMMA KeysChain ==
  ASSUME NEW a1 \in Int, NEW a2 \in Int, NEW a3 \in Int, NEW a4 \in Int,
         NEW b1 \in Int, NEW b2 \in Int, NEW b3 \in Int, NEW b4 \in Int,
         NEW c1 \in Int, NEW c2 \in Int, NEW c3 \in Int, NEW c4 \in Int,
         ByFour(a1, a2, a3, a4, b1, b2, b3, b4) <= 0, ByFour(b1, b2, b3, b4, c1, c2, c3, c4) <= 0
  PROVE  /\ ByFour(a1, a2, a3, a4, c1, c2, c3, c4) <= 0
         /\ ByFour(a1, a2, a3, a4, b1, b2, b3, b4) < 0 \/ ByFour(b1, b2, b3, b4, c1, c2, c3, c4) < 0 =>
              ByFour(a1, a2, a3, a4, c1, c2, c3, c4) < 0
BY DEF Differ, ByFour

(* The rows that are ordered: those that pass the filters.                 *)
Orderly(a) ==
  /\ a \in List!Row /\ EnvRank[a.env] \in Int
  /\ List!Searching => Score[url.q][a.name] \in Int

LEMMA PassingOrderly ==
  ASSUME List!ListTypeOK, rows # None, NEW k \in List!Passing
  PROVE  Orderly(rows[k])
<1>1. k \in DOMAIN rows /\ rows \in Seq(List!Row) /\ EnvRank[rows[k].env] \in Int
  BY RowsAreRows DEF List!Passing
<1>2. ASSUME List!Searching PROVE Score[url.q][rows[k].name] \in Int
  <2>1. List!Matches(rows[k])
    BY <1>2 DEF List!Passing, List!Passes
  <2>2. url.q \in Queries
    BY <1>2 DEF List!ListTypeOK, List!Searching
  <2> QED
    BY <2>1, <2>2, ListConstants DEF List!Matches
<1>3. rows[k] \in List!Row
  BY <1>1
<1> QED
  BY <1>1, <1>2, <1>3 DEF Orderly

Relevance == List!Searching /\ List!DefaultSort /\ kind \in {"services", "jobs"}

FieldOf(a) == CASE url.field = "name" -> a.name [] url.field = "env" -> a.env [] url.field = "rate" -> a.rate

(* The keys of a row.                                                      *)
K1(a) == IF Relevance THEN List!Flag(a.name \in Prefix[url.q])
         ELSE IF kind = "services" /\ List!DefaultSort THEN List!Flag(a.name \in favs) ELSE 0
K2(a) == IF Relevance THEN Score[url.q][a.name] ELSE IF url.dir = "desc" THEN -FieldOf(a) ELSE FieldOf(a)
K3(a) == IF ~Relevance /\ kind = "services" /\ url.sidecars THEN List!Flag(~a.sidecar) ELSE 0
K4(a) == IF ~Relevance /\ kind \in {"services", "jobs"} THEN a.name ELSE 0

LEMMA KeysType ==
  ASSUME List!ListTypeOK, NEW a, Orderly(a)
  PROVE  /\ K1(a) \in Int /\ K2(a) \in Int /\ K3(a) \in Int /\ K4(a) \in Int
         /\ FieldOf(a) \in Int /\ a.name \in Int
<1>1. a.name \in Int /\ a.env \in Int /\ a.rate \in Int /\ (List!Searching => Score[url.q][a.name] \in Int)
  BY DEF Orderly, List!Row
<1>2. url.field \in {"name", "env", "rate"}
  BY DEF List!ListTypeOK, List!Fields
<1>3. FieldOf(a) \in Int
  BY <1>1, <1>2 DEF FieldOf
<1>4. K1(a) \in Int
  BY DEF K1, List!Flag
<1>5. K3(a) \in Int
  BY DEF K3, List!Flag
<1>6. K2(a) \in Int
  BY <1>1, <1>3 DEF K2, Relevance
<1>7. K4(a) \in Int
  BY <1>1 DEF K4
<1> QED
  BY <1>1, <1>3, <1>4, <1>5, <1>6, <1>7

LEMMA ByKeys ==
  ASSUME List!ListTypeOK, NEW a, NEW b, Orderly(a), Orderly(b)
  PROVE  List!RowOrder(a, b) = ByFour(K1(a), K2(a), K3(a), K4(a), K1(b), K2(b), K3(b), K4(b))
<1>1. /\ K1(a) \in Int /\ K2(a) \in Int /\ K3(a) \in Int /\ K4(a) \in Int
      /\ FieldOf(a) \in Int /\ a.name \in Int
  BY KeysType
<1>2. /\ K1(b) \in Int /\ K2(b) \in Int /\ K3(b) \in Int /\ K4(b) \in Int
      /\ FieldOf(b) \in Int /\ b.name \in Int
  BY KeysType
<1>3. List!ByField(a, b) = FieldOf(a) - FieldOf(b)
  BY DEF List!ByField, FieldOf, List!ListTypeOK, List!Fields
<1>4. url.dir = "desc" => -(FieldOf(a) - FieldOf(b)) = (-FieldOf(a)) - (-FieldOf(b))
  BY <1>1, <1>2
<1>5. ~Relevance => List!Directed(List!ByField(a, b)) = K2(a) - K2(b)
  BY <1>3, <1>4 DEF List!Directed, K2
<1>6. CASE Relevance
  <2>1. List!RowOrder(a, b) = List!searchServices(a, b)
    BY <1>6 DEF Relevance, List!RowOrder, List!InventoryOrder, List!JobsOrder
  <2>2. K3(a) - K3(b) = 0 /\ K4(a) - K4(b) = 0
    BY <1>6 DEF K3, K4
  <2> QED
    BY <1>1, <1>2, <1>6, <2>1, <2>2 DEF List!searchServices, List!Else, Differ, ByFour, K1, K2
<1>7. CASE ~Relevance /\ kind = "services"
  <2>1. List!RowOrder(a, b) = List!Else(IF List!DefaultSort THEN List!FavouritesFirst(a, b) ELSE 0,
          List!Else(K2(a) - K2(b),
          List!Else(IF url.sidecars THEN List!Flag(~a.sidecar) - List!Flag(~b.sidecar) ELSE 0, a.name - b.name)))
    BY <1>5, <1>7, Zenon DEF Relevance, List!RowOrder, List!InventoryOrder
  <2>2. (IF List!DefaultSort THEN List!FavouritesFirst(a, b) ELSE 0) = K1(a) - K1(b)
    BY <1>7 DEF K1, List!FavouritesFirst, List!Flag
  <2>3. (IF url.sidecars THEN List!Flag(~a.sidecar) - List!Flag(~b.sidecar) ELSE 0) = K3(a) - K3(b)
    BY <1>7 DEF K3, List!Flag
  <2>4. a.name - b.name = K4(a) - K4(b)
    BY <1>7 DEF K4
  <2> QED
    BY <2>1, <2>2, <2>3, <2>4 DEF List!Else, Differ, ByFour
<1>8. CASE ~Relevance /\ kind = "jobs"
  <2>1. List!RowOrder(a, b) = List!Else(K2(a) - K2(b), a.name - b.name)
    BY <1>5, <1>8 DEF Relevance, List!RowOrder, List!JobsOrder
  <2>2. K1(a) - K1(b) = 0 /\ K3(a) - K3(b) = 0 /\ a.name - b.name = K4(a) - K4(b)
    BY <1>8 DEF K1, K3, K4
  <2> QED
    BY <2>1, <2>2 DEF List!Else, Differ, ByFour
<1>9. CASE kind \notin {"services", "jobs"}
  <2>1. List!RowOrder(a, b) = K2(a) - K2(b)
    BY <1>5, <1>9 DEF Relevance, List!RowOrder, List!comparator
  <2>2. K1(a) - K1(b) = 0 /\ K3(a) - K3(b) = 0 /\ K4(a) - K4(b) = 0
    BY <1>9 DEF K1, K3, K4, Relevance
  <2> QED
    BY <1>1, <1>2, <2>1, <2>2 DEF Differ, ByFour
<1> QED
  BY <1>6, <1>7, <1>8, <1>9 DEF Relevance

(* Whichever comparison a page uses, it is one.                            *)
LEMMA RowOrderIsOne ==
  ASSUME List!ListTypeOK, NEW a, NEW b, Orderly(a), Orderly(b)
  PROVE  /\ List!RowOrder(a, b) \in Int /\ (List!RowOrder(b, a) < 0 <=> List!RowOrder(a, b) > 0)
         /\ \A c : Orderly(c) /\ List!RowOrder(a, b) <= 0 /\ List!RowOrder(b, c) <= 0 =>
              /\ List!RowOrder(a, c) <= 0
              /\ List!RowOrder(a, b) < 0 \/ List!RowOrder(b, c) < 0 => List!RowOrder(a, c) < 0
<1> DEFINE r(x, y) == ByFour(K1(x), K2(x), K3(x), K4(x), K1(y), K2(y), K3(y), K4(y))
<1>0. \A x : Orderly(x) => K1(x) \in Int /\ K2(x) \in Int /\ K3(x) \in Int /\ K4(x) \in Int
  BY KeysType
<1>1. \A x, y : Orderly(x) /\ Orderly(y) => List!RowOrder(x, y) = r(x, y)
  BY ByKeys
<1>2. r(a, b) \in Int /\ (r(b, a) < 0 <=> r(a, b) > 0)
  <2>1. /\ K1(a) \in Int /\ K2(a) \in Int /\ K3(a) \in Int /\ K4(a) \in Int
        /\ K1(b) \in Int /\ K2(b) \in Int /\ K3(b) \in Int /\ K4(b) \in Int
    BY <1>0, Zenon
  <2>2. r(a, b) \in Int
    BY <2>1, KeysOrder, Zenon
  <2>3. r(b, a) < 0 <=> r(a, b) > 0
    BY <2>1, KeysOrder, Zenon
  <2> QED
    BY <2>2, <2>3, Zenon
<1>3. ASSUME NEW c, Orderly(c), r(a, b) <= 0, r(b, c) <= 0
      PROVE  r(a, c) <= 0 /\ (r(a, b) < 0 \/ r(b, c) < 0 => r(a, c) < 0)
  <2>1. /\ K1(a) \in Int /\ K2(a) \in Int /\ K3(a) \in Int /\ K4(a) \in Int
        /\ K1(b) \in Int /\ K2(b) \in Int /\ K3(b) \in Int /\ K4(b) \in Int
        /\ K1(c) \in Int /\ K2(c) \in Int /\ K3(c) \in Int /\ K4(c) \in Int
    BY <1>0, <1>3, Zenon
  <2> QED
    BY <1>3, <2>1, KeysChain, Zenon
<1> HIDE DEF r
<1>4. List!RowOrder(a, b) = r(a, b) /\ List!RowOrder(b, a) = r(b, a)
  BY <1>1
<1>5. List!RowOrder(a, b) \in Int /\ (List!RowOrder(b, a) < 0 <=> List!RowOrder(a, b) > 0)
  BY <1>2, <1>4
<1>6. ASSUME NEW c, Orderly(c), List!RowOrder(a, b) <= 0, List!RowOrder(b, c) <= 0
      PROVE  /\ List!RowOrder(a, c) <= 0
             /\ List!RowOrder(a, b) < 0 \/ List!RowOrder(b, c) < 0 => List!RowOrder(a, c) < 0
  <2>1. List!RowOrder(a, c) = r(a, c) /\ List!RowOrder(b, c) = r(b, c)
    BY <1>1, <1>6
  <2>2. r(a, b) <= 0 /\ r(b, c) <= 0
    BY <1>4, <1>6, <2>1
  <2> QED
    BY <1>3, <1>4, <1>6, <2>1, <2>2
<1> QED
  BY <1>5, <1>6

LEMMA ListConsistent == List!ListTypeOK => List!OrderConsistent
<1> SUFFICES ASSUME List!ListTypeOK, rows # None, NEW i \in List!Passing, NEW j \in List!Passing
             PROVE  /\ List!RowOrder(rows[i], rows[j]) < 0 <=> List!RowOrder(rows[j], rows[i]) > 0
                    /\ \A k \in List!Passing :
                         List!RowOrder(rows[i], rows[j]) <= 0 /\ List!RowOrder(rows[j], rows[k]) <= 0
                           => List!RowOrder(rows[i], rows[k]) <= 0
  BY DEF List!OrderConsistent
<1>1. Orderly(rows[i]) /\ Orderly(rows[j]) /\ \A k \in List!Passing : Orderly(rows[k])
  BY PassingOrderly
<1>2. List!RowOrder(rows[i], rows[j]) < 0 <=> List!RowOrder(rows[j], rows[i]) > 0
  BY <1>1, RowOrderIsOne
<1>3. \A c : Orderly(c) /\ List!RowOrder(rows[i], rows[j]) <= 0 /\ List!RowOrder(rows[j], c) <= 0
        => List!RowOrder(rows[i], c) <= 0
  BY <1>1, RowOrderIsOne
<1> QED
  BY <1>1, <1>2, <1>3

-----------------------------------------------------------------------------
(* Groups come first, rows after them.                                     *)
Grouping(a, b) == IF List!groupByEnv THEN List!GroupOrder(a, b) ELSE 0

LEMMA GroupingIsOne ==
  ASSUME NEW a, NEW b, NEW c, Orderly(a), Orderly(b), Orderly(c)
  PROVE  /\ Grouping(a, b) \in Int /\ (Grouping(a, b) < 0 <=> Grouping(b, a) > 0)
         /\ Grouping(a, b) <= 0 /\ Grouping(b, c) <= 0 =>
              /\ Grouping(a, c) <= 0
              /\ Grouping(a, b) < 0 \/ Grouping(b, c) < 0 => Grouping(a, c) < 0
         /\ List!groupByEnv /\ Grouping(a, b) = 0 => a.env = b.env
         /\ a.env = b.env => Grouping(a, b) = 0
<1>1. /\ a.env \in Int /\ b.env \in Int /\ c.env \in Int
      /\ EnvRank[a.env] \in Int /\ EnvRank[b.env] \in Int /\ EnvRank[c.env] \in Int
  BY DEF Orderly, List!Row
<1> QED
  BY <1>1 DEF Grouping, List!GroupOrder, List!Else

LEMMA OrderIsOne ==
  ASSUME List!ListTypeOK, NEW a, NEW b, NEW c, Orderly(a), Orderly(b), Orderly(c)
  PROVE  /\ List!Order(a, b) \in Int /\ (List!Order(a, b) < 0 <=> List!Order(b, a) > 0)
         /\ List!Order(a, b) <= 0 => Grouping(a, b) <= 0
         /\ List!Order(a, b) <= 0 /\ List!Order(b, c) <= 0 =>
              /\ List!Order(a, c) <= 0
              /\ List!Order(a, b) < 0 \/ List!Order(b, c) < 0 => List!Order(a, c) < 0
<1>1. \A x, y : List!Order(x, y) = IF Grouping(x, y) # 0 THEN Grouping(x, y) ELSE List!RowOrder(x, y)
  BY DEF List!Order, List!Else, Grouping
<1>2. \A x, y : Orderly(x) /\ Orderly(y) =>
        /\ List!RowOrder(x, y) \in Int /\ (List!RowOrder(y, x) < 0 <=> List!RowOrder(x, y) > 0)
        /\ Grouping(x, y) \in Int /\ (Grouping(x, y) < 0 <=> Grouping(y, x) > 0)
  BY RowOrderIsOne, GroupingIsOne
<1>3. List!Order(a, b) \in Int /\ (List!Order(a, b) < 0 <=> List!Order(b, a) > 0)
  <2>1. /\ List!RowOrder(a, b) \in Int /\ (List!RowOrder(b, a) < 0 <=> List!RowOrder(a, b) > 0)
        /\ List!RowOrder(b, a) \in Int /\ (List!RowOrder(a, b) < 0 <=> List!RowOrder(b, a) > 0)
        /\ Grouping(a, b) \in Int /\ (Grouping(a, b) < 0 <=> Grouping(b, a) > 0)
        /\ Grouping(b, a) \in Int /\ (Grouping(b, a) < 0 <=> Grouping(a, b) > 0)
    BY <1>2
  <2> QED
    BY <1>1, <2>1
<1>4. List!Order(a, b) <= 0 => Grouping(a, b) <= 0
  BY <1>1, <1>2
<1>5. ASSUME List!Order(a, b) <= 0, List!Order(b, c) <= 0
      PROVE  /\ List!Order(a, c) <= 0
             /\ List!Order(a, b) < 0 \/ List!Order(b, c) < 0 => List!Order(a, c) < 0
  <2>1. Grouping(a, b) \in Int /\ Grouping(b, c) \in Int /\ Grouping(a, c) \in Int
    BY <1>2
  <2>2. Grouping(a, b) <= 0 /\ Grouping(b, c) <= 0
    BY <1>1, <1>2, <1>5
  <2>3. Grouping(a, c) <= 0 /\ (Grouping(a, b) < 0 \/ Grouping(b, c) < 0 => Grouping(a, c) < 0)
    BY <2>2, GroupingIsOne
  <2>4. CASE Grouping(a, c) < 0
    BY <1>1, <2>1, <2>4
  <2>5. CASE Grouping(a, c) = 0
    <3>1. Grouping(a, b) = 0 /\ Grouping(b, c) = 0
      BY <2>1, <2>2, <2>3, <2>5
    <3>2. /\ List!Order(a, b) = List!RowOrder(a, b) /\ List!Order(b, c) = List!RowOrder(b, c)
          /\ List!Order(a, c) = List!RowOrder(a, c)
      BY <1>1, <2>5, <3>1
    <3>3. List!RowOrder(a, b) <= 0 /\ List!RowOrder(b, c) <= 0
      BY <1>5, <3>2
    <3>4. /\ List!RowOrder(a, c) <= 0
          /\ List!RowOrder(a, b) < 0 \/ List!RowOrder(b, c) < 0 => List!RowOrder(a, c) < 0
      BY <3>3, RowOrderIsOne
    <3> QED
      BY <3>2, <3>4
  <2> QED
    BY <2>1, <2>3, <2>4, <2>5
<1> QED
  BY <1>3, <1>4, <1>5

LEMMA BeforeIsStrict ==
  ASSUME List!ListTypeOK, rows # None
  PROVE  /\ StrictOrder(List!Before, List!Passing)
         /\ List!Passing \in SUBSET (1 .. Len(rows)) /\ IsFiniteSet(List!Passing)
         /\ \A j, k \in List!Passing : <<j, k>> \in List!Before => List!Order(rows[j], rows[k]) <= 0
<1>1. rows \in Seq(List!Row) /\ Len(rows) \in Nat /\ DOMAIN rows = 1 .. Len(rows)
  BY RowsAreRows
<1>2. List!Passing \in SUBSET (1 .. Len(rows))
  BY <1>1 DEF List!Passing
<1>3. IsFiniteSet(List!Passing)
  <2>1. IsFiniteSet(1 .. Len(rows))
    BY <1>1, FS_Interval
  <2> QED
    BY <1>2, <2>1, FS_Subset
<1>4. \A k \in List!Passing : Orderly(rows[k]) /\ k \in Int
  BY <1>1, <1>2, PassingOrderly
<1> DEFINE c(j, k) == List!Order(rows[j], rows[k])
<1>5. \A j, k \in List!Passing : <<j, k>> \in List!Before <=> c(j, k) < 0 \/ (c(j, k) = 0 /\ j < k)
  BY DEF List!Before
<1>6. \A j, k \in List!Passing : c(j, k) \in Int /\ (c(j, k) < 0 <=> c(k, j) > 0)
  BY <1>4, OrderIsOne
<1>7. \A j, k, l \in List!Passing : c(j, k) <= 0 /\ c(k, l) <= 0 =>
        c(j, l) <= 0 /\ (c(j, k) < 0 \/ c(k, l) < 0 => c(j, l) < 0)
  BY <1>4, OrderIsOne
<1> HIDE DEF c
<1>8. \A j \in List!Passing : <<j, j>> \notin List!Before
  BY <1>4, <1>5, <1>6
<1>9. ASSUME NEW j \in List!Passing, NEW k \in List!Passing, NEW l \in List!Passing,
             <<j, k>> \in List!Before, <<k, l>> \in List!Before
      PROVE  <<j, l>> \in List!Before
  <2>1. c(j, k) \in Int /\ c(k, l) \in Int /\ c(j, l) \in Int /\ j \in Int /\ k \in Int /\ l \in Int
    BY <1>4, <1>6
  <2>2. /\ c(j, k) < 0 \/ (c(j, k) = 0 /\ j < k)
        /\ c(k, l) < 0 \/ (c(k, l) = 0 /\ k < l)
    BY <1>5, <1>9
  <2>3. c(j, l) <= 0 /\ (c(j, k) < 0 \/ c(k, l) < 0 => c(j, l) < 0)
    BY <1>7, <2>1, <2>2
  <2>4. c(j, l) < 0 \/ (c(j, l) = 0 /\ j < l)
    BY <2>1, <2>2, <2>3
  <2> QED
    BY <1>5, <2>4
<1>10. ASSUME NEW j \in List!Passing, NEW k \in List!Passing, j # k
       PROVE  <<j, k>> \in List!Before \/ <<k, j>> \in List!Before
  <2>1. c(j, k) \in Int /\ c(k, j) \in Int /\ j \in Int /\ k \in Int
        /\ (c(j, k) < 0 <=> c(k, j) > 0) /\ (c(k, j) < 0 <=> c(j, k) > 0)
    BY <1>4, <1>6
  <2>2. \/ c(j, k) < 0 \/ (c(j, k) = 0 /\ j < k)
        \/ c(k, j) < 0 \/ (c(k, j) = 0 /\ k < j)
    BY <1>10, <2>1
  <2> QED
    BY <1>5, <2>2
<1>11. \A j, k \in List!Passing : <<j, k>> \in List!Before => List!Order(rows[j], rows[k]) <= 0
  BY <1>5, <1>6 DEF c
<1> QED
  BY <1>2, <1>3, <1>8, <1>9, <1>10, <1>11 DEF StrictOrder

(* The rows that pass, all of them, each once, in the order of the page.   *)
LEMMA FilteredRows ==
  ASSUME List!ListTypeOK, rows # None
  PROVE  /\ List!filtered \in Seq(List!Row)
         /\ Len(List!filtered) = Cardinality(List!Passing)
         /\ \A k \in 1 .. Len(List!filtered) : \E i \in List!Passing : List!filtered[k] = rows[i]
         /\ \A j, k \in 1 .. Len(List!filtered) :
              j < k => List!Order(List!filtered[j], List!filtered[k]) <= 0
<1> DEFINE n == Cardinality(List!Passing)
           o == InOrder(List!Passing, List!Before)
<1>1. /\ StrictOrder(List!Before, List!Passing)
      /\ List!Passing \in SUBSET (1 .. Len(rows)) /\ IsFiniteSet(List!Passing)
      /\ \A j, k \in List!Passing : <<j, k>> \in List!Before => List!Order(rows[j], rows[k]) <= 0
  BY BeforeIsStrict
<1>2. /\ n \in Nat /\ o \in [1 .. n -> List!Passing]
      /\ \A i, j \in 1 .. n : i < j => <<o[i], o[j]>> \in List!Before
  BY <1>1, InOrderSorts
<1>3. List!filtered = [k \in DOMAIN o |-> rows[o[k]]]
  BY ListOrders DEF List!filtered
<1>4. \A i \in List!Passing : rows[i] \in List!Row
  BY PassingOrderly DEF Orderly
<1> HIDE DEF n, o
<1>5. List!filtered \in [1 .. n -> List!Row] /\ \A k \in 1 .. n : List!filtered[k] = rows[o[k]] /\ o[k] \in List!Passing
  BY <1>2, <1>3, <1>4
<1>6. List!filtered \in Seq(List!Row) /\ Len(List!filtered) = n
  BY <1>2, <1>5
<1>7. \A j, k \in 1 .. n : j < k => List!Order(List!filtered[j], List!filtered[k]) <= 0
  BY <1>1, <1>2, <1>5
<1> QED
  BY <1>2, <1>5, <1>6, <1>7 DEF n

-----------------------------------------------------------------------------
(* Pages.                                                                  *)

(* Rounding up: the last page is not empty.                                *)
LEMMA PagesNeeded ==
  ASSUME NEW n \in Nat \ {0}, NEW s \in Nat \ {0}
  PROVE  /\ (n + s - 1) \div s \in Nat \ {0}
         /\ n <= ((n + s - 1) \div s) * s
         /\ \A p \in 1 .. (n + s - 1) \div s : (p - 1) * s \in Nat /\ (p - 1) * s < n
<1> DEFINE q == (n + s - 1) \div s
<1>1. q \in Int /\ s * q <= n + s - 1 /\ n + s - 1 < s * q + s
  BY Z3
<1> HIDE DEF q
<1>2. q > 0
  <2>1. CASE q <= 0
    <3>1. s * q <= 0
      BY <1>1, <2>1
    <3> QED
      BY <1>1, <3>1
  <2> QED
    BY <1>1, <2>1
<1>3. ASSUME NEW p \in 1 .. q
      PROVE  (p - 1) * s \in Nat /\ (p - 1) * s < n
  <2>1. (p - 1) * s <= (q - 1) * s
    BY <1>1
  <2>2. (q - 1) * s = s * q - s
    BY <1>1
  <2>3. (p - 1) * s >= 0 /\ (p - 1) * s \in Int
    BY <1>1
  <2> QED
    BY <1>1, <2>1, <2>2, <2>3
<1>4. n <= q * s
  <2>1. q * s = s * q /\ q * s \in Int
    BY <1>1
  <2> QED
    BY <1>1, <2>1
<1> QED
  BY <1>1, <1>2, <1>3, <1>4 DEF q

(* A page of n rows of at most s, from the p-th on.                        *)
PieceOf(q, s, p) ==
  SubSeq(q, p * s - s + 1, IF p * s > Len(q) THEN Len(q) ELSE p * s)

PieceIsThere(q, s, p) ==
  /\ \E m \in Nat :
       /\ DOMAIN PieceOf(q, s, p) = 1 .. m
       /\ \A k \in 1 .. m : /\ (p - 1) * s + k \in 1 .. Len(q)
                            /\ PieceOf(q, s, p)[k] = q[(p - 1) * s + k]
  /\ (p - 1) * s \in Nat
  /\ (p - 1) * s < Len(q) => 1 \in DOMAIN PieceOf(q, s, p)

LEMMA PageOfRows ==
  ASSUME NEW T, NEW q \in Seq(T), NEW s \in Nat \ {0}, NEW p \in Nat \ {0}
  PROVE  PieceIsThere(q, s, p)
<1> DEFINE last == p * s
           start == (p - 1) * s
           end == IF last > Len(q) THEN Len(q) ELSE last
           m == IF end > start THEN end - start ELSE 0
           shown == SubSeq(q, last - s + 1, end)
<1>1. last \in Int /\ start \in Nat /\ last = start + s /\ Len(q) \in Nat /\ last - s + 1 = start + 1
  <2>1. start \in Int /\ start >= 0
    BY Z3
  <2>2. last \in Int /\ last = start + s
    BY Z3
  <2> HIDE DEF last, start
  <2> QED
    BY <2>1, <2>2
<1>2. shown = SubSeq(q, start + 1, end)
  BY <1>1
<1> HIDE DEF last, start, shown
<1>3. end \in Nat /\ end <= Len(q)
  BY <1>1
<1> HIDE DEF end
<1>4. DOMAIN shown = 1 .. (1 + end - (start + 1))
  BY <1>1, <1>2, <1>3
<1>5. m \in Nat /\ 1 .. (1 + end - (start + 1)) = 1 .. m
  BY <1>1, <1>3
<1>6. ASSUME NEW k \in 1 .. m
      PROVE  start + k \in 1 .. Len(q) /\ shown[k] = q[start + k]
  <2>1. start + k \in 1 .. Len(q)
    BY <1>1, <1>3
  <2>2. shown[k] = q[k + (start + 1) - 1]
    BY <1>1, <1>2, <1>3, <1>4, <1>5
  <2> QED
    BY <1>1, <2>1, <2>2
<1>7. ASSUME start < Len(q) PROVE 1 \in 1 .. m
  BY <1>1, <1>7 DEF end
<1> HIDE DEF m
<1> QED
  BY <1>1, <1>4, <1>5, <1>6, <1>7 DEF shown, end, last, start, PieceOf, PieceIsThere

LEMMA NothingPasses ==
  ASSUME List!ListTypeOK, rows # None, List!Passing = {}
  PROVE  List!filtered = << >>
<1>1. Cardinality({}) = 0
  BY FS_EmptySet
<1>2. List!filtered \in Seq(List!Row) /\ Len(List!filtered) = 0
  BY <1>1, FilteredRows
<1> QED
  BY <1>2

(* Only a page that can be drawn is counted.                               *)
LEMMA PagesType == List!ListTypeOK /\ rows # None => List!totalPages \in Nat \ {0} /\ List!safePage \in Nat \ {0}
<1> SUFFICES ASSUME List!ListTypeOK, rows # None
             PROVE  List!totalPages \in Nat \ {0} /\ List!safePage \in Nat \ {0}
  OBVIOUS
<1> DEFINE f == List!filtered
<1>1. f \in Seq(List!Row) /\ PageSize \in Nat \ {0} /\ url.page \in Nat \ {0}
  BY FilteredRows, ListConstants DEF List!ListTypeOK
<1>2. List!totalPages =
        IF kind \in {"jobs", "callers"} \/ f = << >> THEN 1 ELSE (Len(f) + PageSize - 1) \div PageSize
  BY DEF List!totalPages
<1> HIDE DEF f
<1>3. f # << >> => Len(f) \in Nat \ {0}
  BY <1>1
<1>4. List!totalPages \in Nat \ {0}
  <2>1. CASE kind \in {"jobs", "callers"} \/ f = << >>
    BY <1>2, <2>1
  <2>2. CASE ~(kind \in {"jobs", "callers"} \/ f = << >>)
    BY <1>1, <1>2, <1>3, <2>2, PagesNeeded
  <2> QED
    BY <2>1, <2>2
<1> QED
  BY <1>1, <1>4 DEF List!safePage

(* What is on a page is a piece of all the rows.                           *)
LEMMA PaginatedRows ==
  ASSUME List!ListTypeOK, rows # None
  PROVE  \E s, m \in Nat :
           /\ DOMAIN List!paginated = 1 .. m
           /\ \A k \in 1 .. m :
                s + k \in 1 .. Len(List!filtered) /\ List!paginated[k] = List!filtered[s + k]
<1>1. List!filtered \in Seq(List!Row) /\ PageSize \in Nat \ {0} /\ List!safePage \in Nat \ {0}
  BY FilteredRows, ListConstants, PagesType
<1>2. CASE kind \in {"jobs", "callers"}
  <2>1. List!paginated = List!filtered
    BY <1>2 DEF List!paginated
  <2>2. Len(List!filtered) \in Nat /\ DOMAIN List!filtered = 1 .. Len(List!filtered)
    BY <1>1
  <2>3. \A k \in 1 .. Len(List!filtered) : 0 + k \in 1 .. Len(List!filtered) /\ List!paginated[k] = List!filtered[0 + k]
    BY <2>1, <2>2
  <2> QED
    BY <2>1, <2>2, <2>3
<1>3. CASE kind \notin {"jobs", "callers"}
  <2> DEFINE q == List!filtered
             p == List!safePage
             s == (p - 1) * PageSize
  <2>1. List!paginated = PieceOf(q, PageSize, p)
    BY <1>3 DEF List!paginated, PieceOf
  <2>2. q \in Seq(List!Row) /\ p \in Nat \ {0}
    BY <1>1
  <2> HIDE DEF q, p
  <2>3. PageSize \in Nat \ {0}
    BY <1>1
  <2>4. PieceIsThere(q, PageSize, p)
    BY <2>2, <2>3, PageOfRows
  <2>5. /\ s \in Nat
        /\ \E m \in Nat : /\ DOMAIN PieceOf(q, PageSize, p) = 1 .. m
                         /\ \A k \in 1 .. m : s + k \in 1 .. Len(q) /\ PieceOf(q, PageSize, p)[k] = q[s + k]
    BY <2>4 DEF PieceIsThere
  <2> HIDE DEF s
  <2> QED
    BY <2>1, <2>5 DEF q
<1> QED
  BY <1>2, <1>3

LEMMA EnvironmentsOnce == List!ListTypeOK => List!GroupsWhole
<1> SUFFICES ASSUME List!ListTypeOK, rows # None, NEW i \in List!Headed(List!paginated),
                    NEW j \in List!Headed(List!paginated), List!paginated[i].env = List!paginated[j].env, i # j
             PROVE  FALSE
  BY DEF List!GroupsWhole
<1>1. PICK s \in Nat, m \in Nat :
        /\ DOMAIN List!paginated = 1 .. m
        /\ \A k \in 1 .. m :
             s + k \in 1 .. Len(List!filtered) /\ List!paginated[k] = List!filtered[s + k]
  BY PaginatedRows
<1>2. i \in 1 .. m /\ j \in 1 .. m /\ List!groupByEnv
  BY <1>1 DEF List!Headed
<1>3. \A k \in List!Headed(List!paginated) : k = 1 \/ List!paginated[k].env # List!paginated[k - 1].env
  BY DEF List!Headed
<1>4. \A k \in 1 .. Len(List!filtered) : Orderly(List!filtered[k])
  BY FilteredRows, PassingOrderly
<1>5. ASSUME NEW x \in 1 .. m, NEW y \in 1 .. m, x <= y
      PROVE  /\ Orderly(List!paginated[x]) /\ Orderly(List!paginated[y])
             /\ Grouping(List!paginated[x], List!paginated[y]) <= 0
  <2>1. /\ s + x \in 1 .. Len(List!filtered) /\ s + y \in 1 .. Len(List!filtered)
        /\ List!paginated[x] = List!filtered[s + x] /\ List!paginated[y] = List!filtered[s + y]
    BY <1>1
  <2>2. Orderly(List!paginated[x]) /\ Orderly(List!paginated[y])
    BY <1>4, <2>1
  <2>3. CASE x = y
    <3>1. Grouping(List!paginated[x], List!paginated[y]) = 0
      BY <2>2, <2>3, GroupingIsOne
    <3> QED
      BY <2>2, <3>1
  <2>4. CASE x < y
    <3>1. s + x < s + y
      BY <2>4
    <3>2. List!Order(List!paginated[x], List!paginated[y]) <= 0
      BY <2>1, <3>1, FilteredRows
    <3> QED
      BY <2>2, <3>2, OrderIsOne
  <2> QED
    BY <1>5, <2>3, <2>4
<1>6. ASSUME NEW x \in 1 .. m, NEW y \in 1 .. m, x < y,
             List!paginated[x].env = List!paginated[y].env
      PROVE  List!paginated[y - 1].env = List!paginated[y].env
  <2> DEFINE a == List!paginated[x]
             b == List!paginated[y - 1]
             c == List!paginated[y]
  <2>1. y - 1 \in 1 .. m /\ x <= y - 1 /\ y - 1 <= y
    BY <1>6
  <2>2. /\ Orderly(a) /\ Orderly(b) /\ Orderly(c)
        /\ Grouping(a, b) <= 0 /\ Grouping(b, c) <= 0
    BY <1>5, <2>1
  <2>3. a.env = c.env
    BY <1>6
  <2> HIDE DEF a, b, c
  <2>4. Grouping(a, c) = 0 /\ Grouping(b, c) \in Int
    BY <2>2, <2>3, GroupingIsOne
  <2>5. Grouping(b, c) = 0
    BY <2>2, <2>4, GroupingIsOne
  <2>6. b.env = c.env
    BY <1>2, <2>2, <2>5, GroupingIsOne
  <2> QED
    BY <2>6 DEF b, c
<1>7. CASE i < j
  <2>1. List!paginated[j - 1].env = List!paginated[j].env /\ j # 1
    BY <1>2, <1>6, <1>7
  <2> QED
    BY <1>3, <2>1
<1>8. CASE j < i
  <2>1. List!paginated[i - 1].env = List!paginated[i].env /\ i # 1
    BY <1>2, <1>6, <1>8
  <2> QED
    BY <1>3, <2>1
<1> QED
  BY <1>2, <1>7, <1>8

(* A page that exists has rows.                                            *)
Lasting == kind \notin {"jobs", "callers", "namespace"} => url.page <= List!totalPages

LEMMA PageShows ==
  List!ListTypeOK /\ rows # None /\ List!filtered # << >> /\ Lasting => List!paginated # << >>
<1> SUFFICES ASSUME List!ListTypeOK, rows # None, List!filtered # << >>, Lasting
             PROVE  List!paginated # << >>
  OBVIOUS
<1>1. CASE kind \in {"jobs", "callers"}
  BY <1>1 DEF List!paginated
<1>2. CASE kind \notin {"jobs", "callers"}
  <2> DEFINE q == List!filtered
             p == List!safePage
             n == List!totalPages
  <2>1. List!paginated = PieceOf(q, PageSize, p)
    BY <1>2 DEF List!paginated, PieceOf
  <2>2. q \in Seq(List!Row) /\ p \in Nat \ {0} /\ PageSize \in Nat \ {0} /\ n \in Nat \ {0}
    BY FilteredRows, PagesType, ListConstants
  <2>3. n = (Len(q) + PageSize - 1) \div PageSize
    BY <1>2 DEF List!totalPages
  <2>4. p <= n
    <3>1. url.page \in Nat
      BY ListConstants DEF List!ListTypeOK
    <3> QED
      BY <1>2, <2>2, <3>1 DEF List!safePage, Lasting
  <2>5. q # << >>
    OBVIOUS
  <2> HIDE DEF q, p, n
  <2>6. Len(q) \in Nat \ {0}
    BY <2>2, <2>5
  <2>7. p \in 1 .. (Len(q) + PageSize - 1) \div PageSize
    BY <2>2, <2>3, <2>4
  <2>8. (p - 1) * PageSize < Len(q)
    BY <2>2, <2>6, <2>7, PagesNeeded
  <2>9. PieceIsThere(q, PageSize, p)
    BY <2>2, PageOfRows
  <2>10. 1 \in DOMAIN PieceOf(q, PageSize, p)
    BY <2>8, <2>9 DEF PieceIsThere
  <2> QED
    BY <2>1, <2>10
<1> QED
  BY <1>1, <1>2

LEMMA NoneOrGone ==
  ASSUME List!ListTypeOK, rows # None, List!paginated = << >>
  PROVE  List!filtered = << >> \/ url.page > List!totalPages
<1> SUFFICES ASSUME List!filtered # << >>
             PROVE  url.page > List!totalPages
  OBVIOUS
<1>1. ~Lasting
  BY PageShows
<1>2. List!totalPages \in Nat /\ url.page \in Nat
  BY PagesType, ListConstants DEF List!ListTypeOK
<1> QED
  BY <1>1, <1>2 DEF Lasting

(* A list is never blank and never wrong about there being nothing.        *)
LEMMA EmptyTrue == List!ListTypeOK => List!EmptyIsTrue
<1> SUFFICES ASSUME List!ListTypeOK PROVE List!EmptyIsTrue
  OBVIOUS
<1>1. detected \in BOOLEAN /\ failed \in BOOLEAN
  BY DEF List!ListTypeOK
<1>2. ASSUME rows = << >>
      PROVE  rows # None /\ List!filtered = << >>
  <2>1. rows # None
    BY <1>2, ListConstants
  <2>2. List!Passing = {}
    BY <1>2 DEF List!Passing
  <2> QED
    BY <2>1, <2>2, NothingPasses
<1>3. CASE kind = "services"
  <2>1. List!Shows = List!InventoryShows
    BY <1>3 DEF List!Shows
  <2>2. List!InventoryShows # {}
    BY <1>1 DEF List!InventoryShows, List!Loading, List!FiltersShown
  <2>3. "no services" \in List!InventoryShows => rows = << >> /\ detected
    BY DEF List!InventoryShows, List!TableShown, List!FooterShown, List!FavouritesNote
  <2>4. "empty" \notin List!InventoryShows /\ "no jobs" \notin List!InventoryShows
    BY DEF List!InventoryShows, List!TableShown, List!FooterShown, List!FavouritesNote
  <2>5. ASSUME NEW note \in {"no favourites yet", "no favourites match"}, note \in List!InventoryShows
        PROVE  /\ rows # None /\ List!paginated = << >> /\ url.favsOnly
               /\ note = List!FavouritesNote
    BY <2>5 DEF List!InventoryShows, List!TableShown, List!FooterShown, List!SomeRows, List!FavouritesNote
  <2>6. "no favourites yet" \in List!InventoryShows => rows # None /\ List!filtered = << >>
    <3> SUFFICES ASSUME "no favourites yet" \in List!InventoryShows
                 PROVE  rows # None /\ List!filtered = << >>
      OBVIOUS
    <3>1. rows # None /\ url.favsOnly /\ favs = {}
      BY <2>5 DEF List!FavouritesNote
    <3>2. List!Passing = {}
      BY <3>1 DEF List!Passing, List!Passes
    <3> QED
      BY <3>1, <3>2, NothingPasses
  <2>7. "no favourites match" \in List!InventoryShows => List!filtered = << >> \/ url.page > List!totalPages
    BY <2>5, NoneOrGone, Zenon
  <2>8. ASSUME NEW note \in {"empty", "no services", "no jobs", "no favourites yet"},
               note \in List!InventoryShows
        PROVE  rows # None /\ List!filtered = << >>
    BY <1>2, <2>3, <2>4, <2>6, <2>8
  <2> QED
    BY <2>1, <2>2, <2>7, <2>8 DEF List!EmptyIsTrue
<1>4. CASE kind = "jobs"
  <2>1. List!Shows = List!DataState(~detected, {"filters"} \cup List!JobsTable)
    BY <1>4 DEF List!Shows, List!JobsShows
  <2>2. List!Shows # {}
    BY <2>1 DEF List!DataState
  <2>3. "no jobs" \in List!Shows => ~failed /\ ~List!Loading /\ List!filtered = << >>
    BY <2>1 DEF List!DataState, List!JobsTable
  <2>4. "empty" \in List!Shows => ~failed /\ ~List!Loading /\ ~detected
    BY <2>1 DEF List!DataState, List!JobsTable
  <2>5. List!Shows \cap {"no services", "no favourites yet", "no favourites match"} = {}
    BY <2>1 DEF List!DataState, List!JobsTable
  <2> QED
    BY <2>2, <2>3, <2>4, <2>5 DEF List!EmptyIsTrue, List!Loading
<1>5. CASE kind = "namespace"
  <2> DEFINE notes == {"empty", "no services", "no jobs", "no favourites yet", "no favourites match"}
             empty == rows # None /\ List!InNamespace = {}
             content == {"stats", "table"} \cup
                        (IF \E r \in List!InNamespace : r.err THEN {"needs attention"} ELSE {})
  <2>1. List!Shows = List!DataState(empty, content)
    BY <1>5 DEF List!Shows, List!NamespaceShows
  <2>2. content # {} /\ content \cap notes = {}
    OBVIOUS
  <2>3. empty => rows # None /\ List!filtered = << >>
    <3> SUFFICES ASSUME empty PROVE rows # None /\ List!filtered = << >>
      OBVIOUS
    <3>1. \A k \in DOMAIN rows : rows[k].sidecar \/ ~(url.env # {} => rows[k].env \in url.env)
      BY DEF List!Range, List!InNamespace
    <3>2. List!Passing = {}
      BY <1>5, <3>1 DEF List!Passing, List!Passes
    <3> QED
      BY <3>2, NothingPasses
  <2> HIDE DEF empty, content
  <2>4. List!Shows # {}
    BY <2>1, <2>2 DEF List!DataState
  <2>5. /\ List!Shows \cap notes # {} => empty
        /\ "no favourites match" \notin List!Shows
    BY <2>1, <2>2 DEF List!DataState
  <2> QED
    BY <2>3, <2>4, <2>5 DEF List!EmptyIsTrue
<1>6. CASE kind \notin {"services", "jobs", "namespace"}
  <2>1. List!Shows = List!DataState(FALSE, {"table"})
    BY <1>6 DEF List!Shows
  <2>2. /\ List!Shows # {}
        /\ List!Shows \cap {"empty", "no services", "no jobs", "no favourites yet", "no favourites match"} = {}
    BY <2>1 DEF List!DataState
  <2> QED
    BY <2>2 DEF List!EmptyIsTrue
<1> QED
  BY <1>3, <1>4, <1>5, <1>6

(* A page that does not exist has none.                                    *)
LEMMA PageGone ==
  List!ListTypeOK /\ rows # None /\ List!filtered # << >> /\ ~Lasting => List!paginated = << >>
<1> SUFFICES ASSUME List!ListTypeOK, rows # None, List!filtered # << >>, ~Lasting
             PROVE  List!paginated = << >>
  OBVIOUS
<1> DEFINE q == List!filtered
           p == List!safePage
           n == List!totalPages
<1>1. List!paginated = PieceOf(q, PageSize, p)
  BY DEF List!paginated, PieceOf, Lasting
<1>2. q \in Seq(List!Row) /\ p \in Nat \ {0} /\ PageSize \in Nat \ {0} /\ n \in Nat \ {0}
  BY FilteredRows, PagesType, ListConstants
<1>3. n = (Len(q) + PageSize - 1) \div PageSize
  BY DEF List!totalPages, Lasting
<1>4. n < p
  <2>1. url.page \in Nat
    BY ListConstants DEF List!ListTypeOK
  <2> QED
    BY <1>2, <2>1 DEF List!safePage, Lasting
<1>5. q # << >>
  OBVIOUS
<1> HIDE DEF q, p, n
<1>6. Len(q) \in Nat \ {0}
  BY <1>2, <1>5
<1>7. Len(q) <= n * PageSize
  BY <1>2, <1>3, <1>6, PagesNeeded
<1>8. Len(q) <= (p - 1) * PageSize /\ (p - 1) * PageSize \in Nat
  <2>1. n * PageSize <= (p - 1) * PageSize
    BY <1>2, <1>4
  <2>2. n * PageSize \in Nat /\ (p - 1) * PageSize \in Nat
    BY <1>2, <1>4
  <2> QED
    BY <1>6, <1>7, <2>1, <2>2
<1>9. PieceOf(q, PageSize, p) = << >>
  <2> DEFINE start == p * PageSize
  <2>1. start \in Nat /\ start = (p - 1) * PageSize + PageSize
    BY <1>2
  <2> HIDE DEF start
  <2>2. start > Len(q) /\ start - PageSize + 1 > Len(q) /\ start - PageSize + 1 \in Int
    BY <1>2, <1>6, <1>8, <2>1
  <2>3. \A a \in Int : a > Len(q) => SubSeq(q, a, Len(q)) = << >>
    BY <1>2, <1>6
  <2>4. PieceOf(q, PageSize, p) = SubSeq(q, start - PageSize + 1, Len(q))
    BY <2>2 DEF PieceOf, start
  <2> QED
    BY <2>2, <2>3, <2>4
<1> QED
  BY <1>1, <1>9

LEMMA FilteredLength ==
  List!ListTypeOK /\ rows # None =>
    /\ List!filtered \in Seq(List!Row)
    /\ Len(List!filtered) = Cardinality(List!Passing)
BY FilteredRows

(* What passes the filters does not depend on the page, nor on favourites  *)
(* while they are not asked for.                                           *)
LEMMA PassingStays ==
  ASSUME UNCHANGED <<kind, rows>>, favs' = favs \/ ~url.favsOnly,
         url'.ns = url.ns, url'.env = url.env, url'.q = url.q, url'.sidecars = url.sidecars,
         url'.favsOnly = url.favsOnly, url'.errsOnly = url.errsOnly
  PROVE  List!Passing' = List!Passing
BY DEF List!Passing, List!Passes, List!Searching, List!Matches

LEMMA SameTotal ==
  ASSUME List!ListTypeOK, List!ListTypeOK', rows # None, UNCHANGED <<kind, rows>>,
         List!Passing' = List!Passing
  PROVE  /\ List!totalPages' = List!totalPages
         /\ List!filtered' = << >> <=> List!filtered = << >>
<1>1. (List!ListTypeOK /\ rows # None =>
         /\ List!filtered \in Seq(List!Row)
         /\ Len(List!filtered) = Cardinality(List!Passing))'
  BY FilteredLength, PTL
<1>2. /\ List!filtered \in Seq(List!Row) /\ List!filtered' \in Seq(List!Row)
      /\ Len(List!filtered') = Len(List!filtered)
  BY <1>1, FilteredLength
<1>3. List!filtered' = << >> <=> List!filtered = << >>
  BY <1>2
<1> QED
  BY <1>2, <1>3 DEF List!totalPages

(* A step that keeps what passes keeps rows on the page, if it leads to a  *)
(* page that is there.                                                     *)
LEMMA Staying ==
  ASSUME List!ListTypeOK, List!ListTypeOK', rows # None, UNCHANGED <<kind, rows>>,
         List!Passing' = List!Passing, Lasting => Lasting', ~List!Stranded
  PROVE  ~List!Stranded'
<1>1. List!filtered' = << >> <=> List!filtered = << >>
  BY SameTotal
<1>2. List!filtered # << >> => Lasting
  BY PageGone DEF List!Stranded
<1>3. (List!ListTypeOK /\ rows # None /\ List!filtered # << >> /\ Lasting => List!paginated # << >>)'
  BY PageShows, PTL
<1> QED
  BY <1>1, <1>2, <1>3 DEF List!Stranded

LEMMA PageOne ==
  ASSUME NEW u \in UrlType, NEW p \in 1 .. MaxPage
  PROVE  /\ [u EXCEPT !.page = p].page = p
         /\ \A x : [u EXCEPT !.ns = x, !.page = p].page = p
         /\ \A x : [u EXCEPT !.env = x, !.page = p].page = p
         /\ \A x : [u EXCEPT !.q = x, !.page = p].page = p
         /\ \A x : [u EXCEPT !.favsOnly = x, !.page = p].page = p
         /\ \A x : [u EXCEPT !.sidecars = x, !.page = p].page = p
         /\ \A x : [u EXCEPT !.errsOnly = x, !.page = p].page = p
         /\ \A x : [u EXCEPT !.dir = x, !.page = p].page = p
         /\ \A x, y : [u EXCEPT !.field = x, !.page = p, !.dir = y].page = p
BY DEF UrlType

(* A filter leads to the first page.                                       *)
LEMMA FilterLeads ==
  ASSUME List!ListTypeOK, List!Filter
  PROVE  /\ UNCHANGED <<kind, rows>>
         /\ kind \in {"jobs", "callers", "namespace"} \/ url'.page = 1
<1>u. url \in UrlType /\ 1 \in 1 .. MaxPage
  BY UrlTyped, ListConstants
<1>1. ASSUME NEW s \in NsPicks, List!setNsFilters(s) PROVE UNCHANGED <<kind, rows>> /\ url'.page = 1
  BY <1>1, <1>u, PageOne DEF List!setNsFilters, List!updateParams
<1>2. ASSUME NEW s \in EnvPicks, List!setEnvFilters(s) PROVE UNCHANGED <<kind, rows>> /\ url'.page = 1
  BY <1>2, <1>u, PageOne DEF List!setEnvFilters, List!updateParams
<1>3. ASSUME NEW q \in Queries \cup {None}, List!setSearch(q) PROVE UNCHANGED <<kind, rows>> /\ url'.page = 1
  BY <1>3, <1>u, PageOne DEF List!setSearch, List!updateParams
<1>4. ASSUME List!setShowFavorites PROVE UNCHANGED <<kind, rows>> /\ url'.page = 1
  BY <1>4, <1>u, PageOne DEF List!setShowFavorites, List!updateParams
<1>5. ASSUME List!setHideSidecars PROVE UNCHANGED <<kind, rows>> /\ url'.page = 1
  BY <1>5, <1>u, PageOne DEF List!setHideSidecars, List!updateParams
<1>6. ASSUME List!setErrorsOnly PROVE UNCHANGED <<kind, rows>> /\ (kind = "namespace" \/ url'.page = 1)
  <2>1. CASE kind = "namespace"
    BY <1>6, <2>1 DEF List!setErrorsOnly, List!updateParams
  <2>2. CASE kind # "namespace"
    <3>1. url' = [url EXCEPT !.errsOnly = ~@, !.page = 1] /\ UNCHANGED <<kind, rows>>
      BY <1>6, <2>2 DEF List!setErrorsOnly, List!updateParams
    <3> QED
      BY <1>u, <3>1, PageOne
  <2> QED
    BY <2>1, <2>2
<1>8. ASSUME NEW f \in List!Fields, List!toggleSort(f) PROVE UNCHANGED <<kind, rows>> /\ url'.page = 1
  BY <1>8, <1>u, PageOne DEF List!toggleSort, List!updateParams
<1>9. ASSUME NEW f \in List!Fields, List!toggleTableSort(f)
      PROVE  UNCHANGED <<kind, rows>> /\ kind \in {"namespace", "callers"}
  BY <1>9 DEF List!toggleTableSort, List!updateParams
<1> QED
  BY <1>1, <1>2, <1>3, <1>4, <1>5, <1>6, <1>8, <1>9 DEF List!Filter

(* The pager leads from a page that exists to one that does.               *)
LEMMA PagerLeads ==
  ASSUME List!ListTypeOK, List!ListTypeOK', rows # None, List!Pager
  PROVE  /\ UNCHANGED <<kind, rows>> /\ List!Passing' = List!Passing
         /\ Lasting => Lasting'
<1>1. PICK p \in 1 .. MaxPage : List!setPage(p)
  BY DEF List!Pager
<1>2. UNCHANGED <<kind, rows, favs>> /\ url' = [url EXCEPT !.page = p] /\ p \in List!Pagination
  BY <1>1 DEF List!setPage, List!updateParams
<1>3. url \in UrlType
  BY UrlTyped
<1>4. /\ url'.page = p
      /\ url'.ns = url.ns /\ url'.env = url.env /\ url'.q = url.q /\ url'.sidecars = url.sidecars
      /\ url'.favsOnly = url.favsOnly /\ url'.errsOnly = url.errsOnly
  BY <1>2, <1>3 DEF UrlType
<1>5. List!Passing' = List!Passing
  BY <1>2, <1>4, PassingStays
<1>6. List!totalPages' = List!totalPages
  BY <1>2, <1>5, SameTotal
<1>7. ASSUME kind \notin {"jobs", "callers", "namespace"}, url.page <= List!totalPages
      PROVE  p <= List!totalPages
  <2>1. List!safePage = url.page /\ List!totalPages \in Nat \ {0} /\ url.page \in Nat
    BY <1>7, PagesType, ListConstants DEF List!safePage, List!ListTypeOK
  <2> QED
    BY <1>2, <1>7, <2>1 DEF List!Pagination
<1> QED
  BY <1>2, <1>4, <1>5, <1>6, <1>7 DEF Lasting

LEMMA ControlsKeepList ==
  List!ListTypeOK /\ [List!Next]_listVars =>
    /\ rows # None /\ List!Filter => ~List!Stranded'
    /\ rows # None /\ List!Pager => (List!Stranded' => List!Stranded)
    /\ ~url.favsOnly /\ (\E n \in List!Names : List!toggleFavorite(n)) =>
         (List!Stranded' => List!Stranded)
<1> SUFFICES ASSUME List!ListTypeOK, [List!Next]_listVars
             PROVE  /\ rows # None /\ List!Filter => ~List!Stranded'
                    /\ rows # None /\ List!Pager => (List!Stranded' => List!Stranded)
                    /\ ~url.favsOnly /\ (\E n \in List!Names : List!toggleFavorite(n)) =>
                         (List!Stranded' => List!Stranded)
  OBVIOUS
<1>1. List!ListTypeOK'
  BY ListStep
<1>2. (List!ListTypeOK /\ rows # None => List!totalPages \in Nat \ {0} /\ List!safePage \in Nat \ {0})'
  BY PagesType, PTL
<1>3. (List!ListTypeOK /\ rows # None /\ List!filtered # << >> /\ Lasting => List!paginated # << >>)'
  BY PageShows, PTL
<1>4. ASSUME rows # None, List!Filter
      PROVE  ~List!Stranded'
  <2>1. UNCHANGED <<kind, rows>> /\ (kind \in {"jobs", "callers", "namespace"} \/ url'.page = 1)
    BY <1>4, FilterLeads
  <2>2. Lasting'
    BY <1>1, <1>2, <1>4, <2>1 DEF Lasting
  <2> QED
    BY <1>1, <1>3, <1>4, <2>1, <2>2 DEF List!Stranded
<1>5. ASSUME rows # None, List!Pager, ~List!Stranded
      PROVE  ~List!Stranded'
  BY <1>1, <1>5, PagerLeads, Staying
<1>6. ASSUME ~url.favsOnly, NEW n \in List!Names, List!toggleFavorite(n), ~List!Stranded
      PROVE  ~List!Stranded'
  <2>1. UNCHANGED <<kind, rows, url>>
    BY <1>6 DEF List!toggleFavorite
  <2>2. CASE rows = None
    BY <2>1, <2>2 DEF List!Stranded
  <2>3. CASE rows # None
    <3>1. List!Passing' = List!Passing
      BY <1>6, <2>1, PassingStays
    <3>2. List!totalPages' = List!totalPages
      BY <1>1, <2>1, <2>3, <3>1, SameTotal
    <3>3. Lasting => Lasting'
      BY <2>1, <3>2 DEF Lasting
    <3> QED
      BY <1>1, <1>6, <2>1, <2>3, <3>1, <3>3, Staying
  <2> QED
    BY <2>2, <2>3
<1> QED
  BY <1>4, <1>5, <1>6

-----------------------------------------------------------------------------
(* The tables of the server tab.                                           *)

LEMMA TableCounts == ASSUME NEW S PROVE Table!Cardinality(S) = Cardinality(S)
BY Zenon DEF Table!Cardinality, Cardinality

LEMMA TableConstants ==
  /\ IsFiniteSet(Rows)
  /\ \A r \in Rows : r.id \in Int /\ r.name \in Int /\ r.rate \in Int /\ r.errorRate \in Int \cup {None}
  /\ \A r, s \in Rows : r.id = s.id => r = s
  /\ TableSize \in Nat \ {0}
<1>1. Table!ConstantsOK
  BY PagesAssumption
<1>2. IsFiniteSet(Rows)
  BY <1>1 DEF Table!ConstantsOK, Table!IsFiniteSet, IsFiniteSet
<1> QED
  BY <1>1, <1>2 DEF Table!ConstantsOK

SortType == [field : Table!Fields, dir : {"asc", "desc"}]

TableTyped ==
  /\ tableRows \in SUBSET Rows /\ sort \in SortType
  /\ search \in Searches \cup {None} /\ tablePage \in Nat

(* Any two rows of a table have an order, and no three go in a circle.     *)
TableBefore == {p \in Rows \X Rows : Table!Before(p[1], p[2])}

LEMMA SortValueType ==
  ASSUME TableTyped, NEW r \in Rows
  PROVE  Table!SortValue(r) \in Int /\ r.id \in Int
BY TableConstants DEF TableTyped, SortType, Table!Fields, Table!SortValue

LEMMA TableStrict ==
  ASSUME TableTyped, NEW S \in SUBSET Rows
  PROVE  StrictOrder(TableBefore, S)
<1>1. \A x, y \in Rows : <<x, y>> \in TableBefore <=> Table!Before(x, y)
  BY DEF TableBefore
<1>2. \A x \in Rows : Table!SortValue(x) \in Int /\ x.id \in Int
  BY SortValueType
<1>3. \A x, y \in Rows : x.id = y.id => x = y
  BY TableConstants
<1>4. \A x \in S : <<x, x>> \notin TableBefore
  BY <1>1, <1>2 DEF Table!Before
<1>5. \A x, y, z \in S : <<x, y>> \in TableBefore /\ <<y, z>> \in TableBefore => <<x, z>> \in TableBefore
  BY <1>1, <1>2 DEF Table!Before
<1>6. \A x, y \in S : x # y => <<x, y>> \in TableBefore \/ <<y, x>> \in TableBefore
  BY <1>1, <1>2, <1>3 DEF Table!Before
<1> QED
  BY <1>4, <1>5, <1>6 DEF StrictOrder

LEMMA TableFiltered ==
  ASSUME TableTyped
  PROVE  /\ Table!filtered \in SUBSET Rows /\ IsFiniteSet(Table!filtered)
         /\ Cardinality(Table!filtered) \in Nat
         /\ Table!filtered # {} => Cardinality(Table!filtered) \in Nat \ {0}
         /\ \A r \in Table!filtered : Table!sorted(r) = Place(Table!filtered, TableBefore, r)
<1>1. Table!filtered \in SUBSET Rows
  BY DEF TableTyped, Table!filtered
<1>2. IsFiniteSet(Table!filtered)
  BY <1>1, TableConstants, FS_Subset
<1>3. Cardinality(Table!filtered) \in Nat
  BY <1>2, FS_CardinalityType
<1>4. Table!filtered # {} => Cardinality(Table!filtered) # 0
  BY <1>2, FS_EmptySet
<1>5. ASSUME NEW r \in Table!filtered
      PROVE  Table!sorted(r) = Place(Table!filtered, TableBefore, r)
  <2>1. {x \in Table!filtered : Table!Before(x, r)} = {x \in Table!filtered : <<x, r>> \in TableBefore}
    BY <1>1 DEF TableBefore
  <2> QED
    BY <2>1, TableCounts DEF Table!sorted, Place
<1> QED
  BY <1>1, <1>2, <1>3, <1>4, <1>5

LEMMA TablePages ==
  ASSUME TableTyped, Table!filtered # {}
  PROVE  /\ Table!totalPages = (Cardinality(Table!filtered) + TableSize - 1) \div TableSize
         /\ Table!totalPages \in Nat \ {0}
         /\ Cardinality(Table!filtered) <= Table!totalPages * TableSize
<1>1. Table!totalPages = (Cardinality(Table!filtered) + TableSize - 1) \div TableSize
  BY TableCounts DEF Table!totalPages
<1>2. Cardinality(Table!filtered) \in Nat \ {0} /\ TableSize \in Nat \ {0}
  BY TableFiltered, TableConstants
<1> QED
  BY <1>1, <1>2, PagesNeeded

(* The pages of a table hold each matching row once.                       *)
LEMMA PagesAreWhole == TableTyped => Table!PagesCover
<1> SUFFICES ASSUME TableTyped PROVE Table!PagesCover
  OBVIOUS
<1> DEFINE F == Table!filtered
<1>1. /\ F \in SUBSET Rows /\ IsFiniteSet(F) /\ Cardinality(F) \in Nat
      /\ \A r \in F : Table!sorted(r) = Place(F, TableBefore, r)
  BY TableFiltered
<1>2. StrictOrder(TableBefore, F)
  BY <1>1, TableStrict
<1>3. ASSUME NEW r \in F
      PROVE  Table!sorted(r) \in 0 .. (Table!totalPages * TableSize - 1)
  <2>1. Table!sorted(r) \in 0 .. Cardinality(F) - 1
    BY <1>1, <1>2, PlaceType
  <2>2. /\ Table!totalPages \in Nat \ {0} /\ TableSize \in Nat \ {0}
        /\ Cardinality(F) <= Table!totalPages * TableSize
    BY TablePages, TableConstants
  <2>3. Table!totalPages * TableSize \in Int
    BY <2>2
  <2> QED
    BY <1>1, <2>1, <2>2, <2>3
<1>4. ASSUME NEW r \in F, NEW s \in F, Table!sorted(r) = Table!sorted(s)
      PROVE  r = s
  BY <1>1, <1>2, <1>4, PlaceOnce
<1> QED
  BY <1>3, <1>4 DEF Table!PagesCover

LEMMA TotalType == ASSUME TableTyped PROVE Table!totalPages \in Int
<1>1. Cardinality(Table!filtered) \in Nat /\ TableSize \in Nat \ {0}
  BY TableFiltered, TableConstants
<1>2. Table!totalPages = (Cardinality(Table!filtered) + TableSize - 1) \div TableSize
  BY TableCounts DEF Table!totalPages
<1>3. \A n \in Nat : \A s \in Nat \ {0} : (n + s - 1) \div s \in Int
  BY Z3
<1> QED
  BY <1>1, <1>2, <1>3

LEMMA TableInit == Table!Init => TableTyped
<1> SUFFICES ASSUME Table!Init PROVE TableTyped
  OBVIOUS
<1>1. /\ tableRows \in SUBSET Rows /\ sort = [field |-> "rate", dir |-> "desc"]
      /\ search = None /\ tablePage = 0
  BY DEF Table!Init
<1> QED
  BY <1>1 DEF TableTyped, SortType, Table!Fields

LEMMA SortStep ==
  ASSUME sort \in SortType, NEW f \in Table!Fields, Table!toggleSort(f)
  PROVE  sort' \in SortType
<1>1. CASE sort.field = f
  <2> DEFINE d == IF sort.dir = "asc" THEN "desc" ELSE "asc"
  <2>1. sort' = [sort EXCEPT !.dir = d]
    BY <1>1 DEF Table!toggleSort
  <2>2. d \in {"asc", "desc"}
    OBVIOUS
  <2> HIDE DEF d
  <2> QED
    BY <2>1, <2>2 DEF SortType
<1>2. CASE sort.field # f
  <2>1. sort' = [field |-> IF section.url THEN sort.field ELSE f, dir |-> "desc"]
    BY <1>2 DEF Table!toggleSort
  <2> QED
    BY <2>1 DEF SortType
<1> QED
  BY <1>1, <1>2

LEMMA TableStep == TableTyped /\ [Table!Next]_tableVars => TableTyped'
<1> SUFFICES ASSUME TableTyped, [Table!Next]_tableVars PROVE TableTyped'
  OBVIOUS
<1>0. Table!totalPages \in Int /\ tablePage \in Nat
  BY TotalType DEF TableTyped
<1>1. CASE Table!Search
  BY <1>1 DEF TableTyped, Table!Search, Table!onSearch
<1>2. CASE Table!Previous
  BY <1>2 DEF TableTyped, Table!Previous
<1>3. CASE Table!NextClicked
  <2>1. tablePage' \in Nat /\ UNCHANGED <<tableRows, sort, search>>
    BY <1>0, <1>3 DEF Table!NextClicked, Table!NextPage
  <2> QED
    BY <2>1 DEF TableTyped
<1>4. CASE Table!SortableHeader
  <2>1. PICK f \in Table!Fields : Table!toggleSort(f)
    BY <1>4 DEF Table!SortableHeader
  <2>2. sort' \in SortType
    BY <2>1, SortStep DEF TableTyped
  <2> QED
    BY <1>4, <2>2 DEF TableTyped, Table!SortableHeader
<1>5. CASE Table!setCollapsed
  BY <1>5 DEF TableTyped, Table!setCollapsed
<1>6. CASE Table!Follow
  <2>1. sort' \in SortType /\ tablePage' \in Nat /\ search' \in Searches \cup {None} /\ UNCHANGED tableRows
    BY <1>6 DEF Table!Follow, SortType
  <2> QED
    BY <2>1 DEF TableTyped
<1>7. CASE Table!Answer
  BY <1>7 DEF TableTyped, Table!Answer
<1>8. CASE UNCHANGED tableVars
  BY <1>8 DEF TableTyped, tableVars
<1> QED
  BY <1>1, <1>2, <1>3, <1>4, <1>5, <1>6, <1>7, <1>8 DEF Table!Next

LEMMA TableTypes == TableTyped => Table!TableTypeOK
<1> SUFFICES ASSUME TableTyped PROVE Table!TableTypeOK
  OBVIOUS
<1>1. Table!Table \subseteq tableRows
  BY DEF Table!Table, Table!GraphQLSection, Table!EndpointSection, Table!paged, Table!filtered
<1> QED
  BY <1>1 DEF TableTyped, Table!TableTypeOK, SortType

LEMMA WholePages == ASSUME NEW p \in Nat, NEW s \in Nat \ {0} PROVE (p * s) \div s = p
<1> DEFINE q == (p * s) \div s
           n == p * s
<1>1. n \in Int /\ n = s * p
  BY Z3
<1>2. q \in Int /\ s * q <= n /\ n < s * q + s
  <2> HIDE DEF n
  <2> QED
    BY <1>1, Z3
<1> HIDE DEF q, n
<1>3. s * (p - q) >= 0 /\ s * (p - q) < s
  <2>1. s * (p - q) = s * p - s * q
    BY <1>2
  <2> QED
    BY <1>1, <1>2, <2>1
<1>4. CASE p - q >= 1
  <2>1. s * (p - q) >= s
    BY <1>2, <1>4
  <2> QED
    BY <1>3, <2>1
<1>5. CASE p - q <= -1
  <2>1. s * (p - q) <= -s
    BY <1>2, <1>5
  <2> QED
    BY <1>2, <1>3, <2>1
<1> QED
  BY <1>2, <1>4, <1>5 DEF q, n

(* A page that exists has rows.                                            *)
TablePageThere == tablePage = 0 \/ tablePage < Table!totalPages

LEMMA TablePageShows ==
  TableTyped /\ Table!filtered # {} /\ TablePageThere => Table!paged # {}
<1> SUFFICES ASSUME TableTyped, Table!filtered # {}, TablePageThere
             PROVE  Table!paged # {}
  OBVIOUS
<1> DEFINE F == Table!filtered
           n == Cardinality(F)
           q == Table!totalPages
<1>1. CASE n <= TableSize
  BY <1>1, TableCounts DEF Table!paged
<1>2. CASE ~(n <= TableSize)
  <2>1. /\ IsFiniteSet(F) /\ F \in SUBSET Rows /\ n \in Nat \ {0} /\ TableSize \in Nat \ {0}
        /\ \A r \in F : Table!sorted(r) = Place(F, TableBefore, r)
    BY TableFiltered, TableConstants
  <2>2. q = (n + TableSize - 1) \div TableSize /\ q \in Nat \ {0}
    BY TablePages
  <2>3. StrictOrder(TableBefore, F)
    BY <2>1, TableStrict
  <2>4. Table!paged = {r \in F : Table!sorted(r) \div TableSize = tablePage}
    BY <1>2, TableCounts DEF Table!paged
  <2>5. tablePage \in Nat /\ tablePage < q
    BY <2>2 DEF TableTyped, TablePageThere
  <2> HIDE DEF F, n, q
  <2>6. tablePage + 1 \in 1 .. (n + TableSize - 1) \div TableSize
    BY <2>2, <2>5
  <2>7. ((tablePage + 1) - 1) * TableSize \in Nat /\ ((tablePage + 1) - 1) * TableSize < n
    <3>1. \A p \in 1 .. (n + TableSize - 1) \div TableSize : (p - 1) * TableSize \in Nat /\ (p - 1) * TableSize < n
      BY <2>1, PagesNeeded
    <3> QED
      BY <2>6, <3>1, Zenon
  <2>8. tablePage * TableSize \in Nat /\ tablePage * TableSize < n
    <3>1. (tablePage + 1) - 1 = tablePage
      BY <2>5
    <3> QED
      BY <2>7, <3>1
  <2> DEFINE k == tablePage * TableSize + 1
  <2>9. k \in 1 .. Cardinality(F) /\ k - 1 = tablePage * TableSize
    BY <2>1, <2>8 DEF n
  <2> HIDE DEF k
  <2>10. \E r \in F : Place(F, TableBefore, r) = tablePage * TableSize
    <3>1. \E r \in F : Place(F, TableBefore, r) = k - 1
      BY <2>1, <2>3, <2>9, PlaceTaken
    <3> QED
      BY <2>9, <3>1
  <2>11. (tablePage * TableSize) \div TableSize = tablePage
    BY <2>1, <2>5, WholePages
  <2>12. \E r \in F : Table!sorted(r) \div TableSize = tablePage
    BY <2>1, <2>10, <2>11
  <2> QED
    BY <2>4, <2>12
<1> QED
  BY <1>1, <1>2

LEMMA PlaceOfPage ==
  ASSUME NEW x \in Nat, NEW s \in Nat \ {0}, NEW p \in Nat, x < p * s
  PROVE  x \div s < p
<1> DEFINE q == x \div s
<1>1. q \in Int /\ s * q <= x
  BY Z3
<1> HIDE DEF q
<1>2. CASE q >= p
  <2>1. s * q >= s * p /\ s * p = p * s /\ s * q \in Int /\ s * p \in Int
    BY <1>1, <1>2
  <2> QED
    BY <1>1, <2>1
<1> QED
  BY <1>1, <1>2 DEF q

(* From a page with rows, a step that is no step beyond the last page      *)
(* leads to one.                                                           *)
LEMMA TableStays ==
  ASSUME TableTyped, TableTyped', UNCHANGED <<tableRows, search>>,
         tablePage' <= tablePage \/ tablePage' < Table!totalPages, Table!Stranded'
  PROVE  Table!Stranded
<1> DEFINE F == Table!filtered
           n == Cardinality(F)
           q == Table!totalPages
<1>1. Table!filtered' = F
  BY DEF Table!filtered
<1>2. Table!totalPages' = q
  BY <1>1 DEF Table!totalPages
<1>3. F # {} /\ Table!paged' = {}
  BY <1>1 DEF Table!Stranded
<1>4. (TableTyped /\ Table!filtered # {} /\ TablePageThere => Table!paged # {})'
  BY TablePageShows, PTL
<1>5. tablePage' # 0 /\ ~(tablePage' < q)
  BY <1>1, <1>2, <1>3, <1>4 DEF TablePageThere
<1>6. ~(n <= TableSize)
  BY <1>1, <1>3, TableCounts DEF Table!paged
<1>7. /\ n \in Nat \ {0} /\ TableSize \in Nat \ {0} /\ F \in SUBSET Rows /\ IsFiniteSet(F)
      /\ \A r \in F : Table!sorted(r) = Place(F, TableBefore, r)
      /\ q \in Nat \ {0} /\ n <= q * TableSize
  BY <1>3, TableFiltered, TablePages, TableConstants
<1>8. tablePage \in Nat /\ tablePage' \in Nat
  BY DEF TableTyped
<1>9. Table!paged = {r \in F : Table!sorted(r) \div TableSize = tablePage}
  BY <1>6, TableCounts DEF Table!paged
<1>10. StrictOrder(TableBefore, F)
  BY <1>7, TableStrict
<1> HIDE DEF F, n, q
<1>11. q <= tablePage
  BY <1>5, <1>7, <1>8 DEF q
<1>12. ASSUME NEW r \in F
       PROVE  Table!sorted(r) \div TableSize < q
  <2>1. Table!sorted(r) \in 0 .. n - 1
    BY <1>7, <1>10, PlaceType DEF n
  <2>2. Table!sorted(r) \in Nat /\ Table!sorted(r) < q * TableSize
    <3>1. q * TableSize \in Nat
      BY <1>7
    <3> QED
      BY <1>7, <2>1, <3>1
  <2> QED
    BY <1>7, <2>2, PlaceOfPage
<1>13. Table!paged = {}
  <2> SUFFICES ASSUME NEW r \in F, Table!sorted(r) \div TableSize = tablePage
               PROVE  FALSE
    BY <1>9
  <2>1. Table!sorted(r) \div TableSize < q
    BY <1>12
  <2> QED
    BY <1>7, <1>8, <1>11, <2>1
<1> QED
  BY <1>3, <1>13 DEF Table!Stranded, F

LEMMA ControlsKeepTable ==
  TableTyped /\ [Table!Next]_tableVars =>
    /\ Table!Search => ~Table!Stranded'
    /\ Table!Previous \/ Table!NextClicked \/ Table!SortableHeader \/ Table!setCollapsed =>
         (Table!Stranded' => Table!Stranded)
<1> SUFFICES ASSUME TableTyped, [Table!Next]_tableVars
             PROVE  /\ Table!Search => ~Table!Stranded'
                    /\ Table!Previous \/ Table!NextClicked \/ Table!SortableHeader \/ Table!setCollapsed =>
                         (Table!Stranded' => Table!Stranded)
  OBVIOUS
<1>0. tablePage \in Nat /\ Table!totalPages \in Int
  BY TotalType DEF TableTyped
<1>1. TableTyped'
  BY TableStep
<1>2. ASSUME Table!Search
      PROVE  ~Table!Stranded'
  <2>1. TablePageThere'
    BY <1>2 DEF Table!Search, Table!onSearch, TablePageThere
  <2>2. (TableTyped /\ Table!filtered # {} /\ TablePageThere => Table!paged # {})'
    BY TablePageShows, PTL
  <2> QED
    BY <1>1, <2>1, <2>2 DEF Table!Stranded
<1>3. ASSUME Table!Previous \/ Table!NextClicked \/ Table!SortableHeader \/ Table!setCollapsed
      PROVE  /\ UNCHANGED <<tableRows, search>>
             /\ tablePage' <= tablePage \/ tablePage' < Table!totalPages
  BY <1>0, <1>3 DEF Table!Previous, Table!NextClicked, Table!NextPage, Table!SortableHeader, Table!setCollapsed
<1> QED
  BY <1>1, <1>2, <1>3, TableStays

-----------------------------------------------------------------------------
(* The parts together.                                                     *)

(* A behaviour is one of the page of a service, whatever else it is.       *)
LEMMA ServiceRun == PagesSpec => Spec
<1>1. PagesInit => Init
  BY DEF PagesInit, PageRests
<1>2. [PagesNext]_pagesVars => [Next]_vars
  BY DEF PagesNext, pagesVars
<1> QED
  BY <1>1, <1>2, PTL DEF PagesSpec, Spec

LEMMA ListRuns == [PagesNext]_pagesVars => [List!Next]_listVars
BY DEF PagesNext, pagesVars

LEMMA TableRuns == [PagesNext]_pagesVars => [Table!Next]_tableVars
BY DEF PagesNext, pagesVars

LEMMA ListAlways == PagesSpec => []List!ListTypeOK
<1>1. PagesInit => List!ListTypeOK
  BY ListInit DEF PagesInit, ListRests
<1>2. List!ListTypeOK /\ [PagesNext]_pagesVars => List!ListTypeOK'
  BY ListStep, ListRuns
<1> QED
  BY <1>1, <1>2, PTL DEF PagesSpec

LEMMA TableAlways == PagesSpec => []TableTyped
<1>1. PagesInit => TableTyped
  BY TableInit DEF PagesInit, TableRests
<1>2. TableTyped /\ [PagesNext]_pagesVars => TableTyped'
  BY TableStep, TableRuns
<1> QED
  BY <1>1, <1>2, PTL DEF PagesSpec

(* Whatever is on the pages has its type.                                  *)
THEOREM PagesTypes == PagesSpec => []PagesTypeOK
<1>1. PageTypeOK /\ List!ListTypeOK /\ TableTyped => PagesTypeOK
  BY TableTypes DEF PagesTypeOK
<1> QED
  BY <1>1, ServiceRun, PageTypesAlways, ListAlways, TableAlways, PTL

(* A page shows what its URL asks for now: every answer that is shown as   *)
(* final is the answer to the present question, however the answers before *)
(* it were superseded and whenever they come in; the panels show its       *)
(* window; and the tab that is shown has its button and its content.       *)
THEOREM PageShowsWhatIsAsked == PagesSpec => []PageIsCurrent
<1>1. PInv => PageIsCurrent
  BY ShowsAsked, PanelsAreRecent, ActiveHasButton DEF PageIsCurrent
<1> QED
  BY <1>1, ServiceRun, PAlways, PTL

(* Nothing that was fetched for another service is ever shown, not even    *)
(* while it is replaced.                                                   *)
THEOREM NoOtherService == PagesSpec => []OwnServiceOnly
<1>1. PInv => OwnServiceOnly
  BY DEF PInv, OwnServiceOnly, FetchOK, HookOK
<1> QED
  BY <1>1, ServiceRun, PAlways, PTL

(* Under every sort, search and set of favourites the rows of a list have  *)
(* one order, no environment is headed twice on a page, and the pages of a *)
(* table hold each matching row once, for any rows and size of a page.     *)
THEOREM RowsHaveAnOrder == PagesSpec => []RowsInOrder
<1>1. List!ListTypeOK /\ TableTyped => RowsInOrder
  BY ListConsistent, EnvironmentsOnce, PagesAreWhole DEF RowsInOrder
<1> QED
  BY <1>1, ListAlways, TableAlways, PTL

(* A list is never blank; it says that there is nothing, or that there are *)
(* no favourites yet, only when the last answer held nothing that passes   *)
(* the filters; and that no favourites match only when none does or the    *)
(* page of the URL is beyond the last (ServiceInventory.tsx:569-575).      *)
THEOREM NothingMeansNothing == PagesSpec => []EmptyIsTrue
<1>1. List!ListTypeOK => EmptyIsTrue
  BY EmptyTrue DEF EmptyIsTrue
<1> QED
  BY <1>1, ListAlways, PTL

(* After a filter, a search or a sort of a list, and after a search in a   *)
(* table, rows are shown if any pass.  The other controls, which are the   *)
(* pagers, the sort of a table and a star in a list that is not of         *)
(* favourites, never lead from a page with rows to one that is gone.       *)
THEOREM ControlsLeadToRows == PagesSpec => ControlsShowRows
<1>1. List!vars = listVars /\ Table!tableVars = tableVars
  BY DEF List!vars, listVars, Table!tableVars, tableVars
<1>2. List!ListTypeOK /\ [PagesNext]_pagesVars =>
        [/\ rows # None /\ List!Filter => ~List!Stranded'
         /\ rows # None /\ List!Pager => (List!Stranded' => List!Stranded)
         /\ ~url.favsOnly /\ (\E n \in List!Names : List!toggleFavorite(n)) =>
              (List!Stranded' => List!Stranded)]_(List!vars)
  BY ListRuns, ControlsKeepList
<1>3. TableTyped /\ [PagesNext]_pagesVars =>
        [/\ Table!Search => ~Table!Stranded'
         /\ Table!Previous \/ Table!NextClicked \/ Table!SortableHeader \/ Table!setCollapsed =>
              (Table!Stranded' => Table!Stranded)]_(Table!tableVars)
  BY TableRuns, ControlsKeepTable
<1> QED
  BY <1>2, <1>3, ListAlways, TableAlways, PTL
     DEF PagesSpec, ControlsShowRows, List!ControlsShowRows, Table!TableControlsShowRows
=============================================================================
