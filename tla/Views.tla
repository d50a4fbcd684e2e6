------------------------------- MODULE Views -------------------------------
(***************************************************************************)
(* What is looked at and acted upon inside the pages: the drawer of an     *)
(* issue, the triage bar, an investigation, the service map, a wall board  *)
(* and the watchlist it is filled from, the tabs of a service, its alerts, *)
(* and the replay of a session.  They share no state, so a behaviour is    *)
(* one of one of them ("part"); the others stay as they began.             *)
(***************************************************************************)
EXTENDS OpsWatchlist, Sequences

CONSTANTS
  Issues, Source, Hashes, SessionOf, StackOf, BrowserLists, ServerLists, Ranges, DrawerMoves,  \* of IssueDrawer
  Names, MaxActs, Waiting,                                                    \* of TriageBar
  MaxEvents, MaxRounds, MaxRuns,                                              \* of Investigation
  MapEnvs, NodeCounts, Many, MaxLayoutNodes, MapMoves,                        \* of ServiceMap
  CardIds, CardAnswers, Filters, Areas, CardSizes, TTL,                           \* of CardBoard
  TabEnvs, OwnLogs, Namespaces, Cards, Groups, Targets, TopK, TabMoves,       \* of TabViews
  Configured, AlertAnswers, AlertEnvs, Several, Deploys, InstanceCap, AlertMoves,   \* of FiringAlerts
  Stored, Buckets, EnvOf, LineLimit, ListLimit, SeekTo, Speeds, ReplayMoves   \* of Replay

VARIABLES
  part,
  url, issues, drawer, flights, history,          \* of IssueDrawer
  log, state, assignee, busy, read, post, acts,   \* of TriageBar
  status, open, phase, view, run, runs,           \* of Investigation
  mUrl, clustered, full, graph, mMoves,           \* of ServiceMap
  remembers, answer, error, envs, size, area, page, rotating, seen,  \* of CardBoard
  tPage, caps, reqs, front, tMoves,               \* of TabViews
  aUrl, rules, manifest, deploy, create, aMoves,  \* of FiringAlerts
  rPage, list, selected, section, rMoves          \* of Replay

drawerVars == <<url, issues, drawer, flights, history>>
barVars == <<log, state, assignee, busy, read, post, acts>>
runVars == <<status, open, phase, view, run, runs>>
mapVars == <<mUrl, clustered, full, graph, mMoves>>
boardVars == <<remembers, answer, error, envs, size, area, page, rotating, seen>>
tabVars == <<tPage, caps, reqs, front, tMoves>>
alertVars == <<aUrl, rules, manifest, deploy, create, aMoves>>
replayVars == <<rPage, list, selected, section, rMoves>>

viewsVars == <<part, vars, drawerVars, barVars, runVars, mapVars, boardVars, tabVars, alertVars, replayVars>>

Drawer == INSTANCE IssueDrawer WITH MaxMoves <- DrawerMoves
Bar == INSTANCE TriageBar
Run == INSTANCE Investigation
Map == INSTANCE ServiceMap WITH
  Envs <- MapEnvs, Sizes <- NodeCounts, MaxMoves <- MapMoves, url <- mUrl, moves <- mMoves
Wall == INSTANCE CardBoard WITH
  Ids <- CardIds, Answers <- CardAnswers, Sizes <- CardSizes
Pane == INSTANCE TabViews WITH
  Envs <- TabEnvs, MaxMoves <- TabMoves, page <- tPage, moves <- tMoves
Alerts == INSTANCE FiringAlerts WITH
  Answers <- AlertAnswers, Envs <- AlertEnvs, MaxMoves <- AlertMoves, url <- aUrl, moves <- aMoves
Replays == INSTANCE Replay WITH MaxMoves <- ReplayMoves, page <- rPage, moves <- rMoves

(* Nothing is no drawer, no source and no answer; occurrences of a browser *)
(* have a session.                                                         *)
ASSUME ViewsAssumption ==
  /\ Drawer!ConstantsOK /\ Pane!ConstantsOK /\ Bar!ConstantsOK /\ Run!ConstantsOK
  /\ Map!ConstantsOK /\ Wall!ConstantsOK /\ Alerts!ConstantsOK /\ Replays!ConstantsOK

-----------------------------------------------------------------------------
(* The parts that do not move rest in the first of their initial states.   *)
ViewsInit ==
  /\ part \in {"drawer", "bar", "investigation", "map", "board", "tab", "alerts", "replay",
             "watchlist"}
  /\ Init /\ Drawer!Init /\ Bar!Init /\ Run!Init /\ Map!Init /\ Wall!Init /\ Pane!Init /\ Alerts!Init
  /\ Replays!Init
  /\ part # "bar" => log.status = "active" /\ log.who = None
  /\ part # "map" => mUrl.view = None
  /\ part # "board" => ~remembers /\ size = "sm"
  /\ part # "tab" => tPage.tab = "server" /\ tPage.env = None /\ caps
  /\ part # "alerts" => aUrl = [env |-> None, alert |-> None]
  /\ part # "watchlist" => settings.list = {}
  /\ part # "replay" => ~rPage.drawer /\ rPage.env = 1

Only(p) ==
  /\ part = p /\ part' = p
  /\ IF p = "watchlist" THEN TRUE ELSE UNCHANGED vars
  /\ IF p = "drawer" THEN TRUE ELSE UNCHANGED drawerVars
  /\ IF p = "bar" THEN TRUE ELSE UNCHANGED barVars
  /\ IF p = "investigation" THEN TRUE ELSE UNCHANGED runVars
  /\ IF p = "map" THEN TRUE ELSE UNCHANGED mapVars
  /\ IF p = "board" THEN TRUE ELSE UNCHANGED boardVars
  /\ IF p = "tab" THEN TRUE ELSE UNCHANGED tabVars
  /\ IF p = "alerts" THEN TRUE ELSE UNCHANGED alertVars
  /\ IF p = "replay" THEN TRUE ELSE UNCHANGED replayVars

ViewsNext ==
  \/ Only("watchlist") /\ Next
  \/ Only("drawer") /\ Drawer!Next
  \/ Only("bar") /\ Bar!Next
  \/ Only("investigation") /\ Run!Next
  \/ Only("map") /\ Map!Next
  \/ Only("board") /\ Wall!Next
  \/ Only("tab") /\ Pane!Next
  \/ Only("alerts") /\ Alerts!Next
  \/ Only("replay") /\ Replays!Next

(* What each part may count on: every request is answered or fails, and    *)
(* timers fire.                                                            *)
Served ==
  \/ Only("drawer") /\ Drawer!Answers
  \/ Only("bar") /\ Bar!Backend
  \/ Only("investigation") /\ Run!Network
  \/ Only("map") /\ Map!Backend
  \/ Only("board") /\ Wall!Rotate
  \/ Only("tab") /\ Pane!Backend
  \/ Only("alerts") /\ Alerts!Backend
  \/ Only("replay") /\ Replays!Network

(* A connection comes to an end, and the clock of a player goes on.        *)
Passes ==
  \/ Only("investigation") /\ Run!Ends
  \/ Only("replay") /\ Replays!Tick

ViewsSpec == ViewsInit /\ [][ViewsNext]_viewsVars /\ WF_viewsVars(Served) /\ WF_viewsVars(Passes)

-----------------------------------------------------------------------------
(* The state of the part that moves has its type.                          *)
ViewsTypeOK ==
  CASE part = "drawer" -> Drawer!DrawerTypeOK
    [] part = "watchlist" -> WatchlistTypeOK
    [] part = "bar" -> Bar!BarTypeOK
    [] part = "investigation" -> Run!InvestigationTypeOK
    [] part = "map" -> Map!MapTypeOK
    [] part = "board" -> Wall!CardsTypeOK
    [] part = "tab" -> Pane!TabTypeOK
    [] part = "alerts" -> Alerts!AlertsTypeOK
    [] part = "replay" -> Replays!ReplayTypeOK

(* The occurrences that the drawer shows are those of its issue and of the *)
(* session in its URL, or they are being asked for (IssueDrawer).          *)
OccurrencesAreAsked == Drawer!OccurrencesAreAsked

(* Streams that are cut anywhere, and lines that are stored twice or out   *)
(* of order, give each event once and in order (Investigation, Replay).    *)
EventsOnce ==
  /\ part = "investigation" => Run!EventsOnce
  /\ part = "replay" => Replays!PlayedOnceInOrder

(* What a view says is so: a map is not drawn before it is known to be     *)
(* small, a tab says there is nothing only on an answer of its own page    *)
(* that held none of it - but for the two requests whose failure reads the *)
(* same - and a row of an alert tells the worst of its sources             *)
(* (ServiceMap, TabViews, FiringAlerts).                                   *)
ViewsAreTrue ==
  /\ part = "map" => Map!NeverFlashesHairball
  /\ part = "tab" => Pane!TabNoteIsTrue
  /\ part = "alerts" => Alerts!RowsTellWorst

(* What a view shows is of the page it stands on: its panels, what it      *)
(* knows of the frontend, the deploy before an alert, the session that     *)
(* plays (TabViews, FiringAlerts, Replay).                                 *)
OfThePage ==
  /\ part = "tab" => Pane!PanelsNarrowed /\ Pane!FrontendOfEnvironment
  /\ part = "alerts" => Alerts!DeployOfDrawer
  /\ part = "replay" => Replays!PlayerOfPage

(* Each card of a wall board is on one of its pages, and goes only when    *)
(* its service has not been seen for as long as it is remembered           *)
(* (CardBoard).                                                            *)
CardsKept == []Wall!EveryCardOnce /\ Wall!CardsStay

(* Left alone, a wall board shows every page again and again (CardBoard).  *)
RotationComesRound == Wall!RotationComesRound

(* What a part waits for: a drawer that spins, controls that are disabled, *)
(* a run, a map that is read or laid out, a tab, rules or a deploy that    *)
(* are looked up, a session that is loaded or played.                      *)
Awaits ==
  CASE part = "drawer"        -> drawer # None /\ Drawer!HeadShown.spinner
    [] part = "bar"           -> busy
    [] part = "investigation" -> phase = "running"
    [] part = "map"           -> Map!MapWaits
    [] part = "tab"           -> Pane!Shows = "spinner"
    [] part = "alerts"        -> Alerts!Waits
    [] part = "replay"        -> Replays!ReplayWaits
    [] part = "board"         -> FALSE
    [] part = "watchlist"     -> FALSE

(* Whatever a part waits for comes to an end, because every request is     *)
(* answered or fails and each change asks anew for what it made unknown.   *)
WaitingEnds == Awaits ~> ~Awaits

=============================================================================
