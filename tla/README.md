# A TLA+ verification of the APM app plugin

This directory models the parts of the plugin that keep state, run concurrently
or talk to something that may fail, checks the models with TLC on small
instances, and proves the properties that matter most with TLAPS for every value
of the constants. The plugin is a Go backend (`pkg/plugin`), of which Grafana may
run several replicas, and a React frontend (`src/`). All paths below are relative
to the repository.

    tlc -workers 2 -config DeploySync.cfg MCDeployMarkers.tla    # one run
    tlapm DeployMarkersProofs.tla                                # the proofs

1. [Inventory](#1-inventory)
2. [How the components interact](#2-how-the-components-interact)
3. [The modules](#3-the-modules)
4. [The runs](#4-the-runs)
5. [What is proved](#5-what-is-proved)
6. [Disagreements found](#6-disagreements-found)
7. [What is left out](#7-what-is-left-out)
8. [Plan](#8-plan)

## 1. Inventory

The backend:

| component | state it keeps | operations | what is hard | what makes it correct |
|---|---|---|---|---|
| Deploy sync and prune (`naissync.go`) | the anchor of the sweep schedule of one goroutine; its markers are rows of Grafana's annotation store | a tick: fetch deployments, probe and write one marker each; once a day a sweep: list a page, delete what is superseded, next page | every replica runs one, and none of them is stopped; probe and write are two calls; a sweep decides on pages that are stale when it deletes; equal timestamps; failed calls; restarts | a service never loses its newest marker; nothing else than superseded old markers is deleted; every deployment gets a marker, few get two; a sweep finds all there is |
| Issue triage (`triage.go`) | an append-only log of annotations | read states, read history, record an action and read back | pages of a read and other requests' events interleave; the clocks of replicas differ; calls fail between write and read-back | every answer is the fold of all events at one moment; what a user did is what the next reader sees |
| Response cache (`cache.go`) | a map of entries with a time-to-live, one flight per key | lookup, lazy expiry, coalesced computation, store with eviction | the entry is judged outside the lock; a miss is decided before the flight is taken; eviction drops writes; the leader may fail | at most one computation, and none while there is a fresh entry; fresh entries stay; answers do not go back; everyone is answered |
| Capability detection (`capabilities.go`, `services.go`) | one cached result with two times-to-live, one flight | get or detect, detect detached from the request | the leader's context decides what all others get and what is cached | a request that is cancelled never decides what others see |
| Ops watchlist (`watchlist.go`) | the plugin settings in Grafana, a mutex per process | read-modify-write of the list | the mutex guards one process only; the configuration page writes the same record | what a board shows is stored, but for entries that the handler drops |
| AI investigation (`investigate.go`, `investigate_tools.go`) | one conversation per request, an event stream | rounds of a model call and concurrent tool calls | results finish in any order; a client goes away | every stream ends, no event is told twice |
| Alerts (`alerts.go`) | none | list rules of two sources and merge them by name | sources disagree, or one of them fails | a row tells the worst |

The frontend (`src/`):

| component | state it keeps | operations | what is hard | what makes it correct |
|---|---|---|---|---|
| Watchlist board (`useOpsWatchlist.ts`, `OpsStatusBoard.tsx`) | the list as shown, calls under way | add, remove, each posts the whole list | posts overtake one another, fail, are reported as failed after they were stored, or are stored in part | a board at rest shows all that is stored |
| Configuration page (`AppConfig.tsx`, `datasources.ts`) | a form | fill in what arrives, edit, save all of it | data sources arrive after edits | a save changes what was edited and nothing else |
| Favourites (`useFavoritesSync.ts`, `favoritesStorage.ts`) | a set per browser tab, one per browser, one per user in Grafana | hydrate, toggle, debounced write, storage events | toggles before hydration, other tabs and devices, closing within the debounce | tabs agree; nothing untouched is lost |
| Data hook (`useFetch.ts`) | data, loading, stale, error, the newest call | ask, supersede, answer, fail, skip | late answers of superseded calls | data are of the inputs, or marked stale |
| Service page (`ServiceOverview.tsx`, `useServiceData.ts`, `useInterval.ts`, `useSceneTimeSync.ts`) | URL, window, hooks, capabilities, settings, panels, visited tabs | navigate, change tab, environment, window; refresh | everything arrives late and in any order; a hidden browser tab; another service in the same page | what is shown is what is asked for |
| Lists and tables (`ServiceInventory.tsx`, `JobsInventory.tsx`, `NamespaceOverview.tsx`, `SortableTable.tsx`, `ServerTab.tsx`) | filters, sort, page, in the URL or not | filter, search, sort, group, page | sorts of several keys; a list that shrinks under its page | one order; no filter or search strands the reader, no pager takes him off the list; empty means empty |
| Issues table and triage bar (`IssuesTable.tsx`, `userStorage.ts`, `ExceptionDrawer.tsx`) | what was read of the log, overrides, mutes, page | act, mute, filter, reload | reads, actions and other users interleave | what was acknowledged and read back stays; pages hold rows |
| Issue drawer (`ExceptionDrawer.tsx`, `useExceptionDrawer.ts`, `useIssueOccurrences.ts`) | the issue, its occurrences, the one shown, six kinds of requests | open, page on, change session or range, go back | each request follows from the answer of another and from the URL | what is shown belongs to the issue and the session asked for; it stops spinning |
| Investigate drawer (`InvestigateDrawer.tsx`, `api/investigate.ts`) | phase, events so far | start, stop, restart, close | chunks end anywhere; aborted runs settle late | each event once; a run ends |
| Service map (`ServiceMap.tsx`, `useELKLayout.ts`) | two requests, the view, a layout | choose a view or an environment; lay out | the view depends on an answer; layouts end in any order | the large graph is not drawn before it is known to be small |
| Wall boards (`StatusBoard.tsx`, `OpsStatusBoard.tsx`) | services remembered, measured area, page, timer | answer, filter, resize, rotate | cards come and go while pages rotate | every card on one page; every page comes round |
| Tabs (`RuntimeTab.tsx`, `ServerTab.tsx`, `DatabaseTab.tsx`, `FrontendTab.tsx`) | a few requests each | change tab and environment, refresh | some fail, some are late | notes are true; panels are of the page |
| Alerts (`AlertsTab.tsx`, `FiringAlertDrawer.tsx`, `NamespaceAlerts.tsx`) | rules, a drawer, a deploy lookup, templates | open, close, change environment, create | lookups of a drawer that is closed or of another alert | the deploy is one before the alert shown |
| Session replay (`frontend/replay/`) | a list, a session, a player | choose, load, play, seek | chunks twice and out of order | each event once and in order |

Components that answer one request and keep nothing are not modelled: service list,
health, endpoints, runtime and frontend metrics; dependencies; alert templates;
database views; trace analytics, patterns, sessions, versions, jobs, custom metrics,
GraphQL; the scorecard (its cache is an instance of the response cache with another
time-to-live); feedback and the source map doctor; the HTTP clients under
`pkg/plugin/queries`; routing. `PROJECT.json` lists each with the reason, and lists
the hazards of this code at their lines.

## 2. How the components interact

- Deploy sync, triage, the deploy-annotation action of `infra/actions` and users
  share Grafana's annotation store. They meet in tags only: a sweep asks for
  `nais-apm:deploy` and leaves a row alone that also carries `nais-apm:triage`.
  The store is the only thing the replicas share.
- Every request handler runs in a goroutine of its own; handlers share the
  response cache, the capability result and the settings' mutex.
- `App.Dispose` (`app.go:180`) does nothing, so a poller outlives its instance:
  one process runs another one after every change of its settings.
- The plugin settings have two writers that do not know of each other: the
  watchlist handler and the configuration page. `OpsWatchlist` has both.
- The frontend talks to the backend with single HTTP calls, and with one event
  stream per investigation. The issues table and the triage bar see the triage log
  through such calls only; they are modelled over the register that `TriageLog` is
  shown to implement, one call being one answer of it.
- A page's parts share the URL and the window. `ServicePage` composes the hooks
  (`UseFetch`), timer, panels, capabilities and settings of one page; `TabViews`
  composes the hooks of its tabs with the panels of `ScenePanels`; `ServiceMap` two
  hooks with a layout.

## 3. The modules

| module | models | depends on |
|---|---|---|
| `Annotations` | the window and page rules of Grafana's annotations API, as `naissync.go`, `triage.go` and the tests' fake store describe them | |
| `DeployMarkers` | `naissync.go`: pollers, sync, sweep | `Annotations` |
| `TriageRegister` | abstract: what triage promises its callers | |
| `TriageLog` | `triage.go`: requests, calls, pagination, folds | `Annotations`, refines `TriageRegister` |
| `ResponseCache` | `cache.go` and its callers | |
| `Capabilities` | `capabilities.go` and `cachedOrDetectCapabilities` of `services.go` | |
| `OpsWatchlist` | `watchlist.go`, `useOpsWatchlist.ts`, the board and the configuration page as a second writer | |
| `Ordering` | `Array.prototype.sort`, `filter` and `flat` of JavaScript: what they promise of any rows and any comparator | |
| `SettingsForm` | `AppConfig.tsx` and what `datasources.ts` makes of the result | `Ordering` |
| `Favorites` | `favoritesStorage.ts`, `useFavoritesSync.ts` | |
| `IssueTriage` | `IssuesTable.tsx`, `userStorage.ts` | `Ordering` |
| `UserData` | what the plugin keeps of its users, side by side | `Favorites`, `SettingsForm`, `IssueTriage` |
| `UseFetch` | `useFetch.ts`, as operators on the state of one hook | |
| `ServicePage` | `ServiceOverview.tsx` and its hooks | |
| `ListPages` | the lists and their comparators, groups, pages and empty states | `Ordering` |
| `SpanTables` | the two tables of `ServerTab.tsx` | |
| `Pages` | the pages a reader looks at, side by side | `ServicePage`, `ListPages`, `SpanTables` |
| `IssueDrawer` | the drawer of an issue | |
| `TriageBar` | the triage controls of that drawer | |
| `Investigation` | the event stream, its reader and the investigate drawer | |
| `ServiceMap` | the map page and `useELKLayout.ts` | `UseFetch` |
| `CardBoard` | the wall boards | |
| `TabViews` | four tabs of a service and their requests | `UseFetch`, `ScenePanels` |
| `ScenePanels` | the panels of the frontend and database tabs and the labels they are narrowed by | |
| `FiringAlerts` | merging of rules, the tab, the drawer, templates | `UseFetch`, `Ordering` |
| `Replay` | the replay list, assembling of chunks, the player | `Ordering` |
| `Views` | what a reader opens beside the pages, side by side | `OpsWatchlist` and the eight modules above from `IssueDrawer` on, but for `ScenePanels` |
| `DeployMarkersProofs`, `TriageLogProofs`, `ResponseCacheProofs`, `CapabilitiesProofs`, `OrderingProofs`, `UserDataProofs`, `PagesProofs`, `ViewsProofs` | theorems about the module they are named for | that module |
| `MCDeployMarkers`, `MCTriageLog`, `MCUserData`, `MCPages`, `MCViews` | values of constants for TLC | the module they are named for |

A definition whose comment begins with *Slip* is a wrong variant of the
definition after it, as a plausible mistake in the code would make it: no
identifier tiebreak, a page step that is off by one, a missing second look. No
specification uses a slip. Put in the place of its original, each makes one
property fail, which shows that the property watches that line of the code
(`PROJECT.json`, "mutants"). A property whose comment begins with *Violated* states
what the code does not do; section 6 lists them.

`UserData`, `Pages` and `Views` hold components that share no state. A
variable `part` says which of them a behaviour is about; the others stay in one of
their initial states, so the states are those of the parts added up, not multiplied.

### Ordering

The frontend sorts and filters with the methods of JavaScript's arrays. `InOrder` is
the elements of a set, each at the place that counts those before it. What is before
what is the comparator of the code and, for elements it does not tell apart, the order
they had, since the sort is stable. It says nothing of a comparator that is not an order,
as the engine does not; that each of them here is one is proved, not assumed (section
5). `ElementsAt` is what a filter leaves, in the order it had; `SortedBy` is a stable
sort of a sequence by numbers, `FirstOfEach` a filter with a set of what was seen,
and `Flat` puts sequences one after the other.

### Annotations

`Window` is the time window of a query. The bounds count only when both are
positive: the comment at `naissync.go:368-371` says so, and it is what makes
`from=0` differ from `from=1`. `IsPage` says which sets of rows a call may return:
the newest `limit` rows of the window by timestamp, and any choice among rows of
one millisecond at the edge. A page is a set; the order of equal timestamps, which
the API does not promise, is left to whoever reads it.

### DeployMarkers

One poller is the goroutine of `startNaisDeploySync`. `pc` is where it is in
`runTick`; each HTTP call is one step and everything between two calls belongs to
the step before.

| code | action |
|---|---|
| `startNaisDeploySync`, the stagger of the first sweep | `Init`, `Restart` |
| `fetchNaisDeployments` | `FetchDeployments`; a failed call leaves nothing to mirror |
| the probe of `syncOneDeployment` | `SkipDeployment` (found, or the call failed), `ProbeAbsent` (an empty answer, another status, or a body that does not parse: all three fall through to the write) |
| the write of `syncOneDeployment` | `WriteMarker`; with faults it may be stored or not, and the caller cannot tell |
| `runTick`: is a sweep due? | `Rest`, `BeginSweep` |
| `pruneDeployAnnotations` | `ListPage`/`ListFails`, `DeleteNext`, `NextPage`, `SweepDone` |
| `prunableDeploys` | `prunableDeploys`, `Anchored`, `Newer`, `Eligible` |
| `nextPruneAnchor` | `nextPruneAnchor` |
| the Console API, the GitHub Action, the clock | `Publish`, `ForeignPost`, `Tick` |

A marker is its timestamp, its identity (what `deployPruneKey` makes of its tags;
`NoKey` when it makes nothing), its deploy-id and whether it is also a triage row.
A restart is possible at every step; the context's timeout of a tick is a failing
call. `Skew` lets the Console's clock lead the replica's. Histories: `written`
holds every row there ever was, `atStart` the store at the beginning of a sweep.

### TriageRegister and TriageLog

`TriageRegister` is a set of events that only grows and answers computed in one
step from all of them. `TriageLog` is the code: a request records, fetches page
after page, folds, replies. The refinement maps `events` to the rows of the log
that are events and `answers` to the replies. It holds while the log is shorter
than a page (`maxTriageEvents` = 1000 rows); section 6 says what happens beyond.
`First` is the fold's "first event seen wins" over pages that are newest first,
`States` the set of states it may come to when events share a millisecond, and
`StateOf` how status and assignee are decided apart from each other. Each record
is stamped with a clock that may lag by `Skew`. The version of an event is
identified with its author.

### ResponseCache

A section under the lock is one step. `look` counts where a request is: 1 in the
handler (`writeCached`), 2 in `getOrCompute`, 3 as the leader of the flight. `Read`,
then `Hit`/`MissAbsent`/`MissExpired`, then `Drop` are `get`, which judges the
entry outside of the lock and checks again under the write lock before it deletes.
`Lead`/`Join`/`Finish` are the singleflight group, `ComputeOk`/`ComputeFails`/
`Store` the computation and `set` with its eviction. `PlainKeys` are the keys of
the handlers that compute without a flight and store with `setJSON`. Data is known
by the moment its computation began; `served` and `floor` are histories that say
how old an answer may be. A leader whose client goes away is a computation that
fails.

### Capabilities

`Read`, then `Hit` or `Miss`, is `freshCapabilities`: the pointer is taken under the
lock and judged outside of it. `flown` tells the look inside the flight from the one
before it. `ProbeHit`/`ProbeMiss`/`ProbesEnd` are the loop over
`spanMetricsCandidates`, `ProbeUnit` the probes of the duration series (one step:
which of the three units it is makes no difference here), `Check` the checks that
run in parallel, `Store` the write to the cache after `wg.Wait`. `kind` is who asks:
a "page" request is `handleCapabilities`, whose detection runs under a context of its
own and may time out (`TimeOut`); a "view" request is any other endpoint, whose
context ends when its client leaves (`Leave`). `over` says that the context has
ended. The code treats a failed probe as one that found nothing, so what is there
and what answers is one set, `up`. Ages replace timestamps, so that time is
unbounded and liveness says something. A plugin without a Prometheus data source,
whose detection returns at once, is left out.

### OpsWatchlist

A board (`tab[t]`) has the list it shows and what it asks for; a call is a record in
`calls` until its answer is handled. `add` and `remove` show the change at once
(`Shown`) and post the whole list. A replica serves one post at a time
(`fetchPluginSettings`, `savePluginSettings`: the mutex is `proc[r]`), reading all of
the settings and writing all of them back. A service may come without a namespace
(`None`); of what is posted, the handler and the configuration page store the complete
entries only (`Valid`), and the handler answers 200 with those. The hook does not look
at that answer (`LandPost`), so a board may go on showing an entry that was dropped.
`Refuse` is a call that is not allowed or fails; a write may be stored and its answer
lost. `OpenForm` and `SaveForm` are the
configuration page, which writes the record it was loaded with. `calm` and `last` are
histories: whether anybody else came between, and the number of the latest call of a
board that reached the store.

### SettingsForm

`FormOf` is what the page makes of the stored settings, `jsonData` and
`secureJsonData` what it stores of the form; `SourcesArrive` fills in defaults
(`AutoFill`) and rows of environments (`Merged`). Each field has its edit. Texts that
are carried along unread are one field. `sanitizeOverrides` is the reader's side.

### Favorites

`snap[t]` is what a tab shows, `local[b]` the local storage of a browser, `remote` the
user storage. `OpenApp` loads; `Read` and `hydrate` are the two halves of the read of
the user storage, between which anything may happen, `HydrateFails` its failure, after
which a tab syncs alone; `save` writes to the browser and queues a storage event for
every sibling tab; `Debounced` sends the whole set; a write in `writes` lands in any
order (`Land`), or is lost with its tab. `history` says what was stored when the tabs
began, what has been toggled since, and whether one of the two exceptions of
`UntouchedStay` has happened.

### UseFetch and ServicePage

A hook is a record: the inputs of the last render (`deps`), the call that is listened
to, data with what they were asked with, and three flags. A superseded call is
forgotten, since its cleanup sets `cancelled` and everything after it asks for that.
`ServicePage` keeps them apart once more: `flight` has every call on its way, those
nobody listens to included, so that `Arrive` shows that dropping them is what the code
does. `Rerender` is one render with its effects: what the hooks ask with (`Deps`), the
panels' scene and key, the visited tabs; `Mount` is the first render for a service. The clock counts refresh intervals; `Fire`
is the timer, which stops when the browser tab is hidden. `CapsArrive`, `CapsFail`,
`SettingsArrive` and `Listen` are the two module-level caches of the frontend.

### ListPages and SpanTables

`Passing` are the rows the filters let through, `Before` is the comparator of the
code with what it calls, `filtered` is the order that gives; what is checked is that the
comparator is one, whatever the filters, favourites and directions.
`Shows` is which of table, skeleton, empty note or error is rendered; `FavouritesNote`
is the note under a page without rows, which says that there are no favourites or that none matches.
Sidecars are hidden by a button in the list of services and always in a namespace
(`InNamespace`). `Pagination` is what Grafana's pager offers when it is told the page of the
URL, which may be beyond the last: the pages there are, the one before and the one
after; `setPage` writes what was clicked as it is. A namespace's table clamps
the page before (`safePage`). The size of a page is fixed. `Filter` and `Pager` are the controls
apart from the stars. `SpanTables` keeps the page that two setters of one handler lose,
and its links may name a page up to `MaxPage`, from which `Previous` steps back as the
code does.

### IssueTriage and TriageBar

`log` is the register: a status and a revision per issue. A post is recorded in one step
(`PostStored`), read back in another (`PostRead`) and answered later (`RowAnswered`).
When the read-back fails the answer is 200 and active, with nothing else in it
(`Fresh`, and `Unread` in the bar), and the row keeps it as it keeps any other. A read
is `StatesRead` and `StatesArrive`. `TriageBar` records, reads back and answers
likewise (`PostRecorded`, `PostServed`, `PostAnswered`). `stateOf` lets an override win over what was read.
`Visible`, `rows` and `page` are the filters, mutes and pager; `HeaderShown` and
`ListShown` say which controls there are, since only what is there can be used.

### IssueDrawer

`flights` has every request under way with what it asks. A render (`Renders`)
cancels what the new URL, issues or occurrences no longer ask for, except a
diagnosis, which nothing cancels. `HeadShown`, `TimelineShown` and `StackShown` are
what is rendered.

### Investigation

`Sends` is which event `run` and `runTools` may send next, so streams are those of the
code; an event is three pieces, and `runInvestigation` reads any number of pieces at
a time. `parseSSE` takes whole events out of the buffer, `reduceInvestigation` folds
them (`Reduced`, one event after the other). A stream ends by closing or breaking at any piece; `Aborted` is the settling of
a run that was stopped or replaced.

### ServiceMap, CardBoard, TabViews, FiringAlerts, Replay

`ServiceMap` composes the two hooks with a queue of layouts (`elk`) that end in order
and are all applied. `CardBoard` counts how many cards of the chosen size fit a
measured area, cuts the cards by severity into pages, and has the timer and the
remembered services with their age. `TabViews` mounts the hooks of the tab shown and
says which note, cards or sections are rendered; `ScenePanels` gives each panel as its
title, its source and the labels all its queries carry. `FiringAlerts` has the merge
of `alerts.go` as operators over any two lists: `Merging` is the loop over the rules of
one name, in the order the sources list them. Names, and times that the code compares
as strings, are numbers in the order of those strings. `Replay` has `InSequence` and
`assembleSingles` as operators over what Loki stored, and a player with a clock.

## 4. The runs

| run | instance | shows |
|---|---|---|
| `DeploySync` | 2 pollers, 2 deployments of one service (one past retention when it is listed), a GitHub Action marker in the same millisecond, faults and restarts, pages of one row | `TypeOK`, `AnchorKept`, `OnlySupersededRemoved` |
| `DeployPrune` | 2 sweeps over every store of 4 old markers (timestamps 1-3, ties, 2 services, a triage row, a row without an identity) and of 5 markers with distinct timestamps | `AnchorKept`, `SweepComplete` |
| `DeployDuplicates` | as `DeploySync`, no faults, fair pollers | `DuplicatesBounded`, `EveryDeploymentMarked` |
| `TriageRegister` | 2 requests of any kind, 3 kinds of action, logs with an ignored or an assigned issue, clocks that differ, faults | `TypeOK`, `ImplementsRegister` |
| `TriageOrder` | 3 requests, clocks that agree, logs on both sides of one page | `NextReadSeesIt` |
| `ResponseCache` | 2 goroutines that each send any number of requests, a coalesced and a plain key, room for one entry, failing computations, 3 ticks with a TTL of 1 | `TypeOK`, `SizeBounded`, `OneComputation`, `FreshKept`, `NoStepBack`, `EveryRequestAnswered` |
| `Capabilities` | 2 goroutines that each send any number of requests of both kinds, 2 candidates, a data source, times-to-live of 2 and 1 | `TypeOK`, `OneDetection`, `UndisturbedIsRight`, `Recovers` |
| `UserData` | favourites: 2 tabs of one browser and 1 of another, 2 services, calls lost; settings: 2 kinds of data sources, 2 environments, 3 edits; issues: a browser and a server issue, several users, pages of one row | `UserDataTypeOK`, `TabsAgree`, `UntouchedStay`, `TableKeepsUp`, `EditsAreKept` |
| `Pages` | service page: 2 services, 2 hooks, both kinds of capabilities, a window that is frozen or relative; lists: 4 rows that tie in some columns, pages of 3, four kinds of list; tables: 3 rows, two of which tie in every column, pages of 1; pages up to the fourth in the URL | `PagesTypeOK`, `PageIsCurrent`, `OwnServiceOnly`, `RowsInOrder`, `EmptyIsTrue`, `ControlsShowRows` |
| `Views` | nine parts, each with two or three things to tell apart and two to four moves of the reader; of the watchlist a board with 3 calls, 2 replicas, the configuration page, 2 services that share no part and one without a namespace (`MCViews`) | `ViewsTypeOK`, `BoardShowsStored`, `OccurrencesAreAsked`, `EventsOnce`, `ViewsAreTrue`, `OfThePage`, `CardsKept`, `RotationComesRound`, `WaitingEnds` |
| `TriagePastLimit`, `SettingsLabels` | the smallest instance of a disagreement (section 6) | one violated property each |

What the last three of the passing runs show:

- `UserData`. However devices hydrate, toggle, write late and lose calls, tabs of a
  browser that have handled their events show one set (`TabsAgree`), and a favourite
  nobody toggled stays (`UntouchedStay`). Saving an unedited form changes nothing, and late data sources keep what was chosen (`EditsAreKept`). An
  acknowledged action stays on its row while actions on the issue do not overlap, and the
  table never has a page without rows (`TableKeepsUp`). The one exception is a row whose
  last answer came without the log: recorded, not read back, and said to be untouched. Such
  a row may show what was before the action (`AckedRowShowsAct`, section 6).
- `Pages`. `PageIsCurrent`: what a page shows as final is the answer to what it asks
  now, its panels have its window, its tab has its button. `OwnServiceOnly`: not even
  while it is refreshed does it show another service. `RowsInOrder`: every comparator
  is a total preorder, under any favourites, filters and directions, groups are whole,
  and the pages of a table have every row once. `EmptyIsTrue`: a list is never
  blank; it says that there is nothing, or that there are no favourites yet, only when the
  last answer held nothing that passes; and that no favourites match only when none does
  or the page of the URL is beyond the last. `ControlsShowRows`: after a filter, a search or
  a sort of a list, and after a search in a table, there are rows on the page if any pass;
  and the other controls (pagers, sorting and unfolding of a table, a star in a list that
  is not of favourites) never lead from a page with rows to one that is gone. It is stated
  of the controls, not of changes of the URL, and says nothing of two things the code
  does: a pager may step from a page beyond the last to another one, and a star taken away in a
  list of favourites may empty the page (`UnstarringShowsRows`).
- `Views`. `BoardShowsStored`: a board nobody came between shows all that is stored once
  its calls are answered, however many were lost, refused or stored without an answer,
  shows beyond it at most services without a namespace, and says that nothing is
  configured only when that is so. `OccurrencesAreAsked`: the drawer's occurrences are of its issue and of the
  session in its URL. `EventsOnce`: streams and recordings give each event once and in
  order. `ViewsAreTrue`: a map is not drawn before it is known to be small; a row of an
  alert tells the worst of its sources; and a tab says that there is nothing only on an
  answer for its own service, environment and window that held none of it. Two failures do
  read as nothing, and the property names them: that of the GraphQL metrics ends in the
  server tab's note (`ServerTab.tsx:44`), and that of the runtime metrics in the database
  tab's (`DatabaseTab.tsx:90`). The frontend tab's placeholder stands for a failure as
  well as for a service without a frontend, and is not held to it. `EveryNoteIsTrue` leaves
  neither of the two out and is violated. `OfThePage`: panels and deploys are of what is
  shown. `CardsKept`, `RotationComesRound`: cards of a wall. `WaitingEnds`: whatever
  spins or is disabled comes to an end.

Why the bounds are enough. The hazards of a sweep are races of two (one decides,
the other deletes), markers of one millisecond (two suffice, `DeployPrune` has
three), and the step from one page to the next (pages of one or two rows make a
sweep take three). Two services are needed so that one's marker fills a page in
front of the other's. A third poller only repeats what the second does; the
theorems do not depend on the number. In `DeploySync` a deployment that is already
past retention is written, swept and, since the Console still lists it, written
again. Triage needs two concurrent requests for a race of write and read, and a
third to read what two writers left. The cache needs one requester whose decision
goes stale and one who makes it stale, a second key to fill the cache, and enough
ticks for an entry to expire, to be stored again and to expire again. Capability
detection needs the same two requesters, and a second candidate so that the order of
the candidates matters. A race of favourites is of a tab, its sibling and another
device, which is three tabs, and of a service that is toggled and one that is not. A
race of answers on a page is of one move that supersedes another, and a third thing
(timer, capabilities, hidden browser tab) that is not a move and is not bounded by
moves; two moves are enough for there, back and a late answer. The parts of `Views`
bound the reader's moves likewise (`MaxMoves`, `MaxActs`, `MaxRuns`), never what the
network does. A replay has five sessions because chunks, single events, an encoding
that is not known, snapshots and nothing are five cases.

Bounds by name: `MaxNow` (the last value of the clock), `MaxId` (annotation ids),
`ForeignPost` posts each row once, `MaxToggles`, `MaxOpens`, `MaxCalls`, `MaxSaves`,
`MaxEdits`, `MaxSteps`, `MaxMoves`, `MaxActs`, `MaxRuns`, `MaxRounds`, `MaxEvents` (of
users, and of one investigation), `MaxPage` (the page in the URL; four, since lists and
tables have one to three pages, so that a step back from the page after the first
one that is gone is one more that is gone). Constants of the code that are made small: `Limit`
(1000 rows of a page), `MaxSize` (entries of the cache), `PageSize` (25 rows), `Many`
(50 services), `MaxLayoutNodes` (300), `LineLimit`, `ListLimit`, `InstanceCap`, `TopK`
and the times-to-live. `SYMMETRY` is used where no liveness property is checked, over
pollers, requests, services, or the tabs of one browser, which are interchangeable.
Deadlock is not checked: the bounds make every instance end.

Fairness. `DeployMarkers!FairSpec` asks for weak fairness of the clock and of each
poller: its loop has a ticker, and each of its calls a timeout, so a live process
never stays at a step. No fairness is asked of the surroundings. `EveryDeploymentMarked`
is checked without faults, since a call that always fails lets a deployment fall out
of the Console's page unmarked; that the list is longer than a page is excluded by
the instance.
`ResponseCache!FairSpec` asks for weak fairness of each request's next step:
goroutines are scheduled and computations return, because every query has a timeout.
`Capabilities!FairSpec` asks for the same and that time passes. Nothing is asked of
clients: `Recovers` is about the answers that are given.
`Views!ViewsSpec` asks for two things: that something which is on its way is answered
or fails (`Served`; a browser request ends, and the rotation timer of a wall fires),
and that connections end and the player's clock goes on (`Passes`; the backend
limits a run, `requestAnimationFrame` is called). Nothing is asked of readers. Since
`Served` is one condition for all requests of a part, a request that is never served
while others are is not excluded by it: what is shown to end does so because readers'
moves are bounded and every answer is one request less.

## 5. What is proved

All theorems hold for every value of the constants that satisfies the `ASSUME`s of
their module, and TLC evaluates those in every run. They name what they assume beyond.

`DeployMarkersProofs`, for any number of pollers, deployments, services, pages and
rows, with and without faults:

- `TypeCorrect`: `Spec => []TypeOK`.
- `NewestMarkerSurvives`: `Spec => []AnchorKept`.
- `SweepsRemoveOnlySuperseded`: `Spec => OnlySupersededRemoved`.
- `FewDuplicates`: `CleanStart` implies `Spec => []DuplicatesBounded`.
- `SweepsAreComplete`: `Quiet` implies `Spec => SweepComplete`.

`AnchorKept` is not inductive, because a deletion was decided long before it
happens. The inductive invariant `IInv` adds `IdsOK` (rows are written once, under
ids of their own), `KeepOK` (a key a sweep has anchored belongs to a marker above
what is left to list, or on the page at hand), `PendOK` (a row about to be deleted
is past the cutoff and was superseded by a row that was written) and `WindowOK`.
The step that deletes uses it so: the row x was superseded by some y that was
written; `AnchorKept` before the step gives a z in the store that is y or
supersedes it; `Newer` is transitive, so z supersedes x, and irreflexive, so z is
not x and survives. This is where the identifier tiebreak of `prunableDeploys` is
used: without it `Newer` is no strict order, and the slip `NewerOrEqual` loses both
of two equal markers. `NextPageKeeps` is where the strict step between pages is.

`FewDuplicates` assumes `CleanStart`: finitely many pollers, no failing calls, clocks
that agree, and a store that begins within the count. Its invariants are `NoneAhead`
(no marker is dated after now, so the window of a probe, which ends at now, has every
marker of its deployment) and `Counted` (for each deployment the markers in the store
and the pollers that are busy with it are together no more than the pollers): a probe
that finds it absent has seen that there is no marker, and a write moves a poller from
one side of the sum to the other.

`SweepsAreComplete` assumes `Quiet`: no failing calls, nothing posted, finite stores
without markers dated after the start (a sweep does not see one of those, so what only
it supersedes stays). Its invariant `LeftOK` follows the backlog of a sweep from page
to page: before a page is listed, all of it lies in the window and every key above the
window is anchored (`ToList`); between a page and the next, a row of it is pending or
lies below a full page (`ToDelete`). What superseded a row at the beginning may have
been deleted by another sweep since, but then `AnchorKept` has a newer row, which is on
the page or above it (`LeftList`). `PageHolds` is where distinct timestamps are needed.

`TriageLogProofs`, of the log itself, for any requests, issues, logs, pages:

- `TypeCorrect`: `Spec => []TypeOK`.
- `ActionsAreSeen`: if `Skew = 0`, `Spec => []NextReadSeesIt`.

The inductive invariant `RInv` says that a request has recorded one event at most,
with its own stamp (`LogOK`); that the events an action finds when it begins are not
newer than the stamp it will record with, which is where agreeing clocks come in; that
a page which has one of the rows that were there at the beginning has every newer one
of them (`Newest`); and that what is answered is not an event that another one had
come after (`Right`). So when b is in a page, c, which was recorded after b and is
newer, is in the same page, and `First` is not b.
`Skew = 0` is needed: `TriageSkew.cfg` shows the counterexample without it.

and of the refinement, for any requests, kinds of action, clocks and failing calls:

- `TriageIsRegister`: `ShortLogs` implies `Spec => ImplementsRegister`.

`ShortLogs` says that there are finitely many requests, and that every initial log and
what the requests may add to it are less than a page. The invariant `SInv` carries
this on (`Short`: the rows of the log, and the requests that may still record, are
below `Limit`), says that each request records at most once (`Once`), and that whoever
fetches has no page yet and, after an action, has its event in the log (`Fetching`).
Then every fetch is of one page, the page is the log, and the fold of it is the
abstract answer computed at that moment; every other step adds an event of the
abstract register or is a stutter. Beyond `ShortLogs` the code does not
implement the register (`TriagePastLimit`).

`ResponseCacheProofs`, for any number of requests and keys and every size:

- `TypeCorrect`: `Spec => []TypeOK`.
- `Coalesced`: `Spec => []OneComputation`.
- `FreshEntriesStay`: `Spec => FreshKept`.
- `MapIsBounded`: `Spec => []SizeBounded`.
- `AnswersDoNotStepBack`: `Spec => NoStepBack`.

Here `IInv` adds `FlightOK` (only the leader of a flight is inside it), `LookOK`
(what a leader has found out about the cache stays true while it leads, because
nobody else stores its key and entries only age) and `SingleOK`. `MapIsBounded` rests
on `Room` (the domain of the map is finite and no larger than the size): a store
evicts what has expired when the map is full and adds an entry only if there is room.
`AnswersDoNotStepBack` rests on `BInv`: data are kept under their own key and are not
from the future (`BornOK`); what a request finds fresh is still in the cache, and what
it computes is as new as anything answered so far (`AskOK`); what is fresh in the cache
and what a flight has come to are as new as anything answered, and agree (`NewOK`).

`CapabilitiesProofs`, for any number of requests, candidates and checks and any two
times-to-live:

- `TypeCorrect`: `Spec => []TypeOK`.
- `OneProbeAtATime`: `Spec => []OneDetection`.
- `DetectsWhatIsThere`: `Spec => UndisturbedIsRight`.

The argument is that of the response cache: `FlightOK` says that only the leader is
inside the flight, `LookOK` that the cache is a part of what the leader saw and that
it holds nothing fresh once the leader has missed, since nobody else stores.
`DetectsWhatIsThere` says of each position in the detection what has been found out by
then about a world that has not changed since it began (`Asked`): no candidate before
the one asked next is there, the unit is that of the one that was, and of the sources
asked those are marked that are up.

`OrderingProofs`, of the operators the frontend's modules sort and filter with:

- `InOrderSorts`: for any finite set and any strict total order of it, `InOrder` is
  a bijection from `1..n` onto the set, and what is before stands before.
- `AscendingSorts`: the same of sets of integers, for pages, groups and numbers.
- `ElementsAtKeep`: what a filter leaves are exactly the elements asked for, each at one place,
  and in the order they had.

- `SortedBySorts`: a stable sort of any sequence has each of its elements, in the order
  of their keys.
- `FirstOfEachOnce`: of the elements with one key the first is left, and no other.
- `FlatPuts`: sequences put one after the other have all their elements, those of an
  earlier sequence first.

They stand in for `SortSeq` and `SelectSeq`, whose recursive definitions the provers cannot use.
A place is a cardinality, so no induction over a sequence is needed: that places differ and
none is left out follows from counting.

`UserDataProofs`, for any tabs, browsers, services, data sources, environments, stored
settings, issues, users and logs:

- `UserDataTypes`: `UserSpec => []UserDataTypeOK`.
- `TabsComeToAgree`: `UserSpec => []TabsAgree`.
- `NothingUntouchedIsLost`: `UserSpec => []UntouchedStay`.
- `TableIsKeptUp`: `UserSpec => []TableKeepsUp`.
- `EditsStay`: `UserSpec => EditsAreKept`.

`TabsAgree` is nearly inductive: whoever changes a browser's set queues an event for
all its other open tabs. `UntouchedStay` is not: it speaks of the user storage only,
and a write on its way may take a favourite out. The invariant `KInv` says where the
untouched favourites of the beginning are kept (`KeptEverywhere`): in the user
storage, in every answer a tab has yet to hydrate from, in every write on its way, and,
for every tab that may write, in what it shows and in what its browser holds, which a
storage event will put in its place. The two exceptions of
`UntouchedStay` are where this breaks.

`TableIsKeptUp` rests on `TableInv`: no copy of the log, wherever it is kept or on its
way, is newer than the log (`NothingFromTheFuture`); a post that was read back has what it
recorded or what came after it, or the answer of a failed read (`PostInOrder`); and, while
the actions on an issue do not overlap, what was acknowledged is kept as an override of
its row, unless that is the answer of a failed read (`AcknowledgedIsKept`). That the page shown has rows is arithmetic (`PagesNeeded`,
`PageHasRows`): the number of pages is the number of rows divided by the size and
rounded up, and a selected page beyond it counts as the last one.

`EditsStay` rests on `FormTyped` alone, and is about what two conversions do one after
another. `RoundTrip`: settings that were read into rows (`parseEnvOverrides`) and written again
(`byEnvironment`) are the settings; `AliasesStay` and `CompleteAll` say the same of the alias table.
`MergeKeepsRouting`: what late data sources add to the rows leaves the source and the
routing names of each environment as they were.

`PagesProofs`, for any services, environments, hooks, capabilities, moves, answers, filters,
searches, ranks and sizes of a page:

- `PagesTypes`: `PagesSpec => []PagesTypeOK`.
- `PageShowsWhatIsAsked`: `PagesSpec => []PageIsCurrent`.
- `NoOtherService`: `PagesSpec => []OwnServiceOnly`.
- `RowsHaveAnOrder`: `PagesSpec => []RowsInOrder`.
- `NothingMeansNothing`: `PagesSpec => []EmptyIsTrue`.
- `ControlsLeadToRows`: `PagesSpec => ControlsShowRows`.

The invariant `PInv` says of every hook of a service's page that one at rest holds the answer to what it
last asked, that the one call somebody listens to asks for that, and that there is
none for a hook at rest (`FetchOK`); that what it last asked is what the page asks now
(`AsksNow`); that the panels are those of the page and as recent as it (`PanelsOK`);
and that the active tab has been visited. `NoOtherService` follows since a hook's data
are older answers of the same mounted page, and `Mount` begins with none. For the type
invariant, `KeptTyped` is about what outlives a page and `RenderTyped` about the rendered page.

`RowsHaveAnOrder`: every comparator of the lists comes down to four integers, compared one
after the other, and the place in the answer as the last (`ByKeys`, `KeysChain`). So it is
a strict order of the rows that pass the filters (`BeforeIsStrict`), whatever the
column, the direction and the favourites, and by `InOrderSorts` the table has each of them
once. An environment is headed once because its rows are neighbours, and the pages of a
table are whole since they cut one sequence at multiples of the size (`WholePages`).
`NothingMeansNothing` rests on `NoneOrGone`: no page within the count is
without rows, so a page without rows has
none that match or is beyond the last. `ControlsLeadToRows` takes one control at a
time. Filters, searches and sorts set the first page, which has rows if any pass
(`FilterLeads`); a namespace's page that stays is clamped. A pager's step and the sort
of a table leave the rows as they are (`SameTotal`), and from a page that is there what a pager
offers is there (`PagerLeads`; `TableStays` for the tables of spans). A star takes no row out of a list that is not of favourites
(`PassingStays`, `Staying`).

`ViewsProofs`, for any tabs, replicas, services, issues, sessions, streams, graphs,
areas, rules, stored recordings, moves and bounds that `ViewsAssumption` allows:

- `ViewsAreTyped`: `ViewsSpec => []ViewsTypeOK`.
- `SettledBoardIsTrue`: `ViewsSpec => []BoardShowsStored`.
- `DrawerShowsAsked`: `ViewsSpec => []OccurrencesAreAsked`.
- `EventsAreTakenOnce`: `ViewsSpec => []EventsOnce`.
- `ViewsTellTruth`: `ViewsSpec => []ViewsAreTrue`.
- `ViewsAreOfThePage`: `ViewsSpec => []OfThePage`.
- `CardsAreKept`: `ViewsSpec => CardsKept`.

The module has a section for each part, with an inductive invariant of its own. The
invariant of the whole (`ViewsInv`) is all of them, and a step of the whole is a step
of one part (`PartsMove`).

- The watchlist. `BoardShowsStored` speaks of boards that wait for nothing, and of all the
  list stored; what a board shows beyond it has no namespace. `Known`
  says what a board knows before: a list that is on its way to it, and that no later call
  of it has overtaken, is the stored one; the board shows what its latest post asks for, of which the complete entries are stored; and
  a latest call that has not reached the store is still on its way, or has failed for
  good. `CallsOK` and `ProcOK` tell calls apart by their numbers, so that the call a
  replica works on is the one its board waits for.
- The drawer of an issue. `OccurrencesAreAsked` is not inductive: what is on its way has
  to be known as well. `DrawerInv` says that every request under way is one that the URL,
  the issues and the drawer still ask for (`Wanted`; a diagnosis is the exception, which
  nothing cancels), and `DrawerOK` what the occurrences are of, wherever they came from.
- The investigation. `RunInv` says that what has been taken out of the buffer ends where
  an event does (`Run!rest`), and that the view is `Reduced` of just those events.
- The map, the boards, the tabs, the bar. `MapInv` ties the request of the large graph to the
  view that is shown; `BoardInv` says that a board that remembers has seen what it
  shows, and the pages are counted (`CardsCounted`, `CardsOnce`); `TabInv` and `FrontInv`
  say of each request what it is of; `BarInv` that nothing on its way to the
  triage bar is newer than the register.
- The alerts. Rows depend on nothing but the answer, so `RowsTellWorst` is about `alerts.go`
  alone. `TellsWork` says what a row tells of a set of alerts. The row of one rule tells of
  the alerts of that rule (`SummaryTells`); two rows that tell of disjoint sets merge into
  one that tells of their union (`MergeTells`); so the row of a name tells of all the
  alerts at work under it (`MergedTells`, `RowOfName`), which belong to rules
  at different places (`RowsAreRules`). The comparator is an order since no two rows have one name
  (`RowsAreOrdered`). `LookupOK` says that a deploy found is kept under the key it was looked up for.
- The replay. What is loaded is a function of what is stored and of the query
  (`WellPlayed`); `SectionOK` says that the answer awaited is of the session selected
  and of the page shown.

`Reduced` and `Merging` are recursive functions over the places of a sequence. The
induction theorems of the library cannot be used (they take an operator), so
these two inductions are done by hand: a function that satisfies the recursion exists (`MergingExists`)
and has the property, since there is no least place at which it does not (`LeastNumber`).

What `ViewsAssumption` says of the surroundings, and why the code justifies it. Of
recorded sessions (`Replay!ConstantsOK`): a session is in one format, lines with one
number are one chunk stored again, a chunk goes on where the chunk with the number before
ended, and a chunk has its events as they happened. The first three are the contract
that `fetchReplay.ts:1-28` and the comment at line 211 state, the last is how a recorder
fills its buffer. Nothing is assumed of the order, the number and the streams of lines. Of
rules (`FiringAlerts!ConstantsOK`): each of their alerts has a time, which holds for every alert that is
at work; their states may be any strings. Of issues (`IssueDrawer!ConstantsOK`): a list from the
browser has occurrences with a session only, since `useIssueOccurrences.ts:323` keeps no others. Of
services (`CardBoard!ConstantsOK`): they are finitely many. The rest are types.

For the proofs, overlapping `CASE`s of `UseFetch`, `TabViews`, `ServiceMap`, `FiringAlerts` and
`Replay` became `IF` chains with the same branches in the same order, and the folds over sequences
became recursive functions and the operators of `Ordering`. TLC finds the same states as before.

Model-checked only: liveness (`EveryDeploymentMarked`, `EveryRequestAnswered`, `Recovers`,
`RotationComesRound`, `WaitingEnds`), which is out of the prover's reach. Every invariant and
every action property of a passing run is a theorem.

## 6. Disagreements found

Two are runs: `tlc` ends with the counterexample. The other properties are stated in
their modules, under a comment that begins with *Violated* or that quotes what the code
is said to do; to see one fail, add it to the INVARIANTS or PROPERTIES of the run's cfg
(a property `P` of an instance `M` by a definition `Q == part = "..." => M!P` in the MC
module). The cfgs in the last column are ready to run.

Between the code and what its comments, docs or tests say of it (`PROJECT.json`,
"findings", has the quotes):

| property | what happens | how to see it |
|---|---|---|
| `OlderEventsReachFold` | `fetch` asks with `from=0`, which makes the store ignore `to` as well, so every page of a full log is the newest one (`triage.go:144`); the test's fake store applies `to` regardless | run `TriagePastLimit` |
| `ReplyShowsAction` | when the read-back after a recorded action fails, the handler answers 200 and `active`, whatever the action was (`triage.go:377`) | `TriageReadBack.cfg`, `MCTriageLog` |
| `NextReadSeesIt` | an action recorded by a replica whose clock is behind is hidden by an earlier one (`triage.go:262`) | `TriageSkew.cfg`, `MCTriageLog` |
| `BacklogDrains` | a sweep starts at the newest marker every time, and markers it has to keep can fill all `maxDeployPrunePages` pages (`naissync.go:364`); with the code's constants that takes more than 20 pages of 1000 | `DeployBacklog.cfg`, `MCDeployMarkers` |
| `NeverCutShort` | the shared detection runs under the context of whoever leads, unless that is `handleCapabilities`; when the client leaves, failed probes are cached for everyone (`services.go:563`) | `CapabilitiesCut.cfg`, `Capabilities` |
| `OverridesReachPages` | `sanitizeOverrides` drops the override of the logs' service label (`datasources.ts:168`) | run `SettingsLabels` |
| `ResetClears` | a value typed after a Reset of a secret and deleted again takes the Reset back (`AppConfig.tsx:675`) | `SettingsForm`, `UserData` |
| `NeverWritesStale` | a toggle in a tab that is not hydrated goes to the browser's storage, and a hydrated sibling writes that set (`useFavoritesSync.ts:116`) | `Favorites`, `UserData` |
| `PickerOffersAll` | the board asks for the services of its list only, and offers nothing else (`OpsStatusBoard.tsx:139`) | `OpsWatchlist`, `Views` |
| `AckedRowShowsAct` | the table keeps the answer to an action whose read-back failed, which is active, as the state of the row, also after the log was read again (`IssuesTable.tsx:126`) | `IssueTriage`, `UserData` |
| `AddedIsStored` | the handler drops an entry without a namespace and answers 200; the board that added it shows it (`watchlist.go:69`) | `OpsWatchlist`, `Views` |
| `FavouritesNoteIsTrue` | the note that no favourites match is shown for any page without rows, also when earlier pages have favourites (`ServiceInventory.tsx:569`) | `ListPages`, `Pages` |
| `RowShowsLog` | an override outlives later reads of the log (`IssuesTable.tsx:126`) | `IssueTriage` with `MaxSteps` 3 |
| `DeepLinkShows` | when issues of another range are there, a link to one of the new range shows nothing until they land (`useExceptionDrawer.ts:17`) | `IssueDrawer`, `Views` |
| `DiagnosisOfStack` | a diagnosis under way arrives for the next stack (`ExceptionDrawer.tsx:479`) | `IssueDrawer`, `Views` |
| `AssumesNamespaces` | before the namespaces have arrived, zero services is not more than fifty: the graph of all is asked for (`ServiceMap.tsx:61`) | `ServiceMap`, `Views` |
| `HiddenAsksNothing` | a page opened in a hidden browser tab starts its timer (`useInterval.ts:91`) | `ServicePage`, `Pages` |
| `DatasourcesCurrent` | settings that arrive between the first render and its effect do not reach the page (`datasources.ts:120`) | `ServicePage`, `Pages` |
| `TabHasContent` | the profiling tab is empty while, or if, the capabilities are unknown (`ServiceOverview.tsx:116`) | `ServicePage`, `Pages` |
| `PagesByVolume` | the per-page table is of the slowest pages, not the most visited (`sections.ts:306`) | `TabViews`, `Views` |
| `NoDataMeansGone` | a service that is filtered out gets a NO DATA card (`StatusBoard.tsx:228`) | `CardBoard`, `Views` |

Properties a reader might expect that nothing in the repository promises, and that the
code does not have:

| module | property | what happens |
|---|---|---|
| `ListPages` | `UnstarringShowsRows` | the last star taken away on a page of favourites leaves the page blank (`ServiceInventory.tsx:487`) |
| `ListPages` | `HeaderSorts` | a click on another column sets column and direction, and each of the two writes the URL of the last render: the direction changes, the column does not |
| `ServicePage` | `KeyFollowsScene` | a new window makes a new scene under the old key |
| `IssueDrawer` | `NoBlankDrawer`, `TimelineOfSession`, `TimelineEnds` | a drawer with neither an occurrence nor a note; a timeline of the session before; one that spins on after going back to a URL without a session |
| `TriageBar` | `BarKeepsAct`, `TypingStays` | a read served before an action and answered after it wins; a late read replaces what is being typed |
| `Investigation` | `NothingSpins`, `DoneIsTold` | a tool of a run that is over still spins; a stream that closes without a `done` is shown as done |
| `ServiceMap` | `NoTopologyIsTrue`, `LayoutIsOfInput`, `LayoutCatchesUp` | "no traffic" after a failure; an old layout under a new graph, for good when it ends last |
| `SpanTables` | `SearchTakes`, `FilterIsSeen`, `NoBlankTable` | typing sets the search and the page, of which the second undoes the first; a search stays when its field is gone; a page beyond the last is blank |
| `TabViews` | `EveryNoteIsTrue`, `TabOfOneEnvironment`, `NoBlankTab`, `BarsMeasured`, `PanelsOfNamespace`, `BrowserReachesPanels`, `RankedAreCounted` | a failure of the GraphQL or the runtime metrics reads as nothing there; panels of one environment above rows of another while it is refreshed; bars of unknown limits; panels that are not narrowed by namespace or browser; attributions ranked without their samples |
| `FiringAlerts` | `ValueIsOfState`, `SourceOfState`, `NoRulesIsTrue`, `ManifestOfEnvironment`, `TemplateOfPage`, `DeployIsOwn` | the value, source or deploy shown may be of another instance, source or namespace; a failing source reads as no rules; a manifest that stays while another environment is asked for, an editor that opens for the environment before or after the reader has left |
| `Replay` | `InstantEnds`, `WholeSession`, `ButtonTellsPlayer`, `PlaybackKept` | playback of events of one time never ends; lines beyond the limit are missing; the button's mode is not the player's; a refresh tears down what plays |

## 7. What is left out

- Texts, tags other than those that decide something, validation of request bodies,
  log lines, metrics, styles.
- Manual deletion of annotations by users: `AnchorKept` speaks of the plugin's own
  steps.
- The order in which the Console lists deployments of one moment beyond its page:
  `Newest` keeps all of a tie.
- Two markers of one millisecond at the edge of a page: the strict step of
  `pruneDeployAnnotations` may skip some of them (the code accepts that,
  `naissync.go:410-415`), so `SweepComplete` is about distinct timestamps.
- Duplicates under failing probes: a probe whose answer cannot be read falls through
  to the write, so `DuplicatesBounded` is stated for calls that answer.
- Staleness of `PlainKeys`: `getServiceMap` may store an older result over a newer
  one; `NoStepBack` leaves those keys out.
- Lost updates of the plugin settings: `OpsWatchlist` has them (two replicas, or a
  replica and the configuration page), and nothing in the code rules them out, so no
  property says otherwise.
- Of the investigation's backend the semaphore of four tools, the keep-alive writer
  and the conversation with the model; the stream is modelled by the events that may
  follow one another.
- Queries as text: `ScenePanels` has the labels a query is narrowed by, not PromQL.
- What is drawn: ELK's geometry, rrweb's frames, charts. React's batching is modelled
  as one render per event, with its effects; passive effects are steps of their own
  where something can come between.
- The tabs of traces, logs, profiling, and the GraphQL documents, which embed panels
  of other apps.
- Components marked `not_modelled` in `PROJECT.json`, with the reason of each: they
  keep nothing between requests.

## 8. Plan

1. The promises that nothing states yet (`PROJECT.json`, hazards without a property), as
   properties of the existing modules.
2. Pure algorithms of the backend as functions against reference definitions: the
   regression rule of `issues.go`, the grouping by fingerprint, clustering of the
   service map.
3. The investigation's backend: rounds, semaphore, shared writer, keep-alive.
4. A composition of `TriageLog` and `DeployMarkers` over one annotation store, so
   that a resolved version and the newest marker are read together.
5. The runs of section 6 give way to runs of new modules once a disagreement is
   resolved in the code.
