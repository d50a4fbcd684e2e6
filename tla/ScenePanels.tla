---------------------------- MODULE ScenePanels ----------------------------
(***************************************************************************)
(* The panels of the frontend tab (src/pages/tabs/frontend: sections.ts,   *)
(* attribution.ts and their query builders) and of the database tab        *)
(* (src/pages/tabs/database/scene.ts).  A panel is its title, where it     *)
(* asks, and the labels all its queries are narrowed by.                   *)
(*                                                                         *)
(* A context says what is looked at: namespace and environment (or None),  *)
(* whether the environment has a log store of its own, whether the log     *)
(* store has telemetry of the service, and for a database scene whether    *)
(* there are metrics to ask for, database spans and a connection pool.     *)
(*                                                                         *)
(* Definitions marked "Slip" are wrong variants of the one that follows.   *)
(***************************************************************************)
EXTENDS Integers, FiniteSets

CONSTANT None

Given(label, value) == IF value = None THEN {} ELSE {label}

Metrics(titles, by) == [title : titles, on : {"metrics"}, by : {by}]
Logs(titles, by) == [title : titles, on : {"logs"}, by : {by}]

(* By the application, and the environment if one is chosen.               *)
histogramFilter(ctx) == {"service"} \cup Given("environment", ctx.environment)

(* Slip: a shared log store is not narrowed.                               *)
clusterOptsForgotten(ctx) == {}

(* A log store shared by the environments is narrowed by a label.          *)
clusterOpts(ctx) ==
  IF ctx.ownLogs THEN {} ELSE Given("environment", ctx.environment)

lokiWebVitalsPipeline(ctx) == {"service"} \cup clusterOpts(ctx)
lokiVitalPipeline(ctx) == lokiWebVitalsPipeline(ctx) \cup {"browser"}
lokiVitalByGroupExpr(ctx) == lokiVitalPipeline(ctx)
lokiVitalByPageExpr(ctx) == lokiVitalPipeline(ctx)
lokiVitalAttributionExpr(ctx) == lokiVitalPipeline(ctx)
lokiSessionStartExpr(ctx) == {"service", "browser"} \cup clusterOpts(ctx)

-----------------------------------------------------------------------------
(* The sections of the frontend tab.                                       *)

buildInsightsSection(ctx) ==
  Metrics({"CWV Rating", "Pageloads", "Navigation Type"}, histogramFilter(ctx))
  \cup (IF ctx.hasLoki THEN Logs({"Sessions"}, lokiSessionStartExpr(ctx)) ELSE {})

buildTrendsSection(ctx) ==
  Metrics({"Page Load Vitals", "Interactivity", "Layout Stability"}, histogramFilter(ctx))

buildPerPageSection(ctx) ==
  IF ctx.hasLoki THEN Logs({"Per-Page Performance"}, lokiVitalByPageExpr(ctx)) ELSE {}

buildExceptionTypesItem(ctx) == Metrics({"Exception Types"}, histogramFilter(ctx))

(* With a log store the issues are listed, by a request of their own.      *)
buildErrorsSection(ctx) == IF ctx.hasLoki THEN {} ELSE buildExceptionTypesItem(ctx)

buildBrowserBreakdownSection(ctx) ==
  IF ctx.hasLoki
  THEN Logs({"Browser Breakdown"}, lokiVitalByGroupExpr(ctx))
       \cup Logs({"Browser Volume"}, lokiWebVitalsPipeline(ctx))
  ELSE {}

ATTRIBUTION_PANELS == {"Slowest LCP Elements", "Slowest Interactions", "Layout Shift Sources"}

buildAttributionSection(ctx) ==
  IF ctx.hasLoki THEN Logs(ATTRIBUTION_PANELS, lokiVitalAttributionExpr(ctx)) ELSE {}

buildTrafficSection(ctx) ==
  Metrics({"Web Vitals Measurements", "JavaScript Exceptions"}, histogramFilter(ctx))
  \cup (IF ctx.hasLoki THEN Logs({"Sessions over time"}, lokiSessionStartExpr(ctx)) ELSE {})

FrontendPanels(ctx) ==
  buildInsightsSection(ctx) \cup buildErrorsSection(ctx) \cup buildTrendsSection(ctx)
  \cup buildAttributionSection(ctx) \cup buildPerPageSection(ctx)
  \cup buildBrowserBreakdownSection(ctx) \cup buildTrafficSection(ctx)

-----------------------------------------------------------------------------
(* The scene of the database tab.                                          *)

svcFilter(ctx) ==
  {"service"} \cup Given("namespace", ctx.namespace) \cup Given("environment", ctx.environment)

dbFilter(ctx) == svcFilter(ctx) \cup {"client spans", "database"}

(* The requests and messages that come in: what the ratio is taken of.     *)
inboundFilter(ctx) == svcFilter(ctx) \cup {"server or consumer spans"}

runtimeFilter(ctx) ==
  {"service"} \cup Given("namespace", ctx.namespace) \cup Given("environment", ctx.environment)

HeaderStats(ctx) ==
  Metrics({"Queries per request or message"}, dbFilter(ctx) \cap inboundFilter(ctx))
  \cup Metrics({"Query rate", "Errors", "Duration (P95)"}, dbFilter(ctx))

RedRow(ctx) ==
  Metrics({"Rate by system", "Errors by system", "Duration by system"}, dbFilter(ctx))

PoolRow(ctx) == Metrics({"Wait Time (P95)", "Create Time (P95)"}, runtimeFilter(ctx))

(* Without the names of the metrics there is no scene.                     *)
buildDatabaseScene(ctx) ==
  IF ~ctx.named THEN {}
  ELSE (IF ctx.hasDbSpans THEN HeaderStats(ctx) \cup RedRow(ctx) ELSE {})
       \cup (IF ctx.hasDbPool THEN PoolRow(ctx) ELSE {})

-----------------------------------------------------------------------------
(* Tables that are merged of several queries, each with a limit of its own. *)

(* topk of a function of rows to numbers.                                  *)
topk(k, f) == {r \in DOMAIN f : Cardinality({s \in DOMAIN f : f[s] > f[r]}) < k}

(* An attribution table: what was slowest on average, with the number of   *)
(* its samples.  A sample is known by its target's average and count.      *)
AttributionRows(k, targets) ==
  LET avg == topk(k, [t \in DOMAIN targets |-> targets[t].avg])
      count == topk(k, [t \in DOMAIN targets |-> targets[t].count])
  IN [t \in avg \cup count |-> [avg |-> t \in avg, count |-> t \in count]]

(* The per-page table takes the pages with the highest percentile.         *)
PerPageRows(k, pages) == topk(k, [p \in DOMAIN pages |-> pages[p].avg])

=============================================================================
