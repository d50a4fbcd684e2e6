---------------------------- MODULE FiringAlerts ----------------------------
(***************************************************************************)
(* The alert rules of a service: how the backend merges what the two rule  *)
(* sources list (pkg/plugin/alerts.go), the tab that shows them            *)
(* (src/pages/tabs/AlertsTab.tsx), the drawer of one rule with its look-up *)
(* of the latest deploy (alerts/FiringAlertDrawer.tsx), and the cards of a *)
(* namespace (namespace/NamespaceAlerts.tsx).                              *)
(*                                                                         *)
(* Rules are asked for once, when the tab is mounted; the manifest is      *)
(* asked for again with every environment.  Names and times are numbers.   *)
(*                                                                         *)
(* Definitions marked "Slip" are wrong variants of the one that follows.   *)
(***************************************************************************)
EXTENDS Ordering, FiniteSetsExt

CONSTANTS
  Configured,   \* the rule sources that are set up, of "mimir" and "grafana"
  Answers,      \* what they may list: a sequence of rules each, None if one fails
  Envs,         \* choices of an environment; None for all of them
  Several,      \* the choices that are a list of environments
  Deploys,      \* deploy annotations of the service's name: [env, at, own]
  InstanceCap,  \* instances of one rule that are passed on
  MaxMoves,     \* bound of what the user does
  None

VARIABLES
  url,       \* the environment, and the rule whose drawer is open
  rules,     \* the request of the rules
  manifest,  \* the request of the PrometheusRule
  deploy,    \* in the open drawer: the key looked up, what was found last
  create,    \* the template that is asked for, the editor opened with one,
             \* whether the tab was left
  moves

alertVars == <<url, rules, manifest, deploy, create, moves>>

F == INSTANCE UseFetch

-----------------------------------------------------------------------------
(* The backend.                                                            *)

orderOf(state) ==
  IF state = "firing" THEN 0
  ELSE IF state = "pending" THEN 1
  ELSE IF state = "inactive" THEN 2 ELSE 99

Earliest(times) == IF times = {} THEN None ELSE Min(times)

Capped(instances) == SubSeq(instances, 1, Min({Len(instances), InstanceCap}))

(* A rule as one source lists it, with its alerts.                         *)
alertRuleSummary(r, source) ==
  LET active == ElementsAt(r.alerts, {j \in DOMAIN r.alerts : r.alerts[j].state \in {"firing", "pending"}})
  IN [name |-> r.name, state |-> r.state, source |-> source, count |-> Len(active),
      since |-> Earliest({a.at : a \in Range(active)}),
      instances |-> Capped(active), truncated |-> Len(active) > InstanceCap]

(* Slip: the state stays that of the rule that was listed first.           *)
MergeCounts(x, r) ==
  [x EXCEPT !.count = @ + r.count,
            !.since = Earliest({x.since, r.since} \ {None}),
            !.instances = Capped(@ \o r.instances),
            !.truncated = @ \/ r.truncated \/ Len(x.instances) + Len(r.instances) > InstanceCap]

(* The same name in another cluster or another source: the worst state,    *)
(* the earliest time, all instances; the source is that of the first.      *)
Merge(x, r) ==
  [x EXCEPT !.state = IF orderOf(r.state) < orderOf(@) THEN r.state ELSE @,
            !.count = @ + r.count,
            !.since = Earliest({x.since, r.since} \ {None}),
            !.instances = Capped(@ \o r.instances),
            !.truncated = @ \/ r.truncated \/ Len(x.instances) + Len(r.instances) > InstanceCap]

NamesOf(list) == {list[i].name : i \in DOMAIN list}

(* The rows of a name, merged one after the other.                         *)
Merging(same) ==
  LET merged[k \in 1 .. Len(same)] == IF k = 1 THEN same[1] ELSE Merge(merged[k - 1], same[k])
  IN merged

Merged(list, n) ==
  LET same == ElementsAt(list, {i \in DOMAIN list : list[i].name = n}) IN Merging(same)[Len(same)]

(* Rows are sorted by how bad they are, then by name.                      *)
dedupeAndSortAlertRules(list) ==
  LET rows == {Merged(list, n) : n \in NamesOf(list)}
      before == {p \in rows \X rows : \/ orderOf(p[1].state) < orderOf(p[2].state)
                                      \/ orderOf(p[1].state) = orderOf(p[2].state) /\ p[1].name < p[2].name}
  IN InOrder(rows, before)

Listed(answer, source) == IF source \in Configured THEN answer[source] ELSE None

Summaries(answer, source) ==
  IF Listed(answer, source) = None THEN << >>
  ELSE [i \in DOMAIN answer[source] |-> alertRuleSummary(answer[source][i], source)]

(* Rules are unavailable only when no source has listed any; one of them   *)
(* that fails goes unnoticed.                                              *)
computeServiceAlerts(answer) ==
  [of |-> answer,
   list |-> dedupeAndSortAlertRules(Summaries(answer, "mimir") \o Summaries(answer, "grafana")),
   unavailable |-> /\ Configured # {}
                   /\ \A source \in {"mimir", "grafana"} : Listed(answer, source) = None]

-----------------------------------------------------------------------------
(* The cards of a namespace: an unknown state is shown with those at work. *)
NamespaceAlerts(list, showInactive) ==
  {r \in Range(list) : r.state # "inactive" \/ showInactive}

(* The tab.                                                                *)
isActive(r) == r.state \in {"firing", "pending"}

AlertsTab ==
  IF rules.loading THEN "spinner"
  ELSE IF rules.error THEN "error"
  ELSE IF rules.data.unavailable THEN "unavailable"
  ELSE IF rules.data.list = << >> THEN "none configured" ELSE "rules"

Rows == IF rules.data = None THEN << >> ELSE rules.data.list

(* The rule of the drawer, None if the name is not among the rules.        *)
selectedRule(u, list) ==
  IF \E r \in Range(list) : r.name = u.alert
  THEN CHOOSE r \in Range(list) : r.name = u.alert ELSE None

hasAlertRoutingContext(env) == env # None /\ env \notin Several

(* The drawer.                                                             *)
FiringAlertDrawer ==
  IF url.alert = None THEN None
  ELSE IF selectedRule(url, Rows) # None THEN "details"
  ELSE IF rules.loading THEN "spinner" ELSE "unavailable"

(* What a look-up is for: environment and start of the alert.              *)
deployKey(u, list) ==
  LET r == selectedRule(u, list)
  IN IF r = None \/ r.since = None THEN None ELSE <<u.env, r.since>>

(* The annotations are asked for by service, and by an environment that is *)
(* one; the newest before the alert is taken.                              *)
fetchLastDeployBefore(key) ==
  LET before == {d \in Deploys : d.at < key[2] /\ (hasAlertRoutingContext(key[1]) => d.env = key[1])}
  IN IF before = {} THEN None ELSE CHOOSE d \in before : \A e \in before : e.at <= d.at

NoLookup == [asked |-> None, last |-> None]

(* Slip: what was found last is shown.                                     *)
LastFound == IF deploy.last = None THEN None ELSE deploy.last.deploy

(* What was found is kept with its key and shown under no other.           *)
deployBeforeFiring ==
  IF deploy.last # None /\ deploy.last.key = deployKey(url, Rows) THEN deploy.last.deploy ELSE None

(* The effect of the drawer: another key cancels the look-up of the last.  *)
Rerendered(u, list) ==
  IF u.alert = None THEN NoLookup
  ELSE IF url.alert = None THEN [NoLookup EXCEPT !.asked = deployKey(u, list)]
  ELSE IF deployKey(u, list) = deployKey(url, Rows) THEN deploy
  ELSE [deploy EXCEPT !.asked = deployKey(u, list)]

-----------------------------------------------------------------------------
Init ==
  /\ url \in [env : Envs \cup {None}, alert : {None, 1}]
  /\ rules = F!Mounted(<<>>, FALSE)
  /\ manifest = F!Mounted(<<url.env>>, FALSE)
  /\ deploy = NoLookup
  /\ create = [asked |-> None, opened |-> None, left |-> FALSE]
  /\ moves = 0

Here == create.opened = None /\ ~create.left

ToUrl(u) ==
  /\ Here /\ moves < MaxMoves /\ moves' = moves + 1
  /\ url' = u /\ u # url
  /\ manifest' = F!Rendered(manifest, <<u.env>>, FALSE)
  /\ deploy' = Rerendered(u, Rows)
  /\ UNCHANGED <<rules, create>>

(* A rule that is at work opens its drawer.                                *)
openDrawer == \E r \in Range(Rows) : isActive(r) /\ ToUrl([url EXCEPT !.alert = r.name])

closeDrawer == url.alert # None /\ ToUrl([url EXCEPT !.alert = None])

setEnv == \E e \in Envs \cup {None} : ToUrl([url EXCEPT !.env = e])

(* A step in the history of the browser may change the rule of the drawer. *)
Back == \E n \in NamesOf(Rows) : url.alert # None /\ ToUrl([url EXCEPT !.alert = n])

(* "Create alert" asks for a template and opens the editor with it.        *)
createAlert ==
  /\ Here /\ moves < MaxMoves /\ moves' = moves + 1
  /\ create.asked = None /\ hasAlertRoutingContext(url.env)
  /\ create' = [create EXCEPT !.asked = url.env]
  /\ UNCHANGED <<url, rules, manifest, deploy>>

goToIssues ==
  /\ Here /\ moves < MaxMoves /\ moves' = moves + 1
  /\ create' = [create EXCEPT !.left = TRUE]
  /\ UNCHANGED <<url, rules, manifest, deploy>>

(* The answer opens the editor wherever the user has gone meanwhile.       *)
TemplateArrives ==
  /\ create.asked # None
  /\ create' = [create EXCEPT !.asked = None, !.opened = create.asked]
  /\ UNCHANGED <<url, rules, manifest, deploy, moves>>

TemplateFails ==
  /\ create.asked # None
  /\ create' = [create EXCEPT !.asked = None]
  /\ UNCHANGED <<url, rules, manifest, deploy, moves>>

getServiceAlerts ==
  /\ Here /\ rules.call # None
  /\ \/ \E a \in Answers :
          rules' = F!Answered(rules, computeServiceAlerts(a))
     \/ rules' = F!Rejected(rules)
  /\ deploy' = IF rules'.data = None THEN deploy ELSE Rerendered(url, rules'.data.list)
  /\ UNCHANGED <<url, manifest, create, moves>>

getNewExceptionsPrometheusRule ==
  /\ Here /\ manifest.call # None
  /\ \/ manifest' = F!Answered(manifest, [of |-> manifest.deps])
     \/ manifest' = F!Rejected(manifest)
  /\ UNCHANGED <<url, rules, deploy, create, moves>>

(* A failure is not told; nothing is shown.                                *)
LookUp ==
  /\ Here /\ deploy.asked # None
  /\ deploy' = [asked |-> None,
                last |-> IF fetchLastDeployBefore(deploy.asked) = None THEN None
                         ELSE [key |-> deploy.asked, deploy |-> fetchLastDeployBefore(deploy.asked)]]
  /\ UNCHANGED <<url, rules, manifest, create, moves>>

LookUpFails ==
  /\ Here /\ deploy.asked # None
  /\ deploy' = [deploy EXCEPT !.asked = None]
  /\ UNCHANGED <<url, rules, manifest, create, moves>>

Backend ==
  \/ getServiceAlerts \/ getNewExceptionsPrometheusRule \/ LookUp \/ LookUpFails
  \/ TemplateArrives \/ TemplateFails

Next == openDrawer \/ closeDrawer \/ setEnv \/ Back \/ createAlert \/ goToIssues \/ Backend

(* Every request is answered or fails.                                     *)
Fairness == WF_alertVars(Backend)

Spec == Init /\ [][Next]_alertVars /\ Fairness

-----------------------------------------------------------------------------
(* Names and times stand for strings in their order.                       *)
Rules == [name : Int, state : STRING, alerts : Seq([state : STRING, at : Nat])]

ConstantsOK ==
  /\ MaxMoves \in Nat /\ InstanceCap \in Nat /\ None \notin Nat
  /\ \A a \in Answers, s \in Configured : a[s] = None \/ a[s] \in Seq(Rules)

AlertsTypeOK ==
  /\ rules.deps = << >> /\ manifest.deps = <<url.env>>
  /\ rules.data # None => rules.data.of \in Answers
  /\ deploy.asked # None => url.alert # None
  /\ moves \in 0..MaxMoves

(* The alerts that fire or are about to under a name, whatever source      *)
(* listed them.                                                            *)
AtWork(answer, n) ==
  UNION {UNION {{[at |-> answer[s][i].alerts[j].at, key |-> <<s, i, j>>] :
                   j \in {j \in DOMAIN answer[s][i].alerts : isActive(answer[s][i].alerts[j])}} :
                i \in {i \in DOMAIN answer[s] : answer[s][i].name = n}} :
         s \in {s \in {"mimir", "grafana"} : Listed(answer, s) # None}}

SaysFiring(answer, n) ==
  \E s \in {"mimir", "grafana"} : Listed(answer, s) # None
    /\ \E r \in Range(answer[s]) : r.name = n /\ r.state = "firing"

(* One row for each name; a row is firing when any source says so of that  *)
(* name, counts every alert at work under it, dates it by the earliest,    *)
(* and says so when instances are left out; firing rows come first, and a  *)
(* namespace hides only rules that are inactive.                           *)
RowsTellWorst ==
  /\ \A i, j \in DOMAIN Rows : i < j => Rows[i].name # Rows[j].name
                                       /\ orderOf(Rows[i].state) <= orderOf(Rows[j].state)
  /\ \A r \in Range(Rows) :
       LET work == AtWork(rules.data.of, r.name)
       IN /\ r.state = "firing" <=> SaysFiring(rules.data.of, r.name)
          /\ r.count = Cardinality(work)
          /\ r.since = Earliest({w.at : w \in work})
          /\ r.truncated <=> Len(r.instances) < r.count
          /\ r \notin NamespaceAlerts(Rows, FALSE) => r.state = "inactive"

(* The deploy a drawer names is the one looked up for the alert it shows   *)
(* in the environment of the page, whatever was shown or asked before.     *)
DeployOfDrawer ==
  deployBeforeFiring # None =>
    LET key == <<url.env, selectedRule(url, Rows).since>>
    IN FiringAlertDrawer = "details" /\ deployBeforeFiring = fetchLastDeployBefore(key)

Waits ==
  /\ Here
  /\ AlertsTab = "spinner" \/ FiringAlertDrawer = "spinner" \/ manifest.loading \/ create.asked # None

(* Neither the rules, nor the drawer, the manifest or the button stay      *)
(* waiting for ever.                                                       *)
AlertsComeUp == Waits ~> ~Waits

(* Violated.  The current value is one of an alert in the state shown.     *)
ValueIsOfState ==
  \A r \in Range(Rows) : r.state = "firing" => Head(r.instances).state = "firing"

(* Violated.  A rule is said to come from a source that says what is shown. *)
SourceOfState ==
  \A r \in Range(Rows) : r.state = "firing" =>
    \E x \in Range(rules.data.of[r.source]) : x.name = r.name /\ x.state = "firing"

(* Violated.  "No alerts configured" is said only when both sources agree. *)
NoRulesIsTrue ==
  AlertsTab = "none configured" => \A s \in Configured : rules.data.of[s] # None

(* Violated.  The manifest to commit is that of the environment chosen.    *)
ManifestOfEnvironment ==
  manifest.data # None /\ ~manifest.loading /\ ~manifest.error => manifest.data.of = <<url.env>>

(* Violated.  The editor opens for the page the user is on.                *)
TemplateOfPage == create.opened # None => create.opened = url.env /\ ~create.left

(* Violated.  The deploy is one of this service, not of another's of the   *)
(* same name in another namespace.                                         *)
DeployIsOwn == deployBeforeFiring # None => deployBeforeFiring.own

=============================================================================
