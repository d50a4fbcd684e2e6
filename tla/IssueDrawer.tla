---------------------------- MODULE IssueDrawer ----------------------------
(***************************************************************************)
(* The drawer of an issue: src/pages/tabs/frontend/useExceptionDrawer.ts,  *)
(* which finds the issue the URL names, useIssueOccurrences.ts, which      *)
(* loads its occurrences, and components/ExceptionDrawer.tsx, which shows  *)
(* one of them with the timeline, the replay and the feedback that go with *)
(* it.  pages/tabs/IssuesTab.tsx and FrontendTab.tsx mount it.             *)
(*                                                                         *)
(* A range stands for the time range and the environment.  Every request   *)
(* that the components have under way is in flights, with what it asks; a  *)
(* render that asks for something else cancels it, except for a diagnosis. *)
(* An occurrence of a browser has a session, one of a server has none.     *)
(*                                                                         *)
(* Definitions marked "Slip" are wrong variants of the one that follows    *)
(* them.  The specification uses none; each breaks a property below.       *)
(***************************************************************************)
EXTENDS Integers, Sequences, FiniteSets, FiniteSetsExt

CONSTANTS
  Issues,       \* fingerprints
  Source,       \* Source[i]: "browser" or "server"
  Hashes,       \* Hashes[i]: the raw hashes of a browser issue
  SessionOf,    \* SessionOf[o]: the session of an occurrence, or None
  StackOf,      \* StackOf[o]: its minified stack, or None
  BrowserLists, \* what the logs may answer: sequences of occurrences
  ServerLists,  \* what the backend may answer
  Ranges,       \* time ranges
  MaxMoves,     \* bound of the moves of the reader
  None          \* no value

VARIABLES
  url,     \* issue, hash and session of the URL, and the range
  issues,  \* the list of issues that the URL is resolved with
  drawer,  \* the mounted drawer
  flights, \* requests under way
  history  \* moves of the reader, and whether he went back

vars == <<url, issues, drawer, flights, history>>

Links == {[issue |-> i, hash |-> None] : i \in Issues}
           \cup {[issue |-> None, hash |-> h] : h \in UNION {Hashes[i] : i \in Issues}}
Sessions == {SessionOf[o] : o \in DOMAIN SessionOf} \ {None}
Keys == Issues \cup (UNION {Hashes[i] : i \in Issues}) \cup {None}
Stacks == {StackOf[o] : o \in DOMAIN SessionOf}

(* Requests for occurrences, the other requests, and what has been loaded. *)
OccRequest ==
  [kind : {"occurrences"}, of : Keys, server : BOOLEAN, what : SUBSET Keys, resolving : BOOLEAN,
   range : Ranges]
Request(kind, Whats) == [kind : {kind}, of : Keys, what : SUBSET Whats, range : Ranges]
Loaded ==
  [req : OccRequest \cup {None}, range : Ranges, loading : BOOLEAN, error : BOOLEAN,
   list : BrowserLists \cup ServerLists \cup {<< >>}, for : OccRequest \cup {None}, stats : BOOLEAN]
Drawers ==
  [of : Keys, occ : Loaded, index : Nat \ {0},
   crumbs : [req : Request("crumbs", Sessions \cup {None}), loading : BOOLEAN,
             for : Request("crumbs", Sessions \cup {None}) \cup {None}],
   probe : [req : Request("probe", Sessions \cup {None}),
            for : Request("probe", Sessions \cup {None}) \cup {None}, has : BOOLEAN],
   feedback : Request("feedback", Keys) \cup {None},
   doctor : [stack : Stacks \cup {None}, busy : BOOLEAN, result : (SUBSET Stacks) \cup {None}]]

(* Nothing is neither a drawer nor a source; what the logs hold of a       *)
(* browser is listed by its session.                                       *)
ConstantsOK ==
  /\ None \notin Drawers /\ None # "server"
  /\ Ranges # {}
  /\ BrowserLists \cup ServerLists \subseteq Seq(DOMAIN SessionOf)
  /\ \A l \in BrowserLists : \A k \in DOMAIN l : SessionOf[l[k]] # None

-----------------------------------------------------------------------------
(* What the URL and the list of issues say, useExceptionDrawer.            *)

Selected(u, i) == u.issue # None /\ i.data # None /\ u.issue \in i.data

SourceOf(u, i) ==
  IF Selected(u, i) THEN Source[u.issue] ELSE IF u.hash # None THEN "browser" ELSE None

drawerHashes(u, i) ==
  IF u.issue # None THEN IF Selected(u, i) THEN Hashes[u.issue] ELSE {}
  ELSE {u.hash} \ {None}

drawerLoading(u, i) == u.issue # None /\ ~Selected(u, i) /\ i.loading

Mounted(u, i) ==
  drawerLoading(u, i) \/ drawerHashes(u, i) # {} \/ SourceOf(u, i) = "server"

Key(u) == IF u.issue # None THEN u.issue ELSE u.hash

isServer(u, i) == SourceOf(u, i) = "server"

-----------------------------------------------------------------------------
(* What the drawer asks for.                                               *)

(* Slip: the window of the browser request is not a dependency.            *)
OccurrencesAnyRange(u, i) ==
  [kind |-> "occurrences", of |-> Key(u), server |-> isServer(u, i),
   what |-> IF isServer(u, i) THEN {u.issue} ELSE drawerHashes(u, i),
   resolving |-> ~isServer(u, i) /\ drawerLoading(u, i),
   range |-> IF isServer(u, i) THEN u.range ELSE CHOOSE r \in Ranges : TRUE]

OccurrencesAsked(u, i) ==
  [kind |-> "occurrences", of |-> Key(u), server |-> isServer(u, i),
   what |-> IF isServer(u, i) THEN {u.issue} ELSE drawerHashes(u, i),
   resolving |-> ~isServer(u, i) /\ drawerLoading(u, i), range |-> u.range]

(* While the link resolves there is nothing to ask for.                    *)
Askable(r) == ~r.resolving /\ r.what # {}

SessionAsked(u, kind) == [kind |-> kind, of |-> Key(u), what |-> {u.session}, range |-> u.range]
FeedbackAsked(u) == [kind |-> "feedback", of |-> Key(u), what |-> {u.issue}, range |-> u.range]

(* The requests of what is mounted.                                        *)
Requests(u, i) ==
  (IF u.issue = None THEN {} ELSE {[kind |-> "issues", range |-> u.range]})
    \cup (IF ~Mounted(u, i) THEN {}
          ELSE {r \in {OccurrencesAsked(u, i)} : Askable(r)}
                 \cup (IF u.session = None THEN {}
                       ELSE {SessionAsked(u, "crumbs"), SessionAsked(u, "probe")})
                 \cup (IF u.issue = None \/ isServer(u, i) THEN {} ELSE {FeedbackAsked(u)}))

-----------------------------------------------------------------------------
(* The render after a change of the URL or of the issues.                  *)

Opened(u, i) ==
  [of       |-> Key(u),
   occ      |-> [req |-> None, range |-> u.range, loading |-> TRUE, error |-> FALSE,
                 list |-> << >>, for |-> None, stats |-> FALSE],
   index    |-> 1,
   crumbs   |-> [req |-> SessionAsked(u, "crumbs"), loading |-> u.session # None, for |-> None],
   probe    |-> [req |-> SessionAsked(u, "probe"), for |-> None, has |-> FALSE],
   feedback |-> None,
   doctor   |-> [stack |-> None, busy |-> FALSE, result |-> None]]

(* The first occurrence of the session in the URL, or the one picked.      *)
exception(u, d) ==
  IF d.occ.list = << >> THEN None
  ELSE LET list == d.occ.list
           own  == {k \in DOMAIN list : SessionOf[list[k]] # None /\ SessionOf[list[k]] = u.session}
           at   == IF d.index \in DOMAIN list THEN d.index ELSE 1
       IN  list[IF own # {} THEN Min(own) ELSE at]

stacktrace(u, d) == IF exception(u, d) = None THEN None ELSE StackOf[exception(u, d)]

(* A new request: what is there stays, under a spinner.                    *)
OccRendered(o, u, i) ==
  LET r == OccurrencesAsked(u, i)
  IN  IF o.req = r /\ o.range = u.range THEN o
      ELSE [o EXCEPT !.req = r, !.range = u.range, !.loading = TRUE,
                     !.error = @ /\ ~Askable(r)]

CrumbsRendered(c, u) ==
  IF c.req = SessionAsked(u, "crumbs") THEN c
  ELSE [c EXCEPT !.req = SessionAsked(u, "crumbs"), !.loading = @ \/ u.session # None]

ProbeRendered(p, u) ==
  IF p.req = SessionAsked(u, "probe") THEN p
  ELSE [req |-> SessionAsked(u, "probe"), for |-> None, has |-> FALSE]

(* Another stack: the diagnosis of the one before is dropped.              *)
DoctorRendered(d, u) ==
  IF d.doctor.stack = stacktrace(u, d) THEN d
  ELSE [d EXCEPT !.doctor = [stack |-> stacktrace(u, d), busy |-> FALSE, result |-> None]]

Rendered(d, u, i) ==
  IF ~Mounted(u, i) THEN None
  ELSE LET now == IF d = None \/ (d # None /\ d.of # Key(u)) THEN Opened(u, i) ELSE d
       IN  DoctorRendered([now EXCEPT !.occ = OccRendered(@, u, i),
                                      !.crumbs = CrumbsRendered(@, u),
                                      !.probe = ProbeRendered(@, u),
                                      !.feedback = IF isServer(u, i) THEN None ELSE @], u)

(* Slip: what was asked before may still be answered.                      *)
LaunchUncancelled(u, i, f) == f \cup (Requests(u, i) \ Requests(url, issues))

(* A remount asks again; what nobody waits for any more is cancelled.      *)
Launch(u, i, f) ==
  (f \cap Requests(u, i)) \cup (Requests(u, i) \ Requests(url, issues))
    \cup {r \in f : r.kind = "doctor" /\ Mounted(u, i) /\ r.of = Key(u)}

Renders(u, i, d, f) ==
  /\ url' = u /\ issues' = i
  /\ drawer' = Rendered(d, u, i)
  /\ flights' = Launch(u, i, f)

(* useFetch of the issues: skipped without an issue, kept when it was.     *)
IssuesRendered(u) ==
  IF u.issue = None THEN [issues EXCEPT !.loading = FALSE]
  ELSE IF url.issue # None /\ url.range = u.range THEN issues
  ELSE [issues EXCEPT !.loading = issues.data = None, !.error = FALSE]

Init ==
  /\ url = [issue |-> None, hash |-> None, session |-> None, range |-> CHOOSE r \in Ranges : TRUE]
  /\ issues = [data |-> None, loading |-> FALSE, error |-> FALSE]
  /\ drawer = None /\ flights = {}
  /\ history = [moves |-> 0, back |-> FALSE]

-----------------------------------------------------------------------------
(* What the drawer shows.                                                  *)

Shown == exception(url, drawer)

(* The spinner and the error stand over what was loaded before.            *)
HeadShown ==
  [spinner |-> drawer.occ.loading,
   error   |-> drawer.occ.error,
   triage  |-> url.issue # None,
   impact  |-> Shown # None /\ drawer.occ.stats]

StackShown ==
  [stack    |-> IF Shown = None THEN None ELSE StackOf[Shown],
   diagnose |-> Shown # None /\ StackOf[Shown] # None /\ ~drawer.doctor.busy,
   result   |-> drawer.doctor.result]

(* The pickers: pods of a server issue, sessions of a browser issue.       *)
ContextShown ==
  LET list == IF Shown = None \/ ~drawer.occ.stats THEN << >> ELSE drawer.occ.list
      many == Len(list) > 1
  IN  [pods     |-> IF many /\ isServer(url, issues) THEN DOMAIN list ELSE {},
       sessions |-> IF many /\ ~isServer(url, issues) THEN {SessionOf[o] : o \in Range(list)}
                    ELSE {}]

TimelineShown ==
  IF Shown = None \/ SessionOf[Shown] = None THEN [kind |-> "none", for |-> None]
  ELSE IF drawer.crumbs.loading THEN [kind |-> "spinner", for |-> None]
  ELSE [kind |-> IF drawer.crumbs.for = None THEN "empty" ELSE "events", for |-> drawer.crumbs.for]

ReplayShown ==
  IF Shown # None /\ SessionOf[Shown] # None /\ drawer.probe.has THEN drawer.probe.for ELSE None

(* The links to the logs, to the trace, to a new alert.                    *)
FooterShown ==
  [feedback |-> Shown # None /\ drawer.feedback # None,
   logs     |-> Shown # None,
   session  |-> Shown # None /\ ~isServer(url, issues) /\ SessionOf[Shown] # None,
   alert    |-> Shown # None /\ ~isServer(url, issues) /\ drawerHashes(url, issues) # {}]

-----------------------------------------------------------------------------
(* Moves of the reader.                                                    *)

Goes(u) ==
  /\ history.moves < MaxMoves /\ u # url
  /\ Renders(u, IssuesRendered(u), drawer, flights)

Moves(u) == Goes(u) /\ history' = [history EXCEPT !.moves = @ + 1]

(* A row of the list, or a link that may name a session.                   *)
onOpen ==
  /\ drawer = None
  /\ \E l \in Links, s \in Sessions \cup {None} :
       Moves([issue |-> l.issue, hash |-> l.hash, session |-> s, range |-> url.range])

closeDrawer ==
  /\ drawer # None
  /\ Moves([url EXCEPT !.issue = None, !.hash = None, !.session = None])

setRange == \E r \in Ranges : Moves([url EXCEPT !.range = r])

(* The picker offers the sessions of the occurrences.                      *)
handleSessionChange ==
  /\ drawer # None
  /\ \E s \in ContextShown.sessions : Moves([url EXCEPT !.session = s])

(* The entry before the session was chosen.                                *)
Back ==
  /\ drawer # None /\ url.session # None
  /\ \E s \in Sessions \cup {None} : Goes([url EXCEPT !.session = s])
  /\ history' = [moves |-> history.moves + 1, back |-> TRUE]

setServerIndex ==
  /\ drawer # None
  /\ \E k \in ContextShown.pods \ {drawer.index} :
       Renders(url, issues, [drawer EXCEPT !.index = k], flights)
  /\ history.moves < MaxMoves /\ history' = [history EXCEPT !.moves = @ + 1]

runDiagnosis ==
  /\ drawer # None /\ StackShown.diagnose
  /\ history.moves < MaxMoves /\ history' = [history EXCEPT !.moves = @ + 1]
  /\ drawer' = [drawer EXCEPT !.doctor.busy = TRUE]
  /\ flights' = flights \cup {[kind |-> "doctor", of |-> drawer.of, what |-> {StackShown.stack}]}
  /\ UNCHANGED <<url, issues>>

-----------------------------------------------------------------------------
(* Answers.                                                                *)

IssuesArrive(f, found) ==
  /\ f.kind = "issues"
  /\ Renders(url, [data |-> found, loading |-> FALSE, error |-> FALSE], drawer, flights \ {f})
  /\ UNCHANGED history

IssuesFail(f) ==
  /\ f.kind = "issues"
  /\ Renders(url, [issues EXCEPT !.loading = FALSE, !.error = TRUE], drawer, flights \ {f})
  /\ UNCHANGED history

(* Slip: the session of the URL stays.                                     *)
SessionKept(list) == url.session

(* The session of the newest occurrence, unless the URL names one of them. *)
SessionDefault(list) ==
  IF list = << >> \/ \E o \in Range(list) : SessionOf[o] # None /\ SessionOf[o] = url.session
  THEN url.session
  ELSE IF SessionOf[list[1]] # None THEN SessionOf[list[1]] ELSE url.session

With(f, list, stats) ==
  [drawer EXCEPT !.occ.list = list, !.occ.for = f, !.occ.loading = FALSE, !.occ.stats = stats,
                 !.occ.error = ~stats,
                 !.index = IF Len(list) = Len(drawer.occ.list) THEN @ ELSE 1]

ServerArrive(f, list) ==
  /\ f.kind = "occurrences" /\ f.server
  /\ Renders(url, issues, With(f, list, list # << >>), flights \ {f})
  /\ UNCHANGED history

(* Occurrences without a session are counted, and not listed.              *)
BrowserArrive(f, list, counted) ==
  /\ f.kind = "occurrences" /\ ~f.server
  /\ list # << >> => counted
  /\ Renders([url EXCEPT !.session = SessionDefault(list)], issues,
             With(f, list, counted), flights \ {f})
  /\ history' = [history EXCEPT !.back = FALSE]

OccurrencesFail(f) ==
  /\ f.kind = "occurrences"
  /\ drawer' = [drawer EXCEPT !.occ.loading = FALSE, !.occ.error = TRUE]
  /\ flights' = flights \ {f}
  /\ UNCHANGED <<url, issues, history>>

(* A timeline that fails leaves the one before.                            *)
CrumbsAnswer(f, ok) ==
  /\ f.kind = "crumbs"
  /\ drawer' = [drawer EXCEPT !.crumbs.loading = FALSE, !.crumbs.for = IF ok THEN f ELSE @]
  /\ flights' = flights \ {f}
  /\ UNCHANGED <<url, issues, history>>

ProbeAnswer(f, for, has) ==
  /\ f.kind = "probe"
  /\ drawer' = [drawer EXCEPT !.probe.for = for, !.probe.has = has]
  /\ flights' = flights \ {f}
  /\ UNCHANGED <<url, issues, history>>

FeedbackAnswer(f, for) ==
  /\ f.kind = "feedback"
  /\ drawer' = [drawer EXCEPT !.feedback = for]
  /\ flights' = flights \ {f}
  /\ UNCHANGED <<url, issues, history>>

(* Nothing says that the stack is still the one that was diagnosed.        *)
DoctorAnswer(f, ok) ==
  /\ f.kind = "doctor"
  /\ drawer' = [drawer EXCEPT !.doctor.busy = FALSE, !.doctor.result = IF ok THEN f.what ELSE @]
  /\ flights' = flights \ {f}
  /\ UNCHANGED <<url, issues, history>>

Reader ==
  \/ onOpen \/ closeDrawer \/ setRange \/ handleSessionChange \/ Back
  \/ setServerIndex \/ runDiagnosis

Answers ==
  \E f \in flights :
    \/ \E found \in SUBSET Issues : IssuesArrive(f, found)
    \/ IssuesFail(f)
    \/ \E l \in ServerLists : ServerArrive(f, l)
    \/ \E l \in BrowserLists, c \in BOOLEAN : BrowserArrive(f, l, c)
    \/ OccurrencesFail(f)
    \/ \E ok \in BOOLEAN : CrumbsAnswer(f, ok) \/ DoctorAnswer(f, ok)
    \/ \E for \in {f, None}, has \in BOOLEAN : ProbeAnswer(f, for, has)
    \/ \E for \in {f, None} : FeedbackAnswer(f, for)

Next == Reader \/ Answers

(* Every request is answered or fails.                                     *)
Fairness == WF_vars(Answers)

Spec == Init /\ [][Next]_vars /\ Fairness

-----------------------------------------------------------------------------
(* A drawer is mounted exactly when the URL and the issues ask for one, and *)
(* all that is under way is asked by what is mounted.                      *)
DrawerTypeOK ==
  /\ (drawer # None) = Mounted(url, issues)
  /\ \A f \in flights : f.kind \in {"issues", "occurrences", "crumbs", "probe", "feedback", "doctor"}
  /\ drawer # None => drawer \in Drawers /\ drawer.of = Key(url) /\ HeadShown.triage = (url.issue # None)
  /\ issues.loading => \E f \in flights : f.kind = "issues"

(* Unless the drawer says that it is loading or has failed, the occurrence *)
(* it shows is one of the issue and the range that the URL names, and,     *)
(* until the reader goes back in the history of the browser, the session   *)
(* of the URL is the one of that occurrence: the timeline and the replay   *)
(* are asked for it (useIssueOccurrences.ts, the effect of the session).   *)
OccurrencesAreAsked ==
  drawer # None /\ ~HeadShown.spinner /\ ~HeadShown.error /\ Shown # None =>
    /\ drawer.occ.for.of = Key(url)
    /\ drawer.occ.for.range = url.range
    /\ drawer.occ.for.what = OccurrencesAsked(url, issues).what
    /\ ~isServer(url, issues) /\ ~history.back => url.session = SessionOf[Shown]

(* The drawer does not spin for ever: what it waits for was asked, and is  *)
(* asked again after every change (the render sets loading, the effect     *)
(* asks: two lists of dependencies that must agree).                       *)
SpinnerEnds == (drawer # None /\ HeadShown.spinner) ~> (drawer = None \/ ~HeadShown.spinner)

(* Violated.  useExceptionDrawer.ts:14 says that a link shows a loading    *)
(* drawer until the issues land; when issues of another range are there,   *)
(* and the one of the link is not among them, it shows nothing.            *)
DeepLinkShows == (\E f \in flights : f.kind = "issues") => drawer # None

(* Violated.  A drawer that has loaded shows an occurrence or says why not. *)
NoBlankDrawer == drawer # None => HeadShown.spinner \/ HeadShown.error \/ Shown # None

(* Violated.  The timeline is of the session that is shown.                *)
TimelineOfSession ==
  drawer # None /\ ~HeadShown.spinner /\ ~HeadShown.error /\ TimelineShown.kind = "events" =>
    TimelineShown.for.what = {SessionOf[Shown]}

(* Violated.  The timeline stops spinning, too: not when the reader goes   *)
(* back to a URL without a session before the events have arrived.         *)
TimelineEnds ==
  (drawer # None /\ TimelineShown.kind = "spinner")
    ~> (drawer = None \/ TimelineShown.kind # "spinner")

(* Violated.  ExceptionDrawer.tsx:462 resets the diagnosis when the stack  *)
(* changes; one that was under way arrives for the next stack.             *)
DiagnosisOfStack ==
  drawer # None /\ StackShown.result # None => StackShown.result = {StackShown.stack}

=============================================================================
