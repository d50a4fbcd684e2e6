---------------------------- MODULE IssueTriage ----------------------------
(***************************************************************************)
(* The list of issues of a service and the triage of them:                 *)
(* src/pages/tabs/frontend/components/IssuesTable.tsx and                  *)
(* src/utils/userStorage.ts, which keeps the mutes of the reader.          *)
(*                                                                         *)
(* The backend is the register that TriageRegister specifies: a status     *)
(* and a revision for every issue.  Other users act on it as well.  A post *)
(* is recorded, then the register is read for the answer; a read that      *)
(* fails is answered too, with an issue nobody has touched.  Posts and     *)
(* answers overtake each other, and any call may fail.                     *)
(*                                                                         *)
(* Definitions marked "Slip" are wrong variants of the one that follows    *)
(* them.  The specification uses none; each breaks a property below.       *)
(***************************************************************************)
EXTENDS Integers, Sequences, FiniteSets, SequencesExt, Ordering

CONSTANTS
  Lists,      \* what getIssues may answer: sequences of issues
  Server,     \* the issues of the server logs; the others are of browsers
  PageSize,   \* rows of a page
  InitialMutes, \* what the mutes of the reader may be at the beginning
  MaxSteps,   \* bound of the actions and moves of all users
  Waiting,    \* a read that the backend has not begun
  None        \* no answer, no override, no issue

VARIABLES
  log,        \* the register of the backend
  groups,     \* the issues of the last answer
  states,     \* the register as the table has read it
  asked,      \* the read of the table that is on its way: None, Waiting, a copy
  overrides,  \* what the posts of the table were answered with
  deployed,   \* the revision the latest deploy came after, as far as is known
  posts,      \* posts on their way, and the answers to them
  mutes,      \* mutes that are shown, that are stored, and whether they arrived
  view,       \* filters, facets and page
  history     \* revisions given out, what was acknowledged, what is counted

vars == <<log, groups, states, asked, overrides, deployed, posts, mutes, view, history>>

Issues == UNION {Range(l) : l \in Lists}
Actions == {"resolve", "ignore", "unresolve"}
Register == [status : {"active", "resolved", "ignored"}, rev : Nat]
Fresh == [status |-> "active", rev |-> 0]

(* Nothing is neither an answer nor a list, and a page holds some rows.    *)
ConstantsOK ==
  /\ Lists \subseteq Seq(Issues)
  /\ None \notin Lists
  /\ \A m \in InitialMutes : m \subseteq Issues
  /\ PageSize \in Nat \ {0}
  /\ MaxSteps \in Nat
  /\ None # Waiting /\ None \notin Register
  /\ None \notin [Issues -> Register] /\ Waiting \notin [Issues -> Register]

Init ==
  /\ log = [i \in Issues |-> Fresh]
  /\ groups = None /\ states = None /\ asked = Waiting
  /\ overrides = [i \in Issues |-> None]
  /\ deployed = 0
  /\ posts = {}
  /\ mutes \in [shown : {{}}, stored : InitialMutes, loaded : {FALSE}]
  /\ view = [filter |-> "unresolved", source |-> "all", facet |-> FALSE, muted |-> FALSE,
             page |-> 1]
  /\ history = [clock |-> 0, acked |-> [i \in Issues |-> 0], overlap |-> FALSE,
                steps |-> 0]

-----------------------------------------------------------------------------
(* What the table shows.                                                   *)

(* Slip: what was read counts for more than the answer to a post.          *)
StateRead(i) ==
  IF states # None THEN states[i] ELSE IF overrides[i] # None THEN overrides[i] ELSE Fresh

stateOf(i) ==
  IF overrides[i] # None THEN overrides[i] ELSE IF states # None THEN states[i] ELSE Fresh

(* Resolved, and seen again although a deploy came after that.             *)
isRegressed(i) ==
  /\ stateOf(i).status = "resolved"
  /\ deployed > 0 /\ stateOf(i).rev < deployed

(* A facet is about browsers, and locks the source.                        *)
effectiveSource == IF view.facet THEN "browser" ELSE view.source

OfSource(i) ==
  \/ effectiveSource = "all"
  \/ effectiveSource = "server" /\ i \in Server
  \/ effectiveSource = "browser" /\ i \notin Server

HiddenAsMuted(i) == view.filter = "unresolved" /\ i \in mutes.shown /\ ~view.muted

Wanted(i) ==
  CASE view.filter = "unresolved" ->
         /\ stateOf(i).status # "ignored"
         /\ stateOf(i).status = "resolved" => isRegressed(i)
    [] view.filter = "all" -> TRUE
    [] OTHER -> stateOf(i).status = view.filter

Visible(i) == OfSource(i) /\ ~HiddenAsMuted(i) /\ Wanted(i)

(* The rows of all pages, regressions on top.                              *)
RowsThat(regressed) ==
  ElementsAt(groups, {k \in DOMAIN groups : Visible(groups[k]) /\ isRegressed(groups[k]) = regressed})

rows == IF groups = None THEN << >> ELSE RowsThat(TRUE) \o RowsThat(FALSE)

mutedCount ==
  IF groups = None THEN 0
  ELSE Cardinality({i \in Range(groups) : OfSource(i) /\ HiddenAsMuted(i)})

totalPages == IF rows = << >> THEN 1 ELSE (Len(rows) + PageSize - 1) \div PageSize

(* Slip: a page that is gone stays selected.                               *)
PageSelected == view.page

page == IF view.page > totalPages THEN totalPages ELSE view.page

pageGroups ==
  SubSeq(rows, (page - 1) * PageSize + 1,
         IF page * PageSize > Len(rows) THEN Len(rows) ELSE page * PageSize)

Offered(s) == IF s.status = "active" THEN {"resolve", "ignore"} ELSE {"unresolve"}

(* A regression keeps the buttons of what is resolved.                     *)
RowShown(i) ==
  [issue   |-> i,
   badge   |-> IF isRegressed(i) THEN "regressed" ELSE stateOf(i).status,
   muted   |-> i \in mutes.shown,
   offered |-> Offered(stateOf(i))]

(* The switches over the list: the status, and the source unless a facet   *)
(* is chosen; a facet can be cleared with its chip or with all others.     *)
HeaderShown ==
  [source |-> IF view.facet THEN {} ELSE {"all", "browser", "server"} \ {view.source},
   status |-> {"unresolved", "all", "resolved", "ignored"} \ {view.filter},
   facet  |-> IF view.facet THEN {"clear", "clear all"} ELSE {"choose"}]

(* The list, and under it the switch of the mutes, the count and the pages. *)
ListShown ==
  IF groups = None \/ groups = << >> THEN [rows |-> << >>, toggle |-> {}, count |-> 0, pages |-> {}]
  ELSE [rows   |-> [k \in DOMAIN pageGroups |-> RowShown(pageGroups[k])],
        toggle |-> (IF view.filter = "unresolved" /\ mutedCount > 0 /\ ~view.muted THEN {"show"} ELSE {})
                     \cup (IF view.muted THEN {"hide"} ELSE {}),
        count  |-> Len(rows),
        pages  |-> (1 .. totalPages) \ {page}]

-----------------------------------------------------------------------------
(* Reading.                                                                *)

IssuesArrive(l) ==
  /\ groups' = l
  /\ UNCHANGED <<log, states, asked, overrides, deployed, posts, mutes, view, history>>

(* The versions of the service name the latest deploy, once.               *)
VersionsArrive ==
  /\ deployed = 0
  /\ deployed' = history.clock + 1
  /\ UNCHANGED <<log, groups, states, asked, overrides, posts, mutes, view, history>>

StatesRead ==
  /\ asked = Waiting /\ asked' = log
  /\ UNCHANGED <<log, groups, states, overrides, deployed, posts, mutes, view, history>>

StatesArrive ==
  /\ asked \notin {None, Waiting}
  /\ states' = asked /\ asked' = None
  /\ UNCHANGED <<log, groups, overrides, deployed, posts, mutes, view, history>>

(* The table does without: badges and filters degrade.                     *)
StatesFail ==
  /\ asked # None /\ asked' = None
  /\ UNCHANGED <<log, groups, states, overrides, deployed, posts, mutes, view, history>>

-----------------------------------------------------------------------------
(* Acting.                                                                 *)

After(a, r) ==
  [status |-> CASE a = "resolve" -> "resolved" [] a = "ignore" -> "ignored" [] OTHER -> "active",
   rev |-> r]

Pending(i) == \E p \in posts : p.issue = i

(* A button of a row, which stays where it is until the answer comes.      *)
act(i, a) ==
  /\ history.steps < MaxSteps
  /\ \E r \in Range(ListShown.rows) : r.issue = i /\ a \in r.offered
  /\ posts' = posts \cup {[from |-> "row", issue |-> i, act |-> a, nr |-> history.steps,
                           rev |-> 0, state |-> None]}
  /\ history' = [history EXCEPT !.steps = @ + 1, !.overlap = @ \/ Pending(i)]
  /\ UNCHANGED <<log, groups, states, asked, overrides, deployed, mutes, view>>

PostStored(p) ==
  /\ p \in posts /\ p.rev = 0
  /\ log' = [log EXCEPT ![p.issue] = After(p.act, history.clock + 1)]
  /\ posts' = (posts \ {p}) \cup {[p EXCEPT !.rev = history.clock + 1]}
  /\ history' = [history EXCEPT !.clock = @ + 1]
  /\ UNCHANGED <<groups, states, asked, overrides, deployed, mutes, view>>

(* What is recorded is read back for the row that waits for it, or said to *)
(* be untouched when that fails.                                           *)
PostRead(p) ==
  /\ p \in posts /\ p.from = "row" /\ p.rev > 0 /\ p.state = None
  /\ \E s \in {log[p.issue], Fresh} : posts' = (posts \ {p}) \cup {[p EXCEPT !.state = s]}
  /\ UNCHANGED <<log, groups, states, asked, overrides, deployed, mutes, view, history>>

Later(r, s) == IF r > s THEN r ELSE s

(* The answer is kept as an override, and the register is read again.      *)
RowAnswered(p) ==
  /\ p \in posts /\ p.from = "row" /\ p.state # None
  /\ posts' = posts \ {p}
  /\ overrides' = [overrides EXCEPT ![p.issue] = p.state]
  /\ asked' = Waiting
  /\ history' = [history EXCEPT !.acked[p.issue] = Later(history.acked[p.issue], p.rev)]
  /\ UNCHANGED <<log, groups, states, deployed, mutes, view>>

(* A post that failed may have been recorded, or be recorded yet.          *)
Without(p) ==
  (posts \ {p}) \cup {[q EXCEPT !.from = "nobody"] : q \in {q \in {p} : q.rev = 0}}

(* An error is toasted, and the register is read again.                    *)
RowFails(p) ==
  /\ p \in posts /\ p.from = "row"
  /\ posts' = Without(p)
  /\ asked' = Waiting
  /\ UNCHANGED <<log, groups, states, overrides, deployed, mutes, view, history>>

Forgotten(p) ==
  /\ p \in posts /\ p.from = "nobody"
  /\ posts' = posts \ {p}
  /\ UNCHANGED <<log, groups, states, asked, overrides, deployed, mutes, view, history>>

OthersAct(i, a) ==
  /\ history.steps < MaxSteps
  /\ a \in Offered(log[i])
  /\ log' = [log EXCEPT ![i] = After(a, history.clock + 1)]
  /\ history' = [history EXCEPT !.steps = @ + 1, !.clock = @ + 1]
  /\ UNCHANGED <<groups, states, asked, overrides, deployed, posts, mutes, view>>

-----------------------------------------------------------------------------
(* Mutes and filters.                                                      *)

MutesArrive ==
  /\ ~mutes.loaded
  /\ mutes' = [mutes EXCEPT !.shown = mutes.stored, !.loaded = TRUE]
  /\ UNCHANGED <<log, groups, states, asked, overrides, deployed, posts, view, history>>

(* All of them are written, whether they were read before or not.          *)
toggleMute(i) ==
  /\ history.steps < MaxSteps /\ \E r \in Range(ListShown.rows) : r.issue = i
  /\ LET next == (mutes.shown \ {i}) \cup ({i} \ mutes.shown)
     IN  mutes' = [mutes EXCEPT !.shown = next, !.stored = next]
  /\ history' = [history EXCEPT !.steps = @ + 1]
  /\ UNCHANGED <<log, groups, states, asked, overrides, deployed, posts, view>>

ToView(v) ==
  /\ history.steps < MaxSteps
  /\ view' = v
  /\ history' = [history EXCEPT !.steps = @ + 1]
  /\ UNCHANGED <<log, groups, states, asked, overrides, deployed, posts, mutes>>

setFilter == \E f \in HeaderShown.status : ToView([view EXCEPT !.filter = f])
setSourceFilter == \E s \in HeaderShown.source : ToView([view EXCEPT !.source = s])

(* What a facet narrows the list to is asked for, and arrives later.       *)
setFacet ==
  \E f \in HeaderShown.facet \cap {"choose", "clear"} :
    ToView([view EXCEPT !.facet = (f = "choose"), !.page = 1])
clearAll == "clear all" \in HeaderShown.facet /\ ToView([view EXCEPT !.facet = FALSE])

setShowMuted == \E t \in ListShown.toggle : ToView([view EXCEPT !.muted = (t = "show")])
setPage == \E p \in ListShown.pages : ToView([view EXCEPT !.page = p])

Reader ==
  \/ \E i \in Issues : toggleMute(i) \/ \E a \in Actions : act(i, a)
  \/ setFilter \/ setSourceFilter \/ setFacet \/ clearAll \/ setShowMuted \/ setPage

Answers ==
  \/ \E l \in Lists : IssuesArrive(l)
  \/ VersionsArrive \/ StatesRead \/ StatesArrive \/ StatesFail
  \/ MutesArrive
  \/ \E p \in posts : PostStored(p) \/ PostRead(p) \/ RowAnswered(p) \/ RowFails(p) \/ Forgotten(p)

Next ==
  \/ Reader \/ Answers
  \/ \E i \in Issues, a \in Actions : OthersAct(i, a)

Spec == Init /\ [][Next]_vars

-----------------------------------------------------------------------------
(* What is kept is a state of the register, of now or of before.           *)
TriageTypeOK ==
  /\ \A i \in Issues : log[i].status \in {"active", "resolved", "ignored"}
  /\ \A i \in Issues : stateOf(i).rev <= log[i].rev
  /\ mutes.shown \subseteq Issues /\ mutes.stored \subseteq Issues

(* Once an action of a row is acknowledged, the row never again shows what *)
(* was before it, though a read that began earlier ends later, as long as  *)
(* actions on the issue do not overlap (IssuesTable.tsx, the optimistic    *)
(* overrides).  The one exception is a row whose last answer came without  *)
(* the register: recorded, not read back, and said to be untouched         *)
(* (triage.go:374-379).  Such a row may show what was before the action.   *)
RowKeepsAct ==
  ~history.overlap =>
    \A i \in Issues : overrides[i] # Fresh => history.acked[i] <= stateOf(i).rev

(* Violated.  The same of every row: IssuesTable.tsx:117 takes the answer  *)
(* to a post instead of reading the table again, and the answer after a    *)
(* failed read-back hides the action from the one who made it, even once   *)
(* the register was read again.                                            *)
AckedRowShowsAct ==
  ~history.overlap => \A i \in Issues : history.acked[i] <= stateOf(i).rev

(* A reader is never left on a page without rows while there are rows,     *)
(* whatever leaves the list: by an action, a mute, a filter, a reload.     *)
PageNotStranded ==
  LET shown == ListShown
  IN  /\ shown.count > 0 => shown.rows # << >>
      /\ view.page > page /\ page \notin shown.pages => page = totalPages

(* Violated.  IssuesTable.tsx:70 says that the state of an issue is shared *)
(* across users through the log of the backend: when everything is         *)
(* answered, and the register was read after the last action on an issue,  *)
(* its row shows what is in it.  An override outlives what is read later.  *)
RowShowsLog ==
  asked = None /\ posts = {} /\ states # None =>
    \A i \in Issues : states[i] = log[i] => stateOf(i) = log[i]

=============================================================================
