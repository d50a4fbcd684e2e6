----------------------------- MODULE TriageLog -----------------------------
(***************************************************************************)
(* Issue triage of pkg/plugin/triage.go: an append-only log of events in   *)
(* Grafana's annotations, folded newest-event-wins on every read.  The     *)
(* requests are those of one service (every query carries its app: tag);   *)
(* they run on any replica and share nothing but the log.  Every API call  *)
(* is a step, so other requests may append between the pages of a read and *)
(* between a write and its read-back.                                      *)
(*                                                                         *)
(* Definitions marked "Slip" are wrong variants of the one that follows    *)
(* them.  The specification uses none; each breaks a property below.       *)
(***************************************************************************)
EXTENDS Annotations, Sequences

CONSTANTS
  Requests,     \* requests to the three triage endpoints
  Fps,          \* issue fingerprints
  Assignees,
  NoOne,        \* no actor, no assignee, no version
  Reads,        \* kinds of read requests: states, history
  Actions,      \* bodies of POST requests: [act, fp, assignee]
  InitialLogs,  \* logs there may be at the start
  FirstId,      \* the id the store gives out next
  Limit,        \* maxTriageEvents
  MaxPages,     \* maxTriagePages
  Skew,         \* how far the clocks of the replicas may lag
  Faults,       \* TRUE when API calls may fail
  StartTime,    \* first value of the clock
  MaxNow        \* bound: last value of the clock

VARIABLES
  now,          \* wall clock, in milliseconds
  log,          \* rows with the app: tag of the service
  nextId,       \* next annotation id
  req           \* state of each request

vars == <<now, log, nextId, req>>

StatusOf == [resolve |-> "resolved", ignore |-> "ignored", unresolve |-> "active"]
StatusActs == DOMAIN StatusOf

(* A row of the log.  act is "other" when the row is no triage event:      *)
(* without the triage tag or the fingerprint tag, or with a text that does *)
(* not parse.  The version an event carries is its author's own, so by     *)
(* stands for it too.                                                      *)
Row == [id : Nat \ {0}, time : Nat \ {0}, fp : Fps,
        act : StatusActs \cup {"assign", "other"},
        assignee : Assignees \cup {NoOne}, by : Requests \cup {NoOne}]

ASSUME LogAssumption ==
  /\ FirstId \in Nat \ {0}
  /\ NoOne \notin Requests
  /\ \A l \in InitialLogs : l \subseteq Row /\ \A r \in l : r.id < FirstId /\ r.by = NoOne
  /\ Limit \in Nat \ {0} /\ MaxPages \in Nat \ {0}
  /\ StartTime \in Nat \ {0} /\ MaxNow \in Nat /\ Skew \in Nat
  /\ StartTime > Skew
  /\ Faults \in BOOLEAN
  /\ Reads \subseteq {"states", "history"}
  /\ Actions \subseteq [act : StatusActs \cup {"assign"}, fp : Fps,
                        assignee : Assignees \cup {NoOne}]

IsEvent(r) == r.act # "other"

-----------------------------------------------------------------------------
(* The fold of States.  pages is what fetch collected: a sequence of pages,*)
(* each newest first; rows of one page with the same timestamp come in an  *)
(* arbitrary order.                                                        *)

(* Slip: the oldest event wins.                                            *)
Oldest(pages, fp, Acts) ==
  LET hit == {r \in UNION {pages[i] : i \in DOMAIN pages} : r.fp = fp /\ r.act \in Acts}
  IN {r \in hit : \A s \in hit : s.time >= r.time}

(* The rows that may come first among those of fp with an action in Acts.  *)
First(pages, fp, Acts) ==
  LET hits(i) == {r \in pages[i] : r.fp = fp /\ r.act \in Acts}
      hit == {i \in DOMAIN pages : hits(i) # {}}
      page == CHOOSE i \in hit : \A j \in hit : i <= j
  IN IF hit = {} THEN {} ELSE {r \in hits(page) : \A s \in hits(page) : s.time <= r.time}

(* Slip: assigning an issue opens it again.                                *)
ReopenedOnAssign(S, A, u) ==
  [status    |-> IF A # {} THEN "active"
                 ELSE IF S # {} THEN StatusOf[(CHOOSE s \in S : TRUE).act] ELSE "none",
   version   |-> IF S # {} THEN (CHOOSE s \in S : TRUE).by ELSE NoOne,
   assignee  |-> IF A # {} THEN (CHOOSE a \in A : TRUE).assignee ELSE NoOne,
   updatedAt |-> IF u = {} THEN 0 ELSE (CHOOSE r \in u : TRUE).time,
   updatedBy |-> IF u = {} THEN NoOne ELSE (CHOOSE r \in u : TRUE).by]

(* The state made of the winning status events S and assign events A, each *)
(* a set of at most one, with u the newer of them.                         *)
StateOf(S, A, u) ==
  [status    |-> IF S # {} THEN StatusOf[(CHOOSE s \in S : TRUE).act]
                 ELSE IF A # {} THEN "active" ELSE "none",
   version   |-> IF S # {} THEN (CHOOSE s \in S : TRUE).by ELSE NoOne,
   assignee  |-> IF A # {} THEN (CHOOSE a \in A : TRUE).assignee ELSE NoOne,
   updatedAt |-> IF u = {} THEN 0 ELSE (CHOOSE r \in u : TRUE).time,
   updatedBy |-> IF u = {} THEN NoOne ELSE (CHOOSE r \in u : TRUE).by]

Picks(R) == IF R = {} THEN {{}} ELSE {{r} : r \in R}

(* The states the fold may give fp: status and assignee are decided apart. *)
States(pages, fp) ==
  UNION {{StateOf(S, A, u) :
            u \in Picks({r \in S \cup A : \A s \in S \cup A : s.time <= r.time})} :
         S \in Picks(First(pages, fp, StatusActs)),
         A \in Picks(First(pages, fp, {"assign"}))}

(* History keeps every event of every page; a row on two pages is twice.   *)
History(pages) ==
  [r \in UNION {{e \in pages[i] : IsEvent(e)} : i \in DOMAIN pages} |->
     Cardinality({i \in DOMAIN pages : r \in pages[i]})]

-----------------------------------------------------------------------------
Idle == [pc |-> "new", kind |-> "none", fp |-> {}, action |-> {}, stamp |-> 0,
         pages |-> <<>>, to |-> 0, answer |-> {}, began |-> {}, seen |-> {}]

Init ==
  /\ now = StartTime
  /\ log \in InitialLogs
  /\ nextId = FirstId
  /\ req = [q \in Requests |-> Idle]

Tick ==
  /\ now < MaxNow
  /\ now' = now + 1
  /\ UNCHANGED <<log, nextId, req>>

(* handleTriageStates and handleTriageHistory go straight to fetch.        *)
StartRead(q, kind, fp) ==
  /\ req[q].pc = "new"
  /\ req' = [req EXCEPT ![q] =
       [Idle EXCEPT !.pc = "fetch", !.kind = kind, !.began = log,
                    !.fp = IF kind = "history" THEN {fp} ELSE Fps]]
  /\ UNCHANGED <<now, log, nextId>>

(* handleTriageAction: Record stamps the event with the replica's clock.   *)
StartAction(q, a) ==
  /\ req[q].pc = "new"
  /\ \E t \in now - Skew .. now :
       req' = [req EXCEPT ![q] =
         [Idle EXCEPT !.pc = "record", !.kind = "action", !.began = log,
                      !.fp = {a.fp}, !.action = {a}, !.stamp = t]]
  /\ UNCHANGED <<now, log, nextId>>

Stored(q, a) ==
  [id |-> nextId, time |-> req[q].stamp, fp |-> a.fp, act |-> a.act,
   assignee |-> a.assignee, by |-> q]

Answer(q, error, folded, states, history) ==
  [kind |-> req[q].kind, error |-> error, folded |-> folded, states |-> states,
   history |-> history, fp |-> req[q].fp]

NoStates == [f \in {} |-> {}]

(* q is done; its state before the reply is garbage.                       *)
Reply(q, answer) ==
  req' = [req EXCEPT ![q].pc = "done", ![q].pages = <<>>, ![q].seen = log',
                     ![q].answer = {answer}]

(* Slip: the handler returns without a reply.                              *)
ReturnSilently(q) == req' = [req EXCEPT ![q].pc = "done", ![q].seen = log']

(* The 502 every handler replies when a call it depends on fails.          *)
Refuse(q) == Reply(q, Answer(q, TRUE, FALSE, NoStates, NoStates))

RecordEvent(q) ==
  /\ req[q].pc = "record"
  /\ \E a \in req[q].action : log' = log \cup {Stored(q, a)}
  /\ nextId' = nextId + 1
  /\ \/ req' = [req EXCEPT ![q].pc = "fetch"]
     \/ Faults /\ Refuse(q)          \* stored, but the reply is lost
  /\ UNCHANGED now

RecordFails(q) ==
  /\ Faults
  /\ req[q].pc = "record"
  /\ UNCHANGED <<now, log, nextId>>
  /\ Refuse(q)

(* The rows the query of q matches: States asks by app: tag, History by    *)
(* app: and fp: tag.                                                       *)
Matching(q) ==
  IF req[q].kind = "history" THEN {r \in log : r.fp \in req[q].fp} ELSE log

(* The upper bound of the window: the clock, then the oldest row seen.     *)
Upper(q) == IF req[q].pages = <<>> THEN now ELSE req[q].to

(* fetch ends on a page that is not full, when the window does not shrink  *)
(* and after MaxPages.                                                     *)
LastPage(q, P) ==
  \/ Cardinality(P) < Limit
  \/ \A r \in P : r.time >= Upper(q)
  \/ Len(req[q].pages) + 1 = MaxPages

OldestTime(P) == CHOOSE t \in {r.time : r \in P} : \A r \in P : t <= r.time

(* One call of fetch; from is 0 on every page.                             *)
Page(q, P) == IsPage(P, Matching(q), 0, Upper(q), Limit)

FetchMore(q) ==
  /\ req[q].pc = "fetch"
  /\ \E P \in SUBSET Matching(q) :
       /\ Page(q, P)
       /\ ~LastPage(q, P)
       /\ req' = [req EXCEPT ![q].pages = Append(@, P), ![q].to = OldestTime(P)]
  /\ UNCHANGED <<now, log, nextId>>

(* The last page: fold what was collected and reply.                       *)
FetchLast(q) ==
  /\ req[q].pc = "fetch"
  /\ UNCHANGED <<now, log, nextId>>
  /\ \E P \in SUBSET Matching(q) :
       LET pages == Append(req[q].pages, P) IN
       /\ Page(q, P)
       /\ LastPage(q, P)
       /\ IF req[q].kind = "history"
          THEN Reply(q, Answer(q, FALSE, TRUE, NoStates, History(pages)))
          ELSE \E s \in [req[q].fp -> UNION {States(pages, f) : f \in req[q].fp}] :
                 /\ \A f \in req[q].fp : s[f] \in States(pages, f)
                 /\ Reply(q, Answer(q, FALSE, TRUE, s, NoStates))

(* A failed page is a 502, but after a recorded action it is a reply that  *)
(* says the issue is active.                                               *)
FetchFails(q) ==
  /\ Faults
  /\ req[q].pc = "fetch"
  /\ UNCHANGED <<now, log, nextId>>
  /\ IF req[q].kind = "action"
     THEN Reply(q, Answer(q, FALSE, FALSE,
            [f \in req[q].fp |-> [StateOf({}, {}, {}) EXCEPT !.status = "active"]], NoStates))
     ELSE Refuse(q)

Next ==
  \/ Tick
  \/ \E q \in Requests :
       \/ \E k \in Reads, fp \in Fps : StartRead(q, k, fp)
       \/ \E a \in Actions : StartAction(q, a)
       \/ RecordEvent(q) \/ RecordFails(q)
       \/ FetchMore(q) \/ FetchLast(q) \/ FetchFails(q)

Spec == Init /\ [][Next]_vars

-----------------------------------------------------------------------------
(* Properties.                                                             *)

(* Every variable keeps to the values the code can give it.                *)
TypeOK ==
  /\ now \in Nat \ {0}
  /\ log \subseteq Row
  /\ nextId \in Nat \ {0}
  /\ \A q \in Requests :
       /\ req[q].pc \in {"new", "record", "fetch", "done"}
       /\ req[q].kind \in {"none", "action", "states", "history"}
       /\ req[q].stamp \in Nat /\ req[q].to \in Nat
       /\ \A i \in DOMAIN req[q].pages : req[q].pages[i] \subseteq log
       /\ (req[q].pc = "done") = (req[q].answer # {})

(* While the log is shorter than one page, whatever requests run at once   *)
(* and whichever of their calls fail, triage is the register of            *)
(* TriageRegister: every answer shows the fold of all events there are at  *)
(* one moment of the request, its own included, and assigning an issue     *)
(* never moves its status.                                                 *)
Register == INSTANCE TriageRegister WITH
  events  <- {r \in log : IsEvent(r)},
  answers <- [q \in Requests |-> req[q].answer]

ImplementsRegister == Register!Spec

(* The answers that show a fold.                                           *)
FoldedAnswers(q) == {a \in req[q].answer : a.folded}

(* "A state change is durable once the annotation POST returns - it is     *)
(* visible to every replica's next read" (docs/triage.md:45-46): once the  *)
(* event of an action b is in the log, an action that starts after it and  *)
(* changes the status too is what a read that starts after both shows,     *)
(* never b.                                                                *)
NextReadSeesIt ==
  \A q \in Requests : \A a \in FoldedAnswers(q) : \A fp \in DOMAIN a.states :
    \A b, c \in {r \in req[q].began : r.fp = fp /\ r.act \in StatusActs} :
      c.by # NoOne /\ b.by # NoOne /\ b \in req[c.by].began /\ b.time # c.time
        => a.states[fp].version # b.by

(* "A resolve older than the newest-limit window must still reach the      *)
(* fold" (triage_test.go:265-266, the comment of fetch): an issue with     *)
(* status events has the status of one of them.                            *)
OlderEventsReachFold ==
  \A q \in Requests : \A a \in FoldedAnswers(q) : \A fp \in DOMAIN a.states :
    (\E r \in req[q].began : r.fp = fp /\ r.act \in StatusActs)
      => \E r \in log : r.fp = fp /\ r.act \in StatusActs /\ a.states[fp].version = r.by
                        /\ a.states[fp].status = StatusOf[r.act]

(* "Return the new folded state so the UI can update without a refetch"    *)
(* (triage.go:374): a reply without an error to a recorded action shows    *)
(* the status of a status event of its issue.                              *)
ReplyShowsAction ==
  \A q \in Requests : \A a \in req[q].answer :
    ~a.error /\ (\E r \in log : r.by = q /\ r.act \in StatusActs) =>
      \A fp \in DOMAIN a.states :
        \E r \in req[q].seen :
          r.fp = fp /\ r.act \in StatusActs /\ a.states[fp].status = StatusOf[r.act]

=============================================================================
