-------------------------- MODULE TriageRegister --------------------------
(***************************************************************************)
(* What issue triage promises its callers (docs/triage.md, the TriageStore *)
(* interface of pkg/plugin/triage.go), without annotations, pages or       *)
(* requests in flight: a set of events that only grows, answers that are   *)
(* computed in one step from all the events there are at that moment, and  *)
(* per issue a status and an assignee that are each decided by a newest    *)
(* event of their own kind.                                                *)
(***************************************************************************)
EXTENDS Integers

CONSTANTS
  Requests,       \* requests to the triage endpoints
  NoOne,          \* no actor, no assignee, no version
  StatusOf        \* [status actions -> statuses]

VARIABLES
  events,         \* every triage event
  answers         \* what each request was answered, a set of at most one

(* e is a newest event of issue fp among those with an action in Acts.     *)
Latest(e, fp, Acts) ==
  /\ e \in events
  /\ e.fp = fp /\ e.act \in Acts
  /\ \A f \in events : f.fp = fp /\ f.act \in Acts => f.time <= e.time

Has(fp, Acts) == \E e \in events : e.fp = fp /\ e.act \in Acts

StatusActs == DOMAIN StatusOf

(* The state st of issue fp is what the events say.                        *)
StatusRight(st, fp) ==
  \/ /\ ~Has(fp, StatusActs)
     /\ st.status = (IF Has(fp, {"assign"}) THEN "active" ELSE "none")
     /\ st.version = NoOne
  \/ \E e \in events :
       Latest(e, fp, StatusActs) /\ st.status = StatusOf[e.act] /\ st.version = e.by

AssigneeRight(st, fp) ==
  \/ ~Has(fp, {"assign"}) /\ st.assignee = NoOne
  \/ \E e \in events : Latest(e, fp, {"assign"}) /\ st.assignee = e.assignee

UpdateRight(st, fp) ==
  \/ ~Has(fp, StatusActs \cup {"assign"}) /\ st.updatedAt = 0
  \/ \E e \in events :
       Latest(e, fp, StatusActs \cup {"assign"})
         /\ st.updatedAt = e.time /\ st.updatedBy = e.by

(* What a folded answer shows: the states of its issues, or every event of *)
(* its issue once.                                                         *)
Right(a) ==
  IF a.kind = "history"
  THEN a.history = [e \in {f \in events : f.fp \in a.fp} |-> 1]
  ELSE \A fp \in DOMAIN a.states :
         /\ StatusRight(a.states[fp], fp)
         /\ AssigneeRight(a.states[fp], fp)
         /\ UpdateRight(a.states[fp], fp)

Init == answers = [q \in Requests |-> {}]

(* The event of an action becomes one of the events, once; the action may  *)
(* be refused all the same.                                                *)
Append(q) ==
  /\ \A e \in events : e.by # q
  /\ \E e \in events' \ events : e.by = q /\ events' = events \cup {e}
  /\ \A p \in Requests \ {q} : answers'[p] = answers[p]
  /\ \A a \in answers'[q] : ~a.folded

(* A request is answered: with what the events say, or with an error.  An  *)
(* action is answered after its event is among them.                       *)
Respond(q) ==
  /\ UNCHANGED events
  /\ answers[q] = {}
  /\ \A p \in Requests \ {q} : answers'[p] = answers[p]
  /\ \E a \in answers'[q] :
       /\ answers'[q] = {a}
       /\ a.folded => Right(a) /\ (a.kind = "action" => \E e \in events : e.by = q)

Next == \E q \in Requests : Append(q) \/ Respond(q)

Spec == Init /\ [][Next]_<<events, answers>>
=============================================================================
