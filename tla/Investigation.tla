--------------------------- MODULE Investigation ---------------------------
(***************************************************************************)
(* The AI investigation of a service page: the button and the drawer of    *)
(* src/components/Investigate/InvestigateDrawer.tsx and the reader of the  *)
(* event stream of src/api/investigate.ts.  What the backend sends is that *)
(* of run and runTools of pkg/plugin/investigate.go; the network delivers  *)
(* it in pieces that end anywhere, and may break off.                      *)
(*                                                                         *)
(* An event stands for three pieces: a head that is not yet an event, the  *)
(* rest of its data, and the blank line that ends it.                      *)
(*                                                                         *)
(* Definitions marked "Slip" are wrong variants of the one that follows.   *)
(***************************************************************************)
EXTENDS Integers, Sequences, FiniteSets, FiniteSetsExt

CONSTANTS
  MaxEvents,  \* bound of the events of a run
  MaxRounds,  \* the rounds of the model that may call tools
  MaxRuns,    \* bound of the runs started
  None        \* no answer yet, no message

VARIABLES
  status,  \* InvestigateButton: what getInvestigateStatus has answered
  open,    \* the drawer is mounted
  phase, view,
  run      \* the investigation under way: what the backend has sent, how many
           \* pieces have been read, from which on they are in the buffer, how
           \* its connection has ended, whether its controller is aborted
VARIABLE runs  \* runs started so far

vars == <<status, open, phase, view, run, runs>>

emptyView ==
  [model |-> FALSE, progress |-> {}, tools |-> <<>>, text |-> {}, usage |-> FALSE, error |-> FALSE]

NoRun == [sent |-> <<>>, at |-> 0, from |-> 0, end |-> None, aborted |-> FALSE, failed |-> FALSE]

Init ==
  /\ status = None /\ open = FALSE
  /\ phase = "idle" /\ view = emptyView
  /\ run = NoRun /\ runs = 0

-----------------------------------------------------------------------------
(* The backend.                                                            *)

Ids(events, type) == {e.id : e \in {x \in Range(events) : x.type = type}}

(* The round of the last event.                                            *)
round(events) == Max({1} \cup {e.round : e \in Range(events)})

Calls(events, r) == {e \in Range(events) : e.type = "tool_call" /\ e.round = r}

Ev(type, r, id, ok) == [type |-> type, round |-> r, id |-> id, ok |-> ok]

Finished(events) == \E e \in Range(events) : e.type \in {"done", "error"}

(* What may follow: text and notes of a round, the calls of its tools, and *)
(* their results in any order; the next round begins when all of them have *)
(* come; the end is told by done, when a round calls no tool, or by error. *)
NextEvents(events) ==
  IF events = <<>> THEN {Ev("start", 0, 0, TRUE)}
  ELSE IF Finished(events) THEN {}
  ELSE LET waiting == Ids(events, "tool_call") \ Ids(events, "tool_result")
           now == round(events)
           step == IF Calls(events, now) = {} THEN now ELSE now + 1
           called == {now, step} \ (IF waiting = {} THEN {} ELSE {step} \ {now})
           id == Cardinality(Ids(events, "tool_call")) + 1
       IN {Ev("tool_result", now, i, ok) : i \in waiting, ok \in BOOLEAN}
          \cup {Ev("tool_call", r, id, TRUE) : r \in {r \in called : r <= MaxRounds}}
          \cup (IF waiting # {} THEN {}
                ELSE {Ev("text", step, 0, TRUE), Ev("progress", step, 0, TRUE),
                      Ev("done", 0, 0, TRUE), Ev("error", 0, 0, TRUE)})

Sends ==
  /\ phase = "running" /\ run.end = None /\ ~run.aborted
  /\ Len(run.sent) < MaxEvents
  /\ \E e \in NextEvents(run.sent) : run' = [run EXCEPT !.sent = Append(@, e)]
  /\ UNCHANGED <<status, open, phase, view, runs>>

(* The handler returns after done or error.  A process that dies, or a     *)
(* proxy between, closes the stream as well, or breaks it.                 *)
Ends ==
  /\ phase = "running" /\ run.end = None
  /\ \E how \in {"closed", "broken"} : run' = [run EXCEPT !.end = how]
  /\ UNCHANGED <<status, open, phase, view, runs>>

-----------------------------------------------------------------------------
(* reduceInvestigation: one event folded into the view.                    *)
reduceInvestigation(v, e) ==
  CASE e.type = "start"       -> [v EXCEPT !.model = TRUE]
    [] e.type = "progress"    -> [v EXCEPT !.progress = @ \cup {e.round}]
    [] e.type = "text"        -> [v EXCEPT !.text = @ \cup {e.round}]
    [] e.type = "tool_call"   -> [v EXCEPT !.tools = Append(@, [id |-> e.id, ok |-> None])]
    [] e.type = "tool_result" ->
         [v EXCEPT !.tools = [k \in DOMAIN @ |-> IF @[k].id = e.id THEN [@[k] EXCEPT !.ok = e.ok]
                                                ELSE @[k]]]
    [] e.type = "done"        -> [v EXCEPT !.usage = TRUE]
    [] e.type = "error"       -> [v EXCEPT !.error = TRUE]

(* The view before the first event, and after each of them.                *)
Reduced(v, events) ==
  LET after[n \in 0 .. Len(events)] ==
        IF n = 0 THEN v ELSE reduceInvestigation(after[n - 1], events[n])
  IN after

Folded(v, events) == Reduced(v, events)[Len(events)]

(* Slip: an event is taken up when its data have come, and once more with  *)
(* its blank line.                                                         *)
parseSSEEager(r, upTo) == SubSeq(r.sent, r.from \div 3 + 1, (upTo + 1) \div 3)

(* parseSSE: the events that end within the buffer and what was read now.  *)
parseSSE(r, upTo) == SubSeq(r.sent, r.from \div 3 + 1, upTo \div 3)

(* Slip: the buffer is emptied with every chunk.                           *)
restDropped(upTo) == 3 * ((upTo + 2) \div 3)

(* What stays in the buffer begins at the first event that has not ended.  *)
rest(upTo) == 3 * (upTo \div 3)

(* At the end of the stream a last event is complete without its blank line. *)
tail(r) == parseSSE(r, r.at + 1)

Failed(r, events) == r.failed \/ \E e \in Range(events) : e.type = "error"

(* One read of the stream, of any length.                                  *)
runInvestigation ==
  /\ phase = "running" /\ ~run.aborted
  /\ \E upTo \in (run.at + 1)..(3 * Len(run.sent)) :
       LET events == parseSSE(run, upTo)
       IN /\ view' = Folded(view, events)
          /\ run' = [run EXCEPT !.at = upTo, !.from = rest(upTo), !.failed = Failed(run, events)]
  /\ UNCHANGED <<status, open, phase, runs>>

(* The stream has been read to its end.                                    *)
Settles ==
  /\ phase = "running" /\ ~run.aborted /\ run.end = "closed"
  /\ Finished(run.sent) => run.at = 3 * Len(run.sent)
  /\ view' = Folded(view, tail(run))
  /\ phase' = IF Failed(run, tail(run)) THEN "error" ELSE "done"
  /\ run' = NoRun
  /\ UNCHANGED <<status, open, runs>>

(* The request is refused, or the stream breaks.                           *)
Breaks ==
  /\ phase = "running" /\ ~run.aborted /\ run.end = "broken"
  /\ view' = [view EXCEPT !.error = TRUE]
  /\ phase' = "error" /\ run' = NoRun
  /\ UNCHANGED <<status, open, runs>>

(* Slip: an abort is not told from a failure.                              *)
AfterAbortFailed == "running"

AfterAbort == "stopped"

Aborted ==
  /\ phase = "running" /\ run.aborted
  /\ phase' = AfterAbort /\ run' = NoRun
  /\ UNCHANGED <<status, open, view, runs>>

-----------------------------------------------------------------------------
(* The button shows itself once the backend has said that it is available; *)
(* a failure reads as unavailable.                                         *)
getInvestigateStatus ==
  /\ status = None
  /\ status' \in BOOLEAN
  /\ UNCHANGED <<open, phase, view, run, runs>>

InvestigateButton ==
  /\ status = TRUE /\ ~open
  /\ open' = TRUE
  /\ UNCHANGED <<status, phase, view, run, runs>>

(* What the drawer offers.                                                 *)
InvestigateDrawer ==
  IF ~open THEN {}
  ELSE CASE phase = "idle"    -> {"start", "close"}
         [] phase = "running" -> {"stop", "close"}
         [] OTHER             -> {"again", "close"}

(* Slip: the view of the run before is kept.                               *)
FreshViewKept == [view EXCEPT !.error = FALSE]

FreshView == emptyView

start ==
  /\ "start" \in InvestigateDrawer /\ runs < MaxRuns
  /\ view' = FreshView /\ phase' = "running"
  /\ run' = NoRun /\ runs' = runs + 1
  /\ UNCHANGED <<status, open>>

stop ==
  /\ "stop" \in InvestigateDrawer
  /\ run' = [run EXCEPT !.aborted = TRUE]
  /\ UNCHANGED <<status, open, phase, view, runs>>

NewInvestigation ==
  /\ "again" \in InvestigateDrawer
  /\ phase' = "idle"
  /\ UNCHANGED <<status, open, view, run, runs>>

(* The drawer is unmounted and aborts its run.                             *)
onClose ==
  /\ "close" \in InvestigateDrawer
  /\ open' = FALSE
  /\ phase' = "idle" /\ view' = emptyView /\ run' = NoRun
  /\ UNCHANGED <<status, runs>>

-----------------------------------------------------------------------------
Network == getInvestigateStatus \/ runInvestigation \/ Settles \/ Breaks \/ Aborted

Next ==
  \/ InvestigateButton \/ start \/ stop \/ NewInvestigation \/ onClose
  \/ Sends \/ Ends \/ Network

(* What has been sent is read, a connection ends, an abort is noticed.     *)
Fairness == WF_vars(Network) /\ WF_vars(Ends)

Spec == Init /\ [][Next]_vars /\ Fairness

-----------------------------------------------------------------------------
ConstantsOK == MaxEvents \in Nat /\ MaxRounds \in Nat /\ MaxRuns \in Nat

(* The type of every variable: what is in the buffer is less than an       *)
(* event, and a run and a view are of a drawer that is open.               *)
InvestigationTypeOK ==
  /\ status \in BOOLEAN \cup {None} /\ open \in BOOLEAN /\ runs \in 0 .. MaxRuns
  /\ phase \in {"idle", "running", "done", "error", "stopped"}
  /\ run.from <= run.at /\ run.at <= 3 * Len(run.sent)
  /\ run.from % 3 = 0 /\ run.at - run.from <= 2
  /\ phase # "running" => run = NoRun
  /\ ~open => phase = "idle" /\ view = emptyView

(* However the stream is cut into chunks, what the drawer shows of a run   *)
(* is what its events tell, each taken once, in the order they were sent,  *)
(* and nothing of an earlier run.                                          *)
EventsOnce ==
  phase = "running" => view = Folded(emptyView, SubSeq(run.sent, 1, run.at \div 3))

(* A run ends, whatever becomes of its stream: the drawer offers a new one. *)
RunsEnd == phase = "running" ~> phase # "running"

(* Violated.  A run that is over shows no query as still running.          *)
NothingSpins ==
  phase \in {"done", "error", "stopped"} => \A k \in DOMAIN view.tools : view.tools[k].ok # None

(* Violated.  A run that is shown as done has been told to be done.        *)
DoneIsTold == phase = "done" => view.usage

=============================================================================
