----------------------------- MODULE TriageBar -----------------------------
(***************************************************************************)
(* The triage controls of an issue drawer: TriageControls of               *)
(* src/pages/tabs/frontend/components/ExceptionDrawer.tsx.  They read the  *)
(* register of the backend when they are mounted and post what the reader  *)
(* does; a post is answered with what is read back after it was recorded.  *)
(* They belong to one issue, for the drawer is mounted anew for another.   *)
(*                                                                         *)
(* Definitions marked "Slip" are wrong variants of the one that follows.   *)
(***************************************************************************)
EXTENDS Integers, FiniteSets

CONSTANTS
  Names,     \* what a reader may type as the assignee
  MaxActs,   \* bound of the posts, and of the acts of other users
  Waiting,   \* a call that the backend has not handled
  None       \* no state, no call, nobody

VARIABLES
  log,       \* the state in the register: status, assignee, revision
  state,     \* what the controls have last been told
  assignee,  \* the text of the input
  busy,      \* the controls are disabled
  read,      \* the read: None, Waiting, or the state it has found
  post,      \* the post: None, or what it asks and what was read back after it
  acts       \* posts and acts of other users so far

vars == <<log, state, assignee, busy, read, post, acts>>

Init ==
  /\ log \in [status : {"active", "resolved"}, who : Names \cup {None}, rev : {0}]
  /\ state = None /\ assignee = None /\ busy = FALSE
  /\ read = Waiting /\ post = None /\ acts = 0

(* Nothing is known before the read is answered, or when it fails.         *)
status == IF state = None THEN "active" ELSE state.status

(* The buttons, all of them disabled while a post is on its way.           *)
Buttons ==
  IF busy THEN {}
  ELSE IF status = "active" THEN {"resolve", "ignore"} ELSE {"unresolve"}

After(s, a, who) ==
  [status |-> CASE a = "resolve" -> "resolved" [] a = "ignore" -> "ignored"
                [] a = "unresolve" -> "active" [] OTHER -> s.status,
   who |-> IF a = "assign" THEN who ELSE s.who, rev |-> s.rev + 1]

act(a, who) ==
  /\ acts < MaxActs /\ acts' = acts + 1
  /\ busy' = TRUE
  /\ post' = [act |-> a, who |-> who, recorded |-> FALSE, left |-> Waiting]
  /\ UNCHANGED <<log, state, assignee, read>>

onClick == \E a \in Buttons : act(a, None)

(* Enter, whatever is typed; leaving the input does it after a change.     *)
onAssign == ~busy /\ act("assign", assignee)

onChange ==
  /\ ~busy
  /\ assignee' \in (Names \cup {None}) \ {assignee}
  /\ UNCHANGED <<log, state, busy, read, post, acts>>

ReadServed ==
  /\ read = Waiting /\ read' = log
  /\ UNCHANGED <<log, state, assignee, busy, post, acts>>

(* What was read replaces what a post was answered with, and what is typed. *)
ReadAnswered ==
  /\ read \notin {None, Waiting}
  /\ state' = read /\ assignee' = read.who /\ read' = None
  /\ UNCHANGED <<log, busy, post, acts>>

ReadFails ==
  /\ read # None /\ read' = None
  /\ UNCHANGED <<log, state, assignee, busy, post, acts>>

PostRecorded ==
  /\ post # None /\ ~post.recorded
  /\ log' = After(log, post.act, post.who)
  /\ post' = [post EXCEPT !.recorded = TRUE]
  /\ UNCHANGED <<state, assignee, busy, read, acts>>

(* What a post is answered with when it was recorded and the read after it *)
(* failed: a state that is active, with nothing else in it.                *)
Unread == [status |-> "active", who |-> None, rev |-> 0]

PostServed ==
  /\ post # None /\ post.recorded /\ post.left = Waiting
  /\ \E s \in {log, Unread} : post' = [post EXCEPT !.left = s]
  /\ UNCHANGED <<log, state, assignee, busy, read, acts>>

PostAnswered ==
  /\ post # None /\ post.left # Waiting
  /\ state' = post.left /\ assignee' = post.left.who
  /\ busy' = FALSE /\ post' = None
  /\ UNCHANGED <<log, read, acts>>

(* Slip: only an answer enables the controls again.                        *)
BusyAfterFailure == busy

(* The finally of act.                                                     *)
BusyAfter == FALSE

PostFails ==
  /\ post # None
  /\ busy' = BusyAfter /\ post' = None
  /\ UNCHANGED <<log, state, assignee, read, acts>>

OthersAct ==
  /\ acts < MaxActs /\ acts' = acts + 1
  /\ \E a \in {"resolve", "ignore", "unresolve"} : log' = After(log, a, None)
  /\ UNCHANGED <<state, assignee, busy, read, post>>

Backend ==
  \/ ReadServed \/ ReadAnswered \/ ReadFails
  \/ PostRecorded \/ PostServed \/ PostAnswered \/ PostFails

Next == onClick \/ onAssign \/ onChange \/ OthersAct \/ Backend

(* Every call is handled, and answered or not, in the end.                 *)
Fairness == WF_vars(Backend)

Spec == Init /\ [][Next]_vars /\ Fairness

-----------------------------------------------------------------------------
States == [status : {"active", "resolved", "ignored"}, who : Names \cup {None}, rev : Nat]
Posts == [act : {"resolve", "ignore", "unresolve", "assign"}, who : Names \cup {None},
          recorded : BOOLEAN, left : States \cup {Waiting}]

(* Nothing is no post and no state, and a call in waiting is not a state.  *)
ConstantsOK ==
  /\ None \notin Posts \cup States /\ Waiting \notin States
  /\ MaxActs \in Nat

BarTypeOK ==
  /\ log \in States /\ state \in States \cup {None} /\ assignee \in Names \cup {None}
  /\ busy = (post # None)
  /\ read \in States \cup {None, Waiting} /\ post \in Posts \cup {None}
  /\ acts \in 0 .. MaxActs
  /\ state # None => state.rev <= log.rev

(* However a post ends, the controls can be used again.                    *)
ControlsComeBack == busy ~> ~busy

(* Violated.  What the controls were told of an action stays: a read that  *)
(* was served before the action and is answered after it brings back what  *)
(* was before, and so does an answer whose read-back failed.               *)
BarKeepsAct == [][state # None => state'.rev >= state.rev]_vars

(* Violated.  What the reader types is not changed under his hands.        *)
TypingStays == [][assignee' # assignee => onChange \/ PostAnswered]_vars

=============================================================================
