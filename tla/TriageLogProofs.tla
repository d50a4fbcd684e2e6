-------------------------- MODULE TriageLogProofs --------------------------
(***************************************************************************)
(* Proofs about TriageLog, for every log, every number of requests and     *)
(* every size of a page, with and without failing calls; and that triage   *)
(* as the code does it, with requests that overlap and clocks that differ, *)
(* implements TriageRegister as long as the log is shorter than one page.  *)
(***************************************************************************)
EXTENDS TriageLog, FiniteSetTheorems, WellFoundedInduction, TLAPS

Fields == {"pc", "kind", "fp", "action", "stamp", "pages", "to", "answer", "began", "seen"}

(* A request that has not recorded yet will record an action with a stamp. *)
ReqOK(r) ==
  /\ DOMAIN r = Fields
  /\ r.pc \in {"new", "record", "fetch", "done"}
  /\ r.kind \in {"none", "action", "states", "history"}
  /\ r.fp \subseteq Fps /\ r.action \subseteq Actions
  /\ r.stamp \in 0 .. now /\ r.to \in Nat
  /\ r.pages \in Seq(SUBSET log)
  /\ r.began \subseteq log
  /\ (r.pc = "done") = (r.answer # {})
  /\ r.pc = "record" => r.stamp > 0

TInv ==
  /\ now \in Nat /\ now >= StartTime
  /\ log \subseteq Row
  /\ nextId \in Nat \ {0}
  /\ DOMAIN req = Requests
  /\ \A q \in Requests : ReqOK(req[q])

-----------------------------------------------------------------------------
(* A set of numbers has a smallest one.                                    *)
LEMMA Smallest ==
  ASSUME NEW T \in SUBSET Nat, T # {}
  PROVE  \E m \in T : \A n \in T : m <= n
<1>1. PICK m \in T : \A n \in T : ~ (<<n, m>> \in OpToRel(<, Nat))
  BY NatLessThanWellFounded, WFMin
<1>2. \A n \in T : ~(n < m)
  BY <1>1 DEF OpToRel
<1> QED
  BY <1>2

-----------------------------------------------------------------------------
(* What a step leaves of the requests.                                     *)

LEMMA Constants ==
  /\ StartTime \in Nat /\ Skew \in Nat /\ StartTime > Skew
  /\ Limit \in Nat /\ Limit > 0 /\ FirstId \in Nat \ {0}
BY LogAssumption

(* The others keep their state, and what is in the log stays there.        *)
LEMMA OthersOK ==
  ASSUME TInv, NEW q \in Requests, DOMAIN req' = Requests,
         now' \in Nat, now' >= now, log \subseteq log', log' \subseteq Row,
         nextId' \in Nat \ {0},
         \A r \in Requests : r # q => req'[r] = req[r],
         ReqOK(req[q])' \/ req'[q] = req[q]
  PROVE  TInv'
<1>1. ASSUME NEW r \in Requests, req'[r] = req[r] PROVE ReqOK(req[r])'
  <2>1. ReqOK(req[r]) /\ now \in Nat
    BY DEF TInv
  <2>2. req[r].pages \in Seq(SUBSET log')
    BY <2>1 DEF ReqOK
  <2> QED
    BY <1>1, <2>1, <2>2 DEF ReqOK
<1>2. \A r \in Requests : ReqOK(req[r])'
  BY <1>1
<1>3. now' >= StartTime
  BY Constants DEF TInv
<1> QED
  BY <1>2, <1>3 DEF TInv

LEMMA TypeInit == Init => TInv
<1> SUFFICES ASSUME Init PROVE TInv
  OBVIOUS
<1>1. ReqOK(Idle)
  <2>1. DOMAIN Idle = Fields
    BY DEF Idle, Fields
  <2>2. <<>> \in Seq(SUBSET log)
    OBVIOUS
  <2>3. 0 \in 0 .. now
    BY Constants DEF Init
  <2> QED
    BY <2>1, <2>2, <2>3 DEF Idle, ReqOK
<1>2. log \subseteq Row /\ nextId \in Nat \ {0}
  BY LogAssumption DEF Init
<1> QED
  BY <1>1, <1>2, Constants DEF Init, TInv

(* A reply, whatever it says, ends the request.                            *)
LEMMA ReplyEnds ==
  ASSUME TInv, NEW q \in Requests, NEW a, Reply(q, a), log \subseteq log'
  PROVE  /\ DOMAIN req' = Requests
         /\ \A r \in Requests : r # q => req'[r] = req[r]
         /\ req'[q].pc = "done" /\ req'[q].answer = {a} /\ req'[q].pages = <<>>
         /\ req'[q].kind = req[q].kind /\ req'[q].fp = req[q].fp
         /\ req'[q].action = req[q].action /\ req'[q].stamp = req[q].stamp
         /\ req'[q].began = req[q].began
         /\ now' = now => ReqOK(req[q])'
<1>1. DOMAIN req = Requests /\ ReqOK(req[q])
  BY DEF TInv
<1>2. /\ DOMAIN req' = Requests
      /\ \A r \in Requests : r # q => req'[r] = req[r]
      /\ req'[q] = [req[q] EXCEPT !.pc = "done", !.pages = <<>>, !.seen = log', !.answer = {a}]
  BY <1>1 DEF Reply
<1>3. /\ DOMAIN req'[q] = Fields
      /\ req'[q].pc = "done" /\ req'[q].answer = {a} /\ req'[q].pages = <<>>
      /\ req'[q].kind = req[q].kind /\ req'[q].fp = req[q].fp /\ req'[q].to = req[q].to
      /\ req'[q].action = req[q].action /\ req'[q].stamp = req[q].stamp
      /\ req'[q].began = req[q].began
  BY <1>1, <1>2 DEF ReqOK, Fields
<1>4. <<>> \in Seq(SUBSET log')
  OBVIOUS
<1>5. ASSUME now' = now PROVE ReqOK(req[q])'
  BY <1>1, <1>3, <1>4, <1>5 DEF ReqOK
<1> QED
  BY <1>2, <1>3, <1>5

(* The oldest row of a full page has a time.                               *)
LEMMA OldestTimeType ==
  ASSUME NEW P \in SUBSET Row, P # {}
  PROVE  OldestTime(P) \in Nat
<1> DEFINE T == {r.time : r \in P}
<1>1. T \in SUBSET Nat /\ T # {}
  BY DEF Row
<1>2. PICK m \in T : \A n \in T : m <= n
  BY <1>1, Smallest
<1>3. \E t \in T : \A r \in P : t <= r.time
  BY <1>2
<1>4. OldestTime(P) \in T
  BY <1>3 DEF OldestTime
<1> QED
  BY <1>1, <1>4

(* One more page of what is in the log.                                    *)
LEMMA MoreType ==
  ASSUME TInv, NEW q \in Requests, FetchMore(q)
  PROVE  /\ DOMAIN req' = Requests
         /\ \A r \in Requests : r # q => req'[r] = req[r]
         /\ UNCHANGED <<now, log, nextId>>
         /\ ReqOK(req[q])'
         /\ \E P \in SUBSET Matching(q) : Page(q, P) /\ req'[q].pages = Append(req[q].pages, P)
         /\ req'[q].kind = req[q].kind /\ req'[q].fp = req[q].fp
         /\ req'[q].stamp = req[q].stamp /\ req'[q].began = req[q].began
         /\ req'[q].answer = req[q].answer /\ req'[q].action = req[q].action
         /\ req[q].pc = "fetch" /\ req'[q].pc = "fetch"
<1>1. DOMAIN req = Requests /\ ReqOK(req[q]) /\ log \subseteq Row
  BY DEF TInv
<1>2. PICK P \in SUBSET Matching(q) :
        /\ Page(q, P) /\ ~LastPage(q, P)
        /\ req' = [req EXCEPT ![q].pages = Append(@, P), ![q].to = OldestTime(P)]
  BY DEF FetchMore
<1>3. UNCHANGED <<now, log, nextId>> /\ req[q].pc = "fetch"
  BY DEF FetchMore
<1>4. P \subseteq log
  BY DEF Matching
<1>5. P # {}
  <2>1. ~(Cardinality(P) < Limit)
    BY <1>2 DEF LastPage
  <2>2. Cardinality({}) = 0
    BY FS_EmptySet
  <2> QED
    BY <2>1, <2>2, Constants
<1>6. OldestTime(P) \in Nat
  BY <1>1, <1>4, <1>5, OldestTimeType
<1>7. Append(req[q].pages, P) \in Seq(SUBSET log)
  BY <1>1, <1>4 DEF ReqOK
<1>8. /\ DOMAIN req' = Requests
      /\ \A r \in Requests : r # q => req'[r] = req[r]
      /\ req'[q] = [req[q] EXCEPT !.pages = Append(req[q].pages, P), !.to = OldestTime(P)]
  BY <1>1, <1>2
<1>9. /\ DOMAIN req'[q] = Fields
      /\ req'[q].pc = req[q].pc /\ req'[q].answer = req[q].answer
      /\ req'[q].pages = Append(req[q].pages, P) /\ req'[q].to = OldestTime(P)
      /\ req'[q].kind = req[q].kind /\ req'[q].fp = req[q].fp
      /\ req'[q].action = req[q].action /\ req'[q].stamp = req[q].stamp
      /\ req'[q].began = req[q].began
  BY <1>1, <1>8 DEF ReqOK, Fields
<1>10. ReqOK(req[q])'
  BY <1>1, <1>3, <1>6, <1>7, <1>9 DEF ReqOK
<1> QED
  BY <1>2, <1>3, <1>8, <1>9, <1>10

(* A request that starts remembers the log it finds.                       *)
LEMMA StartReadType ==
  ASSUME TInv, NEW q \in Requests, NEW k \in Reads, NEW fp \in Fps, StartRead(q, k, fp)
  PROVE  /\ DOMAIN req' = Requests
         /\ \A r \in Requests : r # q => req'[r] = req[r]
         /\ UNCHANGED <<now, log, nextId>>
         /\ ReqOK(req[q])'
         /\ req[q].pc = "new" /\ req'[q].pc = "fetch" /\ req'[q].kind = k
         /\ req'[q].pages = <<>> /\ req'[q].answer = {}
<1>1. DOMAIN req = Requests /\ now \in Nat
  BY DEF TInv
<1>2. /\ DOMAIN req' = Requests
      /\ \A r \in Requests : r # q => req'[r] = req[r]
      /\ UNCHANGED <<now, log, nextId>> /\ req[q].pc = "new"
      /\ req'[q] = [Idle EXCEPT !.pc = "fetch", !.kind = k, !.began = log,
                                !.fp = IF k = "history" THEN {fp} ELSE Fps]
  BY <1>1 DEF StartRead
<1>3. /\ DOMAIN req'[q] = Fields
      /\ req'[q].pc = "fetch" /\ req'[q].kind = k /\ req'[q].began = log
      /\ req'[q].fp \subseteq Fps /\ req'[q].action = {} /\ req'[q].stamp = 0
      /\ req'[q].to = 0 /\ req'[q].pages = <<>> /\ req'[q].answer = {}
  BY <1>2 DEF Idle, Fields
<1>4. k \in {"states", "history"}
  BY LogAssumption
<1>5. ReqOK(req[q])'
  <2>1. now' = now /\ log' = log
    BY <1>2
  <2>2. <<>> \in Seq(SUBSET log') /\ 0 \in 0 .. now
    BY <1>1
  <2> QED
    BY <1>3, <1>4, <2>1, <2>2 DEF ReqOK
<1> QED
  BY <1>2, <1>3, <1>5

LEMMA StartActionType ==
  ASSUME TInv, NEW q \in Requests, NEW a \in Actions, StartAction(q, a)
  PROVE  /\ DOMAIN req' = Requests
         /\ \A r \in Requests : r # q => req'[r] = req[r]
         /\ UNCHANGED <<now, log, nextId>>
         /\ ReqOK(req[q])'
         /\ req[q].pc = "new" /\ req'[q].pc = "record" /\ req'[q].kind = "action"
         /\ req'[q].pages = <<>> /\ req'[q].answer = {} /\ req'[q].began = log
         /\ req'[q].stamp \in now - Skew .. now
<1>1. DOMAIN req = Requests /\ now \in Nat /\ now >= StartTime
  BY DEF TInv
<1>2. PICK t \in now - Skew .. now :
        req' = [req EXCEPT ![q] = [Idle EXCEPT !.pc = "record", !.kind = "action",
                  !.began = log, !.fp = {a.fp}, !.action = {a}, !.stamp = t]]
  BY DEF StartAction
<1>3. /\ DOMAIN req' = Requests
      /\ \A r \in Requests : r # q => req'[r] = req[r]
      /\ UNCHANGED <<now, log, nextId>> /\ req[q].pc = "new"
      /\ req'[q] = [Idle EXCEPT !.pc = "record", !.kind = "action",
                      !.began = log, !.fp = {a.fp}, !.action = {a}, !.stamp = t]
  BY <1>1, <1>2 DEF StartAction
<1>4. /\ DOMAIN req'[q] = Fields
      /\ req'[q].pc = "record" /\ req'[q].kind = "action" /\ req'[q].began = log
      /\ req'[q].fp = {a.fp} /\ req'[q].action = {a} /\ req'[q].stamp = t
      /\ req'[q].to = 0 /\ req'[q].pages = <<>> /\ req'[q].answer = {}
  BY <1>3 DEF Idle, Fields
<1>5. t \in 0 .. now /\ t > 0 /\ t \in now - Skew .. now
  BY <1>1, Constants
<1>6. a.fp \in Fps
  BY LogAssumption
<1>7. ReqOK(req[q])'
  <2>1. now' = now /\ log' = log
    BY <1>3
  <2>2. <<>> \in Seq(SUBSET log')
    OBVIOUS
  <2> QED
    BY <1>4, <1>5, <1>6, <2>1, <2>2 DEF ReqOK
<1> QED
  BY <1>3, <1>4, <1>5, <1>7

(* The event is in the log, and its request fetches or has been refused.   *)
LEMMA RecordType ==
  ASSUME TInv, NEW q \in Requests, RecordEvent(q)
  PROVE  /\ DOMAIN req' = Requests
         /\ \A r \in Requests : r # q => req'[r] = req[r]
         /\ now' = now /\ nextId' \in Nat \ {0}
         /\ ReqOK(req[q])'
         /\ \E a \in Actions : log' = log \cup {Stored(q, a)} /\ Stored(q, a) \in Row
         /\ req[q].pc = "record" /\ req'[q].pc \in {"fetch", "done"}
         /\ req'[q].kind = req[q].kind /\ req'[q].stamp = req[q].stamp
         /\ req'[q].began = req[q].began
         /\ req'[q].pages = req[q].pages \/ req'[q].pages = <<>>
         /\ \A x \in req'[q].answer : ~x.folded
<1>1. DOMAIN req = Requests /\ ReqOK(req[q]) /\ now \in Nat /\ nextId \in Nat \ {0}
  BY DEF TInv
<1>2. PICK a \in req[q].action : log' = log \cup {Stored(q, a)}
  BY DEF RecordEvent
<1>3. now' = now /\ nextId' = nextId + 1 /\ req[q].pc = "record"
  BY DEF RecordEvent
<1>4. a \in Actions /\ Stored(q, a) \in Row
  <2>1. a \in Actions
    BY <1>1 DEF ReqOK
  <2>2. a.act \in StatusActs \cup {"assign"} /\ a.fp \in Fps /\ a.assignee \in Assignees \cup {NoOne}
    BY <2>1, LogAssumption
  <2>3. req[q].stamp \in Nat \ {0}
    BY <1>1, <1>3 DEF ReqOK
  <2> QED
    BY <1>1, <2>1, <2>2, <2>3 DEF Stored, Row
<1>5. req[q].answer = {} /\ log \subseteq log' /\ nextId' \in Nat \ {0}
  BY <1>1, <1>2, <1>3 DEF ReqOK
<1>a. \E b \in Actions : log' = log \cup {Stored(q, b)} /\ Stored(q, b) \in Row
  BY <1>2, <1>4
<1>6. CASE req' = [req EXCEPT ![q].pc = "fetch"]
  <2>1. /\ DOMAIN req' = Requests
        /\ \A r \in Requests : r # q => req'[r] = req[r]
        /\ req'[q] = [req[q] EXCEPT !.pc = "fetch"]
    BY <1>1, <1>6
  <2>2. /\ DOMAIN req'[q] = Fields
        /\ req'[q].pc = "fetch" /\ req'[q].answer = req[q].answer
        /\ req'[q].pages = req[q].pages /\ req'[q].to = req[q].to
        /\ req'[q].kind = req[q].kind /\ req'[q].fp = req[q].fp
        /\ req'[q].action = req[q].action /\ req'[q].stamp = req[q].stamp
        /\ req'[q].began = req[q].began
    BY <1>1, <2>1 DEF ReqOK, Fields
  <2>3. req[q].pages \in Seq(SUBSET log')
    BY <1>1, <1>5 DEF ReqOK
  <2>4. ReqOK(req[q])'
    BY <1>1, <1>3, <1>5, <2>2, <2>3 DEF ReqOK
  <2> QED
    BY <1>3, <1>5, <1>a, <2>1, <2>2, <2>4
<1>7. CASE Refuse(q)
  <2> DEFINE x == Answer(q, TRUE, FALSE, NoStates, NoStates)
  <2>1. Reply(q, x)
    BY <1>7 DEF Refuse
  <2>2. ~x.folded
    BY DEF Answer
  <2> HIDE DEF x
  <2>3. /\ DOMAIN req' = Requests
        /\ \A r \in Requests : r # q => req'[r] = req[r]
        /\ req'[q].pc = "done" /\ req'[q].answer = {x} /\ req'[q].pages = <<>>
        /\ req'[q].kind = req[q].kind /\ req'[q].stamp = req[q].stamp
        /\ req'[q].began = req[q].began
        /\ ReqOK(req[q])'
    BY <1>3, <1>5, <2>1, ReplyEnds
  <2> QED
    BY <1>3, <1>5, <1>a, <2>2, <2>3
<1> QED
  BY <1>6, <1>7 DEF RecordEvent

(* The other ways to end: with an error, or with something that is said.   *)
LEMMA EndType ==
  ASSUME TInv, NEW q \in Requests, RecordFails(q) \/ FetchLast(q) \/ FetchFails(q)
  PROVE  \E a : Reply(q, a) /\ UNCHANGED <<now, log, nextId>>
<1>1. CASE RecordFails(q)
  BY <1>1 DEF RecordFails, Refuse
<1>2. CASE FetchLast(q)
  BY <1>2 DEF FetchLast
<1>3. CASE FetchFails(q)
  BY <1>3 DEF FetchFails, Refuse
<1> QED
  BY <1>1, <1>2, <1>3

LEMMA TypeStep == TInv /\ [Next]_vars => TInv'
<1> SUFFICES ASSUME TInv, [Next]_vars PROVE TInv'
  OBVIOUS
<1>1. CASE Tick
  <2>1. req' = req /\ log' = log /\ nextId' = nextId /\ now' = now + 1
    BY <1>1 DEF Tick
  <2>2. \A q \in Requests : ReqOK(req[q])'
    BY <2>1 DEF TInv, ReqOK
  <2> QED
    BY <2>1, <2>2, Constants DEF TInv
<1>2. ASSUME NEW q \in Requests, NEW k \in Reads, NEW fp \in Fps, StartRead(q, k, fp)
      PROVE  TInv'
  BY <1>2, StartReadType, OthersOK DEF TInv
<1>3. ASSUME NEW q \in Requests, NEW a \in Actions, StartAction(q, a)
      PROVE  TInv'
  BY <1>3, StartActionType, OthersOK DEF TInv
<1>4. ASSUME NEW q \in Requests, RecordEvent(q)
      PROVE  TInv'
  <2>1. log \subseteq log' /\ log' \subseteq Row
    BY <1>4, RecordType DEF TInv
  <2> QED
    BY <1>4, <2>1, RecordType, OthersOK DEF TInv
<1>5. ASSUME NEW q \in Requests, FetchMore(q)
      PROVE  TInv'
  BY <1>5, MoreType, OthersOK DEF TInv
<1>6. ASSUME NEW q \in Requests, RecordFails(q) \/ FetchLast(q) \/ FetchFails(q)
      PROVE  TInv'
  <2>1. PICK a : Reply(q, a) /\ UNCHANGED <<now, log, nextId>>
    BY <1>6, EndType
  <2> QED
    BY <2>1, ReplyEnds, OthersOK DEF TInv
<1>7. CASE UNCHANGED vars
  BY <1>7 DEF vars, TInv, ReqOK
<1> QED
  BY <1>1, <1>2, <1>3, <1>4, <1>5, <1>6, <1>7 DEF Next

LEMMA TypeInvariant == Spec => []TInv
BY TypeInit, TypeStep, PTL DEF Spec

(* Whatever is read and recorded at once, and whichever calls fail: rows   *)
(* in the log, pages of rows of the log, and an answer exactly where a     *)
(* request is done.                                                        *)
THEOREM TypeCorrect == Spec => []TypeOK
<1>1. TInv => TypeOK
  <2> SUFFICES ASSUME TInv PROVE TypeOK
    OBVIOUS
  <2>1. now \in Nat \ {0}
    BY Constants DEF TInv
  <2>2. ASSUME NEW q \in Requests
        PROVE  /\ req[q].pc \in {"new", "record", "fetch", "done"}
               /\ req[q].kind \in {"none", "action", "states", "history"}
               /\ req[q].stamp \in Nat /\ req[q].to \in Nat
               /\ \A i \in DOMAIN req[q].pages : req[q].pages[i] \subseteq log
               /\ (req[q].pc = "done") = (req[q].answer # {})
    <3>1. ReqOK(req[q]) /\ now \in Nat
      BY DEF TInv
    <3>2. \A i \in DOMAIN req[q].pages : req[q].pages[i] \in SUBSET log
      BY <3>1 DEF ReqOK
    <3> QED
      BY <3>1, <3>2 DEF ReqOK
  <2> QED
    BY <2>1, <2>2 DEF TInv, TypeOK
<1> QED
  BY <1>1, TypeInvariant, PTL

-----------------------------------------------------------------------------
(* What the fold picks.                                                    *)

(* A row that comes first is one of the newest of the page it is on.       *)
LEMMA FirstIsNewest ==
  ASSUME NEW pages \in Seq(SUBSET Row), NEW fp, NEW Acts, NEW s \in First(pages, fp, Acts)
  PROVE  \E i \in DOMAIN pages :
           /\ s \in pages[i] /\ s.fp = fp /\ s.act \in Acts
           /\ \A r \in pages[i] : r.fp = fp /\ r.act \in Acts => r.time <= s.time
<1> DEFINE hits(i) == {r \in pages[i] : r.fp = fp /\ r.act \in Acts}
           hit == {i \in DOMAIN pages : hits(i) # {}}
           page == CHOOSE i \in hit : \A j \in hit : i <= j
<1>1. hit # {} /\ s \in {r \in hits(page) : \A t \in hits(page) : t.time <= r.time}
  BY DEF First
<1>2. hit \in SUBSET Nat
  OBVIOUS
<1>3. \E i \in hit : \A j \in hit : i <= j
  BY <1>1, <1>2, Smallest
<1>4. page \in hit
  BY <1>3
<1> QED
  BY <1>1, <1>4

(* The version of a folded state is that of a row that comes first.        *)
LEMMA VersionIsFirst ==
  ASSUME NEW pages, NEW fp, NEW st \in States(pages, fp)
  PROVE  st.version = NoOne \/ \E s \in First(pages, fp, StatusActs) : st.version = s.by
<1> DEFINE Newer(S, A) == Picks({r \in S \cup A : \A t \in S \cup A : t.time <= r.time})
           Made(S, A) == {StateOf(S, A, u) : u \in Newer(S, A)}
<1>a. \E S \in Picks(First(pages, fp, StatusActs)), A \in Picks(First(pages, fp, {"assign"})) :
        st \in Made(S, A)
  <2>1. st \in UNION {Made(S, A) : S \in Picks(First(pages, fp, StatusActs)),
                                   A \in Picks(First(pages, fp, {"assign"}))}
    BY DEF States
  <2> HIDE DEF Made
  <2> QED
    BY <2>1
<1>1. PICK S \in Picks(First(pages, fp, StatusActs)) : \E A, u : st = StateOf(S, A, u)
  BY <1>a
<1>2. st.version = IF S # {} THEN (CHOOSE s \in S : TRUE).by ELSE NoOne
  BY <1>1 DEF StateOf
<1>3. S = {} \/ \E r \in First(pages, fp, StatusActs) : S = {r}
  BY <1>1 DEF Picks
<1> QED
  BY <1>2, <1>3

-----------------------------------------------------------------------------
(* What is read after it was done, where the clocks of the replicas agree. *)

(* Of two rows there were at the start a page does not leave out the newer.*)
Newest(began, P) == \A b, c \in began : b \in P /\ c.time > b.time => c \in P

(* A state is not that of a status event another one had come after.       *)
Right(began, st, fp) ==
  \A b, c \in {r \in began : r.fp = fp /\ r.act \in StatusActs} :
    b.by # NoOne /\ c.time > b.time => st.version # b.by

AnswerGood(began, a) ==
  a.folded => \A fp \in DOMAIN a.states : Right(began, a.states[fp], fp)

(* The events an action found are not newer than its own will be; its      *)
(* pages are newest first; what it answers is right.                       *)
Good(r) ==
  /\ r.kind = "action" => \A b \in r.began : b.by # NoOne => b.time <= r.stamp
  /\ r.kind # "history" => \A i \in DOMAIN r.pages : Newest(r.began, r.pages[i])
  /\ \A a \in r.answer : AnswerGood(r.began, a)

(* A request has recorded one event at most, and with its own stamp.       *)
LogOK ==
  /\ \A r \in log : r.by # NoOne =>
       /\ r.by \in Requests
       /\ req[r.by].pc \notin {"new", "record"} /\ req[r.by].kind = "action"
       /\ r.time = req[r.by].stamp
  /\ \A r, s \in log : r.by = s.by /\ r.by # NoOne => r = s

RInv ==
  /\ LogOK
  /\ \A q \in Requests : Good(req[q])
  /\ \A q \in Requests : req[q].pc = "record" => req[q].kind = "action"

LEMMA RightInit == Init => RInv
<1> SUFFICES ASSUME Init PROVE RInv
  OBVIOUS
<1>1. Good(Idle)
  BY DEF Idle, Good
<1>2. LogOK
  BY LogAssumption DEF Init, LogOK
<1> QED
  BY <1>1, <1>2 DEF Init, RInv, Idle

(* The fold of pages that are newest first is right.                       *)
LEMMA FoldIsRight ==
  ASSUME TInv, LogOK, NEW began \in SUBSET log, NEW pages \in Seq(SUBSET log),
         \A i \in DOMAIN pages : Newest(began, pages[i]),
         NEW fp, NEW st \in States(pages, fp)
  PROVE  Right(began, st, fp)
<1> SUFFICES ASSUME NEW b \in began, NEW c \in began,
                    b.fp = fp, c.fp = fp, b.act \in StatusActs, c.act \in StatusActs,
                    b.by # NoOne, c.time > b.time, st.version = b.by
             PROVE  FALSE
  BY DEF Right
<1>1. pages \in Seq(SUBSET Row) /\ log \subseteq Row
  BY DEF TInv
<1>2. PICK s \in First(pages, fp, StatusActs) : b.by = s.by
  BY VersionIsFirst
<1>3. PICK i \in DOMAIN pages :
        /\ s \in pages[i] /\ s.fp = fp /\ s.act \in StatusActs
        /\ \A r \in pages[i] : r.fp = fp /\ r.act \in StatusActs => r.time <= s.time
  BY <1>1, FirstIsNewest
<1>4. s \in log
  BY <1>3
<1>5. s = b
  BY <1>2, <1>4 DEF LogOK
<1>6. c \in pages[i]
  BY <1>3, <1>5 DEF Newest
<1>7. c.time <= b.time /\ c.time \in Nat /\ b.time \in Nat
  BY <1>1, <1>3, <1>5, <1>6 DEF Row
<1> QED
  BY <1>7

(* The window is off (from is 0), so a page is the newest of the whole log.*)
LEMMA PageIsNewest ==
  ASSUME TInv, NEW q \in Requests, req[q].kind # "history",
         NEW P \in SUBSET Matching(q), Page(q, P)
  PROVE  P \in SUBSET log /\ Newest(req[q].began, P)
<1>1. Matching(q) = log
  BY DEF Matching
<1>2. Window(log, 0, Upper(q)) = log
  BY DEF Window
<1>3. \A p \in P, r \in log \ P : p.time >= r.time
  BY <1>1, <1>2 DEF Page, IsPage
<1>4. req[q].began \subseteq log /\ log \subseteq Row
  BY DEF TInv, ReqOK
<1>5. ASSUME NEW b \in req[q].began, NEW c \in req[q].began, b \in P, c.time > b.time
      PROVE  c \in P
  <2>1. c \in log /\ c.time \in Nat /\ b.time \in Nat
    BY <1>4 DEF Row
  <2> QED
    BY <1>3, <1>5, <2>1
<1> QED
  BY <1>1, <1>5 DEF Newest

(* What a request says when it ends is right.                              *)
LEMMA EndIsRight ==
  ASSUME TInv, RInv, NEW q \in Requests, RecordFails(q) \/ FetchLast(q) \/ FetchFails(q)
  PROVE  \E a : /\ Reply(q, a) /\ UNCHANGED <<now, log, nextId>>
                /\ AnswerGood(req[q].began, a)
                /\ req[q].pc \in {"record", "fetch"}
<1>1. \A k, e, states, h : AnswerGood(req[q].began, Answer(q, e, FALSE, states, h))
  BY DEF AnswerGood, Answer
<1>2. CASE RecordFails(q)
  BY <1>1, <1>2 DEF RecordFails, Refuse
<1>3. CASE FetchFails(q)
  BY <1>1, <1>3 DEF FetchFails, Refuse
<1>4. CASE FetchLast(q)
  <2>1. PICK P \in SUBSET Matching(q) :
          LET pages == Append(req[q].pages, P) IN
          /\ Page(q, P)
          /\ IF req[q].kind = "history"
             THEN Reply(q, Answer(q, FALSE, TRUE, NoStates, History(pages)))
             ELSE \E s \in [req[q].fp -> UNION {States(pages, f) : f \in req[q].fp}] :
                    /\ \A f \in req[q].fp : s[f] \in States(pages, f)
                    /\ Reply(q, Answer(q, FALSE, TRUE, s, NoStates))
    BY <1>4 DEF FetchLast
  <2>2. UNCHANGED <<now, log, nextId>> /\ req[q].pc = "fetch"
    BY <1>4 DEF FetchLast
  <2>3. CASE req[q].kind = "history"
    <3>1. \A h : AnswerGood(req[q].began, Answer(q, FALSE, TRUE, NoStates, h))
      BY DEF AnswerGood, Answer, NoStates
    <3> QED
      BY <2>1, <2>2, <2>3, <3>1
  <2>4. CASE req[q].kind # "history"
    <3> DEFINE pages == Append(req[q].pages, P)
    <3>1. PICK s \in [req[q].fp -> UNION {States(pages, f) : f \in req[q].fp}] :
            /\ \A f \in req[q].fp : s[f] \in States(pages, f)
            /\ Reply(q, Answer(q, FALSE, TRUE, s, NoStates))
      BY <2>1, <2>4
    <3>2. /\ req[q].pages \in Seq(SUBSET log) /\ req[q].began \in SUBSET log
          /\ \A i \in DOMAIN req[q].pages : Newest(req[q].began, req[q].pages[i])
      BY <2>4 DEF TInv, ReqOK, RInv, Good
    <3>3. P \in SUBSET log /\ Newest(req[q].began, P)
      BY <2>1, <2>4, PageIsNewest
    <3>4. /\ pages \in Seq(SUBSET log)
          /\ \A i \in DOMAIN pages : Newest(req[q].began, pages[i])
      BY <3>2, <3>3
    <3> HIDE DEF pages
    <3>5. \A f \in req[q].fp : Right(req[q].began, s[f], f)
      BY <3>1, <3>2, <3>4, FoldIsRight DEF RInv
    <3> DEFINE a == Answer(q, FALSE, TRUE, s, NoStates)
    <3>6. a.states = s /\ DOMAIN s = req[q].fp
      BY <3>1 DEF Answer
    <3>7. AnswerGood(req[q].began, a)
      BY <3>5, <3>6 DEF AnswerGood
    <3> QED
      BY <2>2, <3>1, <3>7
  <2> QED
    BY <2>3, <2>4
<1> QED
  BY <1>2, <1>3, <1>4

(* One request moves on in a step that records nothing.                    *)
LEMMA MoveKeeps ==
  ASSUME TInv, RInv, NEW q \in Requests, log' = log,
         \A r \in Requests : r # q => req'[r] = req[r],
         Good(req'[q]),
         req'[q].pc = "record" => req'[q].kind = "action",
         \/ req[q].pc = "new" \/ req[q].pc = "record"
         \/ /\ req'[q].pc \notin {"new", "record"}
            /\ req'[q].kind = req[q].kind /\ req'[q].stamp = req[q].stamp
  PROVE  RInv'
<1>1. LogOK'
  <2>1. ASSUME NEW r \in log, r.by # NoOne
        PROVE  /\ r.by \in Requests
               /\ req'[r.by].pc \notin {"new", "record"} /\ req'[r.by].kind = "action"
               /\ r.time = req'[r.by].stamp
    <3>1. /\ r.by \in Requests
          /\ req[r.by].pc \notin {"new", "record"} /\ req[r.by].kind = "action"
          /\ r.time = req[r.by].stamp
      BY <2>1 DEF RInv, LogOK
    <3> QED
      BY <3>1
  <2> QED
    BY <2>1 DEF RInv, LogOK
<1> QED
  BY <1>1 DEF RInv

LEMMA RightStep ==
  ASSUME Skew = 0, TInv, RInv, [Next]_vars
  PROVE  RInv'
<1>1. CASE UNCHANGED <<log, req>>
  BY <1>1 DEF RInv, LogOK
<1>2. ASSUME NEW q \in Requests, NEW k \in Reads, NEW fp \in Fps, StartRead(q, k, fp)
      PROVE  RInv'
  <2>1. k # "action"
    BY LogAssumption
  <2>2. Good(req'[q])
    BY <1>2, <2>1, StartReadType DEF Good
  <2> QED
    BY <1>2, <2>2, StartReadType, MoveKeeps
<1>3. ASSUME NEW q \in Requests, NEW a \in Actions, StartAction(q, a)
      PROVE  RInv'
  <2>1. req'[q].stamp = now
    BY <1>3, StartActionType DEF TInv
  <2>2. ASSUME NEW b \in log, b.by # NoOne PROVE b.time <= now
    <3>1. b.by \in Requests /\ b.time = req[b.by].stamp
      BY <2>2 DEF RInv, LogOK
    <3>2. req[b.by].stamp \in 0 .. now
      BY <3>1 DEF TInv, ReqOK
    <3> QED
      BY <3>1, <3>2
  <2>3. Good(req'[q])
    BY <1>3, <2>1, <2>2, StartActionType DEF Good
  <2> QED
    BY <1>3, <2>3, StartActionType, MoveKeeps
<1>4. ASSUME NEW q \in Requests, RecordEvent(q)
      PROVE  RInv'
  <2>1. PICK a \in Actions : log' = log \cup {Stored(q, a)}
    BY <1>4, RecordType
  <2>2. /\ \A r \in Requests : r # q => req'[r] = req[r]
        /\ req[q].pc = "record" /\ req'[q].pc \in {"fetch", "done"}
        /\ req'[q].kind = req[q].kind /\ req'[q].stamp = req[q].stamp
        /\ req'[q].began = req[q].began
        /\ req'[q].pages = req[q].pages \/ req'[q].pages = <<>>
        /\ \A x \in req'[q].answer : ~x.folded
    BY <1>4, RecordType
  <2>3. req[q].kind = "action"
    BY <2>2 DEF RInv
  <2>4. Good(req'[q])
    BY <2>2 DEF RInv, Good, AnswerGood
  <2>5. Stored(q, a).by = q /\ Stored(q, a).time = req[q].stamp
    BY DEF Stored
  <2>6. \A r \in log : r.by # NoOne => r.by # q
    BY <2>2 DEF RInv, LogOK
  <2>7. ASSUME NEW r \in log', r.by # NoOne
        PROVE  /\ r.by \in Requests
               /\ req'[r.by].pc \notin {"new", "record"} /\ req'[r.by].kind = "action"
               /\ r.time = req'[r.by].stamp
    <3>1. CASE r \in log
      <4>1. /\ r.by \in Requests
            /\ req[r.by].pc \notin {"new", "record"} /\ req[r.by].kind = "action"
            /\ r.time = req[r.by].stamp
        BY <2>7, <3>1 DEF RInv, LogOK
      <4> QED
        BY <2>2, <2>6, <2>7, <3>1, <4>1
    <3>2. CASE r = Stored(q, a)
      BY <2>2, <2>3, <2>5, <3>2
    <3> QED
      BY <2>1, <3>1, <3>2
  <2>8. \A r, s \in log' : r.by = s.by /\ r.by # NoOne => r = s
    BY <2>1, <2>5, <2>6 DEF RInv, LogOK
  <2>9. LogOK'
    BY <2>7, <2>8 DEF LogOK
  <2> QED
    BY <2>2, <2>4, <2>9 DEF RInv
<1>5. ASSUME NEW q \in Requests, FetchMore(q)
      PROVE  RInv'
  <2>1. PICK P \in SUBSET Matching(q) : Page(q, P) /\ req'[q].pages = Append(req[q].pages, P)
    BY <1>5, MoreType
  <2>2. /\ req'[q].kind = req[q].kind /\ req'[q].stamp = req[q].stamp
        /\ req'[q].began = req[q].began /\ req'[q].answer = req[q].answer
        /\ req'[q].pc = "fetch" /\ log' = log
        /\ \A r \in Requests : r # q => req'[r] = req[r]
    BY <1>5, MoreType
  <2>3. Good(req[q]) /\ req[q].pages \in Seq(SUBSET log)
    BY DEF RInv, TInv, ReqOK
  <2>4. ASSUME req[q].kind # "history"
        PROVE  \A i \in DOMAIN req'[q].pages : Newest(req[q].began, req'[q].pages[i])
    <3>1. P \in SUBSET log /\ Newest(req[q].began, P)
      BY <2>1, <2>4, PageIsNewest
    <3>2. \A i \in DOMAIN req[q].pages : Newest(req[q].began, req[q].pages[i])
      BY <2>3, <2>4 DEF Good
    <3> QED
      BY <2>1, <2>3, <3>1, <3>2
  <2>5. Good(req'[q])
    BY <2>2, <2>3, <2>4 DEF Good
  <2> QED
    BY <2>2, <2>5, MoveKeeps, <1>5, MoreType
<1>6. ASSUME NEW q \in Requests, RecordFails(q) \/ FetchLast(q) \/ FetchFails(q)
      PROVE  RInv'
  <2>1. PICK a : /\ Reply(q, a) /\ UNCHANGED <<now, log, nextId>>
                 /\ AnswerGood(req[q].began, a) /\ req[q].pc \in {"record", "fetch"}
    BY <1>6, EndIsRight
  <2>2. /\ \A r \in Requests : r # q => req'[r] = req[r]
        /\ req'[q].pc = "done" /\ req'[q].answer = {a} /\ req'[q].pages = <<>>
        /\ req'[q].kind = req[q].kind /\ req'[q].stamp = req[q].stamp
        /\ req'[q].began = req[q].began
    BY <2>1, ReplyEnds
  <2>3. Good(req'[q])
    BY <2>1, <2>2 DEF RInv, Good
  <2> QED
    BY <2>1, <2>2, <2>3, MoveKeeps
<1> QED
  BY <1>1, <1>2, <1>3, <1>4, <1>5, <1>6 DEF Next, Tick, vars

(* Where the clocks of the replicas agree an action is visible to every    *)
(* next read (docs/triage.md:45-46), whatever the length of the log, the   *)
(* size of its pages, the requests in between and the calls that fail: a   *)
(* read never shows an action that a later one had followed when it began. *)
THEOREM ActionsAreSeen == ASSUME Skew = 0 PROVE Spec => []NextReadSeesIt
<1>1. TInv /\ RInv => NextReadSeesIt
  <2> SUFFICES ASSUME TInv, RInv, NEW q \in Requests, NEW a \in FoldedAnswers(q),
                      NEW fp \in DOMAIN a.states,
                      NEW b \in {r \in req[q].began : r.fp = fp /\ r.act \in StatusActs},
                      NEW c \in {r \in req[q].began : r.fp = fp /\ r.act \in StatusActs},
                      c.by # NoOne, b.by # NoOne, b \in req[c.by].began, b.time # c.time
               PROVE  a.states[fp].version # b.by
    BY DEF NextReadSeesIt
  <2>1. b \in log /\ c \in log /\ log \subseteq Row
    BY DEF TInv, ReqOK
  <2>2. c.by \in Requests /\ req[c.by].kind = "action" /\ c.time = req[c.by].stamp
    BY <2>1 DEF RInv, LogOK
  <2>3. b.time <= c.time
    BY <2>2 DEF RInv, Good
  <2>4. c.time > b.time
    BY <2>1, <2>3 DEF Row
  <2>5. Right(req[q].began, a.states[fp], fp)
    BY DEF FoldedAnswers, RInv, Good, AnswerGood
  <2> QED
    BY <2>4, <2>5 DEF Right
<1>2. TInv /\ RInv /\ [Next]_vars => RInv'
  BY RightStep
<1> QED
  BY <1>1, <1>2, RightInit, TypeInvariant, PTL DEF Spec

-----------------------------------------------------------------------------
(* The refinement.                                                         *)

(* The log cannot fill a page: each request records one event at most.     *)
ShortLogs ==
  /\ IsFiniteSet(Requests)
  /\ \A l \in InitialLogs :
       IsFiniteSet(l) /\ Cardinality(l) + Cardinality(Requests) < Limit

(* The requests that may still record.                                     *)
Unrecorded == {q \in Requests : req[q].pc \in {"new", "record"}}

Short ==
  /\ IsFiniteSet(log) /\ IsFiniteSet(Unrecorded)
  /\ Cardinality(log) + Cardinality(Unrecorded) < Limit

(* A row that was recorded here is of a request that is past recording.    *)
Once == \A r \in log : r.by # NoOne => r.by \in Requests \ Unrecorded

(* Whoever fetches has no page yet, and an action has its event in the log.*)
Fetching ==
  \A q \in Requests :
    /\ req[q].pages = <<>>
    /\ req[q].pc = "fetch" /\ req[q].kind = "action" => \E r \in log : IsEvent(r) /\ r.by = q

SInv == Short /\ Once /\ Fetching

-----------------------------------------------------------------------------
(* Newest rows.                                                            *)

(* A finite set of rows that is not empty has a newest one.                *)
LEMMA NewestRow ==
  ASSUME NEW H, H \subseteq Row, IsFiniteSet(H), H # {}
  PROVE  \E r \in H : \A s \in H : s.time <= r.time
<1> DEFINE Later(r) == {s \in H : s.time > r.time}
           T == {Cardinality(Later(r)) : r \in H}
<1>1. \A r \in H : IsFiniteSet(Later(r)) /\ Cardinality(Later(r)) \in Nat
  <2> TAKE r \in H
  <2>1. IsFiniteSet(Later(r))
    BY FS_Subset
  <2> QED
    BY <2>1, FS_CardinalityType
<1>2. T \in SUBSET Nat /\ T # {}
  BY <1>1
<1>3. PICK m \in T : \A n \in T : m <= n
  BY <1>2, Smallest
<1>4. PICK r \in H : m = Cardinality(Later(r))
  OBVIOUS
<1>5. ASSUME NEW s \in H, ~(s.time <= r.time) PROVE FALSE
  <2>1. r.time \in Nat /\ s.time \in Nat /\ \A t \in H : t.time \in Nat
    BY DEF Row
  <2>2. Later(s) \in SUBSET Later(r) /\ s \in Later(r) /\ s \notin Later(s)
    BY <1>5, <2>1
  <2> HIDE DEF Later
  <2>3. Cardinality(Later(s)) <= Cardinality(Later(r)) /\ Cardinality(Later(s)) # Cardinality(Later(r))
    BY <1>1, <2>2, FS_Subset
  <2>4. Cardinality(Later(r)) <= Cardinality(Later(s))
    BY <1>3, <1>4
  <2> QED
    BY <1>1, <2>3, <2>4
<1> QED
  BY <1>5

(* The rows of fp with an action in Acts.                                  *)
Of(fp, Acts) == {r \in log : r.fp = fp /\ r.act \in Acts}

(* What comes first on the one page there is are the newest rows.          *)
LEMMA FirstOfLog ==
  ASSUME NEW fp, NEW Acts
  PROVE  First(<<log>>, fp, Acts) =
           {r \in Of(fp, Acts) : \A s \in Of(fp, Acts) : s.time <= r.time}
<1> DEFINE hits(i) == {r \in <<log>>[i] : r.fp = fp /\ r.act \in Acts}
           hit == {i \in DOMAIN <<log>> : hits(i) # {}}
           page == CHOOSE i \in hit : \A j \in hit : i <= j
<1>1. DOMAIN <<log>> = {1} /\ hits(1) = Of(fp, Acts)
  BY DEF Of
<1>2. First(<<log>>, fp, Acts) =
        IF hit = {} THEN {} ELSE {r \in hits(page) : \A s \in hits(page) : s.time <= r.time}
  BY DEF First
<1>3. CASE Of(fp, Acts) = {}
  BY <1>1, <1>2, <1>3
<1>4. CASE Of(fp, Acts) # {}
  <2>1. hit = {1}
    BY <1>1, <1>4
  <2>2. page = 1
    BY <2>1
  <2> HIDE DEF hit, page, hits
  <2> QED
    BY <1>1, <1>2, <2>1, <2>2
<1> QED
  BY <1>3, <1>4

(* It picks one of them when there is any.                                 *)
LEMMA PickOfLog ==
  ASSUME TInv, IsFiniteSet(log), NEW fp, NEW Acts,
         NEW S \in Picks(First(<<log>>, fp, Acts))
  PROVE  \/ S = {} /\ Of(fp, Acts) = {}
         \/ \E r \in Of(fp, Acts) : S = {r} /\ \A s \in Of(fp, Acts) : s.time <= r.time
<1>1. CASE Of(fp, Acts) = {}
  BY <1>1, FirstOfLog DEF Picks
<1>2. CASE Of(fp, Acts) # {}
  <2>1. Of(fp, Acts) \subseteq Row /\ IsFiniteSet(Of(fp, Acts))
    BY FS_Subset DEF TInv, Of
  <2>2. First(<<log>>, fp, Acts) # {}
    BY <1>2, <2>1, NewestRow, FirstOfLog
  <2> QED
    BY <2>2, FirstOfLog DEF Picks
<1> QED
  BY <1>1, <1>2

-----------------------------------------------------------------------------
(* The state the fold makes of the log.                                    *)

(* The parts of a folded state.                                            *)
LEMMA StateParts ==
  ASSUME NEW fp, NEW st \in States(<<log>>, fp)
  PROVE  \E S \in Picks(First(<<log>>, fp, StatusActs)),
            A \in Picks(First(<<log>>, fp, {"assign"})) :
         \E u \in Picks({r \in S \cup A : \A s \in S \cup A : s.time <= r.time}) :
           st = StateOf(S, A, u)
<1> DEFINE Newer(S, A) == Picks({r \in S \cup A : \A s \in S \cup A : s.time <= r.time})
           Made(S, A) == {StateOf(S, A, u) : u \in Newer(S, A)}
<1>1. \E S \in Picks(First(<<log>>, fp, StatusActs)), A \in Picks(First(<<log>>, fp, {"assign"})) :
        st \in Made(S, A)
  <2>1. st \in UNION {Made(S, A) : S \in Picks(First(<<log>>, fp, StatusActs)),
                                   A \in Picks(First(<<log>>, fp, {"assign"}))}
    BY DEF States
  <2> HIDE DEF Made
  <2> QED
    BY <2>1
<1> QED
  BY <1>1

Events == {r \in log : IsEvent(r)}

(* The register's own names, of events.                                    *)
LEMMA RegisterLatest ==
  ASSUME NEW fp, NEW Acts, Acts \subseteq StatusActs \cup {"assign"}
  PROVE  /\ Register!Has(fp, Acts) <=> Of(fp, Acts) # {}
         /\ \A r : Register!Latest(r, fp, Acts)
                     <=> r \in Of(fp, Acts) /\ \A s \in Of(fp, Acts) : s.time <= r.time
<1>1. "other" \notin StatusActs \cup {"assign"}
  BY DEF StatusActs, StatusOf
<1>2. Of(fp, Acts) = {r \in Events : r.fp = fp /\ r.act \in Acts}
  BY <1>1 DEF Of, Events, IsEvent
<1>3. Register!Has(fp, Acts) <=> \E e \in Events : e.fp = fp /\ e.act \in Acts
  BY DEF Register!Has, Events
<1>4. \A r : Register!Latest(r, fp, Acts)
               <=> /\ r \in Events /\ r.fp = fp /\ r.act \in Acts
                   /\ \A f \in Events : f.fp = fp /\ f.act \in Acts => f.time <= r.time
  BY DEF Register!Latest, Events
<1> QED
  BY <1>2, <1>3, <1>4

LEMMA StateIsRight ==
  ASSUME TInv, IsFiniteSet(log), NEW fp, NEW st \in States(<<log>>, fp)
  PROVE  Register!StatusRight(st, fp) /\ Register!AssigneeRight(st, fp)
         /\ Register!UpdateRight(st, fp)
<1> DEFINE SA == Of(fp, StatusActs)
           AA == Of(fp, {"assign"})
           BA == Of(fp, StatusActs \cup {"assign"})
<1>1. PICK S \in Picks(First(<<log>>, fp, StatusActs)),
           A \in Picks(First(<<log>>, fp, {"assign"})) :
        \E u \in Picks({r \in S \cup A : \A s \in S \cup A : s.time <= r.time}) :
          st = StateOf(S, A, u)
  BY StateParts
<1>2. PICK u \in Picks({r \in S \cup A : \A s \in S \cup A : s.time <= r.time}) :
        st = StateOf(S, A, u)
  BY <1>1
<1>3. \/ S = {} /\ SA = {}
      \/ \E r \in SA : S = {r} /\ \A s \in SA : s.time <= r.time
  BY PickOfLog
<1>4. \/ A = {} /\ AA = {}
      \/ \E r \in AA : A = {r} /\ \A s \in AA : s.time <= r.time
  BY PickOfLog
<1>5. BA = SA \cup AA
  BY DEF Of
<1>6. \A r \in BA : r.time \in Nat
  BY DEF TInv, Of, Row
<1>7. /\ Register!Has(fp, StatusActs) <=> SA # {}
      /\ \A r : Register!Latest(r, fp, StatusActs) <=> r \in SA /\ \A s \in SA : s.time <= r.time
  BY RegisterLatest
<1>8. /\ Register!Has(fp, {"assign"}) <=> AA # {}
      /\ \A r : Register!Latest(r, fp, {"assign"}) <=> r \in AA /\ \A s \in AA : s.time <= r.time
  BY RegisterLatest
<1>9. /\ Register!Has(fp, StatusActs \cup {"assign"}) <=> BA # {}
      /\ \A r : Register!Latest(r, fp, StatusActs \cup {"assign"})
                  <=> r \in BA /\ \A s \in BA : s.time <= r.time
  BY RegisterLatest
<1>10. Register!StatusActs = StatusActs
  BY DEF Register!StatusActs, StatusActs
<1>in. \A r : Register!Latest(r, fp, StatusActs) => r \in Events
  BY DEF Register!Latest, Events
<1>ia. \A r : Register!Latest(r, fp, {"assign"}) => r \in Events
  BY DEF Register!Latest, Events
<1>ib. \A r : Register!Latest(r, fp, StatusActs \cup {"assign"}) => r \in Events
  BY DEF Register!Latest, Events
<1>a. /\ st.status = (IF S # {} THEN StatusOf[(CHOOSE s \in S : TRUE).act]
                      ELSE IF A # {} THEN "active" ELSE "none")
      /\ st.version = (IF S # {} THEN (CHOOSE s \in S : TRUE).by ELSE NoOne)
      /\ st.assignee = (IF A # {} THEN (CHOOSE x \in A : TRUE).assignee ELSE NoOne)
      /\ st.updatedAt = (IF u = {} THEN 0 ELSE (CHOOSE r \in u : TRUE).time)
      /\ st.updatedBy = (IF u = {} THEN NoOne ELSE (CHOOSE r \in u : TRUE).by)
  BY <1>2 DEF StateOf
<1> HIDE DEF SA, AA, BA
<1>11. Register!StatusRight(st, fp)
  <2>1. CASE S = {} /\ SA = {}
    BY <1>4, <1>7, <1>8, <1>10, <1>a, <2>1 DEF Register!StatusRight
  <2>2. CASE \E r \in SA : S = {r} /\ \A s \in SA : s.time <= r.time
    <3>1. PICK r \in SA : S = {r} /\ \A s \in SA : s.time <= r.time
      BY <2>2
    <3>2. st.status = StatusOf[r.act] /\ st.version = r.by
      BY <1>a, <3>1
    <3>3. Register!Latest(r, fp, Register!StatusActs) /\ r \in Events
      BY <1>7, <1>10, <1>in, <3>1
    <3> QED
      BY <3>2, <3>3 DEF Register!StatusRight, Events
  <2> QED
    BY <1>3, <2>1, <2>2
<1>12. Register!AssigneeRight(st, fp)
  <2>1. CASE A = {} /\ AA = {}
    BY <1>8, <1>a, <2>1 DEF Register!AssigneeRight
  <2>2. CASE \E r \in AA : A = {r} /\ \A s \in AA : s.time <= r.time
    <3>1. PICK r \in AA : A = {r} /\ \A s \in AA : s.time <= r.time
      BY <2>2
    <3>2. st.assignee = r.assignee
      BY <1>a, <3>1
    <3>3. Register!Latest(r, fp, {"assign"}) /\ r \in Events
      BY <1>8, <1>ia, <3>1
    <3> QED
      BY <3>2, <3>3 DEF Register!AssigneeRight, Events
  <2> QED
    BY <1>4, <2>1, <2>2
<1>13. Register!UpdateRight(st, fp)
  <2> DEFINE N == {r \in S \cup A : \A s \in S \cup A : s.time <= r.time}
  <2>0. S \cup A \subseteq BA
    BY <1>3, <1>4, <1>5
  <2>1. CASE BA = {}
    <3>1. N = {}
      BY <1>5, <2>0, <2>1
    <3>2. u = {}
      BY <3>1 DEF Picks
    <3> QED
      BY <1>9, <1>10, <1>a, <2>1, <3>2 DEF Register!UpdateRight
  <2>2. CASE BA # {}
    <3>1. N # {}
      <4>1. S \cup A # {}
        BY <1>3, <1>4, <1>5, <2>2
      <4>2. CASE S = {} \/ A = {}
        BY <1>3, <1>4, <1>5, <1>6, <4>1, <4>2
      <4>3. CASE S # {} /\ A # {}
        <5>1. PICK s \in SA, x \in AA : S = {s} /\ A = {x}
          BY <1>3, <1>4, <4>3
        <5>2. s.time \in Nat /\ x.time \in Nat
          BY <1>5, <1>6
        <5>3. s.time <= x.time \/ x.time <= s.time
          BY <5>2
        <5>4. s \in N \/ x \in N
          BY <5>1, <5>2, <5>3
        <5> QED
          BY <5>4
      <4> QED
        BY <4>2, <4>3
    <3>2. PICK r \in N : u = {r}
      BY <3>1 DEF Picks
    <3>3. r \in BA /\ \A s \in BA : s.time <= r.time
      <4>1. r \in BA /\ r.time \in Nat
        BY <1>6, <2>0
      <4>2. ASSUME NEW s \in BA PROVE s.time <= r.time
        <5>0. s.time \in Nat
          BY <1>6
        <5>1. CASE s \in SA
          <6>1. PICK x \in SA : S = {x} /\ \A y \in SA : y.time <= x.time
            BY <1>3, <5>1
          <6>2. x.time <= r.time /\ s.time <= x.time /\ x.time \in Nat
            BY <1>5, <1>6, <5>1, <6>1
          <6> QED
            BY <4>1, <5>0, <6>2
        <5>2. CASE s \in AA
          <6>1. PICK x \in AA : A = {x} /\ \A y \in AA : y.time <= x.time
            BY <1>4, <5>2
          <6>2. x.time <= r.time /\ s.time <= x.time /\ x.time \in Nat
            BY <1>5, <1>6, <5>2, <6>1
          <6> QED
            BY <4>1, <5>0, <6>2
        <5> QED
          BY <1>5, <5>1, <5>2
      <4> QED
        BY <4>1, <4>2
    <3>4. Register!Latest(r, fp, StatusActs \cup {"assign"}) /\ r \in Events
      BY <1>9, <1>ib, <3>3
    <3>5. st.updatedAt = r.time /\ st.updatedBy = r.by
      BY <1>a, <3>2
    <3> QED
      BY <1>10, <3>4, <3>5 DEF Register!UpdateRight, Events
  <2> QED
    BY <2>1, <2>2
<1> QED
  BY <1>11, <1>12, <1>13

-----------------------------------------------------------------------------
(* A call of fetch returns the whole log of the request.                   *)

LEMMA PageIsAll ==
  ASSUME TInv, SInv, NEW q \in Requests, NEW P \in SUBSET Matching(q), Page(q, P)
  PROVE  P = Matching(q) /\ LastPage(q, P)
<1>1. /\ IsFiniteSet(log) /\ Cardinality(log) \in Nat /\ Cardinality(log) < Limit
  <2>1. Cardinality(log) \in Nat /\ Cardinality(Unrecorded) \in Nat
    BY FS_CardinalityType DEF SInv, Short
  <2> QED
    BY <2>1, Constants DEF SInv, Short
<1>2. /\ IsFiniteSet(Matching(q)) /\ Cardinality(Matching(q)) \in Nat
      /\ Cardinality(Matching(q)) < Limit
  <2>1. Matching(q) \in SUBSET log
    BY DEF Matching
  <2>2. IsFiniteSet(Matching(q)) /\ Cardinality(Matching(q)) <= Cardinality(log)
    BY <1>1, <2>1, FS_Subset
  <2> QED
    BY <1>1, <2>2, FS_CardinalityType, Constants
<1>3. Window(Matching(q), 0, Upper(q)) = Matching(q)
  BY DEF Window
<1>4. Cardinality(P) = Cardinality(Matching(q))
  BY <1>2, <1>3 DEF Page, IsPage
<1>5. P = Matching(q)
  BY <1>2, <1>4, FS_Subset
<1> QED
  BY <1>2, <1>5 DEF LastPage

LEMMA NoSecondPage == ASSUME TInv, SInv, NEW q \in Requests PROVE ~FetchMore(q)
BY PageIsAll DEF FetchMore

-----------------------------------------------------------------------------
(* The invariant.                                                          *)

LEMMA ShortInit == ASSUME ShortLogs, Init PROVE SInv
<1>1. Unrecorded = Requests
  BY DEF Init, Unrecorded, Idle
<1>2. Short
  BY <1>1 DEF ShortLogs, Init, Short
<1>3. Once
  BY LogAssumption DEF Init, Once
<1>4. Fetching
  BY DEF Init, Fetching, Idle
<1> QED
  BY <1>2, <1>3, <1>4 DEF SInv

(* A request moves on without recording.                                   *)
LEMMA MoveShort ==
  ASSUME SInv, NEW q \in Requests, log' = log,
         \A r \in Requests : r # q => req'[r] = req[r],
         req'[q].pc \in {"new", "record"} => req[q].pc \in {"new", "record"},
         req'[q].pages = <<>>,
         req'[q].pc = "fetch" => req'[q].kind # "action"
  PROVE  SInv'
<1>1. Unrecorded' \in SUBSET Unrecorded
  BY DEF Unrecorded
<1>2. Short'
  <2>1. IsFiniteSet(Unrecorded') /\ Cardinality(Unrecorded') <= Cardinality(Unrecorded)
    BY <1>1, FS_Subset DEF SInv, Short
  <2>2. /\ Cardinality(Unrecorded') \in Nat /\ Cardinality(Unrecorded) \in Nat
        /\ Cardinality(log) \in Nat
    BY <2>1, FS_CardinalityType DEF SInv, Short
  <2> QED
    BY <2>1, <2>2, Constants DEF SInv, Short
<1>3. Once'
  BY <1>1 DEF SInv, Once
<1>4. Fetching'
  BY DEF SInv, Fetching
<1> QED
  BY <1>2, <1>3, <1>4 DEF SInv

LEMMA RecordShort ==
  ASSUME TInv, SInv, NEW q \in Requests, RecordEvent(q)
  PROVE  SInv'
<1>1. PICK a \in Actions : log' = log \cup {Stored(q, a)} /\ Stored(q, a) \in Row
  BY RecordType
<1>2. /\ \A r \in Requests : r # q => req'[r] = req[r]
      /\ req[q].pc = "record" /\ req'[q].pc \in {"fetch", "done"}
      /\ req'[q].pages = req[q].pages \/ req'[q].pages = <<>>
  BY RecordType
<1>3. Unrecorded' = Unrecorded \ {q} /\ q \in Unrecorded
  BY <1>2 DEF Unrecorded
<1>4. Stored(q, a).by = q /\ IsEvent(Stored(q, a))
  <2>1. a.act \in StatusActs \cup {"assign"}
    BY LogAssumption
  <2>2. a.act # "other"
    BY <2>1 DEF StatusActs, StatusOf
  <2> QED
    BY <2>2 DEF Stored, IsEvent
<1>5. Short'
  <2>1. /\ IsFiniteSet(log') /\ Cardinality(log') <= Cardinality(log) + 1
        /\ Cardinality(log) \in Nat
    <3>1. IsFiniteSet(log) /\ Cardinality(log) \in Nat
      BY FS_CardinalityType DEF SInv, Short
    <3>2. /\ IsFiniteSet(log \cup {Stored(q, a)})
          /\ Cardinality(log \cup {Stored(q, a)}) =
               IF Stored(q, a) \in log THEN Cardinality(log) ELSE Cardinality(log) + 1
      BY <3>1, FS_AddElement
    <3> QED
      BY <1>1, <3>1, <3>2
  <2>2. /\ IsFiniteSet(Unrecorded') /\ Cardinality(Unrecorded') = Cardinality(Unrecorded) - 1
        /\ Cardinality(Unrecorded) \in Nat
    BY <1>3, FS_RemoveElement, FS_CardinalityType DEF SInv, Short
  <2>3. Cardinality(log') \in Nat
    BY <2>1, FS_CardinalityType
  <2> QED
    BY <2>1, <2>2, <2>3, Constants DEF SInv, Short
<1>6. Once'
  BY <1>1, <1>3, <1>4 DEF SInv, Once
<1>7. Fetching'
  <2>1. \A r \in log : r \in log'
    BY <1>1
  <2>2. ASSUME NEW p \in Requests
        PROVE  /\ req'[p].pages = <<>>
               /\ req'[p].pc = "fetch" /\ req'[p].kind = "action"
                    => \E r \in log' : IsEvent(r) /\ r.by = p
    <3>1. CASE p = q
      BY <1>1, <1>2, <1>4, <3>1 DEF SInv, Fetching
    <3>2. CASE p # q
      BY <1>2, <2>1, <3>2 DEF SInv, Fetching
    <3> QED
      BY <3>1, <3>2
  <2> QED
    BY <2>2 DEF Fetching
<1> QED
  BY <1>5, <1>6, <1>7 DEF SInv

LEMMA ShortStep == ASSUME TInv, SInv, [Next]_vars PROVE SInv'
<1>1. CASE UNCHANGED <<log, req>>
  BY <1>1 DEF SInv, Short, Once, Fetching, Unrecorded
<1>2. ASSUME NEW q \in Requests, NEW k \in Reads, NEW fp \in Fps, StartRead(q, k, fp)
      PROVE  SInv'
  <2>1. k # "action"
    BY LogAssumption
  <2> QED
    BY <1>2, <2>1, StartReadType, MoveShort
<1>3. ASSUME NEW q \in Requests, NEW a \in Actions, StartAction(q, a)
      PROVE  SInv'
  BY <1>3, StartActionType, MoveShort
<1>4. ASSUME NEW q \in Requests, RecordEvent(q)
      PROVE  SInv'
  BY <1>4, RecordShort
<1>5. ASSUME NEW q \in Requests, FetchMore(q)
      PROVE  SInv'
  BY <1>5, NoSecondPage
<1>6. ASSUME NEW q \in Requests, RecordFails(q) \/ FetchLast(q) \/ FetchFails(q)
      PROVE  SInv'
  <2>1. PICK a : Reply(q, a) /\ UNCHANGED <<now, log, nextId>>
    BY <1>6, EndType
  <2>2. /\ \A r \in Requests : r # q => req'[r] = req[r]
        /\ req'[q].pc = "done" /\ req'[q].pages = <<>>
    BY <2>1, ReplyEnds
  <2> QED
    BY <2>1, <2>2, MoveShort
<1> QED
  BY <1>1, <1>2, <1>3, <1>4, <1>5, <1>6 DEF Next, Tick, vars

-----------------------------------------------------------------------------
(* The refinement: a recorded event is the register's Append, the end of a *)
(* request its Respond, and every other step is none of the register's.    *)

Answers == [q \in Requests |-> req[q].answer]

(* Nothing is said, and nothing recorded.                                  *)
LEMMA Silent ==
  ASSUME log' = log, NEW q \in Requests, \A r \in Requests : r # q => req'[r] = req[r],
         req'[q].answer = req[q].answer
  PROVE  UNCHANGED <<Events, Answers>>
BY DEF Events, Answers

LEMMA AppendsOne ==
  ASSUME TInv, SInv, NEW q \in Requests, RecordEvent(q)
  PROVE  Register!Append(q)
<1>1. PICK a \in Actions : log' = log \cup {Stored(q, a)} /\ Stored(q, a) \in Row
  BY RecordType
<1>2. /\ \A r \in Requests : r # q => req'[r] = req[r]
      /\ req[q].pc = "record"
      /\ \A x \in req'[q].answer : ~x.folded
  BY RecordType
<1>3. Stored(q, a).by = q /\ IsEvent(Stored(q, a))
  <2>1. a.act \in StatusActs \cup {"assign"}
    BY LogAssumption
  <2>2. a.act # "other"
    BY <2>1 DEF StatusActs, StatusOf
  <2> QED
    BY <2>2 DEF Stored, IsEvent
<1>4. \A e \in log : e.by # q
  BY <1>2, LogAssumption DEF SInv, Once, Unrecorded
<1>5. Events' = Events \cup {Stored(q, a)}
  BY <1>1, <1>3 DEF Events
<1>6. \A e \in Events : e.by # q
  BY <1>4 DEF Events
<1>7. Stored(q, a) \in Events' \ Events
  BY <1>3, <1>5, <1>6
<1>8. \A p \in Requests : Answers'[p] = req'[p].answer /\ Answers[p] = req[p].answer
  BY DEF Answers
<1>9. /\ \A p \in Requests \ {q} : Answers'[p] = Answers[p]
      /\ \A x \in Answers'[q] : ~x.folded
  BY <1>2, <1>8
<1>10. \E e \in Events' \ Events : e.by = q /\ Events' = Events \cup {e}
  BY <1>3, <1>5, <1>7
<1> QED
  BY <1>6, <1>9, <1>10 DEF Register!Append, Events, Answers

(* A reply that shows a fold shows the one of all the events.              *)
AnswerRight(q, a) ==
  a.folded => Register!Right(a) /\ (a.kind = "action" => \E e \in Events : e.by = q)

LEMMA RespondsOnce ==
  ASSUME TInv, NEW q \in Requests, NEW a, Reply(q, a), log' = log,
         req[q].pc # "done", AnswerRight(q, a)
  PROVE  Register!Respond(q)
<1>1. /\ \A r \in Requests : r # q => req'[r] = req[r]
      /\ req'[q].answer = {a}
  BY ReplyEnds
<1>2. req[q].answer = {}
  BY DEF TInv, ReqOK
<1>3. \A p \in Requests : Answers'[p] = req'[p].answer /\ Answers[p] = req[p].answer
  BY DEF Answers
<1>4. /\ Events' = Events /\ Answers[q] = {}
      /\ \A p \in Requests \ {q} : Answers'[p] = Answers[p]
      /\ a \in Answers'[q] /\ Answers'[q] = {a}
  BY <1>1, <1>2, <1>3 DEF Events
<1> QED
  BY <1>4 DEF Register!Respond, Events, Answers, AnswerRight

(* What is said at the end.                                                *)
LEMMA SaysRight ==
  ASSUME TInv, SInv, NEW q \in Requests, RecordFails(q) \/ FetchLast(q) \/ FetchFails(q)
  PROVE  \E a : /\ Reply(q, a) /\ UNCHANGED <<now, log, nextId>>
                /\ AnswerRight(q, a) /\ req[q].pc # "done"
<1>1. \A e, states, h : AnswerRight(q, Answer(q, e, FALSE, states, h))
  BY DEF AnswerRight, Answer
<1>2. CASE RecordFails(q)
  BY <1>1, <1>2 DEF RecordFails, Refuse
<1>3. CASE FetchFails(q)
  BY <1>1, <1>3 DEF FetchFails, Refuse
<1>4. CASE FetchLast(q)
  <2>1. PICK P \in SUBSET Matching(q) :
          LET pages == Append(req[q].pages, P) IN
          /\ Page(q, P)
          /\ IF req[q].kind = "history"
             THEN Reply(q, Answer(q, FALSE, TRUE, NoStates, History(pages)))
             ELSE \E s \in [req[q].fp -> UNION {States(pages, f) : f \in req[q].fp}] :
                    /\ \A f \in req[q].fp : s[f] \in States(pages, f)
                    /\ Reply(q, Answer(q, FALSE, TRUE, s, NoStates))
    BY <1>4 DEF FetchLast
  <2>2. UNCHANGED <<now, log, nextId>> /\ req[q].pc = "fetch"
    BY <1>4 DEF FetchLast
  <2>3. Append(req[q].pages, P) = <<Matching(q)>>
    <3>1. P = Matching(q) /\ req[q].pages = <<>>
      BY <2>1, PageIsAll DEF SInv, Fetching
    <3> QED
      BY <3>1
  <2>4. CASE req[q].kind = "history"
    <3> DEFINE h == History(<<Matching(q)>>)
               a == Answer(q, FALSE, TRUE, NoStates, h)
    <3>1. Reply(q, a)
      BY <2>1, <2>3, <2>4
    <3>2. h = [r \in {e \in Matching(q) : IsEvent(e)} |-> 1]
      <4> DEFINE M == <<Matching(q)>>
      <4>1. DOMAIN M = {1} /\ M[1] = Matching(q)
        OBVIOUS
      <4>2. UNION {{e \in M[i] : IsEvent(e)} : i \in DOMAIN M} = {e \in Matching(q) : IsEvent(e)}
        BY <4>1
      <4>3. ASSUME NEW r \in {e \in Matching(q) : IsEvent(e)}
            PROVE  Cardinality({i \in DOMAIN M : r \in M[i]}) = 1
        <5>1. {i \in DOMAIN M : r \in M[i]} = {1}
          BY <4>1
        <5> QED
          BY <5>1, FS_Singleton
      <4> HIDE DEF M
      <4>4. History(M) = [r \in {e \in Matching(q) : IsEvent(e)} |-> 1]
        BY <4>2, <4>3 DEF History
      <4> QED
        BY <4>4 DEF M
    <3>3. {e \in Matching(q) : IsEvent(e)} = {f \in Events : f.fp \in req[q].fp}
      BY <2>4 DEF Matching, Events
    <3> HIDE DEF h
    <3>4. a.kind = "history" /\ a.history = h /\ a.fp = req[q].fp
      BY <2>4 DEF Answer
    <3> HIDE DEF a
    <3>5. a.history = [e \in {f \in Events : f.fp \in a.fp} |-> 1]
      BY <3>2, <3>3, <3>4
    <3>6. Register!Right(a)
      BY <3>4, <3>5 DEF Register!Right, Events
    <3> QED
      BY <2>2, <3>1, <3>4, <3>6 DEF AnswerRight
  <2>5. CASE req[q].kind # "history"
    <3>1. Matching(q) = log
      BY <2>5 DEF Matching
    <3>2. PICK s \in [req[q].fp -> UNION {States(<<log>>, f) : f \in req[q].fp}] :
            /\ \A f \in req[q].fp : s[f] \in States(<<log>>, f)
            /\ Reply(q, Answer(q, FALSE, TRUE, s, NoStates))
      BY <2>1, <2>3, <2>5, <3>1
    <3> DEFINE a == Answer(q, FALSE, TRUE, s, NoStates)
    <3>3. a.kind = req[q].kind /\ a.states = s /\ DOMAIN a.states = req[q].fp
      BY <3>2 DEF Answer
    <3>4. Reply(q, a)
      BY <3>2
    <3> HIDE DEF a
    <3>5. \A f \in DOMAIN a.states :
            /\ Register!StatusRight(a.states[f], f)
            /\ Register!AssigneeRight(a.states[f], f)
            /\ Register!UpdateRight(a.states[f], f)
      BY <3>2, <3>3, StateIsRight DEF SInv, Short
    <3>6. Register!Right(a)
      BY <2>5, <3>3, <3>5 DEF Register!Right
    <3>7. a.kind = "action" => \E e \in Events : e.by = q
      BY <2>2, <3>3 DEF SInv, Fetching, Events
    <3> QED
      BY <2>2, <3>4, <3>6, <3>7 DEF AnswerRight
  <2> QED
    BY <2>4, <2>5
<1> QED
  BY <1>2, <1>3, <1>4

LEMMA StepMaps ==
  ASSUME TInv, SInv, [Next]_vars
  PROVE  Register!Next \/ UNCHANGED <<Events, Answers>>
<1>1. CASE UNCHANGED <<log, req>>
  BY <1>1 DEF Events, Answers
<1>2. ASSUME NEW q \in Requests, NEW k \in Reads, NEW fp \in Fps, StartRead(q, k, fp)
      PROVE  UNCHANGED <<Events, Answers>>
  <2>1. req[q].answer = {}
    BY <1>2, StartReadType DEF TInv, ReqOK
  <2> QED
    BY <1>2, <2>1, StartReadType, Silent
<1>3. ASSUME NEW q \in Requests, NEW a \in Actions, StartAction(q, a)
      PROVE  UNCHANGED <<Events, Answers>>
  <2>1. req[q].answer = {}
    BY <1>3, StartActionType DEF TInv, ReqOK
  <2> QED
    BY <1>3, <2>1, StartActionType, Silent
<1>4. ASSUME NEW q \in Requests, RecordEvent(q)
      PROVE  Register!Next
  BY <1>4, AppendsOne DEF Register!Next
<1>5. ASSUME NEW q \in Requests, FetchMore(q)
      PROVE  FALSE
  BY <1>5, NoSecondPage
<1>6. ASSUME NEW q \in Requests, RecordFails(q) \/ FetchLast(q) \/ FetchFails(q)
      PROVE  Register!Next
  <2>1. Register!Respond(q)
    BY <1>6, SaysRight, RespondsOnce
  <2> QED
    BY <2>1 DEF Register!Next
<1> QED
  BY <1>1, <1>2, <1>3, <1>4, <1>5, <1>6 DEF Next, Tick, vars

LEMMA InitMaps == Init => Register!Init
<1> SUFFICES ASSUME Init PROVE Register!Init
  OBVIOUS
<1>1. \A q \in Requests : req[q].answer = {}
  BY DEF Init, Idle
<1> QED
  BY <1>1 DEF Register!Init

(* While the log is shorter than one page, triage is the register: however *)
(* its requests overlap, whichever of their calls fail and whatever their  *)
(* clocks say, every answer is the fold of all events there are at one     *)
(* moment of the request, its own included.                                *)
THEOREM TriageIsRegister == ASSUME ShortLogs PROVE Spec => ImplementsRegister
<1>1. Init => SInv
  BY ShortInit
<1>2. TInv /\ SInv /\ [Next]_vars => SInv'
  BY ShortStep
<1>3. TInv /\ SInv /\ [Next]_vars
        => [Register!Next]_<<{r \in log : IsEvent(r)}, [q \in Requests |-> req[q].answer]>>
  BY StepMaps DEF Events, Answers
<1> QED
  BY <1>1, <1>2, <1>3, InitMaps, TypeInvariant, PTL DEF Spec, ImplementsRegister, Register!Spec

=============================================================================
