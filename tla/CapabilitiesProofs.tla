------------------------ MODULE CapabilitiesProofs ------------------------
(***************************************************************************)
(* Proofs about Capabilities, for every value of its constants.            *)
(***************************************************************************)
EXTENDS Capabilities, TLAPS

(* q leads the flight.                                                     *)
Leading(q) ==
  \/ req[q].pc \in {"metrics", "unit", "checks", "finish"}
  \/ req[q].flown /\ req[q].pc \in {"read", "judge"}

(* Only the leader of the flight is inside it.                             *)
FlightOK == \A q \in Requests : Leading(q) => flight = {q}

(* What the leader has found out about the cache stays true while it       *)
(* leads: nobody else stores, and results only age.                        *)
LookOK ==
  \A q \in Requests :
    /\ req[q].flown /\ req[q].pc = "judge" => cache \subseteq req[q].held
    /\ Detecting(q) => \A e \in cache : ~Fresh(e)

(* The inductive invariant: OneDetection follows from who leads and what   *)
(* it knows.                                                               *)
IInv == TypeOK /\ FlightOK /\ LookOK

Record ==
  [pc : {"done", "read", "judge", "join", "wait", "metrics", "unit", "checks", "finish"},
   kind : {"page", "view"}, over : BOOLEAN, flown : BOOLEAN, held : SUBSET Entry,
   next : 1 .. Last + 1, caps : Caps, todo : SUBSET (Sources \cup Lists),
   calm : BOOLEAN]

-----------------------------------------------------------------------------
(* Type correctness.                                                       *)

(* Results grow older and stay results; a result that is not fresh stays   *)
(* so.                                                                     *)
LEMMA Aging ==
  ASSUME NEW E \in SUBSET Entry
  PROVE  /\ Older(E) \in SUBSET Entry
         /\ (\A e \in E : ~Fresh(e)) => (\A e \in Older(E) : ~Fresh(e))
<1> USE CapabilitiesAssumption DEF CapabilitiesAssumption
<1>1. ASSUME NEW e \in Entry
      PROVE  LET f == [e EXCEPT !.age = IF @ < TTL THEN @ + 1 ELSE @]
             IN f \in Entry /\ (~Fresh(e) => ~Fresh(f))
  BY DEF Entry, Fresh
<1> QED
  BY <1>1 DEF Older

LEMMA RestingType == Resting \in Record /\ Nothing \in Caps
<1> USE CapabilitiesAssumption DEF CapabilitiesAssumption
<1>1. Nothing \in Caps
  BY DEF Nothing, Caps
<1> QED
  BY <1>1 DEF Resting, Record

LEMMA TypeInit == Init => TypeOK
<1> SUFFICES ASSUME Init PROVE TypeOK
  OBVIOUS
<1>1. Resting \in Record
  BY RestingType
<1> QED
  BY <1>1 DEF Init, TypeOK, Record

LEMMA AnsweredType ==
  ASSUME TypeOK, NEW Q, Answered(Q)
  PROVE  req' \in [Requests -> Record]
BY RestingType DEF TypeOK, Record, Answered

LEMMA TypeStep == TypeOK /\ [Next]_vars => TypeOK'
<1> USE CapabilitiesAssumption DEF CapabilitiesAssumption
<1> SUFFICES ASSUME TypeOK, [Next]_vars PROVE TypeOK'
  OBVIOUS
<1>a. req \in [Requests -> Record]
  BY DEF TypeOK, Record
<1>b. ASSUME req' \in [Requests -> Record], UNCHANGED <<up, cache, flight, result>>
      PROVE  TypeOK'
  BY <1>b DEF TypeOK, Record
<1>c. 1 \in 1 .. Last + 1
  OBVIOUS
<1>1. CASE Tick
  <2>1. req' \in [Requests -> Record]
    <3>1. ASSUME NEW q \in Requests
          PROVE  [req[q] EXCEPT !.held = Older(@)] \in Record
      <4>1. Older(req[q].held) \in SUBSET Entry
        BY <1>a, Aging DEF Record
      <4> QED
        BY <1>a, <4>1 DEF Record
    <3> QED
      BY <1>1, <3>1 DEF Tick
  <2>2. cache' \subseteq Entry
    BY <1>1, Aging DEF Tick, TypeOK
  <2> QED
    BY <1>1, <2>1, <2>2 DEF Tick, TypeOK, Record
<1>2. ASSUME NEW x \in Things, Change(x) PROVE TypeOK'
  <2>1. up' \subseteq Things
    BY <1>2 DEF Change, TypeOK
  <2>2. req' \in [Requests -> Record]
    <3>1. ASSUME NEW q \in Requests
          PROVE  [req[q] EXCEPT !.calm = ~Detecting(q)] \in Record
      <4>1. (~Detecting(q)) \in BOOLEAN
        OBVIOUS
      <4> QED
        BY <1>a, <4>1 DEF Record
    <3> QED
      BY <1>2, <3>1 DEF Change
  <2> QED
    BY <1>2, <2>1, <2>2 DEF Change, TypeOK, Record
<1>3. ASSUME NEW q \in Requests, NEW k \in {"page", "view"}, Start(q, k) PROVE TypeOK'
  <2>1. [Resting EXCEPT !.pc = "read", !.kind = k] \in Record
    BY RestingType DEF Record
  <2> QED
    BY <1>a, <1>b, <1>3, <2>1 DEF Start
<1>4. ASSUME NEW q \in Requests, Leave(q) \/ TimeOut(q) PROVE TypeOK'
  <2>1. [req[q] EXCEPT !.over = TRUE] \in Record
    BY <1>a DEF Record
  <2> QED
    BY <1>a, <1>b, <1>4, <2>1 DEF Leave, TimeOut
<1>5. ASSUME NEW q \in Requests, Proceed(q) PROVE TypeOK'
  <2>0. req[q] \in Record
    BY <1>a
  <2>1. CASE Read(q)
    <3>1. [req[q] EXCEPT !.pc = "judge", !.held = cache] \in Record
      BY <2>0 DEF Record, TypeOK
    <3> QED
      BY <1>a, <1>b, <2>1, <3>1 DEF Read
  <2>2. CASE Hit(q)
    <3> PICK e \in req[q].held :
          IF req[q].flown
          THEN /\ result' = {e.caps}
               /\ req' = [req EXCEPT ![q].pc = "finish", ![q].held = {}]
          ELSE Answered({q}) /\ UNCHANGED result
      BY <2>2 DEF Hit
    <3>1. [req[q] EXCEPT !.pc = "finish", !.held = {}] \in Record
      BY <2>0 DEF Record
    <3>2. req' \in [Requests -> Record]
      BY <1>a, <3>1, AnsweredType
    <3>3. e.caps \in Caps
      BY <2>0 DEF Record, Entry
    <3>4. result' \subseteq Caps
      BY <3>3 DEF TypeOK
    <3> QED
      BY <2>2, <3>2, <3>4 DEF Hit, TypeOK, Record
  <2>3. CASE Miss(q)
    <3>1. [req[q] EXCEPT !.pc = IF req[q].flown THEN "metrics" ELSE "join",
                         !.held = {}] \in Record
      BY <2>0 DEF Record
    <3> QED
      BY <1>a, <1>b, <2>3, <3>1 DEF Miss
  <2>4. CASE Lead(q)
    <3>1. [req[q] EXCEPT !.pc = "read", !.flown = TRUE] \in Record
      BY <2>0 DEF Record
    <3> QED
      BY <1>a, <2>4, <3>1 DEF Lead, TypeOK, Record
  <2>5. CASE Join(q)
    <3>1. [req[q] EXCEPT !.pc = "wait"] \in Record
      BY <2>0 DEF Record
    <3> QED
      BY <1>a, <1>b, <2>5, <3>1 DEF Join
  <2>6. CASE ProbeHit(q)
    <3>1. [req[q].caps EXCEPT !.metrics = req[q].next] \in Caps
      BY <2>0, <2>6 DEF ProbeHit, Candidates, Record, Caps
    <3>2. [req[q] EXCEPT !.pc = "unit", !.next = 1,
                         !.caps = [req[q].caps EXCEPT !.metrics = req[q].next]] \in Record
      BY <1>c, <2>0, <3>1 DEF Record
    <3>3. req' = [req EXCEPT ![q] = [req[q] EXCEPT !.pc = "unit", !.next = 1,
                    !.caps = [req[q].caps EXCEPT !.metrics = req[q].next]]]
      BY <1>a, <2>6 DEF ProbeHit, Record
    <3> QED
      BY <1>a, <1>b, <2>6, <3>2, <3>3 DEF ProbeHit
  <2>7. CASE ProbeMiss(q)
    <3>1. [req[q] EXCEPT !.next = @ + 1] \in Record
      BY <2>0, <2>7 DEF ProbeMiss, Candidates, Record
    <3> QED
      BY <1>a, <1>b, <2>7, <3>1 DEF ProbeMiss
  <2>8. CASE ProbesEnd(q)
    <3>1. [req[q] EXCEPT !.pc = "checks", !.todo = Sources] \in Record
      BY <2>0 DEF Record
    <3> QED
      BY <1>a, <1>b, <2>8, <3>1 DEF ProbesEnd
  <2>9. CASE ProbeUnit(q)
    <3> DEFINE c == [req[q].caps EXCEPT !.unit = Found(q, req[q].caps.metrics)]
    <3>1. c \in Caps
      <4>1. Found(q, req[q].caps.metrics) \in BOOLEAN
        BY DEF Found
      <4> QED
        BY <2>0, <4>1 DEF Record, Caps
    <3>2. [req[q] EXCEPT !.pc = "checks", !.todo = Sources \cup Lists, !.caps = c] \in Record
      BY <2>0, <3>1 DEF Record
    <3>3. req' = [req EXCEPT ![q] = [req[q] EXCEPT !.pc = "checks",
                                        !.todo = Sources \cup Lists, !.caps = c]]
      BY <1>a, <2>9 DEF ProbeUnit, Record
    <3> QED
      BY <1>a, <1>b, <2>9, <3>2, <3>3 DEF ProbeUnit
  <2>10. ASSUME NEW x \in Sources \cup Lists, Check(q, x) PROVE TypeOK'
    <3> DEFINE o == IF Found(q, IF x \in Lists THEN req[q].caps.metrics ELSE x)
                    THEN req[q].caps.ok \cup {x} ELSE req[q].caps.ok
               c == [req[q].caps EXCEPT !.ok = o]
    <3>1. c \in Caps
      BY <2>0 DEF Record, Caps
    <3>2. [req[q] EXCEPT !.todo = @ \ {x}, !.caps = c] \in Record
      BY <2>0, <3>1 DEF Record
    <3>3. req' = [req EXCEPT ![q] = [req[q] EXCEPT !.todo = @ \ {x}, !.caps = c]]
      BY <1>a, <2>10 DEF Check, Record
    <3> QED
      BY <1>a, <1>b, <2>10, <3>2, <3>3 DEF Check
  <2>11. CASE Store(q)
    <3>1. [req[q] EXCEPT !.pc = "finish", !.caps = Nothing, !.next = 1] \in Record
      BY <1>c, <2>0, RestingType DEF Record
    <3>2. req[q].caps \in Caps /\ 0 \in 0 .. TTL
      BY <2>0 DEF Record
    <3>3. [caps |-> req[q].caps, age |-> 0] \in Entry
      BY <3>2 DEF Entry
    <3> QED
      BY <1>a, <2>11, <3>1, <3>2, <3>3 DEF Store, TypeOK, Record
  <2>12. CASE Finish(q)
    <3>1. req' \in [Requests -> Record]
      BY <2>12, AnsweredType DEF Finish
    <3> QED
      BY <2>12, <3>1 DEF Finish, TypeOK, Record
  <2> QED
    BY <1>5, <2>1, <2>2, <2>3, <2>4, <2>5, <2>6, <2>7, <2>8, <2>9, <2>10, <2>11, <2>12
       DEF Proceed
<1>6. CASE UNCHANGED vars
  BY <1>6 DEF vars, TypeOK
<1> QED
  BY <1>1, <1>2, <1>3, <1>4, <1>5, <1>6 DEF Next

(* Every variable keeps its type, for every set of requests, candidates    *)
(* and checks and any two times-to-live (TypeOK).                          *)
THEOREM TypeCorrect == Spec => []TypeOK
BY TypeInit, TypeStep, PTL DEF Spec

-----------------------------------------------------------------------------
(* One detection at a time.                                                *)

LEMMA InvInit == Init => IInv
<1> SUFFICES ASSUME Init PROVE IInv
  OBVIOUS
<1>1. \A q \in Requests : ~Leading(q) /\ ~req[q].flown /\ ~Detecting(q)
  BY DEF Init, Resting, Leading, Detecting
<1> QED
  BY <1>1, TypeInit DEF IInv, FlightOK, LookOK

(* At most one request leads.                                              *)
LEMMA OneLeader ==
  ASSUME FlightOK, NEW q \in Requests, NEW r \in Requests, Leading(q), Leading(r)
  PROVE  q = r
BY DEF FlightOK

(* A step of q that leaves the cache and the flight alone keeps the        *)
(* invariant when q's own conjuncts hold after it.                         *)
LEMMA MoveKeeps ==
  ASSUME IInv, NEW q \in Requests,
         UNCHANGED <<cache, flight>>,
         \A r \in Requests \ {q} : req'[r] = req[r],
         Leading(q)' => Leading(q) \/ flight = {q},
         (req[q].flown /\ req[q].pc = "judge" => cache \subseteq req[q].held)',
         Detecting(q)' => \A e \in cache : ~Fresh(e)
  PROVE  FlightOK' /\ LookOK'
<1>1. FlightOK'
  <2> SUFFICES ASSUME NEW r \in Requests, Leading(r)' PROVE flight = {r}
    BY DEF FlightOK
  <2>1. CASE r = q
    BY <2>1 DEF IInv, FlightOK
  <2>2. CASE r # q
    BY <2>2 DEF IInv, FlightOK, Leading, Detecting
  <2> QED
    BY <2>1, <2>2
<1>2. LookOK'
  <2> SUFFICES ASSUME NEW r \in Requests
               PROVE  /\ (req[r].flown /\ req[r].pc = "judge" => cache \subseteq req[r].held)'
                      /\ Detecting(r)' => \A e \in cache' : ~Fresh(e)
    BY DEF LookOK, Fresh
  <2>1. CASE r = q
    BY <2>1
  <2>2. CASE r # q
    BY <2>2 DEF IInv, LookOK, Detecting
  <2> QED
    BY <2>1, <2>2
<1> QED
  BY <1>1, <1>2

(* A step after which nobody is inside a flight but those who were, with   *)
(* what they had seen.                                                     *)
LEMMA QuietKeeps ==
  ASSUME IInv, UNCHANGED <<cache, flight>>,
         \A r \in Requests :
           /\ req'[r].pc = req[r].pc \/ (req'[r].pc \in {"done", "read"} /\ ~req'[r].flown)
           /\ req'[r].flown => req[r].flown
           /\ req'[r].held = req[r].held \/ req'[r].pc # "judge"
  PROVE  FlightOK' /\ LookOK'
<1>1. \A r \in Requests : (Leading(r)' => Leading(r)) /\ (Detecting(r)' => Detecting(r))
  BY DEF Leading, Detecting
<1>2. FlightOK'
  BY <1>1 DEF IInv, FlightOK
<1>3. LookOK'
  BY <1>1 DEF IInv, LookOK, Fresh
<1> QED
  BY <1>2, <1>3

LEMMA TickKeeps == IInv /\ Tick => FlightOK' /\ LookOK'
<1> SUFFICES ASSUME IInv, Tick PROVE FlightOK' /\ LookOK'
  OBVIOUS
<1>1. \A r \in Requests : req'[r] = [req[r] EXCEPT !.held = Older(@)]
  BY DEF Tick
<1>2. \A r \in Requests : req[r] \in Record
  BY DEF IInv, TypeOK, Record
<1>3. \A r \in Requests : /\ req'[r].pc = req[r].pc
                          /\ req'[r].flown = req[r].flown
                          /\ req'[r].held = Older(req[r].held)
  BY <1>1, <1>2 DEF Record
<1>4. FlightOK'
  BY <1>3 DEF IInv, FlightOK, Tick, Leading, Detecting
<1>5. ASSUME NEW r \in Requests, req'[r].flown, req'[r].pc = "judge"
      PROVE  cache' \subseteq req'[r].held
  <2>1. cache \subseteq req[r].held
    BY <1>3, <1>5 DEF IInv, LookOK
  <2> QED
    BY <1>3, <2>1 DEF Tick, Older
<1>6. ASSUME NEW r \in Requests, Detecting(r)'
      PROVE  \A e \in cache' : ~Fresh(e)
  <2>1. \A e \in cache : ~Fresh(e)
    BY <1>3, <1>6 DEF IInv, LookOK, Detecting
  <2> QED
    BY <2>1, Aging DEF Tick, IInv, TypeOK
<1> QED
  BY <1>4, <1>5, <1>6 DEF LookOK, Fresh

(* Everyone who is answered is out of the flight.                          *)
LEMMA AnswerKeeps ==
  ASSUME IInv, NEW Q, Answered(Q), UNCHANGED <<cache, flight>>
  PROVE  FlightOK' /\ LookOK'
<1>1. \A r \in Requests : req'[r] = Resting \/ req'[r] = req[r]
  BY DEF Answered
<1> QED
  BY <1>1, QuietKeeps DEF Resting

LEMMA InvStep == IInv /\ [Next]_vars => IInv'
<1> SUFFICES ASSUME IInv, [Next]_vars PROVE FlightOK' /\ LookOK'
  BY TypeStep DEF IInv
<1>a. \A r \in Requests : req[r] \in Record
  BY DEF IInv, TypeOK, Record
<1>b. req \in [Requests -> Record]
  BY DEF IInv, TypeOK, Record
<1>1. CASE Tick
  BY <1>1, TickKeeps
<1>2. ASSUME NEW x \in Things, Change(x) PROVE FlightOK' /\ LookOK'
  <2>1. \A r \in Requests : /\ req'[r].pc = req[r].pc
                            /\ req'[r].flown = req[r].flown
                            /\ req'[r].held = req[r].held
    BY <1>a, <1>2 DEF Change, Record
  <2> QED
    BY <1>2, <2>1, QuietKeeps DEF Change
<1>3. ASSUME NEW q \in Requests, NEW k \in {"page", "view"}, Start(q, k)
      PROVE  FlightOK' /\ LookOK'
  <2>1. req'[q].pc = "read" /\ ~req'[q].flown
    BY <1>b, <1>3 DEF Start, Resting
  <2>2. \A r \in Requests \ {q} : req'[r] = req[r]
    BY <1>b, <1>3 DEF Start
  <2> QED
    BY <1>3, <2>1, <2>2, QuietKeeps DEF Start
<1>4. ASSUME NEW q \in Requests, Leave(q) \/ TimeOut(q) PROVE FlightOK' /\ LookOK'
  <2>1. /\ req'[q].pc = req[q].pc
        /\ req'[q].flown = req[q].flown
        /\ req'[q].held = req[q].held
    BY <1>a, <1>b, <1>4 DEF Leave, TimeOut, Record
  <2>2. \A r \in Requests \ {q} : req'[r] = req[r]
    BY <1>b, <1>4 DEF Leave, TimeOut
  <2> QED
    BY <1>4, <2>1, <2>2, QuietKeeps DEF Leave, TimeOut
<1>5. ASSUME NEW q \in Requests, Proceed(q) PROVE FlightOK' /\ LookOK'
  <2>a. req[q] \in Record
    BY <1>a
  <2>1. CASE Read(q)
    <3>1. /\ req'[q].pc = "judge" /\ req'[q].flown = req[q].flown
          /\ req'[q].held = cache
      BY <1>b, <2>a, <2>1 DEF Read, Record
    <3>2. \A r \in Requests \ {q} : req'[r] = req[r]
      BY <1>b, <2>1 DEF Read
    <3>3. Leading(q)' => Leading(q)
      BY <2>1, <3>1 DEF Read, At, Leading, Detecting
    <3> QED
      BY <2>1, <3>1, <3>2, <3>3, MoveKeeps DEF Read, Detecting
  <2>2. CASE Hit(q)
    <3>1. CASE ~req[q].flown
      BY <2>2, <3>1, AnswerKeeps DEF Hit
    <3>2. CASE req[q].flown
      <4>1. req' = [req EXCEPT ![q].pc = "finish", ![q].held = {}]
        BY <2>2, <3>2 DEF Hit
      <4>2. req'[q].pc = "finish" /\ Leading(q)
        BY <1>b, <2>a, <2>2, <3>2, <4>1 DEF Hit, At, Record, Leading
      <4>3. \A r \in Requests \ {q} : req'[r] = req[r]
        BY <1>b, <4>1
      <4> QED
        BY <2>2, <4>2, <4>3, MoveKeeps DEF Hit, Detecting
    <3> QED
      BY <3>1, <3>2
  <2>3. CASE Miss(q)
    <3>1. req'[q].pc = IF req[q].flown THEN "metrics" ELSE "join"
      BY <1>b, <2>a, <2>3 DEF Miss, Record
    <3>2. \A r \in Requests \ {q} : req'[r] = req[r]
      BY <1>b, <2>3 DEF Miss
    <3>3. CASE ~req[q].flown
      <4>1. req'[q].pc = "join"
        BY <3>1, <3>3
      <4> QED
        BY <2>3, <3>2, <4>1, MoveKeeps DEF Miss, Leading, Detecting
    <3>4. CASE req[q].flown
      <4>1. Leading(q) /\ cache \subseteq req[q].held
        BY <2>3, <3>4 DEF Miss, At, Leading, IInv, LookOK
      <4>2. \A e \in cache : ~Fresh(e)
        BY <2>3, <4>1 DEF Miss
      <4>3. req'[q].pc = "metrics"
        BY <3>1, <3>4
      <4> QED
        BY <2>3, <3>2, <4>1, <4>2, <4>3, MoveKeeps DEF Miss
    <3> QED
      BY <3>3, <3>4
  <2>4. CASE Lead(q)
    <3>1. req'[q].pc = "read"
      BY <1>b, <2>a, <2>4 DEF Lead, Record
    <3>2. \A r \in Requests \ {q} : req'[r] = req[r] /\ ~Leading(r)
      BY <1>b, <2>4 DEF Lead, IInv, FlightOK
    <3>3. FlightOK'
      <4> SUFFICES ASSUME NEW r \in Requests, Leading(r)' PROVE flight' = {r}
        BY DEF FlightOK
      <4>1. r = q
        BY <3>2 DEF Leading, Detecting
      <4> QED
        BY <2>4, <4>1 DEF Lead
    <3>4. LookOK'
      <4> SUFFICES ASSUME NEW r \in Requests
                   PROVE  /\ ~(req[r].flown /\ req[r].pc = "judge")'
                          /\ ~Detecting(r)'
        BY DEF LookOK
      <4> QED
        BY <3>1, <3>2 DEF Leading, Detecting
    <3> QED
      BY <3>3, <3>4
  <2>5. CASE Join(q)
    <3>1. req'[q].pc = "wait"
      BY <1>b, <2>a, <2>5 DEF Join, Record
    <3>2. \A r \in Requests \ {q} : req'[r] = req[r]
      BY <1>b, <2>5 DEF Join
    <3> QED
      BY <2>5, <3>1, <3>2, MoveKeeps DEF Join, Leading, Detecting
  <2>6. CASE \/ ProbeHit(q) \/ ProbeMiss(q) \/ ProbesEnd(q) \/ ProbeUnit(q)
             \/ \E x \in Sources \cup Lists : Check(q, x)
    <3>1. Detecting(q) /\ UNCHANGED <<cache, flight>>
      BY <2>6 DEF ProbeHit, ProbeMiss, ProbesEnd, ProbeUnit, Check, At, Detecting
    <3>2. Leading(q) /\ \A e \in cache : ~Fresh(e)
      BY <3>1 DEF Leading, Detecting, IInv, LookOK
    <3>3. req'[q].pc # "judge"
      <4>1. CASE ProbeHit(q)
        BY <1>b, <2>a, <4>1 DEF ProbeHit, Record
      <4>2. CASE ProbeMiss(q)
        BY <1>b, <2>a, <4>2 DEF ProbeMiss, At, Record
      <4>3. CASE ProbesEnd(q)
        BY <1>b, <2>a, <4>3 DEF ProbesEnd, Record
      <4>4. CASE ProbeUnit(q)
        BY <1>b, <2>a, <4>4 DEF ProbeUnit, Record
      <4>5. CASE \E x \in Sources \cup Lists : Check(q, x)
        BY <1>b, <2>a, <4>5 DEF Check, At, Record
      <4> QED
        BY <2>6, <4>1, <4>2, <4>3, <4>4, <4>5
    <3>4. \A r \in Requests \ {q} : req'[r] = req[r]
      BY <1>b, <2>6 DEF ProbeHit, ProbeMiss, ProbesEnd, ProbeUnit, Check
    <3> QED
      BY <3>1, <3>2, <3>3, <3>4, MoveKeeps
  <2>7. CASE Store(q)
    <3>1. req'[q].pc = "finish"
      BY <1>b, <2>a, <2>7 DEF Store, Record
    <3>2. \A r \in Requests \ {q} : req'[r] = req[r]
      BY <1>b, <2>7 DEF Store
    <3>3. Leading(q)
      BY <2>7 DEF Store, At, Leading, Detecting
    <3>4. \A r \in Requests \ {q} : ~Leading(r)
      BY <3>3, OneLeader DEF IInv
    <3>5. FlightOK'
      <4> SUFFICES ASSUME NEW r \in Requests, Leading(r)' PROVE flight' = {r}
        BY DEF FlightOK
      <4>1. r = q
        BY <3>2, <3>4 DEF Leading, Detecting
      <4> QED
        BY <2>7, <3>3, <4>1 DEF Store, IInv, FlightOK
    <3>6. LookOK'
      <4> SUFFICES ASSUME NEW r \in Requests
                   PROVE  /\ ~(req[r].flown /\ req[r].pc = "judge")'
                          /\ ~Detecting(r)'
        BY DEF LookOK
      <4> QED
        BY <3>1, <3>2, <3>4 DEF Leading, Detecting
    <3> QED
      BY <3>5, <3>6
  <2>8. CASE Finish(q)
    <3>1. Leading(q)
      BY <2>8 DEF Finish, At, Leading
    <3>2. \A r \in Requests : req'[r] = Resting \/ (req'[r] = req[r] /\ ~Leading(r))
      BY <2>8, <3>1, OneLeader DEF IInv, Finish, Answered
    <3>3. \A r \in Requests : ~Leading(r)'
      BY <3>2 DEF Leading, Detecting, Resting
    <3> QED
      BY <3>3 DEF FlightOK, LookOK, Leading, Detecting
  <2> QED
    BY <1>5, <2>1, <2>2, <2>3, <2>4, <2>5, <2>6, <2>7, <2>8 DEF Proceed
<1>6. CASE UNCHANGED vars
  BY <1>6 DEF vars, IInv, FlightOK, LookOK, Leading, Detecting, Fresh
<1> QED
  BY <1>1, <1>2, <1>3, <1>4, <1>5, <1>6 DEF Next

LEMMA Invariant == Spec => []IInv
BY InvInit, InvStep, PTL DEF Spec

(* However many requests of either kind find the result expired at once,   *)
(* at most one runs the fleet-wide probes, and none does while the cached  *)
(* result is fresh (OneDetection).                                         *)
THEOREM OneProbeAtATime == Spec => []OneDetection
<1>1. IInv => OneDetection
  BY DEF IInv, FlightOK, LookOK, OneDetection, Leading, Detecting
<1> QED
  BY <1>1, Invariant, PTL

-----------------------------------------------------------------------------
(* What is cached is right.  While nothing disturbs it, a detection has at *)
(* every moment what it should have when the world is W.                   *)

Asked(r, W) ==
  /\ r.pc \in {"done", "read", "judge", "join", "wait"} =>
       r.caps = Nothing /\ r.next = 1 /\ r.calm
  /\ r.calm /\ ~r.over =>
       /\ r.pc = "metrics" => r.caps = Nothing /\ \A x \in W \cap Candidates : r.next <= x
       /\ r.pc = "unit" =>
            /\ r.caps.metrics \in W \cap Candidates /\ r.caps.ok = {}
            /\ \A x \in W \cap Candidates : r.caps.metrics <= x
       /\ r.pc = "checks" =>
            IF W \cap Candidates = {}
            THEN /\ r.caps.metrics = 0 /\ ~r.caps.unit
                 /\ r.todo \subseteq Sources /\ r.caps.ok = (W \cap Sources) \ r.todo
            ELSE /\ r.caps.metrics \in W \cap Candidates /\ r.caps.unit
                 /\ \A x \in W \cap Candidates : r.caps.metrics <= x
                 /\ r.caps.ok = ((W \cap Sources) \cup Lists) \ r.todo

AskedOK == \A q \in Requests : Asked(req[q], up)

LEMMA RestingAsked == \A W : Asked(Resting, W)
BY DEF Asked, Resting

LEMMA AskedInit == Init => AskedOK
BY RestingAsked DEF Init, AskedOK

(* A step of q alone.                                                      *)
LEMMA AloneKeeps ==
  ASSUME AskedOK, UNCHANGED up, NEW q \in Requests,
         \A r \in Requests \ {q} : req'[r] = req[r],
         Asked(req'[q], up)
  PROVE  AskedOK'
BY DEF AskedOK

(* The probes of the candidates, of the unit, and the checks.              *)
LEMMA ProbesKeep ==
  ASSUME TypeOK, AskedOK, NEW q \in Requests,
         \/ ProbeHit(q) \/ ProbeMiss(q) \/ ProbesEnd(q) \/ ProbeUnit(q)
         \/ \E x \in Sources \cup Lists : Check(q, x)
  PROVE  Asked(req'[q], up)
<1>a. req \in [Requests -> Record] /\ req[q] \in Record /\ Asked(req[q], up)
  BY DEF TypeOK, Record, AskedOK
<1>b. req[q].next \in Nat /\ req[q].caps \in Caps
  BY <1>a, CapabilitiesAssumption DEF Record
<1>1. CASE ProbeHit(q)
  <2>1. /\ req[q].pc = "metrics" /\ req[q].next \in Candidates
        /\ req[q].next \in up /\ ~req[q].over
        /\ req'[q].pc = "unit" /\ req'[q].calm = req[q].calm /\ req'[q].over = req[q].over
        /\ req'[q].caps = [req[q].caps EXCEPT !.metrics = req[q].next]
    BY <1>1, <1>a DEF ProbeHit, At, Found, Record
  <2>2. req'[q].caps.metrics = req[q].next /\ req'[q].caps.ok = req[q].caps.ok
    BY <1>b, <2>1 DEF Caps
  <2> QED
    BY <1>a, <2>1, <2>2 DEF Asked, Nothing
<1>2. CASE ProbeMiss(q)
  <2>1. /\ req[q].next \notin up \/ req[q].over
        /\ req'[q].pc = "metrics" /\ req'[q].calm = req[q].calm
        /\ req'[q].over = req[q].over /\ req'[q].caps = req[q].caps
        /\ req'[q].next = req[q].next + 1
    BY <1>2, <1>a DEF ProbeMiss, At, Found, Record
  <2>2. ASSUME req[q].calm, ~req[q].over, NEW x \in up \cap Candidates
        PROVE  req[q].next + 1 <= x
    <3>1. req[q].next <= x /\ req[q].next # x
      BY <1>2, <1>a, <2>2 DEF ProbeMiss, Asked, At, Found
    <3>2. x \in Nat
      BY CapabilitiesAssumption DEF Candidates
    <3> QED
      BY <1>b, <3>1, <3>2
  <2>3. req[q].pc = "metrics"
    BY <1>2 DEF ProbeMiss, At
  <2> QED
    BY <1>a, <2>1, <2>2, <2>3 DEF Asked
<1>3. CASE ProbesEnd(q)
  <2>1. /\ req[q].pc = "metrics" /\ req[q].next \notin Candidates
        /\ req'[q].pc = "checks" /\ req'[q].calm = req[q].calm
        /\ req'[q].over = req[q].over /\ req'[q].caps = req[q].caps
        /\ req'[q].todo = Sources
    BY <1>3, <1>a DEF ProbesEnd, At, Record
  <2>2. ASSUME req[q].calm, ~req[q].over PROVE up \cap Candidates = {}
    <3>1. req[q].next \in 1 .. Last + 1
      BY <1>a DEF Record
    <3>2. \A x \in up \cap Candidates : req[q].next <= x
      BY <1>a, <2>1, <2>2 DEF Asked
    <3> QED
      BY <2>1, <3>1, <3>2, CapabilitiesAssumption DEF Candidates
  <2>3. req[q].calm /\ ~req[q].over => req[q].caps = Nothing
    BY <1>a, <2>1 DEF Asked
  <2> QED
    BY <2>1, <2>2, <2>3 DEF Asked, Nothing
<1>4. CASE ProbeUnit(q)
  <2>1. /\ req[q].pc = "unit"
        /\ req'[q].pc = "checks" /\ req'[q].calm = req[q].calm
        /\ req'[q].over = req[q].over /\ req'[q].todo = Sources \cup Lists
        /\ req'[q].caps = [req[q].caps EXCEPT !.unit = Found(q, req[q].caps.metrics)]
    BY <1>4, <1>a DEF ProbeUnit, At, Record
  <2>2. /\ req'[q].caps.metrics = req[q].caps.metrics /\ req'[q].caps.ok = req[q].caps.ok
        /\ req'[q].caps.unit = Found(q, req[q].caps.metrics)
    BY <1>b, <2>1 DEF Caps
  <2>3. ASSUME req[q].calm, ~req[q].over
        PROVE  /\ req[q].caps.metrics \in up \cap Candidates /\ req[q].caps.ok = {}
               /\ \A x \in up \cap Candidates : req[q].caps.metrics <= x
               /\ Found(q, req[q].caps.metrics)
    BY <1>a, <2>1, <2>3 DEF Asked, Found
  <2>4. {} = ((up \cap Sources) \cup Lists) \ (Sources \cup Lists)
    OBVIOUS
  <2> QED
    BY <2>1, <2>2, <2>3, <2>4 DEF Asked
<1>5. ASSUME NEW x \in Sources \cup Lists, Check(q, x) PROVE Asked(req'[q], up)
  <2> DEFINE y == IF x \in Lists THEN req[q].caps.metrics ELSE x
  <2>1. /\ req[q].pc = "checks" /\ x \in req[q].todo
        /\ req'[q].pc = "checks" /\ req'[q].calm = req[q].calm
        /\ req'[q].over = req[q].over /\ req'[q].todo = req[q].todo \ {x}
        /\ req'[q].caps = [req[q].caps EXCEPT !.ok = IF Found(q, y) THEN @ \cup {x} ELSE @]
    BY <1>5, <1>a DEF Check, At, Record
  <2>2. /\ req'[q].caps.metrics = req[q].caps.metrics
        /\ req'[q].caps.unit = req[q].caps.unit
        /\ req'[q].caps.ok = IF Found(q, y) THEN req[q].caps.ok \cup {x} ELSE req[q].caps.ok
    BY <1>b, <2>1 DEF Caps
  <2>3. ASSUME req[q].calm, ~req[q].over, up \cap Candidates = {}
        PROVE  /\ req[q].caps.metrics = 0 /\ ~req[q].caps.unit
               /\ req'[q].todo \subseteq Sources
               /\ req'[q].caps.ok = (up \cap Sources) \ req'[q].todo
    <3>1. /\ req[q].caps.metrics = 0 /\ ~req[q].caps.unit
          /\ req[q].todo \subseteq Sources /\ req[q].caps.ok = (up \cap Sources) \ req[q].todo
      BY <1>a, <2>1, <2>3 DEF Asked
    <3>2. x \in Sources /\ x \notin Lists
      BY <2>1, <3>1, CapabilitiesAssumption DEF Things
    <3>3. Found(q, y) <=> x \in up
      BY <2>3, <3>2 DEF Found
    <3> QED
      BY <2>1, <2>2, <3>1, <3>2, <3>3
  <2>4. ASSUME req[q].calm, ~req[q].over, up \cap Candidates # {}
        PROVE  /\ req[q].caps.metrics \in up \cap Candidates /\ req[q].caps.unit
               /\ \A c \in up \cap Candidates : req[q].caps.metrics <= c
               /\ req'[q].caps.ok = ((up \cap Sources) \cup Lists) \ req'[q].todo
    <3>1. /\ req[q].caps.metrics \in up \cap Candidates /\ req[q].caps.unit
          /\ \A c \in up \cap Candidates : req[q].caps.metrics <= c
          /\ req[q].caps.ok = ((up \cap Sources) \cup Lists) \ req[q].todo
      BY <1>a, <2>1, <2>4 DEF Asked
    <3>2. Found(q, y) <=> x \in (up \cap Sources) \cup Lists
      BY <2>4, <3>1 DEF Found
    <3> HIDE DEF y
    <3> QED
      BY <2>1, <2>2, <3>1, <3>2
  <2> HIDE DEF y
  <2> QED
    BY <2>1, <2>2, <2>3, <2>4 DEF Asked
<1> QED
  BY <1>1, <1>2, <1>3, <1>4, <1>5

LEMMA AskedStep == TypeOK /\ AskedOK /\ [Next]_vars => AskedOK'
<1> SUFFICES ASSUME TypeOK, AskedOK, [Next]_vars PROVE AskedOK'
  OBVIOUS
<1>a. req \in [Requests -> Record] /\ \A r \in Requests : req[r] \in Record
  BY DEF TypeOK, Record
<1>1. CASE Tick
  <2>1. \A r \in Requests : Asked(req'[r], up)
    <3> SUFFICES ASSUME NEW r \in Requests PROVE Asked(req'[r], up)
      OBVIOUS
    <3>1. req'[r] = [req[r] EXCEPT !.held = Older(@)]
      BY <1>1 DEF Tick
    <3>2. /\ req'[r].pc = req[r].pc /\ req'[r].caps = req[r].caps
          /\ req'[r].next = req[r].next /\ req'[r].calm = req[r].calm
          /\ req'[r].over = req[r].over /\ req'[r].todo = req[r].todo
      BY <1>a, <3>1 DEF Record
    <3> QED
      BY <3>2 DEF AskedOK, Asked
  <2> QED
    BY <1>1, <2>1 DEF Tick, AskedOK
<1>2. ASSUME NEW x \in Things, Change(x) PROVE AskedOK'
  <2> SUFFICES ASSUME NEW r \in Requests PROVE Asked(req'[r], up')
    BY DEF AskedOK
  <2>1. /\ req'[r].pc = req[r].pc /\ req'[r].caps = req[r].caps
        /\ req'[r].next = req[r].next
        /\ req'[r].calm = (req[r].pc \notin {"metrics", "unit", "checks"})
    BY <1>a, <1>2 DEF Change, Record, Detecting
  <2>2. Asked(req[r], up)
    BY DEF AskedOK
  <2> QED
    BY <2>1, <2>2 DEF Asked
<1>3. ASSUME NEW q \in Requests, NEW k \in {"page", "view"}, Start(q, k)
      PROVE  AskedOK'
  <2>1. /\ req'[q].pc = "read" /\ req'[q].caps = Nothing /\ req'[q].next = 1 /\ req'[q].calm
        /\ \A r \in Requests \ {q} : req'[r] = req[r]
    BY <1>a, <1>3 DEF Start, Resting
  <2> QED
    BY <1>3, <2>1, AloneKeeps DEF Start, Asked
<1>4. ASSUME NEW q \in Requests, Leave(q) \/ TimeOut(q) PROVE AskedOK'
  <2>1. /\ req'[q].pc = req[q].pc /\ req'[q].caps = req[q].caps
        /\ req'[q].next = req[q].next /\ req'[q].calm = req[q].calm /\ req'[q].over
        /\ \A r \in Requests \ {q} : req'[r] = req[r]
    BY <1>a, <1>4 DEF Leave, TimeOut, Record
  <2>2. Asked(req[q], up)
    BY DEF AskedOK
  <2>3. Asked(req'[q], up)
    BY <2>1, <2>2 DEF Asked
  <2> QED
    BY <1>4, <2>1, <2>3, AloneKeeps DEF Leave, TimeOut
<1>5. ASSUME NEW q \in Requests,
             Read(q) \/ Miss(q) \/ Lead(q) \/ Join(q)
      PROVE  AskedOK'
  <2>1. /\ req[q].pc \in {"read", "judge", "join"}
        /\ req'[q].pc \in {"judge", "metrics", "join", "read", "wait"}
        /\ req'[q].caps = req[q].caps /\ req'[q].next = req[q].next
        /\ req'[q].calm = req[q].calm
        /\ \A r \in Requests \ {q} : req'[r] = req[r]
    BY <1>a, <1>5 DEF Read, Miss, Lead, Join, At, Record
  <2>2. Asked(req[q], up)
    BY DEF AskedOK
  <2>3. \A x \in up \cap Candidates : 1 <= x
    BY CapabilitiesAssumption DEF Candidates
  <2>4. Asked(req'[q], up)
    BY <2>1, <2>2, <2>3 DEF Asked
  <2> QED
    BY <1>5, <2>1, <2>4, AloneKeeps DEF Read, Miss, Lead, Join
<1>6. ASSUME NEW q \in Requests,
             \/ ProbeHit(q) \/ ProbeMiss(q) \/ ProbesEnd(q) \/ ProbeUnit(q)
             \/ \E x \in Sources \cup Lists : Check(q, x)
      PROVE  AskedOK'
  <2>1. up' = up /\ \A r \in Requests \ {q} : req'[r] = req[r]
    BY <1>a, <1>6 DEF ProbeHit, ProbeMiss, ProbesEnd, ProbeUnit, Check
  <2> QED
    BY <1>6, <2>1, ProbesKeep, AloneKeeps
<1>7. ASSUME NEW q \in Requests, Hit(q) \/ Store(q) PROVE AskedOK'
  <2>1. UNCHANGED up
    BY <1>7 DEF Hit, Store
  <2>2. \/ req'[q].pc = "finish" /\ \A r \in Requests \ {q} : req'[r] = req[r]
        \/ Answered({q})
    <3>1. CASE Hit(q)
      <4>1. \/ req' = [req EXCEPT ![q].pc = "finish", ![q].held = {}]
            \/ Answered({q})
        BY <3>1 DEF Hit
      <4>2. ASSUME req' = [req EXCEPT ![q].pc = "finish", ![q].held = {}]
            PROVE  req'[q].pc = "finish" /\ \A r \in Requests \ {q} : req'[r] = req[r]
        BY <1>a, <4>2 DEF Record
      <4> QED
        BY <4>1, <4>2
    <3>2. CASE Store(q)
      BY <1>a, <3>2 DEF Store, Record
    <3> QED
      BY <1>7, <3>1, <3>2
  <2>3. CASE req'[q].pc = "finish" /\ \A r \in Requests \ {q} : req'[r] = req[r]
    BY <2>1, <2>3, AloneKeeps DEF Asked
  <2>4. CASE Answered({q})
    BY <2>1, <2>4, RestingAsked DEF Answered, AskedOK
  <2> QED
    BY <2>2, <2>3, <2>4
<1>8. ASSUME NEW q \in Requests, Finish(q) PROVE AskedOK'
  BY <1>8, RestingAsked DEF Finish, Answered, AskedOK
<1>9. CASE UNCHANGED vars
  BY <1>9 DEF vars, AskedOK
<1> QED
  BY <1>1, <1>2, <1>3, <1>4, <1>5, <1>6, <1>7, <1>8, <1>9 DEF Next, Proceed

(* Only the store of q caches its result.                                  *)
LEMMA OnlyStoreCaches ==
  ASSUME TypeOK, AskedOK, Next, NEW q \in Requests, Caches(q)
  PROVE  Store(q)
<1>a. /\ req \in [Requests -> Record]
      /\ req[q].pc \in {"metrics", "unit", "checks"} /\ req'[q].pc = "finish"
  BY DEF TypeOK, Record, Caches, Detecting, At
<1>1. ~Tick /\ \A x \in Things : ~Change(x)
  BY <1>a DEF Tick, Change, Record
<1>2. ASSUME NEW r \in Requests,
             \/ Start(r, "page") \/ Start(r, "view") \/ Leave(r) \/ TimeOut(r) \/ Proceed(r)
      PROVE  r = q /\ Store(q)
  <2>1. CASE Finish(r)
    BY <1>a, <2>1 DEF Finish, Answered, Resting
  <2>2. CASE ~Finish(r)
    <3>1. r = q
      <4>1. ASSUME r # q PROVE req'[q] = req[q] \/ req'[q] = Resting
        BY <1>a, <1>2, <2>2, <4>1 DEF Start, Leave, TimeOut, Proceed, Read, Hit, Miss, Lead,
           Join, ProbeHit, ProbeMiss, ProbesEnd, ProbeUnit, Check, Store, Answered
      <4> QED
        BY <1>a, <4>1 DEF Resting
    <3>2. ~Start(q, "page") /\ ~Start(q, "view") /\ ~Read(q) /\ ~Hit(q) /\ ~Miss(q)
          /\ ~Lead(q) /\ ~Join(q)
      BY <1>a DEF Start, Read, Hit, Miss, Lead, Join, At
    <3>3. ~Leave(q) /\ ~TimeOut(q)
      BY <1>a DEF Leave, TimeOut, Record
    <3>4. ~ProbeHit(q) /\ ~ProbeMiss(q) /\ ~ProbesEnd(q) /\ ~ProbeUnit(q)
      BY <1>a DEF ProbeHit, ProbeMiss, ProbesEnd, ProbeUnit, At, Record
    <3>5. \A x \in Sources \cup Lists : ~Check(q, x)
      BY <1>a DEF Check, At, Record
    <3> QED
      BY <1>2, <2>2, <3>1, <3>2, <3>3, <3>4, <3>5 DEF Proceed
  <2> QED
    BY <2>1, <2>2
<1> QED
  BY <1>1, <1>2 DEF Next

(* A detection during which the world stood still and whose context did    *)
(* not end caches the first candidate there is, its unit, every source     *)
(* that is up and both lists, and nothing else (UndisturbedIsRight).       *)
THEOREM DetectsWhatIsThere == Spec => UndisturbedIsRight
<1>1. ASSUME TypeOK, AskedOK, Next, NEW q \in Requests,
             Caches(q), req[q].calm, ~req[q].over, NEW c \in result'
      PROVE  IsIdeal(c, up)
  <2>1. Store(q)
    BY <1>1, OnlyStoreCaches
  <2>2. req[q].pc = "checks" /\ req[q].todo = {} /\ c = req[q].caps
    BY <1>1, <2>1 DEF Store, At
  <2>3. Asked(req[q], up)
    BY <1>1 DEF AskedOK
  <2> QED
    BY <1>1, <2>2, <2>3 DEF Asked, IsIdeal
<1>2. TypeOK /\ AskedOK /\ [Next]_vars =>
        [\A q \in Requests : Caches(q) /\ req[q].calm /\ ~req[q].over
           => \A c \in result' : IsIdeal(c, up)]_vars
  BY <1>1
<1> QED
  BY <1>2, AskedInit, AskedStep, TypeCorrect, PTL DEF Spec, UndisturbedIsRight
=============================================================================
