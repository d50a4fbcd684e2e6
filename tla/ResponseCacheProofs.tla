----------------------- MODULE ResponseCacheProofs -----------------------
(***************************************************************************)
(* Proofs about ResponseCache, for every value of its constants.           *)
(***************************************************************************)
EXTENDS ResponseCache, FiniteSetTheorems, TLAPS

(* q leads the flight of the coalesced key k.                              *)
Leading(q, k) ==
  /\ req[q].key = {k}
  /\ \/ req[q].pc \in {"compute", "store", "finish"}
     \/ req[q].look = 3 /\ req[q].pc \in {"read", "judge", "drop"}

(* Only the leader of a flight is inside it.                               *)
FlightOK ==
  \A k \in Keys \ PlainKeys, q \in Requests : Leading(q, k) => flight[k] = {q}

(* What a leader has found out about the cache stays true while it leads:  *)
(* nobody else stores its key, so what it did not see is not there, and    *)
(* what it saw expired is not replaced.                                    *)
LookOK ==
  \A k \in Keys \ PlainKeys, q \in Requests : req[q].key = {k} =>
    /\ req[q].look = 3 /\ req[q].pc = "judge" => entries[k] \subseteq req[q].held
    /\ req[q].look = 3 /\ req[q].pc = "drop" => \A e \in entries[k] : ~Fresh(e)
    /\ req[q].pc \in {"compute", "store"} => \A e \in entries[k] : ~Fresh(e)

(* At most one entry per key, and a lookup holds at most one.              *)
Single(S) == \A e, f \in S : e = f

SingleOK ==
  /\ \A k \in Keys : Single(entries[k])
  /\ \A q \in Requests : Single(req[q].held)

(* The inductive invariant: OneComputation follows from who leads and what *)
(* it knows.                                                               *)
IInv == TypeOK /\ FlightOK /\ LookOK /\ SingleOK

Record ==
  [pc : {"read", "judge", "drop", "join", "wait", "compute", "store", "finish", "done"},
   key : SUBSET Keys, look : 0 .. 3, held : SUBSET Entry, born : Nat,
   floor : Nat, answer : SUBSET Data]

-----------------------------------------------------------------------------
(* Type correctness.                                                       *)

LEMMA TypeInit == Init => TypeOK
<1> SUFFICES ASSUME Init PROVE TypeOK
  OBVIOUS
<1>1. Resting \in Record
  BY DEF Resting, Record
<1> QED
  BY <1>1 DEF Init, TypeOK, Record

LEMMA LookupType ==
  ASSUME NEW k \in Keys, NEW n \in Nat
  PROVE  [Resting EXCEPT !.pc = "read", !.key = {k}, !.look = 1, !.floor = n] \in Record
<1>1. {k} \in SUBSET Keys /\ 1 \in 0 .. 3
  OBVIOUS
<1>2. Resting \in Record
  BY DEF Resting, Record
<1>3. \A r \in Record, S \in SUBSET Keys, l \in 0 .. 3 :
        [r EXCEPT !.pc = "read", !.key = S, !.look = l, !.floor = n] \in Record
  BY DEF Record
<1> QED
  BY <1>1, <1>2, <1>3

LEMMA AnsweredType ==
  ASSUME TypeOK, NEW Q \in SUBSET Requests, NEW k \in Keys, NEW D \in SUBSET Data,
         Answered(Q, k, D)
  PROVE  req' \in [Requests -> Record] /\ served' \in [Keys -> Nat]
<1>1. [Resting EXCEPT !.answer = D] \in Record
  BY DEF Resting, Record
<1>2. req \in [Requests -> Record]
  BY DEF TypeOK, Record
<1>3. req' \in [Requests -> Record]
  BY <1>1, <1>2 DEF Answered
<1>4. \A d \in D : d.born \in Nat
  BY DEF Data
<1>5. \A n \in Newest(k, D) : n \in Nat
  BY <1>4 DEF Newest, TypeOK
<1>6. served' \in [Keys -> Nat]
  BY <1>5 DEF Answered, TypeOK
<1> QED
  BY <1>3, <1>6

LEMMA MissedType ==
  ASSUME TypeOK, NEW q \in Requests, NEW k \in Keys, Missed(q, k)
  PROVE  req' \in [Requests -> Record]
<1>1. req \in [Requests -> Record]
  BY DEF TypeOK, Record
<1>2. AfterMiss(q, k) \in {"compute", "join", "read"}
  BY DEF AfterMiss
<1>3. (IF req[q].look = 1 THEN 2 ELSE req[q].look) \in 0 .. 3
  BY <1>1 DEF Record
<1>4. (IF AfterMiss(q, k) = "compute" THEN now ELSE 0) \in Nat
  BY DEF TypeOK
<1>5. [req[q] EXCEPT !.pc = AfterMiss(q, k), !.held = {},
                     !.look = IF req[q].look = 1 THEN 2 ELSE req[q].look,
                     !.born = IF AfterMiss(q, k) = "compute" THEN now ELSE 0] \in Record
  BY <1>1, <1>2, <1>3, <1>4 DEF Record
<1> QED
  BY <1>1, <1>5 DEF Missed

LEMMA TypeStep == TypeOK /\ [Next]_vars => TypeOK'
<1> SUFFICES ASSUME TypeOK, [Next]_vars PROVE TypeOK'
  OBVIOUS
<1>a. req \in [Requests -> Record]
  BY DEF TypeOK, Record
<1>1. CASE Tick
  BY <1>1 DEF Tick, TypeOK
<1>2. ASSUME NEW q \in Requests, NEW k \in Keys, Start(q, k)
      PROVE  TypeOK'
  <2>1. [Resting EXCEPT !.pc = "read", !.key = {k}, !.look = 1, !.floor = served[k]]
          \in Record
    <3>1. served[k] \in Nat
      BY DEF TypeOK
    <3> QED
      BY <3>1, LookupType
  <2>2. req' \in [Requests -> Record]
    BY <1>2, <1>a, <2>1 DEF Start
  <2> QED
    BY <1>2, <2>2 DEF Start, TypeOK, Record
<1>3. ASSUME NEW q \in Requests, NEW k \in Keys, Read(q, k)
      PROVE  TypeOK'
  <2>1. req' \in [Requests -> Record]
    BY <1>3, <1>a DEF Read, Record, TypeOK
  <2> QED
    BY <1>3, <2>1 DEF Read, TypeOK, Record
<1>4. ASSUME NEW q \in Requests, NEW k \in Keys, Hit(q, k)
      PROVE  TypeOK'
  <2>1. PICK e \in req[q].held :
          IF req[q].look = 3
          THEN /\ result' = [result EXCEPT ![k] = {e.data}]
               /\ req' = [req EXCEPT ![q].pc = "finish", ![q].held = {}]
               /\ UNCHANGED served
          ELSE Answered({q}, k, {e.data}) /\ UNCHANGED result
    BY <1>4 DEF Hit
  <2>2. {e.data} \in SUBSET Data /\ {q} \in SUBSET Requests
    BY <1>a DEF Record, Entry
  <2>3. /\ req' \in [Requests -> Record]
        /\ served' \in [Keys -> Nat]
        /\ result' \in [Keys -> SUBSET Data]
    <3>1. CASE req[q].look = 3
      BY <1>a, <2>1, <2>2, <3>1 DEF Record, TypeOK
    <3>2. CASE req[q].look # 3
      BY <2>1, <2>2, <3>2, AnsweredType DEF TypeOK
    <3> QED
      BY <3>1, <3>2
  <2> QED
    BY <1>4, <2>3 DEF Hit, TypeOK, Record
<1>5. ASSUME NEW q \in Requests, NEW k \in Keys, MissAbsent(q, k)
      PROVE  TypeOK'
  <2>1. req' \in [Requests -> Record]
    BY <1>5, MissedType DEF MissAbsent
  <2> QED
    BY <1>5, <2>1 DEF MissAbsent, TypeOK, Record
<1>6. ASSUME NEW q \in Requests, NEW k \in Keys, MissExpired(q, k)
      PROVE  TypeOK'
  <2>1. req' \in [Requests -> Record]
    BY <1>6, <1>a DEF MissExpired, Record
  <2> QED
    BY <1>6, <2>1 DEF MissExpired, TypeOK, Record
<1>7. ASSUME NEW q \in Requests, NEW k \in Keys, Drop(q, k)
      PROVE  TypeOK'
  <2>1. req' \in [Requests -> Record]
    BY <1>7, MissedType DEF Drop
  <2>2. entries' \in [Keys -> SUBSET Entry]
    BY <1>7 DEF Drop, TypeOK
  <2> QED
    BY <1>7, <2>1, <2>2 DEF Drop, TypeOK, Record
<1>8. ASSUME NEW q \in Requests, NEW k \in Keys, Lead(q, k) \/ Join(q, k)
      PROVE  TypeOK'
  <2>1. req' \in [Requests -> Record]
    BY <1>8, <1>a DEF Lead, Join, Record
  <2>2. flight' \in [Keys -> SUBSET Requests]
    BY <1>8 DEF Lead, Join, TypeOK
  <2> QED
    BY <1>8, <2>1, <2>2 DEF Lead, Join, TypeOK, Record
<1>9. ASSUME NEW q \in Requests, NEW k \in Keys, ComputeOk(q, k)
      PROVE  TypeOK'
  <2>1. req' \in [Requests -> Record]
    BY <1>9, <1>a DEF ComputeOk, Record
  <2> QED
    BY <1>9, <2>1 DEF ComputeOk, TypeOK, Record
<1>10. ASSUME NEW q \in Requests, NEW k \in Keys, ComputeFails(q, k)
       PROVE  TypeOK'
  <2>1. req' \in [Requests -> Record] /\ served' \in [Keys -> Nat]
    <3>1. CASE k \in PlainKeys
      <4>1. Answered({q}, k, {}) /\ {} \in SUBSET Data /\ {q} \in SUBSET Requests
        BY <1>10, <3>1 DEF ComputeFails
      <4> QED
        BY <4>1, AnsweredType
    <3>2. CASE k \notin PlainKeys
      BY <1>10, <1>a, <3>2 DEF ComputeFails, Record, TypeOK
    <3> QED
      BY <3>1, <3>2
  <2> QED
    BY <1>10, <2>1 DEF ComputeFails, TypeOK, Record
<1>11. ASSUME NEW q \in Requests, NEW k \in Keys, Store(q, k)
       PROVE  TypeOK'
  <2> DEFINE d == [key |-> k, born |-> req[q].born]
  <2>1. d \in Data
    BY <1>a DEF Data, Record
  <2>2. [data |-> d, created |-> now] \in Entry
    BY <2>1 DEF Entry, TypeOK
  <2>3. Evicted \in [Keys -> SUBSET Entry]
    BY DEF Evicted, TypeOK
  <2>4. entries' \in [Keys -> SUBSET Entry]
    BY <1>11, <2>2, <2>3 DEF Store
  <2>5. /\ req' \in [Requests -> Record]
        /\ served' \in [Keys -> Nat]
        /\ result' \in [Keys -> SUBSET Data]
    <3>1. CASE k \in PlainKeys
      <4>1. Answered({q}, k, {d}) /\ UNCHANGED result
        BY <1>11, <3>1 DEF Store
      <4>2. {d} \in SUBSET Data /\ {q} \in SUBSET Requests
        BY <2>1
      <4>3. req' \in [Requests -> Record] /\ served' \in [Keys -> Nat]
        BY <4>1, <4>2, AnsweredType
      <4> QED
        BY <4>1, <4>3 DEF TypeOK
    <3>2. CASE k \notin PlainKeys
      BY <1>11, <1>a, <2>1, <3>2 DEF Store, Record, TypeOK
    <3> QED
      BY <3>1, <3>2
  <2> QED
    BY <1>11, <2>4, <2>5 DEF Store, TypeOK, Record
<1>12. ASSUME NEW q \in Requests, NEW k \in Keys, Finish(q, k)
       PROVE  TypeOK'
  <2>1. req' \in [Requests -> Record] /\ served' \in [Keys -> Nat]
    <3>1. {q} \cup Waiting(k) \subseteq Requests
      BY DEF Waiting
    <3>2. result[k] \subseteq Data
      BY DEF TypeOK
    <3>3. Answered({q} \cup Waiting(k), k, result[k])
      BY <1>12 DEF Finish
    <3> QED
      BY <3>1, <3>2, <3>3, AnsweredType
  <2> QED
    BY <1>12, <2>1 DEF Finish, TypeOK, Record
<1>13. CASE UNCHANGED vars
  BY <1>13 DEF vars, TypeOK
<1> QED
  BY <1>1, <1>2, <1>3, <1>4, <1>5, <1>6, <1>7, <1>8, <1>9, <1>10, <1>11, <1>12,
     <1>13 DEF Next, Proceed

(* In every behaviour the variables keep to their types.                   *)
THEOREM TypeCorrect == Spec => []TypeOK
BY TypeInit, TypeStep, PTL DEF Spec

-----------------------------------------------------------------------------
(* The inductive invariant.                                                *)

LEMMA InvInit == Init => IInv
<1> SUFFICES ASSUME Init PROVE IInv
  OBVIOUS
<1>1. TypeOK
  BY TypeInit
<1>2. FlightOK
  BY DEF Init, FlightOK, Leading, Resting
<1>3. LookOK
  BY DEF Init, LookOK, Resting
<1>4. SingleOK
  BY DEF Init, SingleOK, Single, Resting
<1> QED
  BY <1>1, <1>2, <1>3, <1>4 DEF IInv

(* A request inside the flight of a coalesced key is the only one that     *)
(* computes or stores it.                                                  *)
LEMMA OneLeader ==
  ASSUME FlightOK, NEW k \in Keys \ PlainKeys, NEW q \in Requests, NEW r \in Requests,
         Leading(q, k), Leading(r, k)
  PROVE  q = r
BY DEF FlightOK

(* A stale entry stays stale.                                              *)
LEMMA Aging ==
  ASSUME TypeOK, now' \in Nat, now' >= now, NEW e \in Entry, ~Fresh(e)
  PROVE  ~Fresh(e)'
BY CacheAssumption DEF Fresh, TypeOK, Entry

(* Steps that only move one request within getOrCompute: what the others   *)
(* know stays as it is when no entry is added and none of the flights ends.*)
LEMMA OthersKeep ==
  ASSUME IInv, now' = now, NEW q \in Requests,
         \A r \in Requests \ {q} : req'[r] = req[r],
         \A k \in Keys : entries'[k] \subseteq entries[k],
         \A k \in Keys : flight[k] # {} => flight'[k] = flight[k]
  PROVE  \A k \in Keys \ PlainKeys, r \in Requests \ {q} :
           /\ Leading(r, k)' => flight'[k] = {r}
           /\ req'[r].key = {k} =>
                /\ req'[r].look = 3 /\ req'[r].pc = "judge" => entries'[k] \subseteq req'[r].held
                /\ req'[r].look = 3 /\ req'[r].pc = "drop" => \A e \in entries'[k] : ~Fresh(e)'
                /\ req'[r].pc \in {"compute", "store"} => \A e \in entries'[k] : ~Fresh(e)'
<1> TAKE k \in Keys \ PlainKeys, r \in Requests \ {q}
<1>1. Leading(r, k)' => flight'[k] = {r}
  BY DEF IInv, FlightOK, Leading
<1>2. \A e \in entries'[k] : e \in entries[k] /\ Fresh(e)' = Fresh(e)
  BY DEF Fresh
<1> QED
  BY <1>1, <1>2 DEF IInv, LookOK

(* The same for the whole invariant, given what the moving request knows.  *)
LEMMA MoveKeeps ==
  ASSUME IInv, TypeOK', now' = now, NEW q \in Requests,
         \A r \in Requests \ {q} : req'[r] = req[r],
         \A k \in Keys : entries'[k] \subseteq entries[k],
         \A k \in Keys : flight[k] # {} => flight'[k] = flight[k],
         Single(req'[q].held),
         \A k \in Keys \ PlainKeys :
           /\ Leading(q, k)' => flight'[k] = {q}
           /\ req'[q].key = {k} =>
                /\ req'[q].look = 3 /\ req'[q].pc = "judge" => entries'[k] \subseteq req'[q].held
                /\ req'[q].look = 3 /\ req'[q].pc = "drop" => \A e \in entries'[k] : ~Fresh(e)'
                /\ req'[q].pc \in {"compute", "store"} => \A e \in entries'[k] : ~Fresh(e)'
  PROVE  IInv'
<1>1. FlightOK'
  BY OthersKeep DEF FlightOK
<1>2. LookOK'
  BY OthersKeep DEF LookOK
<1>3. SingleOK'
  BY DEF IInv, SingleOK, Single
<1> QED
  BY <1>1, <1>2, <1>3 DEF IInv

(* A coalesced key is computed and stored from inside its flight only.     *)
LEMMA InvStep == IInv /\ [Next]_vars => IInv'
<1> SUFFICES ASSUME IInv, [Next]_vars PROVE IInv'
  OBVIOUS
<1>a. TypeOK /\ TypeOK'
  BY TypeStep DEF IInv
<1>b. req \in [Requests -> Record]
  BY <1>a DEF TypeOK, Record
<1>1. CASE Tick
  <2>1. now \in Nat /\ now' \in Nat /\ now' >= now
    BY <1>1, <1>a DEF Tick, TypeOK
  <2>2. \A k \in Keys : \A e \in entries[k] : ~Fresh(e) => ~Fresh(e)'
    BY <1>a, <2>1, Aging DEF TypeOK
  <2>3. FlightOK' /\ SingleOK'
    BY <1>1 DEF Tick, IInv, FlightOK, SingleOK, Single, Leading
  <2>4. LookOK'
    BY <1>1, <2>2 DEF Tick, IInv, LookOK
  <2> QED
    BY <1>a, <2>3, <2>4 DEF IInv
<1>2. ASSUME NEW q \in Requests, NEW k \in Keys, Start(q, k)
      PROVE  IInv'
  <2>1. /\ now' = now /\ entries' = entries /\ flight' = flight
        /\ \A r \in Requests \ {q} : req'[r] = req[r]
        /\ req'[q].pc = "read" /\ req'[q].look = 1 /\ req'[q].held = {}
    BY <1>2, <1>b DEF Start, Resting
  <2>2. Single(req'[q].held)
    BY <2>1 DEF Single
  <2>3. \A j \in Keys \ PlainKeys : ~Leading(q, j)'
    BY <2>1 DEF Leading
  <2> QED
    BY <1>a, <2>1, <2>2, <2>3, MoveKeeps
<1>3. ASSUME NEW q \in Requests, NEW k \in Keys, Read(q, k)
      PROVE  IInv'
  <2>1. /\ now' = now /\ entries' = entries /\ flight' = flight
        /\ \A r \in Requests \ {q} : req'[r] = req[r]
        /\ req[q].pc = "read" /\ req[q].key = {k}
        /\ req'[q].pc = "judge" /\ req'[q].held = entries[k]
        /\ req'[q].key = {k} /\ req'[q].look = req[q].look
    BY <1>3, <1>b DEF Read, At, Record
  <2>2. Single(req'[q].held)
    BY <2>1 DEF IInv, SingleOK
  <2>3. \A j \in Keys \ PlainKeys : Leading(q, j)' => flight'[j] = {q}
    BY <2>1 DEF IInv, FlightOK, Leading
  <2>4. \A j \in Keys : req'[q].key = {j} => entries'[j] \subseteq req'[q].held
    BY <2>1
  <2> QED
    BY <1>a, <2>1, <2>2, <2>3, <2>4, MoveKeeps
<1>4. ASSUME NEW q \in Requests, NEW k \in Keys, Hit(q, k)
      PROVE  IInv'
  <2>1. /\ now' = now /\ entries' = entries /\ flight' = flight
        /\ req[q].pc = "judge" /\ req[q].key = {k}
    BY <1>4 DEF Hit, At
  <2>2. CASE req[q].look = 3
    <3>1. /\ \A r \in Requests \ {q} : req'[r] = req[r]
          /\ req'[q].pc = "finish" /\ req'[q].held = {} /\ req'[q].key = {k}
      BY <1>4, <1>b, <2>1, <2>2 DEF Hit, Record
    <3>2. \A j \in Keys \ PlainKeys : Leading(q, j)' => flight'[j] = {q}
      BY <2>1, <2>2, <3>1 DEF IInv, FlightOK, Leading
    <3>3. Single(req'[q].held)
      BY <3>1 DEF Single
    <3> QED
      BY <1>a, <2>1, <3>1, <3>2, <3>3, MoveKeeps
  <2>3. CASE req[q].look # 3
    <3>1. PICK e \in req[q].held : Answered({q}, k, {e.data})
      BY <1>4, <2>3 DEF Hit
    <3>2. /\ \A r \in Requests \ {q} : req'[r] = req[r]
          /\ req'[q].pc = "done" /\ req'[q].held = {} /\ req'[q].look = 0
      BY <3>1 DEF Answered, Resting
    <3>3. \A j \in Keys \ PlainKeys : ~Leading(q, j)'
      BY <3>2 DEF Leading
    <3>4. Single(req'[q].held)
      BY <3>2 DEF Single
    <3> QED
      BY <1>a, <2>1, <3>2, <3>3, <3>4, MoveKeeps
  <2> QED
    BY <2>2, <2>3
<1>5. ASSUME NEW q \in Requests, NEW k \in Keys, Missed(q, k),
             At(q, "judge", k) \/ At(q, "drop", k),
             now' = now, flight' = flight,
             \A j \in Keys : entries'[j] \subseteq entries[j],
             \A e \in entries'[k] : req[q].look = 3 => ~Fresh(e)
      PROVE  IInv'
  <2>1. /\ \A r \in Requests \ {q} : req'[r] = req[r]
        /\ req'[q].pc = AfterMiss(q, k) /\ req'[q].held = {} /\ req'[q].key = {k}
        /\ req[q].look = 3 => req'[q].look = 3
        /\ req[q].look # 3 => req'[q].look # 3
        /\ req[q].key = {k} /\ req[q].pc \in {"judge", "drop"}
    BY <1>5, <1>b DEF Missed, At, Record
  <2>2. Single(req'[q].held)
    BY <2>1 DEF Single
  <2>3. \A j \in Keys \ PlainKeys : req'[q].key = {j} => j = k
    BY <2>1
  <2>4. ASSUME k \notin PlainKeys
        PROVE  /\ req'[q].pc \in {"read", "join", "compute"}
               /\ req'[q].pc = "compute" => req[q].look = 3
               /\ Leading(q, k)' => req[q].look = 3
    BY <2>1, <2>4 DEF AfterMiss, Leading
  <2>5. ASSUME k \notin PlainKeys, req[q].look = 3
        PROVE  flight'[k] = {q}
    BY <1>5, <2>1, <2>5 DEF IInv, FlightOK, Leading
  <2>6. \A e \in entries'[k] : Fresh(e)' = Fresh(e)
    BY <1>5 DEF Fresh
  <2>7. \A j \in Keys \ PlainKeys : Leading(q, j)' => flight'[j] = {q}
    BY <2>3, <2>4, <2>5 DEF Leading
  <2>8. \A j \in Keys \ PlainKeys : req'[q].key = {j} =>
           /\ req'[q].pc \notin {"judge", "drop", "store"}
           /\ req'[q].pc = "compute" => \A e \in entries'[j] : ~Fresh(e)'
    BY <1>5, <2>3, <2>4, <2>6
  <2> QED
    BY <1>5, <1>a, <2>1, <2>2, <2>7, <2>8, MoveKeeps
<1>6. ASSUME NEW q \in Requests, NEW k \in Keys, MissAbsent(q, k)
      PROVE  IInv'
  <2>1. /\ Missed(q, k) /\ At(q, "judge", k) /\ req[q].held = {}
        /\ now' = now /\ flight' = flight /\ entries' = entries
    BY <1>6 DEF MissAbsent
  <2>2. CASE k \in PlainKeys
    <3>1. /\ \A r \in Requests \ {q} : req'[r] = req[r]
          /\ req'[q].held = {} /\ req'[q].key = {k}
      BY <2>1, <1>b DEF Missed, At, Record
    <3>2. \A j \in Keys \ PlainKeys : req'[q].key # {j}
      BY <2>2, <3>1
    <3>3. Single(req'[q].held)
      BY <3>1 DEF Single
    <3> QED
      BY <1>a, <2>1, <3>1, <3>2, <3>3, MoveKeeps DEF Leading
  <2>3. CASE k \notin PlainKeys
    <3>1. req[q].look = 3 => entries[k] \subseteq {}
      BY <2>1, <2>3 DEF IInv, LookOK, At
    <3> QED
      BY <1>5, <2>1, <3>1
  <2> QED
    BY <2>2, <2>3
<1>7. ASSUME NEW q \in Requests, NEW k \in Keys, MissExpired(q, k)
      PROVE  IInv'
  <2>1. /\ now' = now /\ entries' = entries /\ flight' = flight
        /\ \A r \in Requests \ {q} : req'[r] = req[r]
        /\ req[q].pc = "judge" /\ req[q].key = {k}
        /\ req'[q].pc = "drop" /\ req'[q].held = req[q].held
        /\ req'[q].key = {k} /\ req'[q].look = req[q].look
    BY <1>7, <1>b DEF MissExpired, At, Record
  <2>2. PICK e \in req[q].held : ~Fresh(e)
    BY <1>7 DEF MissExpired
  <2>3. \A f \in req[q].held : ~Fresh(f)
    BY <2>2 DEF IInv, SingleOK, Single
  <2>4. \A j \in Keys \ PlainKeys : req'[q].key = {j} =>
          (req'[q].look = 3 => \A f \in entries'[j] : ~Fresh(f)')
    BY <2>1, <2>3 DEF IInv, LookOK, Fresh
  <2>5. \A j \in Keys \ PlainKeys : Leading(q, j)' => flight'[j] = {q}
    BY <2>1 DEF IInv, FlightOK, Leading
  <2>6. Single(req'[q].held)
    BY <2>1 DEF IInv, SingleOK
  <2> QED
    BY <1>a, <2>1, <2>4, <2>5, <2>6, MoveKeeps
<1>8. ASSUME NEW q \in Requests, NEW k \in Keys, Drop(q, k)
      PROVE  IInv'
  <2>1. /\ Missed(q, k) /\ At(q, "drop", k)
        /\ now' = now /\ flight' = flight
        /\ entries' = [entries EXCEPT ![k] = {e \in @ : Fresh(e)}]
    BY <1>8 DEF Drop
  <2>2. \A j \in Keys : entries'[j] \subseteq entries[j]
    BY <1>a, <2>1 DEF TypeOK
  <2>3. CASE k \in PlainKeys
    <3>1. /\ \A r \in Requests \ {q} : req'[r] = req[r]
          /\ req'[q].held = {} /\ req'[q].key = {k}
      BY <2>1, <1>b DEF Missed, At, Record
    <3>2. \A j \in Keys \ PlainKeys : req'[q].key # {j}
      BY <2>3, <3>1
    <3>3. Single(req'[q].held)
      BY <3>1 DEF Single
    <3> QED
      BY <1>a, <2>1, <2>2, <3>1, <3>2, <3>3, MoveKeeps DEF Leading
  <2>4. CASE k \notin PlainKeys
    <3>1. req[q].look = 3 => \A e \in entries'[k] : ~Fresh(e)
      BY <2>1, <2>2, <2>4 DEF IInv, LookOK, At
    <3> QED
      BY <1>5, <2>1, <2>2, <3>1
  <2> QED
    BY <2>3, <2>4
<1>9. ASSUME NEW q \in Requests, NEW k \in Keys, Lead(q, k)
      PROVE  IInv'
  <2>1. /\ now' = now /\ entries' = entries
        /\ \A r \in Requests \ {q} : req'[r] = req[r]
        /\ req'[q].pc = "read" /\ req'[q].key = {k} /\ req'[q].held = req[q].held
        /\ flight[k] = {} /\ flight'[k] = {q}
        /\ \A j \in Keys \ {k} : flight'[j] = flight[j]
    BY <1>9, <1>a, <1>b DEF Lead, At, Record, TypeOK
  <2>2. \A j \in Keys \ PlainKeys : Leading(q, j)' => flight'[j] = {q}
    BY <2>1 DEF Leading
  <2>3. Single(req'[q].held)
    BY <2>1 DEF IInv, SingleOK
  <2>4. \A j \in Keys : flight[j] # {} => flight'[j] = flight[j]
    BY <2>1
  <2> QED
    BY <1>a, <2>1, <2>2, <2>3, <2>4, MoveKeeps
<1>10. ASSUME NEW q \in Requests, NEW k \in Keys, Join(q, k)
       PROVE  IInv'
  <2>1. /\ now' = now /\ entries' = entries /\ flight' = flight
        /\ \A r \in Requests \ {q} : req'[r] = req[r]
        /\ req'[q].pc = "wait" /\ req'[q].held = req[q].held
    BY <1>10, <1>b DEF Join, Record
  <2>2. \A j \in Keys \ PlainKeys : ~Leading(q, j)'
    BY <2>1 DEF Leading
  <2>3. Single(req'[q].held)
    BY <2>1 DEF IInv, SingleOK
  <2> QED
    BY <1>a, <2>1, <2>2, <2>3, MoveKeeps
<1>11. ASSUME NEW q \in Requests, NEW k \in Keys, ComputeOk(q, k)
       PROVE  IInv'
  <2>1. /\ now' = now /\ entries' = entries /\ flight' = flight
        /\ \A r \in Requests \ {q} : req'[r] = req[r]
        /\ req[q].pc = "compute" /\ req[q].key = {k}
        /\ req'[q].pc = "store" /\ req'[q].key = {k} /\ req'[q].held = req[q].held
    BY <1>11, <1>b DEF ComputeOk, At, Record
  <2>2. \A j \in Keys \ PlainKeys : Leading(q, j)' => flight'[j] = {q}
    BY <2>1 DEF IInv, FlightOK, Leading
  <2>3. \A j \in Keys \ PlainKeys : req'[q].key = {j} =>
          \A e \in entries'[j] : ~Fresh(e)'
    BY <2>1 DEF IInv, LookOK, Fresh
  <2>4. Single(req'[q].held)
    BY <2>1 DEF IInv, SingleOK
  <2> QED
    BY <1>a, <2>1, <2>2, <2>3, <2>4, MoveKeeps
<1>12. ASSUME NEW q \in Requests, NEW k \in Keys, ComputeFails(q, k)
       PROVE  IInv'
  <2>1. /\ now' = now /\ entries' = entries /\ flight' = flight
        /\ req[q].pc = "compute" /\ req[q].key = {k}
    BY <1>12 DEF ComputeFails, At
  <2>2. /\ \A r \in Requests \ {q} : req'[r] = req[r]
        /\ Single(req'[q].held)
        /\ req'[q].pc \in {"finish", "done"}
        /\ req'[q].pc = "finish" => req'[q].key = {k}
        /\ req'[q].pc = "done" => req'[q].look = 0
    <3>1. CASE k \in PlainKeys
      BY <1>12, <3>1 DEF ComputeFails, Answered, Resting, Single
    <3>2. CASE k \notin PlainKeys
      BY <1>12, <1>b, <2>1, <3>2 DEF ComputeFails, Record, IInv, SingleOK
    <3> QED
      BY <3>1, <3>2
  <2>3. \A j \in Keys \ PlainKeys : Leading(q, j)' => flight'[j] = {q}
    BY <2>1, <2>2 DEF IInv, FlightOK, Leading
  <2> QED
    BY <1>a, <2>1, <2>2, <2>3, MoveKeeps
<1>13. ASSUME NEW q \in Requests, NEW k \in Keys, Store(q, k)
       PROVE  IInv'
  <2>1. /\ now' = now /\ flight' = flight
        /\ req[q].pc = "store" /\ req[q].key = {k}
    BY <1>13 DEF Store, At
  <2>2. /\ \A r \in Requests \ {q} : req'[r] = req[r]
        /\ Single(req'[q].held)
        /\ req'[q].pc \in {"finish", "done"}
        /\ req'[q].pc = "finish" => req'[q].key = {k}
        /\ req'[q].pc = "done" => req'[q].look = 0
    <3>1. CASE k \in PlainKeys
      BY <1>13, <3>1 DEF Store, Answered, Resting, Single
    <3>2. CASE k \notin PlainKeys
      BY <1>13, <1>b, <2>1, <3>2 DEF Store, Record, IInv, SingleOK
    <3> QED
      BY <3>1, <3>2
  <2>3. /\ Evicted \in [Keys -> SUBSET Entry]
        /\ \A j \in Keys : Evicted[j] \subseteq entries[j]
    BY <1>a DEF Evicted, TypeOK
  <2>4. /\ \A j \in Keys \ {k} : entries'[j] \subseteq entries[j]
        /\ Single(entries'[k])
    BY <1>13, <2>3 DEF Store, IInv, SingleOK, Single
  <2>5. FlightOK'
    BY <2>1, <2>2 DEF IInv, FlightOK, Leading
  <2>6. SingleOK'
    BY <2>2, <2>4 DEF IInv, SingleOK, Single
  <2>7. LookOK'
    <3> SUFFICES ASSUME NEW j \in Keys \ PlainKeys, NEW r \in Requests, req'[r].key = {j},
                        req'[r].pc \in {"judge", "drop", "compute", "store"},
                        req'[r].pc \in {"judge", "drop"} => req'[r].look = 3
                 PROVE  /\ req'[r].pc = "judge" => entries'[j] \subseteq req'[r].held
                        /\ req'[r].pc \in {"drop", "compute", "store"} =>
                             \A e \in entries'[j] : ~Fresh(e)'
      BY DEF LookOK
    <3>1. r # q /\ req'[r] = req[r]
      BY <2>2
    <3>2. Leading(r, j)
      BY <3>1 DEF Leading
    <3>3. j # k
      <4>1. ASSUME j = k PROVE FALSE
        <5>1. Leading(q, k)
          BY <2>1 DEF Leading
        <5> QED
          BY <3>1, <3>2, <4>1, <5>1, OneLeader DEF IInv
      <4> QED
        BY <4>1
    <3>4. entries'[j] \subseteq entries[j]
      BY <2>4, <3>3
    <3>5. \A e \in entries'[j] : Fresh(e)' = Fresh(e)
      BY <2>1 DEF Fresh
    <3> QED
      BY <3>1, <3>4, <3>5 DEF IInv, LookOK
  <2> QED
    BY <1>a, <2>5, <2>6, <2>7 DEF IInv
<1>14. ASSUME NEW q \in Requests, NEW k \in Keys, Finish(q, k)
       PROVE  IInv'
  <2>1. /\ now' = now /\ entries' = entries
        /\ req[q].pc = "finish" /\ req[q].key = {k}
        /\ \A j \in Keys \ {k} : flight'[j] = flight[j]
        /\ Answered({q} \cup Waiting(k), k, result[k])
    BY <1>14, <1>a DEF Finish, At, TypeOK
  <2>2. \A r \in Requests :
          \/ req'[r] = req[r] /\ r # q
          \/ req'[r].pc = "done" /\ req'[r].look = 0 /\ req'[r].held = {}
    BY <2>1 DEF Answered, Resting
  <2>3. FlightOK'
    <3> SUFFICES ASSUME NEW j \in Keys \ PlainKeys, NEW r \in Requests, Leading(r, j)'
                 PROVE  flight'[j] = {r}
      BY DEF FlightOK
    <3>1. req'[r] = req[r] /\ r # q
      BY <2>2 DEF Leading
    <3>2. Leading(r, j)
      BY <3>1 DEF Leading
    <3>3. j # k
      <4>1. ASSUME j = k PROVE FALSE
        <5>1. Leading(q, k)
          BY <2>1 DEF Leading
        <5> QED
          BY <3>1, <3>2, <4>1, <5>1, OneLeader DEF IInv
      <4> QED
        BY <4>1
    <3> QED
      BY <2>1, <3>2, <3>3 DEF IInv, FlightOK
  <2>4. LookOK'
    <3>1. \A e : Fresh(e)' = Fresh(e)
      BY <2>1 DEF Fresh
    <3> QED
      BY <2>1, <2>2, <3>1 DEF IInv, LookOK
  <2>5. SingleOK'
    BY <2>1, <2>2 DEF IInv, SingleOK, Single
  <2> QED
    BY <1>a, <2>3, <2>4, <2>5 DEF IInv
<1>15. CASE UNCHANGED vars
  BY <1>a, <1>15 DEF vars, IInv, FlightOK, LookOK, SingleOK, Single, Leading, Fresh
<1> QED
  BY <1>1, <1>2, <1>3, <1>4, <1>6, <1>7, <1>8, <1>9, <1>10, <1>11, <1>12, <1>13,
     <1>14, <1>15 DEF Next, Proceed

LEMMA Invariant == Spec => []IInv
BY InvInit, InvStep, PTL DEF Spec

(* However many goroutines miss at once, whatever expires and whatever is  *)
(* evicted between their lookups: one computation per coalesced key, and   *)
(* none while a fresh entry is there.                                      *)
THEOREM Coalesced == Spec => []OneComputation
<1>1. IInv => OneComputation
  BY OneLeader DEF IInv, OneComputation, Computing, At, LookOK, Leading
<1> QED
  BY <1>1, Invariant, PTL

(* No step takes a fresh entry of a coalesced key out of the cache or      *)
(* replaces it.                                                            *)
THEOREM FreshEntriesStay == Spec => FreshKept
<1>1. ASSUME IInv, [Next]_vars, NEW k \in Keys \ PlainKeys, NEW e \in entries[k], Fresh(e)'
      PROVE  e \in entries'[k]
  <2>1. TypeOK /\ TypeOK' /\ IInv'
    BY <1>1, InvStep, TypeStep DEF IInv
  <2>2. CASE entries' = entries
    BY <2>2
  <2>3. ASSUME NEW q \in Requests, NEW j \in Keys, Drop(q, j)
        PROVE  e \in entries'[k]
    BY <1>1, <2>1, <2>3 DEF Drop, Fresh, TypeOK
  <2>4. ASSUME NEW q \in Requests, NEW j \in Keys, Store(q, j)
        PROVE  e \in entries'[k]
    <3>1. now' = now /\ At(q, "store", j) /\ Fresh(e)
      BY <1>1, <2>4 DEF Store, Fresh
    <3>2. j # k
      BY <1>1, <3>1 DEF IInv, LookOK, At
    <3>3. Evicted \in [Keys -> SUBSET Entry] /\ e \in Evicted[k]
      BY <2>1, <3>1 DEF Evicted, TypeOK
    <3> QED
      BY <2>4, <3>2, <3>3 DEF Store
  <2> QED
    BY <1>1, <2>2, <2>3, <2>4 DEF Next, Proceed, Tick, Start, Read, Hit, MissAbsent,
       MissExpired, Lead, Join, ComputeOk, ComputeFails, Finish, vars
<1>2. IInv /\ [Next]_vars =>
        [\A k \in Keys \ PlainKeys : \A e \in entries[k] : Fresh(e)' => e \in entries'[k]]_vars
  BY <1>1
<1> QED
  BY <1>2, Invariant, PTL DEF Spec, FreshKept

-----------------------------------------------------------------------------
(* The size.  No finiteness of Keys is assumed: the keys with an entry are *)
(* finitely many because one step adds at most one of them.                *)

Room == IsFiniteSet(Cached) /\ Cardinality(Cached) <= MaxSize

LEMMA RoomInit == Init => Room
<1> SUFFICES ASSUME Init PROVE Room
  OBVIOUS
<1>1. Cached = {}
  BY DEF Init, Cached
<1>2. MaxSize \in Nat
  BY CacheAssumption
<1> QED
  BY <1>1, <1>2, FS_EmptySet DEF Room

(* A step that gives no key an entry leaves the room there is.             *)
LEMMA Fewer == ASSUME Room, Cached' \subseteq Cached PROVE Room'
<1>1. IsFiniteSet(Cached') /\ Cardinality(Cached') <= Cardinality(Cached)
  BY FS_Subset DEF Room
<1>2. Cardinality(Cached) \in Nat /\ Cardinality(Cached') \in Nat /\ MaxSize \in Nat
  BY <1>1, FS_CardinalityType, CacheAssumption DEF Room
<1> QED
  BY <1>1, <1>2 DEF Room

LEMMA RoomStep == TypeOK /\ Room /\ [Next]_vars => Room'
<1> SUFFICES ASSUME TypeOK, Room, [Next]_vars PROVE Room'
  OBVIOUS
<1>1. CASE entries' = entries
  BY <1>1, Fewer DEF Cached
<1>2. ASSUME NEW q \in Requests, NEW k \in Keys, Drop(q, k)
      PROVE  Room'
  <2>1. \A j \in Keys : entries'[j] \subseteq entries[j]
    BY <1>2 DEF Drop, TypeOK
  <2> QED
    BY <2>1, Fewer DEF Cached
<1>3. ASSUME NEW q \in Requests, NEW k \in Keys, Store(q, k)
      PROVE  Room'
  <2> DEFINE Left == {j \in Keys : Evicted[j] # {}}
  <2>1. /\ Evicted \in [Keys -> SUBSET Entry]
        /\ Left \subseteq Cached
    BY DEF Evicted, TypeOK, Cached
  <2>2. IsFiniteSet(Left) /\ Cardinality(Left) \in Nat /\ MaxSize \in Nat
    BY <2>1, FS_Subset, FS_CardinalityType, CacheAssumption DEF Room
  <2>3. CASE Cardinality(Left) >= MaxSize
    <3>1. Cached' = Left
      BY <1>3, <2>3 DEF Store, Cached
    <3> QED
      BY <2>1, <3>1, Fewer
  <2>4. CASE ~(Cardinality(Left) >= MaxSize)
    <3>1. entries' = [Evicted EXCEPT ![k] =
                        {[data |-> [key |-> k, born |-> req[q].born], created |-> now]}]
      BY <1>3, <2>4 DEF Store
    <3>2. Cached' = Left \cup {k}
      BY <2>1, <3>1 DEF Cached
    <3> HIDE DEF Left
    <3>a. /\ IsFiniteSet(Left \cup {k})
          /\ Cardinality(Left \cup {k}) = IF k \in Left THEN Cardinality(Left)
                                          ELSE Cardinality(Left) + 1
      BY <2>2, FS_AddElement
    <3>3. IsFiniteSet(Left \cup {k}) /\ Cardinality(Left \cup {k}) <= Cardinality(Left) + 1
      BY <2>2, <3>a
    <3>4. Cardinality(Left \cup {k}) \in Nat
      BY <3>3, FS_CardinalityType
    <3> QED
      BY <2>2, <2>4, <3>2, <3>3, <3>4 DEF Room
  <2> QED
    BY <2>3, <2>4
<1> QED
  BY <1>1, <1>2, <1>3 DEF Next, Proceed, Tick, Start, Read, Hit, MissAbsent, MissExpired,
     Lead, Join, ComputeOk, ComputeFails, Finish, vars

(* Whoever stores at once and whatever expires meanwhile, the map holds no *)
(* more than maxSize entries, and one per key.                             *)
THEOREM MapIsBounded == Spec => []SizeBounded
<1>1. ASSUME NEW S, Single(S) PROVE Cardinality(S) <= 1
  <2>1. S = {} \/ \E x : S = {x}
    BY <1>1 DEF Single
  <2>2. CASE S = {}
    BY <2>2, FS_EmptySet
  <2>3. CASE \E x : S = {x}
    BY <2>3, FS_Singleton
  <2> QED
    BY <2>1, <2>2, <2>3
<1>2. IInv /\ Room => SizeBounded
  BY <1>1 DEF IInv, SingleOK, Room, SizeBounded
<1>3. IInv /\ Room /\ [Next]_vars => Room'
  BY RoomStep DEF IInv
<1> QED
  BY <1>2, <1>3, RoomInit, Invariant, PTL DEF Spec

-----------------------------------------------------------------------------
(* Answers do not go back in time.  What is fresh in the cache is no older *)
(* than what was answered, and everyone who may still answer holds that,   *)
(* or computes something newer.                                            *)

BornOK ==
  /\ \A k \in Keys : served[k] <= now
  /\ \A k \in Keys : \A e \in entries[k] : e.data.key = k /\ e.data.born <= now
  /\ \A k \in Keys : \A d \in result[k] : d.key = k /\ d.born <= now
  /\ \A q \in Requests : req[q].born <= now

(* What a request for k looks at is of k, and what it finds fresh is still *)
(* in the cache; what it computes is as new as anything answered.          *)
AskedOK(q, k) ==
  /\ req[q].floor <= served[k]
  /\ \A e \in req[q].held : e.data.key = k /\ e.data.born <= now
  /\ k \notin PlainKeys =>
       /\ \A e \in req[q].held : Fresh(e) => e \in entries[k]
       /\ req[q].pc \in {"compute", "store"} => served[k] <= req[q].born

AskOK ==
  \A q \in Requests :
    /\ req[q].pc = "done" => req[q].key = {}
    /\ \A k \in Keys : req[q].key = {k} => AskedOK(q, k)

NewOK ==
  /\ \A k \in Keys \ PlainKeys :
       /\ \A e \in entries[k] : Fresh(e) => e.data.born >= served[k]
       /\ \A d \in result[k] :
            /\ d.born >= served[k]
            /\ \A e \in entries[k] : Fresh(e) => e.data.born = d.born
  /\ \A k \in Keys : Single(result[k])

BInv == BornOK /\ AskOK /\ NewOK

LEMMA BornInit == Init => BInv
<1> SUFFICES ASSUME Init PROVE BInv
  OBVIOUS
<1>1. BornOK
  BY DEF Init, BornOK, Resting
<1>2. AskOK
  BY DEF Init, AskOK, Resting
<1>3. NewOK
  BY DEF Init, NewOK, Single
<1> QED
  BY <1>1, <1>2, <1>3 DEF BInv

(* A step of one request that answers nobody and takes only what is stale  *)
(* out of the cache.                                                       *)
LEMMA QuietKeeps ==
  ASSUME TypeOK, BInv, now' = now, served' = served, result' = result, NEW q \in Requests,
         \A r \in Requests \ {q} : req'[r] = req[r],
         \A j \in Keys : entries'[j] \subseteq entries[j],
         \A j \in Keys \ PlainKeys : \A e \in entries[j] : Fresh(e) => e \in entries'[j],
         req'[q].pc # "done", req'[q].born <= now,
         \A j \in Keys : req'[q].key = {j} => AskedOK(q, j)'
  PROVE  BInv'
<1>a. \A e : Fresh(e)' <=> Fresh(e)
  BY DEF Fresh
<1>1. BornOK'
  BY DEF BInv, BornOK
<1>2. AskOK'
  <2> SUFFICES ASSUME NEW r \in Requests
               PROVE  /\ req'[r].pc = "done" => req'[r].key = {}
                      /\ \A k \in Keys : req'[r].key = {k} => AskedOK(r, k)'
    BY DEF AskOK
  <2>1. CASE r = q
    BY <2>1
  <2>2. CASE r # q
    <3>1. req'[r] = req[r]
      BY <2>2
    <3>2. ASSUME NEW k \in Keys, req'[r].key = {k} PROVE AskedOK(r, k)'
      <4>1. AskedOK(r, k)
        BY <3>1, <3>2 DEF BInv, AskOK
      <4> QED
        BY <1>a, <3>1, <4>1 DEF AskedOK
    <3> QED
      BY <3>1, <3>2 DEF BInv, AskOK
  <2> QED
    BY <2>1, <2>2
<1>3. NewOK'
  BY <1>a DEF BInv, NewOK
<1> QED
  BY <1>1, <1>2, <1>3 DEF BInv

(* What an answer does to those who get it and to the history.             *)
Told(Q, k, D) ==
  /\ \A j \in Keys \ {k} : served'[j] = served[j]
  /\ served'[k] >= served[k]
  /\ served'[k] = served[k] \/ \E d \in D : served'[k] = d.born
  /\ \A r \in Q : req'[r] = [Resting EXCEPT !.answer = D]
  /\ \A r \in Requests \ Q : req'[r] = req[r]

LEMMA AnsweredServed ==
  ASSUME TypeOK, NEW Q \in SUBSET Requests, NEW k \in Keys, NEW D \in SUBSET Data,
         Single(D), Answered(Q, k, D)
  PROVE  Told(Q, k, D)
<1>1. PICK n \in Newest(k, D) : served' = [served EXCEPT ![k] = n]
  BY DEF Answered
<1>2. served[k] \in Nat /\ \A d \in D : d.born \in Nat
  BY DEF TypeOK, Data
<1>3. n >= served[k] /\ (n = served[k] \/ \E d \in D : n = d.born)
  <2>1. CASE \E d \in D : d.born > served[k]
    <3>1. PICK d \in D : d.born > served[k]
      BY <2>1
    <3>2. D = {d}
      BY <3>1 DEF Single
    <3>3. n = d.born
      BY <1>1, <2>1, <3>2 DEF Newest
    <3> QED
      BY <1>2, <3>1, <3>2, <3>3
  <2>2. CASE ~\E d \in D : d.born > served[k]
    <3>1. n = served[k]
      BY <1>1, <2>2 DEF Newest
    <3> QED
      BY <1>2, <2>2, <3>1
  <2> QED
    BY <2>1, <2>2
<1>4. served'[k] = n /\ \A j \in Keys \ {k} : served'[j] = served[j]
  BY <1>1 DEF TypeOK
<1>5. /\ \A r \in Q : req'[r] = [Resting EXCEPT !.answer = D]
      /\ \A r \in Requests \ Q : req'[r] = req[r]
  BY DEF Answered
<1> QED
  BY <1>3, <1>4, <1>5 DEF Told

(* A step that answers the requests Q for k with the data D.               *)
LEMMA AnswerKeeps ==
  ASSUME TypeOK, BInv, now' = now, NEW Q \in SUBSET Requests, NEW k \in Keys,
         NEW D \in SUBSET Data, Single(D), Answered(Q, k, D),
         \A d \in D : d.born <= now,
         \A j \in Keys : \A e \in entries'[j] : e.data.key = j /\ e.data.born <= now,
         \A j \in Keys : result'[j] \subseteq result[j],
         \A j \in Keys \ PlainKeys : entries'[j] \subseteq entries[j],
         \A j \in Keys \ PlainKeys : \A e \in entries[j] : Fresh(e) => e \in entries'[j],
         k \notin PlainKeys =>
           /\ \A d \in D : \A e \in entries[k] : Fresh(e) => e.data.born = d.born
           /\ \A d \in D, c \in result'[k] : c.born = d.born
           /\ \A r \in Requests \ Q : req[r].key = {k} => req[r].pc \notin {"compute", "store"}
  PROVE  BInv'
<1>a. \A e : Fresh(e)' <=> Fresh(e)
  BY DEF Fresh
<1>b. /\ \A j \in Keys \ {k} : served'[j] = served[j]
      /\ served'[k] >= served[k]
      /\ served'[k] = served[k] \/ \E d \in D : served'[k] = d.born
      /\ \A r \in Q : req'[r] = [Resting EXCEPT !.answer = D]
      /\ \A r \in Requests \ Q : req'[r] = req[r]
  <2>1. Told(Q, k, D)
    BY AnsweredServed
  <2> QED
    BY <2>1 DEF Told
<1>c. /\ now \in Nat
      /\ \A j \in Keys : served[j] \in Nat
      /\ \A d \in D : d.born \in Nat
  BY DEF TypeOK, Data
<1>d. \A r \in Q : /\ req'[r].pc = "done" /\ req'[r].key = {} /\ req'[r].born = 0
  BY <1>b DEF Resting
<1>1. BornOK'
  <2>1. \A j \in Keys : served'[j] <= now
    BY <1>b DEF BInv, BornOK
  <2>2. \A r \in Requests : req'[r].born <= now
    BY <1>b, <1>c, <1>d DEF BInv, BornOK
  <2>3. \A j \in Keys : \A d \in result'[j] : d.key = j /\ d.born <= now
    BY DEF BInv, BornOK
  <2> QED
    BY <2>1, <2>2, <2>3 DEF BornOK
<1>2. AskOK'
  <2> SUFFICES ASSUME NEW r \in Requests \ Q
               PROVE  /\ req'[r].pc = "done" => req'[r].key = {}
                      /\ \A j \in Keys : req'[r].key = {j} => AskedOK(r, j)'
    BY <1>d DEF AskOK
  <2>1. req'[r] = req[r]
    BY <1>b
  <2>2. ASSUME NEW j \in Keys, req'[r].key = {j} PROVE AskedOK(r, j)'
    <3>1. AskedOK(r, j) /\ req[r].key = {j}
      BY <2>1, <2>2 DEF BInv, AskOK
    <3>2. req[r].floor \in Nat
      BY DEF TypeOK
    <3>3. req[r].floor <= served'[j]
      <4>1. CASE j = k
        <5>1. served'[k] \in Nat
          BY <1>b, <1>c
        <5> QED
          BY <1>b, <1>c, <3>1, <3>2, <4>1, <5>1 DEF AskedOK
      <4>2. CASE j # k
        BY <1>b, <3>1, <4>2 DEF AskedOK
      <4> QED
        BY <4>1, <4>2
    <3>4. ASSUME j \notin PlainKeys, req[r].pc \in {"compute", "store"}
          PROVE  served'[j] <= req[r].born
      <4>1. j # k
        BY <3>1, <3>4
      <4> QED
        BY <1>b, <3>1, <3>4, <4>1 DEF AskedOK
    <3> QED
      BY <1>a, <2>1, <3>1, <3>3, <3>4 DEF AskedOK
  <2> QED
    BY <2>1, <2>2 DEF BInv, AskOK
<1>3. NewOK'
  <2>1. ASSUME NEW j \in Keys \ PlainKeys, NEW e \in entries'[j], Fresh(e)'
        PROVE  e.data.born >= served'[j]
    <3>1. e \in entries[j] /\ Fresh(e) /\ e.data.born >= served[j]
      BY <1>a, <2>1 DEF BInv, NewOK
    <3>2. CASE j # k
      BY <1>b, <3>1, <3>2
    <3>3. CASE j = k
      <4>1. \A d \in D : e.data.born = d.born
        BY <3>1, <3>3
      <4>2. CASE served'[k] = served[k]
        BY <3>1, <3>3, <4>2
      <4>3. CASE \E d \in D : served'[k] = d.born
        BY <1>c, <3>3, <4>1, <4>3
      <4> QED
        BY <1>b, <4>2, <4>3
    <3> QED
      BY <3>2, <3>3
  <2>2. ASSUME NEW j \in Keys \ PlainKeys, NEW c \in result'[j]
        PROVE  /\ c.born >= served'[j]
               /\ \A e \in entries'[j] : Fresh(e)' => e.data.born = c.born
    <3>1. /\ c \in result[j] /\ c.born >= served[j]
          /\ \A e \in entries[j] : Fresh(e) => e.data.born = c.born
      BY <2>2 DEF BInv, NewOK
    <3>2. c.born >= served'[j]
      <4>1. CASE j # k
        BY <1>b, <3>1, <4>1
      <4>2. CASE j = k
        <5>1. \A d \in D : c.born = d.born
          BY <2>2, <4>2
        <5>2. CASE served'[k] = served[k]
          BY <3>1, <4>2, <5>2
        <5>3. CASE \E d \in D : served'[k] = d.born
          BY <1>c, <4>2, <5>1, <5>3
        <5> QED
          BY <1>b, <5>2, <5>3
      <4> QED
        BY <4>1, <4>2
    <3> QED
      BY <1>a, <3>1, <3>2
  <2>3. \A j \in Keys : Single(result'[j])
    BY DEF BInv, NewOK, Single
  <2> QED
    BY <2>1, <2>2, <2>3 DEF NewOK
<1> QED
  BY <1>1, <1>2, <1>3 DEF BInv

(* A request that missed goes on to look again, to join, or to compute.    *)
LEMMA MissedKeeps ==
  ASSUME TypeOK, BInv, NEW q \in Requests, NEW k \in Keys, req[q].key = {k}, Missed(q, k),
         now' = now, served' = served
  PROVE  /\ \A r \in Requests \ {q} : req'[r] = req[r]
         /\ req'[q].pc # "done" /\ req'[q].born <= now
         /\ \A j \in Keys : req'[q].key = {j} => AskedOK(q, j)'
<1>a. req \in [Requests -> Record] /\ now \in Nat
  BY DEF TypeOK, Record
<1>1. /\ \A r \in Requests \ {q} : req'[r] = req[r]
      /\ req'[q].pc = AfterMiss(q, k) /\ req'[q].key = {k} /\ req'[q].held = {}
      /\ req'[q].born = IF AfterMiss(q, k) = "compute" THEN now ELSE 0
      /\ req'[q].floor = req[q].floor
  BY <1>a DEF Missed, Record
<1>2. AfterMiss(q, k) \in {"compute", "join", "read"}
  BY DEF AfterMiss
<1>3. req'[q].born <= now
  BY <1>a, <1>1
<1>4. AskedOK(q, k)'
  <2>1. req[q].floor <= served[k] /\ served[k] <= now
    BY DEF BInv, AskOK, AskedOK, BornOK
  <2> QED
    BY <1>1, <1>2, <2>1 DEF AskedOK
<1> QED
  BY <1>1, <1>2, <1>3, <1>4

LEMMA BornStep == IInv /\ BInv /\ [Next]_vars => BInv'
<1> SUFFICES ASSUME IInv, BInv, [Next]_vars PROVE BInv'
  OBVIOUS
<1>a. TypeOK /\ TypeOK' /\ req \in [Requests -> Record]
  BY TypeStep DEF IInv, TypeOK, Record
<1>b. \A r \in Requests, j \in Keys : req[r].key = {j} => AskedOK(r, j)
  BY DEF BInv, AskOK
<1>1. CASE Tick
  <2>1. now \in Nat /\ now' = now + 1
    BY <1>1, <1>a DEF Tick, TypeOK
  <2>2. \A j \in Keys : \A e \in entries[j] : e \in Entry
    BY <1>a DEF TypeOK
  <2>3. \A r \in Requests : \A e \in req[r].held : e \in Entry
    BY <1>a DEF Record
  <2>4. \A e \in Entry : Fresh(e)' => Fresh(e)
    BY <2>1, CacheAssumption DEF Fresh, Entry
  <2>5. /\ \A j \in Keys : served[j] \in Nat
        /\ \A j \in Keys : \A d \in result[j] : d.born \in Nat
        /\ \A r \in Requests : req[r].born \in Nat
        /\ \A e \in Entry : e.data.born \in Nat
    BY <1>a DEF TypeOK, Record, Entry, Data
  <2>6. BornOK'
    BY <1>1, <2>1, <2>2, <2>5 DEF Tick, BInv, BornOK
  <2>7. AskOK'
    <3> SUFFICES ASSUME NEW r \in Requests, NEW j \in Keys, req[r].key = {j}
                 PROVE  AskedOK(r, j)'
      BY <1>1 DEF Tick, BInv, AskOK
    <3> QED
      BY <1>1, <1>b, <2>1, <2>3, <2>4, <2>5 DEF Tick, AskedOK
  <2>8. NewOK'
    BY <1>1, <2>2, <2>4 DEF Tick, BInv, NewOK
  <2> QED
    BY <2>6, <2>7, <2>8 DEF BInv
<1>2. ASSUME NEW q \in Requests, NEW k \in Keys, Start(q, k)
      PROVE  BInv'
  <2>1. /\ now' = now /\ served' = served /\ result' = result /\ entries' = entries
        /\ \A r \in Requests \ {q} : req'[r] = req[r]
        /\ req'[q].pc = "read" /\ req'[q].born = 0 /\ req'[q].key = {k}
        /\ req'[q].held = {} /\ req'[q].floor = served[k]
    BY <1>2, <1>a DEF Start, Resting
  <2>2. now \in Nat /\ served[k] \in Nat
    BY <1>a DEF TypeOK
  <2>3. AskedOK(q, k)'
    BY <2>1, <2>2 DEF AskedOK
  <2> QED
    BY <1>a, <2>1, <2>2, <2>3, QuietKeeps
<1>3. ASSUME NEW q \in Requests, NEW k \in Keys, Read(q, k)
      PROVE  BInv'
  <2>1. /\ now' = now /\ served' = served /\ result' = result /\ entries' = entries
        /\ req[q].key = {k} /\ \A r \in Requests \ {q} : req'[r] = req[r]
        /\ req'[q].pc = "judge" /\ req'[q].born = req[q].born /\ req'[q].key = {k}
        /\ req'[q].held = entries[k] /\ req'[q].floor = req[q].floor
    BY <1>3, <1>a DEF Read, At, Record
  <2>2. AskedOK(q, k)'
    <3>1. \A e \in entries[k] : e.data.key = k /\ e.data.born <= now
      BY DEF BInv, BornOK
    <3> QED
      BY <1>b, <2>1, <3>1 DEF AskedOK
  <2>3. req'[q].born <= now
    BY <2>1 DEF BInv, BornOK
  <2> QED
    BY <1>a, <2>1, <2>2, <2>3, QuietKeeps
<1>4. ASSUME NEW q \in Requests, NEW k \in Keys, Hit(q, k)
      PROVE  BInv'
  <2>1. PICK e \in req[q].held :
          /\ Fresh(e)
          /\ IF req[q].look = 3
             THEN /\ result' = [result EXCEPT ![k] = {e.data}]
                  /\ req' = [req EXCEPT ![q].pc = "finish", ![q].held = {}]
                  /\ UNCHANGED served
             ELSE Answered({q}, k, {e.data}) /\ UNCHANGED result
    BY <1>4 DEF Hit
  <2>2. /\ now' = now /\ entries' = entries /\ req[q].pc = "judge" /\ req[q].key = {k}
    BY <1>4 DEF Hit, At
  <2>3. /\ e \in Entry /\ e.data.key = k /\ e.data.born <= now
        /\ k \notin PlainKeys => e \in entries[k]
    BY <1>a, <1>b, <2>1, <2>2 DEF AskedOK, Record
  <2>4. ASSUME k \notin PlainKeys
        PROVE  /\ e.data.born >= served[k]
               /\ \A f \in entries[k] : f = e
    BY <2>1, <2>3, <2>4 DEF BInv, NewOK, IInv, SingleOK, Single
  <2>5. CASE req[q].look = 3
    <3>1. /\ \A r \in Requests \ {q} : req'[r] = req[r]
          /\ req'[q].pc = "finish" /\ req'[q].held = {} /\ req'[q].key = {k}
          /\ req'[q].born = req[q].born /\ req'[q].floor = req[q].floor
      BY <1>a, <2>1, <2>2, <2>5 DEF Record
    <3>2. result'[k] = {e.data} /\ \A j \in Keys \ {k} : result'[j] = result[j]
      BY <1>a, <2>1, <2>5 DEF TypeOK
    <3>3. served' = served
      BY <2>1, <2>5
    <3>4. \A f : Fresh(f)' <=> Fresh(f)
      BY <2>2 DEF Fresh
    <3>5. BornOK'
      <4>1. \A j \in Keys : \A d \in result'[j] : d.key = j /\ d.born <= now
        BY <2>3, <3>2 DEF BInv, BornOK
      <4>2. \A r \in Requests : req'[r].born <= now
        BY <3>1 DEF BInv, BornOK
      <4> QED
        BY <2>2, <3>3, <4>1, <4>2 DEF BInv, BornOK
    <3>6. AskOK'
      <4> SUFFICES ASSUME NEW r \in Requests
                   PROVE  /\ req'[r].pc = "done" => req'[r].key = {}
                          /\ \A j \in Keys : req'[r].key = {j} => AskedOK(r, j)'
        BY DEF AskOK
      <4>1. CASE r = q
        <5>1. AskedOK(q, k)'
          BY <1>b, <2>2, <3>1, <3>3 DEF AskedOK
        <5> QED
          BY <3>1, <4>1, <5>1
      <4>2. CASE r # q
        <5>1. req'[r] = req[r]
          BY <3>1, <4>2
        <5>2. \A j \in Keys : req[r].key = {j} => AskedOK(r, j)'
          BY <1>b, <2>2, <3>3, <3>4, <5>1 DEF AskedOK
        <5> QED
          BY <5>1, <5>2 DEF BInv, AskOK
      <4> QED
        BY <4>1, <4>2
    <3>7. NewOK'
      <4>1. \A j \in Keys : Single(result'[j])
        BY <3>2 DEF BInv, NewOK, Single
      <4>2. ASSUME NEW j \in Keys \ PlainKeys, NEW d \in result'[j]
            PROVE  /\ d.born >= served[j]
                   /\ \A f \in entries[j] : Fresh(f) => f.data.born = d.born
        <5>1. CASE j = k
          BY <2>4, <3>2, <4>2, <5>1
        <5>2. CASE j # k
          BY <3>2, <4>2, <5>2 DEF BInv, NewOK
        <5> QED
          BY <5>1, <5>2
      <4> QED
        BY <2>2, <3>3, <3>4, <4>1, <4>2 DEF BInv, NewOK
    <3> QED
      BY <3>5, <3>6, <3>7 DEF BInv
  <2>6. CASE req[q].look # 3
    <3>1. Answered({q}, k, {e.data}) /\ result' = result
      BY <2>1, <2>6
    <3>2. {q} \in SUBSET Requests /\ {e.data} \in SUBSET Data /\ Single({e.data})
      BY <2>3 DEF Entry, Single
    <3>3. \A j \in Keys : \A f \in entries'[j] : f.data.key = j /\ f.data.born <= now
      BY <2>2 DEF BInv, BornOK
    <3>4. ASSUME k \notin PlainKeys
          PROVE  /\ \A d \in {e.data} : \A f \in entries[k] : Fresh(f) => f.data.born = d.born
                 /\ \A d \in {e.data}, c \in result'[k] : c.born = d.born
                 /\ \A r \in Requests \ {q} :
                      req[r].key = {k} => req[r].pc \notin {"compute", "store"}
      <4>1. \A c \in result[k] : c.born = e.data.born
        BY <2>1, <2>3, <3>4 DEF BInv, NewOK
      <4>2. \A r \in Requests : req[r].key = {k} => req[r].pc \notin {"compute", "store"}
        BY <2>1, <2>3, <3>4 DEF IInv, LookOK
      <4> QED
        BY <2>4, <3>1, <3>4, <4>1, <4>2
    <3>5. \A d \in {e.data} : d.born <= now
      BY <2>3
    <3>6. /\ \A j \in Keys : result'[j] \subseteq result[j]
          /\ \A j \in Keys \ PlainKeys : entries'[j] \subseteq entries[j]
          /\ \A j \in Keys \ PlainKeys : \A f \in entries[j] : Fresh(f) => f \in entries'[j]
      BY <2>2, <3>1
    <3> DEFINE D == {e.data}
               Q == {q}
    <3>7. /\ Q \in SUBSET Requests /\ D \in SUBSET Data /\ Single(D) /\ Answered(Q, k, D)
          /\ \A d \in D : d.born <= now
          /\ k \notin PlainKeys =>
               /\ \A d \in D : \A f \in entries[k] : Fresh(f) => f.data.born = d.born
               /\ \A d \in D, c \in result'[k] : c.born = d.born
               /\ \A r \in Requests \ Q : req[r].key = {k} => req[r].pc \notin {"compute", "store"}
      BY <3>1, <3>2, <3>4, <3>5
    <3> HIDE DEF D, Q
    <3> QED
      BY <1>a, <2>2, <3>3, <3>6, <3>7, AnswerKeeps
  <2> QED
    BY <2>5, <2>6
<1>5. ASSUME NEW q \in Requests, NEW k \in Keys, MissAbsent(q, k)
      PROVE  BInv'
  <2>1. /\ now' = now /\ served' = served /\ result' = result /\ entries' = entries
        /\ req[q].key = {k} /\ Missed(q, k)
    BY <1>5 DEF MissAbsent, At
  <2>2. /\ \A r \in Requests \ {q} : req'[r] = req[r]
        /\ req'[q].pc # "done" /\ req'[q].born <= now
        /\ \A j \in Keys : req'[q].key = {j} => AskedOK(q, j)'
    BY <1>a, <2>1, MissedKeeps
  <2> QED
    BY <1>a, <2>1, <2>2, QuietKeeps
<1>6. ASSUME NEW q \in Requests, NEW k \in Keys,
             MissExpired(q, k) \/ Lead(q, k) \/ Join(q, k) \/ ComputeOk(q, k)
      PROVE  BInv'
  <2>1. /\ now' = now /\ served' = served /\ result' = result /\ entries' = entries
        /\ req[q].key = {k} /\ \A r \in Requests \ {q} : req'[r] = req[r]
        /\ req'[q].pc \in {"drop", "read", "wait", "store"} /\ req'[q].key = {k}
        /\ req'[q].pc = "store" => req[q].pc = "compute"
        /\ req'[q].born = req[q].born /\ req'[q].held = req[q].held
        /\ req'[q].floor = req[q].floor
    BY <1>6, <1>a DEF MissExpired, Lead, Join, ComputeOk, At, Record
  <2>2. \A e : Fresh(e)' <=> Fresh(e)
    BY <2>1 DEF Fresh
  <2>3. AskedOK(q, k)'
    BY <1>b, <2>1, <2>2 DEF AskedOK
  <2>4. req'[q].born <= now
    BY <2>1 DEF BInv, BornOK
  <2> QED
    BY <1>a, <2>1, <2>3, <2>4, QuietKeeps
<1>7. ASSUME NEW q \in Requests, NEW k \in Keys, Drop(q, k)
      PROVE  BInv'
  <2>1. /\ now' = now /\ served' = served /\ result' = result
        /\ req[q].key = {k} /\ Missed(q, k)
        /\ \A j \in Keys : entries'[j] \subseteq entries[j]
        /\ \A j \in Keys : \A e \in entries[j] : Fresh(e) => e \in entries'[j]
    BY <1>7, <1>a DEF Drop, At, TypeOK
  <2>2. /\ \A r \in Requests \ {q} : req'[r] = req[r]
        /\ req'[q].pc # "done" /\ req'[q].born <= now
        /\ \A j \in Keys : req'[q].key = {j} => AskedOK(q, j)'
    BY <1>a, <2>1, MissedKeeps
  <2> QED
    BY <1>a, <2>1, <2>2, QuietKeeps
<1>8. ASSUME NEW q \in Requests, NEW k \in Keys, ComputeFails(q, k)
      PROVE  BInv'
  <2>1. /\ now' = now /\ result' = result /\ entries' = entries
        /\ req[q].pc = "compute" /\ req[q].key = {k}
    BY <1>8 DEF ComputeFails, At
  <2>2. CASE k \in PlainKeys
    <3> DEFINE D == {}
               Q == {q}
    <3>1. /\ Q \in SUBSET Requests /\ D \in SUBSET Data /\ Single(D) /\ Answered(Q, k, D)
          /\ \A d \in D : d.born <= now
      BY <1>8, <2>2 DEF ComputeFails, Single
    <3>2. \A j \in Keys : \A e \in entries'[j] : e.data.key = j /\ e.data.born <= now
      BY <2>1 DEF BInv, BornOK
    <3>3. /\ \A j \in Keys : result'[j] \subseteq result[j]
          /\ \A j \in Keys \ PlainKeys : entries'[j] \subseteq entries[j]
          /\ \A j \in Keys \ PlainKeys : \A e \in entries[j] : Fresh(e) => e \in entries'[j]
      BY <2>1
    <3> HIDE DEF D, Q
    <3> QED
      BY <1>a, <2>1, <2>2, <3>1, <3>2, <3>3, AnswerKeeps
  <2>3. CASE k \notin PlainKeys
    <3>1. /\ served' = served /\ \A r \in Requests \ {q} : req'[r] = req[r]
          /\ req'[q].pc = "finish" /\ req'[q].key = {k} /\ req'[q].born = req[q].born
          /\ req'[q].held = req[q].held /\ req'[q].floor = req[q].floor
      BY <1>8, <1>a, <2>1, <2>3 DEF ComputeFails, Record
    <3>2. \A e : Fresh(e)' <=> Fresh(e)
      BY <2>1 DEF Fresh
    <3>3. AskedOK(q, k)'
      BY <1>b, <2>1, <3>1, <3>2 DEF AskedOK
    <3>4. req'[q].born <= now
      BY <3>1 DEF BInv, BornOK
    <3> QED
      BY <1>a, <2>1, <3>1, <3>3, <3>4, QuietKeeps
  <2> QED
    BY <2>2, <2>3
<1>9. ASSUME NEW q \in Requests, NEW k \in Keys, Store(q, k)
      PROVE  BInv'
  <2> DEFINE d == [key |-> k, born |-> req[q].born]
             new == [data |-> d, created |-> now]
  <2>1. /\ now' = now /\ req[q].pc = "store" /\ req[q].key = {k}
        /\ entries' = Evicted \/ entries' = [Evicted EXCEPT ![k] = {new}]
    BY <1>9 DEF Store, At
  <2>2. /\ Evicted \in [Keys -> SUBSET Entry]
        /\ \A j \in Keys : Evicted[j] \subseteq entries[j]
        /\ \A j \in Keys : \A e \in entries[j] : Fresh(e) => e \in Evicted[j]
    BY <1>a DEF Evicted, TypeOK
  <2>3. /\ \A j \in Keys \ {k} : entries'[j] \subseteq entries[j]
        /\ \A j \in Keys \ {k} : \A e \in entries[j] : Fresh(e) => e \in entries'[j]
        /\ \A e \in entries'[k] : e \in entries[k] \/ e = new
    BY <2>1, <2>2
  <2>4. d \in Data /\ d.key = k /\ d.born = req[q].born /\ d.born <= now
    BY <1>a DEF Data, Record, BInv, BornOK
  <2>5. new.data.key = k /\ new.data.born = d.born /\ new.data.born <= now
    BY <2>4
  <2>6. \A e : Fresh(e)' <=> Fresh(e)
    BY <2>1 DEF Fresh
  <2>7. \A j \in Keys : \A e \in entries'[j] : e.data.key = j /\ e.data.born <= now
    BY <2>3, <2>5 DEF BInv, BornOK
  <2>8. CASE k \in PlainKeys
    <3> DEFINE D == {d}
               Q == {q}
    <3>1. /\ Q \in SUBSET Requests /\ D \in SUBSET Data /\ Single(D)
          /\ \A c \in D : c.born <= now
      BY <2>4 DEF Single
    <3>2. Answered(Q, k, D) /\ result' = result
      BY <1>9, <2>8 DEF Store
    <3>3. /\ \A j \in Keys : result'[j] \subseteq result[j]
          /\ \A j \in Keys \ PlainKeys : entries'[j] \subseteq entries[j]
          /\ \A j \in Keys \ PlainKeys : \A e \in entries[j] : Fresh(e) => e \in entries'[j]
      BY <2>3, <2>8, <3>2
    <3> HIDE DEF D, Q, d, new
    <3> QED
      BY <1>a, <2>1, <2>7, <2>8, <3>1, <3>2, <3>3, AnswerKeeps
  <2>9. CASE k \notin PlainKeys
    <3>1. /\ served' = served /\ \A r \in Requests \ {q} : req'[r] = req[r]
          /\ req'[q].pc = "finish" /\ req'[q].key = {k} /\ req'[q].born = req[q].born
          /\ req'[q].held = req[q].held /\ req'[q].floor = req[q].floor
      BY <1>9, <1>a, <2>1, <2>9 DEF Store, Record
    <3>2. result'[k] = {d} /\ \A j \in Keys \ {k} : result'[j] = result[j]
      BY <1>9, <1>a, <2>9 DEF Store, TypeOK
    <3>3. \A e \in entries[k] : ~Fresh(e)
      BY <2>1, <2>9 DEF IInv, LookOK
    <3>4. served[k] <= d.born
      BY <1>b, <2>1, <2>4, <2>9 DEF AskedOK
    <3>5. \A r \in Requests \ {q} : req[r].key = {k} => req[r].pc \notin {"compute", "store"}
      <4>1. Leading(q, k)
        BY <2>1 DEF Leading
      <4>2. \A r \in Requests : req[r].key = {k} /\ req[r].pc \in {"compute", "store"}
                                  => Leading(r, k)
        BY DEF Leading
      <4> QED
        BY <2>9, <4>1, <4>2, OneLeader DEF IInv
    <3> HIDE DEF d, new
    <3>6. BornOK'
      <4>1. \A j \in Keys : \A c \in result'[j] : c.key = j /\ c.born <= now
        BY <2>4, <3>2 DEF BInv, BornOK
      <4>2. \A r \in Requests : req'[r].born <= now
        BY <3>1 DEF BInv, BornOK
      <4> QED
        BY <2>1, <2>7, <3>1, <4>1, <4>2 DEF BInv, BornOK
    <3>7. AskOK'
      <4> SUFFICES ASSUME NEW r \in Requests
                   PROVE  /\ req'[r].pc = "done" => req'[r].key = {}
                          /\ \A j \in Keys : req'[r].key = {j} => AskedOK(r, j)'
        BY DEF AskOK
      <4>1. ASSUME NEW j \in Keys, req'[r].key = {j} PROVE AskedOK(r, j)'
        <5>1. /\ req'[r].key = req[r].key /\ req'[r].held = req[r].held
              /\ req'[r].floor = req[r].floor /\ req'[r].born = req[r].born
              /\ req'[r].pc \in {"compute", "store"} => req[r].pc \in {"compute", "store"}
          BY <2>1, <3>1
        <5>2. AskedOK(r, j)
          BY <1>b, <4>1, <5>1
        <5>3. ASSUME j \notin PlainKeys, NEW e \in req[r].held, Fresh(e)
              PROVE  e \in entries'[j]
          <6>1. e \in entries[j]
            BY <5>2, <5>3 DEF AskedOK
          <6>2. j # k
            BY <3>3, <5>3, <6>1
          <6> QED
            BY <2>3, <5>3, <6>1, <6>2
        <5> QED
          BY <2>1, <2>6, <3>1, <5>1, <5>2, <5>3 DEF AskedOK
      <4>2. req'[r].pc = "done" => req'[r].key = {}
        BY <3>1 DEF BInv, AskOK
      <4> QED
        BY <4>1, <4>2
    <3>8. NewOK'
      <4>1. \A j \in Keys : Single(result'[j])
        BY <3>2 DEF BInv, NewOK, Single
      <4>2. ASSUME NEW j \in Keys \ PlainKeys, NEW e \in entries'[j], Fresh(e)
            PROVE  /\ e.data.born >= served[j]
                   /\ \A c \in result'[j] : e.data.born = c.born
        <5>1. CASE j = k
          <6>1. e = new
            BY <2>3, <3>3, <4>2, <5>1
          <6> QED
            BY <1>a, <2>4, <2>5, <3>2, <3>4, <5>1, <6>1 DEF TypeOK, Data
        <5>2. CASE j # k
          BY <2>3, <3>2, <4>2, <5>2 DEF BInv, NewOK
        <5> QED
          BY <5>1, <5>2
      <4>3. ASSUME NEW j \in Keys \ PlainKeys, NEW c \in result'[j]
            PROVE  c.born >= served[j]
        <5>1. CASE j = k
          BY <1>a, <2>4, <3>2, <3>4, <4>3, <5>1 DEF TypeOK, Data
        <5>2. CASE j # k
          BY <3>2, <4>3, <5>2 DEF BInv, NewOK
        <5> QED
          BY <5>1, <5>2
      <4> QED
        BY <2>6, <3>1, <4>1, <4>2, <4>3 DEF NewOK
    <3> QED
      BY <3>6, <3>7, <3>8 DEF BInv
  <2> QED
    BY <2>8, <2>9
<1>10. ASSUME NEW q \in Requests, NEW k \in Keys, Finish(q, k)
       PROVE  BInv'
  <2> DEFINE D == result[k]
             Q == {q} \cup Waiting(k)
  <2>1. /\ now' = now /\ entries' = entries /\ req[q].pc = "finish" /\ req[q].key = {k}
        /\ Answered(Q, k, D)
        /\ result'[k] = {} /\ \A j \in Keys \ {k} : result'[j] = result[j]
    BY <1>10, <1>a DEF Finish, At, TypeOK
  <2>2. /\ Q \in SUBSET Requests /\ D \in SUBSET Data /\ Single(D)
        /\ \A d \in D : d.born <= now
    BY <1>a DEF Waiting, TypeOK, BInv, BornOK, NewOK
  <2>3. \A j \in Keys : \A e \in entries'[j] : e.data.key = j /\ e.data.born <= now
    BY <2>1 DEF BInv, BornOK
  <2>4. /\ \A j \in Keys : result'[j] \subseteq result[j]
        /\ \A j \in Keys \ PlainKeys : entries'[j] \subseteq entries[j]
        /\ \A j \in Keys \ PlainKeys : \A e \in entries[j] : Fresh(e) => e \in entries'[j]
    BY <2>1
  <2>5. ASSUME k \notin PlainKeys
        PROVE  /\ \A d \in D : \A e \in entries[k] : Fresh(e) => e.data.born = d.born
               /\ \A d \in D, c \in result'[k] : c.born = d.born
               /\ \A r \in Requests \ Q :
                    req[r].key = {k} => req[r].pc \notin {"compute", "store"}
    <3>1. Leading(q, k)
      BY <2>1 DEF Leading
    <3>2. \A r \in Requests : req[r].key = {k} /\ req[r].pc \in {"compute", "store"}
                                => Leading(r, k)
      BY DEF Leading
    <3>3. \A r \in Requests \ Q : req[r].key = {k} => req[r].pc \notin {"compute", "store"}
      BY <2>5, <3>1, <3>2, OneLeader DEF IInv
    <3> QED
      BY <2>1, <2>5, <3>3 DEF BInv, NewOK
  <2> HIDE DEF D, Q
  <2> QED
    BY <1>a, <2>1, <2>2, <2>3, <2>4, <2>5, AnswerKeeps
<1>11. CASE UNCHANGED vars
  BY <1>11 DEF vars, BInv, BornOK, AskOK, AskedOK, NewOK, Fresh, Single
<1> QED
  BY <1>1, <1>2, <1>3, <1>4, <1>5, <1>6, <1>7, <1>8, <1>9, <1>10, <1>11
  DEF Next, Proceed

(* The age of an answer, for the requests that a step answers.             *)
AnswersNew ==
  \A q \in Requests, k \in Keys : \A d \in req'[q].answer :
    req[q].key = {k} /\ req'[q].pc = "done" =>
      d.key = k /\ (k \notin PlainKeys => d.born >= req[q].floor)

(* Of the requests for one key, only those that a step answers are done,   *)
(* and what they are answered with is of that key and new enough.          *)
LEMMA AnswerIsNew ==
  ASSUME BInv, NEW Q \in SUBSET Requests, NEW k \in Keys, NEW D,
         \A r \in Q : req[r].key = {k} /\ req'[r] = [Resting EXCEPT !.answer = D],
         \A r \in Requests \ Q : req'[r] = req[r],
         \A d \in D : d.key = k,
         k \notin PlainKeys => \A r \in Q : \A d \in D : d.born >= req[r].floor
  PROVE  AnswersNew
<1> SUFFICES ASSUME NEW q \in Requests, NEW j \in Keys, NEW d \in req'[q].answer,
                    req[q].key = {j}, req'[q].pc = "done"
             PROVE  d.key = j /\ (j \notin PlainKeys => d.born >= req[q].floor)
  BY DEF AnswersNew
<1>1. q \in Q
  <2>1. ASSUME q \notin Q PROVE FALSE
    BY <2>1 DEF BInv, AskOK
  <2> QED
    BY <2>1
<1>2. j = k /\ d \in D
  BY <1>1 DEF Resting
<1> QED
  BY <1>1, <1>2

(* A step that leaves no request done answers nobody.                      *)
LEMMA NobodyAnswered ==
  ASSUME BInv, NEW q \in Requests, req'[q].pc # "done",
         \A r \in Requests \ {q} : req'[r] = req[r]
  PROVE  AnswersNew
BY DEF BInv, AskOK, AnswersNew

LEMMA AnswersNewStep == IInv /\ BInv /\ [Next]_vars => AnswersNew
<1> SUFFICES ASSUME IInv, BInv, [Next]_vars PROVE AnswersNew
  OBVIOUS
<1>a. /\ TypeOK /\ req \in [Requests -> Record]
      /\ \A r \in Requests, j \in Keys : req[r].key = {j} => AskedOK(r, j)
      /\ \A r \in Requests : req[r].floor \in Nat
      /\ \A j \in Keys : served[j] \in Nat
  BY DEF IInv, TypeOK, Record, BInv, AskOK
<1>1. CASE req' = req
  BY <1>1 DEF BInv, AskOK, AnswersNew
<1>2. ASSUME NEW q \in Requests, NEW k \in Keys,
             \/ Start(q, k) \/ Read(q, k) \/ MissExpired(q, k)
             \/ Lead(q, k) \/ Join(q, k) \/ ComputeOk(q, k)
      PROVE  AnswersNew
  <2>1. req'[q].pc # "done" /\ \A r \in Requests \ {q} : req'[r] = req[r]
    BY <1>2, <1>a DEF Start, Read, MissExpired, Lead, Join, ComputeOk, Record, Resting
  <2> QED
    BY <2>1, NobodyAnswered
<1>3. ASSUME NEW q \in Requests, NEW k \in Keys, MissAbsent(q, k) \/ Drop(q, k)
      PROVE  AnswersNew
  <2>1. AfterMiss(q, k) # "done" /\ Missed(q, k)
    BY <1>3 DEF AfterMiss, MissAbsent, Drop
  <2>2. req'[q].pc # "done" /\ \A r \in Requests \ {q} : req'[r] = req[r]
    BY <1>a, <2>1 DEF Missed, Record
  <2> QED
    BY <2>2, NobodyAnswered
<1>4. ASSUME NEW q \in Requests, NEW k \in Keys, Hit(q, k)
      PROVE  AnswersNew
  <2>1. PICK e \in req[q].held :
          /\ Fresh(e)
          /\ IF req[q].look = 3
             THEN req' = [req EXCEPT ![q].pc = "finish", ![q].held = {}]
             ELSE Answered({q}, k, {e.data})
    BY <1>4 DEF Hit
  <2>2. req[q].key = {k}
    BY <1>4 DEF Hit, At
  <2>3. CASE req[q].look = 3
    <3>1. req'[q].pc = "finish" /\ \A r \in Requests \ {q} : req'[r] = req[r]
      BY <1>a, <2>1, <2>3 DEF Record
    <3> QED
      BY <3>1, NobodyAnswered
  <2>4. CASE req[q].look # 3
    <3>1. e \in Entry /\ e.data.key = k /\ e.data.born \in Nat
      BY <1>a, <2>1, <2>2 DEF AskedOK, Record, Entry, Data
    <3>2. ASSUME k \notin PlainKeys PROVE e.data.born >= req[q].floor
      <4>1. e.data.born >= served[k] /\ req[q].floor <= served[k]
        BY <1>a, <2>1, <2>2, <3>2 DEF AskedOK, BInv, NewOK
      <4> QED
        BY <1>a, <3>1, <4>1
    <3>3. /\ \A r \in {q} : req'[r] = [Resting EXCEPT !.answer = {e.data}]
          /\ \A r \in Requests \ {q} : req'[r] = req[r]
      BY <2>1, <2>4 DEF Answered
    <3> DEFINE D == {e.data}
               Q == {q}
    <3>4. /\ Q \in SUBSET Requests
          /\ \A r \in Q : req[r].key = {k} /\ req'[r] = [Resting EXCEPT !.answer = D]
          /\ \A r \in Requests \ Q : req'[r] = req[r]
          /\ \A d \in D : d.key = k
          /\ k \notin PlainKeys => \A r \in Q : \A d \in D : d.born >= req[r].floor
      BY <2>2, <3>1, <3>2, <3>3
    <3> HIDE DEF D, Q
    <3> QED
      BY <3>4, AnswerIsNew
  <2> QED
    BY <2>3, <2>4
<1>5. ASSUME NEW q \in Requests, NEW k \in Keys, ComputeFails(q, k) \/ Store(q, k)
      PROVE  AnswersNew
  <2> DEFINE d == [key |-> k, born |-> req[q].born]
             Q == {q}
  <2>1. req[q].key = {k}
    BY <1>5 DEF ComputeFails, Store, At
  <2>2. CASE k \notin PlainKeys
    <3>1. req' = [req EXCEPT ![q].pc = "finish"]
      BY <1>5, <2>2 DEF ComputeFails, Store
    <3>2. req'[q].pc # "done" /\ \A r \in Requests \ {q} : req'[r] = req[r]
      BY <1>a, <3>1 DEF Record
    <3> QED
      BY <3>2, NobodyAnswered
  <2>3. ASSUME k \in PlainKeys, NEW D, Answered(Q, k, D), \A c \in D : c.key = k
        PROVE  AnswersNew
    <3>1. /\ Q \in SUBSET Requests
          /\ \A r \in Q : req[r].key = {k} /\ req'[r] = [Resting EXCEPT !.answer = D]
          /\ \A r \in Requests \ Q : req'[r] = req[r]
      BY <2>1, <2>3 DEF Answered
    <3> HIDE DEF Q
    <3> QED
      BY <2>3, <3>1, AnswerIsNew
  <2>4. CASE k \in PlainKeys
    <3>1. Answered(Q, k, {}) \/ Answered(Q, k, {d})
      BY <1>5, <2>4 DEF ComputeFails, Store
    <3>2. (\A c \in {} : c.key = k) /\ (\A c \in {d} : c.key = k)
      OBVIOUS
    <3> HIDE DEF d, Q
    <3> QED
      BY <2>3, <2>4, <3>1, <3>2
  <2> QED
    BY <2>2, <2>4
<1>6. ASSUME NEW q \in Requests, NEW k \in Keys, Finish(q, k)
      PROVE  AnswersNew
  <2> DEFINE D == result[k]
             Q == {q} \cup Waiting(k)
  <2>1. Q \in SUBSET Requests /\ \A r \in Q : req[r].key = {k}
    BY <1>6 DEF Finish, Waiting, At
  <2>2. /\ \A r \in Q : req'[r] = [Resting EXCEPT !.answer = D]
        /\ \A r \in Requests \ Q : req'[r] = req[r]
    BY <1>6, <2>1 DEF Finish, Answered
  <2>3. \A d \in D : d.key = k /\ d.born \in Nat
    BY <1>a DEF BInv, BornOK, TypeOK, Data
  <2>4. ASSUME k \notin PlainKeys, NEW r \in Q, NEW d \in D PROVE d.born >= req[r].floor
    <3>1. r \in Requests /\ req[r].floor <= served[k]
      BY <1>a, <2>1 DEF AskedOK
    <3>2. d.born >= served[k]
      BY <2>4 DEF BInv, NewOK
    <3> QED
      BY <1>a, <2>3, <3>1, <3>2
  <2>5. /\ Q \in SUBSET Requests
        /\ \A r \in Q : req[r].key = {k} /\ req'[r] = [Resting EXCEPT !.answer = D]
        /\ \A r \in Requests \ Q : req'[r] = req[r]
        /\ \A d \in D : d.key = k
        /\ k \notin PlainKeys => \A r \in Q : \A d \in D : d.born >= req[r].floor
    BY <2>1, <2>2, <2>3, <2>4
  <2> HIDE DEF D, Q
  <2> QED
    BY <2>5, AnswerIsNew
<1>7. CASE Tick \/ UNCHANGED vars
  BY <1>1, <1>7 DEF Tick, vars
<1> QED
  BY <1>2, <1>3, <1>4, <1>5, <1>6, <1>7 DEF Next, Proceed

(* A coalesced request is never answered with older data than what had     *)
(* been answered for its key when it started, and no request with data of  *)
(* another key.                                                            *)
THEOREM AnswersDoNotStepBack == Spec => NoStepBack
<1>1. IInv /\ BInv /\ [Next]_vars =>
        [\A q \in Requests, k \in Keys : \A d \in req'[q].answer :
           req[q].key = {k} /\ req'[q].pc = "done" =>
             d.key = k /\ (k \notin PlainKeys => d.born >= req[q].floor)]_vars
  BY AnswersNewStep DEF AnswersNew
<1> QED
  BY <1>1, BornInit, BornStep, Invariant, PTL DEF Spec, NoStepBack
=============================================================================
