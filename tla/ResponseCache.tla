--------------------------- MODULE ResponseCache ---------------------------
(***************************************************************************)
(* The in-memory response cache of pkg/plugin/cache.go: entries with a     *)
(* TTL behind a read-write lock, and computations coalesced per key by a   *)
(* singleflight group.  Requests are goroutines; a section under the lock  *)
(* is one step, everything between two sections is interleaved.            *)
(*                                                                         *)
(* A request looks its key up once in the handler (writeCached), again in  *)
(* getOrCompute and, when it leads the flight of its key, a third time     *)
(* inside it.  The handlers of the service map compute without a flight    *)
(* and store with setJSON: their keys are PlainKeys.                       *)
(*                                                                         *)
(* Definitions marked "Slip" are wrong variants of the one that follows    *)
(* them.  The specification uses none; each breaks a property below.       *)
(***************************************************************************)
EXTENDS Integers, FiniteSets

CONSTANTS
  Requests,
  Keys,
  PlainKeys,   \* keys of getServiceMap and buildServiceNamespaceMap
  TTL,
  MaxSize,
  Failures,    \* TRUE when a computation may fail
  MaxNow       \* bound: last value of the clock

VARIABLES
  now,         \* monotonic clock
  entries,     \* the map: at most one entry per key
  flight,      \* the leader of each key's flight, a set of at most one
  result,      \* what the flight of a key has come to, a set of at most one
  req,         \* state of each request
  served       \* history: birth of the newest data ever answered, by key

vars == <<now, entries, flight, result, req, served>>

ASSUME CacheAssumption ==
  /\ PlainKeys \subseteq Keys
  /\ TTL \in Nat /\ MaxSize \in Nat /\ MaxNow \in Nat
  /\ Failures \in BOOLEAN

(* Data is told apart by its key and by the moment its computation began.  *)
Data == [key : Keys, born : Nat]
Entry == [data : Data, created : Nat]

Fresh(e) == now - e.created <= TTL
Cached == {k \in Keys : entries[k] # {}}

(* A goroutine between two requests; answer is what the last one got, none *)
(* when that was an error.                                                 *)
Resting == [pc |-> "done", key |-> {}, look |-> 0, held |-> {}, born |-> 0,
            floor |-> 0, answer |-> {}]

Init ==
  /\ now = 0
  /\ entries = [k \in Keys |-> {}]
  /\ flight = [k \in Keys |-> {}]
  /\ result = [k \in Keys |-> {}]
  /\ req = [q \in Requests |-> Resting]
  /\ served = [k \in Keys |-> 0]

Tick ==
  /\ now < MaxNow
  /\ now' = now + 1
  /\ UNCHANGED <<entries, flight, result, req, served>>

At(q, pc, k) == req[q].pc = pc /\ req[q].key = {k}

Start(q, k) ==
  /\ req[q].pc = "done"
  /\ req' = [req EXCEPT ![q] = [Resting EXCEPT !.pc = "read", !.key = {k}, !.look = 1,
                                               !.floor = served[k]]]
  /\ UNCHANGED <<now, entries, flight, result, served>>

(* The newest data answered for k once D, a set of at most one, has been.  *)
Newest(k, D) == IF \E d \in D : d.born > served[k] THEN {d.born : d \in D} ELSE {served[k]}

(* The requests Q for k are answered with data D, or with an error.        *)
Answered(Q, k, D) ==
  /\ req' = [q \in Requests |->
       IF q \in Q THEN [Resting EXCEPT !.answer = D] ELSE req[q]]
  /\ \E n \in Newest(k, D) : served' = [served EXCEPT ![k] = n]

-----------------------------------------------------------------------------
(* get: the entry is taken under the read lock, judged outside of it, and  *)
(* an expired one removed under the write lock if it still is expired.     *)

Read(q, k) ==
  /\ At(q, "read", k)
  /\ req' = [req EXCEPT ![q].pc = "judge", ![q].held = entries[k]]
  /\ UNCHANGED <<now, entries, flight, result, served>>

(* Where a miss leads: to getOrCompute, into the flight, to the compute.   *)
AfterMiss(q, k) ==
  IF req[q].look = 3 \/ k \in PlainKeys THEN "compute"
  ELSE IF req[q].look = 2 THEN "join" ELSE "read"

(* Slip: lookups are counted past the last one.                            *)
MissedOnceMore(q, k) ==
  req' = [req EXCEPT ![q].pc = AfterMiss(q, k), ![q].held = {}, ![q].look = @ + 1,
                     ![q].born = IF AfterMiss(q, k) = "compute" THEN now ELSE 0]

Missed(q, k) ==
  req' = [req EXCEPT ![q].pc = AfterMiss(q, k), ![q].held = {},
                     ![q].look = IF @ = 1 THEN 2 ELSE @,
                     ![q].born = IF AfterMiss(q, k) = "compute" THEN now ELSE 0]

Hit(q, k) ==
  /\ At(q, "judge", k)
  /\ \E e \in req[q].held :
       /\ Fresh(e)
       /\ IF req[q].look = 3
          THEN /\ result' = [result EXCEPT ![k] = {e.data}]
               /\ req' = [req EXCEPT ![q].pc = "finish", ![q].held = {}]
               /\ UNCHANGED served
          ELSE Answered({q}, k, {e.data}) /\ UNCHANGED result
  /\ UNCHANGED <<now, entries, flight>>

MissAbsent(q, k) ==
  /\ At(q, "judge", k)
  /\ req[q].held = {}
  /\ Missed(q, k)
  /\ UNCHANGED <<now, entries, flight, result, served>>

MissExpired(q, k) ==
  /\ At(q, "judge", k)
  /\ \E e \in req[q].held : ~Fresh(e)
  /\ req' = [req EXCEPT ![q].pc = "drop"]
  /\ UNCHANGED <<now, entries, flight, result, served>>

(* Slip: what is stored now is not looked at again before it is removed.   *)
DropBlindly(q, k) ==
  /\ At(q, "drop", k)
  /\ entries' = [entries EXCEPT ![k] = {}]
  /\ Missed(q, k)
  /\ UNCHANGED <<now, flight, result, served>>

Drop(q, k) ==
  /\ At(q, "drop", k)
  /\ entries' = [entries EXCEPT ![k] = {e \in @ : Fresh(e)}]
  /\ Missed(q, k)
  /\ UNCHANGED <<now, flight, result, served>>

-----------------------------------------------------------------------------
(* getOrCompute: one flight per key; who comes later waits for it.         *)

(* Slip: the flight does not look the key up once more.                    *)
LeadAtOnce(q, k) ==
  /\ At(q, "join", k)
  /\ flight[k] = {}
  /\ flight' = [flight EXCEPT ![k] = {q}]
  /\ req' = [req EXCEPT ![q].pc = "compute", ![q].look = 3, ![q].born = now]
  /\ UNCHANGED <<now, entries, result, served>>

(* Slip: a flight of its own for every request.                            *)
LeadAlways(q, k) ==
  /\ At(q, "join", k)
  /\ flight' = [flight EXCEPT ![k] = {q}]
  /\ req' = [req EXCEPT ![q].pc = "read", ![q].look = 3]
  /\ UNCHANGED <<now, entries, result, served>>

Lead(q, k) ==
  /\ At(q, "join", k)
  /\ flight[k] = {}
  /\ flight' = [flight EXCEPT ![k] = {q}]
  /\ req' = [req EXCEPT ![q].pc = "read", ![q].look = 3]
  /\ UNCHANGED <<now, entries, result, served>>

Join(q, k) ==
  /\ At(q, "join", k)
  /\ flight[k] # {}
  /\ req' = [req EXCEPT ![q].pc = "wait"]
  /\ UNCHANGED <<now, entries, flight, result, served>>

(* The computation ends; what it found is as old as its beginning.         *)
ComputeOk(q, k) ==
  /\ At(q, "compute", k)
  /\ req' = [req EXCEPT ![q].pc = "store"]
  /\ UNCHANGED <<now, entries, flight, result, served>>

ComputeFails(q, k) ==
  /\ Failures
  /\ At(q, "compute", k)
  /\ IF k \in PlainKeys
     THEN Answered({q}, k, {})
     ELSE req' = [req EXCEPT ![q].pc = "finish"] /\ UNCHANGED served
  /\ UNCHANGED <<now, entries, flight, result>>

(* set: at capacity the expired entries go first, and when that does not   *)
(* make room the write is dropped.                                         *)
Evicted ==
  IF Cardinality(Cached) >= MaxSize
  THEN [k \in Keys |-> {e \in entries[k] : Fresh(e)}]
  ELSE entries

(* Slip: whatever the eviction frees counts as enough.                     *)
StoreAnyway(q, k) ==
  LET d == [key |-> k, born |-> req[q].born] IN
  /\ At(q, "store", k)
  /\ entries' = [Evicted EXCEPT ![k] = {[data |-> d, created |-> now]}]
  /\ IF k \in PlainKeys
     THEN Answered({q}, k, {d}) /\ UNCHANGED result
     ELSE /\ result' = [result EXCEPT ![k] = {d}]
          /\ req' = [req EXCEPT ![q].pc = "finish"]
          /\ UNCHANGED served
  /\ UNCHANGED <<now, flight>>

Store(q, k) ==
  LET d == [key |-> k, born |-> req[q].born] IN
  /\ At(q, "store", k)
  /\ entries' =
       IF Cardinality({j \in Keys : Evicted[j] # {}}) >= MaxSize THEN Evicted
       ELSE [Evicted EXCEPT ![k] = {[data |-> d, created |-> now]}]
  /\ IF k \in PlainKeys
     THEN Answered({q}, k, {d}) /\ UNCHANGED result
     ELSE /\ result' = [result EXCEPT ![k] = {d}]
          /\ req' = [req EXCEPT ![q].pc = "finish"]
          /\ UNCHANGED served
  /\ UNCHANGED <<now, flight>>

(* The flight ends: its leader and everyone who waits get its result.      *)
Waiting(k) == {q \in Requests : At(q, "wait", k)}

(* Slip: a flight that fails stays registered.                             *)
FinishOnSuccess(q, k) ==
  /\ At(q, "finish", k)
  /\ Answered({q} \cup Waiting(k), k, result[k])
  /\ flight' = [flight EXCEPT ![k] = IF result[k] = {} THEN @ ELSE {}]
  /\ result' = [result EXCEPT ![k] = {}]
  /\ UNCHANGED <<now, entries>>

Finish(q, k) ==
  /\ At(q, "finish", k)
  /\ Answered({q} \cup Waiting(k), k, result[k])
  /\ flight' = [flight EXCEPT ![k] = {}]
  /\ result' = [result EXCEPT ![k] = {}]
  /\ UNCHANGED <<now, entries>>

-----------------------------------------------------------------------------
Proceed(q, k) ==
  \/ Read(q, k) \/ Hit(q, k) \/ MissAbsent(q, k) \/ MissExpired(q, k) \/ Drop(q, k)
  \/ Lead(q, k) \/ Join(q, k)
  \/ ComputeOk(q, k) \/ ComputeFails(q, k) \/ Store(q, k) \/ Finish(q, k)

Next ==
  \/ Tick
  \/ \E q \in Requests, k \in Keys : Start(q, k) \/ Proceed(q, k)

Spec == Init /\ [][Next]_vars

(* Goroutines are scheduled and computations return: every query has a     *)
(* timeout.                                                                *)
FairSpec == Spec /\ \A q \in Requests, k \in Keys : WF_vars(Proceed(q, k))

-----------------------------------------------------------------------------
(* Properties.                                                             *)

(* Every variable keeps to the values the code can give it.                *)
TypeOK ==
  /\ now \in Nat
  /\ entries \in [Keys -> SUBSET Entry]
  /\ flight \in [Keys -> SUBSET Requests]
  /\ result \in [Keys -> SUBSET Data]
  /\ served \in [Keys -> Nat]
  /\ req \in [Requests ->
       [pc : {"read", "judge", "drop", "join", "wait", "compute", "store", "finish", "done"},
        key : SUBSET Keys, look : 0 .. 3, held : SUBSET Entry, born : Nat,
        floor : Nat, answer : SUBSET Data]]

(* The map never outgrows maxSize, whoever stores at once and whatever     *)
(* expires meanwhile.                                                      *)
SizeBounded ==
  /\ Cardinality(Cached) <= MaxSize
  /\ \A k \in Keys : Cardinality(entries[k]) <= 1

Computing(q, k) == At(q, "compute", k) \/ At(q, "store", k)

(* Stampede protection: however many requests miss at once, at most one    *)
(* computes a coalesced key at a time, and none does while the cache holds *)
(* a fresh entry for it - although every request decided on a lookup it    *)
(* made before it took the flight.                                         *)
OneComputation ==
  \A k \in Keys \ PlainKeys :
    /\ \A q, r \in Requests : Computing(q, k) /\ Computing(r, k) => q = r
    /\ \A q \in Requests : Computing(q, k) => \A e \in entries[k] : ~Fresh(e)

(* No step takes a fresh entry away or replaces it: a lazy cleanup that    *)
(* found an expired entry leaves the one that was stored meanwhile alone,  *)
(* and capacity pressure drops the new entry, not the old one.             *)
FreshKept ==
  [][\A k \in Keys \ PlainKeys : \A e \in entries[k] :
       Fresh(e)' => e \in entries'[k]]_vars

(* A request that starts after another one was answered is not answered    *)
(* with older data for the same key, and never with data of another key:   *)
(* lookups, flights, evictions and dropped writes do not bring back what   *)
(* was already replaced.                                                   *)
NoStepBack ==
  [][\A q \in Requests, k \in Keys : \A d \in req'[q].answer :
       req[q].key = {k} /\ req'[q].pc = "done" =>
         d.key = k /\ (k \notin PlainKeys => d.born >= req[q].floor)]_vars

(* Every request is answered in the end, with data or with an error: no    *)
(* flight is left behind that later requests would wait for, whichever     *)
(* computations fail.                                                      *)
EveryRequestAnswered ==
  \A q \in Requests : req[q].pc = "read" ~> req[q].pc = "done"
=============================================================================
