---------------------------- MODULE Capabilities ----------------------------
(***************************************************************************)
(* Capability detection of pkg/plugin/capabilities.go and its second       *)
(* caller, cachedOrDetectCapabilities of pkg/plugin/services.go: which     *)
(* span metrics, service graph and data sources there are.  One result is  *)
(* cached, for a shorter time when it found no span metrics, and one       *)
(* flight at a time detects it anew.                                       *)
(*                                                                         *)
(* Who leads the flight decides the context of every probe: "page"         *)
(* requests (handleCapabilities) detach theirs from the client and bound   *)
(* it, "view" requests (every other endpoint) pass on the context that     *)
(* ends when their client goes away.  A probe under a context that has     *)
(* ended fails, and a probe that fails counts as nothing found.            *)
(*                                                                         *)
(* Definitions marked "Slip" are wrong variants of the one that follows    *)
(* them.  The specification uses none; each breaks a property below.       *)
(***************************************************************************)
EXTENDS Integers, FiniteSets

CONSTANTS
  Requests,
  Last,        \* spanMetricsCandidates are 1 .. Last, in order
  Sources,     \* service graph, Tempo, Loki, Pyroscope: always checked
  Lists,       \* services and environments: checked once metrics are found
  TTL,         \* capabilitiesCacheTTL
  NegativeTTL  \* capabilitiesNegativeTTL

VARIABLES
  up,          \* the candidates and sources that would be found right now
  cache,       \* capCache, a set of at most one
  flight,      \* the leader of the flight, a set of at most one
  result,      \* what the flight has come to, a set of at most one
  req          \* state of each request

vars == <<up, cache, flight, result, req>>

Candidates == 1 .. Last
Things == Candidates \cup Sources

ASSUME CapabilitiesAssumption ==
  /\ Last \in Nat
  /\ TTL \in Nat \ {0} /\ NegativeTTL \in 1 .. TTL
  /\ Sources \cap Candidates = {} /\ Lists \cap Things = {}

(* A result: the span metrics found (0 when none), whether their duration  *)
(* unit was, and the checks that succeeded.                                *)
Caps == [metrics : 0 .. Last, unit : BOOLEAN, ok : SUBSET (Sources \cup Lists)]
Nothing == [metrics |-> 0, unit |-> FALSE, ok |-> {}]

(* Ages stop at TTL: past it they are all the same.                        *)
Entry == [caps : Caps, age : 0 .. TTL]

(* Slip: what was not found is never looked for again.                     *)
FreshForever(e) == e.caps.metrics = 0 \/ e.age < TTL

Fresh(e) == e.age < IF e.caps.metrics = 0 THEN NegativeTTL ELSE TTL

Older(E) == {[e EXCEPT !.age = IF @ < TTL THEN @ + 1 ELSE @] : e \in E}

Resting == [pc |-> "done", kind |-> "view", over |-> FALSE, flown |-> FALSE, held |-> {},
            next |-> 1, caps |-> Nothing, todo |-> {}, calm |-> TRUE]

Init ==
  /\ up \in SUBSET Things
  /\ cache = {} /\ flight = {} /\ result = {}
  /\ req = [q \in Requests |-> Resting]

At(q, pc) == req[q].pc = pc

(* Between the first probe and the write to the cache.                     *)
Detecting(q) == req[q].pc \in {"metrics", "unit", "checks"}

Tick ==
  /\ cache' = Older(cache)
  /\ req' = [q \in Requests |-> [req[q] EXCEPT !.held = Older(@)]]
  /\ UNCHANGED <<up, flight, result>>

(* Series appear and vanish, sources come up and go down.                  *)
Change(x) ==
  /\ up' \in {up \cup {x}, up \ {x}} \ {up}
  /\ req' = [q \in Requests |-> [req[q] EXCEPT !.calm = ~Detecting(q)]]
  /\ UNCHANGED <<cache, flight, result>>

Start(q, kind) ==
  /\ At(q, "done")
  /\ req' = [req EXCEPT ![q] = [Resting EXCEPT !.pc = "read", !.kind = kind]]
  /\ UNCHANGED <<up, cache, flight, result>>

(* The client of q goes away.  handleCapabilities does not notice.         *)
Leave(q) ==
  /\ req[q].kind = "view" /\ ~At(q, "done")
  /\ ~req[q].over
  /\ req' = [req EXCEPT ![q].over = TRUE]
  /\ UNCHANGED <<up, cache, flight, result>>

(* The thirty seconds of a detached detection are over.                    *)
TimeOut(q) ==
  /\ req[q].kind = "page" /\ Detecting(q)
  /\ ~req[q].over
  /\ req' = [req EXCEPT ![q].over = TRUE]
  /\ UNCHANGED <<up, cache, flight, result>>

-----------------------------------------------------------------------------
(* freshCapabilities: the pointer is read under the lock, its age judged   *)
(* outside of it.                                                          *)

Read(q) ==
  /\ At(q, "read")
  /\ req' = [req EXCEPT ![q].pc = "judge", ![q].held = cache]
  /\ UNCHANGED <<up, cache, flight, result>>

(* The requests Q have their answer.                                       *)
Answered(Q) == req' = [q \in Requests |-> IF q \in Q THEN Resting ELSE req[q]]

Hit(q) ==
  /\ At(q, "judge")
  /\ \E e \in req[q].held :
       /\ Fresh(e)
       /\ IF req[q].flown
          THEN /\ result' = {e.caps}
               /\ req' = [req EXCEPT ![q].pc = "finish", ![q].held = {}]
          ELSE Answered({q}) /\ UNCHANGED result
  /\ UNCHANGED <<up, cache, flight>>

Miss(q) ==
  /\ At(q, "judge")
  /\ \A e \in req[q].held : ~Fresh(e)
  /\ req' = [req EXCEPT ![q].pc = IF req[q].flown THEN "metrics" ELSE "join",
                        ![q].held = {}]
  /\ UNCHANGED <<up, cache, flight, result>>

(* Slip: the flight does not look at the cache again.                      *)
LeadAtOnce(q) ==
  /\ At(q, "join")
  /\ flight = {}
  /\ flight' = {q}
  /\ req' = [req EXCEPT ![q].pc = "metrics", ![q].flown = TRUE]
  /\ UNCHANGED <<up, cache, result>>

Lead(q) ==
  /\ At(q, "join")
  /\ flight = {}
  /\ flight' = {q}
  /\ req' = [req EXCEPT ![q].pc = "read", ![q].flown = TRUE]
  /\ UNCHANGED <<up, cache, result>>

Join(q) ==
  /\ At(q, "join")
  /\ flight # {}
  /\ req' = [req EXCEPT ![q].pc = "wait"]
  /\ UNCHANGED <<up, cache, flight, result>>

-----------------------------------------------------------------------------
(* detectCapabilities.                                                     *)

(* A probe of q for x finds it: it is there, and q's context has not ended.*)
Found(q, x) == x \in up /\ ~req[q].over

(* Slip: the result names the candidate after the one that was found.      *)
ProbeHitNext(q) ==
  /\ At(q, "metrics") /\ req[q].next \in Candidates
  /\ Found(q, req[q].next)
  /\ req' = [req EXCEPT ![q].pc = "unit", ![q].caps.metrics = req[q].next + 1,
                        ![q].next = 1]
  /\ UNCHANGED <<up, cache, flight, result>>

(* The candidates are probed in order and the first one there is taken; a  *)
(* probe that fails goes on to the next.                                   *)
ProbeHit(q) ==
  /\ At(q, "metrics") /\ req[q].next \in Candidates
  /\ Found(q, req[q].next)
  /\ req' = [req EXCEPT ![q].pc = "unit", ![q].caps.metrics = req[q].next,
                        ![q].next = 1]
  /\ UNCHANGED <<up, cache, flight, result>>

ProbeMiss(q) ==
  /\ At(q, "metrics") /\ req[q].next \in Candidates
  /\ ~Found(q, req[q].next)
  /\ req' = [req EXCEPT ![q].next = @ + 1]
  /\ UNCHANGED <<up, cache, flight, result>>

ProbesEnd(q) ==
  /\ At(q, "metrics") /\ req[q].next \notin Candidates
  /\ req' = [req EXCEPT ![q].pc = "checks", ![q].todo = Sources]
  /\ UNCHANGED <<up, cache, flight, result>>

(* Slip: the checks are not waited for.                                    *)
CachedEarly(q) ==
  /\ At(q, "unit")
  /\ req' = [req EXCEPT ![q].pc = "checks", ![q].todo = {},
                        ![q].caps.unit = Found(q, req[q].caps.metrics)]
  /\ UNCHANGED <<up, cache, flight, result>>

(* The duration series of the candidate, whichever unit it has.            *)
ProbeUnit(q) ==
  /\ At(q, "unit")
  /\ req' = [req EXCEPT ![q].pc = "checks", ![q].todo = Sources \cup Lists,
                        ![q].caps.unit = Found(q, req[q].caps.metrics)]
  /\ UNCHANGED <<up, cache, flight, result>>

(* The checks run in parallel; the lists are queries of the metrics found. *)
Check(q, x) ==
  /\ At(q, "checks") /\ x \in req[q].todo
  /\ req' = [req EXCEPT
       ![q].todo = @ \ {x},
       ![q].caps.ok =
         IF Found(q, IF x \in Lists THEN req[q].caps.metrics ELSE x) THEN @ \cup {x} ELSE @]
  /\ UNCHANGED <<up, cache, flight, result>>

Store(q) ==
  /\ At(q, "checks") /\ req[q].todo = {}
  /\ cache' = {[caps |-> req[q].caps, age |-> 0]}
  /\ result' = {req[q].caps}
  /\ req' = [req EXCEPT ![q].pc = "finish", ![q].caps = Nothing, ![q].next = 1]
  /\ UNCHANGED <<up, flight>>

Finish(q) ==
  /\ At(q, "finish")
  /\ Answered({q} \cup {r \in Requests : At(r, "wait")})
  /\ flight' = {} /\ result' = {}
  /\ UNCHANGED <<up, cache>>

-----------------------------------------------------------------------------
Proceed(q) ==
  \/ Read(q) \/ Hit(q) \/ Miss(q) \/ Lead(q) \/ Join(q)
  \/ ProbeHit(q) \/ ProbeMiss(q) \/ ProbesEnd(q) \/ ProbeUnit(q)
  \/ \E x \in Sources \cup Lists : Check(q, x)
  \/ Store(q) \/ Finish(q)

Next ==
  \/ Tick
  \/ \E x \in Things : Change(x)
  \/ \E q \in Requests :
       Start(q, "page") \/ Start(q, "view") \/ Leave(q) \/ TimeOut(q) \/ Proceed(q)

Spec == Init /\ [][Next]_vars

(* Time passes, goroutines are scheduled, and probes have timeouts.        *)
FairSpec == Spec /\ WF_vars(Tick) /\ \A q \in Requests : WF_vars(Proceed(q))

-----------------------------------------------------------------------------
(* Properties.                                                             *)

(* Every variable keeps to the values the code can give it.                *)
TypeOK ==
  /\ up \subseteq Things
  /\ cache \subseteq Entry
  /\ flight \subseteq Requests
  /\ result \subseteq Caps
  /\ req \in [Requests ->
       [pc : {"done", "read", "judge", "join", "wait", "metrics", "unit", "checks", "finish"},
        kind : {"page", "view"}, over : BOOLEAN, flown : BOOLEAN, held : SUBSET Entry,
        next : 1 .. Last + 1, caps : Caps, todo : SUBSET (Sources \cup Lists),
        calm : BOOLEAN]]

(* However many requests of either kind find the result expired, at most   *)
(* one runs the fleet-wide probes, and none does while the cached result   *)
(* is fresh.                                                               *)
OneDetection ==
  /\ \A q, r \in Requests : Detecting(q) /\ Detecting(r) => q = r
  /\ \A q \in Requests : Detecting(q) => \A e \in cache : ~Fresh(e)

(* What a detection should come to when the world is W.                    *)
IsIdeal(c, W) ==
  /\ IF W \cap Candidates = {}
     THEN c.metrics = 0 /\ ~c.unit /\ c.ok = W \cap Sources
     ELSE /\ c.metrics \in W /\ \A x \in W \cap Candidates : c.metrics <= x
          /\ c.unit /\ c.ok = (W \cap Sources) \cup Lists

(* The step that caches the result of q.                                   *)
Caches(q) == Detecting(q) /\ At(q, "finish")'

(* A detection that nothing disturbed caches all there is and nothing      *)
(* else: the first candidate in order, its unit, every source that is up,  *)
(* whoever waits, leaves or looks the result up meanwhile.                 *)
UndisturbedIsRight ==
  [][\A q \in Requests : Caches(q) /\ req[q].calm /\ ~req[q].over
       => \A c \in result' : IsIdeal(c, up)]_vars

(* What q is answered with in this step: a hit or the result of a flight.  *)
Answer(q) ==
  IF At(q, "done") \/ ~At(q, "done")' THEN {}
  ELSE IF At(q, "judge") THEN {e.caps : e \in req[q].held} ELSE result

(* The endpoints recover by themselves: once span metrics are there to     *)
(* stay, and from some moment on no context ends before its detection,     *)
(* every answer names them - results without them, and results that were   *)
(* cut short, do not stay in the cache.                                    *)
Recovers ==
  \A x \in Candidates :
    <>[](x \in up /\ \A q \in Requests : ~req[q].over)
      => <>[][\A q \in Requests : \A c \in Answer(q) : c.metrics # 0]_vars

(* "Detach from its cancellation so slow health checks aren't cut short"   *)
(* (capabilities.go:115-116): while the world stands still and no          *)
(* detection takes longer than its thirty seconds, what is cached for all  *)
(* endpoints is right, although clients go away.                           *)
NeverCutShort ==
  [][\A q \in Requests : Caches(q) /\ req[q].calm /\ (req[q].kind = "page" => ~req[q].over)
       => \A c \in result' : IsIdeal(c, up)]_vars

=============================================================================
