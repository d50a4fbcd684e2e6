--------------------------- MODULE DeployMarkers ---------------------------
(***************************************************************************)
(* The nais deploy sync of pkg/plugin/naissync.go: every plugin process    *)
(* runs a poller that mirrors deployments of the nais Console API into     *)
(* deploy markers (Grafana annotations) and, once per PruneEvery, sweeps   *)
(* the markers that have outlived Retention, keeping the newest one per    *)
(* namespace / service / environment.                                      *)
(*                                                                         *)
(* The pollers share nothing but the annotations store.  Every API call is *)
(* a step of its own, so the calls of several pollers interleave.  Pollers *)
(* stand for goroutines, not for replicas: App.Dispose does not stop the   *)
(* goroutine, so one replica may run several of them after its settings    *)
(* have been saved.                                                        *)
(*                                                                         *)
(* Definitions marked "Slip" are wrong variants of the one that follows    *)
(* them.  The specification uses none; each breaks a property below.       *)
(***************************************************************************)
EXTENDS Annotations

CONSTANTS
  Pollers,        \* goroutines started by startNaisDeploySync
  Keys,           \* namespace/service/environment identities
  NoKey,          \* a marker without a service: or namespace: tag
  Deployments,    \* SUCCESS deployments with a commit and an app resource
  DeployKey,      \* [Deployments -> Keys]
  DeployTime,     \* [Deployments -> Nat], CreatedAt
  Skew,           \* lead of the clock CreatedAt is read from
  NoDep,          \* deploy-id of a marker no poller wrote
  ForeignMarkers, \* markers other producers may post (time, key, triage)
  SyncPageSize,   \* naisSyncPageSize
  Limit,          \* deployPruneLimit
  MaxPages,       \* maxDeployPrunePages
  Retention,      \* deployRetention
  PruneEvery,     \* deployPruneEvery
  PruneRetry,     \* deployPruneRetry
  PruneJitter,    \* deployPruneJitter
  InitialStores,  \* deploy rows that may be in the store at the start
  FirstId,        \* the id the store gives out next
  Faults,         \* TRUE when API calls may fail and pollers may restart
  StartTime,      \* first value of the clock
  MaxNow,         \* bound: last value of the clock
  MaxId           \* bound: last annotation id the store gives out

VARIABLES
  now,        \* wall clock
  published,  \* deployments the Console API lists so far
  store,      \* rows tagged nais-apm:deploy in Grafana's database
  written,    \* history: every such row that was ever in the store
  nextId,     \* next annotation id
  pc,         \* where each poller is in its loop
  todo,       \* deployments of this tick still to be mirrored
  current,    \* deployment between its probe and its write
  lastPrune,  \* anchor of the sweep schedule
  sweep,      \* the running sweep of each poller
  atStart     \* history: the store when that sweep began

world == <<now, published>>
rows  == <<store, written, nextId>>
vars  == <<world, rows, pc, todo, current, lastPrune, sweep, atStart>>

ASSUME ClockAssumption ==
  /\ StartTime \in Nat \ {0}
  /\ MaxNow \in Nat
  /\ Retention \in Nat
  /\ PruneEvery \in Nat
  /\ PruneRetry \in Nat
  /\ PruneJitter \in Nat \ {0}
  /\ Skew \in Nat

ASSUME PageAssumption ==
  /\ Limit \in Nat \ {0}
  /\ MaxPages \in Nat \ {0}
  /\ SyncPageSize \in Nat \ {0}
  /\ MaxId \in Nat

ASSUME DeploymentAssumption ==
  /\ DeployKey \in [Deployments -> Keys]
  /\ DeployTime \in [Deployments -> Nat \ {0}]
  /\ NoKey \notin Keys
  /\ NoDep \notin Deployments
  /\ Faults \in BOOLEAN
  /\ ForeignMarkers \subseteq
       [time : Nat \ {0}, key : Keys \cup {NoKey}, triage : BOOLEAN]

(* A row of the store.  key is what deployPruneKey makes of its tags, dep  *)
(* its deploy-id tag, triage whether it also carries nais-apm:triage.      *)
Row == [id : Nat \ {0}, time : Nat \ {0}, key : Keys \cup {NoKey},
        dep : Deployments \cup {NoDep}, triage : BOOLEAN]

ASSUME InitialStoresAssumption ==
  /\ FirstId \in Nat \ {0}
  /\ \A rs \in InitialStores :
       /\ rs \subseteq Row
       /\ \A r \in rs : r.id < FirstId
       /\ \A r, s \in rs : r.id = s.id => r = s

NoSweep == [to |-> 0, cutoff |-> 0, keep |-> {}, pend |-> {},
            page |-> 0, full |-> FALSE, oldest |-> 0]

Sweep == [to : Int, cutoff : Int, keep : SUBSET Keys, pend : SUBSET Row,
          page : Nat, full : BOOLEAN, oldest : Nat]

-----------------------------------------------------------------------------
(* Which rows a sweep may delete.                                          *)

(* prunableDeploys skips rows that carry the triage tag and rows with no   *)
(* anchorable identity (deployPruneKey's ok = false).                      *)
Eligible(r) == ~r.triage /\ r.key # NoKey

(* Slip: no id tiebreak.                                                   *)
NewerOrEqual(x, y) == x # y /\ x.time >= y.time

(* The order prunableDeploys walks a page in: time descending, id          *)
(* ascending.                                                              *)
Newer(x, y) == x.time > y.time \/ (x.time = y.time /\ x.id < y.id)

(* Slip: every page starts from nothing.                                   *)
AnchoredByPage(P, keep) == {r.key : r \in {x \in P : Eligible(x)}}

(* Keys anchored once the walk has passed every row of page P.             *)
Anchored(P, keep) == keep \cup {r.key : r \in {x \in P : Eligible(x)}}

(* Slip: the walk takes the page as it comes, unsorted.                    *)
PrunableUnsorted(P, cutoff, keep) ==
  {r \in P :
     /\ Eligible(r)
     /\ r.time < cutoff
     /\ r.key \in keep \/ \E n \in P \ {r} : Eligible(n) /\ n.key = r.key}

(* Slip: the retention window is off by one.                               *)
PrunableAtCutoff(P, cutoff, keep) ==
  {r \in P :
     /\ Eligible(r)
     /\ r.time <= cutoff
     /\ r.key \in keep \/ \E n \in P : Eligible(n) /\ n.key = r.key /\ Newer(n, r)}

(* The rows of page P older than cutoff whose key a newer row, on this     *)
(* page or on an earlier one, has anchored.                                *)
prunableDeploys(P, cutoff, keep) ==
  {r \in P :
     /\ Eligible(r)
     /\ r.time < cutoff
     /\ \/ r.key \in keep
        \/ \E n \in P : Eligible(n) /\ n.key = r.key /\ Newer(n, r)}

(* The anchor after a sweep: a failed one is retried after PruneRetry.     *)
nextPruneAnchor(t, failed) ==
  IF failed THEN t - PruneEvery + PruneRetry ELSE t

-----------------------------------------------------------------------------
Init ==
  /\ now = StartTime
  /\ published = {}
  /\ store \in InitialStores
  /\ written = store
  /\ nextId = FirstId
  /\ pc = [p \in Pollers |-> "idle"]
  /\ todo = [p \in Pollers |-> {}]
  /\ current = [p \in Pollers |-> NoDep]
  \* The stagger of startNaisDeploySync: the first sweep is due within
  \* PruneJitter of the start.
  /\ lastPrune \in [Pollers -> {StartTime - PruneEvery + j : j \in 0 .. PruneJitter - 1}]
  /\ sweep = [p \in Pollers |-> NoSweep]
  /\ atStart = [p \in Pollers |-> {}]

(* The row the store makes of a payload, under the next id.                *)
NewRow(t, key, dep, triage) ==
  [id |-> nextId, time |-> t, key |-> key, dep |-> dep, triage |-> triage]

(* POST /api/annotations stores row r.                                     *)
Post(r) ==
  /\ nextId <= MaxId
  /\ store' = store \cup {r}
  /\ written' = written \cup {r}
  /\ nextId' = nextId + 1

-----------------------------------------------------------------------------
(* The surroundings of the pollers.                                        *)

Tick ==
  /\ now < MaxNow
  /\ now' = now + 1
  /\ UNCHANGED <<published, rows, pc, todo, current, lastPrune, sweep, atStart>>

(* The Console API starts to list d as a SUCCESS: at its creation or later.*)
Publish(d) ==
  /\ d \notin published
  /\ DeployTime[d] <= now + Skew
  /\ published' = published \cup {d}
  /\ UNCHANGED <<now, rows, pc, todo, current, lastPrune, sweep, atStart>>

(* Another producer posts a row with the deploy tag: the GitHub Action, or *)
(* a person who puts the triage tag on a marker as well.                   *)
ForeignPost(m) ==
  \* bound: once each
  /\ \A r \in written : [time |-> r.time, key |-> r.key, triage |-> r.triage] # m
  /\ Post(NewRow(m.time, m.key, NoDep, m.triage))
  /\ UNCHANGED <<world, pc, todo, current, lastPrune, sweep, atStart>>

-----------------------------------------------------------------------------
(* One tick of a poller: mirror the newest deployments, then sweep.        *)

(* fetchNaisDeployments returns the newest SyncPageSize deployments.       *)
Newest(D) ==
  {d \in D : Cardinality({e \in D : DeployTime[e] > DeployTime[d]}) < SyncPageSize}

(* A failed fetch ends the mirroring of this tick, not the tick.           *)
FetchDeployments(p) ==
  /\ pc[p] = "idle"
  /\ \E D \in {Newest(published)} \cup (IF Faults THEN {{}} ELSE {}) :
       todo' = [todo EXCEPT ![p] = D]
  /\ pc' = [pc EXCEPT ![p] = "sync"]
  /\ UNCHANGED <<world, rows, current, lastPrune, sweep, atStart>>

(* Slip: the window of the probe ends before now.                          *)
ProbedBefore(d) == \E r \in Window(store, 1, now - 1) : r.dep = d

(* Slip: the probe asks for the service's tags, not for the deploy-id.     *)
ProbedByService(d) == \E r \in Window(store, 1, now) : r.key = DeployKey[d]

(* What the idempotency probe of syncOneDeployment sees: a row with this   *)
(* deploy-id that is not dated after now.                                  *)
Probed(d) == \E r \in Window(store, 1, now) : r.dep = d

(* The probe finds a row, or the call itself fails: d is left alone.       *)
SkipDeployment(p, d) ==
  /\ pc[p] = "sync"
  /\ d \in todo[p]
  /\ Probed(d) \/ Faults
  /\ todo' = [todo EXCEPT ![p] = @ \ {d}]
  /\ UNCHANGED <<world, rows, pc, current, lastPrune, sweep, atStart>>

(* Slip: the write starts before it knows what to write.                   *)
ProbeAbsentUnset(p, d) ==
  /\ pc[p] = "sync"
  /\ d \in todo[p]
  /\ ~Probed(d) \/ Faults
  /\ todo' = [todo EXCEPT ![p] = @ \ {d}]
  /\ pc' = [pc EXCEPT ![p] = "write"]
  /\ UNCHANGED <<world, rows, current, lastPrune, sweep, atStart>>

(* The probe answers with no row.  A status other than 200, a body that    *)
(* breaks off and one that does not parse fall through to the write too.   *)
ProbeAbsent(p, d) ==
  /\ pc[p] = "sync"
  /\ d \in todo[p]
  /\ ~Probed(d) \/ Faults
  /\ todo' = [todo EXCEPT ![p] = @ \ {d}]
  /\ current' = [current EXCEPT ![p] = d]
  /\ pc' = [pc EXCEPT ![p] = "write"]
  /\ UNCHANGED <<world, rows, lastPrune, sweep, atStart>>

(* The write: stored (the reply may be lost, the caller only logs it) or,  *)
(* with faults, not stored.                                                *)
WriteMarker(p) ==
  /\ pc[p] = "write"
  /\ \/ Post(NewRow(DeployTime[current[p]], DeployKey[current[p]], current[p], FALSE))
     \/ Faults /\ UNCHANGED rows
  /\ current' = [current EXCEPT ![p] = NoDep]
  /\ pc' = [pc EXCEPT ![p] = "sync"]
  /\ UNCHANGED <<world, todo, lastPrune, sweep, atStart>>

(* No sweep is due.                                                        *)
Rest(p) ==
  /\ pc[p] = "sync"
  /\ todo[p] = {}
  /\ now - lastPrune[p] < PruneEvery
  /\ pc' = [pc EXCEPT ![p] = "idle"]
  /\ UNCHANGED <<world, rows, todo, current, lastPrune, sweep, atStart>>

(* The first page reaches up to now and nothing is anchored yet.           *)
NewSweep == [to |-> now, cutoff |-> now - Retention, keep |-> {}, pend |-> {},
             page |-> 0, full |-> FALSE, oldest |-> 0]

BeginSweep(p) ==
  /\ pc[p] = "sync"
  /\ todo[p] = {}
  /\ now - lastPrune[p] >= PruneEvery
  /\ pc' = [pc EXCEPT ![p] = "list"]
  /\ sweep' = [sweep EXCEPT ![p] = NewSweep]
  /\ atStart' = [atStart EXCEPT ![p] = store]
  /\ UNCHANGED <<world, rows, todo, current, lastPrune>>

-----------------------------------------------------------------------------
(* pruneDeployAnnotations.                                                 *)

EndSweep(p, failed) ==
  /\ lastPrune' = [lastPrune EXCEPT ![p] = nextPruneAnchor(now, failed)]
  /\ pc' = [pc EXCEPT ![p] = "idle"]
  /\ sweep' = [sweep EXCEPT ![p] = NoSweep]
  /\ atStart' = [atStart EXCEPT ![p] = {}]
  /\ UNCHANGED <<world, rows, todo, current>>

(* The timestamp of the last row of a page.                                *)
IsOldest(t, P) ==
  IF P = {} THEN t = 0 ELSE (\E r \in P : r.time = t) /\ (\A r \in P : t <= r.time)

(* Sweep s once it has walked page P whose last row is of time t.          *)
Listed(s, P, t) ==
  [s EXCEPT !.pend = prunableDeploys(P, s.cutoff, s.keep),
            !.keep = Anchored(P, s.keep),
            !.full = Cardinality(P) = Limit,
            !.oldest = t]

ListPage(p) ==
  /\ pc[p] = "list"
  /\ \E P \in SUBSET store, t \in {0} \cup {r.time : r \in store} :
       /\ IsPage(P, store, 1, sweep[p].to, Limit)
       /\ IsOldest(t, P)
       /\ sweep' = [sweep EXCEPT ![p] = Listed(@, P, t)]
  /\ pc' = [pc EXCEPT ![p] = "delete"]
  /\ UNCHANGED <<world, rows, todo, current, lastPrune, atStart>>

ListFails(p) ==
  /\ Faults
  /\ pc[p] = "list"
  /\ EndSweep(p, TRUE)

(* An id that is gone already counts as deleted.                           *)
deleteAnnotation(x) ==
  \/ store' = {r \in store : r.id # x.id}
  \/ Faults /\ store' = store

(* The sweep goes on whether the deletion succeeds or not.                 *)
DeleteNext(p) ==
  /\ pc[p] = "delete"
  /\ \E x \in sweep[p].pend :
       /\ \A y \in sweep[p].pend \ {x} : Newer(x, y)
       /\ deleteAnnotation(x)
       /\ sweep' = [sweep EXCEPT ![p].pend = @ \ {x}]
  /\ UNCHANGED <<world, written, nextId, pc, todo, current, lastPrune, atStart>>

(* The page was full, so there may be older rows.                          *)
MorePages(p) ==
  /\ sweep[p].full
  /\ 1 < sweep[p].oldest /\ sweep[p].oldest <= sweep[p].to
  /\ sweep[p].page + 1 < MaxPages

(* Slip: the next page starts at the oldest row, not below it.             *)
NextPageInclusive(p) ==
  /\ pc[p] = "delete"
  /\ sweep[p].pend = {}
  /\ MorePages(p)
  /\ sweep' = [sweep EXCEPT ![p].to = sweep[p].oldest, ![p].page = @ + 1]
  /\ pc' = [pc EXCEPT ![p] = "list"]
  /\ UNCHANGED <<world, rows, todo, current, lastPrune, atStart>>

NextPage(p) ==
  /\ pc[p] = "delete"
  /\ sweep[p].pend = {}
  /\ MorePages(p)
  /\ sweep' = [sweep EXCEPT ![p].to = sweep[p].oldest - 1, ![p].page = @ + 1]
  /\ pc' = [pc EXCEPT ![p] = "list"]
  /\ UNCHANGED <<world, rows, todo, current, lastPrune, atStart>>

SweepDone(p) ==
  /\ pc[p] = "delete"
  /\ sweep[p].pend = {}
  /\ ~MorePages(p)
  /\ EndSweep(p, FALSE)

(* The process dies at any point and its successor starts a new poller.    *)
Restart(p) ==
  /\ Faults
  /\ pc[p] # "idle"
  /\ pc' = [pc EXCEPT ![p] = "idle"]
  /\ todo' = [todo EXCEPT ![p] = {}]
  /\ current' = [current EXCEPT ![p] = NoDep]
  /\ \E j \in 0 .. PruneJitter - 1 :
       lastPrune' = [lastPrune EXCEPT ![p] = now - PruneEvery + j]
  /\ sweep' = [sweep EXCEPT ![p] = NoSweep]
  /\ atStart' = [atStart EXCEPT ![p] = {}]
  /\ UNCHANGED <<world, rows>>

-----------------------------------------------------------------------------
Poller(p) ==
  \/ FetchDeployments(p)
  \/ \E d \in Deployments : SkipDeployment(p, d) \/ ProbeAbsent(p, d)
  \/ WriteMarker(p)
  \/ Rest(p) \/ BeginSweep(p)
  \/ ListPage(p) \/ ListFails(p) \/ DeleteNext(p) \/ NextPage(p) \/ SweepDone(p)

Next ==
  \/ Tick
  \/ \E d \in Deployments : Publish(d)
  \/ \E m \in ForeignMarkers : ForeignPost(m)
  \/ \E p \in Pollers : Poller(p) \/ Restart(p)

Spec == Init /\ [][Next]_vars

(* The clock advances and every poller goes on ticking, for as long as the *)
(* process lives.                                                          *)
FairSpec == Spec /\ WF_vars(Tick) /\ \A p \in Pollers : WF_vars(Poller(p))

-----------------------------------------------------------------------------
(* Properties.                                                             *)

(* Every variable keeps to the values the code can give it.                *)
TypeOK ==
  /\ now \in Nat \ {0}
  /\ published \subseteq Deployments
  /\ store \subseteq Row
  /\ written \subseteq Row
  /\ nextId \in Nat \ {0}
  /\ pc \in [Pollers -> {"idle", "sync", "write", "list", "delete"}]
  /\ todo \in [Pollers -> SUBSET Deployments]
  /\ current \in [Pollers -> Deployments \cup {NoDep}]
  /\ \A p \in Pollers : pc[p] = "write" => current[p] \in Deployments
  /\ lastPrune \in [Pollers -> Int]
  /\ sweep \in [Pollers -> Sweep]
  /\ atStart \in [Pollers -> SUBSET Row]

(* A row with the identity of x that is newer than x.                      *)
Supersedes(y, x) == Eligible(y) /\ y.key = x.key /\ Newer(y, x)

(* Whatever sweeps, writes, failures and restarts come together, a service *)
(* never loses its newest deploy marker: of every marker that was ever in  *)
(* the store, the marker itself or a newer one of its namespace / service  *)
(* / environment still is (regression detection needs that one; the id     *)
(* tiebreak of prunableDeploys and the strict step between pages of        *)
(* pruneDeployAnnotations are there for it).                               *)
AnchorKept ==
  \A x \in written :
    Eligible(x) => \E y \in store : y = x \/ Supersedes(y, x)

(* No step removes a row other than a deploy marker that is past the       *)
(* retention window and that a newer marker, still in the store after the  *)
(* step, supersedes: the triage log and markers without an identity are    *)
(* never touched, although the sweep decides on a page long before it      *)
(* deletes and other replicas delete in between.                           *)
OnlySupersededRemoved ==
  [][\A x \in store \ store' :
       /\ Eligible(x)
       /\ x.time < now - Retention
       /\ \E y \in store' : Supersedes(y, x)]_vars

(* The sweep of p ends here without an error.                              *)
SweepEnds(p) == pc[p] = "delete" /\ pc'[p] = "idle"

(* The markers sweep p had to delete when it began.                        *)
Backlog(p) ==
  {x \in atStart[p] :
     /\ Eligible(x)
     /\ x.time < sweep[p].cutoff
     /\ \E y \in atStart[p] : Supersedes(y, x)}

(* When no call fails and nothing is posted meanwhile, a sweep that does   *)
(* not run out of pages leaves none of the superseded markers it started   *)
(* from behind, in however many pages they came and whatever other sweeps  *)
(* deleted under it - unless two markers share a timestamp, which the      *)
(* strict step between pages may skip (naissync.go:410-415).               *)
SweepComplete ==
  [][\A p \in Pollers :
       (/\ SweepEnds(p)
        /\ ~(sweep[p].full /\ sweep[p].page + 1 = MaxPages)
        /\ \A x, y \in atStart[p] : x.time = y.time => x = y)
       => Backlog(p) \cap store' = {}]_vars

(* While probes answer and clocks agree, replicas that race leave at most  *)
(* one marker of a deployment each: a poller that is about to write counts *)
(* as one.                                                                 *)
DuplicatesBounded ==
  \A d \in Deployments :
    Cardinality({r \in store : r.dep = d}) + Cardinality({p \in Pollers : current[p] = d})
      <= Cardinality(Pollers)

(* While no call fails, every deployment the Console API lists gets its    *)
(* marker, whatever other deployments and pollers do.                      *)
EveryDeploymentMarked ==
  \A d \in Deployments :
    d \in published ~> \E r \in written : r.dep = d

(* What the comment at naissync.go:51-52 says: a backlog larger than one   *)
(* sweep drains over the following ones, so a sweep that ran out of pages  *)
(* has deleted some of it.                                                 *)
BacklogDrains ==
  [][\A p \in Pollers :
       SweepEnds(p) /\ Backlog(p) # {} => ~(Backlog(p) \subseteq store')]_vars

=============================================================================
