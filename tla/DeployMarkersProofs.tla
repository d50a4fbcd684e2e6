----------------------- MODULE DeployMarkersProofs -----------------------
(***************************************************************************)
(* Proofs about DeployMarkers, for every value of its constants.           *)
(***************************************************************************)
EXTENDS DeployMarkers, FiniteSetTheorems, TLAPS

(* Rows keep their identity: what is stored was written, ids are given out *)
(* once and in order.                                                      *)
IdsOK ==
  /\ store \subseteq written
  /\ \A r \in written : r.id < nextId
  /\ \A r, s \in written : r.id = s.id => r = s

(* A key the sweep of p has anchored belongs to a marker above what is     *)
(* left to list: above the window, or on the page at hand.                 *)
KeepOK(p) ==
  \A k \in sweep[p].keep : \E y \in written :
    /\ Eligible(y)
    /\ y.key = k
    /\ \/ y.time > sweep[p].to
       \/ pc[p] = "delete" /\ y.time >= sweep[p].oldest

(* A marker the sweep of p is going to delete is past the retention window *)
(* and was superseded by a marker that was ever written.                   *)
PendOK(p) ==
  \A x \in sweep[p].pend :
    /\ Eligible(x)
    /\ x.time < sweep[p].cutoff
    /\ x \in written
    /\ \E y \in written : Supersedes(y, x)

WindowOK(p) ==
  /\ pc[p] \in {"list", "delete"} =>
       sweep[p].to >= 1 /\ sweep[p].cutoff <= now - Retention
  /\ pc[p] # "delete" => sweep[p].pend = {}

SweepOK == \A p \in Pollers : KeepOK(p) /\ PendOK(p) /\ WindowOK(p)

(* The inductive invariant.  AnchorKept alone is not inductive: a delete   *)
(* was decided on a page listed long before, so PendOK must carry the      *)
(* reason for it to the step that executes it, and KeepOK the reason from  *)
(* one page to the next.                                                   *)
IInv == TypeOK /\ IdsOK /\ SweepOK /\ AnchorKept

-----------------------------------------------------------------------------
(* Newer is a strict order on rows.                                        *)
LEMMA NewerOrder ==
  ASSUME NEW x \in Row, NEW y \in Row, NEW z \in Row
  PROVE  /\ ~Newer(x, x)
         /\ Newer(x, y) /\ Newer(y, z) => Newer(x, z)
BY DEF Newer, Row

(* The rows of a page lie in its window.                                   *)
LEMMA PageInWindow ==
  ASSUME NEW S, NEW to \in Int, to >= 1, NEW limit, NEW P, IsPage(P, S, 1, to, limit)
  PROVE  P \subseteq S /\ \A r \in P : r.time <= to
BY DEF IsPage, Window

(* Every row a page offers for deletion is a row of the page past the      *)
(* cutoff, and a row of its identity is on the page and newer or its key   *)
(* was anchored before.                                                    *)
LEMMA PrunableRows ==
  ASSUME NEW P, NEW cutoff, NEW keep,
         NEW x \in prunableDeploys(P, cutoff, keep)
  PROVE  /\ x \in P /\ Eligible(x) /\ x.time < cutoff
         /\ x.key \in keep \/ \E y \in P : Supersedes(y, x)
BY DEF prunableDeploys, Supersedes

-----------------------------------------------------------------------------
(* Type correctness.                                                       *)

LEMMA TypeInit == Init => TypeOK
<1> SUFFICES ASSUME Init PROVE TypeOK
  OBVIOUS
<1>1. store \subseteq Row /\ written \subseteq Row /\ nextId \in Nat \ {0}
  BY InitialStoresAssumption DEF Init
<1>2. NoSweep \in Sweep
  BY DEF NoSweep, Sweep
<1>3. lastPrune \in [Pollers -> Int]
  BY ClockAssumption DEF Init
<1> QED
  BY <1>1, <1>2, <1>3, ClockAssumption DEF Init, TypeOK

(* Storing a row keeps the store typed.                                    *)
LEMMA PostType ==
  ASSUME NEW r \in Row, Post(r), TypeOK
  PROVE  store' \subseteq Row /\ written' \subseteq Row /\ nextId' \in Nat \ {0}
BY DEF Post, TypeOK

LEMMA EndSweepType ==
  ASSUME TypeOK, NEW p \in Pollers, NEW failed \in BOOLEAN, EndSweep(p, failed)
  PROVE  TypeOK'
<1>1. NoSweep \in Sweep
  BY DEF NoSweep, Sweep
<1>2. nextPruneAnchor(now, failed) \in Int
  BY ClockAssumption DEF nextPruneAnchor, TypeOK
<1> QED
  BY <1>1, <1>2 DEF EndSweep, TypeOK, world, rows

LEMMA TypeStep == TypeOK /\ [Next]_vars => TypeOK'
<1> SUFFICES ASSUME TypeOK, [Next]_vars PROVE TypeOK'
  OBVIOUS
<1>1. CASE Tick
  BY <1>1 DEF Tick, TypeOK, rows
<1>2. CASE \E d \in Deployments : Publish(d)
  BY <1>2 DEF Publish, TypeOK, rows
<1>3. ASSUME NEW m \in ForeignMarkers, ForeignPost(m)
      PROVE  TypeOK'
  <2>1. NewRow(m.time, m.key, NoDep, m.triage) \in Row
    <3>1. m.time \in Nat \ {0} /\ m.key \in Keys \cup {NoKey} /\ m.triage \in BOOLEAN
      BY DeploymentAssumption
    <3> QED
      BY <3>1 DEF NewRow, Row, TypeOK
  <2>2. store' \subseteq Row /\ written' \subseteq Row /\ nextId' \in Nat \ {0}
    BY <1>3, <2>1, PostType DEF ForeignPost
  <2> QED
    BY <1>3, <2>2 DEF ForeignPost, TypeOK, world
<1>4. ASSUME NEW p \in Pollers, FetchDeployments(p)
      PROVE  TypeOK'
  <2>1. Newest(published) \subseteq Deployments
    BY DEF Newest, TypeOK
  <2> QED
    BY <1>4, <2>1 DEF FetchDeployments, TypeOK, world, rows
<1>5. ASSUME NEW p \in Pollers, NEW d \in Deployments,
             SkipDeployment(p, d) \/ ProbeAbsent(p, d)
      PROVE  TypeOK'
  BY <1>5 DEF SkipDeployment, ProbeAbsent, TypeOK, world, rows
<1>6. ASSUME NEW p \in Pollers, WriteMarker(p)
      PROVE  TypeOK'
  <2>1. current[p] \in Deployments
    BY <1>6 DEF WriteMarker, TypeOK
  <2>2. /\ DeployTime[current[p]] \in Nat \ {0}
        /\ DeployKey[current[p]] \in Keys
    BY <2>1, DeploymentAssumption
  <2>3. NewRow(DeployTime[current[p]], DeployKey[current[p]], current[p], FALSE) \in Row
    BY <2>1, <2>2 DEF NewRow, Row, TypeOK
  <2>4. store' \subseteq Row /\ written' \subseteq Row /\ nextId' \in Nat \ {0}
    BY <1>6, <2>3, PostType DEF WriteMarker, rows, TypeOK
  <2> QED
    BY <1>6, <2>4 DEF WriteMarker, TypeOK, world
<1>7. ASSUME NEW p \in Pollers, Rest(p)
      PROVE  TypeOK'
  BY <1>7 DEF Rest, TypeOK, world, rows
<1>8. ASSUME NEW p \in Pollers, BeginSweep(p)
      PROVE  TypeOK'
  <2>1. NewSweep \in Sweep
    BY ClockAssumption DEF NewSweep, Sweep, TypeOK
  <2> QED
    BY <1>8, <2>1 DEF BeginSweep, TypeOK, world, rows
<1>9. ASSUME NEW p \in Pollers, ListPage(p)
      PROVE  TypeOK'
  <2>1. PICK P \in SUBSET store, t \in {0} \cup {r.time : r \in store} :
          sweep' = [sweep EXCEPT ![p] = Listed(@, P, t)]
    BY <1>9 DEF ListPage
  <2>2. t \in Nat /\ P \subseteq Row
    BY DEF TypeOK, Row
  <2>3. prunableDeploys(P, sweep[p].cutoff, sweep[p].keep) \subseteq Row
    BY <2>2 DEF prunableDeploys
  <2>4. Anchored(P, sweep[p].keep) \subseteq Keys
    BY <2>2 DEF Anchored, Eligible, TypeOK, Sweep, Row
  <2>5. Listed(sweep[p], P, t) \in Sweep
    <3>1. (Cardinality(P) = Limit) \in BOOLEAN
      OBVIOUS
    <3>2. sweep[p] \in Sweep
      BY DEF TypeOK
    <3> QED
      BY <2>2, <2>3, <2>4, <3>1, <3>2 DEF Listed, Sweep
  <2>6. sweep' \in [Pollers -> Sweep]
    BY <2>1, <2>5 DEF TypeOK
  <2> QED
    BY <1>9, <2>6 DEF ListPage, TypeOK, world, rows
<1>10. ASSUME NEW p \in Pollers, ListFails(p) \/ SweepDone(p)
       PROVE  TypeOK'
  BY <1>10, EndSweepType DEF ListFails, SweepDone
<1>11. ASSUME NEW p \in Pollers, DeleteNext(p)
       PROVE  TypeOK'
  <2>1. store' \subseteq Row
    BY <1>11 DEF DeleteNext, deleteAnnotation, TypeOK
  <2>2. sweep' \in [Pollers -> Sweep]
    BY <1>11 DEF DeleteNext, deleteAnnotation, TypeOK, Sweep
  <2> QED
    BY <1>11, <2>1, <2>2 DEF DeleteNext, deleteAnnotation, TypeOK, world
<1>12. ASSUME NEW p \in Pollers, NextPage(p)
       PROVE  TypeOK'
  <2>1. sweep' \in [Pollers -> Sweep]
    BY <1>12 DEF NextPage, TypeOK, Sweep
  <2> QED
    BY <1>12, <2>1 DEF NextPage, TypeOK, world, rows
<1>13. ASSUME NEW p \in Pollers, Restart(p)
       PROVE  TypeOK'
  <2>1. NoSweep \in Sweep
    BY DEF NoSweep, Sweep
  <2>2. lastPrune' \in [Pollers -> Int]
    BY <1>13, ClockAssumption DEF Restart, TypeOK
  <2> QED
    BY <1>13, <2>1, <2>2 DEF Restart, TypeOK, world, rows
<1>14. CASE UNCHANGED vars
  BY <1>14 DEF vars, world, rows, TypeOK
<1> QED
  BY <1>1, <1>2, <1>3, <1>4, <1>5, <1>6, <1>7, <1>8, <1>9, <1>10, <1>11,
     <1>12, <1>13, <1>14 DEF Next, Poller

(* In every behaviour, whatever the pages, the clock and the failures, the *)
(* variables keep to their types.                                          *)
THEOREM TypeCorrect == Spec => []TypeOK
BY TypeInit, TypeStep, PTL DEF Spec

-----------------------------------------------------------------------------
(* The inductive invariant.                                                *)

LEMMA InvInit == Init => IInv
<1> SUFFICES ASSUME Init PROVE IInv
  OBVIOUS
<1>1. TypeOK
  BY TypeInit
<1>2. IdsOK
  BY InitialStoresAssumption DEF Init, IdsOK
<1>3. SweepOK
  BY DEF Init, SweepOK, KeepOK, PendOK, WindowOK, NoSweep
<1>4. AnchorKept
  BY DEF Init, AnchorKept
<1> QED
  BY <1>1, <1>2, <1>3, <1>4 DEF IInv

(* What a sweep relies on outlives every step that leaves the sweep alone: *)
(* markers stay written and the clock does not go back.                    *)
LEMMA SweepFrame ==
  ASSUME TypeOK, SweepOK, NEW q \in Pollers,
         written \subseteq written', sweep'[q] = sweep[q],
         now' \in Nat, now' >= now,
         \/ pc'[q] = pc[q]
         \/ pc[q] \notin {"list", "delete"} /\ pc'[q] \notin {"list", "delete"}
  PROVE  KeepOK(q)' /\ PendOK(q)' /\ WindowOK(q)'
<1>1. KeepOK(q) /\ PendOK(q) /\ WindowOK(q)
  BY DEF SweepOK
<1>2. KeepOK(q)'
  <2> SUFFICES ASSUME NEW k \in sweep[q].keep
               PROVE  \E y \in written' :
                        /\ Eligible(y)
                        /\ y.key = k
                        /\ \/ y.time > sweep[q].to
                           \/ pc'[q] = "delete" /\ y.time >= sweep[q].oldest
    BY DEF KeepOK
  <2> QED
    BY <1>1 DEF KeepOK
<1>3. PendOK(q)'
  BY <1>1 DEF PendOK
<1>4. WindowOK(q)'
  <2>1. sweep[q].cutoff \in Int /\ now \in Nat
    BY DEF TypeOK, Sweep
  <2> QED
    BY <1>1, <2>1, ClockAssumption DEF WindowOK
<1> QED
  BY <1>2, <1>3, <1>4

(* A poller without a sweep relies on nothing.                             *)
LEMMA NoSweepOK ==
  ASSUME NEW p \in Pollers, sweep'[p] = NoSweep, pc'[p] \notin {"list", "delete"}
  PROVE  KeepOK(p)' /\ PendOK(p)' /\ WindowOK(p)'
BY DEF KeepOK, PendOK, WindowOK, NoSweep

(* A new row has an id of its own, and it is the anchor of itself.         *)
LEMMA PostKeeps ==
  ASSUME TypeOK, IdsOK, AnchorKept, NEW r \in Row, r.id = nextId, Post(r)
  PROVE  IdsOK' /\ AnchorKept' /\ written \subseteq written'
<1>1. IdsOK'
  <2>1. \A x \in written : x.id \in Nat /\ x.id < nextId
    BY DEF IdsOK, TypeOK, Row
  <2> QED
    BY <2>1 DEF IdsOK, Post, TypeOK
<1>2. AnchorKept'
  BY DEF AnchorKept, Post
<1> QED
  BY <1>1, <1>2 DEF Post

(* A step that leaves the rows alone keeps what is said of them.           *)
LEMMA RowsFrame ==
  ASSUME IdsOK, AnchorKept, UNCHANGED rows
  PROVE  IdsOK' /\ AnchorKept' /\ written \subseteq written'
BY DEF rows, IdsOK, AnchorKept

(* The reason for a delete is still good when the delete happens: the      *)
(* marker that superseded x when its page was listed may itself be gone by *)
(* now, but then a newer one was left in its place.                        *)
LEMMA PendSuperseded ==
  ASSUME TypeOK, IdsOK, AnchorKept, NEW p \in Pollers, PendOK(p),
         NEW x \in sweep[p].pend
  PROVE  \E y \in store : y # x /\ Supersedes(y, x)
<1>1. PICK y \in written : Supersedes(y, x)
  BY DEF PendOK
<1>2. PICK z \in store : z = y \/ Supersedes(z, y)
  BY <1>1 DEF AnchorKept, Supersedes
<1>3. x \in Row /\ y \in Row /\ z \in Row
  BY DEF PendOK, TypeOK
<1>4. Newer(z, x)
  BY <1>1, <1>2, <1>3, NewerOrder DEF Supersedes
<1>5. z # x
  BY <1>3, <1>4, NewerOrder
<1>6. Supersedes(z, x)
  BY <1>1, <1>2, <1>4 DEF Supersedes
<1> QED
  BY <1>5, <1>6

(* What a deleted marker anchored, the marker that superseded it anchors.  *)
LEMMA DeleteKeepsAnchor ==
  ASSUME TypeOK, IdsOK, AnchorKept, NEW p \in Pollers, PendOK(p),
         NEW x \in sweep[p].pend, store' = {r \in store : r.id # x.id},
         UNCHANGED written
  PROVE  AnchorKept'
<1> SUFFICES ASSUME NEW w \in written, Eligible(w)
             PROVE  \E y \in store' : y = w \/ Supersedes(y, w)
  BY DEF AnchorKept
<1>1. PICK y \in store : y = w \/ Supersedes(y, w)
  BY DEF AnchorKept
<1>2. CASE y # x
  BY <1>1, <1>2 DEF IdsOK, PendOK
<1>3. CASE y = x
  <2>1. PICK z \in store : z # x /\ Supersedes(z, x)
    BY PendSuperseded
  <2>2. w \in Row /\ x \in Row /\ z \in Row
    BY DEF PendOK, TypeOK
  <2>3. Supersedes(z, w)
    BY <1>1, <1>3, <2>1, <2>2, NewerOrder DEF Supersedes
  <2>4. z \in store'
    BY <2>1 DEF IdsOK, PendOK
  <2> QED
    BY <2>3, <2>4
<1> QED
  BY <1>2, <1>3

(* Listing a page: what it offers for deletion is superseded by a row on   *)
(* it or above its window, and what it anchors is on it or was anchored.   *)
LEMMA ListKeeps ==
  ASSUME TypeOK, IdsOK, SweepOK, NEW p \in Pollers, ListPage(p)
  PROVE  KeepOK(p)' /\ PendOK(p)' /\ WindowOK(p)'
<1>1. PICK P \in SUBSET store, t \in {0} \cup {r.time : r \in store} :
        /\ IsPage(P, store, 1, sweep[p].to, Limit)
        /\ IsOldest(t, P)
        /\ sweep' = [sweep EXCEPT ![p] = Listed(@, P, t)]
  BY DEF ListPage
<1>2. /\ sweep[p] \in Sweep
      /\ sweep'[p] = Listed(sweep[p], P, t)
      /\ pc[p] = "list" /\ pc'[p] = "delete"
      /\ UNCHANGED <<now, written>>
  BY <1>1 DEF ListPage, TypeOK, world, rows
<1>3. /\ sweep'[p].keep = Anchored(P, sweep[p].keep)
      /\ sweep'[p].pend = prunableDeploys(P, sweep[p].cutoff, sweep[p].keep)
      /\ sweep'[p].to = sweep[p].to
      /\ sweep'[p].cutoff = sweep[p].cutoff
      /\ sweep'[p].oldest = t
  BY <1>2 DEF Listed, Sweep
<1>4. KeepOK(p) /\ WindowOK(p)
  BY DEF SweepOK
<1>5. sweep[p].to >= 1 /\ sweep[p].to \in Int /\ sweep[p].cutoff <= now - Retention
  BY <1>2, <1>4 DEF WindowOK, Sweep
<1>6. P \subseteq written /\ P \subseteq Row
  BY DEF IdsOK, TypeOK
<1>7. \A k \in sweep[p].keep : \E y \in written :
        Eligible(y) /\ y.key = k /\ y.time > sweep[p].to
  BY <1>2, <1>4 DEF KeepOK
<1>8. KeepOK(p)'
  <2> SUFFICES ASSUME NEW k \in Anchored(P, sweep[p].keep)
               PROVE  \E y \in written :
                        Eligible(y) /\ y.key = k /\ (y.time > sweep[p].to \/ y.time >= t)
    BY <1>2, <1>3 DEF KeepOK
  <2>1. CASE k \in sweep[p].keep
    BY <1>7, <2>1
  <2>2. ASSUME NEW y \in P, Eligible(y), y.key = k
        PROVE  y.time >= t /\ y \in written
    BY <1>1, <1>6 DEF IsOldest, Row
  <2> QED
    BY <2>1, <2>2 DEF Anchored
<1>9. PendOK(p)'
  <2> SUFFICES ASSUME NEW x \in prunableDeploys(P, sweep[p].cutoff, sweep[p].keep)
               PROVE  /\ Eligible(x) /\ x.time < sweep[p].cutoff /\ x \in written
                      /\ \E y \in written : Supersedes(y, x)
    BY <1>2, <1>3 DEF PendOK
  <2>1. /\ x \in P /\ Eligible(x) /\ x.time < sweep[p].cutoff
        /\ x.key \in sweep[p].keep \/ \E y \in P : Supersedes(y, x)
    BY PrunableRows
  <2>2. ASSUME x.key \in sweep[p].keep
        PROVE  \E y \in written : Supersedes(y, x)
    <3>1. PICK y \in written : Eligible(y) /\ y.key = x.key /\ y.time > sweep[p].to
      BY <1>7, <2>2
    <3>2. x.time <= sweep[p].to
      BY <1>1, <1>5, <2>1, PageInWindow
    <3>3. x.time \in Nat /\ y.time \in Nat
      BY <1>6, <2>1 DEF TypeOK, Row
    <3>4. Newer(y, x)
      BY <1>5, <3>1, <3>2, <3>3 DEF Newer
    <3> QED
      BY <3>1, <3>4 DEF Supersedes
  <2> QED
    BY <1>6, <2>1, <2>2
<1>10. WindowOK(p)'
  BY <1>2, <1>3, <1>5 DEF WindowOK
<1> QED
  BY <1>8, <1>9, <1>10

(* Stepping the window strictly below the page makes all of it anchors     *)
(* above the window.                                                       *)
LEMMA NextPageKeeps ==
  ASSUME TypeOK, SweepOK, NEW p \in Pollers, NextPage(p)
  PROVE  KeepOK(p)' /\ PendOK(p)' /\ WindowOK(p)'
<1>1. /\ sweep[p] \in Sweep
      /\ sweep[p].pend = {}
      /\ 1 < sweep[p].oldest /\ sweep[p].oldest <= sweep[p].to
      /\ pc[p] = "delete" /\ pc'[p] = "list"
      /\ UNCHANGED <<now, written>>
  BY DEF NextPage, MorePages, TypeOK, world, rows
<1>2. /\ sweep'[p].to = sweep[p].oldest - 1
      /\ sweep'[p].keep = sweep[p].keep
      /\ sweep'[p].pend = sweep[p].pend
      /\ sweep'[p].cutoff = sweep[p].cutoff
  BY <1>1 DEF NextPage, TypeOK, Sweep
<1>3. KeepOK(p) /\ WindowOK(p)
  BY DEF SweepOK
<1>4. sweep[p].oldest \in Nat /\ sweep[p].to \in Int
  BY <1>1 DEF Sweep
<1>5. KeepOK(p)'
  <2> SUFFICES ASSUME NEW k \in sweep[p].keep
               PROVE  \E y \in written :
                        Eligible(y) /\ y.key = k /\ y.time > sweep[p].oldest - 1
    BY <1>1, <1>2 DEF KeepOK
  <2>1. PICK y \in written :
          /\ Eligible(y) /\ y.key = k
          /\ y.time > sweep[p].to \/ y.time >= sweep[p].oldest
    BY <1>3 DEF KeepOK
  <2>2. y.time \in Nat
    BY DEF TypeOK, Row
  <2> QED
    BY <1>1, <1>4, <2>1, <2>2
<1>6. PendOK(p)'
  BY <1>1, <1>2 DEF PendOK
<1>7. WindowOK(p)'
  BY <1>1, <1>2, <1>3, <1>4 DEF WindowOK
<1> QED
  BY <1>5, <1>6, <1>7

LEMMA DeleteKeeps ==
  ASSUME TypeOK, IdsOK, SweepOK, AnchorKept, NEW p \in Pollers, DeleteNext(p)
  PROVE  /\ IdsOK' /\ AnchorKept' /\ written \subseteq written'
         /\ KeepOK(p)' /\ PendOK(p)' /\ WindowOK(p)'
<1>1. PICK x \in sweep[p].pend :
        /\ store' = {r \in store : r.id # x.id} \/ store' = store
        /\ sweep' = [sweep EXCEPT ![p].pend = @ \ {x}]
  BY DEF DeleteNext, deleteAnnotation
<1>2. /\ sweep[p] \in Sweep
      /\ pc[p] = "delete"
      /\ UNCHANGED <<now, written, nextId, pc>>
  BY DEF DeleteNext, deleteAnnotation, TypeOK, world
<1>3. /\ sweep'[p].pend = sweep[p].pend \ {x}
      /\ sweep'[p].keep = sweep[p].keep
      /\ sweep'[p].to = sweep[p].to
      /\ sweep'[p].cutoff = sweep[p].cutoff
      /\ sweep'[p].oldest = sweep[p].oldest
  BY <1>1, <1>2 DEF TypeOK, Sweep
<1>4. KeepOK(p) /\ PendOK(p) /\ WindowOK(p)
  BY DEF SweepOK
<1>5. IdsOK'
  BY <1>1, <1>2 DEF IdsOK
<1>6. AnchorKept'
  <2>1. CASE store' = {r \in store : r.id # x.id}
    BY <1>2, <1>4, <2>1, DeleteKeepsAnchor
  <2>2. CASE store' = store
    BY <1>2, <2>2 DEF AnchorKept
  <2> QED
    BY <1>1, <2>1, <2>2
<1>7. KeepOK(p)'
  BY <1>2, <1>3, <1>4 DEF KeepOK
<1>8. PendOK(p)'
  BY <1>2, <1>3, <1>4 DEF PendOK
<1>9. WindowOK(p)'
  BY <1>2, <1>3, <1>4 DEF WindowOK
<1> QED
  BY <1>2, <1>5, <1>6, <1>7, <1>8, <1>9

LEMMA InvStep == IInv /\ [Next]_vars => IInv'
<1> SUFFICES ASSUME IInv, [Next]_vars PROVE IInv'
  OBVIOUS
<1> USE DEF IInv
<1>1. TypeOK'
  BY TypeStep
<1>2. now' \in Nat /\ now \in Nat
  BY <1>1 DEF TypeOK
<1>3. CASE Tick
  <2>1. UNCHANGED rows /\ sweep' = sweep /\ pc' = pc /\ now' >= now
    BY <1>2, <1>3 DEF Tick
  <2>2. IdsOK' /\ AnchorKept' /\ written \subseteq written'
    BY <2>1, RowsFrame
  <2>3. SweepOK'
    BY <1>2, <2>1, <2>2, SweepFrame DEF SweepOK
  <2> QED
    BY <1>1, <2>2, <2>3
<1>4. CASE \E d \in Deployments : Publish(d)
  <2>1. UNCHANGED rows /\ sweep' = sweep /\ pc' = pc /\ now' >= now
    BY <1>2, <1>4 DEF Publish
  <2>2. IdsOK' /\ AnchorKept' /\ written \subseteq written'
    BY <2>1, RowsFrame
  <2>3. SweepOK'
    BY <1>2, <2>1, <2>2, SweepFrame DEF SweepOK
  <2> QED
    BY <1>1, <2>2, <2>3
<1>5. ASSUME NEW m \in ForeignMarkers, ForeignPost(m)
      PROVE  IInv'
  <2>1. NewRow(m.time, m.key, NoDep, m.triage) \in Row
    <3>1. m.time \in Nat \ {0} /\ m.key \in Keys \cup {NoKey} /\ m.triage \in BOOLEAN
      BY DeploymentAssumption
    <3> QED
      BY <3>1 DEF NewRow, Row, TypeOK
  <2>2. NewRow(m.time, m.key, NoDep, m.triage).id = nextId
    BY DEF NewRow
  <2>3. IdsOK' /\ AnchorKept' /\ written \subseteq written'
    BY <1>5, <2>1, <2>2, PostKeeps DEF ForeignPost
  <2>4. sweep' = sweep /\ pc' = pc /\ now' >= now
    BY <1>2, <1>5 DEF ForeignPost, world
  <2>5. SweepOK'
    BY <1>2, <2>3, <2>4, SweepFrame DEF SweepOK
  <2> QED
    BY <1>1, <2>3, <2>5
<1>6. ASSUME NEW p \in Pollers, NEW d \in Deployments,
             SkipDeployment(p, d) \/ ProbeAbsent(p, d)
      PROVE  IInv'
  <2>1. /\ UNCHANGED rows /\ sweep' = sweep /\ now' >= now
        /\ pc[p] \notin {"list", "delete"} /\ pc'[p] \notin {"list", "delete"}
        /\ \A q \in Pollers \ {p} : pc'[q] = pc[q]
    BY <1>2, <1>6 DEF SkipDeployment, ProbeAbsent, world, TypeOK
  <2>2. IdsOK' /\ AnchorKept' /\ written \subseteq written'
    BY <2>1, RowsFrame
  <2>3. SweepOK'
    BY <1>2, <2>1, <2>2, SweepFrame DEF SweepOK
  <2> QED
    BY <1>1, <2>2, <2>3
<1>7. ASSUME NEW p \in Pollers, FetchDeployments(p) \/ Rest(p)
      PROVE  IInv'
  <2>1. /\ UNCHANGED rows /\ sweep' = sweep /\ now' >= now
        /\ pc[p] \notin {"list", "delete"} /\ pc'[p] \notin {"list", "delete"}
        /\ \A q \in Pollers \ {p} : pc'[q] = pc[q]
    BY <1>2, <1>7 DEF FetchDeployments, Rest, world, TypeOK
  <2>2. IdsOK' /\ AnchorKept' /\ written \subseteq written'
    BY <2>1, RowsFrame
  <2>3. SweepOK'
    BY <1>2, <2>1, <2>2, SweepFrame DEF SweepOK
  <2> QED
    BY <1>1, <2>2, <2>3
<1>8. ASSUME NEW p \in Pollers, WriteMarker(p)
      PROVE  IInv'
  <2>1. /\ sweep' = sweep /\ now' >= now
        /\ pc[p] \notin {"list", "delete"} /\ pc'[p] \notin {"list", "delete"}
        /\ \A q \in Pollers \ {p} : pc'[q] = pc[q]
    BY <1>2, <1>8 DEF WriteMarker, world, TypeOK
  <2>2. CASE UNCHANGED rows
    <3>1. IdsOK' /\ AnchorKept' /\ written \subseteq written'
      BY <2>2, RowsFrame
    <3> QED
      BY <1>1, <1>2, <2>1, <3>1, SweepFrame DEF SweepOK
  <2>3. CASE Post(NewRow(DeployTime[current[p]], DeployKey[current[p]], current[p], FALSE))
    <3>1. current[p] \in Deployments
      BY <1>8 DEF WriteMarker, TypeOK
    <3>2. /\ DeployTime[current[p]] \in Nat \ {0}
          /\ DeployKey[current[p]] \in Keys
      BY <3>1, DeploymentAssumption
    <3>3. NewRow(DeployTime[current[p]], DeployKey[current[p]], current[p], FALSE) \in Row
      BY <3>1, <3>2 DEF NewRow, Row, TypeOK
    <3>4. NewRow(DeployTime[current[p]], DeployKey[current[p]], current[p], FALSE).id = nextId
      BY DEF NewRow
    <3>5. IdsOK' /\ AnchorKept' /\ written \subseteq written'
      BY <2>3, <3>3, <3>4, PostKeeps
    <3> QED
      BY <1>1, <1>2, <2>1, <3>5, SweepFrame DEF SweepOK
  <2> QED
    BY <1>8, <2>2, <2>3 DEF WriteMarker
<1>9. ASSUME NEW p \in Pollers, BeginSweep(p)
      PROVE  IInv'
  <2>1. /\ UNCHANGED rows /\ now' = now /\ sweep'[p] = NewSweep /\ pc'[p] = "list"
        /\ \A q \in Pollers \ {p} : pc'[q] = pc[q] /\ sweep'[q] = sweep[q]
    BY <1>9 DEF BeginSweep, world, TypeOK
  <2>2. IdsOK' /\ AnchorKept' /\ written \subseteq written'
    BY <2>1, RowsFrame
  <2>3. KeepOK(p)' /\ PendOK(p)' /\ WindowOK(p)'
    BY <2>1, ClockAssumption DEF KeepOK, PendOK, WindowOK, NewSweep, TypeOK
  <2>4. \A q \in Pollers \ {p} : KeepOK(q)' /\ PendOK(q)' /\ WindowOK(q)'
    BY <1>2, <2>1, <2>2, SweepFrame
  <2> QED
    BY <1>1, <2>2, <2>3, <2>4 DEF SweepOK
<1>10. ASSUME NEW p \in Pollers, ListPage(p) \/ NextPage(p)
       PROVE  IInv'
  <2>1. /\ UNCHANGED rows /\ now' = now
        /\ \A q \in Pollers \ {p} : pc'[q] = pc[q] /\ sweep'[q] = sweep[q]
    BY <1>10 DEF ListPage, NextPage, world, TypeOK
  <2>2. IdsOK' /\ AnchorKept' /\ written \subseteq written'
    BY <2>1, RowsFrame
  <2>3. KeepOK(p)' /\ PendOK(p)' /\ WindowOK(p)'
    BY <1>10, ListKeeps, NextPageKeeps
  <2>4. \A q \in Pollers \ {p} : KeepOK(q)' /\ PendOK(q)' /\ WindowOK(q)'
    BY <1>2, <2>1, <2>2, SweepFrame
  <2> QED
    BY <1>1, <2>2, <2>3, <2>4 DEF SweepOK
<1>11. ASSUME NEW p \in Pollers, DeleteNext(p)
       PROVE  IInv'
  <2>1. /\ now' = now
        /\ \A q \in Pollers \ {p} : pc'[q] = pc[q] /\ sweep'[q] = sweep[q]
    BY <1>11 DEF DeleteNext, deleteAnnotation, world, TypeOK
  <2>2. /\ IdsOK' /\ AnchorKept' /\ written \subseteq written'
        /\ KeepOK(p)' /\ PendOK(p)' /\ WindowOK(p)'
    BY <1>11, DeleteKeeps
  <2>3. \A q \in Pollers \ {p} : KeepOK(q)' /\ PendOK(q)' /\ WindowOK(q)'
    BY <1>2, <2>1, <2>2, SweepFrame
  <2> QED
    BY <1>1, <2>2, <2>3 DEF SweepOK
<1>12. ASSUME NEW p \in Pollers, ListFails(p) \/ SweepDone(p) \/ Restart(p)
       PROVE  IInv'
  <2>1. /\ UNCHANGED rows /\ now' = now /\ sweep'[p] = NoSweep /\ pc'[p] = "idle"
        /\ \A q \in Pollers \ {p} : pc'[q] = pc[q] /\ sweep'[q] = sweep[q]
    BY <1>12 DEF ListFails, SweepDone, EndSweep, Restart, world, TypeOK
  <2>2. IdsOK' /\ AnchorKept' /\ written \subseteq written'
    BY <2>1, RowsFrame
  <2>3. KeepOK(p)' /\ PendOK(p)' /\ WindowOK(p)'
    BY <2>1, NoSweepOK
  <2>4. \A q \in Pollers \ {p} : KeepOK(q)' /\ PendOK(q)' /\ WindowOK(q)'
    BY <1>2, <2>1, <2>2, SweepFrame
  <2> QED
    BY <1>1, <2>2, <2>3, <2>4 DEF SweepOK
<1>13. CASE UNCHANGED vars
  <2>1. UNCHANGED rows /\ sweep' = sweep /\ pc' = pc /\ now' >= now
    BY <1>2, <1>13 DEF vars, world
  <2>2. IdsOK' /\ AnchorKept' /\ written \subseteq written'
    BY <2>1, RowsFrame
  <2> QED
    BY <1>1, <1>2, <2>1, <2>2, SweepFrame DEF SweepOK
<1> QED
  BY <1>3, <1>4, <1>5, <1>6, <1>7, <1>8, <1>9, <1>10, <1>11, <1>12, <1>13
     DEF Next, Poller

LEMMA Invariant == Spec => []IInv
BY InvInit, InvStep, PTL DEF Spec

(* However many pollers race, whatever pages the store returns, whatever   *)
(* fails or restarts: no service ever loses its newest deploy marker.      *)
THEOREM NewestMarkerSurvives == Spec => []AnchorKept
<1>1. IInv => AnchorKept
  BY DEF IInv
<1> QED
  BY <1>1, Invariant, PTL

(* Every row a sweep removes is past the retention window and a newer      *)
(* marker of its identity stays; the triage log is never touched.          *)
THEOREM SweepsRemoveOnlySuperseded == Spec => OnlySupersededRemoved
<1>1. ASSUME IInv, [Next]_vars, NEW x \in store \ store'
      PROVE  /\ Eligible(x)
             /\ x.time < now - Retention
             /\ \E y \in store' : Supersedes(y, x)
  <2>1. PICK p \in Pollers : DeleteNext(p)
    BY <1>1 DEF Next, Poller, Tick, Publish, ForeignPost, Post, FetchDeployments,
       SkipDeployment, ProbeAbsent, WriteMarker, Rest, BeginSweep, ListPage, NextPage,
       ListFails, SweepDone, EndSweep, Restart, rows, vars
  <2>2. PICK z \in sweep[p].pend : store' = {r \in store : r.id # z.id}
    BY <1>1, <2>1 DEF DeleteNext, deleteAnnotation
  <2>3. PendOK(p) /\ WindowOK(p) /\ pc[p] = "delete"
    BY <1>1, <2>1 DEF IInv, SweepOK, DeleteNext, deleteAnnotation
  <2>4. z = x
    BY <1>1, <2>2, <2>3 DEF IInv, IdsOK, PendOK
  <2>5. PICK y \in store : y # x /\ Supersedes(y, x)
    BY <1>1, <2>3, <2>4, PendSuperseded DEF IInv
  <2>6. y \in store'
    BY <1>1, <2>2, <2>4, <2>5 DEF IInv, IdsOK
  <2>7. Eligible(x) /\ x.time < sweep[p].cutoff /\ sweep[p].cutoff <= now - Retention
    BY <2>2, <2>3, <2>4 DEF PendOK, WindowOK
  <2>8. x.time \in Int /\ sweep[p].cutoff \in Int /\ now - Retention \in Int
    BY <1>1, ClockAssumption DEF IInv, TypeOK, Row, Sweep
  <2>9. x.time < now - Retention
    BY <2>7, <2>8
  <2> QED
    BY <2>5, <2>6, <2>7, <2>9
<1>2. IInv /\ [Next]_vars =>
        [\A x \in store \ store' :
           /\ Eligible(x)
           /\ x.time < now - Retention
           /\ \E y \in store' : Supersedes(y, x)]_vars
  BY <1>1
<1> QED
  BY <1>2, Invariant, PTL DEF Spec, OnlySupersededRemoved

-----------------------------------------------------------------------------
(* Duplicates.                                                             *)

(* Probes answer, the clocks agree, and there are not more markers of one  *)
(* deployment at the start than there may be later.                        *)
CleanStart ==
  /\ IsFiniteSet(Pollers) /\ Skew = 0 /\ ~Faults
  /\ \A rs \in InitialStores :
       /\ \A r \in rs : r.dep \in Deployments => r.time <= StartTime
       /\ \A d \in Deployments :
            /\ IsFiniteSet({r \in rs : r.dep = d})
            /\ Cardinality({r \in rs : r.dep = d}) <= Cardinality(Pollers)

Markers(d) == {r \in store : r.dep = d}
Writers(d) == {p \in Pollers : current[p] = d}

Counted(d) ==
  IsFiniteSet(Markers(d)) /\ Cardinality(Markers(d)) + Cardinality(Writers(d)) <= Cardinality(Pollers)

(* Nothing a poller mirrors is dated after now, so the probe's window, up  *)
(* to now, holds every marker there is of a deployment.                    *)
NoneAhead ==
  /\ \A r \in store : r.dep \in Deployments => r.time <= now
  /\ \A d \in published : DeployTime[d] <= now
  /\ \A p \in Pollers : todo[p] \subseteq published
  /\ \A p \in Pollers : current[p] \in Deployments => DeployTime[current[p]] <= now

DInv == NoneAhead /\ \A d \in Deployments : Counted(d)

LEMMA WritersFinite ==
  ASSUME IsFiniteSet(Pollers), NEW d
  PROVE  /\ IsFiniteSet(Writers(d)) /\ Cardinality(Writers(d)) \in Nat
         /\ Cardinality(Pollers) \in Nat /\ Cardinality(Writers(d)) <= Cardinality(Pollers)
<1>1. Writers(d) \in SUBSET Pollers
  BY DEF Writers
<1>2. IsFiniteSet(Writers(d)) /\ Cardinality(Writers(d)) <= Cardinality(Pollers)
  BY <1>1, FS_Subset
<1> QED
  BY <1>2, FS_CardinalityType

LEMMA CountInit == ASSUME CleanStart, Init PROVE DInv
<1>1. NoneAhead
  BY DeploymentAssumption DEF CleanStart, Init, NoneAhead
<1>2. ASSUME NEW d \in Deployments PROVE Counted(d)
  <2>1. Writers(d) = {}
    BY DeploymentAssumption DEF Init, Writers
  <2>2. IsFiniteSet(Markers(d)) /\ Cardinality(Markers(d)) <= Cardinality(Pollers)
    BY DEF CleanStart, Init, Markers
  <2>3. Cardinality(Writers(d)) = 0 /\ Cardinality(Markers(d)) \in Nat
    BY <2>1, <2>2, FS_EmptySet, FS_CardinalityType
  <2> QED
    BY <2>2, <2>3 DEF Counted
<1> QED
  BY <1>1, <1>2 DEF DInv

(* Fewer markers and fewer writers stay within the count.                  *)
LEMMA FewerCounted ==
  ASSUME IsFiniteSet(Pollers), NEW d, Counted(d),
         Markers(d)' \subseteq Markers(d), Writers(d)' \subseteq Writers(d)
  PROVE  Counted(d)'
<1>1. /\ IsFiniteSet(Markers(d)') /\ Cardinality(Markers(d)') <= Cardinality(Markers(d))
      /\ Cardinality(Markers(d)) \in Nat /\ Cardinality(Markers(d)') \in Nat
  <2>1. IsFiniteSet(Markers(d)') /\ Cardinality(Markers(d)') <= Cardinality(Markers(d))
    BY FS_Subset DEF Counted
  <2> QED
    BY <2>1, FS_CardinalityType DEF Counted
<1>2. /\ Cardinality(Writers(d)') <= Cardinality(Writers(d))
      /\ Cardinality(Writers(d)) \in Nat /\ Cardinality(Writers(d)') \in Nat
      /\ Cardinality(Pollers) \in Nat
  <2>1. IsFiniteSet(Writers(d)') /\ Cardinality(Writers(d)') <= Cardinality(Writers(d))
    BY WritersFinite, FS_Subset
  <2> QED
    BY <2>1, WritersFinite, FS_CardinalityType
<1> QED
  BY <1>1, <1>2 DEF Counted

(* A probe that finds nothing proves that there is no marker at all; from  *)
(* here on every poller may be about to write one.                         *)
LEMMA ProbeCounted ==
  ASSUME CleanStart, TypeOK, DInv, NEW p \in Pollers, NEW d \in Deployments, ProbeAbsent(p, d)
  PROVE  DInv'
<1>1. /\ UNCHANGED <<now, published, store>> /\ d \in todo[p] /\ ~Probed(d)
      /\ todo' = [todo EXCEPT ![p] = @ \ {d}] /\ current' = [current EXCEPT ![p] = d]
  BY DEF ProbeAbsent, world, rows, CleanStart
<1>2. DeployTime[d] <= now
  BY <1>1 DEF DInv, NoneAhead
<1>3. NoneAhead'
  <2>1. \A q \in Pollers : todo'[q] \subseteq todo[q] /\ current'[q] \in {d, current[q]}
    BY <1>1 DEF TypeOK
  <2> QED
    BY <1>1, <1>2, <2>1 DEF DInv, NoneAhead
<1>4. Markers(d) = {}
  <2>1. \A r \in Window(store, 1, now) : r.dep # d
    BY <1>1 DEF Probed
  <2>2. ASSUME NEW r \in store, r.dep = d PROVE r \in Window(store, 1, now)
    <3>1. r.time \in Nat \ {0} /\ r.time <= now
      BY <2>2 DEF TypeOK, Row, DInv, NoneAhead
    <3> QED
      BY <3>1 DEF Window
  <2> QED
    BY <2>1, <2>2 DEF Markers
<1>5. Counted(d)'
  <2>1. Markers(d)' = {}
    BY <1>1, <1>4 DEF Markers
  <2>2. IsFiniteSet(Markers(d)') /\ Cardinality(Markers(d)') = 0
    BY <2>1, FS_EmptySet
  <2>3. Writers(d)' \in SUBSET Pollers
    BY DEF Writers
  <2>4. /\ Cardinality(Writers(d)') <= Cardinality(Pollers)
        /\ Cardinality(Writers(d)') \in Nat /\ Cardinality(Pollers) \in Nat
    BY <2>3, FS_Subset, FS_CardinalityType DEF CleanStart
  <2> QED
    BY <2>2, <2>4 DEF Counted
<1>6. ASSUME NEW e \in Deployments, e # d PROVE Counted(e)'
  <2>1. Markers(e)' = Markers(e)
    BY <1>1 DEF Markers
  <2>2. Writers(e)' \subseteq Writers(e)
    BY <1>1, <1>6 DEF Writers, TypeOK
  <2> QED
    BY <2>1, <2>2, FewerCounted DEF DInv, CleanStart
<1> QED
  BY <1>3, <1>5, <1>6 DEF DInv

(* A writer becomes a marker.                                              *)
LEMMA WriteCounted ==
  ASSUME CleanStart, TypeOK, DInv, NEW p \in Pollers, WriteMarker(p)
  PROVE  DInv'
<1>0. PICK d \in Deployments : current[p] = d
  BY DEF WriteMarker, TypeOK
<1>r. PICK r : r = NewRow(DeployTime[d], DeployKey[d], d, FALSE)
  OBVIOUS
<1>1. /\ store' = store \cup {r}
      /\ UNCHANGED <<now, published, todo>> /\ current' = [current EXCEPT ![p] = NoDep]
  BY <1>0, <1>r DEF WriteMarker, world, Post, CleanStart
<1>2. r.dep = d /\ r.time = DeployTime[d]
  BY <1>r DEF NewRow
<1>3. NoneAhead'
  <2>1. DeployTime[d] <= now
    BY <1>0 DEF DInv, NoneAhead
  <2>2. \A q \in Pollers : current'[q] = current[q] \/ current'[q] \notin Deployments
    BY <1>1, DeploymentAssumption DEF TypeOK
  <2> QED
    BY <1>1, <1>2, <2>1, <2>2 DEF DInv, NoneAhead
<1>4. Counted(d)'
  <2>1. Markers(d)' = Markers(d) \cup {r}
    BY <1>1, <1>2 DEF Markers
  <2>2. Writers(d)' = Writers(d) \ {p} /\ p \in Writers(d)
    <3>1. NoDep # d
      BY DeploymentAssumption
    <3> QED
      BY <1>0, <1>1, <3>1 DEF Writers, TypeOK
  <2>3. /\ IsFiniteSet(Markers(d)) /\ Cardinality(Markers(d)) \in Nat
        /\ Cardinality(Markers(d)) + Cardinality(Writers(d)) <= Cardinality(Pollers)
    BY <1>1, FS_CardinalityType DEF DInv, Counted
  <2>4. /\ IsFiniteSet(Markers(d)') /\ Cardinality(Markers(d)') \in Nat
        /\ Cardinality(Markers(d)') <= Cardinality(Markers(d)) + 1
    <3>1. /\ IsFiniteSet(Markers(d) \cup {r})
          /\ Cardinality(Markers(d) \cup {r}) =
               IF r \in Markers(d) THEN Cardinality(Markers(d)) ELSE Cardinality(Markers(d)) + 1
      BY <2>3, FS_AddElement
    <3> QED
      BY <2>1, <2>3, <3>1
  <2>5. /\ IsFiniteSet(Writers(d)) /\ Cardinality(Writers(d)) \in Nat
        /\ Cardinality(Pollers) \in Nat
    BY WritersFinite DEF CleanStart
  <2>6. Cardinality(Writers(d)') = Cardinality(Writers(d)) - 1
    BY <2>2, <2>5, FS_RemoveElement
  <2> QED
    BY <2>3, <2>4, <2>5, <2>6 DEF Counted
<1>5. ASSUME NEW e \in Deployments, e # d PROVE Counted(e)'
  <2>1. Markers(e)' = Markers(e)
    BY <1>1, <1>2, <1>5 DEF Markers
  <2>2. Writers(e)' \subseteq Writers(e)
    BY <1>1, <1>5, DeploymentAssumption DEF Writers, TypeOK
  <2> QED
    BY <2>1, <2>2, FewerCounted DEF DInv, CleanStart
<1> QED
  BY <1>3, <1>4, <1>5 DEF DInv

(* Every other step adds no marker of a deployment and no writer.          *)
LEMMA CalmCounted ==
  ASSUME CleanStart, TypeOK, DInv, now' \in Nat, now' >= now,
         \A r \in store' : r \in store \/ r.dep \notin Deployments,
         published' \subseteq Deployments, \A d \in published' : DeployTime[d] <= now',
         published \subseteq published',
         \A p \in Pollers : todo'[p] \subseteq published',
         current' = current
  PROVE  DInv'
<1>0. DeployTime \in [Deployments -> Nat \ {0}] /\ now \in Nat
  BY DeploymentAssumption DEF TypeOK
<1>1. NoneAhead'
  <2>1. ASSUME NEW r \in store', r.dep \in Deployments PROVE r.time <= now'
    <3>1. r \in store /\ r.time \in Nat /\ r.time <= now
      BY <2>1 DEF TypeOK, Row, DInv, NoneAhead
    <3> QED
      BY <1>0, <3>1
  <2>2. ASSUME NEW p \in Pollers, current[p] \in Deployments PROVE DeployTime[current[p]] <= now'
    <3>1. DeployTime[current[p]] \in Nat /\ DeployTime[current[p]] <= now
      BY <1>0, <2>2 DEF DInv, NoneAhead
    <3> QED
      BY <1>0, <3>1
  <2> QED
    BY <2>1, <2>2 DEF NoneAhead
<1>2. ASSUME NEW d \in Deployments PROVE Counted(d)'
  <2>1. Markers(d)' \subseteq Markers(d) /\ Writers(d)' \subseteq Writers(d)
    BY DEF Markers, Writers
  <2> QED
    BY <2>1, FewerCounted DEF DInv, CleanStart
<1> QED
  BY <1>1, <1>2 DEF DInv

LEMMA CountStep == ASSUME CleanStart, TypeOK, DInv, [Next]_vars PROVE DInv'
<1>0. /\ now \in Nat /\ published \subseteq Deployments
      /\ \A d \in published : DeployTime[d] <= now
      /\ \A p \in Pollers : todo[p] \subseteq published
      /\ DeployTime \in [Deployments -> Nat \ {0}]
  BY DeploymentAssumption DEF TypeOK, DInv, NoneAhead
<1>1. CASE Tick
  <2>1. now' = now + 1 /\ UNCHANGED <<published, store, todo, current>>
    BY <1>1 DEF Tick, rows
  <2>2. \A d \in published : DeployTime[d] <= now'
    BY <1>0, <2>1
  <2> QED
    BY <1>0, <2>1, <2>2, CalmCounted
<1>2. ASSUME NEW d \in Deployments, Publish(d) PROVE DInv'
  <2>1. /\ published' = published \cup {d} /\ DeployTime[d] <= now
        /\ UNCHANGED <<now, store, todo, current>>
    BY <1>0, <1>2 DEF Publish, rows, CleanStart
  <2> QED
    BY <1>0, <2>1, CalmCounted
<1>3. ASSUME NEW m \in ForeignMarkers, ForeignPost(m) PROVE DInv'
  <2>1. /\ store' = store \cup {NewRow(m.time, m.key, NoDep, m.triage)}
        /\ UNCHANGED <<now, published, todo, current>>
    BY <1>3 DEF ForeignPost, Post, world
  <2>2. NewRow(m.time, m.key, NoDep, m.triage).dep \notin Deployments
    BY DeploymentAssumption DEF NewRow
  <2> QED
    BY <1>0, <2>1, <2>2, CalmCounted
<1>4. ASSUME NEW p \in Pollers, FetchDeployments(p) PROVE DInv'
  <2>1. UNCHANGED <<now, published, store, current>>
        /\ todo' = [todo EXCEPT ![p] = Newest(published)]
    BY <1>4 DEF FetchDeployments, world, rows, CleanStart
  <2>2. \A q \in Pollers : todo'[q] \subseteq published'
    BY <1>0, <2>1 DEF Newest, TypeOK
  <2> QED
    BY <1>0, <2>1, <2>2, CalmCounted
<1>5. ASSUME NEW p \in Pollers, NEW d \in Deployments, SkipDeployment(p, d) PROVE DInv'
  <2>1. UNCHANGED <<now, published, store, current>> /\ todo' = [todo EXCEPT ![p] = @ \ {d}]
    BY <1>5 DEF SkipDeployment, world, rows
  <2>2. \A q \in Pollers : todo'[q] \subseteq published'
    BY <1>0, <2>1 DEF TypeOK
  <2> QED
    BY <1>0, <2>1, <2>2, CalmCounted
<1>6. ASSUME NEW p \in Pollers, NEW d \in Deployments, ProbeAbsent(p, d) PROVE DInv'
  BY <1>6, ProbeCounted
<1>7. ASSUME NEW p \in Pollers, WriteMarker(p) PROVE DInv'
  BY <1>7, WriteCounted
<1>8. ASSUME NEW p \in Pollers, DeleteNext(p) PROVE DInv'
  <2>1. UNCHANGED <<now, published, todo, current>> /\ store' \subseteq store
    BY <1>8 DEF DeleteNext, deleteAnnotation, world
  <2> QED
    BY <1>0, <2>1, CalmCounted
<1>9. CASE \/ UNCHANGED vars
           \/ \E p \in Pollers :
                Rest(p) \/ BeginSweep(p) \/ ListPage(p) \/ ListFails(p) \/ NextPage(p) \/ SweepDone(p)
  <2>1. UNCHANGED <<now, published, store, todo, current>>
    BY <1>9 DEF vars, world, rows, Rest, BeginSweep, ListPage, ListFails, NextPage, SweepDone,
                EndSweep
  <2> QED
    BY <1>0, <2>1, CalmCounted
<1>10. ASSUME NEW p \in Pollers, Restart(p) PROVE DInv'
  BY <1>10 DEF Restart, CleanStart
<1> QED
  BY <1>1, <1>2, <1>3, <1>4, <1>5, <1>6, <1>7, <1>8, <1>9, <1>10 DEF Next, Poller

(* While probes answer and the clocks agree, replicas that race leave at   *)
(* most one marker of a deployment each, for any number of replicas,       *)
(* deployments and sweeps in between (the probe of syncOneDeployment).     *)
THEOREM FewDuplicates == ASSUME CleanStart PROVE Spec => []DuplicatesBounded
<1>1. Init => DInv
  BY CountInit
<1>2. TypeOK /\ DInv /\ [Next]_vars => DInv'
  BY CountStep
<1>3. DInv => DuplicatesBounded
  BY DEF DInv, Counted, DuplicatesBounded, Markers, Writers
<1> QED
  BY <1>1, <1>2, <1>3, TypeCorrect, PTL DEF Spec

-----------------------------------------------------------------------------
(* Complete sweeps.                                                        *)

(* No call fails, nothing is posted, and no marker is dated after the      *)
(* start: a sweep does not see one that is, but it may be what supersedes  *)
(* another.                                                                *)
Quiet ==
  /\ ~Faults /\ Deployments = {} /\ ForeignMarkers = {}
  /\ \A rs \in InitialStores : IsFiniteSet(rs) /\ \A r \in rs : r.time <= StartTime

Sweeping(p) == pc[p] \in {"list", "delete"}

Untied(p) == \A x, y \in atStart[p] : x.time = y.time => x = y

(* What a sweep has yet to list lies in its window, and what lies above it *)
(* has anchored its key.  Between a page and the next, what was to be      *)
(* deleted is pending or lies below the page; only a full page has         *)
(* anything below it.                                                      *)
ToList(p) ==
  /\ \A z \in store : Eligible(z) /\ z.time > sweep[p].to => z.key \in sweep[p].keep
  /\ \A x \in Backlog(p) \cap store : x.time <= sweep[p].to

ToDelete(p) ==
  /\ \A x \in Backlog(p) \cap store :
       x \in sweep[p].pend \/ (sweep[p].full /\ x.time < sweep[p].oldest)
  /\ sweep[p].full =>
       /\ sweep[p].oldest <= sweep[p].to
       /\ \A z \in store : Eligible(z) /\ z.time >= sweep[p].oldest => z.key \in sweep[p].keep

LeftOK(p) ==
  /\ store \subseteq atStart[p] /\ atStart[p] \subseteq written
  /\ sweep[p].page < MaxPages
  /\ pc[p] = "list" => ToList(p)
  /\ pc[p] = "delete" => ToDelete(p)

CInv ==
  /\ IsFiniteSet(store) /\ \A r \in store : r.time <= now
  /\ \A p \in Pollers : Sweeping(p) /\ Untied(p) => LeftOK(p)

(* A step that leaves the sweep alone and posts nothing keeps this.        *)
LEMMA LeftFrame ==
  ASSUME NEW p \in Pollers, LeftOK(p), store' \subseteq store, written' = written,
         sweep'[p] = sweep[p], atStart'[p] = atStart[p], pc'[p] = pc[p]
  PROVE  LeftOK(p)'
<1>1. Backlog(p)' = Backlog(p)
  BY DEF Backlog
<1>2. ToList(p) => ToList(p)'
  BY <1>1 DEF ToList
<1>3. ToDelete(p) => ToDelete(p)'
  BY <1>1 DEF ToDelete
<1> QED
  BY <1>2, <1>3 DEF LeftOK

(* A page holds all there is, or is full and holds all that is no older    *)
(* than its last row.                                                      *)
LEMMA PageHolds ==
  ASSUME NEW S, S \subseteq Row, IsFiniteSet(S), \A x, y \in S : x.time = y.time => x = y,
         NEW to \in Int, to >= 1, NEW P, IsPage(P, S, 1, to, Limit),
         NEW t, IsOldest(t, P), NEW z \in S, z.time <= to
  PROVE  /\ Cardinality(P) # Limit => z \in P
         /\ Cardinality(P) = Limit => t <= to /\ (z \in P <=> z.time >= t)
<1> DEFINE W == Window(S, 1, to)
<1>1. z \in W /\ W \subseteq S /\ P \subseteq W
  <2>1. z.time \in Nat \ {0}
    BY DEF Row
  <2> QED
    BY <2>1 DEF Window, IsPage
<1>2. IsFiniteSet(W)
  BY <1>1, FS_Subset
<1>3. Cardinality(W) \in Nat /\ Limit \in Nat
  BY <1>2, FS_CardinalityType, PageAssumption
<1>4. ASSUME Cardinality(P) # Limit
      PROVE  z \in P
  <2>1. Cardinality(P) = Cardinality(W)
    BY <1>4 DEF IsPage
  <2>2. P = W
    BY <1>1, <1>2, <2>1, FS_Subset
  <2> QED
    BY <1>1, <2>2
<1>5. ASSUME Cardinality(P) = Limit
      PROVE  t <= to /\ (z \in P <=> z.time >= t)
  <2>1. P # {}
    BY <1>5, FS_EmptySet, PageAssumption
  <2>2. PICK r \in P : r.time = t
    BY <2>1 DEF IsOldest
  <2>3. r \in S /\ r.time \in Nat /\ z.time \in Nat
    BY <1>1 DEF Row
  <2>4. t <= to
    BY <1>1, <2>2, <2>3, PageInWindow
  <2>5. z \in P => z.time >= t
    BY <2>1, <2>2, <2>3 DEF IsOldest
  <2>6. z \notin P => r.time >= z.time
    BY <1>1, <2>2 DEF IsPage
  <2>7. z \notin P => z.time # t
    BY <2>2, <2>3
  <2> QED
    BY <2>2, <2>3, <2>4, <2>5, <2>6, <2>7
<1> QED
  BY <1>4, <1>5

LEMMA LeftBegin ==
  ASSUME IInv, CInv, NEW p \in Pollers, BeginSweep(p)
  PROVE  LeftOK(p)'
<1>1. /\ sweep'[p] = NewSweep /\ atStart'[p] = store /\ pc'[p] = "list"
      /\ store' = store /\ now' = now /\ store \subseteq written /\ written' = written
  BY DEF BeginSweep, IInv, IdsOK, TypeOK, world, rows
<1>2. now \in Nat /\ \A r \in store : r.time \in Nat /\ r.time <= now
  BY DEF CInv, IInv, TypeOK, Row
<1>3. ToList(p)'
  <2>1. sweep'[p].to = now
    BY <1>1 DEF NewSweep
  <2> QED
    BY <1>1, <1>2, <2>1 DEF ToList
<1>4. sweep'[p].page < MaxPages
  BY <1>1, PageAssumption DEF NewSweep
<1> QED
  BY <1>1, <1>3, <1>4 DEF LeftOK

(* What is in the store has its superseder there, or a newer one: if that  *)
(* is above the window its key is anchored, else it is on the page.        *)
LEMMA LeftList ==
  ASSUME IInv, CInv, NEW p \in Pollers, Untied(p), ListPage(p)
  PROVE  LeftOK(p)'
<1>1. PICK P \in SUBSET store, t \in {0} \cup {r.time : r \in store} :
        /\ IsPage(P, store, 1, sweep[p].to, Limit)
        /\ IsOldest(t, P)
        /\ sweep' = [sweep EXCEPT ![p] = Listed(@, P, t)]
  BY DEF ListPage
<1>2. /\ sweep[p] \in Sweep /\ pc[p] = "list" /\ pc'[p] = "delete"
      /\ store' = store /\ written' = written /\ atStart' = atStart
      /\ store \subseteq Row /\ atStart[p] \subseteq Row
  BY DEF ListPage, IInv, TypeOK, rows
<1>3. /\ sweep'[p].keep = Anchored(P, sweep[p].keep)
      /\ sweep'[p].pend = prunableDeploys(P, sweep[p].cutoff, sweep[p].keep)
      /\ sweep'[p].full = (Cardinality(P) = Limit)
      /\ sweep'[p].oldest = t
      /\ sweep'[p].to = sweep[p].to
      /\ sweep'[p].cutoff = sweep[p].cutoff
      /\ sweep'[p].page = sweep[p].page
  BY <1>1, <1>2 DEF IInv, TypeOK, Listed, Sweep
<1>4. LeftOK(p) /\ ToList(p)
  BY <1>2 DEF CInv, Sweeping, LeftOK
<1>5. sweep[p].to \in Int /\ sweep[p].to >= 1
  BY <1>2 DEF IInv, SweepOK, WindowOK, Sweep
<1>6. \A x, y \in store : x.time = y.time => x = y
  BY <1>4 DEF LeftOK, Untied
<1>7. ASSUME NEW z \in store, z.time <= sweep[p].to
      PROVE  /\ ~sweep'[p].full => z \in P
             /\ sweep'[p].full => t <= sweep[p].to /\ (z \in P <=> z.time >= t)
  <2>1. IsFiniteSet(store)
    BY DEF CInv
  <2>2. /\ Cardinality(P) # Limit => z \in P
        /\ Cardinality(P) = Limit => t <= sweep[p].to /\ (z \in P <=> z.time >= t)
    <3>1. store \subseteq Row /\ IsPage(P, store, 1, sweep[p].to, Limit) /\ IsOldest(t, P)
      BY <1>1, <1>2
    <3> QED
      BY <1>5, <1>6, <1>7, <2>1, <3>1, PageHolds
  <2> QED
    BY <1>3, <2>2
<1>8. Backlog(p)' = Backlog(p)
  BY <1>2, <1>3 DEF Backlog
<1>9. ASSUME NEW x \in Backlog(p) \cap store, x \in P
      PROVE  x \in sweep'[p].pend
  <2>1. PICK y \in atStart[p] : Supersedes(y, x)
    BY DEF Backlog
  <2>2. PICK z \in store : z = y \/ Supersedes(z, y)
    BY <1>4, <2>1 DEF IInv, AnchorKept, LeftOK, Supersedes
  <2>3. x \in Row /\ y \in Row /\ z \in Row
    BY <1>2
  <2>4. Supersedes(z, x) /\ z # x
    BY <2>1, <2>2, <2>3, NewerOrder DEF Supersedes
  <2>5. Eligible(x) /\ x.time < sweep[p].cutoff
    BY DEF Backlog
  <2>6. CASE z \in P
    BY <1>3, <1>9, <2>4, <2>5, <2>6 DEF prunableDeploys, Supersedes
  <2>7. CASE z \notin P
    <3>1. z.time >= x.time
      BY <2>3, <2>4 DEF Supersedes, Newer, Row
    <3>2. x.time <= sweep[p].to
      BY <1>1, <1>5, <1>9, PageInWindow
    <3>3. ~(z.time <= sweep[p].to)
      <4> SUFFICES ASSUME z.time <= sweep[p].to PROVE FALSE
        OBVIOUS
      <4>1. sweep'[p].full /\ ~(z.time >= t) /\ x.time >= t
        BY <1>7, <1>9, <2>7, <3>2
      <4>2. t \in Nat
        BY <1>2 , <1>3 DEF Row
      <4> QED
        BY <2>3, <3>1, <4>1, <4>2 DEF Row
    <3>4. z.time > sweep[p].to
      BY <1>5, <2>3, <3>3 DEF Row
    <3>5. x.key \in sweep[p].keep
      BY <1>4, <2>4, <3>4 DEF ToList, Supersedes
    <3> QED
      BY <1>3, <1>9, <2>5, <3>5 DEF prunableDeploys
  <2> QED
    BY <2>6, <2>7
<1>10. \A x \in Backlog(p) \cap store :
         x \in sweep'[p].pend \/ (sweep'[p].full /\ x.time < t)
  <2> TAKE x \in Backlog(p) \cap store
  <2>1. x.time <= sweep[p].to
    BY <1>4 DEF ToList
  <2>2. x.time \in Nat /\ t \in Nat
    BY <1>2 DEF Row
  <2>3. x \in P \/ (sweep'[p].full /\ ~(x.time >= t))
    BY <1>7, <2>1
  <2> QED
    BY <1>9, <2>2, <2>3
<1>11. ASSUME sweep'[p].full
       PROVE  /\ t <= sweep[p].to
              /\ \A z \in store : Eligible(z) /\ z.time >= t => z.key \in sweep'[p].keep
  <2>1. P # {}
    BY <1>3, <1>11, FS_EmptySet, PageAssumption
  <2>2. PICK r \in P : TRUE
    BY <2>1
  <2>3. r.time <= sweep[p].to
    BY <1>1, <1>5, PageInWindow
  <2>4. t <= sweep[p].to
    BY <1>7, <1>11, <2>3
  <2>5. ASSUME NEW z \in store, Eligible(z), z.time >= t
        PROVE  z.key \in Anchored(P, sweep[p].keep)
    <3>1. CASE z.time <= sweep[p].to
      BY <1>7, <1>11, <2>5, <3>1 DEF Anchored
    <3>2. CASE ~(z.time <= sweep[p].to)
      <4>1. z.time > sweep[p].to
        BY <1>2, <1>5, <3>2 DEF Row
      <4> QED
        BY <1>4, <2>5, <4>1 DEF ToList, Anchored
    <3> QED
      BY <3>1, <3>2
  <2> QED
    BY <1>3, <2>4, <2>5
<1>12. ToDelete(p)'
  BY <1>2, <1>3, <1>8, <1>10, <1>11 DEF ToDelete
<1> QED
  BY <1>2, <1>3, <1>4, <1>12 DEF LeftOK

(* Nothing is pending: what is left of the backlog lies below the page,    *)
(* and the next window begins there.                                       *)
LEMMA LeftNext ==
  ASSUME IInv, CInv, NEW p \in Pollers, Untied(p), NextPage(p)
  PROVE  LeftOK(p)'
<1>1. /\ sweep[p] \in Sweep /\ pc[p] = "delete" /\ pc'[p] = "list"
      /\ store' = store /\ written' = written /\ atStart' = atStart
      /\ sweep[p].pend = {} /\ sweep[p].full /\ sweep[p].page + 1 < MaxPages
      /\ store \subseteq Row
  BY DEF NextPage, MorePages, IInv, TypeOK, rows
<1>2. /\ sweep'[p].to = sweep[p].oldest - 1
      /\ sweep'[p].keep = sweep[p].keep
      /\ sweep'[p].cutoff = sweep[p].cutoff
      /\ sweep'[p].page = sweep[p].page + 1
  BY <1>1 DEF NextPage, IInv, TypeOK, Sweep
<1>3. LeftOK(p) /\ ToDelete(p)
  BY <1>1 DEF CInv, Sweeping, LeftOK
<1>4. Backlog(p)' = Backlog(p)
  BY <1>1, <1>2 DEF Backlog
<1>5. sweep[p].oldest \in Nat /\ \A z \in store : z.time \in Nat
  BY <1>1 DEF Sweep, Row
<1>6. \A z \in store : Eligible(z) /\ z.time > sweep[p].oldest - 1 => z.key \in sweep[p].keep
  <2> TAKE z \in store
  <2>1. z.time > sweep[p].oldest - 1 => z.time >= sweep[p].oldest
    BY <1>5
  <2> QED
    BY <1>1, <1>3, <2>1 DEF ToDelete
<1>7. \A x \in Backlog(p) \cap store : x.time <= sweep[p].oldest - 1
  <2> TAKE x \in Backlog(p) \cap store
  <2>1. x.time < sweep[p].oldest
    BY <1>1, <1>3 DEF ToDelete
  <2> QED
    BY <1>5, <2>1
<1>8. ToList(p)'
  BY <1>1, <1>2, <1>4, <1>6, <1>7 DEF ToList
<1> QED
  BY <1>1, <1>2, <1>3, <1>8 DEF LeftOK

(* Without failures, what is no longer pending is gone.                    *)
LEMMA LeftDelete ==
  ASSUME Quiet, IInv, CInv, NEW p \in Pollers, Untied(p), DeleteNext(p)
  PROVE  LeftOK(p)'
<1>1. PICK x \in sweep[p].pend :
        /\ store' = {r \in store : r.id # x.id}
        /\ sweep' = [sweep EXCEPT ![p].pend = @ \ {x}]
  BY DEF DeleteNext, deleteAnnotation, Quiet
<1>2. /\ sweep[p] \in Sweep /\ pc[p] = "delete" /\ pc' = pc
      /\ written' = written /\ atStart' = atStart
  BY DEF DeleteNext, IInv, TypeOK
<1>3. /\ sweep'[p].pend = sweep[p].pend \ {x}
      /\ sweep'[p].keep = sweep[p].keep
      /\ sweep'[p].to = sweep[p].to
      /\ sweep'[p].full = sweep[p].full
      /\ sweep'[p].oldest = sweep[p].oldest
      /\ sweep'[p].page = sweep[p].page
      /\ sweep'[p].cutoff = sweep[p].cutoff
  BY <1>1, <1>2 DEF IInv, TypeOK, Sweep
<1>4. LeftOK(p) /\ ToDelete(p)
  BY <1>2 DEF CInv, Sweeping, LeftOK
<1>5. Backlog(p)' = Backlog(p)
  BY <1>2, <1>3 DEF Backlog
<1>6. store' \subseteq store /\ x \notin store'
  BY <1>1
<1>7. ToDelete(p)'
  BY <1>3, <1>4, <1>5, <1>6 DEF ToDelete
<1> QED
  BY <1>2, <1>3, <1>4, <1>6, <1>7 DEF LeftOK

(* In a quiet world rows are only ever deleted.                            *)
LEMMA NothingPosted ==
  ASSUME Quiet, TypeOK, [Next]_vars
  PROVE  store' \subseteq store /\ written' = written /\ now' \in Nat /\ now' >= now
<1>1. TypeOK' /\ now \in Nat /\ now' \in Nat
  BY TypeStep DEF TypeOK
<1>2. CASE Tick \/ UNCHANGED vars
  BY <1>1, <1>2 DEF Tick, vars, world, rows
<1>3. ASSUME NEW p \in Pollers, Poller(p) \/ Restart(p)
      PROVE  store' \subseteq store /\ written' = written /\ now' = now
  <2>1. CASE FetchDeployments(p) \/ Rest(p) \/ BeginSweep(p) \/ ListPage(p) \/ NextPage(p)
    BY <2>1 DEF FetchDeployments, Rest, BeginSweep, ListPage, NextPage, world, rows
  <2>2. CASE ListFails(p) \/ SweepDone(p) \/ Restart(p)
    BY <2>2 DEF ListFails, SweepDone, EndSweep, Restart, world, rows
  <2>3. CASE DeleteNext(p)
    BY <2>3 DEF DeleteNext, deleteAnnotation, world
  <2>4. ~WriteMarker(p) /\ ~\E d \in Deployments : SkipDeployment(p, d) \/ ProbeAbsent(p, d)
    BY DEF WriteMarker, TypeOK, Quiet
  <2> QED
    BY <1>3, <2>1, <2>2, <2>3, <2>4 DEF Poller
<1>4. ~(\E d \in Deployments : Publish(d)) /\ ~(\E m \in ForeignMarkers : ForeignPost(m))
  BY DEF Quiet
<1> QED
  BY <1>1, <1>2, <1>3, <1>4 DEF Next

LEMMA LeftInit == ASSUME Quiet, Init PROVE CInv
BY DEF Init, Quiet, CInv, Sweeping

LEMMA LeftStep == ASSUME Quiet, IInv, CInv, [Next]_vars PROVE CInv'
<1>1. TypeOK /\ TypeOK'
  BY TypeStep DEF IInv
<1>2. store' \subseteq store /\ written' = written /\ now' \in Nat /\ now' >= now
  BY <1>1, NothingPosted
<1>3. IsFiniteSet(store')
  BY <1>2, FS_Subset DEF CInv
<1>4. \A r \in store' : r.time <= now'
  <2> TAKE r \in store'
  <2>1. r \in store /\ r.time \in Nat /\ r.time <= now /\ now \in Nat
    BY <1>1, <1>2 DEF CInv, TypeOK, Row
  <2> QED
    BY <1>2, <2>1
<1>5. ASSUME NEW q \in Pollers, Sweeping(q), Untied(q),
             sweep'[q] = sweep[q], atStart'[q] = atStart[q], pc'[q] = pc[q]
      PROVE  LeftOK(q)'
  BY <1>2, <1>5, LeftFrame DEF CInv
<1>6. ASSUME NEW q \in Pollers, Sweeping(q)', Untied(q)'
      PROVE  LeftOK(q)'
  <2>1. CASE Tick \/ UNCHANGED vars
    <3>1. sweep' = sweep /\ atStart' = atStart /\ pc' = pc
      BY <2>1 DEF Tick, vars
    <3> QED
      BY <1>5, <1>6, <3>1 DEF Sweeping, Untied
  <2>2. ASSUME NEW p \in Pollers, Poller(p) \/ Restart(p), p # q
        PROVE  LeftOK(q)'
    <3>1. sweep'[q] = sweep[q] /\ atStart'[q] = atStart[q] /\ pc'[q] = pc[q]
      <4>1. CASE FetchDeployments(p) \/ Rest(p) \/ BeginSweep(p) \/ ListPage(p) \/ NextPage(p)
        BY <1>1, <2>2, <4>1
           DEF FetchDeployments, Rest, BeginSweep, ListPage, NextPage, TypeOK
      <4>2. CASE ListFails(p) \/ SweepDone(p) \/ Restart(p)
        BY <1>1, <2>2, <4>2 DEF ListFails, SweepDone, EndSweep, Restart, TypeOK
      <4>3. CASE DeleteNext(p)
        BY <1>1, <2>2, <4>3 DEF DeleteNext, TypeOK
      <4>4. CASE WriteMarker(p) \/ \E d \in Deployments : SkipDeployment(p, d) \/ ProbeAbsent(p, d)
        BY <1>1, <4>4 DEF WriteMarker, Quiet, TypeOK
      <4> QED
        BY <2>2, <4>1, <4>2, <4>3, <4>4 DEF Poller
    <3> QED
      BY <1>5, <1>6, <3>1 DEF Sweeping, Untied
  <2>3. CASE Poller(q) \/ Restart(q)
    <3>1. CASE FetchDeployments(q) \/ Rest(q) \/ ListFails(q) \/ SweepDone(q) \/ Restart(q)
      BY <1>1, <1>6, <3>1 DEF FetchDeployments, Rest, ListFails, SweepDone, EndSweep,
         Restart, TypeOK, Sweeping
    <3>2. CASE WriteMarker(q) \/ \E d \in Deployments : SkipDeployment(q, d) \/ ProbeAbsent(q, d)
      BY <1>1, <3>2 DEF WriteMarker, Quiet, TypeOK
    <3>3. CASE BeginSweep(q)
      BY <3>3, LeftBegin
    <3>4. CASE ListPage(q)
      BY <1>6, <3>4, LeftList DEF ListPage, Untied
    <3>5. CASE NextPage(q)
      BY <1>6, <3>5, LeftNext DEF NextPage, Untied
    <3>6. CASE DeleteNext(q)
      BY <1>6, <3>6, LeftDelete DEF DeleteNext, Untied
    <3> QED
      BY <2>3, <3>1, <3>2, <3>3, <3>4, <3>5, <3>6 DEF Poller
  <2>4. ~(\E d \in Deployments : Publish(d)) /\ ~(\E m \in ForeignMarkers : ForeignPost(m))
    BY DEF Quiet
  <2> QED
    BY <2>1, <2>2, <2>3, <2>4 DEF Next
<1> QED
  BY <1>3, <1>4, <1>6 DEF CInv

(* When no call fails and nothing is posted meanwhile, a sweep that does   *)
(* not run out of pages leaves none of the superseded markers behind that  *)
(* it started from, whatever other sweeps delete under it, for any number  *)
(* of pollers, markers and pages of any size (pruneDeployAnnotations).     *)
THEOREM SweepsAreComplete == ASSUME Quiet PROVE Spec => SweepComplete
<1> DEFINE Complete == \A p \in Pollers :
             (/\ SweepEnds(p)
              /\ ~(sweep[p].full /\ sweep[p].page + 1 = MaxPages)
              /\ \A x, y \in atStart[p] : x.time = y.time => x = y)
             => Backlog(p) \cap store' = {}
<1>1. ASSUME IInv, CInv, [Next]_vars, NEW p \in Pollers, SweepEnds(p),
             ~(sweep[p].full /\ sweep[p].page + 1 = MaxPages), Untied(p),
             NEW x \in Backlog(p) \cap store'
      PROVE  FALSE
  <2>1. store' \subseteq store /\ TypeOK
    BY <1>1, NothingPosted DEF IInv
  <2>2. /\ LeftOK(p) /\ ToDelete(p) /\ sweep[p] \in Sweep /\ x \in store
        /\ x.time \in Nat \ {0}
    BY <1>1, <2>1 DEF CInv, Sweeping, SweepEnds, LeftOK, TypeOK, Row
  <2>3. sweep[p].pend = {} /\ ~MorePages(p)
    <3>1. SweepDone(p)
      <4>1. CASE Tick \/ UNCHANGED vars
        BY <1>1, <4>1 DEF Tick, vars, SweepEnds
      <4>2. CASE \E d \in Deployments : Publish(d)
        BY <4>2 DEF Quiet
      <4>3. CASE \E m \in ForeignMarkers : ForeignPost(m)
        BY <4>3 DEF Quiet
      <4>4. ASSUME NEW q \in Pollers, Poller(q) \/ Restart(q)
            PROVE  SweepDone(p)
        BY <1>1, <2>1, <4>4 DEF Poller, FetchDeployments, SkipDeployment, ProbeAbsent,
           WriteMarker, Rest, BeginSweep, ListPage, ListFails, DeleteNext, NextPage,
           SweepDone, EndSweep, Restart, SweepEnds, Quiet, TypeOK
      <4> QED
        BY <1>1, <4>1, <4>2, <4>3, <4>4 DEF Next
    <3> QED
      BY <3>1 DEF SweepDone
  <2>4. sweep[p].full /\ x.time < sweep[p].oldest /\ sweep[p].oldest <= sweep[p].to
    BY <1>1, <2>2, <2>3 DEF ToDelete
  <2>5. sweep[p].oldest \in Nat /\ 1 < sweep[p].oldest
    BY <2>2, <2>4 DEF Sweep
  <2>6. sweep[p].page + 1 < MaxPages
    BY <1>1, <2>2, <2>4, PageAssumption DEF LeftOK, Sweep
  <2> QED
    BY <2>3, <2>4, <2>5, <2>6 DEF MorePages
<1>2. IInv /\ CInv /\ [Next]_vars => [Complete]_vars
  BY <1>1 DEF Untied
<1>3. Init => CInv
  BY LeftInit
<1>4. IInv /\ CInv /\ [Next]_vars => CInv'
  BY LeftStep
<1> QED
  BY <1>2, <1>3, <1>4, Invariant, PTL DEF Spec, SweepComplete

=============================================================================
