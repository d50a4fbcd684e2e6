----------------------------- MODULE Favorites -----------------------------
(***************************************************************************)
(* The favourite services of one user on several devices:                  *)
(* src/utils/favoritesStorage.ts keeps them in the local storage of a      *)
(* browser, shared by its tabs, and src/utils/useFavoritesSync.ts in the   *)
(* user storage of Grafana, which is read when the app is opened and       *)
(* written, as a whole, a second after the last change.                    *)
(*                                                                         *)
(* The storage of the user may fail to be read or written; the calls of a  *)
(* tab need not arrive in the order they were made.                        *)
(*                                                                         *)
(* Definitions marked "Slip" are wrong variants of the one that follows    *)
(* them.  The specification uses none; each breaks a property below.       *)
(***************************************************************************)
EXTENDS Integers, FiniteSets

CONSTANTS
  Tabs,         \* tabs the app may be opened in
  browser,      \* the browser of a tab
  Keys,         \* services, by namespace and name
  Starts,       \* what the user storage may hold to begin with
  MaxToggles,   \* bound of the toggles
  MaxOpens,     \* bound of how often the app is opened
  None          \* the user storage holds nothing

VARIABLES
  remote,    \* the user storage
  local,     \* the local storage of every browser
  snap,      \* the favourites of a tab, None where the app is closed
  hydrated,  \* of a tab: "asking", "seeding", "yes", or "alone" if it failed
  reply,     \* what a tab was told is stored, {} until it is told
  due,       \* a write of the tab waits for the debounce
  events,    \* how many storage events a tab has not handled
  writes,    \* writes to the user storage that are on their way
  history,   \* what was stored at first, what was toggled, and two exceptions
  count      \* toggles and openings so far

vars == <<remote, local, snap, hydrated, reply, due, events, writes, history, count>>

(* The user storage holds nothing or a set of services, and nothing is no  *)
(* set.                                                                    *)
ASSUME FavoritesAssumption ==
  /\ Starts \subseteq {None} \cup SUBSET Keys
  /\ \A keys \in SUBSET Keys : keys # None
  /\ MaxToggles \in Nat /\ MaxOpens \in Nat

Browsers == {browser[t] : t \in Tabs}
Open(t) == snap[t] # None

(* Slip: the listener of a tab that was closed stays registered.           *)
SiblingsEver(t) == {u \in Tabs : browser[u] = browser[t] /\ u # t}

(* The storage events of a browser go to its other open tabs.              *)
Siblings(t) == {u \in Tabs : browser[u] = browser[t] /\ u # t /\ Open(u)}

(* A browser may remember anything from an earlier visit.                  *)
Init ==
  /\ remote \in Starts
  /\ local \in [Browsers -> SUBSET Keys]
  /\ snap = [t \in Tabs |-> None]
  /\ hydrated = [t \in Tabs |-> "asking"]
  /\ reply = [t \in Tabs |-> {}]
  /\ due = [t \in Tabs |-> FALSE]
  /\ events = [t \in Tabs |-> 0]
  /\ writes = {}
  /\ history = [began |-> remote, toggled |-> {}, alone |-> FALSE, blind |-> FALSE]
  /\ count = [toggles |-> 0, opens |-> 0]

(* The store loads what the browser has; the hook asks the user storage.   *)
OpenApp(t) ==
  /\ ~Open(t) /\ count.opens < MaxOpens
  /\ count' = [count EXCEPT !.opens = @ + 1]
  /\ snap' = [snap EXCEPT ![t] = local[browser[t]]]
  /\ hydrated' = [hydrated EXCEPT ![t] = "asking"]
  /\ reply' = [reply EXCEPT ![t] = {}]
  /\ UNCHANGED <<remote, local, due, events, writes, history>>

(* The timer of a write that waits dies with the app, a write that has     *)
(* been sent does not.                                                     *)
CloseApp(t) ==
  /\ Open(t)
  /\ snap' = [snap EXCEPT ![t] = None]
  /\ due' = [due EXCEPT ![t] = FALSE]
  /\ events' = [events EXCEPT ![t] = 0]
  /\ writes' = {[w EXCEPT !.tab = IF @ = t THEN None ELSE @] : w \in writes}
  /\ UNCHANGED <<remote, local, hydrated, reply, history, count>>

(* Slip: a tab writes what it has before it knows what is stored.          *)
SyncAlways(t) == TRUE

(* Subscribers are told; the one that writes waits for the hydration.      *)
Syncs(t) == hydrated[t] \in {"yes", "alone"}

(* A set is stored in the browser, and the other tabs get an event.        *)
save(t, keys) ==
  /\ local' = [local EXCEPT ![browser[t]] = keys]
  /\ events' = [u \in Tabs |-> events[u] + IF u \in Siblings(t) THEN 1 ELSE 0]

toggle(t, k) ==
  /\ Open(t) /\ count.toggles < MaxToggles
  /\ count' = [count EXCEPT !.toggles = @ + 1]
  /\ LET next == IF k \in snap[t] THEN snap[t] \ {k} ELSE snap[t] \cup {k}
     IN  snap' = [snap EXCEPT ![t] = next] /\ save(t, next)
  /\ due' = [due EXCEPT ![t] = @ \/ Syncs(t)]
  /\ history' = [history EXCEPT !.toggled = @ \cup {k},
                                !.blind = @ \/ (~Syncs(t) /\ Siblings(t) # {})]
  /\ UNCHANGED <<remote, hydrated, reply, writes>>

(* Slip: a tab that is not hydrated leaves the events to the hydration.    *)
LoadIfSyncing(t) == IF Syncs(t) THEN local[browser[t]] ELSE snap[t]

(* The set is loaded from the storage, whatever the event said.            *)
load(t) == local[browser[t]]

handleStorageEvent(t) ==
  /\ Open(t) /\ events[t] > 0
  /\ snap' = [snap EXCEPT ![t] = load(t)]
  /\ events' = [events EXCEPT ![t] = @ - 1]
  /\ due' = [due EXCEPT ![t] = @ \/ Syncs(t)]
  /\ UNCHANGED <<remote, local, hydrated, reply, writes, history, count>>

(* The user storage is read; the reply is on its way.                      *)
Read(t) ==
  /\ Open(t) /\ hydrated[t] = "asking" /\ reply[t] = {}
  /\ reply' = [reply EXCEPT ![t] = {remote}]
  /\ UNCHANGED <<remote, local, snap, hydrated, due, events, writes, history, count>>

(* What is stored replaces what the browser remembers.  The subscriber is  *)
(* told before the tab is hydrated: nothing is written back.               *)
HydrateFrom(t, stored) ==
  /\ stored # None
  /\ snap' = [snap EXCEPT ![t] = stored] /\ save(t, stored)
  /\ hydrated' = [hydrated EXCEPT ![t] = "yes"]
  /\ UNCHANGED writes

(* Nothing stored is seeded from what the browser remembers.               *)
Seed(t, stored) ==
  /\ stored = None
  /\ hydrated' = [hydrated EXCEPT ![t] = IF snap[t] = {} THEN "yes" ELSE "seeding"]
  /\ writes' = IF snap[t] = {} THEN writes ELSE writes \cup {[tab |-> t, keys |-> snap[t]]}
  /\ UNCHANGED <<snap, local, events>>

hydrate(t) ==
  /\ Open(t) /\ hydrated[t] = "asking"
  /\ \E stored \in reply[t] : HydrateFrom(t, stored) \/ Seed(t, stored)
  /\ reply' = [reply EXCEPT ![t] = {}]
  /\ UNCHANGED <<remote, due, history, count>>

(* A storage that cannot be read is left out, until the next toggle.       *)
HydrateFails(t) ==
  /\ Open(t) /\ hydrated[t] = "asking"
  /\ hydrated' = [hydrated EXCEPT ![t] = "alone"]
  /\ reply' = [reply EXCEPT ![t] = {}]
  /\ history' = [history EXCEPT !.alone = TRUE]
  /\ UNCHANGED <<remote, local, snap, due, events, writes, count>>

(* A second after the last change the whole set is written.                *)
Debounced(t) ==
  /\ due[t]
  /\ due' = [due EXCEPT ![t] = FALSE]
  /\ writes' = writes \cup {[tab |-> t, keys |-> snap[t]]}
  /\ UNCHANGED <<remote, local, snap, hydrated, reply, events, history, count>>

(* A write arrives, or is lost; one that seeded lets the tab write.        *)
Land(w) ==
  /\ w \in writes /\ writes' = writes \ {w}
  /\ remote' \in {w.keys, remote}
  /\ hydrated' = [t \in Tabs |-> IF w.tab = t /\ hydrated[t] = "seeding" THEN "yes" ELSE hydrated[t]]
  /\ UNCHANGED <<local, snap, reply, due, events, history, count>>

Next ==
  \/ \E t \in Tabs : \/ OpenApp(t) \/ CloseApp(t) \/ handleStorageEvent(t)
                     \/ Read(t) \/ hydrate(t) \/ HydrateFails(t) \/ Debounced(t)
  \/ \E t \in Tabs, k \in Keys : toggle(t, k)
  \/ \E w \in writes : Land(w)

Spec == Init /\ [][Next]_vars

-----------------------------------------------------------------------------
(* Sets of services everywhere, and a tab that is closed owes nothing.     *)
FavoritesTypeOK ==
  /\ remote \in {None} \cup SUBSET Keys
  /\ local \in [Browsers -> SUBSET Keys]
  /\ \A t \in Tabs : snap[t] \in {None} \cup SUBSET Keys
  /\ \A t \in Tabs : due[t] \/ events[t] > 0 => Open(t)

(* Tabs of a browser show the same favourites, and those are the ones the  *)
(* browser remembers, once they have handled their storage events, however *)
(* they toggled meanwhile (favoritesStorage.ts handleStorageEvent).        *)
TabsAgree == \A t \in Tabs : Open(t) /\ events[t] = 0 => snap[t] = local[browser[t]]

(* A favourite that is stored for the user, and that nobody toggles, is    *)
(* never lost because some device or tab remembers less, however stale     *)
(* what it remembers and whatever order the writes arrive in               *)
(* (useFavoritesSync.ts:113).  Two exceptions are left out: a device whose *)
(* read failed, and a toggle in a tab that is not hydrated beside an open  *)
(* sibling that is, which writes for it (see NeverWritesStale).            *)
UntouchedStay ==
  history.began # None /\ ~history.alone /\ ~history.blind
    => history.began \ history.toggled \subseteq remote

(* useFavoritesSync.ts:113 says that a tab that is not hydrated writes     *)
(* nothing, "to avoid writing stale local state back to remote": as long   *)
(* as every read succeeds no favourite that nobody toggled is lost.  The   *)
(* code loses it: a toggle in such a tab is stored in the browser, and a   *)
(* sibling that is hydrated writes what it loads from there.               *)
NeverWritesStale ==
  history.began # None /\ ~history.alone => history.began \ history.toggled \subseteq remote

=============================================================================
