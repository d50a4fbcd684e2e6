--------------------------- MODULE UserDataProofs ---------------------------
(***************************************************************************)
(* Proofs about UserData: the favourites, the table of issues and the      *)
(* configuration page, for every set of tabs, browsers, services, issues,  *)
(* environments and data sources, and any number of steps.  Each part has  *)
(* an invariant of its own (KInv, TableInv, FormTyped), and no part knows  *)
(* what the others do.                                                     *)
(***************************************************************************)
EXTENDS UserData, OrderingProofs, SequenceTheorems, TLAPS

-----------------------------------------------------------------------------
(* The favourites.                                                         *)

Remembered == {None} \cup SUBSET Keys
Hydration == {"asking", "seeding", "yes", "alone"}
Write == [tab : Tabs \cup {None}, keys : SUBSET Keys]

(* The types the run does not need to look at.                             *)
FavoritesTyped ==
  /\ remote \in Remembered
  /\ local \in [Browsers -> SUBSET Keys]
  /\ snap \in [Tabs -> Remembered]
  /\ hydrated \in [Tabs -> Hydration]
  /\ reply \in [Tabs -> SUBSET Remembered]
  /\ due \in [Tabs -> BOOLEAN]
  /\ events \in [Tabs -> Nat]
  /\ writes \subseteq Write
  /\ history \in [began : Remembered, toggled : SUBSET Keys, alone : BOOLEAN, blind : BOOLEAN]
  /\ count \in [toggles : Nat, opens : Nat]

(* A tab that is closed owes nothing.                                      *)
ClosedOwesNothing == \A t \in Tabs : due[t] \/ events[t] > 0 => Open(t)

TInv == FavoritesTyped /\ ClosedOwesNothing

(* Nothing is no set of services.                                          *)
LEMMA NoneIsNoSet == ASSUME NEW x \in Remembered, x # None PROVE x \in SUBSET Keys
BY DEF Remembered

LEMMA SetIsNotNone == ASSUME NEW x \in SUBSET Keys PROVE x # None
BY FavoritesAssumption

-----------------------------------------------------------------------------
(* Type correctness.                                                       *)

LEMMA TypeInit == Init => TInv
<1> SUFFICES ASSUME Init PROVE TInv
  OBVIOUS
<1>1. FavoritesTyped
  BY FavoritesAssumption DEF Init, FavoritesTyped, Remembered, Hydration, Write
<1>2. ClosedOwesNothing
  BY DEF Init, ClosedOwesNothing
<1> QED
  BY <1>1, <1>2 DEF TInv

(* What save leaves in the browser and in the queues of the other tabs.    *)
LEMMA SaveType ==
  ASSUME FavoritesTyped, NEW t \in Tabs, NEW keys \in SUBSET Keys, save(t, keys)
  PROVE  /\ local' \in [Browsers -> SUBSET Keys]
         /\ local'[browser[t]] = keys
         /\ \A b \in Browsers : b # browser[t] => local'[b] = local[b]
         /\ events' \in [Tabs -> Nat]
         /\ \A u \in Tabs : u \in Siblings(t) => events'[u] = events[u] + 1
         /\ \A u \in Tabs : u \notin Siblings(t) => events'[u] = events[u]
BY DEF save, FavoritesTyped, Browsers

LEMMA TypeStep == TInv /\ [Next]_vars => TInv'
<1> SUFFICES ASSUME TInv, [Next]_vars PROVE TInv'
  OBVIOUS
<1> USE DEF TInv
<1>1. ASSUME NEW t \in Tabs, OpenApp(t) PROVE TInv'
  <2>1. browser[t] \in Browsers
    BY DEF Browsers
  <2>2. local[browser[t]] \in SUBSET Keys
    BY <2>1 DEF FavoritesTyped
  <2>3. local[browser[t]] # None
    BY <2>2, SetIsNotNone
  <2>4. FavoritesTyped'
    BY <1>1, <2>2 DEF OpenApp, FavoritesTyped, Remembered, Hydration, Browsers
  <2>5. ClosedOwesNothing'
    BY <1>1, <2>3 DEF OpenApp, ClosedOwesNothing, Open, FavoritesTyped
  <2> QED
    BY <2>4, <2>5
<1>2. ASSUME NEW t \in Tabs, CloseApp(t) PROVE TInv'
  <2>1. writes' \subseteq Write
    BY <1>2 DEF CloseApp, FavoritesTyped, Write
  <2>2. FavoritesTyped'
    BY <1>2, <2>1 DEF CloseApp, FavoritesTyped, Remembered
  <2>3. ClosedOwesNothing'
    BY <1>2 DEF CloseApp, ClosedOwesNothing, Open, FavoritesTyped
  <2> QED
    BY <2>2, <2>3
<1>3. ASSUME NEW t \in Tabs, NEW k \in Keys, toggle(t, k) PROVE TInv'
  <2> DEFINE next == IF k \in snap[t] THEN snap[t] \ {k} ELSE snap[t] \cup {k}
  <2>1. snap[t] \in SUBSET Keys
    BY <1>3, NoneIsNoSet DEF toggle, Open, FavoritesTyped
  <2>2. next \in SUBSET Keys
    BY <2>1
  <2>3. snap' = [snap EXCEPT ![t] = next] /\ save(t, next)
    BY <1>3 DEF toggle
  <2> HIDE DEF next
  <2>4. next # None
    BY <2>2, SetIsNotNone
  <2>5. /\ local' \in [Browsers -> SUBSET Keys]
        /\ events' \in [Tabs -> Nat]
        /\ \A u \in Tabs : events'[u] > 0 => events[u] > 0 \/ u \in Siblings(t)
    BY <2>2, <2>3, SaveType
  <2>6. due' \in [Tabs -> BOOLEAN] /\ \A u \in Tabs : due'[u] => due[u] \/ u = t
    BY <1>3 DEF toggle, FavoritesTyped
  <2>7. /\ history' \in [began : Remembered, toggled : SUBSET Keys, alone : BOOLEAN, blind : BOOLEAN]
        /\ count' \in [toggles : Nat, opens : Nat]
    <3> DEFINE b == history.blind \/ (~Syncs(t) /\ Siblings(t) # {})
    <3>1. history' = [history EXCEPT !.toggled = @ \cup {k}, !.blind = b]
      BY <1>3 DEF toggle
    <3>2. b \in BOOLEAN
      OBVIOUS
    <3> HIDE DEF b
    <3>3. history \in [began : Remembered, toggled : SUBSET Keys, alone : BOOLEAN, blind : BOOLEAN]
      BY DEF FavoritesTyped
    <3>4. history' \in [began : Remembered, toggled : SUBSET Keys, alone : BOOLEAN, blind : BOOLEAN]
      BY <3>1, <3>2, <3>3
    <3>5. count' \in [toggles : Nat, opens : Nat]
      BY <1>3 DEF toggle, FavoritesTyped
    <3> QED
      BY <3>4, <3>5
  <2>8. snap' \in [Tabs -> Remembered]
    BY <2>2, <2>3 DEF FavoritesTyped, Remembered
  <2>9. FavoritesTyped'
    BY <1>3, <2>5, <2>6, <2>7, <2>8 DEF toggle, FavoritesTyped, Browsers
  <2>10. ClosedOwesNothing'
    BY <1>3, <2>3, <2>4, <2>5, <2>6 DEF toggle, ClosedOwesNothing, Open, Siblings, FavoritesTyped
  <2> QED
    BY <2>9, <2>10
<1>4. ASSUME NEW t \in Tabs, handleStorageEvent(t) PROVE TInv'
  <2>1. local[browser[t]] \in SUBSET Keys
    BY DEF Browsers, FavoritesTyped
  <2>2. local[browser[t]] # None
    BY <2>1, SetIsNotNone
  <2>3. FavoritesTyped'
    BY <1>4, <2>1 DEF handleStorageEvent, load, FavoritesTyped, Remembered, Browsers
  <2>4. ClosedOwesNothing'
    BY <1>4, <2>2 DEF handleStorageEvent, load, ClosedOwesNothing, Open, FavoritesTyped
  <2> QED
    BY <2>3, <2>4
<1>5. ASSUME NEW t \in Tabs, Read(t) PROVE TInv'
  BY <1>5 DEF Read, FavoritesTyped, ClosedOwesNothing, Open, Browsers
<1>6. ASSUME NEW t \in Tabs, hydrate(t) PROVE TInv'
  <2>1. PICK known \in reply[t] : HydrateFrom(t, known) \/ Seed(t, known)
    BY <1>6 DEF hydrate
  <2>2. known \in Remembered /\ snap[t] \in SUBSET Keys
    BY <1>6, <2>1, NoneIsNoSet DEF hydrate, Open, FavoritesTyped
  <2>3. CASE HydrateFrom(t, known)
    <3>1. known \in SUBSET Keys /\ known # None /\ save(t, known)
      BY <2>2, <2>3, NoneIsNoSet DEF HydrateFrom
    <3>2. /\ local' \in [Browsers -> SUBSET Keys]
          /\ events' \in [Tabs -> Nat]
          /\ \A u \in Tabs : events'[u] > 0 => events[u] > 0 \/ u \in Siblings(t)
      BY <3>1, SaveType
    <3>3. FavoritesTyped'
      BY <1>6, <2>2, <2>3, <3>2 DEF hydrate, HydrateFrom, FavoritesTyped, Hydration, Browsers
    <3>4. ClosedOwesNothing'
      BY <1>6, <2>3, <3>1, <3>2 DEF hydrate, HydrateFrom, ClosedOwesNothing, Open, Siblings, FavoritesTyped
    <3> QED
      BY <3>3, <3>4
  <2>4. CASE Seed(t, known)
    <3>1. writes' \subseteq Write
      BY <2>2, <2>4 DEF Seed, FavoritesTyped, Write
    <3>2. FavoritesTyped'
      BY <1>6, <2>4, <3>1 DEF hydrate, Seed, FavoritesTyped, Hydration, Browsers
    <3>3. ClosedOwesNothing'
      BY <1>6, <2>4 DEF hydrate, Seed, ClosedOwesNothing, Open
    <3> QED
      BY <3>2, <3>3
  <2> QED
    BY <2>1, <2>3, <2>4
<1>7. ASSUME NEW t \in Tabs, HydrateFails(t) PROVE TInv'
  BY <1>7 DEF HydrateFails, FavoritesTyped, Hydration, ClosedOwesNothing, Open, Browsers
<1>8. ASSUME NEW t \in Tabs, Debounced(t) PROVE TInv'
  <2>1. snap[t] \in SUBSET Keys
    BY <1>8, NoneIsNoSet DEF Debounced, ClosedOwesNothing, Open, FavoritesTyped
  <2>2. writes' \subseteq Write
    BY <1>8, <2>1 DEF Debounced, FavoritesTyped, Write
  <2>3. FavoritesTyped'
    BY <1>8, <2>2 DEF Debounced, FavoritesTyped, Browsers
  <2>4. ClosedOwesNothing'
    BY <1>8 DEF Debounced, ClosedOwesNothing, Open, FavoritesTyped
  <2> QED
    BY <2>3, <2>4
<1>9. ASSUME NEW w \in writes, Land(w) PROVE TInv'
  <2>1. w.keys \in SUBSET Keys
    BY DEF FavoritesTyped, Write
  <2>2. FavoritesTyped'
    BY <1>9, <2>1 DEF Land, FavoritesTyped, Remembered, Hydration, Browsers
  <2>3. ClosedOwesNothing'
    BY <1>9 DEF Land, ClosedOwesNothing, Open
  <2> QED
    BY <2>2, <2>3
<1>10. CASE UNCHANGED vars
  BY <1>10 DEF vars, FavoritesTyped, ClosedOwesNothing, Open, Browsers
<1> QED
  BY <1>1, <1>2, <1>3, <1>4, <1>5, <1>6, <1>7, <1>8, <1>9, <1>10 DEF Next

LEMMA TypeInvariant == Spec => []TInv
BY TypeInit, TypeStep, PTL DEF Spec

LEMMA FavoritesTypes == Spec => []FavoritesTypeOK
<1>1. TInv => FavoritesTypeOK
  BY DEF TInv, FavoritesTyped, Remembered, ClosedOwesNothing, FavoritesTypeOK
<1> QED
  BY <1>1, TypeInvariant, PTL

-----------------------------------------------------------------------------
(* Tabs of one browser.                                                    *)

LEMMA AgreeInit == Init => TabsAgree
BY DEF Init, TabsAgree, Open

(* Storing a set tells every other open tab, and the tab has it.           *)
LEMMA SaveAgrees ==
  ASSUME TInv, TabsAgree, NEW t \in Tabs, NEW keys \in SUBSET Keys, save(t, keys),
         snap' = [snap EXCEPT ![t] = keys]
  PROVE  TabsAgree'
<1>1. /\ local'[browser[t]] = keys
      /\ \A b \in Browsers : b # browser[t] => local'[b] = local[b]
      /\ \A u \in Tabs : u \in Siblings(t) => events'[u] = events[u] + 1
      /\ \A u \in Tabs : u \notin Siblings(t) => events'[u] = events[u]
  BY SaveType DEF TInv
<1> SUFFICES ASSUME NEW u \in Tabs, Open(u)', events'[u] = 0
             PROVE  snap'[u] = local'[browser[u]]
  BY DEF TabsAgree
<1>2. CASE u = t
  BY <1>1, <1>2 DEF TInv, FavoritesTyped
<1>3. CASE u # t /\ browser[u] = browser[t]
  <2>1. u \in Siblings(t)
    BY <1>3 DEF Siblings, Open, TInv, FavoritesTyped
  <2>2. events'[u] = events[u] + 1 /\ events[u] \in Nat
    BY <1>1, <2>1 DEF TInv, FavoritesTyped
  <2> QED
    BY <2>2
<1>4. CASE u # t /\ browser[u] # browser[t]
  BY <1>1, <1>4 DEF Siblings, Open, TInv, FavoritesTyped, TabsAgree, Browsers
<1> QED
  BY <1>2, <1>3, <1>4

LEMMA AgreeStep == TInv /\ TabsAgree /\ [Next]_vars => TabsAgree'
<1> SUFFICES ASSUME TInv, TabsAgree, [Next]_vars PROVE TabsAgree'
  OBVIOUS
<1>1. ASSUME NEW t \in Tabs, OpenApp(t) PROVE TabsAgree'
  BY <1>1 DEF OpenApp, TabsAgree, Open, TInv, FavoritesTyped
<1>2. ASSUME NEW t \in Tabs, CloseApp(t) PROVE TabsAgree'
  BY <1>2 DEF CloseApp, TabsAgree, Open, TInv, FavoritesTyped
<1>3. ASSUME NEW t \in Tabs, NEW k \in Keys, toggle(t, k) PROVE TabsAgree'
  <2>1. PICK next \in SUBSET Keys : snap' = [snap EXCEPT ![t] = next] /\ save(t, next)
    <3>1. snap[t] \in SUBSET Keys
      BY <1>3, NoneIsNoSet DEF toggle, Open, TInv, FavoritesTyped
    <3> QED
      BY <1>3, <3>1 DEF toggle
  <2> QED
    BY <2>1, SaveAgrees
<1>4. ASSUME NEW t \in Tabs, handleStorageEvent(t) PROVE TabsAgree'
  BY <1>4 DEF handleStorageEvent, load, TabsAgree, Open, TInv, FavoritesTyped
<1>5. ASSUME NEW t \in Tabs, hydrate(t) PROVE TabsAgree'
  <2>1. PICK known \in reply[t] : HydrateFrom(t, known) \/ Seed(t, known)
    BY <1>5 DEF hydrate
  <2>2. CASE HydrateFrom(t, known)
    <3>1. /\ known \in SUBSET Keys /\ save(t, known)
          /\ snap' = [snap EXCEPT ![t] = known]
      BY <2>1, <2>2, NoneIsNoSet DEF HydrateFrom, TInv, FavoritesTyped
    <3> QED
      BY <3>1, SaveAgrees
  <2>3. CASE Seed(t, known)
    BY <2>3 DEF Seed, TabsAgree, Open
  <2> QED
    BY <2>1, <2>2, <2>3
<1>6. CASE snap' = snap /\ local' = local /\ events' = events
  BY <1>6 DEF TabsAgree, Open
<1> QED
  BY <1>1, <1>2, <1>3, <1>4, <1>5, <1>6
     DEF Next, Read, HydrateFails, Debounced, Land, vars

LEMMA AgreeAlways == Spec => []TabsAgree
BY AgreeInit, AgreeStep, TypeInvariant, PTL DEF Spec

-----------------------------------------------------------------------------
(* Nothing is lost.  While no read has failed and no tab has toggled       *)
(* blindly, what was stored at first and not toggled is in everything that *)
(* may still be written: the writes on their way, the replies that tabs    *)
(* will hydrate from, and the set of every tab that may write, with the    *)
(* set of its browser that a storage event will put in its place.          *)

Judged == history.began # None /\ ~history.alone /\ ~history.blind
Kept == history.began \ history.toggled

MayWrite(t) == Open(t) /\ hydrated[t] = "yes"

KeptEverywhere ==
  /\ remote # None /\ Kept \subseteq remote
  /\ \A w \in writes : Kept \subseteq w.keys
  /\ \A t \in Tabs : \A known \in reply[t] : known # None /\ Kept \subseteq known
  /\ \A t \in Tabs : MayWrite(t) => Kept \subseteq snap[t] /\ Kept \subseteq local[browser[t]]
  /\ \A t \in Tabs : Open(t) => hydrated[t] \in {"asking", "yes"}
  /\ \A t \in Tabs : due[t] => hydrated[t] = "yes"

KInv == Judged => KeptEverywhere

LEMMA KeptInit == Init => KInv
BY DEF Init, KInv, Judged, KeptEverywhere, Kept, MayWrite, Open

(* A step that leaves history as it is keeps what is judged and kept.      *)
LEMMA SameHistory ==
  ASSUME history' = history
  PROVE  Judged' = Judged /\ Kept' = Kept
BY DEF Judged, Kept

LEMMA KeptStep == TInv /\ KInv /\ [Next]_vars => KInv'
<1> SUFFICES ASSUME TInv, KInv, [Next]_vars, Judged' PROVE KeptEverywhere'
  BY DEF KInv
<1>0. TInv'
  BY TypeStep
<1>1. ASSUME NEW t \in Tabs, OpenApp(t) PROVE KeptEverywhere'
  <2>1. KeptEverywhere /\ Kept' = Kept
    BY <1>1, SameHistory DEF OpenApp, KInv
  <2>2. ~MayWrite(t)' /\ hydrated'[t] = "asking" /\ ~due[t]
    BY <1>1 DEF OpenApp, MayWrite, TInv, FavoritesTyped, ClosedOwesNothing
  <2>3. \A u \in Tabs : u # t => /\ MayWrite(u)' = MayWrite(u) /\ Open(u)' = Open(u)
                                 /\ snap'[u] = snap[u] /\ hydrated'[u] = hydrated[u]
    BY <1>1 DEF OpenApp, MayWrite, Open, TInv, FavoritesTyped
  <2>4. \A u \in Tabs : reply'[u] = {} \/ reply'[u] = reply[u]
    BY <1>1 DEF OpenApp, TInv, FavoritesTyped
  <2>5. remote' = remote /\ writes' = writes /\ local' = local /\ due' = due
    BY <1>1 DEF OpenApp
  <2> QED
    BY <2>1, <2>2, <2>3, <2>4, <2>5 DEF KeptEverywhere
<1>2. ASSUME NEW t \in Tabs, CloseApp(t) PROVE KeptEverywhere'
  <2>1. KeptEverywhere /\ Kept' = Kept
    BY <1>2, SameHistory DEF CloseApp, KInv
  <2>2. ~Open(t)' /\ ~due'[t]
    BY <1>2 DEF CloseApp, Open, TInv, FavoritesTyped
  <2>3. \A u \in Tabs : u # t => Open(u)' = Open(u) /\ snap'[u] = snap[u] /\ due'[u] = due[u]
    BY <1>2 DEF CloseApp, Open, TInv, FavoritesTyped
  <2>4. \A w \in writes' : Kept \subseteq w.keys
    BY <1>2, <2>1 DEF CloseApp, KeptEverywhere, TInv, FavoritesTyped, Write
  <2>5. remote' = remote /\ reply' = reply /\ local' = local /\ hydrated' = hydrated
    BY <1>2 DEF CloseApp
  <2> QED
    BY <2>1, <2>2, <2>3, <2>4, <2>5 DEF KeptEverywhere, MayWrite
<1>3. ASSUME NEW t \in Tabs, NEW k \in Keys, toggle(t, k) PROVE KeptEverywhere'
  <2> DEFINE next == IF k \in snap[t] THEN snap[t] \ {k} ELSE snap[t] \cup {k}
  <2>1. snap[t] \in SUBSET Keys
    BY <1>3, NoneIsNoSet DEF toggle, Open, TInv, FavoritesTyped
  <2>2. /\ next \in SUBSET Keys
        /\ snap[t] \ {k} \subseteq next
    BY <2>1
  <2>3. snap' = [snap EXCEPT ![t] = next] /\ save(t, next)
    BY <1>3 DEF toggle
  <2> HIDE DEF next
  <2>4. Open(t) /\ Open(t)'
    BY <1>3, <2>2, <2>3, SetIsNotNone DEF toggle, Open, TInv, FavoritesTyped
  <2>5. /\ history'.began = history.began /\ history'.alone = history.alone
        /\ history'.toggled = history.toggled \cup {k}
        /\ history'.blind = (history.blind \/ (~Syncs(t) /\ Siblings(t) # {}))
    BY <1>3 DEF toggle, TInv, FavoritesTyped
  <2>6. Judged /\ (Syncs(t) \/ Siblings(t) = {})
    BY <2>5 DEF Judged
  <2>7. KeptEverywhere
    BY <2>6 DEF KInv
  <2>8. Kept' = Kept \ {k}
    BY <2>5 DEF Kept
  <2>9. /\ local'[browser[t]] = next
        /\ \A b \in Browsers : b # browser[t] => local'[b] = local[b]
    BY <2>2, <2>3, SaveType DEF TInv
  <2>10. /\ remote' = remote /\ hydrated' = hydrated /\ reply' = reply /\ writes' = writes
         /\ snap'[t] = next
         /\ \A u \in Tabs : u # t => Open(u)' = Open(u) /\ snap'[u] = snap[u] /\ due'[u] = due[u]
    BY <1>3, <2>3 DEF toggle, Open, TInv, FavoritesTyped
  <2>11. due'[t] => due[t] \/ Syncs(t)
    BY <1>3 DEF toggle, TInv, FavoritesTyped
  <2>12. Syncs(t) => hydrated[t] = "yes"
    BY <2>4, <2>7 DEF Syncs, KeptEverywhere
  <2>13. ASSUME NEW u \in Tabs, MayWrite(u)'
         PROVE  Kept' \subseteq snap'[u] /\ Kept' \subseteq local'[browser[u]]
    <3>1. CASE u = t
      <4>1. Kept \subseteq snap[t]
        BY <2>4, <2>7, <2>10, <2>13, <3>1 DEF KeptEverywhere, MayWrite
      <4> QED
        BY <2>2, <2>8, <2>9, <2>10, <3>1, <4>1
    <3>2. CASE u # t /\ browser[u] = browser[t]
      <4>1. u \in Siblings(t) /\ MayWrite(u)
        BY <2>10, <2>13, <3>2 DEF Siblings, MayWrite
      <4>2. hydrated[t] = "yes"
        BY <2>6, <2>12, <4>1
      <4>3. Kept \subseteq snap[t] /\ Kept \subseteq snap[u]
        BY <2>4, <2>7, <4>1, <4>2 DEF KeptEverywhere, MayWrite
      <4> QED
        BY <2>2, <2>8, <2>9, <2>10, <3>2, <4>3
    <3>3. CASE u # t /\ browser[u] # browser[t]
      <4>1. MayWrite(u) /\ browser[u] \in Browsers
        BY <2>10, <2>13, <3>3 DEF MayWrite, Browsers
      <4> QED
        BY <2>7, <2>8, <2>9, <2>10, <3>3, <4>1 DEF KeptEverywhere
    <3> QED
      BY <3>1, <3>2, <3>3
  <2>14. \A u \in Tabs : due'[u] => hydrated'[u] = "yes"
    BY <2>7, <2>10, <2>11, <2>12 DEF KeptEverywhere
  <2>15. \A u \in Tabs : Open(u)' => hydrated'[u] \in {"asking", "yes"}
    BY <2>4, <2>7, <2>10 DEF KeptEverywhere
  <2> QED
    BY <2>7, <2>8, <2>10, <2>13, <2>14, <2>15 DEF KeptEverywhere
<1>4. ASSUME NEW t \in Tabs, handleStorageEvent(t) PROVE KeptEverywhere'
  <2>1. KeptEverywhere /\ Kept' = Kept
    BY <1>4, SameHistory DEF handleStorageEvent, KInv
  <2>2. /\ remote' = remote /\ hydrated' = hydrated /\ reply' = reply /\ writes' = writes
        /\ local' = local /\ Open(t) /\ snap'[t] = local[browser[t]]
        /\ \A u \in Tabs : u # t => snap'[u] = snap[u] /\ due'[u] = due[u]
    BY <1>4 DEF handleStorageEvent, load, TInv, FavoritesTyped
  <2>3. due'[t] => due[t] \/ Syncs(t)
    BY <1>4 DEF handleStorageEvent, TInv, FavoritesTyped
  <2>4. Syncs(t) => hydrated[t] = "yes"
    BY <2>1, <2>2 DEF Syncs, KeptEverywhere
  <2>5. \A u \in Tabs : (Open(u)' => Open(u)) /\ (MayWrite(u)' => MayWrite(u))
    BY <2>2 DEF Open, MayWrite
  <2> QED
    BY <2>1, <2>2, <2>3, <2>4, <2>5 DEF KeptEverywhere
<1>5. ASSUME NEW t \in Tabs, Read(t) PROVE KeptEverywhere'
  <2>1. KeptEverywhere /\ Kept' = Kept
    BY <1>5, SameHistory DEF Read, KInv
  <2>2. /\ UNCHANGED <<remote, local, snap, hydrated, due, writes>>
        /\ \A u \in Tabs : reply'[u] = {remote} \/ reply'[u] = reply[u]
    BY <1>5 DEF Read, TInv, FavoritesTyped
  <2> QED
    BY <2>1, <2>2 DEF KeptEverywhere, MayWrite, Open
<1>6. ASSUME NEW t \in Tabs, hydrate(t) PROVE KeptEverywhere'
  <2>1. KeptEverywhere /\ Kept' = Kept
    BY <1>6, SameHistory DEF hydrate, KInv
  <2>2. PICK known \in reply[t] : HydrateFrom(t, known) \/ Seed(t, known)
    BY <1>6 DEF hydrate
  <2>3. known # None /\ Kept \subseteq known /\ HydrateFrom(t, known)
    BY <2>1, <2>2 DEF KeptEverywhere, Seed
  <2>4. known \in SUBSET Keys /\ save(t, known)
    BY <2>2, <2>3, NoneIsNoSet DEF HydrateFrom, TInv, FavoritesTyped
  <2>5. /\ local'[browser[t]] = known
        /\ \A b \in Browsers : b # browser[t] => local'[b] = local[b]
    BY <2>4, SaveType DEF TInv
  <2>6. /\ remote' = remote /\ writes' = writes /\ due' = due
        /\ snap'[t] = known /\ hydrated'[t] = "yes" /\ Open(t)
        /\ \A u \in Tabs : u # t => Open(u)' = Open(u) /\ snap'[u] = snap[u] /\ hydrated'[u] = hydrated[u]
        /\ \A u \in Tabs : reply'[u] \subseteq reply[u]
    BY <1>6, <2>3 DEF hydrate, HydrateFrom, Open, TInv, FavoritesTyped
  <2>7. ASSUME NEW u \in Tabs, MayWrite(u)'
        PROVE  Kept \subseteq snap'[u] /\ Kept \subseteq local'[browser[u]]
    <3>1. CASE u = t
      BY <2>3, <2>5, <2>6, <3>1
    <3>2. CASE u # t
      <4>1. MayWrite(u) /\ browser[u] \in Browsers
        BY <2>6, <2>7, <3>2 DEF MayWrite, Browsers
      <4>2. Kept \subseteq snap[u] /\ Kept \subseteq local[browser[u]]
        BY <2>1, <4>1 DEF KeptEverywhere
      <4> QED
        BY <2>3, <2>5, <2>6, <3>2, <4>1, <4>2
    <3> QED
      BY <3>1, <3>2
  <2> QED
    BY <2>1, <2>6, <2>7 DEF KeptEverywhere
<1>7. ASSUME NEW t \in Tabs, HydrateFails(t) PROVE KeptEverywhere'
  BY <1>7 DEF HydrateFails, Judged, TInv, FavoritesTyped
<1>8. ASSUME NEW t \in Tabs, Debounced(t) PROVE KeptEverywhere'
  <2>1. KeptEverywhere /\ Kept' = Kept
    BY <1>8, SameHistory DEF Debounced, KInv
  <2>2. /\ UNCHANGED <<remote, local, snap, hydrated, reply>>
        /\ due[t] /\ writes' = writes \cup {[tab |-> t, keys |-> snap[t]]}
        /\ \A u \in Tabs : due'[u] => due[u]
    BY <1>8 DEF Debounced, TInv, FavoritesTyped
  <2>3. Kept \subseteq snap[t]
    BY <2>1, <2>2 DEF KeptEverywhere, MayWrite, TInv, ClosedOwesNothing
  <2>4. \A w \in writes' : Kept \subseteq w.keys
    BY <2>1, <2>2, <2>3 DEF KeptEverywhere
  <2> QED
    BY <2>1, <2>2, <2>4 DEF KeptEverywhere, MayWrite, Open
<1>9. ASSUME NEW w \in writes, Land(w) PROVE KeptEverywhere'
  <2>1. KeptEverywhere /\ Kept' = Kept
    BY <1>9, SameHistory DEF Land, KInv
  <2>2. w.keys # None /\ Kept \subseteq w.keys
    BY <2>1, SetIsNotNone DEF KeptEverywhere, TInv, FavoritesTyped, Write
  <2>3. /\ UNCHANGED <<local, snap, reply, due>>
        /\ remote' \in {w.keys, remote} /\ writes' \subseteq writes
        /\ \A u \in Tabs : hydrated'[u] = hydrated[u] \/ (hydrated[u] = "seeding" /\ hydrated'[u] = "yes")
    BY <1>9 DEF Land, TInv, FavoritesTyped
  <2>4. \A u \in Tabs : Open(u) => hydrated'[u] = hydrated[u]
    BY <2>1, <2>3 DEF KeptEverywhere
  <2> QED
    BY <2>1, <2>2, <2>3, <2>4 DEF KeptEverywhere, MayWrite, Open
<1>10. CASE UNCHANGED vars
  <2>1. KeptEverywhere /\ Kept' = Kept
    BY <1>10, SameHistory DEF vars, KInv
  <2> QED
    BY <1>10, <2>1 DEF vars, KeptEverywhere, MayWrite, Open
<1> QED
  BY <1>1, <1>2, <1>3, <1>4, <1>5, <1>6, <1>7, <1>8, <1>9, <1>10 DEF Next

LEMMA KeptAlways == Spec => []UntouchedStay
<1>1. KInv => UntouchedStay
  BY DEF KInv, Judged, KeptEverywhere, Kept, UntouchedStay
<1> QED
  BY <1>1, KeptInit, KeptStep, TypeInvariant, PTL DEF Spec
-----------------------------------------------------------------------------
(* The instances count and select as the library does.                     *)

LEMMA TableCounts == ASSUME NEW S PROVE Table!Cardinality(S) = Cardinality(S)
BY Zenon DEF Table!Cardinality, Cardinality

LEMMA TableSelects == ASSUME NEW s, NEW at PROVE Table!ElementsAt(s, at) = ElementsAt(s, at)
<1>1. ASSUME NEW S, NEW R, NEW x PROVE Table!Place(S, R, x) = Place(S, R, x)
  BY TableCounts DEF Table!Place, Place
<1>2. ASSUME NEW S, NEW R PROVE Table!InOrder(S, R) = InOrder(S, R)
  BY <1>1, TableCounts DEF Table!InOrder, InOrder
<1>3. ASSUME NEW S PROVE Table!Less(S) = Less(S)
  BY DEF Table!Less, Less
<1>4. Table!Ascending(at) = Ascending(at)
  BY <1>2, <1>3 DEF Table!Ascending, Ascending
<1> QED
  BY <1>4 DEF Table!ElementsAt, ElementsAt

-----------------------------------------------------------------------------
(* The table of issues.                                                    *)

Issues == Table!Issues
Register == Table!Register
Post ==
  [from : {"row", "nobody"}, issue : Issues, act : Table!Actions, nr : Nat,
   rev : Nat, state : Register \cup {None}]
View ==
  [filter : {"unresolved", "all", "resolved", "ignored"}, source : {"all", "browser", "server"},
   facet : BOOLEAN, muted : BOOLEAN, page : Nat \ {0}]

TableTyped ==
  /\ log \in [Issues -> Register]
  /\ groups \in Lists \cup {None}
  /\ states \in [Issues -> Register] \cup {None}
  /\ asked \in [Issues -> Register] \cup {None, Waiting}
  /\ overrides \in [Issues -> Register \cup {None}]
  /\ deployed \in Nat
  /\ posts \subseteq Post
  /\ mutes \in [shown : SUBSET Issues, stored : SUBSET Issues, loaded : BOOLEAN]
  /\ view \in View
  /\ past \in [clock : Nat, acked : [Issues -> Nat], overlap : BOOLEAN, steps : Nat]

(* What a post is answered with was read after the post was recorded,      *)
(* unless it was not read at all.                                          *)
PostInOrder(p) ==
  /\ p.rev <= log[p.issue].rev
  /\ p.state # None =>
       /\ p.rev > 0
       /\ p.state.rev <= log[p.issue].rev
       /\ p.state # Table!Fresh => p.rev <= p.state.rev

(* Every copy of the register, wherever it is kept or on its way, is one   *)
(* of now or of before.                                                    *)
NothingFromTheFuture ==
  \A i \in Issues :
    /\ log[i].rev <= past.clock
    /\ states # None => states[i].rev <= log[i].rev
    /\ asked \notin {None, Waiting} => asked[i].rev <= log[i].rev
    /\ overrides[i] # None => overrides[i].rev <= log[i].rev
    /\ \A p \in posts : p.issue = i => PostInOrder(p)

OverrideRev(i) == IF overrides[i] # None THEN overrides[i].rev ELSE 0

(* While the actions on an issue do not overlap there is one post of it at *)
(* most, and what it recorded is newer than what was acknowledged before;  *)
(* what was acknowledged is kept as an override, unless it was not read.   *)
AcknowledgedIsKept ==
  ~past.overlap =>
    /\ \A p, q \in posts : p.issue = q.issue => p = q
    /\ \A i \in Issues : past.acked[i] <= log[i].rev
    /\ \A i \in Issues : overrides[i] = Table!Fresh \/ past.acked[i] <= OverrideRev(i)
    /\ \A p \in posts : p.rev > 0 => past.acked[p.issue] <= p.rev

TableInv == TableTyped /\ NothingFromTheFuture /\ AcknowledgedIsKept

LEMMA TableConstants ==
  /\ Lists \subseteq Seq(Issues) /\ None \notin Lists
  /\ \A m \in InitialMutes : m \subseteq Issues
  /\ PageSize \in Nat \ {0} /\ MaxSteps \in Nat
  /\ None # Waiting /\ None \notin Register
  /\ None \notin [Issues -> Register] /\ Waiting \notin [Issues -> Register]
BY UserDataAssumption DEF Table!ConstantsOK, Issues, Register

LEMMA FreshIsState == Table!Fresh \in Register /\ Table!Fresh.rev = 0
BY DEF Table!Fresh, Register, Table!Register

LEMMA StateType ==
  ASSUME NEW s \in Register
  PROVE  s.status \in {"active", "resolved", "ignored"} /\ s.rev \in Nat
BY DEF Register, Table!Register

LEMMA AfterType ==
  ASSUME NEW a \in Table!Actions, NEW r \in Nat
  PROVE  Table!After(a, r) \in Register /\ Table!After(a, r).rev = r
BY DEF Table!After, Table!Actions, Register, Table!Register

LEMMA TableInit == Table!Init => TableInv
<1> SUFFICES ASSUME Table!Init PROVE TableInv
  OBVIOUS
<1>1. TableTyped
  <2>1. log \in [Issues -> Register]
    BY FreshIsState DEF Table!Init, Issues
  <2>2. mutes \in [shown : SUBSET Issues, stored : SUBSET Issues, loaded : BOOLEAN]
    BY TableConstants DEF Table!Init
  <2>3. view \in View
    BY DEF Table!Init, View
  <2>4. past \in [clock : Nat, acked : [Issues -> Nat], overlap : BOOLEAN, steps : Nat]
    BY DEF Table!Init, Issues
  <2>5. overrides \in [Issues -> Register \cup {None}]
    BY DEF Table!Init, Issues
  <2> QED
    BY <2>1, <2>2, <2>3, <2>4, <2>5 DEF Table!Init, TableTyped
<1>2. NothingFromTheFuture
  BY TableConstants, FreshIsState DEF Table!Init, NothingFromTheFuture, Issues
<1>3. AcknowledgedIsKept
  BY FreshIsState DEF Table!Init, AcknowledgedIsKept, OverrideRev, Issues
<1> QED
  BY <1>1, <1>2, <1>3 DEF TableInv

(* The rows are a sequence of issues, and the pages are numbered from 1.   *)
LEMMA RowsType ==
  ASSUME groups \in Lists \cup {None}
  PROVE  Table!rows \in Seq(Issues)
<1>1. CASE groups = None
  BY <1>1 DEF Table!rows
<1>2. CASE groups # None
  <2>1. groups \in Seq(Issues)
    BY <1>2, TableConstants
  <2>2. ASSUME NEW b \in BOOLEAN
        PROVE  Table!RowsThat(b) \in Seq(Issues)
    <3> DEFINE at == {k \in DOMAIN groups : Table!Visible(groups[k]) /\ Table!isRegressed(groups[k]) = b}
    <3>1. at \in SUBSET (DOMAIN groups)
      OBVIOUS
    <3>2. Table!RowsThat(b) = ElementsAt(groups, at)
      BY TableSelects DEF Table!RowsThat
    <3> HIDE DEF at
    <3> QED
      BY <2>1, <3>1, <3>2, ElementsAtKeep
  <2>3. \A a, b \in Seq(Issues) : a \o b \in Seq(Issues)
    OBVIOUS
  <2>4. Table!rows = Table!RowsThat(TRUE) \o Table!RowsThat(FALSE)
    BY <1>2 DEF Table!rows
  <2>5. Table!RowsThat(TRUE) \in Seq(Issues)
    BY <2>2
  <2>6. Table!RowsThat(FALSE) \in Seq(Issues)
    BY <2>2
  <2> QED
    BY <2>3, <2>4, <2>5, <2>6
<1> QED
  BY <1>1, <1>2

(* Rounding up: the last page is not empty.                                *)
LEMMA PagesNeeded ==
  ASSUME NEW n \in Nat \ {0}, NEW s \in Nat \ {0}
  PROVE  /\ (n + s - 1) \div s \in Nat \ {0}
         /\ \A p \in 1 .. (n + s - 1) \div s : (p - 1) * s \in Nat /\ (p - 1) * s < n
<1> DEFINE q == (n + s - 1) \div s
<1>1. q \in Int /\ s * q <= n + s - 1 /\ n + s - 1 < s * q + s
  BY Z3
<1> HIDE DEF q
<1>2. q > 0
  <2>1. CASE q <= 0
    <3>1. s * q <= 0
      BY <1>1, <2>1
    <3> QED
      BY <1>1, <3>1
  <2> QED
    BY <1>1, <2>1
<1>3. ASSUME NEW p \in 1 .. q
      PROVE  (p - 1) * s \in Nat /\ (p - 1) * s < n
  <2>1. (p - 1) * s <= (q - 1) * s
    BY <1>1
  <2>2. (q - 1) * s = s * q - s
    BY <1>1
  <2>3. (p - 1) * s >= 0 /\ (p - 1) * s \in Int
    BY <1>1
  <2> QED
    BY <1>1, <2>1, <2>2, <2>3
<1> QED
  BY <1>1, <1>2, <1>3 DEF q

LEMMA PagesType ==
  ASSUME groups \in Lists \cup {None}
  PROVE  Table!totalPages \in Nat \ {0}
<1> DEFINE r == Table!rows
<1>1. r \in Seq(Issues)
  BY RowsType
<1>2. Table!totalPages = IF r = << >> THEN 1 ELSE (Len(r) + PageSize - 1) \div PageSize
  BY DEF Table!totalPages
<1> HIDE DEF r
<1>3. CASE r = << >>
  BY <1>2, <1>3
<1>4. CASE r # << >>
  <2>1. Len(r) \in Nat \ {0} /\ PageSize \in Nat \ {0}
    BY <1>1, <1>4, TableConstants
  <2> QED
    BY <1>2, <1>4, <2>1, PagesNeeded
<1> QED
  BY <1>3, <1>4

(* A step that leaves the register, its copies and the posts alone.        *)
LEMMA TableQuiet ==
  ASSUME NothingFromTheFuture, AcknowledgedIsKept,
         UNCHANGED <<log, states, asked, overrides, posts>>,
         past'.clock = past.clock, past'.acked = past.acked, past'.overlap = past.overlap
  PROVE  NothingFromTheFuture' /\ AcknowledgedIsKept'
BY DEF NothingFromTheFuture, PostInOrder, AcknowledgedIsKept, OverrideRev

PastType == [clock : Nat, acked : [Issues -> Nat], overlap : BOOLEAN, steps : Nat]

LEMMA PastSteps ==
  ASSUME past \in PastType, past' = [past EXCEPT !.steps = past.steps + 1]
  PROVE  /\ past' \in PastType
         /\ past'.clock = past.clock /\ past'.acked = past.acked /\ past'.overlap = past.overlap
BY DEF PastType

LEMMA ToViewStep ==
  ASSUME TableInv, NEW v, v \in View, Table!ToView(v)
  PROVE  TableInv'
<1>1. past \in PastType /\ past' = [past EXCEPT !.steps = past.steps + 1]
  BY DEF Table!ToView, TableInv, TableTyped, PastType
<1>2. /\ past' \in PastType
      /\ past'.clock = past.clock /\ past'.acked = past.acked /\ past'.overlap = past.overlap
  BY <1>1, PastSteps
<1>3. view' \in View
  BY DEF Table!ToView
<1>4. TableTyped'
  BY <1>2, <1>3 DEF Table!ToView, TableInv, TableTyped, PastType
<1>5. UNCHANGED <<log, states, asked, overrides, posts>>
  BY DEF Table!ToView
<1>6. NothingFromTheFuture' /\ AcknowledgedIsKept'
  BY <1>2, <1>5, TableQuiet DEF TableInv
<1> QED
  BY <1>4, <1>6 DEF TableInv

LEMMA ViewStep ==
  ASSUME TableInv,
         Table!setFilter \/ Table!setSourceFilter \/ Table!setFacet \/ Table!clearAll
           \/ Table!setShowMuted \/ Table!setPage
  PROVE  TableInv'
<1>1. view \in View
  BY DEF TableInv, TableTyped
<1>2. CASE Table!setFilter
  <2>1. PICK f \in Table!HeaderShown.status : Table!ToView([view EXCEPT !.filter = f])
    BY <1>2 DEF Table!setFilter
  <2>2. [view EXCEPT !.filter = f] \in View
    BY <1>1 DEF View, Table!HeaderShown
  <2> QED
    BY <2>1, <2>2, ToViewStep
<1>3. CASE Table!setSourceFilter
  <2>1. PICK s \in Table!HeaderShown.source : Table!ToView([view EXCEPT !.source = s])
    BY <1>3 DEF Table!setSourceFilter
  <2>2. s \in {"all", "browser", "server"}
    BY DEF Table!HeaderShown
  <2>3. [view EXCEPT !.source = s] \in View
    BY <1>1, <2>2 DEF View
  <2> QED
    BY <2>1, <2>3, ToViewStep
<1>4. CASE Table!setFacet
  <2>1. PICK f \in Table!HeaderShown.facet \cap {"choose", "clear"} :
          Table!ToView([view EXCEPT !.facet = (f = "choose"), !.page = 1])
    BY <1>4 DEF Table!setFacet
  <2>2. ASSUME NEW b \in BOOLEAN
        PROVE  [view EXCEPT !.facet = b, !.page = 1] \in View
    <3>1. [view EXCEPT !.facet = b] \in View
      BY <1>1 DEF View
    <3>2. \A v \in View : [v EXCEPT !.page = 1] \in View
      BY DEF View
    <3> QED
      BY <3>1, <3>2
  <2>3. [view EXCEPT !.facet = (f = "choose"), !.page = 1] \in View
    BY <2>2
  <2> QED
    BY <2>1, <2>3, ToViewStep
<1>5. CASE Table!clearAll
  <2>1. Table!ToView([view EXCEPT !.facet = FALSE])
    BY <1>5 DEF Table!clearAll
  <2>2. [view EXCEPT !.facet = FALSE] \in View
    BY <1>1 DEF View
  <2> QED
    BY <2>1, <2>2, ToViewStep
<1>6. CASE Table!setShowMuted
  <2>1. PICK t \in Table!ListShown.toggle : Table!ToView([view EXCEPT !.muted = (t = "show")])
    BY <1>6 DEF Table!setShowMuted
  <2>2. ASSUME NEW b \in BOOLEAN
        PROVE  [view EXCEPT !.muted = b] \in View
    BY <1>1 DEF View
  <2>3. [view EXCEPT !.muted = (t = "show")] \in View
    BY <2>2
  <2> QED
    BY <2>1, <2>3, ToViewStep
<1>7. CASE Table!setPage
  <2>1. PICK p \in Table!ListShown.pages : Table!ToView([view EXCEPT !.page = p])
    BY <1>7 DEF Table!setPage
  <2>2. Table!totalPages \in Nat
    BY PagesType DEF TableInv, TableTyped
  <2>3. p \in 1 .. Table!totalPages
    BY DEF Table!ListShown
  <2>4. p \in Nat \ {0}
    BY <2>2, <2>3
  <2>5. [view EXCEPT !.page = p] \in View
    BY <1>1, <2>4 DEF View
  <2> QED
    BY <2>1, <2>5, ToViewStep
<1> QED
  BY <1>2, <1>3, <1>4, <1>5, <1>6, <1>7

LEMMA ReadStep ==
  ASSUME TableInv,
         \/ \E l \in Lists : Table!IssuesArrive(l)
         \/ Table!VersionsArrive \/ Table!MutesArrive
  PROVE  TableInv'
<1>1. past' = past /\ UNCHANGED <<log, states, asked, overrides, posts>>
  BY DEF Table!IssuesArrive, Table!VersionsArrive, Table!MutesArrive
<1>2. NothingFromTheFuture' /\ AcknowledgedIsKept'
  BY <1>1, TableQuiet DEF TableInv
<1>3. CASE \E l \in Lists : Table!IssuesArrive(l)
  BY <1>1, <1>2, <1>3 DEF Table!IssuesArrive, TableInv, TableTyped
<1>4. CASE Table!VersionsArrive
  <2>1. past.clock \in Nat
    BY DEF TableInv, TableTyped
  <2>2. deployed' = past.clock + 1
    BY <1>4 DEF Table!VersionsArrive
  <2>3. deployed' \in Nat
    BY <2>1, <2>2
  <2> QED
    BY <1>1, <1>2, <1>4, <2>3 DEF Table!VersionsArrive, TableInv, TableTyped
<1>5. CASE Table!MutesArrive
  <2>1. mutes' \in [shown : SUBSET Issues, stored : SUBSET Issues, loaded : BOOLEAN]
    BY <1>5 DEF Table!MutesArrive, TableInv, TableTyped
  <2> QED
    BY <1>1, <1>2, <1>5, <2>1 DEF Table!MutesArrive, TableInv, TableTyped
<1> QED
  BY <1>3, <1>4, <1>5

LEMMA StatesStep ==
  ASSUME TableInv, Table!StatesRead \/ Table!StatesArrive \/ Table!StatesFail
  PROVE  TableInv'
<1>1. /\ log' = log /\ overrides' = overrides /\ posts' = posts /\ past' = past
      /\ groups' = groups /\ deployed' = deployed /\ mutes' = mutes /\ view' = view
  BY DEF Table!StatesRead, Table!StatesArrive, Table!StatesFail
<1>2. AcknowledgedIsKept'
  BY <1>1 DEF TableInv, AcknowledgedIsKept, OverrideRev
<1>3. CASE Table!StatesRead
  <2>1. TableTyped'
    BY <1>1, <1>3 DEF Table!StatesRead, TableInv, TableTyped
  <2>2. \A i \in Issues : log[i].rev <= log[i].rev
    BY StateType DEF TableInv, TableTyped
  <2>3. NothingFromTheFuture'
    BY <1>1, <1>3, <2>2 DEF Table!StatesRead, TableInv, NothingFromTheFuture, PostInOrder
  <2> QED
    BY <1>2, <2>1, <2>3 DEF TableInv
<1>4. CASE Table!StatesArrive
  <2>1. TableTyped'
    BY <1>1, <1>4 DEF Table!StatesArrive, TableInv, TableTyped
  <2>2. NothingFromTheFuture'
    BY <1>1, <1>4 DEF Table!StatesArrive, TableInv, NothingFromTheFuture, PostInOrder
  <2> QED
    BY <1>2, <2>1, <2>2 DEF TableInv
<1>5. CASE Table!StatesFail
  <2>1. TableTyped'
    BY <1>1, <1>5 DEF Table!StatesFail, TableInv, TableTyped
  <2>2. NothingFromTheFuture'
    BY <1>1, <1>5 DEF Table!StatesFail, TableInv, NothingFromTheFuture, PostInOrder
  <2> QED
    BY <1>2, <2>1, <2>2 DEF TableInv
<1> QED
  BY <1>3, <1>4, <1>5

(* What a button posts: one more post, of an issue that may have others.   *)
LEMMA ActStep ==
  ASSUME TableInv, NEW i \in Issues, NEW a \in Table!Actions, Table!act(i, a)
  PROVE  TableInv'
<1> DEFINE new == [from |-> "row", issue |-> i, act |-> a, nr |-> past.steps, rev |-> 0,
                  state |-> None]
           over == past.overlap \/ Table!Pending(i)
<1>1. TableTyped /\ NothingFromTheFuture /\ AcknowledgedIsKept
  BY DEF TableInv
<1>2. past \in PastType /\ posts \subseteq Post
  BY <1>1 DEF TableTyped, PastType
<1>3. /\ posts' = posts \cup {new}
      /\ past' = [past EXCEPT !.steps = past.steps + 1, !.overlap = over]
      /\ groups' = groups /\ states' = states /\ asked' = asked /\ overrides' = overrides
      /\ deployed' = deployed /\ mutes' = mutes /\ view' = view /\ log' = log
  BY DEF Table!act
<1>4. past.overlap \in BOOLEAN /\ past.steps + 1 \in Nat
  BY <1>2 DEF PastType
<1>5. over <=> past.overlap \/ \E p \in posts : p.issue = i
  BY DEF Table!Pending
<1>bool. over \in BOOLEAN
  BY <1>4, Zenon
<1> HIDE DEF over
<1>6. past' \in PastType /\ past'.clock = past.clock /\ past'.acked = past.acked /\ past'.overlap = over
  <2>1. [past EXCEPT !.steps = past.steps + 1] \in PastType
    BY <1>2, <1>4 DEF PastType
  <2>2. \A h \in PastType : [h EXCEPT !.overlap = over] \in PastType
    BY <1>bool DEF PastType
  <2>3. past' \in PastType
    BY <1>3, <2>1, <2>2
  <2>4. past'.clock = past.clock /\ past'.acked = past.acked
    BY <1>2, <1>3 DEF PastType
  <2>5. past'.overlap = over
    BY <1>2, <1>3 DEF PastType
  <2> QED
    BY <2>3, <2>4, <2>5
<1>7. new \in Post /\ new.issue = i /\ new.rev = 0 /\ new.state = None
  BY <1>2 DEF Post, PastType
<1> HIDE DEF new
<1>8. posts' \subseteq Post
  BY <1>2, <1>3, <1>7
<1>9. TableTyped'
  BY <1>1, <1>3, <1>6, <1>8 DEF TableTyped, PastType
<1>order. PostInOrder(new)
  <2>1. log[i].rev \in Nat
    BY <1>1, StateType DEF TableTyped
  <2> QED
    BY <1>7, <2>1 DEF PostInOrder
<1>10. NothingFromTheFuture'
  BY <1>1, <1>3, <1>6, <1>7, <1>order DEF NothingFromTheFuture, PostInOrder
<1>11. ASSUME ~over
       PROVE  /\ \A p, q \in posts' : p.issue = q.issue => p = q
              /\ \A j \in Issues : past.acked[j] <= log[j].rev
              /\ \A j \in Issues : overrides[j] = Table!Fresh \/ past.acked[j] <= OverrideRev(j)
              /\ \A p \in posts' : p.rev > 0 => past.acked[p.issue] <= p.rev
  <2>1. ~past.overlap /\ \A p \in posts : p.issue # i
    BY <1>5, <1>11
  <2>2. /\ \A p, q \in posts : p.issue = q.issue => p = q
        /\ \A j \in Issues : past.acked[j] <= log[j].rev
        /\ \A j \in Issues : overrides[j] = Table!Fresh \/ past.acked[j] <= OverrideRev(j)
        /\ \A p \in posts : p.rev > 0 => past.acked[p.issue] <= p.rev
    BY <1>1, <2>1 DEF AcknowledgedIsKept
  <2>3. \A p \in posts' : p.rev > 0 => past.acked[p.issue] <= p.rev
    BY <1>3, <1>7, <2>2
  <2> QED
    BY <1>3, <1>7, <2>1, <2>2, <2>3
<1>12. AcknowledgedIsKept'
  BY <1>3, <1>6, <1>11 DEF AcknowledgedIsKept, OverrideRev
<1> QED
  BY <1>9, <1>10, <1>12 DEF TableInv

(* The register moves on: what is in it is newer than all that was read.   *)
LEMMA StoreStep ==
  ASSUME TableTyped, NothingFromTheFuture, NEW i \in Issues, NEW s \in Register,
         s.rev = past.clock + 1, log' = [log EXCEPT ![i] = s],
         past'.clock = past.clock + 1,
         UNCHANGED <<states, asked, overrides>>,
         \A p \in posts' : p \in posts \/ (p.issue = i /\ p.rev = s.rev /\ p.state = None)
  PROVE  /\ log' \in [Issues -> Register]
         /\ \A j \in Issues : log[j].rev <= log'[j].rev
         /\ NothingFromTheFuture'
<1>1. log' \in [Issues -> Register]
  BY DEF TableTyped
<1>2. /\ past.clock \in Nat
      /\ \A j \in Issues : log[j].rev \in Nat /\ log[j].rev <= past.clock
  BY StateType DEF TableTyped, NothingFromTheFuture
<1>3. \A j \in Issues : /\ log'[j].rev \in Nat
                        /\ log[j].rev <= log'[j].rev /\ log'[j].rev <= past'.clock
  BY <1>2, StateType DEF TableTyped
<1>4. log'[i] = s
  BY DEF TableTyped
<1>5. ASSUME NEW j \in Issues
      PROVE  /\ states # None => states[j].rev <= log'[j].rev
             /\ asked \notin {None, Waiting} => asked[j].rev <= log'[j].rev
             /\ overrides[j] # None => overrides[j].rev <= log'[j].rev
  <2>1. /\ states # None => states[j].rev \in Nat
        /\ asked \notin {None, Waiting} => asked[j].rev \in Nat
        /\ overrides[j] # None => overrides[j].rev \in Nat
    BY StateType DEF TableTyped
  <2>2. /\ states # None => states[j].rev <= log[j].rev
        /\ asked \notin {None, Waiting} => asked[j].rev <= log[j].rev
        /\ overrides[j] # None => overrides[j].rev <= log[j].rev
    BY DEF NothingFromTheFuture
  <2>3. log[j].rev \in Nat /\ log'[j].rev \in Nat /\ log[j].rev <= log'[j].rev
    BY <1>2, <1>3
  <2>4. \A x \in Nat : x <= log[j].rev => x <= log'[j].rev
    BY <2>3
  <2> QED
    BY <2>1, <2>2, <2>4
<1>6. ASSUME NEW j \in Issues, NEW p \in posts', p.issue = j
      PROVE  PostInOrder(p)'
  <2>1. CASE p \in posts
    <3>1. p.rev \in Nat /\ PostInOrder(p) /\ (p.state # None => p.state \in Register)
      BY <1>6, <2>1 DEF TableTyped, Post, NothingFromTheFuture
    <3>2. p.state # None => p.state.rev \in Nat
      BY <3>1, StateType
    <3>3. \A x \in Nat : x <= log[j].rev => x <= log'[j].rev
      BY <1>2, <1>3
    <3> QED
      BY <1>6, <3>1, <3>2, <3>3 DEF PostInOrder
  <2>2. CASE p.issue = i /\ p.rev = s.rev /\ p.state = None
    BY <1>2, <1>4, <1>6, <2>2 DEF PostInOrder
  <2> QED
    BY <1>6, <2>1, <2>2
<1>7. NothingFromTheFuture'
  BY <1>3, <1>5, <1>6 DEF NothingFromTheFuture
<1> QED
  BY <1>1, <1>3, <1>7

LEMMA PostStoredStep ==
  ASSUME TableInv, NEW p \in posts, Table!PostStored(p)
  PROVE  TableInv'
<1> DEFINE s == Table!After(p.act, past.clock + 1)
           q == [p EXCEPT !.rev = past.clock + 1]
<1>1. TableTyped /\ NothingFromTheFuture /\ AcknowledgedIsKept
  BY DEF TableInv
<1>2. past \in PastType /\ posts \subseteq Post /\ p \in Post
  BY <1>1 DEF TableTyped, PastType
<1>3. /\ p.rev = 0
      /\ log' = [log EXCEPT ![p.issue] = s]
      /\ posts' = (posts \ {p}) \cup {q}
      /\ past' = [past EXCEPT !.clock = past.clock + 1]
      /\ groups' = groups /\ states' = states /\ asked' = asked /\ overrides' = overrides
      /\ deployed' = deployed /\ mutes' = mutes /\ view' = view
  BY DEF Table!PostStored
<1>4. p.issue \in Issues /\ p.act \in Table!Actions /\ past.clock + 1 \in Nat
  BY <1>2 DEF Post, PastType
<1>5. s \in Register /\ s.rev = past.clock + 1
  BY <1>4, AfterType
<1> HIDE DEF s
<1>none. p.state = None
  BY <1>1, <1>3, <1>4 DEF NothingFromTheFuture, PostInOrder
<1>6. q \in Post /\ q.issue = p.issue /\ q.rev = past.clock + 1 /\ q.state = None
  BY <1>2, <1>4, <1>none DEF Post
<1> HIDE DEF q
<1>7. past' \in PastType /\ past'.clock = past.clock + 1 /\ past'.acked = past.acked
      /\ past'.overlap = past.overlap
  BY <1>2, <1>3, <1>4 DEF PastType
<1>8. posts' \subseteq Post
  BY <1>2, <1>3, <1>6
<1>9. \A r \in posts' : r \in posts \/ (r.issue = p.issue /\ r.rev = s.rev /\ r.state = None)
  BY <1>3, <1>5, <1>6
<1>10. /\ log' \in [Issues -> Register] /\ NothingFromTheFuture'
       /\ \A j \in Issues : log[j].rev <= log'[j].rev
  BY <1>1, <1>3, <1>4, <1>5, <1>7, <1>9, StoreStep
<1>11. TableTyped'
  BY <1>1, <1>3, <1>7, <1>8, <1>10 DEF TableTyped, PastType
<1>12. ASSUME ~past.overlap
       PROVE  /\ \A r, t \in posts' : r.issue = t.issue => r = t
              /\ \A j \in Issues : past.acked[j] <= log'[j].rev
              /\ \A j \in Issues : overrides[j] = Table!Fresh \/ past.acked[j] <= OverrideRev(j)
              /\ \A r \in posts' : r.rev > 0 => past.acked[r.issue] <= r.rev
  <2>1. /\ \A r, t \in posts : r.issue = t.issue => r = t
        /\ \A j \in Issues : past.acked[j] <= log[j].rev
        /\ \A j \in Issues : overrides[j] = Table!Fresh \/ past.acked[j] <= OverrideRev(j)
        /\ \A r \in posts : r.rev > 0 => past.acked[r.issue] <= r.rev
    BY <1>1, <1>12 DEF AcknowledgedIsKept
  <2>2. \A r, t \in posts' : r.issue = t.issue => r = t
    BY <1>3, <1>6, <2>1
  <2>3. \A j \in Issues : /\ past.acked[j] \in Nat /\ past.clock \in Nat
                          /\ log[j].rev \in Nat /\ log'[j].rev \in Nat
    BY <1>1, <1>2, <1>10, StateType DEF TableTyped, PastType
  <2>4. \A j \in Issues : past.acked[j] <= log'[j].rev
    BY <1>10, <2>1, <2>3
  <2>5. past.acked[p.issue] <= past.clock + 1
    <3>1. log[p.issue].rev <= past.clock /\ past.acked[p.issue] <= log[p.issue].rev
      BY <1>1, <1>4, <2>1 DEF NothingFromTheFuture
    <3> QED
      BY <1>4, <2>3, <3>1
  <2>6. \A r \in posts' : r.rev > 0 => past.acked[r.issue] <= r.rev
    BY <1>3, <1>6, <2>1, <2>5
  <2> QED
    BY <2>1, <2>2, <2>4, <2>6
<1>13. AcknowledgedIsKept'
  BY <1>3, <1>7, <1>12 DEF AcknowledgedIsKept, OverrideRev
<1> QED
  BY <1>10, <1>11, <1>13 DEF TableInv

LEMMA OthersStep ==
  ASSUME TableInv, NEW i \in Issues, NEW a \in Table!Actions, Table!OthersAct(i, a)
  PROVE  TableInv'
<1> DEFINE s == Table!After(a, past.clock + 1)
<1>1. TableTyped /\ NothingFromTheFuture /\ AcknowledgedIsKept
  BY DEF TableInv
<1>2. past \in PastType /\ past.clock + 1 \in Nat /\ past.steps + 1 \in Nat
  BY <1>1 DEF TableTyped, PastType
<1>3. /\ log' = [log EXCEPT ![i] = s]
      /\ past' = [past EXCEPT !.steps = past.steps + 1, !.clock = past.clock + 1]
      /\ posts' = posts
      /\ groups' = groups /\ states' = states /\ asked' = asked /\ overrides' = overrides
      /\ deployed' = deployed /\ mutes' = mutes /\ view' = view
  BY DEF Table!OthersAct
<1>4. s \in Register /\ s.rev = past.clock + 1
  BY <1>2, AfterType
<1> HIDE DEF s
<1>5. past' \in PastType /\ past'.clock = past.clock + 1 /\ past'.acked = past.acked
      /\ past'.overlap = past.overlap
  BY <1>2, <1>3 DEF PastType
<1>6. /\ log' \in [Issues -> Register] /\ NothingFromTheFuture'
      /\ \A j \in Issues : log[j].rev <= log'[j].rev
  BY <1>1, <1>3, <1>4, <1>5, StoreStep
<1>7. TableTyped'
  BY <1>1, <1>3, <1>5, <1>6 DEF TableTyped, PastType
<1>8. \A j \in Issues : past.acked[j] <= log[j].rev => past.acked[j] <= log'[j].rev
  <2>1. \A j \in Issues : past.acked[j] \in Nat /\ log[j].rev \in Nat /\ log'[j].rev \in Nat
    BY <1>1, <1>2, <1>6, StateType DEF TableTyped, PastType
  <2> QED
    BY <1>6, <2>1
<1>9. AcknowledgedIsKept'
  BY <1>1, <1>3, <1>5, <1>8 DEF AcknowledgedIsKept, OverrideRev
<1> QED
  BY <1>6, <1>7, <1>9 DEF TableInv

(* The answer to a post is the register as it is now, or an issue that     *)
(* nobody has touched.                                                     *)
LEMMA PostReadStep ==
  ASSUME TableInv, NEW p \in posts, Table!PostRead(p)
  PROVE  TableInv'
<1>1. TableTyped /\ NothingFromTheFuture /\ AcknowledgedIsKept
  BY DEF TableInv
<1>2. posts \subseteq Post /\ p \in Post /\ p.issue \in Issues /\ p.rev \in Nat
  BY <1>1 DEF TableTyped, Post
<1>3. PICK s \in {log[p.issue], Table!Fresh} :
        /\ p.rev > 0 /\ posts' = (posts \ {p}) \cup {[p EXCEPT !.state = s]}
        /\ log' = log /\ groups' = groups /\ states' = states /\ asked' = asked
        /\ overrides' = overrides /\ deployed' = deployed /\ mutes' = mutes
        /\ view' = view /\ past' = past
  BY Zenon DEF Table!PostRead
<1> DEFINE q == [p EXCEPT !.state = s]
<1>4. s \in Register /\ s.rev \in Nat /\ log[p.issue].rev \in Nat /\ s.rev <= log[p.issue].rev
  <2>1. log[p.issue] \in Register /\ log[p.issue].rev \in Nat
    BY <1>1, <1>2, StateType DEF TableTyped
  <2> QED
    BY <1>3, <2>1, FreshIsState
<1>5. q \in Post /\ q.issue = p.issue /\ q.rev = p.rev /\ q.state = s
  BY <1>2, <1>4 DEF Post
<1>6. posts' = (posts \ {p}) \cup {q}
  BY <1>3
<1> HIDE DEF q
<1>7. PostInOrder(p)
  BY <1>1, <1>2 DEF NothingFromTheFuture
<1>8. PostInOrder(q)
  BY <1>3, <1>4, <1>5, <1>7 DEF PostInOrder
<1>9. TableTyped'
  BY <1>1, <1>2, <1>3, <1>5, <1>6 DEF TableTyped
<1>10. NothingFromTheFuture'
  BY <1>1, <1>3, <1>5, <1>6, <1>8 DEF NothingFromTheFuture, PostInOrder
<1>11. AcknowledgedIsKept'
  BY <1>1, <1>3, <1>5, <1>6 DEF AcknowledgedIsKept, OverrideRev
<1> QED
  BY <1>9, <1>10, <1>11 DEF TableInv


LEMMA RowAnsweredStep ==
  ASSUME TableInv, NEW p \in posts, Table!RowAnswered(p)
  PROVE  TableInv'
<1> DEFINE i == p.issue
           later == Table!Later(past.acked[i], p.rev)
<1>1. TableTyped /\ NothingFromTheFuture /\ AcknowledgedIsKept
  BY DEF TableInv
<1>2. past \in PastType /\ posts \subseteq Post /\ p \in Post
  BY <1>1 DEF TableTyped, PastType
<1>3. /\ p.state # None /\ posts' = posts \ {p}
      /\ overrides' = [overrides EXCEPT ![i] = p.state]
      /\ asked' = Waiting
      /\ past' = [past EXCEPT !.acked[i] = later]
      /\ log' = log /\ groups' = groups /\ states' = states /\ deployed' = deployed
      /\ mutes' = mutes /\ view' = view
  BY DEF Table!RowAnswered
<1>4. i \in Issues /\ p.state \in Register /\ p.state.rev \in Nat /\ p.rev \in Nat
      /\ past.acked[i] \in Nat
  BY <1>2, <1>3, StateType DEF Post, PastType
<1>5. later \in Nat /\ (past.acked[i] <= p.rev => later = p.rev)
  BY <1>4 DEF Table!Later
<1> HIDE DEF later, i
<1>6. /\ past' \in PastType /\ past'.clock = past.clock /\ past'.overlap = past.overlap
      /\ past'.acked = [past.acked EXCEPT ![i] = later]
  BY <1>2, <1>3, <1>4, <1>5 DEF PastType
<1>7. overrides \in [Issues -> Register \cup {None}] /\ past.acked \in [Issues -> Nat]
  BY <1>1 DEF TableTyped
<1>8. overrides' \in [Issues -> Register \cup {None}]
  BY <1>3, <1>4, <1>7
<1>9. /\ overrides'[i] = p.state /\ past'.acked[i] = later
      /\ \A j \in Issues \ {i} : overrides'[j] = overrides[j] /\ past'.acked[j] = past.acked[j]
  BY <1>3, <1>4, <1>6, <1>7
<1>10. TableTyped'
  BY <1>1, <1>3, <1>6, <1>8 DEF TableTyped, PastType
<1>order. PostInOrder(p)
  BY <1>1, <1>4 DEF NothingFromTheFuture, i
<1>11. p.state.rev <= log[i].rev
  BY <1>3, <1>order DEF PostInOrder, i
<1>12. ASSUME NEW j \in Issues, overrides'[j] # None
       PROVE  overrides'[j].rev <= log[j].rev
  BY <1>1, <1>9, <1>11, <1>12 DEF NothingFromTheFuture
<1>13. NothingFromTheFuture'
  BY <1>1, <1>3, <1>6, <1>12 DEF NothingFromTheFuture, PostInOrder
<1>14. ASSUME ~past.overlap
       PROVE  /\ \A q, r \in posts' : q.issue = r.issue => q = r
              /\ \A j \in Issues : past'.acked[j] <= log[j].rev
              /\ \A j \in Issues :
                   overrides'[j] = Table!Fresh \/ past'.acked[j] <= OverrideRev(j)'
              /\ \A q \in posts' : q.rev > 0 => past'.acked[q.issue] <= q.rev
  <2>1. /\ \A q, r \in posts : q.issue = r.issue => q = r
        /\ \A j \in Issues : past.acked[j] <= log[j].rev
        /\ \A j \in Issues : overrides[j] = Table!Fresh \/ past.acked[j] <= OverrideRev(j)
        /\ \A q \in posts : q.rev > 0 => past.acked[q.issue] <= q.rev
    BY <1>1, <1>14 DEF AcknowledgedIsKept
  <2>order. /\ p.rev > 0 /\ p.rev <= log[i].rev
            /\ p.state # Table!Fresh => p.rev <= p.state.rev
    BY <1>3, <1>order DEF PostInOrder, i
  <2>2. later = p.rev
    BY <1>3, <1>5, <2>1, <2>order DEF i
  <2>log. \A j \in Issues : past'.acked[j] <= log[j].rev
    BY <1>9, <2>1, <2>2, <2>order
  <2>3. ASSUME NEW j \in Issues
        PROVE  overrides'[j] = Table!Fresh \/ past'.acked[j] <= OverrideRev(j)'
    <3>1. CASE j = i
      <4>1. overrides'[j] # None
        BY <1>4, <1>9, <3>1, TableConstants
      <4> QED
        BY <1>4, <1>9, <2>2, <2>order, <3>1, <4>1 DEF OverrideRev
    <3>2. CASE j # i
      BY <1>9, <2>1, <3>2 DEF OverrideRev
    <3> QED
      BY <3>1, <3>2
  <2>4. ASSUME NEW q \in posts', q.rev > 0
        PROVE  past'.acked[q.issue] <= q.rev
    <3>1. q \in posts /\ q # p /\ q.issue \in Issues
      BY <1>2, <1>3, <2>4 DEF Post
    <3>2. q.issue # i
      BY <2>1, <3>1 DEF i
    <3> QED
      BY <1>9, <2>1, <2>4, <3>1, <3>2
  <2> QED
    BY <1>3, <2>1, <2>log, <2>3, <2>4
<1>15. AcknowledgedIsKept'
  BY <1>3, <1>6, <1>14 DEF AcknowledgedIsKept
<1> QED
  BY <1>10, <1>13, <1>15 DEF TableInv

(* Posts that nobody waits for any more take nothing with them.            *)
LEMMA FewerPosts ==
  ASSUME TableInv, asked' \in {asked, Waiting},
         UNCHANGED <<log, groups, states, overrides, deployed, mutes, view, past>>,
         posts' \subseteq Post,
         \A q \in posts' : \E p \in posts : q.issue = p.issue /\ q.rev = p.rev /\ q.state = p.state,
         \A q, r \in posts' : q.issue = r.issue =>
            q = r \/ \E p, t \in posts : p.issue = t.issue /\ p # t
  PROVE  TableInv'
<1>1. TableTyped'
  BY DEF TableInv, TableTyped
<1>2. NothingFromTheFuture'
  BY DEF TableInv, NothingFromTheFuture, PostInOrder
<1>3. AcknowledgedIsKept'
  BY DEF TableInv, AcknowledgedIsKept, OverrideRev
<1> QED
  BY <1>1, <1>2, <1>3 DEF TableInv

LEMMA PostEnds ==
  ASSUME TableInv, NEW p \in posts, Table!RowFails(p) \/ Table!Forgotten(p)
  PROVE  TableInv'
<1> DEFINE q == [p EXCEPT !.from = "nobody"]
<1>1. posts \subseteq Post /\ p \in Post
  BY DEF TableInv, TableTyped
<1>2. q \in Post /\ q.issue = p.issue /\ q.rev = p.rev /\ q.state = p.state
  BY <1>1 DEF Post
<1> HIDE DEF q
<1>3. posts' \subseteq (posts \ {p}) \cup {q}
  <2>1. CASE Table!RowFails(p)
    BY <2>1 DEF Table!RowFails, Table!Without, q
  <2>2. CASE Table!Forgotten(p)
    BY <2>2 DEF Table!Forgotten
  <2> QED
    BY <2>1, <2>2
<1>4. posts' \subseteq Post
  BY <1>1, <1>2, <1>3
<1>5. \A r \in posts' : \E t \in posts : r.issue = t.issue /\ r.rev = t.rev /\ r.state = t.state
  BY <1>2, <1>3
<1>6. ASSUME NEW r \in posts', NEW t \in posts', r.issue = t.issue, r # t
      PROVE  \E x, y \in posts : x.issue = y.issue /\ x # y
  <2>1. CASE r \in posts \ {p} /\ t \in posts \ {p}
    BY <1>6, <2>1
  <2>2. CASE r = q /\ t \in posts \ {p}
    BY <1>2, <1>6, <2>2
  <2>3. CASE t = q /\ r \in posts \ {p}
    BY <1>2, <1>6, <2>3
  <2> QED
    BY <1>3, <1>6, <2>1, <2>2, <2>3
<1>7. asked' \in {asked, Waiting}
      /\ UNCHANGED <<log, groups, states, overrides, deployed, mutes, view, past>>
  BY DEF Table!RowFails, Table!Forgotten
<1> QED
  BY <1>4, <1>5, <1>6, <1>7, FewerPosts

(* Only rows can be muted, and a row is an issue.                          *)
LEMMA MuteStep ==
  ASSUME TableInv, NEW i \in Issues, Table!toggleMute(i)
  PROVE  TableInv'
<1> DEFINE next == (mutes.shown \ {i}) \cup ({i} \ mutes.shown)
<1>1. past \in PastType /\ past' = [past EXCEPT !.steps = past.steps + 1]
  BY DEF Table!toggleMute, TableInv, TableTyped, PastType
<1>2. /\ past' \in PastType
      /\ past'.clock = past.clock /\ past'.acked = past.acked /\ past'.overlap = past.overlap
  BY <1>1, PastSteps
<1>3. mutes \in [shown : SUBSET Issues, stored : SUBSET Issues, loaded : BOOLEAN]
  BY DEF TableInv, TableTyped
<1>4. next \in SUBSET Issues
  BY <1>3
<1>5. mutes' = [mutes EXCEPT !.shown = next, !.stored = next]
  BY DEF Table!toggleMute
<1> HIDE DEF next
<1>6. mutes' \in [shown : SUBSET Issues, stored : SUBSET Issues, loaded : BOOLEAN]
  BY <1>3, <1>4, <1>5
<1>7. TableTyped'
  BY <1>2, <1>6 DEF Table!toggleMute, TableInv, TableTyped, PastType
<1>8. UNCHANGED <<log, states, asked, overrides, posts>>
  BY DEF Table!toggleMute
<1>9. NothingFromTheFuture' /\ AcknowledgedIsKept'
  BY <1>2, <1>8, TableQuiet DEF TableInv
<1> QED
  BY <1>7, <1>9 DEF TableInv

LEMMA TableRests ==
  ASSUME TableInv, UNCHANGED tableVars
  PROVE  TableInv'
BY DEF TableInv, TableTyped, NothingFromTheFuture, PostInOrder, AcknowledgedIsKept, OverrideRev,
       tableVars

LEMMA TableStep ==
  ASSUME TableInv, Table!Next
  PROVE  TableInv'
<1>1. CASE \E i \in Issues : Table!toggleMute(i)
  BY <1>1, MuteStep
<1>2. CASE \E i \in Issues, a \in Table!Actions : Table!act(i, a)
  BY <1>2, ActStep
<1>3. CASE \E i \in Issues, a \in Table!Actions : Table!OthersAct(i, a)
  BY <1>3, OthersStep
<1>4. CASE \E p \in posts : Table!PostStored(p)
  BY <1>4, PostStoredStep
<1>5. CASE \E p \in posts : Table!RowAnswered(p)
  BY <1>5, RowAnsweredStep
<1>7. CASE \E p \in posts : Table!PostRead(p)
  BY <1>7, PostReadStep
<1>6. CASE \E p \in posts : Table!RowFails(p) \/ Table!Forgotten(p)
  BY <1>6, PostEnds
<1> QED
  BY <1>1, <1>2, <1>3, <1>4, <1>5, <1>6, <1>7, ReadStep, StatesStep, ViewStep
     DEF Table!Next, Table!Reader, Table!Answers, Issues

LEMMA TableAlways == UserSpec => []TableInv
<1>1. UserInit => TableInv
  BY TableInit DEF UserInit
<1>2. TableInv /\ [UserNext]_userVars => TableInv'
  BY TableStep, TableRests DEF UserNext, userVars, tableVars
<1> QED
  BY <1>1, <1>2, PTL DEF UserSpec

(* The page that is shown holds at least one row, if there are rows.       *)
LEMMA PageHasRows ==
  ASSUME TableTyped, Len(Table!rows) > 0
  PROVE  /\ Table!page \in 1 .. Table!totalPages
         /\ 1 \in DOMAIN Table!pageGroups
<1> DEFINE r == Table!rows
           n == Table!totalPages
           p == Table!page
           start == (p - 1) * PageSize
           last == IF p * PageSize > Len(r) THEN Len(r) ELSE p * PageSize
<1>1. r \in Seq(Issues) /\ Len(r) \in Nat \ {0} /\ r # << >>
  BY RowsType DEF TableTyped
<1>2. n = (Len(r) + PageSize - 1) \div PageSize
  BY <1>1 DEF Table!totalPages
<1>3. n \in Nat \ {0} /\ PageSize \in Nat \ {0}
  BY PagesType, TableConstants DEF TableTyped
<1>4. view.page \in Nat \ {0}
  BY DEF TableTyped, View
<1>5. p = IF view.page > n THEN n ELSE view.page
  BY DEF Table!page
<1>6. Table!pageGroups = SubSeq(r, start + 1, last)
  BY DEF Table!pageGroups
<1> HIDE DEF r, n, p
<1>7. p \in 1 .. n
  BY <1>3, <1>4, <1>5
<1>8. start \in Nat /\ start < Len(r)
  BY <1>1, <1>2, <1>3, <1>7, PagesNeeded
<1>9. p * PageSize = start + PageSize /\ p * PageSize \in Nat
  BY <1>3, <1>7
<1> HIDE DEF start
<1>10. last \in Nat /\ start + 1 <= last
  BY <1>1, <1>3, <1>8, <1>9
<1> HIDE DEF last
<1>11. DOMAIN SubSeq(r, start + 1, last) = 1 .. (last - start)
  <2>1. DOMAIN SubSeq(r, start + 1, last) = 1 .. (1 + last - (start + 1))
    OBVIOUS
  <2> QED
    BY <1>8, <1>10, <2>1
<1>12. 1 \in DOMAIN Table!pageGroups
  BY <1>6, <1>8, <1>10, <1>11
<1> QED
  BY <1>7, <1>12 DEF n, p

LEMMA StateOfType ==
  ASSUME TableTyped, NEW i \in Issues
  PROVE  Table!stateOf(i) \in Register
BY FreshIsState DEF TableTyped, Table!stateOf

(* What was acknowledged never goes back unless the answer came without    *)
(* the register, and the reader is never left on an empty page, for every  *)
(* number of issues, users and steps.                                      *)
THEOREM TableIsKeptUp == UserSpec => []TableKeepsUp
<1>1. ASSUME TableInv
      PROVE  Table!RowKeepsAct
  <2> SUFFICES ASSUME ~past.overlap, NEW i \in Issues, overrides[i] # Table!Fresh
               PROVE  past.acked[i] <= Table!stateOf(i).rev
    BY DEF Table!RowKeepsAct, Issues
  <2>1. past.acked[i] <= OverrideRev(i) /\ past.acked[i] \in Nat
    BY <1>1 DEF TableInv, TableTyped, AcknowledgedIsKept
  <2>2. Table!stateOf(i).rev \in Nat
    BY <1>1, StateOfType, StateType DEF TableInv
  <2>3. overrides[i] # None => Table!stateOf(i).rev = OverrideRev(i)
    BY DEF Table!stateOf, OverrideRev
  <2>4. overrides[i] = None => OverrideRev(i) = 0
    BY DEF OverrideRev
  <2> QED
    BY <2>1, <2>2, <2>3, <2>4
<1>2. ASSUME TableInv
      PROVE  Table!PageNotStranded
  <2>1. TableTyped /\ view.page \in Nat
    BY <1>2 DEF TableInv, TableTyped, View
  <2>2. Table!totalPages \in Nat
    BY <2>1, PagesType DEF TableTyped
  <2>3. Table!page \notin Table!ListShown.pages /\ view.page > Table!page => Table!page = Table!totalPages
    BY <2>1, <2>2 DEF Table!page
  <2>4. ASSUME Table!ListShown.count > 0
        PROVE  Table!ListShown.rows # << >>
    <3>1. CASE groups = None \/ groups = << >>
      BY <2>4, <3>1 DEF Table!ListShown
    <3>2. CASE ~(groups = None \/ groups = << >>)
      <4>1. /\ Table!ListShown.count = Len(Table!rows)
            /\ Table!ListShown.rows =
                 [k \in DOMAIN Table!pageGroups |-> Table!RowShown(Table!pageGroups[k])]
        BY <3>2 DEF Table!ListShown
      <4>2. 1 \in DOMAIN Table!pageGroups
        BY <2>1, <2>4, <4>1, PageHasRows
      <4> QED
        BY <4>1, <4>2
    <3> QED
      BY <3>1, <3>2
  <2> QED
    BY <2>3, <2>4 DEF Table!PageNotStranded
<1>3. TableInv => TableKeepsUp
  BY <1>1, <1>2 DEF TableKeepsUp
<1> QED
  BY <1>3, TableAlways, PTL

LEMMA TableTypes == TableInv => Table!TriageTypeOK
<1> SUFFICES ASSUME TableInv PROVE Table!TriageTypeOK
  OBVIOUS
<1>1. TableTyped /\ NothingFromTheFuture
  BY DEF TableInv
<1>2. \A i \in Issues : log[i] \in Register /\ log[i].rev \in Nat
  BY <1>1, StateType DEF TableTyped
<1>3. ASSUME NEW i \in Issues
      PROVE  Table!stateOf(i).rev <= log[i].rev
  BY <1>1, <1>2, FreshIsState DEF NothingFromTheFuture, Table!stateOf
<1> QED
  BY <1>1, <1>2, <1>3, StateType DEF Table!TriageTypeOK, TableTyped, Issues

-----------------------------------------------------------------------------
(* The configuration page.                                                 *)

Uids == Settings!Uids
RowType == [env : EnvNames \cup {None}, uids : [Kinds -> Uids \cup {None}], routing : Values \cup {None}]
Pair(S) == (S \cup {None}) \X (Values \cup {None})
SecretField == [typed : Values \cup {None}, configured : BOOLEAN, reset : BOOLEAN]
FormType ==
  [uids : [Kinds -> Uids \cup {None}], rows : Seq(RowType), labels : [Labels -> Values \cup {None}],
   aliases : Seq(Pair(Hosts)), watch : Seq(Pair(Values)), text : Values \cup Detected \cup {None},
   secrets : [Secrets -> SecretField]]

FormTyped ==
  /\ stored \in Settings!Settings
  /\ form \in FormType
  /\ arrived \in Sources \cup {None, {}}
  /\ edits \in 0 .. MaxEdits

LEMMA FormConstants ==
  /\ Stored \subseteq Settings!Settings
  /\ \A a \in Sources :
       /\ IsFiniteSet(a) /\ a # None
       /\ \A s \in a : s.kind \in Kinds /\ s.uid \in Uids /\ s.env \in EnvNames \cup {None}
  /\ EnvNames \subseteq Int /\ IsFiniteSet(EnvNames)
  /\ None \notin EnvNames /\ None \notin Values /\ None \notin Hosts /\ None \notin Uids /\ None # {}
  /\ MaxEdits \in Nat
<1>1. \A S : Settings!IsFiniteSet(S) <=> IsFiniteSet(S)
  BY Zenon DEF Settings!IsFiniteSet, IsFiniteSet
<1>2. Settings!ConstantsOK
  BY UserDataAssumption
<1>3. None \notin Uids
  <2>1. \A a \in Sources : \A s \in a : s.uid # None
    BY <1>2 DEF Settings!ConstantsOK
  <2>2. ASSUME NEW a \in Sources
        PROVE  None \notin {s.uid : s \in a}
    BY <2>1
  <2>3. ASSUME NEW x \in Uids
        PROVE  x \in Values \/ \E a \in Sources : x \in {s.uid : s \in a}
    <3> DEFINE answered(a) == {s.uid : s \in a}
               all == {answered(a) : a \in Sources}
    <3>1. Uids = (UNION all) \cup Values
      BY DEF Settings!Uids, Uids
    <3> HIDE DEF answered
    <3>2. ASSUME x \in UNION all
          PROVE  \E a \in Sources : x \in answered(a)
      <4>1. PICK b \in all : x \in b
        BY <3>2
      <4> QED
        BY <4>1
    <3> HIDE DEF all
    <3> QED
      BY <3>1, <3>2, <2>3 DEF answered
  <2>4. None \notin Values
    BY <1>2 DEF Settings!ConstantsOK
  <2> QED
    BY <2>2, <2>3, <2>4
<1>4. ASSUME NEW a \in Sources, NEW s \in a
      PROVE  s.uid \in Uids
  BY Zenon DEF Settings!Uids, Uids
<1> QED
  BY <1>1, <1>2, <1>3, <1>4 DEF Settings!ConstantsOK

LEMMA FormCounts == ASSUME NEW S PROVE Settings!Cardinality(S) = Cardinality(S)
BY Zenon DEF Settings!Cardinality, Cardinality

LEMMA FormSelects ==
  /\ \A S : Settings!Ascending(S) = Ascending(S)
  /\ \A s, at : Settings!ElementsAt(s, at) = ElementsAt(s, at)
<1>2. ASSUME NEW S, NEW R, NEW x PROVE Settings!Place(S, R, x) = Place(S, R, x)
  BY FormCounts DEF Settings!Place, Place
<1>3. ASSUME NEW S, NEW R PROVE Settings!InOrder(S, R) = InOrder(S, R)
  BY <1>2, FormCounts DEF Settings!InOrder, InOrder
<1>4. ASSUME NEW S PROVE Settings!Less(S) = Less(S)
  BY DEF Settings!Less, Less
<1>5. ASSUME NEW S PROVE Settings!Ascending(S) = Ascending(S)
  BY <1>3, <1>4 DEF Settings!Ascending, Ascending
<1>6. ASSUME NEW s, NEW at PROVE Settings!ElementsAt(s, at) = ElementsAt(s, at)
  BY <1>5 DEF Settings!ElementsAt, ElementsAt
<1> QED
  BY <1>5, <1>6

(* The names of some environments, each once.                              *)
LEMMA NamesSorted ==
  ASSUME NEW E \in SUBSET EnvNames
  PROVE  /\ Cardinality(E) \in Nat
         /\ Settings!ByName(E) \in [1 .. Cardinality(E) -> E]
         /\ \A x \in E : \E k \in 1 .. Cardinality(E) : Settings!ByName(E)[k] = x
         /\ \A i, j \in 1 .. Cardinality(E) : Settings!ByName(E)[i] = Settings!ByName(E)[j] => i = j
<1>1. E \in SUBSET Int /\ IsFiniteSet(E)
  BY FormConstants, FS_Subset
<1>2. Settings!ByName(E) = Ascending(E)
  BY FormSelects DEF Settings!ByName
<1> QED
  BY <1>1, <1>2, AscendingSorts

(* The environments that some row says something of.                       *)
SpokenOf(r, field) == {e \in EnvNames : \E i \in DOMAIN r : r[i].env = e /\ field[i] # None}

(* What an environment with one row says is what that row says.            *)
LEMMA SaidOnce ==
  ASSUME NEW r, NEW field, DOMAIN r \subseteq Int,
         \A i, j \in DOMAIN r : r[i].env = r[j].env => i = j
  PROVE  /\ Settings!ByEnvironment(r, field) =
              [e \in SpokenOf(r, field) |-> Settings!ByEnvironment(r, field)[e]]
         /\ \A i \in DOMAIN r :
              r[i].env \in EnvNames /\ field[i] # None
                => Settings!ByEnvironment(r, field)[r[i].env] = field[i]
<1> DEFINE said(e) == {i \in DOMAIN r : r[i].env = e /\ field[i] # None}
           names == {e \in EnvNames : said(e) # {}}
           B == Settings!ByEnvironment(r, field)
           E == SpokenOf(r, field)
<1>1. B = [e \in names |-> field[CHOOSE i \in said(e) : \A j \in said(e) : j <= i]]
  BY DEF Settings!ByEnvironment
<1>2. names = E
  BY DEF SpokenOf
<1>3. ASSUME NEW i \in DOMAIN r, r[i].env \in EnvNames, field[i] # None
      PROVE  B[r[i].env] = field[i]
  <2>1. said(r[i].env) = {i}
    BY <1>3
  <2>2. i <= i
    OBVIOUS
  <2>3. (CHOOSE h \in said(r[i].env) : \A j \in said(r[i].env) : j <= h) = i
    BY <2>1, <2>2
  <2>4. r[i].env \in names
    BY <1>3
  <2> QED
    BY <1>1, <2>3, <2>4
<1> HIDE DEF B, E, said
<1>4. B = [e \in E |-> B[e]]
  BY <1>1, <1>2
<1> QED
  BY <1>3, <1>4 DEF B, E

-----------------------------------------------------------------------------
(* Rows of two names that are written back.                                *)


(* Pairs with both names are kept, in their order.                         *)
LEMMA KeptAtType ==
  ASSUME NEW S, NEW pairs \in Seq(Pair(S)), NEW at \in SUBSET Settings!CompleteAt(pairs)
  PROVE  /\ ElementsAt(pairs, at) \in Seq(S \X Values)
         /\ \A j, k \in DOMAIN ElementsAt(pairs, at) :
              j < k => \E a, b \in at :
                         a < b /\ ElementsAt(pairs, at)[j] = pairs[a] /\ ElementsAt(pairs, at)[k] = pairs[b]
         /\ \A k \in DOMAIN ElementsAt(pairs, at) : \E i \in at : ElementsAt(pairs, at)[k] = pairs[i]
<1> DEFINE e == ElementsAt(pairs, at)
<1>1. at \in SUBSET DOMAIN pairs
  BY DEF Settings!CompleteAt
<1>2. \A i \in at : pairs[i] \in S \X Values
  <2>1. ASSUME NEW i \in at PROVE pairs[i] \in S \X Values
    <3>1. pairs[i] \in Pair(S) /\ pairs[i][1] # None /\ pairs[i][2] # None
      BY ElementOfSeq DEF Settings!CompleteAt
    <3> QED
      BY <3>1 DEF Pair
  <2> QED
    BY <2>1
<1>3. /\ e \in Seq(Pair(S))
      /\ \A k \in DOMAIN e : \E i \in at : e[k] = pairs[i]
      /\ \A j, k \in DOMAIN e : j < k => \E a, b \in at : a < b /\ e[j] = pairs[a] /\ e[k] = pairs[b]
  BY <1>1, ElementsAtKeep
<1> HIDE DEF e
<1>4. \A k \in 1 .. Len(e) : e[k] \in S \X Values
  BY <1>2, <1>3
<1>5. e = [k \in 1 .. Len(e) |-> e[k]] /\ Len(e) \in Nat
  BY <1>3
<1>6. e \in [1 .. Len(e) -> S \X Values]
  BY <1>4, <1>5
<1>7. e \in Seq(S \X Values)
  BY <1>5, <1>6, IsASeq
<1> QED
  BY <1>3, <1>7 DEF e

LEMMA CompleteType ==
  ASSUME NEW S, NEW pairs \in Seq(Pair(S))
  PROVE  Settings!Complete(pairs) \in Seq(S \X Values)
BY KeptAtType, FormSelects DEF Settings!Complete

LEMMA CompleteAll ==
  ASSUME NEW S, None \notin S, NEW pairs \in Seq(S \X Values)
  PROVE  /\ Settings!CompleteAt(pairs) = DOMAIN pairs
         /\ Settings!Complete(pairs) = pairs
<1>1. \A i \in DOMAIN pairs : pairs[i] \in S \X Values
  BY ElementOfSeq
<1>2. Settings!CompleteAt(pairs) = DOMAIN pairs
  BY <1>1, FormConstants DEF Settings!CompleteAt
<1>3. Settings!Complete(pairs) = ElementsAt(pairs, DOMAIN pairs)
  BY <1>2, FormSelects DEF Settings!Complete
<1> QED
  BY <1>2, <1>3, ElementsAtAll

(* Where a hostname is given a service, first and last.                    *)
SaidAt(pairs, h) == {i \in Settings!CompleteAt(pairs) : pairs[i][1] = h}
FirstAt(pairs) == {i \in Settings!CompleteAt(pairs) : \A j \in SaidAt(pairs, pairs[i][1]) : i <= j}
LastAt(pairs, h) == CHOOSE i \in SaidAt(pairs, h) : \A j \in SaidAt(pairs, h) : j <= i

FirstOf(pairs) == ElementsAt(pairs, FirstAt(pairs))

LEMMA AliasesAre ==
  ASSUME NEW pairs
  PROVE  Settings!AliasesOf(pairs) =
           [k \in DOMAIN FirstOf(pairs) |->
              <<FirstOf(pairs)[k][1], pairs[LastAt(pairs, FirstOf(pairs)[k][1])][2]>>]
<1>1. Settings!ElementsAt(pairs, FirstAt(pairs)) = FirstOf(pairs)
  BY FormSelects DEF FirstOf
<1>2. Settings!AliasesOf(pairs) =
        [k \in DOMAIN Settings!ElementsAt(pairs, FirstAt(pairs)) |->
           <<Settings!ElementsAt(pairs, FirstAt(pairs))[k][1],
             pairs[LastAt(pairs, Settings!ElementsAt(pairs, FirstAt(pairs))[k][1])][2]>>]
  BY Zenon DEF Settings!AliasesOf, SaidAt, FirstAt, LastAt
<1> QED
  BY <1>1, <1>2, Zenon

Aliases == {a \in Seq(Hosts \X Values) : \A i, j \in DOMAIN a : a[i][1] = a[j][1] => i = j}

LEMMA AliasesType ==
  ASSUME NEW pairs \in Seq(Pair(Hosts))
  PROVE  Settings!AliasesOf(pairs) \in Aliases
<1> DEFINE first == ElementsAt(pairs, FirstAt(pairs))
           a == Settings!AliasesOf(pairs)
           n == Len(first)
<1>1. FirstAt(pairs) \in SUBSET Settings!CompleteAt(pairs)
  BY DEF FirstAt
<1>2. /\ first \in Seq(Hosts \X Values)
      /\ \A j, k \in DOMAIN first :
           j < k => \E b, c \in FirstAt(pairs) : b < c /\ first[j] = pairs[b] /\ first[k] = pairs[c]
      /\ \A k \in DOMAIN first : \E i \in FirstAt(pairs) : first[k] = pairs[i]
  BY <1>1, KeptAtType
<1>3. a = [k \in DOMAIN first |-> <<first[k][1], pairs[LastAt(pairs, first[k][1])][2]>>]
  BY AliasesAre, Zenon DEF FirstOf
<1> HIDE DEF first, a
<1>4. n \in Nat /\ DOMAIN first = 1 .. n
  BY <1>2
<1>5. ASSUME NEW k \in 1 .. n
      PROVE  a[k] \in Hosts \X Values /\ a[k][1] = first[k][1]
  <2> DEFINE h == first[k][1]
             T == SaidAt(pairs, h)
  <2>1. PICK i \in FirstAt(pairs) : first[k] = pairs[i]
    BY <1>2, <1>4
  <2>2. i \in T /\ T \subseteq Settings!CompleteAt(pairs) /\ T \subseteq DOMAIN pairs
    BY <2>1 DEF SaidAt, FirstAt, Settings!CompleteAt
  <2>3. Len(pairs) \in Nat /\ DOMAIN pairs = 1 .. Len(pairs)
    OBVIOUS
  <2>4. LastAt(pairs, h) = CHOOSE l \in T : \A j \in T : j <= l
    BY DEF LastAt
  <2> HIDE DEF T, h
  <2>5. \E l \in T : \A j \in T : j <= l
    BY <2>2, <2>3, LargestNumber
  <2>6. LastAt(pairs, h) \in T
    BY <2>4, <2>5
  <2>7. pairs[LastAt(pairs, h)] \in Pair(Hosts) /\ pairs[LastAt(pairs, h)][2] # None
    BY <2>2, <2>6, ElementOfSeq DEF Settings!CompleteAt
  <2>8. pairs[LastAt(pairs, h)][2] \in Values
    BY <2>7 DEF Pair
  <2>9. h \in Hosts
    BY <1>2, <1>4, ElementOfSeq DEF h
  <2> QED
    BY <1>3, <1>4, <2>8, <2>9 DEF h
<1>6. a \in [1 .. n -> Hosts \X Values]
  BY <1>3, <1>4, <1>5
<1>7. a \in Seq(Hosts \X Values) /\ DOMAIN a = 1 .. n
  BY <1>4, <1>6, IsASeq
<1>8. ASSUME NEW j \in 1 .. n, NEW k \in 1 .. n, j < k
      PROVE  first[j][1] # first[k][1]
  <2>0. j \in DOMAIN first /\ k \in DOMAIN first
    BY <1>4
  <2>1. PICK b \in FirstAt(pairs), c \in FirstAt(pairs) : b < c /\ first[j] = pairs[b] /\ first[k] = pairs[c]
    BY <1>2, <1>8, <2>0, Zenon
  <2>2. b \in DOMAIN pairs /\ c \in DOMAIN pairs /\ b \in Settings!CompleteAt(pairs)
    BY <2>1 DEF FirstAt, Settings!CompleteAt
  <2>3. b \in Int /\ c \in Int
    BY <2>2
  <2>4. ~(c <= b)
    BY <2>1, <2>3
  <2>5. pairs[b][1] = pairs[c][1] => c <= b
    BY <2>2 DEF FirstAt, SaidAt
  <2> QED
    BY <2>1, <2>4, <2>5
<1>9. ASSUME NEW j \in 1 .. n, NEW k \in 1 .. n, a[j][1] = a[k][1]
      PROVE  j = k
  BY <1>5, <1>8, <1>9
<1> QED
  BY <1>7, <1>9 DEF Aliases, a

LEMMA AliasesStay ==
  ASSUME NEW pairs \in Aliases
  PROVE  Settings!AliasesOf(pairs) = pairs
<1> DEFINE first == ElementsAt(pairs, FirstAt(pairs))
<1>1. /\ pairs \in Seq(Hosts \X Values)
      /\ \A i, j \in DOMAIN pairs : pairs[i][1] = pairs[j][1] => i = j
      /\ DOMAIN pairs = 1 .. Len(pairs)
  BY DEF Aliases
<1>2. Settings!CompleteAt(pairs) = DOMAIN pairs
  BY <1>1, CompleteAll, FormConstants
<1>3. \A i \in DOMAIN pairs : SaidAt(pairs, pairs[i][1]) = {i}
  BY <1>1, <1>2 DEF SaidAt
<1>4. \A i \in DOMAIN pairs : i <= i
  BY <1>1
<1>5. FirstAt(pairs) = DOMAIN pairs
  BY <1>2, <1>3, <1>4 DEF FirstAt
<1>6. \A i \in DOMAIN pairs : LastAt(pairs, pairs[i][1]) = i
  BY <1>3, <1>4 DEF LastAt
<1>7. first = pairs
  BY <1>1, <1>5, ElementsAtAll
<1>8. Settings!AliasesOf(pairs) = [k \in DOMAIN first |-> <<first[k][1], pairs[LastAt(pairs, first[k][1])][2]>>]
  BY AliasesAre, Zenon DEF FirstOf
<1> HIDE DEF first
<1>9. Settings!AliasesOf(pairs) = [k \in DOMAIN pairs |-> <<pairs[k][1], pairs[k][2]>>]
  BY <1>6, <1>7, <1>8
<1>10. \A k \in DOMAIN pairs : <<pairs[k][1], pairs[k][2]>> = pairs[k]
  BY <1>1, ElementOfSeq
<1>11. pairs = [k \in DOMAIN pairs |-> pairs[k]]
  BY <1>1
<1> QED
  BY <1>9, <1>10, <1>11

LEMMA SettingsType ==
  ASSUME NEW s \in Settings!Settings
  PROVE  /\ s.uids \in [Kinds -> Uids \cup {None}] /\ s.labels \in [Labels -> Values \cup {None}]
         /\ s.byEnv \in [Kinds -> Settings!PerEnvironment(Uids)]
         /\ s.routing \in Settings!PerEnvironment(Values)
         /\ s.aliases \in Aliases /\ s.watch \in Seq(Values \X Values)
         /\ s.text \in Values \cup Detected \cup {None} /\ s.secrets \in [Secrets -> Values \cup {None}]
BY DEF Settings!Settings, Uids, Aliases

LEMMA PerEnvironmentType ==
  ASSUME NEW V, NEW g
  PROVE  g \in Settings!PerEnvironment(V) <=> \E E \in SUBSET EnvNames : g \in [E -> V]
BY DEF Settings!PerEnvironment

(* The environments that the settings s say something of.                  *)
Known(s) == DOMAIN s.routing \cup UNION {DOMAIN s.byEnv[k] : k \in Kinds}

LEMMA KnownType ==
  ASSUME NEW s \in Settings!Settings
  PROVE  Known(s) \in SUBSET EnvNames
<1>1. DOMAIN s.routing \in SUBSET EnvNames
  BY SettingsType, PerEnvironmentType
<1>2. ASSUME NEW k \in Kinds
      PROVE  DOMAIN s.byEnv[k] \in SUBSET EnvNames
  BY SettingsType, PerEnvironmentType
<1> QED
  BY <1>1, <1>2 DEF Known

LEMMA RowIsTyped ==
  ASSUME NEW s \in Settings!Settings, NEW e \in EnvNames
  PROVE  Settings!Row(s, e) \in RowType
<1>1. ASSUME NEW k \in Kinds, e \in DOMAIN s.byEnv[k]
      PROVE  s.byEnv[k][e] \in Uids
  BY <1>1, SettingsType, PerEnvironmentType
<1>2. e \in DOMAIN s.routing => s.routing[e] \in Values
  BY SettingsType, PerEnvironmentType
<1> QED
  BY <1>1, <1>2 DEF Settings!Row, RowType

(* The form has a row for every environment that is known.                 *)
LEMMA RowsParsed ==
  ASSUME NEW s \in Settings!Settings
  PROVE  LET n == Cardinality(Known(s))
             names == Settings!ByName(Known(s))
         IN  /\ n \in Nat
             /\ Settings!parseEnvOverrides(s) = [i \in 1 .. n |-> Settings!Row(s, names[i])]
             /\ \A i \in 1 .. n : names[i] \in EnvNames
             /\ \A x \in Known(s) : \E i \in 1 .. n : names[i] = x
             /\ \A i, j \in 1 .. n : names[i] = names[j] => i = j
             /\ Settings!parseEnvOverrides(s) \in Seq(RowType)
<1> DEFINE E == Known(s)
           n == Cardinality(E)
           names == Settings!ByName(E)
           rs == Settings!parseEnvOverrides(s)
<1>1. E \in SUBSET EnvNames
  BY KnownType
<1>2. rs = [i \in DOMAIN names |-> Settings!Row(s, names[i])]
  BY DEF Settings!parseEnvOverrides, Known
<1> HIDE DEF E
<1>3. /\ n \in Nat /\ names \in [1 .. n -> E]
      /\ \A x \in E : \E i \in 1 .. n : names[i] = x
      /\ \A i, j \in 1 .. n : names[i] = names[j] => i = j
  BY <1>1, NamesSorted
<1>4. rs = [i \in 1 .. n |-> Settings!Row(s, names[i])]
  BY <1>2, <1>3
<1>5. \A i \in 1 .. n : names[i] \in EnvNames
  BY <1>1, <1>3
<1> HIDE DEF rs, names
<1>6. \A i \in 1 .. n : Settings!Row(s, names[i]) \in RowType
  BY <1>5, RowIsTyped
<1>7. rs \in [1 .. n -> RowType]
  BY <1>4, <1>6
<1>8. rs \in Seq(RowType)
  BY <1>3, <1>7, IsASeq
<1> QED
  BY <1>3, <1>4, <1>5, <1>8 DEF E, names, rs

LEMMA FormOfType ==
  ASSUME NEW s \in Settings!Settings
  PROVE  Settings!FormOf(s) \in FormType
<1>1. Settings!parseEnvOverrides(s) \in Seq(RowType)
  BY RowsParsed
<1>2. [x \in Secrets |-> [typed |-> None, configured |-> s.secrets[x] # None, reset |-> FALSE]]
        \in [Secrets -> SecretField]
  BY DEF SecretField
<1>3. s.aliases \in Seq(Pair(Hosts)) /\ s.watch \in Seq(Pair(Values))
  <2>1. Hosts \X Values \subseteq Pair(Hosts) /\ Values \X Values \subseteq Pair(Values)
    BY DEF Pair
  <2> QED
    BY <2>1, SettingsType, SeqMonotonic DEF Aliases
<1>4. /\ s.uids \in [Kinds -> Uids \cup {None}] /\ s.labels \in [Labels -> Values \cup {None}]
      /\ s.text \in Values \cup Detected \cup {None}
  BY SettingsType
<1> QED
  BY <1>1, <1>2, <1>3, <1>4 DEF Settings!FormOf, FormType

LEMMA FormInit ==
  ASSUME Settings!Init
  PROVE  FormTyped
<1>1. stored \in Settings!Settings /\ MaxEdits \in Nat
  BY FormConstants DEF Settings!Init
<1>2. form \in FormType
  BY <1>1, FormOfType DEF Settings!Init
<1> QED
  BY <1>1, <1>2 DEF Settings!Init, FormTyped

(* What a field says of the environments, from the last row of each.       *)
LEMMA ByEnvironmentType ==
  ASSUME NEW n \in Nat, NEW r, DOMAIN r = 1 .. n, NEW V, NEW field,
         \A i \in 1 .. n : field[i] \in V \cup {None}
  PROVE  Settings!ByEnvironment(r, field) \in Settings!PerEnvironment(V)
<1> DEFINE said(e) == {i \in DOMAIN r : r[i].env = e /\ field[i] # None}
           names == {e \in EnvNames : said(e) # {}}
           last(e) == CHOOSE i \in said(e) : \A j \in said(e) : j <= i
           B == Settings!ByEnvironment(r, field)
<1>1. B = [e \in names |-> field[last(e)]]
  BY DEF Settings!ByEnvironment
<1>2. ASSUME NEW e \in names
      PROVE  field[last(e)] \in V
  <2>1. said(e) \in SUBSET (1 .. n) /\ said(e) # {}
    OBVIOUS
  <2> HIDE DEF said
  <2>2. \E i \in said(e) : \A j \in said(e) : j <= i
    BY <2>1, LargestNumber
  <2>3. last(e) \in said(e)
    BY <2>2
  <2> HIDE DEF last
  <2> QED
    BY <2>3 DEF said
<1> HIDE DEF B, last
<1>3. B \in [names -> V] /\ names \in SUBSET EnvNames
  BY <1>1, <1>2
<1> QED
  BY <1>3, PerEnvironmentType DEF B

(* What a row says of an environment is read back from it.                 *)
LEMMA FieldComesBack ==
  ASSUME NEW V, None \notin V, NEW g \in Settings!PerEnvironment(V), NEW n \in Nat,
         NEW r, NEW field, DOMAIN r = 1 .. n,
         \A i, j \in 1 .. n : r[i].env = r[j].env => i = j,
         \A i \in 1 .. n : r[i].env \in EnvNames,
         \A i \in 1 .. n : field[i] = IF r[i].env \in DOMAIN g THEN g[r[i].env] ELSE None,
         \A e \in DOMAIN g : \E i \in 1 .. n : r[i].env = e
  PROVE  Settings!ByEnvironment(r, field) = g
<1> DEFINE B == Settings!ByEnvironment(r, field)
           E == SpokenOf(r, field)
<1>1. PICK D \in SUBSET EnvNames : g \in [D -> V]
  BY PerEnvironmentType
<1>2. DOMAIN g = D
  BY <1>1
<1>3. /\ B = [e \in E |-> B[e]]
      /\ \A i \in 1 .. n : r[i].env \in EnvNames /\ field[i] # None => B[r[i].env] = field[i]
  <2>1. /\ DOMAIN r \subseteq Int
        /\ \A i, j \in DOMAIN r : r[i].env = r[j].env => i = j
    OBVIOUS
  <2>2. /\ B = [e \in E |-> B[e]]
        /\ \A i \in DOMAIN r : r[i].env \in EnvNames /\ field[i] # None => B[r[i].env] = field[i]
    BY <2>1, SaidOnce
  <2> HIDE DEF B, E
  <2> QED
    BY <2>2
<1>4. E = D
  <2>1. ASSUME NEW e \in E PROVE e \in D
    BY <1>2 DEF SpokenOf
  <2>2. ASSUME NEW e \in D PROVE e \in E
    BY <1>1, <1>2 DEF SpokenOf
  <2> QED
    BY <2>1, <2>2
<1> HIDE DEF B, E
<1>5. ASSUME NEW e \in D PROVE B[e] = g[e]
  <2>1. PICK i \in 1 .. n : r[i].env = e
    BY <1>2
  <2>2. field[i] = g[e] /\ g[e] # None
    BY <1>1, <1>2, <2>1
  <2> QED
    BY <1>1, <1>3, <2>1, <2>2
<1>6. B = [e \in D |-> g[e]]
  BY <1>3, <1>4, <1>5
<1> QED
  BY <1>1, <1>6 DEF B

LEMMA NoneIsNoValue == None \notin Uids /\ None \notin Values
BY FormConstants

(* Nothing is lost and nothing is added on the way through the form.       *)
LEMMA RoundTrip ==
  ASSUME NEW s \in Settings!Settings
  PROVE  Settings!jsonData(Settings!FormOf(s), s.secrets) = s
<1> DEFINE f == Settings!FormOf(s)
           E == Known(s)
           n == Cardinality(E)
           names == Settings!ByName(E)
           r == Settings!parseEnvOverrides(s)
<1>1. /\ n \in Nat
      /\ r = [i \in 1 .. n |-> Settings!Row(s, names[i])]
      /\ \A i \in 1 .. n : names[i] \in EnvNames
      /\ \A x \in E : \E i \in 1 .. n : names[i] = x
      /\ \A i, j \in 1 .. n : names[i] = names[j] => i = j
  BY RowsParsed
<1>2. /\ f.uids = s.uids /\ f.rows = r /\ f.labels = s.labels /\ f.aliases = s.aliases
      /\ f.watch = s.watch /\ f.text = s.text
      /\ f.secrets = [x \in Secrets |-> [typed |-> None, configured |-> s.secrets[x] # None, reset |-> FALSE]]
  BY DEF Settings!FormOf
<1>3. /\ DOMAIN s.routing \subseteq E
      /\ \A k \in Kinds : DOMAIN s.byEnv[k] \subseteq E
  BY DEF Known
<1> HIDE DEF f, r, E, names
<1>4. \A i \in 1 .. n :
        /\ r[i].env = names[i]
        /\ \A k \in Kinds : r[i].uids[k] = IF names[i] \in DOMAIN s.byEnv[k] THEN s.byEnv[k][names[i]] ELSE None
        /\ r[i].routing = IF names[i] \in DOMAIN s.routing THEN s.routing[names[i]] ELSE None
  BY <1>1 DEF Settings!Row
<1>5. DOMAIN r = 1 .. n
  BY <1>1
<1> HIDE DEF n
<1>6. ASSUME NEW k \in Kinds
      PROVE  Settings!ByEnvironment(r, [i \in DOMAIN r |-> r[i].uids[k]]) = s.byEnv[k]
  <2> DEFINE field == [i \in DOMAIN r |-> r[i].uids[k]]
             g == s.byEnv[k]
  <2>1. g \in Settings!PerEnvironment(Uids)
    BY SettingsType
  <2>2. \A i \in 1 .. n : field[i] = IF r[i].env \in DOMAIN g THEN g[r[i].env] ELSE None
    BY <1>4, <1>5
  <2>3. \A e \in DOMAIN g : \E i \in 1 .. n : r[i].env = e
    BY <1>1, <1>3, <1>4
  <2>4. /\ \A i, j \in 1 .. n : r[i].env = r[j].env => i = j
        /\ \A i \in 1 .. n : r[i].env \in EnvNames
    BY <1>1, <1>4
  <2> HIDE DEF field, g
  <2>5. Settings!ByEnvironment(r, field) = g
    BY <1>1, <1>5, <2>1, <2>2, <2>3, <2>4, FieldComesBack, NoneIsNoValue
  <2> QED
    BY <2>5 DEF field, g
<1>7. Settings!RoutingOf(r) = s.routing
  <2> DEFINE field == [i \in DOMAIN r |-> r[i].routing]
             g == s.routing
  <2>1. g \in Settings!PerEnvironment(Values)
    BY SettingsType
  <2>2. \A i \in 1 .. n : field[i] = IF r[i].env \in DOMAIN g THEN g[r[i].env] ELSE None
    BY <1>4, <1>5
  <2>3. \A e \in DOMAIN g : \E i \in 1 .. n : r[i].env = e
    BY <1>1, <1>3, <1>4
  <2>4. /\ \A i, j \in 1 .. n : r[i].env = r[j].env => i = j
        /\ \A i \in 1 .. n : r[i].env \in EnvNames
    BY <1>1, <1>4
  <2> HIDE DEF field, g
  <2>5. Settings!ByEnvironment(r, field) = g
    BY <1>1, <1>5, <2>1, <2>2, <2>3, <2>4, FieldComesBack, NoneIsNoValue
  <2> QED
    BY <2>5 DEF field, g, Settings!RoutingOf
<1>8. [k \in Kinds |-> Settings!ByEnvironment(r, [i \in DOMAIN r |-> r[i].uids[k]])] = s.byEnv
  BY <1>6, SettingsType
<1>9. Settings!Complete(s.watch) = s.watch
  BY CompleteAll, SettingsType, NoneIsNoValue
<1>10. Settings!AliasesOf(s.aliases) = s.aliases
  BY AliasesStay, SettingsType
<1>11. Settings!secureJsonData(f, s.secrets) = s.secrets
  BY <1>2, SettingsType DEF Settings!secureJsonData
<1> QED
  <2>1. Settings!jsonData(f, s.secrets) =
          [uids |-> s.uids, byEnv |-> s.byEnv, routing |-> s.routing, labels |-> s.labels,
           aliases |-> s.aliases, watch |-> s.watch, text |-> s.text, secrets |-> s.secrets]
    BY <1>2, <1>7, <1>8, <1>9, <1>10, <1>11 DEF Settings!jsonData
  <2>2. s = [uids |-> s.uids, byEnv |-> s.byEnv, routing |-> s.routing, labels |-> s.labels,
             aliases |-> s.aliases, watch |-> s.watch, text |-> s.text, secrets |-> s.secrets]
    BY DEF Settings!Settings
  <2> QED
    BY <2>1, <2>2 DEF f

LEMMA FormFields ==
  ASSUME NEW f \in FormType
  PROVE  /\ f.uids \in [Kinds -> Uids \cup {None}] /\ f.rows \in Seq(RowType)
         /\ f.labels \in [Labels -> Values \cup {None}]
         /\ f.aliases \in Seq(Pair(Hosts)) /\ f.watch \in Seq(Pair(Values))
         /\ f.text \in Values \cup Detected \cup {None} /\ f.secrets \in [Secrets -> SecretField]
BY DEF FormType

LEMMA RowFields ==
  ASSUME NEW r \in RowType
  PROVE  /\ r.env \in EnvNames \cup {None} /\ r.uids \in [Kinds -> Uids \cup {None}]
         /\ r.routing \in Values \cup {None}
BY DEF RowType

(* What a form is written back as can be stored.                           *)
LEMMA WrittenType ==
  ASSUME NEW f \in FormType, NEW s \in [Secrets -> Values \cup {None}]
  PROVE  Settings!jsonData(f, s) \in Settings!Settings
<1> DEFINE r == f.rows
           n == Len(r)
<1>1. n \in Nat /\ DOMAIN r = 1 .. n /\ \A i \in 1 .. n : r[i] \in RowType
  BY FormFields, ElementOfSeq
<1> HIDE DEF n, r
<1>2. ASSUME NEW k \in Kinds
      PROVE  Settings!ByEnvironment(r, [i \in DOMAIN r |-> r[i].uids[k]]) \in Settings!PerEnvironment(Uids)
  <2> DEFINE field == [i \in DOMAIN r |-> r[i].uids[k]]
  <2>1. \A i \in 1 .. n : field[i] \in Uids \cup {None}
    BY <1>1, RowFields
  <2> HIDE DEF field
  <2>2. Settings!ByEnvironment(r, field) \in Settings!PerEnvironment(Uids)
    BY <1>1, <2>1, ByEnvironmentType
  <2> QED
    BY <2>2 DEF field
<1>3. Settings!RoutingOf(r) \in Settings!PerEnvironment(Values)
  <2> DEFINE field == [i \in DOMAIN r |-> r[i].routing]
  <2>1. \A i \in 1 .. n : field[i] \in Values \cup {None}
    BY <1>1, RowFields
  <2> HIDE DEF field
  <2>2. Settings!ByEnvironment(r, field) \in Settings!PerEnvironment(Values)
    BY <1>1, <2>1, ByEnvironmentType
  <2> QED
    BY <2>2 DEF field, Settings!RoutingOf
<1>4. Settings!AliasesOf(f.aliases) \in Aliases /\ Settings!Complete(f.watch) \in Seq(Values \X Values)
  BY FormFields, CompleteType, AliasesType
<1>5. Settings!secureJsonData(f, s) \in [Secrets -> Values \cup {None}]
  <2>1. \A x \in Secrets : f.secrets[x] \in SecretField
    BY FormFields
  <2>2. \A x \in Secrets : f.secrets[x].typed \in Values \cup {None}
    BY <2>1 DEF SecretField
  <2> QED
    BY <2>2 DEF Settings!secureJsonData
<1> DEFINE b == [k \in Kinds |-> Settings!ByEnvironment(r, [i \in DOMAIN r |-> r[i].uids[k]])]
<1>6. b \in [Kinds -> Settings!PerEnvironment(Uids)]
  BY <1>2
<1>7. Settings!jsonData(f, s) =
        [uids |-> f.uids, byEnv |-> b, routing |-> Settings!RoutingOf(r), labels |-> f.labels,
         aliases |-> Settings!AliasesOf(f.aliases), watch |-> Settings!Complete(f.watch),
         text |-> f.text, secrets |-> Settings!secureJsonData(f, s)]
  BY DEF Settings!jsonData, r
<1> HIDE DEF b
<1> QED
  BY <1>3, <1>4, <1>5, <1>6, <1>7, FormFields DEF Settings!Settings, Uids, Aliases

LEMMA onSubmitStep ==
  ASSUME FormTyped, Settings!onSubmit
  PROVE  FormTyped'
<1>1. stored' \in Settings!Settings
  BY WrittenType, SettingsType DEF FormTyped, Settings!onSubmit
<1>2. form' \in FormType
  BY <1>1, FormOfType DEF Settings!onSubmit
<1> QED
  BY <1>1, <1>2 DEF FormTyped, Settings!onSubmit

(* The sources of an answer name what a row may hold.                      *)
LEMMA AutoFillType ==
  ASSUME arrived' \in Sources, NEW k
  PROVE  Settings!AutoFill(k) \in Uids \cup {None}
<1> DEFINE all == {s \in arrived' : s.kind = k}
           def == {s \in all : s.def}
<1>1. \A s \in arrived' : s.uid \in Uids
  BY FormConstants
<1>2. def # {} => (CHOOSE s \in def : TRUE).uid \in Uids
  BY <1>1
<1>3. all # {} => (CHOOSE s \in all : TRUE).uid \in Uids
  BY <1>1
<1>4. Settings!Cardinality(all) = 1 => all # {}
  <2>1. Settings!Cardinality({}) = 0
    BY FormCounts, FS_EmptySet
  <2> HIDE DEF all
  <2> QED
    BY <2>1
<1> HIDE DEF all, def
<1> QED
  BY <1>2, <1>3, <1>4 DEF Settings!AutoFill, all, def

LEMMA NamedForType ==
  ASSUME arrived' \in Sources, NEW e
  PROVE  Settings!NamedFor(e) \in [Kinds -> Uids \cup {None}]
<1>1. ASSUME NEW k \in Kinds, \E s \in arrived' : s.kind = k /\ s.env = e
      PROVE  (CHOOSE s \in arrived' : s.kind = k /\ s.env = e).uid \in Uids
  <2>1. (CHOOSE s \in arrived' : s.kind = k /\ s.env = e) \in arrived'
    BY <1>1
  <2> QED
    BY <2>1, FormConstants
<1> QED
  BY <1>1 DEF Settings!NamedFor

LEMMA LastRowType ==
  ASSUME NEW f \in FormType, NEW e, \E i \in DOMAIN f.rows : f.rows[i].env = e
  PROVE  \E i \in DOMAIN f.rows : f.rows[i].env = e /\ Settings!LastRow(f, e) = f.rows[i]
<1> DEFINE T == {i \in DOMAIN f.rows : f.rows[i].env = e}
<1>1. Len(f.rows) \in Nat /\ DOMAIN f.rows = 1 .. Len(f.rows)
  BY FormFields
<1>2. \E i \in T : \A j \in T : j <= i
  BY <1>1, LargestNumber
<1>3. \E i \in DOMAIN f.rows : /\ f.rows[i].env = e
                               /\ \A j \in DOMAIN f.rows : f.rows[j].env = e => j <= i
  BY <1>2
<1> QED
  BY <1>3 DEF Settings!LastRow

LEMMA RowKept ==
  ASSUME NEW f \in FormType, NEW i \in DOMAIN f.rows
  PROVE  f.rows[i] \in RowType
BY FormFields, ElementOfSeq

(* The rows after a merge: the one without a name, then one for every name *)
(* that was typed or found.                                                *)
TypedIn(f) == {f.rows[i].env : i \in DOMAIN f.rows}
Found == {s.env : s \in arrived'} \ {None}
Named(f) == (TypedIn(f) \cup Found) \ {None}
Unnamed(f) == IF None \in TypedIn(f) THEN <<Settings!LastRow(f, None)>> ELSE << >>
MergedRow(f, e) ==
  IF e \in Found
  THEN [env |-> e, uids |-> Settings!NamedFor(e),
        routing |-> IF e \in TypedIn(f) THEN Settings!LastRow(f, e).routing ELSE None]
  ELSE Settings!LastRow(f, e)

LEMMA MergedRowType ==
  ASSUME NEW f \in FormType, arrived' \in Sources, NEW e \in Named(f)
  PROVE  /\ e \in EnvNames /\ MergedRow(f, e) \in RowType /\ MergedRow(f, e).env = e
         /\ e \in TypedIn(f) =>
              \E i \in DOMAIN f.rows : f.rows[i].env = e /\ MergedRow(f, e).routing = f.rows[i].routing
         /\ e \notin TypedIn(f) => MergedRow(f, e).routing = None
<1>1. e \in TypedIn(f) => \E i \in DOMAIN f.rows : f.rows[i].env = e /\ Settings!LastRow(f, e) = f.rows[i]
  BY LastRowType DEF TypedIn
<1>2. \A i \in DOMAIN f.rows : f.rows[i] \in RowType
  BY RowKept
<1>3. e \in EnvNames
  <2>1. CASE e \in Found
    BY <2>1, FormConstants DEF Found
  <2>2. CASE e \notin Found
    BY <1>1, <1>2, <2>2, RowFields DEF Named
  <2> QED
    BY <2>1, <2>2
<1>4. e \in TypedIn(f) => /\ Settings!LastRow(f, e) \in RowType /\ Settings!LastRow(f, e).env = e
                        /\ Settings!LastRow(f, e).routing \in Values \cup {None}
  BY <1>1, <1>2, RowFields
<1>5. CASE e \in Found
  <2> DEFINE routing == IF e \in TypedIn(f) THEN Settings!LastRow(f, e).routing ELSE None
             uids == Settings!NamedFor(e)
  <2>1. routing \in Values \cup {None} /\ uids \in [Kinds -> Uids \cup {None}]
    BY <1>4, NamedForType
  <2>2. MergedRow(f, e) = [env |-> e, uids |-> uids, routing |-> routing]
    BY <1>5 DEF MergedRow
  <2>3. /\ e \in TypedIn(f) => routing = Settings!LastRow(f, e).routing
        /\ e \notin TypedIn(f) => routing = None
    OBVIOUS
  <2> HIDE DEF uids, routing
  <2>4. MergedRow(f, e) \in RowType /\ MergedRow(f, e).env = e /\ MergedRow(f, e).routing = routing
    BY <1>3, <2>1, <2>2 DEF RowType
  <2> QED
    BY <1>1, <1>3, <2>3, <2>4
<1>6. CASE e \notin Found
  <2>1. e \in TypedIn(f) /\ MergedRow(f, e) = Settings!LastRow(f, e)
    BY <1>6 DEF MergedRow, Named
  <2> QED
    BY <1>1, <1>3, <1>4, <2>1
<1> QED
  BY <1>5, <1>6

LEMMA NamedType ==
  ASSUME NEW f \in FormType, arrived' \in Sources
  PROVE  Named(f) \in SUBSET EnvNames
BY MergedRowType

LEMMA UnnamedType ==
  ASSUME NEW f \in FormType
  PROVE  /\ Unnamed(f) \in Seq(RowType) /\ Len(Unnamed(f)) \in {0, 1}
         /\ \A i \in DOMAIN Unnamed(f) : Unnamed(f)[i].env = None
<1>1. CASE None \in TypedIn(f)
  <2>1. Settings!LastRow(f, None) \in RowType /\ Settings!LastRow(f, None).env = None
    BY <1>1, LastRowType, RowKept DEF TypedIn
  <2>2. Unnamed(f) = <<Settings!LastRow(f, None)>>
    BY <1>1 DEF Unnamed
  <2> QED
    BY <2>1, <2>2
<1>2. CASE None \notin TypedIn(f)
  BY <1>2 DEF Unnamed
<1> QED
  BY <1>1, <1>2

LEMMA MergedRows ==
  ASSUME NEW f \in FormType, arrived' \in Sources
  PROVE  LET n == Cardinality(Named(f))
             m == Len(Unnamed(f))
             names == Settings!ByName(Named(f))
             r == Settings!Merged(f)
         IN  /\ n \in Nat /\ m \in {0, 1}
             /\ r \in Seq(RowType) /\ DOMAIN r = 1 .. (m + n)
             /\ \A i \in 1 .. m : r[i].env = None
             /\ \A i \in 1 .. n : names[i] \in Named(f) /\ r[m + i] = MergedRow(f, names[i])
             /\ \A x \in Named(f) : \E i \in 1 .. n : names[i] = x
             /\ \A i, j \in 1 .. n : names[i] = names[j] => i = j
<1> DEFINE E == Named(f)
           n == Cardinality(E)
           u == Unnamed(f)
           m == Len(u)
           names == Settings!ByName(E)
           tail == [i \in 1 .. n |-> MergedRow(f, names[i])]
           r == Settings!Merged(f)
<1>1. /\ n \in Nat /\ names \in [1 .. n -> E]
      /\ \A x \in E : \E k \in 1 .. n : names[k] = x
      /\ \A i, j \in 1 .. n : names[i] = names[j] => i = j
  BY NamedType, NamesSorted
<1>2. u \in Seq(RowType) /\ m \in {0, 1} /\ \A i \in DOMAIN u : u[i].env = None
  BY UnnamedType
<1>3. r = u \o [i \in DOMAIN names |-> MergedRow(f, names[i])]
  BY DEF Settings!Merged, Unnamed, Named, MergedRow, TypedIn, Found
<1> HIDE DEF u, names, r
<1>4. r = u \o tail
  BY <1>1, <1>3
<1>5. \A i \in 1 .. n : MergedRow(f, names[i]) \in RowType
  BY <1>1, MergedRowType
<1> HIDE DEF E, n
<1>6. tail \in Seq(RowType) /\ Len(tail) = n
  <2>1. tail \in [1 .. n -> RowType]
    BY <1>5
  <2> HIDE DEF tail
  <2> QED
    BY <1>1, <2>1, IsASeq
<1>7. \A i \in 1 .. n : tail[i] = MergedRow(f, names[i])
  OBVIOUS
<1> HIDE DEF tail
<1>8. /\ r \in Seq(RowType) /\ Len(r) = m + n
      /\ \A i \in 1 .. m + n : r[i] = IF i <= m THEN u[i] ELSE tail[i - m]
  BY <1>2, <1>4, <1>6, ConcatProperties
<1>9. \A i \in 1 .. m : r[i].env = None
  BY <1>1, <1>2, <1>8
<1>10. ASSUME NEW i \in 1 .. n
       PROVE  r[m + i] = MergedRow(f, names[i])
  <2>1. m + i \in 1 .. m + n /\ ~(m + i <= m) /\ (m + i) - m = i
    BY <1>1, <1>2
  <2>2. r[m + i] = tail[(m + i) - m]
    BY <1>8, <2>1
  <2> QED
    BY <1>7, <2>1, <2>2
<1>11. r \in Seq(RowType) /\ DOMAIN r = 1 .. (m + n)
  BY <1>8
<1>12. \A i \in 1 .. n : names[i] \in E /\ r[m + i] = MergedRow(f, names[i])
  BY <1>1, <1>10
<1> QED
  BY <1>1, <1>2, <1>9, <1>11, <1>12, Zenon DEF E, n, u, names, r

LEMMA MergedType ==
  ASSUME NEW f \in FormType, arrived' \in Sources
  PROVE  Settings!Merged(f) \in Seq(RowType)
BY MergedRows

OneRowFor(r) == \A i, j \in DOMAIN r : r[i].env = r[j].env => i = j

(* Rows that say the same of every environment are saved as the same.      *)
LEMMA SameRouting ==
  ASSUME NEW r \in Seq(RowType), NEW t \in Seq(RowType), OneRowFor(r), OneRowFor(t),
         \A e \in EnvNames : \A v \in Values :
           (\E i \in DOMAIN r : r[i].env = e /\ r[i].routing = v)
             <=> (\E j \in DOMAIN t : t[j].env = e /\ t[j].routing = v)
  PROVE  Settings!RoutingOf(r) = Settings!RoutingOf(t)
<1> DEFINE field(s) == [i \in DOMAIN s |-> s[i].routing]
           B(s) == Settings!ByEnvironment(s, field(s))
<1>1. ASSUME NEW s \in Seq(RowType), OneRowFor(s)
      PROVE  /\ B(s) = [e \in SpokenOf(s, field(s)) |-> B(s)[e]]
             /\ \A e : e \in SpokenOf(s, field(s)) <=>
                         e \in EnvNames /\ \E v \in Values : \E i \in DOMAIN s : s[i].env = e /\ s[i].routing = v
             /\ \A i \in DOMAIN s :
                  s[i].env \in EnvNames /\ s[i].routing \in Values => B(s)[s[i].env] = s[i].routing
  <2>1. DOMAIN s \subseteq Int /\ \A i, j \in DOMAIN s : s[i].env = s[j].env => i = j
    BY <1>1 DEF OneRowFor
  <2>2. \A i \in DOMAIN s : field(s)[i] = s[i].routing /\ (s[i].routing # None <=> s[i].routing \in Values)
    BY ElementOfSeq, RowFields, NoneIsNoValue
  <2> HIDE DEF field
  <2>3. /\ B(s) = [e \in SpokenOf(s, field(s)) |-> B(s)[e]]
        /\ \A i \in DOMAIN s :
             s[i].env \in EnvNames /\ field(s)[i] # None => B(s)[s[i].env] = field(s)[i]
    BY <2>1, SaidOnce
  <2> HIDE DEF B
  <2>4. \A e : e \in SpokenOf(s, field(s)) <=>
                 e \in EnvNames /\ \E v \in Values : \E i \in DOMAIN s : s[i].env = e /\ s[i].routing = v
    BY <2>2 DEF SpokenOf
  <2> QED
    BY <2>2, <2>3, <2>4
<1>2. Settings!RoutingOf(r) = B(r) /\ Settings!RoutingOf(t) = B(t)
  BY DEF Settings!RoutingOf
<1> HIDE DEF B, field
<1>3. SpokenOf(r, field(r)) = SpokenOf(t, field(t))
  BY <1>1
<1>4. ASSUME NEW e \in SpokenOf(r, field(r))
      PROVE  B(r)[e] = B(t)[e]
  <2>1. e \in EnvNames
    BY <1>1
  <2>2. PICK v \in Values : \E i \in DOMAIN r : r[i].env = e /\ r[i].routing = v
    BY <1>1
  <2>3. B(r)[e] = v
    BY <1>1, <2>1, <2>2
  <2>4. \E j \in DOMAIN t : t[j].env = e /\ t[j].routing = v
    BY <2>1, <2>2
  <2>5. B(t)[e] = v
    BY <1>1, <2>1, <2>4
  <2> QED
    BY <2>3, <2>5
<1>5. B(r) = B(t)
  <2>1. B(r) = [e \in SpokenOf(r, field(r)) |-> B(r)[e]]
    BY <1>1
  <2>2. B(t) = [e \in SpokenOf(t, field(t)) |-> B(t)[e]]
    BY <1>1
  <2> QED
    BY <1>3, <1>4, <2>1, <2>2
<1> QED
  BY <1>2, <1>5

(* A merge leaves one row for every name, and the routing names.           *)
LEMMA MergeKeepsRouting ==
  ASSUME NEW f \in FormType, arrived' \in Sources, OneRowFor(f.rows)
  PROVE  Settings!RoutingOf(Settings!Merged(f)) = Settings!RoutingOf(f.rows)
<1> DEFINE n == Cardinality(Named(f))
           m == Len(Unnamed(f))
           names == Settings!ByName(Named(f))
           r == Settings!Merged(f)
<1>1. /\ n \in Nat /\ m \in {0, 1}
      /\ r \in Seq(RowType) /\ DOMAIN r = 1 .. (m + n)
      /\ \A i \in 1 .. m : r[i].env = None
      /\ \A i \in 1 .. n : names[i] \in Named(f) /\ r[m + i] = MergedRow(f, names[i])
      /\ \A x \in Named(f) : \E i \in 1 .. n : names[i] = x
      /\ \A i, j \in 1 .. n : names[i] = names[j] => i = j
  BY MergedRows, Zenon
<1> HIDE DEF n, m, names, r
<1>2. \A e \in Named(f) :
        /\ e \in EnvNames /\ e # None /\ MergedRow(f, e).env = e
        /\ e \in TypedIn(f) =>
             \E i \in DOMAIN f.rows : f.rows[i].env = e /\ MergedRow(f, e).routing = f.rows[i].routing
        /\ e \notin TypedIn(f) => MergedRow(f, e).routing = None
  BY MergedRowType, FormConstants
<1>3. ASSUME NEW i \in DOMAIN r
      PROVE  \/ i \in 1 .. m /\ r[i].env = None
             \/ /\ i - m \in 1 .. n /\ r[i] = MergedRow(f, names[i - m])
                /\ r[i].env = names[i - m] /\ r[i].env # None
  <2>1. CASE i <= m
    BY <1>1, <2>1
  <2>2. CASE ~(i <= m)
    <3>1. i - m \in 1 .. n /\ m + (i - m) = i
      BY <1>1, <2>2
    <3>2. r[i] = MergedRow(f, names[i - m]) /\ names[i - m] \in Named(f)
      BY <1>1, <3>1
    <3> QED
      BY <1>2, <3>1, <3>2
  <2> QED
    BY <2>1, <2>2
<1>4. OneRowFor(r)
  <2> SUFFICES ASSUME NEW i \in DOMAIN r, NEW j \in DOMAIN r, r[i].env = r[j].env
               PROVE  i = j
    BY DEF OneRowFor
  <2>1. i \in Int /\ j \in Int
    BY <1>1
  <2>2. CASE r[i].env = None
    <3>1. i \in 1 .. m /\ j \in 1 .. m
      BY <1>3, <2>2
    <3> QED
      BY <1>1, <3>1
  <2>3. CASE r[i].env # None
    <3>1. i - m \in 1 .. n /\ j - m \in 1 .. n /\ names[i - m] = names[j - m]
      BY <1>3, <2>3
    <3>2. i - m = j - m
      BY <1>1, <3>1
    <3> QED
      BY <1>1, <2>1, <3>2
  <2> QED
    BY <2>2, <2>3
<1>5. ASSUME NEW e \in EnvNames, NEW v \in Values, NEW i \in DOMAIN r, r[i].env = e, r[i].routing = v
      PROVE  \E j \in DOMAIN f.rows : f.rows[j].env = e /\ f.rows[j].routing = v
  <2>1. e # None /\ v # None
    BY FormConstants
  <2>2. r[i] = MergedRow(f, e) /\ e \in Named(f)
    BY <1>1, <1>3, <1>5, <2>1
  <2> QED
    BY <1>2, <1>5, <2>1, <2>2
<1>6. ASSUME NEW e \in EnvNames, NEW v \in Values,
             NEW j \in DOMAIN f.rows, f.rows[j].env = e, f.rows[j].routing = v
      PROVE  \E i \in DOMAIN r : r[i].env = e /\ r[i].routing = v
  <2>1. e \in TypedIn(f) /\ e # None
    BY <1>6, FormConstants DEF TypedIn
  <2>2. e \in Named(f)
    BY <2>1 DEF Named
  <2>3. PICK i \in 1 .. n : names[i] = e
    BY <1>1, <2>2
  <2>4. m + i \in DOMAIN r /\ r[m + i] = MergedRow(f, e)
    BY <1>1, <2>3
  <2>5. MergedRow(f, e).routing = v
    BY <1>2, <1>6, <2>1, <2>2 DEF OneRowFor
  <2> QED
    BY <1>2, <2>2, <2>4, <2>5
<1>7. f.rows \in Seq(RowType)
  BY FormFields
<1>8. Settings!RoutingOf(r) = Settings!RoutingOf(f.rows)
  <2> DEFINE t == f.rows
  <2>1. r \in Seq(RowType) /\ t \in Seq(RowType) /\ OneRowFor(r) /\ OneRowFor(t)
    BY <1>1, <1>4, <1>7
  <2>2. ASSUME NEW e \in EnvNames, NEW v \in Values
        PROVE  (\E i \in DOMAIN r : r[i].env = e /\ r[i].routing = v)
                 <=> (\E j \in DOMAIN t : t[j].env = e /\ t[j].routing = v)
    BY <1>5, <1>6
  <2> HIDE DEF t
  <2>3. Settings!RoutingOf(r) = Settings!RoutingOf(t)
    BY <2>1, <2>2, SameRouting
  <2> QED
    BY <2>3 DEF t
<1> QED
  BY <1>8 DEF r

LEMMA ArrivalStep ==
  ASSUME FormTyped, Settings!SourcesArrive \/ Settings!SourcesFail
  PROVE  /\ FormTyped'
         /\ \A k \in Kinds : form.uids[k] # None => form'.uids[k] = form.uids[k]
         /\ \A i \in DOMAIN form.rows, k \in Kinds :
              form.rows[i].uids[k] # None => \E j \in DOMAIN form'.rows : form'.rows[j] = form.rows[i]
         /\ OneRowFor(form.rows) => Settings!RoutingOf(form.rows) = Settings!RoutingOf(form'.rows)
<1>1. CASE Settings!SourcesFail
  <2>1. stored' = stored /\ form' = form /\ edits' = edits /\ arrived' = {}
    BY <1>1 DEF Settings!SourcesFail
  <2> QED
    BY <2>1 DEF FormTyped
<1>2. CASE Settings!SourcesArrive
  <2> DEFINE u == [k \in Kinds |-> IF form.uids[k] = None THEN Settings!AutoFill(k) ELSE form.uids[k]]
             r == IF Settings!EnvsDetected(form) THEN Settings!Merged(form) ELSE form.rows
  <2>1. /\ form \in FormType /\ arrived' \in Sources /\ stored' = stored /\ edits' = edits
        /\ form' = [form EXCEPT !.uids = u, !.rows = r]
    BY <1>2 DEF Settings!SourcesArrive, FormTyped
  <2>2. u \in [Kinds -> Uids \cup {None}]
    BY <2>1, AutoFillType, FormFields
  <2>3. r \in Seq(RowType)
    BY <2>1, MergedType, FormFields
  <2>4. \A k \in Kinds : form.uids[k] # None => u[k] = form.uids[k]
    OBVIOUS
  <2>5. \A i \in DOMAIN form.rows, k \in Kinds : form.rows[i].uids[k] # None => r = form.rows
    BY DEF Settings!EnvsDetected
  <2>6. OneRowFor(form.rows) => Settings!RoutingOf(r) = Settings!RoutingOf(form.rows)
    BY <2>1, MergeKeepsRouting
  <2> HIDE DEF u, r
  <2>7. form' \in FormType /\ form'.uids = u /\ form'.rows = r
    BY <2>1, <2>2, <2>3 DEF FormType
  <2>8. FormTyped'
    BY <2>1, <2>7 DEF FormTyped
  <2> QED
    BY <2>4, <2>5, <2>6, <2>7, <2>8
<1> QED
  BY <1>1, <1>2

LEMMA TypableType ==
  ASSUME FormTyped, NEW k
  PROVE  Settings!Typable(k) \subseteq Uids \cup {None}
<1> DEFINE sources == IF arrived = None THEN {} ELSE arrived
           known == {s.uid : s \in {x \in sources : x.kind = k}}
<1>1. \A s \in sources : s.uid \in Uids
  BY FormConstants DEF FormTyped
<1>2. known \subseteq Uids
  BY <1>1
<1>3. Values \subseteq Uids
  BY DEF Uids, Settings!Uids
<1>4. Settings!Typable(k) = {None} \cup IF known = {} THEN Values ELSE known
  BY FormConstants DEF Settings!Typable
<1> QED
  BY <1>2, <1>3, <1>4

LEMMA EditStep ==
  ASSUME FormTyped, NEW f \in FormType, Settings!Edit(f)
  PROVE  FormTyped'
BY FormConstants DEF FormTyped, Settings!Edit

LEMMA RemoveAtType ==
  ASSUME NEW S, NEW s \in Seq(S), NEW i \in DOMAIN s
  PROVE  Settings!RemoveAt(s, i) \in Seq(S)
<1>1. Len(s) \in Nat /\ DOMAIN s = 1 .. Len(s)
  OBVIOUS
<1>2. SubSeq(s, 1, i - 1) \in Seq(S) /\ SubSeq(s, i + 1, Len(s)) \in Seq(S)
  BY <1>1, SubSeqProperties
<1>3. \A a, b \in Seq(S) : a \o b \in Seq(S)
  OBVIOUS
<1> QED
  BY <1>2, <1>3 DEF Settings!RemoveAt

(* A form in which one field is another is a form.                         *)
LEMMA FieldChanges ==
  ASSUME NEW f \in FormType
  PROVE  /\ \A u \in [Kinds -> Uids \cup {None}] : [f EXCEPT !.uids = u] \in FormType
         /\ \A r \in Seq(RowType) : [f EXCEPT !.rows = r] \in FormType
         /\ \A l \in [Labels -> Values \cup {None}] : [f EXCEPT !.labels = l] \in FormType
         /\ \A a \in Seq(Pair(Hosts)) : [f EXCEPT !.aliases = a] \in FormType
         /\ \A w \in Seq(Pair(Values)) : [f EXCEPT !.watch = w] \in FormType
         /\ \A t \in Values \cup Detected \cup {None} : [f EXCEPT !.text = t] \in FormType
         /\ \A s \in [Secrets -> SecretField] : [f EXCEPT !.secrets = s] \in FormType
BY DEF FormType

LEMMA PlainEdits ==
  ASSUME FormTyped,
         \/ Settings!pickSource \/ Settings!onAutoDetect \/ Settings!onChange
         \/ Settings!onLabelOverrideChange \/ Settings!typeSecret \/ Settings!resetSecret
  PROVE  FormTyped'
<1>1. form \in FormType
  BY DEF FormTyped
<1>2. CASE Settings!pickSource
  <2>1. PICK k \in Kinds : \E v \in Settings!Typable(k) : Settings!Edit([form EXCEPT !.uids[k] = v])
    BY <1>2 DEF Settings!pickSource
  <2>typed. PICK v \in Settings!Typable(k) : Settings!Edit([form EXCEPT !.uids[k] = v])
    BY <2>1
  <2>2. [form.uids EXCEPT ![k] = v] \in [Kinds -> Uids \cup {None}]
    BY <1>1, FormFields, TypableType
  <2>3. [form EXCEPT !.uids = [form.uids EXCEPT ![k] = v]] \in FormType
    BY <1>1, <2>2, FieldChanges
  <2>4. [form EXCEPT !.uids[k] = v] \in FormType
    BY <2>3
  <2> QED
    BY <2>typed, <2>4, EditStep
<1>3. CASE Settings!onAutoDetect \/ Settings!onChange
  <2>1. PICK t \in Values \cup Detected \cup {None} : Settings!Edit([form EXCEPT !.text = t])
    BY <1>3 DEF Settings!onAutoDetect, Settings!onChange
  <2>2. [form EXCEPT !.text = t] \in FormType
    BY <1>1, FieldChanges
  <2> QED
    BY <2>1, <2>2, EditStep
<1>4. CASE Settings!onLabelOverrideChange
  <2>1. PICK l \in Labels, v \in Values \cup {None} : Settings!Edit([form EXCEPT !.labels[l] = v])
    BY <1>4 DEF Settings!onLabelOverrideChange
  <2>2. [form.labels EXCEPT ![l] = v] \in [Labels -> Values \cup {None}]
    BY <1>1, FormFields
  <2>3. [form EXCEPT !.labels = [form.labels EXCEPT ![l] = v]] \in FormType
    BY <1>1, <2>2, FieldChanges
  <2>4. [form EXCEPT !.labels[l] = v] \in FormType
    BY <2>3
  <2> QED
    BY <2>1, <2>4, EditStep
<1>5. CASE Settings!typeSecret \/ Settings!resetSecret
  <2>1. PICK x \in Secrets, s \in SecretField : Settings!Edit([form EXCEPT !.secrets[x] = s])
    <3>1. ASSUME NEW v \in Values \cup {None}
          PROVE  [typed |-> v, configured |-> FALSE, reset |-> FALSE] \in SecretField
      BY DEF SecretField
    <3>2. [typed |-> None, configured |-> FALSE, reset |-> TRUE] \in SecretField
      BY DEF SecretField
    <3> QED
      BY <1>5, <3>1, <3>2 DEF Settings!typeSecret, Settings!resetSecret
  <2>2. [form.secrets EXCEPT ![x] = s] \in [Secrets -> SecretField]
    BY <1>1, FormFields
  <2>3. [form EXCEPT !.secrets = [form.secrets EXCEPT ![x] = s]] \in FormType
    BY <1>1, <2>2, FieldChanges
  <2>4. [form EXCEPT !.secrets[x] = s] \in FormType
    BY <2>3
  <2> QED
    BY <2>1, <2>4, EditStep
<1> QED
  BY <1>2, <1>3, <1>4, <1>5

LEMMA RowEdits ==
  ASSUME FormTyped, Settings!addEnvOverride \/ Settings!onEnvChange \/ Settings!removeEnvOverride
  PROVE  FormTyped'
<1>1. form \in FormType /\ form.rows \in Seq(RowType)
  BY FormFields DEF FormTyped
<1>2. ASSUME NEW r \in Seq(RowType), Settings!Edit([form EXCEPT !.rows = r])
      PROVE  FormTyped'
  <2>1. [form EXCEPT !.rows = r] \in FormType
    BY <1>1, FieldChanges
  <2> QED
    BY <1>2, <2>1, EditStep
<1>3. CASE Settings!addEnvOverride
  <2>1. Settings!NoRow \in RowType
    BY DEF Settings!NoRow, RowType
  <2>2. Append(form.rows, Settings!NoRow) \in Seq(RowType)
    BY <1>1, <2>1
  <2>3. Settings!Edit([form EXCEPT !.rows = Append(form.rows, Settings!NoRow)])
    BY <1>3 DEF Settings!addEnvOverride
  <2> QED
    BY <1>2, <2>2, <2>3
<1>4. CASE Settings!removeEnvOverride
  <2>1. PICK i \in DOMAIN form.rows : Settings!Edit([form EXCEPT !.rows = Settings!RemoveAt(form.rows, i)])
    BY <1>4 DEF Settings!removeEnvOverride
  <2>2. Settings!RemoveAt(form.rows, i) \in Seq(RowType)
    BY <1>1, RemoveAtType
  <2> QED
    BY <1>2, <2>1, <2>2
<1>5. CASE Settings!onEnvChange
  <2>1. PICK i \in DOMAIN form.rows :
          \/ \E e \in EnvNames : Settings!Edit([form EXCEPT !.rows[i].env = e])
          \/ \E k \in Kinds : \E v \in Settings!Typable(k) : Settings!Edit([form EXCEPT !.rows[i].uids[k] = v])
          \/ \E v \in Values \cup {None} : Settings!Edit([form EXCEPT !.rows[i].routing = v])
    BY <1>5 DEF Settings!onEnvChange
  <2> DEFINE old == form.rows[i]
  <2>2. old \in RowType
    BY <1>1, RowKept
  <2>3. ASSUME NEW new \in RowType,
               Settings!Edit([form EXCEPT !.rows = [form.rows EXCEPT ![i] = new]])
        PROVE  FormTyped'
    <3>1. [form.rows EXCEPT ![i] = new] \in Seq(RowType)
      BY <1>1, ExceptSeq
    <3> QED
      BY <1>2, <2>3, <3>1
  <2>4. CASE \E e \in EnvNames : Settings!Edit([form EXCEPT !.rows[i].env = e])
    <3>1. PICK e \in EnvNames : Settings!Edit([form EXCEPT !.rows[i].env = e])
      BY <2>4
    <3>2. [old EXCEPT !.env = e] \in RowType
      BY <2>2 DEF RowType
    <3>3. Settings!Edit([form EXCEPT !.rows = [form.rows EXCEPT ![i] = [old EXCEPT !.env = e]]])
      BY <3>1
    <3> QED
      BY <2>3, <3>2, <3>3
  <2>5. CASE \E k \in Kinds : \E v \in Settings!Typable(k) : Settings!Edit([form EXCEPT !.rows[i].uids[k] = v])
    <3>0. PICK k \in Kinds : \E v \in Settings!Typable(k) : Settings!Edit([form EXCEPT !.rows[i].uids[k] = v])
      BY <2>5
    <3>1. PICK v \in Settings!Typable(k) : Settings!Edit([form EXCEPT !.rows[i].uids[k] = v])
      BY <3>0
    <3>2. [old.uids EXCEPT ![k] = v] \in [Kinds -> Uids \cup {None}]
      BY <2>2, RowFields, TypableType
    <3>3. \A u \in [Kinds -> Uids \cup {None}] : [old EXCEPT !.uids = u] \in RowType
      BY <2>2 DEF RowType
    <3>4. Settings!Edit([form EXCEPT !.rows = [form.rows EXCEPT ![i] = [old EXCEPT !.uids = [old.uids EXCEPT ![k] = v]]]])
      BY <3>1
    <3> QED
      BY <2>3, <3>2, <3>3, <3>4
  <2>6. CASE \E v \in Values \cup {None} : Settings!Edit([form EXCEPT !.rows[i].routing = v])
    <3>1. PICK v \in Values \cup {None} : Settings!Edit([form EXCEPT !.rows[i].routing = v])
      BY <2>6
    <3>2. [old EXCEPT !.routing = v] \in RowType
      BY <2>2 DEF RowType
    <3>3. Settings!Edit([form EXCEPT !.rows = [form.rows EXCEPT ![i] = [old EXCEPT !.routing = v]]])
      BY <3>1
    <3> QED
      BY <2>3, <3>2, <3>3
  <2> QED
    BY <2>1, <2>4, <2>5, <2>6
<1> QED
  BY <1>3, <1>4, <1>5

LEMMA PairEdits ==
  ASSUME FormTyped, Settings!onAliasChange \/ Settings!onWatchlistChange
  PROVE  FormTyped'
<1>1. form \in FormType /\ form.aliases \in Seq(Pair(Hosts)) /\ form.watch \in Seq(Pair(Values))
  BY FormFields DEF FormTyped
<1>2. ASSUME NEW S, NEW s \in Seq(Pair(S)), NEW t,
             \/ t = Append(s, <<None, None>>)
             \/ \E i \in DOMAIN s, h \in S \cup {None}, v \in Values \cup {None} : t = [s EXCEPT ![i] = <<h, v>>]
             \/ \E i \in DOMAIN s : t = Settings!RemoveAt(s, i)
      PROVE  t \in Seq(Pair(S))
  <2>1. CASE t = Append(s, <<None, None>>)
    <3>1. <<None, None>> \in Pair(S)
      BY DEF Pair
    <3> QED
      BY <2>1, <3>1
  <2>2. CASE \E i \in DOMAIN s, h \in S \cup {None}, v \in Values \cup {None} : t = [s EXCEPT ![i] = <<h, v>>]
    <3>1. \A h \in S \cup {None}, v \in Values \cup {None} : <<h, v>> \in Pair(S)
      BY DEF Pair
    <3> QED
      BY <2>2, <3>1, ExceptSeq
  <2>3. CASE \E i \in DOMAIN s : t = Settings!RemoveAt(s, i)
    BY <2>3, RemoveAtType
  <2> QED
    BY <1>2, <2>1, <2>2, <2>3
<1>3. CASE Settings!onAliasChange
  <2> DEFINE s == form.aliases
  <2>1. \E t : /\ Settings!Edit([form EXCEPT !.aliases = t])
               /\ \/ t = Append(s, <<None, None>>)
                  \/ \E i \in DOMAIN s, h \in Hosts \cup {None}, v \in Values \cup {None} : t = [s EXCEPT ![i] = <<h, v>>]
                  \/ \E i \in DOMAIN s : t = Settings!RemoveAt(s, i)
    BY <1>3 DEF Settings!onAliasChange
  <2>2. PICK t : Settings!Edit([form EXCEPT !.aliases = t]) /\ t \in Seq(Pair(Hosts))
    BY <1>1, <1>2, <2>1
  <2>3. [form EXCEPT !.aliases = t] \in FormType
    BY <1>1, <2>2, FieldChanges
  <2> QED
    BY <2>2, <2>3, EditStep
<1>4. CASE Settings!onWatchlistChange
  <2> DEFINE s == form.watch
  <2>1. \E t : /\ Settings!Edit([form EXCEPT !.watch = t])
               /\ \/ t = Append(s, <<None, None>>)
                  \/ \E i \in DOMAIN s, h \in Values \cup {None}, v \in Values \cup {None} : t = [s EXCEPT ![i] = <<h, v>>]
                  \/ \E i \in DOMAIN s : t = Settings!RemoveAt(s, i)
    BY <1>4 DEF Settings!onWatchlistChange
  <2>2. PICK t : Settings!Edit([form EXCEPT !.watch = t]) /\ t \in Seq(Pair(Values))
    BY <1>1, <1>2, <2>1
  <2>3. [form EXCEPT !.watch = t] \in FormType
    BY <1>1, <2>2, FieldChanges
  <2> QED
    BY <2>2, <2>3, EditStep
<1> QED
  BY <1>3, <1>4

(* Edits and a save that leave the arrived sources alone, or forget them.  *)
LEMMA FormStep ==
  ASSUME FormTyped, Settings!Next
  PROVE  /\ FormTyped'
         /\ form = Settings!FormOf(stored) => stored' = stored
         /\ arrived = None /\ arrived' # None => Settings!SourcesArrive \/ Settings!SourcesFail
<1>1. CASE Settings!SourcesArrive \/ Settings!SourcesFail
  <2>1. stored' = stored
    BY <1>1 DEF Settings!SourcesArrive, Settings!SourcesFail
  <2> QED
    BY <1>1, <2>1, ArrivalStep
<1>2. CASE Settings!onSubmit
  <2>1. FormTyped'
    BY <1>2, onSubmitStep
  <2>2. form = Settings!FormOf(stored) => stored' = stored
    BY <1>2, RoundTrip DEF Settings!onSubmit, FormTyped
  <2>3. arrived' = None
    BY <1>2 DEF Settings!onSubmit
  <2> QED
    BY <2>1, <2>2, <2>3
<1>3. CASE ~(Settings!SourcesArrive \/ Settings!SourcesFail \/ Settings!onSubmit)
  <2>1. FormTyped'
    BY <1>3, PlainEdits, RowEdits, PairEdits DEF Settings!Next
  <2>2. \E f : Settings!Edit(f)
    BY <1>3 DEF Settings!Next, Settings!pickSource, Settings!onAutoDetect, Settings!onChange,
                Settings!onLabelOverrideChange, Settings!addEnvOverride, Settings!onEnvChange,
                Settings!removeEnvOverride, Settings!onAliasChange, Settings!onWatchlistChange,
                Settings!typeSecret, Settings!resetSecret
  <2>3. stored' = stored /\ arrived' = arrived
    BY <2>2 DEF Settings!Edit
  <2> QED
    BY <2>1, <2>3
<1> QED
  BY <1>1, <1>2, <1>3

LEMMA FormTypes == FormTyped => Settings!FormTypeOK
<1> SUFFICES ASSUME FormTyped PROVE Settings!FormTypeOK
  OBVIOUS
<1>1. form \in FormType /\ stored \in Settings!Settings /\ edits \in 0 .. MaxEdits
  BY DEF FormTyped
<1>2. \A i \in DOMAIN form.rows : form.rows[i].env \in EnvNames \cup {None}
  BY <1>1, RowKept, RowFields
<1>3. DOMAIN stored.secrets = Secrets
  BY <1>1, SettingsType
<1> QED
  BY <1>1, <1>2, <1>3, FormFields DEF Settings!FormTypeOK, Uids

LEMMA FormAlways == UserSpec => []FormTyped
<1>1. UserInit => FormTyped
  BY FormInit DEF UserInit, FormRests
<1>2. FormTyped /\ [UserNext]_userVars => FormTyped'
  <2> SUFFICES ASSUME FormTyped, [UserNext]_userVars PROVE FormTyped'
    OBVIOUS
  <2>1. CASE Settings!Next
    BY <2>1, FormStep
  <2>2. CASE UNCHANGED formVars
    BY <2>2 DEF FormTyped, formVars
  <2> QED
    BY <2>1, <2>2 DEF UserNext, userVars
<1> QED
  BY <1>1, <1>2, PTL DEF UserSpec

(* However the form is edited, saved, and filled in by what arrives late:  *)
(* saving a form as it was made changes nothing of what is stored, and     *)
(* arrivals overwrite no source and no routing name of any environment.    *)
THEOREM EditsStay == UserSpec => EditsAreKept
<1>1. FormTyped /\ [UserNext]_userVars =>
        [form = Settings!FormOf(stored) /\ arrived' = None => stored' = stored]_(Settings!vars)
  <2> SUFFICES ASSUME FormTyped, [UserNext]_userVars, ~UNCHANGED (Settings!vars)
               PROVE  form = Settings!FormOf(stored) => stored' = stored
    OBVIOUS
  <2>1. Settings!Next
    BY DEF UserNext, userVars, formVars, Settings!vars
  <2> QED
    BY <2>1, FormStep
<1>2. FormTyped /\ [UserNext]_userVars =>
        [arrived = None /\ arrived' # None /\ Settings!OneRowEach =>
           /\ \A k \in Kinds : form.uids[k] # None => form'.uids[k] = form.uids[k]
           /\ \A i \in DOMAIN form.rows, k \in Kinds :
                form.rows[i].uids[k] # None => \E j \in DOMAIN form'.rows : form'.rows[j] = form.rows[i]
           /\ Settings!RoutingOf(form.rows) = Settings!RoutingOf(form'.rows)]_(Settings!vars)
  <2> SUFFICES ASSUME FormTyped, [UserNext]_userVars, ~UNCHANGED (Settings!vars),
                      arrived = None, arrived' # None, Settings!OneRowEach
               PROVE  /\ \A k \in Kinds : form.uids[k] # None => form'.uids[k] = form.uids[k]
                      /\ \A i \in DOMAIN form.rows, k \in Kinds :
                           form.rows[i].uids[k] # None =>
                             \E j \in DOMAIN form'.rows : form'.rows[j] = form.rows[i]
                      /\ Settings!RoutingOf(form.rows) = Settings!RoutingOf(form'.rows)
    OBVIOUS
  <2>1. Settings!Next
    BY DEF UserNext, userVars, formVars, Settings!vars
  <2>2. Settings!SourcesArrive \/ Settings!SourcesFail
    BY <2>1, FormStep
  <2>3. OneRowFor(form.rows)
    BY DEF Settings!OneRowEach, OneRowFor
  <2> QED
    BY <2>2, <2>3, ArrivalStep
<1> QED
  BY <1>1, <1>2, FormAlways, PTL
     DEF UserSpec, EditsAreKept, Settings!SaveIsStable, Settings!ArrivalKeepsEdits

-----------------------------------------------------------------------------
(* The parts together.                                                     *)

(* A behaviour is one of the favourites, whatever else it is.              *)
LEMMA FavoritesRun == UserSpec => Spec
<1>1. UserInit => Init
  BY DEF UserInit, FavoritesRest
<1>2. [UserNext]_userVars => [Next]_vars
  BY DEF UserNext, userVars, vars
<1> QED
  BY <1>1, <1>2, PTL DEF UserSpec, Spec

(* Everything that is kept for a user has its type.                        *)
THEOREM UserDataTypes == UserSpec => []UserDataTypeOK
<1>1. TableInv /\ FormTyped /\ FavoritesTypeOK => UserDataTypeOK
  BY TableTypes, FormTypes DEF UserDataTypeOK
<1> QED
  BY <1>1, FavoritesRun, FavoritesTypes, TableAlways, FormAlways, PTL

(* However often the tabs of a browser toggle and hydrate beside each      *)
(* other, a tab without unhandled storage events shows what the browser    *)
(* remembers.                                                              *)
THEOREM TabsComeToAgree == UserSpec => []TabsAgree
BY FavoritesRun, AgreeAlways, PTL

(* What was stored for the user and nobody toggles stays stored, whatever  *)
(* the tabs and devices remember and in whatever order their writes        *)
(* arrive, or do not - unless a read failed or a tab toggled blindly.      *)
THEOREM NothingUntouchedIsLost == UserSpec => []UntouchedStay
BY FavoritesRun, KeptAlways, PTL
=============================================================================
