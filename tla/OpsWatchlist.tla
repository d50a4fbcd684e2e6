---------------------------- MODULE OpsWatchlist ----------------------------
(***************************************************************************)
(* The shared ops watchlist: the handlers of pkg/plugin/watchlist.go, the  *)
(* hook src/utils/useOpsWatchlist.ts in every open board, the service      *)
(* picker and the pages of src/pages/OpsStatusBoard.tsx, and the plugin    *)
(* configuration page as another writer of the same record.                *)
(*                                                                         *)
(* Every change of a board is shown at once and posts the whole list.  A   *)
(* replica of the backend reads the settings, puts the list in and writes  *)
(* all of them back, under a mutex of its own.                             *)
(*                                                                         *)
(* Definitions marked "Slip" are wrong variants of the one that follows    *)
(* them.  The specification uses none; each breaks a property below.       *)
(***************************************************************************)
EXTENDS Integers, FiniteSets

CONSTANTS
  Tabs,         \* browser tabs that show the board
  Replicas,     \* backend processes, each with its own watchlistMu
  Services,     \* what the time range holds: [ns, name] records; ns may be None
  InitialLists, \* lists that may be stored to begin with
  MaxCalls,     \* bound: calls one tab sends
  MaxSaves,     \* bound: saves of the configuration page
  None          \* no call, no namespace

VARIABLES
  settings,     \* Grafana's record: the list, and the rest as a version
  proc,         \* the post each replica is serving, with the record it read
  form,         \* the list an open configuration page was loaded with
  tab,          \* the state of each board
  calls,        \* HTTP calls that have not been answered to their tab
  calm,         \* history: nobody and nothing came between a tab and the store
  last          \* history: the latest call of a tab that reached the store

vars == <<settings, proc, form, tab, calls, calm, last>>

Lists == SUBSET Services

ASSUME ListAssumption == InitialLists \subseteq Lists
ASSUME BoundAssumption == MaxCalls \in Nat \ {0} /\ MaxSaves \in Nat

(* An entry names a namespace and a service.  A service may come without a *)
(* namespace, and the writers of the list leave such an entry out.         *)
Complete(s) == s.ns # None
Valid(list) == {s \in list : Complete(s)}

(* Filtering by the list: namespaces and names are two matchers, so a      *)
(* service whose parts occur in two entries passes as well.  Incomplete    *)
(* entries do not count, and without others nothing is filtered.           *)
Filtered(list) ==
  IF Valid(list) = {} THEN Services
  ELSE {s \in Services : \E v, w \in Valid(list) : s.ns = v.ns /\ s.name = w.name}

Call == [tab : Tabs, no : 1 .. MaxCalls, kind : {"get", "post"}, list : Lists,
         st : {"sent", "served", "failed"}]

ASSUME NoneAssumption == None \notin Call

Board == [mounted : BOOLEAN, list : Lists, loading : BOOLEAN, error : BOOLEAN,
          svc : {"waiting", "ok", "failed"}, data : BOOLEAN, found : Lists,
         sent : 0 .. MaxCalls]

Send(t, kind, list, n) ==
  calls' = calls \cup {[tab |-> t, no |-> n, kind |-> kind, list |-> list, st |-> "sent"]}

Mine(t) == {c \in calls : c.tab = t}

Init ==
  /\ \E list \in InitialLists : settings = [list |-> list, config |-> 0]
  /\ proc = [r \in Replicas |-> None]
  /\ form = None
  /\ tab = [t \in Tabs |->
             [mounted |-> TRUE, list |-> {}, loading |-> TRUE, error |-> FALSE,
              svc |-> "waiting", data |-> FALSE, found |-> {}, sent |-> 1]]
  /\ calls = {[tab |-> t, no |-> 1, kind |-> "get", list |-> {}, st |-> "sent"] : t \in Tabs}
  /\ calm = [t \in Tabs |-> TRUE]
  /\ last = [t \in Tabs |-> 0]

-----------------------------------------------------------------------------
(* The board.                                                              *)

(* The services of the time range are not asked for before the list is     *)
(* there; the query is filtered by it.                                     *)
Asks(b) == b.mounted /\ ~b.loading

ServicesArrive(t) ==
  /\ Asks(tab[t])
  /\ tab' = [tab EXCEPT ![t].found = Filtered(tab[t].list), ![t].data = TRUE, ![t].svc = "ok"]
  /\ UNCHANGED <<settings, proc, form, calls, calm, last>>

ServicesFail(t) ==
  /\ Asks(tab[t])
  /\ tab' = [tab EXCEPT ![t].svc = "failed"]
  /\ UNCHANGED <<settings, proc, form, calls, calm, last>>

(* The list is part of what the query depends on: another one asks anew,   *)
(* and what was found before is kept on the screen until the answer.       *)
WithList(b, list) ==
  IF list = b.list THEN b
  ELSE [b EXCEPT !.list = list, !.svc = IF b.data THEN "ok" ELSE "waiting"]

(* Slip: what could not be loaded is taken for empty.                      *)
ShownEagerly(b) ==
  IF b.svc = "waiting" \/ b.loading THEN "loading"
  ELSE IF b.svc = "failed" THEN "error"
  ELSE IF b.list = {} THEN "empty"
  ELSE IF b.found \cap b.list = {} THEN "nothing" ELSE "cards"

(* What the board shows.                                                   *)
Shown(b) ==
  IF b.svc = "waiting" \/ b.loading THEN "loading"
  ELSE IF b.svc = "failed" THEN "error"
  ELSE IF b.list = {} /\ ~b.error THEN "empty"
  ELSE IF b.found \cap b.list = {} THEN "nothing" ELSE "cards"

Change(t, list) ==
  /\ tab[t].sent < MaxCalls
  /\ tab' = [tab EXCEPT ![t] = [WithList(tab[t], list) EXCEPT !.sent = @ + 1]]
  /\ Send(t, "post", list, tab[t].sent + 1)
  /\ UNCHANGED <<settings, proc, form, calm, last>>

(* The picker offers what was found, and a button for each.                *)
add(t, s) ==
  /\ tab[t].mounted /\ s \in tab[t].found \ tab[t].list
  /\ Change(t, tab[t].list \cup {s})

remove(t, s) ==
  /\ tab[t].mounted /\ s \in tab[t].found \cap tab[t].list
  /\ Change(t, tab[t].list \ {s})

(* A list is shown when it arrives, whatever was clicked meanwhile.        *)
LandGet(c) ==
  /\ c.kind = "get" /\ c.st # "sent"
  /\ calls' = calls \ {c}
  /\ tab' = IF ~tab[c.tab].mounted THEN tab
            ELSE [tab EXCEPT ![c.tab] =
                   [WithList(@, IF c.st = "served" THEN c.list ELSE @.list)
                      EXCEPT !.error = c.st = "failed", !.loading = FALSE]]
  /\ calm' = [calm EXCEPT ![c.tab] = @ /\ Mine(c.tab) = {c} /\ c.no = tab[c.tab].sent]
  /\ UNCHANGED <<settings, proc, form, last>>

(* Slip: a post that fails leaves the optimistic list on the screen.       *)
LandPostSilently(c) ==
  /\ c.kind = "post" /\ c.st # "sent"
  /\ calls' = calls \ {c}
  /\ calm' = [calm EXCEPT ![c.tab] = @ /\ (c.st = "served" \/ Mine(c.tab) = {c})]
  /\ UNCHANGED <<settings, proc, form, tab, last>>

(* A post that fails is followed by a read, to show what is stored.        *)
LandPost(c) ==
  /\ c.kind = "post" /\ c.st # "sent"
  /\ LET t == c.tab
         again == c.st = "failed" /\ tab[t].mounted
         n == tab[t].sent + 1 IN
     /\ again => n <= MaxCalls
     /\ calls' = (calls \ {c}) \cup
          IF again
          THEN {[tab |-> t, no |-> n, kind |-> "get", list |-> {}, st |-> "sent"]}
          ELSE {}
     /\ tab' = IF again THEN [tab EXCEPT ![t].sent = n] ELSE tab
     /\ calm' = [calm EXCEPT ![t] = @ /\ (c.st = "served" \/ Mine(t) = {c})]
  /\ UNCHANGED <<settings, proc, form, last>>

(* The tab leaves the board; its posts go on without it.                   *)
Leave(t) ==
  /\ tab[t].mounted
  /\ tab' = [tab EXCEPT ![t].mounted = FALSE]
  /\ UNCHANGED <<settings, proc, form, calls, calm, last>>

-----------------------------------------------------------------------------
(* Call c reads or writes the store, or the configuration page does (None).*)
(* It breaks the calm of a tab to come from elsewhere, to have been        *)
(* overtaken by a later call, or to reach it while it loads.               *)
Reach(c, writes) ==
  /\ last' = [t \in Tabs |-> IF c # None /\ c.tab = t /\ c.no > last[t] THEN c.no ELSE last[t]]
  /\ calm' = [t \in Tabs |->
       calm[t] /\ IF c # None /\ c.tab = t THEN c.no > last[t] ELSE ~writes]

-----------------------------------------------------------------------------
(* The backend.                                                            *)

Serving == {proc[r].call : r \in {q \in Replicas : proc[q] # None}}

Answer(c, st, list) == calls' = (calls \ {c}) \cup {[c EXCEPT !.st = st, !.list = list]}

getOpsWatchlist(c) ==
  /\ c.kind = "get" /\ c.st = "sent"
  /\ \/ Answer(c, "served", settings.list) /\ Reach(c, FALSE)
     \/ Answer(c, "failed", {}) /\ UNCHANGED <<calm, last>>
  /\ UNCHANGED <<settings, proc, form, tab>>

(* A post is refused: no right to write, no settings to read.              *)
Refuse(c) ==
  /\ c.kind = "post" /\ c.st = "sent"
  /\ c \notin Serving
  /\ Answer(c, "failed", c.list)
  /\ UNCHANGED <<settings, proc, form, tab, calm, last>>

(* The mutex is taken and the settings are read.                           *)
fetchPluginSettings(r, c) ==
  /\ c.kind = "post" /\ c.st = "sent" /\ proc[r] = None
  /\ c \notin Serving
  /\ proc' = [proc EXCEPT ![r] = [call |-> c, read |-> settings]]
  /\ UNCHANGED <<settings, form, tab, calls, calm, last>>

(* Slip: the mutex is released only after a save that went well.           *)
SaveHolding(r) ==
  /\ proc[r] # None
  /\ LET c == proc[r].call IN
     \/ /\ settings' = [proc[r].read EXCEPT !.list = Valid(c.list)]
        /\ Reach(c, TRUE)
        /\ \E st \in {"served", "failed"} : Answer(c, st, Valid(c.list))
        /\ proc' = [proc EXCEPT ![r] = None]
     \/ /\ Answer(c, "failed", c.list)
        /\ UNCHANGED <<settings, proc, calm, last>>
  /\ UNCHANGED <<form, tab>>

(* Everything that was read is written back, with the list replaced by the *)
(* complete entries of the post, which are the answer as well; the hook    *)
(* does not look at it.  The answer may be lost although they are stored.  *)
savePluginSettings(r) ==
  /\ proc[r] # None
  /\ LET c == proc[r].call IN
     \/ /\ settings' = [proc[r].read EXCEPT !.list = Valid(c.list)]
        /\ Reach(c, TRUE)
        /\ \E st \in {"served", "failed"} : Answer(c, st, Valid(c.list))
     \/ /\ Answer(c, "failed", c.list)
        /\ UNCHANGED <<settings, calm, last>>
  /\ proc' = [proc EXCEPT ![r] = None]
  /\ UNCHANGED <<form, tab>>

-----------------------------------------------------------------------------
(* The configuration page writes the complete entries of the list it was   *)
(* opened with.                                                            *)

OpenForm ==
  /\ form = None
  /\ form' = settings.list
  /\ UNCHANGED <<settings, proc, tab, calls, calm, last>>

SaveForm ==
  /\ form # None /\ settings.config < MaxSaves
  /\ settings' = [list |-> Valid(form), config |-> settings.config + 1]
  /\ form' = None
  /\ Reach(None, TRUE)
  /\ UNCHANGED <<proc, tab, calls>>

Next ==
  \/ \E t \in Tabs : ServicesArrive(t) \/ ServicesFail(t) \/ Leave(t)
  \/ \E t \in Tabs, s \in Services : add(t, s) \/ remove(t, s)
  \/ \E c \in calls : \/ LandGet(c) \/ LandPost(c) \/ getOpsWatchlist(c) \/ Refuse(c)
                      \/ \E r \in Replicas : fetchPluginSettings(r, c)
  \/ \E r \in Replicas : savePluginSettings(r)
  \/ OpenForm \/ SaveForm

Spec == Init /\ [][Next]_vars

-----------------------------------------------------------------------------
(* The type of every variable: no list holds what is not a service, no     *)
(* call is served by two replicas, and a tab sends no more than its bound. *)
WatchlistTypeOK ==
  /\ settings \in [list : Lists, config : 0 .. MaxSaves]
  /\ \A r \in Replicas : proc[r] = None \/ (proc[r].call \in calls /\ proc[r].read.list \in Lists)
  /\ \A q, r \in Replicas : q # r /\ proc[q] # None /\ proc[r] # None => proc[q].call # proc[r].call
  /\ form = None \/ form \in Lists
  /\ tab \in [Tabs -> Board]
  /\ calls \subseteq Call
  /\ calm \in [Tabs -> BOOLEAN] /\ last \in [Tabs -> 0 .. MaxCalls]

Settled(t) == tab[t].mounted /\ ~tab[t].loading /\ Mine(t) = {}

(* The shown list is the stored one, but for entries that are not stored.  *)
Agrees(shown, stored) == stored \subseteq shown /\ \A s \in shown \ stored : ~Complete(s)

(* A board that waits for nothing shows what is stored, as long as nobody  *)
(* else wrote and its own calls did not overtake one another - however     *)
(* many posts failed, stored or not.  All it may show beyond that are      *)
(* services without a namespace: setOpsWatchlist drops them and answers    *)
(* 200, which the hook does not read.  And it says that no services are    *)
(* configured only when that is so, not when the list could not be loaded. *)
BoardShowsStored ==
  \A t \in Tabs : Settled(t) /\ calm[t] =>
    /\ ~tab[t].error => Agrees(tab[t].list, settings.list)
    /\ Shown(tab[t]) = "empty" => settings.list = {}

(* Violated.  A service that was added is on the shared list: it is shown  *)
(* on the board that added it as if it were, without a namespace too.      *)
AddedIsStored ==
  \A t \in Tabs : Settled(t) /\ calm[t] /\ ~tab[t].error => tab[t].list = settings.list

(* Violated.  Services can be added and removed directly from the board:   *)
(* once the services have arrived, the picker offers every one there is.   *)
PickerOffersAll == \A t \in Tabs : tab[t].svc = "ok" /\ Mine(t) = {} => tab[t].found = Services

=============================================================================
