----------------------------- MODULE ViewsProofs -----------------------------
(***************************************************************************)
(* Proofs about Views, for any constants that its assumption allows.       *)
(*                                                                         *)
(* Each part has an inductive invariant of its own (WatchlistInv,          *)
(* DrawerInv, ...), with a lemma that it holds at first (...Start), one    *)
(* that a step of the part keeps it (...Step), and one for what it says of *)
(* the part.  At the end the parts are put together: a step of the whole   *)
(* is a step of one part and leaves the others as they are.                *)
(***************************************************************************)
EXTENDS Views, OrderingProofs, SequenceTheorems, FiniteSetTheorems, WellFoundedInduction, TLAPS

-----------------------------------------------------------------------------
(* The watchlist and the settings it is stored in (OpsWatchlist).          *)

Settings == [list : Lists, config : 0 .. MaxSaves]
Service == [call : Call, read : Settings]

(* Calls are told apart by their tab and number; what a tab was served     *)
(* with has reached the store.                                             *)
CallsOK ==
  /\ \A c, d \in calls : c.tab = d.tab /\ c.no = d.no => c = d
  /\ \A c \in calls : c.no <= tab[c.tab].sent
  /\ \A t \in Tabs : last[t] <= tab[t].sent
  /\ \A c \in calls : c.st = "served" => c.no <= last[c.tab]

ProcOK ==
  /\ proc \in [Replicas -> {None} \cup Service]
  /\ \A r \in Replicas : proc[r] # None =>
       proc[r] \in Service /\ proc[r].call.kind = "post" /\ proc[r].call.st = "sent"

(* What a board b knows of the stored list, when M are its calls and the   *)
(* one with number l was the last to reach the store.  A list on its way   *)
(* that no later call has overtaken is the stored one; the board shows     *)
(* what its latest post asks for; a latest call that did not reach the     *)
(* store is still on its way, or has failed for good; and when it has      *)
(* reached the store and there is nothing to wait for, the board shows     *)
(* what is stored, but for entries that are never stored.                  *)
Known(b, M, l, stored) ==
  /\ \A c \in M : c.kind = "get" /\ c.st = "served" /\ c.no = l => c.list = stored
  /\ b.mounted =>
       /\ \A c \in M : c.kind = "post" /\ c.st = "sent" /\ c.no = b.sent => c.list = b.list
       /\ l < b.sent => (\E c \in M : c.no = b.sent) \/ (M = {} /\ b.error)
       /\ (~b.error /\ \A c \in M : c.no = b.sent => c.kind = "post" /\ c.no <= l)
            => Agrees(b.list, stored)

KnownOK == \A t \in Tabs : calm[t] => Known(tab[t], Mine(t), last[t], settings.list)

WatchlistInv == WatchlistTypeOK /\ CallsOK /\ ProcOK /\ KnownOK

-----------------------------------------------------------------------------
LEMMA WatchlistStart == Init => WatchlistInv
<1> SUFFICES ASSUME Init PROVE WatchlistInv
  OBVIOUS
<1>a. \A t \in Tabs : tab[t] = [mounted |-> TRUE, list |-> {}, loading |-> TRUE, error |-> FALSE,
              svc |-> "waiting", data |-> FALSE, found |-> {}, sent |-> 1]
  BY DEF Init
<1>b. 1 \in 1 .. MaxCalls /\ 0 \in 0 .. MaxSaves /\ 1 \in 0 .. MaxCalls /\ 0 \in 0 .. MaxCalls
  BY BoundAssumption
<1>c. {} \in Lists
  BY DEF Lists
<1>1. WatchlistTypeOK
  <2>1. \A t \in Tabs : tab[t] \in Board
    <3>1. [mounted |-> TRUE, list |-> {}, loading |-> TRUE, error |-> FALSE,
           svc |-> "waiting", data |-> FALSE, found |-> {}, sent |-> 1] \in Board
      BY <1>b, <1>c DEF Board
    <3> QED
      BY <1>a, <3>1
  <2>2. calls \subseteq Call
    <3>1. \A t \in Tabs :
            [tab |-> t, no |-> 1, kind |-> "get", list |-> {}, st |-> "sent"] \in Call
      BY <1>b, <1>c DEF Call
    <3> QED
      BY <3>1 DEF Init
  <2>3. settings \in [list : Lists, config : 0 .. MaxSaves]
    BY <1>b, ListAssumption DEF Init
  <2>4. tab \in [Tabs -> Board] /\ calm \in [Tabs -> BOOLEAN] /\ last \in [Tabs -> 0 .. MaxCalls]
    <3>1. tab = [t \in Tabs |-> tab[t]]
      BY DEF Init
    <3>2. calm \in [Tabs -> BOOLEAN] /\ last \in [Tabs -> 0 .. MaxCalls]
      BY <1>b DEF Init
    <3> QED
      BY <2>1, <3>1, <3>2
  <2>5. (\A r \in Replicas : proc[r] = None) /\ form = None
    BY DEF Init
  <2> QED
    BY <2>2, <2>3, <2>4, <2>5 DEF WatchlistTypeOK
<1>2. CallsOK
  <2>1. \A c \in calls : /\ c.no = 1 /\ c.st = "sent" /\ c.tab \in Tabs
                         /\ c = [tab |-> c.tab, no |-> 1, kind |-> "get", list |-> {},
                                st |-> "sent"]
    BY DEF Init
  <2>2. \A t \in Tabs : tab[t].sent = 1 /\ last[t] = 0
    BY <1>a DEF Init
  <2>3. \A c, d \in calls : c.tab = d.tab => c = d
    BY <2>1
  <2>4. \A c \in calls : c.no <= tab[c.tab].sent /\ c.st # "served"
    BY <2>1, <2>2
  <2>5. \A t \in Tabs : last[t] <= tab[t].sent
    BY <2>2
  <2> QED
    BY <2>3, <2>4, <2>5 DEF CallsOK
<1>3. ProcOK
  BY DEF Init, ProcOK
<1>4. KnownOK
  <2> SUFFICES ASSUME NEW t \in Tabs PROVE Known(tab[t], Mine(t), last[t], settings.list)
    BY DEF KnownOK
  <2>1. Mine(t) = {[tab |-> t, no |-> 1, kind |-> "get", list |-> {}, st |-> "sent"]}
    BY DEF Init, Mine
  <2> QED
    BY <1>a, <2>1 DEF Known
<1> QED
  BY <1>1, <1>2, <1>3, <1>4 DEF WatchlistInv

-----------------------------------------------------------------------------
(* What the steps have in common.                                          *)

(* A tab that nothing happens to knows what it knew.                       *)
LEMMA OthersKnow ==
  ASSUME KnownOK, NEW t \in Tabs, tab'[t] = tab[t], Mine(t)' = Mine(t), last'[t] = last[t],
         calm'[t] => calm[t] /\ settings'.list = settings.list
  PROVE  calm'[t] => Known(tab'[t], Mine(t)', last'[t], settings'.list)
BY DEF KnownOK

(* The answer to a call replaces it among the calls of its tab.            *)
Answered(c, st, stored) == [c EXCEPT !.st = st, !.list = stored]

LEMMA AnswerType ==
  ASSUME NEW c \in Call, NEW st \in {"served", "failed"}, NEW stored \in Lists
  PROVE  /\ Answered(c, st, stored) \in Call
         /\ Answered(c, st, stored).tab = c.tab /\ Answered(c, st, stored).no = c.no
         /\ Answered(c, st, stored).kind = c.kind
         /\ Answered(c, st, stored).st = st /\ Answered(c, st, stored).list = stored
BY DEF Answered, Call

LEMMA AnswerMine ==
  ASSUME calls \subseteq Call, NEW c \in calls, NEW st \in {"served", "failed"},
         NEW stored \in Lists, Answer(c, st, stored)
  PROVE  /\ calls' = (calls \ {c}) \cup {Answered(c, st, stored)}
         /\ Mine(c.tab)' = (Mine(c.tab) \ {c}) \cup {Answered(c, st, stored)}
         /\ \A t \in Tabs \ {c.tab} : Mine(t)' = Mine(t)
<1>1. calls' = (calls \ {c}) \cup {Answered(c, st, stored)}
  BY DEF Answer, Answered
<1>2. Answered(c, st, stored).tab = c.tab
  BY AnswerType
<1> QED
  BY <1>1, <1>2 DEF Mine

(* A call that reaches the store.                                          *)
LEMMA ReachIs ==
  ASSUME NEW c \in Call, NEW w \in BOOLEAN, Reach(c, w)
  PROVE  /\ last'[c.tab] = IF c.no > last[c.tab] THEN c.no ELSE last[c.tab]
         /\ calm'[c.tab] = (calm[c.tab] /\ c.no > last[c.tab])
         /\ \A t \in Tabs \ {c.tab} : last'[t] = last[t] /\ calm'[t] = (calm[t] /\ ~w)
BY NoneAssumption DEF Reach, Call

(* The calls stay apart and within what was sent when one of them is       *)
(* answered.                                                               *)
LEMMA AnswerKeepsCalls ==
  ASSUME WatchlistTypeOK, CallsOK, NEW c \in calls, NEW st \in {"served", "failed"},
         NEW stored \in Lists, Answer(c, st, stored), UNCHANGED tab,
         \A t \in Tabs : last'[t] >= last[t] /\ last'[t] <= tab[t].sent,
         \A t \in Tabs : last'[t] \in Nat,
         st = "served" => c.no <= last'[c.tab]
  PROVE  CallsOK' /\ calls' \subseteq Call
<1> DEFINE a == Answered(c, st, stored)
<1>1. calls' = (calls \ {c}) \cup {a}
  BY DEF Answer, Answered
<1>2. a \in Call /\ a.tab = c.tab /\ a.no = c.no /\ a.st = st
  <2>1. c \in Call
    BY DEF WatchlistTypeOK
  <2> QED
    BY <2>1, AnswerType
<1> HIDE DEF a
<1>3. \A d \in calls : d.no \in Nat /\ last[d.tab] \in Nat /\ d.tab \in Tabs
  BY DEF WatchlistTypeOK, Call
<1>4. \A d, e \in calls' : d.tab = e.tab /\ d.no = e.no => d = e
  BY <1>1, <1>2 DEF CallsOK
<1>5. \A d \in calls' : d.no <= tab[d.tab].sent
  BY <1>1, <1>2 DEF CallsOK
<1>6. ASSUME NEW d \in calls', d.st = "served" PROVE d.no <= last'[d.tab]
  <2>1. CASE d = a
    BY <1>2, <1>6, <2>1
  <2>2. CASE d # a
    <3>1. d \in calls /\ d.no <= last[d.tab] /\ last'[d.tab] >= last[d.tab]
      BY <1>1, <1>3, <1>6, <2>2 DEF CallsOK
    <3> QED
      BY <1>3, <3>1
  <2> QED
    BY <2>1, <2>2
<1> QED
  BY <1>1, <1>2, <1>4, <1>5, <1>6 DEF CallsOK, WatchlistTypeOK

(* What the tab of an answered call knows.  The call did not reach the     *)
(* store.                                                                  *)
LEMMA UnreachedKnows ==
  ASSUME NEW b, NEW M, NEW l, NEW s, Known(b, M, l, s), NEW c \in M, NEW a,
         a.no = c.no, a.kind = c.kind, a.st = "failed"
  PROVE  Known(b, (M \ {c}) \cup {a}, l, s)
BY DEF Known

(* It did, and nothing later had before it.                                *)
LEMMA ReachedKnows ==
  ASSUME NEW b \in Board, NEW M, NEW l \in Nat, NEW s, NEW u, Known(b, M, l, s),
         NEW c \in M, NEW a, c.no \in Nat, c.no > l, c.no <= b.sent,
         \A d \in M : d.no = c.no => d = c,
         a.no = c.no, a.kind = c.kind,
         a.kind = "get" => a.list = u,
         c.kind = "post" => c.st = "sent" /\ u = Valid(c.list),
         a.st # "sent", a.kind \in {"get", "post"}
  PROVE  Known(b, (M \ {c}) \cup {a}, c.no, u)
<1> DEFINE N == (M \ {c}) \cup {a}
<1>a. b.sent \in Nat
  BY DEF Board
<1>1. \A d \in N : d.kind = "get" /\ d.st = "served" /\ d.no = c.no => d.list = u
  OBVIOUS
<1>2. ASSUME b.mounted, c.no < b.sent PROVE \E d \in M \ {c} : d.no = b.sent
  <2>1. l < b.sent
    BY <1>2, <1>a
  <2>2. PICK d \in M : d.no = b.sent
    BY <1>2, <2>1 DEF Known
  <2> QED
    BY <1>2, <1>a, <2>2
<1>3. ASSUME b.mounted, NEW d \in N, d.kind = "post", d.st = "sent", d.no = b.sent
      PROVE  d.list = b.list
  BY <1>3 DEF Known
<1>4. ASSUME b.mounted, ~b.error, \A d \in N : d.no = b.sent => d.kind = "post" /\ d.no <= c.no
      PROVE  Agrees(b.list, u)
  <2>1. c.no = b.sent
    BY <1>2, <1>4, <1>a
  <2>2. c.kind = "post" /\ c.st = "sent" /\ u = Valid(c.list)
    BY <1>4, <2>1
  <2>3. c.list = b.list
    BY <1>4, <2>1, <2>2 DEF Known
  <2> QED
    BY <2>2, <2>3 DEF Agrees, Valid
<1> QED
  BY <1>1, <1>2, <1>3, <1>4 DEF Known

(* A replica answers a call, which may reach the store.                    *)
LEMMA AnswersKeep ==
  ASSUME WatchlistInv, NEW c \in calls, NEW st \in {"served", "failed"}, NEW stored \in Lists,
         Answer(c, st, stored), UNCHANGED <<tab, form>>,
         settings' \in Settings, proc' \in [Replicas -> {None} \cup Service],
         \A r \in Replicas : proc'[r] # None => proc'[r] = proc[r] /\ proc[r].call # c,
         c.st = "sent",
         \/ st = "failed" /\ UNCHANGED <<settings, calm, last>>
         \/ /\ Reach(c, c.kind = "post")
            /\ settings'.list = stored
            /\ c.kind = "get" => settings' = settings
            /\ c.kind = "post" => stored = Valid(c.list)
  PROVE  WatchlistInv'
<1> DEFINE a == Answered(c, st, stored)
           u == c.tab
<1>a. /\ calls \subseteq Call /\ c \in Call /\ u \in Tabs /\ c.no \in Nat
      /\ c.kind \in {"get", "post"} /\ WatchlistTypeOK /\ CallsOK
      /\ tab \in [Tabs -> Board] /\ last \in [Tabs -> 0 .. MaxCalls]
      /\ calm \in [Tabs -> BOOLEAN] /\ c.no \in 1 .. MaxCalls
  BY DEF WatchlistInv, WatchlistTypeOK, Call
<1>b. /\ calls' = (calls \ {c}) \cup {a}
      /\ Mine(u)' = (Mine(u) \ {c}) \cup {a}
      /\ \A t \in Tabs \ {u} : Mine(t)' = Mine(t)
  BY <1>a, AnswerMine
<1>c. /\ a \in Call /\ a.tab = u /\ a.no = c.no /\ a.kind = c.kind /\ a.st = st
      /\ a.list = stored
  BY <1>a, AnswerType
<1>d. \A t \in Tabs : last[t] \in Nat /\ last[t] <= tab[t].sent /\ tab[t].sent \in Nat
  BY <1>a DEF CallsOK, Board
<1>e. c.no <= tab[u].sent /\ c \in Mine(u)
  BY <1>a DEF CallsOK, Mine
<1>f. \A d \in Mine(u) : d.no = c.no => d = c
  BY <1>a DEF CallsOK, Mine
<1> HIDE DEF a
<1>2. /\ \A t \in Tabs : last'[t] >= last[t] /\ last'[t] <= tab[t].sent /\ last'[t] \in Nat
      /\ st = "served" => c.no <= last'[u]
      /\ calm' \in [Tabs -> BOOLEAN] /\ last' \in [Tabs -> 0 .. MaxCalls]
      /\ \A t \in Tabs : calm'[t] => Known(tab'[t], Mine(t)', last'[t], settings'.list)
  <2>1. CASE Reach(c, c.kind = "post") /\ settings'.list = stored
               /\ (c.kind = "get" => settings' = settings)
               /\ (c.kind = "post" => stored = Valid(c.list))
    <3>1. /\ last'[u] = IF c.no > last[u] THEN c.no ELSE last[u]
          /\ calm'[u] = (calm[u] /\ c.no > last[u])
          /\ \A t \in Tabs \ {u} : last'[t] = last[t]
                                   /\ calm'[t] = (calm[t] /\ ~(c.kind = "post"))
      BY <2>1, <1>a, ReachIs
    <3>2. \A t \in Tabs : last'[t] >= last[t] /\ last'[t] <= tab[t].sent /\ last'[t] \in Nat
      BY <1>a, <1>d, <1>e, <3>1
    <3>3. c.no <= last'[u]
      BY <1>a, <1>d, <3>1
    <3>4. last' \in [Tabs -> 0 .. MaxCalls]
      <4>1. last' = [t \in Tabs |-> last'[t]]
        BY <2>1 DEF Reach
      <4>2. \A t \in Tabs : last'[t] \in 0 .. MaxCalls
        BY <1>a, <3>1
      <4> QED
        BY <4>1, <4>2
    <3>5. calm' \in [Tabs -> BOOLEAN]
      BY <2>1 DEF Reach
    <3>6. ASSUME NEW t \in Tabs, calm'[t]
          PROVE  Known(tab'[t], Mine(t)', last'[t], settings'.list)
      <4>1. CASE t = u
        <5>1. calm[u] /\ c.no > last[u] /\ last'[u] = c.no
          BY <3>1, <3>6, <4>1
        <5>2. Known(tab[u], Mine(u), last[u], settings.list)
          BY <1>a, <5>1 DEF WatchlistInv, KnownOK
        <5>3. tab[u] \in Board
          BY <1>a
        <5>4. Known(tab[u], (Mine(u) \ {c}) \cup {a}, c.no, stored)
          BY <1>a, <1>c, <1>d, <1>e, <1>f, <2>1, <5>1, <5>2, <5>3, ReachedKnows
        <5> QED
          BY <1>b, <2>1, <4>1, <5>1, <5>4
      <4>2. CASE t # u
        <5>1. calm[t] /\ c.kind # "post" /\ last'[t] = last[t] /\ Mine(t)' = Mine(t)
          BY <1>b, <3>1, <3>6, <4>2
        <5>2. settings' = settings
          BY <1>a, <2>1, <5>1
        <5> QED
          BY <3>6, <5>1, <5>2, OthersKnow DEF WatchlistInv
      <4> QED
        BY <4>1, <4>2
    <3> QED
      BY <3>2, <3>3, <3>4, <3>5, <3>6
  <2>2. CASE st = "failed" /\ UNCHANGED <<settings, calm, last>>
    <3>1. \A t \in Tabs : last'[t] >= last[t] /\ last'[t] <= tab[t].sent /\ last'[t] \in Nat
      BY <1>d, <2>2
    <3>2. ASSUME NEW t \in Tabs, calm'[t]
          PROVE  Known(tab'[t], Mine(t)', last'[t], settings'.list)
      <4>1. Known(tab[t], Mine(t), last[t], settings.list)
        BY <2>2, <3>2 DEF WatchlistInv, KnownOK
      <4>2. CASE t = u
        <5>1. Known(tab[u], (Mine(u) \ {c}) \cup {a}, last[u], settings.list)
          BY <1>a, <1>c, <1>e, <2>2, <4>1, <4>2, UnreachedKnows
        <5> QED
          BY <1>b, <2>2, <4>2, <5>1
      <4>3. CASE t # u
        BY <1>b, <2>2, <4>1, <4>3
      <4> QED
        BY <4>2, <4>3
    <3> QED
      BY <1>a, <2>2, <3>1, <3>2
  <2> QED
    BY <2>1, <2>2
<1>3. CallsOK' /\ calls' \subseteq Call
  BY <1>2, <1>a, AnswerKeepsCalls
<1>4. WatchlistTypeOK'
  <2>1. \A r \in Replicas : proc'[r] = None \/ (proc'[r].call \in calls' /\ proc'[r].read.list \in Lists)
    BY <1>a, <1>b DEF WatchlistTypeOK
  <2>2. \A q, r \in Replicas : q # r /\ proc'[q] # None /\ proc'[r] # None
          => proc'[q].call # proc'[r].call
    BY <1>a DEF WatchlistTypeOK
  <2>3. form' = None \/ form' \in Lists
    BY <1>a DEF WatchlistTypeOK
  <2>4. settings' \in [list : Lists, config : 0 .. MaxSaves] /\ tab' \in [Tabs -> Board]
    BY <1>a DEF Settings
  <2> QED
    BY <1>2, <1>3, <2>1, <2>2, <2>3, <2>4 DEF WatchlistTypeOK
<1>5. ProcOK'
  BY DEF WatchlistInv, ProcOK
<1>6. KnownOK'
  BY <1>2 DEF KnownOK
<1> QED
  BY <1>3, <1>4, <1>5, <1>6 DEF WatchlistInv

LEMMA BackendKeeps ==
  ASSUME WatchlistInv, NEW c \in calls,
         getOpsWatchlist(c) \/ Refuse(c) \/ \E r \in Replicas : savePluginSettings(r)
  PROVE  WatchlistInv'
<1>a. /\ calls \subseteq Call /\ {} \in Lists /\ settings \in Settings
      /\ proc \in [Replicas -> {None} \cup Service] /\ settings.list \in Lists
      /\ \A d \in calls : d.list \in Lists /\ d.kind \in {"get", "post"}
  BY DEF WatchlistInv, WatchlistTypeOK, ProcOK, Lists, Settings, Call
<1>1. CASE getOpsWatchlist(c)
  <2>1. \A r \in Replicas : proc[r] # None => proc[r].call # c
    BY <1>1 DEF getOpsWatchlist, WatchlistInv, ProcOK
  <2>2. /\ c.kind = "get" /\ c.st = "sent" /\ UNCHANGED <<tab, form>> /\ settings' \in Settings
        /\ proc' \in [Replicas -> {None} \cup Service]
        /\ \A r \in Replicas : proc'[r] # None => proc'[r] = proc[r] /\ proc[r].call # c
        /\ settings' = settings
    BY <1>1, <1>a, <2>1 DEF getOpsWatchlist
  <2>3. CASE Answer(c, "served", settings.list) /\ Reach(c, FALSE)
    <3>1. Reach(c, c.kind = "post")
      BY <2>2, <2>3 DEF Reach
    <3> QED
      BY <1>a, <2>2, <2>3, <3>1, AnswersKeep
  <2>4. CASE Answer(c, "failed", {}) /\ UNCHANGED <<calm, last>>
    BY <1>a, <2>2, <2>4, AnswersKeep
  <2> QED
    BY <1>1, <2>3, <2>4 DEF getOpsWatchlist
<1>2. CASE Refuse(c)
  <2>1. \A r \in Replicas : proc[r] # None => proc[r].call # c
    BY <1>2 DEF Refuse, Serving
  <2>2. /\ UNCHANGED <<tab, form>> /\ settings' \in Settings
        /\ proc' \in [Replicas -> {None} \cup Service]
        /\ \A r \in Replicas : proc'[r] # None => proc'[r] = proc[r] /\ proc[r].call # c
        /\ UNCHANGED <<settings, calm, last>> /\ Answer(c, "failed", c.list) /\ c.st = "sent"
    BY <1>2, <1>a, <2>1 DEF Refuse
  <2> QED
    BY <1>a, <2>2, AnswersKeep
<1>3. ASSUME NEW r \in Replicas, savePluginSettings(r) PROVE WatchlistInv'
  <2> DEFINE d == proc[r].call
  <2>1. /\ d \in calls /\ d.kind = "post" /\ proc[r] \in Service /\ proc[r].read \in Settings
        /\ d.list \in Lists /\ d.st = "sent" /\ Valid(d.list) \in Lists
    BY <1>3, <1>a DEF savePluginSettings, WatchlistInv, WatchlistTypeOK, ProcOK, Service, Valid, Lists
  <2>2. \A q \in Replicas : proc'[q] # None => proc'[q] = proc[q] /\ proc[q].call # d
    BY <1>3, <1>a DEF savePluginSettings, WatchlistInv, WatchlistTypeOK
  <2>3. UNCHANGED <<tab, form>> /\ proc' \in [Replicas -> {None} \cup Service]
    BY <1>3, <1>a DEF savePluginSettings
  <2>4. \/ /\ settings' = [proc[r].read EXCEPT !.list = Valid(d.list)]
           /\ Reach(d, TRUE)
           /\ \E st \in {"served", "failed"} : Answer(d, st, Valid(d.list))
        \/ Answer(d, "failed", d.list) /\ UNCHANGED <<settings, calm, last>>
    BY <1>3 DEF savePluginSettings
  <2> HIDE DEF d
  <2>5. CASE /\ settings' = [proc[r].read EXCEPT !.list = Valid(d.list)]
             /\ Reach(d, TRUE)
             /\ \E st \in {"served", "failed"} : Answer(d, st, Valid(d.list))
    <3>1. PICK st \in {"served", "failed"} : Answer(d, st, Valid(d.list))
      BY <2>5
    <3>2. settings' \in Settings /\ settings'.list = Valid(d.list)
      BY <2>1, <2>5 DEF Settings
    <3>3. Reach(d, d.kind = "post")
      BY <2>1, <2>5 DEF Reach
    <3> QED
      BY <2>1, <2>2, <2>3, <3>1, <3>2, <3>3, AnswersKeep
  <2>6. CASE Answer(d, "failed", d.list) /\ UNCHANGED <<settings, calm, last>>
    BY <1>a, <2>1, <2>2, <2>3, <2>6, AnswersKeep
  <2> QED
    BY <2>4, <2>5, <2>6
<1> QED
  BY <1>1, <1>2, <1>3

(* A step of the tab u alone, which leaves it with the board b.            *)
LEMMA TabKeeps ==
  ASSUME WatchlistInv, NEW u \in Tabs, NEW b \in Board, tab' = [tab EXCEPT ![u] = b],
         UNCHANGED <<settings, proc, form, last>>,
         calls' \subseteq Call, \A t \in Tabs \ {u} : Mine(t)' = Mine(t),
         calm' \in [Tabs -> BOOLEAN], \A t \in Tabs \ {u} : calm'[t] = calm[t],
         tab[u].sent <= b.sent,
         \A c \in Mine(u)' :
           /\ c.no <= b.sent
           /\ c.st = "served" => c.no <= last[u]
           /\ \A d \in Mine(u)' : c.no = d.no => c = d,
         \A r \in Replicas : proc[r] # None => proc[r].call \in calls',
         calm'[u] => Known(b, Mine(u)', last[u], settings.list)
  PROVE  WatchlistInv'
<1>a. /\ WatchlistTypeOK /\ CallsOK /\ ProcOK
      /\ tab \in [Tabs -> Board] /\ last \in [Tabs -> 0 .. MaxCalls]
      /\ \A c \in calls' : c.tab \in Tabs /\ c \in Mine(c.tab)'
      /\ tab' \in [Tabs -> Board] /\ tab'[u] = b /\ \A t \in Tabs \ {u} : tab'[t] = tab[t]
      /\ tab[u].sent \in Nat /\ b.sent \in Nat /\ \A t \in Tabs : last[t] \in Nat
  BY DEF WatchlistInv, WatchlistTypeOK, Mine, Call, Board
<1>1. WatchlistTypeOK'
  <2>1. \A r \in Replicas : proc'[r] = None \/ (proc'[r].call \in calls' /\ proc'[r].read.list \in Lists)
    BY <1>a DEF WatchlistTypeOK
  <2>2. \A q, r \in Replicas : q # r /\ proc'[q] # None /\ proc'[r] # None
          => proc'[q].call # proc'[r].call
    BY <1>a DEF WatchlistTypeOK
  <2>3. (form' = None \/ form' \in Lists) /\ settings' \in [list : Lists, config : 0 .. MaxSaves]
    BY <1>a DEF WatchlistTypeOK
  <2> QED
    BY <1>a, <2>1, <2>2, <2>3 DEF WatchlistTypeOK
<1>2. CallsOK'
  <2>1. ASSUME NEW c \in calls'
        PROVE  /\ c.no <= tab'[c.tab].sent
               /\ c.st = "served" => c.no <= last'[c.tab]
               /\ \A d \in calls' : c.tab = d.tab /\ c.no = d.no => c = d
    <3>1. CASE c.tab = u
      BY <1>a, <2>1, <3>1 DEF Mine
    <3>2. CASE c.tab # u
      <4>1. c \in calls /\ \A d \in calls' : d.tab = c.tab => d \in calls
        BY <1>a, <2>1, <3>2 DEF Mine
      <4> QED
        BY <1>a, <2>1, <3>2, <4>1 DEF CallsOK
    <3> QED
      BY <3>1, <3>2
  <2>2. \A t \in Tabs : last'[t] <= tab'[t].sent
    <3>1. \A t \in Tabs : last[t] <= tab[t].sent
      BY <1>a DEF CallsOK
    <3>2. last[u] <= b.sent
      BY <1>a, <3>1
    <3> QED
      BY <1>a, <3>1, <3>2
  <2> QED
    BY <2>1, <2>2 DEF CallsOK
<1>3. ProcOK'
  BY <1>a DEF ProcOK
<1>4. KnownOK'
  <2> SUFFICES ASSUME NEW t \in Tabs, calm'[t]
               PROVE  Known(tab'[t], Mine(t)', last'[t], settings'.list)
    BY DEF KnownOK
  <2>1. CASE t = u
    BY <1>a, <2>1
  <2>2. CASE t # u
    BY <1>a, <2>2, OthersKnow DEF WatchlistInv
  <2> QED
    BY <2>1, <2>2
<1> QED
  BY <1>1, <1>2, <1>3, <1>4 DEF WatchlistInv

(* What is known does not depend on the services.                          *)
LEMMA BoardKnows ==
  ASSUME NEW b \in Board, NEW e \in Board, NEW M, NEW l, NEW s, Known(b, M, l, s),
         e.list = b.list, e.error = b.error, e.sent = b.sent, e.mounted => b.mounted
  PROVE  Known(e, M, l, s)
BY DEF Known

(* The services of a board arrive or fail, or its tab leaves.              *)
LEMMA ShowKeeps ==
  ASSUME WatchlistInv, NEW u \in Tabs, ServicesArrive(u) \/ ServicesFail(u) \/ Leave(u)
  PROVE  WatchlistInv'
<1>a. /\ tab \in [Tabs -> Board] /\ tab[u] \in Board /\ calls \subseteq Call
      /\ calm \in [Tabs -> BOOLEAN]
  BY DEF WatchlistInv, WatchlistTypeOK
<1>b. Filtered(tab[u].list) \in Lists
  BY DEF Filtered, Lists
<1>1. PICK b : /\ b \in Board /\ tab' = [tab EXCEPT ![u] = b]
               /\ b.list = tab[u].list /\ b.error = tab[u].error /\ b.sent = tab[u].sent
               /\ b.mounted => tab[u].mounted
  <2>1. CASE ServicesArrive(u)
    <3> DEFINE b == [tab[u] EXCEPT !.found = Filtered(tab[u].list), !.data = TRUE, !.svc = "ok"]
    <3>1. tab' = [tab EXCEPT ![u] = b]
      BY <2>1 DEF ServicesArrive
    <3>2. /\ b \in Board /\ b.list = tab[u].list /\ b.error = tab[u].error
          /\ b.sent = tab[u].sent /\ b.mounted = tab[u].mounted
      BY <1>a, <1>b DEF Board
    <3> QED
      BY <3>1, <3>2
  <2>2. CASE ServicesFail(u)
    <3> DEFINE b == [tab[u] EXCEPT !.svc = "failed"]
    <3>1. tab' = [tab EXCEPT ![u] = b]
      BY <2>2 DEF ServicesFail
    <3>2. /\ b \in Board /\ b.list = tab[u].list /\ b.error = tab[u].error
          /\ b.sent = tab[u].sent /\ b.mounted = tab[u].mounted
      BY <1>a DEF Board
    <3> QED
      BY <3>1, <3>2
  <2>3. CASE Leave(u)
    <3> DEFINE b == [tab[u] EXCEPT !.mounted = FALSE]
    <3>1. tab' = [tab EXCEPT ![u] = b]
      BY <2>3 DEF Leave
    <3>2. /\ b \in Board /\ b.list = tab[u].list /\ b.error = tab[u].error
          /\ b.sent = tab[u].sent /\ ~b.mounted
      BY <1>a DEF Board
    <3> QED
      BY <3>1, <3>2
  <2> QED
    BY <2>1, <2>2, <2>3
<1>2. UNCHANGED <<settings, proc, form, calls, calm, last>>
  BY DEF ServicesArrive, ServicesFail, Leave
<1>3. \A t \in Tabs : Mine(t)' = Mine(t)
  BY <1>2 DEF Mine
<1>4. calm'[u] => Known(b, Mine(u)', last[u], settings.list)
  <2>1. calm[u] => Known(tab[u], Mine(u), last[u], settings.list)
    BY DEF WatchlistInv, KnownOK
  <2> QED
    BY <1>a, <1>1, <1>2, <1>3, <2>1, BoardKnows
<1>5. \A c \in Mine(u)' : /\ c.no <= b.sent
                          /\ c.st = "served" => c.no <= last[u]
                          /\ \A d \in Mine(u)' : c.no = d.no => c = d
  BY <1>1, <1>3 DEF WatchlistInv, CallsOK, Mine
<1>6. \A r \in Replicas : proc[r] # None => proc[r].call \in calls'
  BY <1>2 DEF WatchlistInv, WatchlistTypeOK
<1>7. tab[u].sent <= b.sent
  BY <1>a, <1>1 DEF Board
<1> QED
  BY <1>a, <1>1, <1>2, <1>3, <1>4, <1>5, <1>6, <1>7, TabKeeps

LEMMA WithListIs ==
  ASSUME NEW b \in Board, NEW stored \in Lists
  PROVE  /\ WithList(b, stored) \in Board /\ WithList(b, stored).list = stored
         /\ WithList(b, stored).mounted = b.mounted /\ WithList(b, stored).error = b.error
         /\ WithList(b, stored).sent = b.sent
<1>1. [b EXCEPT !.list = stored, !.svc = IF b.data THEN "ok" ELSE "waiting"] \in Board
  BY DEF Board
<1> QED
  BY <1>1 DEF WithList, Board

(* A service is added or removed.                                          *)
LEMMA ChangeKeeps ==
  ASSUME WatchlistInv, NEW u \in Tabs, NEW stored \in Lists, tab[u].mounted, Change(u, stored)
  PROVE  WatchlistInv'
<1> DEFINE n == [tab |-> u, no |-> tab[u].sent + 1, kind |-> "post", list |-> stored,
                 st |-> "sent"]
           w == WithList(tab[u], stored)
           b == [w EXCEPT !.sent = tab[u].sent + 1]
<1>a. /\ tab \in [Tabs -> Board] /\ tab[u] \in Board /\ calls \subseteq Call
      /\ calm \in [Tabs -> BOOLEAN] /\ last \in [Tabs -> 0 .. MaxCalls]
      /\ tab[u].sent \in 0 .. MaxCalls /\ MaxCalls \in Nat /\ last[u] \in Nat
      /\ \A c \in calls : c.no \in Nat
      /\ last[u] <= tab[u].sent
  BY BoundAssumption DEF WatchlistInv, WatchlistTypeOK, Board, Call, CallsOK
<1>b. /\ tab[u].sent < MaxCalls /\ calls' = calls \cup {n}
      /\ UNCHANGED <<settings, proc, form, calm, last>>
      /\ tab' = [tab EXCEPT ![u] = [WithList(tab[u], stored) EXCEPT !.sent = @ + 1]]
  BY DEF Change, Send
<1>c. /\ w \in Board /\ w.list = stored /\ w.mounted = tab[u].mounted
      /\ w.error = tab[u].error /\ w.sent = tab[u].sent
  BY <1>a, WithListIs
<1>d. tab' = [tab EXCEPT ![u] = b]
  BY <1>b, <1>c
<1>e. n \in Call /\ n.tab = u /\ n.no = tab[u].sent + 1 /\ n.kind = "post" /\ n.st = "sent"
      /\ n.list = stored
  BY <1>a, <1>b DEF Call
<1> HIDE DEF w, n
<1>f. /\ b \in Board /\ b.list = stored /\ b.sent = tab[u].sent + 1
  BY <1>a, <1>b, <1>c DEF Board
<1> HIDE DEF b
<1>1. /\ Mine(u)' = Mine(u) \cup {n} /\ \A t \in Tabs \ {u} : Mine(t)' = Mine(t)
      /\ calls' \subseteq Call
  BY <1>a, <1>b, <1>e DEF Mine
<1>2. \A c \in Mine(u) : /\ c.no <= tab[u].sent /\ c.no \in Nat
                         /\ c.st = "served" => c.no <= last[u]
                         /\ \A d \in Mine(u) : c.no = d.no => c = d
  BY <1>a DEF WatchlistInv, CallsOK, Mine
<1>3. \A c \in Mine(u)' : /\ c.no <= b.sent
                          /\ c.st = "served" => c.no <= last[u]
                          /\ \A d \in Mine(u)' : c.no = d.no => c = d
  <2>1. tab[u].sent \in Nat /\ n.no # tab[u].sent
    BY <1>a, <1>e
  <2>2. \A c \in Mine(u) : c.no <= b.sent /\ c.no # n.no
    BY <1>2, <1>e, <1>f, <2>1
  <2>3. n.no <= b.sent
    BY <1>a, <1>e, <1>f
  <2> QED
    BY <1>1, <1>2, <1>e, <2>2, <2>3
<1>4. ASSUME calm'[u] PROVE Known(b, Mine(u)', last[u], settings.list)
  <2>1. Known(tab[u], Mine(u), last[u], settings.list)
    BY <1>4, <1>b DEF WatchlistInv, KnownOK
  <2>2. last[u] < b.sent /\ tab[u].sent < b.sent /\ tab[u].sent \in Nat
    BY <1>a, <1>f
  <2>3. \A c \in Mine(u) : c.no # b.sent
    BY <1>2, <2>2, <1>f
  <2>4. ~(n.no <= last[u]) /\ n.no = b.sent
    BY <1>a, <1>e, <1>f, <2>2
  <2> QED
    BY <1>1, <1>e, <1>f, <2>1, <2>2, <2>3, <2>4 DEF Known
<1>5. \A r \in Replicas : proc[r] # None => proc[r].call \in calls'
  BY <1>b DEF WatchlistInv, WatchlistTypeOK
<1>6. tab[u].sent <= b.sent
  BY <1>a, <1>f
<1> QED
  BY <1>a, <1>b, <1>d, <1>f, <1>1, <1>3, <1>4, <1>5, <1>6, TabKeeps

(* A list arrives, or the news that it could not be read.                  *)
LEMMA LandGetKeeps ==
  ASSUME WatchlistInv, NEW c \in calls, LandGet(c)
  PROVE  WatchlistInv'
<1> DEFINE u == c.tab
           w == WithList(tab[u], IF c.st = "served" THEN c.list ELSE tab[u].list)
           e == [w EXCEPT !.error = (c.st = "failed"), !.loading = FALSE]
           b == IF tab[u].mounted THEN e ELSE tab[u]
<1>a. /\ tab \in [Tabs -> Board] /\ u \in Tabs /\ tab[u] \in Board /\ calls \subseteq Call
      /\ calm \in [Tabs -> BOOLEAN] /\ last \in [Tabs -> 0 .. MaxCalls]
      /\ tab[u].sent \in Nat /\ last[u] \in Nat /\ c.no \in Nat
      /\ c.list \in Lists /\ tab[u].list \in Lists /\ c.st \in {"sent", "served", "failed"}
      /\ last[u] <= tab[u].sent /\ c \in Mine(u)
  BY DEF WatchlistInv, WatchlistTypeOK, Board, Call, CallsOK, Mine
<1>b. /\ c.kind = "get" /\ c.st # "sent" /\ calls' = calls \ {c}
      /\ UNCHANGED <<settings, proc, form, last>>
      /\ tab' = IF ~tab[u].mounted THEN tab ELSE [tab EXCEPT ![u] = e]
      /\ calm' = [calm EXCEPT ![u] = @ /\ Mine(u) = {c} /\ c.no = tab[u].sent]
  BY DEF LandGet
<1>c. /\ w \in Board /\ w.list = IF c.st = "served" THEN c.list ELSE tab[u].list
      /\ w.mounted = tab[u].mounted /\ w.error = tab[u].error /\ w.sent = tab[u].sent
  BY <1>a, WithListIs
<1> HIDE DEF w
<1>d. /\ e \in Board /\ e.list = w.list /\ e.mounted = tab[u].mounted /\ e.sent = tab[u].sent
      /\ e.error = (c.st = "failed")
  BY <1>c DEF Board
<1>e. tab' = [tab EXCEPT ![u] = b]
  BY <1>a, <1>b
<1> HIDE DEF e
<1>f. b \in Board /\ b.sent = tab[u].sent /\ b.mounted = tab[u].mounted
  BY <1>a, <1>d
<1>1. /\ Mine(u)' = Mine(u) \ {c} /\ \A t \in Tabs \ {u} : Mine(t)' = Mine(t)
      /\ calls' \subseteq Call
  BY <1>a, <1>b DEF Mine
<1>2. calm' \in [Tabs -> BOOLEAN] /\ \A t \in Tabs \ {u} : calm'[t] = calm[t]
  BY <1>a, <1>b
<1>3. \A d \in Mine(u)' : /\ d.no <= b.sent
                          /\ d.st = "served" => d.no <= last[u]
                          /\ \A f \in Mine(u)' : d.no = f.no => d = f
  BY <1>1, <1>f DEF WatchlistInv, CallsOK, Mine
<1>4. ASSUME calm'[u] PROVE Known(b, Mine(u)', last[u], settings.list)
  <2>1. calm[u] /\ Mine(u) = {c} /\ c.no = tab[u].sent
    BY <1>a, <1>b, <1>4
  <2>2. Known(tab[u], Mine(u), last[u], settings.list)
    BY <1>a, <2>1 DEF WatchlistInv, KnownOK
  <2>3. Mine(u)' = {}
    BY <1>1, <2>1
  <2>4. CASE c.st = "served"
    <3>1. c.no <= last[u]
      BY <2>4 DEF WatchlistInv, CallsOK
    <3>2. c.no = last[u] /\ ~(last[u] < b.sent)
      BY <1>a, <1>f, <2>1, <3>1
    <3>3. c.list = settings.list
      BY <1>a, <1>b, <2>2, <2>4, <3>2 DEF Known
    <3>4. b.mounted => Agrees(b.list, settings.list)
      BY <1>c, <1>d, <1>f, <2>4, <3>3 DEF Agrees
    <3> QED
      BY <2>3, <3>2, <3>4 DEF Known
  <2>5. CASE c.st = "failed"
    <3>1. b.mounted => b.error
      BY <1>d, <1>f, <2>5
    <3> QED
      BY <2>3, <3>1 DEF Known
  <2> QED
    BY <1>a, <1>b, <2>4, <2>5
<1>5. \A r \in Replicas : proc[r] # None => proc[r].call \in calls'
  BY <1>b DEF WatchlistInv, WatchlistTypeOK, ProcOK
<1>6. tab[u].sent <= b.sent
  BY <1>a, <1>f
<1> HIDE DEF b, u
<1> QED
  BY <1>a, <1>b, <1>e, <1>f, <1>1, <1>2, <1>3, <1>4, <1>5, <1>6, TabKeeps

(* A post is answered; one that failed is followed by a read.              *)
LEMMA LandPostKeeps ==
  ASSUME WatchlistInv, NEW c \in calls, LandPost(c)
  PROVE  WatchlistInv'
<1> DEFINE u == c.tab
           again == c.st = "failed" /\ tab[u].mounted
           n == [tab |-> u, no |-> tab[u].sent + 1, kind |-> "get", list |-> {}, st |-> "sent"]
           b == IF again THEN [tab[u] EXCEPT !.sent = tab[u].sent + 1] ELSE tab[u]
           N == IF again THEN {n} ELSE {}
<1>a. /\ tab \in [Tabs -> Board] /\ u \in Tabs /\ tab[u] \in Board /\ calls \subseteq Call
      /\ calm \in [Tabs -> BOOLEAN] /\ last \in [Tabs -> 0 .. MaxCalls]
      /\ tab[u].sent \in Nat /\ last[u] \in Nat /\ c.no \in Nat
      /\ c.st \in {"sent", "served", "failed"} /\ {} \in Lists
      /\ last[u] <= tab[u].sent /\ c \in Mine(u) /\ c.no <= tab[u].sent
      /\ \A d \in calls : d.no \in Nat
  BY DEF WatchlistInv, WatchlistTypeOK, Board, Call, CallsOK, Mine, Lists
<1>b. /\ c.kind = "post" /\ c.st # "sent" /\ calls' = (calls \ {c}) \cup N
      /\ again => tab[u].sent + 1 <= MaxCalls
      /\ UNCHANGED <<settings, proc, form, last>>
      /\ tab' = IF again THEN [tab EXCEPT ![u].sent = tab[u].sent + 1] ELSE tab
      /\ calm' = [calm EXCEPT ![u] = @ /\ (c.st = "served" \/ Mine(u) = {c})]
  BY DEF LandPost
<1>c. tab' = [tab EXCEPT ![u] = b]
  BY <1>a, <1>b
<1>d. /\ n.tab = u /\ n.no = tab[u].sent + 1 /\ n.kind = "get" /\ n.st = "sent"
      /\ again => n \in Call
  BY <1>a, <1>b, BoundAssumption DEF Call
<1>e. /\ b \in Board /\ b.list = tab[u].list /\ b.mounted = tab[u].mounted
      /\ b.error = tab[u].error /\ b.sent = IF again THEN tab[u].sent + 1 ELSE tab[u].sent
  BY <1>a, <1>b, BoundAssumption DEF Board
<1> HIDE DEF b, n
<1>1. /\ Mine(u)' = (Mine(u) \ {c}) \cup N /\ \A t \in Tabs \ {u} : Mine(t)' = Mine(t)
      /\ calls' \subseteq Call
  BY <1>a, <1>b, <1>d DEF Mine
<1>2. calm' \in [Tabs -> BOOLEAN] /\ \A t \in Tabs \ {u} : calm'[t] = calm[t]
  BY <1>a, <1>b
<1>f. \A d \in Mine(u) : /\ d.no <= tab[u].sent /\ d.no \in Nat
                         /\ d.st = "served" => d.no <= last[u]
                         /\ \A f \in Mine(u) : d.no = f.no => d = f
  BY <1>a DEF WatchlistInv, CallsOK, Mine
<1>3. \A d \in Mine(u)' : /\ d.no <= b.sent
                          /\ d.st = "served" => d.no <= last[u]
                          /\ \A f \in Mine(u)' : d.no = f.no => d = f
  <2>1. CASE again
    <3>1. \A d \in Mine(u) : d.no <= b.sent /\ d.no # n.no
      BY <1>a, <1>d, <1>e, <1>f, <2>1
    <3>2. n.no <= b.sent /\ n.st # "served"
      BY <1>a, <1>d, <1>e, <2>1
    <3> QED
      BY <1>1, <1>f, <2>1, <3>1, <3>2
  <2>2. CASE ~again
    BY <1>1, <1>e, <1>f, <2>2
  <2> QED
    BY <2>1, <2>2
<1>4. ASSUME calm'[u] PROVE Known(b, Mine(u)', last[u], settings.list)
  <2>1. calm[u] /\ (c.st = "served" \/ Mine(u) = {c})
    BY <1>a, <1>b, <1>4
  <2>2. Known(tab[u], Mine(u), last[u], settings.list)
    BY <1>a, <2>1 DEF WatchlistInv, KnownOK
  <2>3. CASE again
    <3>1. Mine(u)' = {n} /\ b.sent = n.no /\ n.kind = "get" /\ n.st = "sent"
      BY <1>1, <1>d, <1>e, <2>1, <2>3
    <3> QED
      BY <3>1 DEF Known
  <2>4. CASE c.st = "failed" /\ ~tab[u].mounted
    <3>1. Mine(u)' \subseteq Mine(u) /\ ~b.mounted
      BY <1>1, <1>e, <2>4
    <3> QED
      BY <2>2, <3>1 DEF Known
  <2>5. CASE c.st = "served"
    <3>1. Mine(u)' = Mine(u) \ {c} /\ b.sent = tab[u].sent /\ c.no <= last[u]
      BY <1>1, <1>a, <1>e, <1>f, <2>5
    <3>2. ASSUME b.mounted, last[u] < b.sent PROVE \E d \in Mine(u)' : d.no = b.sent
      <4>1. PICK d \in Mine(u) : d.no = b.sent
        BY <1>a, <1>e, <2>2, <3>1, <3>2 DEF Known
      <4>2. d # c
        BY <1>a, <3>1, <3>2, <4>1
      <4> QED
        BY <3>1, <4>1, <4>2
    <3>3. ASSUME b.mounted, ~b.error,
                 \A d \in Mine(u)' : d.no = b.sent => d.kind = "post" /\ d.no <= last[u]
          PROVE  Agrees(b.list, settings.list)
      <4>1. \A d \in Mine(u) : d.no = tab[u].sent => d.kind = "post" /\ d.no <= last[u]
        BY <1>b, <3>1, <3>3
      <4> QED
        BY <1>e, <2>2, <3>3, <4>1 DEF Known
    <3>4. \A d \in Mine(u)' : /\ d.kind = "get" /\ d.st = "served" /\ d.no = last[u]
                                   => d.list = settings.list
                              /\ b.mounted /\ d.kind = "post" /\ d.st = "sent" /\ d.no = b.sent
                                   => d.list = b.list
      BY <1>e, <2>2, <3>1 DEF Known
    <3> QED
      BY <3>2, <3>3, <3>4 DEF Known
  <2> QED
    BY <1>a, <1>b, <2>3, <2>4, <2>5
<1>5. \A r \in Replicas : proc[r] # None => proc[r].call \in calls'
  BY <1>b DEF WatchlistInv, WatchlistTypeOK, ProcOK
<1>6. tab[u].sent <= b.sent
  BY <1>a, <1>e
<1> HIDE DEF u, N
<1> QED
  BY <1>a, <1>b, <1>c, <1>e, <1>1, <1>2, <1>3, <1>4, <1>5, <1>6, TabKeeps

(* A post begins to be served, or the configuration page is opened.        *)
LEMMA QuietKeeps ==
  ASSUME WatchlistInv, UNCHANGED <<settings, tab, calls, calm, last>>,
         WatchlistTypeOK', ProcOK'
  PROVE  WatchlistInv'
<1>1. \A t \in Tabs : Mine(t)' = Mine(t)
  BY DEF Mine
<1>2. CallsOK'
  BY DEF WatchlistInv, CallsOK
<1>3. KnownOK'
  BY <1>1 DEF WatchlistInv, KnownOK
<1> QED
  BY <1>2, <1>3 DEF WatchlistInv

LEMMA WatchlistStep == WatchlistInv /\ [Next]_vars => WatchlistInv'
<1> SUFFICES ASSUME WatchlistInv, [Next]_vars PROVE WatchlistInv'
  OBVIOUS
<1>a. /\ WatchlistTypeOK /\ ProcOK /\ CallsOK /\ settings \in Settings
      /\ tab \in [Tabs -> Board] /\ calls \subseteq Call
      /\ proc \in [Replicas -> {None} \cup Service]
  BY DEF WatchlistInv, WatchlistTypeOK, ProcOK, Settings
<1>1. ASSUME NEW t \in Tabs, ServicesArrive(t) \/ ServicesFail(t) \/ Leave(t) PROVE WatchlistInv'
  BY <1>1, ShowKeeps
<1>2. ASSUME NEW t \in Tabs, NEW s \in Services, add(t, s) \/ remove(t, s) PROVE WatchlistInv'
  <2>1. tab[t].list \cup {s} \in Lists /\ tab[t].list \ {s} \in Lists
    BY <1>a DEF Board, Lists
  <2> QED
    BY <1>2, <2>1, ChangeKeeps DEF add, remove
<1>3. ASSUME NEW c \in calls, LandGet(c) \/ LandPost(c) PROVE WatchlistInv'
  BY <1>3, LandGetKeeps, LandPostKeeps
<1>4. ASSUME NEW c \in calls, getOpsWatchlist(c) \/ Refuse(c) PROVE WatchlistInv'
  BY <1>4, BackendKeeps
<1>5. ASSUME NEW c \in calls, NEW r \in Replicas, fetchPluginSettings(r, c) PROVE WatchlistInv'
  <2> DEFINE p == [call |-> c, read |-> settings]
  <2>1. p \in Service /\ p.call = c /\ p.read = settings /\ c.kind = "post" /\ c.st = "sent"
    BY <1>5, <1>a DEF Service, fetchPluginSettings
  <2>2. /\ proc' = [proc EXCEPT ![r] = p] /\ UNCHANGED <<settings, form, tab, calls, calm, last>>
        /\ c \notin Serving
    BY <1>5 DEF fetchPluginSettings
  <2> HIDE DEF p
  <2>3. proc'[r] = p /\ \A q \in Replicas \ {r} : proc'[q] = proc[q]
    BY <1>a, <2>2
  <2>4. \A q \in Replicas : proc[q] # None => proc[q].call # c
    BY <2>2 DEF Serving
  <2>5. ProcOK'
    <3>1. proc' \in [Replicas -> {None} \cup Service]
      BY <1>a, <2>1, <2>2
    <3> QED
      BY <1>a, <2>1, <2>3, <3>1 DEF ProcOK
  <2>6. WatchlistTypeOK'
    <3>1. \A q \in Replicas : proc'[q] = None \/ (proc'[q].call \in calls' /\ proc'[q].read.list \in Lists)
      BY <1>a, <2>1, <2>2, <2>3 DEF WatchlistTypeOK, Settings
    <3>2. \A q, o \in Replicas : q # o /\ proc'[q] # None /\ proc'[o] # None
            => proc'[q].call # proc'[o].call
      <4> SUFFICES ASSUME NEW q \in Replicas, NEW o \in Replicas, q # o,
                          proc'[q] # None, proc'[o] # None
                   PROVE  proc'[q].call # proc'[o].call
        OBVIOUS
      <4>1. CASE q # r /\ o # r
        BY <1>a, <2>3, <4>1 DEF WatchlistTypeOK
      <4>2. CASE q = r \/ o = r
        BY <2>1, <2>3, <2>4, <4>2
      <4> QED
        BY <4>1, <4>2
    <3> QED
      BY <1>a, <2>2, <3>1, <3>2 DEF WatchlistTypeOK
  <2> QED
    BY <2>2, <2>5, <2>6, QuietKeeps
<1>6. ASSUME NEW r \in Replicas, savePluginSettings(r) PROVE WatchlistInv'
  <2>1. proc[r].call \in calls
    BY <1>6, <1>a DEF savePluginSettings, WatchlistTypeOK
  <2> QED
    BY <1>6, <2>1, BackendKeeps
<1>7. CASE OpenForm
  <2>1. WatchlistTypeOK'
    BY <1>7, <1>a DEF OpenForm, WatchlistTypeOK
  <2>2. ProcOK'
    BY <1>7, <1>a DEF OpenForm, ProcOK
  <2> QED
    BY <1>7, <2>1, <2>2, QuietKeeps DEF OpenForm
<1>8. CASE SaveForm
  <2>1. /\ UNCHANGED <<proc, tab, calls>> /\ form' = None
        /\ settings' = [list |-> Valid(form), config |-> settings.config + 1]
        /\ Valid(form) \in Lists /\ settings.config < MaxSaves
    BY <1>8, <1>a DEF SaveForm, WatchlistTypeOK, Valid, Lists
  <2>2. /\ last' = [t \in Tabs |-> last[t]]
        /\ calm' = [t \in Tabs |-> FALSE]
    BY <1>8 DEF SaveForm, Reach
  <2>3. last' = last
    BY <1>a, <2>2 DEF WatchlistTypeOK
  <2>4. settings' \in Settings
    BY <1>a, <2>1, BoundAssumption DEF Settings
  <2>5. WatchlistTypeOK'
    BY <1>a, <2>1, <2>2, <2>3, <2>4 DEF WatchlistTypeOK, Settings
  <2>6. CallsOK' /\ ProcOK'
    BY <1>a, <2>1, <2>3 DEF CallsOK, ProcOK
  <2>7. KnownOK'
    BY <2>2 DEF KnownOK
  <2> QED
    BY <2>5, <2>6, <2>7 DEF WatchlistInv
<1>9. CASE UNCHANGED vars
  BY <1>9, <1>a, QuietKeeps DEF vars, WatchlistTypeOK, ProcOK
<1> QED
  BY <1>1, <1>2, <1>3, <1>4, <1>5, <1>6, <1>7, <1>8, <1>9 DEF Next

(* A board that waits for nothing shows the stored list.                   *)
LEMMA WatchlistSays ==
  ASSUME WatchlistInv
  PROVE  WatchlistTypeOK /\ BoardShowsStored
<1>0. WatchlistTypeOK
  BY DEF WatchlistInv
<1>1. BoardShowsStored
  <2> SUFFICES ASSUME NEW t \in Tabs, Settled(t), calm[t]
               PROVE  /\ ~tab[t].error => Agrees(tab[t].list, settings.list)
                      /\ Shown(tab[t]) = "empty" => settings.list = {}
    BY DEF BoardShowsStored
  <2>1. Known(tab[t], {}, last[t], settings.list) /\ tab[t].mounted
    BY DEF WatchlistInv, KnownOK, Settled
  <2>2. ~tab[t].error => Agrees(tab[t].list, settings.list)
    BY <2>1 DEF Known
  <2>3. Shown(tab[t]) = "empty" => tab[t].list = {} /\ ~tab[t].error
    BY DEF Shown
  <2> QED
    BY <2>2, <2>3 DEF Agrees
<1> QED
  BY <1>0, <1>1

-----------------------------------------------------------------------------
(* The drawer of an issue (IssueDrawer).                                   *)

-----------------------------------------------------------------------------
(* The drawer of an issue.                                                 *)

Urls ==
  [issue : Issues \cup {None}, hash : Drawer!Keys, session : Drawer!Sessions \cup {None}, range : Ranges]
Found == [data : (SUBSET Issues) \cup {None}, loading : BOOLEAN, error : BOOLEAN]

NamesOne(u, occs) ==
  occs # << >> => \E k \in DOMAIN occs : SessionOf[occs[k]] # None /\ SessionOf[occs[k]] = u.session

(* What a drawer that has neither to wait nor failed shows.                *)
OccTrue(o, u, back) ==
  /\ o.for = o.req
  /\ o.list \in IF o.req.server THEN ServerLists ELSE BrowserLists
  /\ ~o.req.server /\ ~back => NamesOne(u, o.list)

DrawerOK(d, u, i, back) ==
  /\ d \in Drawer!Drawers
  /\ d.of = Drawer!Key(u)
  /\ d.occ.req = Drawer!OccurrencesAsked(u, i) /\ d.occ.range = u.range
  /\ ~d.occ.loading /\ ~d.occ.error => OccTrue(d.occ, u, back)

(* A request under way is one of what is mounted, or a diagnosis.          *)
Wanted(f, u, i) ==
  \/ f \in Drawer!Requests(u, i)
  \/ f.kind = "doctor" /\ Drawer!Mounted(u, i) /\ f.what \in SUBSET Drawer!Stacks

DrawerInv ==
  /\ url \in Urls /\ issues \in Found
  /\ history \in [moves : Nat, back : BOOLEAN]
  /\ drawer # None <=> Drawer!Mounted(url, issues)
  /\ drawer # None => DrawerOK(drawer, url, issues, history.back)
  /\ \A f \in flights : Wanted(f, url, issues)
  /\ issues.loading => url.issue # None /\ [kind |-> "issues", range |-> url.range] \in flights

LEMMA DrawerConstants ==
  /\ None \notin Drawer!Drawers /\ None # "server"
  /\ Ranges # {}
  /\ \A l \in BrowserLists \cup ServerLists : l \in Seq(DOMAIN SessionOf)
  /\ \A l \in BrowserLists : \A k \in DOMAIN l : SessionOf[l[k]] # None
BY ViewsAssumption DEF Drawer!ConstantsOK

LEMMA KeyType ==
  ASSUME NEW u \in Urls
  PROVE  Drawer!Key(u) \in Drawer!Keys
BY DEF Urls, Drawer!Key, Drawer!Keys

LEMMA WhatType ==
  ASSUME NEW u \in Urls, NEW i \in Found
  PROVE  /\ Drawer!drawerHashes(u, i) \in SUBSET Drawer!Keys
         /\ Drawer!isServer(u, i) \in BOOLEAN
         /\ Drawer!isServer(u, i) => u.issue \in Issues
         /\ Drawer!drawerLoading(u, i) \in BOOLEAN
<1>1. u.issue \in Issues \cup {None} /\ u.hash \in Drawer!Keys /\ i.loading \in BOOLEAN
  BY DEF Urls, Found
<1>2. Drawer!drawerHashes(u, i) \in SUBSET Drawer!Keys
  <2>1. ASSUME NEW x \in Issues PROVE Hashes[x] \subseteq Drawer!Keys
    <3>1. Hashes[x] \in {Hashes[j] : j \in Issues}
      OBVIOUS
    <3> QED
      BY <3>1, Zenon DEF Drawer!Keys
  <2>2. {} \in SUBSET Drawer!Keys /\ {u.hash} \ {None} \in SUBSET Drawer!Keys
    BY <1>1
  <2>3. Drawer!Selected(u, i) => u.issue \in Issues
    BY <1>1 DEF Drawer!Selected
  <2>4. CASE Drawer!Selected(u, i)
    BY <2>1, <2>2, <2>3, <2>4 DEF Drawer!drawerHashes
  <2>5. CASE ~Drawer!Selected(u, i)
    BY <2>2, <2>5 DEF Drawer!drawerHashes
  <2> QED
    BY <2>4, <2>5
<1>3. Drawer!isServer(u, i) => u.issue \in Issues
  BY <1>1, DrawerConstants DEF Drawer!isServer, Drawer!SourceOf, Drawer!Selected
<1> QED
  BY <1>1, <1>2, <1>3 DEF Drawer!isServer, Drawer!drawerLoading

LEMMA AskedType ==
  ASSUME NEW u \in Urls, NEW i \in Found
  PROVE  Drawer!OccurrencesAsked(u, i) \in Drawer!OccRequest
<1>1. Drawer!isServer(u, i) => u.issue \in Drawer!Keys
  BY WhatType DEF Drawer!Keys
<1>2. (IF Drawer!isServer(u, i) THEN {u.issue} ELSE Drawer!drawerHashes(u, i)) \in SUBSET Drawer!Keys
  BY <1>1, WhatType
<1>3. u.range \in Ranges
  BY DEF Urls
<1> QED
  BY <1>2, <1>3, WhatType, KeyType DEF Drawer!OccurrencesAsked, Drawer!OccRequest

LEMMA SessionAskedType ==
  ASSUME NEW u \in Urls, NEW kind
  PROVE  Drawer!SessionAsked(u, kind) \in Drawer!Request(kind, Drawer!Sessions \cup {None})
BY KeyType DEF Urls, Drawer!SessionAsked, Drawer!Request

(* What is asked and where it comes from do not depend on the session.     *)
LEMMA AskedParts ==
  ASSUME NEW u, NEW i
  PROVE  LET r == Drawer!OccurrencesAsked(u, i) IN
         /\ r.kind = "occurrences" /\ r.of = Drawer!Key(u) /\ r.range = u.range
         /\ r.server = Drawer!isServer(u, i)
BY DEF Drawer!OccurrencesAsked

-----------------------------------------------------------------------------
(* A rendered drawer.                                                      *)

LEMMA OpenedType ==
  ASSUME NEW u \in Urls, NEW i
  PROVE  Drawer!Opened(u, i) \in Drawer!Drawers
<1> DEFINE c == [req |-> Drawer!SessionAsked(u, "crumbs"), loading |-> u.session # None, for |-> None]
           p == [req |-> Drawer!SessionAsked(u, "probe"), for |-> None, has |-> FALSE]
           o == [req |-> None, range |-> u.range, loading |-> TRUE, error |-> FALSE,
                 list |-> << >>, for |-> None, stats |-> FALSE]
           R(k) == Drawer!Request(k, Drawer!Sessions \cup {None})
<1>1. c \in [req : R("crumbs"), loading : BOOLEAN, for : R("crumbs") \cup {None}]
  BY SessionAskedType
<1>2. p \in [req : R("probe"), for : R("probe") \cup {None}, has : BOOLEAN]
  BY SessionAskedType
<1>3. o \in Drawer!Loaded
  BY DEF Urls, Drawer!Loaded
<1>4. [stack |-> None, busy |-> FALSE, result |-> None]
        \in [stack : Drawer!Stacks \cup {None}, busy : BOOLEAN, result : (SUBSET Drawer!Stacks) \cup {None}]
  OBVIOUS
<1>5. 1 \in Nat \ {0}
  OBVIOUS
<1> HIDE DEF c, p, o
<1>6. Drawer!Opened(u, i) =
        [of |-> Drawer!Key(u), occ |-> o, index |-> 1, crumbs |-> c, probe |-> p, feedback |-> None,
         doctor |-> [stack |-> None, busy |-> FALSE, result |-> None]]
  BY DEF Drawer!Opened, c, p, o
<1> QED
  BY <1>1, <1>2, <1>3, <1>4, <1>5, <1>6, KeyType DEF Drawer!Drawers

LEMMA OccRenderedType ==
  ASSUME NEW u \in Urls, NEW i \in Found, NEW o \in Drawer!Loaded
  PROVE  LET n == Drawer!OccRendered(o, u, i) r == Drawer!OccurrencesAsked(u, i) IN
         /\ n \in Drawer!Loaded
         /\ n.req = r /\ n.range = u.range
         /\ ~n.loading => n = o /\ o.req = r /\ o.range = u.range
<1> DEFINE r == Drawer!OccurrencesAsked(u, i)
           e == o.error /\ ~Drawer!Askable(r)
<1>1. r \in Drawer!OccRequest /\ u.range \in Ranges
  BY AskedType DEF Urls
<1>2. e \in BOOLEAN
  OBVIOUS
<1>3. Drawer!OccRendered(o, u, i) =
        IF o.req = r /\ o.range = u.range THEN o
        ELSE [o EXCEPT !.req = r, !.range = u.range, !.loading = TRUE, !.error = e]
  BY DEF Drawer!OccRendered, Drawer!Loaded
<1> HIDE DEF r, e
<1>4. [o EXCEPT !.req = r, !.range = u.range, !.loading = TRUE, !.error = e] \in Drawer!Loaded
  BY <1>1, <1>2 DEF Drawer!Loaded
<1>5. LET n == [o EXCEPT !.req = r, !.range = u.range, !.loading = TRUE, !.error = e] IN
      n.req = r /\ n.range = u.range /\ n.loading
  BY DEF Drawer!Loaded
<1> QED
  BY <1>3, <1>4, <1>5 DEF r

LEMMA PlainRecords ==
  ASSUME NEW u \in Urls
  PROVE  /\ \A c \in [req : Drawer!Request("crumbs", Drawer!Sessions \cup {None}), loading : BOOLEAN,
                     for : Drawer!Request("crumbs", Drawer!Sessions \cup {None}) \cup {None}] :
              Drawer!CrumbsRendered(c, u) \in
                [req : Drawer!Request("crumbs", Drawer!Sessions \cup {None}), loading : BOOLEAN,
                 for : Drawer!Request("crumbs", Drawer!Sessions \cup {None}) \cup {None}]
         /\ \A p \in [req : Drawer!Request("probe", Drawer!Sessions \cup {None}),
                     for : Drawer!Request("probe", Drawer!Sessions \cup {None}) \cup {None}, has : BOOLEAN] :
              Drawer!ProbeRendered(p, u) \in
                [req : Drawer!Request("probe", Drawer!Sessions \cup {None}),
                 for : Drawer!Request("probe", Drawer!Sessions \cup {None}) \cup {None}, has : BOOLEAN]
<1> DEFINE C == Drawer!Request("crumbs", Drawer!Sessions \cup {None})
           P == Drawer!Request("probe", Drawer!Sessions \cup {None})
           rc == Drawer!SessionAsked(u, "crumbs")
           rp == Drawer!SessionAsked(u, "probe")
<1>1. rc \in C /\ rp \in P
  BY SessionAskedType
<1> HIDE DEF C, P, rc, rp
<1>2. ASSUME NEW c \in [req : C, loading : BOOLEAN, for : C \cup {None}]
      PROVE  Drawer!CrumbsRendered(c, u) \in [req : C, loading : BOOLEAN, for : C \cup {None}]
  <2> DEFINE b == c.loading \/ u.session # None
  <2>1. b \in BOOLEAN
    OBVIOUS
  <2>2. Drawer!CrumbsRendered(c, u) = IF c.req = rc THEN c ELSE [c EXCEPT !.req = rc, !.loading = b]
    BY DEF Drawer!CrumbsRendered, rc
  <2> HIDE DEF b
  <2> QED
    BY <1>1, <2>1, <2>2
<1>3. ASSUME NEW p \in [req : P, for : P \cup {None}, has : BOOLEAN]
      PROVE  Drawer!ProbeRendered(p, u) \in [req : P, for : P \cup {None}, has : BOOLEAN]
  <2>1. Drawer!ProbeRendered(p, u) = IF p.req = rp THEN p ELSE [req |-> rp, for |-> None, has |-> FALSE]
    BY DEF Drawer!ProbeRendered, rp
  <2> QED
    BY <1>1, <2>1
<1> QED
  BY <1>2, <1>3 DEF C, P

(* A drawer whose parts are rendered by themselves.                        *)
Parts(d, o, c, p, f) == [d EXCEPT !.occ = o, !.crumbs = c, !.probe = p, !.feedback = f]

LEMMA PartsChange ==
  ASSUME NEW d \in Drawer!Drawers, NEW o \in Drawer!Loaded,
         NEW c \in [req : Drawer!Request("crumbs", Drawer!Sessions \cup {None}), loading : BOOLEAN,
                   for : Drawer!Request("crumbs", Drawer!Sessions \cup {None}) \cup {None}],
         NEW p \in [req : Drawer!Request("probe", Drawer!Sessions \cup {None}),
                   for : Drawer!Request("probe", Drawer!Sessions \cup {None}) \cup {None}, has : BOOLEAN],
         NEW f \in Drawer!Request("feedback", Drawer!Keys) \cup {None}
  PROVE  /\ Parts(d, o, c, p, f) \in Drawer!Drawers
         /\ Parts(d, o, c, p, f).of = d.of /\ Parts(d, o, c, p, f).occ = o
BY DEF Drawer!Drawers, Parts

LEMMA DoctorChanges ==
  ASSUME NEW d \in Drawer!Drawers,
         NEW x \in [stack : Drawer!Stacks \cup {None}, busy : BOOLEAN,
                   result : (SUBSET Drawer!Stacks) \cup {None}]
  PROVE  LET n == [d EXCEPT !.doctor = x] IN
         n \in Drawer!Drawers /\ n.of = d.of /\ n.occ = d.occ
BY DEF Drawer!Drawers

LEMMA ListsAreLists ==
  ASSUME NEW d \in Drawer!Drawers
  PROVE  d.occ.list \in Seq(DOMAIN SessionOf)
<1>1. d.occ \in Drawer!Loaded
  BY DEF Drawer!Drawers
<1>2. d.occ.list \in BrowserLists \cup ServerLists \cup {<< >>}
  BY <1>1 DEF Drawer!Loaded
<1>3. << >> \in Seq(DOMAIN SessionOf)
  BY EmptySeq
<1> QED
  BY <1>2, <1>3, DrawerConstants

LEMMA MinIsLeast ==
  ASSUME NEW S \in SUBSET Nat, S # {}
  PROVE  Drawer!Min(S) \in S /\ \A y \in S : Drawer!Min(S) <= y
<1>1. PICK x \in S : \A y \in S : ~(y < x)
  <2>1. S \subseteq Nat /\ \E x \in S : TRUE
    OBVIOUS
  <2>2. PICK x \in S : \A y \in S : <<y, x>> \notin OpToRel(<, Nat)
    BY <2>1, NatLessThanWellFounded, WFMin
  <2> QED
    BY <2>2 DEF OpToRel
<1>2. \A y \in S : x <= y
  BY <1>1
<1> QED
  BY <1>2 DEF Drawer!Min

(* What is shown is one of the list.                                       *)
LEMMA ExceptionType ==
  ASSUME NEW d \in Drawer!Drawers, NEW u
  PROVE  /\ d.occ.list = << >> => Drawer!exception(u, d) = None
         /\ d.occ.list # << >> => Drawer!exception(u, d) \in DOMAIN SessionOf
         /\ d.occ.list # << >> /\ NamesOne(u, d.occ.list) =>
              SessionOf[Drawer!exception(u, d)] = u.session
<1> DEFINE occs == d.occ.list
           own == {k \in DOMAIN occs : SessionOf[occs[k]] # None /\ SessionOf[occs[k]] = u.session}
           at == IF d.index \in DOMAIN occs THEN d.index ELSE 1
<1>1. occs \in Seq(DOMAIN SessionOf)
  BY ListsAreLists
<1>2. Drawer!exception(u, d) =
        IF occs = << >> THEN None ELSE occs[IF own # {} THEN Drawer!Min(own) ELSE at]
  BY DEF Drawer!exception
<1>3. DOMAIN occs = 1 .. Len(occs) /\ Len(occs) \in Nat
  BY <1>1
<1>4. own \in SUBSET Nat /\ own \subseteq DOMAIN occs
  BY <1>3
<1>5. own # {} => Drawer!Min(own) \in own
  BY <1>4, MinIsLeast
<1>6. occs # << >> => at \in DOMAIN occs
  BY <1>1, <1>3
<1>7. occs # << >> /\ own = {} => Drawer!exception(u, d) = occs[at]
  BY <1>2
<1>8. occs # << >> /\ own # {} => Drawer!exception(u, d) = occs[Drawer!Min(own)]
  BY <1>2
<1>9. \A k \in DOMAIN occs : occs[k] \in DOMAIN SessionOf
  BY <1>1, <1>3
<1>10. NamesOne(u, occs) /\ occs # << >> => own # {}
  BY DEF NamesOne
<1>11. occs = << >> => Drawer!exception(u, d) = None
  BY <1>2
<1> HIDE DEF own, at, occs
<1>12. occs # << >> => Drawer!exception(u, d) \in DOMAIN SessionOf
  BY <1>4, <1>5, <1>6, <1>7, <1>8, <1>9
<1>13. occs # << >> /\ own # {} => SessionOf[Drawer!exception(u, d)] = u.session
  BY <1>5, <1>8 DEF own
<1> QED
  BY <1>10, <1>11, <1>12, <1>13 DEF occs

LEMMA StackType ==
  ASSUME NEW d \in Drawer!Drawers, NEW u
  PROVE  Drawer!stacktrace(u, d) \in Drawer!Stacks \cup {None}
BY ExceptionType DEF Drawer!stacktrace, Drawer!Stacks

(* The drawer after a render: mounted when the URL asks for it, with the   *)
(* request of the URL, and true when it has nothing to wait for.           *)
Fits(d, u, i, back) ==
  /\ d \in Drawer!Drawers \cup {None}
  /\ d # None /\ d.of = Drawer!Key(u) /\ d.occ.req = Drawer!OccurrencesAsked(u, i)
       /\ d.occ.range = u.range /\ ~d.occ.loading /\ ~d.occ.error => OccTrue(d.occ, u, back)

LEMMA RenderedOK ==
  ASSUME NEW u \in Urls, NEW i \in Found, NEW back, NEW d, Fits(d, u, i, back)
  PROVE  /\ ~Drawer!Mounted(u, i) => Drawer!Rendered(d, u, i) = None
         /\ Drawer!Mounted(u, i) => DrawerOK(Drawer!Rendered(d, u, i), u, i, back)
<1> DEFINE now == IF d = None \/ (d # None /\ d.of # Drawer!Key(u)) THEN Drawer!Opened(u, i) ELSE d
           o == Drawer!OccRendered(now.occ, u, i)
           c == Drawer!CrumbsRendered(now.crumbs, u)
           p == Drawer!ProbeRendered(now.probe, u)
           f == IF Drawer!isServer(u, i) THEN None ELSE now.feedback
           m == Parts(now, o, c, p, f)
           s == Drawer!stacktrace(u, m)
           x == [stack |-> s, busy |-> FALSE, result |-> None]
<1>1. ~Drawer!Mounted(u, i) => Drawer!Rendered(d, u, i) = None
  BY DEF Drawer!Rendered
<1>2. SUFFICES ASSUME Drawer!Mounted(u, i) PROVE DrawerOK(Drawer!Rendered(d, u, i), u, i, back)
  BY <1>1
<1>3. now \in Drawer!Drawers /\ now.of = Drawer!Key(u)
  <2>1. Drawer!Opened(u, i) \in Drawer!Drawers
    BY OpenedType
  <2>2. Drawer!Opened(u, i).of = Drawer!Key(u)
    BY DEF Drawer!Opened
  <2>3. d # None => d \in Drawer!Drawers
    BY DEF Fits
  <2> QED
    BY <2>1, <2>2, <2>3
<1>4. now.occ.loading \/ (now = d /\ d # None)
  BY DEF Drawer!Opened
<1>5. Drawer!Rendered(d, u, i) = Drawer!DoctorRendered(m, u)
  <2>1. Drawer!DoctorRendered([now EXCEPT !.occ = Drawer!OccRendered(@, u, i), !.crumbs = Drawer!CrumbsRendered(@, u),
            !.probe = Drawer!ProbeRendered(@, u), !.feedback = IF Drawer!isServer(u, i) THEN None ELSE @], u)
          = Drawer!Rendered(d, u, i)
    BY <1>2 DEF Drawer!Rendered
  <2> QED
    BY <2>1, <1>3 DEF Drawer!Drawers, Parts
<1> HIDE DEF now
<1>6. /\ now.occ \in Drawer!Loaded
      /\ now.crumbs \in [req : Drawer!Request("crumbs", Drawer!Sessions \cup {None}), loading : BOOLEAN,
                         for : Drawer!Request("crumbs", Drawer!Sessions \cup {None}) \cup {None}]
      /\ now.probe \in [req : Drawer!Request("probe", Drawer!Sessions \cup {None}),
                        for : Drawer!Request("probe", Drawer!Sessions \cup {None}) \cup {None}, has : BOOLEAN]
      /\ now.feedback \in Drawer!Request("feedback", Drawer!Keys) \cup {None}
  BY <1>3 DEF Drawer!Drawers
<1>7. /\ o \in Drawer!Loaded
      /\ o.req = Drawer!OccurrencesAsked(u, i) /\ o.range = u.range
      /\ ~o.loading => o = now.occ
  BY <1>6, OccRenderedType
<1>8. /\ c \in [req : Drawer!Request("crumbs", Drawer!Sessions \cup {None}), loading : BOOLEAN,
                 for : Drawer!Request("crumbs", Drawer!Sessions \cup {None}) \cup {None}]
      /\ p \in [req : Drawer!Request("probe", Drawer!Sessions \cup {None}),
                for : Drawer!Request("probe", Drawer!Sessions \cup {None}) \cup {None}, has : BOOLEAN]
  BY <1>6, PlainRecords
<1>9. f \in Drawer!Request("feedback", Drawer!Keys) \cup {None}
  BY <1>6
<1> HIDE DEF o, c, p, f
<1>10. m \in Drawer!Drawers /\ m.of = now.of /\ m.occ = o
  <2>1. now \in Drawer!Drawers /\ o \in Drawer!Loaded
    BY <1>3, <1>7
  <2> QED
    BY <2>1, <1>8, <1>9, PartsChange
<1> HIDE DEF m
<1>11. s \in Drawer!Stacks \cup {None}
  BY <1>10, StackType
<1>12. Drawer!DoctorRendered(m, u) = IF m.doctor.stack = s THEN m ELSE [m EXCEPT !.doctor = x]
  BY DEF Drawer!DoctorRendered
<1> HIDE DEF s
<1>13. x \in [stack : Drawer!Stacks \cup {None}, busy : BOOLEAN,
              result : (SUBSET Drawer!Stacks) \cup {None}]
  BY <1>11
<1> HIDE DEF x
<1>14. LET n == Drawer!DoctorRendered(m, u) IN n \in Drawer!Drawers /\ n.of = m.of /\ n.occ = m.occ
  BY <1>10, <1>12, <1>13, DoctorChanges
<1>15. ~o.loading /\ ~o.error => OccTrue(o, u, back)
  BY <1>3, <1>4, <1>7 DEF Fits
<1>16. LET n == Drawer!Rendered(d, u, i) IN
       n \in Drawer!Drawers /\ n.of = Drawer!Key(u) /\ n.occ = o
  BY <1>3, <1>5, <1>10, <1>14
<1> QED
  BY <1>7, <1>15, <1>16 DEF DrawerOK

-----------------------------------------------------------------------------
(* What is under way.                                                      *)

IssuesAsked(u) == [kind |-> "issues", range |-> u.range]

LEMMA RequestKinds ==
  ASSUME NEW u, NEW i, NEW f \in Drawer!Requests(u, i)
  PROVE  \/ f = IssuesAsked(u) /\ f.kind = "issues" /\ u.issue # None
         \/ f = Drawer!OccurrencesAsked(u, i) /\ f.kind = "occurrences" /\ Drawer!Mounted(u, i)
         \/ f = Drawer!SessionAsked(u, "crumbs") /\ f.kind = "crumbs" /\ Drawer!Mounted(u, i)
         \/ f = Drawer!SessionAsked(u, "probe") /\ f.kind = "probe" /\ Drawer!Mounted(u, i)
         \/ f = Drawer!FeedbackAsked(u) /\ f.kind = "feedback" /\ Drawer!Mounted(u, i)
<1>1. CASE f = IssuesAsked(u) /\ u.issue # None
  BY <1>1 DEF IssuesAsked
<1>2. CASE f = Drawer!OccurrencesAsked(u, i) /\ Drawer!Mounted(u, i)
  BY <1>2, AskedParts
<1>3. CASE f = Drawer!SessionAsked(u, "crumbs") /\ Drawer!Mounted(u, i)
  BY <1>3 DEF Drawer!SessionAsked
<1>4. CASE f = Drawer!SessionAsked(u, "probe") /\ Drawer!Mounted(u, i)
  BY <1>4 DEF Drawer!SessionAsked
<1>5. CASE f = Drawer!FeedbackAsked(u) /\ Drawer!Mounted(u, i)
  BY <1>5 DEF Drawer!FeedbackAsked
<1> QED
  BY <1>1, <1>2, <1>3, <1>4, <1>5, Zenon DEF Drawer!Requests, IssuesAsked

LEMMA LaunchKeeps ==
  ASSUME NEW u, NEW i, NEW F, \A f \in F : Wanted(f, url, issues)
  PROVE  /\ \A f \in Drawer!Launch(u, i, F) : Wanted(f, u, i)
         /\ u.issue # None /\ (IssuesAsked(u) \in F \/ url.issue = None \/ url.range # u.range) =>
              IssuesAsked(u) \in Drawer!Launch(u, i, F)
<1>1. ASSUME NEW f \in Drawer!Launch(u, i, F) PROVE Wanted(f, u, i)
  <2>1. CASE f \in Drawer!Requests(u, i)
    BY <2>1 DEF Wanted
  <2>2. CASE f \in F /\ f.kind = "doctor" /\ Drawer!Mounted(u, i)
    <3>1. f \notin Drawer!Requests(url, issues)
      BY <2>2, RequestKinds
    <3> QED
      BY <2>2, <3>1 DEF Wanted
  <2> QED
    BY <1>1, <2>1, <2>2 DEF Drawer!Launch
<1>2. ASSUME u.issue # None, IssuesAsked(u) \in F \/ url.issue = None \/ url.range # u.range
      PROVE  IssuesAsked(u) \in Drawer!Launch(u, i, F)
  <2>1. IssuesAsked(u) \in Drawer!Requests(u, i)
    BY <1>2 DEF Drawer!Requests, IssuesAsked
  <2>2. IssuesAsked(u).kind = "issues" /\ IssuesAsked(u).range = u.range
    BY DEF IssuesAsked
  <2>3. IssuesAsked(u) \in Drawer!Requests(url, issues) => url.issue # None /\ url.range = u.range
    <3>1. SUFFICES ASSUME IssuesAsked(u) \in Drawer!Requests(url, issues)
                   PROVE  url.issue # None /\ url.range = u.range
      OBVIOUS
    <3>2. IssuesAsked(u) = IssuesAsked(url) /\ url.issue # None
      BY <2>2, <3>1, RequestKinds
    <3> QED
      BY <2>2, <3>2 DEF IssuesAsked
  <2> QED
    BY <1>2, <2>1, <2>3 DEF Drawer!Launch
<1> QED
  BY <1>1, <1>2

(* After a render the invariant holds again.                               *)
LEMMA RendersInv ==
  ASSUME NEW u \in Urls, NEW i \in Found, NEW d, NEW F, NEW back, Fits(d, u, i, back),
         \A f \in F : Wanted(f, url, issues),
         i.loading => u.issue # None /\ (IssuesAsked(u) \in F \/ url.issue = None \/ url.range # u.range),
         Drawer!Renders(u, i, d, F), history' \in [moves : Nat, back : BOOLEAN], back = history'.back
  PROVE  DrawerInv'
<1>1. url' = u /\ issues' = i /\ drawer' = Drawer!Rendered(d, u, i) /\ flights' = Drawer!Launch(u, i, F)
  BY DEF Drawer!Renders
<1>2. /\ ~Drawer!Mounted(u, i) => Drawer!Rendered(d, u, i) = None
      /\ Drawer!Mounted(u, i) => DrawerOK(Drawer!Rendered(d, u, i), u, i, back)
  BY RenderedOK
<1>3. Drawer!Mounted(u, i) => drawer' # None /\ DrawerOK(drawer', u, i, back)
  BY <1>1, <1>2, DrawerConstants DEF DrawerOK
<1>4. \A f \in flights' : Wanted(f, u, i)
  BY <1>1, LaunchKeeps
<1>5. i.loading => u.issue # None /\ [kind |-> "issues", range |-> u.range] \in flights'
  BY <1>1, LaunchKeeps DEF IssuesAsked
<1>6. (drawer' # None) <=> Drawer!Mounted(u, i)
  BY <1>1, <1>2, <1>3
<1> QED
  BY <1>1, <1>2, <1>3, <1>4, <1>5, <1>6 DEF DrawerInv

(* The drawer that is there fits another URL that names an occurrence of   *)
(* it, or one that the reader went back to.                                *)
Named(u, back) ==
  drawer # None /\ drawer.of = Drawer!Key(u) /\ ~drawer.occ.loading /\ ~drawer.occ.error /\ ~drawer.occ.req.server /\ ~back
    => NamesOne(u, drawer.occ.list)

LEMMA NamedNow ==
  ASSUME DrawerInv, NEW u, NEW back, history.back => back, u.session = url.session
  PROVE  Named(u, back)
<1>1. SUFFICES ASSUME drawer # None, ~drawer.occ.loading, ~drawer.occ.error, ~drawer.occ.req.server, ~back
               PROVE  NamesOne(u, drawer.occ.list)
  BY Zenon DEF Named
<1>2. OccTrue(drawer.occ, url, history.back)
  BY <1>1 DEF DrawerInv, DrawerOK
<1>3. NamesOne(url, drawer.occ.list)
  BY <1>1, <1>2 DEF OccTrue
<1> QED
  BY <1>3 DEF NamesOne

LEMMA StaysFit ==
  ASSUME DrawerInv, NEW u \in Urls, NEW i \in Found, NEW back, history.back => back, Named(u, back)
  PROVE  Fits(drawer, u, i, back)
<1>1. CASE drawer = None
  BY <1>1 DEF Fits
<1>2. CASE drawer # None
  <2>1. drawer \in Drawer!Drawers
    BY <1>2 DEF DrawerInv, DrawerOK
  <2>2. ~drawer.occ.loading /\ ~drawer.occ.error => OccTrue(drawer.occ, url, history.back)
    BY <1>2 DEF DrawerInv, DrawerOK
  <2>3. drawer.of = Drawer!Key(u) /\ ~drawer.occ.loading /\ ~drawer.occ.error => OccTrue(drawer.occ, u, back)
    <3>1. SUFFICES ASSUME drawer.of = Drawer!Key(u), ~drawer.occ.loading, ~drawer.occ.error
                   PROVE  OccTrue(drawer.occ, u, back)
      OBVIOUS
    <3>2. ~drawer.occ.req.server /\ ~back => NamesOne(u, drawer.occ.list)
      BY <1>2, <3>1, Zenon DEF Named
    <3> QED
      BY <2>2, <3>1, <3>2 DEF OccTrue
  <2> QED
    BY <2>1, <2>3 DEF Fits
<1> QED
  BY <1>1, <1>2

(* A step that renders nothing anew.                                       *)
LEMMA PlainInv ==
  ASSUME DrawerInv, url' = url, issues' = issues, drawer # None,
         drawer' \in Drawer!Drawers, drawer'.of = drawer.of,
         drawer'.occ.req = drawer.occ.req, drawer'.occ.range = drawer.occ.range,
         drawer'.occ = drawer.occ \/ drawer'.occ.error,
         \A f \in flights' : Wanted(f, url, issues),
         IssuesAsked(url) \in flights => IssuesAsked(url) \in flights',
         history' \in [moves : Nat, back : BOOLEAN], history'.back = history.back
  PROVE  DrawerInv'
<1>1. DrawerOK(drawer, url, issues, history.back)
  BY DEF DrawerInv
<1>2. DrawerOK(drawer', url, issues, history.back)
  BY <1>1 DEF DrawerOK
<1>3. drawer' # None
  BY DrawerConstants
<1> QED
  BY <1>2, <1>3 DEF DrawerInv, IssuesAsked

LEMMA IssuesRenderedOK ==
  ASSUME DrawerInv, NEW u \in Urls
  PROVE  /\ Drawer!IssuesRendered(u) \in Found
         /\ Drawer!IssuesRendered(u).loading =>
              u.issue # None /\ (IssuesAsked(u) \in flights \/ url.issue = None \/ url.range # u.range)
<1> DEFINE b == issues.data = None
<1>1. issues \in Found
  BY DEF DrawerInv
<1>2. b \in BOOLEAN
  OBVIOUS
<1>3. Drawer!IssuesRendered(u) =
        IF u.issue = None THEN [issues EXCEPT !.loading = FALSE]
        ELSE IF url.issue # None /\ url.range = u.range THEN issues
        ELSE [issues EXCEPT !.loading = b, !.error = FALSE]
  BY DEF Drawer!IssuesRendered
<1> HIDE DEF b
<1>4. CASE u.issue = None
  BY <1>1, <1>3, <1>4 DEF Found
<1>5. CASE u.issue # None /\ url.issue # None /\ url.range = u.range
  BY <1>1, <1>3, <1>5 DEF DrawerInv, IssuesAsked
<1>6. CASE u.issue # None /\ (url.issue = None \/ url.range # u.range)
  BY <1>1, <1>2, <1>3, <1>6 DEF Found
<1> QED
  BY <1>4, <1>5, <1>6

(* A move of the reader.                                                   *)
LEMMA MovesInv ==
  ASSUME DrawerInv, NEW u \in Urls, NEW back \in BOOLEAN, history.back => back, Drawer!Goes(u),
         history' = [moves |-> history.moves + 1, back |-> back], Named(u, back)
  PROVE  DrawerInv'
<1> DEFINE i == Drawer!IssuesRendered(u)
<1>1. i \in Found
  BY IssuesRenderedOK
<1>2. i.loading => u.issue # None /\ (IssuesAsked(u) \in flights \/ url.issue = None \/ url.range # u.range)
  BY IssuesRenderedOK
<1>3. Drawer!Renders(u, i, drawer, flights)
  BY DEF Drawer!Goes
<1> HIDE DEF i
<1>4. Fits(drawer, u, i, back)
  BY <1>1, StaysFit
<1>5. history' \in [moves : Nat, back : BOOLEAN] /\ back = history'.back
  BY DEF DrawerInv
<1>6. \A f \in flights : Wanted(f, url, issues)
  BY DEF DrawerInv
<1> QED
  BY <1>1, <1>2, <1>3, <1>4, <1>5, <1>6, RendersInv

LEMMA MovesKeeps ==
  ASSUME DrawerInv, NEW u \in Urls, Drawer!Moves(u), Named(u, history.back)
  PROVE  DrawerInv'
<1>1. history.back \in BOOLEAN /\ history' = [moves |-> history.moves + 1, back |-> history.back]
  BY DEF Drawer!Moves, DrawerInv
<1>2. Drawer!Goes(u)
  BY DEF Drawer!Moves
<1> QED
  BY <1>1, <1>2, MovesInv

LEMMA ReaderInv ==
  ASSUME DrawerInv, Drawer!Reader
  PROVE  DrawerInv'
<1>1. url \in Urls /\ issues \in Found /\ history \in [moves : Nat, back : BOOLEAN]
  BY DEF DrawerInv
<1>2. drawer # None => DrawerOK(drawer, url, issues, history.back) /\ drawer \in Drawer!Drawers
  BY DEF DrawerInv, DrawerOK
<1>3. CASE Drawer!onOpen
  <2>1. PICK l \in Drawer!Links, s \in Drawer!Sessions \cup {None} :
          Drawer!Moves([issue |-> l.issue, hash |-> l.hash, session |-> s, range |-> url.range])
    BY <1>3 DEF Drawer!onOpen
  <2>2. l.issue \in Issues \cup {None} /\ l.hash \in Drawer!Keys
    BY DEF Drawer!Links, Drawer!Keys
  <2>3. [issue |-> l.issue, hash |-> l.hash, session |-> s, range |-> url.range] \in Urls
    BY <1>1, <2>2 DEF Urls
  <2>4. drawer = None
    BY <1>3 DEF Drawer!onOpen
  <2> QED
    BY <2>1, <2>3, <2>4, MovesKeeps DEF Named
<1>4. CASE Drawer!closeDrawer
  <2> DEFINE u == [url EXCEPT !.issue = None, !.hash = None, !.session = None]
  <2>1. u \in Urls
    BY <1>1 DEF Urls, Drawer!Keys
  <2>2. Drawer!Moves(u)
    BY <1>4 DEF Drawer!closeDrawer
  <2>3. Drawer!Key(u) = None
    BY <1>1 DEF Urls, Drawer!Key
  <2>4. drawer # None => Drawer!Mounted(url, issues) /\ drawer.of = Drawer!Key(url)
    BY <1>2 DEF DrawerInv, DrawerOK
  <2>5. Drawer!Mounted(url, issues) => Drawer!Key(url) # None
    BY DrawerConstants DEF Drawer!Mounted, Drawer!drawerLoading, Drawer!drawerHashes, Drawer!SourceOf,
         Drawer!Selected, Drawer!Key
  <2> HIDE DEF u
  <2>6. Named(u, history.back)
    BY <2>3, <2>4, <2>5 DEF Named
  <2> QED
    BY <2>1, <2>2, <2>6, MovesKeeps
<1>5. CASE Drawer!setRange
  <2>1. PICK r \in Ranges : Drawer!Moves([url EXCEPT !.range = r])
    BY <1>5 DEF Drawer!setRange
  <2> DEFINE u == [url EXCEPT !.range = r]
  <2>2. u \in Urls /\ u.session = url.session
    BY <1>1 DEF Urls
  <2> HIDE DEF u
  <2>3. Named(u, history.back)
    BY <2>2, NamedNow
  <2> QED
    BY <2>1, <2>2, <2>3, MovesKeeps DEF u
<1>6. CASE Drawer!handleSessionChange
  <2>1. PICK s \in Drawer!ContextShown.sessions : Drawer!Moves([url EXCEPT !.session = s])
    BY <1>6 DEF Drawer!handleSessionChange
  <2> DEFINE u == [url EXCEPT !.session = s]
  <2>2. drawer # None
    BY <1>6 DEF Drawer!handleSessionChange
  <2>3. drawer.occ.list \in Seq(DOMAIN SessionOf)
    BY <1>2, <2>2, ListsAreLists
  <2>4. PICK k \in DOMAIN drawer.occ.list : s = SessionOf[drawer.occ.list[k]]
    BY DEF Drawer!ContextShown, Drawer!Range
  <2>5. drawer.occ.list[k] \in DOMAIN SessionOf
    BY <2>3
  <2>6. u \in Urls /\ u.session = s
    BY <1>1, <2>4, <2>5 DEF Urls, Drawer!Sessions
  <2> HIDE DEF u
  <2>7. Named(u, history.back)
    <3>1. SUFFICES ASSUME ~drawer.occ.loading, ~drawer.occ.error, ~drawer.occ.req.server, ~history.back
                   PROVE  NamesOne(u, drawer.occ.list)
      BY Zenon DEF Named
    <3>2. drawer.occ.list \in BrowserLists
      BY <1>2, <2>2, <3>1 DEF DrawerOK, OccTrue
    <3>3. SessionOf[drawer.occ.list[k]] # None
      BY <3>2, DrawerConstants
    <3> QED
      BY <2>4, <2>6, <3>3 DEF NamesOne
  <2> QED
    BY <2>1, <2>6, <2>7, MovesKeeps DEF u
<1>7. CASE Drawer!Back
  <2>1. PICK s \in Drawer!Sessions \cup {None} : Drawer!Goes([url EXCEPT !.session = s])
    BY <1>7 DEF Drawer!Back
  <2> DEFINE u == [url EXCEPT !.session = s]
  <2>2. u \in Urls
    BY <1>1 DEF Urls
  <2>3. history' = [moves |-> history.moves + 1, back |-> TRUE]
    BY <1>7 DEF Drawer!Back
  <2> HIDE DEF u
  <2>4. Named(u, TRUE)
    BY DEF Named
  <2> QED
    BY <2>1, <2>2, <2>3, <2>4, MovesInv DEF u
<1>8. CASE Drawer!setServerIndex
  <2>1. PICK k \in Drawer!ContextShown.pods :
          Drawer!Renders(url, issues, [drawer EXCEPT !.index = k], flights)
    BY <1>8 DEF Drawer!setServerIndex
  <2> DEFINE d == [drawer EXCEPT !.index = k]
  <2>2. drawer # None
    BY <1>8 DEF Drawer!setServerIndex
  <2>3. drawer.occ.list \in Seq(DOMAIN SessionOf)
    BY <1>2, <2>2, ListsAreLists
  <2>4. k \in DOMAIN drawer.occ.list
    BY DEF Drawer!ContextShown
  <2>5. k \in Nat \ {0}
    BY <2>3, <2>4
  <2>6. d \in Drawer!Drawers /\ d.of = drawer.of /\ d.occ = drawer.occ
    BY <1>2, <2>2, <2>5 DEF Drawer!Drawers
  <2> HIDE DEF d
  <2>7. Fits(d, url, issues, history.back)
    BY <1>2, <2>2, <2>6 DEF Fits, DrawerOK
  <2>8. history' \in [moves : Nat, back : BOOLEAN] /\ history'.back = history.back
    BY <1>1, <1>8 DEF Drawer!setServerIndex
  <2>9. /\ \A f \in flights : Wanted(f, url, issues)
        /\ issues.loading => url.issue # None /\ IssuesAsked(url) \in flights
    BY DEF DrawerInv, IssuesAsked
  <2> QED
    BY <1>1, <2>1, <2>7, <2>8, <2>9, RendersInv DEF d
<1>9. CASE Drawer!runDiagnosis
  <2> DEFINE b == [drawer.doctor EXCEPT !.busy = TRUE]
             s == Drawer!StackShown.stack
             f == [kind |-> "doctor", of |-> drawer.of, what |-> {s}]
  <2>1. drawer # None /\ drawer \in Drawer!Drawers
    BY <1>2, <1>9 DEF Drawer!runDiagnosis
  <2>2. drawer.doctor \in [stack : Drawer!Stacks \cup {None}, busy : BOOLEAN,
                          result : (SUBSET Drawer!Stacks) \cup {None}]
    BY <2>1 DEF Drawer!Drawers
  <2>3. b \in [stack : Drawer!Stacks \cup {None}, busy : BOOLEAN,
               result : (SUBSET Drawer!Stacks) \cup {None}]
    BY <2>2
  <2>4. drawer' = [drawer EXCEPT !.doctor = b]
    BY <1>9 DEF Drawer!runDiagnosis
  <2> HIDE DEF b
  <2>5. drawer' \in Drawer!Drawers /\ drawer'.of = drawer.of /\ drawer'.occ = drawer.occ
    BY <2>1, <2>3, <2>4, DoctorChanges
  <2>6. Drawer!Shown # None /\ s = StackOf[Drawer!Shown]
    BY <1>9 DEF Drawer!runDiagnosis, Drawer!StackShown
  <2>7. Drawer!Shown \in DOMAIN SessionOf
    BY <2>1, <2>6, ExceptionType DEF Drawer!Shown
  <2>8. s \in Drawer!Stacks
    BY <2>6, <2>7 DEF Drawer!Stacks
  <2>9. Wanted(f, url, issues)
    BY <2>1, <2>8 DEF Wanted, DrawerInv
  <2>10. flights' = flights \cup {f} /\ url' = url /\ issues' = issues
    BY <1>9 DEF Drawer!runDiagnosis
  <2>11. history' \in [moves : Nat, back : BOOLEAN] /\ history'.back = history.back
    BY <1>1, <1>9 DEF Drawer!runDiagnosis
  <2> HIDE DEF f
  <2>12. \A g \in flights' : Wanted(g, url, issues)
    BY <2>9, <2>10 DEF DrawerInv
  <2> QED
    BY <2>1, <2>5, <2>10, <2>11, <2>12, PlainInv
<1> QED
  BY <1>3, <1>4, <1>5, <1>6, <1>7, <1>8, <1>9 DEF Drawer!Reader

-----------------------------------------------------------------------------
(* Answers.                                                                *)

LEMMA WantedParts ==
  ASSUME DrawerInv, NEW f \in flights
  PROVE  /\ f.kind \in {"issues", "occurrences", "crumbs", "probe", "feedback", "doctor"}
         /\ f.kind # "issues" => drawer # None /\ drawer \in Drawer!Drawers
         /\ f.kind = "occurrences" => f = Drawer!OccurrencesAsked(url, issues)
         /\ f.kind = "crumbs" => f \in Drawer!Request("crumbs", Drawer!Sessions \cup {None})
         /\ f.kind = "probe" => f \in Drawer!Request("probe", Drawer!Sessions \cup {None})
         /\ f.kind = "feedback" => f \in Drawer!Request("feedback", Drawer!Keys)
         /\ f.kind = "doctor" => f.what \in SUBSET Drawer!Stacks
<1>1. url \in Urls /\ Wanted(f, url, issues)
  BY DEF DrawerInv
<1>2. Drawer!Mounted(url, issues) => drawer # None /\ drawer \in Drawer!Drawers
  BY DEF DrawerInv, DrawerOK
<1>3. Drawer!FeedbackAsked(url) \in Drawer!Request("feedback", Drawer!Keys)
  <2>1. url.issue \in Drawer!Keys /\ url.range \in Ranges
    BY <1>1 DEF Urls, Drawer!Keys
  <2> QED
    BY <1>1, <2>1, KeyType DEF Drawer!FeedbackAsked, Drawer!Request
<1>4. CASE f \in Drawer!Requests(url, issues)
  <2>1. CASE f = IssuesAsked(url) /\ f.kind = "issues"
    BY <2>1
  <2>2. CASE f = Drawer!OccurrencesAsked(url, issues) /\ f.kind = "occurrences" /\ Drawer!Mounted(url, issues)
    BY <1>2, <2>2
  <2>3. CASE f = Drawer!SessionAsked(url, "crumbs") /\ f.kind = "crumbs" /\ Drawer!Mounted(url, issues)
    BY <1>1, <1>2, <2>3, SessionAskedType
  <2>4. CASE f = Drawer!SessionAsked(url, "probe") /\ f.kind = "probe" /\ Drawer!Mounted(url, issues)
    BY <1>1, <1>2, <2>4, SessionAskedType
  <2>5. CASE f = Drawer!FeedbackAsked(url) /\ f.kind = "feedback" /\ Drawer!Mounted(url, issues)
    BY <1>2, <1>3, <2>5
  <2> QED
    BY <1>4, <2>1, <2>2, <2>3, <2>4, <2>5, RequestKinds
<1>5. CASE f.kind = "doctor" /\ Drawer!Mounted(url, issues) /\ f.what \in SUBSET Drawer!Stacks
  BY <1>2, <1>5
<1> QED
  BY <1>1, <1>4, <1>5 DEF Wanted

(* What is left when one request is answered.                              *)
LEMMA OneAnswered ==
  ASSUME DrawerInv, NEW f \in flights
  PROVE  /\ \A g \in flights \ {f} : Wanted(g, url, issues)
         /\ f.kind # "issues" /\ IssuesAsked(url) \in flights => IssuesAsked(url) \in flights \ {f}
BY DEF DrawerInv, IssuesAsked

LEMMA IssuesInv ==
  ASSUME DrawerInv, NEW f \in flights, NEW i \in Found, ~i.loading,
         Drawer!Renders(url, i, drawer, flights \ {f}), history' = history
  PROVE  DrawerInv'
<1>1. url \in Urls /\ history' \in [moves : Nat, back : BOOLEAN] /\ history.back = history'.back
  BY DEF DrawerInv
<1>2. Named(url, history.back)
  BY NamedNow
<1>3. Fits(drawer, url, i, history.back)
  BY <1>1, <1>2, StaysFit
<1> QED
  BY <1>1, <1>3, OneAnswered, RendersInv

LEMMA WithType ==
  ASSUME NEW f \in Drawer!OccRequest, NEW l \in BrowserLists \cup ServerLists, NEW stats \in BOOLEAN,
         drawer \in Drawer!Drawers
  PROVE  LET n == Drawer!With(f, l, stats) IN
         /\ n \in Drawer!Drawers
         /\ n.of = drawer.of
         /\ n.occ.req = drawer.occ.req /\ n.occ.range = drawer.occ.range
         /\ n.occ.list = l /\ n.occ.for = f /\ n.occ.error = ~stats
<1> DEFINE e == ~stats
           o == [drawer.occ EXCEPT !.list = l, !.for = f, !.loading = FALSE, !.stats = stats, !.error = e]
           k == IF Len(l) = Len(drawer.occ.list) THEN drawer.index ELSE 1
<1>1. drawer.occ \in Drawer!Loaded /\ drawer.index \in Nat \ {0}
  BY DEF Drawer!Drawers
<1>2. e \in BOOLEAN
  OBVIOUS
<1>3. k \in Nat \ {0}
  BY <1>1
<1>4. Drawer!With(f, l, stats) = [drawer EXCEPT !.occ = o, !.index = k]
  BY DEF Drawer!With, Drawer!Drawers
<1> HIDE DEF e, k
<1>5. /\ o \in Drawer!Loaded
      /\ o.req = drawer.occ.req /\ o.range = drawer.occ.range
      /\ o.list = l /\ o.for = f /\ o.error = e
  BY <1>1, <1>2 DEF Drawer!Loaded
<1> HIDE DEF o
<1>6. LET n == [drawer EXCEPT !.occ = o, !.index = k] IN
      n \in Drawer!Drawers /\ n.of = drawer.of /\ n.occ = o
  BY <1>3, <1>5 DEF Drawer!Drawers
<1> QED
  BY <1>4, <1>5, <1>6 DEF e

LEMMA ServerArriveInv ==
  ASSUME DrawerInv, NEW f \in flights, NEW l \in ServerLists, Drawer!ServerArrive(f, l)
  PROVE  DrawerInv'
<1> DEFINE stats == l # << >>
           d == Drawer!With(f, l, stats)
<1>1. url \in Urls /\ issues \in Found /\ history' \in [moves : Nat, back : BOOLEAN] /\ history.back = history'.back
  BY DEF DrawerInv, Drawer!ServerArrive
<1>2. f = Drawer!OccurrencesAsked(url, issues) /\ drawer # None /\ drawer \in Drawer!Drawers /\ f.kind # "issues"
  BY WantedParts DEF Drawer!ServerArrive
<1>3. f \in Drawer!OccRequest /\ f.server
  BY <1>1, <1>2, AskedType DEF Drawer!ServerArrive
<1>4. Drawer!Renders(url, issues, d, flights \ {f}) /\ stats \in BOOLEAN
  BY DEF Drawer!ServerArrive
<1> HIDE DEF stats
<1>5. /\ d \in Drawer!Drawers
      /\ d.occ.req = drawer.occ.req
      /\ d.occ.list = l /\ d.occ.for = f
  BY <1>2, <1>3, <1>4, WithType
<1> HIDE DEF d
<1>6. Fits(d, url, issues, history.back)
  BY <1>2, <1>3, <1>5 DEF Fits, OccTrue
<1>7. issues.loading => url.issue # None /\ IssuesAsked(url) \in flights \ {f}
  BY <1>2, OneAnswered DEF DrawerInv, IssuesAsked
<1> QED
  BY <1>1, <1>4, <1>6, <1>7, OneAnswered, RendersInv

LEMMA DefaultNamesOne ==
  ASSUME NEW l \in BrowserLists, url \in Urls
  PROVE  LET u == [url EXCEPT !.session = Drawer!SessionDefault(l)] IN
         /\ u \in Urls /\ u.issue = url.issue /\ u.hash = url.hash /\ u.range = url.range
         /\ NamesOne(u, l)
<1> DEFINE x == Drawer!SessionDefault(l)
           u == [url EXCEPT !.session = x]
<1>1. l \in Seq(DOMAIN SessionOf) /\ \A k \in DOMAIN l : SessionOf[l[k]] # None
  BY DrawerConstants
<1>2. \A k \in DOMAIN l : SessionOf[l[k]] \in Drawer!Sessions
  <2>1. \A k \in DOMAIN l : l[k] \in DOMAIN SessionOf
    BY <1>1
  <2> QED
    BY <1>1, <2>1 DEF Drawer!Sessions
<1>3. l # << >> => 1 \in DOMAIN l
  BY <1>1
<1>4. url.session \in Drawer!Sessions \cup {None}
  BY DEF Urls
<1>5. x \in Drawer!Sessions \cup {None}
  BY <1>2, <1>3, <1>4 DEF Drawer!SessionDefault
<1>6. l # << >> => \E k \in DOMAIN l : SessionOf[l[k]] # None /\ SessionOf[l[k]] = x
  <2>1. SUFFICES ASSUME l # << >> PROVE \E k \in DOMAIN l : SessionOf[l[k]] # None /\ SessionOf[l[k]] = x
    OBVIOUS
  <2>2. CASE \E o \in Drawer!Range(l) : SessionOf[o] # None /\ SessionOf[o] = url.session
    <3>1. x = url.session
      BY <2>2 DEF Drawer!SessionDefault
    <3> QED
      BY <2>2, <3>1 DEF Drawer!Range
  <2>3. CASE ~\E o \in Drawer!Range(l) : SessionOf[o] # None /\ SessionOf[o] = url.session
    <3>1. SessionOf[l[1]] # None
      BY <1>1, <1>3, <2>1
    <3>2. x = SessionOf[l[1]]
      BY <2>1, <2>3, <3>1 DEF Drawer!SessionDefault
    <3> QED
      BY <1>3, <2>1, <3>1, <3>2
  <2> QED
    BY <2>2, <2>3
<1> HIDE DEF x
<1>7. u \in Urls /\ u.issue = url.issue /\ u.hash = url.hash /\ u.range = url.range /\ u.session = x
  BY <1>5 DEF Urls
<1> HIDE DEF u
<1>8. NamesOne(u, l)
  BY <1>6, <1>7 DEF NamesOne
<1> QED
  BY <1>7, <1>8 DEF u, x

LEMMA SameAsked ==
  ASSUME NEW u, NEW v, NEW i, u.issue = v.issue, u.hash = v.hash, u.range = v.range
  PROVE  /\ Drawer!OccurrencesAsked(u, i) = Drawer!OccurrencesAsked(v, i)
         /\ IssuesAsked(u) = IssuesAsked(v)
BY DEF Drawer!OccurrencesAsked, Drawer!Key, Drawer!isServer, Drawer!SourceOf, Drawer!Selected,
     Drawer!drawerHashes, Drawer!drawerLoading, IssuesAsked

LEMMA BrowserArriveInv ==
  ASSUME DrawerInv, NEW f \in flights, NEW l \in BrowserLists, NEW counted \in BOOLEAN,
         Drawer!BrowserArrive(f, l, counted)
  PROVE  DrawerInv'
<1> DEFINE u == [url EXCEPT !.session = Drawer!SessionDefault(l)]
           d == Drawer!With(f, l, counted)
<1>1. url \in Urls /\ issues \in Found /\ history' \in [moves : Nat, back : BOOLEAN] /\ FALSE = history'.back
  BY DEF DrawerInv, Drawer!BrowserArrive
<1>2. f = Drawer!OccurrencesAsked(url, issues) /\ drawer # None /\ drawer \in Drawer!Drawers /\ f.kind # "issues"
  BY WantedParts DEF Drawer!BrowserArrive
<1>3. f \in Drawer!OccRequest /\ ~f.server
  BY <1>1, <1>2, AskedType DEF Drawer!BrowserArrive
<1>4. /\ d \in Drawer!Drawers
      /\ d.occ.req = drawer.occ.req
      /\ d.occ.list = l /\ d.occ.for = f
  BY <1>2, <1>3, WithType
<1>5. Drawer!Renders(u, issues, d, flights \ {f})
  BY DEF Drawer!BrowserArrive
<1>6. /\ u \in Urls /\ u.issue = url.issue /\ u.hash = url.hash /\ u.range = url.range
      /\ NamesOne(u, l)
  BY <1>1, DefaultNamesOne
<1> HIDE DEF d, u
<1>7. Drawer!OccurrencesAsked(u, issues) = f /\ IssuesAsked(u) = IssuesAsked(url)
  BY <1>2, <1>6, SameAsked
<1>8. Fits(d, u, issues, FALSE)
  BY <1>3, <1>4, <1>6, <1>7 DEF Fits, OccTrue
<1>9. issues.loading => u.issue # None /\ IssuesAsked(u) \in flights \ {f}
  BY <1>2, <1>6, <1>7, OneAnswered DEF DrawerInv, IssuesAsked
<1> QED
  BY <1>1, <1>5, <1>6, <1>8, <1>9, OneAnswered, RendersInv

(* Answers that end a request and change one part of the drawer.           *)
LEMMA PlainAnswer ==
  ASSUME DrawerInv, NEW f \in flights, f.kind # "issues", flights' = flights \ {f},
         url' = url, issues' = issues, history' = history, NEW d, drawer' = d,
         d \in Drawer!Drawers, d.of = drawer.of,
         d.occ.req = drawer.occ.req, d.occ.range = drawer.occ.range,
         d.occ = drawer.occ \/ d.occ.error
  PROVE  DrawerInv'
<1>1. drawer # None
  BY WantedParts
<1>2. history' \in [moves : Nat, back : BOOLEAN] /\ history'.back = history.back
  BY DEF DrawerInv
<1> QED
  BY <1>1, <1>2, OneAnswered, PlainInv

LEMMA OccurrencesFailInv ==
  ASSUME DrawerInv, NEW f \in flights, Drawer!OccurrencesFail(f)
  PROVE  DrawerInv'
<1> DEFINE o == [drawer.occ EXCEPT !.loading = FALSE, !.error = TRUE]
           d == [drawer EXCEPT !.occ = o]
<1>1. drawer \in Drawer!Drawers /\ f.kind # "issues"
  BY WantedParts DEF Drawer!OccurrencesFail
<1>2. drawer.occ \in Drawer!Loaded
  BY <1>1 DEF Drawer!Drawers
<1>3. o \in Drawer!Loaded /\ o.req = drawer.occ.req /\ o.range = drawer.occ.range /\ o.error
  BY <1>2 DEF Drawer!Loaded
<1>4. drawer' = d
  BY <1>1 DEF Drawer!OccurrencesFail, Drawer!Drawers
<1> HIDE DEF o
<1>5. d \in Drawer!Drawers /\ d.of = drawer.of /\ d.occ = o
  BY <1>1, <1>3 DEF Drawer!Drawers
<1> HIDE DEF d
<1>6. flights' = flights \ {f} /\ url' = url /\ issues' = issues /\ history' = history
  BY DEF Drawer!OccurrencesFail
<1> QED
  BY <1>1, <1>3, <1>4, <1>5, <1>6, PlainAnswer

LEMMA CrumbsAnswerInv ==
  ASSUME DrawerInv, NEW f \in flights, NEW ok \in BOOLEAN, Drawer!CrumbsAnswer(f, ok)
  PROVE  DrawerInv'
<1> DEFINE R == Drawer!Request("crumbs", Drawer!Sessions \cup {None})
           g == IF ok THEN f ELSE drawer.crumbs.for
           c == [drawer.crumbs EXCEPT !.loading = FALSE, !.for = g]
           d == [drawer EXCEPT !.crumbs = c]
<1>1. drawer \in Drawer!Drawers /\ f.kind # "issues" /\ f \in R
  BY WantedParts DEF Drawer!CrumbsAnswer
<1>2. drawer.crumbs \in [req : R, loading : BOOLEAN, for : R \cup {None}]
  BY <1>1 DEF Drawer!Drawers
<1>3. drawer' = d
  BY <1>1, <1>2 DEF Drawer!CrumbsAnswer, Drawer!Drawers
<1>4. g \in R \cup {None}
  BY <1>1, <1>2
<1> HIDE DEF g, R
<1>5. c \in [req : R, loading : BOOLEAN, for : R \cup {None}]
  BY <1>2, <1>4
<1> HIDE DEF c
<1>6. d \in Drawer!Drawers /\ d.of = drawer.of /\ d.occ = drawer.occ
  BY <1>1, <1>5 DEF Drawer!Drawers, R
<1> HIDE DEF d
<1>7. flights' = flights \ {f} /\ url' = url /\ issues' = issues /\ history' = history
  BY DEF Drawer!CrumbsAnswer
<1> QED
  BY <1>1, <1>3, <1>6, <1>7, PlainAnswer

LEMMA ProbeAnswerInv ==
  ASSUME DrawerInv, NEW f \in flights, NEW for \in {f, None}, NEW has \in BOOLEAN,
         Drawer!ProbeAnswer(f, for, has)
  PROVE  DrawerInv'
<1> DEFINE R == Drawer!Request("probe", Drawer!Sessions \cup {None})
           p == [drawer.probe EXCEPT !.for = for, !.has = has]
           d == [drawer EXCEPT !.probe = p]
<1>1. drawer \in Drawer!Drawers /\ f.kind # "issues" /\ f \in R
  BY WantedParts DEF Drawer!ProbeAnswer
<1>2. drawer.probe \in [req : R, for : R \cup {None}, has : BOOLEAN]
  BY <1>1 DEF Drawer!Drawers
<1>3. drawer' = d
  BY <1>1, <1>2 DEF Drawer!ProbeAnswer, Drawer!Drawers
<1> HIDE DEF R
<1>4. p \in [req : R, for : R \cup {None}, has : BOOLEAN]
  BY <1>1, <1>2
<1> HIDE DEF p
<1>5. d \in Drawer!Drawers /\ d.of = drawer.of /\ d.occ = drawer.occ
  BY <1>1, <1>4 DEF Drawer!Drawers, R
<1> HIDE DEF d
<1>6. flights' = flights \ {f} /\ url' = url /\ issues' = issues /\ history' = history
  BY DEF Drawer!ProbeAnswer
<1> QED
  BY <1>1, <1>3, <1>5, <1>6, PlainAnswer

LEMMA FeedbackAnswerInv ==
  ASSUME DrawerInv, NEW f \in flights, NEW for \in {f, None}, Drawer!FeedbackAnswer(f, for)
  PROVE  DrawerInv'
<1> DEFINE d == [drawer EXCEPT !.feedback = for]
<1>1. drawer \in Drawer!Drawers /\ f.kind # "issues" /\ f \in Drawer!Request("feedback", Drawer!Keys)
  BY WantedParts DEF Drawer!FeedbackAnswer
<1>2. d \in Drawer!Drawers /\ d.of = drawer.of /\ d.occ = drawer.occ
  BY <1>1 DEF Drawer!Drawers
<1>3. drawer' = d /\ flights' = flights \ {f} /\ url' = url /\ issues' = issues /\ history' = history
  BY DEF Drawer!FeedbackAnswer
<1> HIDE DEF d
<1> QED
  BY <1>1, <1>2, <1>3, PlainAnswer

LEMMA DoctorAnswerInv ==
  ASSUME DrawerInv, NEW f \in flights, NEW ok \in BOOLEAN, Drawer!DoctorAnswer(f, ok)
  PROVE  DrawerInv'
<1> DEFINE r == IF ok THEN f.what ELSE drawer.doctor.result
           x == [drawer.doctor EXCEPT !.busy = FALSE, !.result = r]
           d == [drawer EXCEPT !.doctor = x]
<1>1. drawer \in Drawer!Drawers /\ f.kind # "issues" /\ f.what \in SUBSET Drawer!Stacks
  BY WantedParts DEF Drawer!DoctorAnswer
<1>2. drawer.doctor \in [stack : Drawer!Stacks \cup {None}, busy : BOOLEAN,
                        result : (SUBSET Drawer!Stacks) \cup {None}]
  BY <1>1 DEF Drawer!Drawers
<1>3. drawer' = d
  BY <1>1, <1>2 DEF Drawer!DoctorAnswer, Drawer!Drawers
<1>4. r \in (SUBSET Drawer!Stacks) \cup {None}
  BY <1>1, <1>2
<1> HIDE DEF r
<1>5. x \in [stack : Drawer!Stacks \cup {None}, busy : BOOLEAN, result : (SUBSET Drawer!Stacks) \cup {None}]
  BY <1>2, <1>4
<1> HIDE DEF x
<1>6. d \in Drawer!Drawers /\ d.of = drawer.of /\ d.occ = drawer.occ
  BY <1>1, <1>5, DoctorChanges
<1> HIDE DEF d
<1>7. flights' = flights \ {f} /\ url' = url /\ issues' = issues /\ history' = history
  BY DEF Drawer!DoctorAnswer
<1> QED
  BY <1>1, <1>3, <1>6, <1>7, PlainAnswer

LEMMA AnswersInv ==
  ASSUME DrawerInv, Drawer!Answers
  PROVE  DrawerInv'
<1>1. PICK f \in flights :
        \/ \E found \in SUBSET Issues : Drawer!IssuesArrive(f, found)
        \/ Drawer!IssuesFail(f)
        \/ \E l \in ServerLists : Drawer!ServerArrive(f, l)
        \/ \E l \in BrowserLists, c \in BOOLEAN : Drawer!BrowserArrive(f, l, c)
        \/ Drawer!OccurrencesFail(f)
        \/ \E ok \in BOOLEAN : Drawer!CrumbsAnswer(f, ok) \/ Drawer!DoctorAnswer(f, ok)
        \/ \E for \in {f, None}, has \in BOOLEAN : Drawer!ProbeAnswer(f, for, has)
        \/ \E for \in {f, None} : Drawer!FeedbackAnswer(f, for)
  BY DEF Drawer!Answers
<1>2. ASSUME NEW found \in SUBSET Issues, Drawer!IssuesArrive(f, found) PROVE DrawerInv'
  <2> DEFINE i == [data |-> found, loading |-> FALSE, error |-> FALSE]
  <2>1. i \in Found /\ ~i.loading
    BY DEF Found
  <2>2. Drawer!Renders(url, i, drawer, flights \ {f}) /\ history' = history
    BY <1>2 DEF Drawer!IssuesArrive
  <2> HIDE DEF i
  <2> QED
    BY <2>1, <2>2, IssuesInv
<1>3. ASSUME Drawer!IssuesFail(f) PROVE DrawerInv'
  <2> DEFINE i == [issues EXCEPT !.loading = FALSE, !.error = TRUE]
  <2>1. issues \in Found
    BY DEF DrawerInv
  <2>2. i \in Found /\ ~i.loading
    BY <2>1 DEF Found
  <2>3. Drawer!Renders(url, i, drawer, flights \ {f}) /\ history' = history
    BY <1>3 DEF Drawer!IssuesFail
  <2> HIDE DEF i
  <2> QED
    BY <2>2, <2>3, IssuesInv
<1> QED
  BY <1>1, <1>2, <1>3, ServerArriveInv, BrowserArriveInv, OccurrencesFailInv, CrumbsAnswerInv,
     DoctorAnswerInv, ProbeAnswerInv, FeedbackAnswerInv

LEMMA DrawerStart ==
  ASSUME Drawer!Init
  PROVE  DrawerInv
<1> DEFINE r == CHOOSE x \in Ranges : TRUE
<1>1. r \in Ranges
  BY DrawerConstants
<1>2. url = [issue |-> None, hash |-> None, session |-> None, range |-> r]
  BY DEF Drawer!Init
<1> HIDE DEF r
<1>3. url \in Urls /\ url.issue = None /\ url.hash = None
  BY <1>1, <1>2 DEF Urls, Drawer!Keys
<1>4. /\ issues = [data |-> None, loading |-> FALSE, error |-> FALSE]
      /\ drawer = None /\ flights = {}
      /\ history = [moves |-> 0, back |-> FALSE]
  BY DEF Drawer!Init
<1>5. ~Drawer!Mounted(url, issues)
  BY <1>3, DrawerConstants DEF Drawer!Mounted, Drawer!drawerLoading, Drawer!drawerHashes,
       Drawer!SourceOf, Drawer!Selected
<1> QED
  BY <1>3, <1>4, <1>5 DEF DrawerInv, Found

(* What the invariant says.                                                *)
LEMMA DrawerSays ==
  ASSUME DrawerInv
  PROVE  Drawer!DrawerTypeOK /\ Drawer!OccurrencesAreAsked
<1>1. drawer # None => DrawerOK(drawer, url, issues, history.back)
  BY DEF DrawerInv
<1>2. Drawer!DrawerTypeOK
  <2>1. \A f \in flights : f.kind \in {"issues", "occurrences", "crumbs", "probe", "feedback", "doctor"}
    BY WantedParts
  <2>2. drawer # None => drawer \in Drawer!Drawers /\ drawer.of = Drawer!Key(url)
    BY <1>1 DEF DrawerOK
  <2>3. Drawer!HeadShown.triage = (url.issue # None)
    BY DEF Drawer!HeadShown
  <2>4. (drawer # None) = Drawer!Mounted(url, issues)
    BY DEF DrawerInv, Drawer!Mounted
  <2>5. issues.loading => \E f \in flights : f.kind = "issues"
    BY DEF DrawerInv
  <2> QED
    BY <2>1, <2>2, <2>3, <2>4, <2>5 DEF Drawer!DrawerTypeOK
<1>3. Drawer!OccurrencesAreAsked
  <2>1. SUFFICES ASSUME drawer # None, ~Drawer!HeadShown.spinner, ~Drawer!HeadShown.error, Drawer!Shown # None
                 PROVE  /\ drawer.occ.for.of = Drawer!Key(url)
                        /\ drawer.occ.for.range = url.range
                        /\ drawer.occ.for.what = Drawer!OccurrencesAsked(url, issues).what
                        /\ ~Drawer!isServer(url, issues) /\ ~history.back =>
                             url.session = SessionOf[Drawer!Shown]
    BY DEF Drawer!OccurrencesAreAsked
  <2>2. ~drawer.occ.loading /\ ~drawer.occ.error
    BY <2>1 DEF Drawer!HeadShown
  <2>3. /\ drawer \in Drawer!Drawers
        /\ drawer.occ.req = Drawer!OccurrencesAsked(url, issues)
        /\ OccTrue(drawer.occ, url, history.back)
    BY <1>1, <2>1, <2>2 DEF DrawerOK
  <2>4. drawer.occ.for = Drawer!OccurrencesAsked(url, issues)
    BY <2>3 DEF OccTrue
  <2>5. ~Drawer!isServer(url, issues) /\ ~history.back => NamesOne(url, drawer.occ.list)
    BY <2>3, AskedParts DEF OccTrue
  <2>6. drawer.occ.list # << >>
    BY <2>1, <2>3, ExceptionType DEF Drawer!Shown
  <2>7. NamesOne(url, drawer.occ.list) => SessionOf[Drawer!Shown] = url.session
    BY <2>3, <2>6, ExceptionType DEF Drawer!Shown
  <2> QED
    BY <2>4, <2>5, <2>7, AskedParts
<1> QED
  BY <1>2, <1>3

LEMMA DrawerStep ==
  ASSUME DrawerInv, [Drawer!Next]_drawerVars
  PROVE  DrawerInv'
<1>1. CASE UNCHANGED drawerVars
  BY <1>1 DEF DrawerInv, drawerVars
<1> QED
  BY <1>1, ReaderInv, AnswersInv DEF Drawer!Next

-----------------------------------------------------------------------------
(* The triage bar (TriageBar).                                             *)

(* What is on its way to the controls is no newer than the register.       *)
BarInv ==
  /\ Bar!BarTypeOK
  /\ read \in Bar!States => read.rev <= log.rev
  /\ post # None /\ post.left \in Bar!States => post.left.rev <= log.rev

LEMMA BarStart == ASSUME Bar!Init PROVE BarInv
<1>1. MaxActs \in Nat /\ Waiting \notin Bar!States
  BY ViewsAssumption DEF Bar!ConstantsOK
<1>2. log \in Bar!States
  BY DEF Bar!Init, Bar!States
<1>3. busy = (post # None)
  BY DEF Bar!Init
<1>4. /\ state = None /\ post = None /\ read = Waiting /\ assignee = None /\ acts = 0
      /\ Waiting \notin Bar!States
  BY <1>1 DEF Bar!Init
<1>5. state # None => state.rev <= log.rev
  BY <1>4
<1> QED
  BY <1>1, <1>2, <1>3, <1>4, <1>5 DEF BarInv, Bar!BarTypeOK

LEMMA Posted ==
  ASSUME NEW p \in Bar!Posts
  PROVE  /\ p # None
         /\ \A x \in Bar!States : [p EXCEPT !.left = x] \in Bar!Posts /\ [p EXCEPT !.left = x].left = x
         /\ LET q == [p EXCEPT !.recorded = TRUE] IN q \in Bar!Posts /\ q # None /\ q.left = p.left
BY ViewsAssumption DEF Bar!ConstantsOK, Bar!Posts

LEMMA AfterAct ==
  ASSUME NEW s \in Bar!States, NEW a, NEW who \in Names \cup {None}
  PROVE  Bar!After(s, a, who) \in Bar!States /\ Bar!After(s, a, who).rev = s.rev + 1
<1> DEFINE st == Bar!After(s, a, who).status
<1>1. st \in {"active", "resolved", "ignored"}
  BY DEF Bar!After, Bar!States
<1>2. Bar!After(s, a, who) = [status |-> st, who |-> IF a = "assign" THEN who ELSE s.who, rev |-> s.rev + 1]
  BY DEF Bar!After
<1>3. (IF a = "assign" THEN who ELSE s.who) \in Names \cup {None} /\ s.rev + 1 \in Nat
  BY DEF Bar!States
<1> HIDE DEF st
<1> QED
  BY <1>1, <1>2, <1>3 DEF Bar!States

LEMMA BarActs ==
  ASSUME BarInv, NEW a \in {"resolve", "ignore", "unresolve", "assign"}, NEW who \in Names \cup {None},
         Bar!act(a, who)
  PROVE  BarInv'
<1>1. post' = [act |-> a, who |-> who, recorded |-> FALSE, left |-> Waiting] /\ acts' = acts + 1 /\ acts < MaxActs
      /\ busy' = TRUE /\ UNCHANGED <<log, state, assignee, read>>
  BY DEF Bar!act
<1>2. post' \in Bar!Posts /\ post'.left = Waiting
  BY <1>1 DEF Bar!Posts
<1>3. post' # None /\ post'.left \notin Bar!States
  BY <1>2, Posted, ViewsAssumption DEF Bar!ConstantsOK
<1>4. MaxActs \in Nat
  BY ViewsAssumption DEF Bar!ConstantsOK
<1>5. busy' = (post' # None)
  BY <1>1, <1>3
<1> QED
  BY <1>1, <1>2, <1>3, <1>4, <1>5 DEF BarInv, Bar!BarTypeOK

LEMMA BarStep == ASSUME BarInv, [Bar!Next]_barVars PROVE BarInv'
<1>1. CASE Bar!onClick
  <2>1. PICK a \in Bar!Buttons : Bar!act(a, None)
    BY <1>1 DEF Bar!onClick
  <2>2. a \in {"resolve", "ignore", "unresolve", "assign"}
    BY DEF Bar!Buttons
  <2> QED
    BY <2>1, <2>2, BarActs
<1>2. CASE Bar!onAssign
  BY <1>2, BarActs DEF Bar!onAssign, BarInv, Bar!BarTypeOK
<1>3. CASE Bar!onChange
  BY <1>3 DEF Bar!onChange, BarInv, Bar!BarTypeOK
<1>4. CASE Bar!OthersAct
  <2>1. PICK a : log' = Bar!After(log, a, None)
    BY <1>4 DEF Bar!OthersAct
  <2>2. acts' = acts + 1 /\ acts < MaxActs /\ UNCHANGED <<state, assignee, busy, read, post>>
    BY <1>4 DEF Bar!OthersAct
  <2>3. log' \in Bar!States /\ log'.rev = log.rev + 1
    BY <2>1, AfterAct DEF BarInv, Bar!BarTypeOK
  <2>4. log.rev \in Nat /\ \A x \in Bar!States : x.rev \in Nat
    BY DEF BarInv, Bar!BarTypeOK, Bar!States
  <2>5. MaxActs \in Nat
    BY ViewsAssumption DEF Bar!ConstantsOK
  <2>6. state # None => state \in Bar!States
    BY DEF BarInv, Bar!BarTypeOK
  <2> QED
    BY <2>2, <2>3, <2>4, <2>5, <2>6 DEF BarInv, Bar!BarTypeOK
<1>5. CASE Bar!ReadServed
  BY <1>5 DEF Bar!ReadServed, BarInv, Bar!BarTypeOK, Bar!States
<1>6. CASE Bar!ReadAnswered
  <2>1. read \in Bar!States /\ read.who \in Names \cup {None} /\ read.rev <= log.rev
    BY <1>6 DEF Bar!ReadAnswered, BarInv, Bar!BarTypeOK, Bar!States
  <2>2. None \notin Bar!States
    BY ViewsAssumption DEF Bar!ConstantsOK
  <2> QED
    BY <1>6, <2>1, <2>2 DEF Bar!ReadAnswered, BarInv, Bar!BarTypeOK
<1>7. CASE Bar!ReadFails
  BY <1>7, ViewsAssumption DEF Bar!ReadFails, BarInv, Bar!BarTypeOK, Bar!ConstantsOK
<1>8. CASE Bar!PostRecorded
  <2>1. post \in Bar!Posts /\ log \in Bar!States /\ UNCHANGED <<state, assignee, busy, read, acts>>
    BY <1>8 DEF Bar!PostRecorded, BarInv, Bar!BarTypeOK
  <2>2. log' = Bar!After(log, post.act, post.who) /\ post' = [post EXCEPT !.recorded = TRUE]
    BY <1>8 DEF Bar!PostRecorded
  <2>3. log' \in Bar!States /\ log'.rev = log.rev + 1
    BY <2>1, <2>2, AfterAct DEF Bar!Posts
  <2>4. post' \in Bar!Posts /\ post'.left = post.left /\ post # None /\ post' # None
    BY <2>1, <2>2, Posted
  <2>5. log.rev \in Nat /\ \A x \in Bar!States : x.rev \in Nat
    BY <2>1 DEF Bar!States
  <2>6. state # None => state \in Bar!States
    BY DEF BarInv, Bar!BarTypeOK
  <2> QED
    BY <2>1, <2>3, <2>4, <2>5, <2>6 DEF BarInv, Bar!BarTypeOK
<1>12. CASE Bar!PostServed
  <2>1. post \in Bar!Posts /\ log \in Bar!States /\ UNCHANGED <<log, state, assignee, busy, read, acts>>
    BY <1>12 DEF Bar!PostServed, BarInv, Bar!BarTypeOK
  <2>2. PICK x \in {log, Bar!Unread} : post' = [post EXCEPT !.left = x]
    BY <1>12 DEF Bar!PostServed
  <2>3. x \in Bar!States /\ x.rev <= log.rev
    BY <2>1 DEF Bar!Unread, Bar!States
  <2>4. post' \in Bar!Posts /\ post'.left = x /\ post # None /\ post' # None
    BY <2>1, <2>2, <2>3, Posted
  <2> QED
    BY <2>1, <2>3, <2>4 DEF BarInv, Bar!BarTypeOK
<1>9. CASE Bar!PostAnswered
  BY <1>9 DEF Bar!PostAnswered, BarInv, Bar!BarTypeOK, Bar!States, Bar!Posts
<1>10. CASE Bar!PostFails
  BY <1>10 DEF Bar!PostFails, Bar!BusyAfter, BarInv, Bar!BarTypeOK
<1>11. CASE UNCHANGED barVars
  BY <1>11 DEF barVars, BarInv, Bar!BarTypeOK
<1> QED
  BY <1>1, <1>2, <1>3, <1>4, <1>5, <1>6, <1>7, <1>8, <1>9, <1>10, <1>11, <1>12 DEF Bar!Next, Bar!Backend

-----------------------------------------------------------------------------
(* The investigation (Investigation).                                      *)

(* The views of a run are made one from the other.                         *)
IsViews(g, v, s, m) == g = [n \in 0 .. m |-> IF n = 0 THEN v ELSE Run!reduceInvestigation(g[n - 1], s[n])]

(* There is such a sequence of views.                                      *)
LEMMA ViewsExist ==
  ASSUME NEW v, NEW s, NEW m \in Nat
  PROVE  \E g : IsViews(g, v, s, m)
<1> DEFINE Bad == {k \in Nat : ~ \E g : IsViews(g, v, s, k)}
<1>1. SUFFICES ASSUME Bad # {} PROVE FALSE
  OBVIOUS
<1>2. PICK k \in Bad : \A j \in Bad : <<j, k>> \notin OpToRel(<, Nat)
  <2>1. Bad \subseteq Nat /\ Bad # {}
    BY <1>1
  <2> HIDE DEF Bad
  <2> QED
    BY <2>1, NatLessThanWellFounded, WFMin
<1>3. k \in Nat /\ \A j \in Bad : ~(j < k)
  BY <1>2 DEF OpToRel
<1>4. CASE k = 0
  <2> DEFINE g == [n \in 0 .. 0 |-> v]
  <2>1. IsViews(g, v, s, 0)
    <3>1. \A n \in 0 .. 0 : n = 0
      OBVIOUS
    <3> QED
      BY <3>1 DEF IsViews
  <2> QED
    BY <1>4, <2>1
<1>5. CASE k > 0
  <2>1. k - 1 \in Nat /\ k - 1 \notin Bad
    BY <1>3, <1>5
  <2>2. PICK g : IsViews(g, v, s, k - 1)
    BY <2>1
  <2> DEFINE h == [n \in 0 .. k |-> IF n = k THEN Run!reduceInvestigation(g[k - 1], s[k]) ELSE g[n]]
             F(f) == [n \in 0 .. k |-> IF n = 0 THEN v ELSE Run!reduceInvestigation(f[n - 1], s[n])]
  <2>3. /\ g[0] = v
        /\ \A n \in 1 .. k - 1 : g[n] = Run!reduceInvestigation(g[n - 1], s[n])
    BY <2>1, <2>2 DEF IsViews
  <2>4. \A n \in 0 .. k : h[n] = IF n = k THEN Run!reduceInvestigation(g[k - 1], s[k]) ELSE g[n]
    OBVIOUS
  <2>5. DOMAIN h = 0 .. k /\ h = [n \in 0 .. k |-> h[n]]
    OBVIOUS
  <2> HIDE DEF h
  <2>6. ASSUME NEW n \in 0 .. k
        PROVE  h[n] = F(h)[n]
    <3>1. CASE n = 0
      BY <1>5, <2>3, <2>4, <3>1
    <3>2. CASE n \in 1 .. k - 1
      <4>1. h[n - 1] = g[n - 1] /\ h[n] = g[n] /\ n # 0
        BY <1>3, <2>4, <3>2
      <4> QED
        BY <2>3, <3>2, <4>1
    <3>3. CASE n = k
      <4>1. h[n - 1] = g[k - 1] /\ n # 0
        BY <1>3, <1>5, <2>4, <3>3
      <4> QED
        BY <2>4, <3>3, <4>1
    <3> QED
      BY <1>3, <3>1, <3>2, <3>3
  <2>7. h = F(h)
    <3>1. DOMAIN F(h) = 0 .. k /\ F(h) = [n \in 0 .. k |-> F(h)[n]]
      OBVIOUS
    <3> HIDE DEF F
    <3> QED
      BY <2>5, <2>6, <3>1
  <2>8. IsViews(h, v, s, k)
    BY <2>7 DEF IsViews
  <2> QED
    BY <2>8
<1> QED
  BY <1>3, <1>4, <1>5

(* What the views of a run are.                                            *)
LEMMA ViewsAre ==
  ASSUME NEW v, NEW E, NEW s \in Seq(E)
  PROVE  /\ Run!Reduced(v, s)[0] = v
         /\ \A n \in 1 .. Len(s) : Run!Reduced(v, s)[n] = Run!reduceInvestigation(Run!Reduced(v, s)[n - 1], s[n])
<1> DEFINE g == Run!Reduced(v, s)
           m == Len(s)
<1>1. m \in Nat
  OBVIOUS
<1>2. g = CHOOSE f : IsViews(f, v, s, m)
  BY DEF Run!Reduced, IsViews
<1> HIDE DEF g, m
<1>3. IsViews(g, v, s, m)
  BY <1>1, <1>2, ViewsExist
<1>4. g = [n \in 0 .. m |-> IF n = 0 THEN v ELSE Run!reduceInvestigation(g[n - 1], s[n])]
  BY <1>3 DEF IsViews
<1>5. g[0] = v /\ \A n \in 1 .. m : g[n] = Run!reduceInvestigation(g[n - 1], s[n])
  <2> DEFINE G(n) == IF n = 0 THEN v ELSE Run!reduceInvestigation(g[n - 1], s[n])
  <2>1. \A n \in 0 .. m : g[n] = G(n)
    BY <1>4
  <2> QED
    BY <1>1, <2>1
<1> QED
  BY <1>5 DEF g, m


(* The views that g holds after each of m events.                          *)
Follows(g, x, m) == \A n \in 1 .. m : g[n] = Run!reduceInvestigation(g[n - 1], x[n])

(* The same view and the same events give the same views.                  *)
LEMMA SameReduced ==
  ASSUME NEW m \in Nat, NEW x, NEW f, NEW g, f[0] = g[0], Follows(f, x, m), Follows(g, x, m)
  PROVE  f[m] = g[m]
<1> DEFINE Bad == {k \in 0 .. m : f[k] # g[k]}
<1>1. SUFFICES ASSUME Bad # {} PROVE FALSE
  OBVIOUS
<1>2. PICK k \in Bad : \A j \in Bad : <<j, k>> \notin OpToRel(<, Nat)
  <2>1. Bad \subseteq Nat /\ Bad # {}
    BY <1>1
  <2> HIDE DEF Bad
  <2> QED
    BY <2>1, NatLessThanWellFounded, WFMin
<1>3. k \in 0 .. m /\ f[k] # g[k] /\ \A j \in Bad : ~(j < k)
  <2>1. \A j \in Bad : j \in Nat /\ k \in Nat
    OBVIOUS
  <2>2. \A j \in Bad : ~(j < k)
    BY <1>2, <2>1 DEF OpToRel
  <2> QED
    BY <2>2
<1>4. k # 0 /\ k \in 1 .. m /\ k - 1 \in 0 .. m /\ k - 1 < k
  BY <1>3
<1>5. f[k - 1] = g[k - 1]
  BY <1>3, <1>4
<1> QED
  BY <1>3, <1>4, <1>5 DEF Follows

(* Folding the first events, and the next ones into that, folds them all.  *)
LEMMA FoldsOn ==
  ASSUME NEW v, NEW E, NEW s \in Seq(E), NEW a \in Nat, NEW b \in Nat, a <= b, b <= Len(s)
  PROVE  Run!Folded(Run!Folded(v, SubSeq(s, 1, a)), SubSeq(s, a + 1, b)) = Run!Folded(v, SubSeq(s, 1, b))
<1> DEFINE W == Run!Reduced(v, s)
<1>1. W[0] = v /\ \A n \in 1 .. Len(s) : W[n] = Run!reduceInvestigation(W[n - 1], s[n])
  BY ViewsAre
<1> HIDE DEF W
<1>2. ASSUME NEW m \in Nat, m <= Len(s)
      PROVE  Run!Folded(v, SubSeq(s, 1, m)) = W[m]
  <2> DEFINE x == SubSeq(s, 1, m)
             f == Run!Reduced(v, x)
  <2>1. x \in Seq(E) /\ Len(x) = m /\ \A n \in 1 .. m : x[n] = s[n]
    <3>1. /\ x \in Seq(E)
          /\ Len(x) = IF 1 <= m THEN m - 1 + 1 ELSE 0
          /\ \A i \in 1 .. m - 1 + 1 : x[i] = s[1 + i - 1]
      BY <1>2, SubSeqProperties
    <3> HIDE DEF x
    <3> QED
      BY <3>1, <1>2
  <2> HIDE DEF x
  <2>2. f[0] = v /\ \A n \in 1 .. m : f[n] = Run!reduceInvestigation(f[n - 1], x[n])
    BY <2>1, ViewsAre
  <2>3. Run!Folded(v, x) = f[m]
    BY <2>1 DEF Run!Folded
  <2> HIDE DEF f
  <2>4. \A n \in 1 .. m : W[n] = Run!reduceInvestigation(W[n - 1], x[n])
    BY <1>1, <1>2, <2>1
  <2>6. f[0] = W[0]
    BY <1>1, <2>2
  <2>5. f[m] = W[m]
    <3>1. Follows(f, x, m) /\ Follows(W, x, m)
      BY <2>2, <2>4 DEF Follows
    <3> QED
      BY <2>6, <3>1, SameReduced
  <2> QED
    BY <2>3, <2>5 DEF x
<1>3. Run!Folded(W[a], SubSeq(s, a + 1, b)) = W[b]
  <2> DEFINE x == SubSeq(s, a + 1, b)
             m == b - a
             f == Run!Reduced(W[a], x)
             g == [n \in 0 .. m |-> W[a + n]]
  <2>1. m \in Nat /\ x \in Seq(E) /\ Len(x) = m /\ \A n \in 1 .. m : x[n] = s[a + n]
    <3>1. a + 1 \in 1 .. Len(s) + 1 /\ b \in a + 1 - 1 .. Len(s)
      OBVIOUS
    <3>2. /\ x \in Seq(E)
          /\ Len(x) = IF a + 1 <= b THEN b - (a + 1) + 1 ELSE 0
          /\ \A i \in 1 .. b - (a + 1) + 1 : x[i] = s[a + 1 + i - 1]
      BY <3>1, SubSeqProperties
    <3> HIDE DEF x
    <3> QED
      BY <3>2
  <2> HIDE DEF x
  <2>2. f[0] = W[a] /\ \A n \in 1 .. m : f[n] = Run!reduceInvestigation(f[n - 1], x[n])
    BY <2>1, ViewsAre
  <2>3. Run!Folded(W[a], x) = f[m]
    BY <2>1 DEF Run!Folded
  <2> HIDE DEF f
  <2>4. ASSUME NEW n \in 1 .. m
        PROVE  g[n] = Run!reduceInvestigation(g[n - 1], x[n])
    <3>1. a + n \in 1 .. Len(s) /\ n - 1 \in 0 .. m /\ n \in 0 .. m
      BY <2>1
    <3>2. W[a + n] = Run!reduceInvestigation(W[a + n - 1], s[a + n])
      BY <1>1, <3>1
    <3>3. a + (n - 1) = a + n - 1
      OBVIOUS
    <3> QED
      BY <2>1, <3>1, <3>2, <3>3
  <2>5. g[0] = W[a] /\ g[m] = W[b]
    BY <2>1
  <2> HIDE DEF g, m
  <2>7. f[0] = g[0]
    BY <2>2, <2>5
  <2>6. f[m] = g[m]
    <3>1. Follows(f, x, m) /\ Follows(g, x, m)
      BY <2>2, <2>4 DEF Follows
    <3> QED
      BY <2>1, <2>7, <3>1, SameReduced
  <2> QED
    BY <2>3, <2>5, <2>6 DEF x
<1> QED
  BY <1>2, <1>3

(* What has been read is folded, whatever is in the buffer still.          *)
RunInv ==
  /\ status \in BOOLEAN \cup {None} /\ open \in BOOLEAN /\ runs \in 0 .. MaxRuns
  /\ phase \in {"idle", "running", "done", "error", "stopped"}
  /\ \E E : run.sent \in Seq(E)
  /\ run \in [sent : {run.sent}, at : Nat, from : Nat, end : {run.end}, aborted : {run.aborted},
              failed : {run.failed}]
  /\ run.at <= 3 * Len(run.sent) /\ run.from = Run!rest(run.at)
  /\ phase # "running" => run = Run!NoRun
  /\ ~open => phase = "idle" /\ view = Run!emptyView
  /\ Run!EventsOnce

LEMMA RunConstants == MaxRuns \in Nat
BY ViewsAssumption DEF Run!ConstantsOK

LEMMA NoEvents ==
  /\ Run!NoRun.sent \in Seq({})
  /\ Run!NoRun \in [sent : {Run!NoRun.sent}, at : Nat, from : Nat, end : {Run!NoRun.end},
                    aborted : {Run!NoRun.aborted}, failed : {Run!NoRun.failed}]
  /\ Run!NoRun.at <= 3 * Len(Run!NoRun.sent) /\ Run!NoRun.from = Run!rest(Run!NoRun.at)
  /\ Run!Folded(Run!emptyView, SubSeq(Run!NoRun.sent, 1, Run!NoRun.at \div 3)) = Run!emptyView
<1>1. << >> \in Seq({}) /\ Len(<< >>) = 0 /\ SubSeq(<< >>, 1, 0) = << >> /\ 0 \div 3 = 0
  <2>1. << >> \in Seq({}) /\ Len(<< >>) = 0 /\ 0 \div 3 = 0
    OBVIOUS
  <2>2. SubSeq(<< >>, 1, 0) \in Seq({}) /\ Len(SubSeq(<< >>, 1, 0)) = 0
    BY <2>1, SubSeqProperties
  <2> QED
    BY <2>1, <2>2, EmptySeq
<1>2. Run!Folded(Run!emptyView, << >>) = Run!emptyView
  BY <1>1, ViewsAre DEF Run!Folded
<1>3. /\ Run!NoRun.sent = << >> /\ Run!NoRun.at = 0 /\ Run!NoRun.from = 0
      /\ Run!NoRun \in [sent : {<< >>}, at : Nat, from : Nat, end : {Run!NoRun.end},
                    aborted : {Run!NoRun.aborted}, failed : {Run!NoRun.failed}]
  BY DEF Run!NoRun
<1>4. Run!rest(0) = 0
  BY DEF Run!rest
<1>5. Run!NoRun.at <= 3 * Len(Run!NoRun.sent) /\ Run!NoRun.from = Run!rest(Run!NoRun.at)
  BY <1>1, <1>3, <1>4
<1> QED
  BY <1>1, <1>2, <1>3, <1>5

LEMMA RunStart ==
  ASSUME Run!Init
  PROVE  RunInv
<1>1. /\ status = None /\ open = FALSE /\ phase = "idle" /\ view = Run!emptyView
      /\ run = Run!NoRun /\ runs = 0
  BY DEF Run!Init
<1>2. /\ \E E : run.sent \in Seq(E)
      /\ run \in [sent : {run.sent}, at : Nat, from : Nat, end : {run.end}, aborted : {run.aborted},
                  failed : {run.failed}]
      /\ run.at <= 3 * Len(run.sent) /\ run.from = Run!rest(run.at)
  BY <1>1, NoEvents
<1>3. /\ status \in BOOLEAN \cup {None} /\ open \in BOOLEAN /\ runs \in 0 .. MaxRuns
      /\ phase \in {"idle", "running", "done", "error", "stopped"} /\ phase # "running"
  <2>1. status \in BOOLEAN \cup {None} /\ open \in BOOLEAN
    BY <1>1
  <2>2. runs \in 0 .. MaxRuns
    BY <1>1, RunConstants
  <2>3. phase \in {"idle", "running", "done", "error", "stopped"} /\ phase # "running"
    BY <1>1
  <2> QED
    BY <2>1, <2>2, <2>3
<1>4. Run!EventsOnce
  BY <1>3 DEF Run!EventsOnce
<1> QED
  BY <1>1, <1>2, <1>3, <1>4, Zenon DEF RunInv

(* One read of the stream.                                                 *)
LEMMA ReadInv ==
  ASSUME RunInv, Run!runInvestigation
  PROVE  RunInv'
<1>1. PICK upTo \in (run.at + 1)..(3 * Len(run.sent)) :
        /\ view' = Run!Folded(view, Run!parseSSE(run, upTo))
        /\ run' = [run EXCEPT !.at = upTo, !.from = Run!rest(upTo),
                              !.failed = Run!Failed(run, Run!parseSSE(run, upTo))]
  BY DEF Run!runInvestigation
<1>2. /\ phase = "running" /\ UNCHANGED <<status, open, phase, runs>>
  BY DEF Run!runInvestigation
<1>3. PICK E : run.sent \in Seq(E)
  BY DEF RunInv
<1> DEFINE s == run.sent
           a == run.at \div 3
           b == upTo \div 3
           fd == Run!Failed(run, Run!parseSSE(run, upTo))
           fr == Run!rest(upTo)
<1>4. /\ run.at \in Nat /\ run.from = 3 * a /\ a \in Nat /\ Len(s) \in Nat
      /\ upTo \in Nat /\ b \in Nat /\ a <= b /\ b <= Len(s) /\ fr \in Nat
      /\ run.from \div 3 = a /\ upTo <= 3 * Len(s)
  <2>1. run.at \in Nat /\ run.from = 3 * a /\ Len(s) \in Nat
    BY <1>3 DEF RunInv, Run!rest
  <2>2. upTo \in Nat /\ run.at < upTo /\ upTo <= 3 * Len(s)
    BY <2>1
  <2>3. a \in Nat /\ b \in Nat /\ a <= b /\ b <= Len(s) /\ (3 * a) \div 3 = a /\ 3 * b \in Nat
    BY <2>1, <2>2
  <2> QED
    BY <2>1, <2>2, <2>3 DEF Run!rest
<1>5. view = Run!Folded(Run!emptyView, SubSeq(s, 1, a))
  BY <1>2 DEF RunInv, Run!EventsOnce
<1>6. Run!parseSSE(run, upTo) = SubSeq(s, a + 1, b)
  BY <1>4 DEF Run!parseSSE
<1>7. view' = Run!Folded(Run!emptyView, SubSeq(s, 1, b))
  BY <1>1, <1>3, <1>4, <1>5, <1>6, FoldsOn
<1>8. run \in [sent : {s}, at : Nat, from : Nat, end : {run.end}, aborted : {run.aborted}, failed : {run.failed}]
  BY DEF RunInv
<1> HIDE DEF fd, fr, s
<1>9. /\ run' \in [sent : {s}, at : {upTo}, from : {fr}, end : {run.end}, aborted : {run.aborted}, failed : {fd}]
  <2> DEFINE y == [run EXCEPT !.at = upTo, !.from = fr, !.failed = fd]
  <2>1. y \in [sent : {s}, at : {upTo}, from : {fr}, end : {run.end}, aborted : {run.aborted}, failed : {fd}]
    BY <1>8
  <2>2. run' = y
    BY <1>1 DEF fd, fr
  <2> HIDE DEF y
  <2> QED
    BY <2>1, <2>2
<1>10. run'.sent = s /\ run'.at = upTo /\ run'.from = fr
  BY <1>9
<1>11. run' \in [sent : {run'.sent}, at : Nat, from : Nat, end : {run'.end}, aborted : {run'.aborted},
              failed : {run'.failed}]
  BY <1>4, <1>9
<1>12. /\ \E D : run'.sent \in Seq(D)
       /\ run'.at <= 3 * Len(run'.sent) /\ run'.from = Run!rest(run'.at)
       /\ view' = Run!Folded(Run!emptyView, SubSeq(run'.sent, 1, run'.at \div 3))
  BY <1>3, <1>4, <1>7, <1>10 DEF s, fr
<1> QED
  BY <1>2, <1>11, <1>12 DEF RunInv, Run!EventsOnce

(* What the backend and the connection do: nothing that has been read.     *)
LEMMA SentInv ==
  ASSUME RunInv, phase = "running",
         status' = status /\ open' = open /\ phase' = phase /\ view' = view /\ runs' = runs,
         NEW s, NEW how, NEW ab, run' = [run EXCEPT !.sent = s, !.end = how, !.aborted = ab],
         \E E : s \in Seq(E), Len(run.sent) <= Len(s),
         SubSeq(s, 1, run.at \div 3) = SubSeq(run.sent, 1, run.at \div 3)
  PROVE  RunInv'
<1>1. run \in [sent : {run.sent}, at : Nat, from : Nat, end : {run.end}, aborted : {run.aborted},
              failed : {run.failed}]
  BY DEF RunInv
<1>2. run' \in [sent : {s}, at : {run.at}, from : {run.from}, end : {how}, aborted : {ab}, failed : {run.failed}]
  <2> DEFINE y == [run EXCEPT !.sent = s, !.end = how, !.aborted = ab]
  <2>1. y \in [sent : {s}, at : {run.at}, from : {run.from}, end : {how}, aborted : {ab}, failed : {run.failed}]
    BY <1>1
  <2> HIDE DEF y
  <2> QED
    BY <2>1 DEF y
<1>3. run'.sent = s /\ run'.at = run.at /\ run'.from = run.from
  BY <1>2
<1>4. run' \in [sent : {run'.sent}, at : Nat, from : Nat, end : {run'.end}, aborted : {run'.aborted},
              failed : {run'.failed}]
  BY <1>1, <1>2
<1>5. Len(s) \in Nat /\ Len(run.sent) \in Nat /\ run.at \in Nat /\ run.at <= 3 * Len(run.sent)
  <2>1. PICK D : s \in Seq(D)
    OBVIOUS
  <2>2. PICK E : run.sent \in Seq(E)
    BY DEF RunInv
  <2> QED
    BY <1>1, <2>1, <2>2 DEF RunInv
<1>6. /\ \E D : run'.sent \in Seq(D)
      /\ run'.at <= 3 * Len(run'.sent) /\ run'.from = Run!rest(run'.at)
  BY <1>3, <1>5 DEF RunInv
<1>7. view' = Run!Folded(Run!emptyView, SubSeq(run'.sent, 1, run'.at \div 3))
  BY <1>3 DEF RunInv, Run!EventsOnce
<1> QED
  BY <1>4, <1>6, <1>7 DEF RunInv, Run!EventsOnce

(* A run that is over leaves nothing of its stream.                        *)
LEMMA OverInv ==
  ASSUME RunInv, run' = Run!NoRun, open' \in BOOLEAN, status' = status,
         ~open' => phase' = "idle" /\ view' = Run!emptyView, runs' \in 0 .. MaxRuns,
         phase' \in {"idle", "running", "done", "error", "stopped"},
         phase' = "running" => view' = Run!emptyView
  PROVE  RunInv'
<1>1. Run!Folded(Run!emptyView, SubSeq(run'.sent, 1, run'.at \div 3)) = Run!emptyView
  BY NoEvents
<1>2. /\ \E D : run'.sent \in Seq(D)
      /\ run' \in [sent : {run'.sent}, at : Nat, from : Nat, end : {run'.end}, aborted : {run'.aborted},
              failed : {run'.failed}]
      /\ run'.at <= 3 * Len(run'.sent) /\ run'.from = Run!rest(run'.at)
  BY NoEvents
<1> QED
  BY <1>1, <1>2 DEF RunInv, Run!EventsOnce

(* A part that changes alone leaves the others as they are.                *)
LEMMA RunParts ==
  ASSUME RunInv
  PROVE  /\ \E E : run.sent \in Seq(E)
         /\ Len(run.sent) \in Nat
         /\ \A ab : [run EXCEPT !.aborted = ab]
                      = [run EXCEPT !.sent = run.sent, !.end = run.end, !.aborted = ab]
         /\ \A how : [run EXCEPT !.end = how]
                       = [run EXCEPT !.sent = run.sent, !.end = how, !.aborted = run.aborted]
         /\ \A q : [run EXCEPT !.sent = q]
                     = [run EXCEPT !.sent = q, !.end = run.end, !.aborted = run.aborted]
<1>1. run \in [sent : {run.sent}, at : {run.at}, from : {run.from}, end : {run.end}, aborted : {run.aborted},
              failed : {run.failed}]
  BY DEF RunInv
<1>2. ASSUME NEW q, NEW how, NEW ab
      PROVE  [run EXCEPT !.sent = q, !.end = how, !.aborted = ab]
               = [sent |-> q, at |-> run.at, from |-> run.from, end |-> how, aborted |-> ab, failed |-> run.failed]
  <2> DEFINE y == [run EXCEPT !.sent = q, !.end = how, !.aborted = ab]
  <2>1. y \in [sent : {q}, at : {run.at}, from : {run.from}, end : {how}, aborted : {ab}, failed : {run.failed}]
    BY <1>1
  <2> HIDE DEF y
  <2>2. y = [sent |-> q, at |-> run.at, from |-> run.from, end |-> how, aborted |-> ab, failed |-> run.failed]
    BY <2>1
  <2> QED
    BY <2>2 DEF y
<1>3. ASSUME NEW q, NEW how, NEW ab
      PROVE  /\ [run EXCEPT !.sent = q]
                  = [sent |-> q, at |-> run.at, from |-> run.from, end |-> run.end, aborted |-> run.aborted,
                     failed |-> run.failed]
             /\ [run EXCEPT !.end = how]
                  = [sent |-> run.sent, at |-> run.at, from |-> run.from, end |-> how, aborted |-> run.aborted,
                     failed |-> run.failed]
             /\ [run EXCEPT !.aborted = ab]
                  = [sent |-> run.sent, at |-> run.at, from |-> run.from, end |-> run.end, aborted |-> ab,
                     failed |-> run.failed]
  BY <1>1
<1>4. (\E E : run.sent \in Seq(E)) /\ Len(run.sent) \in Nat
  BY DEF RunInv
<1> QED
  BY <1>2, <1>3, <1>4

LEMMA RunStep ==
  ASSUME RunInv, [Run!Next]_runVars
  PROVE  RunInv'
<1>1. CASE UNCHANGED runVars
  BY <1>1 DEF RunInv, runVars, Run!EventsOnce
<1>2. CASE Run!InvestigateButton
  BY <1>2 DEF RunInv, Run!InvestigateButton, Run!EventsOnce
<1>3. CASE Run!start
  <2>1. /\ open /\ runs < MaxRuns /\ runs \in 0 .. MaxRuns
        /\ view' = Run!emptyView /\ phase' = "running" /\ run' = Run!NoRun /\ runs' = runs + 1
        /\ UNCHANGED <<status, open>> /\ open \in BOOLEAN
    BY <1>3 DEF Run!start, Run!InvestigateDrawer, RunInv, Run!FreshView
  <2>2. runs' \in 0 .. MaxRuns
    BY <2>1, RunConstants
  <2> QED
    BY <2>1, <2>2, OverInv
<1>0. /\ \E E : run.sent \in Seq(E)
      /\ Len(run.sent) \in Nat
      /\ \A ab : [run EXCEPT !.aborted = ab]
                   = [run EXCEPT !.sent = run.sent, !.end = run.end, !.aborted = ab]
      /\ \A how : [run EXCEPT !.end = how]
                    = [run EXCEPT !.sent = run.sent, !.end = how, !.aborted = run.aborted]
      /\ \A q : [run EXCEPT !.sent = q]
                  = [run EXCEPT !.sent = q, !.end = run.end, !.aborted = run.aborted]
  BY RunParts
<1>14. (\E E : run.sent \in Seq(E)) /\ Len(run.sent) <= Len(run.sent)
  BY DEF RunInv
<1>4. CASE Run!stop
  <2>1. /\ phase = "running" /\ run' = [run EXCEPT !.aborted = TRUE]
        /\ status' = status /\ open' = open /\ phase' = phase /\ view' = view /\ runs' = runs
    BY <1>4 DEF Run!stop, Run!InvestigateDrawer
  <2>2. run' = [run EXCEPT !.sent = run.sent, !.end = run.end, !.aborted = TRUE]
    BY <1>0, <2>1
  <2> DEFINE q == run.sent
  <2>4. /\ (\E E : q \in Seq(E)) /\ Len(run.sent) <= Len(q)
        /\ SubSeq(q, 1, run.at \div 3) = SubSeq(run.sent, 1, run.at \div 3)
    BY <1>14
  <2>5. run' = [run EXCEPT !.sent = q, !.end = run.end, !.aborted = TRUE]
    BY <2>2
  <2> HIDE DEF q
  <2> QED
    BY <2>1, <2>4, <2>5, SentInv, Zenon
<1>5. CASE Run!NewInvestigation
  <2>1. phase' = "idle" /\ UNCHANGED <<status, open, view, run, runs>> /\ open /\ phase # "running"
    BY <1>5 DEF Run!NewInvestigation, Run!InvestigateDrawer
  <2> QED
    BY <2>1 DEF RunInv, Run!EventsOnce
<1>6. CASE Run!onClose
  BY <1>6, OverInv DEF Run!onClose, Run!InvestigateDrawer, RunInv
<1>7. CASE Run!Sends
  <2>1. /\ phase = "running" /\ \E e : run' = [run EXCEPT !.sent = Append(run.sent, e)]
        /\ UNCHANGED <<status, open, phase, view, runs>>
    BY <1>7 DEF Run!Sends
  <2>2. PICK e : run' = [run EXCEPT !.sent = Append(run.sent, e)]
    BY <2>1
  <2> DEFINE q == Append(run.sent, e)
  <2>3. PICK E : run.sent \in Seq(E)
    BY <1>0, <2>1
  <2> DEFINE D == E \cup {e}
  <2>4. run.sent \in Seq(D) /\ q \in Seq(D) /\ Len(q) = Len(run.sent) + 1
    <3>1. E \subseteq D /\ e \in D
      OBVIOUS
    <3> HIDE DEF D
    <3>2. run.sent \in Seq(D)
      BY <2>3, <3>1
    <3> QED
      BY <3>1, <3>2
  <2>5. SubSeq(q, 1, run.at \div 3) = SubSeq(run.sent, 1, run.at \div 3)
    <3> DEFINE m == run.at \div 3
               s == run.sent
    <3>1. m \in Nat /\ Len(s) \in Nat /\ m <= Len(s)
      BY <2>3 DEF RunInv
    <3>2. \A i \in 1 .. Len(s) : q[i] = s[i]
      BY <2>4
    <3> HIDE DEF q, D, m, s
    <3>3. /\ SubSeq(q, 1, m) \in Seq(D) /\ SubSeq(s, 1, m) \in Seq(D)
          /\ Len(SubSeq(q, 1, m)) = m /\ Len(SubSeq(s, 1, m)) = m
          /\ \A i \in 1 .. m : SubSeq(q, 1, m)[i] = q[i]
          /\ \A i \in 1 .. m : SubSeq(s, 1, m)[i] = s[i]
      <4>1. 1 \in 1 .. Len(s) + 1 /\ m \in 1 - 1 .. Len(s) /\ 1 \in 1 .. Len(q) + 1 /\ m \in 1 - 1 .. Len(q)
        BY <2>4, <3>1 DEF s
      <4>2. /\ SubSeq(q, 1, m) \in Seq(D)
            /\ Len(SubSeq(q, 1, m)) = IF 1 <= m THEN m - 1 + 1 ELSE 0
            /\ \A i \in 1 .. m - 1 + 1 : SubSeq(q, 1, m)[i] = q[1 + i - 1]
        BY <2>4, <4>1, SubSeqProperties
      <4>3. /\ SubSeq(s, 1, m) \in Seq(D)
            /\ Len(SubSeq(s, 1, m)) = IF 1 <= m THEN m - 1 + 1 ELSE 0
            /\ \A i \in 1 .. m - 1 + 1 : SubSeq(s, 1, m)[i] = s[1 + i - 1]
        BY <2>4, <4>1, SubSeqProperties DEF s
      <4> QED
        BY <3>1, <4>2, <4>3
    <3>4. \A i \in 1 .. m : SubSeq(q, 1, m)[i] = SubSeq(s, 1, m)[i]
      BY <3>1, <3>2, <3>3
    <3>5. SubSeq(q, 1, m) = SubSeq(s, 1, m)
      BY <3>3, <3>4, SeqEqual
    <3> QED
      BY <3>5 DEF m, s
  <2> HIDE DEF q, D
  <2>6. run' = [run EXCEPT !.sent = q, !.end = run.end, !.aborted = run.aborted]
    BY <1>0, <2>2 DEF q
  <2>7. (\E F : q \in Seq(F)) /\ Len(run.sent) <= Len(q)
    BY <2>3, <2>4
  <2> QED
    BY <2>1, <2>5, <2>6, <2>7, SentInv
<1>8. CASE Run!Ends
  <2>1. /\ phase = "running" /\ \E how : run' = [run EXCEPT !.end = how]
        /\ status' = status /\ open' = open /\ phase' = phase /\ view' = view /\ runs' = runs
    BY <1>8 DEF Run!Ends
  <2>2. PICK how : run' = [run EXCEPT !.end = how]
    BY <2>1
  <2>3. run' = [run EXCEPT !.sent = run.sent, !.end = how, !.aborted = run.aborted]
    BY <1>0, <2>2
  <2> DEFINE q == run.sent
  <2>4. /\ (\E E : q \in Seq(E)) /\ Len(run.sent) <= Len(q)
        /\ SubSeq(q, 1, run.at \div 3) = SubSeq(run.sent, 1, run.at \div 3)
    BY <1>14
  <2>5. run' = [run EXCEPT !.sent = q, !.end = how, !.aborted = run.aborted]
    BY <2>3
  <2> HIDE DEF q
  <2> QED
    BY <2>1, <2>4, <2>5, SentInv, Zenon
<1>9. CASE Run!getInvestigateStatus
  BY <1>9 DEF RunInv, Run!getInvestigateStatus, Run!EventsOnce
<1>10. CASE Run!runInvestigation
  BY <1>10, ReadInv
<1>11. CASE Run!Settles
  <2>1. /\ phase = "running" /\ phase' \in {"done", "error", "stopped"} /\ run' = Run!NoRun
        /\ UNCHANGED <<status, open, runs>>
    BY <1>11 DEF Run!Settles
  <2>2. open \in BOOLEAN /\ open /\ runs \in 0 .. MaxRuns
    BY <2>1 DEF RunInv
  <2> QED
    BY <2>1, <2>2, OverInv
<1>12. CASE Run!Breaks
  <2>1. /\ phase = "running" /\ phase' \in {"done", "error", "stopped"} /\ run' = Run!NoRun
        /\ UNCHANGED <<status, open, runs>>
    BY <1>12 DEF Run!Breaks, Run!AfterAbort
  <2>2. open \in BOOLEAN /\ open /\ runs \in 0 .. MaxRuns
    BY <2>1 DEF RunInv
  <2> QED
    BY <2>1, <2>2, OverInv
<1>13. CASE Run!Aborted
  <2>1. /\ phase = "running" /\ phase' \in {"done", "error", "stopped"} /\ run' = Run!NoRun
        /\ UNCHANGED <<status, open, runs>>
    BY <1>13 DEF Run!Aborted, Run!AfterAbort
  <2>2. open \in BOOLEAN /\ open /\ runs \in 0 .. MaxRuns
    BY <2>1 DEF RunInv
  <2> QED
    BY <2>1, <2>2, OverInv
<1> QED
  BY <1>1, <1>2, <1>3, <1>4, <1>5, <1>6, <1>7, <1>8, <1>9, <1>10, <1>11, <1>12, <1>13
     DEF Run!Next, Run!Network

LEMMA RunTyped ==
  ASSUME RunInv
  PROVE  Run!InvestigationTypeOK
<1>1. run.at \in Nat /\ run.from = 3 * (run.at \div 3)
  BY DEF RunInv, Run!rest
<1>2. run.from <= run.at /\ run.from % 3 = 0 /\ run.at - run.from <= 2
  BY <1>1
<1> QED
  BY <1>2 DEF RunInv, Run!InvestigationTypeOK

-----------------------------------------------------------------------------
(* The service map (ServiceMap).                                           *)

(* A request of the map: skipped or not, of data in D.                     *)
MapRequest(f, D) ==
  f \in [deps : Map!Asks, skip : BOOLEAN, data : D \cup {None}, loading : BOOLEAN, stale : BOOLEAN,
         error : BOOLEAN, call : Map!Asks \cup {None}]

(* One that is not skipped is loading, has failed, or has found something. *)
MapRead(f) == f.skip = FALSE /\ (f.loading \/ f.error \/ f.data # None)

MapUrls == [view : {None, "namespaces", "services"}, env : MapEnvs \cup {None}, tick : Nat]

(* The graph g of a page with these requests.                              *)
GraphIs(g, u, c, f) ==
  /\ g \in Map!Graphs \cup {None}
  /\ g # None <=> Map!Shows(u, c, f) = "graph"
  /\ g # None => g.input = Map!toGraphData(u, c, f)

MapInv ==
  /\ mUrl \in MapUrls
  /\ MapRequest(clustered, Map!Found("namespaces")) /\ MapRead(clustered)
  /\ MapRequest(full, Map!Found("services"))
  /\ full.skip <=> Map!view(mUrl, clustered) # "services"
  /\ GraphIs(graph, mUrl, clustered, full)
  /\ mMoves \in 0 .. MapMoves

LEMMA MapConstants ==
  /\ None \notin Map!Graphs /\ None \notin Map!Found("namespaces") /\ None \notin Map!Found("services")
  /\ NodeCounts \subseteq Nat /\ Many \in Nat /\ MaxLayoutNodes \in Nat /\ MapMoves \in Nat
BY ViewsAssumption DEF Map!ConstantsOK

LEMMA MapRequestRendered ==
  ASSUME NEW e \in Map!Asks, NEW skip \in BOOLEAN, NEW D, NEW f, MapRequest(f, D)
  PROVE  LET g == Map!F!Rendered(f, e, skip)
         IN MapRequest(g, D) /\ (g.skip <=> skip) /\ (MapRead(f) /\ ~skip => MapRead(g))
<1> DEFINE l == f.data = None
           s == f.data # None
<1>1. l \in BOOLEAN /\ s \in BOOLEAN /\ (l \/ s) /\ (l <=> f.data = None)
  OBVIOUS
<1>2. Map!F!Rendered(f, e, skip) =
        IF f.deps = e /\ f.skip = skip THEN f
        ELSE IF skip THEN [f EXCEPT !.deps = e, !.skip = TRUE, !.loading = FALSE, !.call = None]
        ELSE [f EXCEPT !.deps = e, !.skip = FALSE, !.loading = l, !.stale = s, !.error = FALSE, !.call = e]
  BY DEF Map!F!Rendered, Map!F!Asked, Map!F!Skipped
<1> HIDE DEF l, s
<1>3. CASE f.deps = e /\ f.skip = skip
  BY <1>2, <1>3 DEF MapRequest, MapRead
<1>4. CASE ~(f.deps = e /\ f.skip = skip) /\ skip
  BY <1>2, <1>4 DEF MapRequest, MapRead
<1>5. CASE ~(f.deps = e /\ f.skip = skip) /\ ~skip
  BY <1>1, <1>2, <1>5 DEF MapRequest, MapRead
<1> QED
  BY <1>3, <1>4, <1>5

LEMMA MapRequestRefetched ==
  ASSUME NEW D, NEW f, MapRequest(f, D)
  PROVE  LET g == Map!F!refetch(f)
         IN MapRequest(g, D) /\ g.skip = f.skip /\ (MapRead(f) => MapRead(g))
<1> DEFINE l == f.data = None
           s == f.data # None
           e == f.deps
<1>1. l \in BOOLEAN /\ s \in BOOLEAN /\ (l \/ s) /\ (l <=> f.data = None) /\ e \in Map!Asks
  BY DEF MapRequest
<1>2. Map!F!refetch(f) =
        IF f.skip THEN f
        ELSE [f EXCEPT !.deps = e, !.skip = FALSE, !.loading = l, !.stale = s, !.error = FALSE, !.call = e]
  BY DEF Map!F!refetch, Map!F!Asked
<1> HIDE DEF l, s, e
<1>3. CASE f.skip
  BY <1>2, <1>3 DEF MapRequest, MapRead
<1>4. CASE ~f.skip
  BY <1>1, <1>2, <1>4 DEF MapRequest, MapRead
<1> QED
  BY <1>3, <1>4

LEMMA MapRequestAnswered ==
  ASSUME NEW D, None \notin D, NEW f, MapRequest(f, D), NEW x \in D
  PROVE  /\ MapRequest(Map!F!Answered(f, x), D) /\ Map!F!Answered(f, x).skip = f.skip
         /\ MapRead(f) => MapRead(Map!F!Answered(f, x))
BY DEF MapRequest, MapRead, Map!F!Answered

LEMMA MapRequestRejected ==
  ASSUME NEW D, NEW f, MapRequest(f, D)
  PROVE  /\ MapRequest(Map!F!Rejected(f), D) /\ Map!F!Rejected(f).skip = f.skip
         /\ MapRead(f) => MapRead(Map!F!Rejected(f))
BY DEF MapRequest, MapRead, Map!F!Rejected

LEMMA LaidOutAnew ==
  ASSUME NEW g, g \in Map!Graphs \/ g = Map!NoLayout, NEW x \in Map!Inputs
  PROVE  Map!runLayout(g, x) \in Map!Graphs /\ Map!runLayout(g, x).input = x
<1>1. /\ g \in [input : Map!Inputs \cup {None}, laid : Map!Inputs \cup {None}, loading : BOOLEAN,
                elk : Seq(Map!Inputs)]
  <2>1. << >> \in Seq(Map!Inputs)
    OBVIOUS
  <2>2. CASE g = Map!NoLayout
    BY <2>1, <2>2 DEF Map!NoLayout
  <2>3. CASE g \in Map!Graphs
    BY <2>3 DEF Map!Graphs
  <2> QED
    BY <2>2, <2>3
<1> DEFINE q == Append(g.elk, x)
<1>2. q \in Seq(Map!Inputs)
  BY <1>1
<1>3. Map!runLayout(g, x) =
        IF x.nodes > MaxLayoutNodes THEN [g EXCEPT !.input = x, !.laid = x, !.loading = FALSE]
        ELSE [g EXCEPT !.input = x, !.loading = TRUE, !.elk = q]
  BY DEF Map!runLayout
<1> HIDE DEF q
<1>4. ASSUME NEW l \in BOOLEAN
      PROVE  /\ [g EXCEPT !.input = x, !.laid = x, !.loading = l] \in Map!Graphs
             /\ [g EXCEPT !.input = x, !.laid = x, !.loading = l].input = x
             /\ [g EXCEPT !.input = x, !.loading = l, !.elk = q] \in Map!Graphs
             /\ [g EXCEPT !.input = x, !.loading = l, !.elk = q].input = x
  <2> DEFINE y == [g EXCEPT !.input = x, !.laid = x, !.loading = l]
             z == [g EXCEPT !.input = x, !.loading = l, !.elk = q]
  <2>1. y \in [input : {x}, laid : Map!Inputs \cup {None}, loading : BOOLEAN, elk : Seq(Map!Inputs)]
    BY <1>1
  <2>2. z \in [input : {x}, laid : Map!Inputs \cup {None}, loading : BOOLEAN, elk : Seq(Map!Inputs)]
    BY <1>1, <1>2
  <2> HIDE DEF y, z
  <2>3. y \in Map!Graphs /\ y.input = x /\ z \in Map!Graphs /\ z.input = x
    BY <2>1, <2>2 DEF Map!Graphs
  <2> QED
    BY <2>3 DEF y, z
<1>5. [g EXCEPT !.input = x, !.laid = x, !.loading = FALSE] \in Map!Graphs
      /\ [g EXCEPT !.input = x, !.laid = x, !.loading = FALSE].input = x
  BY <1>4
<1>6. [g EXCEPT !.input = x, !.loading = TRUE, !.elk = q] \in Map!Graphs
      /\ [g EXCEPT !.input = x, !.loading = TRUE, !.elk = q].input = x
  BY <1>4
<1>7. CASE x.nodes > MaxLayoutNodes
  BY <1>3, <1>5, <1>7
<1>8. CASE ~(x.nodes > MaxLayoutNodes)
  BY <1>3, <1>6, <1>8
<1> QED
  BY <1>7, <1>8

(* What is drawn is an answer of the view.                                 *)
LEMMA DrawnInput ==
  ASSUME NEW u, NEW c, NEW f, MapRequest(c, Map!Found("namespaces")), MapRequest(f, Map!Found("services")),
         Map!Shows(u, c, f) = "graph"
  PROVE  /\ Map!toGraphData(u, c, f) \in Map!Inputs
         /\ Map!toGraphData(u, c, f).from = Map!activeData(u, c, f) /\ Map!activeData(u, c, f) # None
         /\ ~c.error /\ ~c.loading
<1> DEFINE a == Map!activeData(u, c, f)
<1>1. a \in Map!Found("namespaces") \cup Map!Found("services") \cup {None}
  BY DEF Map!activeData, MapRequest
<1>2. Map!toGraphData(u, c, f) = IF a = None THEN [from |-> None, nodes |-> 0] ELSE [from |-> a, nodes |-> a.nodes]
  BY DEF Map!toGraphData
<1>3. Map!toGraphData(u, c, f).nodes # 0 /\ ~c.error /\ ~Map!loading(u, c, f)
  BY DEF Map!Shows
<1>4. ~c.loading
  BY <1>3 DEF Map!loading
<1> HIDE DEF a
<1>5. a # None
  BY <1>2, <1>3
<1>6. a.nodes \in NodeCounts
  BY <1>1, <1>5 DEF Map!Found
<1>7. Map!toGraphData(u, c, f) = [from |-> a, nodes |-> a.nodes]
  BY <1>2, <1>5
<1>8. [from |-> a, nodes |-> a.nodes] \in Map!Inputs
  BY <1>1, <1>5, <1>6 DEF Map!Inputs
<1> QED
  BY <1>3, <1>4, <1>5, <1>7, <1>8 DEF a

LEMMA GraphMade ==
  ASSUME NEW g \in Map!Graphs \cup {None}, NEW u, NEW c, NEW f,
         MapRequest(c, Map!Found("namespaces")), MapRequest(f, Map!Found("services"))
  PROVE  GraphIs(Map!ServiceGraph(g, u, c, f), u, c, f)
<1> DEFINE x == Map!toGraphData(u, c, f)
<1>1. CASE Map!Shows(u, c, f) # "graph"
  BY <1>1 DEF Map!ServiceGraph, GraphIs
<1>2. CASE Map!Shows(u, c, f) = "graph"
  <2>1. x \in Map!Inputs
    BY <1>2, DrawnInput
  <2>2. Map!ServiceGraph(g, u, c, f) =
          IF g = None THEN Map!runLayout(Map!NoLayout, x)
          ELSE IF x = g.input THEN g ELSE Map!runLayout(g, x)
    BY <1>2 DEF Map!ServiceGraph
  <2>3. Map!ServiceGraph(g, u, c, f) \in Map!Graphs /\ Map!ServiceGraph(g, u, c, f).input = x
    BY <2>1, <2>2, LaidOutAnew
  <2> QED
    BY <1>2, <2>3, MapConstants DEF GraphIs
<1> QED
  BY <1>1, <1>2

(* A render of the page, with whatever its requests have become.           *)
LEMMA MapRenders ==
  ASSUME MapInv, NEW u \in MapUrls, NEW c, MapRequest(c, Map!Found("namespaces")), MapRead(c),
         NEW f, MapRequest(f, Map!Found("services")), Map!Renders(u, c, f),
         mMoves' \in 0 .. MapMoves
  PROVE  MapInv'
<1> DEFINE e == <<u.tick, u.env>>
           skip == Map!view(u, c) # "services"
<1>1. /\ mUrl' = u /\ clustered' = c /\ full' = Map!F!Rendered(f, e, skip)
      /\ graph' = Map!ServiceGraph(graph, u, c, full')
  BY DEF Map!Renders, Map!FullRendered
<1>2. e \in Map!Asks /\ skip \in BOOLEAN
  BY DEF MapUrls, Map!Asks
<1> HIDE DEF e
<1>3. MapRequest(full', Map!Found("services")) /\ (full'.skip <=> skip)
  BY <1>1, <1>2, MapRequestRendered
<1>4. graph \in Map!Graphs \cup {None}
  BY DEF MapInv, GraphIs
<1>5. GraphIs(graph', u, c, full')
  BY <1>1, <1>3, <1>4, GraphMade
<1> QED
  BY <1>1, <1>3, <1>5 DEF MapInv

LEMMA MapStart == ASSUME Map!Init PROVE MapInv
<1>1. mUrl \in MapUrls /\ 0 \in 0 .. MapMoves
  BY MapConstants DEF Map!Init, MapUrls
<1> DEFINE d == <<0, None>>
           skip == Map!view(mUrl, clustered) # "services"
<1>2. d \in Map!Asks /\ skip \in BOOLEAN
  BY DEF Map!Asks
<1>3. clustered = Map!F!Mounted(d, FALSE) /\ full = Map!F!Mounted(d, skip) /\ graph = None /\ mMoves = 0
  BY DEF Map!Init
<1> HIDE DEF d, skip
<1>4. /\ MapRequest(clustered, Map!Found("namespaces")) /\ MapRead(clustered)
      /\ clustered.loading /\ ~clustered.error
  BY <1>2, <1>3 DEF Map!F!Mounted, MapRequest, MapRead
<1>5. MapRequest(full, Map!Found("services")) /\ (full.skip <=> skip)
  BY <1>2, <1>3 DEF Map!F!Mounted, MapRequest
<1>6. Map!Shows(mUrl, clustered, full) # "graph"
  BY <1>4 DEF Map!Shows, Map!loading
<1> QED
  BY <1>1, <1>3, <1>4, <1>5, <1>6 DEF MapInv, GraphIs, skip

LEMMA FullSettles ==
  ASSUME MapInv, MapRequest(full', Map!Found("services")), full'.skip = full.skip,
         graph' = Map!ServiceGraph(graph, mUrl, clustered, full'),
         UNCHANGED <<mUrl, clustered, mMoves>>
  PROVE  MapInv'
<1>1. graph \in Map!Graphs \cup {None}
  BY DEF MapInv, GraphIs
<1>2. GraphIs(graph', mUrl, clustered, full')
  BY <1>1, GraphMade DEF MapInv
<1> QED
  BY <1>2 DEF MapInv

LEMMA MapStep == ASSUME MapInv, [Map!Next]_mapVars PROVE MapInv'
<1> USE MapConstants
<1>m. Map!Move => mMoves' \in 0 .. MapMoves
  BY DEF Map!Move, MapInv
<1>n. mMoves \in 0 .. MapMoves
  BY DEF MapInv
<1>0. /\ mUrl \in MapUrls /\ MapRequest(clustered, Map!Found("namespaces")) /\ MapRead(clustered)
      /\ MapRequest(full, Map!Found("services"))
  BY DEF MapInv
<1>1. CASE Map!setView
  <2>1. PICK v \in {"namespaces", "services"} : Map!Renders([mUrl EXCEPT !.view = v], clustered, full)
    BY <1>1 DEF Map!setView
  <2>2. [mUrl EXCEPT !.view = v] \in MapUrls
    BY <1>0 DEF MapUrls
  <2> QED
    BY <1>0, <1>1, <1>m, <2>1, <2>2, MapRenders DEF Map!setView
<1>2. CASE Map!setEnvFilter
  <2>1. PICK e \in MapEnvs \cup {None} :
          Map!Renders([mUrl EXCEPT !.env = e], Map!F!Rendered(clustered, <<mUrl.tick, e>>, FALSE), full)
    BY <1>2 DEF Map!setEnvFilter
  <2>2. [mUrl EXCEPT !.env = e] \in MapUrls /\ <<mUrl.tick, e>> \in Map!Asks
    BY <1>0 DEF MapUrls, Map!Asks
  <2> DEFINE c == Map!F!Rendered(clustered, <<mUrl.tick, e>>, FALSE)
  <2>3. MapRequest(c, Map!Found("namespaces")) /\ MapRead(c)
    BY <1>0, <2>2, MapRequestRendered
  <2> HIDE DEF c
  <2>4. Map!Renders([mUrl EXCEPT !.env = e], c, full)
    BY <2>1 DEF c
  <2> QED
    BY <1>0, <1>2, <1>m, <2>2, <2>3, <2>4, MapRenders DEF Map!setEnvFilter
<1>3. CASE Map!handleRefresh
  <2>1. ASSUME NEW t, t = mUrl.tick + 1,
               Map!Renders([mUrl EXCEPT !.tick = t], Map!F!Rendered(clustered, <<t, mUrl.env>>, FALSE), full)
        PROVE  MapInv'
    <3>1. [mUrl EXCEPT !.tick = t] \in MapUrls /\ <<t, mUrl.env>> \in Map!Asks
      BY <1>0, <2>1 DEF MapUrls, Map!Asks
    <3> DEFINE c == Map!F!Rendered(clustered, <<t, mUrl.env>>, FALSE)
    <3>2. MapRequest(c, Map!Found("namespaces")) /\ MapRead(c)
      BY <1>0, <3>1, MapRequestRendered
    <3> HIDE DEF c
    <3>3. Map!Renders([mUrl EXCEPT !.tick = t], c, full)
      BY <2>1 DEF c
    <3> QED
      BY <1>0, <1>3, <1>m, <3>1, <3>2, <3>3, MapRenders DEF Map!handleRefresh
  <2>2. ASSUME Map!Renders(mUrl, Map!F!refetch(clustered), Map!F!refetch(full))
        PROVE  MapInv'
    <3> DEFINE c == Map!F!refetch(clustered)
               f == Map!F!refetch(full)
    <3>1. MapRequest(c, Map!Found("namespaces")) /\ MapRead(c) /\ MapRequest(f, Map!Found("services"))
      BY <1>0, MapRequestRefetched
    <3>2. Map!Renders(mUrl, c, f)
      BY <2>2
    <3> HIDE DEF c, f
    <3> QED
      BY <1>0, <1>3, <1>m, <3>1, <3>2, MapRenders DEF Map!handleRefresh
  <2> QED
    BY <1>3, <2>1, <2>2 DEF Map!handleRefresh
<1>4. ASSUME NEW call \in Map!Asks, NEW kind \in {"namespaces", "services"}, NEW d \in Map!Answers(call, kind)
      PROVE  d \in Map!Found(kind)
  BY DEF Map!Answers, Map!Found
<1>5. CASE Map!ClusteredArrives
  <2>1. clustered.call \in Map!Asks /\ mMoves' = mMoves
    BY <1>0, <1>5 DEF Map!ClusteredArrives, MapRequest
  <2>2. PICK d \in Map!Answers(clustered.call, "namespaces") :
          Map!Renders(mUrl, Map!F!Answered(clustered, d), full)
    BY <1>5 DEF Map!ClusteredArrives
  <2>3. d \in Map!Found("namespaces")
    BY <1>4, <2>1, <2>2
  <2> DEFINE c == Map!F!Answered(clustered, d)
  <2>4. MapRequest(c, Map!Found("namespaces")) /\ MapRead(c)
    BY <1>0, <2>3, MapRequestAnswered
  <2>5. Map!Renders(mUrl, c, full)
    BY <2>2
  <2> HIDE DEF c
  <2> QED
    BY <1>0, <1>n, <2>1, <2>4, <2>5, MapRenders
<1>6. CASE Map!ClusteredFails
  <2>1. mMoves' = mMoves
    BY <1>6 DEF Map!ClusteredFails
  <2> DEFINE c == Map!F!Rejected(clustered)
  <2>2. Map!Renders(mUrl, c, full)
    BY <1>6 DEF Map!ClusteredFails
  <2>3. MapRequest(c, Map!Found("namespaces")) /\ MapRead(c)
    BY <1>0, MapRequestRejected
  <2> HIDE DEF c
  <2> QED
    BY <1>0, <1>n, <2>1, <2>2, <2>3, MapRenders
<1>7. CASE Map!FullArrives
  <2>1. full.call \in Map!Asks
    BY <1>0, <1>7 DEF Map!FullArrives, MapRequest
  <2>2. PICK d \in Map!Answers(full.call, "services") : full' = Map!F!Answered(full, d)
    BY <1>7 DEF Map!FullArrives
  <2>3. d \in Map!Found("services")
    BY <1>4, <2>1, <2>2
  <2>4. MapRequest(full', Map!Found("services")) /\ full'.skip = full.skip
    BY <1>0, <2>2, <2>3, MapRequestAnswered
  <2> QED
    BY <1>7, <2>4, FullSettles DEF Map!FullArrives
<1>8. CASE Map!FullFails
  <2>1. MapRequest(full', Map!Found("services")) /\ full'.skip = full.skip
    BY <1>0, <1>8, MapRequestRejected DEF Map!FullFails
  <2> QED
    BY <1>8, <2>1, FullSettles DEF Map!FullFails
<1>9. CASE Map!LaidOut
  <2>1. graph # None /\ graph.elk # << >> /\ graph \in Map!Graphs
    BY <1>9 DEF Map!LaidOut, MapInv, GraphIs
  <2> DEFINE h == Head(graph.elk)
             t == Tail(graph.elk)
  <2>2. h \in Map!Inputs /\ t \in Seq(Map!Inputs)
    BY <2>1 DEF Map!Graphs
  <2>3. graph' = [graph EXCEPT !.laid = h, !.elk = t, !.loading = FALSE]
    BY <1>9 DEF Map!LaidOut, Map!LayoutOf
  <2> HIDE DEF h, t
  <2>4. graph' \in Map!Graphs /\ graph'.input = graph.input
    BY <2>1, <2>2, <2>3 DEF Map!Graphs
  <2>5. UNCHANGED <<mUrl, clustered, full, mMoves>> /\ graph' # None
    BY <1>9, <2>4 DEF Map!LaidOut
  <2> QED
    BY <2>1, <2>4, <2>5 DEF MapInv, GraphIs
<1>10. CASE UNCHANGED mapVars
  BY <1>10 DEF mapVars, MapInv
<1> QED
  BY <1>1, <1>2, <1>3, <1>5, <1>6, <1>7, <1>8, <1>9, <1>10 DEF Map!Next, Map!User, Map!Backend

LEMMA MapTyped == ASSUME MapInv PROVE Map!MapTypeOK
BY DEF MapInv, MapUrls, MapRequest, GraphIs, Map!MapTypeOK

(* The graph of all services is drawn by default only when few are known.  *)
LEMMA MapHidesHairball == ASSUME MapInv PROVE Map!NeverFlashesHairball
<1> SUFFICES ASSUME graph # None, graph.input.from.kind = "services", mUrl.view = None
             PROVE  clustered.data # None /\ Map!totalServices(clustered) <= Many
  BY DEF Map!NeverFlashesHairball
<1>1. /\ Map!Shows(mUrl, clustered, full) = "graph" /\ graph.input = Map!toGraphData(mUrl, clustered, full)
      /\ MapRequest(clustered, Map!Found("namespaces")) /\ MapRead(clustered)
      /\ MapRequest(full, Map!Found("services"))
  BY DEF MapInv, GraphIs
<1>2. /\ graph.input.from = Map!activeData(mUrl, clustered, full) /\ graph.input.from # None
      /\ ~clustered.error /\ ~clustered.loading
  BY <1>1, DrawnInput
<1>3. clustered.data # None
  BY <1>1, <1>2 DEF MapRead
<1>4. Map!view(mUrl, clustered) # "namespaces"
  BY <1>1, <1>2 DEF Map!activeData, MapRequest, Map!Found
<1>5. Map!totalServices(clustered) \in Int
  BY <1>1, <1>3, MapConstants DEF Map!totalServices, MapRequest, Map!Found
<1> QED
  BY <1>3, <1>4, <1>5, MapConstants DEF Map!view

-----------------------------------------------------------------------------
(* The wall board (CardBoard).                                             *)

LEMMA Quotient ==
  ASSUME NEW a \in Nat, NEW b \in Nat, b >= 1
  PROVE  /\ a \div b \in Nat
         /\ b * (a \div b) <= a /\ a < b * (a \div b) + b
OBVIOUS

LEMMA ProductOfCounts ==
  ASSUME NEW a \in Nat, NEW b \in Nat, a >= 1, b >= 1
  PROVE  a * b \in Nat /\ a * b >= 1
OBVIOUS

LEMMA ProductGrows ==
  ASSUME NEW a \in Int, NEW b \in Int, NEW p \in Nat, a <= b
  PROVE  p * a <= p * b
OBVIOUS

(* n cards, p to a page, are on as many pages.                             *)
LEMMA PagesOf ==
  ASSUME NEW n \in Nat, NEW p \in Nat, p >= 1, NEW t, t = Wall!Larger(1, (n + p - 1) \div p)
  PROVE  /\ t \in Nat /\ t >= 1 /\ t <= n + 1
         /\ n >= 1 => p * (t - 1) < n /\ n <= p * t
<1> DEFINE q == (n + p - 1) \div p
<1>1. n + p - 1 \in Nat
  OBVIOUS
<1>2. q \in Nat /\ p * q <= n + p - 1 /\ n + p - 1 < p * q + p
  BY <1>1, Quotient
<1>3. t = IF 1 > q THEN 1 ELSE q
  BY DEF Wall!Larger
<1> HIDE DEF q
<1>4. q <= n + 1
  <2> SUFFICES ASSUME q >= n + 2 PROVE FALSE
    BY <1>2
  <2>1. p * (n + 2) <= p * q
    BY <1>2, ProductGrows
  <2>2. p * (n + 2) = p * n + 2 * p
    OBVIOUS
  <2>3. p * n >= n
    OBVIOUS
  <2> QED
    BY <1>2, <2>1, <2>2, <2>3
<1>5. ASSUME n >= 1
      PROVE  q >= 1
  <2> SUFFICES ASSUME q = 0 PROVE FALSE
    BY <1>2
  <2> QED
    BY <1>2, <1>5
<1>6. p * (q - 1) = p * q - p
  BY <1>2
<1> QED
  BY <1>2, <1>3, <1>4, <1>5, <1>6

LEMMA CardConstants ==
  /\ IsFiniteSet(CardIds) /\ CardIds \subseteq [name : Nat, env : Nat]
  /\ \A a \in CardAnswers : DOMAIN a \subseteq CardIds
  /\ {} \in Filters /\ Areas \subseteq Int \X Int /\ TTL \in Nat
<1>1. Wall!IsFiniteSet(CardIds) = IsFiniteSet(CardIds)
  BY Zenon DEF Wall!IsFiniteSet, IsFiniteSet
<1> QED
  BY <1>1, ViewsAssumption DEF Wall!ConstantsOK

(* The type, and a board that remembers has seen whatever it shows.        *)
BoardInv ==
  /\ Wall!CardsTypeOK
  /\ remembers => Wall!Present \subseteq DOMAIN seen

(* The cards are finitely many, and as many as there are services at most. *)
LEMMA CardsCounted ==
  ASSUME Wall!CardsTypeOK
  PROVE  /\ Wall!cards \subseteq CardIds /\ IsFiniteSet(Wall!cards)
         /\ Cardinality(Wall!cards) \in Nat /\ Cardinality(CardIds) \in Nat
         /\ Cardinality(Wall!cards) <= Cardinality(CardIds)
<1>1. Wall!Present \subseteq CardIds
  <2>1. CASE answer = None
    BY <2>1 DEF Wall!Present, Wall!Passing
  <2>2. CASE answer # None
    <3>1. DOMAIN answer \subseteq CardIds
      BY <2>2, CardConstants DEF Wall!CardsTypeOK
    <3> QED
      BY <2>2, <3>1 DEF Wall!Present, Wall!Passing
  <2> QED
    BY <2>1, <2>2
<1>2. Wall!cards \subseteq CardIds
  BY <1>1 DEF Wall!cards, Wall!Gone, Wall!CardsTypeOK
<1> QED
  BY <1>2, CardConstants, FS_Subset, FS_CardinalityType

CardOrder == {p \in Wall!cards \X Wall!cards : Wall!Before(p[1], p[2])}

(* Severity, name and environment put any two cards in one order.          *)
LEMMA CardsOrdered ==
  ASSUME Wall!CardsTypeOK
  PROVE  StrictOrder(CardOrder, Wall!cards)
<1> DEFINE C == Wall!cards
           h(i) == Wall!healthSeverity(i)
<1>1. \A i \in C : h(i) \in Int
  BY DEF Wall!healthSeverity
<1>2. \A i \in C : i \in [name : Nat, env : Nat]
  BY CardsCounted, CardConstants
<1>3. \A i, j \in C : <<i, j>> \in CardOrder <=>
        \/ h(i) > h(j)
        \/ h(i) = h(j) /\ i.name < j.name
        \/ h(i) = h(j) /\ i.name = j.name /\ i.env < j.env
  BY DEF CardOrder, Wall!Before
<1> HIDE DEF C, h
<1>4. \A i \in C : i.name \in Nat /\ i.env \in Nat
  BY <1>2
<1>5. \A i \in C : <<i, i>> \notin CardOrder
  BY <1>1, <1>3, <1>4
<1>6. ASSUME NEW i \in C, NEW j \in C, NEW k \in C, <<i, j>> \in CardOrder, <<j, k>> \in CardOrder
      PROVE  <<i, k>> \in CardOrder
  BY <1>1, <1>3, <1>4, <1>6
<1>7. ASSUME NEW i \in C, NEW j \in C, i # j
      PROVE  <<i, j>> \in CardOrder \/ <<j, i>> \in CardOrder
  <2>1. i.name # j.name \/ i.env # j.env
    BY <1>2, <1>7
  <2> QED
    BY <2>1, <1>1, <1>3, <1>4
<1> QED
  BY <1>5, <1>6, <1>7 DEF StrictOrder, C

(* All cards are listed, each in one place.                                *)
LEMMA CardsListed ==
  ASSUME Wall!CardsTypeOK
  PROVE  LET n == Cardinality(Wall!cards)
             o == Wall!cardItems
         IN /\ o \in Seq(Wall!cards) /\ Len(o) = n
            /\ \A i \in Wall!cards : \E k \in 1 .. n : o[k] = i
            /\ \A j, k \in 1 .. n : o[j] = o[k] => j = k
<1> DEFINE n == Cardinality(Wall!cards)
           C == Wall!cards
           o == InOrder(C, CardOrder)
<1>1. Wall!cardItems = o
  <2>1. Wall!cardItems = Wall!InOrder(C, CardOrder)
    BY DEF Wall!cardItems, CardOrder
  <2>2. Wall!InOrder(C, CardOrder) = o
    BY Zenon DEF Wall!InOrder, InOrder, Wall!Place, Place, Wall!Cardinality, Cardinality
  <2> QED
    BY <2>1, <2>2
<1>2. /\ n \in Nat /\ o \in [1 .. n -> C] /\ o \in Seq(C) /\ Len(o) = n
      /\ \A x \in C : \E k \in 1 .. n : o[k] = x
      /\ \A i, j \in 1 .. n : i < j => <<o[i], o[j]>> \in CardOrder
  BY CardsCounted, CardsOrdered, InOrderSorts
<1>3. \A x \in C : <<x, x>> \notin CardOrder
  BY CardsOrdered DEF StrictOrder
<1> HIDE DEF o, n, C
<1>4. ASSUME NEW j \in 1 .. n, NEW k \in 1 .. n, o[j] = o[k]
      PROVE  j = k
  <2>1. o[j] \in C /\ ~(j < k) /\ ~(k < j)
    BY <1>2, <1>3, <1>4
  <2> QED
    BY <2>1, <1>2
<1> QED
  BY <1>1, <1>2, <1>4 DEF n, C

(* A page holds at least one card.                                         *)
LEMMA PerPage ==
  ASSUME Wall!CardsTypeOK
  PROVE  Wall!perPage \in Nat /\ Wall!perPage >= 1
<1>1. ASSUME NEW w \in Int, NEW d \in Nat, w > 0, d >= 1
      PROVE  Wall!Larger(1, (w + 12) \div (d + 12)) \in Nat /\ Wall!Larger(1, (w + 12) \div (d + 12)) >= 1
  <2>1. w + 12 \in Nat /\ d + 12 \in Nat /\ d + 12 >= 1
    BY <1>1
  <2>2. (w + 12) \div (d + 12) \in Nat
    BY <2>1, Quotient
  <2> QED
    BY <2>2 DEF Wall!Larger
<1>2. /\ Wall!CardDimensions(size)[1] \in Nat /\ Wall!CardDimensions(size)[1] >= 1
      /\ Wall!CardDimensions(size)[2] \in Nat /\ Wall!CardDimensions(size)[2] >= 1
  BY DEF Wall!CardDimensions
<1>3. area[1] \in Int /\ area[2] \in Int
  <2>1. area \in Int \X Int
    BY CardConstants DEF Wall!CardsTypeOK
  <2> QED
    BY <2>1
<1>4. CASE area[1] > 0 /\ area[2] > 0
  <2> DEFINE fit(k) == Wall!Larger(1, (area[k] + 12) \div (Wall!CardDimensions(size)[k] + 12))
  <2>1. fit(1) \in Nat /\ fit(1) >= 1
    BY <1>1, <1>2, <1>3, <1>4
  <2>2. fit(2) \in Nat /\ fit(2) >= 1
    BY <1>1, <1>2, <1>3, <1>4
  <2>3. Wall!perPage = fit(1) * fit(2)
    BY <1>4 DEF Wall!perPage, Wall!calcGrid
  <2> HIDE DEF fit
  <2> QED
    BY <2>1, <2>2, <2>3, ProductOfCounts
<1>5. CASE ~(area[1] > 0 /\ area[2] > 0)
  <2>1. Wall!perPage = Wall!Larger(1, Cardinality(Wall!cards))
    BY <1>5 DEF Wall!perPage, Wall!Cardinality, Cardinality
  <2> QED
    BY <2>1, CardsCounted DEF Wall!Larger
<1> QED
  BY <1>4, <1>5

LEMMA TotalPages ==
  ASSUME Wall!CardsTypeOK
  PROVE  LET n == Cardinality(Wall!cards)
             p == Wall!perPage
             t == Wall!totalPages
         IN /\ t \in Nat /\ t >= 1 /\ t <= n + 1
            /\ n >= 1 => p * (t - 1) < n /\ n <= p * t
<1>1. Wall!totalPages = Wall!Larger(1, (Cardinality(Wall!cards) + Wall!perPage - 1) \div Wall!perPage)
  BY DEF Wall!totalPages, Wall!Cardinality, Cardinality
<1> QED
  BY <1>1, PagesOf, PerPage, CardsCounted

(* The cards of a page are those between its first place and its last.     *)
LEMMA OnPage ==
  ASSUME Wall!CardsTypeOK, NEW q \in 0 .. Wall!totalPages - 1
  PROVE  LET n == Cardinality(Wall!cards)
             p == Wall!perPage
             m == Wall!Smaller((q + 1) * p, n)
         IN /\ Wall!Range(Wall!PageAt(q)) = {Wall!cardItems[k] : k \in q * p + 1 .. m}
            /\ n >= 1 => Wall!PageAt(q) # << >>
            /\ q * p \in Nat /\ (q + 1) * p = q * p + p
<1> DEFINE n == Cardinality(Wall!cards)
           p == Wall!perPage
           t == Wall!totalPages
           o == Wall!cardItems
           a == q * p
           m == Wall!Smaller((q + 1) * p, n)
           s == Wall!PageAt(q)
<1>1. /\ n \in Nat /\ p \in Nat /\ p >= 1 /\ t \in Nat /\ t >= 1
      /\ n >= 1 => p * (t - 1) < n
      /\ o \in Seq(Wall!cards) /\ Len(o) = n
  BY CardsCounted, PerPage, TotalPages, CardsListed
<1>2. s = SubSeq(o, a + 1, m)
  BY DEF Wall!PageAt, Wall!Cardinality, Cardinality
<1> USE DEF Wall!Smaller
<1> HIDE DEF n, p, t, o, s
<1>3. a \in Nat /\ (q + 1) * p = a + p
  BY <1>1
<1>4. m = IF a + p < n THEN a + p ELSE n
  BY <1>3
<1>5. n >= 1 => a < n
  <2> SUFFICES ASSUME n >= 1 PROVE a < n
    OBVIOUS
  <2>1. q <= t - 1 /\ q \in Int /\ t - 1 \in Int
    BY <1>1 DEF t
  <2>2. p * q <= p * (t - 1)
    BY <1>1, <2>1, ProductGrows
  <2>3. p * q = q * p
    BY <1>1
  <2> QED
    BY <1>1, <1>3, <2>2, <2>3
<1>6. n = 0 => a = 0
  <2> SUFFICES ASSUME n = 0 PROVE a = 0
    OBVIOUS
  <2>1. t = 1
    <3>1. t <= n + 1 /\ t >= 1 /\ t \in Nat
      BY TotalPages DEF n, t
    <3> QED
      BY <3>1
  <2>2. q = 0
    BY <2>1 DEF t
  <2> QED
    BY <2>2, <1>1
<1> HIDE DEF a, m
<1>7. m \in a .. n /\ a + 1 \in 1 .. n + 1 /\ (n >= 1 => m >= a + 1)
  BY <1>1, <1>3, <1>4, <1>5, <1>6
<1>8. /\ s \in Seq(Wall!cards) /\ Len(s) = m - a
      /\ \A i \in 1 .. m - a : s[i] = o[a + i]
  <2>1. /\ SubSeq(o, a + 1, m) \in Seq(Wall!cards)
        /\ Len(SubSeq(o, a + 1, m)) = IF a + 1 <= m THEN m - (a + 1) + 1 ELSE 0
        /\ \A i \in 1 .. m - (a + 1) + 1 : SubSeq(o, a + 1, m)[i] = o[a + 1 + i - 1]
    BY <1>1, <1>3, <1>7, SubSeqProperties
  <2> QED
    BY <2>1, <1>1, <1>2, <1>3, <1>7
<1>9. Wall!Range(s) = {s[i] : i \in 1 .. m - a}
  <2>1. DOMAIN s = 1 .. m - a
    BY <1>8
  <2> QED
    BY <2>1 DEF Wall!Range
<1>10. {s[i] : i \in 1 .. m - a} = {o[k] : k \in a + 1 .. m}
  <2>1. ASSUME NEW i \in 1 .. m - a PROVE s[i] \in {o[k] : k \in a + 1 .. m}
    <3>1. a + i \in a + 1 .. m /\ s[i] = o[a + i]
      BY <1>3, <1>7, <1>8
    <3> QED
      BY <3>1
  <2>2. ASSUME NEW k \in a + 1 .. m PROVE o[k] \in {s[i] : i \in 1 .. m - a}
    <3>1. k - a \in 1 .. m - a /\ a + (k - a) = k
      BY <1>3, <1>7, <1>1
    <3>2. s[k - a] = o[k]
      BY <3>1, <1>8
    <3> QED
      BY <3>1, <3>2
  <2> QED
    BY <2>1, <2>2
<1>11. n >= 1 => s # << >>
  <2> SUFFICES ASSUME n >= 1, s = << >> PROVE FALSE
    OBVIOUS
  <2>1. Len(s) = 0
    OBVIOUS
  <2> QED
    BY <2>1, <1>1, <1>3, <1>7, <1>8
<1> QED
  BY <1>3, <1>9, <1>10, <1>11 DEF n, p, t, o, a, m, s


(* Every card is on one page, and the page that is shown is not empty.     *)
LEMMA CardsOnce ==
  ASSUME Wall!CardsTypeOK
  PROVE  Wall!EveryCardOnce
<1> DEFINE n == Cardinality(Wall!cards)
           p == Wall!perPage
           t == Wall!totalPages
           o == Wall!cardItems
           C == Wall!cards
           P == 0 .. t - 1
           m(q) == Wall!Smaller((q + 1) * p, n)
           R(q) == Wall!Range(Wall!PageAt(q))
           on == [q \in P |-> R(q)]
<1>1. /\ n \in Nat /\ p \in Nat /\ p >= 1 /\ t \in Nat /\ t >= 1
      /\ n >= 1 => p * (t - 1) < n /\ n <= p * t
      /\ \A i \in C : \E k \in 1 .. n : o[k] = i
      /\ \A j, k \in 1 .. n : o[j] = o[k] => j = k
  BY CardsCounted, PerPage, TotalPages, CardsListed
<1>2. ASSUME NEW q \in P
      PROVE  /\ R(q) = {o[k] : k \in q * p + 1 .. m(q)}
             /\ q * p \in Nat /\ (q + 1) * p = q * p + p
             /\ n >= 1 => Wall!PageAt(q) # << >>
  BY OnPage
<1>3. ASSUME NEW q \in P
      PROVE  m(q) = IF q * p + p < n THEN q * p + p ELSE n
  <2>1. (q + 1) * p = q * p + p /\ q * p \in Nat
    BY <1>2
  <2> QED
    BY <2>1, <1>1 DEF Wall!Smaller
<1>4. C = {} \/ n >= 1
  BY CardsCounted, FS_EmptySet
<1> HIDE DEF n, p, t, o, C, m, R
<1>5. ASSUME NEW i \in C
      PROVE  \E q \in P : i \in R(q) /\ \A r \in P \ {q} : i \notin R(r)
  <2>1. PICK k \in 1 .. n : o[k] = i
    BY <1>1
  <2> DEFINE q == (k - 1) \div p
  <2>2. k \in 1 .. n /\ k \in Nat /\ k - 1 \in Nat /\ k >= 1 /\ k <= n
    BY <1>1
  <2>3. q \in Nat /\ p * q <= k - 1 /\ k - 1 < p * q + p
    BY <1>1, <2>2, Quotient
  <2> HIDE DEF q
  <2>4. q <= t - 1
    <3> SUFFICES ASSUME q >= t PROVE FALSE
      BY <1>1, <2>3
    <3>1. p * t <= p * q
      BY <1>1, <2>3, ProductGrows
    <3>2. p * t \in Nat /\ p * q \in Nat
      BY <1>1, <2>3
    <3> QED
      BY <3>1, <3>2, <1>1, <2>2, <2>3
  <2>5. q \in P
    BY <1>1, <2>3, <2>4
  <2>6. q * p = p * q /\ p * q \in Nat
    BY <1>1, <2>3
  <2>7. k \in q * p + 1 .. m(q)
    BY <1>1, <1>3, <2>2, <2>3, <2>5, <2>6
  <2>8. i \in R(q)
    BY <1>2, <2>1, <2>5, <2>7
  <2>9. ASSUME NEW r \in P, i \in R(r)
        PROVE  r = q
    <3>1. PICK j \in r * p + 1 .. m(r) : o[j] = i
      BY <1>2, <2>9
    <3>2. r * p \in Nat /\ p * r \in Nat /\ r * p = p * r /\ r \in Int
      BY <1>1
    <3>3. m(r) <= r * p + p /\ m(r) <= n /\ m(r) \in Int
      BY <1>1, <1>3, <3>2
    <3>4. j \in 1 .. n /\ p * r < j /\ j <= p * r + p
      BY <1>1, <3>1, <3>2, <3>3
    <3>5. j = k
      BY <1>1, <2>1, <2>2, <3>1, <3>4
    <3> DEFINE x == p * q
               y == p * r
    <3>8. x \in Nat /\ y \in Nat /\ x <= k - 1 /\ k - 1 < x + p /\ y < k /\ k <= y + p
      BY <2>3, <2>6, <3>2, <3>4, <3>5
    <3>6. CASE r > q
      <4>1. p * (q + 1) <= p * r
        BY <1>1, <2>3, <3>2, <3>6, ProductGrows
      <4>2. p * (q + 1) = x + p
        BY <1>1, <2>3
      <4>3. x + p <= y
        BY <4>1, <4>2
      <4> HIDE DEF x, y
      <4> QED
        BY <4>3, <3>8, <2>2, <1>1
    <3>7. CASE r < q
      <4>1. p * (r + 1) <= p * q
        BY <1>1, <2>3, <3>2, <3>7, ProductGrows
      <4>2. p * (r + 1) = y + p
        BY <1>1, <3>2
      <4>3. y + p <= x
        BY <4>1, <4>2
      <4> HIDE DEF x, y
      <4> QED
        BY <4>3, <3>8, <2>2, <1>1
    <3> QED
      BY <2>3, <3>2, <3>6, <3>7
  <2> QED
    BY <2>5, <2>8, <2>9
<1>6. \A i \in C : \E q \in DOMAIN on : i \in on[q] /\ \A r \in DOMAIN on \ {q} : i \notin on[r]
  <2>1. DOMAIN on = P /\ \A q \in P : on[q] = R(q)
    OBVIOUS
  <2> HIDE DEF on, P
  <2> QED
    BY <2>1, <1>5
<1>7. C # {} => Wall!pageItems # << >>
  <2>1. Wall!shownPage \in P
    <3>1. Wall!currentPage \in Nat
      <4>1. page.no \in Nat
        BY CardsCounted DEF Wall!CardsTypeOK, Wall!Cardinality, Cardinality
      <4> QED
        BY <4>1 DEF Wall!currentPage
    <3> QED
      BY <3>1, <1>1 DEF Wall!shownPage, Wall!Smaller, t
  <2> QED
    BY <2>1, <1>2, <1>4 DEF Wall!pageItems
<1> QED
  BY <1>6, <1>7 DEF Wall!EveryCardOnce, C, R, t

LEMMA BoardStart ==
  ASSUME Wall!Init
  PROVE  BoardInv
<1>1. Cardinality(CardIds) \in Nat
  BY CardConstants, FS_CardinalityType
<1>2. DOMAIN seen = {} /\ page.no = 0
  BY DEF Wall!Init
<1>3. Wall!CardsTypeOK
  <2>1. 0 \in 0 .. Wall!Cardinality(CardIds)
    BY <1>1 DEF Wall!Cardinality, Cardinality
  <2> QED
    BY <2>1, <1>2, CardConstants DEF Wall!Init, Wall!CardsTypeOK
<1>4. Wall!Present = {}
  BY DEF Wall!Init, Wall!Present, Wall!Passing
<1> QED
  BY <1>3, <1>4 DEF BoardInv

(* What is remembered after an answer a under a filter e.                  *)
LEMMA Remembered ==
  ASSUME BoardInv, NEW a \in CardAnswers \cup {None}, NEW e \in Filters
  PROVE  LET s == Wall!Remember(a, e)
         IN /\ DOMAIN s \subseteq CardIds /\ \A i \in DOMAIN s : s[i] \in 0 .. TTL + 1
            /\ remembers => Wall!Passing(a, e) \subseteq DOMAIN s
            /\ remembers => \A i \in DOMAIN seen : i \in DOMAIN s \/ seen[i] > TTL
<1> DEFINE s == Wall!Remember(a, e)
           N == Wall!Passing(a, e)
           K == {j \in DOMAIN seen : seen[j] <= TTL}
           f == [i \in N \cup K |-> IF i \in N THEN 0 ELSE seen[i]]
<1>1. /\ DOMAIN seen \subseteq CardIds /\ \A i \in DOMAIN seen : seen[i] \in 0 .. TTL + 1
      /\ TTL \in Nat
  BY CardConstants DEF BoardInv, Wall!CardsTypeOK
<1>2. N \subseteq CardIds
  <2>1. CASE a = None
    BY <2>1 DEF Wall!Passing
  <2>2. CASE a # None
    <3>1. DOMAIN a \subseteq CardIds
      BY <2>2, CardConstants
    <3> QED
      BY <2>2, <3>1 DEF Wall!Passing
  <2> QED
    BY <2>1, <2>2
<1>3. CASE ~remembers
  <2>1. s = seen
    BY <1>3 DEF Wall!Remember
  <2> QED
    BY <1>1, <1>3, <2>1
<1>4. CASE remembers /\ a = None
  <2>1. s = seen /\ N = {}
    BY <1>4 DEF Wall!Remember, Wall!Passing
  <2> HIDE DEF s, N
  <2>2. \A i \in DOMAIN seen : i \in DOMAIN s \/ seen[i] > TTL
    BY <2>1
  <2> QED
    BY <1>1, <1>4, <2>1, <2>2 DEF s, N
<1>5. CASE remembers /\ a # None
  <2>1. s = f
    BY <1>5 DEF Wall!Remember
  <2> HIDE DEF s, N
  <2>2. DOMAIN f = N \cup K /\ \A i \in N \cup K : f[i] = IF i \in N THEN 0 ELSE seen[i]
    OBVIOUS
  <2> HIDE DEF f
  <2>3. N \cup K \subseteq CardIds /\ \A i \in N \cup K : f[i] \in 0 .. TTL + 1
    BY <1>1, <1>2, <2>2
  <2>4. \A i \in DOMAIN seen : i \in K \/ seen[i] > TTL
    BY <1>1
  <2>5. \A i \in DOMAIN seen : i \in DOMAIN f \/ seen[i] > TTL
    BY <2>2, <2>4
  <2> QED
    BY <2>1, <2>2, <2>3, <2>5 DEF s, N
<1> QED
  BY <1>3, <1>4, <1>5

(* A page that is turned to.                                               *)
LEMMA PageTurned ==
  ASSUME BoardInv, NEW no \in 0 .. Wall!totalPages - 1,
         page' = [no |-> no, under |-> Wall!Filter],
         UNCHANGED <<remembers, answer, error, envs, size, area, rotating, seen>>
  PROVE  BoardInv'
<1>1. page'.no = no
  OBVIOUS
<1>2. no \in 0 .. Cardinality(CardIds)
  BY TotalPages, CardsCounted DEF BoardInv
<1>3. Wall!CardsTypeOK'
  BY <1>1, <1>2 DEF BoardInv, Wall!CardsTypeOK, Wall!Cardinality, Cardinality
<1>4. Wall!Present' = Wall!Present
  BY DEF Wall!Present
<1> QED
  BY <1>3, <1>4 DEF BoardInv

LEMMA BoardStep ==
  ASSUME BoardInv, [Wall!Next]_boardVars
  PROVE  BoardInv'
<1> DEFINE T == Wall!CardsTypeOK
<1>0. /\ T /\ (remembers => Wall!Present \subseteq DOMAIN seen)
      /\ answer \in CardAnswers \cup {None} /\ envs \in Filters
  BY DEF BoardInv, Wall!CardsTypeOK
<1>1. CASE UNCHANGED boardVars
  BY <1>1 DEF BoardInv, boardVars, Wall!CardsTypeOK, Wall!Present
<1>2. ASSUME NEW a \in CardAnswers, Wall!Answered(a)
      PROVE  BoardInv'
  <2> DEFINE s == Wall!Remember(a, envs)
  <2>1. /\ DOMAIN s \subseteq CardIds /\ \A i \in DOMAIN s : s[i] \in 0 .. TTL + 1
        /\ remembers => Wall!Passing(a, envs) \subseteq DOMAIN s
    BY <1>0, Remembered
  <2>2. /\ answer' = a /\ error' = FALSE /\ seen' = s
        /\ UNCHANGED <<remembers, envs, size, area, page, rotating>>
    BY <1>2 DEF Wall!Answered
  <2> HIDE DEF s
  <2>3. T'
    BY <1>0, <2>1, <2>2 DEF Wall!CardsTypeOK
  <2>4. Wall!Present' = Wall!Passing(a, envs)
    BY <2>2 DEF Wall!Present, Wall!Passing
  <2> QED
    BY <2>1, <2>2, <2>3, <2>4 DEF BoardInv
<1>3. CASE Wall!Failed
  BY <1>3 DEF BoardInv, Wall!Failed, Wall!CardsTypeOK, Wall!Present
<1>4. ASSUME NEW e \in Filters, Wall!setEnvFilters(e)
      PROVE  BoardInv'
  <2> DEFINE s == Wall!Remember(answer, e)
  <2>1. /\ DOMAIN s \subseteq CardIds /\ \A i \in DOMAIN s : s[i] \in 0 .. TTL + 1
        /\ remembers => Wall!Passing(answer, e) \subseteq DOMAIN s
    BY <1>0, Remembered
  <2>2. /\ envs' = e /\ seen' = s
        /\ UNCHANGED <<remembers, answer, error, size, area, page, rotating>>
    BY <1>4 DEF Wall!setEnvFilters
  <2> HIDE DEF s
  <2>3. T'
    BY <1>0, <2>1, <2>2 DEF Wall!CardsTypeOK
  <2>4. Wall!Present' = Wall!Passing(answer, e)
    BY <2>2 DEF Wall!Present, Wall!Passing
  <2> QED
    BY <2>1, <2>2, <2>3, <2>4 DEF BoardInv
<1>5. ASSUME NEW z \in CardSizes, Wall!setCardSize(z)
      PROVE  BoardInv'
  BY <1>5 DEF BoardInv, Wall!setCardSize, Wall!CardsTypeOK, Wall!Present
<1>6. ASSUME NEW a \in Areas, Wall!Measured(a)
      PROVE  BoardInv'
  BY <1>6 DEF BoardInv, Wall!Measured, Wall!CardsTypeOK, Wall!Present
<1>7. ASSUME NEW p \in 0 .. Wall!Cardinality(CardIds) - 1, Wall!setCurrentPage(p)
      PROVE  BoardInv'
  <2>1. Wall!totalPages \in Nat
    BY <1>0, TotalPages
  <2>2. p \in 0 .. Wall!totalPages - 1
    BY <1>7, <2>1 DEF Wall!setCurrentPage
  <2> QED
    BY <1>7, <2>2, PageTurned DEF Wall!setCurrentPage
<1>8. CASE Wall!setRotationInterval
  BY <1>8 DEF BoardInv, Wall!setRotationInterval, Wall!CardsTypeOK, Wall!Present
<1>9. CASE Wall!Rotate
  <2>1. Wall!totalPages \in Nat /\ Wall!totalPages >= 1
    BY <1>0, TotalPages
  <2>2. Wall!currentPage \in Nat
    BY <1>0, CardsCounted DEF Wall!CardsTypeOK, Wall!currentPage, Wall!Cardinality, Cardinality
  <2>3. Wall!NextPage \in 0 .. Wall!totalPages - 1
    BY <2>1, <2>2 DEF Wall!NextPage
  <2> QED
    BY <1>9, <2>3, PageTurned DEF Wall!Rotate
<1>10. CASE Wall!Tick
  <2>1. /\ seen' = [i \in DOMAIN seen |-> Wall!Smaller(seen[i] + 1, TTL + 1)]
        /\ UNCHANGED <<remembers, answer, error, envs, size, area, page, rotating>>
    BY <1>10 DEF Wall!Tick
  <2>2. DOMAIN seen' = DOMAIN seen /\ \A i \in DOMAIN seen : seen'[i] \in 0 .. TTL + 1
    BY <2>1, CardConstants DEF BoardInv, Wall!CardsTypeOK, Wall!Smaller
  <2>3. T'
    BY <1>0, <2>1, <2>2 DEF Wall!CardsTypeOK
  <2>4. Wall!Present' = Wall!Present
    BY <2>1 DEF Wall!Present
  <2> QED
    BY <1>0, <2>1, <2>2, <2>3, <2>4 DEF BoardInv
<1> QED
  BY <1>1, <1>2, <1>3, <1>4, <1>5, <1>6, <1>7, <1>8, <1>9, <1>10 DEF Wall!Next

(* A card goes only when its service has not been seen for long enough.    *)
LEMMA CardsGo ==
  ASSUME BoardInv, [Wall!Next]_boardVars, remembers, envs' = envs, NEW i \in Wall!cards
  PROVE  i \in Wall!cards' \/ seen[i] > TTL
<1>1. Wall!cards = DOMAIN seen
  BY DEF BoardInv, Wall!cards, Wall!Gone
<1>2. DOMAIN seen' \subseteq Wall!cards'
  BY DEF Wall!cards, Wall!Gone
<1>3. SUFFICES i \in DOMAIN seen' \/ seen[i] > TTL
  BY <1>2
<1>4. envs \in Filters /\ answer \in CardAnswers \cup {None}
  BY DEF BoardInv, Wall!CardsTypeOK
<1>5. CASE UNCHANGED seen
  BY <1>1, <1>5
<1>6. ASSUME NEW a \in CardAnswers, Wall!Answered(a)
      PROVE  i \in DOMAIN seen' \/ seen[i] > TTL
  <2>1. seen' = Wall!Remember(a, envs)
    BY <1>6 DEF Wall!Answered
  <2> QED
    BY <1>1, <1>4, <2>1, Remembered
<1>7. ASSUME NEW e \in Filters, Wall!setEnvFilters(e)
      PROVE  i \in DOMAIN seen' \/ seen[i] > TTL
  <2>1. seen' = Wall!Remember(answer, e)
    BY <1>7 DEF Wall!setEnvFilters
  <2> QED
    BY <1>1, <1>4, <2>1, Remembered
<1>8. CASE Wall!Tick
  <2>1. DOMAIN seen' = DOMAIN seen
    BY <1>8 DEF Wall!Tick
  <2> QED
    BY <1>1, <2>1
<1>9. UNCHANGED seen \/ Wall!Tick \/ (\E a \in CardAnswers : Wall!Answered(a))
      \/ (\E e \in Filters : Wall!setEnvFilters(e))
  BY DEF Wall!Next, boardVars, Wall!Failed, Wall!setCardSize, Wall!Measured, Wall!setCurrentPage,
         Wall!setRotationInterval, Wall!Rotate
<1> QED
  BY <1>5, <1>6, <1>7, <1>8, <1>9

-----------------------------------------------------------------------------
(* The tabs of a service (TabViews).                                       *)

(* A request that depends on d and may find what is in D(d).               *)
Fetch(f, d, D) ==
  /\ f \in [deps : {d}, skip : {FALSE}, data : D \cup {None}, loading : BOOLEAN, stale : BOOLEAN,
            error : BOOLEAN, call : {None, d}]
  /\ f.call = None => ~f.loading
  /\ f.call = None /\ ~f.error => f.data \in D /\ f.data.of = d

TabData(r) == Pane!Data(r, Pane!Asks)
Tabs4 == {"runtime", "server", "database", "frontend"}

FrontInv ==
  /\ tPage.tab # "frontend" => front = Pane!NotAsked
  /\ tPage.tab = "frontend" => front.call = tPage.env
  /\ front.available # None => front.of = tPage.env

TabInv ==
  /\ tPage \in [ns : Namespaces, env : TabEnvs \cup {None}, tick : Nat, tab : Tabs4]
  /\ caps \in BOOLEAN
  /\ reqs = [r \in Pane!Requests(tPage.tab) |-> reqs[r]]
  /\ \A r \in Pane!Requests(tPage.tab) : Fetch(reqs[r], Pane!deps(tPage), TabData(r))
  /\ front \in [available : BOOLEAN \cup {None}, hasLoki : BOOLEAN, vitals : BOOLEAN,
               of : TabEnvs \cup {None}, call : TabEnvs \cup {None}]
  /\ FrontInv

(* Requests are mounted, rendered, answered and rejected (UseFetch).       *)
LEMMA FetchMounted ==
  ASSUME NEW d, d # None, NEW D
  PROVE  Fetch(Pane!F!Mounted(d, FALSE), d, D)
BY DEF Pane!F!Mounted, Fetch

LEMMA FetchRendered ==
  ASSUME NEW d, NEW e, e # None, NEW D, NEW f, Fetch(f, d, D)
  PROVE  Fetch(Pane!F!Rendered(f, e, FALSE), e, D)
<1>1. CASE d = e
  BY <1>1 DEF Pane!F!Rendered, Fetch
<1>2. CASE d # e
  <2> DEFINE l == f.data = None
             s == f.data # None
  <2>1. l \in BOOLEAN /\ s \in BOOLEAN
    OBVIOUS
  <2>2. Pane!F!Rendered(f, e, FALSE) =
          [f EXCEPT !.deps = e, !.skip = FALSE, !.loading = l, !.stale = s, !.error = FALSE, !.call = e]
    BY <1>2 DEF Pane!F!Rendered, Pane!F!Asked, Fetch
  <2> HIDE DEF l, s
  <2> QED
    BY <2>1, <2>2 DEF Fetch
<1> QED
  BY <1>1, <1>2

LEMMA FetchAnswered ==
  ASSUME NEW d, NEW D, NEW f, Fetch(f, d, D), NEW x \in D, x.of = d
  PROVE  Fetch(Pane!F!Answered(f, x), d, D)
BY DEF Pane!F!Answered, Fetch

LEMMA FetchRejected ==
  ASSUME NEW d, NEW D, NEW f, Fetch(f, d, D)
  PROVE  Fetch(Pane!F!Rejected(f), d, D)
BY DEF Pane!F!Rejected, Fetch

LEMMA TabConstants ==
  /\ None \notin Pane!Asks
  /\ \A r \in {"runtime", "endpoints", "server"} : None \notin TabData(r)
BY ViewsAssumption DEF Pane!ConstantsOK, TabData

LEMMA RequestsAre ==
  ASSUME NEW t \in Tabs4, NEW r \in Pane!Requests(t)
  PROVE  r \in {"runtime", "endpoints", "server"}
BY DEF Pane!Requests, Tabs4

LEMMA DepsType ==
  ASSUME NEW p \in [ns : Namespaces, env : TabEnvs \cup {None}, tick : Nat, tab : Tabs4]
  PROVE  Pane!deps(p) \in Pane!Asks /\ Pane!deps(p) # None
BY TabConstants DEF Pane!deps, Pane!Asks

LEMMA FrontMountedOK ==
  ASSUME NEW p \in [ns : Namespaces, env : TabEnvs \cup {None}, tick : Nat, tab : Tabs4],
         tPage' = p, front' = Pane!FrontMounted(p)
  PROVE  /\ front' \in [available : BOOLEAN \cup {None}, hasLoki : BOOLEAN, vitals : BOOLEAN,
                        of : TabEnvs \cup {None}, call : TabEnvs \cup {None}]
         /\ FrontInv'
BY DEF Pane!FrontMounted, Pane!NotAsked, FrontInv

LEMMA MountedOK ==
  ASSUME NEW p \in [ns : Namespaces, env : TabEnvs \cup {None}, tick : Nat, tab : Tabs4],
         NEW m, m = Pane!Mounted(p)
  PROVE  /\ m = [r \in Pane!Requests(p.tab) |-> m[r]]
         /\ \A r \in Pane!Requests(p.tab) : Fetch(m[r], Pane!deps(p), TabData(r))
<1>1. \A r \in Pane!Requests(p.tab) : m[r] = Pane!F!Mounted(Pane!deps(p), FALSE)
  BY DEF Pane!Mounted
<1> QED
  BY <1>1, DepsType, FetchMounted DEF Pane!Mounted

LEMMA RenderedTab ==
  ASSUME TabInv, NEW p \in [ns : Namespaces, env : TabEnvs \cup {None}, tick : Nat, tab : Tabs4],
         p.tab = tPage.tab, NEW m, m = Pane!Rendered(p)
  PROVE  /\ m = [r \in Pane!Requests(p.tab) |-> m[r]]
         /\ \A r \in Pane!Requests(p.tab) : Fetch(m[r], Pane!deps(p), TabData(r))
<1>1. DOMAIN reqs = Pane!Requests(p.tab)
  BY DEF TabInv
<1>2. m = [r \in Pane!Requests(p.tab) |-> Pane!F!Rendered(reqs[r], Pane!deps(p), FALSE)]
  BY <1>1 DEF Pane!Rendered
<1>3. \A r \in Pane!Requests(p.tab) : Fetch(reqs[r], Pane!deps(tPage), TabData(r))
  BY DEF TabInv
<1>4. ASSUME NEW r \in Pane!Requests(p.tab) PROVE Fetch(m[r], Pane!deps(p), TabData(r))
  <2>1. m[r] = Pane!F!Rendered(reqs[r], Pane!deps(p), FALSE)
    BY <1>2
  <2>2. Fetch(reqs[r], Pane!deps(tPage), TabData(r)) /\ Pane!deps(p) # None
    BY <1>3, DepsType
  <2> QED
    BY <2>1, <2>2, FetchRendered
<1> QED
  BY <1>2, <1>4

LEMMA TabStart == Pane!Init => TabInv
<1> SUFFICES ASSUME Pane!Init PROVE TabInv
  OBVIOUS
<1>1. /\ tPage \in [ns : Namespaces, env : TabEnvs \cup {None}, tick : Nat, tab : Tabs4]
      /\ caps \in BOOLEAN
      /\ reqs = Pane!Mounted(tPage) /\ front = Pane!FrontMounted(tPage)
  BY DEF Pane!Init, Tabs4
<1>2. /\ front \in [available : BOOLEAN \cup {None}, hasLoki : BOOLEAN, vitals : BOOLEAN,
                    of : TabEnvs \cup {None}, call : TabEnvs \cup {None}]
      /\ FrontInv
  BY <1>1 DEF Pane!FrontMounted, Pane!NotAsked, FrontInv
<1> QED
  BY <1>1, <1>2, MountedOK DEF TabInv

(* An answer to one of the requests.                                       *)
LEMMA OneRequest ==
  ASSUME TabInv, NEW r \in Pane!Requests(tPage.tab), NEW f, Fetch(f, Pane!deps(tPage), TabData(r)),
         reqs' = [reqs EXCEPT ![r] = f], UNCHANGED <<tPage, caps, front, tMoves>>
  PROVE  TabInv'
<1>1. reqs = [q \in Pane!Requests(tPage.tab) |-> reqs[q]]
  BY DEF TabInv
<1>2. reqs' = [q \in Pane!Requests(tPage.tab) |-> reqs'[q]]
  BY <1>1
<1>3. \A q \in Pane!Requests(tPage.tab) : reqs'[q] = IF q = r THEN f ELSE reqs[q]
  BY <1>1
<1>4. \A q \in Pane!Requests(tPage.tab) : Fetch(reqs'[q], Pane!deps(tPage), TabData(q))
  BY <1>3 DEF TabInv
<1> QED
  BY <1>2, <1>4 DEF TabInv, FrontInv

LEMMA TabStep == TabInv /\ [Pane!Next]_tabVars => TabInv'
<1> SUFFICES ASSUME TabInv, [Pane!Next]_tabVars PROVE TabInv'
  OBVIOUS
<1> DEFINE Page == [ns : Namespaces, env : TabEnvs \cup {None}, tick : Nat, tab : Tabs4]
<1>0. tPage \in Page /\ caps \in BOOLEAN /\ DOMAIN reqs = Pane!Requests(tPage.tab)
  BY DEF TabInv
<1>1. CASE Pane!setTab
  <2>1. PICK t \in Tabs4 : tPage' = [tPage EXCEPT !.tab = t]
    BY <1>1 DEF Pane!setTab, Tabs4
  <2>2. tPage' \in Page
    BY <1>0, <2>1
  <2>3. reqs' = Pane!Mounted(tPage') /\ front' = Pane!FrontMounted(tPage') /\ caps' = caps
    BY <1>1 DEF Pane!setTab
  <2> QED
    BY <1>0, <2>2, <2>3, MountedOK, FrontMountedOK DEF TabInv
<1>2. CASE Pane!setEnv
  <2>1. PICK e \in TabEnvs \cup {None} : tPage' = [tPage EXCEPT !.env = e]
    BY <1>2 DEF Pane!setEnv
  <2>2. tPage' \in Page /\ tPage'.tab = tPage.tab
    BY <1>0, <2>1
  <2>3. reqs' = Pane!Rendered(tPage') /\ front' = Pane!FrontMounted(tPage') /\ caps' = caps
    BY <1>2 DEF Pane!setEnv, Pane!FrontRendered
  <2> QED
    BY <1>0, <2>2, <2>3, RenderedTab, FrontMountedOK DEF TabInv
<1>3. CASE Pane!handleRefresh
  <2>1. tPage' = [tPage EXCEPT !.tick = tPage.tick + 1]
    BY <1>3 DEF Pane!handleRefresh
  <2>2. tPage' \in Page /\ tPage'.tab = tPage.tab /\ tPage'.env = tPage.env
    BY <1>0, <2>1
  <2>3. reqs' = Pane!Rendered(tPage') /\ front' = front /\ caps' = caps
    BY <1>3 DEF Pane!handleRefresh
  <2>4. FrontInv'
    BY <2>2, <2>3 DEF TabInv, FrontInv
  <2> QED
    BY <1>0, <2>2, <2>3, <2>4, RenderedTab DEF TabInv
<1>4. CASE Pane!Arrives
  <2>1. PICK r \in Pane!Requests(tPage.tab) :
          /\ reqs[r].call # None
          /\ \E d \in Pane!Data(r, {reqs[r].call}) : reqs' = [reqs EXCEPT ![r] = Pane!F!Answered(@, d)]
    BY <1>0, <1>4 DEF Pane!Arrives
  <2>2. PICK d \in Pane!Data(r, {reqs[r].call}) : reqs' = [reqs EXCEPT ![r] = Pane!F!Answered(@, d)]
    BY <2>1
  <2>3. Fetch(reqs[r], Pane!deps(tPage), TabData(r))
    BY <2>1 DEF TabInv
  <2>4. reqs[r].call = Pane!deps(tPage) /\ Pane!deps(tPage) \in Pane!Asks
    BY <1>0, <2>1, <2>3, DepsType DEF Fetch
  <2>5. d \in TabData(r) /\ d.of = Pane!deps(tPage)
    BY <2>2, <2>4 DEF TabData, Pane!Data
  <2>6. Fetch(Pane!F!Answered(reqs[r], d), Pane!deps(tPage), TabData(r))
    BY <2>3, <2>5, FetchAnswered
  <2>7. reqs' = [reqs EXCEPT ![r] = Pane!F!Answered(reqs[r], d)]
    BY <2>2
  <2> QED
    BY <1>4, <2>6, <2>7, OneRequest DEF Pane!Arrives
<1>5. CASE Pane!Fails
  <2>1. PICK r \in Pane!Requests(tPage.tab) : reqs' = [reqs EXCEPT ![r] = Pane!F!Rejected(reqs[r])]
    BY <1>0, <1>5 DEF Pane!Fails
  <2>2. Fetch(reqs[r], Pane!deps(tPage), TabData(r))
    BY <2>1 DEF TabInv
  <2>3. Fetch(Pane!F!Rejected(reqs[r]), Pane!deps(tPage), TabData(r))
    BY <2>2, FetchRejected
  <2> QED
    BY <1>5, <2>1, <2>3, OneRequest DEF Pane!Fails
<1>6. CASE Pane!FrontArrives
  <2>1. PICK a \in BOOLEAN, loki \in BOOLEAN, v \in BOOLEAN :
          front' = [front EXCEPT !.available = a, !.hasLoki = loki, !.vitals = v, !.of = front.call]
    BY <1>6 DEF Pane!FrontArrives
  <2>2. tPage.tab = "frontend" /\ UNCHANGED <<tPage, caps, reqs, tMoves>>
    BY <1>6 DEF Pane!FrontArrives, Pane!FrontAsked
  <2> QED
    BY <2>1, <2>2 DEF TabInv, FrontInv
<1>7. CASE Pane!FrontFails
  <2>1. front' = [front EXCEPT !.available = FALSE, !.of = front.call]
    BY <1>7 DEF Pane!FrontFails
  <2>2. tPage.tab = "frontend" /\ UNCHANGED <<tPage, caps, reqs, tMoves>>
    BY <1>7 DEF Pane!FrontFails, Pane!FrontAsked
  <2> QED
    BY <2>1, <2>2 DEF TabInv, FrontInv
<1>8. CASE Pane!CapsArrive
  BY <1>8 DEF Pane!CapsArrive, TabInv, FrontInv
<1>9. CASE UNCHANGED tabVars
  BY <1>9 DEF tabVars, TabInv, FrontInv
<1> QED
  BY <1>1, <1>2, <1>3, <1>4, <1>5, <1>6, <1>7, <1>8, <1>9 DEF Pane!Next, Pane!Backend

-----------------------------------------------------------------------------
LEMMA CardsMeasure ==
  ASSUME NEW c, NEW b \in Pane!Card(c, [limits |-> TRUE, used |-> TRUE])
  PROVE  b.measured
<1> DEFINE d == [limits |-> TRUE, used |-> TRUE]
<1>0. d.limits = TRUE /\ d.used = TRUE /\ (d.used /\ d.limits) = TRUE
  OBVIOUS
<1> HIDE DEF d
<1>1. \A names : \A x \in Pane!BarsIf(TRUE, names) : x.measured
  BY DEF Pane!BarsIf, Pane!Bar
<1>2. \A x \in Pane!JVMCard(d) : x.measured
  <2>1. \A x \in {Pane!Bar("heap", d.limits)} : x.measured
    BY <1>0 DEF Pane!Bar
  <2> QED
    BY <1>0, <1>1, <2>1 DEF Pane!JVMCard, Pane!MemoryPoolTable
<1>3. \A x \in Pane!NodeJSCard(d) : x.measured
  <2>1. \A x \in {Pane!Bar("heap", d.limits)} : x.measured
    BY <1>0 DEF Pane!Bar
  <2> QED
    BY <1>0, <1>1, <2>1 DEF Pane!NodeJSCard
<1>4. \A x \in Pane!GoCard(d) : x.measured
  BY <1>0, <1>1 DEF Pane!GoCard
<1>5. \A x \in Pane!ContainerCard(d) : x.measured
  BY <1>0, <1>1 DEF Pane!ContainerCard
<1>6. \A x \in Pane!DBPoolCard(d) : x.measured
  BY DEF Pane!DBPoolCard, Pane!Bar
<1>7. b \in Pane!JVMCard(d) \/ b \in Pane!NodeJSCard(d) \/ b \in Pane!GoCard(d)
        \/ b \in Pane!ContainerCard(d) \/ b \in Pane!DBPoolCard(d)
  BY DEF Pane!Card, Pane!KafkaCard, d
<1> QED
  BY <1>2, <1>3, <1>4, <1>5, <1>6, <1>7

LEMMA TabTyped == TabInv => Pane!TabTypeOK
<1> SUFFICES ASSUME TabInv PROVE Pane!TabTypeOK
  OBVIOUS
<1>1. DOMAIN reqs = Pane!Requests(tPage.tab)
  BY DEF TabInv
<1>2. \A r \in DOMAIN reqs : reqs[r].deps = Pane!deps(tPage)
  BY <1>1 DEF TabInv, Fetch
<1>3. tPage.tab # "frontend" => front = Pane!NotAsked
  BY DEF TabInv, FrontInv
<1> QED
  BY <1>1, <1>2, <1>3, CardsMeasure DEF Pane!TabTypeOK

(* Every panel of a scene is narrowed.                                     *)
LEMMA DatabaseNarrows ==
  ASSUME NEW p, NEW e, NEW r, p.env # None, NEW q \in Pane!DatabaseScene(p, e, r)
  PROVE  "service" \in q.by /\ "environment" \in q.by
<1> DEFINE ctx == [namespace |-> p.ns, environment |-> p.env, named |-> caps,
                   hasDbSpans |-> Pane!hasDbSpans(e), hasDbPool |-> Pane!hasDbPool(r)]
<1>1. ctx.environment # None
  OBVIOUS
<1>2. q \in Pane!S!buildDatabaseScene(ctx)
  BY DEF Pane!DatabaseScene
<1> HIDE DEF ctx
<1>3. /\ {"service", "environment"} \subseteq Pane!S!dbFilter(ctx)
      /\ {"service", "environment"} \subseteq Pane!S!dbFilter(ctx) \cap Pane!S!inboundFilter(ctx)
      /\ {"service", "environment"} \subseteq Pane!S!runtimeFilter(ctx)
  BY <1>1 DEF Pane!S!dbFilter, Pane!S!inboundFilter, Pane!S!svcFilter, Pane!S!runtimeFilter, Pane!S!Given
<1>4. \A titles, by : \A x \in Pane!S!Metrics(titles, by) : x.by = by
  BY DEF Pane!S!Metrics
<1>5. \A x \in Pane!S!HeaderStats(ctx) \cup Pane!S!RedRow(ctx) \cup Pane!S!PoolRow(ctx) :
        {"service", "environment"} \subseteq x.by
  <2>1. \A x \in Pane!S!HeaderStats(ctx) : {"service", "environment"} \subseteq x.by
    BY <1>3, <1>4 DEF Pane!S!HeaderStats
  <2>2. \A x \in Pane!S!RedRow(ctx) : {"service", "environment"} \subseteq x.by
    BY <1>3, <1>4 DEF Pane!S!RedRow
  <2>3. \A x \in Pane!S!PoolRow(ctx) : {"service", "environment"} \subseteq x.by
    BY <1>3, <1>4 DEF Pane!S!PoolRow
  <2> QED
    BY <2>1, <2>2, <2>3
<1> QED
  BY <1>2, <1>5 DEF Pane!S!buildDatabaseScene

LEMMA FrontendNarrows ==
  ASSUME NEW p, NEW f, p.env # None, NEW q \in Pane!FrontendScene(p, f)
  PROVE  /\ "service" \in q.by
         /\ "environment" \in q.by \/ (q.on = "logs" /\ p.env \in OwnLogs)
<1> DEFINE own == p.env \in OwnLogs
           ctx == [environment |-> p.env, ownLogs |-> own, hasLoki |-> f.hasLoki]
           Narrow(x) == "service" \in x.by /\ ("environment" \in x.by \/ (x.on = "logs" /\ own))
<1>1. ctx.environment # None /\ ctx.ownLogs = own
  OBVIOUS
<1>2. q \in Pane!S!FrontendPanels(ctx)
  BY DEF Pane!FrontendScene
<1> HIDE DEF ctx
<1>3. \A titles : \A x \in Pane!S!Metrics(titles, Pane!S!histogramFilter(ctx)) : Narrow(x)
  BY <1>1 DEF Pane!S!Metrics, Pane!S!histogramFilter, Pane!S!Given
<1>4. "environment" \in Pane!S!clusterOpts(ctx) \/ own
  BY <1>1 DEF Pane!S!clusterOpts, Pane!S!Given
<1>5. \A titles, by : {"service"} \cup Pane!S!clusterOpts(ctx) \subseteq by =>
        \A x \in Pane!S!Logs(titles, by) : Narrow(x)
  BY <1>4 DEF Pane!S!Logs
<1>6. /\ {"service"} \cup Pane!S!clusterOpts(ctx) \subseteq Pane!S!lokiWebVitalsPipeline(ctx)
      /\ {"service"} \cup Pane!S!clusterOpts(ctx) \subseteq Pane!S!lokiVitalPipeline(ctx)
      /\ {"service"} \cup Pane!S!clusterOpts(ctx) \subseteq Pane!S!lokiSessionStartExpr(ctx)
  BY DEF Pane!S!lokiWebVitalsPipeline, Pane!S!lokiVitalPipeline, Pane!S!lokiSessionStartExpr
<1>7. \A titles : \A x \in Pane!S!Logs(titles, Pane!S!lokiWebVitalsPipeline(ctx))
                          \cup Pane!S!Logs(titles, Pane!S!lokiVitalPipeline(ctx))
                          \cup Pane!S!Logs(titles, Pane!S!lokiSessionStartExpr(ctx)) : Narrow(x)
  BY <1>5, <1>6
<1> HIDE DEF Narrow, own
<1>8. \A x \in Pane!S!buildInsightsSection(ctx) \cup Pane!S!buildErrorsSection(ctx)
               \cup Pane!S!buildTrendsSection(ctx) : Narrow(x)
  BY <1>3, <1>7 DEF Pane!S!buildInsightsSection, Pane!S!buildErrorsSection, Pane!S!buildExceptionTypesItem,
       Pane!S!buildTrendsSection
<1>9. \A x \in Pane!S!buildAttributionSection(ctx) \cup Pane!S!buildPerPageSection(ctx) : Narrow(x)
  BY <1>7 DEF Pane!S!buildAttributionSection, Pane!S!buildPerPageSection, Pane!S!lokiVitalAttributionExpr,
       Pane!S!lokiVitalByPageExpr
<1>10. \A x \in Pane!S!buildBrowserBreakdownSection(ctx) \cup Pane!S!buildTrafficSection(ctx) : Narrow(x)
  BY <1>3, <1>7 DEF Pane!S!buildBrowserBreakdownSection, Pane!S!lokiVitalByGroupExpr, Pane!S!buildTrafficSection
<1> QED
  BY <1>2, <1>8, <1>9, <1>10 DEF Pane!S!FrontendPanels, Narrow, own

LEMMA TabNarrows == Pane!PanelsNarrowed
BY DatabaseNarrows, FrontendNarrows DEF Pane!PanelsNarrowed, Pane!Panels

LEMMA TabFront == TabInv => Pane!FrontendOfEnvironment
BY DEF TabInv, FrontInv, Pane!FrontendOfEnvironment

(* A request that is not pending has found what was asked last.            *)
LEMMA FetchSettled ==
  ASSUME NEW f, NEW d, NEW D, Fetch(f, d, D), f.call = None
  PROVE  /\ ~f.loading
         /\ ~f.error => f.data \in D /\ f.data.of = d
BY DEF Fetch

(* The titles of the database scene tell its sections apart.               *)
LEMMA TitlesAre ==
  ASSUME NEW p, NEW e, NEW r, caps
  PROVE  LET titles == {q.title : q \in Pane!DatabaseScene(p, e, r)} IN
         /\ "Query rate" \in titles <=> Pane!hasDbSpans(e)
         /\ "Wait Time (P95)" \in titles <=> Pane!hasDbPool(r)
<1> DEFINE ctx == [namespace |-> p.ns, environment |-> p.env, named |-> caps,
                   hasDbSpans |-> Pane!hasDbSpans(e), hasDbPool |-> Pane!hasDbPool(r)]
           scene == Pane!DatabaseScene(p, e, r)
<1>1. /\ ctx.named /\ ctx.hasDbSpans = Pane!hasDbSpans(e) /\ ctx.hasDbPool = Pane!hasDbPool(r)
      /\ scene = Pane!S!buildDatabaseScene(ctx)
  BY DEF Pane!DatabaseScene
<1> HIDE DEF ctx, scene
<1>2. \A titles, by : {q.title : q \in Pane!S!Metrics(titles, by)} = titles
  <2> SUFFICES ASSUME NEW titles, NEW by PROVE {q.title : q \in Pane!S!Metrics(titles, by)} = titles
    OBVIOUS
  <2>1. ASSUME NEW t \in titles PROVE \E q \in Pane!S!Metrics(titles, by) : q.title = t
    <3>1. [title |-> t, on |-> "metrics", by |-> by] \in Pane!S!Metrics(titles, by)
      BY DEF Pane!S!Metrics
    <3> QED
      BY <3>1
  <2>2. \A q \in Pane!S!Metrics(titles, by) : q.title \in titles
    BY DEF Pane!S!Metrics
  <2> QED
    BY <2>1, <2>2
<1>3. {q.title : q \in Pane!S!HeaderStats(ctx)}
        = {"Queries per request or message"} \cup {"Query rate", "Errors", "Duration (P95)"}
  <2> DEFINE A == Pane!S!Metrics({"Queries per request or message"}, Pane!S!dbFilter(ctx) \cap Pane!S!inboundFilter(ctx))
             B == Pane!S!Metrics({"Query rate", "Errors", "Duration (P95)"}, Pane!S!dbFilter(ctx))
  <2>1. {q.title : q \in A} = {"Queries per request or message"}
    BY <1>2
  <2>2. {q.title : q \in B} = {"Query rate", "Errors", "Duration (P95)"}
    BY <1>2
  <2>3. Pane!S!HeaderStats(ctx) = A \cup B
    BY DEF Pane!S!HeaderStats
  <2> HIDE DEF A, B
  <2>4. {q.title : q \in A \cup B} = {q.title : q \in A} \cup {q.title : q \in B}
    OBVIOUS
  <2> QED
    BY <2>1, <2>2, <2>3, <2>4
<1>4. {q.title : q \in Pane!S!RedRow(ctx)} = {"Rate by system", "Errors by system", "Duration by system"}
  BY <1>2 DEF Pane!S!RedRow
<1>5. {q.title : q \in Pane!S!PoolRow(ctx)} = {"Wait Time (P95)", "Create Time (P95)"}
  BY <1>2 DEF Pane!S!PoolRow
<1>6. scene = (IF ctx.hasDbSpans THEN Pane!S!HeaderStats(ctx) \cup Pane!S!RedRow(ctx) ELSE {})
                \cup (IF ctx.hasDbPool THEN Pane!S!PoolRow(ctx) ELSE {})
  BY <1>1 DEF Pane!S!buildDatabaseScene
<1>7. /\ \A q \in Pane!S!HeaderStats(ctx) \cup Pane!S!RedRow(ctx) : q.title # "Wait Time (P95)"
      /\ \A q \in Pane!S!PoolRow(ctx) : q.title # "Query rate"
      /\ \E q \in Pane!S!HeaderStats(ctx) : q.title = "Query rate"
      /\ \E q \in Pane!S!PoolRow(ctx) : q.title = "Wait Time (P95)"
  <2>1. \A q \in Pane!S!HeaderStats(ctx) : q.title # "Wait Time (P95)"
    BY <1>3
  <2>2. \A q \in Pane!S!RedRow(ctx) : q.title # "Wait Time (P95)"
    BY <1>4
  <2>3. \A q \in Pane!S!PoolRow(ctx) : q.title # "Query rate"
    BY <1>5
  <2>4. "Query rate" \in {q.title : q \in Pane!S!HeaderStats(ctx)}
    BY <1>3
  <2>5. "Wait Time (P95)" \in {q.title : q \in Pane!S!PoolRow(ctx)}
    BY <1>5
  <2> QED
    BY <2>1, <2>2, <2>3, <2>4, <2>5
<1>8. (\E q \in scene : q.title = "Query rate") <=> ctx.hasDbSpans
  BY <1>6, <1>7
<1>9. (\E q \in scene : q.title = "Wait Time (P95)") <=> ctx.hasDbPool
  BY <1>6, <1>7
<1> QED
  BY <1>1, <1>8, <1>9 DEF scene

LEMMA TabNotes == TabInv => Pane!TabNoteIsTrue
<1> SUFFICES ASSUME TabInv, Pane!Quiet PROVE
      /\ tPage.tab = "runtime" /\ Pane!Shows = "note" =>
           Pane!AnsweredNow("runtime") /\ reqs["runtime"].data.cards = {}
      /\ tPage.tab = "server" /\ Pane!Shows = "note" =>
           /\ Pane!AnsweredNow("server") /\ reqs["server"].data.groups = {}
           /\ reqs["server"].data.graphql \in {"none", "failed"}
      /\ Pane!Shows = "EmptyStateBody" =>
           /\ Pane!AnsweredNow("endpoints") /\ "database" \notin reqs["endpoints"].data.groups
           /\ reqs["runtime"].error
                \/ (Pane!AnsweredNow("runtime") /\ "dbPool" \notin reqs["runtime"].data.cards)
      /\ Pane!Shows = "cards" =>
           reqs["runtime"].data.of = Pane!deps(tPage) /\ ~reqs["runtime"].error
      /\ tPage.tab = "database" /\ Pane!Shows = "sections" /\ caps =>
           LET sections == Pane!DatabaseSections(reqs["endpoints"], reqs["runtime"])
               titles == {q.title : q \in Pane!Panels}
           IN /\ "operations" \in sections <=> "Query rate" \in titles
              /\ "pools" \in sections <=> "Wait Time (P95)" \in titles
  BY DEF Pane!TabNoteIsTrue
<1>1. \A r \in Pane!Requests(tPage.tab) :
        r \in {"runtime", "endpoints", "server"} /\ Fetch(reqs[r], Pane!deps(tPage), TabData(r)) /\ reqs[r].call = None
  BY RequestsAre DEF TabInv, Pane!Quiet
<1>2. tPage.tab \in Tabs4
  BY DEF TabInv
<1>3. CASE tPage.tab = "runtime"
  <2> DEFINE f == reqs["runtime"]
  <2>1. "runtime" \in Pane!Requests(tPage.tab)
    BY <1>3 DEF Pane!Requests
  <2>2. Fetch(f, Pane!deps(tPage), TabData("runtime")) /\ f.call = None
    BY <1>1, <2>1
  <2>3. (~f.error => f.data \in TabData("runtime") /\ f.data.of = Pane!deps(tPage))
    BY <2>2, FetchSettled
  <2>4. None \notin TabData("runtime")
    BY TabConstants
  <2>5. f.loading = FALSE /\ f.error \in BOOLEAN
    BY <2>2 DEF Fetch
  <2>6. Pane!Shows = IF f.error THEN "error" ELSE IF f.data.cards = {} THEN "note" ELSE "cards"
    <3>1. Pane!Shows = Pane!RuntimeTab(f)
      BY <1>3 DEF Pane!Shows
    <3> QED
      BY <2>5, <3>1 DEF Pane!RuntimeTab, Pane!Pending
  <2> QED
    BY <1>3, <2>3, <2>4, <2>6 DEF Pane!AnsweredNow
<1>4. CASE tPage.tab = "server"
  <2> DEFINE f == reqs["server"]
  <2>1. "server" \in Pane!Requests(tPage.tab)
    BY <1>4 DEF Pane!Requests
  <2>2. Fetch(f, Pane!deps(tPage), TabData("server")) /\ f.call = None
    BY <1>1, <2>1
  <2>3. (~f.error => f.data \in TabData("server") /\ f.data.of = Pane!deps(tPage))
    BY <2>2, FetchSettled
  <2>4. None \notin TabData("server")
    BY TabConstants
  <2>5. f.loading = FALSE /\ f.error \in BOOLEAN
    BY <2>2 DEF Fetch
  <2>6. Pane!Shows = Pane!ServerTab(f)
    BY <1>4 DEF Pane!Shows
  <2>7. /\ Pane!Shows = "note" =>
             ~f.error /\ f.data.groups = {} /\ f.data.graphql \notin {"bare", "operations"}
        /\ Pane!Shows \notin {"cards", "EmptyStateBody"}
    BY <2>5, <2>6 DEF Pane!ServerTab, Pane!Pending
  <2>8. \A d \in TabData("server") : d.graphql \in {"none", "failed", "bare", "operations"}
    BY DEF TabData, Pane!Data
  <2> QED
    BY <1>4, <2>3, <2>4, <2>7, <2>8 DEF Pane!AnsweredNow
<1>5. CASE tPage.tab = "database"
  <2> DEFINE e == reqs["endpoints"]
             r == reqs["runtime"]
  <2>1. Pane!Shows = Pane!DatabaseTab(e, r)
    BY <1>5 DEF Pane!Shows
  <2>2. Pane!Shows \notin {"note", "cards"}
    BY <2>1 DEF Pane!DatabaseTab
  <2>3. ASSUME Pane!Shows = "sections", caps
        PROVE  LET sections == Pane!DatabaseSections(e, r)
                   titles == {q.title : q \in Pane!Panels}
               IN /\ "operations" \in sections <=> "Query rate" \in titles
                  /\ "pools" \in sections <=> "Wait Time (P95)" \in titles
    <3>1. Pane!Panels = Pane!DatabaseScene(tPage, e, r)
      BY <1>5, <2>3 DEF Pane!Panels
    <3>2. /\ "operations" \in Pane!DatabaseSections(e, r) <=> Pane!hasDbSpans(e)
          /\ "pools" \in Pane!DatabaseSections(e, r) <=> Pane!hasDbPool(r)
      BY DEF Pane!DatabaseSections
    <3> QED
      BY <2>3, <3>1, <3>2, TitlesAre
  <2>4. ASSUME Pane!Shows = "EmptyStateBody"
        PROVE  /\ Pane!AnsweredNow("endpoints") /\ "database" \notin e.data.groups
               /\ r.error \/ (Pane!AnsweredNow("runtime") /\ "dbPool" \notin r.data.cards)
    <3>1. ~e.error /\ ~Pane!hasDbSpans(e) /\ ~Pane!hasDbPool(r)
      BY <2>1, <2>4 DEF Pane!DatabaseTab
    <3>2. "endpoints" \in Pane!Requests(tPage.tab) /\ "runtime" \in Pane!Requests(tPage.tab)
      BY <1>5 DEF Pane!Requests
    <3>3. /\ ~e.error => e.data # None /\ e.data.of = Pane!deps(tPage)
          /\ ~r.error => r.data # None /\ r.data.of = Pane!deps(tPage)
      BY <1>1, <3>2, FetchSettled, TabConstants
    <3> QED
      BY <3>1, <3>3 DEF Pane!AnsweredNow, Pane!hasDbSpans, Pane!hasDbPool
  <2> QED
    BY <1>5, <2>2, <2>3, <2>4
<1>6. CASE tPage.tab = "frontend"
  <2>1. Pane!Shows = Pane!FrontendTab(front)
    BY <1>6 DEF Pane!Shows
  <2>2. Pane!Shows \notin {"note", "cards", "EmptyStateBody"}
    BY <2>1 DEF Pane!FrontendTab
  <2> QED
    BY <1>6, <2>2
<1> QED
  BY <1>2, <1>3, <1>4, <1>5, <1>6 DEF Tabs4

-----------------------------------------------------------------------------
(* The alerts of a service (FiringAlerts).                                 *)

RequestShape(f, d, D) ==
  f \in [deps : {d}, skip : {FALSE}, data : D \cup {None}, loading : BOOLEAN, stale : BOOLEAN,
         error : BOOLEAN, call : {None, d}]

RuleLists == {Alerts!computeServiceAlerts(a) : a \in AlertAnswers}

(* What was found last was looked up; without a drawer there is nothing.   *)
LookupOK(u, d) ==
  /\ d \in [asked : {d.asked}, last : {d.last}]
  /\ u.alert = None => d.asked = None /\ d.last = None
  /\ d.last # None => d.last.key # None /\ d.last.deploy = Alerts!fetchLastDeployBefore(d.last.key)

AlertInv ==
  /\ RequestShape(rules, << >>, RuleLists)
  /\ manifest.deps = <<aUrl.env>> /\ \E D : RequestShape(manifest, <<aUrl.env>>, D)
  /\ LookupOK(aUrl, deploy)
  /\ aMoves \in 0 .. AlertMoves

LEMMA AlertRequestRendered ==
  ASSUME NEW d, NEW e, NEW D, NEW f, RequestShape(f, d, D)
  PROVE  /\ RequestShape(Alerts!F!Rendered(f, e, FALSE), e, D)
         /\ \A x \in D : RequestShape(Alerts!F!Answered(f, x), d, D) /\ Alerts!F!Answered(f, x).data = x
         /\ RequestShape(Alerts!F!Rejected(f), d, D) /\ Alerts!F!Rejected(f).data = f.data
<1>1. CASE d = e
  BY <1>1 DEF Alerts!F!Rendered, RequestShape, Alerts!F!Answered, Alerts!F!Rejected
<1>2. CASE d # e
  <2> DEFINE l == f.data = None
             s == f.data # None
  <2>1. l \in BOOLEAN /\ s \in BOOLEAN
    OBVIOUS
  <2>2. Alerts!F!Rendered(f, e, FALSE) =
          [f EXCEPT !.deps = e, !.skip = FALSE, !.loading = l, !.stale = s, !.error = FALSE, !.call = e]
    BY <1>2 DEF Alerts!F!Rendered, Alerts!F!Asked, RequestShape
  <2> HIDE DEF l, s
  <2>3. RequestShape(Alerts!F!Rendered(f, e, FALSE), e, D)
    BY <2>1, <2>2 DEF RequestShape
  <2> QED
    BY <2>3 DEF RequestShape, Alerts!F!Answered, Alerts!F!Rejected
<1> QED
  BY <1>1, <1>2

LEMMA LookupRerendered ==
  ASSUME NEW u, NEW rows, LookupOK(aUrl, deploy)
  PROVE  LookupOK(u, Alerts!Rerendered(u, rows))
<1> DEFINE new == Alerts!deployKey(u, rows)
           old == Alerts!deployKey(aUrl, Alerts!Rows)
<1>1. Alerts!Rerendered(u, rows) =
        IF u.alert = None THEN Alerts!NoLookup
        ELSE IF aUrl.alert = None THEN [Alerts!NoLookup EXCEPT !.asked = new]
        ELSE IF new = old THEN deploy ELSE [deploy EXCEPT !.asked = new]
  BY DEF Alerts!Rerendered
<1> HIDE DEF new, old
<1>2. LookupOK(u, Alerts!NoLookup)
  BY DEF LookupOK, Alerts!NoLookup
<1>3. u.alert # None => LookupOK(u, [Alerts!NoLookup EXCEPT !.asked = new])
  BY DEF LookupOK, Alerts!NoLookup
<1>4. u.alert # None => LookupOK(u, deploy)
  BY DEF LookupOK
<1>5. u.alert # None => LookupOK(u, [deploy EXCEPT !.asked = new])
  BY DEF LookupOK
<1> QED
  BY <1>1, <1>2, <1>3, <1>4, <1>5

LEMMA AlertStart == ASSUME Alerts!Init PROVE AlertInv
<1>1. RequestShape(rules, << >>, RuleLists)
  BY DEF Alerts!Init, Alerts!F!Mounted, RequestShape
<1>2. manifest.deps = <<aUrl.env>> /\ RequestShape(manifest, <<aUrl.env>>, {})
  BY DEF Alerts!Init, Alerts!F!Mounted, RequestShape
<1>3. LookupOK(aUrl, deploy)
  BY DEF Alerts!Init, Alerts!NoLookup, LookupOK
<1>4. aMoves \in 0 .. AlertMoves
  BY ViewsAssumption DEF Alerts!Init, Alerts!ConstantsOK
<1> QED
  BY <1>1, <1>2, <1>3, <1>4 DEF AlertInv

LEMMA ToAlertUrl ==
  ASSUME AlertInv, NEW u, Alerts!ToUrl(u)
  PROVE  AlertInv'
<1>1. /\ aUrl' = u /\ aMoves' = aMoves + 1 /\ aMoves < AlertMoves /\ UNCHANGED rules
      /\ manifest' = Alerts!F!Rendered(manifest, <<u.env>>, FALSE)
      /\ deploy' = Alerts!Rerendered(u, Alerts!Rows)
  BY DEF Alerts!ToUrl
<1>2. PICK D : RequestShape(manifest, <<aUrl.env>>, D)
  BY DEF AlertInv
<1>3. RequestShape(manifest', <<u.env>>, D) /\ manifest'.deps = <<u.env>>
  <2>1. RequestShape(manifest', <<u.env>>, D)
    BY <1>1, <1>2, AlertRequestRendered
  <2> QED
    BY <2>1 DEF RequestShape
<1>4. LookupOK(u, deploy')
  BY <1>1, LookupRerendered DEF AlertInv
<1>5. AlertMoves \in Nat
  BY ViewsAssumption DEF Alerts!ConstantsOK
<1>6. manifest'.deps = <<aUrl'.env>> /\ \E E : RequestShape(manifest', <<aUrl'.env>>, E)
  BY <1>1, <1>3
<1>7. LookupOK(aUrl', deploy') /\ RequestShape(rules', << >>, RuleLists)
  BY <1>1, <1>4 DEF AlertInv
<1>8. aMoves' \in 0 .. AlertMoves
  BY <1>1, <1>5 DEF AlertInv
<1> QED
  BY <1>6, <1>7, <1>8 DEF AlertInv

LEMMA AlertStep == ASSUME AlertInv, [Alerts!Next]_alertVars PROVE AlertInv'
<1>m. AlertMoves \in Nat
  BY ViewsAssumption DEF Alerts!ConstantsOK
<1>1. CASE Alerts!openDrawer \/ Alerts!closeDrawer \/ Alerts!setEnv \/ Alerts!Back
  BY <1>1, ToAlertUrl DEF Alerts!openDrawer, Alerts!closeDrawer, Alerts!setEnv, Alerts!Back
<1>2. CASE Alerts!createAlert \/ Alerts!goToIssues
  <2>1. aMoves' = aMoves + 1 /\ aMoves < AlertMoves /\ UNCHANGED <<aUrl, rules, manifest, deploy>>
    BY <1>2 DEF Alerts!createAlert, Alerts!goToIssues
  <2> QED
    BY <1>m, <2>1 DEF AlertInv
<1>3. CASE Alerts!TemplateArrives \/ Alerts!TemplateFails
  <2>1. UNCHANGED <<aUrl, rules, manifest, deploy, aMoves>>
    BY <1>3 DEF Alerts!TemplateArrives, Alerts!TemplateFails
  <2> QED
    BY <2>1 DEF AlertInv
<1>4. CASE Alerts!getServiceAlerts
  <2>1. /\ UNCHANGED <<aUrl, manifest, aMoves>>
        /\ deploy' = IF rules'.data = None THEN deploy ELSE Alerts!Rerendered(aUrl, rules'.data.list)
        /\ \/ \E a \in AlertAnswers : rules' = Alerts!F!Answered(rules, Alerts!computeServiceAlerts(a))
           \/ rules' = Alerts!F!Rejected(rules)
    BY <1>4 DEF Alerts!getServiceAlerts
  <2>2. RequestShape(rules, << >>, RuleLists) /\ LookupOK(aUrl, deploy)
    BY DEF AlertInv
  <2>3. RequestShape(rules', << >>, RuleLists)
    <3>1. ASSUME NEW a \in AlertAnswers, rules' = Alerts!F!Answered(rules, Alerts!computeServiceAlerts(a))
          PROVE  RequestShape(rules', << >>, RuleLists)
      <4>1. Alerts!computeServiceAlerts(a) \in RuleLists
        BY DEF RuleLists
      <4> QED
        BY <2>2, <3>1, <4>1, AlertRequestRendered
    <3>2. ASSUME rules' = Alerts!F!Rejected(rules)
          PROVE  RequestShape(rules', << >>, RuleLists)
      BY <2>2, <3>2, AlertRequestRendered
    <3> QED
      BY <2>1, <3>1, <3>2
  <2>4. LookupOK(aUrl, deploy')
    BY <2>1, <2>2, LookupRerendered
  <2> QED
    BY <2>1, <2>3, <2>4 DEF AlertInv
<1>5. CASE Alerts!getNewExceptionsPrometheusRule
  <2>1. /\ UNCHANGED <<aUrl, rules, deploy, aMoves>>
        /\ \/ manifest' = Alerts!F!Answered(manifest, [of |-> manifest.deps])
           \/ manifest' = Alerts!F!Rejected(manifest)
    BY <1>5 DEF Alerts!getNewExceptionsPrometheusRule
  <2>2. PICK D : RequestShape(manifest, <<aUrl.env>>, D)
    BY DEF AlertInv
  <2> DEFINE x == [of |-> manifest.deps]
             E == D \cup {x}
  <2>3. RequestShape(manifest, <<aUrl.env>>, E) /\ x \in E
    BY <2>2 DEF RequestShape
  <2>a. manifest' = Alerts!F!Answered(manifest, x) \/ manifest' = Alerts!F!Rejected(manifest)
    BY <2>1
  <2> HIDE DEF x, E
  <2>4. RequestShape(manifest', <<aUrl.env>>, E)
    <3>1. RequestShape(Alerts!F!Answered(manifest, x), <<aUrl.env>>, E)
      BY <2>3, AlertRequestRendered
    <3>2. RequestShape(Alerts!F!Rejected(manifest), <<aUrl.env>>, E)
      BY <2>3, AlertRequestRendered
    <3> QED
      BY <2>a, <3>1, <3>2
  <2>5. manifest'.deps = <<aUrl.env>>
    BY <2>4 DEF RequestShape
  <2>6. RequestShape(rules, << >>, RuleLists) /\ LookupOK(aUrl, deploy) /\ aMoves \in 0 .. AlertMoves
    BY DEF AlertInv
  <2>7. manifest'.deps = <<aUrl'.env>> /\ \E G : RequestShape(manifest', <<aUrl'.env>>, G)
    BY <2>1, <2>4, <2>5
  <2>8. RequestShape(rules', << >>, RuleLists) /\ LookupOK(aUrl', deploy') /\ aMoves' \in 0 .. AlertMoves
    BY <2>1, <2>6
  <2> QED
    BY <2>7, <2>8 DEF AlertInv
<1>6. CASE Alerts!LookUp
  <2> DEFINE found == Alerts!fetchLastDeployBefore(deploy.asked)
             kept == IF found = None THEN None ELSE [key |-> deploy.asked, deploy |-> found]
  <2>1. /\ deploy.asked # None /\ UNCHANGED <<aUrl, rules, manifest, aMoves>>
        /\ deploy' = [asked |-> None, last |-> kept]
    BY <1>6 DEF Alerts!LookUp
  <2>2. kept # None => kept.key # None /\ kept.deploy = Alerts!fetchLastDeployBefore(kept.key)
    BY <2>1
  <2> HIDE DEF kept, found
  <2>3. aUrl.alert # None
    BY <2>1 DEF AlertInv, LookupOK
  <2>4. LookupOK(aUrl, deploy')
    BY <2>1, <2>2, <2>3 DEF LookupOK
  <2> QED
    BY <2>1, <2>4 DEF AlertInv
<1>7. CASE Alerts!LookUpFails
  <2>1. deploy' = [deploy EXCEPT !.asked = None] /\ UNCHANGED <<aUrl, rules, manifest, aMoves>>
    BY <1>7 DEF Alerts!LookUpFails
  <2>2. LookupOK(aUrl, deploy')
    BY <2>1 DEF AlertInv, LookupOK
  <2> QED
    BY <2>1, <2>2 DEF AlertInv
<1>8. CASE UNCHANGED alertVars
  BY <1>8 DEF alertVars, AlertInv
<1> QED
  BY <1>1, <1>2, <1>3, <1>4, <1>5, <1>6, <1>7, <1>8 DEF Alerts!Next, Alerts!Backend

LEMMA AlertsTyped == ASSUME AlertInv PROVE Alerts!AlertsTypeOK
<1>1. rules.data # None => rules.data.of \in AlertAnswers
  <2> SUFFICES ASSUME rules.data # None PROVE rules.data.of \in AlertAnswers
    OBVIOUS
  <2>1. PICK a \in AlertAnswers : rules.data = Alerts!computeServiceAlerts(a)
    BY DEF AlertInv, RequestShape, RuleLists
  <2> QED
    BY <2>1 DEF Alerts!computeServiceAlerts
<1>2. rules.deps = << >>
  BY DEF AlertInv, RequestShape
<1> QED
  BY <1>1, <1>2 DEF AlertInv, LookupOK, Alerts!AlertsTypeOK

LEMMA AlertsNameDeploy == ASSUME AlertInv PROVE Alerts!DeployOfDrawer
<1> SUFFICES ASSUME Alerts!deployBeforeFiring # None
             PROVE  /\ Alerts!FiringAlertDrawer = "details"
                    /\ Alerts!deployBeforeFiring =
                         Alerts!fetchLastDeployBefore(<<aUrl.env, Alerts!selectedRule(aUrl, Alerts!Rows).since>>)
  BY DEF Alerts!DeployOfDrawer
<1> DEFINE r == Alerts!selectedRule(aUrl, Alerts!Rows)
<1>1. /\ deploy.last # None /\ deploy.last.key = Alerts!deployKey(aUrl, Alerts!Rows)
      /\ Alerts!deployBeforeFiring = deploy.last.deploy
  BY DEF Alerts!deployBeforeFiring
<1>2. /\ deploy.last.key # None /\ deploy.last.deploy = Alerts!fetchLastDeployBefore(deploy.last.key)
      /\ aUrl.alert # None
  BY <1>1 DEF AlertInv, LookupOK
<1>3. Alerts!deployKey(aUrl, Alerts!Rows) = IF r = None \/ r.since = None THEN None ELSE <<aUrl.env, r.since>>
  BY DEF Alerts!deployKey
<1> HIDE DEF r
<1>4. r # None /\ deploy.last.key = <<aUrl.env, r.since>>
  BY <1>1, <1>2, <1>3
<1>5. Alerts!FiringAlertDrawer = "details"
  BY <1>2, <1>4 DEF Alerts!FiringAlertDrawer, r
<1> QED
  BY <1>1, <1>2, <1>4, <1>5 DEF r

(* The alerts of a service's rules, and what is passed on of them.         *)
PassedOn == [state : STRING, at : Nat]

(* The earliest of some times; none when there are none.                   *)
IsEarliest(x, T) == IF T = {} THEN x = None ELSE x \in T /\ \A t \in T : x <= t

LEMMA AlertConstants ==
  /\ AlertMoves \in Nat /\ InstanceCap \in Nat /\ None \notin Nat
  /\ \A a \in AlertAnswers, s \in Configured : a[s] = None \/ a[s] \in Seq(Alerts!Rules)
BY ViewsAssumption DEF Alerts!ConstantsOK

LEMMA EarliestIs ==
  ASSUME NEW T \in SUBSET Nat
  PROVE  /\ IsEarliest(Alerts!Earliest(T), T)
         /\ \A x : IsEarliest(x, T) => x = Alerts!Earliest(T)
<1>1. CASE T = {}
  BY <1>1 DEF IsEarliest, Alerts!Earliest
<1>2. CASE T # {}
  <2> DEFINE m == CHOOSE x \in T : \A y \in T : x <= y
  <2>1. \E x \in T : \A y \in T : x <= y
    BY <1>2, LeastNumber
  <2>2. m \in T /\ \A y \in T : m <= y
    BY <2>1
  <2>3. Alerts!Earliest(T) = m
    BY <1>2 DEF Alerts!Earliest, Alerts!Min
  <2> HIDE DEF m
  <2>4. \A x \in T : (\A y \in T : x <= y) => x = m
    <3>1. \A x \in T : x \in Nat
      OBVIOUS
    <3> QED
      BY <2>2, <3>1
  <2> QED
    BY <1>2, <2>2, <2>3, <2>4 DEF IsEarliest
<1> QED
  BY <1>1, <1>2

LEMMA EarliestTells ==
  ASSUME NEW x, NEW T, IsEarliest(x, T)
  PROVE  (T = {} => x = None) /\ (T # {} => x \in T /\ \A t \in T : x <= t)
BY DEF IsEarliest

(* Of two sets of times.                                                   *)
LEMMA EarlierOf ==
  ASSUME NEW T \in SUBSET Nat, NEW U \in SUBSET Nat, NEW x, NEW y, IsEarliest(x, T), IsEarliest(y, U)
  PROVE  IsEarliest(Alerts!Earliest({x, y} \ {None}), T \cup U)
<1> DEFINE Z == {x, y} \ {None}
           m == Alerts!Earliest(Z)
<1>1. /\ T = {} => x = None
      /\ U = {} => y = None
      /\ T # {} => x \in T /\ \A t \in T : x <= t
      /\ U # {} => y \in U /\ \A t \in U : y <= t
  BY EarliestTells
<1>2. Z \in SUBSET Nat
  <2>1. (x = None \/ x \in Nat) /\ (y = None \/ y \in Nat)
    BY <1>1
  <2> QED
    BY ONLY <2>1 DEF Z
<1>3. IsEarliest(m, Z)
  BY <1>2, EarliestIs
<1>4. None \notin T /\ None \notin U
  BY AlertConstants
<1>5. (T # {} => x \in Z) /\ (U # {} => y \in Z) /\ (T = {} /\ U = {} => Z = {})
  BY <1>1, <1>4
<1>6. Z \subseteq T \cup U
  <2>1. (x = None \/ x \in T) /\ (y = None \/ y \in U)
    BY <1>1
  <2> QED
    BY ONLY <2>1 DEF Z
<1> HIDE DEF Z, m
<1>7. ASSUME T = {} /\ U = {}
      PROVE  IsEarliest(m, T \cup U)
  <2>1. Z = {} /\ T \cup U = {}
    BY <1>5, <1>7
  <2> QED
    BY ONLY <1>3, <2>1
<1>8. ASSUME T # {} \/ U # {}
      PROVE  IsEarliest(m, T \cup U)
  <2>1. Z # {} /\ m \in Z /\ \A z \in Z : m <= z
    BY <1>3, <1>5, <1>8 DEF IsEarliest
  <2>2. \A t \in T \cup U : m <= t
    <3>1. m \in Nat
      BY <1>2, <2>1
    <3>2. ASSUME NEW t \in T
          PROVE  m <= t
      <4>1. x \in Z /\ x <= t /\ m <= x
        BY <1>1, <1>5, <2>1, <3>2
      <4>2. x \in Nat /\ t \in Nat
        BY <1>2, <4>1
      <4> QED
        BY <3>1, <4>1, <4>2
    <3>3. ASSUME NEW t \in U
          PROVE  m <= t
      <4>1. y \in Z /\ y <= t /\ m <= y
        BY <1>1, <1>5, <2>1, <3>3
      <4>2. y \in Nat /\ t \in Nat
        BY <1>2, <4>1
      <4> QED
        BY <3>1, <4>1, <4>2
    <3> QED
      BY <3>2, <3>3
  <2>3. m \in T \cup U
    BY <1>6, <2>1
  <2> QED
    BY <2>2, <2>3 DEF IsEarliest
<1> QED
  BY <1>7, <1>8 DEF m, Z

(* The first instances, no more than are passed on.                        *)
LEMMA CappedLength ==
  ASSUME NEW T, NEW s \in Seq(T)
  PROVE  /\ Alerts!Capped(s) \in Seq(T)
         /\ Len(Alerts!Capped(s)) = IF Len(s) <= InstanceCap THEN Len(s) ELSE InstanceCap
<1> DEFINE n == Len(s)
           m == Alerts!Min({n, InstanceCap})
<1>1. n \in Nat /\ InstanceCap \in Nat
  BY AlertConstants
<1>2. Alerts!Capped(s) = SubSeq(s, 1, m)
  BY DEF Alerts!Capped
<1>3. \A i \in 1 .. n : s[i] \in T
  OBVIOUS
<1> HIDE DEF n
<1>4. m = IF n <= InstanceCap THEN n ELSE InstanceCap
  BY <1>1 DEF Alerts!Min
<1> HIDE DEF m
<1>5. m \in Nat /\ \A i \in 1 .. m : s[i] \in T
  BY <1>1, <1>3, <1>4
<1>6. m \in Int /\ 1 \in Int
  BY <1>5
<1>7. SubSeq(s, 1, m) \in Seq(T) /\ Len(SubSeq(s, 1, m)) = IF 1 <= m THEN m - 1 + 1 ELSE 0
  BY <1>5, <1>6, SubSeqProperties
<1>8. Len(SubSeq(s, 1, m)) = m
  BY <1>5, <1>7
<1> QED
  BY <1>2, <1>4, <1>7, <1>8 DEF n

RowShape(r) ==
  r \in [name : {r.name}, state : {r.state}, source : {r.source}, count : {r.count}, since : {r.since},
         instances : {r.instances}, truncated : {r.truncated}]

TimesOf(W) == {w.at : w \in W}

(* A row of name n tells of the alerts W: how many, since when, and        *)
(* whether more of them are known than it shows; f is whether it fires.    *)
TellsWork(r, n, W, f) ==
  /\ RowShape(r) /\ r.name = n
  /\ r.state = "firing" <=> f
  /\ IsFiniteSet(W) /\ r.count = Cardinality(W)
  /\ TimesOf(W) \in SUBSET Nat /\ IsEarliest(r.since, TimesOf(W))
  /\ r.instances \in Seq(PassedOn)
  /\ Len(r.instances) = IF r.count <= InstanceCap THEN r.count ELSE InstanceCap
  /\ r.truncated \in BOOLEAN /\ (r.truncated <=> InstanceCap < r.count)

LEMMA RowChanged ==
  ASSUME NEW x, RowShape(x), NEW st, NEW c, NEW s, NEW i, NEW t,
         NEW y, y = [x EXCEPT !.state = st, !.count = c, !.since = s, !.instances = i, !.truncated = t]
  PROVE  /\ RowShape(y) /\ y.name = x.name /\ y.state = st /\ y.count = c /\ y.since = s
         /\ y.instances = i /\ y.truncated = t
<1> DEFINE a == x.name
           b == x.source
<1>1. y \in [name : {a}, state : {st}, source : {b}, count : {c}, since : {s}, instances : {i}, truncated : {t}]
  BY DEF RowShape
<1> HIDE DEF a, b
<1> QED
  BY <1>1 DEF RowShape, a

LEMMA JoinedLength ==
  ASSUME NEW T, NEW a \in Seq(T), NEW b \in Seq(T)
  PROVE  a \o b \in Seq(T) /\ Len(a \o b) = Len(a) + Len(b)
OBVIOUS

(* Two rows of a name that tell of different alerts make one of them all.  *)
LEMMA MergeTells ==
  ASSUME NEW x, NEW r, NEW n, NEW V, NEW W, NEW f \in BOOLEAN, NEW g \in BOOLEAN,
         TellsWork(x, n, V, f), TellsWork(r, n, W, g), V \cap W = {},
         NEW h \in BOOLEAN, h <=> f \/ g
  PROVE  TellsWork(Alerts!Merge(x, r), n, V \cup W, h)
<1> DEFINE st == IF Alerts!orderOf(r.state) < Alerts!orderOf(x.state) THEN r.state ELSE x.state
           c == x.count + r.count
           s == Alerts!Earliest({x.since, r.since} \ {None})
           i == Alerts!Capped(x.instances \o r.instances)
           t == x.truncated \/ r.truncated \/ Len(x.instances) + Len(r.instances) > InstanceCap
           y == Alerts!Merge(x, r)
<1>1. y = [x EXCEPT !.state = st, !.count = c, !.since = s, !.instances = i, !.truncated = t]
  BY DEF Alerts!Merge
<1>2. RowShape(x) /\ x.name = n /\ InstanceCap \in Nat
  BY AlertConstants DEF TellsWork
<1>3. st = "firing" <=> h
  BY DEF TellsWork, Alerts!orderOf
<1>4. /\ IsFiniteSet(V \cup W) /\ c = Cardinality(V \cup W)
      /\ x.count \in Nat /\ r.count \in Nat
  <2>1. IsFiniteSet(V) /\ x.count = Cardinality(V) /\ IsFiniteSet(W) /\ r.count = Cardinality(W)
    BY DEF TellsWork
  <2>2. IsFiniteSet(V \cup W) /\ Cardinality(V \cup W) = Cardinality(V) + Cardinality(W) - Cardinality(V \cap W)
    BY <2>1, FS_Union
  <2>3. Cardinality(V \cap W) = 0 /\ Cardinality(V) \in Nat /\ Cardinality(W) \in Nat
    BY <2>1, FS_EmptySet, FS_CardinalityType
  <2> QED
    BY <2>1, <2>2, <2>3
<1>5. TimesOf(V \cup W) \in SUBSET Nat /\ IsEarliest(s, TimesOf(V \cup W))
  <2>1. TimesOf(V \cup W) = TimesOf(V) \cup TimesOf(W)
    BY DEF TimesOf
  <2>2. /\ TimesOf(V) \in SUBSET Nat /\ IsEarliest(x.since, TimesOf(V))
        /\ TimesOf(W) \in SUBSET Nat /\ IsEarliest(r.since, TimesOf(W))
    BY DEF TellsWork
  <2> QED
    BY <2>1, <2>2, EarlierOf
<1>6. /\ i \in Seq(PassedOn) /\ Len(i) = IF c <= InstanceCap THEN c ELSE InstanceCap
      /\ t \in BOOLEAN /\ (t <=> InstanceCap < c)
  <2> DEFINE p == Len(x.instances)
             q == Len(r.instances)
             j == x.instances \o r.instances
  <2>1. /\ x.instances \in Seq(PassedOn) /\ r.instances \in Seq(PassedOn)
        /\ p = IF x.count <= InstanceCap THEN x.count ELSE InstanceCap
        /\ q = IF r.count <= InstanceCap THEN r.count ELSE InstanceCap
        /\ (x.truncated <=> InstanceCap < x.count) /\ (r.truncated <=> InstanceCap < r.count)
    BY DEF TellsWork
  <2>2. j \in Seq(PassedOn) /\ Len(j) = p + q
    BY <2>1, JoinedLength
  <2>3. i \in Seq(PassedOn) /\ Len(i) = IF Len(j) <= InstanceCap THEN Len(j) ELSE InstanceCap
    BY <2>2, CappedLength
  <2>4. t \in BOOLEAN /\ (t <=> x.truncated \/ r.truncated \/ p + q > InstanceCap)
    OBVIOUS
  <2> HIDE DEF p, q, i, j, t
  <2> DEFINE a == x.count
             b == r.count
             u == x.truncated
             v == r.truncated
  <2>5. a \in Nat /\ b \in Nat /\ c = a + b
    BY <1>4
  <2>6. p = (IF a <= InstanceCap THEN a ELSE InstanceCap) /\ q = (IF b <= InstanceCap THEN b ELSE InstanceCap)
    BY <2>1
  <2>7. (u <=> InstanceCap < a) /\ (v <=> InstanceCap < b)
    BY <2>1
  <2>8. t <=> u \/ v \/ p + q > InstanceCap
    BY <2>4
  <2> HIDE DEF a, b, u, v, c
  <2>9. InstanceCap \in Nat
    BY <1>2
  <2>10. /\ (IF p + q <= InstanceCap THEN p + q ELSE InstanceCap) = IF c <= InstanceCap THEN c ELSE InstanceCap
         /\ InstanceCap < a \/ InstanceCap < b \/ p + q > InstanceCap <=> InstanceCap < c
    BY ONLY <2>5, <2>6, <2>9
  <2>11. Len(i) = IF c <= InstanceCap THEN c ELSE InstanceCap
    BY ONLY <2>2, <2>3, <2>10
  <2>12. t <=> InstanceCap < c
    BY ONLY <2>7, <2>8, <2>10
  <2> QED
    BY <2>3, <2>4, <2>11, <2>12
<1> HIDE DEF st, c, s, i, t, y
<1>7. /\ RowShape(y) /\ y.name = x.name /\ y.state = st /\ y.count = c /\ y.since = s
      /\ y.instances = i /\ y.truncated = t
  BY ONLY <1>1, <1>2 DEF RowShape
<1>8. TellsWork(y, n, V \cup W, h)
  BY <1>2, <1>3, <1>4, <1>5, <1>6, <1>7 DEF TellsWork
<1> QED
  BY <1>8 DEF y

(* FiringAlerts' copy of the operators of Ordering is theirs.              *)
LEMMA SameFilter ==
  /\ \A S, R : Alerts!InOrder(S, R) = InOrder(S, R)
  /\ \A s, at : Alerts!ElementsAt(s, at) = ElementsAt(s, at)
<1>1. ASSUME NEW S, NEW R
      PROVE  Alerts!InOrder(S, R) = InOrder(S, R)
  BY Zenon DEF Alerts!InOrder, InOrder, Alerts!Place, Place, Alerts!Cardinality, Cardinality
<1>2. \A S : Alerts!Less(S) = Less(S)
  BY Zenon DEF Alerts!Less, Less
<1>3. \A S : Alerts!Ascending(S) = Ascending(S)
  BY <1>1, <1>2, Zenon DEF Alerts!Ascending, Ascending
<1>4. \A s, at : Alerts!ElementsAt(s, at) = ElementsAt(s, at)
  BY <1>3, Zenon DEF Alerts!ElementsAt, ElementsAt
<1> QED
  BY <1>1, <1>4

(* As many elements as positions are kept.                                 *)
LEMMA ElementsAtLength ==
  ASSUME NEW T, NEW s \in Seq(T), NEW at \in SUBSET (DOMAIN s)
  PROVE  /\ IsFiniteSet(at) /\ Len(ElementsAt(s, at)) = Cardinality(at)
         /\ Ascending(at) \in [1 .. Cardinality(at) -> at]
         /\ \A k \in 1 .. Cardinality(at) : ElementsAt(s, at)[k] = s[Ascending(at)[k]]
         /\ \A x \in at : \E k \in 1 .. Cardinality(at) : Ascending(at)[k] = x
         /\ \A i, j \in 1 .. Cardinality(at) : i < j => Ascending(at)[i] < Ascending(at)[j]
         /\ Cardinality(at) \in Nat
<1> DEFINE p == Ascending(at)
           n == Cardinality(at)
<1>1. DOMAIN s = 1 .. Len(s) /\ Len(s) \in Nat
  OBVIOUS
<1>2. at \in SUBSET Int /\ IsFiniteSet(at)
  <2>1. IsFiniteSet(1 .. Len(s)) /\ at \in SUBSET (1 .. Len(s))
    BY <1>1, FS_Interval
  <2> QED
    BY <1>1, <2>1, FS_Subset
<1>3. /\ n \in Nat /\ p \in [1 .. n -> at]
      /\ \A x \in at : \E k \in 1 .. n : p[k] = x
      /\ \A i, j \in 1 .. n : i < j => p[i] < p[j]
  BY <1>2, AscendingSorts
<1>4. ElementsAt(s, at) = [k \in DOMAIN p |-> s[p[k]]]
  BY DEF ElementsAt
<1> HIDE DEF p, n
<1>5. ElementsAt(s, at) = [k \in 1 .. n |-> s[p[k]]]
  BY <1>3, <1>4
<1>6. Len(ElementsAt(s, at)) = n
  BY <1>3, <1>5
<1> QED
  BY <1>2, <1>3, <1>5, <1>6 DEF p, n

LEMMA Kept ==
  ASSUME NEW T, NEW s \in Seq(T), NEW at \in SUBSET (DOMAIN s)
  PROVE  ElementsAt(s, at) \in Seq(T) /\ Keeps(ElementsAt(s, at), s, at)
BY ElementsAtKeep DEF Keeps

(* The alerts of rule r that are at work, when it is the i-th of a source. *)
ActiveOf(r) == {j \in DOMAIN r.alerts : Alerts!isActive(r.alerts[j])}
WorkOf(r, source, i) == {[at |-> r.alerts[j].at, key |-> <<source, i, j>>] : j \in ActiveOf(r)}

LEMMA WorkCounted ==
  ASSUME NEW r \in Alerts!Rules, NEW source, NEW i
  PROVE  /\ IsFiniteSet(ActiveOf(r))
         /\ IsFiniteSet(WorkOf(r, source, i)) /\ Cardinality(WorkOf(r, source, i)) = Cardinality(ActiveOf(r))
         /\ TimesOf(WorkOf(r, source, i)) = {r.alerts[j].at : j \in ActiveOf(r)}
<1> DEFINE A == ActiveOf(r)
           W == WorkOf(r, source, i)
           f == [j \in A |-> [at |-> r.alerts[j].at, key |-> <<source, i, j>>]]
<1>1. r.alerts \in Seq(PassedOn) /\ A \in SUBSET (DOMAIN r.alerts)
  BY DEF Alerts!Rules, PassedOn, ActiveOf
<1>2. IsFiniteSet(A)
  BY <1>1, ElementsAtLength
<1>3. W = {f[j] : j \in A}
  BY DEF WorkOf
<1>4. TimesOf(W) = {r.alerts[j].at : j \in A}
  <2>1. \A j \in A : f[j].at = r.alerts[j].at
    OBVIOUS
  <2> HIDE DEF f
  <2>2. TimesOf(W) = {f[j].at : j \in A}
    BY <1>3 DEF TimesOf
  <2> QED
    BY <2>1, <2>2
<1>5. \A j, k \in A : f[j] = f[k] => j = k
  <2>1. \A j \in A : f[j].key[3] = j
    OBVIOUS
  <2> QED
    BY <2>1
<1>6. f \in [A -> W] /\ \A w \in W : \E j \in A : f[j] = w
  <2>1. DOMAIN f = A /\ \A j \in A : f[j] \in W
    BY <1>3
  <2> QED
    BY <1>3, <2>1
<1> HIDE DEF f, W, A
<1>7. f \in Bijection(A, W)
  BY <1>5, <1>6 DEF Bijection, Injection, Surjection, IsInjective
<1>8. IsFiniteSet(W) /\ Cardinality(W) = Cardinality(A)
  BY <1>2, <1>7, FS_Bijection DEF ExistsBijection
<1> QED
  BY <1>2, <1>4, <1>8 DEF A, W

(* The row of one rule tells of its alerts.                                *)
LEMMA SummaryTells ==
  ASSUME NEW r \in Alerts!Rules, NEW source, NEW i
  PROVE  TellsWork(Alerts!alertRuleSummary(r, source), r.name, WorkOf(r, source, i), r.state = "firing")
<1> DEFINE A == ActiveOf(r)
           W == WorkOf(r, source, i)
           active == ElementsAt(r.alerts, A)
           y == Alerts!alertRuleSummary(r, source)
           times == {a.at : a \in Alerts!Range(active)}
           cut == Alerts!Capped(active)
           t == Len(active) > InstanceCap
<1>0. r.alerts \in Seq(PassedOn) /\ A \in SUBSET (DOMAIN r.alerts)
  BY DEF Alerts!Rules, PassedOn, ActiveOf
<1>1. {j \in DOMAIN r.alerts : r.alerts[j].state \in {"firing", "pending"}} = A
  BY DEF ActiveOf, Alerts!isActive
<1>2. y = [name |-> r.name, state |-> r.state, source |-> source, count |-> Len(active),
           since |-> Alerts!Earliest(times), instances |-> cut, truncated |-> t]
  BY <1>1, SameFilter DEF Alerts!alertRuleSummary
<1>3. /\ IsFiniteSet(W) /\ Cardinality(W) = Cardinality(A)
      /\ TimesOf(W) = {r.alerts[j].at : j \in A}
  BY WorkCounted
<1>4. active \in Seq(PassedOn) /\ Keeps(active, r.alerts, A) /\ Len(active) = Cardinality(A)
  <2> HIDE DEF A
  <2>1. active \in Seq(PassedOn) /\ Keeps(active, r.alerts, A)
    BY <1>0, Kept
  <2>2. Len(active) = Cardinality(A)
    BY <1>0, ElementsAtLength
  <2> QED
    BY <2>1, <2>2
<1>5. times = {active[k].at : k \in DOMAIN active}
  BY DEF Alerts!Range
<1>6. cut \in Seq(PassedOn) /\ Len(cut) = IF Len(active) <= InstanceCap THEN Len(active) ELSE InstanceCap
  BY <1>4, CappedLength
<1>7. t \in BOOLEAN /\ (t <=> InstanceCap < Len(active))
  <2>1. Len(active) \in Nat /\ InstanceCap \in Nat
    BY <1>4, AlertConstants
  <2> QED
    BY <2>1
<1> HIDE DEF A, W, active, y, times, cut, t
<1>8. times = TimesOf(W)
  <2>1. \A k \in DOMAIN active : \E j \in A : active[k] = r.alerts[j]
    BY <1>4 DEF Keeps
  <2>2. \A j \in A : \E k \in DOMAIN active : active[k] = r.alerts[j]
    BY <1>4 DEF Keeps
  <2> QED
    BY <1>3, <1>5, <2>1, <2>2
<1>9. TimesOf(W) \in SUBSET Nat
  <2>1. \A k \in DOMAIN active : active[k] \in PassedOn
    BY <1>4
  <2> QED
    BY <1>5, <1>8, <2>1 DEF PassedOn
<1>10. IsEarliest(Alerts!Earliest(times), TimesOf(W))
  BY <1>8, <1>9, EarliestIs
<1>11. /\ RowShape(y) /\ y.name = r.name /\ y.state = r.state /\ y.count = Len(active)
       /\ y.since = Alerts!Earliest(times) /\ y.instances = cut
       /\ y.truncated = t
  BY <1>2 DEF RowShape
<1>12. y.truncated \in BOOLEAN /\ (y.truncated <=> InstanceCap < Len(active))
  BY <1>7, <1>11
<1>13. TellsWork(y, r.name, W, r.state = "firing")
  BY <1>3, <1>4, <1>6, <1>9, <1>10, <1>11, <1>12 DEF TellsWork
<1> QED
  BY <1>13 DEF y, W

(* The rows of a name are merged one after the other.                      *)
IsMerging(g, s, m) == g = [k \in 1 .. m |-> IF k = 1 THEN s[1] ELSE Alerts!Merge(g[k - 1], s[k])]

LEMMA MergingExists ==
  ASSUME NEW s, NEW m \in Nat, m >= 1
  PROVE  \E g : IsMerging(g, s, m)
<1> DEFINE Bad == {k \in Nat : k >= 1 /\ ~ \E g : IsMerging(g, s, k)}
<1>1. SUFFICES ASSUME Bad # {} PROVE FALSE
  OBVIOUS
<1>2. PICK k \in Bad : \A j \in Bad : k <= j
  <2>1. Bad \in SUBSET Nat /\ Bad # {}
    BY <1>1
  <2> HIDE DEF Bad
  <2> QED
    BY <2>1, LeastNumber
<1>3. k \in Nat /\ k >= 1 /\ ~ \E g : IsMerging(g, s, k)
  BY <1>2
<1>4. CASE k = 1
  <2> DEFINE g == [n \in 1 .. 1 |-> s[1]]
  <2>1. IsMerging(g, s, 1)
    <3>1. \A n \in 1 .. 1 : n = 1
      OBVIOUS
    <3> QED
      BY <3>1 DEF IsMerging
  <2> QED
    BY <1>3, <1>4, <2>1
<1>5. CASE k > 1
  <2>1. k - 1 \in Nat /\ k - 1 >= 1 /\ k - 1 \notin Bad
    BY <1>2, <1>3, <1>5
  <2>2. PICK g : IsMerging(g, s, k - 1)
    BY <2>1
  <2> DEFINE h == [n \in 1 .. k |-> IF n = k THEN Alerts!Merge(g[k - 1], s[k]) ELSE g[n]]
             F(f) == [n \in 1 .. k |-> IF n = 1 THEN s[1] ELSE Alerts!Merge(f[n - 1], s[n])]
  <2>3. g[1] = s[1] /\ \A n \in 2 .. k - 1 : g[n] = Alerts!Merge(g[n - 1], s[n])
    BY <2>1, <2>2 DEF IsMerging
  <2>4. \A n \in 1 .. k : h[n] = IF n = k THEN Alerts!Merge(g[k - 1], s[k]) ELSE g[n]
    OBVIOUS
  <2>5. DOMAIN h = 1 .. k /\ h = [n \in 1 .. k |-> h[n]]
    OBVIOUS
  <2> HIDE DEF h
  <2>6. ASSUME NEW n \in 1 .. k
        PROVE  h[n] = F(h)[n]
    <3>1. CASE n = 1
      BY <1>3, <1>5, <2>3, <2>4, <3>1
    <3>2. CASE n \in 2 .. k - 1
      <4>1. h[n - 1] = g[n - 1] /\ h[n] = g[n] /\ n # 1
        BY <1>3, <2>4, <3>2
      <4> QED
        BY <2>3, <3>2, <4>1
    <3>3. CASE n = k
      <4>1. h[n - 1] = g[k - 1] /\ n # 1
        BY <1>3, <1>5, <2>4, <3>3
      <4> QED
        BY <2>4, <3>3, <4>1
    <3> QED
      BY <1>3, <3>1, <3>2, <3>3
  <2>7. h = F(h)
    <3>1. DOMAIN F(h) = 1 .. k /\ F(h) = [n \in 1 .. k |-> F(h)[n]]
      OBVIOUS
    <3> HIDE DEF F
    <3> QED
      BY <2>5, <2>6, <3>1
  <2>8. IsMerging(h, s, k)
    BY <2>7 DEF IsMerging
  <2> QED
    BY <1>3, <2>8
<1> QED
  BY <1>3, <1>4, <1>5

LEMMA MergingIs ==
  ASSUME NEW E, NEW s \in Seq(E), Len(s) >= 1
  PROVE  /\ Alerts!Merging(s)[1] = s[1]
         /\ \A k \in 2 .. Len(s) : Alerts!Merging(s)[k] = Alerts!Merge(Alerts!Merging(s)[k - 1], s[k])
<1> DEFINE g == Alerts!Merging(s)
           m == Len(s)
<1>1. m \in Nat /\ m >= 1
  OBVIOUS
<1>2. g = CHOOSE f : IsMerging(f, s, m)
  BY DEF Alerts!Merging, IsMerging
<1> HIDE DEF g, m
<1>3. IsMerging(g, s, m)
  BY <1>1, <1>2, MergingExists
<1> DEFINE G(k) == IF k = 1 THEN s[1] ELSE Alerts!Merge(g[k - 1], s[k])
<1>4. \A k \in 1 .. m : g[k] = G(k)
  BY <1>3 DEF IsMerging
<1>5. g[1] = s[1] /\ \A k \in 2 .. m : g[k] = Alerts!Merge(g[k - 1], s[k])
  BY <1>1, <1>4
<1> QED
  BY <1>5 DEF g, m

(* Rows of name n tell of different alerts each, F of which fire.          *)
EachTells(s, n, W, F) ==
  /\ \A k \in 1 .. Len(s) : F[k] \in BOOLEAN /\ TellsWork(s[k], n, W[k], F[k])
  /\ \A j, k \in 1 .. Len(s) : j # k => W[j] \cap W[k] = {}

(* All the alerts, and whether any fires.                                  *)
AllOf(s, W, F, X, h) == X = UNION {W[k] : k \in 1 .. Len(s)} /\ (h <=> \E k \in 1 .. Len(s) : F[k])

(* Rows of one name that tell of different alerts make one of them all.    *)
LEMMA MergedTells ==
  ASSUME NEW E, NEW s \in Seq(E), Len(s) >= 1, NEW n, NEW W, NEW F, EachTells(s, n, W, F),
         NEW h \in BOOLEAN, NEW X, AllOf(s, W, F, X, h)
  PROVE  TellsWork(Alerts!Merging(s)[Len(s)], n, X, h)
<1> DEFINE g == Alerts!Merging(s)
           m == Len(s)
           V(k) == UNION {W[i] : i \in 1 .. k}
           f(k) == \E i \in 1 .. k : F[i]
           Told(k) == TellsWork(g[k], n, V(k), f(k))
           Bad == {k \in 1 .. m : ~Told(k)}
<1>1. m \in Nat /\ m >= 1
  OBVIOUS
<1>2. g[1] = s[1] /\ \A k \in 2 .. m : g[k] = Alerts!Merge(g[k - 1], s[k])
  BY MergingIs
<1>a. /\ \A k \in 1 .. m : F[k] \in BOOLEAN /\ TellsWork(s[k], n, W[k], F[k])
      /\ \A j, k \in 1 .. m : j # k => W[j] \cap W[k] = {}
  BY DEF EachTells
<1> HIDE DEF g, m, Told
<1>3. Bad = {}
  <2>1. SUFFICES ASSUME Bad # {} PROVE FALSE
    OBVIOUS
  <2>2. PICK k \in Bad : \A j \in Bad : k <= j
    <3>1. Bad \in SUBSET Nat /\ Bad # {}
      BY <1>1, <2>1
    <3> HIDE DEF Bad
    <3> QED
      BY <3>1, LeastNumber
  <2>3. k \in 1 .. m /\ ~Told(k)
    BY <2>2
  <2>4. F[k] \in BOOLEAN /\ TellsWork(s[k], n, W[k], F[k])
    BY <1>a, <2>3
  <2>5. CASE k = 1
    <3>1. V(1) = W[1]
      <4>1. 1 .. 1 = {1}
        OBVIOUS
      <4> QED
        BY <4>1
    <3>2. f(1) <=> F[1]
      <4>1. 1 .. 1 = {1}
        OBVIOUS
      <4> QED
        BY <4>1
    <3> HIDE DEF V, f
    <3>3. TellsWork(g[1], n, V(1), F[1])
      BY <1>2, <2>4, <2>5, <3>1
    <3>4. TellsWork(g[1], n, V(1), f(1))
      BY <3>2, <3>3 DEF TellsWork
    <3> QED
      BY <2>3, <2>5, <3>4 DEF Told
  <2>6. CASE k # 1
    <3>1. k \in 2 .. m /\ k - 1 \in 1 .. m /\ k - 1 < k /\ k - 1 \in Nat
      BY <1>1, <2>3, <2>6
    <3>2. k - 1 \notin Bad
      BY <2>2, <3>1
    <3>3. TellsWork(g[k - 1], n, V(k - 1), f(k - 1))
      <4>1. Told(k - 1)
        BY <3>1, <3>2
      <4> QED
        BY <4>1 DEF Told
    <3>4. 1 .. k = (1 .. (k - 1)) \cup {k}
      BY <3>1
    <3>5. V(k) = V(k - 1) \cup W[k]
      BY <3>4
    <3>6. f(k) <=> f(k - 1) \/ F[k]
      BY <3>4
    <3>7. V(k - 1) \cap W[k] = {}
      <4>1. ASSUME NEW i \in 1 .. (k - 1)
            PROVE  W[i] \cap W[k] = {}
        <5>1. i \in 1 .. m /\ i # k /\ k \in 1 .. m
          BY ONLY <1>1, <2>3, <3>1, i \in 1 .. (k - 1)
        <5> QED
          BY <1>a, <5>1
      <4> QED
        BY <4>1
    <3>8. PICK p \in BOOLEAN, q \in BOOLEAN : (p <=> f(k - 1)) /\ (q <=> f(k))
      OBVIOUS
    <3> DEFINE A == V(k - 1)
    <3> HIDE DEF V, f
    <3>9. TellsWork(g[k - 1], n, A, p)
      BY <3>3, <3>8 DEF TellsWork
    <3>10. q <=> p \/ F[k]
      BY <3>6, <3>8
    <3>11. A \cap W[k] = {}
      BY <3>7
    <3> HIDE DEF A
    <3>12. TellsWork(Alerts!Merge(g[k - 1], s[k]), n, A \cup W[k], q)
      BY <2>4, <3>9, <3>10, <3>11, MergeTells
    <3>13. TellsWork(g[k], n, V(k), q)
      BY <1>2, <3>1, <3>5, <3>12 DEF A
    <3>14. TellsWork(g[k], n, V(k), f(k))
      BY <3>8, <3>13 DEF TellsWork
    <3> QED
      BY <2>3, <3>14 DEF Told
  <2> QED
    BY <2>5, <2>6
<1>4. m \in 1 .. m /\ m \notin Bad
  BY <1>1, <1>3
<1>5. TellsWork(g[m], n, V(m), f(m))
  BY <1>4 DEF Told
<1>6. f(m) <=> h
  BY DEF m, AllOf
<1> HIDE DEF f
<1>7. V(m) = X
  BY DEF m, AllOf
<1> HIDE DEF V
<1>8. TellsWork(g[m], n, X, h)
  BY <1>5, <1>6, <1>7 DEF TellsWork
<1> QED
  BY <1>8 DEF g, m

(* What a source lists, row by row.                                        *)
LEMMA SummariesAre ==
  ASSUME NEW a \in AlertAnswers, NEW source
  PROVE  LET s == Alerts!Summaries(a, source)
             l == Alerts!Listed(a, source)
         IN /\ l = None => s = << >>
            /\ l # None => /\ source \in Configured /\ l = a[source] /\ l \in Seq(Alerts!Rules)
                           /\ s = [i \in 1 .. Len(l) |-> Alerts!alertRuleSummary(l[i], source)]
            /\ s \in Seq({Alerts!alertRuleSummary(r, source) : r \in Alerts!Rules})
            /\ Len(s) \in Nat
<1> DEFINE s == Alerts!Summaries(a, source)
           l == Alerts!Listed(a, source)
           T == {Alerts!alertRuleSummary(r, source) : r \in Alerts!Rules}
<1>1. CASE l = None
  <2>1. s = << >>
    BY <1>1 DEF Alerts!Summaries
  <2>2. << >> \in Seq(T) /\ Len(<< >>) \in Nat
    OBVIOUS
  <2> QED
    BY <1>1, <2>1, <2>2
<1>2. CASE l # None
  <2>1. source \in Configured /\ l = a[source] /\ l # None
    BY <1>2 DEF Alerts!Listed
  <2>2. l \in Seq(Alerts!Rules)
    BY <2>1, AlertConstants
  <2>3. s = [i \in DOMAIN l |-> Alerts!alertRuleSummary(l[i], source)]
    BY <1>2, <2>1 DEF Alerts!Summaries
  <2> HIDE DEF l, s
  <2>4. DOMAIN l = 1 .. Len(l) /\ Len(l) \in Nat /\ \A i \in DOMAIN l : l[i] \in Alerts!Rules
    BY <2>2
  <2>5. \A i \in DOMAIN l : Alerts!alertRuleSummary(l[i], source) \in T
    BY <2>4
  <2> HIDE DEF T
  <2>6. s \in [1 .. Len(l) -> T] /\ s = [i \in 1 .. Len(l) |-> Alerts!alertRuleSummary(l[i], source)]
    BY <2>3, <2>4, <2>5
  <2>7. s \in Seq(T) /\ Len(s) \in Nat
    BY <2>4, <2>6
  <2> QED
    BY <1>2, <2>1, <2>2, <2>6, <2>7 DEF l, s, T
<1> QED
  BY <1>1, <1>2

LEMMA JoinedIs ==
  ASSUME NEW S, NEW T, NEW x \in Seq(S), NEW y \in Seq(T)
  PROVE  x \o y = [p \in 1 .. Len(x) + Len(y) |-> IF p <= Len(x) THEN x[p] ELSE y[p - Len(x)]]
<1> DEFINE U == S \cup T
           z == x \o y
           n == Len(x) + Len(y)
<1>1. x \in Seq(U) /\ y \in Seq(U)
  OBVIOUS
<1> HIDE DEF U
<1>2. /\ z \in Seq(U) /\ Len(z) = n
      /\ \A p \in 1 .. n : z[p] = IF p <= Len(x) THEN x[p] ELSE y[p - Len(x)]
  BY <1>1, ConcatProperties
<1> HIDE DEF z
<1>3. z = [p \in 1 .. n |-> z[p]]
  BY <1>2
<1> QED
  BY <1>2, <1>3 DEF z

AllSummaries(a) == Alerts!Summaries(a, "mimir") \o Alerts!Summaries(a, "grafana")

(* Which rule the row at position p is of.                                 *)
SourceAt(a, p) == IF p <= Len(Alerts!Summaries(a, "mimir")) THEN "mimir" ELSE "grafana"
IndexAt(a, p) ==
  IF p <= Len(Alerts!Summaries(a, "mimir")) THEN p ELSE p - Len(Alerts!Summaries(a, "mimir"))
RuleAt(a, p) == a[SourceAt(a, p)][IndexAt(a, p)]
WorkAt(a, p) == WorkOf(RuleAt(a, p), SourceAt(a, p), IndexAt(a, p))

(* Every rule that is listed has a position, and one only.                 *)
LEMMA RowsAreRules ==
  ASSUME NEW a \in AlertAnswers
  PROVE  LET L == AllSummaries(a)
         IN /\ L \in Seq({L[p] : p \in DOMAIN L}) /\ DOMAIN L = 1 .. Len(L) /\ Len(L) \in Nat
            /\ \A p \in DOMAIN L :
                 LET s == SourceAt(a, p)
                 IN /\ Alerts!Listed(a, s) # None /\ IndexAt(a, p) \in DOMAIN a[s]
                    /\ s \in {"mimir", "grafana"}
                    /\ RuleAt(a, p) \in Alerts!Rules /\ L[p] = Alerts!alertRuleSummary(RuleAt(a, p), s)
            /\ \A s \in {"mimir", "grafana"} : Alerts!Listed(a, s) # None =>
                 \A i \in DOMAIN a[s] : \E p \in DOMAIN L : SourceAt(a, p) = s /\ IndexAt(a, p) = i
            /\ \A p, q \in DOMAIN L :
                 SourceAt(a, p) = SourceAt(a, q) /\ IndexAt(a, p) = IndexAt(a, q) => p = q
<1> DEFINE x == Alerts!Summaries(a, "mimir")
           y == Alerts!Summaries(a, "grafana")
           L == AllSummaries(a)
           lx == Alerts!Listed(a, "mimir")
           ly == Alerts!Listed(a, "grafana")
           m == Len(x)
           n == Len(y)
<1>1. /\ lx = None => x = << >>
      /\ lx # None => /\ lx = a["mimir"] /\ lx \in Seq(Alerts!Rules)
                      /\ x = [i \in 1 .. Len(lx) |-> Alerts!alertRuleSummary(lx[i], "mimir")]
      /\ x \in Seq({Alerts!alertRuleSummary(r, "mimir") : r \in Alerts!Rules}) /\ m \in Nat
  BY SummariesAre
<1>2. /\ ly = None => y = << >>
      /\ ly # None => /\ ly = a["grafana"] /\ ly \in Seq(Alerts!Rules)
                      /\ y = [i \in 1 .. Len(ly) |-> Alerts!alertRuleSummary(ly[i], "grafana")]
      /\ y \in Seq({Alerts!alertRuleSummary(r, "grafana") : r \in Alerts!Rules}) /\ n \in Nat
  BY SummariesAre
<1>3. L = x \o y
  BY DEF AllSummaries
<1>s. \A p : SourceAt(a, p) = (IF p <= m THEN "mimir" ELSE "grafana") /\ IndexAt(a, p) = IF p <= m THEN p ELSE p - m
  BY DEF SourceAt, IndexAt
<1> HIDE DEF x, y, L, lx, ly
<1>4. /\ DOMAIN L = 1 .. m + n /\ Len(L) = m + n
      /\ \A p \in 1 .. m + n : L[p] = IF p <= m THEN x[p] ELSE y[p - m]
  <2>1. x \in Seq({Alerts!alertRuleSummary(r, "mimir") : r \in Alerts!Rules})
    BY <1>1
  <2>2. y \in Seq({Alerts!alertRuleSummary(r, "grafana") : r \in Alerts!Rules})
    BY <1>2
  <2>3. L = [p \in 1 .. m + n |-> IF p <= m THEN x[p] ELSE y[p - m]]
    BY <1>3, <2>1, <2>2, JoinedIs
  <2>4. m \in Nat /\ n \in Nat
    BY <1>1, <1>2
  <2> HIDE DEF m, n
  <2>5. DOMAIN L = 1 .. m + n /\ \A p \in 1 .. m + n : L[p] = IF p <= m THEN x[p] ELSE y[p - m]
    BY <2>3
  <2>6. Len(L) = m + n
    BY <2>3, <2>4
  <2> QED
    BY <2>5, <2>6
<1>5. /\ m = IF lx = None THEN 0 ELSE Len(lx)
      /\ lx # None => /\ lx = a["mimir"] /\ DOMAIN a["mimir"] = 1 .. m
                      /\ \A i \in 1 .. m : a["mimir"][i] \in Alerts!Rules
                                           /\ x[i] = Alerts!alertRuleSummary(a["mimir"][i], "mimir")
  BY <1>1
<1>6. /\ n = IF ly = None THEN 0 ELSE Len(ly)
      /\ ly # None => /\ ly = a["grafana"] /\ DOMAIN a["grafana"] = 1 .. n
                      /\ \A i \in 1 .. n : a["grafana"][i] \in Alerts!Rules
                                           /\ y[i] = Alerts!alertRuleSummary(a["grafana"][i], "grafana")
  BY <1>2
<1>n. m \in Nat /\ n \in Nat
  BY <1>1, <1>2
<1> HIDE DEF m, n
<1>7. ASSUME NEW p \in DOMAIN L
      PROVE  LET s == SourceAt(a, p)
             IN /\ Alerts!Listed(a, s) # None /\ IndexAt(a, p) \in DOMAIN a[s]
                /\ s \in {"mimir", "grafana"}
                /\ RuleAt(a, p) \in Alerts!Rules /\ L[p] = Alerts!alertRuleSummary(RuleAt(a, p), s)
  <2>1. CASE p <= m
    <3>1. p \in 1 .. m /\ SourceAt(a, p) = "mimir" /\ IndexAt(a, p) = p /\ lx # None /\ L[p] = x[p]
      BY <1>n, <1>s, <1>4, <1>5, <2>1
    <3>2. RuleAt(a, p) = a["mimir"][p]
      BY <3>1 DEF RuleAt
    <3> QED
      BY <1>5, <3>1, <3>2 DEF lx
  <2>2. CASE ~(p <= m)
    <3>1. p - m \in 1 .. n /\ SourceAt(a, p) = "grafana" /\ IndexAt(a, p) = p - m /\ ly # None /\ L[p] = y[p - m]
      BY <1>n, <1>s, <1>4, <1>6, <2>2
    <3>2. RuleAt(a, p) = a["grafana"][p - m]
      BY <3>1 DEF RuleAt
    <3> QED
      BY <1>6, <3>1, <3>2 DEF ly
  <2> QED
    BY <2>1, <2>2
<1>8. ASSUME NEW s \in {"mimir", "grafana"}, Alerts!Listed(a, s) # None, NEW i \in DOMAIN a[s]
      PROVE  \E p \in DOMAIN L : SourceAt(a, p) = s /\ IndexAt(a, p) = i
  <2>1. CASE s = "mimir"
    <3>1. i \in 1 .. m
      BY <1>5, <1>8, <2>1 DEF lx
    <3>2. i \in DOMAIN L /\ i <= m
      BY <1>n, <1>4, <3>1
    <3> QED
      BY <1>s, <2>1, <3>2
  <2>2. CASE s = "grafana"
    <3>1. i \in 1 .. n
      BY <1>6, <1>8, <2>2 DEF ly
    <3> DEFINE p == i + m
    <3>2. p \in DOMAIN L /\ ~(p <= m) /\ p - m = i
      BY <1>n, <1>4, <3>1
    <3> HIDE DEF p
    <3> QED
      BY <1>s, <2>2, <3>2
  <2> QED
    BY <2>1, <2>2
<1>9. ASSUME NEW p \in DOMAIN L, NEW q \in DOMAIN L,
             SourceAt(a, p) = SourceAt(a, q), IndexAt(a, p) = IndexAt(a, q)
      PROVE  p = q
  BY <1>n, <1>s, <1>4, <1>9
<1>10. L \in Seq({L[p] : p \in DOMAIN L}) /\ DOMAIN L = 1 .. Len(L) /\ Len(L) \in Nat
  <2>1. Len(L) = m + n /\ m + n \in Nat /\ DOMAIN L = 1 .. m + n
    BY <1>n, <1>4
  <2>2. L = [p \in 1 .. m + n |-> L[p]]
    <3>1. L = [p \in 1 .. Len(x) + Len(y) |-> IF p <= Len(x) THEN x[p] ELSE y[p - Len(x)]]
      BY <1>1, <1>2, <1>3, JoinedIs
    <3> QED
      BY <1>4, <3>1 DEF m, n
  <2> QED
    BY <2>1, <2>2
<1> QED
  BY <1>7, <1>8, <1>9, <1>10 DEF L

(* Alerts of different rules are different.                                *)
LEMMA WorkIsOwn ==
  ASSUME NEW r, NEW s, NEW i, NEW q, NEW t, NEW j, ~(s = t /\ i = j)
  PROVE  WorkOf(r, s, i) \cap WorkOf(q, t, j) = {}
<1>1. \A w \in WorkOf(r, s, i) : w.key[1] = s /\ w.key[2] = i
  BY DEF WorkOf
<1>2. \A w \in WorkOf(q, t, j) : w.key[1] = t /\ w.key[2] = j
  BY DEF WorkOf
<1> QED
  BY <1>1, <1>2

(* The positions of a name in what both sources list.                      *)
PlacesOf(a, n) == {p \in DOMAIN AllSummaries(a) : AllSummaries(a)[p].name = n}

LEMMA NameOfRow ==
  ASSUME NEW a \in AlertAnswers, NEW p \in DOMAIN AllSummaries(a)
  PROVE  AllSummaries(a)[p].name = RuleAt(a, p).name
<1>1. AllSummaries(a)[p] = Alerts!alertRuleSummary(RuleAt(a, p), SourceAt(a, p))
  BY RowsAreRules
<1>2. \A r, o : Alerts!alertRuleSummary(r, o).name = r.name
  BY DEF Alerts!alertRuleSummary
<1> QED
  BY <1>1, <1>2

(* What is at work under a name is at work for one of its rules.           *)
LEMMA AtWorkByRule ==
  ASSUME NEW a \in AlertAnswers, NEW n
  PROVE  Alerts!AtWork(a, n) = UNION {WorkAt(a, p) : p \in PlacesOf(a, n)}
<1> DEFINE L == AllSummaries(a)
           P == PlacesOf(a, n)
           S == {s \in {"mimir", "grafana"} : Alerts!Listed(a, s) # None}
           I(s) == {i \in DOMAIN a[s] : a[s][i].name = n}
<1>1. Alerts!AtWork(a, n) = UNION {UNION {WorkOf(a[s][i], s, i) : i \in I(s)} : s \in S}
  BY DEF Alerts!AtWork, WorkOf, ActiveOf
<1>2. /\ \A p \in P : p \in DOMAIN L /\ L[p].name = n
      /\ \A p \in DOMAIN L : L[p].name = n => p \in P
  BY DEF PlacesOf
<1>3. \A p \in DOMAIN L : L[p].name = RuleAt(a, p).name
  BY NameOfRow
<1>4. \A p \in DOMAIN L : SourceAt(a, p) \in S /\ IndexAt(a, p) \in DOMAIN a[SourceAt(a, p)]
  BY RowsAreRules
<1>5. \A s \in S : \A i \in DOMAIN a[s] : \E p \in DOMAIN L : SourceAt(a, p) = s /\ IndexAt(a, p) = i
  BY RowsAreRules
<1> HIDE DEF L, P, S
<1>6. \A p : RuleAt(a, p) = a[SourceAt(a, p)][IndexAt(a, p)]
  BY DEF RuleAt
<1>7. \A p : WorkAt(a, p) = WorkOf(a[SourceAt(a, p)][IndexAt(a, p)], SourceAt(a, p), IndexAt(a, p))
  BY <1>6 DEF WorkAt
<1>8. ASSUME NEW p \in P
      PROVE  \E s \in S : \E i \in I(s) : WorkAt(a, p) = WorkOf(a[s][i], s, i)
  BY <1>2, <1>3, <1>4, <1>6, <1>7
<1>9. ASSUME NEW s \in S, NEW i \in I(s)
      PROVE  \E p \in P : WorkAt(a, p) = WorkOf(a[s][i], s, i)
  <2>1. PICK p \in DOMAIN L : SourceAt(a, p) = s /\ IndexAt(a, p) = i
    BY <1>5
  <2>2. L[p].name = n
    BY <1>3, <1>6, <2>1
  <2> QED
    BY <1>2, <1>7, <2>1, <2>2
<1>10. UNION {UNION {WorkOf(a[s][i], s, i) : i \in I(s)} : s \in S} = UNION {WorkAt(a, p) : p \in P}
  <2> HIDE DEF I
  <2>1. ASSUME NEW w, NEW s \in S, NEW i \in I(s), w \in WorkOf(a[s][i], s, i)
        PROVE  w \in UNION {WorkAt(a, p) : p \in P}
    BY <1>9, <2>1
  <2>2. ASSUME NEW w, NEW p \in P, w \in WorkAt(a, p)
        PROVE  w \in UNION {UNION {WorkOf(a[s][i], s, i) : i \in I(s)} : s \in S}
    BY <1>8, <2>2
  <2> QED
    BY <2>1, <2>2
<1> QED
  BY <1>1, <1>10 DEF P

LEMMA FiringByRule ==
  ASSUME NEW a \in AlertAnswers, NEW n
  PROVE  Alerts!SaysFiring(a, n) <=> \E p \in PlacesOf(a, n) : RuleAt(a, p).state = "firing"
<1> DEFINE L == AllSummaries(a)
           P == PlacesOf(a, n)
           S == {s \in {"mimir", "grafana"} : Alerts!Listed(a, s) # None}
<1>1. Alerts!SaysFiring(a, n) <=>
        \E s \in S : \E i \in DOMAIN a[s] : a[s][i].name = n /\ a[s][i].state = "firing"
  BY DEF Alerts!SaysFiring, Alerts!Range
<1>2. /\ \A p \in P : p \in DOMAIN L /\ L[p].name = n
      /\ \A p \in DOMAIN L : L[p].name = n => p \in P
  BY DEF PlacesOf
<1>3. \A p \in DOMAIN L : L[p].name = RuleAt(a, p).name
  BY NameOfRow
<1>4. \A p \in DOMAIN L : SourceAt(a, p) \in S /\ IndexAt(a, p) \in DOMAIN a[SourceAt(a, p)]
  BY RowsAreRules
<1>5. \A s \in S : \A i \in DOMAIN a[s] : \E p \in DOMAIN L : SourceAt(a, p) = s /\ IndexAt(a, p) = i
  BY RowsAreRules
<1>6. \A p : RuleAt(a, p) = a[SourceAt(a, p)][IndexAt(a, p)]
  BY DEF RuleAt
<1> HIDE DEF L, P, S
<1>7. ASSUME NEW s \in S, NEW i \in DOMAIN a[s], a[s][i].name = n, a[s][i].state = "firing"
      PROVE  \E p \in P : RuleAt(a, p).state = "firing"
  BY <1>2, <1>3, <1>5, <1>6, <1>7
<1>8. ASSUME NEW p \in P, RuleAt(a, p).state = "firing"
      PROVE  \E s \in S : \E i \in DOMAIN a[s] : a[s][i].name = n /\ a[s][i].state = "firing"
  BY <1>2, <1>3, <1>4, <1>6, <1>8
<1> QED
  BY <1>1, <1>7, <1>8 DEF P

(* The row of a name tells of everything at work under it.                 *)
LEMMA RowOfName ==
  ASSUME NEW a \in AlertAnswers, NEW n \in Alerts!NamesOf(AllSummaries(a)),
         NEW h \in BOOLEAN, h <=> Alerts!SaysFiring(a, n)
  PROVE  TellsWork(Alerts!Merged(AllSummaries(a), n), n, Alerts!AtWork(a, n), h)
<1> DEFINE L == AllSummaries(a)
           P == PlacesOf(a, n)
           T == {L[p] : p \in DOMAIN L}
           s == ElementsAt(L, P)
           m == Cardinality(P)
           pos == Ascending(P)
           W == [k \in 1 .. m |-> WorkAt(a, pos[k])]
           F == [k \in 1 .. m |-> RuleAt(a, pos[k]).state = "firing"]
<1>1. L \in Seq(T) /\ P \in SUBSET (DOMAIN L)
  BY RowsAreRules DEF PlacesOf
<1>2. P # {}
  BY DEF PlacesOf, Alerts!NamesOf
<1>3. Alerts!Merged(L, n) = Alerts!Merging(s)[Len(s)]
  BY SameFilter DEF Alerts!Merged, PlacesOf
<1>4. \A p \in DOMAIN L : /\ L[p].name = RuleAt(a, p).name
                          /\ RuleAt(a, p) \in Alerts!Rules
                          /\ L[p] = Alerts!alertRuleSummary(RuleAt(a, p), SourceAt(a, p))
  BY RowsAreRules, NameOfRow
<1>5. \A p, q \in DOMAIN L :
        SourceAt(a, p) = SourceAt(a, q) /\ IndexAt(a, p) = IndexAt(a, q) => p = q
  BY RowsAreRules
<1>6. \A p \in P : L[p].name = n
  BY DEF PlacesOf
<1> HIDE DEF L, P, T
<1>7. s \in Seq(T)
  BY <1>1, Kept
<1>8. /\ IsFiniteSet(P) /\ Len(s) = m /\ pos \in [1 .. m -> P] /\ m \in Nat
      /\ \A k \in 1 .. m : s[k] = L[pos[k]]
      /\ \A x \in P : \E k \in 1 .. m : pos[k] = x
      /\ \A i, j \in 1 .. m : i < j => pos[i] < pos[j]
  BY <1>1, ElementsAtLength
<1> HIDE DEF s, m, pos
<1>9. m >= 1
  BY <1>2, <1>8
<1>10. \A k \in 1 .. m : pos[k] \in P /\ pos[k] \in DOMAIN L
  BY <1>1, <1>8
<1>11. \A k \in 1 .. m : W[k] = WorkAt(a, pos[k]) /\ F[k] \in BOOLEAN /\ (F[k] <=> RuleAt(a, pos[k]).state = "firing")
  OBVIOUS
<1> HIDE DEF W, F
<1>12. ASSUME NEW k \in 1 .. m
       PROVE  F[k] \in BOOLEAN /\ TellsWork(s[k], n, W[k], F[k])
  <2> DEFINE p == pos[k]
             r == RuleAt(a, p)
             o == SourceAt(a, p)
             i == IndexAt(a, p)
  <2>1. /\ r \in Alerts!Rules /\ r.name = n
        /\ s[k] = Alerts!alertRuleSummary(r, o)
    BY <1>4, <1>6, <1>8, <1>10
  <2>2. W[k] = WorkOf(r, o, i)
    BY <1>11 DEF WorkAt
  <2>3. F[k] \in BOOLEAN /\ (F[k] <=> r.state = "firing")
    BY <1>11
  <2> HIDE DEF r, o, i, p
  <2>4. TellsWork(Alerts!alertRuleSummary(r, o), r.name, WorkOf(r, o, i), r.state = "firing")
    BY <2>1, SummaryTells
  <2>5. TellsWork(s[k], n, W[k], r.state = "firing")
    BY <2>1, <2>2, <2>4
  <2> QED
    BY <2>3, <2>5 DEF TellsWork
<1>13. ASSUME NEW j \in 1 .. m, NEW k \in 1 .. m, j # k
       PROVE  W[j] \cap W[k] = {}
  <2>1. pos[j] # pos[k]
    <3>1. j < k \/ k < j
      BY <1>13
    <3>2. pos[j] \in Int /\ pos[k] \in Int
      BY <1>1, <1>10
    <3> QED
      BY <1>8, <3>1, <3>2
  <2>2. ~(SourceAt(a, pos[j]) = SourceAt(a, pos[k]) /\ IndexAt(a, pos[j]) = IndexAt(a, pos[k]))
    BY <1>5, <1>10, <2>1
  <2> QED
    BY <1>11, <2>2, WorkIsOwn DEF WorkAt
<1>14. (\E k \in 1 .. m : F[k]) <=> h
  <2>1. Alerts!SaysFiring(a, n) <=> \E p \in P : RuleAt(a, p).state = "firing"
    BY FiringByRule DEF P
  <2> QED
    BY <1>8, <1>10, <1>11, <2>1
<1>15. UNION {W[k] : k \in 1 .. m} = Alerts!AtWork(a, n)
  <2>1. Alerts!AtWork(a, n) = UNION {WorkAt(a, p) : p \in P}
    BY AtWorkByRule DEF P
  <2>2. {W[k] : k \in 1 .. m} = {WorkAt(a, p) : p \in P}
    BY <1>8, <1>10, <1>11
  <2> QED
    BY <2>1, <2>2
<1>16. Len(s) >= 1 /\ EachTells(s, n, W, F)
  BY <1>8, <1>9, <1>12, <1>13 DEF EachTells
<1>17. AllOf(s, W, F, Alerts!AtWork(a, n), h)
  BY <1>8, <1>14, <1>15 DEF AllOf
<1>18. TellsWork(Alerts!Merging(s)[Len(s)], n, Alerts!AtWork(a, n), h)
  BY <1>7, <1>16, <1>17, MergedTells
<1> QED
  BY <1>3, <1>18 DEF L

LEMMA FiniteRange ==
  ASSUME NEW S, IsFiniteSet(S), NEW f
  PROVE  IsFiniteSet({f[x] : x \in S})
<1> DEFINE T == {f[x] : x \in S}
           g == [x \in S |-> f[x]]
<1>1. g \in Surjection(S, T)
  BY DEF Surjection
<1> HIDE DEF g, T
<1>2. IsFiniteSet(T)
  BY <1>1, FS_Surjection
<1> QED
  BY <1>2 DEF T

(* The rows before they are sorted, and the order they are put in.         *)
RowsOf(a) == {Alerts!Merged(AllSummaries(a), n) : n \in Alerts!NamesOf(AllSummaries(a))}
BeforeIn(rows) ==
  {p \in rows \X rows : \/ Alerts!orderOf(p[1].state) < Alerts!orderOf(p[2].state)
                        \/ Alerts!orderOf(p[1].state) = Alerts!orderOf(p[2].state) /\ p[1].name < p[2].name}

LEMMA RowsAreOrdered ==
  ASSUME NEW a \in AlertAnswers
  PROVE  /\ IsFiniteSet(RowsOf(a)) /\ StrictOrder(BeforeIn(RowsOf(a)), RowsOf(a))
         /\ \A x, y \in RowsOf(a) : x.name = y.name => x = y
<1> DEFINE L == AllSummaries(a)
           N == Alerts!NamesOf(L)
           D == DOMAIN L
           R == RowsOf(a)
           row == [n \in N |-> Alerts!Merged(L, n)]
           name == [p \in D |-> L[p].name]
<1>1. D = 1 .. Len(L) /\ Len(L) \in Nat
  BY RowsAreRules
<1>2. N = {name[p] : p \in D}
  BY DEF Alerts!NamesOf
<1>3. IsFiniteSet(N)
  <2>1. IsFiniteSet(D)
    BY <1>1, FS_Interval
  <2> HIDE DEF D
  <2> HIDE DEF name, N
  <2> QED
    BY <1>2, <2>1, FiniteRange
<1>4. N \in SUBSET Int
  <2>1. \A p \in D : name[p] \in Int
    <3> SUFFICES ASSUME NEW p \in D PROVE L[p].name \in Int
      OBVIOUS
    <3>1. L[p].name = RuleAt(a, p).name /\ RuleAt(a, p) \in Alerts!Rules
      BY RowsAreRules, NameOfRow
    <3> QED
      BY <3>1 DEF Alerts!Rules
  <2> HIDE DEF name, N, D
  <2> QED
    BY <1>2, <2>1
<1>5. \A n \in N : Alerts!Merged(L, n).name = n
  <2> SUFFICES ASSUME NEW n \in N PROVE Alerts!Merged(L, n).name = n
    OBVIOUS
  <2>1. PICK h \in BOOLEAN : h <=> Alerts!SaysFiring(a, n)
    OBVIOUS
  <2>2. TellsWork(Alerts!Merged(L, n), n, Alerts!AtWork(a, n), h)
    BY <2>1, RowOfName
  <2> QED
    BY <2>2 DEF TellsWork
<1>6. R = {row[n] : n \in N}
  BY DEF RowsOf
<1>7. \A n \in N : row[n].name = n
  BY <1>5
<1> HIDE DEF row, name, R, N, D, L
<1>8. IsFiniteSet(R)
  BY <1>3, <1>6, <1>7, FiniteRange
<1>9. \A x, y \in R : x.name = y.name => x = y
  BY <1>6, <1>7
<1>10. \A x \in R : x.name \in Int
  BY <1>4, <1>6, <1>7
<1>11. \A x : Alerts!orderOf(x) \in Int
  BY DEF Alerts!orderOf
<1>12. \A x, y \in R : <<x, y>> \in BeforeIn(R) <=>
         \/ Alerts!orderOf(x.state) < Alerts!orderOf(y.state)
         \/ Alerts!orderOf(x.state) = Alerts!orderOf(y.state) /\ x.name < y.name
  BY DEF BeforeIn
<1> DEFINE b == BeforeIn(R)
<1> HIDE DEF b
<1>13. \A x \in R : <<x, x>> \notin b
  BY <1>10, <1>11, <1>12 DEF b
<1>14. ASSUME NEW x \in R, NEW y \in R, NEW z \in R, <<x, y>> \in b, <<y, z>> \in b
       PROVE  <<x, z>> \in b
  BY <1>10, <1>11, <1>12, <1>14 DEF b
<1>15. ASSUME NEW x \in R, NEW y \in R, x # y
       PROVE  <<x, y>> \in b \/ <<y, x>> \in b
  BY <1>9, <1>10, <1>11, <1>12, <1>15 DEF b
<1>16. StrictOrder(b, R)
  BY <1>13, <1>14, <1>15 DEF StrictOrder
<1> QED
  BY <1>8, <1>9, <1>16 DEF R, b

(* The answer as the tab has it: rows in order, each of what is at work    *)
(* under its name.                                                         *)
LEMMA ListTells ==
  ASSUME NEW a \in AlertAnswers, NEW rows, rows = Alerts!computeServiceAlerts(a).list
  PROVE  /\ DOMAIN rows \subseteq Nat
         /\ \A i, j \in DOMAIN rows : i < j => /\ rows[i].name # rows[j].name
                                               /\ Alerts!orderOf(rows[i].state) <= Alerts!orderOf(rows[j].state)
         /\ \A i \in DOMAIN rows : \E n, h : /\ h \in BOOLEAN /\ (h <=> Alerts!SaysFiring(a, n))
                                             /\ TellsWork(rows[i], n, Alerts!AtWork(a, n), h)
<1> DEFINE R == RowsOf(a)
           b == BeforeIn(R)
           m == Cardinality(R)
<1>1. rows = InOrder(R, b)
  BY SameFilter DEF Alerts!computeServiceAlerts, Alerts!dedupeAndSortAlertRules, AllSummaries, RowsOf, BeforeIn
<1>2. IsFiniteSet(R) /\ StrictOrder(b, R) /\ \A x, y \in R : x.name = y.name => x = y
  BY RowsAreOrdered
<1>3. ASSUME NEW r \in R
      PROVE  \E n, h : /\ h \in BOOLEAN /\ (h <=> Alerts!SaysFiring(a, n))
                       /\ TellsWork(r, n, Alerts!AtWork(a, n), h)
  <2>1. PICK n \in Alerts!NamesOf(AllSummaries(a)) : r = Alerts!Merged(AllSummaries(a), n)
    BY <1>3 DEF RowsOf
  <2>2. PICK h \in BOOLEAN : h <=> Alerts!SaysFiring(a, n)
    OBVIOUS
  <2>3. TellsWork(r, n, Alerts!AtWork(a, n), h)
    BY <2>1, <2>2, RowOfName
  <2> QED
    BY <2>2, <2>3
<1>4. /\ \A x \in R : <<x, x>> \notin b
      /\ \A x, y \in R : <<x, y>> \in b => Alerts!orderOf(x.state) <= Alerts!orderOf(y.state)
  <2>1. \A x : Alerts!orderOf(x) \in Int
    BY DEF Alerts!orderOf
  <2>2. \A x, y \in R : <<x, y>> \in b =>
         \/ Alerts!orderOf(x.state) < Alerts!orderOf(y.state)
         \/ Alerts!orderOf(x.state) = Alerts!orderOf(y.state) /\ x.name < y.name
    BY DEF BeforeIn
  <2> QED
    BY <1>2, <2>1, <2>2 DEF StrictOrder
<1> HIDE DEF R, b, m
<1>5. /\ m \in Nat /\ rows \in [1 .. m -> R]
      /\ \A i, j \in 1 .. m : i < j => <<rows[i], rows[j]>> \in b
  BY <1>1, <1>2, InOrderSorts DEF m
<1>6. ASSUME NEW i \in DOMAIN rows, NEW j \in DOMAIN rows, i < j
      PROVE  /\ rows[i].name # rows[j].name
             /\ Alerts!orderOf(rows[i].state) <= Alerts!orderOf(rows[j].state)
  <2>1. rows[i] \in R /\ rows[j] \in R /\ <<rows[i], rows[j]>> \in b
    BY <1>5, <1>6
  <2>2. rows[i] # rows[j]
    BY <1>4, <2>1
  <2> QED
    BY <1>2, <1>4, <2>1, <2>2
<1>7. DOMAIN rows \subseteq Nat /\ \A i \in DOMAIN rows : rows[i] \in R
  BY <1>5
<1> QED
  BY <1>3, <1>6, <1>7

LEMMA SameCount == \A S : Alerts!Cardinality(S) = Cardinality(S)
BY Zenon DEF Alerts!Cardinality, Cardinality

(* What a row of a list says of what is at work under its name.            *)
LEMMA RowSays ==
  ASSUME NEW r, NEW a, NEW n, NEW h \in BOOLEAN, h <=> Alerts!SaysFiring(a, n),
         TellsWork(r, n, Alerts!AtWork(a, n), h)
  PROVE  /\ r.state = "firing" <=> Alerts!SaysFiring(a, r.name)
         /\ r.count = Alerts!Cardinality(Alerts!AtWork(a, r.name))
         /\ r.since = Alerts!Earliest({w.at : w \in Alerts!AtWork(a, r.name)})
         /\ r.truncated <=> Len(r.instances) < r.count
<1> DEFINE W == Alerts!AtWork(a, n)
<1>1. /\ r.name = n /\ (r.state = "firing" <=> h)
      /\ IsFiniteSet(W) /\ r.count = Cardinality(W)
      /\ TimesOf(W) \in SUBSET Nat /\ IsEarliest(r.since, TimesOf(W))
      /\ Len(r.instances) = (IF r.count <= InstanceCap THEN r.count ELSE InstanceCap)
      /\ r.truncated <=> InstanceCap < r.count
  BY DEF TellsWork
<1> HIDE DEF W
<1>2. r.since = Alerts!Earliest(TimesOf(W))
  BY <1>1, EarliestIs
<1>3. r.truncated <=> Len(r.instances) < r.count
  <2>1. r.count \in Nat /\ InstanceCap \in Nat
    BY <1>1, FS_CardinalityType, AlertConstants
  <2> QED
    BY <1>1, <2>1
<1>4. r.count = Alerts!Cardinality(W)
  BY <1>1, SameCount
<1> QED
  BY <1>1, <1>2, <1>3, <1>4 DEF TimesOf, W

(* Whatever the sources answer, the rows are true.                         *)
LEMMA AlertRowsTell == ASSUME AlertInv PROVE Alerts!RowsTellWorst
<1> DEFINE rows == Alerts!Rows
           a == rules.data.of
<1>1. CASE rules.data = None
  <2>1. rows = << >>
    BY <1>1 DEF Alerts!Rows
  <2>2. DOMAIN rows = {}
    BY <2>1
  <2>3. Alerts!Range(rows) = {}
    BY <2>2 DEF Alerts!Range
  <2> QED
    BY <2>2, <2>3 DEF Alerts!RowsTellWorst
<1>2. CASE rules.data # None
  <2>1. a \in AlertAnswers /\ rows = Alerts!computeServiceAlerts(a).list
    <3>1. PICK x \in AlertAnswers : rules.data = Alerts!computeServiceAlerts(x)
      BY <1>2 DEF AlertInv, RequestShape, RuleLists
    <3>2. Alerts!computeServiceAlerts(x).of = x
      BY DEF Alerts!computeServiceAlerts
    <3>3. rows = rules.data.list
      BY <1>2 DEF Alerts!Rows
    <3> QED
      BY <3>1, <3>2, <3>3
  <2> HIDE DEF rows, a
  <2>2. /\ \A i, j \in DOMAIN rows : i < j => /\ rows[i].name # rows[j].name
                                              /\ Alerts!orderOf(rows[i].state) <= Alerts!orderOf(rows[j].state)
        /\ \A i \in DOMAIN rows : \E n, h : /\ h \in BOOLEAN /\ (h <=> Alerts!SaysFiring(a, n))
                                            /\ TellsWork(rows[i], n, Alerts!AtWork(a, n), h)
    BY <2>1, ListTells
  <2>3. ASSUME NEW r \in Alerts!Range(rows)
        PROVE  /\ r.state = "firing" <=> Alerts!SaysFiring(a, r.name)
               /\ r.count = Alerts!Cardinality(Alerts!AtWork(a, r.name))
               /\ r.since = Alerts!Earliest({w.at : w \in Alerts!AtWork(a, r.name)})
               /\ r.truncated <=> Len(r.instances) < r.count
               /\ r \notin Alerts!NamespaceAlerts(rows, FALSE) => r.state = "inactive"
    <3>1. PICK i \in DOMAIN rows : r = rows[i]
      BY <2>3 DEF Alerts!Range
    <3>2. PICK n, h : /\ h \in BOOLEAN /\ (h <=> Alerts!SaysFiring(a, n))
                      /\ TellsWork(r, n, Alerts!AtWork(a, n), h)
      BY <2>2, <3>1
    <3>3. r \notin Alerts!NamespaceAlerts(rows, FALSE) => r.state = "inactive"
      BY <2>3 DEF Alerts!NamespaceAlerts
    <3> QED
      BY <3>2, <3>3, RowSays
  <2> QED
    BY <2>2, <2>3 DEF Alerts!RowsTellWorst, rows, a
<1> QED
  BY <1>1, <1>2

-----------------------------------------------------------------------------
(* Session replay (Replay).                                                *)

LEMMA SmallerOf ==
  ASSUME NEW a \in Nat, NEW b \in Nat
  PROVE  Replays!Min({a, b}) \in Nat /\ Replays!Min({a, b}) <= b
BY DEF Replays!Min

(* The elements of r are those of s at some positions.                     *)
Holds(r, s, at) ==
  /\ \A k \in DOMAIN r : \E i \in at : r[k] = s[i]
  /\ \A i \in at : \E k \in DOMAIN r : r[k] = s[i]

(* A prefix of a sequence, with the elements of one kind and then those of *)
(* the other, has the elements of the prefix.                              *)
LEMMA KindsJoined ==
  ASSUME NEW T, NEW s \in Seq(T), NEW a \in SUBSET (DOMAIN s), NEW b \in SUBSET (DOMAIN s),
         a \cup b = DOMAIN s, NEW r, r = ElementsAt(s, a) \o ElementsAt(s, b)
  PROVE  r \in Seq(T) /\ Holds(r, s, DOMAIN s)
<1> DEFINE x == ElementsAt(s, a)
           y == ElementsAt(s, b)
<1>1. /\ x \in Seq(T) /\ Keeps(x, s, a)
      /\ y \in Seq(T) /\ Keeps(y, s, b)
  BY ElementsAtKeep DEF Keeps
<1>2. r = x \o y
  OBVIOUS
<1> HIDE DEF x, y
<1>3. /\ r \in Seq(T) /\ Len(r) = Len(x) + Len(y)
      /\ DOMAIN r = 1 .. Len(x) + Len(y) /\ DOMAIN x = 1 .. Len(x) /\ DOMAIN y = 1 .. Len(y)
      /\ Len(x) \in Nat /\ Len(y) \in Nat
      /\ \A k \in 1 .. Len(x) + Len(y) : r[k] = IF k <= Len(x) THEN x[k] ELSE y[k - Len(x)]
  BY <1>1, <1>2
<1>4. ASSUME NEW k \in DOMAIN r
      PROVE  \E i \in DOMAIN s : r[k] = s[i]
  <2>1. CASE k <= Len(x)
    <3>1. k \in DOMAIN x /\ r[k] = x[k]
      BY <1>3, <2>1
    <3> QED
      BY <1>1, <3>1 DEF Keeps
  <2>2. CASE ~(k <= Len(x))
    <3>1. k - Len(x) \in DOMAIN y /\ r[k] = y[k - Len(x)]
      BY <1>3, <2>2
    <3> QED
      BY <1>1, <3>1 DEF Keeps
  <2> QED
    BY <2>1, <2>2
<1>5. ASSUME NEW i \in DOMAIN s
      PROVE  \E k \in DOMAIN r : r[k] = s[i]
  <2>1. CASE i \in a
    <3>1. PICK k \in DOMAIN x : x[k] = s[i]
      BY <1>1, <2>1 DEF Keeps
    <3>2. k \in DOMAIN r /\ r[k] = x[k]
      BY <1>3
    <3> QED
      BY <3>1, <3>2
  <2>2. CASE i \in b
    <3>1. PICK k \in DOMAIN y : y[k] = s[i]
      BY <1>1, <2>2 DEF Keeps
    <3>2. k + Len(x) \in DOMAIN r /\ r[k + Len(x)] = y[k]
      <4>1. k \in 1 .. Len(y)
        BY <1>3
      <4> DEFINE m == k + Len(x)
      <4>2. m \in 1 .. Len(x) + Len(y) /\ ~(m <= Len(x)) /\ m - Len(x) = k
        BY <1>3, <4>1
      <4> HIDE DEF m
      <4>3. m \in DOMAIN r /\ r[m] = y[k]
        BY <1>3, <4>2
      <4> QED
        BY <4>3 DEF m
    <3> QED
      BY <3>1, <3>2
  <2> QED
    BY <2>1, <2>2
<1> QED
  BY <1>3, <1>4, <1>5 DEF Holds


LEMMA SameOrders ==
  /\ \A S, R : Replays!InOrder(S, R) = InOrder(S, R)
  /\ \A S : Replays!Ascending(S) = Ascending(S)
<1>1. \A S : Replays!Cardinality(S) = Cardinality(S)
  BY Zenon DEF Replays!Cardinality, Cardinality
<1>2. \A S, R, x : Replays!Place(S, R, x) = Place(S, R, x)
  BY <1>1, Zenon DEF Replays!Place, Place
<1>3. ASSUME NEW S, NEW R
      PROVE  Replays!InOrder(S, R) = InOrder(S, R)
  BY Zenon DEF Replays!InOrder, InOrder, Replays!Place, Place, Replays!Cardinality, Cardinality
<1>4. \A S : Replays!Less(S) = Less(S)
  BY Zenon DEF Replays!Less, Less
<1>5. \A S : Replays!Ascending(S) = Ascending(S)
  BY <1>3, <1>4, Zenon DEF Replays!Ascending, Ascending
<1> QED
  BY <1>3, <1>5

(* Replay's copy of the operators of Ordering is theirs.                   *)
LEMMA SameLists ==
  /\ \A s, at : Replays!ElementsAt(s, at) = ElementsAt(s, at)
  /\ \A s, key : Replays!SortedBy(s, key) = SortedBy(s, key)
  /\ \A s, key : Replays!FirstOfEach(s, key) = FirstOfEach(s, key)
  /\ \A ss : Replays!Flat(ss) = Flat(ss)
<1>1. \A s, at : Replays!ElementsAt(s, at) = ElementsAt(s, at)
  BY SameOrders, Zenon DEF Replays!ElementsAt, ElementsAt
<1>2. \A s, key : Replays!SortedBy(s, key) = SortedBy(s, key)
  BY SameOrders, Zenon DEF Replays!SortedBy, SortedBy
<1>3. \A s, key : Replays!FirstOfEach(s, key) = FirstOfEach(s, key)
  BY <1>1, Zenon DEF Replays!FirstOfEach, FirstOfEach
<1>4. \A ss : Replays!PlacesIn(ss) = PlacesIn(ss) /\ Replays!EarlierIn(ss) = EarlierIn(ss)
  BY Zenon DEF Replays!PlacesIn, PlacesIn, Replays!EarlierIn, EarlierIn
<1>5. \A ss : Replays!Flat(ss) = Flat(ss)
  BY SameOrders, <1>4, Zenon DEF Replays!Flat, Flat
<1> QED
  BY <1>1, <1>2, <1>3, <1>5

(* The lines that are stored of a session, and how many a query returns.   *)
LEMMA StoredLines ==
  ASSUME NEW s \in Replays!Sessions
  PROVE  /\ Stored[s] \in Seq(Replays!Lines) /\ Buckets[s] \in Seq(Nat)
         /\ \A a, b \in Replays!Range(Stored[s]) : Replays!Agree(a, b)
         /\ \A a \in Replays!Range(Stored[s]) : a.format = "A" => Replays!AsTheyHappen(a.events)
         /\ Replays!Min({LineLimit, Len(Stored[s])}) \in 0 .. Len(Stored[s])
<1>1. Stored \in Seq(Seq(Replays!Lines)) /\ s \in DOMAIN Stored /\ LineLimit \in Nat
  BY ViewsAssumption DEF Replays!ConstantsOK, Replays!Sessions
<1>2. Stored[s] \in Seq(Replays!Lines) /\ Len(Stored[s]) \in Nat
  BY <1>1
<1>3. Replays!Min({LineLimit, Len(Stored[s])}) \in 0 .. Len(Stored[s])
  <2> DEFINE n == Len(Stored[s])
             m == Replays!Min({LineLimit, n})
  <2>1. n \in Nat /\ LineLimit \in Nat
    BY <1>1, <1>2
  <2> HIDE DEF n
  <2>2. m \in Nat /\ m <= n
    BY <2>1, SmallerOf
  <2> HIDE DEF m
  <2>3. m \in 0 .. n
    BY <2>1, <2>2
  <2> QED
    BY <2>3 DEF m, n
<1>4. Buckets[s] \in Seq(Nat)
  BY ViewsAssumption DEF Replays!ConstantsOK
<1>5. \A a, b \in Replays!Range(Stored[s]) : Replays!Agree(a, b)
  BY ViewsAssumption DEF Replays!ConstantsOK
<1>6. \A a \in Replays!Range(Stored[s]) : a.format = "A" => Replays!AsTheyHappen(a.events)
  BY ViewsAssumption, Zenon DEF Replays!ConstantsOK
<1> QED
  BY <1>2, <1>3, <1>4, <1>5, <1>6

LEMMA Prefix ==
  ASSUME NEW T, NEW s \in Seq(T), NEW m \in 0 .. Len(s), NEW r, r = SubSeq(s, 1, m)
  PROVE  r \in Seq(T) /\ DOMAIN r = 1 .. m /\ \A i \in 1 .. m : r[i] = s[i]
<1>1. /\ r \in Seq(T) /\ Len(r) = IF 1 <= m THEN m - 1 + 1 ELSE 0
      /\ \A i \in 1 .. m - 1 + 1 : r[i] = s[1 + i - 1]
  <2>1. m \in Int /\ 1 \in Int /\ \A i \in 1 .. m : s[i] \in T
    OBVIOUS
  <2> QED
    BY <2>1, SubSeqProperties
<1>2. Len(r) = m /\ DOMAIN r = 1 .. Len(r)
  BY <1>1
<1>3. ASSUME NEW i \in 1 .. m
      PROVE  r[i] = s[i]
  <2>1. i \in 1 .. m - 1 + 1 /\ 1 + i - 1 = i
    OBVIOUS
  <2>2. r[i] = s[1 + i - 1]
    BY <1>1, <2>1
  <2> QED
    BY <2>1, <2>2
<1> QED
  BY <1>1, <1>2, <1>3

LEMMA PrefixByKind ==
  ASSUME NEW T, NEW s \in Seq(T), NEW m \in 0 .. Len(s), NEW first, first = SubSeq(s, 1, m),
         NEW a \in SUBSET (DOMAIN first), NEW b \in SUBSET (DOMAIN first), a \cup b = DOMAIN first,
         NEW r, r = ElementsAt(first, a) \o ElementsAt(first, b)
  PROVE  r \in Seq(T) /\ Holds(r, s, 1 .. m)
<1>1. first \in Seq(T) /\ DOMAIN first = 1 .. m /\ \A i \in 1 .. m : first[i] = s[i]
  BY Prefix
<1>2. r \in Seq(T) /\ Holds(r, first, DOMAIN first)
  BY <1>1, KindsJoined
<1> DEFINE n == 1 .. m
<1>3. Holds(r, first, n) /\ \A i \in n : first[i] = s[i]
  BY <1>1, <1>2
<1> HIDE DEF n
<1>4. Holds(r, s, n)
  <2>1. ASSUME NEW k \in DOMAIN r
        PROVE  \E i \in n : r[k] = s[i]
    <3>1. PICK i \in n : r[k] = first[i]
      BY ONLY <1>3, k \in DOMAIN r DEF Holds
    <3> QED
      BY <1>3, <3>1
  <2>2. ASSUME NEW i \in n
        PROVE  \E k \in DOMAIN r : r[k] = s[i]
    <3>1. PICK k \in DOMAIN r : r[k] = first[i]
      BY ONLY <1>3, i \in n DEF Holds
    <3> QED
      BY <1>3, <3>1
  <2> QED
    BY ONLY <2>1, <2>2 DEF Holds
<1> QED
  BY <1>2, <1>4 DEF n

(* A query returns the first lines of a session, in some order.            *)
LEMMA DeliveredLines ==
  ASSUME NEW s \in Replays!Sessions, NEW lines \in Replays!Delivered(s),
         NEW m, m = Replays!Min({LineLimit, Len(Stored[s])})
  PROVE  lines \in Seq(Replays!Lines) /\ Holds(lines, Stored[s], 1 .. m)
<1> DEFINE l == Stored[s]
           first == SubSeq(l, 1, m)
           at(stream) == {i \in DOMAIN first : first[i].stream = stream}
<1>1. l \in Seq(Replays!Lines) /\ m \in 0 .. Len(l)
  BY StoredLines
<1>2. \/ lines = ElementsAt(first, at(1)) \o ElementsAt(first, at(2))
      \/ lines = ElementsAt(first, at(2)) \o ElementsAt(first, at(1))
  BY SameLists DEF Replays!Delivered
<1> HIDE DEF l
<1>3. first \in Seq(Replays!Lines)
  BY <1>1, Prefix
<1> HIDE DEF first
<1>4. \A i \in DOMAIN first : first[i] \in Replays!Lines
  BY <1>3
<1>5. \A i \in DOMAIN first : first[i].stream \in {1, 2}
  BY <1>4 DEF Replays!Lines
<1>6. /\ at(1) \in SUBSET (DOMAIN first) /\ at(2) \in SUBSET (DOMAIN first)
      /\ at(1) \cup at(2) = DOMAIN first /\ at(2) \cup at(1) = DOMAIN first
  BY <1>5
<1> DEFINE a == at(1)
           b == at(2)
<1>7. /\ lines = ElementsAt(first, a) \o ElementsAt(first, b) \/ lines = ElementsAt(first, b) \o ElementsAt(first, a)
      /\ a \in SUBSET (DOMAIN first) /\ b \in SUBSET (DOMAIN first)
      /\ a \cup b = DOMAIN first /\ b \cup a = DOMAIN first
  BY <1>2, <1>6
<1> HIDE DEF at, a, b
<1>8. first = SubSeq(l, 1, m)
  BY DEF first
<1>9. lines \in Seq(Replays!Lines) /\ Holds(lines, l, 1 .. m)
  <2>1. CASE lines = ElementsAt(first, a) \o ElementsAt(first, b)
    BY <1>1, <1>7, <1>8, <2>1, PrefixByKind
  <2>2. CASE lines = ElementsAt(first, b) \o ElementsAt(first, a)
    BY <1>1, <1>7, <1>8, <2>2, PrefixByKind
  <2> QED
    BY <1>7, <2>1, <2>2
<1> QED
  BY <1>9 DEF l

(* The events of r are those of the lines at some positions.               *)
Tells(r, lines, at) ==
  /\ \A k \in DOMAIN r : \E a \in at : \E j \in DOMAIN lines[a].events : r[k] = lines[a].events[j]
  /\ \A a \in at : \A j \in DOMAIN lines[a].events : \E k \in DOMAIN r : r[k] = lines[a].events[j]

(* Single events: each is taken once and they are sorted.                  *)
LEMMA SinglesOnce ==
  ASSUME NEW ev \in Seq(Replays!Events), NEW u, u = FirstOfEach(ev, ev),
         NEW key, key = Replays!Times(u), NEW r, r = SortedBy(u, key)
  PROVE  r \in Seq(Replays!Events) /\ Holds(r, ev, DOMAIN ev) /\ Replays!AsTheyHappen(r)
<1> DEFINE T == Replays!Events
<1>0. \A e \in T : e.at \in Int
  BY DEF Replays!Events
<1> HIDE DEF T
<1>1. /\ u \in Seq(T)
      /\ \A k \in DOMAIN u : \E i \in DOMAIN ev : u[k] = ev[i]
      /\ \A i \in DOMAIN ev : \E k \in DOMAIN u, a \in DOMAIN ev : ev[a] = ev[i] /\ u[k] = ev[a]
      /\ \A j, k \in DOMAIN u :
           j < k => \E a, b \in DOMAIN ev : a < b /\ ev[a] # ev[b] /\ u[j] = ev[a] /\ u[k] = ev[b]
  BY FirstOfEachOnce DEF T, Firsts
<1>u. u \in Seq(T)
  BY <1>1
<1>2. ASSUME NEW i \in DOMAIN u
      PROVE  u[i] \in T /\ key[i] = u[i].at /\ key[i] \in Int
  <2>1. u[i] \in T
    BY ONLY <1>1, i \in DOMAIN u
  <2>2. key[i] = u[i].at
    BY ONLY key = Replays!Times(u), i \in DOMAIN u DEF Replays!Times
  <2> QED
    BY <1>0, <2>1, <2>2
<1>k. \A i \in DOMAIN u : key[i] \in Int
  BY <1>2
<1>3. /\ r \in Seq(T)
      /\ \A k \in DOMAIN r : \E i \in DOMAIN u : r[k] = u[i]
      /\ \A i \in DOMAIN u : \E k \in DOMAIN r : r[k] = u[i]
      /\ \A j, k \in DOMAIN r :
           j < k => \E a, b \in DOMAIN u : a # b /\ key[a] <= key[b] /\ r[j] = u[a] /\ r[k] = u[b]
  BY ONLY <1>1, <1>k, SortedBySorts, r = SortedBy(u, key)
<1>4. \A j, k \in DOMAIN u : j # k => u[j] # u[k]
  <2>1. ASSUME NEW j \in DOMAIN u, NEW k \in DOMAIN u, j < k
        PROVE  u[j] # u[k]
    <3>1. \E a, b \in DOMAIN ev : a < b /\ ev[a] # ev[b] /\ u[j] = ev[a] /\ u[k] = ev[b]
      BY <1>1, <2>1
    <3> QED
      BY <3>1
  <2>2. \A j \in DOMAIN u : j \in Nat
    BY ONLY <1>u
  <2>3. ASSUME NEW j \in DOMAIN u, NEW k \in DOMAIN u, j # k
        PROVE  u[j] # u[k]
    <3>1. j < k \/ k < j
      BY <2>2, <2>3
    <3> QED
      BY <2>1, <3>1
  <2> QED
    BY <2>3
<1>5. ASSUME NEW j \in DOMAIN r, NEW k \in DOMAIN r, j < k
      PROVE  r[j] # r[k] /\ r[j].at <= r[k].at
  <2>1. PICK a \in DOMAIN u, b \in DOMAIN u : a # b /\ key[a] <= key[b] /\ r[j] = u[a] /\ r[k] = u[b]
    BY <1>3, <1>5
  <2>2. r[j] # r[k]
    BY <1>4, <2>1
  <2>3. r[j].at <= r[k].at
    BY <1>2, <2>1
  <2> QED
    BY <2>2, <2>3
<1>6. ASSUME NEW k \in DOMAIN r
      PROVE  \E i \in DOMAIN ev : r[k] = ev[i]
  <2>1. PICK i \in DOMAIN u : r[k] = u[i]
    BY <1>3
  <2> QED
    BY <1>1, <2>1
<1>7. ASSUME NEW i \in DOMAIN ev
      PROVE  \E k \in DOMAIN r : r[k] = ev[i]
  <2>1. PICK k \in DOMAIN u : u[k] = ev[i]
    BY <1>1
  <2>2. PICK j \in DOMAIN r : r[j] = u[k]
    BY <1>3
  <2> QED
    BY <2>1, <2>2
<1> QED
  BY <1>3, <1>5, <1>6, <1>7 DEF Holds, Replays!AsTheyHappen, T

(* The events of lines, one line after the other.                          *)
LEMMA LinesPut ==
  ASSUME NEW q \in Seq(Replays!Lines), NEW r, r = Replays!EventsOf(q)
  PROVE  /\ r \in Seq(Replays!Events)
         /\ Tells(r, q, DOMAIN q)
         /\ \A k, l \in DOMAIN r :
              k < l => \E a, b \in DOMAIN q : \E i \in DOMAIN q[a].events, j \in DOMAIN q[b].events :
                         /\ a < b \/ (a = b /\ i < j)
                         /\ r[k] = q[a].events[i] /\ r[l] = q[b].events[j]
<1> DEFINE ss == [i \in DOMAIN q |-> q[i].events]
<1>1. r = Flat(ss)
  BY SameLists DEF Replays!EventsOf
<1>2. \A i \in DOMAIN q : q[i].events \in Seq(Replays!Events)
  <2>1. \A i \in DOMAIN q : q[i] \in Replays!Lines
    OBVIOUS
  <2> QED
    BY <2>1 DEF Replays!Lines
<1>3. ss \in Seq(Seq(Replays!Events)) /\ DOMAIN ss = DOMAIN q /\ \A i \in DOMAIN q : ss[i] = q[i].events
  BY <1>2
<1> HIDE DEF ss
<1>4. /\ r \in Seq(Replays!Events)
      /\ \A k \in DOMAIN r : \E i \in DOMAIN ss : \E j \in DOMAIN ss[i] : r[k] = ss[i][j]
      /\ \A i \in DOMAIN ss : \A j \in DOMAIN ss[i] : \E k \in DOMAIN r : r[k] = ss[i][j]
      /\ \A k, l \in DOMAIN r :
           k < l => \E a, b \in DOMAIN ss : \E i \in DOMAIN ss[a], j \in DOMAIN ss[b] :
                      (a < b \/ (a = b /\ i < j)) /\ r[k] = ss[a][i] /\ r[l] = ss[b][j]
  BY <1>1, <1>3, FlatPuts
<1>5. Tells(r, q, DOMAIN q)
  <2>1. ASSUME NEW k \in DOMAIN r
        PROVE  \E a \in DOMAIN q : \E j \in DOMAIN q[a].events : r[k] = q[a].events[j]
    <3>1. PICK a \in DOMAIN ss : \E j \in DOMAIN ss[a] : r[k] = ss[a][j]
      BY <1>4
    <3>2. a \in DOMAIN q /\ ss[a] = q[a].events
      BY <1>3
    <3> QED
      BY <3>1, <3>2
  <2>2. ASSUME NEW a \in DOMAIN q, NEW j \in DOMAIN q[a].events
        PROVE  \E k \in DOMAIN r : r[k] = q[a].events[j]
    <3>1. a \in DOMAIN ss /\ ss[a] = q[a].events
      BY <1>3
    <3> QED
      BY <1>4, <3>1
  <2> QED
    BY <2>1, <2>2 DEF Tells
<1>6. ASSUME NEW k \in DOMAIN r, NEW l \in DOMAIN r, k < l
      PROVE  \E a, b \in DOMAIN q : \E i \in DOMAIN q[a].events, j \in DOMAIN q[b].events :
               /\ a < b \/ (a = b /\ i < j)
               /\ r[k] = q[a].events[i] /\ r[l] = q[b].events[j]
  <2>1. PICK a \in DOMAIN ss, b \in DOMAIN ss : \E i \in DOMAIN ss[a], j \in DOMAIN ss[b] :
          (a < b \/ (a = b /\ i < j)) /\ r[k] = ss[a][i] /\ r[l] = ss[b][j]
    BY <1>4, <1>6
  <2>2. a \in DOMAIN q /\ b \in DOMAIN q /\ ss[a] = q[a].events /\ ss[b] = q[b].events
    BY <1>3
  <2> QED
    BY <2>1, <2>2
<1> QED
  BY <1>4, <1>5, <1>6


(* Chunks: they are put in the order of their numbers, each number once.   *)
LEMMA ChunksOnce ==
  ASSUME NEW lines \in Seq(Replays!Lines),
         \A a, b \in DOMAIN lines : Replays!Agree(lines[a], lines[b]),
         \A a \in DOMAIN lines : lines[a].format = "A" /\ Replays!AsTheyHappen(lines[a].events),
         NEW q, q = Replays!InSequence(lines), NEW r, r = Replays!EventsOf(q)
  PROVE  r \in Seq(Replays!Events) /\ Tells(r, lines, DOMAIN lines) /\ Replays!AsTheyHappen(r)
<1> DEFINE L == Replays!Lines
           keys == Replays!Numbers(lines)
           sorted == SortedBy(lines, keys)
           numbers == Replays!Numbers(sorted)
<1>1. q = FirstOfEach(sorted, numbers)
  BY SameLists DEF Replays!InSequence
<1>l. \A a \in L : a.seq \in Int
  BY DEF Replays!Lines
<1> DEFINE y == sorted
           z == keys
           n == numbers
<1>2. y = SortedBy(lines, z) /\ z = Replays!Numbers(lines) /\ n = Replays!Numbers(y) /\ q = FirstOfEach(y, n)
  BY <1>1
<1>s. y = SortedBy(lines, z)
  OBVIOUS
<1>f. q = FirstOfEach(y, n)
  BY <1>1
<1> HIDE DEF y, z, n, L
<1>3. lines \in Seq(L)
  BY DEF L
<1>4. \A a \in DOMAIN lines : lines[a] \in L
  BY ONLY <1>3
<1>5. ASSUME NEW a \in DOMAIN lines
      PROVE  z[a] = lines[a].seq /\ z[a] \in Int
  <2>1. z[a] = lines[a].seq
    BY ONLY <1>2, a \in DOMAIN lines DEF Replays!Numbers
  <2> QED
    BY <1>4, <1>l, <2>1
<1>k. \A a \in DOMAIN lines : z[a] \in Int
  BY <1>5
<1>6. /\ y \in Seq(L) /\ Len(y) = Len(lines)
      /\ \A k \in DOMAIN y : \E i \in DOMAIN lines : y[k] = lines[i]
      /\ \A i \in DOMAIN lines : \E k \in DOMAIN y : y[k] = lines[i]
      /\ \A j, k \in DOMAIN y :
           j < k => \E a, b \in DOMAIN lines : a # b /\ z[a] <= z[b] /\ y[j] = lines[a] /\ y[k] = lines[b]
  BY ONLY <1>s, <1>3, <1>k, SortedBySorts
<1>7. ASSUME NEW a \in DOMAIN y
      PROVE  n[a] = y[a].seq
  BY ONLY <1>2, a \in DOMAIN y DEF Replays!Numbers
<1>8. ASSUME NEW j \in DOMAIN y, NEW k \in DOMAIN y, j < k
      PROVE  y[j].seq \in Int /\ y[k].seq \in Int /\ y[j].seq <= y[k].seq
  <2>1. PICK a \in DOMAIN lines, b \in DOMAIN lines : z[a] <= z[b] /\ y[j] = lines[a] /\ y[k] = lines[b]
    <3>1. \E a, b \in DOMAIN lines : a # b /\ z[a] <= z[b] /\ y[j] = lines[a] /\ y[k] = lines[b]
      BY <1>6, <1>8
    <3> QED
      BY <3>1
  <2> QED
    BY <1>5, <2>1
<1>y. y \in Seq(L)
  BY <1>6
<1>9. /\ q \in Seq(L)
      /\ \A k \in DOMAIN q : \E i \in DOMAIN y : q[k] = y[i]
      /\ \A i \in DOMAIN y : \E k \in DOMAIN q, a \in DOMAIN y : n[a] = n[i] /\ q[k] = y[a]
      /\ \A j, k \in DOMAIN q :
           j < k => \E a, b \in DOMAIN y : a < b /\ n[a] # n[b] /\ q[j] = y[a] /\ q[k] = y[b]
  <2>1. q \in Seq(L) /\ Firsts(q, y, n)
    BY <1>f, <1>y, FirstOfEachOnce
  <2> QED
    BY ONLY <2>1 DEF Firsts
<1>10. ASSUME NEW j \in DOMAIN q, NEW k \in DOMAIN q, j < k
       PROVE  q[j].seq < q[k].seq
  <2>1. PICK a \in DOMAIN y, b \in DOMAIN y : a < b /\ n[a] # n[b] /\ q[j] = y[a] /\ q[k] = y[b]
    BY <1>9, <1>10
  <2>2. y[a].seq # y[b].seq
    BY <1>7, <2>1
  <2>3. y[a].seq \in Int /\ y[b].seq \in Int /\ y[a].seq <= y[b].seq
    BY <1>8, <2>1
  <2>4. y[a].seq < y[b].seq
    BY ONLY <2>2, <2>3
  <2> QED
    BY <2>1, <2>4
<1>11. \A k \in DOMAIN q : \E i \in DOMAIN lines : q[k] = lines[i]
  <2>1. ASSUME NEW k \in DOMAIN q
        PROVE  \E i \in DOMAIN lines : q[k] = lines[i]
    <3>1. PICK i \in DOMAIN y : q[k] = y[i]
      BY <1>9
    <3> QED
      BY <1>6, <3>1
  <2> QED
    BY <2>1
<1>12. ASSUME NEW i \in DOMAIN lines
       PROVE  \E k \in DOMAIN q : q[k].events = lines[i].events
  <2>1. PICK j \in DOMAIN y : y[j] = lines[i]
    BY <1>6
  <2>2. PICK k \in DOMAIN q, a \in DOMAIN y : n[a] = n[j] /\ q[k] = y[a]
    BY <1>9
  <2>3. PICK b \in DOMAIN lines : y[a] = lines[b]
    BY <1>6
  <2>4. lines[b].seq = lines[i].seq
    BY <1>7, <2>1, <2>2, <2>3
  <2>5. Replays!Agree(lines[b], lines[i]) /\ lines[b].format = "A"
    OBVIOUS
  <2>6. lines[b].events = lines[i].events
    BY ONLY <2>4, <2>5 DEF Replays!Agree
  <2> QED
    BY <2>2, <2>3, <2>6
<1>q. q \in Seq(L) /\ q \in Seq(Replays!Lines)
  BY <1>9 DEF L
<1>13. /\ r \in Seq(Replays!Events)
       /\ Tells(r, q, DOMAIN q)
       /\ \A k, l \in DOMAIN r :
            k < l => \E a, b \in DOMAIN q : \E i \in DOMAIN q[a].events, j \in DOMAIN q[b].events :
                       /\ a < b \/ (a = b /\ i < j)
                       /\ r[k] = q[a].events[i] /\ r[l] = q[b].events[j]
  BY <1>q, LinesPut
<1>14. Tells(r, lines, DOMAIN lines)
  <2>1. ASSUME NEW k \in DOMAIN r
        PROVE  \E a \in DOMAIN lines : \E j \in DOMAIN lines[a].events : r[k] = lines[a].events[j]
    <3>1. PICK c \in DOMAIN q : \E j \in DOMAIN q[c].events : r[k] = q[c].events[j]
      BY <1>13 DEF Tells
    <3>2. PICK a \in DOMAIN lines : q[c] = lines[a]
      BY <1>11
    <3> QED
      BY <3>1, <3>2
  <2>2. ASSUME NEW a \in DOMAIN lines, NEW j \in DOMAIN lines[a].events
        PROVE  \E k \in DOMAIN r : r[k] = lines[a].events[j]
    <3>1. PICK c \in DOMAIN q : q[c].events = lines[a].events
      BY <1>12
    <3>2. j \in DOMAIN q[c].events
      BY <3>1
    <3>3. PICK k \in DOMAIN r : r[k] = q[c].events[j]
      BY <1>13, <3>2 DEF Tells
    <3> QED
      BY <3>1, <3>3
  <2> QED
    BY <2>1, <2>2 DEF Tells
<1>15. ASSUME NEW k \in DOMAIN r, NEW l \in DOMAIN r, k < l
       PROVE  r[k] # r[l] /\ r[k].at <= r[l].at
  <2>1. PICK c \in DOMAIN q, d \in DOMAIN q :
          \E i \in DOMAIN q[c].events, j \in DOMAIN q[d].events :
            /\ c < d \/ (c = d /\ i < j)
            /\ r[k] = q[c].events[i] /\ r[l] = q[d].events[j]
    BY <1>13, <1>15
  <2>2. PICK i \in DOMAIN q[c].events, j \in DOMAIN q[d].events :
          /\ c < d \/ (c = d /\ i < j)
          /\ r[k] = q[c].events[i] /\ r[l] = q[d].events[j]
    BY <2>1
  <2>3. PICK a \in DOMAIN lines, b \in DOMAIN lines : q[c] = lines[a] /\ q[d] = lines[b]
    BY <1>11
  <2>4. /\ Replays!Agree(lines[a], lines[b]) /\ lines[a].format = "A"
        /\ Replays!AsTheyHappen(lines[a].events)
    OBVIOUS
  <2>5. CASE c < d
    <3>1. lines[a].seq < lines[b].seq
      BY <1>10, <2>3, <2>5
    <3>2. q[c].events[i] \in Replays!Range(lines[a].events) /\ q[d].events[j] \in Replays!Range(lines[b].events)
      BY <2>3 DEF Replays!Range
    <3>3. \A e \in Replays!Range(lines[a].events), f \in Replays!Range(lines[b].events) : e # f /\ e.at <= f.at
      BY ONLY <2>4, <3>1 DEF Replays!Agree
    <3> QED
      BY <2>2, <3>2, <3>3
  <2>6. CASE c = d /\ i < j
    <3>1. i \in DOMAIN lines[a].events /\ j \in DOMAIN lines[a].events
      BY <2>3, <2>6
    <3>2. lines[a].events[i] # lines[a].events[j] /\ lines[a].events[i].at <= lines[a].events[j].at
      BY <2>4, <2>6, <3>1 DEF Replays!AsTheyHappen
    <3> QED
      BY <2>2, <2>3, <2>6, <3>2
  <2> QED
    BY <2>2, <2>5, <2>6
<1> QED
  BY <1>13, <1>14, <1>15 DEF Replays!AsTheyHappen

(* The data d of session s are all that a query returns of it, once and in *)
(* order.                                                                  *)
WellPlayed(s, d) ==
  /\ Replays!Range(d.events) = Replays!Returned(s)
  /\ Len(d.events) = Cardinality(Replays!Range(d.events))
  /\ Replays!AsTheyHappen(d.events)

(* The first lines of a session hold what a query returns.                 *)
LEMMA TellsReturned ==
  ASSUME NEW s \in Replays!Sessions, NEW lines \in Replays!Delivered(s),
         NEW r \in Seq(Replays!Events), Tells(r, lines, DOMAIN lines), Replays!AsTheyHappen(r)
  PROVE  /\ Replays!Range(r) = Replays!Returned(s)
         /\ Len(r) = Cardinality(Replays!Range(r))
<1> DEFINE l == Stored[s]
           m == Replays!Min({LineLimit, Len(Stored[s])})
           at == 1 .. m
<1>1. Holds(lines, l, at)
  BY DeliveredLines
<1>2. Replays!Returned(s) = UNION {Replays!Range(l[i].events) : i \in at}
  BY DEF Replays!Returned
<1> HIDE DEF l, m, at
<1>3. ASSUME NEW k \in DOMAIN r
      PROVE  r[k] \in Replays!Returned(s)
  <2>1. PICK a \in DOMAIN lines : \E j \in DOMAIN lines[a].events : r[k] = lines[a].events[j]
    BY DEF Tells
  <2>2. PICK i \in at : lines[a] = l[i]
    BY <1>1 DEF Holds
  <2>3. r[k] \in Replays!Range(l[i].events)
    BY <2>1, <2>2 DEF Replays!Range
  <2> QED
    BY <1>2, <2>3
<1>4. ASSUME NEW e \in Replays!Returned(s)
      PROVE  e \in Replays!Range(r)
  <2>1. PICK i \in at : e \in Replays!Range(l[i].events)
    BY <1>2
  <2>2. PICK a \in DOMAIN lines : lines[a] = l[i]
    BY <1>1 DEF Holds
  <2>3. PICK j \in DOMAIN lines[a].events : e = lines[a].events[j]
    BY <2>1, <2>2 DEF Replays!Range
  <2>4. PICK k \in DOMAIN r : r[k] = lines[a].events[j]
    BY DEF Tells
  <2> QED
    BY <2>3, <2>4 DEF Replays!Range
<1>5. Replays!Range(r) = {r[k] : k \in DOMAIN r}
  BY DEF Replays!Range
<1>6. Replays!Range(r) = Replays!Returned(s)
  BY <1>3, <1>4, <1>5
<1>7. \A i, j \in DOMAIN r : i < j => r[i] # r[j]
  BY DEF Replays!AsTheyHappen
<1>8. Len(r) = Cardinality({r[k] : k \in DOMAIN r})
  BY <1>7, LengthOfDistinct
<1> QED
  BY <1>5, <1>6, <1>8

(* However a session is split, repeated and reordered, it is put together. *)
LEMMA FetchedWhole ==
  ASSUME NEW s \in Replays!Sessions, NEW lines \in Replays!Delivered(s),
         NEW d, d = Replays!fetchReplay(lines), d # None
  PROVE  WellPlayed(s, d)
<1> DEFINE m == Replays!Min({LineLimit, Len(Stored[s])})
           A == {i \in DOMAIN lines : lines[i].format = "A"}
<1>1. lines \in Seq(Replays!Lines) /\ Holds(lines, Stored[s], 1 .. m)
  BY DeliveredLines
<1>2. \A a \in DOMAIN lines : lines[a] \in Replays!Range(Stored[s])
  <2>1. \A i \in 1 .. m : i \in DOMAIN Stored[s]
    <3>1. m \in 0 .. Len(Stored[s]) /\ Stored[s] \in Seq(Replays!Lines)
      BY StoredLines
    <3> HIDE DEF m
    <3> QED
      BY <3>1
  <2> HIDE DEF m
  <2> QED
    BY <1>1, <2>1 DEF Holds, Replays!Range
<1>3. \A a, b \in DOMAIN lines : Replays!Agree(lines[a], lines[b])
  BY <1>2, StoredLines
<1>4. \A a \in DOMAIN lines : lines[a].format = "A" => Replays!AsTheyHappen(lines[a].events)
  BY <1>2, StoredLines
<1>5. Replays!Chunks(lines) = ElementsAt(lines, A)
  BY SameLists DEF Replays!Chunks
<1>6. CASE Replays!Chunks(lines) = << >>
  <2> DEFINE ev == Replays!EventsOf(lines)
             u == FirstOfEach(ev, ev)
             key == Replays!Times(u)
             r == SortedBy(u, key)
  <2>1. d = Replays!assembleSingles(ev)
    BY <1>6 DEF Replays!fetchReplay
  <2>2. d.events = r
    BY <2>1, SameLists DEF Replays!assembleSingles, Replays!Recording
  <2>3. ev \in Seq(Replays!Events) /\ Tells(ev, lines, DOMAIN lines)
    BY <1>1, LinesPut
  <2>4. r \in Seq(Replays!Events) /\ Holds(r, ev, DOMAIN ev) /\ Replays!AsTheyHappen(r)
    BY <2>3, SinglesOnce
  <2> HIDE DEF ev, r
  <2>5. Tells(r, lines, DOMAIN lines)
    <3>1. ASSUME NEW k \in DOMAIN r
          PROVE  \E a \in DOMAIN lines : \E j \in DOMAIN lines[a].events : r[k] = lines[a].events[j]
      <4>1. PICK i \in DOMAIN ev : r[k] = ev[i]
        BY <2>4 DEF Holds
      <4> QED
        BY <2>3, <4>1 DEF Tells
    <3>2. ASSUME NEW a \in DOMAIN lines, NEW j \in DOMAIN lines[a].events
          PROVE  \E k \in DOMAIN r : r[k] = lines[a].events[j]
      <4>1. PICK i \in DOMAIN ev : ev[i] = lines[a].events[j]
        BY <2>3 DEF Tells
      <4>2. PICK k \in DOMAIN r : r[k] = ev[i]
        BY <2>4 DEF Holds
      <4> QED
        BY <4>1, <4>2
    <3> QED
      BY <3>1, <3>2 DEF Tells
  <2> QED
    BY <2>2, <2>4, <2>5, TellsReturned DEF WellPlayed
<1>7. CASE Replays!Chunks(lines) # << >>
  <2>1. A # {}
    <3>1. A \in SUBSET (DOMAIN lines)
      OBVIOUS
    <3> HIDE DEF A
    <3>2. CASE A = {}
      <4>1. ElementsAt(lines, A) \in Seq(Replays!Lines) /\ Keeps(ElementsAt(lines, A), lines, A)
        BY <1>1, <3>1, ElementsAtKeep DEF Keeps
      <4> DEFINE c == ElementsAt(lines, A)
      <4>2. c \in Seq(Replays!Lines) /\ Keeps(c, lines, A)
        BY <4>1
      <4> HIDE DEF c
      <4>3. DOMAIN c = {}
        BY <3>2, <4>2 DEF Keeps
      <4>4. c = << >>
        BY <4>2, <4>3
      <4> QED
        BY <1>5, <1>7, <4>4 DEF c
    <3> QED
      BY <3>2
  <2>2. PICK b \in DOMAIN lines : lines[b].format = "A"
    BY <2>1
  <2>3. ASSUME NEW a \in DOMAIN lines
        PROVE  lines[a].format = "A" /\ Replays!AsTheyHappen(lines[a].events)
    <3>1. Replays!Agree(lines[a], lines[b])
      BY <1>3
    <3>2. lines[a].format = "A"
      BY <2>2, <3>1 DEF Replays!Agree
    <3> QED
      BY <1>4, <3>2
  <2>4. A = DOMAIN lines
    BY <2>3
  <2>5. Replays!Chunks(lines) = lines
    BY <1>1, <1>5, <2>4, ElementsAtAll
  <2> DEFINE q == Replays!InSequence(lines)
             r == Replays!EventsOf(q)
  <2>6. d.events = r
    BY <1>7, <2>5 DEF Replays!fetchReplay
  <2>7. r \in Seq(Replays!Events) /\ Tells(r, lines, DOMAIN lines) /\ Replays!AsTheyHappen(r)
    BY <1>1, <1>3, <2>3, ChunksOnce
  <2> HIDE DEF r
  <2> QED
    BY <2>6, <2>7, TellsReturned DEF WellPlayed
<1> QED
  BY <1>6, <1>7

LEMMA RecentSessions ==
  ASSUME NEW s \in Replays!Sessions, Replays!Recent(s) # {}
  PROVE  Replays!lastSeen(s) \in Nat
<1>1. Buckets[s] \in Seq(Nat)
  BY ViewsAssumption DEF Replays!ConstantsOK
<1> DEFINE n == Len(Buckets[s])
           T == Replays!Recent(s)
<1>2. n \in Nat /\ T \in SUBSET (1 .. n)
  BY <1>1 DEF Replays!Recent
<1>3. \A k \in T : k \in Nat
  BY <1>2
<1>4. \E m \in T : \A k \in T : k <= m
  BY <1>2, LargestNumber
<1>5. \E m \in T : \A k \in T : m >= k
  BY <1>3, <1>4
<1> HIDE DEF T
<1>6. (CHOOSE m \in T : \A k \in T : m >= k) \in T
  BY <1>5
<1> QED
  BY <1>3, <1>6 DEF Replays!lastSeen, Replays!Max, T

LEMMA SessionsFinite == Replays!Sessions \in SUBSET Nat /\ IsFiniteSet(Replays!Sessions)
<1>1. Replays!Sessions = 1 .. Len(Stored) /\ Len(Stored) \in Nat
  BY ViewsAssumption DEF Replays!ConstantsOK, Replays!Sessions
<1> QED
  BY <1>1, FS_Interval

LEMMA SessionsListed ==
  ASSUME NEW env
  PROVE  Replays!listReplaySessions(env) \in Seq(Replays!Sessions)
<1> DEFINE found == {s \in Replays!Sessions : EnvOf[s] = env /\ Replays!Recent(s) # {}}
           later == {p \in found \X found :
                       \/ Replays!lastSeen(p[1]) > Replays!lastSeen(p[2])
                       \/ Replays!lastSeen(p[1]) = Replays!lastSeen(p[2]) /\ p[1] < p[2]}
           o == Replays!InOrder(found, later)
           m == Replays!Min({ListLimit, Len(o)})
<1>1. IsFiniteSet(found) /\ found \in SUBSET Nat /\ found \subseteq Replays!Sessions
  BY SessionsFinite, FS_Subset
<1>2. \A s \in found : Replays!lastSeen(s) \in Nat
  BY RecentSessions
<1>3. \A x, y : <<x, y>> \in later <=>
         /\ x \in found /\ y \in found
         /\ \/ Replays!lastSeen(x) > Replays!lastSeen(y)
            \/ Replays!lastSeen(x) = Replays!lastSeen(y) /\ x < y
  OBVIOUS
<1>4. Replays!listReplaySessions(env) = SubSeq(o, 1, m)
  BY DEF Replays!listReplaySessions
<1>5. o = InOrder(found, later)
  BY Zenon DEF Replays!InOrder, InOrder, Replays!Place, Place, Replays!Cardinality, Cardinality
<1> HIDE DEF later, found
<1>6. StrictOrder(later, found)
  BY <1>1, <1>2, <1>3 DEF StrictOrder
<1>7. o \in Seq(found) /\ Len(o) \in Nat
  BY <1>1, <1>5, <1>6, InOrderSorts
<1>8. ListLimit \in Nat
  BY ViewsAssumption DEF Replays!ConstantsOK
<1> HIDE DEF o
<1>9. m \in Nat /\ m <= Len(o)
  BY <1>7, <1>8, SmallerOf
<1> HIDE DEF m
<1>10. \A i \in 1 .. Len(o) : o[i] \in found
  BY <1>7
<1>11. ASSUME NEW i \in 1 .. m
       PROVE  o[i] \in Replays!Sessions
  <2>1. i \in 1 .. Len(o)
    BY <1>7, <1>9
  <2> QED
    BY <1>1, <1>10, <2>1
<1>12. m \in Int /\ 1 \in Int
  BY <1>9
<1> QED
  BY <1>4, <1>11, <1>12, SubSeqProperties

SectionShape(x) ==
  x \in [session : {x.session}, query : {x.query}, status : {x.status}, data : {x.data}, player : {x.player}]

(* A section s of a page p, when chosen is selected and the list is l.     *)
SectionOK(p, l, chosen, s) ==
  s # None =>
    /\ SectionShape(s)
    /\ s.session = chosen /\ s.session \in Replays!Sessions /\ s.query \in Replays!Keys
    /\ s.status \in {"idle", "loading", "ready", "error"}
    /\ s.data # None <=> s.status = "ready"
    /\ s.data # None => WellPlayed(s.session, s.data)
    /\ ~p.drawer => s.query = Replays!requestKey(p) /\ Replays!ReplaySessions(p, l) = "table"

ReplayInv ==
  /\ rPage \in Replays!Pages /\ selected \in Replays!Sessions \cup {None} /\ rMoves \in 0 .. ReplayMoves
  /\ list \in [call : Replays!Keys \cup {None}, loaded : Replays!Lists \cup {None}]
  /\ rPage.drawer => list.call = None
  /\ SectionOK(rPage, list, selected, section)

LEMMA SectionMade ==
  ASSUME NEW p \in Replays!Pages, NEW s
  PROVE  LET x == Replays!SectionOf(p, s)
         IN /\ SectionShape(x) /\ x.session = s /\ x.query = Replays!requestKey(p)
            /\ x.query \in Replays!Keys
            /\ x.status \in {"idle", "loading"} /\ x.data = None
BY DEF Replays!SectionOf, Replays!requestKey, SectionShape, Replays!Keys, Replays!Pages

LEMMA SectionChanged ==
  ASSUME NEW x, SectionShape(x), NEW st, NEW k, NEW d, NEW q
  PROVE  /\ [x EXCEPT !.status = st] =
               [session |-> x.session, query |-> x.query, status |-> st, data |-> x.data, player |-> x.player]
         /\ [x EXCEPT !.status = st, !.query = k] =
               [session |-> x.session, query |-> k, status |-> st, data |-> x.data, player |-> x.player]
         /\ [x EXCEPT !.status = st, !.data = d, !.player = q] =
               [session |-> x.session, query |-> x.query, status |-> st, data |-> d, player |-> q]
         /\ [x EXCEPT !.player = q] =
               [session |-> x.session, query |-> x.query, status |-> x.status, data |-> x.data, player |-> q]
<1> DEFINE a == x.session
           b == x.query
           c == x.status
           e == x.data
           f == x.player
<1>1. x = [session |-> a, query |-> b, status |-> c, data |-> e, player |-> f]
  BY DEF SectionShape
<1> HIDE DEF a, b, c, e, f
<1>2. [x EXCEPT !.status = st] = [session |-> a, query |-> b, status |-> st, data |-> e, player |-> f]
  BY <1>1
<1>3. [x EXCEPT !.status = st, !.query = k] \in
        [session : {a}, query : {k}, status : {st}, data : {e}, player : {f}]
  BY <1>1
<1>4. [x EXCEPT !.status = st, !.data = d, !.player = q] \in
        [session : {a}, query : {b}, status : {st}, data : {d}, player : {q}]
  BY <1>1
<1>5. [x EXCEPT !.player = q] = [session |-> a, query |-> b, status |-> c, data |-> e, player |-> q]
  BY <1>1
<1> DEFINE y == [x EXCEPT !.status = st, !.query = k]
           z == [x EXCEPT !.status = st, !.data = d, !.player = q]
<1> HIDE DEF y, z
<1>6. y = [session |-> a, query |-> k, status |-> st, data |-> e, player |-> f]
  <2>1. y \in [session : {a}, query : {k}, status : {st}, data : {e}, player : {f}]
    BY <1>3 DEF y
  <2> QED
    BY <2>1
<1>7. z = [session |-> a, query |-> b, status |-> st, data |-> d, player |-> q]
  <2>1. z \in [session : {a}, query : {b}, status : {st}, data : {d}, player : {q}]
    BY <1>4 DEF z
  <2> QED
    BY <2>1
<1> QED
  BY <1>2, <1>5, <1>6, <1>7 DEF a, b, c, e, f, y, z

LEMMA SectionRenewed ==
  ASSUME NEW s, NEW k, NEW st, NEW d, NEW q, NEW x,
         x = [session |-> s, query |-> k, status |-> st, data |-> d, player |-> q]
  PROVE  SectionShape(x) /\ x.session = s /\ x.query = k /\ x.status = st /\ x.data = d
BY DEF SectionShape

LEMMA KeptBelow ==
  ASSUME NEW p \in Replays!Pages, NEW l, NEW l2,
         NEW chosen \in Replays!Sessions \cup {None}, NEW old, NEW q \in Replays!Pages, NEW s,
         SectionOK(p, l, s, old), ~p.drawer, ~q.drawer,
         q = p \/ l2.loaded = l.loaded
  PROVE  SectionOK(q, l2, chosen, Replays!SectionBelow(q, l2, chosen, old))
<1> DEFINE below == Replays!SectionBelow(q, l2, chosen, old)
<1>1. CASE chosen = None \/ Replays!ReplaySessions(q, l2) # "table"
  BY <1>1 DEF Replays!SectionBelow, SectionOK
<1>2. CASE Replays!ReplaySessions(q, l2) = "table" /\ chosen # None /\ old # None /\ old.session = chosen
  <2>1. below = old
    BY <1>2 DEF Replays!SectionBelow
  <2>2. q = p \/ Replays!requestKey(q) = Replays!requestKey(p)
    BY <1>2 DEF SectionOK, Replays!ReplaySessions
  <2> QED
    BY <1>2, <2>1, <2>2 DEF SectionOK
<1>3. CASE Replays!ReplaySessions(q, l2) = "table" /\ chosen # None /\ ~(old # None /\ old.session = chosen)
  <2>1. below = Replays!SectionOf(q, chosen)
    BY <1>3 DEF Replays!SectionBelow
  <2> QED
    BY <1>3, <2>1, SectionMade DEF SectionOK
<1> QED
  BY <1>1, <1>2, <1>3

LEMMA ReplayStart == ASSUME Replays!Init PROVE ReplayInv
<1>1. rPage \in Replays!Pages /\ rMoves \in 0 .. ReplayMoves
  BY ViewsAssumption DEF Replays!Init, Replays!Pages, Replays!ConstantsOK
<1>2. selected \in Replays!Sessions \cup {None}
  BY <1>1 DEF Replays!Init, Replays!Pages
<1>3. list \in [call : Replays!Keys \cup {None}, loaded : Replays!Lists \cup {None}]
      /\ (rPage.drawer => list.call = None)
  BY <1>1 DEF Replays!Init, Replays!Pages, Replays!Keys, Replays!requestKey
<1>4. SectionOK(rPage, list, selected, section)
  BY <1>1, SectionMade DEF Replays!Init, SectionOK
<1> QED
  BY <1>1, <1>2, <1>3, <1>4 DEF ReplayInv

LEMMA PageMoves ==
  ASSUME ReplayInv, NEW p \in Replays!Pages, p.drawer = rPage.drawer, Replays!Moves, Replays!ToPage(p)
  PROVE  ReplayInv'
<1>1. /\ rPage' = p /\ selected' = selected /\ rMoves' = rMoves + 1 /\ rMoves < ReplayMoves
      /\ list' = [list EXCEPT !.call = IF p.drawer THEN None ELSE Replays!requestKey(p)]
      /\ section' = IF p.drawer THEN section ELSE Replays!SectionBelow(p, list, selected, section)
  BY DEF Replays!Moves, Replays!ToPage
<1>2. Replays!requestKey(p) \in Replays!Keys
  BY DEF Replays!requestKey, Replays!Keys, Replays!Pages
<1> DEFINE c == IF p.drawer THEN None ELSE Replays!requestKey(p)
<1>3. c \in Replays!Keys \cup {None} /\ (p.drawer => c = None) /\ list' = [list EXCEPT !.call = c]
  BY <1>1, <1>2
<1> HIDE DEF c
<1>4. /\ list' \in [call : Replays!Keys \cup {None}, loaded : Replays!Lists \cup {None}]
      /\ (p.drawer => list'.call = None) /\ list'.loaded = list.loaded
  BY <1>3 DEF ReplayInv
<1>5. SectionOK(p, list', selected, section')
  <2>1. CASE p.drawer
    BY <1>1, <2>1 DEF ReplayInv, SectionOK
  <2>2. CASE ~p.drawer
    <3>1. section' = Replays!SectionBelow(p, list', selected, section)
      BY <1>1, <1>4, <2>2 DEF Replays!SectionBelow, Replays!ReplaySessions
    <3> QED
      BY <1>4, <2>2, <3>1, KeptBelow DEF ReplayInv
  <2> QED
    BY <2>1, <2>2 DEF Replays!Pages
<1>6. ReplayMoves \in Nat
  BY ViewsAssumption DEF Replays!ConstantsOK
<1> QED
  BY <1>1, <1>4, <1>5, <1>6 DEF ReplayInv

LEMMA ListSettles ==
  ASSUME ReplayInv, NEW a \in Replays!Lists, list.call # None, Replays!Settled(a)
  PROVE  ReplayInv'
<1>1. /\ list' = [call |-> None, loaded |-> a] /\ UNCHANGED <<rPage, selected, rMoves>>
      /\ section' = Replays!SectionBelow(rPage, list', selected, section)
  BY DEF Replays!Settled
<1>2. ~rPage.drawer
  BY DEF ReplayInv
<1>3. SectionOK(rPage, list', selected, section')
  BY <1>1, <1>2, KeptBelow DEF ReplayInv
<1> QED
  BY <1>1, <1>2, <1>3 DEF ReplayInv

(* What changes the section only keeps the rest.                           *)
LEMMA SectionMoves ==
  ASSUME ReplayInv, UNCHANGED <<rPage, list, selected>>, rMoves' \in 0 .. ReplayMoves,
         SectionOK(rPage, list, selected, section')
  PROVE  ReplayInv'
BY DEF ReplayInv

LEMMA ReplayStep == ASSUME ReplayInv, [Replays!Next]_replayVars PROVE ReplayInv'
<1>m. ReplayMoves \in Nat
  BY ViewsAssumption DEF Replays!ConstantsOK
<1>n. Replays!Moves => rMoves' \in 0 .. ReplayMoves
  BY <1>m DEF Replays!Moves, ReplayInv
<1>o. rMoves \in 0 .. ReplayMoves
  BY DEF ReplayInv
<1>1. CASE Replays!handleRefresh
  <2>1. [rPage EXCEPT !.tick = @ + 1] \in Replays!Pages /\ [rPage EXCEPT !.tick = @ + 1].drawer = rPage.drawer
    BY DEF ReplayInv, Replays!Pages
  <2> QED
    BY <1>1, <2>1, PageMoves DEF Replays!handleRefresh
<1>2. CASE Replays!setEnv
  <2>1. PICK e \in Replays!Range(EnvOf) : Replays!ToPage([rPage EXCEPT !.env = e])
    BY <1>2 DEF Replays!setEnv
  <2>2. [rPage EXCEPT !.env = e] \in Replays!Pages /\ [rPage EXCEPT !.env = e].drawer = rPage.drawer
    BY DEF ReplayInv, Replays!Pages
  <2> QED
    BY <1>2, <2>1, <2>2, PageMoves DEF Replays!setEnv
<1>3. CASE Replays!setSelected
  <2>1. PICK s \in Replays!Range(list.loaded.sessions) :
          selected' = s /\ section' = Replays!SectionBelow(rPage, list, s, section)
    BY <1>3 DEF Replays!setSelected
  <2>2. ~rPage.drawer /\ list.loaded \in Replays!Lists /\ UNCHANGED <<rPage, list>> /\ rMoves' \in 0 .. ReplayMoves
    BY <1>3, <1>n DEF Replays!setSelected, Replays!ReplaySessions, ReplayInv
  <2>3. s \in Replays!Sessions
    BY <2>2 DEF Replays!Range, Replays!Lists
  <2>4. SectionOK(rPage, list, selected, section)
    BY DEF ReplayInv
  <2> DEFINE b == Replays!SectionBelow(rPage, list, s, section)
  <2>5. SectionOK(rPage, list, s, b)
    BY <2>2, <2>3, <2>4, KeptBelow DEF ReplayInv
  <2>6. selected' = s /\ section' = b /\ rPage' = rPage /\ list' = list
    BY <2>1, <2>2
  <2> HIDE DEF b
  <2>7. SectionOK(rPage', list', selected', section')
    BY <2>5, <2>6
  <2> QED
    BY <2>2, <2>3, <2>6, <2>7 DEF ReplayInv
<1>4. CASE Replays!load
  <2>1. /\ section # None /\ section.status = "idle" /\ UNCHANGED <<rPage, list, selected>>
        /\ section' = [section EXCEPT !.status = "loading", !.query = Replays!requestKey(rPage)]
    BY <1>4 DEF Replays!load
  <2>2. Replays!requestKey(rPage) \in Replays!Keys
    BY DEF ReplayInv, Replays!requestKey, Replays!Keys, Replays!Pages
  <2>3. SectionOK(rPage, list, selected, section) /\ SectionShape(section)
    BY <2>1 DEF ReplayInv, SectionOK
  <2> DEFINE st == "loading"
             k == Replays!requestKey(rPage)
  <2> HIDE DEF st, k
  <2>a. section' = [section EXCEPT !.status = st, !.query = k]
    BY <2>1 DEF st, k
  <2>b. section' = [session |-> section.session, query |-> k, status |-> st,
                    data |-> section.data, player |-> section.player]
    BY <2>a, <2>3, SectionChanged
  <2>4. section' = [session |-> section.session, query |-> Replays!requestKey(rPage), status |-> "loading",
                    data |-> section.data, player |-> section.player]
    BY <2>b DEF st, k
  <2>c. /\ SectionShape(section') /\ section'.session = section.session
        /\ section'.query = Replays!requestKey(rPage) /\ section'.status = "loading"
        /\ section'.data = section.data
    BY <2>4, SectionRenewed
  <2>5. SectionOK(rPage, list, selected, section')
    BY <2>1, <2>2, <2>3, <2>c DEF SectionOK
  <2> QED
    BY <1>4, <1>n, <2>1, <2>5, SectionMoves DEF Replays!load
<1>5. ASSUME NEW q, section # None, Replays!ToPlayer(q), rMoves' \in 0 .. ReplayMoves
      PROVE  ReplayInv'
  <2>1. section' = [section EXCEPT !.player = q] /\ UNCHANGED <<rPage, list, selected>>
    BY <1>5 DEF Replays!ToPlayer
  <2>2. SectionOK(rPage, list, selected, section) /\ SectionShape(section)
    BY <1>5 DEF ReplayInv, SectionOK
  <2>3. section' = [session |-> section.session, query |-> section.query, status |-> section.status,
                    data |-> section.data, player |-> q]
    BY <2>1, <2>2, SectionChanged
  <2>4. SectionOK(rPage, list, selected, section')
    BY <1>5, <2>2, <2>3, SectionRenewed DEF SectionOK
  <2> QED
    BY <1>5, <2>1, <2>4, SectionMoves
<1>6. CASE Replays!toggle
  BY <1>6, <1>5, <1>n DEF Replays!toggle, Replays!HasPlayer
<1>7. CASE Replays!seek
  BY <1>7, <1>5, <1>n DEF Replays!seek, Replays!HasPlayer
<1>8. CASE Replays!changeSpeed
  BY <1>8, <1>5, <1>n DEF Replays!changeSpeed, Replays!HasPlayer
<1>9. CASE Replays!Tick
  BY <1>9, <1>5, <1>o DEF Replays!Tick, Replays!playing, Replays!HasPlayer
<1>10. CASE Replays!ListArrives
  <2>1. list.call \in Replays!Keys /\ list.call # None
    BY <1>10 DEF Replays!ListArrives, ReplayInv
  <2>2. [key |-> list.call, state |-> "ready", sessions |-> Replays!listReplaySessions(list.call[1])] \in Replays!Lists
    BY <2>1, SessionsListed DEF Replays!Lists
  <2> QED
    BY <1>10, <2>1, <2>2, ListSettles DEF Replays!ListArrives
<1>11. CASE Replays!ListFails
  <2>1. list.call \in Replays!Keys /\ list.call # None
    BY <1>11 DEF Replays!ListFails, ReplayInv
  <2>2. [key |-> list.call, state |-> "error", sessions |-> << >>] \in Replays!Lists
    BY <2>1 DEF Replays!Lists
  <2> QED
    BY <1>11, <2>1, <2>2, ListSettles DEF Replays!ListFails
<1>12. ASSUME Replays!Loading, section' = [section EXCEPT !.status = "error"],
              UNCHANGED <<rPage, list, selected, rMoves>>
       PROVE  ReplayInv'
  <2>1. SectionOK(rPage, list, selected, section) /\ SectionShape(section) /\ section # None
        /\ section.data = None
    BY <1>12 DEF ReplayInv, SectionOK, Replays!Loading
  <2>2. section' = [session |-> section.session, query |-> section.query, status |-> "error",
                    data |-> section.data, player |-> section.player]
    BY <1>12, <2>1, SectionChanged
  <2>3. SectionOK(rPage, list, selected, section')
    BY <2>1, <2>2, SectionRenewed DEF SectionOK
  <2> QED
    BY <1>12, <1>o, <2>3, SectionMoves
<1>13. CASE Replays!fail
  BY <1>13, <1>12 DEF Replays!fail
<1>14. CASE Replays!settle
  <2>1. PICK lines \in Replays!Delivered(section.session) :
          LET found == IF EnvOf[section.session] = section.query[1] /\ ~Replays!unsupported(lines)
                       THEN Replays!fetchReplay(lines) ELSE None
          IN section' = IF found = None THEN [section EXCEPT !.status = "error"]
                        ELSE [section EXCEPT !.status = "ready", !.data = found,
                                             !.player = Replays!Player(rPage, found)]
    BY <1>14 DEF Replays!settle
  <2> DEFINE found == IF EnvOf[section.session] = section.query[1] /\ ~Replays!unsupported(lines)
                      THEN Replays!fetchReplay(lines) ELSE None
             q == Replays!Player(rPage, found)
  <2>2. Replays!Loading /\ UNCHANGED <<rPage, list, selected, rMoves>>
    BY <1>14 DEF Replays!settle
  <2>3. section' = IF found = None THEN [section EXCEPT !.status = "error"]
                   ELSE [section EXCEPT !.status = "ready", !.data = found, !.player = q]
    BY <2>1
  <2> HIDE DEF found, q
  <2>4. CASE found = None
    BY <1>12, <2>2, <2>3, <2>4
  <2>5. CASE found # None
    <3>1. SectionOK(rPage, list, selected, section) /\ SectionShape(section) /\ section # None
      BY <2>2 DEF ReplayInv, SectionOK, Replays!Loading
    <3>2. section' = [session |-> section.session, query |-> section.query, status |-> "ready",
                      data |-> found, player |-> q]
      BY <2>3, <2>5, <3>1, SectionChanged
    <3>3. section.session \in Replays!Sessions
      BY <3>1 DEF SectionOK
    <3>4. found = Replays!fetchReplay(lines)
      BY <2>5 DEF found
    <3>5. WellPlayed(section.session, found)
      BY <2>5, <3>3, <3>4, FetchedWhole
    <3>6. SectionOK(rPage, list, selected, section')
      BY <2>5, <3>1, <3>2, <3>5, SectionRenewed DEF SectionOK
    <3> QED
      BY <1>o, <2>2, <3>6, SectionMoves
  <2> QED
    BY <2>4, <2>5
<1>15. CASE UNCHANGED replayVars
  BY <1>15 DEF replayVars, ReplayInv, SectionOK
<1> QED
  BY <1>1, <1>2, <1>3, <1>4, <1>6, <1>7, <1>8, <1>9, <1>10, <1>11, <1>13, <1>14, <1>15
     DEF Replays!Next, Replays!Network

LEMMA ReplayTyped ==
  ASSUME ReplayInv
  PROVE  Replays!ReplayTypeOK /\ Replays!PlayerOfPage /\ Replays!PlayedOnceInOrder
<1>1. Replays!ReplayTypeOK /\ Replays!PlayerOfPage
  BY DEF ReplayInv, SectionOK, Replays!ReplayTypeOK, Replays!PlayerOfPage
<1>2. ASSUME Replays!HasPlayer
      PROVE  WellPlayed(section.session, section.data)
  BY <1>2 DEF ReplayInv, SectionOK, Replays!HasPlayer
<1>3. Replays!Cardinality(Replays!Range(section.data.events)) = Cardinality(Replays!Range(section.data.events))
  BY Zenon DEF Replays!Cardinality, Cardinality
<1>4. Replays!PlayedOnceInOrder
  BY <1>2, <1>3 DEF WellPlayed, Replays!AsTheyHappen, Replays!PlayedOnceInOrder
<1> QED
  BY <1>1, <1>4

-----------------------------------------------------------------------------
(* The parts together.                                                     *)

(* A step of the whole is a step of each part, or leaves it as it is.      *)
LEMMA PartsMove ==
  ASSUME [ViewsNext]_viewsVars
  PROVE  /\ [Next]_vars
         /\ [Drawer!Next]_drawerVars
         /\ [Bar!Next]_barVars
         /\ [Run!Next]_runVars
         /\ [Map!Next]_mapVars
         /\ [Wall!Next]_boardVars
         /\ [Pane!Next]_tabVars
         /\ [Alerts!Next]_alertVars
         /\ [Replays!Next]_replayVars
<1> DEFINE Goal ==
         /\ Next \/ UNCHANGED vars
         /\ Drawer!Next \/ UNCHANGED drawerVars
         /\ Bar!Next \/ UNCHANGED barVars
         /\ Run!Next \/ UNCHANGED runVars
         /\ Map!Next \/ UNCHANGED mapVars
         /\ Wall!Next \/ UNCHANGED boardVars
         /\ Pane!Next \/ UNCHANGED tabVars
         /\ Alerts!Next \/ UNCHANGED alertVars
         /\ Replays!Next \/ UNCHANGED replayVars
<1>1. CASE UNCHANGED viewsVars
  BY <1>1 DEF viewsVars
<1>2. CASE Only("watchlist") /\ Next
  BY <1>2 DEF Only
<1>3. CASE Only("drawer") /\ Drawer!Next
  BY <1>3 DEF Only
<1>4. CASE Only("bar") /\ Bar!Next
  BY <1>4 DEF Only
<1>5. CASE Only("investigation") /\ Run!Next
  BY <1>5 DEF Only
<1>6. CASE Only("map") /\ Map!Next
  BY <1>6 DEF Only
<1>7. CASE Only("board") /\ Wall!Next
  BY <1>7 DEF Only
<1>8. CASE Only("tab") /\ Pane!Next
  BY <1>8 DEF Only
<1>9. CASE Only("alerts") /\ Alerts!Next
  BY <1>9 DEF Only
<1>10. CASE Only("replay") /\ Replays!Next
  BY <1>10 DEF Only
<1>11. Goal
  BY <1>1, <1>2, <1>3, <1>4, <1>5, <1>6, <1>7, <1>8, <1>9, <1>10 DEF ViewsNext
<1> QED
  BY <1>11

(* Every part keeps its invariant, and one of them moves.                  *)
ViewsInv ==
  /\ part \in {"drawer", "bar", "investigation", "map", "board", "tab", "alerts", "replay",
             "watchlist"}
  /\ WatchlistInv /\ DrawerInv /\ BarInv /\ RunInv /\ MapInv /\ BoardInv /\ TabInv /\ AlertInv /\ ReplayInv

LEMMA ViewsStart == ViewsInit => ViewsInv
BY WatchlistStart, DrawerStart, BarStart, RunStart, MapStart, BoardStart, TabStart, AlertStart, ReplayStart
   DEF ViewsInit, ViewsInv

LEMMA ViewsStep == ViewsInv /\ [ViewsNext]_viewsVars => ViewsInv'
<1> SUFFICES ASSUME ViewsInv, [ViewsNext]_viewsVars
             PROVE  ViewsInv'
  OBVIOUS
<1>1. part' = part
  BY DEF ViewsNext, Only, viewsVars
<1>2. WatchlistInv' /\ DrawerInv' /\ BarInv'
  BY PartsMove, WatchlistStep, DrawerStep, BarStep DEF ViewsInv
<1>3. RunInv' /\ MapInv' /\ BoardInv'
  BY PartsMove, RunStep, MapStep, BoardStep DEF ViewsInv
<1>4. TabInv' /\ AlertInv' /\ ReplayInv'
  BY PartsMove, TabStep, AlertStep, ReplayStep DEF ViewsInv
<1> QED
  BY <1>1, <1>2, <1>3, <1>4 DEF ViewsInv

LEMMA ViewsInvariant == ViewsSpec => []ViewsInv
BY ViewsStart, ViewsStep, PTL DEF ViewsSpec

(* In every behaviour the variables of each part keep to their types.      *)
THEOREM ViewsAreTyped == ViewsSpec => []ViewsTypeOK
<1>1. ASSUME ViewsInv PROVE ViewsTypeOK
  <2>1. WatchlistTypeOK /\ Drawer!DrawerTypeOK /\ Bar!BarTypeOK
    BY <1>1, WatchlistSays, DrawerSays DEF ViewsInv, BarInv
  <2>2. Run!InvestigationTypeOK /\ Map!MapTypeOK /\ Wall!CardsTypeOK
    BY <1>1, RunTyped, MapTyped DEF ViewsInv, BoardInv
  <2>3. Pane!TabTypeOK /\ Alerts!AlertsTypeOK /\ Replays!ReplayTypeOK
    BY <1>1, TabTyped, AlertsTyped, ReplayTyped DEF ViewsInv
  <2>4. part \in {"drawer", "bar", "investigation", "map", "board", "tab", "alerts", "replay",
                "watchlist"}
    BY <1>1 DEF ViewsInv
  <2> QED
    BY <2>1, <2>2, <2>3, <2>4 DEF ViewsTypeOK
<1> QED
  BY <1>1, ViewsInvariant, PTL

(* However many tabs, replicas and services there are and whatever fails:  *)
(* a board that waits for nothing shows all of the stored list, and beyond *)
(* it at most services without a namespace, which setOpsWatchlist does not *)
(* store, as long as nobody else wrote and its own calls did not overtake  *)
(* one another (BoardShowsStored).                                         *)
THEOREM SettledBoardIsTrue == ViewsSpec => []BoardShowsStored
<1>1. ViewsInv => BoardShowsStored
  BY WatchlistSays DEF ViewsInv
<1> QED
  BY <1>1, ViewsInvariant, PTL

(* Whatever is opened, closed, gone back to and answered late: the         *)
(* occurrences that the drawer shows are those its URL asks for            *)
(* (OccurrencesAreAsked).                                                  *)
THEOREM DrawerShowsAsked == ViewsSpec => []OccurrencesAreAsked
<1>1. ViewsInv => OccurrencesAreAsked
  BY DrawerSays DEF ViewsInv, OccurrencesAreAsked
<1> QED
  BY <1>1, ViewsInvariant, PTL

(* Wherever a stream is cut, an investigation shows what the events that   *)
(* have been read tell, each taken once and in order; however a recorded   *)
(* session is split into streams, stored again and delivered, the player   *)
(* has every event that a query returns, once and in order (EventsOnce).   *)
THEOREM EventsAreTakenOnce == ViewsSpec => []EventsOnce
<1>1. ViewsInv => Run!EventsOnce
  BY DEF ViewsInv, RunInv
<1>2. ViewsInv => EventsOnce
  BY <1>1, ReplayTyped DEF ViewsInv, EventsOnce
<1> QED
  BY <1>2, ViewsInvariant, PTL

(* A map is not drawn before it is known to be small; a tab says that      *)
(* there is nothing only on an answer for its own service, environment and *)
(* window that held none of it, a failure of the GraphQL metrics (server   *)
(* tab) or of the runtime metrics (database tab) counting as none; and,    *)
(* whatever rules the sources list under whatever names, a row of the      *)
(* alerts is as bad as the worst of them and counts all that is at work    *)
(* (ViewsAreTrue).                                                         *)
THEOREM ViewsTellTruth == ViewsSpec => []ViewsAreTrue
<1>1. ViewsInv => ViewsAreTrue
  BY MapHidesHairball, TabNotes, AlertRowsTell DEF ViewsInv, ViewsAreTrue
<1> QED
  BY <1>1, ViewsInvariant, PTL

(* Panels, frontend, deploy and player are of the page they stand on,      *)
(* whatever was asked before and is answered late (OfThePage).             *)
THEOREM ViewsAreOfThePage == ViewsSpec => []OfThePage
<1>1. ViewsInv => OfThePage
  BY TabNarrows, TabFront, AlertsNameDeploy, ReplayTyped DEF ViewsInv, OfThePage
<1> QED
  BY <1>1, ViewsInvariant, PTL

(* For any services, filters, card sizes and areas: every card is on one   *)
(* page, the page that is shown is not empty, and no card goes before its  *)
(* time (CardsKept).                                                       *)
THEOREM CardsAreKept == ViewsSpec => CardsKept
<1>1. ViewsInv => Wall!EveryCardOnce
  BY CardsOnce DEF ViewsInv, BoardInv
<1>2. ViewsInv /\ [ViewsNext]_viewsVars
        => [\A i \in Wall!cards : remembers /\ envs' = envs => i \in Wall!cards' \/ seen[i] > TTL]_boardVars
  BY PartsMove, CardsGo DEF ViewsInv
<1> QED
  BY <1>1, <1>2, ViewsInvariant, PTL DEF ViewsSpec, CardsKept, Wall!CardsStay, Wall!vars, boardVars

=============================================================================
