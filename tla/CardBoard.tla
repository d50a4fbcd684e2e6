------------------------------ MODULE CardBoard ------------------------------
(***************************************************************************)
(* The wall boards: src/pages/StatusBoard.tsx, which shows a namespace and *)
(* remembers services that have disappeared, and the same pages of cards   *)
(* in src/pages/OpsStatusBoard.tsx, which does not.                        *)
(*                                                                         *)
(* Cards are sorted by severity, cut into pages of as many as the measured *)
(* area holds, and the pages follow one another on a timer, while answers, *)
(* filters, card sizes and the area change underneath.                     *)
(*                                                                         *)
(* Definitions marked "Slip" are wrong variants of the one that follows    *)
(* them.  The specification uses none; each breaks a property below.       *)
(***************************************************************************)
EXTENDS Ordering, Functions

CONSTANTS
  Ids,       \* services of the namespace: [name, env] records
  Answers,   \* what a query may return: functions from ids to a health
  Filters,   \* sets of environments that are picked
  Areas,     \* measured areas, <<width, height>> in pixels; <<0, 0>> unmeasured
  Sizes,     \* card sizes that are used
  TTL,       \* ticks a service is remembered
  None       \* no answer yet

VARIABLES
  remembers, \* TRUE for the board of a namespace
  answer,    \* what the last query that succeeded returned
  error,     \* the last query failed
  envs,      \* the filter of the URL
  size,      \* the card size of the URL
  area,      \* the area as measured
  page,      \* the page, and the filter and size it was chosen under
  rotating,  \* the timer is on
  seen       \* ticks since each remembered service was last seen

vars == <<remembers, answer, error, envs, size, area, page, rotating, seen>>

Filter == <<envs, size>>

Init ==
  /\ remembers \in BOOLEAN
  /\ answer = None /\ error = FALSE
  /\ envs = {} /\ size \in Sizes
  /\ area = <<0, 0>>
  /\ page = [no |-> 0, under |-> Filter]
  /\ rotating = TRUE
  /\ seen = << >>

-----------------------------------------------------------------------------
(* The cards.                                                              *)

Passing(a, e) == IF a = None THEN {} ELSE {i \in DOMAIN a : e = {} \/ i.env \in e}

(* The services on the board, and those that are remembered.               *)
Present == Passing(answer, envs)
Gone == DOMAIN seen \ Present

healthSeverity(i) ==
  IF i \in Gone THEN 1
  ELSE CASE answer[i] = "critical" -> 4 [] answer[i] = "warning" -> 2 [] OTHER -> 0

(* Severe cards first, then by name; equals as the answer had them.        *)
Before(i, j) ==
  \/ healthSeverity(i) > healthSeverity(j)
  \/ healthSeverity(i) = healthSeverity(j) /\ i.name < j.name
  \/ healthSeverity(i) = healthSeverity(j) /\ i.name = j.name /\ i.env < j.env

cards == Present \cup Gone

cardItems == InOrder(cards, {p \in cards \X cards : Before(p[1], p[2])})

Larger(m, n) == IF m > n THEN m ELSE n
Smaller(m, n) == IF m < n THEN m ELSE n

CardDimensions(z) ==
  CASE z = "sm" -> <<180, 72>> [] z = "md" -> <<220, 140>> [] OTHER -> <<260, 164>>

(* How many cards fit in an area, with a gap of 12 pixels.                 *)
calcGrid(a, z) ==
  LET fit(k) == Larger(1, (a[k] + 12) \div (CardDimensions(z)[k] + 12)) IN fit(1) * fit(2)

(* Until the area is measured all cards are on one page.                   *)
perPage ==
  IF area[1] > 0 /\ area[2] > 0 THEN calcGrid(area, size) ELSE Larger(1, Cardinality(cards))

totalPages == Larger(1, (Cardinality(cards) + perPage - 1) \div perPage)

(* A page chosen under another filter or size counts as the first.         *)
currentPage == IF page.under = Filter THEN page.no ELSE 0

(* Slip: the page is taken as it was chosen.                               *)
ShownUnclamped == currentPage

shownPage == Smaller(currentPage, totalPages - 1)

PageAt(p) == SubSeq(cardItems, p * perPage + 1, Smaller((p + 1) * perPage, Cardinality(cards)))

pageItems == PageAt(shownPage)

-----------------------------------------------------------------------------
(* Slip: what the answer does not hold is forgotten at once.               *)
RememberPresent(a, e) ==
  IF ~remembers \/ a = None THEN seen ELSE [i \in Passing(a, e) |-> 0]

(* Every answer and every change of the filter marks what the filter lets  *)
(* through as seen, and forgets what was not seen for longer than TTL.     *)
Remember(a, e) ==
  IF ~remembers \/ a = None THEN seen
  ELSE [i \in Passing(a, e) \cup {j \in DOMAIN seen : seen[j] <= TTL} |->
          IF i \in Passing(a, e) THEN 0 ELSE seen[i]]

Answered(a) ==
  /\ answer' = a /\ error' = FALSE
  /\ seen' = Remember(a, envs)
  /\ UNCHANGED <<remembers, envs, size, area, page, rotating>>

(* A query that fails leaves what the one before returned.                 *)
Failed ==
  /\ error' = TRUE
  /\ UNCHANGED <<remembers, answer, envs, size, area, page, rotating, seen>>

setEnvFilters(e) ==
  /\ envs' = e
  /\ seen' = Remember(answer, e)
  /\ UNCHANGED <<remembers, answer, error, size, area, page, rotating>>

setCardSize(z) ==
  /\ size' = z
  /\ UNCHANGED <<remembers, answer, error, envs, area, page, rotating, seen>>

Measured(a) ==
  /\ area' = a
  /\ UNCHANGED <<remembers, answer, error, envs, size, page, rotating, seen>>

(* A dot of the pager is clicked.                                          *)
setCurrentPage(p) ==
  /\ totalPages > 1 /\ p < totalPages
  /\ page' = [no |-> p, under |-> Filter]
  /\ UNCHANGED <<remembers, answer, error, envs, size, area, rotating, seen>>

setRotationInterval ==
  /\ rotating' = ~rotating
  /\ UNCHANGED <<remembers, answer, error, envs, size, area, page, seen>>

(* Slip: the timer stops at the last page.                                 *)
NextToLast == Smaller(currentPage + 1, totalPages - 1)

NextPage == (currentPage + 1) % totalPages

(* The timer of the pages, which runs while there is more than one.        *)
Rotate ==
  /\ rotating /\ totalPages > 1
  /\ page' = [no |-> NextPage, under |-> Filter]
  /\ UNCHANGED <<remembers, answer, error, envs, size, area, rotating, seen>>

Tick ==
  /\ seen' = [i \in DOMAIN seen |-> Smaller(seen[i] + 1, TTL + 1)]
  /\ UNCHANGED <<remembers, answer, error, envs, size, area, page, rotating>>

Next ==
  \/ \E a \in Answers : Answered(a)
  \/ Failed
  \/ \E e \in Filters : setEnvFilters(e)
  \/ \E z \in Sizes : setCardSize(z)
  \/ \E a \in Areas : Measured(a)
  \/ \E p \in 0 .. Cardinality(Ids) - 1 : setCurrentPage(p)
  \/ setRotationInterval \/ Rotate \/ Tick

Spec == Init /\ [][Next]_vars /\ WF_vars(Rotate)

-----------------------------------------------------------------------------
(* Names and environments are numbers; the page may be opened unfiltered.  *)
ConstantsOK ==
  /\ IsFiniteSet(Ids) /\ Ids \subseteq [name : Nat, env : Nat]
  /\ \A a \in Answers : DOMAIN a \subseteq Ids
  /\ {} \in Filters /\ Areas \subseteq Int \X Int /\ TTL \in Nat

(* The type of every variable.                                             *)
CardsTypeOK ==
  /\ remembers \in BOOLEAN /\ error \in BOOLEAN /\ rotating \in BOOLEAN
  /\ answer \in Answers \cup {None}
  /\ envs \in Filters /\ size \in Sizes /\ area \in Areas \cup {<<0, 0>>}
  /\ page.no \in 0 .. Cardinality(Ids)
  /\ DOMAIN seen \subseteq Ids /\ \A i \in DOMAIN seen : seen[i] \in 0 .. TTL + 1

(* However answers, filters, sizes and the area change while the pages     *)
(* turn: every card is on exactly one page, and the page on the wall holds *)
(* cards whenever there are any.                                           *)
EveryCardOnce ==
  LET on == [p \in 0 .. totalPages - 1 |-> Range(PageAt(p))] IN
  /\ \A i \in cards : \E p \in DOMAIN on : i \in on[p] /\ \A q \in DOMAIN on \ {p} : i \notin on[q]
  /\ cards # {} => pageItems # << >>

(* A board of a namespace does not lose a card to a service that crashed:  *)
(* with the filter left alone, a card goes only once its service has not   *)
(* been seen for TTL.                                                      *)
CardsStay ==
  [][\A i \in cards : remembers /\ envs' = envs => i \in cards' \/ seen[i] > TTL]_vars

(* Steps of a wall board nobody touches: the pages turn, time passes, and  *)
(* refreshes leave the number of pages as it is.                           *)
Untouched ==
  \/ Rotate
  \/ /\ UNCHANGED <<remembers, envs, size, area, page, rotating>>
     /\ answer' = answer \/ totalPages' = totalPages

(* Left alone with the timer on, the board shows every page again and      *)
(* again, whatever page it was on and however often the data is refreshed. *)
RotationComesRound ==
  \A p \in 0 .. Cardinality(Ids) - 1 :
    <>[][Untouched]_vars /\ <>[](rotating /\ p < totalPages) => []<>(shownPage = p)

(* Violated.  "Last seen" is for services that disappeared: a card says NO *)
(* DATA only when the last answer does not hold its service.               *)
NoDataMeansGone == answer # None => Gone \cap DOMAIN answer = {}

=============================================================================
