------------------------------ MODULE ListPages ------------------------------
(***************************************************************************)
(* The pages that list rows under filters, a sort and a page of the URL:   *)
(* src/pages/ServiceInventory.tsx ("services"), JobsInventory.tsx          *)
(* ("jobs"), the tables of NamespaceOverview.tsx ("namespace") and the     *)
(* tables that keep their sort in the URL through useTableSort             *)
(* (src/components/SortableTable.tsx, "callers").                          *)
(*                                                                         *)
(* A job is a row without environment, sidecars and favourites, whose      *)
(* errors are its failures.  The fuzzy search (Fuse.js) is external: a     *)
(* score for every query and name, the smaller the better.                 *)
(*                                                                         *)
(* Definitions marked "Slip" are wrong variants of the one that follows    *)
(* them.  The specification uses none; each breaks a property below.       *)
(***************************************************************************)
EXTENDS Integers, Sequences, FiniteSets, SequencesExt, Ordering

CONSTANTS
  Kinds,      \* the pages that are looked at
  Answers,    \* what a query may return: rows, and whether there are metrics
  NsPicks,    \* sets of namespaces that are picked
  EnvPicks,   \* sets of environments that are picked
  Queries,    \* what is typed into the search field, besides nothing
  Score,      \* the score of a name under a query, where it matches
  Prefix,     \* the names that begin with a query
  EnvRank,    \* envSortKey of every environment: prod before dev before others
  PageSize,   \* rows of a page
  MaxPage,    \* bound of the page in the URL
  None        \* no answer yet; nothing typed

VARIABLES
  kind,       \* the page
  rows,       \* what the last query that succeeded returned
  detected,   \* it also said that there are span metrics, or job metrics
  failed,     \* the last query failed
  favs,       \* names that are favourites
  url         \* the parameters of the URL

vars == <<kind, rows, detected, failed, favs, url>>

Fields == {"name", "env", "rate"}
Names == {r.name : r \in UNION {Range(a.rows) : a \in Answers}}

(* A number stands for every name, by the order of names.                  *)
Row == [name : Int, ns : Int, env : Int, sidecar : BOOLEAN, err : BOOLEAN, rate : Int]

(* Nothing is not an answer, and a page holds some rows.                   *)
ConstantsOK ==
  /\ \A a \in Answers : a.rows \in Seq(Row) /\ a.rows # None /\ a.detected \in BOOLEAN
  /\ {} \in NsPicks /\ {} \in EnvPicks /\ None # << >>
  /\ \A q \in Queries : \A n \in DOMAIN Score[q] : Score[q][n] \in Int
  /\ \A a \in Answers : \A r \in Range(a.rows) : EnvRank[r.env] \in Int
  /\ PageSize \in Nat \ {0} /\ MaxPage \in Nat \ {0}

(* The sort a page has when nothing says otherwise.                        *)
DefaultField == IF kind \in {"services", "jobs"} THEN "name" ELSE "rate"
DefaultDir == IF kind \in {"services", "jobs"} THEN "asc" ELSE "desc"

Init ==
  /\ kind \in Kinds
  /\ rows = None /\ detected = FALSE /\ failed = FALSE
  /\ favs = {}
  /\ \E p \in 1 .. MaxPage :
       url = [ns |-> {}, env |-> {}, q |-> None, sidecars |-> FALSE, favsOnly |-> FALSE,
              errsOnly |-> FALSE, field |-> DefaultField, dir |-> DefaultDir, page |-> p]

-----------------------------------------------------------------------------
(* Filters.                                                                *)

Searching == url.q # None

Matches(r) == r.name \in DOMAIN Score[url.q]

(* Everything has to let a row through.  The tables of a namespace and of  *)
(* callers have fewer filters, whose parameters then are never set; a      *)
(* namespace never has sidecars.                                           *)
Passes(r) ==
  /\ kind = "namespace" \/ (kind = "services" /\ ~url.sidecars) => ~r.sidecar
  /\ url.ns # {} => r.ns \in url.ns
  /\ url.env # {} => r.env \in url.env
  /\ Searching => Matches(r)
  /\ url.favsOnly => r.name \in favs
  /\ url.errsOnly => r.err

-----------------------------------------------------------------------------
(* Order.  A comparison is negative, zero or positive; Else goes on to the *)
(* next one where rows are equal, as || does.                              *)

Else(c, d) == IF c # 0 THEN c ELSE d
Flag(b) == IF b THEN 0 ELSE 1

(* Names that begin with the query come before all others.                 *)
searchServices(a, b) ==
  Else(Flag(a.name \in Prefix[url.q]) - Flag(b.name \in Prefix[url.q]),
       Score[url.q][a.name] - Score[url.q][b.name])

ByField(a, b) ==
  CASE url.field = "name" -> a.name - b.name
    [] url.field = "env"  -> a.env - b.env
    [] url.field = "rate" -> a.rate - b.rate

Directed(c) == IF url.dir = "desc" THEN -c ELSE c

DefaultSort == url.field = "name" /\ url.dir = "asc"

(* Slip: a favourite on the left wins, one on the right does not.          *)
FavouritesOneSided(a, b) == IF a.name \in favs THEN -1 ELSE 0

FavouritesFirst(a, b) == Flag(a.name \in favs) - Flag(b.name \in favs)

(* Relevance is the order of a search unless a column was chosen; then     *)
(* favourites float, the column decides, sidecars sink, and names break    *)
(* what is equal.                                                          *)
InventoryOrder(a, b) ==
  IF Searching /\ DefaultSort THEN searchServices(a, b)
  ELSE Else(IF DefaultSort THEN FavouritesFirst(a, b) ELSE 0,
       Else(Directed(ByField(a, b)),
       Else(IF url.sidecars THEN Flag(~a.sidecar) - Flag(~b.sidecar) ELSE 0,
            a.name - b.name)))

JobsOrder(a, b) ==
  IF Searching /\ DefaultSort THEN searchServices(a, b)
  ELSE Else(Directed(ByField(a, b)), a.name - b.name)

(* useTableSort compares the column and nothing else.                      *)
comparator(a, b) == Directed(ByField(a, b))

RowOrder(a, b) ==
  CASE kind = "services" -> InventoryOrder(a, b)
    [] kind = "jobs"     -> JobsOrder(a, b)
    [] OTHER             -> comparator(a, b)

(* One namespace of several environments is shown in groups.               *)
EnvOptions == {r.env : r \in Range(rows)}

groupByEnv ==
  kind = "services" /\ Cardinality(url.ns) = 1 /\ url.env = {} /\ Cardinality(EnvOptions) > 1

(* Slip: environments of the same rank are not told apart.                 *)
ByRank(a, b) == EnvRank[a.env] - EnvRank[b.env]

GroupOrder(a, b) == Else(EnvRank[a.env] - EnvRank[b.env], a.env - b.env)

(* The rows are sorted twice when they are in groups.  Array.prototype.sort *)
(* is stable, so a group keeps the order the rows had, and rows that are   *)
(* equal keep the order of the answer.                                     *)
Order(a, b) == Else(IF groupByEnv THEN GroupOrder(a, b) ELSE 0, RowOrder(a, b))

Passing == {k \in DOMAIN rows : Passes(rows[k])}

Before ==
  {p \in Passing \X Passing :
     LET c == Order(rows[p[1]], rows[p[2]]) IN c < 0 \/ (c = 0 /\ p[1] < p[2])}

(* The rows in the order of the page, of every page.                       *)
filtered == LET sorted == InOrder(Passing, Before) IN [k \in DOMAIN sorted |-> rows[sorted[k]]]

-----------------------------------------------------------------------------
(* Pages.  Jobs and callers have only one.                                 *)

totalPages ==
  IF kind \in {"jobs", "callers"} \/ filtered = << >> THEN 1
  ELSE (Len(filtered) + PageSize - 1) \div PageSize

(* A namespace shows its last page for one that is too far.                *)
safePage == IF kind = "namespace" /\ url.page > totalPages THEN totalPages ELSE url.page

paginated ==
  IF kind \in {"jobs", "callers"} THEN filtered
  ELSE LET last == safePage * PageSize
       IN  SubSeq(filtered, last - PageSize + 1,
                  IF last > Len(filtered) THEN Len(filtered) ELSE last)

(* The rows that get the heading of an environment above them.             *)
Headed(p) == {k \in DOMAIN p : groupByEnv /\ (k = 1 \/ p[k].env # p[k - 1].env)}

-----------------------------------------------------------------------------
(* What is on the screen.                                                  *)

Loading == rows = None /\ ~failed

SomeRows == rows # None /\ rows # << >>

(* The filters are there as soon as there is something to filter.          *)
FiltersShown == SomeRows \/ (rows # None /\ detected)

(* The table, with columns that one namespace or one environment hides.    *)
TableShown ==
  IF ~SomeRows THEN {}
  ELSE {"table"} \cup (IF Cardinality(url.ns) # 1 THEN {"namespace"} ELSE {})
       \cup (IF Cardinality(EnvOptions) > 1 /\ url.env = {} /\ ~groupByEnv
             THEN {"environment"} ELSE {})

(* A page without rows is explained by the favourites that were asked for. *)
FavouritesNote == IF favs = {} THEN "no favourites yet" ELSE "no favourites match"

FooterShown ==
  IF ~SomeRows THEN {}
  ELSE (IF totalPages > 1 THEN {"pager"} ELSE {})
       \cup (IF paginated = << >> /\ url.favsOnly THEN {FavouritesNote} ELSE {})

InventoryShows ==
  (IF failed THEN {"error"} ELSE {}) \cup
  (IF Loading THEN {"loading"} ELSE {}) \cup
  (IF rows # None /\ ~detected THEN {"no span metrics"} ELSE {}) \cup
  (IF FiltersShown THEN {"filters"} ELSE {}) \cup
  TableShown \cup FooterShown \cup
  (IF rows = << >> /\ detected THEN {"no services"} ELSE {})

(* Slip: what cannot be shown is called empty.                             *)
DataStateEager(empty, content) ==
  IF Loading THEN {"loading"} ELSE IF empty \/ rows = None THEN {"empty"} ELSE content

(* DataState: an error is shown before anything else.                      *)
DataState(empty, content) ==
  IF failed THEN {"error"} ELSE IF Loading THEN {"loading"} ELSE IF empty THEN {"empty"}
  ELSE content

JobsTable == {"table"} \cup (IF filtered = << >> THEN {"no jobs"} ELSE {})

JobsShows == DataState(~detected, {"filters"} \cup JobsTable)

(* The services of a namespace, in the environments that are picked.       *)
InNamespace == {r \in Range(rows) : ~r.sidecar /\ (url.env # {} => r.env \in url.env)}

NamespaceShows ==
  DataState(rows # None /\ InNamespace = {},
            {"stats", "table"} \cup
            (IF \E r \in InNamespace : r.err THEN {"needs attention"} ELSE {}))

Shows ==
  CASE kind = "services"  -> InventoryShows
    [] kind = "jobs"      -> JobsShows
    [] kind = "namespace" -> NamespaceShows
    [] OTHER              -> DataState(FALSE, {"table"})

-----------------------------------------------------------------------------
(* What happens.                                                           *)

Answered(a) ==
  /\ rows' = a.rows /\ detected' = a.detected /\ failed' = FALSE
  /\ UNCHANGED <<kind, favs, url>>

Failed ==
  /\ failed' = TRUE
  /\ UNCHANGED <<kind, rows, detected, favs, url>>

toggleFavorite(n) ==
  /\ kind = "services" /\ "table" \in Shows
  /\ favs' = (favs \ {n}) \cup ({n} \ favs)
  /\ UNCHANGED <<kind, rows, detected, failed, url>>

(* One set of changes to the URL for one thing that is done.               *)
updateParams(u) ==
  /\ url' = u
  /\ UNCHANGED <<kind, rows, detected, failed, favs>>

(* Filters send the reader back to the first page.                         *)
setNsFilters(s) == kind \in {"services", "jobs"} /\ updateParams([url EXCEPT !.ns = s, !.page = 1])

setEnvFilters(s) ==
  kind \in {"services", "namespace"} /\ updateParams([url EXCEPT !.env = s, !.page = 1])

(* Slip: the page stays.                                                   *)
SearchInPlace(q) == kind # "callers" /\ updateParams([url EXCEPT !.q = q])

setSearch(q) == kind # "callers" /\ updateParams([url EXCEPT !.q = q, !.page = 1])

setShowFavorites ==
  kind = "services" /\ updateParams([url EXCEPT !.favsOnly = ~@, !.page = 1])

setHideSidecars ==
  kind = "services" /\ updateParams([url EXCEPT !.sidecars = ~@, !.page = 1])

(* Has errors, failing, unhealthy.  The page of a namespace stays.         *)
setErrorsOnly ==
  /\ kind # "callers"
  /\ updateParams([url EXCEPT !.errsOnly = ~@, !.page = IF kind = "namespace" THEN @ ELSE 1])

(* The pager of @grafana/ui offers the pages by their number, the previous *)
(* one unless it is on the first, and the next one unless it is on the     *)
(* last.  It is told the page of the URL, which need not be there.         *)
Pagination ==
  IF totalPages = 1 THEN {}
  ELSE 1 .. totalPages \cup {p \in {safePage - 1} : safePage # 1}
         \cup {p \in {safePage + 1} : safePage # totalPages}

setPage(p) ==
  /\ kind \in {"services", "namespace"} /\ p \in Pagination /\ p <= MaxPage
  /\ updateParams([url EXCEPT !.page = p])

Flip == IF url.dir = "asc" THEN "desc" ELSE "asc"

toggleSort(f) ==
  /\ kind \in {"services", "jobs"}
  /\ updateParams(IF url.field = f THEN [url EXCEPT !.dir = Flip, !.page = 1]
                  ELSE [url EXCEPT !.field = f, !.page = 1,
                          !.dir = IF f = "rate" THEN "desc" ELSE "asc"])

(* The sort of useTableSort.  A namespace keeps it in the component; in    *)
(* the URL the column and the direction are two updates, and the router    *)
(* gives both of them the parameters of the last render: the second one    *)
(* takes the first one back.                                               *)
toggleTableSort(f) ==
  /\ kind \in {"namespace", "callers"}
  /\ updateParams(IF url.field = f THEN [url EXCEPT !.dir = Flip]
                  ELSE IF kind = "namespace" THEN [url EXCEPT !.field = f, !.dir = "desc"]
                  ELSE [url EXCEPT !.dir = "desc"])

Filter ==
  \/ \E s \in NsPicks : setNsFilters(s)
  \/ \E s \in EnvPicks : setEnvFilters(s)
  \/ \E q \in Queries \cup {None} : setSearch(q)
  \/ setShowFavorites \/ setHideSidecars \/ setErrorsOnly
  \/ \E f \in Fields : toggleSort(f) \/ toggleTableSort(f)

Pager == \E p \in 1 .. MaxPage : setPage(p)

Next ==
  \/ \E a \in Answers : Answered(a)
  \/ Failed
  \/ \E n \in Names : toggleFavorite(n)
  \/ rows # None /\ (Filter \/ Pager)

Spec == Init /\ [][Next]_vars

-----------------------------------------------------------------------------
(* The type of every variable.                                             *)
ListTypeOK ==
  /\ kind \in Kinds /\ rows \in {a.rows : a \in Answers} \cup {None}
  /\ detected \in BOOLEAN /\ failed \in BOOLEAN /\ favs \subseteq Names
  /\ url \in [ns : NsPicks, env : EnvPicks, q : Queries \cup {None},
              sidecars : BOOLEAN, favsOnly : BOOLEAN, errsOnly : BOOLEAN,
              field : Fields, dir : {"asc", "desc"}, page : 1 .. MaxPage]

(* The page of the URL is gone: rows pass the filters and none is shown.   *)
Stranded == rows # None /\ filtered # << >> /\ paginated = << >>

(* No filter, search or sort leaves a reader on a page that is gone, also  *)
(* when he was on one before; no step of the pager, and no star while the  *)
(* list is not of favourites, takes him to one from a page with rows.  The *)
(* pager may keep him there, since it steps from the page of the URL       *)
(* (ServiceInventory.tsx:132, 592).                                        *)
ControlsShowRows ==
  [][/\ rows # None /\ Filter => ~Stranded'
     /\ rows # None /\ Pager => (Stranded' => Stranded)
     /\ ~url.favsOnly /\ (\E n \in Names : toggleFavorite(n)) => (Stranded' => Stranded)]_vars

(* Violated.  The same of the stars in a list of favourites: the last one  *)
(* of a page takes the page with it (ServiceInventory.tsx:485-488).        *)
UnstarringShowsRows ==
  [][(\E n \in Names : toggleFavorite(n)) => (Stranded' => Stranded)]_vars

(* The comparison a table is sorted by is one: whichever filters, sort and *)
(* favourites, "before" is never both ways and never goes in a circle.     *)
OrderConsistent ==
  rows # None =>
    LET shown == {rows[k] : k \in Passing} IN
    \A a, b \in shown :
      /\ RowOrder(a, b) < 0 <=> RowOrder(b, a) > 0
      /\ \A c \in shown : RowOrder(a, b) <= 0 /\ RowOrder(b, c) <= 0 => RowOrder(a, c) <= 0

(* In a namespace shown in groups no environment is headed twice on a      *)
(* page, however the rows are sorted within the groups.                    *)
GroupsWhole ==
  rows # None =>
    LET p == paginated IN \A j, k \in Headed(p) : p[j].env = p[k].env => j = k

(* A page is never blank, and it says that there is nothing only after an  *)
(* answer that held nothing it could show: not while it loads, and not     *)
(* because a query failed.  Where it says that no favourites match, none   *)
(* does, or the page of the URL is beyond the last.                        *)
EmptyIsTrue ==
  /\ Shows # {}
  /\ Shows \cap {"empty", "no services", "no jobs", "no favourites yet"} # {} =>
       rows # None /\ (detected => filtered = << >>)
  /\ "no favourites match" \in Shows => filtered = << >> \/ url.page > totalPages

(* Violated.  "No favorite services match the current filters."            *)
(* (ServiceInventory.tsx:575) is said only when none does.                 *)
FavouritesNoteIsTrue == "no favourites match" \in Shows => filtered = << >>

(* Violated.  The sort of a table is kept in the URL: after a click on     *)
(* the head of a column the table is sorted by that column.                *)
HeaderSorts ==
  [][\A f \in Fields : rows # None /\ toggleTableSort(f) => url'.field = f]_vars

=============================================================================
