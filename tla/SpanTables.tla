----------------------------- MODULE SpanTables -----------------------------
(***************************************************************************)
(* A table of the server tab: EndpointSection and GraphQLSection of        *)
(* src/pages/tabs/ServerTab.tsx.  Both keep sort, search and page, in the  *)
(* URL when they have a prefix (HTTP endpoints, GraphQL operations), in    *)
(* the component otherwise; the rows come with every answer of the tab.    *)
(*                                                                         *)
(* Two setters called in one handler each write the URL of the last        *)
(* render, so the second undoes the first.                                 *)
(*                                                                         *)
(* Definitions marked "Slip" are wrong variants of the one that follows.   *)
(***************************************************************************)
EXTENDS Integers, FiniteSets

CONSTANTS
  Rows,      \* what may be in the table: id (its place in the answer), name,
             \* rate, error rate (None: not told), the searches that find it
  Searches,  \* what is typed; None is the empty field
  PageSize,  \* 25
  MaxPage,   \* bound of the page in a link
  None

VARIABLES
  section,  \* which of the two sections it is, and whether it has a URL prefix
  rows,     \* the rows of the last answer
  sort,     \* field and direction
  search, page, collapsed

tableVars == <<section, rows, sort, search, page, collapsed>>

Fields == {"name", "rate", "errorRate"}

(* Rows have places of their own in an answer, and a page holds some.      *)
ConstantsOK ==
  /\ IsFiniteSet(Rows)
  /\ \A r \in Rows : {r.id, r.name, r.rate} \subseteq Int /\ r.errorRate \in Int \cup {None}
  /\ \A r, s \in Rows : r.id = s.id => r = s
  /\ PageSize \in Nat \ {0} /\ MaxPage \in Nat

Init ==
  /\ section \in [kind : {"endpoints", "graphql"}, url : BOOLEAN]
  /\ rows \in SUBSET Rows
  /\ sort = [field |-> "rate", dir |-> "desc"]
  /\ search = None /\ page = 0 /\ collapsed = FALSE

-----------------------------------------------------------------------------
(* Endpoints always have an error rate; a GraphQL operation without one is *)
(* sorted below those with one.                                            *)
SortValue(r) ==
  CASE sort.field = "name" -> r.name
    [] sort.field = "rate" -> r.rate
    [] OTHER               -> IF r.errorRate = None THEN -1 ELSE r.errorRate

filtered == {r \in rows : search = None \/ search \in r.found}

(* Slip: equal rows have no order.                                         *)
BeforeUntied(a, b) == SortValue(a) # SortValue(b) /\ (sort.dir = "asc" <=> SortValue(a) < SortValue(b))

(* The sort is stable: equal rows stay as they came.                       *)
Before(a, b) ==
  \/ SortValue(a) # SortValue(b) /\ (sort.dir = "asc" <=> SortValue(a) < SortValue(b))
  \/ SortValue(a) = SortValue(b) /\ a.id < b.id

(* The place of a row in the sorted table.                                 *)
sorted(r) == Cardinality({x \in filtered : Before(x, r)})

totalPages == (Cardinality(filtered) + PageSize - 1) \div PageSize

paged ==
  IF Cardinality(filtered) <= PageSize THEN filtered
  ELSE {r \in filtered : sorted(r) \div PageSize = page}

(* The rows of the endpoint table, and of the GraphQL table.               *)
EndpointSection == IF collapsed THEN {} ELSE paged
GraphQLSection == IF collapsed THEN {} ELSE paged
Table == IF section.kind = "graphql" THEN GraphQLSection ELSE EndpointSection

(* The search field and the pages above the table are there for many rows, *)
(* the pages below it for many matches.                                    *)
Controls ==
  IF collapsed THEN {}
  ELSE (IF Cardinality(rows) > PageSize THEN {"search", "pages"} ELSE {})
       \cup (IF Cardinality(filtered) > PageSize THEN {"pages"} ELSE {})

-----------------------------------------------------------------------------
(* Slip: the page is left as it is.                                        *)
SearchInPlace(q) == search' = q /\ UNCHANGED page

(* setSearch, then setPage: in the URL only the page is written.           *)
onSearch(q) ==
  /\ page' = 0
  /\ search' = IF section.url THEN search ELSE q

Search ==
  /\ "search" \in Controls
  /\ \E q \in Searches \cup {None} : q # search /\ onSearch(q)
  /\ UNCHANGED <<section, rows, sort, collapsed>>

Previous ==
  /\ "pages" \in Controls /\ page # 0
  /\ page' = page - 1
  /\ UNCHANGED <<section, rows, sort, search, collapsed>>

NextPage == IF page + 1 < totalPages THEN page + 1 ELSE totalPages - 1

NextClicked ==
  /\ "pages" \in Controls /\ page < totalPages - 1
  /\ page' = NextPage
  /\ UNCHANGED <<section, rows, sort, search, collapsed>>

(* The same column turns the direction; another is sorted from the top, in *)
(* the URL only the direction is written.                                  *)
toggleSort(field) ==
  sort' = IF sort.field = field
          THEN [sort EXCEPT !.dir = IF @ = "asc" THEN "desc" ELSE "asc"]
          ELSE [field |-> IF section.url THEN sort.field ELSE field, dir |-> "desc"]

SortableHeader ==
  /\ ~collapsed
  /\ \E field \in Fields : toggleSort(field)
  /\ UNCHANGED <<section, rows, search, page, collapsed>>

setCollapsed ==
  /\ collapsed' = ~collapsed
  /\ UNCHANGED <<section, rows, sort, search, page>>

(* A link carries all of it; what is not in the URL begins anew.           *)
Follow ==
  /\ section.url
  /\ search' \in Searches \cup {None}
  /\ page' \in 0..MaxPage
  /\ sort' \in [field : Fields, dir : {"asc", "desc"}]
  /\ collapsed' = FALSE
  /\ UNCHANGED <<section, rows>>

(* Another window, another answer; the table stays mounted.                *)
Answer ==
  /\ rows' \in SUBSET Rows
  /\ UNCHANGED <<section, sort, search, page, collapsed>>

Next ==
  \/ Search \/ Previous \/ NextClicked \/ SortableHeader \/ setCollapsed
  \/ Follow \/ Answer

Spec == Init /\ [][Next]_tableVars

-----------------------------------------------------------------------------
TableTypeOK ==
  /\ sort \in [field : Fields, dir : {"asc", "desc"}]
  /\ search \in Searches \cup {None}
  /\ page \in Nat /\ Table \subseteq rows

(* Whatever is clicked in the table, the pages of one view hold every      *)
(* matching row, and none twice: the order is a total one.                 *)
PagesCover ==
  /\ \A r \in filtered : sorted(r) \in 0..(totalPages * PageSize - 1)
  /\ \A r, s \in filtered : r # s => sorted(r) # sorted(s)

(* The page is gone: rows match and none is on it.                         *)
Stranded == filtered # {} /\ paged = {}

(* A search never leads to an empty page of a table that has rows to show, *)
(* and no step back or forward, no sort and no unfolding takes the reader  *)
(* from a page with rows to one.  A step back from far beyond the last     *)
(* page leads to another page that is not there (ServerTab.tsx:337).       *)
TableControlsShowRows ==
  [][/\ Search => ~Stranded'
     /\ Previous \/ NextClicked \/ SortableHeader \/ setCollapsed => (Stranded' => Stranded)
    ]_tableVars

(* Violated.  What is typed is what the table is searched for.             *)
SearchTakes == [][Search => search' # search]_tableVars

(* Violated.  A table that leaves rows out shows the search it follows.    *)
FilterIsSeen == ~collapsed /\ filtered # rows => "search" \in Controls

(* Violated.  A table with rows to show is not blank.                      *)
NoBlankTable == ~collapsed /\ filtered # {} => Table # {}

=============================================================================
