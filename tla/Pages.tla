-------------------------------- MODULE Pages --------------------------------
(***************************************************************************)
(* The pages that list things, the tables of the server tab and the page   *)
(* of one service.  They share no state that both change, so a behaviour   *)
(* is one of one of them ("part"); the others stay as they began.          *)
(***************************************************************************)
EXTENDS ServicePage

CONSTANTS
  Kinds, Answers, NsPicks, EnvPicks, Queries, Score, Prefix, EnvRank, PageSize,  \* of ListPages
  Rows, Searches, TableSize,                                                     \* of SpanTables
  MaxPage                                                                        \* of both

VARIABLES
  part,
  kind, rows, detected, failed, favs, url,                 \* of ListPages
  section, tableRows, sort, search, tablePage, collapsed   \* of SpanTables

listVars == <<kind, rows, detected, failed, favs, url>>
tableVars == <<section, tableRows, sort, search, tablePage, collapsed>>
pagesVars == <<part, vars, listVars, tableVars>>

List == INSTANCE ListPages

Table == INSTANCE SpanTables WITH PageSize <- TableSize, rows <- tableRows, page <- tablePage

ASSUME PagesAssumption == List!ConstantsOK /\ Table!ConstantsOK

-----------------------------------------------------------------------------
PageRests == Init /\ ~timer.hidden
ListRests == List!Init /\ kind = (CHOOSE k \in Kinds : TRUE) /\ url.page = 1
TableRests == Table!Init /\ section = [kind |-> "graphql", url |-> FALSE] /\ tableRows = {}

PagesInit ==
  \/ part = "service" /\ Init /\ ListRests /\ TableRests
  \/ part = "list" /\ PageRests /\ List!Init /\ TableRests
  \/ part = "table" /\ PageRests /\ ListRests /\ Table!Init

PagesNext ==
  \/ part = "service" /\ Next /\ UNCHANGED <<part, listVars, tableVars>>
  \/ part = "list" /\ List!Next /\ UNCHANGED <<part, vars, tableVars>>
  \/ part = "table" /\ Table!Next /\ UNCHANGED <<part, vars, listVars>>

PagesSpec == PagesInit /\ [][PagesNext]_pagesVars

-----------------------------------------------------------------------------
(* The state of each part has its type.                                    *)
PagesTypeOK == PageTypeOK /\ List!ListTypeOK /\ Table!TableTypeOK

(* No filter or search leaves a reader on a page that is gone while there  *)
(* are rows to show, and no step of a pager, sort or star of a list that   *)
(* is not of favourites takes him to one from a page with rows (ListPages, *)
(* SpanTables).                                                            *)
ControlsShowRows == List!ControlsShowRows /\ Table!TableControlsShowRows

(* The order of a table is one: consistent under every sort and every set  *)
(* of favourites, no environment headed twice, and the pages of a table    *)
(* hold each matching row once (ListPages, SpanTables).                    *)
RowsInOrder == List!OrderConsistent /\ List!GroupsWhole /\ Table!PagesCover

(* A list is never blank, and says there is nothing only when an answer    *)
(* held nothing that passes the filters; that no favourites match, also on *)
(* a page beyond the last (ListPages).                                     *)
EmptyIsTrue == List!EmptyIsTrue

=============================================================================
