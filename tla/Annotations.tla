---------------------------- MODULE Annotations ----------------------------
(***************************************************************************)
(* The part of Grafana's annotations API that the plugin backend relies    *)
(* on.  The API is not part of the repository: the operators below model   *)
(* what pkg/plugin/naissync.go, pkg/plugin/triage.go and the store the     *)
(* tests fake (pkg/plugin/triage_test.go) say of it.                       *)
(*                                                                         *)
(* A GET returns at most limit rows of the window, newest first by         *)
(* timestamp alone: rows with the same timestamp come in any order, so     *)
(* which of them a full page cuts off is arbitrary.  A page is therefore a *)
(* set of rows; a reader that depends on the order of equal timestamps     *)
(* picks one of the orders itself.                                         *)
(***************************************************************************)
EXTENDS Integers, FiniteSets

(* The store applies the time window only when both bounds are positive:   *)
(* from = 0 drops the upper bound as well.                                 *)
Window(rows, from, to) ==
  {r \in rows : from > 0 /\ to > 0 => from <= r.time /\ r.time <= to}

(* P is a page the API may return for the query (from, to, limit).         *)
IsPage(P, rows, from, to, limit) ==
  LET W == Window(rows, from, to) IN
  /\ P \subseteq W
  /\ Cardinality(P) = (IF Cardinality(W) < limit THEN Cardinality(W) ELSE limit)
  /\ \A p \in P, q \in W \ P : p.time >= q.time

=============================================================================
