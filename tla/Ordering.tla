------------------------------ MODULE Ordering ------------------------------
(***************************************************************************)
(* What JavaScript does to the order of things: the sorted elements of a   *)
(* set or of a sequence, a sequence without the elements that a filter     *)
(* drops or without duplicates, and sequences put one after the other.     *)
(***************************************************************************)
EXTENDS Integers, FiniteSets, Sequences

(* R puts any two elements of S in one order.                              *)
StrictOrder(R, S) ==
  /\ \A x \in S : <<x, x>> \notin R
  /\ \A x, y, z \in S : <<x, y>> \in R /\ <<y, z>> \in R => <<x, z>> \in R
  /\ \A x, y \in S : x # y => <<x, y>> \in R \/ <<y, x>> \in R

(* How many elements of S come before x.                                   *)
Place(S, R, x) == Cardinality({y \in S : <<y, x>> \in R})

(* Array.prototype.sort: a finite set in the order R.                      *)
InOrder(S, R) == [k \in 1 .. Cardinality(S) |-> CHOOSE x \in S : Place(S, R, x) = k - 1]

Less(S) == {p \in S \X S : p[1] < p[2]}

(* Numbers, and names that stand for them, from the least one up.          *)
Ascending(S) == InOrder(S, Less(S))

(* Array.prototype.filter: the elements at some positions of a sequence.   *)
ElementsAt(s, at) == LET positions == Ascending(at) IN [k \in DOMAIN positions |-> s[positions[k]]]

(* A stable sort: the elements by their keys, those of one key as they were. *)
SortedBy(s, key) ==
  LET earlier == {p \in (DOMAIN s) \X (DOMAIN s) : \/ key[p[1]] < key[p[2]]
                                                   \/ key[p[1]] = key[p[2]] /\ p[1] < p[2]}
      positions == InOrder(DOMAIN s, earlier)
  IN [k \in DOMAIN positions |-> s[positions[k]]]

(* Of the elements with one key the first.                                 *)
FirstOfEach(s, key) == ElementsAt(s, {i \in DOMAIN s : \A j \in 1 .. i - 1 : key[j] # key[i]})

(* The places of the elements in a sequence of sequences, in their order.  *)
PlacesIn(ss) == UNION {{i} \X DOMAIN ss[i] : i \in DOMAIN ss}
EarlierIn(ss) == {p \in PlacesIn(ss) \X PlacesIn(ss) : \/ p[1][1] < p[2][1]
                                                       \/ p[1][1] = p[2][1] /\ p[1][2] < p[2][2]}

(* Array.prototype.flat: sequences put one after the other.                *)
Flat(ss) ==
  LET places == InOrder(PlacesIn(ss), EarlierIn(ss))
  IN [k \in DOMAIN places |-> ss[places[k][1]][places[k][2]]]

=============================================================================
