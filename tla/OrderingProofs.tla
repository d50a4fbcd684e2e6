--------------------------- MODULE OrderingProofs ---------------------------
(***************************************************************************)
(* What Ordering promises, for every finite set and every strict order.    *)
(***************************************************************************)
EXTENDS Ordering, FiniteSetTheorems, WellFoundedInduction, TLAPS

(* An element that comes before another has fewer elements before it.      *)
LEMMA PlaceGrows ==
  ASSUME NEW S, NEW R, IsFiniteSet(S), StrictOrder(R, S),
         NEW x \in S, NEW y \in S, <<x, y>> \in R
  PROVE  Place(S, R, x) < Place(S, R, y)
<1> DEFINE before(z) == {w \in S : <<w, z>> \in R}
<1>1. before(x) \subseteq before(y)
  BY DEF StrictOrder
<1>2. x \in before(y) /\ x \notin before(x)
  BY DEF StrictOrder
<1>3. IsFiniteSet(before(y))
  BY FS_Subset
<1>4. before(x) # before(y)
  BY <1>2
<1> HIDE DEF before
<1>5. /\ IsFiniteSet(before(x))
      /\ Cardinality(before(x)) <= Cardinality(before(y))
      /\ Cardinality(before(x)) # Cardinality(before(y))
  BY <1>1, <1>3, <1>4, FS_Subset
<1>6. Cardinality(before(x)) \in Nat /\ Cardinality(before(y)) \in Nat
  BY <1>3, <1>5, FS_CardinalityType
<1>7. Cardinality(before(x)) < Cardinality(before(y))
  BY <1>5, <1>6
<1> QED
  BY <1>7 DEF before, Place

(* Places are numbered from 0.                                             *)
LEMMA PlaceType ==
  ASSUME NEW S, NEW R, IsFiniteSet(S), StrictOrder(R, S), NEW x \in S
  PROVE  Place(S, R, x) \in 0 .. Cardinality(S) - 1
<1> DEFINE before == {w \in S : <<w, x>> \in R}
<1>1. before \subseteq S /\ before # S
  BY DEF StrictOrder
<1> HIDE DEF before
<1>2. /\ IsFiniteSet(before)
      /\ Cardinality(before) <= Cardinality(S)
      /\ Cardinality(before) # Cardinality(S)
  BY <1>1, FS_Subset
<1>3. Cardinality(before) \in Nat /\ Cardinality(S) \in Nat
  BY <1>2, FS_CardinalityType
<1>4. Cardinality(before) \in 0 .. Cardinality(S) - 1
  BY <1>2, <1>3
<1> QED
  BY <1>4 DEF before, Place

(* No two elements have one place.                                         *)
LEMMA PlaceOnce ==
  ASSUME NEW S, NEW R, IsFiniteSet(S), StrictOrder(R, S),
         NEW x \in S, NEW y \in S, Place(S, R, x) = Place(S, R, y)
  PROVE  x = y
<1>1. Place(S, R, x) \in Int
  BY PlaceType
<1>2. CASE <<x, y>> \in R
  BY <1>1, <1>2, PlaceGrows
<1>3. CASE <<y, x>> \in R
  BY <1>1, <1>3, PlaceGrows
<1> QED
  BY <1>2, <1>3 DEF StrictOrder

(* Every place is taken.                                                   *)
LEMMA PlaceTaken ==
  ASSUME NEW S, NEW R, IsFiniteSet(S), StrictOrder(R, S), NEW k \in 1 .. Cardinality(S)
  PROVE  \E x \in S : Place(S, R, x) = k - 1
<1> DEFINE n == Cardinality(S)
           f == [x \in S |-> Place(S, R, x) + 1]
<1>1. n \in Nat
  BY FS_CardinalityType
<1>2. \A x \in S : Place(S, R, x) \in 0 .. n - 1
  BY PlaceType
<1>3. \A x, y \in S : Place(S, R, x) = Place(S, R, y) => x = y
  BY PlaceOnce
<1>4. f \in [S -> 1 .. n]
  BY <1>1, <1>2
<1>5. \A x, y \in S : f[x] = f[y] => x = y
  BY <1>1, <1>2, <1>3
<1>6. f \in Injection(S, 1 .. n)
  BY <1>4, <1>5 DEF Injection, IsInjective
<1>7. IsFiniteSet(1 .. n) /\ Cardinality(1 .. n) = n
  BY <1>1, FS_Interval
<1>8. f \in Surjection(S, 1 .. n)
  BY <1>6, <1>7, FS_Injection
<1>9. \E x \in S : f[x] = k
  BY <1>8 DEF Surjection
<1> QED
  BY <1>1, <1>2, <1>9

(* A sorted set is a sequence of all its elements, each once, in order.    *)
THEOREM InOrderSorts ==
  ASSUME NEW S, NEW R, IsFiniteSet(S), StrictOrder(R, S)
  PROVE  /\ Cardinality(S) \in Nat
         /\ InOrder(S, R) \in [1 .. Cardinality(S) -> S]
         /\ InOrder(S, R) \in Seq(S) /\ Len(InOrder(S, R)) = Cardinality(S)
         /\ \A k \in 1 .. Cardinality(S) : Place(S, R, InOrder(S, R)[k]) = k - 1
         /\ \A x \in S : \E k \in 1 .. Cardinality(S) : InOrder(S, R)[k] = x
         /\ \A i, j \in 1 .. Cardinality(S) : i < j => <<InOrder(S, R)[i], InOrder(S, R)[j]>> \in R
<1> DEFINE n == Cardinality(S)
           o == InOrder(S, R)
<1>1. n \in Nat
  BY FS_CardinalityType
<1>2. \A k \in 1 .. n : \E x \in S : Place(S, R, x) = k - 1
  BY PlaceTaken
<1>3. \A k \in 1 .. n : o[k] = CHOOSE x \in S : Place(S, R, x) = k - 1
  BY DEF InOrder
<1>4. \A k \in 1 .. n : o[k] \in S /\ Place(S, R, o[k]) = k - 1
  BY <1>2, <1>3
<1>5. o \in [1 .. n -> S]
  BY <1>4 DEF InOrder
<1>6. o \in Seq(S) /\ Len(o) = n
  BY <1>1, <1>5
<1>7. ASSUME NEW x \in S
      PROVE  \E k \in 1 .. n : o[k] = x
  <2>1. Place(S, R, x) \in 0 .. n - 1
    BY PlaceType
  <2>2. Place(S, R, x) + 1 \in 1 .. n
    BY <1>1, <2>1
  <2>3. Place(S, R, o[Place(S, R, x) + 1]) = Place(S, R, x) /\ o[Place(S, R, x) + 1] \in S
    BY <1>4, <2>1, <2>2
  <2>4. o[Place(S, R, x) + 1] = x
    BY <2>3, PlaceOnce
  <2> QED
    BY <2>2, <2>4
<1>8. ASSUME NEW i \in 1 .. n, NEW j \in 1 .. n, i < j
      PROVE  <<o[i], o[j]>> \in R
  <2>1. /\ o[i] \in S /\ o[j] \in S
        /\ Place(S, R, o[i]) = i - 1 /\ Place(S, R, o[j]) = j - 1
    BY <1>4
  <2> HIDE DEF o
  <2>2. o[i] # o[j]
    BY <1>1, <1>8, <2>1
  <2>3. CASE <<o[j], o[i]>> \in R
    <3>1. Place(S, R, o[j]) < Place(S, R, o[i])
      BY <2>1, <2>3, PlaceGrows
    <3> QED
      BY <1>1, <1>8, <2>1, <3>1
  <2> QED
    BY <2>1, <2>2, <2>3 DEF StrictOrder
<1> QED
  BY <1>1, <1>4, <1>5, <1>6, <1>7, <1>8

-----------------------------------------------------------------------------
LEMMA LessIsStrict == ASSUME NEW S \in SUBSET Int PROVE StrictOrder(Less(S), S)
BY DEF StrictOrder, Less

(* Numbers from the least one up: all of them, each once.                  *)
THEOREM AscendingSorts ==
  ASSUME NEW S \in SUBSET Int, IsFiniteSet(S)
  PROVE  /\ Cardinality(S) \in Nat
         /\ Ascending(S) \in [1 .. Cardinality(S) -> S]
         /\ Ascending(S) \in Seq(S) /\ Len(Ascending(S)) = Cardinality(S)
         /\ \A x \in S : \E k \in 1 .. Cardinality(S) : Ascending(S)[k] = x
         /\ \A i, j \in 1 .. Cardinality(S) : i < j => Ascending(S)[i] < Ascending(S)[j]
         /\ \A i, j \in 1 .. Cardinality(S) : Ascending(S)[i] = Ascending(S)[j] => i = j
<1> DEFINE n == Cardinality(S)
           o == Ascending(S)
<1>1. StrictOrder(Less(S), S)
  BY LessIsStrict
<1>2. /\ n \in Nat
      /\ o \in [1 .. n -> S]
      /\ o \in Seq(S) /\ Len(o) = n
      /\ \A x \in S : \E k \in 1 .. n : o[k] = x
      /\ \A i, j \in 1 .. n : i < j => <<o[i], o[j]>> \in Less(S)
  BY <1>1, InOrderSorts DEF Ascending
<1> HIDE DEF o, n
<1>3. \A i, j \in 1 .. n : i < j => o[i] < o[j]
  BY <1>2 DEF Less
<1>4. \A i \in 1 .. n : o[i] \in Int
  BY <1>2
<1>5. \A i, j \in 1 .. n : o[i] = o[j] => i = j
  BY <1>2, <1>3, <1>4
<1> QED
  BY <1>2, <1>3, <1>5 DEF n, o

(* The positions of a whole sequence are 1, 2, 3 and so on.                *)
LEMMA AscendingInterval ==
  ASSUME NEW n \in Nat
  PROVE  Ascending(1 .. n) = [k \in 1 .. n |-> k]
<1> DEFINE S == 1 .. n
           R == Less(S)
<1>1. IsFiniteSet(S) /\ Cardinality(S) = n
  BY FS_Interval
<1>2. StrictOrder(R, S)
  BY LessIsStrict
<1>3. ASSUME NEW x \in S
      PROVE  Place(S, R, x) = x - 1
  <2>1. {y \in S : <<y, x>> \in R} = 1 .. (x - 1)
    BY DEF Less
  <2>2. Cardinality(1 .. (x - 1)) = x - 1
    BY FS_Interval
  <2> QED
    BY <2>1, <2>2 DEF Place
<1>4. \A k \in 1 .. n : InOrder(S, R)[k] \in S /\ Place(S, R, InOrder(S, R)[k]) = k - 1
  BY <1>1, <1>2, InOrderSorts
<1>5. \A k \in 1 .. n : InOrder(S, R)[k] = k
  BY <1>3, <1>4
<1>6. InOrder(S, R) \in [1 .. n -> S]
  BY <1>1, <1>2, InOrderSorts
<1> QED
  BY <1>5, <1>6 DEF Ascending

(* A filter keeps exactly the elements at the positions, in their order.   *)
THEOREM ElementsAtKeep ==
  ASSUME NEW T, NEW s \in Seq(T), NEW at \in SUBSET (DOMAIN s)
  PROVE  /\ ElementsAt(s, at) \in Seq(T)
         /\ \A k \in DOMAIN ElementsAt(s, at) : \E i \in at : ElementsAt(s, at)[k] = s[i]
         /\ \A i \in at : \E k \in DOMAIN ElementsAt(s, at) : ElementsAt(s, at)[k] = s[i]
         /\ \A j, k \in DOMAIN ElementsAt(s, at) :
              j < k => \E a, b \in at : a < b /\ ElementsAt(s, at)[j] = s[a] /\ ElementsAt(s, at)[k] = s[b]
<1> DEFINE p == Ascending(at)
           e == ElementsAt(s, at)
           n == Cardinality(at)
<1>1. DOMAIN s = 1 .. Len(s) /\ Len(s) \in Nat
  OBVIOUS
<1>2. IsFiniteSet(1 .. Len(s))
  BY <1>1, FS_Interval
<1>3. at \in SUBSET Int /\ IsFiniteSet(at)
  BY <1>1, <1>2, FS_Subset
<1>4. /\ n \in Nat /\ p \in [1 .. n -> at]
      /\ \A x \in at : \E k \in 1 .. n : p[k] = x
      /\ \A i, j \in 1 .. n : i < j => p[i] < p[j]
  BY <1>3, AscendingSorts
<1>5. e = [k \in DOMAIN p |-> s[p[k]]]
  BY DEF ElementsAt
<1> HIDE DEF p, e, n
<1>6. \A i \in at : s[i] \in T
  BY <1>1
<1>7. DOMAIN e = 1 .. n /\ \A k \in 1 .. n : e[k] = s[p[k]] /\ p[k] \in at
  BY <1>4, <1>5
<1>8. e \in [1 .. n -> T]
  BY <1>4, <1>5, <1>6
<1>9. e \in Seq(T)
  BY <1>4, <1>8
<1>10. \A i \in at : \E k \in 1 .. n : e[k] = s[i]
  BY <1>4, <1>7
<1>11. \A j, k \in 1 .. n : j < k => p[j] \in at /\ p[k] \in at /\ p[j] < p[k]
  BY <1>4, <1>7
<1> QED
  BY <1>7, <1>9, <1>10, <1>11 DEF e

(* A filter that lets everything pass changes nothing.                     *)
LEMMA ElementsAtAll ==
  ASSUME NEW T, NEW s \in Seq(T)
  PROVE  ElementsAt(s, DOMAIN s) = s
<1>1. DOMAIN s = 1 .. Len(s) /\ Len(s) \in Nat
  OBVIOUS
<1>2. Ascending(DOMAIN s) = [k \in 1 .. Len(s) |-> k]
  BY <1>1, AscendingInterval
<1>3. ElementsAt(s, DOMAIN s) = [k \in 1 .. Len(s) |-> s[k]]
  BY <1>2 DEF ElementsAt
<1> QED
  BY <1>1, <1>3

(* Numbers that have a bound have a largest one among them.                *)
LEMMA LargestNumber ==
  ASSUME NEW n \in Nat, NEW T \in SUBSET (1 .. n), T # {}
  PROVE  \E m \in T : \A k \in T : k <= m
<1> DEFINE below == {n - k : k \in T}
<1>0. \A k \in T : k \in Nat /\ n - k \in Nat
  OBVIOUS
<1>1. below \in SUBSET Nat /\ below # {}
  BY <1>0
<1>2. PICK b \in below : \A c \in below : ~ (<<c, b>> \in OpToRel(<, Nat))
  BY <1>1, NatLessThanWellFounded, WFMin
<1>3. \A c \in below : ~ (c < b)
  BY <1>1, <1>2 DEF OpToRel
<1>4. PICK m \in T : b = n - m
  BY <1>2
<1>5. ASSUME NEW k \in T
      PROVE  k <= m
  <2>1. n - k \in below /\ n - k \in Nat /\ n - m \in Nat /\ k \in Nat /\ m \in Nat
    BY <1>0
  <2>2. ~(n - k < n - m)
    BY <1>3, <1>4, <2>1
  <2> QED
    BY <2>1, <2>2
<1> QED
  BY <1>5

(* A stable sort holds the same elements, in the order of their keys.      *)
THEOREM SortedBySorts ==
  ASSUME NEW T, NEW s \in Seq(T), NEW key, \A i \in DOMAIN s : key[i] \in Int,
         NEW r, r = SortedBy(s, key)
  PROVE  /\ r \in Seq(T) /\ Len(r) = Len(s)
         /\ \A k \in DOMAIN r : \E i \in DOMAIN s : r[k] = s[i]
         /\ \A i \in DOMAIN s : \E k \in DOMAIN r : r[k] = s[i]
         /\ \A j, k \in DOMAIN r :
              j < k => \E a, b \in DOMAIN s : a # b /\ key[a] <= key[b] /\ r[j] = s[a] /\ r[k] = s[b]
<1> DEFINE D == DOMAIN s
           R == {p \in D \X D : \/ key[p[1]] < key[p[2]]
                                \/ key[p[1]] = key[p[2]] /\ p[1] < p[2]}
           o == InOrder(D, R)
           n == Len(s)
<1>1. n \in Nat /\ D = 1 .. n /\ \A i \in D : s[i] \in T
  OBVIOUS
<1>2. IsFiniteSet(D) /\ Cardinality(D) = n
  BY <1>1, FS_Interval
<1>3. \A x, y : <<x, y>> \in R <=> /\ x \in D /\ y \in D
                                   /\ \/ key[x] < key[y]
                                      \/ key[x] = key[y] /\ x < y
  OBVIOUS
<1>4. r = [k \in DOMAIN o |-> s[o[k]]]
  BY DEF SortedBy
<1> HIDE DEF R, n, D
<1>5. \A i \in D : i \in Int /\ key[i] \in Int
  BY <1>1 DEF D
<1>6. StrictOrder(R, D)
  BY <1>3, <1>5 DEF StrictOrder
<1>7. /\ o \in [1 .. n -> D]
      /\ \A x \in D : \E k \in 1 .. n : o[k] = x
      /\ \A i, j \in 1 .. n : i < j => <<o[i], o[j]>> \in R
  BY <1>2, <1>6, InOrderSorts
<1> HIDE DEF o
<1>8. DOMAIN r = 1 .. n /\ \A k \in 1 .. n : r[k] = s[o[k]] /\ o[k] \in D
  BY <1>4, <1>7
<1>9. r \in Seq(T) /\ Len(r) = n
  <2>1. r \in [1 .. n -> T]
    BY <1>1, <1>4, <1>7
  <2> QED
    BY <1>1, <2>1
<1>10. \A k \in DOMAIN r : \E i \in DOMAIN s : r[k] = s[i]
  BY <1>8 DEF D
<1>11. \A i \in DOMAIN s : \E k \in DOMAIN r : r[k] = s[i]
  BY <1>7, <1>8 DEF D
<1>12. ASSUME NEW j \in DOMAIN r, NEW k \in DOMAIN r, j < k
       PROVE  \E a, b \in DOMAIN s : a # b /\ key[a] <= key[b] /\ r[j] = s[a] /\ r[k] = s[b]
  <2> DEFINE a == o[j]
             b == o[k]
  <2>1. a \in D /\ b \in D /\ <<a, b>> \in R /\ r[j] = s[a] /\ r[k] = s[b]
    BY <1>7, <1>8, <1>12
  <2> HIDE DEF a, b
  <2>2. a # b /\ key[a] <= key[b]
    BY <1>3, <1>5, <2>1
  <2> QED
    BY <2>1, <2>2 DEF D
<1>13. r \in Seq(T) /\ Len(r) = Len(s)
  BY <1>9 DEF n
<1> QED
  BY <1>10, <1>11, <1>12, <1>13

(* Numbers have a least one among them.                                    *)
LEMMA LeastNumber ==
  ASSUME NEW S \in SUBSET Nat, S # {}
  PROVE  \E m \in S : \A k \in S : m <= k
<1>1. PICK m \in S : \A k \in S : ~ (<<k, m>> \in OpToRel(<, Nat))
  BY NatLessThanWellFounded, WFMin
<1>2. \A k \in S : k \in Nat /\ m \in Nat /\ ~(k < m)
  BY <1>1 DEF OpToRel
<1> QED
  BY <1>2

(* r holds the elements of s at some positions, in their order.            *)
Keeps(r, s, at) ==
  /\ \A k \in DOMAIN r : \E i \in at : r[k] = s[i]
  /\ \A i \in at : \E k \in DOMAIN r : r[k] = s[i]
  /\ \A j, k \in DOMAIN r : j < k => \E a, b \in at : a < b /\ r[j] = s[a] /\ r[k] = s[b]

(* r holds one element of s for each key, in their order.                  *)
Firsts(r, s, key) ==
  /\ \A k \in DOMAIN r : \E i \in DOMAIN s : r[k] = s[i]
  /\ \A i \in DOMAIN s : \E k \in DOMAIN r, a \in DOMAIN s : key[a] = key[i] /\ r[k] = s[a]
  /\ \A j, k \in DOMAIN r :
       j < k => \E a, b \in DOMAIN s : a < b /\ key[a] # key[b] /\ r[j] = s[a] /\ r[k] = s[b]

(* Of the elements with one key one is left, and their order.              *)
THEOREM FirstOfEachOnce ==
  ASSUME NEW T, NEW s \in Seq(T), NEW key, NEW r, r = FirstOfEach(s, key)
  PROVE  r \in Seq(T) /\ Firsts(r, s, key)
<1> DEFINE at == {i \in DOMAIN s : \A j \in 1 .. i - 1 : key[j] # key[i]}
<1>1. r = ElementsAt(s, at)
  BY DEF FirstOfEach
<1>2. DOMAIN s \subseteq Nat /\ \A i \in DOMAIN s : i >= 1
  OBVIOUS
<1>3. at \in SUBSET (DOMAIN s)
  OBVIOUS
<1> HIDE DEF at
<1>4. /\ r \in Seq(T)
      /\ \A k \in DOMAIN r : \E i \in at : r[k] = s[i]
      /\ \A i \in at : \E k \in DOMAIN r : r[k] = s[i]
      /\ \A j, k \in DOMAIN r : j < k => \E a, b \in at : a < b /\ r[j] = s[a] /\ r[k] = s[b]
  <2>1. ElementsAt(s, at) \in Seq(T) /\ Keeps(ElementsAt(s, at), s, at)
    BY <1>3, ElementsAtKeep DEF Keeps
  <2>2. r \in Seq(T) /\ Keeps(r, s, at)
    BY <1>1, <2>1
  <2> QED
    BY <2>2 DEF Keeps
<1> USE DEF at
<1>5. ASSUME NEW i \in DOMAIN s
      PROVE  \E a \in at : key[a] = key[i]
  <2> DEFINE S == {a \in DOMAIN s : key[a] = key[i]}
  <2>1. S \in SUBSET Nat /\ S # {}
    BY <1>2
  <2>2. PICK a \in S : \A k \in S : a <= k
    <3> HIDE DEF S
    <3> QED
      BY <2>1, LeastNumber
  <2>3. ASSUME NEW j \in 1 .. a - 1
        PROVE  key[j] # key[a]
    <3>1. j \in DOMAIN s /\ j < a
      <4>1. a \in 1 .. Len(s) /\ Len(s) \in Nat /\ DOMAIN s = 1 .. Len(s)
        BY <2>2
      <4> QED
        BY <4>1, <2>3
    <3>2. ~(a <= j)
      BY <2>1, <2>2, <3>1
    <3>3. j \notin S
      BY <2>2, <3>2
    <3> QED
      BY <2>2, <3>1, <3>3
  <2> QED
    BY <2>2, <2>3
<1>6. \A a, b \in at : a < b => key[a] # key[b]
  <2> SUFFICES ASSUME NEW a \in at, NEW b \in at, a < b
               PROVE  key[a] # key[b]
    OBVIOUS
  <2>1. a \in 1 .. b - 1
    BY <1>2
  <2> QED
    BY <2>1
<1> HIDE DEF at
<1>7. \A i \in DOMAIN s : \E k \in DOMAIN r, a \in DOMAIN s : key[a] = key[i] /\ r[k] = s[a]
  BY <1>3, <1>4, <1>5
<1>8. \A j, k \in DOMAIN r : j < k =>
        \E a, b \in DOMAIN s : a < b /\ key[a] # key[b] /\ r[j] = s[a] /\ r[k] = s[b]
  BY <1>3, <1>4, <1>6
<1>9. \A k \in DOMAIN r : \E i \in DOMAIN s : r[k] = s[i]
  BY <1>3, <1>4
<1> QED
  BY <1>4, <1>7, <1>8, <1>9 DEF Firsts

(* The elements of all sequences, in the order of the sequences and, in    *)
(* each of them, in its order.                                             *)
THEOREM FlatPuts ==
  ASSUME NEW T, NEW ss \in Seq(Seq(T)), NEW r, r = Flat(ss)
  PROVE  /\ r \in Seq(T)
         /\ \A k \in DOMAIN r : \E i \in DOMAIN ss : \E j \in DOMAIN ss[i] : r[k] = ss[i][j]
         /\ \A i \in DOMAIN ss : \A j \in DOMAIN ss[i] : \E k \in DOMAIN r : r[k] = ss[i][j]
         /\ \A k, l \in DOMAIN r :
              k < l => \E a, b \in DOMAIN ss : \E i \in DOMAIN ss[a], j \in DOMAIN ss[b] :
                         (a < b \/ (a = b /\ i < j)) /\ r[k] = ss[a][i] /\ r[l] = ss[b][j]
<1> DEFINE P == PlacesIn(ss)
           R == EarlierIn(ss)
           o == InOrder(P, R)
           n == Cardinality(P)
           m == Len(ss)
           Before(p, q) == p[1] < q[1] \/ (p[1] = q[1] /\ p[2] < q[2])
<1>1. m \in Nat /\ DOMAIN ss = 1 .. m /\ \A i \in 1 .. m : ss[i] \in Seq(T)
  OBVIOUS
<1>2. \A i \in 1 .. m : /\ Len(ss[i]) \in Nat /\ DOMAIN ss[i] = 1 .. Len(ss[i])
                        /\ \A j \in DOMAIN ss[i] : ss[i][j] \in T
  BY <1>1
<1> HIDE DEF m
<1>3. \A p : p \in P <=> \E i \in 1 .. m : \E j \in DOMAIN ss[i] : p = <<i, j>>
  BY <1>1 DEF PlacesIn
<1>4. IsFiniteSet(P)
  <2> DEFINE f == [i \in 1 .. m |-> {i} \X DOMAIN ss[i]]
             S == {{i} \X DOMAIN ss[i] : i \in 1 .. m}
  <2>1. f \in Surjection(1 .. m, S)
    BY DEF Surjection
  <2>2. IsFiniteSet(1 .. m)
    BY <1>1, FS_Interval
  <2>3. ASSUME NEW i \in 1 .. m PROVE IsFiniteSet({i} \X DOMAIN ss[i])
    <3>1. IsFiniteSet({i})
      BY FS_Singleton
    <3>2. IsFiniteSet(DOMAIN ss[i])
      BY <1>2, FS_Interval
    <3> QED
      BY <3>1, <3>2, FS_Product
  <2>4. \A X \in S : IsFiniteSet(X)
    BY <2>3
  <2>5. P = UNION S
    BY <1>1 DEF PlacesIn
  <2> HIDE DEF S, f, P
  <2>6. IsFiniteSet(S)
    BY <2>1, <2>2, FS_Surjection
  <2> QED
    BY <2>4, <2>5, <2>6, FS_UNION
<1>5. \A p, q : <<p, q>> \in R <=> p \in P /\ q \in P /\ Before(p, q)
  BY DEF EarlierIn
<1>6. r = [k \in DOMAIN o |-> ss[o[k][1]][o[k][2]]]
  BY DEF Flat
<1> HIDE DEF P, R
<1>7. \A p \in P : /\ p = <<p[1], p[2]>> /\ p[1] \in 1 .. m /\ p[2] \in DOMAIN ss[p[1]]
                   /\ p[1] \in Int /\ p[2] \in Int /\ ss[p[1]][p[2]] \in T
  <2> SUFFICES ASSUME NEW i \in 1 .. m, NEW j \in DOMAIN ss[i]
               PROVE  i \in Int /\ j \in Int /\ ss[i][j] \in T
    BY <1>3
  <2> QED
    BY <1>1, <1>2
<1>8. StrictOrder(R, P)
  <2>1. \A p \in P : <<p, p>> \notin R
    BY <1>5, <1>7
  <2>2. ASSUME NEW x \in P, NEW y \in P, NEW z \in P, <<x, y>> \in R, <<y, z>> \in R
        PROVE  <<x, z>> \in R
    BY <1>5, <1>7, <2>2
  <2>3. ASSUME NEW x \in P, NEW y \in P, x # y
        PROVE  <<x, y>> \in R \/ <<y, x>> \in R
    <3>1. x[1] # y[1] \/ x[2] # y[2]
      BY <1>7, <2>3
    <3> QED
      BY <1>5, <1>7, <3>1
  <2> QED
    BY <2>1, <2>2, <2>3 DEF StrictOrder
<1>9. /\ n \in Nat /\ o \in [1 .. n -> P]
      /\ \A x \in P : \E k \in 1 .. n : o[k] = x
      /\ \A i, j \in 1 .. n : i < j => <<o[i], o[j]>> \in R
  BY <1>4, <1>8, InOrderSorts
<1> HIDE DEF o, n
<1>10. DOMAIN r = 1 .. n /\ \A k \in 1 .. n : o[k] \in P /\ r[k] = ss[o[k][1]][o[k][2]]
  BY <1>6, <1>9
<1>11. r \in Seq(T)
  <2>1. \A k \in 1 .. n : r[k] \in T
    BY <1>7, <1>10
  <2>2. r = [k \in 1 .. n |-> r[k]]
    BY <1>6, <1>10
  <2>3. r \in [1 .. n -> T]
    BY <2>1, <2>2
  <2> QED
    BY <1>9, <2>3
<1>12. \A k \in DOMAIN r : \E i \in DOMAIN ss : \E j \in DOMAIN ss[i] : r[k] = ss[i][j]
  BY <1>1, <1>7, <1>10
<1>13. ASSUME NEW i \in DOMAIN ss, NEW j \in DOMAIN ss[i]
       PROVE  \E k \in DOMAIN r : r[k] = ss[i][j]
  <2>1. <<i, j>> \in P
    BY <1>1, <1>3
  <2>2. PICK k \in 1 .. n : o[k] = <<i, j>>
    BY <1>9, <2>1
  <2>3. k \in DOMAIN r /\ r[k] = ss[o[k][1]][o[k][2]]
    BY <1>10
  <2>4. o[k][1] = i /\ o[k][2] = j
    BY <2>2
  <2>5. r[k] = ss[i][j]
    BY <2>3, <2>4
  <2> QED
    BY <2>3, <2>5
<1>14. ASSUME NEW k \in DOMAIN r, NEW l \in DOMAIN r, k < l
       PROVE  \E a, b \in DOMAIN ss : \E i \in DOMAIN ss[a], j \in DOMAIN ss[b] :
                (a < b \/ (a = b /\ i < j)) /\ r[k] = ss[a][i] /\ r[l] = ss[b][j]
  <2> DEFINE p == o[k]
             q == o[l]
  <2>1. p \in P /\ q \in P /\ <<p, q>> \in R /\ r[k] = ss[p[1]][p[2]] /\ r[l] = ss[q[1]][q[2]]
    BY <1>9, <1>10, <1>14
  <2> HIDE DEF p, q
  <2>2. p[1] \in DOMAIN ss /\ q[1] \in DOMAIN ss /\ p[2] \in DOMAIN ss[p[1]] /\ q[2] \in DOMAIN ss[q[1]]
    BY <1>1, <1>7, <2>1
  <2>3. p[1] < q[1] \/ (p[1] = q[1] /\ p[2] < q[2])
    <3>1. Before(p, q)
      <4> HIDE DEF Before
      <4> QED
        BY <1>5, <2>1
    <3> QED
      BY <3>1
  <2> QED
    BY <2>1, <2>2, <2>3
<1> QED
  BY <1>11, <1>12, <1>13, <1>14

(* A sequence whose elements differ is as long as it has elements.         *)
LEMMA LengthOfDistinct ==
  ASSUME NEW T, NEW s \in Seq(T), \A i, j \in DOMAIN s : i < j => s[i] # s[j]
  PROVE  Len(s) = Cardinality({s[i] : i \in DOMAIN s})
<1> DEFINE n == Len(s)
           E == {s[i] : i \in 1 .. n}
<1>1. n \in Nat /\ DOMAIN s = 1 .. n /\ s \in [1 .. n -> E]
  OBVIOUS
<1>2. ASSUME NEW i \in 1 .. n, NEW j \in 1 .. n, s[i] = s[j]
      PROVE  i = j
  <2>1. ~(i < j) /\ ~(j < i)
    BY <1>1, <1>2
  <2> QED
    BY <1>1, <2>1
<1>3. \A e \in E : \E i \in 1 .. n : s[i] = e
  OBVIOUS
<1> HIDE DEF n, E
<1>4. s \in Injection(1 .. n, E)
  BY <1>1, <1>2, Zenon DEF Injection, IsInjective
<1>5. s \in Surjection(1 .. n, E)
  BY <1>1, <1>3, Zenon DEF Surjection
<1>6. s \in Bijection(1 .. n, E)
  BY <1>4, <1>5, Zenon DEF Bijection
<1>7. IsFiniteSet(1 .. n) /\ Cardinality(1 .. n) = n
  <2>1. Cardinality(1 .. n) = IF 1 > n THEN 0 ELSE n - 1 + 1
    BY <1>1, FS_Interval
  <2> QED
    BY <1>1, <2>1, FS_Interval
<1>8. Cardinality(E) = n
  BY <1>6, <1>7, FS_Bijection DEF ExistsBijection
<1> QED
  BY <1>1, <1>8 DEF n, E

=============================================================================
