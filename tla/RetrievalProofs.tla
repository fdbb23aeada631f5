-------------------------- MODULE RetrievalProofs --------------------------
(***************************************************************************)
(* Proofs about the assistant's search, for any catalogue, any answers of  *)
(* the index, in order or not, any bounds, and any menus as they are read. *)
(*                                                                         *)
(* What a sort returns is a counting argument: an element's place is the   *)
(* number of those that go before it, different for each, and so every     *)
(* place is taken.  With that, the invariant says which candidates the     *)
(* rows settle, pass by pass, and why a pass may be the last.  What the    *)
(* two passes share is only what was read: that is why a dish found by the *)
(* first and listed again cannot have gone from the second's menus.        *)
(***************************************************************************)
EXTENDS Retrieval, FiniteSetTheorems, SequenceTheorems, TLAPS

\* Sorting: when ahead is a strict total order of a finite set, Sorted lists its
\* elements, each once and in that order.
LEMMA SortedProperties ==
    ASSUME NEW S, IsFiniteSet(S), NEW ahead,
           \A d \in S : d \notin ahead[d],
           \A d, e \in S : d # e => d \in ahead[e] \/ e \in ahead[d],
           \A d, e, f \in S : d \in ahead[e] /\ e \in ahead[f] => d \in ahead[f]
    PROVE  /\ Cardinality(S) \in Nat
           /\ Sorted(S, ahead) \in [1..Cardinality(S) -> S]
           /\ \A d \in S : \E i \in 1..Cardinality(S) : Sorted(S, ahead)[i] = d
           /\ \A i, j \in 1..Cardinality(S) :
                 i < j => /\ Sorted(S, ahead)[i] # Sorted(S, ahead)[j]
                          /\ Sorted(S, ahead)[i] \in ahead[Sorted(S, ahead)[j]]
<1> DEFINE n == Cardinality(S)
           rank == [d \in S |-> Cardinality(S \cap ahead[d])]
           s == Sorted(S, ahead)
<1>1. n \in Nat
  BY FS_CardinalityType
<1>2. ASSUME NEW d \in S
      PROVE  /\ IsFiniteSet(S \cap ahead[d]) /\ rank[d] \in Nat
             /\ rank[d] \in 0..(n - 1)
  <2>1. /\ IsFiniteSet(S \cap ahead[d]) /\ Cardinality(S \cap ahead[d]) <= n
        /\ n = Cardinality(S \cap ahead[d]) => S = S \cap ahead[d]
    BY FS_Subset
  <2>2. Cardinality(S \cap ahead[d]) \in Nat
    BY <2>1, FS_CardinalityType
  <2>3. S # S \cap ahead[d]
    OBVIOUS
  <2>4. QED
    BY <1>1, <2>1, <2>2, <2>3
<1>3. ASSUME NEW d \in S, NEW e \in S, d \in ahead[e]
      PROVE  rank[d] < rank[e]
  <2>1. S \cap ahead[d] \in SUBSET (S \cap ahead[e])
    BY <1>3
  <2>2. d \in S \cap ahead[e] /\ d \notin S \cap ahead[d]
    BY <1>3
  <2>3. /\ Cardinality(S \cap ahead[d]) <= Cardinality(S \cap ahead[e])
        /\ Cardinality(S \cap ahead[e]) = Cardinality(S \cap ahead[d])
              => S \cap ahead[e] = S \cap ahead[d]
    BY <1>2, <2>1, FS_Subset
  <2>4. S \cap ahead[e] # S \cap ahead[d]
    BY <2>2
  <2>5. /\ rank[d] = Cardinality(S \cap ahead[d]) /\ rank[d] \in Nat
        /\ rank[e] = Cardinality(S \cap ahead[e]) /\ rank[e] \in Nat
    BY <1>2
  <2>6. QED
    BY <2>3, <2>4, <2>5
<1>4. rank \in [S -> 0..(n - 1)] /\ \A d, e \in S : d # e => rank[d] # rank[e]
  <2>1. rank \in [S -> 0..(n - 1)]
    BY <1>2
  <2>2. ASSUME NEW d \in S, NEW e \in S, d \in ahead[e] PROVE rank[d] # rank[e]
    <3>1. rank[d] < rank[e] /\ rank[d] \in Nat /\ rank[e] \in Nat
      BY <1>2, <1>3, <2>2
    <3>2. QED
      BY <3>1
  <2>3. QED
    BY <2>1, <2>2
<1>5. \A i \in 1..n : \E d \in S : rank[d] = i - 1
  <2> DEFINE T == 0..(n - 1)
  <2>1. IsFiniteSet(T) /\ Cardinality(T) = n
    BY <1>1, FS_Interval
  <2>2. rank \in Injection(S, T)
    BY <1>4 DEF Injection, IsInjective
  <2>3. rank \in Surjection(S, T)
    BY <2>1, <2>2, FS_Injection
  <2>4. \A t \in T : \E d \in S : rank[d] = t
    BY <2>3 DEF Surjection
  <2>5. \A i \in 1..n : i - 1 \in T
    BY <1>1
  <2>6. QED
    BY <2>4, <2>5
<1>6. \A i \in 1..n : s[i] \in S /\ rank[s[i]] = i - 1
  <2>1. SUFFICES ASSUME NEW i \in 1..n PROVE s[i] \in S /\ rank[s[i]] = i - 1
    OBVIOUS
  <2>2. s[i] = CHOOSE d \in S : Cardinality(S \cap ahead[d]) = i - 1
    BY DEF Sorted
  <2>3. \E d \in S : Cardinality(S \cap ahead[d]) = i - 1
    BY <1>5
  <2>4. QED
    BY <2>2, <2>3
<1>7. s \in [1..n -> S]
  BY <1>6 DEF Sorted
<1>8. \A d, e \in S : d \in ahead[e] => rank[d] < rank[e]
  BY <1>3
<1> HIDE DEF rank, s
<1>9. ASSUME NEW d \in S
      PROVE  \E i \in 1..n : s[i] = d
  <2> DEFINE i == rank[d] + 1
  <2>1. i \in 1..n /\ i - 1 = rank[d]
    BY <1>1, <1>4
  <2>2. s[i] \in S /\ rank[s[i]] = rank[d]
    BY <1>6, <2>1
  <2>3. s[i] = d
    BY <1>4, <2>2
  <2>4. QED
    BY <2>1, <2>3
<1>10. ASSUME NEW i \in 1..n, NEW j \in 1..n, i < j
       PROVE  s[i] # s[j] /\ s[i] \in ahead[s[j]]
  <2>1. /\ s[i] \in S /\ rank[s[i]] = i - 1
        /\ s[j] \in S /\ rank[s[j]] = j - 1
    BY <1>6
  <2>2. s[i] # s[j] /\ ~ (rank[s[j]] < rank[s[i]])
    BY <1>1, <1>10, <2>1
  <2>3. s[j] \notin ahead[s[i]]
    BY <1>8, <2>1, <2>2
  <2>4. QED
    BY <2>1, <2>2, <2>3
<1>11. QED
  BY <1>1, <1>7, <1>9, <1>10 DEF s

\* The least of two numbers, and of the dishes of a restaurant.
LEMMA LeastOfTwo ==
    ASSUME NEW a \in Nat, NEW b \in Nat
    PROVE  /\ Least({a, b}) \in {a, b} /\ Least({a, b}) \in Nat
           /\ Least({a, b}) <= a /\ Least({a, b}) <= b
<1>1. \E i \in {a, b} : \A j \in {a, b} : i <= j
  <2>1. a <= b \/ b <= a
    OBVIOUS
  <2>2. QED
    BY <2>1
<1>2. Least({a, b}) \in {a, b} /\ \A j \in {a, b} : Least({a, b}) <= j
  BY <1>1 DEF Least
<1>3. QED
  BY <1>2

\* Sets of ranks, in ascending order.
LEMMA AscendingProperties ==
    ASSUME NEW m \in Nat, NEW S \in SUBSET (1..m)
    PROVE  LET s == Sorted(S, [d \in 1..m |-> 1..(d - 1)])
           IN  /\ Cardinality(S) \in Nat
               /\ s \in [1..Cardinality(S) -> S]
               /\ \A d \in S : \E i \in 1..Cardinality(S) : s[i] = d
               /\ \A i, j \in 1..Cardinality(S) : i < j => s[i] < s[j]
<1> DEFINE ahead == [d \in 1..m |-> 1..(d - 1)]
           s == Sorted(S, ahead)
<1>1. IsFiniteSet(S)
  <2>1. 1 \in Int /\ m \in Int
    OBVIOUS
  <2>2. IsFiniteSet(1..m)
    BY <2>1, FS_Interval
  <2>3. QED
    BY <2>2, FS_Subset
<1>2. \A d \in S : d \in 1..m /\ ahead[d] = 1..(d - 1)
  OBVIOUS
<1> HIDE DEF ahead
<1>3. /\ \A d \in S : d \notin ahead[d]
      /\ \A d, e \in S : d # e => d \in ahead[e] \/ e \in ahead[d]
      /\ \A d, e, f \in S : d \in ahead[e] /\ e \in ahead[f] => d \in ahead[f]
  <2>1. \A d, e \in S : d \in ahead[e] <=> d < e
    BY <1>2
  <2>2. \A d \in S : d \in Int
    BY <1>2
  <2>3. QED
    BY <2>1, <2>2
<1> HIDE DEF s
<1>4. /\ Cardinality(S) \in Nat
      /\ s \in [1..Cardinality(S) -> S]
      /\ \A d \in S : \E i \in 1..Cardinality(S) : s[i] = d
      /\ \A i, j \in 1..Cardinality(S) : i < j => s[i] \in ahead[s[j]]
  <2>1. /\ Cardinality(S) \in Nat
        /\ Sorted(S, ahead) \in [1..Cardinality(S) -> S]
        /\ \A d \in S : \E i \in 1..Cardinality(S) : Sorted(S, ahead)[i] = d
        /\ \A i, j \in 1..Cardinality(S) :
              i < j => /\ Sorted(S, ahead)[i] # Sorted(S, ahead)[j]
                       /\ Sorted(S, ahead)[i] \in ahead[Sorted(S, ahead)[j]]
    BY <1>1, <1>3, SortedProperties
  <2>2. QED
    BY <2>1 DEF s
<1>5. \A i, j \in 1..Cardinality(S) : i < j => s[i] < s[j]
  <2>1. SUFFICES ASSUME NEW i \in 1..Cardinality(S), NEW j \in 1..Cardinality(S), i < j
                 PROVE  s[i] < s[j]
    OBVIOUS
  <2>2. s[i] \in ahead[s[j]] /\ s[j] \in S
    BY <1>4, <2>1
  <2>3. s[i] \in 1..(s[j] - 1) /\ s[j] \in 1..m
    BY <1>2, <2>2
  <2>4. QED
    BY <2>3
<1>6. QED
  BY <1>4, <1>5 DEF s, ahead

LEMMA LeastProperties ==
    ASSUME NEW m \in Nat, NEW S \in SUBSET (1..m), S # {}
    PROVE  Least(S) \in S /\ \A j \in S : Least(S) <= j
<1> DEFINE s == Sorted(S, [d \in 1..m |-> 1..(d - 1)])
           n == Cardinality(S)
<1>1. /\ n \in Nat /\ s \in [1..n -> S]
      /\ \A d \in S : \E i \in 1..n : s[i] = d
      /\ \A i, j \in 1..n : i < j => s[i] < s[j]
  BY AscendingProperties
<1> HIDE DEF s, n
<1>2. PICK d \in S : TRUE
  OBVIOUS
<1>3. 1 \in 1..n /\ s[1] \in S
  BY <1>1, <1>2
<1>4. \A j \in S : s[1] <= j
  <2>1. SUFFICES ASSUME NEW j \in S PROVE s[1] <= j
    OBVIOUS
  <2>2. PICK i \in 1..n : s[i] = j
    BY <1>1
  <2>3. CASE i = 1
    BY <2>2, <2>3, <1>3
  <2>4. CASE i # 1
    <3>1. 1 < i
      BY <2>4
    <3>2. s[1] < s[i]
      BY <1>1, <1>3, <3>1
    <3>3. s[1] \in 1..m /\ j \in 1..m
      BY <1>3
    <3>4. QED
      BY <2>2, <3>2, <3>3
  <2>5. QED
    BY <2>3, <2>4
<1>5. QED
  BY <1>3, <1>4 DEF Least

-----------------------------------------------------------------------------
Row == [dish : Dishes, score : Int]

RetrievalTypeOK ==
    /\ near \in [dishes : DishLists \cup {<<>>}, places : PlaceLists \cup {<<>>}]
    /\ live \in [Restaurants -> (SUBSET Dishes) \cup {Unread}]
    /\ search \in [at : {"ask", "dishes", "places", "found", "failed", "assembled"},
                   pass : {1, 2}, position : Nat]
    /\ dishes \in Seq(Row)

LEMMA DishTypes ==
    /\ Dishes = 1..Len(Owner) /\ Len(Owner) \in Nat /\ 0 \notin Dishes
    /\ \A d \in Dishes : Owner[d] \in Restaurants
<1>1. Owner \in Seq(Restaurants)
  BY RetrievalAssumption
<1>2. Dishes = 1..Len(Owner) /\ Len(Owner) \in Nat
  BY <1>1, LenProperties DEF Dishes
<1>3. QED
  BY <1>1, <1>2, ElementOfSeq

\* The candidates: each dish once, with its score and its restaurant.
LEMMA NearProperties ==
    ASSUME RetrievalTypeOK
    PROVE  /\ Len(near.dishes) \in Nat /\ Listed = 1..Len(near.dishes)
           /\ \A i \in Listed : /\ near.dishes[i] \in Row /\ DishAt(i) \in Dishes
                                /\ ScoreAt(i) \in Int /\ OwnerAt(i) \in Restaurants
           /\ near.places \in Seq(Restaurants) /\ Len(near.places) \in Nat
<1>1. near.dishes \in Seq(Row) /\ near.places \in Seq(Restaurants)
  BY RetrievalAssumption, EmptySeq DEF RetrievalTypeOK, Row
<1>2. Len(near.dishes) \in Nat /\ Listed = 1..Len(near.dishes) /\ Len(near.places) \in Nat
  BY <1>1, LenProperties DEF Listed
<1>3. ASSUME NEW i \in Listed
      PROVE  /\ near.dishes[i] \in Row /\ DishAt(i) \in Dishes
             /\ ScoreAt(i) \in Int /\ OwnerAt(i) \in Restaurants
  <2>1. near.dishes[i] \in Row
    BY <1>1, <1>2, ElementOfSeq
  <2>2. DishAt(i) \in Dishes /\ ScoreAt(i) \in Int
    BY <2>1 DEF Row, DishAt, ScoreAt
  <2>3. QED
    BY <2>1, <2>2, DishTypes DEF OwnerAt
<1>4. QED
  BY <1>1, <1>2, <1>3

\* The first candidate of a restaurant is the same for all its dishes.
LEMMA FirstProperties ==
    ASSUME RetrievalTypeOK, NEW d \in Listed
    PROVE  /\ First(d) \in 1..d /\ First(d) \in Listed /\ OwnerAt(First(d)) = OwnerAt(d)
           /\ \A e \in Listed : OwnerAt(e) = OwnerAt(d) => First(d) <= e /\ First(e) = First(d)
<1>1. Len(near.dishes) \in Nat /\ Listed = 1..Len(near.dishes)
  BY NearProperties
<1>2. ASSUME NEW e \in Listed
      PROVE  /\ First(e) \in 1..e /\ OwnerAt(First(e)) = OwnerAt(e)
             /\ \A f \in 1..e : OwnerAt(f) = OwnerAt(e) => First(e) <= f
  <2> DEFINE S == {f \in 1..e : OwnerAt(f) = OwnerAt(e)}
  <2>1. e \in Nat /\ S \in SUBSET (1..e) /\ e \in S
    BY <1>1
  <2>2. Least(S) \in S /\ \A f \in S : Least(S) <= f
    BY <2>1, LeastProperties
  <2>3. First(e) = Least(S)
    BY DEF First
  <2>4. QED
    BY <2>2, <2>3
<1>3. ASSUME NEW e \in Listed, NEW f \in Listed, OwnerAt(f) = OwnerAt(e), e <= f
      PROVE  First(f) = First(e)
  <2>1. First(e) \in 1..f /\ OwnerAt(First(e)) = OwnerAt(f)
    BY <1>1, <1>2, <1>3
  <2>2. First(f) <= First(e)
    BY <1>2, <2>1
  <2>3. First(f) <= e
    BY <1>1, <1>2, <1>3, e \in 1..f
  <2>4. First(f) \in 1..e /\ OwnerAt(First(f)) = OwnerAt(e)
    BY <1>1, <1>2, <1>3, <2>3
  <2>5. First(e) <= First(f)
    BY <1>2, <2>4
  <2>6. First(e) \in Int /\ First(f) \in Int
    BY <1>2
  <2>7. QED
    BY <2>2, <2>5, <2>6
<1>4. ASSUME NEW e \in Listed, OwnerAt(e) = OwnerAt(d)
      PROVE  First(d) <= e /\ First(e) = First(d)
  <2>1. First(e) = First(d)
    BY <1>1, <1>3, <1>4, e <= d \/ d <= e
  <2>2. First(e) \in 1..e
    BY <1>2
  <2>3. QED
    BY <2>1, <2>2
<1>5. First(d) \in Listed
  BY <1>1, <1>2
<1>6. QED
  BY <1>2, <1>4, <1>5

\* The restaurants are read in the order of their first candidates, and every
\* candidate's restaurant is among them.
LEMMA HeadsProperties ==
    ASSUME RetrievalTypeOK
    PROVE  LET n == Len(Heads)
           IN  /\ n \in Nat /\ Heads \in [1..n -> Listed]
               /\ \A d \in Listed : \E i \in 1..n : Heads[i] = First(d)
               /\ \A i, j \in 1..n : i < j => Heads[i] < Heads[j]
<1> DEFINE m == Len(near.dishes)
           S == {d \in Listed : First(d) = d}
           s == Sorted(S, [d \in 1..m |-> 1..(d - 1)])
<1>1. m \in Nat /\ Listed = 1..m
  BY NearProperties
<1> HIDE DEF m
<1>2. S \in SUBSET (1..m)
  BY <1>1
<1> HIDE DEF s
<1>3. /\ Cardinality(S) \in Nat
      /\ s \in [1..Cardinality(S) -> S]
      /\ \A d \in S : \E i \in 1..Cardinality(S) : s[i] = d
      /\ \A i, j \in 1..Cardinality(S) : i < j => s[i] < s[j]
  BY <1>1, <1>2, AscendingProperties DEF s
<1>4. Heads = s
  BY <1>1 DEF Heads, s
<1>5. Len(s) = Cardinality(S)
  <2> DEFINE c == Cardinality(S)
  <2>1. c \in Nat /\ s \in [1..c -> S]
    BY <1>3
  <2> HIDE DEF c, S
  <2>2. Len(s) = c
    BY <2>1
  <2>3. QED
    BY <2>2 DEF c
<1>6. s \in [1..Cardinality(S) -> Listed]
  BY <1>3
<1>7. \A d \in Listed : First(d) \in S
  <2>1. SUFFICES ASSUME NEW d \in Listed
                 PROVE  First(d) \in Listed /\ First(First(d)) = First(d)
    OBVIOUS
  <2>2. First(d) \in Listed /\ OwnerAt(First(d)) = OwnerAt(d)
    BY FirstProperties
  <2>3. QED
    BY <2>2, FirstProperties
<1>8. QED
  BY <1>3, <1>4, <1>5, <1>6, <1>7

LEMMA OrderProperties ==
    ASSUME RetrievalTypeOK
    PROVE  LET n == Len(Heads)
           IN  /\ ReadingOrder \in Seq(Restaurants) /\ Len(ReadingOrder) = n /\ n \in Nat
               /\ \A d \in Listed : \E i \in 1..n :
                     ReadingOrder[i] = OwnerAt(d) /\ Heads[i] = First(d)
<1> DEFINE n == Len(Heads)
           order == ReadingOrder
<1>1. /\ n \in Nat /\ Heads \in [1..n -> Listed]
      /\ \A d \in Listed : \E i \in 1..n : Heads[i] = First(d)
  BY HeadsProperties
<1>2. \A d \in Listed : OwnerAt(d) \in Restaurants
  BY NearProperties
<1> HIDE DEF n
<1>3. order = [i \in 1..n |-> OwnerAt(Heads[i])]
  BY <1>1 DEF ReadingOrder
<1> HIDE DEF order
<1>4. order \in [1..n -> Restaurants]
  BY <1>1, <1>2, <1>3
<1>5. order \in Seq(Restaurants) /\ Len(order) = n
  BY <1>1, <1>4
<1>6. ASSUME NEW d \in Listed
      PROVE  \E i \in 1..n : order[i] = OwnerAt(d) /\ Heads[i] = First(d)
  <2>1. PICK i \in 1..n : Heads[i] = First(d)
    BY <1>1
  <2>2. OwnerAt(First(d)) = OwnerAt(d)
    BY FirstProperties
  <2>3. QED
    BY <1>3, <2>1, <2>2
<1>7. QED
  BY <1>1, <1>5, <1>6 DEF n, order

\* The rows of what was read: candidates, and scores fall along them.
LEMMA FoundProperties ==
    ASSUME RetrievalTypeOK, NEW n, NEW menus
    PROVE  LET found == Found(n, menus)
           IN  /\ Len(found) \in Nat /\ found \in Seq(Row)
               /\ \A k \in 1..Len(found) : \E i \in Listed :
                     /\ found[k] = near.dishes[i]
                     /\ \E j \in 1..n : DishAt(i) \in menus[ReadingOrder[j]]
               /\ \A i \in Listed, j \in 1..n :
                     DishAt(i) \in menus[ReadingOrder[j]] =>
                        \E k \in 1..Len(found) : found[k] = near.dishes[i]
               /\ \A j, k \in 1..Len(found) : j < k => found[j].score >= found[k].score
<1> DEFINE S == {i \in Listed : \E j \in 1..n : DishAt(i) \in menus[ReadingOrder[j]]}
           ahead == Ahead
           c == Cardinality(S)
           sorted == Sorted(S, ahead)
           found == Found(n, menus)
<1>1. /\ IsFiniteSet(Listed)
      /\ \A i \in Listed : /\ ScoreAt(i) \in Int /\ First(i) \in Int /\ i \in Int
                           /\ near.dishes[i] \in Row /\ ScoreAt(i) = near.dishes[i].score
  <2>1. /\ Len(near.dishes) \in Nat /\ Listed = 1..Len(near.dishes)
        /\ \A i \in Listed : ScoreAt(i) \in Int /\ near.dishes[i] \in Row
    BY NearProperties
  <2>2. 1 \in Int /\ Len(near.dishes) \in Int
    BY <2>1
  <2>3. IsFiniteSet(Listed)
    BY <2>1, <2>2, FS_Interval
  <2>4. \A i \in Listed : First(i) \in Int
    BY FirstProperties
  <2>5. QED
    BY <2>1, <2>3, <2>4 DEF ScoreAt
<1>2. S \in SUBSET Listed
  OBVIOUS
<1>3. IsFiniteSet(S)
  BY <1>1, <1>2, FS_Subset
<1> DEFINE Before(j, i) == \/ ScoreAt(j) > ScoreAt(i)
                           \/ ScoreAt(j) = ScoreAt(i) /\ First(j) < First(i)
                           \/ ScoreAt(j) = ScoreAt(i) /\ First(j) = First(i) /\ j < i
<1>4. \A i, j \in Listed : j \in ahead[i] <=> Before(j, i)
  <2>1. SUFFICES ASSUME NEW i \in Listed, NEW j \in Listed PROVE j \in ahead[i] <=> Before(j, i)
    OBVIOUS
  <2>2. ahead[i] = {f \in Listed : Before(f, i)}
    BY <2>1 DEF Ahead
  <2> HIDE DEF Before, ahead
  <2>3. QED
    BY <2>1, <2>2
<1> HIDE DEF ahead
<1>5. /\ \A d \in Listed : ~ Before(d, d)
      /\ \A d, e \in Listed : d # e => Before(d, e) \/ Before(e, d)
      /\ \A d, e, f \in Listed : Before(d, e) /\ Before(e, f) => Before(d, f)
  <2>1. ASSUME NEW d \in Listed PROVE ~ Before(d, d)
    BY <1>1
  <2>2. ASSUME NEW d \in Listed, NEW e \in Listed, d # e PROVE Before(d, e) \/ Before(e, d)
    BY <1>1, <2>2
  <2>3. ASSUME NEW d \in Listed, NEW e \in Listed, NEW f \in Listed, Before(d, e), Before(e, f)
        PROVE  Before(d, f)
    BY <1>1, <2>3
  <2>4. QED
    BY <2>1, <2>2, <2>3
<1> HIDE DEF Before, S
<1>6. /\ \A d \in S : d \notin ahead[d]
      /\ \A d, e \in S : d # e => d \in ahead[e] \/ e \in ahead[d]
  BY <1>2, <1>4, <1>5
<1>7. \A d, e, f \in S : d \in ahead[e] /\ e \in ahead[f] => d \in ahead[f]
  <2> SUFFICES ASSUME NEW d \in S, NEW e \in S, NEW f \in S, d \in ahead[e], e \in ahead[f]
               PROVE  d \in ahead[f]
    OBVIOUS
  <2>1. d \in Listed /\ e \in Listed /\ f \in Listed
    BY <1>2
  <2>2. Before(d, e) /\ Before(e, f)
    BY <1>4, <2>1
  <2>3. Before(d, f)
    BY <1>5, <2>1, <2>2
  <2>4. QED
    BY <1>4, <2>1, <2>3
<1>8. /\ c \in Nat /\ sorted \in [1..c -> S]
      /\ \A d \in S : \E k \in 1..c : sorted[k] = d
      /\ \A j, k \in 1..c : j < k => sorted[j] \in ahead[sorted[k]]
  <2>1. \A d \in S : d \notin ahead[d]
    BY <1>6
  <2>2. \A d, e \in S : d # e => d \in ahead[e] \/ e \in ahead[d]
    BY <1>6
  <2> HIDE DEF ahead
  <2>3. QED
    BY <1>3, <1>7, <2>1, <2>2, SortedProperties DEF c, sorted
<1> HIDE DEF sorted, c
<1>9. found = [k \in 1..c |-> near.dishes[sorted[k]]]
  BY <1>8 DEF Found, S, ahead, sorted
<1> HIDE DEF found
<1>10. \A k \in 1..c : sorted[k] \in Listed /\ sorted[k] \in S
  BY <1>2, <1>8
<1>11. found \in [1..c -> Row]
  BY <1>1, <1>9, <1>10
<1>12. found \in Seq(Row) /\ Len(found) = c /\ Len(found) \in Nat
  BY <1>8, <1>11
<1>13. ASSUME NEW k \in 1..c
       PROVE  \E i \in Listed : /\ found[k] = near.dishes[i]
                                /\ \E j \in 1..n : DishAt(i) \in menus[ReadingOrder[j]]
  <2>1. sorted[k] \in Listed /\ found[k] = near.dishes[sorted[k]]
    BY <1>9, <1>10
  <2>2. \E j \in 1..n : DishAt(sorted[k]) \in menus[ReadingOrder[j]]
    BY <1>10 DEF S
  <2>3. QED
    BY <2>1, <2>2
<1>14. ASSUME NEW i \in Listed, NEW j \in 1..n, DishAt(i) \in menus[ReadingOrder[j]]
       PROVE  \E k \in 1..c : found[k] = near.dishes[i]
  <2>1. i \in S
    BY <1>14 DEF S
  <2>2. QED
    BY <1>8, <1>9, <2>1
<1>15. ASSUME NEW j \in 1..c, NEW k \in 1..c, j < k
       PROVE  found[j].score >= found[k].score
  <2>1. Before(sorted[j], sorted[k])
    BY <1>4, <1>8, <1>10, <1>15
  <2>2. ScoreAt(sorted[j]) \in Int /\ ScoreAt(sorted[k]) \in Int
    BY <1>1, <1>10
  <2>3. ScoreAt(sorted[j]) >= ScoreAt(sorted[k])
    BY <2>1, <2>2 DEF Before
  <2>4. QED
    BY <1>1, <1>9, <1>10, <2>3
<1>16. QED
  BY <1>12, <1>13, <1>14, <1>15 DEF found

-----------------------------------------------------------------------------
LEMMA ConstantTypes ==
    /\ TopK \in Nat /\ TopK > 0 /\ WaveSize \in Nat /\ WaveSize > 0
    /\ Limits[1] \in Nat /\ Limits[2] \in Nat
  BY RetrievalAssumption

\* A wave takes the reading on, and not beyond the list.
LEMMA WaveProperties ==
    ASSUME NEW S, NEW seq \in Seq(S), NEW position \in Nat, position <= Len(seq)
    PROVE  LET wave == NextWave(seq, position)
               n == position + Len(wave)
           IN  /\ n \in Nat /\ position <= n /\ n <= Len(seq)
               /\ \A i \in (position + 1)..n : seq[i] \in ToSet(wave)
<1> DEFINE k == Least({Len(seq), position + WaveSize})
           wave == SubSeq(seq, position + 1, k)
<1>1. Len(seq) \in Nat
  BY LenProperties
<1>2. position + WaveSize \in Nat /\ position <= position + WaveSize
  BY ConstantTypes
<1>3. k \in Nat /\ k <= Len(seq) /\ k \in {Len(seq), position + WaveSize}
  BY <1>1, <1>2, LeastOfTwo
<1>4. position <= k
  BY <1>2, <1>3
<1> HIDE DEF k
<1>5. ASSUME NEW i \in (position + 1)..k PROVE seq[i] \in S
  <2>1. i \in 1..Len(seq)
    BY <1>1, <1>3
  <2>2. QED
    BY <2>1, ElementOfSeq
<1>6. /\ wave \in Seq(S)
      /\ Len(wave) = IF position + 1 <= k THEN k - (position + 1) + 1 ELSE 0
      /\ \A i \in 1..(k - (position + 1) + 1) : wave[i] = seq[(position + 1) + i - 1]
  BY <1>3, <1>5, SubSeqProperties
<1> HIDE DEF wave
<1>7. Len(wave) = k - position
  BY <1>3, <1>4, <1>6
<1>8. ASSUME NEW i \in (position + 1)..k
      PROVE  seq[i] \in ToSet(wave)
  <2>1. i - position \in 1..(k - (position + 1) + 1) /\ (position + 1) + (i - position) - 1 = i
    BY <1>3
  <2>2. wave[i - position] = seq[i]
    BY <1>6, <2>1
  <2>3. DOMAIN wave = 1..Len(wave)
    BY <1>6, LenProperties
  <2>4. i - position \in DOMAIN wave
    BY <1>3, <1>7, <2>3
  <2>5. QED
    BY <2>2, <2>4 DEF ToSet
<1>9. NextWave(seq, position) = wave /\ position + Len(wave) = k
  BY <1>3, <1>7 DEF NextWave, wave, k
<1>10. QED
  BY <1>3, <1>4, <1>8, <1>9

LEMMA ShortenedProperties ==
    ASSUME NEW S, NEW seq \in Seq(S)
    PROVE  LET short == Shortened(seq)
           IN  /\ short \in Seq(S) /\ Len(short) \in Nat
               /\ Len(short) <= TopK /\ Len(short) <= Len(seq)
               /\ Len(short) = TopK \/ Len(short) = Len(seq)
               /\ \A i \in 1..Len(short) : short[i] = seq[i]
<1> DEFINE k == Least({Len(seq), TopK})
           short == SubSeq(seq, 1, k)
<1>1. Len(seq) \in Nat
  BY LenProperties
<1>2. k \in Nat /\ k <= Len(seq) /\ k <= TopK /\ k \in {Len(seq), TopK}
  BY <1>1, ConstantTypes, LeastOfTwo
<1> HIDE DEF k
<1>3. ASSUME NEW i \in 1..k PROVE seq[i] \in S
  <2>1. i \in 1..Len(seq)
    BY <1>1, <1>2
  <2>2. QED
    BY <2>1, ElementOfSeq
<1>4. /\ short \in Seq(S)
      /\ Len(short) = IF 1 <= k THEN k - 1 + 1 ELSE 0
      /\ \A i \in 1..(k - 1 + 1) : short[i] = seq[1 + i - 1]
  BY <1>2, <1>3, SubSeqProperties
<1> HIDE DEF short
<1>5. Len(short) = k /\ \A i \in 1..k : short[i] = seq[i]
  BY <1>2, <1>4
<1>6. Shortened(seq) = short
  BY DEF Shortened, short, k
<1>7. QED
  BY <1>2, <1>4, <1>5, <1>6

\* What was read of a restaurant is its own.
ReadIsOwn == \A r \in Restaurants : live[r] # Unread => \A d \in live[r] : Owner[d] = r

\* What was read stays as it was read.
LEMMA LoadProperties ==
    ASSUME RetrievalTypeOK, NEW rs, NEW orderable \in SUBSET Dishes
    PROVE  LET menus == Load(rs, orderable)
           IN  /\ menus \in [Restaurants -> (SUBSET Dishes) \cup {Unread}]
               /\ \A r \in Restaurants : live[r] # Unread => menus[r] = live[r]
               /\ \A r \in Restaurants \cap rs : menus[r] # Unread
               /\ ReadIsOwn => \A r \in Restaurants :
                     menus[r] # Unread => \A d \in menus[r] : Owner[d] = r
<1> DEFINE menus == Load(rs, orderable)
           Menu(r) == {d \in orderable : Owner[d] = r}
<1>1. \A r \in Restaurants : Menu(r) \in SUBSET Dishes /\ \A d \in Menu(r) : Owner[d] = r
  OBVIOUS
<1>2. \A r \in Restaurants : Menu(r) # Unread
  BY <1>1, DishTypes DEF Unread
<1>3. menus = [r \in Restaurants |-> IF r \in rs /\ live[r] = Unread THEN Menu(r) ELSE live[r]]
  BY DEF Load
<1> HIDE DEF menus, Menu
<1>4. \A r \in Restaurants : menus[r] = IF r \in rs /\ live[r] = Unread THEN Menu(r) ELSE live[r]
  BY <1>3
<1>5. menus \in [Restaurants -> (SUBSET Dishes) \cup {Unread}]
  BY <1>1, <1>3 DEF RetrievalTypeOK
<1>6. ReadIsOwn => \A r \in Restaurants : menus[r] # Unread => \A d \in menus[r] : Owner[d] = r
  BY <1>1, <1>4 DEF ReadIsOwn
<1>7. QED
  BY <1>2, <1>4, <1>5, <1>6 DEF menus

\* Where the reading may stop, the list has come down, by the first dish of every
\* restaurant that was not read, to a score no better than the last of the rows.
LEMMA StopIsSafe ==
    ASSUME RetrievalTypeOK, NEW n \in Nat, NEW menus, Stops(Found(n, menus), n)
    PROVE  LET found == Found(n, menus)
           IN  \A d \in Listed :
                  \/ \E k \in 1..n : ReadingOrder[k] = OwnerAt(d)
                  \/ /\ Len(found) >= TopK
                     /\ \E j \in 1..First(d) : found[TopK].score >= ScoreAt(j)
<1> DEFINE found == Found(n, menus)
<1>1. /\ Len(Heads) \in Nat /\ Heads \in [1..Len(Heads) -> Listed]
      /\ \A i, j \in 1..Len(Heads) : i < j => Heads[i] < Heads[j]
  BY HeadsProperties
<1>2. \A d \in Listed : \E i \in 1..Len(Heads) : ReadingOrder[i] = OwnerAt(d) /\ Heads[i] = First(d)
  BY OrderProperties
<1>3. Listed = 1..Len(near.dishes) /\ Len(near.dishes) \in Nat
  BY NearProperties
<1>4. \/ n >= Len(Heads)
      \/ Len(found) >= TopK /\ found[TopK].score >= ScoreAt(Heads[n + 1])
  BY DEF Stops
<1> HIDE DEF found
<1>5. ASSUME NEW d \in Listed, ~ \E k \in 1..n : ReadingOrder[k] = OwnerAt(d)
      PROVE  Len(found) >= TopK /\ \E j \in 1..First(d) : found[TopK].score >= ScoreAt(j)
  <2>1. PICK i \in 1..Len(Heads) : ReadingOrder[i] = OwnerAt(d) /\ Heads[i] = First(d)
    BY <1>2
  <2>2. n < i
    BY <1>1, <1>5, <2>1
  <2>3. Len(found) >= TopK /\ found[TopK].score >= ScoreAt(Heads[n + 1])
    BY <1>1, <1>4, <2>2
  <2>4. n + 1 \in 1..Len(Heads) /\ (n + 1 = i \/ n + 1 < i)
    BY <1>1, <2>2
  <2>5. Heads[n + 1] \in Listed /\ Heads[i] \in Listed
    BY <1>1, <2>4
  <2>6. Heads[n + 1] \in 1..First(d)
    BY <1>1, <1>3, <2>1, <2>4, <2>5
  <2>7. QED
    BY <2>3, <2>6
<1>6. QED
  BY <1>5 DEF found

-----------------------------------------------------------------------------
(* The inductive invariant.                                                *)

\* The restaurants before the position have been read, in this pass or before.
ReadSoFar ==
    /\ search.at = "ask" => search.position = 0
    /\ search.at = "dishes" =>
          /\ search.position = 0 \/ search.position <= Len(ReadingOrder)
          /\ \A i \in 1..search.position : live[ReadingOrder[i]] # Unread

\* The index lists no more than it was asked for.
AsManyAsAsked ==
    search.at \in {"dishes", "places", "found"} => Len(near.dishes) <= Limits[search.pass]

\* The rows: scores fall along them, and each is on the menu that was read.
RowsFall ==
    /\ Len(dishes) <= TopK
    /\ \A i, j \in 1..Len(dishes) : i < j => dishes[i].score >= dishes[j].score
RowsAreLive ==
    \A i \in 1..Len(dishes) :
        /\ live[Owner[dishes[i].dish]] # Unread
        /\ dishes[i].dish \in live[Owner[dishes[i].dish]]

\* A candidate is a row, has been read and is off the menu, or is cut off.
Settled(i) ==
    (\E k \in 1..Len(dishes) : dishes[k] = near.dishes[i]) \/ OffTheMenu(i) \/ CutOff(i)
CandidatesSettled ==
    search.at \in {"places", "found"} => \A i \in Listed : Settled(i)

\* The first pass is the last one only for a reason.
NoWiderPassDue ==
    search.at = "found" => \/ search.pass = 2 \/ Limits[2] <= Limits[1]
                           \/ Len(dishes) = TopK \/ Len(near.dishes) < Limits[1]

RetrievalInv ==
    /\ RetrievalTypeOK /\ ReadIsOwn /\ ReadSoFar /\ AsManyAsAsked
    /\ RowsFall /\ RowsAreLive
    /\ CandidatesSettled /\ NoWiderPassDue
    /\ SilenceIsExplained

\* What ReadDishes computes.
Wave == NextWave(ReadingOrder, search.position)
ReadUpTo == search.position + Len(Wave)
MenusRead(orderable) == Load(ToSet(Wave), orderable)
FoundSoFar(orderable) == Found(ReadUpTo, MenusRead(orderable))
MayStop(orderable) == Stops(FoundSoFar(orderable), ReadUpTo)

\* A step of the reading of dishes reaches further down the order, and what it
\* has reached is read.
LEMMA ReadingOn ==
    ASSUME RetrievalInv, search.at = "dishes", NEW orderable \in SUBSET Dishes
    PROVE  /\ ReadUpTo \in Nat /\ ReadUpTo <= Len(ReadingOrder)
           /\ \A i \in 1..ReadUpTo : /\ ReadingOrder[i] \in Restaurants
                                     /\ MenusRead(orderable)[ReadingOrder[i]] # Unread
<1> DEFINE order == ReadingOrder
<1>1. RetrievalTypeOK /\ search.position \in Nat
  BY DEF RetrievalInv, RetrievalTypeOK
<1>2. order \in Seq(Restaurants) /\ Len(order) \in Nat
  BY <1>1, OrderProperties
<1>3. /\ search.position <= Len(order)
      /\ \A i \in 1..search.position : live[order[i]] # Unread
  BY <1>1, <1>2 DEF RetrievalInv, ReadSoFar
<1> HIDE DEF order
<1>4. /\ ReadUpTo \in Nat /\ ReadUpTo <= Len(order)
      /\ \A i \in (search.position + 1)..ReadUpTo : order[i] \in ToSet(Wave)
  BY <1>1, <1>2, <1>3, WaveProperties DEF ReadUpTo, Wave, order
<1>5. ASSUME NEW i \in 1..ReadUpTo
      PROVE  order[i] \in Restaurants /\ MenusRead(orderable)[order[i]] # Unread
  <2>1. i \in 1..Len(order)
    BY <1>2, <1>4
  <2>2. order[i] \in Restaurants
    BY <1>2, <2>1, ElementOfSeq
  <2>3. i \in 1..search.position \/ i \in (search.position + 1)..ReadUpTo
    BY <1>1, <1>4
  <2>4. CASE i \in 1..search.position
    BY <1>1, <1>3, <2>2, <2>4, LoadProperties DEF MenusRead
  <2>5. CASE i \in (search.position + 1)..ReadUpTo
    BY <1>1, <1>4, <2>2, <2>5, LoadProperties DEF MenusRead
  <2>6. QED
    BY <2>3, <2>4, <2>5
<1>6. QED
  BY <1>4, <1>5 DEF order

\* What was found by now: rows of candidates that are on the menus as read.
LEMMA FoundNow ==
    ASSUME RetrievalInv, search.at = "dishes", NEW orderable \in SUBSET Dishes
    PROVE  LET found == FoundSoFar(orderable)
               menus == MenusRead(orderable)
           IN  /\ found \in Seq(Row) /\ Len(found) \in Nat
               /\ \A k \in 1..Len(found) : /\ menus[Owner[found[k].dish]] # Unread
                                           /\ found[k].dish \in menus[Owner[found[k].dish]]
               /\ \A j, k \in 1..Len(found) : j < k => found[j].score >= found[k].score
               /\ \A i \in Listed :
                     (\E k \in 1..ReadUpTo : ReadingOrder[k] = OwnerAt(i)) =>
                        /\ menus[OwnerAt(i)] # Unread
                        /\ DishAt(i) \in menus[OwnerAt(i)] =>
                              \E k \in 1..Len(found) : found[k] = near.dishes[i]
<1> DEFINE order == ReadingOrder
           menus == MenusRead(orderable)
           found == FoundSoFar(orderable)
<1>1. RetrievalTypeOK /\ ReadIsOwn
  BY DEF RetrievalInv
<1>2. /\ Len(found) \in Nat /\ found \in Seq(Row)
      /\ \A k \in 1..Len(found) : \E i \in Listed :
            found[k] = near.dishes[i] /\ \E j \in 1..ReadUpTo : DishAt(i) \in menus[order[j]]
      /\ \A i \in Listed, j \in 1..ReadUpTo :
            DishAt(i) \in menus[order[j]] => \E k \in 1..Len(found) : found[k] = near.dishes[i]
      /\ \A j, k \in 1..Len(found) : j < k => found[j].score >= found[k].score
  BY <1>1, FoundProperties DEF FoundSoFar
<1>3. \A i \in 1..ReadUpTo : order[i] \in Restaurants /\ menus[order[i]] # Unread
  BY ReadingOn
<1>4. \A r \in Restaurants : menus[r] # Unread => \A d \in menus[r] : Owner[d] = r
  BY <1>1, LoadProperties DEF MenusRead
<1> HIDE DEF found, order, menus
<1>5. ASSUME NEW k \in 1..Len(found)
      PROVE  menus[Owner[found[k].dish]] # Unread /\ found[k].dish \in menus[Owner[found[k].dish]]
  <2>1. PICK i \in Listed, j \in 1..ReadUpTo : found[k] = near.dishes[i] /\ DishAt(i) \in menus[order[j]]
    BY <1>2
  <2>2. found[k].dish = DishAt(i)
    BY <2>1 DEF DishAt
  <2>3. Owner[DishAt(i)] = order[j]
    BY <1>3, <1>4, <2>1
  <2>4. QED
    BY <1>3, <2>1, <2>2, <2>3
<1>6. ASSUME NEW i \in Listed, NEW k \in 1..ReadUpTo, order[k] = OwnerAt(i)
      PROVE  /\ menus[OwnerAt(i)] # Unread
             /\ DishAt(i) \in menus[OwnerAt(i)] => \E j \in 1..Len(found) : found[j] = near.dishes[i]
  BY <1>2, <1>3, <1>6
<1>7. QED
  BY <1>2, <1>5, <1>6 DEF found, order, menus

\* Where the reading stops, every candidate is settled by the rows it returns.
LEMMA StopSettles ==
    ASSUME RetrievalInv, search.at = "dishes", NEW orderable \in SUBSET Dishes, MayStop(orderable)
    PROVE  LET rows == Shortened(FoundSoFar(orderable))
               menus == MenusRead(orderable)
           IN  \A d \in Listed :
                  \/ \E i \in 1..Len(rows) : rows[i] = near.dishes[d]
                  \/ menus[OwnerAt(d)] # Unread /\ DishAt(d) \notin menus[OwnerAt(d)]
                  \/ /\ Len(rows) = TopK
                     /\ \E j \in {d} \cup 1..First(d) : rows[TopK].score >= ScoreAt(j)
<1> DEFINE found == FoundSoFar(orderable)
           menus == MenusRead(orderable)
           rows == Shortened(found)
<1>1. RetrievalTypeOK
  BY DEF RetrievalInv
<1>2. /\ found \in Seq(Row) /\ Len(found) \in Nat
      /\ \A j, k \in 1..Len(found) : j < k => found[j].score >= found[k].score
      /\ \A i \in Listed :
            (\E k \in 1..ReadUpTo : ReadingOrder[k] = OwnerAt(i)) =>
               /\ menus[OwnerAt(i)] # Unread
               /\ DishAt(i) \in menus[OwnerAt(i)] =>
                     \E k \in 1..Len(found) : found[k] = near.dishes[i]
  BY FoundNow
<1>3. /\ Len(rows) \in Nat /\ Len(rows) <= TopK /\ Len(rows) <= Len(found)
      /\ Len(rows) = TopK \/ Len(rows) = Len(found)
      /\ \A i \in 1..Len(rows) : rows[i] = found[i]
  BY <1>2, ShortenedProperties
<1>4. ReadUpTo \in Nat
  BY ReadingOn
<1>5. \A d \in Listed :
         \/ \E k \in 1..ReadUpTo : ReadingOrder[k] = OwnerAt(d)
         \/ Len(found) >= TopK /\ \E j \in 1..First(d) : found[TopK].score >= ScoreAt(j)
  BY <1>1, <1>4, StopIsSafe DEF MayStop, FoundSoFar
<1> HIDE DEF rows, found, menus
<1>6. SUFFICES ASSUME NEW d \in Listed, ~ \E i \in 1..Len(rows) : rows[i] = near.dishes[d]
               PROVE  \/ menus[OwnerAt(d)] # Unread /\ DishAt(d) \notin menus[OwnerAt(d)]
                      \/ /\ Len(rows) = TopK
                         /\ \E j \in {d} \cup 1..First(d) : rows[TopK].score >= ScoreAt(j)
  BY DEF rows, found, menus
<1>7. ASSUME Len(found) >= TopK, NEW j \in {d} \cup 1..First(d), found[TopK].score >= ScoreAt(j)
      PROVE  Len(rows) = TopK /\ rows[TopK].score >= ScoreAt(j)
  <2>1. Len(rows) = TopK
    BY <1>2, <1>3, <1>7, ConstantTypes
  <2>2. TopK \in 1..Len(rows)
    BY <2>1, ConstantTypes
  <2>3. QED
    BY <1>3, <1>7, <2>1, <2>2
<1>8. ASSUME NEW i \in 1..Len(found), found[i] = near.dishes[d]
      PROVE  Len(found) >= TopK /\ found[TopK].score >= ScoreAt(d)
  <2>1. ~ (i \in 1..Len(rows))
    BY <1>3, <1>6, <1>8
  <2>2. TopK < i /\ TopK \in 1..Len(found)
    BY <1>2, <1>3, <2>1, ConstantTypes
  <2>3. QED
    BY <1>2, <1>8, <2>2, ConstantTypes DEF ScoreAt
<1>9. QED
  BY <1>2, <1>5, <1>7, <1>8

-----------------------------------------------------------------------------
LEMMA InvHoldsAtFirst == RetrievalInit => RetrievalInv
<1> SUFFICES ASSUME RetrievalInit PROVE RetrievalInv
  OBVIOUS
<1>1. /\ search = [at |-> "ask", pass |-> 1, position |-> 0]
      /\ dishes = <<>> /\ Len(dishes) = 0
  BY EmptySeq DEF RetrievalInit, Starting
<1>2. RetrievalTypeOK
  <2>1. search \in [at : {"ask", "dishes", "places", "found", "failed", "assembled"},
                    pass : {1, 2}, position : Nat]
    BY <1>1
  <2>2. near \in [dishes : DishLists \cup {<<>>}, places : PlaceLists \cup {<<>>}]
    BY DEF RetrievalInit
  <2>3. dishes \in Seq(Row)
    BY <1>1, EmptySeq
  <2>4. QED
    BY <2>1, <2>2, <2>3 DEF RetrievalInit, RetrievalTypeOK
<1>3. ReadIsOwn
  BY DEF ReadIsOwn, RetrievalInit
<1>4. ReadSoFar /\ AsManyAsAsked
  BY <1>1 DEF ReadSoFar, AsManyAsAsked
<1>5. RowsFall /\ RowsAreLive
  BY <1>1, ConstantTypes DEF RowsFall, RowsAreLive
<1>6. CandidatesSettled /\ NoWiderPassDue /\ SilenceIsExplained
  BY <1>1 DEF CandidatesSettled, NoWiderPassDue, SilenceIsExplained
<1>7. QED
  BY <1>2, <1>3, <1>4, <1>5, <1>6 DEF RetrievalInv

LEMMA InvImpliesFoundIsBest == RetrievalInv => FoundIsBest
<1> SUFFICES ASSUME RetrievalInv, search.at = "found" PROVE FoundIsBest
  BY DEF FoundIsBest
<1>1. DOMAIN dishes = 1..Len(dishes)
  BY LenProperties DEF RetrievalInv, RetrievalTypeOK
<1>2. \A i, j \in DOMAIN dishes : i < j => dishes[i].score >= dishes[j].score
  BY <1>1 DEF RetrievalInv, RowsFall
<1>3. ASSUME NEW i \in Listed
      PROVE  near.dishes[i] \in ToSet(dishes) \/ OffTheMenu(i) \/ CutOff(i)
  <2>1. Settled(i)
    BY DEF RetrievalInv, CandidatesSettled
  <2>2. ASSUME NEW k \in 1..Len(dishes), dishes[k] = near.dishes[i]
        PROVE  near.dishes[i] \in ToSet(dishes)
    BY <1>1, <2>2 DEF ToSet
  <2>3. QED
    BY <2>1, <2>2 DEF Settled
<1>4. QED
  BY <1>2, <1>3 DEF FoundIsBest

LEMMA WaveLength ==
    ASSUME NEW S, NEW seq \in Seq(S), NEW position \in Nat
    PROVE  Len(NextWave(seq, position)) \in Nat
<1> DEFINE k == Least({Len(seq), position + WaveSize})
<1>1. Len(seq) \in Nat /\ position + WaveSize \in Nat
  BY LenProperties, ConstantTypes
<1>2. k \in Nat /\ k <= Len(seq)
  BY <1>1, LeastOfTwo
<1> HIDE DEF k
<1>3. ASSUME NEW i \in (position + 1)..k PROVE seq[i] \in S
  <2>1. i \in 1..Len(seq)
    BY <1>1, <1>2
  <2>2. QED
    BY <2>1, ElementOfSeq
<1>4. SubSeq(seq, position + 1, k) \in Seq(S)
  BY <1>2, <1>3, SubSeqProperties
<1>5. NextWave(seq, position) = SubSeq(seq, position + 1, k)
  BY DEF NextWave, k
<1>6. QED
  BY <1>4, <1>5, LenProperties

\* While the candidates stay, so does everything that is read off them.
LEMMA SameCandidates ==
    ASSUME near' = near
    PROVE  /\ Listed' = Listed /\ ReadingOrder' = ReadingOrder
           /\ \A i : /\ DishAt(i)' = DishAt(i) /\ ScoreAt(i)' = ScoreAt(i)
                     /\ OwnerAt(i)' = OwnerAt(i) /\ First(i)' = First(i)
  BY DEF Listed, DishAt, ScoreAt, OwnerAt, First, Heads, ReadingOrder

LEMMA AskIndexKeepsInv ==
    ASSUME RetrievalInv, AskIndex
    PROVE  RetrievalInv'
<1>1. /\ RetrievalTypeOK /\ search.at = "ask" /\ search.position = 0
      /\ search.pass \in {1, 2}
      /\ search = [at |-> "ask", pass |-> search.pass, position |-> 0]
  BY DEF AskIndex, RetrievalInv, RetrievalTypeOK, ReadSoFar
<1>2. PICK list \in DishLists, seq \in PlaceLists :
         /\ Len(list) <= Limits[search.pass]
         /\ near' = [dishes |-> list, places |-> seq]
  BY DEF AskIndex
<1>3. /\ search' = [at |-> "dishes", pass |-> search.pass, position |-> 0]
      /\ live' = live /\ dishes' = dishes /\ places' = places /\ context' = context
  BY <1>1 DEF AskIndex
<1>4. RetrievalTypeOK'
  <2>1. near' \in [dishes : DishLists \cup {<<>>}, places : PlaceLists \cup {<<>>}]
    BY <1>2
  <2>2. search' \in [at : {"ask", "dishes", "places", "found", "failed", "assembled"},
                     pass : {1, 2}, position : Nat]
    BY <1>1, <1>3
  <2>3. QED
    BY <1>1, <1>3, <2>1, <2>2 DEF RetrievalTypeOK
<1>5. ReadSoFar'
  BY <1>3 DEF ReadSoFar
<1>6. AsManyAsAsked'
  BY <1>2, <1>3 DEF AsManyAsAsked
<1>7. ReadIsOwn' /\ RowsFall' /\ RowsAreLive'
  BY <1>3 DEF RetrievalInv, ReadIsOwn, RowsFall, RowsAreLive
<1>8. CandidatesSettled' /\ NoWiderPassDue' /\ SilenceIsExplained'
  BY <1>3 DEF CandidatesSettled, NoWiderPassDue, SilenceIsExplained
<1>9. QED
  BY <1>4, <1>5, <1>6, <1>7, <1>8 DEF RetrievalInv

\* The rows are kept on the menus they were read from.
LEMMA LoadKeepsRows ==
    ASSUME RetrievalInv, NEW rs, NEW orderable \in SUBSET Dishes, live' = Load(rs, orderable)
    PROVE  /\ live' \in [Restaurants -> (SUBSET Dishes) \cup {Unread}]
           /\ \A r \in Restaurants : live[r] # Unread => live'[r] = live[r]
           /\ ReadIsOwn'
           /\ \A k \in 1..Len(dishes) : /\ live'[Owner[dishes[k].dish]] # Unread
                                        /\ dishes[k].dish \in live'[Owner[dishes[k].dish]]
<1>1. RetrievalTypeOK /\ ReadIsOwn /\ RowsAreLive
  BY DEF RetrievalInv
<1>2. /\ live' \in [Restaurants -> (SUBSET Dishes) \cup {Unread}]
      /\ \A r \in Restaurants : live[r] # Unread => live'[r] = live[r]
      /\ \A r \in Restaurants : live'[r] # Unread => \A d \in live'[r] : Owner[d] = r
  BY <1>1, LoadProperties
<1>3. ReadIsOwn'
  BY <1>2 DEF ReadIsOwn
<1>4. ASSUME NEW k \in 1..Len(dishes)
      PROVE  /\ live'[Owner[dishes[k].dish]] # Unread
             /\ dishes[k].dish \in live'[Owner[dishes[k].dish]]
  <2>1. dishes[k] \in Row
    BY <1>1, ElementOfSeq DEF RetrievalTypeOK
  <2>2. Owner[dishes[k].dish] \in Restaurants
    BY <2>1, DishTypes DEF Row
  <2>3. QED
    BY <1>1, <1>2, <2>2 DEF RowsAreLive
<1>5. QED
  BY <1>2, <1>3, <1>4

LEMMA ReadDishesKeepsInv ==
    ASSUME RetrievalInv, ReadDishes
    PROVE  /\ RetrievalInv'
           /\ search'.at = "places" =>
                 \A i \in Listed :
                    (\E k \in 1..Len(dishes) : dishes[k].dish = DishAt(i)) =>
                       \/ \E k \in 1..Len(dishes') : dishes'[k] = near.dishes[i]
                       \/ CutOff(i)'
<1>1. PICK orderable \in SUBSET Dishes :
         /\ live' = MenusRead(orderable)
         /\ IF MayStop(orderable)
              THEN /\ search' = [search EXCEPT !.at = "places", !.position = 0]
                   /\ dishes' = Shortened(FoundSoFar(orderable))
              ELSE /\ search' = [search EXCEPT !.position = ReadUpTo]
                   /\ dishes' = dishes
  BY DEF ReadDishes, Wave, ReadUpTo, MenusRead, FoundSoFar, MayStop
<1>2. /\ search.at = "dishes" /\ near' = near /\ context' = context
      /\ RetrievalTypeOK /\ AsManyAsAsked /\ RowsFall
      /\ search.pass \in {1, 2}
      /\ search = [at |-> "dishes", pass |-> search.pass, position |-> search.position]
  BY DEF ReadDishes, RetrievalInv, RetrievalTypeOK
<1>3. /\ ReadUpTo \in Nat /\ ReadUpTo <= Len(ReadingOrder)
      /\ \A i \in 1..ReadUpTo : MenusRead(orderable)[ReadingOrder[i]] # Unread
  BY <1>2, ReadingOn
<1>4. /\ live' \in [Restaurants -> (SUBSET Dishes) \cup {Unread}]
      /\ ReadIsOwn'
      /\ \A k \in 1..Len(dishes) : /\ live'[Owner[dishes[k].dish]] # Unread
                                   /\ dishes[k].dish \in live'[Owner[dishes[k].dish]]
  BY <1>1, LoadKeepsRows DEF MenusRead
<1>5. /\ Listed' = Listed /\ ReadingOrder' = ReadingOrder
      /\ \A i : /\ DishAt(i)' = DishAt(i) /\ ScoreAt(i)' = ScoreAt(i)
                /\ OwnerAt(i)' = OwnerAt(i) /\ First(i)' = First(i)
  BY <1>2, SameCandidates
<1>6. CASE MayStop(orderable)
  <2> DEFINE found == FoundSoFar(orderable)
             rows == Shortened(found)
  <2>1. search' = [at |-> "places", pass |-> search.pass, position |-> 0] /\ dishes' = rows
    BY <1>1, <1>2, <1>6
  <2>2. /\ found \in Seq(Row) /\ Len(found) \in Nat
        /\ \A k \in 1..Len(found) :
              /\ MenusRead(orderable)[Owner[found[k].dish]] # Unread
              /\ found[k].dish \in MenusRead(orderable)[Owner[found[k].dish]]
        /\ \A j, k \in 1..Len(found) : j < k => found[j].score >= found[k].score
    BY <1>2, FoundNow
  <2>3. /\ rows \in Seq(Row) /\ Len(rows) \in Nat /\ Len(rows) <= TopK
        /\ Len(rows) <= Len(found) /\ \A i \in 1..Len(rows) : rows[i] = found[i]
    BY <2>2, ShortenedProperties
  <2>4. \A i \in 1..Len(rows) : i \in 1..Len(found) /\ rows[i] = found[i]
    BY <2>2, <2>3
  <2>5. \A d \in Listed :
           \/ \E i \in 1..Len(rows) : rows[i] = near.dishes[d]
           \/ live'[OwnerAt(d)] # Unread /\ DishAt(d) \notin live'[OwnerAt(d)]
           \/ /\ Len(rows) = TopK
              /\ \E j \in {d} \cup 1..First(d) : rows[TopK].score >= ScoreAt(j)
    BY <1>1, <1>2, <1>6, StopSettles
  <2> HIDE DEF rows, found
  <2>6. RetrievalTypeOK'
    <3>1. search' \in [at : {"ask", "dishes", "places", "found", "failed", "assembled"},
                       pass : {1, 2}, position : Nat]
      BY <1>2, <2>1
    <3>2. QED
      BY <1>2, <1>4, <2>1, <2>3, <3>1 DEF RetrievalTypeOK
  <2>7. ReadSoFar' /\ AsManyAsAsked' /\ NoWiderPassDue' /\ SilenceIsExplained'
    BY <1>2, <2>1 DEF ReadSoFar, AsManyAsAsked, NoWiderPassDue, SilenceIsExplained
  <2>8. RowsFall'
    BY <2>1, <2>2, <2>3, <2>4 DEF RowsFall
  <2>9. RowsAreLive'
    BY <1>1, <2>1, <2>2, <2>4 DEF RowsAreLive
  <2>10. \A d \in Listed : CutOff(d)' <=> /\ Len(rows) = TopK
                                          /\ \E j \in {d} \cup 1..First(d) : rows[TopK].score >= ScoreAt(j)
    BY <1>5, <2>1 DEF CutOff
  <2>11. \A d \in Listed : OffTheMenu(d)' <=> /\ live'[OwnerAt(d)] # Unread
                                              /\ DishAt(d) \notin live'[OwnerAt(d)]
    BY <1>5 DEF OffTheMenu
  <2>12. CandidatesSettled'
    <3>1. SUFFICES ASSUME NEW d \in Listed PROVE Settled(d)'
      BY <1>5 DEF CandidatesSettled
    <3>2. QED
      BY <1>2, <2>1, <2>5, <2>10, <2>11 DEF Settled
  <2>13. ASSUME NEW i \in Listed, NEW k \in 1..Len(dishes), dishes[k].dish = DishAt(i)
         PROVE  (\E j \in 1..Len(dishes') : dishes'[j] = near.dishes[i]) \/ CutOff(i)'
    <3>1. live'[OwnerAt(i)] # Unread /\ DishAt(i) \in live'[OwnerAt(i)]
      BY <1>4, <2>13 DEF OwnerAt
    <3>2. QED
      BY <2>1, <2>5, <2>10, <3>1
  <2>14. QED
    BY <1>4, <2>6, <2>7, <2>8, <2>9, <2>12, <2>13 DEF RetrievalInv
<1>7. CASE ~ MayStop(orderable)
  <2>1. /\ search' = [at |-> "dishes", pass |-> search.pass, position |-> ReadUpTo]
        /\ dishes' = dishes
    BY <1>1, <1>2, <1>7
  <2>2. RetrievalTypeOK'
    <3>1. search' \in [at : {"ask", "dishes", "places", "found", "failed", "assembled"},
                       pass : {1, 2}, position : Nat]
      BY <1>2, <1>3, <2>1
    <3>2. QED
      BY <1>2, <1>4, <2>1, <3>1 DEF RetrievalTypeOK
  <2>3. ReadSoFar'
    BY <1>1, <1>3, <1>5, <2>1 DEF ReadSoFar
  <2>4. AsManyAsAsked'
    BY <1>2, <2>1 DEF AsManyAsAsked
  <2>5. NoWiderPassDue' /\ CandidatesSettled' /\ SilenceIsExplained'
    BY <2>1 DEF NoWiderPassDue, CandidatesSettled, SilenceIsExplained
  <2>6. RowsFall' /\ RowsAreLive'
    BY <1>2, <1>4, <2>1 DEF RowsFall, RowsAreLive
  <2>7. search'.at # "places"
    BY <2>1
  <2>8. QED
    BY <1>4, <2>2, <2>3, <2>4, <2>5, <2>6, <2>7 DEF RetrievalInv
<1>8. QED
  BY <1>6, <1>7

LEMMA ReadPlacesKeepsInv ==
    ASSUME RetrievalInv, ReadPlaces
    PROVE  RetrievalInv'
<1> DEFINE n == search.position + Len(NextWave(near.places, search.position))
<1>1. /\ search.at = "places" /\ dishes' = dishes /\ near' = near /\ context' = context
      /\ \E rs, orderable : orderable \in SUBSET Dishes /\ live' = Load(rs, orderable)
  BY DEF ReadPlaces
<1>2. \/ search' = [search EXCEPT !.position = n]
      \/ \E list : Ends(list)
  BY DEF ReadPlaces
<1>3. /\ RetrievalTypeOK /\ AsManyAsAsked /\ RowsFall /\ CandidatesSettled
      /\ search.pass \in {1, 2} /\ search.position \in Nat
      /\ search = [at |-> "places", pass |-> search.pass, position |-> search.position]
  BY <1>1 DEF RetrievalInv, RetrievalTypeOK
<1>4. /\ live' \in [Restaurants -> (SUBSET Dishes) \cup {Unread}]
      /\ \A r \in Restaurants : live[r] # Unread => live'[r] = live[r]
      /\ ReadIsOwn'
      /\ \A k \in 1..Len(dishes) : /\ live'[Owner[dishes[k].dish]] # Unread
                                   /\ dishes[k].dish \in live'[Owner[dishes[k].dish]]
  BY <1>1, LoadKeepsRows
<1>5. /\ Listed' = Listed /\ ReadingOrder' = ReadingOrder
      /\ \A i : /\ DishAt(i)' = DishAt(i) /\ ScoreAt(i)' = ScoreAt(i)
                /\ OwnerAt(i)' = OwnerAt(i) /\ First(i)' = First(i)
  BY <1>1, SameCandidates
<1>6. n \in Nat
  BY <1>3, NearProperties, WaveLength
<1> HIDE DEF n
<1>7. RowsFall' /\ RowsAreLive'
  BY <1>1, <1>3, <1>4 DEF RowsFall, RowsAreLive
<1>8. ASSUME NEW i \in Listed PROVE Settled(i)'
  <2>1. Settled(i) /\ OwnerAt(i) \in Restaurants
    BY <1>1, <1>3, NearProperties DEF CandidatesSettled
  <2>2. OffTheMenu(i) => OffTheMenu(i)'
    BY <1>4, <1>5, <2>1 DEF OffTheMenu
  <2>3. CutOff(i) => CutOff(i)'
    BY <1>1, <1>5 DEF CutOff
  <2>4. QED
    BY <1>1, <2>1, <2>2, <2>3 DEF Settled
<1>9. CandidatesSettled'
  BY <1>5, <1>8 DEF CandidatesSettled
<1>10. ASSUME NEW at \in {"ask", "places", "found"}, NEW pass \in {1, 2}, NEW position \in Nat,
              search' = [at |-> at, pass |-> pass, position |-> position]
       PROVE  RetrievalTypeOK' /\ SilenceIsExplained'
  <2>1. search' \in [at : {"ask", "dishes", "places", "found", "failed", "assembled"},
                     pass : {1, 2}, position : Nat]
    BY <1>10
  <2>2. RetrievalTypeOK'
    BY <1>1, <1>3, <1>4, <2>1 DEF RetrievalTypeOK
  <2>3. SilenceIsExplained'
    BY <1>10 DEF SilenceIsExplained
  <2>4. QED
    BY <2>2, <2>3
<1>11. CASE search' = [search EXCEPT !.position = n]
  <2>1. search' = [at |-> "places", pass |-> search.pass, position |-> n]
    BY <1>3, <1>11
  <2>2. RetrievalTypeOK' /\ SilenceIsExplained'
    BY <1>3, <1>6, <1>10, <2>1
  <2>3. ReadSoFar' /\ AsManyAsAsked' /\ NoWiderPassDue'
    BY <1>1, <1>3, <2>1 DEF ReadSoFar, AsManyAsAsked, NoWiderPassDue
  <2>4. QED
    BY <1>4, <1>7, <1>9, <2>2, <2>3 DEF RetrievalInv
<1>12. ASSUME NEW list, Ends(list)
       PROVE  RetrievalInv'
  <2> DEFINE short == Len(dishes) < TopK /\ Len(near.dishes) = Limits[search.pass]
             again == search.pass = 1 /\ Limits[2] > Limits[1]
  <2>1. \/ search' = Starting(2)
        \/ search' = [search EXCEPT !.at = "found"] /\ ~ (short /\ again)
    BY <1>12 DEF Ends
  <2>2. CASE search' = Starting(2)
    <3>1. search' = [at |-> "ask", pass |-> 2, position |-> 0]
      BY <2>2 DEF Starting
    <3>2. RetrievalTypeOK' /\ SilenceIsExplained'
      BY <1>10, <3>1
    <3>3. ReadSoFar' /\ AsManyAsAsked' /\ NoWiderPassDue'
      BY <3>1 DEF ReadSoFar, AsManyAsAsked, NoWiderPassDue
    <3>4. QED
      BY <1>4, <1>7, <1>9, <3>2, <3>3 DEF RetrievalInv
  <2>3. CASE search' = [search EXCEPT !.at = "found"] /\ ~ (short /\ again)
    <3>1. search' = [at |-> "found", pass |-> search.pass, position |-> search.position]
      BY <1>3, <2>3
    <3>2. RetrievalTypeOK' /\ SilenceIsExplained'
      BY <1>3, <1>10, <3>1
    <3>3. ReadSoFar' /\ AsManyAsAsked'
      BY <1>1, <1>3, <3>1 DEF ReadSoFar, AsManyAsAsked
    <3>4. NoWiderPassDue'
      <4>1. SUFFICES ASSUME search.pass = 1, Limits[2] > Limits[1], Len(dishes) # TopK
                     PROVE  Len(near.dishes) < Limits[1]
        BY <1>1, <1>3, <3>1, ConstantTypes DEF NoWiderPassDue
      <4>2. Len(dishes) \in Nat /\ Len(dishes) <= TopK
        BY <1>3, LenProperties DEF RetrievalTypeOK, RowsFall
      <4>3. Len(near.dishes) # Limits[1]
        BY <2>3, <4>1, <4>2, ConstantTypes
      <4>4. Len(near.dishes) \in Nat /\ Len(near.dishes) <= Limits[1]
        BY <1>1, <1>3, <4>1, NearProperties DEF AsManyAsAsked
      <4>5. QED
        BY <4>3, <4>4, ConstantTypes
    <3>5. QED
      BY <1>4, <1>7, <1>9, <3>2, <3>3, <3>4 DEF RetrievalInv
  <2>4. QED
    BY <2>1, <2>2, <2>3
<1>13. QED
  BY <1>2, <1>11, <1>12

LEMMA OtherStepsKeepInv ==
    ASSUME RetrievalInv, SearchFails \/ UNCHANGED retrievalVars
    PROVE  RetrievalInv'
<1>1. /\ RetrievalTypeOK
      /\ search = [at |-> search.at, pass |-> search.pass, position |-> search.position]
  BY DEF RetrievalInv, RetrievalTypeOK
<1>2. CASE SearchFails
  <2>1. search' = [search EXCEPT !.at = "failed"] /\ dishes' = <<>> /\ near' = near /\ live' = live
    BY <1>2 DEF SearchFails
  <2>2. search' = [at |-> "failed", pass |-> search.pass, position |-> search.position]
    BY <1>1, <2>1
  <2>3. Len(dishes') = 0 /\ dishes' \in Seq(Row)
    BY <2>1, EmptySeq
  <2>4. RetrievalTypeOK'
    <3>1. search' \in [at : {"ask", "dishes", "places", "found", "failed", "assembled"},
                       pass : {1, 2}, position : Nat]
      BY <1>1, <2>2 DEF RetrievalTypeOK
    <3>2. QED
      BY <1>1, <2>1, <2>3, <3>1 DEF RetrievalTypeOK
  <2>5. ReadIsOwn' /\ ReadSoFar' /\ AsManyAsAsked'
    BY <2>1, <2>2 DEF RetrievalInv, ReadIsOwn, ReadSoFar, AsManyAsAsked
  <2>6. RowsFall' /\ RowsAreLive'
    BY <2>3, ConstantTypes DEF RowsFall, RowsAreLive
  <2>7. CandidatesSettled' /\ NoWiderPassDue' /\ SilenceIsExplained'
    BY <2>2 DEF CandidatesSettled, NoWiderPassDue, SilenceIsExplained
  <2>8. QED
    BY <2>4, <2>5, <2>6, <2>7 DEF RetrievalInv
<1>3. CASE UNCHANGED retrievalVars
  <2>1. /\ search' = search /\ dishes' = dishes /\ places' = places /\ context' = context
        /\ near' = near /\ live' = live
    BY <1>3 DEF retrievalVars
  <2>2. /\ Listed' = Listed /\ ReadingOrder' = ReadingOrder
        /\ \A i : /\ DishAt(i)' = DishAt(i) /\ ScoreAt(i)' = ScoreAt(i)
                  /\ OwnerAt(i)' = OwnerAt(i) /\ First(i)' = First(i)
    BY <2>1, SameCandidates
  <2>3. \A i : (OffTheMenu(i)' <=> OffTheMenu(i)) /\ (CutOff(i)' <=> CutOff(i))
    BY <2>1, <2>2 DEF OffTheMenu, CutOff
  <2>4. RetrievalTypeOK' /\ SilenceIsExplained'
    <3>1. RetrievalTypeOK'
      BY <1>1, <2>1 DEF RetrievalTypeOK
    <3>2. Served' = Served
      BY <2>1 DEF Served
    <3>3. QED
      BY <2>1, <2>2, <2>3, <3>1, <3>2 DEF RetrievalInv, SilenceIsExplained
  <2>5. ReadIsOwn' /\ ReadSoFar' /\ AsManyAsAsked' /\ NoWiderPassDue'
    BY <2>1, <2>2 DEF RetrievalInv, ReadIsOwn, ReadSoFar, AsManyAsAsked, NoWiderPassDue
  <2>6. RowsFall' /\ RowsAreLive'
    BY <2>1 DEF RetrievalInv, RowsFall, RowsAreLive
  <2>7. CandidatesSettled'
    BY <2>1, <2>2, <2>3 DEF RetrievalInv, CandidatesSettled, Settled
  <2>8. QED
    BY <2>4, <2>5, <2>6, <2>7 DEF RetrievalInv
<1>4. QED
  BY <1>2, <1>3

LEMMA AssembleKeepsInv ==
    ASSUME RetrievalInv, Assemble
    PROVE  RetrievalInv'
<1>1. /\ RetrievalTypeOK
      /\ search = [at |-> search.at, pass |-> search.pass, position |-> search.position]
  BY DEF RetrievalInv, RetrievalTypeOK
<1>2. /\ search.at \in {"found", "failed"} /\ search' = [search EXCEPT !.at = "assembled"]
      /\ dishes' = dishes /\ places' = places /\ near' = near /\ live' = live
  BY DEF Assemble
<1>3. search' = [at |-> "assembled", pass |-> search.pass, position |-> search.position]
  BY <1>1, <1>2
<1>4. PICK reached \in SUBSET Served, profile \in {{}, {"analytics"}}, aboutPlaces \in BOOLEAN :
         context' = [couriers |-> reached, failed |-> Failures(reached) \cup profile,
                     says |-> Says(Failures(reached) \cup profile, aboutPlaces)]
  BY DEF Assemble
<1>5. /\ context'.couriers = reached /\ context'.failed = Failures(reached) \cup profile
      /\ context'.says = Says(Failures(reached) \cup profile, aboutPlaces)
  BY <1>4
<1>6. RetrievalTypeOK'
  <2>1. search' \in [at : {"ask", "dishes", "places", "found", "failed", "assembled"},
                     pass : {1, 2}, position : Nat]
    BY <1>1, <1>3 DEF RetrievalTypeOK
  <2>2. QED
    BY <1>1, <1>2, <2>1 DEF RetrievalTypeOK
<1>7. /\ Listed' = Listed
      /\ \A i : OwnerAt(i)' = OwnerAt(i) /\ DishAt(i)' = DishAt(i)
  BY <1>2, SameCandidates
<1>8. ReadIsOwn' /\ ReadSoFar' /\ AsManyAsAsked' /\ CandidatesSettled' /\ NoWiderPassDue'
  BY <1>2, <1>3 DEF RetrievalInv, ReadIsOwn, ReadSoFar, AsManyAsAsked, CandidatesSettled, NoWiderPassDue
<1>9. RowsFall' /\ RowsAreLive'
  BY <1>2 DEF RetrievalInv, RowsFall, RowsAreLive
<1>10. ASSUME context'.says = "nothing"
       PROVE  /\ \A i \in Listed : OffTheMenu(i)
              /\ search.pass = 1 /\ Limits[1] < Limits[2] => Len(near.dishes) < Limits[1]
  <2>1. dishes = <<>> /\ "vector" \notin Failures(reached)
    BY <1>5, <1>10 DEF Says
  <2>2. search.at = "found"
    BY <1>2, <2>1 DEF Failures
  <2>3. Len(dishes) = 0 /\ Len(dishes) # TopK
    BY <2>1, EmptySeq, ConstantTypes
  <2>4. ASSUME NEW i \in Listed PROVE OffTheMenu(i)
    <3>1. Settled(i) /\ ~ CutOff(i)
      BY <2>2, <2>3 DEF RetrievalInv, CandidatesSettled, CutOff
    <3>2. QED
      BY <2>3, <3>1 DEF Settled
  <2>5. search.pass = 1 /\ Limits[1] < Limits[2] => Len(near.dishes) < Limits[1]
    BY <2>2, <2>3, ConstantTypes DEF RetrievalInv, NoWiderPassDue
  <2>6. QED
    BY <2>4, <2>5
<1>11. ASSUME "courier" \notin context'.failed
       PROVE  Served \subseteq context'.couriers /\ "vector" \notin context'.failed
  <2>1. "courier" \notin Failures(reached) /\ profile \in {{}, {"analytics"}}
    BY <1>5, <1>11
  <2>2. Served \subseteq reached /\ "vector" \notin Failures(reached)
    BY <2>1 DEF Failures
  <2>3. QED
    BY <1>5, <2>1, <2>2
<1>12. Served' = Served
  BY <1>2 DEF Served
<1>13. \A i : OffTheMenu(i)' <=> OffTheMenu(i)
  BY <1>2, <1>7 DEF OffTheMenu
<1>14. SilenceIsExplained'
  BY <1>2, <1>3, <1>7, <1>10, <1>11, <1>12, <1>13 DEF SilenceIsExplained
<1>15. QED
  BY <1>6, <1>8, <1>9, <1>14 DEF RetrievalInv

\* The inductive invariant holds, whatever the index lists, in whatever order and
\* anew in each pass, and whatever the menus are as they are read.
THEOREM RetrievalInvariant == RetrievalSpec => []RetrievalInv
<1>1. RetrievalInit => RetrievalInv
  BY InvHoldsAtFirst
<1>2. RetrievalInv /\ [RetrievalNext]_retrievalVars => RetrievalInv'
  BY AskIndexKeepsInv, ReadDishesKeepsInv, ReadPlacesKeepsInv, OtherStepsKeepInv,
     AssembleKeepsInv DEF RetrievalNext
<1>3. QED
  BY <1>1, <1>2, PTL DEF RetrievalSpec

\* Type correctness.
THEOREM RetrievalTypes == RetrievalSpec => []RetrievalTypeOK
<1>1. RetrievalInv => RetrievalTypeOK
  BY DEF RetrievalInv
<1>2. QED
  BY <1>1, RetrievalInvariant, PTL

\* The rows fall in score whatever the order of the index, and a candidate that
\* is not among them has been read and is off the menu, or gave way to a full
\* list no worse than it, or than one listed up to its restaurant's first.
THEOREM SearchFindsTheBest == RetrievalSpec => []FoundIsBest
<1>1. RetrievalInv => FoundIsBest
  BY InvImpliesFoundIsBest
<1>2. QED
  BY <1>1, RetrievalInvariant, PTL

\* "Nothing like that is on the menus" is only said when every candidate was read
\* and is off the menu and the index had no more to give, or gave its most, and a
\* courier that is not told of was not asked for or is reported as failed.
THEOREM SilenceMeansAbsence == RetrievalSpec => []SilenceIsExplained
<1>1. RetrievalInv => SilenceIsExplained
  BY DEF RetrievalInv
<1>2. QED
  BY <1>1, RetrievalInvariant, PTL

\* What the first pass found and the index lists again to the second is found
\* again, or cut off: no change of a menu between the passes takes it away.
THEOREM WiderIsNoWorse == RetrievalSpec => WiderKeepsWhatWasFound
<1> DEFINE Kept == search.pass = 2 /\ search.at = "dishes" /\ search'.at = "places" =>
                      \A i \in Listed :
                         (\E k \in DOMAIN dishes : dishes[k].dish = DishAt(i)) =>
                            near.dishes[i] \in ToSet(dishes') \/ CutOff(i)'
<1>1. ASSUME RetrievalInv, RetrievalInv', [RetrievalNext]_retrievalVars PROVE Kept
  <2>1. DOMAIN dishes = 1..Len(dishes) /\ DOMAIN dishes' = 1..Len(dishes')
    BY <1>1, LenProperties DEF RetrievalInv, RetrievalTypeOK
  <2>2. SUFFICES ASSUME search.at = "dishes", search'.at = "places",
                        NEW i \in Listed, \E k \in DOMAIN dishes : dishes[k].dish = DishAt(i)
                 PROVE  near.dishes[i] \in ToSet(dishes') \/ CutOff(i)'
    OBVIOUS
  <2>3. ReadDishes
    <3>1. search \in [at : {"ask", "dishes", "places", "found", "failed", "assembled"},
                      pass : {1, 2}, position : Nat]
      BY <1>1 DEF RetrievalInv, RetrievalTypeOK
    <3>2. ~ SearchFails
      BY <2>2, <3>1 DEF SearchFails
    <3>3. QED
      BY <1>1, <2>2, <3>2 DEF RetrievalNext, AskIndex, ReadPlaces, Assemble, retrievalVars
  <2>4. (\E k \in 1..Len(dishes') : dishes'[k] = near.dishes[i]) \/ CutOff(i)'
    BY <1>1, <2>1, <2>2, <2>3, ReadDishesKeepsInv
  <2>5. ASSUME NEW k \in 1..Len(dishes'), dishes'[k] = near.dishes[i]
        PROVE  near.dishes[i] \in ToSet(dishes')
    BY <2>1, <2>5 DEF ToSet
  <2>6. QED
    BY <2>4, <2>5
<1>2. RetrievalInv /\ RetrievalInv' /\ [RetrievalNext]_retrievalVars => [Kept]_retrievalVars
  BY <1>1
<1>3. QED
  BY <1>2, RetrievalInvariant, PTL DEF RetrievalSpec, WiderKeepsWhatWasFound
=============================================================================
