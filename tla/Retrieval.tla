------------------------------ MODULE Retrieval ------------------------------
(***************************************************************************)
(* The assistant's search for dishes and restaurants, and the context it   *)
(* assembles for a question.                                               *)
(*                                                                         *)
(* The vector index answers with candidates and their scores: an           *)
(* approximate scan in a relaxed order, so that any of the nearest may be  *)
(* missing and scores need not fall along the list.  What a customer may   *)
(* order is read live, restaurant by restaurant and in waves, while menus  *)
(* go on changing; reading stops early, and when the filters ate too many  *)
(* of the candidates, the index is asked anew, once, for more of them.     *)
(***************************************************************************)
EXTENDS Integers, SequencesExt

CONSTANTS Restaurants,
          Owner,       \* the restaurant of each dish
          DishLists,   \* what nearest_items may answer: dishes with their scores
          PlaceLists,  \* what nearest_restaurants may answer
          Limits,      \* SEARCH_CANDIDATES, SEARCH_MAX_CANDIDATES
          WaveSize,    \* SEARCH_HYDRATE_WAVE
          TopK,
          MaxLookups   \* RAG_MAX_COURIER_LOOKUPS

Dishes == DOMAIN Owner

ASSUME RetrievalAssumption ==
    /\ WaveSize \in Nat \ {0} /\ TopK \in Nat \ {0} /\ MaxLookups \in Nat
    /\ Limits \in [1..2 -> Nat] /\ Owner \in Seq(Restaurants)
    /\ DishLists \subseteq Seq([dish : Dishes, score : Int])
    /\ \A list \in DishLists : \A i, j \in DOMAIN list : list[i].dish = list[j].dish => i = j
    /\ PlaceLists \subseteq Seq(Restaurants)

VARIABLES
    near,       \* the candidates of this pass
    live,       \* _Live: what was orderable of each restaurant read so far
    search,     \* at what list, in which pass, and how many restaurants of it are read
    dishes,     \* item rows, best first
    places,     \* restaurant rows, best first
    context     \* what the assistant is given in the end, and the sources that failed

retrievalVars == <<near, live, search, dishes, places, context>>

Unread == {0}   \* there is no such dish

Starting(pass) == [at |-> "ask", pass |-> pass, position |-> 0]

RetrievalInit ==
    /\ near = [dishes |-> <<>>, places |-> <<>>]
    /\ live = [r \in Restaurants |-> Unread]
    /\ search = Starting(1)
    /\ dishes = <<>> /\ places = <<>>
    /\ context = [couriers |-> {}, failed |-> {}, says |-> ""]

-----------------------------------------------------------------------------
Least(S) == CHOOSE i \in S : \A j \in S : i <= j

\* The elements of S, where ahead[d] tells what goes before d.
Sorted(S, ahead) ==
    [i \in 1..Cardinality(S) |-> CHOOSE d \in S : Cardinality(S \cap ahead[d]) = i - 1]

\* nearest_items and nearest_restaurants: whatever the index lists this time.
AskIndex ==
    /\ search.at = "ask"
    /\ \E list \in DishLists, seq \in PlaceLists :
          /\ Len(list) <= Limits[search.pass] /\ Len(seq) <= Limits[search.pass]
          /\ near' = [dishes |-> list, places |-> seq]
    /\ search' = [search EXCEPT !.at = "dishes"]
    /\ UNCHANGED <<live, dishes, places, context>>

\* A candidate is told by its place in the list.
Listed == DOMAIN near.dishes
DishAt(i) == near.dishes[i].dish
ScoreAt(i) == near.dishes[i].score
OwnerAt(i) == Owner[DishAt(i)]

\* The first candidate of a candidate's restaurant: restaurants are read in the
\* order of theirs, which is taken for the best.
First(i) == Least({j \in 1..i : OwnerAt(j) = OwnerAt(i)})
Heads == Sorted({i \in Listed : First(i) = i}, [i \in Listed |-> 1..(i - 1)])
ReadingOrder == [k \in DOMAIN Heads |-> OwnerAt(Heads[k])]

\* Broken variant: the second pass reads again what the first has read.
LoadAgain(rs, orderable) ==
    [r \in Restaurants |-> IF r \in rs THEN {d \in orderable : Owner[d] = r} ELSE live[r]]

\* _Live.load, while so many dishes are orderable: both passes and both lists
\* share what was read.
Load(rs, orderable) ==
    [r \in Restaurants |->
        IF r \in rs /\ live[r] = Unread THEN {d \in orderable : Owner[d] = r} ELSE live[r]]

\* The restaurants of the next wave.
NextWave(seq, position) == SubSeq(seq, position + 1, Least({Len(seq), position + WaveSize}))

\* What goes before a candidate in the result: a better score, and with one score
\* the restaurant that was read first.
Ahead ==
    [i \in Listed |->
        {j \in Listed :
            \/ ScoreAt(j) > ScoreAt(i)
            \/ ScoreAt(j) = ScoreAt(i) /\ First(j) < First(i)
            \/ ScoreAt(j) = ScoreAt(i) /\ First(j) = First(i) /\ j < i}]

\* The rows of the first n restaurants of the order, best first.
Found(n, menus) ==
    LET read == {i \in Listed : \E k \in 1..n : DishAt(i) \in menus[ReadingOrder[k]]}
        sorted == Sorted(read, Ahead)
    IN  [k \in DOMAIN sorted |-> near.dishes[sorted[k]]]

\* Broken variant: enough dishes are enough.
StopsAtEnough(found, n) == Len(found) >= TopK \/ n >= Len(Heads)

\* A restaurant that has not been read could not place a dish any more, as far
\* as its first candidate tells.
Stops(found, n) ==
    \/ n >= Len(Heads)
    \/ Len(found) >= TopK /\ found[TopK].score >= ScoreAt(Heads[n + 1])

Shortened(seq) == SubSeq(seq, 1, Least({Len(seq), TopK}))

\* _items, one wave of it.
ReadDishes ==
    LET wave == NextWave(ReadingOrder, search.position)
        n == search.position + Len(wave)
    IN  /\ search.at = "dishes"
        /\ \E orderable \in SUBSET Dishes :
              LET menus == Load(ToSet(wave), orderable)
                  found == Found(n, menus)
              IN  /\ live' = menus
                  /\ IF Stops(found, n)
                       THEN /\ search' = [search EXCEPT !.at = "places", !.position = 0]
                            /\ dishes' = Shortened(found) /\ places' = <<>>
                       ELSE /\ search' = [search EXCEPT !.position = n]
                            /\ UNCHANGED <<dishes, places>>
        /\ UNCHANGED <<near, context>>

\* A full result, or candidates that were all there are, is final; else the
\* index is asked again, wider, once.
Ends(list) ==
    LET limit == Limits[search.pass]
        short == Len(dishes) < TopK /\ Len(near.dishes) = limit
        shortPlaces == Len(list) < TopK /\ Len(near.places) = limit
    IN  search' = IF (short \/ shortPlaces) /\ search.pass = 1 /\ Limits[2] > Limits[1]
                    THEN Starting(2)
                    ELSE [search EXCEPT !.at = "found"]

\* Restaurants with a dish to order.
Serving(wave, menus) == SelectSeq(wave, LAMBDA r : menus[r] # {})

\* _restaurant_rows, one wave of it.
ReadPlaces ==
    LET wave == NextWave(near.places, search.position)
        n == search.position + Len(wave)
    IN  /\ search.at = "places"
        /\ \E orderable \in SUBSET Dishes :
              LET menus == Load(ToSet(wave), orderable)
                  list == Shortened(places \o Serving(wave, menus))
              IN  /\ live' = menus
                  /\ places' = list
                  /\ IF n >= Len(near.places) \/ Len(list) = TopK
                       THEN Ends(list)
                       ELSE search' = [search EXCEPT !.position = n]
        /\ UNCHANGED <<near, dishes, context>>

\* The index or a service fails, or the search takes longer than
\* RAG_VECTOR_TIMEOUT_SECONDS: its thread may go on, for nobody.
SearchFails ==
    /\ search.at \in {"ask", "dishes", "places"}
    /\ search' = [search EXCEPT !.at = "failed"]
    /\ dishes' = <<>> /\ places' = <<>>
    /\ UNCHANGED <<near, live, context>>

-----------------------------------------------------------------------------
(* _assemble: the sources that answered within their budgets.              *)

\* The restaurants a courier is looked up for: of the restaurant rows and then
\* of the dishes, each once.
Served ==
    LET list == places \o [i \in DOMAIN dishes |-> Owner[dishes[i].dish]]
        first == {i \in DOMAIN list : \A j \in 1..(i - 1) : list[j] # list[i]}
    IN  {list[i] : i \in {i \in first : Cardinality({j \in first : j < i}) < MaxLookups}}

\* Broken variant: a failed search has no couriers to look for.
FailuresOfLookups(reached) ==
    (IF search.at = "failed" THEN {"vector"} ELSE {})
      \cup (IF Served \subseteq reached THEN {} ELSE {"courier"})

Failures(reached) ==
    (IF search.at = "failed" THEN {"vector", "courier"} ELSE {})
      \cup (IF Served \subseteq reached THEN {} ELSE {"courier"})

\* _retrieve_food: the model is asked if there is a dish to tell of, or a
\* restaurant when the question was about restaurants.
Says(failed, aboutPlaces) ==
    IF dishes # <<>> \/ (aboutPlaces /\ places # <<>>) THEN "something"
    ELSE IF "vector" \in failed THEN "unavailable" ELSE "nothing"

Assemble ==
    /\ search.at \in {"found", "failed"}
    /\ \E reached \in SUBSET Served, profile \in {{}, {"analytics"}},
          aboutPlaces \in BOOLEAN :
          LET failed == Failures(reached) \cup profile
          IN  context' = [couriers |-> reached, failed |-> failed,
                          says |-> Says(failed, aboutPlaces)]
    /\ search' = [search EXCEPT !.at = "assembled"]
    /\ UNCHANGED <<near, live, dishes, places>>

RetrievalNext == AskIndex \/ ReadDishes \/ ReadPlaces \/ SearchFails \/ Assemble

RetrievalSpec == RetrievalInit /\ [][RetrievalNext]_retrievalVars

-----------------------------------------------------------------------------
\* Left out of a full result: its last row is as good as the candidate, or as one
\* that was listed no later than any of the candidate's restaurant.  Where the
\* index answers in order, the second is a case of the first; where it does not,
\* the second is what a candidate out of its place may be lost by.
CutOff(i) ==
    /\ Len(dishes) = TopK
    /\ \E j \in {i} \cup 1..First(i) : dishes[TopK].score >= ScoreAt(j)

\* Read, and not to be ordered.
OffTheMenu(i) == live[OwnerAt(i)] # Unread /\ DishAt(i) \notin live[OwnerAt(i)]

\* The result falls in score, in whatever order the index listed it, and
\* stopping early costs no candidate that was listed in its place: each one is
\* found, off the menu, or no better than the last of a full result.
FoundIsBest ==
    search.at = "found" =>
        /\ \A i, j \in DOMAIN dishes : i < j => dishes[i].score >= dishes[j].score
        /\ \A i \in Listed : near.dishes[i] \in ToSet(dishes) \/ OffTheMenu(i) \/ CutOff(i)

\* Looking again, wider, a dish that was found and is listed again is found
\* again, whatever has become of its menu in between, unless better ones fill
\* the result.
WiderKeepsWhatWasFound ==
    [][search.pass = 2 /\ search.at = "dishes" /\ search'.at = "places" =>
         \A i \in Listed :
            (\E k \in DOMAIN dishes : dishes[k].dish = DishAt(i)) =>
                near.dishes[i] \in ToSet(dishes') \/ CutOff(i)']_retrievalVars

\* What is not there is never taken for an absence unless it is one: nothing is
\* reported as not on the menus after a search that failed, nor while the index
\* could have been asked for more, and a restaurant without an entry for its
\* couriers was either not asked about or reported.
SilenceIsExplained ==
    search.at = "assembled" =>
        /\ context.says = "nothing" =>
              /\ \A i \in Listed : OffTheMenu(i)
              /\ search.pass = 1 /\ Limits[1] < Limits[2] => Len(near.dishes) < Limits[1]
        /\ "courier" \notin context.failed =>
              Served \subseteq context.couriers /\ "vector" \notin context.failed
=============================================================================
