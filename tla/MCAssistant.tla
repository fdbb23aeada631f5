----------------------------- MODULE MCAssistant -----------------------------
(***************************************************************************)
(* Four parts of the assistant, in one run: a turn about an order beside   *)
(* the order's life; turns of one conversation; turns about food beside    *)
(* the consumer that counts what was ordered after them; and the search,   *)
(* over every answer of up to three of four dishes of three restaurants,   *)
(* in and out of order, two of them with one score.                        *)
(***************************************************************************)
EXTENDS Assistant, Retrieval

CONSTANTS r1, r2, r3   \* model values

ByRestaurant == <<r1, r2, r1, r3>>
ScoreOf == <<9, 7, 5, 5>>
AnyAnswer == {[i \in DOMAIN list |-> [dish |-> list[i], score |-> ScoreOf[list[i]]]] :
                list \in {l \in SeqOf(DOMAIN ByRestaurant, 3) : IsInjective(l)}}
SomePlaces == {<<>>, <<r3, r2>>}
TwoThenThree == <<2, 3>>

VARIABLE part

mcVars == <<assistantVars, retrievalVars, part>>

AboutOrders == Kind \ {"food"}
OfOrders == {"words", "refund", "uncharged", "cancelled", "delivered", "no_reason", "name"}
OfFood == {"name", "other_name"}

TellingNext == LifeGoesOn \/ TurnStep(1, AboutOrders, OfOrders)

\* Three turns of one conversation that remembers two exchanges.
RememberingNext == \E t \in Turns : TurnStep(t, IF t = 3 THEN {"refused"} ELSE {"food"}, OfFood)

CountingNext ==
    \/ \E t \in {1, 2} : TurnStep(t, {"food"}, {"words"})
    \/ \E o \in Orders : Place(o) /\ UNCHANGED <<turns, memory, attributionVars>>
    \/ \E o \in Orders : Announce(o)
    \/ \E w \in Workers : Counting(w)

MCInit ==
    /\ AssistantInit /\ RetrievalInit
    /\ part \in {"telling", "remembering", "counting", "searching"}

MCNext ==
    /\ UNCHANGED part
    /\ \/ part = "telling" /\ TellingNext /\ UNCHANGED retrievalVars
       \/ part = "remembering" /\ RememberingNext /\ UNCHANGED retrievalVars
       \/ part = "counting" /\ CountingNext /\ UNCHANGED retrievalVars
       \/ part = "searching" /\ RetrievalNext /\ UNCHANGED assistantVars

Interchangeable == Permutations(Workers)

MCSpec == MCInit /\ [][MCNext]_mcVars
=============================================================================
