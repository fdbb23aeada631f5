------------------------------ MODULE Assistant ------------------------------
(***************************************************************************)
(* The assistant's turns beside the life of the orders they are about: a   *)
(* question is routed, what is known is fetched, the model's words are     *)
(* streamed to the customer as they come, and are checked when there are   *)
(* no more of them.  POST /ai/explain-order is a turn that streams         *)
(* nothing, keeps no memory and is not logged.                             *)
(*                                                                         *)
(* The customer may have several turns of one conversation open at once.   *)
(***************************************************************************)
EXTENDS Explanation, Attribution, SequencesExt

CONSTANTS MaxClaims,    \* bound: how many claims a model's text makes
          MaxMessages   \* CONVERSATION_MAX_MESSAGES, a whole number of pairs

ASSUME AssistantAssumption ==
    /\ MaxClaims \in Nat
    /\ MaxMessages \in Nat \ {0} /\ MaxMessages % 2 = 0

VARIABLES
    turns,     \* one per question
    memory     \* the conversation in Redis, which may also run out of its TTL

tellingVars == <<orderView, turns, memory>>
assistantVars == <<tellingVars, attributionVars>>

Kind == {"order", "history", "food", "refused", "explain"}
Ended == {"closed", "failed", "gone"}

\* text is what the customer's screen says, and until it is checked the model's
\* draft as well.
Turn == [at     : {"asked", "row", "trail", "searching", "writing", "saving", "logging"} \cup Ended,
         kind   : Kind \cup {"none"},
         order  : Orders \cup {NoOrder},
         facts  : Facts,
         text   : SUBSET Claims,
         answer : SUBSET Claims]

Fixed == {"words"}   \* a refusal, "no orders", "nothing found"

Asked == [at |-> "asked", kind |-> "none", order |-> NoOrder, facts |-> PlainFacts("food", "none"),
          text |-> {}, answer |-> {}]

TellingInit ==
    /\ LifeInit
    /\ turns = [t \in Turns |-> Asked]
    /\ memory = <<>>

AssistantInit == TellingInit /\ AttributionInit

-----------------------------------------------------------------------------
(* Fetching what is known.                                                 *)

Placed == {o \in Orders : stage[o] # "absent"}

\* The router's model decides what is asked; a question out of scope is refused
\* without asking it again.
Route(t, kinds) ==
    /\ turns[t].at = "asked"
    /\ \E kind \in kinds :
          turns' = [turns EXCEPT ![t].kind = kind,
                      ![t].at = CASE kind = "refused"              -> "saving"
                                  [] kind \in {"order", "explain"} -> "row"
                                  [] OTHER                         -> "searching",
                      ![t].answer = IF kind = "refused" THEN Fixed ELSE {}]
    /\ UNCHANGED <<orderView, memory, attributionVars>>

\* explain_context: the order's row ...  Without an order, or for one asked for by
\* a number, there is a fixed answer.
ReadRow(t) ==
    /\ turns[t].at = "row"
    /\ \/ \E o \in Placed, names \in Naming :
             turns' = [turns EXCEPT ![t].at = "trail", ![t].order = o,
                                    ![t].facts = OrderFacts(stage[o], "none", names)]
       \/ /\ turns[t].kind = "order"
          /\ turns' = [turns EXCEPT ![t].at = "saving", ![t].answer = Fixed]
    /\ UNCHANGED <<orderView, memory, attributionVars>>

\* ... and then, by another query, its trail.
ReadTrail(t) ==
    /\ turns[t].at = "trail"
    /\ turns' = [turns EXCEPT ![t].at = "writing",
                   ![t].facts = OrderFacts(@.status, cause[turns[t].order], @.names)]
    /\ UNCHANGED <<orderView, memory, attributionVars>>

\* The customer's orders, or dishes and restaurants; nothing found is an answer.
Search(t) ==
    /\ turns[t].at = "searching"
    /\ \/ /\ turns[t].kind = "food" \/ Placed # {}
          /\ \E names \in Naming \ {"none"} :
                turns' = [turns EXCEPT ![t].at = "writing",
                                       ![t].facts = PlainFacts(turns[t].kind, names)]
       \/ /\ turns[t].kind = "food" \/ Placed = {}
          /\ turns' = [turns EXCEPT ![t].at = "saving", ![t].answer = Fixed]
    /\ UNCHANGED <<orderView, memory, attributionVars>>

-----------------------------------------------------------------------------
(* Writing and checking.                                                   *)

\* One more claim, on the screen before anything has been checked.
Say(t, says) ==
    /\ turns[t].at = "writing" /\ Cardinality(turns[t].text) < MaxClaims
    /\ \E c \in says \ turns[t].text : turns' = [turns EXCEPT ![t].text = @ \cup {c}]
    /\ UNCHANGED <<orderView, memory, attributionVars>>

\* The end of the text: it stands, or the rules' answer replaces it.
Guard(t) ==
    LET passed == Checked(turns[t].facts, turns[t].text)
    IN  /\ turns[t].at = "writing"
        /\ turns' = [turns EXCEPT ![t].answer = passed,
                       ![t].at = IF turns[t].kind = "explain" THEN "closed" ELSE "saving",
                       ![t].text = IF turns[t].kind = "explain" THEN passed ELSE @]
        /\ UNCHANGED <<orderView, memory, attributionVars>>

\* A service, the model or the stream fails: an HTTP error as long as nothing
\* has been sent, an error in the stream after that.  The turn is not saved.
Fail(t) ==
    /\ turns[t].at \in {"asked", "row", "trail", "searching", "writing"}
    /\ turns' = [turns EXCEPT ![t] = [Asked EXCEPT !.at = "failed"]]
    /\ UNCHANGED <<orderView, memory, attributionVars>>

-----------------------------------------------------------------------------
(* Memory, the usage log and the last event.                               *)

Newer(messages) == SubSeq(messages, Len(messages) - Min({Len(messages), MaxMessages}) + 1,
                          Len(messages))

Exchange(t, text) ==
    << [role |-> "user", turn |-> t, text |-> Fixed],
       [role |-> "assistant", turn |-> t, text |-> text] >>

\* Broken variant: what is remembered is what was streamed.
AppendStreamed(t) == memory' = Newer(memory \o Exchange(t, turns[t].text))

\* ConversationStore.append: one pipeline, the pair and the trim.
AppendTurn(t) == memory' = Newer(memory \o Exchange(t, turns[t].answer))

\* Redis away: the turn is answered all the same, and forgotten.
Save(t) ==
    /\ turns[t].at = "saving"
    /\ AppendTurn(t) \/ UNCHANGED memory
    /\ turns' = [turns EXCEPT ![t].at = "logging"]
    /\ UNCHANGED <<orderView, attributionVars>>

\* The usage log knows whether the answer named a restaurant of its context.
Logged(t) == IF turns[t].kind = "food" /\ "name" \in turns[t].answer THEN "named" ELSE "plain"

\* The log is best effort, the closing event comes after it: an answer that was
\* not streamed is sent now, and one that did not pass is replaced.
LogAndClose(t) ==
    /\ turns[t].at = "logging"
    /\ turns' = [turns EXCEPT ![t].at = "closed", ![t].text = turns[t].answer]
    /\ Record(t, Logged(t)) \/ UNCHANGED attributionVars
    /\ UNCHANGED <<orderView, memory>>

\* The customer leaves once there is a stream to leave; a write to Redis or to
\* the log that is under way on its thread may still be made.
ClientGone(t) ==
    /\ \/ turns[t].at \in {"writing", "saving"} /\ turns[t].text # {}
       \/ turns[t].at = "logging"
    /\ turns[t].kind # "explain"
    /\ turns' = [turns EXCEPT ![t].at = "gone"]
    /\ \/ UNCHANGED <<memory, attributionVars>>
       \/ turns[t].at = "saving" /\ AppendTurn(t) /\ UNCHANGED attributionVars
       \/ turns[t].at = "logging" /\ Record(t, Logged(t)) /\ UNCHANGED memory
    /\ UNCHANGED <<orderView>>

-----------------------------------------------------------------------------
TurnStep(t, kinds, says) ==
    \/ Route(t, kinds) \/ ReadRow(t) \/ ReadTrail(t) \/ Search(t)
    \/ Say(t, says) \/ Guard(t) \/ Save(t) \/ LogAndClose(t)
    \/ Fail(t) \/ ClientGone(t)

\* An order goes its way; its saga publishes order.created some time after it
\* has been placed.
LifeGoesOn == LifeNext /\ UNCHANGED <<turns, memory, attributionVars>>

Announce(o) ==
    /\ stage[o] # "absent" /\ PublishCreated(o)
    /\ UNCHANGED tellingVars

Counting(w) == WorkerStep(w) /\ UNCHANGED tellingVars

AssistantNext ==
    \/ LifeGoesOn
    \/ \E t \in Turns : TurnStep(t, Kind, Claims)
    \/ \E o \in Orders : Announce(o)
    \/ \E w \in Workers : Counting(w)

AssistantSpec == AssistantInit /\ [][AssistantNext]_assistantVars

-----------------------------------------------------------------------------
TellingTypeOK == LifeTypeOK /\ turns \in [Turns -> Turn]

\* An account of an order that the customer is left with is true of the order,
\* and stays true however the order goes on, however the model phrased it and
\* at whatever moment its row and its trail were read: money is spoken of as
\* returned only when it is, or when the order is flagged for it; as never
\* charged only where the payment was declined; and a recorded reason is not
\* denied.
ToldIsTrue ==
    \A t \in Turns :
        LET o == turns[t].order
            says == turns[t].text
        IN  turns[t].at = "closed" /\ o # NoOrder =>
              /\ "refund" \in says => money[o] = "returned" \/ stage[o] = "compensation_failed"
              /\ "uncharged" \in says => stage[o] = "cancelled" /\ cause[o] = "payment"
              /\ "cancelled" \in says => stage[o] \in Undone
              /\ "delivered" \in says => stage[o] = "delivered"
              /\ "no_reason" \in says /\ turns[t].facts.status \in Undone => cause[o] = "none"

\* A fixed text, one that passes the check of these facts or, where the check
\* misreads a name in them, the one the rules write.
Warranted(facts, text) ==
    \/ text = Fixed \/ Passes(facts, text)
    \/ facts.names = "misread" /\ text = Fallback(facts)

\* The conversation holds whole exchanges, question before answer, none twice
\* and no more than it may; and every answer in it is a fixed one, one that passes
\* its check or, of names the check misreads, the one the rules wrote, whatever
\* was streamed before, whoever left and however many turns were open at once.
MemoryHoldsAnswers ==
    /\ Len(memory) <= MaxMessages /\ Len(memory) % 2 = 0
    /\ \A i \in DOMAIN memory :
          LET m == memory[i]
          IN  /\ m.role = (IF i % 2 = 1 THEN "user" ELSE "assistant")
              /\ i % 2 = 1 => memory[i + 1].turn = m.turn
              /\ i % 2 = 0 => /\ Warranted(turns[m.turn].facts, m.text)
                              /\ turns[m.turn].at \in {"logging", "closed", "gone"}
    /\ \A i, j \in DOMAIN memory :
          memory[i].turn = memory[j].turn /\ memory[i].role = memory[j].role => i = j
=============================================================================
