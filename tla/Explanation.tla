----------------------------- MODULE Explanation -----------------------------
(***************************************************************************)
(* What the assistant knows, what its model may say of it and what the     *)
(* guardrail lets through.                                                 *)
(*                                                                         *)
(* A text is the set of claims the checks can find in it; what they cannot *)
(* find is "words".  The empty set is the empty text.  A figure, a price,  *)
(* a count or a name is either one the facts carry or an invented one.     *)
(***************************************************************************)
EXTENDS OrderLifecycle

Claims == {"words", "cancelled", "delivered", "refund", "uncharged", "no_reason", "verdict",
           "internal", "figure", "price", "count", "name",
           "other_figure", "other_price", "other_count", "other_name", "mispaired"}

\* What is asked about: an order, all of them, food or a restaurant.
Subject == {"order", "history", "food"}

\* The names of restaurants and dishes, as the checks read them: in a "misread"
\* one a check finds a claim the facts do not bear out, such as the verdict in
\* Too Late Diner or the order count in 3 Orders Cafe.
Naming == {"none", "plain", "misread"}

\* What is known when the model is asked.  status, cause and money are of the
\* one order asked about.
Facts == [subject : Subject, status : Stage, cause : BOOLEAN,
          money : {"unknown", "refunded", "refund_incomplete", "not_charged"},
          names : Naming]

Undone == {"cancelled", "compensation_failed"}

\* The conclusion about the customer's money: from the status and the last
\* reason on the trail, never from a payment.
MoneyOf(status, why) ==
    CASE status = "compensation_failed"             -> "refund_incomplete"
      [] status = "cancelled" /\ why = "saga"       -> "refunded"
      [] status = "cancelled" /\ why = "payment"    -> "not_charged"
      [] OTHER                                      -> "unknown"

\* _build: the facts of an order whose row said `status` and whose trail's last
\* reason was `why`.  Its restaurant's name is left out when it cannot be read.
OrderFacts(status, why, names) ==
    [subject |-> "order", status |-> status,
     cause   |-> status \in Undone /\ why # "none",
     money   |-> MoneyOf(status, why), names |-> names]

\* Nothing but counts, prices and figures is checked of a history or of food.
PlainFacts(subject, names) ==
    [subject |-> subject, status |-> "absent", cause |-> FALSE, money |-> "unknown",
     names |-> names]

-----------------------------------------------------------------------------
(* The guardrail.                                                          *)

\* Broken variant: any cancelled order may be told to be refunded.
MoneyClaimsByStatus(f) == IF f.status \in Undone THEN {"refund", "uncharged"} ELSE {}

\* verify_money
MoneyClaims(f) ==
    CASE f.money \in {"refunded", "refund_incomplete"} -> {"refund"}
      [] f.money = "not_charged"                       -> {"uncharged"}
      [] OTHER                                         -> {}

\* verify_status: a claim in the negative is no claim.
StatusClaims(f) ==
    CASE f.status \in Undone       -> {"cancelled"}
      [] f.status = "delivered"    -> {"delivered"}
      [] OTHER                     -> {}

\* verify_cause
CauseClaims(f) == IF f.cause THEN {} ELSE {"no_reason"}

\* check_explanation, check_history and verify_food_answer: what a text may say.
\* "verdict" and "internal" may be said of nothing, but a verdict in a food
\* answer may be a dish's name and is not looked for.
Supported(f) ==
    {"words", "figure"} \cup (IF f.names = "misread" THEN {} ELSE {"name"}) \cup
    CASE f.subject = "order"   -> MoneyClaims(f) \cup StatusClaims(f) \cup CauseClaims(f)
                                    \cup {"price", "count", "other_price", "other_count",
                                          "other_name", "mispaired"}
      [] f.subject = "history" -> {"price", "count", "cancelled", "delivered", "refund", "uncharged",
                                   "no_reason", "other_name", "mispaired"}
      [] f.subject = "food"    -> {"price", "cancelled", "delivered", "refund", "uncharged",
                                   "no_reason", "count", "other_count", "verdict"}

Passes(f, text) == text # {} /\ text \subseteq Supported(f)

-----------------------------------------------------------------------------
(* The answers written by rules.                                           *)

\* STATUS_MEANING: the words of a flagged order speak of its refund.
Meaning(status) ==
    CASE status = "cancelled"           -> {"cancelled"}
      [] status = "compensation_failed" -> {"cancelled", "refund"}
      [] status = "delivered"           -> {"delivered"}
      [] OTHER                          -> {}

Named(f) == IF f.names = "none" THEN {} ELSE {"name"}

\* render_summary
Summary(f) ==
    {"words", "figure"} \cup Named(f) \cup Meaning(f.status)
      \cup (IF f.status \in Undone /\ ~f.cause THEN {"no_reason"} ELSE {})
      \cup (IF f.money = "refunded" THEN {"refund"} ELSE {})
      \cup (IF f.money = "not_charged" THEN {"uncharged"} ELSE {})

\* render_history, whose lines give each order's restaurant, dishes and state, and
\* render_food_fallback.
Fallback(f) ==
    CASE f.subject = "order"   -> Summary(f)
      [] f.subject = "history" -> Named(f) \cup {"words", "count", "price", "figure",
                                                 "cancelled", "delivered"}
      [] f.subject = "food"    -> Named(f) \cup {"words", "price"}

\* What the customer is told in the end: the model's words, or the rules', which
\* nothing checks: misread names are in them too.
Checked(f, text) == IF Passes(f, text) THEN text ELSE Fallback(f)
=============================================================================
