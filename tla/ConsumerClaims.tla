--------------------------- MODULE ConsumerClaims ---------------------------
(* What a comment says of the analytics consumer and its loop does not keep. *)
EXTENDS EventConsumers

\* analytics/consumer.py:146 "DB commit ... happens before this offset commit --
\* at-least-once, effectively-once given the processed_events dedup": an event
\* whose offset is committed has been applied.
AppliedBeforeCommitted ==
    \A i \in 1..committed["analytics"] : EventAt(i) # None => EventAt(i) \in processed
=============================================================================
