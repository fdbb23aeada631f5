------------------------------ MODULE MCMenus ------------------------------
(* One publish after the first: of two dishes one changes its text and the  *)
(* other leaves the menu.                                                   *)
EXTENDS MenuIngestion

CONSTANTS p1, r1, soup, roll, cheap, dear

OnePublisher == {p1}
OneReader == {r1}
Threads == {"events", "backfill"}
TwoDishes == {soup, roll}
TwoTexts == {cheap, dear}
MCMenuAt ==
    [v \in 1..MaxVersions |->
        IF v = 1 THEN [d \in Dishes |-> cheap]
                 ELSE [d \in Dishes |-> IF d = soup THEN dear ELSE None]]
=============================================================================
