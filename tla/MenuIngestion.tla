--------------------------- MODULE MenuIngestion ---------------------------
(***************************************************************************)
(* The AI Service's ingestion worker over the Menu Service: one process    *)
(* whose consumer of menu.published and whose start-up backfill each bring *)
(* the restaurant's documents in line with its menu, in threads of their   *)
(* own.                                                                    *)
(*                                                                         *)
(* An ingest is not one transaction.  It asks whether its event is done,   *)
(* reads the menu (a query per level), reads what is stored, embeds what   *)
(* differs, and writes the difference.  The other thread's steps, and      *)
(* publishes, may fall anywhere between.                                   *)
(***************************************************************************)
EXTENDS MenuStore

CONSTANTS
    None,
    Dishes,            \* the menu's item keys
    Texts,             \* what a dish's chunk can say
    MenuAt,            \* [1..MaxVersions -> [Dishes -> Texts \cup {None}]]
    IngestAttempts,    \* _MAX_ATTEMPTS
    BackfillAttempts,  \* of listing the menus, in _startup_backfill
    MaxFaults          \* bound: failures in a behaviour

ASSUME IngestionAssumption ==
    /\ None \notin Texts /\ None \notin [text : Texts \cup {None}, options : BOOLEAN]
    /\ Levels >= 2         \* the dishes are the second
    /\ MenuAt \in [1..MaxVersions -> [Dishes -> Texts \cup {None}]]
    /\ IngestAttempts \in Nat \ {0} /\ BackfillAttempts \in Nat \ {0}
    /\ MaxFaults \in Nat
    /\ Ingesters = {"events", "backfill"} /\ Readers \cap Ingesters = {}

VARIABLES
    ingest,       \* each thread: its step, its attempt and the change it will write
    documents,    \* menu_item_documents
    processed,    \* for each event: the version of the menu its ingest had read, or 0
    deadLetters,  \* versions whose event went to the DLQ
    committed,    \* messages below the group's offset
    overlapped,   \* two ingests have been under way at once
    faults        \* failures so far

ingestVars == <<ingest, documents, processed, deadLetters, committed, overlapped, faults>>
vars == <<storeVars, ingestVars>>

\* A document's text: the dish's, and whether its options were found.
Chunk == [text : Texts, options : BOOLEAN]
Keep == [text |-> None, options |-> FALSE]     \* in a change: leave it as it is

\* item_chunk for each dish of the tree t: the dishes are its second level, and
\* a dish whose options were not found is described without them.
ChunksOf(t) ==
    [d \in Dishes |->
        IF t[2] = 0 \/ MenuAt[t[2]][d] = None THEN None
        ELSE [text |-> MenuAt[t[2]][d], options |-> t[Levels] # 0]]

\* Broken variant: dishes that left the menu stay.
ChangesToShown(t) ==
    [d \in Dishes |-> IF ChunksOf(t)[d] \in {documents[d], None} THEN Keep ELSE ChunksOf(t)[d]]

\* What an ingest that read the tree t will write, by the hashes stored now.
Changes(t) ==
    [d \in Dishes |-> IF ChunksOf(t)[d] = documents[d] THEN Keep ELSE ChunksOf(t)[d]]

Unchanged == [d \in Dishes |-> Keep]
Idle == [step |-> "idle", attempt |-> 1, change |-> Unchanged]
Busy(t) == ingest[t].step \in {"check", "read", "apply"}

IngestionInit ==
    /\ MenuInit
    /\ ingest = [t \in Ingesters |-> IF t = "backfill" THEN [Idle EXCEPT !.step = "list"]
                                                       ELSE Idle]
    /\ documents = [d \in Dishes |-> None]
    /\ processed = [v \in 1..MaxVersions |-> 0]
    /\ deadLetters = {} /\ committed = 0 /\ overlapped = FALSE /\ faults = 0

Message == topic[committed + 1]

\* The thread t goes on to step s.
Goes(t, s) == ingest' = [ingest EXCEPT ![t].step = s]
\* ... and is done with its ingest, which leaves the consumer a commit to make.
Done(t) == ingest' = [ingest EXCEPT ![t] = [Idle EXCEPT !.step = IF t = "events" THEN "commit"
                                                                                ELSE "idle"]]
Marks(t, v) == processed' = IF t = "events" THEN [processed EXCEPT ![Message] = v]
                                            ELSE processed

-----------------------------------------------------------------------------
\* run_forever and _handle: a message that tells of a publish is ingested.
Deliver ==
    /\ ingest["events"].step = "idle" /\ committed < Len(topic)
    /\ Goes("events", "check")
    /\ overlapped' = (overlapped \/ Busy("backfill"))
    /\ UNCHANGED <<storeVars, documents, processed, deadLetters, committed, faults>>

\* backfill: the listing of published menus, which has this restaurant.
ListPublished ==
    /\ ingest["backfill"].step = "list"
    /\ ingest' = [ingest EXCEPT !["backfill"] = [Idle EXCEPT !.step = "check"]]
    /\ overlapped' = (overlapped \/ Busy("events"))
    /\ UNCHANGED <<storeVars, documents, processed, deadLetters, committed, faults>>

\* event_processed; an ingest of the backfill has no event to ask about.
CheckProcessed(t) ==
    /\ ingest[t].step = "check"
    /\ IF t = "events" /\ processed[Message] # 0
         THEN Done(t) /\ UNCHANGED reading
         ELSE Goes(t, "read") /\ reading' = [reading EXCEPT ![t] = NoCopy]
    /\ UNCHANGED <<version, publish, cache, topic, documents, processed, deadLetters,
                   committed, overlapped, faults>>

\* Broken variant: the worker reads the menu through the copy.
ReadCached(t) ==
    /\ ingest[t].step = "read"
    /\ IF reading[t] = NoCopy /\ cache # NoCopy
         THEN reading' = [reading EXCEPT ![t] = cache] /\ UNCHANGED <<version, publish, cache, topic>>
         ELSE BeginRead(t) \/ LoadLevel(t)
    /\ UNCHANGED ingestVars

\* get_menu_internally: the rows, never the copy.
ReadMenu(t) ==
    /\ ingest[t].step = "read"
    /\ BeginRead(t) \/ LoadLevel(t)
    /\ UNCHANGED ingestVars

\* stored_hashes.  Nothing to write is the end of it; the event is marked then.
CompareStored(t) ==
    /\ ingest[t].step = "read" /\ Len(reading[t]) = Levels
    /\ IF Changes(reading[t]) = Unchanged
         THEN Done(t) /\ Marks(t, reading[t][1])
         ELSE /\ ingest' = [ingest EXCEPT ![t].step = "apply", ![t].change = Changes(reading[t])]
              /\ UNCHANGED processed
    /\ UNCHANGED <<storeVars, documents, deadLetters, committed, overlapped, faults>>

\* apply: the upserts, the removals and the event's mark in one transaction.
Apply(t) ==
    /\ ingest[t].step = "apply"
    /\ documents' = [d \in Dishes |-> IF ingest[t].change[d] = Keep THEN documents[d]
                                                                   ELSE ingest[t].change[d]]
    /\ Marks(t, reading[t][1])
    /\ Done(t)
    /\ UNCHANGED <<storeVars, deadLetters, committed, overlapped, faults>>

Commit ==
    /\ ingest["events"].step = "commit"
    /\ committed' = committed + 1
    /\ Goes("events", "idle")
    /\ UNCHANGED <<storeVars, documents, processed, deadLetters, overlapped, faults>>

-----------------------------------------------------------------------------
Fault == faults < MaxFaults /\ faults' = faults + 1

\* A sibling service, the embedder or the database fails an ingest.  The
\* consumer tries again and in the end dead-letters the message; the backfill
\* counts the restaurant as failed.
IngestFails(t) ==
    /\ Busy(t) /\ Fault
    /\ IF t = "events" /\ ingest[t].attempt < IngestAttempts
         THEN /\ ingest' = [ingest EXCEPT ![t] = [Idle EXCEPT !.step = "check",
                                                              !.attempt = ingest[t].attempt + 1]]
              /\ UNCHANGED deadLetters
         ELSE /\ Done(t)
              /\ deadLetters' = IF t = "events" THEN deadLetters \cup {Message} ELSE deadLetters
    /\ UNCHANGED <<storeVars, documents, processed, committed, overlapped>>

\* _startup_backfill: the menus cannot be listed.
ListingFails ==
    /\ ingest["backfill"].step = "list" /\ Fault
    /\ ingest' = [ingest EXCEPT !["backfill"] =
                    IF @.attempt < BackfillAttempts THEN [@ EXCEPT !.attempt = @ + 1] ELSE Idle]
    /\ UNCHANGED <<storeVars, documents, processed, deadLetters, committed, overlapped>>

\* A commit, or a send to the DLQ, meets a Kafka error: a new consumer starts
\* from the offset.
Reconnect ==
    /\ ingest["events"].step = "commit" /\ Fault
    /\ Goes("events", "idle")
    /\ UNCHANGED <<storeVars, documents, processed, deadLetters, committed, overlapped>>

\* The worker dies and comes back: no ingest of the old process goes on, the
\* consumer starts from the offset, and the menus are gone through once more.
Restart ==
    /\ Fault
    /\ ingest' = [t \in Ingesters |-> IF t = "backfill" THEN [Idle EXCEPT !.step = "list"]
                                                        ELSE Idle]
    /\ UNCHANGED <<storeVars, documents, processed, deadLetters, committed, overlapped>>

Ingesting(t) == CheckProcessed(t) \/ ReadMenu(t) \/ CompareStored(t) \/ Apply(t)

Next ==
    \/ StoreNext /\ UNCHANGED ingestVars
    \/ Deliver \/ ListPublished \/ Commit
    \/ \E t \in Ingesters : Ingesting(t) \/ IngestFails(t)
    \/ ListingFails \/ Reconnect \/ Restart

\* Requests end, Redis forgets, and the worker's two loops go on.
Fairness ==
    /\ \A p \in Publishers : WF_vars((Invalidate(p) \/ AnnouncePublished(p)) /\ UNCHANGED ingestVars)
    /\ \A r \in Readers : WF_vars((LoadLevel(r) \/ StoreCopy(r)) /\ UNCHANGED ingestVars)
    /\ WF_vars(Expire /\ UNCHANGED ingestVars)
    /\ WF_vars(Deliver \/ Commit \/ Ingesting("events"))
    /\ WF_vars(ListPublished \/ Ingesting("backfill"))

IngestionSpec == IngestionInit /\ [][Next]_vars /\ Fairness

-----------------------------------------------------------------------------
\* An event is marked as processed only by an ingest that read the publish it
\* tells of, or a later one, whatever copy readers were shown meanwhile.
ProcessedWasSeen ==
    \A v \in 1..MaxVersions : processed[v] # 0 => processed[v] >= v

\* Nothing is left to be ingested: every message is handled and both threads rest.
AtRest == committed = Len(topic) /\ \A t \in Ingesters : ingest[t].step = "idle"

\* Search at rest tells the current menu, if the menu's event arrived and was
\* not dead-lettered and no two ingests ever ran side by side: torn reads,
\* retries, repeats and restarts leave no wrong or missing document behind.
RestingIndexIsCurrent ==
    AtRest /\ ~overlapped /\ processed[version] # 0
        => documents = ChunksOf(Whole(version))
=============================================================================
