----------------------------- MODULE MenuProofs -----------------------------
(***************************************************************************)
(* Proofs about menus and their ingestion, for a tree of any depth and any *)
(* number of publishes, readers, retries and restarts: no read puts two    *)
(* publishes together, no event is marked as done by an ingest that read   *)
(* an older menu than it tells of, and the index is left telling the       *)
(* current menu.                                                           *)
(***************************************************************************)
EXTENDS MenuIngestion, TLAPS

-----------------------------------------------------------------------------
(* What one more query adds to a read.                                     *)

LEMMA OneMoreLevel ==
    ASSUME version \in Nat \ {0}, NEW t \in Seq(Nat), OfOnePublish(t)
    PROVE  /\ Append(t, RowsBelow(t)) \in Seq(Nat)
           /\ OfOnePublish(Append(t, RowsBelow(t)))
<1> DEFINE n == Len(t)
           u == Append(t, RowsBelow(t))
<1>1. n \in Nat /\ RowsBelow(t) \in Nat
  BY DEF RowsBelow
<1>2. /\ u \in Seq(Nat) /\ Len(u) = n + 1 /\ u[n + 1] = RowsBelow(t)
      /\ \A i \in 1..n : u[i] = t[i]
  BY <1>1
<1>3. CASE n = 0
  BY <1>2, <1>3 DEF OfOnePublish
<1>4. CASE n > 0
  <2>1. t # NoCopy
    BY <1>4 DEF NoCopy
  <2>2. CASE t[n] = version
    <3>1. t[n] = t[1]
      BY <1>1, <1>4, <2>2 DEF OfOnePublish
    <3>2. \A i \in 1..n : t[i] = t[1]
      BY <1>1, <1>4, <2>2 DEF OfOnePublish
    <3>3. u[n + 1] = u[1]
      BY <1>2, <1>4, <2>1, <2>2, <3>1 DEF RowsBelow
    <3>4. QED
      BY <1>1, <1>2, <1>4, <3>2, <3>3 DEF OfOnePublish
  <2>3. CASE t[n] # version
    <3>1. u[n + 1] = 0
      BY <1>2, <2>1, <2>3 DEF RowsBelow
    <3>2. QED
      BY <1>1, <1>2, <1>4, <3>1 DEF OfOnePublish
  <2>4. QED
    BY <2>2, <2>3
<1>5. QED
  BY <1>1, <1>2, <1>3, <1>4

-----------------------------------------------------------------------------
(* The store.                                                              *)

\* Reads and the copy are sequences of publishes' numbers, each of one publish.
ReadInv ==
    /\ version \in Nat \ {0}
    /\ reading \in [Readers \cup Ingesters -> Seq(Nat)]
    /\ cache \in Seq(Nat)
    /\ NeverMixed

\* A step of a read, of whoever reads.
Reads(r) == BeginRead(r) \/ LoadLevel(r)

LEMMA ReadsKeep ==
    ASSUME ReadInv, NEW r \in Readers \cup Ingesters, Reads(r)
    PROVE  ReadInv'
<1>1. reading' = [reading EXCEPT ![r] = Append(@, RowsBelow(@))] /\ UNCHANGED <<version, cache>>
  BY DEF Reads, BeginRead, LoadLevel
<1>2. OfOnePublish(reading[r])
  BY DEF ReadInv, NeverMixed
<1>3. /\ Append(reading[r], RowsBelow(reading[r])) \in Seq(Nat)
      /\ OfOnePublish(Append(reading[r], RowsBelow(reading[r])))
  BY <1>2, OneMoreLevel DEF ReadInv
<1>4. ASSUME NEW t, t = Append(reading[r], RowsBelow(reading[r]))
      PROVE  ReadInv'
  <2>1. /\ reading' = [reading EXCEPT ![r] = t] /\ t \in Seq(Nat) /\ OfOnePublish(t)
        /\ reading \in [Readers \cup Ingesters -> Seq(Nat)]
    BY <1>1, <1>3, <1>4 DEF ReadInv
  <2>2. /\ reading' \in [Readers \cup Ingesters -> Seq(Nat)]
        /\ reading'[r] = t /\ \A q \in DOMAIN reading' \ {r} : reading'[q] = reading[q]
        /\ DOMAIN reading' = DOMAIN reading
    BY <2>1
  <2>3. \A q \in DOMAIN reading' : OfOnePublish(reading'[q])
    BY <2>1, <2>2 DEF ReadInv, NeverMixed
  <2>4. QED
    BY <1>1, <2>2, <2>3 DEF ReadInv, NeverMixed
<1>5. QED
  BY <1>4

LEMMA StoreStep ==
    ASSUME ReadInv, [StoreNext]_storeVars
    PROVE  ReadInv'
<1> USE DEF ReadInv, NeverMixed, NoCopy
<1>1. CASE UNCHANGED storeVars
  BY <1>1 DEF storeVars, OfOnePublish
<1>2. ASSUME NEW p \in Publishers, PublishStep(p) PROVE ReadInv'
  <2>1. /\ version' \in {version, version + 1} /\ UNCHANGED reading
        /\ cache' \in {cache, <<>>}
    BY <1>2 DEF PublishStep, Upsert, Invalidate, AnnouncePublished
  <2>2. OfOnePublish(<<>>)
    BY DEF OfOnePublish
  <2>3. OfOnePublish(cache') /\ cache' \in Seq(Nat)
    <3>1. CASE cache' = cache
      BY <3>1
    <3>2. CASE cache' = <<>>
      BY <2>2, <3>2
    <3>3. QED
      BY <2>1, <3>1, <3>2
  <2>4. QED
    BY <2>1, <2>3
<1>3. ASSUME NEW r \in Readers, Reads(r) PROVE ReadInv'
  BY <1>3, ReadsKeep
<1>4. ASSUME NEW r \in Readers, StoreCopy(r) PROVE ReadInv'
  <2>1. /\ cache' \in {cache, reading[r]} /\ UNCHANGED version
        /\ reading' = [reading EXCEPT ![r] = <<>>]
    BY <1>4 DEF StoreCopy
  <2>2. OfOnePublish(<<>>)
    BY DEF OfOnePublish
  <2>3. OfOnePublish(cache') /\ cache' \in Seq(Nat)
    BY <2>1
  <2>4. QED
    BY <2>1, <2>2, <2>3
<1>5. CASE Expire
  BY <1>5 DEF Expire, OfOnePublish
<1>6. QED
  BY <1>1, <1>2, <1>3, <1>4, <1>5 DEF StoreNext, Reads

LEMMA ReadInvInit == MenuInit => ReadInv
  BY DEF MenuInit, ReadInv, NeverMixed, OfOnePublish, NoCopy

\* Whatever publishes fall between the queries of whatever reads, nobody is shown
\* a menu put together from two of them.
THEOREM MenusAreNeverMixed == StoreSpec => []NeverMixed
<1>1. ReadInv => NeverMixed
  BY DEF ReadInv
<1>2. QED
  BY <1>1, ReadInvInit, StoreStep, PTL DEF StoreSpec

\* The same of the readers beside the ingestion worker, and of the worker.
LEMMA IngestionReadStep ==
    ASSUME ReadInv, [Next]_vars
    PROVE  ReadInv'
<1>1. CASE [StoreNext]_storeVars
  BY <1>1, StoreStep
<1>2. ASSUME NEW t \in Ingesters, ReadMenu(t) PROVE ReadInv'
  BY <1>2, ReadsKeep DEF ReadMenu, Reads
<1>3. ASSUME NEW t \in Ingesters, CheckProcessed(t) PROVE ReadInv'
  <2>1. OfOnePublish(<<>>)
    BY DEF OfOnePublish
  <2>2. /\ reading' \in {reading, [reading EXCEPT ![t] = <<>>]}
        /\ UNCHANGED <<version, cache>>
    BY <1>3 DEF CheckProcessed, NoCopy
  <2>3. CASE reading' = reading
    BY <2>2, <2>3 DEF ReadInv, NeverMixed
  <2>4. CASE reading' = [reading EXCEPT ![t] = <<>>]
    BY <2>1, <2>2, <2>4 DEF ReadInv, NeverMixed
  <2>5. QED
    BY <2>2, <2>3, <2>4
<1>4. ASSUME NEW t \in Ingesters, CompareStored(t) \/ Apply(t) \/ IngestFails(t)
      PROVE  UNCHANGED storeVars
  BY <1>4 DEF CompareStored, Apply, IngestFails
<1>5. ASSUME Deliver \/ ListPublished \/ Commit \/ ListingFails \/ Reconnect \/ Restart
      PROVE  UNCHANGED storeVars
  BY <1>5 DEF Deliver, ListPublished, Commit, ListingFails, Reconnect, Restart
<1>6. QED
  BY <1>1, <1>2, <1>3, <1>4, <1>5 DEF Next, Ingesting, vars

THEOREM IngestedMenusAreNeverMixed == IngestionSpec => []NeverMixed
<1>1. ReadInv => NeverMixed
  BY DEF ReadInv
<1>2. QED
  BY <1>1, ReadInvInit, IngestionReadStep, PTL DEF IngestionSpec, IngestionInit

-----------------------------------------------------------------------------
(* The ingestion worker.                                                   *)

\* Every event, sent or still to be sent, tells of a publish that has been made.
ToldInv ==
    /\ publish \in [Publishers -> [step : {"idle", "invalidate", "announce"}, version : Nat]]
    /\ \A p \in Publishers : publish[p].version <= version
    /\ topic \in Seq(Nat)
    /\ \A i \in 1..Len(topic) : topic[i] <= version

\* The shape of the threads' states, as far as the proof needs it.
ThreadsInv ==
    /\ ingest = [t \in Ingesters |-> ingest[t]]
    /\ \A t \in Ingesters :
          ingest[t] = [step |-> ingest[t].step, attempt |-> ingest[t].attempt,
                       change |-> ingest[t].change]

\* The menu the consumer has in hand was read after its event was sent.
HandInv ==
    LET e == "events"
    IN  /\ committed \in Nat
        /\ Busy(e) => committed + 1 \in 1..Len(topic)
        /\ ingest[e].step = "apply" => reading[e] # NoCopy
        /\ ingest[e].step \in {"read", "apply"} /\ reading[e] # NoCopy
              => reading[e][1] >= Message

SeenInv ==
    /\ processed = [v \in 1..MaxVersions |-> processed[v]]
    /\ \A v \in 1..MaxVersions : processed[v] \in Nat
    /\ ProcessedWasSeen

IngestInv == ReadInv /\ ToldInv /\ ThreadsInv /\ HandInv /\ SeenInv

\* A step of the store leaves the consumer's message and its read alone, or
\* the read begins, or goes on.
LEMMA ToldStep ==
    ASSUME ReadInv, ToldInv, [StoreNext]_storeVars
    PROVE  /\ ToldInv'
           /\ Len(topic') >= Len(topic)
           /\ \A i \in 1..Len(topic) : topic'[i] = topic[i]
<1> USE DEF ToldInv, ReadInv
<1>1. ASSUME UNCHANGED <<version, publish, topic>>
      PROVE  /\ ToldInv'
             /\ Len(topic') >= Len(topic)
             /\ \A i \in 1..Len(topic) : topic'[i] = topic[i]
  BY <1>1
<1>2. ASSUME NEW p \in Publishers, Upsert(p)
      PROVE  /\ ToldInv'
             /\ Len(topic') >= Len(topic)
             /\ \A i \in 1..Len(topic) : topic'[i] = topic[i]
  BY <1>2 DEF Upsert
<1>3. ASSUME NEW p \in Publishers, Invalidate(p)
      PROVE  /\ ToldInv'
             /\ Len(topic') >= Len(topic)
             /\ \A i \in 1..Len(topic) : topic'[i] = topic[i]
  BY <1>3 DEF Invalidate
<1>4. ASSUME NEW p \in Publishers, AnnouncePublished(p)
      PROVE  /\ ToldInv'
             /\ Len(topic') >= Len(topic)
             /\ \A i \in 1..Len(topic) : topic'[i] = topic[i]
  <2>1. publish[p].version \in Nat /\ publish[p].version <= version
    OBVIOUS
  <2>2. /\ publish' = [publish EXCEPT ![p].step = "idle"] /\ UNCHANGED version
        /\ topic' \in {topic, Append(topic, publish[p].version)}
    BY <1>4 DEF AnnouncePublished
  <2>3. /\ publish' \in [Publishers -> [step : {"idle", "invalidate", "announce"}, version : Nat]]
        /\ \A q \in Publishers : publish'[q].version <= version'
    BY <2>2
  <2>4. /\ topic' \in Seq(Nat) /\ Len(topic') >= Len(topic)
        /\ \A i \in 1..Len(topic) : topic'[i] = topic[i]
        /\ \A i \in 1..Len(topic') : topic'[i] <= version'
    <3>1. CASE topic' = topic
      BY <2>2, <3>1
    <3>2. CASE topic' = Append(topic, publish[p].version)
      BY <2>1, <2>2, <3>2
    <3>3. QED
      BY <2>2, <3>1, <3>2
  <2>5. QED
    BY <2>3, <2>4
<1>5. ASSUME \/ \E r \in Readers : BeginRead(r) \/ LoadLevel(r) \/ StoreCopy(r)
             \/ Expire \/ UNCHANGED storeVars
      PROVE  UNCHANGED <<version, publish, topic>>
  BY <1>5 DEF BeginRead, LoadLevel, StoreCopy, Expire, storeVars
<1>6. QED
  BY <1>1, <1>2, <1>3, <1>4, <1>5 DEF StoreNext, PublishStep

LEMMA HandStays ==
    ASSUME HandInv, Len(topic) \in Nat, Len(topic') \in Nat, Len(topic') >= Len(topic),
           \A i \in 1..Len(topic) : topic'[i] = topic[i],
           committed' = committed, ingest'["events"] = ingest["events"],
           reading'["events"] = reading["events"]
    PROVE  HandInv'
<1>1. Busy("events")' <=> Busy("events")
  BY DEF Busy
<1>2. committed + 1 \in 1..Len(topic) =>
         /\ committed' + 1 \in 1..Len(topic')
         /\ Message' = Message
  BY DEF Message, HandInv
<1>3. ingest["events"].step \in {"read", "apply"} => committed + 1 \in 1..Len(topic)
  BY DEF HandInv, Busy
<1>4. QED
  BY <1>1, <1>2, <1>3 DEF HandInv

LEMMA HandStoreStep ==
    ASSUME IngestInv, [StoreNext]_storeVars, UNCHANGED ingestVars
    PROVE  HandInv'
<1>1. /\ Len(topic') >= Len(topic) /\ Len(topic') \in Nat /\ Len(topic) \in Nat
      /\ \A i \in 1..Len(topic) : topic'[i] = topic[i]
  BY ToldStep DEF IngestInv, ToldInv
<1>2. reading'["events"] = reading["events"]
  <2>1. "events" \notin Readers /\ "events" \in Ingesters
    BY IngestionAssumption
  <2>2. QED
    BY <2>1 DEF StoreNext, PublishStep, Upsert, Invalidate, AnnouncePublished, BeginRead,
                LoadLevel, StoreCopy, Expire, storeVars, IngestInv, ReadInv
<1>3. QED
  BY <1>1, <1>2, HandStays DEF ingestVars, IngestInv

\* The other thread's steps leave the consumer alone.
LEMMA HandAside ==
    ASSUME IngestInv, UNCHANGED <<topic, committed>>, ingest'["events"] = ingest["events"],
           reading'["events"] = reading["events"]
    PROVE  HandInv'
  BY HandStays DEF IngestInv, ToldInv

\* What a mark writes: the number of a publish no older than the message's.
LEMMA MarkStep ==
    ASSUME IngestInv, NEW t \in Ingesters, NEW v \in Nat, Marks(t, v),
           t = "events" => v >= Message
    PROVE  SeenInv'
  BY DEF Marks, SeenInv, ProcessedWasSeen, IngestInv

LEMMA ThreadsStep ==
    ASSUME IngestInv, [Next]_vars
    PROVE  ThreadsInv'
<1> USE IngestionAssumption DEF IngestInv, ThreadsInv, Idle
<1>1. CASE UNCHANGED ingest
  BY <1>1
<1>2. ASSUME NEW t \in Ingesters, NEW s, Goes(t, s) PROVE ThreadsInv'
  BY <1>2 DEF Goes
<1>3. ASSUME NEW t \in Ingesters, Done(t) PROVE ThreadsInv'
  BY <1>3 DEF Done
<1>4. ASSUME NEW t \in Ingesters, CompareStored(t) PROVE ThreadsInv'
  <2>1. CASE Done(t)
    BY <1>3, <2>1
  <2>2. CASE ingest' = [ingest EXCEPT ![t].step = "apply", ![t].change = Changes(reading[t])]
    BY <2>2
  <2>3. QED
    BY <1>4, <2>1, <2>2 DEF CompareStored
<1>5. ASSUME NEW t \in Ingesters, IngestFails(t) PROVE ThreadsInv'
  <2>1. CASE Done(t)
    BY <1>3, <2>1
  <2>2. CASE ingest' = [ingest EXCEPT ![t] = [Idle EXCEPT !.step = "check",
                                                        !.attempt = ingest[t].attempt + 1]]
    BY <2>2
  <2>3. QED
    BY <1>5, <2>1, <2>2 DEF IngestFails
<1>6. CASE ListPublished
  BY <1>6 DEF ListPublished
<1>7. CASE ListingFails
  BY <1>7 DEF ListingFails
<1>8. CASE Restart
  BY <1>8 DEF Restart
<1>9. ASSUME NEW t \in Ingesters, CheckProcessed(t) PROVE ThreadsInv'
  BY <1>2, <1>3, <1>9 DEF CheckProcessed
<1>10. ASSUME NEW t \in Ingesters, Apply(t) PROVE ThreadsInv'
  BY <1>3, <1>10 DEF Apply
<1>11. CASE Deliver \/ Commit \/ Reconnect
  BY <1>2, <1>11 DEF Deliver, Commit, Reconnect
<1>12. ASSUME \/ StoreNext /\ UNCHANGED ingestVars
              \/ \E t \in Ingesters : ReadMenu(t)
              \/ UNCHANGED vars
       PROVE  UNCHANGED ingest
  BY <1>12 DEF ReadMenu, vars, ingestVars
<1>13. QED
  BY <1>1, <1>4, <1>5, <1>6, <1>7, <1>8, <1>9, <1>10, <1>11, <1>12 DEF Next, Ingesting

LEMMA HandStep ==
    ASSUME IngestInv, [Next]_vars
    PROVE  HandInv'
<1> DEFINE e == "events"
<1> USE IngestionAssumption
<1>1. Len(topic) \in Nat /\ committed \in Nat /\ e \in Ingesters
  BY DEF IngestInv, ToldInv, HandInv
<1>2. CASE StoreNext /\ UNCHANGED ingestVars
  BY <1>2, HandStoreStep
<1>3. CASE UNCHANGED vars
  BY <1>3, HandAside DEF vars, storeVars, ingestVars
<1>4. CASE Deliver
  <2>1. ingest'[e].step = "check" /\ committed + 1 \in 1..Len(topic)
    BY <1>1, <1>4 DEF Deliver, Goes, IngestInv, ThreadsInv
  <2>2. QED
    BY <1>1, <1>4, <2>1 DEF Deliver, HandInv, Busy, storeVars
<1>5. CASE Commit \/ Reconnect \/ Restart
  <2>1. ingest'[e].step = "idle"
    BY <1>1, <1>5 DEF Commit, Reconnect, Restart, Goes, Idle, IngestInv, ThreadsInv
  <2>2. committed' \in Nat
    BY <1>1, <1>5 DEF Commit, Reconnect, Restart
  <2>3. QED
    BY <2>1, <2>2 DEF HandInv, Busy
<1>6. CASE ListPublished \/ ListingFails
  <2>1. ingest'[e] = ingest[e]
    BY <1>1, <1>6 DEF ListPublished, ListingFails, IngestInv, ThreadsInv
  <2>2. QED
    BY <1>6, <2>1, HandAside DEF ListPublished, ListingFails, storeVars
<1>7. ASSUME NEW t \in Ingesters \ {e}, Ingesting(t) \/ IngestFails(t) PROVE HandInv'
  <2>1. ingest'[e] = ingest[e]
    BY <1>1, <1>7 DEF Ingesting, CheckProcessed, ReadMenu, CompareStored, Apply, IngestFails,
                      Done, Goes, ingestVars, IngestInv, ThreadsInv
  <2>2. reading'[e] = reading[e]
    BY <1>1, <1>7 DEF Ingesting, CheckProcessed, ReadMenu, CompareStored, Apply, IngestFails,
                      BeginRead, LoadLevel, storeVars, IngestInv, ReadInv
  <2>3. UNCHANGED <<topic, committed>>
    BY <1>7 DEF Ingesting, CheckProcessed, ReadMenu, CompareStored, Apply, IngestFails,
                BeginRead, LoadLevel, storeVars, ingestVars
  <2>4. QED
    BY <2>1, <2>2, <2>3, HandAside
<1>8. ASSUME Done(e) PROVE ~Busy(e)'
  BY <1>1, <1>8 DEF Done, Busy, Idle, IngestInv, ThreadsInv
<1>9. ASSUME Done(e), UNCHANGED committed PROVE HandInv'
  BY <1>1, <1>8, <1>9 DEF HandInv, Busy
<1>10. CASE CheckProcessed(e)
  <2>1. CASE Done(e)
    BY <1>9, <1>10, <2>1 DEF CheckProcessed
  <2>2. CASE Goes(e, "read") /\ reading' = [reading EXCEPT ![e] = NoCopy]
    <3>1. ingest'[e].step = "read" /\ reading'[e] = NoCopy
      BY <1>1, <2>2 DEF Goes, IngestInv, ThreadsInv, ReadInv
    <3>2. committed + 1 \in 1..Len(topic) /\ UNCHANGED <<committed, topic>>
      BY <1>10 DEF CheckProcessed, IngestInv, HandInv, Busy
    <3>3. QED
      BY <1>1, <3>1, <3>2 DEF HandInv, Busy
  <2>3. QED
    BY <1>10, <2>1, <2>2 DEF CheckProcessed
<1>11. CASE ReadMenu(e)
  <2>1. /\ ingest' = ingest /\ UNCHANGED <<committed, topic>> /\ ingest[e].step = "read"
        /\ reading' = [reading EXCEPT ![e] = Append(@, RowsBelow(@))]
    BY <1>11 DEF ReadMenu, BeginRead, LoadLevel, ingestVars
  <2>2. committed + 1 \in 1..Len(topic)
    BY <2>1 DEF IngestInv, HandInv, Busy
  <2>3. reading[e] \in Seq(Nat) /\ RowsBelow(reading[e]) \in Nat
    BY <1>1 DEF IngestInv, ReadInv, RowsBelow
  <2>4. reading'[e] = Append(reading[e], RowsBelow(reading[e]))
    BY <1>1, <2>1 DEF IngestInv, ReadInv
  <2>5. reading'[e][1] >= Message
    <3>1. CASE reading[e] = NoCopy
      <4>1. RowsBelow(reading[e]) = version
        BY <3>1 DEF RowsBelow
      <4>2. reading'[e][1] = version
        BY <2>3, <2>4, <3>1, <4>1 DEF NoCopy
      <4>3. QED
        BY <2>2, <4>2 DEF Message, IngestInv, ToldInv, ReadInv
    <3>2. CASE reading[e] # NoCopy
      <4>1. reading'[e][1] = reading[e][1]
        BY <2>3, <2>4, <3>2 DEF NoCopy
      <4>2. QED
        BY <2>1, <3>2, <4>1 DEF IngestInv, HandInv
    <3>3. QED
      BY <3>1, <3>2
  <2>6. Message' = Message
    BY <2>1 DEF Message
  <2>7. QED
    BY <1>1, <2>1, <2>2, <2>5, <2>6 DEF HandInv, Busy
<1>12. CASE CompareStored(e)
  <2>1. CASE Done(e)
    BY <1>9, <1>12, <2>1 DEF CompareStored
  <2>2. CASE ingest' = [ingest EXCEPT ![e].step = "apply", ![e].change = Changes(reading[e])]
    <3>1. /\ ingest'[e].step = "apply" /\ UNCHANGED <<reading, topic, committed>>
          /\ ingest[e].step = "read" /\ Len(reading[e]) = Levels
      BY <1>1, <1>12, <2>2 DEF CompareStored, storeVars, IngestInv, ThreadsInv
    <3>2. reading[e] # NoCopy
      BY <3>1, MenuAssumption DEF NoCopy
    <3>3. committed + 1 \in 1..Len(topic) /\ reading[e][1] >= Message /\ Message' = Message
      BY <3>1, <3>2 DEF IngestInv, HandInv, Busy, Message
    <3>4. QED
      BY <1>1, <3>1, <3>2, <3>3 DEF HandInv, Busy
  <2>3. QED
    BY <1>12, <2>1, <2>2 DEF CompareStored
<1>13. CASE Apply(e)
  BY <1>9, <1>13 DEF Apply
<1>14. CASE IngestFails(e)
  <2>1. CASE Done(e)
    BY <1>9, <1>14, <2>1 DEF IngestFails
  <2>2. CASE ingest' = [ingest EXCEPT ![e] = [Idle EXCEPT !.step = "check",
                                                        !.attempt = ingest[e].attempt + 1]]
    <3>1. ingest'[e].step = "check"
      BY <1>1, <2>2 DEF Idle, IngestInv, ThreadsInv
    <3>2. committed + 1 \in 1..Len(topic) /\ UNCHANGED <<committed, topic>>
      BY <1>14 DEF IngestFails, IngestInv, HandInv, storeVars
    <3>3. QED
      BY <1>1, <3>1, <3>2 DEF HandInv, Busy
  <2>3. QED
    BY <1>14, <2>1, <2>2 DEF IngestFails
<1>15. QED
  BY <1>2, <1>3, <1>4, <1>5, <1>6, <1>7, <1>10, <1>11, <1>12, <1>13, <1>14 DEF Next, Ingesting

LEMMA SeenStep ==
    ASSUME IngestInv, [Next]_vars
    PROVE  SeenInv'
<1>1. CASE UNCHANGED processed
  BY <1>1 DEF IngestInv, SeenInv, ProcessedWasSeen
<1>2. ASSUME NEW t \in Ingesters, reading[t] # NoCopy, Marks(t, reading[t][1]),
             ingest[t].step \in {"read", "apply"}
      PROVE  SeenInv'
  <2>1. reading[t] \in Seq(Nat) /\ reading[t][1] \in Nat
    BY <1>2 DEF IngestInv, ReadInv, NoCopy
  <2>2. ASSUME t = "events"
        PROVE  reading[t][1] >= Message
    BY <1>2, <2>2 DEF IngestInv, HandInv
  <2>3. QED
    BY <1>2, <2>1, <2>2, MarkStep
<1>3. ASSUME NEW t \in Ingesters, CompareStored(t) PROVE SeenInv'
  <2>1. reading[t] # NoCopy
    BY <1>3, MenuAssumption DEF CompareStored, NoCopy
  <2>2. QED
    BY <1>1, <1>2, <1>3, <2>1 DEF CompareStored
<1>4. ASSUME NEW t \in Ingesters, Apply(t) PROVE SeenInv'
  <2>1. CASE t = "events"
    BY <1>2, <1>4, <2>1 DEF Apply, IngestInv, HandInv
  <2>2. CASE t # "events"
    BY <1>1, <1>4, <2>2 DEF Apply, Marks
  <2>3. QED
    BY <2>1, <2>2
<1>5. ASSUME NEW t \in Ingesters, CheckProcessed(t) \/ ReadMenu(t) \/ IngestFails(t)
      PROVE  UNCHANGED processed
  BY <1>5 DEF CheckProcessed, ReadMenu, IngestFails, ingestVars
<1>6. ASSUME \/ StoreNext /\ UNCHANGED ingestVars
             \/ Deliver \/ ListPublished \/ Commit \/ ListingFails \/ Reconnect \/ Restart
             \/ UNCHANGED vars
      PROVE  UNCHANGED processed
  BY <1>6 DEF Deliver, ListPublished, Commit, ListingFails, Reconnect, Restart, vars, ingestVars
<1>7. QED
  BY <1>1, <1>3, <1>4, <1>5, <1>6 DEF Next, Ingesting

LEMMA ToldIngestStep ==
    ASSUME IngestInv, [Next]_vars
    PROVE  ToldInv'
<1>1. CASE [StoreNext]_storeVars
  BY <1>1, ToldStep DEF IngestInv
<1>2. ASSUME UNCHANGED <<version, publish, topic>> PROVE ToldInv'
  BY <1>2 DEF IngestInv, ToldInv
<1>3. ASSUME NEW t \in Ingesters, Ingesting(t) \/ IngestFails(t)
      PROVE  UNCHANGED <<version, publish, topic>>
  BY <1>3 DEF Ingesting, CheckProcessed, ReadMenu, BeginRead, LoadLevel, CompareStored, Apply,
              IngestFails, storeVars
<1>4. ASSUME Deliver \/ ListPublished \/ Commit \/ ListingFails \/ Reconnect \/ Restart
      PROVE  UNCHANGED storeVars
  BY <1>4 DEF Deliver, ListPublished, Commit, ListingFails, Reconnect, Restart
<1>5. QED
  BY <1>1, <1>2, <1>3, <1>4 DEF Next, vars

LEMMA IngestInvariant == IngestionSpec => []IngestInv
<1>1. IngestionInit => IngestInv
  <2> SUFFICES ASSUME IngestionInit PROVE IngestInv
    OBVIOUS
  <2> USE IngestionAssumption, MenuAssumption
  <2>1. ReadInv
    BY ReadInvInit DEF IngestionInit
  <2>2. ToldInv
    BY DEF IngestionInit, MenuInit, ToldInv
  <2>3. ThreadsInv
    BY DEF IngestionInit, ThreadsInv, Idle
  <2>4. HandInv
    BY DEF IngestionInit, HandInv, Busy, Idle
  <2>5. SeenInv
    BY DEF IngestionInit, SeenInv, ProcessedWasSeen
  <2>6. QED
    BY <2>1, <2>2, <2>3, <2>4, <2>5 DEF IngestInv
<1>2. IngestInv /\ [Next]_vars => IngestInv'
  BY IngestionReadStep, ToldIngestStep, ThreadsStep, HandStep, SeenStep DEF IngestInv
<1>3. QED
  BY <1>1, <1>2, PTL DEF IngestionSpec

\* Whatever fails, is repeated or restarts, and whatever copy readers are shown,
\* an event is done only when its own publish, or a later one, was read.
THEOREM EventsAreSeenBeforeDone == IngestionSpec => []ProcessedWasSeen
<1>1. IngestInv => ProcessedWasSeen
  BY DEF IngestInv, SeenInv
<1>2. QED
  BY <1>1, IngestInvariant, PTL

-----------------------------------------------------------------------------
(* The index.                                                              *)

\* A read holds rows of no later publish than the current one; if it began with
\* the current one's, it has no others.
ReadingFits(t) ==
    /\ \A i \in 1..Len(reading[t]) : reading[t][i] <= version
    /\ reading[t] # NoCopy /\ reading[t][1] = version
          => \A i \in 1..Len(reading[t]) : reading[t][i] = version
    /\ ingest[t].step = "apply" => Len(reading[t]) = Levels

\* The index tells the current menu, and whoever is about to write has read it.
IndexTells ==
    /\ documents = ChunksOf(Whole(version))
    /\ \A t \in Ingesters :
          ingest[t].step \in {"read", "apply"} /\ reading[t] # NoCopy => reading[t][1] = version

\* As long as no two ingests have been under way at once.
AloneInv ==
    /\ \A s, t \in Ingesters : Busy(s) /\ Busy(t) => s = t
    /\ \A t \in Ingesters : ingest[t].step = "apply" => ingest[t].change = Changes(reading[t])
    /\ processed[version] # 0 => IndexTells

IndexInv ==
    /\ version \in 1..MaxVersions
    /\ \A v \in 1..MaxVersions : v > version => processed[v] = 0
    /\ \A t \in Ingesters : ReadingFits(t)
    /\ ~overlapped => AloneInv

\* Steps that write neither the index nor a mark and take no read further.
LEMMA AsideStep ==
    ASSUME IndexInv, UNCHANGED <<version, documents, processed>>,
           \A t \in Ingesters :
              \/ ingest'[t] = ingest[t] /\ reading'[t] = reading[t]
              \/ ingest'[t].step \notin {"read", "apply"} /\ reading'[t] = reading[t]
              \/ ingest'[t].step = "read" /\ reading'[t] = NoCopy,
           ~overlapped' => ~overlapped /\ \A s, t \in Ingesters : Busy(s)' /\ Busy(t)' => s = t
    PROVE  IndexInv'
<1>1. ASSUME NEW t \in Ingesters PROVE ReadingFits(t)'
  <2>1. ReadingFits(t)
    BY DEF IndexInv
  <2>2. CASE reading'[t] = reading[t]
    BY <2>1, <2>2 DEF ReadingFits, NoCopy
  <2>3. CASE reading'[t] = NoCopy /\ ingest'[t].step = "read"
    BY <2>3 DEF ReadingFits, NoCopy
  <2>4. QED
    BY <2>2, <2>3
<1>2. ASSUME ~overlapped' PROVE AloneInv'
  <2>1. AloneInv
    BY <1>2 DEF IndexInv
  <2>2. \A t \in Ingesters : ingest'[t].step = "apply" =>
           ingest'[t].change = Changes(reading[t]) /\ reading'[t] = reading[t]
    BY <2>1 DEF AloneInv
  <2>3. \A t \in Ingesters : Changes(reading[t])' = Changes(reading'[t])
    BY DEF Changes
  <2>4. \A t \in Ingesters : ingest'[t].step = "apply" => ingest'[t].change = Changes(reading[t])'
    <3>1. \A t \in Ingesters : reading'[t] = reading[t] => Changes(reading[t])' = Changes(reading[t])
      BY DEF Changes, ChunksOf
    <3>2. QED
      BY <2>2, <3>1
  <2>5. processed'[version'] # 0 => IndexTells'
    BY ZenonT(60), <2>1 DEF AloneInv, IndexTells, ChunksOf, Whole
  <2>6. QED
    BY <1>2, <2>4, <2>5 DEF AloneInv
<1>3. QED
  BY <1>1, <1>2 DEF IndexInv

LEMMA StoreIndexStep ==
    ASSUME IngestInv, IndexInv, StoreNext, UNCHANGED ingestVars
    PROVE  IndexInv'
<1>1. \A t \in Ingesters : reading'[t] = reading[t]
  BY IngestionAssumption
     DEF StoreNext, PublishStep, Upsert, Invalidate, AnnouncePublished, BeginRead,
         LoadLevel, StoreCopy, Expire, IngestInv, ReadInv
<1>2. UNCHANGED <<ingest, documents, processed, overlapped>>
  BY DEF ingestVars
<1>3. version' = version \/ (version' = version + 1 /\ version < MaxVersions)
  BY DEF StoreNext, PublishStep, Upsert, Invalidate, AnnouncePublished, BeginRead,
         LoadLevel, StoreCopy, Expire
<1>4. CASE version' = version
  BY <1>1, <1>2, <1>4, AsideStep DEF IndexInv, AloneInv, Busy
<1>5. CASE version' = version + 1 /\ version < MaxVersions
  <2>1. version' \in 1..MaxVersions /\ version \in Nat /\ MaxVersions \in Nat
    BY <1>5, MenuAssumption DEF IndexInv
  <2>2. processed'[version'] = 0 /\ \A v \in 1..MaxVersions : v > version' => processed'[v] = 0
    BY <1>2, <1>5, <2>1 DEF IndexInv
  <2>3. ASSUME NEW t \in Ingesters PROVE ReadingFits(t)'
    <3>1. ReadingFits(t) /\ reading[t] \in Seq(Nat)
      BY DEF IndexInv, IngestInv, ReadInv
    <3>2. reading[t] # NoCopy => 1 \in 1..Len(reading[t])
      BY <3>1 DEF NoCopy
    <3>3. \A i \in 1..Len(reading[t]) : reading[t][i] <= version' /\ reading[t][i] # version'
      BY <1>5, <2>1, <3>1 DEF ReadingFits
    <3>4. QED
      BY <1>1, <1>2, <3>1, <3>2, <3>3 DEF ReadingFits
  <2>4. ASSUME ~overlapped' PROVE AloneInv'
    <3>1. AloneInv
      BY <1>2, <2>4 DEF IndexInv
    <3>2. \A t \in Ingesters : Changes(reading[t])' = Changes(reading[t])
      BY <1>1, <1>2 DEF Changes, ChunksOf
    <3>3. QED
      BY <1>2, <2>2, <3>1, <3>2 DEF AloneInv, Busy
  <2>5. QED
    BY <2>1, <2>2, <2>3, <2>4 DEF IndexInv
<1>6. QED
  BY <1>3, <1>4, <1>5

LEMMA ReadIndexStep ==
    ASSUME IngestInv, IndexInv, NEW t \in Ingesters, ReadMenu(t)
    PROVE  IndexInv'
<1> DEFINE u == Append(reading[t], RowsBelow(reading[t]))
<1>1. /\ reading' = [reading EXCEPT ![t] = u] /\ ingest[t].step = "read"
      /\ UNCHANGED <<version, ingest, documents, processed, overlapped>>
  BY DEF ReadMenu, BeginRead, LoadLevel, ingestVars
<1>2. /\ reading[t] \in Seq(Nat) /\ version \in Nat /\ RowsBelow(reading[t]) \in {0, version}
      /\ reading[t] = NoCopy => RowsBelow(reading[t]) = version
      /\ reading \in [Readers \cup Ingesters -> Seq(Nat)]
  BY DEF IngestInv, ReadInv, RowsBelow
<1>3. /\ u \in Seq(Nat) /\ Len(u) = Len(reading[t]) + 1 /\ u # NoCopy
      /\ u[Len(reading[t]) + 1] = RowsBelow(reading[t])
      /\ \A i \in 1..Len(reading[t]) : u[i] = reading[t][i]
      /\ Len(reading[t]) \in Nat
  BY <1>2 DEF NoCopy
<1>4. /\ reading'[t] = u /\ \A s \in Ingesters \ {t} : reading'[s] = reading[s]
  BY <1>1, <1>2
<1>5. ReadingFits(t)
  BY DEF IndexInv
<1>6. reading[t] # NoCopy => 1 \in 1..Len(reading[t]) /\ Len(reading[t]) \in 1..Len(reading[t])
  BY <1>2 DEF NoCopy
<1>7. \A i \in 1..Len(u) : u[i] <= version
  BY <1>2, <1>3, <1>5 DEF ReadingFits
<1>8. u[1] = version => \A i \in 1..Len(u) : u[i] = version
  <2>1. CASE reading[t] = NoCopy
    <3>1. Len(u) = 1
      BY <1>3, <2>1 DEF NoCopy
    <3>2. QED
      BY <3>1
  <2>2. CASE reading[t] # NoCopy
    <3>1. u[1] = version => RowsBelow(reading[t]) = version
      BY <1>3, <1>5, <1>6, <2>2 DEF ReadingFits, RowsBelow
    <3>2. QED
      BY <1>3, <1>5, <1>6, <2>2, <3>1 DEF ReadingFits
  <2>3. QED
    BY <2>1, <2>2
<1>9. reading[t] = NoCopy => u[1] = version
  BY <1>2, <1>3 DEF NoCopy
<1> HIDE DEF u
<1>10. ASSUME NEW s \in Ingesters PROVE ReadingFits(s)'
  <2>1. CASE s = t
    BY <1>1, <1>3, <1>4, <1>7, <1>8, <2>1 DEF ReadingFits
  <2>2. CASE s # t
    BY <1>1, <1>4, <2>2 DEF IndexInv, ReadingFits
  <2>3. QED
    BY <2>1, <2>2
<1>11. ASSUME ~overlapped' PROVE AloneInv'
  <2>1. AloneInv
    BY <1>1, <1>11 DEF IndexInv
  <2>2. \A s \in Ingesters : s # t => Changes(reading[s])' = Changes(reading[s])
    BY <1>1, <1>4 DEF Changes, ChunksOf
  <2>3. \A s \in Ingesters : ingest'[s].step = "apply" => ingest'[s].change = Changes(reading[s])'
    BY <1>1, <2>1, <2>2 DEF AloneInv
  <2>4. ASSUME processed'[version'] # 0 PROVE IndexTells'
    <3>1. IndexTells
      BY <1>1, <2>1, <2>4 DEF AloneInv
    <3>2. u[1] = version
      BY <1>1, <1>3, <1>6, <1>9, <3>1 DEF IndexTells
    <3>3. ChunksOf(Whole(version))' = ChunksOf(Whole(version))
      BY <1>1 DEF ChunksOf, Whole
    <3>4. QED
      BY <1>1, <1>4, <3>1, <3>2, <3>3 DEF IndexTells
  <2>5. QED
    BY <1>1, <2>1, <2>3, <2>4 DEF AloneInv, Busy
<1>12. QED
  BY <1>1, <1>10, <1>11 DEF IndexInv

\* A document is never mistaken for no change.
LEMMA ChunksAreDocuments ==
    ASSUME NEW v \in 1..MaxVersions, NEW d \in Dishes
    PROVE  ChunksOf(Whole(v))[d] # Keep
<1>1. /\ Whole(v)[2] = v /\ v # 0
      /\ MenuAt[v][d] \in Texts \cup {None}
  BY MenuAssumption, IngestionAssumption DEF Whole
<1>2. None # Keep
  <2>1. Keep \in [text : Texts \cup {None}, options : BOOLEAN]
    BY FALSE \in BOOLEAN DEF Keep
  <2>2. QED
    BY <2>1, IngestionAssumption
<1>3. QED
  BY <1>1, <1>2, IngestionAssumption DEF ChunksOf, Keep

\* Whoever has read the current menu, and was alone, has read all of it.
LEMMA ReadWhole ==
    ASSUME IngestInv, IndexInv, NEW t \in Ingesters, Len(reading[t]) = Levels,
           reading[t][1] = version
    PROVE  reading[t] = Whole(version)
<1>1. reading[t] \in Seq(Nat) /\ reading[t] # NoCopy /\ ReadingFits(t)
  BY MenuAssumption DEF IngestInv, ReadInv, IndexInv, NoCopy
<1>2. \A i \in 1..Levels : reading[t][i] = version
  BY <1>1 DEF ReadingFits
<1>3. QED
  BY <1>1, <1>2 DEF Whole

\* The end of an ingest: the documents are written, if they differ, and the event
\* is marked.
LEMMA WriteIndexStep ==
    ASSUME IngestInv, IndexInv, NEW t \in Ingesters, ingest[t].step \in {"read", "apply"},
           Len(reading[t]) = Levels, Done(t), Marks(t, reading[t][1]),
           UNCHANGED <<version, reading, overlapped>>,
           ~overlapped => documents' = [d \in Dishes |-> IF Changes(reading[t])[d] = Keep
                                                           THEN documents[d]
                                                           ELSE Changes(reading[t])[d]],
           documents = [d \in Dishes |-> documents[d]]
    PROVE  IndexInv'
<1>1. /\ ~Busy(t)' /\ ingest'[t].step \notin {"read", "apply"} /\ Busy(t)
      /\ \A s \in Ingesters \ {t} : ingest'[s] = ingest[s]
  BY DEF Done, Idle, Busy, IngestInv, ThreadsInv
<1>2. reading[t] # NoCopy /\ reading[t] \in Seq(Nat) /\ 1 \in 1..Len(reading[t])
  BY MenuAssumption DEF NoCopy, IngestInv, ReadInv
<1>3. version \in 1..MaxVersions /\ version \in Nat /\ reading[t][1] \in Nat /\ reading[t][1] <= version
  BY <1>2, MenuAssumption DEF IndexInv, ReadingFits
<1>4. t = "events" => Message \in Nat /\ Message <= version /\ reading[t][1] >= Message
  BY <1>1, <1>2 DEF IngestInv, HandInv, ToldInv, Message
<1>5. \A v \in 1..MaxVersions : processed'[v] = processed[v] \/ (t = "events" /\ v = Message)
  BY DEF Marks, IngestInv, SeenInv
<1>6. \A v \in 1..MaxVersions : v > version => processed'[v] = 0
  BY <1>3, <1>4, <1>5 DEF IndexInv
<1>7. ASSUME NEW s \in Ingesters PROVE ReadingFits(s)'
  BY <1>1 DEF IndexInv, ReadingFits
<1>8. ASSUME ~overlapped PROVE AloneInv'
  <2>1. AloneInv
    BY <1>8 DEF IndexInv
  <2>2. \A s \in Ingesters : ~Busy(s)'
    BY <1>1, <2>1 DEF AloneInv, Busy
  <2>3. \A s \in Ingesters : ingest'[s].step \notin {"check", "read", "apply"}
    BY <2>2 DEF Busy
  <2>4. ASSUME processed'[version] # 0 PROVE documents' = ChunksOf(Whole(version))
    <3>1. reading[t][1] = version
      <4>1. CASE processed[version] # 0
        BY <1>2, <2>1, <4>1 DEF AloneInv, IndexTells
      <4>2. CASE processed[version] = 0
        BY <1>3, <1>4, <1>5, <2>4, <4>2
      <4>3. QED
        BY <4>1, <4>2
    <3>2. reading[t] = Whole(version)
      BY <3>1, ReadWhole
    <3>3. \A d \in Dishes : ChunksOf(reading[t])[d] # Keep
      BY <1>3, <3>2, ChunksAreDocuments
    <3>4. \A d \in Dishes : documents'[d] = ChunksOf(reading[t])[d]
      BY <1>8, <3>3 DEF Changes
    <3>5. documents' = [d \in Dishes |-> ChunksOf(reading[t])[d]]
      BY <1>8, <3>4
    <3>6. ChunksOf(reading[t]) = [d \in Dishes |-> ChunksOf(reading[t])[d]]
      BY DEF ChunksOf
    <3>7. QED
      BY <3>2, <3>5, <3>6
  <2>5. ChunksOf(Whole(version))' = ChunksOf(Whole(version))
    BY DEF ChunksOf, Whole
  <2>6. QED
    BY <2>2, <2>3, <2>4, <2>5 DEF AloneInv, IndexTells
<1>9. QED
  BY <1>3, <1>6, <1>7, <1>8 DEF IndexInv

LEMMA IndexStep ==
    ASSUME IngestInv, IndexInv, documents = [d \in Dishes |-> documents[d]], [Next]_vars
    PROVE  IndexInv'
<1> USE IngestionAssumption DEF IngestInv, ThreadsInv
<1>1. CASE StoreNext /\ UNCHANGED ingestVars
  BY <1>1, StoreIndexStep
<1>2. ASSUME NEW t \in Ingesters, ReadMenu(t) PROVE IndexInv'
  BY <1>2, ReadIndexStep
<1>3. ASSUME NEW t \in Ingesters, CheckProcessed(t) PROVE IndexInv'
  <2>1. /\ UNCHANGED <<version, documents, processed, overlapped>> /\ Busy(t)
        /\ \A s \in Ingesters \ {t} : ingest'[s] = ingest[s] /\ reading'[s] = reading[s]
        /\ \/ ingest'[t].step \notin {"read", "apply"} /\ reading'[t] = reading[t]
           \/ ingest'[t].step = "read" /\ reading'[t] = NoCopy
    BY <1>3 DEF CheckProcessed, Done, Goes, Idle, Busy, ReadInv
  <2>2. \A s \in Ingesters : Busy(s)' => Busy(s)
    BY <2>1 DEF Busy
  <2>3. QED
    BY <2>1, <2>2, AsideStep DEF IndexInv, AloneInv
<1>4. ASSUME NEW t \in Ingesters, IngestFails(t) PROVE IndexInv'
  <2>1. /\ UNCHANGED <<version, documents, processed, overlapped, reading>> /\ Busy(t)
        /\ \A s \in Ingesters \ {t} : ingest'[s] = ingest[s]
        /\ ingest'[t].step \notin {"read", "apply"}
    <3>1. UNCHANGED <<version, documents, processed, overlapped, reading>> /\ Busy(t)
      BY <1>4 DEF IngestFails, storeVars
    <3>2. CASE Done(t)
      BY <3>1, <3>2 DEF Done, Idle
    <3>3. CASE ingest' = [ingest EXCEPT ![t] = [Idle EXCEPT !.step = "check",
                                                          !.attempt = ingest[t].attempt + 1]]
      BY <3>1, <3>3 DEF Idle
    <3>4. QED
      BY <1>4, <3>1, <3>2, <3>3 DEF IngestFails
  <2>2. \A s \in Ingesters : Busy(s)' => Busy(s)
    BY <2>1 DEF Busy
  <2>3. QED
    BY <2>1, <2>2, AsideStep DEF IndexInv, AloneInv
<1>5. CASE Commit \/ Reconnect \/ ListingFails \/ Restart \/ UNCHANGED vars
  <2>1. UNCHANGED <<version, documents, processed, overlapped, reading>>
    BY <1>5 DEF Commit, Reconnect, ListingFails, Restart, storeVars, ingestVars, vars
  <2>2. \A s \in Ingesters : ingest'[s] = ingest[s] \/ ingest'[s].step \notin {"check", "read", "apply"}
    BY <1>5 DEF Commit, Reconnect, ListingFails, Restart, Goes, Idle, ingestVars, vars
  <2>3. \A s \in Ingesters : Busy(s)' => Busy(s)
    BY <2>2 DEF Busy
  <2>4. QED
    BY <2>1, <2>2, <2>3, AsideStep DEF IndexInv, AloneInv
<1>6. CASE Deliver \/ ListPublished
  <2>1. PICK t \in Ingesters :
              /\ \A s \in Ingesters \ {t} : ingest'[s] = ingest[s]
              /\ ingest'[t].step = "check"
              /\ UNCHANGED <<version, documents, processed, reading>>
              /\ overlapped' = (overlapped \/ \E s \in Ingesters \ {t} : Busy(s))
    <3>1. CASE Deliver
      BY <1>6, <3>1 DEF Deliver, Goes, storeVars
    <3>2. CASE ListPublished
      BY <1>6, <3>2 DEF ListPublished, Idle, storeVars
    <3>3. QED
      BY <1>6, <3>1, <3>2
  <2>2. \A s \in Ingesters \ {t} : Busy(s)' => Busy(s)
    BY <2>1 DEF Busy
  <2>3. QED
    BY <2>1, <2>2, AsideStep
<1>7. ASSUME NEW t \in Ingesters, CompareStored(t) PROVE IndexInv'
  <2>1. /\ ingest[t].step = "read" /\ Len(reading[t]) = Levels
        /\ UNCHANGED <<version, documents, overlapped, reading>>
    BY <1>7 DEF CompareStored, storeVars
  <2>2. CASE Changes(reading[t]) = Unchanged /\ Done(t) /\ Marks(t, reading[t][1])
    <3>1. \A d \in Dishes : Changes(reading[t])[d] = Keep
      BY <2>2 DEF Unchanged
    <3>2. QED
      BY <2>1, <2>2, <3>1, WriteIndexStep
  <2>3. CASE /\ ingest' = [ingest EXCEPT ![t].step = "apply", ![t].change = Changes(reading[t])]
             /\ UNCHANGED processed
    <3>1. /\ ingest'[t].step = "apply" /\ ingest'[t].change = Changes(reading[t])
          /\ \A s \in Ingesters \ {t} : ingest'[s] = ingest[s]
      BY <2>3
    <3>2. ASSUME NEW s \in Ingesters PROVE ReadingFits(s)'
      BY <2>1, <3>1 DEF IndexInv, ReadingFits
    <3>3. ASSUME ~overlapped PROVE AloneInv'
      <4>1. AloneInv
        BY <3>3 DEF IndexInv
      <4>2. \A s \in Ingesters : Changes(reading[s])' = Changes(reading[s])
        BY <2>1 DEF Changes, ChunksOf
      <4>3. ChunksOf(Whole(version))' = ChunksOf(Whole(version))
        BY <2>1 DEF ChunksOf, Whole
      <4>4. processed'[version'] # 0 => IndexTells'
        BY <2>1, <2>3, <3>1, <4>1, <4>3 DEF AloneInv, IndexTells
      <4>5. \A s \in Ingesters : Busy(s)' => Busy(s)
        BY <2>1, <3>1 DEF Busy
      <4>6. QED
        BY <3>1, <4>1, <4>2, <4>4, <4>5 DEF AloneInv
    <3>4. QED
      BY <2>1, <2>3, <3>2, <3>3 DEF IndexInv
  <2>4. QED
    BY <1>7, <2>2, <2>3 DEF CompareStored
<1>8. ASSUME NEW t \in Ingesters, Apply(t) PROVE IndexInv'
  <2>1. /\ ingest[t].step = "apply" /\ Len(reading[t]) = Levels
        /\ UNCHANGED <<version, overlapped, reading>> /\ Done(t) /\ Marks(t, reading[t][1])
    BY <1>8 DEF Apply, IndexInv, ReadingFits, storeVars
  <2>2. ~overlapped => ingest[t].change = Changes(reading[t])
    BY <2>1 DEF IndexInv, AloneInv
  <2>3. ~overlapped => documents' = [d \in Dishes |-> IF Changes(reading[t])[d] = Keep
                                                        THEN documents[d]
                                                        ELSE Changes(reading[t])[d]]
    BY <1>8, <2>2 DEF Apply
  <2>4. QED
    BY <2>1, <2>3, WriteIndexStep
<1>9. QED
  BY <1>1, <1>2, <1>3, <1>4, <1>5, <1>6, <1>7, <1>8 DEF Next, Ingesting

\* Torn reads, retries, repeats and restarts leave no wrong or missing document
\* behind: the index tells the current menu, once that menu's event is done.
THEOREM TheIndexIsCurrent == IngestionSpec => []RestingIndexIsCurrent
<1> DEFINE Docs == documents = [d \in Dishes |-> documents[d]]
<1>1. IngestionInit => IndexInv /\ Docs
  <2> SUFFICES ASSUME IngestionInit PROVE IndexInv /\ Docs
    OBVIOUS
  <2>1. \A t \in Ingesters : reading[t] = <<>> /\ ingest[t].step \in {"list", "idle"}
    BY DEF IngestionInit, MenuInit, Idle, NoCopy
  <2>2. ~overlapped => AloneInv
    <3>1. \A t \in Ingesters : ~Busy(t) /\ ingest[t].step # "apply"
      BY <2>1 DEF Busy
    <3>2. processed[version] = 0
      BY SMTT(30), MenuAssumption DEF IngestionInit, MenuInit
    <3>3. QED
      BY <3>1, <3>2 DEF AloneInv
  <2>3. QED
    BY <2>1, <2>2, MenuAssumption DEF IngestionInit, MenuInit, IndexInv, ReadingFits, NoCopy
<1>2. Docs /\ [Next]_vars => Docs'
  <2> SUFFICES ASSUME Docs, [Next]_vars PROVE Docs'
    OBVIOUS
  <2>1. CASE UNCHANGED documents
    BY <2>1
  <2>2. ASSUME NEW t \in Ingesters, Apply(t) PROVE Docs'
    BY <2>2 DEF Apply
  <2>3. QED
    BY <2>1, <2>2 DEF Next, Ingesting, CheckProcessed, ReadMenu, CompareStored, IngestFails,
                      Deliver, ListPublished, Commit, ListingFails, Reconnect, Restart,
                      ingestVars, vars
<1>3. IngestInv /\ IndexInv => RestingIndexIsCurrent
  BY DEF IndexInv, AloneInv, IndexTells, RestingIndexIsCurrent
<1>4. IngestInv /\ IndexInv /\ Docs /\ [Next]_vars => IndexInv'
  BY IndexStep
<1> HIDE DEF Docs
<1>5. QED
  BY <1>1, <1>2, <1>3, <1>4, IngestInvariant, PTL DEF IngestionSpec
=============================================================================
