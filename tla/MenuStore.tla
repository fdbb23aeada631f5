----------------------------- MODULE MenuStore -----------------------------
(***************************************************************************)
(* The Menu Service: one restaurant's menu in PostgreSQL, its copy in      *)
(* Redis, and the topic that tells of publishes.                           *)
(*                                                                         *)
(* A publish replaces the whole tree in one transaction.  A read is a      *)
(* query, and so a transaction, per level: the categories of the menu, the *)
(* items of those categories, the groups of those items and the options of *)
(* those groups.  Each level is looked up by the ids the one above         *)
(* returned, and a publish gives every row a new id.                       *)
(*                                                                         *)
(* A menu is never deleted, its anchor row keeps its id, and restaurants   *)
(* share nothing, so one restaurant with its first menu published is       *)
(* modelled.                                                               *)
(***************************************************************************)
EXTENDS Integers, Sequences, FiniteSets

CONSTANTS
    Publishers,    \* POST /menus requests of the owner and of administrators
    Readers,       \* GET /menus/{restaurant_id} requests under way
    Ingesters,     \* the ingestion worker's threads, which read past the copy
    Levels,        \* of the tree; four in the code
    MaxVersions    \* bound: publishes in a behaviour, the first one included

ASSUME MenuAssumption == Levels \in Nat \ {0} /\ MaxVersions \in Nat \ {0}

VARIABLES
    version,       \* which publish the rows are from
    publish,       \* what each publish request has still to do
    reading,       \* the levels a read has loaded so far
    cache,         \* the copy Redis holds, NoCopy if none
    topic          \* menu.published events, each the version it tells of

storeVars == <<version, publish, reading, cache, topic>>

\* A tree as it was read is the sequence of the versions of the rows found at
\* each of its levels, 0 for a level at which none were.
NoCopy == <<>>

Whole(v) == [i \in 1..Levels |-> v]

MenuInit ==
    /\ version = 1
    /\ publish = [p \in Publishers |-> [step |-> "idle", version |-> 0]]
    /\ reading = [r \in Readers \cup Ingesters |-> NoCopy]
    /\ cache = NoCopy
    /\ topic = <<1>>

-----------------------------------------------------------------------------
(* Publishing.                                                             *)

\* MenuRepository.upsert: the row lock of its first statement puts publishes
\* one behind the other.
Upsert(p) ==
    /\ publish[p].step = "idle" /\ version < MaxVersions
    /\ version' = version + 1
    /\ publish' = [publish EXCEPT ![p] = [step |-> "invalidate", version |-> version + 1]]
    /\ UNCHANGED <<reading, cache, topic>>

\* Redis may be out, or the service die here, and the copy is left to its time
\* to live.
Invalidate(p) ==
    /\ publish[p].step = "invalidate"
    /\ cache' \in {cache, NoCopy}
    /\ publish' = [publish EXCEPT ![p].step = "announce"]
    /\ UNCHANGED <<version, reading, topic>>

\* Kafka may be out, or the service die here; the publish stands all the same.
AnnouncePublished(p) ==
    /\ publish[p].step = "announce"
    /\ topic' \in {topic, Append(topic, publish[p].version)}
    /\ publish' = [publish EXCEPT ![p].step = "idle"]
    /\ UNCHANGED <<version, reading, cache>>

-----------------------------------------------------------------------------
(* Reading.                                                                *)

\* Broken variant: rows are looked up by their keys, which publishes keep.
RowsByKey(t) == version

\* The rows of the next level whose parents are those the read t has so far.
RowsBelow(t) ==
    IF t = NoCopy \/ t[Len(t)] = version THEN version ELSE 0

\* _load_categories, one query; a level without rows ends the queries.
LoadLevel(r) ==
    /\ Len(reading[r]) \in 1..(Levels - 1)
    /\ reading' = [reading EXCEPT ![r] = Append(@, RowsBelow(@))]
    /\ UNCHANGED <<version, publish, cache, topic>>

\* get_menu: a hit is served from the copy.  A miss, a Redis that does not
\* answer or a copy that cannot be read leads to the rows.
BeginRead(r) ==
    /\ reading[r] = NoCopy
    /\ reading' = [reading EXCEPT ![r] = Append(@, RowsBelow(@))]
    /\ UNCHANGED <<version, publish, cache, topic>>

\* The copy is stored, unless Redis is out.
StoreCopy(r) ==
    /\ Len(reading[r]) = Levels
    /\ cache' \in {cache, reading[r]}
    /\ reading' = [reading EXCEPT ![r] = NoCopy]
    /\ UNCHANGED <<version, publish, topic>>

\* Broken variant: the copy has no time to live.
ExpireNever == FALSE

\* MENU_CACHE_TTL_SECONDS have passed.
Expire ==
    /\ cache # NoCopy
    /\ cache' = NoCopy
    /\ UNCHANGED <<version, publish, reading, topic>>

PublishStep(p) == Upsert(p) \/ Invalidate(p) \/ AnnouncePublished(p)

StoreNext ==
    \/ \E p \in Publishers : PublishStep(p)
    \/ \E r \in Readers : BeginRead(r) \/ LoadLevel(r) \/ StoreCopy(r)
    \/ Expire

\* Requests run to their end and Redis forgets; nobody need publish or read.
StoreFairness ==
    /\ \A p \in Publishers : WF_storeVars(Invalidate(p) \/ AnnouncePublished(p))
    /\ \A r \in Readers : WF_storeVars(LoadLevel(r) \/ StoreCopy(r))
    /\ WF_storeVars(Expire)

StoreSpec == MenuInit /\ [][StoreNext]_storeVars /\ StoreFairness

-----------------------------------------------------------------------------
\* A tree that is missing its lower levels, for a publish that came between two
\* queries, is all of one publish down to where it ends.
OfOnePublish(t) ==
    \A i \in 1..Len(t) : t[i] = t[1] \/ \A j \in i..Len(t) : t[j] = 0

\* No reader is shown, and no copy holds, a menu put together from two
\* publishes, however publishes fall between the queries of a read.
NeverMixed ==
    /\ \A r \in DOMAIN reading : OfOnePublish(reading[r])
    /\ OfOnePublish(cache)

\* A stale or a torn copy is not for good: when publishing ends, what Redis holds
\* is in the end nothing but the whole current menu, though invalidations fail
\* and readers store what they read before the last publish.
CopyConverges == <>[](cache \in {NoCopy, Whole(version)})
=============================================================================
