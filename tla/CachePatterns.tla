---------------------------- MODULE CachePatterns ----------------------------
(***************************************************************************)
(* One product in Valkey and in MySQL, and the invalidation strategies of  *)
(* scripts/15-cache-best-practices.sh (Lesson 2) as several application    *)
(* processes use them at once.                                             *)
(*                                                                         *)
(* A reader caches the way scripts/12-caching.sh does: if the key is       *)
(* missing, fetch from MySQL, HSET, EXPIRE.  A writer updates MySQL and    *)
(* then follows one of the strategies:                                     *)
(*   "ttl"      nothing more: the entry lives until its TTL ends           *)
(*   "del"      DEL, then fetch, HSET and EXPIRE like a reader             *)
(*   "through"  HSET the new price                                         *)
(* Each SQL statement and each Valkey command is one atomic step; between  *)
(* two of them anything may happen.  A price is known by the number of     *)
(* updates that led to it, and what a TTL counts down is abstracted to the *)
(* entry having one, after which it may expire at any moment.              *)
(***************************************************************************)
EXTENDS Naturals

CONSTANTS
    Readers, Writers,  \* application processes
    Strategies,        \* the strategies that writers may follow
    Updates,           \* bound: price updates in all
    NoEntry            \* the key does not exist

ASSUME CacheAssumption ==
    /\ Strategies \subseteq {"ttl", "del", "through"}
    /\ Updates \in Nat
    /\ NoEntry \notin Nat

VARIABLES
    db,       \* the price in MySQL
    cache,    \* the price field of product:<id> in Valkey, or NoEntry
    expires,  \* the key has a TTL
    pc,       \* pc[p]: the next command of p
    held      \* held[p]: the price p carries in a shell variable

vars == <<db, cache, expires, pc, held>>

Processes == Readers \cup Writers

Commands == {"idle", "fetch", "hset", "expire", "del", "hset_through"}

TypeOK ==
    /\ db \in 0 .. Updates
    /\ cache \in (0 .. Updates) \cup {NoEntry}
    /\ expires \in BOOLEAN
    /\ pc \in [Processes -> Commands]
    /\ held \in [Processes -> 0 .. Updates]

\* Lesson 2 first seeds the cache with the current price and a TTL.
Init ==
    /\ db = 0
    /\ cache = 0
    /\ expires = TRUE
    /\ pc = [p \in Processes |-> "idle"]
    /\ held = [p \in Processes |-> 0]

Goto(p, command) == pc' = [pc EXCEPT ![p] = command]

----------------------------------------------------------------------------
(* Valkey commands *)

\* HSET keeps the TTL of a key that exists and creates one without a TTL.
Hset(price) ==
    /\ cache' = price
    /\ expires' = (expires /\ cache # NoEntry)

\* EXPIRE does nothing to a key that does not exist.
Expire == expires' = (cache # NoEntry)

Remove ==
    /\ cache' = NoEntry
    /\ expires' = FALSE

----------------------------------------------------------------------------
(* The read-through pattern *)

\* A read of a missing key; a hit changes nothing.
Miss(r) ==
    /\ pc[r] = "idle"
    /\ cache = NoEntry
    /\ Goto(r, "fetch")
    /\ UNCHANGED <<db, cache, expires, held>>

\* SELECT price FROM products, on the primary.
Fetch(p) ==
    /\ pc[p] = "fetch"
    /\ held' = [held EXCEPT ![p] = db]
    /\ Goto(p, "hset")
    /\ UNCHANGED <<db, cache, expires>>

\* Mutant of Fill: the process stops before EXPIRE.
FillOnly(p) ==
    /\ pc[p] = "hset"
    /\ Hset(held[p])
    /\ Goto(p, "idle")
    /\ UNCHANGED <<db, held>>

Fill(p) ==
    /\ pc[p] = "hset"
    /\ Hset(held[p])
    /\ Goto(p, "expire")
    /\ UNCHANGED <<db, held>>

\* Mutant of SetTtl: PERSIST, as the product loaders of the benchmark scripts do.
SetPersist(p) ==
    /\ pc[p] = "expire"
    /\ expires' = FALSE
    /\ Goto(p, "idle")
    /\ UNCHANGED <<db, cache, held>>

SetTtl(p) ==
    /\ pc[p] = "expire"
    /\ Expire
    /\ Goto(p, "idle")
    /\ UNCHANGED <<db, cache, held>>

----------------------------------------------------------------------------
(* Writers *)

After(strategy) == CASE strategy = "ttl" -> "idle"
                     [] strategy = "del" -> "del"
                     [] strategy = "through" -> "hset_through"

\* UPDATE products SET price
Update(w) ==
    /\ pc[w] = "idle"
    /\ db < Updates
    /\ db' = db + 1
    /\ held' = [held EXCEPT ![w] = db + 1]
    /\ \E strategy \in Strategies : Goto(w, After(strategy))
    /\ UNCHANGED <<cache, expires>>

Del(w) ==
    /\ pc[w] = "del"
    /\ Remove
    /\ Goto(w, "fetch")
    /\ UNCHANGED <<db, held>>

\* HSET of the price just written, and no EXPIRE.
WriteThrough(w) ==
    /\ pc[w] = "hset_through"
    /\ Hset(held[w])
    /\ Goto(w, "idle")
    /\ UNCHANGED <<db, held>>

----------------------------------------------------------------------------
(* Valkey itself *)

TtlEnds ==
    /\ expires
    /\ Remove
    /\ UNCHANGED <<db, pc, held>>

\* maxmemory-policy allkeys-lru: any key may be evicted.
Evict ==
    /\ cache # NoEntry
    /\ Remove
    /\ UNCHANGED <<db, pc, held>>

----------------------------------------------------------------------------
Caching(p) == Fetch(p) \/ Fill(p) \/ SetTtl(p)

Writing(w) == Update(w) \/ Del(w) \/ WriteThrough(w)

Next ==
    \/ \E r \in Readers : Miss(r)
    \/ \E p \in Processes : Caching(p)
    \/ \E w \in Writers : Writing(w)
    \/ TtlEnds
    \/ Evict

\* A process finishes the sequence of commands it has begun and a TTL ends.
\* Nobody has to read or to write, and nothing has to be evicted.
Fairness ==
    /\ \A p \in Processes : WF_vars(Caching(p))
    /\ \A w \in Writers : WF_vars(Del(w) \/ WriteThrough(w))
    /\ WF_vars(TtlEnds)

Spec == Init /\ [][Next]_vars /\ Fairness

----------------------------------------------------------------------------
Fresh == cache \in {NoEntry, db}

\* An entry without a TTL is about to get one: as long as nobody writes through,
\* no interleaving of readers, writers, expiry and eviction leaves an entry that
\* would be served, stale or not, for ever.
EveryEntryExpires ==
    "through" \in Strategies \/ cache = NoEntry \/ expires
        \/ \E p \in Processes : pc[p] = "expire"

\* When the updates have stopped, what is stale in the cache goes away for good,
\* late fills of processes that fetched an old price included.
EventuallyFresh == <>[]Fresh

\* scripts/15-cache-best-practices.sh:263-264 - the stale window of "Valkey DEL
\* on write" and of "Write-through" is zero: once every write has returned, the
\* cache holds the price in MySQL or nothing.  So it is for a single writer that
\* mixes the two, as the script does, whatever expires or is evicted under it;
\* a concurrent reader is enough to break it.
NoStaleWindow == (\A p \in Processes : pc[p] = "idle") => Fresh
=============================================================================
