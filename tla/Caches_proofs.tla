---------------------------- MODULE Caches_proofs ----------------------------
(***************************************************************************)
(* Theorems about the two caches of the laboratory: the entry of a product *)
(* in Valkey and the query cache of ProxySQL.                              *)
(*                                                                         *)
(* For any number of readers and writers and any number of updates:        *)
(*                                                                         *)
(*   CacheTypeCorrect  the state keeps its types                           *)
(*   NothingStaysForEver                                                   *)
(*                 EveryEntryExpires; ExpiryInv adds that no process is    *)
(*                 about to write through when no writer does              *)
(*   SoleWriterIsFresh                                                     *)
(*                 NoStaleWindow, for one writer without readers; SoleInv  *)
(*                 says that what it is about to cache is current          *)
(*                                                                         *)
(* For any number of nodes and replicas, any catalog TTL and any number of *)
(* updates: ProxyTypeCorrect and AnswersAreFresh (StaleForOneTtl).         *)
(*                                                                         *)
(* StaleForOneTtl compares an answer with what the slowest replica had     *)
(* some ticks ago, and the answer may come from a cache entry.  AgeInv     *)
(* therefore dates every result: one in flight is as new as the start of   *)
(* the last tick, or of the one before when it is late, and a cache entry  *)
(* as new as the tick before it was stored.  That an entry has the TTL of  *)
(* its query rests on the rules, which are those configured, with or       *)
(* without rule 6, on each node (RuleOfQuery).                             *)
(***************************************************************************)
EXTENDS CachePatterns, ProxySql, WellFoundedInduction, TLAPS

----------------------------------------------------------------------------
(* Valkey *)

\* The state keeps its types.
THEOREM CacheTypeCorrect == Spec => []TypeOK
<1>1. Init => TypeOK
  BY CacheAssumption DEF Init, TypeOK, Commands
<1>2. TypeOK /\ [Next]_vars => TypeOK'
  <2> SUFFICES ASSUME TypeOK, [Next]_vars PROVE TypeOK'
    OBVIOUS
  <2> USE CacheAssumption DEF TypeOK, Commands, Processes, Goto
  <2>1. ASSUME NEW r \in Readers, Miss(r) PROVE TypeOK'
    BY <2>1 DEF Miss
  <2>2. ASSUME NEW p \in Processes, Caching(p) PROVE TypeOK'
    <3>1. CASE Fetch(p)
      BY <3>1 DEF Fetch
    <3>2. CASE Fill(p)
      BY <3>2 DEF Fill, Hset
    <3>3. CASE SetTtl(p)
      BY <3>3 DEF SetTtl, Expire
    <3>4. QED
      BY <2>2, <3>1, <3>2, <3>3 DEF Caching
  <2>3. ASSUME NEW w \in Writers, Writing(w) PROVE TypeOK'
    <3>1. CASE Update(w)
      <4>1. PICK strategy \in Strategies : Goto(w, After(strategy))
        BY <3>1 DEF Update
      <4>2. After(strategy) \in Commands
        BY DEF After
      <4>3. db + 1 \in 0 .. Updates
        BY <3>1 DEF Update
      <4>4. QED
        BY <3>1, <4>1, <4>2, <4>3 DEF Update
    <3>2. CASE Del(w)
      BY <3>2 DEF Del, Remove
    <3>3. CASE WriteThrough(w)
      BY <3>3 DEF WriteThrough, Hset
    <3>4. QED
      BY <2>3, <3>1, <3>2, <3>3 DEF Writing
  <2>4. CASE TtlEnds \/ Evict \/ UNCHANGED vars
    BY <2>4 DEF TtlEnds, Evict, Remove, vars
  <2>5. QED
    BY <2>1, <2>2, <2>3, <2>4 DEF Next
<1>3. QED
  BY <1>1, <1>2, PTL DEF Spec

ExpiryInv ==
    /\ EveryEntryExpires
    /\ "through" \in Strategies \/ \A p \in Processes : pc[p] # "hset_through"

\* Without write-through, an entry that has no TTL is always about to get one.
THEOREM NothingStaysForEver == Spec => []EveryEntryExpires
<1>1. Init => ExpiryInv
  BY DEF Init, ExpiryInv, EveryEntryExpires
<1>2. TypeOK /\ ExpiryInv /\ [Next]_vars => ExpiryInv'
  <2> SUFFICES ASSUME TypeOK, ExpiryInv, [Next]_vars, "through" \notin Strategies
               PROVE  EveryEntryExpires' /\ \A p \in Processes : pc'[p] # "hset_through"
    BY DEF ExpiryInv, EveryEntryExpires
  <2>0. EveryEntryExpires /\ \A p \in Processes : pc[p] # "hset_through"
    BY DEF ExpiryInv
  <2>1. ASSUME UNCHANGED <<cache, expires>>,
               \A p \in Processes : pc[p] = "expire" => pc'[p] = "expire"
        PROVE  EveryEntryExpires'
    BY <2>0, <2>1 DEF EveryEntryExpires
  <2>2. ASSUME NEW r \in Readers, Miss(r) PROVE EveryEntryExpires'
    BY <2>1, <2>2 DEF Miss, Goto, TypeOK
  <2>3. ASSUME NEW p \in Processes, Caching(p) PROVE EveryEntryExpires'
    <3>1. CASE Fetch(p)
      BY <2>1, <3>1 DEF Fetch, Goto, TypeOK
    <3>2. CASE Fill(p)
      <4>1. pc'[p] = "expire"
        BY <3>2 DEF Fill, Goto, TypeOK
      <4>2. QED
        BY <4>1 DEF EveryEntryExpires
    <3>3. CASE SetTtl(p)
      BY <3>3 DEF SetTtl, Expire, EveryEntryExpires
    <3>4. QED
      BY <2>3, <3>1, <3>2, <3>3 DEF Caching
  <2>4. ASSUME NEW w \in Writers, Writing(w) PROVE EveryEntryExpires'
    <3>1. CASE Update(w)
      BY <2>1, <3>1 DEF Update, Goto, TypeOK
    <3>2. CASE Del(w)
      BY <3>2 DEF Del, Remove, EveryEntryExpires
    <3>3. CASE WriteThrough(w)
      BY <2>0, <3>3 DEF WriteThrough, Processes
    <3>4. QED
      BY <2>4, <3>1, <3>2, <3>3 DEF Writing
  <2>5. ASSUME TtlEnds \/ Evict PROVE EveryEntryExpires'
    <3>1. cache' = NoEntry
      BY <2>5 DEF TtlEnds, Evict, Remove
    <3>2. QED
      BY <3>1 DEF EveryEntryExpires
  <2>6. ASSUME UNCHANGED vars PROVE EveryEntryExpires'
    <3>1. UNCHANGED <<cache, expires>> /\ pc' = pc
      BY <2>6 DEF vars
    <3>2. QED
      BY <2>1, <3>1
  <2>7. ASSUME NEW q \in Processes PROVE pc'[q] # "hset_through"
    <3>1. ASSUME NEW p \in Processes, NEW command \in Commands \ {"hset_through"},
                 Goto(p, command)
          PROVE  pc'[q] # "hset_through"
      BY <2>0, <3>1 DEF Goto, TypeOK
    <3>2. ASSUME NEW r \in Readers, Miss(r) PROVE pc'[q] # "hset_through"
      BY <3>1, <3>2 DEF Miss, Processes, Commands
    <3>3. ASSUME NEW p \in Processes, Caching(p) PROVE pc'[q] # "hset_through"
      BY <3>1, <3>3 DEF Caching, Fetch, Fill, SetTtl, Commands
    <3>4. ASSUME NEW w \in Writers, Writing(w) PROVE pc'[q] # "hset_through"
      <4>1. \A s \in Strategies : After(s) \in Commands \ {"hset_through"}
        BY CacheAssumption DEF After, Commands
      <4>2. QED
        BY <3>1, <3>4, <4>1 DEF Writing, Update, Del, WriteThrough, Processes, Commands
    <3>5. CASE TtlEnds \/ Evict \/ UNCHANGED vars
      BY <2>0, <3>5 DEF TtlEnds, Evict, vars
    <3>6. QED
      BY <3>2, <3>3, <3>4, <3>5 DEF Next
  <2>8. QED
    BY <2>2, <2>3, <2>4, <2>5, <2>6, <2>7 DEF Next
<1>3. ExpiryInv => EveryEntryExpires
  BY DEF ExpiryInv
<1>4. QED
  BY <1>1, <1>2, <1>3, CacheTypeCorrect, PTL DEF Spec

----------------------------------------------------------------------------
(* One writer and nobody else *)

\* What the writer is about to put into the cache is the price in MySQL, and
\* once it is there the cache is fresh.
SoleInv(w) ==
    /\ pc[w] \in {"hset", "hset_through"} => held[w] = db
    /\ pc[w] \in {"idle", "expire"} => Fresh

\* A single writer that never relies on the TTL alone leaves no stale window,
\* however many updates it makes and whatever Valkey expires or evicts.
THEOREM SoleWriterIsFresh ==
    ASSUME NEW w, Writers = {w}, Readers = {}, "ttl" \notin Strategies
    PROVE  Spec => []NoStaleWindow
<1>0. Processes = {w}
  BY DEF Processes
<1>1. Init => SoleInv(w)
  BY <1>0 DEF Init, SoleInv, Fresh
<1>2. TypeOK /\ SoleInv(w) /\ [Next]_vars => SoleInv(w)'
  <2> SUFFICES ASSUME TypeOK, SoleInv(w), [Next]_vars PROVE SoleInv(w)'
    OBVIOUS
  <2> USE <1>0 DEF SoleInv, Fresh
  <2>1. ASSUME Caching(w) PROVE SoleInv(w)'
    <3>1. CASE Fetch(w)
      BY <3>1 DEF Fetch, Goto, TypeOK
    <3>2. CASE Fill(w)
      BY <3>2 DEF Fill, Hset, Goto, TypeOK
    <3>3. CASE SetTtl(w)
      BY <3>3 DEF SetTtl, Goto, TypeOK
    <3>4. QED
      BY <2>1, <3>1, <3>2, <3>3 DEF Caching
  <2>2. ASSUME Writing(w) PROVE SoleInv(w)'
    <3>1. CASE Update(w)
      <4>1. PICK strategy \in Strategies : Goto(w, After(strategy))
        BY <3>1 DEF Update
      <4>2. After(strategy) \in {"del", "hset_through"}
        BY CacheAssumption DEF After
      <4>3. pc'[w] \in {"del", "hset_through"}
        BY <4>1, <4>2 DEF Goto, TypeOK
      <4>4. held'[w] = db'
        BY <3>1 DEF Update, TypeOK
      <4>5. QED
        BY <4>3, <4>4
    <3>2. CASE Del(w)
      BY <3>2 DEF Del, Goto, TypeOK
    <3>3. CASE WriteThrough(w)
      BY <3>3 DEF WriteThrough, Hset, Goto, TypeOK
    <3>4. QED
      BY <2>2, <3>1, <3>2, <3>3 DEF Writing
  <2>3. CASE TtlEnds \/ Evict
    BY <2>3 DEF TtlEnds, Evict, Remove
  <2>4. CASE UNCHANGED vars
    BY <2>4 DEF vars
  <2>5. QED
    BY <2>1, <2>2, <2>3, <2>4 DEF Next
<1>3. SoleInv(w) => NoStaleWindow
  BY <1>0 DEF SoleInv, NoStaleWindow
<1>4. QED
  BY <1>1, <1>2, <1>3, CacheTypeCorrect, PTL DEF Spec

----------------------------------------------------------------------------
(* ProxySQL: minima *)

\* A set of naturals has a smallest element, finite or not.
LEMMA Smallest ==
    ASSUME NEW T, T \subseteq Nat, T # {}
    PROVE  \E x \in T : \A y \in T : x <= y
<1> DEFINE Less == {p \in Nat \X Nat : p[1] < p[2]}
<1>1. IsWellFoundedOn(Less, Nat)
  BY NatLessThanWellFounded DEF OpToRel
<1>2. PICK x \in T : \A y \in T : ~ (<<y, x>> \in Less)
  <2> HIDE DEF Less
  <2>1. QED
    BY <1>1, WFMin
<1>3. ASSUME NEW y \in T PROVE x <= y
  <2>1. <<y, x>> \in Nat \X Nat
    BY <1>3
  <2>2. ~(<<y, x>>[1] < <<y, x>>[2])
    BY <1>2, <2>1
  <2>3. QED
    BY <2>2, <2>1
<1>4. QED
  BY <1>3

LEMMA MinIsSmallest ==
    ASSUME NEW T, T \subseteq Nat, T # {}
    PROVE  Min(T) \in T /\ \A y \in T : Min(T) <= y
  BY Smallest DEF Min

LEMMA MinIs ==
    ASSUME NEW T, T \subseteq Nat, NEW x \in T, \A y \in T : x <= y
    PROVE  Min(T) = x
<1>1. Min(T) \in T /\ Min(T) <= x
  BY MinIsSmallest
<1>2. x \in Nat /\ Min(T) \in Nat /\ x <= Min(T)
  BY <1>1
<1>3. QED
  BY <1>1, <1>2

----------------------------------------------------------------------------
(* Types *)

\* The rules of a node after AddRule has reached it.
Extended == [id \in 2..6 |-> IF id = 6 THEN Rule6 ELSE Configured[id]]

Flight == [node : Nodes, val : Nat, ttl : Nat, late : BOOLEAN]
CacheEntry == [val : Nat, age : Nat, ttl : Nat]

ProxyTypeOK ==
    /\ query \in Queries
    /\ executed \in Nat
    /\ applied \in [Replicas -> Nat]
    /\ rules \in [Nodes -> {Configured, Extended}]
    /\ cached \in [Nodes -> SUBSET CacheEntry]
    /\ inflight \subseteq Flight
    /\ answers \subseteq Nat
    /\ past \in [0..(CatalogTtl + 1) -> Nat]
    /\ flushed \in Nat

LEMMA SlowestFacts ==
    ASSUME ProxyTypeOK
    PROVE  /\ Slowest \in Nat
           /\ \E r \in Replicas : Slowest = applied[r]
           /\ \A r \in Replicas : Slowest <= applied[r]
<1> DEFINE T == {applied[r] : r \in Replicas}
<1>1. T \subseteq Nat /\ T # {}
  BY ProxyAssumption DEF ProxyTypeOK
<1>2. Min(T) \in T /\ \A y \in T : Min(T) <= y
  <2> HIDE DEF T
  <2>1. QED
    BY <1>1, MinIsSmallest
<1>3. QED
  BY <1>1, <1>2 DEF Slowest

LEMMA SlowestNext ==
    ASSUME ProxyTypeOK'
    PROVE  /\ Slowest' \in Nat
           /\ \E r \in Replicas : Slowest' = applied'[r]
<1> DEFINE T == {applied'[r] : r \in Replicas}
<1>1. T \subseteq Nat /\ T # {}
  BY ProxyAssumption DEF ProxyTypeOK
<1>2. Min(T) \in T
  <2> HIDE DEF T
  <2>1. QED
    BY <1>1, MinIsSmallest
<1>3. QED
  BY <1>1, <1>2 DEF Slowest

LEMMA ConfiguredRules ==
    /\ DOMAIN Configured = 2..5 /\ DOMAIN Extended = 2..6
    /\ Configured[2] = [group |-> 0, ttl |-> 0]
    /\ Configured[3] = [group |-> 1, ttl |-> CatalogTtl]
    /\ Configured[4] = [group |-> 1, ttl |-> CountTtl]
    /\ Configured[5] = [group |-> 1, ttl |-> 0]
    /\ \A id \in 2..5 : Extended[id] = Configured[id]
  BY DEF Configured, Extended

\* The TTL of the rule that the query matches first.
QueryTtl == IF query \in {"product", "productCount"} THEN CatalogTtl
            ELSE IF query = "orderCount" THEN CountTtl ELSE 0

\* Rule 6 or not, each node answers the query by the same rule of proxysql.cnf.
LEMMA RuleOfQuery ==
    ASSUME ProxyTypeOK, NEW n \in Nodes
    PROVE  /\ FirstMatch(n).ttl = QueryTtl
           /\ FirstMatch(n).group = IF query = "lock" THEN 0 ELSE 1
<1> DEFINE loaded == DOMAIN rules[n]
           first == IF query = "lock" THEN 2
                    ELSE IF query \in {"product", "productCount"} THEN 3
                    ELSE IF query = "orderCount" THEN 4 ELSE 5
<1>1. rules[n] \in {Configured, Extended}
  BY DEF ProxyTypeOK
<1>2. loaded \in {2..5, 2..6}
  BY <1>1, ConfiguredRules
<1>3. query \in {"lock", "product", "productCount", "orderCount", "topCustomers"}
  BY ProxyAssumption DEF ProxyTypeOK
<1>4. Matching = IF query = "lock" THEN {2, 3, 5} ELSE IF query = "product" THEN {3, 5}
                 ELSE IF query = "productCount" THEN {3, 4, 5}
                 ELSE IF query = "orderCount" THEN {4, 5} ELSE {5, 6}
  BY <1>3 DEF Matching
<1>5. /\ Matching \cap loaded \subseteq Nat
      /\ first \in Matching \cap loaded
      /\ \A id \in Matching \cap loaded : first <= id
  <2> HIDE DEF loaded
  <2>1. QED
    BY <1>2, <1>3, <1>4
<1>6. Min(Matching \cap loaded) = first
  <2> HIDE DEF loaded, first
  <2>1. QED
    BY <1>5, MinIs
<1>7. rules[n][first] = Configured[first]
  BY <1>1, ConfiguredRules
<1>8. QED
  BY <1>3, <1>6, <1>7, ConfiguredRules DEF FirstMatch, QueryTtl

LEMMA AgedType ==
    ASSUME NEW entries \in SUBSET CacheEntry
    PROVE  /\ Aged(entries) \in SUBSET CacheEntry
           /\ \A e \in Aged(entries) : \E d \in entries :
                /\ d.age < d.ttl
                /\ e.val = d.val /\ e.age = d.age + 1 /\ e.ttl = d.ttl
<1>1. SUFFICES ASSUME NEW d \in entries
               PROVE  LET e == [d EXCEPT !.age = @ + 1]
                      IN  /\ e \in CacheEntry
                          /\ e.val = d.val /\ e.age = d.age + 1 /\ e.ttl = d.ttl
  BY DEF Aged
<1>2. d \in CacheEntry
  OBVIOUS
<1>3. QED
  BY <1>2 DEF CacheEntry

LEMMA Delayed ==
    ASSUME NEW f \in Flight
    PROVE  LET g == [f EXCEPT !.late = TRUE]
           IN  /\ g \in Flight
               /\ g.node = f.node /\ g.val = f.val /\ g.ttl = f.ttl /\ g.late = TRUE
  BY DEF Flight

(* The state keeps its types; on every node the rules are those of the     *)
(* configuration file, with or without rule 6.                             *)
THEOREM ProxyTypeCorrect == ProxySpec => []ProxyTypeOK
<1> USE ProxyAssumption
<1>1. ProxyInit => ProxyTypeOK
  BY DEF ProxyInit, ProxyTypeOK
<1>2. ProxyTypeOK /\ [ProxyNext]_proxyVars => ProxyTypeOK'
  <2> SUFFICES ASSUME ProxyTypeOK, [ProxyNext]_proxyVars PROVE ProxyTypeOK'
    OBVIOUS
  <2>0. CASE UNCHANGED proxyVars
    BY <2>0 DEF proxyVars, ProxyTypeOK
  <2>1. CASE Change
    <3>1. executed' \in Nat /\ answers' \subseteq Nat
      BY <2>1 DEF Change, ProxyTypeOK
    <3>2. QED
      BY <2>1, <3>1 DEF Change, ProxyTypeOK
  <2>2. CASE Flush
    <3>1. flushed' \in Nat
      BY <2>2, SlowestFacts DEF Flush
    <3>2. cached' \in [Nodes -> SUBSET CacheEntry]
      <4>1. {} \in SUBSET CacheEntry
        OBVIOUS
      <4>2. QED
        BY <2>2, <4>1 DEF Flush, ProxyTypeOK
    <3>3. QED
      BY <2>2, <3>1, <3>2 DEF Flush, ProxyTypeOK
  <2>3. CASE AddRule
    <3>1. rules[Admin] \in {Configured, Extended}
      BY DEF ProxyTypeOK
    <3>2. rules[Admin] = Configured
      BY <2>3, <3>1, ConfiguredRules DEF AddRule
    <3>3. DOMAIN Configured \cup {6} = 2..6
      BY ConfiguredRules
    <3>4. [id \in DOMAIN Configured \cup {6} |-> IF id = 6 THEN Rule6 ELSE Configured[id]]
            = Extended
      BY <3>3 DEF Extended
    <3>5. rules' = [rules EXCEPT ![Admin] = Extended]
      BY <2>3, <3>2, <3>4 DEF AddRule
    <3>6. QED
      BY <2>3, <3>5 DEF AddRule, ProxyTypeOK
  <2>4. CASE Tick
    <3>1. cached' \in [Nodes -> SUBSET CacheEntry]
      BY <2>4, AgedType DEF Tick, ProxyTypeOK
    <3>2. inflight' \subseteq Flight
      BY <2>4, Delayed DEF Tick, ProxyTypeOK
    <3>3. past' \in [0..(CatalogTtl + 1) -> Nat]
      <4>1. DOMAIN past = 0..(CatalogTtl + 1)
        BY DEF ProxyTypeOK
      <4>2. \A k \in 0..(CatalogTtl + 1) : k # 0 => k - 1 \in 0..(CatalogTtl + 1)
        OBVIOUS
      <4>3. QED
        BY <2>4, <4>1, <4>2, SlowestFacts DEF Tick, ProxyTypeOK
    <3>4. QED
      BY <2>4, <3>1, <3>2, <3>3 DEF Tick, ProxyTypeOK
  <2>5. ASSUME NEW n \in Nodes, Hit(n) PROVE ProxyTypeOK'
    <3>1. answers' \subseteq Nat
      BY <2>5 DEF Hit, ProxyTypeOK, CacheEntry
    <3>2. QED
      BY <2>5, <3>1 DEF Hit, AfterHit, ProxyTypeOK
  <2>6. ASSUME NEW n \in Nodes, Execute(n) PROVE ProxyTypeOK'
    <3> DEFINE ttl == FirstMatch(n).ttl
    <3>1. PICK val : /\ val \in IF FirstMatch(n).group = 0 THEN {executed} ELSE Range(applied)
                     /\ answers' = {val}
                     /\ inflight' = IF ttl = 0 THEN inflight ELSE inflight \cup
                          {[node |-> n, val |-> val, ttl |-> ttl, late |-> FALSE]}
      BY <2>6 DEF Execute
    <3>2. val \in Nat
      BY <3>1 DEF ProxyTypeOK, Range
    <3>3. ttl \in Nat
      BY RuleOfQuery DEF QueryTtl, CountTtl
    <3>4. inflight' \subseteq Flight
      <4> HIDE DEF ttl
      <4>1. [node |-> n, val |-> val, ttl |-> ttl, late |-> FALSE] \in Flight
        BY <3>2, <3>3 DEF Flight
      <4>2. QED
        BY <3>1, <4>1 DEF ProxyTypeOK
    <3>5. QED
      BY <2>6, <3>1, <3>2, <3>4 DEF Execute, ProxyTypeOK
  <2>7. ASSUME NEW n \in Nodes, Sync(n) PROVE ProxyTypeOK'
    BY <2>7 DEF Sync, ProxyTypeOK
  <2>8. ASSUME NEW f \in inflight, Store(f) PROVE ProxyTypeOK'
    <3>1. f.node \in Nodes /\ [val |-> f.val, age |-> 0, ttl |-> f.ttl] \in CacheEntry
      BY DEF ProxyTypeOK, Flight, CacheEntry
    <3>2. QED
      BY <2>8, <3>1 DEF Store, ProxyTypeOK
  <2>9. ASSUME NEW r \in Replicas, Replicate(r) PROVE ProxyTypeOK'
    BY <2>9 DEF Replicate, ProxyTypeOK
  <2>10. QED
    BY <2>0, <2>1, <2>2, <2>3, <2>4, <2>5, <2>6, <2>7, <2>8, <2>9 DEF ProxyNext
<1>3. QED
  BY <1>1, <1>2, PTL DEF ProxySpec

----------------------------------------------------------------------------
(* How old a result may be *)

AgeInv ==
    /\ \A j, k \in DOMAIN past : j <= k => past[k] <= past[j]
    /\ past[0] <= Slowest
    /\ \A f \in inflight : /\ QueryTtl > 0 /\ f.ttl = QueryTtl
                           /\ f.val >= past[IF f.late THEN 1 ELSE 0]
    /\ \A n \in Nodes : \A e \in cached[n] :
         /\ QueryTtl > 0 /\ e.ttl = QueryTtl /\ e.age <= e.ttl
         /\ e.val >= past[e.age + 1]
    /\ StaleForOneTtl

\* A step that answers nobody and leaves the results alone can only help: the
\* replicas move forwards.
LEMMA QuietStep ==
    ASSUME ProxyTypeOK, ProxyTypeOK', AgeInv, UNCHANGED <<query, past, inflight>>,
           \A n \in Nodes : cached'[n] \subseteq cached[n],
           \A r \in Replicas : applied[r] <= applied'[r],
           answers' = {}
    PROVE  AgeInv'
<1>1. Slowest <= Slowest'
  <2>1. PICK r \in Replicas : Slowest' = applied'[r]
    BY SlowestNext
  <2>2. /\ Slowest <= applied[r] /\ applied[r] <= applied'[r] /\ Slowest \in Nat
        /\ applied[r] \in Nat /\ applied'[r] \in Nat
    BY SlowestFacts DEF ProxyTypeOK
  <2>3. QED
    BY <2>1, <2>2
<1>2. past[0] \in Nat
  BY ProxyAssumption DEF ProxyTypeOK
<1>3. past'[0] <= Slowest'
  BY <1>1, <1>2, SlowestFacts, SlowestNext DEF AgeInv
<1>4. QueryTtl' = QueryTtl
  BY DEF QueryTtl
<1>5. StaleForOneTtl'
  BY DEF StaleForOneTtl
<1>6. QED
  BY <1>3, <1>4, <1>5 DEF AgeInv

\* What a query that is not for the primary may be answered with.
LEMMA FreshAnswer ==
    ASSUME ProxyTypeOK, NEW val \in Nat, query # "lock",
           IF query = "topCustomers" THEN val >= Slowest ELSE val >= past[QueryTtl + 1]
    PROVE  CASE query = "lock"         -> val = executed
             [] query = "topCustomers" -> val >= Slowest
             [] query = "orderCount"   -> val >= past[CountTtl + 1]
             [] OTHER                  -> val >= past[CatalogTtl + 1]
<1>1. query \in {"product", "productCount", "orderCount", "topCustomers"}
  BY ProxyAssumption DEF ProxyTypeOK
<1>2. QED
  BY <1>1 DEF QueryTtl

LEMMA NextKeepsAgeInv ==
    ProxyTypeOK /\ ProxyTypeOK' /\ AgeInv /\ [ProxyNext]_proxyVars => AgeInv'
<1> SUFFICES ASSUME ProxyTypeOK, ProxyTypeOK', AgeInv, [ProxyNext]_proxyVars PROVE AgeInv'
  OBVIOUS
<1> USE ProxyAssumption
<1>1. /\ CountTtl = 1 /\ CatalogTtl \in Nat \ {0}
      /\ QueryTtl \in 0..CatalogTtl
      /\ DOMAIN past = 0..(CatalogTtl + 1)
      /\ \A k \in 0..(CatalogTtl + 1) : past[k] \in Nat
      /\ \A j, k \in 0..(CatalogTtl + 1) : j <= k => past[k] <= past[j]
  BY DEF CountTtl, QueryTtl, ProxyTypeOK, AgeInv
<1>2. CASE UNCHANGED proxyVars
  BY <1>2 DEF proxyVars, AgeInv, StaleForOneTtl, QueryTtl, Slowest
<1>3. CASE Change \/ Flush \/ AddRule
  <2>1. \A n \in Nodes : cached'[n] \subseteq cached[n]
    BY <1>3 DEF Change, Flush, AddRule, ProxyTypeOK
  <2>2. QED
    BY <1>3, <2>1, QuietStep DEF Change, Flush, AddRule, ProxyTypeOK
<1>4. ASSUME NEW n \in Nodes, Sync(n) PROVE AgeInv'
  BY <1>4, QuietStep DEF Sync, ProxyTypeOK
<1>5. ASSUME NEW r \in Replicas, Replicate(r) PROVE AgeInv'
  <2>1. \A q \in Replicas : applied[q] <= applied'[q]
    BY <1>5 DEF Replicate, ProxyTypeOK
  <2>2. QED
    BY <1>5, <2>1, QuietStep DEF Replicate
\* A hit changes nothing but what is answered, the value of the entry.
<1>6. ASSUME NEW n \in Nodes, Hit(n) PROVE AgeInv'
  <2>1. PICK e \in cached[n] : answers' = {e.val}
    BY <1>6 DEF Hit
  <2>2. e \in CacheEntry /\ e.val \in Nat /\ e.age \in Nat
    BY <2>1 DEF ProxyTypeOK, CacheEntry
  <2>3. QueryTtl > 0 /\ e.age <= QueryTtl /\ e.val >= past[e.age + 1]
    BY <2>1 DEF AgeInv
  <2>4. e.val >= past[QueryTtl + 1]
    <3>1. /\ e.age + 1 \in 0..(CatalogTtl + 1) /\ QueryTtl + 1 \in 0..(CatalogTtl + 1)
          /\ e.age + 1 <= QueryTtl + 1
      <4>1. PICK ttl \in Nat, top \in Nat : ttl = QueryTtl /\ top = CatalogTtl /\ ttl <= top
        BY <1>1
      <4>2. PICK age \in Nat : age = e.age /\ age <= ttl
        BY <2>2, <2>3, <4>1
      <4>3. age + 1 \in 0..(top + 1) /\ ttl + 1 \in 0..(top + 1) /\ age + 1 <= ttl + 1
        BY <4>1, <4>2
      <4>4. QED
        BY <4>1, <4>2, <4>3
    <3>2. past[QueryTtl + 1] <= past[e.age + 1]
      BY <1>1, <3>1
    <3>3. past[QueryTtl + 1] \in Nat /\ past[e.age + 1] \in Nat
      BY <1>1, <3>1
    <3>4. QED
      BY <2>2, <2>3, <3>2, <3>3
  <2>5. query # "lock" /\ query # "topCustomers"
    BY <2>3 DEF QueryTtl
  <2>6. UNCHANGED <<query, executed, applied, inflight, past, cached>>
    BY <1>6 DEF Hit, AfterHit
  <2>7. StaleForOneTtl'
    BY <2>1, <2>2, <2>4, <2>5, <2>6, FreshAnswer DEF StaleForOneTtl, Slowest
  <2>8. QED
    BY <2>6, <2>7 DEF AgeInv, QueryTtl, Slowest
<1>7. ASSUME NEW n \in Nodes, Execute(n) PROVE AgeInv'
  <2>1. /\ FirstMatch(n).ttl = QueryTtl
        /\ FirstMatch(n).group = IF query = "lock" THEN 0 ELSE 1
    BY RuleOfQuery
  <2>2. PICK val : /\ val \in IF query = "lock" THEN {executed} ELSE Range(applied)
                   /\ answers' = {val}
                   /\ inflight' = IF QueryTtl = 0 THEN inflight ELSE inflight \cup
                        {[node |-> n, val |-> val, ttl |-> QueryTtl, late |-> FALSE]}
    <3> DEFINE ttl == FirstMatch(n).ttl
               group == FirstMatch(n).group
    <3>1. PICK val : /\ val \in IF group = 0 THEN {executed} ELSE Range(applied)
                     /\ answers' = {val}
                     /\ inflight' = IF ttl = 0 THEN inflight ELSE inflight \cup
                          {[node |-> n, val |-> val, ttl |-> ttl, late |-> FALSE]}
      BY <1>7 DEF Execute
    <3>2. ttl = QueryTtl /\ (group = 0 <=> query = "lock")
      BY <2>1
    <3> HIDE DEF ttl, group
    <3>3. QED
      BY <3>1, <3>2
  <2>3. UNCHANGED <<query, executed, applied, cached, past>>
    BY <1>7 DEF Execute
  <2>4. val \in Nat /\ (query # "lock" => val >= Slowest)
    <3>1. CASE query = "lock"
      BY <2>2, <3>1 DEF ProxyTypeOK
    <3>2. CASE query # "lock"
      <4>1. PICK r \in Replicas : val = applied[r]
        BY <2>2, <3>2 DEF Range, ProxyTypeOK
      <4>2. QED
        BY <4>1, SlowestFacts DEF ProxyTypeOK
    <3>3. QED
      BY <3>1, <3>2
  <2>5. query # "lock" => \A k \in 0..(CatalogTtl + 1) : val >= past[k]
    <3>1. past[0] <= Slowest /\ Slowest \in Nat
      BY SlowestFacts DEF AgeInv
    <3>2. SUFFICES ASSUME query # "lock", NEW k \in 0..(CatalogTtl + 1)
                   PROVE  val >= past[k]
      OBVIOUS
    <3>3. past[k] <= past[0] /\ past[k] \in Nat /\ past[0] \in Nat
      BY <1>1
    <3>4. QED
      BY <2>4, <3>1, <3>2, <3>3
  <2>6. StaleForOneTtl'
    <3>1. CASE query = "lock"
      BY <2>2, <2>3, <3>1 DEF StaleForOneTtl
    <3>2. CASE query # "lock"
      <4>1. val >= past[QueryTtl + 1]
        BY <1>1, <2>5, <3>2
      <4>2. QED
        BY <2>2, <2>3, <2>4, <3>2, <4>1, FreshAnswer DEF StaleForOneTtl, Slowest
    <3>3. QED
      BY <3>1, <3>2
  <2>7. ASSUME NEW f \in inflight'
        PROVE  QueryTtl > 0 /\ f.ttl = QueryTtl /\ f.val >= past[IF f.late THEN 1 ELSE 0]
    <3>1. CASE f \in inflight
      BY <3>1 DEF AgeInv
    <3>2. CASE f \notin inflight
      <4>1. /\ QueryTtl # 0
            /\ f = [node |-> n, val |-> val, ttl |-> QueryTtl, late |-> FALSE]
        BY <2>2, <2>7, <3>2
      <4>2. query # "lock"
        BY <4>1 DEF QueryTtl
      <4>3. QED
        BY <1>1, <2>5, <4>1, <4>2
    <3>3. QED
      BY <3>1, <3>2
  <2>8. QED
    BY <2>3, <2>6, <2>7 DEF AgeInv, QueryTtl, Slowest
<1>8. ASSUME NEW f \in inflight, Store(f) PROVE AgeInv'
  <2>1. f.node \in Nodes /\ f.val \in Nat
    BY DEF ProxyTypeOK, Flight
  <2>2. QueryTtl > 0 /\ f.ttl = QueryTtl /\ f.val >= past[1]
    <3>1. f.val >= past[IF f.late THEN 1 ELSE 0]
      BY DEF AgeInv
    <3>2. past[1] <= past[0] /\ past[1] \in Nat /\ past[0] \in Nat
      BY <1>1
    <3>3. QED
      BY <2>1, <3>1, <3>2 DEF AgeInv
  <2>3. ASSUME NEW n \in Nodes, NEW e \in cached'[n]
        PROVE  /\ QueryTtl > 0 /\ e.ttl = QueryTtl /\ e.age <= e.ttl
               /\ e.val >= past[e.age + 1]
    <3>1. CASE e \in cached[n]
      BY <3>1 DEF AgeInv
    <3>2. CASE e \notin cached[n]
      <4>1. e = [val |-> f.val, age |-> 0, ttl |-> f.ttl]
        BY <1>8, <2>3, <3>2 DEF Store, ProxyTypeOK
      <4>2. QED
        BY <1>1, <2>2, <4>1
    <3>3. QED
      BY <3>1, <3>2
  <2>4. /\ UNCHANGED <<query, executed, applied, past>>
        /\ answers' = {} /\ inflight' \subseteq inflight
    BY <1>8 DEF Store
  <2>5. QED
    BY <2>3, <2>4 DEF AgeInv, QueryTtl, Slowest, StaleForOneTtl
\* Every date moves one tick into the past, and so does every result.
<1>9. CASE Tick
  <2>1. /\ UNCHANGED <<query, executed, applied>> /\ answers' = {}
        /\ past' = [k \in 0..(CatalogTtl + 1) |-> IF k = 0 THEN Slowest ELSE past[k - 1]]
        /\ \A f \in inflight : f.late = FALSE
    BY <1>1, <1>9 DEF Tick, ProxyTypeOK, Flight
  <2>2. past[0] <= Slowest /\ Slowest \in Nat
    BY SlowestFacts DEF AgeInv
  <2>3. past'[0] = Slowest' /\ Slowest' = Slowest /\ past'[0] <= Slowest'
    BY <1>1, <2>1, <2>2 DEF Slowest
  <2>4. ASSUME NEW j \in 0..(CatalogTtl + 1), NEW k \in 0..(CatalogTtl + 1), j <= k
        PROVE  past'[k] <= past'[j]
    <3>1. CASE k = 0
      BY <2>1, <2>2, <2>4, <3>1
    <3>2. CASE k # 0 /\ j = 0
      <4>1. past[k - 1] <= past[0] /\ past[k - 1] \in Nat /\ past[0] \in Nat
        BY <1>1, <3>2
      <4>2. QED
        BY <2>1, <2>2, <3>2, <4>1
    <3>3. CASE k # 0 /\ j # 0
      <4>1. j - 1 \in 0..(CatalogTtl + 1) /\ k - 1 \in 0..(CatalogTtl + 1) /\ j - 1 <= k - 1
        BY <1>1, <2>4, <3>3
      <4>2. QED
        BY <1>1, <2>1, <3>3, <4>1
    <3>4. QED
      BY <3>1, <3>2, <3>3
  <2>5. ASSUME NEW g \in inflight'
        PROVE  QueryTtl > 0 /\ g.ttl = QueryTtl /\ g.val >= past'[IF g.late THEN 1 ELSE 0]
    <3>1. PICK f \in inflight : g = [f EXCEPT !.late = TRUE]
      BY <1>9, <2>5 DEF Tick
    <3>2. g.val = f.val /\ g.ttl = f.ttl /\ g.late = TRUE
      BY <3>1, Delayed DEF ProxyTypeOK
    <3>3. f.late = FALSE /\ QueryTtl > 0 /\ f.ttl = QueryTtl
          /\ f.val >= past[IF f.late THEN 1 ELSE 0]
      BY <2>1 DEF AgeInv
    <3>4. past'[1] = past[0]
      BY <1>1, <2>1
    <3>5. QED
      BY <3>2, <3>3, <3>4
  <2>6. ASSUME NEW n \in Nodes, NEW e \in cached'[n]
        PROVE  /\ QueryTtl > 0 /\ e.ttl = QueryTtl /\ e.age <= e.ttl
               /\ e.val >= past'[e.age + 1]
    <3>1. cached'[n] = Aged(cached[n]) /\ cached[n] \in SUBSET CacheEntry
      BY <1>9 DEF Tick, ProxyTypeOK
    <3>2. PICK d \in cached[n] : /\ d.age < d.ttl
                                 /\ e.val = d.val /\ e.age = d.age + 1 /\ e.ttl = d.ttl
      BY <2>6, <3>1, AgedType
    <3>3. d.age \in Nat
      BY <3>1 DEF CacheEntry
    <3>4. QueryTtl > 0 /\ d.ttl = QueryTtl /\ d.val >= past[d.age + 1]
      BY <3>2 DEF AgeInv
    <3>5. past'[e.age + 1] = past[d.age + 1]
      <4>1. PICK ttl \in Nat, top \in Nat : ttl = QueryTtl /\ top = CatalogTtl /\ ttl <= top
        BY <1>1
      <4>2. PICK age \in Nat : age = d.age /\ age < ttl /\ e.age = age + 1
        BY <3>2, <3>3, <3>4, <4>1
      <4>3. e.age + 1 \in 0..(top + 1) /\ e.age + 1 # 0 /\ (e.age + 1) - 1 = d.age + 1
        BY <4>1, <4>2
      <4>4. QED
        BY <2>1, <4>1, <4>3
    <3>6. e.age <= e.ttl
      BY <1>1, <3>2, <3>3, <3>4
    <3>7. QED
      BY <3>2, <3>4, <3>5, <3>6
  <2>7. DOMAIN past' = 0..(CatalogTtl + 1)
    BY <2>1
  <2>8. QueryTtl' = QueryTtl /\ StaleForOneTtl'
    BY <2>1 DEF QueryTtl, StaleForOneTtl
  <2>9. QED
    BY <2>3, <2>4, <2>5, <2>6, <2>7, <2>8 DEF AgeInv
<1>10. QED
  BY <1>2, <1>3, <1>4, <1>5, <1>6, <1>7, <1>8, <1>9 DEF ProxyNext

(* Whichever node answers and whoever flushes or adds rules meanwhile, an  *)
(* answer is no older than one cache_ttl of its query and the time of one  *)
(* query; FOR UPDATE is answered by the primary, as it stands.             *)
THEOREM AnswersAreFresh == ProxySpec => []StaleForOneTtl
<1>1. ProxyInit => AgeInv
  <2> SUFFICES ASSUME ProxyInit PROVE AgeInv
    OBVIOUS
  <2>1. ProxyTypeOK
    BY ProxyAssumption DEF ProxyInit, ProxyTypeOK
  <2>2. Slowest \in Nat
    BY <2>1, SlowestFacts
  <2>3. QED
    BY <2>2, ProxyAssumption DEF ProxyInit, AgeInv, StaleForOneTtl
<1>2. AgeInv => StaleForOneTtl
  BY DEF AgeInv
<1>3. QED
  BY <1>1, <1>2, NextKeepsAgeInv, ProxyTypeCorrect, PTL DEF ProxySpec

=============================================================================
