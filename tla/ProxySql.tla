------------------------------- MODULE ProxySql -------------------------------
(***************************************************************************)
(* The two ProxySQL nodes of the lab (config/proxysql.cnf), which HAProxy  *)
(* shares out clients over: the query rules, and a query cache in each     *)
(* node that one PROXYSQL FLUSH QUERY CACHE empties on one node only.      *)
(*                                                                         *)
(* Rules and caches treat each query text by itself, so a behaviour is     *)
(* about one query; what it returns is abstracted to the number of updates *)
(* that the server asked has applied.  A tick is 5 s, the TTL of rule 4.   *)
(* A query is on its way for less than a tick: other steps come between    *)
(* what the server reads and what the node stores.                         *)
(***************************************************************************)
EXTENDS Naturals, FiniteSetsExt, Functions

CONSTANTS
    Nodes, Admin,   \* the nodes; the one whose admin port is 6032
    Replicas,       \* hostgroup 1
    Queries,        \* queries that clients send, of those below
    CatalogTtl,     \* cache_ttl of rule 3 in ticks; that of rule 4 is one
    MaxUpdates      \* bound: updates of the tables

ASSUME ProxyAssumption == /\ Admin \in Nodes /\ IsFiniteSet(Replicas) /\ Replicas # {}
                          /\ Queries \subseteq {"lock", "product", "productCount",
                                               "orderCount", "topCustomers"}
                          /\ CatalogTtl \in Nat \ {0} /\ MaxUpdates \in Nat

VARIABLES
    query,     \* the query of this behaviour
    executed,  \* updates the primary has executed
    applied,   \* replica -> those it has applied
    rules,     \* node -> runtime mysql_query_rules: rule_id -> rule
    cached,    \* node -> its entry for the query: {} or {[val, age, ttl]}
    inflight,  \* results on their way to a node that will store them
    answers,   \* ghost: what this step answers to a client, if anything
    past,      \* ghost: at the start of the last ticks, the slowest replica
    flushed    \* ghost: the slowest replica at the last flush

proxyVars == <<query, executed, applied, rules, cached, inflight, answers, past, flushed>>

CountTtl == 1

(* mysql_query_rules; rule 1 is for a probe of ProxySQL's own.             *)
Configured ==
    [id \in 2..5 |-> CASE id = 2 -> [group |-> 0, ttl |-> 0]
                       [] id = 3 -> [group |-> 1, ttl |-> CatalogTtl]
                       [] id = 4 -> [group |-> 1, ttl |-> CountTtl]
                       [] id = 5 -> [group |-> 1, ttl |-> 0]]
(* What 14-load-simulation.sh adds for its benchmark query.                *)
Rule6 == [group |-> 1, ttl |-> 2]

(* The rules whose pattern a query matches:                                *)
(*   lock          SELECT ... FROM products ... FOR UPDATE                 *)
(*   product       SELECT ... FROM products                                *)
(*   productCount  SELECT COUNT(..) FROM products                          *)
(*   orderCount    SELECT COUNT(..) FROM orders                            *)
(*   topCustomers  the query of 14-load-simulation.sh                      *)
Matching == CASE query = "lock"         -> {2, 3, 5}
              [] query = "product"      -> {3, 5}
              [] query = "productCount" -> {3, 4, 5}
              [] query = "orderCount"   -> {4, 5}
              [] query = "topCustomers" -> {5, 6}

(* Rules are tried in the order of rule_id and all of them have apply = 1. *)
LastMatch(n) == rules[n][Max(Matching \cap DOMAIN rules[n])]   \* mutant
FirstMatch(n) == rules[n][Min(Matching \cap DOMAIN rules[n])]

Slowest == Min({applied[r] : r \in Replicas})

ProxyInit ==
    /\ query \in Queries
    /\ executed = 0 /\ applied = [r \in Replicas |-> 0]
    /\ rules = [n \in Nodes |-> Configured]
    /\ cached = [n \in Nodes |-> {}] /\ inflight = {}
    /\ answers = {} /\ flushed = 0
    /\ past = [k \in 0..(CatalogTtl + 1) |-> 0]

(* A write matches no rule and goes to the default hostgroup, the primary. *)
Change == /\ executed < MaxUpdates
          /\ executed' = executed + 1 /\ answers' = {}
          /\ UNCHANGED <<query, applied, rules, cached, inflight, past, flushed>>

(* External: replication. *)
Replicate(r) == /\ applied[r] < executed
                /\ applied' = [applied EXCEPT ![r] = @ + 1] /\ answers' = {}
                /\ UNCHANGED <<query, executed, rules, cached, inflight, past, flushed>>

(* External: an entry lives for its ttl from when it was stored, however   *)
(* often it is used.                                                       *)
Renewed(n) == [cached EXCEPT ![n] = {[e EXCEPT !.age = 0] : e \in @}]   \* mutant: idle time
AfterHit(n) == cached

Hit(n) ==
    /\ FirstMatch(n).ttl > 0
    /\ \E e \in cached[n] : answers' = {e.val}
    /\ cached' = AfterHit(n)
    /\ UNCHANGED <<query, executed, applied, rules, inflight, past, flushed>>

(* A miss, or a rule without cache_ttl: a server of the hostgroup reads.   *)
Execute(n) ==
    LET rule == FirstMatch(n) IN
    /\ rule.ttl > 0 => cached[n] = {}
    /\ \E val \in IF rule.group = 0 THEN {executed} ELSE Range(applied) :
         /\ answers' = {val}
         /\ inflight' = IF rule.ttl = 0 THEN inflight ELSE inflight \cup
                          {[node |-> n, val |-> val, ttl |-> rule.ttl, late |-> FALSE]}
    /\ UNCHANGED <<query, executed, applied, rules, cached, past, flushed>>

(* The result has come back and is stored.                                 *)
Store(f) ==
    /\ f \in inflight
    /\ inflight' = inflight \ {f}
    /\ cached' = [cached EXCEPT ![f.node] = {[val |-> f.val, age |-> 0, ttl |-> f.ttl]}]
    /\ answers' = {}
    /\ UNCHANGED <<query, executed, applied, rules, past, flushed>>

(* The scripts send PROXYSQL FLUSH QUERY CACHE to port 6032.               *)
Flush == /\ cached' = [cached EXCEPT ![Admin] = {}]
         /\ flushed' = Slowest /\ answers' = {}
         /\ UNCHANGED <<query, executed, applied, rules, inflight, past>>

(* INSERT OR IGNORE of rule 6, LOAD MYSQL QUERY RULES TO RUNTIME.          *)
AddRule == /\ 6 \notin DOMAIN rules[Admin]
           /\ rules' = [rules EXCEPT ![Admin] =
                 [id \in DOMAIN @ \cup {6} |-> IF id = 6 THEN Rule6 ELSE @[id]]]
           /\ answers' = {}
           /\ UNCHANGED <<query, executed, applied, cached, inflight, past, flushed>>

(* External: the cluster takes the newer rules from the other node.        *)
Sync(n) == /\ rules[n] # rules[Admin]
           /\ rules' = [rules EXCEPT ![n] = rules[Admin]] /\ answers' = {}
           /\ UNCHANGED <<query, executed, applied, cached, inflight, past, flushed>>

(* An entry whose time is over goes; a query in flight crosses one tick.   *)
Aged(entries) == {[e EXCEPT !.age = @ + 1] : e \in {d \in entries : d.age < d.ttl}}
Tick == /\ \A f \in inflight : ~f.late
        /\ inflight' = {[f EXCEPT !.late = TRUE] : f \in inflight}
        /\ cached' = [n \in Nodes |-> Aged(cached[n])]
        /\ past' = [k \in DOMAIN past |-> IF k = 0 THEN Slowest ELSE past[k - 1]]
        /\ answers' = {}
        /\ UNCHANGED <<query, executed, applied, rules, flushed>>

Flights == [node : Nodes, val : 0..MaxUpdates, ttl : 1..CatalogTtl, late : BOOLEAN]
ProxyNext == \/ Change \/ Flush \/ AddRule \/ Tick
             \/ (\E n \in Nodes : Hit(n) \/ Execute(n) \/ Sync(n))
             \/ (\E f \in inflight : Store(f))
             \/ (\E r \in Replicas : Replicate(r))

(* Time passes, results arrive and replicas catch up; nobody has to ask.   *)
ProxyFairness == /\ WF_proxyVars(Tick)
                 /\ \A f \in Flights : WF_proxyVars(Store(f))
                 /\ \A r \in Replicas : WF_proxyVars(Replicate(r))
ProxySpec == ProxyInit /\ [][ProxyNext]_proxyVars /\ ProxyFairness
-----------------------------------------------------------------------------
(* Whichever node answers, however often it is asked and whoever flushes   *)
(* or adds rules meanwhile: FOR UPDATE is answered by the primary, also    *)
(* over tables whose reads are cached; the benchmark query by a server,    *)
(* rule 6 or not; any other answer is no older than what the slowest       *)
(* replica had one cache_ttl and the time of one query ago, where that of  *)
(* a COUNT over products is the catalog's (proxysql.cnf:123-158).          *)
StaleForOneTtl ==
    \A val \in answers :
        CASE query = "lock"         -> val = executed
          [] query = "topCustomers" -> val >= Slowest
          [] query = "orderCount"   -> val >= past[CountTtl + 1]
          [] OTHER                  -> val >= past[CatalogTtl + 1]

(* Once nobody updates, no node keeps an old result, although clients ask  *)
(* for it all the time and nobody flushes the second node.                 *)
CachesCatchUp == <>[](\A n \in Nodes : \A e \in cached[n] : e.val = executed)

(* 15-cache-best-practices.sh:262, "ProxySQL FLUSH ... Zero (after flush)":*)
(* after the flush no answer is older than what all replicas had then.     *)
FlushEndsStaleness == \A val \in answers : val >= flushed
=============================================================================
