--------------------------------- MODULE Lab ----------------------------------
(***************************************************************************)
(* Three parts of the lab that keep data where a client may find it old or *)
(* miss it: the cache patterns, ProxySQL's query cache and the recovery    *)
(* walkthrough.  Their scripts run one at a time, each between the clients *)
(* of its own module, and share no state: one demonstration is chosen, and *)
(* the variables of the others keep their initial value.                   *)
(***************************************************************************)
EXTENDS CachePatterns, ProxySql, Pitr

VARIABLE demo   \* "patterns", "proxysql" or "pitr"

labVars == <<demo, vars, proxyVars, pitrVars>>

LabInit == /\ demo \in {"patterns", "proxysql", "pitr"}
           /\ Init /\ ProxyInit /\ PitrInit
           /\ demo = "proxysql" \/ query = CHOOSE q \in Queries : TRUE

LabNext ==
    /\ UNCHANGED demo
    /\ \/ demo = "patterns" /\ Next      /\ UNCHANGED <<proxyVars, pitrVars>>
       \/ demo = "proxysql" /\ ProxyNext /\ UNCHANGED <<vars, pitrVars>>
       \/ demo = "pitr"     /\ PitrNext  /\ UNCHANGED <<vars, proxyVars>>

(* That of the modules; the others' actions are not enabled.               *)
LabFairness ==
    /\ \A p \in Processes : WF_vars(demo = "patterns" /\ Caching(p))
    /\ \A w \in Writers : WF_vars(demo = "patterns" /\ (Del(w) \/ WriteThrough(w)))
    /\ WF_vars(demo = "patterns" /\ TtlEnds)
    /\ WF_proxyVars(demo = "proxysql" /\ Tick)
    /\ \A f \in Flights : WF_proxyVars(demo = "proxysql" /\ Store(f))
    /\ \A r \in Replicas : WF_proxyVars(demo = "proxysql" /\ Replicate(r))

LabSpec == LabInit /\ [][LabNext]_labVars /\ LabFairness
=============================================================================
