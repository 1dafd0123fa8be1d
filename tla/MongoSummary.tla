----------------------------- MODULE MongoSummary -----------------------------
(***************************************************************************)
(* pt-mongodb-summary: main asks the node it is connected to, and through  *)
(* the host list the others, for one section of the report after another.  *)
(* Most errors leave a section empty and go on.  The running operations    *)
(* are sampled once per tick while the server works and may restart.       *)
(***************************************************************************)
EXTENDS MongoCluster, Integers

CONSTANTS SummaryPlaces, \* [cluster, host] to connect to
          Samples,       \* --running-ops-samples
          OpNames,       \* the opcounters: insert, query, update, ...
          Catalogues,    \* database -> [listable, colls], a sequence of [sharded]
          Changelogs,    \* what the changelog groups to: sets of [event, note, count]
          MaxOps,        \* bound on what the server does meanwhile
          MaxErrors      \* bound on the calls that fail

ASSUME SummaryAssumption ==
    /\ Samples \in Nat \ {0} /\ MaxOps \in Nat /\ MaxErrors \in Nat
    /\ \A p \in SummaryPlaces : IsFiniteSet(DOMAIN p.cluster)
    /\ \A cat \in Catalogues : /\ IsFiniteSet(DOMAIN cat)
                               /\ \A d \in DOMAIN cat : Len(cat[d].colls) \in Nat

VARIABLES site,        \* the cluster and the host of the command line
          catalogue,   \* databases and collections
          changelog,   \* the sharding changelog of the last ten days
          sumPc,       \* the next section; "printed" or "exit" at the end
          live,        \* opcounters of the server
          done,        \* operations and restarts of the server, at most MaxOps
          readings,    \* ghost: the serverStatus answers main has seen
          restarted,   \* ghost: the server restarted after the first of them
          previous,    \* prevOpCount
          ops,         \* RunningOps: [name -> [total, min, max]], or <<>>
          sections,    \* the other collected sections: name -> content
          lost         \* calls that have failed

sumVars == <<site, catalogue, changelog, sumPc, live, done, readings, restarted,
             previous, ops, sections, lost>>
world == <<site, catalogue, changelog>>
opsState == <<readings, restarted, previous, ops>>

SummaryInit ==
    /\ site \in SummaryPlaces /\ catalogue \in Catalogues /\ changelog \in Changelogs
    /\ sumPc = "mongos" /\ live = [n \in OpNames |-> 0] /\ done = 0
    /\ readings = <<>> /\ restarted = FALSE /\ previous = <<>> /\ ops = <<>>
    /\ sections = <<>> /\ lost = 0

(* The server counts an operation, or restarts and begins again at 0. *)
Serve == /\ done < MaxOps /\ sumPc = "ops"
         /\ done' = done + 1
         /\ \/ /\ \E n \in OpNames : live' = [live EXCEPT ![n] = @ + 1]
               /\ UNCHANGED restarted
            \/ /\ live' = [n \in OpNames |-> 0]
               /\ restarted' = (restarted \/ readings # <<>>)
         /\ UNCHANGED <<world, sumPc, readings, previous, ops, sections, lost>>

Call(ok) == /\ ok \in BOOLEAN
            /\ ~ok => lost < MaxErrors
            /\ lost' = IF ok THEN lost ELSE lost + 1
Section(name, value) ==
    sections' = [n \in DOMAIN sections \cup {name} |-> IF n = name THEN value ELSE sections[n]]
Same == UNCHANGED <<world, live, done, opsState>>

MongosInfo == /\ sumPc = "mongos" /\ sumPc' = "host"
              /\ \E ok \in BOOLEAN : Call(ok) /\ Section("mongos", ok)
              /\ Same

(* getHostInfo: only hostInfo itself is needed; without it main exits. *)
HostInfo == /\ sumPc = "host"
            /\ \E ok \in BOOLEAN :
                  /\ Call(ok)
                  /\ sumPc' = IF ok THEN "members" ELSE "exit"
            /\ Section("node", NodeType(site.cluster, site.host))
            /\ Same

Members == /\ sumPc = "members" /\ sumPc' = "ops"
           /\ Section("members", GetReplicasetMembers(site.cluster, site.host).members)
           /\ UNCHANGED lost /\ Same

(* getOpCountersStats: one reading per tick, the first only as a base.     *)
(* Mutant: the base stays the first reading.                               *)
BaseKept(reading) == IF previous = <<>> THEN reading ELSE previous
Base(reading) == reading
Gain(reading, n) == reading[n] - previous[n]
Sampled(reading) ==
    CASE previous = <<>> -> <<>>
      [] previous # <<>> /\ ops = <<>> ->
           [n \in OpNames |-> [total |-> Gain(reading, n), min |-> Gain(reading, n),
                               max |-> Gain(reading, n)]]
      [] OTHER ->
           [n \in OpNames |->
              LET g == Gain(reading, n)
              IN  [total |-> ops[n].total + g,
                   max |-> IF g > ops[n].max THEN g ELSE ops[n].max,
                   min |-> IF g < ops[n].min THEN g ELSE ops[n].min]]
Sample == /\ sumPc = "ops" /\ Len(readings) < Samples + 1
          /\ readings' = Append(readings, live)
          /\ ops' = Sampled(live)
          /\ previous' = Base(live)
          /\ sumPc' = IF Len(readings) = Samples THEN "security" ELSE "ops"
          /\ UNCHANGED <<world, live, done, restarted, sections, lost>>
(* A reading that fails throws the samples away. *)
SampleFails == /\ sumPc = "ops" /\ Call(FALSE)
               /\ ops' = <<>> /\ sumPc' = "security"
               /\ UNCHANGED <<world, live, done, readings, restarted, previous, sections>>

(* getSecuritySettings: the command line, and then users and roles, which  *)
(* are tried twice.                                                        *)
Security == /\ sumPc = "security" /\ sumPc' = "oplog"
            /\ \E failures \in 0..2 : \E cmdline \in BOOLEAN :
                  /\ lost' = lost + IF cmdline THEN failures ELSE 1
                  /\ lost' <= MaxErrors
                  /\ Section("security", cmdline /\ failures < 2)
            /\ Same

(* GetOplogInfo asks every host and gives up at the first error; a host    *)
(* that refuses its status is passed over.  main keeps the first of those  *)
(* with the shortest window, in an order that sort.Sort does not fix.      *)
Windows == {[host |-> h, hours |-> site.cluster[h].window] :
              h \in {g \in GetHostnames(site.cluster, site.host).hosts : HasStatus(site.cluster, g)}}
Shortest == {w \in Windows : \A v \in Windows : w.hours <= v.hours}
Oplog == /\ sumPc = "oplog" /\ sumPc' = "cluster"
         /\ \E ok \in BOOLEAN :
               /\ Call(ok)
               /\ IF ok /\ Windows # {} THEN \E w \in Shortest : Section("oplog", <<w>>)
                  ELSE Section("oplog", <<>>)
         /\ Same

(* getClusterwideInfo, of a mongos only.  A database whose collections     *)
(* cannot be listed is skipped but counted, and so are the collections     *)
(* behind the place where a cursor breaks off, whose error nobody asks     *)
(* for; any other error loses all.  A data size is given by the            *)
(* collections it is the sum of.                                           *)
Listed == {d \in DOMAIN catalogue : catalogue[d].listable}
Collections == UNION {{<<d, i>> : i \in 1 .. Len(catalogue[d].colls)} : d \in Listed}
Sharded(c) == catalogue[c[1]].colls[c[2]].sharded
ClusterInfo(seen) ==
    LET sharded == {c \in seen : Sharded(c)}
    IN  [dbs |-> Cardinality(DOMAIN catalogue), colls |-> Cardinality(seen),
         shardedColls |-> Cardinality(sharded),
         unshardedColls |-> Cardinality(seen) - Cardinality(sharded),
         shardedSize |-> sharded, unshardedSize |-> seen \ sharded]
BrokenOff == {seen \in SUBSET Collections :
                \A c \in seen : \A i \in 1 .. c[2] : <<c[1], i>> \in seen}
Cluster ==
    /\ sumPc = "cluster" /\ sumPc' = "balancer"
    /\ IF sections["node"] # "mongos" THEN UNCHANGED <<sections, lost>>
       ELSE \/ Call(FALSE) /\ Section("cluster", <<>>)
            \/ \E seen \in BrokenOff : /\ Call(seen = Collections)
                                       /\ Section("cluster", <<ClusterInfo(seen)>>)
    /\ Same

(* GetBalancerStats: moves by success, splits, and drops, of which only    *)
(* the kinds are counted.  This cursor may break off as well.              *)
Moves == {"moveChunk.to", "moveChunk.from", "moveChunk.commit"}
CountOf(item) == item.count
Stats(seen) ==
    LET of(events) == {i \in seen : i.event \in events}
        good == {i \in of(Moves) : i.note \in {"success", ""}}
    IN  [success |-> MapThenSumSet(CountOf, good),
         failed |-> MapThenSumSet(CountOf, of(Moves) \ good),
         splits |-> MapThenSumSet(CountOf, of({"split", "multi-split"})),
         drops |-> Cardinality(of({"dropCollection", "dropCollection.start",
                                   "dropDatabase", "dropDatabase.start"}))]
Balancer ==
    /\ sumPc = "balancer" /\ sumPc' = "printed"
    /\ IF sections["node"] = "mongos"
       THEN \/ Call(FALSE) /\ UNCHANGED sections
            \/ \E seen \in SUBSET changelog : /\ Call(seen = changelog)
                                               /\ Section("balancer", Stats(seen))
       ELSE UNCHANGED <<sections, lost>>
    /\ Same

SummaryMain == \/ MongosInfo \/ HostInfo \/ Members \/ Sample \/ SampleFails
               \/ Security \/ Oplog \/ Cluster \/ Balancer
SummaryNext == SummaryMain \/ Serve

-----------------------------------------------------------------------------
(* The printed numbers fit together and belong to what main has seen.  The *)
(* running operations total what the counters gained from the first        *)
(* reading to the last, no interval gained less than min or more than max, *)
(* and only across a restart is a gain negative (getOpCountersStats);      *)
(* every host of the sets it reached is listed once, and a member that     *)
(* gave its status is primary only if it is (GetReplicasetMembers); no     *)
(* oplog is shorter than the one shown.  The numbers of sharded and of     *)
(* other collections make up the total, and are those of the collections   *)
(* whose sizes are summed; these are all that can be listed unless a call  *)
(* failed, of which the report of a cursor that broke off says nothing     *)
(* (getClusterwideInfo).                                                   *)
OpsAddUp ==
    ops # <<>> => \A n \in OpNames :
        LET gain(i) == readings[i + 1][n] - readings[i][n]
            gains == {gain(i) : i \in 1 .. Len(readings) - 1}
        IN  /\ ops[n].total = Last(readings)[n] - readings[1][n]
            /\ ops[n].min \in gains /\ ops[n].max \in gains
            /\ \A g \in gains : ops[n].min <= g /\ g <= ops[n].max
            /\ ~restarted => ops[n].min >= 0
Reached == GetHostnames(site.cluster, site.host).hosts
MembersAreReal ==
    "members" \in DOMAIN sections =>
        /\ Reached \subseteq DOMAIN sections["members"]
        /\ \A h \in DOMAIN sections["members"] :
             /\ sections["members"][h].primary => site.cluster[h].state = Primary
             /\ HasStatus(site.cluster, h) /\ Answers(site.cluster, h, "serverStatus") =>
                    sections["members"][h].set = site.cluster[h].set
OplogIsShortest ==
    "oplog" \in DOMAIN sections /\ sections["oplog"] # <<>> =>
        \A h \in Reached : HasStatus(site.cluster, h) =>
            sections["oplog"][1].hours <= site.cluster[h].window
ClusterIsCounted ==
    "cluster" \in DOMAIN sections /\ sections["cluster"] # <<>> =>
        LET info == sections["cluster"][1]
            seen == info.shardedSize \cup info.unshardedSize
        IN  /\ seen \subseteq Collections /\ (lost = 0 => seen = Collections)
            /\ info.shardedSize = {c \in seen : Sharded(c)}
            /\ info.shardedColls = Cardinality(info.shardedSize)
            /\ info.unshardedColls = Cardinality(seen \ info.shardedSize)
            /\ info.shardedColls + info.unshardedColls = info.colls
SummaryAddsUp ==
    sumPc = "printed" => OpsAddUp /\ MembersAreReal /\ OplogIsShortest /\ ClusterIsCounted
=============================================================================
