----------------------------- MODULE MongoCluster -----------------------------
(***************************************************************************)
(* What the MongoDB tools know of a cluster: the host names they find from *)
(* the node they are connected to, and the replica set members they list   *)
(* by asking each of those hosts.                                          *)
(*                                                                         *)
(* A cluster is a function from hosts to nodes                             *)
(*   [kind, set, role, state, profile, window, answers]                    *)
(* with kind "mongos", "member" or "standalone", role the clusterRole of   *)
(* the command line, profile the profiling level, window the length of the *)
(* oplog, and answers the commands the node answers at all: hidden or dead *)
(* members, or a user without the privilege, answer fewer.                 *)
(***************************************************************************)
EXTENDS Naturals, Sequences, Functions, FiniteSets, SequencesExt

Answers(c, h, command) == command \in c[h].answers
HasStatus(c, h) == c[h].kind = "member" /\ Answers(c, h, "replSetGetStatus")
SetOf(c, h) == {g \in DOMAIN c : c[g].kind = "member" /\ c[g].set = c[h].set}
InRole(c, role) == {g \in DOMAIN c : c[g].kind = "member" /\ c[g].role = role}
Primary == "PRIMARY"

(* The host lists are sorted by name; SetToSeq fixes one order. *)
Sorted(hosts) == SetToSeq(hosts)

(* GetHostnames: the members of one's own replica set; or else the hosts   *)
(* of the shard map, if it names config servers.  A member that refused    *)
(* its status and knows the config servers answers with those alone.       *)
ShardMapHosts(c, h) ==
    CASE c[h].kind = "mongos" -> InRole(c, "shardsvr") \cup InRole(c, "configsvr")
      [] c[h].kind = "member" -> InRole(c, "configsvr")
      [] OTHER -> {}
GetHostnames(c, h) ==
    CASE HasStatus(c, h) -> [err |-> "", hosts |-> SetOf(c, h)]
      [] ~HasStatus(c, h) /\ Answers(c, h, "getShardMap") ->
           IF ShardMapHosts(c, h) = {}
           THEN [err |-> "sharding not enabled", hosts |-> {}]
           ELSE [err |-> "", hosts |-> ShardMapHosts(c, h)]
      [] OTHER -> [err |-> "cannot getShardMap", hosts |-> {}]

(* A host that does not give the status of its set gets an entry with its  *)
(* role only, in place of what other members may have said of it.          *)
Role(c, h) == IF Answers(c, h, "getCmdLineOpts") /\ c[h].role # ""
              THEN <<c[h].role>> ELSE <<>>
Unknown(c, h) == [set |-> "", state |-> Role(c, h), primary |-> FALSE,
                  pid |-> IF Answers(c, h, "serverStatus") THEN h ELSE ""]
(* What h says of member g: the pid is that of h, whoever g is. *)
Told(c, h, g) ==
    LET known == Answers(c, h, "serverStatus")
    IN  [set |-> c[h].set, primary |-> c[g].state = Primary,
         state |-> (IF known THEN Role(c, h) ELSE <<>>) \o <<c[g].state>>,
         pid |-> IF known THEN h ELSE ""]

NewMembers(c, h, listed) == SetOf(c, h) \ DOMAIN listed
AskHost(c, listed, h) ==
    LET new == NewMembers(c, h, listed) IN
    IF HasStatus(c, h)
    THEN [g \in DOMAIN listed \cup new |-> IF g \in new THEN Told(c, h, g) ELSE listed[g]]
    ELSE [g \in DOMAIN listed \cup {h} |-> IF g = h THEN Unknown(c, h) ELSE listed[g]]

(* GetReplicasetMembers: host -> member, or the error of GetHostnames. *)
GetReplicasetMembers(c, h) ==
    LET names == GetHostnames(c, h)
        hosts == Sorted(names.hosts)
        asked[n \in 0 .. Len(hosts)] ==
          IF n = 0 THEN <<>> ELSE AskHost(c, asked[n - 1], hosts[n])
    IN  [err |-> names.err, members |-> asked[Len(hosts)]]

(* getNodeType, whose error both callers ignore. *)
NodeType(c, h) ==
    CASE ~Answers(c, h, "isMaster") -> ""
      [] Answers(c, h, "isMaster") /\ c[h].kind = "member" -> "replset"
      [] Answers(c, h, "isMaster") /\ c[h].kind = "mongos" -> "mongos"
      [] OTHER -> "mongod"

(* isProfilerEnabled of pt-mongodb-query-digest: of the listed hosts, the  *)
(* config servers and the secondaries are passed over, and so are those    *)
(* that do not answer; one of the others without profiling means no.  A    *)
(* server that stands alone is asked itself, and no answer means no.       *)
PassedOver(c, g, member) ==
    \/ member.state = <<"configsvr">>
    \/ HasStatus(c, g) /\ ~member.primary
    \/ ~Answers(c, g, "profile")
ProfilerEnabled(c, h) ==
    LET found == GetReplicasetMembers(c, h) IN
    IF found.members = <<>>
    THEN Answers(c, h, "profile") /\ c[h].profile # 0
    ELSE \A g \in DOMAIN found.members :
            PassedOver(c, g, found.members[g]) \/ c[g].profile # 0
=============================================================================
