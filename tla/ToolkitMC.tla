------------------------------ MODULE ToolkitMC ------------------------------
(* Small instances of the collecting tools for TLC. *)
EXTENDS Toolkit

\* pt-k8s-debug-collector: two pods of the database, one without labels.
MCK8sOptions == [type : {"pxc", "auto", "pg"}, cluster : {"", "c1"},
                 namespace : {"", "n2"}, skip : BOOLEAN]
Pod(any, pg) == [any |-> any, inst |-> IF any THEN "c1" ELSE "",
                 comp |-> IF any THEN "pxc" ELSE "", pg |-> pg, pgv2 |-> FALSE]
MCLabels == [p1 |-> Pod(TRUE, TRUE), p2 |-> Pod(TRUE, FALSE), p3 |-> Pod(FALSE, FALSE)]
MCNamespaces == <<"n1", "n2">>
MCPods == [n1 |-> <<"p1", "p2">>, n2 |-> <<"p3">>]
MCGroups == <<"pg", "pxc">>

\* pt-secure-collect: two commands of one name; queries that end in each way, or do not.
MCCollect == [noCollect : BOOLEAN, noSanitize : BOOLEAN, noEncrypt : BOOLEAN,
              noRemove : BOOLEAN, password : {"", "pw"}]
Command(base, lines, allowed) == [base |-> base, lines |-> lines, allowed |-> allowed]
MCCommands == <<Command("mysql", <<"query", "end;", "text", "query", "rest">>, TRUE),
                Command("rm", <<>>, FALSE),
                Command("mysql", <<"text", "query", "text", "***", "query;">>, TRUE)>>
MCIncluded == [n \in {<<"mysql", 0>>} |-> <<"query;", "text">>]
MCLeftover == <<>>

\* A sharded cluster of which some members answer less.
Every == {"replSetGetStatus", "getShardMap", "getCmdLineOpts", "serverStatus", "isMaster",
          "profile"}
Node(kind, set, role, state, profile, window, answers) ==
    [kind |-> kind, set |-> set, role |-> role, state |-> state, profile |-> profile,
     window |-> window, answers |-> answers]
Cluster3(answers1, answers2, profile) ==
    [m |-> Node("mongos", "", "", "", 0, 0, Every),
     s1 |-> Node("member", "rs", "shardsvr", "PRIMARY", profile, 2, answers1),
     s2 |-> Node("member", "rs", "shardsvr", "SECONDARY", 0, 1, answers2),
     c1 |-> Node("member", "cfg", "configsvr", "PRIMARY", 0, 3, Every)]
Quiet == Every \ {"replSetGetStatus"}
MCDigestClusters == [cluster : {Cluster3(a, Quiet, p) : a \in {Every, {}}, p \in {0, 1}},
                     host : {"s1"}]
MCSummaryPlaces == {[cluster |-> Cluster3(Every, Quiet, 1), host |-> "m"],
                    [cluster |-> Cluster3(Every, Every, 1), host |-> "s2"],
                    [cluster |-> Cluster3({}, Every, 1), host |-> "m"]}

\* Documents of the profiler: the same find twice, sorted, an aggregation,
\* an update, and those that lack a field.
Str(s) == [t |-> "str", f |-> s]
Num == [t |-> "num", f |-> <<>>]
Doc(f) == [t |-> "doc", f |-> f]
Array(f) == [t |-> "array", f |-> f]
Find(filter) == <<<<"find", Str("c")>>, <<"filter", Doc(filter)>>>>
AB == <<<<"a", Num>>, <<"b", Doc(<<<<"$gt", Num>>>>)>>>>
BA == <<<<"b", Num>>, <<"a", Num>>>>
Aggregate == <<<<"aggregate", Str("c")>>,
               <<"pipeline", Array(<<Doc(<<<<"$match", Doc(<<<<"a", Num>>>>)>>>>)>>)>>>>
Update == <<<<"q", Doc(<<<<"a", Num>>>>)>>, <<"u", Doc(<<<<"b", Num>>>>)>>>>
D(shape, op, coll, command, examined, returned, time) ==
    [shape |-> shape, op |-> op, ns |-> <<"test", coll>>, command |-> command,
     examined |-> examined, returned |-> returned, time |-> time]
F1 == D("find", "query", "c", Find(AB), 10, 2, 5)
F2 == D("find", "query", "c", Find(BA), 4, 1, 9)
F3 == D("sorted", "query", "c", Append(Find(AB), <<"sort", Doc(<<<<"d", Num>>>>)>>), 7, 7, 1)
A1 == D("aggregate", "command", "c", Aggregate, 3, 1, 2)
U1 == D("update", "update", "c", Update, 1, 0, 4)
P1 == D("profile", "query", "system.profile", Find(AB), 1, 1, 1)
I0 == [shape |-> "insert", op |-> "insert", ns |-> <<"test", "c">>,
       command |-> <<<<"insert", Str("c")>>>>, time |-> 1]
Q0 == [shape |-> "old", op |-> "query", ns |-> <<"test", "c">>, query |-> Find(AB),
       examined |-> 1, returned |-> 1, time |-> 1]
Full == {F1, F2, F3, A1, U1, P1}
MCDocumentLists == {<<>>, <<Q0, A1, Q0, I0>>} \cup {<<p, F3, q, F1, p>> : p, q \in Full}
MCOrderBys == {<<"-count">>, <<"count", "-ratio">>, <<"query-time">>,
               <<"-docs-returned", "ratio">>, <<"-count", "docs-scanned">>}

\* pt-mongodb-summary.
Colls(are) == [i \in DOMAIN are |-> [sharded |-> are[i]]]
MCCatalogues == {[a |-> [listable |-> TRUE, colls |-> Colls(<<TRUE, FALSE>>)],
                  b |-> [listable |-> FALSE, colls |-> Colls(<<TRUE>>)],
                  c |-> [listable |-> TRUE, colls |-> Colls(<<TRUE>>)]]}
MCChangelogs == {{[event |-> "moveChunk.to", note |-> "aborted", count |-> 2],
                  [event |-> "split", note |-> "", count |-> 1]}}

\* pt-mongodb-index-check: three or four of six indexes, listed in one order.
Asc(name) == <<43, name>>
Desc(name) == <<45, name>>
Ix(name, key, used) == [name |-> name, key |-> key, ops |-> used]
MCIndexes == <<Ix("a_b_-a", <<Asc(<<1>>), Asc(<<2>>), Desc(<<1>>)>>, 0),
               Ix("a", <<Asc(<<1>>)>>, 0), Ix("-a", <<Desc(<<1>>)>>, 0),
               Ix("a_b", <<Asc(<<1>>), Asc(<<2>>)>>, 1),
               Ix("ab", <<Asc(<<1, 2>>)>>, 1), Ix("a2", <<Asc(<<1>>)>>, 1)>>
Chosen(S) == SelectSeq(MCIndexes, LAMBDA ix : ix \in S)
MCContents ==
    {"db" :> ("c" :> Chosen(S))
     @@ "local" :> ("o" :> <<Ix("_id_", <<Asc(<<3>>)>>, 1), Ix("a", <<Asc(<<1>>)>>, 0)>>) :
        S \in {T \in SUBSET Range(MCIndexes) : Cardinality(T) \in 3..4}}
MCChecks == [command : {"check-unused", "check-duplicates", "check-all", "show-help"},
             all : BOOLEAN, databases : {<<"db">>}, collections : {<<>>, <<"c">>}]
=============================================================================
