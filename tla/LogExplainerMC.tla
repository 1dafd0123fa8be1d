----------------------------- MODULE LogExplainerMC -----------------------------
(***************************************************************************)
(* Logs and inputs for LogExplainer.  Two nodes, n1 (uuid u1, ip1) and n2  *)
(* (u2, ip2), and n3 (u3, ip3) whose log is not given.  The windows w1, w2 *)
(* and w3 are the log of n1, the first cut between two lines of tick 4; v2 *)
(* overlaps w1 and x2 repeats only the tick in which w1 ends.              *)
(***************************************************************************)
EXTENDS LogExplainer

MCShort == ("u1-long" :> "u1") @@ ("u3-long" :> "u3")

L(id, kind, date) ==
    [id |-> id, kind |-> kind, date |-> date, ts |-> 0, ft |-> "error.log", name |-> "n2",
     name2 |-> "n2", uuid |-> "u2", uuid2 |-> "u3-long", own |-> "u1", ip |-> "ip2",
     method |-> "ssl", idx |-> "1", n |-> 2, primary |-> TRUE, state |-> "SYNCED", seqno |-> 1,
     md5 |-> "a", md52 |-> "b", version |-> "8", members |-> << >>,
     size |-> "plain", slashed |-> FALSE]

\* n1 starts, joins a component, names its members and is synced; n2 joins.
W1 == <<[L(1, "Starting", 1) EXCEPT !.version = "5"], [L(2, "BaseHost", 1) EXCEPT !.ip = "ip1"],
        [L(3, "NewComponent", 2) EXCEPT !.idx = "0"],
        [L(4, "MemberAssociations", 0) EXCEPT !.idx = "0", !.uuid = "u1-long", !.name = "n1"],
        L(5, "MemberAssociations", 0),
        L(6, "Shift", 3), L(7, "NodeJoined", 4)>>

\* n2 is already the donor of n3 when n1 becomes the donor of n2.
W2 == <<L(8, "NodeSuspect", 4), [L(11, "SourceNode", 11) EXCEPT !.ip = "ip1"],
        [L(12, "SSTRequestSuccess", 13) EXCEPT !.name = "n3"],
        [L(13, "SSTRequestSuccess", 14) EXCEPT !.name2 = "n1"],
        [L(14, "Shift", 14) EXCEPT !.state = "DONOR"], L(15, "ISTSender", 15),
        [L(18, "SocatConnRefused", 15) EXCEPT !.slashed = TRUE],
        [L(16, "SSTComplete", 16) EXCEPT !.name = "n1"], L(17, "Shift", 17)>>

\* n1 restarts: only its uuid, which w1 tells the name of, identifies it.
W3 == <<[L(21, "NewComponent", 22) EXCEPT !.idx = "0"],
        [L(22, "OwnUUID", 22) EXCEPT !.uuid = "u1"],
        [L(23, "NodeEstablished", 23) EXCEPT !.uuid = "u3", !.ip = "ip3"],
        L(24, "NodeLeft", 24)>>

\* The end of w1 and the day after: all that w1 has of tick 4 is in both.
V2 == <<W1[6], W1[7]>> \o W2
X2 == <<W1[7]>> \o W2

\* n1: both transfers are selected in the tick in which it becomes a donor.
D == <<[L(61, "SourceNode", 11) EXCEPT !.ip = "ip1"],
       [L(62, "SSTRequestSuccess", 14) EXCEPT !.name = "n3"],
       [L(63, "SSTRequestSuccess", 14) EXCEPT !.name2 = "n1"],
       [L(64, "Shift", 14) EXCEPT !.state = "DONOR"], L(65, "ISTSender", 15)>>

\* n2: repeated events, and it joins.
B == <<[L(31, "SourceNode", 1) EXCEPT !.ip = "ip2"], [L(32, "NewComponent", 2) EXCEPT !.n = 1],
       [L(33, "MemberAssociations", 0) EXCEPT !.uuid = "u2"]>>
     \o [i \in 1 .. 4 |-> L(33 + i, "TooManyConnections", 2 + i)]
     \o <<L(43, "ReversingHistory", 12),
          [L(38, "SSTRequestSuccess", 14) EXCEPT !.name2 = "n1"],
          [L(39, "Shift", 14) EXCEPT !.state = "JOINER"],
          L(40, "ISTReceiver", 15), L(41, "Desync", 16), L(42, "Starting", 17)>>

\* n1 sees two votes that overlap.
C == <<[L(51, "OwnUUID", 1) EXCEPT !.uuid = "u1"], [L(52, "BaseHost", 1) EXCEPT !.ip = "ip1"],
       [L(53, "NewComponent", 2) EXCEPT !.idx = "0"],
       [L(54, "MemberAssociations", 0) EXCEPT !.idx = "0", !.uuid = "u1", !.name = "n1"],
       [L(55, "InconsistencyVoteInit", 5) EXCEPT !.name = "n1"],
       [L(56, "InconsistencyVoteInit", 6) EXCEPT !.seqno = 2, !.md5 = "c"],
       [L(57, "InconsistencyVoteRespond", 6) EXCEPT !.name = "n3", !.md5 = Success],
       [L(58, "InconsistencyVoteRespond", 7) EXCEPT !.name = "n1", !.seqno = 2, !.md5 = "c"],
       [L(59, "InconsistencyVoteRecomputed", 7) EXCEPT !.md5 = "b", !.md52 = "a"],
       [L(60, "InconsistencyWinner", 8) EXCEPT !.md5 = Success],
       [L(66, "InconsistencyRecovery", 9) EXCEPT !.seqno = 2]>>

\* Lines that the tool does not survive.
Long == <<W1[2], [L(71, "TooManyConnections", 2) EXCEPT !.size = "long"], L(72, "Shift", 3)>>
Cut == <<W1[2], [L(73, "OwnUUID", 0) EXCEPT !.size = "short"]>>
Unquoted == <<W1[2], [L(74, "UnknownConf", 2) EXCEPT !.name = ""]>>

\* A pod, whose files are mixed in one log, and one with a name too long.
Member(idx, uuid, name) == [idx |-> idx, uuid |-> uuid, name |-> name]
View(id, date, members) ==
    [L(id, "OperatorMemberAssociations", date) EXCEPT !.idx = "0", !.members = members]
O == <<[L(81, "PodName", 0) EXCEPT !.ft = "", !.name = "n1", !.name2 = "db"],
       [L(82, "NodeNameFromEnv", 0) EXCEPT !.ft = "", !.name = "n1"],
       [L(83, "WsrepRecovery", 1) EXCEPT !.ft = "recovery.log"],
       [L(84, "NewComponent", 2) EXCEPT !.idx = "0"],
       View(85, 3, <<Member("0", "u1", "n1"), Member("1", "u2", "n2")>>), L(86, "GcacheScan", 4)>>
O2 == <<[L(91, "PodName", 0) EXCEPT !.ft = "", !.name = "n1", !.name2 = "db"],
        View(92, 12, <<Member("0", "u1", "n1"), Member("1", "u2", "cut")>>)>>

\* n1 is no longer the first member of its view; it is alone, then in no view.
O3 == <<O[1], O[4],
        [View(94, 3, <<Member("0", "u2", "n2"), Member("1", "u1", "n1")>>) EXCEPT !.idx = "1"]>>
O4 == <<O[1], O[4], View(95, 3, <<Member("0", "u1", "n1")>>), View(96, 4, << >>)>>

\* A log for every regex: n1 starts, and a line of it.
AllKeys == IdentKeys \cup StateKeys \cup EventKeys \cup ViewKeys \cup SSTKeys \cup ApplicativeKeys
               \cup CustomKeys
Every == [key \in AllKeys |-> SubSeq(W1, 2, 4) \o <<L(101, key, 9)>>]

MCLogOf == "w1" :> W1 @@ "w2" :> W2 @@ "w3" :> W3 @@ "v2" :> V2 @@ "x2" :> X2 @@ "d" :> D @@ "b" :> B @@ "c" :> C
           @@ "o" :> O @@ "o2" :> O2 @@ "o3" :> O3 @@ "o4" :> O4 @@ "long" :> Long @@ "cut" :> Cut
           @@ "unquoted" :> Unquoted @@ "none" :> << >> @@ Every
MCNodeOf == [p \in DOMAIN MCLogOf |-> IF p = "b" THEN "n2" ELSE "n1"]
MCDirOf == [p \in DOMAIN MCLogOf |-> IF p = "w3" THEN "other" ELSE MCNodeOf[p]]

In(command, paths) ==
    [command |-> command, paths |-> paths, mode |-> "identifier", operator |-> FALSE, since |-> 0,
     until |-> 0, verbosity |-> 1, flags |-> {"states", "views", "sst", "applicative", "events"},
     search |-> <<"auto", "n1">>, form |-> "legacy", windows |-> FALSE, faults |-> 0]

DayOrders == {<<"w1", "w2">>, <<"w2", "w1">>, <<"w1", "v2">>, <<"v2", "w1">>, <<"w1", "x2">>}

OnPremise ==
    {[In("list", p) EXCEPT !.mode = "directory", !.windows = TRUE, !.since = u] :
        p \in DayOrders, u \in {0, 3}}
        \cup {[In("list", <<"w1", "w2", "w3">>) EXCEPT !.windows = TRUE]}
        \cup {[In("list", <<"w1", "b", "w2">>) EXCEPT !.mode = m] : m \in {"skip", "identifier", "directory"}}
        \cup {[In("list", <<"w1", "b">>) EXCEPT !.flags = {"plain", "views"}, !.verbosity = v] :
                 v \in 0 .. 1}
        \cup {[In("list", <<"v2", "b">>) EXCEPT !.since = 13, !.until = u] : u \in {0, 14}}
        \cup {[In("list", <<"b">>) EXCEPT !.flags = {}, !.faults = 1]}
        \cup {[In("whois", <<"w1", "w3", "b">>) EXCEPT !.search = w] :
                 w \in {<<"auto", "n1">>, <<"auto", "u1">>, <<"auto", "nobody">>, <<"ip", "ip1">>, <<"uuid", "u3">>}}
        \cup {[In("whois", <<"w1", "w3">>) EXCEPT !.search = <<"auto", f[1]>>, !.form = f[2]] :
                 f \in {<<"n1", "nodename">>, <<"ip1", "ip">>, <<"u3-long", "uuid">>}}
        \cup {[In("list", p) EXCEPT !.faults = f] : p \in {<<"long", "b">>}, f \in 0 .. 1}
        \cup {In("list", <<p>>) : p \in {"d", "cut", "unquoted"}}
        \cup {[In("whois", <<"w1">>) EXCEPT !.search = <<"auto", "n2">>],
              In("conflicts", <<"c", "b">>), In("ctx", <<"w1", "none">>)}
        \cup {In("list", <<key>>) : key \in AllKeys}
Operator == {[In("list", p) EXCEPT !.mode = "operator", !.operator = TRUE] :
                p \in {<<"o">>, <<"o", "o2">>, <<"d", "o">>, <<"o3">>, <<"o4">>}}
MCInputs == OnPremise \cup Operator

============================================================================
