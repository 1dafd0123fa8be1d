----------------------------- MODULE MongoDigest -----------------------------
(***************************************************************************)
(* pt-mongodb-query-digest: is the profiler on, the documents of           *)
(* system.profile grouped by fingerprint, the statistics of each group,    *)
(* sorted, cut and printed.  The goroutines that read the documents are in *)
(* module Profiler; here main receives the flush of a whole reading.       *)
(*                                                                         *)
(* A document is a record of the fields it has: shape (what a reader of    *)
(* the profile would call the same query), op, ns, and of query, command,  *)
(* examined, returned and time those the server wrote.                     *)
(***************************************************************************)
EXTENDS MongoCluster, MongoFingerprint, TLC

CONSTANTS DigestClusters,  \* [cluster, host] to connect to
          DocumentLists,   \* contents of system.profile
          OrderBys,        \* values of --order-by
          Limits,          \* values of --limit
          SkippedSuffixes  \* the namespaces --skip-collections skips

VARIABLES place,      \* the cluster and the host of the command line
          docs,       \* system.profile
          order,      \* --order-by
          limit,      \* --limit, 0 for none
          json,       \* --output-format=json
          digestPc,   \* "profiler", "read", "report", or the end: "printed",
                      \* "empty", "exit", "panic"
          groups,     \* the flush: group key -> [count, time, examined, returned]
          report      \* the printed statistics, in order, and the totals

digestVars == <<place, docs, order, limit, json, digestPc, groups, report>>

ZeroDocument == [shape |-> "", op |-> "", ns |-> <<"", "">>, query |-> <<>>,
                 command |-> <<>>, examined |-> 0, returned |-> 0, time |-> 0]

DigestInit ==
    /\ place \in DigestClusters /\ docs \in DocumentLists
    /\ order \in OrderBys /\ limit \in Limits /\ json \in BOOLEAN
    /\ digestPc = "profiler" /\ groups = <<>> /\ report = <<>>

(* isProfilerEnabled and, when it says no, the count of what is there. *)
CheckProfiler ==
    /\ digestPc = "profiler"
    /\ LET found == GetReplicasetMembers(place.cluster, place.host).err IN
       digestPc' = CASE found \notin {"", "sharding not enabled"} -> "exit"
                     [] found \in {"", "sharding not enabled"}
                        /\ ~ProfilerEnabled(place.cluster, place.host)
                        /\ docs = <<>> -> "exit"
                     [] OTHER -> "read"
    /\ UNCHANGED <<place, docs, order, limit, json, groups, report>>

(* getDocs decodes every document into the same variable, and a field that *)
(* a document lacks keeps the value of an earlier one.                     *)
Decode(before, doc) == doc @@ before
Decoded == FoldLeft(LAMBDA seen, d : Append(seen, Decode(
                        IF seen = <<>> THEN ZeroDocument ELSE Last(seen), d)),
                    <<>>, docs)

(* Stats.Add.  Documents skipped by the filter, or whose fingerprint is an *)
(* error, are not counted; the number of examined documents only when it   *)
(* is positive.                                                            *)
Counted(doc) == doc.ns[2] \notin SkippedSuffixes /\ ~Fingerprint(doc).err
Zero == [count |-> 0, time |-> <<>>, examined |-> <<>>, returned |-> <<>>]
Key(doc) == LET p == Fingerprint(doc)
            IN  [op |-> p.op, db |-> p.db, coll |-> p.coll, keys |-> p.keys]
Counting(g, doc) ==
    [g EXCEPT !.count = @ + 1, !.time = Append(@, doc.time),
              !.returned = Append(@, doc.returned),
              !.examined = IF doc.examined > 0 THEN Append(@, doc.examined) ELSE @]
Add(stats, doc) ==
    IF ~Counted(doc) THEN stats
    ELSE LET k == Key(doc) IN
         (k :> Counting(IF k \in DOMAIN stats THEN stats[k] ELSE Zero, doc)) @@ stats
Read == /\ digestPc = "read"
        /\ groups' = FoldLeft(Add, <<>>, Decoded)
        /\ digestPc' = "report"
        /\ UNCHANGED <<place, docs, order, limit, json, report>>

(* countersToStats, what the orders use; a ratio is a fraction, 0 when     *)
(* nothing was returned.                                                   *)
Total(samples) == FoldLeft(+, 0, samples)
Greatest(samples) == FoldLeft(LAMBDA x, y : IF x > y THEN x ELSE y, 0, samples)
Stat(k, g) == [key |-> k, count |-> g.count,
               examined |-> Total(g.examined), returned |-> Total(g.returned),
               time |-> Greatest(g.time), maxExamined |-> Greatest(g.examined),
               maxReturned |-> Greatest(g.returned)]
RatioLess(p, q) ==
    LET num(s) == IF s.returned = 0 THEN 0 ELSE s.examined
        den(s) == IF s.returned = 0 THEN 1 ELSE s.returned
    IN  num(p) * den(q) < num(q) * den(p)

(* The comparisons sortQueries knows.  getOptions also accepts             *)
(* docs-scanned, whose comparison is nil; docs-returned compares what one  *)
(* query returned with what the other examined.                            *)
Known == {"count", "-count", "ratio", "-ratio", "query-time", "-query-time",
          "docs-returned", "-docs-returned"}
FieldLess(field, p, q) ==
    CASE field = "count" -> p.count < q.count
      [] field = "-count" -> p.count > q.count
      [] field = "ratio" -> RatioLess(p, q)
      [] field = "-ratio" -> RatioLess(q, p)
      [] field = "query-time" -> p.time < q.time
      [] field = "-query-time" -> p.time > q.time
      [] field = "docs-returned" -> p.maxReturned < q.maxExamined
      [] field = "-docs-returned" -> p.maxReturned > q.maxExamined

(* multiSorter.Less: the first field that tells the two apart, or the      *)
(* last.  Decides is that field's index.                                   *)
Decides(p, q) ==
    CHOOSE k \in DOMAIN order :
        /\ k = Len(order) \/ order[k] \notin Known
             \/ FieldLess(order[k], p, q) \/ FieldLess(order[k], q, p)
        /\ \A j \in 1..k-1 : /\ order[j] \in Known
                             /\ ~FieldLess(order[j], p, q) /\ ~FieldLess(order[j], q, p)
NilComparison(p, q) == order[Decides(p, q)] \notin Known
Less(p, q) == FieldLess(order[Decides(p, q)], p, q)

(* sort.Sort of a dozen elements is an insertion sort: each moves left     *)
(* while it is less than its neighbour.                                    *)
InsertQuery(acc, q) ==
    LET stops == {j \in DOMAIN acc.list : NilComparison(q, acc.list[j])
                                          \/ ~Less(q, acc.list[j])}
        at == IF stops = {} THEN 0 ELSE CHOOSE j \in stops : \A i \in stops : i <= j
    IN  IF acc.nil \/ (at > 0 /\ NilComparison(q, acc.list[at]))
        THEN [acc EXCEPT !.nil = TRUE]
        ELSE [acc EXCEPT !.list = InsertAt(@, at + 1, q)]
SortQueries(list) == FoldLeft(InsertQuery, [nil |-> FALSE, list |-> <<>>], list)
Cut(list) == IF limit > 0 /\ Len(list) > limit THEN SubSeq(list, 1, limit) ELSE list

(* Mutant: the limit is applied to what is not yet sorted. *)
CutThenSort(list) == [sorted |-> SortQueries(Cut(list)),
                      shown |-> SortQueries(Cut(list)).list]
SortThenCut(list) == [sorted |-> SortQueries(list), shown |-> Cut(SortQueries(list).list)]

(* Queries come in the order of their keys' names, any order here. *)
Queries == LET keys == SetToSeq(DOMAIN groups)
           IN  [i \in DOMAIN keys |-> Stat(keys[i], groups[keys[i]])]
TotalStats(list) == [count |-> FoldLeft(LAMBDA n, s : n + s.count, 0, list),
                     examined |-> FoldLeft(LAMBDA n, s : n + s.examined, 0, list),
                     returned |-> FoldLeft(LAMBDA n, s : n + s.returned, 0, list)]

(* The uptime divides the counts; without it the rates are infinite, which *)
(* JSON cannot express.                                                    *)
Report ==
    /\ digestPc = "report"
    /\ \E uptimeKnown \in BOOLEAN :
         LET out == SortThenCut(Queries) IN
         /\ digestPc' = CASE out.sorted.nil -> "panic"
                          [] ~out.sorted.nil /\ Queries = <<>> -> "empty"
                          [] ~out.sorted.nil /\ Queries # <<>> /\ json /\ ~uptimeKnown -> "exit"
                          [] OTHER -> "printed"
         /\ report' = IF digestPc' = "printed"
                      THEN [shown |-> out.shown, totals |-> TotalStats(Queries)] ELSE report
    /\ UNCHANGED <<place, docs, order, limit, json, groups>>

DigestNext == CheckProfiler \/ Read \/ Report

-----------------------------------------------------------------------------
ShapeCount(s) == Cardinality({i \in DOMAIN docs :
                    docs[i].shape = s /\ docs[i].ns[2] \notin SkippedSuffixes})
Shapes == {docs[i].shape : i \in DOMAIN docs}

(* "The results are grouped by fingerprint and namespace" (README.rst of   *)
(* pt-mongodb-query-digest, line 21): the counts of the groups are those   *)
(* of the queries that were the same.                                      *)
GroupedByFingerprint ==
    digestPc = "printed" =>
        \A n \in 1..Len(docs) :
            Cardinality({k \in DOMAIN groups : groups[k].count = n})
              = Cardinality({s \in Shapes : ShapeCount(s) = n})

(* The report shows the first queries of the order that was asked for, and *)
(* its totals are of all queries, shown or not.  Where all documents have  *)
(* the same fields, the groups are right and each document counts once     *)
(* (sortQueries, CalcTotalQueriesStats, Fingerprint).  docs-returned is    *)
(* left out: it compares what one query returned with what another         *)
(* examined, which orders nothing.                                         *)
SameFields == \A i, j \in DOMAIN docs : DOMAIN docs[i] = DOMAIN docs[j]
ListsTheTopQueries ==
    digestPc = "printed" =>
        LET shown == report.shown
            all == Range(Queries)
        IN  /\ Len(shown) = IF limit > 0 /\ limit < Cardinality(all) THEN limit
                            ELSE Cardinality(all)
            /\ Range(order) \cap {"docs-returned", "-docs-returned"} = {} =>
                 /\ \A i, j \in DOMAIN shown : i < j => ~Less(shown[j], shown[i])
                 /\ \A q \in all \ Range(shown) : \A i \in DOMAIN shown : ~Less(q, shown[i])
            /\ report.totals.count = Cardinality({i \in DOMAIN docs : Counted(Decoded[i])})
            /\ SameFields => GroupedByFingerprint
=============================================================================
