---------------------------- MODULE GaleraTimeline ----------------------------
(***************************************************************************)
(* The timelines of pt-galera-log-explainer: types/timeline.go,            *)
(* types/loginfo.go, types/utils.go and display/timelinecli.go.            *)
(*                                                                         *)
(* A local timeline is the sequence of the events of one log; a timeline   *)
(* is a function from the identifier of a node to its local timeline.  An  *)
(* operator that iterates over a Go map returns the set of its outcomes.   *)
(***************************************************************************)
EXTENDS GaleraContext

CONSTANTS
    DirOf,    \* DirOf[path]: the last element of the directory of a log
    Horizon   \* the tick of math.MaxInt32 seconds, in January 2038

\* NewLogInfo.  log stands for the raw line.
LogInfo(line, key, show, ctx, quiet) ==
    [log |-> line.id, date |-> line.date, key |-> key, show |-> show, ctx |-> ctx,
     verbosity |-> VerbosityOf(key, quiet), rep |-> 0]

\* The conflicts of a context are pointers: an old context sees the votes
\* and the winners that came later, not the later conflicts.
Live(ctx, now) == [ctx EXCEPT !.conflicts = SubSeq(now.conflicts, 1, Len(@))]

IsDuplicatedEvent(base, previous, current, db) ==
    LET Said(e) == Msg(e.show, Live(e.ctx, current.ctx), db)
    IN  IF \/ ~(base.key = previous.key /\ previous.key = current.key)
           \/ Nil \in {base.show, previous.show, current.show}
        THEN {FALSE}
        ELSE {b = p /\ q = c : b \in Said(base), p \in Said(previous),
                               q \in Said(previous), c \in Said(current)}

\* Mutant of Repeated: the last event is replaced and not counted.
RepeatedUncounted(lt, e) == [lt EXCEPT ![Len(lt)] = e]

\* LocalTimeline.Add keeps the first and the last of the repeated events.
Repeated(lt, e) ==
    LET n == Len(lt) IN [lt EXCEPT ![n - 1].rep = @ + 1, ![n] = e]

Add(lt, e, db) ==
    LET n == Len(lt)
        duplicated == IF n < 2 THEN {FALSE} ELSE IsDuplicatedEvent(lt[n - 1], lt[n], e, db)
    IN  {IF d THEN Repeated(lt, e) ELSE Append(lt, e) : d \in duplicated}

----------------------------------------------------------------------------
(* Merging the logs of one node.                                           *)

IsDated(e) == e.date # 0 /\ e.ctx.ft \in {"error.log", ""}
FirstTime(lt) ==
    LET i == SelectInSeq(lt, IsDated) IN IF i = 0 THEN 0 ELSE lt[i].date
LastTime(lt) ==
    LET i == SelectLastInSeq(lt, IsDated) IN IF i = 0 THEN 0 ELSE lt[i].date

\* Mutant of CutTimelineAt: it is cut from the given time on.
CutTimelineFrom(lt, at) ==
    LET i == SelectInSeq(lt, LAMBDA e : e.date >= at)
    IN  IF i = 0 THEN << >> ELSE SubSeq(lt, i, Len(lt))

CutTimelineAt(lt, at) ==
    LET i == SelectInSeq(lt, LAMBDA e : e.date > at)
    IN  IF i = 0 THEN << >> ELSE SubSeq(lt, i, Len(lt))

\* t1 starts first, or with t2.
MergeInOrder(t1, t2) ==
    LET rest == IF LastTime(t1) > FirstTime(t2) THEN CutTimelineAt(t2, LastTime(t1)) ELSE t2
        heir == [rest EXCEPT ![Len(rest)].ctx = Inherit(@, Last(t1).ctx)]
    IN  IF FirstTime(t1) = FirstTime(t2)
        THEN IF LastTime(t1) < LastTime(t2) THEN t2 ELSE t1
        ELSE IF LastTime(t1) >= LastTime(t2) THEN t1 ELSE t1 \o heir

MergeTimeline(t1, t2) ==
    IF t1 = << >> THEN t2 ELSE IF t2 = << >> THEN t1
    ELSE IF FirstTime(t1) > FirstTime(t2) THEN MergeInOrder(t2, t1) ELSE MergeInOrder(t1, t2)

\* Identifier: the last own name, what the last own ip or the own hashes lead
\* to, or the path.
Identifier(ctx, ts, db) ==
    LET FromHash(hash) == {IF x = hash THEN "" ELSE x :
                              x \in SimplestInfoFromHash(db, hash, ts, IPStable)}
        Try(found, hash) == UNION {IF f = "" THEN FromHash(hash) ELSE {f} : f \in found}
        found == FoldLeft(Try, {""}, ctx.hashes)
    IN  IF ctx.names # << >> THEN {Last(ctx.names)}
        ELSE IF ctx.ips # << >> THEN SimplestInfoFromIP(db, Last(ctx.ips), ts, IPStable)
        ELSE {IF f = "" THEN ctx.path ELSE f : f \in found}

LocalTimeline(timeline, node) == IF node \in DOMAIN timeline THEN timeline[node] ELSE << >>
Store(timeline, node, lt) == (node :> lt) @@ timeline

MergeByIdentifier(timeline, lt, db) ==
    {Store(timeline, node, MergeTimeline(LocalTimeline(timeline, node), lt)) :
        node \in Identifier(Last(lt).ctx, LastTime(lt), db)}

\* The first timeline of the map that has the key of lt, of those in same, is
\* merged; the result is stored under the name of lt.
MergeWithFirst(timeline, lt, name, same) ==
    IF same = {} THEN {Store(timeline, name, lt)}
    ELSE {Store(timeline, name, MergeTimeline(timeline[n], lt)) : n \in same}

MergeByDirectory(timeline, path, lt) ==
    MergeWithFirst(timeline, lt, DirOf[path],
                   {n \in DOMAIN timeline : DirOf[timeline[n][1].ctx.path] = DirOf[path]})

MergeByPodnameElsePath(timeline, path, lt) ==
    LET pod == Last(lt).ctx.pod
    IN  IF pod = << >> THEN {Store(timeline, path, lt)}
        ELSE MergeWithFirst(timeline, lt, pod[1],
                            {n \in DOMAIN timeline : Last(timeline[n]).ctx.pod = pod})

Merge(mode, timeline, path, lt, db) ==
    CASE mode = "skip" -> {Store(timeline, path, lt)}
      [] mode = "operator" -> MergeByPodnameElsePath(timeline, path, lt)
      [] mode = "directory" -> MergeByDirectory(timeline, path, lt)
      [] mode = "identifier" -> MergeByIdentifier(timeline, lt, db)

----------------------------------------------------------------------------
(* display/timelinecli.go                                                  *)

RemoveEmptyColumns(timeline, verbosity) ==
    RestrictDomain(timeline, LAMBDA n : verbosity >= Last(timeline[n]).ctx.minVerbosity)

\* Mutant of IterateNode: any node that has an event.
IterateAnyNode(timeline) == {n \in DOMAIN timeline : timeline[n] # << >>}

\* IterateNode: the nodes whose next date is the least one.
IterateNode(timeline) ==
    LET waiting == {n \in DOMAIN timeline : timeline[n] # << >>}
    IN  {n \in waiting :
            /\ FirstTime(timeline[n]) <= Horizon
            /\ \A o \in waiting : FirstTime(timeline[n]) <= FirstTime(timeline[o])}

Dequeue(timeline, nodes) == [n \in DOMAIN timeline |->
    IF n \in nodes THEN Tail(timeline[n]) ELSE timeline[n]]

\* The four facts whose change a transition announces, << >> when unknown.
LastOf(seq) == IF seq = << >> THEN << >> ELSE <<Last(seq)>>
Facts(ctx) == <<(<<ctx.path>>), LastOf(ctx.names), LastOf(ctx.ips),
                IF ctx.version = "" THEN << >> ELSE <<ctx.version>>>>

\* The tests of a column: those of which both sides are known come first,
\* empty ones fill up to four.  TRUE is a difference.
Tests(old, new) ==
    LET known == SelectSeq(<<1, 2, 3, 4>>, LAMBDA f : Facts(old)[f] # << >> /\ Facts(new)[f] # << >>)
    IN  [i \in 1 .. 4 |-> i <= Len(known) /\ Facts(old)[known[i]] # Facts(new)[known[i]]]
NoTests == [i \in 1 .. 4 |-> FALSE]

Found(tests) == Cardinality({i \in DOMAIN tests : tests[i]})

\* stackPrioritizeFound: the number of summaries a column has to print.
Stacked(tests, height) ==
    LET stack[i \in 0 .. 4] ==
            IF i = 0 THEN 0
            ELSE (IF 5 - i + stack[i - 1] = height THEN height ELSE stack[i - 1])
                     + (IF tests[i] THEN 1 ELSE 0)
    IN  stack[4]

============================================================================
