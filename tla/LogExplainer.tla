------------------------------ MODULE LogExplainer ------------------------------
(***************************************************************************)
(* One run of pt-galera-log-explainer (list, ctx, conflicts or whois).     *)
(*                                                                         *)
(* For each path a goroutine runs grep and hands over the lines it keeps   *)
(* through an unbuffered channel; the main goroutine applies the regexes   *)
(* to each line, in the random order of a Go map, and merges the timeline  *)
(* of the path into that of its node.  The command then shows the rows,    *)
(* searches the translation database or dumps the contexts.                *)
(*                                                                         *)
(* An input is a record: command, paths, mode (how logs are merged),       *)
(* operator (--pxc-operator), since and until (0: none), verbosity, flags  *)
(* of list, search, a pair of a type and a value, form, that of the value, *)
(* and faults, the bound on the greps that die.                            *)
(*                                                                         *)
(* The size of a line is "short" when it has less characters than the      *)
(* prefix of the operator's lines and "long" when bufio.Scanner takes no   *)
(* such line (64 KB); it is slashed when its date is written 2006/01/02.   *)
(***************************************************************************)
EXTENDS GaleraTimeline

CONSTANTS
    Inputs,     \* the inputs of a run
    LogOf,      \* LogOf[path]: its lines, or << >> when there is no such file
    DayTicks,   \* ticks of a day
    NodeOf      \* NodeOf[path]: the node that wrote a log, for the properties

\* A sequence, of whatever.
IsList(x) == x \in Seq(ToSet(x))
LineFields == {"id", "kind", "date", "ts", "ft", "name", "name2", "uuid", "uuid2", "own", "ip",
               "method", "idx", "n", "primary", "state", "seqno", "md5", "md52", "version",
               "members", "size", "slashed"}

ASSUME LogExplainerAssumption ==
    /\ DayTicks \in Nat \ {0}
    /\ \A in \in Inputs :
          /\ in.faults \in Nat /\ in.paths \in Seq(DOMAIN LogOf)
          /\ in.command = "whois" =>
                /\ in.search[1] \in {"auto", "nodename", "ip", "uuid"}
                /\ in.form \in {"nodename", "ip", "uuid", "legacy"}
    /\ \A path \in DOMAIN LogOf :
          /\ IsList(LogOf[path])
          /\ \A l \in ToSet(LogOf[path]) : DOMAIN l = LineFields /\ IsList(l.members)

VARIABLES
    input,     \* the input of the run
    phase,     \* what the main goroutine does: "open", "read", "apply", "next",
               \* "report", "show", "search", "done", "failed" or "panicked"
    current,   \* index of the path being read
    grep,      \* grep[i]: the goroutine of path i: its next line and its state, "idle",
               \* "scan", "send", "closed" or "stuck"
    faults,    \* greps that failed
    s,         \* the context of the log, the state transfers, the database
    line,      \* the line being handled
    pending,   \* the regexes of that line still to apply
    timestamp, \* the last date read in the log
    lt,        \* the local timeline of the log
    handled,   \* events added to it
    timeline,  \* the timelines of the nodes
    shown,     \* shown[node]: the contexts of its column, last and current
    rows,      \* the rows of events dequeued so far
    stack,     \* whois: nodes of the tree still to filter
    found      \* whois: identities in the tree

vars == <<input, phase, current, grep, faults, s, line, pending, timestamp, lt, handled,
          timeline, shown, rows, stack, found>>
reading == <<s, line, pending, timestamp, lt, handled>>
output == <<shown, rows, stack, found>>

Ended == {"done", "failed", "panicked"}
NoLine == [kind |-> "none"]
Paths == input.paths
Path == Paths[current]

\* list: the regexes its flags ask for.  States and events are also read to
\* color the columns, unless "plain"; they are then quiet.
SSTKeys == TransferKeys \cup LocalTransferKeys
ApplicativeKeys == VoteKeys \cup OutcomeKeys
ListKeys(flags) ==
    IdentKeys \cup CustomKeys
        \cup (IF "states" \in flags \/ "plain" \notin flags THEN StateKeys ELSE {})
        \cup (IF "events" \in flags \/ "plain" \notin flags THEN EventKeys ELSE {})
        \cup (IF "views" \in flags THEN ViewKeys ELSE {})
        \cup (IF "sst" \in flags THEN SSTKeys ELSE {})
        \cup (IF "applicative" \in flags THEN ApplicativeKeys ELSE {})
Quiet == IF input.command # "list" THEN {}
         ELSE (IF "states" \in input.flags THEN {} ELSE StateKeys)
                  \cup (IF "events" \in input.flags THEN {} ELSE EventKeys)

KeysOfCommand(in) ==
    (CASE in.command = "list" -> ListKeys(in.flags)
       [] in.command = "conflicts" -> IdentKeys \cup ApplicativeKeys
       [] OTHER -> IdentKeys \cup StateKeys \cup EventKeys \cup ViewKeys \cup SSTKeys
                       \cup ApplicativeKeys \cup CustomKeys)
        \cup (IF in.operator THEN OperatorKeys ELSE {})
KeysOfInput == [in \in Inputs |-> KeysOfCommand(in)]
KeysInUse == KeysOfInput[input]

Day(tick) == tick \div DayTicks

\* grep keeps a line that a regex finds.  With --since, the line is undated or
\* not before that day, in one of the two layouts of the filter: 2006/01/02,
\* which the tool reads elsewhere, is not one of them.  (Of a day in 9 the
\* filter keeps the earlier ones too, which ReadLine skips.)
GrepKeeps(l) ==
    /\ RegexesOf(l) \cap KeysInUse # {}
    /\ l.date # 0 /\ input.since # 0 => Day(l.date) >= Day(input.since) /\ ~l.slashed

Init ==
    /\ input \in Inputs
    /\ phase = "open" /\ current = 1 /\ faults = 0
    /\ grep = [i \in DOMAIN Paths |-> [st |-> "idle", pos |-> 1]]
    /\ s = [ctx |-> NewLogCtx(""), ssts |-> NoMap, db |-> EmptyDB]
    /\ line = NoLine /\ pending = {} /\ timestamp = 0 /\ lt = << >> /\ handled = 0
    /\ timeline = NoMap
    /\ shown = NoMap /\ rows = << >> /\ stack = << >> /\ found = {}

----------------------------------------------------------------------------
(* timelineFromPaths                                                       *)

\* The main goroutine opens a path and starts its grep.
OpenPath ==
    /\ phase = "open" /\ current <= Len(Paths) /\ LogOf[Path] # << >>
    /\ phase' = "read"
    /\ grep' = [grep EXCEPT ![current].st = "scan"]
    /\ s' = [ctx |-> NewLogCtx(Path), ssts |-> NoMap, db |-> s.db]
    /\ timestamp' = 0 /\ lt' = << >> /\ handled' = 0
    /\ UNCHANGED <<input, current, faults, line, pending, timeline, output>>

\* os.Stat fails, or the path is a directory.
OpenFails ==
    /\ phase = "open" /\ current <= Len(Paths) /\ LogOf[Path] = << >>
    /\ phase' = "failed"
    /\ UNCHANGED <<input, current, grep, faults, reading, timeline, output>>

\* Mutant of AfterScan: the channel is left open at the end.
AfterScanLeftOpen(goroutine, log) ==
    LET kept == {p \in goroutine.pos .. Len(log) : GrepKeeps(log[p])}
        At(st) == [goroutine EXCEPT !.st = st]
    IN  IF kept = {} THEN {At("idle")}
        ELSE IF log[Min(kept)].size = "long" THEN {At("closed"), At("stuck")}
        ELSE {[st |-> "send", pos |-> Min(kept)]}

\* What the goroutine of a path scans: the next line that grep keeps, or the
\* end.  A line too long for the scanner ends its loop and nobody looks at its
\* error: the rest is lost, and while grep has more to write than the pipe
\* takes, cmd.Wait waits for it.
AfterScan(goroutine, log) ==
    LET kept == {p \in goroutine.pos .. Len(log) : GrepKeeps(log[p])}
        At(st) == [goroutine EXCEPT !.st = st]
    IN  IF kept = {} THEN {At("closed")}
        ELSE IF log[Min(kept)].size = "long" THEN {At("closed"), At("stuck")}
        ELSE {[st |-> "send", pos |-> Min(kept)]}

GrepScan(i) ==
    /\ phase \notin Ended /\ grep[i].st = "scan"
    /\ \E next \in AfterScan(grep[i], LogOf[Paths[i]]) : grep' = [grep EXCEPT ![i] = next]
    /\ UNCHANGED <<input, phase, current, faults, reading, timeline, output>>

\* grep dies.  The error is only logged: the lines read so far are used.
GrepFails(i) ==
    /\ phase \notin Ended /\ grep[i].st \in {"scan", "stuck"} /\ faults < input.faults
    /\ faults' = faults + 1
    /\ grep' = [grep EXCEPT ![i].st = "closed"]
    /\ UNCHANGED <<input, phase, current, reading, timeline, output>>

\* The main goroutine receives a line.  A line before --since is skipped; one
\* after --until ends the log, and leaves its grep with nobody to send to.
ReadLine ==
    LET l == LogOf[Path][grep[current].pos]
        ts == IF l.date = 0 THEN timestamp ELSE l.date
        late == input.until # 0 /\ ts > input.until
        skipped == ts < input.since
        kept == ~late /\ ~skipped
    IN  /\ phase = "read" /\ grep[current].st = "send" /\ l.size # "short"
        /\ grep' = [grep EXCEPT ![current] = [st |-> "scan", pos |-> @.pos + 1]]
        /\ timestamp' = ts
        /\ line' = IF kept THEN [l EXCEPT !.ts = ts] ELSE NoLine
        /\ pending' = IF kept THEN RegexesOf(l) \cap KeysInUse ELSE {}
        /\ s' = IF kept THEN [s EXCEPT !.ctx.ft = l.ft] ELSE s
        /\ phase' = IF skipped THEN "read" ELSE IF late THEN "next" ELSE "apply"
        /\ UNCHANGED <<input, current, faults, lt, handled, timeline, output>>

\* SearchDateFromLog looks for the prefix in a line that is shorter.
ShortLinePanics ==
    /\ phase = "read" /\ grep[current].st = "send"
    /\ LogOf[Path][grep[current].pos].size = "short"
    /\ phase' = "panicked"
    /\ UNCHANGED <<input, current, grep, faults, reading, timeline, output>>

\* One regex of the line, in any order.
ApplyRegex(key) ==
    /\ phase = "apply" /\ key \in pending
    /\ pending' = pending \ {key} /\ handled' = handled + 1
    /\ phase' = IF pending' = {} THEN "read" ELSE "apply"
    /\ \E o \in Handle(key, line, s, Quiet) :
          /\ s' = o.s
          /\ lt' \in Add(lt, LogInfo(line, key, o.show, o.s.ctx, Quiet), o.s.db)
    /\ UNCHANGED <<input, current, grep, faults, line, timestamp, timeline, output>>

\* A handler without outcome.
HandlerPanics(key) ==
    /\ phase = "apply" /\ key \in pending
    /\ Handle(key, line, s, Quiet) = {}
    /\ phase' = "panicked" /\ pending' = {}
    /\ UNCHANGED <<input, current, grep, faults, s, line, timestamp, lt, handled, timeline, output>>

\* The channel is closed.
LastLine ==
    /\ phase = "read" /\ grep[current].st = "closed"
    /\ phase' = "next"
    /\ UNCHANGED <<input, current, grep, faults, reading, timeline, output>>

\* The log is read: merge its timeline, unless it is empty.
EndPath ==
    /\ phase = "next"
    /\ current' = current + 1
    /\ phase' = "open"
    /\ IF lt = << >> THEN timeline' = timeline
       ELSE timeline' \in Merge(input.mode, timeline, Path, lt, s.db)
    /\ UNCHANGED <<input, grep, faults, reading, output>>

\* "could not find data" when no path had any.
EndOfPaths ==
    /\ phase = "open" /\ current > Len(Paths)
    /\ phase' = IF timeline = NoMap THEN "failed" ELSE "report"
    /\ UNCHANGED <<input, current, grep, faults, reading, timeline, output>>

----------------------------------------------------------------------------
(* The commands                                                            *)

\* list: the columns without visible events are removed.
StartShow ==
    /\ phase = "report" /\ input.command = "list"
    /\ phase' = "show"
    /\ timeline' = RemoveEmptyColumns(timeline, input.verbosity)
    /\ shown' = [n \in DOMAIN timeline' |-> [last |-> << >>, cur |-> timeline'[n][1].ctx]]
    /\ UNCHANGED <<input, current, grep, faults, reading, rows, stack, found>>

\* A row: the next event of every node that has one at that time, and the
\* transitions of all the columns before it.
TestsOf(columns) ==
    [n \in DOMAIN columns |->
        IF columns[n].last = << >> THEN NoTests ELSE Tests(columns[n].last[1], columns[n].cur)]
Heights(tests) == {Found(tests[n]) : n \in DOMAIN tests}

\* Mutant of Settled: the columns keep what they showed before.
NeverSettled(columns, tests) == columns

\* Once transitions are printed, the current contexts are the last ones.
Settled(columns, tests) ==
    IF \A n \in DOMAIN tests : Found(tests[n]) = 0 THEN columns
    ELSE [n \in DOMAIN columns |-> [columns[n] EXCEPT !.last = <<columns[n].cur>>]]

ShowRow ==
    LET nodes == IterateNode(timeline)
        moved == [n \in DOMAIN shown |->
                    IF n \in nodes THEN [last |-> <<shown[n].cur>>, cur |-> timeline[n][1].ctx]
                    ELSE shown[n]]
        tests == TestsOf(moved)
    IN  /\ phase = "show" /\ nodes # {}
        /\ timeline' = Dequeue(timeline, nodes)
        /\ shown' = Settled(moved, tests)
        /\ rows' = Append(rows, [events |-> [n \in nodes |-> timeline[n][1]], tests |-> tests])
        /\ UNCHANGED <<input, phase, current, grep, faults, reading, stack, found>>

EndShow ==
    /\ phase = "show" /\ IterateNode(timeline) = {}
    /\ phase' = "done"
    /\ UNCHANGED <<input, current, grep, faults, reading, timeline, output>>

\* ctx prints the database and every last context, conflicts the conflicts of
\* one node, whichever the map gives first.
PrintContexts ==
    /\ phase = "report" /\ input.command \in {"ctx", "conflicts"}
    /\ phase' = "done"
    /\ UNCHANGED <<input, current, grep, faults, reading, timeline, output>>

\* whois: the form of the value tells the type unless it is "legacy": eight
\* characters, a uuid or a name, whichever the database has.
SearchType(db) ==
    CASE input.search[1] # "auto" -> input.search[1]
      [] input.search[1] = "auto" /\ input.form # "legacy" -> input.form
      [] OTHER -> IF IsNodeUUIDKnown(db, input.search[2]) THEN "uuid"
                  ELSE IF IsNodeNameKnown(db, input.search[2]) THEN "nodename" ELSE ""
SearchValue ==
    IF input.search[1] = "auto" /\ input.form = "uuid" THEN ShortForm(input.search[2])
    ELSE input.search[2]

StartSearch ==
    LET type == SearchType(s.db)
        root == {<<type, SearchValue>>}
    IN  /\ phase = "report" /\ input.command = "whois"
        /\ phase' = IF type = "" THEN "failed" ELSE "search"
        /\ found' = IF type = "" THEN {} ELSE root
        /\ stack' = IF type = "" THEN << >> ELSE <<root>>
        /\ UNCHANGED <<input, current, grep, faults, reading, timeline, shown, rows>>

\* filter: a node of the tree is a set of values of one type.  Its values take
\* their neighbours that the tree does not have yet, in any order; the new
\* nodes are then filtered, those of a value by type, the values in any order.
NeighboursOf(values) == UNION {Neighbours(s.db, v) : v \in values}
Taken(order, i) ==
    Neighbours(s.db, order[i]) \ (found \cup NeighboursOf({order[j] : j \in 1 .. i - 1}))
OfType(new, type) ==
    LET node == {c \in new : c[1] = type} IN IF node = {} THEN << >> ELSE <<node>>
Children(new) == OfType(new, "nodename") \o OfType(new, "ip") \o OfType(new, "uuid")

Filter ==
    /\ phase = "search" /\ stack # << >>
    /\ \E order \in Orders(Head(stack)) : \E next \in Orders(DOMAIN order) :
          /\ found' = found \cup NeighboursOf(Head(stack))
          /\ stack' = FlattenSeq([i \in DOMAIN next |-> Children(Taken(order, next[i]))])
                         \o Tail(stack)
    /\ UNCHANGED <<input, phase, current, grep, faults, reading, timeline, shown, rows>>

EndSearch ==
    /\ phase = "search" /\ stack = << >>
    /\ phase' = "done"
    /\ UNCHANGED <<input, current, grep, faults, reading, timeline, output>>

----------------------------------------------------------------------------

Report == StartShow \/ ShowRow \/ EndShow \/ PrintContexts \/ StartSearch \/ Filter \/ EndSearch
Main ==
    \/ OpenPath \/ OpenFails \/ ReadLine \/ ShortLinePanics \/ LastLine \/ EndPath \/ EndOfPaths
    \/ \E key \in pending : ApplyRegex(key) \/ HandlerPanics(key)
    \/ Report
Grep(i) == GrepScan(i) \/ GrepFails(i)

Next == Main \/ \E i \in DOMAIN grep : Grep(i)

\* The Go scheduler: while a goroutine can run, one does.
Spec == Init /\ [][Next]_vars /\ WF_vars(Next)

----------------------------------------------------------------------------
(* Properties                                                              *)

\* The date of a line, or of the last dated line before it.
TimeAt(log, p) ==
    LET i == SelectLastInSeq(SubSeq(log, 1, p), LAMBDA l : l.date # 0)
    IN  IF i = 0 THEN 0 ELSE log[i].date

\* A name that a log may take although it is not of its node: the donor, or the
\* joiner, of a transfer of others that was selected in the tick of a shift to
\* that state, or later; and the first member of a view of the operator whose
\* own index differs from the last one (logctx.go:188-204, sst.go:35, idents.go:62).
SelectedWithShift(log, name) ==
    \E q \in DOMAIN log : \E p \in 1 .. q - 1 :
        /\ log[p].kind = "SSTRequestSuccess" /\ log[q].kind \in StateKeys
        /\ log[p].date # 0 /\ log[p].date >= TimeAt(log, q)
        /\ \/ log[q].state = "DONOR" /\ name = ShortForm(log[p].name2)
           \/ log[q].state = "JOINER" /\ name = ShortForm(log[p].name)
FirstOfView(log, name) ==
    \E q \in DOMAIN log :
        /\ log[q].kind = "OperatorMemberAssociations" /\ log[q].members # << >>
        /\ log[q].members[1].idx # log[q].idx /\ ShortForm(log[q].members[1].name) = name

\* The names a log takes for its own are those of its node, whatever transfers
\* of others it tells of: the rows, the merge and the translations of every
\* other log rest on them.  The two exceptions above are the only ones
\* (logctx.go: AddOwnName, ConfirmSSTMetadata; idents.go: MemberAssociations).
NamesMistaken(name) ==
    LET read == SubSeq(LogOf[Path], 1, grep[current].pos - 1)
    IN  SelectedWithShift(read, name) \/ FirstOfView(read, name)
OwnNamesAreOwn ==
    phase \in {"read", "apply", "next"} =>
        \A name \in ToSet(s.ctx.names) : name = NodeOf[Path] \/ NamesMistaken(name)

\* Replacing repeated events loses none: an event and its repetitions add up
\* to what the regexes found (timeline.go: Add).
Occurrences(events) ==
    LET upTo[n \in 0 .. Len(events)] ==
            IF n = 0 THEN 0 ELSE upTo[n - 1] + 1 + events[n].rep
    IN  upTo[Len(events)]
RepetitionsAddUp == Occurrences(lt) = handled

\* The regexes of one line lead to one context and one database in whatever
\* order the map gives them, on premise: a view of the operator is the one line
\* for which the order matters, and OwnNamesAreOwn tells how
\* (internal.go: iterateOnGrepResults).
Outcomes(order) ==
    FoldLeft(LAMBDA acc, key : UNION {{o.s : o \in Handle(key, line, t, Quiet)} : t \in acc},
             {s}, order)
RegexOrderIrrelevant ==
    Cardinality(pending) > 1 /\ ~input.operator =>
        Cardinality(UNION {Outcomes(order) : order \in SetToSeqs(pending)}) = 1

\* Every vote recorded for a node is one that a line of this log says it cast on
\* that seqno, even when votes on several write sets overlap.  Such a line names
\* the node, or tells of the vote of its own server (applicative.go).
NamedVotes == {"InconsistencyVoteInit", "InconsistencyVoteRespond"}
CastBefore(node, seqno) ==
    \E p \in 1 .. grep[current].pos - 1 :
        LET l == LogOf[Path][p]
        IN  /\ l.seqno = seqno
            /\ \/ l.kind \in NamedVotes /\ l.name = node
               \/ l.kind \in VoteKeys \ NamedVotes /\ node \in OwnedBy(s.ctx)
VotesWereCast ==
    phase \in {"read", "apply"} =>
        \A i \in DOMAIN s.ctx.conflicts : \A node \in DOMAIN s.ctx.conflicts[i].votes :
            CastBefore(node, s.ctx.conflicts[i].seqno)

\* Windows of the log of one node, read in the order of their dates or in the
\* reverse order and overlapping or not, end in one timeline that has their
\* lines by date, each of them once.  The windows may be cut within a tick, as
\* second-granular dates make likely, and then
\*   - a line dated at the end of an earlier window that overlaps with its own
\*     is there only if the earlier window has it: the rest of that tick is cut;
\*   - a line may be there twice in a tick that ends one window and begins another.
\* --since, which grep applies by day, keeps what it should of its day, but for
\* the lines whose date is slashed (timeline.go: MergeTimeline, CutTimelineAt;
\* date.go: BetweenDateRegex).
Wanted(l) ==
    /\ RegexesOf(l) \cap KeysInUse # {}
    /\ input.since # 0 => l.date >= input.since /\ ~l.slashed
Window(i) ==
    LET log == LogOf[Paths[i]]
        wanted == {p \in DOMAIN log : Wanted(log[p])}
        times == {log[p].date : p \in wanted} \ {0}
    IN  [first |-> Min(times), last |-> Max(times), ids |-> {log[p].id : p \in wanted},
         at |-> [id \in {log[p].id : p \in wanted} |->
                    TimeAt(log, CHOOSE p \in wanted : log[p].id = id)]]
InWindowOrder ==
    LET first == [i \in DOMAIN Paths |-> LogOf[Paths[i]][1].date]
    IN  \/ \A i, j \in DOMAIN Paths : i < j => first[i] < first[j]
        \/ \A i, j \in DOMAIN Paths : i < j => first[i] > first[j]
Merged == phase = "report" /\ faults = 0 /\ input.windows /\ InWindowOrder
ChainedWindowsMerge ==
    Merged =>
        LET windows == {Window(i) : i \in DOMAIN Paths}
            CutOff(w, id) == \E v \in windows :
                /\ v.first < w.first /\ w.first < v.last
                /\ w.at[id] = v.last /\ id \notin v.ids
            Twice(id) == \E v, w \in windows :
                v # w /\ v.last = w.first /\ id \in v.ids \cap w.ids /\ w.at[id] = w.first
        IN  /\ Cardinality(DOMAIN timeline) = 1
            /\ \A n \in DOMAIN timeline :
                  LET t == timeline[n]
                  IN  /\ \A w \in windows : \A id \in w.ids :
                            (\E e \in DOMAIN t : t[e].log = id) <=> ~CutOff(w, id)
                      /\ \A d, e \in DOMAIN t :
                            d < e => /\ \/ <<t[d].log, t[d].key>> # <<t[e].log, t[e].key>>
                                        \/ Twice(t[d].log)
                                     /\ 0 \in {t[d].date, t[e].date} \/ t[d].date <= t[e].date

\* The rows of all nodes together are chronological (timelinecli.go:29).
DatesOf(row) == {e.date : e \in {f \in Range(row.events) : IsDated(f)}}
RowsInOrder ==
    rows # << >> =>
        \A i \in 1 .. Len(rows) - 1 : \A d \in DatesOf(rows[i]), e \in DatesOf(Last(rows)) : d <= e

\* A change of path, name, ip or version is announced in the row in which the
\* column shows it, and not again (timelinecli.go:107-116), and the columns
\* without as many changes have enough placeholders for the lines printed.
AnnouncedOnce ==
    \A i \in DOMAIN rows :
        LET tests == rows[i].tests
            height == IF DOMAIN tests = {} THEN 0 ELSE Max(Heights(tests))
        IN  \A n \in DOMAIN tests :
                /\ Found(tests[n]) # 0 => n \in DOMAIN rows[i].events
                /\ height # 0 => Stacked(tests[n], height) >= height

\* whois: the tree has everything linked to the search, through names, ips and
\* uuids over any number of links, and nothing else; "unspecified" links nothing.
Linked(db, a, b) ==
    \/ a[1] = "uuid" /\ b[1] = "ip" /\ a[2] \in DOMAIN db.hashToIP /\ db.hashToIP[a[2]].value = b[2]
    \/ a[1] = "uuid" /\ b[1] = "nodename" /\ b[2] \in ValuesOf(db.hashToNames, a[2])
    \/ a[1] = "ip" /\ b[1] = "nodename" /\ b[2] \in ValuesOf(db.ipToNames, a[2])
Identities(db) ==
    ({"uuid"} \X (DOMAIN db.hashToIP \cup DOMAIN db.hashToNames))
        \cup ({"ip"} \X (DOMAIN db.ipToNames \cup {db.hashToIP[h].value : h \in DOMAIN db.hashToIP}))
        \cup ({"nodename"} \X UNION ({ValuesOf(db.hashToNames, h) : h \in DOMAIN db.hashToNames}
                                        \cup {ValuesOf(db.ipToNames, i) : i \in DOMAIN db.ipToNames}))
Leads(db, a, b) == a # <<"nodename", "unspecified">> /\ (Linked(db, a, b) \/ Linked(db, b, a))
SearchIsExact ==
    phase = "done" /\ input.command = "whois" =>
        LET root == <<SearchType(s.db), SearchValue>>
            Closed(part, all) == \A a \in part, b \in all : Leads(s.db, a, b) => b \in part
        IN  /\ root \in found /\ Closed(found, Identities(s.db))
            /\ \A part \in SUBSET found : root \in part /\ Closed(part, found) => part = found

\* The command ends, even when it fails, panics or its grep dies.  The only
\* exception is a log with a line too long for the scanner, whose grep then waits
\* for a reader and the main goroutine for a line, forever (internal.go:130-178).
StuckOnLongLine ==
    /\ phase = "read" /\ grep[current].st = "stuck"
    /\ \E l \in ToSet(LogOf[Path]) : l.size = "long" /\ GrepKeeps(l)
CommandEnds == <>(phase \in Ended \/ StuckOnLongLine)

============================================================================
