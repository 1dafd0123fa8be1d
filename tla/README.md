# TLA+ models of the database lab and of percona-toolkit's Go tools

The repository is a guide in Markdown with one program of its own, the lab under
`src/dbre/lab`: MySQL with two replicas, HAProxy, two ProxySQL nodes and Valkey in
Docker, and shell scripts that drive failures, backups, caching and load against
them. `src/resources` holds copies of other projects; of those, the Go tools of
percona-toolkit, which read MySQL, Galera, MongoDB, PostgreSQL and Kubernetes, are
programs with state and concurrency, and are modelled here.

Paths below are relative to `src/dbre/lab`, those of the tools to
`src/resources/percona-toolkit/src/go`, unless they start with `src/`.

## The system and its parts

| Part | State | Operations | Talks to |
|---|---|---|---|
| MySQL servers (`config/mysql-*.cnf`) | binlog and `gtid_executed`, relay log, replication source, thread states, AUTO_INCREMENT counters, `read_only` | commit, fetch by auto-position, apply, stop on error 1062, STOP/RESET/CHANGE/START REPLICA | each other, every client |
| HAProxy (`config/haproxy.cfg`) | one health counter per server | check every 2 s, rise 2, fall 3; route a new connection; close a silent one after 30 s | MySQL, ProxySQL, Valkey, clients |
| Failover drill (`scripts/06-failover.sh`) | its position | pause, promote, repoint, unpause, fence, demote, report | the MySQL servers, through `docker exec` |
| Write workers (`scripts/07-parallel-writes.sh`) | the insert under way, inserts left | connect to :3306, insert, stop at the first error | HAProxy, then the primary |
| Cache patterns (`scripts/12-caching.sh`, `15-cache-best-practices.sh`) | a price in MySQL, an entry with or without a TTL in Valkey, prices held in shell variables | read-through, TTL only, DEL and re-cache, write-through, expiry, eviction | MySQL, Valkey |
| Profiler reader (`mongolib/profiler/profiler.go`, `mongolib/stats/stats.go`, driven by `pt-mongodb-query-digest/main.go`) | `running`, lock, wait group, cursor, statistics, two unbuffered channels | Start, Stop, ticks, reading documents, flush (snapshot, send, reset) | goroutines through channels, lock and wait group |
| Galera log explainer (`pt-galera-log-explainer`) | a context per log, state transfers, the translation database, a timeline per node | for each log: grep in a goroutine, a handler per matching regex, merge; then list, ctx, conflicts or whois | `grep` over an unbuffered channel, log files |
| Query digest (`pt-mongodb-query-digest`, `mongolib/fingerprinter`, `mongolib/stats`) | one decoded document, groups by fingerprint | check the profiler, decode, filter, fingerprint, count, sort, cut | MongoDB, the profiler reader |
| MongoDB summary (`pt-mongodb-summary`, `mongolib/util`) | the sections collected so far, the previous counters | one section after another, sampling in between | all hosts of a cluster |
| Index check (`pt-mongodb-index-check`) | what was found | passes over databases and collections under one deadline | MongoDB |
| PostgreSQL summary (`pt-pg-summary`, `lib/pginfo`) | snapshots of counters per database | two passes, the second in a goroutine; difference; a template | PostgreSQL, a channel of capacity 2 |
| Kubernetes collector (`pt-k8s-debug-collector`) | archive, `d.errors`, child processes | a `kubectl` call per namespace, pod, resource, secret; port-forward and summary | `kubectl`, its own goroutines through `d.errors` |
| Secure collect (`pt-secure-collect`) | files in a temporary directory, tar and encrypted file | run, sanitise, pack, encrypt, remove | the file system, commands |
| Replication set-up (`01`, `02`, `sql/`) | GTIDs, sources | wait for servers, create users on each, start replication | MySQL |
| Point-in-time recovery (`05-backups.sh`, `06-fast-backups.sh`) | snapshot, GTID sets in shell variables, shadow tables | dump, replay with excluded GTIDs, RENAME TABLE | MySQL |
| ProxySQL (`config/proxysql.cnf`, `04`, `13`, `14`) | rules, a query cache per node, host groups | first-match routing, cache with TTL, flush on one node | HAProxy, MySQL |
| Migration, schema change, percona-toolkit drills (`08`, `10`, `11`) | files and external tools | sequences of tool calls | MySQL |
| Smoke tests, performance, monitoring (`03`, `09`, `config/prometheus.yml`) | none | reads, timings, scrapes | everything |

What is hard in it, and the properties that follow:

* **Replication and failover.** Asynchronous, with one transaction anywhere between
  the primary's commit, a replica's relay log and its binlog when the script acts.
  The script is a sequence of commands to three servers with clients running
  throughout. Correct means: no server's GTID set has a hole, no insert runs twice,
  nothing acknowledged disappears from where it was acknowledged, the old primary
  originates transactions only while nobody has fenced it, and the followers follow.
* **Failure detection.** Hysteresis over a timer: correct means bounded detection and
  recovery at any phase, and no verdict from fewer than the configured checks.
* **Cache patterns.** Every command is atomic, no pattern is. Correct means that no
  entry stays for ever and that staleness ends.
* **Profiler reader.** Three kinds of goroutine, a lock held while waiting, a send in a
  `select` with a default, a wait group whose `Add` is late, a flush that copies, sends
  and resets in three steps. Correct means that the flush is complete, that it is
  delivered, and that `Stop` stops.

* **Galera log explainer.** It rebuilds from text who a node is and what it was doing.
  Handlers run in the random order of a Go map, contexts of one log share maps and
  pointers, logs are rotated and overlap, and the reader may stop while grep still
  sends. Correct means: a node's names are its own, the order of the map does not
  matter, merging loses and repeats nothing, rows are chronological, and it ends. The code
  keeps that with exceptions, which come of dates that are no finer than a second, of lines
  of the operator and of lines too long or too short; the properties name them exactly.
* **Collecting tools.** They read a server that works, fails and restarts meanwhile,
  and go on after most errors, some of which nobody is told. Correct means: what they report
  is what they read, what they could not read leaves a trace, numbers that belong together
  agree, and nothing leaves the host that should not. Where the code drops an error, the
  property says what is lost by it.

Parts that are not modelled, and why, are in `PROJECT.json` under `components`; what can
go wrong, line by line, is there under `hazards`.

## The modules

| Module | Models | Extends or instantiates |
|---|---|---|
| `HealthCounter` | HAProxy's rise/fall counter, as pure operators | |
| `RiseFall` | abstract: a verdict changes after so many consecutive contradicting checks, none of which goes unseen | |
| `HaproxyDetector` | the counter, a check timer, and a server that crashes and returns | `HealthCounter`; `RiseFall` through a refinement mapping |
| `GtidReplication` | state and operations of the MySQL servers, without a next-state relation | |
| `Failover` | the drill, the workers, HAProxy's counter for the primary, replication | `GtidReplication`, `HealthCounter` |
| `CachePatterns` | one product in MySQL and Valkey, readers and writers | |
| `Profiler` | the goroutines of the profiler reader | |
| `Pitr` | point-in-time recovery, section E of `05-backups.sh`, with clients | |
| `ProxySql` | rules and query caches of the two ProxySQL nodes, for one query at a time | |
| `Lab` | one of three demonstrations is run: cache patterns, ProxySQL, recovery; they share no state | `CachePatterns`, `ProxySql`, `Pitr` |
| `GaleraTranslate` | the translation database (`translate/`): hashes, IPs, names by time, and the links whois follows | |
| `GaleraContext` | what each regex handler does to the context of a log (`regex/`, `types/logctx.go`, `types/conflicts.go`) | `GaleraTranslate` |
| `GaleraTimeline` | repetition folding, the merges, dequeuing, what a transition compares (`types/timeline.go`, `display/`) | `GaleraContext` |
| `LogExplainer` | one run of the tool: greps, main goroutine, commands | `GaleraTimeline` |
| `LogExplainerMC` | its logs and command lines for TLC | `LogExplainer` |
| `MongoFingerprint` | `Fingerprint` of a profiler document | |
| `MongoCluster` | hosts and members of a cluster as the tools find them (`mongolib/util`) | |
| `MongoDigest` | the query digest | `MongoFingerprint`, `MongoCluster` |
| `MongoSummary` | the MongoDB summary | `MongoCluster` |
| `MongoIndexCheck`, `PgSummary`, `K8sCollector`, `SecureCollect` | the tools of these names | |
| `Toolkit` | one of seven programs is started: the six tools, or the goroutines of the profiler reader; they share no state | the six tools, `Profiler` |
| `ToolkitMC` | clusters, documents, pods, files and command lines for TLC | `Toolkit` |
| `HaproxyDetector_proofs`, `Failover_proofs`, `K8sCollector_proofs`, `Pitr_proofs`, `LogExplainer_proofs` | the theorems about the module of that name | that module, `TLAPS` |
| `Caches_proofs` | the theorems about both caches | `CachePatterns`, `ProxySql`, `TLAPS` |
| `Channels_proofs` | the theorems about the two tools whose goroutines hand over results | `PgSummary`, `Profiler`, `TLAPS` |
| `Tools_proofs` | the theorems about three sequential tools | `MongoIndexCheck`, `SecureCollect`, `MongoSummary`, `TLAPS` |

How state and actions correspond to the code:

* **GtidReplication.** A transaction is its GTID (origin, number) and the key of the row
  it inserts. `binlog[s]` is in commit order, its range is `gtid_executed`; `relay[s]` is
  fetched and unapplied. MySQL itself is external code: `Fetch`, `Apply`, `ApplyFails`
  are what auto-positioning, `log-slave-updates` and a duplicate key do. `CommitInsert` is
  one step because `sync-binlog = 1`. `read_only` starts OFF on all three: the
  replicas' files have it commented out (`config/mysql-replica1.cnf:5-7`).
* **Failover.** One action per `docker` command that changes state: `PausePrimary`
  (line 22), `Promote` (42), `RepointReplica2` (57), `UnpausePrimary` (78), `FencePrimary`
  and `DemotePrimary` (82: STOP, `read_only = ON`; then CHANGE SOURCE, START),
  `ReportStatus` (95-103). Commands that only read are left out, except the two whose
  `grep` can end the script. A worker's insert goes through `Connect`, `Send`, `Commit`,
  `Acknowledge`, and may end in `Reject`, `ConnectFails` or `Timeout`; an insert whose
  connection was closed while the server was frozen becomes one of the `orphans`, which
  the server runs or rejects when it thaws. `DirectWrite` is an application that took
  lines 105-107 at their word.
  `StdinAttached` tells the script as it is (`FALSE`: `docker exec` without `-i` gives
  mysql an empty input, and none of the heredocs' SQL runs) from the script with `-i`.
* **HaproxyDetector.** A tick is a second. A check's result is known at once, which is a
  crashed server's refused connection; the additional wait of a check that has to time
  out on a frozen server is left out, so the bounds count from check to check.
* **CachePatterns.** A price is the number of updates that led to it. A TTL is abstracted
  to having one: `TtlEnds` may then happen at any moment. HSET keeps the TTL of an
  existing key and creates a key without one; EXPIRE on a missing key does nothing.
* **Profiler.** All documents share a fingerprint, so the statistics are one entry: the
  documents `Count` has counted and those in the lists. `generation` tells the map of
  before a `Reset` from the one after it, and `adding` which of them `Add`'s pointer
  belongs to. `FlushQueries` is `Snapshot`, `Deliver` (the rendezvous with the reader)
  and `Reset`. `Signal` is the `select` with a `default`.
* **Pitr.** A statement of the script is an action, and the script is `failed` where one is
  refused (`set -e`). An order is its id, the transaction that inserted it and whether the
  DELETE means it. `tables` are the orders tables under their names, each with its
  AUTO_INCREMENT counter; `parent` is the one that the foreign key of order_items names,
  which a RENAME takes along. `Printed` is what mysqlbinlog lets through, `Replayed` what
  a server executes of it that has executed those GTIDs, `Redo` one event. After the swap
  the script still prints, and ends at line 278: `rows` is a reserved word of MySQL 8.0.
* **ProxySql.** The result of a query is the number of updates that the server asked has
  applied. `Execute` is a query that reaches a server, `Store` its result entering the
  node's cache, with other steps between them; `Hit` an answer out of a cache. `Matching` says
  which patterns of `config/proxysql.cnf` a query matches; rule 1, for ProxySQL's own probe,
  matches none of them. HAProxy may give any client to either node. A behaviour is about one
  `query`: rules and caches tell queries apart by their text, and none affects another.
* **GaleraContext, GaleraTimeline, LogExplainer.** A line of a log is a record: the kind of
  message, its date and the names, addresses and numbers in it; `RegexesOf` says which
  regexes match it, `Captures` whether the internal regex does. A displayer is a closure
  in the code and is evaluated later with another context; here it is a record that `Msg`
  turns into the set of texts it may give. `s` holds the context, the state transfers and
  the database, because handlers change all three; conflicts are pointers in the code,
  and `Live` lets an old context see what became of them. `ReadLine` takes a line from
  the channel and `ApplyRegex(key)` runs one handler; the order is free, as in a Go map.
  `GrepScan` is the goroutine that blocks until its line is taken, and for ever behind
  `--until`. A line has a size: one of 64 KB ends the scanner's loop (`AfterScan`), and the
  goroutine then closes its channel or is `stuck` in `cmd.Wait`; one shorter than the prefix
  of the operator's lines panics (`ShortLinePanics`). A `slashed` date is one of the layout
  2006/01/02, which the filter of `--since` does not have. `SearchType` and `SearchValue` are
  what whois makes of its argument, by its form or, with eight characters, by the database. `ShowRow` is one round of `TimelineCLI`, `Filter` one node of the whois tree.
* **K8sCollector.** `todo` lists the `kubectl` calls still to make; each takes one step and may
  fail. A port-forward is a goroutine (`ForwardStarts`, and the append to `d.errors` as
  `ForwardReads` and `ForwardWrites`, for it runs without a lock) which the deferred
  `Kill` ends. The tables of resources, secrets and files keep one of each kind. A call gives
  output, nothing or an error, and `Filing` says where each of them is put, if anywhere.
* **PgSummary.** `Work` counts, drops and creates databases at any time. `counters` keeps the
  snapshots per name, and a name with one snapshot is an index out of range in `Diff`.
* **SecureCollect.** A file is its lines, of the kinds `joinQueryLines` tells apart, what
  stands behind its last newline, and whether it was sanitised. Two outputs get the same
  name when the clock does not move. Errors that the code drops are failures like others
  (`Try`), but the run goes on: an output or a sanitised file keeps a first part of its
  lines, the archive a part of its files, and the ghosts `spoilt` and `unsealed` record it.
* **MongoCluster, MongoDigest, MongoSummary.** A cluster says for each host which commands it
  answers. `Decode` keeps in the one variable what a document lacks. A BSON value keeps
  its keys and its type, a fingerprint is the operation, collection and keys. Of the
  statistics the count, the documents examined and returned and the time are kept. A cursor
  may break off and what it gave is counted as if it were all, for nobody asks for its
  error (`BrokenOff`, and in `Balancer`); a data size is the set of collections it sums.
* **MongoIndexCheck.** Characters are numbers, with the code's order of `+`, `-` and letters;
  `Deadline` is the context's 20 seconds, after which each call fails. `ranks` is the order in
  which `sort.Slice`, which is not stable, puts each list: any that `SortedPlaces` allows.

Operators called "Mutant of X" are plausible mistakes in X; `PROJECT.json` names, for each
property, one that violates it. No specification uses them.

## The runs

| Run | Question | Bounds | Result |
|---|---|---|---|
| `haproxy_detector` | How late can the verdict be, and does it ever follow fewer checks than configured? | the lab's rise 2, fall 3, inter 2; any crash and return times | holds |
| `failover_as_is` | What does the drill do to the data when none of its SQL arrives? | 2 workers, 1 insert each, nobody writes to replica1 | holds |
| `failover_delivered` | And with `-i`, with clients on both sides? | 2 workers, 1 insert each, 2 writes to the new primary | holds |
| `failover_topology` | Is the printed final topology the real one? (06-failover.sh:97-98) | as `failover_as_is` | violated |
| `cache_del` | Is the stale window of DEL zero? (15-cache-best-practices.sh:263) | 1 reader, 1 writer, 2 updates | violated |
| `profiler_stop` | Is the stop signal received? (profiler.go:110) | 1 document, no ticker, as pt-mongodb-query-digest | violated |
| `pitr_replay` | Are safe transactions replayed? (05-backups.sh:303) | 2 seed orders, no client | violated |
| `proxysql_flush` | Is the stale window zero after the flush? (15-cache-best-practices.sh:262) | 1 update | violated |
| `galera_logs` | Is what the log explainer shows what the logs say? | 15 logs of two nodes and a log per regex; 40 command lines of list, whois, conflicts, ctx and one per regex; at most 1 grep dies | holds |
| `lab` | Does staleness end in the caches, of Valkey and of ProxySQL, and what do recovery and swap do to the orders of clients? | patterns: 2 readers, 2 writers, 3 updates; ProxySQL: 2 nodes, 2 replicas, 1 update, TTL of 2 ticks, each of 5 queries; recovery: 2 seed orders, 3 client orders, 2 runs of the script | holds |
| `toolkit` | Do the tools report what they read, and end? Is the profiler's flush complete and delivered? | see below; the reader: 3 documents of which 2 pass the filters, 2 ticks, 3 reads, 1 further caller of Stop | holds |
| `digest_groups` | Are results grouped by fingerprint? (pt-mongodb-query-digest/README.rst:21) | 4 documents of two server versions | violated |

Why the bounds are enough. Two workers are what it takes for one insert to be committed
and another to be frozen in the primary's buffers; two replicas and two transactions
give every difference in what the replicas hold; two direct writes let the new
primary's keys collide with an orphan and then go on. Two readers and two writers give
two late fills around two deletions. Three documents let a flush fall before, between
and after the documents that count, two ticks let flushes of both goroutines overlap,
and three reads receive all of them. Three client orders and two runs put one before the
dump, one between dump and swap and one after, and let the second run meet what the
first left; two seed orders are one that the DELETE means and one it does not. One update
is enough for `ProxySql`, whose properties compare an answer with one earlier reading:
with two replicas and two nodes the four can differ in every way; two ticks of TTL keep an
entry's age apart from a fresh one's. `haproxy_detector` needs no bound: its history
variables saturate above every bound a property names.

`galera_logs`: the log of one node is cut into three windows, given in both orders and
overlapping; the first cut is between two lines of one tick, so that one overlapping window
has all that the earlier one has of that tick and more, and another repeats only that tick.
It holds a donor that is chosen while another transfer is under way, in one log in the same
tick, a restart after which only a uuid identifies the node, a line whose date is slashed,
and two votes that overlap. A second node repeats an event four times, which folds twice.
The operator's logs have views of none, one and two members, one of which is not in its own
first place. Three logs hold a line that is too long, too short, or without the quote that
its handler expects; the search of whois comes in each of its four forms. Every regex has a
log of its own, so each handler runs. `toolkit`: `MaxFaults` 2 (a listing and a call behind it fail), three pods
of which one has no labels and two want a port-forward, so that one may answer for the
other; each call gives output, nothing or an error; `MaxWork` 3 with two databases (count, drop and create between two passes);
`MaxSlips` 2, two outputs of one command, in one second or two, whose queries end in each
way and with something behind the last newline, and an included file of the same name; five documents per profile of
six kinds and both sorting directions; `Samples` 2 with `MaxOps` 3, which is a restart
between two gains; every choice of three or four indexes among six, with prefixes, a chain
of them, equal keys and opposite directions.

### What they show

* `DetectionBound`, `RestoreBound`: out of the rotation within fall x inter, back within
  rise x inter, at every phase of the timer and after any flapping. `ImplementsRiseFall`:
  HAProxy's single counter implements `RiseFall`.
* `NoGtidGaps`, `AtMostOnce`, `AckedIsLogged`: hold with `-i`, where all of the drill runs;
  the proof of `NoGtidGaps` covers both.
* `ReplicasArePrefixes`, `ReplicasCatchUp`: the drill as it is only freezes the primary for
  a while; nothing is promoted, and nothing is lost either, provided that no
  application acts on the announcement and writes to replica1 (`DirectWrites = 0`).
* `SplitBrainWindow`: with `-i`, the old primary originates transactions before the pause
  and once more between `docker unpause` and `read_only = ON`, never after.
  `FollowersCatchUpOrStop`: each follower catches up or shows a replication error.
* `EveryEntryExpires`, `EventuallyFresh`: with TTL and DEL writers no entry is left
  without a TTL, and late fills are stale only until it ends.
* `NoStaleWindow`: one concurrent reader is enough to break it (`cache_del`); that a single
  writer never leaves the cache stale, as Lesson 2 runs it, is proved (`SoleWriterIsFresh`).
* `NothingVanishes`: no acknowledged order is destroyed, whenever it was inserted: it is in
  orders or orders_broken. `PromotedIsSnapshot`: the promoted table is what was committed at
  the dump, no more and no less. `ReusedIdsAreStranded`: ids are given out twice, but only
  after the swap and only those of orders left behind in orders_broken; order_items and
  whoever remembers such an id then mean another order.
* `StaleForOneTtl`: an answer is no older than the slowest replica was one TTL of its query,
  and the time of one query, ago, in whatever order rules, replicas, fills, expiries and
  flushes come; a flush never makes it worse. A locking read is always the primary's, and
  a COUNT over products lives as long as rule 3 says. `CachesCatchUp`: popular entries
  expire too.
* `OwnNamesAreOwn`: a log takes another node's name for its own in two cases and in no other,
  whatever transfers of others it lists. One is a transfer of others selected in the tick in
  which the node becomes a donor or joiner, or later: dates within 10 ms, or in the wrong
  order, count as its own (`logctx.go:188-204`, `sst.go:35`). `sst.go:28` calls
  that comparison solid when transfers run concurrently. The other is a view of the operator, which the regexes for one
  member match as well: its first member is compared with the own index that the last view
  gave when the random order of the map has it so. `RegexOrderIrrelevant`: but for these
  views, context and database are the same in every order of the map. `RepetitionsAddUp`:
  folding keeps the number of events. `VotesWereCast`: votes end at the write set and node
  they were cast for; of the winner it says nothing. `ChainedWindowsMerge`: rotated and
  overlapping windows, given in the order of their dates or its reverse, become one timeline
  by date, and what is lost or twice is exactly this: of an overlapping window, the lines
  dated at the end of the earlier one that the earlier one does not have are cut
  (`CutTimelineAt`); a line of the tick that ends one window and begins the next may be there
  twice; `--since` loses lines whose dates are slashed. Other orders of three files do not
  merge, nor does the code promise it. `RowsInOrder`, `AnnouncedOnce`: the printed table.
  `SearchIsExact`: whois finds the connected component of the search, no less and no more.
  `CommandEnds`: also when grep dies, a handler panics, a line is too short, or the goroutine
  of a path stays blocked behind `--until`. The one exception is a line of 64 KB, behind
  which the command may wait for ever (`internal.go:162-168`).
* `SummaryIsOfItsPod`: a summary never comes through another pod's port-forward.
  `OnlyCertificatesMissSilently`: of each namespace and pod, what was asked for (resources,
  logs, instance secrets, files, summaries, nodes) is in the archive as output or as the text
  of the error, or there was nothing, or `errors.txt` names the listing that failed, unless
  the two goroutines overwrote each other's append to `d.errors`. Certificates are left out:
  a failed `getSSLCertificates` is told to stderr only, and more than one custom resource to
  nobody. `CountersAreGains`: a printed difference is between the two passes, and the panic
  of a missing snapshot needs a failed first pass or databases that changed. `ArchiveIsCleanAndWhole`: nothing unsanitised is packed, and a
  program that ends well leaves every output of its commands, but for what stood behind the
  last newline and a query cut off at the end. What else it loses without a word are the
  property's exceptions: outputs whose writing or reading failed, outputs begun anew under
  the same name in one second, and an archive whose closing or encryption failed or that had
  no password.
  `ListsTheTopQueries`: the limit cuts a sorted list, totals are of all, and
  documents with the same fields are grouped right. `SummaryAddsUp`: totals, minimum and
  maximum agree across restarts, and only across a restart is a gain negative; members and
  the shortest oplog are real; sharded and other collections make up the total and are those
  whose sizes are summed, all that can be listed if no call failed, and fewer, of which the
  report says nothing, if a cursor broke off.
  `RedundantIndexesFound`: completeness of both passes, in whatever order the sort leaves
  equal keys, and whoever drops all that is reported keeps one index that contains
  each. `ToolEnds`.
* `FlushIsComplete`: until a tick falls, main receives each document that was read, once, in
  `Count` and in every list; with a tick, one may be lost. `CountCoversLists`: after
  it, flushes race with `Add`, but never list what they do not count. `DigestIsDelivered`, `StopReturnsOnceClosed`.

### Disagreements between code and text

1. `failover_topology`: the heredocs of `06-failover.sh:42,57,82` never reach mysql, and the
   script still announces replica1 as the writable new primary.
2. `cache_del`: a reader that fetched before the UPDATE writes its old price after the
   writer's DEL and re-cache, with every process finished: the window is not zero.
3. `profiler_stop`: `Stop` drops its signal when `getData` is not in its `select`, and does
   not wait at all when `getData` has not reached `Add(1)`.
4. `digest_groups`: documents are decoded into one variable, and a field a document lacks keeps
   what an earlier one had; a `find` of an old server is then counted under the
   fingerprint of the aggregation before it.
5. `pitr_replay`: `--exclude-gtids` is given all of `gtid_executed`, and the server has executed the
   transactions anyway: the two orders of step 5 are missing after the swap.
6. `proxysql_flush`: the flush empties the cache of node-1 only, and a result in flight may
   be stored after it.

Met while modelling, and without a run of their own:

* A second run of `05-backups.sh` dies in its reset (line 120): the foreign key of order_items
  has followed the table that RENAME moved. `Pitr` has both runs.
* `collectData` of pt-secure-collect drops the error of the encryption (`collect.go:71`), and main
  (`main.go:131-138`) then removes the tar file as if there were an encrypted one: with a full
  disk the program ends well and leaves nothing, although `--encrypt-password` is to encrypt
  the output file (`pt-secure-collect/README.rst:96`).
* When two state transfers are selected in the second in which a node becomes a donor, its log
  takes the donors of both for its own names (`types/logctx.go:192`), although the comparison of
  the two dates is there to tell concurrent transfers apart (`types/sst.go:28`).
* After the swap the script ends at line 278, where `rows` is a reserved word of MySQL 8.0.
* Rule 3 of ProxySQL comes before rule 4, so a COUNT over products lives 30 s, not the 5 s
  of `runbook.md:28`; and rule 5 before the rule 6 that `14-load-simulation.sh:235` adds,
  which therefore caches nothing.
* `timeout 5` in `07-parallel-writes.sh:87` ends the client, not its UPDATE, which commits later.

With `-i` the announced followers need not follow either: an insert only the old primary has
and one on the new primary can take the same key, and replication stops on error 1062.
`FollowersCatchUpOrStop` allows this, and no run asserts that they follow.

## Fairness

`HaproxyDetector`: time passes and checks run. `Failover`: HAProxy keeps checking, the
script and each worker go on until they end, each server's replication threads keep
running, a thawed server works off what it has received; nobody is obliged to write
to replica1. `CachePatterns`: a process finishes the commands it has begun and a TTL
ends; nobody has to read or update, nothing has to be evicted. `Profiler`: a goroutine
that can run does (the Go scheduler is preemptive), main reads up to its bound; no tick
is owed. `ProxySql`: time passes, a result in flight is stored, and each replica applies what
it lacks; no client has to ask, nobody has to flush and the cluster need not sync.
`Pitr` has no liveness: the script may fail. `LogExplainer`: while a goroutine can run,
one does; the main goroutine and the greps of a path alternate over an unbuffered
channel, so that fairness of the whole is enough. `Lab` assumes what the modules do.
`Toolkit`: the main goroutine of the tool that runs and its goroutines go on; servers
need not work and the deadline need not pass. The digest has no loop and, in this
module, nothing to wait for, so none is assumed; whether its reading ends is
`Profiler`'s question. All of it is weak fairness: no step waits for a resource that
others could take away again and again, apart from the profiler's lock, which each
caller of `Stop` takes once.

## What is proved

The assumptions are the `ASSUME`s of the modules: types of the constants, rise, fall and
inter positive, three distinct servers, finitely many workers; the five queries of the
demonstrations for `ProxySql`; names of pods and namespaces that are strings; callers of
`Stop` other than the goroutines themselves; lists of indexes whose names differ within a
collection; commands and files that are finite sequences of lines; clusters of finitely many
hosts; logs that are finite sequences of lines with the fields of a line, and a search that
has one of whois's four types. The proofs hold for every value they allow, and TLC evaluates
each assumption on the values of the runs.

What a proof says of minima (the slowest replica, the oldest reading) it takes from the
library's well-foundedness of the naturals, as a statement about sets. The same fact carries
induction up to a bound (`Smallest`, `UpTo`): the loops of the code that build a result from
a list are recursive functions of an index, `Loops` shows that such a function exists, and
what it computes is shown for the set of indexes up to which it holds. That is how the
theorems about prefixes of keys, joined query lines, oplogs of a cluster, repeated events and
whois reach lists of every length.

* `HaproxyDetector_proofs`. `TypeCorrect`; `DetectionWithinFallChecks` from
  `DetectInv`, which trades elapsed ticks for credit: while a dead server is in
  rotation, the ticks since it died plus those to the next check are at most inter
  times the checks still to fail; `RestoredWithinRiseChecks` from the mirror image
  `RestoreInv`; `CounterImplementsRiseFall`: every step of the counter maps to a step or
  a stutter of `RiseFall`.
* `Failover_proofs`. `TypeCorrect`. `GtidSetsHaveNoGaps`: `NoGtidGaps` speaks of sets and is
  not inductive, because whether a fetch leaves a hole depends on the order of the
  source's binlog; `GtidInv` adds that each binlog, and each relay log on top of what is
  executed, lists every transaction after its predecessor, and that a server has
  logged the last number it gave. `AckedWritesStayLogged`: from `AckInv`, which says the
  same of transactions whose answer is still on its way; `InsertsRunAtMostOnce`: from
  `BudgetInv`, what has committed, what orphans may commit and what is in flight are
  together no more than the inserts started. `OldPrimaryIsFenced`: from `FenceInv`, paused between
  pause and unpause, read-only after the fence; only a commit moves the number.
  `AsIsReplicasArePrefixes`: for the script without `-i` and no direct writes, from
  `AsIsInv`, which compares every binlog with the numbering 1, 2, 3 ... rather than the
  binlogs with each other.
* `Caches_proofs`. `CacheTypeCorrect`, and `NothingStaysForEver` from `ExpiryInv`, which
  adds that nobody is about to write through; `SoleWriterIsFresh` from `SoleInv`: what the
  only writer is about to put into the cache is the price in MySQL. For ProxySQL, with any
  nodes, replicas, TTL and updates: `ProxyTypeCorrect`; `AnswersAreFresh` from `AgeInv`, which
  dates every result: one in flight is as new as the start of the last tick, or of the one
  before when it is late, and a cache entry as new as the tick before it was stored.
* `Channels_proofs`, about pt-pg-summary alone (`PgSpec`), for any databases, any work of the
  server and any failing query. `PgTypeCorrect`; `PrintedCountersAreGains` from `GainInv`, which
  ties `counters` to the answers received, at each place of `main`: one snapshot of what
  the first pass counted, then one of each pass, then the gains. That rows are never
  empty (a server always has a database) is needed: an empty first pass would be printed
  after a failed second one. And about the profiler reader, for any documents, ticks and
  callers of `Stop`: `ReaderTypeCorrect`; `FlushesCountWhatTheyList` from `CoverInv`: `Add`
  works on an entry that it has counted its document in, or on one that a `Reset` has
  replaced for good. `FlushedOnceComplete` from `CompleteInv`: as long as no tick has fallen,
  `getData` has begun no flush, and at each point of `getDocs` the entry, what is being sent
  and what main has received hold exactly the wanted documents up to the cursor.
* `K8sCollector_proofs`, for any namespaces, pods, options and failing calls.
  `K8sTypeCorrect`; `SummariesAreTheirPods` from `PortInv`: of all port-forwards ever started
  only the youngest can listen, and only while main is about to take the summary of its
  pod; `OnlyCertificatesGoUnnamed` from `WorkInv`: at every moment of the run, what was asked for
  of a namespace, certificates apart, is in the archive or among the tasks, or there was
  nothing, or else its listing failed and is named in `d.errors`, which only the goroutine of
  a port-forward can have written over.
* `Pitr_proofs`, for any seeded orders, client orders and runs of the script.
  `PitrTypeCorrect`, `OrdersAreKept`, `RecoveryIsExact` and `ReuseIsConfined`, all from `PitrInv`:
  none of the properties is inductive, because what the swap leaves was decided by where
  each order lay between DELETE, dump and swap. `ClockInv` dates rows, dump and marks by
  the binlog; `OrdersInv` compares the acknowledged orders with the active table,
  `DumpInv` with the dump and its reloaded copy, `SwapInv` with the two tables after the
  swap. That the replay changes nothing is derived: whatever `--exclude-gtids` lets
  through, the server has executed.
* `Tools_proofs`, about three tools that compute what they print in loops.
  `RedundantIndexesAreFound`, for any databases, indexes and failing calls, from `ReportInv`:
  what is reported was found, and what was answered is reported. That whoever drops all of it
  keeps a containing index is a fact about the list: containment goes on from one container to
  the next, each longer or equal and later, so the last of them is not itself reported.
  `ArchiveIsKept`, for any commands, files and failures, from `SealInv`, which says at each
  place of the run which files are still as collected, which the sanitiser has done, which
  an ignored error has spoilt, and where the whole of them is: on disk, in the tar file, in
  the encrypted file; `unread` is in the order of the walk, so that what is not in it is
  clean. What joining does to a file, cut off or not, is shown by induction over its lines.
  `SummaryIsConsistent`, for any cluster, catalogue, server and failing calls, from
  `SummaryInv`, which says after each reading that the total of an opcounter is the last
  reading less the first, that minimum and maximum are gains that bound the others, and that
  a reading is no less than the one before unless the server restarted; of the members and
  the oplog that they come from hosts that answered; and of the collections that the numbers
  are those of the sets whose sizes are summed.
* `LogExplainer_proofs`, for any logs, command lines, failing greps and orders of maps.
  `WhoisIsExact` from `SearchInv`: no proper part of the tree with the search is closed under the
  links within the tree, and what has a link that is not followed awaits its `Filter`; the tree
  is then the connected component, whichever of the nodes it is linked to takes a new value.
  `NoRepetitionIsLost` from `RepetitionInv`: the last event has no repetitions of its own yet,
  the only one that `Add` may replace. `ChangesAreAnnouncedOnce` from `AnnounceInv`: between two
  rows, every column shows what it showed last, so a change is found when its event comes
  and never again. `RecordedVotesWereCast` from `VoteInv`: the line whose regexes are applied is
  one that the grep has passed, and of the handlers only those of votes record one, in the
  conflict of their own write set, to which the merge of two conflicts adds no other; all
  others leave the votes as they are and forget no name of the server.

The type invariants of these modules but `Failover`'s have no run: they are proved, and a run
would say less.

Only model-checked:

* all liveness (fairness and ENABLED are outside the prover's reach);
* `ListsTheTopQueries`: `MongoFingerprint` walks documents with a RECURSIVE operator, which keeps
  it, `MongoDigest` and `Toolkit` out of the prover's reach;
* `OwnNamesAreOwn`, `ChainedWindowsMerge` and `RowsInOrder`: they are true of logs as Galera
  writes them (a node logs its own name where the regexes look for it, and lines in the
  order of their dates), not of every sequence of lines, and the runs' logs are such logs;
* `RegexOrderIrrelevant`: which regexes match the same line is a matter of Galera's messages;
  that any two handlers commute is false.

## Not modelled

* Of the log explainer: the commands `sed` and `regex-list`, which print and keep no state,
  `--exclude-regexes`, colours and texts.
* Of secure collect: the stand-alone encrypt, decrypt and sanitize commands, the cipher, and
  of the sanitiser all but the reading of lines and the joining of query lines. Of the
  collector: errors of the archive itself, and what is in a certificate. Of the summaries: units and templates.
* `lib/config`, the version check, `mongolib/explain`: parsing, one request, one command, no
  state over several steps. Perl tools: vendored, the lab only calls some.
* Of the lab: what the plan below lists; migration and schema-change scripts, which call
  external tools in sequence; smoke tests, measurements and monitoring, which only read.
* Of the backups: sections A, C and D of `05-backups.sh` and all of `06-fast-backups.sh`, whose
  dumps no later step reads. Of ProxySQL: restarts of a node (which would forget a rule not
  saved to disk), connection limits, multiplexing, sync of users and servers. Of
  `07-parallel-writes.sh`, the demonstrations of row locks and deadlocks: they show what InnoDB
  does, and the script reacts to none of it.

## Plan

Next, in this order:

1. `Bootstrap` (`01-setup-replication.sh`): waits that give up, users created on each node
   under its own GTIDs, re-runs.
2. In `CachePatterns`: rate limiter, lock with expiry, stampede protection.

Theorems to add: `RowsInOrder` and `ChainedWindowsMerge` under the assumption that each log is
in the order of its dates; that `GaleraTimeline`'s merge of two ordered timelines is ordered
and keeps the events of both is the lemma they rest on.
