------------------------------ MODULE PgSummary ------------------------------
(***************************************************************************)
(* pt-pg-summary: CollectGlobalInfo reads the counters of every database   *)
(* twice, the second time in a goroutine that sleeps first, over a channel *)
(* of capacity 2; in between it reads the rest.  calcCountersDiff then     *)
(* subtracts the passes, and main reads each database and prints.          *)
(* Meanwhile the server works: it counts, and databases come and go.       *)
(***************************************************************************)
EXTENDS Integers, Sequences, Functions

CONSTANTS Databases,   \* names a database can have
          Asked,       \* databases of the command line; {} asks for all
          MaxWork      \* bound on what the server does meanwhile

(* A PostgreSQL server always has a database: template1 at least. *)
ASSUME PgAssumption == MaxWork \in Nat /\ Databases # {}

VARIABLES pgPc,       \* where main is
          stat,       \* pg_stat_database: database -> its counter
          work,       \* what the server has done, at most MaxWork
          chan,       \* the channel ch, what it holds
          goroutine,  \* of the second pass: "none", "sleeps", "over"
          counters,   \* PGInfo.Counters: database -> the snapshots
          passes,     \* ghost: the answers main received
          asked,      \* databases main has still to connect to
          tables      \* databases whose per-database information is there

pgVars == <<pgPc, stat, work, chan, goroutine, counters, passes, asked, tables>>
server == <<stat, work>>

Failure == [ok |-> FALSE, rows |-> <<>>]

PgInit == /\ pgPc = "new" /\ stat \in [Databases -> {0}]
          /\ work = 0 /\ chan = <<>> /\ goroutine = "none" /\ counters = <<>>
          /\ passes = <<>> /\ asked = {} /\ tables = {}

(* The server counts a transaction, drops a database or creates one. *)
Work ==
    /\ work < MaxWork /\ pgPc \notin {"printed", "fatal", "panic"}
    /\ work' = work + 1
    /\ \/ \E d \in DOMAIN stat : stat' = [stat EXCEPT ![d] = @ + 1]
       \/ \E d \in DOMAIN stat : /\ DOMAIN stat # {d}
                               /\ stat' = Restrict(stat, DOMAIN stat \ {d})
       \/ \E d \in Databases \ DOMAIN stat :
             stat' = [e \in DOMAIN stat \cup {d} |-> IF e = d THEN 0 ELSE stat[e]]
    /\ UNCHANGED <<pgPc, chan, goroutine, counters, passes, asked, tables>>

(* new(): the databases to look at; an error ends the program. *)
PgNew == /\ pgPc = "new"
         /\ pgPc' \in {"first", "fatal"}
         /\ asked' = IF Asked = {} THEN DOMAIN stat ELSE Asked
         /\ UNCHANGED <<server, chan, goroutine, counters, passes, tables>>

(* getCounters: the rows, or the error, go into the channel, whose buffer  *)
(* takes two; a receiver would have to be waiting otherwise.               *)
NoRoom == FALSE   \* mutant: make(chan interface{}), nobody is receiving
Room == Len(chan) < 2
Send == Room /\ \E a \in {[ok |-> TRUE, rows |-> stat], Failure} :
                   chan' = Append(chan, a)

FirstPass == /\ pgPc = "first" /\ Send /\ pgPc' = "wait1"
             /\ UNCHANGED <<server, goroutine, counters, passes, asked, tables>>

(* waitForCounters, and the rows appended to the snapshots of their names. *)
Record(rows) ==
    [d \in DOMAIN counters \cup DOMAIN rows |->
        (IF d \in DOMAIN counters THEN counters[d] ELSE <<>>)
        \o (IF d \in DOMAIN rows THEN <<rows[d]>> ELSE <<>>)]
Receive == /\ chan # <<>>
           /\ chan' = Tail(chan)
           /\ passes' = Append(passes, Head(chan))
           /\ counters' = IF Head(chan).ok THEN Record(Head(chan).rows) ELSE counters

WaitFirst == /\ pgPc = "wait1" /\ Receive
             /\ pgPc' = "global" /\ goroutine' = "sleeps"
             /\ UNCHANGED <<server, asked, tables>>

(* The goroutine wakes up and sends its own pass. *)
SecondPass == /\ goroutine = "sleeps" /\ Send /\ goroutine' = "over"
              /\ pgPc \notin {"printed", "fatal", "panic"}
              /\ UNCHANGED <<pgPc, server, counters, passes, asked, tables>>

(* Cluster, clients, waits, tablespaces, settings, replicas: a failed      *)
(* query is put on the list of errors and the next one is made.            *)
Global == /\ pgPc = "global"
          /\ pgPc' = "wait2"
          /\ UNCHANGED <<server, chan, goroutine, counters, passes, asked, tables>>

WaitSecond == /\ pgPc = "wait2" /\ Receive
              /\ pgPc' = IF Head(chan).ok THEN "diff" ELSE "databases"
              /\ UNCHANGED <<server, goroutine, asked, tables>>

(* calcCountersDiff takes c[1] - c[0] of every database: one snapshot only *)
(* is an index out of range.                                               *)
(* Mutant: the newest snapshot comes first. *)
DifferenceReversed(c) == Append(c, c[1] - c[2])
Difference(c) == Append(c, c[2] - c[1])
Diff == /\ pgPc = "diff"
        /\ IF \E d \in DOMAIN counters : Len(counters[d]) < 2
           THEN pgPc' = "panic" /\ UNCHANGED counters
           ELSE /\ pgPc' = "databases"
                /\ counters' = [d \in DOMAIN counters |-> Difference(counters[d])]
        /\ UNCHANGED <<server, chan, goroutine, passes, asked, tables>>

(* main: connect to each database and collect; a database that cannot be   *)
(* reached, or whose queries fail, is only logged.                         *)
PerDatabase ==
    /\ pgPc = "databases"
    /\ \E d \in asked : /\ asked' = asked \ {d}
                        /\ tables' \in {tables, tables \cup ({d} \cap DOMAIN stat)}
    /\ UNCHANGED <<pgPc, server, chan, goroutine, counters, passes>>

(* The template prints index 2 of every entry and is fatal without it. *)
PrintReport ==
         /\ pgPc = "databases" /\ asked = {}
         /\ pgPc' = IF \E d \in DOMAIN counters : Len(counters[d]) < 3
                    THEN "fatal" ELSE "printed"
         /\ UNCHANGED <<server, chan, goroutine, counters, passes, asked, tables>>

PgMain == \/ PgNew \/ FirstPass \/ WaitFirst \/ Global \/ WaitSecond \/ Diff
          \/ PerDatabase \/ PrintReport
PgNext == PgMain \/ SecondPass \/ Work

-----------------------------------------------------------------------------
(* A printed report gives for every database what it counted from the      *)
(* first pass to the second, and the program dies computing it only when   *)
(* the first pass failed or the databases changed between the two          *)
(* (calcCountersDiff, pginfo.go:278-296; the template's index 2).          *)
CountersAreGains ==
    LET complete == Len(passes) = 2 /\ passes[1].ok /\ passes[2].ok IN
    /\ pgPc = "printed" => IF complete
         THEN counters = [d \in DOMAIN passes[1].rows |->
                <<passes[1].rows[d], passes[2].rows[d],
                  passes[2].rows[d] - passes[1].rows[d]>>]
         ELSE \A i \in 1..2 : ~passes[i].ok
    /\ pgPc = "panic" => \/ ~passes[1].ok
                         \/ DOMAIN passes[1].rows # DOMAIN passes[2].rows
=============================================================================
