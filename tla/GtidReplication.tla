-------------------------- MODULE GtidReplication --------------------------
(***************************************************************************)
(* Asynchronous GTID replication between the lab's MySQL servers, as       *)
(* config/mysql-*.cnf configure it (gtid-mode ON, log-slave-updates ON,    *)
(* ROW binlogs, auto-positioning, no semi-synchronous acknowledgement).    *)
(*                                                                         *)
(* A transaction inserts one row into a table with an AUTO_INCREMENT key   *)
(* (orders, customers).  It is identified by its GTID, the pair of origin  *)
(* and seq, and it carries the key of the row it wrote.  The order of      *)
(* binlog[s] is the commit order on s, and the set of its elements is      *)
(* gtid_executed of s.                                                     *)
(*                                                                         *)
(* The module gives the state and one operator per server operation; the   *)
(* modules that extend it say who calls them and when.                     *)
(***************************************************************************)
EXTENDS Naturals, Sequences, Functions

CONSTANTS
    Servers,   \* mysql-primary, mysql-replica1, mysql-replica2
    NoServer   \* the source of a server that replicates from nobody

ASSUME ServersAssumption == NoServer \notin Servers

VARIABLES
    binlog,    \* binlog[s]: the transactions s committed, in commit order
    relay,     \* relay[s]: fetched from the source, not yet applied
    source,    \* source[s]: the server s replicates from, or NoServer
    threads,   \* threads[s]: "stopped", "running" or "sql_error"
    nextSeq,   \* nextSeq[s]: the next GTID sequence number of origin s
    nextRow,   \* nextRow[s]: the AUTO_INCREMENT counter of the table on s
    readOnly,  \* readOnly[s]: read_only and super_read_only are ON
    paused     \* the containers frozen by docker pause

replVars == <<binlog, relay, source, threads, nextSeq, nextRow, readOnly, paused>>

Txn == [origin : Servers, seq : Nat \ {0}, row : Nat \ {0}]

ThreadStates == {"stopped", "running", "sql_error"}

ReplTypeOK ==
    /\ binlog \in [Servers -> Seq(Txn)]
    /\ relay \in [Servers -> Seq(Txn)]
    /\ source \in [Servers -> Servers \cup {NoServer}]
    /\ threads \in [Servers -> ThreadStates]
    /\ nextSeq \in [Servers -> Nat \ {0}]
    /\ nextRow \in [Servers -> Nat \ {0}]
    /\ readOnly \in [Servers -> BOOLEAN]
    /\ paused \subseteq Servers

Executed(s) == Range(binlog[s])

\* What gtid_executed and the relay log of s cover: auto-positioning never
\* asks the source for any of it again.
Known(s) == Executed(s) \cup Range(relay[s])

\* No server has committed anything yet; src gives the replication topology.
\* read-only is commented out in both replicas' configuration files.
ReplInit(src) ==
    /\ binlog = [s \in Servers |-> << >>]
    /\ relay = [s \in Servers |-> << >>]
    /\ source = src
    /\ threads = [s \in Servers |-> IF src[s] = NoServer THEN "stopped" ELSE "running"]
    /\ nextSeq = [s \in Servers |-> 1]
    /\ nextRow = [s \in Servers |-> 1]
    /\ readOnly = [s \in Servers |-> FALSE]
    /\ paused = {}

----------------------------------------------------------------------------
(* Commits and replication *)

\* The transaction that the next INSERT on s commits.
NextTxn(s) == [origin |-> s, seq |-> nextSeq[s], row |-> nextRow[s]]

\* An INSERT commits on s.  sync-binlog = 1: the commit and its binlog event
\* are one step.
CommitInsert(s) ==
    /\ s \notin paused
    /\ ~readOnly[s]
    /\ binlog' = [binlog EXCEPT ![s] = Append(@, NextTxn(s))]
    /\ nextSeq' = [nextSeq EXCEPT ![s] = @ + 1]
    /\ nextRow' = [nextRow EXCEPT ![s] = @ + 1]
    /\ UNCHANGED <<relay, source, threads, readOnly, paused>>

\* The receiver thread of r fetches the first transaction of the source's
\* binlog that r does not know.  It keeps running when the applier has failed.
Fetch(r) ==
    /\ source[r] # NoServer
    /\ threads[r] # "stopped"
    /\ {r, source[r]} \cap paused = {}
    /\ \E i \in DOMAIN binlog[source[r]] :
         /\ binlog[source[r]][i] \notin Known(r)
         /\ \A j \in 1 .. (i - 1) : binlog[source[r]][j] \in Known(r)
         /\ relay' = [relay EXCEPT ![r] = Append(@, binlog[source[r]][i])]
    /\ UNCHANGED <<binlog, source, threads, nextSeq, nextRow, readOnly, paused>>

\* A row event conflicts when another transaction already created its row.
Conflict(r, t) == \E u \in Executed(r) : u.row = t.row

\* Mutant of Apply: parallel workers that do not preserve the commit order.
ApplyAnyOrder(r) ==
    /\ threads[r] = "running"
    /\ r \notin paused
    /\ \E t \in Range(relay[r]) :
         /\ ~Conflict(r, t)
         /\ binlog' = [binlog EXCEPT ![r] = Append(@, t)]
         /\ relay' = [relay EXCEPT ![r] = SelectSeq(@, LAMBDA u : u # t)]
         /\ nextRow' = [nextRow EXCEPT ![r] = IF t.row >= @ THEN t.row + 1 ELSE @]
    /\ UNCHANGED <<source, threads, nextSeq, readOnly, paused>>

\* The applier of r commits the head of its relay log, and logs it to its own
\* binlog (log-slave-updates).
Apply(r) ==
    /\ relay[r] # << >>
    /\ threads[r] = "running"
    /\ r \notin paused
    /\ ~Conflict(r, Head(relay[r]))
    /\ binlog' = [binlog EXCEPT ![r] = Append(@, Head(relay[r]))]
    /\ relay' = [relay EXCEPT ![r] = Tail(@)]
    /\ nextRow' = [nextRow EXCEPT ![r] = IF Head(relay[r]).row >= @
                                         THEN Head(relay[r]).row + 1 ELSE @]
    /\ UNCHANGED <<source, threads, nextSeq, readOnly, paused>>

\* Error 1062: the row exists already, and the applier stops on the event.
ApplyFails(r) ==
    /\ relay[r] # << >>
    /\ threads[r] = "running"
    /\ r \notin paused
    /\ Conflict(r, Head(relay[r]))
    /\ threads' = [threads EXCEPT ![r] = "sql_error"]
    /\ UNCHANGED <<binlog, relay, source, nextSeq, nextRow, readOnly, paused>>

----------------------------------------------------------------------------
(* What the scripts ask of a server *)

\* STOP REPLICA; RESET REPLICA ALL: the fetched but unapplied transactions and
\* the source are gone.
ForgetSource(s) ==
    /\ relay' = [relay EXCEPT ![s] = << >>]
    /\ source' = [source EXCEPT ![s] = NoServer]
    /\ threads' = [threads EXCEPT ![s] = "stopped"]

\* STOP REPLICA; CHANGE REPLICATION SOURCE TO src ... AUTO_POSITION = 1; START
\* REPLICA: the relay log is purged, and what was in it is fetched again from
\* the new source if the new source has it.
FollowSource(s, src) ==
    /\ relay' = [relay EXCEPT ![s] = << >>]
    /\ source' = [source EXCEPT ![s] = src]
    /\ threads' = [threads EXCEPT ![s] = "running"]
=============================================================================
