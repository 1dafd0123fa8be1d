------------------------------ MODULE Failover ------------------------------
(***************************************************************************)
(* scripts/06-failover.sh against a running lab: the write workers of      *)
(* scripts/07-parallel-writes.sh insert through HAProxy's write port,      *)
(* HAProxy health-checks the primary, the replicas follow it, and the      *)
(* script freezes the primary, promotes replica1, points replica2 and the  *)
(* returning primary at replica1.                                          *)
(*                                                                         *)
(* The script sends its SQL with "docker exec <server> mysql ... <<EOF"    *)
(* and no -i.  docker exec then attaches no standard input, mysql reads an *)
(* empty script and exits 0 (scripts/01-setup-replication.sh:52 says so of *)
(* its own heredoc, which does pass -i).  StdinAttached is FALSE for the   *)
(* script as it is; TRUE is the same script with -i, whose SQL arrives.    *)
(***************************************************************************)
EXTENDS GtidReplication, HealthCounter, FiniteSets

CONSTANTS
    Primary, Replica1, Replica2,  \* the three servers
    Workers,                      \* write_worker processes
    Inserts,                      \* inserts each worker makes (20 in the script)
    DirectWrites,                 \* bound: inserts sent straight to the new primary
    StdinAttached                 \* the heredocs of the script reach mysql

ASSUME FailoverAssumption ==
    /\ Servers = {Primary, Replica1, Replica2}
    /\ Primary # Replica1 /\ Primary # Replica2 /\ Replica1 # Replica2
    /\ IsFiniteSet(Workers)
    /\ Inserts \in Nat
    /\ DirectWrites \in Nat
    /\ StdinAttached \in BOOLEAN

VARIABLES
    step,      \* what the script does next
    health,    \* HAProxy's health counter of the primary
    stmt,      \* stmt[w]: how far the worker's current insert has come
    left,      \* left[w]: inserts the worker has not started
    orphans,   \* inserts received by the primary whose connection is gone
    acked,     \* transactions whose client was told they committed
    pending,   \* pending[w]: the committed transactions w waits to hear of
    direct     \* inserts sent straight to the new primary so far

vars == <<replVars, step, health, stmt, left, orphans, acked, pending, direct>>

clientVars == <<stmt, left, orphans, acked, pending, direct>>

Steps == {"before", "promote", "repoint", "unpause", "fence", "demote",
          "status", "done", "failed"}

StmtStates == {"idle", "connecting", "sent", "committed", "exited"}

TypeOK ==
    /\ ReplTypeOK
    /\ step \in Steps
    /\ health \in Health
    /\ stmt \in [Workers -> StmtStates]
    /\ left \in [Workers -> 0 .. Inserts]
    /\ orphans \in Nat
    /\ acked \subseteq Txn
    /\ pending \in [Workers -> SUBSET Txn]
    /\ direct \in 0 .. DirectWrites

\* Replication as scripts/01-setup-replication.sh leaves it.
Init ==
    /\ ReplInit([s \in Servers |-> IF s = Primary THEN NoServer ELSE Primary])
    /\ step = "before"
    /\ health = InitialHealth
    /\ stmt = [w \in Workers |-> "idle"]
    /\ left = [w \in Workers |-> Inserts]
    /\ orphans = 0
    /\ acked = {}
    /\ pending = [w \in Workers |-> {}]
    /\ direct = 0

----------------------------------------------------------------------------
(* HAProxy *)

\* mysql-check on the primary: a login, which a frozen server never answers
\* and a read-only one does.
HealthCheck ==
    /\ health' = IF Primary \in paused THEN CheckFailed(health) ELSE CheckPassed(health)
    /\ UNCHANGED <<replVars, step, clientVars>>

----------------------------------------------------------------------------
(* Write workers: one mysql client, hence one connection, per insert *)

\* Mutant of Connect: the worker never counts its inserts.
ConnectForever(w) ==
    /\ stmt[w] = "idle"
    /\ IsUp(health)
    /\ stmt' = [stmt EXCEPT ![w] = "connecting"]
    /\ left' = [left EXCEPT ![w] = @ - 1]
    /\ UNCHANGED <<replVars, step, health, orphans, acked, pending, direct>>

\* The client connects to :3306 and HAProxy to the only server behind it.  The
\* kernel accepts for a frozen server too.
Connect(w) ==
    /\ stmt[w] = "idle"
    /\ left[w] > 0
    /\ IsUp(health)
    /\ stmt' = [stmt EXCEPT ![w] = "connecting"]
    /\ left' = [left EXCEPT ![w] = @ - 1]
    /\ UNCHANGED <<replVars, step, health, orphans, acked, pending, direct>>

\* No server in rotation: the client fails and set -e ends the worker.
ConnectFails(w) ==
    /\ stmt[w] = "idle"
    /\ left[w] > 0
    /\ ~IsUp(health)
    /\ stmt' = [stmt EXCEPT ![w] = "exited"]
    /\ left' = [left EXCEPT ![w] = @ - 1]
    /\ UNCHANGED <<replVars, step, health, orphans, acked, pending, direct>>

\* The server's greeting arrives and the client sends its INSERT.  HAProxy
\* leaves established connections alone when it takes a server out of rotation.
Send(w) ==
    /\ stmt[w] = "connecting"
    /\ Primary \notin paused
    /\ stmt' = [stmt EXCEPT ![w] = "sent"]
    /\ UNCHANGED <<replVars, step, health, left, orphans, acked, pending, direct>>

Commit(w) ==
    /\ stmt[w] = "sent"
    /\ CommitInsert(Primary)
    /\ stmt' = [stmt EXCEPT ![w] = "committed"]
    /\ pending' = [pending EXCEPT ![w] = {NextTxn(Primary)}]
    /\ UNCHANGED <<step, health, left, orphans, acked, direct>>

\* Error 1290: the server is read-only; the worker exits.
Reject(w) ==
    /\ stmt[w] = "sent"
    /\ Primary \notin paused
    /\ readOnly[Primary]
    /\ stmt' = [stmt EXCEPT ![w] = "exited"]
    /\ UNCHANGED <<replVars, step, health, left, orphans, acked, pending, direct>>

\* The OK packet reaches the client.
Acknowledge(w) ==
    /\ stmt[w] = "committed"
    /\ Primary \notin paused
    /\ acked' = acked \cup pending[w]
    /\ pending' = [pending EXCEPT ![w] = {}]
    /\ stmt' = [stmt EXCEPT ![w] = "idle"]
    /\ UNCHANGED <<replVars, step, health, left, orphans, direct>>

\* Mutant of Timeout: an INSERT that has already committed runs again.
TimeoutReplays(w) ==
    /\ stmt[w] \in {"connecting", "sent", "committed"}
    /\ Primary \in paused
    /\ stmt' = [stmt EXCEPT ![w] = "exited"]
    /\ orphans' = IF stmt[w] = "connecting" THEN orphans ELSE orphans + 1
    /\ pending' = [pending EXCEPT ![w] = {}]
    /\ UNCHANGED <<replVars, step, health, left, acked, direct>>

\* "timeout server 30s": HAProxy closes a connection on which the frozen server
\* stays silent and the worker exits.  An INSERT that had been sent stays in
\* the server's receive buffer.
Timeout(w) ==
    /\ stmt[w] \in {"connecting", "sent", "committed"}
    /\ Primary \in paused
    /\ stmt' = [stmt EXCEPT ![w] = "exited"]
    /\ orphans' = IF stmt[w] = "sent" THEN orphans + 1 ELSE orphans
    /\ pending' = [pending EXCEPT ![w] = {}]
    /\ UNCHANGED <<replVars, step, health, left, acked, direct>>

\* The thawed server executes an INSERT nobody waits for.
OrphanCommit ==
    /\ orphans > 0
    /\ CommitInsert(Primary)
    /\ orphans' = orphans - 1
    /\ UNCHANGED <<step, health, stmt, left, acked, pending, direct>>

OrphanReject ==
    /\ orphans > 0
    /\ Primary \notin paused
    /\ readOnly[Primary]
    /\ orphans' = orphans - 1
    /\ UNCHANGED <<replVars, step, health, stmt, left, acked, pending, direct>>

\* An application that took the script's advice and now writes to replica1,
\* which the script has announced as writable and as the new primary.
DirectWrite ==
    /\ step \notin {"before", "promote"}
    /\ direct < DirectWrites
    /\ CommitInsert(Replica1)
    /\ direct' = direct + 1
    /\ acked' = acked \cup {NextTxn(Replica1)}
    /\ UNCHANGED <<step, health, stmt, left, orphans, pending>>

----------------------------------------------------------------------------
(* scripts/06-failover.sh, one action per docker command *)

\* "Seconds_Behind" must be in SHOW REPLICA STATUS or grep ends the script;
\* then docker pause mysql-primary, and two probes that change nothing.
PausePrimary ==
    /\ step = "before"
    /\ source[Replica1] # NoServer
    /\ paused' = paused \cup {Primary}
    /\ step' = "promote"
    /\ UNCHANGED <<binlog, relay, source, threads, nextSeq, nextRow, readOnly,
                   health, clientVars>>

\* STOP REPLICA; RESET REPLICA ALL; read_only and super_read_only OFF.
Promote ==
    /\ step = "promote"
    /\ step' = "repoint"
    /\ IF StdinAttached
       THEN /\ ForgetSource(Replica1)
            /\ readOnly' = [readOnly EXCEPT ![Replica1] = FALSE]
       ELSE UNCHANGED <<relay, source, threads, readOnly>>
    /\ UNCHANGED <<binlog, nextSeq, nextRow, paused, health, clientVars>>

\* Mutant of RepointReplica2: START REPLICA is forgotten.
RepointWithoutStart ==
    /\ step = "repoint"
    /\ step' = "unpause"
    /\ relay' = [relay EXCEPT ![Replica2] = << >>]
    /\ source' = [source EXCEPT ![Replica2] = Replica1]
    /\ threads' = [threads EXCEPT ![Replica2] = "stopped"]
    /\ UNCHANGED <<binlog, nextSeq, nextRow, readOnly, paused, health, clientVars>>

\* STOP REPLICA; CHANGE REPLICATION SOURCE TO mysql-replica1; START REPLICA.
RepointReplica2 ==
    /\ step = "repoint"
    /\ step' = "unpause"
    /\ IF StdinAttached
       THEN FollowSource(Replica2, Replica1)
       ELSE UNCHANGED <<relay, source, threads>>
    /\ UNCHANGED <<binlog, nextSeq, nextRow, readOnly, paused, health, clientVars>>

\* Mutant of UnpausePrimary: docker unpause is forgotten.
UnpauseForgotten ==
    /\ step = "unpause"
    /\ step' = "fence"
    /\ UNCHANGED <<replVars, health, clientVars>>

\* docker unpause mysql-primary
UnpausePrimary ==
    /\ step = "unpause"
    /\ step' = "fence"
    /\ paused' = paused \ {Primary}
    /\ UNCHANGED <<binlog, relay, source, threads, nextSeq, nextRow, readOnly,
                   health, clientVars>>

\* Mutant of FencePrimary: read_only stays OFF.
FenceForgotten ==
    /\ step = "fence"
    /\ step' = "demote"
    /\ UNCHANGED <<replVars, health, clientVars>>

\* After sleep 5, the first statements for the old primary: STOP REPLICA;
\* read_only and super_read_only ON.
FencePrimary ==
    /\ step = "fence"
    /\ step' = "demote"
    /\ readOnly' = [readOnly EXCEPT ![Primary] = @ \/ StdinAttached]
    /\ UNCHANGED <<binlog, relay, source, threads, nextSeq, nextRow, paused,
                   health, clientVars>>

\* Mutant of DemotePrimary: the old primary's own transactions are discarded
\* first (RESET MASTER) so that it can follow replica1 without errant GTIDs.
DemoteByReset ==
    /\ step = "demote"
    /\ step' = "status"
    /\ FollowSource(Primary, Replica1)
    /\ binlog' = [binlog EXCEPT ![Primary] = << >>]
    /\ UNCHANGED <<nextSeq, nextRow, readOnly, paused, health, clientVars>>

\* The remaining statements for the old primary: CHANGE REPLICATION SOURCE TO
\* mysql-replica1; START REPLICA.
DemotePrimary ==
    /\ step = "demote"
    /\ step' = "status"
    /\ IF StdinAttached
       THEN FollowSource(Primary, Replica1)
       ELSE UNCHANGED <<relay, source, threads>>
    /\ UNCHANGED <<binlog, nextSeq, nextRow, readOnly, paused, health, clientVars>>

\* The script has printed the final topology; the last grep ends it with an
\* error when the old primary has no replication status to show.
ReportStatus ==
    /\ step = "status"
    /\ step' = IF source[Primary] = NoServer THEN "failed" ELSE "done"
    /\ UNCHANGED <<replVars, health, clientVars>>

----------------------------------------------------------------------------
Replicate(r) == Fetch(r) \/ Apply(r) \/ ApplyFails(r)

Replication == \E r \in Servers :
    Replicate(r) /\ UNCHANGED <<step, health, clientVars>>

Worker(w) ==
    \/ Connect(w) \/ ConnectFails(w) \/ Send(w) \/ Commit(w)
    \/ Reject(w) \/ Acknowledge(w) \/ Timeout(w)

Script ==
    \/ PausePrimary \/ Promote \/ RepointReplica2 \/ UnpausePrimary
    \/ FencePrimary \/ DemotePrimary \/ ReportStatus

Next ==
    \/ HealthCheck
    \/ \E w \in Workers : Worker(w)
    \/ OrphanCommit \/ OrphanReject
    \/ DirectWrite
    \/ Script
    \/ Replication

\* Containers keep running, HAProxy keeps checking, a started script or client
\* goes on until it ends.  Nobody is obliged to write to replica1.
Fairness ==
    /\ WF_vars(HealthCheck)
    /\ WF_vars(Script)
    /\ WF_vars(OrphanCommit \/ OrphanReject)
    /\ \A w \in Workers : WF_vars(Worker(w))
    /\ \A r \in Servers : WF_vars(Replicate(r) /\ UNCHANGED <<step, health, clientVars>>)

Spec == Init /\ [][Next]_vars /\ Fairness

----------------------------------------------------------------------------
(* Properties of the script, with or without -i *)

\* gtid_executed of every server is an unbroken interval 1..k per origin, and
\* so is what it has executed or fetched: fetching by auto-position, applying
\* in relay order and every purge of a relay log by the script leave no hole.
\* What a promoted or repointed server has of another server's history is
\* therefore a consistent cut of it.
NoGtidGaps ==
    \A s \in Servers : \A S \in {Executed(s), Known(s)} : \A t \in S :
        t.seq = 1 \/ \E u \in S : u.origin = t.origin /\ u.seq = t.seq - 1

\* An insert commits at most once on the primary, although its connection may
\* die under it and leave it to run unattended: commits and orphans together
\* never exceed the inserts the workers started.
Started == {i \in Workers \X (1 .. Inserts) : i[2] > left[i[1]]}

AtMostOnce == nextSeq[Primary] - 1 + orphans <= Cardinality(Started)

\* A write that was acknowledged is in the binlog of the server that
\* acknowledged it, whatever froze, thawed or changed role since.
AckedIsLogged == \A t \in acked : t \in Executed(t.origin)

----------------------------------------------------------------------------
(* The script as it is: nothing it sends arrives *)

\* The n-th transaction of a primary that nobody bypasses.
Nth(n) == [origin |-> Primary, seq |-> n, row |-> n]

\* Every replica holds a prefix of the primary's binlog and its relay log
\* continues that prefix, all through the pause and the "promotion".
ReplicasArePrefixes ==
    \A r \in {Replica1, Replica2} :
        LET copied == binlog[r] \o relay[r]
        IN  /\ Len(copied) <= Len(binlog[Primary])
            /\ \A i \in DOMAIN copied : copied[i] = binlog[Primary][i]

\* So no acknowledged write is ever lost: both replicas end up with every
\* transaction the primary committed before, during and after the outage.
ReplicasCatchUp ==
    <>[](\A r \in {Replica1, Replica2} : Executed(r) = Executed(Primary))

\* scripts/06-failover.sh:49,97-98 - once the script has printed the final
\* topology, replica1 replicates from nobody and the others from replica1.
FinalTopology ==
    step \in {"status", "done", "failed"} =>
        /\ source[Replica1] = NoServer
        /\ source[Replica2] = Replica1
        /\ source[Primary] = Replica1

----------------------------------------------------------------------------
(* The script with -i *)

\* The old primary originates transactions before the pause and, once more,
\* between docker unpause and read_only = ON: HAProxy still routes :3306 to
\* it and requests frozen in its buffers run.  Never after that.
SplitBrainWindow ==
    [][StdinAttached /\ nextSeq'[Primary] # nextSeq[Primary]
         => step \in {"before", "fence"}]_vars

\* Each follower of the new primary either catches up with it or stops with a
\* replication error; it never stays behind while claiming to run.
FollowersCatchUpOrStop ==
    <>[](\A r \in {Primary, Replica2} :
            threads[r] = "sql_error" \/ Executed(Replica1) \subseteq Executed(r))

=============================================================================
