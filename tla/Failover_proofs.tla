-------------------------- MODULE Failover_proofs --------------------------
(***************************************************************************)
(* Theorems about scripts/06-failover.sh, for any number of workers and    *)
(* inserts, with and without -i:                                           *)
(*                                                                         *)
(*   TypeCorrect        the state keeps its types                          *)
(*   GtidSetsHaveNoGaps NoGtidGaps                                         *)
(*   AckedWritesStayLogged                                                 *)
(*                      AckedIsLogged                                      *)
(*   InsertsRunAtMostOnce                                                  *)
(*                      AtMostOnce                                         *)
(*   OldPrimaryIsFenced SplitBrainWindow                                   *)
(*   AsIsReplicasArePrefixes                                               *)
(*                      ReplicasArePrefixes, for the script without -i     *)
(*                                                                         *)
(* NoGtidGaps speaks of sets and is not inductive: that a fetched          *)
(* transaction leaves no gap depends on the order of the source's binlog,  *)
(* and that an applied one does on the order of the relay log.  GtidInv    *)
(* adds both orders.  AckInv adds to AckedIsLogged the answers that are on *)
(* their way, and BudgetInv counts what may still commit, orphans too,     *)
(* against the inserts started.  ReplicasArePrefixes compares binlogs with *)
(* each other; AsIsInv instead compares each with the numbering 1, 2, 3 ...*)
(***************************************************************************)
EXTENDS Failover, FiniteSetTheorems, TLAPS

----------------------------------------------------------------------------
(* Sequences as the servers use them *)

LEMMA RangeOfAppend ==
    ASSUME NEW S, NEW q \in Seq(S), NEW x \in S
    PROVE  /\ Append(q, x) \in Seq(S)
           /\ Range(Append(q, x)) = Range(q) \cup {x}
<1>1. /\ Append(q, x) \in Seq(S)
      /\ DOMAIN Append(q, x) = 1 .. (Len(q) + 1)
      /\ \A i \in 1 .. Len(q) : Append(q, x)[i] = q[i]
      /\ Append(q, x)[Len(q) + 1] = x
      /\ DOMAIN q = 1 .. Len(q)
      /\ Len(q) \in Nat
  OBVIOUS
<1>2. ASSUME NEW y \in Range(Append(q, x)) PROVE y \in Range(q) \cup {x}
  <2>1. PICK i \in 1 .. (Len(q) + 1) : y = Append(q, x)[i]
    BY <1>1, <1>2 DEF Range
  <2>2. CASE i = Len(q) + 1
    BY <1>1, <2>1, <2>2
  <2>3. CASE i \in 1 .. Len(q)
    BY <1>1, <2>1, <2>3 DEF Range
  <2>4. QED
    BY <1>1, <2>1, <2>2, <2>3
<1>3. ASSUME NEW y \in Range(q) \cup {x} PROVE y \in Range(Append(q, x))
  <2>1. CASE y = x
    <3>1. Len(q) + 1 \in DOMAIN Append(q, x)
      BY <1>1
    <3>2. QED
      BY <1>1, <2>1, <3>1 DEF Range
  <2>2. CASE y \in Range(q)
    <3>1. PICK i \in 1 .. Len(q) : y = q[i]
      BY <1>1, <2>2 DEF Range
    <3>2. i \in DOMAIN Append(q, x)
      BY <1>1, <3>1
    <3>3. QED
      BY <1>1, <3>1, <3>2 DEF Range
  <2>3. QED
    BY <1>3, <2>1, <2>2
<1>4. QED
  BY <1>1, <1>2, <1>3

LEMMA HeadAndTail ==
    ASSUME NEW S, NEW q \in Seq(S), q # << >>
    PROVE  /\ Head(q) \in S
           /\ Tail(q) \in Seq(S)
           /\ Range(q) = {Head(q)} \cup Range(Tail(q))
<1>1. /\ Head(q) \in S /\ Head(q) = q[1]
      /\ Tail(q) \in Seq(S)
      /\ DOMAIN Tail(q) = 1 .. (Len(q) - 1)
      /\ \A i \in 1 .. (Len(q) - 1) : Tail(q)[i] = q[i + 1]
      /\ DOMAIN q = 1 .. Len(q)
      /\ Len(q) \in Nat /\ Len(q) >= 1
  OBVIOUS
<1>2. ASSUME NEW y \in Range(q) PROVE y \in {Head(q)} \cup Range(Tail(q))
  <2>1. PICK i \in 1 .. Len(q) : y = q[i]
    BY <1>1, <1>2 DEF Range
  <2>2. CASE i = 1
    BY <1>1, <2>1, <2>2
  <2>3. CASE i # 1
    <3>1. i - 1 \in DOMAIN Tail(q) /\ Tail(q)[i - 1] = q[i]
      BY <1>1, <2>1, <2>3
    <3>2. QED
      BY <2>1, <3>1 DEF Range
  <2>4. QED
    BY <2>2, <2>3
<1>3. ASSUME NEW y \in {Head(q)} \cup Range(Tail(q)) PROVE y \in Range(q)
  <2>1. CASE y = Head(q)
    <3>1. 1 \in DOMAIN q
      BY <1>1
    <3>2. QED
      BY <1>1, <2>1, <3>1 DEF Range
  <2>2. CASE y \in Range(Tail(q))
    <3>1. PICK i \in 1 .. (Len(q) - 1) : y = Tail(q)[i]
      BY <1>1, <2>2 DEF Range
    <3>2. i + 1 \in DOMAIN q /\ y = q[i + 1]
      BY <1>1, <3>1
    <3>3. QED
      BY <3>2 DEF Range
  <2>3. QED
    BY <1>3, <2>1, <2>2
<1>4. QED
  BY <1>1, <1>2, <1>3

LEMMA RangeOfEmpty == Range(<< >>) = {}
  BY DEF Range

----------------------------------------------------------------------------
(* Types *)

LEMMA ServerFacts ==
    /\ Primary \in Servers /\ Replica1 \in Servers /\ Replica2 \in Servers
    /\ Primary # Replica1 /\ Primary # Replica2 /\ Replica1 # Replica2
    /\ NoServer \notin Servers
  BY FailoverAssumption, ServersAssumption

LEMMA NextTxnType ==
    ASSUME ReplTypeOK, NEW s \in Servers
    PROVE  NextTxn(s) \in Txn
  BY DEF ReplTypeOK, NextTxn, Txn

LEMMA CommitType ==
    ASSUME ReplTypeOK, NEW s \in Servers, CommitInsert(s)
    PROVE  ReplTypeOK'
<1>1. binlog' \in [Servers -> Seq(Txn)]
  BY NextTxnType, RangeOfAppend DEF ReplTypeOK, CommitInsert
<1>2. /\ nextSeq' \in [Servers -> Nat \ {0}]
      /\ nextRow' \in [Servers -> Nat \ {0}]
  BY DEF ReplTypeOK, CommitInsert
<1>3. QED
  BY <1>1, <1>2 DEF ReplTypeOK, CommitInsert

LEMMA FetchType ==
    ASSUME ReplTypeOK, NEW r \in Servers, Fetch(r)
    PROVE  ReplTypeOK'
<1>1. source[r] \in Servers
  BY DEF ReplTypeOK, Fetch
<1>2. PICK i \in DOMAIN binlog[source[r]] :
        relay' = [relay EXCEPT ![r] = Append(@, binlog[source[r]][i])]
  BY DEF Fetch
<1>3. binlog[source[r]][i] \in Txn
  BY <1>1, <1>2 DEF ReplTypeOK
<1>4. relay' \in [Servers -> Seq(Txn)]
  BY <1>2, <1>3, RangeOfAppend DEF ReplTypeOK
<1>5. QED
  BY <1>4 DEF ReplTypeOK, Fetch

LEMMA ApplyType ==
    ASSUME ReplTypeOK, NEW r \in Servers, Apply(r)
    PROVE  ReplTypeOK'
<1>1. relay[r] \in Seq(Txn) /\ relay[r] # << >>
  BY DEF ReplTypeOK, Apply
<1>2. Head(relay[r]) \in Txn /\ Tail(relay[r]) \in Seq(Txn)
  BY <1>1, HeadAndTail
<1>3. binlog' \in [Servers -> Seq(Txn)]
  BY <1>2, RangeOfAppend DEF ReplTypeOK, Apply
<1>4. relay' \in [Servers -> Seq(Txn)]
  BY <1>2 DEF ReplTypeOK, Apply
<1>5. nextRow' \in [Servers -> Nat \ {0}]
  <2>1. Head(relay[r]).row \in Nat \ {0}
    BY <1>2 DEF Txn
  <2>2. QED
    BY <2>1 DEF ReplTypeOK, Apply
<1>6. QED
  BY <1>3, <1>4, <1>5 DEF ReplTypeOK, Apply

LEMMA ApplyFailsType ==
    ASSUME ReplTypeOK, NEW r \in Servers, ApplyFails(r)
    PROVE  ReplTypeOK'
  BY DEF ReplTypeOK, ApplyFails, ThreadStates

LEMMA EmptyIsSeq == << >> \in Seq(Txn)
  OBVIOUS

LEMMA ForgetType ==
    ASSUME ReplTypeOK, NEW s \in Servers, ForgetSource(s)
    PROVE  /\ relay' \in [Servers -> Seq(Txn)]
           /\ source' \in [Servers -> Servers \cup {NoServer}]
           /\ threads' \in [Servers -> ThreadStates]
  BY EmptyIsSeq DEF ReplTypeOK, ForgetSource, ThreadStates

LEMMA FollowType ==
    ASSUME ReplTypeOK, NEW s \in Servers, NEW src \in Servers, FollowSource(s, src)
    PROVE  /\ relay' \in [Servers -> Seq(Txn)]
           /\ source' \in [Servers -> Servers \cup {NoServer}]
           /\ threads' \in [Servers -> ThreadStates]
  BY EmptyIsSeq DEF ReplTypeOK, FollowSource, ThreadStates

\* The script's own steps, with or without -i.
LEMMA ScriptType ==
    ASSUME TypeOK, Script
    PROVE  TypeOK'
<1>0. ReplTypeOK
  BY DEF TypeOK
<1>1. UNCHANGED <<health, clientVars>> /\ step' \in Steps
  BY DEF Script, PausePrimary, Promote, RepointReplica2, UnpausePrimary, FencePrimary,
         DemotePrimary, ReportStatus, Steps
<1>2. ReplTypeOK'
  <2>1. CASE PausePrimary
    BY <1>0, <2>1, ServerFacts DEF PausePrimary, ReplTypeOK
  <2>2. CASE Promote
    <3>1. CASE StdinAttached
      BY <1>0, <2>2, <3>1, ServerFacts, ForgetType DEF Promote, ReplTypeOK
    <3>2. CASE ~StdinAttached
      BY <1>0, <2>2, <3>2 DEF Promote, ReplTypeOK
    <3>3. QED
      BY <3>1, <3>2
  <2>3. CASE RepointReplica2
    <3>1. CASE StdinAttached
      BY <1>0, <2>3, <3>1, ServerFacts, FollowType DEF RepointReplica2, ReplTypeOK
    <3>2. CASE ~StdinAttached
      BY <1>0, <2>3, <3>2 DEF RepointReplica2, ReplTypeOK
    <3>3. QED
      BY <3>1, <3>2
  <2>4. CASE UnpausePrimary
    BY <1>0, <2>4 DEF UnpausePrimary, ReplTypeOK
  <2>5. CASE FencePrimary
    <3>1. (readOnly[Primary] \/ StdinAttached) \in BOOLEAN
      OBVIOUS
    <3>2. readOnly' \in [Servers -> BOOLEAN]
      BY <1>0, <2>5, <3>1, Zenon DEF FencePrimary, ReplTypeOK
    <3>3. QED
      BY <1>0, <2>5, <3>2 DEF FencePrimary, ReplTypeOK
  <2>6. CASE DemotePrimary
    <3>1. CASE StdinAttached
      BY <1>0, <2>6, <3>1, ServerFacts, FollowType DEF DemotePrimary, ReplTypeOK
    <3>2. CASE ~StdinAttached
      BY <1>0, <2>6, <3>2 DEF DemotePrimary, ReplTypeOK
    <3>3. QED
      BY <3>1, <3>2
  <2>7. CASE ReportStatus
    BY <1>0, <2>7 DEF ReportStatus, replVars, ReplTypeOK
  <2>8. QED
    BY <2>1, <2>2, <2>3, <2>4, <2>5, <2>6, <2>7 DEF Script
<1>3. QED
  BY <1>1, <1>2 DEF TypeOK, clientVars

LEMMA UnchangedKeepsReplType ==
    ASSUME ReplTypeOK, UNCHANGED replVars
    PROVE  ReplTypeOK'
  BY DEF replVars, ReplTypeOK

\* A worker counts the inserts it starts.
LEMMA StartingType ==
    ASSUME TypeOK, NEW w \in Workers, left[w] > 0, left' = [left EXCEPT ![w] = @ - 1]
    PROVE  left' \in [Workers -> 0 .. Inserts]
<1>1. left \in [Workers -> 0 .. Inserts] /\ Inserts \in Nat
  BY FailoverAssumption DEF TypeOK
<1>2. left[w] - 1 \in 0 .. Inserts
  BY <1>1
<1>3. QED
  BY <1>1, <1>2

LEMMA WorkerType ==
    ASSUME TypeOK, NEW w \in Workers, Worker(w)
    PROVE  TypeOK'
<1>0. ReplTypeOK
  BY DEF TypeOK
<1>1. CASE Connect(w)
  <2>1. left' \in [Workers -> 0 .. Inserts]
    BY <1>1, StartingType DEF Connect
  <2>2. ReplTypeOK'
    BY <1>0, <1>1, UnchangedKeepsReplType DEF Connect
  <2>3. QED
    BY <1>1, <2>1, <2>2 DEF TypeOK, Connect, StmtStates
<1>2. CASE ConnectFails(w)
  <2>1. left' \in [Workers -> 0 .. Inserts]
    BY <1>2, StartingType DEF ConnectFails
  <2>2. ReplTypeOK'
    BY <1>0, <1>2, UnchangedKeepsReplType DEF ConnectFails
  <2>3. QED
    BY <1>2, <2>1, <2>2 DEF TypeOK, ConnectFails, StmtStates
<1>3. CASE Send(w)
  BY <1>0, <1>3 DEF TypeOK, Send, StmtStates, replVars, ReplTypeOK
<1>4. CASE Commit(w)
  <2>1. ReplTypeOK'
    BY <1>0, <1>4, ServerFacts, CommitType DEF Commit
  <2>2. NextTxn(Primary) \in Txn
    BY <1>0, ServerFacts, NextTxnType
  <2>3. QED
    BY <1>4, <2>1, <2>2 DEF TypeOK, Commit, StmtStates
<1>5. CASE Reject(w)
  BY <1>0, <1>5 DEF TypeOK, Reject, StmtStates, replVars, ReplTypeOK
<1>6. CASE Acknowledge(w)
  <2>1. pending[w] \subseteq Txn
    BY DEF TypeOK
  <2>2. pending' \in [Workers -> SUBSET Txn] /\ acked' \subseteq Txn
    BY <1>6, <2>1 DEF TypeOK, Acknowledge
  <2>3. QED
    BY <1>0, <1>6, <2>2 DEF TypeOK, Acknowledge, StmtStates, replVars, ReplTypeOK
<1>7. CASE Timeout(w)
  <2>1. pending' \in [Workers -> SUBSET Txn]
    BY <1>7 DEF TypeOK, Timeout
  <2>2. orphans' \in Nat
    BY <1>7 DEF TypeOK, Timeout
  <2>3. QED
    BY <1>0, <1>7, <2>1, <2>2 DEF TypeOK, Timeout, StmtStates, replVars, ReplTypeOK
<1>8. QED
  BY <1>1, <1>2, <1>3, <1>4, <1>5, <1>6, <1>7 DEF Worker

(* The state keeps its types; HAProxy's counter stays within rise + fall.  *)
THEOREM TypeCorrect == Spec => []TypeOK
<1>1. Init => TypeOK
  <2> SUFFICES ASSUME Init PROVE TypeOK
    OBVIOUS
  <2>1. ReplTypeOK
    BY ServerFacts, EmptyIsSeq DEF Init, ReplInit, ReplTypeOK, ThreadStates
  <2>2. health \in Health
    BY ThresholdAssumption DEF Init, Health, InitialHealth
  <2>3. QED
    BY <2>1, <2>2, FailoverAssumption DEF Init, TypeOK, Steps, StmtStates
<1>2. TypeOK /\ [Next]_vars => TypeOK'
  <2> SUFFICES ASSUME TypeOK, [Next]_vars PROVE TypeOK'
    OBVIOUS
  <2>0. ReplTypeOK
    BY DEF TypeOK
  <2>1. CASE HealthCheck
    <3>1. health' \in Health
      BY <2>1, ThresholdAssumption
         DEF HealthCheck, TypeOK, Health, CheckFailed, CheckPassed, FullHealth
    <3>2. QED
      BY <2>0, <2>1, <3>1 DEF HealthCheck, TypeOK, replVars, clientVars, ReplTypeOK
  <2>2. ASSUME NEW w \in Workers, Worker(w) PROVE TypeOK'
    BY <2>2, WorkerType
  <2>3. CASE OrphanCommit
    <3>1. ReplTypeOK'
      BY <2>0, <2>3, ServerFacts, CommitType DEF OrphanCommit
    <3>2. QED
      BY <2>3, <3>1 DEF OrphanCommit, TypeOK
  <2>4. CASE OrphanReject
    BY <2>0, <2>4 DEF OrphanReject, TypeOK, replVars, ReplTypeOK
  <2>5. CASE DirectWrite
    <3>1. ReplTypeOK'
      BY <2>0, <2>5, ServerFacts, CommitType DEF DirectWrite
    <3>2. NextTxn(Replica1) \in Txn
      BY <2>0, ServerFacts, NextTxnType
    <3>3. QED
      BY <2>5, <3>1, <3>2, FailoverAssumption DEF DirectWrite, TypeOK
  <2>6. CASE Script
    BY <2>6, ScriptType
  <2>7. CASE Replication
    <3>1. PICK r \in Servers : Replicate(r) /\ UNCHANGED <<step, health, clientVars>>
      BY <2>7 DEF Replication
    <3>2. ReplTypeOK'
      BY <2>0, <3>1, FetchType, ApplyType, ApplyFailsType DEF Replicate
    <3>3. QED
      BY <3>1, <3>2 DEF TypeOK, clientVars
  <2>8. CASE UNCHANGED vars
    BY <2>0, <2>8 DEF vars, replVars, TypeOK, ReplTypeOK
  <2>9. QED
    BY <2>1, <2>2, <2>3, <2>4, <2>5, <2>6, <2>7, <2>8 DEF Next
<1>3. QED
  BY <1>1, <1>2, PTL DEF Spec

----------------------------------------------------------------------------
(* No holes in gtid_executed *)

Precedes(u, t) == u.origin = t.origin /\ u.seq = t.seq - 1

\* Each element of q is the first of its origin or comes after its predecessor,
\* which is in q or in base.
Ordered(q, base) ==
    \A i \in DOMAIN q :
        \/ q[i].seq = 1
        \/ \E u \in base : Precedes(u, q[i])
        \/ \E j \in DOMAIN q : j < i /\ Precedes(q[j], q[i])

\* The server that numbers a transaction has committed the previous number.
OwnLogged(s) == nextSeq[s] = 1
                \/ \E u \in Executed(s) : u.origin = s /\ u.seq = nextSeq[s] - 1

GtidInv ==
    \A s \in Servers :
        /\ Ordered(binlog[s], {})
        /\ Ordered(relay[s], Executed(s))
        /\ OwnLogged(s)

LEMMA OrderedEmpty ==
    ASSUME NEW B
    PROVE  Ordered(<< >>, B)
  BY DEF Ordered

LEMMA OrderedMonotone ==
    ASSUME NEW q, NEW B, NEW C, B \subseteq C, Ordered(q, B)
    PROVE  Ordered(q, C)
  BY DEF Ordered

LEMMA OrderedAppend ==
    ASSUME NEW q \in Seq(Txn), NEW x \in Txn, NEW B, Ordered(q, B),
           x.seq = 1 \/ \E u \in B \cup Range(q) : Precedes(u, x)
    PROVE  Ordered(Append(q, x), B)
<1>1. /\ DOMAIN Append(q, x) = 1 .. (Len(q) + 1)
      /\ \A i \in 1 .. Len(q) : Append(q, x)[i] = q[i]
      /\ Append(q, x)[Len(q) + 1] = x
      /\ DOMAIN q = 1 .. Len(q)
      /\ Len(q) \in Nat
  OBVIOUS
<1> DEFINE p == Append(q, x)
<1>2. SUFFICES ASSUME NEW i \in DOMAIN p, p[i].seq # 1, ~ \E u \in B : Precedes(u, p[i])
               PROVE  \E j \in DOMAIN p : j < i /\ Precedes(p[j], p[i])
  BY DEF Ordered
<1>3. CASE i \in 1 .. Len(q)
  <2>1. p[i] = q[i] /\ i \in DOMAIN q
    BY <1>1, <1>3
  <2>2. PICK j \in DOMAIN q : j < i /\ Precedes(q[j], q[i])
    BY <1>2, <2>1 DEF Ordered
  <2>3. j \in DOMAIN p /\ p[j] = q[j]
    BY <1>1, <2>2
  <2>4. QED
    BY <2>1, <2>2, <2>3
<1>4. CASE i = Len(q) + 1
  <2>1. p[i] = x
    BY <1>1, <1>4
  <2>2. PICK u \in Range(q) : Precedes(u, x)
    BY <1>2, <2>1
  <2>3. PICK j \in DOMAIN q : u = q[j]
    BY <2>2 DEF Range
  <2>4. j \in DOMAIN p /\ j < i /\ p[j] = u
    BY <1>1, <1>4, <2>3
  <2>5. QED
    BY <2>1, <2>2, <2>4
<1>5. QED
  BY <1>1, <1>3, <1>4

LEMMA OrderedTail ==
    ASSUME NEW q \in Seq(Txn), q # << >>, NEW B, Ordered(q, B)
    PROVE  /\ Head(q).seq = 1 \/ \E u \in B : Precedes(u, Head(q))
           /\ Ordered(Tail(q), B \cup {Head(q)})
<1>1. /\ Head(q) = q[1]
      /\ DOMAIN Tail(q) = 1 .. (Len(q) - 1)
      /\ \A i \in 1 .. (Len(q) - 1) : Tail(q)[i] = q[i + 1]
      /\ DOMAIN q = 1 .. Len(q)
      /\ Len(q) \in Nat /\ Len(q) >= 1
  OBVIOUS
<1>2. Head(q).seq = 1 \/ \E u \in B : Precedes(u, Head(q))
  <2>1. 1 \in DOMAIN q /\ ~ \E j \in DOMAIN q : j < 1
    BY <1>1
  <2>2. QED
    BY <1>1, <2>1 DEF Ordered
<1> DEFINE p == Tail(q)
<1>3. ASSUME NEW i \in DOMAIN p, p[i].seq # 1,
             ~ \E u \in B \cup {Head(q)} : Precedes(u, p[i])
      PROVE  \E j \in DOMAIN p : j < i /\ Precedes(p[j], p[i])
  <2>1. i + 1 \in DOMAIN q /\ p[i] = q[i + 1]
    BY <1>1, <1>3
  <2>2. PICK j \in DOMAIN q : j < i + 1 /\ Precedes(q[j], q[i + 1])
    BY <1>3, <2>1 DEF Ordered
  <2>3. j # 1
    BY <1>1, <1>3, <2>1, <2>2
  <2>4. j - 1 \in DOMAIN p /\ p[j - 1] = q[j] /\ j - 1 < i
    BY <1>1, <1>3, <2>2, <2>3
  <2>5. QED
    BY <2>1, <2>2, <2>4
<1>4. Ordered(p, B \cup {Head(q)})
  BY <1>3 DEF Ordered
<1>5. QED
  BY <1>2, <1>4

LEMMA GtidInvImpliesNoGaps == ReplTypeOK /\ GtidInv => NoGtidGaps
<1> SUFFICES ASSUME ReplTypeOK, GtidInv, NEW s \in Servers
             PROVE  \A S \in {Executed(s), Known(s)} : \A t \in S :
                      t.seq = 1 \/ \E u \in S : u.origin = t.origin /\ u.seq = t.seq - 1
  BY DEF NoGtidGaps
<1>1. ASSUME NEW t \in Executed(s)
      PROVE  t.seq = 1 \/ \E u \in Executed(s) : Precedes(u, t)
  <2>1. PICK i \in DOMAIN binlog[s] : t = binlog[s][i]
    BY <1>1 DEF Executed, Range
  <2>2. t.seq = 1 \/ \E j \in DOMAIN binlog[s] : Precedes(binlog[s][j], t)
    BY <2>1 DEF GtidInv, Ordered
  <2>3. QED
    BY <2>2 DEF Executed, Range
<1>2. ASSUME NEW t \in Range(relay[s])
      PROVE  t.seq = 1 \/ \E u \in Known(s) : Precedes(u, t)
  <2>1. PICK i \in DOMAIN relay[s] : t = relay[s][i]
    BY <1>2 DEF Range
  <2>2. \/ t.seq = 1
        \/ \E u \in Executed(s) : Precedes(u, t)
        \/ \E j \in DOMAIN relay[s] : Precedes(relay[s][j], t)
    BY <2>1 DEF GtidInv, Ordered
  <2>3. QED
    BY <2>2 DEF Known, Range
<1>3. QED
  BY <1>1, <1>2 DEF Known, Precedes

\* A step that leaves the binlogs alone and empties relay logs or leaves them.
LEMMA PurgeKeepsGtidInv ==
    ASSUME ReplTypeOK, ReplTypeOK', GtidInv, UNCHANGED <<binlog, nextSeq>>,
           \A s \in Servers : relay'[s] \in {relay[s], << >>}
    PROVE  GtidInv'
<1> SUFFICES ASSUME NEW s \in Servers
             PROVE  /\ Ordered(binlog[s], {})'
                    /\ Ordered(relay[s], Executed(s))'
                    /\ OwnLogged(s)'
  BY DEF GtidInv
<1>1. Ordered(relay'[s], Executed(s))
  BY OrderedEmpty DEF GtidInv
<1>2. QED
  BY <1>1 DEF GtidInv, Executed, OwnLogged

LEMMA CommitKeepsGtidInv ==
    ASSUME ReplTypeOK, GtidInv, NEW s \in Servers, CommitInsert(s)
    PROVE  GtidInv'
<1> DEFINE t == NextTxn(s)
<1>1. t \in Txn /\ t.origin = s /\ t.seq = nextSeq[s]
  BY NextTxnType DEF NextTxn
<1>2. /\ binlog[s] \in Seq(Txn) /\ nextSeq[s] \in Nat \ {0}
      /\ binlog'[s] = Append(binlog[s], t)
      /\ nextSeq'[s] = nextSeq[s] + 1
      /\ relay' = relay
      /\ \A o \in Servers \ {s} : binlog'[o] = binlog[o] /\ nextSeq'[o] = nextSeq[o]
  BY DEF ReplTypeOK, CommitInsert
<1>3. Ordered(binlog[s], {}) /\ OwnLogged(s)
  BY DEF GtidInv
<1>4. t.seq = 1 \/ \E u \in {} \cup Range(binlog[s]) : Precedes(u, t)
  BY <1>1, <1>3 DEF OwnLogged, Executed, Precedes
<1>5. Ordered(binlog'[s], {})
  BY <1>1, <1>2, <1>3, <1>4, OrderedAppend
<1>6. Executed(s)' = Executed(s) \cup {t}
  BY <1>1, <1>2, RangeOfAppend DEF Executed
<1>7. Ordered(relay'[s], Executed(s)')
  <2>1. Ordered(relay[s], Executed(s))
    BY DEF GtidInv
  <2>2. QED
    BY <1>2, <1>6, <2>1, OrderedMonotone
<1>8. OwnLogged(s)'
  <2>1. t \in Executed(s)' /\ t.seq = nextSeq'[s] - 1
    BY <1>1, <1>2, <1>6
  <2>2. QED
    BY <1>1, <2>1 DEF OwnLogged
<1>9. ASSUME NEW o \in Servers, o # s
      PROVE  Ordered(binlog[o], {})' /\ Ordered(relay[o], Executed(o))' /\ OwnLogged(o)'
  BY <1>2, <1>9 DEF GtidInv, Executed, OwnLogged
<1>10. QED
  BY <1>5, <1>7, <1>8, <1>9 DEF GtidInv

LEMMA FetchKeepsGtidInv ==
    ASSUME ReplTypeOK, GtidInv, NEW r \in Servers, Fetch(r)
    PROVE  GtidInv'
<1>1. source[r] \in Servers
  BY DEF ReplTypeOK, Fetch
<1> DEFINE log == binlog[source[r]]
<1>2. PICK i \in DOMAIN log :
        /\ \A j \in 1 .. (i - 1) : log[j] \in Known(r)
        /\ relay' = [relay EXCEPT ![r] = Append(@, log[i])]
  BY DEF Fetch
<1>3. /\ log \in Seq(Txn) /\ log[i] \in Txn /\ relay[r] \in Seq(Txn)
      /\ DOMAIN log = 1 .. Len(log) /\ Len(log) \in Nat
  BY <1>1, <1>2 DEF ReplTypeOK
<1>4. log[i].seq = 1 \/ \E u \in Known(r) : Precedes(u, log[i])
  <2>1. log[i].seq = 1 \/ \E j \in DOMAIN log : j < i /\ Precedes(log[j], log[i])
    BY <1>1, <1>2 DEF GtidInv, Ordered
  <2>2. ASSUME NEW j \in DOMAIN log, j < i PROVE log[j] \in Known(r)
    BY <1>2, <1>3, <2>2
  <2>3. QED
    BY <2>1, <2>2
<1>5. Ordered(relay'[r], Executed(r))
  <2>1. relay'[r] = Append(relay[r], log[i])
    BY <1>2 DEF ReplTypeOK
  <2>2. Ordered(relay[r], Executed(r))
    BY DEF GtidInv
  <2>3. log[i].seq = 1 \/ \E u \in Executed(r) \cup Range(relay[r]) : Precedes(u, log[i])
    BY <1>4 DEF Known
  <2>4. QED
    BY <1>3, <2>1, <2>2, <2>3, OrderedAppend
<1>6. /\ binlog' = binlog /\ nextSeq' = nextSeq
      /\ \A o \in Servers \ {r} : relay'[o] = relay[o]
  BY <1>2 DEF Fetch, ReplTypeOK
<1>7. QED
  BY <1>5, <1>6 DEF GtidInv, Executed, OwnLogged

LEMMA ApplyKeepsGtidInv ==
    ASSUME ReplTypeOK, GtidInv, NEW r \in Servers, Apply(r)
    PROVE  GtidInv'
<1> DEFINE t == Head(relay[r])
<1>1. relay[r] \in Seq(Txn) /\ relay[r] # << >> /\ binlog[r] \in Seq(Txn)
  BY DEF ReplTypeOK, Apply
<1>2. t \in Txn
  BY <1>1, HeadAndTail
<1>3. /\ binlog'[r] = Append(binlog[r], t)
      /\ relay'[r] = Tail(relay[r])
      /\ nextSeq' = nextSeq
      /\ \A o \in Servers \ {r} : binlog'[o] = binlog[o] /\ relay'[o] = relay[o]
  BY DEF ReplTypeOK, Apply
<1>4. /\ t.seq = 1 \/ \E u \in Executed(r) : Precedes(u, t)
      /\ Ordered(Tail(relay[r]), Executed(r) \cup {t})
  BY <1>1, OrderedTail DEF GtidInv
<1>5. Executed(r)' = Executed(r) \cup {t}
  BY <1>1, <1>2, <1>3, RangeOfAppend DEF Executed
<1>6. Ordered(binlog'[r], {})
  <2>1. t.seq = 1 \/ \E u \in {} \cup Range(binlog[r]) : Precedes(u, t)
    BY <1>4 DEF Executed
  <2>2. Ordered(binlog[r], {})
    BY DEF GtidInv
  <2>3. QED
    BY <1>1, <1>2, <1>3, <2>1, <2>2, OrderedAppend
<1>7. Ordered(relay'[r], Executed(r)')
  BY <1>3, <1>4, <1>5
<1>8. OwnLogged(r)'
  BY <1>3, <1>5 DEF GtidInv, OwnLogged
<1>9. ASSUME NEW o \in Servers, o # r
      PROVE  Ordered(binlog[o], {})' /\ Ordered(relay[o], Executed(o))' /\ OwnLogged(o)'
  BY <1>3, <1>9 DEF GtidInv, Executed, OwnLogged
<1>10. QED
  BY <1>6, <1>7, <1>8, <1>9 DEF GtidInv

\* Worker steps other than Commit, and the steps that only touch HAProxy or the
\* orphans, leave replication alone.
LEMMA NextKeepsGtidInv == TypeOK /\ TypeOK' /\ GtidInv /\ [Next]_vars => GtidInv'
<1> SUFFICES ASSUME TypeOK, TypeOK', GtidInv, [Next]_vars PROVE GtidInv'
  OBVIOUS
<1>0. ReplTypeOK /\ ReplTypeOK'
  BY DEF TypeOK
<1>1. ASSUME UNCHANGED <<binlog, relay, nextSeq>> PROVE GtidInv'
  BY <1>0, <1>1, PurgeKeepsGtidInv
<1>2. CASE HealthCheck \/ OrphanReject \/ UNCHANGED vars
  BY <1>1, <1>2 DEF HealthCheck, OrphanReject, vars, replVars
<1>3. ASSUME NEW w \in Workers, Worker(w) PROVE GtidInv'
  <2>1. CASE Commit(w)
    BY <1>0, <2>1, ServerFacts, CommitKeepsGtidInv DEF Commit
  <2>2. CASE ~Commit(w)
    BY <1>1, <1>3, <2>2
       DEF Worker, Connect, ConnectFails, Send, Reject, Acknowledge, Timeout, replVars
  <2>3. QED
    BY <2>1, <2>2
<1>4. CASE OrphanCommit
  BY <1>0, <1>4, ServerFacts, CommitKeepsGtidInv DEF OrphanCommit
<1>5. CASE DirectWrite
  BY <1>0, <1>5, ServerFacts, CommitKeepsGtidInv DEF DirectWrite
<1>6. CASE Script
  <2>1. UNCHANGED <<binlog, nextSeq>>
    BY <1>6 DEF Script, PausePrimary, Promote, RepointReplica2, UnpausePrimary,
                FencePrimary, DemotePrimary, ReportStatus, replVars
  <2>2. relay' = relay \/ \E r \in Servers : relay' = [relay EXCEPT ![r] = << >>]
    <3>1. CASE PausePrimary \/ UnpausePrimary \/ FencePrimary \/ ReportStatus
      BY <3>1 DEF PausePrimary, UnpausePrimary, FencePrimary, ReportStatus, replVars
    <3>2. CASE Promote
      BY <3>2, ServerFacts DEF Promote, ForgetSource
    <3>3. CASE RepointReplica2
      BY <3>3, ServerFacts DEF RepointReplica2, FollowSource
    <3>4. CASE DemotePrimary
      BY <3>4, ServerFacts DEF DemotePrimary, FollowSource
    <3>5. QED
      BY <1>6, <3>1, <3>2, <3>3, <3>4 DEF Script
  <2>3. \A s \in Servers : relay'[s] \in {relay[s], << >>}
    BY <1>0, <2>2 DEF ReplTypeOK
  <2>4. QED
    BY <1>0, <2>1, <2>3, PurgeKeepsGtidInv
<1>7. CASE Replication
  <2>1. PICK r \in Servers : Replicate(r)
    BY <1>7 DEF Replication
  <2>2. CASE Fetch(r)
    BY <1>0, <2>2, FetchKeepsGtidInv
  <2>3. CASE Apply(r)
    BY <1>0, <2>3, ApplyKeepsGtidInv
  <2>4. CASE ApplyFails(r)
    BY <1>1, <2>4 DEF ApplyFails
  <2>5. QED
    BY <2>1, <2>2, <2>3, <2>4 DEF Replicate
<1>8. QED
  BY <1>2, <1>3, <1>4, <1>5, <1>6, <1>7 DEF Next

(* Whatever the pause, the promotion, the repointing and the purged relay  *)
(* logs do, no server ever has a hole in another server's history.         *)
THEOREM GtidSetsHaveNoGaps == Spec => []NoGtidGaps
<1>1. Init => GtidInv
  <2> SUFFICES ASSUME Init, NEW s \in Servers
               PROVE  /\ Ordered(binlog[s], {})
                      /\ Ordered(relay[s], Executed(s))
                      /\ OwnLogged(s)
    BY DEF GtidInv
  <2>1. binlog[s] = << >> /\ relay[s] = << >> /\ nextSeq[s] = 1
    BY DEF Init, ReplInit
  <2>2. QED
    BY <2>1, OrderedEmpty DEF OwnLogged
<1>2. TypeOK /\ GtidInv => NoGtidGaps
  BY GtidInvImpliesNoGaps DEF TypeOK
<1>3. QED
  BY <1>1, <1>2, NextKeepsGtidInv, TypeCorrect, PTL DEF Spec

----------------------------------------------------------------------------
(* Acknowledged writes *)

\* What a worker waits to hear of is logged too, before it is acknowledged.
AckInv ==
    /\ AckedIsLogged
    /\ \A w \in Workers : \A t \in pending[w] : t \in Executed(t.origin)

LEMMA ExtendedLog ==
    ASSUME NEW q \in Seq(Txn), NEW x \in Txn, NEW p \in {q, Append(q, x)}
    PROVE  Range(q) \subseteq Range(p)
<1>1. Range(Append(q, x)) = Range(q) \cup {x}
  BY RangeOfAppend
<1>2. QED
  BY <1>1

\* A commit and an applied event append to a binlog; nothing else touches one.
LEMMA BinlogsGrow ==
    ASSUME TypeOK, [Next]_vars, NEW s \in Servers
    PROVE  Executed(s) \subseteq Executed(s)'
<1>0. ReplTypeOK /\ binlog[s] \in Seq(Txn)
  BY DEF TypeOK, ReplTypeOK
<1>1. ASSUME UNCHANGED binlog PROVE Executed(s) \subseteq Executed(s)'
  BY <1>1 DEF Executed
<1>2. ASSUME NEW o \in Servers, CommitInsert(o) PROVE Executed(s) \subseteq Executed(s)'
  <2>1. NextTxn(o) \in Txn
    BY <1>0, NextTxnType
  <2>2. binlog'[s] \in {binlog[s], Append(binlog[s], NextTxn(o))}
    BY <1>0, <1>2 DEF CommitInsert, ReplTypeOK
  <2>3. QED
    BY <1>0, <2>1, <2>2, ExtendedLog DEF Executed
<1>3. ASSUME NEW r \in Servers, Apply(r) PROVE Executed(s) \subseteq Executed(s)'
  <2>1. Head(relay[r]) \in Txn
    BY <1>0, <1>3, HeadAndTail DEF Apply, ReplTypeOK
  <2>2. binlog'[s] \in {binlog[s], Append(binlog[s], Head(relay[r]))}
    BY <1>0, <1>3 DEF Apply, ReplTypeOK
  <2>3. QED
    BY <1>0, <2>1, <2>2, ExtendedLog DEF Executed
<1>4. CASE HealthCheck \/ OrphanReject \/ UNCHANGED vars
  BY <1>1, <1>4 DEF HealthCheck, OrphanReject, vars, replVars
<1>5. ASSUME NEW w \in Workers, Worker(w) PROVE Executed(s) \subseteq Executed(s)'
  <2>1. CASE Commit(w)
    BY <1>2, <2>1, ServerFacts DEF Commit
  <2>2. CASE ~Commit(w)
    BY <1>1, <1>5, <2>2
       DEF Worker, Connect, ConnectFails, Send, Reject, Acknowledge, Timeout, replVars
  <2>3. QED
    BY <2>1, <2>2
<1>6. CASE OrphanCommit \/ DirectWrite
  BY <1>2, <1>6, ServerFacts DEF OrphanCommit, DirectWrite
<1>7. CASE Script
  BY <1>1, <1>7 DEF Script, PausePrimary, Promote, RepointReplica2, UnpausePrimary,
                    FencePrimary, DemotePrimary, ReportStatus, replVars
<1>8. CASE Replication
  <2>1. PICK r \in Servers : Replicate(r)
    BY <1>8 DEF Replication
  <2>2. QED
    BY <1>1, <1>3, <2>1 DEF Replicate, Fetch, ApplyFails
<1>9. QED
  BY <1>4, <1>5, <1>6, <1>7, <1>8 DEF Next

LEMMA CommitIsLogged ==
    ASSUME ReplTypeOK, NEW s \in Servers, CommitInsert(s)
    PROVE  NextTxn(s) \in Range(binlog'[NextTxn(s).origin])
<1>1. NextTxn(s) \in Txn /\ binlog[s] \in Seq(Txn)
  BY NextTxnType DEF ReplTypeOK
<1>2. binlog'[s] = Append(binlog[s], NextTxn(s))
  BY DEF CommitInsert, ReplTypeOK
<1>3. NextTxn(s) \in Range(binlog'[s])
  BY <1>1, <1>2, RangeOfAppend
<1>4. QED
  BY <1>3 DEF NextTxn

LEMMA NextKeepsAckInv == TypeOK /\ TypeOK' /\ AckInv /\ [Next]_vars => AckInv'
<1> SUFFICES ASSUME TypeOK, TypeOK', AckInv, [Next]_vars PROVE AckInv'
  OBVIOUS
<1>0. ReplTypeOK /\ acked' \subseteq Txn /\ \A w \in Workers : pending'[w] \subseteq Txn
  BY DEF TypeOK
<1> DEFINE LoggedAfter(t) == t \in Range(binlog'[t.origin])
           Waited == UNION {pending[w] : w \in Workers}
           NewlyWaited == UNION {pending'[w] : w \in Workers}
\* Only the new elements of acked and pending need an argument.
<1>1. ASSUME NEW t \in Txn, t \in Executed(t.origin) PROVE LoggedAfter(t)
  <2>1. t.origin \in Servers
    BY DEF Txn
  <2>2. QED
    BY <1>1, <2>1, BinlogsGrow DEF Executed
<1>2. \A t \in acked \cup Waited : t \in Executed(t.origin)
  BY DEF AckInv, AckedIsLogged
<1>3. SUFFICES \A t \in acked' \cup NewlyWaited : t \in acked \cup Waited \/ LoggedAfter(t)
  <2>1. \A t \in acked' \cup NewlyWaited : t \in Txn
    BY <1>0
  <2>2. \A t \in acked' \cup NewlyWaited : LoggedAfter(t)
    BY <1>1, <1>2, <1>3, <2>1
  <2>3. QED
    BY <2>2 DEF AckInv, AckedIsLogged, Executed
<1>4. CASE UNCHANGED <<acked, pending>>
  BY <1>4
<1>5. ASSUME NEW w \in Workers, Worker(w)
      PROVE  \A t \in acked' \cup NewlyWaited : t \in acked \cup Waited \/ LoggedAfter(t)
  <2>1. CASE Connect(w) \/ ConnectFails(w) \/ Send(w) \/ Reject(w)
    BY <1>4, <2>1 DEF Connect, ConnectFails, Send, Reject
  <2>2. CASE Commit(w)
    <3>1. LoggedAfter(NextTxn(Primary))
      BY <1>0, <2>2, ServerFacts, CommitIsLogged DEF Commit
    <3>2. \A o \in Workers : pending'[o] \in {pending[o], {NextTxn(Primary)}}
      BY <2>2 DEF Commit, TypeOK
    <3>3. QED
      BY <2>2, <3>1, <3>2 DEF Commit
  <2>3. CASE Acknowledge(w) \/ Timeout(w)
    <3>1. \A o \in Workers : pending'[o] \in {pending[o], {}}
      BY <2>3 DEF Acknowledge, Timeout, TypeOK
    <3>2. acked' \subseteq acked \cup pending[w]
      BY <2>3 DEF Acknowledge, Timeout
    <3>3. QED
      BY <3>1, <3>2
  <2>4. QED
    BY <1>5, <2>1, <2>2, <2>3 DEF Worker
<1>6. CASE DirectWrite
  <2>1. LoggedAfter(NextTxn(Replica1))
    BY <1>0, <1>6, ServerFacts, CommitIsLogged DEF DirectWrite
  <2>2. QED
    BY <1>6, <2>1 DEF DirectWrite
<1>7. CASE HealthCheck \/ OrphanCommit \/ OrphanReject \/ Script \/ Replication \/ UNCHANGED vars
  BY <1>4, <1>7 DEF HealthCheck, OrphanCommit, OrphanReject, Script, PausePrimary, Promote,
       RepointReplica2, UnpausePrimary, FencePrimary, DemotePrimary, ReportStatus,
       Replication, vars, clientVars
<1>8. QED
  BY <1>5, <1>6, <1>7 DEF Next

(* A write whose client was told that it committed stays in the binlog of  *)
(* the server that said so, whatever is frozen, promoted or demoted since. *)
THEOREM AckedWritesStayLogged == Spec => []AckedIsLogged
<1>1. Init => AckInv
  BY DEF Init, AckInv, AckedIsLogged
<1>2. AckInv => AckedIsLogged
  BY DEF AckInv
<1>3. QED
  BY <1>1, <1>2, NextKeepsAckInv, TypeCorrect, PTL DEF Spec

----------------------------------------------------------------------------
(* No insert runs twice *)

\* The inserts that the server may still execute for a worker that waits.
InFlight == {w \in Workers : stmt[w] \in {"connecting", "sent"}}

BudgetInv ==
    nextSeq[Primary] - 1 + orphans + Cardinality(InFlight) <= Cardinality(Started)

LEMMA FiniteDrill == IsFiniteSet(Workers) /\ IsFiniteSet(Workers \X (1 .. Inserts))
<1>1. IsFiniteSet(Workers) /\ IsFiniteSet(1 .. Inserts)
  BY FailoverAssumption, FS_Interval
<1>2. QED
  BY <1>1, FS_Product

LEMMA SubsetIsFinite ==
    ASSUME NEW S, IsFiniteSet(S), NEW T \in SUBSET S
    PROVE  IsFiniteSet(T) /\ Cardinality(T) \in Nat
<1>1. IsFiniteSet(T)
  BY FS_Subset
<1>2. QED
  BY <1>1, FS_CardinalityType

LEMMA SetsAreFinite ==
    /\ IsFiniteSet(Started) /\ Cardinality(Started) \in Nat
    /\ IsFiniteSet(InFlight) /\ Cardinality(InFlight) \in Nat
<1>1. /\ Started \in SUBSET (Workers \X (1 .. Inserts))
      /\ InFlight \in SUBSET Workers
  BY DEF Started, InFlight
<1>2. QED
  BY <1>1, FiniteDrill, SubsetIsFinite

\* Connect and ConnectFails alike start one insert.
LEMMA StartingIsCounted ==
    ASSUME TypeOK, NEW w \in Workers, left[w] > 0, left' = [left EXCEPT ![w] = @ - 1]
    PROVE  Cardinality(Started') = Cardinality(Started) + 1
<1> DEFINE new == <<w, left[w]>>
<1>1. left \in [Workers -> 0 .. Inserts] /\ Inserts \in Nat
  BY FailoverAssumption DEF TypeOK
<1>2. new \in Workers \X (1 .. Inserts) /\ new[1] = w /\ new[2] = left[w]
  BY <1>1
<1>3. new \notin Started
  BY <1>1, <1>2 DEF Started
<1>4. \A i \in Workers \X (1 .. Inserts) : i[2] > left'[i[1]] <=> i[2] > left[i[1]] \/ i = new
  <2> SUFFICES ASSUME NEW v \in Workers, NEW n \in 1 .. Inserts
               PROVE  n > left'[v] <=> n > left[v] \/ <<v, n>> = new
    OBVIOUS
  <2>1. CASE v = w
    <3>1. left'[v] = left[v] - 1 /\ left[v] \in Nat
      BY <1>1, <2>1
    <3>2. <<v, n>> = new <=> n = left[v]
      BY <2>1
    <3>3. QED
      BY <3>1, <3>2
  <2>2. CASE v # w
    BY <1>1, <2>2
  <2>3. QED
    BY <2>1, <2>2
<1>5. Started' = Started \cup {new}
  BY <1>2, <1>4, Zenon DEF Started
<1>6. QED
  BY <1>3, <1>5, SetsAreFinite, FS_AddElement

LEMMA NextKeepsBudget == TypeOK /\ TypeOK' /\ BudgetInv /\ [Next]_vars => BudgetInv'
<1> SUFFICES ASSUME TypeOK, TypeOK', BudgetInv, [Next]_vars PROVE BudgetInv'
  OBVIOUS
<1>0. /\ nextSeq[Primary] \in Nat /\ nextSeq'[Primary] \in Nat
      /\ orphans \in Nat /\ orphans' \in Nat
      /\ stmt \in [Workers -> StmtStates]
  BY ServerFacts DEF TypeOK, ReplTypeOK
<1> DEFINE flying == Cardinality(InFlight)
           seq == nextSeq[Primary]
<1>1. /\ flying \in Nat /\ flying' \in Nat
      /\ Cardinality(Started) \in Nat /\ Cardinality(Started)' \in Nat
  <2>1. flying \in Nat /\ Cardinality(Started) \in Nat
    BY SetsAreFinite
  <2>2. /\ Started' \in SUBSET (Workers \X (1 .. Inserts))
        /\ InFlight' \in SUBSET Workers
    BY DEF Started, InFlight
  <2>3. flying' \in Nat /\ Cardinality(Started)' \in Nat
    BY <2>2, FiniteDrill, SubsetIsFinite
  <2>4. QED
    BY <2>1, <2>3
<1>2. CASE UNCHANGED <<nextSeq, orphans, stmt, left>>
  BY <1>2 DEF BudgetInv, InFlight, Started
\* The worker's insert leaves the set of those that wait for the server.
<1>3. ASSUME NEW w \in Workers, NEW to \in StmtStates \ {"connecting", "sent"},
             stmt' = [stmt EXCEPT ![w] = to]
      PROVE  flying' = IF w \in InFlight THEN flying - 1 ELSE flying
  <2>1. InFlight' = InFlight \ {w}
    BY <1>0, <1>3 DEF InFlight
  <2>2. QED
    BY <2>1, SetsAreFinite, FS_RemoveElement
<1>4. ASSUME NEW s \in Servers, CommitInsert(s)
      PROVE  seq' = IF s = Primary THEN seq + 1 ELSE seq
  BY <1>4, ServerFacts DEF CommitInsert, TypeOK, ReplTypeOK
<1>5. ASSUME NEW w \in Workers, Worker(w) PROVE BudgetInv'
  <2>1. CASE Connect(w)
    <3>1. InFlight' = InFlight \cup {w} /\ w \notin InFlight
      BY <1>0, <2>1 DEF Connect, InFlight
    <3>2. flying' = flying + 1
      BY <3>1, SetsAreFinite, FS_AddElement
    <3>3. Cardinality(Started') = Cardinality(Started) + 1
      BY <2>1, StartingIsCounted DEF Connect
    <3>4. QED
      BY <1>0, <1>1, <2>1, <3>2, <3>3 DEF BudgetInv, Connect, replVars
  <2>2. CASE ConnectFails(w)
    <3>1. flying' = flying
      BY <1>3, <2>2 DEF ConnectFails, InFlight, StmtStates
    <3>2. Cardinality(Started') = Cardinality(Started) + 1
      BY <2>2, StartingIsCounted DEF ConnectFails
    <3>3. QED
      BY <1>0, <1>1, <2>2, <3>1, <3>2 DEF BudgetInv, ConnectFails, replVars
  <2>3. CASE Send(w)
    <3>1. InFlight' = InFlight
      BY <1>0, <2>3 DEF Send, InFlight
    <3>2. QED
      BY <2>3, <3>1 DEF BudgetInv, Send, Started, replVars
  <2>4. CASE Commit(w)
    <3>1. flying' = flying - 1 /\ seq' = seq + 1
      BY <1>3, <1>4, <2>4, ServerFacts DEF Commit, InFlight, StmtStates
    <3>2. Started' = Started /\ orphans' = orphans
      BY <2>4 DEF Commit, Started
    <3>3. QED
      BY <1>0, <1>1, <3>1, <3>2 DEF BudgetInv
  <2>5. CASE Reject(w)
    <3>1. flying' = flying - 1
      BY <1>3, <2>5 DEF Reject, InFlight, StmtStates
    <3>2. Started' = Started /\ orphans' = orphans /\ seq' = seq
      BY <2>5 DEF Reject, Started, replVars
    <3>3. QED
      BY <1>0, <1>1, <3>1, <3>2 DEF BudgetInv
  <2>6. CASE Acknowledge(w)
    <3>1. flying' = flying
      BY <1>3, <2>6 DEF Acknowledge, InFlight, StmtStates
    <3>2. Started' = Started /\ orphans' = orphans /\ seq' = seq
      BY <2>6 DEF Acknowledge, Started, replVars
    <3>3. QED
      BY <3>1, <3>2 DEF BudgetInv
  <2>7. CASE Timeout(w)
    <3>1. Started' = Started /\ seq' = seq
      BY <2>7 DEF Timeout, Started, replVars
    <3>2. flying' = IF w \in InFlight THEN flying - 1 ELSE flying
      BY <1>3, <2>7 DEF Timeout, StmtStates
    <3>3. orphans' = orphans \/ (orphans' = orphans + 1 /\ w \in InFlight)
      BY <2>7 DEF Timeout, InFlight
    <3>4. QED
      BY <1>0, <1>1, <3>1, <3>2, <3>3 DEF BudgetInv
  <2>8. QED
    BY <1>5, <2>1, <2>2, <2>3, <2>4, <2>5, <2>6, <2>7 DEF Worker
<1>6. CASE OrphanCommit
  <2>1. seq' = seq + 1 /\ orphans' = orphans - 1
    BY <1>4, <1>6, ServerFacts DEF OrphanCommit
  <2>2. Started' = Started /\ InFlight' = InFlight
    BY <1>6 DEF OrphanCommit, Started, InFlight
  <2>3. QED
    BY <1>0, <1>1, <2>1, <2>2 DEF BudgetInv
<1>7. CASE OrphanReject
  <2>1. Started' = Started /\ InFlight' = InFlight /\ seq' = seq /\ orphans' = orphans - 1
    BY <1>7 DEF OrphanReject, Started, InFlight, replVars
  <2>2. QED
    BY <1>0, <1>1, <2>1 DEF BudgetInv
<1>8. CASE DirectWrite
  <2>1. seq' = seq
    BY <1>4, <1>8, ServerFacts DEF DirectWrite
  <2>2. Started' = Started /\ InFlight' = InFlight /\ orphans' = orphans
    BY <1>8 DEF DirectWrite, Started, InFlight
  <2>3. QED
    BY <2>1, <2>2 DEF BudgetInv
<1>9. CASE HealthCheck \/ Script \/ UNCHANGED vars
  BY <1>2, <1>9 DEF HealthCheck, Script, PausePrimary, Promote, RepointReplica2,
       UnpausePrimary, FencePrimary, DemotePrimary, ReportStatus, vars, clientVars, replVars
<1>10. CASE Replication
  BY <1>2, <1>10 DEF Replication, Replicate, Fetch, Apply, ApplyFails, clientVars
<1>11. QED
  BY <1>5, <1>6, <1>7, <1>8, <1>9, <1>10 DEF Next

(* An insert commits at most once on the primary, although HAProxy may cut *)
(* its connection and leave it to a server that runs it unattended.        *)
THEOREM InsertsRunAtMostOnce == Spec => []AtMostOnce
<1>1. Init => BudgetInv
  <2> SUFFICES ASSUME Init PROVE BudgetInv
    OBVIOUS
  <2>1. InFlight = {} /\ nextSeq[Primary] = 1 /\ orphans = 0
    BY ServerFacts DEF Init, ReplInit, InFlight
  <2>2. Cardinality(InFlight) = 0
    BY <2>1, FS_EmptySet
  <2>3. QED
    BY <2>1, <2>2, SetsAreFinite DEF BudgetInv
<1>2. TypeOK /\ BudgetInv => AtMostOnce
  <2> SUFFICES ASSUME TypeOK, BudgetInv PROVE AtMostOnce
    OBVIOUS
  <2>1. nextSeq[Primary] \in Nat /\ orphans \in Nat
    BY ServerFacts DEF TypeOK, ReplTypeOK
  <2>2. QED
    BY <2>1, SetsAreFinite DEF BudgetInv, AtMostOnce
<1>3. QED
  BY <1>1, <1>2, NextKeepsBudget, TypeCorrect, PTL DEF Spec

----------------------------------------------------------------------------
(* Fencing *)

\* Where the script stands decides whether the primary can commit: frozen from
\* docker pause to docker unpause, read-only from the fence on (with -i).
FenceInv ==
    /\ step \in {"promote", "repoint", "unpause"} => Primary \in paused
    /\ StdinAttached /\ step \in {"demote", "status", "done", "failed"}
         => readOnly[Primary]

LEMMA FenceInductive == TypeOK /\ FenceInv /\ [Next]_vars => FenceInv'
<1> SUFFICES ASSUME TypeOK, FenceInv, [Next]_vars PROVE FenceInv'
  OBVIOUS
<1>1. ASSUME UNCHANGED <<step, paused, readOnly>> PROVE FenceInv'
  BY <1>1 DEF FenceInv
<1>2. CASE HealthCheck \/ OrphanReject \/ OrphanCommit \/ DirectWrite \/ UNCHANGED vars
  BY <1>1, <1>2 DEF HealthCheck, OrphanReject, OrphanCommit, DirectWrite, CommitInsert,
                    vars, replVars
<1>3. ASSUME NEW w \in Workers, Worker(w) PROVE FenceInv'
  BY <1>1, <1>3 DEF Worker, Connect, ConnectFails, Send, Commit, Reject, Acknowledge,
                    Timeout, CommitInsert, replVars
<1>4. CASE Replication
  BY <1>1, <1>4 DEF Replication, Replicate, Fetch, Apply, ApplyFails
<1>5. CASE Script
  <2>1. CASE PausePrimary
    BY <2>1 DEF PausePrimary, FenceInv
  <2>2. CASE Promote
    BY <2>2 DEF Promote, FenceInv
  <2>3. CASE RepointReplica2
    BY <2>3 DEF RepointReplica2, FenceInv
  <2>4. CASE UnpausePrimary
    BY <2>4 DEF UnpausePrimary, FenceInv
  <2>5. CASE FencePrimary
    <3>1. StdinAttached => readOnly'[Primary]
      BY <2>5, ServerFacts DEF FencePrimary, TypeOK, ReplTypeOK
    <3>2. QED
      BY <2>5, <3>1 DEF FencePrimary, FenceInv
  <2>6. CASE DemotePrimary
    BY <2>6 DEF DemotePrimary, FenceInv
  <2>7. CASE ReportStatus
    BY <2>7 DEF ReportStatus, FenceInv, replVars
  <2>8. QED
    BY <1>5, <2>1, <2>2, <2>3, <2>4, <2>5, <2>6, <2>7 DEF Script
<1>6. QED
  BY <1>2, <1>3, <1>4, <1>5 DEF Next

\* Only a commit of its own moves the primary's GTID counter.
LEMMA OnlyCommitsNumber ==
    ASSUME TypeOK, [Next]_vars, nextSeq'[Primary] # nextSeq[Primary]
    PROVE  Primary \notin paused /\ ~readOnly[Primary]
<1>1. CASE HealthCheck \/ OrphanReject \/ UNCHANGED vars
  BY <1>1 DEF HealthCheck, OrphanReject, vars, replVars
<1>2. CASE OrphanCommit
  BY <1>2 DEF OrphanCommit, CommitInsert
<1>3. CASE DirectWrite
  BY <1>3, ServerFacts DEF DirectWrite, CommitInsert, TypeOK, ReplTypeOK
<1>4. ASSUME NEW w \in Workers, Worker(w)
      PROVE  Primary \notin paused /\ ~readOnly[Primary]
  BY <1>4 DEF Worker, Connect, ConnectFails, Send, Commit, Reject, Acknowledge, Timeout,
              CommitInsert, replVars
<1>5. CASE Script
  BY <1>5 DEF Script, PausePrimary, Promote, RepointReplica2, UnpausePrimary,
              FencePrimary, DemotePrimary, ReportStatus, replVars
<1>6. CASE Replication
  BY <1>6 DEF Replication, Replicate, Fetch, Apply, ApplyFails
<1>7. QED
  BY <1>1, <1>2, <1>3, <1>4, <1>5, <1>6 DEF Next

(* With -i, the old primary numbers no transaction of its own outside the  *)
(* window between docker unpause and read_only = ON.                       *)
THEOREM OldPrimaryIsFenced == Spec => SplitBrainWindow
<1>1. Init => FenceInv
  BY DEF Init, FenceInv
<1>2. TypeOK /\ FenceInv /\ [Next]_vars
      => [StdinAttached /\ nextSeq'[Primary] # nextSeq[Primary]
            => step \in {"before", "fence"}]_vars
  <2> SUFFICES ASSUME TypeOK, FenceInv, [Next]_vars, StdinAttached,
                      nextSeq'[Primary] # nextSeq[Primary]
               PROVE  step \in {"before", "fence"}
    OBVIOUS
  <2>1. Primary \notin paused /\ ~readOnly[Primary]
    BY OnlyCommitsNumber
  <2>2. step \in Steps
    BY DEF TypeOK
  <2>3. QED
    BY <2>1, <2>2 DEF FenceInv, Steps
<1>3. QED
  BY <1>1, <1>2, FenceInductive, TypeCorrect, PTL DEF Spec, SplitBrainWindow

----------------------------------------------------------------------------
(* The script as it is *)

Replicas == {Replica1, Replica2}

\* q counts on from k: it holds the transactions k + 1, k + 2, ... in order.
CountsFrom(q, k) == \A i \in DOMAIN q : q[i] = Nth(k + i)

LEMMA NthInjective ==
    ASSUME NEW i, NEW j, Nth(i) = Nth(j)
    PROVE  i = j
  BY DEF Nth

LEMMA ConcatenationCounts ==
    ASSUME NEW p \in Seq(Txn), NEW q \in Seq(Txn),
           CountsFrom(p, 0), CountsFrom(q, Len(p))
    PROVE  /\ Len(p \o q) = Len(p) + Len(q)
           /\ CountsFrom(p \o q, 0)
<1>1. /\ Len(p \o q) = Len(p) + Len(q)
      /\ DOMAIN (p \o q) = 1 .. (Len(p) + Len(q))
      /\ \A i \in 1 .. Len(p) : (p \o q)[i] = p[i]
      /\ \A i \in (Len(p) + 1) .. (Len(p) + Len(q)) : (p \o q)[i] = q[i - Len(p)]
      /\ DOMAIN p = 1 .. Len(p) /\ DOMAIN q = 1 .. Len(q)
      /\ Len(p) \in Nat /\ Len(q) \in Nat
  OBVIOUS
<1>2. ASSUME NEW i \in 1 .. (Len(p) + Len(q)) PROVE (p \o q)[i] = Nth(0 + i)
  <2>1. CASE i \in 1 .. Len(p)
    BY <1>1, <2>1 DEF CountsFrom
  <2>2. CASE i \in (Len(p) + 1) .. (Len(p) + Len(q))
    <3>1. i - Len(p) \in DOMAIN q /\ Len(p) + (i - Len(p)) = 0 + i
      BY <1>1, <2>2
    <3>2. q[i - Len(p)] = Nth(Len(p) + (i - Len(p)))
      BY <3>1 DEF CountsFrom
    <3>3. QED
      BY <1>1, <2>2, <3>1, <3>2
  <2>3. QED
    BY <1>1, <1>2, <2>1, <2>2
<1>3. QED
  BY <1>1, <1>2 DEF CountsFrom

LEMMA AppendCounts ==
    ASSUME NEW q \in Seq(Txn), NEW k \in Nat, CountsFrom(q, k),
           Nth(k + Len(q) + 1) \in Txn
    PROVE  /\ Len(Append(q, Nth(k + Len(q) + 1))) = Len(q) + 1
           /\ CountsFrom(Append(q, Nth(k + Len(q) + 1)), k)
<1> DEFINE x == Nth(k + Len(q) + 1)
<1>1. /\ Len(Append(q, x)) = Len(q) + 1
      /\ DOMAIN Append(q, x) = 1 .. (Len(q) + 1)
      /\ \A i \in 1 .. Len(q) : Append(q, x)[i] = q[i]
      /\ Append(q, x)[Len(q) + 1] = x
      /\ DOMAIN q = 1 .. Len(q)
      /\ Len(q) \in Nat
  <2> HIDE DEF x
  <2>1. x \in Txn
    BY DEF x
  <2>2. QED
    BY <2>1
<1>2. ASSUME NEW i \in 1 .. (Len(q) + 1) PROVE Append(q, x)[i] = Nth(k + i)
  <2>1. CASE i \in 1 .. Len(q)
    BY <1>1, <2>1 DEF CountsFrom
  <2>2. CASE i = Len(q) + 1
    <3>1. k + i = k + Len(q) + 1
      BY <1>1, <2>2
    <3>2. QED
      BY <1>1, <2>2, <3>1
  <2>3. QED
    BY <1>1, <1>2, <2>1, <2>2
<1>3. QED
  BY <1>1, <1>2 DEF CountsFrom

LEMMA TailCounts ==
    ASSUME NEW q \in Seq(Txn), NEW k \in Nat, CountsFrom(q, k), q # << >>
    PROVE  /\ Head(q) = Nth(k + 1)
           /\ Len(Tail(q)) = Len(q) - 1
           /\ Len(q) \in Nat \ {0}
           /\ CountsFrom(Tail(q), k + 1)
<1>1. /\ Head(q) = q[1]
      /\ Len(q) \in Nat \ {0}
      /\ DOMAIN q = 1 .. Len(q)
      /\ Len(Tail(q)) = Len(q) - 1
      /\ DOMAIN Tail(q) = 1 .. (Len(q) - 1)
      /\ \A i \in 1 .. (Len(q) - 1) : Tail(q)[i] = q[i + 1]
  OBVIOUS
<1>2. ASSUME NEW i \in 1 .. (Len(q) - 1) PROVE Tail(q)[i] = Nth((k + 1) + i)
  <2>1. i + 1 \in DOMAIN q /\ k + (i + 1) = (k + 1) + i
    BY <1>1, <1>2
  <2>2. q[i + 1] = Nth(k + (i + 1))
    BY <2>1 DEF CountsFrom
  <2>3. QED
    BY <1>1, <1>2, <2>1, <2>2
<1>3. 1 \in DOMAIN q
  BY <1>1
<1>4. QED
  BY <1>1, <1>2, <1>3 DEF CountsFrom

\* The first transaction of a counting log that neither p nor its continuation
\* q holds is the one after them.
LEMMA FirstUnknown ==
    ASSUME NEW log \in Seq(Txn), NEW p \in Seq(Txn), NEW q \in Seq(Txn),
           CountsFrom(log, 0), CountsFrom(p, 0), CountsFrom(q, Len(p)),
           NEW i \in DOMAIN log,
           log[i] \notin Range(p) \cup Range(q),
           \A j \in 1 .. (i - 1) : log[j] \in Range(p) \cup Range(q)
    PROVE  /\ log[i] = Nth(Len(p) + Len(q) + 1)
           /\ Len(p) + Len(q) + 1 <= Len(log)
<1>1. /\ DOMAIN log = 1 .. Len(log) /\ Len(log) \in Nat
      /\ DOMAIN p = 1 .. Len(p) /\ Len(p) \in Nat
      /\ DOMAIN q = 1 .. Len(q) /\ Len(q) \in Nat
  OBVIOUS
<1>2. /\ \A j \in DOMAIN log : log[j] = Nth(j)
      /\ \A j \in DOMAIN p : p[j] = Nth(j)
  <2>1. \A j \in DOMAIN log : log[j] = Nth(0 + j) /\ 0 + j = j
    BY <1>1 DEF CountsFrom
  <2>2. \A j \in DOMAIN p : p[j] = Nth(0 + j) /\ 0 + j = j
    BY <1>1 DEF CountsFrom
  <2>3. QED
    BY <2>1, <2>2
<1>3. ASSUME NEW j \in 1 .. (Len(p) + Len(q)) PROVE Nth(j) \in Range(p) \cup Range(q)
  <2>1. CASE j \in 1 .. Len(p)
    <3>1. j \in DOMAIN p
      BY <1>1, <2>1
    <3>2. QED
      BY <1>2, <3>1 DEF Range
  <2>2. CASE j \in (Len(p) + 1) .. (Len(p) + Len(q))
    <3>1. j - Len(p) \in DOMAIN q /\ Len(p) + (j - Len(p)) = j
      BY <1>1, <2>2
    <3>2. q[j - Len(p)] = Nth(Len(p) + (j - Len(p)))
      BY <3>1 DEF CountsFrom
    <3>3. QED
      BY <3>1, <3>2 DEF Range
  <2>3. QED
    BY <1>1, <1>3, <2>1, <2>2
<1>4. ASSUME Nth(Len(p) + Len(q) + 1) \in Range(p) \cup Range(q) PROVE FALSE
  <2>1. ASSUME NEW j \in DOMAIN p, p[j] = Nth(Len(p) + Len(q) + 1) PROVE FALSE
    <3>1. p[j] = Nth(j)
      BY <1>2, <2>1
    <3>2. j = Len(p) + Len(q) + 1
      BY <2>1, <3>1, NthInjective
    <3>3. QED
      BY <1>1, <2>1, <3>2
  <2>2. ASSUME NEW j \in DOMAIN q, q[j] = Nth(Len(p) + Len(q) + 1) PROVE FALSE
    <3>1. q[j] = Nth(Len(p) + j)
      BY <2>2 DEF CountsFrom
    <3>2. Len(p) + j = Len(p) + Len(q) + 1
      BY <2>2, <3>1, NthInjective
    <3>3. QED
      BY <1>1, <2>2, <3>2
  <2>3. QED
    BY <1>4, <2>1, <2>2 DEF Range
<1>5. i \in 1 .. Len(log) /\ log[i] = Nth(i)
  BY <1>1, <1>2
<1>6. ~(i <= Len(p) + Len(q))
  BY <1>1, <1>3, <1>5
<1>7. ASSUME i > Len(p) + Len(q) + 1 PROVE FALSE
  <2>1. /\ Len(p) + Len(q) + 1 \in 1 .. (i - 1)
        /\ Len(p) + Len(q) + 1 \in DOMAIN log
    BY <1>1, <1>5, <1>7
  <2>2. log[Len(p) + Len(q) + 1] \in Range(p) \cup Range(q)
    BY <2>1
  <2>3. log[Len(p) + Len(q) + 1] = Nth(Len(p) + Len(q) + 1)
    BY <1>2, <2>1
  <2>4. QED
    BY <1>4, <2>2, <2>3
<1>8. i = Len(p) + Len(q) + 1
  BY <1>1, <1>5, <1>6, <1>7
<1>9. QED
  BY <1>1, <1>5, <1>8

\* The topology never changes, the primary's binlog counts 1, 2, 3 ..., and each
\* replica's binlog followed by its relay log counts along.
AsIsInv ==
    /\ source = [s \in Servers |-> IF s = Primary THEN NoServer ELSE Primary]
    /\ relay[Primary] = << >>
    /\ nextSeq[Primary] = Len(binlog[Primary]) + 1
    /\ nextRow[Primary] = Len(binlog[Primary]) + 1
    /\ \A s \in Servers : CountsFrom(binlog[s], 0)
    /\ \A r \in Replicas :
         /\ Len(binlog[r]) + Len(relay[r]) <= Len(binlog[Primary])
         /\ CountsFrom(relay[r], Len(binlog[r]))

LEMMA Lengths ==
    ASSUME NEW a \in Nat, NEW b \in Nat, NEW c \in Nat
    PROVE  /\ a + b <= c => a + b <= c + 1
           /\ a + b + 1 <= c => a + (b + 1) <= c
           /\ (a + 1) + (b - 1) = a + b
  OBVIOUS

LEMMA SeqFacts ==
    ASSUME ReplTypeOK, NEW s \in Servers
    PROVE  /\ binlog[s] \in Seq(Txn) /\ relay[s] \in Seq(Txn)
           /\ Len(binlog[s]) \in Nat /\ Len(relay[s]) \in Nat
<1>1. binlog[s] \in Seq(Txn) /\ relay[s] \in Seq(Txn)
  BY DEF ReplTypeOK
<1>2. QED
  BY <1>1

LEMMA ReplicaFacts ==
    /\ \A r \in Replicas : r \in Servers /\ r # Primary
    /\ \A s \in Servers : s = Primary \/ s \in Replicas
    /\ Primary \in Servers /\ NoServer # Primary
  BY ServerFacts, FailoverAssumption, ServersAssumption DEF Replicas

LEMMA AsIsInvImpliesPrefixes == ReplTypeOK /\ AsIsInv => ReplicasArePrefixes
<1> SUFFICES ASSUME ReplTypeOK, AsIsInv, NEW r \in Replicas
             PROVE  LET copied == binlog[r] \o relay[r]
                    IN  /\ Len(copied) <= Len(binlog[Primary])
                        /\ \A i \in DOMAIN copied : copied[i] = binlog[Primary][i]
  BY DEF ReplicasArePrefixes, Replicas
<1> DEFINE copied == binlog[r] \o relay[r]
<1>1. r \in Servers /\ Primary \in Servers
  BY ReplicaFacts
<1>2. Len(copied) = Len(binlog[r]) + Len(relay[r]) /\ CountsFrom(copied, 0)
  BY <1>1, SeqFacts, ConcatenationCounts DEF AsIsInv
<1>3. copied \in Seq(Txn) /\ binlog[Primary] \in Seq(Txn)
  <2>1. binlog[r] \in Seq(Txn) /\ relay[r] \in Seq(Txn) /\ binlog[Primary] \in Seq(Txn)
    BY <1>1, SeqFacts
  <2>2. QED
    BY <2>1
<1>4. Len(copied) <= Len(binlog[Primary])
  BY <1>2 DEF AsIsInv
<1>5. CountsFrom(binlog[Primary], 0)
  BY <1>1 DEF AsIsInv
<1> HIDE DEF copied
<1>6. DOMAIN copied \subseteq DOMAIN binlog[Primary]
  BY <1>3, <1>4
<1>7. \A i \in DOMAIN copied : copied[i] = binlog[Primary][i]
  BY <1>2, <1>5, <1>6 DEF CountsFrom
<1>8. QED
  BY <1>4, <1>7 DEF copied

LEMMA CommitKeepsAsIs ==
    ASSUME ReplTypeOK, AsIsInv, CommitInsert(Primary)
    PROVE  AsIsInv'
<1> DEFINE x == Nth(0 + Len(binlog[Primary]) + 1)
<1>1. binlog[Primary] \in Seq(Txn) /\ Len(binlog[Primary]) \in Nat
  BY ServerFacts, SeqFacts
<1>2. NextTxn(Primary) = x /\ x \in Txn
  BY <1>1, ServerFacts, NextTxnType DEF AsIsInv, NextTxn, Nth
<1>3. /\ binlog'[Primary] = Append(binlog[Primary], x)
      /\ \A s \in Servers \ {Primary} : binlog'[s] = binlog[s]
      /\ relay' = relay /\ source' = source
      /\ nextSeq'[Primary] = nextSeq[Primary] + 1
      /\ nextRow'[Primary] = nextRow[Primary] + 1
  BY <1>2, ServerFacts DEF CommitInsert, ReplTypeOK
<1>4. /\ Len(binlog'[Primary]) = Len(binlog[Primary]) + 1
      /\ CountsFrom(binlog'[Primary], 0)
  <2>1. CountsFrom(binlog[Primary], 0) /\ 0 \in Nat
    BY ServerFacts DEF AsIsInv
  <2>2. QED
    BY <1>1, <1>2, <1>3, <2>1, AppendCounts
<1>5. \A s \in Servers : CountsFrom(binlog'[s], 0)
  BY <1>3, <1>4 DEF AsIsInv
<1>6. ASSUME NEW r \in Replicas
      PROVE  /\ Len(binlog'[r]) + Len(relay'[r]) <= Len(binlog'[Primary])
             /\ CountsFrom(relay'[r], Len(binlog'[r]))
  <2>1. binlog'[r] = binlog[r] /\ relay'[r] = relay[r]
    BY <1>3, ReplicaFacts
  <2>2. Len(binlog[r]) \in Nat /\ Len(relay[r]) \in Nat
    BY ReplicaFacts, SeqFacts
  <2>3. Len(binlog[r]) + Len(relay[r]) <= Len(binlog[Primary])
    BY DEF AsIsInv
  <2>4. CountsFrom(relay[r], Len(binlog[r]))
    BY DEF AsIsInv
  <2>5. Len(binlog[r]) + Len(relay[r]) <= Len(binlog[Primary]) + 1
    BY <1>1, <2>2, <2>3, Lengths
  <2>6. QED
    BY <1>4, <2>1, <2>4, <2>5
<1>7. /\ relay'[Primary] = << >>
      /\ nextSeq'[Primary] = Len(binlog'[Primary]) + 1
      /\ nextRow'[Primary] = Len(binlog'[Primary]) + 1
  BY <1>3, <1>4 DEF AsIsInv
<1>8. QED
  BY <1>3, <1>5, <1>6, <1>7 DEF AsIsInv, CountsFrom, Nth

LEMMA FetchKeepsAsIs ==
    ASSUME ReplTypeOK, AsIsInv, NEW r \in Servers, Fetch(r)
    PROVE  AsIsInv'
<1>1. r \in Replicas /\ r # Primary /\ source[r] = Primary
  BY ReplicaFacts DEF AsIsInv, Fetch
<1>2. PICK i \in DOMAIN binlog[Primary] :
        /\ binlog[Primary][i] \notin Range(binlog[r]) \cup Range(relay[r])
        /\ \A j \in 1 .. (i - 1) :
             binlog[Primary][j] \in Range(binlog[r]) \cup Range(relay[r])
        /\ relay' = [relay EXCEPT ![r] = Append(@, binlog[Primary][i])]
  BY <1>1 DEF Fetch, Known, Executed
<1>3. /\ binlog[Primary] \in Seq(Txn) /\ binlog[r] \in Seq(Txn) /\ relay[r] \in Seq(Txn)
      /\ Len(binlog[r]) \in Nat /\ Len(relay[r]) \in Nat /\ Len(binlog[Primary]) \in Nat
  BY ServerFacts, SeqFacts
<1>4. /\ CountsFrom(binlog[Primary], 0) /\ CountsFrom(binlog[r], 0)
      /\ CountsFrom(relay[r], Len(binlog[r]))
  BY <1>1, ServerFacts DEF AsIsInv
<1>5. /\ binlog[Primary][i] = Nth(Len(binlog[r]) + Len(relay[r]) + 1)
      /\ Len(binlog[r]) + Len(relay[r]) + 1 <= Len(binlog[Primary])
  BY <1>2, <1>3, <1>4, FirstUnknown
<1>6. binlog[Primary][i] \in Txn
  BY <1>2, <1>3
<1>7. relay'[r] = Append(relay[r], Nth(Len(binlog[r]) + Len(relay[r]) + 1))
  BY <1>2, <1>5 DEF ReplTypeOK
<1>8. Len(relay'[r]) = Len(relay[r]) + 1 /\ CountsFrom(relay'[r], Len(binlog[r]))
  BY <1>3, <1>4, <1>5, <1>6, <1>7, AppendCounts
<1>9. /\ binlog' = binlog /\ source' = source /\ nextSeq' = nextSeq /\ nextRow' = nextRow
      /\ \A o \in Servers \ {r} : relay'[o] = relay[o]
  BY <1>2 DEF Fetch, ReplTypeOK
<1>10. ASSUME NEW o \in Replicas
       PROVE  /\ Len(binlog'[o]) + Len(relay'[o]) <= Len(binlog'[Primary])
              /\ CountsFrom(relay'[o], Len(binlog'[o]))
  <2>1. CASE o = r
    <3>1. Len(binlog[r]) + (Len(relay[r]) + 1) <= Len(binlog[Primary])
      BY <1>3, <1>5, Lengths
    <3>2. QED
      BY <1>8, <1>9, <2>1, <3>1
  <2>2. CASE o # r
    <3>1. relay'[o] = relay[o]
      BY <1>9, <2>2, ReplicaFacts
    <3>2. QED
      BY <1>9, <3>1 DEF AsIsInv
  <2>3. QED
    BY <2>1, <2>2
<1>11. relay'[Primary] = << >>
  BY <1>1, <1>9, ServerFacts DEF AsIsInv
<1>12. QED
  BY <1>9, <1>10, <1>11 DEF AsIsInv, CountsFrom, Nth

LEMMA ApplyKeepsAsIs ==
    ASSUME ReplTypeOK, AsIsInv, NEW r \in Servers, Apply(r)
    PROVE  AsIsInv'
<1>1. r \in Replicas /\ r # Primary /\ relay[r] # << >>
  BY ReplicaFacts DEF AsIsInv, Apply
<1>2. /\ binlog[r] \in Seq(Txn) /\ relay[r] \in Seq(Txn)
      /\ Len(binlog[r]) \in Nat
  BY SeqFacts
<1>3. CountsFrom(binlog[r], 0) /\ CountsFrom(relay[r], Len(binlog[r]))
  BY <1>1 DEF AsIsInv
<1>4. /\ Head(relay[r]) = Nth(Len(binlog[r]) + 1)
      /\ Len(Tail(relay[r])) = Len(relay[r]) - 1
      /\ Len(relay[r]) \in Nat \ {0}
      /\ CountsFrom(Tail(relay[r]), Len(binlog[r]) + 1)
  BY <1>1, <1>2, <1>3, TailCounts
<1>5. Head(relay[r]) \in Txn /\ Len(binlog[r]) + 1 = 0 + Len(binlog[r]) + 1
  BY <1>1, <1>2, HeadAndTail
<1>6. /\ binlog'[r] = Append(binlog[r], Nth(0 + Len(binlog[r]) + 1))
      /\ relay'[r] = Tail(relay[r])
      /\ source' = source /\ nextSeq' = nextSeq
      /\ nextRow'[Primary] = nextRow[Primary]
      /\ \A o \in Servers \ {r} : binlog'[o] = binlog[o] /\ relay'[o] = relay[o]
  <2>1. Head(relay[r]) = Nth(0 + Len(binlog[r]) + 1)
    BY <1>4, <1>5
  <2>2. QED
    BY <1>1, <2>1, ServerFacts DEF Apply, ReplTypeOK
<1>7. Len(binlog'[r]) = Len(binlog[r]) + 1 /\ CountsFrom(binlog'[r], 0)
  <2>1. Nth(0 + Len(binlog[r]) + 1) \in Txn /\ 0 \in Nat
    BY <1>4, <1>5
  <2>2. QED
    BY <1>2, <1>3, <1>6, <2>1, AppendCounts
<1>8. binlog'[Primary] = binlog[Primary] /\ relay'[Primary] = relay[Primary]
  BY <1>1, <1>6, ServerFacts
<1>9. ASSUME NEW o \in Replicas
      PROVE  /\ Len(binlog'[o]) + Len(relay'[o]) <= Len(binlog'[Primary])
             /\ CountsFrom(relay'[o], Len(binlog'[o]))
  <2>1. CASE o = r
    <3>1. Len(binlog[r]) + Len(relay[r]) <= Len(binlog[Primary])
      BY <1>1 DEF AsIsInv
    <3>2. (Len(binlog[r]) + 1) + (Len(relay[r]) - 1) = Len(binlog[r]) + Len(relay[r])
      <4>1. Len(relay[r]) \in Nat
        BY <1>4
      <4>2. QED
        BY <1>2, <4>1, Lengths
    <3>3. QED
      BY <1>4, <1>6, <1>7, <1>8, <2>1, <3>1, <3>2
  <2>2. CASE o # r
    <3>1. binlog'[o] = binlog[o] /\ relay'[o] = relay[o]
      BY <1>6, <2>2, ReplicaFacts
    <3>2. QED
      BY <1>8, <3>1 DEF AsIsInv
  <2>3. QED
    BY <2>1, <2>2
<1>10. \A s \in Servers : CountsFrom(binlog'[s], 0)
  BY <1>6, <1>7 DEF AsIsInv
<1>11. QED
  BY <1>6, <1>8, <1>9, <1>10 DEF AsIsInv, CountsFrom, Nth

(* As it is, and as long as nobody writes to replica1, the script disturbs *)
(* nothing: both replicas hold, at every moment, an exact prefix of the    *)
(* primary's binlog, continued by their relay logs.                        *)
THEOREM AsIsReplicasArePrefixes ==
    ASSUME ~StdinAttached, DirectWrites = 0
    PROVE  Spec => []ReplicasArePrefixes
<1>1. Init => AsIsInv
  <2> SUFFICES ASSUME Init PROVE AsIsInv
    OBVIOUS
  <2>1. /\ \A s \in Servers : binlog[s] = << >> /\ relay[s] = << >>
        /\ nextSeq[Primary] = 1 /\ nextRow[Primary] = 1
        /\ source = [s \in Servers |-> IF s = Primary THEN NoServer ELSE Primary]
    BY ServerFacts DEF Init, ReplInit
  <2>2. Len(<< >>) = 0 /\ DOMAIN << >> = {}
    OBVIOUS
  <2>3. \A k : CountsFrom(<< >>, k)
    BY <2>2 DEF CountsFrom
  <2>4. relay[Primary] = << >> /\ Len(binlog[Primary]) = 0
    BY <2>1, <2>2, ReplicaFacts
  <2>5. \A s \in Servers : CountsFrom(binlog[s], 0)
    BY <2>1, <2>3
  <2>6. \A r \in Replicas : /\ Len(binlog[r]) + Len(relay[r]) <= Len(binlog[Primary])
                            /\ CountsFrom(relay[r], Len(binlog[r]))
    <3>1. \A r \in Replicas : binlog[r] = << >> /\ relay[r] = << >>
      BY <2>1, ReplicaFacts
    <3>2. 0 + 0 <= 0
      OBVIOUS
    <3>3. QED
      BY <2>2, <2>3, <2>4, <3>1, <3>2
  <2>7. nextSeq[Primary] = 0 + 1 /\ nextRow[Primary] = 0 + 1
    BY <2>1
  <2>8. QED
    BY <2>1, <2>4, <2>5, <2>6, <2>7 DEF AsIsInv
<1>2. TypeOK /\ AsIsInv /\ [Next]_vars => AsIsInv'
  <2> SUFFICES ASSUME TypeOK, AsIsInv, [Next]_vars PROVE AsIsInv'
    OBVIOUS
  <2>0. ReplTypeOK
    BY DEF TypeOK
  <2>1. ASSUME UNCHANGED <<binlog, relay, source, nextSeq, nextRow>> PROVE AsIsInv'
    BY <2>1 DEF AsIsInv, Nth
  <2>2. CASE HealthCheck \/ OrphanReject \/ UNCHANGED vars
    BY <2>1, <2>2 DEF HealthCheck, OrphanReject, vars, replVars
  <2>3. ASSUME NEW w \in Workers, Worker(w) PROVE AsIsInv'
    <3>1. CASE Commit(w)
      BY <2>0, <3>1, CommitKeepsAsIs DEF Commit
    <3>2. CASE ~Commit(w)
      BY <2>1, <2>3, <3>2
         DEF Worker, Connect, ConnectFails, Send, Reject, Acknowledge, Timeout, replVars
    <3>3. QED
      BY <3>1, <3>2
  <2>4. CASE OrphanCommit
    BY <2>0, <2>4, CommitKeepsAsIs DEF OrphanCommit
  <2>5. CASE DirectWrite
    BY <2>5 DEF DirectWrite, TypeOK
  <2>6. CASE Script
    BY <2>1, <2>6 DEF Script, PausePrimary, Promote, RepointReplica2, UnpausePrimary,
                      FencePrimary, DemotePrimary, ReportStatus, replVars
  <2>7. CASE Replication
    <3>1. PICK r \in Servers : Replicate(r)
      BY <2>7 DEF Replication
    <3>2. CASE ApplyFails(r)
      BY <2>1, <3>2 DEF ApplyFails
    <3>3. QED
      BY <2>0, <3>1, <3>2, FetchKeepsAsIs, ApplyKeepsAsIs DEF Replicate
  <2>8. QED
    BY <2>2, <2>3, <2>4, <2>5, <2>6, <2>7 DEF Next
<1>3. TypeOK /\ AsIsInv => ReplicasArePrefixes
  BY AsIsInvImpliesPrefixes DEF TypeOK
<1>4. QED
  BY <1>1, <1>2, <1>3, TypeCorrect, PTL DEF Spec
=============================================================================
