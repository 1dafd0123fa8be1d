--------------------------- MODULE Channels_proofs ---------------------------
(***************************************************************************)
(* Theorems about the two tools whose goroutines hand over their results   *)
(* through channels: pt-pg-summary and the profiler reader.                *)
(*                                                                         *)
(* For any databases, any work of the server between the two passes and    *)
(* any failing query:                                                      *)
(*                                                                         *)
(*   PgTypeCorrect what is sent, received and counted keeps its types      *)
(*   PrintedCountersAreGains                                               *)
(*                 CountersAreGains; GainInv ties PGInfo.Counters to the   *)
(*                 answers received so far, at each place of main          *)
(*                                                                         *)
(* For any number of documents, ticks and goroutines that call Stop:       *)
(*                                                                         *)
(*   ReaderTypeCorrect    the state keeps its types                        *)
(*   FlushedOnceComplete  FlushIsComplete                                  *)
(*   FlushesCountWhatTheyList                                              *)
(*                        CountCoversLists                                 *)
(*                                                                         *)
(* These two speak of what main has received.  The first needs to know, at *)
(* every point of getDocs, what the entry holds and that nobody has reset  *)
(* it (CompleteInv); the second, that an entry which Add still works on is *)
(* the current one or has been replaced for good (CoverInv).               *)
(***************************************************************************)
EXTENDS PgSummary, Profiler, SequenceTheorems, TLAPS

----------------------------------------------------------------------------
(* pt-pg-summary *)

PgSpec == PgInit /\ [][PgNext]_pgVars

(* The rows of an answer: the counters of at least one database. *)
Rows == UNION {[D -> Int] : D \in (SUBSET Databases) \ {{}}}
Answer == {a \in [ok : BOOLEAN, rows : Rows \cup {<<>>}] : a.ok => a.rows \in Rows}

(* Types of the state that main and its goroutine exchange. *)
PgTypes == /\ stat \in Rows
           /\ chan \in Seq(Answer)
           /\ passes \in Seq(Answer)

(* The databases that the pass of number i has counted. *)
Seen(i) == IF passes[i].ok THEN DOMAIN passes[i].rows ELSE {}
Sample(i, d) == IF d \in Seen(i) THEN <<passes[i].rows[d]>> ELSE <<>>

(* Counters holds the snapshots of the passes so far. *)
AfterFirst == /\ Len(passes) = 1 \/ Len(passes) = 2
              /\ DOMAIN counters = Seen(1)
              /\ \A d \in DOMAIN counters : counters[d] = <<passes[1].rows[d]>>
AfterSecond == /\ Len(passes) = 2 /\ passes[2].ok
               /\ DOMAIN counters = Seen(1) \cup Seen(2)
               /\ \A d \in DOMAIN counters : counters[d] = Sample(1, d) \o Sample(2, d)
Gains == [d \in DOMAIN passes[1].rows |->
            <<passes[1].rows[d], passes[2].rows[d], passes[2].rows[d] - passes[1].rows[d]>>]
CountersComplete == passes[1].ok /\ passes[2].ok /\ counters = Gains

GainInv ==
    /\ PgTypes
    /\ pgPc \in {"new", "first", "wait1"} => passes = <<>> /\ DOMAIN counters = {}
    /\ pgPc \in {"global", "wait2"} => Len(passes) = 1 /\ AfterFirst
    /\ pgPc = "diff" => AfterSecond
    /\ pgPc \in {"databases", "printed"} =>
          Len(passes) = 2 /\ IF passes[2].ok THEN CountersComplete ELSE AfterFirst
    /\ pgPc = "printed" => CountersComplete \/ (~passes[1].ok /\ ~passes[2].ok)
    /\ pgPc = "panic" => ~passes[1].ok \/ DOMAIN passes[1].rows # DOMAIN passes[2].rows

(* The rows of an answer are a function on a nonempty set. *)
LEMMA AnswerRows ==
    ASSUME NEW a \in Answer, a.ok
    PROVE  a.rows \in Rows /\ DOMAIN a.rows # {} /\ \A d \in DOMAIN a.rows : a.rows[d] \in Int
<1>1. a.rows \in Rows
  BY DEF Answer
<1>2. PICK D \in (SUBSET Databases) \ {{}} : a.rows \in [D -> Int]
  BY <1>1 DEF Rows
<1>3. QED
  BY <1>1, <1>2

(* The answers received are answers. *)
LEMMA TwoPasses == ASSUME PgTypes, Len(passes) = 2
                   PROVE  passes[1] \in Answer /\ passes[2] \in Answer
<1>1. passes \in Seq(Answer)
  BY DEF PgTypes
<1>2. QED
  BY <1>1

(* The second answer follows the first. *)
LEMMA AppendSecond ==
    ASSUME NEW S, NEW s \in Seq(S), NEW e \in S, Len(s) = 1
    PROVE  Len(Append(s, e)) = 2 /\ Append(s, e)[1] = s[1] /\ Append(s, e)[2] = e
<1>1. /\ Len(Append(s, e)) = Len(s) + 1
      /\ \A i \in 1..Len(s) : Append(s, e)[i] = s[i]
      /\ Append(s, e)[Len(s) + 1] = e
  BY AppendProperties, SMTT(30)
<1>2. QED
  BY <1>1

(* What calcCountersDiff adds to two snapshots. *)
LEMMA DifferenceOfTwo ==
    ASSUME NEW x \in Int, NEW y \in Int
    PROVE  Difference(<<x, y>>) = <<x, y, y - x>>
<1> DEFINE z == y - x   s == <<x, y>>   u == <<x, y, z>>
<1>0. z \in Int
  OBVIOUS
<1>1. /\ s \in Seq(Int) /\ Len(s) = 2 /\ s[1] = x /\ s[2] = y
      /\ u \in Seq(Int) /\ Len(u) = 3 /\ u[1] = x /\ u[2] = y /\ u[3] = z
  OBVIOUS
<1>2. Difference(s) = Append(s, z)
  BY DEF Difference
<1> HIDE DEF s, u, z
<1>3. /\ Append(s, z) \in Seq(Int) /\ Len(Append(s, z)) = Len(s) + 1
      /\ \A i \in 1..Len(s) : Append(s, z)[i] = s[i]
      /\ Append(s, z)[Len(s) + 1] = z
  <2>1. s \in Seq(Int)
    BY <1>1
  <2>2. QED
    BY <1>0, <2>1, AppendProperties
<1> DEFINE v == Append(s, z)
<1> HIDE DEF v
<1>4. v \in Seq(Int) /\ v[1] = x /\ v[2] = y /\ v[3] = z /\ Len(v) = 3
  BY <1>1, <1>3 DEF v
<1>5. \A i \in 1..Len(v) : v[i] = u[i]
  BY <1>1, <1>4
<1>6. v = u
  BY <1>1, <1>4, <1>5, SeqEqual
<1>7. QED
  BY <1>2, <1>6 DEF s, u, v, z

(* Two snapshots, one after the other, are one of each pass. *)
LEMMA TwoSnapshots ==
    ASSUME NEW x \in Int, NEW y \in Int
    PROVE  <<x>> \o <<y>> = <<x, y>> /\ Len(<<x>> \o <<y>>) = 2
<1>1. /\ <<x>> \in Seq(Int) /\ Len(<<x>>) = 1 /\ <<x>>[1] = x
      /\ <<y>> \in Seq(Int) /\ Len(<<y>>) = 1 /\ <<y>>[1] = y
      /\ <<x, y>> \in Seq(Int) /\ Len(<<x, y>>) = 2
      /\ <<x, y>>[1] = x /\ <<x, y>>[2] = y
  OBVIOUS
<1> DEFINE s == <<x>>   t == <<y>>   u == <<x, y>>
<1> HIDE DEF s, t, u
<1>2. /\ s \o t \in Seq(Int) /\ Len(s \o t) = Len(s) + Len(t)
      /\ \A i \in 1..(Len(s) + Len(t)) :
            (s \o t)[i] = IF i <= Len(s) THEN s[i] ELSE t[i - Len(s)]
  BY <1>1, ConcatProperties DEF s, t
<1>3. /\ Len(s) = 1 /\ s[1] = x /\ Len(t) = 1 /\ t[1] = y
      /\ u \in Seq(Int) /\ Len(u) = 2 /\ u[1] = x /\ u[2] = y
  BY <1>1 DEF s, t, u
<1>4. Len(s \o t) = 2 /\ (s \o t)[1] = x /\ (s \o t)[2] = y
  BY <1>2, <1>3
<1>5. \A i \in 1..Len(u) : (s \o t)[i] = u[i]
  BY <1>3, <1>4
<1>6. s \o t = u
  BY <1>2, <1>3, <1>4, <1>5, SeqEqual
<1>7. QED
  BY <1>4, <1>6 DEF s, t, u

(* What the server does keeps the rows of pg_stat_database well formed. *)
LEMMA WorkTypes == ASSUME stat \in Rows, Work PROVE stat' \in Rows
<1>1. PICK D \in (SUBSET Databases) \ {{}} : stat \in [D -> Int]
  BY DEF Rows
<1>2. DOMAIN stat = D
  BY <1>1
<1>3. ASSUME NEW d \in DOMAIN stat, stat' = [stat EXCEPT ![d] = @ + 1] PROVE stat' \in Rows
  <2>1. stat' \in [D -> Int]
    BY <1>1, <1>2, <1>3
  <2>2. QED
    BY <2>1, <1>1 DEF Rows
<1>4. ASSUME NEW d \in DOMAIN stat, DOMAIN stat # {d},
             stat' = Restrict(stat, DOMAIN stat \ {d})
      PROVE  stat' \in Rows
  <2>1. stat' \in [D \ {d} -> Int]
    BY <1>1, <1>2, <1>4 DEF Restrict
  <2>2. D \ {d} # {} /\ D \ {d} \in SUBSET Databases
    BY <1>1, <1>2, <1>4
  <2>3. QED
    BY <2>1, <2>2 DEF Rows
<1>5. ASSUME NEW d \in Databases \ DOMAIN stat,
             stat' = [e \in DOMAIN stat \cup {d} |-> IF e = d THEN 0 ELSE stat[e]]
      PROVE  stat' \in Rows
  <2>1. stat' \in [D \cup {d} -> Int]
    BY <1>1, <1>2, <1>5
  <2>2. D \cup {d} # {} /\ D \cup {d} \in SUBSET Databases
    BY <1>1, <1>5
  <2>3. QED
    BY <2>1, <2>2 DEF Rows
<1>6. QED
  BY <1>3, <1>4, <1>5 DEF Work

(* The types hold initially and through every step. *)
LEMMA InitTypes == PgInit => PgTypes
<1> SUFFICES ASSUME PgInit PROVE PgTypes
  OBVIOUS
<1>1. stat \in Rows
  <2>1. stat \in [Databases -> Int]
    BY DEF PgInit
  <2>2. QED
    BY <2>1, PgAssumption DEF Rows
<1>2. QED
  BY <1>1 DEF PgInit, PgTypes

LEMMA SendTypes == ASSUME PgTypes, Send PROVE chan' \in Seq(Answer)
<1>1. PICK a \in {[ok |-> TRUE, rows |-> stat], Failure} : chan' = Append(chan, a)
  BY DEF Send
<1>2. Failure \in Answer
  BY DEF Answer, Failure
<1>3. [ok |-> TRUE, rows |-> stat] \in Answer
  BY DEF Answer, PgTypes
<1>4. a \in Answer
  BY <1>2, <1>3
<1>5. QED
  BY <1>1, <1>4 DEF PgTypes

LEMMA ReceiveTypes ==
    ASSUME PgTypes, Receive
    PROVE  /\ chan' \in Seq(Answer) /\ Head(chan) \in Answer
           /\ passes' = Append(passes, Head(chan)) /\ passes' \in Seq(Answer)
BY DEF PgTypes, Receive

LEMMA NextTypes == PgTypes /\ [PgNext]_pgVars => PgTypes'
<1> SUFFICES ASSUME PgTypes, [PgNext]_pgVars PROVE PgTypes'
  OBVIOUS
<1>1. CASE FirstPass
  BY <1>1, SendTypes DEF FirstPass, PgTypes, server
<1>2. CASE SecondPass
  BY <1>2, SendTypes DEF SecondPass, PgTypes, server
<1>3. CASE WaitFirst
  BY <1>3, ReceiveTypes DEF WaitFirst, PgTypes, server
<1>4. CASE WaitSecond
  BY <1>4, ReceiveTypes DEF WaitSecond, PgTypes, server
<1>5. CASE Work
  BY <1>5, WorkTypes DEF Work, PgTypes
<1>6. CASE PgNew \/ Global \/ Diff \/ PerDatabase \/ PrintReport
  BY <1>6 DEF PgNew, Global, Diff, PerDatabase, PrintReport, PgTypes, server
<1>7. CASE UNCHANGED pgVars
  BY <1>7 DEF pgVars, PgTypes
<1>8. QED
  BY <1>1, <1>2, <1>3, <1>4, <1>5, <1>6, <1>7 DEF PgNext, PgMain

(* What pt-pg-summary reads, sends and keeps has the type it is read with. *)
THEOREM PgTypeCorrect == PgSpec => []PgTypes
<1>1. QED
  BY InitTypes, NextTypes, PTL DEF PgSpec

-----------------------------------------------------------------------------
(* Taking an answer from the channel moves the snapshots on by one pass. *)
LEMMA FirstReceived ==
    ASSUME PgTypes, Receive, passes = <<>>, DOMAIN counters = {}
    PROVE  Len(passes') = 1 /\ AfterFirst'
<1>1. /\ Head(chan) \in Answer /\ passes' = <<Head(chan)>>
  BY ReceiveTypes
<1>2. Len(passes') = 1 /\ passes'[1] = Head(chan)
  BY <1>1
<1>3. CASE Head(chan).ok
  <2> DEFINE rows == Head(chan).rows
  <2>1. counters' = Record(rows)
    BY <1>3 DEF Receive
  <2>2. DOMAIN counters' = DOMAIN rows
    BY <2>1 DEF Record
  <2>3. ASSUME NEW d \in DOMAIN counters' PROVE counters'[d] = <<rows[d]>>
    <3>1. counters'[d] = <<>> \o <<rows[d]>>
      BY <2>1, <2>2 DEF Record
    <3>2. rows[d] \in Int
      BY <1>1, <1>3, <2>2, AnswerRows
    <3>3. QED
      BY <3>1, <3>2
  <2>4. QED
    BY <1>2, <1>3, <2>2, <2>3 DEF AfterFirst, Seen
<1>4. CASE ~Head(chan).ok
  <2>1. counters' = counters
    BY <1>4 DEF Receive
  <2>2. QED
    BY <1>2, <1>4, <2>1 DEF AfterFirst, Seen
<1>5. QED
  BY <1>3, <1>4

LEMMA SecondReceived ==
    ASSUME PgTypes, Receive, Len(passes) = 1, AfterFirst
    PROVE  /\ Len(passes') = 2 /\ passes'[1] = passes[1] /\ passes'[2] = Head(chan)
           /\ IF Head(chan).ok THEN AfterSecond' ELSE AfterFirst'
<1>1. /\ Head(chan) \in Answer /\ passes' = Append(passes, Head(chan))
      /\ passes \in Seq(Answer)
  BY ReceiveTypes DEF PgTypes
<1>2. Len(passes') = 2 /\ passes'[1] = passes[1] /\ passes'[2] = Head(chan)
  BY <1>1, AppendSecond
<1>3. CASE Head(chan).ok
  <2> DEFINE rows == Head(chan).rows
  <2>1. counters' = Record(rows)
    BY <1>3 DEF Receive
  <2>2. DOMAIN counters' = DOMAIN counters \cup DOMAIN rows
    BY <2>1 DEF Record
  <2>3. Seen(1)' = Seen(1) /\ Seen(2)' = DOMAIN rows
    BY <1>2, <1>3 DEF Seen
  <2>4. ASSUME NEW d \in DOMAIN counters'
        PROVE  counters'[d] = Sample(1, d)' \o Sample(2, d)'
    <3>1. counters'[d] = (IF d \in DOMAIN counters THEN counters[d] ELSE <<>>)
                           \o (IF d \in DOMAIN rows THEN <<rows[d]>> ELSE <<>>)
      BY <2>1, <2>2 DEF Record
    <3>2. Sample(1, d)' = IF d \in DOMAIN counters THEN counters[d] ELSE <<>>
      BY <1>2, <2>3 DEF Sample, AfterFirst
    <3>3. Sample(2, d)' = IF d \in DOMAIN rows THEN <<rows[d]>> ELSE <<>>
      BY <1>2, <2>3 DEF Sample
    <3>4. QED
      BY <3>1, <3>2, <3>3
  <2>5. AfterSecond'
    BY <1>2, <1>3, <2>2, <2>3, <2>4 DEF AfterSecond, AfterFirst
  <2>6. QED
    BY <1>2, <1>3, <2>5
<1>4. CASE ~Head(chan).ok
  <2>1. counters' = counters
    BY <1>4 DEF Receive
  <2>2. AfterFirst'
    BY <1>2, <2>1 DEF AfterFirst, Seen
  <2>3. QED
    BY <1>2, <1>4, <2>2
<1>5. QED
  BY <1>3, <1>4

(* Where calcCountersDiff finds two snapshots of every database, both      *)
(* passes have counted the same ones, and it leaves their gains.           *)
LEMMA Differences ==
    ASSUME PgTypes, AfterSecond, \A d \in DOMAIN counters : ~(Len(counters[d]) < 2),
           counters' = [d \in DOMAIN counters |-> Difference(counters[d])],
           UNCHANGED passes
    PROVE  CountersComplete'
<1>1. passes[1] \in Answer /\ passes[2] \in Answer
  BY TwoPasses DEF AfterSecond
<1>2. DOMAIN passes[2].rows # {} /\ Seen(2) = DOMAIN passes[2].rows
  BY <1>1, AnswerRows DEF AfterSecond, Seen
<1>3. ASSUME NEW d \in DOMAIN counters
      PROVE  /\ d \in Seen(1) /\ d \in Seen(2)
             /\ counters[d] = <<passes[1].rows[d], passes[2].rows[d]>>
  <2>1. d \in Seen(1) => passes[1].ok /\ passes[1].rows[d] \in Int
    BY <1>1, AnswerRows DEF Seen
  <2>2. d \in Seen(2) => passes[2].rows[d] \in Int
    BY <1>1, AnswerRows DEF Seen
  <2>3. Len(Sample(1, d) \o Sample(2, d)) >= 2
    BY DEF AfterSecond
  <2>4. Sample(1, d) \in Seq(Int) /\ Sample(2, d) \in Seq(Int)
    BY <2>1, <2>2 DEF Sample
  <2> DEFINE n1 == Len(Sample(1, d))   n2 == Len(Sample(2, d))
  <2>5. /\ n1 \in {0, 1} /\ (n1 = 1 => d \in Seen(1))
        /\ n2 \in {0, 1} /\ (n2 = 1 => d \in Seen(2))
    BY <2>1, <2>2 DEF Sample
  <2>6. d \in Seen(1) /\ d \in Seen(2)
    <3>1. Len(Sample(1, d) \o Sample(2, d)) = n1 + n2
      BY <2>4, ConcatProperties
    <3>2. n1 + n2 >= 2
      BY <2>3, <3>1
    <3> HIDE DEF n1, n2
    <3>3. n1 = 1 /\ n2 = 1
      BY <2>5, <3>2
    <3>4. QED
      BY <2>5, <3>3
  <2>7. Sample(1, d) = <<passes[1].rows[d]>> /\ Sample(2, d) = <<passes[2].rows[d]>>
    BY <2>6 DEF Sample
  <2>8. counters[d] = <<passes[1].rows[d]>> \o <<passes[2].rows[d]>>
    BY <2>7 DEF AfterSecond
  <2>9. QED
    BY <2>1, <2>2, <2>6, <2>8, TwoSnapshots
<1>4. DOMAIN counters = Seen(1) \cup Seen(2) /\ DOMAIN counters # {}
  BY <1>2 DEF AfterSecond
<1>5. passes[1].ok /\ passes[2].ok /\ DOMAIN counters = DOMAIN passes[1].rows
  BY <1>3, <1>4 DEF Seen, AfterSecond
<1>6. ASSUME NEW d \in DOMAIN counters
      PROVE  Difference(counters[d])
               = <<passes[1].rows[d], passes[2].rows[d], passes[2].rows[d] - passes[1].rows[d]>>
  <2>1. passes[1].rows[d] \in Int /\ passes[2].rows[d] \in Int
    BY <1>1, <1>3, <1>5, AnswerRows DEF Seen
  <2>2. QED
    BY <1>3, <2>1, DifferenceOfTwo
<1>7. counters' = Gains
  BY <1>5, <1>6 DEF Gains
<1>8. QED
  BY <1>5, <1>7 DEF CountersComplete, Gains

(* The panic of calcCountersDiff means a failed first pass, or that the    *)
(* passes have seen different databases.                                   *)
LEMMA PanicMeansChange ==
    ASSUME PgTypes, AfterSecond, NEW d \in DOMAIN counters, Len(counters[d]) < 2
    PROVE  ~passes[1].ok \/ DOMAIN passes[1].rows # DOMAIN passes[2].rows
<1> SUFFICES ASSUME passes[1].ok, DOMAIN passes[1].rows = DOMAIN passes[2].rows PROVE FALSE
  OBVIOUS
<1>1. passes[1] \in Answer /\ passes[2] \in Answer
  BY TwoPasses DEF AfterSecond
<1>2. d \in DOMAIN passes[1].rows /\ d \in DOMAIN passes[2].rows
  BY DEF AfterSecond, Seen
<1>3. passes[1].rows[d] \in Int /\ passes[2].rows[d] \in Int
  BY <1>1, <1>2, AnswerRows DEF AfterSecond
<1>4. counters[d] = <<passes[1].rows[d]>> \o <<passes[2].rows[d]>>
  BY <1>2 DEF AfterSecond, Sample, Seen
<1>5. Len(counters[d]) = 2
  BY <1>3, <1>4, TwoSnapshots
<1>6. QED
  BY <1>5

(* What is printed has three entries for every database: with a failed     *)
(* second pass there is nothing to print, or the template dies.            *)
LEMMA PrintedIsComplete ==
    ASSUME PgTypes, Len(passes) = 2, IF passes[2].ok THEN CountersComplete ELSE AfterFirst,
           ~\E d \in DOMAIN counters : Len(counters[d]) < 3
    PROVE  CountersComplete \/ (~passes[1].ok /\ ~passes[2].ok)
<1>1. CASE passes[2].ok
  BY <1>1
<1>2. CASE ~passes[2].ok /\ passes[1].ok
  <2>1. passes[1] \in Answer
    BY TwoPasses
  <2>2. PICK d \in DOMAIN passes[1].rows : passes[1].rows[d] \in Int
    BY <1>2, <2>1, AnswerRows
  <2>3. d \in DOMAIN counters /\ counters[d] = <<passes[1].rows[d]>>
    BY <1>2, <2>2 DEF AfterFirst, Seen
  <2>4. Len(counters[d]) < 3
    <3>1. Len(<<passes[1].rows[d]>>) = 1
      OBVIOUS
    <3>2. QED
      BY <2>3, <3>1
  <2>5. QED
    BY <2>3, <2>4
<1>3. QED
  BY <1>1, <1>2

LEMMA InitGains == PgInit => GainInv
BY InitTypes DEF PgInit, GainInv

LEMMA NextGains == GainInv /\ [PgNext]_pgVars => GainInv'
<1> SUFFICES ASSUME GainInv, [PgNext]_pgVars PROVE GainInv'
  OBVIOUS
<1>0. PgTypes /\ PgTypes'
  BY NextTypes DEF GainInv
<1>1. CASE PgNew \/ FirstPass
  BY <1>0, <1>1 DEF PgNew, FirstPass, GainInv, server
<1>2. CASE WaitFirst
  <2>1. Len(passes') = 1 /\ AfterFirst' /\ pgPc' = "global"
    BY <1>0, <1>2, FirstReceived DEF WaitFirst, GainInv
  <2>2. QED
    BY <1>0, <2>1 DEF GainInv
<1>3. CASE Global
  BY <1>0, <1>3 DEF Global, GainInv, AfterFirst, Seen
<1>4. CASE WaitSecond
  <2>1. /\ Len(passes') = 2 /\ passes'[2] = Head(chan)
        /\ IF Head(chan).ok THEN AfterSecond' ELSE AfterFirst'
    BY <1>0, <1>4, SecondReceived DEF WaitSecond, GainInv
  <2>2. pgPc' = IF Head(chan).ok THEN "diff" ELSE "databases"
    BY <1>4 DEF WaitSecond
  <2>3. QED
    BY <1>0, <2>1, <2>2 DEF GainInv
<1>5. CASE Diff
  <2>1. AfterSecond /\ UNCHANGED passes
    BY <1>5 DEF Diff, GainInv
  <2>2. CASE \E d \in DOMAIN counters : Len(counters[d]) < 2
    <3>1. pgPc' = "panic"
      BY <1>5, <2>2 DEF Diff
    <3>2. ~passes[1].ok \/ DOMAIN passes[1].rows # DOMAIN passes[2].rows
      BY <1>0, <2>1, <2>2, PanicMeansChange
    <3>3. QED
      BY <1>0, <2>1, <3>1, <3>2 DEF GainInv
  <2>3. CASE ~\E d \in DOMAIN counters : Len(counters[d]) < 2
    <3>1. /\ pgPc' = "databases"
          /\ counters' = [d \in DOMAIN counters |-> Difference(counters[d])]
      BY <1>5, <2>3 DEF Diff
    <3>2. CountersComplete'
      BY <1>0, <2>1, <2>3, <3>1, Differences
    <3>3. Len(passes') = 2
      BY <2>1 DEF AfterSecond
    <3>4. QED
      BY <1>0, <3>1, <3>2, <3>3 DEF GainInv, CountersComplete
  <2>4. QED
    BY <2>2, <2>3
<1>6. CASE PerDatabase
  BY <1>0, <1>6 DEF PerDatabase, GainInv, AfterFirst, Seen, CountersComplete, Gains
<1>7. CASE PrintReport
  <2>1. /\ Len(passes) = 2 /\ IF passes[2].ok THEN CountersComplete ELSE AfterFirst
        /\ UNCHANGED <<passes, counters>>
    BY <1>7 DEF PrintReport, GainInv
  <2>2. CASE \E d \in DOMAIN counters : Len(counters[d]) < 3
    BY <1>0, <1>7, <2>2 DEF PrintReport, GainInv
  <2>3. CASE ~\E d \in DOMAIN counters : Len(counters[d]) < 3
    <3>1. CountersComplete \/ (~passes[1].ok /\ ~passes[2].ok)
      BY <1>0, <2>1, <2>3, PrintedIsComplete
    <3>2. pgPc' = "printed"
      BY <1>7, <2>3 DEF PrintReport
    <3>3. QED
      BY <1>0, <2>1, <3>1, <3>2 DEF GainInv, AfterFirst, Seen, CountersComplete, Gains
  <2>4. QED
    BY <2>2, <2>3
<1>8. CASE SecondPass \/ Work \/ UNCHANGED pgVars
  <2>1. UNCHANGED <<pgPc, counters, passes>>
    BY <1>8 DEF SecondPass, Work, pgVars, server
  <2>2. QED
    BY <1>0, <2>1 DEF GainInv, AfterFirst, AfterSecond, Seen, Sample, CountersComplete, Gains
<1>9. QED
  BY <1>1, <1>2, <1>3, <1>4, <1>5, <1>6, <1>7, <1>8 DEF PgNext, PgMain

LEMMA GainInvImplies == GainInv => CountersAreGains
<1> SUFFICES ASSUME GainInv PROVE CountersAreGains
  OBVIOUS
<1>1. pgPc = "printed" => Len(passes) = 2 /\ (CountersComplete \/ (~passes[1].ok /\ ~passes[2].ok))
  BY DEF GainInv
<1>2. pgPc = "panic" => ~passes[1].ok \/ DOMAIN passes[1].rows # DOMAIN passes[2].rows
  BY DEF GainInv
<1>3. QED
  BY <1>1, <1>2 DEF CountersAreGains, CountersComplete, Gains

(* A printed report gives the gains between the passes, for every          *)
(* database, and the panic has one of the two causes (pginfo.go:278-315).  *)
THEOREM PrintedCountersAreGains == PgSpec => []CountersAreGains
<1>1. QED
  BY InitGains, NextGains, GainInvImplies, PTL DEF PgSpec

----------------------------------------------------------------------------
(* The profiler reader: types *)

GetDocsPoints == {"unborn", "next", "lookup", "count", "lists", "flush", "send", "reset",
                  "stop", "signal", "wait", "returned"}

GetDataPoints == {"unborn", "add", "enter", "parked", "flush", "send", "reset", "close",
                  "done"}

Entry == [count : SUBSET Nat, lists : SUBSET Nat]

ReaderTypeOK ==
    /\ pc \in [Goroutines -> GetDocsPoints \cup GetDataPoints \cup {"start", "read"}]
    /\ pc["getDocs"] \in GetDocsPoints
    /\ pc["getData"] \in GetDataPoints
    /\ cursor \in Nat \ {0}
    /\ entry \in Entry
    /\ generation \in Nat
    /\ adding \in Nat
    /\ flushing \in [Flushers -> Entry]
    /\ received \in Seq(Entry)
    /\ ticks \in Nat

LEMMA GoroutineFacts ==
    /\ "main" \in Goroutines /\ "getData" \in Goroutines /\ "getDocs" \in Goroutines
    /\ "getDocs" \in Callers /\ "main" \notin Callers /\ "getData" \notin Callers
    /\ Callers \subseteq Goroutines /\ Flushers \subseteq Goroutines
    /\ Flushers = {"getData", "getDocs"}
    /\ Wanted \subseteq Nat \ {0}
  BY ProfilerAssumption DEF Goroutines, Callers, Flushers

LEMMA AppendFlush ==
    ASSUME NEW q \in Seq(Entry), NEW x \in Entry
    PROVE  /\ Append(q, x) \in Seq(Entry)
           /\ DOMAIN Append(q, x) = DOMAIN q \cup {Len(q) + 1}
           /\ \A i \in DOMAIN q : Append(q, x)[i] = q[i]
           /\ Append(q, x)[Len(q) + 1] = x
  OBVIOUS

\* The steps of Stop move their caller and, if it is parked, getData.
LEMMA StopMoves ==
    ASSUME ReaderTypeOK, NEW c \in Callers, Stop(c)
    PROVE  /\ pc'["getDocs"] \in {pc["getDocs"], "signal", "wait", "returned"}
           /\ pc'["getDocs"] # pc["getDocs"] => pc["getDocs"] \in {"stop", "signal", "wait"}
           /\ pc'["getData"] \in {pc["getData"], "close"}
           /\ pc' \in [Goroutines -> GetDocsPoints \cup GetDataPoints \cup {"start", "read"}]
           /\ UNCHANGED <<statsVars, flushVars>>
<1>1. CASE StopLocks(c)
  BY <1>1, GoroutineFacts DEF StopLocks, Goto, ReaderTypeOK, GetDocsPoints
<1>2. CASE Signal(c)
  <2>1. /\ pc'["getDocs"] \in {pc["getDocs"], "wait"}
        /\ pc'["getDocs"] # pc["getDocs"] => pc["getDocs"] = "signal"
    BY <1>2, GoroutineFacts DEF Signal, ReaderTypeOK
  <2>2. pc'["getData"] \in {pc["getData"], "close"}
    BY <1>2, GoroutineFacts DEF Signal, ReaderTypeOK
  <2>3. pc' \in [Goroutines -> GetDocsPoints \cup GetDataPoints \cup {"start", "read"}]
    BY <1>2, GoroutineFacts DEF Signal, ReaderTypeOK, GetDocsPoints, GetDataPoints
  <2>4. QED
    BY <1>2, <2>1, <2>2, <2>3 DEF Signal
<1>3. CASE StopReturns(c)
  BY <1>3, GoroutineFacts DEF StopReturns, Goto, ReaderTypeOK, GetDocsPoints
<1>4. QED
  BY <1>1, <1>2, <1>3 DEF Stop

(* The state keeps its types, and each goroutine its own program points.   *)
THEOREM ReaderTypeCorrect == ReaderSpec => []ReaderTypeOK
<1>1. ReaderInit => ReaderTypeOK
  BY GoroutineFacts
     DEF ReaderInit, ReaderTypeOK, Empty, Entry, GetDocsPoints, GetDataPoints, Goroutines,
         Callers
<1>2. ReaderTypeOK /\ [ReaderNext]_readerVars => ReaderTypeOK'
  <2> SUFFICES ASSUME ReaderTypeOK, [ReaderNext]_readerVars PROVE ReaderTypeOK'
    OBVIOUS
  <2> USE GoroutineFacts DEF GetDocsPoints, GetDataPoints
  <2>1. CASE Start
    BY <2>1 DEF Start, ReaderTypeOK, statsVars, flushVars
  <2>2. CASE GetData
    BY <2>2 DEF GetData, Park, SpawnGetDocs, AddToWaitGroup, CloseCursor, Goto,
                ReaderTypeOK, statsVars, flushVars
  <2>3. CASE Tick
    BY <2>3 DEF Tick, Goto, ReaderTypeOK, statsVars
  <2>4. CASE NextDoc \/ NoMoreDocs \/ Lookup
    BY <2>4 DEF NextDoc, NoMoreDocs, Lookup, Goto, ReaderTypeOK, statsVars, flushVars
  <2>5. CASE Count \/ AppendLists
    <3>1. entry' \in Entry
      BY <2>5 DEF Count, AppendLists, ReaderTypeOK, Entry
    <3>2. QED
      BY <2>5, <3>1 DEF Count, AppendLists, Goto, ReaderTypeOK, flushVars
  <2>6. ASSUME NEW g \in Flushers, Snapshot(g) PROVE ReaderTypeOK'
    BY <2>6 DEF Snapshot, Goto, ReaderTypeOK, statsVars
  <2>7. ASSUME NEW g \in Flushers, Deliver(g) PROVE ReaderTypeOK'
    <3>1. received' \in Seq(Entry)
      BY <2>7, AppendFlush DEF Deliver, ReaderTypeOK
    <3>2. QED
      BY <2>7, <3>1 DEF Deliver, Goto, ReaderTypeOK, statsVars
  <2>8. ASSUME NEW g \in Flushers, Reset(g) PROVE ReaderTypeOK'
    <3>1. Empty \in Entry
      BY DEF Empty, Entry
    <3>2. QED
      BY <2>8, <3>1 DEF Reset, Goto, ReaderTypeOK, flushVars
  <2>9. ASSUME NEW c \in Callers, Stop(c) PROVE ReaderTypeOK'
    BY <2>9, StopMoves DEF ReaderTypeOK, statsVars, flushVars
  <2>10. CASE UNCHANGED readerVars
    BY <2>10 DEF readerVars, ReaderTypeOK
  <2>11. QED
    BY <2>1, <2>2, <2>3, <2>4, <2>5, <2>6, <2>7, <2>8, <2>9, <2>10
       DEF ReaderNext, GetDocs, Flush
<1>3. QED
  BY <1>1, <1>2, PTL DEF ReaderSpec

----------------------------------------------------------------------------
(* A flush counts what it lists *)

\* While Add holds an entry that no Reset has dropped, it has counted the
\* document that it is about to append.
CoverInv ==
    /\ entry.lists \subseteq entry.count
    /\ adding <= generation
    /\ pc["getDocs"] = "lists" /\ adding = generation => cursor - 1 \in entry.count
    /\ \A g \in Flushers : flushing[g].lists \subseteq flushing[g].count
    /\ CountCoversLists

LEMMA NextKeepsCoverInv == ReaderTypeOK /\ CoverInv /\ [ReaderNext]_readerVars => CoverInv'
<1> SUFFICES ASSUME ReaderTypeOK, CoverInv, [ReaderNext]_readerVars PROVE CoverInv'
  OBVIOUS
<1> USE GoroutineFacts
<1>1. ASSUME UNCHANGED <<entry, cursor, generation, adding, flushing, received>>,
             pc'["getDocs"] # pc["getDocs"] => pc'["getDocs"] # "lists"
      PROVE  CoverInv'
  BY <1>1 DEF CoverInv, CountCoversLists
<1>2. CASE Start \/ GetData \/ Tick \/ UNCHANGED readerVars
  BY <1>1, <1>2 DEF Start, GetData, Park, SpawnGetDocs, AddToWaitGroup, CloseCursor, Tick,
       Goto, ReaderTypeOK, statsVars, flushVars, readerVars
<1>3. CASE NextDoc \/ NoMoreDocs
  BY <1>3 DEF NextDoc, NoMoreDocs, Goto, CoverInv, CountCoversLists, ReaderTypeOK,
              statsVars, flushVars
<1>4. CASE Lookup
  BY <1>4 DEF Lookup, Goto, CoverInv, CountCoversLists, ReaderTypeOK, flushVars
<1>5. CASE Count
  <2>1. /\ entry'.lists \subseteq entry'.count
        /\ adding = generation => cursor - 1 \in entry'.count
    BY <1>5 DEF Count, CoverInv, ReaderTypeOK, Entry
  <2>2. QED
    BY <1>5, <2>1 DEF Count, CoverInv, CountCoversLists, flushVars
<1>6. CASE AppendLists
  <2>1. entry'.lists \subseteq entry'.count
    BY <1>6 DEF AppendLists, CoverInv, ReaderTypeOK, Entry
  <2>2. pc'["getDocs"] # "lists"
    BY <1>6 DEF AppendLists, Goto, ReaderTypeOK
  <2>3. QED
    BY <1>6, <2>1, <2>2 DEF AppendLists, CoverInv, CountCoversLists, flushVars
<1>7. ASSUME NEW g \in Flushers, Snapshot(g) PROVE CoverInv'
  <2>1. pc'["getDocs"] = "lists" => pc["getDocs"] = "lists"
    BY <1>7 DEF Snapshot, Goto, ReaderTypeOK
  <2>2. \A f \in Flushers : flushing'[f] \in {flushing[f], entry}
    BY <1>7 DEF Snapshot, ReaderTypeOK
  <2>3. QED
    BY <1>7, <2>1, <2>2 DEF Snapshot, CoverInv, CountCoversLists, statsVars
<1>8. ASSUME NEW g \in Flushers, Deliver(g) PROVE CoverInv'
  <2>1. pc'["getDocs"] = "lists" => pc["getDocs"] = "lists"
    BY <1>8 DEF Deliver, Goto, ReaderTypeOK
  <2>2. CountCoversLists'
    <3>1. flushing[g] \in Entry /\ received \in Seq(Entry)
      BY DEF ReaderTypeOK
    <3>2. received' = Append(received, flushing[g])
      BY <1>8 DEF Deliver
    <3>3. QED
      BY <3>1, <3>2, AppendFlush DEF CoverInv, CountCoversLists
  <2>3. QED
    BY <1>8, <2>1, <2>2 DEF Deliver, CoverInv, statsVars
\* The entry is empty, and newer than any that Add may hold.
<1>9. ASSUME NEW g \in Flushers, Reset(g) PROVE CoverInv'
  <2>1. pc'["getDocs"] = "lists" => pc["getDocs"] = "lists"
    BY <1>9 DEF Reset, Goto, ReaderTypeOK
  <2>2. adding' <= generation' /\ adding' # generation'
    BY <1>9 DEF Reset, CoverInv, ReaderTypeOK
  <2>3. entry'.lists \subseteq entry'.count
    BY <1>9 DEF Reset, Empty
  <2>4. QED
    BY <1>9, <2>1, <2>2, <2>3 DEF Reset, CoverInv, CountCoversLists, flushVars
<1>10. ASSUME NEW c \in Callers, Stop(c) PROVE CoverInv'
  BY <1>1, <1>10, StopMoves DEF statsVars, flushVars
<1>11. QED
  BY <1>2, <1>3, <1>4, <1>5, <1>6, <1>7, <1>8, <1>9, <1>10 DEF ReaderNext, GetDocs, Flush

(* However ticks and Stop interleave with Add, no flush lists a document   *)
(* that it does not count.                                                 *)
THEOREM FlushesCountWhatTheyList == ReaderSpec => []CountCoversLists
<1>1. ReaderInit => CoverInv
  BY GoroutineFacts DEF ReaderInit, CoverInv, CountCoversLists, Empty
<1>2. CoverInv => CountCoversLists
  BY DEF CoverInv
<1>3. QED
  BY <1>1, <1>2, NextKeepsCoverInv, ReaderTypeCorrect, PTL DEF ReaderSpec

----------------------------------------------------------------------------
(* Without a tick, the one flush is complete *)

Complete == [count |-> Added, lists |-> Added]

\* The points of getDocs at which nothing has been reset yet, and those after
\* its flush was received.
Filling == {"unborn", "next", "lookup", "count", "lists", "flush", "send", "reset"}
Flushed == {"reset", "stop", "signal", "wait", "returned"}

CompleteInv ==
    ticks = 0 =>
      LET p == pc["getDocs"] IN
      /\ pc["getData"] \notin {"flush", "send", "reset"}
      /\ p = "unborn" => cursor = 1
      /\ p \in Filling => generation = 0 /\ adding = 0
      /\ p \in Filling \ {"lists"} => entry = Complete
      /\ p \in {"lookup", "count", "lists"} => cursor - 1 \in Wanted
      /\ p = "lists" => entry = [Complete EXCEPT !.count = @ \cup {cursor - 1}]
      /\ p \in {"send", "reset"} => flushing["getDocs"] = Complete
      /\ received = IF p \in Flushed THEN <<Complete>> ELSE << >>

LEMMA NextKeepsCompleteInv ==
    ReaderTypeOK /\ CompleteInv /\ [ReaderNext]_readerVars => CompleteInv'
<1> SUFFICES ASSUME ReaderTypeOK, CompleteInv, [ReaderNext]_readerVars, ticks' = 0
             PROVE  CompleteInv'
  BY DEF CompleteInv
<1> USE GoroutineFacts DEF Filling, Flushed
<1>0. ticks = 0
  BY DEF ReaderNext, Start, GetData, Park, SpawnGetDocs, AddToWaitGroup, CloseCursor, Tick,
         GetDocs, NextDoc, NoMoreDocs, Lookup, Count, AppendLists, Flush, Snapshot, Deliver,
         Reset, Stop, StopLocks, Signal, StopReturns, flushVars, readerVars, ReaderTypeOK
<1>1. ASSUME UNCHANGED <<entry, cursor, generation, adding, flushing, received>>,
             UNCHANGED pc["getDocs"],
             pc'["getData"] \notin {"flush", "send", "reset"}
      PROVE  CompleteInv'
  BY <1>0, <1>1 DEF CompleteInv, Complete, Added
<1>2. CASE Start \/ GetData \/ UNCHANGED readerVars
  <2>1. pc["getDocs"] = pc'["getDocs"] \/ SpawnGetDocs
    BY <1>2 DEF Start, GetData, Park, AddToWaitGroup, CloseCursor, Goto, ReaderTypeOK,
                readerVars
  <2>2. pc'["getData"] \notin {"flush", "send", "reset"}
    BY <1>0, <1>2 DEF Start, GetData, Park, SpawnGetDocs, AddToWaitGroup, CloseCursor, Goto,
                ReaderTypeOK, readerVars, CompleteInv
  <2>3. UNCHANGED <<entry, cursor, generation, adding, flushing, received>>
    BY <1>2 DEF Start, GetData, Park, SpawnGetDocs, AddToWaitGroup, CloseCursor, statsVars,
                flushVars, readerVars
  <2>4. CASE SpawnGetDocs
    <3>1. pc["getDocs"] = "unborn" /\ pc'["getDocs"] = "next"
      BY <2>4 DEF SpawnGetDocs, Goto, ReaderTypeOK
    <3>2. Added' = Added
      BY <2>3, <3>1 DEF Added
    <3>3. QED
      BY <1>0, <2>2, <2>3, <3>1, <3>2 DEF CompleteInv, Complete
  <2>5. QED
    BY <1>1, <2>1, <2>2, <2>3, <2>4
<1>3. CASE Tick
  BY <1>0, <1>3 DEF Tick, ReaderTypeOK
<1>4. CASE GetDocs
  <2>1. pc'["getData"] = pc["getData"] /\ UNCHANGED flushVars
    BY <1>4 DEF GetDocs, NextDoc, NoMoreDocs, Lookup, Count, AppendLists, Goto, ReaderTypeOK
  <2>2. CASE NextDoc
    <3>1. /\ pc["getDocs"] = "next" /\ UNCHANGED <<entry, generation, adding>>
          /\ \/ pc'["getDocs"] = "flush" /\ cursor' = cursor
             \/ pc'["getDocs"] = "lookup" /\ cursor \in Wanted /\ cursor' = cursor + 1
             \/ pc'["getDocs"] = "next" /\ cursor \notin Wanted /\ cursor' = cursor + 1
      BY <2>2 DEF NextDoc, Goto, ReaderTypeOK
    <3>2. Added' = Added
      <4>1. \A d \in Wanted : d \in Nat /\ cursor \in Nat
        BY DEF ReaderTypeOK
      <4>2. cursor \notin Wanted => \A d \in Wanted : d < cursor + 1 <=> d < cursor
        BY <4>1
      <4>3. (cursor + 1) - 1 = cursor
        BY DEF ReaderTypeOK
      <4>4. QED
        BY <3>1, <4>2, <4>3 DEF Added
    <3>3. pc'["getDocs"] = "lookup" => cursor' - 1 \in Wanted
      BY <3>1 DEF ReaderTypeOK
    <3>4. QED
      BY <1>0, <2>1, <3>1, <3>2, <3>3 DEF CompleteInv, Complete, flushVars
  <2>3. CASE NoMoreDocs
    <3>1. pc["getDocs"] = "next" /\ pc'["getDocs"] = "flush" /\ UNCHANGED statsVars
      BY <2>3 DEF NoMoreDocs, Goto, ReaderTypeOK
    <3>2. Added' = Added
      BY <3>1 DEF Added, statsVars
    <3>3. QED
      BY <1>0, <2>1, <3>1, <3>2 DEF CompleteInv, Complete, flushVars, statsVars
  <2>4. CASE Lookup
    <3>1. /\ pc["getDocs"] = "lookup" /\ pc'["getDocs"] = "count"
          /\ adding' = generation /\ UNCHANGED <<cursor, entry, generation>>
      BY <2>4 DEF Lookup, Goto, ReaderTypeOK
    <3>2. Added' = Added
      BY <3>1 DEF Added
    <3>3. QED
      BY <1>0, <2>1, <3>1, <3>2 DEF CompleteInv, Complete, flushVars
  <2>5. CASE Count
    <3>1. /\ pc["getDocs"] = "count" /\ pc'["getDocs"] = "lists"
          /\ UNCHANGED <<cursor, adding, generation>>
      BY <2>5 DEF Count, Goto, ReaderTypeOK
    <3>2. Added' = Added
      BY <3>1 DEF Added
    <3>3. entry = Complete /\ adding = generation
      BY <1>0, <3>1 DEF CompleteInv
    <3>4. entry' = [Complete EXCEPT !.count = @ \cup {cursor - 1}]
      BY <2>5, <3>3 DEF Count
    <3>5. QED
      BY <1>0, <2>1, <3>1, <3>2, <3>4 DEF CompleteInv, Complete, flushVars
  <2>6. CASE AppendLists
    <3>1. /\ pc["getDocs"] = "lists" /\ pc'["getDocs"] = "next"
          /\ UNCHANGED <<cursor, adding, generation>>
      BY <2>6 DEF AppendLists, Goto, ReaderTypeOK
    <3>2. /\ entry = [Complete EXCEPT !.count = @ \cup {cursor - 1}]
          /\ adding = generation /\ cursor - 1 \in Wanted
      BY <1>0, <3>1 DEF CompleteInv
    <3>3. Added' = Added \cup {cursor - 1}
      BY <3>1, <3>2 DEF Added, ReaderTypeOK
    <3>4. entry' = Complete'
      BY <2>6, <3>2, <3>3 DEF AppendLists, Complete
    <3>5. QED
      BY <1>0, <2>1, <3>1, <3>4 DEF CompleteInv, flushVars
  <2>7. QED
    BY <1>4, <2>2, <2>3, <2>4, <2>5, <2>6 DEF GetDocs
\* getData has nothing to flush; getDocs flushes once.
<1>5. ASSUME NEW g \in Flushers, Flush(g) PROVE CompleteInv'
  <2>1. g = "getDocs"
    BY <1>0, <1>5 DEF Flush, Snapshot, Deliver, Reset, CompleteInv
  <2>2. pc'["getData"] = pc["getData"]
    BY <1>5, <2>1 DEF Flush, Snapshot, Deliver, Reset, Goto, ReaderTypeOK
  <2>3. /\ pc["getDocs"] \in {"flush", "send", "reset"}
        /\ pc'["getDocs"] \in {"send", "reset", "stop"}
        /\ UNCHANGED <<cursor, adding>>
    BY <1>5, <2>1 DEF Flush, Snapshot, Deliver, Reset, Goto, ReaderTypeOK, statsVars
  <2>4. Complete' = Complete
    BY <2>3 DEF Complete, Added
  <2>5. CASE Snapshot(g)
    <3>1. /\ pc["getDocs"] = "flush" /\ pc'["getDocs"] = "send"
          /\ UNCHANGED <<entry, generation, received>>
          /\ flushing'["getDocs"] = entry
      BY <2>1, <2>5 DEF Snapshot, Goto, ReaderTypeOK, statsVars
    <3>2. QED
      BY <1>0, <2>2, <2>3, <2>4, <3>1 DEF CompleteInv
  <2>6. CASE Deliver(g)
    <3>1. /\ pc["getDocs"] = "send" /\ pc'["getDocs"] = "reset"
          /\ UNCHANGED <<entry, generation, flushing>>
          /\ received' = Append(received, flushing["getDocs"])
      BY <2>1, <2>6 DEF Deliver, Goto, ReaderTypeOK, statsVars
    <3>2. received = << >> /\ flushing["getDocs"] = Complete
      BY <1>0, <3>1 DEF CompleteInv
    <3>3. received' = <<Complete>>
      BY <3>1, <3>2
    <3>4. QED
      BY <1>0, <2>2, <2>3, <2>4, <3>1, <3>3 DEF CompleteInv
  <2>7. CASE Reset(g)
    <3>1. /\ pc["getDocs"] = "reset" /\ pc'["getDocs"] = "stop"
          /\ UNCHANGED received
      BY <2>1, <2>7 DEF Reset, Goto, ReaderTypeOK, flushVars
    <3>2. QED
      BY <1>0, <2>2, <2>4, <3>1 DEF CompleteInv
  <2>8. QED
    BY <1>5, <2>5, <2>6, <2>7 DEF Flush
<1>6. ASSUME NEW c \in Callers, Stop(c) PROVE CompleteInv'
  <2>1. /\ UNCHANGED <<statsVars, flushVars>>
        /\ pc'["getData"] \in {pc["getData"], "close"}
        /\ \/ pc'["getDocs"] = pc["getDocs"]
           \/ /\ pc["getDocs"] \in {"stop", "signal", "wait"}
              /\ pc'["getDocs"] \in {"signal", "wait", "returned"}
    BY <1>6, StopMoves
  <2>2. CASE pc'["getDocs"] = pc["getDocs"]
    BY <1>0, <1>1, <2>1, <2>2 DEF statsVars, flushVars, CompleteInv
  <2>3. CASE pc'["getDocs"] # pc["getDocs"]
    <3>1. Complete' = Complete
      BY <2>1, <2>3 DEF Complete, Added, statsVars
    <3>2. QED
      BY <1>0, <2>1, <2>3, <3>1 DEF CompleteInv, flushVars
  <2>4. QED
    BY <2>2, <2>3
<1>7. QED
  BY <1>2, <1>3, <1>4, <1>5, <1>6 DEF ReaderNext

(* Until the ticker first fires, main receives at most one flush, and it   *)
(* holds every document that getDocs read, counted and listed, whoever     *)
(* calls Stop and whenever.                                                *)
THEOREM FlushedOnceComplete == ReaderSpec => []FlushIsComplete
<1>1. ReaderInit => CompleteInv
  <2> SUFFICES ASSUME ReaderInit PROVE CompleteInv
    OBVIOUS
  <2>1. pc["getDocs"] = "unborn" /\ pc["getData"] = "unborn" /\ cursor = 1
    BY GoroutineFacts, ProfilerAssumption DEF ReaderInit, Goroutines, Callers
  <2>2. Added = {}
    <3>1. \A d \in Wanted : d \in Nat \ {0}
      BY GoroutineFacts
    <3>2. \A d \in Wanted : ~(d < 1)
      BY <3>1
    <3>3. QED
      BY <2>1, <3>2 DEF Added
  <2>3. QED
    BY <2>1, <2>2 DEF ReaderInit, CompleteInv, Complete, Empty, Filling, Flushed
<1>2. CompleteInv => FlushIsComplete
  BY DEF CompleteInv, FlushIsComplete, Complete
<1>3. QED
  BY <1>1, <1>2, NextKeepsCompleteInv, ReaderTypeCorrect, PTL DEF ReaderSpec

=============================================================================
