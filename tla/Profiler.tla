------------------------------- MODULE Profiler -------------------------------
(***************************************************************************)
(* The MongoDB profiler reader of percona-toolkit: profiler.go and the     *)
(* statistics it fills (stats.go), as pt-mongodb-query-digest drives them. *)
(*                                                                         *)
(* Start spawns the goroutine getData, which spawns getDocs.  getDocs      *)
(* reads documents from a cursor and adds them to the statistics; at the   *)
(* end it flushes them to queriesChan and calls Stop.  getData flushes on  *)
(* every tick and closes the cursor when it receives the stop signal.  The *)
(* main goroutine starts the profiler and reads queriesChan; others may    *)
(* call Stop.  queriesChan and stopChan are unbuffered.                    *)
(*                                                                         *)
(* All documents have the same fingerprint.  Its entry in the statistics   *)
(* is the pair of the documents that Count has counted and of those in the *)
(* lists (QueryTime, NReturned, ...).                                      *)
(***************************************************************************)
EXTENDS Naturals, Sequences, FiniteSets

CONSTANTS
    Docs,      \* number of documents in system.profile
    Wanted,    \* those that every filter lets through
    Ticks,     \* bound: ticks of the ticker; 0 is the nil ticker
    Reads,     \* bound: flushes the main goroutine reads
    Stoppers   \* goroutines that call Stop

ASSUME ProfilerAssumption ==
    /\ Docs \in Nat /\ Ticks \in Nat /\ Reads \in Nat
    /\ Wanted \subseteq 1 .. Docs
    /\ {"none", "main", "getData", "getDocs"} \cap Stoppers = {}

VARIABLES
    isRunning,     \* the field of Profile
    lock,        \* who holds Profile.lock, or "none"
    wg,          \* counter of stopWaitGroup
    open,        \* the cursor has not been closed
    cursor,      \* the next document of the cursor
    entry,       \* the statistics entry
    generation,  \* how many times Reset has replaced the statistics
    adding,      \* the generation of the entry that Add is working on
    flushing,    \* flushing[g]: what goroutine g is sending to queriesChan
    received,    \* the flushes main has read
    ticks,       \* ticks so far
    pc           \* pc[g]: the next step of goroutine g

readerVars == <<isRunning, lock, wg, open, cursor, entry, generation, adding, flushing,
          received, ticks, pc>>

Flushers == {"getData", "getDocs"}
Callers == Stoppers \cup {"getDocs"}
Goroutines == Callers \cup {"main", "getData"}

Empty == [count |-> {}, lists |-> {}]

ReaderInit ==
    /\ isRunning = FALSE
    /\ lock = "none"
    /\ wg = 0
    /\ open = TRUE
    /\ cursor = 1
    /\ entry = Empty
    /\ generation = 0
    /\ adding = 0
    /\ flushing = [g \in Flushers |-> Empty]
    /\ received = << >>
    /\ ticks = 0
    /\ pc = [g \in Goroutines |-> CASE g = "main" -> "start"
                                    [] g \in Stoppers -> "stop"
                                    [] OTHER -> "unborn"]

Goto(g, point) == pc' = [pc EXCEPT ![g] = point]

profileVars == <<isRunning, lock, wg, open>>
statsVars == <<cursor, entry, generation, adding>>
flushVars == <<flushing, received, ticks>>

----------------------------------------------------------------------------
(* Start *)

Start ==
    /\ pc["main"] = "start"
    /\ lock = "none"
    /\ isRunning' = TRUE
    /\ pc' = [pc EXCEPT !["main"] = "read", !["getData"] = "add"]
    /\ UNCHANGED <<lock, wg, open, statsVars, flushVars>>

\* go getDocs comes before stopWaitGroup.Add(1).
SpawnGetDocs ==
    /\ pc["getData"] = "add"
    /\ pc["getDocs"] = "unborn"
    /\ Goto("getDocs", "next")
    /\ UNCHANGED <<profileVars, statsVars, flushVars>>

AddToWaitGroup ==
    /\ pc["getData"] = "add"
    /\ pc["getDocs"] # "unborn"
    /\ wg' = 1
    /\ Goto("getData", "enter")
    /\ UNCHANGED <<isRunning, lock, open, statsVars, flushVars>>

----------------------------------------------------------------------------
(* FlushQueries: snapshot, send, Reset, in either goroutine *)

Snapshot(g) ==
    /\ pc[g] = "flush"
    /\ flushing' = [flushing EXCEPT ![g] = entry]
    /\ Goto(g, "send")
    /\ UNCHANGED <<profileVars, statsVars, received, ticks>>

Deliver(g) ==
    /\ pc[g] = "send"
    /\ pc["main"] = "read"
    /\ Len(received) < Reads
    /\ received' = Append(received, flushing[g])
    /\ Goto(g, "reset")
    /\ UNCHANGED <<profileVars, statsVars, flushing, ticks>>

\* Mutant of Reset: getDocs goes back to reading and never calls Stop.
ResetAndRead(g) ==
    /\ pc[g] = "reset"
    /\ entry' = Empty
    /\ generation' = generation + 1
    /\ Goto(g, IF g = "getData" THEN "enter" ELSE "next")
    /\ UNCHANGED <<profileVars, cursor, adding, flushVars>>

Reset(g) ==
    /\ pc[g] = "reset"
    /\ entry' = Empty
    /\ generation' = generation + 1
    /\ Goto(g, IF g = "getData" THEN "enter" ELSE "stop")
    /\ UNCHANGED <<profileVars, cursor, adding, flushVars>>

----------------------------------------------------------------------------
(* getData *)

Park ==
    /\ pc["getData"] = "enter"
    /\ Goto("getData", "parked")
    /\ UNCHANGED <<profileVars, statsVars, flushVars>>

Tick ==
    /\ pc["getData"] \in {"enter", "parked"}
    /\ ticks < Ticks
    /\ ticks' = ticks + 1
    /\ Goto("getData", "flush")
    /\ UNCHANGED <<profileVars, statsVars, flushing, received>>

\* Mutant of CloseCursor: the deferred Done is missing.
CloseWithoutDone ==
    /\ pc["getData"] = "close"
    /\ open' = FALSE
    /\ Goto("getData", "done")
    /\ UNCHANGED <<isRunning, lock, wg, statsVars, flushVars>>

\* Close the cursor and return; the deferred Done.
CloseCursor ==
    /\ pc["getData"] = "close"
    /\ open' = FALSE
    /\ wg' = 0
    /\ Goto("getData", "done")
    /\ UNCHANGED <<isRunning, lock, statsVars, flushVars>>

----------------------------------------------------------------------------
(* getDocs *)

\* A document that cannot be decoded ends the loop and counts as cursor.
NextDoc ==
    /\ pc["getDocs"] = "next"
    /\ open
    /\ cursor <= Docs
    /\ \/ /\ Goto("getDocs", "flush")
          /\ UNCHANGED cursor
       \/ /\ Goto("getDocs", IF cursor \in Wanted THEN "lookup" ELSE "next")
          /\ cursor' = cursor + 1
    /\ UNCHANGED <<profileVars, entry, generation, adding, flushVars>>

\* Mutant of NoMoreDocs: the loop ends without the deferred FlushQueries.
NoFinalFlush ==
    /\ pc["getDocs"] = "next"
    /\ ~open \/ cursor > Docs
    /\ Goto("getDocs", "stop")
    /\ UNCHANGED <<profileVars, statsVars, flushVars>>

NoMoreDocs ==
    /\ pc["getDocs"] = "next"
    /\ ~open \/ cursor > Docs
    /\ Goto("getDocs", "flush")
    /\ UNCHANGED <<profileVars, statsVars, flushVars>>

\* Stats.Add takes the entry out of the map, or puts a new one in, under the
\* lock; it then works on that entry, whether or not Reset drops the map.
Lookup ==
    /\ pc["getDocs"] = "lookup"
    /\ adding' = generation
    /\ Goto("getDocs", "count")
    /\ UNCHANGED <<profileVars, cursor, entry, generation, flushVars>>

\* qiac.Count++, without the lock.
Count ==
    /\ pc["getDocs"] = "count"
    /\ entry' = IF adding = generation
                THEN [entry EXCEPT !.count = @ \cup {cursor - 1}] ELSE entry
    /\ Goto("getDocs", "lists")
    /\ UNCHANGED <<profileVars, cursor, generation, adding, flushVars>>

\* Mutant of AppendLists: the entry is looked up a second time.
AppendToCurrent ==
    /\ pc["getDocs"] = "lists"
    /\ entry' = [entry EXCEPT !.lists = @ \cup {cursor - 1}]
    /\ Goto("getDocs", "next")
    /\ UNCHANGED <<profileVars, cursor, generation, adding, flushVars>>

\* The appends to the lists, under the lock.
AppendLists ==
    /\ pc["getDocs"] = "lists"
    /\ entry' = IF adding = generation
                THEN [entry EXCEPT !.lists = @ \cup {cursor - 1}] ELSE entry
    /\ Goto("getDocs", "next")
    /\ UNCHANGED <<profileVars, cursor, generation, adding, flushVars>>

----------------------------------------------------------------------------
(* Stop, called by getDocs when it ends and by any Stopper *)

StopLocks(c) ==
    /\ pc[c] = "stop"
    /\ lock = "none"
    /\ IF isRunning THEN lock' = c /\ Goto(c, "signal")
                  ELSE lock' = lock /\ Goto(c, "returned")
    /\ UNCHANGED <<isRunning, wg, open, statsVars, flushVars>>

\* select with a default: the signal arrives only if getData is waiting in its
\* own select.
Signal(c) ==
    /\ pc[c] = "signal"
    /\ pc' = [pc EXCEPT ![c] = "wait",
                        !["getData"] = IF @ = "parked" THEN "close" ELSE @]
    /\ UNCHANGED <<profileVars, statsVars, flushVars>>

StopReturns(c) ==
    /\ pc[c] = "wait"
    /\ wg = 0
    /\ lock' = "none"
    /\ Goto(c, "returned")
    /\ UNCHANGED <<isRunning, wg, open, statsVars, flushVars>>

----------------------------------------------------------------------------
GetData == Park \/ SpawnGetDocs \/ AddToWaitGroup \/ CloseCursor

GetDocs == NextDoc \/ NoMoreDocs \/ Lookup \/ Count \/ AppendLists

Flush(g) == Snapshot(g) \/ Deliver(g) \/ Reset(g)

Stop(c) == StopLocks(c) \/ Signal(c) \/ StopReturns(c)

ReaderNext ==
    \/ Start
    \/ GetData
    \/ Tick
    \/ GetDocs
    \/ \E g \in Flushers : Flush(g)
    \/ \E c \in Callers : Stop(c)

\* Goroutines that can run do run.  No tick is owed.
ReaderFairness ==
    /\ WF_readerVars(Start)
    /\ WF_readerVars(GetData)
    /\ WF_readerVars(GetDocs)
    /\ \A g \in Flushers : WF_readerVars(Flush(g))
    /\ \A c \in Callers : WF_readerVars(Stop(c))

ReaderSpec == ReaderInit /\ [][ReaderNext]_readerVars /\ ReaderFairness

----------------------------------------------------------------------------
\* What Add has finished with.
Added ==
    LET last == IF pc["getDocs"] \in {"lookup", "count", "lists"} THEN cursor - 1
                                                                 ELSE cursor
    IN  {d \in Wanted : d < last}

\* Until a ticker first fires, whoever calls Stop and whenever, what main receives
\* is the statistics of every document that getDocs read, each counted once and
\* present in every list: nothing is flushed early or reset before it is sent.
FlushIsComplete ==
    ticks = 0 => received \in {<< >>, <<[count |-> Added, lists |-> Added]>>}

\* With ticks the flushes race with Add, but a flush never lists a document that
\* it does not count: Add works on one entry, and counts first.
CountCoversLists ==
    \A i \in DOMAIN received : received[i].lists \subseteq received[i].count

\* Once the profiler was started, the main goroutine gets a flush, whatever Stop
\* does meanwhile.
DigestIsDelivered == pc["main"] = "read" ~> received # << >>

\* Once the signal was received and the cursor is closed, every Stop that is
\* under way or still to come returns.
StopReturnsOnceClosed ==
    \A c \in Callers :
        (~open /\ pc[c] \in {"stop", "signal", "wait"}) ~> (pc[c] = "returned")

\* mongolib/profiler/profiler.go:110 - "Wait for getData to receive the stop
\* signal": whoever signals, getData receives a signal and ends.
StopIsReceived ==
    \A c \in Callers : pc[c] = "signal" ~> pc["getData"] = "done"
=============================================================================
