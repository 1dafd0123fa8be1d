-------------------------- MODULE HaproxyDetector --------------------------
(***************************************************************************)
(* HAProxy's failure detector for one backend server of                    *)
(* config/haproxy.cfg, in discrete time.  One tick is one second; a health *)
(* check runs every Inter ticks.  The server may freeze and thaw at any    *)
(* moment: that is what "docker pause" and "docker unpause" do to it in    *)
(* scripts/06-failover.sh, and a crash and a restart look the same to a    *)
(* check.                                                                  *)
(*                                                                         *)
(* A check is one step and its result is known at once, as it is when a    *)
(* crashed server's port refuses the connection.  The check of a frozen    *)
(* server has to time out first; that wait is left out, and the bounds     *)
(* below count from check to check.                                        *)
(*                                                                         *)
(* downFor and upFor are history variables: the ticks the server has been  *)
(* continuously frozen, or continuously healthy.  They saturate one tick   *)
(* above the largest bound any property speaks of.                         *)
(***************************************************************************)
EXTENDS HealthCounter

CONSTANT Inter  \* ticks between two checks of the same server

ASSUME InterAssumption == Inter \in Nat \ {0}

VARIABLES
    frozen,     \* the container is paused
    health,     \* HAProxy's counter for the server
    nextCheck,  \* ticks until the next check runs
    downFor,    \* ticks since the server froze (0 when it is not frozen)
    upFor       \* ticks since the server thawed (0 when it is frozen)

vars == <<frozen, health, nextCheck, downFor, upFor>>

DetectWithin  == Fall * Inter
RestoreWithin == Rise * Inter

HistoryBound == DetectWithin + RestoreWithin + 1

Saturate(n) == IF n < HistoryBound THEN n + 1 ELSE n

TypeOK ==
    /\ frozen \in BOOLEAN
    /\ health \in Health
    /\ nextCheck \in 0 .. Inter
    /\ downFor \in 0 .. HistoryBound
    /\ upFor \in 0 .. HistoryBound

\* HAProxy starts, its first check due at once, against a running container.
Init ==
    /\ frozen = FALSE
    /\ health = InitialHealth
    /\ nextCheck = 0
    /\ downFor = 0
    /\ upFor = 0

\* docker pause mysql-primary
Freeze ==
    /\ ~frozen
    /\ frozen' = TRUE
    /\ downFor' = 0
    /\ upFor' = 0
    /\ UNCHANGED <<health, nextCheck>>

\* docker unpause mysql-primary
Thaw ==
    /\ frozen
    /\ frozen' = FALSE
    /\ downFor' = 0
    /\ upFor' = 0
    /\ UNCHANGED <<health, nextCheck>>

\* One second passes.  A check that is due runs before time can move on.
Tick ==
    /\ nextCheck > 0
    /\ nextCheck' = nextCheck - 1
    /\ downFor' = IF frozen THEN Saturate(downFor) ELSE 0
    /\ upFor' = IF frozen THEN 0 ELSE Saturate(upFor)
    /\ UNCHANGED <<frozen, health>>

\* Mutant of Check: a pass is not counted while the server is DOWN.
CheckIgnoresRise ==
    /\ nextCheck = 0
    /\ health' = IF frozen THEN CheckFailed(health)
                 ELSE IF IsUp(health) THEN CheckPassed(health) ELSE health
    /\ nextCheck' = Inter
    /\ UNCHANGED <<frozen, downFor, upFor>>

\* Mutant of Check: the only server of a backend is never taken out.
CheckKeepsLastServer ==
    /\ nextCheck = 0
    /\ health' = IF ~frozen THEN CheckPassed(health)
                 ELSE IF IsUp(CheckFailed(health)) THEN CheckFailed(health) ELSE health
    /\ nextCheck' = Inter
    /\ UNCHANGED <<frozen, downFor, upFor>>

\* Mutant of Check: failures add up, a pass between them does not matter.
CheckAccumulates ==
    /\ nextCheck = 0
    /\ health' = IF frozen THEN CheckFailed(health)
                 ELSE IF IsUp(health) THEN health ELSE CheckPassed(health)
    /\ nextCheck' = Inter
    /\ UNCHANGED <<frozen, downFor, upFor>>

\* The periodic check.
Check ==
    /\ nextCheck = 0
    /\ health' = IF frozen THEN CheckFailed(health) ELSE CheckPassed(health)
    /\ nextCheck' = Inter
    /\ UNCHANGED <<frozen, downFor, upFor>>

Next == Freeze \/ Thaw \/ Tick \/ Check

Spec == Init /\ [][Next]_vars /\ WF_vars(Tick) /\ WF_vars(Check)

----------------------------------------------------------------------------
(* Properties *)

\* A server that has been unreachable for more than fall x inter ticks is out
\* of rotation.  This is the bound haproxy.cfg:46 promises ("within ~6s
\* (fall 3 x inter 2s)"), counted in whole checks.
DetectionBound ==
    frozen /\ downFor > DetectWithin => ~IsUp(health)

\* A server that has been reachable for more than rise x inter ticks is back
\* in rotation.  scripts/06-failover.sh sleeps longer than that between
\* "docker unpause" and the statements that fence the old primary, so by then
\* the write port leads to it again.
RestoreBound ==
    ~frozen /\ upFor > RestoreWithin => IsUp(health)

\* The counter implements the promise of "rise 2 fall 3": the verdict follows
\* streaks of consecutive contradicting checks and nothing shorter.
Promise == INSTANCE RiseFall WITH
    reachable <- ~frozen,
    up        <- IsUp(health),
    streak    <- IF IsUp(health) THEN FullHealth - health ELSE health,
    due       <- nextCheck = 0

ImplementsRiseFall == Promise!Spec

\* The verdict stabilises with the server: one that stays frozen ends up, and
\* stays, out of rotation, one that stays thawed ends up in rotation.
VerdictFollowsServer ==
    /\ <>[]frozen => <>[]~IsUp(health)
    /\ <>[]~frozen => <>[]IsUp(health)
=============================================================================
