----------------------- MODULE HaproxyDetector_proofs -----------------------
(***************************************************************************)
(* For every rise, fall and check interval: the detector keeps its types,  *)
(* takes a frozen server out of rotation within Fall * Inter ticks, brings *)
(* a thawed one back within Rise * Inter ticks, and implements RiseFall.   *)
(***************************************************************************)
EXTENDS HaproxyDetector, TLAPS

\* The helpers keep the counter in its range and move the verdict only where
\* rise and fall say.
LEMMA CounterFacts ==
    ASSUME NEW h \in Health
    PROVE  /\ CheckPassed(h) \in Health
           /\ CheckFailed(h) \in Health
           /\ FullHealth \in Health
           /\ InitialHealth \in Health
  BY ThresholdAssumption
     DEF Health, CheckPassed, CheckFailed, FullHealth, InitialHealth

\* One more credit is worth one more check interval.
LEMMA OneMoreCheck ==
    ASSUME NEW k \in Nat
    PROVE  /\ Inter * (k + 1) = Inter * k + Inter
           /\ Inter * k \in Nat
  BY InterAssumption

LEMMA BoundsAreNaturals ==
    DetectWithin \in Nat /\ RestoreWithin \in Nat /\ HistoryBound \in Nat
<1>1. Fall * Inter \in Nat /\ Rise * Inter \in Nat
  BY ThresholdAssumption, InterAssumption
<1>2. QED
  BY <1>1 DEF DetectWithin, RestoreWithin, HistoryBound

----------------------------------------------------------------------------
(* The detector's state always has its types: in particular HAProxy's      *)
(* counter never leaves 0 .. Rise + Fall - 1.                              *)
THEOREM TypeCorrect == Spec => []TypeOK
<1>1. Init => TypeOK
  <2>1. InitialHealth \in Health
    BY ThresholdAssumption DEF Health, InitialHealth
  <2>2. ASSUME Init PROVE frozen \in BOOLEAN
    BY <2>2, Zenon DEF Init
  <2>3. 0 \in 0 .. Inter /\ 0 \in 0 .. HistoryBound
    BY BoundsAreNaturals, InterAssumption
  <2>4. QED
    BY <2>1, <2>2, <2>3 DEF Init, TypeOK
<1>2. TypeOK /\ [Next]_vars => TypeOK'
  <2> SUFFICES ASSUME TypeOK, [Next]_vars PROVE TypeOK'
    OBVIOUS
  <2>1. CASE Freeze
    BY <2>1, BoundsAreNaturals DEF TypeOK, Freeze
  <2>2. CASE Thaw
    <3>1. frozen' \in BOOLEAN
      BY <2>2, Zenon DEF Thaw
    <3>2. 0 \in 0 .. HistoryBound
      BY BoundsAreNaturals
    <3>3. QED
      BY <2>2, <3>1, <3>2 DEF TypeOK, Thaw
  <2>3. CASE Tick
    BY <2>3, BoundsAreNaturals, InterAssumption DEF TypeOK, Tick, Saturate
  <2>4. CASE Check
    BY <2>4, CounterFacts, InterAssumption DEF TypeOK, Check
  <2>5. CASE UNCHANGED vars
    BY <2>5 DEF vars, TypeOK
  <2>6. QED
    BY <2>1, <2>2, <2>3, <2>4, <2>5 DEF Next
<1>3. QED
  BY <1>1, <1>2, PTL DEF Spec

----------------------------------------------------------------------------
(* The inductive invariant behind both time bounds: while the verdict      *)
(* contradicts the server, the time it has been wrong for, plus the time   *)
(* to the next check, is paid for by the credit that has been used up.     *)
DetectCredit == Fall - (health - Rise)

DetectInv ==
    frozen /\ IsUp(health) => downFor + nextCheck <= Inter * DetectCredit

RestoreInv ==
    ~frozen /\ ~IsUp(health) => upFor + nextCheck <= Inter * (health + 1)

\* A server in rotation has between 1 and Fall checks left before it is DOWN.
LEMMA DetectCreditRange ==
    ASSUME TypeOK, IsUp(health)
    PROVE  DetectCredit \in 1 .. Fall
  BY ThresholdAssumption DEF TypeOK, IsUp, DetectCredit, Health

LEMMA SaturateFacts ==
    ASSUME NEW n \in 0 .. HistoryBound
    PROVE  Saturate(n) \in Nat /\ Saturate(n) <= n + 1
  BY BoundsAreNaturals DEF Saturate

LEMMA Monotone ==
    ASSUME NEW j \in Nat, NEW k \in Nat, j <= k
    PROVE  Inter * j <= Inter * k
  BY InterAssumption

LEMMA DetectInductive == TypeOK /\ TypeOK' /\ DetectInv /\ [Next]_vars => DetectInv'
<1> SUFFICES ASSUME TypeOK, TypeOK', DetectInv, [Next]_vars, frozen', IsUp(health)'
             PROVE  (downFor + nextCheck <= Inter * DetectCredit)'
  BY DEF DetectInv
<1>1. CASE Freeze
  <2>1. IsUp(health) /\ DetectCredit' = DetectCredit
    BY <1>1 DEF Freeze, IsUp, DetectCredit
  <2>2. DetectCredit \in Nat /\ 1 <= DetectCredit
    BY <2>1, DetectCreditRange, ThresholdAssumption
  <2>3. Inter * 1 <= Inter * DetectCredit
    BY <2>2, Monotone
  <2>4. downFor' = 0 /\ nextCheck' = nextCheck /\ nextCheck <= Inter
    BY <1>1, InterAssumption DEF Freeze, TypeOK
  <2>5. QED
    BY <2>1, <2>2, <2>3, <2>4, InterAssumption DEF TypeOK
<1>2. CASE Thaw
  BY <1>2 DEF Thaw
<1>3. CASE Tick
  <2>1. IsUp(health) /\ frozen /\ DetectCredit' = DetectCredit
    BY <1>3 DEF Tick, IsUp, DetectCredit
  <2>2. downFor' <= downFor + 1 /\ nextCheck' = nextCheck - 1
    BY <1>3, <2>1, SaturateFacts DEF Tick, TypeOK
  <2>3. downFor + nextCheck <= Inter * DetectCredit
    BY <2>1 DEF DetectInv
  <2>4. DetectCredit \in Nat
    BY <2>1, DetectCreditRange, ThresholdAssumption
  <2>5. Inter * DetectCredit \in Nat
    BY <2>4, OneMoreCheck
  <2>6. /\ downFor \in Nat /\ nextCheck \in Nat /\ downFor' \in Nat
        /\ nextCheck' \in Nat
    BY BoundsAreNaturals, InterAssumption DEF TypeOK
  <2>7. downFor' + nextCheck' <= Inter * DetectCredit
    BY <2>2, <2>3, <2>5, <2>6
  <2>8. QED
    BY <2>1, <2>7
<1>4. CASE Check
  <2>1. frozen /\ health' = CheckFailed(health) /\ nextCheck = 0
        /\ nextCheck' = Inter /\ downFor' = downFor
    BY <1>4 DEF Check
  <2>2. health > Rise /\ health' = health - 1
    BY <2>1, ThresholdAssumption DEF CheckFailed, IsUp, TypeOK, Health
  <2>3. IsUp(health) /\ DetectCredit' = DetectCredit + 1
    BY <2>2, ThresholdAssumption DEF IsUp, DetectCredit, TypeOK, Health
  <2>4. DetectCredit \in Nat
    BY <2>3, DetectCreditRange, ThresholdAssumption
  <2>5. Inter * (DetectCredit + 1) = Inter * DetectCredit + Inter
        /\ Inter * DetectCredit \in Nat
    BY <2>4, OneMoreCheck
  <2>6. downFor + nextCheck <= Inter * DetectCredit
    BY <2>1, <2>3 DEF DetectInv
  <2>7. downFor \in Nat
    BY BoundsAreNaturals DEF TypeOK
  <2>8. downFor' + nextCheck' <= Inter * (DetectCredit + 1)
    BY <2>1, <2>5, <2>6, <2>7, InterAssumption
  <2>9. QED
    BY <2>3, <2>8
<1>5. CASE UNCHANGED vars
  BY <1>5 DEF vars, DetectInv, IsUp, DetectCredit
<1>6. QED
  BY <1>1, <1>2, <1>3, <1>4, <1>5 DEF Next

(* haproxy.cfg:46 - a server that stays unreachable is out of rotation     *)
(* once more than fall x inter ticks have passed.                          *)
THEOREM DetectionWithinFallChecks == Spec => []DetectionBound
<1>1. Init => DetectInv
  BY DEF Init, DetectInv
<1>2. TypeOK /\ DetectInv => DetectionBound
  <2> SUFFICES ASSUME TypeOK, DetectInv, frozen, IsUp(health)
               PROVE  ~(downFor > DetectWithin)
    BY DEF DetectionBound
  <2>1. DetectCredit \in Nat /\ DetectCredit <= Fall /\ Fall \in Nat
    BY DetectCreditRange, ThresholdAssumption
  <2>2. Inter * DetectCredit <= Inter * Fall
    BY <2>1, Monotone
  <2>3. Inter * Fall = DetectWithin
    BY ThresholdAssumption, InterAssumption DEF DetectWithin
  <2>4. downFor + nextCheck <= Inter * DetectCredit
    BY DEF DetectInv
  <2>5. downFor \in Nat /\ nextCheck \in Nat /\ DetectWithin \in Nat
        /\ Inter * DetectCredit \in Nat
    BY <2>1, OneMoreCheck, BoundsAreNaturals, InterAssumption DEF TypeOK
  <2>6. QED
    BY <2>2, <2>3, <2>4, <2>5
<1>3. QED
  BY <1>1, <1>2, DetectInductive, TypeCorrect, PTL DEF Spec

----------------------------------------------------------------------------
LEMMA RestoreInductive == TypeOK /\ TypeOK' /\ RestoreInv /\ [Next]_vars => RestoreInv'
<1> SUFFICES ASSUME TypeOK, TypeOK', RestoreInv, [Next]_vars,
                    ~frozen', ~IsUp(health)'
             PROVE  (upFor + nextCheck <= Inter * (health + 1))'
  BY DEF RestoreInv
<1>0. /\ health \in Nat /\ health' \in Nat /\ upFor \in Nat /\ upFor' \in Nat
      /\ nextCheck \in Nat /\ nextCheck' \in Nat /\ nextCheck <= Inter
  BY BoundsAreNaturals, ThresholdAssumption, InterAssumption DEF TypeOK, Health
<1>1. CASE Freeze
  BY <1>1 DEF Freeze
<1>2. CASE Thaw
  <2>1. health' = health /\ upFor' = 0 /\ nextCheck' = nextCheck
    BY <1>2 DEF Thaw
  <2>2. Inter * 1 <= Inter * (health + 1)
    BY <1>0, Monotone
  <2>3. QED
    BY <1>0, <2>1, <2>2, InterAssumption
<1>3. CASE Tick
  <2>1. ~frozen /\ ~IsUp(health) /\ health' = health
    BY <1>3 DEF Tick, IsUp
  <2>2. upFor' <= upFor + 1 /\ nextCheck' = nextCheck - 1
    BY <1>3, <2>1, SaturateFacts DEF Tick, TypeOK
  <2>3. upFor + nextCheck <= Inter * (health + 1)
    BY <2>1 DEF RestoreInv
  <2>4. Inter * (health + 1) \in Nat
    BY <1>0, InterAssumption
  <2>5. upFor' + nextCheck' <= Inter * (health + 1)
    BY <1>0, <2>2, <2>3, <2>4
  <2>6. QED
    BY <2>1, <2>5
<1>4. CASE Check
  <2>1. /\ ~frozen /\ health' = CheckPassed(health) /\ nextCheck = 0
        /\ nextCheck' = Inter /\ upFor' = upFor
    BY <1>4 DEF Check
  <2>2. health' = health + 1
    BY <1>0, <2>1, ThresholdAssumption DEF CheckPassed, IsUp, FullHealth
  <2>3. ~IsUp(health)
    BY <1>0, <2>2, ThresholdAssumption DEF IsUp
  <2>4. upFor + nextCheck <= Inter * (health + 1)
    BY <2>1, <2>3 DEF RestoreInv
  <2>5. /\ Inter * ((health + 1) + 1) = Inter * (health + 1) + Inter
        /\ Inter * (health + 1) \in Nat
    BY <1>0, OneMoreCheck
  <2>6. upFor' + nextCheck' <= Inter * ((health + 1) + 1)
    BY <1>0, <2>1, <2>4, <2>5, InterAssumption
  <2>7. QED
    BY <2>2, <2>6
<1>5. CASE UNCHANGED vars
  BY <1>5 DEF vars, RestoreInv, IsUp
<1>6. QED
  BY <1>1, <1>2, <1>3, <1>4, <1>5 DEF Next

(* A server that stays reachable is back in rotation once more than rise x *)
(* inter ticks have passed: less than the sleep 5 of 06-failover.sh.       *)
THEOREM RestoredWithinRiseChecks == Spec => []RestoreBound
<1>1. Init => RestoreInv
  BY ThresholdAssumption DEF Init, RestoreInv, IsUp, InitialHealth
<1>2. TypeOK /\ RestoreInv => RestoreBound
  <2> SUFFICES ASSUME TypeOK, RestoreInv, ~frozen, ~IsUp(health)
               PROVE  ~(upFor > RestoreWithin)
    BY DEF RestoreBound
  <2>1. health + 1 \in Nat /\ health + 1 <= Rise /\ Rise \in Nat
    BY ThresholdAssumption DEF TypeOK, IsUp, Health
  <2>2. Inter * (health + 1) <= Inter * Rise
    BY <2>1, Monotone
  <2>3. Inter * Rise = RestoreWithin
    BY ThresholdAssumption, InterAssumption DEF RestoreWithin
  <2>4. upFor + nextCheck <= Inter * (health + 1)
    BY DEF RestoreInv
  <2>5. /\ upFor \in Nat /\ nextCheck \in Nat /\ RestoreWithin \in Nat
        /\ Inter * (health + 1) \in Nat
    BY <2>1, BoundsAreNaturals, InterAssumption DEF TypeOK
  <2>6. QED
    BY <2>2, <2>3, <2>4, <2>5
<1>3. QED
  BY <1>1, <1>2, RestoreInductive, TypeCorrect, PTL DEF Spec

----------------------------------------------------------------------------
(* Refinement: every step of the counter is a step of RiseFall or leaves   *)
(* the verdict and the streak alone.                                       *)
LEMMA CheckImplements == TypeOK /\ Check => [Promise!Next]_(Promise!vars)
<1> SUFFICES ASSUME TypeOK, Check PROVE [Promise!Next]_(Promise!vars)
  OBVIOUS
<1>0. /\ health \in Nat /\ health <= Rise + Fall - 1
      /\ Rise \in Nat /\ Rise >= 1 /\ Fall \in Nat /\ Fall >= 1
      /\ frozen' = frozen
  BY ThresholdAssumption DEF TypeOK, Health, Check
<1>c. Promise!Checked
  BY InterAssumption DEF Check, Promise!Checked
<1>1. CASE frozen /\ IsUp(health)
  <2>1. health' = CheckFailed(health) /\ health >= Rise
    BY <1>1 DEF Check, IsUp
  <2>2. CASE health > Rise
    <3>1. health' = health - 1 /\ IsUp(health')
      BY <1>0, <2>1, <2>2 DEF CheckFailed, IsUp
    <3>2. Promise!Contradict
      BY <1>0, <1>c, <1>1, <2>2, <3>1 DEF Promise!Contradict, Promise!Patience, FullHealth, IsUp
    <3>3. QED
      BY <3>2 DEF Promise!Next
  <2>3. CASE ~(health > Rise)
    <3>1. health = Rise /\ health' = 0 /\ ~IsUp(health')
      BY <1>0, <2>1, <2>3 DEF CheckFailed, IsUp
    <3>2. Promise!Flip
      BY <1>0, <1>c, <1>1, <3>1 DEF Promise!Flip, Promise!Patience, FullHealth, IsUp
    <3>3. QED
      BY <3>2 DEF Promise!Next
  <2>4. QED
    BY <2>2, <2>3
<1>2. CASE frozen /\ ~IsUp(health)
  <2>1. health' = 0 /\ ~IsUp(health')
    BY <1>0, <1>2 DEF Check, CheckFailed, IsUp
  <2>2. Promise!Agree
    BY <1>0, <1>c, <1>2, <2>1 DEF Promise!Agree, IsUp
  <2>3. QED
    BY <2>2 DEF Promise!Next
<1>3. CASE ~frozen /\ IsUp(health)
  <2>1. health' = FullHealth /\ IsUp(health')
    BY <1>0, <1>3 DEF Check, CheckPassed, IsUp, FullHealth
  <2>2. FullHealth - health' = 0
    BY <1>0, <2>1 DEF FullHealth
  <2>3. Promise!Agree
    BY <1>0, <1>c, <1>3, <2>1, <2>2 DEF Promise!Agree, IsUp
  <2>4. QED
    BY <2>3 DEF Promise!Next
<1>4. CASE ~frozen /\ ~IsUp(health)
  <2>1. health' = CheckPassed(health) /\ health < Rise
    BY <1>0, <1>4 DEF Check, IsUp
  <2>2. CASE health + 1 >= Rise
    <3>1. health + 1 = Rise /\ health' = FullHealth /\ IsUp(health')
      BY <1>0, <2>1, <2>2 DEF CheckPassed, IsUp, FullHealth
    <3>2. FullHealth - health' = 0
      BY <1>0, <3>1 DEF FullHealth
    <3>3. Promise!Flip
      BY <1>0, <1>c, <1>4, <3>1, <3>2 DEF Promise!Flip, Promise!Patience, FullHealth, IsUp
    <3>4. QED
      BY <3>3 DEF Promise!Next
  <2>3. CASE ~(health + 1 >= Rise)
    <3>1. health' = health + 1 /\ ~IsUp(health')
      BY <1>0, <2>1, <2>3 DEF CheckPassed, IsUp
    <3>2. Promise!Contradict
      BY <1>0, <1>c, <1>4, <2>3, <3>1 DEF Promise!Contradict, Promise!Patience, FullHealth, IsUp
    <3>3. QED
      BY <3>2 DEF Promise!Next
  <2>4. QED
    BY <2>2, <2>3
<1>5. QED
  BY <1>1, <1>2, <1>3, <1>4

LEMMA StepImplements == TypeOK /\ [Next]_vars => [Promise!Next]_(Promise!vars)
<1> SUFFICES ASSUME TypeOK, [Next]_vars PROVE [Promise!Next]_(Promise!vars)
  OBVIOUS
<1>1. CASE Freeze \/ Thaw
  <2>1. Promise!Change
    BY <1>1 DEF Freeze, Thaw, Promise!Change, IsUp, FullHealth, TypeOK
  <2>2. QED
    BY <2>1 DEF Promise!Next
<1>2. CASE Tick
  <2>1. CASE nextCheck' = 0
    <3>1. nextCheck # 0 /\ UNCHANGED <<frozen, health>>
      BY <1>2, InterAssumption DEF Tick, TypeOK
    <3>2. Promise!Wait
      BY <2>1, <3>1 DEF Promise!Wait, IsUp, FullHealth
    <3>3. QED
      BY <3>2 DEF Promise!Next
  <2>2. CASE nextCheck' # 0
    BY <1>2, <2>2, InterAssumption DEF Tick, Promise!vars, TypeOK, IsUp, FullHealth
  <2>3. QED
    BY <2>1, <2>2
<1>3. CASE Check
  BY <1>3, CheckImplements
<1>4. CASE UNCHANGED vars
  BY <1>4 DEF vars, Promise!vars
<1>5. QED
  BY <1>1, <1>2, <1>3, <1>4 DEF Next

(* HAProxy's single counter keeps what "rise" and "fall" promise.          *)
THEOREM CounterImplementsRiseFall == Spec => ImplementsRiseFall
<1>1. Init => Promise!Init
  <2>1. IsUp(InitialHealth) /\ FullHealth - InitialHealth = Fall - 1
    BY ThresholdAssumption DEF IsUp, InitialHealth, FullHealth
  <2>2. QED
    BY <2>1 DEF Init, Promise!Init
<1>2. QED
  BY <1>1, StepImplements, TypeCorrect, PTL DEF Spec, ImplementsRiseFall, Promise!Spec
=============================================================================
