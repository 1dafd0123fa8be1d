------------------------------ MODULE RiseFall ------------------------------
(***************************************************************************)
(* What "rise R fall F" promises on a server line of config/haproxy.cfg,   *)
(* without HAProxy's counter: the verdict on a server changes only after F *)
(* (when it is UP) or R (when it is DOWN) consecutive checks that          *)
(* contradict it, and any check that agrees with it starts the count       *)
(* afresh.  HaproxyDetector implements this specification.                 *)
(***************************************************************************)
EXTENDS Naturals

CONSTANTS Rise, Fall

VARIABLES
    reachable,  \* what a check would find now
    up,         \* the verdict: TRUE while the server is in rotation
    streak,     \* consecutive checks that contradicted the verdict
    due         \* the next check is due: no check goes unseen

vars == <<reachable, up, streak, due>>

Patience(verdict) == IF verdict THEN Fall ELSE Rise

\* The verdict is UP before the first check, one failed check short of DOWN.
Init ==
    /\ reachable = TRUE
    /\ up = TRUE
    /\ streak = Fall - 1
    /\ due = TRUE

\* The server freezes or thaws between two checks.
Change ==
    /\ reachable' = ~reachable
    /\ UNCHANGED <<up, streak, due>>

\* The time until the next check is over.
Wait ==
    /\ ~due
    /\ due' = TRUE
    /\ UNCHANGED <<reachable, up, streak>>

\* Each check agrees with the verdict, contradicts it, or flips it.
Checked == due /\ due' = FALSE

Agree ==
    /\ Checked
    /\ reachable = up
    /\ streak' = 0
    /\ UNCHANGED <<reachable, up>>

Contradict ==
    /\ Checked
    /\ reachable # up
    /\ streak + 1 < Patience(up)
    /\ streak' = streak + 1
    /\ UNCHANGED <<reachable, up>>

Flip ==
    /\ Checked
    /\ reachable # up
    /\ streak + 1 = Patience(up)
    /\ up' = ~up
    /\ streak' = 0
    /\ UNCHANGED reachable

Next == Change \/ Wait \/ Agree \/ Contradict \/ Flip

Spec == Init /\ [][Next]_vars
=============================================================================
