--------------------------- MODULE HealthCounter ---------------------------
(***************************************************************************)
(* The health counter HAProxy keeps for every "server ... check inter 2s   *)
(* rise 2 fall 3" line of config/haproxy.cfg.  One integer encodes both    *)
(* the verdict and the progress towards the opposite verdict:              *)
(*                                                                         *)
(*    0 .. Rise-1            DOWN, counting consecutive passed checks      *)
(*    Rise .. Rise+Fall-1    UP, counting down consecutive failed checks   *)
(*                                                                         *)
(* The counter is HAProxy's own; rise and fall are the lab's.              *)
(***************************************************************************)
EXTENDS Naturals

CONSTANTS
    Rise,  \* consecutive passed checks that bring a DOWN server UP
    Fall   \* consecutive failed checks that take an UP server DOWN

ASSUME ThresholdAssumption == Rise \in Nat \ {0} /\ Fall \in Nat \ {0}

Health == 0 .. (Rise + Fall - 1)

FullHealth == Rise + Fall - 1

\* A server starts UP but with no credit: its first failed check takes it DOWN.
InitialHealth == Rise

IsUp(h) == h >= Rise

\* A passed check: one step up, and full credit as soon as the server is UP.
CheckPassed(h) == IF h + 1 >= Rise THEN FullHealth ELSE h + 1

\* A failed check: one step down, and no credit at all once the server is DOWN.
CheckFailed(h) == IF h > Rise THEN h - 1 ELSE 0
=============================================================================
