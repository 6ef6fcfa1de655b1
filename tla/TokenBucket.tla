---------------------------- MODULE TokenBucket ----------------------------
(***************************************************************************)
(* What the rate limiter promises the requests of one address: there is    *)
(* one bucket, refilled every second; a request is let through only for a  *)
(* token and refused only when there is none.  A limiter that evicts may   *)
(* lose sight of requests under way, but only while the bucket is full;    *)
(* those are answered either way and pay nothing.                          *)
(*                                                                         *)
(* There are no entries, no clocks and no goroutine of cleanup here:       *)
(* RateLimiter has them and implements this.                               *)
(***************************************************************************)
EXTENDS Integers

CONSTANTS
    Callers, \* requests
    Unit,    \* a token
    Rate,    \* what comes back in a second
    Burst    \* what fits

VARIABLES
    evicts, \* addresses may be forgotten
    level,  \* what is in the bucket
    status, \* where each request is
    lost    \* requests that the limiter has lost sight of

vars == <<evicts, level, status, lost>>

Init == /\ evicts \in BOOLEAN
        /\ level = Burst
        /\ status = [c \in Callers |-> "none"]
        /\ lost = {}

From(c, before, after) == /\ status[c] = before
                          /\ status' = [status EXCEPT ![c] = after]
                          /\ UNCHANGED evicts

Ask(c) == From(c, "none", "asking") /\ UNCHANGED <<level, lost>>

Pass(c) ==
    /\ From(c, "asking", "none")
    /\ c \notin lost
    /\ level >= Unit
    /\ level' = level - Unit
    /\ UNCHANGED lost

Refuse(c) ==
    /\ From(c, "asking", "refused")
    /\ c \notin lost
    /\ level < Unit
    /\ UNCHANGED <<level, lost>>

AnswerLost(c) ==
    /\ From(c, "asking", "none") \/ From(c, "asking", "refused")
    /\ c \in lost
    /\ lost' = lost \ {c}
    /\ UNCHANGED level

\* A refused request has its 429.
End(c) == From(c, "refused", "none") /\ UNCHANGED <<level, lost>>

LoseSight ==
    /\ evicts
    /\ level = Burst
    /\ \E more \in SUBSET {c \in Callers : status[c] = "asking"} : lost' = lost \cup more
    /\ UNCHANGED <<evicts, level, status>>

Refill == /\ level' = IF level + Rate <= Burst THEN level + Rate ELSE Burst
          /\ UNCHANGED <<evicts, status, lost>>

Next == \/ \E c \in Callers : Ask(c) \/ Pass(c) \/ Refuse(c) \/ AnswerLost(c) \/ End(c)
        \/ LoseSight \/ Refill

Spec == Init /\ [][Next]_vars
=============================================================================
