--------------------------- MODULE CircuitBreaker ---------------------------
(***************************************************************************)
(* One circuit breaker shared by concurrent callers, each of which follows *)
(* the protocol the package documents: ask Allow(), send the request when  *)
(* the answer is yes, then report the outcome with RecordSuccess() or      *)
(* RecordFailure().  Between the two calls nothing ties a caller to the    *)
(* breaker: it may have moved on by the time the outcome is reported, and  *)
(* a caller whose request panics never reports.  LoadBalancer has the      *)
(* callers that the proxy really is.                                       *)
(***************************************************************************)
EXTENDS Breaker, FiniteSets

CONSTANT Callers \* goroutines that use the breaker

ASSUME CallersAssumption == IsFiniteSet(Callers)

VARIABLES brk,     \* the Breaker
          call,    \* what each caller is doing
          credits, \* history: successes of late calls in this HalfOpen period
          lost     \* history: a probe of this period died unreported

vars == <<brk, call, credits, lost>>

(***************************************************************************)
(* A call is "normal" when it was admitted in Closed and a "probe" when it *)
(* was admitted with the half-open permit.  Once the circuit opens or      *)
(* closes, every call still in flight belongs to the past: it is "late".   *)
(***************************************************************************)
CallStates == {"idle", "normal", "probe", "late"}

Probes == {c \in Callers : call[c] = "probe"}

TypeOK == /\ brk \in BreakerType
          /\ call \in [Callers -> CallStates]
          /\ credits \in Nat
          /\ lost \in BOOLEAN

Init == /\ brk = NewBreaker
        /\ call = [c \in Callers |-> "idle"]
        /\ credits = 0
        /\ lost = FALSE

-----------------------------------------------------------------------------
\* Allow() answers yes; leaving Open starts a HalfOpen period.
Admitted(c) ==
    /\ call[c] = "idle"
    /\ Eligible(brk)
    /\ brk' = AfterAllow(brk)
    /\ call' = [call EXCEPT ![c] = IF brk.state = "closed" THEN "normal"
                                                           ELSE "probe"]
    /\ credits' = IF brk.state = "open" THEN 0 ELSE credits
    /\ lost' = (lost /\ brk.state # "open")

\* The calls in flight once c has reported: they are late if the state changed.
Remaining(c) ==
    [d \in Callers |-> IF d = c \/ call[d] = "idle" THEN "idle"
                       ELSE IF brk'.state = brk.state THEN call[d] ELSE "late"]

Succeed(c) ==
    /\ call[c] # "idle"
    /\ brk' = AfterSuccess(brk)
    /\ call' = Remaining(c)
    /\ credits' = IF call[c] = "late" /\ brk.state = "half-open"
                  THEN credits + 1 ELSE credits
    /\ UNCHANGED lost

Fail(c) ==
    /\ call[c] # "idle"
    /\ brk' = AfterFailure(brk)
    /\ call' = Remaining(c)
    /\ UNCHANGED <<credits, lost>>

\* The request panics: its goroutine unwinds without a report.
Abandon(c) ==
    /\ call[c] # "idle"
    /\ call' = [call EXCEPT ![c] = "idle"]
    /\ lost' = (lost \/ call[c] = "probe")
    /\ UNCHANGED <<brk, credits>>

TimeoutElapses ==
    /\ CanExpire(brk)
    /\ brk' = AfterTimeout(brk)
    /\ UNCHANGED <<call, credits, lost>>

Next == \/ TimeoutElapses
        \/ \E c \in Callers : \/ Admitted(c)
                              \/ Succeed(c)
                              \/ Fail(c)
                              \/ Abandon(c)

(***************************************************************************)
(* Time passes, traffic keeps coming, and a request that was sent ends.    *)
(***************************************************************************)
Fairness == /\ WF_vars(TimeoutElapses)
            /\ \A c \in Callers : /\ WF_vars(Admitted(c))
                                  /\ WF_vars(Succeed(c) \/ Fail(c))

Spec == Init /\ [][Next]_vars
FairSpec == Spec /\ Fairness

-----------------------------------------------------------------------------
(***************************************************************************)
(* What "HalfOpen allows exactly one probe" (circuitbreaker.go:73) comes   *)
(* to when RecordSuccess hands a permit back for every success: the permit *)
(* and the probes in flight never exceed one plus the late successes of    *)
(* the period, each of which returns a permit that a probe still holds.    *)
(***************************************************************************)
PermitAccounting ==
    brk.state = "half-open" =>
        Cardinality(Probes) + (IF brk.permit THEN 1 ELSE 0) <= 1 + credits

(***************************************************************************)
(* While HalfOpen has no permit to give, some probe is still in flight     *)
(* whose report will restore it or open the circuit, unless a probe died:  *)
(* no order of late reports makes Eligible() answer FALSE for ever.        *)
(***************************************************************************)
PermitNotLost ==
    brk.state = "half-open" /\ ~brk.permit => Probes # {} \/ lost

(***************************************************************************)
(* A circuit that opened closes again: when calls stop failing and no      *)
(* probe dies, the timeout, Allow and the successThreshold probes bring it *)
(* to Closed for good.                                                     *)
(***************************************************************************)
Recovery ==
    <>[][\A c \in Callers : ~Fail(c)]_vars /\ <>[]~lost
        => <>[](brk.state = "closed")
=============================================================================
