------------------------------ MODULE Breaker ------------------------------
(***************************************************************************)
(* The circuit breaker of internal/circuitbreaker as a data type: the      *)
(* value a Breaker struct holds and what each of its methods does to it.   *)
(* Every method runs under Breaker.mu, so each is one step of whatever     *)
(* module uses it; the modules CircuitBreaker and LoadBalancer do.         *)
(*                                                                         *)
(* Time is abstracted to the one question the code asks of it, "has        *)
(* `timeout' passed since lastFailure?", held in the field `expired'.  It  *)
(* is asked in the Open state only, and lastFailure is set exactly when    *)
(* that state is entered, so `expired' is FALSE in the other states.       *)
(***************************************************************************)
EXTENDS Integers

CONSTANTS FailureThreshold, \* Config.FailureThreshold, as configured
          SuccessThreshold  \* Config.SuccessThreshold, as configured

ASSUME ThresholdAssumption == /\ FailureThreshold \in Int
                              /\ SuccessThreshold \in Int

\* NewBreaker clamps a threshold below 1 to 1.
AtLeastOne(n) == IF n < 1 THEN 1 ELSE n

failureThreshold == AtLeastOne(FailureThreshold)
successThreshold == AtLeastOne(SuccessThreshold)

States == {"closed", "open", "half-open"}

BreakerType == [state     : States,
                failures  : 0 .. failureThreshold - 1,
                successes : 0 .. successThreshold - 1,
                permit    : BOOLEAN,
                expired   : BOOLEAN]

NewBreaker == [state |-> "closed", failures |-> 0, successes |-> 0,
               permit |-> FALSE, expired |-> FALSE]

-----------------------------------------------------------------------------
(***************************************************************************)
(* Eligible() answers without changing anything.  Allow() gives the same   *)
(* answer for the same value, and its side effect is AfterAllow.           *)
(***************************************************************************)
Eligible(b) == \/ b.state = "closed"
               \/ b.state = "open" /\ b.expired
               \/ b.state = "half-open" /\ b.permit

\* Mutant of AfterAllow: the permit of HalfOpen is read but not taken.
AllowKeepsPermit(b) ==
    IF b.state = "open" /\ Eligible(b)
    THEN [b EXCEPT !.state = "half-open", !.permit = FALSE, !.expired = FALSE]
    ELSE b

\* Allow: leaving Open the permit is stored and at once taken by the caller.
AfterAllow(b) ==
    IF b.state # "closed" /\ Eligible(b)
    THEN [b EXCEPT !.state = "half-open", !.permit = FALSE, !.expired = FALSE]
    ELSE b

\* Mutant of AfterSuccess: no permit for the next probe.
SuccessKeepsPermit(b) ==
    IF b.state = "closed" THEN [b EXCEPT !.failures = 0]
    ELSE IF b.state = "open" THEN b
         ELSE IF b.successes + 1 >= successThreshold
              THEN [b EXCEPT !.state = "closed", !.failures = 0, !.successes = 0]
              ELSE [b EXCEPT !.successes = @ + 1]

\* RecordSuccess: the permit is handed back in HalfOpen, even by the success
\* that closes the circuit; a success that arrives in Open is dropped.
AfterSuccess(b) ==
    IF b.state = "closed" THEN [b EXCEPT !.failures = 0]
    ELSE IF b.state = "open" THEN b
         ELSE IF b.successes + 1 >= successThreshold
              THEN [b EXCEPT !.state = "closed", !.failures = 0,
                             !.successes = 0, !.permit = TRUE]
              ELSE [b EXCEPT !.successes = @ + 1, !.permit = TRUE]

\* Both branches of RecordFailure that open the circuit; the permit is left.
Trip(b) == [b EXCEPT !.state = "open", !.failures = 0, !.successes = 0,
                     !.expired = FALSE]

\* Mutant of AfterFailure: off by one in Closed.
FailureTripsLate(b) ==
    IF b.state = "open" THEN b
    ELSE IF b.state = "half-open" \/ b.failures + 1 > failureThreshold
         THEN Trip(b)
         ELSE [b EXCEPT !.failures = @ + 1]

\* RecordFailure: in Open it is dropped and does not restart the timeout.
AfterFailure(b) ==
    IF b.state = "open" THEN b
    ELSE IF b.state = "half-open" \/ b.failures + 1 >= failureThreshold
         THEN Trip(b)
         ELSE [b EXCEPT !.failures = @ + 1]

\* The clock reaches lastFailure + timeout.
CanExpire(b)   == b.state = "open" /\ ~b.expired
AfterTimeout(b) == [b EXCEPT !.expired = TRUE]
=============================================================================
