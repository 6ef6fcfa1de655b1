--------------------------- MODULE BreakerProofs ---------------------------
(***************************************************************************)
(* Facts about the Breaker data type, for the proofs of the modules that   *)
(* step it: every method keeps the type, and what each does to the state   *)
(* and to the permit.                                                      *)
(***************************************************************************)
EXTENDS Breaker, TLAPS

(* NewBreaker's clamp leaves thresholds of at least 1. *)
LEMMA Thresholds == /\ failureThreshold \in Int /\ failureThreshold >= 1
                    /\ successThreshold \in Int /\ successThreshold >= 1
  BY ThresholdAssumption DEF failureThreshold, successThreshold, AtLeastOne

(* Zero is a value of both counters. *)
LEMMA CounterRanges == /\ 0 \in 0 .. failureThreshold - 1
                       /\ 0 \in 0 .. successThreshold - 1
  BY Thresholds

(* The breaker that Registry.Get makes is well typed. *)
LEMMA NewBreakerType == NewBreaker \in BreakerType
  BY Thresholds DEF NewBreaker, BreakerType, States

(* Allow keeps the type; it ends in HalfOpen without permit, or changes     *)
(* nothing in Closed.                                                      *)
LEMMA AfterAllowFacts ==
  ASSUME NEW b \in BreakerType, Eligible(b)
  PROVE  /\ AfterAllow(b) \in BreakerType
         /\ b.state = "closed" => AfterAllow(b) = b
         /\ b.state # "closed" => /\ AfterAllow(b).state = "half-open"
                                  /\ ~AfterAllow(b).permit
  BY Thresholds DEF BreakerType, States, Eligible, AfterAllow

(* RecordSuccess keeps the type, does nothing in Open, never leaves Closed, *)
(* and in HalfOpen stays or closes with the permit restored.               *)
LEMMA AfterSuccessFacts ==
  ASSUME NEW b \in BreakerType
  PROVE  /\ AfterSuccess(b) \in BreakerType
         /\ b.state = "open" => AfterSuccess(b) = b
         /\ b.state = "closed" => AfterSuccess(b).state = "closed"
         /\ b.state = "half-open" =>
               /\ AfterSuccess(b).state \in {"closed", "half-open"}
               /\ AfterSuccess(b).permit
<1>1. ASSUME b.state = "open" PROVE AfterSuccess(b) = b
  BY <1>1 DEF AfterSuccess
<1>2. ASSUME b.state = "closed"
      PROVE  AfterSuccess(b) \in BreakerType /\ AfterSuccess(b).state = "closed"
  BY <1>2, Thresholds DEF AfterSuccess, BreakerType
<1>3. ASSUME b.state = "half-open"
      PROVE  /\ AfterSuccess(b) \in BreakerType
             /\ AfterSuccess(b).state \in {"closed", "half-open"}
             /\ AfterSuccess(b).permit = TRUE
  <2>1. CASE b.successes + 1 >= successThreshold
    BY <1>3, <2>1, CounterRanges DEF AfterSuccess, BreakerType, States
  <2>2. CASE ~(b.successes + 1 >= successThreshold)
    <3>1. b.successes + 1 \in 0 .. successThreshold - 1
      BY <2>2, Thresholds DEF BreakerType
    <3>2. AfterSuccess(b) = [b EXCEPT !.successes = @ + 1, !.permit = TRUE]
      BY <1>3, <2>2 DEF AfterSuccess
    <3>3. QED
      BY <1>3, <3>1, <3>2 DEF BreakerType
  <2>3. QED
    BY <2>1, <2>2
<1>4. b.state \in States
  BY DEF BreakerType
<1>5. QED
  BY <1>1, <1>2, <1>3, <1>4 DEF States

(* RecordFailure keeps the type, does nothing in Open, opens from HalfOpen, *)
(* and from Closed stays or opens.                                         *)
LEMMA AfterFailureFacts ==
  ASSUME NEW b \in BreakerType
  PROVE  /\ AfterFailure(b) \in BreakerType
         /\ b.state = "open" => AfterFailure(b) = b
         /\ b.state = "half-open" => AfterFailure(b).state = "open"
         /\ b.state = "closed" => AfterFailure(b).state \in {"closed", "open"}
<1>1. Trip(b) \in BreakerType /\ Trip(b).state = "open"
  BY CounterRanges DEF Trip, BreakerType, States
<1>2. ASSUME b.state = "open" PROVE AfterFailure(b) = b
  BY <1>2 DEF AfterFailure
<1>3. ASSUME b.state = "half-open" PROVE AfterFailure(b) = Trip(b)
  BY <1>3 DEF AfterFailure
<1>4. ASSUME b.state = "closed"
      PROVE  /\ AfterFailure(b) \in BreakerType
             /\ AfterFailure(b).state \in {"closed", "open"}
  <2>1. CASE b.failures + 1 >= failureThreshold
    BY <1>1, <1>4, <2>1 DEF AfterFailure
  <2>2. CASE ~(b.failures + 1 >= failureThreshold)
    BY <1>4, <2>2, Thresholds DEF AfterFailure, BreakerType
  <2>3. QED
    BY <2>1, <2>2
<1>5. b.state \in States
  BY DEF BreakerType
<1>6. QED
  BY <1>1, <1>2, <1>3, <1>4, <1>5 DEF States

(* The timeout only sets the flag of an open breaker. *)
LEMMA AfterTimeoutFacts ==
  ASSUME NEW b \in BreakerType, CanExpire(b)
  PROVE  /\ AfterTimeout(b) \in BreakerType
         /\ AfterTimeout(b).state = "open"
  BY DEF BreakerType, States, AfterTimeout, CanExpire
=============================================================================
