------------------------ MODULE CircuitBreakerProofs ------------------------
(***************************************************************************)
(* The permit of HalfOpen, for any number of callers and any thresholds.   *)
(* Then the registry: it gives out one breaker, and what is shown of       *)
(* callers that share a breaker holds of callers that ask the registry for *)
(* it.                                                                     *)
(***************************************************************************)
EXTENDS Registry, BreakerProofs, FiniteSetTheorems

-----------------------------------------------------------------------------
(***************************************************************************)
(* The strengthening: a caller is a probe of a HalfOpen breaker only, and  *)
(* an ordinary one of a Closed breaker only, because every change of state *)
(* makes the calls in flight late.  Without it a success in HalfOpen could *)
(* come from a call that is neither probe nor late and would be unpaid.    *)
(***************************************************************************)
CallsMatchState == /\ brk.state # "half-open" => Probes = {}
                   /\ brk.state # "closed" => \A c \in Callers : call[c] # "normal"

PermitInv == TypeOK /\ CallsMatchState /\ PermitAccounting

(* Probes are finitely many, being callers. *)
LEMMA ProbesFinite == IsFiniteSet(Probes)
  BY CallersAssumption, FS_Subset DEF Probes

(* The invariant holds in the initial state: nobody calls. *)
LEMMA PermitInit == Init => PermitInv
<1>1. SUFFICES ASSUME Init PROVE PermitInv
  OBVIOUS
<1>2. TypeOK
  BY <1>1, NewBreakerType DEF Init, TypeOK, CallStates
<1>3. CallsMatchState
  BY <1>1 DEF Init, CallsMatchState, Probes, NewBreaker
<1>4. PermitAccounting
  BY <1>1 DEF Init, PermitAccounting, NewBreaker
<1>5. QED
  BY <1>2, <1>3, <1>4 DEF PermitInv

(* Allow in Closed admits an ordinary call, otherwise one probe. *)
LEMMA PermitAdmitted ==
  ASSUME PermitInv, NEW c \in Callers, Admitted(c)
  PROVE  PermitInv'
<1>. USE DEF PermitInv, Admitted
<1>1. brk \in BreakerType /\ call \in [Callers -> CallStates] /\ credits \in Nat
  BY DEF TypeOK
<1>2. brk' \in BreakerType
  BY <1>1, AfterAllowFacts
<1>3. TypeOK'
  BY <1>1, <1>2 DEF TypeOK, CallStates
<1>4. CASE brk.state = "closed"
  <2>1. brk' = brk /\ Probes' = Probes
    BY <1>1, <1>4, AfterAllowFacts DEF Probes, CallStates
  <2>2. QED
    BY <1>3, <1>4, <2>1 DEF CallsMatchState, PermitAccounting
<1>5. CASE brk.state # "closed"
  <2>1. brk'.state = "half-open" /\ ~brk'.permit
    BY <1>1, <1>5, AfterAllowFacts
  <2>2. Probes' = Probes \cup {c} /\ c \notin Probes
    BY <1>1, <1>5 DEF Probes, CallStates
  <2>3. Cardinality(Probes') = Cardinality(Probes) + 1
    BY <2>2, ProbesFinite, FS_AddElement
  <2>4. CallsMatchState'
    BY <1>1, <1>5, <2>1 DEF CallsMatchState, CallStates
  <2>5. CASE brk.state = "open"
    <3>1. Cardinality(Probes) = 0 /\ credits' = 0
      BY <2>5, FS_EmptySet DEF CallsMatchState
    <3>2. QED
      BY <1>3, <2>1, <2>3, <2>4, <3>1 DEF PermitAccounting
  <2>6. CASE brk.state = "half-open"
    <3>1. brk.permit /\ credits' = credits
      BY <2>6 DEF Eligible
    <3>2. Cardinality(Probes) + 1 <= 1 + credits
      BY <2>6, <3>1 DEF PermitAccounting
    <3>3. PermitAccounting'
      BY <1>1, <2>1, <2>3, <3>1, <3>2, ProbesFinite, FS_CardinalityType
         DEF PermitAccounting
    <3>4. QED
      BY <1>3, <2>4, <3>3
  <2>7. QED
    BY <1>1, <1>5, <2>5, <2>6 DEF BreakerType, States
<1>6. QED
  BY <1>4, <1>5

(* When the state changes, every call in flight becomes late. *)
LEMMA AllLate ==
  ASSUME TypeOK, NEW c \in Callers, call' = Remaining(c), brk'.state # brk.state
  PROVE  Probes' = {} /\ \A d \in Callers : call'[d] # "normal"
  BY DEF TypeOK, CallStates, Probes, Remaining

(* When it stays, the call that reported is over and the others go on. *)
LEMMA OthersGoOn ==
  ASSUME TypeOK, NEW c \in Callers, call' = Remaining(c), brk'.state = brk.state
  PROVE  /\ Probes' = Probes \ {c}
         /\ \A d \in Callers : call'[d] \in {call[d], "idle"}
  BY DEF TypeOK, CallStates, Probes, Remaining

(* A success in HalfOpen restores the permit, paid by the probe that ends   *)
(* or, when the call is late, by a credit.                                 *)
LEMMA PermitSucceed ==
  ASSUME PermitInv, NEW c \in Callers, Succeed(c)
  PROVE  PermitInv'
<1>. USE DEF PermitInv, Succeed
<1>1. brk \in BreakerType /\ call \in [Callers -> CallStates] /\ credits \in Nat
  BY DEF TypeOK
<1>2. TypeOK'
  BY <1>1, AfterSuccessFacts DEF TypeOK, CallStates, Remaining
<1>3. CASE brk'.state # brk.state
  <2>1. brk'.state = "closed"
    BY <1>1, <1>3, AfterSuccessFacts DEF BreakerType, States
  <2>2. QED
    BY <1>2, <1>3, <2>1, AllLate DEF CallsMatchState, PermitAccounting
<1>4. CASE brk'.state = brk.state
  <2>1. CallsMatchState'
    BY <1>4, OthersGoOn DEF CallsMatchState
  <2>2. CASE brk.state # "half-open"
    BY <1>2, <1>4, <2>1, <2>2 DEF PermitAccounting
  <2>3. CASE brk.state = "half-open"
    <3>1. Probes' = Probes \ {c} /\ brk'.permit
      BY <1>1, <1>4, <2>3, OthersGoOn, AfterSuccessFacts
    <3>2. Cardinality(Probes) \in Nat /\ IsFiniteSet(Probes)
      BY ProbesFinite, FS_CardinalityType
    <3>3. Cardinality(Probes) <= 1 + credits
      BY <1>1, <2>3, <3>2 DEF PermitAccounting
    <3>4. CASE call[c] = "late"
      <4>1. Probes' = Probes /\ credits' = credits + 1
        BY <2>3, <3>1, <3>4 DEF Probes
      <4>2. QED
        BY <1>1, <1>2, <2>1, <3>1, <3>2, <3>3, <4>1 DEF PermitAccounting
    <3>5. CASE call[c] # "late"
      <4>1. c \in Probes /\ credits' = credits
        BY <1>1, <2>3, <3>5 DEF Probes, CallStates, CallsMatchState
      <4>2. Cardinality(Probes') = Cardinality(Probes) - 1
        BY <3>1, <3>2, <4>1, FS_RemoveElement
      <4>3. QED
        BY <1>1, <1>2, <2>1, <3>1, <3>2, <3>3, <4>1, <4>2 DEF PermitAccounting
    <3>6. QED
      BY <3>4, <3>5
  <2>4. QED
    BY <2>2, <2>3
<1>5. QED
  BY <1>3, <1>4

(* A failure leaves HalfOpen, and from Closed or Open never enters it. *)
LEMMA PermitFail ==
  ASSUME PermitInv, NEW c \in Callers, Fail(c)
  PROVE  PermitInv'
<1>. USE DEF PermitInv, Fail
<1>1. brk \in BreakerType /\ call \in [Callers -> CallStates]
  BY DEF TypeOK
<1>2. TypeOK'
  BY <1>1, AfterFailureFacts DEF TypeOK, CallStates, Remaining
<1>3. brk'.state # "half-open"
  BY <1>1, AfterFailureFacts DEF BreakerType, States
<1>4. CallsMatchState'
  BY AllLate, OthersGoOn DEF CallsMatchState
<1>5. QED
  BY <1>2, <1>3, <1>4 DEF PermitAccounting

(* A caller that disappears takes its probe along. *)
LEMMA PermitAbandon ==
  ASSUME PermitInv, NEW c \in Callers, Abandon(c)
  PROVE  PermitInv'
<1>. USE DEF PermitInv, Abandon
<1>1. TypeOK' /\ Probes' \subseteq Probes
  BY DEF TypeOK, CallStates, Probes
<1>2. CallsMatchState'
  BY <1>1 DEF CallsMatchState, TypeOK, CallStates
<1>3. /\ Cardinality(Probes') <= Cardinality(Probes)
      /\ Cardinality(Probes) \in Nat /\ Cardinality(Probes') \in Nat
  BY <1>1, ProbesFinite, FS_Subset, FS_CardinalityType
<1>4. PermitAccounting'
  BY <1>3 DEF PermitAccounting, TypeOK
<1>5. QED
  BY <1>1, <1>2, <1>4

(* The timeout is a matter of the Open state. *)
LEMMA PermitTimeout ==
  ASSUME PermitInv, TimeoutElapses
  PROVE  PermitInv'
<1>. USE DEF PermitInv, TimeoutElapses
<1>1. brk' \in BreakerType /\ brk.state = "open" /\ brk'.state = "open"
  BY AfterTimeoutFacts DEF TypeOK, CanExpire
<1>2. TypeOK' /\ Probes' = Probes
  BY <1>1 DEF TypeOK, Probes
<1>3. QED
  BY <1>1, <1>2 DEF CallsMatchState, PermitAccounting

(* Every step keeps the invariant. *)
LEMMA PermitNext == PermitInv /\ [Next]_vars => PermitInv'
<1>1. SUFFICES ASSUME PermitInv, [Next]_vars PROVE PermitInv'
  OBVIOUS
<1>2. CASE UNCHANGED vars
  BY <1>1, <1>2 DEF vars, PermitInv, TypeOK, CallsMatchState,
                    PermitAccounting, Probes
<1>3. CASE TimeoutElapses
  BY <1>1, <1>3, PermitTimeout
<1>4. ASSUME NEW c \in Callers,
             Admitted(c) \/ Succeed(c) \/ Fail(c) \/ Abandon(c)
      PROVE  PermitInv'
  BY <1>1, <1>4, PermitAdmitted, PermitSucceed, PermitFail, PermitAbandon
<1>5. QED
  BY <1>1, <1>2, <1>3, <1>4 DEF Next

(***************************************************************************)
(* Allow, RecordSuccess, RecordFailure and the timeout keep the breaker    *)
(* and the callers well typed: the counters stay below their thresholds.   *)
(***************************************************************************)
THEOREM TypeCorrect == Spec => []TypeOK
<1>1. PermitInv => TypeOK
  BY DEF PermitInv
<1>2. QED
  BY <1>1, PermitInit, PermitNext, PTL DEF Spec

(***************************************************************************)
(* However calls interleave and however late they report, the permit and   *)
(* the probes in flight number at most one plus the late successes of the  *)
(* HalfOpen period (circuitbreaker.go:88-110), with or without callers     *)
(* that never report.                                                      *)
(***************************************************************************)
THEOREM PermitsAccounted == Spec => []PermitAccounting
<1>1. PermitInv => PermitAccounting
  BY DEF PermitInv
<1>2. QED
  BY <1>1, PermitInit, PermitNext, PTL DEF Spec

-----------------------------------------------------------------------------
(* PermitNotLost is inductive with PermitInv: a probe that ends restores the *)
(* permit, opens the circuit, or dies and is remembered in `lost'.           *)
LEMMA NotLostNext == PermitInv /\ PermitNotLost /\ [Next]_vars => PermitNotLost'
<1>1. SUFFICES ASSUME PermitInv, PermitNotLost, [Next]_vars
               PROVE  PermitNotLost'
  OBVIOUS
<1>2. brk \in BreakerType /\ call \in [Callers -> CallStates] /\ TypeOK
  BY <1>1 DEF PermitInv, TypeOK
<1>3. CASE UNCHANGED vars
  BY <1>1, <1>3 DEF vars, PermitNotLost, Probes
<1>4. CASE TimeoutElapses
  BY <1>2, <1>4, AfterTimeoutFacts DEF TimeoutElapses, PermitNotLost
<1>5. ASSUME NEW c \in Callers, Admitted(c)
      PROVE  PermitNotLost'
  <2>1. CASE brk.state = "closed"
    BY <1>2, <1>5, <2>1, AfterAllowFacts DEF Admitted, PermitNotLost
  <2>2. CASE brk.state # "closed"
    BY <1>2, <1>5, <2>2 DEF Admitted, PermitNotLost, Probes
  <2>3. QED
    BY <2>1, <2>2
<1>6. ASSUME NEW c \in Callers, Succeed(c)
      PROVE  PermitNotLost'
  BY <1>2, <1>6, AfterSuccessFacts
     DEF Succeed, PermitNotLost, BreakerType, States
<1>7. ASSUME NEW c \in Callers, Fail(c)
      PROVE  PermitNotLost'
  BY <1>2, <1>7, AfterFailureFacts
     DEF Fail, PermitNotLost, BreakerType, States
<1>8. ASSUME NEW c \in Callers, Abandon(c)
      PROVE  PermitNotLost'
  <2>1. CASE call[c] = "probe"
    BY <1>8, <2>1 DEF Abandon, PermitNotLost
  <2>2. CASE call[c] # "probe"
    <3>1. Probes' = Probes
      BY <1>2, <1>8, <2>2 DEF Abandon, Probes
    <3>2. brk' = brk /\ (lost => lost')
      BY <1>8 DEF Abandon
    <3>3. QED
      BY <1>1, <3>1, <3>2 DEF PermitNotLost
  <2>3. QED
    BY <2>1, <2>2
<1>9. QED
  BY <1>1, <1>3, <1>4, <1>5, <1>6, <1>7, <1>8 DEF Next

(***************************************************************************)
(* A HalfOpen breaker without permit has a probe in flight whose report    *)
(* will restore it or open the circuit, unless a probe died: whatever the  *)
(* order of reports, Eligible() is not FALSE for good                      *)
(* (circuitbreaker.go:159-160).                                            *)
(***************************************************************************)
THEOREM PermitsKept == Spec => []PermitNotLost
<1>1. Init => PermitNotLost
  BY DEF Init, PermitNotLost, NewBreaker
<1>2. QED
  BY <1>1, NotLostNext, PermitInit, PermitNext, PTL DEF Spec

-----------------------------------------------------------------------------
(***************************************************************************)
(* OneBreaker is inductive: while the entry is empty, nobody has been      *)
(* given a breaker, so the one that Create makes is the first to be given. *)
(***************************************************************************)
Shared == /\ registered \in 0 .. made
          /\ made \in Nat
          /\ missed \subseteq Callers
          /\ got \in [Callers -> 0 .. made]
          /\ OneBreaker

LEMMA SharedNext == Shared /\ [RegistryNext]_registryVars => Shared'
<1>1. SUFFICES ASSUME Shared, [RegistryNext]_registryVars
               PROVE  Shared'
  OBVIOUS
<1>2. CASE UNCHANGED registryVars
  BY <1>1, <1>2 DEF registryVars, entry, Shared, OneBreaker, Given
<1>3. CASE Clock
  BY <1>1, <1>3 DEF Clock, entry, Shared, OneBreaker, Given
<1>4. ASSUME NEW c \in Callers, LookUp(c)
      PROVE  Shared'
  BY <1>1, <1>4 DEF LookUp, Returns, Shared, OneBreaker, Given
<1>5. ASSUME NEW c \in Callers, Create(c)
      PROVE  Shared'
  <2>1. CASE Absent
    <3>1. \A d \in Callers : got[d] = 0
      BY <1>1, <2>1 DEF Absent, Shared, OneBreaker, Given
    <3>2. /\ made' = made + 1 /\ registered' = made'
          /\ missed' = missed \ {c}
          /\ got' = [got EXCEPT ![c] = made']
      BY <1>5, <2>1 DEF Create, Returns
    <3>3. QED
      BY <1>1, <3>1, <3>2 DEF Shared, OneBreaker, Given
  <2>2. CASE ~Absent
    BY <1>1, <1>5, <2>2 DEF Create, Returns, Shared, OneBreaker, Given
  <2>3. QED
    BY <2>1, <2>2
<1>6. ASSUME NEW c \in Callers, Released(c)
      PROVE  Shared'
  BY <1>1, <1>6 DEF Released, Returns, Shared, OneBreaker, Given
<1>7. ASSUME NEW c \in Callers, Died(c)
      PROVE  Shared'
  BY <1>1, <1>7 DEF Died, entry, Shared, OneBreaker, Given
<1>8. QED
  BY <1>1, <1>2, <1>3, <1>4, <1>5, <1>6, <1>7
     DEF RegistryNext, Allowed, Refused, Reported

(***************************************************************************)
(* All callers that have the breaker of a URL have the same one, however   *)
(* many found none at first (circuitbreaker.go:182-197).                   *)
(***************************************************************************)
THEOREM OneForAll == RegistrySpec => []OneBreaker
<1>1. RegistryInit => Shared
  BY DEF RegistryInit, Shared, OneBreaker, Given
<1>2. Shared => OneBreaker
  BY DEF Shared
<1>3. QED
  BY <1>1, <1>2, SharedNext, PTL DEF RegistrySpec

-----------------------------------------------------------------------------
(* A step of the registry is one of CircuitBreaker or leaves it alone. *)
LEMMA StepsMap == [RegistryNext]_registryVars => [Next]_vars
BY DEF RegistryNext, registryVars, Clock, LookUp, Create, Allowed, Refused,
       Reported, Died, Next

(***************************************************************************)
(* Callers that ask the registry before each use are callers of one        *)
(* breaker as CircuitBreaker describes them.                               *)
(***************************************************************************)
THEOREM RegistryShares == RegistrySpec => Spec
<1>1. RegistryInit => Init
  BY DEF RegistryInit
<1>2. QED
  BY <1>1, StepsMap, PTL DEF RegistrySpec, Spec

(***************************************************************************)
(* What Get returns is nothing or one of the breakers made, and these have *)
(* counters within their thresholds (circuitbreaker.go:182-199).           *)
(***************************************************************************)
THEOREM RegistryTypes == RegistrySpec => []RegistryTypeOK
<1>1. RegistryInit => Shared
  BY DEF RegistryInit, Shared, OneBreaker, Given
<1>2. TypeOK /\ Shared => RegistryTypeOK
  BY DEF Shared, RegistryTypeOK
<1>3. QED
  BY <1>1, <1>2, SharedNext, RegistryShares, TypeCorrect, PTL DEF RegistrySpec

(***************************************************************************)
(* So the permit is accounted for (circuitbreaker.go:73, 109).             *)
(***************************************************************************)
THEOREM RegistryPermits == RegistrySpec => [](PermitAccounting /\ PermitNotLost)
BY RegistryShares, PermitsAccounted, PermitsKept, PTL
=============================================================================
