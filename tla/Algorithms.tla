----------------------------- MODULE Algorithms -----------------------------
(***************************************************************************)
(* The stateful algorithms of internal/algo as the proxy has them: one     *)
(* object made by algo.New from a name, which a reload replaces by another *)
(* while requests use it.  A call that is still running then works on the  *)
(* object that nobody will ask again, so it is dropped from the state.     *)
(***************************************************************************)
EXTENDS Integers, SequencesExt

CONSTANTS
    Callers, \* requests in progress
    Pool,    \* the backends, numbers in the order of the pool
    Weight,  \* their configured weights
    Period,  \* see RoundRobin
    MaxTorn, \* see WeightedRoundRobin
    Window   \* see WeightedRoundRobin

ASSUME AlgorithmsAssumption ==
    /\ Pool \in Seq(Nat) /\ \A j \in 1 .. Len(Pool) : Pool[j] = j
    /\ Weight \in [1 .. Len(Pool) -> Int]
    /\ Period \in Nat \ {0} /\ \A n \in 1 .. Len(Pool) : Period % n = 0
    /\ MaxTorn \in Nat /\ Window \in Nat \ {0}

VARIABLES
    algo,                                 \* LoadBalancer.algo
    alive,                                \* Backend.alive
    current, pc, list, next, i, recent,   \* of RoundRobin
    weights, torn, among, turns, got      \* of WeightedRoundRobin

RR  == INSTANCE RoundRobin
WRR == INSTANCE WeightedRoundRobin WITH Backends <- ToSet(Pool)

ofRR  == <<current, pc, list, next, i, recent>>
ofWRR == <<weights, torn, among, turns, got>>
vars  == <<algo, alive, ofRR, ofWRR>>

Names == {"round_robin", "weighted_round_robin"}

TypeOK == algo \in Names /\ RR!TypeOK /\ WRR!TypeOK

Init == algo \in Names /\ RR!Init /\ WRR!Init

-----------------------------------------------------------------------------
\* algo.New and LoadBalancer.SetAlgorithm: the new object starts from nothing.
SetAlgorithm(name) ==
    /\ algo' = name
    /\ current' = 0
    /\ pc' = [c \in Callers |-> "idle"]
    /\ list' = [c \in Callers |-> <<>>]
    /\ next' = [c \in Callers |-> 0]
    /\ i' = [c \in Callers |-> 0]
    /\ recent' = <<>>
    /\ weights' = WRR!Zero
    /\ torn' = 0
    /\ among' = ToSet(Pool)
    /\ turns' = 0
    /\ got' = WRR!Zero
    /\ UNCHANGED alive

RoundRobin(action) ==
    /\ algo = "round_robin"
    /\ action
    /\ UNCHANGED <<algo, ofWRR>>

Weighted == /\ algo = "weighted_round_robin"
            /\ WRR!Next
            /\ UNCHANGED <<algo, ofRR>>

Begin(c) == RoundRobin(RR!Begin(c, Pool))
Run(c)   == RoundRobin(RR!Run(c))
Disturb  == RoundRobin(RR!Disturb) \/ \E name \in Names : SetAlgorithm(name)

Next == \/ \E c \in Callers : Begin(c) \/ Run(c)
        \/ Weighted
        \/ Disturb

(***************************************************************************)
(* Requests keep coming and their goroutines run.                          *)
(***************************************************************************)
FairSpec == /\ Init /\ [][Next]_vars
            /\ \A c \in Callers : WF_vars(Begin(c)) /\ WF_vars(Run(c))

-----------------------------------------------------------------------------
\* See RoundRobin!EvenRotation, WeightedRoundRobin!NoDrift and !FairShare.
EvenRotation == RR!EvenRotation
NoDrift      == WRR!NoDrift
FairShare    == WRR!FairShare

(***************************************************************************)
(* Overlapping calls of round robin rewind its counter by storing late     *)
(* what they picked, so turns are lost; but once the candidates settle, no *)
(* backend that is alive is passed over for ever.                          *)
(***************************************************************************)
EveryBackendServes ==
    <>[][~Disturb]_vars =>
        \A b \in ToSet(Pool) :
            []<>(algo # "round_robin" \/ ~alive[b] \/ RR!Stores(b))
=============================================================================
