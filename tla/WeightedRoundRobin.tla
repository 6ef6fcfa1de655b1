------------------------ MODULE WeightedRoundRobin ------------------------
(***************************************************************************)
(* WeightedRoundRobin.Next of internal/algo.  The mutex makes calls follow *)
(* one another, so a call is one step.  Not covered by it are the two      *)
(* reads of IsAlive() that a call makes of each candidate, in its first    *)
(* and in its second loop: they differ when somebody changes the backend   *)
(* between them, and the call is then torn.                                *)
(***************************************************************************)
EXTENDS Integers, FiniteSetsExt

CONSTANTS
    Backends, \* the backends: numbers, in the order of the pool
    Weight,   \* Backend.Weight as configured
    MaxTorn,  \* bound: torn calls of one object
    Window    \* bound: the calls that the history of shares looks back

VARIABLES
    alive,   \* Backend.alive
    weights, \* currentWeights; a missing key reads 0
    torn,    \* history: torn calls so far
    among,   \* history: the candidates of the latest calls
    turns,   \* history: their number, since these or their state changed
    got      \* history: how often each backend was picked in them

share == <<among, turns, got>>
vars  == <<alive, weights, torn, share>>

-----------------------------------------------------------------------------
Zero == [b \in Backends |-> 0]

\* GetWeight(), or 1 for what is not positive; totalWeight.
weight(b) == IF Weight[b] <= 0 THEN 1 ELSE Weight[b]
Total(S)  == MapThenSumSet(weight, S)

Live(S) == {b \in S : alive[b]}

TypeOK == /\ alive \in [Backends -> BOOLEAN]
          /\ weights \in [Backends -> Int]
          /\ torn \in 0 .. MaxTorn
          /\ among \subseteq Backends
          /\ turns \in 0 .. Window
          /\ got \in [Backends -> 0 .. turns]

Init == /\ alive = [b \in Backends |-> TRUE]
        /\ weights = Zero
        /\ torn = 0
        /\ among = Backends
        /\ turns = 0
        /\ got = Zero

-----------------------------------------------------------------------------
Pruned(backends) == [b \in Backends |-> IF b \in backends THEN weights[b] ELSE 0]

\* The first loop, over those that it reads alive.
Raised(backends, first) ==
    [b \in Backends |-> Pruned(backends)[b]
                        + (IF b \in first THEN weight(b) ELSE 0)]

\* The second loop: the first of the largest.
Best(w, second) ==
    CHOOSE b \in second :
        \A d \in second : w[d] < w[b] \/ (w[d] = w[b] /\ b <= d)

\* Mutant of Charge: a pick costs the weight of the picked backend.
ChargeOwn(best, first) == weight(best)
Charge(best, first) == Total(first)

\* currentWeights after Next(backends) that reads `first' and then `second'.
After(backends, first, second) ==
    LET w == Raised(backends, first)
    IN  IF second = {} THEN w
        ELSE [w EXCEPT ![Best(w, second)] = @ - Charge(Best(w, second), first)]

\* A call whose two loops read the same.
Call(backends) ==
    LET live  == Live(backends)
        fresh == among # backends \/ turns = Window
        \* the pick, as a function to add to `got'
        one   == [b \in Backends |->
                     IF live # {} /\ b = Best(Raised(backends, live), live)
                     THEN 1 ELSE 0]
    IN  /\ weights' = After(backends, live, live)
        /\ among' = backends
        /\ turns' = IF fresh THEN 1 ELSE turns + 1
        /\ got' = IF fresh THEN one ELSE [b \in Backends |-> got[b] + one[b]]
        /\ UNCHANGED <<alive, torn>>

Forget == turns' = 0 /\ got' = Zero /\ UNCHANGED among

\* A call between whose loops the live ones become `second'.
TornCall(backends, second) ==
    /\ torn < MaxTorn
    /\ second # Live(backends)
    /\ weights' = After(backends, Live(backends), second)
    /\ alive' = [b \in Backends |-> IF b \in backends THEN b \in second
                                                      ELSE alive[b]]
    /\ torn' = torn + 1
    /\ Forget

\* Somebody takes a backend out of rotation or back in between two calls.
Flip(b) ==
    /\ alive' = [alive EXCEPT ![b] = ~@]
    /\ Forget
    /\ UNCHANGED <<weights, torn>>

Next == \/ \E backends \in SUBSET Backends :
              \/ Call(backends)
              \/ \E second \in SUBSET backends : TornCall(backends, second)
        \/ \E b \in Backends : Flip(b)

-----------------------------------------------------------------------------
Abs(n) == IF n < 0 THEN -n ELSE n

(***************************************************************************)
(* The weights stay bounded: filtering candidates in and out, which prunes *)
(* their keys, and backends that die and return between calls cannot make  *)
(* them drift (weighted_round_robin.go:25-40).  Only torn calls can, and   *)
(* each by no more than one round.  That the bound grows with the pool is  *)
(* no slack: with thirteen backends, one of which is heavy and the others  *)
(* die as they are picked, twice the total is exceeded.                    *)
(***************************************************************************)
MaxDrift == (Cardinality(Backends) - 1 + torn) * Total(Backends)

NoDrift == \A b \in Backends : Abs(weights[b]) <= MaxDrift

(***************************************************************************)
(* While candidates and their state stay the same, every live backend gets *)
(* its share of the calls, turns * weight / total, up to a constant number *)
(* of calls, whatever history the weights carry: what a share may lack is  *)
(* the weight it starts with and the one it ends with.                     *)
(***************************************************************************)
FairShare == \A b \in Live(among) :
                Abs(turns * weight(b) - got[b] * Total(Live(among))) <= 2 * MaxDrift
=============================================================================
