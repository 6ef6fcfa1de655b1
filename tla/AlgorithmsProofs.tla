-------------------------- MODULE AlgorithmsProofs --------------------------
(***************************************************************************)
(* For any number of backends and callers, any weights, and however often  *)
(* the algorithm is replaced: round robin rotates evenly; the weights of   *)
(* weighted round robin do not drift, and shares stay fair.                *)
(***************************************************************************)
EXTENDS Algorithms, Sums, SequenceTheorems

N == Len(Pool)

RoundRobinTyped ==
    /\ algo \in Names
    /\ alive \in [1 .. N -> BOOLEAN]
    /\ current \in 0 .. Period - 1
    /\ pc \in [Callers -> {"idle", "scan", "store"}]
    /\ list \in [Callers -> RR!Lists \cup {<<>>}]
    /\ next \in [Callers -> Nat]
    /\ i \in [Callers -> Nat]
    /\ recent \in Seq(1 .. N) /\ Len(recent) <= N

\* Where a call is in its list.
Scanning(c) == IF pc[c] = "idle"
               THEN i[c] = 0
               ELSE /\ list[c] # <<>>
                    /\ next[c] < Len(list[c]) /\ i[c] < Len(list[c])

\* Going round the pool from a one meets b before c or at c; from a to a it
\* is the whole round.
Within(a, b, c) == IF a < c THEN a < b /\ b <= c
                            ELSE a < b \/ b <= c

\* Between two of the picks nothing alive was passed over.
CoveredIn(picks) ==
    \A k \in 1 .. Len(picks) : \A j \in 1 .. k - 1 : \A b \in 1 .. N :
        alive[b] /\ Within(picks[j], b, picks[k]) =>
            \E l \in j + 1 .. k : picks[l] = b

LastPick == recent[Len(recent)]

\* The one call that goes on from the last pick, and found all of those on its
\* way dead.
GoesOn(c) == /\ pc[c] # "idle"
             /\ RR!Alone(c)
             /\ list[c] = Pool
             /\ next[c] = LastPick % N
             /\ \A b \in 1 .. N : alive[b] /\ Within(LastPick, b, RR!Candidate(c)) =>
                                      b = RR!Candidate(c)
             /\ pc[c] = "store" => alive[RR!Candidate(c)]

\* As long as there is a history, the next pick follows the last one, if there
\* is anything to pick.
Follows == recent # <<>> =>
             \/ (\A c \in Callers : pc[c] = "idle") /\ current = LastPick - 1
             \/ \E c \in Callers : GoesOn(c)
             \/ /\ \A b \in 1 .. N : ~alive[b]
                /\ \A c \in Callers : pc[c] # "store"

RotationInv == /\ RoundRobinTyped
               /\ \A c \in Callers : Scanning(c)
               /\ algo # "round_robin" => recent = <<>>
               /\ CoveredIn(recent)
               /\ Follows

-----------------------------------------------------------------------------
(* Remainders, as the counter meets them. *)
LEMMA RemainderRange ==
  ASSUME NEW n \in Nat \ {0}, NEW a \in Nat
  PROVE  a % n \in 0 .. n - 1 /\ (a < n => a % n = a) /\ n % n = 0
  OBVIOUS

LEMMA RemainderOnce ==
  ASSUME NEW n \in Nat \ {0}, NEW a \in 0 .. 2 * n - 1
  PROVE  (a < n => a % n = a) /\ (n <= a => a % n = a - n)
<1>1. \A r \in 0 .. n - 1 : (n + r) % n = r
  OBVIOUS
<1>2. CASE a >= n
  <2>1. a - n \in 0 .. n - 1 /\ a = n + (a - n)
    BY <1>2
  <2>2. (n + (a - n)) % n = a - n
    BY <1>1, <2>1
  <2>3. QED
    BY <1>2, <2>1, <2>2
<1>3. CASE a < n
  BY <1>3, RemainderRange
<1>4. QED
  BY <1>2, <1>3

LEMMA RoundTrip ==
  ASSUME NEW n \in Nat \ {0}, NEW x \in 1 .. n
  PROVE  ((x % n) + (n - 1)) % n = x - 1
<1>1. x % n = IF x = n THEN 0 ELSE x
  <2>1. x \in Nat /\ (x < n \/ x = n)
    OBVIOUS
  <2>2. (x < n => x % n = x) /\ n % n = 0
    BY <2>1, RemainderRange, Zenon
  <2>3. QED
    BY <2>1, <2>2
<1> DEFINE a == (x % n) + (n - 1)
<1>2. a \in 0 .. 2 * n - 1 /\ (a < n \/ n <= a)
  BY <1>1
<1>3. (a < n => a % n = a) /\ (n <= a => a % n = a - n)
  BY <1>2, RemainderOnce, Zenon
<1>4. a % n = x - 1
  BY <1>1, <1>2, <1>3
<1>5. QED
  BY <1>4

LEMMA PeriodIsLong ==
  ASSUME NEW n \in 1 .. N
  PROVE  n <= Period /\ Period \in Nat \ {0} /\ n \in Nat \ {0}
<1>1. Period \in Nat \ {0} /\ Period % n = 0 /\ n \in Nat \ {0}
  BY AlgorithmsAssumption DEF N
<1>2. Period < n => Period % n = Period
  BY <1>1
<1>3. QED
  BY <1>1, <1>2

(* The candidates of a call are of the pool, in any list that is passed. *)
LEMMA ListFacts ==
  ASSUME NEW s \in RR!Lists
  PROVE  /\ s \in Seq(1 .. N) /\ Len(s) \in 1 .. N /\ s # <<>>
         /\ RR!Backends = 1 .. N /\ \A j \in 1 .. Len(s) : s[j] \in 1 .. N
<1>1. RR!Backends = 1 .. N
  <2>1. DOMAIN Pool = 1 .. N /\ \A j \in 1 .. N : Pool[j] = j
    BY AlgorithmsAssumption DEF N
  <2>2. QED
    BY <2>1 DEF RR!Backends, RR!ToSet
<1>2. N \in Nat
  BY AlgorithmsAssumption DEF N
<1>3. PICK n \in 1 .. N : s \in [1 .. n -> 1 .. N]
  BY <1>1 DEF RR!Lists, N
<1>4. s \in Seq(1 .. N) /\ Len(s) = n
  BY <1>2, <1>3
<1>5. QED
  BY <1>1, <1>2, <1>3, <1>4

LEMMA PoolFacts == /\ N \in Nat /\ Pool \in Seq(1 .. N) /\ RR!Backends = 1 .. N
                   /\ ToSet(Pool) = 1 .. N
                   /\ Pool # <<>> => Pool \in RR!Lists
<1>1. /\ N \in Nat /\ DOMAIN Pool = 1 .. N /\ \A j \in 1 .. N : Pool[j] = j
      /\ Pool \in Seq(Nat)
  BY AlgorithmsAssumption DEF N
<1>2. RR!Backends = 1 .. N /\ ToSet(Pool) = 1 .. N
  BY <1>1 DEF RR!Backends, RR!ToSet, ToSet
<1>3. Pool \in [1 .. N -> 1 .. N]
  BY <1>1
<1>4. ASSUME Pool # <<>> PROVE Pool \in RR!Lists
  <2>1. N \in 1 .. N
    BY <1>1, <1>4 DEF N
  <2>2. QED
    BY <1>1, <1>2, <1>3, <2>1 DEF RR!Lists, N
<1>5. QED
  BY <1>1, <1>2, <1>3, <1>4

(* The candidate of a call is in its list, and its index fits the counter. *)
LEMMA CandidateFacts ==
  ASSUME RoundRobinTyped, NEW c \in Callers, Scanning(c), pc[c] # "idle"
  PROVE  /\ list[c] \in RR!Lists /\ Len(list[c]) \in 1 .. N
         /\ RR!idx(c) \in 0 .. Len(list[c]) - 1 /\ RR!idx(c) \in 0 .. Period - 1
         /\ RR!Candidate(c) \in 1 .. N
         /\ list[c] = Pool =>
                /\ RR!idx(c) = IF next[c] + i[c] < N THEN next[c] + i[c]
                                                     ELSE next[c] + i[c] - N
                /\ RR!Candidate(c) = RR!idx(c) + 1
<1>1. list[c] \in RR!Lists /\ next[c] \in Nat /\ i[c] \in Nat
  BY DEF RoundRobinTyped, Scanning
<1>2. list[c] \in Seq(1 .. N) /\ Len(list[c]) \in 1 .. N
  BY <1>1, ListFacts
<1>3. /\ Len(list[c]) \in Nat \ {0} /\ Len(list[c]) <= Period /\ Period \in Nat
  BY <1>2, PeriodIsLong
<1>4. next[c] + i[c] \in 0 .. 2 * Len(list[c]) - 1
  BY <1>1, <1>3 DEF Scanning
<1>5. RR!idx(c) = IF next[c] + i[c] < Len(list[c]) THEN next[c] + i[c]
                                                  ELSE next[c] + i[c] - Len(list[c])
  <2> DEFINE a == next[c] + i[c]
             n == Len(list[c])
  <2>1. (a < n => a % n = a) /\ (n <= a => a % n = a - n)
    BY <1>3, <1>4, RemainderOnce, Zenon
  <2>2. RR!idx(c) = a % n
    BY DEF RR!idx
  <2>3. a < n \/ n <= a
    BY <1>1, <1>3
  <2>4. QED
    BY <1>1, <1>3, <2>1, <2>2, <2>3
<1>6. RR!idx(c) \in 0 .. Len(list[c]) - 1
  BY <1>1, <1>3, <1>4, <1>5
<1>7. RR!Candidate(c) \in 1 .. N
  <2>1. RR!idx(c) + 1 \in 1 .. Len(list[c])
    BY <1>3, <1>6
  <2>2. \A j \in 1 .. Len(list[c]) : list[c][j] \in 1 .. N
    BY <1>1, ListFacts
  <2>3. QED
    BY <2>1, <2>2, Zenon DEF RR!Candidate
<1>8. list[c] = Pool => RR!Candidate(c) = RR!idx(c) + 1 /\ Len(list[c]) = N
  BY <1>2, <1>6, AlgorithmsAssumption DEF RR!Candidate, N
<1>9. RR!idx(c) \in 0 .. Period - 1
  BY <1>3, <1>6
<1>10. QED
  BY <1>1, <1>2, <1>5, <1>6, <1>7, <1>8, <1>9

(* Nothing is claimed of an empty history. *)
LEMMA Forgotten ==
  ASSUME recent' = <<>>
  PROVE  CoveredIn(recent)' /\ Follows' /\ recent' \in Seq(1 .. N) /\ Len(recent') = 0
  BY DEF CoveredIn, Follows

(* The first candidate of a call with the whole pool. *)
LEMMA CandidateBegun ==
  ASSUME NEW c \in Callers, list'[c] = Pool, i'[c] = 0, Pool \in RR!Lists,
         next'[c] \in 0 .. N - 1
  PROVE  RR!Candidate(c)' = next'[c] + 1
<1>1. N \in Nat \ {0} /\ Len(Pool) = N
  BY ListFacts DEF N
<1>2. (next'[c] + 0) % N = next'[c]
  <2>1. next'[c] + 0 = next'[c] /\ next'[c] \in Nat /\ next'[c] < N
    BY <1>1
  <2>2. next'[c] % N = next'[c]
    BY <1>1, <2>1, RemainderRange, Zenon
  <2>3. QED
    BY <2>1, <2>2, Zenon
<1>3. RR!idx(c)' = next'[c]
  BY <1>1, <1>2 DEF RR!idx
<1>4. QED
  BY <1>1, <1>3, AlgorithmsAssumption DEF RR!Candidate, N

(* A call goes on from the last pick, or disturbs the history. *)
LEMMA BeginKeeps ==
  ASSUME RotationInv, algo = "round_robin", UNCHANGED algo,
         NEW c \in Callers, NEW s \in RR!Lists, RR!Begin(c, s)
  PROVE  RotationInv'
<1>1. /\ pc[c] = "idle" /\ i[c] = 0 /\ UNCHANGED <<alive, i>>
      /\ pc' = [pc EXCEPT ![c] = "scan"] /\ list' = [list EXCEPT ![c] = s]
      /\ current' = (current + 1) % Period
      /\ next' = [next EXCEPT ![c] = current' % Len(s)]
      /\ recent' = IF s = Pool /\ RR!Alone(c) THEN recent ELSE <<>>
  BY DEF RR!Begin, RR!Goto, RotationInv, Scanning
<1>2. RoundRobinTyped
  BY DEF RotationInv
<1>3. /\ s # <<>> /\ Len(s) \in 1 .. N /\ Len(s) \in Nat \ {0} /\ Period \in Nat \ {0}
  BY ListFacts, PeriodIsLong
<1>4. /\ current' \in 0 .. Period - 1 /\ current' \in Nat
      /\ next'[c] = current' % Len(s) /\ next'[c] \in 0 .. Len(s) - 1
  <2>1. current \in Nat
    BY <1>2, <1>3 DEF RoundRobinTyped
  <2>2. current' \in 0 .. Period - 1 /\ current' \in Nat
    BY <1>1, <1>3, <2>1, RemainderRange
  <2>3. next'[c] = current' % Len(s)
    BY <1>1, <1>2 DEF RoundRobinTyped
  <2>4. QED
    BY <1>3, <2>2, <2>3, RemainderRange
<1>5. RoundRobinTyped'
  <2>1. recent' \in Seq(1 .. N) /\ Len(recent') <= N
    BY <1>1, <1>2, Forgotten, PoolFacts DEF RoundRobinTyped
  <2>2. next' \in [Callers -> Nat]
    BY <1>1, <1>2, <1>3, <1>4 DEF RoundRobinTyped
  <2>3. QED
    BY <1>1, <1>2, <1>4, <2>1, <2>2 DEF RoundRobinTyped
<1>6. \A d \in Callers : Scanning(d)'
  BY <1>1, <1>2, <1>3, <1>4 DEF RotationInv, RoundRobinTyped, Scanning
<1>7. CASE recent' = <<>>
  BY <1>5, <1>6, <1>7, Forgotten DEF RotationInv
<1>8. CASE recent' # <<>>
  <2>1. s = Pool /\ RR!Alone(c) /\ recent' = recent
    BY <1>1, <1>8
  <2>2. CoveredIn(recent)'
    BY <1>1, <2>1 DEF RotationInv, CoveredIn
  <2>3. Follows'
    <3>1. CASE (\A d \in Callers : pc[d] = "idle") /\ current = LastPick - 1
      <4>1. LastPick \in 1 .. N /\ N \in Nat \ {0} /\ N <= Period
        <5>1. recent \in Seq(1 .. N) /\ recent # <<>>
          BY <1>2, <1>8, <2>1 DEF RoundRobinTyped
        <5>2. N \in 1 .. N /\ N \in Nat \ {0}
          BY <1>3, PoolFacts
        <5>3. N <= Period
          BY <5>2, PeriodIsLong
        <5>4. QED
          BY <5>1, <5>2, <5>3 DEF LastPick
      <4>2. current' = IF LastPick = Period THEN 0 ELSE LastPick
        <5>1. current' = LastPick % Period
          BY <1>1, <3>1, <4>1
        <5>2. LastPick \in Nat /\ (LastPick < Period \/ LastPick = Period)
          BY <1>3, <4>1
        <5>3. LastPick < Period => LastPick % Period = LastPick
          BY <1>3, <5>2, RemainderRange, Zenon
        <5>4. Period % Period = 0
          BY <1>3, <5>2, RemainderRange, Zenon
        <5>5. QED
          BY <1>3, <5>1, <5>2, <5>3, <5>4
      <4>3. LastPick % N = IF LastPick = N THEN 0 ELSE LastPick
        <5>1. LastPick \in Nat /\ (LastPick < N \/ LastPick = N)
          BY <4>1
        <5>2. LastPick < N => LastPick % N = LastPick
          BY <4>1, <5>1, RemainderRange, Zenon
        <5>3. N % N = 0
          BY <4>1, <5>1, RemainderRange, Zenon
        <5>4. QED
          BY <4>1, <5>1, <5>2, <5>3
      <4>4. next'[c] = LastPick % N
        <5>1. next'[c] = current' % N
          BY <1>4, <2>1 DEF N
        <5>2. 0 % N = 0
          BY <4>1
        <5>3. CASE LastPick = Period
          <6>1. LastPick = N
            BY <4>1, <5>3
          <6>2. QED
            BY <4>2, <4>3, <5>1, <5>2, <5>3, <6>1
        <5>4. CASE LastPick # Period
          BY <4>2, <5>1, <5>4
        <5>5. QED
          BY <5>3, <5>4
      <4>5. RR!Candidate(c)' = (LastPick % N) + 1
        <5>1. list'[c] = Pool /\ i'[c] = 0 /\ next'[c] \in 0 .. N - 1
          BY <1>1, <1>2, <1>4, <2>1 DEF RoundRobinTyped, N
        <5>2. Pool \in RR!Lists
          BY <2>1
        <5>3. QED
          BY <4>4, <5>1, <5>2, CandidateBegun
      <4>6. LastPick' = LastPick
        BY <2>1 DEF LastPick
      <4>7. GoesOn(c)'
        <5>1. pc'[c] = "scan" /\ RR!Alone(c)' /\ list'[c] = Pool
          BY <1>1, <1>2, <2>1 DEF RR!Alone, RoundRobinTyped
        <5>2. ASSUME NEW b \in 1 .. N, Within(LastPick, b, (LastPick % N) + 1)
              PROVE  b = (LastPick % N) + 1
          BY <4>1, <4>3, <5>2 DEF Within
        <5>3. QED
          BY <4>4, <4>5, <4>6, <5>1, <5>2 DEF GoesOn, Within
      <4>8. QED
        BY <4>7 DEF Follows
    <3>2. CASE \E d \in Callers : GoesOn(d)
      BY <1>1, <2>1, <3>2 DEF GoesOn, RR!Alone
    <3>3. CASE (\A b \in 1 .. N : ~alive[b]) /\ (\A d \in Callers : pc[d] # "store")
      BY <1>1, <1>2, <3>3 DEF Follows, RoundRobinTyped
    <3>4. QED
      BY <1>8, <2>1, <3>1, <3>2, <3>3 DEF RotationInv, Follows
  <2>4. QED
    BY <1>5, <1>6, <2>2, <2>3 DEF RotationInv
<1>9. QED
  BY <1>7, <1>8

LEMMA PickTyped == RoundRobinTyped /\ recent # <<>> => LastPick \in 1 .. N
  BY PoolFacts DEF RoundRobinTyped, LastPick

(* The one that goes on is the only call there is. *)
LEMMA WhoGoesOn ==
  ASSUME RotationInv, recent # <<>>, NEW c \in Callers, pc[c] # "idle"
  PROVE  \/ GoesOn(c)
         \/ /\ \A b \in 1 .. N : ~alive[b]
            /\ \A d \in Callers : pc[d] # "store"
  BY DEF RotationInv, Follows, GoesOn, RR!Alone

LEMMA FoundKeeps ==
  ASSUME RotationInv, UNCHANGED algo, NEW c \in Callers, RR!Found(c)
  PROVE  RotationInv'
<1>1. /\ pc[c] = "scan" /\ alive[RR!Candidate(c)]
      /\ pc' = [pc EXCEPT ![c] = "store"]
      /\ UNCHANGED <<alive, current, list, next, i, recent>>
  BY DEF RR!Found, RR!Goto, RR!locals
<1>2. RoundRobinTyped' /\ (\A d \in Callers : Scanning(d)') /\ CoveredIn(recent)'
      /\ (algo' # "round_robin" => recent' = <<>>)
  BY <1>1 DEF RotationInv, RoundRobinTyped, Scanning, CoveredIn
<1>3. RR!Candidate(c) \in 1 .. N
  BY <1>1, CandidateFacts DEF RotationInv
<1>4. ASSUME recent # <<>> PROVE GoesOn(c)'
  <2>1. GoesOn(c)
    BY <1>1, <1>3, <1>4, WhoGoesOn
  <2>2. RR!Candidate(c)' = RR!Candidate(c) /\ LastPick' = LastPick
    BY <1>1 DEF RR!Candidate, RR!idx, LastPick
  <2>3. pc'[c] = "store" /\ RR!Alone(c)'
    BY <1>1, <2>1 DEF GoesOn, RR!Alone, RotationInv, RoundRobinTyped
  <2>4. QED
    BY <1>1, <2>1, <2>2, <2>3 DEF GoesOn
<1>5. QED
  BY <1>1, <1>2, <1>4 DEF RotationInv, Follows

LEMMA SkipKeeps ==
  ASSUME RotationInv, UNCHANGED algo, NEW c \in Callers, RR!Skip(c)
  PROVE  RotationInv'
<1>1. /\ pc[c] = "scan" /\ ~alive[RR!Candidate(c)]
      /\ UNCHANGED <<alive, current, recent>> /\ LastPick' = LastPick
  BY DEF RR!Skip, LastPick
<1>2. /\ RoundRobinTyped /\ list[c] # <<>> /\ next[c] < Len(list[c]) /\ i[c] < Len(list[c])
      /\ list[c] \in RR!Lists
      /\ next[c] \in Nat /\ i[c] \in Nat /\ Len(list[c]) \in Nat
      /\ RR!Candidate(c) \in 1 .. N
  <2>1. RoundRobinTyped /\ Scanning(c)
    BY DEF RotationInv
  <2>2. list[c] \in RR!Lists /\ Len(list[c]) \in 1 .. N /\ RR!Candidate(c) \in 1 .. N
    BY <1>1, <2>1, CandidateFacts
  <2>3. QED
    BY <1>1, <2>1, <2>2 DEF RoundRobinTyped, Scanning
<1>3. CoveredIn(recent)' /\ (algo' # "round_robin" => recent' = <<>>)
  BY <1>1 DEF RotationInv, CoveredIn
<1>4. CASE ~RR!Exhausted(c) /\ i' = [i EXCEPT ![c] = @ + 1] /\ UNCHANGED <<pc, list, next>>
  <2>1. i'[c] = i[c] + 1 /\ i[c] + 1 < Len(list[c])
    BY <1>2, <1>4 DEF RR!Exhausted, RoundRobinTyped
  <2>2. RoundRobinTyped' /\ \A d \in Callers : Scanning(d)'
    BY <1>1, <1>2, <1>4, <2>1 DEF RotationInv, RoundRobinTyped, Scanning
  <2>3. ASSUME GoesOn(c), recent # <<>> PROVE GoesOn(c)'
    <3>1. list[c] = Pool /\ Len(list[c]) = N /\ N \in Nat
      BY <1>2, <2>3 DEF GoesOn, N
    <3>2. /\ RR!Candidate(c) = (IF next[c] + i[c] < N THEN next[c] + i[c]
                                                      ELSE next[c] + i[c] - N) + 1
      BY <1>1, <1>2, <3>1, CandidateFacts DEF RotationInv
    <3>3. RR!Candidate(c)' = IF RR!Candidate(c) = N THEN 1 ELSE RR!Candidate(c) + 1
      <4>1. N \in Nat \ {0}
        BY <1>2, <3>1
      <4>2. PICK a \in 0 .. 2 * N - 1 : a = next[c] + i'[c]
        BY <1>2, <2>1, <3>1
      <4>3. (a < N => a % N = a) /\ (N <= a => a % N = a - N)
        BY <4>1, RemainderOnce, Zenon
      <4>4. RR!idx(c)' = a % N
        BY <1>4, <3>1, <4>2 DEF RR!idx
      <4>5. CASE a < N
        <5>1. RR!idx(c)' = a
          BY <4>3, <4>4, <4>5, Zenon
        <5>2. RR!Candidate(c)' = a + 1
          BY <1>4, <3>1, <4>1, <4>5, <5>1, AlgorithmsAssumption DEF RR!Candidate, N
        <5>3. QED
          BY <1>2, <2>1, <3>1, <3>2, <4>1, <4>2, <4>5, <5>2
      <4>6. CASE N <= a
        <5>1. RR!idx(c)' = a - N
          BY <4>3, <4>4, <4>6, Zenon
        <5>2. RR!Candidate(c)' = (a - N) + 1
          BY <1>4, <3>1, <4>1, <4>6, <5>1, AlgorithmsAssumption DEF RR!Candidate, N
        <5>3. next[c] + i[c] = a - 1 /\ a \in Int /\ N \in Int
          BY <1>2, <2>1, <4>1, <4>2
        <5>4. CASE a = N
          <6>1. RR!Candidate(c) = N
            BY <3>2, <5>3, <5>4
          <6>2. QED
            BY <5>2, <5>4, <6>1, <4>1
        <5>5. CASE a # N
          <6>1. ~(a - 1 < N) /\ a - N < N
            BY <4>1, <4>6, <5>3, <5>5
          <6>2. RR!Candidate(c) = (next[c] + i[c] - N) + 1
            <7>1. ~(next[c] + i[c] < N)
              BY <5>3, <6>1
            <7>2. QED
              BY <3>2, <7>1, Zenon
          <6>3. QED
            <7>1. RR!Candidate(c) = a - N
              BY <1>2, <5>3, <6>2
            <7>2. RR!Candidate(c) # N /\ RR!Candidate(c) + 1 = (a - N) + 1
              BY <5>3, <6>1, <7>1
            <7>3. QED
              BY <5>2, <7>2
        <5>6. QED
          BY <5>4, <5>5
      <4>7. QED
        BY <4>1, <4>5, <4>6
    <3>4. LastPick \in Int
      BY <1>2, <2>3, PickTyped
    <3>5. ASSUME NEW b \in 1 .. N, alive[b], Within(LastPick, b, RR!Candidate(c)')
          PROVE  b = RR!Candidate(c)'
      <4>1. Within(LastPick, b, RR!Candidate(c)) \/ b = RR!Candidate(c)'
        BY <1>2, <3>1, <3>3, <3>4, <3>5 DEF Within
      <4>2. QED
        BY <1>1, <2>3, <3>5, <4>1 DEF GoesOn
    <3>6. QED
      BY <1>1, <1>4, <2>3, <3>5 DEF GoesOn, RR!Alone
  <2>4. Follows'
    <3>1. SUFFICES ASSUME recent # <<>>
                   PROVE  \/ GoesOn(c)'
                          \/ /\ \A b \in 1 .. N : ~alive'[b]
                             /\ \A d \in Callers : pc'[d] # "store"
      BY <1>1 DEF Follows
    <3>2. QED
      BY <1>1, <1>4, <2>3, <3>1, WhoGoesOn
  <2>5. QED
    BY <1>3, <2>2, <2>4 DEF RotationInv
<1>5. CASE RR!Exhausted(c) /\ RR!Return(c)
  <2>1. /\ pc' = [pc EXCEPT ![c] = "idle"] /\ list' = [list EXCEPT ![c] = <<>>]
        /\ next' = [next EXCEPT ![c] = 0] /\ i' = [i EXCEPT ![c] = 0]
    BY <1>5 DEF RR!Return, RR!Goto
  <2>2. RoundRobinTyped' /\ \A d \in Callers : Scanning(d)'
    BY <1>1, <1>2, <2>1 DEF RotationInv, RoundRobinTyped, Scanning
  <2>3. ASSUME GoesOn(c), recent # <<>> PROVE \A b \in 1 .. N : ~alive[b]
    <3>1. /\ list[c] = Pool /\ Len(list[c]) = N /\ next[c] = LastPick % N
          /\ LastPick \in 1 .. N /\ i[c] = N - 1 /\ N \in Nat \ {0}
      BY <1>2, <1>5, <2>3, PickTyped DEF GoesOn, N, RR!Exhausted
    <3>2. RR!idx(c) = LastPick - 1
      <4>1. ((LastPick % N) + (N - 1)) % N = LastPick - 1
        BY <3>1, RoundTrip, Zenon
      <4>2. QED
        BY <3>1, <4>1 DEF RR!idx
    <3>3. RR!Candidate(c) = LastPick
      BY <1>1, <1>2, <3>1, <3>2, CandidateFacts DEF RotationInv
    <3>4. \A b \in 1 .. N : Within(LastPick, b, LastPick)
      BY <3>1 DEF Within
    <3>5. QED
      BY <1>1, <2>3, <3>3, <3>4 DEF GoesOn
  <2>4. Follows'
    <3>1. SUFFICES ASSUME recent # <<>>
                   PROVE  /\ \A b \in 1 .. N : ~alive'[b]
                          /\ \A d \in Callers : pc'[d] # "store"
      BY <1>1 DEF Follows
    <3>2. CASE GoesOn(c)
      BY <1>1, <1>2, <2>1, <2>3, <3>1, <3>2 DEF GoesOn, RR!Alone, RoundRobinTyped
    <3>3. CASE /\ \A b \in 1 .. N : ~alive[b]
               /\ \A d \in Callers : pc[d] # "store"
      BY <1>1, <1>2, <2>1, <3>3 DEF RoundRobinTyped
    <3>4. QED
      BY <1>1, <3>1, <3>2, <3>3, WhoGoesOn
  <2>5. QED
    BY <1>3, <2>2, <2>4 DEF RotationInv
<1>6. QED
  BY <1>4, <1>5 DEF RR!Skip

(* What is met between a and c is met between a and d, or between d and c. *)
LEMMA WithinSplit ==
  ASSUME NEW a \in Int, NEW b \in Int, NEW c \in Int, NEW d \in Int, Within(a, b, c)
  PROVE  Within(a, b, d) \/ Within(d, b, c)
  BY DEF Within

(* A pick that passed nothing alive over since the last one extends the     *)
(* history, which forgets its oldest pick when it is long enough.          *)
LEMMA PickExtends ==
  ASSUME NEW s \in Seq(1 .. N), CoveredIn(s), NEW x \in 1 .. N,
         s # <<>> => \A b \in 1 .. N : alive[b] /\ Within(s[Len(s)], b, x) => b = x
  PROVE  CoveredIn(Append(s, x))
<1> DEFINE t == Append(s, x)
           m == Len(s)
<1>1. /\ t \in Seq(1 .. N) /\ Len(t) = m + 1 /\ t[m + 1] = x /\ m \in Nat
      /\ \A j \in 1 .. m : t[j] = s[j] /\ s[j] \in 1 .. N
  BY PoolFacts
<1> HIDE DEF t
<1>0. SUFFICES CoveredIn(t)
  BY DEF t
<1>2. SUFFICES ASSUME NEW k \in 1 .. Len(t), NEW j \in 1 .. k - 1, NEW b \in 1 .. N,
                      alive[b], Within(t[j], b, t[k])
               PROVE  \E l \in j + 1 .. k : t[l] = b
  BY DEF CoveredIn
<1>3. CASE k \in 1 .. m
  <2>1. PICK l \in j + 1 .. k : s[l] = b
    BY <1>1, <1>2, <1>3 DEF CoveredIn
  <2>2. l \in 1 .. m
    BY <1>1, <1>3, <2>1
  <2>3. QED
    BY <1>1, <2>1, <2>2
<1>4. CASE k = m + 1
  <2>1. j \in 1 .. m /\ m \in 1 .. m /\ s # <<>> /\ s[j] \in Int /\ s[m] \in Int
    BY <1>1, <1>4
  <2>2. CASE b = x
    BY <1>1, <1>4, <2>1, <2>2
  <2>3. CASE b # x
    <3>1. ~Within(s[m], b, x)
      BY <1>2, <2>1, <2>3
    <3>2. Within(s[j], b, s[m])
      BY <1>1, <1>2, <1>4, <2>1, <3>1, WithinSplit
    <3>3. j \in 1 .. m - 1
      BY <1>1, <1>2, <1>4, <2>1, <3>1
    <3>4. PICK l \in j + 1 .. m : s[l] = b
      BY <1>2, <2>1, <3>2, <3>3 DEF CoveredIn
    <3>5. l \in 1 .. m /\ l \in j + 1 .. k
      BY <1>1, <1>4, <2>1, <3>4
    <3>6. QED
      BY <1>1, <3>4, <3>5
  <2>4. QED
    BY <2>2, <2>3
<1>5. QED
  BY <1>1, <1>3, <1>4

LEMMA OldestForgotten ==
  ASSUME NEW s \in Seq(1 .. N), s # <<>>, CoveredIn(s)
  PROVE  CoveredIn(Tail(s))
<1> DEFINE t == Tail(s)
<1>1. /\ t \in Seq(1 .. N) /\ Len(t) = Len(s) - 1 /\ Len(s) \in Nat \ {0}
      /\ \A j \in 1 .. Len(t) : t[j] = s[j + 1]
  BY PoolFacts
<1>2. SUFFICES ASSUME NEW k \in 1 .. Len(t), NEW j \in 1 .. k - 1, NEW b \in 1 .. N,
                      alive[b], Within(t[j], b, t[k])
               PROVE  \E l \in j + 1 .. k : t[l] = b
  BY DEF CoveredIn
<1>3. /\ k + 1 \in 1 .. Len(s) /\ j + 1 \in 1 .. (k + 1) - 1
      /\ t[j] = s[j + 1] /\ t[k] = s[k + 1]
  BY <1>1
<1>4. PICK l \in (j + 1) + 1 .. k + 1 : s[l] = b
  BY <1>2, <1>3 DEF CoveredIn
<1>5. l - 1 \in j + 1 .. k /\ t[l - 1] = s[l]
  BY <1>1, <1>4
<1>6. QED
  BY <1>4, <1>5

LEMMA TailFacts ==
  ASSUME NEW s \in Seq(1 .. N), s # <<>>
  PROVE  /\ Tail(s) \in Seq(1 .. N) /\ Len(Tail(s)) = Len(s) - 1 /\ Len(s) \in Nat \ {0}
         /\ Tail(s) # <<>> => Tail(s)[Len(Tail(s))] = s[Len(s)]
<1>1. Tail(s) \in Seq(1 .. N) /\ Len(Tail(s)) = Len(s) - 1 /\ Len(s) \in Nat \ {0}
  BY PoolFacts
<1>2. ASSUME Tail(s) # <<>> PROVE Tail(s)[Len(Tail(s))] = s[Len(s)]
  <2>1. Len(Tail(s)) \in 1 .. Len(s) - 1
    BY <1>1, <1>2
  <2>2. \A j \in 1 .. Len(s) - 1 : Tail(s)[j] = s[j + 1]
    BY <1>1
  <2>3. QED
    BY <1>1, <2>1, <2>2
<1>3. QED
  BY <1>1, <1>2

(* The pick is stored and remembered. *)
LEMMA StoreKeeps ==
  ASSUME RotationInv, algo = "round_robin", UNCHANGED algo, NEW c \in Callers, RR!Store(c)
  PROVE  RotationInv'
<1> DEFINE x == RR!Candidate(c)
           s == Append(recent, x)
<1>1. /\ pc[c] = "store" /\ UNCHANGED alive /\ current' = RR!idx(c)
      /\ pc' = [pc EXCEPT ![c] = "idle"] /\ list' = [list EXCEPT ![c] = <<>>]
      /\ next' = [next EXCEPT ![c] = 0] /\ i' = [i EXCEPT ![c] = 0]
      /\ recent' = IF RR!Alone(c) /\ list[c] = Pool
                   THEN IF Len(s) > N THEN Tail(s) ELSE s
                   ELSE <<>>
  BY DEF RR!Store, RR!Stored, RR!Return, RR!Goto, N
<1>2. RoundRobinTyped /\ Scanning(c)
  BY DEF RotationInv
<1>3. /\ RR!idx(c) \in 0 .. Period - 1 /\ x \in 1 .. N
      /\ list[c] = Pool => x = RR!idx(c) + 1
  BY <1>1, <1>2, CandidateFacts
<1>4. /\ s \in Seq(1 .. N) /\ Len(s) = Len(recent) + 1 /\ s[Len(s)] = x
      /\ recent \in Seq(1 .. N) /\ Len(recent) <= N /\ s # <<>> /\ N \in Nat
  <2>1. recent \in Seq(1 .. N) /\ Len(recent) <= N /\ N \in Nat
    BY <1>2, PoolFacts DEF RoundRobinTyped
  <2>2. \A y \in 1 .. N : /\ Append(recent, y) \in Seq(1 .. N)
                          /\ Len(Append(recent, y)) = Len(recent) + 1
                          /\ Append(recent, y)[Len(recent) + 1] = y
                          /\ Append(recent, y) # <<>>
    BY <2>1
  <2>3. QED
    BY <1>3, <2>1, <2>2, Zenon
<1>5. \A d \in Callers : Scanning(d)'
  BY <1>1, <1>2 DEF RotationInv, RoundRobinTyped, Scanning
<1> HIDE DEF x, s
<1>6. recent' \in Seq(1 .. N) /\ Len(recent') <= N
  <2>1. CASE recent' = <<>>
    BY <1>4, <2>1
  <2>2. CASE recent' = Tail(s)
    <3>1. Tail(s) \in Seq(1 .. N) /\ Len(Tail(s)) = Len(s) - 1
      BY <1>4, TailFacts
    <3>2. Len(recent) \in Nat
      BY <1>4
    <3>3. Len(Tail(s)) <= N
      BY <1>4, <3>1, <3>2
    <3>4. QED
      BY <2>2, <3>1, <3>3
  <2>3. CASE recent' = s /\ Len(s) <= N
    BY <1>4, <2>3
  <2>4. Len(s) > N \/ Len(s) <= N
    BY <1>4
  <2>5. QED
    BY <1>1, <2>1, <2>2, <2>3, <2>4
<1>7. RoundRobinTyped'
  <2>1. next' \in [Callers -> Nat] /\ i' \in [Callers -> Nat]
    BY <1>1, <1>2 DEF RoundRobinTyped
  <2>2. list' \in [Callers -> RR!Lists \cup {<<>>}]
    BY <1>1, <1>2 DEF RoundRobinTyped
  <2>3. QED
    BY <1>1, <1>2, <1>3, <1>6, <2>1, <2>2 DEF RoundRobinTyped
<1>8. CASE recent' = <<>>
  BY <1>5, <1>7, <1>8, Forgotten DEF RotationInv
<1>9. CASE recent' # <<>>
  <2>1. RR!Alone(c) /\ list[c] = Pool /\ recent' = IF Len(s) > N THEN Tail(s) ELSE s
    BY <1>1, <1>9
  <2>2. ASSUME recent # <<>>, NEW b \in 1 .. N, alive[b], Within(recent[Len(recent)], b, x)
        PROVE  b = x
    <3>1. GoesOn(c)
      BY <1>1, <2>2, WhoGoesOn
    <3>2. QED
      BY <2>2, <3>1 DEF GoesOn, LastPick, x
  <2>3. CoveredIn(s)
    <3>1. CoveredIn(recent)
      BY DEF RotationInv
    <3>2. recent # <<>> => \A b \in 1 .. N : alive[b] /\ Within(recent[Len(recent)], b, x)
                                               => b = x
      BY <2>2, Zenon
    <3>3. CoveredIn(Append(recent, x))
      BY <1>3, <1>4, <3>1, <3>2, PickExtends, Zenon
    <3>4. QED
      BY <3>3 DEF s
  <2>4. CoveredIn(Tail(s))
    BY <1>4, <2>3, OldestForgotten
  <2>5. CoveredIn(recent)'
    <3>1. CoveredIn(recent')
      BY <2>1, <2>3, <2>4
    <3>2. QED
      <4>1. alive' = alive
        BY <1>1
      <4>2. CoveredIn(recent)' <=> CoveredIn(recent')
        BY <4>1 DEF CoveredIn
      <4>3. QED
        BY <3>1, <4>2
  <2>6. Follows'
    <3>1. \A d \in Callers : pc'[d] = "idle"
      BY <1>1, <1>2, <2>1 DEF RR!Alone, RoundRobinTyped
    <3>2. recent'[Len(recent')] = x
      <4>1. CASE Len(s) > N
        <5>1. recent' = Tail(s) /\ Tail(s) # <<>>
          BY <1>9, <2>1, <4>1
        <5>2. QED
          BY <1>4, <5>1, TailFacts
      <4>2. CASE ~(Len(s) > N)
        BY <1>4, <2>1, <4>2
      <4>3. QED
        BY <4>1, <4>2
    <3>3. current' = LastPick' - 1
      <4>1. current' = x - 1
        BY <1>1, <1>3, <2>1
      <4>2. QED
        BY <3>2, <4>1 DEF LastPick
    <3>4. QED
      BY <3>1, <3>3 DEF Follows
  <2>7. QED
    BY <1>5, <1>7, <2>5, <2>6 DEF RotationInv
<1>10. QED
  BY <1>8, <1>9

(* A backend that dies or comes back, and a new algorithm. *)
LEMMA FlipKeeps ==
  ASSUME RotationInv, UNCHANGED algo, NEW b \in RR!Backends, RR!Flip(b)
  PROVE  RotationInv'
<1>1. /\ alive' = [alive EXCEPT ![b] = ~alive[b]] /\ recent' = <<>>
      /\ UNCHANGED <<current, pc, list, next, i>>
  BY DEF RR!Flip, RR!locals
<1>2. alive' \in [1 .. N -> BOOLEAN]
  BY <1>1 DEF RotationInv, RoundRobinTyped
<1>3. RoundRobinTyped' /\ \A c \in Callers : Scanning(c)'
  BY <1>1, <1>2, Forgotten, PoolFacts DEF RotationInv, RoundRobinTyped, Scanning
<1>4. QED
  BY <1>1, <1>3, Forgotten DEF RotationInv

LEMMA SetAlgorithmKeeps ==
  ASSUME RotationInv, NEW name \in Names, SetAlgorithm(name)
  PROVE  RotationInv'
<1>1. 0 \in 0 .. Period - 1
  BY AlgorithmsAssumption
<1>2. recent' = <<>> /\ Len(recent') <= N
  BY Forgotten, PoolFacts DEF SetAlgorithm
<1>3. RoundRobinTyped' /\ \A c \in Callers : Scanning(c)'
  BY <1>1, <1>2, Forgotten DEF RotationInv, RoundRobinTyped, Scanning, SetAlgorithm
<1>4. QED
  BY <1>2, <1>3, Forgotten DEF RotationInv

LEMMA WeightedKeeps ==
  ASSUME RotationInv, Weighted
  PROVE  RotationInv'
<1>1. /\ algo = "weighted_round_robin" /\ recent = <<>>
      /\ UNCHANGED <<algo, current, pc, list, next, i, recent>> /\ WRR!Next
  BY DEF Weighted, ofRR, RotationInv
<1>2. alive \in [ToSet(Pool) -> BOOLEAN] /\ ToSet(Pool) = 1 .. N
  BY PoolFacts DEF RotationInv, RoundRobinTyped
<1>3. alive' \in [ToSet(Pool) -> BOOLEAN]
  <2>1. ASSUME NEW S \in SUBSET ToSet(Pool), WRR!Call(S) PROVE alive' = alive
    BY <2>1 DEF WRR!Call
  <2>2. ASSUME NEW S \in SUBSET ToSet(Pool), NEW T \in SUBSET S, WRR!TornCall(S, T)
        PROVE  alive' \in [ToSet(Pool) -> BOOLEAN]
    <3>1. alive' = [b \in ToSet(Pool) |-> IF b \in S THEN b \in T ELSE alive[b]]
      BY <2>2 DEF WRR!TornCall
    <3>2. ASSUME NEW b \in ToSet(Pool) PROVE alive'[b] \in BOOLEAN
      <4>1. (b \in T) \in BOOLEAN /\ alive[b] \in BOOLEAN
        BY <1>2
      <4>2. CASE b \in S
        BY <3>1, <4>1, <4>2, Zenon
      <4>3. CASE b \notin S
        BY <3>1, <4>1, <4>3, Zenon
      <4>4. QED
        BY <4>2, <4>3
    <3>3. QED
      BY <3>1, <3>2, Zenon
  <2>3. ASSUME NEW b \in ToSet(Pool), WRR!Flip(b) PROVE alive' \in [ToSet(Pool) -> BOOLEAN]
    BY <1>2, <2>3 DEF WRR!Flip
  <2>4. QED
    BY <1>1, <1>2, <2>1, <2>2, <2>3 DEF WRR!Next
<1>4. RoundRobinTyped' /\ \A c \in Callers : Scanning(c)'
  BY <1>1, <1>2, <1>3 DEF RotationInv, RoundRobinTyped, Scanning
<1>5. QED
  BY <1>1, <1>4, Forgotten DEF RotationInv

-----------------------------------------------------------------------------
(* The invariant holds at the start and every step keeps it. *)
LEMMA RotationInit == Init => RotationInv
<1> SUFFICES ASSUME Init PROVE RotationInv
  OBVIOUS
<1>1. /\ alive = [b \in 1 .. N |-> TRUE] /\ current = 0 /\ recent = <<>> /\ algo \in Names
      /\ pc = [c \in Callers |-> "idle"] /\ list = [c \in Callers |-> <<>>]
      /\ next = [c \in Callers |-> 0] /\ i = [c \in Callers |-> 0]
  BY PoolFacts DEF Init, RR!Init
<1>2. 0 \in 0 .. Period - 1 /\ Len(recent) <= N /\ recent \in Seq(1 .. N)
  BY <1>1, AlgorithmsAssumption, PoolFacts
<1>3. RoundRobinTyped /\ \A c \in Callers : Scanning(c)
  BY <1>1, <1>2 DEF RoundRobinTyped, Scanning
<1>4. CoveredIn(recent) /\ Follows
  BY <1>1 DEF CoveredIn, Follows
<1>5. QED
  BY <1>1, <1>3, <1>4 DEF RotationInv

LEMMA RotationStep == RotationInv /\ [Next]_vars => RotationInv'
<1> SUFFICES ASSUME RotationInv, [Next]_vars PROVE RotationInv'
  OBVIOUS
<1>1. ASSUME NEW c \in Callers, Begin(c) PROVE RotationInv'
  <2>1. algo = "round_robin" /\ UNCHANGED algo /\ RR!Begin(c, Pool)
    BY <1>1 DEF Begin, RoundRobin
  <2>2. Pool \in RR!Lists
    BY <2>1, PoolFacts DEF RR!Begin
  <2>3. QED
    BY <2>1, <2>2, BeginKeeps
<1>2. ASSUME NEW c \in Callers, Run(c) PROVE RotationInv'
  <2>1. algo = "round_robin" /\ UNCHANGED algo /\ RR!Run(c)
    BY <1>2 DEF Run, RoundRobin
  <2>2. QED
    BY <2>1, FoundKeeps, SkipKeeps, StoreKeeps DEF RR!Run
<1>3. CASE Weighted
  BY <1>3, WeightedKeeps
<1>4. CASE Disturb
  <2>1. CASE RoundRobin(RR!Disturb)
    <3>1. algo = "round_robin" /\ UNCHANGED algo /\ RR!Disturb
      BY <2>1 DEF RoundRobin
    <3>2. QED
      BY <3>1, FlipKeeps, BeginKeeps DEF RR!Disturb
  <2>2. CASE \E name \in Names : SetAlgorithm(name)
    BY <2>2, SetAlgorithmKeeps
  <2>3. QED
    BY <1>4, <2>1, <2>2 DEF Disturb
<1>5. CASE UNCHANGED vars
  <2>1. UNCHANGED <<algo, alive, current, pc, list, next, i, recent>>
    BY <1>5 DEF vars, ofRR
  <2>2. \A c \in Callers : GoesOn(c) => GoesOn(c)'
    BY <2>1 DEF GoesOn, RR!Alone, RR!Candidate, RR!idx, LastPick
  <2>3. Follows'
    BY <2>1, <2>2 DEF RotationInv, Follows, LastPick
  <2>4. QED
    BY <2>1, <2>3 DEF RotationInv, RoundRobinTyped, Scanning, CoveredIn
<1>6. QED
  BY <1>1, <1>2, <1>3, <1>4, <1>5 DEF Next

-----------------------------------------------------------------------------
(* Between two equal picks everything alive was picked, so they are at     *)
(* least as far apart as there are backends alive.                         *)
LEMMA PickedAgainLater ==
  ASSUME RotationInv, NEW k \in 1 .. Len(recent), NEW j \in 1 .. k - 1, recent[j] = recent[k]
  PROVE  Cardinality(RR!Alive) <= k - j
<1> DEFINE S == j + 1 .. k
           f == [l \in S |-> recent[l]]
           T == {recent[l] : l \in S}
<1>1. /\ recent \in Seq(1 .. N) /\ Len(recent) \in Nat /\ j \in Int /\ k \in Int
      /\ recent[j] \in Int
  BY PoolFacts DEF RotationInv, RoundRobinTyped
<1>2. IsFiniteSet(S) /\ Cardinality(S) = k - j
  <2>1. IsFiniteSet(S) /\ Cardinality(S) = IF j + 1 > k THEN 0 ELSE k - (j + 1) + 1
    BY <1>1, FS_Interval
  <2>2. QED
    BY <1>1, <2>1
<1>3. f \in Surjection(S, T)
  BY DEF Surjection
<1>4. IsFiniteSet(T) /\ Cardinality(T) <= Cardinality(S)
  BY <1>2, <1>3, FS_Surjection
<1>5. RR!Alive \in SUBSET T
  <2>1. ASSUME NEW b \in 1 .. N, alive[b] PROVE \E l \in S : recent[l] = b
    <3>1. Within(recent[j], b, recent[k])
      BY <1>1 DEF Within
    <3>2. QED
      BY <2>1, <3>1 DEF RotationInv, CoveredIn
  <2>2. QED
    BY <2>1, PoolFacts DEF RR!Alive
<1>6. Cardinality(RR!Alive) <= Cardinality(T) /\ IsFiniteSet(RR!Alive)
  BY <1>4, <1>5, FS_Subset
<1>7. Cardinality(RR!Alive) \in Nat /\ Cardinality(T) \in Nat
  BY <1>4, <1>6, FS_CardinalityType
<1>8. QED
  BY <1>1, <1>2, <1>4, <1>6, <1>7

LEMMA RotationIsEven == RotationInv => EvenRotation
<1> SUFFICES ASSUME RotationInv PROVE EvenRotation
  OBVIOUS
<1> DEFINE n == Cardinality(RR!Alive)
<1>1. n \in Nat
  <2>1. RR!Alive \in SUBSET (1 .. N) /\ IsFiniteSet(1 .. N)
    BY PoolFacts, FS_Interval DEF RR!Alive
  <2>2. QED
    BY <2>1, FS_Subset, FS_CardinalityType
<1>2. recent \in Seq(1 .. N)
  BY DEF RotationInv, RoundRobinTyped
<1>3. SUFFICES ASSUME NEW j \in 1 .. Len(recent) - n + 1
               PROVE  RR!IsInjective(SubSeq(recent, j, j + n - 1))
  <2>1. RR!Cardinality(RR!Alive) = n
    BY DEF RR!Cardinality, Cardinality
  <2>2. QED
    BY <2>1 DEF EvenRotation, RR!EvenRotation
<1> HIDE DEF n
<1> DEFINE s == SubSeq(recent, j, j + n - 1)
<1>4. DOMAIN s = 1 .. n /\ \A x \in 1 .. n : s[x] = recent[j + x - 1]
  <2>1. Len(recent) \in Nat /\ j \in Nat \ {0} /\ j + n - 1 \in Int /\ j + n - 1 <= Len(recent)
    BY <1>1, <1>2, PoolFacts
  <2>2. j \in Int /\ \A k \in j .. j + n - 1 : recent[k] \in 1 .. N
    <3>1. \A k \in 1 .. Len(recent) : recent[k] \in 1 .. N
      BY <1>2, ElementOfSeq, Zenon
    <3>2. \A k \in j .. j + n - 1 : k \in 1 .. Len(recent)
      BY <1>1, <2>1
    <3>3. QED
      BY <2>1, <3>1, <3>2
  <2>3. /\ s \in Seq(1 .. N)
        /\ Len(s) = IF j <= j + n - 1 THEN (j + n - 1) - j + 1 ELSE 0
        /\ \A k \in 1 .. (j + n - 1) - j + 1 : s[k] = recent[j + k - 1]
    BY <2>1, <2>2, SubSeqProperties
  <2>4. (j + n - 1) - j + 1 = n /\ Len(s) = n /\ DOMAIN s = 1 .. Len(s)
    BY <1>1, <2>1, <2>3
  <2>5. QED
    BY <2>3, <2>4
<1>5. ASSUME NEW x \in 1 .. n, NEW y \in 1 .. n, x < y, s[x] = s[y] PROVE FALSE
  <2>1. /\ j + y - 1 \in 1 .. Len(recent) /\ j + x - 1 \in 1 .. (j + y - 1) - 1
        /\ recent[j + x - 1] = recent[j + y - 1]
    <3>1. Len(recent) \in Nat /\ j + n - 1 <= Len(recent) /\ j \in Nat \ {0}
      BY <1>1, <1>2, PoolFacts
    <3>2. s[x] = recent[j + x - 1] /\ s[y] = recent[j + y - 1]
      BY <1>4
    <3>3. j + y - 1 \in 1 .. Len(recent) /\ j + x - 1 \in 1 .. (j + y - 1) - 1
      BY <1>1, <1>5, <3>1
    <3>4. QED
      BY <1>5, <3>2, <3>3
  <2>2. n <= (j + y - 1) - (j + x - 1)
    BY <2>1, PickedAgainLater DEF n
  <2>3. QED
    BY <1>1, <1>5, <2>2
<1>6. ASSUME NEW x \in 1 .. n, NEW y \in 1 .. n, s[x] = s[y] PROVE x = y
  <2>1. x < y \/ y < x \/ x = y
    BY <1>1
  <2>2. QED
    BY <1>5, <1>6, <2>1
<1>7. QED
  BY <1>4, <1>6 DEF RR!IsInjective

(***************************************************************************)
(* Round robin "distributes requests evenly across alive backends"         *)
(* (round_robin.go:9): as many picks in a row as there are backends alive  *)
(* are all different, for a pool of any size, any number of callers and    *)
(* any lists that other calls disturb the counter with.                    *)
(***************************************************************************)
THEOREM RotatesEvenly == FairSpec => []EvenRotation
<1>1. Init => RotationInv
  BY RotationInit
<1>2. RotationInv /\ [Next]_vars => RotationInv'
  BY RotationStep
<1>3. RotationInv => EvenRotation
  BY RotationIsEven
<1>4. QED
  BY <1>1, <1>2, <1>3, PTL DEF FairSpec

-----------------------------------------------------------------------------
(* The weights of the pool, and the ladder for their sums. *)
U     == [b \in 1 .. N |-> WRR!weight(b)]
Round == SumOver(U, 1 .. N)[1 .. N]

Cap(t) == [k \in 0 .. N |-> k * (2 * N - 1 - k) * Round + 2 * t * Round]
Slope  == [k \in 0 .. N |-> (N - 1 - k) * Round]

\* Next sums over finitely many backends.
LEMMA PoolIsFinite == IsFiniteSet(1 .. N) /\ Cardinality(1 .. N) = N /\ N \in Nat
<1>1. N \in Nat
  BY PoolFacts
<1>2. IsFiniteSet(1 .. N) /\ Cardinality(1 .. N) = IF 1 > N THEN 0 ELSE N - 1 + 1
  BY <1>1, FS_Interval
<1> QED
  BY <1>1, <1>2

\* GetWeight(), or 1: never negative.
LEMMA WeightsOfPool == /\ U \in [1 .. N -> Int]
                       /\ \A b \in 1 .. N : U[b] = WRR!weight(b) /\ U[b] >= 0
<1>1. \A b \in 1 .. N : WRR!weight(b) \in Nat
  BY AlgorithmsAssumption DEF WRR!weight, N
<1> QED
  BY <1>1 DEF U

\* totalWeight is a natural number, of some no more than of all.
LEMMA SumsOfPool ==
  ASSUME NEW A \in SUBSET (1 .. N)
  PROVE  /\ SumOver(U, 1 .. N)[A] \in Nat /\ Round \in Nat
         /\ SumOver(U, 1 .. N)[A] <= Round
<1>1. 1 .. N \in SUBSET (1 .. N)
  OBVIOUS
<1> QED
  BY <1>1, PoolIsFinite, WeightsOfPool, SumOfPart DEF Round

\* One round: what all backends of the pool earn in a call.
LEMMA RoundIsNat == Round \in Nat
<1>1. {} \in SUBSET (1 .. N)
  OBVIOUS
<1> QED
  BY <1>1, SumsOfPool

\* The ladder in numbers: a step of it, ...
LEMMA StepOfCap ==
  ASSUME NEW n \in Int, NEW k \in Int, NEW r \in Int, NEW c \in Int
  PROVE  /\ (k + 1) * (2 * n - 1 - (k + 1)) * r + c
              = k * (2 * n - 1 - k) * r + c + 2 * ((n - 1 - k) * r)
         /\ (n - 1 - (k - 1)) * r = (n - 1 - k) * r + r
         /\ k * (2 * n - 1 - k) * r + c \in Int /\ (n - 1 - k) * r \in Int
  OBVIOUS

\* ... a sign, ...
LEMMA ProductOfNaturals == ASSUME NEW a \in Nat, NEW b \in Nat PROVE a * b \in Nat
  OBVIOUS

\* ... and several steps at once.
LEMMA GapOfCap ==
  ASSUME NEW n \in Int, NEW j \in Int, NEW k \in Int, NEW r \in Int, NEW c \in Int
  PROVE  k * (2 * n - 1 - k) * r + c
            = j * (2 * n - 1 - j) * r + c + ((k - j) * (2 * n - 1 - (k + j))) * r
  OBVIOUS

\* Cap is a ladder, whose first step is n - 1 rounds high.
LEMMA CapIsLadder ==
  ASSUME NEW t \in Nat
  PROVE  Ladder(N, Cap(t), Slope, Round)
<1>1. N \in Nat /\ Round \in Nat
  BY PoolIsFinite, RoundIsNat
<1> DEFINE c == 2 * t * Round
<1>2. c \in Nat
  BY <1>1, ProductOfNaturals
<1> HIDE DEF c
<1>3. \A k \in 0 .. N : /\ Cap(t)[k] = k * (2 * N - 1 - k) * Round + c
                        /\ Slope[k] = (N - 1 - k) * Round
  BY DEF Cap, Slope, c
<1>4. Cap(t) \in [0 .. N -> Int] /\ Slope \in [0 .. N -> Int]
  <2>1. \A k \in 0 .. N : Cap(t)[k] \in Int /\ Slope[k] \in Int
    BY <1>1, <1>2, <1>3, StepOfCap
  <2>2. DOMAIN Cap(t) = 0 .. N /\ DOMAIN Slope = 0 .. N
    BY DEF Cap, Slope
  <2>3. Cap(t) = [k \in 0 .. N |-> Cap(t)[k]] /\ Slope = [k \in 0 .. N |-> Slope[k]]
    BY DEF Cap, Slope
  <2> QED
    BY <2>1, <2>2, <2>3
<1>5. Cap(t)[0] >= 0
  <2>1. Cap(t)[0] = 0 * (2 * N - 1 - 0) * Round + c
    BY <1>1, <1>3
  <2>2. 0 * (2 * N - 1 - 0) * Round = 0
    BY <1>1
  <2> QED
    BY <1>2, <2>1, <2>2
<1>6. ASSUME NEW k \in 0 .. N - 1
      PROVE  Slope[k] >= 0 /\ Cap(t)[k + 1] = Cap(t)[k] + 2 * Slope[k]
  <2>1. k \in 0 .. N /\ k + 1 \in 0 .. N /\ N - 1 - k \in Nat /\ k \in Int
    BY <1>1
  <2>2. (N - 1 - k) * Round \in Nat
    BY <1>1, <2>1, ProductOfNaturals
  <2>3. (k + 1) * (2 * N - 1 - (k + 1)) * Round + c
          = k * (2 * N - 1 - k) * Round + c + 2 * ((N - 1 - k) * Round)
    BY <1>1, <1>2, <2>1, StepOfCap
  <2>4. /\ Cap(t)[k] = k * (2 * N - 1 - k) * Round + c
        /\ Cap(t)[k + 1] = (k + 1) * (2 * N - 1 - (k + 1)) * Round + c
        /\ Slope[k] = (N - 1 - k) * Round
    BY <1>3, <2>1
  <2> QED
    BY <2>2, <2>3, <2>4
<1>7. ASSUME NEW k \in 1 .. N - 1  PROVE Slope[k - 1] = Slope[k] + Round
  <2>1. k \in 0 .. N /\ k - 1 \in 0 .. N /\ k \in Int
    BY <1>1
  <2>2. (N - 1 - (k - 1)) * Round = (N - 1 - k) * Round + Round
    BY <1>1, <1>2, <2>1, StepOfCap
  <2> QED
    BY <1>3, <2>1, <2>2
<1> QED
  BY <1>1, <1>4, <1>5, <1>6, <1>7 DEF Ladder

\* It rises up to the whole pool, and starts at no less than zero.
LEMMA CapGrows ==
  ASSUME NEW t \in Nat, NEW k \in 0 .. N, NEW j \in 0 .. k
  PROVE  /\ Cap(t)[j] <= Cap(t)[k] /\ Cap(t)[j] \in Int /\ Cap(t)[k] \in Int
         /\ 0 <= Cap(t)[k]
<1>1. N \in Nat /\ Round \in Nat /\ k \in Nat /\ j \in Nat /\ j \in 0 .. N
  BY PoolIsFinite, RoundIsNat
<1> DEFINE c == 2 * t * Round
<1>2. c \in Nat
  BY <1>1, ProductOfNaturals
<1> HIDE DEF c
<1>3. \A l \in 0 .. N : Cap(t)[l] = l * (2 * N - 1 - l) * Round + c
  BY DEF Cap, c
<1>4. \A l \in 0 .. N : Cap(t)[l] \in Int
  BY <1>1, <1>2, <1>3, StepOfCap
<1>5. ASSUME NEW l \in 0 .. k  PROVE Cap(t)[l] <= Cap(t)[k]
  <2>1. l \in 0 .. N /\ l \in Int
    BY <1>1
  <2>2. CASE l = k
    BY <1>4, <2>2
  <2>3. CASE l < k
    <3>1. k - l \in Nat /\ 2 * N - 1 - (k + l) \in Nat
      BY <1>1, <2>1, <2>3
    <3> DEFINE e == ((k - l) * (2 * N - 1 - (k + l))) * Round
    <3>2. e \in Nat
      BY <1>1, <3>1, ProductOfNaturals
    <3>3. k * (2 * N - 1 - k) * Round + c = l * (2 * N - 1 - l) * Round + c + e
      BY <1>1, <1>2, <2>1, GapOfCap
    <3> HIDE DEF e
    <3>4. Cap(t)[k] = Cap(t)[l] + e
      BY <1>3, <2>1, <3>3
    <3> QED
      BY <1>4, <2>1, <3>2, <3>4
  <2> QED
    BY <1>1, <2>1, <2>2, <2>3
<1>6. Cap(t)[0] >= 0
  BY CapIsLadder DEF Ladder
<1>7. Cap(t)[0] <= Cap(t)[k] /\ Cap(t)[0] \in Int
  BY <1>1, <1>4, <1>5
<1> QED
  BY <1>1, <1>4, <1>5, <1>6, <1>7

-----------------------------------------------------------------------------
(* totalWeight is the sum of the weights. *)
LEMMA TotalIsSum ==
  ASSUME NEW A \in SUBSET (1 .. N)
  PROVE  WRR!Total(A) = SumOver(U, 1 .. N)[A]
<1> DEFINE F == SumOver(U, 1 .. N)
           pick(s) == CHOOSE x \in s : TRUE
           Iter(f) == f = [s \in SUBSET A |-> IF s = {} THEN 0
                              ELSE WRR!weight(pick(s)) + f[s \ {pick(s)}]]
           h == CHOOSE f : Iter(f)
<1>1. WRR!Total(A) = h[A]
  BY DEF WRR!Total, WRR!MapThenSumSet, WRR!MapThenFoldSet
<1>2. IsSum(F, U, 1 .. N)
  BY PoolIsFinite, WeightsOfPool, SumsExist
<1> HIDE DEF F
<1>3. \A s \in SUBSET A : s # {} =>
         /\ pick(s) \in s /\ s \ {pick(s)} \in SUBSET A
         /\ F[s] = WRR!weight(pick(s)) + F[s \ {pick(s)}]
  <2> TAKE s \in SUBSET A
  <2> HAVE s # {}
  <2>1. pick(s) \in s
    OBVIOUS
  <2> DEFINE x == pick(s)
  <2> HIDE DEF pick, x
  <2>2. x \in s /\ s \in SUBSET (1 .. N) /\ x \in 1 .. N /\ s \ {x} \in SUBSET (1 .. N)
    BY <2>1 DEF x
  <2>3. F[s] = F[s \ {x}] + U[x]
    <3> DEFINE S == 1 .. N
    <3>1. /\ IsSum(F, U, S) /\ s \ {x} \in SUBSET S /\ x \in S \ (s \ {x})
          /\ (s \ {x}) \cup {x} = s
      BY <1>2, <2>2
    <3> HIDE DEF S
    <3>2. F[(s \ {x}) \cup {x}] = F[s \ {x}] + U[x]
      BY <3>1 DEF IsSum
    <3> QED
      BY <3>1, <3>2, Zenon
  <2>4. F[s \ {x}] \in Int /\ U[x] \in Int
    BY <1>2, <2>2, WeightsOfPool DEF IsSum
  <2>5. U[x] = WRR!weight(x)
    BY <2>2, WeightsOfPool
  <2>6. x \in s /\ s \ {x} \in SUBSET A /\ F[s] = WRR!weight(x) + F[s \ {x}]
    BY <2>2, <2>3, <2>4, <2>5
  <2> QED
    BY <2>6 DEF x
<1>4. F[{}] = 0
  BY <1>2 DEF IsSum
<1> HIDE DEF pick
<1>5. Iter([s \in SUBSET A |-> F[s]])
  <2> DEFINE f == [s \in SUBSET A |-> F[s]]
             e == [s \in SUBSET A |-> IF s = {} THEN 0
                              ELSE WRR!weight(pick(s)) + f[s \ {pick(s)}]]
  <2>1. ASSUME NEW s \in SUBSET A  PROVE f[s] = e[s]
    <3>1. CASE s = {}
      BY <1>4, <3>1
    <3>2. CASE s # {}
      <4>1. F[s] = WRR!weight(pick(s)) + F[s \ {pick(s)}] /\ s \ {pick(s)} \in SUBSET A
        BY <1>3, <3>2
      <4>2. f[s] = F[s] /\ f[s \ {pick(s)}] = F[s \ {pick(s)}]
        BY <4>1
      <4>3. e[s] = WRR!weight(pick(s)) + f[s \ {pick(s)}]
        BY <3>2
      <4> HIDE DEF e, f
      <4> QED
        BY <4>1, <4>2, <4>3
    <3> QED
      BY <3>1, <3>2
  <2>2. f = e
    BY <2>1, Zenon
  <2> QED
    BY <2>2
<1>6. Iter(h)
  BY <1>5, Zenon
<1> DEFINE X == {s \in SUBSET A : h[s] # F[s]}
<1>7. X = {}
  <2> SUFFICES ASSUME X # {}  PROVE FALSE
    OBVIOUS
  <2>1. IsFiniteSet(A) /\ X \subseteq SUBSET A
    BY PoolIsFinite, FS_Subset
  <2>2. PICK s \in X : \A r \in X : Cardinality(s) <= Cardinality(r)
    BY <2>1, SmallestSet, Zenon
  <2> HIDE DEF h
  <2>3. s \in SUBSET A /\ h[s] # F[s]
    OBVIOUS
  <2>4. h[s] = IF s = {} THEN 0 ELSE WRR!weight(pick(s)) + h[s \ {pick(s)}]
    BY <1>6, <2>3, Zenon
  <2>5. s # {}
    BY <1>4, <2>3, <2>4
  <2>6. /\ pick(s) \in s /\ s \ {pick(s)} \in SUBSET A
        /\ F[s] = WRR!weight(pick(s)) + F[s \ {pick(s)}]
    BY <1>3, <2>3, <2>5
  <2>7. ~ Cardinality(s) <= Cardinality(s \ {pick(s)})
    <3> DEFINE x == pick(s)
    <3>1. x \in s /\ IsFiniteSet(A)
      BY <2>1, <2>6
    <3> HIDE DEF x
    <3>2. Cardinality(s) \in Nat \ {0} /\ Cardinality(s \ {x}) = Cardinality(s) - 1
      BY <2>3, <3>1, SmallerWithout
    <3>3. ~ Cardinality(s) <= Cardinality(s \ {x})
      BY <3>2
    <3> QED
      BY <3>3 DEF x
  <2>8. h[s \ {pick(s)}] = F[s \ {pick(s)}]
    BY <2>2, <2>6, <2>7
  <2> QED
    BY <2>3, <2>4, <2>5, <2>6, <2>8
<1> HIDE DEF h
<1>8. h[A] = F[A]
  BY <1>7
<1> QED
  BY <1>1, <1>8 DEF F

(* Next picks something: of finitely many there is a first largest one. *)
LEMMA BestIsLargest ==
  ASSUME NEW w \in [1 .. N -> Int], NEW L \in SUBSET (1 .. N), L # {}
  PROVE  /\ WRR!Best(w, L) \in L
         /\ \A a \in L : w[a] <= w[WRR!Best(w, L)]
<1> DEFINE Beats(d, b) == w[d] > w[b] \/ (w[d] = w[b] /\ d < b)
           Better(b) == {d \in L : Beats(d, b)}
           X == {Better(b) : b \in L}
<1>1. IsFiniteSet(L) /\ X \subseteq SUBSET L /\ X # {}
  <2>1. IsFiniteSet(L)
    BY PoolIsFinite, FS_Subset
  <2>2. \A b \in L : Better(b) \in SUBSET L
    OBVIOUS
  <2>3. X \subseteq SUBSET L
    BY <2>2, Zenon
  <2>4. X # {}
    <3>1. PICK b : b \in L
      OBVIOUS
    <3>2. Better(b) \in X
      BY <3>1, Zenon
    <3> QED
      BY <3>2
  <2> QED
    BY <2>1, <2>3, <2>4
<1>2. PICK A \in X : \A B \in X : Cardinality(A) <= Cardinality(B)
  BY <1>1, SmallestSet, Zenon
<1>3. PICK b \in L : A = Better(b)
  OBVIOUS
<1>4. \A d \in L : w[d] \in Int /\ d \in Int
  OBVIOUS
<1>5. Better(b) = {}
  <2> SUFFICES ASSUME NEW d \in L, Beats(d, b)  PROVE FALSE
    BY Zenon
  <2>1. Better(d) \in SUBSET (Better(b) \ {d}) /\ d \in Better(b)
    <3>1. ASSUME NEW e \in L, Beats(e, d)  PROVE Beats(e, b) /\ e # d
      <4>1. /\ w[d] \in Int /\ w[b] \in Int /\ w[e] \in Int
            /\ d \in Int /\ b \in Int /\ e \in Int
        BY <1>4
      <4> QED
        BY <3>1, <4>1
    <3> HIDE DEF Beats
    <3> QED
      BY <3>1
  <2>2. Better(b) \in SUBSET L
    OBVIOUS
  <2> HIDE DEF Better
  <2>3. IsFiniteSet(Better(b))
    BY <1>1, <2>2, FS_Subset
  <2>4. /\ Cardinality(Better(b) \ {d}) < Cardinality(Better(b))
        /\ IsFiniteSet(Better(b) \ {d})
        /\ Cardinality(Better(b) \ {d}) \in Nat /\ Cardinality(Better(b)) \in Nat
    <3>1. IsFiniteSet(Better(b) \ {d})
      BY <2>3, FS_RemoveElement
    <3>2. Cardinality(Better(b) \ {d}) = Cardinality(Better(b)) - 1
      BY <2>1, <2>3, FS_RemoveElement
    <3> QED
      BY <2>3, <3>1, <3>2, FS_CardinalityType
  <2>5. Cardinality(Better(d)) <= Cardinality(Better(b) \ {d}) /\ IsFiniteSet(Better(d))
    BY <2>1, <2>4, FS_Subset
  <2>6. Cardinality(Better(d)) \in Nat
    BY <2>5, FS_CardinalityType
  <2>7. Cardinality(Better(b)) <= Cardinality(Better(d))
    BY <1>2, <1>3
  <2> QED
    BY <2>4, <2>5, <2>6, <2>7
<1>6. \A d \in L : w[d] < w[b] \/ (w[d] = w[b] /\ b <= d)
  BY <1>4, <1>5
<1>7. /\ WRR!Best(w, L) \in L
      /\ \A d \in L : \/ w[d] < w[WRR!Best(w, L)]
                      \/ w[d] = w[WRR!Best(w, L)] /\ WRR!Best(w, L) <= d
  <2> HIDE DEF Better, Beats
  <2> QED
    BY <1>6, Zenon DEF WRR!Best
<1>8. ASSUME NEW a \in L  PROVE w[a] <= w[WRR!Best(w, L)]
  <2>1. w[a] \in Int /\ w[WRR!Best(w, L)] \in Int
    BY <1>4, <1>7
  <2> QED
    BY <1>7, <2>1
<1> QED
  BY <1>7, <1>8

-----------------------------------------------------------------------------
Bound(t) == (N - 1 + t) * Round

\* What a backend has had too little, but for what its weight remembers.
Excess(b) == turns * U[b] - got[b] * SumOver(U, 1 .. N)[WRR!Live(among)] - weights[b]

SharesKept == \A b \in WRR!Live(among) : Excess(b) <= Bound(torn) /\ Excess(b) >= -Bound(torn)

WeightedTyped == /\ alive \in [1 .. N -> BOOLEAN]
                 /\ weights \in [1 .. N -> Int]
                 /\ torn \in 0 .. MaxTorn
                 /\ among \subseteq 1 .. N
                 /\ turns \in 0 .. Window
                 /\ got \in [1 .. N -> 0 .. turns]

WeightedInv == /\ WeightedTyped
               /\ SumsWithin(weights, 1 .. N, Cap(torn))
               /\ SharesKept

\* Half the first rung of the ladder is the bound for single weights.
LEMMA BoundTyped ==
  ASSUME NEW t \in Nat
  PROVE  Bound(t) \in Int /\ 1 * (2 * N - 1 - 1) * Round + 2 * t * Round = 2 * Bound(t)
<1>1. N \in Int /\ Round \in Int
  BY PoolIsFinite, RoundIsNat
<1>2. \A n, r \in Int : /\ (n - 1 + t) * r \in Int
                        /\ 1 * (2 * n - 1 - 1) * r + 2 * t * r = 2 * ((n - 1 + t) * r)
  OBVIOUS
<1> QED
  BY <1>1, <1>2 DEF Bound

\* A weight is the sum over one backend, so it is bounded.
LEMMA SumsBoundEach ==
  ASSUME NEW w \in [1 .. N -> Int], NEW t \in Nat, SumsWithin(w, 1 .. N, Cap(t)),
         NEW b \in 1 .. N
  PROVE  /\ w[b] \in Int /\ Bound(t) \in Int
         /\ w[b] <= Bound(t) /\ w[b] >= -Bound(t)
<1> DEFINE F == SumOver(w, 1 .. N)
<1>1. IsSum(F, w, 1 .. N)
  BY PoolIsFinite, SumsExist
<1> HIDE DEF F
<1>2. F[{b}] = w[b]
  <2>1. {} \in SUBSET (1 .. N) /\ b \in (1 .. N) \ {} /\ {} \cup {b} = {b}
    OBVIOUS
  <2>2. F[{} \cup {b}] = F[{}] + w[b] /\ F[{}] = 0
    BY <1>1, <2>1 DEF IsSum
  <2>3. w[b] \in Int
    OBVIOUS
  <2> QED
    BY <2>1, <2>2, <2>3
<1>3. Cardinality({b}) = 1
  BY FS_Singleton
<1>4. Cap(t)[1] = 2 * Bound(t)
  <2>1. 1 \in 0 .. N
    BY PoolIsFinite
  <2> QED
    BY <2>1, BoundTyped DEF Cap
<1>5. 2 * F[{b}] <= Cap(t)[Cardinality({b})] /\ 2 * F[{b}] >= -Cap(t)[Cardinality({b})]
  <2>1. {b} \in SUBSET (1 .. N)
    OBVIOUS
  <2> QED
    BY <2>1 DEF SumsWithin, F
<1>6. w[b] \in Int /\ Bound(t) \in Int
  BY BoundTyped
<1> QED
  BY <1>2, <1>3, <1>4, <1>5, <1>6

\* The same, as pruning asks for it.
LEMMA CapIsRising == \A t \in Nat : Rising(N, Cap(t))
  BY CapGrows DEF Rising

\* The keys that Next deletes first.
LEMMA PrunedSums ==
  ASSUME WeightedInv, NEW B \in SUBSET (1 .. N)
  PROVE  /\ Prunes(1 .. N, WRR!Pruned(B), weights, B)
         /\ SumsWithin(WRR!Pruned(B), 1 .. N, Cap(torn))
<1>1. weights \in [1 .. N -> Int] /\ torn \in Nat
  BY AlgorithmsAssumption DEF WeightedInv, WeightedTyped
<1>2. WRR!Pruned(B) = [b \in 1 .. N |-> IF b \in B THEN weights[b] ELSE 0]
  BY PoolFacts DEF WRR!Pruned
<1>3. Prunes(1 .. N, WRR!Pruned(B), weights, B)
  BY <1>1, <1>2, PoolIsFinite DEF Prunes
<1>4. Rising(Cardinality(1 .. N), Cap(torn))
  BY <1>1, PoolIsFinite, CapIsRising
<1> QED
  BY <1>3, <1>4, PruneKeepsSums DEF WeightedInv

-----------------------------------------------------------------------------
\* The first loop of Next.
LEMMA RaisedWeights ==
  ASSUME WeightedInv, NEW B \in SUBSET (1 .. N), NEW L \in SUBSET B
  PROVE  /\ WRR!Raised(B, L) \in [1 .. N -> Int]
         /\ WRR!Pruned(B) \in [1 .. N -> Int]
         /\ \A b \in 1 .. N : WRR!Raised(B, L)[b] =
                WRR!Pruned(B)[b] + (IF b \in L THEN U[b] ELSE 0)
<1>1. WRR!Raised(B, L) = [b \in 1 .. N |-> WRR!Pruned(B)[b]
                                            + (IF b \in L THEN WRR!weight(b) ELSE 0)]
  BY PoolFacts DEF WRR!Raised
<1>2. WRR!Pruned(B) \in [1 .. N -> Int]
  BY PrunedSums DEF Prunes
<1>3. \A b \in 1 .. N : U[b] \in Int /\ U[b] = WRR!weight(b)
  BY WeightsOfPool
<1>4. \A b \in 1 .. N : WRR!Pruned(B)[b] \in Int
  BY <1>2
<1> QED
  BY <1>1, <1>2, <1>3, <1>4

\* The second loop of Next: the pick is a largest one and pays for all.
LEMMA ChargedWeights ==
  ASSUME WeightedInv, NEW B \in SUBSET (1 .. N), NEW L \in SUBSET B,
         NEW second \in SUBSET B, second # {},
         NEW best, best = WRR!Best(WRR!Raised(B, L), second)
  PROVE  /\ best \in second
         /\ \A a \in second : WRR!Raised(B, L)[a] <= WRR!Raised(B, L)[best]
         /\ Raises(1 .. N, WRR!Pruned(B), U, L, best, SumOver(U, 1 .. N)[L],
                   WRR!After(B, L, second))
<1> DEFINE r == WRR!Raised(B, L)
           p == WRR!Pruned(B)
           v == WRR!After(B, L, second)
           x == SumOver(U, 1 .. N)[L]
<1>1. /\ r \in [1 .. N -> Int] /\ p \in [1 .. N -> Int]
      /\ \A b \in 1 .. N : r[b] = p[b] + (IF b \in L THEN U[b] ELSE 0)
  BY RaisedWeights
<1>2. x \in Int /\ WRR!Charge(best, L) = x
  BY SumsOfPool, TotalIsSum DEF WRR!Charge
<1> HIDE DEF r, p
<1>3. best \in second /\ \A a \in second : r[a] <= r[best]
  BY <1>1, BestIsLargest DEF r
<1>4. v = [r EXCEPT ![best] = @ - WRR!Charge(best, L)]
  BY Zenon DEF WRR!After, r
<1> HIDE DEF v, x
<1>5. v = [r EXCEPT ![best] = @ - x]
  BY <1>2, <1>4
<1>6. /\ v \in [1 .. N -> Int]
      /\ \A b \in 1 .. N : v[b] = IF b = best THEN r[b] - x ELSE r[b]
  BY <1>1, <1>2, <1>3, <1>5
<1>7. \A b \in 1 .. N : v[b] = p[b] + (IF b \in L THEN U[b] ELSE 0)
                                - (IF b = best THEN x ELSE 0)
  <2> TAKE b \in 1 .. N
  <2>1. p[b] \in Int /\ U[b] \in Int /\ r[b] \in Int
    BY <1>1, WeightsOfPool
  <2>2. /\ v[b] = IF b = best THEN r[b] - x ELSE r[b]
        /\ r[b] = p[b] + (IF b \in L THEN U[b] ELSE 0)
    BY <1>1, <1>6
  <2> QED
    BY <1>2, <2>1, <2>2
<1>8. Raises(1 .. N, p, U, L, best, x, v)
  <2> DEFINE S == 1 .. N
  <2>1. /\ IsFiniteSet(S) /\ L \in SUBSET S /\ best \in S /\ U \in [S -> Int]
        /\ \A b \in S : U[b] >= 0
    BY <1>3, PoolIsFinite, WeightsOfPool
  <2>2. /\ p \in [S -> Int] /\ v \in [S -> Int]
        /\ \A b \in S : v[b] = p[b] + (IF b \in L THEN U[b] ELSE 0)
                                - (IF b = best THEN x ELSE 0)
    BY <1>1, <1>6, <1>7
  <2> HIDE DEF S
  <2>3. Raises(S, p, U, L, best, x, v)
    BY <1>2, <2>1, <2>2 DEF Raises
  <2> QED
    BY <2>3 DEF S
<1> QED
  BY <1>3, <1>8 DEF r, p, v, x

\* What a call does to the weight of each: it earns its own when it is live,
\* and the one that is picked pays what all of them earned.
LEMMA WeightsAfterCall ==
  ASSUME WeightedInv, NEW B \in SUBSET (1 .. N), WRR!Call(B),
         NEW L, L = WRR!Live(B), NEW best, best = WRR!Best(WRR!Raised(B, L), L)
  PROVE  /\ weights' \in [1 .. N -> Int]
         /\ SumsWithin(weights', 1 .. N, Cap(torn))
         /\ L # {} => best \in L
         /\ \A b \in L : weights'[b] = weights[b] + U[b]
                            - (IF b = best THEN SumOver(U, 1 .. N)[L] ELSE 0)
<1>1. L \in SUBSET B /\ weights' = WRR!After(B, L, L)
  BY DEF WRR!Call, WRR!Live
<1> DEFINE p == WRR!Pruned(B)
           x == SumOver(U, 1 .. N)[L]
<1>2. /\ p \in [1 .. N -> Int] /\ SumsWithin(p, 1 .. N, Cap(torn)) /\ torn \in Nat
      /\ \A b \in B : p[b] = weights[b]
  BY PrunedSums, AlgorithmsAssumption DEF Prunes, WeightedInv, WeightedTyped
<1>3. CASE L = {}
  <2>1. weights' = WRR!Raised(B, L)
    BY <1>1, <1>3 DEF WRR!After
  <2> DEFINE r == WRR!Raised(B, L)
  <2>2. /\ r \in [1 .. N -> Int]
        /\ \A b \in 1 .. N : r[b] = p[b] + (IF b \in L THEN U[b] ELSE 0)
    BY <1>1, RaisedWeights
  <2> HIDE DEF p, r
  <2>3. \A b \in 1 .. N : r[b] = p[b]
    BY <1>2, <1>3, <2>2
  <2>4. r = p
    <3>1. r = [b \in 1 .. N |-> r[b]] /\ p = [b \in 1 .. N |-> p[b]]
      BY <1>2, <2>2
    <3>2. [b \in 1 .. N |-> r[b]] = [b \in 1 .. N |-> p[b]]
      BY <2>3, Zenon
    <3> QED
      BY <3>1, <3>2, Zenon
  <2>5. weights' = p
    BY <2>1, <2>4 DEF r
  <2> QED
    BY <1>2, <1>3, <2>5, Zenon
<1>4. CASE L # {}
  <2>1. /\ best \in L
        /\ \A a \in L : WRR!Raised(B, L)[a] <= WRR!Raised(B, L)[best]
        /\ Raises(1 .. N, p, U, L, best, x, weights')
    BY <1>1, <1>4, ChargedWeights
  <2>2. \A a \in L : WRR!Raised(B, L)[a] = p[a] + U[a]
    BY <1>1, RaisedWeights
  <2>3. Serves(1 .. N, p, U, L, best, weights')
    BY <2>1, <2>2 DEF Serves
  <2>4. x <= Round
    BY <1>1, SumsOfPool
  <2>5. Ladder(Cardinality(1 .. N), Cap(torn), Slope, Round)
    BY <1>2, PoolIsFinite, CapIsLadder
  <2>6. SumsWithin(weights', 1 .. N, Cap(torn))
    BY <1>2, <2>3, <2>4, <2>5, CallKeepsSums
  <2> HIDE DEF p, x
  <2>7. /\ weights' \in [1 .. N -> Int]
        /\ \A b \in L : weights'[b] = p[b] + U[b] - (IF b = best THEN x ELSE 0)
    BY <2>1 DEF Raises
  <2>8. \A b \in L : p[b] = weights[b]
    BY <1>1, <1>2
  <2> QED
    BY <2>1, <2>6, <2>7, <2>8 DEF x
<1> QED
  BY <1>3, <1>4

-----------------------------------------------------------------------------
\* A torn call more lifts every rung by a round.
LEMMA CapAfterTorn ==
  ASSUME NEW t \in Nat, NEW k \in 0 .. N
  PROVE  Cap(t)[k] \in Int /\ Cap(t + 1)[k] = Cap(t)[k] + 2 * Round
<1>1. N \in Int /\ Round \in Int /\ k \in Int
  BY PoolIsFinite, RoundIsNat
<1>2. \A n, r \in Int : /\ k * (2 * n - 1 - k) * r + 2 * t * r \in Int
                        /\ k * (2 * n - 1 - k) * r + 2 * (t + 1) * r
                            = k * (2 * n - 1 - k) * r + 2 * t * r + 2 * r
  BY <1>1
<1> QED
  BY <1>1, <1>2 DEF Cap

\* A call whose second loop sees other backends than its first, or none.
LEMMA WeightsAfterTornCall ==
  ASSUME WeightedInv, NEW B \in SUBSET (1 .. N), NEW second \in SUBSET B,
         WRR!TornCall(B, second)
  PROVE  /\ weights' \in [1 .. N -> Int]
         /\ SumsWithin(weights', 1 .. N, Cap(torn + 1))
<1> DEFINE L == WRR!Live(B)
           p == WRR!Pruned(B)
<1>1. L \in SUBSET B /\ weights' = WRR!After(B, L, second) /\ second # L
  BY DEF WRR!TornCall, WRR!Live
<1> HIDE DEF L
<1>2. p \in [1 .. N -> Int] /\ SumsWithin(p, 1 .. N, Cap(torn)) /\ torn \in Nat
  BY PrunedSums, AlgorithmsAssumption DEF Prunes, WeightedInv, WeightedTyped
<1>3. \E best, x : Raises(1 .. N, p, U, L, best, x, weights') /\ x \in 0 .. Round
  <2>1. CASE second # {}
    <3> DEFINE best == WRR!Best(WRR!Raised(B, L), second)
               x == SumOver(U, 1 .. N)[L]
    <3>1. Raises(1 .. N, p, U, L, best, x, weights')
      BY <1>1, <2>1, ChargedWeights
    <3>2. L \in SUBSET (1 .. N)
      BY <1>1
    <3>3. x \in Nat /\ x <= Round /\ Round \in Nat
      BY <3>2, SumsOfPool
    <3> HIDE DEF x, best, p
    <3>4. x \in 0 .. Round
      BY <3>3
    <3> QED
      BY <3>1, <3>4, Zenon
  <2>2. CASE second = {}
    <3> DEFINE S == 1 .. N
               r == WRR!Raised(B, L)
    <3>1. weights' = r
      BY <1>1, <2>2 DEF WRR!After
    <3>2. /\ r \in [S -> Int] /\ p \in [S -> Int]
          /\ \A b \in S : r[b] = p[b] + (IF b \in L THEN U[b] ELSE 0)
      BY <1>1, RaisedWeights
    <3>3. PICK best : best \in S
      BY <1>1, <2>2
    <3>4. /\ IsFiniteSet(S) /\ L \in SUBSET S /\ U \in [S -> Int]
          /\ \A b \in S : U[b] \in Int /\ U[b] >= 0
      BY <1>1, PoolIsFinite, WeightsOfPool
    <3> HIDE DEF S, r, p
    <3>5. \A b \in S : r[b] = p[b] + (IF b \in L THEN U[b] ELSE 0)
                              - (IF b = best THEN 0 ELSE 0)
      <4> TAKE b \in S
      <4>1. p[b] \in Int /\ U[b] \in Int /\ r[b] = p[b] + (IF b \in L THEN U[b] ELSE 0)
        BY <3>2, <3>4
      <4> QED
        BY <4>1
    <3>6. Raises(S, p, U, L, best, 0, r)
      BY <3>2, <3>3, <3>4, <3>5 DEF Raises
    <3>7. 0 \in 0 .. Round
      BY RoundIsNat
    <3> QED
      BY <3>1, <3>6, <3>7, Zenon DEF S
  <2> QED
    BY <2>1, <2>2
<1>4. PICK best, x : Raises(1 .. N, p, U, L, best, x, weights') /\ x \in 0 .. Round
  BY <1>3
<1> HIDE DEF p
<1>5. weights' \in [1 .. N -> Int]
  BY <1>4 DEF Raises
<1>6. SumOver(U, 1 .. N)[1 .. N] <= Round /\ Round \in Nat
  BY RoundIsNat DEF Round
<1>7. \A k \in 0 .. Cardinality(1 .. N) :
         Cap(torn)[k] \in Int /\ Cap(torn + 1)[k] = Cap(torn)[k] + 2 * Round
  BY <1>2, PoolIsFinite, CapAfterTorn
<1>8. SumsWithin(weights', 1 .. N, Cap(torn + 1))
  <2> DEFINE S == 1 .. N
             v == weights'
             h == Cap(torn + 1)
             g == Cap(torn)
             t == Round
  <2>1. /\ Raises(S, p, U, L, best, x, v) /\ t \in Nat /\ x \in 0 .. t
        /\ SumOver(U, S)[S] <= t /\ SumsWithin(p, S, g)
        /\ \A k \in 0 .. Cardinality(S) : g[k] \in Int /\ h[k] = g[k] + 2 * t
    BY <1>2, <1>4, <1>6, <1>7
  <2> HIDE DEF S, v, h, g, t
  <2>2. SumsWithin(v, S, h)
    BY <2>1, TornKeepsSums
  <2> QED
    BY <2>2 DEF S, v, h
<1> QED
  BY <1>5, <1>8

-----------------------------------------------------------------------------
\* A new object has no weights.
LEMMA ZeroSums ==
  ASSUME NEW t \in Nat
  PROVE  /\ WRR!Zero \in [1 .. N -> Int] /\ \A b \in 1 .. N : WRR!Zero[b] = 0
         /\ SumsWithin(WRR!Zero, 1 .. N, Cap(t))
<1> DEFINE z == WRR!Zero
           S == 1 .. N
           H == [A \in SUBSET S |-> 0]
<1>1. z \in [S -> Int] /\ \A b \in S : z[b] = 0
  BY PoolFacts DEF WRR!Zero
<1>2. IsFiniteSet(S)
  BY PoolIsFinite
<1> HIDE DEF z, S
<1>3. IsSum(H, z, S)
  BY <1>1 DEF IsSum
<1>4. IsSum(SumOver(z, S), z, S)
  BY <1>1, <1>2, SumsExist
<1>5. ASSUME NEW A \in SUBSET S
      PROVE  /\ 2 * SumOver(z, S)[A] <= Cap(t)[Cardinality(A)]
             /\ 2 * SumOver(z, S)[A] >= -Cap(t)[Cardinality(A)]
  <2>1. SumOver(z, S)[A] = H[A] /\ H[A] = 0
    <3>1. SumOver(z, S)[A] = H[A]
      <4> HIDE DEF H
      <4> QED
        BY <1>2, <1>3, <1>4, SumsAgree
    <3> QED
      BY <3>1
  <2>2. Cardinality(A) \in 0 .. N /\ 0 \in 0 .. Cardinality(A)
    <3>1. IsFiniteSet(A) /\ Cardinality(A) <= N
      BY <1>2, PoolIsFinite, FS_Subset DEF S
    <3>2. Cardinality(A) \in Nat
      BY <3>1, FS_CardinalityType
    <3> QED
      BY <3>1, <3>2, PoolIsFinite
  <2>3. Cap(t)[Cardinality(A)] \in Int /\ 0 <= Cap(t)[Cardinality(A)]
    BY <2>2, CapGrows
  <2> HIDE DEF H
  <2> QED
    BY <2>1, <2>3
<1>6. SumsWithin(z, S, Cap(t))
  BY <1>5 DEF SumsWithin
<1> QED
  BY <1>1, <1>6 DEF z, S

(* Where the history of shares starts again the weight alone is the excess.*)
LEMMA SharesForgotten ==
  ASSUME weights' \in [1 .. N -> Int], torn' \in Nat,
         SumsWithin(weights', 1 .. N, Cap(torn')),
         turns' = 0, got' = WRR!Zero, among' \subseteq 1 .. N
  PROVE  SharesKept'
<1> SUFFICES ASSUME NEW b \in WRR!Live(among)'
             PROVE  Excess(b)' <= Bound(torn') /\ Excess(b)' >= -Bound(torn')
  BY DEF SharesKept, Bound
<1>1. b \in 1 .. N /\ WRR!Live(among)' \in SUBSET (1 .. N)
  BY DEF WRR!Live
<1>2. got'[b] = 0
  BY <1>1, ZeroSums
<1>3. U[b] \in Int /\ SumOver(U, 1 .. N)[WRR!Live(among)'] \in Int
  BY <1>1, WeightsOfPool, SumsOfPool
<1>4. Excess(b)' = 0 * U[b] - 0 * SumOver(U, 1 .. N)[WRR!Live(among)'] - weights'[b]
  BY <1>2 DEF Excess, U, WRR!weight
<1>5. /\ weights'[b] \in Int /\ Bound(torn') \in Int
      /\ weights'[b] <= Bound(torn') /\ weights'[b] >= -Bound(torn')
  BY <1>1, SumsBoundEach
<1>6. \A u, s \in Int : 0 * u = 0 /\ 0 * s = 0
  OBVIOUS
<1>7. Excess(b)' = -weights'[b]
  BY <1>3, <1>4, <1>5, <1>6
<1> QED
  BY <1>5, <1>7

-----------------------------------------------------------------------------
\* A call of Next that nothing tears.
LEMMA CallKeepsWeighted ==
  ASSUME WeightedInv, NEW B \in SUBSET (1 .. N), WRR!Call(B)
  PROVE  WeightedInv'
<1> DEFINE L == WRR!Live(B)
           best == WRR!Best(WRR!Raised(B, L), L)
           W == SumOver(U, 1 .. N)[L]
           one == [b \in 1 .. N |-> IF L # {} /\ b = best THEN 1 ELSE 0]
           fresh == among # B \/ turns = Window
<1>1. /\ L \in SUBSET B /\ WRR!Live(among)' = L
      /\ among' = B /\ UNCHANGED <<alive, torn>>
      /\ turns' = IF fresh THEN 1 ELSE turns + 1
      /\ got' = IF fresh THEN one ELSE [b \in 1 .. N |-> got[b] + one[b]]
  BY PoolFacts DEF WRR!Call, WRR!Live
<1>2. /\ weights' \in [1 .. N -> Int]
      /\ SumsWithin(weights', 1 .. N, Cap(torn))
      /\ L # {} => best \in L
      /\ \A b \in L : weights'[b] = weights[b] + U[b] - (IF b = best THEN W ELSE 0)
  BY WeightsAfterCall
<1>3. /\ turns \in 0 .. Window /\ got \in [1 .. N -> 0 .. turns] /\ Window \in Nat \ {0}
      /\ weights \in [1 .. N -> Int] /\ torn \in 0 .. MaxTorn /\ MaxTorn \in Nat
  BY AlgorithmsAssumption DEF WeightedInv, WeightedTyped
<1>4. W \in Int /\ \A b \in L : b \in 1 .. N /\ U[b] \in Int
  <2>1. L \in SUBSET (1 .. N)
    BY <1>1
  <2>2. W \in Nat
    BY <2>1, SumsOfPool
  <2> QED
    BY <2>1, <2>2, WeightsOfPool
<1>5. \A b \in 1 .. N : one[b] \in {0, 1} /\ (b \in L => one[b] = IF b = best THEN 1 ELSE 0)
  OBVIOUS
<1> HIDE DEF L, best, W, one
<1>6. turns' \in 0 .. Window /\ got' \in [1 .. N -> 0 .. turns']
  <2>1. CASE fresh
    <3>1. turns' = 1 /\ got' = one /\ one \in [1 .. N -> 0 .. 1]
      BY <1>1, <1>5, <2>1 DEF one
    <3> QED
      BY <1>3, <3>1
  <2>2. CASE ~fresh
    <3>1. turns' = turns + 1 /\ got' = [b \in 1 .. N |-> got[b] + one[b]]
      BY <1>1, <2>2
    <3>2. \A b \in 1 .. N : got[b] + one[b] \in 0 .. turns + 1
      <4> TAKE b \in 1 .. N
      <4>1. got[b] \in 0 .. turns /\ one[b] \in {0, 1}
        BY <1>3, <1>5
      <4> QED
        BY <1>3, <4>1
    <3>3. turns + 1 \in 0 .. Window
      BY <1>3, <2>2
    <3> QED
      BY <3>1, <3>2, <3>3
  <2> QED
    BY <2>1, <2>2
<1>7. SharesKept'
  <2> SUFFICES ASSUME NEW b \in L
               PROVE  Excess(b)' <= Bound(torn) /\ Excess(b)' >= -Bound(torn)
    BY <1>1 DEF SharesKept, Bound
  <2>1. Excess(b)' = turns' * U[b] - got'[b] * W - weights'[b]
    BY <1>1 DEF Excess, U, WRR!weight, W
  <2>2. /\ b \in 1 .. N /\ U[b] \in Int /\ W \in Int /\ weights[b] \in Int
        /\ one[b] = IF b = best THEN 1 ELSE 0
        /\ weights'[b] = weights[b] + U[b] - (IF b = best THEN W ELSE 0)
    BY <1>2, <1>3, <1>4, <1>5
  <2>3. (IF b = best THEN W ELSE 0) = one[b] * W /\ one[b] \in Int
    BY <2>2
  <2>4. CASE fresh
    <3>1. turns' = 1 /\ got'[b] = one[b]
      BY <1>1, <2>2, <2>4
    <3>2. Excess(b)' = -weights[b]
      <4>1. \A u, w, o, s \in Int : 1 * u - o * s - (w + u - o * s) = -w
        OBVIOUS
      <4> QED
        BY <2>1, <2>2, <2>3, <3>1, <4>1
    <3>3. /\ weights[b] \in Int /\ Bound(torn) \in Int
          /\ weights[b] <= Bound(torn) /\ weights[b] >= -Bound(torn)
      <4>1. torn \in Nat /\ SumsWithin(weights, 1 .. N, Cap(torn))
        BY <1>3 DEF WeightedInv
      <4> QED
        BY <1>3, <2>2, <4>1, SumsBoundEach
    <3> QED
      BY <3>2, <3>3
  <2>5. CASE ~fresh
    <3>1. turns' = turns + 1 /\ got'[b] = got[b] + one[b] /\ WRR!Live(among) = L
      BY <1>1, <2>2, <2>5 DEF L
    <3>2. got[b] \in Int /\ turns \in Int
      BY <1>3, <2>2
    <3>3. Excess(b) = turns * U[b] - got[b] * W - weights[b]
      BY <3>1 DEF Excess, W
    <3>4. Excess(b)' = Excess(b)
      <4>1. \A t, g, u, w, o, s \in Int :
               (t + 1) * u - (g + o) * s - (w + u - o * s) = t * u - g * s - w
        OBVIOUS
      <4>2. Excess(b)' = (turns + 1) * U[b] - (got[b] + one[b]) * W
                            - (weights[b] + U[b] - one[b] * W)
        BY <2>1, <2>2, <2>3, <3>1
      <4> QED
        <5>1. (turns + 1) * U[b] - (got[b] + one[b]) * W
                 - (weights[b] + U[b] - one[b] * W)
                 = turns * U[b] - got[b] * W - weights[b]
          BY <2>2, <2>3, <3>2, <4>1
        <5> QED
          BY <3>3, <4>2, <5>1, Zenon
    <3>5. Excess(b) <= Bound(torn) /\ Excess(b) >= -Bound(torn)
      BY <3>1 DEF WeightedInv, SharesKept
    <3> QED
      BY <3>4, <3>5
  <2> QED
    BY <2>4, <2>5
<1>8. WeightedTyped'
  BY <1>1, <1>2, <1>3, <1>6 DEF WeightedInv, WeightedTyped
<1>9. SumsWithin(weights', 1 .. N, Cap(torn'))
  BY <1>1, <1>2, Zenon
<1> QED
  BY <1>2, <1>7, <1>8, <1>9 DEF WeightedInv

-----------------------------------------------------------------------------
\* While round robin is in use the other object has no history yet.
AtRest == weights = WRR!Zero /\ torn = 0 /\ turns = 0 /\ got = WRR!Zero

AlgorithmsInv == /\ RotationInv
                 /\ WeightedInv
                 /\ algo # "weighted_round_robin" => AtRest

\* An empty history is well typed.
LEMMA GotForgotten == WRR!Zero \in [1 .. N -> 0 .. 0] /\ 0 \in 0 .. Window /\ 0 \in 0 .. MaxTorn
<1>1. \A b \in 1 .. N : WRR!Zero[b] = 0
  BY ZeroSums
<1>2. WRR!Zero = [b \in 1 .. N |-> 0]
  BY PoolFacts DEF WRR!Zero
<1> QED
  BY <1>2, AlgorithmsAssumption

\* Every step of weighted round robin.
LEMMA WeightedNext ==
  ASSUME WeightedInv, alive' \in [1 .. N -> BOOLEAN], WRR!Next
  PROVE  WeightedInv'
<1>0. ToSet(Pool) = 1 .. N
  BY PoolFacts
<1>1. /\ torn \in 0 .. MaxTorn /\ MaxTorn \in Nat /\ weights \in [1 .. N -> Int]
      /\ among \subseteq 1 .. N /\ SumsWithin(weights, 1 .. N, Cap(torn))
  BY AlgorithmsAssumption DEF WeightedInv, WeightedTyped
<1>2. ASSUME NEW B \in SUBSET (1 .. N), NEW second \in SUBSET B, WRR!TornCall(B, second)
      PROVE  WeightedInv'
  <2>1. weights' \in [1 .. N -> Int] /\ SumsWithin(weights', 1 .. N, Cap(torn + 1))
    BY <1>2, WeightsAfterTornCall
  <2>2. /\ torn < MaxTorn /\ torn' = torn + 1
        /\ turns' = 0 /\ got' = WRR!Zero /\ among' = among
    BY <1>2 DEF WRR!TornCall, WRR!Forget
  <2>3. torn' \in 0 .. MaxTorn /\ torn' \in Nat /\ SumsWithin(weights', 1 .. N, Cap(torn'))
    <3>1. torn' \in 0 .. MaxTorn /\ torn' \in Nat
      BY <1>1, <2>2
    <3> QED
      BY <2>1, <2>2, <3>1, Zenon
  <2>4. SharesKept'
    BY <1>1, <2>1, <2>2, <2>3, SharesForgotten
  <2> QED
    BY <1>1, <2>1, <2>2, <2>3, <2>4, GotForgotten DEF WeightedInv, WeightedTyped
<1>3. ASSUME NEW b \in 1 .. N, WRR!Flip(b)  PROVE WeightedInv'
  <2>1. /\ UNCHANGED <<weights, torn>>
        /\ turns' = 0 /\ got' = WRR!Zero /\ among' = among
    BY <1>3 DEF WRR!Flip, WRR!Forget
  <2>2. /\ weights' \in [1 .. N -> Int] /\ torn' \in 0 .. MaxTorn /\ torn' \in Nat
        /\ SumsWithin(weights', 1 .. N, Cap(torn'))
    BY <1>1, <2>1
  <2>3. SharesKept'
    BY <1>1, <2>1, <2>2, SharesForgotten
  <2> QED
    BY <1>1, <2>1, <2>2, <2>3, GotForgotten DEF WeightedInv, WeightedTyped
<1> QED
  BY <1>0, <1>2, <1>3, CallKeepsWeighted DEF WRR!Next

\* Every step that leaves a new object behind, or one that is not in use.
LEMMA FromRest ==
  ASSUME alive' \in [1 .. N -> BOOLEAN], AtRest', among' \subseteq 1 .. N
  PROVE  WeightedInv'
<1>1. weights' = WRR!Zero /\ torn' = 0 /\ turns' = 0 /\ got' = WRR!Zero
  BY DEF AtRest, WRR!Zero
<1>2. weights' \in [1 .. N -> Int] /\ torn' \in Nat
  BY <1>1, ZeroSums
<1>3. SumsWithin(weights', 1 .. N, Cap(torn'))
  BY <1>1, <1>2, ZeroSums
<1>4. SharesKept'
  BY <1>1, <1>2, <1>3, SharesForgotten
<1> QED
  BY <1>1, <1>2, <1>3, <1>4, GotForgotten DEF WeightedInv, WeightedTyped

\* Every step of the two algorithms and of what replaces one by the other.
LEMMA AlgorithmsStep == AlgorithmsInv /\ [Next]_vars => AlgorithmsInv'
<1> SUFFICES ASSUME AlgorithmsInv, [Next]_vars  PROVE AlgorithmsInv'
  OBVIOUS
<1>1. RotationInv'
  BY RotationStep DEF AlgorithmsInv
<1>2. alive' \in [1 .. N -> BOOLEAN]
  BY <1>1 DEF RotationInv, RoundRobinTyped
<1>3. among \subseteq 1 .. N
  BY DEF AlgorithmsInv, WeightedInv, WeightedTyped
<1>4. ASSUME NEW action, RoundRobin(action)  PROVE AlgorithmsInv'
  <2>1. algo = "round_robin" /\ UNCHANGED <<algo, weights, torn, among, turns, got>>
    BY <1>4 DEF RoundRobin, ofWRR
  <2>2. AtRest'
    BY <2>1 DEF AlgorithmsInv, AtRest, WRR!Zero
  <2> QED
    BY <1>1, <1>2, <1>3, <2>1, <2>2, FromRest DEF AlgorithmsInv
<1>5. ASSUME NEW c \in Callers, Begin(c) \/ Run(c)  PROVE AlgorithmsInv'
  BY <1>4, <1>5 DEF Begin, Run
<1>6. CASE Weighted
  <2>1. algo' = "weighted_round_robin" /\ WRR!Next
    BY <1>6 DEF Weighted
  <2> QED
    BY <1>1, <1>2, <2>1, WeightedNext DEF AlgorithmsInv
<1>7. ASSUME NEW name \in Names, SetAlgorithm(name)  PROVE AlgorithmsInv'
  <2>1. AtRest' /\ among' \subseteq 1 .. N
    BY <1>7, PoolFacts DEF SetAlgorithm, AtRest, WRR!Zero
  <2> QED
    BY <1>1, <1>2, <2>1, FromRest DEF AlgorithmsInv
<1>8. CASE Disturb
  BY <1>4, <1>7, <1>8 DEF Disturb
<1>9. CASE UNCHANGED vars
  <2>1. UNCHANGED <<algo, alive, weights, torn, among, turns, got>>
    BY <1>9 DEF vars, ofWRR
  <2>2. SharesKept'
    BY <2>1 DEF AlgorithmsInv, WeightedInv, SharesKept, Excess, WRR!Live, Bound, U, WRR!weight
  <2>3. SumsWithin(weights', 1 .. N, Cap(torn'))
    BY <2>1 DEF AlgorithmsInv, WeightedInv
  <2> QED
    BY <1>1, <2>1, <2>2, <2>3 DEF AlgorithmsInv, WeightedInv, WeightedTyped, AtRest, WRR!Zero
<1> QED
  BY <1>5, <1>6, <1>8, <1>9 DEF Next

-----------------------------------------------------------------------------
\* The invariant holds when algo.New has made the first object.
LEMMA AlgorithmsInit == Init => AlgorithmsInv
<1> SUFFICES ASSUME Init  PROVE AlgorithmsInv
  OBVIOUS
<1>1. /\ weights = WRR!Zero /\ torn = 0 /\ turns = 0 /\ got = WRR!Zero /\ among = 1 .. N
  BY PoolFacts DEF Init, WRR!Init
<1>2. RotationInv
  BY RotationInit
<1>3. WeightedTyped
  BY <1>1, <1>2, ZeroSums, GotForgotten DEF RotationInv, RoundRobinTyped, WeightedTyped
<1>4. SumsWithin(weights, 1 .. N, Cap(torn))
  BY <1>1, ZeroSums
<1>5. SharesKept
  <2> SUFFICES ASSUME NEW b \in WRR!Live(among)
               PROVE  Excess(b) <= Bound(torn) /\ Excess(b) >= -Bound(torn)
    BY DEF SharesKept
  <2>1. b \in 1 .. N /\ WRR!Live(among) \in SUBSET (1 .. N)
    BY <1>1 DEF WRR!Live
  <2>2. U[b] \in Int /\ SumOver(U, 1 .. N)[WRR!Live(among)] \in Int
    BY <2>1, WeightsOfPool, SumsOfPool
  <2>3. turns = 0 /\ got[b] = 0 /\ weights[b] = 0
    BY <1>1, <2>1, ZeroSums
  <2>4. \A u, s \in Int : 0 * u - 0 * s - 0 = 0
    OBVIOUS
  <2>5. Excess(b) = 0
    BY <2>2, <2>3, <2>4 DEF Excess
  <2>6. /\ Bound(torn) \in Int /\ weights[b] <= Bound(torn)
    BY <1>1, <1>3, <1>4, <2>1, SumsBoundEach DEF WeightedTyped
  <2> QED
    BY <2>3, <2>5, <2>6
<1> QED
  BY <1>1, <1>2, <1>3, <1>4, <1>5 DEF AlgorithmsInv, WeightedInv, AtRest

\* The bound of NoDrift in terms of the ladder.
LEMMA DriftIsBound ==
  ASSUME torn \in Nat
  PROVE  WRR!MaxDrift = Bound(torn) /\ Bound(torn) \in Int
<1>1. WRR!Cardinality(ToSet(Pool)) = N
  BY PoolFacts, PoolIsFinite DEF WRR!Cardinality, Cardinality
<1>2. WRR!Total(ToSet(Pool)) = Round
  BY PoolFacts, TotalIsSum DEF Round
<1> QED
  BY <1>1, <1>2, BoundTyped DEF WRR!MaxDrift, Bound

\* What the invariant says of single weights.
LEMMA InvNoDrift == AlgorithmsInv => NoDrift
<1> SUFFICES ASSUME AlgorithmsInv, NEW b \in 1 .. N
             PROVE  WRR!Abs(weights[b]) <= WRR!MaxDrift
  BY PoolFacts DEF NoDrift, WRR!NoDrift
<1>1. torn \in Nat /\ weights \in [1 .. N -> Int] /\ SumsWithin(weights, 1 .. N, Cap(torn))
  BY AlgorithmsAssumption DEF AlgorithmsInv, WeightedInv, WeightedTyped
<1>2. /\ weights[b] \in Int /\ Bound(torn) \in Int
      /\ weights[b] <= Bound(torn) /\ weights[b] >= -Bound(torn)
  BY <1>1, SumsBoundEach
<1>3. WRR!Abs(weights[b]) <= Bound(torn)
  BY <1>2 DEF WRR!Abs
<1> QED
  BY <1>1, <1>3, DriftIsBound

\* What it says of shares: the excess and the weight are bounded each.
LEMMA InvFairShare == AlgorithmsInv => FairShare
<1> SUFFICES ASSUME AlgorithmsInv, NEW b \in WRR!Live(among)
             PROVE  WRR!Abs(turns * WRR!weight(b) - got[b] * WRR!Total(WRR!Live(among)))
                        <= 2 * WRR!MaxDrift
  BY DEF FairShare, WRR!FairShare
<1>1. /\ torn \in Nat /\ weights \in [1 .. N -> Int] /\ SumsWithin(weights, 1 .. N, Cap(torn))
      /\ among \subseteq 1 .. N /\ turns \in 0 .. Window /\ got \in [1 .. N -> 0 .. turns]
  BY AlgorithmsAssumption DEF AlgorithmsInv, WeightedInv, WeightedTyped
<1>2. b \in 1 .. N /\ WRR!Live(among) \in SUBSET (1 .. N)
  BY <1>1 DEF WRR!Live
<1> DEFINE W == SumOver(U, 1 .. N)[WRR!Live(among)]
<1>3. WRR!weight(b) = U[b] /\ WRR!Total(WRR!Live(among)) = W /\ W \in Int /\ U[b] \in Int
  BY <1>2, WeightsOfPool, TotalIsSum, SumsOfPool
<1>4. /\ weights[b] \in Int /\ Bound(torn) \in Int
      /\ weights[b] <= Bound(torn) /\ weights[b] >= -Bound(torn)
  BY <1>1, <1>2, SumsBoundEach
<1>5. Excess(b) <= Bound(torn) /\ Excess(b) >= -Bound(torn)
  BY DEF AlgorithmsInv, WeightedInv, SharesKept
<1> HIDE DEF W
<1>6. turns * U[b] \in Int /\ got[b] * W \in Int
  <2>1. turns \in Int /\ got[b] \in Int
    BY <1>1, <1>2
  <2>2. \A x, y \in Int : x * y \in Int
    OBVIOUS
  <2> QED
    BY <1>3, <2>1, <2>2
<1>7. Excess(b) = turns * U[b] - got[b] * W - weights[b]
  BY DEF Excess, W
<1>8. WRR!Abs(turns * U[b] - got[b] * W) <= 2 * Bound(torn)
  <2> DEFINE e == turns * U[b]
             f == got[b] * W
  <2>1. e \in Int /\ f \in Int /\ Excess(b) = e - f - weights[b]
    BY <1>6, <1>7
  <2> HIDE DEF e, f
  <2>2. WRR!Abs(e - f) <= 2 * Bound(torn)
    BY <1>4, <1>5, <2>1 DEF WRR!Abs
  <2> QED
    BY <2>2 DEF e, f
<1> QED
  BY <1>1, <1>3, <1>8, DriftIsBound

\* What it says of types.
LEMMA InvTyped == AlgorithmsInv => TypeOK
<1> SUFFICES ASSUME AlgorithmsInv  PROVE TypeOK
  OBVIOUS
<1>1. algo \in Names /\ WRR!TypeOK
  BY PoolFacts DEF AlgorithmsInv, RotationInv, RoundRobinTyped, WeightedInv, WeightedTyped, WRR!TypeOK
<1>2. RR!TypeOK
  <2>1. ASSUME NEW c \in Callers
        PROVE  /\ RR!ToSet(list[c]) \subseteq 1 .. N
               /\ pc[c] # "idle" => next[c] < Len(list[c]) /\ i[c] < Len(list[c])
    <3>1. list[c] \in RR!Lists \cup {<<>>}
      BY <2>1 DEF AlgorithmsInv, RotationInv, RoundRobinTyped
    <3>2. RR!ToSet(list[c]) \subseteq 1 .. N
      BY <3>1, PoolFacts, ListFacts DEF RR!ToSet
    <3> QED
      BY <2>1, <3>2 DEF AlgorithmsInv, RotationInv, Scanning
  <2> QED
    BY <2>1, PoolFacts DEF AlgorithmsInv, RotationInv, RoundRobinTyped, RR!TypeOK
<1> QED
  BY <1>1, <1>2 DEF TypeOK

(***************************************************************************)
(* Every variable of the two algorithms keeps its type, whatever calls     *)
(* overlap and whenever the algorithm is replaced: no index of round robin *)
(* leaves its list, and no call counts for two backends (round_robin.go:17,*)
(* weighted_round_robin.go:22).                                            *)
(***************************************************************************)
THEOREM AlgorithmsTyped == FairSpec => []TypeOK
<1>1. Init => AlgorithmsInv
  BY AlgorithmsInit
<1>2. AlgorithmsInv /\ [Next]_vars => AlgorithmsInv'
  BY AlgorithmsStep
<1>3. AlgorithmsInv => TypeOK
  BY InvTyped
<1>4. QED
  BY <1>1, <1>2, <1>3, PTL DEF FairSpec

(***************************************************************************)
(* currentWeights does not drift: for a pool of any size and any weights,  *)
(* no weight leaves the range of n - 1 rounds, one more for each torn call *)
(* (weighted_round_robin.go:25-62).                                        *)
(***************************************************************************)
THEOREM WeightsStayBounded == FairSpec => []NoDrift
<1>1. Init => AlgorithmsInv
  BY AlgorithmsInit
<1>2. AlgorithmsInv /\ [Next]_vars => AlgorithmsInv'
  BY AlgorithmsStep
<1>3. AlgorithmsInv => NoDrift
  BY InvNoDrift
<1>4. QED
  BY <1>1, <1>2, <1>3, PTL DEF FairSpec

(***************************************************************************)
(* "Smooth weighted round robin" gives each live backend its share, up to  *)
(* a number of calls that does not depend on how long it goes on, with     *)
(* whatever weights a history of other candidates has left behind.         *)
(***************************************************************************)
THEOREM SharesAreFair == FairSpec => []FairShare
<1>1. Init => AlgorithmsInv
  BY AlgorithmsInit
<1>2. AlgorithmsInv /\ [Next]_vars => AlgorithmsInv'
  BY AlgorithmsStep
<1>3. AlgorithmsInv => FairShare
  BY InvFairShare
<1>4. QED
  BY <1>1, <1>2, <1>3, PTL DEF FairSpec
=============================================================================
