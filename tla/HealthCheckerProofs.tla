------------------------ MODULE HealthCheckerProofs ------------------------
(***************************************************************************)
(* Proofs about HealthChecker: its types, and that a verdict always stands *)
(* on a whole streak of results.                                           *)
(***************************************************************************)
EXTENDS HealthChecker, TLAPS

\* Only who holds mu leaves its counter at a threshold, so that the next
\* result finds it below the bound, whatever the thresholds are by then.
BelowBound == \A u \in Urls : MuFree \/ u # UrlOf[verdict.of] =>
                                  -Largest < counter[u] /\ counter[u] < Largest

\* The latest results of a URL agree at least as often as its counter says.
RunBacksCounter ==
    \A u \in Urls : /\ counter[u] > 0 => run[u] >= counter[u]
                    /\ counter[u] < 0 => run[u] <= counter[u]

\* The verdict is the one that the counter calls for.
VerdictReached ==
    ~MuFree => LET n == counter[UrlOf[verdict.of]]
               IN  IF verdict.to THEN n >= healthy ELSE -n >= unhealthy

\* Between rounds no probe is under way, and who holds mu is in a probe: no
\* counter is pruned under a verdict.
HolderProbes == /\ loop # "probe" => \A o \in Objects : probe[o] = "none"
                /\ ~MuFree => probe[verdict.of] # "none"

StreakInv == /\ TypeOK
             /\ BelowBound
             /\ RunBacksCounter
             /\ VerdictReached
             /\ HolderProbes

-----------------------------------------------------------------------------
(* A configured threshold is clamped into the range of the counters. *)
LEMMA ClampedThreshold ==
  ASSUME NEW t \in Thresholds
  PROVE  AtLeastOne(t[1]) \in 1 .. Largest /\ AtLeastOne(t[2]) \in 1 .. Largest
<1>1. t[1] \in Int /\ t[2] \in Int /\ t[1] <= Largest /\ t[2] <= Largest
  BY HealthCheckerAssumption
<1>2. QED
  BY <1>1, HealthCheckerAssumption DEF AtLeastOne

(* The verdict of who holds mu is about a struct. *)
LEMMA HolderJudges ==
  ASSUME TypeOK, ~MuFree
  PROVE  /\ verdict \in [of : Objects, to : BOOLEAN, set : BOOLEAN]
         /\ UrlOf[verdict.of] \in Urls
  BY HealthCheckerAssumption DEF TypeOK, MuFree, Verdicts

(* One more success: the counter moves up to at least 1, by at most one      *)
(* above its bound, and the run follows.                                   *)
LEMMA CountedSuccess ==
  ASSUME NEW n \in Int, NEW r \in -Largest .. Largest,
         -Largest < n, n < Largest, n > 0 => r >= n
  PROVE  /\ CountSuccess(n) \in 1 .. Largest
         /\ Longer(r, TRUE) \in -Largest .. Largest
         /\ Longer(r, TRUE) >= CountSuccess(n)
  BY HealthCheckerAssumption DEF CountSuccess, Longer

(* One more failure, the same downwards. *)
LEMMA CountedFailure ==
  ASSUME NEW n \in Int, NEW r \in -Largest .. Largest,
         -Largest < n, n < Largest, n < 0 => r <= n
  PROVE  /\ CountFailure(n) \in -Largest .. -1
         /\ Longer(r, FALSE) \in -Largest .. Largest
         /\ Longer(r, FALSE) <= CountFailure(n)
  BY HealthCheckerAssumption DEF CountFailure, Longer

(* recordSuccess and recordFailure keep the invariant: the count that is    *)
(* compared with the thresholds is that of a run of results.               *)
LEMMA RecordKeeps ==
  ASSUME StreakInv, NEW o \in Objects, NEW good \in BOOLEAN, Record(o, good)
  PROVE  StreakInv'
<1> DEFINE u == UrlOf[o]
           n == IF good THEN CountSuccess(counter[u]) ELSE CountFailure(counter[u])
<1> USE HealthCheckerAssumption
<1>1. /\ u \in Urls
      /\ counter[u] \in Int
      /\ run[u] \in -Largest .. Largest
      /\ -Largest < counter[u] /\ counter[u] < Largest
      /\ counter[u] > 0 => run[u] >= counter[u]
      /\ counter[u] < 0 => run[u] <= counter[u]
  BY DEF StreakInv, TypeOK, BelowBound, RunBacksCounter, Record
<1>2. /\ n \in -Largest .. Largest
      /\ Longer(run[u], good) \in -Largest .. Largest
      /\ good => n > 0 /\ Longer(run[u], good) >= n
      /\ ~good => n < 0 /\ Longer(run[u], good) <= n
  <2>1. CASE good = TRUE
    <3>1. /\ CountSuccess(counter[u]) \in 1 .. Largest
          /\ Longer(run[u], TRUE) \in -Largest .. Largest
          /\ Longer(run[u], TRUE) >= CountSuccess(counter[u])
      BY <1>1, CountedSuccess
    <3>2. n = CountSuccess(counter[u])
      BY <2>1
    <3> HIDE DEF n
    <3>3. n \in -Largest .. Largest /\ n > 0
      BY <3>1, <3>2
    <3>4. QED
      BY <2>1, <3>1, <3>2, <3>3, Zenon
  <2>2. CASE good = FALSE
    <3>1. /\ CountFailure(counter[u]) \in -Largest .. -1
          /\ Longer(run[u], FALSE) \in -Largest .. Largest
          /\ Longer(run[u], FALSE) <= CountFailure(counter[u])
      BY <1>1, CountedFailure
    <3>2. n = CountFailure(counter[u])
      BY <2>2
    <3> HIDE DEF n
    <3>3. n \in -Largest .. Largest /\ n < 0
      BY <3>1, <3>2
    <3>4. QED
      BY <2>2, <3>1, <3>2, <3>3, Zenon
  <2>3. QED
    BY <2>1, <2>2
<1> HIDE DEF n
<1>3. /\ MuFree
      /\ probe[o] # "none"
      /\ counter' = [counter EXCEPT ![u] = n]
      /\ run' = [run EXCEPT ![u] = Longer(@, good)]
      /\ \/ /\ Reached(n)
            /\ verdict' = [of |-> o, to |-> good, set |-> alive[o] # good]
            /\ UNCHANGED probe
         \/ /\ ~Reached(n)
            /\ probe' = [probe EXCEPT ![o] = "none"]
            /\ UNCHANGED verdict
      /\ UNCHANGED <<pool, up, alive, gauge, marking, unhealthy, healthy, loop, done>>
  BY DEF Record, n, server, config
<1>4. TypeOK'
  <2>1. verdict' \in Verdicts
    <3>1. (alive[o] # good) \in BOOLEAN
      OBVIOUS
    <3>2. [of |-> o, to |-> good, set |-> alive[o] # good] \in Verdicts
      BY <3>1 DEF Verdicts
    <3>3. verdict \in Verdicts
      BY DEF StreakInv, TypeOK
    <3>4. QED
      BY <1>3, <3>2, <3>3
  <2>4. probe' \in [Objects -> {"none", "sent", "ok", "failed"}]
    BY <1>3 DEF StreakInv, TypeOK
  <2>2. counter' \in [Urls -> -Largest .. Largest] /\ run' \in [Urls -> -Largest .. Largest]
    BY <1>1, <1>2, <1>3 DEF StreakInv, TypeOK
  <2>3. QED
    BY <1>3, <2>1, <2>2, <2>4 DEF StreakInv, TypeOK
<1>5. BelowBound'
  <2>1. ASSUME Reached(n) PROVE ~MuFree' /\ verdict'.of = o
    BY <1>3, <2>1 DEF MuFree, NoVerdict
  <2>2. ASSUME ~Reached(n) PROVE -Largest < n /\ n < Largest
    BY <1>2, <2>2 DEF Reached, StreakInv, TypeOK
  <2>3. ASSUME NEW v \in Urls, v # u
        PROVE  -Largest < counter'[v] /\ counter'[v] < Largest
    BY <1>3, <2>3 DEF StreakInv, TypeOK, BelowBound
  <2>4. counter'[u] = n
    BY <1>1, <1>3 DEF StreakInv, TypeOK
  <2>5. QED
    BY <2>1, <2>2, <2>3, <2>4 DEF BelowBound
<1>6. RunBacksCounter'
  BY <1>1, <1>2, <1>3 DEF StreakInv, TypeOK, RunBacksCounter
<1>7. VerdictReached'
  <2>1. SUFFICES ASSUME ~MuFree'
                 PROVE  IF good THEN n >= healthy ELSE -n >= unhealthy
    BY <1>1, <1>3 DEF VerdictReached, MuFree, StreakInv, TypeOK
  <2>2. Reached(n)
    BY <1>3, <2>1 DEF MuFree
  <2>3. QED
    BY <1>2, <2>2 DEF Reached, StreakInv, TypeOK
<1>8. HolderProbes'
  <2>1. loop' = "probe"
    BY <1>3 DEF StreakInv, HolderProbes
  <2>2. ASSUME ~MuFree' PROVE verdict'.of = o /\ probe' = probe
    BY <1>3, <2>2 DEF MuFree
  <2>3. QED
    BY <1>3, <2>1, <2>2 DEF HolderProbes
<1>9. QED
  BY <1>4, <1>5, <1>6, <1>7, <1>8 DEF StreakInv

(* The end of a verdict resets the counter and releases mu. *)
LEMMA EmitKeeps ==
  ASSUME StreakInv, EmitVerdict
  PROVE  StreakInv'
<1> USE HealthCheckerAssumption
<1> DEFINE u == UrlOf[verdict.of]
<1>1. /\ verdict \in [of : Objects, to : BOOLEAN, set : BOOLEAN]
      /\ u \in Urls
  BY HolderJudges DEF StreakInv, EmitVerdict
<1>2. TypeOK'
  BY <1>1 DEF StreakInv, TypeOK, EmitVerdict, EndVerdict, server, config, Verdicts
<1>3. BelowBound'
  <2>1. counter' = [counter EXCEPT ![u] = 0]
    BY DEF EmitVerdict
  <2>2. \A v \in Urls : v # u => -Largest < counter[v] /\ counter[v] < Largest
    BY DEF StreakInv, BelowBound
  <2>3. QED
    BY <1>1, <2>1, <2>2 DEF StreakInv, TypeOK, BelowBound
<1>4. RunBacksCounter' /\ VerdictReached'
  BY <1>1 DEF StreakInv, TypeOK, RunBacksCounter, VerdictReached, EmitVerdict, EndVerdict, MuFree
<1>5. HolderProbes'
  BY DEF StreakInv, TypeOK, HolderProbes, EmitVerdict, EndVerdict, MuFree
<1>6. QED
  BY <1>2, <1>3, <1>4, <1>5 DEF StreakInv

(* The steps of the round: a verdict is under way only inside it. *)
LEMMA RoundKeeps ==
  ASSUME StreakInv,
         Tick \/ Prune \/ StopLoop \/ ApplyVerdict \/ \E o \in Objects : ProbeEnds(o)
  PROVE  StreakInv'
<1> USE HealthCheckerAssumption DEF StreakInv
<1>1. CASE Tick
  <2>1. MuFree /\ UNCHANGED <<pool, up, alive, gauge, marking, counter, unhealthy, healthy,
                              verdict, done, run>>
    BY <1>1, HolderJudges DEF Tick, server, config, HolderProbes
  <2>2. /\ loop' = "probe"
        /\ probe' \in [Objects -> {"none", "sent", "ok", "failed"}]
    BY <1>1 DEF Tick
  <2>3. TypeOK'
    BY <2>1, <2>2 DEF TypeOK
  <2>4. QED
    BY <2>1, <2>2, <2>3
    DEF BelowBound, RunBacksCounter, VerdictReached, HolderProbes, MuFree
<1>2. CASE Prune
  <2>1. MuFree /\ UNCHANGED <<pool, up, alive, gauge, marking, unhealthy, healthy, probe,
                              verdict, done, run>>
    BY <1>2, HolderJudges DEF Prune, server, config, HolderProbes
  <2>2. /\ loop' = "wait"
        /\ \A o \in Objects : probe[o] = "none"
        /\ counter' \in [Urls -> -Largest .. Largest]
        /\ \A u \in Urls : counter'[u] \in {0, counter[u]}
    BY <1>2 DEF Prune, TypeOK
  <2>3. TypeOK'
    BY <2>1, <2>2 DEF TypeOK
  <2>4. BelowBound' /\ RunBacksCounter'
    BY <2>1, <2>2 DEF BelowBound, RunBacksCounter, MuFree, TypeOK
  <2>5. QED
    BY <2>1, <2>2, <2>3, <2>4 DEF VerdictReached, HolderProbes, MuFree
<1>3. CASE StopLoop
  <2>1. UNCHANGED <<pool, up, alive, gauge, marking, counter, unhealthy, healthy, probe,
                    verdict, done, run>> /\ loop = "wait" /\ loop' = "stopped"
    BY <1>3 DEF StopLoop, server, config
  <2>2. QED
    BY <2>1
    DEF TypeOK, BelowBound, RunBacksCounter, VerdictReached, HolderProbes, MuFree
<1>4. CASE ApplyVerdict
  <2>1. ~MuFree
    BY <1>4 DEF ApplyVerdict, MuFree, NoVerdict
  <2>2. verdict \in [of : Objects, to : BOOLEAN, set : BOOLEAN]
    BY <2>1, HolderJudges
  <2>3. /\ verdict' = [verdict EXCEPT !.set = FALSE]
        /\ alive' = [alive EXCEPT ![verdict.of] = verdict.to]
        /\ UNCHANGED <<pool, up, gauge, marking, counter, unhealthy, healthy, loop, probe,
                       done, run>>
    BY <1>4 DEF ApplyVerdict, server, config
  <2>4. /\ verdict' \in Verdicts
        /\ verdict'.of = verdict.of /\ verdict'.to = verdict.to
        /\ ~MuFree'
    BY <2>2, <2>3 DEF Verdicts, MuFree, NoVerdict
  <2>5. TypeOK'
    BY <2>2, <2>3, <2>4 DEF TypeOK
  <2>6. QED
    BY <2>1, <2>3, <2>4, <2>5 DEF BelowBound, RunBacksCounter, VerdictReached, HolderProbes
<1>5. CASE \E o \in Objects : ProbeEnds(o)
  <2>1. PICK o \in Objects : ProbeEnds(o)
    BY <1>5
  <2>2. /\ probe[o] = "sent"
        /\ \E answer \in {"ok", "failed"} : probe' = [probe EXCEPT ![o] = answer]
        /\ UNCHANGED <<pool, up, alive, gauge, marking, counter, unhealthy, healthy, loop,
                       verdict, done, run>>
    BY <2>1 DEF ProbeEnds, server, config
  <2>3. TypeOK' /\ HolderProbes'
    BY <2>2 DEF TypeOK, HolderProbes, MuFree
  <2>4. QED
    BY <2>2, <2>3 DEF BelowBound, RunBacksCounter, VerdictReached, MuFree
<1>6. QED
  BY <1>1, <1>2, <1>3, <1>4, <1>5

(* What the others do to the state: MarkBackendStatus, the admin API and    *)
(* the server keep their types and leave the checker and the thresholds    *)
(* alone, and a reload changes the thresholds while mu is free.            *)
LEMMA OthersLeaveChecker ==
  ASSUME TypeOK, Disturb \/ \E m \in Markers : MarkGauge(m)
  PROVE  /\ TypeOK'
         /\ UNCHANGED Checker
         /\ UNCHANGED config \/ MuFree
<1> USE HealthCheckerAssumption
<1>1. ASSUME NEW m \in Markers, NEW o \in Objects, NEW to \in BOOLEAN, MarkAlive(m, o, to)
      PROVE  TypeOK' /\ UNCHANGED Checker /\ UNCHANGED config
  <2>1. [url |-> UrlOf[o], to |-> to] \in Marks
    BY DEF Marks
  <2>2. QED
    BY <1>1, <2>1 DEF MarkAlive, TypeOK, Checker, server, config
<1>2. ASSUME NEW m \in Markers, MarkGauge(m)
      PROVE  TypeOK' /\ UNCHANGED Checker /\ UNCHANGED config
  <2>1. NoMark \in Marks /\ marking[m] \in [url : Urls, to : BOOLEAN]
    BY <1>2 DEF MarkGauge, TypeOK, Marks
  <2>2. QED
    BY <1>2, <2>1 DEF MarkGauge, TypeOK, Checker, server, config
<1>3. ASSUME NEW o \in Objects, AddBackend(o) \/ RemoveBackend(o)
      PROVE  TypeOK' /\ UNCHANGED Checker /\ UNCHANGED config
  BY <1>3 DEF AddBackend, RemoveBackend, TypeOK, Checker, config
<1>4. ASSUME NEW u \in Urls, ServerFlips(u)
      PROVE  TypeOK' /\ UNCHANGED Checker /\ UNCHANGED config
  BY <1>4 DEF ServerFlips, TypeOK, Checker, config
<1>5. ASSUME UpdateConfig
      PROVE  TypeOK' /\ UNCHANGED Checker /\ MuFree
  <2>1. unhealthy' \in 1 .. Largest /\ healthy' \in 1 .. Largest
    BY <1>5, ClampedThreshold DEF UpdateConfig
  <2>2. QED
    BY <1>5, <2>1 DEF UpdateConfig, TypeOK, Checker, server
<1>6. ASSUME Shutdown
      PROVE  TypeOK' /\ UNCHANGED Checker /\ UNCHANGED config
  BY <1>6 DEF Shutdown, TypeOK, Checker, server, config
<1>7. Restless \subseteq Urls
  OBVIOUS
<1>8. QED
  BY <1>1, <1>2, <1>3, <1>4, <1>5, <1>6, <1>7 DEF Disturb

LEMMA OthersKeep ==
  ASSUME StreakInv, Disturb \/ \E m \in Markers : MarkGauge(m)
  PROVE  StreakInv'
<1>1. TypeOK' /\ UNCHANGED Checker /\ (UNCHANGED config \/ MuFree)
  BY OthersLeaveChecker DEF StreakInv
<1>2. QED
  BY <1>1 DEF StreakInv, BelowBound, RunBacksCounter, VerdictReached, HolderProbes, MuFree,
              Checker, config

-----------------------------------------------------------------------------
(* The invariant holds at the start, and every step keeps it. *)
LEMMA StreakInvInit == Init => StreakInv
<1> SUFFICES ASSUME Init PROVE StreakInv
  OBVIOUS
<1> USE HealthCheckerAssumption
<1>1. unhealthy \in 1 .. Largest /\ healthy \in 1 .. Largest
  BY ClampedThreshold DEF Init
<1>2. MuFree
  BY DEF Init, MuFree
<1>3. TypeOK
  <2>1. 0 \in -Largest .. Largest /\ NoMark \in Marks /\ NoVerdict \in Verdicts
    BY DEF Marks, Verdicts
  <2>2. QED
    BY <1>1, <2>1 DEF Init, TypeOK
<1>4. BelowBound /\ RunBacksCounter
  BY DEF Init, BelowBound, RunBacksCounter
<1>5. VerdictReached /\ HolderProbes
  BY <1>2 DEF Init, VerdictReached, HolderProbes
<1>6. QED
  BY <1>3, <1>4, <1>5 DEF StreakInv

LEMMA StreakInvNext == StreakInv /\ [Next]_vars => StreakInv'
<1> SUFFICES ASSUME StreakInv, [Next]_vars PROVE StreakInv'
  OBVIOUS
<1>1. CASE Next
  BY <1>1, RecordKeeps, EmitKeeps, RoundKeeps, OthersKeep DEF Next, Check
<1>2. CASE UNCHANGED vars
  BY <1>2 DEF vars, server, config, StreakInv, TypeOK, BelowBound, RunBacksCounter,
              VerdictReached, HolderProbes, MuFree
<1>3. QED
  BY <1>1, <1>2

(***************************************************************************)
(* Every variable of the checker keeps its type; the counters never pass   *)
(* the largest threshold (health.go:149-205), although a reload may change *)
(* the thresholds under them.                                              *)
(***************************************************************************)
THEOREM TypeCorrect == Spec => []TypeOK
<1>1. StreakInv => TypeOK
  BY DEF StreakInv
<1>2. QED
  BY <1>1, StreakInvInit, StreakInvNext, PTL DEF Spec

(***************************************************************************)
(* A verdict has a whole streak of results behind it, whatever thresholds, *)
(* servers, markers and reloads there are.                                 *)
(***************************************************************************)
THEOREM StreakBehindVerdict == Spec => []VerdictHasStreak
<1>1. StreakInv => VerdictHasStreak
  <2> SUFFICES ASSUME StreakInv, ~MuFree
               PROVE  LET n == run[UrlOf[verdict.of]]
                      IN  IF verdict.to THEN n >= healthy ELSE -n >= unhealthy
    BY DEF VerdictHasStreak
  <2> DEFINE u == UrlOf[verdict.of]
  <2>1. u \in Urls
    BY HolderJudges DEF StreakInv
  <2>2. /\ counter[u] \in Int /\ run[u] \in Int
        /\ unhealthy \in Int /\ unhealthy >= 1
        /\ healthy \in Int /\ healthy >= 1
    BY <2>1, HealthCheckerAssumption DEF StreakInv, TypeOK
  <2>3. /\ counter[u] > 0 => run[u] >= counter[u]
        /\ counter[u] < 0 => run[u] <= counter[u]
    BY <2>1 DEF StreakInv, RunBacksCounter
  <2>4. IF verdict.to THEN counter[u] >= healthy ELSE -counter[u] >= unhealthy
    BY DEF StreakInv, VerdictReached
  <2>5. QED
    BY <2>2, <2>3, <2>4
<1>2. QED
  BY <1>1, StreakInvInit, StreakInvNext, PTL DEF Spec
=============================================================================
