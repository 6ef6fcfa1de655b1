---------------------------- MODULE HealthChecker ----------------------------
(***************************************************************************)
(* The health checker of internal/health: rounds of concurrent probes, the *)
(* consecutive counters with their two thresholds, and the verdicts that   *)
(* write Backend.alive and the backend_up gauge next to the other writers  *)
(* of both, pool.MarkBackendStatus as the proxy and the admin API call it, *)
(* while the admin API changes the pool and a reload the thresholds.       *)
(*                                                                         *)
(* HealthChecker.mu covers a whole recordSuccess or recordFailure, but     *)
(* neither Backend.mux nor the gauge: the three accesses of a verdict, and *)
(* the two of MarkBackendStatus, are steps of their own.                   *)
(*                                                                         *)
(* Time is abstracted: a tick comes when the loop waits for one, and a     *)
(* probe that times out is one that failed.                                *)
(***************************************************************************)
EXTENDS Integers, FiniteSets

CONSTANTS
    Objects,     \* *Backend structs
    Urls,        \* their URLs: what pool, counters and gauge are keyed by
    UrlOf,       \* the URL of a struct
    InitialPool, \* those of the configuration
    Restless,    \* the URLs that anything happens to (a bound)
    Markers,     \* goroutines that call MarkBackendStatus
    Thresholds,  \* the configured <<unhealthy, healthy>> thresholds
    Largest      \* a bound for them, and so for the counters and the history

ASSUME HealthCheckerAssumption ==
    /\ UrlOf \in [Objects -> Urls]
    /\ InitialPool \subseteq Objects
    /\ \A a, b \in InitialPool : UrlOf[a] = UrlOf[b] => a = b
    /\ Restless \subseteq Urls
    /\ Thresholds \subseteq Int \X Int /\ Thresholds # {}
    /\ Largest \in Nat \ {0}
    /\ \A t \in Thresholds : t[1] <= Largest /\ t[2] <= Largest
    /\ "none" \notin Objects \cup Urls

VARIABLES
    pool,      \* ServerPool.backends
    alive,     \* Backend.alive
    gauge,     \* the backend_up gauge
    marking,   \* calls of MarkBackendStatus between SetAlive and the gauge
    up,        \* does the server answer probes with a 2xx?
    counter,   \* HealthChecker.consecutive; a missing key reads 0
    unhealthy, \* HealthChecker.unhealthyThreshold
    healthy,   \* HealthChecker.healthyThreshold
    loop,      \* where the goroutine of Start is
    probe,     \* the goroutines of a round
    verdict,   \* the verdict of the goroutine that holds mu
    done,      \* the context is cancelled
    run        \* history: how many of the latest results of a URL agree

config == <<unhealthy, healthy>>
server == <<pool, up>>
vars   == <<server, alive, gauge, marking, counter, config, loop, probe,
            verdict, done, run>>

-----------------------------------------------------------------------------
AtLeastOne(n) == IF n < 1 THEN 1 ELSE n

NoMark    == [url |-> "none", to |-> FALSE]
Marks     == [url : Urls, to : BOOLEAN] \cup {NoMark}
NoVerdict == [of |-> "none", to |-> FALSE, set |-> FALSE]
Verdicts  == [of : Objects, to : BOOLEAN, set : BOOLEAN] \cup {NoVerdict}

TypeOK == /\ pool \subseteq Objects
          /\ alive \in [Objects -> BOOLEAN]
          /\ gauge \in [Urls -> BOOLEAN]
          /\ marking \in [Markers -> Marks]
          /\ up \in [Urls -> BOOLEAN]
          /\ counter \in [Urls -> -Largest .. Largest]
          /\ unhealthy \in 1 .. Largest
          /\ healthy \in 1 .. Largest
          /\ loop \in {"wait", "probe", "stopped"}
          /\ probe \in [Objects -> {"none", "sent", "ok", "failed"}]
          /\ verdict \in Verdicts
          /\ done \in BOOLEAN
          /\ run \in [Urls -> -Largest .. Largest]

Init == /\ pool = InitialPool
        /\ alive = [o \in Objects |-> TRUE]
        /\ gauge = [u \in Urls |-> TRUE]
        /\ marking = [m \in Markers |-> NoMark]
        /\ up \in [Urls -> BOOLEAN]
        /\ counter = [u \in Urls |-> 0]
        /\ \E t \in Thresholds : /\ unhealthy = AtLeastOne(t[1])
                                 /\ healthy = AtLeastOne(t[2])
        /\ loop = "wait"
        /\ probe = [o \in Objects |-> "none"]
        /\ verdict = NoVerdict
        /\ done = FALSE
        /\ run = [u \in Urls |-> 0]

-----------------------------------------------------------------------------
(***************************************************************************)
(* The loop of Start and the probes of a round.                            *)
(***************************************************************************)
MuFree == verdict = NoVerdict

\* One goroutine for each struct of the snapshot.
Tick ==
    /\ loop = "wait"
    /\ loop' = "probe"
    /\ probe' = [o \in Objects |-> IF o \in pool THEN "sent" ELSE "none"]
    /\ UNCHANGED <<server, alive, gauge, marking, counter, config, verdict,
                   done, run>>

\* The server answers, or the probe fails; a cancelled context makes it fail.
ProbeEnds(o) ==
    /\ probe[o] = "sent"
    /\ \/ up[UrlOf[o]] /\ probe' = [probe EXCEPT ![o] = "ok"]
       \/ (~up[UrlOf[o]] \/ done) /\ probe' = [probe EXCEPT ![o] = "failed"]
    /\ UNCHANGED <<server, alive, gauge, marking, counter, config, loop,
                   verdict, done, run>>

\* A change of direction starts at 0.
CountSuccess(n) == (IF n < 0 THEN 0 ELSE n) + 1
CountFailure(n) == (IF n > 0 THEN 0 ELSE n) - 1

\* Mutant of Reached: off by one.
ReachedEarly(n) == n >= healthy \/ -n >= unhealthy - 1
Reached(n) == n >= healthy \/ -n >= unhealthy

Longer(n, good) == IF good THEN IF n < Largest THEN CountSuccess(n) ELSE n
                           ELSE IF n > -Largest THEN CountFailure(n) ELSE n

\* Mutant of Record: a verdict that agrees with IsAlive() emits nothing.
RecordChange(o, good) ==
    LET u == UrlOf[o]
        n == IF good THEN CountSuccess(counter[u]) ELSE CountFailure(counter[u])
    IN  /\ MuFree
        /\ probe[o] = IF good THEN "ok" ELSE "failed"
        /\ run' = [run EXCEPT ![u] = Longer(@, good)]
        /\ IF Reached(n) /\ alive[o] # good
           THEN /\ counter' = [counter EXCEPT ![u] = n]
                /\ verdict' = [of |-> o, to |-> good, set |-> TRUE]
                /\ UNCHANGED probe
           ELSE /\ counter' = [counter EXCEPT ![u] = IF Reached(n) THEN 0 ELSE n]
                /\ probe' = [probe EXCEPT ![o] = "none"]
                /\ UNCHANGED verdict
        /\ UNCHANGED <<server, alive, gauge, marking, config, loop, done>>

\* recordSuccess or recordFailure takes mu and counts; at the threshold it
\* reads IsAlive().
Record(o, good) ==
    LET u == UrlOf[o]
        n == IF good THEN CountSuccess(counter[u]) ELSE CountFailure(counter[u])
    IN  /\ MuFree
        /\ probe[o] = IF good THEN "ok" ELSE "failed"
        /\ counter' = [counter EXCEPT ![u] = n]
        /\ run' = [run EXCEPT ![u] = Longer(@, good)]
        /\ \/ /\ Reached(n)
              /\ verdict' = [of |-> o, to |-> good, set |-> alive[o] # good]
              /\ UNCHANGED probe
           \/ /\ ~Reached(n)
              /\ probe' = [probe EXCEPT ![o] = "none"]
              /\ UNCHANGED verdict
        /\ UNCHANGED <<server, alive, gauge, marking, config, loop, done>>

\* SetAlive, when IsAlive() said otherwise.
ApplyVerdict ==
    /\ verdict.set
    /\ alive' = [alive EXCEPT ![verdict.of] = verdict.to]
    /\ verdict' = [verdict EXCEPT !.set = FALSE]
    /\ UNCHANGED <<server, gauge, marking, counter, config, loop, probe, done,
                   run>>

EndVerdict ==
    /\ probe' = [probe EXCEPT ![verdict.of] = "none"]
    /\ verdict' = NoVerdict
    /\ UNCHANGED <<server, alive, marking, config, loop, done, run>>

\* Mutant of EmitVerdict: the counter is not reset.
EmitWithoutReset ==
    /\ ~MuFree /\ ~verdict.set
    /\ gauge' = [gauge EXCEPT ![UrlOf[verdict.of]] = verdict.to]
    /\ UNCHANGED counter
    /\ EndVerdict

\* SetBackendUp, whatever IsAlive() said, and the counter is reset.
EmitVerdict ==
    /\ ~MuFree /\ ~verdict.set
    /\ gauge' = [gauge EXCEPT ![UrlOf[verdict.of]] = verdict.to]
    /\ counter' = [counter EXCEPT ![UrlOf[verdict.of]] = 0]
    /\ EndVerdict

\* After wg.Wait(): forget the servers that left the pool.
Prune ==
    /\ loop = "probe"
    /\ \A o \in Objects : probe[o] = "none"
    /\ counter' = [u \in Urls |-> IF \E o \in pool : UrlOf[o] = u
                                  THEN counter[u] ELSE 0]
    /\ loop' = "wait"
    /\ UNCHANGED <<server, alive, gauge, marking, config, probe, verdict, done,
                   run>>

StopLoop ==
    /\ loop = "wait" /\ done
    /\ loop' = "stopped"
    /\ UNCHANGED <<server, alive, gauge, marking, counter, config, probe,
                   verdict, done, run>>

-----------------------------------------------------------------------------
(***************************************************************************)
(* The others.                                                             *)
(***************************************************************************)
Checker == <<counter, loop, probe, verdict, run>>

\* MarkBackendStatus holds pool.mu for reading over both of its steps.
MarkAlive(m, o, to) ==
    /\ marking[m] = NoMark
    /\ o \in pool
    /\ alive' = [alive EXCEPT ![o] = to]
    /\ marking' = [marking EXCEPT ![m] = [url |-> UrlOf[o], to |-> to]]
    /\ UNCHANGED <<server, gauge, config, Checker, done>>

MarkGauge(m) ==
    /\ marking[m] # NoMark
    /\ gauge' = [gauge EXCEPT ![marking[m].url] = marking[m].to]
    /\ marking' = [marking EXCEPT ![m] = NoMark]
    /\ UNCHANGED <<server, alive, config, Checker, done>>

PoolMuFree == \A m \in Markers : marking[m] = NoMark

\* The admin API adds a new struct and says nothing to the gauge.
AddBackend(o) ==
    /\ PoolMuFree
    /\ \A p \in pool : UrlOf[p] # UrlOf[o]
    /\ probe[o] = "none"
    /\ pool' = pool \cup {o}
    /\ alive' = [alive EXCEPT ![o] = TRUE]
    /\ UNCHANGED <<up, gauge, marking, config, Checker, done>>

RemoveBackend(o) ==
    /\ PoolMuFree
    /\ o \in pool
    /\ pool' = pool \ {o}
    /\ UNCHANGED <<up, alive, gauge, marking, config, Checker, done>>

\* A reload installs other thresholds.
UpdateConfig ==
    /\ MuFree
    /\ \E t \in Thresholds : /\ unhealthy' = AtLeastOne(t[1])
                             /\ healthy' = AtLeastOne(t[2])
    /\ UNCHANGED <<server, alive, gauge, marking, Checker, done>>

\* The server fails or recovers.
ServerFlips(u) ==
    /\ up' = [up EXCEPT ![u] = ~@]
    /\ UNCHANGED <<pool, alive, gauge, marking, config, Checker, done>>

\* main cancels the context.
Shutdown ==
    /\ ~done
    /\ done' = TRUE
    /\ UNCHANGED <<server, alive, gauge, marking, config, Checker>>

-----------------------------------------------------------------------------
Check == \/ Tick \/ Prune \/ ApplyVerdict \/ EmitVerdict
         \/ \E o \in Objects : \/ ProbeEnds(o)
                               \/ \E good \in BOOLEAN : Record(o, good)

Disturb == \/ \E o \in {b \in Objects : UrlOf[b] \in Restless} :
                                 \/ AddBackend(o)
                                 \/ RemoveBackend(o)
                                 \/ \E m \in Markers, to \in BOOLEAN :
                                        MarkAlive(m, o, to)
           \/ \E u \in Restless : ServerFlips(u)
           \/ UpdateConfig
           \/ Shutdown

Next == \/ Check
        \/ StopLoop
        \/ \E m \in Markers : MarkGauge(m)
        \/ Disturb

Spec == Init /\ [][Next]_vars

(***************************************************************************)
(* The ticker ticks, a probe ends within its timeout, every goroutine runs *)
(* and gets the lock it waits for.                                         *)
(***************************************************************************)
FairSpec == /\ Spec
            /\ WF_vars(Check)
            /\ \A o \in Objects : /\ WF_vars(ProbeEnds(o))
                                  /\ WF_vars(\E good \in BOOLEAN : Record(o, good))
            /\ \A m \in Markers : WF_vars(MarkGauge(m))

-----------------------------------------------------------------------------
(***************************************************************************)
(* A verdict is backed by a whole streak: as many of the latest results of *)
(* the URL as the threshold asks for agree with it, through resets,        *)
(* prunings, changed thresholds and structs that were replaced.            *)
(***************************************************************************)
VerdictHasStreak ==
    ~MuFree => LET n == run[UrlOf[verdict.of]]
               IN  IF verdict.to THEN n >= healthy ELSE -n >= unhealthy

(***************************************************************************)
(* "Always emit the metric regardless of prior IsAlive value"              *)
(* (health.go:114-117): once nobody disturbs any more, Backend.alive and   *)
(* the gauge of every server in the pool come to tell the truth, however   *)
(* the verdicts raced with MarkBackendStatus before.                       *)
(***************************************************************************)
Truthful == \A o \in pool : /\ alive[o] = up[UrlOf[o]]
                            /\ gauge[UrlOf[o]] = up[UrlOf[o]]

Converges == <>[][~Disturb]_vars => <>[](done \/ Truthful)
=============================================================================
