# A verification project for GoLB

TLA+ models of GoLB, the HTTP load balancer under `src/`: configurations that
model-check them with TLC, and theorems about them that TLAPS checks. Line
numbers in comments and below refer to `src/`; `proxy.go` stands for
`src/internal/proxy/proxy.go` and so on. `PROJECT.json` lists components, runs,
mutants, hazards, findings and theorems, and says for every definition which
lines it models.

## 1. The system

One process. `cmd/golb/main.go` reads a configuration, fills a pool of
backends, and starts three kinds of concurrent work: the main HTTP server (one
goroutine for each request), the health checker (one loop, and one goroutine
for each probe), and the admin HTTP server. A fourth goroutine waits for
signals. All of them share the pool and the `Backend` structs in it.

| component | state | operations | talks to |
|---|---|---|---|
| proxy (`proxy.go`) | the algorithm in use; for each request the context with its numbers of attempts and retries, and the stack of nested `ServeHTTP` calls | `ServeHTTP`, the error handler that `SetupProxy` installs, `SetAlgorithm` | pool, breakers, sticky, algorithm, metrics |
| circuit breaker (`circuitbreaker.go`) | for each URL: state, failures, successes, half-open permit, time it opened; the registry of breakers under an RWMutex | `Get`, `Eligible`, `Allow`, `RecordSuccess`, `RecordFailure` | called by the proxy at three different moments of a request |
| pool and backend (`pool.go`, `backend.go`) | list of structs under an RWMutex; `alive`, `activeConns`, weight in each | `AddBackend`, `Remove`, `Backends`, `MarkBackendStatus`, `SetAlive`, `IncrConns`, `DecrConns` | everybody |
| algorithms (`algo/`) | an atomic counter (round robin); a map of weights under a mutex (weighted) | `Next` | read `IsAlive` of the candidates |
| sticky sessions (`sticky.go`) | none (the client keeps a cookie that encodes a URL) | `FromRequest`, `SetCookie` | proxy |
| health checker (`health.go`) | streak counter for each URL, thresholds, interval | `Start`, `CheckBackend`, `recordSuccess`, `recordFailure`, `UpdateConfig` | pool, backends, gauge |
| admin API (`admin.go`) | none | list, add, remove, enable, disable | pool |
| hot reload (`main.go:280-315`, `reload.go`) | the current configuration; a channel for one signal | `ComputeDiff`, `Apply` | pool, proxy, health checker, gauge |
| rate limiter (`ratelimit.go`) | a token bucket for all or for each address; time last seen | `Allow`, `retryAfter`, `cleanup` | wraps the proxy |
| metrics (`metrics.go`) | counters, histograms and the gauge `backend_up` | `RecordRequest`, `SetBackendUp` | called by proxy, pool, health checker, reload |
| configuration (`config.go`) | none | `Load`, `LoadFile` | main |
| life cycle (`main.go`) | servers, context, signals | start, shutdown | everything |
| middleware, logger | none | composition, set-up | main |

### What is hard

* **A request is not atomic.** It asks `Eligible()` of every candidate, then
  the algorithm reads `IsAlive()` of them one by one, then it asks `Allow()`
  of the one picked (`proxy.go:157-206`), and other requests, the health checker
  and the admin API move in between.
* **Failover is recursion.** When a backend fails, `httputil.ReverseProxy` calls
  the error handler *inside* the failed call, and that calls `ServeHTTP` again
  (`proxy.go:140`). What comes after `ServeHTTP` on the failed backend
  (`proxy.go:234-249` and the deferred calls) runs after the other backend has
  answered.
* **Reports come late.** A breaker learns the outcome of a call in another state
  than the one that admitted it.
* **Structs and URLs.** The pool, breakers, cookies and streaks go by URL;
  connections, `alive` and probes go by struct. A backend that is removed and
  added again is another struct with the same URL.
* **Unlocked sequences.** The health checker reads `IsAlive`, sets it and
  sets the gauge while the proxy does the same through the pool; round robin
  advances its counter with one atomic instruction and overwrites it with
  another; weighted round robin reads `IsAlive` in two loops.
* **A reload is a sequence of calls** computed from a difference of two files,
  next to an admin API that changes the same pool.
* **Configurations come by three ways**, defaults, file and flags, and a reload
  takes two of them: the configuration it compares with is not the one that the
  same file gave at the start.
* **The end** is run by the goroutine of signals, three servers in a row under
  one deadline, while main waits for something else: for `ListenAndServe` to return.

### What makes each part correct

* Proxy: every request leaves, after at most `MaxBackendSwitches` attempts at
  different servers; a healthy server is found and not blamed for others;
  connections are counted exactly; the cookie names the server that answered.
* Breaker: one for each URL; the half-open permit is neither lost nor
  multiplied; a circuit closes again when the backend has recovered.
* Health checker: a verdict has a whole streak behind it; `alive` and the gauge
  come to tell the truth.
* Algorithms: even rotation, shares by weight, nobody starves, weights stay
  bounded whatever changes around them.
* Configuration: no combination of file and flags leads to parameters that the
  parts cannot run with.
* Reload: it leaves what a restart with the file would make, the pool is never
  empty on the way, a bad file changes nothing, and the last file is loaded.
* Life cycle: SIGTERM ends the process whatever it was doing, nobody changes the
  pool while the main server winds down, and requests in flight complete (they
  do not, section 4).
* Rate limiter: no more and no less than one bucket would let through; the
  `Retry-After` is enough.

## 2. The modules

| module | models | runs |
|---|---|---|
| `Breaker` | the `Breaker` type as pure operators: what each method does to the record | (used by the next two) |
| `CircuitBreaker` | one breaker and the protocol of its callers | (part of `Registry`) |
| `Registry` | `Registry.Get` under its two locks, before each use by the callers of `CircuitBreaker` | `circuit_breaker` |
| `Failover` | abstract: what is promised of one request | property of `lb_failover` |
| `LoadBalancer`, `MC_LoadBalancer` | proxy, pool, backends, breakers, cookies, with health verdicts, admin calls and clients around | `lb_*` |
| `HealthChecker`, `MC_HealthChecker` | the rounds, probes and verdicts, next to `MarkBackendStatus`, pool changes, `UpdateConfig`, shutdown | `health_checker` |
| `RoundRobin`, `WeightedRoundRobin`, `Algorithms`, `MC_Algorithms` | the two algorithms with state; `Algorithms` puts an INSTANCE of each behind `SetAlgorithm` | `algorithms` |
| `Config` | `Load`, `LoadFile`, and the checks of main, as operators | (used by the next two) |
| `Reload`, `MC_Reload` | the goroutine of signals, `ComputeDiff`, `Apply`, the admin API | `reload_spelling` |
| `Process`, `MC_Process` | `Reload` in a process that starts, has servers, shuts down and ends | `process`, `shutdown_drain` |
| `TokenBucket` | abstract: the one bucket that an address is promised | property of `rate_limiter` |
| `RateLimiter`, `MC_RateLimiter` | buckets, the map entry of an address, eviction | `rate_limiter` |
| `BreakerProofs` | what each operator of `Breaker` does, as lemmas for the next three | |
| `CircuitBreakerProofs` | theorems about `CircuitBreaker` and `Registry` | |
| `LoadBalancerProofs` | theorems about `LoadBalancer`: what always holds; what holds when only some things fail, and the refinement of `Failover` | |
| `Sums` | lemmas about sums over finite sets, for the next one | |
| `HealthCheckerProofs`, `AlgorithmsProofs`, `RateLimiterProofs`, `ProcessProofs` | theorems about the module of that name, `ProcessProofs` also about `Reload` | |

### Breaker, CircuitBreaker and Registry

A breaker is a record of `BreakerType`. `AfterAllow`, `AfterSuccess`,
`AfterFailure` are the methods; `Eligible` is the read-only question. The time
at which it opened is abstracted to `expired`: `AfterTimeout` is the moment the
configured timeout has passed. Thresholds below 1 become 1 as in `NewBreaker`.
In `CircuitBreaker` each caller is idle, holds a call that the closed breaker
admitted, holds a probe, or holds a call that has become `late` because the
breaker changed state since; `Abandon` is the panic that skips both reports.
`credits` and `lost` are history variables: permits that late successes gave
back while a probe was in flight, and whether a probe died.

"HalfOpen allows exactly one probe" (`circuitbreaker.go:73`) is not what the code
guarantees: a late success restores the permit (`circuitbreaker.go:109`). The
property checked and proved, `PermitAccounting`, says what it does guarantee:
the probes and the permit never exceed one plus those late successes.

`Registry` puts `Get` before every use, as the proxy does (`proxy.go:132, 164,
200, 244`): `LookUp` is the read lock, `Create` the write lock, and what a caller
was given (`got`) is a number, so that two breakers for one URL would be told
apart. `Allowed`, `Reported` and `Died` are the actions of `CircuitBreaker`;
`Refused` is an `Eligible` that answers no.

### LoadBalancer

One step of a request is one access to shared state together with the local
work around it. `pc` names the place, `frames` is the stack of the open
`ServeHTTP` calls, each with its backend:

    idle -Arrive-> start -Snapshot-> filter -> select -Admit-> enter -Enter-> proxy
    proxy -Respond-> return -Record-> leave -Leave-> (return of the frame below | idle)
    proxy -TransportError-> failed -TimerFires-> proxy            (retry)
                            failed -MarkDown-> down -Switch-> start (failover)
    proxy -AbortCopy-> panic -Unwind-> ... -> idle

`GiveUp` is the 503 when the attempts are used up, `NoPeer` the 503 without a
candidate, `Refuse` the lost race for the permit, which spends an attempt and
begins again. `pick` holds the locals of the selection: the candidates that are
left, those not yet looked at and those accepted, because `Eligible` and `IsAlive`
are asked of one after the other. The algorithms are abstracted to any candidate
that was alive when it was read; their own modules say which. `None` is "no URL".

External code: `Respond`, `AbortCopy` and `TransportError` are what
`httputil.ReverseProxy` does with an exchange that succeeds, breaks off in the
body (it panics with `http.ErrAbortHandler`), or fails before headers (it calls
the error handler). `BodyGone` is the transport closing the body of a request it
could not send: a request with a body cannot be sent a second time. `Cancel` is
`net/http` cancelling the context when the client leaves.

`Environment` switches parts of the surroundings off where a property needs it:
`cancel`, `abort`, `health`, `admin`. `Flaky` names the servers that may fail.

### Failover

What all of that is for, as a client and the servers see it: a request is
"choosing", "calling", "answered" or "idle"; it has `tried` some servers, each
failed before the next was tried; the `answer` is that of the last one tried or
the balancer's 503; `session` is the cookie; `down` the servers out of rotation.
`LoadBalancer!Promise` maps onto it, by the operators `Status`, `Tried`, `Down` and
`Session`: `tried` is the stack of nested calls while the request is under way,
`down` the dead members of the pool, and selection, retries, reports and the
return of the nested calls are stuttering steps. `Fail`
is `MarkDown`, where the next choice is decided, not the error itself. The
mapping holds for requests without body in a pool that only the proxy changes.
In the instance checked a healthy server always exists, so `GiveUp` is
implemented by no step there: that it does not happen is `HealthyServes`. The
theorem of section 5 covers it.

### HealthChecker

`loop` is the loop of `Start`, `probe` the state of the probe goroutine of each
struct, `verdict` what the holder of `hc.mu` is about to do: count and
`IsAlive()` (`Record`), `SetAlive` (`ApplyVerdict`), `SetBackendUp` and reset
(`EmitVerdict`) are three steps because the proxy and the admin API do not take
that mutex. `MarkAlive` and `MarkGauge` are the two steps of
`MarkBackendStatus`, which excludes `AddBackend` and `Remove` but not other
markers or the health checker. `run` is a history variable, the streak of the
latest results of a URL, which no code resets.

### RoundRobin, WeightedRoundRobin, Algorithms

A call of round robin is `Begin` (`AddUint64`), one step per `IsAlive` read
(`Found`, `Skip`) and `Store` (`StoreUint64`, `return`). The counter is kept
modulo `Period`, a common multiple of the list lengths, because it is only used
modulo those; its wrap at 2^64 is not modelled. `Lists` is what callers may pass,
any part of the pool in its order, which is what the filter of `ServeHTTP`
leaves; those that are not the whole pool are steps of `Disturb`. A call of weighted round robin
is one step, since it holds a mutex, in two forms: `Call`, whose two loops read
the same, and `TornCall`, whose second loop reads other candidates alive.
`recent`, `turns`, `got`, `among`, `torn` are history variables. `Algorithms`
has the shared `alive`, and one instance of each; `SetAlgorithm` starts a new
one. Calls on the replaced object are dropped, as nobody will ask it again.
`LeastConnections` keeps no state and is covered by the abstraction in
`LoadBalancer`.

### Config

A configuration is a function from the names of the settings in the file to
values, a file and a command line are functions from those they name. Load is
`Merged(file, flags)`: `applyFileConfig` takes what is not `Absent` (for strings
and plain integers "" and 0 read as absent, for pointers they are values),
`applyCLI` takes everything that was on the command line, and only then the breaker's
thresholds are checked. `Startable` is what main exits for. Durations are seconds,
`Garbled` stands for text that does not parse, `Invalid` for an error of `Load`.

### Reload

`Init` starts with any command line of `Starts` for which main does not exit.
`Receive`, `Reread` (read the file, main's checks, `ComputeDiff`, and the
pre-validation of `Apply`, which touch nothing shared), then one step for each
call `Apply` makes on the pool: `AddBackend`, `Remove`, the snapshot (`Advance`
out of "read"), `SetWeight`, and `Finish` (`SetAlgorithm`, `UpdateConfig`,
`currentCfg`). Go iterates maps in any order, so the loops take their elements in
any order. `Canon` is `url.Parse(raw).String()`. `health` has the settings of the
health checker as `NewHealthChecker` and `UpdateConfig` correct them. `admin` is a
history variable: whether the admin API or a reload was the last to touch a URL;
`asked` remembers a SIGHUP. SIGTERM, which uses the same channel, ends the loop.

### Process

`Process` extends `Reload` with the three `http.Server`s (`server`: open, draining
with requests in flight, closed, or none), how far the shutdown has come
(`closing`, an index into `Order`), whether the 30 seconds have passed, and whether
main has returned. `CloseListener` and `ShutdownReturns` are the two ends of one
call of `Shutdown`; what `net/http` does between them is `LastRequestEnds`.
`MainReturns` needs no more than a closed listener, as `ListenAndServe` does. After
it nothing happens any more. Admin requests go on while the admin server drains.

### RateLimiter

Addresses do not meet (`sync.Map`, one bucket each), so one stands for all; in
global mode it stands for everybody. `Load`, `LoadOrStore`, `Stamp` and `Allow`
are the four accesses of `Limiter.Allow`; `FindOld` and `Delete` the two of
`cleanup`. Time is in seconds, tokens are fractions of `1/Unit`: exact arithmetic
where the code has float64. `fair` is a history variable, the level of a
bucket that is refilled every second and charged for every request let through.

### TokenBucket

The limiter without entries, clocks and cleanup: a level that is refilled, and
requests that pass for a token or are refused when there is none. `LoseSight`
is what an eviction may do: while the bucket is full, some requests that are asking
are no longer watched, and are answered either way without paying. It is
never taken in global mode (`evicts`). `RateLimiter!OneBucket` maps onto it without
the history variable `fair`: `Level` is what the entry in use would hold if it were
looked at, full when there is none or it is about to be deleted; `Lost` are
the requests that hold a deleted entry. `LoadOrStore`, `Stamp` and `Delete` are
stutters, except that a request that finds an entry about to be deleted is lost.

## 3. The runs

Every property of a passing run has a mutant in `PROJECT.json`: a plausible bug
in a modelled definition with which TLC finds the property violated.

| run | instance | shows |
|---|---|---|
| `circuit_breaker` | 4 callers, thresholds 2 and 3, no breaker yet | `OneBreaker`, `PermitAccounting`, `PermitNotLost`, `Recovery` |
| `lb_failover` | 2 requests, 3 servers of which 2 flaky, one request idempotent with a cookie | `HealthyServes`, `HealthyStaysUp`, `CookieNamesServer`, `KeepsPromise` (refinement of `Failover`) |
| `lb_breaker` | 2 requests, 2 servers, breakers with thresholds 1 and 2 | `NoRepeat`, `PermitHeld`, `HealthyStaysUp`, `EveryRequestReturns` |
| `lb_churn` | 2 requests, 1 server with 2 structs, everything around may happen | `TypeOK`, `SwitchBudget`, `ConnsExact` |
| `lb_double_record` | as `lb_breaker` | `RecordedOnce` fails (finding) |
| `lb_closed_body` | 1 request with a body, 2 servers | `HealthyStaysUp` fails (finding) |
| `health_checker` | 2 servers, one of which is disturbed and may come back as a second struct, thresholds 2/2 and 0/1 | `VerdictHasStreak`, `Converges` |
| `algorithms` | 2 overlapping calls, 3 backends with weights 2, 0, 1 | `EvenRotation`, `EveryBackendServes`, `NoDrift`, `FairShare` |
| `process` | 7 files (one backend, another in its place with other checks and algorithm, both with other weights and odd parameters; unreadable duration, no backend, unknown algorithm, bad URL); 14 command lines, of which 4 start | `ReloadIsRestart`, `WeightsFollowFile`, `NeverEmpty`, `ParametersUsable`, `LatestFileLoaded`, `QuietDrain`, `TermEnds` |
| `shutdown_drain` | the same files, one command line | `RequestsComplete` fails (finding) |
| `reload_spelling` | two spellings of one URL | `FileIsTruth` fails (finding) |
| `rate_limiter` | 3 requests of one address, a burst of 2 tokens, 2/3 of a token per second | `NeverMoreThanFair`, `BucketIsFair`, `RetryAfterEnough`, `ActsAsOneBucket` (refinement of `TokenBucket`) |

**Why the bounds are enough.** Two requests are enough for each race of the
proxy: all of them are between one request and one other actor on a variable of
one backend. Three servers of which two fail exhaust the budget of
`MaxBackendSwitches` = 3 attempts exactly; `lb_churn` takes 2 because a second
struct of a server, not a third attempt, makes its cases happen. Four callers
allow two late reports around a probe and its successor. In
`health_checker` the thresholds are the smallest with a streak, and 0, which the
code raises to 1. With three backends a dead one lies between two live ones, which
is what distinguishes rotation from picking the next alive; weight 0 is read as 1.
The window of 12 calls is three full rounds of weighted round robin.
The bounds that `NoDrift` and `FairShare` state grow with the pool, by one round of
the total weight for each backend but one. A constant number of rounds is true of
small pools only: with one backend of weight 400 and twelve of weight 1, of
which the small one that was picked last always dies, the weight of the heavy one
passes 2 rounds, and 3 rounds in a pool of forty. TLC cannot reach such
pools; the attempt to prove a constant bound showed them.
`MaxTorn` = 1 bounds torn calls of one object; the properties are stated for any
number. In `rate_limiter` the burst of two tokens makes the state "one left" happen, and
`IdleFor` = 4 seconds is the smallest that `RateLimiterAssumption` allows, with
which an idle bucket is always full again when it is evicted. The assumption has
to grant 2 * `MaxLag` seconds, not one `MaxLag`: the clock of the request that
stamps an entry and the clock of the one that uses its bucket may both lag.
Bounds that are not in the code: `MaxTorn`, `Window`, `Period`, `MaxLag` (a
request spends at most a second inside `Allow`), the sets of actors, `Largest` for
the streaks and `Long` for seconds.

In `process` three URLs are enough for a backend that stays, one that comes or
goes and one that is refused, and the files differ from each other in every part
of a difference; each check of `Startable` and each way a file or a flag can be
wrong has one file or command line that fails it. One of them enables the breaker
over a file whose threshold is 0.

**Deadlock** is checked in all runs but `process` and `shutdown_drain`, where the
process ends.

**Fairness.**
`LoadBalancer`: weak fairness of a request's own steps: its goroutine is
scheduled, its back-off timer fires, and a server ends every exchange with an
answer or an error. The last is an assumption on the servers: the proxy sets no
response timeout. Nothing obliges clients, the admin or a breaker's timeout.
`Registry`: time passes, callers that are admitted report, calls keep coming, and
`Get` gets its locks. `HealthChecker`: the ticker ticks, probes end within the client's timeout
and get the mutex; each probe separately, or one server could hold up another.
`Algorithms`: requests keep coming and their goroutines run; `EveryBackendServes`
assumes that disturbances end. `Process`: the goroutine of
signals runs, main notices that `ListenAndServe` has returned, and the timer of
`shutCtx` fires. Nothing makes a request in flight end, and nobody has to write
files, signal or call the admin API. `RateLimiter` has no liveness property.

## 4. Where code and documents disagree

* `RecordedOnce` (`proxy.go:240`): the guard against double counting compares a
  context value with itself, so after a failover the outer frame records the
  request again, for the failed backend and with the status that the other one
  returned, and calls `RecordSuccess` on the failed backend's breaker. A
  consecutive series of failures is thereby interrupted by successes that never
  were, so that a breaker with a threshold above 1 may not open.
* `HealthyStaysUp` in `lb_closed_body` (`proxy.go:140`): a request with a body
  fails over without its body and gets healthy backends marked dead.
* `FileIsTruth` (`reload.go:157`): spelling a URL differently in the new file
  removes the backend.
* `RequestsComplete` (`main.go:351`): `ListenAndServe` returns as soon as `Shutdown`
  has closed the listener; main returns and the process ends with its requests
  in flight, against "drain LB traffic (in-flight requests complete)" of the design
  document (`2026-03-30-v1-design.md:267`). The metrics and admin servers, which
  are shut down before, are drained.

Behaviours met on the way that no document contradicts, described by the hazards:
a permit is lost when a response is aborted (`PermitNotLost` remembers it in
`lost`; `PermitHeld` is checked without aborts); a client that leaves during a
non-idempotent request has healthy backends marked dead, one that leaves during
the back-off is recorded as a success; the failed backend counts its connection
while another serves; an attempt is spent by a lost race for the permit;
breakers of removed backends live on; a reload accepts files with which the
process would not start, and ignores without a word changes of ports, rate limit,
breaker and sticky sessions; a SIGTERM is dropped while a SIGHUP waits; a disabled
backend comes back with the next healthy verdict; of two requests of the admin API
that add the same URL at once both answer 201; eviction in the rate limiter lets requests
that overtake it go uncounted. One disagreement is outside the models, as they
leave the syntax of flags out: `extractConfigFlag` takes `--config ""` in two
arguments, while its comment says that an empty value is an error (`main.go:39,
48`).

## 5. What is proved

TLAPS proves these for every value of the constants that the named assumptions
of the modules allow: any number of callers, requests, servers, backends, URLs
and entries, any thresholds, switches, rates, files and command lines.

| theorem | says |
|---|---|
| `CircuitBreakerProofs!TypeCorrect` | `Spec => []TypeOK` |
| `CircuitBreakerProofs!PermitsAccounted` | `Spec => []PermitAccounting` |
| `CircuitBreakerProofs!PermitsKept` | `Spec => []PermitNotLost` |
| `CircuitBreakerProofs!OneForAll` | `RegistrySpec => []OneBreaker` |
| `CircuitBreakerProofs!RegistryShares` | `RegistrySpec => Spec` of `CircuitBreaker` |
| `CircuitBreakerProofs!RegistryTypes` | `RegistrySpec => []RegistryTypeOK` |
| `CircuitBreakerProofs!RegistryPermits` | `RegistrySpec => [](PermitAccounting /\ PermitNotLost)` |
| `LoadBalancerProofs!TypeCorrect` | `Spec => []TypeOK` |
| `LoadBalancerProofs!SwitchesBounded` | `Spec => []SwitchBudget` |
| `LoadBalancerProofs!ConnsAreExact` | `Spec => []ConnsExact` |
| `LoadBalancerProofs!CookieIsRight` | `Spec => []CookieNamesServer` |
| `LoadBalancerProofs!PermitIsOwed` | `NoAborts`: `Spec => []PermitHeld` |
| `LoadBalancerProofs!AttemptsDiffer` | `ProxyAlone`: `Spec => []NoRepeat` |
| `LoadBalancerProofs!HealthyUndisturbed` | `OnlyServersFail`: `Spec => []HealthyStaysUp` |
| `LoadBalancerProofs!FailoverServes` | `NothingElseFails`, `Enough`: `Spec => []HealthyServes` |
| `LoadBalancerProofs!ImplementsPromise` | `NothingElseFails`, `EveryServerPooled`: `Spec => KeepsPromise`, the refinement of `Failover` |
| `HealthCheckerProofs!TypeCorrect` | `Spec => []TypeOK` |
| `HealthCheckerProofs!StreakBehindVerdict` | `Spec => []VerdictHasStreak` |
| `AlgorithmsProofs!AlgorithmsTyped` | `FairSpec => []TypeOK` (fairness is not used in these four) |
| `AlgorithmsProofs!RotatesEvenly` | `FairSpec => []EvenRotation` |
| `AlgorithmsProofs!WeightsStayBounded` | `FairSpec => []NoDrift` |
| `AlgorithmsProofs!SharesAreFair` | `FairSpec => []FairShare` |
| `RateLimiterProofs!TypeCorrect` | `Spec => []TypeOK` |
| `RateLimiterProofs!OneFairBucket` | `Spec => []BucketIsFair` |
| `RateLimiterProofs!NeverOverdrawn` | `Spec => []NeverMoreThanFair` |
| `RateLimiterProofs!AnswerLongEnough` | `Spec => []RetryAfterEnough` |
| `RateLimiterProofs!ImplementsTokenBucket` | `Spec => ActsAsOneBucket`, the refinement of `TokenBucket` |
| `ProcessProofs!TypeCorrect` | `Spec => []TypeOK`, of `Reload` |
| `ProcessProofs!AlwaysUsable` | `Spec => []ParametersUsable` |
| `ProcessProofs!RestartInPlace` | `Canonical`: `Spec => []ReloadIsRestart` |
| `ProcessProofs!WeightsOfFile` | `Canonical`: `Spec => []WeightsFollowFile` |
| `ProcessProofs!PoolNeverEmpty` | `Canonical`: `Spec => []NeverEmpty` |
| `ProcessProofs!ProcessReloads` | `ProcessSpec => Spec` of `Reload` |
| `ProcessProofs!ProcessTypeCorrect` | `ProcessSpec => []ProcessTypeOK` |
| `ProcessProofs!DrainIsQuiet` | `ProcessSpec => QuietDrain` |
| `ProcessProofs!ProcessFollowsFile` | `Canonical`: the four properties of `Reload` for `ProcessSpec` |

Every hypothesis before a colon is a named definition of the proof module, is
true of the constants of the run that checks the property, and is needed:

* `NoAborts`: an aborted response loses the permit (`proxy.go:233`), see hazards.
* `ProxyAlone` (no health checker, no admin): a backend that the health checker
  revives between two attempts is tried again.
* `OnlyServersFail` adds that clients stay and that no request has a body: a
  client that leaves, or a body that the failed attempt has closed, fails at
  servers that are well (the finding of `lb_closed_body`).
* `NothingElseFails` adds that breakers are off: a lost race for a permit spends
  an attempt. `Enough`: one pooled server never fails, and fewer than
  `MaxBackendSwitches` backends may.
* `EveryServerPooled`: `Failover` gives up when every server is out of rotation,
  the proxy when those in its pool are.
* `Canonical`: URLs are written as `url.Parse` prints them; for others the pool
  does not follow the file (the finding of `reload_spelling`).

*Breaker.* `BreakerProofs` says once what each operator of `Breaker` does to
each field; the modules that follow cite only those lemmas. `PermitAccounting`
is not inductive: a step could find probes in flight while the circuit is
closed, and opening the next half-open period would count them. `PermitInv`
adds `CallsMatchState`, that there are probes only in the half-open state (a
change of state makes them late), and `TypeOK`, which bounds `credits` from below.
`PermitsKept` then is inductive relative to `PermitInv`.

*Registry.* Every step of `Registry` is one of `CircuitBreaker` or leaves its
variables alone (`StepsMap`), so `RegistrySpec => Spec`, and the theorems above
carry over. `OneBreaker` is inductive with the types of the registry's own
variables: a breaker is only made while nobody has been given one.

*Proxy, whatever happens.* `CallInv` is `TypeOK` and, for each request,
`Position`: what its place in the code implies for its stack, its attempts and
its pick (a request that has chosen an attempt has one left; one inside a call has
a non-empty stack no longer than its attempts allow). There is a lemma for each
group of actions. `SwitchBudget` follows from `CallInv`. `ConnsExact` is inductive
together with it: `Enter` adds one open call of one struct and one to its count,
`CloseFrame` takes both away, and everything else leaves frames and counts
alone; the cardinality of the set of open calls changes by exactly one because
a stack is a sequence indexed from 1 and only its top is pushed or popped.
`CookieInv` says where the cookie stands at each label: while a call is open it
is that of its backend, and once a server has answered no other is set, though
the nested calls still return.

*Failover.* The invariants build on each other and on `CallInv`. `RotationInv`:
all backends on the stack of a request that is choosing are dead, and as nothing
revives them, what it has read alive *since* is not on the stack; therefore
no stack has a backend twice, which is `NoRepeat`. `BlameInv`: each open call but
an undecided innermost one is at a server that may fail, so only those are marked
dead. `ServiceInv` adds `Tracked`: one attempt is spent for each call, and the
selection still has before it every backend it does not know to be dead. A 503
would then need either `MaxBackendSwitches` different failed backends, more
than `Enough` allows (a pigeonhole over the stack), or a selection that has passed
the server that never fails, which is alive by `BlameInv`. `PermitInv` (breakers
on, no aborts): a permit is taken only by a request that is still on its way to
a report.

*Refinement.* `ImplementsPromise` takes `PromiseInv`, all of the above, and goes
through the actions: `Arrive`, `Enter`, `MarkDown`, `Respond`, the 503s and the last
return are steps of `Failover`, everything else, and the return of each nested
call, is a stutter. What has to be shown are the guards of `Failover`: `Enter`
tries a server that was not tried before (`RotationInv`), `MarkDown` takes only
a server that may fail out of rotation (`BlameInv`), and a 503 comes only when
every server is out of rotation or all attempts are used up (`Tracked`). The last
is proved here for every pool, also where `Enough` does not hold, which the
instance of `lb_failover` never reaches.

*Health checker.* `VerdictHasStreak` compares a verdict with a history variable
that no code resets, while the counters are reset, pruned and shared by structs of
one URL. `StreakInv` relates the two (`RunBacksCounter`), keeps the verdict that
was reached while `mu` is held (`VerdictReached`: `UpdateConfig` waits for it),
and says that between rounds, when counters are pruned, no probe is under way.

*Round robin.* `RotationInv` says that between any two picks in the history
nothing alive was passed over (`CoveredIn`), and where the next pick will begin
(`Follows`): the counter is one before the last pick, or one call goes on from there
and all it has met was dead, or nothing is alive. The three cases are the
reason why `Store` has to overwrite the counter. Two equal picks then have every
live backend picked between them, so they are at least as far apart as there are
live backends (`PickedAgainLater`), which is `EvenRotation`.

*Weighted round robin.* `NoDrift` bounds single weights and is far from inductive:
a call raises every candidate and charges the largest with the total, and how far
that one falls depends on how far the others had risen. `WeightedInv` bounds
the sum over *every* set of k backends instead: twice the sum stays within
`Cap(torn)[k]`, a ladder whose rungs grow by two rounds less at each k. Of the sets
whose sum a call would make too large take the smallest (`CallKeepsBelow`). It
lacks the charged backend, or the call would not have raised its sum, and has
a raised one. With the charged backend added, its sum was within the next rung
before the call and has not grown; without the raised one, it is within the
rung below, as it is smaller. So the weights of these two are less than the rungs are
apart; but before the charge that of the charged one was no smaller, and the
charge is at most a round. `CallKeepsAbove` is the mirror image, with
the largest set. A pruned key is a zero, and a sum with a zero one over fewer summands;
a torn call moves each sum by no more than a round. At k = 1 the cap is twice
`MaxDrift`. `SharesKept` says that turns, picks and weight differ, as long as
the candidates stay, by what the weight was when they last changed; so
`FairShare` is about the difference of two weights. `AtRest` has the weights at zero
until `SetAlgorithm` makes the object. The sums are one function on the subsets of a
finite set, chosen by its equations (`SumOver`); that it exists and is unique is shown
by smallest counterexamples, in place of an induction, and `Total` is one of its values
(`TotalIsSum`). Nothing is assumed about the weights.

*Rate limiter.* `BucketIsFair` needs to know what an eviction throws away. In
`LimiterInv` an entry was idle for at least as long as it was unseen, less twice
`MaxLag` (`IdleKept`), which is where the assumption on `IdleFor` comes from; an
entry that `LoadOrStore` is about to publish is full and nobody else's (`Fresh`);
and the bucket in use has exactly the level of the fair one, which is full
whenever there is none (`FairKept`). With one `MaxLag` in place of two
`BucketIsFair` is false: TLC finds a run of it with a lag of 2 seconds.
The refinement of `TokenBucket` rests on it: `Level` is the fair one's
(`LevelFollows`), so that only the requests' own steps are left to follow, and which
of them the limiter loses sight of (`Astray`). An eviction is a `LoseSight` because the
bucket is full then, and still is when a request finds the doomed entry.

*Reload and process.* `ReloadInv`: a configuration that is current, or about to
be, passed the checks of main and those of `Apply`; the loops hold parts of the
difference. `FileInv` says, loop by loop, which URLs are in the pool: what is not
yet added or not yet removed is still in `todo`, a URL that the admin API
has touched last is as it left it; likewise for each weight, which is that of the
old file, the new one, or still to be set. As additions come before removals,
both files' backends are there in between, which is `NeverEmpty`. Every
step of `Process` is one of `Reload` or leaves it alone (`ProcessReloads`), so that all
of it holds in the process. `DrainInv` has the order of the shutdown: when the
main server is no longer open, the goroutine of signals is in the shutdown and
the admin server is closed, or time has run out.

**Only model-checked.** Liveness and everything under fairness (`Recovery`,
`EveryRequestReturns`, `Converges`, `EveryBackendServes`, `LatestFileLoaded`,
`TermEnds`), which the prover does not treat. Every invariant and every action
property of the passing runs is stated by a theorem.
What the findings show is a violation, and stays with TLC.
No module uses a recursive operator.

## 6. What is not modelled

The syntax of URLs, YAML, flags, durations and cookies, and `extractConfigFlag`; TLS;
JSON and status answers of the admin API; the text of responses, logging; the
Prometheus exposition and the histograms (the gauge `backend_up` and the number of
`RecordRequest` calls are modelled, the gauge of active connections follows
`IncrConns` and `DecrConns`). A server that cannot listen on its port: main exits
then, or logs it for the other two. `LeastConnections` is any candidate seen
alive; `SetAlgorithm` is modelled in `Algorithms` and `Reload`, not in
`LoadBalancer`, where the algorithm does not matter. `rl.Stop()` at the end of
main ends a goroutine of a process that ends. `Registry.Remove` and `Diff.Empty`
are called by nobody, and `middleware.Chain` and the logger keep no state.

## 7. What is left

* An abstract specification of the shutdown that `Process` implements.
* How many requests can be lost sight of by one eviction: `TokenBucket` says only that it
  happens when the bucket is full, not that they are at most one more bucket.
* A bound for the drift of weighted round robin that grows as slowly as the
  drift in the histories of section 3, which is about the logarithm of the
  pool's size; the one proved is linear.
* The hazards of `PROJECT.json` that no property covers, most of which lie in
  `net/http` around the proxy.
