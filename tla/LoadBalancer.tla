---------------------------- MODULE LoadBalancer ----------------------------
(***************************************************************************)
(* The proxy of internal/proxy with the pool, the backends and the breaker *)
(* registry it shares between requests: LoadBalancer.ServeHTTP and the     *)
(* error handler that SetupProxy installs, run by concurrent requests next *)
(* to the health checker, the admin API, the clock and the clients.        *)
(*                                                                         *)
(* One step of a request is one access to shared state, with the local     *)
(* work around it.  A failover calls ServeHTTP from the error handler of   *)
(* the backend that failed, so the calls of one request nest: `frames' is  *)
(* the stack of the backends whose call has not returned.                  *)
(*                                                                         *)
(* The algorithms are abstracted to what they share: each reads IsAlive()  *)
(* of the candidates one by one and picks one that it saw alive.           *)
(***************************************************************************)
EXTENDS Breaker, FiniteSets, Sequences

CONSTANTS
    Requests,           \* the requests in progress at one time
    Objects,            \* *Backend structs
    Urls,               \* their URLs: what pool, breakers and cookies compare
    InitialPool,        \* those of the configuration
    UrlOf,              \* the URL of a struct
    None,               \* no URL
    MaxBackendSwitches, \* the constant of that name, 3 in the code
    maxRetries,         \* the constant of that name, 3 in the code
    Idempotent,         \* the requests with a method of idempotentMethods
    WithBody,           \* the requests that carry a body
    CookieOf,           \* the URL in a request's sticky cookie, or None
    BreakerEnabled,     \* lb.cbRegistry # nil
    StickyEnabled,      \* lb.sticky # nil
    Flaky,              \* the URLs whose server may fail
    Environment         \* what may happen around the requests

ASSUME LoadBalancerAssumption ==
    /\ IsFiniteSet(Requests) /\ IsFiniteSet(Objects)
    /\ UrlOf \in [Objects -> Urls]
    /\ InitialPool \subseteq Objects
    /\ \A a, b \in InitialPool : UrlOf[a] = UrlOf[b] => a = b
    /\ None \notin Urls
    /\ MaxBackendSwitches \in Nat /\ maxRetries \in Nat
    /\ Idempotent \subseteq Requests /\ WithBody \subseteq Requests
    /\ CookieOf \in [Requests -> Urls \cup {None}]
    /\ BreakerEnabled \in BOOLEAN /\ StickyEnabled \in BOOLEAN
    /\ Flaky \subseteq Urls
    /\ Environment \subseteq {"cancel", "abort", "health", "admin"}

VARIABLES
    pool,      \* ServerPool.backends
    alive,     \* Backend.alive
    conns,     \* Backend.activeConns
    brk,       \* Registry.breakers; Get makes a new one for a URL it misses
    pc,        \* where each request is
    attempts,  \* the context's attemptsKey
    retry,     \* the context's retryKey
    pick,      \* locals of the selection: candidates, unread and accepted
    frames,    \* the open calls of ServeHTTP that have chosen a backend
    answer,    \* the response, and the server it comes from
    pinned,    \* the backend URL of the last Set-Cookie
    recorded,  \* calls of metrics.RecordRequest
    cancelled  \* the request's context is done

shared == <<pool, alive, conns, brk>>
ctx    == <<attempts, retry, cancelled>>
reply  == <<answer, pinned, recorded>>
vars   == <<shared, pc, ctx, pick, frames, reply>>

-----------------------------------------------------------------------------
Labels == {"idle", "start", "filter", "select", "enter", "proxy", "failed",
           "down", "return", "leave", "panic"}

Picks == [from : SUBSET Objects, todo : SUBSET Objects, seen : SUBSET Objects]
NoPick == [from |-> {}, todo |-> {}, seen |-> {}]
Chosen(b) == [from |-> {}, todo |-> {}, seen |-> {b}]

Answers == [by : Urls \cup {None}, ok : BOOLEAN]
NoAnswer    == [by |-> None, ok |-> TRUE]  \* nothing written: net/http says 200
Unavailable == [by |-> None, ok |-> FALSE] \* the load balancer's own 503

TypeOK == /\ pool \subseteq Objects
          /\ alive \in [Objects -> BOOLEAN]
          /\ conns \in [Objects -> Int]
          /\ brk \in [Urls -> BreakerType]
          /\ pc \in [Requests -> Labels]
          /\ attempts \in [Requests -> 0 .. MaxBackendSwitches]
          /\ retry \in [Requests -> 0 .. maxRetries]
          /\ pick \in [Requests -> Picks]
          /\ frames \in [Requests -> Seq(Objects)]
          /\ answer \in [Requests -> Answers]
          /\ pinned \in [Requests -> Urls \cup {None}]
          /\ recorded \in [Requests -> Nat]
          /\ cancelled \in [Requests -> BOOLEAN]

Top(r) == frames[r][Len(frames[r])]
Url(r) == UrlOf[Top(r)]
Pop(s) == SubSeq(s, 1, Len(s) - 1)

Goto(r, label) == pc' = [pc EXCEPT ![r] = label]

\* Where a request goes on when a call of ServeHTTP returns and leaves `stack':
\* to the call that made the failed attempt, or out of the handler.
ReturnTo(r, stack) == Goto(r, IF stack = <<>> THEN "idle" ELSE "return")

Init == /\ pool = InitialPool
        /\ alive = [o \in Objects |-> TRUE]
        /\ conns = [o \in Objects |-> 0]
        /\ brk = [u \in Urls |-> NewBreaker]
        /\ pc = [r \in Requests |-> "idle"]
        /\ attempts = [r \in Requests |-> 0]
        /\ retry = [r \in Requests |-> 0]
        /\ pick = [r \in Requests |-> NoPick]
        /\ frames = [r \in Requests |-> <<>>]
        /\ answer = [r \in Requests |-> NoAnswer]
        /\ pinned = [r \in Requests |-> None]
        /\ recorded = [r \in Requests |-> 0]
        /\ cancelled = [r \in Requests |-> FALSE]

-----------------------------------------------------------------------------
(***************************************************************************)
(* Selection: from the entry of ServeHTTP to the call of the backend.      *)
(***************************************************************************)

\* net/http calls the handler for a new request.
Arrive(r) ==
    /\ pc[r] = "idle"
    /\ Goto(r, "start")
    /\ attempts' = [attempts EXCEPT ![r] = 0]
    /\ retry' = [retry EXCEPT ![r] = 0]
    /\ answer' = [answer EXCEPT ![r] = NoAnswer]
    /\ pinned' = [pinned EXCEPT ![r] = None]
    /\ recorded' = [recorded EXCEPT ![r] = 0]
    /\ cancelled' = [cancelled EXCEPT ![r] = FALSE]
    /\ UNCHANGED <<shared, pick, frames>>

\* http.Error(w, "Service not available", 503) and return.
Reply503(r) ==
    /\ answer' = [answer EXCEPT ![r] = Unavailable]
    /\ ReturnTo(r, frames[r])
    /\ UNCHANGED <<shared, ctx, frames, pinned, recorded>>

\* Mutant of Exhausted: off by one.
ExhaustedLate(r) == attempts[r] > MaxBackendSwitches
Exhausted(r) == attempts[r] >= MaxBackendSwitches

GiveUp(r) ==
    /\ pc[r] = "start"
    /\ Exhausted(r)
    /\ Reply503(r)
    /\ UNCHANGED pick

Snapshot(r) ==
    /\ pc[r] = "start"
    /\ ~Exhausted(r)
    /\ pick' = [pick EXCEPT ![r] =
                  [from |-> pool,
                   todo |-> IF BreakerEnabled THEN pool ELSE {},
                   seen |-> {}]]
    /\ Goto(r, "filter")
    /\ UNCHANGED <<shared, ctx, frames, reply>>

\* Read one candidate off `todo' and keep it when the answer is `good'.
Examine(r, b, good) ==
    /\ b \in pick[r].todo
    /\ pick' = [pick EXCEPT ![r] =
                  [from |-> @.from,
                   todo |-> @.todo \ {b},
                   seen |-> IF good THEN @.seen \cup {b} ELSE @.seen]]
    /\ UNCHANGED <<shared, pc, ctx, frames, reply>>

\* Mutant of CheckEligible: the filter asks Allow(), which takes the permit.
CheckByAllow(r, b) ==
    /\ pc[r] = "filter" /\ b \in pick[r].todo
    /\ pick' = [pick EXCEPT ![r].todo = @ \ {b},
                            ![r].seen = IF Eligible(brk[UrlOf[b]])
                                        THEN @ \cup {b} ELSE @]
    /\ brk' = [brk EXCEPT ![UrlOf[b]] = AfterAllow(@)]
    /\ UNCHANGED <<pool, alive, conns, pc, ctx, frames, reply>>

CheckEligible(r, b) ==
    /\ pc[r] = "filter"
    /\ Examine(r, b, Eligible(brk[UrlOf[b]]))

\* The filter is dropped when nothing passes it.
Filtered(r) == IF pick[r].seen = {} THEN pick[r].from ELSE pick[r].seen

\* The candidate of the sticky cookie, if it is one and is alive.
Affine(r) == {b \in Filtered(r) :
                 StickyEnabled /\ UrlOf[b] = CookieOf[r] /\ alive[b]}

Filtering(r) == pc[r] = "filter" /\ pick[r].todo = {}

UseCookie(r) ==
    /\ Filtering(r)
    /\ \E b \in Affine(r) :
          pick' = [pick EXCEPT ![r] = Chosen(b)]
    /\ Goto(r, "select")
    /\ UNCHANGED <<shared, ctx, frames, reply>>

RunAlgorithm(r) ==
    /\ Filtering(r)
    /\ Affine(r) = {}
    /\ pick' = [pick EXCEPT ![r] =
                  [from |-> {}, todo |-> Filtered(r), seen |-> {}]]
    /\ Goto(r, "select")
    /\ UNCHANGED <<shared, ctx, frames, reply>>

\* Mutant of CheckAlive: dead candidates are picked as well.
CheckNothing(r, b) ==
    /\ pc[r] = "select"
    /\ Examine(r, b, TRUE)

CheckAlive(r, b) ==
    /\ pc[r] = "select"
    /\ Examine(r, b, alive[b])

Selecting(r) == pc[r] = "select" /\ pick[r].todo = {}

NoPeer(r) ==
    /\ Selecting(r)
    /\ pick[r].seen = {}
    /\ Reply503(r)
    /\ UNCHANGED pick

\* The context for another backend: one more attempt, and its retries.
\* Mutant of NextAttempt: the attempt is not counted.
FreeAttempt(r) == retry' = [retry EXCEPT ![r] = 0] /\ UNCHANGED attempts
NextAttempt(r) == /\ attempts' = [attempts EXCEPT ![r] = @ + 1]
                  /\ retry' = [retry EXCEPT ![r] = 0]

\* Allow() says no: ServeHTTP calls itself with the next attempt.
Refuse(r, b) ==
    /\ Selecting(r)
    /\ b \in pick[r].seen
    /\ BreakerEnabled /\ ~Eligible(brk[UrlOf[b]])
    /\ NextAttempt(r)
    /\ pick' = [pick EXCEPT ![r] = NoPick]
    /\ Goto(r, "start")
    /\ UNCHANGED <<shared, cancelled, frames, reply>>

Admit(r, b) ==
    /\ Selecting(r)
    /\ b \in pick[r].seen
    /\ \/ /\ BreakerEnabled
          /\ Eligible(brk[UrlOf[b]])
          /\ brk' = [brk EXCEPT ![UrlOf[b]] = AfterAllow(@)]
       \/ /\ ~BreakerEnabled
          /\ UNCHANGED brk
    /\ pick' = [pick EXCEPT ![r] = Chosen(b)]
    /\ Goto(r, "enter")
    /\ UNCHANGED <<pool, alive, conns, ctx, frames, reply>>

\* The Set-Cookie of the response once b is chosen.
\* Mutant of CookieAfter: only the first attempt sets the cookie.
CookieOnce(r, b)  == IF StickyEnabled /\ pinned[r] = None
                     THEN UrlOf[b] ELSE pinned[r]
CookieAfter(r, b) == IF StickyEnabled THEN UrlOf[b] ELSE pinned[r]

\* SetCookie, IncrConns, and peer.ReverseProxy is called.
Enter(r, b) ==
    /\ pc[r] = "enter"
    /\ b \in pick[r].seen
    /\ pinned' = [pinned EXCEPT ![r] = CookieAfter(r, b)]
    /\ conns' = [conns EXCEPT ![b] = @ + 1]
    /\ frames' = [frames EXCEPT ![r] = Append(@, b)]
    /\ pick' = [pick EXCEPT ![r] = NoPick]
    /\ Goto(r, "proxy")
    /\ UNCHANGED <<pool, alive, brk, ctx, answer, recorded>>

-----------------------------------------------------------------------------
(***************************************************************************)
(* The call of the backend, and its error handler.                         *)
(***************************************************************************)

\* The transport closed the body when an earlier send of the request failed.
BodyGone(r) == r \in WithBody /\ (retry[r] > 0 \/ Len(frames[r]) > 1)

\* The server answers and the answer is copied to the client.
Respond(r, ok) ==
    /\ pc[r] = "proxy"
    /\ ok \/ Url(r) \in Flaky
    /\ answer' = [answer EXCEPT ![r] = [by |-> Url(r), ok |-> ok]]
    /\ Goto(r, "return")
    /\ UNCHANGED <<shared, ctx, pick, frames, pinned, recorded>>

\* The copy fails half-way: ReverseProxy panics with http.ErrAbortHandler.
AbortCopy(r) ==
    /\ "abort" \in Environment
    /\ pc[r] = "proxy"
    /\ answer' = [answer EXCEPT ![r] = [by |-> Url(r), ok |-> TRUE]]
    /\ Goto(r, "panic")
    /\ UNCHANGED <<shared, ctx, pick, frames, pinned, recorded>>

\* The transport fails and ReverseProxy calls the error handler.
TransportError(r) ==
    /\ pc[r] = "proxy"
    /\ Url(r) \in Flaky \/ cancelled[r] \/ BodyGone(r)
    /\ Goto(r, "failed")
    /\ UNCHANGED <<shared, ctx, pick, frames, reply>>

\* Mutant of MayRetry: off by one.
RetryLate(r) == retry[r] <= maxRetries /\ r \in Idempotent
MayRetry(r) == retry[r] < maxRetries /\ r \in Idempotent

TimerFires(r) ==
    /\ pc[r] = "failed"
    /\ MayRetry(r)
    /\ retry' = [retry EXCEPT ![r] = @ + 1]
    /\ Goto(r, "proxy")
    /\ UNCHANGED <<shared, attempts, cancelled, pick, frames, reply>>

\* The client gives up during the 10 ms: nothing is written.
BackoffCancelled(r) ==
    /\ pc[r] = "failed"
    /\ MayRetry(r)
    /\ cancelled[r]
    /\ Goto(r, "return")
    /\ UNCHANGED <<shared, ctx, pick, frames, reply>>

\* Mutants of MarkBackendStatus: it finds no struct; it compares no URL.
MarkNothing(u, up) == UNCHANGED alive
MarkAll(u, up) == alive' = [o \in Objects |-> IF o \in pool THEN up
                                                            ELSE alive[o]]

\* pool.MarkBackendStatus(u, up): the struct that now has the URL in the pool.
MarkBackendStatus(u, up) ==
    alive' = [o \in Objects |-> IF o \in pool /\ UrlOf[o] = u THEN up
                                                              ELSE alive[o]]

MarkDown(r) ==
    /\ pc[r] = "failed"
    /\ ~MayRetry(r)
    /\ MarkBackendStatus(Url(r), FALSE)
    /\ Goto(r, "down")
    /\ UNCHANGED <<pool, conns, brk, ctx, pick, frames, reply>>

\* The breaker's share of an outcome.
Report(r, ok) ==
    brk' = IF BreakerEnabled
           THEN [brk EXCEPT ![Url(r)] = IF ok THEN AfterSuccess(@)
                                              ELSE AfterFailure(@)]
           ELSE brk

\* RecordFailure, then ServeHTTP again with the next attempt.
Switch(r) ==
    /\ pc[r] = "down"
    /\ Report(r, FALSE)
    /\ IF attempts[r] < MaxBackendSwitches
       THEN /\ NextAttempt(r)
            /\ Goto(r, "start")
            /\ UNCHANGED answer
       ELSE /\ answer' = [answer EXCEPT ![r] = Unavailable]
            /\ Goto(r, "return")
            /\ UNCHANGED <<attempts, retry>>
    /\ UNCHANGED <<pool, alive, conns, cancelled, pick, frames, pinned, recorded>>

(***************************************************************************)
(* ReverseProxy has returned to ServeHTTP.  The test of line 240 compares  *)
(* the attempts of this call's own context with themselves, since a        *)
(* context is never updated in place: it always lets the call record.      *)
(***************************************************************************)
Record(r) ==
    /\ pc[r] = "return"
    /\ recorded' = [recorded EXCEPT ![r] = @ + 1]
    /\ Report(r, answer[r].ok)
    /\ Goto(r, "leave")
    /\ UNCHANGED <<pool, alive, conns, ctx, pick, frames, answer, pinned>>

\* A call ends: the deferred DecrConns.
\* Mutant of CloseFrame: it is forgotten.
CloseLeaking(r) == frames' = [frames EXCEPT ![r] = Pop(@)] /\ UNCHANGED conns
CloseFrame(r) == /\ conns' = [conns EXCEPT ![Top(r)] = @ - 1]
                 /\ frames' = [frames EXCEPT ![r] = Pop(@)]

Leave(r) ==
    /\ pc[r] = "leave"
    /\ CloseFrame(r)
    /\ ReturnTo(r, Pop(frames[r]))
    /\ UNCHANGED <<pool, alive, brk, ctx, pick, reply>>

\* A panic runs the deferred calls only, in every open frame.
Unwind(r) ==
    /\ pc[r] = "panic"
    /\ CloseFrame(r)
    /\ Goto(r, IF Pop(frames[r]) = <<>> THEN "idle" ELSE "panic")
    /\ UNCHANGED <<pool, alive, brk, ctx, pick, reply>>

-----------------------------------------------------------------------------
(***************************************************************************)
(* Around the requests.                                                    *)
(***************************************************************************)
Around == <<pc, attempts, retry, pick, frames, reply>>

\* The client disconnects.
Cancel(r) ==
    /\ "cancel" \in Environment
    /\ pc[r] # "idle"
    /\ cancelled' = [cancelled EXCEPT ![r] = TRUE]
    /\ UNCHANGED <<shared, Around>>

\* A health checker's counter reaches its threshold: SetAlive on the struct it
\* probed, which may have left the pool since.
HealthVerdict(o, up) ==
    /\ "health" \in Environment
    /\ alive' = [alive EXCEPT ![o] = up]
    /\ UNCHANGED <<pool, conns, brk, Around, cancelled>>

\* POST /admin/backends/{url}/enable and /disable
AdminSetAlive(u, up) ==
    /\ "admin" \in Environment
    /\ MarkBackendStatus(u, up)
    /\ UNCHANGED <<pool, conns, brk, Around, cancelled>>

\* POST /admin/backends: a new struct, so one that no request holds.
AdminAdd(o) ==
    /\ "admin" \in Environment
    /\ \A p \in pool : UrlOf[p] # UrlOf[o]
    /\ \A r \in Requests : /\ \A i \in DOMAIN frames[r] : frames[r][i] # o
                           /\ o \notin UNION {pick[r].from, pick[r].todo,
                                              pick[r].seen}
    /\ pool' = pool \cup {o}
    /\ alive' = [alive EXCEPT ![o] = TRUE]
    /\ UNCHANGED <<conns, brk, Around, cancelled>>

\* DELETE /admin/backends/{url}
AdminRemove(o) ==
    /\ "admin" \in Environment
    /\ pool' = pool \ {o}
    /\ UNCHANGED <<alive, conns, brk, Around, cancelled>>

\* The timeout of an open breaker elapses.
BreakerTimeout(u) ==
    /\ CanExpire(brk[u])
    /\ brk' = [brk EXCEPT ![u] = AfterTimeout(@)]
    /\ UNCHANGED <<pool, alive, conns, Around, cancelled>>

-----------------------------------------------------------------------------
Step(r) ==
    \/ GiveUp(r) \/ Snapshot(r) \/ UseCookie(r) \/ RunAlgorithm(r) \/ NoPeer(r)
    \/ \E b \in Objects : \/ CheckEligible(r, b) \/ CheckAlive(r, b)
                          \/ Refuse(r, b) \/ Admit(r, b) \/ Enter(r, b)
    \/ \E ok \in BOOLEAN : Respond(r, ok)
    \/ AbortCopy(r) \/ TransportError(r) \/ TimerFires(r) \/ BackoffCancelled(r)
    \/ MarkDown(r) \/ Switch(r) \/ Record(r) \/ Leave(r) \/ Unwind(r)

Next == \/ \E r \in Requests : Arrive(r) \/ Step(r) \/ Cancel(r)
        \/ \E o \in Objects : \/ AdminAdd(o) \/ AdminRemove(o)
                              \/ \E up \in BOOLEAN : HealthVerdict(o, up)
        \/ \E u \in Urls : \/ BreakerTimeout(u)
                           \/ \E up \in BOOLEAN : AdminSetAlive(u, up)

Spec == Init /\ [][Next]_vars

(***************************************************************************)
(* The goroutine of a request runs, its timer fires, and a server ends     *)
(* every exchange, with an answer or with an error.                        *)
(***************************************************************************)
FairSpec == Spec /\ \A r \in Requests : WF_vars(Step(r))

-----------------------------------------------------------------------------
(***************************************************************************)
(* Every IncrConns is matched by one DecrConns, on every way out of        *)
(* ServeHTTP: a struct counts the open calls that chose it, even after it  *)
(* left the pool.                                                          *)
(***************************************************************************)
OpenCalls(b) == {c \in Requests \X (1 .. MaxBackendSwitches) :
                    c[2] \in DOMAIN frames[c[1]] /\ frames[c[1]][c[2]] = b}

ConnsExact == \A b \in Objects : conns[b] = Cardinality(OpenCalls(b))

(***************************************************************************)
(* The recursion through the error handler is bounded: a request is sent   *)
(* to at most MaxBackendSwitches backends, and an attempt that fails has   *)
(* always one left, so the 503 of proxy.go:143 is never written there.     *)
(***************************************************************************)
SwitchBudget == \A r \in Requests :
                    /\ Len(frames[r]) <= MaxBackendSwitches
                    /\ pc[r] = "down" => attempts[r] < MaxBackendSwitches

(***************************************************************************)
(* Failover moves on: the open attempts of a request are at different      *)
(* servers ("across different backends", README.md:86), because the one    *)
(* that failed is dead before the next is chosen.  It takes that nobody    *)
(* but the proxy changes pool and alive.                                   *)
(***************************************************************************)
NoRepeat == \A r \in Requests : \A i, j \in DOMAIN frames[r] :
                UrlOf[frames[r][i]] = UrlOf[frames[r][j]] => i = j

(***************************************************************************)
(* While a HalfOpen breaker has no permit to give, some request still owes *)
(* it the report that restores the permit or opens the circuit: its call   *)
(* is open and has not recorded yet.  It takes that no response is aborted.*)
(***************************************************************************)
Owes(r, u) ==
    \/ pc[r] = "enter" /\ \E b \in pick[r].seen : UrlOf[b] = u
    \/ \E i \in DOMAIN frames[r] : /\ UrlOf[frames[r][i]] = u
                                   /\ pc[r] = "leave" => i # Len(frames[r])

PermitHeld == \A u \in Urls :
                 brk[u].state = "half-open" /\ ~brk[u].permit =>
                     \E r \in Requests : Owes(r, u)

(***************************************************************************)
(* The cookie that leaves with a server's response pins the session to     *)
(* that server, whatever was tried before (proxy.go:208-210).              *)
(***************************************************************************)
CookieNamesServer == \A r \in Requests :
                        StickyEnabled /\ answer[r].by # None =>
                            pinned[r] = answer[r].by

(***************************************************************************)
(* With a server that never fails in the pool and fewer flaky ones than    *)
(* MaxBackendSwitches, failover finds it: no request ends in the load      *)
(* balancer's 503.  It takes that no circuit breaker refuses an attempt.   *)
(***************************************************************************)
HealthyServes == \A r \in Requests : answer[r] # Unavailable

(***************************************************************************)
(* A server that answers every request is never marked dead by the proxy,  *)
(* and its circuit never opens.                                            *)
(***************************************************************************)
HealthyStaysUp == \A o \in Objects :
                     UrlOf[o] \notin Flaky =>
                         alive[o] /\ brk[UrlOf[o]].state = "closed"

(***************************************************************************)
(* Every request leaves the handler, however its attempts end.             *)
(***************************************************************************)
EveryRequestReturns == \A r \in Requests : pc[r] = "start" ~> pc[r] = "idle"

(***************************************************************************)
(* All of this together is the promise of Failover, with the nested calls, *)
(* retries and reports as stuttering steps (proxy.go:91-250).  It takes    *)
(* that nobody but the proxy changes pool and alive, that no breaker       *)
(* refuses an attempt, that clients stay and that requests have no body.   *)
(***************************************************************************)
BetweenCalls(r) == pc[r] \in {"start", "filter", "select", "enter", "down"}
InCall(r)       == pc[r] \in {"proxy", "failed"}

Down    == {UrlOf[o] : o \in {p \in pool : ~alive[p]}}
Status  == [r \in Requests |-> CASE BetweenCalls(r) -> "choosing"
                                 [] InCall(r)       -> "calling"
                                 [] pc[r] = "idle"  -> "idle"
                                 [] OTHER           -> "answered"]
UrlsOf(r) == [i \in DOMAIN frames[r] |-> UrlOf[frames[r][i]]]
Tried   == [r \in Requests |->
                IF BetweenCalls(r) \/ InCall(r) THEN UrlsOf(r) ELSE <<>>]
Session == [r \in Requests |->
                IF BetweenCalls(r) \/ InCall(r) THEN None ELSE pinned[r]]

Promise == INSTANCE Failover WITH
    Sticky <- StickyEnabled,
    down <- Down, status <- Status, tried <- Tried, session <- Session

KeepsPromise == Promise!Spec

-----------------------------------------------------------------------------
(***************************************************************************)
(* What a comment says and the code does not do: "the outer frame must NOT *)
(* double-count" (proxy.go:236-239), so a request is recorded once.        *)
(***************************************************************************)
RecordedOnce == \A r \in Requests : recorded[r] <= 1
=============================================================================
