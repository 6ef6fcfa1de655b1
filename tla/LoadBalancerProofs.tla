------------------------- MODULE LoadBalancerProofs -------------------------
(***************************************************************************)
(* The proxy for any number of requests, backends and switches: first with *)
(* everything that may happen around the requests (types, the budget of    *)
(* backend switches, the connection counts), then what a request gets, as  *)
(* far as its surroundings allow, up to the refinement of Failover.        *)
(***************************************************************************)
EXTENDS LoadBalancer, BreakerProofs, FiniteSetTheorems, SequenceTheorems

-----------------------------------------------------------------------------
(***************************************************************************)
(* The strengthening of SwitchBudget: how deep the open calls of a request *)
(* nest at each label, against the attempts it has spent.  Before a call   *)
(* is opened every open one has cost an attempt; the one that is opened    *)
(* costs the next.                                                         *)
(***************************************************************************)
Choosing == {"filter", "select", "enter"}
Sending  == {"proxy", "failed", "down"}
Leaving  == {"return", "leave", "panic"}

Position(r) ==
    /\ pc[r] = "idle" => frames[r] = <<>>
    /\ pc[r] \in Choosing \cup {"start"} => Len(frames[r]) <= attempts[r]
    /\ pc[r] \in Choosing \cup Sending => attempts[r] < MaxBackendSwitches
    /\ pc[r] \in Sending => Len(frames[r]) \in 1 .. attempts[r] + 1
    /\ pc[r] \in Leaving => Len(frames[r]) \in 1 .. MaxBackendSwitches

CallInv == TypeOK /\ \A r \in Requests : Position(r)

(* Pop drops the last element and keeps the others. *)
LEMMA PopFacts ==
  ASSUME NEW s \in Seq(Objects), Len(s) >= 1
  PROVE  /\ Pop(s) \in Seq(Objects)
         /\ Len(Pop(s)) = Len(s) - 1
         /\ \A i \in 1 .. Len(s) - 1 : Pop(s)[i] = s[i]
<1>1. Pop(s) \in Seq(Objects)
  BY DEF Pop
<1>2. ASSUME NEW i \in 1 .. Len(s) - 1 PROVE Pop(s)[i] = s[i]
  BY DEF Pop
<1>3. Len(Pop(s)) = Len(s) - 1
  <2>1. \A i \in 1 .. Len(s) - 1 : s[i] \in Objects
    OBVIOUS
  <2>2. 1 \in Int /\ Len(s) - 1 \in Int
    OBVIOUS
  <2>3. Len(SubSeq(s, 1, Len(s) - 1)) =
           IF 1 <= Len(s) - 1 THEN (Len(s) - 1) - 1 + 1 ELSE 0
    BY <2>1, <2>2, SubSeqProperties
  <2>4. QED
    BY <2>3 DEF Pop
<1>4. QED
  BY <1>1, <1>2, <1>3

(* The last element of a non-empty stack is one of the structs. *)
LEMMA TopFacts ==
  ASSUME CallInv, NEW r \in Requests, pc[r] \in Sending \cup Leaving
  PROVE  /\ frames[r] \in Seq(Objects) /\ Len(frames[r]) \in Nat \ {0}
         /\ Top(r) \in Objects /\ Url(r) \in Urls
  BY LoadBalancerAssumption
     DEF CallInv, TypeOK, Position, Sending, Leaving, Top, Url

(* A step that leaves the context, the stacks and the labels of the other   *)
(* requests alone needs to keep the position of its own request only.      *)
LEMMA OnlyMine ==
  ASSUME CallInv, NEW r \in Requests,
         \A q \in Requests \ {r} : /\ pc'[q] = pc[q]
                                   /\ attempts'[q] = attempts[q]
                                   /\ frames'[q] = frames[q],
         Position(r)'
  PROVE  \A q \in Requests : Position(q)'
<1>1. SUFFICES ASSUME NEW q \in Requests, q # r PROVE Position(q)'
  OBVIOUS
<1>2. Position(q)
  BY DEF CallInv
<1>3. QED
  BY <1>1, <1>2 DEF Position

-----------------------------------------------------------------------------
(* Selection: the steps that end in "start", "filter", "select" or "enter". *)
LEMMA SelectionKeepsCallInv ==
  ASSUME CallInv, NEW r \in Requests,
         \/ Arrive(r) \/ Snapshot(r) \/ UseCookie(r) \/ RunAlgorithm(r)
         \/ \E b \in Objects : \/ CheckEligible(r, b) \/ CheckAlive(r, b)
                               \/ Refuse(r, b) \/ Admit(r, b)
  PROVE  CallInv'
<1>. USE DEF CallInv, Goto, shared, ctx, reply
<1>1. CASE Arrive(r)
  <2>1. TypeOK'
    BY <1>1, LoadBalancerAssumption DEF Arrive, TypeOK, Labels, Answers, NoAnswer
  <2>2. Position(r)'
    BY <1>1, LoadBalancerAssumption DEF Arrive, TypeOK, Position, Choosing, Sending, Leaving
  <2>3. QED
    BY <1>1, <2>1, <2>2, OnlyMine DEF Arrive, TypeOK
<1>2. CASE Snapshot(r)
  <2>1. TypeOK'
    BY <1>2 DEF Snapshot, TypeOK, Labels, Picks
  <2>2. Position(r)'
    BY <1>2, LoadBalancerAssumption
       DEF Snapshot, Exhausted, TypeOK, Position, Choosing, Sending, Leaving
  <2>3. QED
    BY <1>2, <2>1, <2>2, OnlyMine DEF Snapshot, TypeOK
<1>3. CASE UseCookie(r)
  <2>1. PICK c \in Affine(r) :
           pick' = [pick EXCEPT ![r] = Chosen(c)]
    BY <1>3 DEF UseCookie
  <2>2. c \in Objects
    BY DEF Affine, Filtered, TypeOK, Picks
  <2>3. TypeOK'
    BY <1>3, <2>1, <2>2 DEF UseCookie, TypeOK, Labels, Picks, Chosen
  <2>4. Position(r)'
    BY <1>3 DEF UseCookie, Filtering, TypeOK, Position, Choosing, Sending, Leaving
  <2>5. QED
    BY <1>3, <2>3, <2>4, OnlyMine DEF UseCookie, TypeOK
<1>4. CASE RunAlgorithm(r)
  <2>1. TypeOK'
    BY <1>4 DEF RunAlgorithm, Filtering, Filtered, TypeOK, Labels, Picks
  <2>2. Position(r)'
    BY <1>4 DEF RunAlgorithm, Filtering, TypeOK, Position, Choosing, Sending, Leaving
  <2>3. QED
    BY <1>4, <2>1, <2>2, OnlyMine DEF RunAlgorithm, TypeOK
<1>5. ASSUME NEW b \in Objects, CheckEligible(r, b) \/ CheckAlive(r, b)
      PROVE  CallInv'
  <2>1. PICK good : Examine(r, b, good)
    BY <1>5 DEF CheckEligible, CheckAlive
  <2>2. pick' \in [Requests -> Picks]
    BY <2>1 DEF Examine, TypeOK, Picks
  <2>3. TypeOK'
    BY <2>1, <2>2 DEF Examine, TypeOK
  <2>4. QED
    BY <1>5, <2>3 DEF CheckEligible, CheckAlive, Examine, Position
<1>6. ASSUME NEW b \in Objects, Refuse(r, b) PROVE CallInv'
  <2>1. attempts[r] < MaxBackendSwitches
    BY <1>6 DEF Refuse, Selecting, Position, Choosing
  <2>2. TypeOK'
    BY <1>6, <2>1, LoadBalancerAssumption
       DEF Refuse, NextAttempt, TypeOK, Labels, Picks, NoPick
  <2>3. Position(r)'
    BY <1>6 DEF Refuse, NextAttempt, Selecting, TypeOK, Position, Choosing, Sending, Leaving
  <2>4. QED
    BY <1>6, <2>2, <2>3, OnlyMine DEF Refuse, NextAttempt, TypeOK
<1>7. ASSUME NEW b \in Objects, Admit(r, b) PROVE CallInv'
  <2>1. brk' \in [Urls -> BreakerType]
    <3>1. CASE BreakerEnabled
      <4>1. brk[UrlOf[b]] \in BreakerType /\ Eligible(brk[UrlOf[b]])
        BY <1>7, <3>1, LoadBalancerAssumption DEF Admit, TypeOK
      <4>2. AfterAllow(brk[UrlOf[b]]) \in BreakerType
        BY <4>1, AfterAllowFacts
      <4>3. QED
        BY <1>7, <3>1, <4>2 DEF Admit, TypeOK
    <3>2. CASE ~BreakerEnabled
      BY <1>7, <3>2 DEF Admit, TypeOK
    <3>3. QED
      BY <3>1, <3>2
  <2>2. pick' \in [Requests -> Picks] /\ pc' \in [Requests -> Labels]
    BY <1>7 DEF Admit, TypeOK, Labels, Picks, Chosen
  <2>5. TypeOK'
    BY <1>7, <2>1, <2>2 DEF Admit, TypeOK
  <2>3. Position(r)'
    BY <1>7 DEF Admit, Selecting, TypeOK, Position, Choosing, Sending, Leaving
  <2>4. QED
    BY <1>7, <2>3, <2>5, OnlyMine DEF Admit, TypeOK
<1>8. QED
  BY <1>1, <1>2, <1>3, <1>4, <1>5, <1>6, <1>7

(* The two ways to the load balancer's own 503. *)
LEMMA Reply503KeepsCallInv ==
  ASSUME CallInv, NEW r \in Requests, GiveUp(r) \/ NoPeer(r)
  PROVE  CallInv'
<1>. USE DEF CallInv, Goto, shared, ctx, GiveUp, NoPeer, Reply503, ReturnTo
<1>0. Unavailable \in Answers /\ pc' \in [Requests -> Labels]
  BY DEF TypeOK, Labels, Answers, Unavailable
<1>1. TypeOK'
  <2>1. answer' \in [Requests -> Answers]
    BY <1>0 DEF TypeOK
  <2>2. UNCHANGED <<pool, alive, conns, brk, attempts, retry, pick, frames, pinned,
                    recorded, cancelled>>
    OBVIOUS
  <2>3. QED
    BY <1>0, <2>1, <2>2 DEF TypeOK
<1>2. /\ frames[r] \in Seq(Objects) /\ attempts[r] \in 0 .. MaxBackendSwitches
      /\ Len(frames[r]) <= attempts[r]
  BY DEF TypeOK, Position, Selecting, Choosing
<1>3. Position(r)'
  <2>1. CASE frames[r] = <<>>
    BY <2>1 DEF TypeOK, Position, Choosing, Sending, Leaving
  <2>2. CASE frames[r] # <<>>
    BY <1>2, <2>2, LoadBalancerAssumption
       DEF TypeOK, Position, Choosing, Sending, Leaving
  <2>3. QED
    BY <2>1, <2>2
<1>4. QED
  BY <1>1, <1>3, OnlyMine DEF TypeOK

(* A call is opened: the attempts spent so far cover the ones below it. *)
LEMMA EnterKeepsCallInv ==
  ASSUME CallInv, NEW r \in Requests, NEW b \in Objects, Enter(r, b)
  PROVE  CallInv'
<1>. USE DEF CallInv, Goto, ctx, Enter
<1>0. pc' \in [Requests -> Labels] /\ pick' \in [Requests -> Picks]
  BY DEF TypeOK, Labels, Picks, NoPick
<1>4. conns' \in [Objects -> Int] /\ frames' \in [Requests -> Seq(Objects)]
  BY DEF TypeOK
<1>5. pinned' \in [Requests -> Urls \cup {None}]
  BY LoadBalancerAssumption DEF TypeOK, CookieAfter
<1>1. TypeOK'
  BY <1>0, <1>4, <1>5 DEF TypeOK
<1>2. Position(r)'
  BY DEF TypeOK, Position, Choosing, Sending, Leaving
<1>3. QED
  BY <1>1, <1>2, OnlyMine DEF TypeOK

-----------------------------------------------------------------------------
(* The backend's answer, and the error handler up to MarkBackendStatus. *)
LEMMA ProxyingKeepsCallInv ==
  ASSUME CallInv, NEW r \in Requests,
         \/ \E ok \in BOOLEAN : Respond(r, ok)
         \/ AbortCopy(r) \/ TransportError(r)
         \/ TimerFires(r) \/ BackoffCancelled(r) \/ MarkDown(r)
  PROVE  CallInv'
<1>. USE DEF CallInv, Goto, shared, ctx, reply
<1>1. ASSUME NEW ok \in BOOLEAN, Respond(r, ok) PROVE CallInv'
  <2>1. [by |-> Url(r), ok |-> ok] \in Answers
    BY <1>1, TopFacts DEF Respond, Sending, Answers
  <2>2. TypeOK'
    BY <1>1, <2>1 DEF Respond, TypeOK, Labels
  <2>3. Position(r)'
    BY <1>1, TopFacts, LoadBalancerAssumption
       DEF Respond, TypeOK, Position, Choosing, Sending, Leaving
  <2>4. QED
    BY <1>1, <2>2, <2>3, OnlyMine DEF Respond, TypeOK
<1>2. CASE AbortCopy(r)
  <2>1. [by |-> Url(r), ok |-> TRUE] \in Answers
    BY <1>2, TopFacts DEF AbortCopy, Sending, Answers
  <2>2. TypeOK'
    BY <1>2, <2>1 DEF AbortCopy, TypeOK, Labels
  <2>3. Position(r)'
    BY <1>2, TopFacts, LoadBalancerAssumption
       DEF AbortCopy, TypeOK, Position, Choosing, Sending, Leaving
  <2>4. QED
    BY <1>2, <2>2, <2>3, OnlyMine DEF AbortCopy, TypeOK
<1>3. CASE TransportError(r)
  <2>1. TypeOK'
    BY <1>3 DEF TransportError, TypeOK, Labels
  <2>2. Position(r)'
    BY <1>3 DEF TransportError, TypeOK, Position, Choosing, Sending, Leaving
  <2>3. QED
    BY <1>3, <2>1, <2>2, OnlyMine DEF TransportError, TypeOK
<1>4. CASE TimerFires(r)
  <2>1. TypeOK'
    BY <1>4, LoadBalancerAssumption DEF TimerFires, MayRetry, TypeOK, Labels
  <2>2. Position(r)'
    BY <1>4 DEF TimerFires, TypeOK, Position, Choosing, Sending, Leaving
  <2>3. QED
    BY <1>4, <2>1, <2>2, OnlyMine DEF TimerFires, TypeOK
<1>5. CASE BackoffCancelled(r)
  <2>1. TypeOK'
    BY <1>5 DEF BackoffCancelled, TypeOK, Labels
  <2>2. Position(r)'
    BY <1>5, TopFacts, LoadBalancerAssumption
       DEF BackoffCancelled, TypeOK, Position, Choosing, Sending, Leaving
  <2>3. QED
    BY <1>5, <2>1, <2>2, OnlyMine DEF BackoffCancelled, TypeOK
<1>6. CASE MarkDown(r)
  <2>1. TypeOK'
    BY <1>6 DEF MarkDown, MarkBackendStatus, TypeOK, Labels
  <2>2. Position(r)'
    BY <1>6 DEF MarkDown, TypeOK, Position, Choosing, Sending, Leaving
  <2>3. QED
    BY <1>6, <2>1, <2>2, OnlyMine DEF MarkDown, TypeOK
<1>7. QED
  BY <1>1, <1>2, <1>3, <1>4, <1>5, <1>6

(* A report to the breaker of the innermost call keeps the breakers typed. *)
LEMMA ReportFacts ==
  ASSUME CallInv, NEW r \in Requests, NEW ok, Report(r, ok),
         pc[r] \in Sending \cup Leaving
  PROVE  brk' \in [Urls -> BreakerType]
<1>1. brk \in [Urls -> BreakerType] /\ Url(r) \in Urls
  BY TopFacts DEF CallInv, TypeOK
<1>2. /\ AfterSuccess(brk[Url(r)]) \in BreakerType
      /\ AfterFailure(brk[Url(r)]) \in BreakerType
  BY <1>1, AfterSuccessFacts, AfterFailureFacts
<1>3. QED
  BY <1>1, <1>2 DEF Report

(* The next attempt: one is left, so line 143 is not reached. *)
LEMMA SwitchKeepsCallInv ==
  ASSUME CallInv, NEW r \in Requests, Switch(r)
  PROVE  CallInv'
<1>. USE DEF CallInv, Goto, Switch
<1>1. attempts[r] < MaxBackendSwitches /\ attempts[r] \in Nat
  BY LoadBalancerAssumption DEF Position, Sending, TypeOK
<1>2. /\ NextAttempt(r) /\ pc' = [pc EXCEPT ![r] = "start"]
      /\ UNCHANGED <<pool, alive, conns, cancelled, pick, frames, reply>>
  BY <1>1 DEF reply
<1>3. brk' \in [Urls -> BreakerType]
  BY ReportFacts DEF Sending
<1>4. TypeOK'
  BY <1>1, <1>2, <1>3, LoadBalancerAssumption
     DEF NextAttempt, TypeOK, Labels, reply
<1>5. Position(r)'
  BY <1>1, <1>2, TopFacts
     DEF NextAttempt, TypeOK, Position, Choosing, Sending, Leaving
<1>6. QED
  BY <1>2, <1>4, <1>5, OnlyMine DEF NextAttempt, TypeOK

(* The record of a call that has returned. *)
LEMMA RecordKeepsCallInv ==
  ASSUME CallInv, NEW r \in Requests, Record(r)
  PROVE  CallInv'
<1>. USE DEF CallInv, Goto, ctx, Record
<1>1. brk' \in [Urls -> BreakerType]
  BY ReportFacts DEF Leaving
<1>2. TypeOK'
  BY <1>1 DEF TypeOK, Labels
<1>3. Position(r)'
  BY DEF TypeOK, Position, Choosing, Sending, Leaving
<1>4. QED
  BY <1>2, <1>3, OnlyMine DEF TypeOK

(* The end of a call, by a return or by a panic. *)
LEMMA CloseKeepsCallInv ==
  ASSUME CallInv, NEW r \in Requests, Leave(r) \/ Unwind(r)
  PROVE  CallInv'
<1>. USE DEF CallInv, Goto, ctx, reply, Leave, Unwind, CloseFrame, ReturnTo
<1>1. /\ Len(frames[r]) \in 1 .. MaxBackendSwitches
      /\ frames[r] \in Seq(Objects) /\ Top(r) \in Objects
  BY TopFacts DEF Position, Leaving
<1>2. /\ Pop(frames[r]) \in Seq(Objects)
      /\ Len(Pop(frames[r])) = Len(frames[r]) - 1
  BY <1>1, PopFacts
<1>3. pc' \in [Requests -> Labels]
  BY DEF TypeOK, Labels
<1>4. conns' \in [Objects -> Int]
  BY <1>1 DEF TypeOK
<1>5. frames' \in [Requests -> Seq(Objects)]
  BY <1>2 DEF TypeOK
<1>8. TypeOK'
  BY <1>3, <1>4, <1>5 DEF TypeOK
<1>6. Position(r)'
  <2>1. frames'[r] = Pop(frames[r])
    BY DEF TypeOK
  <2>2. CASE Pop(frames[r]) = <<>>
    BY <2>1, <2>2 DEF TypeOK, Position, Choosing, Sending, Leaving
  <2>3. CASE Pop(frames[r]) # <<>>
    <3>1. Len(Pop(frames[r])) \in 1 .. MaxBackendSwitches
      BY <1>1, <1>2, <2>3, LoadBalancerAssumption
    <3>2. QED
      BY <2>1, <2>3, <3>1 DEF TypeOK, Position, Choosing, Sending, Leaving
  <2>4. QED
    BY <2>2, <2>3
<1>7. QED
  BY <1>6, <1>8, OnlyMine DEF TypeOK

(* What happens around the requests touches neither context nor stack. *)
LEMMA AroundKeepsCallInv ==
  ASSUME CallInv,
         \/ \E r \in Requests : Cancel(r)
         \/ \E o \in Objects : \/ AdminAdd(o) \/ AdminRemove(o)
                               \/ \E up \in BOOLEAN : HealthVerdict(o, up)
         \/ \E u \in Urls : \/ BreakerTimeout(u)
                            \/ \E up \in BOOLEAN : AdminSetAlive(u, up)
  PROVE  CallInv'
<1>. USE DEF CallInv, Around, reply, shared
<1>1. ASSUME NEW r \in Requests, Cancel(r) PROVE CallInv'
  BY <1>1 DEF Cancel, TypeOK, Position
<1>2. ASSUME NEW o \in Objects, AdminAdd(o) PROVE CallInv'
  BY <1>2 DEF AdminAdd, TypeOK, Position
<1>3. ASSUME NEW o \in Objects, AdminRemove(o) PROVE CallInv'
  BY <1>3 DEF AdminRemove, TypeOK, Position
<1>4. ASSUME NEW o \in Objects, NEW up \in BOOLEAN, HealthVerdict(o, up)
      PROVE  CallInv'
  BY <1>4 DEF HealthVerdict, TypeOK, Position
<1>5. ASSUME NEW u \in Urls, NEW up \in BOOLEAN, AdminSetAlive(u, up)
      PROVE  CallInv'
  BY <1>5 DEF AdminSetAlive, MarkBackendStatus, TypeOK, Position
<1>6. ASSUME NEW u \in Urls, BreakerTimeout(u) PROVE CallInv'
  <2>1. brk' \in [Urls -> BreakerType]
    BY <1>6, AfterTimeoutFacts DEF BreakerTimeout, TypeOK
  <2>2. QED
    BY <1>6, <2>1 DEF BreakerTimeout, TypeOK, Position
<1>7. QED
  BY <1>1, <1>2, <1>3, <1>4, <1>5, <1>6

(* No request is served at the start. *)
LEMMA CallInvInit == Init => CallInv
<1>1. SUFFICES ASSUME Init PROVE CallInv
  OBVIOUS
<1>2. brk \in [Urls -> BreakerType]
  BY <1>1, NewBreakerType DEF Init
<1>3. TypeOK
  BY <1>1, <1>2, LoadBalancerAssumption
     DEF Init, TypeOK, Labels, Picks, NoPick, Answers, NoAnswer
<1>4. QED
  BY <1>1, <1>3 DEF Init, CallInv, Position, Choosing, Sending, Leaving

(* Every step keeps the invariant. *)
LEMMA CallInvNext == CallInv /\ [Next]_vars => CallInv'
<1>1. SUFFICES ASSUME CallInv, [Next]_vars PROVE CallInv'
  OBVIOUS
<1>2. CASE UNCHANGED vars
  BY <1>1, <1>2 DEF vars, shared, ctx, reply, CallInv, TypeOK, Position
<1>3. ASSUME NEW r \in Requests, Step(r) PROVE CallInv'
  <2>1. CASE \/ Snapshot(r) \/ UseCookie(r) \/ RunAlgorithm(r)
             \/ \E b \in Objects : \/ CheckEligible(r, b) \/ CheckAlive(r, b)
                                   \/ Refuse(r, b) \/ Admit(r, b)
    BY <1>1, <2>1, SelectionKeepsCallInv
  <2>2. QED
    BY <1>1, <1>3, <2>1, Reply503KeepsCallInv, EnterKeepsCallInv,
       ProxyingKeepsCallInv, SwitchKeepsCallInv, RecordKeepsCallInv,
       CloseKeepsCallInv DEF Step
<1>4. QED
  BY <1>1, <1>2, <1>3, SelectionKeepsCallInv, AroundKeepsCallInv DEF Next

(***************************************************************************)
(* Every handler keeps the shared state and the context of a request well  *)
(* typed: the attempts never exceed MaxBackendSwitches, nor the retries    *)
(* maxRetries, nor a breaker's counters their thresholds.                  *)
(***************************************************************************)
THEOREM TypeCorrect == Spec => []TypeOK
<1>1. CallInv => TypeOK
  BY DEF CallInv
<1>2. QED
  BY <1>1, CallInvInit, CallInvNext, PTL DEF Spec

(***************************************************************************)
(* The recursion through the error handler is bounded for every request,   *)
(* and the test of proxy.go:137 never fails.                               *)
(***************************************************************************)
THEOREM SwitchesBounded == Spec => []SwitchBudget
<1>1. CallInv => SwitchBudget
  <2>1. SUFFICES ASSUME CallInv, NEW r \in Requests
                 PROVE  /\ Len(frames[r]) <= MaxBackendSwitches
                        /\ pc[r] = "down" => attempts[r] < MaxBackendSwitches
    BY DEF SwitchBudget
  <2>2. /\ Position(r) /\ frames[r] \in Seq(Objects) /\ pc[r] \in Labels
        /\ attempts[r] \in 0 .. MaxBackendSwitches
    BY <2>1 DEF CallInv, TypeOK
  <2>3. Len(frames[r]) \in Nat /\ MaxBackendSwitches \in Nat
    BY <2>2, LoadBalancerAssumption
  <2>4. QED
    BY <2>2, <2>3 DEF Position, Labels, Choosing, Sending, Leaving
<1>2. QED
  BY <1>1, CallInvInit, CallInvNext, PTL DEF Spec

-----------------------------------------------------------------------------
(***************************************************************************)
(* The connection counts.  OpenCalls changes only when a call is opened or *)
(* closed, and then by one pair, for one struct.                           *)
(***************************************************************************)

(* The open calls are finitely many, by SwitchBudget's bound. *)
LEMMA OpenCallsFinite ==
  ASSUME NEW b PROVE IsFiniteSet(OpenCalls(b))
<1>1. IsFiniteSet(Requests) /\ IsFiniteSet(1 .. MaxBackendSwitches)
  BY LoadBalancerAssumption, FS_Interval
<1>2. IsFiniteSet(Requests \X (1 .. MaxBackendSwitches))
  BY <1>1, FS_Product
<1>3. QED
  BY <1>2, FS_Subset DEF OpenCalls

(* Nothing is counted at the start. *)
LEMMA ConnsInit == Init => ConnsExact
<1>1. SUFFICES ASSUME Init, NEW b \in Objects
               PROVE  conns[b] = Cardinality(OpenCalls(b))
  BY DEF ConnsExact
<1>2. OpenCalls(b) = {}
  BY <1>1 DEF Init, OpenCalls
<1>3. QED
  BY <1>1, <1>2, FS_EmptySet DEF Init

(* Opening a call adds it to the calls of the struct it chose. *)
LEMMA ConnsEnter ==
  ASSUME CallInv, ConnsExact, NEW r \in Requests, NEW b \in Objects, Enter(r, b)
  PROVE  ConnsExact'
<1>. DEFINE n == Len(frames[r]) + 1
<1>1. /\ frames \in [Requests -> Seq(Objects)] /\ conns \in [Objects -> Int]
      /\ frames[r] \in Seq(Objects) /\ Len(frames[r]) \in Nat
  BY DEF CallInv, TypeOK
<1>2. n \in 1 .. MaxBackendSwitches
  BY <1>1, LoadBalancerAssumption
     DEF CallInv, TypeOK, Position, Enter, Choosing
<1>3. /\ frames'[r] = Append(frames[r], b)
      /\ \A q \in Requests \ {r} : frames'[q] = frames[q]
  BY <1>1 DEF Enter
<1>4. /\ DOMAIN frames'[r] = DOMAIN frames[r] \cup {n} /\ n \notin DOMAIN frames[r]
      /\ frames'[r][n] = b
      /\ \A i \in DOMAIN frames[r] : frames'[r][i] = frames[r][i]
  BY <1>1, <1>3
<1>5. ASSUME NEW a \in Objects
      PROVE  OpenCalls(a)' = IF a = b THEN OpenCalls(a) \cup {<<r, n>>}
                                      ELSE OpenCalls(a)
  BY <1>2, <1>3, <1>4 DEF OpenCalls
<1>6. <<r, n>> \notin OpenCalls(b)
  BY <1>4 DEF OpenCalls
<1>7. Cardinality(OpenCalls(b)') = Cardinality(OpenCalls(b)) + 1
  BY <1>5, <1>6, OpenCallsFinite, FS_AddElement
<1>8. conns' = [conns EXCEPT ![b] = @ + 1]
  BY DEF Enter
<1>9. QED
  BY <1>1, <1>5, <1>7, <1>8 DEF ConnsExact

(* Closing one, by a return or a panic, removes it. *)
LEMMA ConnsClose ==
  ASSUME CallInv, ConnsExact, NEW r \in Requests, Leave(r) \/ Unwind(r)
  PROVE  ConnsExact'
<1>. DEFINE n == Len(frames[r])
<1>0. PICK b \in Objects : b = Top(r)
  BY TopFacts DEF Leave, Unwind, Leaving
<1>1. /\ frames \in [Requests -> Seq(Objects)] /\ conns \in [Objects -> Int]
      /\ frames[r] \in Seq(Objects) /\ frames[r][n] = b
  BY <1>0, TopFacts DEF CallInv, TypeOK, Leave, Unwind, Leaving, Top
<1>2. n \in 1 .. MaxBackendSwitches
  BY DEF CallInv, Position, Leave, Unwind, Leaving
<1>3. /\ frames'[r] = Pop(frames[r])
      /\ \A q \in Requests \ {r} : frames'[q] = frames[q]
      /\ conns' = [conns EXCEPT ![b] = @ - 1]
  BY <1>0, <1>1 DEF Leave, Unwind, CloseFrame
<1>4. /\ Pop(frames[r]) \in Seq(Objects) /\ Len(Pop(frames[r])) = n - 1
      /\ \A i \in 1 .. n - 1 : Pop(frames[r])[i] = frames[r][i]
  <2>1. Len(frames[r]) >= 1
    BY <1>2
  <2>2. QED
    BY <1>1, <2>1, PopFacts, Zenon
<1>5. /\ DOMAIN frames[r] = 1 .. n /\ DOMAIN frames'[r] = 1 .. n - 1
      /\ \A i \in 1 .. n - 1 : frames'[r][i] = frames[r][i]
  <2>1. frames'[r] \in Seq(Objects) /\ Len(frames'[r]) = n - 1
    BY <1>3, <1>4, Zenon
  <2>2. DOMAIN frames[r] = 1 .. n /\ DOMAIN frames'[r] = 1 .. n - 1
    BY <1>1, <2>1
  <2>3. \A i \in 1 .. n - 1 : frames'[r][i] = frames[r][i]
    BY <1>3, <1>4, Zenon
  <2>4. QED
    BY <2>2, <2>3
<1>6. \A i \in 1 .. n : i = n \/ i \in 1 .. n - 1
  BY <1>2
<1>7. n \notin 1 .. n - 1 /\ \A i \in 1 .. n - 1 : i \in 1 .. n
  BY <1>2
<1>. HIDE DEF n
<1>8. ASSUME NEW a \in Objects
      PROVE  OpenCalls(a)' = IF a = b THEN OpenCalls(a) \ {<<r, n>>}
                                      ELSE OpenCalls(a)
  BY <1>1, <1>2, <1>3, <1>5, <1>6, <1>7 DEF OpenCalls
<1>9. <<r, n>> \in OpenCalls(b)
  BY <1>1, <1>2, <1>5, <1>6 DEF OpenCalls
<1>10. Cardinality(OpenCalls(b)') = Cardinality(OpenCalls(b)) - 1
  BY <1>1, <1>8, <1>9, OpenCallsFinite, FS_RemoveElement
<1>11. QED
  BY <1>1, <1>3, <1>8, <1>10 DEF ConnsExact

(* Every other step leaves both the stacks and the counts alone. *)
LEMMA ConnsNext == CallInv /\ ConnsExact /\ [Next]_vars => ConnsExact'
<1>1. SUFFICES ASSUME CallInv, ConnsExact, [Next]_vars PROVE ConnsExact'
  OBVIOUS
<1>2. CASE UNCHANGED <<conns, frames>>
  BY <1>1, <1>2 DEF ConnsExact, OpenCalls
<1>3. ASSUME NEW r \in Requests, Step(r) PROVE ConnsExact'
  <2>1. \/ UNCHANGED <<conns, frames>>
        \/ \E b \in Objects : Enter(r, b)
        \/ Leave(r) \/ Unwind(r)
    BY <1>3 DEF Step, shared, GiveUp, Snapshot, UseCookie, RunAlgorithm, NoPeer,
       Reply503, CheckEligible, CheckAlive, Examine, Refuse, Admit, Respond,
       AbortCopy, TransportError, TimerFires, BackoffCancelled, MarkDown, Switch,
       Record
  <2>2. QED
    BY <1>1, <1>2, <2>1, ConnsEnter, ConnsClose
<1>4. ASSUME NEW r \in Requests, Arrive(r) \/ Cancel(r) PROVE ConnsExact'
  BY <1>2, <1>4 DEF Arrive, Cancel, shared, Around
<1>5. CASE \/ \E o \in Objects : \/ AdminAdd(o) \/ AdminRemove(o)
                                 \/ \E up \in BOOLEAN : HealthVerdict(o, up)
           \/ \E u \in Urls : \/ BreakerTimeout(u)
                              \/ \E up \in BOOLEAN : AdminSetAlive(u, up)
  BY <1>2, <1>5 DEF AdminAdd, AdminRemove, HealthVerdict, BreakerTimeout,
                    AdminSetAlive, Around
<1>6. CASE UNCHANGED vars
  BY <1>2, <1>6 DEF vars, shared
<1>7. QED
  BY <1>1, <1>3, <1>4, <1>5, <1>6 DEF Next

(***************************************************************************)
(* IncrConns and DecrConns pair up on every path: return, failover, 503,   *)
(* cancellation and panic; whatever happens to the pool meanwhile.         *)
(***************************************************************************)
THEOREM ConnsAreExact == Spec => []ConnsExact
<1>1. CallInv /\ ConnsExact /\ [Next]_vars => (CallInv /\ ConnsExact)'
  BY CallInvNext, ConnsNext
<1>2. Init => CallInv /\ ConnsExact
  BY CallInvInit, ConnsInit
<1>3. QED
  BY <1>1, <1>2, PTL DEF Spec

-----------------------------------------------------------------------------
(***************************************************************************)
(* What a request gets from the proxy: the cookie, the probe permit, that  *)
(* failover moves on and finds the server that works, and the promise of   *)
(* Failover.  Each section says what it takes around the requests.         *)
(***************************************************************************)
(* A step of one request leaves the others where they are. *)
LEMMA OthersWait ==
  ASSUME TypeOK, NEW r \in Requests, Arrive(r) \/ Step(r) \/ Cancel(r),
         NEW q \in Requests \ {r}
  PROVE  /\ pc'[q] = pc[q] /\ attempts'[q] = attempts[q] /\ pick'[q] = pick[q]
         /\ frames'[q] = frames[q] /\ answer'[q] = answer[q] /\ pinned'[q] = pinned[q]
<1> USE DEF Goto, shared, ctx, reply, Around, TypeOK
<1>1. CASE Arrive(r) \/ Cancel(r)
  BY <1>1 DEF Arrive, Cancel
<1>2. CASE \/ GiveUp(r) \/ Snapshot(r) \/ UseCookie(r) \/ RunAlgorithm(r) \/ NoPeer(r)
           \/ \E b \in Objects : \/ CheckEligible(r, b) \/ CheckAlive(r, b)
                                 \/ Refuse(r, b) \/ Admit(r, b) \/ Enter(r, b)
  BY <1>2 DEF GiveUp, Reply503, ReturnTo, Snapshot, UseCookie, RunAlgorithm, NoPeer,
              CheckEligible, CheckAlive, Examine, Refuse, NextAttempt, Admit, Enter
<1>3. CASE \/ \E ok \in BOOLEAN : Respond(r, ok)
           \/ AbortCopy(r) \/ TransportError(r) \/ TimerFires(r) \/ BackoffCancelled(r)
           \/ MarkDown(r) \/ Switch(r) \/ Record(r) \/ Leave(r) \/ Unwind(r)
  BY <1>3 DEF Respond, AbortCopy, TransportError, TimerFires, BackoffCancelled, MarkDown,
              Switch, NextAttempt, Record, Leave, Unwind, CloseFrame, ReturnTo
<1>4. QED
  BY <1>1, <1>2, <1>3 DEF Step

(* What happens around the requests changes nothing of theirs. *)
Aside == \/ \E o \in Objects : \/ AdminAdd(o) \/ AdminRemove(o)
                               \/ \E up \in BOOLEAN : HealthVerdict(o, up)
         \/ \E u \in Urls : \/ BreakerTimeout(u)
                            \/ \E up \in BOOLEAN : AdminSetAlive(u, up)

LEMMA AsideLeaves ==
  ASSUME Aside \/ (\E r \in Requests : Cancel(r)) \/ UNCHANGED vars
  PROVE  UNCHANGED <<pc, attempts, retry, pick, frames, answer, pinned>>
  BY DEF Aside, AdminAdd, AdminRemove, HealthVerdict, BreakerTimeout, AdminSetAlive, Cancel,
         Around, reply, vars, ctx

-----------------------------------------------------------------------------
(***************************************************************************)
(* The cookie, whatever happens around the requests.                       *)
(***************************************************************************)
Unanswered == Choosing \cup Sending \cup {"start"}

\* No response comes from a server before its call returns; while a call is
\* open the cookie is the one of its backend, and no other is set afterwards.
CookieFits(r) ==
    /\ pc[r] \in Unanswered => answer[r].by = None
    /\ pc[r] \in {"proxy", "failed"} /\ StickyEnabled => pinned[r] = Url(r)
    /\ StickyEnabled /\ answer[r].by # None => pinned[r] = answer[r].by

CookieInv == \A r \in Requests : CookieFits(r)

LEMMA CookieStep ==
  ASSUME CallInv, NEW r \in Requests, CookieFits(r), Arrive(r) \/ Step(r)
  PROVE  CookieFits(r)'
<1> USE DEF Goto, CallInv, TypeOK, CookieFits, Unanswered, Choosing, Sending, Url, Top
<1>1. CASE Arrive(r)
  BY <1>1 DEF Arrive, NoAnswer
<1>2. CASE GiveUp(r) \/ NoPeer(r)
  BY <1>2 DEF GiveUp, NoPeer, Reply503, ReturnTo, Unavailable
<1>3. CASE \/ Snapshot(r) \/ UseCookie(r) \/ RunAlgorithm(r)
           \/ \E b \in Objects : \/ CheckEligible(r, b) \/ CheckAlive(r, b)
                                 \/ Refuse(r, b) \/ Admit(r, b)
  <2>1. UNCHANGED <<answer, pinned, frames>>
    BY <1>3 DEF Snapshot, UseCookie, RunAlgorithm, CheckEligible, CheckAlive, Examine,
                Refuse, Admit, reply
  <2>2. /\ pc[r] \in Choosing \cup {"start"}
        /\ pc'[r] \in Choosing \cup {"start"}
    BY <1>3 DEF Snapshot, UseCookie, RunAlgorithm, CheckEligible, CheckAlive, Examine,
                Refuse, Admit, Filtering, Selecting
  <2>3. QED
    BY <2>1, <2>2
<1>4. ASSUME NEW b \in Objects, Enter(r, b) PROVE CookieFits(r)'
  <2>1. /\ pc[r] = "enter" /\ pc'[r] = "proxy" /\ UNCHANGED answer
        /\ frames'[r] = Append(frames[r], b)
        /\ StickyEnabled => pinned'[r] = UrlOf[b]
    BY <1>4 DEF Enter, CookieAfter
  <2>2. frames[r] \in Seq(Objects)
    OBVIOUS
  <2>3. Url(r)' = UrlOf[b]
    BY <2>1, <2>2
  <2>4. QED
    BY <2>1, <2>3
<1>5. CASE (\E ok \in BOOLEAN : Respond(r, ok)) \/ AbortCopy(r)
  <2>1. /\ pc[r] = "proxy" /\ pc'[r] \in Leaving /\ UNCHANGED <<pinned, frames>>
        /\ answer'[r].by = Url(r)
    BY <1>5 DEF Respond, AbortCopy, Leaving
  <2>2. QED
    BY <2>1 DEF Leaving
<1>6. CASE TransportError(r) \/ TimerFires(r) \/ BackoffCancelled(r) \/ MarkDown(r)
  BY <1>6 DEF TransportError, TimerFires, BackoffCancelled, MarkDown, reply
<1>7. CASE Switch(r)
  BY <1>7 DEF Switch, Unavailable
<1>8. CASE Record(r) \/ Leave(r) \/ Unwind(r)
  BY <1>8 DEF Record, Leave, Unwind, ReturnTo, reply
<1>9. QED
  BY <1>1, <1>2, <1>3, <1>4, <1>5, <1>6, <1>7, <1>8 DEF Step

LEMMA CookieNext == ASSUME CallInv, CookieInv, [Next]_vars PROVE CookieInv'
<1>1. ASSUME NEW r \in Requests, Arrive(r) \/ Step(r) PROVE CookieInv'
  <2>1. CookieFits(r)'
    BY <1>1, CookieStep DEF CookieInv
  <2>2. ASSUME NEW q \in Requests \ {r} PROVE CookieFits(q)'
    BY <1>1, OthersWait DEF CallInv, CookieInv, CookieFits, Url, Top
  <2>3. QED
    BY <2>1, <2>2 DEF CookieInv
<1>2. CASE Aside \/ (\E r \in Requests : Cancel(r)) \/ UNCHANGED vars
  BY <1>2, AsideLeaves DEF CookieInv, CookieFits, Url, Top
<1>3. QED
  BY <1>1, <1>2 DEF Next, Aside

(***************************************************************************)
(* The cookie that leaves with a server's response names that server, for  *)
(* every order of failures, verdicts and admin calls (proxy.go:208-210).   *)
(***************************************************************************)
THEOREM CookieIsRight == Spec => []CookieNamesServer
<1>1. Init => CookieInv
  BY DEF Init, CookieInv, CookieFits, NoAnswer, Unanswered, Choosing, Sending
<1>2. CookieInv => CookieNamesServer
  BY DEF CookieInv, CookieFits, CookieNamesServer
<1>3. CallInv /\ CookieInv /\ [Next]_vars => (CallInv /\ CookieInv)'
  BY CallInvNext, CookieNext
<1>4. QED
  BY <1>1, <1>2, <1>3, CallInvInit, PTL DEF Spec

-----------------------------------------------------------------------------
(***************************************************************************)
(* The permit of a half-open breaker, if no response is aborted.           *)
(***************************************************************************)
NoAborts == "abort" \notin Environment

Waiting(u) == brk[u].state = "half-open" /\ ~brk[u].permit

\* A request does not panic, and enters the call it was admitted to.
Orderly(r) == /\ pc[r] # "panic"
              /\ pc[r] = "enter" => \E b \in Objects : pick[r] = Chosen(b)

PermitInv == /\ \A r \in Requests : Orderly(r)
             /\ ~BreakerEnabled => \A u \in Urls : ~Waiting(u)
             /\ PermitHeld

LEMMA OrderlyStep ==
  ASSUME CallInv, NoAborts, NEW r \in Requests, Orderly(r), Arrive(r) \/ Step(r)
  PROVE  Orderly(r)'
<1> USE DEF Goto, CallInv, TypeOK, Orderly
<1>1. CASE Arrive(r) \/ GiveUp(r) \/ NoPeer(r)
  BY <1>1 DEF Arrive, GiveUp, NoPeer, Reply503, ReturnTo
<1>2. ASSUME NEW b \in Objects, Admit(r, b) PROVE Orderly(r)'
  BY <1>2 DEF Admit
<1>3. CASE \/ Snapshot(r) \/ UseCookie(r) \/ RunAlgorithm(r)
           \/ \E b \in Objects : \/ CheckEligible(r, b) \/ CheckAlive(r, b)
                                 \/ Refuse(r, b) \/ Enter(r, b)
  BY <1>3 DEF Snapshot, UseCookie, RunAlgorithm, CheckEligible, CheckAlive, Examine,
              Refuse, Enter
<1>4. CASE \/ \E ok \in BOOLEAN : Respond(r, ok)
           \/ AbortCopy(r) \/ TransportError(r) \/ TimerFires(r) \/ BackoffCancelled(r)
           \/ MarkDown(r) \/ Switch(r) \/ Record(r) \/ Leave(r) \/ Unwind(r)
  BY <1>4 DEF Respond, AbortCopy, NoAborts, TransportError, TimerFires, BackoffCancelled,
              MarkDown, Switch, Record, Leave, Unwind, ReturnTo
<1>5. QED
  BY <1>1, <1>2, <1>3, <1>4 DEF Step

(* Whoever owes a report goes on to owe it until the report is made. *)
LEMMA OwesUntilReport ==
  ASSUME CallInv, NEW r \in Requests, Orderly(r), NEW u \in Urls, Owes(r, u),
         Arrive(r) \/ Step(r), ~(Record(r) /\ Url(r) = u)
  PROVE  Owes(r, u)'
<1> USE DEF Goto, CallInv, TypeOK
<1>1. frames[r] \in Seq(Objects)
  OBVIOUS
<1>2. CASE UNCHANGED frames /\ pc[r] # "enter" /\ pc[r] # "leave" /\ pc'[r] # "leave"
  BY <1>2 DEF Owes
<1>3. CASE Arrive(r)
  BY <1>3 DEF Arrive, Owes, Position
<1>4. CASE GiveUp(r) \/ NoPeer(r)
  BY <1>2, <1>4 DEF GiveUp, NoPeer, Selecting, Reply503, ReturnTo
<1>5. CASE \/ Snapshot(r) \/ UseCookie(r) \/ RunAlgorithm(r)
           \/ \E b \in Objects : \/ CheckEligible(r, b) \/ CheckAlive(r, b)
                                 \/ Refuse(r, b) \/ Admit(r, b)
  BY <1>2, <1>5 DEF Snapshot, UseCookie, RunAlgorithm, Filtering, CheckEligible,
                    CheckAlive, Examine, Refuse, Admit, Selecting
<1>6. ASSUME NEW b \in Objects, Enter(r, b) PROVE Owes(r, u)'
  <2>1. /\ pc[r] = "enter" /\ pc'[r] = "proxy" /\ b \in pick[r].seen
        /\ frames'[r] = Append(frames[r], b)
    BY <1>6 DEF Enter
  <2>2. \A x \in pick[r].seen : x = b
    BY <2>1 DEF Orderly, Chosen
  <2>3. /\ \A i \in DOMAIN frames[r] : i \in DOMAIN frames'[r] /\ frames'[r][i] = frames[r][i]
        /\ Len(frames[r]) + 1 \in DOMAIN frames'[r]
        /\ frames'[r][Len(frames[r]) + 1] = b
    BY <1>1, <2>1
  <2>4. QED
    BY <2>1, <2>2, <2>3 DEF Owes
<1>7. CASE \/ \E ok \in BOOLEAN : Respond(r, ok)
           \/ AbortCopy(r) \/ TransportError(r) \/ TimerFires(r) \/ BackoffCancelled(r)
           \/ MarkDown(r) \/ Switch(r)
  BY <1>2, <1>7 DEF Respond, AbortCopy, TransportError, TimerFires, BackoffCancelled,
                    MarkDown, Switch
<1>8. CASE Record(r)
  <2>1. pc[r] = "return" /\ pc'[r] = "leave" /\ UNCHANGED frames /\ Url(r) # u
    BY <1>8 DEF Record
  <2>2. QED
    BY <2>1 DEF Owes, Url, Top
<1>9. CASE Leave(r)
  <2>1. /\ pc[r] = "leave" /\ pc'[r] \in {"idle", "return"}
        /\ frames'[r] = Pop(frames[r]) /\ Len(frames[r]) >= 1
    BY <1>9 DEF Leave, CloseFrame, ReturnTo, Position, Leaving
  <2>2. PICK i \in DOMAIN frames[r] : UrlOf[frames[r][i]] = u /\ i # Len(frames[r])
    BY <2>1 DEF Owes
  <2>3. i \in 1 .. Len(frames[r]) - 1
    BY <1>1, <2>2
  <2>4. /\ Pop(frames[r]) \in Seq(Objects) /\ Len(Pop(frames[r])) = Len(frames[r]) - 1
        /\ Pop(frames[r])[i] = frames[r][i]
    BY <1>1, <2>1, <2>3, PopFacts, Zenon
  <2>5. i \in DOMAIN frames'[r] /\ frames'[r][i] = frames[r][i]
    BY <2>1, <2>3, <2>4
  <2>6. QED
    BY <2>1, <2>2, <2>5 DEF Owes
<1>10. CASE Unwind(r)
  BY <1>10 DEF Unwind, Orderly
<1>11. QED
  BY <1>3, <1>4, <1>5, <1>6, <1>7, <1>8, <1>9, <1>10 DEF Step

(* A report leaves no breaker of that server waiting. *)
LEMMA ReportEndsWaiting ==
  ASSUME CallInv, NEW r \in Requests, NEW ok \in BOOLEAN, Report(r, ok), BreakerEnabled,
         pc[r] \in Sending \cup Leaving
  PROVE  /\ brk'[Url(r)].state = "half-open" => brk'[Url(r)].permit
         /\ \A u \in Urls : u # Url(r) => brk'[u] = brk[u]
<1>1. brk \in [Urls -> BreakerType] /\ Url(r) \in Urls
  BY TopFacts DEF CallInv, TypeOK
<1>2. brk' = [brk EXCEPT ![Url(r)] = IF ok THEN AfterSuccess(@) ELSE AfterFailure(@)]
  BY DEF Report
<1>3. brk[Url(r)] \in BreakerType /\ brk[Url(r)].state \in States
  BY <1>1 DEF BreakerType
<1>4. brk'[Url(r)].state = "half-open" => brk'[Url(r)].permit
  <2>1. CASE ok
    <3>1. brk'[Url(r)] = AfterSuccess(brk[Url(r)])
      BY <1>1, <1>2, <2>1
    <3>2. QED
      BY <1>3, <3>1, AfterSuccessFacts DEF States
  <2>2. CASE ~ok
    <3>1. brk'[Url(r)] = AfterFailure(brk[Url(r)])
      BY <1>1, <1>2, <2>2
    <3>2. QED
      BY <1>3, <3>1, AfterFailureFacts DEF States
  <2>3. QED
    BY <2>1, <2>2
<1>5. \A u \in Urls : u # Url(r) => brk'[u] = brk[u]
  BY <1>1, <1>2
<1>6. QED
  BY <1>4, <1>5

LEMMA PermitNext ==
  ASSUME CallInv, NoAborts, PermitInv, [Next]_vars
  PROVE  PermitInv'
<1>1. ASSUME NEW r \in Requests, Arrive(r) \/ Step(r) PROVE PermitInv'
  <2>1. \A q \in Requests : Orderly(q)'
    <3>1. Orderly(r)'
      BY <1>1, OrderlyStep DEF PermitInv
    <3>2. ASSUME NEW q \in Requests \ {r} PROVE Orderly(q)'
      BY <1>1, OthersWait DEF CallInv, PermitInv, Orderly
    <3>3. QED
      BY <3>1, <3>2
  <2>2. ASSUME NEW u \in Urls, Waiting(u)' PROVE \E q \in Requests : Owes(q, u)'
    <3>1. brk \in [Urls -> BreakerType]
      BY DEF CallInv, TypeOK
    <3>2. CASE brk'[u] = brk[u] /\ ~(Record(r) /\ Url(r) = u)
      <4>1. PICK q \in Requests : Owes(q, u)
        BY <2>2, <3>2 DEF PermitInv, PermitHeld, Waiting
      <4>2. CASE q = r
        BY <1>1, <3>2, <4>1, <4>2, OwesUntilReport DEF PermitInv
      <4>3. CASE q # r
        BY <1>1, <4>1, <4>3, OthersWait DEF CallInv, Owes
      <4>4. QED
        BY <4>2, <4>3
    <3>3. CASE \E b \in Objects : Admit(r, b) /\ brk'[u] # brk[u]
      <4>1. PICK b \in Objects : Admit(r, b) /\ brk'[u] # brk[u]
        BY <3>3
      <4>2. UrlOf[b] = u /\ pc'[r] = "enter" /\ pick'[r] = Chosen(b)
        BY <3>1, <4>1 DEF Admit, Goto, CallInv, TypeOK
      <4>3. QED
        BY <4>2 DEF Owes, Chosen
    <3>4. CASE Record(r) \/ Switch(r)
      <4>1. PICK ok \in BOOLEAN : Report(r, ok)
        <5>1. answer[r].ok \in BOOLEAN
          BY DEF CallInv, TypeOK, Answers
        <5>2. QED
          BY <3>4, <5>1 DEF Record, Switch
      <4>2. pc[r] \in Sending \cup Leaving
        BY <3>4 DEF Record, Switch, Sending, Leaving
      <4>3. CASE BreakerEnabled
        <5>1. Url(r) # u /\ brk'[u] = brk[u]
          BY <2>2, <4>1, <4>2, <4>3, ReportEndsWaiting DEF Waiting
        <5>2. QED
          BY <3>2, <5>1
      <4>4. CASE ~BreakerEnabled
        BY <2>2, <4>1, <4>4 DEF Report, PermitInv, Waiting
      <4>5. QED
        BY <4>3, <4>4
    <3>5. CASE ~Record(r) /\ ~Switch(r) /\ ~(\E b \in Objects : Admit(r, b))
      <4>1. UNCHANGED brk
        BY <1>1, <3>5 DEF Step, Arrive, shared, GiveUp, Snapshot, UseCookie, RunAlgorithm,
           NoPeer, Reply503, CheckEligible, CheckAlive, Examine, Refuse, Enter, Respond,
           AbortCopy, TransportError, TimerFires, BackoffCancelled, MarkDown, Leave, Unwind
      <4>2. QED
        BY <3>2, <3>5, <4>1
    <3>6. QED
      BY <3>2, <3>3, <3>4, <3>5
  <2>3. ~BreakerEnabled => UNCHANGED brk
    BY <1>1 DEF Step, Arrive, shared, GiveUp, Snapshot, UseCookie, RunAlgorithm,
       NoPeer, Reply503, CheckEligible, CheckAlive, Examine, Refuse, Admit, Enter, Respond,
       AbortCopy, TransportError, TimerFires, BackoffCancelled, MarkDown, Switch, Report,
       Record, Leave, Unwind
  <2>4. QED
    BY <2>1, <2>2, <2>3 DEF PermitInv, PermitHeld, Waiting
<1>2. CASE Aside \/ (\E r \in Requests : Cancel(r)) \/ UNCHANGED vars
  <2>1. UNCHANGED <<pc, pick, frames>>
    BY <1>2, AsideLeaves
  <2>2. ASSUME NEW u \in Urls, Waiting(u)' PROVE brk'[u] = brk[u]
    <3>1. CASE UNCHANGED brk
      BY <3>1
    <3>2. ASSUME NEW v \in Urls, BreakerTimeout(v) PROVE brk'[u] = brk[u]
      <4>1. brk \in [Urls -> BreakerType] /\ CanExpire(brk[v])
            /\ brk' = [brk EXCEPT ![v] = AfterTimeout(@)]
        BY <3>2 DEF BreakerTimeout, CallInv, TypeOK
      <4>2. AfterTimeout(brk[v]).state = "open"
        BY <4>1, AfterTimeoutFacts
      <4>3. QED
        BY <2>2, <4>1, <4>2 DEF Waiting
    <3>3. QED
      BY <1>2, <3>1, <3>2 DEF Aside, AdminAdd, AdminRemove, HealthVerdict, AdminSetAlive,
                              Cancel, shared, vars
  <2>3. QED
    BY <2>1, <2>2 DEF PermitInv, Orderly, PermitHeld, Waiting, Owes
<1>3. QED
  BY <1>1, <1>2 DEF Next, Aside

(***************************************************************************)
(* A permit that was taken is owed by a request that still runs: failover, *)
(* retries, late reports and pool changes lose none (proxy.go:193-250,     *)
(* circuitbreaker.go:68-156).                                              *)
(***************************************************************************)
THEOREM PermitIsOwed == ASSUME NoAborts PROVE Spec => []PermitHeld
<1>1. Init => PermitInv
  BY DEF Init, PermitInv, PermitHeld, Orderly, Waiting, NewBreaker
<1>2. CallInv /\ PermitInv /\ [Next]_vars => (CallInv /\ PermitInv)'
  BY CallInvNext, PermitNext
<1>3. PermitInv => PermitHeld
  BY DEF PermitInv
<1>4. QED
  BY <1>1, <1>2, <1>3, CallInvInit, PTL DEF Spec

-----------------------------------------------------------------------------
(***************************************************************************)
(* Failover moves on, if nobody but the proxy changes pool and alive.      *)
(***************************************************************************)
ProxyAlone == Environment \cap {"health", "admin"} = {}

\* The backends of the open calls are dead before another one is chosen, so
\* what was read alive since is not among them.
Rotates(r) ==
    /\ \A b \in pick[r].from \cup pick[r].todo \cup pick[r].seen : b \in pool
    /\ \A i \in DOMAIN frames[r] : frames[r][i] \in pool
    /\ pc[r] \in Choosing \cup {"start", "down"} =>
           \A i \in DOMAIN frames[r] : ~alive[frames[r][i]]
    /\ pc[r] \in {"proxy", "failed"} =>
           \A i \in DOMAIN frames[r] : i # Len(frames[r]) => ~alive[frames[r][i]]
    /\ pc[r] \in {"select", "enter"} =>
           \A b \in pick[r].seen : \A i \in DOMAIN frames[r] : frames[r][i] # b
    /\ \A i, j \in DOMAIN frames[r] : frames[r][i] = frames[r][j] => i = j

RotationInv == pool = InitialPool /\ \A r \in Requests : Rotates(r)

(* Nothing but MarkDown changes what is alive, and it takes away only. *)
LEMMA AliveFalls ==
  ASSUME CallInv, ProxyAlone, [Next]_vars
  PROVE  /\ pool' = pool
         /\ \A o \in Objects : alive'[o] => alive[o]
<1> USE DEF shared, CallInv, TypeOK
<1>1. ASSUME NEW r \in Requests, Arrive(r) \/ Step(r), ~MarkDown(r)
      PROVE  UNCHANGED <<pool, alive>>
  BY <1>1 DEF Step, Arrive, shared, GiveUp, Snapshot, UseCookie, RunAlgorithm,
       NoPeer, Reply503, CheckEligible, CheckAlive, Examine, Refuse, Admit, Enter, Respond,
       AbortCopy, TransportError, TimerFires, BackoffCancelled, Switch, Record, Leave, Unwind
<1>2. ASSUME NEW r \in Requests, MarkDown(r)
      PROVE  pool' = pool /\ \A o \in Objects : alive'[o] => alive[o]
  BY <1>2 DEF MarkDown, MarkBackendStatus
<1>3. CASE Aside \/ (\E r \in Requests : Cancel(r)) \/ UNCHANGED vars
  BY <1>3 DEF Aside, AdminAdd, AdminRemove, HealthVerdict, AdminSetAlive, BreakerTimeout,
              Cancel, vars, ProxyAlone
<1>4. QED
  BY <1>1, <1>2, <1>3 DEF Next, Aside

(* Of one call: the last struct is dropped, the others stay where they are. *)
LEMMA CloseFacts ==
  ASSUME CallInv, NEW r \in Requests, Leave(r) \/ Unwind(r)
  PROVE  /\ Len(frames[r]) \in Nat \ {0} /\ DOMAIN frames[r] = 1 .. Len(frames[r])
         /\ Len(frames'[r]) = Len(frames[r]) - 1
         /\ DOMAIN frames'[r] = 1 .. Len(frames[r]) - 1
         /\ \A i \in DOMAIN frames'[r] : i \in DOMAIN frames[r] /\ i # Len(frames[r])
                                         /\ frames'[r][i] = frames[r][i]
<1>1. /\ frames \in [Requests -> Seq(Objects)]
      /\ frames[r] \in Seq(Objects) /\ Len(frames[r]) \in Nat \ {0}
  BY TopFacts DEF CallInv, TypeOK, Leave, Unwind, Leaving
<1>2. frames'[r] = Pop(frames[r])
  BY <1>1 DEF Leave, Unwind, CloseFrame
<1>3. Len(frames[r]) >= 1
  BY <1>1
<1>4. /\ Pop(frames[r]) \in Seq(Objects) /\ Len(Pop(frames[r])) = Len(frames[r]) - 1
      /\ \A i \in 1 .. Len(frames[r]) - 1 : Pop(frames[r])[i] = frames[r][i]
  BY <1>1, <1>3, PopFacts, Zenon
<1>5. DOMAIN frames'[r] = 1 .. Len(frames[r]) - 1 /\ DOMAIN frames[r] = 1 .. Len(frames[r])
  BY <1>1, <1>2, <1>4
<1>6. ASSUME NEW i \in DOMAIN frames'[r]
      PROVE  i \in DOMAIN frames[r] /\ i # Len(frames[r])
  BY <1>1, <1>5
<1>7. QED
  BY <1>1, <1>2, <1>4, <1>5, <1>6, Zenon

(* Of a call that is opened: one more struct. *)
LEMMA OpenFacts ==
  ASSUME CallInv, NEW r \in Requests, NEW b \in Objects, Enter(r, b)
  PROVE  /\ Len(frames[r]) \in Nat /\ Len(frames'[r]) = Len(frames[r]) + 1
         /\ DOMAIN frames'[r] = DOMAIN frames[r] \cup {Len(frames[r]) + 1}
         /\ frames'[r][Len(frames[r]) + 1] = b
         /\ \A i \in DOMAIN frames[r] : /\ i \in 1 .. Len(frames[r])
                                        /\ frames'[r][i] = frames[r][i]
<1>1. frames[r] \in Seq(Objects) /\ frames'[r] = Append(frames[r], b)
  BY DEF CallInv, TypeOK, Enter
<1>2. QED
  BY <1>1

(* What the selection reads is in the pool, and alive when it is picked. *)
LEMMA SelectionRotates ==
  ASSUME CallInv, ProxyAlone, RotationInv, NEW r \in Requests, NEW b \in Objects,
         \/ Snapshot(r) \/ UseCookie(r) \/ RunAlgorithm(r)
         \/ CheckEligible(r, b) \/ CheckAlive(r, b) \/ Refuse(r, b) \/ Admit(r, b)
  PROVE  Rotates(r)'
<1> USE DEF Goto, Chosen, NoPick, RotationInv
<1>1. /\ UNCHANGED <<pool, alive, frames>> /\ Rotates(r)
      /\ pc \in [Requests -> Labels] /\ pick \in [Requests -> Picks]
  BY DEF CallInv, TypeOK, Snapshot, UseCookie, RunAlgorithm, CheckEligible, CheckAlive,
         Examine, Refuse, Admit, shared
<1>2. /\ pc[r] \in Choosing \cup {"start"} /\ pc'[r] \in Choosing \cup {"start"}
  BY <1>1 DEF Snapshot, UseCookie, RunAlgorithm, CheckEligible, CheckAlive, Examine,
         Refuse, Admit, Filtering, Selecting, Choosing
<1>3. \A i \in DOMAIN frames[r] : ~alive[frames[r][i]]
  BY <1>1, <1>2 DEF Rotates
<1>4. \A x \in pick'[r].from \cup pick'[r].todo \cup pick'[r].seen : x \in pool
  <2>1. Filtered(r) \subseteq pick[r].from \cup pick[r].seen
    BY DEF Filtered
  <2>2. QED
    BY <1>1, <2>1 DEF Rotates, Snapshot, UseCookie, Affine, RunAlgorithm, CheckEligible,
                      CheckAlive, Examine, Refuse, Admit
<1>5. ASSUME pc'[r] \in {"select", "enter"}, NEW x \in pick'[r].seen
      PROVE  \A i \in DOMAIN frames[r] : frames[r][i] # x
  <2>1. CASE alive[x]
    BY <1>3, <2>1
  <2>2. CASE ~alive[x]
    <3>1. \/ x \in pick[r].seen /\ pc[r] = "select"
          \/ UseCookie(r)
      BY <1>1, <1>5, <2>2 DEF Snapshot, RunAlgorithm, CheckEligible,
                    CheckAlive, Examine, Refuse, Admit, Selecting
    <3>2. ~UseCookie(r)
      BY <1>1, <1>5, <2>2 DEF UseCookie, Affine
    <3>3. QED
      BY <1>1, <3>1, <3>2 DEF Rotates
  <2>3. QED
    BY <2>1, <2>2
<1>6. QED
  BY <1>1, <1>2, <1>3, <1>4, <1>5 DEF Rotates, Choosing

LEMMA RotationStep ==
  ASSUME CallInv, ProxyAlone, RotationInv, NEW r \in Requests, Arrive(r) \/ Step(r)
  PROVE  Rotates(r)'
<1> USE DEF Goto
<1>0. /\ pc \in [Requests -> Labels] /\ pick \in [Requests -> Picks]
      /\ alive \in [Objects -> BOOLEAN] /\ pool \subseteq Objects
      /\ Rotates(r) /\ pool' = pool
      /\ \A o \in Objects : alive'[o] => alive[o]
  BY AliveFalls DEF CallInv, TypeOK, RotationInv, Next
<1>1. CASE Arrive(r)
  BY <1>0, <1>1 DEF Arrive, shared, Rotates, Choosing, Position, CallInv
<1>2. CASE GiveUp(r) \/ NoPeer(r)
  BY <1>0, <1>2 DEF GiveUp, NoPeer, Reply503, ReturnTo, Rotates, Choosing, shared
<1>3. ASSUME NEW b \in Objects, Enter(r, b) PROVE Rotates(r)'
  <2>1. /\ pc[r] = "enter" /\ pc'[r] = "proxy" /\ b \in pick[r].seen /\ UNCHANGED alive
        /\ pick'[r] = NoPick
    BY <1>0, <1>3 DEF Enter
  <2>2. /\ b \in pool
        /\ \A i \in DOMAIN frames[r] : frames[r][i] # b /\ ~alive[frames[r][i]]
    BY <1>0, <2>1 DEF Rotates, Choosing
  <2>3. /\ \A i \in DOMAIN frames'[r] :
              /\ frames'[r][i] \in pool
              /\ i # Len(frames'[r]) => ~alive[frames'[r][i]]
        /\ \A i, j \in DOMAIN frames'[r] : frames'[r][i] = frames'[r][j] => i = j
    BY <1>0, <1>3, <2>2, OpenFacts DEF Rotates
  <2>4. QED
    BY <1>0, <2>1, <2>3 DEF Rotates, NoPick, Choosing
<1>4. CASE \/ \E ok \in BOOLEAN : Respond(r, ok)
           \/ AbortCopy(r) \/ TransportError(r) \/ TimerFires(r) \/ BackoffCancelled(r)
           \/ Record(r)
  BY <1>0, <1>4 DEF Respond, AbortCopy, TransportError, TimerFires, BackoffCancelled,
                    Record, shared, Rotates, Choosing
<1>5. CASE MarkDown(r)
  <2>1. /\ pc[r] = "failed" /\ pc'[r] = "down" /\ UNCHANGED <<pool, pick, frames>>
        /\ MarkBackendStatus(Url(r), FALSE)
    BY <1>0, <1>5 DEF MarkDown
  <2>2. /\ frames[r] \in Seq(Objects) /\ Len(frames[r]) \in Nat \ {0}
        /\ \A i \in DOMAIN frames[r] : frames[r][i] \in pool
    BY <1>0, <2>1, TopFacts DEF Sending, Rotates
  <2>3. ~alive'[Top(r)]
    BY <1>0, <2>1, <2>2 DEF MarkBackendStatus, Top, Url
  <2>4. \A i \in DOMAIN frames[r] : ~alive'[frames[r][i]]
    BY <1>0, <2>1, <2>2, <2>3 DEF Rotates, Top
  <2>5. QED
    BY <1>0, <2>1, <2>4 DEF Rotates, Choosing
<1>6. CASE Switch(r)
  BY <1>0, <1>6 DEF Switch, Rotates, Choosing
<1>7. CASE Leave(r) \/ Unwind(r)
  <2>1. UNCHANGED pick /\ pc'[r] \in {"idle", "return", "panic"}
    BY <1>0, <1>7 DEF Leave, Unwind, ReturnTo
  <2>2. \A i \in DOMAIN frames'[r] : i \in DOMAIN frames[r] /\ frames'[r][i] = frames[r][i]
    BY <1>7, CloseFacts
  <2>3. QED
    BY <1>0, <2>1, <2>2 DEF Rotates, Choosing
<1>8. CASE \/ Snapshot(r) \/ UseCookie(r) \/ RunAlgorithm(r)
           \/ \E b \in Objects : \/ CheckEligible(r, b) \/ CheckAlive(r, b)
                                 \/ Refuse(r, b) \/ Admit(r, b)
  <2>1. CASE Objects = {}
    BY <1>0, <1>8, <2>1 DEF UseCookie, Affine, Filtered, Rotates, Snapshot, RunAlgorithm,
       shared, Choosing
  <2>2. CASE Objects # {}
    BY <1>8, <2>2, SelectionRotates
  <2>3. QED
    BY <2>1, <2>2
<1>9. QED
  BY <1>1, <1>2, <1>3, <1>4, <1>5, <1>6, <1>7, <1>8 DEF Step

LEMMA RotationNext ==
  ASSUME CallInv, ProxyAlone, RotationInv, [Next]_vars
  PROVE  RotationInv'
<1>1. /\ pool' = pool
      /\ \A o \in Objects : alive'[o] => alive[o]
      /\ frames \in [Requests -> Seq(Objects)]
  BY AliveFalls DEF CallInv, TypeOK
<1>2. ASSUME NEW q \in Requests,
             pc'[q] = pc[q] /\ pick'[q] = pick[q] /\ frames'[q] = frames[q]
      PROVE  Rotates(q)'
  <2>1. Rotates(q) /\ \A i \in DOMAIN frames[q] : frames[q][i] \in Objects
    BY <1>1 DEF RotationInv
  <2>2. \A i \in DOMAIN frames[q] : ~alive[frames[q][i]] => ~alive'[frames[q][i]]
    BY <1>1, <2>1
  <2>3. QED
    BY <1>1, <1>2, <2>1, <2>2 DEF Rotates
<1>3. ASSUME NEW r \in Requests, Arrive(r) \/ Step(r) PROVE RotationInv'
  <2>1. Rotates(r)'
    BY <1>3, RotationStep
  <2>2. ASSUME NEW q \in Requests \ {r} PROVE Rotates(q)'
    BY <1>2, <1>3, OthersWait DEF CallInv
  <2>3. QED
    BY <1>1, <2>1, <2>2 DEF RotationInv
<1>4. CASE Aside \/ (\E r \in Requests : Cancel(r)) \/ UNCHANGED vars
  BY <1>1, <1>2, <1>4, AsideLeaves DEF RotationInv
<1>5. QED
  BY <1>3, <1>4 DEF Next, Aside

LEMMA RotationInit == Init => RotationInv
  BY DEF Init, RotationInv, Rotates, NoPick

(***************************************************************************)
(* The attempts of a request are at different servers (README.md:86,       *)
(* proxy.go:133-150), however other requests interleave with it.           *)
(***************************************************************************)
THEOREM AttemptsDiffer == ASSUME ProxyAlone PROVE Spec => []NoRepeat
<1>1. RotationInv => NoRepeat
  BY LoadBalancerAssumption DEF RotationInv, Rotates, NoRepeat
<1>2. CallInv /\ RotationInv /\ [Next]_vars => (CallInv /\ RotationInv)'
  BY CallInvNext, RotationNext
<1>3. QED
  BY <1>1, <1>2, CallInvInit, RotationInit, PTL DEF Spec

-----------------------------------------------------------------------------
(***************************************************************************)
(* A server that never fails is never blamed, if in addition clients stay  *)
(* and there are no bodies that a failed attempt has closed.               *)
(***************************************************************************)
OnlyServersFail == ProxyAlone /\ "cancel" \notin Environment /\ WithBody = {}

\* Every open call but the innermost has failed, and that one too once the
\* error handler runs or a bad response is recorded.
Undecided(r) == \/ pc[r] \in {"proxy", "leave", "panic"}
                \/ pc[r] = "return" /\ answer[r].ok

Blamed(r) ==
    /\ ~cancelled[r]
    /\ \A i \in DOMAIN frames[r] : \/ UrlOf[frames[r][i]] \in Flaky
                                   \/ i = Len(frames[r]) /\ Undecided(r)

BlameInv == (\A r \in Requests : Blamed(r)) /\ HealthyStaysUp

LEMMA BlameStep ==
  ASSUME CallInv, OnlyServersFail, NEW r \in Requests, Blamed(r), Arrive(r) \/ Step(r)
  PROVE  Blamed(r)'
<1> USE DEF Goto, Undecided
<1>0. /\ pc \in [Requests -> Labels] /\ cancelled \in [Requests -> BOOLEAN]
      /\ frames[r] \in Seq(Objects) /\ answer \in [Requests -> Answers]
  BY DEF CallInv, TypeOK
<1>1. CASE Arrive(r)
  BY <1>0, <1>1 DEF Arrive, Blamed, CallInv, Position
<1>2. CASE GiveUp(r) \/ NoPeer(r)
  BY <1>0, <1>2 DEF GiveUp, NoPeer, Selecting, Reply503, ReturnTo, ctx, Blamed
<1>3. CASE \/ Snapshot(r) \/ UseCookie(r) \/ RunAlgorithm(r)
           \/ \E b \in Objects : \/ CheckEligible(r, b) \/ CheckAlive(r, b)
                                 \/ Refuse(r, b) \/ Admit(r, b)
  <2>1. /\ UNCHANGED <<cancelled, frames>> /\ ~Undecided(r)
    BY <1>0, <1>3 DEF Snapshot, UseCookie, RunAlgorithm, CheckEligible, CheckAlive, Examine,
                Refuse, Admit, ctx, Filtering, Selecting
  <2>2. QED
    BY <2>1 DEF Blamed
<1>4. ASSUME NEW b \in Objects, Enter(r, b) PROVE Blamed(r)'
  <2>1. pc[r] = "enter" /\ pc'[r] = "proxy" /\ UNCHANGED cancelled
    BY <1>0, <1>4 DEF Enter, ctx
  <2>2. QED
    BY <1>4, <2>1, OpenFacts DEF Blamed
<1>5. CASE (\E ok \in BOOLEAN : Respond(r, ok)) \/ AbortCopy(r)
  <2>1. /\ UNCHANGED <<cancelled, frames>>
        /\ \/ pc'[r] = "return" /\ (answer'[r].ok \/ Url(r) \in Flaky)
           \/ pc'[r] = "panic"
    BY <1>0, <1>5 DEF Respond, AbortCopy, ctx
  <2>2. QED
    BY <1>0, <2>1 DEF Blamed, Url, Top
<1>6. CASE TransportError(r)
  <2>1. UNCHANGED <<cancelled, frames>> /\ Url(r) \in Flaky
    BY <1>0, <1>6 DEF TransportError, ctx, Blamed, BodyGone, OnlyServersFail
  <2>2. QED
    BY <1>0, <2>1 DEF Blamed, Url, Top
<1>7. CASE TimerFires(r) \/ BackoffCancelled(r) \/ MarkDown(r) \/ Switch(r)
  <2>1. UNCHANGED <<cancelled, frames>> /\ ~Undecided(r)
    BY <1>0, <1>7 DEF TimerFires, BackoffCancelled, MarkDown, Switch, ctx
  <2>2. QED
    BY <2>1 DEF Blamed
<1>8. CASE Record(r)
  <2>1. UNCHANGED <<cancelled, frames>> /\ pc'[r] = "leave"
    BY <1>0, <1>8 DEF Record, ctx
  <2>2. QED
    BY <2>1 DEF Blamed
<1>9. CASE Leave(r) \/ Unwind(r)
  <2>1. UNCHANGED cancelled
    BY <1>9 DEF Leave, Unwind, ctx
  <2>2. QED
    BY <1>9, <2>1, CloseFacts DEF Blamed
<1>10. QED
  BY <1>1, <1>2, <1>3, <1>4, <1>5, <1>6, <1>7, <1>8, <1>9 DEF Step

(* Marks and failures go to the server of the innermost call. *)
LEMMA HealthyStep ==
  ASSUME CallInv, BlameInv, NEW r \in Requests, Arrive(r) \/ Step(r)
  PROVE  HealthyStaysUp'
<1>1. /\ alive \in [Objects -> BOOLEAN] /\ brk \in [Urls -> BreakerType]
      /\ HealthyStaysUp /\ Blamed(r)
  BY DEF CallInv, TypeOK, BlameInv
<1>2. ASSUME MarkDown(r) \/ Switch(r) \/ (Record(r) /\ ~answer[r].ok)
      PROVE  Url(r) \in Flaky
  <2>1. pc[r] \in Sending \cup Leaving /\ ~Undecided(r)
    BY <1>2 DEF MarkDown, Switch, Record, Sending, Leaving, Undecided
  <2>2. Len(frames[r]) \in DOMAIN frames[r]
    BY <2>1, TopFacts
  <2>3. QED
    BY <1>1, <2>1, <2>2 DEF Blamed, Url, Top
<1>3. ASSUME NEW o \in Objects, UrlOf[o] \notin Flaky
      PROVE  alive'[o] /\ brk'[UrlOf[o]].state = "closed"
  <2>1. /\ alive[o] /\ brk[UrlOf[o]].state = "closed"
        /\ UrlOf[o] \in Urls /\ brk[UrlOf[o]] \in BreakerType
    BY <1>1, <1>3, LoadBalancerAssumption DEF HealthyStaysUp
  <2>2. CASE MarkDown(r)
    BY <1>1, <1>2, <1>3, <2>1, <2>2 DEF MarkDown, MarkBackendStatus
  <2>3. CASE Switch(r)
    <3>1. UNCHANGED alive /\ Report(r, FALSE) /\ Url(r) # UrlOf[o]
      BY <1>2, <1>3, <2>3 DEF Switch
    <3>2. QED
      BY <1>1, <2>1, <3>1 DEF Report
  <2>4. CASE Record(r)
    <3>1. UNCHANGED alive /\ Report(r, answer[r].ok) /\ Url(r) \in Urls
      BY <2>4, TopFacts DEF Record, Leaving
    <3>2. CASE Url(r) # UrlOf[o]
      BY <1>1, <2>1, <3>1, <3>2 DEF Report
    <3>3. CASE Url(r) = UrlOf[o]
      <4>1. brk' = IF BreakerEnabled
                   THEN [brk EXCEPT ![UrlOf[o]] = AfterSuccess(@)] ELSE brk
        BY <1>2, <1>3, <2>4, <3>1, <3>3 DEF Report
      <4>2. AfterSuccess(brk[UrlOf[o]]).state = "closed"
        BY <2>1, AfterSuccessFacts
      <4>3. QED
        BY <1>1, <2>1, <3>1, <4>1, <4>2
    <3>4. QED
      BY <3>2, <3>3
  <2>5. ASSUME NEW b \in Objects, Admit(r, b)
        PROVE  alive'[o] /\ brk'[UrlOf[o]].state = "closed"
    <3>1. CASE BreakerEnabled /\ UrlOf[b] = UrlOf[o]
      <4>1. AfterAllow(brk[UrlOf[o]]) = brk[UrlOf[o]]
        BY <2>1, AfterAllowFacts DEF Eligible
      <4>2. QED
        BY <1>1, <2>1, <2>5, <3>1, <4>1 DEF Admit
    <3>2. CASE ~(BreakerEnabled /\ UrlOf[b] = UrlOf[o])
      BY <1>1, <2>1, <2>5, <3>2 DEF Admit
    <3>3. QED
      BY <3>1, <3>2
  <2>6. CASE ~MarkDown(r) /\ ~Switch(r) /\ ~Record(r) /\ ~(\E b \in Objects : Admit(r, b))
    <3>1. UNCHANGED <<alive, brk>>
      BY <2>6 DEF Step, Arrive, shared, GiveUp, Snapshot, UseCookie, RunAlgorithm,
         NoPeer, Reply503, CheckEligible, CheckAlive, Examine, Refuse, Enter, Respond,
         AbortCopy, TransportError, TimerFires, BackoffCancelled, Leave, Unwind
    <3>2. QED
      BY <2>1, <3>1
  <2>7. QED
    BY <2>2, <2>3, <2>4, <2>5, <2>6
<1>4. QED
  BY <1>3 DEF HealthyStaysUp

LEMMA BlameNext ==
  ASSUME CallInv, OnlyServersFail, BlameInv, [Next]_vars
  PROVE  BlameInv'
<1>1. ASSUME NEW r \in Requests, Arrive(r) \/ Step(r) PROVE BlameInv'
  <2>1. Blamed(r)'
    BY <1>1, BlameStep DEF BlameInv
  <2>2. ASSUME NEW q \in Requests \ {r} PROVE Blamed(q)'
    <3>1. cancelled'[q] = cancelled[q]
      BY <1>1 DEF CallInv, TypeOK, Arrive, Step, ctx, GiveUp, Snapshot, UseCookie,
         RunAlgorithm, NoPeer, Reply503, CheckEligible, CheckAlive, Examine, Refuse, Admit,
         Enter, Respond, AbortCopy, TransportError, TimerFires, BackoffCancelled, MarkDown,
         Switch, Record, Leave, Unwind
    <3>2. QED
      BY <1>1, <3>1, OthersWait DEF CallInv, BlameInv, Blamed, Undecided
  <2>3. QED
    BY <1>1, <2>1, <2>2, HealthyStep DEF BlameInv
<1>2. CASE Aside \/ (\E r \in Requests : Cancel(r)) \/ UNCHANGED vars
  <2>1. UNCHANGED <<pc, frames, answer>>
    BY <1>2, AsideLeaves
  <2>2. UNCHANGED <<cancelled, alive>>
    BY <1>2 DEF Aside, AdminAdd, AdminRemove, HealthVerdict, AdminSetAlive, BreakerTimeout,
                Cancel, vars, ctx, shared, OnlyServersFail, ProxyAlone
  <2>3. ASSUME NEW u \in Urls, brk[u].state = "closed" PROVE brk'[u].state = "closed"
    <3>1. ASSUME NEW v \in Urls, BreakerTimeout(v) PROVE brk'[u] = brk[u]
      BY <2>3, <3>1 DEF BreakerTimeout, CanExpire, CallInv, TypeOK
    <3>2. (\A v \in Urls : ~BreakerTimeout(v)) => UNCHANGED brk
      BY <1>2 DEF Aside, AdminAdd, AdminRemove, HealthVerdict, AdminSetAlive, Cancel,
                  vars, shared
    <3>3. QED
      BY <2>3, <3>1, <3>2
  <2>4. HealthyStaysUp'
    BY <2>2, <2>3, LoadBalancerAssumption DEF BlameInv, HealthyStaysUp
  <2>5. QED
    BY <2>1, <2>2, <2>4 DEF BlameInv, Blamed, Undecided
<1>3. QED
  BY <1>1, <1>2 DEF Next, Aside

LEMMA BlameInit == Init => BlameInv
<1>1. SUFFICES ASSUME Init PROVE BlameInv
  OBVIOUS
<1>2. HealthyStaysUp
  BY <1>1, LoadBalancerAssumption DEF Init, HealthyStaysUp, NewBreaker
<1>3. QED
  BY <1>1, <1>2 DEF Init, BlameInv, Blamed

(***************************************************************************)
(* No order of concurrent failures, retries and late reports takes a       *)
(* server out of rotation, or opens its circuit, that answers every        *)
(* request (proxy.go:106-157, 240-250).                                    *)
(***************************************************************************)
THEOREM HealthyUndisturbed == ASSUME OnlyServersFail PROVE Spec => []HealthyStaysUp
<1>1. BlameInv => HealthyStaysUp
  BY DEF BlameInv
<1>2. CallInv /\ BlameInv /\ [Next]_vars => (CallInv /\ BlameInv)'
  BY CallInvNext, BlameNext
<1>3. QED
  BY <1>1, <1>2, CallInvInit, BlameInit, PTL DEF Spec

-----------------------------------------------------------------------------
(***************************************************************************)
(* Failover finds the server that works, if in addition no breaker refuses *)
(* an attempt.                                                             *)
(***************************************************************************)
NothingElseFails == OnlyServersFail /\ ~BreakerEnabled

\* An attempt is spent for every call, and the selection has yet to read what
\* it does not know to be dead, or has found one.
Tracked(r) ==
    /\ pc[r] \in Choosing \cup {"start"} => attempts[r] = Len(frames[r])
    /\ pc[r] \in Sending => attempts[r] + 1 = Len(frames[r])
    /\ pc[r] = "filter" => pick[r] = [from |-> pool, todo |-> {}, seen |-> {}]
    /\ pc[r] = "select" => \/ pick[r].seen # {}
                           \/ \A o \in pool : o \in pick[r].todo \/ ~alive[o]

LEMMA TrackedStep ==
  ASSUME CallInv, NothingElseFails, RotationInv, NEW r \in Requests, Tracked(r),
         Arrive(r) \/ Step(r)
  PROVE  Tracked(r)'
<1> USE DEF Goto, Choosing, Sending
<1>0. /\ pc \in [Requests -> Labels] /\ attempts \in [Requests -> 0 .. MaxBackendSwitches]
      /\ frames[r] \in Seq(Objects) /\ pick \in [Requests -> Picks]
      /\ pool \subseteq Objects /\ ~BreakerEnabled
      /\ MaxBackendSwitches \in Nat /\ Len(frames[r]) \in Nat
  BY LoadBalancerAssumption DEF CallInv, TypeOK, NothingElseFails
<1>1. CASE Arrive(r)
  BY <1>0, <1>1 DEF Arrive, CallInv, Position, Tracked
<1>2. CASE GiveUp(r) \/ NoPeer(r)
  BY <1>0, <1>2 DEF GiveUp, NoPeer, Reply503, ReturnTo, Tracked
<1>3. CASE Snapshot(r)
  BY <1>0, <1>3 DEF Snapshot, ctx, shared, Tracked
<1>4. CASE UseCookie(r)
  BY <1>0, <1>4 DEF UseCookie, Filtering, Chosen, ctx, shared, Tracked
<1>5. CASE RunAlgorithm(r)
  <2>1. /\ pc[r] = "filter" /\ pc'[r] = "select" /\ UNCHANGED <<attempts, frames, pool, alive>>
        /\ pick'[r].todo = Filtered(r)
    BY <1>0, <1>5 DEF RunAlgorithm, Filtering, ctx, shared
  <2>2. Filtered(r) = pool
    BY <2>1 DEF Tracked, Filtered
  <2>3. QED
    BY <2>1, <2>2 DEF Tracked
<1>6. ASSUME NEW b \in Objects, CheckEligible(r, b) PROVE Tracked(r)'
  BY <1>6 DEF CheckEligible, Examine, Tracked
<1>7. ASSUME NEW b \in Objects, CheckAlive(r, b) PROVE Tracked(r)'
  <2>1. /\ pc[r] = "select" /\ pc'[r] = "select" /\ UNCHANGED <<attempts, frames, pool, alive>>
        /\ b \in pick[r].todo
        /\ pick'[r] = [from |-> pick[r].from, todo |-> pick[r].todo \ {b},
                       seen |-> IF alive[b] THEN pick[r].seen \cup {b} ELSE pick[r].seen]
    BY <1>0, <1>7 DEF CheckAlive, Examine, ctx, shared
  <2>2. \/ pick'[r].seen # {}
        \/ \A o \in pool : o \in pick'[r].todo \/ ~alive[o]
    BY <2>1 DEF Tracked
  <2>3. QED
    BY <2>1, <2>2 DEF Tracked
<1>8. ASSUME NEW b \in Objects, Refuse(r, b) \/ Admit(r, b) PROVE Tracked(r)'
  BY <1>0, <1>8 DEF Refuse, Admit, Selecting, ctx, Tracked
<1>9. ASSUME NEW b \in Objects, Enter(r, b) PROVE Tracked(r)'
  <2>1. pc[r] = "enter" /\ pc'[r] = "proxy" /\ attempts' = attempts
    BY <1>0, <1>9 DEF Enter, ctx
  <2>2. Len(frames'[r]) = Len(frames[r]) + 1
    BY <1>9, OpenFacts
  <2>3. QED
    BY <1>0, <2>1, <2>2 DEF Tracked
<1>10. CASE \/ \E ok \in BOOLEAN : Respond(r, ok)
            \/ AbortCopy(r) \/ TransportError(r) \/ TimerFires(r)
            \/ BackoffCancelled(r) \/ MarkDown(r) \/ Record(r)
  BY <1>0, <1>10 DEF Respond, AbortCopy, TransportError, TimerFires, BackoffCancelled,
                     MarkDown, Record, ctx, Tracked
<1>11. CASE Switch(r)
  BY <1>0, <1>11 DEF Switch, NextAttempt, Tracked
<1>12. CASE Leave(r) \/ Unwind(r)
  BY <1>0, <1>12 DEF Leave, Unwind, ReturnTo, Tracked
<1>13. QED
  BY <1>1, <1>2, <1>3, <1>4, <1>5, <1>6, <1>7, <1>8, <1>9, <1>10, <1>11, <1>12 DEF Step

ServiceInv == /\ RotationInv /\ BlameInv
              /\ \A r \in Requests : Tracked(r)

LEMMA ServiceNext ==
  ASSUME CallInv, NothingElseFails, ServiceInv, [Next]_vars
  PROVE  ServiceInv'
<1>1. /\ pool' = pool /\ pool \subseteq Objects
      /\ \A o \in Objects : alive'[o] => alive[o]
  BY AliveFalls DEF CallInv, TypeOK, NothingElseFails, OnlyServersFail
<1>2. RotationInv' /\ BlameInv'
  BY RotationNext, BlameNext DEF ServiceInv, NothingElseFails, OnlyServersFail
<1>3. ASSUME NEW q \in Requests, pc'[q] = pc[q], pick'[q] = pick[q],
             frames'[q] = frames[q], attempts'[q] = attempts[q]
      PROVE  Tracked(q)'
  BY <1>1, <1>3 DEF ServiceInv, Tracked
<1>4. ASSUME NEW r \in Requests, Arrive(r) \/ Step(r), NEW q \in Requests
      PROVE  Tracked(q)'
  <2>1. CASE q = r
    BY <1>4, <2>1, TrackedStep DEF ServiceInv
  <2>2. CASE q # r
    BY <1>3, <1>4, <2>2, OthersWait DEF CallInv
  <2>3. QED
    BY <2>1, <2>2
<1>5. CASE Aside \/ (\E r \in Requests : Cancel(r)) \/ UNCHANGED vars
  BY <1>2, <1>3, <1>5, AsideLeaves DEF ServiceInv
<1>6. QED
  BY <1>2, <1>4, <1>5 DEF Next, Aside, ServiceInv

LEMMA ServiceInit == Init => ServiceInv
<1>1. SUFFICES ASSUME Init PROVE ServiceInv
  OBVIOUS
<1>2. \A r \in Requests : Tracked(r)
  BY <1>1 DEF Init, Tracked, Choosing, Sending
<1>3. QED
  BY <1>1, <1>2, RotationInit, BlameInit DEF ServiceInv

\* One server of the pool never fails, and there are attempts for all others.
FlakyPool == {o \in InitialPool : UrlOf[o] \in Flaky}
Enough    == /\ \E o \in InitialPool : UrlOf[o] \notin Flaky
             /\ Cardinality(FlakyPool) < MaxBackendSwitches

(* Different backends that failed are no more than there are of them. *)
LEMMA FewAttempts ==
  ASSUME CallInv, ServiceInv, Enough, NEW r \in Requests, pc[r] = "start"
  PROVE  ~Exhausted(r)
<1> DEFINE n == Len(frames[r])
<1>1. /\ frames[r] \in Seq(Objects) /\ n \in Nat
      /\ attempts[r] = n /\ Rotates(r) /\ Blamed(r) /\ pool = InitialPool
  BY DEF CallInv, TypeOK, ServiceInv, RotationInv, BlameInv, Tracked
<1>2. IsFiniteSet(FlakyPool) /\ Cardinality(FlakyPool) \in Nat
  <2>1. FlakyPool \subseteq Objects
    BY LoadBalancerAssumption DEF FlakyPool
  <2>2. QED
    BY <2>1, LoadBalancerAssumption, FS_Subset, FS_CardinalityType
<1>3. frames[r] \in [1 .. n -> FlakyPool]
  <2>1. \A i \in 1 .. n : frames[r][i] \in FlakyPool
    BY <1>1 DEF Rotates, Blamed, Undecided, FlakyPool
  <2>2. QED
    BY <1>1, <2>1
<1>4. \A x, y \in 1 .. n : frames[r][x] = frames[r][y] => x = y
  BY <1>1 DEF Rotates
<1>5. IsFiniteSet(1 .. n) /\ Cardinality(1 .. n) = n
  BY <1>1, FS_Interval
<1>6. ~(Cardinality(FlakyPool) < Cardinality(1 .. n))
  BY <1>2, <1>3, <1>4, <1>5, FS_PigeonHole
<1>7. QED
  BY <1>1, <1>2, <1>5, <1>6, LoadBalancerAssumption DEF Exhausted, Enough

(* So the load balancer has no reason for a 503 of its own. *)
LEMMA No503 ==
  ASSUME CallInv, NothingElseFails, ServiceInv, Enough, HealthyServes, [Next]_vars
  PROVE  HealthyServes'
<1>1. ASSUME NEW r \in Requests, Arrive(r) \/ Step(r) PROVE answer'[r] # Unavailable
  <2>1. answer[r] # Unavailable /\ answer \in [Requests -> Answers]
    BY DEF HealthyServes, CallInv, TypeOK
  <2>2. ~GiveUp(r)
    BY FewAttempts DEF GiveUp
  <2>3. ~NoPeer(r)
    <3>1. PICK h \in InitialPool : UrlOf[h] \notin Flaky
      BY DEF Enough
    <3>2. h \in pool /\ alive[h]
      BY <3>1, LoadBalancerAssumption DEF ServiceInv, RotationInv, BlameInv, HealthyStaysUp
    <3>3. QED
      BY <3>2 DEF NoPeer, Selecting, ServiceInv, Tracked
  <2>4. CASE \E ok \in BOOLEAN : Respond(r, ok)
    <3>1. /\ pc[r] = "proxy"
          /\ \E ok \in BOOLEAN : answer' = [answer EXCEPT ![r] = [by |-> Url(r), ok |-> ok]]
      BY <2>4 DEF Respond
    <3>2. Url(r) # None
      BY <3>1, TopFacts, LoadBalancerAssumption DEF Sending
    <3>3. QED
      BY <2>1, <3>1, <3>2 DEF Unavailable
  <2>5. CASE AbortCopy(r)
    BY <2>1, <2>5 DEF AbortCopy, Unavailable
  <2>6. CASE Switch(r)
    <3>1. attempts[r] < MaxBackendSwitches
      BY <2>6 DEF Switch, CallInv, Position, Sending
    <3>2. QED
      BY <2>1, <2>6, <3>1 DEF Switch
  <2>7. CASE Arrive(r)
    BY <2>1, <2>7 DEF Arrive, NoAnswer, Unavailable
  <2>8. CASE \/ Snapshot(r) \/ UseCookie(r) \/ RunAlgorithm(r)
             \/ \E b \in Objects : \/ CheckEligible(r, b) \/ CheckAlive(r, b)
                                   \/ Refuse(r, b) \/ Admit(r, b) \/ Enter(r, b)
             \/ TransportError(r) \/ TimerFires(r) \/ BackoffCancelled(r)
             \/ MarkDown(r) \/ Record(r) \/ Leave(r) \/ Unwind(r)
    BY <2>1, <2>8 DEF Snapshot, UseCookie, RunAlgorithm, CheckEligible, CheckAlive, Examine,
       Refuse, Admit, Enter, TransportError, TimerFires, BackoffCancelled, MarkDown, Record,
       Leave, Unwind, reply
  <2>9. QED
    BY <1>1, <2>2, <2>3, <2>4, <2>5, <2>6, <2>7, <2>8 DEF Step
<1>2. ASSUME NEW r \in Requests, Arrive(r) \/ Step(r) PROVE HealthyServes'
  <2>1. ASSUME NEW q \in Requests \ {r} PROVE answer'[q] # Unavailable
    BY <1>2, OthersWait DEF CallInv, HealthyServes
  <2>2. QED
    BY <1>1, <1>2, <2>1 DEF HealthyServes, Unavailable
<1>3. CASE Aside \/ (\E r \in Requests : Cancel(r)) \/ UNCHANGED vars
  BY <1>3, AsideLeaves DEF HealthyServes
<1>4. QED
  BY <1>2, <1>3 DEF Next, Aside

(***************************************************************************)
(* With one server that works and attempts for all that may fail, every    *)
(* request is answered by a server, for any number of requests that take   *)
(* servers out of rotation under each other's feet (proxy.go:159-250).     *)
(***************************************************************************)
THEOREM FailoverServes ==
  ASSUME NothingElseFails, Enough
  PROVE  Spec => []HealthyServes
<1>1. Init => HealthyServes
  BY DEF Init, HealthyServes, NoAnswer, Unavailable
<1>2. CallInv /\ ServiceInv /\ HealthyServes /\ [Next]_vars
        => (CallInv /\ ServiceInv /\ HealthyServes)'
  BY CallInvNext, ServiceNext, No503
<1>3. QED
  BY <1>1, <1>2, CallInvInit, ServiceInit, PTL DEF Spec

-----------------------------------------------------------------------------
(***************************************************************************)
(* The promise of Failover, under the same conditions, if every server has *)
(* a backend in the pool.                                                  *)
(***************************************************************************)
EveryServerPooled == \A u \in Urls : \E o \in InitialPool : UrlOf[o] = u

\* Without sticky sessions there is no cookie.
NoCookie   == ~StickyEnabled => \A r \in Requests : pinned[r] = None

PromiseInv == CallInv /\ ServiceInv /\ CookieInv /\ NoCookie

LEMMA PromiseNextInv ==
  ASSUME NothingElseFails, PromiseInv, [Next]_vars
  PROVE  PromiseInv'
<1>1. CallInv' /\ ServiceInv' /\ CookieInv'
  BY CallInvNext, ServiceNext, CookieNext DEF PromiseInv
<1>2. NoCookie'
  <2>1. SUFFICES ASSUME ~StickyEnabled, NEW q \in Requests PROVE pinned'[q] = None
    BY DEF NoCookie
  <2>2. pinned[q] = None /\ pinned \in [Requests -> Urls \cup {None}]
    BY <2>1 DEF PromiseInv, NoCookie, CallInv, TypeOK
  <2>3. ASSUME NEW r \in Requests, Arrive(r) \/ Step(r) PROVE pinned'[q] = None
    <3>1. CASE Arrive(r) \/ \E b \in Objects : Enter(r, b)
      BY <2>1, <2>2, <3>1 DEF Arrive, Enter, CookieAfter
    <3>2. CASE ~Arrive(r) /\ ~(\E b \in Objects : Enter(r, b))
      BY <2>2, <2>3, <3>2 DEF Step, reply, GiveUp, Snapshot, UseCookie, RunAlgorithm, NoPeer,
         Reply503, CheckEligible, CheckAlive, Examine, Refuse, Admit, Respond, AbortCopy,
         TransportError, TimerFires, BackoffCancelled, MarkDown, Switch, Record, Leave, Unwind
    <3>3. QED
      BY <3>1, <3>2
  <2>4. CASE Aside \/ (\E r \in Requests : Cancel(r)) \/ UNCHANGED vars
    BY <2>2, <2>4, AsideLeaves
  <2>5. QED
    BY <2>3, <2>4 DEF Next, Aside
<1>3. QED
  BY <1>1, <1>2 DEF PromiseInv

(* The URLs of the open calls are a sequence of the same length. *)
LEMMA UrlsOfFacts ==
  ASSUME CallInv, NEW r \in Requests
  PROVE  /\ UrlsOf(r) \in Seq(Urls) /\ Len(UrlsOf(r)) = Len(frames[r])
         /\ DOMAIN UrlsOf(r) = DOMAIN frames[r]
         /\ DOMAIN frames[r] = 1 .. Len(frames[r]) /\ Len(frames[r]) \in Nat
         /\ \A i \in DOMAIN frames[r] : UrlsOf(r)[i] = UrlOf[frames[r][i]]
         /\ frames[r] = <<>> => UrlsOf(r) = <<>>
<1>1. /\ frames[r] \in Seq(Objects) /\ Len(frames[r]) \in Nat
      /\ DOMAIN frames[r] = 1 .. Len(frames[r])
      /\ \A i \in DOMAIN frames[r] : frames[r][i] \in Objects
  BY DEF CallInv, TypeOK
<1>2. UrlsOf(r) \in [1 .. Len(frames[r]) -> Urls]
  BY <1>1, LoadBalancerAssumption DEF UrlsOf
<1>3. UrlsOf(r) \in Seq(Urls) /\ Len(UrlsOf(r)) = Len(frames[r])
  BY <1>1, <1>2
<1>4. frames[r] = <<>> => UrlsOf(r) = <<>>
  BY <1>3
<1>5. QED
  BY <1>1, <1>2, <1>3, <1>4 DEF UrlsOf

(* A request's step changes what is seen of that request only. *)
LEMMA SeenOf ==
  ASSUME CallInv, NEW r \in Requests, Arrive(r) \/ Step(r)
  PROVE  /\ Status'  = [Status EXCEPT ![r] = Status'[r]]
         /\ Tried'   = [Tried EXCEPT ![r] = Tried'[r]]
         /\ Session' = [Session EXCEPT ![r] = Session'[r]]
         /\ answer'  = [answer EXCEPT ![r] = answer'[r]]
<1>1. ASSUME NEW q \in Requests \ {r}
      PROVE  /\ Status'[q] = Status[q] /\ Tried'[q] = Tried[q]
             /\ Session'[q] = Session[q] /\ answer'[q] = answer[q]
  BY OthersWait DEF CallInv, Status, Tried, UrlsOf, Session, BetweenCalls, InCall
<1>2. answer \in [Requests -> Answers] /\ answer' \in [Requests -> Answers]
  <2>1. Next
    BY DEF Next
  <2>2. QED
    BY <2>1, CallInvNext DEF CallInv, TypeOK
<1>3. Status' = [Status EXCEPT ![r] = Status'[r]]
  <2>1. /\ Status \in [Requests -> {"choosing", "calling", "idle", "answered"}]
        /\ Status' \in [Requests -> {"choosing", "calling", "idle", "answered"}]
    BY DEF Status
  <2>2. QED
    BY <1>1, <2>1
<1>4. Tried' = [Tried EXCEPT ![r] = Tried'[r]]
  BY <1>1 DEF Tried
<1>5. Session' = [Session EXCEPT ![r] = Session'[r]]
  BY <1>1 DEF Session
<1>6. answer' = [answer EXCEPT ![r] = answer'[r]]
  BY <1>1, <1>2
<1>7. QED
  BY <1>3, <1>4, <1>5, <1>6

(* What is seen of a request at each label. *)
LEMMA SeenAt ==
  ASSUME NEW r \in Requests
  PROVE  /\ pc[r] \in Choosing \cup {"start", "down"} =>
                Status[r] = "choosing" /\ Tried[r] = UrlsOf(r) /\ Session[r] = None
         /\ pc[r] \in {"proxy", "failed"} =>
                Status[r] = "calling" /\ Tried[r] = UrlsOf(r) /\ Session[r] = None
         /\ pc[r] = "idle" =>
                Status[r] = "idle" /\ Tried[r] = <<>> /\ Session[r] = pinned[r]
         /\ pc[r] \in Leaving =>
                Status[r] = "answered" /\ Tried[r] = <<>> /\ Session[r] = pinned[r]
  BY DEF Status, Tried, Session, UrlsOf, BetweenCalls, InCall, Choosing, Leaving

LEMMA SeenThen ==
  ASSUME NEW r \in Requests
  PROVE  /\ pc'[r] \in Choosing \cup {"start", "down"} =>
                Status'[r] = "choosing" /\ Tried'[r] = UrlsOf(r)' /\ Session'[r] = None
         /\ pc'[r] \in {"proxy", "failed"} =>
                Status'[r] = "calling" /\ Tried'[r] = UrlsOf(r)' /\ Session'[r] = None
         /\ pc'[r] = "idle" =>
                Status'[r] = "idle" /\ Tried'[r] = <<>> /\ Session'[r] = pinned'[r]
         /\ pc'[r] \in Leaving =>
                Status'[r] = "answered" /\ Tried'[r] = <<>> /\ Session'[r] = pinned'[r]
  BY DEF Status, Tried, Session, UrlsOf, BetweenCalls, InCall, Choosing, Leaving

(* A step that shows nothing of its request is a stuttering step. *)
LEMMA Unseen ==
  ASSUME CallInv, NEW r \in Requests, Arrive(r) \/ Step(r), Down' = Down,
         Status'[r] = Status[r], Tried'[r] = Tried[r],
         Session'[r] = Session[r], answer'[r] = answer[r]
  PROVE  UNCHANGED Promise!vars
<1>1. /\ Status' = [Status EXCEPT ![r] = Status[r]]
      /\ Tried' = [Tried EXCEPT ![r] = Tried[r]]
      /\ Session' = [Session EXCEPT ![r] = Session[r]]
      /\ answer' = [answer EXCEPT ![r] = answer[r]]
  BY SeenOf
<1>2. Status' = Status
  BY <1>1 DEF Status
<1>3. Tried' = Tried
  BY <1>1 DEF Tried
<1>4. Session' = Session
  BY <1>1 DEF Session
<1>5. answer' = answer
  BY <1>1 DEF CallInv, TypeOK
<1>6. QED
  BY <1>2, <1>3, <1>4, <1>5 DEF Promise!vars

(* Selection, retries and reports show nothing. *)
LEMMA InnerSteps ==
  ASSUME CallInv, NEW r \in Requests,
         \/ Snapshot(r) \/ UseCookie(r) \/ RunAlgorithm(r)
         \/ \E b \in Objects : CheckEligible(r, b) \/ CheckAlive(r, b) \/ Admit(r, b)
         \/ TransportError(r) \/ TimerFires(r) \/ Switch(r) \/ Record(r)
  PROVE  UNCHANGED Promise!vars
<1> USE DEF Goto, CallInv, TypeOK, shared, reply
<1>1. Step(r)
  BY DEF Step
<1>2. UNCHANGED <<pool, alive, frames, pinned>> /\ answer'[r] = answer[r]
  <2>1. CASE ~Switch(r)
    BY <2>1 DEF Snapshot, UseCookie, RunAlgorithm, CheckEligible, CheckAlive, Examine, Admit,
                TransportError, TimerFires, Record
  <2>2. CASE Switch(r)
    BY <2>2 DEF Switch, Position, Sending
  <2>3. QED
    BY <2>1, <2>2
<1>3. \/ pc[r] \in Choosing \cup {"start", "down"} /\ pc'[r] \in Choosing \cup {"start", "down"}
      \/ pc[r] \in {"proxy", "failed"} /\ pc'[r] \in {"proxy", "failed"}
      \/ pc[r] \in Leaving /\ pc'[r] \in Leaving
  <2>1. CASE ~Switch(r)
    BY <2>1 DEF Snapshot, UseCookie, RunAlgorithm, Filtering, CheckEligible, CheckAlive,
                Examine, Admit, Selecting, TransportError, TimerFires, Record, Choosing, Leaving
  <2>2. CASE Switch(r)
    BY <2>2 DEF Switch, Position, Sending
  <2>3. QED
    BY <2>1, <2>2
<1>4. Down' = Down /\ UrlsOf(r)' = UrlsOf(r)
  BY <1>2 DEF Down, UrlsOf
<1>5. /\ Status'[r] = Status[r] /\ Tried'[r] = Tried[r] /\ Session'[r] = Session[r]
  BY <1>2, <1>3, <1>4, SeenAt, SeenThen
<1>6. QED
  BY <1>1, <1>2, <1>4, <1>5, Unseen

LEMMA ArriveBegins ==
  ASSUME CallInv, NEW r \in Requests, Arrive(r)
  PROVE  Promise!Begin(r)
<1>1. /\ pc[r] = "idle" /\ pc'[r] = "start" /\ UNCHANGED <<pool, alive, frames>>
      /\ answer'[r] = NoAnswer /\ frames[r] = <<>>
  BY DEF Arrive, Goto, shared, CallInv, TypeOK, Position
<1>2. /\ Status[r] = "idle" /\ Status'[r] = "choosing" /\ Tried[r] = <<>>
      /\ Tried'[r] = UrlsOf(r)' /\ Session'[r] = None
  BY <1>1, SeenAt, SeenThen
<1>3. UrlsOf(r)' = <<>>
  <2>1. UrlsOf(r)' = UrlsOf(r)
    BY <1>1 DEF UrlsOf
  <2>2. QED
    BY <1>1, <2>1, UrlsOfFacts
<1>4. Tried' = Tried
  <2>1. Tried' = [Tried EXCEPT ![r] = Tried[r]]
    BY <1>2, <1>3, SeenOf
  <2>2. QED
    BY <2>1 DEF Tried
<1>5. Down' = Down
  BY <1>1 DEF Down
<1>6. QED
  BY <1>1, <1>2, <1>4, <1>5, SeenOf DEF Promise!Begin, Promise!From, Promise!Unanswered, NoAnswer

(* While a call is open the last server tried is the one it is made to. *)
LEMMA LastTried ==
  ASSUME CallInv, NEW r \in Requests, pc[r] \in {"proxy", "failed"}
  PROVE  Promise!Last(r) = Url(r) /\ Url(r) \in Urls
<1>1. /\ Len(frames[r]) \in Nat \ {0} /\ Url(r) \in Urls
  BY TopFacts DEF Sending
<1>2. Tried[r] = UrlsOf(r)
  BY SeenAt
<1>3. /\ Len(UrlsOf(r)) = Len(frames[r]) /\ Len(frames[r]) \in DOMAIN frames[r]
      /\ UrlsOf(r)[Len(frames[r])] = UrlOf[frames[r][Len(frames[r])]]
  BY <1>1, UrlsOfFacts
<1>4. QED
  BY <1>1, <1>2, <1>3 DEF Promise!Last, Url, Top

LEMMA EnterTries ==
  ASSUME PromiseInv, NEW r \in Requests, NEW b \in Objects, Enter(r, b)
  PROVE  Promise!Try(r, UrlOf[b])
<1>1. /\ pc[r] = "enter" /\ pc'[r] = "proxy" /\ b \in pick[r].seen
      /\ frames'[r] = Append(frames[r], b) /\ frames[r] \in Seq(Objects)
      /\ UNCHANGED <<pool, alive, answer>> /\ (Arrive(r) \/ Step(r))
  BY DEF Enter, Step, Goto, PromiseInv, CallInv, TypeOK
<1>2. /\ Status[r] = "choosing" /\ Status'[r] = "calling" /\ Tried[r] = UrlsOf(r)
      /\ Tried'[r] = UrlsOf(r)' /\ Session[r] = None /\ Session'[r] = None
  BY <1>1, SeenAt, SeenThen DEF Choosing
<1>3. Len(frames[r]) < MaxBackendSwitches /\ Len(Tried[r]) = Len(frames[r])
  <2>1. Len(frames[r]) <= attempts[r] /\ attempts[r] < MaxBackendSwitches
    BY <1>1 DEF PromiseInv, CallInv, Position, Choosing
  <2>2. Len(Tried[r]) = Len(frames[r]) /\ Len(frames[r]) \in Nat
        /\ attempts[r] \in 0 .. MaxBackendSwitches
    BY <1>2, UrlsOfFacts DEF PromiseInv, CallInv, TypeOK
  <2>3. QED
    BY <2>1, <2>2, LoadBalancerAssumption
<1>4. \A i \in DOMAIN Tried[r] : Tried[r][i] # UrlOf[b]
  <2>1. /\ \A i \in DOMAIN frames[r] : frames[r][i] # b /\ frames[r][i] \in InitialPool
        /\ b \in InitialPool
    BY <1>1 DEF PromiseInv, ServiceInv, RotationInv, Rotates
  <2>2. QED
    BY <1>2, <2>1, LoadBalancerAssumption DEF UrlsOf
<1>5. Tried'[r] = Append(Tried[r], UrlOf[b])
  <2>1. UrlsOf(r)' = [i \in DOMAIN frames'[r] |-> UrlOf[frames'[r][i]]]
    BY DEF UrlsOf
  <2>2. QED
    BY <1>1, <1>2, <2>1, LoadBalancerAssumption DEF UrlsOf
<1>6. Session' = Session /\ Down' = Down
  <2>1. Session' = [Session EXCEPT ![r] = Session[r]]
    BY <1>1, <1>2, SeenOf DEF PromiseInv
  <2>2. QED
    BY <1>1, <2>1 DEF Session, Down
<1>7. QED
  BY <1>1, <1>2, <1>3, <1>4, <1>5, <1>6, SeenOf
     DEF PromiseInv, Promise!Try, Promise!From

LEMMA ReplyAnswers ==
  ASSUME PromiseInv, NEW r \in Requests, NEW ok \in BOOLEAN,
         Respond(r, ok) \/ (AbortCopy(r) /\ ok)
  PROVE  Promise!Answer(r, ok)
<1>1. /\ pc[r] = "proxy" /\ pc'[r] \in Leaving
      /\ answer' = [answer EXCEPT ![r] = [by |-> Url(r), ok |-> ok]]
      /\ UNCHANGED <<pool, alive, pinned>> /\ (ok \/ Url(r) \in Flaky)
      /\ (Arrive(r) \/ Step(r)) /\ CallInv
  BY DEF Respond, AbortCopy, Step, Goto, PromiseInv, CallInv, TypeOK, shared, Leaving
<1>2. /\ Status[r] = "calling" /\ Status'[r] = "answered"
      /\ Tried'[r] = <<>> /\ Session'[r] = pinned[r]
  BY <1>1, SeenAt, SeenThen
<1>3. Promise!Last(r) = Url(r)
  BY <1>1, LastTried
<1>4. pinned[r] = IF StickyEnabled THEN Url(r) ELSE None
  BY <1>1, LoadBalancerAssumption DEF PromiseInv, CookieInv, CookieFits, NoCookie
<1>5. Down' = Down
  BY <1>1 DEF Down
<1>6. QED
  BY <1>1, <1>2, <1>3, <1>4, <1>5, SeenOf DEF Promise!Answer, Promise!From, Promise!Close

LEMMA MarkDownFails ==
  ASSUME PromiseInv, NEW r \in Requests, MarkDown(r)
  PROVE  Promise!Fail(r)
<1>1. /\ pc[r] = "failed" /\ pc'[r] = "down" /\ UNCHANGED <<pool, frames, answer>>
      /\ (Arrive(r) \/ Step(r)) /\ CallInv
  BY DEF MarkDown, Step, Goto, PromiseInv, CallInv, TypeOK, reply
<1>2. /\ Status[r] = "calling" /\ Status'[r] = "choosing" /\ Tried[r] = UrlsOf(r)
      /\ Tried'[r] = UrlsOf(r)' /\ Session[r] = None /\ Session'[r] = None
  BY <1>1, SeenAt, SeenThen
<1>3. Promise!Last(r) = Url(r) /\ Len(frames[r]) \in DOMAIN frames[r]
  BY <1>1, LastTried, TopFacts DEF Sending
<1>4. Url(r) \in Flaky /\ Top(r) \in pool
  BY <1>1, <1>3 DEF PromiseInv, ServiceInv, RotationInv, Rotates, BlameInv, Blamed,
                    Undecided, Url, Top
<1>5. Down' = Down \cup {Url(r)}
  <2>1. /\ pool \subseteq Objects /\ pool' = pool
        /\ \A o \in pool : alive'[o] <=> alive[o] /\ UrlOf[o] # Url(r)
    BY <1>1 DEF MarkDown, MarkBackendStatus, CallInv, TypeOK
  <2>2. Down' = {UrlOf[o] : o \in {p \in pool : ~alive[p] \/ UrlOf[p] = Url(r)}}
    BY <2>1 DEF Down
  <2>3. \E o \in pool : UrlOf[o] = Url(r)
    BY <1>4 DEF Url
  <2>4. QED
    BY <2>2, <2>3 DEF Down
<1>6. Tried' = Tried /\ Session' = Session
  <2>1. UrlsOf(r)' = UrlsOf(r)
    BY <1>1 DEF UrlsOf
  <2>2. /\ Tried' = [Tried EXCEPT ![r] = Tried[r]]
        /\ Session' = [Session EXCEPT ![r] = Session[r]]
    BY <1>1, <1>2, <2>1, SeenOf
  <2>3. QED
    BY <2>2 DEF Tried, Session
<1>7. QED
  BY <1>1, <1>2, <1>3, <1>4, <1>5, <1>6, SeenOf DEF Promise!Fail, Promise!From

(* However it comes to it, the request ends with the balancer's own answer. *)
LEMMA NoneLeftBut ==
  ASSUME CallInv, NEW r \in Requests, Arrive(r) \/ Step(r),
         Status[r] = "choosing", Status'[r] \in {"idle", "answered"},
         Tried'[r] = <<>>, Session'[r] = pinned[r], answer'[r] = Unavailable,
         UNCHANGED <<pool, alive>>, Down = Urls \/ Len(Tried[r]) = MaxBackendSwitches
  PROVE  Promise!GiveUp(r)
<1>1. pinned[r] \in Urls \cup {None} /\ Down' = Down
  BY DEF CallInv, TypeOK, Down
<1>2. /\ Status' = [Status EXCEPT ![r] = "answered"] \/ Status' = [Status EXCEPT ![r] = "idle"]
      /\ Tried' = [Tried EXCEPT ![r] = <<>>]
      /\ Session' = [Session EXCEPT ![r] = pinned[r]]
      /\ answer' = [answer EXCEPT ![r] = Unavailable]
  BY SeenOf
<1>3. Session' \in {[Session EXCEPT ![r] = u] : u \in Urls \cup {None}}
  BY <1>1, <1>2
<1>4. QED
  BY <1>1, <1>2, <1>3 DEF Promise!GiveUp, Promise!From, Promise!Close, Promise!Unavailable,
                          Unavailable

LEMMA NoneLeft ==
  ASSUME EveryServerPooled, PromiseInv, NEW r \in Requests, GiveUp(r) \/ NoPeer(r)
  PROVE  Promise!GiveUp(r)
<1>1. /\ pc[r] \in Choosing \cup {"start"} /\ UNCHANGED <<pool, alive, pinned>>
      /\ pc'[r] = "idle" \/ pc'[r] = "return"
      /\ answer'[r] = Unavailable
      /\ (Arrive(r) \/ Step(r)) /\ CallInv
  BY DEF GiveUp, NoPeer, Selecting, Reply503, ReturnTo, Step, Goto, PromiseInv, CallInv,
         TypeOK, shared, Choosing
<1>2. /\ Status[r] = "choosing" /\ Status'[r] \in {"idle", "answered"}
      /\ Tried[r] = UrlsOf(r) /\ Tried'[r] = <<>> /\ Session'[r] = pinned[r]
  BY <1>1, SeenAt, SeenThen DEF Leaving
<1>3. CASE GiveUp(r)
  <2>1. Len(Tried[r]) = Len(frames[r])
    BY <1>1, <1>2, UrlsOfFacts
  <2>2. attempts[r] = Len(frames[r]) /\ attempts[r] \in 0 .. MaxBackendSwitches
    BY <1>1, <1>3 DEF GiveUp, PromiseInv, ServiceInv, Tracked, CallInv, TypeOK
  <2>3. Len(Tried[r]) = MaxBackendSwitches
    BY <1>3, <2>1, <2>2, LoadBalancerAssumption DEF GiveUp, Exhausted
  <2>4. QED
    BY <1>1, <1>2, <2>3, NoneLeftBut DEF PromiseInv
<1>4. CASE NoPeer(r)
  <2>1. \A o \in InitialPool : o \in pool /\ ~alive[o]
    BY <1>4 DEF NoPeer, Selecting, PromiseInv, ServiceInv, RotationInv, Tracked
  <2>2. Down = Urls
    BY <2>1, LoadBalancerAssumption DEF Down, EveryServerPooled, PromiseInv, ServiceInv, RotationInv
  <2>3. QED
    BY <1>1, <1>2, <2>2, NoneLeftBut DEF PromiseInv
<1>5. QED
  BY <1>3, <1>4

LEMMA CallEnds ==
  ASSUME CallInv, NEW r \in Requests, Leave(r) \/ Unwind(r)
  PROVE  Promise!End(r) \/ UNCHANGED Promise!vars
<1>1. /\ pc[r] \in Leaving /\ UNCHANGED <<pool, alive, pinned, answer>>
      /\ pc'[r] = "idle" \/ pc'[r] \in Leaving
      /\ Arrive(r) \/ Step(r)
  BY DEF Leave, Unwind, ReturnTo, Goto, Step, CallInv, TypeOK, reply, Leaving
<1>2. /\ Status[r] = "answered" /\ Tried[r] = <<>> /\ Tried'[r] = <<>>
      /\ Session[r] = pinned[r] /\ Session'[r] = pinned[r] /\ Down' = Down
  BY <1>1, SeenAt, SeenThen DEF Down
<1>3. CASE pc'[r] \in Leaving
  <2>1. Status'[r] = "answered"
    BY <1>3, SeenThen
  <2>2. QED
    BY <1>1, <1>2, <2>1, Unseen
<1>4. CASE pc'[r] = "idle"
  <2>1. Status'[r] = "idle"
    BY <1>4, SeenThen
  <2>2. /\ Tried' = [Tried EXCEPT ![r] = Tried[r]]
        /\ Session' = [Session EXCEPT ![r] = Session[r]]
        /\ Status' = [Status EXCEPT ![r] = "idle"]
    BY <1>1, <1>2, <2>1, SeenOf
  <2>3. Tried' = Tried /\ Session' = Session
    BY <2>2 DEF Tried, Session
  <2>4. QED
    BY <1>1, <1>2, <2>2, <2>3 DEF Promise!End, Promise!From
<1>5. QED
  BY <1>1, <1>3, <1>4

(* With no request's step nothing of any request is seen. *)
LEMMA AsideUnseen ==
  ASSUME NothingElseFails, Aside \/ (\E r \in Requests : Cancel(r)) \/ UNCHANGED vars
  PROVE  UNCHANGED Promise!vars
<1>1. UNCHANGED <<pc, frames, answer, pinned>>
  BY AsideLeaves
<1>2. UNCHANGED <<pool, alive>>
  BY DEF NothingElseFails, OnlyServersFail, ProxyAlone, Aside, AdminAdd, AdminRemove,
         HealthVerdict, BreakerTimeout, AdminSetAlive, Cancel, vars, shared
<1>3. QED
  BY <1>1, <1>2 DEF Promise!vars, Down, Status, Tried, UrlsOf, Session, BetweenCalls, InCall

LEMMA PromiseStep ==
  ASSUME NothingElseFails, EveryServerPooled, PromiseInv, [Next]_vars
  PROVE  [Promise!Next]_(Promise!vars)
<1>1. ASSUME NEW r \in Requests, Arrive(r) \/ Step(r)
      PROVE  Promise!Next \/ UNCHANGED Promise!vars
  <2>1. CASE Arrive(r)
    BY <2>1, ArriveBegins DEF PromiseInv, Promise!Next
  <2>2. CASE GiveUp(r) \/ NoPeer(r)
    BY <2>2, NoneLeft DEF Promise!Next
  <2>3. ASSUME NEW b \in Objects, Enter(r, b) PROVE Promise!Next
    BY <2>3, EnterTries, LoadBalancerAssumption DEF Promise!Next
  <2>4. ASSUME NEW ok \in BOOLEAN, Respond(r, ok) \/ (AbortCopy(r) /\ ok)
        PROVE  Promise!Next
    BY <2>4, ReplyAnswers DEF Promise!Next
  <2>5. CASE AbortCopy(r)
    BY <2>4, <2>5
  <2>6. CASE MarkDown(r)
    BY <2>6, MarkDownFails DEF Promise!Next
  <2>7. CASE Leave(r) \/ Unwind(r)
    BY <2>7, CallEnds DEF PromiseInv, Promise!Next
  <2>8. ~BackoffCancelled(r) /\ \A b \in Objects : ~Refuse(r, b)
    BY DEF BackoffCancelled, Refuse, NothingElseFails, PromiseInv, ServiceInv, BlameInv, Blamed
  <2>9. CASE \/ Snapshot(r) \/ UseCookie(r) \/ RunAlgorithm(r)
             \/ \E b \in Objects : CheckEligible(r, b) \/ CheckAlive(r, b) \/ Admit(r, b)
             \/ TransportError(r) \/ TimerFires(r) \/ Switch(r) \/ Record(r)
    BY <2>9, InnerSteps DEF PromiseInv
  <2>10. QED
    BY <1>1, <2>1, <2>2, <2>3, <2>4, <2>5, <2>6, <2>7, <2>8, <2>9 DEF Step
<1>2. CASE Aside \/ (\E r \in Requests : Cancel(r)) \/ UNCHANGED vars
  BY <1>2, AsideUnseen
<1>3. QED
  BY <1>1, <1>2 DEF Next, Aside

LEMMA PromiseInit == Init => PromiseInv /\ Promise!Init
<1>1. SUFFICES ASSUME Init PROVE PromiseInv /\ Promise!Init
  OBVIOUS
<1>2. CookieInv /\ NoCookie
  BY <1>1 DEF Init, CookieInv, CookieFits, NoAnswer, Unanswered, Choosing, Sending, NoCookie
<1>3. Down = {} /\ answer = [r \in Requests |-> Promise!Unanswered]
  BY <1>1, LoadBalancerAssumption DEF Init, Down, NoAnswer, Promise!Unanswered
<1>4. /\ Status = [r \in Requests |-> "idle"] /\ Tried = [r \in Requests |-> <<>>]
      /\ Session = [r \in Requests |-> None]
  BY <1>1 DEF Init, Status, Tried, Session, BetweenCalls, InCall
<1>5. QED
  BY <1>1, <1>2, <1>3, <1>4, CallInvInit, ServiceInit DEF PromiseInv, Promise!Init

(***************************************************************************)
(* The proxy, with its nested calls, retries, reports and races between    *)
(* requests over what is alive, implements the promise of Failover         *)
(* (proxy.go:91-250).                                                      *)
(***************************************************************************)
THEOREM ImplementsPromise ==
  ASSUME NothingElseFails, EveryServerPooled
  PROVE  Spec => KeepsPromise
<1>1. PromiseInv /\ [Next]_vars => PromiseInv' /\ [Promise!Next]_(Promise!vars)
  BY PromiseNextInv, PromiseStep
<1>2. QED
  BY <1>1, PromiseInit, PTL DEF Spec, KeepsPromise, Promise!Spec
=============================================================================
