------------------------------ MODULE Failover ------------------------------
(***************************************************************************)
(* What the load balancer promises of one request, as a client and the     *)
(* servers see it: it is sent to one server after another, each of which   *)
(* failed before the next one was tried, never twice to the same and never *)
(* to more than MaxBackendSwitches; the response is that of the last one,  *)
(* with a cookie for that one, or the balancer's own 503 when there was    *)
(* nothing left to try; and a server goes out of rotation only when it     *)
(* failed a request.                                                       *)
(*                                                                         *)
(* There is no selection, no retry, no nesting of calls and no accounting  *)
(* here: LoadBalancer has them and implements this, as long as nobody else *)
(* takes servers in or out of rotation.                                    *)
(***************************************************************************)
EXTENDS FiniteSets, Sequences, Naturals

CONSTANTS
    Requests,
    Urls,               \* the servers
    None,               \* no server
    MaxBackendSwitches,
    Flaky,              \* the servers that may fail
    Sticky              \* responses carry a cookie

VARIABLES
    down,   \* the servers out of rotation
    status, \* what the balancer does with each request
    tried,  \* the servers it has sent the request to, in this order
    answer, \* the response: the server it comes from, and whether it is good
    session \* the server that the cookie of the response names

vars == <<down, status, tried, answer, session>>

Unanswered  == [by |-> None, ok |-> TRUE]
Unavailable == [by |-> None, ok |-> FALSE]

Init == /\ down = {}
        /\ status = [r \in Requests |-> "idle"]
        /\ tried = [r \in Requests |-> <<>>]
        /\ answer = [r \in Requests |-> Unanswered]
        /\ session = [r \in Requests |-> None]

Last(r) == tried[r][Len(tried[r])]

From(r, before, after) == /\ status[r] = before
                          /\ status' = [status EXCEPT ![r] = after]

Begin(r) ==
    /\ From(r, "idle", "choosing")
    /\ answer' = [answer EXCEPT ![r] = Unanswered]
    /\ session' = [session EXCEPT ![r] = None]
    /\ UNCHANGED <<down, tried>>

\* The request goes to a server that has not had it.
Try(r, u) ==
    /\ From(r, "choosing", "calling")
    /\ Len(tried[r]) < MaxBackendSwitches
    /\ \A i \in DOMAIN tried[r] : tried[r][i] # u
    /\ tried' = [tried EXCEPT ![r] = Append(@, u)]
    /\ UNCHANGED <<down, answer, session>>

\* It fails there, and the server goes out of rotation.
Fail(r) ==
    /\ From(r, "calling", "choosing")
    /\ Last(r) \in Flaky
    /\ down' = down \cup {Last(r)}
    /\ UNCHANGED <<tried, answer, session>>

Close(r, response) ==
    /\ answer' = [answer EXCEPT ![r] = response]
    /\ tried' = [tried EXCEPT ![r] = <<>>]
    /\ UNCHANGED down

Answer(r, ok) ==
    /\ From(r, "calling", "answered")
    /\ ok \/ Last(r) \in Flaky
    /\ session' = [session EXCEPT ![r] = IF Sticky THEN Last(r) ELSE None]
    /\ Close(r, [by |-> Last(r), ok |-> ok])

\* Only when every server is out of rotation, or as many as may be tried
\* were.  Nothing is promised of the cookie of a 503.
GiveUp(r) ==
    /\ \/ status[r] = "choosing" /\ status' = [status EXCEPT ![r] = "answered"]
       \/ From(r, "choosing", "idle")
    /\ down = Urls \/ Len(tried[r]) = MaxBackendSwitches
    /\ session' \in {[session EXCEPT ![r] = u] : u \in Urls \cup {None}}
    /\ Close(r, Unavailable)

\* The handler returns: nothing is added to the response.
End(r) ==
    /\ From(r, "answered", "idle")
    /\ UNCHANGED <<down, tried, answer, session>>

Next == \E r \in Requests : \/ Begin(r) \/ Fail(r) \/ GiveUp(r) \/ End(r)
                            \/ \E u \in Urls : Try(r, u)
                            \/ \E ok \in BOOLEAN : Answer(r, ok)

Spec == Init /\ [][Next]_vars
=============================================================================
