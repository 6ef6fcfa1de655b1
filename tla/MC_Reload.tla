----------------------------- MODULE MC_Reload -----------------------------
(* Instances of Reload: two backends, one that cannot be used, and another *)
(* way to write the URL of the first.                                      *)
EXTENDS Reload, TLC

CONSTANTS a, b, A, bad

\* One backend; another one in its place; both, with other weights and
\* checks; what LoadFile, main and Apply reject; and a breaker with a
\* threshold that is only refused when a flag enables it.
Weighing(weights) == "pool.backends" :> weights

OnlyA    == Weighing(a :> 1)
OnlyB    == Weighing(b :> 0) @@ "pool.algorithm" :> "least_connections"
            @@ "health_check.interval" :> 5 @@ "admin.port" :> 0
            @@ "metrics.port" :> 9100
Both     == Weighing(a :> 2 @@ b :> 1) @@ "pool.algorithm" :> ""
            @@ "health_check.interval" :> 0
            @@ "health_check.unhealthy_threshold" :> -1
            @@ "circuit_breaker.failure_threshold" :> 0
Rejected == {OnlyA @@ "health_check.timeout" :> Garbled, Weighing(<<>>),
             OnlyA @@ "pool.algorithm" :> "magic", Weighing(a :> 1 @@ bad :> 1)}

SomeFiles == {OnlyA, OnlyB, Both} \cup Rejected

\* With and without a file; flags that replace the backends, that make the
\* file invalid, that are invalid themselves.
SomeStarts == {
    <<OnlyA, "circuit_breaker.enabled" :> TRUE>>,
    <<Both, "admin.port" :> 9091 @@ "metrics.port" :> 9100
            @@ "health_check.timeout" :> 0>>,
    <<Both, "circuit_breaker.enabled" :> TRUE>>,
    <<OnlyB, "pool.backends" :> {a} @@ "tls.min_version" :> " 1.3">>,
    <<OnlyB, "metrics.port" :> 0>>,
    <<OnlyB, "health_check.interval" :> Garbled>>,
    <<OnlyB, "tls.enabled" :> TRUE>>,
    <<OnlyB, "sticky_sessions.enabled" :> TRUE @@ "sticky_sessions.cookie_name" :> " ">>,
    <<OnlyB, "rate_limit.enabled" :> TRUE @@ "rate_limit.burst" :> 0>>,
    <<OnlyB, "tls.min_version" :> "1.1">>, <<OnlyB, "no.such" :> 1>>,
    <<Weighing(a :> 1 @@ bad :> 1), <<>>>>,
    <<NoFile, "pool.backends" :> {a, b} @@ "health_check.path" :> "">>,
    <<NoFile, <<>>>>}

\* The same backend in another spelling.
Respelled  == {OnlyA, Weighing(A :> 1), OnlyB, Unreadable}
StartOnA   == {<<OnlyA, <<>>>>}
Spellings  == [raw \in Raws |-> IF raw = A THEN a ELSE raw]
=============================================================================
