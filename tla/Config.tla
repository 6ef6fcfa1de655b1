------------------------------- MODULE Config -------------------------------
(***************************************************************************)
(* The configuration: how Load of internal/config makes one out of the     *)
(* defaults, the file and the flags, and what main requires of it before   *)
(* it starts anything.                                                     *)
(*                                                                         *)
(* A configuration is a function from settings, by their names in the      *)
(* file, to values; pool.backends is a function from URLs as written to    *)
(* weights.  A file and a command line are functions from the settings     *)
(* they name.  Durations are in seconds.                                   *)
(***************************************************************************)
EXTENDS Integers

CONSTANTS
    Unreadable, \* a file that cannot be read or is not YAML of this form
    NoFile,     \* no --config was given
    Garbled,    \* what does not parse as the value of a setting
    Invalid,    \* Load returns an error
    BadRaws,    \* URLs that do not parse or have a wrong scheme or no host
    Accessible  \* the paths that os.Stat finds

-----------------------------------------------------------------------------
\* What fileConfig declares as string or int: "" and 0 read as absent.  The
\* others are pointers, for which they are values.  (A duration of "0s" is
\* one too; the empty string is left out of the files modelled.)
Texts   == {"pool.algorithm", "health_check.path", "tls.cert_file",
            "tls.key_file", "tls.min_version", "sticky_sessions.cookie_name"}
Numbers == {"server.port", "health_check.unhealthy_threshold",
            "health_check.healthy_threshold"}
Durations == {"health_check.interval", "health_check.timeout",
              "circuit_breaker.timeout", "sticky_sessions.ttl"}
Pointers == {"admin.port", "metrics.port", "rate_limit.requests_per_second",
             "rate_limit.burst", "circuit_breaker.failure_threshold",
             "circuit_breaker.success_threshold"}
Switches == {"rate_limit.enabled", "rate_limit.per_ip", "metrics.enabled",
             "circuit_breaker.enabled", "tls.enabled", "sticky_sessions.enabled"}

Settings == Texts \cup Numbers \cup Durations \cup Pointers \cup Switches
            \cup {"pool.backends"}

Defaults ==
    [s \in Settings |->
        CASE s \in Switches -> s \in {"rate_limit.per_ip", "metrics.enabled"}
          [] s \in {"tls.cert_file", "tls.key_file"} -> ""
          [] s = "pool.backends" -> <<>>
          [] s = "pool.algorithm" -> "round_robin"
          [] s = "server.port" -> 3030
          [] s = "admin.port" -> 9090
          [] s = "metrics.port" -> 0
          [] s = "health_check.path" -> "/health"
          [] s = "health_check.interval" -> 10
          [] s = "health_check.timeout" -> 2
          [] s = "health_check.unhealthy_threshold" -> 3
          [] s = "health_check.healthy_threshold" -> 2
          [] s = "rate_limit.requests_per_second" -> 1000
          [] s = "rate_limit.burst" -> 200
          [] s = "circuit_breaker.failure_threshold" -> 5
          [] s = "circuit_breaker.success_threshold" -> 2
          [] s = "circuit_breaker.timeout" -> 30
          [] s = "tls.min_version" -> "1.2"
          [] s = "sticky_sessions.cookie_name" -> "golb_backend"
          [] s = "sticky_sessions.ttl" -> 3600]

Absent(s, v) == \/ s \in Texts /\ v = ""
                \/ s \in Numbers /\ v = 0
                \/ s = "pool.backends" /\ DOMAIN v = {}

\* strings.TrimSpace.
TrimSpace(v) == CASE v = " " -> "" [] v = " 1.3" -> "1.3" [] OTHER -> v

AtLeastOne(n) == IF n < 1 THEN 1 ELSE n

FromFile(s, v) ==
    CASE s = "pool.backends"   -> [raw \in DOMAIN v |-> AtLeastOne(v[raw])]
      [] s = "tls.min_version" -> TrimSpace(v)
      [] OTHER                 -> v

applyFileConfig(cfg, fc) ==
    [s \in Settings |-> IF s \in DOMAIN fc /\ ~Absent(s, fc[s])
                        THEN FromFile(s, fc[s]) ELSE cfg[s]]

\* It returns no error.
FileParses(fc) ==
    /\ \A s \in Durations \cap DOMAIN fc : fc[s] # Garbled
    /\ "tls.min_version" \in DOMAIN fc =>
           \/ Absent("tls.min_version", fc["tls.min_version"])
           \/ TrimSpace(fc["tls.min_version"]) \in {"1.2", "1.3"}

\* The thresholds of the health checker have no flag.
Flags == Settings \ {"health_check.unhealthy_threshold",
                     "health_check.healthy_threshold"}

\* The flag for the backends has no weights.
FromFlag(s, v) ==
    CASE s = "pool.backends"   -> [raw \in v |-> 1]
      [] s = "tls.min_version" -> TrimSpace(v)
      [] OTHER                 -> v

\* fs.Visit: only what is on the command line, whatever its value.
applyCLI(cfg, args) ==
    [s \in Settings |-> IF s \in DOMAIN args THEN FromFlag(s, args[s])
                                             ELSE cfg[s]]

ArgsParse(args) == /\ DOMAIN args \subseteq Flags
                   /\ \A s \in DOMAIN args : args[s] # Garbled

BreakerUsable(c) ==
    c["circuit_breaker.enabled"] =>
        /\ c["circuit_breaker.failure_threshold"] > 0
        /\ c["circuit_breaker.success_threshold"] > 0
        /\ c["circuit_breaker.timeout"] > 0

\* Mutant of Merged: the file is checked before the flags are known.
MergedUnchecked(fc, args) ==
    LET early == applyFileConfig(Defaults, fc)
    IN  IF BreakerUsable(early) THEN applyCLI(early, args) ELSE Invalid

Merged(fc, args) ==
    LET c == applyCLI(applyFileConfig(Defaults, fc), args)
    IN  IF BreakerUsable(c) THEN c ELSE Invalid

Load(path, args) ==
    LET fc == IF path = NoFile THEN <<>> ELSE path
    IN  IF /\ path # Unreadable
           /\ FileParses(fc)
           /\ ArgsParse(args)
           /\ "tls.min_version" \in DOMAIN args =>
                  TrimSpace(args["tls.min_version"]) \in {"", "1.2", "1.3"}
        THEN Merged(fc, args) ELSE Invalid

LoadFile(path) == Load(path, <<>>)

-----------------------------------------------------------------------------
Named(c) == DOMAIN c["pool.backends"]

Algorithms == {"round_robin", "least_connections", "weighted_round_robin"}

\* algo.New returns no error.  Mutant: it takes every name.
AnyName(name) == TRUE
Known(name) == name \in Algorithms

\* What main would end the process for, in the order of the code: the first
\* settings, the URLs, no place for /metrics, and what ratelimit.New refuses.
Consistent(c) ==
    /\ Named(c) # {}
    /\ c["tls.enabled"] => {c["tls.cert_file"], c["tls.key_file"]} \subseteq Accessible
    /\ c["sticky_sessions.enabled"] =>
           /\ TrimSpace(c["sticky_sessions.cookie_name"]) # ""
           /\ c["sticky_sessions.ttl"] > 0
    /\ Known(c["pool.algorithm"])

Proxyable(c) == Named(c) \cap BadRaws = {}

Observable(c) ==
    c["metrics.enabled"] => c["metrics.port"] # 0 \/ c["admin.port"] # 0

Limitable(c) == c["rate_limit.enabled"] => /\ c["rate_limit.requests_per_second"] > 0
                                           /\ c["rate_limit.burst"] >= 1

Startable(c) == /\ c # Invalid
                /\ Consistent(c) /\ Proxyable(c) /\ Observable(c) /\ Limitable(c)
=============================================================================
