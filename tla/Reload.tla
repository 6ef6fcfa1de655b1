------------------------------ MODULE Reload ------------------------------
(***************************************************************************)
(* Hot reload: the goroutine of cmd/golb that waits for signals, and       *)
(* ComputeDiff and Applier.Apply of internal/reload.  A reload applies the *)
(* difference between two configurations to the pool one call at a time,   *)
(* while the admin API changes the same pool and the operator writes the   *)
(* next file and signals again.  SIGTERM (or SIGINT) ends the loop; what   *)
(* happens then is in Process.                                             *)
(***************************************************************************)
EXTENDS Config, FiniteSets, Sequences

CONSTANTS
    Raws,    \* what a file may have as the URL of a backend
    Canon,   \* external, url.Parse(raw).String(): from Raws to Raws
    Files,   \* contents of the file, and Unreadable
    Starts,  \* <<path, args>> of command lines
    AdminWeights  \* the weights that requests to the admin API name

\* The values that YAML and the flag package leave: numbers, URLs, and in a
\* file also durations that do not parse.
FileTyped(f) ==
    \A s \in DOMAIN f :
        /\ s \in Numbers => f[s] \in Int
        /\ s \in Durations => f[s] = Garbled \/ f[s] \in Int
        /\ s = "pool.backends" => /\ DOMAIN f[s] \subseteq Raws
                                  /\ \A raw \in DOMAIN f[s] : f[s][raw] \in Int
ArgsTyped(args) ==
    \A s \in DOMAIN args :
        /\ s \in Numbers \cup Durations => args[s] = Garbled \/ args[s] \in Int
        /\ s = "pool.backends" => args[s] \subseteq Raws

ASSUME ReloadAssumption ==
    /\ Canon \in [Raws -> Raws]
    /\ \A raw \in Raws : Canon[Canon[raw]] = Canon[raw]
    /\ BadRaws \subseteq Raws
    /\ \A raw \in Raws \ BadRaws : Canon[raw] \notin BadRaws
    /\ \A f \in Files \ {Unreadable} : FileTyped(f)
    /\ \A start \in Starts : ArgsTyped(start[2])
    /\ AdminWeights \subseteq Int
    /\ \A start \in Starts : start[1] \in Files \cup {NoFile}
    /\ \E start \in Starts : Startable(Load(start[1], start[2]))

VARIABLES
    file,       \* what the config file holds, or NoFile
    quit,       \* the channel of signals: one that waits, or none
    stage,      \* where the goroutine is
    currentCfg, \* its variable of that name
    newCfg,     \* what it loaded
    todo,       \* the raw URLs the current loop of Apply has left
    byURL,      \* Apply's snapshot: the URLs of structs still in the pool
    pool,       \* ServerPool.backends: weights of the structs, by URL
    up,         \* the labels whose gauge golb_backend_up reads 1
    algorithm,  \* LoadBalancer.algo
    health,     \* the configured fields of the HealthChecker
    admin,      \* history: what the admin API did to a URL since a reload did
    asked       \* history: SIGHUP was sent since the file was last written

running == <<pool, up, algorithm, health, admin>>
outside == <<file, asked>>
vars    == <<outside, quit, stage, currentCfg, newCfg, todo, byURL, running>>

-----------------------------------------------------------------------------
URLs      == {Canon[raw] : raw \in Raws}
Pooled    == DOMAIN pool
Weights(c) == c["pool.backends"]

\* Map with key u bound to w, and map without u.
With(f, u, w) == [x \in DOMAIN f \cup {u} |-> IF x = u THEN w ELSE f[x]]
Without(f, u) == [x \in DOMAIN f \ {u} |-> f[x]]

\* ComputeDiff: by URL as written.  Mutant: weights are not compared.
Added(old, new)   == Named(new) \ Named(old)
Removed(old, new) == Named(old) \ Named(new)
NoChanges(old, new) == {}
Changed(old, new) == {raw \in Named(old) \cap Named(new) :
                          Weights(old)[raw] # Weights(new)[raw]}

Periods == {"health_check.interval", "health_check.timeout"}
HealthSettings == Periods \cup {"health_check.path",
    "health_check.unhealthy_threshold", "health_check.healthy_threshold"}
HealthOf(c) == [s \in HealthSettings |-> c[s]]

\* UpdateConfig keeps a period that would stop the ticker or the client, and
\* raises thresholds.
Updated(h, c) ==
    [s \in HealthSettings |-> IF s \in Numbers THEN AtLeastOne(c[s])
                              ELSE IF s \in Periods /\ c[s] <= 0 THEN h[s]
                              ELSE c[s]]

\* A period that is not positive becomes the default.
NewHealthChecker(c) ==
    [s \in HealthSettings |-> IF s \in Numbers THEN AtLeastOne(c[s])
                              ELSE IF s \in Periods /\ c[s] <= 0 THEN Defaults[s]
                              ELSE c[s]]

\* What main checks of a file before it is compared.
Loadable(c) == /\ c # Invalid
               /\ Named(c) # {}
               /\ Known(c["pool.algorithm"])

\* Pre-validation of Apply.
Valid(old, new) == /\ Added(old, new) \cap BadRaws = {}
                   /\ new["pool.algorithm"] # old["pool.algorithm"] =>
                          Known(new["pool.algorithm"])

Acceptable(c) == Loadable(c) /\ Valid(currentCfg, c)

\* The mutation phase of Apply.  Mutant: backends are removed first.
StagesSwapped == <<"remove", "add", "read", "weigh", "finish">>
Stages == <<"add", "remove", "read", "weigh", "finish">>
Following(s) == CHOOSE t \in {"add", "remove", "read", "weigh", "finish"} :
                    \E j \in 1 .. 4 : Stages[j] = s /\ Stages[j + 1] = t

Todo(s, new) == CASE s = "add"    -> Added(currentCfg, new)
                  [] s = "remove" -> Removed(currentCfg, new)
                  [] s = "weigh"  -> Changed(currentCfg, new)
                  [] OTHER        -> {}

-----------------------------------------------------------------------------
Loaded == {Load(start[1], start[2]) : start \in Starts}
          \cup {LoadFile(f) : f \in Files}

TypeOK ==
    /\ file \in Files \cup {NoFile}
    /\ {currentCfg, newCfg} \subseteq Loaded \ {Invalid}
    /\ quit \in {<<>>, <<"SIGHUP">>, <<"SIGTERM">>}
    /\ stage \in {"wait", "load", "add", "remove", "read", "weigh", "finish",
                  "shutdown"}
    /\ todo \subseteq Raws
    /\ byURL \subseteq Pooled
    /\ Pooled \subseteq URLs /\ \A u \in Pooled : pool[u] \in Nat \ {0}
    /\ up \subseteq Raws
    /\ algorithm \in Algorithms
    /\ DOMAIN health = HealthSettings
    /\ admin \in [URLs -> {"nothing", "added", "removed"}]
    /\ asked \in BOOLEAN

\* main up to where it serves.  Of two spellings of a URL the first is added.
Init ==
    /\ \E start \in Starts :
           /\ file = start[1]
           /\ currentCfg = Load(start[1], start[2])
    /\ Startable(currentCfg)
    /\ quit = <<>>
    /\ stage = "wait"
    /\ newCfg = currentCfg
    /\ todo = {}
    /\ byURL = {}
    /\ pool = [u \in {Canon[raw] : raw \in Named(currentCfg)} |->
                   Weights(currentCfg)[CHOOSE raw \in Named(currentCfg) :
                                           Canon[raw] = u]]
    /\ up = Pooled
    /\ algorithm = currentCfg["pool.algorithm"]
    /\ health = NewHealthChecker(currentCfg)
    /\ admin = [u \in URLs |-> "nothing"]
    /\ asked = FALSE

-----------------------------------------------------------------------------
WriteFile ==
    /\ file # NoFile
    /\ file' \in Files \ {file}
    /\ asked' = FALSE
    /\ UNCHANGED <<quit, stage, currentCfg, newCfg, todo, byURL, running>>

\* signal.Notify drops a signal when the channel has no room for it.
\* Mutant: a channel without a buffer, which needs its receiver to wait.
HasReceiver == stage = "wait"
HasRoom     == quit = <<>>
Deliver(signals) == IF HasRoom THEN signals ELSE quit

SendHUP ==
    /\ quit' = Deliver(<<"SIGHUP">>)
    /\ asked' = TRUE
    /\ UNCHANGED <<file, stage, currentCfg, newCfg, todo, byURL, running>>

SendTERM ==
    /\ quit' = Deliver(<<"SIGTERM">>)
    /\ UNCHANGED <<outside, stage, currentCfg, newCfg, todo, byURL, running>>

\* Without a path SIGHUP is ignored; anything but SIGHUP breaks the loop.
AfterSignal(sig) == IF sig = "SIGTERM" THEN "shutdown"
                    ELSE IF file = NoFile THEN "wait" ELSE "load"

Receive ==
    /\ stage = "wait"
    /\ quit # <<>>
    /\ quit' = <<>>
    /\ stage' = AfterSignal(quit[1])
    /\ UNCHANGED <<outside, currentCfg, newCfg, todo, byURL, running>>

\* What a rejected file leaves behind.  Mutant: it becomes the current one.
AdoptRejected(c) == IF Loadable(c) THEN c ELSE currentCfg
AfterRejection(c) == currentCfg

\* LoadFile, main's checks, ComputeDiff and the pre-validation.
Reread ==
    LET c == LoadFile(file)
    IN  /\ stage = "load"
        /\ \/ /\ Acceptable(c)
              /\ newCfg' = c
              /\ stage' = Stages[1]
              /\ todo' = Todo(Stages[1], c)
              /\ UNCHANGED currentCfg
           \/ /\ ~Acceptable(c)
              /\ currentCfg' = AfterRejection(c)
              /\ stage' = "wait"
              /\ UNCHANGED <<newCfg, todo>>
        /\ UNCHANGED <<outside, quit, byURL, running>>

-----------------------------------------------------------------------------
\* Apply takes one more element of its current loop.
Take(s, raw) ==
    /\ stage = s
    /\ raw \in todo
    /\ todo' = todo \ {raw}
    /\ UNCHANGED <<outside, quit, stage, currentCfg, newCfg, algorithm, health>>

\* AddBackend does nothing when the URL is there; the gauge is set anyway.
AddBackend(raw) ==
    LET u == Canon[raw]
    IN  /\ Take("add", raw)
        /\ \/ /\ u \in Pooled
              /\ UNCHANGED <<pool, admin>>
           \/ /\ u \notin Pooled
              /\ pool' = With(pool, u, Weights(newCfg)[raw])
              /\ admin' = [admin EXCEPT ![u] = "nothing"]
        /\ up' = up \cup {raw}
        /\ UNCHANGED byURL

\* Remove compares the URL as written with the canonical ones.
Remove(raw) ==
    /\ Take("remove", raw)
    /\ pool' = Without(pool, raw)
    /\ admin' = IF raw \in URLs THEN [admin EXCEPT ![raw] = "nothing"] ELSE admin
    /\ up' = up \ {raw}
    /\ UNCHANGED byURL

SetWeight(raw) ==
    /\ Take("weigh", raw)
    /\ pool' = IF raw \in byURL THEN With(pool, raw, Weights(newCfg)[raw]) ELSE pool
    /\ UNCHANGED <<byURL, up, admin>>

\* The current loop is at its end; between two of them the pool is read.
Advance ==
    /\ stage \in {"add", "remove", "read", "weigh"}
    /\ todo = {}
    /\ stage' = Following(stage)
    /\ todo' = Todo(stage', newCfg)
    /\ byURL' = CASE stage = "read" /\ Changed(currentCfg, newCfg) # {} -> Pooled
                  [] stage = "weigh" -> {}
                  [] OTHER -> byURL
    /\ UNCHANGED <<outside, quit, currentCfg, newCfg, running>>

\* SetAlgorithm and UpdateConfig if they changed; the reload is complete.
Finish ==
    /\ stage = "finish"
    /\ algorithm' = IF newCfg["pool.algorithm"] # currentCfg["pool.algorithm"]
                    THEN newCfg["pool.algorithm"] ELSE algorithm
    /\ health' = IF HealthOf(newCfg) # HealthOf(currentCfg)
                 THEN Updated(health, newCfg) ELSE health
    /\ currentCfg' = newCfg
    /\ stage' = "wait"
    /\ UNCHANGED <<outside, quit, newCfg, todo, byURL, pool, up, admin>>

-----------------------------------------------------------------------------
\* addBackend and removeBackend of the admin API.  A weight set later on a
\* struct that left the pool is seen by nobody, so `byURL' forgets it.
AdminAdd(u, weight) ==
    /\ u \notin Pooled
    /\ pool' = With(pool, u, AtLeastOne(weight))
    /\ admin' = [admin EXCEPT ![u] = "added"]
    /\ UNCHANGED <<outside, quit, stage, currentCfg, newCfg, todo, byURL,
                   up, algorithm, health>>

AdminRemove(u) ==
    /\ u \in Pooled
    /\ pool' = Without(pool, u)
    /\ byURL' = byURL \ {u}
    /\ admin' = [admin EXCEPT ![u] = "removed"]
    /\ UNCHANGED <<outside, quit, stage, currentCfg, newCfg, todo,
                   up, algorithm, health>>

Goroutine == \/ Receive \/ Reread \/ Advance \/ Finish
             \/ \E raw \in Raws : AddBackend(raw) \/ Remove(raw) \/ SetWeight(raw)

Admin == \E u \in URLs \ BadRaws :
            AdminRemove(u) \/ \E weight \in AdminWeights : AdminAdd(u, weight)

Operator == WriteFile \/ SendHUP \/ SendTERM

Next == Goroutine \/ Admin \/ Operator

Spec == Init /\ [][Next]_vars

-----------------------------------------------------------------------------
Wanted(u) == \E raw \in Named(currentCfg) : Canon[raw] = u

(***************************************************************************)
(* A reload amounts to a restart with the new file (main.go:307-312,       *)
(* reload.go:146-186): between two reloads pool, weights, algorithm and    *)
(* health checker are what main would have made of the last accepted file, *)
(* also when rejected files, flags of the first start or admin calls in    *)
(* the middle of a reload came before.  The exceptions are the backends    *)
(* that the admin API was the last to touch, and periods that are not      *)
(* positive, which a reload leaves as they are (health.go:148-151).        *)
(***************************************************************************)
ReloadIsRestart ==
    stage = "wait" =>
        /\ \A u \in URLs : u \in Pooled <=>
              \/ admin[u] = "added"
              \/ admin[u] = "nothing" /\ Wanted(u)
        /\ \A u \in URLs : admin[u] = "nothing" => (u \in Pooled <=> u \in up)
        /\ algorithm = currentCfg["pool.algorithm"]
        /\ \A s \in HealthSettings :
              \/ health[s] = NewHealthChecker(currentCfg)[s]
              \/ s \in Periods /\ currentCfg[s] <= 0

(***************************************************************************)
(* So do the weights of the backends that came from the file: no weight is *)
(* lost and none is set on the wrong struct (reload.go:163-174).           *)
(***************************************************************************)
WeightsFollowFile ==
    stage = "wait" =>
        \A raw \in Named(currentCfg) :
            Canon[raw] \in Pooled /\ admin[Canon[raw]] = "nothing" =>
                pool[Canon[raw]] = Weights(currentCfg)[raw]

(***************************************************************************)
(* A reload that replaces every backend still has one in the pool at every *)
(* moment: new ones are added before old ones are removed                  *)
(* (reload.go:145-160), and a file without backends is refused             *)
(* (main.go:299).  Only the admin API can empty the pool.                  *)
(***************************************************************************)
NeverEmpty == (\A u \in URLs : admin[u] # "removed") => Pooled # {}

(***************************************************************************)
(* No way in, by flags over a file, by a file alone or by a reload, leads  *)
(* to parameters that the parts cannot run with: a breaker that is enabled *)
(* has positive thresholds and timeout (config.go:200-210, checked of the  *)
(* merged settings), NewTicker is never given a period that makes it panic *)
(* and a verdict needs at least one result (health.go:45-69, 148-160), and *)
(* every backend in the pool has a URL that can be proxied to.             *)
(***************************************************************************)
ParametersUsable ==
    /\ BreakerUsable(currentCfg)
    /\ \A s \in HealthSettings \cap (Periods \cup Numbers) : health[s] > 0
    /\ Pooled \cap BadRaws = {}

(***************************************************************************)
(* A SIGHUP after the last change of a file that can be loaded is enough,  *)
(* although signals are dropped while another waits (main.go:285): the     *)
(* goroutine reads the file after it takes the signal.  Only SIGTERM ends  *)
(* that.                                                                   *)
(***************************************************************************)
LatestFileLoaded ==
    asked ~> (~asked \/ currentCfg = LoadFile(file)
              \/ ~Acceptable(LoadFile(file))
              \/ stage = "shutdown")

(***************************************************************************)
(* "the reload path where the file is the source of truth" (config.go:450) *)
(* without an admin: every backend that the accepted file names is in the  *)
(* pool afterwards.                                                        *)
(***************************************************************************)
FileIsTruth ==
    stage = "wait" /\ (\A u \in URLs : admin[u] = "nothing") =>
        \A raw \in Named(currentCfg) : Canon[raw] \in Pooled
=============================================================================
