--------------------------- MODULE ProcessProofs ---------------------------
(***************************************************************************)
(* Proofs about Reload and Process: what a configuration that was loaded   *)
(* is good for, that a reload amounts to a restart and never empties the   *)
(* pool, and that nothing is reconfigured while the main server drains.    *)
(***************************************************************************)
EXTENDS Process, TLAPS

(***************************************************************************)
(* The configuration.                                                      *)
(***************************************************************************)

\* What the parts of the program rely on in a configuration.
IsConfig(c) == /\ Named(c) \subseteq Raws
               /\ \A raw \in Named(c) : Weights(c)[raw] \in Nat \ {0}
               /\ \A s \in Periods \cup Numbers : c[s] \in Int
               /\ BreakerUsable(c)

(* The defaults are values of their types; both periods are positive. *)
LEMMA DefaultsTyped ==
  /\ Periods \cup Numbers \cup {"pool.backends"} \subseteq Settings
  /\ Defaults["pool.backends"] = <<>>
  /\ \A s \in Periods : Defaults[s] \in Int /\ Defaults[s] > 0
  /\ \A s \in Numbers : Defaults[s] \in Int
  BY DEF Defaults, Settings, Periods, Texts, Numbers, Durations, Pointers, Switches

(* Clamping gives a positive number. *)
LEMMA Clamped ==
  ASSUME NEW n \in Int
  PROVE  AtLeastOne(n) \in Nat \ {0} /\ AtLeastOne(n) > 0
  BY DEF AtLeastOne

(* The file over the defaults. *)
LEMMA FileOverDefaults ==
  ASSUME NEW fc, FileTyped(fc), FileParses(fc)
  PROVE  LET c == applyFileConfig(Defaults, fc)
         IN  /\ Named(c) \subseteq Raws
             /\ \A raw \in Named(c) : Weights(c)[raw] \in Nat \ {0}
             /\ \A s \in Periods \cup Numbers : c[s] \in Int
<1> DEFINE c == applyFileConfig(Defaults, fc)
<1>1. \A s \in Settings : c[s] = IF s \in DOMAIN fc /\ ~Absent(s, fc[s])
                                 THEN FromFile(s, fc[s]) ELSE Defaults[s]
  BY DEF applyFileConfig
<1> HIDE DEF c
<1>2. Named(c) \subseteq Raws /\ \A raw \in Named(c) : Weights(c)[raw] \in Nat \ {0}
  <2> DEFINE p == "pool.backends"
  <2>1. CASE p \in DOMAIN fc /\ ~Absent(p, fc[p])
    <3>1. c[p] = [raw \in DOMAIN fc[p] |-> AtLeastOne(fc[p][raw])]
      BY <1>1, <2>1, DefaultsTyped DEF FromFile
    <3>2. DOMAIN fc[p] \subseteq Raws /\ \A raw \in DOMAIN fc[p] : fc[p][raw] \in Int
      BY <2>1 DEF FileTyped
    <3>3. QED
      BY <3>1, <3>2, Clamped DEF Named, Weights
  <2>2. CASE ~(p \in DOMAIN fc /\ ~Absent(p, fc[p]))
    <3>1. c[p] = <<>>
      BY <1>1, <2>2, DefaultsTyped
    <3>2. QED
      BY <3>1 DEF Named, Weights
  <2>3. QED
    BY <2>1, <2>2
<1>3. ASSUME NEW s \in Periods \cup Numbers
      PROVE  c[s] \in Int
  <2>1. Defaults[s] \in Int /\ s \in Settings
    BY DefaultsTyped
  <2>2. ASSUME s \in DOMAIN fc PROVE fc[s] \in Int
    <3>1. s \in Numbers => fc[s] \in Int
      BY <2>2 DEF FileTyped
    <3>2. s \in Periods => s \in Durations
      BY DEF Periods, Durations
    <3>3. s \in Durations => fc[s] \in Int
      BY <2>2 DEF FileTyped, FileParses
    <3>4. QED
      BY <3>1, <3>2, <3>3
  <2>3. FromFile(s, fc[s]) = fc[s]
    BY DEF FromFile, Periods, Numbers
  <2>4. QED
    BY <1>1, <2>1, <2>2, <2>3
<1>4. QED
  BY <1>2, <1>3 DEF c

(* Load gives a usable configuration or none. *)
LEMMA LoadGives ==
  ASSUME NEW path, NEW args, Load(path, args) # Invalid,
         path # NoFile /\ path # Unreadable => FileTyped(path), ArgsTyped(args)
  PROVE  IsConfig(Load(path, args))
<1> DEFINE fc   == IF path = NoFile THEN <<>> ELSE path
           base == applyFileConfig(Defaults, fc)
           c    == applyCLI(base, args)
<1>1. /\ path # Unreadable
      /\ FileParses(fc) /\ ArgsParse(args)
      /\ Load(path, args) = Merged(fc, args)
  BY DEF Load
<1>2. Load(path, args) = c /\ BreakerUsable(c)
  BY <1>1 DEF Merged
<1>3. FileTyped(fc)
  <2>1. FileTyped(<<>>)
    BY DEF FileTyped
  <2>2. QED
    BY <1>1, <2>1
<1>4. /\ Named(base) \subseteq Raws
      /\ \A raw \in Named(base) : Weights(base)[raw] \in Nat \ {0}
      /\ \A s \in Periods \cup Numbers : base[s] \in Int
  BY <1>1, <1>3, FileOverDefaults
<1>5. \A s \in Settings : c[s] = IF s \in DOMAIN args THEN FromFlag(s, args[s]) ELSE base[s]
  BY DEF applyCLI
<1> HIDE DEF base, c
<1>6. Named(c) \subseteq Raws /\ \A raw \in Named(c) : Weights(c)[raw] \in Nat \ {0}
  <2> DEFINE p == "pool.backends"
  <2>1. CASE p \in DOMAIN args
    <3>1. c[p] = [raw \in args[p] |-> 1] /\ args[p] \subseteq Raws
      BY <1>5, <2>1, DefaultsTyped DEF FromFlag, ArgsTyped
    <3>2. QED
      BY <3>1 DEF Named, Weights
  <2>2. CASE p \notin DOMAIN args
    <3>1. c[p] = base[p]
      BY <1>5, <2>2, DefaultsTyped
    <3>2. QED
      BY <1>4, <3>1 DEF Named, Weights
  <2>3. QED
    BY <2>1, <2>2
<1>7. ASSUME NEW s \in Periods \cup Numbers
      PROVE  c[s] \in Int
  <2>1. s \in Settings /\ s \in Numbers \cup Durations
    BY DefaultsTyped DEF Periods, Durations
  <2>2. ASSUME s \in DOMAIN args PROVE args[s] \in Int /\ FromFlag(s, args[s]) = args[s]
    <3>1. args[s] \in Int
      BY <1>1, <2>1, <2>2 DEF ArgsTyped, ArgsParse
    <3>2. QED
      BY <3>1 DEF FromFlag, Periods, Numbers
  <2>3. QED
    BY <1>4, <1>5, <2>1, <2>2
<1>8. QED
  BY <1>2, <1>6, <1>7 DEF IsConfig

(* So every configuration that main or the reload goroutine holds is one. *)
LEMMA LoadedIsConfig ==
  ASSUME NEW c \in Loaded, c # Invalid
  PROVE  IsConfig(c)
<1>1. CASE \E start \in Starts : c = Load(start[1], start[2])
  <2>1. PICK start \in Starts : c = Load(start[1], start[2])
    BY <1>1
  <2>2. ArgsTyped(start[2]) /\ start[1] \in Files \cup {NoFile}
    BY ReloadAssumption
  <2>3. start[1] # NoFile /\ start[1] # Unreadable => FileTyped(start[1])
    BY <2>2, ReloadAssumption
  <2>4. QED
    BY <2>1, <2>2, <2>3, LoadGives
<1>2. CASE \E f \in Files : c = LoadFile(f)
  <2>1. PICK f \in Files : c = Load(f, <<>>)
    BY <1>2 DEF LoadFile
  <2>2. ArgsTyped(<<>>)
    BY DEF ArgsTyped
  <2>3. f # Unreadable => FileTyped(f)
    BY ReloadAssumption
  <2>4. QED
    BY <2>1, <2>2, <2>3, LoadGives
<1>3. QED
  BY <1>1, <1>2 DEF Loaded

-----------------------------------------------------------------------------
(***************************************************************************)
(* Reload: types and parameters, for any spelling of the URLs.             *)
(***************************************************************************)
Applying == {"add", "remove", "read", "weigh", "finish"}

Old == Named(currentCfg)
New == Named(newCfg)

\* A configuration that passed main's checks and those of Apply.
Checked(c) == IsConfig(c) /\ Named(c) # {} /\ Known(c["pool.algorithm"])

\* Both are, and what is applied was compared with what is current.
ConfigsChecked == /\ Checked(currentCfg) /\ Checked(newCfg)
                  /\ Old \cap BadRaws = {}
                  /\ stage \in Applying => Valid(currentCfg, newCfg)

\* The loops of Apply take elements of the difference; the snapshot is only
\* there while the weights are set.
LoopsFit == /\ todo \subseteq Todo(stage, newCfg)
            /\ stage # "weigh" => byURL = {}
            /\ stage = "load" => file \in Files

HealthUsable == \A s \in HealthSettings \cap (Periods \cup Numbers) : health[s] > 0
PoolUsable   == Pooled \cap BadRaws = {}

ReloadInv == TypeOK /\ ConfigsChecked /\ LoopsFit /\ HealthUsable /\ PoolUsable

(* The order of the loops. *)
LEMMA StagesInOrder ==
  /\ Stages[1] = "add"
  /\ Following("add") = "remove" /\ Following("remove") = "read"
  /\ Following("read") = "weigh" /\ Following("weigh") = "finish"
<1>1. /\ Stages[1] = "add" /\ Stages[2] = "remove" /\ Stages[3] = "read"
      /\ Stages[4] = "weigh" /\ Stages[5] = "finish"
  BY DEF Stages
<1>2. ASSUME NEW s, NEW t
      PROVE  (\E j \in 1 .. 4 : Stages[j] = s /\ Stages[j + 1] = t) <=>
                \/ s = "add" /\ t = "remove"
                \/ s = "remove" /\ t = "read"
                \/ s = "read" /\ t = "weigh"
                \/ s = "weigh" /\ t = "finish"
  <2>1. \A j \in 1 .. 4 : j = 1 \/ j = 2 \/ j = 3 \/ j = 4
    OBVIOUS
  <2>2. 1 \in 1 .. 4 /\ 2 \in 1 .. 4 /\ 3 \in 1 .. 4 /\ 4 \in 1 .. 4
    OBVIOUS
  <2>3. 1 + 1 = 2 /\ 2 + 1 = 3 /\ 3 + 1 = 4 /\ 4 + 1 = 5
    OBVIOUS
  <2>4. QED
    BY <1>1, <2>1, <2>2, <2>3
<1>3. QED
  BY <1>1, <1>2 DEF Following

(* The three loops of Apply, over parts of the two files. *)
LEMMA TodoFacts ==
  ASSUME IsConfig(currentCfg), IsConfig(newCfg)
  PROVE  /\ Todo("add", newCfg) = New \ Old
         /\ Todo("remove", newCfg) = Old \ New
         /\ Todo("weigh", newCfg) \subseteq Old \cap New
         /\ \A s : s \notin {"add", "remove", "weigh"} => Todo(s, newCfg) = {}
         /\ \A s : Todo(s, newCfg) \subseteq Raws
  BY DEF Todo, Added, Removed, Changed, Old, New, IsConfig

(* A checked file gives a health checker periods and thresholds that work,  *)
(* and one file after another too.                                         *)
LEMMA HealthCheckerUsable ==
  ASSUME NEW c, IsConfig(c)
  PROVE  /\ DOMAIN NewHealthChecker(c) = HealthSettings
         /\ \A s \in HealthSettings \cap (Periods \cup Numbers) : NewHealthChecker(c)[s] > 0
         /\ \A h : DOMAIN Updated(h, c) = HealthSettings
         /\ \A h : (\A s \in HealthSettings \cap (Periods \cup Numbers) : h[s] > 0)
               => \A s \in HealthSettings \cap (Periods \cup Numbers) : Updated(h, c)[s] > 0
<1>1. \A s \in Periods \cup Numbers : c[s] \in Int
  BY DEF IsConfig
<1>2. \A s \in Periods : Defaults[s] > 0 /\ s \notin Numbers
  BY DefaultsTyped DEF Periods, Numbers
<1>3. \A s \in Numbers : AtLeastOne(c[s]) > 0
  BY <1>1, Clamped
<1>4. ASSUME NEW s \in HealthSettings \cap (Periods \cup Numbers)
      PROVE  NewHealthChecker(c)[s] > 0
  <2>1. CASE s \in Numbers
    BY <1>3, <2>1 DEF NewHealthChecker
  <2>2. CASE s \in Periods
    <3>1. c[s] \in Int /\ s \notin Numbers
      BY <1>1, <1>2, <2>2
    <3>2. CASE c[s] <= 0
      BY <1>2, <2>2, <3>1, <3>2 DEF NewHealthChecker
    <3>3. CASE c[s] > 0
      BY <2>2, <3>1, <3>3 DEF NewHealthChecker
    <3>4. QED
      BY <3>1, <3>2, <3>3
  <2>3. QED
    BY <2>1, <2>2
<1>5. ASSUME NEW h, NEW s \in HealthSettings \cap (Periods \cup Numbers), h[s] > 0
      PROVE  Updated(h, c)[s] > 0
  <2>1. CASE s \in Numbers
    BY <1>3, <2>1 DEF Updated
  <2>2. CASE s \in Periods
    <3>1. c[s] \in Int /\ s \notin Numbers
      BY <1>1, <1>2, <2>2
    <3>2. CASE c[s] <= 0
      BY <1>5, <2>2, <3>1, <3>2 DEF Updated
    <3>3. CASE c[s] > 0
      BY <2>2, <3>1, <3>3 DEF Updated
    <3>4. QED
      BY <3>1, <3>2, <3>3
  <2>3. QED
    BY <2>1, <2>2
<1>6. QED
  BY <1>4, <1>5 DEF NewHealthChecker, Updated

(* The operator and the channel: only the file and the stage change. *)
LEMMA SignalsKeep ==
  ASSUME ReloadInv, Operator \/ Receive
  PROVE  ReloadInv'
<1>1. /\ UNCHANGED <<currentCfg, newCfg, todo, byURL, pool, up, algorithm, health, admin>>
      /\ file' \in Files \cup {NoFile}
      /\ quit' \in {<<>>, <<"SIGHUP">>, <<"SIGTERM">>}
      /\ asked' \in BOOLEAN
      /\ \/ UNCHANGED stage /\ (file \in Files => file' \in Files)
         \/ /\ stage = "wait" /\ stage' \in {"wait", "load", "shutdown"}
            /\ stage' = "load" => file' \in Files
  <2>1. CASE WriteFile
    BY <2>1 DEF WriteFile, running, ReloadInv, TypeOK
  <2>2. CASE SendHUP
    BY <2>2 DEF SendHUP, Deliver, running, ReloadInv, TypeOK
  <2>3. CASE SendTERM
    BY <2>3 DEF SendTERM, Deliver, outside, running, ReloadInv, TypeOK
  <2>4. CASE Receive
    BY <2>4 DEF Receive, AfterSignal, outside, running, ReloadInv, TypeOK
  <2>5. QED
    BY <2>1, <2>2, <2>3, <2>4 DEF Operator
<1>2. TypeOK'
  BY <1>1 DEF ReloadInv, TypeOK, Pooled
<1>3. ConfigsChecked'
  BY <1>1 DEF ReloadInv, ConfigsChecked, Old, Applying
<1>4. LoopsFit'
  <2>1. CASE UNCHANGED stage
    BY <1>1, <2>1 DEF ReloadInv, LoopsFit, Todo
  <2>2. CASE stage = "wait" /\ stage' \in {"wait", "load", "shutdown"}
    <3>1. todo = {} /\ byURL = {}
      BY <2>2, TodoFacts DEF ReloadInv, LoopsFit, ConfigsChecked, Checked
    <3>2. QED
      BY <1>1, <2>2, <3>1 DEF LoopsFit, ReloadInv, TypeOK
  <2>3. QED
    BY <1>1, <2>1, <2>2
<1>5. HealthUsable' /\ PoolUsable'
  BY <1>1 DEF ReloadInv, HealthUsable, PoolUsable, Pooled
<1>6. QED
  BY <1>2, <1>3, <1>4, <1>5 DEF ReloadInv

(* A file is read: accepted and about to be applied, or rejected. *)
LEMMA RereadKeeps ==
  ASSUME ReloadInv, Reread
  PROVE  ReloadInv'
<1> DEFINE c == LoadFile(file)
<1>1. /\ stage = "load" /\ file \in Files
      /\ UNCHANGED <<file, asked, quit, byURL, pool, up, algorithm, health, admin, currentCfg>>
  BY DEF Reread, ReloadInv, LoopsFit, outside, running, AfterRejection
<1>2. todo = {} /\ byURL = {}
  BY <1>1, TodoFacts DEF ReloadInv, LoopsFit, ConfigsChecked, Checked
<1>3. CASE Acceptable(c)
  <2>1. newCfg' = c /\ stage' = "add" /\ todo' = Todo("add", c)
    BY <1>3, StagesInOrder DEF Reread
  <2>2. c \in Loaded /\ c # Invalid
    BY <1>1, <1>3 DEF Loaded, Acceptable, Loadable
  <2>3. Checked(c) /\ Valid(currentCfg, c)
    BY <1>3, <2>2, LoadedIsConfig DEF Checked, Acceptable, Loadable
  <2>4. todo' \subseteq Raws
    BY <2>1, <2>3 DEF Todo, Added, Checked, IsConfig
  <2>5. TypeOK'
    BY <1>1, <2>1, <2>2, <2>4 DEF ReloadInv, TypeOK, Pooled
  <2>6. ConfigsChecked'
    BY <1>1, <2>1, <2>3 DEF ReloadInv, ConfigsChecked, Old
  <2>7. LoopsFit'
    BY <1>1, <1>2, <2>1 DEF LoopsFit, Todo
  <2>8. HealthUsable' /\ PoolUsable'
    BY <1>1 DEF ReloadInv, HealthUsable, PoolUsable, Pooled
  <2>9. QED
    BY <2>5, <2>6, <2>7, <2>8 DEF ReloadInv
<1>4. CASE ~Acceptable(c)
  <2>1. stage' = "wait" /\ UNCHANGED <<newCfg, todo>>
    BY <1>4 DEF Reread
  <2>2. TypeOK'
    BY <1>1, <2>1 DEF ReloadInv, TypeOK, Pooled
  <2>3. ConfigsChecked'
    BY <1>1, <2>1 DEF ReloadInv, ConfigsChecked, Old, Applying
  <2>4. LoopsFit'
    BY <1>1, <1>2, <2>1 DEF LoopsFit
  <2>5. HealthUsable' /\ PoolUsable'
    BY <1>1 DEF ReloadInv, HealthUsable, PoolUsable, Pooled
  <2>6. QED
    BY <2>2, <2>3, <2>4, <2>5 DEF ReloadInv
<1>5. QED
  BY <1>3, <1>4

(* AddBackend adds what Apply validated. *)
LEMMA AddBackendKeeps ==
  ASSUME ReloadInv, NEW raw \in Raws, AddBackend(raw)
  PROVE  ReloadInv'
<1> USE DEF ReloadInv
<1> DEFINE u == Canon[raw]
<1>1. /\ stage = "add" /\ raw \in todo /\ todo' = todo \ {raw}
      /\ UNCHANGED <<file, asked, quit, stage, currentCfg, newCfg, algorithm, health, byURL>>
      /\ up' = up \cup {raw}
      /\ \/ u \in Pooled /\ UNCHANGED <<pool, admin>>
         \/ /\ u \notin Pooled
            /\ pool' = With(pool, u, Weights(newCfg)[raw])
            /\ admin' = [admin EXCEPT ![u] = "nothing"]
  BY DEF AddBackend, Take, outside
<1>2. raw \in New /\ raw \notin BadRaws /\ Weights(newCfg)[raw] \in Nat \ {0}
  <2>1. raw \in New \ Old
    BY <1>1, TodoFacts DEF LoopsFit, ConfigsChecked, Checked
  <2>2. raw \notin BadRaws
    BY <1>1, <2>1 DEF ConfigsChecked, Valid, Added, Old, New, Applying
  <2>3. QED
    BY <2>1, <2>2 DEF ConfigsChecked, Checked, IsConfig, New
<1>3. u \in URLs /\ u \notin BadRaws
  BY <1>2, ReloadAssumption DEF URLs
<1>4. /\ Pooled' \subseteq Pooled \cup {u} /\ Pooled \subseteq Pooled'
      /\ \A x \in Pooled' : \/ x \in Pooled /\ pool'[x] = pool[x]
                            \/ x = u /\ pool'[x] = Weights(newCfg)[raw]
  BY <1>1 DEF Pooled, With, Without
<1>5. admin' \in [URLs -> {"nothing", "added", "removed"}]
  BY <1>1 DEF TypeOK
<1>6. TypeOK'
  <2>1. Pooled' \subseteq URLs /\ \A x \in Pooled' : pool'[x] \in Nat \ {0}
    BY <1>2, <1>3, <1>4 DEF TypeOK
  <2>2. byURL' \subseteq Pooled' /\ up' \subseteq Raws /\ todo' \subseteq Raws
    BY <1>1, <1>4 DEF TypeOK
  <2>3. QED
    BY <1>1, <1>5, <2>1, <2>2 DEF TypeOK
<1>7. ConfigsChecked'
  BY <1>1 DEF ConfigsChecked, Old
<1>8. LoopsFit'
  BY <1>1 DEF LoopsFit, Todo
<1>9. HealthUsable' /\ PoolUsable'
  BY <1>1, <1>3, <1>4 DEF HealthUsable, PoolUsable
<1>10. QED
  BY <1>6, <1>7, <1>8, <1>9

(* Remove and SetWeight touch no other backend. *)
LEMMA RemoveKeeps ==
  ASSUME ReloadInv, NEW raw \in Raws, Remove(raw)
  PROVE  ReloadInv'
<1> USE DEF ReloadInv
<1>1. /\ stage = "remove" /\ todo' = todo \ {raw}
      /\ UNCHANGED <<file, asked, quit, stage, currentCfg, newCfg, algorithm, health, byURL>>
      /\ up' = up \ {raw}
      /\ pool' = Without(pool, raw)
      /\ admin' = IF raw \in URLs THEN [admin EXCEPT ![raw] = "nothing"] ELSE admin
  BY DEF Remove, Take, outside
<1>2. Pooled' = Pooled \ {raw} /\ \A x \in Pooled' : pool'[x] = pool[x]
  BY <1>1 DEF Pooled, With, Without
<1>3. admin' \in [URLs -> {"nothing", "added", "removed"}]
  BY <1>1 DEF TypeOK
<1>4. byURL = {}
  BY <1>1 DEF LoopsFit
<1>5. TypeOK'
  BY <1>1, <1>2, <1>3, <1>4 DEF TypeOK
<1>6. ConfigsChecked' /\ LoopsFit'
  BY <1>1 DEF ConfigsChecked, Old, LoopsFit, Todo
<1>7. HealthUsable' /\ PoolUsable'
  BY <1>1, <1>2 DEF HealthUsable, PoolUsable
<1>8. QED
  BY <1>5, <1>6, <1>7

LEMMA SetWeightKeeps ==
  ASSUME ReloadInv, NEW raw \in Raws, SetWeight(raw)
  PROVE  ReloadInv'
<1> USE DEF ReloadInv
<1>1. /\ stage = "weigh" /\ raw \in todo /\ todo' = todo \ {raw}
      /\ UNCHANGED <<file, asked, quit, stage, currentCfg, newCfg, algorithm, health, byURL,
                     up, admin>>
      /\ pool' = IF raw \in byURL THEN With(pool, raw, Weights(newCfg)[raw]) ELSE pool
  BY DEF SetWeight, Take, outside
<1>2. Weights(newCfg)[raw] \in Nat \ {0}
  BY <1>1, TodoFacts DEF LoopsFit, ConfigsChecked, Checked, IsConfig, New
<1>3. /\ Pooled' = Pooled
      /\ \A x \in Pooled' : pool'[x] \in {pool[x], Weights(newCfg)[raw]}
  BY <1>1 DEF Pooled, With, Without, TypeOK
<1>4. TypeOK'
  BY <1>1, <1>2, <1>3 DEF TypeOK
<1>5. ConfigsChecked' /\ LoopsFit'
  BY <1>1 DEF ConfigsChecked, Old, LoopsFit, Todo
<1>6. HealthUsable' /\ PoolUsable'
  BY <1>1, <1>3 DEF HealthUsable, PoolUsable
<1>7. QED
  BY <1>4, <1>5, <1>6

(* From one loop to the next. *)
LEMMA AdvanceKeeps ==
  ASSUME ReloadInv, Advance
  PROVE  ReloadInv'
<1> USE DEF ReloadInv
<1>1. /\ stage \in {"add", "remove", "read", "weigh"}
      /\ stage' = Following(stage)
      /\ todo' = Todo(stage', newCfg)
      /\ byURL' = CASE stage = "read" /\ Changed(currentCfg, newCfg) # {} -> Pooled
                    [] stage = "weigh" -> {}
                    [] OTHER -> byURL
      /\ UNCHANGED <<file, asked, quit, currentCfg, newCfg, pool, up, algorithm, health, admin>>
  BY DEF Advance, outside, running
<1>2. /\ stage' \in {"remove", "read", "weigh", "finish"}
      /\ stage' = "weigh" <=> stage = "read"
  BY <1>1, StagesInOrder
<1>3. byURL' \subseteq Pooled /\ (stage' # "weigh" => byURL' = {})
  BY <1>1, <1>2 DEF LoopsFit, TypeOK
<1>4. todo' \subseteq Raws
  <2>1. \A t : Todo(t, newCfg) \subseteq Raws
    BY TodoFacts DEF ConfigsChecked, Checked
  <2>2. QED
    BY <1>1, <2>1
<1>5. TypeOK'
  BY <1>1, <1>2, <1>3, <1>4 DEF TypeOK, Pooled
<1>6. ConfigsChecked'
  BY <1>1, <1>2 DEF ConfigsChecked, Old, Applying
<1>7. LoopsFit'
  BY <1>1, <1>2, <1>3 DEF LoopsFit, Todo
<1>8. HealthUsable' /\ PoolUsable'
  BY <1>1 DEF HealthUsable, PoolUsable, Pooled
<1>9. QED
  BY <1>5, <1>6, <1>7, <1>8

(* The reload is complete. *)
LEMMA FinishKeeps ==
  ASSUME ReloadInv, Finish
  PROVE  ReloadInv'
<1> USE DEF ReloadInv
<1>1. /\ stage = "finish" /\ stage' = "wait" /\ currentCfg' = newCfg
      /\ algorithm' \in {newCfg["pool.algorithm"], algorithm}
      /\ health' \in {Updated(health, newCfg), health}
      /\ UNCHANGED <<file, asked, quit, newCfg, todo, byURL, pool, up, admin>>
  BY DEF Finish, outside
<1>2. todo = {} /\ byURL = {}
  BY <1>1, TodoFacts DEF LoopsFit, ConfigsChecked, Checked
<1>3. IsConfig(newCfg) /\ newCfg["pool.algorithm"] \in Algorithms
  BY DEF ConfigsChecked, Checked, Known
<1>4. DOMAIN health' = HealthSettings /\ HealthUsable'
  BY <1>1, <1>3, HealthCheckerUsable DEF TypeOK, HealthUsable
<1>5. TypeOK'
  BY <1>1, <1>3, <1>4 DEF TypeOK, Pooled
<1>6. ConfigsChecked'
  <2>1. New \cap BadRaws = {}
    BY <1>1 DEF ConfigsChecked, Applying, Valid, Added, Old, New
  <2>2. QED
    BY <1>1, <2>1 DEF ConfigsChecked, Old, New, Applying
<1>7. LoopsFit'
  BY <1>1, <1>2 DEF LoopsFit
<1>8. PoolUsable'
  BY <1>1 DEF PoolUsable, Pooled
<1>9. QED
  BY <1>4, <1>5, <1>6, <1>7, <1>8

(* The admin API adds and removes usable backends. *)
LEMMA AdminKeeps ==
  ASSUME ReloadInv, Admin
  PROVE  ReloadInv'
<1> USE DEF ReloadInv
<1>1. ASSUME NEW u \in URLs \ BadRaws, NEW weight \in AdminWeights, AdminAdd(u, weight)
      PROVE  ReloadInv'
  <2>1. /\ pool' = With(pool, u, AtLeastOne(weight))
        /\ admin' = [admin EXCEPT ![u] = "added"]
        /\ UNCHANGED <<file, asked, quit, stage, currentCfg, newCfg, todo, byURL, up,
                       algorithm, health>>
    BY <1>1 DEF AdminAdd, outside
  <2>2. AtLeastOne(weight) \in Nat \ {0}
    BY Clamped, ReloadAssumption
  <2>3. /\ Pooled' = Pooled \cup {u}
        /\ \A x \in Pooled' : \/ x \in Pooled /\ pool'[x] = pool[x]
                              \/ x = u /\ pool'[x] = AtLeastOne(weight)
    BY <2>1 DEF Pooled, With, Without
  <2>4. TypeOK'
    BY <2>1, <2>2, <2>3 DEF TypeOK
  <2>5. ConfigsChecked' /\ LoopsFit'
    BY <2>1 DEF ConfigsChecked, Old, LoopsFit, Todo
  <2>6. HealthUsable' /\ PoolUsable'
    BY <2>1, <2>3 DEF HealthUsable, PoolUsable
  <2>7. QED
    BY <2>4, <2>5, <2>6
<1>2. ASSUME NEW u \in URLs \ BadRaws, AdminRemove(u)
      PROVE  ReloadInv'
  <2>1. /\ pool' = Without(pool, u)
        /\ byURL' = byURL \ {u}
        /\ admin' = [admin EXCEPT ![u] = "removed"]
        /\ UNCHANGED <<file, asked, quit, stage, currentCfg, newCfg, todo, up,
                       algorithm, health>>
    BY <1>2 DEF AdminRemove, outside
  <2>2. Pooled' = Pooled \ {u} /\ \A x \in Pooled' : pool'[x] = pool[x]
    BY <2>1 DEF Pooled, With, Without
  <2>3. TypeOK'
    BY <2>1, <2>2 DEF TypeOK
  <2>4. ConfigsChecked' /\ LoopsFit'
    BY <2>1 DEF ConfigsChecked, Old, LoopsFit, Todo
  <2>5. HealthUsable' /\ PoolUsable'
    BY <2>1, <2>2 DEF HealthUsable, PoolUsable
  <2>6. QED
    BY <2>3, <2>4, <2>5
<1>3. QED
  BY <1>1, <1>2 DEF Admin

LEMMA ReloadInvInit == Init => ReloadInv
<1> SUFFICES ASSUME Init PROVE ReloadInv
  OBVIOUS
<1> DEFINE first(u) == CHOOSE raw \in Old : Canon[raw] = u
<1>1. PICK start \in Starts : /\ file = start[1]
                              /\ currentCfg = Load(start[1], start[2])
  BY DEF Init
<1>2. /\ Startable(currentCfg) /\ newCfg = currentCfg
      /\ quit = <<>> /\ stage = "wait" /\ todo = {} /\ byURL = {} /\ asked = FALSE
      /\ pool = [u \in {Canon[raw] : raw \in Old} |-> Weights(currentCfg)[first(u)]]
      /\ up = Pooled
      /\ algorithm = currentCfg["pool.algorithm"]
      /\ health = NewHealthChecker(currentCfg)
      /\ admin = [u \in URLs |-> "nothing"]
  BY DEF Init, Old
<1>3. file \in Files \cup {NoFile} /\ currentCfg \in Loaded \ {Invalid}
  BY <1>1, <1>2, ReloadAssumption DEF Loaded, Startable
<1>4. /\ Checked(currentCfg)
      /\ Old \cap BadRaws = {}
      /\ currentCfg["pool.algorithm"] \in Algorithms
  BY <1>2, <1>3, LoadedIsConfig DEF Checked, Startable, Consistent, Proxyable, Old, Known
<1>5. Old \subseteq Raws /\ \A raw \in Old : Weights(currentCfg)[raw] \in Nat \ {0}
  BY <1>4 DEF Checked, IsConfig, Old
<1>6. Pooled = {Canon[raw] : raw \in Old} /\ Pooled \subseteq URLs
  BY <1>2, <1>5 DEF Pooled, URLs
<1>7. \A u \in Pooled : first(u) \in Old /\ pool[u] = Weights(currentCfg)[first(u)]
  BY <1>2, <1>6
<1>8. TypeOK
  <2>1. URLs \subseteq Raws
    BY ReloadAssumption DEF URLs
  <2>2. \A u \in Pooled : pool[u] \in Nat \ {0}
    BY <1>5, <1>7
  <2>3. DOMAIN health = HealthSettings
    BY <1>2, <1>4, HealthCheckerUsable DEF Checked
  <2>4. QED
    BY <1>2, <1>3, <1>4, <1>6, <2>1, <2>2, <2>3 DEF TypeOK
<1>9. ConfigsChecked /\ LoopsFit
  BY <1>2, <1>4 DEF ConfigsChecked, LoopsFit, Applying
<1>10. HealthUsable
  BY <1>2, <1>4, HealthCheckerUsable DEF Checked, HealthUsable
<1>11. PoolUsable
  BY <1>4, <1>5, <1>6, ReloadAssumption DEF PoolUsable
<1>12. QED
  BY <1>8, <1>9, <1>10, <1>11 DEF ReloadInv

LEMMA ReloadInvNext == ReloadInv /\ [Next]_vars => ReloadInv'
<1> SUFFICES ASSUME ReloadInv, [Next]_vars PROVE ReloadInv'
  OBVIOUS
<1>1. CASE Next
  BY <1>1, SignalsKeep, RereadKeeps, AddBackendKeeps, RemoveKeeps, SetWeightKeeps,
     AdvanceKeeps, FinishKeeps, AdminKeeps DEF Next, Goroutine
<1>2. CASE UNCHANGED vars
  BY <1>2 DEF vars, outside, running, ReloadInv, TypeOK, ConfigsChecked, LoopsFit, Todo,
              HealthUsable, PoolUsable, Pooled, Old
<1>3. QED
  BY <1>1, <1>2

(***************************************************************************)
(* Every variable of the reload keeps its type, for any files, command     *)
(* lines and spellings: no configuration is ever current that Load and     *)
(* main would not have started with, and no weight is below 1.             *)
(***************************************************************************)
THEOREM TypeCorrect == Spec => []TypeOK
<1>1. ReloadInv => TypeOK
  BY DEF ReloadInv
<1>2. QED
  BY <1>1, ReloadInvInit, ReloadInvNext, PTL DEF Spec

(***************************************************************************)
(* No file, flag, reload or admin call ever gives a part parameters that   *)
(* it cannot run with.                                                     *)
(***************************************************************************)
THEOREM AlwaysUsable == Spec => []ParametersUsable
<1>1. ReloadInv => ParametersUsable
  BY DEF ReloadInv, ConfigsChecked, Checked, IsConfig, HealthUsable, PoolUsable,
         ParametersUsable
<1>2. QED
  BY <1>1, ReloadInvInit, ReloadInvNext, PTL DEF Spec

-----------------------------------------------------------------------------
(***************************************************************************)
(* Reload: the pool follows the file, if URLs are written as url.Parse     *)
(* prints them.  (For other spellings it does not: see FileIsTruth.)       *)
(***************************************************************************)
Canonical == \A raw \in Raws : Canon[raw] = raw

\* The backends of the files that are in the pool by now.
Expected == CASE stage = "add"    -> (Old \cup New) \ todo
              [] stage = "remove" -> New \cup todo
              [] stage \in {"read", "weigh", "finish"} -> New
              [] OTHER            -> Old

\* The pool is what the files and the admin API made of it.
Membership ==
    \A u \in Raws : /\ admin[u] = "added" => u \in Pooled
                    /\ admin[u] = "removed" => u \notin Pooled
                    /\ admin[u] = "nothing" => /\ u \in Pooled <=> u \in Expected
                                               /\ u \in Pooled <=> u \in up

\* Algorithm and health checker only change at the end.
SettingsFit ==
    /\ algorithm = currentCfg["pool.algorithm"]
    /\ \A s \in HealthSettings : \/ health[s] = NewHealthChecker(currentCfg)[s]
                                 \/ s \in Periods /\ currentCfg[s] <= 0

\* The weight of a backend of the files, which may still be about to be set.
HasWeight(u) ==
    \/ /\ stage \notin {"weigh", "finish"} /\ u \in Old
       /\ pool[u] = Weights(currentCfg)[u]
    \/ /\ stage \in {"add", "remove", "read"} /\ u \in New \ Old
       /\ pool[u] = Weights(newCfg)[u]
    \/ stage \in {"weigh", "finish"} /\ pool[u] = Weights(newCfg)[u]
    \/ stage = "weigh" /\ u \in todo /\ u \in byURL

WeightsFit == \A u \in Raws : admin[u] = "nothing" /\ u \in Pooled => HasWeight(u)

FileInv == ReloadInv /\ Membership /\ SettingsFit /\ WeightsFit

(* The same backends are expected at the end of a loop and at the beginning *)
(* of the next one.                                                        *)
LEMMA ExpectedOnward ==
  ASSUME ReloadInv, Advance
  PROVE  Expected' = Expected
<1>1. /\ stage \in {"add", "remove", "read", "weigh"}
      /\ stage' = Following(stage) /\ todo = {} /\ todo' = Todo(stage', newCfg)
      /\ UNCHANGED <<currentCfg, newCfg>>
  BY DEF Advance
<1>2. Old' = Old /\ New' = New
  BY <1>1 DEF Old, New
<1>3. Todo("remove", newCfg) = Old \ New
  BY TodoFacts DEF ReloadInv, ConfigsChecked, Checked
<1>4. CASE stage = "add"
  BY <1>1, <1>2, <1>3, <1>4, StagesInOrder DEF Expected
<1>5. CASE stage \in {"remove", "read", "weigh"}
  BY <1>1, <1>2, <1>5, StagesInOrder DEF Expected
<1>6. QED
  BY <1>1, <1>4, <1>5

(* Signals, and the files that nobody reads yet, change nothing of this. *)
LEMMA SignalsKeepFile ==
  ASSUME FileInv, Operator \/ Receive
  PROVE  Membership' /\ SettingsFit' /\ WeightsFit'
<1>1. /\ UNCHANGED <<currentCfg, newCfg, todo, byURL, pool, up, algorithm, health, admin>>
      /\ UNCHANGED stage \/ (stage = "wait" /\ stage' \in {"wait", "load", "shutdown"})
  BY DEF Operator, WriteFile, SendHUP, SendTERM, Receive, AfterSignal, outside, running
<1>2. Old' = Old /\ New' = New /\ Pooled' = Pooled
  BY <1>1 DEF Old, New, Pooled
<1>3. Expected' = Expected
  BY <1>1, <1>2 DEF Expected
<1>4. Membership' /\ SettingsFit'
  BY <1>1, <1>2, <1>3 DEF FileInv, Membership, SettingsFit
<1>5. WeightsFit'
  BY <1>1, <1>2 DEF FileInv, WeightsFit, HasWeight
<1>6. QED
  BY <1>4, <1>5

(* Nothing of an accepted file is in the pool yet, except what stays. *)
LEMMA RereadKeepsFile ==
  ASSUME FileInv, Reread
  PROVE  Membership' /\ SettingsFit' /\ WeightsFit'
<1>1. /\ stage = "load"
      /\ UNCHANGED <<currentCfg, byURL, pool, up, algorithm, health, admin>>
  BY DEF Reread, running, AfterRejection
<1>2. Old' = Old /\ Pooled' = Pooled
  BY <1>1 DEF Old, Pooled
<1>3. \/ stage' = "wait"
      \/ stage' = "add" /\ todo' = New' \ Old
  BY StagesInOrder DEF Reread, Todo, Added, New, Old
<1>4. Expected = Old /\ Expected' = Old
  BY <1>1, <1>2, <1>3 DEF Expected
<1>5. Membership' /\ SettingsFit'
  BY <1>1, <1>2, <1>4 DEF FileInv, Membership, SettingsFit
<1>6. WeightsFit'
  BY <1>1, <1>2, <1>3 DEF FileInv, WeightsFit, HasWeight
<1>7. QED
  BY <1>5, <1>6

(* A backend that is added is expected from then on. *)
LEMMA AddBackendKeepsFile ==
  ASSUME Canonical, FileInv, NEW raw \in Raws, AddBackend(raw)
  PROVE  Membership' /\ SettingsFit' /\ WeightsFit'
<1>1. /\ stage = "add" /\ raw \in todo /\ todo' = todo \ {raw}
      /\ UNCHANGED <<stage, currentCfg, newCfg, algorithm, health, byURL>>
      /\ up' = up \cup {raw}
      /\ \/ raw \in Pooled /\ UNCHANGED <<pool, admin>>
         \/ /\ raw \notin Pooled
            /\ pool' = With(pool, raw, Weights(newCfg)[raw])
            /\ admin' = [admin EXCEPT ![raw] = "nothing"]
  BY DEF AddBackend, Take, Canonical
<1>2. raw \in New \ Old
  BY <1>1, TodoFacts DEF FileInv, ReloadInv, LoopsFit, ConfigsChecked, Checked
<1>3. admin \in [Raws -> {"nothing", "added", "removed"}]
  <2>1. URLs = Raws
    BY DEF URLs, Canonical
  <2>2. QED
    BY <2>1 DEF FileInv, ReloadInv, TypeOK
<1>4. Old' = Old /\ New' = New /\ Expected = (Old \cup New) \ todo
      /\ Expected' = Expected \cup {raw}
  BY <1>1, <1>2 DEF Old, New, Expected
<1>5. /\ Pooled' = Pooled \cup {raw}
      /\ \A x \in Pooled : x # raw => pool'[x] = pool[x]
  BY <1>1 DEF Pooled, With
<1>6. \A x \in Raws : x # raw => admin'[x] = admin[x]
  BY <1>1, <1>3
<1>7. CASE raw \in Pooled
  <2>1. UNCHANGED <<pool, admin>> /\ admin[raw] = "added"
    BY <1>1, <1>3, <1>4, <1>7 DEF FileInv, Membership
  <2>2. Membership'
    BY <1>1, <1>4, <1>5, <2>1 DEF FileInv, Membership
  <2>3. WeightsFit'
    BY <1>1, <1>2, <1>4, <1>5, <2>1 DEF FileInv, WeightsFit, HasWeight
  <2>4. QED
    BY <1>1, <2>2, <2>3 DEF FileInv, SettingsFit
<1>8. CASE raw \notin Pooled
  <2>1. admin'[raw] = "nothing" /\ pool'[raw] = Weights(newCfg)[raw]
    BY <1>1, <1>3, <1>8 DEF With
  <2>2. Membership'
    <3>1. ASSUME NEW x \in Raws, x # raw
          PROVE  /\ admin'[x] = admin[x]
                 /\ x \in Pooled' <=> x \in Pooled
                 /\ x \in Expected' <=> x \in Expected
                 /\ x \in up' <=> x \in up
      BY <1>1, <1>4, <1>5, <1>6, <3>1
    <3>2. raw \in Pooled' /\ raw \in Expected' /\ raw \in up'
      BY <1>1, <1>4, <1>5
    <3>3. QED
      BY <2>1, <3>1, <3>2 DEF FileInv, Membership
  <2>3. WeightsFit'
    <3>1. HasWeight(raw)'
      BY <1>1, <1>2, <1>4, <2>1 DEF HasWeight
    <3>2. ASSUME NEW x \in Raws, x # raw, admin'[x] = "nothing", x \in Pooled'
          PROVE  HasWeight(x)'
      <4>1. admin[x] = "nothing" /\ x \in Pooled /\ pool'[x] = pool[x]
        BY <1>5, <1>6, <3>2
      <4>2. HasWeight(x)
        BY <4>1 DEF FileInv, WeightsFit
      <4>3. QED
        BY <1>1, <1>4, <4>1, <4>2 DEF HasWeight
    <3>3. QED
      BY <3>1, <3>2 DEF WeightsFit
  <2>4. QED
    BY <1>1, <2>2, <2>3 DEF FileInv, SettingsFit
<1>9. QED
  BY <1>7, <1>8

(* A backend that is removed is no longer expected. *)
LEMMA RemoveKeepsFile ==
  ASSUME Canonical, FileInv, NEW raw \in Raws, Remove(raw)
  PROVE  Membership' /\ SettingsFit' /\ WeightsFit'
<1>1. /\ stage = "remove" /\ raw \in todo /\ todo' = todo \ {raw}
      /\ UNCHANGED <<stage, currentCfg, newCfg, algorithm, health, byURL>>
      /\ up' = up \ {raw}
      /\ pool' = Without(pool, raw)
      /\ admin' = [admin EXCEPT ![raw] = "nothing"]
  BY DEF Remove, Take, Canonical, URLs
<1>2. raw \in Old \ New
  BY <1>1, TodoFacts DEF FileInv, ReloadInv, LoopsFit, ConfigsChecked, Checked
<1>3. admin \in [Raws -> {"nothing", "added", "removed"}]
  <2>1. URLs = Raws
    BY DEF URLs, Canonical
  <2>2. QED
    BY <2>1 DEF FileInv, ReloadInv, TypeOK
<1>4. Old' = Old /\ New' = New /\ Expected = New \cup todo
      /\ Expected' = Expected \ {raw}
  BY <1>1, <1>2 DEF Old, New, Expected
<1>5. /\ Pooled' = Pooled \ {raw}
      /\ \A x \in Pooled' : pool'[x] = pool[x]
  BY <1>1 DEF Pooled, Without
<1>6. /\ \A x \in Raws : x # raw => admin'[x] = admin[x]
      /\ admin'[raw] = "nothing"
  BY <1>1, <1>3
<1>7. Membership'
  <2>1. ASSUME NEW x \in Raws, x # raw
        PROVE  /\ admin'[x] = admin[x]
               /\ x \in Pooled' <=> x \in Pooled
               /\ x \in Expected' <=> x \in Expected
               /\ x \in up' <=> x \in up
    BY <1>1, <1>4, <1>5, <1>6, <2>1
  <2>2. raw \notin Pooled' /\ raw \notin Expected' /\ raw \notin up'
    BY <1>1, <1>4, <1>5
  <2>3. QED
    BY <1>6, <2>1, <2>2 DEF FileInv, Membership
<1>8. WeightsFit'
  <2>1. SUFFICES ASSUME NEW x \in Raws, admin'[x] = "nothing", x \in Pooled'
                 PROVE  HasWeight(x)'
    BY DEF WeightsFit
  <2>2. admin[x] = "nothing" /\ x \in Pooled /\ pool'[x] = pool[x] /\ x # raw
    BY <1>5, <1>6, <2>1
  <2>3. HasWeight(x)
    BY <2>2 DEF FileInv, WeightsFit
  <2>4. QED
    BY <1>1, <1>4, <2>2, <2>3 DEF HasWeight
<1>9. QED
  BY <1>1, <1>7, <1>8 DEF FileInv, SettingsFit

(* A backend whose weight is set has the one of the new file. *)
LEMMA SetWeightKeepsFile ==
  ASSUME FileInv, NEW raw \in Raws, SetWeight(raw)
  PROVE  Membership' /\ SettingsFit' /\ WeightsFit'
<1>1. /\ stage = "weigh" /\ raw \in todo /\ todo' = todo \ {raw}
      /\ UNCHANGED <<stage, currentCfg, newCfg, algorithm, health, byURL, up, admin>>
      /\ pool' = IF raw \in byURL THEN With(pool, raw, Weights(newCfg)[raw]) ELSE pool
  BY DEF SetWeight, Take
<1>2. byURL \subseteq Pooled
  BY DEF FileInv, ReloadInv, TypeOK
<1>3. /\ Old' = Old /\ New' = New /\ Expected' = Expected
      /\ Pooled' = Pooled
      /\ \A x \in Pooled : pool'[x] = IF x = raw /\ raw \in byURL
                                      THEN Weights(newCfg)[raw] ELSE pool[x]
  BY <1>1, <1>2 DEF Old, New, Expected, Pooled, With
<1>4. Membership' /\ SettingsFit'
  BY <1>1, <1>3 DEF FileInv, Membership, SettingsFit
<1>5. WeightsFit'
  <2>1. SUFFICES ASSUME NEW x \in Raws, admin[x] = "nothing", x \in Pooled
                 PROVE  HasWeight(x)'
    BY <1>1, <1>3 DEF WeightsFit
  <2>2. HasWeight(x)
    BY <2>1 DEF FileInv, WeightsFit
  <2>3. QED
    BY <1>1, <1>3, <2>1, <2>2 DEF HasWeight
<1>6. QED
  BY <1>4, <1>5

(* From one loop to the next: before the weights are set, those that did not *)
(* change are right already and all others are about to be set.            *)
LEMMA AdvanceKeepsFile ==
  ASSUME FileInv, Advance
  PROVE  Membership' /\ SettingsFit' /\ WeightsFit'
<1>1. /\ stage \in {"add", "remove", "read", "weigh"}
      /\ stage' = Following(stage) /\ todo = {} /\ todo' = Todo(stage', newCfg)
      /\ byURL' = CASE stage = "read" /\ Changed(currentCfg, newCfg) # {} -> Pooled
                    [] stage = "weigh" -> {}
                    [] OTHER -> byURL
      /\ UNCHANGED <<currentCfg, newCfg, pool, up, algorithm, health, admin>>
  BY DEF Advance, running
<1>2. Old' = Old /\ New' = New /\ Pooled' = Pooled
  BY <1>1 DEF Old, New, Pooled
<1>3. Expected' = Expected
  BY <1>1, ExpectedOnward DEF FileInv
<1>4. Membership' /\ SettingsFit'
  BY <1>1, <1>2, <1>3 DEF FileInv, Membership, SettingsFit
<1>5. WeightsFit'
  <2>1. SUFFICES ASSUME NEW u \in Raws, admin[u] = "nothing", u \in Pooled
                 PROVE  HasWeight(u)'
    BY <1>1, <1>2 DEF WeightsFit
  <2>2. HasWeight(u) /\ u \in Expected
    BY <2>1 DEF FileInv, WeightsFit, Membership
  <2>3. CASE stage \in {"add", "remove"}
    <3>1. stage' \in {"remove", "read"}
      BY <1>1, <2>3, StagesInOrder
    <3>2. QED
      BY <1>1, <1>2, <2>2, <2>3, <3>1 DEF HasWeight
  <2>4. CASE stage = "read"
    <3>1. stage' = "weigh" /\ todo' = Changed(currentCfg, newCfg)
      BY <1>1, <2>4, StagesInOrder DEF Todo
    <3>2. u \in New
      BY <2>2, <2>4 DEF Expected
    <3>3. CASE pool[u] = Weights(newCfg)[u]
      BY <1>1, <3>1, <3>3 DEF HasWeight
    <3>4. CASE pool[u] # Weights(newCfg)[u]
      <4>1. u \in Old /\ pool[u] = Weights(currentCfg)[u]
        BY <2>2, <2>4, <3>4 DEF HasWeight
      <4>2. u \in Changed(currentCfg, newCfg)
        BY <3>2, <3>4, <4>1 DEF Changed, Old, New
      <4>3. byURL' = Pooled
        BY <1>1, <2>4, <4>2
      <4>4. QED
        BY <2>1, <3>1, <4>2, <4>3 DEF HasWeight
    <3>5. QED
      BY <3>3, <3>4
  <2>5. CASE stage = "weigh"
    <3>1. stage' = "finish"
      BY <1>1, <2>5, StagesInOrder
    <3>2. QED
      BY <1>1, <2>2, <2>5, <3>1 DEF HasWeight
  <2>6. QED
    BY <1>1, <2>3, <2>4, <2>5
<1>6. QED
  BY <1>4, <1>5

(* The new file becomes the current one when all of it is applied. *)
LEMMA FinishKeepsFile ==
  ASSUME FileInv, Finish
  PROVE  Membership' /\ SettingsFit' /\ WeightsFit'
<1>1. /\ stage = "finish" /\ stage' = "wait" /\ currentCfg' = newCfg
      /\ algorithm' = IF newCfg["pool.algorithm"] # currentCfg["pool.algorithm"]
                      THEN newCfg["pool.algorithm"] ELSE algorithm
      /\ health' = IF HealthOf(newCfg) # HealthOf(currentCfg)
                   THEN Updated(health, newCfg) ELSE health
      /\ UNCHANGED <<newCfg, pool, up, admin>>
  BY DEF Finish
<1>2. Old' = New /\ Pooled' = Pooled /\ Expected = New
  BY <1>1 DEF Old, New, Pooled, Expected
<1>3. Expected' = Expected
  BY <1>1, <1>2 DEF Expected
<1>4. Membership'
  BY <1>1, <1>2, <1>3 DEF FileInv, Membership
<1>5. SettingsFit'
  <2>1. algorithm' = currentCfg'["pool.algorithm"]
    BY <1>1 DEF FileInv, SettingsFit
  <2>2. ASSUME NEW s \in HealthSettings
        PROVE  \/ health'[s] = NewHealthChecker(newCfg)[s]
               \/ s \in Periods /\ newCfg[s] <= 0
    <3>1. CASE HealthOf(newCfg) # HealthOf(currentCfg)
      BY <1>1, <3>1 DEF Updated, NewHealthChecker
    <3>2. CASE HealthOf(newCfg) = HealthOf(currentCfg)
      <4>1. newCfg[s] = HealthOf(newCfg)[s] /\ currentCfg[s] = HealthOf(currentCfg)[s]
        BY DEF HealthOf
      <4>2. newCfg[s] = currentCfg[s] /\ health' = health
        BY <1>1, <3>2, <4>1
      <4>3. NewHealthChecker(newCfg)[s] = NewHealthChecker(currentCfg)[s]
        BY <4>2 DEF NewHealthChecker
      <4>4. QED
        BY <4>2, <4>3 DEF FileInv, SettingsFit
    <3>3. QED
      BY <3>1, <3>2
  <2>3. QED
    BY <1>1, <2>1, <2>2 DEF SettingsFit, NewHealthChecker
<1>6. WeightsFit'
  <2>1. SUFFICES ASSUME NEW u \in Raws, admin[u] = "nothing", u \in Pooled
                 PROVE  HasWeight(u)'
    BY <1>1, <1>2 DEF WeightsFit
  <2>2. HasWeight(u) /\ u \in New
    BY <1>2, <2>1 DEF FileInv, WeightsFit, Membership
  <2>3. pool[u] = Weights(newCfg)[u]
    BY <1>1, <2>2 DEF HasWeight
  <2>4. QED
    BY <1>1, <1>2, <2>2, <2>3 DEF HasWeight
<1>7. QED
  BY <1>4, <1>5, <1>6

(* What the admin API does is written down, and concerns one backend. *)
LEMMA AdminKeepsFile ==
  ASSUME Canonical, FileInv, Admin
  PROVE  Membership' /\ SettingsFit' /\ WeightsFit'
<1>1. URLs = Raws
  BY DEF URLs, Canonical
<1>2. admin \in [Raws -> {"nothing", "added", "removed"}]
  BY <1>1 DEF FileInv, ReloadInv, TypeOK
<1>3. PICK u \in Raws :
        /\ UNCHANGED <<stage, currentCfg, newCfg, todo, up, algorithm, health>>
        /\ \/ /\ admin' = [admin EXCEPT ![u] = "added"] /\ UNCHANGED byURL
              /\ \E w : pool' = With(pool, u, w)
           \/ /\ admin' = [admin EXCEPT ![u] = "removed"] /\ byURL' = byURL \ {u}
              /\ pool' = Without(pool, u)
  BY <1>1 DEF Admin, AdminAdd, AdminRemove
<1>4. /\ \/ admin'[u] = "added" /\ u \in Pooled'
         \/ admin'[u] = "removed" /\ u \notin Pooled'
      /\ \A x \in Raws : x # u => admin'[x] = admin[x]
      /\ \A x : x # u => (x \in Pooled' <=> x \in Pooled) /\ (x \in byURL => x \in byURL')
      /\ \A x \in Pooled' : x # u => pool'[x] = pool[x]
  BY <1>2, <1>3 DEF Pooled, With, Without
<1>5. Old' = Old /\ New' = New /\ Expected' = Expected
  BY <1>3 DEF Old, New, Expected
<1>6. Membership'
  <2>1. ASSUME NEW x \in Raws, x # u
        PROVE  /\ admin'[x] = admin[x]
               /\ x \in Pooled' <=> x \in Pooled
               /\ x \in Expected' <=> x \in Expected
               /\ x \in up' <=> x \in up
    BY <1>3, <1>4, <1>5, <2>1
  <2>2. QED
    BY <1>4, <2>1 DEF FileInv, Membership
<1>7. WeightsFit'
  <2>1. SUFFICES ASSUME NEW x \in Raws, admin'[x] = "nothing", x \in Pooled'
                 PROVE  HasWeight(x)'
    BY DEF WeightsFit
  <2>2. x # u /\ admin[x] = "nothing" /\ x \in Pooled /\ pool'[x] = pool[x]
    BY <1>4, <2>1
  <2>3. HasWeight(x) /\ (x \in byURL => x \in byURL')
    BY <1>4, <2>2 DEF FileInv, WeightsFit
  <2>4. QED
    BY <1>3, <1>5, <2>2, <2>3 DEF HasWeight
<1>8. QED
  BY <1>3, <1>6, <1>7 DEF FileInv, SettingsFit

LEMMA FileInvInit == ASSUME Canonical, Init PROVE FileInv
<1>1. ReloadInv
  BY ReloadInvInit
<1>2. /\ stage = "wait"
      /\ pool = [u \in {Canon[raw] : raw \in Old} |->
                     Weights(currentCfg)[CHOOSE raw \in Old : Canon[raw] = u]]
      /\ up = Pooled
      /\ algorithm = currentCfg["pool.algorithm"]
      /\ health = NewHealthChecker(currentCfg)
      /\ admin = [u \in URLs |-> "nothing"]
  BY DEF Init, Old
<1>3. Old \subseteq Raws /\ URLs = Raws /\ Expected = Old
  BY <1>1, <1>2 DEF ReloadInv, ConfigsChecked, Checked, IsConfig, Old, URLs, Canonical, Expected
<1>4. Pooled = Old
  BY <1>2, <1>3 DEF Pooled, Canonical
<1>5. ASSUME NEW u \in Old
      PROVE  pool[u] = Weights(currentCfg)[u]
  <2>1. (CHOOSE raw \in Old : Canon[raw] = u) = u
    BY <1>3 DEF Canonical
  <2>2. u \in {Canon[raw] : raw \in Old}
    BY <1>3 DEF Canonical
  <2>3. QED
    BY <1>2, <2>1, <2>2
<1>6. Membership /\ SettingsFit
  BY <1>2, <1>3, <1>4 DEF Membership, SettingsFit
<1>7. WeightsFit
  BY <1>2, <1>4, <1>5 DEF WeightsFit, HasWeight
<1>8. QED
  BY <1>1, <1>6, <1>7 DEF FileInv

LEMMA FileInvNext == ASSUME Canonical, FileInv, [Next]_vars PROVE FileInv'
<1>1. ReloadInv'
  BY ReloadInvNext DEF FileInv
<1>2. CASE Next
  <2>1. Membership' /\ SettingsFit' /\ WeightsFit'
    BY <1>2, SignalsKeepFile, RereadKeepsFile, AddBackendKeepsFile, RemoveKeepsFile,
       SetWeightKeepsFile, AdvanceKeepsFile, FinishKeepsFile, AdminKeepsFile
       DEF Next, Goroutine
  <2>2. QED
    BY <1>1, <2>1 DEF FileInv
<1>3. CASE UNCHANGED vars
  <2>1. /\ UNCHANGED <<stage, currentCfg, newCfg, todo, byURL, pool, up, algorithm,
                       health, admin>>
        /\ Old' = Old /\ New' = New /\ Pooled' = Pooled
    BY <1>3 DEF vars, running, Old, New, Pooled
  <2>2. Expected' = Expected
    BY <2>1 DEF Expected
  <2>3. Membership' /\ SettingsFit' /\ WeightsFit'
    BY <2>1, <2>2 DEF FileInv, Membership, SettingsFit, WeightsFit, HasWeight
  <2>4. QED
    BY <1>1, <2>3 DEF FileInv
<1>4. QED
  BY <1>2, <1>3

(***************************************************************************)
(* A reload amounts to a restart with the new file, whatever the files are *)
(* and whatever the admin API does meanwhile (reload.go:146-186).          *)
(***************************************************************************)
THEOREM RestartInPlace == ASSUME Canonical PROVE Spec => []ReloadIsRestart
<1>1. FileInv => ReloadIsRestart
  <2>1. SUFFICES ASSUME FileInv, stage = "wait" PROVE ReloadIsRestart
    BY DEF ReloadIsRestart
  <2>2. URLs = Raws /\ Expected = Old /\ Old \subseteq Raws
    BY <2>1 DEF URLs, Canonical, Expected, FileInv, ReloadInv, ConfigsChecked, Checked,
                IsConfig, Old
  <2>3. \A u \in Raws : Wanted(u) <=> u \in Old
    BY <2>2 DEF Wanted, Canonical, Old
  <2>4. admin \in [Raws -> {"nothing", "added", "removed"}]
    BY <2>1, <2>2 DEF FileInv, ReloadInv, TypeOK
  <2>5. QED
    BY <2>1, <2>2, <2>3, <2>4 DEF FileInv, Membership, SettingsFit, ReloadIsRestart
<1>2. Init => FileInv
  BY FileInvInit
<1>3. FileInv /\ [Next]_vars => FileInv'
  BY FileInvNext
<1>4. QED
  BY <1>1, <1>2, <1>3, PTL DEF Spec

(***************************************************************************)
(* No weight of the file is lost or set on the wrong struct                *)
(* (reload.go:163-174).                                                    *)
(***************************************************************************)
THEOREM WeightsOfFile == ASSUME Canonical PROVE Spec => []WeightsFollowFile
<1>1. FileInv => WeightsFollowFile
  <2>1. SUFFICES ASSUME FileInv, stage = "wait", NEW raw \in Old,
                        raw \in Pooled, admin[raw] = "nothing"
                 PROVE  pool[raw] = Weights(currentCfg)[raw]
    <3>1. FileInv => Old \subseteq Raws
      BY DEF FileInv, ReloadInv, ConfigsChecked, Checked, IsConfig, Old
    <3>2. QED
      BY <3>1 DEF WeightsFollowFile, Canonical, Old
  <2>2. raw \in Raws
    BY <2>1 DEF FileInv, ReloadInv, ConfigsChecked, Checked, IsConfig, Old
  <2>3. QED
    BY <2>1, <2>2 DEF FileInv, WeightsFit, HasWeight
<1>2. Init => FileInv
  BY FileInvInit
<1>3. FileInv /\ [Next]_vars => FileInv'
  BY FileInvNext
<1>4. QED
  BY <1>1, <1>2, <1>3, PTL DEF Spec

(***************************************************************************)
(* At no moment of a reload is the pool empty, unless the admin API took   *)
(* a backend out (reload.go:145-160, main.go:299).                         *)
(***************************************************************************)
THEOREM PoolNeverEmpty == ASSUME Canonical PROVE Spec => []NeverEmpty
<1>1. FileInv => NeverEmpty
  <2>1. SUFFICES ASSUME FileInv, \A u \in URLs : admin[u] # "removed"
                 PROVE  Pooled # {}
    BY DEF NeverEmpty
  <2>2. /\ URLs = Raws
        /\ Old # {} /\ New # {} /\ Old \subseteq Raws /\ New \subseteq Raws
        /\ stage = "add" => todo \subseteq New \ Old
    BY <2>1, TodoFacts DEF URLs, Canonical, FileInv, ReloadInv, ConfigsChecked, Checked,
                IsConfig, LoopsFit, Old, New
  <2>3. PICK u \in Raws : u \in Expected
    <3>1. Old \subseteq Expected \/ New \subseteq Expected
      BY <2>2 DEF Expected
    <3>2. QED
      BY <2>2, <3>1
  <2>4. admin[u] \in {"nothing", "added"}
    BY <2>1, <2>2 DEF FileInv, ReloadInv, TypeOK
  <2>5. QED
    BY <2>1, <2>3, <2>4 DEF FileInv, Membership
<1>2. Init => FileInv
  BY FileInvInit
<1>3. FileInv /\ [Next]_vars => FileInv'
  BY FileInvNext
<1>4. QED
  BY <1>1, <1>2, <1>3, PTL DEF Spec

-----------------------------------------------------------------------------
(***************************************************************************)
(* Process: the reload inside the running program, and its end.            *)
(***************************************************************************)

\* Main server and admin server go down in this order, after the signal.
DrainInv ==
    /\ server \in [Servers -> {"none", "open", "draining", "closed"}]
    /\ closing \in 1 .. 4
    /\ expired \in BOOLEAN /\ exited \in BOOLEAN
    /\ closing > 1 => stage = "shutdown"
    /\ closing > 2 => server["admin"] \in {"none", "closed"} \/ expired
    /\ server["main"] # "open" => closing > 2

LEMMA OrderFacts ==
  /\ Len(Order) = 3
  /\ Order[1] = "metrics" /\ Order[2] = "admin" /\ Order[3] = "main"
  BY DEF Order

(* Whatever the process does is a step of Reload or leaves it alone. *)
LEMMA ProcessStep ==
  ASSUME [ProcessNext]_processVars
  PROVE  [Next]_vars
  BY DEF ProcessNext, Reloading, AdminRequest, Outside, Closes, CloseListener,
         ShutdownReturns, Expire, MainReturns, LastRequestEnds, processVars, Next

(* The goroutine does nothing any more once it shuts the servers down. *)
LEMMA GoroutineEnds ==
  ASSUME stage = "shutdown"
  PROVE  ~Goroutine
  BY DEF Goroutine, Receive, Reread, Advance, Finish, AddBackend, Remove, SetWeight, Take

LEMMA DrainInvInit ==
  ASSUME ProcessInit
  PROVE  DrainInv
<1>1. /\ server = [s \in Servers |-> IF s \in Configured(currentCfg) THEN "open" ELSE "none"]
      /\ closing = 1 /\ expired = FALSE /\ exited = FALSE
  BY DEF ProcessInit
<1>2. "main" \in Servers /\ "main" \in Configured(currentCfg)
  BY DEF Servers, Configured
<1>3. /\ server \in [Servers -> {"none", "open", "draining", "closed"}]
      /\ server["main"] = "open"
      /\ closing = 1
  BY <1>1, <1>2
<1>4. expired \in BOOLEAN /\ exited \in BOOLEAN
  BY <1>1
<1>5. QED
  BY <1>3, <1>4 DEF DrainInv

LEMMA DrainInvNext ==
  ASSUME DrainInv, [ProcessNext]_processVars
  PROVE  DrainInv'
<1> USE DEF DrainInv
<1> "main" \in Servers /\ "admin" \in Servers
  BY DEF Servers
<1>1. CASE Reloading
  <2>1. UNCHANGED <<server, closing, expired, exited>> /\ stage # "shutdown"
    BY <1>1, GoroutineEnds DEF Reloading, servers
  <2>2. QED
    BY <2>1
<1>2. CASE AdminRequest \/ Outside
  <2>1. UNCHANGED <<server, closing, expired, exited, stage>>
    BY <1>2 DEF AdminRequest, Outside, servers, Admin, AdminAdd, AdminRemove, Operator,
                WriteFile, SendHUP, SendTERM
  <2>2. QED
    BY <2>1
<1>3. CASE CloseListener
  <2>1. /\ stage = "shutdown" /\ server[Closing] = "open" /\ Closing # "nothing"
        /\ \E now \in {"draining", "closed"} : server' = [server EXCEPT ![Closing] = now]
        /\ UNCHANGED <<closing, expired, exited, stage>>
    BY <1>3 DEF CloseListener, vars
  <2>2. /\ closing \in 1 .. 3 /\ Closing = Order[closing]
    BY <2>1, OrderFacts DEF Closing
  <2>3. Closing = IF closing = 1 THEN "metrics" ELSE IF closing = 2 THEN "admin" ELSE "main"
    BY <2>2, OrderFacts
  <2>4. /\ server' \in [Servers -> {"none", "open", "draining", "closed"}]
        /\ closing > 2 => Closing = "main"
        /\ \A s \in Servers : s # Closing => server'[s] = server[s]
    <3>1. PICK now \in {"draining", "closed"} : server' = [server EXCEPT ![Closing] = now]
      BY <2>1
    <3>2. closing > 2 => Closing = "main"
      BY <2>2, <2>3
    <3>3. QED
      BY <3>1, <3>2
  <2>5. closing > 2 => server'["admin"] \in {"none", "closed"} \/ expired
    BY <2>4
  <2>6. server'["main"] # "open" => closing > 2
    BY <2>2, <2>3, <2>4
  <2>7. QED
    BY <2>1, <2>4, <2>5, <2>6
<1>4. CASE ShutdownReturns
  <2>1. /\ stage = "shutdown" /\ server[Closing] # "open" /\ Closing # "nothing"
        /\ server[Closing] # "draining" \/ expired
        /\ closing' = closing + 1
        /\ UNCHANGED <<server, expired, exited, stage>>
    BY <1>4 DEF ShutdownReturns, MayReturn, vars
  <2>2. closing \in 1 .. 3 /\ Closing = Order[closing]
    BY <2>1, OrderFacts DEF Closing
  <2>3. closing = 2 => server["admin"] \in {"none", "closed"} \/ expired
    BY <2>1, <2>2, OrderFacts
  <2>4. QED
    BY <2>1, <2>2, <2>3
<1>5. CASE Expire \/ MainReturns
  <2>1. UNCHANGED <<server, closing, stage>> /\ (expired => expired')
        /\ expired' \in BOOLEAN /\ exited' \in BOOLEAN
    BY <1>5 DEF Expire, MainReturns, vars
  <2>2. QED
    BY <2>1
<1>6. ASSUME NEW s \in Servers, LastRequestEnds(s)
      PROVE  DrainInv'
  <2>1. /\ server[s] = "draining" /\ server' = [server EXCEPT ![s] = "closed"]
        /\ UNCHANGED <<closing, expired, exited, stage>>
    BY <1>6 DEF LastRequestEnds, vars
  <2>2. QED
    BY <2>1
<1>7. CASE UNCHANGED processVars
  BY <1>7 DEF processVars, vars, servers
<1>8. QED
  BY <1>1, <1>2, <1>3, <1>4, <1>5, <1>6, <1>7 DEF ProcessNext, Closes

(* While the main server drains before the deadline, no step touches what  *)
(* requests are balanced with.                                             *)
LEMMA QuietStep ==
  ASSUME DrainInv, [ProcessNext]_processVars, server["main"] # "open", ~expired
  PROVE  UNCHANGED running
<1>1. stage = "shutdown" /\ server["admin"] \in {"none", "closed"}
  BY DEF DrainInv
<1>2. CASE Outside
  BY <1>2 DEF Outside, Operator, WriteFile, SendHUP, SendTERM
<1>3. CASE ~Reloading /\ ~AdminRequest /\ ~Outside
  <2>1. UNCHANGED vars
    BY <1>3 DEF ProcessNext, Closes, CloseListener, ShutdownReturns, Expire, MainReturns,
                LastRequestEnds, processVars
  <2>2. QED
    BY <2>1 DEF vars
<1>4. ~Reloading /\ ~AdminRequest
  BY <1>1, GoroutineEnds DEF Reloading, AdminRequest
<1>5. QED
  BY <1>2, <1>3, <1>4

(***************************************************************************)
(* The program implements Reload: what was proved of every behaviour of    *)
(* Reload holds while the servers run and while they go down.              *)
(***************************************************************************)
THEOREM ProcessReloads == ProcessSpec => Spec
<1>1. ProcessInit => Init
  BY DEF ProcessInit
<1>2. [ProcessNext]_processVars => [Next]_vars
  BY ProcessStep
<1>3. QED
  BY <1>1, <1>2, PTL DEF ProcessSpec, Spec

(***************************************************************************)
(* All of the program keeps its types, and no server is shut down before   *)
(* the goroutine took the signal (main.go:316-333).                        *)
(***************************************************************************)
THEOREM ProcessTypeCorrect == ProcessSpec => []ProcessTypeOK
<1>1. ProcessInit => DrainInv
  BY DrainInvInit
<1>2. DrainInv /\ [ProcessNext]_processVars => DrainInv'
  BY DrainInvNext
<1>3. TypeOK /\ DrainInv => ProcessTypeOK
  BY OrderFacts DEF DrainInv, ProcessTypeOK
<1>4. QED
  BY <1>1, <1>2, <1>3, ProcessReloads, TypeCorrect, PTL DEF ProcessSpec

(***************************************************************************)
(* Admin drains first: from the moment the main server stops accepting,    *)
(* and before the deadline, nobody changes pool, algorithm, health check   *)
(* (main.go:328-333).                                                      *)
(***************************************************************************)
THEOREM DrainIsQuiet == ProcessSpec => QuietDrain
<1>1. ProcessInit => DrainInv
  BY DrainInvInit
<1>2. DrainInv /\ [ProcessNext]_processVars => DrainInv'
  BY DrainInvNext
<1>3. DrainInv /\ [ProcessNext]_processVars
        => [server["main"] # "open" /\ ~expired => UNCHANGED running]_processVars
  BY QuietStep
<1>4. QED
  BY <1>1, <1>2, <1>3, PTL DEF ProcessSpec, QuietDrain

(***************************************************************************)
(* With the theorems about Reload this gives, of the program itself: it    *)
(* never runs a part with parameters it cannot run with, and, if URLs are  *)
(* written canonically, reloads amount to restarts that never empty the    *)
(* pool.                                                                   *)
(***************************************************************************)
THEOREM ProcessFollowsFile ==
  ASSUME Canonical
  PROVE  ProcessSpec => []( ParametersUsable /\ ReloadIsRestart
                            /\ WeightsFollowFile /\ NeverEmpty )
  BY ProcessReloads, AlwaysUsable, RestartInPlace, WeightsOfFile, PoolNeverEmpty, PTL
=============================================================================
