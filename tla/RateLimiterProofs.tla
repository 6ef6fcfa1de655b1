------------------------- MODULE RateLimiterProofs -------------------------
(***************************************************************************)
(* Proofs about RateLimiter: its types, that the bucket in use is the fair *)
(* one, that the answer to a refused request is long enough, and that the  *)
(* limiter implements TokenBucket.                                         *)
(***************************************************************************)
EXTENDS RateLimiter, TLAPS

\* A new entry is full and in the hands of the request that made it alone.
Fresh(c) == /\ ref[c] \in Buckets \ (evicted \cup {entry})
            /\ tokens[ref[c]] = Burst
            /\ \A d \in Callers : ref[d] = ref[c] => d = c

\* A held bucket is the one in use or was evicted under the request.
InUse(c) == ref[c] \in Buckets /\ (ref[c] = entry \/ ref[c] \in evicted)

\* What the place of a request in the code says about its entry.
Position(c) ==
    /\ pc[c] \in {"none", "load"} => ref[c] = NoEntry
    /\ pc[c] \in {"load", "store", "stamp"} => perIPOn
    /\ pc[c] = "store" => Fresh(c)
    /\ pc[c] \in {"stamp", "allow", "refused"} => InUse(c)
    /\ pc[c] = "allow" /\ perIPOn => unseen[ref[c]] <= MaxLag + lag[c]

Positions == \A c \in Callers : Position(c)

EvictedHeld == \A b \in evicted : \E c \in Callers : ref[c] = b

\* A bucket was idle for nearly as long as its entry was unseen.
IdleKept == perIPOn => \A b \in Buckets : unseen[b] <= idle[b] + 2 * MaxLag

\* The bucket in use is the fair one; without one the fair one is full.
FairKept == /\ fair \in 0 .. Burst
            /\ entry # NoEntry /\ ~doomed => Refilled(entry) = fair
            /\ entry = NoEntry \/ doomed => fair = Burst

LimiterInv == /\ TypeOK
              /\ Positions
              /\ EvictedHeld
              /\ IdleKept
              /\ FairKept

-----------------------------------------------------------------------------
(* What the assumption says of the constants, one by one. *)
LEMMA Constants ==
  /\ Unit \in Nat /\ Unit > 0
  /\ Rate \in Nat /\ Rate > 0
  /\ Burst \in Nat /\ Burst >= Unit
  /\ MaxLag \in Nat
  /\ Long \in Nat /\ Long = IdleFor + 1
  /\ (Long - 2 * MaxLag) * Rate >= Burst
  /\ NoEntry \notin Buckets
  BY RateLimiterAssumption DEF Long

(* More seconds bring back at least as many tokens. *)
LEMMA MoreSeconds ==
  ASSUME NEW m \in Int, NEW n \in Int, m <= n
  PROVE  m * Rate <= n * Rate
<1>1. (n - m) * Rate >= 0
  BY Constants
<1>2. QED
  BY <1>1, Constants

(* After Long - 2 * MaxLag seconds without a request a bucket is full. *)
LEMMA LongEnough ==
  ASSUME NEW n \in Int, n >= Long - 2 * MaxLag
  PROVE  n * Rate >= Burst
<1>1. (Long - 2 * MaxLag) * Rate <= n * Rate
  BY MoreSeconds, Constants
<1>2. n * Rate \in Int /\ (Long - 2 * MaxLag) * Rate \in Int
  BY Constants
<1>3. QED
  BY <1>1, <1>2, Constants

(* A request is never so late that its entry is old at once. *)
LEMMA LagFits == MaxLag <= Long
<1>1. Long - 2 * MaxLag > 0
  <2>1. SUFFICES ASSUME Long - 2 * MaxLag <= 0 PROVE FALSE
    BY Constants
  <2>2. (Long - 2 * MaxLag) * Rate <= 0 * Rate
    BY <2>1, MoreSeconds, Constants
  <2>3. QED
    BY <2>2, Constants
<1>2. QED
  BY <1>1, Constants

(* The seconds a refused request is told: enough, and not one too many. *)
LEMMA CeilingOfSeconds ==
  ASSUME NEW x \in Int, x > 0
  PROVE  LET s == (x + Rate - 1) \div Rate
         IN  s \in Int /\ s * Rate >= x /\ (s - 1) * Rate < x
<1> DEFINE s == (x + Rate - 1) \div Rate
<1>1. s \in Int /\ s * Rate <= x + Rate - 1 /\ x + Rate - 1 < (s + 1) * Rate
  BY Constants
<1>2. /\ (s + 1) * Rate = s * Rate + Rate
      /\ (s - 1) * Rate = s * Rate - Rate
      /\ s * Rate \in Int
  BY <1>1, Constants
<1>3. QED
  BY <1>1, <1>2, Constants

(* A refill leaves between nothing and the burst, and a full bucket full. *)
LEMMA RefillRange ==
  ASSUME NEW t \in 0 .. Burst, NEW i \in Nat
  PROVE  /\ i * Rate \in Nat
         /\ Least(Burst, t + i * Rate) \in 0 .. Burst
         /\ t = Burst \/ i * Rate >= Burst => Least(Burst, t + i * Rate) = Burst
<1>1. i * Rate \in Nat
  BY Constants
<1>2. QED
  BY <1>1, Constants DEF Least

(* Forgetting who nobody holds keeps the types and the buckets in use. *)
LEMMA ForgetFacts ==
  ASSUME TypeOK, Forget
  PROVE  /\ tokens' \in [Buckets -> 0 .. Burst]
         /\ idle' \in [Buckets -> 0 .. Long]
         /\ unseen' \in [Buckets -> 0 .. Long]
         /\ \A b \in Buckets : b \in Live' => UNCHANGED <<tokens[b], idle[b], unseen[b]>>
         /\ IdleKept /\ UNCHANGED perIPOn => IdleKept'
<1>1. 0 \in 0 .. Long /\ Burst \in 0 .. Burst
  BY Constants
<1>2. /\ tokens' \in [Buckets -> 0 .. Burst]
      /\ \A b \in Buckets : tokens'[b] = IF b \in Live' THEN tokens[b] ELSE Burst
  BY <1>1 DEF TypeOK, Forget, Keep
<1>3. /\ idle' \in [Buckets -> 0 .. Long]
      /\ \A b \in Buckets : idle'[b] = IF b \in Live' THEN idle[b] ELSE 0
  BY <1>1 DEF TypeOK, Forget, Keep
<1>4. /\ unseen' \in [Buckets -> 0 .. Long]
      /\ \A b \in Buckets : unseen'[b] = IF b \in Live' THEN unseen[b] ELSE 0
  BY <1>1 DEF TypeOK, Forget, Keep
<1>5. IdleKept /\ UNCHANGED perIPOn => IdleKept'
  BY <1>3, <1>4, Constants DEF IdleKept
<1>6. QED
  BY <1>2, <1>3, <1>4, <1>5

(* A request that does not move keeps its position if its bucket does. *)
LEMMA StaysInPosition ==
  ASSUME NEW d \in Callers, Position(d),
         UNCHANGED <<perIPOn, pc[d], ref[d]>>,
         pc[d] \in {"stamp", "allow", "refused"} /\ InUse(d) => InUse(d)',
         pc[d] = "store" /\ Fresh(d) => Fresh(d)',
         pc[d] = "allow" /\ perIPOn /\ unseen[ref[d]] <= MaxLag + lag[d]
             => unseen'[ref[d]] <= MaxLag + lag'[d]
  PROVE  Position(d)'
  BY DEF Position

(* The fair bucket does not notice what happens to others. *)
LEMMA FairUntouched ==
  ASSUME FairKept, UNCHANGED <<entry, doomed, fair>>,
         entry # NoEntry => UNCHANGED <<tokens[entry], idle[entry]>>
  PROVE  FairKept'
  BY DEF FairKept, Refilled

-----------------------------------------------------------------------------
(* A request arrives with no entry, or with the global bucket. *)
LEMMA ArriveKeeps ==
  ASSUME LimiterInv, NEW c \in Callers, Arrive(c)
  PROVE  LimiterInv'
<1> USE DEF LimiterInv
<1>1. /\ pc[c] = "none" /\ ref[c] = NoEntry
      /\ pc' = [pc EXCEPT ![c] = IF perIPOn THEN "load" ELSE "allow"]
      /\ ref' = [ref EXCEPT ![c] = IF perIPOn THEN NoEntry ELSE entry]
      /\ lag' = [lag EXCEPT ![c] = 0]
      /\ UNCHANGED <<perIPOn, entry, tokens, idle, unseen, doomed, evicted, fair>>
  BY DEF Arrive, Goto, stored, Positions, Position
<1>2. TypeOK'
  BY <1>1, Constants DEF TypeOK
<1>3. ASSUME NEW d \in Callers, d # c
      PROVE  Position(d)'
  <2>1. UNCHANGED <<pc[d], ref[d], lag[d]>>
    BY <1>1, <1>3 DEF TypeOK
  <2>2. pc[d] = "store" /\ Fresh(d) => Fresh(d)'
    <3>1. SUFFICES ASSUME pc[d] = "store", Fresh(d) PROVE Fresh(d)'
      OBVIOUS
    <3>2. ref'[c] # ref[d]
      BY <1>1, <3>1, Constants DEF Fresh, TypeOK
    <3>3. QED
      BY <1>1, <2>1, <3>1, <3>2 DEF Fresh, TypeOK
  <2>3. Position(d)
    BY DEF Positions
  <2>4. QED
    BY <1>1, <2>1, <2>2, <2>3, StaysInPosition DEF InUse
<1>4. Position(c)'
  <2>1. CASE perIPOn
    BY <1>1, <2>1 DEF Position, TypeOK
  <2>2. CASE ~perIPOn
    BY <1>1, <2>2 DEF Position, InUse, TypeOK
  <2>3. QED
    BY <2>1, <2>2
<1>5. EvictedHeld'
  <2>1. ASSUME NEW b \in evicted
        PROVE  \E d \in Callers : ref'[d] = b
    <3>1. PICK d \in Callers : ref[d] = b
      BY DEF EvictedHeld
    <3>2. d # c
      BY <1>1, <3>1, Constants DEF TypeOK
    <3>3. QED
      BY <1>1, <3>1, <3>2 DEF TypeOK
  <2>2. QED
    BY <1>1, <2>1 DEF EvictedHeld
<1>6. IdleKept' /\ FairKept'
  BY <1>1, FairUntouched DEF IdleKept
<1>7. QED
  BY <1>2, <1>3, <1>4, <1>5, <1>6 DEF Positions

(* Load finds the entry in use, or makes one that nobody else has. *)
LEMMA LoadKeeps ==
  ASSUME LimiterInv, NEW c \in Callers, Load(c)
  PROVE  LimiterInv'
<1> USE DEF LimiterInv
<1>1. /\ pc[c] = "load" /\ ref[c] = NoEntry /\ perIPOn
      /\ UNCHANGED <<perIPOn, entry, doomed, lag, evicted, fair>>
  BY DEF Load, Positions, Position
<1>2. CASE entry # NoEntry
  <2>1. /\ ref' = [ref EXCEPT ![c] = entry]
        /\ pc' = [pc EXCEPT ![c] = "stamp"]
        /\ UNCHANGED <<tokens, idle, unseen>>
    BY <1>2 DEF Load, Goto, stored
  <2>2. TypeOK'
    BY <1>1, <1>2, <2>1 DEF TypeOK
  <2>3. ASSUME NEW d \in Callers, d # c
        PROVE  Position(d)'
    <3>1. UNCHANGED <<pc[d], ref[d], lag[d]>>
      BY <1>1, <2>1, <2>3 DEF TypeOK
    <3>2. pc[d] = "store" /\ Fresh(d) => Fresh(d)'
      <4>1. ASSUME Fresh(d), NEW e \in Callers, ref'[e] = ref[d]
            PROVE  e = d
        <5>1. e # c
          BY <1>1, <2>1, <4>1 DEF Fresh, TypeOK
        <5>2. ref[e] = ref[d]
          BY <2>1, <4>1, <5>1 DEF TypeOK
        <5>3. QED
          BY <4>1, <5>2 DEF Fresh
      <4>2. QED
        BY <1>1, <2>1, <3>1, <4>1 DEF Fresh
    <3>3. Position(d)
      BY DEF Positions
    <3>4. QED
      BY <1>1, <2>1, <3>1, <3>2, <3>3, StaysInPosition DEF InUse
  <2>4. Position(c)'
    BY <1>1, <1>2, <2>1 DEF Position, InUse, TypeOK
  <2>5. EvictedHeld'
    <3>1. ASSUME NEW b \in evicted
          PROVE  \E d \in Callers : ref'[d] = b
      <4>1. PICK d \in Callers : ref[d] = b
        BY DEF EvictedHeld
      <4>2. d # c
        BY <1>1, <4>1, Constants DEF TypeOK
      <4>3. QED
        BY <2>1, <4>1, <4>2 DEF TypeOK
    <3>2. QED
      BY <1>1, <3>1 DEF EvictedHeld
  <2>6. IdleKept' /\ FairKept'
    BY <1>1, <2>1, FairUntouched DEF IdleKept
  <2>7. QED
    BY <2>2, <2>3, <2>4, <2>5, <2>6 DEF Positions
<1>3. CASE entry = NoEntry
  <2>1. PICK b \in Buckets \ Live :
            /\ ref' = [ref EXCEPT ![c] = b]
            /\ tokens' = [tokens EXCEPT ![b] = Burst]
            /\ idle' = [idle EXCEPT ![b] = 0]
            /\ unseen' = [unseen EXCEPT ![b] = lag[c]]
    BY <1>3 DEF Load
  <2>2. pc' = [pc EXCEPT ![c] = "store"]
    BY <1>3 DEF Load, Goto
  <2>3. /\ b \in Buckets /\ b # entry
        /\ \A d \in Callers : ref[d] # b
        /\ b \notin evicted
    BY <2>1 DEF Live, EvictedHeld
  <2>4. lag[c] \in 0 .. MaxLag /\ MaxLag <= Long /\ lag[c] \in 0 .. Long
    BY LagFits, Constants DEF TypeOK
  <2>5. TypeOK'
    BY <1>1, <1>3, <2>1, <2>2, <2>4, Constants DEF TypeOK
  <2>6. ASSUME NEW d \in Callers, d # c
        PROVE  Position(d)'
    <3>1. /\ UNCHANGED <<pc[d], ref[d], lag[d]>>
          /\ ref[d] # b
      BY <1>1, <2>1, <2>2, <2>3, <2>6 DEF TypeOK
    <3>2. ref[d] \in Buckets => UNCHANGED <<tokens[ref[d]], unseen[ref[d]]>>
      BY <2>1, <3>1 DEF TypeOK
    <3>3. pc[d] = "store" /\ Fresh(d) => Fresh(d)'
      <4>1. ASSUME Fresh(d), NEW e \in Callers, ref'[e] = ref[d]
            PROVE  e = d
        <5>1. e # c
          BY <2>1, <3>1, <4>1 DEF TypeOK
        <5>2. ref[e] = ref[d]
          BY <2>1, <4>1, <5>1 DEF TypeOK
        <5>3. QED
          BY <4>1, <5>2 DEF Fresh
      <4>2. QED
        BY <1>1, <2>1, <3>1, <3>2, <4>1 DEF Fresh
    <3>4. Position(d)
      BY DEF Positions
    <3>5. pc[d] = "allow" /\ perIPOn => ref[d] \in Buckets
      BY <3>4 DEF Position, InUse
    <3>6. QED
      BY <1>1, <2>1, <3>1, <3>2, <3>3, <3>4, <3>5, StaysInPosition DEF InUse
  <2>7. Position(c)'
    <3>1. Fresh(c)'
      BY <1>1, <2>1, <2>3 DEF Fresh, TypeOK
    <3>2. QED
      BY <1>1, <2>2, <3>1 DEF Position, TypeOK
  <2>8. EvictedHeld'
    <3>1. ASSUME NEW a \in evicted
          PROVE  \E d \in Callers : ref'[d] = a
      <4>1. PICK d \in Callers : ref[d] = a
        BY DEF EvictedHeld
      <4>2. d # c
        BY <1>1, <4>1, Constants DEF TypeOK
      <4>3. QED
        BY <2>1, <4>1, <4>2 DEF TypeOK
    <3>2. QED
      BY <1>1, <3>1 DEF EvictedHeld
  <2>9. IdleKept'
    BY <1>1, <2>1, <2>4, Constants DEF IdleKept, TypeOK
  <2>10. FairKept'
    BY <1>1, <1>3, FairUntouched
  <2>11. QED
    BY <2>5, <2>6, <2>7, <2>8, <2>9, <2>10 DEF Positions
<1>4. QED
  BY <1>2, <1>3

(* LoadOrStore stores the fresh entry, or takes the one of somebody faster. *)
LEMMA LoadOrStoreKeeps ==
  ASSUME LimiterInv, NEW c \in Callers, LoadOrStore(c)
  PROVE  LimiterInv'
<1> USE DEF LimiterInv
<1>1. /\ pc[c] = "store"
      /\ entry' = Winner(ref[c])
      /\ ref' = [ref EXCEPT ![c] = entry']
      /\ pc' = [pc EXCEPT ![c] = "stamp"]
      /\ Forget
      /\ UNCHANGED <<perIPOn, doomed, lag, evicted, fair>>
  BY DEF LoadOrStore, Goto
<1>2. Fresh(c) /\ perIPOn
  BY <1>1 DEF Positions, Position
<1>3. /\ entry' \in Buckets
      /\ entry # NoEntry => entry' = entry
      /\ entry = NoEntry => entry' = ref[c]
      /\ entry' \notin evicted
  BY <1>1, <1>2, Constants DEF Winner, Fresh, TypeOK
<1>4. /\ entry' \in Live'
      /\ \A d \in Callers : ref'[d] \in Live'
  BY DEF Live
<1>5. \A d \in Callers : ref'[d] = IF d = c THEN entry' ELSE ref[d]
  BY <1>1 DEF TypeOK
<1>6. /\ tokens' \in [Buckets -> 0 .. Burst]
      /\ idle' \in [Buckets -> 0 .. Long]
      /\ unseen' \in [Buckets -> 0 .. Long]
      /\ \A b \in Buckets : b \in Live' => UNCHANGED <<tokens[b], idle[b], unseen[b]>>
      /\ IdleKept'
  BY <1>1, ForgetFacts
<1>7. TypeOK'
  BY <1>1, <1>2, <1>3, <1>6, Constants DEF TypeOK
<1>8. ASSUME NEW d \in Callers, d # c
      PROVE  Position(d)'
  <2>1. UNCHANGED <<pc[d], ref[d], lag[d]>>
    BY <1>1, <1>8 DEF TypeOK
  <2>2. pc[d] = "store" /\ Fresh(d) => Fresh(d)'
    <3>1. SUFFICES ASSUME Fresh(d) PROVE Fresh(d)'
      OBVIOUS
    <3>2. ref[d] # ref[c]
      BY <1>2, <1>8 DEF Fresh
    <3>3. ref[d] # entry'
      BY <1>3, <3>1, <3>2, Constants DEF Fresh, TypeOK
    <3>4. tokens'[ref[d]] = Burst
      BY <1>4, <1>6, <2>1, <3>1 DEF Fresh
    <3>5. ASSUME NEW e \in Callers, ref'[e] = ref[d] PROVE e = d
      BY <1>5, <3>1, <3>3, <3>5 DEF Fresh
    <3>6. QED
      BY <1>1, <2>1, <3>1, <3>3, <3>4, <3>5 DEF Fresh
  <2>3. InUse(d) => InUse(d)'
    BY <1>1, <1>3, <2>1, Constants DEF InUse
  <2>4. ref[d] \in Buckets => UNCHANGED unseen[ref[d]]
    BY <1>4, <1>6, <2>1
  <2>5. Position(d)
    BY DEF Positions
  <2>6. pc[d] = "allow" => ref[d] \in Buckets
    BY <2>5 DEF Position, InUse
  <2>7. QED
    BY <1>1, <2>1, <2>2, <2>3, <2>4, <2>5, <2>6, StaysInPosition
<1>9. Position(c)'
  BY <1>1, <1>2, <1>3, <1>5 DEF Position, InUse, TypeOK
<1>10. EvictedHeld'
  <2>1. ASSUME NEW b \in evicted
        PROVE  \E d \in Callers : ref'[d] = b
    <3>1. PICK d \in Callers : ref[d] = b
      BY DEF EvictedHeld
    <3>2. d # c
      BY <1>2, <3>1 DEF Fresh
    <3>3. QED
      BY <1>5, <3>1, <3>2
  <2>2. QED
    BY <1>1, <2>1 DEF EvictedHeld
<1>11. FairKept'
  <2>1. CASE entry = NoEntry
    <3>1. fair = Burst /\ ~doomed
      BY <2>1 DEF FairKept, TypeOK
    <3>2. tokens'[entry'] = Burst /\ idle'[entry'] \in Nat
      <4>1. ref[c] \in Buckets /\ tokens[ref[c]] = Burst
        BY <1>2 DEF Fresh
      <4>2. QED
        BY <1>3, <1>4, <1>6, <2>1, <4>1, Constants
    <3>3. Refilled(entry)' = Burst
      <4>1. Burst \in 0 .. Burst
        BY Constants
      <4>2. QED
        BY <3>2, <4>1, RefillRange DEF Refilled
    <3>4. QED
      BY <1>1, <1>3, <3>1, <3>3, Constants DEF FairKept
  <2>2. CASE entry # NoEntry
    BY <1>1, <1>3, <1>4, <1>6, <2>2, FairUntouched
  <2>3. QED
    BY <2>1, <2>2
<1>12. QED
  BY <1>6, <1>7, <1>8, <1>9, <1>10, <1>11 DEF Positions

(* lastSeen is set to the time of the request, which is at most MaxLag old. *)
LEMMA StampKeeps ==
  ASSUME LimiterInv, NEW c \in Callers, Stamp(c)
  PROVE  LimiterInv'
<1> USE DEF LimiterInv
<1>1. /\ pc[c] = "stamp"
      /\ unseen' = [unseen EXCEPT ![ref[c]] = lag[c]]
      /\ pc' = [pc EXCEPT ![c] = "allow"]
      /\ UNCHANGED <<perIPOn, entry, tokens, idle, doomed, ref, lag, evicted, fair>>
  BY DEF Stamp, Goto
<1>2. perIPOn /\ InUse(c) /\ ref[c] \in Buckets
  BY <1>1 DEF Positions, Position, InUse
<1>3. lag[c] \in 0 .. MaxLag /\ lag[c] \in 0 .. Long
  BY Constants, LagFits DEF TypeOK
<1>4. TypeOK'
  BY <1>1, <1>2, <1>3 DEF TypeOK
<1>5. ASSUME NEW b \in Buckets
      PROVE  unseen'[b] = unseen[b] \/ (b = ref[c] /\ unseen'[b] <= MaxLag)
  BY <1>1, <1>2, <1>3, Constants DEF TypeOK
<1>6. ASSUME NEW d \in Callers, d # c
      PROVE  Position(d)'
  <2>1. UNCHANGED <<pc[d], ref[d], lag[d]>>
    BY <1>1, <1>6 DEF TypeOK
  <2>2. Position(d)
    BY DEF Positions
  <2>3. ASSUME pc[d] = "allow", perIPOn, unseen[ref[d]] <= MaxLag + lag[d]
        PROVE  unseen'[ref[d]] <= MaxLag + lag'[d]
    <3>1. ref[d] \in Buckets
      BY <2>2, <2>3 DEF Position, InUse
    <3>2. lag[d] \in Nat
      BY Constants DEF TypeOK
    <3>3. QED
      BY <1>5, <2>1, <2>3, <3>1, <3>2, <1>4, Constants DEF TypeOK
  <2>4. QED
    BY <1>1, <2>1, <2>2, <2>3, StaysInPosition DEF InUse, Fresh
<1>7. Position(c)'
  BY <1>1, <1>2, <1>3, Constants DEF Position, InUse, TypeOK
<1>8. EvictedHeld'
  BY <1>1 DEF EvictedHeld
<1>9. IdleKept'
  BY <1>1, <1>5, Constants DEF IdleKept, TypeOK
<1>10. FairKept'
  BY <1>1, FairUntouched
<1>11. QED
  BY <1>4, <1>6, <1>7, <1>8, <1>9, <1>10 DEF Positions

(* A request that is done lets go of a bucket that is no fresh one: the     *)
(* others keep their positions, and evicted ones that are held still are.  *)
LEMMA LeavingKeeps ==
  ASSUME TypeOK, Positions, EvictedHeld,
         NEW c \in Callers, pc[c] \in {"allow", "refused"}, Done(c),
         evicted' = evicted \cap Live', UNCHANGED <<perIPOn, entry>>,
         \A b \in Buckets : b \in Live' => /\ UNCHANGED unseen[b]
                                           /\ b # ref[c] => UNCHANGED tokens[b]
  PROVE  /\ Positions'
         /\ EvictedHeld'
         /\ pc' \in [Callers -> {"none", "load", "store", "stamp", "allow", "refused"}]
         /\ ref' \in [Callers -> Buckets \cup {NoEntry}]
         /\ lag' \in [Callers -> 0 .. MaxLag]
         /\ evicted' \subseteq Buckets \ {entry'}
<1>1. /\ pc' = [pc EXCEPT ![c] = "none"]
      /\ ref' = [ref EXCEPT ![c] = NoEntry]
      /\ lag' = [lag EXCEPT ![c] = 0]
  BY DEF Done, Goto
<1>2. InUse(c)
  BY DEF Positions, Position
<1>3. ASSUME NEW d \in Callers, d # c
      PROVE  Position(d)'
  <2>1. UNCHANGED <<pc[d], ref[d], lag[d]>> /\ ref'[d] \in Live'
    BY <1>1, <1>3 DEF TypeOK, Live
  <2>2. pc[d] = "store" /\ Fresh(d) => Fresh(d)'
    <3>1. SUFFICES ASSUME Fresh(d) PROVE Fresh(d)'
      OBVIOUS
    <3>2. ref[d] # ref[c]
      BY <1>2, <3>1 DEF Fresh, InUse
    <3>3. tokens'[ref[d]] = Burst
      BY <2>1, <3>1, <3>2 DEF Fresh
    <3>4. ASSUME NEW e \in Callers, ref'[e] = ref[d] PROVE e = d
      BY <1>1, <3>1, <3>4, Constants DEF Fresh, TypeOK
    <3>5. QED
      BY <2>1, <3>1, <3>3, <3>4 DEF Fresh
  <2>3. InUse(d) => InUse(d)'
    BY <2>1 DEF InUse
  <2>4. ref[d] \in Buckets => UNCHANGED unseen[ref[d]]
    BY <2>1
  <2>5. Position(d)
    BY DEF Positions
  <2>6. pc[d] = "allow" => ref[d] \in Buckets
    BY <2>5 DEF Position, InUse
  <2>7. QED
    BY <2>1, <2>2, <2>3, <2>4, <2>5, <2>6, StaysInPosition
<1>4. Position(c)'
  BY <1>1 DEF Position, TypeOK
<1>5. EvictedHeld'
  <2>1. ASSUME NEW b \in evicted'
        PROVE  \E d \in Callers : ref'[d] = b
    <3>1. b \in evicted /\ b \in Live' /\ b # entry'
      BY <2>1 DEF TypeOK
    <3>2. QED
      BY <3>1 DEF Live
  <2>2. QED
    BY <2>1 DEF EvictedHeld
<1>6. QED
  BY <1>1, <1>3, <1>4, <1>5, Constants DEF Positions, TypeOK

(* The answer to a refused request changes nothing else. *)
LEMMA AnswerKeeps ==
  ASSUME LimiterInv, NEW c \in Callers, Answer429(c)
  PROVE  LimiterInv'
<1> USE DEF LimiterInv
<1>1. /\ pc[c] = "refused" /\ Done(c) /\ Forget
      /\ evicted' = evicted \cap Live'
      /\ UNCHANGED <<perIPOn, entry, doomed, fair>>
  BY DEF Answer429
<1>2. /\ tokens' \in [Buckets -> 0 .. Burst]
      /\ idle' \in [Buckets -> 0 .. Long]
      /\ unseen' \in [Buckets -> 0 .. Long]
      /\ \A b \in Buckets : b \in Live' => UNCHANGED <<tokens[b], idle[b], unseen[b]>>
      /\ IdleKept'
  BY <1>1, ForgetFacts
<1>3. /\ Positions' /\ EvictedHeld'
      /\ pc' \in [Callers -> {"none", "load", "store", "stamp", "allow", "refused"}]
      /\ ref' \in [Callers -> Buckets \cup {NoEntry}]
      /\ lag' \in [Callers -> 0 .. MaxLag]
      /\ evicted' \subseteq Buckets \ {entry'}
  BY <1>1, <1>2, LeavingKeeps
<1>4. TypeOK'
  BY <1>1, <1>2, <1>3 DEF TypeOK
<1>5. entry # NoEntry => UNCHANGED <<tokens[entry], idle[entry]>>
  BY <1>1, <1>2 DEF Live, TypeOK
<1>6. QED
  BY <1>1, <1>2, <1>3, <1>4, <1>5, FairUntouched

-----------------------------------------------------------------------------
(* What allow does to the bucket and its clock, for any outcome. *)
LEMMA AllowFacts ==
  ASSUME LimiterInv, NEW c \in Callers, Allow(c)
  PROVE  /\ pc[c] = "allow" /\ InUse(c) /\ ref[c] \in Buckets
         /\ Refilled(ref[c]) \in 0 .. Burst
         /\ idle' \in [Buckets -> 0 .. Long]
         /\ unseen' \in [Buckets -> 0 .. Long]
         /\ \A b \in Buckets : b \in Live' =>
               /\ UNCHANGED unseen[b]
               /\ idle'[b] = IF b = ref[c] THEN 0 ELSE idle[b]
         /\ IdleKept'
<1> USE DEF LimiterInv
<1>1. /\ pc[c] = "allow" /\ perIPOn' = perIPOn
      /\ idle' = Keep([idle EXCEPT ![ref[c]] = 0], 0)
      /\ unseen' = Keep(unseen, 0)
  BY DEF Allow
<1>2. Position(c)
  BY DEF Positions
<1>3. InUse(c) /\ ref[c] \in Buckets
  BY <1>1, <1>2 DEF Position, InUse
<1>4. 0 \in 0 .. Long /\ lag[c] \in 0 .. MaxLag
  BY Constants DEF TypeOK
<1>5. Refilled(ref[c]) \in 0 .. Burst
  <2>1. tokens[ref[c]] \in 0 .. Burst /\ idle[ref[c]] \in Nat
    BY <1>3, Constants DEF TypeOK
  <2>2. QED
    BY <2>1, RefillRange DEF Refilled
<1>6. /\ idle' \in [Buckets -> 0 .. Long]
      /\ \A b \in Buckets : idle'[b] = IF b \in Live' /\ b # ref[c] THEN idle[b] ELSE 0
  BY <1>1, <1>3, <1>4 DEF Keep, TypeOK
<1>7. /\ unseen' \in [Buckets -> 0 .. Long]
      /\ \A b \in Buckets : unseen'[b] = IF b \in Live' THEN unseen[b] ELSE 0
  BY <1>1, <1>4 DEF Keep, TypeOK
<1>8. IdleKept'
  <2>1. SUFFICES ASSUME perIPOn, NEW b \in Buckets
                 PROVE  unseen'[b] <= idle'[b] + 2 * MaxLag
    BY <1>1 DEF IdleKept
  <2>2. CASE b \in Live' /\ b = ref[c]
    <3>1. unseen[b] <= MaxLag + lag[c]
      BY <1>1, <1>2, <2>1, <2>2 DEF Position
    <3>2. unseen'[b] = unseen[b] /\ idle'[b] = 0 /\ unseen[b] \in Nat
      BY <1>6, <1>7, <2>2, Constants DEF TypeOK
    <3>3. QED
      BY <1>4, <3>1, <3>2, Constants
  <2>3. CASE b \in Live' /\ b # ref[c]
    BY <1>6, <1>7, <2>1, <2>3 DEF IdleKept
  <2>4. CASE b \notin Live'
    BY <1>6, <1>7, <2>4, Constants
  <2>5. QED
    BY <2>2, <2>3, <2>4
<1>9. QED
  BY <1>1, <1>3, <1>5, <1>6, <1>7, <1>8

(* A request with a token takes it from its bucket, and from the fair one   *)
(* if that is the bucket in use.                                           *)
LEMMA GrantKeeps ==
  ASSUME LimiterInv, NEW c \in Callers, Allow(c), Refilled(ref[c]) >= Unit
  PROVE  LimiterInv'
<1> USE DEF LimiterInv
<1> DEFINE b == ref[c]
<1>1. /\ Done(c)
      /\ tokens' = Keep([tokens EXCEPT ![b] = Refilled(b) - Unit], Burst)
      /\ fair' = IF Charged(b) THEN fair - Unit ELSE fair
      /\ evicted' = evicted \cap Live'
      /\ UNCHANGED <<perIPOn, entry, doomed>>
  <2>1. ~(Refilled(b) < Unit)
    BY AllowFacts, Constants
  <2>2. QED
    BY <2>1 DEF Allow
<1>2. /\ pc[c] = "allow" /\ InUse(c) /\ b \in Buckets
      /\ Refilled(b) \in 0 .. Burst
      /\ idle' \in [Buckets -> 0 .. Long]
      /\ unseen' \in [Buckets -> 0 .. Long]
      /\ \A a \in Buckets : a \in Live' =>
            /\ UNCHANGED unseen[a]
            /\ idle'[a] = IF a = b THEN 0 ELSE idle[a]
      /\ IdleKept'
  BY AllowFacts
<1>3. Refilled(b) - Unit \in 0 .. Burst /\ Burst \in 0 .. Burst
  BY <1>2, Constants
<1>4. /\ tokens' \in [Buckets -> 0 .. Burst]
      /\ \A a \in Buckets : a \in Live' =>
            tokens'[a] = IF a = b THEN Refilled(b) - Unit ELSE tokens[a]
  BY <1>1, <1>2, <1>3 DEF Keep, TypeOK
<1>5. /\ Positions' /\ EvictedHeld'
      /\ pc' \in [Callers -> {"none", "load", "store", "stamp", "allow", "refused"}]
      /\ ref' \in [Callers -> Buckets \cup {NoEntry}]
      /\ lag' \in [Callers -> 0 .. MaxLag]
      /\ evicted' \subseteq Buckets \ {entry'}
  BY <1>1, <1>2, <1>4, LeavingKeeps
<1>6. TypeOK'
  BY <1>1, <1>2, <1>4, <1>5 DEF TypeOK
<1>7. FairKept'
  <2>1. entry # NoEntry => entry \in Buckets /\ entry \in Live' /\ entry' \in Buckets
    BY <1>1 DEF TypeOK, Live
  <2>2. CASE Charged(b)
    <3>1. b = entry /\ ~doomed /\ fair' = fair - Unit /\ b # NoEntry
      BY <1>1, <1>2, <2>2, Constants DEF Charged, InUse
    <3>2. fair = Refilled(b)
      BY <3>1 DEF FairKept
    <3>3. tokens'[b] = Refilled(b) - Unit /\ idle'[b] = 0
      BY <1>2, <1>4, <2>1, <3>1
    <3>4. Least(Burst, tokens'[b] + idle'[b] * Rate) = fair'
      BY <1>3, <3>1, <3>2, <3>3, Constants DEF Least
    <3>5. QED
      BY <1>1, <1>3, <3>1, <3>2, <3>4 DEF FairKept, Refilled
  <2>3. CASE ~Charged(b)
    <3>1. fair' = fair
      BY <1>1, <2>3
    <3>2. CASE doomed \/ entry = NoEntry
      BY <1>1, <3>1, <3>2 DEF FairKept
    <3>3. CASE ~doomed /\ entry # NoEntry
      <4>1. b # entry
        BY <2>3, <3>3 DEF Charged, TypeOK
      <4>2. UNCHANGED <<tokens[entry], idle[entry]>>
        BY <1>1, <1>2, <1>4, <2>1, <3>3, <4>1
      <4>3. QED
        BY <1>1, <3>1, <4>2, FairUntouched
    <3>4. QED
      BY <3>2, <3>3
  <2>4. QED
    BY <2>2, <2>3
<1>8. QED
  BY <1>2, <1>5, <1>6, <1>7

(* A request without a token has its bucket refilled and nothing taken. *)
LEMMA RefusalKeeps ==
  ASSUME LimiterInv, NEW c \in Callers, Allow(c), ~(Refilled(ref[c]) >= Unit)
  PROVE  LimiterInv'
<1> USE DEF LimiterInv
<1> DEFINE b == ref[c]
<1>1. /\ pc' = [pc EXCEPT ![c] = "refused"]
      /\ tokens' = [tokens EXCEPT ![b] = Refilled(b)]
      /\ evicted' = evicted \cap Live'
      /\ UNCHANGED <<perIPOn, entry, doomed, fair, ref, lag>>
  BY DEF Allow, Goto
<1>2. /\ pc[c] = "allow" /\ InUse(c) /\ b \in Buckets
      /\ Refilled(b) \in 0 .. Burst
      /\ idle' \in [Buckets -> 0 .. Long]
      /\ unseen' \in [Buckets -> 0 .. Long]
      /\ \A a \in Buckets : a \in Live' =>
            /\ UNCHANGED unseen[a]
            /\ idle'[a] = IF a = b THEN 0 ELSE idle[a]
      /\ IdleKept'
  BY AllowFacts
<1>3. evicted' = evicted /\ \A d \in Callers : ref[d] \in Live'
  BY <1>1 DEF EvictedHeld, Live
<1>4. TypeOK'
  BY <1>1, <1>2, <1>3 DEF TypeOK
<1>5. ASSUME NEW d \in Callers, d # c
      PROVE  Position(d)'
  <2>1. UNCHANGED <<pc[d], ref[d], lag[d]>>
    BY <1>1, <1>5 DEF TypeOK
  <2>2. ref[d] \in Buckets => UNCHANGED unseen[ref[d]]
    BY <1>2, <1>3, <2>1
  <2>3. pc[d] = "store" /\ Fresh(d) => Fresh(d)'
    <3>1. SUFFICES ASSUME Fresh(d) PROVE Fresh(d)'
      OBVIOUS
    <3>2. ref[d] # b
      BY <1>2, <3>1 DEF Fresh, InUse
    <3>3. tokens'[ref[d]] = Burst
      BY <1>1, <3>1, <3>2 DEF Fresh, TypeOK
    <3>4. QED
      BY <1>1, <1>3, <3>1, <3>3 DEF Fresh
  <2>4. Position(d)
    BY DEF Positions
  <2>5. pc[d] = "allow" => ref[d] \in Buckets
    BY <2>4 DEF Position, InUse
  <2>6. QED
    BY <1>1, <1>3, <2>1, <2>2, <2>3, <2>4, <2>5, StaysInPosition DEF InUse
<1>6. Position(c)'
  BY <1>1, <1>2, <1>3 DEF Position, InUse, TypeOK
<1>7. EvictedHeld'
  BY <1>1, <1>3 DEF EvictedHeld
<1>8. FairKept'
  <2>1. CASE entry = b /\ entry # NoEntry
    <3>1. tokens'[b] = Refilled(b) /\ idle'[b] = 0
      BY <1>1, <1>2, <1>3 DEF TypeOK
    <3>2. Refilled(b)' = Least(Burst, tokens'[b] + idle'[b] * Rate) /\ b' = b
      BY <1>1 DEF Refilled
    <3>3. Least(Burst, tokens'[b] + idle'[b] * Rate) = Refilled(b)
      BY <1>2, <3>1, Constants DEF Least
    <3>4. QED
      BY <1>1, <2>1, <3>2, <3>3 DEF FairKept, Refilled
  <2>2. CASE entry # NoEntry /\ entry # b
    <3>1. UNCHANGED <<tokens[entry], idle[entry]>>
      BY <1>1, <1>2, <2>2 DEF Live, TypeOK
    <3>2. QED
      BY <1>1, <3>1, FairUntouched
  <2>3. CASE entry = NoEntry
    BY <1>1, <2>3, FairUntouched
  <2>4. QED
    BY <2>1, <2>2, <2>3
<1>9. QED
  BY <1>2, <1>4, <1>5, <1>6, <1>7, <1>8 DEF Positions

-----------------------------------------------------------------------------
(* An entry not seen for IdleFor has a full bucket when cleanup finds it. *)
LEMMA FindOldKeeps ==
  ASSUME LimiterInv, FindOld
  PROVE  LimiterInv'
<1> USE DEF LimiterInv
<1>1. /\ perIPOn /\ entry # NoEntry /\ Old /\ ~doomed /\ doomed' = TRUE
      /\ UNCHANGED <<perIPOn, entry, tokens, idle, unseen, pc, ref, lag, evicted, fair>>
  BY DEF FindOld, stored, calls
<1>2. entry \in Buckets
  BY <1>1 DEF TypeOK
<1>3. /\ tokens[entry] \in 0 .. Burst
      /\ idle[entry] \in 0 .. Long
      /\ unseen[entry] \in 0 .. Long
      /\ unseen[entry] <= idle[entry] + 2 * MaxLag
      /\ unseen[entry] > IdleFor
  BY <1>1, <1>2 DEF TypeOK, IdleKept, Old
<1>4. idle[entry] >= Long - 2 * MaxLag /\ idle[entry] \in Nat
  BY <1>3, RateLimiterAssumption DEF Long
<1>5. Refilled(entry) = Burst
  <2>1. idle[entry] * Rate >= Burst
    BY <1>4, LongEnough
  <2>2. QED
    BY <1>3, <1>4, <2>1, RefillRange DEF Refilled
<1>6. FairKept'
  BY <1>1, <1>5 DEF FairKept
<1>7. TypeOK' /\ IdleKept' /\ EvictedHeld'
  BY <1>1 DEF TypeOK, IdleKept, EvictedHeld
<1>8. ASSUME NEW d \in Callers PROVE Position(d)'
  BY <1>1, <1>8 DEF Positions, Position, InUse, Fresh
<1>9. QED
  BY <1>6, <1>7, <1>8 DEF Positions

(* Deleting it turns the requests that hold it into holders of an evicted   *)
(* bucket, and the fair one is full, as the next new one will be.          *)
LEMMA DeleteKeeps ==
  ASSUME LimiterInv, Delete
  PROVE  LimiterInv'
<1> USE DEF LimiterInv
<1>1. /\ doomed /\ entry' = NoEntry /\ doomed' = FALSE
      /\ Forget
      /\ evicted' = (evicted \cup {entry}) \cap Live'
      /\ UNCHANGED <<perIPOn, pc, ref, lag, fair>>
  BY DEF Delete, calls
<1>2. perIPOn /\ entry \in Buckets /\ fair = Burst
  BY <1>1 DEF TypeOK, FairKept
<1>3. /\ tokens' \in [Buckets -> 0 .. Burst]
      /\ idle' \in [Buckets -> 0 .. Long]
      /\ unseen' \in [Buckets -> 0 .. Long]
      /\ \A b \in Buckets : b \in Live' => UNCHANGED <<tokens[b], idle[b], unseen[b]>>
      /\ IdleKept'
  BY <1>1, ForgetFacts
<1>4. \A d \in Callers : ref[d] \in Live'
  BY <1>1 DEF Live
<1>5. TypeOK'
  BY <1>1, <1>2, <1>3, Constants DEF TypeOK
<1>6. ASSUME NEW d \in Callers PROVE Position(d)'
  <2>1. Position(d)
    BY DEF Positions
  <2>2. ref[d] \in Buckets => UNCHANGED <<tokens[ref[d]], unseen[ref[d]]>>
    BY <1>1, <1>3, <1>4
  <2>3. InUse(d) => InUse(d)'
    BY <1>1, <1>4 DEF InUse
  <2>4. Fresh(d) => Fresh(d)'
    BY <1>1, <2>2, Constants DEF Fresh
  <2>5. pc[d] = "allow" => ref[d] \in Buckets
    BY <2>1 DEF Position, InUse
  <2>6. QED
    BY <1>1, <2>1, <2>2, <2>3, <2>4, <2>5, StaysInPosition
<1>7. EvictedHeld'
  <2>1. ASSUME NEW b \in evicted' PROVE \E d \in Callers : ref'[d] = b
    <3>1. b \in Live' /\ b \in Buckets
      BY <1>1, <1>2, <2>1 DEF TypeOK
    <3>2. QED
      BY <1>1, <3>1, Constants DEF Live
  <2>2. QED
    BY <2>1 DEF EvictedHeld
<1>8. FairKept'
  BY <1>1, <1>2, Constants DEF FairKept
<1>9. QED
  BY <1>3, <1>5, <1>6, <1>7, <1>8 DEF Positions

(* A second refills the bucket in use as it does the fair one. *)
LEMMA TickKeeps ==
  ASSUME LimiterInv, Tick
  PROVE  LimiterInv'
<1> USE DEF LimiterInv
<1>1. /\ \A c \in Callers : pc[c] # "none" => lag[c] < MaxLag
      /\ idle' = [b \in Buckets |-> IF b \in Live THEN Least(Long, idle[b] + 1) ELSE 0]
      /\ unseen' = [b \in Buckets |-> IF b \in Live THEN Least(Long, unseen[b] + 1) ELSE 0]
      /\ lag' = [c \in Callers |-> IF pc[c] = "none" THEN 0 ELSE lag[c] + 1]
      /\ fair' = Least(Burst, fair + Rate)
      /\ UNCHANGED <<perIPOn, entry, tokens, doomed, pc, ref, evicted>>
  BY DEF Tick
<1>2. ASSUME NEW n \in 0 .. Long
      PROVE  /\ Least(Long, n + 1) \in 0 .. Long
             /\ Least(Long, n + 1) <= n + 1
             /\ \/ n = Long /\ Least(Long, n + 1) = Long
                \/ Least(Long, n + 1) = n + 1
  <2>1. n \in Nat /\ n <= Long /\ Long \in Nat
    BY Constants
  <2>2. CASE n = Long
    BY <2>1, <2>2 DEF Least
  <2>3. CASE n < Long
    BY <2>1, <2>3 DEF Least
  <2>4. QED
    BY <2>1, <2>2, <2>3
<1>3. /\ idle' \in [Buckets -> 0 .. Long]
      /\ unseen' \in [Buckets -> 0 .. Long]
  BY <1>1, <1>2, Constants DEF TypeOK
<1>4. lag' \in [Callers -> 0 .. MaxLag]
  BY <1>1, Constants DEF TypeOK
<1>5. fair' \in 0 .. Burst
  BY <1>1, Constants DEF FairKept, Least
<1>6. TypeOK'
  BY <1>1, <1>3, <1>4 DEF TypeOK
<1>7. ASSUME NEW d \in Callers PROVE Position(d)'
  <2>1. Position(d)
    BY DEF Positions
  <2>2. ASSUME pc[d] = "allow", perIPOn, unseen[ref[d]] <= MaxLag + lag[d]
        PROVE  unseen'[ref[d]] <= MaxLag + lag'[d]
    <3>1. ref[d] \in Buckets /\ ref[d] \in Live
      BY <2>1, <2>2 DEF Position, InUse, Live
    <3>2. unseen'[ref[d]] <= unseen[ref[d]] + 1 /\ unseen[ref[d]] \in 0 .. Long
      BY <1>1, <1>2, <3>1 DEF TypeOK
    <3>3. lag'[d] = lag[d] + 1 /\ lag[d] \in 0 .. MaxLag
      BY <1>1, <2>2 DEF TypeOK
    <3>4. QED
      BY <1>3, <2>2, <3>1, <3>2, <3>3, Constants
  <2>3. QED
    BY <1>1, <2>1, <2>2, StaysInPosition DEF InUse, Fresh
<1>8. EvictedHeld'
  BY <1>1 DEF EvictedHeld
<1>9. IdleKept'
  <2>1. SUFFICES ASSUME perIPOn, NEW b \in Buckets
                 PROVE  unseen'[b] <= idle'[b] + 2 * MaxLag
    BY <1>1 DEF IdleKept
  <2>2. /\ unseen[b] \in 0 .. Long /\ idle[b] \in 0 .. Long
        /\ unseen[b] <= idle[b] + 2 * MaxLag
    BY <2>1 DEF TypeOK, IdleKept
  <2>3. CASE b \in Live
    <3>1. unseen'[b] = Least(Long, unseen[b] + 1) /\ idle'[b] = Least(Long, idle[b] + 1)
      BY <1>1, <2>3
    <3>2. QED
      BY <2>2, <3>1, Constants DEF Least
  <2>4. CASE b \notin Live
    BY <1>1, <2>4, Constants
  <2>5. QED
    BY <2>3, <2>4
<1>10. FairKept'
  <2>1. CASE entry = NoEntry \/ doomed
    BY <1>1, <2>1, Constants DEF FairKept, Least
  <2>2. CASE entry # NoEntry /\ ~doomed
    <3>1. entry \in Buckets /\ entry \in Live
      BY <2>2 DEF TypeOK, Live
    <3>2. /\ tokens[entry] \in 0 .. Burst
          /\ idle[entry] \in 0 .. Long /\ idle[entry] \in Nat
          /\ idle'[entry] = Least(Long, idle[entry] + 1)
      BY <1>1, <3>1, Constants DEF TypeOK
    <3>3. fair = Least(Burst, tokens[entry] + idle[entry] * Rate)
      BY <2>2 DEF FairKept, Refilled
    <3>4. Refilled(entry)' = Least(Burst, tokens[entry] + idle'[entry] * Rate)
      BY <1>1 DEF Refilled
    <3>5. idle[entry] * Rate \in Nat /\ (idle[entry] + 1) * Rate = idle[entry] * Rate + Rate
      BY <3>2, Constants
    <3>6. Least(Burst, tokens[entry] + idle'[entry] * Rate) = Least(Burst, fair + Rate)
      <4>1. CASE idle'[entry] = idle[entry] + 1
        BY <3>2, <3>3, <3>5, <4>1, Constants DEF Least
      <4>2. CASE idle[entry] = Long /\ idle'[entry] = Long
        <5>1. idle[entry] * Rate >= Burst
          BY <4>2, LongEnough, Constants
        <5>2. QED
          BY <3>2, <3>3, <3>5, <4>2, <5>1, Constants DEF Least
      <4>3. QED
        BY <1>2, <3>2, <4>1, <4>2
    <3>7. QED
      BY <1>1, <1>5, <2>2, <3>4, <3>6 DEF FairKept
  <2>3. QED
    BY <2>1, <2>2
<1>11. QED
  BY <1>6, <1>7, <1>8, <1>9, <1>10 DEF Positions

-----------------------------------------------------------------------------
(* The invariant holds at the start, and every step keeps it. *)
LEMMA LimiterInvInit == Init => LimiterInv
<1> SUFFICES ASSUME Init PROVE LimiterInv
  OBVIOUS
<1>1. TypeOK
  <2>1. /\ 0 \in 0 .. Long /\ 0 \in 0 .. MaxLag /\ Burst \in 0 .. Burst
        /\ entry \in Buckets \cup {NoEntry} /\ (~perIPOn => entry # NoEntry)
    BY Constants DEF Init
  <2>2. QED
    BY <2>1 DEF Init, TypeOK
<1>2. Positions /\ EvictedHeld /\ IdleKept
  BY Constants DEF Init, Positions, Position, EvictedHeld, IdleKept
<1>3. FairKept
  <2>1. Burst \in 0 .. Burst /\ 0 \in Nat
    BY Constants
  <2>2. ASSUME entry # NoEntry PROVE Refilled(entry) = Burst
    <3>1. entry \in Buckets /\ tokens[entry] = Burst /\ idle[entry] = 0
      BY <2>2 DEF Init
    <3>2. QED
      BY <2>1, <3>1, RefillRange DEF Refilled
  <2>3. QED
    BY <2>1, <2>2 DEF Init, FairKept
<1>4. QED
  BY <1>1, <1>2, <1>3 DEF LimiterInv

LEMMA LimiterInvNext == LimiterInv /\ [Next]_vars => LimiterInv'
<1> SUFFICES ASSUME LimiterInv, [Next]_vars PROVE LimiterInv'
  OBVIOUS
<1>1. CASE Next
  <2>1. ASSUME NEW c \in Callers, Allow(c) PROVE LimiterInv'
    BY <2>1, GrantKeeps, RefusalKeeps
  <2>2. QED
    BY <1>1, <2>1, ArriveKeeps, LoadKeeps, LoadOrStoreKeeps, StampKeeps, AnswerKeeps,
       FindOldKeeps, DeleteKeeps, TickKeeps DEF Next
<1>2. CASE UNCHANGED vars
  <2>1. UNCHANGED <<perIPOn, entry, tokens, idle, unseen, doomed, pc, ref, lag, evicted, fair>>
    BY <1>2 DEF vars, stored, calls
  <2>2. TypeOK' /\ EvictedHeld' /\ IdleKept' /\ FairKept'
    BY <2>1 DEF LimiterInv, TypeOK, EvictedHeld, IdleKept, FairKept, Refilled
  <2>3. Positions'
    BY <2>1 DEF LimiterInv, Positions, Position, Fresh, InUse
  <2>4. QED
    BY <2>2, <2>3 DEF LimiterInv
<1>3. QED
  BY <1>1, <1>2

(***************************************************************************)
(* Every variable of the limiter keeps its type: no bucket ever holds less *)
(* than nothing or more than the burst (ratelimit.go:39-52).               *)
(***************************************************************************)
THEOREM TypeCorrect == Spec => []TypeOK
<1>1. LimiterInv => TypeOK
  BY DEF LimiterInv
<1>2. QED
  BY <1>1, LimiterInvInit, LimiterInvNext, PTL DEF Spec

(***************************************************************************)
(* Whatever requests, entries and evictions there are, the bucket in use   *)
(* holds what a single bucket refilled all the time would                  *)
(* (ratelimit.go:107-129).                                                 *)
(***************************************************************************)
THEOREM OneFairBucket == Spec => []BucketIsFair
<1>1. LimiterInv => BucketIsFair
  BY Constants DEF LimiterInv, FairKept, BucketIsFair
<1>2. QED
  BY <1>1, LimiterInvInit, LimiterInvNext, PTL DEF Spec

(***************************************************************************)
(* That one is never overdrawn: no race of requests or with the eviction   *)
(* lets through more than the rate and the burst allow.                    *)
(***************************************************************************)
THEOREM NeverOverdrawn == Spec => []NeverMoreThanFair
<1>1. LimiterInv => NeverMoreThanFair
  BY Constants DEF LimiterInv, FairKept, NeverMoreThanFair
<1>2. QED
  BY <1>1, LimiterInvInit, LimiterInvNext, PTL DEF Spec

(***************************************************************************)
(* A refused request is told to wait long enough, and not a second longer, *)
(* for every rate, burst and fraction of a token that is left.             *)
(***************************************************************************)
THEOREM AnswerLongEnough == Spec => []RetryAfterEnough
<1>1. TypeOK => RetryAfterEnough
  <2> SUFFICES ASSUME TypeOK, entry # NoEntry
               PROVE  /\ Refilled(entry) + retryAfter * Rate >= Unit
                      /\ retryAfter = 1 \/ tokens[entry] + (retryAfter - 1) * Rate < Unit
    BY DEF RetryAfterEnough
  <2>1. /\ tokens[entry] \in 0 .. Burst /\ idle[entry] \in Nat
        /\ retryAfter = Seconds(entry)
    BY Constants DEF TypeOK, retryAfter
  <2>2. idle[entry] * Rate \in Nat /\ Refilled(entry) \in 0 .. Burst
    BY <2>1, RefillRange DEF Refilled
  <2>3. Refilled(entry) >= tokens[entry]
    BY <2>1, <2>2, Constants DEF Refilled, Least
  <2>4. CASE tokens[entry] >= Unit
    BY <2>1, <2>2, <2>3, <2>4, Constants DEF Seconds
  <2>5. CASE ~(tokens[entry] >= Unit)
    <3> DEFINE x == Unit - tokens[entry]
               s == (x + Rate - 1) \div Rate
    <3>1. x \in Int /\ x > 0
      BY <2>1, <2>5, Constants
    <3>2. s \in Int /\ s * Rate >= x /\ (s - 1) * Rate < x
      BY <3>1, CeilingOfSeconds
    <3>3. retryAfter = s
      BY <2>1, <2>5 DEF Seconds
    <3> HIDE DEF s
    <3>4. s * Rate \in Int /\ (s - 1) * Rate \in Int
      BY <3>2, Constants
    <3>5. QED
      BY <2>1, <2>2, <2>3, <3>2, <3>3, <3>4, Constants
  <2>6. QED
    BY <2>4, <2>5
<1>2. QED
  BY <1>1, TypeCorrect, PTL

-----------------------------------------------------------------------------
(***************************************************************************)
(* The refinement of TokenBucket.  The level of its bucket is that of the  *)
(* fair one, and the global bucket is never evicted.                       *)
(***************************************************************************)
BucketInv == LimiterInv /\ (~perIPOn => evicted = {})

LEMMA BucketInvNext == BucketInv /\ [Next]_vars => BucketInv'
<1> SUFFICES ASSUME BucketInv, [Next]_vars PROVE BucketInv'
  OBVIOUS
<1>1. LimiterInv'
  BY LimiterInvNext DEF BucketInv
<1>2. ASSUME ~perIPOn' PROVE evicted' = {}
  <2>1. ~perIPOn /\ evicted' \subseteq evicted
    <3>1. CASE UNCHANGED vars
      BY <1>2, <3>1 DEF vars
    <3>2. CASE Delete
      BY <1>2, <3>2 DEF Delete, BucketInv, LimiterInv, TypeOK
    <3>3. ASSUME NEW c \in Callers, Arrive(c) \/ Load(c) \/ LoadOrStore(c) \/ Stamp(c)
          PROVE  UNCHANGED <<perIPOn, evicted>>
      BY <3>3 DEF Arrive, Load, LoadOrStore, Stamp
    <3>4. ASSUME NEW c \in Callers, Allow(c) \/ Answer429(c)
          PROVE  perIPOn' = perIPOn /\ evicted' = evicted \cap Live'
      BY <3>4 DEF Allow, Answer429
    <3>5. CASE FindOld \/ Tick
      BY <1>2, <3>5 DEF FindOld, Tick
    <3>6. QED
      BY <1>2, <3>1, <3>2, <3>3, <3>4, <3>5 DEF Next
  <2>2. QED
    BY <2>1 DEF BucketInv
<1>3. QED
  BY <1>1, <1>2 DEF BucketInv

LEMMA LevelFollows ==
  ASSUME LimiterInv, LimiterInv'
  PROVE  Level = fair /\ Level' = fair' /\ fair \in 0 .. Burst
BY DEF LimiterInv, FairKept, Level

(* How a request looks at a label. *)
AsSeen(label) == IF label \in {"load", "store", "stamp", "allow"} THEN "asking" ELSE label

LEMMA StatusMoves ==
  ASSUME LimiterInv, NEW c \in Callers, NEW label, pc' = [pc EXCEPT ![c] = label]
  PROVE  /\ Status' = [Status EXCEPT ![c] = AsSeen(label)]
         /\ Status[c] = AsSeen(pc[c])
         /\ AsSeen(label) = AsSeen(pc[c]) => Status' = Status
BY DEF LimiterInv, TypeOK, Status, AsSeen

(* Whether the limiter has lost sight of a request depends on its place and *)
(* its bucket.                                                             *)
Astray(c) == pc[c] \in {"stamp", "allow"} /\ ~Charged(ref[c])

LEMMA OthersInSight ==
  ASSUME NEW c \in Callers, \A d \in Callers \ {c} : Astray(d)' <=> Astray(d)
  PROVE  /\ (Astray(c)' <=> Astray(c)) => Lost' = Lost
         /\ Astray(c)' => Lost' = Lost \cup {c}
         /\ ~Astray(c)' => Lost' = Lost \ {c}
         /\ c \in Lost <=> Astray(c)
BY DEF Lost, Astray

LEMMA KeepsSight ==
  ASSUME TypeOK, NEW c \in Callers, NEW label, pc' = [pc EXCEPT ![c] = label],
         NEW d \in Callers \ {c}, ref'[d] = ref[d],
         ref[d] \in evicted' <=> ref[d] \in evicted,
         doomed' /\ ref[d] = entry' <=> doomed /\ ref[d] = entry
  PROVE  Astray(d)' <=> Astray(d)
BY DEF TypeOK, Astray, Charged

(* What looks the same, and has the same level, is a stutter; while the    *)
(* bucket is full the limiter may lose sight of a request.                 *)
LEMMA Unnoticed ==
  ASSUME LimiterInv, LimiterInv', UNCHANGED <<perIPOn, fair>>, Status' = Status
  PROVE  /\ Lost' = Lost => UNCHANGED OneBucket!vars
         /\ perIPOn /\ fair = Burst /\ (\E more \in SUBSET Callers :
                /\ \A c \in more : Status[c] = "asking"
                /\ Lost' = Lost \cup more)
            => OneBucket!LoseSight
<1>1. UNCHANGED Level
  BY LevelFollows
<1>2. Lost' = Lost => UNCHANGED OneBucket!vars
  BY <1>1 DEF OneBucket!vars
<1>3. ASSUME perIPOn, fair = Burst, NEW more \in SUBSET Callers,
             \A c \in more : Status[c] = "asking", Lost' = Lost \cup more
      PROVE  OneBucket!LoseSight
  <2>1. more \in SUBSET {c \in Callers : Status[c] = "asking"}
    BY <1>3
  <2>2. QED
    BY <1>1, <1>3, <2>1, LevelFollows DEF OneBucket!LoseSight
<1>4. QED
  BY <1>2, <1>3

Simulated == OneBucket!Next \/ UNCHANGED OneBucket!vars

LEMMA ArriveSimulated ==
  ASSUME BucketInv, LimiterInv', NEW c \in Callers, Arrive(c)
  PROVE  Simulated
<1> USE DEF BucketInv, LimiterInv
<1>1. /\ pc[c] = "none" /\ pc' = [pc EXCEPT ![c] = IF perIPOn THEN "load" ELSE "allow"]
      /\ ref' = [ref EXCEPT ![c] = IF perIPOn THEN NoEntry ELSE entry]
      /\ UNCHANGED <<perIPOn, entry, doomed, evicted, fair>>
  BY DEF Arrive, Goto
<1>2. Status' = [Status EXCEPT ![c] = "asking"] /\ Status[c] = "none"
  BY <1>1, StatusMoves DEF AsSeen
<1>3. Lost' = Lost
  <2>1. ~Astray(c)
    BY <1>1 DEF Astray
  <2>2. ~Astray(c)'
    BY <1>1 DEF Astray, Charged, TypeOK
  <2>3. ASSUME NEW d \in Callers \ {c} PROVE Astray(d)' <=> Astray(d)
    BY <1>1, KeepsSight DEF TypeOK
  <2>4. QED
    BY <2>1, <2>2, <2>3, OthersInSight
<1>4. UNCHANGED Level
  BY <1>1, LevelFollows
<1>5. OneBucket!Ask(c)
  BY <1>1, <1>2, <1>3, <1>4 DEF OneBucket!Ask, OneBucket!From
<1>6. QED
  BY <1>5 DEF Simulated, OneBucket!Next

(* Load and LoadOrStore may find an entry that is about to be deleted. *)
LEMMA FindSimulated ==
  ASSUME BucketInv, LimiterInv', NEW c \in Callers, Load(c) \/ LoadOrStore(c)
  PROVE  Simulated
<1> USE DEF BucketInv, LimiterInv
<1>1. /\ pc[c] \in {"load", "store"} /\ perIPOn
      /\ UNCHANGED <<perIPOn, doomed, evicted, fair>>
  BY DEF Load, LoadOrStore, Positions, Position
<1>2. PICK label \in {"store", "stamp"} : pc' = [pc EXCEPT ![c] = label]
  BY DEF Load, LoadOrStore, Goto
<1>3. PICK b : ref' = [ref EXCEPT ![c] = b]
  BY DEF Load, LoadOrStore
<1>4. Status' = Status /\ Status[c] = "asking"
  BY <1>1, <1>2, StatusMoves DEF AsSeen
<1>5. ~Astray(c)
  BY <1>1 DEF Astray
<1>6. ASSUME NEW d \in Callers \ {c} PROVE Astray(d)' <=> Astray(d)
  <2>1. entry' = entry \/ ~doomed
    BY DEF Load, LoadOrStore, TypeOK, Winner
  <2>2. ref'[d] = ref[d]
    BY <1>3 DEF TypeOK
  <2>3. QED
    BY <1>1, <1>2, <2>1, <2>2, KeepsSight
<1>7. CASE ~Astray(c)'
  BY <1>1, <1>4, <1>5, <1>6, <1>7, OthersInSight, Unnoticed DEF Simulated
<1>8. CASE Astray(c)'
  <2>1. doomed
    <3>1. CASE Load(c)
      BY <1>1, <1>8, <3>1 DEF Astray, Load, Goto, Charged, TypeOK
    <3>2. CASE LoadOrStore(c) /\ entry = NoEntry
      <4>1. ref'[c] = ref[c] /\ ref[c] \notin evicted
        BY <3>2 DEF LoadOrStore, Winner, Positions, Position, Fresh, TypeOK
      <4>2. QED
        BY <1>1, <1>8, <4>1 DEF Astray, Charged
    <3>3. CASE LoadOrStore(c) /\ entry # NoEntry
      <4>1. ref'[c] = entry /\ entry' = entry
        BY <3>3 DEF LoadOrStore, Winner, TypeOK
      <4>2. QED
        BY <1>1, <1>8, <4>1 DEF Astray, Charged, TypeOK
    <3>4. QED
      BY <3>1, <3>2, <3>3
  <2>2. fair = Burst
    BY <2>1 DEF FairKept
  <2>3. Lost' = Lost \cup {c}
    BY <1>6, <1>8, OthersInSight
  <2>4. OneBucket!LoseSight
    BY <1>1, <1>4, <2>2, <2>3, Unnoticed
  <2>5. QED
    BY <2>4 DEF Simulated, OneBucket!Next
<1>9. QED
  BY <1>7, <1>8

LEMMA StampSimulated ==
  ASSUME BucketInv, LimiterInv', NEW c \in Callers, Stamp(c)
  PROVE  Simulated
<1> USE DEF BucketInv, LimiterInv
<1>1. /\ pc[c] = "stamp" /\ pc' = [pc EXCEPT ![c] = "allow"]
      /\ UNCHANGED <<perIPOn, entry, doomed, ref, evicted, fair>>
  BY DEF Stamp, Goto
<1>2. Status' = Status
  BY <1>1, StatusMoves DEF AsSeen
<1>3. Lost' = Lost
  BY <1>1 DEF Lost, Charged, TypeOK
<1>4. QED
  BY <1>1, <1>2, <1>3, Unnoticed DEF Simulated

(* A request that has its answer leaves the others where they are. *)
LEMMA OthersStay ==
  ASSUME LimiterInv, NEW c \in Callers, NEW label, pc' = [pc EXCEPT ![c] = label],
         ref' = ref \/ ref' = [ref EXCEPT ![c] = NoEntry],
         evicted' = evicted \cap Live', UNCHANGED <<entry, doomed>>,
         NEW d \in Callers \ {c}
  PROVE  Astray(d)' <=> Astray(d)
<1>1. TypeOK
  BY DEF LimiterInv
<1>2. ref'[d] = ref[d] /\ ref'[d] \in Live'
  BY <1>1 DEF TypeOK, Live
<1>3. QED
  BY <1>1, <1>2, KeepsSight

LEMMA AllowSimulated ==
  ASSUME BucketInv, LimiterInv', NEW c \in Callers, Allow(c)
  PROVE  Simulated
<1> USE DEF BucketInv, LimiterInv
<1> DEFINE b == ref[c]
<1>1. /\ pc[c] = "allow" /\ InUse(c) /\ b \in Buckets
      /\ Refilled(b) \in 0 .. Burst
  BY AllowFacts
<1>2. /\ evicted' = evicted \cap Live'
      /\ UNCHANGED <<perIPOn, entry, doomed>>
      /\ \/ /\ Refilled(b) >= Unit
            /\ pc' = [pc EXCEPT ![c] = "none"] /\ ref' = [ref EXCEPT ![c] = NoEntry]
            /\ fair' = IF Charged(b) THEN fair - Unit ELSE fair
         \/ /\ Refilled(b) < Unit
            /\ pc' = [pc EXCEPT ![c] = "refused"] /\ ref' = ref
            /\ fair' = fair
  BY DEF Allow, Goto, Done
<1>3. Level = fair /\ Level' = fair'
  BY LevelFollows
<1>4. c \in Lost <=> ~Charged(b)
  BY <1>1 DEF Lost
<1>5. Lost' = Lost \ {c}
  <2>1. ~Astray(c)'
    BY <1>2 DEF Astray, TypeOK
  <2>2. ASSUME NEW d \in Callers \ {c} PROVE Astray(d)' <=> Astray(d)
    BY <1>2, OthersStay
  <2>3. QED
    BY <2>1, <2>2, OthersInSight
<1>6. /\ Status[c] = "asking"
      /\ pc' = [pc EXCEPT ![c] = "none"] => Status' = [Status EXCEPT ![c] = "none"]
      /\ pc' = [pc EXCEPT ![c] = "refused"] => Status' = [Status EXCEPT ![c] = "refused"]
  BY <1>1, <1>2, StatusMoves DEF AsSeen
<1>7. CASE ~Charged(b)
  <2>1. OneBucket!AnswerLost(c)
    BY <1>2, <1>3, <1>4, <1>5, <1>6, <1>7 DEF OneBucket!AnswerLost, OneBucket!From
  <2>2. QED
    BY <2>1 DEF Simulated, OneBucket!Next
<1>8. CASE Charged(b)
  <2>1. Refilled(b) = Level
    BY <1>1, <1>8, Constants DEF Charged, InUse, Level
  <2>2. Lost' = Lost
    BY <1>4, <1>5, <1>8
  <2>3. OneBucket!Pass(c) \/ OneBucket!Refuse(c)
    BY <1>2, <1>3, <1>4, <1>6, <1>8, <2>1, <2>2
       DEF OneBucket!Pass, OneBucket!Refuse, OneBucket!From
  <2>4. QED
    BY <2>3 DEF Simulated, OneBucket!Next
<1>9. QED
  BY <1>7, <1>8

LEMMA AnswerSimulated ==
  ASSUME BucketInv, LimiterInv', NEW c \in Callers, Answer429(c)
  PROVE  Simulated
<1> USE DEF BucketInv, LimiterInv
<1>1. /\ pc[c] = "refused" /\ pc' = [pc EXCEPT ![c] = "none"]
      /\ ref' = [ref EXCEPT ![c] = NoEntry] /\ evicted' = evicted \cap Live'
      /\ UNCHANGED <<perIPOn, entry, doomed, fair>>
  BY DEF Answer429, Done, Goto
<1>2. Status' = [Status EXCEPT ![c] = "none"] /\ Status[c] = "refused"
  BY <1>1, StatusMoves DEF AsSeen
<1>3. Lost' = Lost
  <2>1. ~Astray(c) /\ ~Astray(c)'
    BY <1>1 DEF Astray, TypeOK
  <2>2. ASSUME NEW d \in Callers \ {c} PROVE Astray(d)' <=> Astray(d)
    BY <1>1, OthersStay
  <2>3. QED
    BY <2>1, <2>2, OthersInSight
<1>4. OneBucket!End(c)
  BY <1>1, <1>2, <1>3, LevelFollows DEF OneBucket!End, OneBucket!From
<1>5. QED
  BY <1>4 DEF Simulated, OneBucket!Next

(* When cleanup finds the entry old the bucket is full, and the requests    *)
(* that hold it are lost sight of; they still are when it is deleted.      *)
LEMMA CleanupSimulated ==
  ASSUME BucketInv, LimiterInv', FindOld \/ Delete
  PROVE  Simulated
<1> USE DEF BucketInv, LimiterInv
<1>1. UNCHANGED <<perIPOn, pc, ref, fair>>
  BY DEF FindOld, Delete, calls
<1>2. Status' = Status
  BY <1>1 DEF Status
<1>3. CASE FindOld
  <2>1. /\ perIPOn /\ ~doomed /\ doomed' /\ UNCHANGED <<entry, evicted>>
    BY <1>3 DEF FindOld
  <2>2. fair = Burst
    BY <1>1, <2>1 DEF FairKept
  <2>3. Lost' = Lost \cup {d \in Callers : pc[d] \in {"stamp", "allow"} /\ ref[d] = entry}
    BY <1>1, <2>1 DEF Lost, Charged
  <2>4. \A d \in Callers : pc[d] \in {"stamp", "allow"} => Status[d] = "asking"
    BY DEF Status
  <2>5. OneBucket!LoseSight
    BY <1>1, <1>2, <2>1, <2>2, <2>3, <2>4, Unnoticed
  <2>6. QED
    BY <2>5 DEF Simulated, OneBucket!Next
<1>4. CASE Delete
  <2>1. doomed /\ ~doomed' /\ evicted' = (evicted \cup {entry}) \cap Live'
    BY <1>4 DEF Delete
  <2>2. \A d \in Callers : ref'[d] \in Live'
    BY DEF Live
  <2>3. Lost' = Lost
    BY <1>1, <2>1, <2>2 DEF Lost, Charged
  <2>4. QED
    BY <1>1, <1>2, <2>3, Unnoticed DEF Simulated
<1>5. QED
  BY <1>3, <1>4

LEMMA TickSimulated ==
  ASSUME BucketInv, LimiterInv', Tick
  PROVE  Simulated
<1> USE DEF BucketInv, LimiterInv
<1>1. /\ fair' = Least(Burst, fair + Rate)
      /\ UNCHANGED <<perIPOn, entry, doomed, pc, ref, evicted>>
  BY DEF Tick
<1>2. Status' = Status /\ Lost' = Lost
  BY <1>1 DEF Status, Lost, Charged
<1>3. Level' = IF Level + Rate <= Burst THEN Level + Rate ELSE Burst
  BY <1>1, LevelFollows, Constants DEF Least
<1>4. OneBucket!Refill
  BY <1>1, <1>2, <1>3 DEF OneBucket!Refill
<1>5. QED
  BY <1>4 DEF Simulated, OneBucket!Next

LEMMA BucketStep ==
  BucketInv /\ [Next]_vars => BucketInv' /\ [OneBucket!Next]_(OneBucket!vars)
<1> SUFFICES ASSUME BucketInv, [Next]_vars
             PROVE  BucketInv' /\ [OneBucket!Next]_(OneBucket!vars)
  OBVIOUS
<1>1. BucketInv' /\ LimiterInv'
  BY BucketInvNext DEF BucketInv
<1>2. CASE Next
  <2>1. Simulated
    BY <1>1, <1>2, ArriveSimulated, FindSimulated, StampSimulated, AllowSimulated,
       AnswerSimulated, CleanupSimulated, TickSimulated DEF Next
  <2>2. QED
    BY <1>1, <2>1 DEF Simulated
<1>3. CASE UNCHANGED vars
  <2>1. UNCHANGED <<perIPOn, entry, tokens, idle, doomed, pc, ref, evicted>>
    BY <1>3 DEF vars, stored, calls
  <2>2. UNCHANGED <<Level, Status, Lost>>
    BY <2>1 DEF Level, Status, Lost, Charged, Refilled
  <2>3. QED
    BY <1>1, <2>1, <2>2 DEF OneBucket!vars
<1>4. QED
  BY <1>2, <1>3

LEMMA BucketInit == Init => BucketInv /\ OneBucket!Init
<1> SUFFICES ASSUME Init PROVE BucketInv /\ OneBucket!Init
  OBVIOUS
<1>1. LimiterInv
  BY LimiterInvInit
<1>2. Level = Burst
  BY <1>1 DEF Init, LimiterInv, FairKept, Level
<1>3. Status = [c \in Callers |-> "none"] /\ Lost = {}
  BY DEF Init, Status, Lost
<1>4. QED
  BY <1>1, <1>2, <1>3 DEF Init, BucketInv, OneBucket!Init

(***************************************************************************)
(* The limiter implements a single bucket: for any rate, burst and number  *)
(* of requests, whoever is let through took a token from it and whoever is *)
(* refused found none, save those that overtook the deletion of the entry  *)
(* they hold, which happens only while the bucket is full                  *)
(* (ratelimit.go:105-149, 165-189).                                        *)
(***************************************************************************)
THEOREM ImplementsTokenBucket == Spec => ActsAsOneBucket
<1>1. Init => BucketInv /\ OneBucket!Init
  BY BucketInit
<1>2. BucketInv /\ [Next]_vars => BucketInv' /\ [OneBucket!Next]_(OneBucket!vars)
  BY BucketStep
<1>3. QED
  BY <1>1, <1>2, PTL DEF Spec, ActsAsOneBucket, OneBucket!Spec
=============================================================================
