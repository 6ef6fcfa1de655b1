---------------------------- MODULE RateLimiter ----------------------------
(***************************************************************************)
(* internal/ratelimit: the requests of one address, or of all addresses    *)
(* with one global bucket, and the goroutine that evicts what was not seen *)
(* for a while.  The map is a sync.Map, so the addresses do not meet and   *)
(* each call on it is a step; a bucket has a mutex, so allow() is one too. *)
(* Time passes in seconds; tokens are counted in fractions, Unit to one.   *)
(***************************************************************************)
EXTENDS Integers

CONSTANTS
    Callers, \* requests in progress
    Buckets, \* identities of *entry, with their *bucket
    NoEntry,
    Unit,    \* a token
    Rate,    \* what comes back in a second
    Burst,   \* what fits
    IdleFor, \* seconds until an entry may be evicted
    MaxLag   \* bound: seconds a request may take inside Allow

\* Seconds are told apart up to here: an entry not seen for so long is old.
Long == IdleFor + 1

\* New refuses rates and bursts that are not positive.  That an idle bucket
\* is full again when it is evicted is so for the defaults of config.go; a
\* late lastSeen.Store may be of a request that is MaxLag older than the one
\* that takes the last token, which itself may be MaxLag old by then.
ASSUME RateLimiterAssumption ==
    /\ {Unit, Rate, IdleFor} \subseteq Nat \ {0} /\ MaxLag \in Nat
    /\ Burst \in Nat /\ Burst >= Unit
    /\ (Long - 2 * MaxLag) * Rate >= Burst
    /\ NoEntry \notin Buckets

VARIABLES
    perIPOn, \* Limiter.perIPOn
    entry,   \* the entry of the address in Limiter.perIP, or the global one
    tokens,  \* bucket.tokens
    idle,    \* seconds since bucket.lastTime
    unseen,  \* seconds since entry.lastSeen
    doomed,  \* cleanup found the entry old and is about to delete it
    pc,      \* where each request is
    ref,     \* its entry
    lag,     \* seconds since its `now'
    evicted, \* history: entries that cleanup deleted and a request holds
    fair     \* history: a bucket refilled all the time, which pays for
             \* every request that is let through (see Charged)

calls   == <<pc, ref, lag>>
stored  == <<tokens, idle, unseen>>
vars    == <<perIPOn, entry, stored, doomed, calls, evicted, fair>>

-----------------------------------------------------------------------------
Least(m, n) == IF m <= n THEN m ELSE n

\* Buckets that somebody holds.
Live == {entry} \cup {ref[c] : c \in Callers}

TypeOK ==
    /\ perIPOn \in BOOLEAN /\ doomed \in BOOLEAN
    /\ entry \in Buckets \cup {NoEntry}
    /\ doomed => perIPOn /\ entry # NoEntry
    /\ ~perIPOn => entry # NoEntry
    /\ tokens \in [Buckets -> 0 .. Burst]
    /\ idle \in [Buckets -> 0 .. Long] /\ unseen \in [Buckets -> 0 .. Long]
    /\ pc \in [Callers -> {"none", "load", "store", "stamp", "allow", "refused"}]
    /\ ref \in [Callers -> Buckets \cup {NoEntry}]
    /\ lag \in [Callers -> 0 .. MaxLag]
    /\ evicted \subseteq Buckets \ {entry}

Init ==
    /\ perIPOn \in BOOLEAN
    /\ IF perIPOn THEN entry = NoEntry ELSE entry \in Buckets
    /\ tokens = [b \in Buckets |-> Burst]
    /\ idle = [b \in Buckets |-> 0]
    /\ unseen = [b \in Buckets |-> 0]
    /\ doomed = FALSE
    /\ pc = [c \in Callers |-> "none"]
    /\ ref = [c \in Callers |-> NoEntry]
    /\ lag = [c \in Callers |-> 0]
    /\ evicted = {}
    /\ fair = Burst

-----------------------------------------------------------------------------
\* The refill of allow().  Mutant: without the limit.
Uncapped(b) == tokens[b] + idle[b] * Rate
Refilled(b) == Least(Burst, tokens[b] + idle[b] * Rate)

\* retryAfterSeconds(), with math.Ceil.  Mutant: the fraction is cut off.
SecondsFloor(b) == IF tokens[b] >= Unit THEN 1 ELSE (Unit - tokens[b]) \div Rate
Seconds(b) == IF tokens[b] >= Unit THEN 1
              ELSE (Unit - tokens[b] + Rate - 1) \div Rate

\* Entries that nobody holds any more are forgotten.
Keep(f, initially) == [b \in Buckets |-> IF b \in Live' THEN f[b] ELSE initially]
Forget == /\ tokens' = Keep(tokens, Burst)
          /\ idle' = Keep(idle, 0)
          /\ unseen' = Keep(unseen, 0)

Goto(c, label) == pc' = [pc EXCEPT ![c] = label]

\* Middleware up to the look-up of Allow; the global bucket needs none.
Arrive(c) ==
    /\ pc[c] = "none"
    /\ lag' = [lag EXCEPT ![c] = 0]
    /\ Goto(c, IF perIPOn THEN "load" ELSE "allow")
    /\ ref' = [ref EXCEPT ![c] = IF perIPOn THEN NoEntry ELSE entry]
    /\ UNCHANGED <<perIPOn, entry, stored, doomed, evicted, fair>>

\* perIP.Load finds it, or a new entry is made.
Load(c) ==
    /\ pc[c] = "load"
    /\ \/ /\ entry # NoEntry
          /\ ref' = [ref EXCEPT ![c] = entry]
          /\ Goto(c, "stamp")
          /\ UNCHANGED stored
       \/ /\ entry = NoEntry
          /\ \E b \in Buckets \ Live :
                /\ ref' = [ref EXCEPT ![c] = b]
                /\ tokens' = [tokens EXCEPT ![b] = Burst]
                /\ idle' = [idle EXCEPT ![b] = 0]
                /\ unseen' = [unseen EXCEPT ![b] = lag[c]]
          /\ Goto(c, "store")
    /\ UNCHANGED <<perIPOn, entry, doomed, lag, evicted, fair>>

\* The entry under the key after perIP.LoadOrStore.  Mutant: Store.
Overwrite(mine) == mine
Winner(mine) == IF entry = NoEntry THEN mine ELSE entry

LoadOrStore(c) ==
    /\ pc[c] = "store"
    /\ entry' = Winner(ref[c])
    /\ ref' = [ref EXCEPT ![c] = entry']
    /\ Goto(c, "stamp")
    /\ Forget
    /\ UNCHANGED <<perIPOn, doomed, lag, evicted, fair>>

\* Mutant: only LoadOrStore stamps, for the new entry.
StampNew(c) ==
    /\ pc[c] = "stamp"
    /\ Goto(c, "allow")
    /\ UNCHANGED <<perIPOn, entry, stored, doomed, ref, lag, evicted, fair>>

Stamp(c) ==
    /\ pc[c] = "stamp"
    /\ unseen' = [unseen EXCEPT ![ref[c]] = lag[c]]
    /\ Goto(c, "allow")
    /\ UNCHANGED <<perIPOn, entry, tokens, idle, doomed, ref, lag, evicted, fair>>

\* Not of a bucket that was or is being evicted.
Charged(b) == b \notin evicted /\ ~(doomed /\ b = entry)

Done(c) == /\ Goto(c, "none")
           /\ ref' = [ref EXCEPT ![c] = NoEntry]
           /\ lag' = [lag EXCEPT ![c] = 0]

\* bucket.allow().
Allow(c) ==
    LET b == ref[c]
    IN  /\ pc[c] = "allow"
        /\ UNCHANGED <<perIPOn, entry, doomed>>
        /\ \/ /\ Refilled(b) >= Unit
              /\ Done(c)
              /\ tokens' = Keep([tokens EXCEPT ![b] = Refilled(b) - Unit], Burst)
              /\ fair' = IF Charged(b) THEN fair - Unit ELSE fair
           \/ /\ Refilled(b) < Unit
              /\ Goto(c, "refused")
              /\ tokens' = [tokens EXCEPT ![b] = Refilled(b)]
              /\ UNCHANGED <<fair, ref, lag>>
        /\ idle' = Keep([idle EXCEPT ![b] = 0], 0)
        /\ unseen' = Keep(unseen, 0)
        /\ evicted' = evicted \cap Live'

\* retryAfter looks the entry up again; 429 is written with its answer.
retryAfter == IF entry = NoEntry THEN 1 ELSE Seconds(entry)

Answer429(c) ==
    /\ pc[c] = "refused"
    /\ Done(c)
    /\ UNCHANGED <<perIPOn, entry, doomed, fair>>
    /\ Forget
    /\ evicted' = evicted \cap Live'

\* cleanup: Range reads lastSeen, and Delete comes after that.
\* Mutant: entries are evicted when they were seen lately.
SeenLately == unseen[entry] >= 1
Old        == unseen[entry] > IdleFor

FindOld ==
    /\ perIPOn
    /\ entry # NoEntry
    /\ Old
    /\ ~doomed
    /\ doomed' = TRUE
    /\ UNCHANGED <<perIPOn, entry, stored, calls, evicted, fair>>

Delete ==
    /\ doomed
    /\ entry' = NoEntry
    /\ doomed' = FALSE
    /\ UNCHANGED <<perIPOn, calls, fair>>
    /\ Forget
    /\ evicted' = (evicted \cup {entry}) \cap Live'

\* A second passes.
Tick ==
    /\ \A c \in Callers : pc[c] # "none" => lag[c] < MaxLag
    /\ idle' = [b \in Buckets |-> IF b \in Live THEN Least(Long, idle[b] + 1) ELSE 0]
    /\ unseen' = [b \in Buckets |-> IF b \in Live THEN Least(Long, unseen[b] + 1) ELSE 0]
    /\ lag' = [c \in Callers |-> IF pc[c] = "none" THEN 0 ELSE lag[c] + 1]
    /\ fair' = Least(Burst, fair + Rate)
    /\ UNCHANGED <<perIPOn, entry, tokens, doomed, pc, ref, evicted>>

Next == \/ \E c \in Callers : \/ Arrive(c) \/ Load(c) \/ LoadOrStore(c) \/ Stamp(c)
                              \/ Allow(c) \/ Answer429(c)
        \/ FindOld \/ Delete \/ Tick

Spec == Init /\ [][Next]_vars

-----------------------------------------------------------------------------
(***************************************************************************)
(* No address gets more requests through than one bucket that is refilled  *)
(* all the time would allow: not by two first requests that both make an   *)
(* entry (ratelimit.go:119-125), not by its refills being computed late,   *)
(* and not by evicting an entry (ratelimit.go:183-185).  Not counted are   *)
(* requests that overtake the Delete of the bucket they hold.              *)
(***************************************************************************)
NeverMoreThanFair == fair >= 0

(***************************************************************************)
(* And no fewer: when it is looked at, the bucket in use holds what that   *)
(* one holds, so a request is refused only if that one has no token.       *)
(***************************************************************************)
BucketIsFair == entry # NoEntry /\ ~doomed => Refilled(entry) = fair

(***************************************************************************)
(* "estimated seconds until a token is available" (ratelimit.go:54): who   *)
(* waits as long as told finds a token if nobody else took it, although    *)
(* the bucket was unlocked, used by others or evicted before the answer,   *)
(* and is not told to wait a second more than that since the last refill.  *)
(***************************************************************************)
RetryAfterEnough ==
    \A c \in Callers : pc[c] = "refused" /\ entry # NoEntry =>
        /\ Refilled(entry) + retryAfter * Rate >= Unit
        /\ retryAfter = 1 \/ tokens[entry] + (retryAfter - 1) * Rate < Unit

-----------------------------------------------------------------------------
(***************************************************************************)
(* The address as TokenBucket has it.  The bucket is the one in use, and   *)
(* full when there is none or the one in use is about to be deleted.       *)
(***************************************************************************)
Level  == IF entry = NoEntry \/ doomed THEN Burst ELSE Refilled(entry)
Status == [c \in Callers |-> IF pc[c] \in {"load", "store", "stamp", "allow"}
                             THEN "asking" ELSE pc[c]]
Lost   == {c \in Callers : pc[c] \in {"stamp", "allow"} /\ ~Charged(ref[c])}

OneBucket == INSTANCE TokenBucket WITH
    evicts <- perIPOn, level <- Level, status <- Status, lost <- Lost

(***************************************************************************)
(* The limiter with its entries, lazy refills and evictions acts as one    *)
(* bucket would, request by request: who is let through took a token from  *)
(* it, who is refused found none, and an eviction is not noticed           *)
(* (ratelimit.go:105-149, 165-189).                                        *)
(***************************************************************************)
ActsAsOneBucket == OneBucket!Spec
=============================================================================
