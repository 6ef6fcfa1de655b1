----------------------------- MODULE RoundRobin -----------------------------
(***************************************************************************)
(* RoundRobin.Next of internal/algo under concurrent requests.  The atomic *)
(* counter is advanced by one instruction and overwritten by another with  *)
(* the index that was picked; in between the call reads IsAlive() of one   *)
(* candidate after the other, and other calls do the same.                 *)
(***************************************************************************)
EXTENDS Naturals, SequencesExt

CONSTANTS
    Callers, \* requests in progress
    Pool,    \* the backends, numbered in the order of the pool
    Period   \* a common multiple of the lengths of the candidate lists: the
             \* counter is used modulo those only and kept modulo Period

VARIABLES
    alive,   \* Backend.alive
    current, \* RoundRobin.current
    pc,      \* where each call is
    list,    \* its parameter `backends'
    next,    \* its local variable of that name
    i,       \* its loop variable
    recent   \* history: the latest picks, since anything disturbed them

locals == <<list, next, i>>
vars   == <<alive, current, pc, locals, recent>>

-----------------------------------------------------------------------------
Backends == ToSet(Pool)
Alive    == {b \in Backends : alive[b]}

\* What the callers may pass: some of the pool, in its order.
Lists == UNION {{s \in [1 .. n -> Backends] :
                     \A j, k \in 1 .. n : j < k => s[j] < s[k]} : n \in 1 .. Len(Pool)}

idx(c)       == (next[c] + i[c]) % Len(list[c])
Candidate(c) == list[c][idx(c) + 1]

TypeOK ==
    /\ alive \in [Backends -> BOOLEAN]
    /\ current \in 0 .. Period - 1
    /\ pc \in [Callers -> {"idle", "scan", "store"}]
    /\ \A c \in Callers : /\ ToSet(list[c]) \subseteq Backends
                          /\ pc[c] # "idle" => /\ next[c] < Len(list[c])
                                               /\ i[c] < Len(list[c])

Init == /\ alive = [b \in Backends |-> TRUE]
        /\ current = 0
        /\ pc = [c \in Callers |-> "idle"]
        /\ list = [c \in Callers |-> <<>>]
        /\ next = [c \in Callers |-> 0]
        /\ i = [c \in Callers |-> 0]
        /\ recent = <<>>

-----------------------------------------------------------------------------
Goto(c, label) == pc' = [pc EXCEPT ![c] = label]

\* The call returns; its locals are gone.
Return(c) == /\ Goto(c, "idle")
             /\ list' = [list EXCEPT ![c] = <<>>]
             /\ next' = [next EXCEPT ![c] = 0]
             /\ i' = [i EXCEPT ![c] = 0]

Alone(c) == \A d \in Callers \ {c} : pc[d] = "idle"

\* Next(backends), up to atomic.AddUint64; an empty list returns at once.
Begin(c, backends) ==
    /\ pc[c] = "idle"
    /\ backends # <<>>
    /\ current' = (current + 1) % Period
    /\ list' = [list EXCEPT ![c] = backends]
    /\ next' = [next EXCEPT ![c] = current' % Len(backends)]
    /\ Goto(c, "scan")
    /\ recent' = IF backends = Pool /\ Alone(c) THEN recent ELSE <<>>
    /\ UNCHANGED <<alive, i>>

\* IsAlive() is TRUE: this one is returned.
Found(c) ==
    /\ pc[c] = "scan"
    /\ alive[Candidate(c)]
    /\ Goto(c, "store")
    /\ UNCHANGED <<alive, current, locals, recent>>

\* Mutant of Exhausted: one index too many.
ExhaustedLate(c) == i[c] + 1 > Len(list[c])
Exhausted(c)     == i[c] + 1 >= Len(list[c])

\* It is FALSE: the next index, or nil at the end of the loop.
Skip(c) ==
    /\ pc[c] = "scan"
    /\ ~alive[Candidate(c)]
    /\ \/ /\ ~Exhausted(c)
          /\ i' = [i EXCEPT ![c] = @ + 1]
          /\ UNCHANGED <<pc, list, next>>
       \/ /\ Exhausted(c)
          /\ Return(c)
    /\ UNCHANGED <<alive, current, recent>>

\* Mutants of Stored: the counter is not overwritten; always with the same.
NotStored(c) == current
StoredZero(c) == 0
Stored(c) == idx(c)

\* atomic.StoreUint64 and return; the history forgets all but the last picks.
Store(c) ==
    /\ pc[c] = "store"
    /\ current' = Stored(c)
    /\ Return(c)
    /\ recent' = IF Alone(c) /\ list[c] = Pool
                 THEN LET s == Append(recent, Candidate(c))
                      IN  IF Len(s) > Len(Pool) THEN Tail(s) ELSE s
                 ELSE <<>>
    /\ UNCHANGED alive

\* Somebody takes a backend out of rotation or back in.
Flip(b) ==
    /\ alive' = [alive EXCEPT ![b] = ~@]
    /\ recent' = <<>>
    /\ UNCHANGED <<current, pc, locals>>

-----------------------------------------------------------------------------
Run(c) == Found(c) \/ Skip(c) \/ Store(c)

Disturb == \/ \E b \in Backends : Flip(b)
           \/ \E c \in Callers, backends \in Lists \ {Pool} :
                  Begin(c, backends)

Next == \/ \E c \in Callers : Begin(c, Pool) \/ Run(c)
        \/ Disturb

-----------------------------------------------------------------------------
(***************************************************************************)
(* "distributes requests evenly across alive backends" (round_robin.go:9), *)
(* as long as calls do not overlap and neither the candidates nor their    *)
(* state change: each of as many picks in a row as there are backends      *)
(* alive is another one, also when dead ones lie between them.             *)
(***************************************************************************)
EvenRotation ==
    LET n == Cardinality(Alive)
    IN  \A j \in 1 .. Len(recent) - n + 1 :
            IsInjective(SubSeq(recent, j, j + n - 1))

\* Some call is about to return b.
Stores(b) == \E c \in Callers : pc[c] = "store" /\ Candidate(c) = b
=============================================================================
