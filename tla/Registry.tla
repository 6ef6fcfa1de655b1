------------------------------ MODULE Registry ------------------------------
(***************************************************************************)
(* The registry of breakers: callers of CircuitBreaker do not hold the     *)
(* breaker of a backend but ask Registry.Get for it each time, for         *)
(* Eligible or Allow and again for the report, and the first ones to ask   *)
(* make it.  Get looks under the read lock, and when it finds none, again  *)
(* under the write lock.  URLs do not meet, so this is the entry of one.   *)
(***************************************************************************)
EXTENDS CircuitBreaker, Naturals

VARIABLES
    registered, \* which breaker the entry of breakers is: a number, 0 for none
    made,       \* how many breakers NewBreaker has made
    missed,     \* the callers of Get between its two locks
    got         \* what Get last returned to each caller, 0 for nothing

entry        == <<registered, made, missed, got>>
registryVars == <<vars, entry>>

Given(c) == got[c] # 0

RegistryTypeOK == /\ TypeOK
                  /\ registered \in 0 .. made
                  /\ made \in Nat
                  /\ missed \subseteq Callers
                  /\ got \in [Callers -> 0 .. made]

RegistryInit == /\ Init
                /\ registered = 0
                /\ made = 0
                /\ missed = {}
                /\ got = [c \in Callers |-> 0]

-----------------------------------------------------------------------------
Returns(c, n) == got' = [got EXCEPT ![c] = n]

\* Under the read lock.
LookUp(c) ==
    /\ ~Given(c) /\ c \notin missed
    /\ \/ /\ registered # 0
          /\ Returns(c, registered)
          /\ UNCHANGED missed
       \/ /\ registered = 0
          /\ missed' = missed \cup {c}
          /\ UNCHANGED got
    /\ UNCHANGED <<vars, registered, made>>

\* Mutant of Absent: Get does not look again under the write lock.
AbsentBefore == TRUE
Absent == registered = 0

Create(c) ==
    /\ c \in missed
    /\ missed' = missed \ {c}
    /\ \/ /\ ~Absent
          /\ Returns(c, registered)
          /\ UNCHANGED <<registered, made>>
       \/ /\ Absent
          /\ made' = made + 1
          /\ registered' = made'
          /\ Returns(c, made')
    /\ UNCHANGED vars

\* The method that Get was called for.
Released(c) == Returns(c, 0) /\ UNCHANGED <<registered, made, missed>>

Allowed(c)  == Given(c) /\ Admitted(c) /\ Released(c)
Refused(c)  == /\ Given(c) /\ call[c] = "idle" /\ ~Eligible(brk)
               /\ Released(c)
               /\ UNCHANGED vars
Reported(c) == Given(c) /\ (Succeed(c) \/ Fail(c)) /\ Released(c)
Died(c)     == ~Given(c) /\ c \notin missed /\ Abandon(c) /\ UNCHANGED entry

Clock == TimeoutElapses /\ UNCHANGED entry

RegistryNext == \/ Clock
                \/ \E c \in Callers : \/ LookUp(c) \/ Create(c)
                                      \/ Allowed(c) \/ Refused(c)
                                      \/ Reported(c) \/ Died(c)

RegistrySpec == RegistryInit /\ [][RegistryNext]_registryVars

(***************************************************************************)
(* As in CircuitBreaker; and Get gets its locks.                           *)
(***************************************************************************)
FairRegistry == /\ RegistrySpec
                /\ WF_registryVars(Clock)
                /\ \A c \in Callers : /\ WF_registryVars(LookUp(c) \/ Create(c))
                                      /\ WF_registryVars(Allowed(c))
                                      /\ WF_registryVars(Reported(c))

-----------------------------------------------------------------------------
(***************************************************************************)
(* "Double-check after acquiring write lock" (circuitbreaker.go:191): all  *)
(* callers that have the breaker of a URL have the same one, so that no    *)
(* outcome is reported to a breaker nobody else sees and no second permit  *)
(* is given out, although several may have found none at first.            *)
(***************************************************************************)
OneBreaker == \A c \in Callers : Given(c) => got[c] = registered
=============================================================================
