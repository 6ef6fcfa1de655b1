-------------------------- MODULE MC_LoadBalancer --------------------------
(***************************************************************************)
(* Instances of LoadBalancer.  Servers are numbered; the struct <<u, n>>   *)
(* is the n-th one made for server u, so that a server may be removed from *)
(* the pool and added again while requests hold its first struct.          *)
(***************************************************************************)
EXTENDS LoadBalancer, TLC

CONSTANTS Twice, \* the servers that may be made a second time
          Returning, \* the requests of clients that have a cookie
          Cookie \* the server it names

Symmetry == Permutations(Requests)

FirstOfEach == Urls \X {1}
AllObjects  == FirstOfEach \cup (Twice \X {2})
ObjectUrl   == [o \in AllObjects |-> o[1]]
Cookies     == [r \in Requests |-> IF r \in Returning THEN Cookie ELSE None]
=============================================================================
