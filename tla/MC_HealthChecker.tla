-------------------------- MODULE MC_HealthChecker --------------------------
(***************************************************************************)
(* Instances of HealthChecker: the struct <<u, n>> is the n-th one made    *)
(* for server u.                                                           *)
(***************************************************************************)
EXTENDS HealthChecker

CONSTANT Twice \* the servers that may be made a second time

FirstOfEach == Urls \X {1}
AllObjects  == FirstOfEach \cup (Twice \X {2})
ObjectUrl   == [o \in AllObjects |-> o[1]]
TwoConfigs  == {<<2, 2>>, <<0, 1>>}
=============================================================================
