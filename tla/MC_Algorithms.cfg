SPECIFICATION FairSpec
CONSTANTS
  Callers = {c1, c2}
  Pool <- ThreeBackends
  Weight <- ThreeWeights
  Period = 6
  MaxTorn = 1
  Window = 12
INVARIANTS
  TypeOK
  EvenRotation
  
  
PROPERTIES
  EveryBackendServes
