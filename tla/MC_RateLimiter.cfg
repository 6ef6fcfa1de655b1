SPECIFICATION Spec
CONSTANTS
  Callers = {c1, c2, c3}
  Buckets = {b1, b2, b3, b4}
  NoEntry = NoEntry
  Unit = 3
  Rate = 2
  Burst = 6
  IdleFor = 4
  MaxLag = 1
SYMMETRY Symmetry
INVARIANTS
  TypeOK
  NeverMoreThanFair
  BucketIsFair
  RetryAfterEnough
PROPERTY
  ActsAsOneBucket
