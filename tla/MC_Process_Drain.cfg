SPECIFICATION ProcessSpec
CONSTANTS
  a = a
  b = b
  A = A
  bad = bad
  Unreadable = Unreadable
  NoFile = NoFile
  Garbled = Garbled
  Invalid = Invalid
  BadRaws = {bad}
  Accessible = {}
  Canon <- Spellings
  Raws = {a, b, bad}
  Files <- SomeFiles
  Starts <- StartOnA
  AdminWeights = {1}
CHECK_DEADLOCK FALSE
INVARIANTS
  RequestsComplete
