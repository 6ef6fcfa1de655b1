SPECIFICATION Spec
CONSTANTS
  a = a
  b = b
  A = A
  bad = bad
  Unreadable = Unreadable
  NoFile = NoFile
  Garbled = Garbled
  Invalid = Invalid
  BadRaws = {bad}
  Accessible = {}
  Canon <- Spellings
  Raws = {a, A, b, bad}
  Files <- Respelled
  Starts <- StartOnA
  AdminWeights = {0, 3}
INVARIANTS
  FileIsTruth
