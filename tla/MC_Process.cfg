SPECIFICATION FairProcess
CONSTANTS
  a = a
  b = b
  A = A
  bad = bad
  Unreadable = Unreadable
  NoFile = NoFile
  Garbled = Garbled
  Invalid = Invalid
  BadRaws = {bad}
  Accessible = {}
  Canon <- Spellings
  Raws = {a, b, bad}
  Files <- SomeFiles
  Starts <- SomeStarts
  AdminWeights = {3}
CHECK_DEADLOCK FALSE
INVARIANTS
  ProcessTypeOK
  
  
  NeverEmpty
  ParametersUsable
PROPERTIES
  LatestFileLoaded
  QuietDrain
  TermEnds
