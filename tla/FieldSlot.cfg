\* One reader and one collector meet two publications.
SPECIFICATION Spec
CONSTANTS
  r1 = r1
  c1 = c1
  Reader = {r1}
  Collector = {c1}
  MaxAge = 1
  GcAge = 0
  MaxRetries = 1
  MaxPublish = 2
  MaxTime = 2
  RootOne = 32
  MaxInt = 32767
  LongMax = 1048575
  Normalize = 1000
  Component = {0}
INVARIANTS
  TypeOK
  WholeUnlessClash
  AcceptedIsFresh
PROPERTIES
  ClaimsWhatItRead
  SlotReadable
