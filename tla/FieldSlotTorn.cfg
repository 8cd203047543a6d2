\* A reader meets a publication and a collection: is every sample that is
\* accepted whole?
SPECIFICATION Spec
CONSTANTS
  r1 = r1
  c1 = c1
  Reader = {r1}
  Collector = {c1}
  MaxAge = 1
  GcAge = 0
  MaxRetries = 0
  MaxPublish = 2
  MaxTime = 1
  RootOne = 32
  MaxInt = 32767
  LongMax = 1048575
  Normalize = 1000
  Component = {0}
INVARIANT
  NoTornRead
