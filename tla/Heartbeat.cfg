\* m1 tracks m2; both crash and restart; two periods of silence are a death,
\* and the count of missed heartbeats saturates there.
SPECIFICATION Spec
CONSTANTS
  m1 = m1
  m2 = m2
  Module = {m1, m2}
  Reach <- OneWay
  AutoBroadcast = {m2}
  Period = 2
  TimeoutCount = 2
  MaxMissed = 2
  MaxTracked = 1
  MaxAge = 6
  MaxGap = 1
  MaxDelay = 1
INVARIANTS
  TypeOK
  NoHastyVerdict
  CallbacksMatch
  LiveNeverDead
PROPERTIES
  
  SilentDies
  LiveIsFound
