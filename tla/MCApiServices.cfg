CONSTANTS
  Tasks = {t1, t2, t3}
  Clients = {p1, p2, p3}
  NoClient = NoClient
  PoolSize = 2
  Requests = {1, 2, 3}
  Questions <- MCQuestions
  Limit = 2
  MaxTime = 3
  MaxOutages = 1
  MaxLag = 1
  MaxLines = 4
  Matching = {1, 2, 4}
  MaxRate = 1
  MaxFaults = 1
  Calls = {c1, c2, c3}
  Instances = {i1, i2}
  NoInstance = NoInstance
  Retries = 2
  Monitors = {api, web}
  Loaded = {web}
  Locations = {eu}
  Loops = {l1, l2}
  Callers = {u1, u2}
  CheckStatuses = {up, down}
  Unknown = Unknown
  NoLoop = NoLoop
  MaxStops = 1
SPECIFICATION ApiSpec
INVARIANTS
  ApiInv
  PoolStaysWhole
  TailIsHonest
  SchedulerInv
PROPERTIES
  ClosedHandsOutNothing
  WaitersAreServed
  AnswersAreFresh
  NeverBackwards
  QueriesAreAnswered
  TailIsReleased
  DeletedStaysDeleted
  SchedulerComesToRest
\* A closed pool, a tail that was left, requests and stops used up: done.
CHECK_DEADLOCK FALSE
