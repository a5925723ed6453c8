\* One published task and one cron task on two consumers with one slot each:
\* handlers may hang, consumers may crash or be restarted.
SPECIFICATION FairSpec
CONSTANTS
  p1 = p1
  c1 = c1
  s1 = s1
  s2 = s2
  Nobody = Nobody
  CronId = CronId
  Task <- PublishedAndCron
  Cron <- OneCron
  CronRetry = 1
  Server <- TwoServers
  Concurrency = 1
  MaxShutdowns = 1
INVARIANTS
  IInv
  NoOverlappingHandlers
  AttemptsBounded
  ErrMeansExhausted
  ArchivedIsReported
PROPERTIES
  SettledNeverReopens
  OneOutcome
  KeepsPromise
  QueueDrains
  PollerIsAnswered
