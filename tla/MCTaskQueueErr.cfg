\* What main.go:53 says of reportError, against a timeout.
SPECIFICATION Spec
CONSTANTS
  p1 = p1
  c1 = c1
  s1 = s1
  s2 = s2
  Nobody = Nobody
  CronId = CronId
  Task <- PublishedAndCron
  Cron <- OneCron
  CronRetry = 1
  Server <- TwoServers
  Concurrency = 1
  MaxShutdowns = 1
INVARIANT FailureIsStored
