\* Crashes, errors, graphs that users create and drop, two cron periods and a lease that ends.
SPECIFICATION FairSpec
CONSTANTS
  r1 = r1
  r2 = r2
  Replica <- Replicas
  Hour = 2
  MaxMinute = 4
  MaxUser = 1
INVARIANTS
  IInv
  PreparedOnce
PROPERTY SomeoneSchedules
