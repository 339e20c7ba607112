\* Two names, one of them configured; two writes, one stop, one failure, two minutes.
CONSTANTS
  Names = {"a", "b"}
  Contents <- Jobs
  Configured = {"b"}
  MaxWrites = 2
  MaxDowns = 1
  MaxFaults = 1
  MaxMinute = 2
SPECIFICATION FairSpec
INVARIANTS OneTaskPerName FiresInMeasure SwitchedOffAfterFiring
PROPERTIES SettlesAligned CronJobsFire
CHECK_DEADLOCK FALSE
