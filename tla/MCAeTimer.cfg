CONSTANTS
  MsPerSec = 2
  MaxSec = 2
  Periods = {1, 2}
  MaxTimers = 2
  MaxJumps = 1
SPECIFICATION FairSpec
INVARIANTS
  TypeOK
  DeletedTimerNeverFires
  FiresOnlyAfterDeadline
  NewTimersNotWalked
PROPERTY
  DueTimersRun
