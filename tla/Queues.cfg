SPECIFICATION MCSpec
CONSTANTS
  Windows = {1, 2}
  Limit = 1
  MaxErrors = 2
  MaxFaults = 2
  Logins = {"l1", "l2"}
  Accounts = {"a"}
  Daily = {}
  Monthly = {"month"}
  Manual = {"m"}
  Requests = {"h"}
  MaxAttempts = 2
  Capacity = 1
  MaxAIFaults = 1
  Creds = {"c1", "c2"}
  Lengths <- TwoLengths
  MaxClock = 1
  MaxUses = 2
  MaxMoves = 1
  MaxCalls = 1
  Vouchers = 1
CHECK_DEADLOCK FALSE
INVARIANTS ServerNeverOver OutcomeIsTrue ResultsBelong QuotaSound
PROPERTIES FailuresArrive LoginsEnd ScheduledJobsEnd
