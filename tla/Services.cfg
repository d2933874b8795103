SPECIFICATION MCSpec
CONSTANTS
  Endpoints = {e1}
  Workers = {w1, w2}
  Durations = {1, 3}
  Consecutive = 3
  Window = 2
  MinRequests = 3
  RateNum = 1
  RateDen = 2
  BreakerCooldown = 2
  AutoReturn = TRUE
  Skew = 1
  MaxTime = 3
  MaxEvents = 4
  None = None
  Changers = {"a", "b"}
  Serves <- Overlap
  Order <- Abc
  MaxTier = 2
  Targets <- Elsewhere
  MaxChanges = 2
  MaxStarts = 1
  MaxMishaps = 1
CHECK_DEADLOCK FALSE
INVARIANTS BreakerSound PlanSound StreamsWellFormed HistoriesSound AnswersSound StatisticsSound ListenerSound
PROPERTIES CooldownsStand
