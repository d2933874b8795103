CONSTANTS
  Clients = {"python", "js", "codex", "claude"}
  MaxAttempts = 2
  MaxEvents <- Longest
  MaxBeats = 1
SPECIFICATION Spec
CHECK_DEADLOCK FALSE
INVARIANTS CreatedFirst CompleteMeansToolsDone EndTold
PROPERTIES SilentAfterEnd HeartbeatEnds
