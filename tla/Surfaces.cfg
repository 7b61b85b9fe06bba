SPECIFICATION MCSpec
CONSTANTS
  None = None
  Deployments <- Starts
  Serves <- ToolsOf
  Annotates <- Words
CHECK_DEADLOCK FALSE
INVARIANTS CallerProven  PeersSurviveRestarts MessagesKept  LimitsHold
  SpendOutlivesProcess AuthorityHolds GatesHold
  AnalystsAccounted IntentsMatchCalls GroundHolds   TextIsWhole
  
