SPECIFICATION WorkflowOnly
CONSTANTS
  None = None
  Deployments <- Starts
  Serves <- ToolsOf
  Annotates <- Words
CHECK_DEADLOCK FALSE
INVARIANT HandedIsWhatWasRead
