SPECIFICATION Spec
CONSTANTS
    Routes = {"anthropic"}
    Retries = 0
    ToolIndices = {0}
    MaxLines = 1
    MaxBeats = 0
INVARIANTS StopExists
CHECK_DEADLOCK FALSE
