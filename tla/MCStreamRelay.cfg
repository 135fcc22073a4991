SPECIFICATION FairSpec
CONSTANTS
    Routes = {"openai", "anthropic"}
    Retries = 1
    ToolIndices = {0, 1}
    MaxLines = 3
    MaxBeats = 1
INVARIANTS
    RelaysOneResponse
    BudgetShared
    EventsNest
PROPERTIES
    Ends
CHECK_DEADLOCK FALSE
