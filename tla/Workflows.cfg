CONSTANTS
    Registered = {"finder", "flow"}
    Flows = {"flow"}
    Unregistered = "nobody"
    MaxIterations = 2
    MaxSteps = 2
    MaxTasks = 2
    Branches <- ThreeBranches
    Names = {"a", "b"}
    MaxRefinements = 2
    MaxCalls = 2
    MaxRequests = 2
    MaxTools = 2
    SwarmAgents = {"triage", "refunds"}
    MaxTurns = 2
    MaxHandovers = 2
    CategoryNames = {"x", "y"}
    Configured = {"x"}
    MaxTop = 2
    MaxNamed = 3
    Profiles <- SomeProfiles
    Priorities = {0, 1}
SPECIFICATION Spec
INVARIANTS
    AnswersKeepTheirNames
    PicksTheBest
    ConversationIsSound
    
PROPERTY CallEnds
CHECK_DEADLOCK FALSE
