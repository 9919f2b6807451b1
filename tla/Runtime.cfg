CONSTANTS
    Listeners = {"file", "screen"}
    MaxEvents = 3
    BatchSize = 2
    MaxStarts = 2
    Waiters = {"p", "q"}
    Requests = {"r"}
    MaxSignals = 2
    Servers = {"fetch", "chain"}
    Callers = {"c1", "c2"}
    Host = "c1"
    MaxConnections = 2
    Kinds = {"full", "tool", "sse"}
    MaxFailures = 3
SPECIFICATION Spec
INVARIANTS
    TypeOK
    EventsAreHandled
    SignalsAreNotStale
    

    
    
CHECK_DEADLOCK FALSE
