CONSTANTS
    Configured <- SomeServers
    Grpc <- OverGrpc
    Loadable <- SomeLoadable
    ToolsOf <- SomeTools
    Functions <- OwnFunctions
    Called <- SomeCalled
    MaxNames = 3
    Chats = 1
    Recent = 2
    MaxMessages = 3
    MaxFresh = 2
    MaxUpsets = 2
    Nodes <- ThreeNodes
    Agents = {"a"}
    TaskIds = {"t"}
    Nobody = "0"
    MaxChanges = 1
    MaxSent = 3
    Tokens = {"a", "b"}
    Native = "bnb"
    Tiers = 2
    MaxMined = 3
    MaxRecords = 6
    Contents <- Points
    Given = {x}
    NoId = NoId
    Alike = 2
    MaxWrites = 3
    Memories = {"m"}
    Texts = {"u", "v"}
    Tries = 2
    MaxCalls = 4
    MaxFaults = 2
    Tasks = {"t1", "t2"}
    Clients = {"w1", "w2"}
SPECIFICATION Spec
INVARIANTS
    TypeOK
    ToolsAreFound
    ConversationsKeep
    ReturnMeansDone
    TradesAreSound
    CollectionsAreMirrored
CHECK_DEADLOCK FALSE
