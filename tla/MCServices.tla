----------------------------- MODULE MCServices -----------------------------
(* The services an agent uses, for TLC: one of them, chosen at the start;  *)
(* the variable holds its state.                                           *)
EXTENDS Naturals, Sequences

CONSTANTS
    Configured, Grpc, Loadable, ToolsOf, Functions, Called, MaxNames,
    Chats, Recent, MaxMessages, MaxFresh, MaxUpsets,
    Nodes, Agents, TaskIds, Nobody, MaxChanges, MaxSent,
    Tokens, Native, Tiers, MaxMined, MaxRecords,
    Contents, Given, NoId, Alike, MaxWrites,
    Memories, Texts, Tries, MaxCalls, MaxFaults,
    Tasks, Clients

(* A name is a sequence of its parts, and no tool has the empty one.       *)
ASSUME AggregatorAssumption ==
    /\ Configured \in Seq(Seq(STRING)) /\ Loadable \subseteq Seq(STRING)
    /\ \A s \in Loadable \cup {Configured[i] : i \in DOMAIN Configured} :
         ToolsOf[s] \subseteq Seq(STRING) \ {<<>>}
    /\ Called \subseteq Seq(STRING)

(* The zero address is nobody's wallet.                                    *)
ASSUME ChainAssumption ==
    Nobody \notin Clients /\ Len(Nodes) \in Nat /\ DOMAIN Nodes = 1..Len(Nodes)

(* A pool pairs another token with the native one.                         *)
ASSUME TradingAssumption ==
    Native \notin Tokens /\ Tiers \in Nat

(* An operation is tried at least once.                                    *)
ASSUME ToolServerAssumption == Tries \in Nat \ {0}

(* The agent has its default conversation.                                 *)
ASSUME ConversationsAssumption ==
    Chats \in Nat \ {0} /\ Recent \in Nat /\ MaxFresh \in Nat /\ MaxMessages \in Nat

(* Contents lie on a line.                                                 *)
ASSUME KnowledgeAssumption ==
    Contents \subseteq Nat /\ Alike \in Nat /\ MaxWrites \in Nat

VARIABLES active, service

Aggregator == INSTANCE McpAggregator WITH agg <- service
Chatting   == INSTANCE Conversations WITH conv <- service, MaxFaults <- MaxUpsets
Chain      == INSTANCE MembaseChain WITH ledger <- service
Trading    == INSTANCE TokenTrader WITH market <- service
Knowledge  == INSTANCE KnowledgeBase WITH kb <- service
Chroma     == INSTANCE ChromaServer WITH chroma <- service, Contents <- Texts

(* Instances of the constants that are no sets of values.                  *)
SomeServers == << <<"fs">>, <<"hub">> >>
OverGrpc == {<<"hub">>}
SomeLoadable == {<<"hub">>, <<"my", "fs">>}
SomeTools ==
    [s \in {<<"fs">>, <<"hub">>, <<"my", "fs">>} |->
        IF s = <<"hub">> THEN {<<"get">>} ELSE {<<"get">>, <<"get", "all">>}]
OwnFunctions == {<<"now">>}
SomeCalled == {<<"get">>, <<"now">>, <<"fs", "get", "all">>, <<"my", "fs", "get">>}
ThreeNodes == <<"n1", "n2", "n3">>
Points == {0, 1, 4}

Init ==
    \/ active = "aggregator" /\ Aggregator!Init
    \/ active = "conversations" /\ Chatting!Init
    \/ active = "chain" /\ Chain!Init
    \/ active = "trader" /\ Trading!Init
    \/ active = "knowledge" /\ Knowledge!Init
    \/ active = "chroma" /\ Chroma!Init

Next ==
    /\ UNCHANGED active
    /\ \/ active = "aggregator" /\ Aggregator!Next
       \/ active = "conversations" /\ Chatting!Next
       \/ active = "chain" /\ Chain!Next
       \/ active = "trader" /\ Trading!Next
       \/ active = "knowledge" /\ Knowledge!Next
       \/ active = "chroma" /\ Chroma!Next

Spec == Init /\ [][Next]_<<active, service>>

-----------------------------------------------------------------------------
TypeOK ==
    /\ active = "aggregator" => Aggregator!TypeOK
    /\ active = "conversations" => Chatting!TypeOK
    /\ active = "chain" => Chain!TypeOK
    /\ active = "trader" => Trading!TypeOK
    /\ active = "knowledge" => Knowledge!TypeOK
    /\ active = "chroma" => Chroma!TypeOK

(* Every tool listed is called at the server it was listed for.            *)
ToolsAreFound ==
    active = "aggregator" => /\ Aggregator!CallReachesItsServer
                             /\ Aggregator!LoadedServersAreListed

(* An answer is stored behind its question, in the conversation it is of,  *)
(* and the files of the hub are the conversation.                          *)
ConversationsKeep ==
    active = "conversations" => /\ Chatting!AnswersFollowQuestions
                                /\ Chatting!HubFollowsTheMemory

(* A call on the contract that returns has had its effect.                 *)
ReturnMeansDone == active = "chain" => Chain!ReturnMeansDone

(* The trader's nonces, records, routes and reports are those of its       *)
(* transactions.                                                           *)
TradesAreSound ==
    active = "trader" => /\ Trading!NoncesLeaveNoGap /\ Trading!RecordsAreTheTrades
                         /\ Trading!RoutesAreQuoted /\ Trading!ReportsAreWhole

(* The hub has what the collection has, and strict additions keep alike    *)
(* documents out.                                                          *)
CollectionsAreMirrored ==
    /\ active = "knowledge" => Knowledge!HubHasTheDocuments /\ Knowledge!StrictKeepsApart
    /\ active = "chroma" => Chroma!HubTellsTheCollection
=============================================================================
