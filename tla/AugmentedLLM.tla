---------------------------- MODULE AugmentedLLM ----------------------------
(* The conversation one AugmentedLLM holds with its provider               *)
(* (workflows/llm): successive calls of generate on one object.  A call    *)
(* builds the message list from the history, then asks the model in a      *)
(* loop, runs the tools it calls and appends their results, and at the end *)
(* stores the list as the new history.  The OpenAI class runs the tools of *)
(* a message in parallel and puts the system prompt in the list; the       *)
(* Anthropic class runs them one by one and sends it beside.               *)
EXTENDS Naturals, Sequences, SequencesExt, Lists

CONSTANTS
    MaxCalls,       \* bound: calls of generate followed
    MaxRequests,    \* params.max_iterations
    MaxTools        \* bound: tool calls in one message

VARIABLE run

At(l) == run.kind = "llm" /\ run.at = l

(* A tool call is known by the generate, the request and its place.        *)
CallId == (1..MaxCalls) \X (0..MaxRequests) \X (1..MaxTools)

Message(role, calls) == [role |-> role, calls |-> calls]

MessageType ==
    [role : {"system", "user", "assistant", "tool"}, calls : Seq(CallId)]

TypeOK == run.kind = "llm" =>
    /\ run.at \in {"idle", "ask", "tools", "store", "done"}
    /\ run.provider \in {"openai", "anthropic"}
    /\ run.calls \in 0..MaxCalls
    /\ run.requests \in 0..MaxRequests
    /\ run.useHistory \in BOOLEAN
    /\ \A m \in Range(run.history \o run.messages) : m \in MessageType
    /\ run.answered \subseteq CallId
    /\ run.lost \subseteq CallId

Started(provider) ==
    [kind |-> "llm", at |-> "idle", provider |-> provider, calls |-> 0,
     requests |-> 0, useHistory |-> FALSE, history |-> <<>>, messages |-> <<>>,
     answered |-> {}, lost |-> {}]

Init == \E p \in {"openai", "anthropic"} : run = Started(p)

(* generate: the new message after the history, if that is used, and after *)
(* OpenAI's system prompt, which a stored history then holds once more.    *)
Prefix == IF run.provider = "openai" THEN <<Message("system", <<>>)>> ELSE <<>>

Generate(useHistory) ==
    /\ At("idle") /\ run.calls < MaxCalls
    /\ run' = [run EXCEPT !.at = "ask", !.calls = @ + 1, !.requests = 0,
                 !.useHistory = useHistory,
                 !.messages = Prefix \o (IF useHistory THEN run.history ELSE <<>>)
                                \o <<Message("user", <<>>)>>]

(* Listing the tools or selecting the model raises: nothing is stored.     *)
GenerateRaises ==
    /\ At("idle") /\ run.calls < MaxCalls
    /\ run' = [run EXCEPT !.calls = @ + 1]

Enough == At("idle") /\ run.calls = MaxCalls /\ run' = [run EXCEPT !.at = "done"]

(* The request fails or brings no choice: the loop ends.                   *)
RequestFails == At("ask") /\ run' = [run EXCEPT !.at = "store"]

(* The end of one turn of the loop.                                        *)
Continue == IF run.requests + 1 = MaxRequests THEN "store" ELSE "ask"

Ids(n) == [k \in 1..n |-> <<run.calls, run.requests, k>>]

(* The model answers.  Its tools are run only when it stopped for them; a  *)
(* message cut off at the token limit may hold calls that never are.       *)
(* Another reason without calls only turns the loop.                       *)
Reply(reason, n) ==
    /\ At("ask")
    /\ reason = "stop" => n = 0
    /\ LET ran == reason = "tools" /\ n > 0 IN
         run' = [run EXCEPT
                   !.messages = Append(@, Message("assistant", Ids(n))),
                   !.lost = IF ran THEN @ ELSE @ \cup Range(Ids(n)),
                   !.requests = IF ran \/ reason # "tools" THEN @ ELSE @ + 1,
                   !.at = CASE ran -> "tools"
                            [] reason \in {"stop", "limit"} -> "store"
                            [] OTHER -> Continue]

(* The calls of the message being worked on.                               *)
LastReply ==
    CHOOSE j \in DOMAIN run.messages :
        /\ run.messages[j].role = "assistant"
        /\ \A k \in DOMAIN run.messages : k > j => run.messages[k].role = "tool"

Pending == run.messages[LastReply].calls

(* OpenAI: the calls of a message end in any order.  A result without      *)
(* content is None and an exception a value, and both are left out.        *)
ToolEnds(k, content) ==
    /\ At("tools") /\ run.provider = "openai"
    /\ k \in DOMAIN Pending
    /\ Pending[k] \notin run.answered \cup run.lost
    /\ run' = [run EXCEPT !.answered = IF content THEN @ \cup {Pending[k]} ELSE @,
                          !.lost = IF content THEN @ ELSE @ \cup {Pending[k]}]

(* What is appended for the calls of one message, in their order.          *)
Results ==
    LET kept == Filtered(Pending, run.answered)
    IN  [k \in DOMAIN kept |-> Message("tool", <<kept[k]>>)]

AppendResults ==
    /\ At("tools") /\ run.provider = "openai"
    /\ Range(Pending) \subseteq run.answered \cup run.lost
    /\ run' = [run EXCEPT !.messages = @ \o Results, !.at = Continue,
                          !.requests = @ + 1]

(* Anthropic: the next call is run and its result appended at once; a      *)
(* failure of the tool is a result too.                                    *)
RunTool ==
    /\ At("tools") /\ run.provider = "anthropic"
    /\ LET k == Len(run.messages) - LastReply + 1
           last == k = Len(Pending) IN
         run' = [run EXCEPT
                   !.messages = Append(@, Message("tool", <<Pending[k]>>)),
                   !.answered = @ \cup {Pending[k]},
                   !.at = IF last THEN Continue ELSE "tools",
                   !.requests = IF last THEN @ + 1 ELSE @]

Store ==
    /\ At("store")
    /\ run' = [run EXCEPT !.at = "idle", !.messages = <<>>,
                 !.history = IF run.useHistory THEN run.messages ELSE @]

Next ==
    \/ \E h \in BOOLEAN : Generate(h)
    \/ GenerateRaises
    \/ Enough
    \/ RequestFails
    \/ \E r \in {"stop", "limit", "tools"}, n \in 0..MaxTools : Reply(r, n)
    \/ \E k \in 1..MaxTools, c \in BOOLEAN : ToolEnds(k, c)
    \/ AppendResults
    \/ RunTool
    \/ Store

Spec == Init /\ [][Next]_run

-----------------------------------------------------------------------------
(* In every list put to the model, a tool result comes in the run of       *)
(* results that directly follows the message with its call, in the order   *)
(* of the calls; and a call is answered once, unless its result was empty, *)
(* raised, or was cut off.                                                 *)
AnswersFollowTheirCalls == At("ask") =>
    LET m == run.messages
        CallOf(t) == m[t].calls[1]
        AskedAt(c) == {a \in DOMAIN m : m[a].role = "assistant" /\ c \in Range(m[a].calls)}
        AnsweredAt(c) == {t \in DOMAIN m : m[t].role = "tool" /\ CallOf(t) = c}
    IN /\ \A t \in DOMAIN m : m[t].role = "tool" =>
            /\ \E a \in AskedAt(CallOf(t)) : a < t /\ \A b \in (a + 1)..t : m[b].role = "tool"
            /\ m[t - 1].role = "tool" => CallOf(t - 1)[3] < CallOf(t)[3]
       /\ \A a \in DOMAIN m : m[a].role = "assistant" =>
            \A c \in Range(m[a].calls) : c \in run.lost <=> AnsweredAt(c) = {}
=============================================================================
