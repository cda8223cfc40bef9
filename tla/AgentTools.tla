----------------------------- MODULE AgentTools -----------------------------
(* The tools an AI agent is given (ai/tools.py), the guard that keeps them in   *)
(* the conversation being handled (ai/scope.py), and the variable that says     *)
(* which one that is (context.py): Chat sets it where it dispatches an event or *)
(* a queued message, and the tasks a handler starts inherit it.                 *)
EXTENDS Integers, FiniteSets, Sequences, SequencesExt

CONSTANTS
    Handling,  \* the tasks that dispatch an event; each may start one of its own
    MaxCalls   \* bound on tool calls, with which a behaviour ends

VARIABLES
    setup,     \* how the toolset was made, and the adapters of the Chat
    event,     \* what each task dispatches
    queue,     \* the threads of the messages waiting behind its lock
    pc,        \* "idle", "handling", "draining" or "done"
    stack,     \* the conversations entered in each task, the innermost last
    serving,   \* history: the conversation each task's running code is for
    child,     \* what the task a handler started inherited and is for, or none
    last,      \* the last tool call
    warnings, calls

vars == <<setup, event, queue, pc, stack, serving, child, last, warnings, calls>>

----------------------------------------------------------------------------
(* Conversations: a channel, or a thread of a channel *)

Nowhere == <<>>
Channel(c) == <<c>>
Thread(c, t) == <<c, t>>
Conversation == {Channel("a"), Thread("a", "1"), Thread("a", "2"), Thread("b", "1")}

\* channel_id_from_thread_id; GitHub's raises for a channel.
Decodable(id) == setup.adapter = "slack" \/ Len(id) = 2
ChannelOf(id) == <<id[1]>>

\* The id of a user, and the platforms whose ids look like it.
User(of, form) == [of |-> of, form |-> form]
Users == {User("gchat", "users/"), User("slack", "U"), User("linear", "uuid"), User("teams", "29:"),
          User("discord", "snowflake"), User("telegram", "number"), User("telegram", "snowflake"),
          User("github", "number")}

\* Mutant (UsersReachTheirPlatform): the first that may be meant.
MutInferred(user) ==
    LET named == [form \in {"users/", "29:", "uuid", "U"} |->
                    CASE form = "users/" -> "gchat" [] form = "29:" -> "teams"
                      [] form = "uuid" -> "linear" [] OTHER -> "slack"]
    IN  IF user.form \in DOMAIN named THEN {named[user.form]} \cap setup.registered
        ELSE IF "telegram" \in setup.registered THEN {"telegram"} ELSE {"discord", "github"} \cap setup.registered

\* _infer_adapter_from_user_id: the adapter of an id, none or more than one if it
\* cannot be told; a snowflake is Discord's where Discord is registered.
Inferred(user) ==
    LET named == [form \in {"users/", "29:", "uuid", "U"} |->
                    CASE form = "users/" -> "gchat" [] form = "29:" -> "teams"
                      [] form = "uuid" -> "linear" [] OTHER -> "slack"]
        numeric == IF user.form = "snowflake" /\ "discord" \in setup.registered THEN {"discord"}
                   ELSE {"telegram", "github"}
    IN  (IF user.form \in DOMAIN named THEN {named[user.form]} ELSE numeric) \cap setup.registered

----------------------------------------------------------------------------
(* The tools: what each is aimed at, and whether it asks for approval *)

Tool(name, target, gated) == [name |-> name, target |-> target, gated |-> gated]

FetchMessages         == Tool("fetchMessages", "thread", FALSE)
FetchChannelMessages  == Tool("fetchChannelMessages", "channel", FALSE)
FetchThread           == Tool("fetchThread", "thread", FALSE)
ListThreads           == Tool("listThreads", "channel", FALSE)
GetThreadParticipants == Tool("getThreadParticipants", "thread", FALSE)
GetChannelInfo        == Tool("getChannelInfo", "channel", FALSE)
GetUser               == Tool("getUser", "user", TRUE)
StartTyping           == Tool("startTyping", "thread", FALSE)
PostMessage           == Tool("postMessage", "thread", TRUE)
PostChannelMessage    == Tool("postChannelMessage", "channel", TRUE)
SendDirectMessage     == Tool("sendDirectMessage", "user", TRUE)
EditMessage           == Tool("editMessage", "thread", TRUE)
DeleteMessage         == Tool("deleteMessage", "thread", TRUE)
AddReaction           == Tool("addReaction", "thread", TRUE)
RemoveReaction        == Tool("removeReaction", "thread", TRUE)
SubscribeThread       == Tool("subscribeThread", "thread", TRUE)
UnsubscribeThread     == Tool("unsubscribeThread", "thread", TRUE)

Reads == {FetchMessages, FetchChannelMessages, FetchThread, ListThreads, GetThreadParticipants, GetChannelInfo, GetUser}
Writes == {PostMessage, PostChannelMessage, SendDirectMessage, EditMessage, DeleteMessage,
           AddReaction, RemoveReaction, SubscribeThread, UnsubscribeThread}
Tools == Reads \cup Writes \cup {StartTyping}

Preset(name) ==
    CASE name = "reader"    -> Reads
      [] name = "messenger" -> {FetchMessages, FetchThread, GetChannelInfo, GetUser, PostMessage, PostChannelMessage,
                                SendDirectMessage, AddReaction, RemoveReaction, StartTyping}
      [] name = "moderator" -> Tools

\* _resolve_preset_tools
Toolset == IF setup.presets = {} THEN Tools ELSE UNION {Preset(p) : p \in setup.presets}

\* Mutant (ApprovalIsAsked): no answer in the map is a no.
MutConfigured(tool) ==
    CASE setup.approval = "map" -> setup.map = "yes" [] OTHER -> setup.approval = "all"

\* _resolve_approval: a map that says nothing of a tool, or null, asks.
Configured(tool) ==
    CASE setup.approval = "map" -> tool # PostMessage \/ setup.map # "no"
      [] OTHER                  -> setup.approval = "all"

\* create_chat_tools and _apply_overrides
NeedsApproval(tool) ==
    IF setup.override = "free" /\ tool = DeleteMessage THEN FALSE ELSE tool.gated /\ Configured(tool)

----------------------------------------------------------------------------
(* The guard *)

None == "none"
Targeted(tool) == tool.target # "user"

\* The conversation a task is in, as the variable says.
Active(conversations) == IF conversations = <<>> THEN Nowhere ELSE Last(conversations)
Scope(conversations)  == IF setup.scope = "handled" THEN Active(conversations) ELSE setup.explicit

\* Mutant (ToolsStayInScope): a thread's channel is enough under strict.
MutInScope(scope, id) == ChannelOf(scope) = ChannelOf(id)

InScope(scope, id) ==
    /\ ChannelOf(scope) = ChannelOf(id)
    /\ ~setup.strict \/ scope = ChannelOf(scope) \/ id = scope

Blocked(scope, id) == ~Decodable(scope) \/ ~Decodable(id) \/ ~InScope(scope, id)

----------------------------------------------------------------------------
(* Steps *)

Setups ==
    [adapter : {"slack"}, registered : {{"slack"}}, presets : {{"reader"}}, approval : {"none"}, map : {None}, override : {None},
     scope : {"handled", "explicit", "everywhere"}, explicit : {Thread("a", "1"), Channel("a")}, strict : BOOLEAN] \cup
    [adapter : {"github"}, registered : {{"github"}}, presets : {{"reader"}}, approval : {"none"}, map : {None}, override : {None},
     scope : {"handled"}, explicit : {Nowhere}, strict : BOOLEAN] \cup
    [adapter : {"slack"}, registered : {{"slack"}, {"telegram", "discord"}, {"telegram", "github"}, {"telegram"},
                                        {"slack", "gchat", "teams", "linear", "discord", "github"}},
     presets : {{"reader"}, {"reader", "messenger"}, {"moderator"}}, approval : {"all", "none"}, map : {None},
     override : {None, "free"}, scope : {"handled"}, explicit : {Nowhere}, strict : {FALSE}] \cup
    [adapter : {"slack"}, registered : {{"slack"}}, presets : {{}}, approval : {"map"}, map : {"yes", "no", "null"},
     override : {None}, scope : {"handled"}, explicit : {Nowhere}, strict : {FALSE}]

\* The setup of a part that does not move.
PlainSetup == [adapter |-> "slack", registered |-> {"slack"}, presets |-> {}, approval |-> "map", map |-> "no",
               override |-> None, scope |-> "handled", explicit |-> Nowhere, strict |-> FALSE]

\* What an event is of: a message's thread, the thread of a press or a reaction,
\* if it has one, a command's channel, what a form was about.
Events == [kind : {"message"}, of : {Thread("a", "1"), Thread("b", "1")}] \cup
          [kind : {"press"}, of : {Thread("a", "2"), Nowhere}] \cup
          [kind : {"command", "form"}, of : {Channel("a")}] \cup
          [kind : {"options", "job"}, of : {Nowhere}]

NoCall == [tool |-> None, target |-> Nowhere, reached |-> {}, for |-> Nowhere, asked |-> FALSE, done |-> FALSE]

Idle == [k \in Handling |-> "idle"]

Init ==
    /\ setup \in Setups
    /\ event \in [Handling -> Events]
    /\ queue \in [Handling -> {<<>>, <<Thread("a", "2")>>, <<Thread("a", "2"), Thread("a", "1")>>}]
    \* Presets and approvals do not depend on the event.
    /\ (setup.presets # {"reader"} \/ setup.approval = "map") =>
            event = [k \in Handling |-> [kind |-> "message", of |-> Thread("b", "1")]]
    /\ \A k \in Handling : event[k].kind # "message" \/ event[k].of # Thread("a", "1") => queue[k] = <<>>
    /\ pc = Idle
    /\ stack = [k \in Handling |-> <<>>]
    /\ serving = [k \in Handling |-> Nowhere]
    /\ child = [k \in Handling |-> [alive |-> FALSE, stack |-> <<>>, serving |-> Nowhere]]
    /\ last = NoCall /\ warnings = 0 /\ calls = 0

\* conversation(): an event without one enters none.
Entered(conversations, id) == IF id = Nowhere THEN conversations ELSE Append(conversations, id)

\* process_*: the task of an event enters its conversation.
Dispatch(k) ==
    /\ pc[k] = "idle"
    /\ pc' = [pc EXCEPT ![k] = "handling"]
    /\ stack' = [stack EXCEPT ![k] = Entered(@, event[k].of)]
    /\ serving' = [serving EXCEPT ![k] = event[k].of]
    /\ UNCHANGED <<setup, event, queue, child, last, warnings, calls>>

\* Mutant (ToolsStayInScope): a queued message is handled as the lock holder's.
DrainAsHolder(k) ==
    /\ pc[k] = "draining" /\ queue[k] # <<>>
    /\ pc' = [pc EXCEPT ![k] = "handling"]
    /\ queue' = [queue EXCEPT ![k] = Tail(@)]
    /\ serving' = [serving EXCEPT ![k] = Head(queue[k])]
    /\ UNCHANGED <<setup, event, stack, child, last, warnings, calls>>

\* _drain_queue and _debounce_loop: a queued message, in its own conversation.
Drain(k) ==
    /\ pc[k] = "draining" /\ queue[k] # <<>>
    /\ pc' = [pc EXCEPT ![k] = "handling"]
    /\ queue' = [queue EXCEPT ![k] = Tail(@)]
    /\ stack' = [stack EXCEPT ![k] = Entered(@, Head(queue[k]))]
    /\ serving' = [serving EXCEPT ![k] = Head(queue[k])]
    /\ UNCHANGED <<setup, event, child, last, warnings, calls>>

\* The handlers are through, or one raised: what the last message entered is
\* left; the holder of a lock goes on with its queue, unless a handler raised.
Leave(k) ==
    /\ pc[k] = "handling"
    /\ \E raised \in BOOLEAN :
        LET more == ~raised /\ queue[k] # <<>>
        IN  /\ pc' = [pc EXCEPT ![k] = IF more THEN "draining" ELSE "done"]
            /\ stack' = [stack EXCEPT ![k] = IF more THEN Entered(<<>>, event[k].of) ELSE <<>>]
    /\ serving' = [serving EXCEPT ![k] = Nowhere]
    /\ UNCHANGED <<setup, event, queue, child, last, warnings, calls>>

\* A task a handler starts has a copy of its context and may outlive it.
Start(k) ==
    /\ pc[k] = "handling" /\ ~child[k].alive
    /\ child' = [child EXCEPT ![k] = [alive |-> TRUE, stack |-> stack[k], serving |-> serving[k]]]
    /\ UNCHANGED <<setup, event, queue, pc, stack, serving, last, warnings, calls>>

\* A tool call, once approved if it must be, from code of a handler in the given
\* context.  The agent may aim it anywhere.
Call(tool, conversations, for) ==
    /\ calls < MaxCalls
    /\ calls' = calls + 1
    /\ \/ /\ Targeted(tool)
          /\ \E id \in Conversation :
              LET scope   == Scope(conversations)
                  guarded == setup.scope # "everywhere"
                  blocked == guarded /\ scope # Nowhere /\ Blocked(scope, id)
              IN  /\ last' = [tool |-> tool.name, target |-> id, reached |-> {}, for |-> for,
                              asked |-> NeedsApproval(tool), done |-> ~blocked]
                  /\ warnings' = IF guarded /\ scope = Nowhere /\ warnings = 0 THEN 1 ELSE warnings
       \/ /\ ~Targeted(tool)
          /\ \E user \in Users :
                last' = [tool |-> tool.name, target |-> user, reached |-> Inferred(user), for |-> for,
                         asked |-> NeedsApproval(tool), done |-> Cardinality(Inferred(user)) = 1]
          /\ UNCHANGED warnings
    /\ UNCHANGED <<setup, event, queue, pc, stack, serving, child>>

CallFromHandler(k) == pc[k] = "handling" /\ \E tool \in Toolset : Call(tool, stack[k], serving[k])
CallFromTask(k)    == child[k].alive /\ \E tool \in Toolset : Call(tool, child[k].stack, child[k].serving)

Next ==
    \/ \E k \in Handling :
          \/ calls < MaxCalls /\ (Dispatch(k) \/ Drain(k) \/ Leave(k) \/ Start(k))
          \/ CallFromHandler(k) \/ CallFromTask(k)
    \/ (calls = MaxCalls \/ \A k \in Handling : pc[k] = "done") /\ UNCHANGED vars

Spec == Init /\ [][Next]_vars

----------------------------------------------------------------------------
(* Properties *)

TypeOK ==
    /\ setup \in Setups /\ event \in [Handling -> Events] /\ warnings \in 0 .. 1 /\ calls \in 0 .. MaxCalls
    /\ \A k \in Handling : Len(stack[k]) <= 2 /\ serving[k] \in Conversation \cup {Nowhere}

OfTool(tools) == last.tool \in {tool.name : tool \in tools}
Aimed == OfTool({tool \in Tools : Targeted(tool)})

\* The conversation the toolset is for, as its maker means it.
Meant == IF setup.scope = "explicit" THEN setup.explicit ELSE last.for

\* An agent reaches nothing but the channel of the conversation it was asked in,
\* or, if strict, but that thread, whichever tasks run meanwhile, whichever
\* message was handled before in the same task, and however long the task the
\* handler started lives on.
ToolsStayInScope ==
    (Aimed /\ last.done /\ setup.scope # "everywhere" /\ Meant # Nowhere) =>
        /\ last.target[1] = Meant[1]
        /\ (setup.strict /\ Len(Meant) = 2) => last.target = Meant

\* And it does reach that thread.
ToolsReachTheirThread ==
    (Aimed /\ last.target = Meant /\ Decodable(Meant)) => last.done

\* Without a conversation the tools work everywhere, which is told once.
UnscopedIsTold ==
    (Aimed /\ last.done /\ setup.scope = "handled" /\ last.for = Nowhere) => warnings = 1

\* What changes something on a platform, or tells of a user, has been approved,
\* unless the application said otherwise of that very tool; a reader only reads.
ApprovalIsAsked ==
    /\ (last.done /\ OfTool(Writes \cup {GetUser}) /\ ~last.asked) =>
            \/ setup.approval = "none"
            \/ setup.approval = "map" /\ setup.map = "no" /\ last.tool = "postMessage"
            \/ setup.override = "free" /\ last.tool = "deleteMessage"
    /\ setup.presets = {"reader"} => ~OfTool(Writes)

\* A user is looked up, or written to, on the user's own platform if the
\* application is there, save that a long number is taken for Discord's.
UsersReachTheirPlatform ==
    (last.tool \in {"getUser", "sendDirectMessage"} /\ last.done) =>
        \/ last.reached = {last.target.of}
        \/ last.target.of \notin setup.registered
        \/ last.target.form = "snowflake" /\ last.reached = {"discord"}

AgentsStayInTheirThread ==
    /\ ToolsStayInScope /\ ToolsReachTheirThread /\ UnscopedIsTold
    /\ ApprovalIsAsked /\ UsersReachTheirPlatform
=============================================================================
