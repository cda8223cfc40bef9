------------------------------ MODULE Ownership ------------------------------
(* Which Chat a thread or a channel belongs to once it has left the process as  *)
(* JSON and come back, beside other Chats (thread.py, channel.py, reviver.py).  *)
(* A Chat's own threads have its adapter, state and streaming settings; one     *)
(* that is restored has the adapter's name, and a binding that finds the Chat:  *)
(* the one named in from_json, else the active one, else the process's default. *)
EXTENDS Integers, FiniteSets, Sequences

CONSTANTS MaxSteps  \* bound on what is done, with which a behaviour ends

VARIABLES
    kind,     \* "thread" or "channel"
    default,  \* the process's default Chat
    active,   \* the Chat active in this context
    object,   \* the thread or channel
    last,     \* what the last operation used
    steps

vars == <<kind, default, active, object, last, steps>>

None == "none"
Chats == {"c1", "c2"}

\* Adapter instances: each has a name, and is registered under a key, if at all.
Adapters == {"s1", "s2", "b2", "x"}
NameOf(adapter) == "slack"
Registered(chat) == IF chat = "c1" THEN [slack |-> "s1"] ELSE [slack |-> "s2", second |-> "b2"]

Named(chat, name) == IF name \in DOMAIN Registered(chat) THEN Registered(chat)[name] ELSE None

\* Mutant (RoutesDoNotSplit): by name.
MutOwns(chat, adapter) == NameOf(adapter) \in DOMAIN Registered(chat)

\* owns_adapter: by identity, under whichever key.
Owns(chat, adapter) == \E key \in DOMAIN Registered(chat) : Registered(chat)[key] = adapter

\* get_chat_singleton
Singleton == IF active # None THEN active ELSE default

----------------------------------------------------------------------------
(* Bindings *)

Binding(chat) == [on |-> TRUE, explicit |-> chat, owner |-> None, checked |-> None]
NoBinding == [on |-> FALSE, explicit |-> None, owner |-> None, checked |-> None]

\* _ChatBinding.resolve_owner: an owner found is kept, and a Chat looked at once.
OwnerResolved(binding, adapter) ==
    LET chat == IF binding.explicit # None THEN binding.explicit ELSE Singleton
    IN  IF ~binding.on \/ binding.owner # None \/ chat = None \/ chat = binding.checked THEN binding
        ELSE [binding EXCEPT !.checked = chat, !.owner = IF Owns(chat, adapter) THEN chat ELSE None]

\* An object whose binding has looked for the owner of its adapter.
Resolved(o) == [o EXCEPT !.binding = OwnerResolved(@, o.adapter)]

\* The adapter property: what the object has become, and whether it raised.
WithAdapter(o) ==
    LET chat  == IF o.binding.explicit # None THEN o.binding.explicit ELSE Singleton
        found == IF chat = None THEN None ELSE Named(chat, o.name)
    IN  IF o.adapter # None THEN [o |-> Resolved(o), raised |-> FALSE]
        ELSE IF o.name = "" \/ ~o.binding.on \/ found = None THEN [o |-> o, raised |-> TRUE]
        ELSE [o |-> [o EXCEPT !.adapter = found, !.binding.owner = chat], raised |-> FALSE]

\* Mutant (RoutesDoNotSplit): a state once found is kept, whosever it is.
MutWithState(o) ==
    LET with  == WithAdapter(o)
        owner == OwnerResolved(with.o.binding, with.o.adapter).owner
        state == IF owner # None THEN owner ELSE Singleton
    IN  IF o.state # None THEN [o |-> o, state |-> o.state, raised |-> FALSE]
        ELSE IF with.raised \/ state = None THEN [o |-> with.o, state |-> None, raised |-> TRUE]
        ELSE [o |-> [with.o EXCEPT !.state = state], state |-> state, raised |-> FALSE]

\* The state property, resolve_state: only the owner's is kept.
WithState(o) ==
    LET with  == WithAdapter(o)
        bound == Resolved(with.o)
    IN  IF o.state # None THEN [o |-> o, state |-> o.state, raised |-> FALSE]
        ELSE IF ~o.binding.on THEN [o |-> [o EXCEPT !.state = Singleton], state |-> Singleton, raised |-> Singleton = None]
        ELSE IF with.raised THEN [o |-> with.o, state |-> None, raised |-> TRUE]
        ELSE IF bound.binding.owner # None
             THEN [o |-> [bound EXCEPT !.state = bound.binding.owner], state |-> bound.binding.owner, raised |-> FALSE]
        ELSE [o |-> bound, state |-> IF bound.binding.explicit # None THEN None ELSE Singleton,
              raised |-> bound.binding.explicit # None \/ Singleton = None]

\* The channel property of a thread: made once, of the adapter, which is looked up
\* first, and the state the thread has then.
WithChannel(o) ==
    LET there == WithAdapter(o)
        with  == WithState(there.o)
    IN  IF o.channel # <<>> THEN [o |-> o, raised |-> FALSE]
        ELSE IF there.raised THEN there
        ELSE IF with.raised THEN [o |-> with.o, raised |-> TRUE]
        ELSE [o |-> [with.o EXCEPT !.channel = <<with.o.adapter, with.state>>], raised |-> FALSE]

\* _handle_stream: the thread's own settings, else the owner's.
StreamingOf(o) ==
    LET owner == OwnerResolved(o.binding, o.adapter).owner
    IN  IF o.streaming # None THEN o.streaming ELSE owner

----------------------------------------------------------------------------
(* Messages: to_json, and back by Message.from_json, its compatible twin and    *)
(* _message_from_json.  The key of a user is none of its fields.                *)

Message(mention, system, reply) ==
    [mention |-> mention, system |-> system, reply |-> reply, key |-> "u", adapter |-> None]

\* Mutant (MessagesSurvive): a flag that is not set is left out.
MutWritten(m) == [fields |-> [f \in {f \in {"mention", "system", "reply"} : m[f] \notin {"unset", "no"}} |-> m[f]]]

Written(m) == [fields |-> [f \in {f \in {"mention", "system", "reply"} : m[f] # "unset"} |-> m[f]]]
Read(data) ==
    LET value(f) == IF f \in DOMAIN data.fields THEN data.fields[f] ELSE "unset"
    IN  [Message(value("mention"), value("system"), value("reply")) EXCEPT !.key = None]

Messages == {Message(m, s, r) : m, s \in {"unset", "no", "yes"}, r \in {"unset", "r1"}}
PlainMessage == Message("yes", "unset", "unset")

----------------------------------------------------------------------------
(* Making, writing and restoring *)

NoObject == [form |-> None]

\* A thread a Chat makes for a message it dispatches, with a signal of the turn.
Dispatched(chat, adapter, message) ==
    [form |-> "object", adapter |-> adapter, name |-> None, binding |-> NoBinding, state |-> chat,
     streaming |-> IF kind = "thread" THEN chat ELSE None, turn |-> IF kind = "thread" THEN chat ELSE None,
     recent |-> IF kind = "thread" THEN chat ELSE None, history |-> chat, channel |-> <<>>,
     message |-> [message EXCEPT !.adapter = adapter]]

\* One made without a state of its own.
Bare(adapter) == [Dispatched(None, adapter, PlainMessage) EXCEPT !.message.adapter = None]

\* to_json; an adapter's name is its own, not the key it is registered under.
Serialized(o) ==
    [form |-> "json", name |-> IF o.name # None THEN o.name ELSE NameOf(o.adapter),
     message |-> Written(o.message)]

\* The object from_json makes of JSON, before it is bound.
Fresh(data, chat) ==
    [form |-> "object", adapter |-> None, name |-> data.name, binding |-> Binding(chat), state |-> None,
     streaming |-> None, turn |-> None, recent |-> None, history |-> None, channel |-> <<>>, message |-> Read(data.message)]

\* Mutant (RebindingIsRestoring): the streaming settings stay.
MutCleared(o, chat) ==
    [o EXCEPT !.state = None, !.channel = <<>>, !.history = None, !.recent = None,
              !.binding = Binding(chat), !.turn = None]

\* What from_json makes of an object it is given: nothing of its former Chat.
Cleared(o, chat) ==
    [o EXCEPT !.state = None, !.channel = <<>>, !.history = None, !.recent = None,
              !.binding = Binding(chat), !.streaming = None, !.turn = None]

\* Mutant (FailuresLeaveItAlone): it has been cleared.
MutRefused(data, chat) == IF data.form = "object" THEN Cleared(data, chat) ELSE data

\* What from_json leaves of what it was given when it raises.
Refused(data, chat) == data

\* What is restored with a Chat named is that Chat's.
Owned(o, chat) == [o EXCEPT !.state = chat, !.binding.owner = chat,
                            !.message.adapter = IF o.adapter # None THEN o.adapter ELSE @]

\* from_json: of JSON, or of an object, which is bound anew.  What may raise is
\* looked at before the object is touched.
Restored(data, adapter, chat) ==
    LET old    == data.form = "object"
        lookup == IF data.name \notin {None, ""} THEN data.name
                  ELSE IF old /\ data.adapter # None THEN NameOf(data.adapter) ELSE ""
        raises == \/ chat # None /\ adapter # None /\ ~Owns(chat, adapter)
                  \/ chat # None /\ adapter = None /\ lookup # "" /\ Named(chat, lookup) = None
        start  == IF ~old THEN Fresh(data, chat)
                  ELSE IF adapter = None /\ chat = None THEN data ELSE Cleared(data, chat)
        given  == IF adapter = None THEN start ELSE [start EXCEPT !.adapter = adapter, !.name = NameOf(adapter)]
        named  == IF chat = None \/ adapter # None \/ lookup = "" THEN given
                  ELSE [given EXCEPT !.adapter = Named(chat, lookup), !.name = lookup]
        eager  == IF Singleton = None \/ start.name \in {None, ""} THEN None ELSE Named(Singleton, start.name)
    IN  IF raises THEN [o |-> Refused(data, chat), raised |-> TRUE]
        ELSE [raised |-> FALSE,
              o |-> IF chat # None THEN Owned(named, chat)
                    ELSE IF adapter # None THEN Resolved(given)
                    ELSE IF start.binding.on /\ start.adapter = None /\ eager # None
                         THEN [start EXCEPT !.adapter = eager, !.binding.owner = Singleton, !.state = Singleton]
                    ELSE start]

----------------------------------------------------------------------------
(* Steps *)

NoUse == [op |-> None, raised |-> FALSE, adapter |-> None, state |-> None, streaming |-> None,
          before |-> NoObject, fresh |-> NoObject, chat |-> None, given |-> None]

\* JSON that does not name an adapter.
Nameless == [form |-> "json", name |-> "", message |-> Written(PlainMessage)]

Init ==
    /\ kind \in {"thread", "channel"}
    /\ default \in {None, "c2"} /\ active \in Chats \cup {None}
    \* What becomes of a message does not depend on the Chats.
    /\ object \in {Dispatched("c1", "s1", PlainMessage), Dispatched("c2", "b2", PlainMessage), Bare("s1"),
                   Nameless} \cup
                  (IF kind = "thread" /\ default = None /\ active = "c1" THEN {Dispatched("c1", "s1", m) : m \in Messages}
                   ELSE {})
    /\ last = NoUse /\ steps = 0

Count == steps < MaxSteps /\ steps' = steps + 1

\* register_singleton, clear_chat_singleton, activate and its end
ChangeChats ==
    /\ Count
    /\ \/ default' \in Chats /\ UNCHANGED active
       \/ default' = None /\ active' = None
       \/ active' \in Chats \cup {None} /\ UNCHANGED default
    /\ <<default, active>>' # <<default, active>>
    /\ last' = NoUse
    /\ UNCHANGED <<kind, object>>

Serialize ==
    /\ Count /\ object.form = "object"
    /\ object' = Serialized(IF object.name # None THEN object ELSE WithAdapter(object).o)
    /\ last' = [NoUse EXCEPT !.op = "serialize", !.before = object]
    /\ UNCHANGED <<kind, default, active>>

\* from_json, and so reviver and Chat.reviver; a modal's context is restored with
\* the adapter of the event and the Chat, if that has the adapter.
FromJson ==
    /\ Count
    /\ \E adapter \in Adapters \cup {None}, chat \in Chats \cup {None} :
          LET restored == Restored(object, adapter, chat)
              json     == IF object.form = "json" THEN object
                          ELSE Serialized(IF object.name # None THEN object ELSE WithAdapter(object).o)
          IN  /\ object' = restored.o
              /\ last' = [NoUse EXCEPT !.op = IF adapter = None /\ chat = None THEN "revive" ELSE "restore",
                                       !.raised = restored.raised, !.before = object,
                                       !.fresh = Restored(json, adapter, chat), !.chat = chat, !.given = adapter]
    /\ UNCHANGED <<kind, default, active>>

\* A message is posted, or the channel's state is read.
Use ==
    /\ Count /\ object.form = "object"
    /\ \/ LET with == WithState(object)
              then == WithAdapter(with.o)
          IN  /\ object' = then.o
              /\ last' = [NoUse EXCEPT !.op = "use", !.raised = with.raised \/ then.raised, !.adapter = then.o.adapter,
                                       !.state = with.state, !.before = object]
       \/ /\ kind = "thread"
          /\ LET with == WithChannel(object)
             IN  /\ object' = with.o
                 /\ last' = [NoUse EXCEPT !.op = "channel", !.raised = with.raised, !.before = object,
                                          !.adapter = IF with.raised THEN None ELSE with.o.channel[1],
                                          !.state = IF with.raised THEN None ELSE with.o.channel[2]]
       \/ /\ kind = "thread"
          /\ LET with == WithAdapter(object)
             IN  /\ object' = IF with.raised THEN with.o ELSE Resolved(with.o)
                 /\ last' = [NoUse EXCEPT !.op = "stream", !.raised = with.raised, !.adapter = with.o.adapter, !.before = object,
                                          !.streaming = IF with.raised THEN None ELSE StreamingOf(with.o)]
    /\ UNCHANGED <<kind, default, active>>

Next == ChangeChats \/ Serialize \/ FromJson \/ Use \/ (steps = MaxSteps /\ UNCHANGED vars)

Spec == Init /\ [][Next]_vars

----------------------------------------------------------------------------
(* Properties *)

\* The Chat has this very adapter.
IsOf(chat, adapter) == adapter \in {Registered(chat)[key] : key \in DOMAIN Registered(chat)}

IsObject == object.form = "object"

TypeOK ==
    /\ kind \in {"thread", "channel"} /\ {default, active} \subseteq Chats \cup {None} /\ steps \in 0 .. MaxSteps
    /\ IsObject => object.adapter \in Adapters \cup {None} /\ object.state \in Chats \cup {None}

\* What is kept of the state is that of the Chat the adapter is registered with,
\* so no object answers through one Chat's platform and remembers in another's
\* store; one made without a state has no such promise.
RoutesDoNotSplit ==
    (IsObject /\ object.binding.on) =>
        /\ (object.binding.owner # None /\ object.adapter # None) => IsOf(object.binding.owner, object.adapter)
        /\ object.state # None => object.state = object.binding.owner
        /\ (last.op \in {"use", "channel"} /\ ~last.raised /\ last.before.channel = <<>> /\ object.binding.owner # None) =>
              last.state = object.binding.owner

\* An object that found its Chat keeps to it whichever is active afterwards, until
\* it is bound anew.
OwnersAreKept ==
    (last.op \in {"use", "channel", "stream", "revive"} /\ last.before.form = "object" /\ last.before.binding.owner # None
     /\ last.before.adapter # None) =>
        /\ object.binding.owner = last.before.binding.owner
        /\ last.op # "revive" => ~last.raised /\ last.adapter = last.before.adapter

\* A rebinding that fails leaves the object as it was.
FailuresLeaveItAlone == (last.op \in {"restore", "revive"} /\ last.raised) => object = last.before

\* One that succeeds leaves it as the JSON of it would have been restored, but
\* for what its message knows already.
RebindingIsRestoring ==
    (last.op = "restore" /\ last.before.form = "object") =>
        /\ last.raised = last.fresh.raised
        /\ ~last.raised => [object EXCEPT !.message = PlainMessage] = [last.fresh.o EXCEPT !.message = PlainMessage]

\* A thread streams as its own Chat has it: the one that dispatched it, or the
\* one that owns it now.
StreamsAsItsChat ==
    (last.op = "stream" /\ ~last.raised) =>
        /\ ~object.binding.on => last.streaming = object.streaming
        /\ object.binding.on => last.streaming = object.binding.owner

\* With a Chat named the adapter, the state and the message's subject are that
\* Chat's, whatever is active.
NamedChatIsTheOwner ==
    (last.op = "restore" /\ ~last.raised /\ last.chat # None /\ object.adapter # None) =>
        /\ IsOf(last.chat, object.adapter) /\ object.state = last.chat /\ object.message.adapter = object.adapter
        /\ last.given # None => object.adapter = last.given

\* Of a message nothing is lost on the way but the user's key.
MessagesSurvive ==
    LET Kept(o) == IF o.form = "json" THEN Read(o.message) ELSE o.message
    IN  last.op \in {"serialize", "restore", "revive"} =>
          /\ Kept(object).mention = Kept(last.before).mention
          /\ Kept(object).system = Kept(last.before).system /\ Kept(object).reply = Kept(last.before).reply

ObjectsStayTheirChats ==
    /\ RoutesDoNotSplit /\ OwnersAreKept /\ FailuresLeaveItAlone /\ RebindingIsRestoring
    /\ StreamsAsItsChat /\ NamedChatIsTheOwner /\ MessagesSurvive
=============================================================================
