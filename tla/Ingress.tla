------------------------------ MODULE Ingress ------------------------------
(***************************************************************************)
(* Where an adapter says an event happened, and whether the bot did it     *)
(* itself.  The messages of one conversation are written, edited, deleted, *)
(* reacted to and clicked; their events arrive in any order; an adapter    *)
(* may have to ask its platform or the state before it can name a thread,  *)
(* and the question may fail.  A thread is the message it starts at, or 0, *)
(* the conversation as a whole.  Each operator named after a platform is   *)
(* what that adapter's handlers make of an event.                          *)
(***************************************************************************)
EXTENDS Naturals, Sequences, FiniteSets

CONSTANTS
    MaxMessages,   \* bound: messages of the conversation
    MaxEvents,     \* bound: events delivered
    MaxFaults      \* bound: questions that fail

VARIABLES
    platform, place,
    identity,      \* the adapter knows the bot's own id
    messages,      \* [root, by, mention], oldest first
    asked,         \* events an adapter is still finding out about
    delivered,     \* events delivered
    handed,        \* history: what Chat was handed
    subscribed,    \* the subscribed threads, each with the messages before it
    parents,       \* Discord: the threads whose parent is cached
    returned,      \* GitHub: a post of the bot has returned
    faults

vars == <<platform, place, identity, messages, asked, delivered, handed, subscribed,
          parents, returned, faults>>

Places == [slack     |-> {"channel", "dm", "agent dm"},
           discord   |-> {"channel"},
           gchat     |-> {"channel", "dm"},
           telegram  |-> {"topic", "dm"},
           teams     |-> {"channel", "dm"},
           github    |-> {"review", "issue"},
           linear    |-> {"issue", "session"},
           whatsapp  |-> {"dm"},
           messenger |-> {"dm"},
           twilio    |-> {"dm"}]

Kinds == [slack     |-> {"message", "edit", "deletion", "reaction", "click"},
          discord   |-> {"message", "reaction", "click"},
          gchat     |-> {"message", "pubsub", "reaction", "click"},
          telegram  |-> {"message", "edit", "reaction", "click"},
          teams     |-> {"message", "reaction", "click"},
          github    |-> {"message"},
          linear    |-> {"message"},
          whatsapp  |-> {"message", "reaction", "click"},
          messenger |-> {"message", "reaction", "click"},
          twilio    |-> {"message"}]

Id == 1 .. Len(messages)
Root(m) == messages[m].root
Own(m) == messages[m].by = "self"
TopLevel(m) == Root(m) = 0
Start(m) == IF TopLevel(m) THEN m ELSE Root(m)
InDM == place \in {"dm", "agent dm"}

(***************************************************************************)
(* The thread of an event; told is the answer to what the adapter asks     *)
(***************************************************************************)
\* Mutant: a top-level direct message starts a thread of its own.
MutSlackThread(m) == Start(m)

\* Slack: direct messages share a thread, except under agent_view, where each
\* starts its own.
SlackThread(m) == IF place = "dm" THEN Root(m) ELSE Start(m)

\* Mutant: whoever subscribed to the direct messages is not asked for.
MutBridged(e, told) == FALSE

\* ... unless somebody subscribed to all of them.
Bridged(e, told) ==
    /\ place = "agent dm" /\ e.kind = "message" /\ TopLevel(e.of)
    /\ told /\ 0 \in DOMAIN subscribed

\* A deletion without the previous message, and a reaction whose message could
\* not be read, do not say what they reply to.
SlackReaction(e, told) == IF told THEN Start(e.of) ELSE e.of
SlackDeletion(e, told) ==
    IF told THEN SlackThread(e.of) ELSE IF place = "dm" THEN 0 ELSE e.of
SlackClick(e) == IF InDM THEN Root(e.of) ELSE Start(e.of)
Slack(e, told) ==
    CASE e.kind = "message" -> IF Bridged(e, told) THEN 0 ELSE SlackThread(e.of)
      [] e.kind = "edit" -> SlackThread(e.of)
      [] e.kind = "deletion" -> SlackDeletion(e, told)
      [] e.kind = "reaction" -> SlackReaction(e, told)
      [] e.kind = "click" -> SlackClick(e)

\* Discord: a thread is a channel; without its parent it is taken for one of
\* the guild's own.
Stray(r) == MaxMessages + r
InThread(e, told) == IF told THEN Root(e.of) ELSE Stray(Root(e.of))

\* A mention outside a thread starts one.
DiscordMessage(e, told) ==
    IF ~TopLevel(e.of) THEN InThread(e, told)
    ELSE IF messages[e.of].mention /\ told THEN e.of ELSE 0
DiscordReaction(e, told) ==
    IF TopLevel(e.of) THEN 0 ELSE InThread(e, told \/ Root(e.of) \in parents)
DiscordClick(e, told) == IF TopLevel(e.of) THEN 0 ELSE InThread(e, told)
Discord(e, told) ==
    CASE e.kind = "message" -> DiscordMessage(e, told)
      [] e.kind = "reaction" -> DiscordReaction(e, told)
      [] e.kind = "click" -> DiscordClick(e, told)

\* Google Chat: a webhook's direct messages share a thread; Pub/Sub and clicks
\* do not ask what kind of space it is.
GoogleMessage(e) == IF InDM THEN 0 ELSE Start(e.of)
GooglePubSub(e) == Start(e.of)
GoogleReaction(e, told) == IF told THEN Start(e.of) ELSE 0
GoogleClick(e) == Start(e.of)
GoogleChat(e, told) ==
    CASE e.kind = "message" -> GoogleMessage(e)
      [] e.kind = "pubsub" -> GooglePubSub(e)
      [] e.kind = "reaction" -> GoogleReaction(e, told)
      [] e.kind = "click" -> GoogleClick(e)

\* Telegram: a forum's topic, which the Bot API's reactions do not carry.
TopicOf == IF place = "topic" THEN 1 ELSE 0
TelegramMessage == TopicOf
TelegramClick == TopicOf
TelegramReaction == 0
Telegram(e) ==
    CASE e.kind \in {"message", "edit"} -> TelegramMessage
      [] e.kind = "click" -> TelegramClick
      [] e.kind = "reaction" -> TelegramReaction

\* Teams: the conversation of the activity; a channel's names its thread.
ThreadOfActivity(e) == IF place = "channel" THEN Start(e.of) ELSE 0
TeamsMessage(e) == ThreadOfActivity(e)
TeamsClick(e) == ThreadOfActivity(e)
TeamsReaction(e) == ThreadOfActivity(e)
Teams(e) ==
    CASE e.kind = "message" -> TeamsMessage(e)
      [] e.kind = "click" -> TeamsClick(e)
      [] e.kind = "reaction" -> TeamsReaction(e)

\* GitHub: the issue or pull request, or the thread of a review comment.
GitHubIssueComment(e) == 0
GitHubReviewComment(e) == Start(e.of)
\* Linear: the thread of a comment, or the agent session.
LinearComment(e) == Start(e.of)
LinearSession(e) == 0
\* One conversation per user.
WhatsApp(e) == 0
Messenger(e) == 0
Twilio(e) == 0

Thread(e, told) ==
    CASE platform = "slack" -> Slack(e, told)
      [] platform = "discord" -> Discord(e, told)
      [] platform = "gchat" -> GoogleChat(e, told)
      [] platform = "telegram" -> Telegram(e)
      [] platform = "teams" -> Teams(e)
      [] platform = "github" -> IF place = "review" THEN GitHubReviewComment(e)
                                                    ELSE GitHubIssueComment(e)
      [] platform = "linear" -> IF place = "issue" THEN LinearComment(e)
                                                   ELSE LinearSession(e)
      [] platform = "whatsapp" -> WhatsApp(e)
      [] platform = "messenger" -> Messenger(e)
      [] platform = "twilio" -> Twilio(e)

\* What may go without an answer.
Asks(e) ==
    CASE platform = "slack" -> \/ e.kind \in {"deletion", "reaction"}
                               \/ e.kind = "message" /\ place = "agent dm"
      [] platform = "discord" -> ~TopLevel(e.of) \/ messages[e.of].mention
      [] platform = "gchat" -> e.kind = "reaction"
      [] platform = "github" -> ~identity
      [] OTHER -> FALSE

(***************************************************************************)
(* Whose event it is                                                       *)
(***************************************************************************)
\* GitHub asks who it is on every webhook until it knows.
Known(told) == identity \/ (platform = "github" /\ told)

\* Mutant: an unknown bot is taken for somebody else.
MutFromSelf(e, told) == e.actor = "self" /\ Known(told)

\* Mutant: Linear's comments are not compared with the bot's id.
MutUnchecked(e, told) ==
    /\ e.actor = "self" /\ platform # "linear"
    /\ Known(told) \/ (platform = "gchat" /\ e.kind \in {"message", "pubsub"})

\* Mutant: GitHub only compares the id that a post of its own brought.
MutConfigured(e, told) ==
    /\ e.actor = "self" /\ (platform = "github" => returned)
    /\ Known(told) \/ (platform = "gchat" /\ e.kind \in {"message", "pubsub"})

\* The adapters compare ids; Google Chat takes any bot's message for its own
\* while it has none.
FromSelf(e, told) ==
    /\ e.actor = "self"
    /\ Known(told) \/ (platform = "gchat" /\ e.kind \in {"message", "pubsub"})

\* Deletions are everybody's.
Ignored(e, told) == e.kind # "deletion" /\ FromSelf(e, told)

(***************************************************************************)
(* The conversation                                                        *)
(***************************************************************************)
Init ==
    /\ platform \in DOMAIN Places
    /\ place \in Places[platform]
    /\ identity \in IF platform \in {"gchat", "github", "linear"} THEN BOOLEAN ELSE {TRUE}
    /\ messages = <<>> /\ asked = {} /\ delivered = {} /\ handed = {}
    /\ subscribed = <<>> /\ parents = {} /\ returned = FALSE /\ faults = 0

Write(root, by, mention) ==
    /\ Len(messages) < MaxMessages
    /\ messages' = Append(messages, [root |-> root, by |-> by, mention |-> mention])

\* A user writes: top-level, or below a message that is.
UserWrites(root, mention) ==
    /\ root = 0 \/ (root \in Id /\ TopLevel(root) /\ ~mention)
    /\ mention => platform = "discord"
    /\ Write(root, "user", mention)
    /\ UNCHANGED <<platform, place, identity, asked, delivered, handed, subscribed,
                   parents, returned, faults>>

\* A handler of a message answers in the thread it was given.
HandlerPosts(h) ==
    /\ h \in handed /\ h.kind \in {"message", "pubsub"}
    /\ LET root == IF h.thread > MaxMessages THEN h.thread - MaxMessages ELSE h.thread
       IN  Write(IF platform = "telegram" THEN 0 ELSE root, "self", FALSE)
    /\ UNCHANGED <<platform, place, identity, asked, delivered, handed, subscribed,
                   parents, returned, faults>>

\* Mutant: GitHub learns nothing from what it posted.
MutPostReturns ==
    /\ platform = "github" /\ ~returned /\ \E m \in Id : Own(m)
    /\ returned' = TRUE
    /\ UNCHANGED <<platform, place, identity, messages, asked, delivered, handed,
                   subscribed, parents, faults>>

\* The first post returns; GitHub's adapter learns from it who it is.
PostReturns ==
    /\ platform = "github" /\ ~returned /\ \E m \in Id : Own(m)
    /\ returned' = TRUE /\ identity' = TRUE
    /\ UNCHANGED <<platform, place, messages, asked, delivered, handed, subscribed,
                   parents, faults>>

\* A handler subscribes to a thread it saw, or to that of open_dm.
Subscribe(t) ==
    /\ subscribed = <<>>
    /\ \/ \E h \in handed : h.thread = t
       \/ InDM /\ t = 0
    /\ subscribed' = [s \in {t} |-> Len(messages)]
    /\ UNCHANGED <<platform, place, identity, messages, asked, delivered, handed,
                   parents, returned, faults>>

\* Chat is handed an event, unless it is the bot's own.  (learnt and known: a
\* post had returned, and the adapter knew its id, when the event arrived.)
Handed(e, told, learnt, known) ==
    /\ handed' = IF Ignored(e, told) THEN handed
                 ELSE handed \cup {[kind |-> e.kind, of |-> e.of, actor |-> e.actor, told |-> told,
                                    thread |-> Thread(e, told), learnt |-> learnt, known |-> known]}
    /\ identity' = Known(told)
    /\ parents' = IF platform = "discord" /\ told /\ ~TopLevel(e.of)
                  THEN parents \cup {Root(e.of)} ELSE parents

\* An event arrives, and is handed to Chat if there is nothing to ask.  Clicks
\* are on what the bot wrote; WhatsApp and Telegram do not tell bots of what
\* they wrote themselves.
Receive(kind, m, actor) ==
    LET e == [kind |-> kind, of |-> m, actor |-> actor]
    IN  /\ m \in Id /\ e \notin delivered /\ Cardinality(delivered) < MaxEvents
        /\ kind = "click" => Own(m) /\ actor = "user"
        /\ kind \notin {"click", "reaction"} => actor = messages[m].by
        /\ platform \in {"whatsapp", "telegram"} => actor = "user"
        /\ delivered' = delivered \cup {e}
        /\ IF Asks(e)
           THEN /\ asked' = asked \cup {[event |-> e, learnt |-> returned, known |-> identity]}
                /\ UNCHANGED <<identity, handed, parents>>
           ELSE /\ Handed(e, TRUE, returned, identity)
                /\ UNCHANGED asked
        /\ UNCHANGED <<platform, place, messages, subscribed, returned, faults>>

\* The adapter has its answer, or none.
Answered(a, told) ==
    /\ a \in asked
    /\ told \/ faults < MaxFaults
    /\ asked' = asked \ {a}
    /\ faults' = IF told THEN faults ELSE faults + 1
    /\ Handed(a.event, told, a.learnt, a.known)
    /\ UNCHANGED <<platform, place, messages, delivered, subscribed, returned>>

Next ==
    \/ \E root \in 0 .. MaxMessages, mention \in BOOLEAN : UserWrites(root, mention)
    \/ \E h \in handed : HandlerPosts(h)
    \/ PostReturns
    \/ \E t \in 0 .. 2 * MaxMessages : Subscribe(t)
    \/ \E kind \in Kinds[platform], m \in Id, actor \in {"user", "self"} :
          Receive(kind, m, actor)
    \/ \E a \in asked, told \in BOOLEAN : Answered(a, told)

Spec == Init /\ [][Next]_vars

(***************************************************************************)
(* Properties                                                              *)
(***************************************************************************)
IngressTypeOK ==
    /\ platform \in DOMAIN Places /\ place \in Places[platform] /\ identity \in BOOLEAN
    /\ \A m \in Id : Root(m) \in 0 .. m - 1
    /\ \A h \in handed : h.of \in Id /\ h.thread \in 0 .. 2 * MaxMessages
    /\ parents \subseteq Id /\ faults \in 0 .. MaxFaults

\* The events that do not know their message's thread: those whose question
\* failed, Telegram's reactions in a topic, Slack's reactions in a direct
\* message, Google Chat's clicks, reactions and Pub/Sub messages in one,
\* Discord's reactions to a message a thread was started from, and, under
\* agent_view, what is handed to the thread of all direct messages.
Astray(h) ==
    \/ ~h.told
    \/ h.kind = "reaction" /\ <<platform, place>> \in {<<"telegram", "topic">>, <<"slack", "dm">>}
    \/ h.kind # "message" /\ <<platform, place>> = <<"gchat", "dm">>
    \/ h.kind # "message" /\ platform = "discord" /\ TopLevel(h.of)
    \/ place = "agent dm" /\ h.thread = 0

\* Whatever happens to a message happens in the thread the message was in.
ThreadsAgree ==
    \A g, h \in handed :
        g.of = h.of /\ ~Astray(g) /\ ~Astray(h) => g.thread = h.thread

\* Who subscribed to a thread hears every message that is then written in it:
\* below the message it starts at, or, where it is that of open_dm, at the top
\* level of the direct messages.  (In Google Chat's direct messages a webhook's
\* and a Pub/Sub message have different threads.)
SubscribersHear ==
    \A h \in handed, t \in DOMAIN subscribed :
        /\ h.kind \in {"message", "pubsub"} /\ h.told /\ h.of > subscribed[t]
        /\ IF t = 0 THEN InDM /\ TopLevel(h.of) ELSE Root(h.of) = t
        /\ <<platform, place>> = <<"gchat", "dm">> => t = 0 /\ h.kind = "message"
        => h.thread = t

EventsFindTheirThread == ThreadsAgree /\ SubscribersHear

\* The bot does not answer itself: of what it wrote, only that is handled that
\* arrived while the adapter did not know its id, and only by GitHub's adapter,
\* before any post had returned and when it could not find out, and by Linear's,
\* if it could not at the start.
OwnWordsAreIgnored ==
    \A h \in handed :
        h.kind \in {"message", "pubsub"} /\ Own(h.of) =>
            /\ ~h.known
            /\ platform = "linear" \/ (platform = "github" /\ ~h.learnt /\ ~h.told)

=============================================================================
