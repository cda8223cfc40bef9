------------------------------- MODULE Posting -------------------------------
(***************************************************************************)
(* What an adapter's post_message (and reply, post_ephemeral,              *)
(* schedule_message) sends for one message, and what edit_message makes of *)
(* it.  A message becomes a sequence of API calls, each of which shows     *)
(* some of its pieces, is refused, or has its answer lost; a refusal may   *)
(* have a fallback.  Two handlers post into one conversation.  Each        *)
(* operator named after a platform is that adapter's plan of calls.        *)
(***************************************************************************)
EXTENDS Naturals, Sequences, FiniteSets, SequencesExt

CONSTANTS
    Post,       \* the posts
    First,      \* bound: the post that may be any message; the others are short texts
    MaxFaults   \* bound: calls refused or unanswered

VARIABLES
    platform,   \* the adapter
    posts,      \* per post: its message, the calls left, how it ended
    world,      \* what the conversation shows, in order
    rich,       \* Telegram: _rich_messages_available
    answered,   \* Discord: initial_response_sent
    deferred,   \* Discord: the deferred response still shows "thinking"
    parentKnown,\* Discord: _thread_parent_cache has the thread
    faults

vars == <<platform, posts, world, rich, answered, deferred, parentKnown, faults>>

Platforms == {"slack", "telegram", "whatsapp", "discord", "messenger", "twilio",
              "gchat", "teams", "linear", "github"}

\* body: a string, markdown, a card with buttons, or a card a platform without
\* cards shows as lines.  size: whether that text is empty, fits a caption,
\* fits a message, or needs two.  source: whether the media are uploads,
\* attachments or both.
Message ==
    {m \in [body : {"none", "string", "markdown", "buttons", "lines"},
            size : {"empty", "caption", "message", "chunks"},
            media : {<<>>, <<"image">>, <<"audio">>, <<"image", "audio">>,
                     <<"image", "image">>},
            source : {"uploads", "attachments", "mixed"},
            op : {"post", "reply", "ephemeral", "channel", "schedule", "slash", "activity"}] :
        /\ m.body \in {"string", "markdown"} => m.size # "empty"
        /\ m.body \in {"none", "buttons"} => m.size = "empty"
        /\ m.media = <<>> => m.source = "uploads"
        /\ m.source = "mixed" => Len(m.media) = 2}

Short(m) == m.body = "string" /\ m.size = "caption" /\ m.media = <<>>
IsCard(m) == m.body \in {"buttons", "lines"}

\* What an adapter offers.
Offers ==
    [w \in Platforms |->
        CASE w = "slack" -> {"post", "ephemeral", "schedule"}
          [] w \in {"gchat", "teams"} -> {"post", "ephemeral", "channel"}
          [] w \in {"telegram", "whatsapp"} -> {"post", "reply"}
          [] w = "discord" -> {"post", "slash"}
          [] w = "linear" -> {"post", "activity"}
          [] OTHER -> {"post"}]

(***************************************************************************)
(* The calls of a message                                                  *)
(***************************************************************************)
Call(kind, pieces) == [kind |-> kind, pieces |-> pieces, reply |-> FALSE]
Body(k) == <<"body", k>>
Media(i) == <<"media", i>>
AllMedia(m) == [i \in DOMAIN m.media |-> Media(i)]
Said(m) == IF m.body = "none" THEN <<>> ELSE <<Body(1)>>

\* The first call carries the reply context, no other does.
Replying(m, calls) ==
    [i \in DOMAIN calls |-> [calls[i] EXCEPT !.reply =
        m.op = "reply" /\ \A j \in 1 .. i - 1 : calls[j].pieces = <<>>
                       /\ calls[i].pieces # <<>>]]

\* Slack: files go first, in one upload; nothing follows if nothing is said.
SlackText(m) == <<Call(IF IsCard(m) THEN "blocks" ELSE "text", Said(m))>>
SlackFiles(m) == <<Call("files", AllMedia(m))>>
SlackPost(m) ==
    IF m.media = <<>> \/ m.source = "attachments" THEN SlackText(m)
    ELSE IF m.body = "none" THEN SlackFiles(m) ELSE SlackFiles(m) \o SlackText(m)
SlackEphemeral(m) == SlackText(m)
SlackSchedule(m) == SlackText(m)
Slack(m) == CASE m.op = "post" -> SlackPost(m)
              [] m.op = "ephemeral" -> SlackEphemeral(m)
              [] m.op = "schedule" -> SlackSchedule(m)

\* Telegram: one media with a caption, an album captioned at its first item, or
\* a text sent as a rich message, as MarkdownV2, or as it is.
ParseMode(m) == IF m.body \in {"none", "string"} THEN "plain" ELSE "markdown"
TelegramDocument(m) == <<Call(ParseMode(m), Said(m) \o AllMedia(m))>>
TelegramAttachment(m) == <<Call("download", <<>>), Call(ParseMode(m), Said(m) \o AllMedia(m))>>
TelegramAlbum(m) ==
    IF m.source = "uploads" THEN TelegramDocument(m) ELSE TelegramAttachment(m)
RichMessage(m) == rich /\ m.body = "markdown" /\ m.media = <<>>
TelegramText(m) == <<Call(IF RichMessage(m) THEN "rich" ELSE ParseMode(m), Said(m))>>
Telegram(m) ==
    CASE m.media = <<>> -> TelegramText(m)
      [] Len(m.media) > 1 -> TelegramAlbum(m)
      [] m.source = "uploads" -> TelegramDocument(m)
      [] OTHER -> TelegramAttachment(m)

MixedKinds(m) == m.source = "attachments" /\ Cardinality({m.media[i] : i \in DOMAIN m.media}) > 1

\* WhatsApp: the media are uploaded, all at once, before anything is sent.
Uploads == <<Call("upload", <<>>)>>
Interactive(m) == <<Call("interactive", Said(m))>>

\* A text in chunks.
Chunks(m) ==
    IF m.size = "chunks" THEN <<Call("text", <<Body(1)>>), Call("text", <<Body(2)>>)>>
    ELSE <<Call("text", Said(m))>>

\* Mutant: a text that is sent before the media captions the first one as well.
MutWhatsAppMedia(m) ==
    LET text == m.body \notin {"none", "buttons"} /\ m.size # "empty"
        apart == text /\ (m.size # "caption" \/ m.media[1] = "audio")
    IN  Uploads
          \o (IF apart THEN Chunks(m) ELSE <<>>)
          \o [i \in DOMAIN m.media |->
                 Call("media", IF i = 1 /\ text /\ m.media[1] # "audio" THEN <<Body(1), Media(i)>>
                               ELSE <<Media(i)>>)]
          \o (IF IsCard(m) /\ ~text THEN Interactive(m) ELSE <<>>)

\* The text captions the first media if it fits, or goes first; a card with
\* buttons, or one whose fallback is empty, goes last.
WhatsAppMedia(m) ==
    LET text == m.body \notin {"none", "buttons"} /\ m.size # "empty"
        apart == text /\ (m.size # "caption" \/ m.media[1] = "audio")
    IN  Uploads
          \o (IF apart THEN Chunks(m) ELSE <<>>)
          \o [i \in DOMAIN m.media |->
                 Call("media", IF i = 1 /\ text /\ ~apart THEN <<Body(1), Media(i)>>
                               ELSE <<Media(i)>>)]
          \o (IF IsCard(m) /\ ~text THEN Interactive(m) ELSE <<>>)

WhatsApp(m) ==
    IF m.media # <<>> THEN WhatsAppMedia(m)
    ELSE IF m.body = "buttons" THEN Interactive(m)
    ELSE Chunks(m)

\* Discord: a thread's channel is looked up unless it is cached.  A post to the
\* conversation of a slash command answers it.
Lookup == IF parentKnown THEN <<>> ELSE <<Call("lookup", <<>>)>>
Discord(m) ==
    Lookup \o <<Call(IF m.op = "slash" THEN "slash" ELSE "text",
                     Said(m) \o IF m.source = "attachments" THEN <<>> ELSE AllMedia(m))>>

\* Everything in one call.
Messenger(m) == <<Call(IF m.body = "buttons" THEN "template" ELSE "text", Said(m))>>
Twilio(m) == <<Call("text", Said(m) \o AllMedia(m))>>
GooglePost(m) == <<Call(IF IsCard(m) THEN "card" ELSE "text", Said(m))>>
GoogleEphemeral(m) == GooglePost(m)
GoogleChannel(m) == GooglePost(m)
GoogleChat(m) == CASE m.op = "post" -> GooglePost(m)
                   [] m.op = "ephemeral" -> GoogleEphemeral(m)
                   [] m.op = "channel" -> GoogleChannel(m)
TeamsFiles(m) == IF m.source = "attachments" THEN <<>> ELSE AllMedia(m)
TeamsPost(m) == <<Call(IF IsCard(m) THEN "card" ELSE "text", Said(m) \o TeamsFiles(m))>>
TeamsEphemeral(m) == <<Call("targeted", Said(m) \o TeamsFiles(m))>>
TeamsChannel(m) == TeamsPost(m)
Teams(m) == CASE m.op = "post" -> TeamsPost(m)
              [] m.op = "ephemeral" -> TeamsEphemeral(m)
              [] m.op = "channel" -> TeamsChannel(m)
LinearComment(m) == <<Call("text", Said(m))>>
LinearActivity(m) == <<Call("activity", Said(m))>>
Linear(m) == IF m.op = "activity" THEN LinearActivity(m) ELSE LinearComment(m)
GitHub(m) == <<Call("text", Said(m))>>

Calls(m) ==
    CASE platform = "slack" -> Slack(m)
      [] platform = "telegram" -> Replying(m, Telegram(m))
      [] platform = "whatsapp" -> Replying(m, WhatsApp(m))
      [] platform = "discord" -> Discord(m)
      [] platform = "messenger" -> Messenger(m)
      [] platform = "twilio" -> Twilio(m)
      [] platform = "gchat" -> GoogleChat(m)
      [] platform = "teams" -> Teams(m)
      [] platform = "linear" -> Linear(m)
      [] platform = "github" -> GitHub(m)

\* What an adapter refuses before it calls anything.
Rejected(m) ==
    CASE platform = "slack" -> m.op = "schedule" /\ m.media # <<>> /\ m.source # "attachments"
      [] platform = "telegram" ->
            \/ m.source = "mixed"
            \/ m.media = <<>> /\ m.body = "none"
            \/ Len(m.media) > 1 /\ (m.body = "buttons" \/ MixedKinds(m))
      [] platform = "messenger" -> m.body = "none"
      [] platform = "twilio" -> \/ m.media # <<>> /\ m.source # "attachments"
                                \/ m.media = <<>> /\ m.body = "none"
      [] OTHER -> FALSE

(***************************************************************************)
(* Posting                                                                 *)
(***************************************************************************)
Init ==
    /\ platform \in Platforms
    /\ posts = [p \in Post |-> [state |-> "idle"]]
    /\ world = <<>>
    /\ rich = TRUE /\ answered = FALSE /\ deferred = TRUE /\ parentKnown = FALSE
    /\ faults = 0

Sending(p) == posts[p].state = "sending"
Next1(p) == Head(posts[p].todo)

Begin(p, m) ==
    /\ posts[p].state = "idle" /\ m.op \in Offers[platform] /\ (p = First \/ Short(m))
    /\ posts' = [posts EXCEPT ![p] =
          [state |-> IF Rejected(m) THEN "raised" ELSE "sending", message |-> m,
           todo |-> IF Rejected(m) THEN <<>> ELSE Calls(m), handle |-> 0, first |-> FALSE]]
    /\ UNCHANGED <<platform, world, rich, answered, deferred, parentKnown, faults>>

\* Mutant: the flag is set when the answer has arrived.
MutAnswer(p) ==
    /\ Sending(p) /\ Next1(p).kind = "slash"
    /\ posts' = [posts EXCEPT ![p].todo[1].kind = IF ~deferred THEN "followup" ELSE "original",
                              ![p].first = deferred]
    /\ answered' = ~deferred
    /\ UNCHANGED <<platform, world, rich, deferred, parentKnown, faults>>

\* The first post that comes to it answers the slash command, later ones follow up.
Answer(p) ==
    /\ Sending(p) /\ Next1(p).kind = "slash"
    /\ posts' = [posts EXCEPT ![p].todo[1].kind = IF answered THEN "followup" ELSE "original",
                              ![p].first = ~answered]
    /\ answered' = TRUE
    /\ UNCHANGED <<platform, world, rich, deferred, parentKnown, faults>>

\* Calls that show nothing; any other call with nothing to show is refused.
Preparing == {"lookup", "upload", "download"}

\* The platform does what the call asks.
Done(p) ==
    LET call == Next1(p)
        card == IsCard(posts[p].message) /\ platform \in {"slack", "discord", "teams", "gchat"}
    IN  /\ call.kind # "slash"
        /\ call.pieces = <<>> => call.kind \in Preparing
        /\ world' = IF call.pieces = <<>> THEN world
                    ELSE Append(world, [by |-> p, pieces |-> call.pieces, reply |-> call.reply,
                                        text |-> ~card /\ Body(1) \in Range(call.pieces),
                                        card |-> card, media |-> call.pieces # Said(posts[p].message),
                                        edited |-> "no"])
        /\ deferred' = (deferred /\ call.kind # "original")

\* A call returns; after the last one so does the post, with the id of what it
\* showed last (Slack makes one up for files alone).
Succeed(p) ==
    /\ Sending(p) /\ Done(p)
    /\ posts' = [posts EXCEPT
          ![p].todo = Tail(@),
          ![p].state = IF Len(posts[p].todo) = 1 THEN "returned" ELSE @,
          ![p].handle = IF Next1(p).kind \in Preparing \cup {"files"}
                        THEN @ ELSE Len(world')]
    /\ parentKnown' = (parentKnown \/ Next1(p).kind = "lookup")
    /\ UNCHANGED <<platform, rich, answered, faults>>

\* Mutant: a rich message is tried again the regular way whatever failed.
MutFallback(kind, why) ==
    CASE kind = "rich" -> "markdown"
      [] kind = "markdown" /\ why = "parse" -> "plain"
      [] OTHER -> "none"

\* What a call that raised is tried again as.
Fallback(kind, why) ==
    CASE kind = "rich" /\ why \in {"parse", "unsupported"} -> "markdown"
      [] kind = "markdown" /\ why = "parse" -> "plain"
      [] OTHER -> "none"

\* A call raises: it was refused, or it took effect and its answer is lost.
Fail(p, why) ==
    LET again == Fallback(Next1(p).kind, why)
    IN  /\ Sending(p) /\ Next1(p).kind # "slash"
        /\ faults < MaxFaults /\ faults' = faults + 1
        /\ IF why = "lost" THEN Done(p) ELSE UNCHANGED <<world, deferred>>
        /\ rich' = (rich /\ ~(Next1(p).kind = "rich" /\ why = "unsupported"))
        /\ posts' = IF again # "none" THEN [posts EXCEPT ![p].todo[1].kind = again]
                    ELSE [posts EXCEPT ![p].state = "raised", ![p].todo = <<>>]
        /\ UNCHANGED <<platform, answered, parentKnown>>

(***************************************************************************)
(* Editing what a post returned                                            *)
(***************************************************************************)
\* Mutant: an edit to text leaves the card.
MutGoogleEdit(c, to) == IF to = "text" THEN [c EXCEPT !.text = TRUE] ELSE [c EXCEPT !.card = TRUE]

SlackEdit(c, to) == [c EXCEPT !.text = (to = "text"), !.card = (to = "card") \/ @]
TelegramEdit(c, to) == [c EXCEPT !.text = TRUE]
DiscordEdit(c, to) == IF to = "text" THEN [c EXCEPT !.text = TRUE]
                      ELSE [c EXCEPT !.text = FALSE, !.card = TRUE]
GoogleEdit(c, to) == IF to = "text" THEN [c EXCEPT !.text = TRUE, !.card = FALSE]
                     ELSE [c EXCEPT !.card = TRUE]
TeamsEdit(c, to) == [c EXCEPT !.text = (to = "text"), !.card = (to = "card")]
CommentEdit(c, to) == [c EXCEPT !.text = TRUE]

Edited(c, to) ==
    CASE platform = "slack" -> SlackEdit(c, to)
      [] platform = "telegram" -> TelegramEdit(c, to)
      [] platform = "discord" -> DiscordEdit(c, to)
      [] platform = "gchat" -> GoogleEdit(c, to)
      [] platform = "teams" -> TeamsEdit(c, to)
      [] platform \in {"linear", "github"} -> CommentEdit(c, to)

\* Messenger, Twilio and WhatsApp raise, as Linear does for an activity.
\* Telegram does not edit the text of a message that shows media, Slack and
\* Discord not what only one user sees.  An edit may be the one that finds
\* out that Telegram has no rich messages.
Edit(p, to) ==
    LET i == posts[p].handle
    IN  /\ posts[p].state = "returned" /\ i > 0
        /\ platform \notin {"messenger", "twilio", "whatsapp"}
        /\ world[i].edited = "no"
        /\ platform = "telegram" => ~world[i].media
        /\ platform \in {"slack", "discord", "linear"} => posts[p].message.op = "post"
        /\ world' = [world EXCEPT ![i] = [Edited(@, to) EXCEPT !.edited = to]]
        /\ \/ UNCHANGED <<rich, faults>>
           \/ /\ platform = "telegram" /\ to = "text" /\ rich
              /\ faults < MaxFaults /\ faults' = faults + 1
              /\ rich' = FALSE
        /\ UNCHANGED <<platform, posts, answered, deferred, parentKnown>>

Next ==
    \E p \in Post :
        \/ posts[p].state = "idle" /\ \E m \in Message : Begin(p, m)
        \/ Answer(p)
        \/ Succeed(p)
        \/ \E why \in {"parse", "unsupported", "refused", "lost"} : Fail(p, why)
        \/ \E to \in {"text", "card"} : Edit(p, to)

Spec == Init /\ [][Next]_vars

(***************************************************************************)
(* Properties                                                              *)
(***************************************************************************)
Ended(p) == posts[p].state = "returned"

\* What a message consists of on the platform.
Carried(m) ==
    CASE platform \in {"slack", "discord", "teams"} -> m.source = "uploads" \/ m.source = "mixed"
      [] platform \in {"telegram", "whatsapp"} -> TRUE
      [] platform = "twilio" -> m.source = "attachments"
      [] OTHER -> FALSE
Pieces(m) ==
    (IF m.body = "none" THEN {} ELSE {Body(1)})
      \cup (IF platform = "whatsapp" /\ m.size = "chunks" THEN {Body(2)} ELSE {})
      \cup (IF Carried(m) /\ ~(platform = "slack" /\ m.op = "ephemeral")
            THEN {Media(i) : i \in DOMAIN m.media} ELSE {})

ShownBy(p) ==
    FlattenSeq([i \in DOMAIN world |-> IF world[i].by = p THEN world[i].pieces ELSE <<>>])

\* Nothing is shown twice, whatever failed and was tried again, and what is
\* shown is in order; a post that returned has shown all of its message.
ShownOnce ==
    \A p \in Post :
        /\ IsInjective(ShownBy(p))
        /\ \A i, j \in DOMAIN ShownBy(p) :
              i < j /\ ShownBy(p)[i][1] = ShownBy(p)[j][1] => ShownBy(p)[i][2] < ShownBy(p)[j][2]
        /\ Ended(p) => Range(ShownBy(p)) = Pieces(posts[p].message)

\* Only the first message of a reply refers to what it replies to.
RepliesOnce ==
    \A i \in DOMAIN world :
        world[i].reply <=> /\ posts[world[i].by].message.op = "reply"
                           /\ \A j \in 1 .. i - 1 : world[j].by # world[i].by

\* The id a post returns is that of the last message it showed.
HandleIsTheLast ==
    \A p \in Post : Ended(p) /\ posts[p].handle > 0 =>
        posts[p].handle = Max({i \in DOMAIN world : world[i].by = p})

\* A slash command is answered by one post; if one has returned and the command
\* still waits, another one answers it or has failed to.
AnsweredOnce ==
    /\ Cardinality({p \in Post : posts[p].state # "idle" /\ posts[p].first}) <= 1
    /\ \A p \in Post :
          Ended(p) /\ posts[p].message.op = "slash" /\ deferred =>
              \E q \in Post \ {p} : posts[q].state # "idle" /\ posts[q].first /\ ~Ended(q)

\* An edited message shows what it was edited to and nothing of what it said
\* before, except that Discord keeps the card an edit to text leaves out,
\* Google Chat the text an edit to a card leaves out, and that what becomes of
\* the blocks an edit to text leaves out is Slack's affair.
EditsReplace ==
    \A i \in DOMAIN world :
        /\ world[i].edited = "text" => world[i].text /\ (world[i].card => platform \in {"slack", "discord"})
        /\ world[i].edited = "card" /\ platform \in {"slack", "discord", "teams", "gchat"} =>
              world[i].card /\ (world[i].text => platform = "gchat")

PostsAreWhole == ShownOnce /\ RepliesOnce /\ HandleIsTheLast /\ AnsweredOnce /\ EditsReplace

PostingTypeOK ==
    /\ platform \in Platforms /\ faults \in 0 .. MaxFaults
    /\ \A p \in Post : posts[p].state \in {"idle", "sending", "returned", "raised"}
    /\ \A i \in DOMAIN world : world[i].by \in Post
=============================================================================
