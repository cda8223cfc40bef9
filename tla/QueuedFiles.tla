---------------------------- MODULE QueuedFiles ----------------------------
(* The files of a message on their way to a handler.  An adapter makes an      *)
(* attachment with a closure that fetches the file (fetch_data) and the data    *)
(* to make the closure anew (fetch_metadata).  A message that waits in a queue  *)
(* may be serialised, which drops the closure, and is rehydrated when it is     *)
(* taken out; installations may change meanwhile.                               *)
EXTENDS Integers, FiniteSets, Sequences

CONSTANT MaxChanges  \* bound on installations added, replaced or removed

VARIABLES
    form,       \* the adapter and the kind of file it received
    request,    \* Slack: the request the event came in
    installed,  \* Slack: the version of each team's stored token, 0 for none
    changes,    \* changes of installations so far
    path,       \* what the message went through
    files,      \* the attachment of the message, and of the one it replies to
    place,      \* "arrived", "queued", "taken" or "fetched"
    drainer,    \* Slack: the token of the request whose task takes the message out
    got         \* what each fetch_data gave, or would have, for each of the two

vars == <<form, request, installed, changes, path, files, place, drainer, got>>

\* Two Slack workspaces that may share a channel, and an organisation's install.
Team == {"own", "other", "org"}
None == "none"
NoMeta == [id |-> None, team |-> None, org |-> FALSE, bot |-> FALSE, origin |-> None]

\* A version of a team's token.
Token(team, version) == [team |-> team, version |-> version]
NoToken == Token(None, 0)

\* A fetch: of which resource, and how it comes by the credentials it sends.
Fetch(what, with, token) == [what |-> what, with |-> with, token |-> token]
Plain(what, with) == Fetch(what, with, NoToken)
NoFetch == Plain(None, None)
Attachment(url, fetch, meta) == [url |-> url, fetch |-> fetch, meta |-> meta]

\* The kinds of file the platforms send.
Forms == {"slackSingle", "slackMulti", "telegram", "whatsappMedia", "whatsappLocation", "teamsFile",
          "teamsInline", "teamsPreview", "googleResource", "googleLink", "messenger", "discord", "twilio"}
SlackForms == {"slackSingle", "slackMulti"}

\* A Slack event names the team of its sender, if any, and runs under the
\* installation of authorizations[0]; no request context in a single workspace.
Requests ==
    IF form = "slackSingle" THEN [sender : {"own"}, team : {None}, org : {FALSE}]
    ELSE IF form = "slackMulti" THEN [sender : {"own", "other", None}, team : {"own"}, org : BOOLEAN]
    ELSE [sender : {None}, team : {None}, org : {FALSE}]
Installation(r) == IF r.org THEN "org" ELSE r.team

----------------------------------------------------------------------------
\* The attachment as parsed.  Slack's closure keeps the token of the request,
\* or asks for the default one when called.
SlackFile(url, token) ==
    Attachment(url, Fetch(url, "token", token),
               [NoMeta EXCEPT !.id = url, !.team = IF request.org THEN "org" ELSE request.sender, !.org = request.org])

\* Mutants: the connector's origin is not recorded; the metadata is not
\* serialised; a link becomes a fetch; the message replied to is forgotten.
MutTeamsFile ==
    LET id == IF form = "teamsInline" THEN "connector" ELSE IF form = "teamsPreview" THEN "page" ELSE "link"
        bot == form = "teamsInline"
    IN  Attachment(id, Plain(id, IF bot THEN "bot" ELSE "anonymous"), [NoMeta EXCEPT !.id = id, !.bot = bot])

\* Teams: a file by its link, an inline file on the connector with the bot's
\* token, a preview elsewhere anonymously.
TeamsFile ==
    CASE form = "teamsInline" -> Attachment("connector", Plain("connector", "bot"),
                                            [NoMeta EXCEPT !.id = "connector", !.bot = TRUE, !.origin = "connector"])
      [] form = "teamsPreview" -> Attachment("page", Plain("page", "anonymous"), [NoMeta EXCEPT !.id = "page"])
      [] OTHER -> Attachment("link", Plain("link", "anonymous"), [NoMeta EXCEPT !.id = "link"])

\* Google Chat fetches by resource name alone; its link is for display.
GoogleFile(resource) ==
    Attachment("link", IF resource = None THEN NoFetch ELSE Plain(resource, "account"),
               [NoMeta EXCEPT !.id = resource])

\* Telegram and WhatsApp fetch by the id of the file, Messenger and Discord by
\* its signed link, Twilio by its link with the account's credentials; a WhatsApp
\* location is a link to a map.
TelegramFile  == Attachment(None, Plain("fileId", "bot"), [NoMeta EXCEPT !.id = "fileId"])
WhatsAppFile ==
    IF form = "whatsappLocation" THEN Attachment("map", NoFetch, NoMeta)
    ELSE Attachment(None, Plain("mediaId", "access"), [NoMeta EXCEPT !.id = "mediaId"])
MessengerFile == Attachment("url", Plain("url", "anonymous"), [NoMeta EXCEPT !.id = "url"])
DiscordFile   == Attachment("url", Plain("url", "anonymous"), [NoMeta EXCEPT !.id = "url"])
TwilioFile(url) == Attachment(url, Plain(url, "account"), [NoMeta EXCEPT !.id = url])

Received(token) ==
    CASE form \in SlackForms              -> SlackFile("url", token)
      [] form \in {"teamsFile", "teamsInline", "teamsPreview"} -> TeamsFile
      [] form = "googleResource"     -> GoogleFile("resource")
      [] form = "googleLink"         -> GoogleFile(None)
      [] form = "telegram"           -> TelegramFile
      [] form \in {"whatsappMedia", "whatsappLocation"} -> WhatsAppFile
      [] form = "messenger"          -> MessengerFile
      [] form = "discord"            -> DiscordFile
      [] form = "twilio"             -> TwilioFile("url")

----------------------------------------------------------------------------
\* to_json keeps everything but the closure, and from_json, the dictionaries of
\* _message_from_json and the plain ones of _coerce_attachments read it back;
\* they all go into the message that is replied to.
MutToJson(a) == [a EXCEPT !.fetch = NoFetch, !.meta = NoMeta]
ToJson(a) == [a EXCEPT !.fetch = NoFetch]
FromJson(a) == a

\* The adapters' rehydrate_attachment: by the metadata, and by the link where
\* there is none.
IdOrUrl(a) == IF a.meta.id = None THEN a.url ELSE a.meta.id
Refetch(a, what, with) == IF what = None THEN a ELSE [a EXCEPT !.fetch = Plain(what, with)]

RehydrateSlack(a) ==
    IF IdOrUrl(a) = None THEN a
    ELSE [a EXCEPT !.fetch = Fetch(IdOrUrl(a), IF a.meta.team = None THEN "default" ELSE "installation",
                                   Token(a.meta.team, 0))]
RehydrateTeams(a) ==
    Refetch(a, IdOrUrl(a), IF ~a.meta.bot THEN "anonymous" ELSE IF a.meta.origin = None THEN "rejected" ELSE "bot")
RehydrateGoogle(a)    == Refetch(a, a.meta.id, "account")
RehydrateTelegram(a)  == Refetch(a, a.meta.id, "bot")
MutRehydrateWhatsApp(a) == Refetch(a, IdOrUrl(a), "access")
RehydrateWhatsApp(a) == Refetch(a, a.meta.id, "access")
RehydrateMessenger(a) == Refetch(a, a.meta.id, "anonymous")
RehydrateDiscord(a)   == Refetch(a, IdOrUrl(a), "anonymous")
RehydrateTwilio(a)    == IF IdOrUrl(a) = None THEN a ELSE TwilioFile(IdOrUrl(a))

Rehydrated(a) ==
    CASE form \in SlackForms -> RehydrateSlack(a)
      [] form \in {"teamsFile", "teamsInline", "teamsPreview"} -> RehydrateTeams(a)
      [] form \in {"googleResource", "googleLink"} -> RehydrateGoogle(a)
      [] form = "telegram" -> RehydrateTelegram(a)
      [] form \in {"whatsappMedia", "whatsappLocation"} -> RehydrateWhatsApp(a)
      [] form = "messenger" -> RehydrateMessenger(a)
      [] form = "discord" -> RehydrateDiscord(a)
      [] form = "twilio" -> RehydrateTwilio(a)

\* _rehydrate_message: every attachment without a closure, here and in the
\* message replied to.
MutRehydrate(m) == [m EXCEPT !["here"] = IF m["here"].fetch # NoFetch THEN m["here"] ELSE Rehydrated(m["here"])]
Rehydrate(m) == [i \in DOMAIN m |-> IF m[i].fetch # NoFetch THEN m[i] ELSE Rehydrated(m[i])]

----------------------------------------------------------------------------
\* What a fetch gives now: the resource and the credentials it was sent with,
\* or nothing, when the installation it looks up is not there.
Refused == [what |-> None, with |-> NoToken]

Result(f) ==
    CASE f = NoFetch -> Refused
      [] f.with = "token" -> [what |-> f.what, with |-> f.token]
      [] f.with = "installation" ->
           IF form = "slackMulti" /\ installed[f.token.team] > 0
           THEN [what |-> f.what, with |-> Token(f.token.team, installed[f.token.team])] ELSE Refused
      [] f.with = "default" ->
           IF form = "slackSingle" THEN [what |-> f.what, with |-> Token("default", 1)]
           ELSE [what |-> f.what, with |-> drainer]
      [] f.with = "rejected" -> Refused
      [] OTHER -> [what |-> f.what, with |-> Token(f.with, 1)]

\* Two files, of the message and of the one it replies to.
Arrives ==
    LET token == IF form = "slackMulti" THEN Token(Installation(request), installed[Installation(request)])
                 ELSE Token("default", 1)
    IN  [i \in {"here", "repliedTo"} |-> Received(token)]

Init ==
    /\ form \in Forms /\ request \in Requests
    /\ installed \in [Team -> 0 .. 1] /\ (form = "slackMulti" => installed[Installation(request)] = 1)
    /\ (form # "slackMulti" => \A t \in Team : installed[t] = 0)
    /\ changes = 0 /\ path = "none" /\ place = "arrived" /\ files = Arrives
    /\ drainer = NoToken /\ got = [i \in {"here", "repliedTo"} |-> Refused]

\* A message is taken out by a task of the same channel: under a request of the
\* same installation, or of another workspace that shares the channel.
\* In memory the message itself waits; Redis and Postgres write it as JSON and
\* read a Message; another backend may give the dictionary back.
Enqueue ==
    /\ place = "arrived" /\ place' = "queued"
    /\ path' \in {"object", "json", "dictionary"}
    /\ files' = IF path' = "object" THEN files ELSE [i \in DOMAIN files |-> ToJson(files[i])]
    /\ UNCHANGED <<form, request, installed, changes, drainer, got>>

Direct ==
    /\ place = "arrived" /\ place' = "taken" /\ path' = "direct"
    /\ UNCHANGED <<form, request, installed, changes, files, drainer, got>>

Dequeue ==
    /\ place = "queued" /\ place' = "taken"
    /\ files' = Rehydrate([i \in DOMAIN files |-> FromJson(files[i])])
    /\ drainer' \in IF form = "slackMulti" THEN {Token(t, 1) : t \in {Installation(request), "other"}} ELSE {NoToken}
    /\ UNCHANGED <<form, request, installed, changes, path, got>>

FetchFiles ==
    /\ place = "taken" /\ place' = "fetched"
    /\ got' = [i \in DOMAIN files |-> Result(files[i].fetch)]
    /\ UNCHANGED <<form, request, installed, changes, path, files, drainer>>

\* An installation is added or its token replaced (set_installation), or it is
\* removed (delete_installation).
Reinstall(t) ==
    /\ form = "slackMulti" /\ changes < MaxChanges /\ changes' = changes + 1
    /\ \E v \in {0, installed[t] + 1} : installed' = [installed EXCEPT ![t] = v]
    /\ UNCHANGED <<form, request, path, files, place, drainer, got>>

Next ==
    \/ Enqueue \/ Direct \/ Dequeue \/ FetchFiles
    \/ \E t \in Team : Reinstall(t)
    \/ place = "fetched" /\ UNCHANGED vars

----------------------------------------------------------------------------
TypeOK ==
    /\ form \in Forms /\ request \in Requests /\ installed \in [Team -> 0 .. MaxChanges + 1]
    /\ changes \in 0 .. MaxChanges /\ path \in {"none", "object", "json", "dictionary", "direct"}
    /\ place \in {"arrived", "queued", "taken", "fetched"} /\ DOMAIN files = {"here", "repliedTo"}

\* A file that could be fetched when the message arrived has a closure when the
\* handler sees it, of the same resource, whatever backend the message waited
\* in; and one that was for display only has none.
FilesKeepTheirFetch ==
    place \in {"taken", "fetched"} =>
        LET first == Received(Token("any", 1)).fetch IN
        \A i \in DOMAIN files : files[i].fetch.what = first.what

\* What it fetches is the file, under credentials of the installation the
\* message came in under or of the team that sent it -- or, if the event names
\* no team, of the workspace of the channel whose task took it out.
CredentialsAreTheirs ==
    place = "fetched" =>
        \A i \in DOMAIN files : got[i] # Refused =>
            LET file == Received(Token("any", 1)).fetch
                team == got[i].with.team
            IN  /\ got[i].what = file.what
                /\ form \notin SlackForms => team = file.with
                /\ form = "slackSingle" => team = "default"
                /\ form = "slackMulti" =>
                       team \in IF request.sender = None /\ ~request.org THEN {"own", drainer.team}
                                ELSE {Installation(request), request.sender}

\* Outside Slack, whose token depends on the installations, a queue never costs
\* a file.
QueuesCostNoFile ==
    place = "fetched" /\ form \notin SlackForms =>
        \A i \in DOMAIN files : got[i] = Result(Received(Token("any", 1)).fetch)

FilesSurviveTheQueue == TypeOK /\ FilesKeepTheirFetch /\ CredentialsAreTheirs /\ QueuesCostNoFile

\* chat.py:3434: the hook is called on every attachment that lost its closure,
\* "so downstream handlers can still download bytes": what a handler could
\* fetch without the queue it can fetch after it, when nothing was uninstalled.
HandlersCanStillDownload ==
    place = "fetched" /\ changes = 0 =>
        \A i \in DOMAIN files : Received(Token("any", 1)).fetch # NoFetch => got[i] # Refused
=============================================================================
