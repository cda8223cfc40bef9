--------------------------- MODULE MCConnections ----------------------------
(***************************************************************************)
(* What a chat and its adapters keep up, for TLC: the chat's own           *)
(* initialisation and shutdown, Slack's Socket Mode connection, the        *)
(* deliveries of a Slack event, the subscription of a Google Chat space,   *)
(* and access tokens.                                                      *)
(***************************************************************************)
EXTENDS ChatLifecycle

CONSTANTS
    SocketCaller, MaxCalls, MaxClients, SocketFaults,  \* Caller .. MaxFaults of SocketMode
    MaxRetries, SlackFaults,                           \* MaxRetries, MaxFaults of SlackDelivery
    SpaceCaller, MaxSubscriptions, SpaceFaults,        \* Caller .. MaxFaults of SpaceSubscriptions
    Key, TokenCaller, MaxTokens, TokenFaults           \* Key .. MaxFaults of TokenCache

\* The bounds are numbers, 0 is nobody, and there is something to hold a token for.
ASSUME ConnectionsAssumption ==
    /\ MaxCalls \in Nat /\ MaxClients \in Nat
    /\ MaxRetries \in Nat /\ SlackFaults \in Nat
    /\ 0 \notin SpaceCaller /\ MaxSubscriptions \in Nat
    /\ Key # {} /\ MaxTokens \in Nat

VARIABLES
    part,    \* which part moves: one per behaviour
    socket_shutdown, socket_socketTask, socket_socketClient, socket_loop,
    socket_cancelled, socket_connected, socket_mine, socket_client, socket_pc,
    socket_on, socket_calls, socket_faults, socket_overtaken, socket_overlap,
    slack_mode, slack_kind, slack_sent, slack_delivery, slack_acked, slack_marker,
    slack_writing, slack_tasks, slack_claimed, slack_faults, slack_dispatched,
    slack_handled, slack_unmarked, slack_refused,
    space_pc, space_read, space_saved, space_pending, space_waitsOn, space_created,
    space_fresh, space_faults, space_blind, space_spoiled,
    token_pc, token_wants, token_uses, token_lock, token_cache, token_issued,
    token_nearing, token_faults

Socket == INSTANCE SocketMode WITH
    Caller <- SocketCaller, MaxFaults <- SocketFaults, shutdown <-
    socket_shutdown, socketTask <- socket_socketTask, socketClient <-
    socket_socketClient, loop <- socket_loop, cancelled <- socket_cancelled,
    connected <- socket_connected, mine <- socket_mine, client <- socket_client, pc
    <- socket_pc, on <- socket_on, calls <- socket_calls, faults <- socket_faults,
    overtaken <- socket_overtaken, overlap <- socket_overlap

socketVars == <<socket_shutdown, socket_socketTask, socket_socketClient,
    socket_loop, socket_cancelled, socket_connected, socket_mine, socket_client,
    socket_pc, socket_on, socket_calls, socket_faults, socket_overtaken,
    socket_overlap>>

Slack == INSTANCE SlackDelivery WITH
    MaxFaults <- SlackFaults, mode <- slack_mode, kind <- slack_kind, sent <-
    slack_sent, delivery <- slack_delivery, acked <- slack_acked, marker <-
    slack_marker, writing <- slack_writing, tasks <- slack_tasks, claimed <-
    slack_claimed, faults <- slack_faults, dispatched <- slack_dispatched, handled
    <- slack_handled, unmarked <- slack_unmarked, refused <- slack_refused

slackVars == <<slack_mode, slack_kind, slack_sent, slack_delivery, slack_acked,
    slack_marker, slack_writing, slack_tasks, slack_claimed, slack_faults,
    slack_dispatched, slack_handled, slack_unmarked, slack_refused>>

Space == INSTANCE SpaceSubscriptions WITH
    Caller <- SpaceCaller, MaxFaults <- SpaceFaults, pc <- space_pc, read <-
    space_read, saved <- space_saved, pending <- space_pending, waitsOn <-
    space_waitsOn, created <- space_created, fresh <- space_fresh, faults <-
    space_faults, blind <- space_blind, spoiled <- space_spoiled

spaceVars == <<space_pc, space_read, space_saved, space_pending, space_waitsOn,
    space_created, space_fresh, space_faults, space_blind, space_spoiled>>

Tokens == INSTANCE TokenCache WITH
    Caller <- TokenCaller, MaxFaults <- TokenFaults, pc <-
    token_pc, wants <- token_wants, uses <- token_uses, lock <- token_lock, cache <-
    token_cache, issued <- token_issued, nearing <- token_nearing, faults <-
    token_faults

tokenVars == <<token_pc, token_wants, token_uses, token_lock, token_cache,
    token_issued, token_nearing, token_faults>>

-----------------------------------------------------------------------------
ConnectionsInit ==
    /\ part \in {"lifecycle", "socket", "slack", "space", "tokens"}
    /\ Init
    \* What does not move starts in one way.
    /\ part # "lifecycle" => backend = "memory"
    /\ Socket!Init
    /\ Slack!Init
    /\ part # "slack" => slack_mode = "webhook" /\ slack_kind = "message"
    /\ Space!Init
    /\ Tokens!Init

ConnectionsNext ==
    \/ /\ part = "lifecycle" /\ Next
       /\ UNCHANGED <<part, socketVars, slackVars, spaceVars, tokenVars>>
    \/ /\ part = "socket" /\ Socket!Next
       /\ UNCHANGED <<part, vars, slackVars, spaceVars, tokenVars>>
    \/ /\ part = "slack" /\ Slack!Next
       /\ UNCHANGED <<part, vars, socketVars, spaceVars, tokenVars>>
    \/ /\ part = "space" /\ Space!Next
       /\ UNCHANGED <<part, vars, socketVars, slackVars, tokenVars>>
    \/ /\ part = "tokens" /\ Tokens!Next
       /\ UNCHANGED <<part, vars, socketVars, slackVars, spaceVars>>

\* The fairness of each module, for the one that moves.
ConnectionsFairness ==
    /\ \A c \in Caller : WF_vars(part = "lifecycle" /\ Proceed(c))
    /\ \A i \in Attempt : WF_vars(part = "lifecycle" /\ AttemptStep(i))
    /\ \A i \in Attempt, d \in Adapter : WF_vars(part = "lifecycle" /\ AdapterAnswers(i, d))
    /\ WF_socketVars(part = "socket" /\ Socket!Step)
    /\ WF_slackVars(part = "slack" /\ Slack!Step)
    /\ \A c \in SpaceCaller : WF_spaceVars(part = "space" /\ Space!CallStep(c))
    /\ \A c \in TokenCaller : WF_tokenVars(part = "tokens" /\ Tokens!CallerStep(c))

ConnectionsSpec == ConnectionsInit /\ [][ConnectionsNext]_<<part, vars, socketVars,
    slackVars, spaceVars, tokenVars>> /\ ConnectionsFairness

-----------------------------------------------------------------------------
OneConnection        == Socket!OneConnection
MarkersTell          == Slack!MarkersTell
SpaceStaysSubscribed == Space!SpaceStaysSubscribed
TokensAreShared      == Tokens!TokensAreShared

\* Nobody waits for ever: not for an initialisation, for Socket Mode to start, to
\* stop or to come back, for a missed event, or for another's subscription or
\* token, whoever failed or was cancelled on the way.
NobodyWaitsForEver ==
    /\ FailuresAreProvoked /\ CallersSettle
    /\ Socket!CallsReturn /\ Socket!Reconnects
    /\ Slack!MissedIsRecovered
    /\ Space!WaitersGoOn /\ Tokens!CallersGoOn
=============================================================================
