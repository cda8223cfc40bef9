------------------------------ MODULE MCStreams ------------------------------
(***************************************************************************)
(* The ways a reply is streamed, for TLC.  They share no state: path says  *)
(* which one a behavior is about, and only that one moves.  The variables  *)
(* of a module carry its name.                                             *)
(***************************************************************************)
EXTENDS FallbackStream

CONSTANTS
    Call, Cancelled, NoCall, MaxFailures,         \* the edits of a plan
    Task, MaxPieces, MaxRotations,                \* Slack's native stream
    Message, Nobody, MaxTeamsChunks,              \* the replies of a Teams chat
    Interval, Cap, MaxLimits, MaxTime             \* the edits of a Telegram message

ASSUME StreamsAssumption ==
    /\ NoCall \notin Call /\ Cancelled \subseteq Call
    /\ Nobody \notin Message
    /\ Interval \in Nat /\ Cap \in Nat

VARIABLE path

VARIABLES
    plan_model, plan_chain, plan_made, plan_prev, plan_state, plan_sending, plan_shown,
    plan_stopped, plan_failures

VARIABLES
    slack_pc, slack_goal, slack_committed, slack_appended, slack_flushed, slack_rest,
    slack_card, slack_age, slack_buffer, slack_cards, slack_mode, slack_rendered,
    slack_structured, slack_open, slack_slack, slack_message, slack_stray,
    slack_rotations, slack_faults

VARIABLES
    md_lines, md_open, md_toggles, md_finished

VARIABLES
    linear_lines, linear_open, linear_toggles, linear_finished, linear_pc,
    linear_length, linear_sent

VARIABLES
    teams_hook, teams_reply, teams_turn, teams_by, teams_registry, teams_via,
    teams_emitted, teams_queue, teams_flight, teams_captured, teams_dead,
    teams_canceled, teams_final, teams_givenUp, teams_shown, teams_posted, teams_faults

VARIABLES
    tg_blank, tg_held, tg_pc, tg_pushed, tg_last, tg_lastAt, tg_blockedUntil, tg_wake,
    tg_now, tg_shown, tg_limitedUntil, tg_unsure, tg_failures

Plan == INSTANCE PlanEdits WITH
    model <- plan_model, chain <- plan_chain, made <- plan_made, prev <- plan_prev, state <- plan_state,
    sending <- plan_sending, shown <- plan_shown, stopped <- plan_stopped, failures <-
    plan_failures

planVars == <<plan_model, plan_chain, plan_made, plan_prev, plan_state, plan_sending,
              plan_shown, plan_stopped, plan_failures>>

Slack == INSTANCE SlackStream WITH
    pc <- slack_pc, goal <- slack_goal, committed <- slack_committed, appended <- slack_appended, flushed <-
    slack_flushed, rest <- slack_rest, card <- slack_card, age <- slack_age, buffer <-
    slack_buffer, cards <- slack_cards, mode <- slack_mode, rendered <- slack_rendered,
    structured <- slack_structured, open <- slack_open, slack <- slack_slack, message <-
    slack_message, stray <- slack_stray, rotations <- slack_rotations, faults <-
    slack_faults

slackVars == <<slack_pc, slack_goal, slack_committed, slack_appended, slack_flushed,
              slack_rest, slack_card, slack_age, slack_buffer, slack_cards, slack_mode,
              slack_rendered, slack_structured, slack_open, slack_slack, slack_message,
              slack_stray, slack_rotations, slack_faults>>

\* The renderer alone; what it has no session for is the other instance's.
Markdown == INSTANCE MarkdownRenderer WITH
    Kind <- {"row", "sep", "fence", "blank", "text"}, Wrap <- FALSE, MaxLines <- 5,
    lines <- md_lines, open <- md_open, toggles <- md_toggles, finished <- md_finished,
    pc <- linear_pc, length <- linear_length, sent <- linear_sent

mdVars == <<md_lines, md_open, md_toggles, md_finished>>

Linear == INSTANCE MarkdownRenderer WITH
    Kind <- {"row", "fence", "blank", "text", "star"}, Wrap <- TRUE, MaxLines <- 4,
    lines <- linear_lines, open <- linear_open, toggles <- linear_toggles, finished <-
    linear_finished, pc <- linear_pc, length <- linear_length, sent <- linear_sent

linearVars == <<linear_lines, linear_open, linear_toggles, linear_finished, linear_pc,
              linear_length, linear_sent>>

Teams == INSTANCE TeamsStream WITH
    MaxChunks <- MaxTeamsChunks, hook <- teams_hook, reply <- teams_reply, turn <-
    teams_turn, by <- teams_by, registry <- teams_registry, via <- teams_via, emitted <-
    teams_emitted, queue <- teams_queue, flight <- teams_flight, captured <-
    teams_captured, dead <- teams_dead, canceled <- teams_canceled, final <-
    teams_final, givenUp <- teams_givenUp, shown <- teams_shown, posted <- teams_posted,
    faults <- teams_faults

teamsVars == <<teams_hook, teams_reply, teams_turn, teams_by, teams_registry, teams_via,
              teams_emitted, teams_queue, teams_flight, teams_captured, teams_dead,
              teams_canceled, teams_final, teams_givenUp, teams_shown, teams_posted,
              teams_faults>>

Telegram == INSTANCE TelegramStream WITH
    blank <- tg_blank, held <- tg_held, pc <- tg_pc, pushed <- tg_pushed, last <-
    tg_last, lastAt <- tg_lastAt, blockedUntil <- tg_blockedUntil, wake <- tg_wake, now
    <- tg_now, shown <- tg_shown, limitedUntil <- tg_limitedUntil, unsure <- tg_unsure,
    failures <- tg_failures

tgVars == <<tg_blank, tg_held, tg_pc, tg_pushed, tg_last, tg_lastAt, tg_blockedUntil,
              tg_wake, tg_now, tg_shown, tg_limitedUntil, tg_unsure, tg_failures>>

-----------------------------------------------------------------------------

StreamsInit ==
    /\ path \in {"fallback", "plan", "slack", "markdown", "linear", "teams", "telegram"}
    /\ Init
    /\ Plan!Init
    /\ Slack!Init
    /\ Markdown!InitRenderer
    /\ Linear!InitSession
    /\ Teams!Init
    /\ Telegram!Init
    \* What does not move starts in one way.
    /\ path # "fallback" => blank = 0 /\ held = 1 /\ placeholder /\ typing
    /\ path # "slack" => slack_card = CHOOSE t \in Task : TRUE
    /\ path # "telegram" => tg_blank = 0 /\ tg_held = 1 /\ tg_pc = "pulling"

StreamsNext ==
    \/ path = "fallback" /\ Next /\ UNCHANGED <<path, planVars, slackVars, mdVars, linearVars, teamsVars, tgVars>>
    \/ path = "plan" /\ Plan!Next
       /\ UNCHANGED <<path, vars, slackVars, mdVars, linearVars, teamsVars, tgVars>>
    \/ path = "slack" /\ Slack!Next
       /\ UNCHANGED <<path, vars, planVars, mdVars, linearVars, teamsVars, tgVars>>
    \/ path = "markdown" /\ Markdown!RendererNext
       /\ UNCHANGED <<path, vars, planVars, slackVars, linearVars, teamsVars, tgVars>>
    \/ path = "linear" /\ Linear!SessionNext
       /\ UNCHANGED <<path, vars, planVars, slackVars, mdVars, teamsVars, tgVars>>
    \/ path = "teams" /\ Teams!Next
       /\ UNCHANGED <<path, vars, planVars, slackVars, mdVars, linearVars, tgVars>>
    \/ path = "telegram" /\ Telegram!Next
       /\ UNCHANGED <<path, vars, planVars, slackVars, mdVars, linearVars, teamsVars>>

\* The fairness of each module, for the one that moves.
StreamsFairness ==
    /\ WF_vars(path = "fallback" /\ TaskStep)
    /\ WF_vars(path = "fallback" /\ LoopStep)
    /\ \A c \in Call : WF_planVars(path = "plan" /\ Plan!EditStep(c))
    /\ \A m \in Message : WF_teamsVars(path = "teams" /\ Teams!Step(m))

StreamsSpec ==
    StreamsInit /\ [][StreamsNext]_<<path, vars, planVars, slackVars, mdVars, linearVars, teamsVars, tgVars>> /\ StreamsFairness

-----------------------------------------------------------------------------

PlansSettle       == Plan!PlansSettle
ReplyReadsAsOne   == Slack!ReplyReadsAsOne
RepliesArriveOnce == Teams!RepliesArriveOnce
RepliesMindTheLimit == Telegram!RepliesMindTheLimit
EveryLineIsSent   == Linear!EveryLineIsSent
PrefixesStand == Markdown!PrefixesStand

\* A reply comes to its end, whoever aborts it or fails, and so does the webhook
\* that waits for it.
StreamsEnd == AbortsAreHeeded /\ Teams!WebhooksEnd
=============================================================================
