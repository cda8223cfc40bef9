---------------------------- MODULE EventRouting ----------------------------
(***************************************************************************)
(* From an adapter's event to the handlers: the process_* methods of Chat, *)
(* the task each starts, what the host is handed through wait_until, which *)
(* handlers a message reaches, and the concurrent strategy with its bound  *)
(* (chat.py).  The locking strategies are ChatDispatch's.                  *)
(***************************************************************************)
EXTENDS Integers, FiniteSets

CONSTANTS
    Event,
    Message,       \* the events that are messages of one thread
    Mentioned,     \* the messages that mention the bot
    Handlers,      \* how many handlers match an event
    MaxConcurrent, \* max_concurrent
    MaxFaults      \* bound on failing handlers and state calls, and on cancels

VARIABLES
    kind,
    propagate,  \* propagate_handler_errors
    pc,         \* "none", "waiting", "routing", "handling", "posting", "done", "failed", "cancelled"
    next,       \* the next handler
    route,      \* which handlers a message is for
    answer,     \* what a platform waits for: a handler has answered
    post,       \* the POST to a callback URL: "none", "sending", "ended"
    view,       \* what wait_until was handed: "none", "raw", "quiet"
    seen,       \* and what became of that
    free,       \* _concurrent_semaphore
    subscribed, \* the thread's subscription
    faults,
    late        \* history: the messages that came after the subscription

task == <<pc, next, route, answer, post>>
host == <<view, seen>>
given == <<kind, propagate>>
vars == <<given, task, host, free, subscribed, faults, late>>

\* A "notice" is a deletion, or an event of assistants, sessions, app homes,
\* members and installations.
Kind == {"update", "reaction", "action", "slash", "options", "submit", "close", "notice"}

Init ==
    /\ kind \in [Event -> Kind \cup {"message"}]
    /\ \A e \in Event : kind[e] = "message" <=> e \in Message
    /\ propagate \in BOOLEAN
    /\ pc = [e \in Event |-> "none"] /\ next = [e \in Event |-> 1]
    /\ route = [e \in Event |-> "none"] /\ answer = [e \in Event |-> FALSE]
    /\ post = [e \in Event |-> "none"] /\ view = [e \in Event |-> "none"]
    /\ seen = [e \in Event |-> "none"]
    /\ free = MaxConcurrent /\ subscribed = FALSE /\ faults = 0 /\ late = {}

Fault == faults < MaxFaults /\ faults' = faults + 1
Over(e) == pc[e] \in {"done", "failed", "cancelled"}

-----------------------------------------------------------------------------
\* The process_* methods.

\* _hand_to_wait_until: a wrapper that swallows errors, or the task itself.
Handed(e) ==
    view' = [view EXCEPT ![e] =
        IF propagate /\ kind[e] \in {"message", "action", "slash"} THEN "raw" ELSE "quiet"]

ProcessMessage(e) ==
    /\ kind[e] = "message" /\ pc[e] = "none"
    /\ pc' = [pc EXCEPT ![e] = "waiting"]
    /\ late' = IF subscribed THEN late \cup {e} ELSE late
    /\ Handed(e)
    /\ UNCHANGED <<given, next, route, answer, post, seen, free, subscribed, faults>>

ProcessEvent(e) ==
    /\ kind[e] \in {"update", "reaction", "action", "slash", "close"} /\ pc[e] = "none"
    /\ pc' = [pc EXCEPT ![e] = "routing"]
    /\ Handed(e)
    /\ UNCHANGED <<given, next, route, answer, post, seen, free, subscribed, faults, late>>

\* The host is never handed the errors of these.
ProcessNotice(e) ==
    /\ kind[e] = "notice" /\ pc[e] = "none"
    /\ pc' = [pc EXCEPT ![e] = "routing"]
    /\ view' = [view EXCEPT ![e] = "quiet"]
    /\ UNCHANGED <<given, next, route, answer, post, seen, free, subscribed, faults, late>>

\* The adapter awaits the answer itself.
ProcessQuestion(e) ==
    /\ kind[e] \in {"options", "submit"} /\ pc[e] = "none"
    /\ pc' = [pc EXCEPT ![e] = "handling"]
    /\ UNCHANGED <<given, next, route, answer, post, host, free, subscribed, faults, late>>

-----------------------------------------------------------------------------
\* Routing.  A failing state call fails the task.

\* Mutant (AtMostMaxConcurrent): the bound is accepted and ignored.
EnterUnbounded(e) ==
    /\ pc[e] = "waiting"
    /\ free' = free - 1
    /\ pc' = [pc EXCEPT ![e] = "routing"]
    /\ UNCHANGED <<given, next, route, answer, post, host, subscribed, faults, late>>

\* _handle_concurrent
Enter(e) ==
    /\ pc[e] = "waiting"
    /\ free > 0
    /\ free' = free - 1
    /\ pc' = [pc EXCEPT ![e] = "routing"]
    /\ UNCHANGED <<given, next, route, answer, post, host, subscribed, faults, late>>

Released(e) == free' = IF kind[e] = "message" /\ pc[e] \in {"routing", "handling"}
                         THEN free + 1 ELSE free

\* Mutant (SubscribedComesFirst): mentions are looked at first.
MentionsFirst(e) ==
    IF e \in Mentioned THEN "mention" ELSE IF subscribed THEN "subscribed" ELSE "pattern"

\* _dispatch_to_handlers_with_signal, for a thread that is not a DM.
Routes(e) == IF subscribed THEN "subscribed" ELSE IF e \in Mentioned THEN "mention" ELSE "pattern"

RouteMessage(e) ==
    /\ kind[e] = "message" /\ pc[e] = "routing"
    /\ route' = [route EXCEPT ![e] = Routes(e)]
    /\ pc' = [pc EXCEPT ![e] = "handling"]
    /\ UNCHANGED <<given, next, answer, post, host, free, subscribed, faults, late>>

\* Events of the bot itself end here.
Routed(e, ends) ==
    /\ pc[e] = "routing"
    /\ pc' = [pc EXCEPT ![e] = ends]
    /\ UNCHANGED <<given, next, route, answer, post, host, free, subscribed, faults, late>>

RouteUpdate(e) == kind[e] = "update" /\ \E ends \in {"handling", "done"} : Routed(e, ends)
RouteReaction(e) == kind[e] = "reaction" /\ \E ends \in {"handling", "done"} : Routed(e, ends)
RouteCommand(e) == kind[e] = "slash" /\ \E ends \in {"handling", "done"} : Routed(e, ends)
RouteNotice(e) == kind[e] \in {"close", "notice"} /\ Routed(e, "handling")

\* The token of a button resolves to a callback URL, or does not.
RouteAction(e) ==
    /\ kind[e] = "action" /\ pc[e] = "routing"
    /\ \/ /\ pc' = [pc EXCEPT ![e] = "handling"]
          /\ \E p \in {"none", "sending"} : post' = [post EXCEPT ![e] = p]
       \/ pc' = [pc EXCEPT ![e] = "done"] /\ UNCHANGED post
    /\ UNCHANGED <<given, next, route, answer, host, free, subscribed, faults, late>>

RoutingFails(e) ==
    /\ pc[e] = "routing"
    /\ kind[e] \notin {"notice", "slash"}
    /\ Fault
    /\ pc' = [pc EXCEPT ![e] = "failed"]
    /\ Released(e)
    /\ UNCHANGED <<given, next, route, answer, post, host, subscribed, late>>

-----------------------------------------------------------------------------
\* Handlers run one after the other.

HandlerEnds(e) ==
    /\ pc[e] = "handling" /\ kind[e] \notin {"options", "submit"}
    /\ next[e] <= Handlers
    /\ next' = [next EXCEPT ![e] = @ + 1]
    /\ subscribed' \in {subscribed, subscribed \/ kind[e] = "message"}
    /\ UNCHANGED <<given, pc, route, answer, post, host, free, faults, late>>

\* Mutant (Admitted): a failing handler keeps its place.
HandlerFailsInside(e) ==
    /\ pc[e] = "handling" /\ kind[e] \notin {"options", "submit"}
    /\ next[e] <= Handlers
    /\ Fault
    /\ pc' = [pc EXCEPT ![e] = "failed"]
    /\ UNCHANGED <<given, next, route, answer, post, host, free, subscribed, late>>

HandlerFails(e) ==
    /\ pc[e] = "handling" /\ kind[e] \notin {"options", "submit"}
    /\ next[e] <= Handlers
    /\ Fault
    /\ pc' = [pc EXCEPT ![e] = "failed"]
    /\ Released(e)
    /\ UNCHANGED <<given, next, route, answer, post, host, subscribed, late>>

\* Mutant (FulfilledIsFinished): the POST is left running.
EndsWithoutPost(e) ==
    /\ pc[e] = "handling" /\ kind[e] \notin {"options", "submit"}
    /\ next[e] > Handlers
    /\ pc' = [pc EXCEPT ![e] = "done"]
    /\ Released(e)
    /\ UNCHANGED <<given, next, route, answer, post, host, subscribed, faults, late>>

\* The task of an action ends with its POST.
Ends(e) ==
    /\ pc[e] = "handling" /\ kind[e] \notin {"options", "submit"}
    /\ next[e] > Handlers
    /\ pc' = [pc EXCEPT ![e] = IF post[e] = "none" THEN "done" ELSE "posting"]
    /\ Released(e)
    /\ UNCHANGED <<given, next, route, answer, post, host, subscribed, faults, late>>

Posted(e) ==
    /\ pc[e] = "posting"
    /\ post[e] = "ended"
    /\ pc' = [pc EXCEPT ![e] = "done"]
    /\ UNCHANGED <<given, next, route, answer, post, host, free, subscribed, faults, late>>

PostEnds(e) ==
    /\ post[e] = "sending"
    /\ post' = [post EXCEPT ![e] = "ended"]
    /\ UNCHANGED <<given, pc, next, route, answer, host, free, subscribed, faults, late>>

Asking(e) == kind[e] \in {"options", "submit"} /\ pc[e] = "handling"

\* Mutant (EveryHandlerIsAsked): an error is the answer.
AskUntilError(e) ==
    /\ Asking(e)
    /\ ~answer[e] /\ next[e] <= Handlers
    /\ \/ /\ next' = [next EXCEPT ![e] = @ + 1]
          /\ \E a \in BOOLEAN : answer' = [answer EXCEPT ![e] = a]
          /\ UNCHANGED <<pc, faults>>
       \/ /\ Fault
          /\ pc' = [pc EXCEPT ![e] = "done"]
          /\ UNCHANGED <<next, answer>>
    /\ UNCHANGED <<given, route, post, host, free, subscribed, late>>

\* A question goes to one handler after the other until one answers; an error
\* is no answer.
Ask(e) ==
    /\ Asking(e)
    /\ ~answer[e] /\ next[e] <= Handlers
    /\ next' = [next EXCEPT ![e] = @ + 1]
    /\ \/ /\ \E a \in BOOLEAN : answer' = [answer EXCEPT ![e] = a]
          /\ UNCHANGED faults
       \/ Fault /\ UNCHANGED answer
    /\ UNCHANGED <<given, pc, route, post, host, free, subscribed, late>>

AnswerOptions(e) ==
    /\ Asking(e) /\ kind[e] = "options"
    /\ answer[e] \/ next[e] > Handlers
    /\ pc' = [pc EXCEPT ![e] = "done"]
    /\ UNCHANGED <<given, next, route, answer, post, host, free, subscribed, faults, late>>

\* The modal's answer does not wait for the POST, which the host is handed; an
\* answer with errors keeps the modal open and is not posted.
AnswerSubmit(e) ==
    /\ Asking(e) /\ kind[e] = "submit"
    /\ answer[e] \/ next[e] > Handlers
    /\ pc' = [pc EXCEPT ![e] = "done"]
    /\ \/ /\ post' = [post EXCEPT ![e] = "sending"]
          /\ view' = [view EXCEPT ![e] = "raw"]
       \/ UNCHANGED <<post, view>>
    /\ UNCHANGED <<given, next, route, answer, seen, free, subscribed, faults, late>>

-----------------------------------------------------------------------------
\* The host of the webhook.

Ended(e) == Over(e) /\ (kind[e] = "submit" => post[e] = "ended")

Settle(e) ==
    /\ view[e] # "none" /\ seen[e] = "none"
    /\ Ended(e)
    /\ seen' = [seen EXCEPT ![e] =
           IF view[e] = "quiet" \/ pc[e] = "done" THEN "fulfilled" ELSE pc[e]]
    /\ UNCHANGED <<given, task, view, free, subscribed, faults, late>>

\* Mutant (HostsDoNotCancel): the wrapper awaits the task without a shield.
HostCancelsThrough(e) ==
    /\ view[e] # "none" /\ seen[e] = "none" /\ ~Ended(e)
    /\ Fault
    /\ seen' = [seen EXCEPT ![e] = "cancelled"]
    /\ pc' = [pc EXCEPT ![e] = IF @ = "done" THEN "done" ELSE "cancelled"]
    /\ post' = [post EXCEPT ![e] = IF pc[e] \in {"done", "posting"} THEN "ended" ELSE @]
    /\ Released(e)
    /\ UNCHANGED <<given, next, route, answer, view, subscribed, late>>

\* The host cancels what it was handed; a task that is cancelled takes the POST
\* it awaits along.
HostCancels(e) ==
    /\ view[e] # "none" /\ seen[e] = "none" /\ ~Ended(e)
    /\ Fault
    /\ seen' = [seen EXCEPT ![e] = "cancelled"]
    /\ IF view[e] = "raw"
         THEN /\ pc' = [pc EXCEPT ![e] = IF @ = "done" THEN "done" ELSE "cancelled"]
              /\ post' = [post EXCEPT ![e] = IF pc[e] \in {"done", "posting"} THEN "ended" ELSE @]
              /\ Released(e)
         ELSE UNCHANGED <<pc, post, free>>
    /\ UNCHANGED <<given, next, route, answer, view, subscribed, late>>

-----------------------------------------------------------------------------
Process(e) == ProcessMessage(e) \/ ProcessEvent(e) \/ ProcessNotice(e) \/ ProcessQuestion(e)
TaskStep(e) ==
    \/ RouteMessage(e) \/ RouteUpdate(e) \/ RouteReaction(e) \/ RouteCommand(e) \/ RouteNotice(e)
    \/ RouteAction(e) \/ HandlerEnds(e) \/ HandlerFails(e)
    \/ Ends(e) \/ Posted(e) \/ Ask(e) \/ AnswerOptions(e) \/ AnswerSubmit(e)

Next == \E e \in Event :
    \/ Process(e) \/ Enter(e) \/ TaskStep(e) \/ RoutingFails(e) \/ PostEnds(e) \/ Settle(e)
    \/ HostCancels(e)

\* Handlers end; the semaphore serves those who wait in their order.
Step == \E e \in Event : TaskStep(e) \/ PostEnds(e) \/ Settle(e) \/ Enter(e)
Fairness == WF_vars(Step)

Spec == Init /\ [][Next]_vars /\ Fairness

-----------------------------------------------------------------------------
\* Under the concurrent strategy at most max_concurrent messages are with
\* handlers, whichever ended, failed or were cancelled before.
AtMostMaxConcurrent ==
    Cardinality({e \in Message : pc[e] \in {"routing", "handling"}}) <= MaxConcurrent

\* No place is lost: whoever waits for one gets it.
Admitted == \A e \in Event : pc[e] = "waiting" ~> pc[e] # "waiting"

\* A message that comes after its thread was subscribed goes to the handlers
\* of subscriptions, also if it mentions the bot.
SubscribedComesFirst == \A e \in late : route[e] \in {"none", "subscribed"}

\* A host that gives up waiting does not stop a handler, unless it has asked
\* for the handler's errors and so holds its task.
HostsDoNotCancel == \A e \in Event : pc[e] = "cancelled" => propagate /\ view[e] = "raw"

\* When wait_until is fulfilled, and the host may freeze the process, the
\* handlers have ended and, if all went well, the POST to the callback URL.
FulfilledIsFinished ==
    \A e \in Event :
        seen[e] = "fulfilled" => Over(e) /\ (pc[e] = "done" => post[e] # "sending")

\* A question ends unanswered only after every handler was asked, whichever
\* of them failed.
EveryHandlerIsAsked ==
    \A e \in Event :
        kind[e] \in {"options", "submit"} /\ pc[e] = "done" => answer[e] \/ next[e] > Handlers

\* wait_until means what hosts take it for: what they do to it leaves the handlers
\* alone, and when it is fulfilled there is nothing left to wait for.
HostsMayTrustIt == HostsDoNotCancel /\ FulfilledIsFinished

\* Messages and questions reach the handlers they are for, whoever fails before.
EventsReachTheirHandlers == SubscribedComesFirst /\ EveryHandlerIsAsked

\* The places of the semaphore are never overdrawn and never lost.
PlacesAreShared == []AtMostMaxConcurrent /\ Admitted
=============================================================================
