---------------------------- MODULE SlackDelivery ----------------------------
(***************************************************************************)
(* One event of Slack's Events API, delivered over webhooks or Socket Mode *)
(* at least once.  Slack delivers it again until it is acknowledged; the   *)
(* adapter drops a retry whose event it has marked as dispatched, and Chat *)
(* drops a message it has seen (adapters/slack/adapter.py).                *)
(***************************************************************************)
EXTENDS Integers

CONSTANTS
    MaxRetries, \* Slack delivers an event at most so many times again
    MaxFaults   \* bound on lost deliveries and answers, failing calls and crashes

VARIABLES
    mode,       \* "webhook" or "socket"
    kind,       \* "message" or "reaction"
    sent,       \* how many deliveries Slack has made
    delivery,   \* where each is
    acked,      \* Slack has the acknowledgement
    marker,     \* slack:event-delivered:<id>
    writing,    \* writes of the marker under way
    tasks,      \* dispatched, but not with Chat yet
    claimed,    \* Chat's deduplication key of the message
    faults,
    dispatched, \* history: how often the event was dispatched
    handled,    \* history: how often Chat took it
    unmarked,   \* history: a marker could not be stored or read
    refused     \* history: dropped without its installation, or acknowledged in vain

slack == <<sent, acked>>
history == <<dispatched, handled, unmarked, refused>>
vars == <<mode, kind, slack, delivery, marker, writing, tasks, claimed, faults, history>>

Delivery == 0 .. MaxRetries

Init ==
    /\ mode \in {"webhook", "socket"}
    /\ kind \in {"message", "reaction"}
    /\ sent = 0 /\ acked = FALSE
    /\ delivery = [n \in Delivery |-> "none"]
    /\ marker = FALSE /\ writing = 0 /\ tasks = 0 /\ claimed = FALSE /\ faults = 0
    /\ dispatched = 0 /\ handled = 0 /\ unmarked = FALSE /\ refused = FALSE

Fault == faults < MaxFaults /\ faults' = faults + 1

-----------------------------------------------------------------------------
\* Slack and the network: slow deliveries overtake one another, but for the
\* last, five minutes after the others.

Quiet ==
    /\ writing = 0 /\ tasks = 0
    /\ \A n \in Delivery : delivery[n] \in {"none", "done", "lost"}

Send ==
    /\ ~acked
    /\ sent < MaxRetries \/ (sent = MaxRetries /\ Quiet)
    /\ sent' = sent + 1
    /\ delivery' = [delivery EXCEPT ![sent] = "flying"]
    /\ UNCHANGED <<mode, kind, acked, marker, writing, tasks, claimed, faults, history>>

Lose(n) ==
    /\ delivery[n] = "flying"
    /\ Fault
    /\ delivery' = [delivery EXCEPT ![n] = "lost"]
    /\ UNCHANGED <<mode, kind, slack, marker, writing, tasks, claimed, history>>

\* The answer reaches Slack, or is lost or late.
Acknowledge == (acked' = TRUE /\ UNCHANGED faults) \/ (UNCHANGED acked /\ Fault)

-----------------------------------------------------------------------------
\* handle_webhook, _route_socket_event

\* An event over the socket is acknowledged first.  Only retries look for the
\* marker.
Arrive(n) ==
    /\ delivery[n] = "flying"
    /\ delivery' = [delivery EXCEPT ![n] = IF n = 0 THEN "resolving" ELSE "checking"]
    /\ IF mode = "socket" THEN Acknowledge ELSE UNCHANGED <<acked, faults>>
    /\ UNCHANGED <<mode, kind, sent, marker, writing, tasks, claimed, history>>

\* Mutant (MissedIsRecovered): an error means "drop".
CheckOrDrop(n) ==
    /\ delivery[n] = "checking"
    /\ \/ /\ marker
          /\ delivery' = [delivery EXCEPT ![n] = "done"]
          /\ IF mode = "webhook" THEN Acknowledge ELSE UNCHANGED <<acked, faults>>
          /\ UNCHANGED unmarked
       \/ /\ ~marker
          /\ delivery' = [delivery EXCEPT ![n] = "resolving"]
          /\ UNCHANGED <<acked, faults, unmarked>>
       \/ /\ Fault
          /\ unmarked' = TRUE
          /\ acked' = TRUE
          /\ delivery' = [delivery EXCEPT ![n] = "done"]
    /\ UNCHANGED <<mode, kind, sent, marker, writing, tasks, claimed, dispatched, handled,
                   refused>>

\* _is_duplicate_event_delivery: an error means "process".
Check(n) ==
    /\ delivery[n] = "checking"
    /\ \/ /\ marker
          /\ delivery' = [delivery EXCEPT ![n] = "done"]
          /\ IF mode = "webhook" THEN Acknowledge ELSE UNCHANGED <<acked, faults>>
          /\ UNCHANGED unmarked
       \/ /\ ~marker
          /\ delivery' = [delivery EXCEPT ![n] = "resolving"]
          /\ UNCHANGED <<acked, faults, unmarked>>
       \/ /\ Fault
          /\ unmarked' = TRUE
          /\ delivery' = [delivery EXCEPT ![n] = "resolving"]
          /\ UNCHANGED acked
    /\ UNCHANGED <<mode, kind, sent, marker, writing, tasks, claimed, dispatched, handled,
                   refused>>

\* Mutant (HandledOnce): the marker is left to the deduplication of messages.
DispatchUnmarked(n) ==
    /\ delivery[n] = "resolving"
    /\ delivery' = [delivery EXCEPT ![n] = "done"]
    /\ tasks' = tasks + 1
    /\ dispatched' = dispatched + 1
    /\ IF mode = "webhook" THEN Acknowledge ELSE UNCHANGED <<acked, faults>>
    /\ UNCHANGED <<mode, kind, sent, marker, writing, claimed, handled, unmarked, refused>>

\* The installation is known: _process_event_payload starts to write the
\* marker and the task of the handler.
Dispatch(n) ==
    /\ delivery[n] = "resolving"
    /\ delivery' = [delivery EXCEPT ![n] = "done"]
    /\ writing' = writing + 1
    /\ tasks' = tasks + 1
    /\ dispatched' = dispatched + 1
    /\ IF mode = "webhook" THEN Acknowledge ELSE UNCHANGED <<acked, faults>>
    /\ UNCHANGED <<mode, kind, sent, marker, claimed, handled, unmarked, refused>>

\* Mutant (MarkedWasDispatched): the marker is written for every delivery.
UnresolvedMarked(n) ==
    /\ delivery[n] = "resolving"
    /\ Fault
    /\ delivery' = [delivery EXCEPT ![n] = "done"]
    /\ writing' = writing + 1
    /\ acked' \in IF mode = "webhook" THEN {TRUE, acked} ELSE {acked}
    /\ refused' = TRUE
    /\ UNCHANGED <<mode, kind, sent, marker, tasks, claimed, dispatched, handled, unmarked>>

\* The installation is not found, or not to be read: the event is dropped, and a
\* webhook acknowledged, if the answer reaches Slack.
Unresolved(n) ==
    /\ delivery[n] = "resolving"
    /\ Fault
    /\ delivery' = [delivery EXCEPT ![n] = "done"]
    /\ acked' \in IF mode = "webhook" THEN {TRUE, acked} ELSE {acked}
    /\ refused' = TRUE
    /\ UNCHANGED <<mode, kind, sent, marker, writing, tasks, claimed, dispatched, handled,
                   unmarked>>

\* _mark_event_delivered: a failure is logged.
WriteEnds ==
    /\ writing > 0
    /\ writing' = writing - 1
    /\ \/ marker' = TRUE /\ UNCHANGED <<faults, unmarked>>
       \/ Fault /\ unmarked' = TRUE /\ UNCHANGED marker
    /\ UNCHANGED <<mode, kind, slack, delivery, tasks, claimed, dispatched, handled, refused>>

\* process_message, behind _bridge for DMs of agent_view; process_reaction,
\* which does not deduplicate, after its look-up of the thread.
Take ==
    /\ tasks > 0
    /\ tasks' = tasks - 1
    /\ claimed' = (claimed \/ kind # "reaction")
    /\ handled' = IF claimed THEN handled ELSE handled + 1
    /\ UNCHANGED <<mode, kind, slack, delivery, marker, writing, faults, dispatched, unmarked,
                   refused>>

\* The deduplication key lives five minutes, the marker a day: Slack's
\* last retry may find the one without the other.
KeyExpires ==
    /\ claimed
    /\ sent = MaxRetries /\ Quiet
    /\ claimed' = FALSE
    /\ UNCHANGED <<mode, kind, slack, delivery, marker, writing, tasks, faults, history>>

Underway(n) == delivery[n] \in {"checking", "resolving"}

\* What was acknowledged over the socket is not delivered again.
Crash ==
    /\ Fault
    /\ delivery' = [n \in Delivery |-> IF Underway(n) THEN "lost" ELSE delivery[n]]
    /\ writing' = 0
    /\ tasks' = 0
    /\ unmarked' = (unmarked \/ writing > 0)
    /\ refused' = (refused \/ (acked /\ \E n \in Delivery : Underway(n)))
    /\ UNCHANGED <<mode, kind, slack, marker, claimed, dispatched, handled>>

-----------------------------------------------------------------------------
DeliveryStep(n) == Arrive(n) \/ Check(n) \/ Dispatch(n)

Next ==
    \/ Send \/ WriteEnds \/ Take \/ KeyExpires \/ Crash
    \/ \E n \in Delivery : DeliveryStep(n) \/ Lose(n) \/ Unresolved(n)

\* Slack delivers again, and the adapter and its tasks run.
Step == Send \/ WriteEnds \/ Take \/ \E n \in Delivery : DeliveryStep(n)
Fairness == WF_vars(Step)

Spec == Init /\ [][Next]_vars /\ Fairness

-----------------------------------------------------------------------------
\* A message is handled once however often, and in whatever order, it is
\* delivered, so long as markers can be written and read: neither the marker,
\* which is stored late, nor the key, which expires, is enough by itself.
HandledOnce == kind # "reaction" /\ ~unmarked => handled <= 1

\* Only a delivery that was dispatched is ever marked, so a retry is never
\* dropped for one that went nowhere.
MarkedWasDispatched == marker \/ writing > 0 => dispatched > 0

\* The marker of a delivery neither lets a message through twice nor holds back one
\* that went nowhere.
MarkersTell == HandledOnce /\ MarkedWasDispatched

\* "A genuinely missed event is recovered instead of being lost": whatever
\* Slack sends is dispatched, unless its installation could not be resolved, the
\* process died after it had acknowledged, or no delivery got through at all.
MissedIsRecovered ==
    sent > 0 ~> dispatched > 0 \/ refused \/ \A n \in Delivery : delivery[n] = "lost"
=============================================================================
