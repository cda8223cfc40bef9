----------------------------- MODULE TeamsStream -----------------------------
(***************************************************************************)
(* Replies in a Teams direct chat.  The webhook of a message makes a       *)
(* streamer, registers it under the chat and stays open until the handler  *)
(* is done; a handler streams through the streamer it finds registered, or *)
(* posts one message when there is none.  The streamer is the Teams SDK's  *)
(* HttpStream: it sends what is queued by flushes of its own, and a flush  *)
(* may be refused for good or take very long.                              *)
(***************************************************************************)
EXTENDS Naturals

CONSTANTS
    Message,    \* messages of the chat; the streamer of a message has its name
    Nobody,
    MaxChunks,  \* bound of the model: chunks of a reply
    MaxFaults   \* bound of the model

VARIABLES
    hook,       \* the webhook: "none", "open", "closing", "closed"
    reply,      \* where the handling of a message is
    turn,       \* the message whose task holds the chat's lock
    by,         \* the message whose task handles a message
    registry,   \* _active_streams: the streamer of the chat
    via,        \* the streamer a reply uses
    emitted,    \* the chunks a reply has emitted
    queue,      \* chunks queued in a streamer
    flight,     \* chunks in a running flush
    captured,   \* the first chunk of the streamer was answered (id_captured)
    dead,       \* a flush failed for good: nothing more is sent
    canceled,   \* the user stopped the stream
    final,      \* the streamer was closed
    givenUp,    \* history: a close gave up on a flush of the streamer
    shown,      \* chunks that Teams shows
    posted,     \* replies that were posted as one message
    faults

sdk   == <<queue, flight, captured, dead, canceled, final, givenUp, shown>>
hooks == <<hook, registry>>
tasks == <<reply, turn, by, via, emitted, posted>>
vars  == <<sdk, hooks, tasks, faults>>

Go(m, l) == reply' = [reply EXCEPT ![m] = l]
Forget(s) == registry' = IF registry = s THEN Nobody ELSE registry
Chunks(m) == {<<m, i>> : i \in 1..emitted[m]}

Fault == faults < MaxFaults /\ faults' = faults + 1

Init ==
    /\ hook = [m \in Message |-> "none"] /\ registry = Nobody
    /\ reply = [m \in Message |-> "none"] /\ turn = Nobody /\ by = [m \in Message |-> Nobody]
    /\ via = [m \in Message |-> Nobody] /\ emitted = [m \in Message |-> 0]
    /\ queue = [m \in Message |-> {}] /\ flight = [m \in Message |-> {}]
    /\ captured = [m \in Message |-> FALSE] /\ dead = [m \in Message |-> FALSE]
    /\ canceled = [m \in Message |-> FALSE] /\ final = [m \in Message |-> FALSE]
    /\ givenUp = {} /\ shown = {} /\ posted = {}
    /\ faults = 0

-----------------------------------------------------------------------------
(* The webhook *)

\* The streamer replaces the chat's, and the chat is given the message.
Arrive(m) ==
    /\ hook[m] = "none"
    /\ hook' = [hook EXCEPT ![m] = "open"]
    /\ registry' = m
    /\ Go(m, "arriving")
    /\ UNCHANGED <<sdk, turn, by, via, emitted, posted, faults>>

\* Mutant (RegistryIsCurrent): the streamer is closed before it is withdrawn.
WithdrawLate(m) ==
    /\ hook[m] = "open"
    /\ reply[m] # "arriving" /\ turn # m
    /\ hook' = [hook EXCEPT ![m] = "closing"]
    /\ UNCHANGED <<registry, sdk, tasks, faults>>

\* The task is done: the registration is withdrawn if it still is this one, and
\* the streamer closed, which may wait for a flush.
Withdraw(m) ==
    /\ hook[m] = "open"
    /\ reply[m] # "arriving" /\ turn # m
    /\ hook' = [hook EXCEPT ![m] = "closing"]
    /\ Forget(m)
    /\ UNCHANGED <<sdk, tasks, faults>>

\* close(): what is queued is sent with the final activity, unless the streamer
\* is dead or canceled; a flush that does not end is given up.
Finalize(s) ==
    /\ \/ /\ flight[s] = {}
          /\ ~dead[s] /\ ~canceled[s]
          /\ final' = [final EXCEPT ![s] = TRUE]
          /\ shown' = shown \cup queue[s]
          /\ captured' = [captured EXCEPT ![s] = captured[s] \/ queue[s] # {}]
          /\ queue' = [queue EXCEPT ![s] = {}]
          /\ UNCHANGED <<dead, givenUp, faults>>
       \/ /\ flight[s] = {}
          /\ ~dead[s] /\ ~canceled[s]
          /\ Fault
          /\ dead' = [dead EXCEPT ![s] = TRUE]
          /\ UNCHANGED <<shown, captured, queue, final, givenUp>>
       \/ /\ flight[s] # {} \/ dead[s] \/ canceled[s]
          /\ givenUp' = IF flight[s] = {} THEN givenUp ELSE givenUp \cup {s}
          /\ UNCHANGED <<shown, captured, queue, dead, final, faults>>
    /\ UNCHANGED <<flight, canceled>>

Finish(s) == IF final[s] THEN UNCHANGED <<sdk, faults>> ELSE Finalize(s)

Close(m) ==
    /\ hook[m] = "closing"
    /\ hook' = [hook EXCEPT ![m] = "closed"]
    /\ Finish(m)
    /\ UNCHANGED <<registry, tasks>>

-----------------------------------------------------------------------------
(* The SDK and Teams *)

Flush(s) ==
    /\ queue[s] # {} /\ flight[s] = {}
    /\ ~dead[s] /\ ~canceled[s] /\ ~final[s]
    /\ flight' = [flight EXCEPT ![s] = queue[s]]
    /\ queue' = [queue EXCEPT ![s] = {}]
    /\ UNCHANGED <<captured, dead, canceled, final, givenUp, shown, hooks, tasks, faults>>

Land(s) ==
    /\ flight[s] # {}
    /\ shown' = shown \cup flight[s]
    /\ captured' = [captured EXCEPT ![s] = TRUE]
    /\ flight' = [flight EXCEPT ![s] = {}]
    /\ UNCHANGED <<queue, dead, canceled, final, givenUp, hooks, tasks, faults>>

\* Teams refuses: for good, or because the user stopped the stream.
Refuse(s) ==
    /\ flight[s] # {}
    /\ Fault
    /\ flight' = [flight EXCEPT ![s] = {}]
    /\ \/ dead' = [dead EXCEPT ![s] = TRUE] /\ UNCHANGED canceled
       \/ canceled' = [canceled EXCEPT ![s] = TRUE] /\ UNCHANGED dead
    /\ UNCHANGED <<queue, captured, final, givenUp, shown, hooks, tasks>>

-----------------------------------------------------------------------------
(* The chat's task and the handler *)

\* One handler at a time: a message that comes meanwhile is left in the queue for
\* the task that has the lock, or dropped.  Its own task is over either way.
Admit(m) ==
    /\ reply[m] = "arriving"
    /\ IF turn = Nobody
       THEN /\ turn' = m
            /\ by' = [by EXCEPT ![m] = m]
            /\ Go(m, "handling")
       ELSE /\ reply' \in {[reply EXCEPT ![m] = l] : l \in {"queued", "dropped"}}
            /\ UNCHANGED <<turn, by>>
    /\ UNCHANGED <<sdk, hooks, via, emitted, posted, faults>>

\* stream(): through the registered streamer, or accumulated and posted.
Reply(m) ==
    /\ reply[m] = "handling"
    /\ IF registry # Nobody /\ ~canceled[registry]
       THEN via' = [via EXCEPT ![m] = registry] /\ Go(m, "emitting")
       ELSE Go(m, "posting") /\ UNCHANGED via
    /\ UNCHANGED <<sdk, hooks, turn, by, emitted, posted, faults>>

\* A closed streamer takes no text, and does not say so.
Emit(m) ==
    /\ reply[m] = "emitting"
    /\ emitted[m] < MaxChunks
    /\ ~canceled[via[m]]
    /\ emitted' = [emitted EXCEPT ![m] = emitted[m] + 1]
    /\ queue' = IF final[via[m]] THEN queue
                ELSE [queue EXCEPT ![via[m]] = @ \cup {<<m, emitted[m] + 1>>}]
    /\ UNCHANGED <<flight, captured, dead, canceled, final, givenUp, shown, hooks, reply, turn,
                   by, via, posted, faults>>

\* The end of the stream, or a cancel: the first chunk's id is awaited if there
\* is anything to wait for.
EndOfReply(m) ==
    /\ reply[m] = "emitting"
    /\ emitted[m] = MaxChunks \/ canceled[via[m]]
    /\ Go(m, IF emitted[m] > 0 /\ ~canceled[via[m]] THEN "waiting" ELSE "over")
    /\ UNCHANGED <<sdk, hooks, turn, by, via, emitted, posted, faults>>

\* Mutant (WebhooksEnd): the wait for the id has no end.
ConfirmForEver(m) ==
    /\ reply[m] = "waiting"
    /\ captured[via[m]]
    /\ Go(m, "over")
    /\ UNCHANGED <<sdk, hooks, turn, by, via, emitted, posted, faults>>

\* The id came, or the wait for it ran out and the stream is settled by close().
Confirm(m) ==
    /\ reply[m] = "waiting"
    /\ IF captured[via[m]] THEN Go(m, "over") ELSE Go(m, "settling")
    /\ UNCHANGED <<sdk, hooks, turn, by, via, emitted, posted, faults>>

\* Mutant (NeverTwice): a flush that is still under way is taken for a failure.
SettleAtOnce(m) ==
    /\ reply[m] = "settling"
    /\ LET s == via[m]
       IN  /\ IF canceled[s] THEN UNCHANGED <<sdk, faults>> ELSE Finish(s)
           /\ Go(m, IF ~canceled[s] /\ ~captured'[s] THEN "posting" ELSE "over")
           /\ Forget(s)
    /\ UNCHANGED <<hook, turn, by, via, emitted, posted>>

\* Mutant (RepliesArrive): the text is not posted instead.
SettleOnly(m) ==
    /\ reply[m] = "settling"
    /\ LET s == via[m]
       IN  /\ IF canceled[s] THEN UNCHANGED <<sdk, faults>> ELSE Finish(s)
           /\ Forget(s)
    /\ Go(m, "over")
    /\ UNCHANGED <<hook, turn, by, via, emitted, posted>>

Settle(m) ==
    /\ reply[m] = "settling"
    /\ LET s == via[m]
       IN  /\ IF canceled[s] THEN UNCHANGED <<sdk, faults>> ELSE Finish(s)
           /\ Go(m, IF ~canceled[s] /\ ~captured'[s] /\ flight[s] = {} THEN "posting" ELSE "over")
           /\ IF flight[s] = {} /\ ~canceled[s] THEN Forget(s) ELSE UNCHANGED registry
    /\ UNCHANGED <<hook, turn, by, via, emitted, posted>>

Post(m) ==
    /\ reply[m] = "posting"
    /\ posted' = posted \cup {m}
    /\ Go(m, "over")
    /\ UNCHANGED <<sdk, hooks, turn, by, via, emitted, faults>>

\* The handler returns; its task handles what was queued, or releases the lock.
Return(m) ==
    /\ reply[m] = "over"
    /\ \/ \E n \in Message :
             /\ reply[n] = "queued"
             /\ reply' = [reply EXCEPT ![m] = "done", ![n] = "handling"]
             /\ by' = [by EXCEPT ![n] = turn]
             /\ UNCHANGED turn
       \/ /\ \A n \in Message : reply[n] # "queued"
          /\ Go(m, "done")
          /\ turn' = Nobody
          /\ UNCHANGED by
    /\ UNCHANGED <<sdk, hooks, via, emitted, posted, faults>>

-----------------------------------------------------------------------------

Step(m) ==
    \/ Admit(m) \/ Reply(m) \/ Emit(m) \/ EndOfReply(m) \/ Confirm(m) \/ Settle(m)
    \/ Post(m) \/ Return(m) \/ Withdraw(m) \/ Close(m)

Next == \E m \in Message : Arrive(m) \/ Step(m) \/ Flush(m) \/ Land(m) \/ Refuse(m)

\* Tasks are scheduled; nothing is asked of Teams.
Fairness == \A m \in Message : WF_vars(Step(m))

Spec == Init /\ [][Next]_vars /\ Fairness

-----------------------------------------------------------------------------

TypeOK ==
    /\ registry \in Message \cup {Nobody} /\ turn \in Message \cup {Nobody}
    /\ via \in [Message -> Message \cup {Nobody}] /\ by \in [Message -> Message \cup {Nobody}]
    /\ emitted \in [Message -> 0..MaxChunks]
    /\ shown \subseteq UNION {Chunks(m) : m \in Message}
    /\ posted \subseteq Message
    /\ faults \in 0..MaxFaults

\* A reply is not shown twice: the one message is posted only when nothing of
\* the stream was or will be shown.
NeverTwice == \A m \in posted : shown \cap Chunks(m) = {}

\* A reply that its own webhook's task gave to its own streamer is there when the
\* webhook has ended, by the stream or by the post, unless the user stopped it,
\* Teams broke off a stream it had begun, or a flush took too long to wait for.
RepliesArrive ==
    \A m \in Message :
        /\ hook[m] = "closed"
        /\ by[m] = m /\ via[m] = m /\ ~canceled[m]
        /\ m \notin givenUp
        /\ captured[m] => ~dead[m]
        => m \in posted \/ Chunks(m) \subseteq shown

\* What is registered for the chat is the streamer of a webhook that is open.
RegistryIsCurrent ==
    registry # Nobody => hook[registry] = "open"

\* A reply is there once, not twice, by the streamer of its own webhook.
RepliesArriveOnce == NeverTwice /\ RepliesArrive /\ RegistryIsCurrent

\* A webhook ends however its stream fared, and the chat comes free.
WebhooksEnd == \A m \in Message : hook[m] = "open" ~> hook[m] = "closed"

\* "Two stream() calls cannot share a streamer."
StreamersAreNotShared ==
    \A m, n \in Message : m # n /\ via[m] # Nobody => via[m] # via[n]
=============================================================================
