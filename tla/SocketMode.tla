----------------------------- MODULE SocketMode -----------------------------
(***************************************************************************)
(* The Socket Mode connection of the Slack adapter: start_socket_mode,     *)
(* stop_socket_mode and the task they share, _socket_mode_loop, which      *)
(* reconnects for ever (adapters/slack/adapter.py).  Calls may overlap: an *)
(* initialisation that is left behind may still be starting the connection *)
(* when shutdown stops it.  slack_sdk's client is external: a disconnect   *)
(* once begun closes it, a cancelled connect leaves nothing open.          *)
(***************************************************************************)
EXTENDS Integers

CONSTANTS
    Caller,     \* tasks that start and stop
    MaxCalls,   \* bound on their calls
    MaxClients, \* bound on the clients created
    MaxFaults   \* bound on connections that fail, hang or drop

VARIABLES
    shutdown,     \* _socket_shutdown_event
    socketTask,   \* _socket_task: a loop, or 0
    socketClient, \* _socket_client: a client, or 0
    loop,         \* where each loop is
    cancelled,    \* the loops that have been cancelled
    connected,    \* the loops whose event connected is set
    mine,         \* the loop's own client
    client,       \* "none", "connecting", "hung", "open", "dropped", "closed"
    pc,           \* "idle", "starting", "disconnecting", "draining"
    on,           \* the loop or the client a call waits for
    calls, faults,
    overtaken,    \* history: the loops a stop or another start came across
    overlap       \* history: a start found a stop under way

tasks == <<socketTask, loop, cancelled, connected, mine>>
clients == <<socketClient, client>>
callers == <<pc, on, calls>>
history == <<overtaken, overlap>>
vars == <<shutdown, tasks, clients, callers, faults, history>>

Loop == 1 .. MaxCalls
Client == 1 .. MaxClients

Init ==
    /\ shutdown = FALSE /\ socketTask = 0 /\ socketClient = 0
    /\ loop = [l \in Loop |-> "none"] /\ mine = [l \in Loop |-> 0]
    /\ cancelled = {} /\ connected = {} /\ overtaken = {} /\ overlap = FALSE
    /\ client = [k \in Client |-> "none"]
    /\ pc = [c \in Caller |-> "idle"] /\ on = [c \in Caller |-> 0]
    /\ calls = 0 /\ faults = 0

Fault == faults < MaxFaults /\ faults' = faults + 1
Running(l) == l # 0 /\ loop[l] \notin {"none", "ended", "failed"}
Fresh == {k \in Client : client[k] = "none"}
NewClient == CHOOSE k \in Fresh : TRUE

-----------------------------------------------------------------------------
\* start_socket_mode

\* Mutant (OneLoop): a connection that is down is taken for a loop that ended.
StartDown(c) ==
    /\ pc[c] = "idle"
    /\ calls < MaxCalls
    /\ socketTask = 0 \/ socketClient = 0
    /\ calls' = calls + 1
    /\ shutdown' = FALSE
    /\ socketTask' = calls'
    /\ loop' = [loop EXCEPT ![calls'] = "created"]
    /\ pc' = [pc EXCEPT ![c] = "starting"]
    /\ on' = [on EXCEPT ![c] = calls']
    /\ overtaken' = overtaken \cup {socketTask}
    /\ overlap' = (overlap \/ \E b \in Caller : pc[b] \in {"disconnecting", "draining"})
    /\ UNCHANGED <<cancelled, connected, mine, clients, faults>>

Start(c) ==
    /\ pc[c] = "idle"
    /\ calls < MaxCalls
    /\ ~Running(socketTask)
    /\ calls' = calls + 1
    /\ shutdown' = FALSE
    /\ socketTask' = calls'
    /\ loop' = [loop EXCEPT ![calls'] = "created"]
    /\ pc' = [pc EXCEPT ![c] = "starting"]
    /\ on' = [on EXCEPT ![c] = calls']
    /\ overtaken' = overtaken \cup {socketTask}
    /\ overlap' = (overlap \/ \E b \in Caller : pc[b] \in {"disconnecting", "draining"})
    /\ UNCHANGED <<cancelled, connected, mine, clients, faults>>

\* The start returns or raises: connected, or the loop has ended.
Started(c) ==
    /\ pc[c] = "starting"
    /\ on[c] \in connected \/ ~Running(on[c])
    /\ pc' = [pc EXCEPT ![c] = "idle"]
    /\ on' = [on EXCEPT ![c] = 0]
    /\ UNCHANGED <<shutdown, tasks, clients, calls, faults, history>>

-----------------------------------------------------------------------------
\* stop_socket_mode, also called by a start whose time is up.

\* Mutant (NoOrphans): the loop is left to notice the event by itself.
TakeTaskUncancelled(c) ==
    /\ socketTask' = 0
    /\ overtaken' = overtaken \cup {socketTask}
    /\ pc' = [pc EXCEPT ![c] = "idle"]
    /\ on' = [on EXCEPT ![c] = 0]
    /\ UNCHANGED cancelled

\* Mutant (CallsReturn): the task is awaited but not cancelled.
TakeTaskAwaiting(c) ==
    /\ socketTask' = 0
    /\ overtaken' = overtaken \cup {socketTask}
    /\ pc' = [pc EXCEPT ![c] = IF Running(socketTask) THEN "draining" ELSE "idle"]
    /\ on' = [on EXCEPT ![c] = IF Running(socketTask) THEN socketTask ELSE 0]
    /\ UNCHANGED cancelled

\* What follows the disconnect: the task is taken and cancelled.
TakeTask(c) ==
    /\ socketTask' = 0
    /\ overtaken' = overtaken \cup {socketTask}
    /\ IF Running(socketTask)
         THEN /\ cancelled' = cancelled \cup {socketTask}
              /\ pc' = [pc EXCEPT ![c] = "draining"]
              /\ on' = [on EXCEPT ![c] = socketTask]
         ELSE /\ pc' = [pc EXCEPT ![c] = "idle"]
              /\ on' = [on EXCEPT ![c] = 0]
              /\ UNCHANGED cancelled

BeginStop(c) ==
    /\ shutdown' = TRUE
    /\ socketClient' = 0
    /\ \/ /\ socketClient # 0
          /\ pc' = [pc EXCEPT ![c] = "disconnecting"]
          /\ on' = [on EXCEPT ![c] = socketClient]
          /\ overtaken' = overtaken \cup {socketTask}
          /\ UNCHANGED <<socketTask, cancelled>>
       \/ /\ socketClient = 0
          /\ TakeTask(c)
    /\ UNCHANGED <<loop, connected, mine, client, faults, overlap>>

Stop(c) ==
    /\ pc[c] = "idle"
    /\ calls < MaxCalls
    /\ calls' = calls + 1
    /\ BeginStop(c)

Disconnected(c) ==
    /\ pc[c] = "disconnecting"
    /\ client' = [client EXCEPT ![on[c]] =
           IF @ \in {"open", "dropped"} THEN "closed" ELSE @]
    /\ TakeTask(c)
    /\ UNCHANGED <<shutdown, loop, connected, mine, socketClient, calls, faults, overlap>>

Drained(c) ==
    /\ pc[c] = "draining"
    /\ ~Running(on[c])
    /\ pc' = [pc EXCEPT ![c] = "idle"]
    /\ on' = [on EXCEPT ![c] = 0]
    /\ UNCHANGED <<shutdown, tasks, clients, calls, faults, history>>

\* connect_timeout_s.
TimeIsUp(c) ==
    /\ pc[c] = "starting"
    /\ on[c] \notin connected /\ Running(on[c])
    /\ BeginStop(c)
    /\ UNCHANGED calls

-----------------------------------------------------------------------------
\* _socket_mode_loop

LoopUnchanged == UNCHANGED <<socketTask, cancelled, callers, history>>

\* The end of the loop takes whatever client the adapter has.
Unwind(l) ==
    /\ socketClient' = 0
    /\ mine' = [mine EXCEPT ![l] = socketClient]
    /\ loop' = [loop EXCEPT ![l] = IF socketClient = 0 THEN "ended" ELSE "final"]

Connect(l) ==
    /\ loop[l] \in {"created", "backoff"}
    /\ l \notin cancelled
    /\ \/ /\ ~shutdown
          /\ Fresh # {}
          /\ client' = [client EXCEPT ![NewClient] = "connecting"]
          /\ mine' = [mine EXCEPT ![l] = NewClient]
          /\ socketClient' = NewClient
          /\ loop' = [loop EXCEPT ![l] = "connecting"]
       \/ /\ shutdown
          /\ Unwind(l)
          /\ UNCHANGED client
    /\ UNCHANGED <<shutdown, connected, faults>> /\ LoopUnchanged

Connected(l) ==
    /\ loop[l] = "connecting"
    /\ l \notin cancelled
    /\ client[mine[l]] = "connecting"
    /\ client' = [client EXCEPT ![mine[l]] = "open"]
    /\ connected' = connected \cup {l}
    /\ loop' = [loop EXCEPT ![l] = "up"]
    /\ UNCHANGED <<shutdown, mine, socketClient, faults>> /\ LoopUnchanged

\* Mutant (StartsAreTold): the loop logs a first failure like any other.
ConnectFailsQuietly(l) ==
    /\ loop[l] = "connecting"
    /\ l \notin cancelled
    /\ Fault
    /\ client' = [client EXCEPT ![mine[l]] = "closed"]
    /\ socketClient' = 0
    /\ loop' = [loop EXCEPT ![l] =
           IF shutdown \/ l \notin connected THEN "ended" ELSE "backoff"]
    /\ UNCHANGED <<shutdown, connected, mine>> /\ LoopUnchanged

\* The first failure ends the loop, a later one is retried.
ConnectFails(l) ==
    /\ loop[l] = "connecting"
    /\ l \notin cancelled
    /\ Fault
    /\ client' = [client EXCEPT ![mine[l]] = "closed"]
    /\ socketClient' = 0
    /\ loop' = [loop EXCEPT ![l] =
           IF shutdown THEN "ended" ELSE IF l \in connected THEN "backoff" ELSE "failed"]
    /\ UNCHANGED <<shutdown, connected, mine>> /\ LoopUnchanged

\* The handshake never ends; slack_sdk loses the connection.
ConnectHangs(l) ==
    /\ loop[l] = "connecting"
    /\ client[mine[l]] = "connecting"
    /\ Fault
    /\ client' = [client EXCEPT ![mine[l]] = "hung"]
    /\ UNCHANGED <<shutdown, loop, connected, mine, socketClient>> /\ LoopUnchanged

Drop(k) ==
    /\ client[k] = "open"
    /\ Fault
    /\ client' = [client EXCEPT ![k] = "dropped"]
    /\ UNCHANGED <<shutdown, tasks, socketClient, callers, history>>

\* The poll of is_connected(), once a second.
Notice(l) ==
    /\ loop[l] = "up"
    /\ l \notin cancelled
    /\ shutdown \/ client[mine[l]] # "open"
    /\ socketClient' = 0
    /\ loop' = [loop EXCEPT ![l] = "closing"]
    /\ UNCHANGED <<shutdown, connected, mine, client, faults>> /\ LoopUnchanged

\* Mutant (Reconnects): the loop takes every disconnect for a shutdown.
CloseForGood(l) ==
    /\ loop[l] = "closing"
    /\ l \notin cancelled
    /\ client' = [client EXCEPT ![mine[l]] = "closed"]
    /\ Unwind(l)
    /\ UNCHANGED <<shutdown, connected, faults>> /\ LoopUnchanged

Close(l) ==
    /\ loop[l] = "closing"
    /\ l \notin cancelled
    /\ client' = [client EXCEPT ![mine[l]] = "closed"]
    /\ \/ shutdown /\ Unwind(l)
       \/ /\ ~shutdown
          /\ loop' = [loop EXCEPT ![l] = "backoff"]
          /\ UNCHANGED <<mine, socketClient>>
    /\ UNCHANGED <<shutdown, connected, faults>> /\ LoopUnchanged

\* A cancelled loop stops where it is: a connect or a disconnect under way is
\* given up, and closes its client.
Cancelled(l) ==
    /\ Running(l)
    /\ l \in cancelled
    /\ \/ loop[l] = "created"
          /\ loop' = [loop EXCEPT ![l] = "ended"]
          /\ UNCHANGED <<mine, clients>>
       \/ /\ loop[l] \in {"connecting", "closing"}
          /\ client' = [client EXCEPT ![mine[l]] = "closed"]
          /\ Unwind(l)
       \/ /\ loop[l] \in {"up", "backoff"}
          /\ Unwind(l)
          /\ UNCHANGED client
    /\ UNCHANGED <<shutdown, connected, faults>> /\ LoopUnchanged

\* The disconnect in the loop's finally.
FinalDisconnect(l) ==
    /\ loop[l] = "final"
    /\ client' = [client EXCEPT ![mine[l]] = IF @ \in {"open", "dropped"} THEN "closed" ELSE @]
    /\ loop' = [loop EXCEPT ![l] = "ended"]
    /\ UNCHANGED <<shutdown, connected, mine, socketClient, faults>> /\ LoopUnchanged

-----------------------------------------------------------------------------
LoopStep(l) == Connect(l) \/ Connected(l) \/ Notice(l) \/ Close(l) \/ Cancelled(l) \/ FinalDisconnect(l)
CallStep(c) == Started(c) \/ TimeIsUp(c) \/ Disconnected(c) \/ Drained(c)

Next ==
    \/ \E c \in Caller : Start(c) \/ Stop(c) \/ CallStep(c)
    \/ \E l \in Loop : LoopStep(l) \/ ConnectFails(l) \/ ConnectHangs(l)
    \/ \E k \in Client : Drop(k)

Step == (\E l \in Loop : LoopStep(l)) \/ (\E c \in Caller : CallStep(c))
Fairness == WF_vars(Step)

Spec == Init /\ [][Next]_vars /\ Fairness

-----------------------------------------------------------------------------
\* Overlapping starts and stops never leave two loops connecting side by side:
\* but for those already cancelled, the only loop is _socket_task.
OneLoop == \A l \in Loop : Running(l) /\ l \notin cancelled => l = socketTask

\* However starts, stops and the loop race, but that no start begins during a
\* stop: when no call is under way, no loop runs but the adapter's and no WebSocket is
\* open but that loop's.
NoOrphans ==
    ~overlap /\ (\A c \in Caller : pc[c] = "idle") =>
        /\ \A l \in Loop : Running(l) => l = socketTask
        /\ \A k \in Client : client[k] \in {"connecting", "hung", "open", "dropped"} =>
               \E l \in Loop : Running(l) /\ mine[l] = k

\* start_socket_mode returns normally only once connected, unless a stop, or
\* a start that found the loop ended, came in between: otherwise its loop has an
\* error to raise and still is the adapter's.
StartsAreTold ==
    \A c \in Caller :
        pc[c] = "starting" /\ ~Running(on[c]) /\ on[c] \notin connected \cup overtaken
            => loop[on[c]] = "failed" /\ on[c] = socketTask

\* One loop with one WebSocket, and starts that return have told the truth.
OneConnection == OneLoop /\ NoOrphans /\ StartsAreTold

\* A start and a stop return, also if the handshake hangs.
CallsReturn == \A c \in Caller : pc[c] # "idle" ~> pc[c] = "idle"

\* A connection that is lost, to slack_sdk or to the end of an earlier loop,
\* comes back, unless the adapter is stopped or the handshake hangs.
Reconnects ==
    \A l \in Loop :
        loop[l] = "up" /\ client[mine[l]] # "open" ~>
            \/ loop[l] = "up" /\ client[mine[l]] = "open"
            \/ \E k \in Client : client[k] = "hung"
            \/ l \in overtaken
=============================================================================
