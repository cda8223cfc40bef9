--------------------------- MODULE ChatLifecycle ---------------------------
(***************************************************************************)
(* A Chat from its first webhook to its shutdown: callers share one        *)
(* attempt to connect the state backend and to initialise the adapters;    *)
(* shutdown() cancels the handlers, disconnects everything and forgets the *)
(* attempt, which may still be running (chat.py, and connect() and         *)
(* disconnect() of the state backends).  One shutdown at a time.           *)
(***************************************************************************)
EXTENDS Integers, FiniteSets

CONSTANTS
    Backend,      \* the state backends, one per behaviour
    Adapter,      \* the chat's adapters
    Caller,       \* webhook calls; each then runs a handler
    MaxAttempts,  \* bound on the attempts to initialise
    MaxShutdowns, \* bound on shutdowns
    MaxFaults     \* bound on failing connections, adapters and shutdowns

ASSUME LifecycleAssumption == MaxAttempts \in Nat

VARIABLES
    backend,
    promise,      \* _init_promise: the current attempt, or 0
    initialized,  \* _initialized
    attempts,     \* how many there were
    attempt,      \* where each is
    adapter,      \* how far an attempt is with the initialize() of an adapter
    connected,    \* the backend's _connected
    pool,         \* its connections
    connectLock,  \* the attempt that is inside connect(), or 0
    owner,        \* the attempt that created the pool, or 0
    caller,       \* "idle", "waiting", "handling", "refused"
    waitsFor,     \* the attempt a caller awaits
    shutdown,     \* where shutdown() is
    doomed,       \* the handlers it waits for
    shutdowns, faults,
    forgotten,    \* history: attempts running when a shutdown ended
    provoked,     \* history: something failed since the last shutdown
    started       \* history: initialize() calls of an adapter since then

state == <<connected, pool, connectLock, owner>>
init == <<promise, initialized, attempts, attempt, adapter>>
callers == <<caller, waitsFor>>
closing == <<shutdown, doomed, shutdowns>>
history == <<forgotten, provoked, started>>
vars == <<backend, init, state, callers, closing, faults, history>>

Attempt == 1 .. MaxAttempts

Init ==
    /\ backend \in Backend
    /\ promise = 0 /\ initialized = FALSE /\ attempts = 0
    /\ attempt = [i \in Attempt |-> "none"]
    /\ adapter = [i \in Attempt |-> [d \in Adapter |-> "none"]]
    /\ connected = FALSE /\ connectLock = 0 /\ owner = 0
    /\ pool = IF backend = "postgres" THEN "none" ELSE "open"
    /\ caller = [c \in Caller |-> "idle"]
    /\ waitsFor = [c \in Caller |-> 0]
    /\ shutdown = "none" /\ doomed = {} /\ shutdowns = 0 /\ faults = 0
    /\ forgotten = {} /\ provoked = FALSE
    /\ started = [d \in Adapter |-> 0]

Fault == faults < MaxFaults /\ faults' = faults + 1

\* An attempt, or one of the initialize() calls it made, is still under way.
Running(i) ==
    \/ attempt[i] \in {"connecting", "probing", "starting"}
    \/ \E d \in Adapter : adapter[i][d] = "starting"

-----------------------------------------------------------------------------
\* _ensure_initialized: callers share the attempt; a handler runs after it.

Call(c) ==
    /\ caller[c] \in {"idle", "refused"}
    /\ ~initialized
    /\ \/ /\ promise # 0
          /\ waitsFor' = [waitsFor EXCEPT ![c] = promise]
          /\ UNCHANGED <<promise, attempts, attempt>>
       \/ /\ promise = 0
          /\ attempts < MaxAttempts
          /\ attempts' = attempts + 1
          /\ promise' = attempts'
          /\ attempt' = [attempt EXCEPT ![attempts'] = "connecting"]
          /\ waitsFor' = [waitsFor EXCEPT ![c] = attempts']
    /\ caller' = [caller EXCEPT ![c] = "waiting"]
    /\ UNCHANGED <<backend, initialized, adapter, state, closing, faults, history>>

CallInitialized(c) ==
    /\ caller[c] \in {"idle", "refused"}
    /\ initialized
    /\ caller' = [caller EXCEPT ![c] = "handling"]
    /\ UNCHANGED <<backend, init, state, waitsFor, closing, faults, history>>

Proceed(c) ==
    /\ caller[c] = "waiting"
    /\ attempt[waitsFor[c]] \in {"done", "failed"}
    /\ caller' = [caller EXCEPT ![c] =
           IF attempt[waitsFor[c]] = "done" THEN "handling" ELSE "refused"]
    /\ waitsFor' = [waitsFor EXCEPT ![c] = 0]
    /\ UNCHANGED <<backend, init, state, closing, faults, history>>

\* Mutant (FailuresAreProvoked): the attempt is awaited without a shield.
CancelsAttempt(c) ==
    /\ caller[c] = "waiting"
    /\ caller' = [caller EXCEPT ![c] = "idle"]
    /\ waitsFor' = [waitsFor EXCEPT ![c] = 0]
    /\ attempt' = [attempt EXCEPT ![waitsFor[c]] = IF @ = "starting" THEN "failed" ELSE @]
    /\ UNCHANGED <<backend, promise, initialized, attempts, adapter, state, closing, faults, history>>

\* A caller is cancelled, say because its webhook request is aborted.
CallerCancelled(c) ==
    /\ caller[c] = "waiting"
    /\ caller' = [caller EXCEPT ![c] = "idle"]
    /\ waitsFor' = [waitsFor EXCEPT ![c] = 0]
    /\ UNCHANGED <<backend, init, state, closing, faults, history>>

HandlerEnds(c) ==
    /\ caller[c] = "handling"
    /\ caller' = [caller EXCEPT ![c] = "idle"]
    /\ doomed' = doomed \ {c}
    /\ UNCHANGED <<backend, init, state, waitsFor, shutdown, shutdowns, faults, history>>

-----------------------------------------------------------------------------
\* _run_init_attempt

\* Mutant (OneCurrentAttempt): a failure forgets whatever attempt is current.
ForgetCurrent(i) == promise' = 0

\* A failure to connect is forgotten, so that the next caller retries.
Forget(i) == promise' = IF promise = i THEN 0 ELSE promise

\* connect() returns at once if connected, checked again under the lock; the
\* memory backend has nothing to wait for.
Connect(i) ==
    /\ attempt[i] = "connecting"
    /\ \/ /\ connected \/ backend = "memory"
          /\ connected' = TRUE
          /\ attempt' = [attempt EXCEPT ![i] = "starting"]
          /\ adapter' = [adapter EXCEPT ![i] = [d \in Adapter |-> "starting"]]
          /\ started' = [d \in Adapter |-> started[d] + 1]
          /\ UNCHANGED <<pool, connectLock, owner>>
       \/ /\ ~connected /\ backend # "memory"
          /\ connectLock = 0
          /\ connectLock' = i
          /\ attempt' = [attempt EXCEPT ![i] = "probing"]
          /\ owner' = IF pool = "none" THEN i ELSE 0
          /\ pool' = IF pool = "none" THEN "open" ELSE pool
          /\ UNCHANGED <<connected, adapter, started>>
    /\ UNCHANGED <<backend, promise, initialized, attempts, callers, closing, faults,
                   forgotten, provoked>>

\* A ping, or the schema of Postgres.
Probe(i) ==
    /\ attempt[i] = "probing"
    /\ pool = "open"
    /\ connected' = TRUE
    /\ connectLock' = 0
    /\ attempt' = [attempt EXCEPT ![i] = "starting"]
    /\ adapter' = [adapter EXCEPT ![i] = [d \in Adapter |-> "starting"]]
    /\ started' = [d \in Adapter |-> started[d] + 1]
    /\ UNCHANGED <<backend, promise, initialized, attempts, pool, owner, callers, closing,
                   faults, forgotten, provoked>>

\* Mutant (PoolsAreDiscarded): the pool of a failed attempt is kept.
ProbeFailsLeaking(i) ==
    /\ attempt[i] = "probing"
    /\ \/ pool # "open" /\ UNCHANGED <<faults, provoked>>
       \/ pool = "open" /\ Fault /\ provoked' = TRUE
    /\ connectLock' = 0
    /\ attempt' = [attempt EXCEPT ![i] = "failed"]
    /\ Forget(i)
    /\ UNCHANGED <<backend, initialized, attempts, adapter, connected, pool, owner, callers,
                   closing, forgotten, started>>

\* Mutant (CallersSettle): the lock is not released.
ProbeFailsLocked(i) ==
    /\ attempt[i] = "probing"
    /\ \/ pool # "open" /\ UNCHANGED <<faults, provoked>>
       \/ pool = "open" /\ Fault /\ provoked' = TRUE
    /\ attempt' = [attempt EXCEPT ![i] = "failed"]
    /\ pool' = IF owner = i THEN "none" ELSE pool
    /\ Forget(i)
    /\ UNCHANGED <<backend, initialized, attempts, adapter, connected, connectLock, owner,
                   callers, closing, forgotten, started>>

\* A pool that has been closed never answers.  A pool this attempt created is
\* discarded.
ProbeFails(i) ==
    /\ attempt[i] = "probing"
    /\ \/ pool # "open" /\ UNCHANGED <<faults, provoked>>
       \/ pool = "open" /\ Fault /\ provoked' = TRUE
    /\ connectLock' = 0
    /\ attempt' = [attempt EXCEPT ![i] = "failed"]
    /\ pool' = IF owner = i THEN "none" ELSE pool
    /\ Forget(i)
    /\ UNCHANGED <<backend, initialized, attempts, adapter, connected, owner, callers, closing,
                   forgotten, started>>

-----------------------------------------------------------------------------
\* _do_initialize: the adapters start side by side, and the first that fails
\* ends the attempt, whose promise stays; the others go on.

AdapterStarts(i, d) ==
    /\ adapter[i][d] = "starting"
    /\ adapter' = [adapter EXCEPT ![i][d] = "up"]
    /\ UNCHANGED <<backend, promise, initialized, attempts, attempt, state, callers, closing,
                   faults, history>>

\* Mutant (AdaptersStartOnce): the next caller tries again.
AdapterFailsForgotten(i, d) ==
    /\ adapter[i][d] = "starting"
    /\ Fault
    /\ provoked' = TRUE
    /\ adapter' = [adapter EXCEPT ![i][d] = "failed"]
    /\ attempt' = [attempt EXCEPT ![i] = "failed"]
    /\ Forget(i)
    /\ UNCHANGED <<backend, initialized, attempts, state, callers, closing, forgotten, started>>

AdapterFails(i, d) ==
    /\ adapter[i][d] = "starting"
    /\ Fault
    /\ provoked' = TRUE
    /\ adapter' = [adapter EXCEPT ![i][d] = "failed"]
    /\ attempt' = [attempt EXCEPT ![i] = "failed"]
    /\ UNCHANGED <<backend, promise, initialized, attempts, state, callers, closing, forgotten,
                   started>>

Initialized(i) ==
    /\ attempt[i] = "starting"
    /\ \A d \in Adapter : adapter[i][d] = "up"
    /\ attempt' = [attempt EXCEPT ![i] = "done"]
    /\ initialized' = TRUE
    /\ UNCHANGED <<backend, promise, attempts, adapter, state, callers, closing, faults, history>>

-----------------------------------------------------------------------------
\* shutdown

BeginShutdown ==
    /\ shutdown = "none"
    /\ shutdowns < MaxShutdowns
    /\ shutdowns' = shutdowns + 1
    /\ shutdown' = "cancelling"
    /\ doomed' = {c \in Caller : caller[c] = "handling"}
    /\ UNCHANGED <<backend, init, state, callers, faults, history>>

\* Once the cancelled handlers have ended, adapters are disconnected; one that
\* fails to is passed over.
AdaptersDisconnect ==
    /\ shutdown = "cancelling"
    /\ doomed = {}
    /\ shutdown' = "adapters"
    /\ UNCHANGED <<backend, init, state, callers, doomed, shutdowns, faults, history>>

\* Mutant (InitializedIsConnected): the flag of the chat is left alone.
ShutdownEndsInitialized ==
    /\ shutdown = "adapters"
    /\ connected' = FALSE
    /\ pool' = IF connected /\ backend = "postgres" THEN "closed" ELSE pool
    /\ UNCHANGED initialized
    /\ promise' = 0
    /\ shutdown' = "none"
    /\ forgotten' = {i \in Attempt : Running(i)}
    /\ provoked' = FALSE
    /\ started' = [d \in Adapter |-> 0]
    /\ UNCHANGED <<backend, attempts, attempt, adapter, connectLock, owner, callers, doomed,
                   shutdowns, faults>>

\* A backend that is not connected has nothing to close.  A Redis client opens
\* new connections when it is used again, a closed pool of Postgres does not.
ShutdownEnds ==
    /\ shutdown = "adapters"
    /\ connected' = FALSE
    /\ pool' = IF connected /\ backend = "postgres" THEN "closed" ELSE pool
    /\ initialized' = FALSE
    /\ promise' = 0
    /\ shutdown' = "none"
    /\ forgotten' = {i \in Attempt : Running(i)}
    /\ provoked' = FALSE
    /\ started' = [d \in Adapter |-> 0]
    /\ UNCHANGED <<backend, attempts, attempt, adapter, connectLock, owner, callers, doomed,
                   shutdowns, faults>>

\* The backend cannot be closed: nothing is reset.
ShutdownFails ==
    /\ shutdown = "adapters"
    /\ connected /\ backend # "memory"
    /\ Fault
    /\ provoked' = TRUE
    /\ pool' = IF backend = "postgres" THEN "closed" ELSE pool
    /\ shutdown' = "none"
    /\ UNCHANGED <<backend, init, connected, connectLock, owner, callers, doomed, shutdowns,
                   forgotten, started>>

-----------------------------------------------------------------------------
AttemptStep(i) == Connect(i) \/ Probe(i) \/ ProbeFails(i) \/ Initialized(i)
AdapterAnswers(i, d) == AdapterStarts(i, d) \/ AdapterFails(i, d)
ShutdownStep == AdaptersDisconnect \/ ShutdownEnds \/ ShutdownFails

Next ==
    \/ \E c \in Caller :
        Call(c) \/ CallInitialized(c) \/ Proceed(c) \/ CallerCancelled(c) \/ HandlerEnds(c)
    \/ \E i \in Attempt :
        AttemptStep(i) \/ \E d \in Adapter : AdapterAnswers(i, d)
    \/ BeginShutdown \/ ShutdownStep

\* Connections and adapters answer, one way or the other.
Fairness ==
    /\ \A c \in Caller : WF_vars(Proceed(c))
    /\ \A i \in Attempt : WF_vars(AttemptStep(i))
    /\ \A i \in Attempt, d \in Adapter : WF_vars(AdapterAnswers(i, d))

Spec == Init /\ [][Next]_vars /\ Fairness

-----------------------------------------------------------------------------
\* An initialised chat has a connected backend, unless a shutdown has passed
\* over an attempt that was still running.
InitializedIsConnected == initialized /\ forgotten = {} => connected

\* However often connections fail and shutdowns come between, no two attempts
\* run but those a shutdown has left behind.
OneCurrentAttempt ==
    Cardinality({i \in Attempt \ forgotten :
                     attempt[i] \in {"connecting", "probing", "starting"}}) <= 1

\* Between two shutdowns no adapter is initialised twice, whatever failed.
AdaptersStartOnce == forgotten = {} => \A d \in Adapter : started[d] <= 1

\* Between two shutdowns an attempt fails only if something has failed, never
\* because a caller was cancelled.  Closed pools are the next property's.
FailuresAreProvoked ==
    [][\A i \in Attempt :
           attempt[i] # "failed" /\ attempt'[i] = "failed"
               => provoked' \/ i \in forgotten \/ pool = "closed"]_vars

\* "An adapter initialize() failure stays cached and is re-raised to every
\* caller until shutdown() clears it" (docs/UPSTREAM_SYNC.md): after a shutdown
\* the chat can be initialised again.
ShutdownClearsFailures ==
    [][\A i \in Attempt :
           attempt[i] # "failed" /\ attempt'[i] = "failed" => provoked' \/ i \in forgotten]_vars

\* A pool of connections does not outlive the attempt that opened it, unless
\* the backend is connected.
PoolsAreDiscarded ==
    backend = "postgres" /\ ~connected /\ connectLock = 0 => pool # "open"

\* Attempts, their adapters and their connections do not get into each other's
\* way, whatever fails and whenever the chat is shut down.
AttemptsDoNotCross ==
    InitializedIsConnected /\ OneCurrentAttempt /\ AdaptersStartOnce /\ PoolsAreDiscarded

\* Whoever waits for an attempt is served or refused, also if the attempt has
\* been left behind.
CallersSettle == \A c \in Caller : caller[c] = "waiting" ~> caller[c] # "waiting"
=============================================================================
