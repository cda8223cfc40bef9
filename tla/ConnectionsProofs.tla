-------------------------- MODULE ConnectionsProofs --------------------------
(***************************************************************************)
(* What holds of a chat and its connections for every set of adapters and  *)
(* callers, and any number of attempts, calls and failures: of             *)
(* ChatLifecycle, and of SocketMode, SlackDelivery, SpaceSubscriptions and *)
(* TokenCache as MCConnections runs them.                                  *)
(***************************************************************************)
EXTENDS MCConnections, Sequences, FiniteSetTheorems, TLAPS

Phase == {"connecting", "probing", "starting"}
Progress == {"none", "starting", "up", "failed"}

\* The shape of what the properties depend on.
LifecycleTypeOK ==
    /\ attempts \in 0 .. MaxAttempts /\ promise \in 0 .. attempts
    /\ attempt \in [Attempt -> Phase \cup {"none", "done", "failed"}]
    /\ adapter \in [Attempt -> [Adapter -> Progress]]
    /\ started \in [Adapter -> Nat]
    /\ connected \in BOOLEAN /\ initialized \in BOOLEAN
    /\ forgotten \subseteq Attempt

\* An attempt that is under way is the one callers are given, unless a shutdown
\* has left it behind; one that has not begun has started nothing.
CurrentIsPromised ==
    /\ \A i \in Attempt : attempt[i] \in Phase /\ i \notin forgotten => i = promise
    /\ \A i \in Attempt : i > attempts => attempt[i] = "none"
    /\ \A i \in Attempt, d \in Adapter :
           attempt[i] \in {"none", "connecting", "probing"} => adapter[i][d] = "none"

\* Only an attempt that has a connection starts adapters.
StartingIsConnected == \A i \in Attempt \ forgotten : attempt[i] = "starting" => connected

\* Adapters that were started were so by the current attempt, which is kept.
StartedIsKept ==
    forgotten = {} =>
        \A d \in Adapter : /\ started[d] <= 1
                           /\ started[d] = 1 => /\ promise # 0
                                                /\ attempt[promise] \in {"starting", "done", "failed"}

\* connect() is exclusive, and the pool it opens is its caller's.
ConnectIsExclusive ==
    /\ \A i \in Attempt : attempt[i] = "probing" <=> connectLock = i
    /\ connectLock \in Attempt \cup {0}
    /\ connectLock # 0 => backend # "memory"
    /\ backend = "postgres" /\ ~connected /\ pool = "open"
           => connectLock # 0 /\ owner = connectLock

LifecycleInv ==
    /\ LifecycleTypeOK /\ CurrentIsPromised /\ StartingIsConnected /\ StartedIsKept
    /\ ConnectIsExclusive /\ InitializedIsConnected

-----------------------------------------------------------------------------
\* What happens to the table of adapters: none has begun, all those of an attempt
\* are started, one of them answers.
LEMMA NoneStarted ==
    [i \in Attempt |-> [d \in Adapter |-> "none"]] \in [Attempt -> [Adapter -> Progress]]
<1>1. [d \in Adapter |-> "none"] \in [Adapter -> Progress]
  BY DEF Progress
<1>2. QED
  BY <1>1

LEMMA AllStarted ==
    ASSUME adapter \in [Attempt -> [Adapter -> Progress]], NEW i \in Attempt
    PROVE  [adapter EXCEPT ![i] = [d \in Adapter |-> "starting"]]
               \in [Attempt -> [Adapter -> Progress]]
<1>1. [d \in Adapter |-> "starting"] \in [Adapter -> Progress]
  BY DEF Progress
<1>2. QED
  BY <1>1

LEMMA OneAnswered ==
    ASSUME adapter \in [Attempt -> [Adapter -> Progress]],
           NEW i \in Attempt, NEW d \in Adapter, NEW v \in Progress
    PROVE  /\ [adapter EXCEPT ![i][d] = v] \in [Attempt -> [Adapter -> Progress]]
           /\ \A k \in Attempt, l \in Adapter :
                  [adapter EXCEPT ![i][d] = v][k][l] = IF k = i /\ l = d THEN v ELSE adapter[k][l]
<1>1. [adapter[i] EXCEPT ![d] = v] \in [Adapter -> Progress]
  OBVIOUS
<1>2. [adapter EXCEPT ![i][d] = v] = [adapter EXCEPT ![i] = [adapter[i] EXCEPT ![d] = v]]
  OBVIOUS
<1>3. QED
  BY <1>1, <1>2

LEMMA LifecycleInitially == Init => LifecycleInv
<1> SUFFICES ASSUME Init
             PROVE  LifecycleInv
  OBVIOUS
<1>a. adapter \in [Attempt -> [Adapter -> Progress]]
  BY NoneStarted DEF Init
<1> USE LifecycleAssumption DEF Init, Attempt, Phase
<1>1. LifecycleTypeOK
  <2>1. attempts \in 0 .. MaxAttempts /\ promise \in 0 .. attempts
    OBVIOUS
  <2>2. attempt \in [Attempt -> Phase \cup {"none", "done", "failed"}]
    OBVIOUS
  <2>3. started \in [Adapter -> Nat] /\ forgotten \subseteq Attempt
    OBVIOUS
  <2>4. connected \in BOOLEAN /\ initialized \in BOOLEAN
    OBVIOUS
  <2>5. QED
    BY <1>a, <2>1, <2>2, <2>3, <2>4 DEF LifecycleTypeOK
<1>2. CurrentIsPromised
  BY DEF CurrentIsPromised
<1>3. StartingIsConnected /\ StartedIsKept /\ InitializedIsConnected
  BY DEF StartingIsConnected, StartedIsKept, InitializedIsConnected
<1>4. ConnectIsExclusive
  BY DEF ConnectIsExclusive
<1>5. QED
  BY <1>1, <1>2, <1>3, <1>4 DEF LifecycleInv

\* Every step of a caller, an attempt, an adapter and of shutdown() keeps it.
LEMMA LifecycleStep == LifecycleInv /\ [Next]_vars => LifecycleInv'
<1> SUFFICES ASSUME LifecycleInv, [Next]_vars
             PROVE  LifecycleInv'
  OBVIOUS
<1>a. \A i \in Attempt :
          [adapter EXCEPT ![i] = [d \in Adapter |-> "starting"]] \in [Attempt -> [Adapter -> Progress]]
  BY AllStarted DEF LifecycleInv, LifecycleTypeOK
<1>b. \A i \in Attempt, d \in Adapter, v \in Progress :
          LET after == [adapter EXCEPT ![i][d] = v]
          IN  /\ after \in [Attempt -> [Adapter -> Progress]]
              /\ \A k \in Attempt, l \in Adapter :
                     after[k][l] = IF k = i /\ l = d THEN v ELSE adapter[k][l]
  BY OneAnswered DEF LifecycleInv, LifecycleTypeOK
<1>c. {"up", "failed"} \subseteq Progress
  BY DEF Progress
<1> USE LifecycleAssumption
        DEF LifecycleInv, LifecycleTypeOK, CurrentIsPromised, StartingIsConnected, StartedIsKept,
            ConnectIsExclusive, InitializedIsConnected, Attempt, Phase
<1>1. ASSUME NEW c \in Caller, Call(c)
      PROVE  LifecycleInv'
  <2>1. CASE promise # 0 /\ UNCHANGED <<promise, attempts, attempt>>
    BY <1>1, <2>1 DEF Call, state, history
  <2>2. CASE /\ promise = 0 /\ attempts < MaxAttempts /\ attempts' = attempts + 1
             /\ promise' = attempts' /\ attempt' = [attempt EXCEPT ![attempts'] = "connecting"]
    BY <1>1, <2>2 DEF Call, state, history
  <2>3. QED
    BY <1>1, <2>1, <2>2 DEF Call
<1>2. ASSUME NEW c \in Caller,
             CallInitialized(c) \/ Proceed(c) \/ CallerCancelled(c) \/ HandlerEnds(c)
      PROVE  LifecycleInv'
  <2>1. UNCHANGED <<backend, init, state, history>>
    BY <1>2 DEF CallInitialized, Proceed, CallerCancelled, HandlerEnds
  <2>2. QED
    BY <2>1 DEF init, state, history
<1>3. ASSUME NEW i \in Attempt, Connect(i)
      PROVE  LifecycleInv'
  <2>1. CASE /\ connected \/ backend = "memory"
             /\ attempt' = [attempt EXCEPT ![i] = "starting"]
    <3>1. LifecycleTypeOK'
      <4>1. adapter' \in [Attempt -> [Adapter -> Progress]]
        BY <1>3, <2>1, <1>a DEF Connect
      <4>2. started' \in [Adapter -> Nat]
        BY <1>3, <2>1 DEF Connect
      <4>3. attempt' \in [Attempt -> Phase \cup {"none", "done", "failed"}]
        BY <1>3, <2>1 DEF Connect
      <4>4. UNCHANGED <<attempts, promise, forgotten, initialized>> /\ connected' \in BOOLEAN
        BY <1>3, <2>1 DEF Connect
      <4>5. QED
        BY <4>1, <4>2, <4>3, <4>4
    <3>2. CurrentIsPromised'
      BY <1>3, <2>1 DEF Connect
    <3>3. StartingIsConnected'
      BY <1>3, <2>1 DEF Connect
    <3>4. StartedIsKept'
      BY <1>3, <2>1 DEF Connect
    <3>5. ConnectIsExclusive'
      BY <1>3, <2>1 DEF Connect
    <3>6. InitializedIsConnected'
      BY <1>3, <2>1 DEF Connect
    <3>7. QED
      BY <3>1, <3>2, <3>3, <3>4, <3>5, <3>6
  <2>2. CASE attempt' = [attempt EXCEPT ![i] = "probing"]
    BY <1>3, <2>2 DEF Connect
  <2>3. QED
    BY <1>3, <2>1, <2>2 DEF Connect
<1>4. ASSUME NEW i \in Attempt, Probe(i)
      PROVE  LifecycleInv'
  <2>1. LifecycleTypeOK'
    <3>1. adapter' \in [Attempt -> [Adapter -> Progress]]
      BY <1>4, <1>a DEF Probe
    <3>2. started' \in [Adapter -> Nat]
      BY <1>4 DEF Probe
    <3>3. attempt' \in [Attempt -> Phase \cup {"none", "done", "failed"}]
      BY <1>4 DEF Probe
    <3>4. UNCHANGED <<attempts, promise, forgotten, initialized>> /\ connected' \in BOOLEAN
      BY <1>4 DEF Probe
    <3>5. QED
      BY <3>1, <3>2, <3>3, <3>4
  <2>2. CurrentIsPromised' /\ StartingIsConnected'
    BY <1>4 DEF Probe
  <2>3. StartedIsKept'
    BY <1>4 DEF Probe
  <2>4. ConnectIsExclusive' /\ InitializedIsConnected'
    BY <1>4 DEF Probe
  <2>5. QED
    BY <2>1, <2>2, <2>3, <2>4
<1>5. ASSUME NEW i \in Attempt, ProbeFails(i)
      PROVE  LifecycleInv'
  BY <1>5 DEF ProbeFails, Forget
<1>6. ASSUME NEW i \in Attempt, Initialized(i)
      PROVE  LifecycleInv'
  BY <1>6 DEF Initialized, state, history
<1>7. ASSUME NEW i \in Attempt, NEW d \in Adapter, AdapterStarts(i, d) \/ AdapterFails(i, d)
      PROVE  LifecycleInv'
  <2>1. PICK v \in {"up", "failed"} : adapter' = [adapter EXCEPT ![i][d] = v]
    BY <1>7 DEF AdapterStarts, AdapterFails
  <2>2. /\ adapter' \in [Attempt -> [Adapter -> Progress]]
        /\ \A k \in Attempt, l \in Adapter :
               adapter'[k][l] = IF k = i /\ l = d THEN v ELSE adapter[k][l]
    BY <1>b, <1>c, <2>1
  <2>3. /\ adapter[i][d] = "starting"
        /\ attempt' \in {attempt, [attempt EXCEPT ![i] = "failed"]}
        /\ UNCHANGED <<backend, promise, initialized, attempts, connected, pool, connectLock, owner,
                       forgotten, started>>
    BY <1>7 DEF AdapterStarts, AdapterFails, state, history
  <2> HIDE <2>1
  <2>4. attempt[i] \notin {"none", "connecting", "probing"} /\ i <= attempts
    BY <2>3
  <2>5. LifecycleTypeOK' /\ StartingIsConnected' /\ InitializedIsConnected'
    BY <2>2, <2>3
  <2>6. CurrentIsPromised'
    BY <2>2, <2>3, <2>4
  <2>7. StartedIsKept' /\ ConnectIsExclusive'
    BY <2>3, <2>4
  <2>8. QED
    BY <2>5, <2>6, <2>7
<1>8. CASE BeginShutdown \/ AdaptersDisconnect \/ UNCHANGED vars
  <2>1. UNCHANGED <<backend, init, state, history>>
    BY <1>8 DEF BeginShutdown, AdaptersDisconnect, vars
  <2>2. QED
    BY <2>1 DEF init, state, history
<1>9. CASE ShutdownEnds
  <2>1. LifecycleTypeOK'
    <3>1. started' \in [Adapter -> Nat] /\ forgotten' \subseteq Attempt
      BY <1>9 DEF ShutdownEnds
    <3>2. connected' \in BOOLEAN /\ initialized' \in BOOLEAN
      BY <1>9 DEF ShutdownEnds
    <3>3. UNCHANGED <<attempts, attempt, adapter>> /\ promise' \in 0 .. attempts'
      BY <1>9 DEF ShutdownEnds
    <3>4. QED
      BY <3>1, <3>2, <3>3
  <2>2. CurrentIsPromised'
    BY <1>9 DEF ShutdownEnds, Running
  <2>3. StartingIsConnected'
    BY <1>9 DEF ShutdownEnds, Running
  <2>4. StartedIsKept'
    BY <1>9 DEF ShutdownEnds, Running
  <2>5. ConnectIsExclusive'
    BY <1>9 DEF ShutdownEnds, Running
  <2>6. InitializedIsConnected'
    BY <1>9 DEF ShutdownEnds, Running
  <2>7. QED
    BY <2>1, <2>2, <2>3, <2>4, <2>5, <2>6
<1>10. CASE ShutdownFails
  BY <1>10 DEF ShutdownFails, init
<1>11. QED
  BY <1>1, <1>2, <1>3, <1>4, <1>5, <1>6, <1>7, <1>8, <1>9, <1>10
     DEF Next, AttemptStep, AdapterAnswers, ShutdownStep

\* At most one attempt is under way but for those a shutdown has left behind:
\* each is the one that callers are given.
LEMMA OneIsPromised == LifecycleInv => OneCurrentAttempt
<1> SUFFICES ASSUME LifecycleInv
             PROVE  OneCurrentAttempt
  OBVIOUS
<1> DEFINE Current == {i \in Attempt \ forgotten : attempt[i] \in {"connecting", "probing", "starting"}}
<1>1. Current \subseteq {promise}
  BY DEF LifecycleInv, CurrentIsPromised, Phase
<1>2. IsFiniteSet({promise}) /\ Cardinality({promise}) = 1
  BY FS_Singleton
<1>3. Cardinality(Current) <= 1
  BY <1>1, <1>2, FS_Subset
<1>4. QED
  BY <1>3 DEF OneCurrentAttempt

\* Whatever fails, whoever is cancelled and whenever the chat is shut down: an
\* initialised chat has a backend, adapters start once, attempts run one at a time,
\* and no pool of connections is left open by one that failed.
THEOREM LifecycleIsSafe == Spec => []AttemptsDoNotCross
<1>1. LifecycleInv => AttemptsDoNotCross
  BY OneIsPromised
     DEF LifecycleInv, AttemptsDoNotCross, AdaptersStartOnce, PoolsAreDiscarded, StartedIsKept,
         ConnectIsExclusive
<1>2. QED
  BY <1>1, LifecycleInitially, LifecycleStep, PTL DEF Spec

-----------------------------------------------------------------------------
\* Socket Mode

Connecting == {"connecting", "hung"}
Live == Connecting \cup {"open", "dropped"}

Stages == {"none", "created", "connecting", "up", "closing", "backoff", "final", "ended", "failed"}
CallStages == {"idle", "starting", "disconnecting", "draining"}

\* The loops there have been.
Made == {l \in Socket!Loop : socket_loop[l] # "none"}

SocketTypes ==
    /\ socket_calls \in 0 .. MaxCalls
    /\ socket_socketTask \in 0 .. socket_calls
    /\ socket_socketClient \in 0 .. MaxClients
    /\ socket_loop \in [Socket!Loop -> Stages]
    /\ socket_cancelled \in SUBSET Made /\ socket_connected \in SUBSET Made
    /\ socket_socketTask # 0 => socket_socketTask \in Made
    /\ \A l \in Socket!Loop : l > socket_calls => l \notin Made
    /\ socket_mine \in [Socket!Loop -> 0 .. MaxClients]
    /\ socket_client \in [Socket!Client -> {"none", "closed"} \cup Live]
    /\ socket_pc \in [SocketCaller -> CallStages]
    /\ socket_on \in [SocketCaller -> Nat]
    /\ \A c \in SocketCaller :
           /\ socket_pc[c] \in {"starting", "draining"} => socket_on[c] \in Made
           /\ socket_pc[c] = "disconnecting" => socket_on[c] \in Socket!Client

\* The adapter's loop is the only one that was not overtaken; and one that was
\* not neither was cancelled nor has ended but by failing.
OvertakenAreKnown ==
    /\ \A l \in Made : l \notin socket_overtaken =>
           l = socket_socketTask /\ l \notin socket_cancelled
                 /\ socket_loop[l] \notin {"final", "ended"}
    /\ socket_shutdown /\ socket_socketTask # 0 => socket_socketTask \in socket_overtaken

\* Whoever cancels a loop waits for its end.
CancelledAreAwaited ==
    \A l \in Socket!Loop : Socket!Running(l) /\ l \in socket_cancelled =>
        \E c \in SocketCaller : socket_pc[c] = "draining" /\ socket_on[c] = l

\* A loop and the client it made.
LoopsHaveTheirClients ==
    \A l \in Socket!Loop :
        /\ socket_loop[l] \in {"none", "created"} => socket_mine[l] = 0
        /\ socket_loop[l] \in {"connecting", "up", "closing", "backoff", "final"} =>
              socket_mine[l] \in Socket!Client
        /\ socket_loop[l] = "backoff" => socket_client[socket_mine[l]] = "closed"
        /\ socket_loop[l] \in {"up", "final"} =>
              socket_client[socket_mine[l]] \in {"open", "dropped", "closed"}

\* The adapter's client is that of a loop that is connecting or up; a connection
\* that is being made is a loop's.
ClientsHaveTheirLoops ==
    /\ socket_socketClient # 0 =>
           \E l \in Socket!Loop : socket_loop[l] \in {"connecting", "up"}
                 /\ socket_mine[l] = socket_socketClient
    /\ \A k \in Socket!Client : socket_client[k] \in Connecting =>
           \E l \in Socket!Loop : socket_loop[l] = "connecting" /\ socket_mine[l] = k

\* Who is on the way to disconnect a client.
Disconnecting(k) == \E c \in SocketCaller : socket_pc[c] = "disconnecting" /\ socket_on[c] = k

\* What may be open has a loop to close it, or a stop does; and a loop that may
\* leave it open when cancelled leaves it to the adapter or to a stop.
OpenIsOwned ==
    /\ \A k \in Socket!Client : socket_client[k] \in Live =>
           (\E l \in Socket!Loop : Socket!Running(l) /\ socket_mine[l] = k) \/ Disconnecting(k)
    /\ \A l \in Socket!Loop : socket_loop[l] = "up" \/ (socket_loop[l] = "connecting"
          /\ l \notin socket_cancelled) =>
           socket_socketClient = socket_mine[l] \/ Disconnecting(socket_mine[l])
                 \/ socket_client[socket_mine[l]] = "closed"

OneRuns == \A l, m \in Socket!Loop : Socket!Running(l) /\ Socket!Running(m) => l = m

ApartInv == OneRuns /\ LoopsHaveTheirClients /\ ClientsHaveTheirLoops /\ OpenIsOwned

SocketInv ==
    /\ SocketTypes /\ Socket!OneLoop /\ OvertakenAreKnown /\ CancelledAreAwaited
    /\ ~socket_overlap => ApartInv

LEMMA SocketInit == Socket!Init => SocketInv
BY ConnectionsAssumption DEF Stages, CallStages, Socket!Init, SocketInv, SocketTypes,
                        Socket!OneLoop, OvertakenAreKnown, CancelledAreAwaited,
   ApartInv, OneRuns, LoopsHaveTheirClients, ClientsHaveTheirLoops, OpenIsOwned, Made,
         Socket!Running,
   Socket!Loop, Socket!Client, Live, Connecting, Disconnecting

\* What a loop's own step leaves alone: no loop begins or is cancelled by it.
LEMMA LoopStepsAreTheirOwn ==
    ASSUME SocketTypes, NEW l \in Socket!Loop, Socket!LoopStep(l) \/ Socket!ConnectFails(l)
          \/ Socket!ConnectHangs(l)
    PROVE  /\ Socket!Running(l)
           /\ \A m \in Socket!Loop : m # l => socket_loop'[m] = socket_loop[m]
                 /\ socket_mine'[m] = socket_mine[m]
           /\ socket_loop'[l] # "none"
           /\ UNCHANGED <<socket_socketTask, socket_cancelled, Socket!callers, Socket!history,
                 socket_shutdown>>
<1>1. /\ DOMAIN socket_loop = Socket!Loop /\ DOMAIN socket_mine = Socket!Loop
      /\ l # 0
  BY DEF SocketTypes, Socket!Loop
<1>2. CASE Socket!Connect(l)
  BY <1>1, <1>2 DEF Socket!Connect, Socket!LoopUnchanged, Socket!Unwind, Socket!Running
<1>3. CASE Socket!Connected(l) \/ Socket!Notice(l)
  BY <1>1, <1>3 DEF Socket!Connected, Socket!Notice, Socket!LoopUnchanged, Socket!Running
<1>4. CASE Socket!Close(l)
  BY <1>1, <1>4 DEF Socket!Close, Socket!LoopUnchanged, Socket!Unwind, Socket!Running
<1>5. CASE Socket!Cancelled(l)
  BY <1>1, <1>5 DEF Socket!Cancelled, Socket!LoopUnchanged, Socket!Unwind,
                    Socket!Running, Socket!clients
<1>6. CASE Socket!FinalDisconnect(l)
  BY <1>1, <1>6 DEF Socket!FinalDisconnect, Socket!LoopUnchanged, Socket!Running
<1>7. CASE Socket!ConnectFails(l)
  BY <1>1, <1>7 DEF Socket!ConnectFails, Socket!LoopUnchanged, Socket!Running
<1>8. CASE Socket!ConnectHangs(l)
  BY <1>1, <1>8 DEF Socket!ConnectHangs, Socket!LoopUnchanged, Socket!Running
<1>9. QED
  BY <1>2, <1>3, <1>4, <1>5, <1>6, <1>7, <1>8 DEF Socket!LoopStep

LEMMA NewClientIsFresh == Socket!Fresh # {} => Socket!NewClient \in Socket!Client
      /\ socket_client[Socket!NewClient] = "none"
BY DEF Socket!Fresh, Socket!NewClient

\* A call's step: the loops stay, the call waits for a loop or a client there is.
LEMMA CallsKeepTypes ==
    ASSUME SocketTypes, NEW c \in SocketCaller, socket_calls' \in {socket_calls,
          socket_calls + 1}, socket_calls' \in 0 .. MaxCalls,
           UNCHANGED <<socket_loop, socket_connected, socket_mine>>,
           socket_socketTask' \in {0, socket_socketTask}, socket_socketClient' \in {0,
                 socket_socketClient},
           socket_cancelled' \in {socket_cancelled, socket_cancelled \cup {socket_socketTask}},
           socket_socketTask = 0 => socket_cancelled' = socket_cancelled,
           socket_client' \in [Socket!Client -> {"none", "closed"} \cup Live],
           NEW p \in CallStages, NEW w \in Nat,
           socket_pc' = [socket_pc EXCEPT ![c] = p], socket_on' = [socket_on EXCEPT ![c] = w],
           p \in {"starting", "draining"} => w \in Made, p = "disconnecting" => w \in Socket!Client
    PROVE  SocketTypes'
<1>1. Made' = Made
  BY DEF Made
<1>2. /\ socket_calls \in Nat /\ socket_socketTask \in Nat
      /\ socket_calls' \in 0 .. MaxCalls /\ socket_socketTask' \in 0 .. socket_calls'
      /\ socket_socketClient' \in 0 .. MaxClients
  BY ConnectionsAssumption DEF SocketTypes
<1>3. /\ socket_loop' \in [Socket!Loop -> Stages]
      /\ socket_cancelled' \in SUBSET Made /\ socket_connected' \in SUBSET Made
      /\ socket_socketTask' # 0 => socket_socketTask' \in Made
      /\ socket_mine' \in [Socket!Loop -> 0 .. MaxClients]
  BY DEF SocketTypes
<1>4. \A l \in Socket!Loop : l > socket_calls' => l \notin Made
  BY <1>2 DEF SocketTypes, Socket!Loop
<1>5. /\ socket_pc' \in [SocketCaller -> CallStages]
      /\ socket_on' \in [SocketCaller -> Nat]
  BY DEF SocketTypes
<1>6. \A d \in SocketCaller :
       /\ socket_pc'[d] \in {"starting", "draining"} => socket_on'[d] \in Made
       /\ socket_pc'[d] = "disconnecting" => socket_on'[d] \in Socket!Client
  BY DEF SocketTypes
<1>7. QED
  BY <1>1, <1>2, <1>3, <1>4, <1>5, <1>6 DEF SocketTypes, Socket!Loop, Socket!Client

LEMMA StepTypes == SocketTypes /\ [Socket!Next]_Socket!vars => SocketTypes'
<1> SUFFICES ASSUME SocketTypes, [Socket!Next]_Socket!vars PROVE SocketTypes'
  OBVIOUS
<1>0. /\ socket_calls \in Nat /\ socket_calls \in 0 .. MaxCalls /\ MaxCalls \in Nat
      /\ socket_socketClient # 0 => socket_socketClient \in Socket!Client
      /\ socket_socketTask # 0 => socket_socketTask \in Made
      /\ Made \subseteq Nat /\ Socket!Client \subseteq Nat
      /\ socket_client \in [Socket!Client -> {"none", "closed"} \cup Live]
  BY ConnectionsAssumption DEF SocketTypes, Socket!Client, Made, Socket!Loop
<1>1. ASSUME NEW c \in SocketCaller, Socket!Start(c)
      PROVE  SocketTypes'
  <2>1. socket_calls' \in 1 .. MaxCalls /\ socket_calls' = socket_calls + 1
            /\ socket_socketTask' = socket_calls'
    BY <1>0, <1>1 DEF Socket!Start
  <2>2. Made' = Made \cup {socket_calls'}
    BY <1>1, <2>1 DEF Socket!Start, Made, Socket!Loop, SocketTypes
  <2>3. /\ socket_loop' \in [Socket!Loop -> Stages]
        /\ socket_cancelled' \in SUBSET Made' /\ socket_connected' \in SUBSET Made'
        /\ socket_mine' \in [Socket!Loop -> 0 .. MaxClients]
        /\ socket_socketClient' \in 0 .. MaxClients
        /\ socket_client' \in [Socket!Client -> {"none", "closed"} \cup Live]
    BY <1>1, <2>1, <2>2 DEF Stages, Socket!Start, SocketTypes, Socket!clients, Socket!Loop
  <2>4. /\ socket_pc' \in [SocketCaller -> CallStages]
        /\ socket_on' \in [SocketCaller -> Nat]
        /\ \A d \in SocketCaller :
               /\ socket_pc'[d] \in {"starting", "draining"} => socket_on'[d] \in Made'
               /\ socket_pc'[d] = "disconnecting" => socket_on'[d] \in Socket!Client
    BY <1>0, <1>1, <2>1, <2>2 DEF CallStages, Socket!Start, SocketTypes
  <2>5. \A l \in Socket!Loop : l > socket_calls' => l \notin Made'
    BY <1>0, <2>1, <2>2 DEF SocketTypes, Socket!Loop
  <2>6. socket_calls' \in 0 .. MaxCalls /\ socket_socketTask' \in 0 .. socket_calls'
            /\ socket_socketTask' \in Made'
    BY <2>1, <2>2, <1>0
  <2>7. QED
    BY <2>2, <2>3, <2>4, <2>5, <2>6 DEF SocketTypes, Socket!Loop, Socket!Client
<1>2. ASSUME NEW c \in SocketCaller, Socket!BeginStop(c), socket_calls' \in {socket_calls,
          socket_calls + 1}, socket_calls' \in 0 .. MaxCalls
      PROVE  SocketTypes'
  <2>1. /\ UNCHANGED <<socket_loop, socket_connected, socket_mine, socket_client>>
        /\ socket_socketClient' = 0
        /\ socket_socketTask' \in {0, socket_socketTask}
        /\ socket_cancelled' \in {socket_cancelled, socket_cancelled \cup {socket_socketTask}}
        /\ socket_socketTask = 0 => socket_cancelled' = socket_cancelled
    BY <1>2 DEF Socket!BeginStop, Socket!TakeTask, Socket!Running
  <2>2. \E p \in CallStages, w \in Nat :
           /\ socket_pc' = [socket_pc EXCEPT ![c] = p] /\ socket_on' = [socket_on EXCEPT ![c] = w]
           /\ p \in {"starting", "draining"} => w \in Made
           /\ p = "disconnecting" => w \in Socket!Client
    BY <1>0, <1>2 DEF CallStages, Socket!BeginStop, Socket!TakeTask, Socket!Running
  <2>3. QED
    BY <1>0, <1>2, <2>1, <2>2, CallsKeepTypes
<1>3. ASSUME NEW c \in SocketCaller, Socket!Stop(c) \/ Socket!TimeIsUp(c)
      PROVE  SocketTypes'
  <2>1. Socket!BeginStop(c) /\ socket_calls' \in {socket_calls, socket_calls + 1}
            /\ socket_calls' \in 0 .. MaxCalls
    BY <1>0, <1>3 DEF Socket!Stop, Socket!TimeIsUp
  <2>2. QED
    BY <1>2, <2>1
<1>4. ASSUME NEW c \in SocketCaller, Socket!Disconnected(c)
      PROVE  SocketTypes'
  <2>1. /\ UNCHANGED <<socket_loop, socket_connected, socket_mine, socket_calls,
              socket_socketClient>>
        /\ socket_socketTask' \in {0, socket_socketTask}
        /\ socket_cancelled' \in {socket_cancelled, socket_cancelled \cup {socket_socketTask}}
        /\ socket_socketTask = 0 => socket_cancelled' = socket_cancelled
    BY <1>4 DEF Socket!Disconnected, Socket!TakeTask, Socket!Running
  <2>2. \E p \in CallStages, w \in Nat :
           /\ socket_pc' = [socket_pc EXCEPT ![c] = p] /\ socket_on' = [socket_on EXCEPT ![c] = w]
           /\ p \in {"starting", "draining"} => w \in Made
           /\ p = "disconnecting" => w \in Socket!Client
    BY <1>0, <1>4 DEF CallStages, Socket!Disconnected, Socket!TakeTask, Socket!Running
  <2>3. socket_client' \in [Socket!Client -> {"none", "closed"} \cup Live]
    BY <1>0, <1>4 DEF Socket!Disconnected
  <2>4. QED
    BY <1>0, <2>1, <2>2, <2>3, CallsKeepTypes
<1>5. ASSUME NEW c \in SocketCaller, Socket!Started(c) \/ Socket!Drained(c)
      PROVE  SocketTypes'
  <2>1. /\ UNCHANGED <<socket_loop, socket_connected, socket_mine, socket_calls,
              socket_socketClient, socket_client, socket_socketTask, socket_cancelled>>
        /\ socket_pc' = [socket_pc EXCEPT ![c] = "idle"] /\ socket_on' = [socket_on EXCEPT ![c] = 0]
    BY <1>5 DEF Socket!Started, Socket!Drained, Socket!tasks, Socket!clients
  <2>2. QED
    BY <1>0, <2>1, CallsKeepTypes DEF CallStages
<1>6. ASSUME NEW l \in Socket!Loop, Socket!LoopStep(l) \/ Socket!ConnectFails(l)
          \/ Socket!ConnectHangs(l)
      PROVE  SocketTypes'
  <2>1. UNCHANGED <<socket_socketTask, socket_cancelled, socket_pc, socket_on,
            socket_calls>> /\ socket_loop[l] # "none" /\ socket_loop'[l] # "none"
    BY <1>6, LoopStepsAreTheirOwn DEF Socket!callers, Socket!Running
  <2>2. /\ socket_loop' \in [Socket!Loop -> Stages]
        /\ socket_mine' \in [Socket!Loop -> 0 .. MaxClients]
        /\ socket_socketClient' \in 0 .. MaxClients
        /\ socket_client' \in [Socket!Client -> {"none", "closed"} \cup Live]
    <3>0. ASSUME Socket!Unwind(l)
          PROVE  /\ socket_loop' \in [Socket!Loop -> Stages]
                 /\ socket_mine' \in [Socket!Loop -> 0 .. MaxClients]
                 /\ socket_socketClient' \in 0 .. MaxClients
      BY <3>0, ConnectionsAssumption DEF Stages, Socket!Unwind, SocketTypes
    <3>1. CASE Socket!Connect(l)
      <4>1. CASE Socket!Unwind(l) /\ UNCHANGED socket_client
        BY <3>0, <4>1 DEF SocketTypes
      <4>2. CASE Socket!Fresh # {} /\ socket_client' = [socket_client EXCEPT ![Socket!NewClient] = "connecting"]
                 /\ socket_mine' = [socket_mine EXCEPT ![l] = Socket!NewClient]
                 /\ socket_socketClient' = Socket!NewClient
                 /\ socket_loop' = [socket_loop EXCEPT ![l] = "connecting"]
        <5>1. Socket!NewClient \in 0 .. MaxClients
          BY <4>2, NewClientIsFresh, ConnectionsAssumption DEF Socket!Client
        <5>2. QED
          BY <4>2, <5>1 DEF Stages, SocketTypes, Live, Connecting
      <4>3. QED
        BY <3>1, <4>1, <4>2 DEF Socket!Connect
    <3>2. CASE Socket!Connected(l) \/ Socket!Notice(l) \/ Socket!ConnectFails(l)
              \/ Socket!ConnectHangs(l)
      BY <3>2, ConnectionsAssumption DEF Stages, Socket!Connected, Socket!Notice,
                                    Socket!ConnectFails, Socket!ConnectHangs,
                                            SocketTypes, Live, Connecting
    <3>3. CASE Socket!Close(l)
      <4>1. socket_client' \in [Socket!Client -> {"none", "closed"} \cup Live]
        BY <3>3 DEF Socket!Close, SocketTypes
      <4>2. CASE Socket!Unwind(l)
        BY <3>0, <4>1, <4>2
      <4>3. CASE socket_loop' = [socket_loop EXCEPT ![l] = "backoff"]
                /\ UNCHANGED <<socket_mine, socket_socketClient>>
        BY <4>1, <4>3 DEF Stages, SocketTypes
      <4>4. QED
        BY <3>3, <4>2, <4>3 DEF Socket!Close
    <3>4. CASE Socket!Cancelled(l)
      BY <3>4, ConnectionsAssumption DEF Stages, Socket!Cancelled, Socket!Unwind, SocketTypes,
                                    Live, Connecting, Socket!clients
    <3>5. CASE Socket!FinalDisconnect(l)
      BY <3>5, ConnectionsAssumption DEF Stages, Socket!FinalDisconnect, SocketTypes, Live,
                                    Connecting
    <3>6. QED
      BY <1>6, <3>1, <3>2, <3>3, <3>4, <3>5 DEF Socket!LoopStep
  <2>3. socket_connected' \in {socket_connected, socket_connected \cup {l}}
    BY <1>6 DEF Socket!LoopStep, Socket!Connect, Socket!Connected, Socket!ConnectFails,
                Socket!ConnectHangs, Socket!Notice, Socket!Close,
       Socket!Cancelled, Socket!FinalDisconnect
  <2>4. \A m \in Socket!Loop : socket_loop'[m] = "none" <=> socket_loop[m] = "none"
    <3>1. \A m \in Socket!Loop : m # l => socket_loop'[m] = socket_loop[m]
      BY <1>6, LoopStepsAreTheirOwn
    <3>2. QED
      BY <2>1, <3>1
  <2>5. Made' = Made /\ l \in Made
    BY <2>1, <2>4 DEF Made
  <2>6. QED
    BY <2>1, <2>2, <2>3, <2>5 DEF SocketTypes, Socket!Loop, Socket!Client
<1>7. ASSUME NEW k \in Socket!Client, Socket!Drop(k)
      PROVE  SocketTypes'
  BY <1>7 DEF Socket!Drop, Socket!tasks, Socket!callers, SocketTypes, Made, Live
<1>8. CASE UNCHANGED Socket!vars
  BY <1>8 DEF Socket!vars, Socket!tasks, Socket!clients, Socket!callers, SocketTypes, Made
<1>9. QED
  BY <1>1, <1>3, <1>4, <1>5, <1>6, <1>7, <1>8 DEF Socket!Next, Socket!CallStep

\* A step that neither starts a loop nor takes the task.
NoTaskTaken == UNCHANGED <<socket_socketTask, socket_cancelled>>
      /\ \A l \in Socket!Loop : Socket!Running(l)' => Socket!Running(l)

LEMMA StepOneLoop == SocketTypes /\ Socket!OneLoop /\ [Socket!Next]_Socket!vars => Socket!OneLoop'
<1> SUFFICES ASSUME SocketTypes, Socket!OneLoop, [Socket!Next]_Socket!vars PROVE Socket!OneLoop'
  OBVIOUS
<1>1. ASSUME NEW c \in SocketCaller, Socket!Start(c)
      PROVE  Socket!OneLoop'
  BY <1>1, ConnectionsAssumption DEF Socket!Start, SocketTypes, Socket!OneLoop,
                                Socket!Running, Socket!Loop
<1>2. ASSUME NEW c \in SocketCaller, Socket!TakeTask(c), UNCHANGED socket_loop
      PROVE  Socket!OneLoop'
  BY <1>2 DEF Socket!TakeTask, Socket!OneLoop, Socket!Running
<1>3. ASSUME NoTaskTaken
      PROVE  Socket!OneLoop'
  BY <1>3 DEF NoTaskTaken, Socket!OneLoop
<1>4. ASSUME NEW c \in SocketCaller, Socket!BeginStop(c)
      PROVE  Socket!OneLoop'
  BY <1>2, <1>3, <1>4 DEF Socket!BeginStop, NoTaskTaken, Socket!Running
<1>5. ASSUME NEW c \in SocketCaller, Socket!CallStep(c) \/ Socket!Stop(c)
      PROVE  Socket!OneLoop'
  BY <1>2, <1>3, <1>4, <1>5 DEF Socket!CallStep, Socket!Stop, Socket!TimeIsUp,
                                Socket!Disconnected, Socket!Started, Socket!Drained,
                                        NoTaskTaken, Socket!Running, Socket!tasks
<1>6. ASSUME NEW l \in Socket!Loop, Socket!LoopStep(l) \/ Socket!ConnectFails(l)
          \/ Socket!ConnectHangs(l)
      PROVE  Socket!OneLoop'
  <2>1. NoTaskTaken
    BY <1>6, LoopStepsAreTheirOwn DEF NoTaskTaken, Socket!Running
  <2>2. QED
    BY <2>1, <1>3
<1>7. ASSUME NEW k \in Socket!Client, Socket!Drop(k)
      PROVE  Socket!OneLoop'
  BY <1>3, <1>7 DEF Socket!Drop, Socket!tasks, NoTaskTaken, Socket!Running
<1>8. CASE UNCHANGED Socket!vars
  BY <1>3, <1>8 DEF Socket!vars, Socket!tasks, NoTaskTaken, Socket!Running
<1>9. QED
  BY <1>1, <1>5, <1>6, <1>7, <1>8 DEF Socket!Next

LEMMA StepOvertaken == SocketTypes /\ Socket!OneLoop /\ OvertakenAreKnown
      /\ [Socket!Next]_Socket!vars => OvertakenAreKnown'
<1> SUFFICES ASSUME SocketTypes, Socket!OneLoop, OvertakenAreKnown,
          [Socket!Next]_Socket!vars PROVE OvertakenAreKnown'
  OBVIOUS
<1>1. ASSUME NEW c \in SocketCaller, Socket!Start(c)
      PROVE  OvertakenAreKnown'
  BY <1>1, ConnectionsAssumption DEF Socket!Start, SocketTypes, OvertakenAreKnown,
                                Socket!Loop, Made
<1>2. ASSUME NEW c \in SocketCaller, Socket!TakeTask(c), UNCHANGED socket_loop
      PROVE  OvertakenAreKnown'
  BY <1>2 DEF Socket!TakeTask, OvertakenAreKnown, Made
<1>3. ASSUME UNCHANGED <<socket_socketTask, socket_cancelled, socket_loop, socket_overtaken,
          socket_shutdown>>
      PROVE  OvertakenAreKnown'
  BY <1>3 DEF OvertakenAreKnown, Made
<1>4. ASSUME NEW c \in SocketCaller, Socket!BeginStop(c)
      PROVE  OvertakenAreKnown'
  BY <1>2, <1>4 DEF Socket!BeginStop, OvertakenAreKnown, Made
<1>5. ASSUME NEW c \in SocketCaller, Socket!CallStep(c) \/ Socket!Stop(c)
      PROVE  OvertakenAreKnown'
  BY <1>2, <1>3, <1>4, <1>5 DEF Socket!CallStep, Socket!Stop, Socket!TimeIsUp,
                                Socket!Disconnected, Socket!Started, Socket!Drained,
                                        Socket!tasks, Socket!history
<1>6. ASSUME NEW l \in Socket!Loop, Socket!LoopStep(l) \/ Socket!ConnectFails(l)
          \/ Socket!ConnectHangs(l)
      PROVE  OvertakenAreKnown'
  <2>1. /\ UNCHANGED <<socket_socketTask, socket_cancelled, socket_overtaken, socket_shutdown>>
        /\ \A m \in Socket!Loop : m # l => socket_loop'[m] = socket_loop[m]
        /\ Socket!Running(l)
        /\ l \in Made /\ Made' = Made
    BY <1>6, LoopStepsAreTheirOwn DEF Socket!history, Made, Socket!Running
  <2>2. socket_loop'[l] \in {"final", "ended"} =>
            socket_loop[l] = "final" \/ socket_shutdown \/ l \in socket_cancelled
    BY <1>6 DEF SocketTypes, Socket!LoopStep, Socket!Connect, Socket!Connected,
                Socket!ConnectFails, Socket!ConnectHangs, Socket!Notice, Socket!Close,
       Socket!Cancelled, Socket!FinalDisconnect, Socket!Unwind
  <2>3. socket_loop'[l] \in {"final", "ended"} => l \in socket_overtaken
    BY <2>1, <2>2 DEF OvertakenAreKnown, Socket!OneLoop, Socket!Loop
  <2>4. QED
    BY <2>1, <2>3 DEF OvertakenAreKnown, Made
<1>7. ASSUME NEW k \in Socket!Client, Socket!Drop(k)
      PROVE  OvertakenAreKnown'
  BY <1>3, <1>7 DEF Socket!Drop, Socket!tasks, Socket!history
<1>8. CASE UNCHANGED Socket!vars
  BY <1>3, <1>8 DEF Socket!vars, Socket!tasks, Socket!history
<1>9. QED
  BY <1>1, <1>5, <1>6, <1>7, <1>8 DEF Socket!Next

LEMMA StepAwaited == SocketTypes /\ CancelledAreAwaited /\ [Socket!Next]_Socket!vars =>
      CancelledAreAwaited'
<1> SUFFICES ASSUME SocketTypes, CancelledAreAwaited,
          [Socket!Next]_Socket!vars PROVE CancelledAreAwaited'
  OBVIOUS
<1> USE DEF CancelledAreAwaited
<1>1. ASSUME NEW c \in SocketCaller, Socket!Start(c)
      PROVE  CancelledAreAwaited'
  BY <1>1, ConnectionsAssumption DEF Socket!Start, SocketTypes, Socket!Loop, Made, Socket!Running
<1>2. ASSUME NEW c \in SocketCaller, Socket!TakeTask(c), UNCHANGED socket_loop,
          socket_pc[c] # "draining"
      PROVE  CancelledAreAwaited'
  BY <1>2 DEF Socket!TakeTask, SocketTypes, Socket!Running
<1>3. ASSUME UNCHANGED <<socket_cancelled, socket_pc, socket_on>>,
          \A l \in Socket!Loop : Socket!Running(l)' => Socket!Running(l)
      PROVE  CancelledAreAwaited'
  BY <1>3
<1>4. ASSUME NEW c \in SocketCaller, Socket!BeginStop(c), socket_pc[c] # "draining"
      PROVE  CancelledAreAwaited'
  BY <1>2, <1>4 DEF Socket!BeginStop, SocketTypes, Socket!Running
<1>5. ASSUME NEW c \in SocketCaller, Socket!Stop(c) \/ Socket!TimeIsUp(c) \/ Socket!Disconnected(c)
      PROVE  CancelledAreAwaited'
  BY <1>2, <1>4, <1>5 DEF Socket!Stop, Socket!TimeIsUp, Socket!Disconnected
<1>6. ASSUME NEW c \in SocketCaller, Socket!Started(c) \/ Socket!Drained(c)
      PROVE  CancelledAreAwaited'
  BY <1>6 DEF Socket!Started, Socket!Drained, Socket!tasks, SocketTypes, Socket!Running
<1>7. ASSUME NEW l \in Socket!Loop, Socket!LoopStep(l) \/ Socket!ConnectFails(l)
          \/ Socket!ConnectHangs(l)
      PROVE  CancelledAreAwaited'
  BY <1>3, <1>7, LoopStepsAreTheirOwn DEF Socket!Running, Socket!callers
<1>8. ASSUME NEW k \in Socket!Client, Socket!Drop(k)
      PROVE  CancelledAreAwaited'
  BY <1>3, <1>8 DEF Socket!Drop, Socket!tasks, Socket!callers, Socket!Running
<1>9. CASE UNCHANGED Socket!vars
  BY <1>3, <1>9 DEF Socket!vars, Socket!tasks, Socket!callers, Socket!Running
<1>10. QED
  BY <1>1, <1>5, <1>6, <1>7, <1>8, <1>9 DEF Socket!Next, Socket!CallStep

-----------------------------------------------------------------------------
\* As long as no start came across a stop, one loop runs and owns what is open.

OpenEnough == SocketTypes /\ Socket!OneLoop /\ OvertakenAreKnown /\ CancelledAreAwaited
      /\ ~socket_overlap /\ ApartInv

LEMMA StartApart ==
    ASSUME OpenEnough, NEW c \in SocketCaller, Socket!Start(c), ~socket_overlap'
    PROVE  ApartInv'
<1> USE ConnectionsAssumption DEF OpenEnough
<1>1. \A b \in SocketCaller : socket_pc[b] \notin {"disconnecting", "draining"}
  BY DEF Socket!Start
<1>2. \A l \in Socket!Loop : ~Socket!Running(l)
  BY <1>1 DEF Socket!Start, Socket!OneLoop, CancelledAreAwaited
<1>3. /\ socket_calls' \in Socket!Loop /\ socket_loop[socket_calls'] = "none" /\ socket_calls' # 0
      /\ socket_loop' = [socket_loop EXCEPT ![socket_calls'] = "created"]
      /\ UNCHANGED <<socket_mine, socket_client, socket_socketClient>>
  BY DEF Socket!Start, SocketTypes, Made, Socket!Loop, Socket!clients
<1>4. OneRuns'
  BY <1>2, <1>3 DEF OneRuns, Socket!Running, SocketTypes
<1>5. LoopsHaveTheirClients'
  BY <1>3 DEF ApartInv, LoopsHaveTheirClients, SocketTypes
<1>6. ClientsHaveTheirLoops'
  BY <1>3 DEF ApartInv, ClientsHaveTheirLoops, SocketTypes
<1>7. OpenIsOwned'
  <2>1. \A k \in Socket!Client : socket_client[k] \notin Live
    BY <1>1, <1>2 DEF ApartInv, OpenIsOwned, Disconnecting
  <2>2. \A l \in Socket!Loop : socket_loop'[l] \notin {"up", "connecting"}
    <3>1. \A l \in Socket!Loop : l # 0 /\ socket_loop[l] \notin {"up", "connecting"}
      BY <1>2 DEF Socket!Running, Socket!Loop
    <3>2. QED
      BY <1>3, <3>1 DEF SocketTypes
  <2>3. QED
    BY <1>3, <2>1, <2>2 DEF OpenIsOwned
<1>8. QED
  BY <1>4, <1>5, <1>6, <1>7 DEF ApartInv

\* The end of a stop, and the beginning of one that finds no client.
LEMMA TakeTaskApart ==
    ASSUME OpenEnough, NEW c \in SocketCaller, Socket!TakeTask(c), UNCHANGED <<socket_loop,
          socket_mine, socket_client>>,
           socket_socketClient' \in {0, socket_socketClient}, socket_pc[c] # "disconnecting",
           socket_socketClient = 0 \/ UNCHANGED socket_socketClient
    PROVE  ApartInv'
<1> USE ConnectionsAssumption DEF OpenEnough
<1>1. \A k \in Socket!Client : Disconnecting(k)' <=> Disconnecting(k)
  BY DEF Socket!TakeTask, Disconnecting, SocketTypes
<1>2. OneRuns' /\ LoopsHaveTheirClients' /\ ClientsHaveTheirLoops'
  BY DEF ApartInv, OneRuns, LoopsHaveTheirClients, ClientsHaveTheirLoops, Socket!Running
<1>3. OpenIsOwned'
  BY <1>1 DEF ApartInv, OpenIsOwned, LoopsHaveTheirClients, Socket!TakeTask, Socket!Running
<1>4. QED
  BY <1>2, <1>3 DEF ApartInv

LEMMA BeginStopApart ==
    ASSUME OpenEnough, NEW c \in SocketCaller, Socket!BeginStop(c), socket_pc[c] # "disconnecting"
    PROVE  ApartInv'
<1> USE ConnectionsAssumption DEF OpenEnough
<1>1. CASE socket_socketClient = 0
  BY <1>1, TakeTaskApart DEF Socket!BeginStop
<1>2. CASE socket_socketClient # 0
  <2>1. /\ socket_pc' = [socket_pc EXCEPT ![c] = "disconnecting"]
        /\ socket_on' = [socket_on EXCEPT ![c] = socket_socketClient]
        /\ UNCHANGED <<socket_socketTask, socket_cancelled, socket_loop, socket_mine,
              socket_client>>
        /\ socket_socketClient' = 0
    BY <1>2 DEF Socket!BeginStop
  <2>2. \A k \in Socket!Client : Disconnecting(k)' <=> Disconnecting(k) \/ k = socket_socketClient
    BY <2>1 DEF Disconnecting, SocketTypes
  <2>3. OneRuns' /\ LoopsHaveTheirClients' /\ ClientsHaveTheirLoops'
    BY <2>1 DEF ApartInv, OneRuns, LoopsHaveTheirClients, ClientsHaveTheirLoops,
                Socket!Running
  <2>4. OpenIsOwned'
    BY <2>1, <2>2 DEF ApartInv, OpenIsOwned, LoopsHaveTheirClients, Socket!Running
  <2>5. QED
    BY <2>3, <2>4 DEF ApartInv
<1>3. QED
  BY <1>1, <1>2

LEMMA DisconnectedApart ==
    ASSUME OpenEnough, NEW c \in SocketCaller, Socket!Disconnected(c)
    PROVE  ApartInv'
<1> USE ConnectionsAssumption DEF OpenEnough
<1> DEFINE k == socket_on[c]
<1>1. /\ k \in Socket!Client
      /\ socket_client' = [socket_client EXCEPT ![k] = IF @ \in {"open",
            "dropped"} THEN "closed" ELSE @]
      /\ UNCHANGED <<socket_loop, socket_mine, socket_socketClient>>
      /\ socket_cancelled' \in {socket_cancelled, socket_cancelled \cup {socket_socketTask}}
      /\ Socket!Running(socket_socketTask) => socket_socketTask \in socket_cancelled'
      /\ socket_pc'[c] \in {"idle", "draining"} /\ \A d \in SocketCaller : d # c =>
            socket_pc'[d] = socket_pc[d] /\ socket_on'[d] = socket_on[d]
  BY DEF Socket!Disconnected, Socket!TakeTask, SocketTypes
<1>2. \A i \in Socket!Client : i # k => Disconnecting(i)' = Disconnecting(i)
  BY <1>1 DEF Disconnecting
<1>3. OneRuns'
  BY <1>1 DEF ApartInv, OneRuns, Socket!Running
<1>4. LoopsHaveTheirClients'
  BY <1>1 DEF ApartInv, LoopsHaveTheirClients, SocketTypes
<1>5. ClientsHaveTheirLoops'
  BY <1>1 DEF ApartInv, ClientsHaveTheirLoops, SocketTypes, Connecting
<1>6. \A i \in Socket!Client : socket_client'[i] \in Live =>
          (\E l \in Socket!Loop : Socket!Running(l)' /\ socket_mine'[l] = i) \/ Disconnecting(i)'
  <2>1. TAKE i \in Socket!Client
  <2>2. CASE i # k
    BY <1>1, <1>2, <2>2 DEF ApartInv, OpenIsOwned, SocketTypes, Socket!Running
  <2>3. CASE i = k
    <3>1. socket_client'[k] \in Live => socket_client[k] \in Connecting
      BY <1>1 DEF SocketTypes, Live, Connecting
    <3>2. QED
      BY <1>1, <2>3, <3>1 DEF ApartInv, ClientsHaveTheirLoops, Socket!Running, Socket!Loop
  <2>4. QED
    BY <2>2, <2>3
<1>7. \A l \in Socket!Loop : socket_loop'[l] = "up" \/ (socket_loop'[l] = "connecting"
          /\ l \notin socket_cancelled') =>
          socket_socketClient' = socket_mine'[l] \/ Disconnecting(socket_mine[l])'
                \/ socket_client'[socket_mine'[l]] = "closed"
  <2>1. SUFFICES ASSUME NEW l \in Socket!Loop, socket_loop[l] = "up"
            \/ (socket_loop[l] = "connecting" /\ l \notin socket_cancelled')
                 PROVE  socket_socketClient = socket_mine[l]
                       \/ Disconnecting(socket_mine[l])'
                             \/ socket_client'[socket_mine[l]] = "closed"
    BY <1>1
  <2>2. socket_loop[l] = "up"
    BY <1>1, <2>1 DEF Socket!OneLoop, Socket!Running, Socket!Loop
  <2>3. socket_mine[l] \in Socket!Client /\ socket_client[socket_mine[l]] \in {"open",
            "dropped", "closed"}
    BY <2>2 DEF ApartInv, LoopsHaveTheirClients
  <2>4. CASE socket_mine[l] = k
    BY <1>1, <2>3, <2>4 DEF SocketTypes
  <2>5. CASE socket_mine[l] # k
    BY <1>1, <1>2, <2>2, <2>3, <2>5 DEF ApartInv, OpenIsOwned, SocketTypes
  <2>6. QED
    BY <2>4, <2>5
<1>8. OpenIsOwned'
  BY <1>6, <1>7 DEF OpenIsOwned, Socket!Client, Socket!Loop
<1>9. QED
  BY <1>3, <1>4, <1>5, <1>8 DEF ApartInv

\* What the loop that runs has to itself.
LEMMA TheOneThatRuns ==
    ASSUME OpenEnough, NEW l \in Socket!Loop, Socket!Running(l)
    PROVE  /\ \A m \in Socket!Loop : m # l => socket_loop[m] \in {"none", "ended", "failed"}
                 /\ (socket_loop[m] = "none" => socket_mine[m] = 0)
           /\ socket_socketClient # 0 => socket_loop[l] \in {"connecting", "up"}
                 /\ socket_mine[l] = socket_socketClient
           /\ \A k \in Socket!Client : socket_client[k] \in Connecting =>
                 socket_loop[l] = "connecting" /\ socket_mine[l] = k
           /\ \A k \in Socket!Client : socket_client[k] \in Live =>
                 socket_mine[l] = k \/ Disconnecting(k)
<1>1. \A m \in Socket!Loop : Socket!Running(m) => m = l
  BY DEF OpenEnough, ApartInv, OneRuns
<1>2. \A m \in Socket!Loop : m # l => socket_loop[m] \in {"none", "ended", "failed"}
          /\ (socket_loop[m] = "none" => socket_mine[m] = 0)
  BY <1>1 DEF OpenEnough, ApartInv, LoopsHaveTheirClients, Socket!Running, Socket!Loop
<1>3. socket_socketClient # 0 => socket_loop[l] \in {"connecting", "up"}
          /\ socket_mine[l] = socket_socketClient
  BY <1>2 DEF OpenEnough, ApartInv, ClientsHaveTheirLoops
<1>4. \A k \in Socket!Client : socket_client[k] \in Connecting =>
          socket_loop[l] = "connecting" /\ socket_mine[l] = k
  BY <1>2 DEF OpenEnough, ApartInv, ClientsHaveTheirLoops
<1>5. \A k \in Socket!Client : socket_client[k] \in Live => socket_mine[l] = k \/ Disconnecting(k)
  BY <1>1 DEF OpenEnough, ApartInv, OpenIsOwned
<1>6. QED
  BY <1>2, <1>3, <1>4, <1>5

\* And what it has to hand over in a step.
LEMMA StaysTheOne ==
    ASSUME OpenEnough, NEW l \in Socket!Loop, Socket!LoopStep(l) \/ Socket!ConnectFails(l)
          \/ Socket!ConnectHangs(l),
           socket_socketClient' # 0 => socket_loop'[l] \in {"connecting", "up"}
                 /\ socket_mine'[l] = socket_socketClient',
           socket_loop'[l] = "created" => socket_mine'[l] = 0,
           socket_loop'[l] \in {"connecting", "up", "closing", "backoff", "final"} =>
                 socket_mine'[l] \in Socket!Client,
           socket_loop'[l] = "backoff" => socket_client'[socket_mine'[l]] = "closed",
           socket_loop'[l] \in {"up", "final"} =>
                 socket_client'[socket_mine'[l]] \in {"open", "dropped", "closed"},
           \A k \in Socket!Client : socket_client'[k] \in Connecting =>
                 socket_loop'[l] = "connecting" /\ socket_mine'[l] = k,
           \A k \in Socket!Client : socket_client'[k] \in Live =>
               (Socket!Running(l)' /\ socket_mine'[l] = k) \/ Disconnecting(k),
           socket_loop'[l] = "up" \/ (socket_loop'[l] = "connecting"
                 /\ l \notin socket_cancelled) =>
               socket_socketClient' = socket_mine'[l] \/ Disconnecting(socket_mine'[l])
                     \/ socket_client'[socket_mine'[l]] = "closed"
    PROVE  ApartInv'
<1>1. /\ \A m \in Socket!Loop : m # l => socket_loop'[m] = socket_loop[m]
            /\ socket_mine'[m] = socket_mine[m]
      /\ socket_loop'[l] # "none" /\ Socket!Running(l)
      /\ UNCHANGED <<socket_cancelled, socket_pc, socket_on>>
  BY LoopStepsAreTheirOwn DEF OpenEnough, Socket!callers
<1>2. \A m \in Socket!Loop : m # l => socket_loop'[m] \in {"none", "ended", "failed"}
          /\ (socket_loop'[m] = "none" => socket_mine'[m] = 0)
  BY <1>1, TheOneThatRuns
<1>3. OneRuns'
  BY <1>2 DEF OneRuns, Socket!Running
<1>4. LoopsHaveTheirClients'
  BY <1>1, <1>2 DEF LoopsHaveTheirClients, Socket!Client, Socket!Loop
<1>5. ClientsHaveTheirLoops'
  BY <1>1 DEF ClientsHaveTheirLoops, Socket!Client, Socket!Loop
<1>6. \A k : Disconnecting(k)' <=> Disconnecting(k)
  BY <1>1 DEF Disconnecting
<1>7. OpenIsOwned'
  BY <1>1, <1>2, <1>6 DEF OpenIsOwned, Socket!Client, Socket!Loop
<1>8. QED
  BY <1>3, <1>4, <1>5, <1>7 DEF ApartInv

LEMMA LoopApart ==
    ASSUME OpenEnough, NEW l \in Socket!Loop, Socket!LoopStep(l) \/ Socket!ConnectFails(l)
          \/ Socket!ConnectHangs(l)
    PROVE  ApartInv'
<1>0. /\ Socket!Running(l) /\ l # 0
      /\ socket_loop \in [Socket!Loop -> Stages]
      /\ socket_mine \in [Socket!Loop -> 0 .. MaxClients] /\ 0 \notin Socket!Client
      /\ socket_client \in [Socket!Client -> {"none", "closed"} \cup Live]
      /\ Live = {"connecting", "hung", "open", "dropped"} /\ Connecting = {"connecting", "hung"}
      /\ socket_socketClient # 0 => socket_socketClient \in Socket!Client
  BY LoopStepsAreTheirOwn, ConnectionsAssumption DEF OpenEnough, SocketTypes, Socket!Client,
  Socket!Loop, Live, Connecting
<1>1. /\ socket_socketClient # 0 => socket_loop[l] \in {"connecting", "up"}
            /\ socket_mine[l] = socket_socketClient
      /\ \A k \in Socket!Client : socket_client[k] \in Connecting =>
            socket_loop[l] = "connecting" /\ socket_mine[l] = k
      /\ \A k \in Socket!Client : socket_client[k] \in Live =>
            socket_mine[l] = k \/ Disconnecting(k)
  BY <1>0, TheOneThatRuns
<1>2. /\ socket_loop[l] = "created" => socket_mine[l] = 0
      /\ socket_loop[l] \in {"connecting", "up", "closing", "backoff", "final"} =>
            socket_mine[l] \in Socket!Client
      /\ socket_loop[l] = "backoff" => socket_client[socket_mine[l]] = "closed"
      /\ socket_loop[l] \in {"up", "final"} => socket_client[socket_mine[l]] \in {"open",
            "dropped", "closed"}
      /\ socket_loop[l] = "up" \/ (socket_loop[l] = "connecting" /\ l \notin socket_cancelled) =>
             socket_socketClient = socket_mine[l] \/ Disconnecting(socket_mine[l])
                   \/ socket_client[socket_mine[l]] = "closed"
  BY DEF OpenEnough, ApartInv, LoopsHaveTheirClients, OpenIsOwned
<1>3. ASSUME Socket!Unwind(l)
      PROVE  /\ socket_socketClient = 0 => socket_loop'[l] = "ended" /\ socket_mine'[l] = 0
             /\ socket_socketClient # 0 => socket_loop'[l] = "final"
                   /\ socket_mine'[l] = socket_mine[l]
             /\ socket_socketClient' = 0
  BY <1>0, <1>1, <1>3 DEF Socket!Unwind
<1>4. CASE Socket!Connect(l)
  <2>1. CASE Socket!Unwind(l) /\ UNCHANGED socket_client
    BY <1>0, <1>1, <1>2, <1>3, <1>4, <2>1, StaysTheOne DEF Socket!Connect, Socket!Running
  <2>2. CASE Socket!Fresh # {} /\ socket_client' = [socket_client EXCEPT ![Socket!NewClient] = "connecting"]
             /\ socket_mine' = [socket_mine EXCEPT ![l] = Socket!NewClient]
             /\ socket_socketClient' = Socket!NewClient
             /\ socket_loop' = [socket_loop EXCEPT ![l] = "connecting"]
    <3>1. Socket!NewClient \in Socket!Client /\ Socket!NewClient # 0
      BY <1>0, <2>2, NewClientIsFresh
    <3>2. \A k \in Socket!Client : k # Socket!NewClient => socket_client'[k] = socket_client[k]
      BY <1>0, <2>2
    <3>3. /\ socket_loop'[l] = "connecting" /\ socket_mine'[l] = Socket!NewClient
          /\ Socket!Running(l)'
          /\ socket_client'[Socket!NewClient] = "connecting"
      BY <1>0, <2>2, <3>1 DEF Socket!Running
    <3>4. \A k \in Socket!Client : k # Socket!NewClient =>
              socket_client[k] \notin Connecting /\ (socket_client[k] \in Live => Disconnecting(k))
      BY <1>0, <1>1, <1>2, <1>4 DEF Socket!Connect
    <3>5. QED
      BY <2>2, <3>1, <3>2, <3>3, <3>4, StaysTheOne
  <2>3. QED
    BY <1>4, <2>1, <2>2 DEF Socket!Connect
<1>5. CASE Socket!Connected(l)
  BY <1>0, <1>1, <1>2, <1>5, StaysTheOne DEF Socket!Connected, Socket!Running
<1>6. CASE Socket!ConnectFails(l)
  BY <1>0, <1>1, <1>2, <1>6, StaysTheOne DEF Socket!ConnectFails, Socket!Running
<1>7. CASE Socket!ConnectHangs(l)
  BY <1>0, <1>1, <1>2, <1>7, StaysTheOne DEF Socket!ConnectHangs, Socket!Running
<1>8. CASE Socket!Notice(l)
  BY <1>0, <1>1, <1>2, <1>8, StaysTheOne DEF Socket!Notice, Socket!Running
<1>9. CASE Socket!Close(l)
  BY <1>0, <1>1, <1>2, <1>3, <1>9, StaysTheOne DEF Socket!Close, Socket!Running
<1>10. CASE Socket!Cancelled(l)
  <2>1. CASE socket_loop[l] = "created"
    BY <1>0, <1>1, <1>2, <1>10, <2>1, StaysTheOne DEF Socket!Cancelled, Socket!Running,
    Socket!clients
  <2>2. CASE socket_loop[l] \in {"connecting", "closing"}
    BY <1>0, <1>1, <1>2, <1>3, <1>10, <2>2, StaysTheOne DEF Socket!Cancelled, Socket!Running
  <2>3. CASE socket_loop[l] \in {"up", "backoff"}
    BY <1>0, <1>1, <1>2, <1>3, <1>10, <2>3, StaysTheOne DEF Socket!Cancelled, Socket!Running
  <2>4. QED
    BY <1>10, <2>1, <2>2, <2>3 DEF Socket!Cancelled
<1>11. CASE Socket!FinalDisconnect(l)
  BY <1>0, <1>1, <1>2, <1>11, StaysTheOne DEF Socket!FinalDisconnect, Socket!Running
<1>12. QED
  BY <1>4, <1>5, <1>6, <1>7, <1>8, <1>9, <1>10, <1>11 DEF Socket!LoopStep

LEMMA DropApart ==
    ASSUME OpenEnough, NEW k \in Socket!Client, Socket!Drop(k)
    PROVE  ApartInv'
<1>1. /\ UNCHANGED <<socket_loop, socket_mine, socket_socketClient, socket_cancelled,
            socket_pc, socket_on>>
      /\ socket_client[k] = "open" /\ socket_client' = [socket_client EXCEPT ![k] = "dropped"]
  BY DEF Socket!Drop, Socket!tasks, Socket!callers
<1>2. OneRuns' /\ LoopsHaveTheirClients'
  BY <1>1 DEF OpenEnough, ApartInv, OneRuns, LoopsHaveTheirClients, Socket!Running,
              SocketTypes
<1>3. ClientsHaveTheirLoops'
  BY <1>1 DEF OpenEnough, ApartInv, ClientsHaveTheirLoops, SocketTypes, Connecting
<1>4. OpenIsOwned'
  BY <1>1 DEF OpenEnough, ApartInv, OpenIsOwned, LoopsHaveTheirClients, SocketTypes,
              Live, Socket!Running, Disconnecting
<1>5. QED
  BY <1>2, <1>3, <1>4 DEF ApartInv

LEMMA SocketStep == SocketInv /\ [Socket!Next]_Socket!vars => SocketInv'
<1> SUFFICES ASSUME SocketInv, [Socket!Next]_Socket!vars PROVE SocketInv'
  OBVIOUS
<1>1. SocketTypes' /\ Socket!OneLoop' /\ OvertakenAreKnown' /\ CancelledAreAwaited'
  BY StepTypes, StepOneLoop, StepOvertaken, StepAwaited DEF SocketInv
<1>2. socket_overlap => socket_overlap'
  <2>1. ASSUME NEW c \in SocketCaller, Socket!Start(c) \/ Socket!Stop(c) \/ Socket!CallStep(c)
        PROVE  socket_overlap => socket_overlap'
    BY <2>1 DEF Socket!Start, Socket!Stop, Socket!CallStep, Socket!Started,
                Socket!TimeIsUp, Socket!Disconnected, Socket!Drained, Socket!BeginStop,
                        Socket!history
  <2>2. ASSUME NEW l \in Socket!Loop, Socket!LoopStep(l) \/ Socket!ConnectFails(l)
            \/ Socket!ConnectHangs(l)
        PROVE  socket_overlap => socket_overlap'
    BY <2>2, LoopStepsAreTheirOwn DEF Socket!history, SocketInv
  <2>3. QED
    BY <2>1, <2>2 DEF Socket!Next, Socket!Drop, Socket!vars, Socket!history
<1>3. ASSUME ~socket_overlap'
      PROVE  ApartInv'
  <2>1. OpenEnough
    BY <1>2, <1>3 DEF SocketInv, OpenEnough
  <2>2. ASSUME NEW c \in SocketCaller, Socket!Stop(c) \/ Socket!CallStep(c)
        PROVE  ApartInv'
    <3>1. CASE Socket!Stop(c) \/ Socket!TimeIsUp(c)
      BY <2>1, <3>1, BeginStopApart DEF Socket!Stop, Socket!TimeIsUp
    <3>2. CASE Socket!Disconnected(c)
      BY <2>1, <3>2, DisconnectedApart
    <3>3. CASE Socket!Started(c) \/ Socket!Drained(c)
      <4>1. /\ UNCHANGED <<socket_loop, socket_mine, socket_cancelled, socket_socketClient,
                  socket_client>>
            /\ \A b \in SocketCaller : socket_pc'[b] = "disconnecting" <=> socket_pc[b] = "disconnecting"
            /\ \A b \in SocketCaller : socket_pc[b] = "disconnecting" =>
                  socket_on'[b] = socket_on[b]
        BY <2>1, <3>3 DEF Socket!Started, Socket!Drained, Socket!tasks, Socket!clients,
                          OpenEnough, SocketTypes
      <4>2. \A k \in Socket!Client : Disconnecting(k)' <=> Disconnecting(k)
        BY <4>1 DEF Disconnecting
      <4>3. QED
        BY <2>1, <4>1, <4>2 DEF OpenEnough, ApartInv, OneRuns, LoopsHaveTheirClients,
                                ClientsHaveTheirLoops,
           OpenIsOwned, Socket!Running
    <3>4. QED
      BY <2>2, <3>1, <3>2, <3>3 DEF Socket!CallStep
  <2>3. CASE UNCHANGED Socket!vars
    BY <2>1, <2>3 DEF Socket!vars, Socket!tasks, Socket!clients, Socket!callers,
                      OpenEnough, ApartInv, OneRuns, LoopsHaveTheirClients,
       ClientsHaveTheirLoops, OpenIsOwned, Socket!Running, Disconnecting
  <2>4. QED
    BY <1>3, <2>1, <2>2, <2>3, StartApart, LoopApart, DropApart DEF Socket!Next
<1>4. QED
  BY <1>1, <1>3 DEF SocketInv

\* OneConnection is part of the invariant, or follows from it.
LEMMA SocketMeant == SocketInv => Socket!OneConnection
<1> SUFFICES ASSUME SocketInv PROVE Socket!OneConnection
  OBVIOUS
<1>1. Socket!NoOrphans
  <2>1. SUFFICES ASSUME ~socket_overlap, \A c \in SocketCaller : socket_pc[c] = "idle"
                 PROVE  /\ \A l \in Socket!Loop : Socket!Running(l) => l = socket_socketTask
                        /\ \A k \in Socket!Client : socket_client[k] \in {"connecting", "hung",
                              "open", "dropped"} =>
                               \E l \in Socket!Loop : Socket!Running(l) /\ socket_mine[l] = k
    BY DEF Socket!NoOrphans
  <2>2. \A l \in Socket!Loop : Socket!Running(l) => l \notin socket_cancelled
    BY <2>1 DEF SocketInv, CancelledAreAwaited
  <2>3. QED
    BY <2>1, <2>2 DEF SocketInv, ApartInv, Socket!OneLoop, OpenIsOwned, Disconnecting,
                      Live, Connecting
<1>2. Socket!StartsAreTold
  <2>1. SUFFICES ASSUME NEW c \in SocketCaller, socket_pc[c] = "starting",
            ~Socket!Running(socket_on[c]), socket_on[c] \notin socket_overtaken
                 PROVE  socket_loop[socket_on[c]] = "failed" /\ socket_on[c] = socket_socketTask
    BY DEF Socket!StartsAreTold
  <2>2. socket_on[c] \in Made
    BY <2>1 DEF SocketInv, SocketTypes
  <2>3. socket_on[c] = socket_socketTask /\ socket_loop[socket_on[c]] \notin {"final", "ended"}
    BY <2>1, <2>2 DEF SocketInv, OvertakenAreKnown
  <2>4. QED
    BY <2>1, <2>2, <2>3 DEF Socket!Running, Made, Socket!Loop
<1>3. QED
  BY <1>1, <1>2 DEF SocketInv, Socket!OneConnection

\* The part of the run that is Slack's Socket Mode: the others leave it alone.
LEMMA SocketOfTheRun ==
    ConnectionsSpec => Socket!Init /\ [][Socket!Next]_Socket!vars
<1>1. ConnectionsInit => Socket!Init
  BY DEF ConnectionsInit
<1>2. [ConnectionsNext]_<<part, vars, socketVars, slackVars, spaceVars, tokenVars>>
          => [Socket!Next]_Socket!vars
  BY DEF ConnectionsNext, socketVars, Socket!vars, Socket!tasks, Socket!clients, Socket!callers, Socket!history
<1>3. QED
  BY <1>1, <1>2, PTL DEF ConnectionsSpec

\* However starts, stops and the loop overlap and whatever drops, hangs or fails:
\* one loop connects, no WebSocket outlives the calls but its own, and a start that
\* returns without a connection has an error to raise.
THEOREM OneConnectionIsKept == ConnectionsSpec => []OneConnection
<1>1. SocketInv => OneConnection
  BY SocketMeant DEF OneConnection
<1>2. QED
  BY <1>1, SocketOfTheRun, SocketInit, SocketStep, PTL

-----------------------------------------------------------------------------
\* The deliveries of a Slack event

Steps == {"none", "flying", "checking", "resolving", "done", "lost"}

\* The counts, what is under way and the markers; an event that Slack has not sent
\* is nowhere.
DeliveryTypes ==
    /\ slack_sent \in Nat /\ slack_writing \in Nat /\ slack_tasks \in Nat
    /\ slack_dispatched \in Nat /\ slack_handled \in Nat
    /\ slack_delivery \in [Slack!Delivery -> Steps]

\* Each follows the one before it: sent, dispatched, handled.
StagesFollow ==
    /\ \A n \in Slack!Delivery : slack_delivery[n] # "none" => slack_sent > 0
    /\ slack_dispatched > 0 => slack_sent > 0
    /\ slack_tasks > 0 \/ slack_handled > 0 => slack_dispatched > 0
    /\ slack_claimed => slack_handled > 0

\* What was dispatched is marked, or will be.
DispatchedIsMarked == ~slack_unmarked /\ slack_dispatched > 0 => slack_marker \/ slack_writing > 0

\* Once the key of a message has expired, its marker stands in the way of
\* every delivery that is left, each of them a retry.
MarkerTakesOver ==
    slack_kind # "reaction" /\ ~slack_unmarked /\ slack_handled > 0 /\ ~slack_claimed =>
        /\ slack_marker /\ slack_tasks = 0
        /\ slack_delivery[0] # "flying"
        /\ \A n \in Slack!Delivery : slack_delivery[n] # "resolving"

MarkerInv ==
    /\ DeliveryTypes /\ StagesFollow /\ DispatchedIsMarked /\ MarkerTakesOver
    /\ Slack!HandledOnce /\ Slack!MarkedWasDispatched

LEMMA MarkerInit == Slack!Init => MarkerInv
BY ConnectionsAssumption
   DEF Slack!Init, MarkerInv, DeliveryTypes, Steps, StagesFollow, DispatchedIsMarked,
       MarkerTakesOver,
       Slack!HandledOnce, Slack!MarkedWasDispatched, Slack!Delivery

LEMMA MarkerStep == MarkerInv /\ [Slack!Next]_Slack!vars => MarkerInv'
<1> SUFFICES ASSUME MarkerInv, [Slack!Next]_Slack!vars PROVE MarkerInv'
  OBVIOUS
<1> USE ConnectionsAssumption
        DEF MarkerInv, DeliveryTypes, Steps, StagesFollow, DispatchedIsMarked,
            MarkerTakesOver,
            Slack!HandledOnce, Slack!MarkedWasDispatched, Slack!Delivery, Slack!Fault,
                  Slack!slack, Slack!history, Slack!Acknowledge
<1>1. CASE Slack!Send
  BY <1>1 DEF Slack!Send, Slack!Quiet
<1>2. CASE Slack!WriteEnds
  BY <1>2 DEF Slack!WriteEnds
<1>3. CASE Slack!Take
  <2>1. (slack_kind # "reaction" => slack_claimed') /\ (slack_claimed' =>
            slack_claimed \/ slack_kind # "reaction")
    BY <1>3 DEF Slack!Take
  <2>2. /\ slack_tasks > 0 /\ slack_tasks' = slack_tasks - 1
        /\ slack_handled' = IF slack_claimed THEN slack_handled ELSE slack_handled + 1
        /\ UNCHANGED <<slack_kind, slack_sent, slack_delivery, slack_marker, slack_writing,
              slack_dispatched, slack_unmarked>>
    BY <1>3 DEF Slack!Take
  <2>3. DeliveryTypes' /\ StagesFollow'
    BY <2>1, <2>2
  <2>4. MarkerTakesOver' /\ Slack!HandledOnce'
    BY <2>1, <2>2
  <2>5. QED
    BY <2>2, <2>3, <2>4
<1>4. CASE Slack!KeyExpires
  BY <1>4 DEF Slack!KeyExpires, Slack!Quiet
<1>5. CASE Slack!Crash
  <2>1. ~slack_unmarked' => ~slack_unmarked /\ ~(slack_writing > 0)
    BY <1>5 DEF Slack!Crash
  <2>2. /\ slack_delivery' = [n \in Slack!Delivery |-> IF Slack!Underway(n) THEN "lost" ELSE slack_delivery[n]]
        /\ slack_writing' = 0 /\ slack_tasks' = 0
        /\ UNCHANGED <<slack_kind, slack_sent, slack_marker, slack_claimed, slack_dispatched,
              slack_handled>>
    BY <1>5 DEF Slack!Crash
  <2>3. QED
    BY <2>1, <2>2 DEF Slack!Underway
<1>6. ASSUME NEW n \in Slack!Delivery, Slack!Arrive(n)
      PROVE  MarkerInv'
  BY <1>6 DEF Slack!Arrive
<1>7. ASSUME NEW n \in Slack!Delivery, Slack!Check(n)
      PROVE  MarkerInv'
  BY <1>7 DEF Slack!Check
<1>8. ASSUME NEW n \in Slack!Delivery, Slack!Dispatch(n)
      PROVE  MarkerInv'
  BY <1>8 DEF Slack!Dispatch
<1>9. ASSUME NEW n \in Slack!Delivery, Slack!Lose(n) \/ Slack!Unresolved(n)
      PROVE  MarkerInv'
  <2>1. PICK step \in {"lost", "done"} :
          /\ slack_delivery[n] \in {"flying", "resolving"}
          /\ slack_delivery' = [slack_delivery EXCEPT ![n] = step]
    BY <1>9 DEF Slack!Lose, Slack!Unresolved
  <2>2. UNCHANGED <<slack_kind, slack_sent, slack_marker, slack_claimed, slack_dispatched,
              slack_handled, slack_writing, slack_tasks, slack_unmarked>>
    BY <1>9 DEF Slack!Lose, Slack!Unresolved
  <2>3. QED
    BY <2>1, <2>2
<1>10. CASE UNCHANGED Slack!vars
  BY <1>10 DEF Slack!vars
<1>11. QED
  BY <1>1, <1>2, <1>3, <1>4, <1>5, <1>6, <1>7, <1>8, <1>9, <1>10 DEF Slack!Next,
  Slack!DeliveryStep

\* The part of the run that is the deliveries of a Slack event: the others leave it alone.
LEMMA SlackOfTheRun ==
    ConnectionsSpec => Slack!Init /\ [][Slack!Next]_Slack!vars
<1>1. ConnectionsInit => Slack!Init
  BY DEF ConnectionsInit
<1>2. [ConnectionsNext]_<<part, vars, socketVars, slackVars, spaceVars, tokenVars>>
          => [Slack!Next]_Slack!vars
  BY DEF ConnectionsNext, slackVars, Slack!vars, Slack!slack, Slack!history
<1>3. QED
  BY <1>1, <1>2, PTL DEF ConnectionsSpec

\* However often Slack sends an event, late, twice or beside a crash: a message is
\* handled once, and a marker tells of an event that was dispatched.
THEOREM MarkersTellTheTruth == ConnectionsSpec => []MarkersTell
<1>1. MarkerInv => MarkersTell
  BY DEF MarkerInv, MarkersTell, Slack!MarkersTell
<1>2. QED
  BY <1>1, SlackOfTheRun, MarkerInit, MarkerStep, PTL

-----------------------------------------------------------------------------
\* The subscription of a Google Chat space

Attempting == {"listing", "creating", "storing"}

SpaceTypes ==
    /\ space_pc \in [SpaceCaller -> {"idle", "reading", "waiting", "returned",
          "failed"} \cup Attempting]
    /\ space_read \in [SpaceCaller -> Nat] /\ space_saved \in Nat
    /\ space_pending \in SpaceCaller \cup {0}
    /\ space_waitsOn \in [SpaceCaller -> SpaceCaller \cup {0}]
    /\ space_created \in Nat
    /\ space_fresh \subseteq 1 .. space_created
    /\ space_spoiled \subseteq SpaceCaller

\* One call at a time lists and creates: the pending one.
OneAttempt ==
    /\ \A c \in SpaceCaller : space_pc[c] \in Attempting <=> space_pending = c
    /\ \A c \in SpaceCaller : space_pc[c] = "waiting" /\ space_waitsOn[c] # 0 =>
          space_pending = space_waitsOn[c]

\* Nobody creates where there is one, unless the list could not be read.
CreatesWhenNone ==
    ~space_blind =>
           /\ \A c \in SpaceCaller : space_pc[c] = "creating" => space_fresh = {}
           /\ \A s, t \in space_fresh : s = t

\* What an attempt will store is fresh, and what its waiters were told of is too,
\* unless something went wrong meanwhile: then it did for the waiters as well.
WaitersShareTheOutcome ==
    /\ \A c \in SpaceCaller : space_pc[c] = "storing" =>
          space_read[c] \in space_fresh \/ c \in space_spoiled
    /\ \A c \in SpaceCaller : space_pc[c] = "waiting" =>
           IF space_waitsOn[c] = 0 THEN space_fresh # {} \/ c \in space_spoiled
                             ELSE space_waitsOn[c] \in space_spoiled => c \in space_spoiled

SpaceInv == SpaceTypes /\ OneAttempt /\ CreatesWhenNone /\ WaitersShareTheOutcome

LEMMA SpaceInit == Space!Init => SpaceInv
BY ConnectionsAssumption DEF Space!Init, SpaceInv, SpaceTypes, OneAttempt, CreatesWhenNone,
   WaitersShareTheOutcome, Attempting

LEMMA SpaceStep == SpaceInv /\ [Space!Next]_Space!vars => SpaceInv'
<1> SUFFICES ASSUME SpaceInv, [Space!Next]_Space!vars PROVE SpaceInv'
  OBVIOUS
<1> USE ConnectionsAssumption
        DEF SpaceInv, SpaceTypes, OneAttempt, CreatesWhenNone, WaitersShareTheOutcome,
            Attempting, Space!Goto, Space!Fault, Space!SetEvent, Space!Spoil,
                    Space!Underway, Space!calls, Space!google
<1>1. ASSUME NEW c \in SpaceCaller, Space!Read(c) \/ Space!ReadFails(c)
      PROVE  SpaceInv'
  <2>1. CASE Space!Read(c)
    <3>1. space_saved \in Nat
      BY DEF SpaceInv
    <3>2. QED
      BY <2>1, <3>1 DEF Space!Read
  <2>2. CASE Space!ReadFails(c)
    BY <2>2 DEF Space!ReadFails
  <2>3. QED
    BY <1>1, <2>1, <2>2
<1>2. ASSUME NEW c \in SpaceCaller, Space!Decide(c)
      PROVE  SpaceInv'
  BY <1>2 DEF Space!Decide
<1>3. ASSUME NEW c \in SpaceCaller, Space!Wait(c) \/ Space!Again(c)
      PROVE  SpaceInv'
  <2>1. CASE Space!Wait(c)
    BY <2>1 DEF Space!Wait
  <2>2. CASE Space!Again(c)
    BY <2>2 DEF Space!Again
  <2>3. QED
    BY <1>3, <2>1, <2>2
<1>4. ASSUME NEW c \in SpaceCaller, Space!List(c)
      PROVE  SpaceInv'
  <2>1. CASE space_fresh = {}
    BY <1>4, <2>1 DEF Space!List
  <2>2. CASE space_fresh # {}
    <3>1. PICK s \in space_fresh : space_read' = [space_read EXCEPT ![c] = s]
      BY <1>4, <2>2 DEF Space!List
    <3>2. QED
      BY <1>4, <2>2, <3>1 DEF Space!List
  <2>3. QED
    BY <2>1, <2>2
<1>5. ASSUME NEW c \in SpaceCaller, Space!ListFails(c)
      PROVE  SpaceInv'
  BY <1>5 DEF Space!ListFails
<1>6. ASSUME NEW c \in SpaceCaller, Space!Create(c)
      PROVE  SpaceInv'
  BY <1>6 DEF Space!Create
<1>7. ASSUME NEW c \in SpaceCaller, Space!Store(c)
      PROVE  SpaceInv'
  BY <1>7 DEF Space!Store
<1>8. ASSUME NEW c \in SpaceCaller, Space!CallFails(c)
      PROVE  SpaceInv'
  BY <1>8 DEF Space!CallFails
<1>9. ASSUME NEW c \in SpaceCaller, Space!Cancelled(c)
      PROVE  SpaceInv'
  BY <1>9 DEF Space!Cancelled
<1>10. ASSUME NEW s \in space_fresh, Space!RunOut(s)
      PROVE  SpaceInv'
  BY <1>10 DEF Space!RunOut
<1>11. CASE UNCHANGED Space!vars
  BY <1>11 DEF Space!vars
<1>12. QED
  BY <1>1, <1>2, <1>3, <1>4, <1>5, <1>6, <1>7, <1>8, <1>9, <1>10, <1>11
     DEF Space!Next, Space!CallStep, Space!RunOut

LEMMA OneSpaceSubscription == SpaceInv => Space!OneSubscription
BY DEF SpaceInv, CreatesWhenNone, Space!OneSubscription

LEMMA ReturnsAreFresh ==
    SpaceInv /\ [Space!Next]_Space!vars =>
        \A c \in SpaceCaller :
            space_pc[c] # "returned" /\ space_pc'[c] = "returned" =>
                  space_fresh # {} \/ c \in space_spoiled'
<1> SUFFICES ASSUME SpaceInv, [Space!Next]_Space!vars,
                    NEW c \in SpaceCaller, space_pc[c] # "returned", space_pc'[c] = "returned"
             PROVE  space_fresh # {} \/ c \in space_spoiled'
  OBVIOUS
<1> USE DEF SpaceInv, SpaceTypes, Space!Goto, Space!Spoil, Space!Underway,
            WaitersShareTheOutcome
<1>1. CASE Space!Decide(c) \/ Space!Wait(c) \/ Space!Store(c) \/ Space!CallFails(c)
  BY <1>1 DEF Space!Decide, Space!Wait, Space!Store, Space!CallFails
<1>2. QED
  BY <1>1 DEF Space!Next, Space!CallStep, Space!Read, Space!Decide, Space!Wait,
              Space!List, Space!Create, Space!Store, Space!ReadFails, Space!ListFails,
     Space!CallFails, Space!Cancelled, Space!Again, Space!RunOut, Space!vars, Space!calls

\* The part of the run that is the subscription of a space: the others leave it alone.
LEMMA SpaceOfTheRun ==
    ConnectionsSpec => Space!Init /\ [][Space!Next]_Space!vars
<1>1. ConnectionsInit => Space!Init
  BY DEF ConnectionsInit
<1>2. [ConnectionsNext]_<<part, vars, socketVars, slackVars, spaceVars, tokenVars>>
          => [Space!Next]_Space!vars
  BY DEF ConnectionsNext, spaceVars, Space!vars, Space!calls, Space!google
<1>3. QED
  BY <1>1, <1>2, PTL DEF ConnectionsSpec

\* Whatever calls overlap, fail or are cancelled: a space is subscribed once at a
\* time, and a call that returns leaves it subscribed.
THEOREM SpacesStaySubscribed == ConnectionsSpec => SpaceStaysSubscribed
<1>1. SpaceInv /\ [Space!Next]_Space!vars =>
          [\A c \in SpaceCaller : space_pc[c] # "returned" /\ space_pc'[c] = "returned"
               => space_fresh # {} \/ c \in space_spoiled']_Space!vars
  BY ReturnsAreFresh
<1>2. ConnectionsSpec => []Space!OneSubscription
  BY SpaceOfTheRun, SpaceInit, SpaceStep, OneSpaceSubscription, PTL
<1>3. ConnectionsSpec => Space!ReturnedIsFresh
  BY <1>1, SpaceOfTheRun, SpaceInit, SpaceStep, PTL DEF Space!ReturnedIsFresh
<1>4. QED
  BY <1>2, <1>3 DEF SpaceStaysSubscribed, Space!SpaceStaysSubscribed

-----------------------------------------------------------------------------
\* Access tokens

TokenTypes ==
    /\ token_pc \in [TokenCaller -> {"idle", "locking", "fetching", "using", "failed"}]
    /\ token_wants \in [TokenCaller -> Key]
    /\ token_uses \in [TokenCaller -> Nat]
    /\ token_issued \in Seq(Key)
    /\ token_cache \in [Key -> 0 .. Len(token_issued)]
    /\ token_nearing \subseteq 1 .. Len(token_issued)

\* The lock's queue: its head has it and may be fetching, the others wait.
LockIsAQueue ==
    /\ token_lock \in Seq(TokenCaller)
    /\ \A c \in TokenCaller : token_pc[c] \in {"locking", "fetching"} =>
          \E i \in 1 .. Len(token_lock) : token_lock[i] = c
    /\ \A i \in 1 .. Len(token_lock) : token_pc[token_lock[i]] = "locking"
          \/ (token_pc[token_lock[i]] = "fetching" /\ i = 1)
    /\ \A i, j \in 1 .. Len(token_lock) : token_lock[i] = token_lock[j] => i = j

\* A token in the cache is of its key, and a good one is in the cache.
CacheIsRight ==
    /\ \A k \in Key : token_cache[k] # Tokens!NoToken => token_issued[token_cache[k]] = k
    /\ \A t \in 1 .. Len(token_issued) : t \notin token_nearing => token_cache[token_issued[t]] = t

\* While somebody fetches a token, there is none.
FetchedWhenNone == \A c \in TokenCaller : token_pc[c] = "fetching" => ~Tokens!Usable(token_wants[c])

TokenInv == TokenTypes /\ LockIsAQueue /\ CacheIsRight /\ FetchedWhenNone

LEMMA TokenInit == Tokens!Init => TokenInv
BY ConnectionsAssumption DEF Tokens!Init, TokenInv, TokenTypes, LockIsAQueue, CacheIsRight,
                       FetchedWhenNone,
   Tokens!NoToken, Tokens!Usable

\* Who leaves the queue leaves the others in order.
LEMMA OneLeaves ==
    ASSUME TokenTypes, LockIsAQueue, NEW i \in 1 .. Len(token_lock),
          token_lock' = Tokens!Without(token_lock, i),
           NEW s \in {"using", "failed"}, token_pc' = [token_pc EXCEPT ![token_lock[i]] = s]
    PROVE  LockIsAQueue'
<1>1. Len(token_lock) \in Nat /\ token_lock[i] \in TokenCaller
          /\ \A m \in 1 .. Len(token_lock) : token_lock[m] \in TokenCaller
  BY DEF LockIsAQueue
<1>2. \A m, n \in 1 .. Len(token_lock) : token_lock[m] = token_lock[n] => m = n
  BY DEF LockIsAQueue
<1>3. token_lock' \in Seq(TokenCaller) /\ Len(token_lock') = Len(token_lock) - 1
  <2>1. token_lock' \in [1 .. Len(token_lock) - 1 -> TokenCaller]
    BY <1>1 DEF Tokens!Without
  <2>2. QED
    BY <1>1, <2>1 DEF Tokens!Without
<1>4. PICK from : from = [j \in 1 .. Len(token_lock) - 1 |-> IF j < i THEN j ELSE j + 1]
  OBVIOUS
<1>5. \A j \in 1 .. Len(token_lock') : from[j] \in 1 .. Len(token_lock) /\ from[j] # i
  BY <1>1, <1>3, <1>4
<1>6. \A j \in 1 .. Len(token_lock') : token_lock'[j] = token_lock[from[j]]
  BY <1>3, <1>4 DEF Tokens!Without
<1>7. \A j, n \in 1 .. Len(token_lock') : from[j] = from[n] => j = n
  BY <1>1, <1>3, <1>4
<1>8. \A j \in 1 .. Len(token_lock') : from[j] = 1 => j = 1
  BY <1>1, <1>3, <1>4
<1>9. \A m \in 1 .. Len(token_lock) : m # i => \E j \in 1 .. Len(token_lock') : from[j] = m
  <2> SUFFICES ASSUME NEW m \in 1 .. Len(token_lock), m # i
               PROVE  \E j \in 1 .. Len(token_lock') : from[j] = m
    OBVIOUS
  <2>1. CASE m < i
    <3>1. m \in 1 .. Len(token_lock')
      BY <1>1, <1>3, <2>1
    <3>2. from[m] = m
      BY <1>3, <1>4, <2>1, <3>1
    <3>3. QED
      BY <3>1, <3>2
  <2>2. CASE m > i
    <3>1. m - 1 \in 1 .. Len(token_lock') /\ ~(m - 1 < i)
      BY <1>1, <1>3, <2>2
    <3>2. from[m - 1] = m
      BY <1>3, <1>4, <2>2, <3>1
    <3>3. QED
      BY <3>1, <3>2
  <2>3. QED
    BY <1>1, <2>1, <2>2
<1>10. \A c \in TokenCaller : token_pc'[c] = IF c = token_lock[i] THEN s ELSE token_pc[c]
  BY DEF TokenTypes
<1>11. ASSUME NEW c \in TokenCaller, token_pc'[c] \in {"locking", "fetching"}
       PROVE  \E j \in 1 .. Len(token_lock') : token_lock'[j] = c
  <2>1. token_pc[c] \in {"locking", "fetching"} /\ c # token_lock[i]
    BY <1>10, <1>11
  <2>2. PICK m \in 1 .. Len(token_lock) : token_lock[m] = c
    BY <2>1 DEF LockIsAQueue
  <2>3. PICK j \in 1 .. Len(token_lock') : from[j] = m
    BY <1>9, <2>1, <2>2
  <2>4. QED
    BY <1>6, <2>2, <2>3
<1>12. ASSUME NEW j \in 1 .. Len(token_lock')
       PROVE  token_pc'[token_lock'[j]] = "locking"
             \/ (token_pc'[token_lock'[j]] = "fetching" /\ j = 1)
  <2>1. token_lock[from[j]] # token_lock[i]
    BY <1>2, <1>5
  <2>2. token_pc'[token_lock'[j]] = token_pc[token_lock[from[j]]]
    BY <1>1, <1>5, <1>6, <1>10, <2>1
  <2>3. token_pc[token_lock[from[j]]] = "locking"
            \/ (token_pc[token_lock[from[j]]] = "fetching" /\ from[j] = 1)
    BY <1>5 DEF LockIsAQueue
  <2>4. QED
    BY <1>8, <2>2, <2>3
<1>13. ASSUME NEW j \in 1 .. Len(token_lock'), NEW n \in 1 .. Len(token_lock'),
          token_lock'[j] = token_lock'[n]
       PROVE  j = n
  <2>1. from[j] = from[n]
    BY <1>2, <1>5, <1>6, <1>13
  <2>2. QED
    BY <1>7, <2>1
<1>14. QED
  BY <1>3, <1>11, <1>12, <1>13 DEF LockIsAQueue

\* The head's release is a case of it.
LEMMA HeadLeaves ==
    ASSUME TokenTypes, LockIsAQueue, token_lock # <<>>, token_lock' = Tail(token_lock),
           NEW s \in {"using", "failed"}, token_pc' = [token_pc EXCEPT ![token_lock[1]] = s]
    PROVE  LockIsAQueue'
<1>1. token_lock \in Seq(TokenCaller) /\ Len(token_lock) \in Nat /\ 1 \in 1 .. Len(token_lock)
  BY DEF LockIsAQueue
<1>2. token_lock' = Tokens!Without(token_lock, 1)
  <2>1. \A j \in 1 .. Len(token_lock) - 1 : (IF j < 1 THEN j ELSE j + 1) = j + 1
    BY <1>1
  <2>2. Len(Tail(token_lock)) = Len(token_lock) - 1 /\ Tail(token_lock) \in Seq(TokenCaller)
    BY <1>1
  <2>3. \A j \in 1 .. Len(token_lock) - 1 : Tail(token_lock)[j] = token_lock[j + 1]
    BY <1>1
  <2>4. Tail(token_lock) = [j \in 1 .. Len(token_lock) - 1 |-> token_lock[j + 1]]
    <3>1. PICK r : r = Tail(token_lock)
      OBVIOUS
    <3>2. r \in Seq(TokenCaller) /\ Len(r) = Len(token_lock) - 1
      BY <2>2, <3>1
    <3>3. r \in [1 .. Len(token_lock) - 1 -> TokenCaller]
      BY <3>2
    <3>4. \A j \in 1 .. Len(token_lock) - 1 : r[j] = token_lock[j + 1]
      BY <2>3, <3>1
    <3>5. r = [j \in 1 .. Len(token_lock) - 1 |-> token_lock[j + 1]]
      BY <3>3, <3>4
    <3>6. QED
      BY <3>1, <3>5
  <2>5. QED
    BY <2>1, <2>4 DEF Tokens!Without
<1>3. QED
  BY <1>1, <1>2, OneLeaves

\* The fetching caller is the head, and alone.
LEMMA FetcherIsFirst ==
    ASSUME LockIsAQueue, NEW c \in TokenCaller, token_pc[c] = "fetching"
    PROVE  /\ token_lock # <<>> /\ token_lock[1] = c
           /\ \A d \in TokenCaller : token_pc[d] = "fetching" => d = c
BY DEF LockIsAQueue

\* Who finds no token joins at the end.
LEMMA OneJoins ==
    ASSUME TokenTypes, LockIsAQueue, NEW c \in TokenCaller, token_pc[c] = "idle",
          token_lock' = token_lock \o <<c>>,
           token_pc' = [token_pc EXCEPT ![c] = "locking"]
    PROVE  LockIsAQueue'
<1>1. token_lock \in Seq(TokenCaller) /\ Len(token_lock) \in Nat
  BY DEF LockIsAQueue
<1>2. /\ token_lock' \in Seq(TokenCaller) /\ Len(token_lock') = Len(token_lock) + 1
      /\ token_lock'[Len(token_lock) + 1] = c
      /\ \A i \in 1 .. Len(token_lock) : token_lock'[i] = token_lock[i]
  BY <1>1
<1>3. \A i \in 1 .. Len(token_lock') : i \in 1 .. Len(token_lock) \/ i = Len(token_lock) + 1
  BY <1>1, <1>2
<1>4. \A i \in 1 .. Len(token_lock) : i \in 1 .. Len(token_lock')
          /\ token_lock[i] \in TokenCaller /\ token_lock[i] # c
  BY <1>1, <1>2 DEF LockIsAQueue
<1>5. \A d \in TokenCaller : token_pc'[d] = IF d = c THEN "locking" ELSE token_pc[d]
  BY DEF TokenTypes
<1>6. ASSUME NEW d \in TokenCaller, token_pc'[d] \in {"locking", "fetching"}
      PROVE  \E i \in 1 .. Len(token_lock') : token_lock'[i] = d
  <2>1. CASE d = c
    <3>1. Len(token_lock) + 1 \in 1 .. Len(token_lock')
      BY <1>1, <1>2
    <3>2. QED
      BY <1>2, <2>1, <3>1
  <2>2. CASE d # c
    <3>1. PICK i \in 1 .. Len(token_lock) : token_lock[i] = d
      BY <1>5, <1>6, <2>2 DEF LockIsAQueue
    <3>2. QED
      BY <1>2, <1>4, <3>1
  <2>3. QED
    BY <2>1, <2>2
<1>7. ASSUME NEW i \in 1 .. Len(token_lock')
      PROVE  token_pc'[token_lock'[i]] = "locking"
            \/ (token_pc'[token_lock'[i]] = "fetching" /\ i = 1)
  <2>1. CASE i \in 1 .. Len(token_lock)
    <3>1. token_lock'[i] = token_lock[i] /\ token_pc'[token_lock'[i]] = token_pc[token_lock[i]]
      BY <1>2, <1>4, <1>5, <2>1
    <3>2. QED
      BY <2>1, <3>1 DEF LockIsAQueue
  <2>2. CASE i = Len(token_lock) + 1
    BY <1>2, <1>5, <2>2
  <2>3. QED
    BY <1>3, <2>1, <2>2
<1>8. ASSUME NEW i \in 1 .. Len(token_lock'), NEW j \in 1 .. Len(token_lock'),
          token_lock'[i] = token_lock'[j]
      PROVE  i = j
  <2>1. CASE i \in 1 .. Len(token_lock) /\ j \in 1 .. Len(token_lock)
    <3>1. token_lock[i] = token_lock[j]
      BY <1>2, <1>8, <2>1
    <3>2. QED
      BY <2>1, <3>1 DEF LockIsAQueue
  <2>2. CASE i = Len(token_lock) + 1 \/ j = Len(token_lock) + 1
    BY <1>2, <1>3, <1>4, <1>8, <2>2
  <2>3. QED
    BY <1>3, <2>1, <2>2
<1>9. QED
  BY <1>2, <1>6, <1>7, <1>8 DEF LockIsAQueue

LEMMA TokenStep == TokenInv /\ [Tokens!Next]_Tokens!vars => TokenInv'
<1> SUFFICES ASSUME TokenTypes, LockIsAQueue, CacheIsRight, FetchedWhenNone,
          [Tokens!Next]_Tokens!vars
             PROVE  TokenInv'
  BY DEF TokenInv
<1> USE ConnectionsAssumption DEF Tokens!NoToken
<1>1. ASSUME NEW c \in TokenCaller, Tokens!Ask(c)
      PROVE  TokenInv'
  <2>1. PICK k \in Key :
           /\ token_wants' = [token_wants EXCEPT ![c] = k]
           /\ \/ Tokens!Usable(k) /\ Tokens!Return(c, token_cache[k]) /\ UNCHANGED token_lock
              \/ ~Tokens!Usable(k) /\ Tokens!Goto(c, "locking")
                    /\ token_lock' = token_lock \o <<c>> /\ UNCHANGED token_uses
    BY <1>1 DEF Tokens!Ask
  <2>2. token_pc[c] = "idle" /\ UNCHANGED <<token_cache, token_issued, token_nearing>>
    BY <1>1 DEF Tokens!Ask
  <2>3. CASE Tokens!Usable(k) /\ Tokens!Return(c, token_cache[k]) /\ UNCHANGED token_lock
    <3>1. token_pc' = [token_pc EXCEPT ![c] = "using"]
              /\ token_uses' = [token_uses EXCEPT ![c] = token_cache[k]] /\ token_cache[k] \in Nat
      BY <2>3 DEF Tokens!Return, Tokens!Goto, TokenTypes
    <3>2. TokenTypes'
      BY <2>1, <2>2, <3>1 DEF TokenTypes
    <3>3. LockIsAQueue'
      <4>1. \A i \in 1 .. Len(token_lock) : token_lock[i] \in TokenCaller /\ token_lock[i] # c
        BY <2>2 DEF LockIsAQueue
      <4>2. \A d \in TokenCaller : d # c => token_pc'[d] = token_pc[d]
        BY <3>1 DEF TokenTypes
      <4>3. token_pc'[c] = "using"
        BY <3>1 DEF TokenTypes
      <4>4. QED
        BY <2>3, <4>1, <4>2, <4>3 DEF LockIsAQueue
    <3>4. CacheIsRight'
      BY <2>2 DEF CacheIsRight
    <3>5. FetchedWhenNone'
      BY <2>1, <2>2, <3>1 DEF FetchedWhenNone, TokenTypes, Tokens!Usable
    <3>6. QED
      BY <3>2, <3>3, <3>4, <3>5 DEF TokenInv
  <2>4. CASE ~Tokens!Usable(k) /\ Tokens!Goto(c, "locking")
            /\ token_lock' = token_lock \o <<c>> /\ UNCHANGED token_uses
    <3>1. token_pc' = [token_pc EXCEPT ![c] = "locking"]
      BY <2>4 DEF Tokens!Goto
    <3>2. TokenTypes'
      BY <2>1, <2>2, <2>4, <3>1 DEF TokenTypes
    <3>3. LockIsAQueue'
      BY <2>2, <2>4, <3>1, OneJoins
    <3>4. CacheIsRight'
      BY <2>2 DEF CacheIsRight
    <3>5. FetchedWhenNone'
      BY <2>1, <2>2, <3>1 DEF FetchedWhenNone, TokenTypes, Tokens!Usable
    <3>6. QED
      BY <3>2, <3>3, <3>4, <3>5 DEF TokenInv
  <2>5. QED
    BY <2>1, <2>3, <2>4
<1>2. ASSUME NEW c \in TokenCaller, Tokens!Locked(c)
      PROVE  TokenInv'
  <2>1. token_pc[c] = "locking" /\ UNCHANGED <<token_wants, token_cache, token_issued,
            token_nearing>>
    BY <1>2 DEF Tokens!Locked
  <2>2. token_lock # <<>> /\ token_lock[1] = c /\ Len(token_lock) \in Nat
                          /\ 1 \in 1 .. Len(token_lock)
    <3>1. PICK i \in 1 .. Len(token_lock) : token_lock[i] = c
      BY <2>1 DEF LockIsAQueue
    <3>2. token_lock \in Seq(TokenCaller) /\ token_lock # <<>>
      BY <3>1 DEF LockIsAQueue
    <3>3. QED
      BY <1>2, <3>2 DEF Tokens!Locked
  <2>3. CacheIsRight'
    BY <2>1 DEF CacheIsRight
  <2>4. CASE Tokens!Usable(token_wants[c]) /\ Tokens!Return(c, token_cache[token_wants[c]])
            /\ token_lock' = Tail(token_lock)
    <3>1. /\ token_pc' = [token_pc EXCEPT ![c] = "using"]
          /\ token_uses' = [token_uses EXCEPT ![c] = token_cache[token_wants[c]]]
          /\ token_cache[token_wants[c]] \in Nat
      BY <2>4 DEF Tokens!Return, Tokens!Goto, TokenTypes
    <3>2. TokenTypes'
      BY <2>1, <3>1 DEF TokenTypes
    <3>3. LockIsAQueue'
      BY <2>2, <2>4, <3>1, HeadLeaves
    <3>4. FetchedWhenNone'
      BY <2>1, <3>1 DEF FetchedWhenNone, TokenTypes, Tokens!Usable
    <3>5. QED
      BY <2>3, <3>2, <3>3, <3>4 DEF TokenInv
  <2>5. CASE ~Tokens!Usable(token_wants[c]) /\ Tokens!Goto(c, "fetching")
            /\ UNCHANGED <<token_uses, token_lock>>
    <3>1. token_pc' = [token_pc EXCEPT ![c] = "fetching"]
      BY <2>5 DEF Tokens!Goto
    <3>2. TokenTypes'
      BY <2>1, <2>5, <3>1 DEF TokenTypes
    <3>3. \A d \in TokenCaller : token_pc'[d] = IF d = c THEN "fetching" ELSE token_pc[d]
      BY <3>1 DEF TokenTypes
    <3>4. LockIsAQueue'
      <4>1. \A i \in 1 .. Len(token_lock) : token_lock[i] \in TokenCaller
                /\ (token_lock[i] = c => i = 1)
        BY <2>2 DEF LockIsAQueue
      <4>2. UNCHANGED token_lock
        BY <2>5
      <4>3. \A d \in TokenCaller : token_pc'[d] \in {"locking", "fetching"} =>
                token_pc[d] \in {"locking", "fetching"}
        BY <2>1, <3>3
      <4>4. \A i \in 1 .. Len(token_lock) :
                token_pc'[token_lock[i]] = "locking"
                      \/ (token_pc'[token_lock[i]] = "fetching" /\ i = 1)
        BY <3>3, <4>1 DEF LockIsAQueue
      <4>5. QED
        BY <4>2, <4>3, <4>4 DEF LockIsAQueue
    <3>5. FetchedWhenNone'
      BY <2>1, <2>5, <3>3 DEF FetchedWhenNone, Tokens!Usable
    <3>6. QED
      BY <2>3, <3>2, <3>4, <3>5 DEF TokenInv
  <2>6. QED
    BY <1>2, <2>4, <2>5 DEF Tokens!Locked
<1>3. ASSUME NEW c \in TokenCaller, Tokens!Fetched(c)
      PROVE  TokenInv'
  <2>1. /\ token_pc[c] = "fetching" /\ token_pc' = [token_pc EXCEPT ![c] = "using"]
        /\ token_issued' = token_issued \o <<token_wants[c]>>
        /\ token_cache' = [token_cache EXCEPT ![token_wants[c]] = Len(token_issued')]
        /\ token_uses' = [token_uses EXCEPT ![c] = Len(token_issued')]
        /\ token_lock' = Tail(token_lock) /\ UNCHANGED <<token_wants, token_nearing>>
    BY <1>3 DEF Tokens!Fetched, Tokens!Return, Tokens!Goto
  <2>2. token_lock # <<>> /\ token_lock[1] = c
                          /\ \A d \in TokenCaller : token_pc[d] = "fetching" => d = c
    BY <2>1, FetcherIsFirst
  <2>3. LockIsAQueue'
    BY <2>1, <2>2, HeadLeaves
  <2>4. token_issued \in Seq(Key) /\ Len(token_issued) \in Nat /\ token_wants[c] \in Key
    BY DEF TokenTypes
  <2>5. /\ token_issued' \in Seq(Key) /\ Len(token_issued') = Len(token_issued) + 1
        /\ token_issued'[Len(token_issued) + 1] = token_wants[c]
        /\ \A t \in 1 .. Len(token_issued) : token_issued'[t] = token_issued[t]
              /\ token_issued[t] \in Key
    BY <2>1, <2>4
  <2>6. \A k \in Key : token_cache'[k] = IF k = token_wants[c] THEN Len(token_issued) + 1 ELSE token_cache[k]
    BY <2>1, <2>5 DEF TokenTypes
  <2>7. TokenTypes'
    <3>1. token_cache' \in [Key -> 0 .. Len(token_issued')]
              /\ token_nearing' \subseteq 1 .. Len(token_issued')
      BY <2>1, <2>4, <2>5 DEF TokenTypes
    <3>2. token_pc' \in [TokenCaller -> {"idle", "locking", "fetching", "using", "failed"}]
      BY <2>1 DEF TokenTypes
    <3>3. token_uses' \in [TokenCaller -> Nat] /\ token_wants' \in [TokenCaller -> Key]
      BY <2>1, <2>4, <2>5 DEF TokenTypes
    <3>4. QED
      BY <2>5, <3>1, <3>2, <3>3 DEF TokenTypes
  <2>8. ASSUME NEW k \in Key, token_cache'[k] # Tokens!NoToken
        PROVE  token_issued'[token_cache'[k]] = k
    <3>1. CASE k = token_wants[c]
      BY <2>5, <2>6, <3>1
    <3>2. CASE k # token_wants[c]
      <4>1. token_cache'[k] = token_cache[k] /\ token_cache[k] \in 1 .. Len(token_issued)
                /\ token_issued[token_cache[k]] = k
        BY <2>4, <2>6, <2>8, <3>2 DEF TokenTypes, CacheIsRight
      <4>2. QED
        BY <2>5, <4>1
    <3>3. QED
      BY <3>1, <3>2
  <2>9. ASSUME NEW t \in 1 .. Len(token_issued'), t \notin token_nearing'
        PROVE  token_cache'[token_issued'[t]] = t
    <3>1. CASE t = Len(token_issued) + 1
      BY <2>4, <2>5, <2>6, <3>1
    <3>2. CASE t \in 1 .. Len(token_issued)
      <4>1. token_issued'[t] = token_issued[t] /\ token_issued[t] \in Key
                /\ token_cache[token_issued[t]] = t
        BY <2>1, <2>5, <2>9, <3>2 DEF CacheIsRight
      <4>2. token_cache[token_issued[t]] # Tokens!NoToken
                /\ token_cache[token_issued[t]] \notin token_nearing
        BY <2>1, <2>9, <3>2, <4>1
      <4>3. token_issued[t] # token_wants[c]
        BY <2>1, <4>2 DEF FetchedWhenNone, Tokens!Usable
      <4>4. QED
        BY <2>6, <4>1, <4>3
    <3>3. QED
      BY <2>4, <2>5, <3>1, <3>2
  <2>10. CacheIsRight'
    BY <2>8, <2>9 DEF CacheIsRight
  <2>11. FetchedWhenNone'
    <3>1. \A d \in TokenCaller : token_pc'[d] # "fetching"
      BY <2>1, <2>2 DEF TokenTypes
    <3>2. QED
      BY <3>1 DEF FetchedWhenNone
  <2>12. QED
    BY <2>3, <2>7, <2>10, <2>11 DEF TokenInv
<1>4. ASSUME NEW c \in TokenCaller, Tokens!FetchFails(c) \/ Tokens!Cancelled(c)
      PROVE  TokenInv'
  <2>1. token_pc' = [token_pc EXCEPT ![c] = "failed"]
            /\ UNCHANGED <<token_wants, token_uses, token_cache, token_issued, token_nearing>>
    BY <1>4 DEF Tokens!FetchFails, Tokens!Cancelled, Tokens!Goto
  <2>2. TokenTypes'
    BY <2>1 DEF TokenTypes
  <2>3. CacheIsRight'
    BY <2>1 DEF CacheIsRight
  <2>4. FetchedWhenNone'
    BY <2>1 DEF FetchedWhenNone, TokenTypes, Tokens!Usable
  <2>5. CASE Tokens!FetchFails(c)
    <3>1. token_lock # <<>> /\ token_lock[1] = c /\ token_lock' = Tail(token_lock)
      BY <2>5, FetcherIsFirst DEF Tokens!FetchFails
    <3>2. QED
      BY <2>1, <2>2, <2>3, <2>4, <3>1, HeadLeaves DEF TokenInv
  <2>6. CASE Tokens!Cancelled(c)
    <3>1. PICK i \in 1 .. Len(token_lock) : token_lock[i] = c
              /\ token_lock' = Tokens!Without(token_lock, i)
      BY <2>6 DEF Tokens!Cancelled, LockIsAQueue
    <3>2. QED
      BY <2>1, <2>2, <2>3, <2>4, <3>1, OneLeaves DEF TokenInv
  <2>7. QED
    BY <1>4, <2>5, <2>6
<1>5. ASSUME NEW c \in TokenCaller, Tokens!Done(c)
      PROVE  TokenInv'
  <2>1. /\ token_pc[c] \in {"using", "failed"} /\ token_pc' = [token_pc EXCEPT ![c] = "idle"]
        /\ token_uses' = [token_uses EXCEPT ![c] = 0]
        /\ UNCHANGED <<token_wants, token_lock, token_cache, token_issued, token_nearing>>
    BY <1>5 DEF Tokens!Done, Tokens!Goto
  <2>2. \A d \in TokenCaller : token_pc'[d] = IF d = c THEN "idle" ELSE token_pc[d]
    BY <2>1 DEF TokenTypes
  <2>3. TokenTypes'
    BY <2>1 DEF TokenTypes
  <2>4. LockIsAQueue'
    <3>1. \A i \in 1 .. Len(token_lock) : token_lock[i] \in TokenCaller /\ token_lock[i] # c
      BY <2>1 DEF LockIsAQueue
    <3>2. QED
      BY <2>1, <2>2, <3>1 DEF LockIsAQueue
  <2>5. CacheIsRight' /\ FetchedWhenNone'
    BY <2>1, <2>2 DEF CacheIsRight, FetchedWhenNone, Tokens!Usable
  <2>6. QED
    BY <2>3, <2>4, <2>5 DEF TokenInv
<1>6. ASSUME NEW t \in DOMAIN token_issued \ token_nearing, token_nearing' = token_nearing \cup {t},
             UNCHANGED <<Tokens!callers, token_lock, token_cache, token_issued, token_faults>>
      PROVE  TokenInv'
  <2>1. UNCHANGED <<token_pc, token_wants, token_uses>> /\ t \in 1 .. Len(token_issued)
    BY <1>6 DEF Tokens!callers, TokenTypes
  <2>2. TokenTypes'
    BY <1>6, <2>1 DEF TokenTypes
  <2>3. LockIsAQueue'
    BY <1>6, <2>1 DEF LockIsAQueue
  <2>4. CacheIsRight' /\ FetchedWhenNone'
    BY <1>6, <2>1 DEF CacheIsRight, FetchedWhenNone, Tokens!Usable
  <2>5. QED
    BY <2>2, <2>3, <2>4 DEF TokenInv
<1>7. CASE UNCHANGED Tokens!vars
  <2>1. UNCHANGED <<token_pc, token_wants, token_uses, token_lock, token_cache, token_issued,
            token_nearing>>
    BY <1>7 DEF Tokens!vars, Tokens!callers
  <2>2. QED
    BY <2>1 DEF TokenInv, TokenTypes, LockIsAQueue, CacheIsRight, FetchedWhenNone,
                Tokens!Usable
<1>8. QED
  BY <1>1, <1>2, <1>3, <1>4, <1>5, <1>6, <1>7 DEF Tokens!Next, Tokens!CallerStep,
  Tokens!NearExpiry

LEMMA OneGood == TokenInv => Tokens!OneGoodToken
<1> SUFFICES ASSUME TokenInv, NEW k \in Key, NEW s \in Tokens!GoodTokens(k),
          NEW t \in Tokens!GoodTokens(k)
             PROVE  s = t
  BY DEF Tokens!OneGoodToken
<1>1. Tokens!GoodTokens(k) \subseteq {token_cache[k]}
  BY DEF TokenInv, TokenTypes, CacheIsRight, Tokens!GoodTokens
<1>2. QED
  BY <1>1

LEMMA Authorized ==
    TokenInv /\ [Tokens!Next]_Tokens!vars =>
        \A c \in TokenCaller :
            token_uses[c] = Tokens!NoToken /\ token_uses'[c] # Tokens!NoToken
                => token_uses'[c] \notin token_nearing'
                      /\ token_issued'[token_uses'[c]] = token_wants'[c]
<1> SUFFICES ASSUME TokenTypes, CacheIsRight, [Tokens!Next]_Tokens!vars,
                    NEW c \in TokenCaller, token_uses[c] = Tokens!NoToken,
                          token_uses'[c] # Tokens!NoToken
             PROVE  token_uses'[c] \notin token_nearing'
                   /\ token_issued'[token_uses'[c]] = token_wants'[c]
  BY DEF TokenInv
<1>1. CASE Tokens!Ask(c)
  <2>1. PICK k \in Key :
           /\ token_wants' = [token_wants EXCEPT ![c] = k]
           /\ Tokens!Usable(k) /\ token_uses' = [token_uses EXCEPT ![c] = token_cache[k]]
    BY <1>1 DEF Tokens!Ask, Tokens!Return
  <2>2. UNCHANGED <<token_cache, token_issued, token_nearing>>
    BY <1>1 DEF Tokens!Ask
  <2>3. token_uses'[c] = token_cache[k] /\ token_wants'[c] = k
    BY <2>1 DEF TokenTypes
  <2>4. QED
    BY <2>1, <2>2, <2>3 DEF Tokens!Usable, CacheIsRight
<1>2. CASE Tokens!Locked(c)
  <2>1. Tokens!Usable(token_wants[c]) /\ token_uses' = [token_uses EXCEPT ![c] = token_cache[token_wants[c]]]
    BY <1>2 DEF Tokens!Locked, Tokens!Return
  <2>2. UNCHANGED <<token_wants, token_cache, token_issued, token_nearing>>
    BY <1>2 DEF Tokens!Locked
  <2>3. token_uses'[c] = token_cache[token_wants[c]] /\ token_wants[c] \in Key
    BY <2>1 DEF TokenTypes
  <2>4. QED
    BY <2>1, <2>2, <2>3 DEF Tokens!Usable, CacheIsRight
<1>3. CASE Tokens!Fetched(c)
  <2>1. /\ token_issued' = token_issued \o <<token_wants[c]>>
        /\ token_uses' = [token_uses EXCEPT ![c] = Len(token_issued')]
        /\ UNCHANGED <<token_wants, token_nearing>>
    BY <1>3 DEF Tokens!Fetched, Tokens!Return
  <2>2. token_issued \in Seq(Key) /\ token_wants[c] \in Key
            /\ token_nearing \subseteq 1 .. Len(token_issued)
    BY DEF TokenTypes
  <2>3. Len(token_issued') = Len(token_issued) + 1
            /\ token_issued'[Len(token_issued')] = token_wants[c]
    BY <2>1, <2>2
  <2>4. token_uses'[c] = Len(token_issued') /\ Len(token_issued') \notin token_nearing
    BY <2>1, <2>2, <2>3 DEF TokenTypes
  <2>5. QED
    BY <2>1, <2>3, <2>4
<1>4. ASSUME NEW d \in TokenCaller, Tokens!Ask(d) \/ Tokens!Locked(d) \/ Tokens!Fetched(d), d # c
      PROVE  token_uses'[c] = token_uses[c]
  BY <1>4 DEF Tokens!Ask, Tokens!Locked, Tokens!Fetched, Tokens!Return, TokenTypes
<1>5. ASSUME NEW d \in TokenCaller, Tokens!FetchFails(d) \/ Tokens!Cancelled(d) \/ Tokens!Done(d)
      PROVE  token_uses'[c] = Tokens!NoToken \/ token_uses'[c] = token_uses[c]
  BY <1>5 DEF Tokens!FetchFails, Tokens!Cancelled, Tokens!Done, TokenTypes
<1>6. QED
  BY <1>1, <1>2, <1>3, <1>4, <1>5 DEF Tokens!Next, Tokens!CallerStep, Tokens!NearExpiry,
                                      Tokens!vars, Tokens!callers

\* The part of the run that is the access tokens: the others leave it alone.
LEMMA TokenOfTheRun ==
    ConnectionsSpec => Tokens!Init /\ [][Tokens!Next]_Tokens!vars
<1>1. ConnectionsInit => Tokens!Init
  BY DEF ConnectionsInit
<1>2. [ConnectionsNext]_<<part, vars, socketVars, slackVars, spaceVars, tokenVars>>
          => [Tokens!Next]_Tokens!vars
  BY DEF ConnectionsNext, tokenVars, Tokens!vars, Tokens!callers
<1>3. QED
  BY <1>1, <1>2, PTL DEF ConnectionsSpec

\* Whoever waits, is cancelled or fails to fetch: a key has one good token, and a
\* request is given a token of its own key that is not about to expire.
THEOREM TokensServeAll == ConnectionsSpec => TokensAreShared
<1>1. TokenInv /\ [Tokens!Next]_Tokens!vars =>
          [\A c \in TokenCaller :
               token_uses[c] = Tokens!NoToken /\ token_uses'[c] # Tokens!NoToken
                   => token_uses'[c] \notin token_nearing'
                      /\ token_issued'[token_uses'[c]] = token_wants'[c]]_Tokens!vars
  BY Authorized
<1>2. ConnectionsSpec => []Tokens!OneGoodToken
  BY TokenOfTheRun, TokenInit, TokenStep, OneGood, PTL
<1>3. ConnectionsSpec => Tokens!RequestsAreAuthorized
  BY <1>1, TokenOfTheRun, TokenInit, TokenStep, PTL DEF Tokens!RequestsAreAuthorized
<1>4. QED
  BY <1>2, <1>3 DEF TokensAreShared, Tokens!TokensAreShared
=============================================================================
