---------------------------- MODULE ChatDispatch ----------------------------
(***************************************************************************)
(* How Chat routes the messages of one lock key: deduplication, the thread *)
(* lock, and the drop, queue, debounce and burst strategies.               *)
(*                                                                         *)
(* Every delivery of a webhook is a task of its own, in any process of the *)
(* deployment; the lock, the queue and the dedupe keys live in the shared  *)
(* state backend.  Each call to the backend is one step, so the calls of   *)
(* two tasks interleave as they do over a network.  What a heartbeat does  *)
(* to a lease in time is module LockHeartbeat; here a lease simply may     *)
(* lapse under its holder, and the holder may or may not have noticed.     *)
(*                                                                         *)
(* A definition whose comment starts with "Mutant" is not part of the      *)
(* model: it is the bug that the property it names would catch.            *)
(***************************************************************************)
EXTENDS Integers, Sequences, FiniteSets, SequencesExt

CONSTANTS
    Delivery,       \* webhook deliveries; each is handled by one task
    MessageOf,      \* the message (platform id) that a delivery carries
    ThreadOf,       \* the thread of that message; all share one lock key
    Configs,        \* the configurations a Chat may be created with
    MaxQueueSize,   \* max_queue_size
    MaxFaults,      \* for each strategy, a bound on the faults of a behaviour
    NoOne           \* the holder of a free lock

ASSUME DispatchAssumption ==
    /\ Configs \subseteq
         [strategy : {"drop", "queue", "debounce", "burst"},
          onLockConflict : {"drop", "force", "callback"},
          onQueueFull : {"drop-oldest", "drop-newest"}]
    /\ MaxQueueSize \in Nat \ {0}
    /\ \A c \in Configs : MaxFaults[c.strategy] \in Nat
    /\ NoOne \notin Delivery
    /\ DOMAIN MessageOf = Delivery
    /\ DOMAIN ThreadOf = Delivery

VARIABLES
    config,   \* how this Chat is configured
    keys,     \* messages with a live dedupe key
    lock,     \* the delivery whose task holds the lock, or NoOne
    queue,    \* the pending queue of the lock key, oldest first
    stale,    \* queued deliveries past their expires_at
    pc,       \* what each delivery's task does next
    pending,  \* entries a task has dequeued in this round
    skipped,  \* superseded entries a debounce loop has accumulated
    lost,     \* tasks whose is_ownership_lost() is true
    handled,  \* history: the calls of the handlers
    gone,     \* history: why a delivery left without reaching a handler
    arrivals, \* history: deliveries in the order they were let in or queued
    late,     \* history: entries queued when nobody was left to drain them
    lapsed,   \* history: messages whose dedupe key expired
    usurped,  \* history: tasks whose lock was taken from them
    faults    \* history: faults so far

taskVars == <<pc, pending, skipped, lost>>
history  == <<handled, gone, arrivals, late, lapsed, usurped>>
vars     == <<config, keys, lock, queue, stale, taskVars, history, faults>>

\* The concurrency strategy, what drop does when the lock is taken, and what
\* the others do when the queue is full.
Strategy       == config.strategy
OnLockConflict == config.onLockConflict
OnQueueFull    == config.onQueueFull

\* Before its message is dispatched or queued a task is at one of these.
Arriving == {"new", "acquiring", "conflict", "reacquiring", "busy", "enqueuing"}

\* The states of a task that runs inside _with_held_lock.
Holding == {"buffering", "window", "taking", "counting", "handling"}

Final == {"duplicate", "rejected", "dropped", "queued", "done", "cancelled",
          "crashed"}

\* The tasks that will look at the queue again.
Drainers == {d \in Delivery : Strategy # "drop" /\ pc[d] \in Holding}

Goto(d, label) == pc' = [pc EXCEPT ![d] = label]

\* The deliveries in S leave for the reason given.
Lose(S, why) == gone' = [d \in Delivery |-> IF d \in S THEN why ELSE gone[d]]

Init ==
    /\ config \in Configs
    /\ keys = {}
    /\ lock = NoOne
    /\ queue = <<>>
    /\ stale = {}
    /\ pc = [d \in Delivery |-> "new"]
    /\ pending = [d \in Delivery |-> <<>>]
    /\ skipped = [d \in Delivery |-> <<>>]
    /\ lost = {}
    /\ handled = <<>>
    /\ gone = [d \in Delivery |-> "no"]
    /\ arrivals = <<>>
    /\ late = {}
    /\ lapsed = {}
    /\ usurped = {}
    /\ faults = 0

-----------------------------------------------------------------------------
(* Routing *)

\* Mutant (SurfacedOnce): the key is written but the answer not looked at.
DeduplicateNobody(d) ==
    /\ pc[d] = "new"
    /\ Goto(d, "acquiring")
    /\ keys' = keys \cup {MessageOf[d]}
    /\ UNCHANGED <<lock, queue, stale, pending, skipped, lost, history, faults>>

\* set_if_not_exists claims the dedupe key before anything is done with the
\* message; a redelivery within its TTL ends here.
Deduplicate(d) ==
    /\ pc[d] = "new"
    /\ Goto(d, IF MessageOf[d] \in keys THEN "duplicate" ELSE "acquiring")
    /\ keys' = keys \cup {MessageOf[d]}
    /\ UNCHANGED <<lock, queue, stale, pending, skipped, lost, history, faults>>

\* _dispatch_to_handlers starts, called by task d for the latest message, in
\* the given thread; of the older messages it is given those of that thread.
Dispatch(d, latest, older, thread) ==
    handled' = Append(handled, [by |-> d, latest |-> latest, older |-> older,
                                thread |-> thread])

\* A task that got the lock enters _with_held_lock: drop and queue dispatch
\* their message at once, debounce and burst put it into the queue first.
EnterHeldLock(d) ==
    /\ lock' = d
    /\ IF Strategy \in {"drop", "queue"}
         THEN /\ Goto(d, "handling")
              /\ Dispatch(d, d, <<>>, ThreadOf[d])
              /\ arrivals' = Append(arrivals, d)
         ELSE /\ Goto(d, "buffering")
              /\ UNCHANGED <<handled, arrivals>>
    /\ UNCHANGED <<keys, queue, stale, pending, skipped, lost, gone, late,
                   lapsed, usurped, faults>>

\* acquire_lock wins a free lock.
Acquire(d) ==
    /\ pc[d] = "acquiring"
    /\ lock = NoOne
    /\ EnterHeldLock(d)

\* acquire_lock returns None: drop consults its conflict policy, the other
\* strategies ask how deep the queue is.
AcquireFails(d) ==
    /\ pc[d] = "acquiring"
    /\ lock # NoOne
    /\ Goto(d, IF Strategy = "drop" THEN "conflict" ELSE "busy")
    /\ UNCHANGED <<keys, lock, queue, stale, pending, skipped, lost, history,
                   faults>>

-----------------------------------------------------------------------------
(* The drop strategy's conflict policy *)

\* LockError: the message is turned away.
Reject(d) ==
    /\ \/ pc[d] = "conflict" /\ OnLockConflict \in {"drop", "callback"}
       \/ pc[d] = "reacquiring" /\ lock # NoOne
    /\ Goto(d, "rejected")
    /\ Lose({d}, "rejected")
    /\ UNCHANGED <<keys, lock, queue, stale, pending, skipped, lost, handled,
                   arrivals, late, lapsed, usurped, faults>>

\* force_release_lock deletes the lock of whoever holds it by now ...
ForceRelease(d) ==
    /\ pc[d] = "conflict"
    /\ OnLockConflict \in {"force", "callback"}
    /\ lock' = NoOne
    /\ usurped' = usurped \cup ({lock} \ {NoOne})
    /\ Goto(d, "reacquiring")
    /\ UNCHANGED <<keys, queue, stale, pending, skipped, lost, handled, gone,
                   arrivals, late, lapsed, faults>>

\* Mutant (HandlersHoldTheLock): having forced the lock, take it as acquired.
ReacquireAnyway(d) ==
    /\ pc[d] = "reacquiring"
    /\ EnterHeldLock(d)

\* ... and a second call acquires it, if nobody else was faster.
Reacquire(d) ==
    /\ pc[d] = "reacquiring"
    /\ lock = NoOne
    /\ EnterHeldLock(d)

-----------------------------------------------------------------------------
(* Queueing behind a holder *)

\* queue_depth, and drop-newest's decision on what it returned.  Debounce
\* never turns a message away.
ReadDepth(d) ==
    /\ pc[d] = "busy"
    /\ IF /\ Len(queue) >= MaxQueueSize
          /\ Strategy # "debounce"
          /\ OnQueueFull = "drop-newest"
         THEN Goto(d, "dropped") /\ Lose({d}, "dropped")
         ELSE Goto(d, "enqueuing") /\ UNCHANGED gone
    /\ UNCHANGED <<keys, lock, queue, stale, pending, skipped, lost, handled,
                   arrivals, late, lapsed, usurped, faults>>

\* The backend's enqueue: append, then drop the oldest beyond MaxQueueSize.
Push(d) ==
    LET all     == Append(queue, d)
        surplus == Len(all) - MaxQueueSize
    IN  /\ queue' = IF surplus > 0 THEN SubSeq(all, surplus + 1, Len(all)) ELSE all
        /\ Lose(ToSet(all) \ ToSet(queue'), "evicted")
        /\ arrivals' = Append(arrivals, d)

\* A task that found the lock busy leaves its message to the holder, whoever
\* that is by now.
EnqueueBehind(d) ==
    /\ pc[d] = "enqueuing"
    /\ Push(d)
    /\ Goto(d, "queued")
    /\ late' = IF Drainers = {} THEN late \cup {d} ELSE late
    /\ UNCHANGED <<keys, lock, stale, pending, skipped, lost, handled, lapsed,
                   usurped, faults>>

\* The holder of a debounce or burst lock queues its own message.
EnqueueOwn(d) ==
    /\ pc[d] = "buffering"
    /\ Push(d)
    /\ Goto(d, "window")
    /\ UNCHANGED <<keys, lock, stale, pending, skipped, lost, handled, late,
                   lapsed, usurped, faults>>

-----------------------------------------------------------------------------
(* The held lock *)

\* The top of the drain loop, and of the debounce loop after its sleep: the
\* one place where lost ownership stops a task.
LoopTop(d) == IF d \in lost THEN "releasing" ELSE "taking"

\* The debounce window is over.  A loop that stops here drops the superseded
\* messages it holds.
WindowEnds(d) ==
    /\ pc[d] = "window"
    /\ Goto(d, LoopTop(d))
    /\ IF d \in lost
         THEN /\ Lose(ToSet(skipped[d]), "abandoned")
              /\ skipped' = [skipped EXCEPT ![d] = <<>>]
         ELSE UNCHANGED <<gone, skipped>>
    /\ UNCHANGED <<keys, lock, queue, stale, pending, lost, handled, arrivals,
                   late, lapsed, usurped, faults>>

\* dequeue returns an entry; one past its expires_at is dropped.
TakeOne(d) ==
    /\ pc[d] = "taking"
    /\ queue # <<>>
    /\ LET e == Head(queue)
       IN  IF e \in stale
             THEN Lose({e}, "expired") /\ UNCHANGED pending
             ELSE pending' = [pending EXCEPT ![d] = Append(@, e)] /\ UNCHANGED gone
    /\ queue' = Tail(queue)
    /\ UNCHANGED <<keys, lock, stale, pc, skipped, lost, handled, arrivals,
                   late, lapsed, usurped, faults>>

\* dequeue returns None with nothing collected: the loop is over.  Messages a
\* debounce loop holds as superseded go with it.
FindNothing(d) ==
    /\ pc[d] = "taking"
    /\ queue = <<>>
    /\ pending[d] = <<>>
    /\ Goto(d, "releasing")
    /\ Lose(ToSet(skipped[d]), "abandoned")
    /\ skipped' = [skipped EXCEPT ![d] = <<>>]
    /\ UNCHANGED <<keys, lock, queue, stale, pending, lost, handled, arrivals,
                   late, lapsed, usurped, faults>>

\* Mutant (ThreadsAreIsolated): the batch is dispatched in the thread of the
\* message that got the lock.
DispatchBatchInHoldersThread(d, older, latest) ==
    /\ Dispatch(d, latest, older, ThreadOf[d])
    /\ Lose({e \in ToSet(older) : ThreadOf[e] # ThreadOf[d]}, "foreign")
    /\ pending' = [pending EXCEPT ![d] = <<>>]
    /\ skipped' = [skipped EXCEPT ![d] = <<>>]
    /\ Goto(d, "handling")

\* The batch goes to the handlers under the thread of its latest message; the
\* entries of other threads are surfaced to nobody.
DispatchBatch(d, older, latest) ==
    /\ Dispatch(d, latest, older, ThreadOf[latest])
    /\ Lose({e \in ToSet(older) : ThreadOf[e] # ThreadOf[latest]}, "foreign")
    /\ pending' = [pending EXCEPT ![d] = <<>>]
    /\ skipped' = [skipped EXCEPT ![d] = <<>>]
    /\ Goto(d, "handling")

\* Mutant (DispatchedInOrder): the oldest pending message is processed.
DispatchOldest(d) ==
    /\ Strategy # "debounce"
    /\ pc[d] = "taking"
    /\ queue = <<>>
    /\ pending[d] # <<>>
    /\ DispatchBatch(d, Tail(pending[d]), Head(pending[d]))
    /\ UNCHANGED <<keys, lock, queue, stale, lost, arrivals, late, lapsed,
                   usurped, faults>>

\* _drain_queue: dequeue returns None after a batch was collected; its last
\* message is dispatched, without another look at the ownership.
DispatchCollected(d) ==
    /\ Strategy # "debounce"
    /\ pc[d] = "taking"
    /\ queue = <<>>
    /\ pending[d] # <<>>
    /\ DispatchBatch(d, Front(pending[d]), Last(pending[d]))
    /\ UNCHANGED <<keys, lock, queue, stale, lost, arrivals, late, lapsed,
                   usurped, faults>>

\* _debounce_loop: with a batch in hand it asks once more how deep the queue is.
StopCollecting(d) ==
    /\ Strategy = "debounce"
    /\ pc[d] = "taking"
    /\ queue = <<>>
    /\ pending[d] # <<>>
    /\ Goto(d, "counting")
    /\ UNCHANGED <<keys, lock, queue, stale, pending, skipped, lost, history,
                   faults>>

\* Mutant (NothingLostOrDoubled): the superseded message is not kept.
SupersededAndForgotten(d) ==
    /\ pc[d] = "counting"
    /\ queue # <<>>
    /\ skipped' = [skipped EXCEPT ![d] = @ \o Front(pending[d])]
    /\ pending' = [pending EXCEPT ![d] = <<>>]
    /\ Goto(d, "window")
    /\ UNCHANGED <<keys, lock, queue, stale, lost, history, faults>>

\* Something newer arrived: what was collected is superseded.
Superseded(d) ==
    /\ pc[d] = "counting"
    /\ queue # <<>>
    /\ skipped' = [skipped EXCEPT ![d] = @ \o pending[d]]
    /\ pending' = [pending EXCEPT ![d] = <<>>]
    /\ Goto(d, "window")
    /\ UNCHANGED <<keys, lock, queue, stale, lost, history, faults>>

\* Nothing newer: the last message of the burst is dispatched.
DispatchLatest(d) ==
    /\ pc[d] = "counting"
    /\ queue = <<>>
    /\ DispatchBatch(d, skipped[d] \o Front(pending[d]), Last(pending[d]))
    /\ UNCHANGED <<keys, lock, queue, stale, lost, arrivals, late, lapsed,
                   usurped, faults>>

\* Mutant (OnlyLateEntriesWait): the queue is not looked at after a handler.
HandlerReturnsForGood(d) ==
    /\ pc[d] = "handling"
    /\ Goto(d, "releasing")
    /\ UNCHANGED <<keys, lock, queue, stale, pending, skipped, lost, history,
                   faults>>

\* The handlers return, and the strategy's loop goes round.
HandlerReturns(d) ==
    /\ pc[d] = "handling"
    /\ Goto(d, CASE Strategy = "drop"     -> "releasing"
                 [] Strategy = "debounce" -> "window"
                 [] OTHER                 -> LoopTop(d))
    /\ UNCHANGED <<keys, lock, queue, stale, pending, skipped, lost, history,
                   faults>>

\* release_lock: the lock is freed if the token is still the task's.
Release(d) ==
    /\ pc[d] = "releasing"
    /\ lock' = IF lock = d THEN NoOne ELSE lock
    /\ Goto(d, "done")
    /\ UNCHANGED <<keys, queue, stale, pending, skipped, lost, history, faults>>

-----------------------------------------------------------------------------
(* Faults and time *)

\* Faults are counted, and bounded by MaxFaults.
Fault == faults < MaxFaults[Strategy] /\ faults' = faults + 1

\* What a task holds when it stops short, its own message included.
InHand(d) ==
    ToSet(pending[d]) \cup ToSet(skipped[d])
      \cup (IF pc[d] \in Arriving \cup {"buffering"} THEN {d} ELSE {})

Abandon(d) ==
    /\ Lose(InHand(d), "abandoned")
    /\ pending' = [pending EXCEPT ![d] = <<>>]
    /\ skipped' = [skipped EXCEPT ![d] = <<>>]

\* A handler raises, or shutdown() cancels the task inside fn: the loop is
\* left, the heartbeat stopped and the lock released.
UnwindHolder(d) ==
    /\ pc[d] \in Holding
    /\ Fault
    /\ Abandon(d)
    /\ Goto(d, "releasing")
    /\ UNCHANGED <<keys, lock, queue, stale, lost, handled, arrivals, late,
                   lapsed, usurped>>

\* A task ends between two calls: cancelled before it holds the lock, or
\* killed with its process anywhere.  A lock it holds stays in the backend,
\* one it was just acquiring may have been granted.
Vanish(d) ==
    /\ pc[d] \notin Final \cup {"new"}
    /\ Fault
    /\ Abandon(d)
    /\ Goto(d, IF pc[d] \in Arriving THEN "cancelled" ELSE "crashed")
    /\ \/ UNCHANGED lock
       \/ /\ pc[d] \in {"acquiring", "reacquiring"}
          /\ lock = NoOne
          /\ lock' = d
    /\ UNCHANGED <<keys, queue, stale, lost, handled, arrivals, late, lapsed,
                   usurped>>

\* Mutant (LockComesFree): locks are taken without a TTL.
OrphanStays ==
    /\ lock # NoOne
    /\ pc[lock] \in Final
    /\ UNCHANGED vars

\* The lease of a task that is gone runs out.
OrphanLapses ==
    /\ lock # NoOne
    /\ pc[lock] \in Final
    /\ lock' = NoOne
    /\ UNCHANGED <<config, keys, queue, stale, taskVars, history, faults>>

\* The lease of a running task lapses: its renewals failed or reached the cap.
LeaseLapses ==
    /\ lock # NoOne
    /\ pc[lock] \notin Final
    /\ Fault
    /\ lock' = NoOne
    /\ usurped' = usurped \cup {lock}
    /\ UNCHANGED <<keys, queue, stale, taskVars, handled, gone, arrivals, late,
                   lapsed>>

\* The heartbeat learns that the lock was lost, or believes so because the
\* backend stayed unreachable until held_until.
NoticeLoss(d) ==
    /\ pc[d] \in Holding
    /\ d \notin lost
    /\ \/ lock # d /\ UNCHANGED faults
       \/ lock = d /\ Fault
    /\ lost' = lost \cup {d}
    /\ UNCHANGED <<keys, lock, queue, stale, pc, pending, skipped, history>>

\* A queued entry outlives queue_entry_ttl_ms.
EntryExpires(e) ==
    /\ e \in ToSet(queue) \ stale
    /\ Fault
    /\ stale' = stale \cup {e}
    /\ UNCHANGED <<keys, lock, queue, taskVars, history>>

\* A dedupe key outlives dedupe_ttl_ms.
KeyExpires(m) ==
    /\ m \in keys
    /\ Fault
    /\ keys' = keys \ {m}
    /\ lapsed' = lapsed \cup {m}
    /\ UNCHANGED <<lock, queue, stale, taskVars, handled, gone, arrivals, late,
                   usurped>>

\* Every delivery has been dealt with.
Finished ==
    /\ lock = NoOne
    /\ \A d \in Delivery : pc[d] \in Final
    /\ UNCHANGED vars

\* What a task does when nothing goes wrong.
TaskStep(d) ==
    /\ \/ Deduplicate(d) \/ Acquire(d) \/ AcquireFails(d)
       \/ Reject(d) \/ ForceRelease(d) \/ Reacquire(d)
       \/ ReadDepth(d) \/ EnqueueBehind(d) \/ EnqueueOwn(d)
       \/ WindowEnds(d) \/ TakeOne(d) \/ FindNothing(d) \/ DispatchCollected(d)
       \/ StopCollecting(d) \/ Superseded(d) \/ DispatchLatest(d)
       \/ HandlerReturns(d) \/ Release(d)
    /\ UNCHANGED config

FaultStep ==
    /\ \/ \E d \in Delivery : UnwindHolder(d) \/ Vanish(d) \/ NoticeLoss(d)
       \/ \E d \in Delivery : EntryExpires(d)
       \/ \E m \in keys : KeyExpires(m)
       \/ LeaseLapses
    /\ UNCHANGED config

Next ==
    \/ \E d \in Delivery : TaskStep(d)
    \/ FaultStep
    \/ OrphanLapses
    \/ Finished

Spec == Init /\ [][Next]_vars

\* The event loop keeps running its tasks, handlers return, and a lease that
\* nobody renews runs out.
FairSpec ==
    /\ Spec
    /\ \A d \in Delivery : WF_vars(TaskStep(d) /\ pc[d] # "new")
    /\ WF_vars(OrphanLapses)

-----------------------------------------------------------------------------
(* Properties *)

\* Every variable has the shape the code gives it.
TypeOK ==
    /\ config \in Configs
    /\ keys \subseteq {MessageOf[d] : d \in Delivery}
    /\ lock \in Delivery \cup {NoOne}
    /\ queue \in Seq(Delivery)
    /\ Len(queue) <= MaxQueueSize
    /\ stale \subseteq Delivery
    /\ pc \in [Delivery -> Arriving \cup Holding \cup Final \cup {"releasing"}]
    /\ pending \in [Delivery -> Seq(Delivery)]
    /\ skipped \in [Delivery -> Seq(Delivery)]
    /\ lost \subseteq Delivery
    /\ handled \in Seq([by : Delivery, latest : Delivery, older : Seq(Delivery),
                        thread : {ThreadOf[d] : d \in Delivery}])
    /\ gone \in [Delivery -> {"no", "rejected", "dropped", "evicted", "expired",
                              "foreign", "abandoned"}]
    /\ arrivals \in Seq(Delivery)
    /\ late \subseteq Delivery
    /\ lapsed \subseteq {MessageOf[d] : d \in Delivery}
    /\ usurped \subseteq Delivery
    /\ faults \in 0 .. MaxFaults[Strategy]

\* The older messages a call of the handlers shows are those of its thread.
ShownAt(call) == {i \in DOMAIN call.older : ThreadOf[call.older[i]] = call.thread}
Shown(call)   == {call.older[i] : i \in ShownAt(call)} \cup {call.latest}

\* Where delivery d is: every place of every sequence of the state that holds it,
\* and whether it is still with its own task or gone.
Positions(kind, of, seq, d) == {<<kind, of, i>> : i \in {k \in DOMAIN seq : seq[k] = d}}

OwnPlace(d) ==
    IF pc[d] \in Arriving \cup {"buffering", "duplicate"} THEN {<<"own", 0, 0>>} ELSE {}

GonePlace(d) == IF gone[d] # "no" THEN {<<"gone", 0, 0>>} ELSE {}

ShownPlaces(d) ==
    UNION {LET call == handled[n]
           IN  {<<"shown", n, i>> : i \in {k \in ShownAt(call) : call.older[k] = d}}
                 \cup (IF call.latest = d THEN {<<"shown", n, 0>>} ELSE {}) : n \in DOMAIN handled}

\* The tasks that hold messages taken off the queue.
Carriers == {t \in Delivery : pending[t] # <<>> \/ skipped[t] # <<>>}

Places(d) ==
    OwnPlace(d) \cup GonePlace(d) \cup Positions("queue", 0, queue, d) \cup ShownPlaces(d)
      \cup UNION {Positions("pending", t, pending[t], d)
                     \cup Positions("skipped", t, skipped[t], d) : t \in Carriers}

\* A delivery is in one place at a time: still with its own task, in the
\* queue, in the hands of one drainer, shown to one handler call, or gone for
\* a recorded reason.  No interleaving of enqueue, dequeue, supersession and
\* failure loses it silently or shows it twice.
NothingLostOrDoubled ==
    \A d \in Delivery : LET places == Places(d) IN \E p \in places : places = {p}

\* The deliveries that some call of the handlers showed.
Surfaced == {d \in Delivery : \E n \in DOMAIN handled : d \in Shown(handled[n])}

\* A message reaches the handlers at most once however often the platform
\* delivers it, unless its dedupe key expired in between.
SurfacedOnce ==
    \A d, e \in Surfaced :
        /\ MessageOf[d] = MessageOf[e]
        /\ MessageOf[d] \notin lapsed
        => \A p \in ShownPlaces(d), q \in ShownPlaces(e) : p = q

\* A task inside _with_held_lock holds the lock, unless its lease lapsed or
\* somebody forced it; so two handlers of a lock key never run at once
\* otherwise.
HandlersHoldTheLock ==
    \A d \in Delivery : pc[d] \in Holding => lock = d \/ d \in usurped

\* The position of a delivery in the order of arrival.
Arrival(d) == CHOOSE i \in DOMAIN arrivals : arrivals[i] = d

\* Without faults the handlers see messages in the order they came in: within
\* a call the latest message is the newest, and a later call shows only newer
\* messages, but for those that had missed an earlier holder's drain.
DispatchedInOrder ==
    faults = 0 =>
      /\ \A i \in DOMAIN handled :
           LET older == handled[i].older
           IN  \A j \in ShownAt(handled[i]) :
                 /\ \A k \in ShownAt(handled[i]) : j < k => Arrival(older[j]) < Arrival(older[k])
                 /\ Arrival(older[j]) < Arrival(handled[i].latest)
      /\ \A i, j \in DOMAIN handled :
           i < j => \A d \in Shown(handled[i]), e \in Shown(handled[j]) :
                      Arrival(d) < Arrival(e) \/ e \in late

\* Without faults an entry is left in the queue while nobody drains it only if
\* it was queued after the last holder had found the queue empty.
OnlyLateEntriesWait ==
    faults = 0 /\ Drainers = {} => ToSet(queue) \subseteq late

\* Threads that share a channel-scoped lock do not see each other's messages:
\* a call shows those of its own thread only, and a message is passed over for
\* another thread's only in favour of one that arrived later.
ThreadsAreIsolated ==
    /\ \A i \in DOMAIN handled : \A e \in Shown(handled[i]) :
         ThreadOf[e] = ThreadOf[handled[i].latest]
    /\ \A d \in Delivery :
         gone[d] = "foreign" =>
           \E i \in DOMAIN handled :
              /\ ThreadOf[handled[i].latest] # ThreadOf[d]
              /\ Arrival(d) < Arrival(handled[i].latest)

\* Every message is accounted for, and shown to the handlers once at most.
EachMessageOnce == NothingLostOrDoubled /\ SurfacedOnce

\* What a handler call shows is in order, complete as far as a drain can be,
\* and of one thread.
BatchesAreProper == DispatchedInOrder /\ OnlyLateEntriesWait /\ ThreadsAreIsolated

\* An entry that was queued under a drainer leaves the queue.
QueuedInTimeIsDrained ==
    \A d \in Delivery :
        d \in ToSet(queue) \ late /\ faults = 0
          ~> d \notin ToSet(queue) \/ faults > 0

\* The lock always comes free again, crashes of its holder included.
LockComesFree == []<>(lock = NoOne)
=============================================================================
