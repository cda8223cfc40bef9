--------------------------- MODULE LockHeartbeat ---------------------------
(***************************************************************************)
(* The lease behind one thread lock.  Workers (tasks that handle a message *)
(* for the same lock key) contend for a row of the state backend, keep it  *)
(* alive with a _LockHeartbeat while their callback runs, and give it back *)
(* in Chat._with_held_lock.                                                *)
(*                                                                         *)
(* A call to the backend is two steps: it takes effect (…Lands, or the     *)
(* action named for it), and later its answer reaches the worker           *)
(* (…Returns).  Anything may happen in between, including time passing.    *)
(* Time is the variable clock; a call is answered within MaxDelay, and the *)
(* event loop wakes a due heartbeat within MaxLag.                         *)
(*                                                                         *)
(* A definition whose comment starts with "Mutant" is not part of the      *)
(* model: it is the bug that the property it names would catch.            *)
(***************************************************************************)
EXTENDS Integers

CONSTANTS
    Worker,       \* the tasks that want the lock; a worker is its own token
    TTL,          \* DEFAULT_LOCK_TTL_MS
    MaxLifetime,  \* ConcurrencyConfig.max_lock_lifetime_ms
    MaxDelay,     \* bound on the round trip of one backend call
    MaxLag,       \* bound on how late the event loop runs a due heartbeat
    MaxClock,     \* bound of the model: time stops here
    Faults,       \* which of {"error", "cancel", "crash", "force"} may happen
    NoWorker      \* the token of a lock nobody holds

\* What the code's defaults satisfy: a heartbeat interval is at least one
\* tick, and a token is never the absent token.
ASSUME LeaseAssumption ==
    /\ TTL \in Nat /\ TTL >= 3
    /\ MaxLifetime \in Nat
    /\ MaxDelay \in Nat
    /\ MaxLag \in Nat
    /\ MaxClock \in Nat
    /\ NoWorker \notin Worker

VARIABLES
    clock,      \* now, on every machine (skew is discussed in the README)
    lock,       \* the backend's row: token and expires_at
    pc,         \* where the worker's task is
    call,       \* the in-flight extend: not sent, sent, or answered yes / no
    sentAt,     \* when the worker's latest backend call was made
    hb,         \* the heartbeat's loop: off, sleeping, extending, ended
    nextTick,   \* the heartbeat's next deadline
    startedAt,  \* _started_at
    heldUntil,  \* _held_until
    lost,       \* _ownership_lost
    leaseEnd,   \* history: the latest expiry the backend granted the worker
    misses,     \* history: extends that raised since the last that succeeded
    forced,     \* history: workers whose lease was force-released
    cut         \* history: workers whose stop() was cancelled

taskVars == <<pc, call, sentAt>>
hbVars   == <<hb, nextTick, startedAt, heldUntil, lost>>
history  == <<leaseEnd, misses, forced, cut>>
vars     == <<clock, lock, taskVars, hbVars, history>>

Interval == TTL \div 3
NoLock   == [token |-> NoWorker, expires |-> 0]

-----------------------------------------------------------------------------
(* State predicates *)

\* The row of the backend is w's and has not expired.
LeaseLive(w) == lock.token = w /\ lock.expires > clock

\* The row is absent or expired, so the upsert of acquire_lock wins it.
Free == lock.expires <= clock

\* Mutant (TakeoverWindowBounded): the lapse of held_until is not consulted.
IsOwnershipLostByAnswerOnly(w) == lost[w]

\* is_ownership_lost(): what the drain and debounce loops consult.
IsOwnershipLost(w) == lost[w] \/ clock >= heldUntil[w]

\* The renewal cap ended the heartbeat of a callback that still runs.
Capped(w) == pc[w] = "running" /\ hb[w] = "ended" /\ ~lost[w]

\* An extend that the network still carries.
InFlight(w) == call[w] # "none"

-----------------------------------------------------------------------------
(* Acquiring *)

Init ==
    /\ clock = 0
    /\ lock = NoLock
    /\ pc = [w \in Worker |-> "idle"]
    /\ call = [w \in Worker |-> "none"]
    /\ sentAt = [w \in Worker |-> 0]
    /\ hb = [w \in Worker |-> "off"]
    /\ nextTick = [w \in Worker |-> 0]
    /\ startedAt = [w \in Worker |-> 0]
    /\ heldUntil = [w \in Worker |-> 0]
    /\ lost = [w \in Worker |-> FALSE]
    /\ leaseEnd = [w \in Worker |-> 0]
    /\ misses = [w \in Worker |-> 0]
    /\ forced = {}
    /\ cut = {}

\* acquire_lock wins the row; the answer is on its way.
Acquire(w) ==
    /\ pc[w] \in {"idle", "forcing"}
    /\ Free
    /\ lock' = [token |-> w, expires |-> clock + TTL]
    /\ leaseEnd' = [leaseEnd EXCEPT ![w] = clock + TTL]
    /\ pc' = [pc EXCEPT ![w] = "acquiring"]
    /\ sentAt' = [sentAt EXCEPT ![w] = clock]
    /\ UNCHANGED <<clock, call, hbVars, misses, forced, cut>>

\* acquire_lock returns None and the message is turned away.
AcquireDenied(w) ==
    /\ pc[w] \in {"idle", "forcing"}
    /\ ~Free
    /\ pc' = [pc EXCEPT ![w] = "denied"]
    /\ UNCHANGED <<clock, lock, call, sentAt, hbVars, history>>

\* on_lock_conflict = "force": the row is deleted whoever holds it, and only
\* then does a second call try to acquire it.  The failed acquire_lock before
\* it changes nothing; that the lock may have changed hands since is covered,
\* as it may have been tried just now.
ForceRelease(w) ==
    /\ "force" \in Faults
    /\ pc[w] = "idle"
    /\ ~Free
    /\ lock' = NoLock
    /\ forced' = forced \cup {lock.token}
    /\ pc' = [pc EXCEPT ![w] = "forcing"]
    /\ UNCHANGED <<clock, call, sentAt, hbVars, leaseEnd, misses, cut>>

\* Mutant (RenewedLeaseIsHeld): the first deadline is a whole TTL away.
StartHeartbeatAfterTTL(w) ==
    /\ pc[w] = "acquiring"
    /\ pc' = [pc EXCEPT ![w] = "running"]
    /\ hb' = [hb EXCEPT ![w] = "sleeping"]
    /\ startedAt' = [startedAt EXCEPT ![w] = clock]
    /\ heldUntil' = [heldUntil EXCEPT ![w] = clock + TTL]
    /\ nextTick' = [nextTick EXCEPT ![w] = clock + TTL]
    /\ UNCHANGED <<clock, lock, call, sentAt, lost, history>>

\* The Lock reaches _with_held_lock, which builds the heartbeat and starts fn.
StartHeartbeat(w) ==
    /\ pc[w] = "acquiring"
    /\ pc' = [pc EXCEPT ![w] = "running"]
    /\ hb' = [hb EXCEPT ![w] = "sleeping"]
    /\ startedAt' = [startedAt EXCEPT ![w] = clock]
    /\ heldUntil' = [heldUntil EXCEPT ![w] = clock + TTL]
    /\ nextTick' = [nextTick EXCEPT ![w] = clock + Interval]
    /\ UNCHANGED <<clock, lock, call, sentAt, lost, history>>

-----------------------------------------------------------------------------
(* Renewing *)

\* Mutant (HungHandlerLetsGo): no renewal cap.
TickFiresForever(w) ==
    /\ hb[w] = "sleeping"
    /\ clock >= nextTick[w]
    /\ nextTick' = [nextTick EXCEPT ![w] = @ + Interval]
    /\ hb' = [hb EXCEPT ![w] = "extending"]
    /\ call' = [call EXCEPT ![w] = "sent"]
    /\ sentAt' = [sentAt EXCEPT ![w] = clock]
    /\ UNCHANGED <<clock, lock, pc, startedAt, heldUntil, lost, history>>

\* A deadline of _run came: send an extend, or stop renewing at the cap.
TickFires(w) ==
    /\ hb[w] = "sleeping"
    /\ clock >= nextTick[w]
    /\ nextTick' = [nextTick EXCEPT ![w] = @ + Interval]
    /\ \/ /\ clock - startedAt[w] >= MaxLifetime
          /\ hb' = [hb EXCEPT ![w] = "ended"]
          /\ UNCHANGED <<call, sentAt>>
       \/ /\ clock - startedAt[w] < MaxLifetime
          /\ hb' = [hb EXCEPT ![w] = "extending"]
          /\ call' = [call EXCEPT ![w] = "sent"]
          /\ sentAt' = [sentAt EXCEPT ![w] = clock]
    /\ UNCHANGED <<clock, lock, pc, startedAt, heldUntil, lost, history>>

\* Mutant (NoResurrection, ImplementsLease): the update is an upsert, blind to the
\* token.
ExtendLandsBlindly(w) ==
    /\ call[w] = "sent"
    /\ lock' = [token |-> w, expires |-> clock + TTL]
    /\ leaseEnd' = [leaseEnd EXCEPT ![w] = clock + TTL]
    /\ call' = [call EXCEPT ![w] = "yes"]
    /\ UNCHANGED <<clock, pc, sentAt, hbVars, misses, forced, cut>>

\* extend_lock takes effect: only a live row with this token moves.
ExtendLands(w) ==
    /\ call[w] = "sent"
    /\ \/ /\ LeaseLive(w)
          /\ lock' = [lock EXCEPT !.expires = clock + TTL]
          /\ leaseEnd' = [leaseEnd EXCEPT ![w] = clock + TTL]
          /\ call' = [call EXCEPT ![w] = "yes"]
       \/ /\ ~LeaseLive(w)
          /\ call' = [call EXCEPT ![w] = "no"]
          /\ UNCHANGED <<lock, leaseEnd>>
    /\ UNCHANGED <<clock, pc, sentAt, hbVars, misses, forced, cut>>

\* The first deadline later than now: ticks due during an extend are skipped.
SkipTicks(tick) ==
    IF tick > clock THEN tick
                    ELSE tick + Interval * ((clock - tick) \div Interval + 1)

\* Once the extend is over, _run goes back to sleep unless ownership is lost;
\* a stop() that waited for the extend goes on to release_lock.
AfterExtend(w) ==
    /\ call' = [call EXCEPT ![w] = "none"]
    /\ pc' = [pc EXCEPT ![w] = IF @ = "stopping" THEN "releasing" ELSE @]
    /\ hb' = [hb EXCEPT ![w] =
                IF @ = "extending" THEN IF lost'[w] THEN "ended" ELSE "sleeping"
                                   ELSE @]
    /\ nextTick' = [nextTick EXCEPT ![w] =
                      IF hb'[w] = "sleeping" THEN SkipTicks(@) ELSE @]
    /\ UNCHANGED <<clock, lock, sentAt, startedAt, leaseEnd, forced, cut>>

\* _extend_once sees True or False.
ExtendReturns(w) ==
    /\ call[w] \in {"yes", "no"}
    /\ \/ /\ call[w] = "yes"
          /\ heldUntil' = [heldUntil EXCEPT ![w] = clock + TTL]
          /\ misses' = [misses EXCEPT ![w] = 0]
          /\ UNCHANGED lost
       \/ /\ call[w] = "no"
          /\ lost' = [lost EXCEPT ![w] = TRUE]
          /\ UNCHANGED <<heldUntil, misses>>
    /\ AfterExtend(w)

\* _extend_once catches an exception, raised before or after the request took
\* effect; past held_until it gives the lock up.
ExtendRaises(w) ==
    /\ "error" \in Faults
    /\ InFlight(w)
    /\ lost' = [lost EXCEPT ![w] =
                  @ \/ (pc[w] = "running" /\ clock >= heldUntil[w])]
    /\ misses' = [misses EXCEPT ![w] = @ + 1]
    /\ UNCHANGED heldUntil
    /\ AfterExtend(w)

-----------------------------------------------------------------------------
(* Giving the lock back *)

\* Mutant (NoExtendAfterRelease): stop() does not wait for the extend.
FnEndsAtOnce(w) ==
    /\ pc[w] = "running"
    /\ pc' = [pc EXCEPT ![w] = "releasing"]
    /\ hb' = [hb EXCEPT ![w] = "ended"]
    /\ UNCHANGED <<clock, lock, call, sentAt, nextTick, startedAt, heldUntil,
                   lost, history>>

\* fn returns or raises.  stop() ends the loop; it waits only for an extend
\* that is in flight, and release_lock follows without a yield otherwise.
FnEnds(w) ==
    /\ pc[w] = "running"
    /\ pc' = [pc EXCEPT ![w] = IF InFlight(w) THEN "stopping" ELSE "releasing"]
    /\ hb' = [hb EXCEPT ![w] = "ended"]
    /\ UNCHANGED <<clock, lock, call, sentAt, nextTick, startedAt, heldUntil,
                   lost, history>>

\* A cancellation reaches the task inside stop(): the shield keeps the extend
\* in flight, and the inner finally goes straight to release_lock.
CancelStop(w) ==
    /\ "cancel" \in Faults
    /\ pc[w] = "stopping"
    /\ pc' = [pc EXCEPT ![w] = "releasing"]
    /\ cut' = cut \cup {w}
    /\ UNCHANGED <<clock, lock, call, sentAt, hbVars, leaseEnd, misses, forced>>

\* Mutant (OnlyOwnerReleases): the delete is not restricted to the token.
ReleaseAny(w) ==
    /\ pc[w] = "releasing"
    /\ lock' = NoLock
    /\ pc' = [pc EXCEPT ![w] = "done"]
    /\ UNCHANGED <<clock, call, sentAt, hbVars, history>>

\* release_lock takes effect: it deletes the row only if the token matches.
Release(w) ==
    /\ pc[w] = "releasing"
    /\ lock' = IF lock.token = w THEN NoLock ELSE lock
    /\ pc' = [pc EXCEPT ![w] = "done"]
    /\ UNCHANGED <<clock, call, sentAt, hbVars, history>>

\* A cancellation drops the answer of acquire_lock, or the call to
\* release_lock: the row is left to expire.
Abandon(w) ==
    /\ "cancel" \in Faults
    /\ pc[w] \in {"acquiring", "releasing"}
    /\ pc' = [pc EXCEPT ![w] = "done"]
    /\ UNCHANGED <<clock, lock, call, sentAt, hbVars, history>>

\* The worker's process dies with its heartbeat; a request it had sent may or
\* may not reach the backend.
Crash(w) ==
    /\ "crash" \in Faults
    /\ pc[w] \in {"acquiring", "running", "stopping", "releasing"}
    /\ pc' = [pc EXCEPT ![w] = "crashed"]
    /\ hb' = [hb EXCEPT ![w] = IF @ = "off" THEN @ ELSE "ended"]
    /\ \E c \in {"none", call[w]} : call' = [call EXCEPT ![w] = c]
    /\ UNCHANGED <<clock, lock, sentAt, nextTick, startedAt, heldUntil, lost,
                   history>>

-----------------------------------------------------------------------------
(* Time *)

\* Time passes unless a call is overdue or the event loop owes a heartbeat.
Tick ==
    /\ clock < MaxClock
    /\ \A w \in Worker :
          /\ InFlight(w) \/ pc[w] = "acquiring" => clock < sentAt[w] + MaxDelay
          /\ hb[w] = "sleeping" => clock < nextTick[w] + MaxLag
    /\ clock' = clock + 1
    /\ UNCHANGED <<lock, taskVars, hbVars, history>>

\* Every message has been dealt with; nothing is left in flight.
Finished ==
    /\ \A w \in Worker : pc[w] \in {"done", "denied", "crashed"}
    /\ \A w \in Worker : ~InFlight(w)
    /\ UNCHANGED vars

WorkerStep(w) ==
    \/ Acquire(w) \/ AcquireDenied(w) \/ ForceRelease(w) \/ StartHeartbeat(w)
    \/ TickFires(w) \/ ExtendLands(w) \/ ExtendReturns(w) \/ ExtendRaises(w)
    \/ FnEnds(w) \/ CancelStop(w) \/ Release(w) \/ Abandon(w) \/ Crash(w)

Next == Tick \/ Finished \/ \E w \in Worker : WorkerStep(w)

Spec == Init /\ [][Next]_vars

-----------------------------------------------------------------------------
(* Properties *)

\* Every variable has the shape the code gives it.
TypeOK ==
    /\ clock \in Nat
    /\ lock \in [token : Worker \cup {NoWorker}, expires : Nat]
    /\ pc \in [Worker -> {"idle", "forcing", "denied", "acquiring", "running",
                          "stopping", "releasing", "done", "crashed"}]
    /\ call \in [Worker -> {"none", "sent", "yes", "no"}]
    /\ hb \in [Worker -> {"off", "sleeping", "extending", "ended"}]
    /\ sentAt \in [Worker -> Nat]
    /\ nextTick \in [Worker -> Nat]
    /\ startedAt \in [Worker -> Nat]
    /\ heldUntil \in [Worker -> Nat]
    /\ leaseEnd \in [Worker -> Nat]
    /\ misses \in [Worker -> Nat]
    /\ lost \in [Worker -> BOOLEAN]
    /\ forced \subseteq Worker \cup {NoWorker}
    /\ cut \subseteq Worker

\* The backend answers well within a heartbeat interval.
Timely == 2 * MaxDelay + MaxLag < Interval

\* While the network is timely, a running handler keeps its lease as long as
\* no two extends in a row fail, the renewal cap is not reached and nobody
\* forces the lock (_run's interval of TTL / 3 leaves room for one failure).
RenewedLeaseIsHeld ==
    Timely =>
      \A w \in Worker :
         pc[w] = "running" /\ misses[w] < 2 /\ ~Capped(w) /\ w \notin forced
           => LeaseLive(w)

\* A late ownership check is late by less than one round trip: a loop that
\* still passes is_ownership_lost() after another worker took over does so
\* within MaxDelay of the end of its own lease (held_until is read after the
\* await, the lease was granted before it).
TakeoverWindowBounded ==
    \A v, w \in Worker :
        v # w /\ pc[w] = "running" /\ LeaseLive(v) /\ w \notin forced
              /\ ~IsOwnershipLost(w)
          => clock < leaseEnd[w] + MaxDelay

\* A hung handler cannot keep the thread: whatever its heartbeat does, the
\* lease ends one TTL after the lifetime cap, give or take one call's delay.
HungHandlerLetsGo ==
    \A w \in Worker :
        hb[w] # "off" => leaseEnd[w] <= startedAt[w] + MaxLifetime + MaxDelay + TTL

\* A lease that is gone stays gone: no late extend or retry re-creates it
\* (extend_lock "never create or resurrect").
NoResurrection ==
    [][\A w \in Worker :
          LeaseLive(w)' => LeaseLive(w) \/ pc[w] \in {"idle", "forcing"}]_vars

\* Nobody but its owner, or a force release, ends a live lease early.
OnlyOwnerReleases ==
    [][\A w \in Worker :
          LeaseLive(w) /\ lock'.token # w
            => pc[w] = "releasing" \/ w \in forced']_vars

\* stop() is awaited before release_lock, so that an in-flight extend never
\* lands after the release, unless the task is cancelled inside stop().
NoExtendAfterRelease ==
    \A w \in Worker : pc[w] = "done" /\ w \notin cut => call[w] # "sent"

\* What a heartbeat is for, and what it must not do: a lease that is renewed
\* holds, one that is lost is soon noticed, a hung handler's ends, and nothing
\* is renewed after the release.
HeartbeatIsSafe ==
    RenewedLeaseIsHeld /\ TakeoverWindowBounded /\ HungHandlerLetsGo /\ NoExtendAfterRelease

\* A lease ends by its owner's release, by force or by time, and for good.
LeasesEndForGood == OnlyOwnerReleases /\ NoResurrection

-----------------------------------------------------------------------------
(* The lock that Lease describes *)

\* A row past its expiry belongs to nobody, and who was never granted a lease
\* may still have one.
Promise == INSTANCE Lease WITH
    owner    <- IF Free THEN NoWorker ELSE lock.token,
    entitled <- {w \in Worker : leaseEnd[w] = 0}

\* Whatever extends, late answers and crashes do, the rows of the backend are
\* a lock in the sense of Lease: a worker that lost the lock never owns it
\* again, and it never passes from one worker to another without coming free.
ImplementsLease == Promise!Spec
=============================================================================
