------------------------- MODULE LockHeartbeatProofs -------------------------
(***************************************************************************)
(* What holds of LockHeartbeat for every set of workers, every TTL,        *)
(* lifetime, delay and lag, and every choice of faults.                    *)
(***************************************************************************)
EXTENDS LockHeartbeat, TLAPS

\* The heartbeat interval TTL / 3 is a positive number of clock units, and
\* three of them fit in a TTL.
LEMMA IntervalPositive == Interval \in Nat /\ Interval > 0 /\ 3 * Interval <= TTL
BY LeaseAssumption DEF Interval

\* Skipping the deadlines that passed during an extend yields a deadline, and
\* moves none that is still to come.
LEMMA SkipTicksFacts ==
    ASSUME NEW tick \in Nat, clock \in Nat
    PROVE  /\ SkipTicks(tick) \in Nat
           /\ tick > clock => SkipTicks(tick) = tick
<1>1. CASE tick > clock
  BY <1>1 DEF SkipTicks
<1>2. CASE ~(tick > clock)
  <2>1. clock - tick \in Nat
    BY <1>2
  <2>2. (clock - tick) \div Interval \in Nat
    BY <2>1, IntervalPositive
  <2>3. Interval * ((clock - tick) \div Interval + 1) \in Nat
    BY <2>2, IntervalPositive
  <2>4. QED
    BY <1>2, <2>3 DEF SkipTicks
<1>3. QED
  BY <1>1, <1>2

\* Every variable always has the shape the code gives it.
THEOREM TypeCorrect == Spec => []TypeOK
<1>1. Init => TypeOK
  BY LeaseAssumption DEF Init, TypeOK, NoLock
<1>2. TypeOK /\ [Next]_vars => TypeOK'
  <2> SUFFICES ASSUME TypeOK, [Next]_vars
               PROVE  TypeOK'
    OBVIOUS
  <2> USE LeaseAssumption, IntervalPositive DEF TypeOK, NoLock
  <2>1. CASE Tick
    BY <2>1 DEF Tick, taskVars, hbVars, history
  <2>2. CASE Finished \/ UNCHANGED vars
    BY <2>2 DEF Finished, vars, taskVars, hbVars, history
  <2>3. ASSUME NEW w \in Worker, WorkerStep(w)
        PROVE  TypeOK'
    <3>1. CASE Acquire(w)
      BY <3>1 DEF Acquire, hbVars
    <3>2. CASE AcquireDenied(w)
      BY <3>2 DEF AcquireDenied, hbVars, history
    <3>3. CASE ForceRelease(w)
      BY <3>3 DEF ForceRelease, hbVars
    <3>4. CASE StartHeartbeat(w)
      BY <3>4 DEF StartHeartbeat, history
    <3>5. CASE TickFires(w)
      BY <3>5 DEF TickFires, history
    <3>6. CASE ExtendLands(w)
      BY <3>6 DEF ExtendLands, hbVars
    <3>7. CASE ExtendReturns(w)
      <4>1. SkipTicks(nextTick[w]) \in Nat
        BY SkipTicksFacts
      <4>2. AfterExtend(w) => nextTick' \in [Worker -> Nat]
        BY <4>1 DEF AfterExtend
      <4>3. AfterExtend(w) /\ lost' \in [Worker -> BOOLEAN]
              => hb' \in [Worker -> {"off", "sleeping", "extending", "ended"}]
        BY DEF AfterExtend
      <4>4. heldUntil' \in [Worker -> Nat] /\ misses' \in [Worker -> Nat]
        BY <3>7 DEF ExtendReturns
      <4>6. lost' \in [Worker -> BOOLEAN]
        BY <3>7 DEF ExtendReturns
      <4>5. QED
        BY <3>7, <4>2, <4>3, <4>4, <4>6 DEF ExtendReturns, AfterExtend
    <3>8. CASE ExtendRaises(w)
      <4>1. SkipTicks(nextTick[w]) \in Nat
        BY SkipTicksFacts
      <4>2. AfterExtend(w) => nextTick' \in [Worker -> Nat]
        BY <4>1 DEF AfterExtend
      <4>3. AfterExtend(w) /\ lost' \in [Worker -> BOOLEAN]
              => hb' \in [Worker -> {"off", "sleeping", "extending", "ended"}]
        BY DEF AfterExtend
      <4>4. heldUntil' \in [Worker -> Nat] /\ misses' \in [Worker -> Nat]
        BY <3>8 DEF ExtendRaises
      <4>6. lost' \in [Worker -> BOOLEAN]
        <5> DEFINE b == lost[w] \/ (pc[w] = "running" /\ clock >= heldUntil[w])
        <5>1. b \in BOOLEAN
          BY Zenon
        <5>2. lost' = [lost EXCEPT ![w] = b]
          BY <3>8, Zenon DEF ExtendRaises
        <5>3. QED
          BY <5>1, <5>2, Zenon
      <4>5. QED
        BY <3>8, <4>2, <4>3, <4>4, <4>6 DEF ExtendRaises, AfterExtend
    <3>9. CASE FnEnds(w)
      BY <3>9 DEF FnEnds, history
    <3>10. CASE CancelStop(w)
      BY <3>10 DEF CancelStop, hbVars, history
    <3>11. CASE Release(w)
      BY <3>11 DEF Release, hbVars, history
    <3>12. CASE Abandon(w)
      BY <3>12 DEF Abandon, hbVars, history
    <3>13. CASE Crash(w)
      BY <3>13 DEF Crash, history
    <3>14. QED
      BY <2>3, <3>1, <3>2, <3>3, <3>4, <3>5, <3>6, <3>7, <3>8, <3>9, <3>10,
         <3>11, <3>12, <3>13 DEF WorkerStep
  <2>4. QED
    BY <2>1, <2>2, <2>3 DEF Next
<1>3. QED
  BY <1>1, <1>2, PTL DEF Spec

-----------------------------------------------------------------------------
(* Leases and tokens *)

\* A lease that is gone stays gone: extend_lock moves only a live row with its
\* own token, so only acquire_lock makes a worker the holder.
THEOREM LeasesAreNotResurrected == Spec => NoResurrection
<1>1. TypeOK /\ [Next]_vars
        => [\A w \in Worker :
              LeaseLive(w)' => LeaseLive(w) \/ pc[w] \in {"idle", "forcing"}]_vars
  <2> SUFFICES ASSUME TypeOK, Next, NEW u \in Worker, LeaseLive(u)'
               PROVE  LeaseLive(u) \/ pc[u] \in {"idle", "forcing"}
    BY DEF vars, taskVars, hbVars, history, LeaseLive
  <2> USE LeaseAssumption DEF TypeOK, NoLock, LeaseLive
  <2>1. CASE Tick \/ Finished
    BY <2>1 DEF Tick, Finished, vars, taskVars, hbVars, history
  <2>2. ASSUME NEW w \in Worker, Acquire(w)
        PROVE  LeaseLive(u) \/ pc[u] \in {"idle", "forcing"}
    BY <2>2 DEF Acquire
  <2>3. ASSUME NEW w \in Worker, ForceRelease(w) \/ Release(w)
        PROVE  LeaseLive(u)
    BY <2>3 DEF ForceRelease, Release
  <2>4. ASSUME NEW w \in Worker, ExtendLands(w)
        PROVE  LeaseLive(u)
    BY <2>4 DEF ExtendLands
  <2>5. ASSUME NEW w \in Worker, UNCHANGED <<clock, lock>>
        PROVE  LeaseLive(u)
    BY <2>5
  <2>6. ASSUME NEW w \in Worker,
               AcquireDenied(w) \/ StartHeartbeat(w) \/ TickFires(w)
                 \/ ExtendReturns(w) \/ ExtendRaises(w) \/ FnEnds(w)
                 \/ CancelStop(w) \/ Abandon(w) \/ Crash(w)
        PROVE  UNCHANGED <<clock, lock>>
    BY <2>6 DEF AcquireDenied, StartHeartbeat, TickFires, ExtendReturns,
         ExtendRaises, AfterExtend, FnEnds, CancelStop, Abandon, Crash
  <2>7. QED
    BY <2>1, <2>2, <2>3, <2>4, <2>5, <2>6 DEF Next, WorkerStep
<1>2. QED
  BY <1>1, TypeCorrect, PTL DEF Spec, NoResurrection

\* A live lease ends early only by its owner's release_lock or by a force
\* release: the release of a worker that lost its lock touches nobody else's.
THEOREM ReleasesAreOwn == Spec => OnlyOwnerReleases
<1>1. TypeOK /\ [Next]_vars
        => [\A w \in Worker :
              LeaseLive(w) /\ lock'.token # w
                => pc[w] = "releasing" \/ w \in forced']_vars
  <2> SUFFICES ASSUME TypeOK, Next, NEW u \in Worker, LeaseLive(u),
                      lock'.token # u
               PROVE  pc[u] = "releasing" \/ u \in forced'
    BY DEF vars, taskVars, hbVars, history, LeaseLive
  <2> USE LeaseAssumption DEF TypeOK, NoLock, LeaseLive
  <2>1. CASE Tick \/ Finished
    BY <2>1 DEF Tick, Finished, vars, taskVars, hbVars, history
  <2>2. ASSUME NEW w \in Worker, Acquire(w)
        PROVE  FALSE
    BY <2>2 DEF Acquire, Free
  <2>3. ASSUME NEW w \in Worker, ForceRelease(w)
        PROVE  u \in forced'
    BY <2>3 DEF ForceRelease
  <2>4. ASSUME NEW w \in Worker, Release(w)
        PROVE  pc[u] = "releasing"
    BY <2>4 DEF Release
  <2>5. ASSUME NEW w \in Worker, ExtendLands(w)
        PROVE  FALSE
    BY <2>5 DEF ExtendLands
  <2>6. ASSUME NEW w \in Worker,
               AcquireDenied(w) \/ StartHeartbeat(w) \/ TickFires(w)
                 \/ ExtendReturns(w) \/ ExtendRaises(w) \/ FnEnds(w)
                 \/ CancelStop(w) \/ Abandon(w) \/ Crash(w)
        PROVE  lock' = lock
    BY <2>6 DEF AcquireDenied, StartHeartbeat, TickFires, ExtendReturns,
         ExtendRaises, AfterExtend, FnEnds, CancelStop, Abandon, Crash
  <2>7. QED
    BY <2>1, <2>2, <2>3, <2>4, <2>5, <2>6 DEF Next, WorkerStep
<1>2. QED
  BY <1>1, TypeCorrect, PTL DEF Spec, OnlyOwnerReleases
-----------------------------------------------------------------------------
(* stop() before release_lock *)

\* A worker makes no call before its heartbeat starts or after stop().
Quiet(w) ==
    /\ pc[w] \in {"idle", "forcing", "acquiring", "releasing", "done"}
         => call[w] = "none" \/ w \in cut
    /\ pc[w] # "running" => hb[w] \in {"off", "ended"}

\* Unless a cancellation interrupts stop(), the extend it waits for is over
\* before release_lock is called.
THEOREM LateExtends == Spec => []NoExtendAfterRelease
<1> DEFINE QuietInv == \A w \in Worker : Quiet(w)
<1>1. Init => QuietInv
  BY DEF Init, Quiet
<1>2. TypeOK /\ QuietInv /\ [Next]_vars => QuietInv'
  <2> SUFFICES ASSUME TypeOK, QuietInv, [Next]_vars, NEW u \in Worker
               PROVE  Quiet(u)'
    OBVIOUS
  <2>1. Quiet(u)
    OBVIOUS
  <2>2. CASE Tick \/ Finished \/ UNCHANGED vars
    BY <2>1, <2>2 DEF Quiet, Tick, Finished, vars, taskVars, hbVars, history
  <2>3. ASSUME NEW w \in Worker, u # w, WorkerStep(w)
        PROVE  UNCHANGED <<pc[u], call[u], hb[u]>> /\ cut \subseteq cut'
    BY <2>3 DEF WorkerStep, Acquire, AcquireDenied, ForceRelease,
         StartHeartbeat, TickFires, ExtendLands, ExtendReturns, ExtendRaises,
         AfterExtend, FnEnds, CancelStop, Release, Abandon, Crash,
         taskVars, hbVars, history, TypeOK
  <2>4. ASSUME WorkerStep(u)
        PROVE  Quiet(u)'
    <3> USE <2>1 DEF Quiet, TypeOK, hbVars, history
    <3>1. CASE Acquire(u) \/ AcquireDenied(u) \/ ForceRelease(u)
      BY <3>1 DEF Acquire, AcquireDenied, ForceRelease
    <3>2. CASE StartHeartbeat(u) \/ TickFires(u) \/ ExtendLands(u)
      BY <3>2 DEF StartHeartbeat, TickFires, ExtendLands
    <3>3. CASE ExtendReturns(u) \/ ExtendRaises(u)
      BY <3>3 DEF ExtendReturns, ExtendRaises, AfterExtend, InFlight
    <3>4. CASE FnEnds(u)
      BY <3>4 DEF FnEnds, InFlight
    <3>5. CASE CancelStop(u) \/ Abandon(u)
      BY <3>5 DEF CancelStop, Abandon
    <3>6. CASE Release(u) \/ Crash(u)
      BY <3>6 DEF Release, Crash
    <3>7. QED
      BY <2>4, <3>1, <3>2, <3>3, <3>4, <3>5, <3>6 DEF WorkerStep
  <2>5. QED
    BY <2>1, <2>2, <2>3, <2>4 DEF Next, Quiet
<1>3. QuietInv => NoExtendAfterRelease
  BY DEF Quiet, NoExtendAfterRelease
<1>4. QED
  BY <1>1, <1>2, <1>3, TypeCorrect, PTL DEF Spec

-----------------------------------------------------------------------------
(* How long a lease can be believed in, and how long it can last *)

\* What the clock says of a worker's calls and of the leases they obtained.
LeaseTimes(w) ==
    /\ leaseEnd[w] <= clock + TTL
    /\ hb[w] = "off" => call[w] = "none"
    /\ hb[w] = "sleeping" => call[w] = "none"
    /\ pc[w] \in {"idle", "forcing", "acquiring"} => hb[w] = "off"
    /\ pc[w] = "acquiring" => leaseEnd[w] = sentAt[w] + TTL
    /\ pc[w] = "acquiring" \/ call[w] # "none" =>
         sentAt[w] <= clock /\ clock <= sentAt[w] + MaxDelay
    /\ call[w] # "none" => sentAt[w] < startedAt[w] + MaxLifetime
    /\ call[w] = "yes" => leaseEnd[w] >= sentAt[w] + TTL
    /\ pc[w] = "running" =>
         hb[w] # "off" /\ heldUntil[w] <= leaseEnd[w] + MaxDelay
    /\ hb[w] # "off" =>
         leaseEnd[w] <= startedAt[w] + MaxLifetime + MaxDelay + TTL

TimesInv == \A w \in Worker : LeaseTimes(w)

\* TimesInv is inductive, given the types.
LEMMA TimesInductive ==
    ASSUME TypeOK, TypeOK', TimesInv, [Next]_vars
    PROVE  TimesInv'
<1> USE LeaseAssumption
<1>1. CASE UNCHANGED vars \/ Finished
  BY <1>1 DEF Finished, TimesInv, LeaseTimes, vars, taskVars, hbVars, history
<1>2. CASE Tick
  <2> SUFFICES ASSUME NEW u \in Worker
               PROVE  LeaseTimes(u)'
    BY DEF TimesInv
  <2>1. LeaseTimes(u)
    BY DEF TimesInv
  <2>2. QED
    BY <1>2, <2>1 DEF Tick, LeaseTimes, InFlight, taskVars, hbVars, history,
         TypeOK
<1>3. ASSUME NEW w \in Worker, WorkerStep(w)
      PROVE  TimesInv'
  <2> SUFFICES ASSUME NEW u \in Worker
               PROVE  LeaseTimes(u)'
    BY DEF TimesInv
  <2>1. LeaseTimes(u)
    BY DEF TimesInv
  <2>2. CASE u # w
    <3>1. /\ UNCHANGED <<clock, pc[u], call[u], sentAt[u], hb[u], heldUntil[u]>>
          /\ UNCHANGED <<startedAt[u], leaseEnd[u]>>
      BY <1>3, <2>2 DEF WorkerStep, Acquire, AcquireDenied, ForceRelease,
           StartHeartbeat, TickFires, ExtendLands, ExtendReturns, ExtendRaises,
           AfterExtend, FnEnds, CancelStop, Release, Abandon, Crash,
           taskVars, hbVars, history, TypeOK
    <3>2. QED
      BY <2>1, <3>1 DEF LeaseTimes
  <2>3. CASE u = w
    <3> USE <2>1, <2>3 DEF TypeOK, LeaseTimes
    <3>1. CASE Acquire(w)
      BY <3>1 DEF Acquire, hbVars
    <3>2. CASE AcquireDenied(w)
      BY <3>2 DEF AcquireDenied, hbVars, history
    <3>3. CASE ForceRelease(w)
      BY <3>3 DEF ForceRelease, hbVars
    <3>4. CASE StartHeartbeat(w)
      BY <3>4 DEF StartHeartbeat, history
    <3>5. CASE TickFires(w)
      BY <3>5 DEF TickFires, history
    <3>6. CASE ExtendLands(w)
      BY <3>6 DEF ExtendLands, hbVars
    <3>7. CASE ExtendReturns(w)
      BY <3>7 DEF ExtendReturns, AfterExtend
    <3>8. CASE ExtendRaises(w)
      BY <3>8 DEF ExtendRaises, AfterExtend, InFlight
    <3>9. CASE FnEnds(w)
      BY <3>9 DEF FnEnds, history
    <3>10. CASE CancelStop(w)
      BY <3>10 DEF CancelStop, hbVars, history
    <3>11. CASE Release(w)
      BY <3>11 DEF Release, hbVars, history
    <3>12. CASE Abandon(w)
      BY <3>12 DEF Abandon, hbVars, history
    <3>13. CASE Crash(w)
      BY <3>13 DEF Crash, history
    <3>14. QED
      BY <1>3, <3>1, <3>2, <3>3, <3>4, <3>5, <3>6, <3>7, <3>8, <3>9, <3>10,
         <3>11, <3>12, <3>13 DEF WorkerStep
  <2>4. QED
    BY <2>2, <2>3
<1>4. QED
  BY <1>1, <1>2, <1>3 DEF Next

\* TimesInv is an invariant.
LEMMA TimesCorrect == Spec => []TimesInv
<1>1. Init => TimesInv
  <2> SUFFICES ASSUME Init, NEW w \in Worker
               PROVE  LeaseTimes(w)
    BY DEF TimesInv
  <2>1. /\ pc[w] = "idle" /\ call[w] = "none" /\ hb[w] = "off"
        /\ leaseEnd[w] = 0 /\ clock = 0
    BY DEF Init
  <2>2. QED
    BY <2>1, LeaseAssumption DEF LeaseTimes
<1>2. TypeOK /\ TypeOK' /\ TimesInv /\ [Next]_vars => TimesInv'
  BY TimesInductive
<1>3. QED
  BY <1>1, <1>2, TypeCorrect, PTL DEF Spec

\* A loop never passes its ownership check more than one call's delay after
\* its lease ended, whatever the network and the faults.
THEOREM TakeoverWindow == Spec => []TakeoverWindowBounded
<1>1. TypeOK /\ TimesInv => TakeoverWindowBounded
  BY LeaseAssumption
     DEF TypeOK, TimesInv, LeaseTimes, TakeoverWindowBounded, IsOwnershipLost
<1>2. QED
  BY <1>1, TypeCorrect, TimesCorrect, PTL

\* A lease ends within one TTL and one call's delay of the renewal cap, so a
\* handler that never returns does not keep its thread.
THEOREM HungHandlers == Spec => []HungHandlerLetsGo
<1>1. TimesInv => HungHandlerLetsGo
  BY DEF TimesInv, LeaseTimes, HungHandlerLetsGo
<1>2. QED
  BY <1>1, TimesCorrect, PTL

-----------------------------------------------------------------------------
(* A timely heartbeat keeps its lease *)

\* Where a worker's heartbeat is in time.
Paced(w) ==
    /\ pc[w] \in {"idle", "forcing", "acquiring"}
         => hb[w] = "off" /\ call[w] = "none" /\ misses[w] = 0 /\ ~lost[w]
    /\ pc[w] = "acquiring" => clock <= sentAt[w] + MaxDelay
    /\ pc[w] = "running" => hb[w] # "off"
    /\ pc[w] = "running" /\ hb[w] = "ended" => call[w] = "none"
    /\ sentAt[w] <= clock
    /\ call[w] # "none" => clock <= sentAt[w] + MaxDelay
    /\ hb[w] = "sleeping" =>
         pc[w] = "running" /\ call[w] = "none" /\ ~lost[w]
           /\ clock <= nextTick[w] + MaxLag
    /\ hb[w] = "extending" =>
         /\ pc[w] = "running" /\ call[w] # "none" /\ ~lost[w]
         /\ nextTick[w] <= sentAt[w] + Interval
         /\ sentAt[w] + Interval <= nextTick[w] + MaxLag

\* How much of its lease a worker has left, counted in heartbeats: an extend
\* that fails costs one interval of it.
Provisioned(w) ==
    /\ pc[w] = "acquiring" =>
         lock.token = w /\ lock.expires = sentAt[w] + TTL
    /\ hb[w] = "sleeping" /\ misses[w] = 0 =>
         /\ lock.token = w
         /\ lock.expires >= nextTick[w] + 2 * Interval - MaxDelay
         /\ heldUntil[w] >= nextTick[w] + 2 * Interval
    /\ hb[w] = "sleeping" /\ misses[w] = 1 =>
         /\ lock.token = w
         /\ lock.expires >= nextTick[w] + Interval - MaxDelay
         /\ heldUntil[w] >= nextTick[w] + Interval
    /\ hb[w] = "extending" /\ misses[w] = 0 =>
         /\ lock.token = w
         /\ lock.expires >= nextTick[w] + Interval - MaxDelay
         /\ heldUntil[w] >= nextTick[w] + Interval
    /\ hb[w] = "extending" /\ misses[w] = 1 =>
         /\ lock.token = w
         /\ lock.expires >= nextTick[w] - MaxDelay
         /\ heldUntil[w] >= nextTick[w]
    /\ hb[w] = "extending" /\ call[w] = "yes" =>
         /\ lock.token = w
         /\ lock.expires >= nextTick[w] + 2 * Interval - MaxDelay
    /\ hb[w] = "extending" /\ misses[w] < 2 => call[w] # "no"
    /\ pc[w] = "running" /\ misses[w] < 2 => ~lost[w]

\* The inductive invariant behind RenewedLeaseIsHeld.
RenewInv == \A w \in Worker : Paced(w) /\ (w \notin forced => Provisioned(w))

\* The workers whose lease Provisioned accounts for.
Covered(w) ==
    \/ pc[w] = "acquiring"
    \/ hb[w] \in {"sleeping", "extending"} /\ misses[w] < 2
    \/ hb[w] = "extending" /\ call[w] = "yes"

\* A count of misses below two is none or one.
LEMMA FewMisses ==
    ASSUME TypeOK, NEW w \in Worker, misses[w] < 2
    PROVE  misses[w] = 0 \/ misses[w] = 1
<1>1. misses[w] \in Nat
  BY DEF TypeOK
<1>2. QED
  BY <1>1

\* A worker whose lease Provisioned accounts for holds it now.
LEMMA CoveredIsLive ==
    ASSUME TypeOK, Timely, NEW w \in Worker,
           Paced(w), Provisioned(w), Covered(w)
    PROVE  LeaseLive(w)
<1> USE LeaseAssumption, IntervalPositive
        DEF TypeOK, Timely, Paced, Provisioned, LeaseLive
<1>1. CASE pc[w] = "acquiring"
  BY <1>1
<1>2. CASE hb[w] = "sleeping" /\ misses[w] < 2
  <2>1. misses[w] = 0 \/ misses[w] = 1
    BY <1>2, FewMisses
  <2>2. QED
    BY <1>2, <2>1
<1>3. CASE hb[w] = "extending" /\ misses[w] < 2
  <2>1. misses[w] = 0 \/ misses[w] = 1
    BY <1>3, FewMisses
  <2>2. QED
    BY <1>3, <2>1
<1>4. CASE hb[w] = "extending" /\ call[w] = "yes"
  BY <1>4
<1>5. QED
  BY <1>1, <1>2, <1>3, <1>4 DEF Covered

\* The variables of one worker.
Of(u) == <<pc[u], call[u], sentAt[u], hb[u], nextTick[u], heldUntil[u],
           lost[u], misses[u]>>

\* What another worker does leaves a worker's account alone, as long as it
\* takes no live lease away.
LEMMA OthersDoNotMatter ==
    ASSUME TypeOK, Timely, NEW u \in Worker,
           Paced(u), u \notin forced => Provisioned(u),
           clock' = clock, UNCHANGED Of(u),
           forced \subseteq forced',
           lock' = lock \/ ~LeaseLive(u) \/ u \in forced'
    PROVE  Paced(u)' /\ (u \notin forced' => Provisioned(u)')
<1>1. Paced(u)'
  BY DEF Paced, Of
<1>2. ASSUME u \notin forced', lock' = lock
      PROVE  Provisioned(u)'
  BY <1>2 DEF Provisioned, Of
<1>3. ASSUME u \notin forced', ~LeaseLive(u)
      PROVE  Provisioned(u)'
  <2>1. ~Covered(u) /\ Provisioned(u)
    BY <1>3, CoveredIsLive
  <2>2. ~Covered(u)'
    BY <2>1 DEF Covered, Of
  <2>3. misses[u] \in Nat /\ misses'[u] = misses[u]
    BY DEF TypeOK, Of
  <2>4. QED
    BY <2>1, <2>2, <2>3 DEF Provisioned, Covered, Of
<1>4. QED
  BY <1>1, <1>2, <1>3

\* Timely, RenewInv is inductive.
LEMMA RenewInductive ==
    ASSUME TypeOK, TypeOK', Timely, RenewInv, [Next]_vars
    PROVE  RenewInv'
<1> USE LeaseAssumption, IntervalPositive
<1>1. CASE UNCHANGED vars
  BY <1>1 DEF RenewInv, Paced, Provisioned, vars, taskVars, hbVars, history
<1>2. CASE Finished
  BY <1>2 DEF Finished, RenewInv, Paced, Provisioned, vars, taskVars, hbVars,
       history
<1>3. CASE Tick
  <2> SUFFICES ASSUME NEW u \in Worker
               PROVE  Paced(u)' /\ (u \notin forced' => Provisioned(u)')
    BY DEF RenewInv
  <2>1. Paced(u) /\ (u \notin forced => Provisioned(u))
    BY DEF RenewInv
  <2>2. Paced(u)'
    BY <1>3, <2>1 DEF Tick, Paced, InFlight, taskVars, hbVars, history, TypeOK
  <2>3. u \notin forced' => Provisioned(u)'
    BY <1>3, <2>1 DEF Tick, Provisioned, taskVars, hbVars, history
  <2>4. QED
    BY <2>2, <2>3
<1>4. ASSUME NEW w \in Worker, WorkerStep(w)
      PROVE  RenewInv'
  <2> SUFFICES ASSUME NEW u \in Worker
               PROVE  Paced(u)' /\ (u \notin forced' => Provisioned(u)')
    BY DEF RenewInv
  <2>1. Paced(u) /\ (u \notin forced => Provisioned(u))
    BY DEF RenewInv
  <2>2. CASE u # w
    <3>1. UNCHANGED Of(u) /\ clock' = clock /\ forced \subseteq forced'
      BY <1>4, <2>2 DEF WorkerStep, Acquire, AcquireDenied, ForceRelease,
           StartHeartbeat, TickFires, ExtendLands, ExtendReturns, ExtendRaises,
           AfterExtend, FnEnds, CancelStop, Release, Abandon, Crash, Of,
           taskVars, hbVars, history, TypeOK
    <3>2. lock' = lock \/ ~LeaseLive(u) \/ u \in forced'
      BY <1>4, <2>2 DEF WorkerStep, Acquire, AcquireDenied, ForceRelease,
           StartHeartbeat, TickFires, ExtendLands, ExtendReturns, ExtendRaises,
           AfterExtend, FnEnds, CancelStop, Release, Abandon, Crash,
           taskVars, hbVars, history, TypeOK, LeaseLive, Free
    <3>3. QED
      BY <2>1, <3>1, <3>2, OthersDoNotMatter
  <2>3. CASE u = w
    <3> USE <2>1, <2>3 DEF TypeOK, Timely, Paced, Provisioned
    <3>1. CASE Acquire(w)
      BY <3>1 DEF Acquire, hbVars
    <3>2. CASE AcquireDenied(w)
      BY <3>2 DEF AcquireDenied, hbVars, history
    <3>3. CASE ForceRelease(w)
      BY <3>3 DEF ForceRelease, hbVars
    <3>4. CASE StartHeartbeat(w)
      BY <3>4 DEF StartHeartbeat, history
    <3>5. CASE TickFires(w)
      BY <3>5 DEF TickFires, history
    <3>6. CASE ExtendLands(w)
      <4>1. Paced(w)'
        BY <3>6 DEF ExtendLands, hbVars
      <4>2. hb[w] = "extending" /\ misses[w] < 2 /\ w \notin forced
              => LeaseLive(w)
        BY CoveredIsLive DEF Covered
      <4>3. CASE LeaseLive(w)
        BY <3>6, <4>1, <4>3 DEF ExtendLands, hbVars, LeaseLive
      <4>4. CASE ~LeaseLive(w)
        BY <3>6, <4>1, <4>2, <4>4 DEF ExtendLands, hbVars
      <4>5. QED
        BY <4>3, <4>4
    <3>7. CASE ExtendReturns(w)
      <4>1. hb[w] = "extending" => SkipTicks(nextTick[w]) = nextTick[w]
        BY <3>7, SkipTicksFacts DEF ExtendReturns
      <4>2. CASE hb[w] = "extending" /\ call[w] = "yes"
        BY <3>7, <4>1, <4>2 DEF ExtendReturns, AfterExtend
      <4>3. CASE hb[w] = "extending" /\ call[w] = "no"
        BY <3>7, <4>1, <4>3 DEF ExtendReturns, AfterExtend
      <4>4. CASE hb[w] # "extending"
        BY <3>7, <4>4 DEF ExtendReturns, AfterExtend
      <4>5. QED
        BY <3>7, <4>2, <4>3, <4>4 DEF ExtendReturns
    <3>8. CASE ExtendRaises(w)
      <4>1. hb[w] = "extending" => SkipTicks(nextTick[w]) = nextTick[w]
        BY <3>8, SkipTicksFacts DEF ExtendRaises, InFlight
      <4>2. misses'[w] = misses[w] + 1 /\ heldUntil' = heldUntil
        BY <3>8 DEF ExtendRaises
      <4>3. lost'[w] <=> lost[w] \/ (pc[w] = "running" /\ clock >= heldUntil[w])
        BY <3>8 DEF ExtendRaises
      <4>4. CASE hb[w] = "extending"
        BY <3>8, <4>1, <4>2, <4>3, <4>4 DEF ExtendRaises, AfterExtend, InFlight
      <4>5. CASE hb[w] # "extending"
        BY <3>8, <4>2, <4>3, <4>5 DEF ExtendRaises, AfterExtend, InFlight
      <4>6. QED
        BY <4>4, <4>5
    <3>9. CASE FnEnds(w)
      BY <3>9 DEF FnEnds, history
    <3>10. CASE CancelStop(w)
      BY <3>10 DEF CancelStop, hbVars, history
    <3>11. CASE Release(w)
      BY <3>11 DEF Release, hbVars, history
    <3>12. CASE Abandon(w)
      BY <3>12 DEF Abandon, hbVars, history
    <3>13. CASE Crash(w)
      BY <3>13 DEF Crash, history
    <3>14. QED
      BY <1>4, <3>1, <3>2, <3>3, <3>4, <3>5, <3>6, <3>7, <3>8, <3>9, <3>10,
         <3>11, <3>12, <3>13 DEF WorkerStep
  <2>4. QED
    BY <2>2, <2>3
<1>5. QED
  BY <1>1, <1>2, <1>3, <1>4 DEF Next

\* While the backend answers well within an interval, a running handler keeps
\* its lease through any single failed extend, whatever the other workers do.
THEOREM RenewedLeases == Spec => []RenewedLeaseIsHeld
<1>1. Init => (Timely => RenewInv)
  <2> SUFFICES ASSUME Init, NEW w \in Worker
               PROVE  Paced(w) /\ Provisioned(w)
    BY DEF RenewInv
  <2>1. /\ pc[w] = "idle" /\ call[w] = "none" /\ hb[w] = "off"
        /\ sentAt[w] = 0 /\ misses[w] = 0 /\ lost[w] = FALSE /\ clock = 0
    BY DEF Init
  <2>2. QED
    BY <2>1 DEF Paced, Provisioned
<1>2. TypeOK /\ TypeOK' /\ (Timely => RenewInv) /\ [Next]_vars
        => (Timely => RenewInv)'
  BY RenewInductive DEF Timely
<1>3. TypeOK /\ (Timely => RenewInv) => RenewedLeaseIsHeld
  <2> SUFFICES ASSUME TypeOK, Timely, RenewInv, NEW w \in Worker,
                      pc[w] = "running", misses[w] < 2, ~Capped(w),
                      w \notin forced
               PROVE  LeaseLive(w)
    BY DEF RenewedLeaseIsHeld
  <2>1. Paced(w) /\ Provisioned(w)
    BY DEF RenewInv
  <2>2. Covered(w)
    BY <2>1 DEF Paced, Provisioned, Covered, Capped, TypeOK
  <2>3. QED
    BY <2>1, <2>2, CoveredIsLive
<1>4. QED
  BY <1>1, <1>2, <1>3, TypeCorrect, PTL DEF Spec

-----------------------------------------------------------------------------
(* The lock that Lease describes *)

\* Who still waits for the lock has never had a lease, and who is named by the
\* row has had one.
Entitled ==
    \A w \in Worker :
        /\ pc[w] \in {"idle", "forcing"} => leaseEnd[w] = 0
        /\ lock.token = w => leaseEnd[w] > 0

LEMMA EntitledInvariant == Spec => []Entitled
<1>1. Init => Entitled
  <2>1. NoWorker \notin Worker
    BY LeaseAssumption
  <2>2. Init => lock.token = NoWorker
    BY DEF Init, NoLock
  <2>3. Init => \A w \in Worker : leaseEnd[w] = 0
    BY DEF Init
  <2>4. QED
    BY <2>1, <2>2, <2>3 DEF Entitled
<1>2. TypeOK /\ Entitled /\ [Next]_vars => Entitled'
  <2> SUFFICES ASSUME TypeOK, Entitled, [Next]_vars
               PROVE  Entitled'
    OBVIOUS
  <2> USE LeaseAssumption DEF TypeOK, Entitled, NoLock
  <2>1. CASE Tick \/ Finished \/ UNCHANGED vars
    BY <2>1 DEF Tick, Finished, vars, taskVars, hbVars, history
  <2>2. ASSUME NEW w \in Worker, WorkerStep(w)
        PROVE  Entitled'
    <3>1. CASE Acquire(w)
      BY <3>1 DEF Acquire
    <3>2. CASE ForceRelease(w) \/ AcquireDenied(w)
      BY <3>2 DEF ForceRelease, AcquireDenied, history
    <3>3. CASE ExtendLands(w)
      BY <3>3 DEF ExtendLands, LeaseLive
    <3>4. CASE ExtendReturns(w) \/ ExtendRaises(w)
      BY <3>4 DEF ExtendReturns, ExtendRaises, AfterExtend
    <3>5. CASE StartHeartbeat(w) \/ TickFires(w) \/ FnEnds(w)
      BY <3>5 DEF StartHeartbeat, TickFires, FnEnds, history
    <3>6. CASE CancelStop(w) \/ Abandon(w) \/ Crash(w)
      BY <3>6 DEF CancelStop, Abandon, Crash, history
    <3>7. CASE Release(w)
      BY <3>7 DEF Release, history
    <3>8. QED
      BY <2>2, <3>1, <3>2, <3>3, <3>4, <3>5, <3>6, <3>7 DEF WorkerStep
  <2>3. QED
    BY <2>1, <2>2 DEF Next
<1>3. QED
  BY <1>1, <1>2, TypeCorrect, PTL DEF Spec

\* The owner and the workers entitled to the lock, as Lease sees them.
Owner    == IF Free THEN NoWorker ELSE lock.token
Waiting  == {w \in Worker : leaseEnd[w] = 0}

\* A step that leaves the rows and the leases alone is a stutter, or the lapse
\* of a lease.
LEMMA OtherStepsKeepOwner ==
    ASSUME TypeOK, UNCHANGED <<lock, leaseEnd>>,
           clock' \in Nat, clock' >= clock
    PROVE  (Owner' = Owner \/ Owner' = NoWorker) /\ Waiting' = Waiting
BY DEF TypeOK, Owner, Waiting, Free

\* Every step grants the lock to a worker that has not had it, frees it, or
\* stutters.
LEMMA StepsAreLeaseSteps ==
    ASSUME TypeOK, Entitled, [Next]_vars
    PROVE  \/ \E w \in Worker : /\ Owner = NoWorker /\ w \in Waiting
                                /\ Owner' = w /\ Waiting' = Waiting \ {w}
           \/ (Owner' = Owner \/ Owner' = NoWorker) /\ Waiting' = Waiting
<1> USE LeaseAssumption
<1>1. CASE Tick \/ Finished \/ UNCHANGED vars
  <2>1. UNCHANGED <<lock, leaseEnd>> /\ clock' \in Nat /\ clock' >= clock
    BY <1>1 DEF Tick, Finished, vars, taskVars, hbVars, history, TypeOK
  <2>2. QED
    BY <2>1, OtherStepsKeepOwner
<1>2. ASSUME NEW w \in Worker, Acquire(w)
      PROVE  /\ Owner = NoWorker /\ w \in Waiting
             /\ Owner' = w /\ Waiting' = Waiting \ {w}
  <2> USE <1>2 DEF Acquire, TypeOK, Entitled, Owner, Waiting, Free
  <2>1. Owner = NoWorker /\ w \in Waiting
    OBVIOUS
  <2>2. Owner' = w
    OBVIOUS
  <2>3. leaseEnd'[w] > 0 /\ \A v \in Worker \ {w} : leaseEnd'[v] = leaseEnd[v]
    OBVIOUS
  <2>4. Waiting' = Waiting \ {w}
    BY <2>3
  <2>5. QED
    BY <2>1, <2>2, <2>4
<1>3. ASSUME NEW w \in Worker, ForceRelease(w) \/ Release(w)
      PROVE  (Owner' = Owner \/ Owner' = NoWorker) /\ Waiting' = Waiting
  BY <1>3 DEF ForceRelease, Release, TypeOK, Owner, Waiting, Free, NoLock, history
<1>4. ASSUME NEW w \in Worker, ExtendLands(w)
      PROVE  (Owner' = Owner \/ Owner' = NoWorker) /\ Waiting' = Waiting
  <2>1. CASE LeaseLive(w)
    <3>1. Owner' = Owner
      BY <1>4, <2>1 DEF ExtendLands, LeaseLive, TypeOK, Owner, Free
    <3>2. leaseEnd[w] > 0 /\ leaseEnd'[w] > 0
          /\ \A v \in Worker \ {w} : leaseEnd'[v] = leaseEnd[v]
      BY <1>4, <2>1 DEF ExtendLands, LeaseLive, TypeOK, Entitled
    <3>3. Waiting' = Waiting
      BY <3>2 DEF Waiting
    <3>4. QED
      BY <3>1, <3>3
  <2>2. CASE ~LeaseLive(w)
    BY <1>4, <2>2 DEF ExtendLands, Owner, Waiting, Free
  <2>3. QED
    BY <2>1, <2>2
<1>5. ASSUME NEW w \in Worker, WorkerStep(w),
             ~Acquire(w), ~ForceRelease(w), ~Release(w), ~ExtendLands(w)
      PROVE  (Owner' = Owner \/ Owner' = NoWorker) /\ Waiting' = Waiting
  <2>1. UNCHANGED <<clock, lock, leaseEnd>>
    BY <1>5 DEF WorkerStep, AcquireDenied, StartHeartbeat, TickFires,
       ExtendReturns, ExtendRaises, AfterExtend, FnEnds, CancelStop, Abandon,
       Crash, history
  <2>2. QED
    BY <2>1, OtherStepsKeepOwner DEF TypeOK
<1>6. QED
  BY <1>1, <1>2, <1>3, <1>4, <1>5 DEF Next

\* The lock of the backend, with its expiries, tokens, late extends and
\* crashes, implements the lock that Lease describes.
THEOREM LeaseImplemented == Spec => ImplementsLease
<1>1. Init => Promise!Init
  BY LeaseAssumption DEF Init, Promise!Init, NoLock, Free
<1>2. TypeOK /\ Entitled /\ [Next]_vars
        => [Promise!Next]_<<IF Free THEN NoWorker ELSE lock.token,
                            {w \in Worker : leaseEnd[w] = 0}>>
  BY StepsAreLeaseSteps
     DEF Owner, Waiting, Promise!Next, Promise!Grant, Promise!ComeFree
<1>3. QED
  BY <1>1, <1>2, TypeCorrect, EntitledInvariant, PTL
     DEF Spec, ImplementsLease, Promise!Spec

\* The promises of the heartbeat together.
THEOREM HeartbeatSafe == Spec => []HeartbeatIsSafe
<1>1. RenewedLeaseIsHeld /\ TakeoverWindowBounded /\ HungHandlerLetsGo /\ NoExtendAfterRelease
        => HeartbeatIsSafe
  BY DEF HeartbeatIsSafe
<1>2. QED
  BY RenewedLeases, TakeoverWindow, HungHandlers, LateExtends, <1>1, PTL

\* Leases end by their owners, by force or by time, and do not come back.
THEOREM LeasesEnd == Spec => LeasesEndForGood
  BY ReleasesAreOwn, LeasesAreNotResurrected DEF LeasesEndForGood
=============================================================================
