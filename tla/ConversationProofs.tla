------------------------- MODULE ConversationProofs -------------------------
(***************************************************************************)
(* What holds of a conversation for every value of its constants.          *)
(*                                                                         *)
(* First ChatDispatch, for every set of deliveries, every strategy,        *)
(* conflict policy and queue size, and any number of faults.  The proofs   *)
(* climb: who holds the lock, who was admitted, where every message is,    *)
(* and in which order they are shown.  Then the parts of a conversation    *)
(* that stand beside it, each with its constants, its instance and an      *)
(* inductive invariant: webhooks, events and their threads, guarded        *)
(* downloads, the files of queued messages, Slack's workspaces, and the    *)
(* tools of agents.  MCConversation adds the objects that were restored    *)
(* and WhatsApp's users, puts all together and states the theorems.        *)
(***************************************************************************)
EXTENDS ChatDispatch, SequenceTheorems, FiniteSetTheorems, TLAPS

\* The part of the type invariant the lock depends on.
LockTypeOK ==
    /\ pc \in [Delivery -> Arriving \cup Holding \cup Final \cup {"releasing"}]
    /\ lock \in Delivery \cup {NoOne}
    /\ usurped \subseteq Delivery

\* The groups of labels are disjoint.
LEMMA LabelsDisjoint ==
    /\ Arriving \cap Holding = {} /\ Arriving \cap Final = {}
    /\ Holding \cap Final = {} /\ "releasing" \notin Arriving \cup Holding \cup Final
BY DEF Arriving, Holding, Final

\* A task enters _with_held_lock only as the holder, so whoever is inside
\* holds the lock or was robbed of it: without a lapse or a force release no
\* two handlers of a lock key run at once.
THEOREM HoldersHoldTheLock == Spec => []HandlersHoldTheLock
<1> DEFINE Inv == LockTypeOK /\ HandlersHoldTheLock
<1>1. Init => Inv
  BY DispatchAssumption
     DEF Init, LockTypeOK, HandlersHoldTheLock, Arriving, Holding
<1>2. Inv /\ [Next]_vars => Inv'
  <2> SUFFICES ASSUME Inv, [Next]_vars
               PROVE  Inv'
    OBVIOUS
  <2> USE DispatchAssumption
          DEF LockTypeOK, HandlersHoldTheLock, Goto, Arriving, Holding, Final
  <2>1. ASSUME NEW d \in Delivery,
               Deduplicate(d) \/ AcquireFails(d) \/ Reject(d) \/ ReadDepth(d)
                 \/ EnqueueBehind(d)
        PROVE  Inv'
    BY <2>1 DEF Deduplicate, AcquireFails, Reject, ReadDepth, EnqueueBehind,
         history
  <2>2. ASSUME NEW d \in Delivery, Acquire(d) \/ Reacquire(d)
        PROVE  Inv'
    <3>1. lock = NoOne /\ lock' = d /\ usurped' = usurped
      BY <2>2 DEF Acquire, Reacquire, EnterHeldLock
    <3>2. \E l \in {"handling", "buffering"} : pc' = [pc EXCEPT ![d] = l]
      BY <2>2 DEF Acquire, Reacquire, EnterHeldLock
    <3>3. QED
      BY <3>1, <3>2
  <2>3. ASSUME NEW d \in Delivery, ForceRelease(d)
        PROVE  Inv'
    BY <2>3 DEF ForceRelease
  <2>4. ASSUME NEW d \in Delivery, pc[d] \in Holding,
               UNCHANGED <<lock, usurped>>,
               \E l \in Holding \cup {"releasing"} : pc' = [pc EXCEPT ![d] = l]
        PROVE  Inv'
    BY <2>4
  <2>5. ASSUME NEW d \in Delivery,
               EnqueueOwn(d) \/ WindowEnds(d) \/ FindNothing(d)
                 \/ DispatchCollected(d) \/ StopCollecting(d) \/ Superseded(d)
                 \/ DispatchLatest(d) \/ HandlerReturns(d) \/ UnwindHolder(d)
        PROVE  Inv'
    <3>1. pc[d] \in Holding /\ UNCHANGED <<lock, usurped>>
      BY <2>5 DEF EnqueueOwn, WindowEnds, FindNothing, DispatchCollected,
           StopCollecting, Superseded, DispatchLatest, HandlerReturns,
           UnwindHolder, history
    <3>2. \E l \in Holding \cup {"releasing"} : pc' = [pc EXCEPT ![d] = l]
      BY <2>5 DEF EnqueueOwn, WindowEnds, FindNothing, DispatchCollected,
           StopCollecting, Superseded, DispatchLatest, HandlerReturns,
           UnwindHolder, DispatchBatch, LoopTop
    <3>3. QED
      BY <3>1, <3>2, <2>4
  <2>6. ASSUME NEW d \in Delivery, TakeOne(d) \/ NoticeLoss(d) \/ EntryExpires(d)
        PROVE  Inv'
    BY <2>6 DEF TakeOne, NoticeLoss, EntryExpires,
          taskVars, history
  <2>7. ASSUME NEW d \in Delivery, Release(d)
        PROVE  Inv'
    BY <2>7 DEF Release, history
  <2>8. ASSUME NEW d \in Delivery, Vanish(d)
        PROVE  Inv'
    BY <2>8 DEF Vanish
  <2>9. CASE OrphanLapses
    BY <2>9 DEF OrphanLapses,
          taskVars, history
  <2>10. CASE LeaseLapses
    BY <2>10 DEF LeaseLapses, taskVars
  <2>11. ASSUME NEW m \in keys, KeyExpires(m)
         PROVE  Inv'
    BY <2>11 DEF KeyExpires, taskVars
  <2>12. CASE Finished \/ UNCHANGED vars
    BY <2>12 DEF Finished, vars,
          taskVars, history
  <2>13. QED
    BY <2>1, <2>2, <2>3, <2>5, <2>6, <2>7, <2>8, <2>9, <2>10, <2>11, <2>12
       DEF Next, TaskStep, FaultStep
<1>3. QED
  BY <1>1, <1>2, PTL DEF Spec

\* A delivery that got past deduplication.
Admitted(d) == pc[d] \notin {"new", "duplicate"}

\* While no dedupe key expires, at most one delivery of a message is admitted:
\* the key is claimed and tested in one call, before any other effect.
AdmittedOnce ==
    \A d, e \in Delivery :
        d # e /\ Admitted(d) /\ Admitted(e) /\ MessageOf[d] = MessageOf[e]
          => MessageOf[d] \in lapsed

\* An admitted message has its dedupe key, or had it until it expired.
KeyClaimed ==
    \A d \in Delivery : Admitted(d) => MessageOf[d] \in keys \cup lapsed

\* Redeliveries that race each other are settled by set_if_not_exists: only one
\* of them goes on to the lock.
THEOREM DeliveriesAdmittedOnce == Spec => []AdmittedOnce
<1> DEFINE Labels == Arriving \cup Holding \cup Final \cup {"releasing"}
           Inv == pc \in [Delivery -> Labels] /\ KeyClaimed /\ AdmittedOnce
<1> USE DEF KeyClaimed, AdmittedOnce, Admitted
<1>1. Init => Inv
  BY DEF Init, Arriving
<1>2. Inv /\ [Next]_vars => Inv'
  <2> SUFFICES ASSUME Inv, [Next]_vars
               PROVE  Inv'
    OBVIOUS
  <2>1. ASSUME NEW d \in Delivery, Deduplicate(d)
        PROVE  Inv'
    <3>1. PICK l \in {"duplicate", "acquiring"} :
             /\ pc' = [pc EXCEPT ![d] = l]
             /\ l = "acquiring" => MessageOf[d] \notin keys
      BY <2>1 DEF Deduplicate, Goto
    <3>2. keys' = keys \cup {MessageOf[d]} /\ lapsed' = lapsed
      BY <2>1 DEF Deduplicate, history
    <3>3. pc' \in [Delivery -> Labels]
      BY <3>1 DEF Arriving, Final
    <3>4. KeyClaimed'
      BY <3>1, <3>2
    <3>5. AdmittedOnce'
      BY <3>1, <3>2
    <3>6. QED
      BY <3>3, <3>4, <3>5
  <2>2. ASSUME NEW d \in Delivery, Admitted(d), UNCHANGED <<keys, lapsed>>,
               \E l \in Labels \ {"new", "duplicate"} :
                 pc' = [pc EXCEPT ![d] = l]
        PROVE  Inv'
    BY <2>2
  <2>3. ASSUME NEW d \in Delivery,
               \/ Acquire(d) \/ AcquireFails(d) \/ Reject(d)
               \/ ForceRelease(d) \/ Reacquire(d) \/ ReadDepth(d)
               \/ EnqueueBehind(d) \/ EnqueueOwn(d) \/ WindowEnds(d)
               \/ FindNothing(d) \/ DispatchCollected(d)
               \/ StopCollecting(d) \/ Superseded(d) \/ DispatchLatest(d)
               \/ HandlerReturns(d) \/ Release(d) \/ UnwindHolder(d)
               \/ Vanish(d)
        PROVE  Inv'
    <3> USE DEF Acquire, AcquireFails, Reject, ForceRelease, Reacquire,
            ReadDepth, EnqueueBehind, EnqueueOwn, WindowEnds, FindNothing,
            DispatchCollected, StopCollecting, Superseded, DispatchLatest,
            HandlerReturns, Release, UnwindHolder, Vanish, EnterHeldLock,
            DispatchBatch
    <3>1. Admitted(d)
      BY <2>3 DEF Final, Holding
    <3>2. UNCHANGED <<keys, lapsed>>
      BY <2>3 DEF history
    <3>3. \E l \in Labels \ {"new", "duplicate"} : pc' = [pc EXCEPT ![d] = l]
      BY <2>3 DEF Goto, LoopTop, Arriving, Holding, Final
    <3>4. QED
      BY <3>1, <3>2, <3>3, <2>2
  <2>4. CASE UNCHANGED <<pc, keys, lapsed>>
    BY <2>4
  <2>5. ASSUME NEW d \in Delivery, TakeOne(d) \/ NoticeLoss(d) \/ EntryExpires(d)
        PROVE  Inv'
    BY <2>5, <2>4 DEF TakeOne, NoticeLoss, EntryExpires,
          taskVars, history
  <2>6. CASE OrphanLapses \/ LeaseLapses \/ Finished \/ UNCHANGED vars
    BY <2>6, <2>4 DEF OrphanLapses, LeaseLapses, Finished, vars, taskVars,
       history
  <2>7. ASSUME NEW k \in keys, KeyExpires(k)
        PROVE  Inv'
    BY <2>7 DEF KeyExpires, taskVars
  <2>8. QED
    BY <2>1, <2>3, <2>5, <2>6, <2>7 DEF Next, TaskStep, FaultStep
<1>3. Inv => AdmittedOnce
  OBVIOUS
<1>4. QED
  BY <1>1, <1>2, <1>3, PTL DEF Spec

-----------------------------------------------------------------------------
(* Sequences that rise in an order *)

\* A sequence whose elements rise in the order r, and a set wholly before another.
Sorted(s, r)    == \A i, j \in DOMAIN s : i < j => r[s[i]] < r[s[j]]
Before(S, T, r) == \A x \in S, y \in T : r[x] < r[y]

\* Appending an element that is above all others.
LEMMA Appended ==
    ASSUME NEW S, NEW s \in Seq(S), NEW e \in S, NEW r \in [S -> Nat]
    PROVE  /\ Append(s, e) \in Seq(S)
           /\ ToSet(Append(s, e)) = ToSet(s) \cup {e}
           /\ Sorted(s, r) /\ Before(ToSet(s), {e}, r) => Sorted(Append(s, e), r)
<1>1. /\ Append(s, e) \in Seq(S) /\ Len(Append(s, e)) = Len(s) + 1
      /\ \A i \in 1 .. Len(s) : Append(s, e)[i] = s[i]
      /\ Append(s, e)[Len(s) + 1] = e
  OBVIOUS
<1>2. DOMAIN Append(s, e) = 1 .. Len(s) + 1 /\ DOMAIN s = 1 .. Len(s)
  BY <1>1
<1>3. ToSet(Append(s, e)) = ToSet(s) \cup {e}
  <2>1. \A x \in ToSet(Append(s, e)) : x \in ToSet(s) \cup {e}
    BY <1>1, <1>2 DEF ToSet
  <2>2. \A x \in ToSet(s) : x \in ToSet(Append(s, e))
    BY <1>1, <1>2 DEF ToSet
  <2>3. e \in ToSet(Append(s, e))
    BY <1>1, <1>2 DEF ToSet
  <2>4. QED
    BY <2>1, <2>2, <2>3
<1>4. Sorted(s, r) /\ Before(ToSet(s), {e}, r) => Sorted(Append(s, e), r)
  BY <1>1, <1>2 DEF Sorted, Before, ToSet
<1>5. QED
  BY <1>1, <1>3, <1>4

\* Dropping the first n elements.
LEMMA Dropped ==
    ASSUME NEW S, NEW s \in Seq(S), NEW n \in 0 .. Len(s), NEW r \in [S -> Nat]
    PROVE  LET t == SubSeq(s, n + 1, Len(s))
           IN  /\ t \in Seq(S) /\ Len(t) = Len(s) - n
               /\ ToSet(t) \subseteq ToSet(s)
               /\ Sorted(s, r) => Sorted(t, r)
               /\ n < Len(s) => s[Len(s)] \in ToSet(t)
<1> DEFINE t == SubSeq(s, n + 1, Len(s))
<1>1. /\ t \in Seq(S) /\ Len(t) = Len(s) - n
      /\ \A i \in 1 .. Len(s) - n : t[i] = s[n + i]
  OBVIOUS
<1>2. DOMAIN t = 1 .. Len(s) - n /\ DOMAIN s = 1 .. Len(s)
  BY <1>1
<1> HIDE DEF t
<1>a. Len(s) \in Nat /\ DOMAIN t \subseteq Nat
      /\ \A i \in DOMAIN t : n + i \in DOMAIN s /\ t[i] = s[n + i]
  <2>1. Len(s) \in Nat /\ n \in Nat
    OBVIOUS
  <2>2. \A i \in 1 .. Len(s) - n : i \in Nat /\ n + i \in 1 .. Len(s)
    BY <2>1
  <2>3. DOMAIN t \subseteq Nat
    BY <1>2, <2>2
  <2>4. QED
    BY <1>1, <1>2, <2>1, <2>2, <2>3
<1>3. ToSet(t) \subseteq ToSet(s)
  <2>1. \A x \in ToSet(t) : \E i \in DOMAIN t : x = s[n + i]
    BY <1>a DEF ToSet
  <2>2. QED
    BY <1>a, <2>1 DEF ToSet
<1>4. ASSUME Sorted(s, r)
      PROVE  Sorted(t, r)
  <2>1. ASSUME NEW i \in DOMAIN t, NEW j \in DOMAIN t, i < j
        PROVE  r[t[i]] < r[t[j]]
    <3>1. n + i < n + j
      BY <1>a, <2>1
    <3>2. QED
      BY <1>a, <1>4, <2>1, <3>1 DEF Sorted
  <2>2. QED
    BY <2>1 DEF Sorted
<1>5. ASSUME n < Len(s)
      PROVE  s[Len(s)] \in ToSet(t)
  <2>1. Len(s) - n \in DOMAIN t /\ t[Len(s) - n] = s[n + (Len(s) - n)]
    BY <1>1, <1>2, <1>5
  <2>2. QED
    BY <2>1 DEF ToSet
<1>6. QED
  BY <1>1, <1>3, <1>4, <1>5 DEF t

\* Taking the first element off.
LEMMA HeadTaken ==
    ASSUME NEW S, NEW s \in Seq(S), s # <<>>, NEW r \in [S -> Nat], Sorted(s, r)
    PROVE  /\ Head(s) \in S /\ Tail(s) \in Seq(S)
           /\ ToSet(s) = ToSet(Tail(s)) \cup {Head(s)} /\ Head(s) \notin ToSet(Tail(s))
           /\ Sorted(Tail(s), r) /\ Before({Head(s)}, ToSet(Tail(s)), r)
<1>1. /\ Head(s) = s[1] /\ Head(s) \in S /\ Tail(s) \in Seq(S) /\ Len(s) >= 1
      /\ Len(Tail(s)) = Len(s) - 1
      /\ \A i \in 1 .. Len(s) - 1 : Tail(s)[i] = s[i + 1]
  OBVIOUS
<1>2. DOMAIN s = 1 .. Len(s) /\ DOMAIN Tail(s) = 1 .. Len(s) - 1
  BY <1>1
<1>a. \A i \in 1 .. Len(s) - 1 : i + 1 \in 1 .. Len(s) /\ 1 < i + 1 /\ 1 \in 1 .. Len(s)
  BY <1>1
<1>3. \A x \in ToSet(Tail(s)) : x \in ToSet(s) /\ r[s[1]] < r[x] /\ x # s[1]
  <2>1. ASSUME NEW i \in 1 .. Len(s) - 1
        PROVE  Tail(s)[i] \in ToSet(s) /\ r[s[1]] < r[Tail(s)[i]]
    <3>1. Tail(s)[i] = s[i + 1] /\ i + 1 \in DOMAIN s
      BY <1>1, <1>2, <1>a
    <3>2. r[s[1]] < r[s[i + 1]]
      BY <1>2, <1>a DEF Sorted
    <3>3. QED
      BY <3>1, <3>2 DEF ToSet
  <2>2. \A x \in S : r[x] \in Nat
    OBVIOUS
  <2>3. ASSUME NEW x \in ToSet(Tail(s))
        PROVE  x \in ToSet(s) /\ r[s[1]] < r[x] /\ x # s[1]
    <3>1. PICK i \in 1 .. Len(s) - 1 : x = Tail(s)[i]
      BY <1>2 DEF ToSet
    <3>2. x \in ToSet(s) /\ r[s[1]] < r[x]
      BY <2>1, <3>1
    <3>3. s[1] \in S
      BY <1>1
    <3>4. QED
      BY <2>2, <3>2, <3>3
  <2>4. QED
    BY <2>3
<1>4. s[1] \in ToSet(s)
  BY <1>1, <1>2 DEF ToSet
<1>5. \A x \in ToSet(s) : x = s[1] \/ x \in ToSet(Tail(s))
  <2>1. ASSUME NEW i \in 1 .. Len(s), i # 1
        PROVE  s[i] \in ToSet(Tail(s))
    <3>1. i - 1 \in 1 .. Len(s) - 1 /\ (i - 1) + 1 = i
      BY <1>1, <2>1
    <3>2. Tail(s)[i - 1] = s[i]
      BY <1>1, <3>1
    <3>3. QED
      BY <1>2, <3>1, <3>2 DEF ToSet
  <2>2. QED
    BY <1>2, <2>1 DEF ToSet
<1>6. Sorted(Tail(s), r)
  <2>1. ASSUME NEW i \in 1 .. Len(s) - 1, NEW j \in 1 .. Len(s) - 1, i < j
        PROVE  r[Tail(s)[i]] < r[Tail(s)[j]]
    <3>1. Tail(s)[i] = s[i + 1] /\ Tail(s)[j] = s[j + 1] /\ i + 1 < j + 1
      BY <1>1, <2>1
    <3>2. QED
      BY <1>2, <1>a, <3>1 DEF Sorted
  <2>2. QED
    BY <1>2, <2>1 DEF Sorted
<1>b. ToSet(s) = ToSet(Tail(s)) \cup {Head(s)} /\ Head(s) \notin ToSet(Tail(s))
  BY <1>1, <1>3, <1>4, <1>5
<1>c. Before({Head(s)}, ToSet(Tail(s)), r)
  BY <1>1, <1>3 DEF Before
<1>7. QED
  BY <1>1, <1>6, <1>b, <1>c

\* Taking the last element off.
LEMMA LastTaken ==
    ASSUME NEW S, NEW s \in Seq(S), s # <<>>, NEW r \in [S -> Nat], Sorted(s, r)
    PROVE  /\ Last(s) \in S /\ Front(s) \in Seq(S)
           /\ ToSet(s) = ToSet(Front(s)) \cup {Last(s)} /\ Last(s) \notin ToSet(Front(s))
           /\ Sorted(Front(s), r) /\ Before(ToSet(Front(s)), {Last(s)}, r)
<1> DEFINE n == Len(s)
           t == SubSeq(s, 1, n - 1)
<1>1. n \in Nat /\ n >= 1 /\ s[n] \in S /\ \A i \in 1 .. n : s[i] \in S
  OBVIOUS
<1>2. t \in Seq(S) /\ Len(t) = n - 1 /\ \A i \in 1 .. n - 1 : t[i] = s[i]
  <2>1. ASSUME NEW k \in Int, k >= 0, \A i \in 1 .. k : s[i] \in S
        PROVE  /\ SubSeq(s, 1, k) \in Seq(S) /\ Len(SubSeq(s, 1, k)) = k
               /\ \A i \in 1 .. k : SubSeq(s, 1, k)[i] = s[i]
    <3>1. 1 <= k => k - 1 + 1 = k
      BY <2>1
    <3>2. /\ SubSeq(s, 1, k) \in Seq(S)
          /\ Len(SubSeq(s, 1, k)) = IF 1 <= k THEN k - 1 + 1 ELSE 0
          /\ \A i \in 1 .. k - 1 + 1 : SubSeq(s, 1, k)[i] = s[1 + i - 1]
      BY <2>1, SubSeqProperties
    <3>3. QED
      BY <2>1, <3>1, <3>2
  <2>2. n - 1 \in Int /\ n - 1 >= 0 /\ \A i \in 1 .. n - 1 : s[i] \in S
    BY <1>1
  <2>3. QED
    BY <2>1, <2>2
<1>3. DOMAIN s = 1 .. n /\ DOMAIN t = 1 .. n - 1
  BY <1>2
<1>4. Last(s) = s[n] /\ Front(s) = t
  BY DEF Last, Front
<1> HIDE DEF n, t
<1>5. \A i \in DOMAIN t : i \in DOMAIN s /\ t[i] = s[i] /\ r[s[i]] < r[s[n]]
  BY <1>1, <1>2, <1>3 DEF Sorted
<1>6. \A x \in ToSet(t) : x \in ToSet(s) /\ r[x] < r[s[n]] /\ x # s[n]
  BY <1>1, <1>3, <1>5 DEF ToSet
<1>7. s[n] \in ToSet(s)
  BY <1>1, <1>3 DEF ToSet
<1>8. \A x \in ToSet(s) : x = s[n] \/ x \in ToSet(t)
  <2>1. ASSUME NEW i \in DOMAIN s, i # n
        PROVE  s[i] \in ToSet(t)
    <3>1. i \in DOMAIN t /\ t[i] = s[i]
      BY <1>1, <1>2, <1>3, <2>1
    <3>2. QED
      BY <3>1 DEF ToSet
  <2>2. QED
    BY <2>1 DEF ToSet
<1>9. Sorted(t, r)
  BY <1>1, <1>3, <1>5 DEF Sorted
<1>10. QED
  BY <1>1, <1>2, <1>4, <1>6, <1>7, <1>8, <1>9 DEF Before

\* One sequence after another that is wholly before it.
LEMMA Joined ==
    ASSUME NEW S, NEW s \in Seq(S), NEW t \in Seq(S), NEW r \in [S -> Nat]
    PROVE  /\ s \o t \in Seq(S) /\ ToSet(s \o t) = ToSet(s) \cup ToSet(t)
           /\ Sorted(s, r) /\ Sorted(t, r) /\ Before(ToSet(s), ToSet(t), r) => Sorted(s \o t, r)
<1>1. /\ s \o t \in Seq(S) /\ Len(s \o t) = Len(s) + Len(t)
      /\ \A i \in 1 .. Len(s) + Len(t) : (s \o t)[i] = IF i <= Len(s) THEN s[i] ELSE t[i - Len(s)]
  OBVIOUS
<1>2. DOMAIN s = 1 .. Len(s) /\ DOMAIN t = 1 .. Len(t) /\ DOMAIN (s \o t) = 1 .. Len(s) + Len(t)
  BY <1>1
<1>a. Len(s) \in Nat /\ Len(t) \in Nat
  OBVIOUS
<1> DEFINE u == s \o t
<1>b. \A i \in DOMAIN u : u[i] = IF i <= Len(s) THEN s[i] ELSE t[i - Len(s)]
  BY <1>1, <1>2
<1>c. DOMAIN u = 1 .. Len(s) + Len(t)
  BY <1>2
<1>d. u \in Seq(S)
  BY <1>1
<1> HIDE DEF u
<1>3. \A x \in ToSet(u) : x \in ToSet(s) \cup ToSet(t)
  BY <1>a, <1>b, <1>c, <1>2 DEF ToSet
<1>4. \A x \in ToSet(s) : x \in ToSet(u)
  BY <1>a, <1>b, <1>c, <1>2 DEF ToSet
<1>5. \A x \in ToSet(t) : x \in ToSet(u)
  <2>1. ASSUME NEW i \in DOMAIN t
        PROVE  t[i] \in ToSet(u)
    <3>1. i + Len(s) \in DOMAIN u /\ ~(i + Len(s) <= Len(s)) /\ (i + Len(s)) - Len(s) = i
      BY <1>a, <1>c, <1>2, <2>1
    <3>2. u[i + Len(s)] = t[i]
      BY <1>b, <3>1
    <3>3. QED
      BY <3>1, <3>2 DEF ToSet
  <2>2. QED
    BY <2>1 DEF ToSet
<1>6. ASSUME Sorted(s, r), Sorted(t, r), Before(ToSet(s), ToSet(t), r)
      PROVE  Sorted(u, r)
  <2> SUFFICES ASSUME NEW i \in DOMAIN u, NEW j \in DOMAIN u, i < j
               PROVE  r[u[i]] < r[u[j]]
    BY DEF Sorted
  <2>1. CASE j <= Len(s)
    BY <1>a, <1>b, <1>c, <1>2, <1>6, <2>1 DEF Sorted
  <2>2. CASE i > Len(s)
    <3>1. /\ u[i] = t[i - Len(s)] /\ i - Len(s) \in DOMAIN t
          /\ u[j] = t[j - Len(s)] /\ j - Len(s) \in DOMAIN t
          /\ i - Len(s) < j - Len(s)
      BY <1>a, <1>b, <1>c, <1>2, <2>2
    <3>2. QED
      BY <1>6, <3>1 DEF Sorted
  <2>3. CASE i <= Len(s) /\ j > Len(s)
    <3>1. u[i] = s[i] /\ i \in DOMAIN s /\ u[j] = t[j - Len(s)] /\ j - Len(s) \in DOMAIN t
      BY <1>a, <1>b, <1>c, <1>2, <2>3
    <3>2. QED
      BY <1>6, <3>1 DEF Before, ToSet
  <2>4. QED
    BY <1>a, <1>c, <2>1, <2>2, <2>3
<1>7. QED
  BY <1>3, <1>4, <1>5, <1>6, <1>d DEF u

\* The order of a sequence depends on the ranks of its elements only.
LEMMA Kept ==
    ASSUME NEW s, NEW r, NEW q, \A x \in ToSet(s) : q[x] = r[x], Sorted(s, r)
    PROVE  Sorted(s, q)
BY DEF Sorted, ToSet

-----------------------------------------------------------------------------
(* The place of every message *)

\* Why a delivery may be gone, and what is recorded of a call.
Reason == {"no", "rejected", "dropped", "evicted", "expired", "foreign", "abandoned"}
HandlerCall == [by : Delivery, latest : Delivery, older : Seq(Delivery),
                thread : {ThreadOf[d] : d \in Delivery}]

\* The part of the type invariant the places depend on.
PlacesTypeOK ==
    /\ pc \in [Delivery -> Arriving \cup Holding \cup Final \cup {"releasing"}]
    /\ queue \in Seq(Delivery) /\ arrivals \in Seq(Delivery)
    /\ pending \in [Delivery -> Seq(Delivery)]
    /\ skipped \in [Delivery -> Seq(Delivery)]
    /\ handled \in Seq(HandlerCall)
    /\ gone \in [Delivery -> Reason]

\* The position of a delivery in the order of arrival, 0 before that.
Rank == [d \in Delivery |-> IF d \in ToSet(arrivals) THEN Arrival(d) ELSE 0]

\* Who still has its message with its own task, and what a task has in hand.
OwnTask(d) == pc[d] \in Arriving \cup {"buffering", "duplicate"}
Hands(t)   == ToSet(pending[t]) \cup ToSet(skipped[t])

\* Only the debounce loop keeps superseded messages.
OnlyDebounceKeeps ==
    \A t \in Delivery :
        /\ Strategy # "debounce" => skipped[t] = <<>>
        /\ pc[t] = "counting" => Strategy = "debounce" /\ pending[t] # <<>>

\* Who is where: kind and, of a task's hands or a call, which.
Placed(kind, of) ==
    /\ kind \in [Delivery -> {"own", "gone", "queue", "hands", "shown"}]
    /\ of \in [Delivery -> Delivery \cup Nat]
    /\ \A d \in Delivery : OwnTask(d) <=> kind[d] = "own"
    /\ \A d \in Delivery : gone[d] # "no" <=> kind[d] = "gone"
    /\ \A d \in Delivery : d \in ToSet(queue) <=> kind[d] = "queue"
    /\ \A d, t \in Delivery : d \in Hands(t) <=> kind[d] = "hands" /\ of[d] = t
    /\ \A d \in Delivery : kind[d] = "hands" => of[d] \in Delivery
    /\ \A d \in Delivery, n \in DOMAIN handled :
           d \in Shown(handled[n]) <=> kind[d] = "shown" /\ of[d] = n
    /\ \A d \in Delivery : kind[d] = "shown" => of[d] \in DOMAIN handled

\* Every sequence rises in the order of arrival; a task's superseded messages are
\* older than its pending ones, and both than what is queued.
Ordered ==
    /\ \A i, j \in DOMAIN arrivals : arrivals[i] = arrivals[j] => i = j
    /\ \A d \in Delivery : OwnTask(d) => d \notin ToSet(arrivals)
    /\ ToSet(queue) \subseteq ToSet(arrivals) /\ Sorted(queue, Rank)
    /\ \A t \in Delivery :
           /\ Hands(t) \subseteq ToSet(arrivals)
           /\ Sorted(skipped[t], Rank) /\ Sorted(pending[t], Rank)
           /\ Before(ToSet(skipped[t]), ToSet(pending[t]), Rank)
           /\ Before(Hands(t), ToSet(queue), Rank)
    /\ \A n \in DOMAIN handled :
           /\ ToSet(handled[n].older) \cup {handled[n].latest} \subseteq ToSet(arrivals)
           /\ Sorted(handled[n].older, Rank)
           /\ Before(ToSet(handled[n].older), {handled[n].latest}, Rank)

\* A message is passed over only for a later one of another thread.
ForeignIsOlder ==
    /\ \A n \in DOMAIN handled : handled[n].thread = ThreadOf[handled[n].latest]
    /\ \A d \in Delivery :
           gone[d] = "foreign" =>
               /\ d \in ToSet(arrivals)
               /\ \E n \in DOMAIN handled : /\ ThreadOf[handled[n].latest] # ThreadOf[d]
                                            /\ Rank[d] < Rank[handled[n].latest]

\* Every message is in one kind of place, and every sequence in order.
PlacesInv ==
    /\ PlacesTypeOK /\ OnlyDebounceKeeps /\ Ordered /\ ForeignIsOlder
    /\ \E kind, of : Placed(kind, of)

-----------------------------------------------------------------------------
\* The empty sequence holds nothing and is in order.
LEMMA EmptySequence ==
    ASSUME NEW r
    PROVE  ToSet(<<>>) = {} /\ Sorted(<<>>, r)
BY DEF ToSet, Sorted

\* Ranks are numbers.
LEMMA RankTyped == arrivals \in Seq(Delivery) => Rank \in [Delivery -> Nat]
<1> SUFFICES ASSUME arrivals \in Seq(Delivery), NEW d \in ToSet(arrivals)
             PROVE  Arrival(d) \in Nat
  BY DEF Rank
<1>1. \E i \in DOMAIN arrivals : arrivals[i] = d
  BY DEF ToSet
<1>2. Arrival(d) \in DOMAIN arrivals
  BY <1>1 DEF Arrival
<1>3. QED
  BY <1>2

\* Nobody changes rank while nobody arrives.
LEMMA RankKept == arrivals' = arrivals => Rank' = Rank
BY DEF Rank, Arrival

\* A delivery that arrives is the newest; the others keep their ranks.
LEMMA RankGrows ==
    ASSUME arrivals \in Seq(Delivery), NEW d \in Delivery, d \notin ToSet(arrivals),
           \A i, j \in DOMAIN arrivals : arrivals[i] = arrivals[j] => i = j,
           arrivals' = Append(arrivals, d)
    PROVE  /\ \A e \in ToSet(arrivals) : Rank'[e] = Rank[e] /\ Rank[e] < Rank'[d]
           /\ \A i, j \in DOMAIN arrivals' : arrivals'[i] = arrivals'[j] => i = j
           /\ ToSet(arrivals') = ToSet(arrivals) \cup {d}
<1>1. /\ DOMAIN arrivals = 1 .. Len(arrivals) /\ DOMAIN arrivals' = 1 .. Len(arrivals) + 1
      /\ \A i \in 1 .. Len(arrivals) : arrivals'[i] = arrivals[i]
      /\ arrivals'[Len(arrivals) + 1] = d /\ Len(arrivals) \in Nat
  OBVIOUS
<1>2. \A i \in DOMAIN arrivals : arrivals[i] # d
  BY DEF ToSet
<1>3. \A i, j \in DOMAIN arrivals' : arrivals'[i] = arrivals'[j] => i = j
  BY <1>1, <1>2
<1>4. ToSet(arrivals') = ToSet(arrivals) \cup {d} /\ ToSet(arrivals) \subseteq Delivery
  <2>1. ToSet(arrivals) \subseteq Delivery
    BY DEF ToSet
  <2>2. [e \in Delivery |-> 0] \in [Delivery -> Nat]
    OBVIOUS
  <2>3. QED
    BY <2>1, <2>2, Appended
<1>5. ASSUME NEW i \in DOMAIN arrivals', NEW e, arrivals'[i] = e
      PROVE  Arrival(e)' = i
  <2>1. \A j \in DOMAIN arrivals' : arrivals'[j] = e <=> j = i
    BY <1>3, <1>5
  <2>2. (CHOOSE j \in DOMAIN arrivals' : arrivals'[j] = e) = i
    BY <2>1
  <2>3. QED
    BY <2>2 DEF Arrival
<1>6. \A i \in DOMAIN arrivals : Arrival(arrivals[i]) = i
  <2> SUFFICES ASSUME NEW i \in DOMAIN arrivals
               PROVE  (CHOOSE j \in DOMAIN arrivals : arrivals[j] = arrivals[i]) = i
    BY DEF Arrival
  <2>1. \A j \in DOMAIN arrivals : arrivals[j] = arrivals[i] <=> j = i
    OBVIOUS
  <2>2. QED
    BY <2>1
<1>7. ASSUME NEW e \in ToSet(arrivals)
      PROVE  Rank'[e] = Rank[e] /\ Rank[e] < Rank'[d]
  <2>1. PICK i \in DOMAIN arrivals : arrivals[i] = e
    BY DEF ToSet
  <2>2. Arrival(e) = i
    BY <1>6, <2>1
  <2>3. i \in DOMAIN arrivals' /\ arrivals'[i] = e
    BY <1>1, <2>1
  <2>4. Arrival(e)' = i
    BY <1>5, <2>3
  <2>5. Arrival(d)' = Len(arrivals) + 1
    BY <1>1, <1>5
  <2>6. Rank[e] = i /\ Rank'[e] = i /\ Rank'[d] = Len(arrivals) + 1
    BY <1>4, <2>2, <2>4, <2>5 DEF Rank
  <2>7. QED
    BY <1>1, <2>6
<1>8. QED
  BY <1>3, <1>4, <1>7

\* In the beginning every message is with its own task.
LEMMA PlacesInitially == Init => PlacesInv
<1> SUFFICES ASSUME Init
             PROVE  PlacesInv
  OBVIOUS
<1>1. PlacesTypeOK
  BY DEF Init, PlacesTypeOK, Arriving, Reason
<1>2. OnlyDebounceKeeps
  BY DEF Init, OnlyDebounceKeeps
<1>3. ToSet(<<>>) = {} /\ Sorted(<<>>, Rank)
  BY EmptySequence
<1>4. Ordered
  BY <1>3 DEF Init, Ordered, Hands, Before
<1>5. ForeignIsOlder
  BY DEF Init, ForeignIsOlder
<1>6. Placed([d \in Delivery |-> "own"], [d \in Delivery |-> 0])
  BY <1>3 DEF Init, Placed, OwnTask, Hands, Arriving
<1>7. QED
  BY <1>1, <1>2, <1>4, <1>5, <1>6 DEF PlacesInv

-----------------------------------------------------------------------------
\* What every step makes of the labels.
Labelled ==
    /\ pc' \in [Delivery -> Arriving \cup Holding \cup Final \cup {"releasing"}]
    /\ config' = config
    /\ \A t \in Delivery : pc'[t] = "counting" => Strategy = "debounce" /\ pending'[t] # <<>>

\* A step that moves no message.
LEMMA NobodyMoves ==
    ASSUME PlacesInv, Labelled,
           UNCHANGED <<queue, pending, skipped, handled, gone, arrivals>>,
           \A e \in Delivery : OwnTask(e)' <=> OwnTask(e)
    PROVE  PlacesInv'
<1>1. PICK kind, of : Placed(kind, of)
  BY DEF PlacesInv
<1>2. Rank' = Rank
  BY RankKept
<1>3. PlacesTypeOK'
  BY DEF PlacesInv, PlacesTypeOK, Labelled
<1>4. OnlyDebounceKeeps'
  BY DEF PlacesInv, OnlyDebounceKeeps, Labelled, Strategy
<1>5. Ordered'
  BY <1>2 DEF PlacesInv, Ordered, Hands
<1>6. ForeignIsOlder'
  BY <1>2 DEF PlacesInv, ForeignIsOlder
<1>7. Placed(kind, of)'
  BY <1>1 DEF Placed, Hands
<1>8. QED
  BY <1>3, <1>4, <1>5, <1>6, <1>7 DEF PlacesInv

\* Task d gives up the messages in S, its own or some it holds.
LEMMA SomeAreLost ==
    ASSUME PlacesInv, Labelled, NEW d \in Delivery, NEW S, NEW why \in Reason \ {"no", "foreign"},
           Lose(S, why),
           S \subseteq Hands(d) \cup {e \in {d} : OwnTask(e)},
           pending' \in {pending, [pending EXCEPT ![d] = <<>>]},
           skipped' \in {skipped, [skipped EXCEPT ![d] = <<>>]},
           Hands(d) \ S = Hands(d)',
           \A e \in Delivery : OwnTask(e)' <=> OwnTask(e) /\ e \notin S,
           UNCHANGED <<queue, handled, arrivals>>
    PROVE  PlacesInv'
<1>1. PICK kind, of : Placed(kind, of)
  BY DEF PlacesInv
<1> DEFINE after == [e \in Delivery |-> IF e \in S THEN "gone" ELSE kind[e]]
<1>2. Rank' = Rank
  BY RankKept
<1>3. PlacesTypeOK'
  <2>1. gone' \in [Delivery -> Reason]
    BY DEF PlacesInv, PlacesTypeOK, Lose
  <2>2. <<>> \in Seq(Delivery)
    OBVIOUS
  <2>3. pending' \in [Delivery -> Seq(Delivery)] /\ skipped' \in [Delivery -> Seq(Delivery)]
    BY <2>2 DEF PlacesInv, PlacesTypeOK
  <2>4. QED
    BY <2>1, <2>3 DEF PlacesInv, PlacesTypeOK, Labelled
<1>4. OnlyDebounceKeeps'
  BY DEF PlacesInv, PlacesTypeOK, OnlyDebounceKeeps, Labelled, Strategy
<1>5. Ordered'
  <2>1. ToSet(<<>>) = {} /\ Sorted(<<>>, Rank)
    BY EmptySequence
  <2>2. \A t \in Delivery : /\ skipped'[t] \in {skipped[t], <<>>} /\ pending'[t] \in {pending[t], <<>>}
    BY DEF PlacesInv, PlacesTypeOK
  <2>3. \A t \in Delivery : Hands(t)' \subseteq Hands(t)
    BY <2>1, <2>2 DEF Hands
  <2>4. QED
    BY <1>2, <2>1, <2>2, <2>3 DEF PlacesInv, Ordered, Before
<1>6. ForeignIsOlder'
  BY <1>2 DEF PlacesInv, ForeignIsOlder, Lose, Reason
<1>7. Placed(after, of)'
  <2>1. \A t \in Delivery \ {d} : Hands(t)' = Hands(t)
    BY DEF PlacesInv, PlacesTypeOK, Hands
  <2>2. \A e \in Delivery : gone'[e] = IF e \in S THEN why ELSE gone[e]
    BY DEF Lose
  <2>3. \A e \in S : e \in Delivery => kind[e] = "own" \/ (kind[e] = "hands" /\ of[e] = d)
    BY <1>1 DEF Placed
  <2>4. QED
    BY <1>1, <2>1, <2>2, <2>3 DEF Placed, Reason
<1>8. QED
  BY <1>3, <1>4, <1>5, <1>6, <1>7 DEF PlacesInv

\* Task d takes the head of the queue into its hands, or drops it as expired.
LEMMA HeadIsTaken ==
    ASSUME PlacesInv, Labelled, NEW d \in Delivery,
           queue # <<>>, queue' = Tail(queue),
           \/ /\ pending' = [pending EXCEPT ![d] = Append(@, Head(queue))]
              /\ gone' = gone
           \/ /\ Lose({Head(queue)}, "expired")
              /\ pending' = pending,
           pc' = pc,
           UNCHANGED <<skipped, handled, arrivals>>
    PROVE  PlacesInv'
<1>1. PICK kind, of : Placed(kind, of)
  BY DEF PlacesInv
<1>2. Rank' = Rank /\ Rank \in [Delivery -> Nat]
  BY RankKept, RankTyped DEF PlacesInv, PlacesTypeOK
<1>a. PICK e : e = Head(queue)
  OBVIOUS
<1>3. /\ e \in Delivery /\ queue' \in Seq(Delivery)
      /\ ToSet(queue) = ToSet(queue') \cup {e} /\ e \notin ToSet(queue')
      /\ Sorted(queue', Rank) /\ Before({e}, ToSet(queue'), Rank)
  BY <1>a, <1>2, HeadTaken DEF PlacesInv, PlacesTypeOK, Ordered
<1>4. \A f \in Delivery : OwnTask(f)' <=> OwnTask(f)
  BY DEF OwnTask
<1>5. OnlyDebounceKeeps'
  BY DEF PlacesInv, OnlyDebounceKeeps, Labelled, Strategy
<1>6. CASE pending' = [pending EXCEPT ![d] = Append(@, Head(queue))] /\ gone' = gone
  <2> DEFINE after  == [kind EXCEPT ![e] = "hands"]
             holder == [of EXCEPT ![e] = d]
  <2>1. /\ pending'[d] = Append(pending[d], e)
        /\ \A t \in Delivery \ {d} : pending'[t] = pending[t]
    BY <1>a, <1>6 DEF PlacesInv, PlacesTypeOK
  <2>2. pending[d] \in Seq(Delivery) /\ Before(ToSet(pending[d]), {e}, Rank) /\ Sorted(pending[d], Rank)
    <3>1. pending[d] \in Seq(Delivery) /\ Sorted(pending[d], Rank)
      BY DEF PlacesInv, PlacesTypeOK, Ordered
    <3>a. Before(Hands(d), ToSet(queue), Rank)
      BY DEF PlacesInv, Ordered
    <3>b. ToSet(pending[d]) \subseteq Hands(d)
      BY DEF Hands
    <3>2. Before(ToSet(pending[d]), ToSet(queue), Rank)
      BY <3>a, <3>b DEF Before
    <3>3. QED
      BY <1>3, <3>1, <3>2 DEF Before
  <2>3. /\ pending'[d] \in Seq(Delivery) /\ ToSet(pending'[d]) = ToSet(pending[d]) \cup {e}
        /\ Sorted(pending'[d], Rank)
    <3>1. /\ Append(pending[d], e) \in Seq(Delivery)
          /\ ToSet(Append(pending[d], e)) = ToSet(pending[d]) \cup {e}
          /\ Sorted(Append(pending[d], e), Rank)
      <4>1. pending[d] \in Seq(Delivery) /\ e \in Delivery /\ Rank \in [Delivery -> Nat]
        BY <1>2, <1>3, <2>2
      <4>2. /\ Append(pending[d], e) \in Seq(Delivery)
            /\ ToSet(Append(pending[d], e)) = ToSet(pending[d]) \cup {e}
            /\ Sorted(pending[d], Rank) /\ Before(ToSet(pending[d]), {e}, Rank)
                   => Sorted(Append(pending[d], e), Rank)
        BY <4>1, Appended
      <4>3. QED
        BY <2>2, <4>2
    <3>2. QED
      BY <2>1, <3>1
  <2>4. /\ Hands(d)' = Hands(d) \cup {e}
        /\ \A t \in Delivery \ {d} : Hands(t)' = Hands(t)
    BY <2>1, <2>3 DEF Hands
  <2>5. PlacesTypeOK'
    <3>1. pending' \in [Delivery -> Seq(Delivery)]
      BY <1>6, <2>1, <2>3 DEF PlacesInv, PlacesTypeOK
    <3>2. QED
      BY <1>3, <1>6, <3>1 DEF PlacesInv, PlacesTypeOK
  <2>6. Ordered'
    <3>1. ToSet(queue') \subseteq ToSet(arrivals') /\ Sorted(queue', Rank')
      BY <1>2, <1>3 DEF PlacesInv, Ordered
    <3>2. ASSUME NEW t \in Delivery
          PROVE  /\ Hands(t)' \subseteq ToSet(arrivals')
                 /\ Sorted(skipped'[t], Rank') /\ Sorted(pending'[t], Rank')
                 /\ Before(ToSet(skipped'[t]), ToSet(pending'[t]), Rank')
                 /\ Before(Hands(t)', ToSet(queue'), Rank')
      <4>1. CASE t = d
        BY <1>2, <1>3, <2>3, <2>4, <4>1 DEF PlacesInv, Ordered, Before, Hands
      <4>2. CASE t # d
        BY <1>2, <1>3, <2>1, <2>4, <4>2 DEF PlacesInv, Ordered, Before
      <4>3. QED
        BY <4>1, <4>2
    <3>3. QED
      BY <1>2, <1>4, <3>1, <3>2 DEF PlacesInv, Ordered
  <2>7. ForeignIsOlder'
    BY <1>2, <1>6 DEF PlacesInv, ForeignIsOlder
  <2>8. Placed(after, holder)'
    <3>1. \A f \in Delivery :
             /\ after[f] = IF f = e THEN "hands" ELSE kind[f]
             /\ holder[f] = IF f = e THEN d ELSE of[f]
      BY <1>1, <1>3 DEF Placed
    <3>2. /\ after \in [Delivery -> {"own", "gone", "queue", "hands", "shown"}]
          /\ holder \in [Delivery -> Delivery \cup Nat]
      BY <1>1, <1>3 DEF Placed
    <3>3. kind[e] = "queue"
      BY <1>1, <1>3 DEF Placed
    <3> HIDE DEF after, holder
    <3>4. \A f \in Delivery :
             /\ OwnTask(f)' <=> after[f] = "own"
             /\ gone'[f] # "no" <=> after[f] = "gone"
             /\ f \in ToSet(queue') <=> after[f] = "queue"
      BY <1>1, <1>3, <1>4, <1>6, <3>1, <3>3 DEF Placed
    <3>5. \A f, t \in Delivery : f \in Hands(t)' <=> after[f] = "hands" /\ holder[f] = t
      BY <1>1, <1>3, <2>4, <3>1, <3>3 DEF Placed
    <3>6. \A f \in Delivery, n \in DOMAIN handled :
              f \in Shown(handled[n]) <=> after[f] = "shown" /\ holder[f] = n
      BY <1>1, <3>1, <3>3 DEF Placed
    <3>7. \A f \in Delivery :
             /\ after[f] = "hands" => holder[f] \in Delivery
             /\ after[f] = "shown" => holder[f] \in DOMAIN handled
      BY <1>1, <3>1 DEF Placed
    <3>8. QED
      BY <3>2, <3>4, <3>5, <3>6, <3>7 DEF Placed
  <2>9. QED
    BY <1>5, <2>5, <2>6, <2>7, <2>8 DEF PlacesInv
<1>7. CASE Lose({Head(queue)}, "expired") /\ pending' = pending
  <2> DEFINE after == [kind EXCEPT ![e] = "gone"]
  <2>1. \A f \in Delivery : gone'[f] = IF f = e THEN "expired" ELSE gone[f]
    BY <1>a, <1>7 DEF Lose
  <2>2. \A t \in Delivery : Hands(t)' = Hands(t)
    BY <1>7 DEF Hands
  <2>3. PlacesTypeOK'
    <3>1. gone' \in [Delivery -> Reason]
      BY <1>7 DEF PlacesInv, PlacesTypeOK, Lose, Reason
    <3>2. QED
      BY <1>3, <1>7, <3>1 DEF PlacesInv, PlacesTypeOK
  <2>4. Ordered'
    BY <1>2, <1>3, <1>4, <1>7, <2>2 DEF PlacesInv, Ordered, Before
  <2>5. ForeignIsOlder'
    BY <1>2, <2>1 DEF PlacesInv, ForeignIsOlder
  <2>6. Placed(after, of)'
    <3>1. \A f \in Delivery : after[f] = IF f = e THEN "gone" ELSE kind[f]
      BY <1>1 DEF Placed
    <3>2. after \in [Delivery -> {"own", "gone", "queue", "hands", "shown"}]
      BY <1>1 DEF Placed
    <3>3. kind[e] = "queue"
      BY <1>1, <1>3 DEF Placed
    <3> HIDE DEF after
    <3>4. \A f \in Delivery :
             /\ OwnTask(f)' <=> after[f] = "own"
             /\ gone'[f] # "no" <=> after[f] = "gone"
             /\ f \in ToSet(queue') <=> after[f] = "queue"
      BY <1>1, <1>3, <1>4, <2>1, <3>1, <3>3 DEF Placed
    <3>5. QED
      BY <1>1, <2>2, <3>1, <3>2, <3>3, <3>4 DEF Placed
  <2>7. QED
    BY <1>5, <2>3, <2>4, <2>5, <2>6 DEF PlacesInv
<1>8. QED
  BY <1>6, <1>7

\* Task d's pending messages are superseded.
LEMMA PendingIsSuperseded ==
    ASSUME PlacesInv, Labelled, NEW d \in Delivery, Strategy = "debounce",
           skipped' = [skipped EXCEPT ![d] = @ \o pending[d]],
           pending' = [pending EXCEPT ![d] = <<>>],
           \A e \in Delivery : OwnTask(e)' <=> OwnTask(e),
           UNCHANGED <<queue, handled, gone, arrivals>>
    PROVE  PlacesInv'
<1>1. PICK kind, of : Placed(kind, of)
  BY DEF PlacesInv
<1>2. Rank' = Rank /\ Rank \in [Delivery -> Nat]
  BY RankKept, RankTyped DEF PlacesInv, PlacesTypeOK
<1>3. /\ skipped'[d] = skipped[d] \o pending[d] /\ pending'[d] = <<>>
      /\ \A t \in Delivery \ {d} : skipped'[t] = skipped[t] /\ pending'[t] = pending[t]
      /\ skipped[d] \in Seq(Delivery) /\ pending[d] \in Seq(Delivery)
  BY DEF PlacesInv, PlacesTypeOK
<1>4. /\ skipped'[d] \in Seq(Delivery) /\ ToSet(skipped'[d]) = ToSet(skipped[d]) \cup ToSet(pending[d])
      /\ Sorted(skipped'[d], Rank)
  <2>1. /\ Sorted(skipped[d], Rank) /\ Sorted(pending[d], Rank)
        /\ Before(ToSet(skipped[d]), ToSet(pending[d]), Rank)
    BY DEF PlacesInv, Ordered
  <2>2. /\ skipped[d] \o pending[d] \in Seq(Delivery)
        /\ ToSet(skipped[d] \o pending[d]) = ToSet(skipped[d]) \cup ToSet(pending[d])
        /\ Sorted(skipped[d] \o pending[d], Rank)
    BY <1>2, <1>3, <2>1, Joined
  <2>3. QED
    BY <1>3, <2>2
<1>5. ToSet(<<>>) = {} /\ Sorted(<<>>, Rank)
  BY EmptySequence
<1>6. \A t \in Delivery : Hands(t)' = Hands(t)
  BY <1>3, <1>4, <1>5 DEF Hands
<1>7. PlacesTypeOK'
  <2>1. pending' \in [Delivery -> Seq(Delivery)]
    <3>1. <<>> \in Seq(Delivery)
      OBVIOUS
    <3>2. QED
      BY <3>1 DEF PlacesInv, PlacesTypeOK
  <2>2. skipped' \in [Delivery -> Seq(Delivery)]
    BY <1>3, <1>4 DEF PlacesInv, PlacesTypeOK
  <2>3. QED
    BY <2>1, <2>2 DEF PlacesInv, PlacesTypeOK, Labelled
<1>8. OnlyDebounceKeeps'
  BY DEF OnlyDebounceKeeps, Labelled, Strategy
<1>9. Ordered'
  <2>1. ASSUME NEW t \in Delivery
        PROVE  /\ Sorted(skipped'[t], Rank') /\ Sorted(pending'[t], Rank')
               /\ Before(ToSet(skipped'[t]), ToSet(pending'[t]), Rank')
    BY <1>2, <1>3, <1>4, <1>5 DEF PlacesInv, Ordered, Before
  <2>2. QED
    BY <1>2, <1>6, <2>1 DEF PlacesInv, Ordered
<1>10. ForeignIsOlder'
  BY <1>2 DEF PlacesInv, ForeignIsOlder
<1>11. Placed(kind, of)'
  BY <1>1, <1>6 DEF Placed
<1>12. QED
  BY <1>7, <1>8, <1>9, <1>10, <1>11 DEF PlacesInv

\* Task d queues its own message; the oldest entries may have to make room.
LEMMA OwnIsQueued ==
    ASSUME PlacesInv, Labelled, NEW d \in Delivery, OwnTask(d), Push(d),
           \A e \in Delivery : OwnTask(e)' <=> OwnTask(e) /\ e # d,
           UNCHANGED <<pending, skipped, handled>>
    PROVE  PlacesInv'
<1>1. PICK kind, of : Placed(kind, of)
  BY DEF PlacesInv
<1>2. PICK all : all = Append(queue, d)
  OBVIOUS
<1>3. PICK evicted : evicted = ToSet(all) \ ToSet(queue')
  OBVIOUS
<1>4. /\ arrivals \in Seq(Delivery) /\ d \notin ToSet(arrivals) /\ ToSet(queue) \subseteq ToSet(arrivals)
      /\ queue \in Seq(Delivery) /\ \A i, j \in DOMAIN arrivals : arrivals[i] = arrivals[j] => i = j
  BY DEF PlacesInv, PlacesTypeOK, Ordered
<1>5. arrivals' = Append(arrivals, d) /\ Lose(evicted, "evicted")
  BY <1>2, <1>3 DEF Push
<1>6. /\ \A e \in ToSet(arrivals) : Rank'[e] = Rank[e] /\ Rank[e] < Rank'[d]
      /\ \A i, j \in DOMAIN arrivals' : arrivals'[i] = arrivals'[j] => i = j
      /\ ToSet(arrivals') = ToSet(arrivals) \cup {d}
  BY <1>4, <1>5, RankGrows
<1>7. arrivals' \in Seq(Delivery)
  BY <1>4, <1>5
<1>8. PICK rank : rank = Rank' /\ rank \in [Delivery -> Nat]
  <2>1. Rank' \in [Delivery -> Nat]
    <3>1. ASSUME NEW e \in ToSet(arrivals')
          PROVE  Arrival(e)' \in Nat
      <4>1. \E i \in DOMAIN arrivals' : arrivals'[i] = e
        BY DEF ToSet
      <4>2. Arrival(e)' \in DOMAIN arrivals'
        BY <4>1 DEF Arrival
      <4>3. QED
        BY <1>7, <4>2
    <3>2. QED
      BY <3>1 DEF Rank
  <2>2. QED
    BY <2>1
<1>9. /\ all \in Seq(Delivery) /\ Len(all) = Len(queue) + 1 /\ all[Len(all)] = d
      /\ ToSet(all) = ToSet(queue) \cup {d} /\ Sorted(all, rank)
  <2>1. Sorted(queue, rank)
    <3>1. Sorted(queue, Rank) /\ \A x \in ToSet(queue) : rank[x] = Rank[x]
      BY <1>4, <1>6, <1>8 DEF PlacesInv, Ordered
    <3>2. QED
      BY <3>1, Kept
  <2>2. Before(ToSet(queue), {d}, rank)
    BY <1>4, <1>6, <1>8 DEF Before
  <2>3. QED
    <3>1. d \in Delivery /\ queue \in Seq(Delivery) /\ rank \in [Delivery -> Nat]
      BY <1>4, <1>8
    <3>2. /\ Append(queue, d) \in Seq(Delivery) /\ ToSet(Append(queue, d)) = ToSet(queue) \cup {d}
          /\ Sorted(Append(queue, d), rank)
      BY <2>1, <2>2, <3>1, Appended
    <3>3. Len(Append(queue, d)) = Len(queue) + 1 /\ Append(queue, d)[Len(queue) + 1] = d
      BY <3>1
    <3>4. QED
      BY <1>2, <3>2, <3>3
<1>10. /\ queue' \in Seq(Delivery) /\ ToSet(queue') \subseteq ToSet(all) /\ Sorted(queue', rank)
       /\ d \in ToSet(queue')
  <2> DEFINE n == Len(all) - MaxQueueSize
  <2>1. CASE n > 0
    <3>1. n \in 0 .. Len(all) /\ n < Len(all)
      BY <1>9, <2>1, DispatchAssumption
    <3>2. queue' = SubSeq(all, n + 1, Len(all))
      BY <1>2, <2>1 DEF Push
    <3> HIDE DEF n
    <3>3. QED
      BY <1>8, <1>9, <3>1, <3>2, Dropped
  <2>2. CASE ~(n > 0)
    <3>1. queue' = all
      BY <1>2, <2>2 DEF Push
    <3>2. QED
      BY <1>9, <3>1
  <2>3. QED
    BY <2>1, <2>2
<1>11. evicted \subseteq ToSet(queue) /\ d \notin evicted /\ ToSet(queue') = (ToSet(queue) \cup {d}) \ evicted
  BY <1>3, <1>9, <1>10
<1>12. \A e \in Delivery : gone'[e] = IF e \in evicted THEN "evicted" ELSE gone[e]
  BY <1>5 DEF Lose
<1>13. \A t \in Delivery : Hands(t)' = Hands(t)
  BY DEF Hands
<1>14. PlacesTypeOK'
  <2>1. gone' \in [Delivery -> Reason]
    BY <1>5 DEF Lose, PlacesInv, PlacesTypeOK, Reason
  <2>2. QED
    BY <1>7, <1>10, <2>1 DEF PlacesInv, PlacesTypeOK, Labelled
<1>15. OnlyDebounceKeeps'
  BY DEF PlacesInv, OnlyDebounceKeeps, Labelled, Strategy
<1>16. Ordered'
  <2>1. \A e \in Delivery : OwnTask(e)' => e \notin ToSet(arrivals')
    BY <1>6 DEF PlacesInv, Ordered
  <2>2. ToSet(queue') \subseteq ToSet(arrivals') /\ Sorted(queue', Rank')
    BY <1>4, <1>6, <1>8, <1>10, <1>11
  <2>3. ASSUME NEW t \in Delivery
        PROVE  /\ Hands(t)' \subseteq ToSet(arrivals')
               /\ Sorted(skipped'[t], Rank') /\ Sorted(pending'[t], Rank')
               /\ Before(ToSet(skipped'[t]), ToSet(pending'[t]), Rank')
               /\ Before(Hands(t)', ToSet(queue'), Rank')
    <3>1. /\ Hands(t) \subseteq ToSet(arrivals)
          /\ ToSet(skipped[t]) \subseteq ToSet(arrivals) /\ ToSet(pending[t]) \subseteq ToSet(arrivals)
          /\ Sorted(skipped[t], Rank) /\ Sorted(pending[t], Rank)
          /\ Before(ToSet(skipped[t]), ToSet(pending[t]), Rank)
          /\ Before(Hands(t), ToSet(queue), Rank)
      BY DEF PlacesInv, Ordered, Hands
    <3>2. Sorted(skipped[t], Rank') /\ Sorted(pending[t], Rank')
      <4>1. /\ \A x \in ToSet(skipped[t]) : Rank'[x] = Rank[x]
            /\ \A x \in ToSet(pending[t]) : Rank'[x] = Rank[x]
        BY <1>6, <3>1
      <4>2. QED
        BY <3>1, <4>1, Kept
    <3>3. Before(ToSet(skipped[t]), ToSet(pending[t]), Rank')
      BY <1>6, <3>1 DEF Before
    <3>4. Before(Hands(t), ToSet(queue'), Rank')
      BY <1>4, <1>6, <1>11, <3>1 DEF Before
    <3>5. QED
      BY <1>6, <1>13, <3>1, <3>2, <3>3, <3>4
  <2>4. ASSUME NEW n \in DOMAIN handled
        PROVE  /\ ToSet(handled[n].older) \cup {handled[n].latest} \subseteq ToSet(arrivals')
               /\ Sorted(handled[n].older, Rank')
               /\ Before(ToSet(handled[n].older), {handled[n].latest}, Rank')
    <3>1. /\ ToSet(handled[n].older) \subseteq ToSet(arrivals) /\ handled[n].latest \in ToSet(arrivals)
          /\ Sorted(handled[n].older, Rank)
          /\ Before(ToSet(handled[n].older), {handled[n].latest}, Rank)
      BY DEF PlacesInv, Ordered
    <3>2. Sorted(handled[n].older, Rank')
      <4>1. \A x \in ToSet(handled[n].older) : Rank'[x] = Rank[x]
        BY <1>6, <3>1
      <4>2. QED
        BY <3>1, <4>1, Kept
    <3>3. QED
      BY <1>6, <3>1, <3>2 DEF Before
  <2>5. QED
    BY <1>6, <2>1, <2>2, <2>3, <2>4 DEF Ordered
<1>17. ForeignIsOlder'
  <2>1. \A n \in DOMAIN handled : handled[n].latest \in ToSet(arrivals)
    BY DEF PlacesInv, Ordered
  <2>2. QED
    BY <1>6, <1>12, <2>1 DEF PlacesInv, ForeignIsOlder
<1>18. \E k, o : Placed(k, o)'
  <2> DEFINE after == [e \in Delivery |-> IF e = d THEN "queue" ELSE IF e \in evicted THEN "gone" ELSE kind[e]]
  <2>1. \A e \in Delivery :
           after[e] = IF e = d THEN "queue" ELSE IF e \in evicted THEN "gone" ELSE kind[e]
    OBVIOUS
  <2>2. after \in [Delivery -> {"own", "gone", "queue", "hands", "shown"}]
    BY <1>1 DEF Placed
  <2>3. kind[d] = "own" /\ \A e \in Delivery : e \in evicted => kind[e] = "queue"
    BY <1>1, <1>11 DEF Placed
  <2> HIDE DEF after
  <2>4. \A e \in Delivery :
           /\ OwnTask(e)' <=> after[e] = "own"
           /\ gone'[e] # "no" <=> after[e] = "gone"
           /\ e \in ToSet(queue') <=> after[e] = "queue"
    BY <1>1, <1>11, <1>12, <2>1, <2>3 DEF Placed
  <2>5. Placed(after, of)'
    BY <1>1, <1>13, <2>1, <2>2, <2>3, <2>4 DEF Placed
  <2>6. QED
    BY <2>5
<1>19. QED
  BY <1>14, <1>15, <1>16, <1>17, <1>18 DEF PlacesInv

\* What a call of the handlers shows, without its positions.
LEMMA ShownIs ==
    ASSUME NEW call, NEW f
    PROVE  f \in Shown(call) <=>
             f = call.latest \/ (f \in ToSet(call.older) /\ ThreadOf[f] = call.thread)
BY DEF Shown, ShownAt, ToSet

\* A call that starts is the last one; the others stay.
LEMMA CallAdded ==
    ASSUME handled \in Seq(HandlerCall), NEW call \in HandlerCall,
           handled' = Append(handled, call)
    PROVE  /\ handled' \in Seq(HandlerCall)
           /\ DOMAIN handled' = DOMAIN handled \cup {Len(handled) + 1}
           /\ Len(handled) + 1 \notin DOMAIN handled /\ Len(handled) + 1 \in Nat
           /\ handled'[Len(handled) + 1] = call
           /\ \A i \in DOMAIN handled : handled'[i] = handled[i]
<1>1. /\ handled' \in Seq(HandlerCall) /\ Len(handled') = Len(handled) + 1
      /\ \A i \in 1 .. Len(handled) : handled'[i] = handled[i]
      /\ handled'[Len(handled) + 1] = call /\ Len(handled) \in Nat
      /\ DOMAIN handled = 1 .. Len(handled)
  OBVIOUS
<1>2. DOMAIN handled' = 1 .. Len(handled) + 1
  BY <1>1
<1>3. QED
  BY <1>1, <1>2

\* Task d dispatches its own message, which arrives with that.
LEMMA OwnIsDispatched ==
    ASSUME PlacesInv, Labelled, NEW d \in Delivery, OwnTask(d),
           Dispatch(d, d, <<>>, ThreadOf[d]), arrivals' = Append(arrivals, d),
           \A e \in Delivery : OwnTask(e)' <=> OwnTask(e) /\ e # d,
           UNCHANGED <<queue, pending, skipped, gone>>
    PROVE  PlacesInv'
<1>1. PICK kind, of : Placed(kind, of)
  BY DEF PlacesInv
<1>2. PICK call : call = [by |-> d, latest |-> d, older |-> <<>>, thread |-> ThreadOf[d]]
  OBVIOUS
<1>3. call \in HandlerCall /\ call.latest = d /\ call.older = <<>> /\ call.thread = ThreadOf[d]
  <2>1. <<>> \in Seq(Delivery)
    OBVIOUS
  <2>2. QED
    BY <1>2, <2>1 DEF HandlerCall
<1>4. PICK m : m = Len(handled) + 1
  OBVIOUS
<1>5. /\ handled' \in Seq(HandlerCall) /\ DOMAIN handled' = DOMAIN handled \cup {m}
      /\ m \notin DOMAIN handled /\ m \in Nat /\ handled'[m] = call
      /\ \A i \in DOMAIN handled : handled'[i] = handled[i]
  <2>1. handled \in Seq(HandlerCall) /\ handled' = Append(handled, call)
    BY <1>2 DEF PlacesInv, PlacesTypeOK, Dispatch
  <2>2. QED
    BY <1>3, <1>4, <2>1, CallAdded
<1>6. /\ arrivals \in Seq(Delivery) /\ d \notin ToSet(arrivals) /\ ToSet(queue) \subseteq ToSet(arrivals)
      /\ \A i, j \in DOMAIN arrivals : arrivals[i] = arrivals[j] => i = j
  BY DEF PlacesInv, PlacesTypeOK, Ordered
<1>7. /\ \A e \in ToSet(arrivals) : Rank'[e] = Rank[e] /\ Rank[e] < Rank'[d]
      /\ \A i, j \in DOMAIN arrivals' : arrivals'[i] = arrivals'[j] => i = j
      /\ ToSet(arrivals') = ToSet(arrivals) \cup {d}
  BY <1>6, RankGrows
<1>8. ToSet(<<>>) = {} /\ Sorted(<<>>, Rank')
  BY EmptySequence
<1>9. \A t \in Delivery : Hands(t)' = Hands(t)
  BY DEF Hands
<1>10. PlacesTypeOK'
  BY <1>5, <1>6 DEF PlacesInv, PlacesTypeOK, Labelled
<1>11. OnlyDebounceKeeps'
  BY DEF PlacesInv, OnlyDebounceKeeps, Labelled, Strategy
<1>12. Ordered'
  <2>1. \A e \in Delivery : OwnTask(e)' => e \notin ToSet(arrivals')
    BY <1>7 DEF PlacesInv, Ordered
  <2>2. ToSet(queue') \subseteq ToSet(arrivals') /\ Sorted(queue', Rank')
    <3>1. Sorted(queue, Rank) /\ \A x \in ToSet(queue) : Rank'[x] = Rank[x]
      BY <1>6, <1>7 DEF PlacesInv, Ordered
    <3>2. Sorted(queue, Rank')
      BY <3>1, Kept
    <3>3. QED
      BY <1>6, <1>7, <3>2
  <2>3. ASSUME NEW t \in Delivery
        PROVE  /\ Hands(t)' \subseteq ToSet(arrivals')
               /\ Sorted(skipped'[t], Rank') /\ Sorted(pending'[t], Rank')
               /\ Before(ToSet(skipped'[t]), ToSet(pending'[t]), Rank')
               /\ Before(Hands(t)', ToSet(queue'), Rank')
    <3>1. /\ Hands(t) \subseteq ToSet(arrivals)
          /\ ToSet(skipped[t]) \subseteq ToSet(arrivals) /\ ToSet(pending[t]) \subseteq ToSet(arrivals)
          /\ Sorted(skipped[t], Rank) /\ Sorted(pending[t], Rank)
          /\ Before(ToSet(skipped[t]), ToSet(pending[t]), Rank)
          /\ Before(Hands(t), ToSet(queue), Rank)
      BY DEF PlacesInv, Ordered, Hands
    <3>2. Sorted(skipped[t], Rank') /\ Sorted(pending[t], Rank')
      <4>1. /\ \A x \in ToSet(skipped[t]) : Rank'[x] = Rank[x]
            /\ \A x \in ToSet(pending[t]) : Rank'[x] = Rank[x]
        BY <1>7, <3>1
      <4>2. QED
        BY <3>1, <4>1, Kept
    <3>3. Before(ToSet(skipped[t]), ToSet(pending[t]), Rank')
      BY <1>7, <3>1 DEF Before
    <3>4. Before(Hands(t), ToSet(queue), Rank')
      BY <1>6, <1>7, <3>1 DEF Before
    <3>5. QED
      BY <1>7, <1>9, <3>1, <3>2, <3>3, <3>4
  <2>4. ASSUME NEW n \in DOMAIN handled
        PROVE  /\ ToSet(handled[n].older) \cup {handled[n].latest} \subseteq ToSet(arrivals')
               /\ Sorted(handled[n].older, Rank')
               /\ Before(ToSet(handled[n].older), {handled[n].latest}, Rank')
    <3>1. /\ ToSet(handled[n].older) \subseteq ToSet(arrivals) /\ handled[n].latest \in ToSet(arrivals)
          /\ Sorted(handled[n].older, Rank)
          /\ Before(ToSet(handled[n].older), {handled[n].latest}, Rank)
      BY DEF PlacesInv, Ordered
    <3>2. Sorted(handled[n].older, Rank')
      <4>1. \A x \in ToSet(handled[n].older) : Rank'[x] = Rank[x]
        BY <1>7, <3>1
      <4>2. QED
        BY <3>1, <4>1, Kept
    <3>3. QED
      BY <1>7, <3>1, <3>2 DEF Before
  <2>5. ASSUME NEW n \in DOMAIN handled'
        PROVE  /\ ToSet(handled'[n].older) \cup {handled'[n].latest} \subseteq ToSet(arrivals')
               /\ Sorted(handled'[n].older, Rank')
               /\ Before(ToSet(handled'[n].older), {handled'[n].latest}, Rank')
    <3>1. CASE n = m
      BY <1>3, <1>5, <1>7, <1>8, <3>1 DEF Before
    <3>2. CASE n # m
      BY <1>5, <2>4, <3>2
    <3>3. QED
      BY <3>1, <3>2
  <2>6. QED
    BY <1>7, <2>1, <2>2, <2>3, <2>5 DEF Ordered
<1>13. ForeignIsOlder'
  <2>1. \A n \in DOMAIN handled : handled[n].latest \in ToSet(arrivals)
    BY DEF PlacesInv, Ordered
  <2>2. \A n \in DOMAIN handled' : handled'[n].thread = ThreadOf[handled'[n].latest]
    BY <1>3, <1>5 DEF PlacesInv, ForeignIsOlder
  <2>3. ASSUME NEW f \in Delivery, gone'[f] = "foreign"
        PROVE  /\ f \in ToSet(arrivals')
               /\ \E n \in DOMAIN handled' : /\ ThreadOf[handled'[n].latest] # ThreadOf[f]
                                             /\ Rank'[f] < Rank'[handled'[n].latest]
    <3>1. /\ f \in ToSet(arrivals)
          /\ \E n \in DOMAIN handled : /\ ThreadOf[handled[n].latest] # ThreadOf[f]
                                       /\ Rank[f] < Rank[handled[n].latest]
      BY <2>3 DEF PlacesInv, ForeignIsOlder
    <3>2. PICK n \in DOMAIN handled : /\ ThreadOf[handled[n].latest] # ThreadOf[f]
                                      /\ Rank[f] < Rank[handled[n].latest]
      BY <3>1
    <3>3. n \in DOMAIN handled' /\ handled'[n] = handled[n]
      BY <1>5
    <3>4. Rank'[f] < Rank'[handled'[n].latest]
      BY <1>7, <2>1, <3>1, <3>2, <3>3
    <3>5. QED
      BY <1>7, <3>1, <3>2, <3>3, <3>4
  <2>4. QED
    BY <2>2, <2>3 DEF ForeignIsOlder
<1>14. \E k, o : Placed(k, o)'
  <2> DEFINE after == [kind EXCEPT ![d] = "shown"]
             call2 == [of EXCEPT ![d] = m]
  <2>1. \A e \in Delivery :
           /\ after[e] = IF e = d THEN "shown" ELSE kind[e]
           /\ call2[e] = IF e = d THEN m ELSE of[e]
    BY <1>1 DEF Placed
  <2>2. /\ after \in [Delivery -> {"own", "gone", "queue", "hands", "shown"}]
        /\ call2 \in [Delivery -> Delivery \cup Nat]
    BY <1>1, <1>5 DEF Placed
  <2>3. kind[d] = "own"
    BY <1>1 DEF Placed
  <2> HIDE DEF after, call2
  <2>4. \A e \in Delivery :
           /\ OwnTask(e)' <=> after[e] = "own"
           /\ gone'[e] # "no" <=> after[e] = "gone"
           /\ e \in ToSet(queue') <=> after[e] = "queue"
    BY <1>1, <2>1, <2>3 DEF Placed
  <2>5. \A e, t \in Delivery : e \in Hands(t)' <=> after[e] = "hands" /\ call2[e] = t
    BY <1>1, <1>9, <2>1, <2>3 DEF Placed
  <2>6. ASSUME NEW e \in Delivery, NEW n \in DOMAIN handled'
        PROVE  e \in Shown(handled'[n]) <=> after[e] = "shown" /\ call2[e] = n
    <3>1. CASE n = m
      <4>1. e \in Shown(call) <=> e = d
        BY <1>3, <1>8, ShownIs
      <4>2. after[e] = "shown" /\ call2[e] = m <=> e = d
        BY <1>1, <1>5, <2>1 DEF Placed
      <4>3. QED
        BY <1>5, <3>1, <4>1, <4>2
    <3>2. CASE n # m
      BY <1>1, <1>5, <2>1, <2>3, <3>2 DEF Placed
    <3>3. QED
      BY <3>1, <3>2
  <2>7. \A e \in Delivery :
           /\ after[e] = "hands" => call2[e] \in Delivery
           /\ after[e] = "shown" => call2[e] \in DOMAIN handled'
    BY <1>1, <1>5, <2>1 DEF Placed
  <2>8. Placed(after, call2)'
    BY <2>2, <2>4, <2>5, <2>6, <2>7 DEF Placed
  <2>9. QED
    BY <2>8
<1>15. QED
  BY <1>10, <1>11, <1>12, <1>13, <1>14 DEF PlacesInv

\* Task d dispatches all it has in hand.
LEMMA BatchIsDispatched ==
    ASSUME PlacesInv, Labelled, NEW d \in Delivery,
           NEW older \in Seq(Delivery), NEW latest \in Delivery,
           DispatchBatch(d, older, latest),
           Hands(d) = ToSet(older) \cup {latest},
           Sorted(older, Rank), Before(ToSet(older), {latest}, Rank),
           \A e \in Delivery : OwnTask(e)' <=> OwnTask(e),
           UNCHANGED <<queue, arrivals>>
    PROVE  PlacesInv'
<1>1. PICK kind, of : Placed(kind, of)
  BY DEF PlacesInv
<1>2. PICK call : call = [by |-> d, latest |-> latest, older |-> older, thread |-> ThreadOf[latest]]
  OBVIOUS
<1>3. /\ call \in HandlerCall /\ call.latest = latest /\ call.older = older
      /\ call.thread = ThreadOf[latest]
  BY <1>2 DEF HandlerCall
<1>4. PICK m : m = Len(handled) + 1
  OBVIOUS
<1>5. /\ handled' \in Seq(HandlerCall) /\ DOMAIN handled' = DOMAIN handled \cup {m}
      /\ m \notin DOMAIN handled /\ m \in Nat /\ handled'[m] = call
      /\ \A i \in DOMAIN handled : handled'[i] = handled[i]
  <2>1. handled \in Seq(HandlerCall) /\ handled' = Append(handled, call)
    BY <1>2 DEF PlacesInv, PlacesTypeOK, Dispatch, DispatchBatch
  <2>2. QED
    BY <1>3, <1>4, <2>1, CallAdded
<1>6. PICK foreign : foreign = {e \in ToSet(older) : ThreadOf[e] # ThreadOf[latest]}
  OBVIOUS
<1>7. ToSet(older) \subseteq Delivery
  BY DEF ToSet
<1>8. \A e \in Delivery : gone'[e] = IF e \in foreign THEN "foreign" ELSE gone[e]
  BY <1>6 DEF DispatchBatch, Lose
<1>9. Rank' = Rank /\ Rank \in [Delivery -> Nat]
  BY RankKept, RankTyped DEF PlacesInv, PlacesTypeOK
<1>10. ToSet(<<>>) = {} /\ Sorted(<<>>, Rank)
  BY EmptySequence
<1>11. /\ skipped'[d] = <<>> /\ pending'[d] = <<>>
       /\ \A t \in Delivery \ {d} : skipped'[t] = skipped[t] /\ pending'[t] = pending[t]
  BY DEF DispatchBatch, PlacesInv, PlacesTypeOK
<1>12. Hands(d)' = {} /\ \A t \in Delivery \ {d} : Hands(t)' = Hands(t)
  BY <1>10, <1>11 DEF Hands
<1>13. PlacesTypeOK'
  <2>1. gone' \in [Delivery -> Reason]
    BY DEF DispatchBatch, Lose, PlacesInv, PlacesTypeOK, Reason
  <2>2. <<>> \in Seq(Delivery)
    OBVIOUS
  <2>3. pending' \in [Delivery -> Seq(Delivery)] /\ skipped' \in [Delivery -> Seq(Delivery)]
    BY <2>2 DEF DispatchBatch, PlacesInv, PlacesTypeOK
  <2>4. QED
    BY <1>5, <2>1, <2>3 DEF PlacesInv, PlacesTypeOK, Labelled
<1>14. OnlyDebounceKeeps'
  BY <1>11 DEF PlacesInv, OnlyDebounceKeeps, Labelled, Strategy
<1>15. Ordered'
  <2>1. ASSUME NEW t \in Delivery
        PROVE  /\ Hands(t)' \subseteq ToSet(arrivals')
               /\ Sorted(skipped'[t], Rank') /\ Sorted(pending'[t], Rank')
               /\ Before(ToSet(skipped'[t]), ToSet(pending'[t]), Rank')
               /\ Before(Hands(t)', ToSet(queue'), Rank')
    <3>1. CASE t = d
      BY <1>9, <1>10, <1>11, <1>12, <3>1 DEF Before
    <3>2. CASE t # d
      BY <1>9, <1>11, <1>12, <3>2 DEF PlacesInv, Ordered
    <3>3. QED
      BY <3>1, <3>2
  <2>2. ASSUME NEW n \in DOMAIN handled'
        PROVE  /\ ToSet(handled'[n].older) \cup {handled'[n].latest} \subseteq ToSet(arrivals')
               /\ Sorted(handled'[n].older, Rank')
               /\ Before(ToSet(handled'[n].older), {handled'[n].latest}, Rank')
    <3>1. CASE n = m
      <4>1. ToSet(older) \cup {latest} \subseteq ToSet(arrivals)
        BY DEF PlacesInv, Ordered
      <4>2. QED
        BY <1>3, <1>5, <1>9, <3>1, <4>1
    <3>2. CASE n # m
      BY <1>5, <1>9, <3>2 DEF PlacesInv, Ordered
    <3>3. QED
      BY <3>1, <3>2
  <2>3. QED
    BY <1>9, <2>1, <2>2 DEF PlacesInv, Ordered
<1>16. ForeignIsOlder'
  <2>1. \A n \in DOMAIN handled' : handled'[n].thread = ThreadOf[handled'[n].latest]
    BY <1>3, <1>5 DEF PlacesInv, ForeignIsOlder
  <2>2. ASSUME NEW f \in Delivery, gone'[f] = "foreign"
        PROVE  /\ f \in ToSet(arrivals')
               /\ \E n \in DOMAIN handled' : /\ ThreadOf[handled'[n].latest] # ThreadOf[f]
                                             /\ Rank'[f] < Rank'[handled'[n].latest]
    <3>1. CASE f \in foreign
      <4>1. f \in ToSet(arrivals) /\ ThreadOf[latest] # ThreadOf[f] /\ Rank[f] < Rank[latest]
        BY <1>6, <3>1 DEF PlacesInv, Ordered, Before
      <4>2. m \in DOMAIN handled' /\ handled'[m].latest = latest
        BY <1>3, <1>5
      <4>3. QED
        BY <1>9, <4>1, <4>2
    <3>2. CASE f \notin foreign
      <4>1. gone[f] = "foreign"
        BY <1>8, <2>2, <3>2
      <4>2. f \in ToSet(arrivals)
        BY <4>1 DEF PlacesInv, ForeignIsOlder
      <4>3. PICK n \in DOMAIN handled : /\ ThreadOf[handled[n].latest] # ThreadOf[f]
                                        /\ Rank[f] < Rank[handled[n].latest]
        BY <4>1 DEF PlacesInv, ForeignIsOlder
      <4>4. n \in DOMAIN handled' /\ handled'[n] = handled[n]
        BY <1>5
      <4>5. QED
        BY <1>9, <4>2, <4>3, <4>4
    <3>3. QED
      BY <3>1, <3>2
  <2>3. QED
    BY <2>1, <2>2 DEF ForeignIsOlder
<1>17. \E k, o : Placed(k, o)'
  <2> DEFINE after == [e \in Delivery |-> IF e \in foreign THEN "gone"
                                          ELSE IF e \in Hands(d) THEN "shown" ELSE kind[e]]
             call2 == [e \in Delivery |-> IF e \in Hands(d) THEN m ELSE of[e]]
  <2>a. PICK held : held = Hands(d)
    OBVIOUS
  <2>b. PICK k : k = after
    OBVIOUS
  <2>c. PICK o : o = call2
    OBVIOUS
  <2>1. \A e \in Delivery :
           /\ k[e] = IF e \in foreign THEN "gone" ELSE IF e \in held THEN "shown" ELSE kind[e]
           /\ o[e] = IF e \in held THEN m ELSE of[e]
    BY <2>a, <2>b, <2>c
  <2>2. /\ k \in [Delivery -> {"own", "gone", "queue", "hands", "shown"}]
        /\ o \in [Delivery -> Delivery \cup Nat]
    BY <1>1, <1>5, <2>b, <2>c DEF Placed
  <2>3. /\ \A e \in Delivery : e \in held => kind[e] = "hands" /\ of[e] = d
        /\ \A e \in Delivery : kind[e] = "hands" /\ of[e] = d => e \in held
        /\ foreign \subseteq held /\ held = ToSet(older) \cup {latest} /\ latest \notin foreign
    BY <1>1, <1>6, <2>a DEF Placed
  <2> HIDE DEF after, call2
  <2>4. \A e \in Delivery :
           /\ OwnTask(e)' <=> k[e] = "own"
           /\ gone'[e] # "no" <=> k[e] = "gone"
           /\ e \in ToSet(queue') <=> k[e] = "queue"
    BY <1>1, <1>8, <2>1, <2>3 DEF Placed
  <2>5. ASSUME NEW e \in Delivery, NEW t \in Delivery
        PROVE  e \in Hands(t)' <=> k[e] = "hands" /\ o[e] = t
    <3>1. CASE t = d
      BY <1>1, <1>12, <2>1, <2>3, <3>1 DEF Placed
    <3>2. CASE t # d
      BY <1>1, <1>12, <2>1, <2>3, <3>2 DEF Placed
    <3>3. QED
      BY <3>1, <3>2
  <2>6. ASSUME NEW e \in Delivery, NEW n \in DOMAIN handled'
        PROVE  e \in Shown(handled'[n]) <=> k[e] = "shown" /\ o[e] = n
    <3>1. CASE n = m
      <4>1. e \in Shown(call) <=> e \in held /\ e \notin foreign
        BY <1>3, <1>6, <2>3, ShownIs
      <4>2. k[e] = "shown" /\ o[e] = m <=> e \in held /\ e \notin foreign
        BY <1>1, <1>5, <2>1 DEF Placed
      <4>3. QED
        BY <1>5, <3>1, <4>1, <4>2
    <3>2. CASE n # m
      <4>1. handled'[n] = handled[n] /\ n \in DOMAIN handled
        BY <1>5, <3>2
      <4>2. e \in Shown(handled[n]) <=> kind[e] = "shown" /\ of[e] = n
        BY <1>1, <4>1 DEF Placed
      <4>3. kind[e] = "shown" /\ of[e] = n <=> k[e] = "shown" /\ o[e] = n
        BY <2>1, <2>3, <3>2
      <4>4. QED
        BY <4>1, <4>2, <4>3
    <3>3. QED
      BY <3>1, <3>2
  <2>7. \A e \in Delivery :
           /\ k[e] = "hands" => o[e] \in Delivery
           /\ k[e] = "shown" => o[e] \in DOMAIN handled'
    BY <1>1, <1>5, <2>1, <2>3 DEF Placed
  <2>8. Placed(k, o)'
    BY <2>2, <2>4, <2>5, <2>6, <2>7 DEF Placed
  <2>9. QED
    BY <2>8
<1>18. QED
  BY <1>13, <1>14, <1>15, <1>16, <1>17 DEF PlacesInv

-----------------------------------------------------------------------------
\* Every step leaves labels of the code, and "counting" to the debounce loop.
LEMMA StepsAreLabelled == PlacesInv /\ [Next]_vars => Labelled
<1> DEFINE Labels == Arriving \cup Holding \cup Final \cup {"releasing"}
<1> SUFFICES ASSUME PlacesInv, [Next]_vars
             PROVE  Labelled
  OBVIOUS
<1>1. /\ pc \in [Delivery -> Labels] /\ pending \in [Delivery -> Seq(Delivery)]
      /\ \A t \in Delivery : pc[t] = "counting" => Strategy = "debounce" /\ pending[t] # <<>>
  BY DEF PlacesInv, PlacesTypeOK, OnlyDebounceKeeps
<1>2. ASSUME config' = config, NEW d \in Delivery, NEW l \in Labels,
             l = "counting" => Strategy = "debounce" /\ pending'[d] # <<>>,
             pc' = [pc EXCEPT ![d] = l], \A t \in Delivery \ {d} : pending'[t] = pending[t]
      PROVE  Labelled
  BY <1>1, <1>2 DEF Labelled
<1>3. ASSUME config' = config, pc' = pc, pending' = pending
      PROVE  Labelled
  BY <1>1, <1>3 DEF Labelled
<1>4. ASSUME config' = config, NEW d \in Delivery,
             \E l \in Labels \ {"counting"} : pc' = [pc EXCEPT ![d] = l],
             pending' \in {pending, [pending EXCEPT ![d] = <<>>]}
      PROVE  Labelled
  <2>1. \A t \in Delivery \ {d} : pending'[t] = pending[t]
    BY <1>1, <1>4
  <2>2. QED
    BY <1>2, <1>4, <2>1
<1>5. ASSUME NEW d \in Delivery, TaskStep(d)
      PROVE  Labelled
  <2>1. config' = config
    BY <1>5 DEF TaskStep
  <2>2. CASE Deduplicate(d) \/ Acquire(d) \/ AcquireFails(d) \/ Reject(d) \/ ForceRelease(d) \/ Reacquire(d)
    <3>1. \E l \in Labels \ {"counting"} : pc' = [pc EXCEPT ![d] = l]
      BY <2>2 DEF Deduplicate, Acquire, AcquireFails, Reject, ForceRelease, Reacquire, EnterHeldLock,
         Goto, Arriving, Holding, Final
    <3>2. pending' \in {pending, [pending EXCEPT ![d] = <<>>]}
      BY <2>2 DEF Deduplicate, Acquire, AcquireFails, Reject, ForceRelease, Reacquire, EnterHeldLock, Abandon,
          taskVars, history
    <3>3. QED
      BY <1>4, <2>1, <3>1, <3>2
  <2>3. CASE ReadDepth(d) \/ EnqueueBehind(d) \/ EnqueueOwn(d) \/ WindowEnds(d) \/ FindNothing(d)
    <3>1. \E l \in Labels \ {"counting"} : pc' = [pc EXCEPT ![d] = l]
      BY <2>3 DEF ReadDepth, EnqueueBehind, EnqueueOwn, WindowEnds, FindNothing, LoopTop,
         Goto, Arriving, Holding, Final
    <3>2. pending' \in {pending, [pending EXCEPT ![d] = <<>>]}
      BY <2>3 DEF ReadDepth, EnqueueBehind, EnqueueOwn, WindowEnds, FindNothing, Abandon,
          taskVars, history
    <3>3. QED
      BY <1>4, <2>1, <3>1, <3>2
  <2>4. CASE TakeOne(d)
    <3>1. pc' = pc /\ pc[d] = "taking" /\ \A t \in Delivery \ {d} : pending'[t] = pending[t]
      BY <1>1, <2>4 DEF TakeOne
    <3>2. QED
      BY <1>1, <2>1, <3>1 DEF Labelled
  <2>5. CASE DispatchCollected(d) \/ Superseded(d) \/ DispatchLatest(d) \/ HandlerReturns(d) \/ Release(d)
    <3>1. \E l \in Labels \ {"counting"} : pc' = [pc EXCEPT ![d] = l]
      BY <2>5 DEF DispatchCollected, Superseded, DispatchLatest, DispatchBatch, HandlerReturns, Release,
         LoopTop, Goto, Arriving, Holding, Final
    <3>2. pending' \in {pending, [pending EXCEPT ![d] = <<>>]}
      BY <2>5 DEF DispatchCollected, Superseded, DispatchLatest, DispatchBatch, HandlerReturns, Release, Abandon,
          taskVars, history
    <3>3. QED
      BY <1>4, <2>1, <3>1, <3>2
  <2>6. CASE StopCollecting(d)
    <3>1. /\ "counting" \in Labels /\ pc' = [pc EXCEPT ![d] = "counting"] /\ Strategy = "debounce"
          /\ pending' = pending /\ pending[d] # <<>>
      BY <2>6 DEF StopCollecting, Goto, Holding
    <3>2. QED
      BY <1>2, <2>1, <3>1
  <2>7. QED
    BY <1>5, <2>2, <2>3, <2>4, <2>5, <2>6 DEF TaskStep
<1>6. CASE FaultStep
  <2>1. config' = config
    BY <1>6 DEF FaultStep
  <2>2. ASSUME NEW d \in Delivery, UnwindHolder(d) \/ Vanish(d)
        PROVE  Labelled
    <3>1. \E l \in Labels \ {"counting"} : pc' = [pc EXCEPT ![d] = l]
      BY <2>2 DEF UnwindHolder, Vanish, Goto, Arriving, Holding, Final
    <3>2. pending' \in {pending, [pending EXCEPT ![d] = <<>>]}
      BY <2>2 DEF UnwindHolder, Vanish, Abandon,
          taskVars, history
    <3>3. QED
      BY <1>4, <2>1, <3>1, <3>2
  <2>3. ASSUME NEW d \in Delivery, NoticeLoss(d) \/ EntryExpires(d)
        PROVE  Labelled
    BY <1>3, <2>1, <2>3 DEF NoticeLoss, EntryExpires, taskVars
  <2>4. ASSUME NEW m \in keys, KeyExpires(m)
        PROVE  Labelled
    BY <1>3, <2>1, <2>4 DEF KeyExpires, taskVars
  <2>5. CASE LeaseLapses
    BY <1>3, <2>1, <2>5 DEF LeaseLapses, taskVars
  <2>6. QED
    BY <1>6, <2>2, <2>3, <2>4, <2>5 DEF FaultStep
<1>7. CASE OrphanLapses \/ Finished \/ UNCHANGED vars
  BY <1>3, <1>7 DEF OrphanLapses, Finished, vars, taskVars
<1>8. QED
  BY <1>5, <1>6, <1>7 DEF Next

\* The tasks that hold their own message, before and after a step of one of them.
LEMMA OwnTaskMoves ==
    ASSUME PlacesInv, Labelled, NEW d \in Delivery, NEW l, pc' = [pc EXCEPT ![d] = l]
    PROVE  /\ \A e \in Delivery \ {d} : OwnTask(e)' <=> OwnTask(e)
           /\ OwnTask(d)' <=> l \in Arriving \cup {"buffering", "duplicate"}
BY DEF OwnTask, PlacesInv, PlacesTypeOK

\* Each step moves messages in one of the ways above.
LEMMA PlacesStep == PlacesInv /\ [Next]_vars => PlacesInv'
<1> SUFFICES ASSUME PlacesInv, [Next]_vars
             PROVE  PlacesInv'
  OBVIOUS
<1>1. Labelled
  BY StepsAreLabelled
<1>2. ASSUME UNCHANGED <<pc, queue, pending, skipped, handled, gone, arrivals>>
      PROVE  PlacesInv'
  <2>1. \A e \in Delivery : OwnTask(e)' <=> OwnTask(e)
    BY <1>2 DEF OwnTask
  <2>2. QED
    BY <1>1, <1>2, <2>1, NobodyMoves
<1>3. ASSUME NEW d \in Delivery, UNCHANGED <<queue, pending, skipped, handled, gone, arrivals>>,
             NEW l, pc' = [pc EXCEPT ![d] = l], OwnTask(d) <=> l \in Arriving \cup {"buffering", "duplicate"}
      PROVE  PlacesInv'
  <2>1. \A e \in Delivery : OwnTask(e)' <=> OwnTask(e)
    BY <1>1, <1>3, OwnTaskMoves
  <2>2. QED
    BY <1>1, <1>3, <2>1, NobodyMoves
<1>4. ASSUME NEW d \in Delivery, Deduplicate(d) \/ AcquireFails(d) \/ ForceRelease(d)
      PROVE  PlacesInv'
  <2>1. UNCHANGED <<queue, pending, skipped, handled, gone, arrivals>>
    BY <1>4 DEF Deduplicate, AcquireFails, ForceRelease, history
  <2>2. OwnTask(d)
    BY <1>4 DEF Deduplicate, AcquireFails, ForceRelease, OwnTask, Arriving
  <2>3. \E l \in Arriving \cup {"duplicate"} : pc' = [pc EXCEPT ![d] = l]
    BY <1>4 DEF Deduplicate, AcquireFails, ForceRelease, Goto, Arriving
  <2>4. QED
    BY <1>3, <2>1, <2>2, <2>3
<1>5. ASSUME NEW d \in Delivery, Acquire(d) \/ Reacquire(d)
      PROVE  PlacesInv'
  <2>1. OwnTask(d)
    BY <1>5 DEF Acquire, Reacquire, OwnTask, Arriving
  <2>2. UNCHANGED <<queue, pending, skipped, gone>>
    BY <1>5 DEF Acquire, Reacquire, EnterHeldLock
  <2>3. CASE Strategy \in {"drop", "queue"}
    <3>1. pc' = [pc EXCEPT ![d] = "handling"] /\ Dispatch(d, d, <<>>, ThreadOf[d]) /\ arrivals' = Append(arrivals, d)
      BY <1>5, <2>3 DEF Acquire, Reacquire, EnterHeldLock, Goto
    <3>2. \A e \in Delivery : OwnTask(e)' <=> OwnTask(e) /\ e # d
      <4>1. "handling" \notin Arriving \cup {"buffering", "duplicate"}
        BY DEF Arriving
      <4>2. QED
        BY <1>1, <3>1, <4>1, OwnTaskMoves
    <3>3. QED
      BY <1>1, <2>1, <2>2, <3>1, <3>2, OwnIsDispatched
  <2>4. CASE Strategy \notin {"drop", "queue"}
    <3>1. pc' = [pc EXCEPT ![d] = "buffering"] /\ UNCHANGED <<handled, arrivals>>
      BY <1>5, <2>4 DEF Acquire, Reacquire, EnterHeldLock, Goto
    <3>2. QED
      BY <1>3, <2>1, <2>2, <3>1
  <2>5. QED
    BY <2>3, <2>4
<1>6. ASSUME NEW d \in Delivery, NEW why \in Reason \ {"no", "foreign"}, NEW l,
             OwnTask(d), Lose({d}, why), pc' = [pc EXCEPT ![d] = l],
             l \notin Arriving \cup {"buffering", "duplicate"},
             UNCHANGED <<queue, pending, skipped, handled, arrivals>>
      PROVE  PlacesInv'
  <2>1. \A e \in Delivery : OwnTask(e)' <=> OwnTask(e) /\ e \notin {d}
    BY <1>1, <1>6, OwnTaskMoves
  <2>2. Hands(d) \ {d} = Hands(d)'
    <3>1. d \notin Hands(d)
      BY <1>6 DEF PlacesInv, Placed
    <3>2. QED
      BY <1>6, <3>1 DEF Hands
  <2>3. {d} \subseteq Hands(d) \cup {e \in {d} : OwnTask(e)}
    BY <1>6
  <2>4. pending' \in {pending, [pending EXCEPT ![d] = <<>>]} /\ skipped' \in {skipped, [skipped EXCEPT ![d] = <<>>]}
    BY <1>6
  <2>5. UNCHANGED <<queue, handled, arrivals>>
    BY <1>6
  <2>6. QED
    BY <1>1, <1>6, <2>1, <2>2, <2>3, <2>4, <2>5, SomeAreLost
<1>7. ASSUME NEW d \in Delivery, Reject(d)
      PROVE  PlacesInv'
  <2>1. OwnTask(d)
    BY <1>7 DEF Reject, OwnTask, Arriving
  <2>2. /\ Lose({d}, "rejected") /\ pc' = [pc EXCEPT ![d] = "rejected"]
        /\ UNCHANGED <<queue, pending, skipped, handled, arrivals>>
    BY <1>7 DEF Reject, Goto
  <2>3. "rejected" \in Reason \ {"no", "foreign"} /\ "rejected" \notin Arriving \cup {"buffering", "duplicate"}
    BY DEF Reason, Arriving
  <2>4. QED
    BY <1>6, <2>1, <2>2, <2>3
<1>8. ASSUME NEW d \in Delivery, ReadDepth(d)
      PROVE  PlacesInv'
  <2>1. OwnTask(d) /\ UNCHANGED <<queue, pending, skipped, handled, arrivals>>
    BY <1>8 DEF ReadDepth, OwnTask, Arriving
  <2>2. CASE Goto(d, "dropped") /\ Lose({d}, "dropped")
    <3>1. "dropped" \in Reason \ {"no", "foreign"} /\ "dropped" \notin Arriving \cup {"buffering", "duplicate"}
      BY DEF Reason, Arriving
    <3>2. QED
      BY <1>6, <2>1, <2>2, <3>1 DEF Goto
  <2>3. CASE Goto(d, "enqueuing") /\ UNCHANGED gone
    <3>1. "enqueuing" \in Arriving
      BY DEF Arriving
    <3>2. QED
      BY <1>3, <2>1, <2>3, <3>1 DEF Goto
  <2>4. QED
    BY <1>8, <2>2, <2>3 DEF ReadDepth
<1>9. ASSUME NEW d \in Delivery, EnqueueBehind(d) \/ EnqueueOwn(d)
      PROVE  PlacesInv'
  <2>1. OwnTask(d) /\ Push(d) /\ UNCHANGED <<pending, skipped, handled>>
    BY <1>9 DEF EnqueueBehind, EnqueueOwn, OwnTask, Arriving
  <2>2. \E l \in {"queued", "window"} : pc' = [pc EXCEPT ![d] = l]
    BY <1>9 DEF EnqueueBehind, EnqueueOwn, Goto
  <2>3. \A e \in Delivery : OwnTask(e)' <=> OwnTask(e) /\ e # d
    BY <1>1, <2>2, OwnTaskMoves DEF Arriving
  <2>4. QED
    BY <1>1, <2>1, <2>3, OwnIsQueued
<1>10. ASSUME NEW d \in Delivery, WindowEnds(d)
       PROVE  PlacesInv'
  <2>1. ~OwnTask(d) /\ UNCHANGED <<queue, pending, handled, arrivals>>
    BY <1>10 DEF WindowEnds, OwnTask, Arriving
  <2>2. CASE d \notin lost
    <3>1. pc' = [pc EXCEPT ![d] = "taking"] /\ UNCHANGED <<gone, skipped>>
      BY <1>10, <2>2 DEF WindowEnds, LoopTop, Goto
    <3>2. QED
      BY <1>3, <2>1, <3>1 DEF Arriving
  <2>3. CASE d \in lost
    <3>1. /\ pc' = [pc EXCEPT ![d] = "releasing"]
          /\ Lose(ToSet(skipped[d]), "abandoned") /\ skipped' = [skipped EXCEPT ![d] = <<>>]
      BY <1>10, <2>3 DEF WindowEnds, LoopTop, Goto
    <3>2. Hands(d)' = ToSet(pending[d])
      <4>1. skipped'[d] = <<>> /\ ToSet(<<>>) = {}
        BY <3>1, EmptySequence DEF PlacesInv, PlacesTypeOK
      <4>2. QED
        BY <2>1, <4>1 DEF Hands
    <3>3. Hands(d) \ ToSet(skipped[d]) = ToSet(pending[d])
      <4>1. Before(ToSet(skipped[d]), ToSet(pending[d]), Rank) /\ Rank \in [Delivery -> Nat]
        BY RankTyped DEF PlacesInv, PlacesTypeOK, Ordered
      <4>2. \A x \in ToSet(pending[d]) : x \in Delivery
        BY DEF PlacesInv, PlacesTypeOK, ToSet
      <4>3. \A x \in ToSet(pending[d]) : x \notin ToSet(skipped[d])
        BY <4>1, <4>2 DEF Before
      <4>4. QED
        BY <4>3 DEF Hands
    <3>4. \A e \in Delivery : OwnTask(e)' <=> OwnTask(e) /\ e \notin ToSet(skipped[d])
      <4>1. \A e \in ToSet(skipped[d]) : e \in Delivery => ~OwnTask(e)
        BY DEF PlacesInv, Placed, Hands
      <4>2. \A e \in Delivery : OwnTask(e)' <=> OwnTask(e)
        <5>1. "releasing" \notin Arriving \cup {"buffering", "duplicate"}
          BY DEF Arriving
        <5>2. QED
          BY <1>1, <2>1, <3>1, <5>1, OwnTaskMoves
      <4>3. QED
        BY <4>1, <4>2
    <3>5. /\ ToSet(skipped[d]) \subseteq Hands(d) \cup {e \in {d} : OwnTask(e)}
          /\ "abandoned" \in Reason \ {"no", "foreign"}
          /\ pending' \in {pending, [pending EXCEPT ![d] = <<>>]}
          /\ skipped' \in {skipped, [skipped EXCEPT ![d] = <<>>]}
          /\ Hands(d) \ ToSet(skipped[d]) = Hands(d)' /\ UNCHANGED <<queue, handled, arrivals>>
      BY <2>1, <3>1, <3>2, <3>3 DEF Hands, Reason
    <3>6. QED
      BY <1>1, <3>1, <3>4, <3>5, SomeAreLost
  <2>4. QED
    BY <2>2, <2>3
<1>11. ASSUME NEW d \in Delivery, TakeOne(d)
       PROVE  PlacesInv'
  BY <1>1, <1>11, HeadIsTaken DEF TakeOne
<1>12. ASSUME NEW d \in Delivery, FindNothing(d)
       PROVE  PlacesInv'
  <2>1. /\ ~OwnTask(d) /\ UNCHANGED <<queue, pending, handled, arrivals>>
        /\ pending[d] = <<>> /\ pc' = [pc EXCEPT ![d] = "releasing"]
        /\ Lose(ToSet(skipped[d]), "abandoned") /\ skipped' = [skipped EXCEPT ![d] = <<>>]
    BY <1>12 DEF FindNothing, Goto, OwnTask, Arriving
  <2>2. Hands(d) = ToSet(skipped[d]) /\ Hands(d)' = {}
    <3>1. skipped'[d] = <<>> /\ ToSet(<<>>) = {}
      BY <2>1, EmptySequence DEF PlacesInv, PlacesTypeOK
    <3>2. QED
      BY <2>1, <3>1 DEF Hands
  <2>3. \A e \in Delivery : OwnTask(e)' <=> OwnTask(e) /\ e \notin ToSet(skipped[d])
    <3>1. \A e \in ToSet(skipped[d]) : e \in Delivery => ~OwnTask(e)
      BY DEF PlacesInv, Placed, Hands
    <3>2. \A e \in Delivery : OwnTask(e)' <=> OwnTask(e)
      <4>1. "releasing" \notin Arriving \cup {"buffering", "duplicate"}
        BY DEF Arriving
      <4>2. QED
        BY <1>1, <2>1, <4>1, OwnTaskMoves
    <3>3. QED
      BY <3>1, <3>2
  <2>4. /\ ToSet(skipped[d]) \subseteq Hands(d) \cup {e \in {d} : OwnTask(e)}
        /\ "abandoned" \in Reason \ {"no", "foreign"}
        /\ pending' \in {pending, [pending EXCEPT ![d] = <<>>]}
        /\ skipped' \in {skipped, [skipped EXCEPT ![d] = <<>>]}
        /\ Hands(d) \ ToSet(skipped[d]) = Hands(d)' /\ UNCHANGED <<queue, handled, arrivals>>
    BY <2>1, <2>2 DEF Reason
  <2>5. QED
    BY <1>1, <2>1, <2>3, <2>4, SomeAreLost
<1>13. ASSUME NEW d \in Delivery, DispatchCollected(d) \/ DispatchLatest(d)
       PROVE  PlacesInv'
  <2>1. ~OwnTask(d) /\ pc' = [pc EXCEPT ![d] = "handling"] /\ UNCHANGED <<queue, arrivals>>
    BY <1>13 DEF DispatchCollected, DispatchLatest, DispatchBatch, Goto, OwnTask, Arriving
  <2>2. \A e \in Delivery : OwnTask(e)' <=> OwnTask(e)
    <3>1. "handling" \notin Arriving \cup {"buffering", "duplicate"}
      BY DEF Arriving
    <3>2. QED
      BY <1>1, <2>1, <3>1, OwnTaskMoves
  <2>3. /\ pending[d] \in Seq(Delivery) /\ skipped[d] \in Seq(Delivery)
        /\ Sorted(skipped[d], Rank) /\ Sorted(pending[d], Rank)
        /\ Before(ToSet(skipped[d]), ToSet(pending[d]), Rank)
    BY DEF PlacesInv, PlacesTypeOK, Ordered
  <2>4. Rank \in [Delivery -> Nat]
    BY RankTyped DEF PlacesInv, PlacesTypeOK
  <2>5. PICK front : front = Front(pending[d])
    OBVIOUS
  <2>6. PICK last : last = Last(pending[d])
    OBVIOUS
  <2>7. ASSUME pending[d] # <<>>
        PROVE  /\ last \in Delivery /\ front \in Seq(Delivery)
               /\ ToSet(pending[d]) = ToSet(front) \cup {last} /\ last \notin ToSet(front)
               /\ Sorted(front, Rank) /\ Before(ToSet(front), {last}, Rank)
    BY <2>3, <2>4, <2>5, <2>6, <2>7, LastTaken
  <2>8. CASE DispatchCollected(d)
    <3>1. pending[d] # <<>> /\ DispatchBatch(d, front, last) /\ Strategy # "debounce"
      BY <2>5, <2>6, <2>8 DEF DispatchCollected
    <3>2. ToSet(skipped[d]) = {}
      BY <3>1, EmptySequence DEF PlacesInv, OnlyDebounceKeeps
    <3>3. Hands(d) = ToSet(front) \cup {last}
      BY <2>7, <3>1, <3>2 DEF Hands
    <3>4. QED
      BY <1>1, <2>1, <2>2, <2>7, <3>1, <3>3, BatchIsDispatched
  <2>9. CASE DispatchLatest(d)
    <3>1. pc[d] = "counting" /\ DispatchBatch(d, skipped[d] \o front, last)
      BY <2>5, <2>6, <2>9 DEF DispatchLatest
    <3>2. pending[d] # <<>>
      BY <3>1 DEF PlacesInv, OnlyDebounceKeeps
    <3>3. PICK older : older = skipped[d] \o front
      OBVIOUS
    <3>4. Before(ToSet(skipped[d]), ToSet(front), Rank)
      BY <2>3, <2>7, <3>2 DEF Before
    <3>5. /\ older \in Seq(Delivery) /\ ToSet(older) = ToSet(skipped[d]) \cup ToSet(front)
          /\ Sorted(older, Rank)
      <4>1. front \in Seq(Delivery) /\ skipped[d] \in Seq(Delivery) /\ Sorted(front, Rank)
        BY <2>3, <2>7, <3>2
      <4>2. QED
        BY <2>3, <2>4, <3>3, <3>4, <4>1, Joined
    <3>6. Before(ToSet(older), {last}, Rank)
      BY <2>3, <2>7, <3>2, <3>5 DEF Before
    <3>7. Hands(d) = ToSet(older) \cup {last}
      BY <2>7, <3>2, <3>5 DEF Hands
    <3>8. QED
      BY <1>1, <2>1, <2>2, <2>7, <3>1, <3>2, <3>3, <3>5, <3>6, <3>7, BatchIsDispatched
  <2>10. QED
    BY <1>13, <2>8, <2>9
<1>14. ASSUME NEW d \in Delivery, StopCollecting(d) \/ HandlerReturns(d) \/ Release(d)
       PROVE  PlacesInv'
  <2>1. UNCHANGED <<queue, pending, skipped, handled, gone, arrivals>>
    BY <1>14 DEF StopCollecting, HandlerReturns, Release, history
  <2>2. ~OwnTask(d)
    BY <1>14 DEF StopCollecting, HandlerReturns, Release, OwnTask, Arriving
  <2>3. \E l \in {"counting", "releasing", "window", "taking", "done"} : pc' = [pc EXCEPT ![d] = l]
    BY <1>14 DEF StopCollecting, HandlerReturns, Release, LoopTop, Goto
  <2>4. QED
    BY <1>3, <2>1, <2>2, <2>3 DEF Arriving
<1>15. ASSUME NEW d \in Delivery, Superseded(d)
       PROVE  PlacesInv'
  <2>1. /\ ~OwnTask(d) /\ pc' = [pc EXCEPT ![d] = "window"] /\ pc[d] = "counting"
        /\ skipped' = [skipped EXCEPT ![d] = @ \o pending[d]] /\ pending' = [pending EXCEPT ![d] = <<>>]
        /\ UNCHANGED <<queue, handled, gone, arrivals>>
    BY <1>15 DEF Superseded, Goto, OwnTask, Arriving, history
  <2>2. \A e \in Delivery : OwnTask(e)' <=> OwnTask(e)
    <3>1. "window" \notin Arriving \cup {"buffering", "duplicate"}
      BY DEF Arriving
    <3>2. QED
      BY <1>1, <2>1, <3>1, OwnTaskMoves
  <2>3. Strategy = "debounce"
    BY <2>1 DEF PlacesInv, OnlyDebounceKeeps
  <2>4. QED
    BY <1>1, <2>1, <2>2, <2>3, PendingIsSuperseded
<1>16. ASSUME NEW d \in Delivery, UnwindHolder(d) \/ Vanish(d)
       PROVE  PlacesInv'
  <2>1. /\ Lose(InHand(d), "abandoned") /\ pending' = [pending EXCEPT ![d] = <<>>]
        /\ skipped' = [skipped EXCEPT ![d] = <<>>] /\ UNCHANGED <<queue, handled, arrivals>>
    BY <1>16 DEF UnwindHolder, Vanish, Abandon
  <2>2. \E l \in {"releasing", "cancelled", "crashed"} : pc' = [pc EXCEPT ![d] = l]
    BY <1>16 DEF UnwindHolder, Vanish, Goto
  <2>3. pc[d] # "duplicate"
    BY <1>16 DEF UnwindHolder, Vanish, Holding, Final
  <2>4. InHand(d) = Hands(d) \cup {e \in {d} : OwnTask(e)}
    BY <2>3 DEF InHand, Hands, OwnTask
  <2>5. Hands(d)' = {}
    <3>1. skipped'[d] = <<>> /\ pending'[d] = <<>> /\ ToSet(<<>>) = {}
      BY <2>1, EmptySequence DEF PlacesInv, PlacesTypeOK
    <3>2. QED
      BY <3>1 DEF Hands
  <2>6. \A e \in Delivery : OwnTask(e)' <=> OwnTask(e) /\ e \notin InHand(d)
    <3>1. \A e \in Delivery \ {d} : OwnTask(e)' <=> OwnTask(e)
      BY <1>1, <2>2, OwnTaskMoves
    <3>2. ~OwnTask(d)'
      BY <1>1, <2>2, OwnTaskMoves DEF Arriving
    <3>3. \A e \in Hands(d) : e \in Delivery => ~OwnTask(e)
      BY DEF PlacesInv, Placed
    <3>4. QED
      BY <2>4, <3>1, <3>2, <3>3
  <2>7. PICK S : S = InHand(d)
    OBVIOUS
  <2>8. /\ Lose(S, "abandoned") /\ "abandoned" \in Reason \ {"no", "foreign"}
        /\ S \subseteq Hands(d) \cup {e \in {d} : OwnTask(e)}
        /\ pending' \in {pending, [pending EXCEPT ![d] = <<>>]}
        /\ skipped' \in {skipped, [skipped EXCEPT ![d] = <<>>]}
        /\ Hands(d) \ S = Hands(d)' /\ UNCHANGED <<queue, handled, arrivals>>
        /\ \A e \in Delivery : OwnTask(e)' <=> OwnTask(e) /\ e \notin S
    BY <2>1, <2>4, <2>5, <2>6, <2>7 DEF Reason
  <2>9. QED
    BY <1>1, <2>8, SomeAreLost
<1>17. ASSUME NEW d \in Delivery, NoticeLoss(d) \/ EntryExpires(d)
       PROVE  PlacesInv'
  BY <1>2, <1>17 DEF NoticeLoss, EntryExpires,
          taskVars, history
<1>18. ASSUME NEW m \in keys, KeyExpires(m)
       PROVE  PlacesInv'
  BY <1>2, <1>18 DEF KeyExpires, taskVars
<1>19. CASE LeaseLapses \/ OrphanLapses \/ Finished \/ UNCHANGED vars
  BY <1>2, <1>19 DEF LeaseLapses, OrphanLapses, Finished, vars,
          taskVars, history
<1>20. QED
  BY <1>4, <1>5, <1>7, <1>8, <1>9, <1>10, <1>11, <1>12, <1>13, <1>14, <1>15, <1>16, <1>17, <1>18, <1>19
     DEF Next, TaskStep, FaultStep

-----------------------------------------------------------------------------
\* A sequence in order holds nothing twice.
LEMMA SortedHasNoRepeats ==
    ASSUME NEW S, NEW s \in Seq(S), NEW r \in [S -> Nat], Sorted(s, r)
    PROVE  \A i, j \in DOMAIN s : s[i] = s[j] => i = j
<1>1. DOMAIN s \subseteq Nat /\ \A i \in DOMAIN s : r[s[i]] \in Nat
  OBVIOUS
<1> SUFFICES ASSUME NEW i \in DOMAIN s, NEW j \in DOMAIN s, s[i] = s[j], i # j
             PROVE  FALSE
  OBVIOUS
<1>2. i < j \/ j < i
  BY <1>1
<1>3. QED
  BY <1>1, <1>2 DEF Sorted

\* A delivery has one place in a sequence it is in once, and none in others.
LEMMA OnePosition ==
    ASSUME NEW k, NEW o, NEW s, NEW d, \A i, j \in DOMAIN s : s[i] = s[j] => i = j
    PROVE  /\ d \notin ToSet(s) => Positions(k, o, s, d) = {}
           /\ d \in ToSet(s) => \E p : Positions(k, o, s, d) = {p}
<1>1. d \notin ToSet(s) => Positions(k, o, s, d) = {}
  BY DEF Positions, ToSet
<1>2. ASSUME d \in ToSet(s)
      PROVE  \E p : Positions(k, o, s, d) = {p}
  <2>1. PICK i \in DOMAIN s : s[i] = d
    BY <1>2 DEF ToSet
  <2>2. \A j \in DOMAIN s : s[j] = d <=> j = i
    BY <2>1
  <2>3. Positions(k, o, s, d) = {<<k, o, i>>}
    BY <2>1, <2>2 DEF Positions
  <2>4. QED
    BY <2>3
<1>3. QED
  BY <1>1, <1>2

\* Where d is among what the tasks have in hand.
HandPlaces(d) ==
    UNION {Positions("pending", t, pending[t], d)
             \cup Positions("skipped", t, skipped[t], d) : t \in Delivery}

\* A delivery that one task has in hand is in one place there.
LEMMA OneHand ==
    ASSUME PlacesInv, NEW d \in Delivery
    PROVE  /\ (\A t \in Delivery : d \notin Hands(t)) => HandPlaces(d) = {}
           /\ \A t \in Delivery :
                 d \in Hands(t) /\ (\A u \in Delivery \ {t} : d \notin Hands(u))
                   => \E p : HandPlaces(d) = {p}
<1> DEFINE In(t) == Positions("pending", t, pending[t], d) \cup Positions("skipped", t, skipped[t], d)
<1>1. ASSUME NEW t \in Delivery
      PROVE  /\ d \notin Hands(t) => In(t) = {}
             /\ d \in Hands(t) => \E p : In(t) = {p}
  <2>1. /\ \A i, j \in DOMAIN pending[t] : pending[t][i] = pending[t][j] => i = j
        /\ \A i, j \in DOMAIN skipped[t] : skipped[t][i] = skipped[t][j] => i = j
    <3>1. /\ Rank \in [Delivery -> Nat] /\ pending[t] \in Seq(Delivery) /\ skipped[t] \in Seq(Delivery)
          /\ Sorted(pending[t], Rank) /\ Sorted(skipped[t], Rank)
      BY RankTyped DEF PlacesInv, PlacesTypeOK, Ordered
    <3>2. QED
      BY <3>1, SortedHasNoRepeats
  <2>2. ~(d \in ToSet(pending[t]) /\ d \in ToSet(skipped[t]))
    <3>1. Rank[d] \in Nat /\ Before(ToSet(skipped[t]), ToSet(pending[t]), Rank)
      BY RankTyped DEF PlacesInv, PlacesTypeOK, Ordered
    <3>2. QED
      BY <3>1 DEF Before
  <2>3. /\ d \notin ToSet(pending[t]) => Positions("pending", t, pending[t], d) = {}
        /\ d \in ToSet(pending[t]) => \E p : Positions("pending", t, pending[t], d) = {p}
    BY <2>1, OnePosition
  <2>4. /\ d \notin ToSet(skipped[t]) => Positions("skipped", t, skipped[t], d) = {}
        /\ d \in ToSet(skipped[t]) => \E p : Positions("skipped", t, skipped[t], d) = {p}
    BY <2>1, OnePosition
  <2>5. d \in Hands(t) <=> d \in ToSet(pending[t]) \/ d \in ToSet(skipped[t])
    BY DEF Hands
  <2>6. QED
    BY <2>2, <2>3, <2>4, <2>5
<1>2. HandPlaces(d) = UNION {In(t) : t \in Delivery}
  BY DEF HandPlaces
<1> HIDE DEF In
<1>3. (\A t \in Delivery : d \notin Hands(t)) => HandPlaces(d) = {}
  BY <1>1, <1>2
<1>4. ASSUME NEW t \in Delivery, d \in Hands(t), \A u \in Delivery \ {t} : d \notin Hands(u)
      PROVE  \E p : HandPlaces(d) = {p}
  <2>1. PICK p : In(t) = {p}
    BY <1>1, <1>4
  <2>2. \A u \in Delivery : u # t => In(u) = {}
    BY <1>1, <1>4
  <2>3. HandPlaces(d) = {p}
    BY <1>2, <2>1, <2>2
  <2>4. QED
    BY <2>3
<1>5. QED
  BY <1>3, <1>4

\* A delivery that one call shows is shown in one place.
LEMMA OneShowing ==
    ASSUME PlacesInv, NEW d \in Delivery
    PROVE  /\ (\A n \in DOMAIN handled : d \notin Shown(handled[n])) => ShownPlaces(d) = {}
           /\ \A n \in DOMAIN handled :
                 d \in Shown(handled[n]) /\ (\A m \in DOMAIN handled \ {n} : d \notin Shown(handled[m]))
                   => \E p : ShownPlaces(d) = {p}
<1> DEFINE In(n) == {<<"shown", n, i>> : i \in {k \in ShownAt(handled[n]) : handled[n].older[k] = d}}
                      \cup (IF handled[n].latest = d THEN {<<"shown", n, 0>>} ELSE {})
<1>1. ASSUME NEW n \in DOMAIN handled
      PROVE  /\ d \notin Shown(handled[n]) => In(n) = {}
             /\ d \in Shown(handled[n]) => \E p : In(n) = {p}
  <2>1. PICK older : older = handled[n].older
    OBVIOUS
  <2>2. older \in Seq(Delivery) /\ Sorted(older, Rank) /\ Before(ToSet(older), {handled[n].latest}, Rank)
    <3>1. handled[n] \in HandlerCall
      BY DEF PlacesInv, PlacesTypeOK
    <3>2. QED
      BY <2>1, <3>1 DEF PlacesInv, Ordered, HandlerCall
  <2>3. \A i, j \in DOMAIN older : older[i] = older[j] => i = j
    <3>1. Rank \in [Delivery -> Nat]
      BY RankTyped DEF PlacesInv, PlacesTypeOK
    <3>2. QED
      BY <2>2, <3>1, SortedHasNoRepeats
  <2>4. ShownAt(handled[n]) \subseteq DOMAIN older
    BY <2>1 DEF ShownAt
  <2>5. d \notin Shown(handled[n]) => In(n) = {}
    BY DEF Shown
  <2>6. CASE handled[n].latest = d
    <3>1. \A k \in ShownAt(handled[n]) : older[k] # d
      <4>1. Rank[d] \in Nat
        BY RankTyped DEF PlacesInv, PlacesTypeOK
      <4>2. QED
        BY <2>2, <2>4, <2>6, <4>1 DEF Before, ToSet
    <3>2. In(n) = {<<"shown", n, 0>>}
      BY <2>1, <2>6, <3>1
    <3>3. QED
      BY <2>5, <3>2
  <2>7. CASE handled[n].latest # d /\ d \in Shown(handled[n])
    <3>1. PICK i \in ShownAt(handled[n]) : older[i] = d
      BY <2>1, <2>7 DEF Shown
    <3>2. {k \in ShownAt(handled[n]) : older[k] = d} = {i}
      BY <2>3, <2>4, <3>1
    <3>3. In(n) = {<<"shown", n, i>>}
      BY <2>1, <2>7, <3>2
    <3>4. QED
      BY <2>7, <3>3
  <2>8. QED
    BY <2>5, <2>6, <2>7
<1>2. ShownPlaces(d) = UNION {In(n) : n \in DOMAIN handled}
  BY DEF ShownPlaces
<1> HIDE DEF In
<1>3. (\A n \in DOMAIN handled : d \notin Shown(handled[n])) => ShownPlaces(d) = {}
  BY <1>1, <1>2
<1>4. ASSUME NEW n \in DOMAIN handled, d \in Shown(handled[n]),
             \A m \in DOMAIN handled \ {n} : d \notin Shown(handled[m])
      PROVE  \E p : ShownPlaces(d) = {p}
  <2>1. PICK p : In(n) = {p}
    BY <1>1, <1>4
  <2>2. \A m \in DOMAIN handled : m # n => In(m) = {}
    BY <1>1, <1>4
  <2>3. ShownPlaces(d) = {p}
    BY <1>2, <2>1, <2>2
  <2>4. QED
    BY <2>3
<1>5. QED
  BY <1>3, <1>4

\* Who has one kind of place has one place.
LEMMA PlacedOnce == PlacesInv => NothingLostOrDoubled
<1> SUFFICES ASSUME PlacesInv, NEW d \in Delivery
             PROVE  \E p \in Places(d) : Places(d) = {p}
  BY DEF NothingLostOrDoubled
<1>1. PICK kind, of : Placed(kind, of)
  BY DEF PlacesInv
<1>2. Places(d) = OwnPlace(d) \cup GonePlace(d) \cup Positions("queue", 0, queue, d) \cup ShownPlaces(d)
                    \cup HandPlaces(d)
  <2>1. ASSUME NEW t \in Delivery, t \notin Carriers
        PROVE  Positions("pending", t, pending[t], d) \cup Positions("skipped", t, skipped[t], d) = {}
    <3>1. pending[t] = <<>> /\ skipped[t] = <<>>
      BY <2>1 DEF Carriers
    <3>2. QED
      BY <3>1 DEF Positions
  <2> DEFINE In(t) == Positions("pending", t, pending[t], d) \cup Positions("skipped", t, skipped[t], d)
  <2>2. HandPlaces(d) = UNION {In(t) : t \in Delivery}
    BY DEF HandPlaces
  <2>3. UNION {In(t) : t \in Carriers} = UNION {In(t) : t \in Delivery}
    <3>1. \A t \in Delivery : t \notin Carriers => In(t) = {}
      BY <2>1
    <3>2. Carriers \subseteq Delivery
      BY DEF Carriers
    <3> HIDE DEF In
    <3>3. QED
      BY <3>1, <3>2
  <2>4. QED
    BY <2>2, <2>3 DEF Places
<1>3. /\ kind[d] = "own" => OwnPlace(d) = {<<"own", 0, 0>>}
      /\ kind[d] # "own" => OwnPlace(d) = {}
  BY <1>1 DEF Placed, OwnTask, OwnPlace
<1>4. /\ kind[d] = "gone" => GonePlace(d) = {<<"gone", 0, 0>>}
      /\ kind[d] # "gone" => GonePlace(d) = {}
  BY <1>1 DEF Placed, GonePlace
<1>5. /\ kind[d] = "queue" => \E p : Positions("queue", 0, queue, d) = {p}
      /\ kind[d] # "queue" => Positions("queue", 0, queue, d) = {}
  <2>1. queue \in Seq(Delivery) /\ Sorted(queue, Rank) /\ Rank \in [Delivery -> Nat]
    BY RankTyped DEF PlacesInv, PlacesTypeOK, Ordered
  <2>2. \A i, j \in DOMAIN queue : queue[i] = queue[j] => i = j
    BY <2>1, SortedHasNoRepeats
  <2>3. d \in ToSet(queue) <=> kind[d] = "queue"
    BY <1>1 DEF Placed
  <2>4. QED
    BY <2>2, <2>3, OnePosition
<1>6. /\ kind[d] = "shown" => \E p : ShownPlaces(d) = {p}
      /\ kind[d] # "shown" => ShownPlaces(d) = {}
  <2>1. \A n \in DOMAIN handled : d \in Shown(handled[n]) <=> kind[d] = "shown" /\ of[d] = n
    BY <1>1 DEF Placed
  <2>2. kind[d] = "shown" => of[d] \in DOMAIN handled
    BY <1>1 DEF Placed
  <2>3. QED
    BY <2>1, <2>2, OneShowing
<1>7. /\ kind[d] = "hands" => \E p : HandPlaces(d) = {p}
      /\ kind[d] # "hands" => HandPlaces(d) = {}
  <2>1. \A t \in Delivery : d \in Hands(t) <=> kind[d] = "hands" /\ of[d] = t
    BY <1>1 DEF Placed
  <2>2. kind[d] = "hands" => of[d] \in Delivery
    BY <1>1 DEF Placed
  <2>3. QED
    BY <2>1, <2>2, OneHand
<1>8. kind[d] \in {"own", "gone", "queue", "hands", "shown"}
  BY <1>1 DEF Placed
<1>9. \E p : Places(d) = {p}
  <2>1. CASE kind[d] = "own"
    BY <1>2, <1>3, <1>4, <1>5, <1>6, <1>7, <2>1
  <2>2. CASE kind[d] = "gone"
    BY <1>2, <1>3, <1>4, <1>5, <1>6, <1>7, <2>2
  <2>3. CASE kind[d] = "queue"
    BY <1>2, <1>3, <1>4, <1>5, <1>6, <1>7, <2>3
  <2>4. CASE kind[d] = "shown"
    BY <1>2, <1>3, <1>4, <1>5, <1>6, <1>7, <2>4
  <2>5. CASE kind[d] = "hands"
    BY <1>2, <1>3, <1>4, <1>5, <1>6, <1>7, <2>5
  <2>6. QED
    BY <1>8, <2>1, <2>2, <2>3, <2>4, <2>5
<1>10. QED
  BY <1>9

\* No interleaving and no fault makes a message vanish without a recorded reason or
\* puts it in two places.
THEOREM MessagesHaveOnePlace == Spec => []PlacesInv
<1>1. Init => PlacesInv
  BY PlacesInitially
<1>2. PlacesInv /\ [Next]_vars => PlacesInv'
  BY PlacesStep
<1>3. QED
  BY <1>1, <1>2, PTL DEF Spec

\* A delivery that is shown was admitted, and is shown in one place.
LEMMA ShownOnceAdmitted == PlacesInv /\ AdmittedOnce => SurfacedOnce
<1> SUFFICES ASSUME PlacesInv, AdmittedOnce, NEW d \in Delivery, NEW e \in Delivery,
                    MessageOf[d] = MessageOf[e], MessageOf[d] \notin lapsed,
                    NEW p \in ShownPlaces(d), NEW q \in ShownPlaces(e)
             PROVE  p = q
  BY DEF SurfacedOnce, Surfaced
<1>1. ASSUME NEW f \in Delivery, ShownPlaces(f) # {}
      PROVE  Admitted(f)
  <2>1. PICK kind, of : Placed(kind, of)
    BY DEF PlacesInv
  <2>2. \E n \in DOMAIN handled : f \in Shown(handled[n])
    BY <1>1, OneShowing
  <2>3. kind[f] = "shown"
    BY <2>1, <2>2 DEF Placed
  <2>4. ~OwnTask(f)
    BY <2>1, <2>3 DEF Placed
  <2>5. QED
    BY <2>4 DEF Admitted, OwnTask, Arriving
<1>2. Admitted(d) /\ Admitted(e)
  BY <1>1
<1>3. d = e
  BY <1>2 DEF AdmittedOnce
<1>4. PICK x \in Places(d) : Places(d) = {x}
  BY PlacedOnce DEF NothingLostOrDoubled
<1>5. ShownPlaces(d) \subseteq {x}
  BY <1>4 DEF Places
<1>6. QED
  BY <1>3, <1>5

\* Every message is accounted for, and one whose dedupe key has not expired is shown
\* to the handlers once however often it is delivered.
THEOREM MessagesAreShownOnce == Spec => []EachMessageOnce
<1>1. PlacesInv /\ AdmittedOnce => EachMessageOnce
  BY PlacedOnce, ShownOnceAdmitted DEF EachMessageOnce
<1>2. QED
  BY <1>1, MessagesHaveOnePlace, DeliveriesAdmittedOnce, PTL

-----------------------------------------------------------------------------
(* The order of the batches *)

\* Only a task in its drain loop has messages in hand.
HandsHold ==
    \A t \in Delivery :
        /\ pending[t] # <<>> => pc[t] \in {"taking", "counting"}
        /\ skipped[t] # <<>> => pc[t] \in {"window", "taking", "counting"}

\* The drop strategy queues nothing, and no other forces a lock.
DropQueuesNothing ==
    /\ Strategy = "drop" =>
         /\ queue = <<>>
         /\ \A d \in Delivery : pc[d] \notin {"busy", "enqueuing", "buffering", "window",
                                              "taking", "counting"}
    /\ Strategy # "drop" => \A d \in Delivery : pc[d] \notin {"conflict", "reacquiring"}

\* What is queued or in hand, and a set that is newer than another, late entries apart.
Waiting     == ToSet(queue) \cup UNION {Hands(t) : t \in Delivery}
Newer(S, T) == \A x \in S, e \in T : Rank[x] < Rank[e] \/ e \in late

\* What is shown is older than what waits and than what is shown after it, late
\* entries excepted.
ShownInOrder ==
    \A n \in DOMAIN handled :
        /\ Newer(Shown(handled[n]), Waiting)
        /\ \A m \in DOMAIN handled : n < m => Newer(Shown(handled[n]), Shown(handled[m]))

\* Without faults nobody loses a lock it was not robbed of, and who finds the lock
\* free finds only late entries in the queue.
Calm ==
    /\ Strategy # "drop" => usurped = {} /\ lost = {}
    /\ Drainers = {} => ToSet(queue) \subseteq late
    /\ ShownInOrder

OrderInv == HandsHold /\ DropQueuesNothing /\ faults \in Nat /\ (faults = 0 => Calm)

\* In the beginning nothing is queued, in hand or shown.
LEMMA OrderInitially == Init => OrderInv
BY EmptySequence DEF Init, OrderInv, HandsHold, DropQueuesNothing, Calm, ShownInOrder, Strategy

\* The moves of the labels, hands and queue, whatever the faults.
LEMMA HandsStep == PlacesInv /\ HandsHold /\ DropQueuesNothing /\ [Next]_vars
                     => HandsHold' /\ DropQueuesNothing'
<1> SUFFICES ASSUME PlacesInv, HandsHold, DropQueuesNothing, [Next]_vars
             PROVE  HandsHold' /\ DropQueuesNothing'
  OBVIOUS
<1>1. /\ pc \in [Delivery -> Arriving \cup Holding \cup Final \cup {"releasing"}]
      /\ pending \in [Delivery -> Seq(Delivery)] /\ skipped \in [Delivery -> Seq(Delivery)]
  BY DEF PlacesInv, PlacesTypeOK
<1>2. Labelled
  BY StepsAreLabelled
<1>3. Strategy' = Strategy
  BY <1>2 DEF Labelled, Strategy
<1>4. ASSUME UNCHANGED <<pc, queue, pending, skipped>>
      PROVE  HandsHold' /\ DropQueuesNothing'
  BY <1>3, <1>4 DEF HandsHold, DropQueuesNothing
<1>5. ASSUME NEW d \in Delivery, NEW l, pc' = [pc EXCEPT ![d] = l], UNCHANGED <<queue, pending, skipped>>,
             pending[d] # <<>> => l \in {"taking", "counting"},
             skipped[d] # <<>> => l \in {"window", "taking", "counting"},
             l \in {"busy", "enqueuing", "buffering", "window", "taking", "counting"} => Strategy # "drop",
             l \in {"conflict", "reacquiring"} => Strategy = "drop"
      PROVE  HandsHold' /\ DropQueuesNothing'
  BY <1>1, <1>3, <1>5 DEF HandsHold, DropQueuesNothing
<1>6. ASSUME NEW d \in Delivery, NEW l, pc' = [pc EXCEPT ![d] = l], queue' = queue,
             pending' = [pending EXCEPT ![d] = <<>>], skipped' = [skipped EXCEPT ![d] = <<>>],
             l \notin {"busy", "enqueuing", "buffering", "window", "taking", "counting",
                       "conflict", "reacquiring"}
      PROVE  HandsHold' /\ DropQueuesNothing'
  BY <1>1, <1>3, <1>6 DEF HandsHold, DropQueuesNothing
<1>7. ASSUME NEW d \in Delivery, Deduplicate(d) \/ AcquireFails(d) \/ Reject(d)
      PROVE  HandsHold' /\ DropQueuesNothing'
  <2>1. UNCHANGED <<queue, pending, skipped>> /\ pending[d] = <<>> /\ skipped[d] = <<>>
    BY <1>7 DEF Deduplicate, AcquireFails, Reject, HandsHold, history
  <2>2. \E l : /\ pc' = [pc EXCEPT ![d] = l]
               /\ l \in {"duplicate", "acquiring", "rejected"} \cup
                          (IF Strategy = "drop" THEN {"conflict"} ELSE {"busy"})
    BY <1>7 DEF Deduplicate, AcquireFails, Reject, Goto
  <2>3. QED
    BY <1>5, <2>1, <2>2
<1>8. ASSUME NEW d \in Delivery, Acquire(d) \/ Reacquire(d)
      PROVE  HandsHold' /\ DropQueuesNothing'
  <2>1. UNCHANGED <<queue, pending, skipped>> /\ pending[d] = <<>> /\ skipped[d] = <<>>
    BY <1>8 DEF Acquire, Reacquire, EnterHeldLock, HandsHold
  <2>2. \E l : /\ pc' = [pc EXCEPT ![d] = l]
               /\ l \in {"handling"} \cup (IF Strategy = "drop" THEN {} ELSE {"buffering"})
    BY <1>8 DEF Acquire, Reacquire, EnterHeldLock, Goto
  <2>3. QED
    BY <1>5, <2>1, <2>2
<1>9. ASSUME NEW d \in Delivery, ForceRelease(d) \/ ReadDepth(d)
      PROVE  HandsHold' /\ DropQueuesNothing'
  <2>1. UNCHANGED <<queue, pending, skipped>> /\ pending[d] = <<>> /\ skipped[d] = <<>>
    BY <1>9 DEF ForceRelease, ReadDepth, HandsHold
  <2>2. \E l : /\ pc' = [pc EXCEPT ![d] = l]
               /\ l \in {"dropped"} \cup (IF Strategy = "drop" THEN {"reacquiring"} ELSE {"enqueuing"})
    BY <1>9 DEF ForceRelease, ReadDepth, Goto, DropQueuesNothing
  <2>3. QED
    BY <1>5, <2>1, <2>2
<1>10. ASSUME NEW d \in Delivery, EnqueueBehind(d) \/ EnqueueOwn(d)
       PROVE  HandsHold' /\ DropQueuesNothing'
  <2>1. UNCHANGED <<pending, skipped>> /\ pending[d] = <<>> /\ skipped[d] = <<>> /\ Strategy # "drop"
    BY <1>10 DEF EnqueueBehind, EnqueueOwn, HandsHold, DropQueuesNothing
  <2>2. \E l \in {"queued", "window"} : pc' = [pc EXCEPT ![d] = l]
    BY <1>10 DEF EnqueueBehind, EnqueueOwn, Goto
  <2>3. QED
    BY <1>1, <1>3, <2>1, <2>2 DEF HandsHold, DropQueuesNothing
<1>11. ASSUME NEW d \in Delivery, WindowEnds(d)
       PROVE  HandsHold' /\ DropQueuesNothing'
  <2>1. queue' = queue /\ pending' = pending /\ pending[d] = <<>> /\ Strategy # "drop"
    BY <1>11 DEF WindowEnds, HandsHold, DropQueuesNothing
  <2>2. CASE d \in lost
    <3>1. pc' = [pc EXCEPT ![d] = "releasing"] /\ skipped' = [skipped EXCEPT ![d] = <<>>]
      BY <1>11, <2>2 DEF WindowEnds, Goto, LoopTop
    <3>2. QED
      BY <1>1, <1>3, <2>1, <3>1 DEF HandsHold, DropQueuesNothing
  <2>3. CASE d \notin lost
    <3>1. pc' = [pc EXCEPT ![d] = "taking"] /\ skipped' = skipped
      BY <1>11, <2>3 DEF WindowEnds, Goto, LoopTop
    <3>2. QED
      BY <1>5, <2>1, <3>1
  <2>4. QED
    BY <2>2, <2>3
<1>12. ASSUME NEW d \in Delivery, TakeOne(d)
       PROVE  HandsHold' /\ DropQueuesNothing'
  <2>1. /\ pc' = pc /\ skipped' = skipped /\ pc[d] = "taking" /\ Strategy # "drop"
        /\ \A t \in Delivery \ {d} : pending'[t] = pending[t]
    BY <1>1, <1>12 DEF TakeOne, DropQueuesNothing
  <2>2. QED
    BY <1>3, <2>1 DEF HandsHold, DropQueuesNothing
<1>13. ASSUME NEW d \in Delivery, FindNothing(d)
       PROVE  HandsHold' /\ DropQueuesNothing'
  <2>1. /\ pc' = [pc EXCEPT ![d] = "releasing"] /\ pending' = pending /\ pending[d] = <<>>
        /\ skipped' = [skipped EXCEPT ![d] = <<>>] /\ queue' = queue
    BY <1>13 DEF FindNothing, Goto
  <2>2. QED
    BY <1>1, <1>3, <2>1 DEF HandsHold, DropQueuesNothing
<1>14. ASSUME NEW d \in Delivery, DispatchCollected(d) \/ DispatchLatest(d)
       PROVE  HandsHold' /\ DropQueuesNothing'
  <2>1. /\ pc' = [pc EXCEPT ![d] = "handling"] /\ queue' = queue
        /\ pending' = [pending EXCEPT ![d] = <<>>] /\ skipped' = [skipped EXCEPT ![d] = <<>>]
    BY <1>14 DEF DispatchCollected, DispatchLatest, DispatchBatch, Goto
  <2>2. QED
    BY <1>6, <2>1
<1>15. ASSUME NEW d \in Delivery, StopCollecting(d)
       PROVE  HandsHold' /\ DropQueuesNothing'
  <2>1. /\ pc' = [pc EXCEPT ![d] = "counting"] /\ UNCHANGED <<queue, pending, skipped>>
        /\ Strategy # "drop"
    BY <1>15 DEF StopCollecting, Goto
  <2>2. QED
    BY <1>5, <2>1
<1>16. ASSUME NEW d \in Delivery, Superseded(d)
       PROVE  HandsHold' /\ DropQueuesNothing'
  <2>1. /\ pc' = [pc EXCEPT ![d] = "window"] /\ queue' = queue /\ Strategy # "drop"
        /\ pending' = [pending EXCEPT ![d] = <<>>] /\ \A t \in Delivery \ {d} : skipped'[t] = skipped[t]
    BY <1>1, <1>16 DEF Superseded, Goto, DropQueuesNothing
  <2>2. QED
    BY <1>1, <1>3, <2>1 DEF HandsHold, DropQueuesNothing
<1>17. ASSUME NEW d \in Delivery, HandlerReturns(d) \/ Release(d)
       PROVE  HandsHold' /\ DropQueuesNothing'
  <2>1. UNCHANGED <<queue, pending, skipped>> /\ pending[d] = <<>> /\ skipped[d] = <<>>
    BY <1>17 DEF HandlerReturns, Release, HandsHold
  <2>2. \E l : /\ pc' = [pc EXCEPT ![d] = l]
               /\ l \in {"releasing", "done"} \cup (IF Strategy = "drop" THEN {} ELSE {"window", "taking"})
    BY <1>17 DEF HandlerReturns, Release, Goto, LoopTop
  <2>3. QED
    BY <1>5, <2>1, <2>2
<1>18. ASSUME NEW d \in Delivery, UnwindHolder(d) \/ Vanish(d)
       PROVE  HandsHold' /\ DropQueuesNothing'
  <2>1. /\ queue' = queue
        /\ pending' = [pending EXCEPT ![d] = <<>>] /\ skipped' = [skipped EXCEPT ![d] = <<>>]
    BY <1>18 DEF UnwindHolder, Vanish, Abandon
  <2>2. \E l \in {"releasing", "cancelled", "crashed"} : pc' = [pc EXCEPT ![d] = l]
    BY <1>18 DEF UnwindHolder, Vanish, Goto
  <2>3. QED
    BY <1>6, <2>1, <2>2
<1>19. ASSUME NEW d \in Delivery, NoticeLoss(d) \/ EntryExpires(d)
       PROVE  HandsHold' /\ DropQueuesNothing'
  BY <1>4, <1>19 DEF NoticeLoss, EntryExpires, taskVars
<1>20. ASSUME NEW m \in keys, KeyExpires(m)
       PROVE  HandsHold' /\ DropQueuesNothing'
  BY <1>4, <1>20 DEF KeyExpires, taskVars
<1>21. CASE LeaseLapses \/ OrphanLapses \/ Finished \/ UNCHANGED vars
  BY <1>4, <1>21 DEF LeaseLapses, OrphanLapses, Finished, vars, taskVars
<1>22. QED
  BY <1>7, <1>8, <1>9, <1>10, <1>11, <1>12, <1>13, <1>14, <1>15, <1>16, <1>17, <1>18, <1>19, <1>20, <1>21
     DEF Next, TaskStep, FaultStep

\* At most one delivery arrives in a step.
ArrivalsGrow ==
    arrivals' = arrivals \/ \E d \in Delivery \ ToSet(arrivals) : arrivals' = Append(arrivals, d)

\* Those who have arrived keep their ranks, and newcomers are above them.
LEMMA RankFacts ==
    ASSUME PlacesInv, ArrivalsGrow
    PROVE  /\ ToSet(arrivals) \subseteq ToSet(arrivals')
           /\ \A x \in ToSet(arrivals) :
                 /\ Rank'[x] = Rank[x]
                 /\ \A y \in ToSet(arrivals') \ ToSet(arrivals) : Rank'[x] < Rank'[y]
<1>1. arrivals \in Seq(Delivery) /\ \A i, j \in DOMAIN arrivals : arrivals[i] = arrivals[j] => i = j
  BY DEF PlacesInv, PlacesTypeOK, Ordered
<1>2. CASE arrivals' = arrivals
  BY <1>2, RankKept
<1>3. CASE \E d \in Delivery \ ToSet(arrivals) : arrivals' = Append(arrivals, d)
  <2>1. PICK d \in Delivery \ ToSet(arrivals) : arrivals' = Append(arrivals, d)
    BY <1>3
  <2>2. /\ \A e \in ToSet(arrivals) : Rank'[e] = Rank[e] /\ Rank[e] < Rank'[d]
        /\ ToSet(arrivals') = ToSet(arrivals) \cup {d}
    BY <1>1, <2>1, RankGrows
  <2>3. QED
    BY <2>2
<1>4. QED
  BY <1>2, <1>3 DEF ArrivalsGrow

\* What is shown or waits has arrived.
LEMMA HasArrived ==
    ASSUME PlacesInv
    PROVE  Waiting \subseteq ToSet(arrivals) /\ \A n \in DOMAIN handled : Shown(handled[n]) \subseteq ToSet(arrivals)
<1>1. Waiting \subseteq ToSet(arrivals)
  BY DEF PlacesInv, Ordered, Waiting
<1>2. ASSUME NEW n \in DOMAIN handled
      PROVE  Shown(handled[n]) \subseteq ToSet(arrivals)
  <2>1. ToSet(handled[n].older) \cup {handled[n].latest} \subseteq ToSet(arrivals)
    BY DEF PlacesInv, Ordered
  <2>2. QED
    BY <2>1, ShownIs
<1>3. QED
  BY <1>1, <1>2

\* A step that shows nothing: what waits waited before or arrives now.
LEMMA NothingIsShown ==
    ASSUME PlacesInv, ShownInOrder, ArrivalsGrow, handled' = handled, late \subseteq late',
           Waiting' \subseteq Waiting \cup (ToSet(arrivals') \ ToSet(arrivals))
    PROVE  ShownInOrder'
<1>1. ASSUME NEW n \in DOMAIN handled, NEW x \in Shown(handled[n]), NEW e \in Waiting'
      PROVE  Rank'[x] < Rank'[e] \/ e \in late'
  <2>1. x \in ToSet(arrivals)
    BY HasArrived
  <2>2. CASE e \in Waiting
    <3>1. e \in ToSet(arrivals) /\ (Rank[x] < Rank[e] \/ e \in late)
      BY <2>2, HasArrived DEF ShownInOrder, Newer
    <3>2. QED
      BY <2>1, <3>1, RankFacts
  <2>3. CASE e \notin Waiting
    BY <2>1, <2>3, RankFacts
  <2>4. QED
    BY <2>2, <2>3
<1>2. ASSUME NEW n \in DOMAIN handled, NEW m \in DOMAIN handled, n < m,
             NEW x \in Shown(handled[n]), NEW e \in Shown(handled[m])
      PROVE  Rank'[x] < Rank'[e] \/ e \in late'
  <2>1. x \in ToSet(arrivals) /\ e \in ToSet(arrivals)
    BY HasArrived
  <2>2. Rank[x] < Rank[e] \/ e \in late
    BY <1>2 DEF ShownInOrder, Newer
  <2>3. QED
    BY <2>1, <2>2, RankFacts
<1>3. QED
  BY <1>1, <1>2 DEF ShownInOrder, Newer

\* A step that shows what waited or arrives, and leaves only late entries waiting.
LEMMA CallIsShown ==
    ASSUME PlacesInv, ShownInOrder, ArrivalsGrow, NEW call \in HandlerCall,
           handled' = Append(handled, call), late' = late,
           Shown(call) \subseteq Waiting \cup (ToSet(arrivals') \ ToSet(arrivals)),
           Waiting' \subseteq Waiting, Waiting' \subseteq late
    PROVE  ShownInOrder'
<1>1. PICK m : m = Len(handled) + 1
  OBVIOUS
<1>2. /\ DOMAIN handled' = DOMAIN handled \cup {m}
      /\ m \notin DOMAIN handled /\ m \in Nat /\ handled'[m] = call
      /\ \A i \in DOMAIN handled : handled'[i] = handled[i]
  <2>1. handled \in Seq(HandlerCall)
    BY DEF PlacesInv, PlacesTypeOK
  <2>2. QED
    BY <1>1, <2>1, CallAdded
<1>3. \A i \in DOMAIN handled : ~(m < i)
  BY <1>1 DEF PlacesInv, PlacesTypeOK
<1>4. ASSUME NEW n \in DOMAIN handled', NEW x \in Shown(handled'[n]), NEW e \in Waiting'
      PROVE  Rank'[x] < Rank'[e] \/ e \in late'
  OBVIOUS
<1>5. ASSUME NEW n \in DOMAIN handled', NEW k \in DOMAIN handled', n < k,
             NEW x \in Shown(handled'[n]), NEW e \in Shown(handled'[k])
      PROVE  Rank'[x] < Rank'[e] \/ e \in late'
  <2>1. n \in DOMAIN handled /\ handled'[n] = handled[n]
    BY <1>2, <1>3, <1>5
  <2>2. x \in ToSet(arrivals)
    BY <2>1, HasArrived
  <2>3. CASE k \in DOMAIN handled
    <3>1. e \in ToSet(arrivals) /\ (Rank[x] < Rank[e] \/ e \in late)
      BY <1>2, <1>5, <2>1, <2>3, HasArrived DEF ShownInOrder, Newer
    <3>2. QED
      BY <2>2, <3>1, RankFacts
  <2>4. CASE k = m
    <3>1. e \in Shown(call)
      BY <1>2, <2>4
    <3>2. CASE e \in Waiting
      <4>1. e \in ToSet(arrivals) /\ (Rank[x] < Rank[e] \/ e \in late)
        BY <2>1, <3>2, HasArrived DEF ShownInOrder, Newer
      <4>2. QED
        BY <2>2, <4>1, RankFacts
    <3>3. CASE e \notin Waiting
      BY <2>2, <3>1, <3>3, RankFacts
    <3>4. QED
      BY <3>2, <3>3
  <2>5. QED
    BY <1>2, <2>3, <2>4
<1>6. QED
  BY <1>4, <1>5 DEF ShownInOrder, Newer

\* A push brings in the message pushed and nothing else.
LEMMA PushQueues ==
    ASSUME queue \in Seq(Delivery), NEW d \in Delivery, Push(d)
    PROVE  ToSet(queue') \subseteq ToSet(queue) \cup {d}
<1>1. PICK all : all = Append(queue, d)
  OBVIOUS
<1>2. PICK r : r = [e \in Delivery |-> 0]
  OBVIOUS
<1>3. r \in [Delivery -> Nat]
  BY <1>2
<1>4. all \in Seq(Delivery) /\ ToSet(all) = ToSet(queue) \cup {d}
  BY <1>1, <1>3, Appended
<1>5. CASE Len(all) - MaxQueueSize > 0
  <2>1. PICK n : n = Len(all) - MaxQueueSize
    OBVIOUS
  <2>2. n \in 0 .. Len(all)
    BY <1>4, <1>5, <2>1, DispatchAssumption
  <2>3. queue' = SubSeq(all, n + 1, Len(all))
    BY <1>1, <1>5, <2>1 DEF Push
  <2>4. QED
    BY <1>3, <1>4, <2>2, <2>3, Dropped
<1>6. CASE ~(Len(all) - MaxQueueSize > 0)
  <2>1. queue' = all
    BY <1>1, <1>6 DEF Push
  <2>2. QED
    BY <1>4, <2>1
<1>7. QED
  BY <1>5, <1>6

\* Without faults a holder is the only one.
LEMMA OneDrainer ==
    ASSUME HandlersHoldTheLock, HandsHold, DropQueuesNothing, Calm
    PROVE  /\ Strategy # "drop" => \A t \in Delivery : pc[t] \in Holding => lock = t
           /\ \A t \in Delivery : Hands(t) # {} => lock = t /\ Strategy # "drop"
           /\ lock = NoOne => Waiting \subseteq late
<1>1. Strategy # "drop" => \A t \in Delivery : pc[t] \in Holding => lock = t
  BY DEF HandlersHoldTheLock, Calm
<1>2. ASSUME NEW t \in Delivery, Hands(t) # {}
      PROVE  lock = t /\ Strategy # "drop"
  <2>1. pending[t] # <<>> \/ skipped[t] # <<>>
    BY <1>2, EmptySequence DEF Hands
  <2>2. pc[t] \in {"window", "taking", "counting"}
    BY <2>1 DEF HandsHold
  <2>3. Strategy # "drop" /\ pc[t] \in Holding
    BY <2>2 DEF DropQueuesNothing, Holding
  <2>4. QED
    BY <1>1, <2>3
<1>3. ASSUME lock = NoOne
      PROVE  Waiting \subseteq late
  <2>1. \A t \in Delivery : Hands(t) = {}
    BY <1>2, <1>3, DispatchAssumption
  <2>2. ToSet(queue) \subseteq late
    <3>1. CASE Strategy = "drop"
      BY <3>1, EmptySequence DEF DropQueuesNothing
    <3>2. CASE Strategy # "drop"
      <4>1. Drainers = {}
        BY <1>1, <1>3, <3>2, DispatchAssumption DEF Drainers
      <4>2. QED
        BY <4>1 DEF Calm
    <3>3. QED
      BY <3>1, <3>2
  <2>3. QED
    BY <2>1, <2>2 DEF Waiting
<1>4. QED
  BY <1>1, <1>2, <1>3

\* A step without a fault keeps the order.
LEMMA CalmStep ==
    ASSUME PlacesInv, PlacesInv', HandlersHoldTheLock, HandsHold, DropQueuesNothing, DropQueuesNothing',
           faults = 0, faults' = 0, Calm, [Next]_vars
    PROVE  Calm'
<1>1. /\ pc \in [Delivery -> Arriving \cup Holding \cup Final \cup {"releasing"}]
      /\ pending \in [Delivery -> Seq(Delivery)] /\ skipped \in [Delivery -> Seq(Delivery)]
      /\ queue \in Seq(Delivery)
  BY DEF PlacesInv, PlacesTypeOK
<1>2. Labelled
  BY StepsAreLabelled
<1>3. Strategy' = Strategy
  BY <1>2 DEF Labelled, Strategy
<1>4. ~Fault
  BY DEF Fault
<1>5. Strategy # "drop" => lost = {} /\ usurped = {}
  BY DEF Calm
<1>6. ASSUME lost' = lost, usurped' = usurped,
             handled' = handled, arrivals' = arrivals, late' = late, ToSet(queue') \subseteq ToSet(queue),
             Drainers \subseteq Drainers' \/ queue = <<>>,
             \A t \in Delivery : Hands(t)' \subseteq Hands(t) \cup ToSet(queue)
      PROVE  Calm'
  <2>1. Drainers' = {} => ToSet(queue') \subseteq late'
    BY <1>6, EmptySequence DEF Calm
  <2>2. Waiting' \subseteq Waiting \cup (ToSet(arrivals') \ ToSet(arrivals))
    BY <1>6 DEF Waiting
  <2>3. late \subseteq late' /\ ArrivalsGrow /\ ShownInOrder
    BY <1>6 DEF ArrivalsGrow, Calm
  <2>4. ShownInOrder'
    BY <1>6, <2>2, <2>3, NothingIsShown
  <2>5. QED
    BY <1>3, <1>5, <1>6, <2>1, <2>4 DEF Calm
<1>7. ASSUME NEW d \in Delivery, NEW l, pc' = [pc EXCEPT ![d] = l],
             pc[d] \notin Holding \/ l \in Holding \/ queue = <<>> \/ Strategy = "drop",
             UNCHANGED <<queue, pending, skipped, lost, usurped, handled, arrivals, late>>
      PROVE  Calm'
  <2>1. Drainers \subseteq Drainers' \/ queue = <<>>
    BY <1>1, <1>3, <1>7 DEF Drainers
  <2>2. \A t \in Delivery : Hands(t)' \subseteq Hands(t) \cup ToSet(queue)
    BY <1>7 DEF Hands
  <2>3. QED
    BY <1>6, <1>7, <2>1, <2>2
<1>8. ASSUME UNCHANGED <<pc, queue, pending, skipped, lost, usurped, handled, arrivals, late>>
      PROVE  Calm'
  <2>1. Drainers \subseteq Drainers'
    BY <1>3, <1>8 DEF Drainers
  <2>2. \A t \in Delivery : Hands(t)' \subseteq Hands(t) \cup ToSet(queue)
    BY <1>8 DEF Hands
  <2>3. QED
    BY <1>6, <1>8, <2>1, <2>2
<1>9. ASSUME NEW d \in Delivery, Deduplicate(d) \/ AcquireFails(d) \/ Reject(d) \/ ReadDepth(d)
      PROVE  Calm'
  <2>1. UNCHANGED <<queue, pending, skipped, lost, usurped, handled, arrivals, late>>
    BY <1>9 DEF Deduplicate, AcquireFails, Reject, ReadDepth, history
  <2>2. pc[d] \notin Holding
    BY <1>9 DEF Deduplicate, AcquireFails, Reject, ReadDepth, Holding
  <2>3. \E l : pc' = [pc EXCEPT ![d] = l]
    BY <1>9 DEF Deduplicate, AcquireFails, Reject, ReadDepth, Goto
  <2>4. QED
    BY <1>7, <2>1, <2>2, <2>3
<1>10. ASSUME NEW d \in Delivery, ForceRelease(d)
       PROVE  Calm'
  <2>1. Strategy = "drop"
    BY <1>10 DEF ForceRelease, DropQueuesNothing
  <2>2. UNCHANGED <<queue, pending, skipped, handled, arrivals, late>>
    BY <1>10 DEF ForceRelease
  <2>3. queue = <<>>
    BY <2>1 DEF DropQueuesNothing
  <2>4. Waiting' \subseteq Waiting \cup (ToSet(arrivals') \ ToSet(arrivals))
    BY <2>2 DEF Waiting, Hands
  <2>5. late \subseteq late' /\ ArrivalsGrow /\ ShownInOrder
    BY <2>2 DEF ArrivalsGrow, Calm
  <2>6. ShownInOrder'
    BY <2>2, <2>4, <2>5, NothingIsShown
  <2>7. QED
    BY <1>3, <2>1, <2>2, <2>3, <2>6, EmptySequence DEF Calm
<1>11. ASSUME NEW d \in Delivery, Acquire(d) \/ Reacquire(d)
       PROVE  Calm'
  <2>1. lock = NoOne /\ UNCHANGED <<queue, pending, skipped, lost, usurped, late>> /\ pc[d] \notin Holding
    BY <1>11 DEF Acquire, Reacquire, EnterHeldLock, Holding
  <2>2. \E l : pc' = [pc EXCEPT ![d] = l]
    BY <1>11 DEF Acquire, Reacquire, EnterHeldLock, Goto
  <2>3. CASE UNCHANGED <<handled, arrivals>>
    BY <1>7, <2>1, <2>2, <2>3
  <2>4. CASE Dispatch(d, d, <<>>, ThreadOf[d]) /\ arrivals' = Append(arrivals, d)
    <3>1. PICK call : call = [by |-> d, latest |-> d, older |-> <<>>, thread |-> ThreadOf[d]]
      OBVIOUS
    <3>2. /\ call \in HandlerCall /\ handled' = Append(handled, call)
          /\ call.latest = d /\ call.older = <<>>
      <4>1. <<>> \in Seq(Delivery)
        OBVIOUS
      <4>2. QED
        BY <2>4, <3>1, <4>1 DEF HandlerCall, Dispatch
    <3>3. OwnTask(d)
      BY <1>11 DEF Acquire, Reacquire, OwnTask, Arriving
    <3>4. d \notin ToSet(arrivals)
      BY <3>3 DEF PlacesInv, Ordered
    <3>5. ArrivalsGrow
      BY <2>4, <3>4 DEF ArrivalsGrow
    <3>6. d \in ToSet(arrivals')
      <4>1. arrivals \in Seq(Delivery) /\ \A i, j \in DOMAIN arrivals : arrivals[i] = arrivals[j] => i = j
        BY DEF PlacesInv, PlacesTypeOK, Ordered
      <4>2. ToSet(arrivals') = ToSet(arrivals) \cup {d}
        BY <2>4, <3>4, <4>1, RankGrows
      <4>3. QED
        BY <4>2
    <3>7. Shown(call) \subseteq Waiting \cup (ToSet(arrivals') \ ToSet(arrivals))
      <4>1. \A f \in Shown(call) : f = d
        BY <3>2, ShownIs, EmptySequence
      <4>2. QED
        BY <3>4, <3>6, <4>1
    <3>8. Waiting' = Waiting
      BY <2>1 DEF Waiting, Hands
    <3>9. Waiting \subseteq late
      BY <2>1, OneDrainer
    <3>10. ShownInOrder /\ late' = late
      BY <2>1 DEF Calm
    <3>11. ShownInOrder'
      <4>1. Waiting' \subseteq Waiting /\ Waiting' \subseteq late
        BY <3>8, <3>9
      <4>2. QED
        BY <3>2, <3>5, <3>7, <3>10, <4>1, CallIsShown
    <3>12. ToSet(queue') \subseteq late'
      BY <2>1, <3>8, <3>9 DEF Waiting
    <3>13. QED
      BY <1>3, <1>5, <2>1, <3>11, <3>12 DEF Calm
  <2>5. QED
    BY <1>11, <2>3, <2>4 DEF Acquire, Reacquire, EnterHeldLock
<1>12. ASSUME NEW d \in Delivery, EnqueueBehind(d) \/ EnqueueOwn(d)
       PROVE  Calm'
  <2>1. Push(d) /\ UNCHANGED <<pending, skipped, lost, usurped, handled>> /\ OwnTask(d)
    BY <1>12 DEF EnqueueBehind, EnqueueOwn, OwnTask, Arriving
  <2>2. ToSet(queue') \subseteq ToSet(queue) \cup {d}
    BY <1>1, <2>1, PushQueues
  <2>3. d \notin ToSet(arrivals) /\ arrivals' = Append(arrivals, d)
    BY <2>1 DEF Push, PlacesInv, Ordered
  <2>4. ArrivalsGrow
    BY <2>3 DEF ArrivalsGrow
  <2>5. d \in ToSet(arrivals')
    <3>1. arrivals \in Seq(Delivery) /\ \A i, j \in DOMAIN arrivals : arrivals[i] = arrivals[j] => i = j
      BY DEF PlacesInv, PlacesTypeOK, Ordered
    <3>2. ToSet(arrivals') = ToSet(arrivals) \cup {d}
      BY <2>3, <3>1, RankGrows
    <3>3. QED
      BY <3>2
  <2>6. Waiting' \subseteq Waiting \cup (ToSet(arrivals') \ ToSet(arrivals))
    BY <2>1, <2>2, <2>3, <2>5 DEF Waiting, Hands
  <2>7. late \subseteq late' /\ ShownInOrder
    BY <1>12 DEF EnqueueBehind, EnqueueOwn, Calm
  <2>8. ShownInOrder'
    BY <2>1, <2>4, <2>6, <2>7, NothingIsShown
  <2>9. Drainers' = {} => ToSet(queue') \subseteq late'
    <3>1. CASE EnqueueBehind(d)
      <4>1. pc[d] \notin Holding /\ pc' = [pc EXCEPT ![d] = "queued"]
            /\ late' = IF Drainers = {} THEN late \cup {d} ELSE late
        BY <3>1 DEF EnqueueBehind, Goto, Holding
      <4>2. Drainers \subseteq Drainers'
        BY <1>1, <1>3, <4>1 DEF Drainers
      <4>3. QED
        BY <2>2, <4>1, <4>2 DEF Calm
    <3>2. CASE EnqueueOwn(d)
      <4>1. pc' = [pc EXCEPT ![d] = "window"] /\ Strategy # "drop"
        BY <3>2 DEF EnqueueOwn, Goto, DropQueuesNothing
      <4>2. d \in Drainers'
        BY <1>1, <1>3, <4>1 DEF Drainers, Holding
      <4>3. QED
        BY <4>2
    <3>3. QED
      BY <1>12, <3>1, <3>2
  <2>10. QED
    BY <1>3, <1>5, <2>1, <2>8, <2>9 DEF Calm
<1>13. ASSUME NEW d \in Delivery, WindowEnds(d)
       PROVE  Calm'
  <2>1. Strategy # "drop"
    BY <1>13 DEF WindowEnds, DropQueuesNothing
  <2>2. UNCHANGED <<queue, pending, skipped, lost, usurped, handled, arrivals, late>>
    BY <1>5, <1>13, <2>1 DEF WindowEnds
  <2>3. pc' = [pc EXCEPT ![d] = "taking"] /\ "taking" \in Holding
    BY <1>5, <1>13, <2>1 DEF WindowEnds, Goto, LoopTop, Holding
  <2>4. QED
    BY <1>7, <2>2, <2>3
<1>14. ASSUME NEW d \in Delivery, TakeOne(d)
       PROVE  Calm'
  <2>1. /\ UNCHANGED <<pc, skipped, lost, usurped, handled, arrivals, late>>
        /\ queue # <<>> /\ queue' = Tail(queue)
        /\ pending' \in {pending, [pending EXCEPT ![d] = Append(@, Head(queue))]}
    BY <1>14 DEF TakeOne
  <2>2. PICK e : e = Head(queue)
    OBVIOUS
  <2>3. e \in Delivery /\ ToSet(queue) = ToSet(queue') \cup {e}
    <3>1. Sorted(queue, Rank) /\ Rank \in [Delivery -> Nat]
      BY RankTyped DEF PlacesInv, PlacesTypeOK, Ordered
    <3>2. QED
      BY <1>1, <2>1, <2>2, <3>1, HeadTaken
  <2>4. ASSUME NEW t \in Delivery
        PROVE  Hands(t)' \subseteq Hands(t) \cup ToSet(queue)
    <3>1. CASE pending'[t] = pending[t]
      BY <2>1, <3>1 DEF Hands
    <3>2. CASE pending'[t] = Append(pending[t], e)
      <4>1. pending[t] \in Seq(Delivery) /\ Rank \in [Delivery -> Nat] /\ e \in Delivery
        BY <1>1, <2>3, RankTyped DEF PlacesInv, PlacesTypeOK
      <4>2. ToSet(Append(pending[t], e)) = ToSet(pending[t]) \cup {e}
        BY <4>1, Appended
      <4>3. QED
        BY <2>1, <2>3, <3>2, <4>2 DEF Hands
    <3>3. QED
      BY <1>1, <2>1, <2>2, <3>1, <3>2
  <2>5. Drainers \subseteq Drainers'
    BY <1>3, <2>1 DEF Drainers
  <2>6. QED
    BY <1>6, <2>1, <2>3, <2>4, <2>5
<1>15. ASSUME NEW d \in Delivery, FindNothing(d)
       PROVE  Calm'
  <2>1. /\ UNCHANGED <<queue, pending, lost, usurped, handled, arrivals, late>> /\ queue = <<>>
        /\ skipped' = [skipped EXCEPT ![d] = <<>>]
    BY <1>15 DEF FindNothing
  <2>2. \A t \in Delivery : skipped'[t] \in {skipped[t], <<>>}
    BY <1>1, <2>1
  <2>3. \A t \in Delivery : Hands(t)' \subseteq Hands(t) \cup ToSet(queue)
    BY <2>1, <2>2, EmptySequence DEF Hands
  <2>4. QED
    BY <1>6, <2>1, <2>3
<1>16. ASSUME NEW d \in Delivery, DispatchCollected(d) \/ DispatchLatest(d)
       PROVE  Calm'
  <2>1. /\ queue = <<>> /\ pc' = [pc EXCEPT ![d] = "handling"] /\ pc[d] \in {"taking", "counting"}
        /\ UNCHANGED <<queue, lost, usurped, arrivals, late>> /\ pending[d] # <<>>
        /\ pending' = [pending EXCEPT ![d] = <<>>] /\ skipped' = [skipped EXCEPT ![d] = <<>>]
    BY <1>16 DEF DispatchCollected, DispatchLatest, DispatchBatch, Goto, PlacesInv, OnlyDebounceKeeps
  <2>2. Strategy # "drop" /\ lock = d
    BY <2>1, OneDrainer DEF DropQueuesNothing, Holding
  <2>3. \A t \in Delivery \ {d} : Hands(t) = {}
    BY <2>2, OneDrainer
  <2>4. Waiting' = {}
    <3>1. Hands(d)' = {}
      <4>1. pending'[d] = <<>> /\ skipped'[d] = <<>>
        BY <1>1, <2>1
      <4>2. QED
        BY <4>1, EmptySequence DEF Hands
    <3>2. \A t \in Delivery \ {d} : Hands(t)' = {}
      <4>1. \A t \in Delivery \ {d} : pending'[t] = pending[t] /\ skipped'[t] = skipped[t]
        BY <1>1, <2>1
      <4>2. QED
        BY <2>3, <4>1 DEF Hands
    <3>3. QED
      BY <2>1, <3>1, <3>2, EmptySequence DEF Waiting
  <2>5. ASSUME NEW older \in Seq(Delivery), NEW latest \in Delivery,
               DispatchBatch(d, older, latest), ToSet(older) \cup {latest} \subseteq Hands(d)
        PROVE  Calm'
    <3>1. PICK call : call = [by |-> d, latest |-> latest, older |-> older, thread |-> ThreadOf[latest]]
      OBVIOUS
    <3>2. call \in HandlerCall /\ handled' = Append(handled, call) /\ call.latest = latest /\ call.older = older
      BY <2>5, <3>1 DEF HandlerCall, Dispatch, DispatchBatch
    <3>3. Shown(call) \subseteq Waiting \cup (ToSet(arrivals') \ ToSet(arrivals))
      BY <2>5, <3>2, ShownIs DEF Waiting
    <3>4. ArrivalsGrow /\ ShownInOrder /\ late' = late
      BY <2>1 DEF ArrivalsGrow, Calm
    <3>5. ShownInOrder'
      <4>1. Waiting' \subseteq Waiting /\ Waiting' \subseteq late
        BY <2>4
      <4>2. QED
        BY <3>2, <3>3, <3>4, <4>1, CallIsShown
    <3>6. ToSet(queue') \subseteq late'
      BY <2>4 DEF Waiting
    <3>7. QED
      BY <1>3, <1>5, <2>1, <3>5, <3>6 DEF Calm
  <2>6. pending[d] \in Seq(Delivery) /\ skipped[d] \in Seq(Delivery) /\ Rank \in [Delivery -> Nat]
        /\ Sorted(pending[d], Rank)
    BY RankTyped DEF PlacesInv, PlacesTypeOK, Ordered
  <2>7. PICK front : front = Front(pending[d])
    OBVIOUS
  <2>8. PICK last : last = Last(pending[d])
    OBVIOUS
  <2>9. /\ last \in Delivery /\ front \in Seq(Delivery) /\ ToSet(pending[d]) = ToSet(front) \cup {last}
    BY <2>1, <2>6, <2>7, <2>8, LastTaken
  <2>10. CASE DispatchCollected(d)
    <3>1. DispatchBatch(d, front, last)
      BY <2>7, <2>8, <2>10 DEF DispatchCollected
    <3>2. ToSet(front) \cup {last} \subseteq Hands(d)
      BY <2>9 DEF Hands
    <3>3. QED
      BY <2>5, <2>9, <3>1, <3>2
  <2>11. CASE DispatchLatest(d)
    <3>1. PICK older : older = skipped[d] \o front
      OBVIOUS
    <3>2. DispatchBatch(d, older, last)
      BY <2>7, <2>8, <2>11, <3>1 DEF DispatchLatest
    <3>3. older \in Seq(Delivery) /\ ToSet(older) = ToSet(skipped[d]) \cup ToSet(front)
      <4>1. front \in Seq(Delivery) /\ skipped[d] \in Seq(Delivery) /\ Rank \in [Delivery -> Nat]
        BY <2>6, <2>9
      <4>2. QED
        BY <3>1, <4>1, Joined
    <3>4. ToSet(older) \cup {last} \subseteq Hands(d)
      BY <2>9, <3>3 DEF Hands
    <3>5. QED
      BY <2>5, <2>9, <3>2, <3>3, <3>4
  <2>12. QED
    BY <1>16, <2>10, <2>11
<1>17. ASSUME NEW d \in Delivery, StopCollecting(d)
       PROVE  Calm'
  <2>1. /\ UNCHANGED <<queue, pending, skipped, lost, usurped, handled, arrivals, late>>
        /\ pc' = [pc EXCEPT ![d] = "counting"] /\ "counting" \in Holding
    BY <1>17 DEF StopCollecting, Goto, Holding, history
  <2>2. QED
    BY <1>7, <2>1
<1>18. ASSUME NEW d \in Delivery, Superseded(d)
       PROVE  Calm'
  <2>1. /\ UNCHANGED <<queue, lost, usurped, handled, arrivals, late>>
        /\ pc' = [pc EXCEPT ![d] = "window"]
        /\ skipped' = [skipped EXCEPT ![d] = @ \o pending[d]] /\ pending' = [pending EXCEPT ![d] = <<>>]
    BY <1>18 DEF Superseded, Goto, history
  <2>2. Drainers \subseteq Drainers'
    BY <1>1, <1>3, <2>1 DEF Drainers, Holding
  <2>3. ASSUME NEW t \in Delivery
        PROVE  Hands(t)' \subseteq Hands(t) \cup ToSet(queue)
    <3>1. CASE t = d
      <4>1. skipped'[t] = skipped[t] \o pending[t] /\ pending'[t] = <<>>
        BY <1>1, <2>1, <3>1
      <4>2. ToSet(skipped[t] \o pending[t]) = ToSet(skipped[t]) \cup ToSet(pending[t])
        <5>1. skipped[t] \in Seq(Delivery) /\ pending[t] \in Seq(Delivery) /\ Rank \in [Delivery -> Nat]
          BY <1>1, RankTyped DEF PlacesInv, PlacesTypeOK
        <5>2. QED
          BY <5>1, Joined
      <4>3. QED
        BY <4>1, <4>2, EmptySequence DEF Hands
    <3>2. CASE t # d
      BY <1>1, <2>1, <3>2 DEF Hands
    <3>3. QED
      BY <3>1, <3>2
  <2>4. QED
    BY <1>6, <2>1, <2>2, <2>3
<1>19. ASSUME NEW d \in Delivery, HandlerReturns(d)
       PROVE  Calm'
  <2>1. UNCHANGED <<queue, pending, skipped, lost, usurped, handled, arrivals, late>>
    BY <1>19 DEF HandlerReturns, history
  <2>2. \E l : /\ pc' = [pc EXCEPT ![d] = l]
               /\ l \in Holding \/ Strategy = "drop"
    BY <1>5, <1>19 DEF HandlerReturns, LoopTop, Goto, Holding
  <2>3. QED
    BY <1>7, <2>1, <2>2
<1>20. ASSUME NEW d \in Delivery, Release(d)
       PROVE  Calm'
  <2>1. /\ UNCHANGED <<queue, pending, skipped, lost, usurped, handled, arrivals, late>>
        /\ pc' = [pc EXCEPT ![d] = "done"] /\ pc[d] \notin Holding
    BY <1>20 DEF Release, Goto, Holding, history
  <2>2. QED
    BY <1>7, <2>1
<1>21. ASSUME NEW d \in Delivery, UnwindHolder(d) \/ Vanish(d) \/ EntryExpires(d) \/ NoticeLoss(d)
       PROVE  Calm'
  <2>1. NoticeLoss(d) /\ lock # d
    BY <1>4, <1>21 DEF UnwindHolder, Vanish, EntryExpires, NoticeLoss
  <2>2. pc[d] \in Holding /\ UNCHANGED <<pc, queue, pending, skipped, usurped, handled, arrivals, late>>
    BY <2>1 DEF NoticeLoss, history
  <2>3. Strategy = "drop"
    BY <2>1, <2>2, OneDrainer
  <2>4. Drainers' = {} => ToSet(queue') \subseteq late'
    BY <1>3, <2>2, <2>3, EmptySequence DEF DropQueuesNothing
  <2>5. Waiting' \subseteq Waiting \cup (ToSet(arrivals') \ ToSet(arrivals))
    BY <2>2 DEF Waiting, Hands
  <2>6. late \subseteq late' /\ ArrivalsGrow /\ ShownInOrder
    BY <2>2 DEF ArrivalsGrow, Calm
  <2>7. ShownInOrder'
    BY <2>2, <2>5, <2>6, NothingIsShown
  <2>8. QED
    BY <1>3, <2>3, <2>4, <2>7 DEF Calm
<1>22. \A m \in keys : ~KeyExpires(m)
  BY <1>4 DEF KeyExpires
<1>23. ~LeaseLapses
  BY <1>4 DEF LeaseLapses
<1>24. CASE OrphanLapses \/ Finished \/ UNCHANGED vars
  BY <1>8, <1>24 DEF OrphanLapses, Finished, vars,
          taskVars, history
<1>25. QED
  BY <1>9, <1>10, <1>11, <1>12, <1>13, <1>14, <1>15, <1>16, <1>17, <1>18, <1>19, <1>20, <1>21, <1>22,
     <1>23, <1>24 DEF Next, TaskStep, FaultStep

\* Faults are never taken back.
LEMMA FaultsGrow == faults \in Nat /\ [Next]_vars => faults' \in Nat /\ (faults' = 0 => faults = 0)
<1> SUFFICES ASSUME faults \in Nat, [Next]_vars
             PROVE  faults' = faults \/ faults' = faults + 1
  OBVIOUS
<1>1. ASSUME NEW d \in Delivery, TaskStep(d)
      PROVE  faults' = faults
  <2>1. CASE Deduplicate(d) \/ Acquire(d) \/ AcquireFails(d) \/ Reject(d) \/ ForceRelease(d) \/ Reacquire(d)
    BY <2>1 DEF Deduplicate, Acquire, AcquireFails, Reject, ForceRelease, Reacquire, EnterHeldLock
  <2>2. CASE ReadDepth(d) \/ EnqueueBehind(d) \/ EnqueueOwn(d) \/ WindowEnds(d) \/ TakeOne(d) \/ FindNothing(d)
    BY <2>2 DEF ReadDepth, EnqueueBehind, EnqueueOwn, WindowEnds, TakeOne, FindNothing
  <2>3. CASE \/ DispatchCollected(d) \/ StopCollecting(d) \/ Superseded(d) \/ DispatchLatest(d)
             \/ HandlerReturns(d) \/ Release(d)
    BY <2>3 DEF DispatchCollected, StopCollecting, Superseded, DispatchLatest, HandlerReturns, Release
  <2>4. QED
    BY <1>1, <2>1, <2>2, <2>3 DEF TaskStep
<1>2. CASE FaultStep
  BY <1>2 DEF FaultStep, Fault, UnwindHolder, Vanish, NoticeLoss, EntryExpires, KeyExpires, LeaseLapses
<1>3. CASE OrphanLapses \/ Finished \/ UNCHANGED vars
  BY <1>3 DEF OrphanLapses, Finished, vars
<1>4. QED
  BY <1>1, <1>2, <1>3 DEF Next

\* The invariant of the places and that of the order show what they were made for.
LEMMA BatchesFollow == PlacesInv /\ OrderInv => BatchesAreProper
<1> SUFFICES ASSUME PlacesInv, OrderInv
             PROVE  BatchesAreProper
  OBVIOUS
<1>1. \A d \in ToSet(arrivals) : Rank[d] = Arrival(d)
  <2>1. ToSet(arrivals) \subseteq Delivery
    BY DEF PlacesInv, PlacesTypeOK, ToSet
  <2>2. QED
    BY <2>1 DEF Rank
<1>2. ASSUME NEW n \in DOMAIN handled
      PROVE  /\ ToSet(handled[n].older) \cup {handled[n].latest} \subseteq ToSet(arrivals)
             /\ Sorted(handled[n].older, Rank)
             /\ Before(ToSet(handled[n].older), {handled[n].latest}, Rank)
             /\ Shown(handled[n]) \subseteq ToSet(arrivals)
  BY HasArrived DEF PlacesInv, Ordered
<1>3. ASSUME faults = 0
      PROVE  DispatchedInOrder
  <2>1. ASSUME NEW i \in DOMAIN handled, NEW j \in ShownAt(handled[i])
        PROVE  LET older == handled[i].older
               IN  /\ \A k \in ShownAt(handled[i]) : j < k => Arrival(older[j]) < Arrival(older[k])
                   /\ Arrival(older[j]) < Arrival(handled[i].latest)
    <3>1. PICK older : older = handled[i].older
      OBVIOUS
    <3>2. ShownAt(handled[i]) \subseteq DOMAIN older
      BY <3>1 DEF ShownAt
    <3>3. \A k \in DOMAIN older : older[k] \in ToSet(arrivals)
      BY <1>2, <3>1 DEF ToSet
    <3>4. \A k \in DOMAIN older : Rank[older[k]] = Arrival(older[k])
      BY <1>1, <3>3
    <3>5. Rank[handled[i].latest] = Arrival(handled[i].latest)
      BY <1>1, <1>2
    <3>6. \A k \in DOMAIN older : j < k => Rank[older[j]] < Rank[older[k]]
      BY <1>2, <3>1, <3>2 DEF Sorted
    <3>7. Rank[older[j]] < Rank[handled[i].latest]
      BY <1>2, <3>1, <3>2 DEF Before, ToSet
    <3>8. QED
      BY <3>1, <3>2, <3>4, <3>5, <3>6, <3>7
  <2>2. ASSUME NEW i \in DOMAIN handled, NEW j \in DOMAIN handled, i < j,
               NEW d \in Shown(handled[i]), NEW e \in Shown(handled[j])
        PROVE  Arrival(d) < Arrival(e) \/ e \in late
    <3>1. Rank[d] < Rank[e] \/ e \in late
      BY <1>3, <2>2 DEF OrderInv, Calm, ShownInOrder, Newer
    <3>2. QED
      BY <1>1, <1>2, <3>1
  <2>3. QED
    BY <2>1, <2>2 DEF DispatchedInOrder
<1>4. OnlyLateEntriesWait
  BY DEF OnlyLateEntriesWait, OrderInv, Calm
<1>5. ThreadsAreIsolated
  <2>1. \A i \in DOMAIN handled : \A e \in Shown(handled[i]) : ThreadOf[e] = ThreadOf[handled[i].latest]
    BY ShownIs DEF PlacesInv, ForeignIsOlder
  <2>2. ASSUME NEW d \in Delivery, gone[d] = "foreign"
        PROVE  \E i \in DOMAIN handled : /\ ThreadOf[handled[i].latest] # ThreadOf[d]
                                         /\ Arrival(d) < Arrival(handled[i].latest)
    <3>1. d \in ToSet(arrivals)
      BY <2>2 DEF PlacesInv, ForeignIsOlder
    <3>2. PICK n \in DOMAIN handled : /\ ThreadOf[handled[n].latest] # ThreadOf[d]
                                      /\ Rank[d] < Rank[handled[n].latest]
      BY <2>2 DEF PlacesInv, ForeignIsOlder
    <3>3. QED
      BY <1>1, <1>2, <3>1, <3>2
  <2>3. QED
    BY <2>1, <2>2 DEF ThreadsAreIsolated
<1>6. QED
  BY <1>3, <1>4, <1>5 DEF BatchesAreProper, DispatchedInOrder

\* Without faults handlers see messages in the order they came in and only late
\* entries wait; with any number of them, threads are kept apart.
THEOREM BatchesStayProper == Spec => []BatchesAreProper
<1>1. Init => OrderInv
  BY OrderInitially
<1>2. /\ OrderInv /\ PlacesInv /\ PlacesInv' /\ HandlersHoldTheLock /\ [Next]_vars
      => OrderInv'
  <2> SUFFICES ASSUME OrderInv, PlacesInv, PlacesInv', HandlersHoldTheLock, [Next]_vars
               PROVE  OrderInv'
    OBVIOUS
  <2>1. HandsHold /\ DropQueuesNothing /\ HandsHold' /\ DropQueuesNothing'
    BY HandsStep DEF OrderInv
  <2>2. faults' \in Nat /\ (faults' = 0 => faults = 0)
    BY FaultsGrow DEF OrderInv
  <2>3. ASSUME faults' = 0
        PROVE  Calm'
    <3>1. faults = 0 /\ Calm
      BY <2>2, <2>3 DEF OrderInv
    <3>2. QED
      BY <2>1, <2>3, <3>1, CalmStep
  <2>4. QED
    BY <2>1, <2>2, <2>3 DEF OrderInv
<1>3. PlacesInv /\ OrderInv => BatchesAreProper
  BY BatchesFollow
<1>4. Spec => []PlacesInv
  BY MessagesHaveOnePlace
<1>5. Spec => []HandlersHoldTheLock
  BY HoldersHoldTheLock
<1>6. QED
  BY <1>1, <1>2, <1>3, <1>4, <1>5, PTL DEF Spec

-----------------------------------------------------------------------------
(* Webhooks: deliveries of one batch, with any number of failing calls.    *)
CONSTANTS
    WebDelivery,    \* the deliveries of one webhook
    NoWebDelivery,  \* where there is none
    WebFaults       \* bound on the failing calls

ASSUME RequestsAssumption == NoWebDelivery \notin WebDelivery /\ WebFaults \in Nat

VARIABLES
    web_route, web_setup, web_letter, web_batch, web_stage, web_item,
    web_answer, web_handed, web_marked, web_options, web_used, web_alone,
    web_inferred, web_excused, web_faults

Requests == INSTANCE Webhooks WITH
    Delivery <- WebDelivery, NoDelivery <- NoWebDelivery, MaxFaults <- WebFaults,
    route <- web_route, setup <- web_setup, letter <- web_letter, batch <- web_batch, stage
    <- web_stage, item <- web_item, answer <- web_answer, handed <- web_handed,
    marked <- web_marked, options <- web_options, used <- web_used, alone <-
    web_alone, inferred <- web_inferred, excused <- web_excused, faults <-
    web_faults

webVars == <<web_route, web_setup, web_letter, web_batch, web_stage, web_item,
    web_answer, web_handed, web_marked, web_options, web_used, web_alone,
    web_inferred, web_excused, web_faults>>

WebStatus == {200, 400, 401, 403, 405, 500, 503}
LastStages == {"dispatch", "each", "finish"}
StageKind(r, i) == Requests!Routes[r][i][1]

\* What the stages of a route have in common with those of the others.
StageInOrder(r, i) ==
    /\ Requests!Routes[r][i][2] \in WebStatus
    /\ i = Len(Requests!Routes[r]) <=> StageKind(r, i) \in LastStages /\ ~(r = "teams" /\ StageKind(r, i) = "dispatch")
    /\ Requests!Routes[r][i][2] = 200 => StageKind(r, i) \in LastStages \cup {"challenge", "seen", "workspace", "identity", "address"}
    /\ StageKind(r, i) \in LastStages \cup {"claim", "address"} =>
           \E j \in 1 .. i - 1 : StageKind(r, j) = "signature"
    /\ StageKind(r, i) = "challenge" => r \notin {"messenger", "whatsapp"}
    /\ StageKind(r, i) = "claim" => r = "telegram"
    /\ r = "telegram" => (StageKind(r, i) = "claim" <=> i = 4)
          /\ (StageKind(r, i) = "dispatch" <=> i = 5)
    /\ StageKind(r, i) = "seen" => r = "slack"
    /\ StageKind(r, i) = "each" => r = "whatsapp"
    /\ StageKind(r, i) = "dispatch" => r # "whatsapp"
    /\ StageKind(r, i) \in {"record", "finish"} => r = "teams"
    /\ r = "teams" => (StageKind(r, i) = "record" <=> i = 4)
          /\ (StageKind(r, i) = "dispatch" <=> i = 7)
                         /\ (StageKind(r, i) = "finish" <=> i = 8)

StagesOrdered(r) == Len(Requests!Routes[r]) \in 3 .. 8
      /\ \A i \in 1 .. Len(Requests!Routes[r]) : StageInOrder(r, i)

LEMMA RouteNames == DOMAIN Requests!Routes =
    {"slack", "slackForm", "slackForward", "messenger", "whatsapp", "twilio", "github", "linear",
     "gateway", "discord", "pubsub", "gchat", "teams", "telegram"}
BY DEF Requests!Routes

LEMMA StagesAreInOrder == \A r \in DOMAIN Requests!Routes : StagesOrdered(r)
<1>1. StagesOrdered("slack")
  <2>1. Requests!Routes["slack"] = Requests!Slack
    BY DEF Requests!Routes
  <2>2. /\ Len(Requests!Slack) = 8
        /\ Requests!Slack[1] = <<"mode", 405>> /\ Requests!Slack[2] = <<"signature", 401>>
        /\ Requests!Slack[3] = <<"challenge", 200>> /\ Requests!Slack[4] = <<"token", 500>>
        /\ Requests!Slack[5] = <<"parse", 400>> /\ Requests!Slack[6] = <<"seen", 200>>
        /\ Requests!Slack[7] = <<"workspace", 200>> /\ Requests!Slack[8] = <<"dispatch", 200>>
    BY DEF Requests!Slack
  <2>3. ASSUME NEW i \in 1 .. 8 PROVE StageInOrder("slack", i)
    BY <2>1, <2>2 DEF StageInOrder, StageKind, WebStatus, LastStages
  <2>4. QED
    BY <2>1, <2>2, <2>3 DEF StagesOrdered
<1>2. StagesOrdered("slackForm")
  <2>1. Requests!Routes["slackForm"] = Requests!SlackForm
    BY DEF Requests!Routes
  <2>2. /\ Len(Requests!SlackForm) = 6
        /\ Requests!SlackForm[1] = <<"mode", 405>> /\ Requests!SlackForm[2] = <<"signature", 401>>
        /\ Requests!SlackForm[3] = <<"token", 500>> /\ Requests!SlackForm[4] = <<"workspace", 200>>
        /\ Requests!SlackForm[5] = <<"parse", 400>> /\ Requests!SlackForm[6] = <<"dispatch", 200>>
    BY DEF Requests!SlackForm
  <2>3. ASSUME NEW i \in 1 .. 6 PROVE StageInOrder("slackForm", i)
    BY <2>1, <2>2 DEF StageInOrder, StageKind, WebStatus, LastStages
  <2>4. QED
    BY <2>1, <2>2, <2>3 DEF StagesOrdered
<1>3. StagesOrdered("slackForward")
  <2>1. Requests!Routes["slackForward"] = Requests!SlackForward
    BY DEF Requests!Routes
  <2>2. /\ Len(Requests!SlackForward) = 5
        /\ Requests!SlackForward[1] = <<"signature", 401>>
        /\ Requests!SlackForward[2] = <<"parse", 400>>
        /\ Requests!SlackForward[3] = <<"fresh", 401>>
        /\ Requests!SlackForward[4] = <<"workspace", 200>>
        /\ Requests!SlackForward[5] = <<"dispatch", 200>>
    BY DEF Requests!SlackForward
  <2>3. ASSUME NEW i \in 1 .. 5 PROVE StageInOrder("slackForward", i)
    BY <2>1, <2>2 DEF StageInOrder, StageKind, WebStatus, LastStages
  <2>4. QED
    BY <2>1, <2>2, <2>3 DEF StagesOrdered
<1>4. StagesOrdered("messenger")
  <2>1. Requests!Routes["messenger"] = Requests!Messenger
    BY DEF Requests!Routes
  <2>2. /\ Len(Requests!Messenger) = 3
        /\ Requests!Messenger[1] = <<"signature", 403>> /\ Requests!Messenger[2] = <<"parse", 400>>
        /\ Requests!Messenger[3] = <<"dispatch", 200>>
    BY DEF Requests!Messenger
  <2>3. ASSUME NEW i \in 1 .. 3 PROVE StageInOrder("messenger", i)
    BY <2>1, <2>2 DEF StageInOrder, StageKind, WebStatus, LastStages
  <2>4. QED
    BY <2>1, <2>2, <2>3 DEF StagesOrdered
<1>5. StagesOrdered("whatsapp")
  <2>1. Requests!Routes["whatsapp"] = Requests!WhatsApp
    BY DEF Requests!Routes
  <2>2. /\ Len(Requests!WhatsApp) = 3
        /\ Requests!WhatsApp[1] = <<"signature", 401>> /\ Requests!WhatsApp[2] = <<"parse", 400>>
        /\ Requests!WhatsApp[3] = <<"each", 200>>
    BY DEF Requests!WhatsApp
  <2>3. ASSUME NEW i \in 1 .. 3 PROVE StageInOrder("whatsapp", i)
    BY <2>1, <2>2 DEF StageInOrder, StageKind, WebStatus, LastStages
  <2>4. QED
    BY <2>1, <2>2, <2>3 DEF StagesOrdered
<1>6. StagesOrdered("twilio")
  <2>1. Requests!Routes["twilio"] = Requests!Twilio
    BY DEF Requests!Routes
  <2>2. /\ Len(Requests!Twilio) = 3
        /\ Requests!Twilio[1] = <<"signature", 401>> /\ Requests!Twilio[2] = <<"parse", 400>>
        /\ Requests!Twilio[3] = <<"dispatch", 200>>
    BY DEF Requests!Twilio
  <2>3. ASSUME NEW i \in 1 .. 3 PROVE StageInOrder("twilio", i)
    BY <2>1, <2>2 DEF StageInOrder, StageKind, WebStatus, LastStages
  <2>4. QED
    BY <2>1, <2>2, <2>3 DEF StagesOrdered
<1>7. StagesOrdered("github")
  <2>1. Requests!Routes["github"] = Requests!GitHub
    BY DEF Requests!Routes
  <2>2. /\ Len(Requests!GitHub) = 6
        /\ Requests!GitHub[1] = <<"signature", 401>> /\ Requests!GitHub[2] = <<"challenge", 200>>
        /\ Requests!GitHub[3] = <<"parse", 400>> /\ Requests!GitHub[4] = <<"installation", 500>>
        /\ Requests!GitHub[5] = <<"identity", 200>> /\ Requests!GitHub[6] = <<"dispatch", 200>>
    BY DEF Requests!GitHub
  <2>3. ASSUME NEW i \in 1 .. 6 PROVE StageInOrder("github", i)
    BY <2>1, <2>2 DEF StageInOrder, StageKind, WebStatus, LastStages
  <2>4. QED
    BY <2>1, <2>2, <2>3 DEF StagesOrdered
<1>8. StagesOrdered("linear")
  <2>1. Requests!Routes["linear"] = Requests!Linear
    BY DEF Requests!Routes
  <2>2. /\ Len(Requests!Linear) = 4
        /\ Requests!Linear[1] = <<"signature", 401>> /\ Requests!Linear[2] = <<"parse", 400>>
        /\ Requests!Linear[3] = <<"fresh", 401>> /\ Requests!Linear[4] = <<"dispatch", 200>>
    BY DEF Requests!Linear
  <2>3. ASSUME NEW i \in 1 .. 4 PROVE StageInOrder("linear", i)
    BY <2>1, <2>2 DEF StageInOrder, StageKind, WebStatus, LastStages
  <2>4. QED
    BY <2>1, <2>2, <2>3 DEF StagesOrdered
<1>9. StagesOrdered("gateway")
  <2>1. Requests!Routes["gateway"] = Requests!Gateway
    BY DEF Requests!Routes
  <2>2. /\ Len(Requests!Gateway) = 3
        /\ Requests!Gateway[1] = <<"signature", 401>> /\ Requests!Gateway[2] = <<"parse", 400>>
        /\ Requests!Gateway[3] = <<"dispatch", 200>>
    BY DEF Requests!Gateway
  <2>3. ASSUME NEW i \in 1 .. 3 PROVE StageInOrder("gateway", i)
    BY <2>1, <2>2 DEF StageInOrder, StageKind, WebStatus, LastStages
  <2>4. QED
    BY <2>1, <2>2, <2>3 DEF StagesOrdered
<1>10. StagesOrdered("discord")
  <2>1. Requests!Routes["discord"] = Requests!Discord
    BY DEF Requests!Routes
  <2>2. /\ Len(Requests!Discord) = 4
        /\ Requests!Discord[1] = <<"signature", 401>> /\ Requests!Discord[2] = <<"parse", 400>>
        /\ Requests!Discord[3] = <<"challenge", 200>> /\ Requests!Discord[4] = <<"dispatch", 200>>
    BY DEF Requests!Discord
  <2>3. ASSUME NEW i \in 1 .. 4 PROVE StageInOrder("discord", i)
    BY <2>1, <2>2 DEF StageInOrder, StageKind, WebStatus, LastStages
  <2>4. QED
    BY <2>1, <2>2, <2>3 DEF StagesOrdered
<1>11. StagesOrdered("pubsub")
  <2>1. Requests!Routes["pubsub"] = Requests!PubSub
    BY DEF Requests!Routes
  <2>2. /\ Len(Requests!PubSub) = 3
        /\ Requests!PubSub[1] = <<"parse", 400>> /\ Requests!PubSub[2] = <<"signature", 401>>
        /\ Requests!PubSub[3] = <<"dispatch", 200>>
    BY DEF Requests!PubSub
  <2>3. ASSUME NEW i \in 1 .. 3 PROVE StageInOrder("pubsub", i)
    BY <2>1, <2>2 DEF StageInOrder, StageKind, WebStatus, LastStages
  <2>4. QED
    BY <2>1, <2>2, <2>3 DEF StagesOrdered
<1>12. StagesOrdered("gchat")
  <2>1. Requests!Routes["gchat"] = Requests!GoogleChat
    BY DEF Requests!Routes
  <2>2. /\ Len(Requests!GoogleChat) = 4
        /\ Requests!GoogleChat[1] = <<"parse", 400>>
        /\ Requests!GoogleChat[2] = <<"signature", 401>>
        /\ Requests!GoogleChat[3] = <<"address", 200>>
        /\ Requests!GoogleChat[4] = <<"dispatch", 200>>
    BY DEF Requests!GoogleChat
  <2>3. ASSUME NEW i \in 1 .. 4 PROVE StageInOrder("gchat", i)
    BY <2>1, <2>2 DEF StageInOrder, StageKind, WebStatus, LastStages
  <2>4. QED
    BY <2>1, <2>2, <2>3 DEF StagesOrdered
<1>13. StagesOrdered("teams")
  <2>1. Requests!Routes["teams"] = Requests!Teams
    BY DEF Requests!Routes
  <2>2. /\ Len(Requests!Teams) = 8
        /\ Requests!Teams[1] = <<"parse", 400>> /\ Requests!Teams[2] = <<"registered", 500>>
        /\ Requests!Teams[3] = <<"issuer", 401>> /\ Requests!Teams[4] = <<"record", 401>>
        /\ Requests!Teams[5] = <<"signature", 401>> /\ Requests!Teams[6] = <<"context", 500>>
        /\ Requests!Teams[7] = <<"dispatch", 200>> /\ Requests!Teams[8] = <<"finish", 200>>
    BY DEF Requests!Teams
  <2>3. ASSUME NEW i \in 1 .. 8 PROVE StageInOrder("teams", i)
    BY <2>1, <2>2 DEF StageInOrder, StageKind, WebStatus, LastStages
  <2>4. QED
    BY <2>1, <2>2, <2>3 DEF StagesOrdered
<1>14. StagesOrdered("telegram")
  <2>1. Requests!Routes["telegram"] = Requests!Telegram
    BY DEF Requests!Routes
  <2>2. /\ Len(Requests!Telegram) = 5
        /\ Requests!Telegram[1] = <<"signature", 401>> /\ Requests!Telegram[2] = <<"parse", 400>>
        /\ Requests!Telegram[3] = <<"scope", 503>> /\ Requests!Telegram[4] = <<"claim", 503>>
        /\ Requests!Telegram[5] = <<"dispatch", 200>>
    BY DEF Requests!Telegram
  <2>3. ASSUME NEW i \in 1 .. 5 PROVE StageInOrder("telegram", i)
    BY <2>1, <2>2 DEF StageInOrder, StageKind, WebStatus, LastStages
  <2>4. QED
    BY <2>1, <2>2, <2>3 DEF StagesOrdered
<1>15. QED
  BY <1>1, <1>2, <1>3, <1>4, <1>5, <1>6, <1>7, <1>8, <1>9, <1>10, <1>11, <1>12, <1>13,
  <1>14, RouteNames

BatchEvents == {"good", "bad", "other", "ping"}

\* What a behaviour does not change.
GivenTypes ==
    /\ web_route \in DOMAIN Requests!Routes
    /\ web_letter \in [WebDelivery -> [genuine : BOOLEAN, whole : BOOLEAN, fresh : BOOLEAN]]
    /\ web_batch \in Seq(BatchEvents) /\ Len(web_batch) \in {1, 2}
    /\ Len(web_batch) = 2 => web_route \in {"messenger", "whatsapp"}

StageTypes ==
    /\ web_stage \in [WebDelivery -> 0 .. 8]
    /\ web_answer \in [WebDelivery -> {0} \cup WebStatus]
    /\ \A d \in WebDelivery : web_stage[d] <= Len(Requests!Routes[web_route])
    /\ \A d \in WebDelivery : web_stage[d] = 0 => web_answer[d] = 0

HistoryTypes ==
    /\ web_item \in [WebDelivery -> Nat \ {0}]
    /\ web_handed \subseteq [by : WebDelivery, event : DOMAIN web_batch]
    /\ web_marked \in WebDelivery \cup {NoWebDelivery}
    /\ web_options \in WebDelivery \cup {NoWebDelivery}
    /\ web_inferred \in WebDelivery \cup {NoWebDelivery}
    /\ web_used \in [WebDelivery -> WebDelivery \cup {NoWebDelivery}]
    /\ web_alone \subseteq WebDelivery
    /\ web_excused \subseteq DOMAIN web_batch
    /\ web_faults \in 0 .. WebFaults

\* Nobody is past a route's signature without one.
SignedFirst ==
    \A d \in WebDelivery : \A j \in 1 .. 8 :
        j < web_stage[d] /\ StageKind(web_route, j) = "signature" => Requests!Trusted(d)

EventGiven(i) == i \in web_excused \/ \E h \in web_handed : h.event = i
AllEventsGiven == \A i \in DOMAIN web_batch : web_batch[i] = "good" => EventGiven(i)

\* Telegram's claim is held by who is at the dispatch, or all is handed over.
ClaimIsKept ==
    web_route = "telegram" =>
        /\ \A d \in WebDelivery : web_stage[d] = 5 => web_marked = d
        /\ \A h \in web_handed : h.by = web_marked
        /\ web_marked \in WebDelivery => AllEventsGiven \/ (web_stage[web_marked] = 5
                                                              /\ web_answer[web_marked] = 0)

\* Where a delivery is in its batch, and what it means to be past it.
EventsGivenInTime ==
    /\ \A d \in WebDelivery : web_answer[d] = 200 /\ web_setup.known
          /\ web_route # "telegram" => AllEventsGiven
    /\ \A d \in WebDelivery : web_answer[d] = 200 /\ web_setup.known
          /\ web_route = "telegram" => AllEventsGiven \/ web_marked \in WebDelivery
    /\ web_route = "slack" /\ web_marked \in WebDelivery => AllEventsGiven
    /\ web_route = "teams" => \A d \in WebDelivery : web_stage[d] = 8 => AllEventsGiven
    /\ \A d \in WebDelivery : \A i \in DOMAIN web_batch : i < web_item[d]
          /\ web_batch[i] = "good" => EventGiven(i)

\* The bridge holds the options of a delivery that is in it, and of one that has met
\* no other its own.
BridgeHolds ==
    /\ web_route # "teams" => web_options = NoWebDelivery /\ web_alone = {}
    /\ web_options \in WebDelivery => Requests!Running(web_options) /\ web_stage[web_options] > 4
    /\ \A d \in web_alone : web_stage[d] > 4 /\ web_used[d] = d /\ (Requests!Running(d) =>
                                                                      web_options = d)
    /\ \A d \in WebDelivery : web_stage[d] < 5 => web_used[d] = d

WebInv ==
    /\ GivenTypes /\ StageTypes /\ HistoryTypes /\ SignedFirst /\ ClaimIsKept
    /\ EventsGivenInTime /\ BridgeHolds
    /\ Requests!RefusedLeavesNoTrace

\* The stage at which a delivery is.
LEMMA StageKnown ==
    ASSUME GivenTypes, StageTypes, NEW d \in WebDelivery, Requests!Running(d)
    PROVE  /\ web_stage[d] \in 1 .. Len(Requests!Routes[web_route])
           /\ Len(Requests!Routes[web_route]) \in 3 .. 8
           /\ StageInOrder(web_route, web_stage[d])
           /\ Requests!At(d) = StageKind(web_route, web_stage[d])
           /\ Requests!Code(d) = Requests!Routes[web_route][web_stage[d]][2]
<1>1. StagesOrdered(web_route)
  BY StagesAreInOrder DEF GivenTypes
<1>2. Len(Requests!Routes[web_route]) \in 3 .. 8 /\ web_stage[d] \in 0 .. 8
          /\ web_stage[d] <= Len(Requests!Routes[web_route])
  BY <1>1 DEF StagesOrdered, StageTypes
<1>3. web_stage[d] \in 1 .. Len(Requests!Routes[web_route])
  BY <1>2 DEF Requests!Running
<1>4. QED
  BY <1>1, <1>2, <1>3 DEF StagesOrdered, Requests!At, Requests!Code, StageKind

\* Whoever hands an event over, takes a claim or teaches the adapter has a signature.
LEMMA IsSigned ==
    ASSUME GivenTypes, StageTypes, SignedFirst, NEW d \in WebDelivery, Requests!Running(d),
           Requests!At(d) \in LastStages \cup {"claim", "address"}
    PROVE  Requests!Trusted(d)
<1>1. /\ web_stage[d] \in 1 .. Len(Requests!Routes[web_route])
      /\ Len(Requests!Routes[web_route]) \in 3 .. 8
      /\ StageInOrder(web_route, web_stage[d])
      /\ Requests!At(d) = StageKind(web_route, web_stage[d])
  BY StageKnown
<1>2. PICK j \in 1 .. web_stage[d] - 1 : StageKind(web_route, j) = "signature"
  BY <1>1 DEF StageInOrder
<1>3. j \in 1 .. 8 /\ j < web_stage[d]
  <2>1. \A n \in 3 .. 8 : \A k \in 1 .. n : \A i \in 1 .. k - 1 : i \in 1 .. 8 /\ i < k
    OBVIOUS
  <2>2. QED
    BY <1>1, <2>1
<1>4. QED
  BY <1>2, <1>3 DEF SignedFirst

\* A delivery that goes on, and one that is answered.
LEMMA GoesOn ==
    ASSUME GivenTypes, StageTypes, SignedFirst, NEW d \in WebDelivery, Requests!Running(d),
          UNCHANGED Requests!Kept,
           web_stage' = [web_stage EXCEPT ![d] = @ + 1], UNCHANGED web_answer,
           Requests!At(d) \in LastStages => web_route = "teams" /\ Requests!At(d) = "dispatch",
           Requests!At(d) = "signature" => Requests!Trusted(d)
    PROVE  StageTypes' /\ SignedFirst'
<1>1. /\ web_stage[d] \in 1 .. Len(Requests!Routes[web_route])
      /\ Len(Requests!Routes[web_route]) \in 3 .. 8
      /\ StageInOrder(web_route, web_stage[d])
      /\ Requests!At(d) = StageKind(web_route, web_stage[d])
  BY StageKnown
<1>2. web_stage[d] # Len(Requests!Routes[web_route])
  BY <1>1 DEF StageInOrder, LastStages
<1>3. StageTypes'
  <2>1. web_stage \in [WebDelivery -> 0 .. 8] /\ web_stage[d] + 1 \in 0 .. 8
            /\ web_route' = web_route
    <3>1. web_stage \in [WebDelivery -> 0 .. 8] /\ web_stage[d] <= Len(Requests!Routes[web_route])
      BY DEF StageTypes
    <3>2. web_stage[d] + 1 \in 0 .. 8
      <4>1. \A n \in 3 .. 8 : \A k \in 1 .. n : k # n => k + 1 \in 0 .. 8
        OBVIOUS
      <4>2. QED
        BY <1>1, <1>2, <4>1
    <3>3. web_route' = web_route
      BY DEF Requests!Kept
    <3>4. QED
      BY <3>1, <3>2, <3>3
  <2>2. web_stage' \in [WebDelivery -> 0 .. 8]
            /\ web_answer' \in [WebDelivery -> {0} \cup WebStatus]
    BY <2>1 DEF StageTypes
  <2>3. \A e \in WebDelivery : web_stage'[e] <= Len(Requests!Routes[web_route])
    BY <1>1, <1>2, <2>1 DEF StageTypes
  <2>4. \A e \in WebDelivery : web_stage'[e] = 0 => web_answer[e] = 0
    BY <1>1, <2>1 DEF StageTypes
  <2>5. QED
    BY <2>1, <2>2, <2>3, <2>4 DEF StageTypes
<1>4. ASSUME NEW e \in WebDelivery, NEW j \in 1 .. 8, j < web_stage'[e], StageKind(web_route, j) = "signature"
      PROVE  Requests!Trusted(e)
  <2>1. CASE e = d /\ j = web_stage[d]
    BY <1>1, <1>4, <2>1
  <2>2. CASE ~(e = d /\ j = web_stage[d])
    <3>1. j < web_stage[e]
      BY <1>1, <1>4, <2>2 DEF StageTypes
    <3>2. QED
      BY <1>4, <3>1 DEF SignedFirst
  <2>3. QED
    BY <2>1, <2>2
<1>5. SignedFirst'
  BY <1>4 DEF SignedFirst, Requests!Kept, StageKind, Requests!Trusted
<1>6. QED
  BY <1>3, <1>5

LEMMA IsAnswered ==
    ASSUME GivenTypes, StageTypes, SignedFirst, NEW d \in WebDelivery, Requests!Running(d),
          UNCHANGED Requests!Kept,
           NEW c \in WebStatus, Requests!Answer(d, c)
    PROVE  StageTypes' /\ SignedFirst'
<1>1. web_answer' = [web_answer EXCEPT ![d] = c] /\ UNCHANGED web_stage
          /\ UNCHANGED <<web_route, web_setup, web_letter>>
  BY DEF Requests!Answer, Requests!Kept
<1>2. StageTypes'
  BY <1>1 DEF StageTypes, Requests!Running
<1>3. SignedFirst'
  BY <1>1 DEF SignedFirst, Requests!Trusted, StageKind
<1>4. QED
  BY <1>2, <1>3

\* The bridge of Teams, whoever goes on or is answered.
LEMMA BridgeGoesOn ==
    ASSUME StageTypes, HistoryTypes, BridgeHolds, NEW d \in WebDelivery,
           UNCHANGED <<web_route, web_options, web_alone>>,
                 \A e \in WebDelivery : e \in web_alone \/ web_stage[e] < 5 =>
                       web_used'[e] = web_used[e],
           \/ web_stage' = [web_stage EXCEPT ![d] = @ + 1]
           \/ UNCHANGED web_stage,
           UNCHANGED web_answer
    PROVE  BridgeHolds'
<1>1. \A e \in WebDelivery : web_stage'[e] >= web_stage[e] /\ web_stage[e] \in Int
          /\ web_stage'[e] \in Int
  BY DEF StageTypes
<1>2. \A e \in WebDelivery : web_stage[e] > 4 => (Requests!Running(e)' <=> Requests!Running(e))
  BY <1>1 DEF Requests!Running
<1>3. QED
  BY <1>1, <1>2 DEF BridgeHolds, HistoryTypes

LEMMA BridgeForgets ==
    ASSUME StageTypes, HistoryTypes, BridgeHolds, NEW d \in WebDelivery, Requests!Running(d),
           UNCHANGED web_route, \A e \in WebDelivery : e \in web_alone \/ web_stage[e] < 5 =>
                 web_used'[e] = web_used[e], NEW c \in WebStatus, Requests!Answer(d, c)
    PROVE  BridgeHolds' /\ web_options' \in WebDelivery \cup {NoWebDelivery}
          /\ web_alone' \subseteq WebDelivery
<1>0. web_answer' = [web_answer EXCEPT ![d] = c] /\ UNCHANGED web_stage /\ c # 0
  BY DEF Requests!Answer, WebStatus
<1>1. \A e \in WebDelivery : e # d => (Requests!Running(e)' <=> Requests!Running(e))
  BY <1>0 DEF Requests!Running, StageTypes
<1>1a. ~Requests!Running(d)'
  BY <1>0 DEF Requests!Running, StageTypes
<1>2. CASE Requests!Recorded(d)
  <2>1. /\ web_options' = NoWebDelivery
        /\ web_alone' = IF web_options = d THEN web_alone ELSE web_alone \ {web_options}
    BY <1>2 DEF Requests!Answer, Requests!Forget
  <2>2. ASSUME NEW e \in web_alone' PROVE web_stage[e] > 4 /\ web_used'[e] = e
            /\ ~Requests!Running(e)'
    <3>1. e \in web_alone /\ (web_options # d => e # web_options)
      BY <2>1, <2>2
    <3>2. web_stage[e] > 4 /\ web_used[e] = e /\ (Requests!Running(e) => web_options = e)
      BY <3>1 DEF BridgeHolds
    <3>3. ~Requests!Running(e)' /\ e \in WebDelivery
      BY <1>1, <1>1a, <3>1, <3>2 DEF HistoryTypes
    <3>4. web_used'[e] = web_used[e]
      BY <3>1, <3>3
    <3>5. QED
      BY <3>2, <3>3, <3>4
  <2>3. QED
    BY <1>0, <1>2, <2>1, <2>2, RequestsAssumption DEF BridgeHolds, HistoryTypes,
    Requests!Recorded, RequestsAssumption
<1>3. CASE ~Requests!Recorded(d)
  <2>1. UNCHANGED <<web_options, web_alone>>
    BY <1>3 DEF Requests!Answer, Requests!Forget
  <2>2. web_options # d
    BY <1>3, RequestsAssumption DEF BridgeHolds, Requests!Recorded,
    HistoryTypes, RequestsAssumption
  <2>3. d \notin web_alone
    BY <1>3 DEF BridgeHolds, Requests!Recorded, HistoryTypes
  <2>4. QED
    BY <1>0, <1>1, <2>1, <2>2, <2>3 DEF BridgeHolds, HistoryTypes
<1>4. QED
  BY <1>2, <1>3

LEMMA WebInit == Requests!Init => WebInv
<1> SUFFICES ASSUME Requests!Init PROVE WebInv
  OBVIOUS
<1>1. /\ web_stage = [d \in WebDelivery |-> 0] /\ web_item = [d \in WebDelivery |-> 1]
      /\ web_answer = [d \in WebDelivery |-> 0] /\ web_used = [d \in WebDelivery |-> d]
      /\ web_handed = {} /\ web_marked = NoWebDelivery /\ web_options = NoWebDelivery
      /\ web_alone = {}
      /\ web_inferred = NoWebDelivery /\ web_excused = {} /\ web_faults = 0
      /\ web_route \in DOMAIN Requests!Routes
  BY DEF Requests!Init
<1>2. web_letter \in [WebDelivery -> [genuine : BOOLEAN, whole : BOOLEAN, fresh : BOOLEAN]]
  BY DEF Requests!Init, Requests!Letters
<1>3. web_batch \in Seq(BatchEvents) /\ Len(web_batch) \in {1, 2} /\ (Len(web_batch) = 2 => web_route \in {"messenger", "whatsapp"})
  <2>1. web_batch \in Requests!BatchesOf(web_route)
            /\ DOMAIN Requests!Batches = {"messenger", "whatsapp"}
    BY DEF Requests!Init, Requests!Batches
  <2>2. CASE web_route \in DOMAIN Requests!Batches
    <3>1. web_batch \in {<<a, b>> : a, b \in {"good", "bad", "other"}}
      BY <2>1, <2>2 DEF Requests!BatchesOf, Requests!Batches
    <3>2. PICK a \in BatchEvents, b \in BatchEvents : web_batch = <<a, b>>
      BY <3>1 DEF BatchEvents
    <3>3. QED
      BY <2>1, <2>2, <3>2
  <2>3. CASE web_route \notin DOMAIN Requests!Batches
    <3>1. PICK a \in BatchEvents : web_batch = <<a>>
      BY <2>1, <2>3 DEF Requests!BatchesOf, BatchEvents
    <3>2. QED
      BY <3>1
  <2>4. QED
    BY <2>2, <2>3
<1>4. GivenTypes /\ StageTypes /\ HistoryTypes
  <2>1. Len(Requests!Routes[web_route]) \in 3 .. 8
    BY <1>1, StagesAreInOrder DEF StagesOrdered
  <2>2. GivenTypes /\ StageTypes
    BY <1>1, <1>2, <1>3, <2>1 DEF GivenTypes, StageTypes
  <2>3. HistoryTypes
    BY <1>1, RequestsAssumption DEF HistoryTypes, RequestsAssumption
  <2>4. QED
    BY <2>2, <2>3
<1>5. SignedFirst /\ ClaimIsKept /\ EventsGivenInTime /\ BridgeHolds
          /\ Requests!RefusedLeavesNoTrace
  BY <1>1, <1>3, RequestsAssumption DEF SignedFirst, ClaimIsKept,
  EventsGivenInTime, BridgeHolds,
     Requests!RefusedLeavesNoTrace, RequestsAssumption
<1>6. QED
  BY <1>4, <1>5 DEF WebInv

\* A check, a question or a look that changes nothing but where the delivery is.
QuietDelivery == UNCHANGED <<Requests!Kept, web_item, web_handed, web_marked, web_used,
                              web_excused>>

LEMMA QuietlyOn ==
    ASSUME WebInv, NEW d \in WebDelivery, Requests!Running(d), Requests!GoOn(d), QuietDelivery,
           Requests!At(d) \notin LastStages \cup {"claim"},
           Requests!At(d) = "signature" => Requests!Trusted(d),
           web_inferred' = web_inferred \/ (web_inferred' = d /\ Requests!Trusted(d)),
           web_faults' \in 0 .. WebFaults
    PROVE  WebInv'
<1>0. /\ GivenTypes /\ StageTypes /\ HistoryTypes /\ SignedFirst /\ ClaimIsKept /\ EventsGivenInTime
      /\ BridgeHolds /\ Requests!RefusedLeavesNoTrace
  BY DEF WebInv
<1>1. /\ web_stage[d] \in 1 .. Len(Requests!Routes[web_route])
      /\ Len(Requests!Routes[web_route]) \in 3 .. 8
      /\ StageInOrder(web_route, web_stage[d])
      /\ Requests!At(d) = StageKind(web_route, web_stage[d])
  BY <1>0, StageKnown
<1>2. /\ web_stage' = [web_stage EXCEPT ![d] = @ + 1]
      /\ UNCHANGED <<web_answer, web_options, web_alone>>
      /\ UNCHANGED <<web_route, web_setup, web_letter, web_batch, web_item, web_handed,
                      web_marked, web_used, web_excused>>
  BY DEF Requests!GoOn, QuietDelivery, Requests!Kept
<1>3. StageTypes' /\ SignedFirst'
  BY <1>0, <1>2, GoesOn DEF Requests!Kept
<1>4. GivenTypes' /\ HistoryTypes'
  BY <1>0, <1>2 DEF GivenTypes, HistoryTypes
<1>5. BridgeHolds'
  BY <1>0, <1>2, BridgeGoesOn
<1>6. AllEventsGiven' <=> AllEventsGiven
  BY <1>2 DEF AllEventsGiven, EventGiven
<1>7. ClaimIsKept'
  <2>1. SUFFICES ASSUME web_route = "telegram" PROVE ClaimIsKept'
    BY <1>2 DEF ClaimIsKept
  <2>2. web_stage[d] \notin {4, 5}
    BY <1>1, <2>1 DEF StageInOrder, LastStages
  <2>3. \A e \in WebDelivery : web_stage'[e] = 5 <=> web_stage[e] = 5
    BY <1>1, <1>2, <2>2, <1>0 DEF StageTypes
  <2>4. QED
    BY <1>0, <1>2, <1>6, <2>1, <2>3 DEF ClaimIsKept
<1>8. EventsGivenInTime'
  <2>1. web_route = "teams" => web_stage[d] # 7
    BY <1>1 DEF StageInOrder, LastStages
  <2>2. web_route = "teams" => \A e \in WebDelivery : web_stage'[e] = 8 => web_stage[e] = 8
    BY <1>0, <1>1, <1>2, <2>1 DEF StageTypes
  <2>3. QED
    BY <1>0, <1>2, <1>6, <2>2 DEF EventsGivenInTime, EventGiven
<1>9. Requests!RefusedLeavesNoTrace'
  BY <1>0, <1>2 DEF Requests!RefusedLeavesNoTrace, Requests!Trusted
<1>10. QED
  BY <1>3, <1>4, <1>5, <1>7, <1>8, <1>9 DEF WebInv

LEMMA QuietlyAnswered ==
    ASSUME WebInv, NEW d \in WebDelivery, Requests!Running(d), NEW c \in WebStatus,
          Requests!Answer(d, c), QuietDelivery,
           web_route = "telegram" => Requests!At(d) \notin LastStages,
           c = 200 => AllEventsGiven \/ ~web_setup.known \/ (web_route = "telegram"
                                                               /\ web_marked \in WebDelivery),
           web_inferred' = web_inferred,
           web_faults' \in 0 .. WebFaults
    PROVE  WebInv'
<1>0. /\ GivenTypes /\ StageTypes /\ HistoryTypes /\ SignedFirst /\ ClaimIsKept /\ EventsGivenInTime
      /\ BridgeHolds /\ Requests!RefusedLeavesNoTrace
  BY DEF WebInv
<1>1. /\ web_stage[d] \in 1 .. Len(Requests!Routes[web_route])
      /\ Len(Requests!Routes[web_route]) \in 3 .. 8
      /\ StageInOrder(web_route, web_stage[d])
      /\ Requests!At(d) = StageKind(web_route, web_stage[d])
  BY <1>0, StageKnown
<1>2. /\ web_answer' = [web_answer EXCEPT ![d] = c] /\ UNCHANGED web_stage
      /\ UNCHANGED <<web_route, web_setup, web_letter, web_batch, web_item, web_handed,
                      web_marked, web_used, web_excused>>
  BY DEF Requests!Answer, QuietDelivery, Requests!Kept
<1>3. StageTypes' /\ SignedFirst'
  BY <1>0, IsAnswered DEF QuietDelivery
<1>4. BridgeHolds' /\ web_options' \in WebDelivery \cup {NoWebDelivery}
          /\ web_alone' \subseteq WebDelivery
  BY <1>0, <1>2, BridgeForgets
<1>5. GivenTypes' /\ HistoryTypes'
  BY <1>0, <1>2, <1>4 DEF GivenTypes, HistoryTypes
<1>6. AllEventsGiven' <=> AllEventsGiven
  BY <1>2 DEF AllEventsGiven, EventGiven
<1>7. ClaimIsKept'
  <2>1. SUFFICES ASSUME web_route = "telegram" PROVE ClaimIsKept'
    BY <1>2 DEF ClaimIsKept
  <2>2. web_stage[d] # 5
    BY <1>1, <2>1 DEF StageInOrder, LastStages
  <2>3. web_marked \in WebDelivery /\ web_stage[web_marked] = 5 =>
            web_answer'[web_marked] = web_answer[web_marked]
    BY <1>0, <1>2, <2>2 DEF StageTypes
  <2>4. QED
    BY <1>0, <1>2, <1>6, <2>1, <2>3 DEF ClaimIsKept
<1>8. EventsGivenInTime'
  <2>1. \A e \in WebDelivery : web_answer'[e] = 200 => web_answer[e] = 200 \/ (e = d /\ c = 200)
    BY <1>0, <1>2 DEF StageTypes
  <2>2. QED
    BY <1>0, <1>2, <1>6, <2>1 DEF EventsGivenInTime, EventGiven
<1>9. Requests!RefusedLeavesNoTrace'
  BY <1>0, <1>2 DEF Requests!RefusedLeavesNoTrace, Requests!Trusted
<1>10. QED
  BY <1>3, <1>4, <1>5, <1>7, <1>8, <1>9 DEF WebInv

LEMMA WebStep == WebInv /\ [Requests!Next]_Requests!vars => WebInv'
<1> SUFFICES ASSUME WebInv, [Requests!Next]_Requests!vars PROVE WebInv'
  OBVIOUS
<1>0. /\ GivenTypes /\ StageTypes /\ HistoryTypes /\ SignedFirst /\ ClaimIsKept /\ EventsGivenInTime
      /\ BridgeHolds /\ Requests!RefusedLeavesNoTrace
  BY DEF WebInv
<1>f. web_faults \in 0 .. WebFaults /\ WebFaults \in Nat
  BY <1>0, RequestsAssumption DEF HistoryTypes, RequestsAssumption
<1>s. ASSUME NEW d \in WebDelivery, Requests!Running(d)
      PROVE  /\ web_stage[d] \in 1 .. Len(Requests!Routes[web_route])
             /\ Len(Requests!Routes[web_route]) \in 3 .. 8
             /\ StageInOrder(web_route, web_stage[d])
             /\ Requests!At(d) = StageKind(web_route, web_stage[d])
             /\ Requests!Code(d) = Requests!Routes[web_route][web_stage[d]][2]
  BY <1>0, <1>s, StageKnown
<1>b. web_route \notin {"messenger", "whatsapp"} =>
          Len(web_batch) = 1 /\ DOMAIN web_batch = {1} /\ web_batch = <<web_batch[1]>>
                /\ web_batch[1] \in BatchEvents
  BY <1>0 DEF GivenTypes
<1>1. ASSUME NEW d \in WebDelivery, Requests!Send(d) PROVE WebInv'
  <2>1. /\ web_stage[d] = 0 /\ web_stage' = [web_stage EXCEPT ![d] = 1] /\ UNCHANGED Requests!Kept
        /\ UNCHANGED <<web_route, web_setup, web_letter, web_batch, web_item, web_answer,
                        web_handed, web_marked, web_options, web_used,
                       web_alone, web_inferred, web_excused, web_faults>>
    BY <1>1 DEF Requests!Send, Requests!Kept
  <2>2. Len(Requests!Routes[web_route]) \in 3 .. 8
    BY <1>0, StagesAreInOrder DEF GivenTypes, StagesOrdered
  <2>3. \A e \in WebDelivery : web_stage[e] \in 0 .. 8
            /\ web_stage'[e] = IF e = d THEN 1 ELSE web_stage[e]
    BY <1>0, <2>1 DEF StageTypes
  <2>4. StageTypes'
    <3>1. web_stage' \in [WebDelivery -> 0 .. 8]
              /\ web_answer' \in [WebDelivery -> {0} \cup WebStatus]
      BY <1>0, <2>1 DEF StageTypes
    <3>2. \A e \in WebDelivery : web_stage'[e] <= Len(Requests!Routes[web_route])
      <4>0. \A n \in 3 .. 8 : 1 <= n
        OBVIOUS
      <4>1. 1 <= Len(Requests!Routes[web_route])
        BY <2>2, <4>0
      <4>2. \A e \in WebDelivery : web_stage[e] <= Len(Requests!Routes[web_route])
        BY <1>0 DEF StageTypes
      <4>3. QED
        BY <2>3, <4>1, <4>2
    <3>3. \A e \in WebDelivery : web_stage'[e] = 0 => web_answer[e] = 0
      BY <1>0, <2>3 DEF StageTypes
    <3>4. QED
      BY <2>1, <3>1, <3>2, <3>3 DEF StageTypes
  <2>5. SignedFirst'
    BY <1>0, <2>1, <2>3 DEF SignedFirst, StageKind, Requests!Trusted
  <2>6. GivenTypes' /\ HistoryTypes' /\ Requests!RefusedLeavesNoTrace'
    BY <1>0, <2>1 DEF GivenTypes, HistoryTypes, Requests!RefusedLeavesNoTrace,
                      Requests!Trusted
  <2>7. ClaimIsKept'
    BY <1>0, <2>1, <2>3 DEF ClaimIsKept, AllEventsGiven, EventGiven
  <2>8. EventsGivenInTime'
    BY <1>0, <2>1, <2>3 DEF EventsGivenInTime, AllEventsGiven, EventGiven
  <2>9. BridgeHolds'
    <3>1. web_stage' = [web_stage EXCEPT ![d] = @ + 1]
      BY <2>1
    <3>2. QED
      BY <1>0, <2>1, <3>1, BridgeGoesOn
  <2>10. QED
    BY <2>4, <2>5, <2>6, <2>7, <2>8, <2>9 DEF WebInv
<1>2. ASSUME NEW d \in WebDelivery, Requests!Check(d) PROVE WebInv'
  <2>1. Requests!Running(d) /\ QuietDelivery /\ web_inferred' = web_inferred
            /\ web_faults' \in 0 .. WebFaults
    BY <1>f, <1>2 DEF Requests!Check, QuietDelivery, Requests!Kept
  <2>2. Requests!At(d) \notin LastStages \cup {"claim"}
            /\ Requests!At(d) \in {"signature", "parse", "fresh", "mode", "registered", "challenge"}
    BY <1>2 DEF Requests!Check, LastStages
  <2>3. CASE Requests!Passes(d, Requests!At(d))
    <3>1. Requests!GoOn(d)
      BY <1>2, <2>3 DEF Requests!Check
    <3>2. Requests!At(d) = "signature" => Requests!Trusted(d)
      BY <2>3 DEF Requests!Passes
    <3>3. QED
      BY <2>1, <2>2, <3>1, <3>2, QuietlyOn
  <2>4. CASE ~Requests!Passes(d, Requests!At(d))
    <3>1. Requests!Answer(d, Requests!Code(d))
      BY <1>2, <2>4 DEF Requests!Check
    <3>2. Requests!Code(d) \in WebStatus
      BY <1>s, <2>1 DEF StageInOrder
    <3>3. Requests!Code(d) = 200 => AllEventsGiven
      <4>1. SUFFICES ASSUME Requests!Code(d) = 200 PROVE AllEventsGiven
        OBVIOUS
      <4>2. Requests!At(d) = "challenge" /\ web_route \notin {"messenger", "whatsapp"}
        BY <1>s, <2>1, <2>2, <4>1 DEF StageInOrder, LastStages
      <4>3. web_batch[1] = "ping"
        BY <1>b, <2>4, <4>2 DEF Requests!Passes, Requests!Is
      <4>4. QED
        BY <1>b, <4>2, <4>3 DEF AllEventsGiven
    <3>4. QED
      BY <2>1, <2>2, <3>1, <3>2, <3>3, QuietlyAnswered
  <2>5. QED
    BY <2>3, <2>4
<1>3. ASSUME NEW d \in WebDelivery, Requests!Ask(d) PROVE WebInv'
  <2>1. Requests!Running(d) /\ QuietDelivery /\ web_inferred' = web_inferred
            /\ web_faults' \in 0 .. WebFaults
    BY <1>f, <1>3 DEF Requests!Ask, QuietDelivery, Requests!Kept, Requests!Fault
  <2>2. Requests!At(d) \notin LastStages \cup {"claim", "signature"}
            /\ Requests!At(d) \in Requests!Calls
    BY <1>3 DEF Requests!Ask, LastStages, Requests!Calls
  <2>3. CASE Requests!GoOn(d)
    BY <2>1, <2>2, <2>3, QuietlyOn
  <2>4. CASE Requests!Answer(d, 500)
    BY <2>1, <2>2, <2>4, QuietlyAnswered DEF WebStatus
  <2>5. CASE Requests!Answer(d, Requests!Code(d)) /\ (Requests!At(d) = "workspace" =>
                                                        ~web_setup.known)
                                                              /\ Requests!At(d) # "identity"
    <3>1. Requests!Code(d) \in WebStatus
      BY <1>s, <2>1 DEF StageInOrder
    <3>2. Requests!Code(d) = 200 => ~web_setup.known
      BY <1>s, <2>1, <2>2, <2>5 DEF StageInOrder, LastStages, Requests!Calls
    <3>3. QED
      BY <2>1, <2>2, <2>5, <3>1, <3>2, QuietlyAnswered
  <2>6. QED
    BY <1>3, <2>2, <2>3, <2>4, <2>5 DEF Requests!Ask, Requests!Calls
<1>4. ASSUME NEW d \in WebDelivery, Requests!LearnAddress(d) PROVE WebInv'
  <2>1. Requests!Running(d) /\ QuietDelivery /\ Requests!GoOn(d)
            /\ web_faults' \in 0 .. WebFaults /\ Requests!At(d) = "address"
        /\ (web_inferred' = web_inferred \/ web_inferred' = d)
    BY <1>f, <1>4 DEF Requests!LearnAddress, QuietDelivery, Requests!Kept
  <2>2. Requests!Trusted(d)
    BY <1>0, <2>1, IsSigned DEF LastStages
  <2>3. QED
    BY <2>1, <2>2, QuietlyOn DEF LastStages
<1>5. ASSUME NEW d \in WebDelivery, Requests!LookForMarker(d) PROVE WebInv'
  <2>1. Requests!Running(d) /\ QuietDelivery /\ web_inferred' = web_inferred
            /\ web_faults' \in 0 .. WebFaults /\ Requests!At(d) = "seen"
    BY <1>f, <1>5 DEF Requests!LookForMarker, QuietDelivery, Requests!Kept, Requests!Fault
  <2>2. CASE Requests!GoOn(d)
    BY <2>1, <2>2, QuietlyOn DEF LastStages
  <2>3. CASE Requests!Answer(d, Requests!Code(d)) /\ web_marked # NoWebDelivery
    <3>1. Requests!Code(d) \in WebStatus /\ web_route = "slack"
      BY <1>s, <2>1 DEF StageInOrder
    <3>2. AllEventsGiven
      BY <1>0, <2>3, <3>1 DEF EventsGivenInTime, HistoryTypes
    <3>3. QED
      BY <2>1, <2>3, <3>1, <3>2, QuietlyAnswered DEF LastStages
  <2>4. QED
    BY <1>5, <2>2, <2>3 DEF Requests!LookForMarker
<1>6. ASSUME NEW d \in WebDelivery, Requests!LookAtIssuer(d) PROVE WebInv'
  <2>1. Requests!Running(d) /\ QuietDelivery /\ web_inferred' = web_inferred
            /\ web_faults' \in 0 .. WebFaults /\ Requests!At(d) = "issuer"
    BY <1>f, <1>6 DEF Requests!LookAtIssuer, QuietDelivery, Requests!Kept
  <2>2. CASE Requests!GoOn(d)
    BY <2>1, <2>2, QuietlyOn DEF LastStages
  <2>3. CASE Requests!Answer(d, Requests!Code(d))
    <3>1. Requests!Code(d) \in WebStatus /\ Requests!Code(d) # 200
      BY <1>s, <2>1 DEF StageInOrder, LastStages
    <3>2. QED
      BY <2>1, <2>3, <3>1, QuietlyAnswered DEF LastStages
  <2>4. QED
    BY <1>6, <2>2, <2>3 DEF Requests!LookAtIssuer
<1>7. ASSUME NEW d \in WebDelivery, Requests!Claim(d) PROVE WebInv'
  <2>1. /\ Requests!Running(d) /\ Requests!At(d) = "claim" /\ web_faults' \in 0 .. WebFaults
        /\ UNCHANGED <<Requests!Kept, web_item, web_handed, web_used, web_inferred>>
    BY <1>f, <1>7 DEF Requests!Claim, Requests!Fault
  <2>2. web_route = "telegram" /\ web_stage[d] = 4 /\ web_answer[d] = 0
            /\ Requests!Code(d) \in WebStatus /\ Requests!Code(d) # 200
    BY <1>s, <2>1 DEF StageInOrder, LastStages, Requests!Running
  <2>3. Requests!Trusted(d)
    BY <1>0, <2>1, IsSigned DEF LastStages
  <2>4. CASE web_marked # NoWebDelivery /\ Requests!Answer(d, 200)
            /\ UNCHANGED <<web_marked, web_excused>>
    <3>1. web_marked \in WebDelivery /\ QuietDelivery
      BY <1>0, <2>1, <2>4 DEF HistoryTypes, QuietDelivery
    <3>2. QED
      BY <2>1, <2>2, <2>4, <3>1, QuietlyAnswered DEF LastStages, WebStatus
  <2>5. CASE Requests!Answer(d, Requests!Code(d)) /\ UNCHANGED <<web_marked, web_excused>>
    <3>1. QuietDelivery
      BY <2>1, <2>5 DEF QuietDelivery
    <3>2. QED
      BY <2>1, <2>2, <2>5, <3>1, QuietlyAnswered DEF LastStages
  <2>6. ASSUME web_marked = NoWebDelivery, web_marked' = d,
               \/ Requests!GoOn(d) /\ UNCHANGED web_excused
               \/ Requests!Answer(d, Requests!Code(d))
                     /\ web_excused' = web_excused \cup DOMAIN web_batch
        PROVE  WebInv'
    <3>1. web_handed = {} /\ \A e \in WebDelivery : web_stage[e] # 5
      BY <1>0, <2>2, <2>6, RequestsAssumption DEF ClaimIsKept, HistoryTypes,
      RequestsAssumption
    <3>2. UNCHANGED <<web_route, web_setup, web_letter, web_batch>>
      BY <2>1 DEF Requests!Kept
    <3>3. StageTypes' /\ SignedFirst'
      BY <1>0, <2>1, <2>2, <2>6, GoesOn, IsAnswered DEF Requests!GoOn, LastStages
    <3>4. BridgeHolds' /\ web_options' \in WebDelivery \cup {NoWebDelivery}
              /\ web_alone' \subseteq WebDelivery
      <4>1. CASE Requests!GoOn(d)
        BY <1>0, <2>1, <3>2, <4>1, BridgeGoesOn DEF Requests!GoOn, HistoryTypes
      <4>2. CASE Requests!Answer(d, Requests!Code(d))
        BY <1>0, <2>1, <2>2, <3>2, <4>2, BridgeForgets
      <4>3. QED
        BY <2>6, <4>1, <4>2
    <3>5. GivenTypes' /\ HistoryTypes'
      BY <1>0, <2>1, <2>6, <3>2, <3>4 DEF GivenTypes, HistoryTypes
    <3>6. CASE Requests!GoOn(d) /\ UNCHANGED web_excused
      <4>1. \A e \in WebDelivery : web_stage'[e] = IF e = d THEN 5 ELSE web_stage[e]
        BY <1>0, <2>2, <3>6 DEF Requests!GoOn, StageTypes
      <4>2. UNCHANGED web_answer
        BY <3>6 DEF Requests!GoOn
      <4>3. ClaimIsKept'
        BY <2>1, <2>2, <2>6, <3>1, <4>1, <4>2 DEF ClaimIsKept
      <4>4. EventsGivenInTime'
        BY <1>0, <2>1, <2>2, <2>6, <3>2, <3>6 DEF EventsGivenInTime, EventGiven
      <4>5. QED
        BY <1>0, <2>1, <2>3, <2>6, <3>2, <3>3, <3>4, <3>5, <4>3, <4>4 DEF WebInv,
        Requests!RefusedLeavesNoTrace, Requests!Trusted
    <3>7. CASE Requests!Answer(d, Requests!Code(d))
              /\ web_excused' = web_excused \cup DOMAIN web_batch
      <4>1. UNCHANGED web_stage
        BY <3>7 DEF Requests!Answer
      <4>2. AllEventsGiven' /\ \A i \in DOMAIN web_batch' : EventGiven(i)'
        BY <3>2, <3>7 DEF AllEventsGiven, EventGiven
      <4>3. ClaimIsKept'
        BY <2>1, <2>2, <2>6, <3>1, <3>2, <4>1, <4>2 DEF ClaimIsKept
      <4>4. EventsGivenInTime'
        BY <4>2, <3>2 DEF EventsGivenInTime
      <4>5. QED
        BY <1>0, <2>1, <2>3, <2>6, <3>2, <3>3, <3>4, <3>5, <4>3, <4>4 DEF WebInv,
        Requests!RefusedLeavesNoTrace, Requests!Trusted
    <3>8. QED
      BY <2>6, <3>6, <3>7
  <2>7. QED
    BY <1>7, <2>4, <2>5, <2>6 DEF Requests!Claim
<1>8. ASSUME NEW d \in WebDelivery, Requests!RecordOptions(d) PROVE WebInv'
  <2>1. /\ Requests!Running(d) /\ Requests!At(d) = "record" /\ web_options' = d
        /\ web_alone' = IF /\ web_options = NoWebDelivery
                           /\ ~\E e \in WebDelivery : Requests!Running(e) /\ Requests!Recorded(e)
                    THEN web_alone \cup {d} ELSE web_alone \ {web_options}
        /\ web_stage' = [web_stage EXCEPT ![d] = @ + 1] /\ UNCHANGED Requests!Kept
        /\ UNCHANGED <<web_route, web_setup, web_letter, web_batch, web_item, web_answer,
                        web_handed, web_marked, web_used, web_inferred, web_excused,
                       web_faults>>
    BY <1>8 DEF Requests!RecordOptions, Requests!Kept
  <2>2. web_route = "teams" /\ web_stage[d] = 4
            /\ Requests!At(d) \notin LastStages \cup {"signature"}
    BY <1>s, <2>1 DEF StageInOrder, LastStages
  <2>3. StageTypes' /\ SignedFirst'
    BY <1>0, <2>1, <2>2, GoesOn
  <2>4. GivenTypes' /\ HistoryTypes'
    BY <1>0, <2>1 DEF GivenTypes, HistoryTypes
  <2>5. \A e \in WebDelivery : web_stage'[e] = IF e = d THEN 5 ELSE web_stage[e]
    BY <1>0, <2>1, <2>2 DEF StageTypes
  <2>6. ClaimIsKept' /\ EventsGivenInTime'
    BY <1>0, <2>1, <2>2, <2>5 DEF ClaimIsKept, EventsGivenInTime, AllEventsGiven, EventGiven
  <2>7. Requests!RefusedLeavesNoTrace'
    BY <1>0, <2>1 DEF Requests!RefusedLeavesNoTrace, Requests!Trusted
  <2>8. d \notin web_alone /\ Requests!Running(d)' /\ \A e \in WebDelivery : e # d =>
            (Requests!Running(e)' <=> Requests!Running(e))
    BY <1>0, <2>1, <2>2, <2>5 DEF BridgeHolds, Requests!Running
  <2>9. BridgeHolds'
    <3>1. CASE web_options = NoWebDelivery /\ ~\E e \in WebDelivery : Requests!Running(e)
              /\ Requests!Recorded(e)
      <4>1. \A e \in web_alone : ~Requests!Running(e)
        BY <1>0, <2>2, <3>1 DEF BridgeHolds, HistoryTypes, Requests!Recorded
      <4>2. web_used[d] = d
        BY <1>0, <2>2 DEF BridgeHolds
      <4>3. QED
        BY <1>0, <2>1, <2>2, <2>5, <2>8, <3>1, <4>1, <4>2 DEF BridgeHolds, HistoryTypes
    <3>2. CASE ~(web_options = NoWebDelivery /\ ~\E e \in WebDelivery : Requests!Running(e)
                   /\ Requests!Recorded(e))
      <4>1. \A e \in web_alone' : e # d /\ ~Requests!Running(e)
        BY <1>0, <2>1, <2>8, <3>2 DEF BridgeHolds, HistoryTypes
      <4>2. QED
        BY <1>0, <2>1, <2>2, <2>5, <2>8, <3>2, <4>1 DEF BridgeHolds, HistoryTypes
    <3>3. QED
      BY <3>1, <3>2
  <2>10. QED
    BY <2>3, <2>4, <2>6, <2>7, <2>9 DEF WebInv
<1>9. ASSUME NEW d \in WebDelivery, Requests!Dispatch(d) PROVE WebInv'
  <2> DEFINE Good == {[by |-> d, event |-> i] : i \in {j \in Requests!Reached : web_batch[j] = "good"}}
  <2>1. /\ Requests!Running(d) /\ Requests!At(d) = "dispatch" /\ web_handed' = web_handed \cup Good
        /\ web_used' = IF web_route = "teams" THEN [web_used EXCEPT ![d] = web_options] ELSE web_used
        /\ web_marked' = IF web_route \in {"slack", "slackForward"} THEN d ELSE web_marked
        /\ UNCHANGED Requests!Kept /\ UNCHANGED <<web_route, web_setup, web_letter, web_batch,
                                                   web_item, web_inferred, web_excused, web_faults>>
    BY <1>9 DEF Requests!Dispatch, Requests!Kept
  <2>2. web_route # "whatsapp" /\ (web_route = "telegram" <=> web_route = "telegram"
                                     /\ web_stage[d] = 5)
        /\ (web_route = "teams" => web_stage[d] = 7)
    BY <1>s, <2>1 DEF StageInOrder
  <2>3. Requests!Trusted(d)
    BY <1>0, <2>1, IsSigned DEF LastStages
  <2>4. web_handed \subseteq web_handed' /\ (\A i \in DOMAIN web_batch : EventGiven(i) =>
                                               EventGiven(i)') /\ (AllEventsGiven =>
                                                                     AllEventsGiven')
    BY <2>1 DEF AllEventsGiven, EventGiven
  <2>5. web_route # "messenger" \/ ~Requests!Is("bad") => AllEventsGiven'
    <3>1. SUFFICES ASSUME web_route # "messenger"
              \/ ~Requests!Is("bad"), NEW i \in DOMAIN web_batch, web_batch[i] = "good"
                   PROVE  i \in Requests!Reached
      <4>1. ASSUME NEW i \in Requests!Reached, web_batch[i] = "good" PROVE EventGiven(i)'
        <5>1. [by |-> d, event |-> i] \in Good
          BY <4>1
        <5>2. [by |-> d, event |-> i] \in web_handed' /\ [by |-> d, event |-> i].event = i
          BY <2>1, <5>1
        <5>3. QED
          BY <5>2 DEF EventGiven
      <4>2. web_batch' = web_batch
        BY <2>1
      <4>3. QED
        BY <4>1, <4>2 DEF AllEventsGiven
    <3>2. CASE ~Requests!Is("bad")
      BY <1>0, <3>1, <3>2 DEF Requests!Is, Requests!Reached, GivenTypes
    <3>3. CASE web_route # "messenger"
      BY <1>b, <2>2, <3>1, <3>3 DEF Requests!Reached
    <3>4. QED
      BY <3>1, <3>2, <3>3
  <2>51. PICK c : c = IF Requests!Is("bad") THEN Requests!Raised ELSE 200
    OBVIOUS
  <2>52. c \in WebStatus /\ (c = 200 => AllEventsGiven')
    <3>1. Requests!Raised \in WebStatus /\ (Requests!Raised = 200 =>
                                              web_route # "messenger") /\ 200 \in WebStatus
      BY DEF Requests!Raised, WebStatus
    <3>2. QED
      BY <2>5, <2>51, <3>1
  <2>6. Requests!Answer(d, c) \/ (Requests!GoOn(d) /\ web_route = "teams")
    <3>1. CASE Requests!Is("bad")
      BY <1>9, <2>51, <3>1 DEF Requests!Dispatch
    <3>2. CASE ~Requests!Is("bad")
      BY <1>9, <2>51, <3>2 DEF Requests!Dispatch
    <3>3. QED
      BY <3>1, <3>2
  <2>7. StageTypes' /\ SignedFirst'
    BY <1>0, <2>1, <2>52, <2>6, GoesOn, IsAnswered DEF Requests!GoOn
  <2>8. \A e \in WebDelivery : e \in web_alone \/ web_stage[e] < 5 => web_used'[e] = web_used[e]
    BY <1>0, <2>1, <2>2 DEF BridgeHolds, HistoryTypes, Requests!Running
  <2>9. BridgeHolds' /\ web_options' \in WebDelivery \cup {NoWebDelivery}
            /\ web_alone' \subseteq WebDelivery
    <3>1. CASE Requests!GoOn(d)
      BY <1>0, <2>1, <2>8, <3>1, BridgeGoesOn DEF Requests!GoOn, HistoryTypes
    <3>2. CASE Requests!Answer(d, c)
      BY <1>0, <2>1, <2>8, <2>52, <3>2, BridgeForgets
    <3>3. QED
      BY <2>6, <3>1, <3>2
  <2>10. GivenTypes' /\ HistoryTypes'
    <3>1. web_handed' \subseteq [by : WebDelivery, event : DOMAIN web_batch]
      BY <1>0, <2>1 DEF HistoryTypes, Requests!Reached
    <3>2. QED
      BY <1>0, <2>1, <2>9, <3>1 DEF GivenTypes, HistoryTypes
  <2>11. ClaimIsKept'
    <3>1. SUFFICES ASSUME web_route = "telegram" PROVE ClaimIsKept'
      BY <2>1 DEF ClaimIsKept
    <3>2. web_marked = d /\ web_marked' = d /\ AllEventsGiven' /\ UNCHANGED web_stage
      BY <1>0, <2>1, <2>2, <2>5, <2>52, <2>6, <3>1 DEF ClaimIsKept, Requests!Answer
    <3>3. QED
      BY <1>0, <2>1, <3>1, <3>2 DEF ClaimIsKept
  <2>12. EventsGivenInTime'
    <3>1. CASE web_route = "messenger"
      <4>1. \A e \in WebDelivery : web_answer'[e] = 200 => web_answer[e] = 200 \/ AllEventsGiven'
        BY <1>0, <2>52, <2>6, <3>1 DEF Requests!Answer, Requests!GoOn, StageTypes
      <4>2. QED
        BY <1>0, <2>1, <2>4, <3>1, <4>1 DEF EventsGivenInTime
    <3>2. CASE web_route # "messenger"
      BY <1>0, <2>1, <2>4, <2>5, <3>2 DEF EventsGivenInTime
    <3>3. QED
      BY <3>1, <3>2
  <2>13. Requests!RefusedLeavesNoTrace'
    <3>1. \A h \in web_handed' : h \in web_handed \/ h.by = d
      BY <2>1
    <3>2. QED
      BY <1>0, <2>1, <2>3, <3>1 DEF Requests!RefusedLeavesNoTrace, Requests!Trusted
  <2>14. QED
    BY <2>7, <2>9, <2>10, <2>11, <2>12, <2>13 DEF WebInv
<1>10. ASSUME NEW d \in WebDelivery, Requests!Finish(d) PROVE WebInv'
  <2>1. Requests!Running(d) /\ QuietDelivery /\ web_inferred' = web_inferred
            /\ web_faults' \in 0 .. WebFaults /\ Requests!At(d) = "finish"
        /\ Requests!Answer(d, 200)
    BY <1>f, <1>10 DEF Requests!Finish, QuietDelivery, Requests!Kept
  <2>2. web_route = "teams" /\ web_stage[d] = 8
    BY <1>s, <2>1 DEF StageInOrder
  <2>3. AllEventsGiven
    BY <1>0, <2>2 DEF EventsGivenInTime
  <2>4. QED
    BY <2>1, <2>2, <2>3, QuietlyAnswered DEF WebStatus
<1>11. ASSUME NEW d \in WebDelivery, Requests!Each(d) PROVE WebInv'
  <2>1. Requests!Running(d) /\ Requests!At(d) = "each"
            /\ UNCHANGED <<Requests!Kept, web_marked, web_used, web_inferred>>
        /\ UNCHANGED <<web_route, web_setup, web_letter, web_batch>>
        /\ web_faults' \in 0 .. WebFaults
    BY <1>f, <1>11 DEF Requests!Each, Requests!Kept, Requests!Fault
  <2>2. web_route = "whatsapp"
    BY <1>s, <2>1 DEF StageInOrder
  <2>3. web_item[d] \in Nat \ {0} /\ Len(web_batch) \in Nat
            /\ DOMAIN web_batch = 1 .. Len(web_batch)
    BY <1>0 DEF HistoryTypes, GivenTypes
  <2>4. CASE web_item[d] > Len(web_batch)
    <3>1. Requests!Answer(d, 200) /\ QuietDelivery
      BY <1>11, <2>1, <2>4 DEF Requests!Each, QuietDelivery
    <3>2. AllEventsGiven
      BY <1>0, <2>3, <2>4 DEF EventsGivenInTime, AllEventsGiven
    <3>3. QED
      BY <2>1, <2>2, <3>1, <3>2, QuietlyAnswered DEF WebStatus
  <2>5. CASE web_item[d] <= Len(web_batch)
    <3>1. /\ UNCHANGED <<web_stage, web_answer, web_options, web_alone>>
          /\ web_item' = [web_item EXCEPT ![d] = @ + 1]
          /\ \/ /\ UNCHANGED web_excused
                /\ web_handed' = IF web_batch[web_item[d]] = "good"
                              THEN web_handed \cup {[by |-> d,
                                                       event |-> web_item[d]]} ELSE web_handed
             \/ web_excused' = web_excused \cup {web_item[d]} /\ UNCHANGED web_handed
      BY <1>0, <1>11, <2>3, <2>5 DEF Requests!Each, Requests!AfterFailure, HistoryTypes
    <3>2. web_item[d] \in DOMAIN web_batch
      BY <2>3, <2>5
    <3>3. GivenTypes' /\ StageTypes' /\ HistoryTypes'
      BY <1>0, <2>1, <3>1, <3>2 DEF GivenTypes, StageTypes, HistoryTypes
    <3>4. SignedFirst' /\ BridgeHolds'
      BY <1>0, <2>1, <3>1 DEF SignedFirst, BridgeHolds, StageKind, Requests!Trusted,
                              Requests!Running
    <3>5. ClaimIsKept'
      BY <2>1, <2>2 DEF ClaimIsKept
    <3>6. ASSUME NEW i \in DOMAIN web_batch, EventGiven(i) \/ (i = web_item[d]
                                                                 /\ web_batch[i] = "good")
          PROVE  EventGiven(i)'
      <4>1. web_excused \subseteq web_excused' /\ web_handed \subseteq web_handed'
        BY <3>1
      <4>2. CASE EventGiven(i)
        BY <4>1, <4>2 DEF EventGiven
      <4>3. CASE i = web_item[d] /\ web_batch[i] = "good" /\ i \notin web_excused'
        <5>1. [by |-> d, event |-> i] \in web_handed'
          BY <3>1, <4>3
        <5>2. [by |-> d, event |-> i].event = i
          OBVIOUS
        <5>3. QED
          BY <5>1, <5>2 DEF EventGiven
      <4>4. CASE i \in web_excused'
        BY <4>4 DEF EventGiven
      <4>5. QED
        BY <3>6, <4>2, <4>3, <4>4
    <3>7. EventsGivenInTime'
      <4>1. \A e \in WebDelivery : \A i \in DOMAIN web_batch : i < web_item'[e] =>
                i < web_item[e] \/ i = web_item[d]
        BY <1>0, <2>3, <3>1 DEF HistoryTypes
      <4>2. AllEventsGiven => AllEventsGiven'
        BY <2>1, <3>6 DEF AllEventsGiven
      <4>3. ASSUME NEW e \in WebDelivery, NEW i \in DOMAIN web_batch, i < web_item'[e],
                web_batch[i] = "good"
            PROVE  EventGiven(i)'
        <5>1. i < web_item[e] \/ i = web_item[d]
          BY <4>1, <4>3
        <5>2. EventGiven(i) \/ (i = web_item[d] /\ web_batch[i] = "good")
          BY <1>0, <4>3, <5>1 DEF EventsGivenInTime
        <5>3. QED
          BY <3>6, <5>2
      <4>4. QED
        BY <1>0, <2>1, <2>2, <3>1, <4>2, <4>3 DEF EventsGivenInTime
    <3>8. Requests!RefusedLeavesNoTrace'
      <4>1. Requests!Trusted(d)
        BY <1>0, <2>1, IsSigned DEF LastStages
      <4>2. \A h \in web_handed' : h \in web_handed \/ h.by = d
        BY <3>1
      <4>3. QED
        BY <1>0, <2>1, <4>1, <4>2 DEF Requests!RefusedLeavesNoTrace, Requests!Trusted
    <3>9. QED
      BY <3>3, <3>4, <3>5, <3>7, <3>8 DEF WebInv
  <2>6. QED
    BY <2>3, <2>4, <2>5
<1>12. CASE UNCHANGED Requests!vars
  <2>1. UNCHANGED <<web_route, web_setup, web_letter, web_batch, web_stage, web_item,
                     web_answer, web_handed, web_marked, web_options,
          web_used, web_alone, web_inferred, web_excused, web_faults>>
    BY <1>12 DEF Requests!vars
  <2>2. GivenTypes' /\ StageTypes' /\ HistoryTypes' /\ SignedFirst'
    BY <1>0, <2>1 DEF GivenTypes, StageTypes, HistoryTypes, SignedFirst, StageKind,
                      Requests!Trusted
  <2>3. ClaimIsKept' /\ EventsGivenInTime'
    BY <1>0, <2>1 DEF ClaimIsKept, EventsGivenInTime, AllEventsGiven, EventGiven
  <2>4. BridgeHolds' /\ Requests!RefusedLeavesNoTrace'
    BY <1>0, <2>1 DEF BridgeHolds, Requests!RefusedLeavesNoTrace, Requests!Running,
                      Requests!Trusted
  <2>5. QED
    BY <2>2, <2>3, <2>4 DEF WebInv
<1>13. QED
  BY <1>1, <1>2, <1>3, <1>4, <1>5, <1>6, <1>7, <1>8, <1>9, <1>10, <1>11,
  <1>12 DEF Requests!Next, Requests!Finished

\* The module's own name of what FiniteSets defines.
LEMMA WebCount == \A S : Requests!Cardinality(S) = Cardinality(S)
  BY DEF Requests!Cardinality, Cardinality

\* What the invariant says of the properties.
LEMMA WebIsFaithful == WebInv => Requests!WebhooksKeepFaith
<1> SUFFICES ASSUME WebInv PROVE Requests!WebhooksKeepFaith
  OBVIOUS
<1>0. /\ GivenTypes /\ StageTypes /\ HistoryTypes /\ SignedFirst /\ ClaimIsKept /\ EventsGivenInTime
      /\ BridgeHolds /\ Requests!RefusedLeavesNoTrace
  BY DEF WebInv
<1>1. Requests!TypeOK
  BY <1>0 DEF Requests!TypeOK, GivenTypes, StageTypes, HistoryTypes, WebStatus
<1>2. Requests!AcknowledgedIsHandled
  <2>1. SUFFICES ASSUME NEW d \in WebDelivery, web_answer[d] = 200, web_setup.known,
            \A e \in WebDelivery : ~Requests!Running(e)
                 PROVE  AllEventsGiven
    BY DEF Requests!AcknowledgedIsHandled, AllEventsGiven, EventGiven
  <2>2. CASE web_route = "telegram"
    <3>1. AllEventsGiven \/ (web_marked \in WebDelivery /\ web_stage[web_marked] = 5
                               /\ web_answer[web_marked] = 0)
      BY <1>0, <2>1, <2>2 DEF EventsGivenInTime, ClaimIsKept
    <3>2. QED
      BY <2>1, <3>1 DEF Requests!Running
  <2>3. CASE web_route # "telegram"
    BY <1>0, <2>1, <2>3 DEF EventsGivenInTime
  <2>4. QED
    BY <2>2, <2>3
<1>3. Requests!ClaimedIsHandedOnce
  <2>1. SUFFICES ASSUME web_route = "telegram", NEW i \in DOMAIN web_batch
                 PROVE  Cardinality({h \in web_handed : h.event = i}) <= 1
    BY WebCount DEF Requests!ClaimedIsHandedOnce
  <2>2. \A h \in {g \in web_handed : g.event = i} : h = [by |-> web_marked, event |-> i]
    BY <1>0, <2>1 DEF ClaimIsKept, HistoryTypes
  <2>3. {h \in web_handed : h.event = i} \in {{}, {[by |-> web_marked, event |-> i]}}
    BY <2>2
  <2>4. Cardinality({}) = 0 /\ \A h : Cardinality({h}) = 1
    BY FS_EmptySet, FS_Singleton
  <2>5. CASE {h \in web_handed : h.event = i} = {}
    BY <2>4, <2>5
  <2>6. CASE {h \in web_handed : h.event = i} = {[by |-> web_marked, event |-> i]}
    <3>1. Cardinality({[by |-> web_marked, event |-> i]}) = 1
      BY <2>4
    <3>2. QED
      BY <2>6, <3>1
  <2>7. QED
    BY <2>3, <2>5, <2>6
<1>4. Requests!OptionsAreTheDeliverys
  BY <1>0 DEF Requests!OptionsAreTheDeliverys, BridgeHolds, HistoryTypes
<1>5. QED
  BY <1>0, <1>1, <1>2, <1>3, <1>4 DEF Requests!WebhooksKeepFaith

-----------------------------------------------------------------------------
(* The events of a conversation of any length and their threads.           *)
CONSTANTS
    InMessages,  \* bound on the messages of the conversation
    InEvents,    \* bound on the events handed over
    InFaults     \* bound on the failing calls

ASSUME IncomingAssumption == InMessages \in Nat /\ InFaults \in Nat

VARIABLES
    in_platform, in_place, in_identity, in_messages, in_asked,
    in_delivered, in_handed, in_subscribed, in_parents, in_returned,
    in_faults

Incoming == INSTANCE Ingress WITH
    MaxMessages <- InMessages, MaxEvents <- InEvents, MaxFaults <- InFaults,
    platform <- in_platform, place <- in_place, identity <- in_identity, messages <- in_messages, asked <-
    in_asked, delivered <- in_delivered, handed <- in_handed, subscribed <-
    in_subscribed, parents <- in_parents, returned <- in_returned, faults <-
    in_faults

inVars == <<in_platform, in_place, in_identity, in_messages, in_asked,
    in_delivered, in_handed, in_subscribed, in_parents, in_returned, in_faults>>

IncomingLetter == [root : Nat, by : {"user", "self"}, mention : BOOLEAN]

\* The threads of a conversation: the conversation, those of its messages, and what
\* Discord takes a thread for whose parent it does not know.
IncomingThreads == 0 .. Len(in_messages) \cup {InMessages + r : r \in Incoming!Id}

ConversationTypes ==
    /\ in_platform \in DOMAIN Incoming!Places /\ in_place \in Incoming!Places[in_platform]
    /\ in_messages \in Seq(IncomingLetter) /\ Len(in_messages) \in 0 .. InMessages
    /\ \A m \in Incoming!Id : Incoming!Root(m) \in 0 .. m - 1

\* An event of a kind its platform has, about a message there is, by its author.
IncomingEvent(e) ==
    /\ e.of \in Incoming!Id /\ e.kind \in Incoming!Kinds[in_platform]
    /\ e.kind \in {"message", "pubsub"} => e.actor = in_messages[e.of].by

\* An adapter that must ask who it is has not found out, or knows it from now on.
KnowsItself ==
    /\ in_identity \in BOOLEAN
    /\ in_platform \notin {"gchat", "github", "linear"} => in_identity
    /\ in_platform = "github" /\ in_returned => in_identity

\* The thread of a message, as every event about it should have it.
ThreadOfEvents(m) ==
    CASE in_platform = "slack" -> IF in_place = "dm" THEN Incoming!Root(m) ELSE Incoming!Start(m)
      [] in_platform = "discord" -> IF ~Incoming!TopLevel(m) THEN Incoming!Root(m) ELSE IF in_messages[m].mention THEN m ELSE 0
      [] in_platform = "gchat" -> IF in_place = "dm" THEN 0 ELSE Incoming!Start(m)
      [] in_platform = "telegram" -> Incoming!TopicOf
      [] in_platform = "teams" -> IF in_place = "channel" THEN Incoming!Start(m) ELSE 0
      [] in_platform = "github" -> IF in_place = "review" THEN Incoming!Start(m) ELSE 0
      [] in_platform = "linear" -> IF in_place = "issue" THEN Incoming!Start(m) ELSE 0
      [] in_platform \in {"whatsapp", "messenger", "twilio"} -> 0

\* Conversations without threads of their messages.
FlatPlaces == \/ in_platform \in {"telegram", "whatsapp", "messenger", "twilio"}
        \/ <<in_platform, in_place>> \in {<<"teams", "dm">>, <<"github", "issue">>, <<"linear", "session">>}

HandedHome ==
    \A h \in in_handed : /\ ~Incoming!Astray(h) => h.thread = ThreadOfEvents(h.of)
                         /\ FlatPlaces => h.thread \in {0, Incoming!TopicOf}

\* Somebody subscribed to a thread that was seen, or to that of the direct messages.
SubscribedTo == \A t \in DOMAIN in_subscribed : (\E h \in in_handed : h.thread = t)
      \/ (Incoming!InDM /\ t = 0)

\* What an adapter asks about came before any answer: nothing known then is forgotten.
StillAsked(a) == /\ IncomingEvent(a.event)
                 /\ (a.learnt => in_returned) /\ (a.known => in_identity)

IngressInv ==
    /\ ConversationTypes /\ KnowsItself
    /\ \A a \in in_asked : StillAsked(a)
    /\ \A h \in in_handed : IncomingEvent(h) /\ h.thread \in IncomingThreads
    /\ Incoming!OwnWordsAreIgnored /\ HandedHome /\ SubscribedTo /\ Incoming!SubscribersHear

\* Where conversations take place, and what happens in them.
LEMMA PlacesKnown ==
    ASSUME ConversationTypes
    PROVE  \/ in_platform = "slack" /\ in_place \in {"channel", "dm", "agent dm"}
           \/ in_platform = "discord" /\ in_place = "channel"
           \/ in_platform = "gchat" /\ in_place \in {"channel", "dm"}
           \/ in_platform = "telegram" /\ in_place \in {"topic", "dm"}
           \/ in_platform = "teams" /\ in_place \in {"channel", "dm"}
           \/ in_platform = "github" /\ in_place \in {"review", "issue"}
           \/ in_platform = "linear" /\ in_place \in {"issue", "session"}
           \/ in_platform \in {"whatsapp", "messenger", "twilio"} /\ in_place = "dm"
<1>1. in_platform \in {"slack", "discord", "gchat", "telegram", "teams", "github", "linear",
                         "whatsapp",
                    "messenger", "twilio"} /\ in_place \in Incoming!Places[in_platform]
  BY DEF ConversationTypes, Incoming!Places
<1>2. /\ Incoming!Places["slack"] = {"channel", "dm", "agent dm"}
      /\ Incoming!Places["discord"] = {"channel"}
      /\ Incoming!Places["gchat"] = {"channel", "dm"}
      /\ Incoming!Places["telegram"] = {"topic", "dm"}
      /\ Incoming!Places["teams"] = {"channel", "dm"}
      /\ Incoming!Places["github"] = {"review", "issue"}
      /\ Incoming!Places["linear"] = {"issue", "session"} /\ Incoming!Places["whatsapp"] = {"dm"}
      /\ Incoming!Places["messenger"] = {"dm"} /\ Incoming!Places["twilio"] = {"dm"}
  BY DEF Incoming!Places
<1>3. QED
  BY <1>1, <1>2

LEMMA KindsKnown ==
    /\ Incoming!Kinds["slack"] = {"message", "edit", "deletion", "reaction", "click"}
    /\ Incoming!Kinds["discord"] = {"message", "reaction", "click"}
    /\ Incoming!Kinds["gchat"] = {"message", "pubsub", "reaction", "click"}
    /\ Incoming!Kinds["telegram"] = {"message", "edit", "reaction", "click"}
    /\ Incoming!Kinds["teams"] = {"message", "reaction", "click"}
BY DEF Incoming!Kinds

\* What an adapter makes of an event: a thread there is, and the message's own unless
\* the event is one that cannot know it.
Names(e, told, t) ==
    /\ t \in {0, e.of, Incoming!Root(e.of), Incoming!TopicOf}
          \/ (t = Incoming!Stray(Incoming!Root(e.of)) /\ ~Incoming!TopLevel(e.of))
    /\ \/ ~told
       \/ e.kind = "reaction" /\ <<in_platform, in_place>> \in {<<"telegram", "topic">>,
                                                                  <<"slack", "dm">>}
       \/ e.kind # "message" /\ <<in_platform, in_place>> = <<"gchat", "dm">>
       \/ e.kind # "message" /\ in_platform = "discord" /\ Incoming!TopLevel(e.of)
       \/ in_place = "agent dm" /\ t = 0
       \/ t = ThreadOfEvents(e.of)
    /\ FlatPlaces => t \in {0, Incoming!TopicOf}
    /\ Incoming!Bridged(e, told) => t = 0

LEMMA ThreadsAreNamed ==
    ASSUME ConversationTypes, NEW e, IncomingEvent(e), NEW told \in BOOLEAN
    PROVE  Names(e, told, Incoming!Thread(e, told))
<1> USE DEF Names, Incoming!Bridged, Incoming!Thread, ThreadOfEvents, FlatPlaces,
            IncomingEvent, Incoming!Start, Incoming!TopLevel
<1>1. CASE in_platform = "slack" /\ in_place \in {"channel", "dm", "agent dm"}
  <2>1. Incoming!Thread(e, told) = Incoming!Slack(e, told)
            /\ e.kind \in {"message", "edit", "deletion", "reaction", "click"}
    BY <1>1, KindsKnown
  <2>2. ThreadOfEvents(e.of) = IF in_place = "dm" THEN Incoming!Root(e.of) ELSE Incoming!Start(e.of)
    BY <1>1
  <2>3. ~FlatPlaces
    BY <1>1
  <2>4. CASE e.kind = "message"
    BY <1>1, <2>1, <2>2, <2>3, <2>4 DEF Incoming!Slack, Incoming!SlackThread,
    Incoming!Bridged
  <2>5. CASE e.kind = "edit"
    BY <1>1, <2>1, <2>2, <2>3, <2>5 DEF Incoming!Slack, Incoming!SlackThread
  <2>6. CASE e.kind = "deletion"
    BY <1>1, <2>1, <2>2, <2>3, <2>6 DEF Incoming!Slack, Incoming!SlackThread,
    Incoming!SlackDeletion
  <2>7. CASE e.kind = "reaction"
    BY <1>1, <2>1, <2>2, <2>3, <2>7 DEF Incoming!Slack, Incoming!SlackReaction
  <2>8. CASE e.kind = "click"
    BY <1>1, <2>1, <2>2, <2>3, <2>8 DEF Incoming!Slack, Incoming!SlackClick, Incoming!InDM
  <2>9. QED
    BY <2>1, <2>4, <2>5, <2>6, <2>7, <2>8
<1>2. CASE in_platform = "discord" /\ in_place = "channel"
  <2>1. Incoming!Thread(e, told) = Incoming!Discord(e, told)
            /\ e.kind \in {"message", "reaction", "click"}
    BY <1>2, KindsKnown
  <2>2. ThreadOfEvents(e.of) = IF ~Incoming!TopLevel(e.of) THEN Incoming!Root(e.of) ELSE IF in_messages[e.of].mention THEN e.of ELSE 0
    BY <1>2
  <2>3. ~FlatPlaces
    BY <1>2
  <2>4. CASE e.kind = "message"
    BY <1>2, <2>1, <2>2, <2>3, <2>4 DEF Incoming!Discord, Incoming!DiscordMessage,
    Incoming!InThread
  <2>5. CASE e.kind = "reaction"
    BY <1>2, <2>1, <2>2, <2>3, <2>5 DEF Incoming!Discord, Incoming!DiscordReaction,
    Incoming!InThread
  <2>6. CASE e.kind = "click"
    BY <1>2, <2>1, <2>2, <2>3, <2>6 DEF Incoming!Discord, Incoming!DiscordClick,
    Incoming!InThread
  <2>7. QED
    BY <2>1, <2>4, <2>5, <2>6
<1>3. CASE in_platform = "gchat" /\ in_place \in {"channel", "dm"}
  <2>1. Incoming!Thread(e, told) = Incoming!GoogleChat(e, told)
            /\ e.kind \in {"message", "pubsub", "reaction", "click"}
    BY <1>3, KindsKnown
  <2>2. ThreadOfEvents(e.of) = IF in_place = "dm" THEN 0 ELSE Incoming!Start(e.of)
    BY <1>3
  <2>3. ~FlatPlaces
    BY <1>3
  <2>4. CASE e.kind \in {"message", "pubsub"}
    BY <1>3, <2>1, <2>2, <2>3, <2>4 DEF Incoming!GoogleChat, Incoming!GoogleMessage,
    Incoming!GooglePubSub, Incoming!InDM
  <2>5. CASE e.kind \in {"reaction", "click"}
    BY <1>3, <2>1, <2>2, <2>3, <2>5 DEF Incoming!GoogleChat, Incoming!GoogleReaction,
    Incoming!GoogleClick
  <2>6. QED
    BY <2>1, <2>4, <2>5
<1>4. CASE in_platform = "telegram" /\ in_place \in {"topic", "dm"}
  <2>1. Incoming!Thread(e, told) = Incoming!Telegram(e)
            /\ e.kind \in {"message", "edit", "reaction", "click"}
    BY <1>4, KindsKnown
  <2>2. ThreadOfEvents(e.of) = Incoming!TopicOf
    BY <1>4
  <2>3. CASE e.kind \in {"message", "edit", "click"}
    BY <1>4, <2>1, <2>2, <2>3 DEF Incoming!Telegram, Incoming!TelegramMessage,
                                  Incoming!TelegramClick, Incoming!TopicOf
  <2>4. CASE e.kind = "reaction"
    BY <1>4, <2>1, <2>2, <2>4 DEF Incoming!Telegram, Incoming!TelegramReaction,
                                  Incoming!TopicOf
  <2>5. QED
    BY <2>1, <2>3, <2>4
<1>5. CASE in_platform = "teams" /\ in_place \in {"channel", "dm"}
  <2>1. Incoming!Thread(e, told) = Incoming!Teams(e) /\ e.kind \in {"message", "reaction", "click"}
    BY <1>5, KindsKnown
  <2>2. ThreadOfEvents(e.of) = IF in_place = "channel" THEN Incoming!Start(e.of) ELSE 0
    BY <1>5
  <2>3. Incoming!Teams(e) = Incoming!ThreadOfActivity(e)
    BY <2>1 DEF Incoming!Teams, Incoming!TeamsMessage, Incoming!TeamsClick,
                Incoming!TeamsReaction
  <2>4. QED
    BY <1>5, <2>1, <2>2, <2>3 DEF Incoming!ThreadOfActivity
<1>6. CASE in_platform = "github" /\ in_place \in {"review", "issue"}
  BY <1>6 DEF Incoming!GitHubReviewComment, Incoming!GitHubIssueComment
<1>7. CASE in_platform = "linear" /\ in_place \in {"issue", "session"}
  BY <1>7 DEF Incoming!LinearComment, Incoming!LinearSession
<1>8. CASE in_platform \in {"whatsapp", "messenger", "twilio"} /\ in_place = "dm"
  BY <1>8 DEF Incoming!WhatsApp, Incoming!Messenger, Incoming!Twilio
<1>9. QED
  BY <1>1, <1>2, <1>3, <1>4, <1>5, <1>6, <1>7, <1>8, PlacesKnown

\* What is written later changes nothing about what was said of what came before.
LEMMA WordsStay ==
    ASSUME IngressInv, NEW w \in IncomingLetter, w.root \in 0 .. Len(in_messages),
          Len(in_messages) < InMessages,
           in_messages' = Append(in_messages, w),
           UNCHANGED <<in_platform, in_place, in_identity, in_asked, in_handed, in_subscribed,
                        in_returned>>
    PROVE  IngressInv'
<1>0. ConversationTypes /\ in_messages \in Seq(IncomingLetter) /\ Len(in_messages) \in Nat
          /\ InMessages \in Nat
  BY IncomingAssumption DEF IngressInv, ConversationTypes, IncomingAssumption
<1>1. /\ in_messages' \in Seq(IncomingLetter) /\ Len(in_messages') = Len(in_messages) + 1
      /\ in_messages'[Len(in_messages) + 1] = w
      /\ \A m \in Incoming!Id : m \in Incoming!Id' /\ in_messages'[m] = in_messages[m]
      /\ Incoming!Id' = Incoming!Id \cup {Len(in_messages) + 1}
  BY <1>0, AppendProperties DEF Incoming!Id
<1>2. \A m \in Incoming!Id : /\ Incoming!Root(m)' = Incoming!Root(m)
                             /\ Incoming!Own(m)' = Incoming!Own(m)
                             /\ Incoming!TopLevel(m)' = Incoming!TopLevel(m)
                             /\ Incoming!Start(m)' = Incoming!Start(m)
  BY <1>1 DEF Incoming!Root, Incoming!Own, Incoming!TopLevel, Incoming!Start
<1>3. ConversationTypes'
  <2>1. \A m \in Incoming!Id' : Incoming!Root(m)' \in 0 .. m - 1
    <3>1. \A m \in Incoming!Id' : m \in Incoming!Id \/ (m = Len(in_messages) + 1
                                                          /\ Incoming!Root(m)' = w.root)
      BY <1>1 DEF Incoming!Root
    <3>2. \A m \in Incoming!Id : Incoming!Root(m)' \in 0 .. m - 1
      BY <1>0, <1>2 DEF ConversationTypes
    <3>3. QED
      BY <1>0, <3>1, <3>2
  <2>2. Len(in_messages') \in 0 .. InMessages
    BY <1>0, <1>1
  <2>3. QED
    BY <1>0, <1>1, <2>1, <2>2 DEF ConversationTypes
<1>4. \A e : IncomingEvent(e) => IncomingEvent(e)'
  BY <1>1 DEF IncomingEvent
<1>5. IncomingThreads \subseteq IncomingThreads'
  BY <1>0, <1>1 DEF IncomingThreads
<1>6. \A m \in Incoming!Id : ThreadOfEvents(m)' = ThreadOfEvents(m)
  BY <1>1, <1>2 DEF ThreadOfEvents, Incoming!TopicOf
<1>7. \A h \in in_handed : h.of \in Incoming!Id /\ (Incoming!Astray(h)' <=> Incoming!Astray(h))
  BY <1>2 DEF IngressInv, IncomingEvent, Incoming!Astray
<1>8. HandedHome' /\ SubscribedTo'
  BY <1>6, <1>7 DEF IngressInv, HandedHome, FlatPlaces, Incoming!TopicOf, SubscribedTo,
                    Incoming!InDM
<1>9. Incoming!OwnWordsAreIgnored'
  BY <1>2, <1>7 DEF IngressInv, Incoming!OwnWordsAreIgnored
<1>10. Incoming!SubscribersHear'
  BY <1>2, <1>7 DEF IngressInv, Incoming!SubscribersHear, Incoming!InDM
<1>11. QED
  BY <1>3, <1>4, <1>5, <1>8, <1>9, <1>10 DEF IngressInv, KnowsItself, StillAsked

\* Where neither a message nor an event is added.
LEMMA WhatWasHandedStays ==
    ASSUME IngressInv, UNCHANGED <<in_platform, in_place, in_messages, in_handed>>
    PROVE  /\ ConversationTypes' /\ Incoming!OwnWordsAreIgnored' /\ HandedHome'
           /\ \A h \in in_handed' : IncomingEvent(h)' /\ h.thread \in IncomingThreads'
           /\ UNCHANGED in_subscribed => SubscribedTo' /\ Incoming!SubscribersHear'
<1>1. ConversationTypes'
  BY DEF IngressInv, ConversationTypes, Incoming!Id, Incoming!Root
<1>2. Incoming!OwnWordsAreIgnored'
  BY DEF IngressInv, Incoming!OwnWordsAreIgnored, Incoming!Own
<1>3. \A h \in in_handed : (Incoming!Astray(h)' <=> Incoming!Astray(h))
          /\ ThreadOfEvents(h.of)' = ThreadOfEvents(h.of)
  BY DEF Incoming!Astray, ThreadOfEvents, Incoming!TopicOf, Incoming!TopLevel,
         Incoming!Root, Incoming!Start
<1>4. HandedHome'
  BY <1>3 DEF IngressInv, HandedHome, FlatPlaces, Incoming!TopicOf
<1>5. \A h \in in_handed' : IncomingEvent(h)' /\ h.thread \in IncomingThreads'
  BY DEF IngressInv, IncomingEvent, IncomingThreads, Incoming!Id
<1>6. UNCHANGED in_subscribed => SubscribedTo' /\ Incoming!SubscribersHear'
  BY DEF IngressInv, SubscribedTo, Incoming!SubscribersHear, Incoming!InDM,
         Incoming!TopLevel, Incoming!Root
<1>7. QED
  BY <1>1, <1>2, <1>4, <1>5, <1>6

\* An event that is handed to Chat: an adapter that knows itself, or learns it from the
\* answer, drops its own words; of the others each finds its thread.
LEMMA HandedOthers ==
    ASSUME IngressInv, NEW e, NEW told \in BOOLEAN, NEW learnt, NEW known, IncomingEvent(e),
          learnt => in_returned,
           known => in_identity, Incoming!Handed(e, told, learnt, known),
                 UNCHANGED <<in_platform, in_place, in_messages, in_subscribed, in_returned>>
    PROVE  /\ ConversationTypes' /\ KnowsItself'
           /\ \A h \in in_handed' : IncomingEvent(h)' /\ h.thread \in IncomingThreads'
           /\ Incoming!OwnWordsAreIgnored' /\ HandedHome' /\ SubscribedTo'
           /\ Incoming!SubscribersHear'
           /\ in_identity => in_identity'
<1>1. in_identity' = Incoming!Known(told) /\ (in_identity => in_identity')
  BY DEF Incoming!Handed, Incoming!Known, IngressInv, KnowsItself
<1>2. ConversationTypes' /\ KnowsItself'
  BY <1>1 DEF IngressInv, ConversationTypes, KnowsItself, Incoming!Known, Incoming!Id,
              Incoming!Root
<1>3. CASE Incoming!Ignored(e, told)
  <2>1. UNCHANGED in_handed
    BY <1>3 DEF Incoming!Handed
  <2>2. QED
    BY <1>1, <1>2, <2>1, WhatWasHandedStays
<1>4. CASE ~Incoming!Ignored(e, told)
  <2>1. PICK t : t = Incoming!Thread(e, told)
    OBVIOUS
  <2>2. PICK g : g = [kind |-> e.kind, of |-> e.of, actor |-> e.actor, told |-> told, thread |-> t,
                      learnt |-> learnt, known |-> known]
    OBVIOUS
  <2>3. /\ in_handed' = in_handed \cup {g} /\ g.kind = e.kind /\ g.of = e.of /\ g.learnt = learnt
        /\ g.known = known
        /\ g.told = told /\ g.thread = t /\ g.actor = e.actor
    BY <1>4, <2>1, <2>2 DEF Incoming!Handed
  <2>4. Names(e, told, t)
    BY <2>1, ThreadsAreNamed DEF IngressInv
  <2>5. e.of \in Incoming!Id /\ Incoming!Root(e.of) \in 0 .. e.of - 1
            /\ Len(in_messages) \in 0 .. InMessages
    BY DEF IncomingEvent, IngressInv, ConversationTypes
  <2>6. t \in IncomingThreads
    <3>1. Len(in_messages) \in Nat /\ InMessages \in Nat /\ e.of \in 1 .. Len(in_messages)
      BY <2>5, IncomingAssumption DEF Incoming!Id, IncomingAssumption
    <3>2. {0, e.of, Incoming!Root(e.of), Incoming!TopicOf} \subseteq 0 .. Len(in_messages)
      BY <2>5, <3>1 DEF Incoming!TopicOf
    <3>3. ~Incoming!TopLevel(e.of) => Incoming!Root(e.of) \in Incoming!Id
      BY <2>5, <3>1 DEF Incoming!TopLevel, Incoming!Id
    <3>4. QED
      BY <2>4, <3>2, <3>3 DEF Names, IncomingThreads, Incoming!Stray
  <2>7. \A h \in in_handed' : IncomingEvent(h)' /\ h.thread \in IncomingThreads'
    BY <2>3, <2>6 DEF IngressInv, IncomingEvent, IncomingThreads, Incoming!Id
  <2>8. ASSUME g.kind \in {"message", "pubsub"}, Incoming!Own(g.of)
        PROVE  /\ ~g.known
               /\ in_platform = "linear" \/ (in_platform = "github" /\ ~g.learnt /\ ~g.told)
    <3>1. e.actor = "self" /\ e.kind \in {"message", "pubsub"}
      BY <2>3, <2>8 DEF IncomingEvent, Incoming!Own
    <3>2. ~Incoming!Known(told) /\ in_platform # "gchat"
      BY <1>4, <3>1 DEF Incoming!Ignored, Incoming!FromSelf
    <3>3. ~in_identity /\ (in_platform = "github" => ~told)
      BY <3>2 DEF Incoming!Known
    <3>4. QED
      BY <2>3, <3>2, <3>3 DEF IngressInv, KnowsItself
  <2>9. Incoming!OwnWordsAreIgnored'
    BY <2>3, <2>8 DEF IngressInv, Incoming!OwnWordsAreIgnored, Incoming!Own
  <2>10. \A h \in in_handed : (Incoming!Astray(h)' <=> Incoming!Astray(h))
            /\ ThreadOfEvents(h.of)' = ThreadOfEvents(h.of)
    BY DEF Incoming!Astray, ThreadOfEvents, Incoming!TopicOf, Incoming!TopLevel,
           Incoming!Root, Incoming!Start
  <2>11. ~Incoming!Astray(g) => t = ThreadOfEvents(e.of)
    BY <2>3, <2>4 DEF Names, Incoming!Astray
  <2>12. (Incoming!Astray(g)' <=> Incoming!Astray(g))
            /\ ThreadOfEvents(e.of)' = ThreadOfEvents(e.of)
    BY DEF Incoming!Astray, ThreadOfEvents, Incoming!TopicOf, Incoming!TopLevel,
           Incoming!Root, Incoming!Start
  <2>13. HandedHome'
    BY <2>3, <2>4, <2>10, <2>11, <2>12 DEF IngressInv, HandedHome, Names, FlatPlaces,
    Incoming!TopicOf
  <2>14. SubscribedTo'
    BY <2>3 DEF IngressInv, SubscribedTo, Incoming!InDM
  <2>15. ASSUME NEW s \in DOMAIN in_subscribed, g.kind \in {"message", "pubsub"}, g.told,
                IF s = 0 THEN Incoming!InDM /\ Incoming!TopLevel(g.of) ELSE Incoming!Root(g.of) = s,
                <<in_platform, in_place>> = <<"gchat", "dm">> => s = 0 /\ g.kind = "message"
         PROVE  t = s
    <3>1. FlatPlaces => s \in {0, Incoming!TopicOf}
      BY DEF IngressInv, SubscribedTo, HandedHome
    <3>2. CASE in_place = "agent dm"
      <4>1. in_platform = "slack" /\ e.kind = "message"
        BY <2>3, <2>15, <3>2, PlacesKnown, KindsKnown DEF IngressInv, IncomingEvent
      <4>2. CASE s = 0
        BY <2>3, <2>4, <2>15, <3>2, <4>1, <4>2 DEF Names, Incoming!Bridged,
        Incoming!TopLevel, Incoming!InDM, Incoming!Start
      <4>3. CASE s # 0
        <5>1. t = 0 \/ t = ThreadOfEvents(e.of)
          BY <2>3, <2>4, <2>15, <3>2, <4>1 DEF Names
        <5>2. ThreadOfEvents(e.of) = s
          BY <2>3, <2>15, <3>2, <4>1, <4>3 DEF ThreadOfEvents, Incoming!Start,
          Incoming!TopLevel
        <5>3. t # 0
          BY <2>1, <2>3, <2>15, <3>2, <4>1, <4>3
             DEF Incoming!Thread, Incoming!Slack, Incoming!SlackThread, Incoming!Bridged,
                 Incoming!Start, Incoming!TopLevel
        <5>4. QED
          BY <5>1, <5>2, <5>3
      <4>4. QED
        BY <4>2, <4>3
    <3>3. CASE in_place # "agent dm"
      <4>1. t = ThreadOfEvents(e.of)
        <5>1. in_platform = "discord" => e.kind # "pubsub"
          BY KindsKnown DEF IncomingEvent
        <5>2. QED
          BY <2>3, <2>4, <2>15, <3>3, <5>1 DEF Names
      <4>2. ThreadOfEvents(e.of) = s
        <5>1. ConversationTypes
          BY DEF IngressInv
        <5>2. CASE s = 0
          BY <2>3, <2>15, <3>3, <5>1, <5>2, PlacesKnown DEF ThreadOfEvents,
          Incoming!Start, Incoming!TopLevel, Incoming!InDM, Incoming!TopicOf
        <5>3. CASE s # 0
          BY <2>3, <2>15, <3>1, <3>3, <5>1, <5>3, PlacesKnown DEF ThreadOfEvents,
          Incoming!Start, Incoming!TopLevel, Incoming!InDM, Incoming!TopicOf, FlatPlaces
        <5>4. QED
          BY <5>2, <5>3
      <4>3. QED
        BY <4>1, <4>2
    <3>4. QED
      BY <3>2, <3>3
  <2>16. Incoming!SubscribersHear'
    <3>1. \A h \in in_handed, s \in DOMAIN in_subscribed :
             /\ h.kind \in {"message", "pubsub"} /\ h.told /\ h.of > in_subscribed[s]
             /\ IF s = 0 THEN Incoming!InDM /\ Incoming!TopLevel(h.of) ELSE Incoming!Root(h.of) = s
             /\ <<in_platform, in_place>> = <<"gchat", "dm">> => s = 0 /\ h.kind = "message"
             => h.thread = s
      BY DEF IngressInv, Incoming!SubscribersHear
    <3>2. \A h \in in_handed', s \in DOMAIN in_subscribed :
             /\ h.kind \in {"message", "pubsub"} /\ h.told /\ h.of > in_subscribed[s]
             /\ IF s = 0 THEN Incoming!InDM /\ Incoming!TopLevel(h.of) ELSE Incoming!Root(h.of) = s
             /\ <<in_platform, in_place>> = <<"gchat", "dm">> => s = 0 /\ h.kind = "message"
             => h.thread = s
      BY <2>3, <2>15, <3>1
    <3>3. QED
      BY <3>2 DEF Incoming!SubscribersHear, Incoming!InDM, Incoming!TopLevel, Incoming!Root
  <2>17. QED
    BY <1>1, <1>2, <2>7, <2>9, <2>13, <2>14, <2>16
<1>5. QED
  BY <1>3, <1>4

LEMMA IngressInitially == Incoming!Init => IngressInv
<1> SUFFICES ASSUME Incoming!Init PROVE IngressInv
  OBVIOUS
<1>1. in_messages = <<>> /\ in_asked = {} /\ in_handed = {} /\ in_subscribed = <<>>
                         /\ in_returned = FALSE
  BY DEF Incoming!Init
<1>2. Len(in_messages) = 0 /\ in_messages \in Seq(IncomingLetter)
          /\ DOMAIN in_subscribed = {} /\ Incoming!Id = {}
  BY <1>1 DEF Incoming!Id
<1>3. ConversationTypes
  BY <1>2, IncomingAssumption DEF Incoming!Init, ConversationTypes, IncomingAssumption
<1>4. KnowsItself
  BY <1>1 DEF Incoming!Init, KnowsItself
<1>5. QED
  BY <1>1, <1>2, <1>3, <1>4 DEF IngressInv, Incoming!OwnWordsAreIgnored, HandedHome,
                                SubscribedTo, Incoming!SubscribersHear

LEMMA IngressStep == IngressInv /\ [Incoming!Next]_Incoming!vars => IngressInv'
<1> SUFFICES ASSUME IngressInv, [Incoming!Next]_Incoming!vars PROVE IngressInv'
  OBVIOUS
<1>0. InMessages \in Nat /\ Len(in_messages) \in Nat /\ Len(in_messages) \in 0 .. InMessages
  BY IncomingAssumption DEF IngressInv, ConversationTypes, IncomingAssumption
<1>1. ASSUME NEW root \in 0 .. InMessages, NEW mention \in BOOLEAN, Incoming!UserWrites(root, mention)
      PROVE  IngressInv'
  <2>1. root \in 0 .. Len(in_messages) /\ root \in Nat
    BY <1>0, <1>1 DEF Incoming!UserWrites, Incoming!Id
  <2>2. PICK w : w = [root |-> root, by |-> "user", mention |-> mention]
    OBVIOUS
  <2>3. w \in IncomingLetter /\ w.root \in 0 .. Len(in_messages)
    BY <2>1, <2>2 DEF IncomingLetter
  <2>4. /\ in_messages' = Append(in_messages, w) /\ Len(in_messages) < InMessages
        /\ UNCHANGED <<in_platform, in_place, in_identity, in_asked, in_handed, in_subscribed,
                        in_returned>>
    BY <1>1, <2>2 DEF Incoming!UserWrites, Incoming!Write
  <2>5. QED
    BY <2>3, <2>4, WordsStay
<1>2. ASSUME NEW h \in in_handed, Incoming!HandlerPosts(h)
      PROVE  IngressInv'
  <2>1. PICK root : root = IF in_platform = "telegram" THEN 0
                           ELSE IF h.thread > InMessages THEN h.thread - InMessages ELSE h.thread
    OBVIOUS
  <2>2. h.thread \in IncomingThreads
    BY DEF IngressInv
  <2>3. root \in 0 .. Len(in_messages) /\ root \in Nat
    BY <1>0, <2>1, <2>2 DEF IncomingThreads, Incoming!Id
  <2>4. PICK w : w = [root |-> root, by |-> "self", mention |-> FALSE]
    OBVIOUS
  <2>5. w \in IncomingLetter /\ w.root \in 0 .. Len(in_messages)
    BY <2>3, <2>4 DEF IncomingLetter
  <2>6. /\ in_messages' = Append(in_messages, w) /\ Len(in_messages) < InMessages
        /\ UNCHANGED <<in_platform, in_place, in_identity, in_asked, in_handed, in_subscribed,
                        in_returned>>
    BY <1>2, <2>1, <2>4 DEF Incoming!HandlerPosts, Incoming!Write
  <2>7. QED
    BY <2>5, <2>6, WordsStay
<1>3. ASSUME UNCHANGED <<in_platform, in_place, in_messages, in_asked, in_handed>>, KnowsItself',
             SubscribedTo', Incoming!SubscribersHear', in_returned => in_returned',
             in_identity => in_identity'
      PROVE  IngressInv'
  <2>1. \A a \in in_asked' : StillAsked(a)'
    BY <1>3 DEF IngressInv, StillAsked, IncomingEvent, Incoming!Id
  <2>2. QED
    BY <1>3, <2>1, WhatWasHandedStays DEF IngressInv
<1>4. CASE Incoming!PostReturns
  BY <1>3, <1>4 DEF Incoming!PostReturns, IngressInv, KnowsItself, SubscribedTo,
                    Incoming!SubscribersHear, Incoming!InDM, Incoming!TopLevel,
                            Incoming!Root
<1>5. ASSUME NEW t \in 0 .. 2 * InMessages, Incoming!Subscribe(t) PROVE IngressInv'
  <2>1. /\ DOMAIN in_subscribed' = {t} /\ in_subscribed'[t] = Len(in_messages)
        /\ (\E h \in in_handed : h.thread = t) \/ (Incoming!InDM /\ t = 0)
        /\ UNCHANGED <<in_platform, in_place, in_identity, in_messages, in_asked, in_handed,
                        in_returned>>
    BY <1>5 DEF Incoming!Subscribe
  <2>2. SubscribedTo'
    BY <2>1 DEF SubscribedTo, Incoming!InDM
  <2>3. \A h \in in_handed : ~(h.of > Len(in_messages))
    BY <1>0 DEF IngressInv, IncomingEvent, Incoming!Id
  <2>4. Incoming!SubscribersHear'
    BY <2>1, <2>3 DEF Incoming!SubscribersHear
  <2>5. QED
    BY <1>3, <2>1, <2>2, <2>4 DEF IngressInv, KnowsItself
<1>6. ASSUME NEW kind \in Incoming!Kinds[in_platform], NEW m \in Incoming!Id,
          NEW actor \in {"user", "self"},
             Incoming!Receive(kind, m, actor)
      PROVE  IngressInv'
  <2>1. PICK e : e = [kind |-> kind, of |-> m, actor |-> actor]
    OBVIOUS
  <2>2. IncomingEvent(e)
    BY <1>6, <2>1 DEF Incoming!Receive, IncomingEvent
  <2>3. UNCHANGED <<in_platform, in_place, in_messages, in_subscribed, in_returned>>
    BY <1>6 DEF Incoming!Receive
  <2>4. CASE Incoming!Asks(e)
    <3>1. PICK a : a = [event |-> e, learnt |-> in_returned, known |-> in_identity]
      OBVIOUS
    <3>2. in_asked' = in_asked \cup {a} /\ UNCHANGED <<in_identity, in_handed>>
      BY <1>6, <2>1, <2>4, <3>1 DEF Incoming!Receive
    <3>3. a.event = e /\ a.learnt = in_returned /\ a.known = in_identity
      BY <3>1
    <3>4. \A b \in in_asked' : StillAsked(b)'
      BY <2>2, <2>3, <3>2, <3>3 DEF IngressInv, StillAsked, IncomingEvent, Incoming!Id
    <3>5. QED
      BY <2>3, <3>2, <3>4, WhatWasHandedStays DEF IngressInv, KnowsItself
  <2>5. CASE ~Incoming!Asks(e)
    <3>1. Incoming!Handed(e, TRUE, in_returned, in_identity) /\ UNCHANGED in_asked
      BY <1>6, <2>1, <2>5 DEF Incoming!Receive
    <3>2. /\ ConversationTypes' /\ KnowsItself'
          /\ \A h \in in_handed' : IncomingEvent(h)' /\ h.thread \in IncomingThreads'
          /\ Incoming!OwnWordsAreIgnored' /\ HandedHome' /\ SubscribedTo'
          /\ Incoming!SubscribersHear'
          /\ in_identity => in_identity'
      <4>1. PICK learnt, known : learnt = in_returned /\ known = in_identity
        OBVIOUS
      <4>2. Incoming!Handed(e, TRUE, learnt, known) /\ (learnt => in_returned) /\ (known => in_identity)
        BY <3>1, <4>1
      <4>3. QED
        BY <2>2, <2>3, <4>2, HandedOthers
    <3>3. \A b \in in_asked' : StillAsked(b)'
      BY <2>3, <3>1, <3>2 DEF IngressInv, StillAsked, IncomingEvent, Incoming!Id
    <3>4. QED
      BY <3>2, <3>3 DEF IngressInv
  <2>6. QED
    BY <2>4, <2>5
<1>7. ASSUME NEW a \in in_asked, NEW told \in BOOLEAN, Incoming!Answered(a, told) PROVE IngressInv'
  <2>1. /\ Incoming!Handed(a.event, told, a.learnt, a.known) /\ in_asked' = in_asked \ {a}
        /\ UNCHANGED <<in_platform, in_place, in_messages, in_subscribed, in_returned>>
    BY <1>7 DEF Incoming!Answered
  <2>2. IncomingEvent(a.event) /\ (a.learnt => in_returned) /\ (a.known => in_identity)
    BY DEF IngressInv, StillAsked
  <2>3. /\ ConversationTypes' /\ KnowsItself'
        /\ \A h \in in_handed' : IncomingEvent(h)' /\ h.thread \in IncomingThreads'
        /\ Incoming!OwnWordsAreIgnored' /\ HandedHome' /\ SubscribedTo' /\ Incoming!SubscribersHear'
        /\ in_identity => in_identity'
    BY <2>1, <2>2, HandedOthers
  <2>4. \A b \in in_asked' : StillAsked(b)'
    BY <2>1, <2>3 DEF IngressInv, StillAsked, IncomingEvent, Incoming!Id
  <2>5. QED
    BY <2>3, <2>4 DEF IngressInv
<1>8. CASE UNCHANGED Incoming!vars
  BY <1>3, <1>8 DEF Incoming!vars, IngressInv, KnowsItself, SubscribedTo,
                    Incoming!SubscribersHear, Incoming!InDM, Incoming!TopLevel,
                            Incoming!Root
<1>9. QED
  BY <1>1, <1>2, <1>4, <1>5, <1>6, <1>7, <1>8 DEF Incoming!Next

LEMMA IngressFollows == IngressInv => Incoming!EventsFindTheirThread /\ Incoming!OwnWordsAreIgnored
BY DEF IngressInv, HandedHome, Incoming!EventsFindTheirThread, Incoming!ThreadsAgree

-----------------------------------------------------------------------------
(* A guarded download, of any limits.                                      *)
CONSTANTS
    Redirects,      \* how many redirects are followed
    Deadline,       \* the time a download has
    Limit,          \* the size a body may have
    DownloadFaults  \* bound on the failing calls

ASSUME GuardedAssumption == {Redirects, Deadline, Limit, DownloadFaults} \subseteq Nat

VARIABLES
    dl_now, dl_form, dl_listed, dl_hop, dl_place, dl_pc, dl_task,
    dl_asked, dl_unclosed, dl_closing, dl_body, dl_declared, dl_then,
    dl_outcome, dl_faults

Guarded == INSTANCE Download WITH
    Redirects <- Redirects, Deadline <- Deadline, Limit <- Limit,
    MaxFaults <- DownloadFaults, now <- dl_now, form <- dl_form, listed <- dl_listed, hop <- dl_hop, place <- dl_place, pc <- dl_pc,
    task <- dl_task, asked <- dl_asked, unclosed <- dl_unclosed, closing <-
    dl_closing, body <- dl_body, declared <- dl_declared, then <- dl_then, outcome
    <- dl_outcome, faults <- dl_faults

dlVars == <<dl_now, dl_form, dl_listed, dl_hop, dl_place, dl_pc, dl_task,
    dl_asked, dl_unclosed, dl_closing, dl_body, dl_declared, dl_then, dl_outcome,
    dl_faults>>

\* What a download is at.
DownloadTypes ==
    /\ dl_now \in 0 .. Deadline + 1 /\ dl_hop \in 0 .. Redirects /\ dl_place \in Guarded!Places
    /\ dl_pc \in {"hop", "headers", "over", "waiting", "hook", "reading", "closing"}
    /\ dl_task \in {"none", "running", "answered", "abandoned"}
    /\ dl_unclosed \subseteq 0 .. Redirects /\ dl_closing \subseteq 0 .. Redirects
    /\ dl_body \in 0 .. Limit /\ dl_declared \in -1 .. Limit + 1
    /\ dl_outcome \in {"none", "bytes", "refused", "failed", "timeout", "cancelled"}
    /\ dl_then \in {"none", "next", "bytes", "refused", "failed", "timeout"}
    /\ dl_faults \in Nat

\* Where it stands, what its request does and what is to follow go together.
DownloadInStep ==
    /\ dl_pc = "waiting" <=> dl_task \in {"running", "answered"}
    /\ dl_task = "abandoned" => dl_pc = "over" /\ dl_outcome # "bytes"
    /\ dl_outcome # "none" <=> dl_pc = "over"
    /\ dl_then # "none" <=> dl_pc = "closing"
    /\ dl_then = "next" => dl_hop < Redirects

\* Only the response being looked at may be open with no close under way.
OpenOnes ==
    /\ dl_unclosed \ dl_closing \subseteq {dl_hop}
    /\ dl_pc \in {"hop", "headers", "closing", "over"} \/ dl_task = "running" =>
          dl_unclosed \subseteq dl_closing

AskedAreVetted ==
    /\ Guarded!Valid(dl_place) /\ dl_asked \in Seq([place : Guarded!Places,
                                                      credentials : BOOLEAN, at : Nat])
    /\ Len(dl_asked) <= dl_hop + 1
    /\ dl_pc \in {"hop", "headers"} => Len(dl_asked) <= dl_hop
    /\ \A i \in 1 .. Len(dl_asked) : /\ dl_asked[i].at < Deadline
                                     /\ Guarded!Valid(dl_asked[i].place)
                                     /\ dl_form = "mapping" /\ dl_asked[i].credentials =>
                                           dl_asked[i].place = "home"

BodyIsMeasured ==
    /\ dl_declared >= 0 => dl_body <= dl_declared
    /\ dl_pc \in {"hop", "headers", "waiting"} \/ dl_then = "next" => dl_body = 0
    /\ dl_then = "bytes" \/ dl_outcome = "bytes" => dl_declared <= Limit

DownloadInTime == dl_now > Deadline => dl_outcome # "none" \/ dl_pc = "headers"

DownloadInv == DownloadTypes /\ DownloadInStep /\ OpenOnes /\ AskedAreVetted
      /\ BodyIsMeasured /\ DownloadInTime

LEMMA DownloadInitially == Guarded!Init => DownloadInv
<1> SUFFICES ASSUME Guarded!Init PROVE DownloadInv
  OBVIOUS
<1>0. Deadline \in Nat /\ Limit \in Nat /\ Redirects \in Nat
  BY GuardedAssumption DEF GuardedAssumption
<1>1. dl_asked = <<>> /\ Len(dl_asked) = 0 /\ dl_asked \in Seq([place : Guarded!Places,
                                                                  credentials : BOOLEAN, at : Nat])
  BY DEF Guarded!Init
<1>2. AskedAreVetted
  BY <1>0, <1>1 DEF Guarded!Init, AskedAreVetted, Guarded!Valid
<1>3. QED
  BY <1>0, <1>2 DEF Guarded!Init, DownloadInv, DownloadTypes, DownloadInStep, OpenOnes,
                    BodyIsMeasured, DownloadInTime, Guarded!Places

\* A step that asks nothing new keeps what was asked vetted.
LEMMA AskedStays ==
    ASSUME DownloadInv, UNCHANGED <<dl_form, dl_listed, dl_asked>>, Guarded!Valid(dl_place'),
          dl_hop' \in Int, dl_hop' >= dl_hop,
           dl_pc' \in {"hop", "headers"} => dl_hop' > dl_hop \/ dl_pc \in {"hop", "headers"}
    PROVE  AskedAreVetted'
<1>1. dl_hop \in Int /\ Len(dl_asked) \in Nat
  BY GuardedAssumption DEF DownloadInv, DownloadTypes, AskedAreVetted, GuardedAssumption
<1>2. QED
  BY <1>1 DEF DownloadInv, AskedAreVetted, Guarded!Valid

LEMMA DownloadStep == DownloadInv /\ [Guarded!Next]_Guarded!vars => DownloadInv'
<1> SUFFICES ASSUME DownloadInv, [Guarded!Next]_Guarded!vars PROVE DownloadInv'
  OBVIOUS
<1>0. Deadline \in Nat /\ Limit \in Nat /\ Redirects \in Nat /\ DownloadFaults \in Nat
  BY GuardedAssumption DEF GuardedAssumption
<1> DEFINE Rest == DownloadTypes' /\ DownloadInStep' /\ OpenOnes' /\ BodyIsMeasured'
          /\ DownloadInTime'
<1>v. ASSUME Rest, UNCHANGED <<dl_form, dl_listed, dl_asked>>, UNCHANGED dl_place,
          dl_hop' >= dl_hop,
             dl_pc' \in {"hop", "headers"} => dl_hop' > dl_hop \/ dl_pc \in {"hop", "headers"}
      PROVE  DownloadInv'
  <2>1. dl_hop' \in Int /\ Guarded!Valid(dl_place')
    BY <1>0, <1>v DEF DownloadTypes, DownloadInv, AskedAreVetted, Guarded!Valid
  <2>2. AskedAreVetted'
    BY <1>v, <2>1, AskedStays
  <2>3. QED
    BY <1>v, <2>2 DEF DownloadInv
<1>h. dl_hop \in Int /\ dl_hop >= dl_hop
  BY <1>0 DEF DownloadInv, DownloadTypes
<1> USE DEF DownloadInv, DownloadTypes, DownloadInStep, OpenOnes, BodyIsMeasured,
            DownloadInTime, Guarded!fixed, Guarded!Finish, Guarded!Close,
                    Guarded!Abandon, Guarded!Expired, Guarded!Bounded
<1>1. CASE Guarded!BeginHop
  BY <1>0, <1>1, <1>v, <1>h DEF Guarded!BeginHop
<1>2. CASE Guarded!SlowHeaders
  BY <1>0, <1>2, <1>v, <1>h DEF Guarded!SlowHeaders
<1>3. CASE Guarded!Send
  <2>1. CASE Guarded!Expired
    BY <1>0, <1>3, <2>1, <1>v, <1>h DEF Guarded!Send
  <2>2. CASE ~Guarded!Expired
    <3>1. PICK a : a = [place |-> dl_place, credentials |-> Guarded!HopHeaders(dl_place),
                          at |-> dl_now]
      OBVIOUS
    <3>2. dl_asked' = Append(dl_asked, a) /\ UNCHANGED <<dl_form, dl_listed, dl_place,
                                                          dl_hop>> /\ dl_pc' = "waiting"
                                                                   /\ dl_pc = "headers"
      BY <1>3, <2>2, <3>1 DEF Guarded!Send
    <3>3. Rest
      BY <1>0, <1>3, <2>2 DEF Guarded!Send
    <3>4. /\ a \in [place : Guarded!Places, credentials : BOOLEAN, at : Nat] /\ a.at < Deadline
          /\ Guarded!Valid(a.place) /\ (dl_form = "mapping" /\ a.credentials => a.place = "home")
      <4>1. a.place = dl_place /\ a.at = dl_now /\ a.credentials = Guarded!HopHeaders(dl_place)
        BY <3>1
      <4>2. Guarded!HopHeaders(dl_place) \in BOOLEAN /\ (dl_form = "mapping"
                                                           /\ Guarded!HopHeaders(dl_place) =>
                                                                 dl_place = "home")
        <5>1. CASE dl_form = "mapping"
          <6>1. Guarded!HopHeaders(dl_place) = (dl_place = "home")
            BY <5>1 DEF Guarded!HopHeaders
          <6>2. QED
            BY <6>1
        <5>2. CASE dl_form # "mapping"
          <6>1. Guarded!HopHeaders(dl_place) = (dl_place \in {"home", "cdn"})
            BY <5>2 DEF Guarded!HopHeaders
          <6>2. QED
            BY <5>2, <6>1
        <5>3. QED
          BY <5>1, <5>2
      <4>3. dl_now \in Nat /\ dl_now < Deadline
        BY <1>0, <2>2
      <4>4. a \in [place : Guarded!Places, credentials : BOOLEAN, at : Nat]
        BY <3>1, <4>2, <4>3
      <4>5. QED
        BY <4>1, <4>2, <4>3, <4>4 DEF AskedAreVetted
    <3>5. /\ dl_asked \in Seq([place : Guarded!Places, credentials : BOOLEAN, at : Nat])
          /\ Len(dl_asked) \in Nat /\ Len(dl_asked) <= dl_hop
      BY <3>2 DEF AskedAreVetted
    <3>6. /\ dl_asked' \in Seq([place : Guarded!Places, credentials : BOOLEAN, at : Nat])
          /\ Len(dl_asked') = Len(dl_asked) + 1 /\ dl_asked'[Len(dl_asked) + 1] = a
          /\ \A i \in 1 .. Len(dl_asked) : dl_asked'[i] = dl_asked[i]
      BY <3>2, <3>4, <3>5, AppendProperties
    <3>7. \A i \in 1 .. Len(dl_asked') : i \in 1 .. Len(dl_asked) \/ i = Len(dl_asked) + 1
      BY <3>5, <3>6
    <3>8. AskedAreVetted'
      BY <1>h, <3>2, <3>4, <3>5, <3>6, <3>7 DEF AskedAreVetted, Guarded!Valid
    <3>9. QED
      BY <3>3, <3>8
  <2>3. QED
    BY <2>1, <2>2
<1>4. CASE Guarded!Answer
  BY <1>0, <1>4, <1>v, <1>h DEF Guarded!Answer
<1>5. CASE Guarded!Obey
  BY <1>0, <1>5, <1>v, <1>h DEF Guarded!Obey
<1>6. CASE Guarded!RequestFails
  BY <1>0, <1>6, <1>v, <1>h DEF Guarded!RequestFails
<1>7. ASSUME NEW h \in 0 .. Redirects, Guarded!Closed(h) PROVE DownloadInv'
  BY <1>0, <1>7, <1>v, <1>h DEF Guarded!Closed
<1>8. CASE Guarded!TimeOut
  BY <1>0, <1>8, <1>v, <1>h DEF Guarded!TimeOut
<1>9. CASE Guarded!Redirected
  <2>1. PICK to \in Guarded!Places : IF dl_hop = Redirects
                                        \/ ~Guarded!Valid(to) THEN Guarded!Close("refused")
                                              /\ UNCHANGED dl_place
                             ELSE Guarded!Close("next") /\ dl_place' = to
    BY <1>9 DEF Guarded!Redirected
  <2>2. CASE dl_hop = Redirects \/ ~Guarded!Valid(to)
    BY <1>0, <1>9, <2>1, <2>2, <1>v, <1>h DEF Guarded!Redirected
  <2>3. CASE dl_hop # Redirects /\ Guarded!Valid(to)
    <3>0. /\ dl_pc' = "closing" /\ dl_then' = "next"
          /\ dl_closing' = dl_closing \cup {dl_hop} /\ dl_task' = "none"
          /\ dl_pc = "waiting" /\ dl_hop < Redirects /\ dl_place' \in Guarded!Places
          /\ to = dl_place'
          /\ UNCHANGED <<dl_now, dl_hop, dl_asked, dl_unclosed, dl_body, dl_declared,
                          dl_outcome, dl_faults>>
      BY <1>0, <1>9, <2>1, <2>3 DEF Guarded!Redirected
    <3>1. Rest
      BY <1>0, <3>0
    <3>2. AskedAreVetted'
      BY <1>9, <1>h, <2>1, <2>3, AskedStays DEF Guarded!Redirected
    <3>3. QED
      BY <3>1, <3>2
  <2>4. QED
    BY <2>2, <2>3
<1>10. CASE Guarded!Refused
  BY <1>0, <1>10, <1>v, <1>h DEF Guarded!Refused
<1>11. CASE Guarded!Succeeded
  BY <1>0, <1>11, <1>v, <1>h DEF Guarded!Succeeded
<1>12. CASE Guarded!HookEnds
  BY <1>0, <1>12, <1>v, <1>h DEF Guarded!HookEnds
<1>13. CASE Guarded!HookRaises
  BY <1>0, <1>13, <1>v, <1>h DEF Guarded!HookRaises
<1>14. CASE Guarded!Take
  <2>1. CASE Guarded!Fits(dl_body + 1) /\ dl_declared <= Limit
    <3>1. /\ dl_body' = dl_body + 1 /\ dl_body + 1 <= Limit /\ (dl_declared >= 0 =>
                                                                  dl_body + 1 <= dl_declared)
          /\ dl_pc = "reading"
      BY <1>14, <2>1 DEF Guarded!Take, Guarded!Fits
    <3>2. /\ UNCHANGED <<dl_form, dl_listed, dl_now, dl_hop, dl_place, dl_pc, dl_task,
                          dl_asked, dl_unclosed, dl_closing, dl_declared>>
          /\ UNCHANGED <<dl_then, dl_outcome, dl_faults>>
      BY <1>14, <2>1 DEF Guarded!Take
    <3>3. DownloadTypes' /\ DownloadInStep' /\ OpenOnes' /\ DownloadInTime'
      BY <1>0, <3>1, <3>2
    <3>4. dl_then # "next"
      BY <3>1
    <3>5. BodyIsMeasured'
      BY <1>0, <3>1, <3>2, <3>4
    <3>6. QED
      BY <1>v, <1>h, <3>1, <3>2, <3>3, <3>5
  <2>2. CASE ~(Guarded!Fits(dl_body + 1) /\ dl_declared <= Limit)
    BY <1>0, <1>14, <2>2, <1>v, <1>h DEF Guarded!Take
  <2>3. QED
    BY <2>1, <2>2
<1>15. CASE Guarded!BodyEnds
  BY <1>0, <1>15, <1>v, <1>h DEF Guarded!BodyEnds
<1>16. CASE Guarded!BodyBreaks
  BY <1>0, <1>16, <1>v, <1>h DEF Guarded!BodyBreaks
<1>17. CASE Guarded!LateAfterAnswer
  BY <1>0, <1>17, <1>v, <1>h DEF Guarded!LateAfterAnswer
<1>18. CASE Guarded!AfterClose
  <2>1. CASE dl_then = "next"
    BY <1>0, <1>18, <2>1, <1>v, <1>h DEF Guarded!AfterClose
  <2>2. CASE dl_then # "next"
    BY <1>0, <1>18, <2>2, <1>v, <1>h DEF Guarded!AfterClose
  <2>3. QED
    BY <2>1, <2>2
<1>19. CASE Guarded!Cancel
  BY <1>0, <1>19, <1>v, <1>h DEF Guarded!Cancel
<1>20. CASE Guarded!Tick
  BY <1>0, <1>20, <1>v, <1>h DEF Guarded!Tick
<1>21. CASE UNCHANGED Guarded!vars
  BY <1>0, <1>21, <1>v, <1>h DEF Guarded!vars
<1>22. QED
  BY <1>1, <1>2, <1>3, <1>4, <1>5, <1>6, <1>7, <1>8, <1>9, <1>10, <1>11, <1>12, <1>13,
  <1>14, <1>15, <1>16,
     <1>17, <1>18, <1>19, <1>20, <1>21 DEF Guarded!Next, Guarded!Step, Guarded!Quiet

LEMMA DownloadFollows == DownloadInv => Guarded!DownloadsAreGuarded
<1> SUFFICES ASSUME DownloadInv PROVE Guarded!DownloadsAreGuarded
  OBVIOUS
<1>0. Deadline \in Nat /\ Limit \in Nat /\ Redirects \in Nat
  BY GuardedAssumption DEF GuardedAssumption
<1>1. Guarded!TypeOK
  <2>1. Len(dl_asked) \in Nat /\ Len(dl_asked) <= dl_hop + 1 /\ dl_hop \in 0 .. Redirects
    BY DEF DownloadInv, AskedAreVetted, DownloadTypes
  <2>2. Len(dl_asked) <= Redirects + 1
    BY <1>0, <2>1
  <2>3. QED
    BY <1>0, <2>2 DEF DownloadInv, DownloadTypes, Guarded!TypeOK, Guarded!Bounded
<1>2. Guarded!EveryResponseIsClosed
  BY DEF DownloadInv, DownloadInStep, OpenOnes, Guarded!EveryResponseIsClosed
<1>3. Guarded!DeadlineHolds /\ Guarded!RequestsAreVetted
  BY DEF DownloadInv, AskedAreVetted, DownloadInTime, Guarded!DeadlineHolds,
         Guarded!RequestsAreVetted
<1>4. Guarded!BytesAreWhole
  BY <1>0 DEF DownloadInv, DownloadTypes, DownloadInStep, BodyIsMeasured,
              Guarded!BytesAreWhole
<1>5. QED
  BY <1>1, <1>2, <1>3, <1>4 DEF Guarded!DownloadsAreGuarded

-----------------------------------------------------------------------------
(* The files of a message that waits while installations change.           *)
CONSTANT FileChanges  \* bound on the changes of the installations

ASSUME QueuedAssumption == FileChanges \in Nat

VARIABLES
    qf_form, qf_request, qf_installed, qf_changes, qf_path, qf_files,
    qf_place, qf_drainer, qf_got

Queued == INSTANCE QueuedFiles WITH
    MaxChanges <- FileChanges, form <- qf_form, request <- qf_request, installed <-
    qf_installed, changes <- qf_changes, path <- qf_path, files <- qf_files, place
    <- qf_place, drainer <- qf_drainer, got <- qf_got

qfVars == <<qf_form, qf_request, qf_installed, qf_changes, qf_path, qf_files,
    qf_place, qf_drainer, qf_got>>

FixedCredentials == {"bot", "anonymous", "account", "access"}

\* What becomes of a file whose closure was dropped.
FileAnew(a) == Queued!Rehydrated(Queued!ToJson(a))

\* The request's own token, or the default one.
IsTheirs(token) ==
    \E v \in Nat : token = IF qf_form = "slackMulti" THEN Queued!Token(Queued!Installation(qf_request), v) ELSE Queued!Token("default", 1)

\* A file outside Slack does not depend on a token, and is made anew as it was.
LEMMA OthersAreMadeAnew ==
    ASSUME qf_form \in Queued!Forms, qf_form \notin Queued!SlackForms, NEW token, NEW other
    PROVE  /\ Queued!Received(token) = Queued!Received(other)
           /\ FileAnew(Queued!Received(token)).fetch = Queued!Received(token).fetch
           /\ Queued!Received(token).fetch = Queued!NoFetch
                 \/ Queued!Received(token).fetch.with \in FixedCredentials
           /\ Queued!ToJson(Queued!Received(token)).fetch = Queued!NoFetch
           /\ Queued!Received(token).fetch = Queued!NoFetch =>
                 Queued!ToJson(Queued!Received(token)) = Queued!Received(token)
<1> USE DEF FileAnew, Queued!Received, Queued!Rehydrated, Queued!ToJson,
            Queued!SlackForms, Queued!Attachment, Queued!Plain, Queued!Fetch,
                    Queued!NoFetch, Queued!NoMeta, Queued!None, Queued!NoToken,
            Queued!Token, FixedCredentials, Queued!Refetch, Queued!IdOrUrl
<1>1. CASE qf_form \in {"teamsFile", "teamsInline", "teamsPreview"}
  <2>1. CASE qf_form = "teamsInline"
    BY <2>1 DEF Queued!TeamsFile, Queued!RehydrateTeams
  <2>2. CASE qf_form = "teamsPreview"
    BY <2>2 DEF Queued!TeamsFile, Queued!RehydrateTeams
  <2>3. CASE qf_form = "teamsFile"
    BY <2>3 DEF Queued!TeamsFile, Queued!RehydrateTeams
  <2>4. QED
    BY <1>1, <2>1, <2>2, <2>3
<1>2. CASE qf_form = "googleResource"
  BY <1>2 DEF Queued!GoogleFile, Queued!RehydrateGoogle
<1>3. CASE qf_form = "googleLink"
  BY <1>3 DEF Queued!GoogleFile, Queued!RehydrateGoogle
<1>4. CASE qf_form = "telegram"
  BY <1>4 DEF Queued!TelegramFile, Queued!RehydrateTelegram
<1>5. CASE qf_form = "whatsappMedia"
  BY <1>5 DEF Queued!WhatsAppFile, Queued!RehydrateWhatsApp
<1>6. CASE qf_form = "whatsappLocation"
  BY <1>6 DEF Queued!WhatsAppFile, Queued!RehydrateWhatsApp
<1>7. CASE qf_form = "messenger"
  BY <1>7 DEF Queued!MessengerFile, Queued!RehydrateMessenger
<1>8. CASE qf_form = "discord"
  BY <1>8 DEF Queued!DiscordFile, Queued!RehydrateDiscord
<1>9. CASE qf_form = "twilio"
  BY <1>9 DEF Queued!TwilioFile, Queued!RehydrateTwilio
<1>10. QED
  BY <1>1, <1>2, <1>3, <1>4, <1>5, <1>6, <1>7, <1>8, <1>9 DEF Queued!Forms

\* Slack's fetches by the token, and made anew by the team, if the event names one.
LEMMA SlackIsMadeAnew ==
    ASSUME qf_form \in Queued!SlackForms, NEW token
    PROVE  /\ Queued!Received(token).fetch = Queued!Fetch("url", "token", token)
           /\ Queued!ToJson(Queued!Received(token)).fetch = Queued!NoFetch
           /\ LET team == IF qf_request.org THEN "org" ELSE qf_request.sender
              IN  FileAnew(Queued!Received(token)).fetch =
                      Queued!Fetch("url", IF team = Queued!None THEN "default" ELSE "installation", Queued!Token(team, 0))
<1>1. PICK a : a = Queued!Received(token)
  OBVIOUS
<1>2. PICK team : team = IF qf_request.org THEN "org" ELSE qf_request.sender
  OBVIOUS
<1>3. a = [url |-> "url", fetch |-> Queued!Fetch("url", "token", token),
           meta |-> [id |-> "url", team |-> team, org |-> qf_request.org, bot |-> FALSE,
                       origin |-> Queued!None]]
  <2>1. a = Queued!SlackFile("url", token)
    BY <1>1 DEF Queued!Received, Queued!SlackForms
  <2>2. QED
    BY <1>2, <2>1 DEF Queued!SlackFile, Queued!Attachment, Queued!NoMeta
<1>4. /\ Queued!ToJson(a).fetch = Queued!NoFetch /\ Queued!ToJson(a).url = "url"
      /\ Queued!ToJson(a).meta.id = "url"
      /\ Queued!ToJson(a).meta.team = team
      /\ \A f : [Queued!ToJson(a) EXCEPT !.fetch = f].fetch = f
  BY <1>3 DEF Queued!ToJson
<1>5. FileAnew(a) = Queued!RehydrateSlack(Queued!ToJson(a))
  BY DEF FileAnew, Queued!Rehydrated, Queued!SlackForms
<1>6. FileAnew(a).fetch = Queued!Fetch("url", IF team = Queued!None THEN "default" ELSE "installation", Queued!Token(team, 0))
  BY <1>4, <1>5 DEF Queued!RehydrateSlack, Queued!IdOrUrl, Queued!None
<1>7. QED
  BY <1>1, <1>2, <1>3, <1>4, <1>6

TwoFiles == {"here", "repliedTo"}

\* A file waits as it was received or without its closure; it is taken out as it was
\* received or made anew.
FileWays(token) ==
    CASE qf_place = "arrived" -> {Queued!Received(token)}
      [] qf_place = "queued"  -> {Queued!Received(token), Queued!ToJson(Queued!Received(token))}
      [] OTHER             -> {Queued!Received(token), FileAnew(Queued!Received(token))}

FilesInv ==
    /\ Queued!TypeOK
    /\ \A t \in Queued!Team : qf_installed[t] \in 0 .. qf_changes + 1
    /\ \E token : IsTheirs(token) /\ qf_files \in [TwoFiles -> FileWays(token)]
    /\ Queued!CredentialsAreTheirs /\ Queued!QueuesCostNoFile

LEMMA FilesInitially == Queued!Init => FilesInv
<1> SUFFICES ASSUME Queued!Init PROVE FilesInv
  OBVIOUS
<1>1. qf_form \in Queued!Forms /\ qf_request \in Queued!Requests
          /\ qf_installed \in [Queued!Team -> 0 .. 1] /\ qf_changes = 0 /\ qf_path = "none"
      /\ qf_place = "arrived" /\ qf_files = Queued!Arrives
  BY DEF Queued!Init
<1>2. PICK token : token = IF qf_form = "slackMulti" THEN Queued!Token(Queued!Installation(qf_request), qf_installed[Queued!Installation(qf_request)])
                           ELSE Queued!Token("default", 1)
  OBVIOUS
<1>3. qf_files = [i \in TwoFiles |-> Queued!Received(token)]
  BY <1>1, <1>2 DEF Queued!Arrives, TwoFiles
<1>4. IsTheirs(token)
  BY <1>2 DEF IsTheirs, Queued!Init
<1>5. qf_files \in [TwoFiles -> FileWays(token)]
  BY <1>1, <1>3 DEF FileWays
<1>6. Queued!TypeOK
  BY <1>1, <1>3, QueuedAssumption DEF Queued!TypeOK, TwoFiles
<1>7. QED
  BY <1>1, <1>4, <1>5, <1>6 DEF FilesInv, Queued!CredentialsAreTheirs,
                                Queued!QueuesCostNoFile

\* Who takes a message out rehydrates what has no closure.
LEMMA TakenOut ==
    ASSUME qf_form \in Queued!Forms, NEW token, NEW a \in {Queued!Received(token),
                                                             Queued!ToJson(Queued!Received(token))}
    PROVE  (IF a.fetch # Queued!NoFetch THEN a ELSE Queued!Rehydrated(a)) \in {Queued!Received(token), FileAnew(Queued!Received(token))}
<1>1. CASE a = Queued!ToJson(Queued!Received(token))
  <2>1. a.fetch = Queued!NoFetch
    BY <1>1, OthersAreMadeAnew, SlackIsMadeAnew
  <2>2. QED
    BY <1>1, <2>1 DEF FileAnew
<1>2. CASE a = Queued!Received(token) /\ a.fetch # Queued!NoFetch
  BY <1>2
<1>3. CASE a = Queued!Received(token) /\ a.fetch = Queued!NoFetch
  <2>1. ASSUME qf_form \in Queued!SlackForms PROVE FALSE
    <3>1. a.fetch = Queued!Fetch("url", "token", token)
      BY <1>3, <2>1, SlackIsMadeAnew
    <3>2. a.fetch.with = "token" /\ a.fetch.with = "none"
      BY <1>3, <3>1 DEF Queued!Fetch, Queued!NoFetch, Queued!Plain, Queued!None
    <3>3. QED
      BY <3>2
  <2>2. Queued!ToJson(Queued!Received(token)) = Queued!Received(token)
    BY <1>3, <2>1, OthersAreMadeAnew
  <2>3. QED
    BY <1>3, <2>2 DEF FileAnew
<1>4. QED
  BY <1>1, <1>2, <1>3

\* What a file taken out gives, of the two kinds.
LEMMA ItsFetch ==
    ASSUME qf_form \in Queued!Forms, qf_request \in Queued!Requests, NEW token, IsTheirs(token),
           NEW a \in {Queued!Received(token), FileAnew(Queued!Received(token))}
    PROVE  LET file == Queued!Received(Queued!Token("any", 1)).fetch
               team == Queued!Result(a.fetch).with.team
           IN  /\ a.fetch.what = file.what
               /\ qf_form \notin Queued!SlackForms => Queued!Result(a.fetch) = Queued!Result(file)
               /\ Queued!Result(a.fetch) # Queued!Refused =>
                     /\ Queued!Result(a.fetch).what = file.what
                     /\ qf_form \notin Queued!SlackForms => team = file.with
                     /\ qf_form = "slackSingle" => team = "default"
                     /\ qf_form = "slackMulti" =>
                            team \in IF qf_request.sender = Queued!None
                                        /\ ~qf_request.org THEN {"own", qf_drainer.team}
                                     ELSE {Queued!Installation(qf_request), qf_request.sender}
<1>1. PICK file : file = Queued!Received(Queued!Token("any", 1)).fetch
  OBVIOUS
<1>2. CASE qf_form \notin Queued!SlackForms
  <2>1. a.fetch = file /\ (file = Queued!NoFetch \/ file.with \in FixedCredentials)
    BY <1>1, <1>2, OthersAreMadeAnew
  <2>2. file # Queued!NoFetch => Queued!Result(file) = [what |-> file.what,
                                                          with |-> Queued!Token(file.with, 1)]
    BY <2>1 DEF Queued!Result, FixedCredentials
  <2>3. file = Queued!NoFetch => Queued!Result(file) = Queued!Refused
    BY DEF Queued!Result, Queued!NoFetch, Queued!Plain, Queued!Fetch, Queued!None
  <2>4. QED
    BY <1>1, <1>2, <2>1, <2>2, <2>3 DEF Queued!Token, Queued!SlackForms
<1>3. CASE qf_form = "slackSingle"
  <2>1. qf_request.org = FALSE /\ qf_request.sender = "own"
    BY <1>3 DEF Queued!Requests
  <2>0. qf_form \in Queued!SlackForms
    BY <1>3 DEF Queued!SlackForms
  <2>f. file = Queued!Fetch("url", "token", Queued!Token("any", 1))
    BY <1>1, <2>0, SlackIsMadeAnew
  <2>2. token = Queued!Token("default", 1) /\ file.what = "url"
    BY <1>3, <2>f DEF IsTheirs, Queued!Fetch
  <2>3. CASE a = Queued!Received(token)
    <3>1. a.fetch = Queued!Fetch("url", "token", token) /\ a.fetch # Queued!NoFetch
      BY <1>3, <2>3, SlackIsMadeAnew DEF Queued!SlackForms, Queued!Fetch, Queued!NoFetch,
      Queued!Plain
    <3>2. a.fetch.what = "url" /\ a.fetch.with = "token" /\ a.fetch.token = token
      BY <3>1 DEF Queued!Fetch
    <3>3. Queued!Result(a.fetch) = [what |-> "url", with |-> token]
      BY <3>1, <3>2 DEF Queued!Result
    <3>4. QED
      BY <1>1, <1>3, <2>2, <3>2, <3>3 DEF Queued!Token, Queued!SlackForms
  <2>4. CASE a = FileAnew(Queued!Received(token))
    <3>a. PICK team : team = IF qf_request.org THEN "org" ELSE qf_request.sender
      OBVIOUS
    <3>b. team = "own" /\ team # Queued!None
      BY <2>1, <3>a DEF Queued!None
    <3>c. a.fetch = Queued!Fetch("url", IF team = Queued!None THEN "default" ELSE "installation", Queued!Token(team, 0))
      BY <2>0, <2>4, <3>a, SlackIsMadeAnew
    <3>1. a.fetch = Queued!Fetch("url", "installation", Queued!Token("own", 0))
              /\ a.fetch # Queued!NoFetch
      BY <3>b, <3>c DEF Queued!Fetch, Queued!NoFetch, Queued!Plain, Queued!None
    <3>2. a.fetch.what = "url" /\ a.fetch.with = "installation"
      BY <3>1 DEF Queued!Fetch
    <3>3. Queued!Result(a.fetch) = Queued!Refused
      BY <1>3, <3>1, <3>2 DEF Queued!Result
    <3>4. QED
      BY <1>1, <1>3, <2>2, <3>2, <3>3 DEF Queued!SlackForms
  <2>5. QED
    BY <2>3, <2>4
<1>4. CASE qf_form = "slackMulti"
  <2>1. PICK v \in Nat : token = Queued!Token(Queued!Installation(qf_request), v)
    BY <1>4 DEF IsTheirs
  <2>0. qf_form \in Queued!SlackForms
    BY <1>4 DEF Queued!SlackForms
  <2>f. file = Queued!Fetch("url", "token", Queued!Token("any", 1))
    BY <1>1, <2>0, SlackIsMadeAnew
  <2>2. file.what = "url" /\ qf_form \in Queued!SlackForms
    BY <2>0, <2>f DEF Queued!Fetch
  <2>3. qf_request.team = "own"
    BY <1>4 DEF Queued!Requests
  <2>4. CASE a = Queued!Received(token)
    <3>1. a.fetch = Queued!Fetch("url", "token", token) /\ a.fetch # Queued!NoFetch
      BY <2>2, <2>4, SlackIsMadeAnew DEF Queued!Fetch, Queued!NoFetch, Queued!Plain
    <3>2. a.fetch.what = "url" /\ a.fetch.with = "token" /\ a.fetch.token = token
      BY <3>1 DEF Queued!Fetch
    <3>3. Queued!Result(a.fetch) = [what |-> "url", with |-> token]
      BY <3>1, <3>2 DEF Queued!Result
    <3>4. Queued!Result(a.fetch).what = "url"
              /\ Queued!Result(a.fetch).with.team = Queued!Installation(qf_request)
      BY <2>1, <3>3 DEF Queued!Token
    <3>5. qf_request.sender = Queued!None /\ ~qf_request.org =>
              Queued!Installation(qf_request) = "own"
      BY <2>3 DEF Queued!Installation
    <3>6. QED
      BY <1>1, <1>4, <2>2, <3>2, <3>4, <3>5
  <2>5. CASE a = FileAnew(Queued!Received(token))
    <3>1. PICK team : team = IF qf_request.org THEN "org" ELSE qf_request.sender
      OBVIOUS
    <3>2. a.fetch = Queued!Fetch("url", IF team = Queued!None THEN "default" ELSE "installation", Queued!Token(team, 0))
      BY <2>2, <2>5, <3>1, SlackIsMadeAnew
    <3>3. a.fetch.what = "url" /\ a.fetch.token.team = team /\ a.fetch # Queued!NoFetch
      BY <3>2 DEF Queued!Fetch, Queued!Token, Queued!NoFetch, Queued!Plain, Queued!None
    <3>4. CASE team = Queued!None
      <4>1. a.fetch.with = "default" /\ qf_request.sender = Queued!None /\ ~qf_request.org
        BY <3>1, <3>2, <3>4 DEF Queued!Fetch, Queued!None
      <4>2. Queued!Result(a.fetch) = [what |-> "url", with |-> qf_drainer]
        BY <1>4, <3>3, <4>1 DEF Queued!Result
      <4>3. QED
        BY <1>1, <1>4, <2>2, <3>3, <4>1, <4>2
    <3>5. CASE team # Queued!None
      <4>1. a.fetch.with = "installation" /\ ~(qf_request.sender = Queued!None /\ ~qf_request.org)
        BY <3>1, <3>2, <3>5 DEF Queued!Fetch
      <4>2. \/ Queued!Result(a.fetch) = [what |-> "url", with |-> Queued!Token(team, qf_installed[team])]
            \/ Queued!Result(a.fetch) = Queued!Refused
        BY <1>4, <3>3, <4>1 DEF Queued!Result
      <4>3. team \in {Queued!Installation(qf_request), qf_request.sender}
        BY <3>1 DEF Queued!Installation
      <4>4. Queued!Result(a.fetch) # Queued!Refused =>
                Queued!Result(a.fetch).what = "url" /\ Queued!Result(a.fetch).with.team = team
        BY <4>2 DEF Queued!Token
      <4>5. QED
        BY <1>1, <1>4, <2>2, <3>3, <4>1, <4>3, <4>4
    <3>6. QED
      BY <3>4, <3>5
  <2>6. QED
    BY <2>4, <2>5
<1>5. QED
  BY <1>2, <1>3, <1>4 DEF Queued!SlackForms

LEMMA FilesStep == FilesInv /\ [Queued!Next]_Queued!vars => FilesInv'
<1> SUFFICES ASSUME FilesInv, [Queued!Next]_Queued!vars PROVE FilesInv'
  OBVIOUS
<1>0. PICK token : IsTheirs(token) /\ qf_files \in [TwoFiles -> FileWays(token)]
  BY DEF FilesInv
<1>k. ASSUME UNCHANGED <<qf_form, qf_request>> PROVE IsTheirs(token)'
          /\ Queued!Received(token)' = Queued!Received(token)

                                                                 /\ Queued!ToJson(Queued!Received(token))' = Queued!ToJson(Queued!Received(token))

                                                                 /\ FileAnew(Queued!Received(token))' = FileAnew(Queued!Received(token))
  <2>1. IsTheirs(token)'
    BY <1>0, <1>k DEF IsTheirs, Queued!Installation
  <2>2. Queued!Received(token)' = Queued!Received(token)
    BY <1>k DEF Queued!Received, Queued!SlackFile, Queued!TeamsFile, Queued!GoogleFile,
                Queued!TelegramFile, Queued!WhatsAppFile, Queued!MessengerFile,
                        Queued!DiscordFile,
         Queued!TwilioFile
  <2>3. QED
    BY <1>k, <2>1, <2>2 DEF Queued!ToJson, FileAnew, Queued!Rehydrated,
                            Queued!RehydrateSlack, Queued!RehydrateTeams,
                                    Queued!RehydrateGoogle,
         Queued!RehydrateTelegram, Queued!RehydrateWhatsApp, Queued!RehydrateMessenger,
               Queued!RehydrateDiscord, Queued!RehydrateTwilio, Queued!TwilioFile
<1>r. ASSUME UNCHANGED <<qf_form, qf_request>> PROVE qf_request' \in Queued!Requests'
          /\ qf_form' \in Queued!Forms
  BY <1>r DEF Queued!Requests, FilesInv, Queued!TypeOK
<1>t. /\ qf_form \in Queued!Forms /\ qf_request \in Queued!Requests
      /\ qf_installed \in [Queued!Team -> 0 .. FileChanges + 1]
      /\ qf_changes \in 0 .. FileChanges /\ qf_path \in {"none", "object", "json",
                                                           "dictionary", "direct"}
      /\ qf_place \in {"arrived", "queued", "taken", "fetched"} /\ DOMAIN qf_files = TwoFiles
      /\ \A t \in Queued!Team : qf_installed[t] \in 0 .. qf_changes + 1
  BY DEF FilesInv, Queued!TypeOK, TwoFiles
<1>1. CASE Queued!Enqueue
  <2>1. /\ qf_place = "arrived" /\ qf_place' = "queued"
        /\ qf_path' \in {"object", "json", "dictionary"}
        /\ qf_files' = IF qf_path' = "object" THEN qf_files ELSE [i \in TwoFiles |-> Queued!ToJson(qf_files[i])]
        /\ UNCHANGED <<qf_form, qf_request, qf_installed, qf_changes, qf_drainer, qf_got>>
    BY <1>1, <1>t DEF Queued!Enqueue
  <2>2. qf_files \in [TwoFiles -> {Queued!Received(token)}]
    BY <1>0, <2>1 DEF FileWays
  <2>3. qf_files' \in [TwoFiles -> {Queued!Received(token), Queued!ToJson(Queued!Received(token))}]
    BY <2>1, <2>2
  <2>4. qf_files' \in [TwoFiles -> FileWays(token)']
    BY <1>k, <2>1, <2>3 DEF FileWays
  <2>5. Queued!TypeOK'
    BY <1>r, <1>t, <2>1, <2>3 DEF Queued!TypeOK, TwoFiles
  <2>6. QED
    BY <1>k, <1>t, <2>1, <2>4, <2>5 DEF FilesInv, Queued!CredentialsAreTheirs,
    Queued!QueuesCostNoFile
<1>2. CASE Queued!Direct
  <2>1. /\ qf_place = "arrived" /\ qf_place' = "taken" /\ qf_path' = "direct"
        /\ UNCHANGED <<qf_form, qf_request, qf_installed, qf_changes, qf_files, qf_drainer, qf_got>>
    BY <1>2 DEF Queued!Direct
  <2>2. qf_files' \in [TwoFiles -> {Queued!Received(token), FileAnew(Queued!Received(token))}]
    BY <1>0, <2>1 DEF FileWays
  <2>3. qf_files' \in [TwoFiles -> FileWays(token)']
    BY <1>k, <2>1, <2>2 DEF FileWays
  <2>4. Queued!TypeOK'
    BY <1>r, <1>t, <2>1 DEF Queued!TypeOK, TwoFiles
  <2>5. QED
    BY <1>k, <1>t, <2>1, <2>3, <2>4 DEF FilesInv, Queued!CredentialsAreTheirs,
    Queued!QueuesCostNoFile
<1>3. CASE Queued!Dequeue
  <2>1. /\ qf_place = "queued" /\ qf_place' = "taken"
        /\ UNCHANGED <<qf_form, qf_request, qf_installed, qf_changes, qf_path, qf_got>>
        /\ qf_files' = Queued!Rehydrate([i \in DOMAIN qf_files |-> Queued!FromJson(qf_files[i])])
    BY <1>3 DEF Queued!Dequeue
  <2>2. qf_files' = [i \in TwoFiles |-> IF qf_files[i].fetch # Queued!NoFetch THEN qf_files[i] ELSE Queued!Rehydrated(qf_files[i])]
    BY <1>t, <2>1 DEF Queued!Rehydrate, Queued!FromJson
  <2>3. \A i \in TwoFiles : qf_files[i] \in {Queued!Received(token),
                                               Queued!ToJson(Queued!Received(token))}
    BY <1>0, <2>1 DEF FileWays
  <2>4. qf_files' \in [TwoFiles -> {Queued!Received(token), FileAnew(Queued!Received(token))}]
    BY <1>t, <2>2, <2>3, TakenOut
  <2>5. qf_files' \in [TwoFiles -> FileWays(token)']
    BY <1>k, <2>1, <2>4 DEF FileWays
  <2>6. Queued!TypeOK'
    BY <1>r, <1>t, <2>1, <2>4 DEF Queued!TypeOK, TwoFiles
  <2>7. QED
    BY <1>k, <1>t, <2>1, <2>5, <2>6 DEF FilesInv, Queued!CredentialsAreTheirs,
    Queued!QueuesCostNoFile
<1>4. CASE Queued!FetchFiles
  <2>1. /\ qf_place = "taken" /\ qf_place' = "fetched"
        /\ qf_got' = [i \in TwoFiles |-> Queued!Result(qf_files[i].fetch)]
        /\ UNCHANGED <<qf_form, qf_request, qf_installed, qf_changes, qf_path, qf_files,
                        qf_drainer>>
    BY <1>4, <1>t DEF Queued!FetchFiles
  <2>2. \A i \in TwoFiles : qf_files[i] \in {Queued!Received(token),
                                               FileAnew(Queued!Received(token))}
    BY <1>0, <2>1 DEF FileWays
  <2>3. qf_files' \in [TwoFiles -> FileWays(token)']
    BY <1>0, <1>k, <2>1 DEF FileWays
  <2>4. PICK file : file = Queued!Received(Queued!Token("any", 1)).fetch
    OBVIOUS
  <2>5. \A i \in TwoFiles :
           /\ qf_form \notin Queued!SlackForms => qf_got'[i] = Queued!Result(file)
           /\ qf_got'[i] # Queued!Refused =>
                 /\ qf_got'[i].what = file.what
                 /\ qf_form \notin Queued!SlackForms => qf_got'[i].with.team = file.with
                 /\ qf_form = "slackSingle" => qf_got'[i].with.team = "default"
                 /\ qf_form = "slackMulti" =>
                        qf_got'[i].with.team \in IF qf_request.sender = Queued!None
                                                    /\ ~qf_request.org THEN {"own", qf_drainer.team}
                                              ELSE {Queued!Installation(qf_request),
                                                      qf_request.sender}
    BY <1>0, <1>t, <2>1, <2>2, <2>4, ItsFetch
  <2>6. (Queued!Received(Queued!Token("any", 1)).fetch)' = file
            /\ Queued!Result(file)' = Queued!Result(file)
    BY <2>1, <2>4 DEF Queued!Result, Queued!Received, Queued!SlackFile, Queued!TeamsFile,
                      Queued!GoogleFile, Queued!TelegramFile, Queued!WhatsAppFile,
                              Queued!MessengerFile,
         Queued!DiscordFile, Queued!TwilioFile
  <2>7. Queued!CredentialsAreTheirs'
    BY <1>t, <2>1, <2>5, <2>6 DEF Queued!CredentialsAreTheirs, Queued!Installation
  <2>8. Queued!QueuesCostNoFile'
    BY <1>t, <2>1, <2>5, <2>6 DEF Queued!QueuesCostNoFile
  <2>9. Queued!TypeOK'
    BY <1>r, <1>t, <2>1 DEF Queued!TypeOK, TwoFiles
  <2>10. QED
    BY <1>k, <1>t, <2>1, <2>3, <2>7, <2>8, <2>9 DEF FilesInv
<1>5. ASSUME NEW t \in Queued!Team, Queued!Reinstall(t) PROVE FilesInv'
  <2>1. PICK v \in {0, qf_installed[t] + 1} : qf_installed' = [qf_installed EXCEPT ![t] = v]
    BY <1>5 DEF Queued!Reinstall
  <2>2. /\ qf_form = "slackMulti" /\ qf_changes < FileChanges /\ qf_changes' = qf_changes + 1
        /\ UNCHANGED <<qf_form, qf_request, qf_path, qf_files, qf_place, qf_drainer, qf_got>>
    BY <1>5 DEF Queued!Reinstall
  <2>3. qf_changes' \in 0 .. FileChanges /\ \A s \in Queued!Team : qf_installed'[s] \in 0 .. qf_changes' + 1
    BY <1>t, <2>1, <2>2, QueuedAssumption
  <2>4. qf_installed' \in [Queued!Team -> 0 .. FileChanges + 1]
    BY <1>t, <2>1, <2>2, <2>3, QueuedAssumption
  <2>5. Queued!TypeOK'
    BY <1>r, <1>t, <2>2, <2>3, <2>4 DEF Queued!TypeOK, TwoFiles, Queued!Requests
  <2>6. qf_files' \in [TwoFiles -> FileWays(token)']
    BY <1>0, <1>k, <2>2 DEF FileWays
  <2>7. Queued!QueuesCostNoFile'
    BY <2>2 DEF Queued!QueuesCostNoFile, Queued!SlackForms
  <2>8. Queued!CredentialsAreTheirs'
    BY <2>2 DEF FilesInv, Queued!CredentialsAreTheirs, Queued!Installation,
                Queued!Received, Queued!SlackFile, Queued!SlackForms
  <2>9. QED
    BY <1>k, <2>2, <2>3, <2>5, <2>6, <2>7, <2>8 DEF FilesInv
<1>6. CASE UNCHANGED Queued!vars
  <2>1. UNCHANGED <<qf_form, qf_request, qf_installed, qf_changes, qf_path, qf_files, qf_place,
                     qf_drainer, qf_got>>
    BY <1>6 DEF Queued!vars
  <2>2. qf_files' \in [TwoFiles -> FileWays(token)']
    BY <1>0, <1>k, <2>1 DEF FileWays
  <2>3. Queued!TypeOK'
    BY <1>r, <1>t, <2>1 DEF Queued!TypeOK, TwoFiles
  <2>4. Queued!CredentialsAreTheirs' /\ Queued!QueuesCostNoFile'
    <3>1. (Queued!Received(Queued!Token("any",
                                          1)).fetch)' = Queued!Received(Queued!Token("any", 1)).fetch
          /\ Queued!Result(Queued!Received(Queued!Token("any",
                                                          1)).fetch)' = Queued!Result(Queued!Received(Queued!Token("any", 1)).fetch)
      BY <2>1 DEF Queued!Result, Queued!Received, Queued!SlackFile, Queued!TeamsFile,
                  Queued!GoogleFile, Queued!TelegramFile, Queued!WhatsAppFile,
                          Queued!MessengerFile,
           Queued!DiscordFile, Queued!TwilioFile
    <3>2. QED
      BY <2>1, <3>1 DEF FilesInv, Queued!CredentialsAreTheirs, Queued!QueuesCostNoFile,
                        Queued!Installation
  <2>5. QED
    BY <1>k, <1>t, <2>1, <2>2, <2>3, <2>4 DEF FilesInv
<1>7. QED
  BY <1>1, <1>2, <1>3, <1>4, <1>5, <1>6 DEF Queued!Next

LEMMA FilesFollow == FilesInv => Queued!FilesSurviveTheQueue
<1> SUFFICES ASSUME FilesInv, qf_place \in {"taken", "fetched"}, NEW i \in DOMAIN qf_files
             PROVE  qf_files[i].fetch.what = Queued!Received(Queued!Token("any", 1)).fetch.what
  BY DEF FilesInv, Queued!FilesSurviveTheQueue, Queued!FilesKeepTheirFetch
<1>1. PICK token : IsTheirs(token) /\ qf_files \in [TwoFiles -> FileWays(token)]
  BY DEF FilesInv
<1>2. qf_form \in Queued!Forms /\ qf_request \in Queued!Requests
          /\ qf_files[i] \in {Queued!Received(token), FileAnew(Queued!Received(token))}
  BY <1>1 DEF FilesInv, Queued!TypeOK, FileWays
<1>3. QED
  BY <1>1, <1>2, ItsFetch

-----------------------------------------------------------------------------
(* Slack's workspaces, with any number of requests and changes.            *)
CONSTANTS
    SlackRequest,  \* the requests that are handled
    SlackChanges   \* bound on the changes around them

ASSUME WorkspacesAssumption == SlackChanges \in Nat

VARIABLES
    ws_mode, ws_event, ws_installed, ws_current, ws_cache, ws_context,
    ws_resolved, ws_pc, ws_asked, ws_since, ws_calls, ws_names, ws_borne,
    ws_profile, ws_index, ws_unfurls, ws_of, ws_seen, ws_mentioned,
    ws_changes

Workspaces == INSTANCE SlackWorkspaces WITH
    Request <- SlackRequest, MaxChanges <- SlackChanges, mode <- ws_mode, event <- ws_event,
    installed <- ws_installed, current <- ws_current, cache <- ws_cache, context <-
    ws_context, resolved <- ws_resolved, pc <- ws_pc, asked <- ws_asked, since <-
    ws_since, calls <- ws_calls, names <- ws_names, borne <- ws_borne, profile <-
    ws_profile, index <- ws_index, unfurls <- ws_unfurls, of <- ws_of, seen <-
    ws_seen, mentioned <- ws_mentioned, changes <- ws_changes

wsVars == <<ws_mode, ws_event, ws_installed, ws_current, ws_cache, ws_context,
    ws_resolved, ws_pc, ws_asked, ws_since, ws_calls, ws_names, ws_borne,
    ws_profile, ws_index, ws_unfurls, ws_of, ws_seen, ws_mentioned, ws_changes>>

HandledRequests == {"handling", "storing", "indexing", "previews", "mention"}
RequestPlaces == HandledRequests \cup {"idle", "resolving", "done", "dropped"}

\* The workspace a scope of the caches stands for.
HomeOf(s) == IF s = Workspaces!None THEN "home" ELSE s

\* Every part of the state is of its kind.
WorkspaceTypes ==
    /\ ws_mode \in {"sync", "async", "multi"} /\ ws_changes \in 0 .. SlackChanges
    /\ ws_current \in Nat /\ ws_cache \in Nat /\ ws_installed \in [Workspaces!Team -> Nat]
    /\ ws_context \in [SlackRequest -> [team : Workspaces!Scope, version : Nat]]
    /\ ws_resolved \in [SlackRequest -> Nat] /\ ws_asked \in [SlackRequest -> Nat]
    /\ ws_pc \in [SlackRequest -> RequestPlaces]
    /\ ws_since \in [SlackRequest -> [current : Nat, installed : [Workspaces!Team -> Nat]]]
    /\ ws_names \in [Workspaces!Team -> [Workspaces!User -> Workspaces!Name]]
    /\ ws_borne \in [Workspaces!Team -> [Workspaces!User -> SUBSET Workspaces!Name]]
    /\ ws_profile \in [Workspaces!Scope -> [Workspaces!User -> Workspaces!Name \cup {Workspaces!None}]] /\ ws_index \in [Workspaces!Scope -> [Workspaces!Name -> SUBSET Workspaces!User]]
    /\ ws_unfurls \in [Workspaces!Scope -> SUBSET Workspaces!Team]
    /\ ws_of \in [SlackRequest -> Workspaces!User \cup {Workspaces!None}]
    /\ ws_seen \in [SlackRequest -> [name : Workspaces!Name \cup {Workspaces!None},
                                       previews : SUBSET Workspaces!Team]]
    /\ ws_mentioned \in [SlackRequest -> [user : Workspaces!User \cup {Workspaces!None},
                                            name : Workspaces!Name \cup {Workspaces!None}]]
    /\ ws_calls \subseteq [request : SlackRequest, team : Workspaces!Team, version : Nat]

\* Versions only grow, and a request sees none older than itself.
VersionsGrow ==
    /\ 1 <= ws_current /\ ws_current <= ws_changes + 1 /\ ws_cache <= ws_changes + 1
    /\ \A t \in Workspaces!Team : ws_installed[t] <= ws_changes + 1
    /\ \A r \in SlackRequest :
          /\ ws_asked[r] <= ws_changes + 1 /\ ws_since[r].current <= ws_current
          /\ \A t \in Workspaces!Team :
                /\ ws_since[r].installed[t] <= ws_changes + 1
                /\ ws_installed[t] = 0 \/ ws_installed[t] >= ws_since[r].installed[t]

\* In a single workspace: there is no context, and a resolved token is of the request.
OneWorkspace(r) ==
    /\ ws_event[r] = Workspaces!Event("home", "home", "home")
    /\ ws_context[r] = Workspaces!NoContext
    /\ ws_resolved[r] = 0 \/ ws_resolved[r] >= ws_since[r].current
    /\ ws_pc[r] = "idle" => ws_resolved[r] = 0
    /\ ws_pc[r] \in HandledRequests => ws_since[r].current >= 1 /\ (ws_mode = "async" =>
                                                                      ws_resolved[r] > 0)
    /\ ws_pc[r] = "resolving" => ws_mode = "async" /\ ws_since[r].current >= 1
          /\ ws_asked[r] >= ws_since[r].current

\* In several: the context is of the installation the event is for.
ManyWorkspaces(r) ==
    /\ ws_event[r] \in Workspaces!Events
    /\ ws_pc[r] \in {"idle", "resolving"} => ws_context[r].version = 0
    /\ ws_pc[r] \in HandledRequests => ws_context[r].version > 0
    /\ ws_context[r].version > 0 =>
          ws_context[r].team = ws_event[r].to
                /\ ws_context[r].version >= ws_since[r].installed[ws_event[r].to]

WorkspaceTokens ==
    /\ VersionsGrow
    /\ \A r \in SlackRequest : IF ws_mode = "multi" THEN ManyWorkspaces(r) ELSE OneWorkspace(r)

\* What is remembered for a scope is of its workspace.
WorkspacePeople ==
    /\ \A t \in Workspaces!Team, u \in Workspaces!User : ws_names[t][u] \in ws_borne[t][u]
    /\ \A s \in Workspaces!Scope :
          /\ \A u \in Workspaces!User : ws_profile[s][u] # Workspaces!None =>
                ws_profile[s][u] \in ws_borne[HomeOf(s)][u]
          /\ \A n \in Workspaces!Name : \A u \in ws_index[s][n] : n \in ws_borne[HomeOf(s)][u]
          /\ ws_unfurls[s] \subseteq {HomeOf(s)}
    /\ ws_mode = "multi" => \A u \in Workspaces!User : ws_profile[Workspaces!None][u] = Workspaces!None

\* What a request reads, stores and mentions is of its workspace.
WorkspaceReads ==
    \A r \in SlackRequest :
        LET team == ws_event[r].to IN
        /\ ws_seen[r].name # Workspaces!None => \E u \in Workspaces!User : ws_seen[r].name \in ws_borne[team][u]
        /\ ws_seen[r].previews \subseteq {team}
        /\ ws_pc[r] \in {"storing", "indexing"} =>
              ws_of[r] \in Workspaces!User /\ ws_seen[r].name \in ws_borne[team][ws_of[r]]
        /\ ws_mentioned[r] # Workspaces!NoMention =>
              ws_mentioned[r].user \in Workspaces!User
                    /\ ws_mentioned[r].name \in ws_borne[team][ws_mentioned[r].user]

WorkspaceCalls == Workspaces!CallsUseTheirToken /\ \A c \in ws_calls : ws_pc[c.request] # "idle"

SlackInv == WorkspaceTypes /\ WorkspaceTokens /\ WorkspacePeople /\ WorkspaceReads /\ WorkspaceCalls

\* The token and the scope of a request that is handled are of its workspace.
LEMMA TokensAreTheirs ==
    ASSUME WorkspaceTypes, WorkspaceTokens, NEW r \in SlackRequest, ws_pc[r] \in HandledRequests
    PROVE  /\ Workspaces!Token(r).team = ws_event[r].to
           /\ Workspaces!Token(r).version \in Nat /\ Workspaces!Token(r).version > 0
           /\ Workspaces!Token(r).version >= IF ws_mode = "multi" THEN ws_since[r].installed[ws_event[r].to] ELSE ws_since[r].current
           /\ ws_event[r].to \in Workspaces!Team
           /\ Workspaces!CacheScope(r) \in Workspaces!Scope
           /\ HomeOf(Workspaces!CacheScope(r)) = ws_event[r].to
           /\ ws_mode = "multi" => Workspaces!CacheScope(r) # Workspaces!None
<1>1. CASE ws_mode = "multi"
  <2>1. ManyWorkspaces(r) /\ ws_context[r].version \in Nat
    BY <1>1 DEF WorkspaceTokens, WorkspaceTypes
  <2>2. ws_context[r].version > 0 /\ Workspaces!Token(r) = ws_context[r]
            /\ Workspaces!CacheScope(r) = ws_context[r].team /\ ws_context[r].team = ws_event[r].to
        /\ ws_context[r].version >= ws_since[r].installed[ws_event[r].to]
    BY <2>1 DEF ManyWorkspaces, Workspaces!Token, Workspaces!CacheScope
  <2>3. ws_event[r].to \in Workspaces!Team
    BY <2>1 DEF ManyWorkspaces, Workspaces!Events, Workspaces!Event, Workspaces!Team
  <2>4. QED
    BY <1>1, <2>1, <2>2, <2>3 DEF Workspaces!Scope, HomeOf, Workspaces!Team, Workspaces!None
<1>2. CASE ws_mode # "multi"
  <2>1. OneWorkspace(r) /\ ws_resolved[r] \in Nat /\ ws_since[r].current \in Nat
            /\ ws_current \in Nat /\ ws_since[r].current <= ws_current
    BY <1>2 DEF WorkspaceTokens, VersionsGrow, WorkspaceTypes
  <2>2. ws_context[r] = Workspaces!NoContext /\ ws_event[r].to = "home"
    BY <2>1 DEF OneWorkspace, Workspaces!Event
  <2>3. Workspaces!CacheScope(r) = Workspaces!None
    BY <2>2 DEF Workspaces!CacheScope, Workspaces!NoContext
  <2>4. ws_mode \in {"sync", "async"}
    BY <1>2 DEF WorkspaceTypes
  <2>5. PICK v : v = IF ws_resolved[r] > 0 THEN ws_resolved[r] ELSE IF ws_mode = "sync" THEN ws_current ELSE ws_cache
    OBVIOUS
  <2>6. Workspaces!Token(r) = [team |-> "home", version |-> v]
    BY <2>2, <2>5 DEF Workspaces!Token, Workspaces!NoContext
  <2>7. v \in Nat /\ v > 0 /\ v >= ws_since[r].current
    BY <2>1, <2>4, <2>5 DEF OneWorkspace
  <2>8. QED
    BY <1>2, <2>2, <2>3, <2>6, <2>7 DEF Workspaces!Scope, HomeOf, Workspaces!Team
<1>3. QED
  BY <1>1, <1>2

LEMMA WsInit == Workspaces!Init => SlackInv
<1> SUFFICES ASSUME Workspaces!Init PROVE SlackInv
  OBVIOUS
<1>1. WorkspaceTypes
  <2>1. /\ ws_mode \in {"sync", "async", "multi"} /\ ws_changes \in 0 .. SlackChanges
        /\ ws_current \in Nat /\ ws_cache \in Nat
        /\ ws_installed \in [Workspaces!Team -> Nat]
    BY WorkspacesAssumption DEF Workspaces!Init
  <2>2. ws_context \in [SlackRequest -> [team : Workspaces!Scope, version : Nat]]
    BY DEF Workspaces!Init, Workspaces!NoContext, Workspaces!Scope
  <2>3. ws_resolved \in [SlackRequest -> Nat] /\ ws_asked \in [SlackRequest -> Nat]
            /\ ws_pc \in [SlackRequest -> RequestPlaces]
    BY DEF Workspaces!Init, RequestPlaces
  <2>4. ws_since \in [SlackRequest -> [current : Nat, installed : [Workspaces!Team -> Nat]]]
    BY <2>1 DEF Workspaces!Init
  <2>5. ws_names \in [Workspaces!Team -> [Workspaces!User -> Workspaces!Name]]
    BY DEF Workspaces!Init, Workspaces!Name
  <2>6. ws_borne \in [Workspaces!Team -> [Workspaces!User -> SUBSET Workspaces!Name]]
    BY <2>5 DEF Workspaces!Init
  <2>7. ws_profile \in [Workspaces!Scope -> [Workspaces!User -> Workspaces!Name \cup {Workspaces!None}]] /\ ws_index \in [Workspaces!Scope -> [Workspaces!Name -> SUBSET Workspaces!User]]
        /\ ws_unfurls \in [Workspaces!Scope -> SUBSET Workspaces!Team]
        /\ ws_of \in [SlackRequest -> Workspaces!User \cup {Workspaces!None}]
    BY DEF Workspaces!Init
  <2>8. ws_seen \in [SlackRequest -> [name : Workspaces!Name \cup {Workspaces!None},
                                        previews : SUBSET Workspaces!Team]]
    BY DEF Workspaces!Init
  <2>9. ws_mentioned \in [SlackRequest -> [user : Workspaces!User \cup {Workspaces!None},
                                             name : Workspaces!Name \cup {Workspaces!None}]]
    BY DEF Workspaces!Init, Workspaces!NoMention
  <2>10. ws_calls \subseteq [request : SlackRequest, team : Workspaces!Team, version : Nat]
    BY DEF Workspaces!Init
  <2>11. QED
    BY <2>1, <2>2, <2>3, <2>4, <2>5, <2>6, <2>7, <2>8, <2>9, <2>10 DEF WorkspaceTypes
<1>2. WorkspaceTokens
  <2>1. VersionsGrow
    BY DEF Workspaces!Init, VersionsGrow
  <2>2. ASSUME NEW r \in SlackRequest, ws_mode = "multi" PROVE ManyWorkspaces(r)
    BY <2>2 DEF Workspaces!Init, ManyWorkspaces, Workspaces!NoContext, HandledRequests
  <2>3. ASSUME NEW r \in SlackRequest, ws_mode # "multi" PROVE OneWorkspace(r)
    BY <2>3 DEF Workspaces!Init, OneWorkspace, HandledRequests
  <2>4. QED
    BY <2>1, <2>2, <2>3 DEF WorkspaceTokens
<1>3. WorkspacePeople
  BY DEF Workspaces!Init, WorkspacePeople, HomeOf, Workspaces!Scope
<1>4. WorkspaceReads
  BY DEF Workspaces!Init, WorkspaceReads
<1>5. WorkspaceCalls
  BY DEF Workspaces!Init, WorkspaceCalls, Workspaces!CallsUseTheirToken
<1>6. QED
  BY <1>1, <1>2, <1>3, <1>4, <1>5 DEF SlackInv

LEMMA WorkspaceTokensStep == SlackInv /\ [Workspaces!Next]_Workspaces!vars => WorkspaceTokens'
<1> SUFFICES ASSUME SlackInv, [Workspaces!Next]_Workspaces!vars PROVE WorkspaceTokens'
  OBVIOUS
<1>k. WorkspaceTypes /\ WorkspaceTokens /\ VersionsGrow
  BY DEF SlackInv, WorkspaceTokens
<1>m. ws_event' = ws_event /\ ws_mode' = ws_mode
  BY DEF Workspaces!Next, Workspaces!Step, Workspaces!Change, Workspaces!Arrive,
         Workspaces!ResolverAnswers, Workspaces!LookUpInstallation,
                 Workspaces!CacheUnfurls, Workspaces!EnrichLinks, Workspaces!StoreProfile,
                       Workspaces!IndexName,
      Workspaces!LookUp, Workspaces!Mention, Workspaces!Rotate, Workspaces!Reinstall,
            Workspaces!Rename, Workspaces!Expire, Workspaces!vars
<1>1. ASSUME NEW r \in SlackRequest, Workspaces!Arrive(r) PROVE WorkspaceTokens'
  <2>1. /\ ws_pc[r] = "idle" /\ ws_since' = [ws_since EXCEPT ![r] = [current |-> ws_current, installed |-> ws_installed]]
        /\ ws_asked' = [ws_asked EXCEPT ![r] = IF ws_mode = "async" THEN ws_current ELSE 0]
        /\ UNCHANGED <<ws_mode, ws_event, ws_installed, ws_current, ws_context, ws_changes>>
    BY <1>1 DEF Workspaces!Arrive
  <2>2. ws_since'[r].current = ws_current /\ ws_since'[r].installed = ws_installed
    BY <1>k, <2>1 DEF WorkspaceTypes
  <2>3. ws_cache' = ws_cache \/ ws_cache' = ws_current
    BY <1>1 DEF Workspaces!Arrive
  <2>4. VersionsGrow'
    BY <1>k, <2>1, <2>2, <2>3 DEF VersionsGrow, WorkspaceTypes
  <2>5. ASSUME NEW q \in SlackRequest, q # r PROVE IF ws_mode' = "multi" THEN ManyWorkspaces(q)' ELSE OneWorkspace(q)'
    <3>1. ws_pc'[q] = ws_pc[q] /\ ws_resolved'[q] = ws_resolved[q]
              /\ ws_since'[q] = ws_since[q] /\ ws_asked'[q] = ws_asked[q]
      BY <1>1, <1>k, <2>1, <2>5 DEF Workspaces!Arrive, WorkspaceTypes
    <3>2. QED
      BY <1>k, <2>1, <3>1 DEF WorkspaceTokens, ManyWorkspaces, OneWorkspace
  <2>6. IF ws_mode' = "multi" THEN ManyWorkspaces(r)' ELSE OneWorkspace(r)'
    <3>1. CASE ws_mode = "multi"
      <4>1. ws_pc'[r] = "resolving" /\ ManyWorkspaces(r)
        BY <1>1, <1>k, <3>1 DEF Workspaces!Arrive, WorkspaceTypes, WorkspaceTokens
      <4>2. QED
        BY <2>1, <3>1, <4>1 DEF ManyWorkspaces, HandledRequests
    <3>2. CASE ws_mode = "sync"
      <4>1. ws_pc'[r] = "handling" /\ ws_resolved'[r] = ws_current /\ OneWorkspace(r)
        BY <1>1, <1>k, <3>2 DEF Workspaces!Arrive, WorkspaceTypes, WorkspaceTokens
      <4>2. QED
        BY <1>k, <2>1, <2>2, <3>2, <4>1 DEF OneWorkspace, HandledRequests, VersionsGrow,
        WorkspaceTypes
    <3>3. CASE ws_mode = "async"
      <4>1. ws_pc'[r] = "resolving" /\ ws_resolved'[r] = 0 /\ OneWorkspace(r)
        BY <1>1, <1>k, <2>1, <3>3 DEF Workspaces!Arrive, WorkspaceTypes, WorkspaceTokens,
                                      OneWorkspace
      <4>2. ws_asked'[r] = ws_current
        BY <1>k, <2>1, <3>3 DEF WorkspaceTypes
      <4>3. QED
        BY <1>k, <2>1, <2>2, <3>3, <4>1, <4>2 DEF OneWorkspace, HandledRequests,
        VersionsGrow, WorkspaceTypes
    <3>4. QED
      BY <1>k, <3>1, <3>2, <3>3 DEF WorkspaceTypes
  <2>7. QED
    BY <2>4, <2>5, <2>6 DEF WorkspaceTokens
<1>2. ASSUME NEW r \in SlackRequest, Workspaces!ResolverAnswers(r) PROVE WorkspaceTokens'
  <2>1. /\ ws_mode = "async" /\ ws_pc[r] = "resolving" /\ ws_cache' = ws_asked[r]
        /\ ws_resolved' = [ws_resolved EXCEPT ![r] = ws_asked[r]]
        /\ ws_pc' = [ws_pc EXCEPT ![r] = "handling"]
        /\ UNCHANGED <<ws_mode, ws_event, ws_installed, ws_current, ws_context, ws_asked,
                        ws_since, ws_changes>>
    BY <1>2 DEF Workspaces!ResolverAnswers
  <2>2. VersionsGrow'
    BY <1>k, <2>1 DEF VersionsGrow, WorkspaceTypes
  <2>3. ASSUME NEW q \in SlackRequest PROVE OneWorkspace(q)'
    <3>1. OneWorkspace(q) /\ OneWorkspace(r)
      BY <1>k, <2>1 DEF WorkspaceTokens
    <3>2. CASE q = r
      <4>1. ws_pc'[r] = "handling" /\ ws_resolved'[r] = ws_asked[r]
                /\ ws_asked[r] >= ws_since[r].current /\ ws_since[r].current >= 1
        BY <1>k, <2>1, <3>1 DEF WorkspaceTypes, OneWorkspace
      <4>2. ws_asked[r] \in Nat /\ ws_since[r].current \in Nat
        BY <1>k DEF WorkspaceTypes
      <4>3. QED
        BY <2>1, <3>1, <3>2, <4>1, <4>2 DEF OneWorkspace
    <3>3. CASE q # r
      <4>1. ws_pc'[q] = ws_pc[q] /\ ws_resolved'[q] = ws_resolved[q]
        BY <1>k, <2>1, <3>3 DEF WorkspaceTypes
      <4>2. QED
        BY <2>1, <3>1, <4>1 DEF OneWorkspace
    <3>4. QED
      BY <3>2, <3>3
  <2>4. QED
    BY <2>1, <2>2, <2>3 DEF WorkspaceTokens
<1>3. ASSUME NEW r \in SlackRequest, Workspaces!LookUpInstallation(r) PROVE WorkspaceTokens'
  <2>1. /\ ws_mode = "multi" /\ ws_pc[r] = "resolving"
        /\ UNCHANGED <<ws_mode, ws_event, ws_installed, ws_current, ws_cache, ws_resolved,
                        ws_asked, ws_since, ws_changes>>
    BY <1>3 DEF Workspaces!LookUpInstallation
  <2>2. VersionsGrow'
    BY <1>k, <2>1 DEF VersionsGrow
  <2>3. ASSUME NEW q \in SlackRequest PROVE ManyWorkspaces(q)'
    <3>1. ManyWorkspaces(q)
      BY <1>k, <2>1 DEF WorkspaceTokens
    <3>2. CASE q # r
      <4>1. ws_pc'[q] = ws_pc[q] /\ ws_context'[q] = ws_context[q]
        BY <1>3, <1>k, <3>2 DEF WorkspaceTypes, Workspaces!LookUpInstallation
      <4>2. QED
        BY <2>1, <3>1, <4>1 DEF ManyWorkspaces
    <3>3. CASE q = r /\ ws_installed[Workspaces!Installation(r)] = 0
      <4>1. ws_pc'[r] = "dropped" /\ ws_context' = ws_context
        BY <1>3, <1>k, <3>3 DEF WorkspaceTypes, Workspaces!LookUpInstallation
      <4>2. QED
        BY <2>1, <3>1, <3>3, <4>1 DEF ManyWorkspaces, HandledRequests
    <3>4. CASE q = r /\ ws_installed[Workspaces!Installation(r)] # 0
      <4>1. ws_pc'[r] = "handling" /\ ws_context'[r] = Workspaces!Stored(Workspaces!Installation(r))
        BY <1>3, <1>k, <3>4 DEF WorkspaceTypes, Workspaces!LookUpInstallation
      <4>2. Workspaces!Installation(r) = ws_event[r].to /\ ws_event[r].to \in Workspaces!Team
        BY <3>1, <3>4 DEF ManyWorkspaces, Workspaces!Installation, Workspaces!Events,
                          Workspaces!Event, Workspaces!None, Workspaces!Team
      <4>3. ws_context'[r].team = ws_event[r].to
                /\ ws_context'[r].version = ws_installed[ws_event[r].to]
        BY <4>1, <4>2 DEF Workspaces!Stored
      <4>4. ws_installed[ws_event[r].to] \in Nat /\ ws_installed[ws_event[r].to] # 0
            /\ ws_installed[ws_event[r].to] >= ws_since[r].installed[ws_event[r].to]
        BY <1>k, <3>4, <4>2 DEF WorkspaceTypes, VersionsGrow
      <4>5. QED
        BY <2>1, <3>1, <3>4, <4>1, <4>3, <4>4 DEF ManyWorkspaces
    <3>5. QED
      BY <3>2, <3>3, <3>4
  <2>4. QED
    BY <2>1, <2>2, <2>3 DEF WorkspaceTokens
\* Of a request that is handled only the place changes.
<1>4. ASSUME NEW r \in SlackRequest, UNCHANGED <<Workspaces!tokens, ws_mode, ws_event>>,
          ws_changes' = ws_changes, ws_pc[r] \in HandledRequests,
             ws_pc' = [ws_pc EXCEPT ![r] = "storing"] \/ ws_pc' = [ws_pc EXCEPT ![r] = "indexing"]
             \/ ws_pc' = [ws_pc EXCEPT ![r] = "previews"]
                   \/ ws_pc' = [ws_pc EXCEPT ![r] = "mention"]
      PROVE  WorkspaceTokens'
  <2>1. UNCHANGED <<ws_installed, ws_current, ws_cache, ws_context, ws_resolved, ws_asked,
                     ws_since>>
    BY <1>4 DEF Workspaces!tokens
  <2>2. VersionsGrow'
    BY <1>4, <1>k, <2>1 DEF VersionsGrow
  <2>3. ws_pc'[r] \in HandledRequests /\ ws_pc'[r] \notin {"idle", "resolving"}
            /\ \A q \in SlackRequest \ {r} : ws_pc'[q] = ws_pc[q]
    BY <1>4, <1>k DEF WorkspaceTypes, HandledRequests
  <2>4. ASSUME NEW q \in SlackRequest PROVE IF ws_mode' = "multi" THEN ManyWorkspaces(q)' ELSE OneWorkspace(q)'
    <3>1. IF ws_mode = "multi" THEN ManyWorkspaces(q) ELSE OneWorkspace(q)
      BY <1>k DEF WorkspaceTokens
    <3>2. ws_pc'[q] = ws_pc[q] \/ (ws_pc[q] \in HandledRequests
                                     /\ ws_pc'[q] \in HandledRequests
                                     /\ ws_pc'[q] \notin {"idle", "resolving"})
      BY <1>4, <2>3
    <3>3. QED
      BY <1>4, <2>1, <3>1, <3>2 DEF ManyWorkspaces, OneWorkspace
  <2>5. QED
    BY <2>2, <2>4 DEF WorkspaceTokens
<1>5. ASSUME NEW r \in SlackRequest, NEW u \in Workspaces!User, Workspaces!LookUp(r, u) PROVE WorkspaceTokens'
  BY <1>4, <1>5 DEF Workspaces!LookUp, HandledRequests
<1>6. ASSUME NEW r \in SlackRequest, Workspaces!StoreProfile(r) \/ Workspaces!IndexName(r)
          \/ Workspaces!CacheUnfurls(r) \/ Workspaces!EnrichLinks(r) PROVE WorkspaceTokens'
  <2>1. CASE Workspaces!StoreProfile(r)
    BY <1>4, <2>1 DEF Workspaces!StoreProfile, HandledRequests
  <2>2. CASE Workspaces!IndexName(r)
    BY <1>4, <2>2 DEF Workspaces!IndexName, HandledRequests
  <2>3. CASE Workspaces!CacheUnfurls(r)
    BY <1>4, <2>3 DEF Workspaces!CacheUnfurls, HandledRequests
  <2>4. CASE Workspaces!EnrichLinks(r)
    BY <1>4, <2>4 DEF Workspaces!EnrichLinks, HandledRequests
  <2>5. QED
    BY <1>6, <2>1, <2>2, <2>3, <2>4
<1>7. ASSUME NEW r \in SlackRequest, NEW n \in Workspaces!Name, Workspaces!Mention(r, n) PROVE WorkspaceTokens'
  <2>1. PICK t : t = Workspaces!Token(r)
    OBVIOUS
  <2>2. /\ ws_pc[r] = "mention" /\ ws_pc' = [ws_pc EXCEPT ![r] = "done"]
        /\ ws_cache' = ws_cache \/ ws_cache' = 0
        /\ ws_resolved' = [ws_resolved EXCEPT ![r] = IF @ = t.version THEN 0 ELSE @]
              \/ ws_resolved' = ws_resolved
        /\ ws_mode = "multi" => ws_resolved' = ws_resolved
        /\ UNCHANGED <<ws_mode, ws_event, ws_installed, ws_current, ws_context, ws_asked,
                        ws_since, ws_changes>>
    BY <1>7, <2>1 DEF Workspaces!Mention
  <2>3. VersionsGrow'
    BY <1>k, <2>2 DEF VersionsGrow, WorkspaceTypes
  <2>4. ws_pc'[r] = "done" /\ (ws_resolved'[r] = ws_resolved[r] \/ ws_resolved'[r] = 0)
        /\ \A q \in SlackRequest \ {r} : ws_pc'[q] = ws_pc[q] /\ ws_resolved'[q] = ws_resolved[q]
    BY <1>k, <2>2 DEF WorkspaceTypes
  <2>5. ASSUME NEW q \in SlackRequest PROVE IF ws_mode' = "multi" THEN ManyWorkspaces(q)' ELSE OneWorkspace(q)'
    <3>1. IF ws_mode = "multi" THEN ManyWorkspaces(q) ELSE OneWorkspace(q)
      BY <1>k DEF WorkspaceTokens
    <3>2. CASE q = r
      BY <2>2, <2>4, <3>1, <3>2 DEF ManyWorkspaces, OneWorkspace, HandledRequests
    <3>3. CASE q # r
      BY <2>2, <2>4, <3>1, <3>3 DEF ManyWorkspaces, OneWorkspace
    <3>4. QED
      BY <3>2, <3>3
  <2>6. QED
    BY <2>3, <2>5 DEF WorkspaceTokens
<1>8. ASSUME NEW t \in Workspaces!Team, Workspaces!Reinstall(t),
          ws_changes' = ws_changes + 1 PROVE WorkspaceTokens'
  <2>1. PICK v \in {0, ws_changes + 2} : ws_installed' = [ws_installed EXCEPT ![t] = v]
    BY <1>8 DEF Workspaces!Reinstall
  <2>2. UNCHANGED <<ws_mode, ws_event, ws_current, ws_cache, ws_context, ws_resolved, ws_pc,
                     ws_asked, ws_since>>
    BY <1>8 DEF Workspaces!Reinstall
  <2>3. \A s \in Workspaces!Team : ws_installed'[s] = ws_installed[s]
            \/ ws_installed'[s] = 0 \/ ws_installed'[s] = ws_changes + 2
    BY <1>k, <2>1 DEF WorkspaceTypes
  <2>n. /\ ws_changes \in Nat /\ \A s \in Workspaces!Team : ws_installed[s] \in Nat
              /\ ws_installed[s] <= ws_changes + 1
        /\ \A r \in SlackRequest, s \in Workspaces!Team :
              /\ ws_since[r].installed[s] \in Nat /\ ws_since[r].installed[s] <= ws_changes + 1
              /\ ws_installed[s] = 0 \/ ws_installed[s] >= ws_since[r].installed[s]
    BY <1>k, WorkspacesAssumption DEF VersionsGrow, WorkspaceTypes
  <2>a. 1 <= ws_current' /\ ws_current' <= ws_changes' + 1 /\ ws_cache' <= ws_changes' + 1
        /\ \A r \in SlackRequest : ws_asked'[r] <= ws_changes' + 1
              /\ ws_since'[r].current <= ws_current'
    BY <1>8, <1>k, <2>2, <2>n DEF VersionsGrow, WorkspaceTypes
  <2>b. \A s \in Workspaces!Team : ws_installed'[s] <= ws_changes' + 1
    BY <1>8, <2>3, <2>n
  <2>c. ASSUME NEW r \in SlackRequest, NEW s \in Workspaces!Team
        PROVE  /\ ws_since'[r].installed[s] <= ws_changes' + 1
               /\ ws_installed'[s] = 0 \/ ws_installed'[s] >= ws_since'[r].installed[s]
    BY <1>8, <2>2, <2>3, <2>n
  <2>4. VersionsGrow'
    BY <2>a, <2>b, <2>c DEF VersionsGrow
  <2>5. QED
    BY <1>k, <2>2, <2>4 DEF WorkspaceTokens, ManyWorkspaces, OneWorkspace
<1>9. ASSUME Workspaces!Rotate, ws_changes' = ws_changes + 1 PROVE WorkspaceTokens'
  <2>1. ws_current' = ws_current + 1 /\ UNCHANGED <<ws_mode, ws_event, ws_installed, ws_cache,
                                                     ws_context, ws_resolved, ws_pc, ws_asked,
                                                           ws_since>>
    BY <1>9 DEF Workspaces!Rotate
  <2>2. VersionsGrow'
    BY <1>9, <1>k, <2>1 DEF VersionsGrow, WorkspaceTypes
  <2>3. QED
    BY <1>k, <2>1, <2>2 DEF WorkspaceTokens, ManyWorkspaces, OneWorkspace
<1>10. ASSUME UNCHANGED <<ws_mode, ws_event, Workspaces!tokens, ws_pc>>,
          ws_changes' = ws_changes + 1 \/ ws_changes' = ws_changes PROVE WorkspaceTokens'
  <2>1. UNCHANGED <<ws_mode, ws_event, ws_installed, ws_current, ws_cache, ws_context,
                     ws_resolved, ws_asked, ws_since, ws_pc>>
    BY <1>10 DEF Workspaces!tokens
  <2>2. VersionsGrow'
    BY <1>10, <1>k, <2>1 DEF VersionsGrow, WorkspaceTypes
  <2>3. QED
    BY <1>k, <2>1, <2>2 DEF WorkspaceTokens, ManyWorkspaces, OneWorkspace
<1>11. ASSUME Workspaces!Change PROVE WorkspaceTokens'
  <2>1. ws_changes' = ws_changes + 1
    BY <1>11 DEF Workspaces!Change
  <2>2. CASE Workspaces!Rotate
    BY <1>9, <2>1, <2>2
  <2>3. CASE \E t \in Workspaces!Team : Workspaces!Reinstall(t)
    BY <1>8, <2>1, <2>3
  <2>4. CASE \E t \in Workspaces!Team, u \in Workspaces!User,
            n \in Workspaces!Name : Workspaces!Rename(t, u, n)
    BY <1>10, <2>1, <2>4 DEF Workspaces!Rename
  <2>5. CASE \E s \in Workspaces!Scope, u \in Workspaces!User : Workspaces!Expire(s, u)
    BY <1>10, <2>1, <2>5 DEF Workspaces!Expire
  <2>6. QED
    BY <1>11, <2>2, <2>3, <2>4, <2>5 DEF Workspaces!Change
<1>12. CASE UNCHANGED Workspaces!vars
  BY <1>10, <1>12 DEF Workspaces!vars, Workspaces!tokens
<1>13. QED
  BY <1>1, <1>2, <1>3, <1>5, <1>6, <1>7, <1>11, <1>12 DEF Workspaces!Next, Workspaces!Step

\* The module's own name of what FiniteSets defines.
LEMMA SlackCount == \A S : Workspaces!Cardinality(S) = Cardinality(S)
  BY DEF Workspaces!Cardinality, Cardinality

LEMMA WorkspaceTypesStep == SlackInv /\ [Workspaces!Next]_Workspaces!vars => WorkspaceTypes'
<1> SUFFICES ASSUME SlackInv, [Workspaces!Next]_Workspaces!vars PROVE WorkspaceTypes'
  OBVIOUS
<1>k. WorkspaceTypes /\ WorkspaceTokens
  BY DEF SlackInv
<1>w. Workspaces!Name \subseteq Workspaces!Name \cup {Workspaces!None}
          /\ HandledRequests \subseteq RequestPlaces
          /\ {"idle", "resolving", "done", "dropped"} \subseteq RequestPlaces
  BY DEF RequestPlaces
<1>1. ASSUME NEW r \in SlackRequest, Workspaces!Arrive(r) PROVE WorkspaceTypes'
  <2>1. ws_since' = [ws_since EXCEPT ![r] = [current |-> ws_current, installed |-> ws_installed]]
        /\ ws_asked' = [ws_asked EXCEPT ![r] = IF ws_mode = "async" THEN ws_current ELSE 0]
        /\ UNCHANGED <<ws_mode, ws_event, ws_installed, ws_current, ws_context, ws_of,
                        ws_calls, ws_names, ws_borne, ws_profile, ws_index, ws_unfurls,
                       ws_seen, ws_mentioned, ws_changes>>
    BY <1>1 DEF Workspaces!Arrive, Workspaces!people
  <2>2. ws_cache' \in {ws_cache, ws_current} /\ (ws_resolved' = ws_resolved

                                                                     \/ ws_resolved' = [ws_resolved EXCEPT ![r] = ws_current])
        /\ (ws_pc' = [ws_pc EXCEPT ![r] = "handling"] \/ ws_pc' = [ws_pc EXCEPT ![r] = "resolving"])
    BY <1>1 DEF Workspaces!Arrive
  <2>3. ws_pc' \in [SlackRequest -> RequestPlaces]
    BY <1>k, <2>2 DEF WorkspaceTypes, RequestPlaces, HandledRequests
  <2>4. ws_since' \in [SlackRequest -> [current : Nat,
                                          installed : [Workspaces!Team -> Nat]]]
                                                /\ ws_asked' \in [SlackRequest -> Nat]
    BY <1>k, <2>1 DEF WorkspaceTypes
  <2>5. ws_cache' \in Nat /\ ws_resolved' \in [SlackRequest -> Nat]
    BY <1>k, <2>2 DEF WorkspaceTypes
  <2>6. QED
    BY <1>k, <2>1, <2>3, <2>4, <2>5 DEF WorkspaceTypes
<1>2. ASSUME NEW r \in SlackRequest, Workspaces!ResolverAnswers(r) PROVE WorkspaceTypes'
  <2>1. ws_cache' = ws_asked[r] /\ ws_resolved' = [ws_resolved EXCEPT ![r] = ws_asked[r]]
            /\ ws_pc' = [ws_pc EXCEPT ![r] = "handling"]
        /\ UNCHANGED <<ws_mode, ws_event, ws_installed, ws_current, ws_context, ws_asked,
                        ws_since, ws_of, ws_calls, ws_names, ws_borne, ws_profile, ws_index,
                       ws_unfurls, ws_seen, ws_mentioned, ws_changes>>
    BY <1>2 DEF Workspaces!ResolverAnswers, Workspaces!people
  <2>2. ws_pc' \in [SlackRequest -> RequestPlaces]
    BY <1>k, <2>1 DEF WorkspaceTypes, RequestPlaces, HandledRequests
  <2>3. ws_cache' \in Nat /\ ws_resolved' \in [SlackRequest -> Nat]
    BY <1>k, <2>1 DEF WorkspaceTypes
  <2>4. QED
    BY <1>k, <2>1, <2>2, <2>3 DEF WorkspaceTypes
<1>3. ASSUME NEW r \in SlackRequest, Workspaces!LookUpInstallation(r) PROVE WorkspaceTypes'
  <2>1. /\ ws_mode = "multi" /\ ws_pc[r] = "resolving"
        /\ ws_pc' = [ws_pc EXCEPT ![r] = "dropped"] \/ ws_pc' = [ws_pc EXCEPT ![r] = "handling"]
        /\ ws_context' = ws_context \/ ws_context' = [ws_context EXCEPT ![r] = Workspaces!Stored(Workspaces!Installation(r))]
        /\ UNCHANGED <<ws_mode, ws_event, ws_installed, ws_current, ws_cache, ws_resolved,
                        ws_asked, ws_since, ws_of, ws_calls, ws_names, ws_borne, ws_profile,
                       ws_index, ws_unfurls, ws_seen, ws_mentioned, ws_changes>>
    BY <1>3 DEF Workspaces!LookUpInstallation, Workspaces!people
  <2>2. ws_pc' \in [SlackRequest -> RequestPlaces]
    BY <1>k, <2>1 DEF WorkspaceTypes, RequestPlaces, HandledRequests
  <2>3. Workspaces!Installation(r) \in Workspaces!Team
    BY <1>k, <2>1 DEF WorkspaceTokens, ManyWorkspaces, Workspaces!Installation,
                      Workspaces!Events, Workspaces!Event, Workspaces!None, Workspaces!Team
  <2>4. Workspaces!Stored(Workspaces!Installation(r)) \in [team : Workspaces!Scope, version : Nat]
    BY <1>k, <2>3 DEF WorkspaceTypes, Workspaces!Stored, Workspaces!Scope
  <2>5. ws_context' \in [SlackRequest -> [team : Workspaces!Scope, version : Nat]]
    BY <1>k, <2>1, <2>4 DEF WorkspaceTypes
  <2>6. QED
    BY <1>k, <2>1, <2>2, <2>5 DEF WorkspaceTypes
\* The call of a request that is handled.
<1>c. ASSUME NEW r \in SlackRequest, ws_pc[r] \in HandledRequests, NEW t, t = Workspaces!Token(r)
      PROVE  ws_calls \cup {[request |-> r, team |-> t.team, version |-> t.version]}
                 \subseteq [request : SlackRequest, team : Workspaces!Team, version : Nat]
  <2>1. t.team \in Workspaces!Team /\ t.version \in Nat
    BY <1>c, <1>k, TokensAreTheirs
  <2>2. QED
    BY <1>k, <2>1 DEF WorkspaceTypes
<1>4. ASSUME NEW r \in SlackRequest, NEW u \in Workspaces!User, Workspaces!LookUp(r, u) PROVE WorkspaceTypes'
  <2>1. PICK t : t = Workspaces!Token(r)
    OBVIOUS
  <2>2. PICK s : s = Workspaces!CacheScope(r)
    OBVIOUS
  <2>3. /\ ws_pc[r] = "handling"
        /\ ws_pc' = [ws_pc EXCEPT ![r] = "previews"] \/ ws_pc' = [ws_pc EXCEPT ![r] = "storing"]
        /\ \/ ws_seen' = [ws_seen EXCEPT ![r].name = ws_profile[s][u]]
           \/ ws_seen' = [ws_seen EXCEPT ![r].name = ws_names[t.team][u]]
           \/ ws_seen' = ws_seen
        /\ ws_calls' = ws_calls \/ ws_calls' = ws_calls \cup {[request |-> r, team |-> t.team,
                                                                 version |-> t.version]}
        /\ ws_of' = ws_of \/ ws_of' = [ws_of EXCEPT ![r] = u]
        /\ UNCHANGED <<ws_mode, ws_event, ws_installed, ws_current, ws_cache, ws_context,
                        ws_resolved, ws_asked, ws_since, ws_names, ws_borne, ws_profile,
                       ws_index, ws_unfurls, ws_mentioned, ws_changes>>
    BY <1>4, <2>1, <2>2 DEF Workspaces!LookUp, Workspaces!tokens, Workspaces!people
  <2>4. t.team \in Workspaces!Team /\ s \in Workspaces!Scope
    BY <1>k, <2>1, <2>2, <2>3, TokensAreTheirs DEF HandledRequests
  <2>5. ws_profile[s][u] \in Workspaces!Name \cup {Workspaces!None}
            /\ ws_names[t.team][u] \in Workspaces!Name \cup {Workspaces!None}
    BY <1>k, <2>4 DEF WorkspaceTypes
  <2>6. ws_seen' \in [SlackRequest -> [name : Workspaces!Name \cup {Workspaces!None},
                                         previews : SUBSET Workspaces!Team]]
    <3>1. \A v \in Workspaces!Name \cup {Workspaces!None} :
             [ws_seen EXCEPT ![r].name = v] \in [SlackRequest -> [name : Workspaces!Name \cup {Workspaces!None}, previews : SUBSET Workspaces!Team]]
      BY <1>k DEF WorkspaceTypes
    <3>2. CASE ws_seen' = [ws_seen EXCEPT ![r].name = ws_profile[s][u]]
      <4>1. PICK v \in Workspaces!Name \cup {Workspaces!None} : v = ws_profile[s][u]
        BY <2>5
      <4>2. ws_seen' = [ws_seen EXCEPT ![r].name = v]
        BY <3>2, <4>1
      <4>3. QED
        BY <3>1, <4>2
    <3>3. CASE ws_seen' = [ws_seen EXCEPT ![r].name = ws_names[t.team][u]]
      <4>1. PICK v \in Workspaces!Name \cup {Workspaces!None} : v = ws_names[t.team][u]
        BY <2>5
      <4>2. ws_seen' = [ws_seen EXCEPT ![r].name = v]
        BY <3>3, <4>1
      <4>3. QED
        BY <3>1, <4>2
    <3>4. CASE ws_seen' = ws_seen
      BY <1>k, <3>4 DEF WorkspaceTypes
    <3>5. QED
      BY <2>3, <3>2, <3>3, <3>4
  <2>7. ws_calls' \subseteq [request : SlackRequest, team : Workspaces!Team, version : Nat]
    BY <1>c, <1>k, <2>1, <2>3 DEF WorkspaceTypes, HandledRequests
  <2>8. ws_pc' \in [SlackRequest -> RequestPlaces]
    BY <1>k, <2>3 DEF WorkspaceTypes, RequestPlaces, HandledRequests
  <2>9. ws_of' \in [SlackRequest -> Workspaces!User \cup {Workspaces!None}]
    BY <1>k, <2>3 DEF WorkspaceTypes
  <2>10. QED
    BY <1>k, <2>3, <2>6, <2>7, <2>8, <2>9 DEF WorkspaceTypes
<1>5. ASSUME NEW r \in SlackRequest, Workspaces!StoreProfile(r) PROVE WorkspaceTypes'
  <2>1. PICK s : s = Workspaces!CacheScope(r)
    OBVIOUS
  <2>2. /\ ws_pc[r] = "storing" /\ ws_profile' = [ws_profile EXCEPT ![s][ws_of[r]] = ws_seen[r].name]
        /\ ws_pc' = [ws_pc EXCEPT ![r] = "indexing"]
        /\ UNCHANGED <<ws_mode, ws_event, ws_installed, ws_current, ws_cache, ws_context,
                        ws_resolved, ws_asked, ws_since, ws_of, ws_calls, ws_names, ws_borne,
                       ws_index, ws_unfurls, ws_seen, ws_mentioned, ws_changes>>
    BY <1>5, <2>1 DEF Workspaces!StoreProfile, Workspaces!tokens
  <2>3. ws_seen[r].name \in Workspaces!Name \cup {Workspaces!None}
    BY <1>k DEF WorkspaceTypes
  <2>4. ws_profile' \in [Workspaces!Scope -> [Workspaces!User -> Workspaces!Name \cup {Workspaces!None}]]
    BY <1>k, <2>2, <2>3 DEF WorkspaceTypes
  <2>5. ws_pc' \in [SlackRequest -> RequestPlaces]
    BY <1>k, <2>2 DEF WorkspaceTypes, RequestPlaces, HandledRequests
  <2>6. QED
    BY <1>k, <2>2, <2>4, <2>5 DEF WorkspaceTypes
<1>6. ASSUME NEW r \in SlackRequest, Workspaces!IndexName(r) PROVE WorkspaceTypes'
  <2>1. PICK s : s = Workspaces!CacheScope(r)
    OBVIOUS
  <2>2. /\ ws_pc[r] = "indexing" /\ ws_index' = [ws_index EXCEPT ![s][ws_seen[r].name] = @ \cup {ws_of[r]}]
        /\ ws_pc' = [ws_pc EXCEPT ![r] = "previews"]
        /\ UNCHANGED <<ws_mode, ws_event, ws_installed, ws_current, ws_cache, ws_context,
                        ws_resolved, ws_asked, ws_since, ws_of, ws_calls, ws_names, ws_borne,
                       ws_profile, ws_unfurls, ws_seen, ws_mentioned, ws_changes>>
    BY <1>6, <2>1 DEF Workspaces!IndexName, Workspaces!tokens
  <2>3. ws_of[r] \in Workspaces!User
    BY <2>2 DEF SlackInv, WorkspaceReads
  <2>4. ws_index' \in [Workspaces!Scope -> [Workspaces!Name -> SUBSET Workspaces!User]]
    <3>1. PICK n, u : n = ws_seen[r].name /\ u = ws_of[r]
      OBVIOUS
    <3>2. ws_index' = [ws_index EXCEPT ![s][n] = @ \cup {u}] /\ u \in Workspaces!User
      BY <2>2, <2>3, <3>1
    <3>3. s \in Workspaces!Scope /\ ws_event[r].to \in Workspaces!Team
      BY <1>k, <2>1, <2>2, TokensAreTheirs DEF HandledRequests
    <3>4. n \in Workspaces!Name
      BY <1>k, <2>2, <3>1, <3>2, <3>3 DEF SlackInv, WorkspaceReads, WorkspaceTypes
    <3>5. PICK f : f = [ws_index[s] EXCEPT ![n] = @ \cup {u}]
      OBVIOUS
    <3>6. f \in [Workspaces!Name -> SUBSET Workspaces!User]
              /\ ws_index' = [ws_index EXCEPT ![s] = f]
      BY <1>k, <3>2, <3>3, <3>4, <3>5 DEF WorkspaceTypes
    <3>7. QED
      BY <1>k, <3>6 DEF WorkspaceTypes
  <2>5. ws_pc' \in [SlackRequest -> RequestPlaces]
    BY <1>k, <2>2 DEF WorkspaceTypes, RequestPlaces, HandledRequests
  <2>6. QED
    BY <1>k, <2>2, <2>4, <2>5 DEF WorkspaceTypes
<1>7. ASSUME NEW r \in SlackRequest, Workspaces!CacheUnfurls(r) PROVE WorkspaceTypes'
  <2>1. PICK s : s = Workspaces!CacheScope(r)
    OBVIOUS
  <2>2. PICK t : t = Workspaces!Token(r)
    OBVIOUS
  <2>3. /\ ws_pc[r] = "previews" /\ ws_unfurls' = [ws_unfurls EXCEPT ![s] = @ \cup {t.team}]
        /\ ws_pc' = [ws_pc EXCEPT ![r] = "mention"]
        /\ UNCHANGED <<ws_mode, ws_event, ws_installed, ws_current, ws_cache, ws_context,
                        ws_resolved, ws_asked, ws_since, ws_of, ws_calls, ws_names, ws_borne,
                       ws_profile, ws_index, ws_seen, ws_mentioned, ws_changes>>
    BY <1>7, <2>1, <2>2 DEF Workspaces!CacheUnfurls, Workspaces!tokens
  <2>4. t.team \in Workspaces!Team
    BY <1>k, <2>2, <2>3, TokensAreTheirs DEF HandledRequests
  <2>5. ws_unfurls' \in [Workspaces!Scope -> SUBSET Workspaces!Team]
    BY <1>k, <2>3, <2>4 DEF WorkspaceTypes
  <2>6. ws_pc' \in [SlackRequest -> RequestPlaces]
    BY <1>k, <2>3 DEF WorkspaceTypes, RequestPlaces, HandledRequests
  <2>7. QED
    BY <1>k, <2>3, <2>5, <2>6 DEF WorkspaceTypes
<1>8. ASSUME NEW r \in SlackRequest, Workspaces!EnrichLinks(r) PROVE WorkspaceTypes'
  <2>1. PICK s : s = Workspaces!CacheScope(r)
    OBVIOUS
  <2>2. /\ ws_pc[r] = "previews" /\ ws_seen' = [ws_seen EXCEPT ![r].previews = ws_unfurls[s]] /\ ws_pc' = [ws_pc EXCEPT ![r] = "mention"]
        /\ UNCHANGED <<ws_mode, ws_event, ws_installed, ws_current, ws_cache, ws_context,
                        ws_resolved, ws_asked, ws_since, ws_of, ws_calls, ws_names, ws_borne,
                       ws_profile, ws_index, ws_unfurls, ws_mentioned, ws_changes>>
    BY <1>8, <2>1 DEF Workspaces!EnrichLinks, Workspaces!tokens, Workspaces!people
  <2>3. s \in Workspaces!Scope
    BY <1>k, <2>1, <2>2, TokensAreTheirs DEF HandledRequests
  <2>4. ws_unfurls[s] \in SUBSET Workspaces!Team
    BY <1>k, <2>3 DEF WorkspaceTypes
  <2>5. ws_seen' \in [SlackRequest -> [name : Workspaces!Name \cup {Workspaces!None},
                                         previews : SUBSET Workspaces!Team]]
    <3>1. PICK v : v = ws_unfurls[s]
      OBVIOUS
    <3>2. v \in SUBSET Workspaces!Team /\ ws_seen' = [ws_seen EXCEPT ![r].previews = v]
      BY <2>2, <2>4, <3>1
    <3>3. PICK g : g = [ws_seen[r] EXCEPT !.previews = v]
      OBVIOUS
    <3>n. ws_seen[r] \in [name : Workspaces!Name \cup {Workspaces!None},
                            previews : SUBSET Workspaces!Team]
      BY <1>k DEF WorkspaceTypes
    <3>g. g \in [name : Workspaces!Name \cup {Workspaces!None}, previews : SUBSET Workspaces!Team]
      BY <3>2, <3>3, <3>n
    <3>e. ws_seen' = [ws_seen EXCEPT ![r] = g]
      BY <1>k, <3>2, <3>3 DEF WorkspaceTypes
    <3>4. g \in [name : Workspaces!Name \cup {Workspaces!None},
                   previews : SUBSET Workspaces!Team] /\ ws_seen' = [ws_seen EXCEPT ![r] = g]
      BY <3>g, <3>e
    <3>5. QED
      BY <1>k, <3>4 DEF WorkspaceTypes
  <2>6. ws_pc' \in [SlackRequest -> RequestPlaces]
    BY <1>k, <2>2 DEF WorkspaceTypes, RequestPlaces, HandledRequests
  <2>7. QED
    BY <1>k, <2>2, <2>5, <2>6 DEF WorkspaceTypes
<1>9. ASSUME NEW r \in SlackRequest, NEW n \in Workspaces!Name, Workspaces!Mention(r, n) PROVE WorkspaceTypes'
  <2>1. PICK t : t = Workspaces!Token(r)
    OBVIOUS
  <2>2. PICK m : ws_mentioned' = [ws_mentioned EXCEPT ![r] = m]
                 /\ m \in [user : Workspaces!User \cup {Workspaces!None},
                             name : Workspaces!Name \cup {Workspaces!None}]
    <3>1. PICK users : users = ws_index[Workspaces!CacheScope(r)][n]
      OBVIOUS
    <3>2. PICK chosen : chosen = {u \in users : users = {u} \/ u = "u1"}
      OBVIOUS
    <3>3. PICK m : m = IF Cardinality(chosen) = 1 THEN [user |-> CHOOSE u \in chosen : TRUE,
                                                          name |-> n] ELSE Workspaces!NoMention
      OBVIOUS
    <3>4. ws_mentioned' = [ws_mentioned EXCEPT ![r] = m]
      BY <1>9, <3>1, <3>2, <3>3, SlackCount DEF Workspaces!Mention
    <3>5. users \subseteq Workspaces!User
      <4>1. ws_pc[r] \in HandledRequests
        BY <1>9 DEF Workspaces!Mention, HandledRequests
      <4>2. Workspaces!CacheScope(r) \in Workspaces!Scope
        BY <1>k, <4>1, TokensAreTheirs
      <4>3. QED
        BY <1>k, <3>1, <4>2 DEF WorkspaceTypes
    <3>6. Cardinality(chosen) = 1 => (CHOOSE u \in chosen : TRUE) \in Workspaces!User
      <4>1. chosen = {} => Cardinality(chosen) = 0
        BY FS_EmptySet
      <4>2. QED
        BY <3>2, <3>5, <4>1
    <3>7. m \in [user : Workspaces!User \cup {Workspaces!None},
                   name : Workspaces!Name \cup {Workspaces!None}]
      BY <3>3, <3>6 DEF Workspaces!NoMention
    <3>8. QED
      BY <3>4, <3>7
  <2>3. /\ ws_pc[r] = "mention" /\ ws_pc' = [ws_pc EXCEPT ![r] = "done"]
        /\ ws_calls' = ws_calls \cup {[request |-> r, team |-> t.team, version |-> t.version]}
        /\ ws_cache' = ws_cache \/ ws_cache' = 0
        /\ ws_resolved' = [ws_resolved EXCEPT ![r] = IF @ = t.version THEN 0 ELSE @]
              \/ ws_resolved' = ws_resolved
        /\ UNCHANGED <<ws_mode, ws_event, ws_installed, ws_current, ws_context, ws_asked,
                        ws_since, ws_of, ws_names, ws_borne, ws_profile, ws_index, ws_unfurls,
                       ws_seen, ws_changes>>
    BY <1>9, <2>1 DEF Workspaces!Mention, Workspaces!people
  <2>4. ws_calls' \subseteq [request : SlackRequest, team : Workspaces!Team, version : Nat]
    BY <1>c, <2>1, <2>3 DEF HandledRequests
  <2>5. ws_mentioned' \in [SlackRequest -> [user : Workspaces!User \cup {Workspaces!None},
                                              name : Workspaces!Name \cup {Workspaces!None}]]
    BY <1>k, <2>2 DEF WorkspaceTypes
  <2>a. ws_cache' \in Nat
    BY <1>k, <2>3 DEF WorkspaceTypes
  <2>b. ASSUME ws_resolved' = [ws_resolved EXCEPT ![r] = IF @ = t.version THEN 0 ELSE @] PROVE ws_resolved' \in [SlackRequest -> Nat]
    BY <1>k, <2>b DEF WorkspaceTypes
  <2>c. ws_resolved' = ws_resolved => ws_resolved' \in [SlackRequest -> Nat]
    BY <1>k DEF WorkspaceTypes
  <2>6. ws_cache' \in Nat /\ ws_resolved' \in [SlackRequest -> Nat]
    BY <2>3, <2>a, <2>b, <2>c
  <2>7. ws_pc' \in [SlackRequest -> RequestPlaces]
    BY <1>k, <2>3 DEF WorkspaceTypes, RequestPlaces, HandledRequests
  <2>8. QED
    BY <1>k, <2>3, <2>4, <2>5, <2>6, <2>7 DEF WorkspaceTypes
<1>10. ASSUME Workspaces!Change PROVE WorkspaceTypes'
  <2>1. ws_changes' \in 0 .. SlackChanges /\ ws_changes \in Nat
    BY <1>10, <1>k, WorkspacesAssumption DEF Workspaces!Change, WorkspaceTypes
  <2>2. CASE Workspaces!Rotate
    BY <1>k, <2>1, <2>2 DEF Workspaces!Rotate, WorkspaceTypes, Workspaces!people
  <2>3. ASSUME NEW t \in Workspaces!Team, Workspaces!Reinstall(t) PROVE WorkspaceTypes'
    <3>1. PICK v \in {0, ws_changes + 2} : ws_installed' = [ws_installed EXCEPT ![t] = v]
      BY <2>3 DEF Workspaces!Reinstall
    <3>2. ws_installed' \in [Workspaces!Team -> Nat]
      BY <1>k, <2>1, <3>1 DEF WorkspaceTypes
    <3>3. QED
      BY <1>k, <2>1, <2>3, <3>2 DEF Workspaces!Reinstall, WorkspaceTypes, Workspaces!people
  <2>4. ASSUME NEW t \in Workspaces!Team, NEW u \in Workspaces!User, NEW n \in Workspaces!Name,
            Workspaces!Rename(t, u, n) PROVE WorkspaceTypes'
    <3>1. ws_names' = [ws_names EXCEPT ![t][u] = n]
              /\ ws_borne' = [ws_borne EXCEPT ![t][u] = @ \cup {n}]
          /\ UNCHANGED <<ws_mode, ws_event, ws_installed, ws_current, ws_cache, ws_context,
                          ws_resolved, ws_asked, ws_since, ws_pc, ws_of, ws_calls, ws_profile,
                         ws_index, ws_unfurls, ws_seen, ws_mentioned>>
      BY <2>4 DEF Workspaces!Rename, Workspaces!tokens
    <3>2. ws_names' \in [Workspaces!Team -> [Workspaces!User -> Workspaces!Name]]
              /\ ws_borne' \in [Workspaces!Team -> [Workspaces!User -> SUBSET Workspaces!Name]]
      BY <1>k, <3>1 DEF WorkspaceTypes
    <3>3. QED
      BY <1>k, <2>1, <3>1, <3>2 DEF WorkspaceTypes
  <2>5. ASSUME NEW s \in Workspaces!Scope, NEW u \in Workspaces!User, Workspaces!Expire(s, u) PROVE WorkspaceTypes'
    <3>1. ws_profile' = [ws_profile EXCEPT ![s][u] = Workspaces!None]
          /\ UNCHANGED <<ws_mode, ws_event, ws_installed, ws_current, ws_cache, ws_context,
                          ws_resolved, ws_asked, ws_since, ws_pc, ws_of, ws_calls, ws_names,
                         ws_borne, ws_index, ws_unfurls, ws_seen, ws_mentioned>>
      BY <2>5 DEF Workspaces!Expire, Workspaces!tokens
    <3>2. ws_profile' \in [Workspaces!Scope -> [Workspaces!User -> Workspaces!Name \cup {Workspaces!None}]]
      BY <1>k, <3>1 DEF WorkspaceTypes
    <3>3. QED
      BY <1>k, <2>1, <3>1, <3>2 DEF WorkspaceTypes
  <2>6. QED
    BY <1>10, <2>2, <2>3, <2>4, <2>5 DEF Workspaces!Change
<1>11. CASE UNCHANGED Workspaces!vars
  BY <1>11, <1>k DEF Workspaces!vars, WorkspaceTypes
<1>12. QED
  BY <1>1, <1>2, <1>3, <1>4, <1>5, <1>6, <1>7, <1>8, <1>9, <1>10,
  <1>11 DEF Workspaces!Next, Workspaces!Step

LEMMA WorkspacePeopleStep == SlackInv /\ [Workspaces!Next]_Workspaces!vars => WorkspacePeople'
<1> SUFFICES ASSUME SlackInv, [Workspaces!Next]_Workspaces!vars PROVE WorkspacePeople'
  OBVIOUS
<1>k. WorkspaceTypes /\ WorkspaceTokens /\ WorkspacePeople /\ WorkspaceReads
  BY DEF SlackInv
<1>s. Workspaces!None \in Workspaces!Scope
  BY DEF Workspaces!Scope
<1>1. ASSUME UNCHANGED <<ws_mode, Workspaces!people>> PROVE WorkspacePeople'
  <2>1. UNCHANGED <<ws_mode, ws_names, ws_borne, ws_profile, ws_index, ws_unfurls>>
    BY <1>1 DEF Workspaces!people
  <2>2. QED
    BY <1>k, <2>1 DEF WorkspacePeople
<1>2. ASSUME NEW r \in SlackRequest, Workspaces!StoreProfile(r) PROVE WorkspacePeople'
  <2>1. PICK s : s = Workspaces!CacheScope(r)
    OBVIOUS
  <2>2. PICK u, n : u = ws_of[r] /\ n = ws_seen[r].name
    OBVIOUS
  <2>3. /\ ws_pc[r] = "storing" /\ ws_profile' = [ws_profile EXCEPT ![s][u] = n]
        /\ UNCHANGED <<ws_mode, ws_names, ws_borne, ws_index, ws_unfurls>>
    BY <1>2, <2>1, <2>2 DEF Workspaces!StoreProfile
  <2>4. s \in Workspaces!Scope /\ HomeOf(s) = ws_event[r].to /\ (ws_mode = "multi" =>
                                                                   s # Workspaces!None)
    BY <1>k, <2>1, <2>3, TokensAreTheirs DEF HandledRequests
  <2>5. u \in Workspaces!User /\ n \in ws_borne[HomeOf(s)][u]
    BY <1>k, <2>2, <2>3, <2>4 DEF WorkspaceReads
  <2>6. \A z \in Workspaces!Scope, v \in Workspaces!User : ws_profile'[z][v] = IF z = s /\ v = u THEN n ELSE ws_profile[z][v]
    BY <1>k, <2>3, <2>4, <2>5 DEF WorkspaceTypes
  <2>7. \A z \in Workspaces!Scope, v \in Workspaces!User : ws_profile'[z][v] # Workspaces!None => ws_profile'[z][v] \in ws_borne[HomeOf(z)][v]
    BY <1>k, <2>5, <2>6 DEF WorkspacePeople
  <2>8. ws_mode = "multi" => \A v \in Workspaces!User : ws_profile'[Workspaces!None][v] = Workspaces!None
    BY <1>k, <1>s, <2>4, <2>6 DEF WorkspacePeople
  <2>9. QED
    BY <1>k, <2>3, <2>7, <2>8 DEF WorkspacePeople
<1>3. ASSUME NEW r \in SlackRequest, Workspaces!IndexName(r) PROVE WorkspacePeople'
  <2>1. PICK s : s = Workspaces!CacheScope(r)
    OBVIOUS
  <2>2. PICK u, n : u = ws_of[r] /\ n = ws_seen[r].name
    OBVIOUS
  <2>3. /\ ws_pc[r] = "indexing" /\ ws_index' = [ws_index EXCEPT ![s][n] = @ \cup {u}]
        /\ UNCHANGED <<ws_mode, ws_names, ws_borne, ws_profile, ws_unfurls>>
    BY <1>3, <2>1, <2>2 DEF Workspaces!IndexName
  <2>4. s \in Workspaces!Scope /\ HomeOf(s) = ws_event[r].to
    BY <1>k, <2>1, <2>3, TokensAreTheirs DEF HandledRequests
  <2>5. u \in Workspaces!User /\ n \in ws_borne[HomeOf(s)][u]
    BY <1>k, <2>2, <2>3, <2>4 DEF WorkspaceReads
  <2>6. \A z \in Workspaces!Scope, m \in Workspaces!Name : ws_index'[z][m] = ws_index[z][m]
            \/ (z = s /\ m = n /\ ws_index'[z][m] = ws_index[z][m] \cup {u})
    BY <1>k, <2>3, <2>4 DEF WorkspaceTypes
  <2>7. ASSUME NEW z \in Workspaces!Scope, NEW m \in Workspaces!Name,
            NEW v \in ws_index'[z][m] PROVE m \in ws_borne[HomeOf(z)][v]
    BY <1>k, <2>5, <2>6 DEF WorkspacePeople
  <2>8. QED
    BY <1>k, <2>3, <2>7 DEF WorkspacePeople
<1>4. ASSUME NEW r \in SlackRequest, Workspaces!CacheUnfurls(r) PROVE WorkspacePeople'
  <2>1. PICK s : s = Workspaces!CacheScope(r)
    OBVIOUS
  <2>2. PICK t : t = Workspaces!Token(r)
    OBVIOUS
  <2>3. /\ ws_pc[r] = "previews" /\ ws_unfurls' = [ws_unfurls EXCEPT ![s] = @ \cup {t.team}]
        /\ UNCHANGED <<ws_mode, ws_names, ws_borne, ws_profile, ws_index>>
    BY <1>4, <2>1, <2>2 DEF Workspaces!CacheUnfurls
  <2>4. s \in Workspaces!Scope /\ HomeOf(s) = t.team
    BY <1>k, <2>1, <2>2, <2>3, TokensAreTheirs DEF HandledRequests
  <2>5. \A z \in Workspaces!Scope : ws_unfurls'[z] \subseteq {HomeOf(z)}
    BY <1>k, <2>3, <2>4 DEF WorkspaceTypes, WorkspacePeople
  <2>6. QED
    BY <1>k, <2>3, <2>5 DEF WorkspacePeople
<1>5. ASSUME NEW t \in Workspaces!Team, NEW u \in Workspaces!User, NEW n \in Workspaces!Name,
          Workspaces!Rename(t, u, n) PROVE WorkspacePeople'
  <2>1. /\ ws_names' = [ws_names EXCEPT ![t][u] = n]
        /\ ws_borne' = [ws_borne EXCEPT ![t][u] = @ \cup {n}]
        /\ UNCHANGED <<ws_mode, ws_profile, ws_index, ws_unfurls>>
    BY <1>5 DEF Workspaces!Rename
  <2>2. \A z \in Workspaces!Team, v \in Workspaces!User : ws_borne[z][v] \subseteq ws_borne'[z][v]
    BY <1>k, <2>1 DEF WorkspaceTypes
  <2>3. \A z \in Workspaces!Team, v \in Workspaces!User : ws_names'[z][v] \in ws_borne'[z][v]
    BY <1>k, <2>1 DEF WorkspaceTypes, WorkspacePeople
  <2>4. \A z \in Workspaces!Scope : HomeOf(z) \in Workspaces!Team
    BY DEF Workspaces!Scope, HomeOf, Workspaces!Team
  <2>5. \A z \in Workspaces!Scope, v \in Workspaces!User : ws_profile[z][v] # Workspaces!None =>
            ws_profile[z][v] \in ws_borne'[HomeOf(z)][v]
    BY <1>k, <2>2, <2>4 DEF WorkspacePeople
  <2>6. \A z \in Workspaces!Scope, m \in Workspaces!Name : \A v \in ws_index[z][m] : m \in ws_borne'[HomeOf(z)][v]
    <3>1. \A z \in Workspaces!Scope, m \in Workspaces!Name : ws_index[z][m] \subseteq Workspaces!User
      BY <1>k DEF WorkspaceTypes
    <3>2. QED
      BY <1>k, <2>2, <2>4, <3>1 DEF WorkspacePeople
  <2>7. QED
    BY <1>k, <2>1, <2>3, <2>5, <2>6 DEF WorkspacePeople
<1>6. ASSUME NEW s \in Workspaces!Scope, NEW u \in Workspaces!User, Workspaces!Expire(s, u) PROVE WorkspacePeople'
  <2>1. ws_profile' = [ws_profile EXCEPT ![s][u] = Workspaces!None]
            /\ UNCHANGED <<ws_mode, ws_names, ws_borne, ws_index, ws_unfurls>>
    BY <1>6 DEF Workspaces!Expire
  <2>2. \A z \in Workspaces!Scope, v \in Workspaces!User : ws_profile'[z][v] = ws_profile[z][v] \/ ws_profile'[z][v] = Workspaces!None
    BY <1>k, <2>1 DEF WorkspaceTypes
  <2>3. QED
    BY <1>k, <1>s, <2>1, <2>2 DEF WorkspacePeople
<1>7. CASE UNCHANGED Workspaces!vars
  BY <1>1, <1>7 DEF Workspaces!vars, Workspaces!people
<1>8. ASSUME NEW r \in SlackRequest, Workspaces!Step(r) PROVE WorkspacePeople'
  BY <1>1, <1>2, <1>3, <1>4, <1>8 DEF Workspaces!Step, Workspaces!Arrive,
                                      Workspaces!ResolverAnswers,
                                              Workspaces!LookUpInstallation,
                                                    Workspaces!EnrichLinks, Workspaces!LookUp,
                                                          Workspaces!Mention
<1>9. ASSUME Workspaces!Change PROVE WorkspacePeople'
  <2>1. CASE Workspaces!Rotate
    BY <1>1, <2>1 DEF Workspaces!Rotate
  <2>2. CASE \E t \in Workspaces!Team : Workspaces!Reinstall(t)
    BY <1>1, <2>2 DEF Workspaces!Reinstall
  <2>3. QED
    BY <1>5, <1>6, <1>9, <2>1, <2>2 DEF Workspaces!Change
<1>10. QED
  BY <1>7, <1>8, <1>9 DEF Workspaces!Next

LEMMA WorkspaceReadsStep == SlackInv /\ [Workspaces!Next]_Workspaces!vars => WorkspaceReads'
<1> SUFFICES ASSUME SlackInv, [Workspaces!Next]_Workspaces!vars PROVE WorkspaceReads'
  OBVIOUS
<1>k. WorkspaceTypes /\ WorkspaceTokens /\ WorkspacePeople /\ WorkspaceReads
  BY DEF SlackInv
<1>t. \A q \in SlackRequest : ws_event[q].to \in Workspaces!Team
  BY <1>k DEF WorkspaceTokens, ManyWorkspaces, OneWorkspace, Workspaces!Events,
              Workspaces!Event, Workspaces!Team
\* Of what a request read nothing changes, and it is storing nothing new.
<1>1. ASSUME UNCHANGED <<ws_event, ws_of, ws_seen, ws_mentioned>>,
             \A z \in Workspaces!Team, v \in Workspaces!User : ws_borne[z][v] \subseteq ws_borne'[z][v],
             \A q \in SlackRequest : ws_pc'[q] \in {"storing", "indexing"} =>
                   ws_pc[q] \in {"storing", "indexing"}
      PROVE  WorkspaceReads'
  <2>1. SUFFICES ASSUME NEW q \in SlackRequest
                 PROVE  LET team == ws_event[q].to IN
                        /\ ws_seen[q].name # Workspaces!None =>
                              \E u \in Workspaces!User : ws_seen[q].name \in ws_borne'[team][u]
                        /\ ws_seen[q].previews \subseteq {team}
                        /\ ws_pc'[q] \in {"storing", "indexing"} =>
                              ws_of[q] \in Workspaces!User
                                    /\ ws_seen[q].name \in ws_borne'[team][ws_of[q]]
                        /\ ws_mentioned[q] # Workspaces!NoMention =>
                              ws_mentioned[q].user \in Workspaces!User
                                    /\ ws_mentioned[q].name \in ws_borne'[team][ws_mentioned[q].user]
    BY <1>1 DEF WorkspaceReads
  <2>2. QED
    BY <1>1, <1>k, <1>t DEF WorkspaceReads
<1>2. ASSUME NEW r \in SlackRequest, Workspaces!Arrive(r) \/ Workspaces!ResolverAnswers(r)
          \/ Workspaces!LookUpInstallation(r) \/ Workspaces!StoreProfile(r)
                \/ Workspaces!IndexName(r)
                                \/ Workspaces!CacheUnfurls(r)
      PROVE  WorkspaceReads'
  <2>1. UNCHANGED <<ws_event, ws_of, ws_seen, ws_mentioned, ws_borne>>
    BY <1>2 DEF Workspaces!Arrive, Workspaces!ResolverAnswers,
                Workspaces!LookUpInstallation, Workspaces!StoreProfile,
                        Workspaces!IndexName, Workspaces!CacheUnfurls, Workspaces!people
  <2>2. \A q \in SlackRequest : ws_pc'[q] \in {"storing", "indexing"} =>
            ws_pc[q] \in {"storing", "indexing"}
    BY <1>2, <1>k DEF WorkspaceTypes, Workspaces!Arrive, Workspaces!ResolverAnswers,
                      Workspaces!LookUpInstallation, Workspaces!StoreProfile,
                              Workspaces!IndexName, Workspaces!CacheUnfurls
  <2>3. QED
    BY <1>1, <2>1, <2>2
<1>3. ASSUME NEW r \in SlackRequest, NEW u \in Workspaces!User, Workspaces!LookUp(r, u) PROVE WorkspaceReads'
  <2>1. PICK t : t = Workspaces!Token(r)
    OBVIOUS
  <2>2. PICK s : s = Workspaces!CacheScope(r)
    OBVIOUS
  <2>3. t.team = ws_event[r].to /\ s \in Workspaces!Scope /\ HomeOf(s) = ws_event[r].to
            /\ ws_event[r].to \in Workspaces!Team
    BY <1>3, <1>k, <2>1, <2>2, TokensAreTheirs DEF Workspaces!LookUp, HandledRequests
  <2>4. UNCHANGED <<ws_event, ws_mentioned, ws_borne>>
    BY <1>3 DEF Workspaces!LookUp, Workspaces!people
  <2>5. ASSUME NEW q \in SlackRequest, q # r PROVE ws_pc'[q] = ws_pc[q]
            /\ ws_seen'[q] = ws_seen[q] /\ ws_of'[q] = ws_of[q]
    BY <1>3, <1>k, <2>5 DEF Workspaces!LookUp, WorkspaceTypes
  <2>6. ws_seen'[r].previews = ws_seen[r].previews
    BY <1>3, <1>k DEF Workspaces!LookUp, WorkspaceTypes
  <2>7. \/ ws_pc'[r] = "previews" /\ ws_seen'[r].name = ws_profile[s][u]
              /\ ws_profile[s][u] # Workspaces!None
        \/ ws_pc'[r] = "storing" /\ ws_seen'[r].name = ws_names[t.team][u] /\ ws_of'[r] = u
        \/ ws_pc'[r] = "previews" /\ ws_seen'[r] = ws_seen[r]
    BY <1>3, <1>k, <2>1, <2>2 DEF Workspaces!LookUp, WorkspaceTypes
  <2>8. ASSUME NEW q \in SlackRequest
        PROVE  LET team == ws_event[q].to IN
               /\ ws_seen'[q].name # Workspaces!None =>
                     \E v \in Workspaces!User : ws_seen'[q].name \in ws_borne[team][v]
               /\ ws_pc'[q] \in {"storing", "indexing"} =>
                     ws_of'[q] \in Workspaces!User /\ ws_seen'[q].name \in ws_borne[team][ws_of'[q]]
    <3>1. CASE q = r
      <4>1. ws_profile[s][u] # Workspaces!None => ws_profile[s][u] \in ws_borne[ws_event[r].to][u]
        BY <1>k, <2>3 DEF WorkspacePeople
      <4>2. ws_names[t.team][u] \in ws_borne[ws_event[r].to][u]
        BY <1>k, <2>3 DEF WorkspacePeople
      <4>3. ws_seen[r].name # Workspaces!None =>
                \E v \in Workspaces!User : ws_seen[r].name \in ws_borne[ws_event[r].to][v]
        BY <1>k DEF WorkspaceReads
      <4>4. QED
        BY <2>7, <3>1, <4>1, <4>2, <4>3
    <3>2. CASE q # r
      BY <1>k, <2>5, <3>2 DEF WorkspaceReads
    <3>3. QED
      BY <3>1, <3>2
  <2>9. QED
    BY <1>k, <2>4, <2>5, <2>6, <2>8 DEF WorkspaceReads
<1>4. ASSUME NEW r \in SlackRequest, Workspaces!EnrichLinks(r) PROVE WorkspaceReads'
  <2>1. PICK s : s = Workspaces!CacheScope(r)
    OBVIOUS
  <2>2. /\ ws_pc[r] = "previews" /\ ws_seen' = [ws_seen EXCEPT ![r].previews = ws_unfurls[s]] /\ ws_pc' = [ws_pc EXCEPT ![r] = "mention"]
        /\ UNCHANGED <<ws_event, ws_of, ws_borne, ws_mentioned>>
    BY <1>4, <2>1 DEF Workspaces!EnrichLinks, Workspaces!people
  <2>3. s \in Workspaces!Scope /\ HomeOf(s) = ws_event[r].to
    BY <1>k, <2>1, <2>2, TokensAreTheirs DEF HandledRequests
  <2>4. ws_unfurls[s] \subseteq {ws_event[r].to}
    BY <1>k, <2>3 DEF WorkspacePeople
  <2>5. \A q \in SlackRequest : /\ ws_seen'[q].name = ws_seen[q].name
                                /\ ws_seen'[q].previews = ws_seen[q].previews \/ (q = r /\ ws_seen'[q].previews = ws_unfurls[s])
                                /\ ws_pc'[q] = ws_pc[q] \/ ws_pc'[q] = "mention"
    BY <1>k, <2>2 DEF WorkspaceTypes
  <2>6. QED
    BY <1>k, <2>2, <2>4, <2>5 DEF WorkspaceReads
<1>5. ASSUME NEW r \in SlackRequest, NEW n \in Workspaces!Name, Workspaces!Mention(r, n) PROVE WorkspaceReads'
  <2>1. PICK s : s = Workspaces!CacheScope(r)
    OBVIOUS
  <2>2. PICK users : users = ws_index[s][n]
    OBVIOUS
  <2>3. PICK chosen : chosen = {u \in users : users = {u} \/ u = "u1"}
    OBVIOUS
  <2>4. PICK m : m = IF Cardinality(chosen) = 1 THEN [user |-> CHOOSE u \in chosen : TRUE,
                                                        name |-> n] ELSE Workspaces!NoMention
    OBVIOUS
  <2>5. /\ ws_pc[r] = "mention" /\ ws_pc' = [ws_pc EXCEPT ![r] = "done"]
        /\ ws_mentioned' = [ws_mentioned EXCEPT ![r] = m]
        /\ UNCHANGED <<ws_event, ws_of, ws_seen, ws_borne>>
    BY <1>5, <2>1, <2>2, <2>3, <2>4, SlackCount DEF Workspaces!Mention, Workspaces!people
  <2>6. s \in Workspaces!Scope /\ HomeOf(s) = ws_event[r].to
    BY <1>k, <2>1, <2>5, TokensAreTheirs DEF HandledRequests
  <2>7. users \subseteq Workspaces!User /\ \A u \in users : n \in ws_borne[ws_event[r].to][u]
    BY <1>k, <2>2, <2>6 DEF WorkspaceTypes, WorkspacePeople
  <2>8. m # Workspaces!NoMention => m.user \in Workspaces!User
            /\ m.name \in ws_borne[ws_event[r].to][m.user]
    <3>1. CASE Cardinality(chosen) = 1
      <4>1. chosen # {}
        BY <3>1, FS_EmptySet
      <4>2. PICK u : u = (CHOOSE v \in chosen : TRUE)
        OBVIOUS
      <4>3. u \in users
        BY <2>3, <4>1, <4>2
      <4>4. m = [user |-> u, name |-> n]
        BY <2>4, <3>1, <4>2
      <4>5. QED
        BY <2>7, <4>3, <4>4
    <3>2. CASE Cardinality(chosen) # 1
      BY <2>4, <3>2
    <3>3. QED
      BY <3>1, <3>2
  <2>9. \A q \in SlackRequest : /\ ws_mentioned'[q] = ws_mentioned[q] \/ (q = r /\ ws_mentioned'[q] = m)
                                /\ ws_pc'[q] = ws_pc[q] \/ ws_pc'[q] = "done"
    BY <1>k, <2>5 DEF WorkspaceTypes
  <2>10. QED
    BY <1>k, <2>5, <2>8, <2>9 DEF WorkspaceReads
<1>6. ASSUME Workspaces!Change PROVE WorkspaceReads'
  <2>1. UNCHANGED <<ws_event, ws_of, ws_seen, ws_mentioned, ws_pc>>
    BY <1>6 DEF Workspaces!Change, Workspaces!Rotate, Workspaces!Reinstall,
                Workspaces!Rename, Workspaces!Expire
  <2>2. \A z \in Workspaces!Team, v \in Workspaces!User : ws_borne[z][v] \subseteq ws_borne'[z][v]
    <3>1. \/ ws_borne' = ws_borne
          \/ \E t \in Workspaces!Team, u \in Workspaces!User,
                n \in Workspaces!Name : ws_borne' = [ws_borne EXCEPT ![t][u] = @ \cup {n}]
      BY <1>6 DEF Workspaces!Change, Workspaces!Rotate, Workspaces!Reinstall,
                  Workspaces!Rename, Workspaces!Expire, Workspaces!people
    <3>2. ASSUME NEW t \in Workspaces!Team, NEW u \in Workspaces!User,
              NEW n \in Workspaces!Name, ws_borne' = [ws_borne EXCEPT ![t][u] = @ \cup {n}]
          PROVE  \A z \in Workspaces!Team, v \in Workspaces!User : ws_borne[z][v] \subseteq ws_borne'[z][v]
      BY <1>k, <3>2 DEF WorkspaceTypes
    <3>3. QED
      BY <3>1, <3>2
  <2>3. QED
    BY <1>1, <2>1, <2>2
<1>7. CASE UNCHANGED Workspaces!vars
  BY <1>1, <1>7 DEF Workspaces!vars
<1>8. QED
  BY <1>2, <1>3, <1>4, <1>5, <1>6, <1>7 DEF Workspaces!Next, Workspaces!Step

LEMMA WorkspaceCallsStep == SlackInv /\ [Workspaces!Next]_Workspaces!vars => WorkspaceCalls'
<1> SUFFICES ASSUME SlackInv, [Workspaces!Next]_Workspaces!vars PROVE WorkspaceCalls'
  OBVIOUS
<1>k. WorkspaceTypes /\ WorkspaceTokens /\ WorkspaceCalls
  BY DEF SlackInv
<1>1. ws_mode' = ws_mode /\ ws_event' = ws_event
  BY DEF Workspaces!Next, Workspaces!Step, Workspaces!Change, Workspaces!Arrive,
         Workspaces!ResolverAnswers, Workspaces!LookUpInstallation,
                 Workspaces!CacheUnfurls, Workspaces!EnrichLinks, Workspaces!StoreProfile,
                       Workspaces!IndexName,
      Workspaces!LookUp, Workspaces!Mention, Workspaces!Rotate, Workspaces!Reinstall,
            Workspaces!Rename, Workspaces!Expire, Workspaces!vars
\* A request that has arrived keeps the versions it arrived with.
<1>2. \A q \in SlackRequest : ws_pc[q] # "idle" => ws_since'[q] = ws_since[q] /\ ws_pc'[q] # "idle"
  <2>1. ASSUME NEW r \in SlackRequest, Workspaces!Step(r) PROVE \A q \in SlackRequest : ws_pc[q] # "idle" => ws_since'[q] = ws_since[q] /\ ws_pc'[q] # "idle"
    <3>1. CASE Workspaces!Arrive(r)
      BY <1>k, <3>1 DEF Workspaces!Arrive, WorkspaceTypes
    <3>2. CASE ~Workspaces!Arrive(r)
      <4>1. ws_since' = ws_since
        BY <2>1, <3>2 DEF Workspaces!Step, Workspaces!ResolverAnswers,
                          Workspaces!LookUpInstallation, Workspaces!CacheUnfurls,
                                  Workspaces!EnrichLinks, Workspaces!StoreProfile,
                                        Workspaces!IndexName,
            Workspaces!LookUp, Workspaces!Mention, Workspaces!tokens
      <4>2. \E p \in RequestPlaces \ {"idle"} : ws_pc' = [ws_pc EXCEPT ![r] = p]
        BY <2>1, <3>2 DEF Workspaces!Step, Workspaces!ResolverAnswers,
                          Workspaces!LookUpInstallation, Workspaces!CacheUnfurls,
                                  Workspaces!EnrichLinks, Workspaces!StoreProfile,
                                        Workspaces!IndexName,
            Workspaces!LookUp, Workspaces!Mention, RequestPlaces, HandledRequests
      <4>3. QED
        BY <1>k, <4>1, <4>2 DEF WorkspaceTypes
    <3>3. QED
      BY <3>1, <3>2
  <2>2. ASSUME Workspaces!Change PROVE UNCHANGED <<ws_since, ws_pc>>
    BY <2>2 DEF Workspaces!Change, Workspaces!Rotate, Workspaces!Reinstall,
                Workspaces!Rename, Workspaces!Expire, Workspaces!tokens
  <2>3. QED
    BY <2>1, <2>2 DEF Workspaces!Next, Workspaces!vars
<1>3. \/ ws_calls' = ws_calls
      \/ \E r \in SlackRequest : /\ ws_pc[r] \in HandledRequests
                                 /\ \E t : t = Workspaces!Token(r)
                                       /\ ws_calls' = ws_calls \cup {[request |-> r, team |-> t.team, version |-> t.version]}
  <2>1. ASSUME NEW r \in SlackRequest, NEW u \in Workspaces!User, Workspaces!LookUp(r, u)
        PROVE  \/ ws_calls' = ws_calls
               \/ \E t : t = Workspaces!Token(r)
                     /\ ws_calls' = ws_calls \cup {[request |-> r, team |-> t.team,
                                                      version |-> t.version]}
    BY <2>1 DEF Workspaces!LookUp
  <2>2. ASSUME NEW r \in SlackRequest, NEW n \in Workspaces!Name, Workspaces!Mention(r, n)
        PROVE  \E t : t = Workspaces!Token(r)
              /\ ws_calls' = ws_calls \cup {[request |-> r, team |-> t.team, version |-> t.version]}
    BY <2>2 DEF Workspaces!Mention
  <2>3. ASSUME NEW r \in SlackRequest, Workspaces!Step(r),
            ~\E u \in Workspaces!User : Workspaces!LookUp(r, u),
                  ~\E n \in Workspaces!Name : Workspaces!Mention(r, n)
        PROVE  ws_calls' = ws_calls
    BY <2>3 DEF Workspaces!Step, Workspaces!Arrive, Workspaces!ResolverAnswers,
                Workspaces!LookUpInstallation, Workspaces!CacheUnfurls,
                        Workspaces!EnrichLinks, Workspaces!StoreProfile, Workspaces!IndexName
  <2>4. ASSUME NEW r \in SlackRequest, (\E u \in Workspaces!User : Workspaces!LookUp(r, u))
            \/ (\E n \in Workspaces!Name : Workspaces!Mention(r,
                                                                n)) PROVE ws_pc[r] \in HandledRequests
    BY <2>4 DEF Workspaces!LookUp, Workspaces!Mention, HandledRequests
  <2>5. Workspaces!Change => ws_calls' = ws_calls
    BY DEF Workspaces!Change, Workspaces!Rotate, Workspaces!Reinstall, Workspaces!Rename,
           Workspaces!Expire
  <2>6. QED
    BY <2>1, <2>2, <2>3, <2>4, <2>5 DEF Workspaces!Next, Workspaces!vars
<1>4. ASSUME NEW c \in ws_calls'
      PROVE  /\ c.team = ws_event[c.request].to /\ c.version > 0 /\ ws_pc'[c.request] # "idle"
             /\ c.version >= IF ws_mode = "multi" THEN ws_since'[c.request].installed[c.team] ELSE ws_since'[c.request].current
  <2>1. CASE c \in ws_calls
    <3>1. c.request \in SlackRequest
      BY <1>k, <2>1 DEF WorkspaceTypes
    <3>2. QED
      BY <1>2, <1>k, <2>1, <3>1 DEF WorkspaceCalls, Workspaces!CallsUseTheirToken
  <2>2. CASE c \notin ws_calls
    <3>1. PICK r \in SlackRequest : /\ ws_pc[r] \in HandledRequests
                                    /\ \E t : t = Workspaces!Token(r)
                                          /\ c = [request |-> r, team |-> t.team,
                                                    version |-> t.version]
      BY <1>3, <1>4, <2>2
    <3>2. PICK t : t = Workspaces!Token(r) /\ c = [request |-> r, team |-> t.team,
                                                     version |-> t.version]
      BY <3>1
    <3>3. c.request = r /\ c.team = t.team /\ c.version = t.version
      BY <3>2
    <3>4. t.team = ws_event[r].to /\ t.version > 0
          /\ t.version >= IF ws_mode = "multi" THEN ws_since[r].installed[ws_event[r].to] ELSE ws_since[r].current
      BY <1>k, <3>1, <3>2, TokensAreTheirs
    <3>5. ws_pc[r] # "idle"
      BY <3>1 DEF HandledRequests
    <3>6. ws_since'[r] = ws_since[r] /\ ws_pc'[r] # "idle"
      BY <1>2, <3>5
    <3>7. QED
      BY <3>3, <3>4, <3>6
  <2>3. QED
    BY <2>1, <2>2
<1>5. QED
  BY <1>1, <1>4 DEF WorkspaceCalls, Workspaces!CallsUseTheirToken

LEMMA WsStep == SlackInv /\ [Workspaces!Next]_Workspaces!vars => SlackInv'
  BY WorkspaceTypesStep, WorkspaceTokensStep, WorkspacePeopleStep, WorkspaceReadsStep,
  WorkspaceCallsStep DEF SlackInv

LEMMA WsFollow == SlackInv => Workspaces!WorkspacesAreApart
<1> SUFFICES ASSUME SlackInv PROVE Workspaces!WorkspacesAreApart
  OBVIOUS
<1>k. WorkspaceTypes /\ WorkspaceTokens /\ WorkspacePeople /\ WorkspaceReads /\ WorkspaceCalls
  BY DEF SlackInv
<1>1. Workspaces!TypeOK
  <2>1. ws_current \in 1 .. SlackChanges + 1 /\ ws_cache \in 0 .. SlackChanges + 1
    BY <1>k, WorkspacesAssumption DEF WorkspaceTypes, WorkspaceTokens, VersionsGrow
  <2>2. ws_installed \in [Workspaces!Team -> 0 .. SlackChanges + 1]
    <3>1. \A t \in Workspaces!Team : ws_installed[t] \in Nat
              /\ ws_installed[t] <= ws_changes + 1 /\ ws_changes \in 0 .. SlackChanges
      BY <1>k DEF WorkspaceTypes, WorkspaceTokens, VersionsGrow
    <3>2. \A t \in Workspaces!Team : ws_installed[t] \in 0 .. SlackChanges + 1
      BY <3>1, WorkspacesAssumption
    <3>3. QED
      BY <1>k, <3>2 DEF WorkspaceTypes
  <2>3. \A r \in SlackRequest :
           ws_pc[r] \in {"idle", "resolving", "handling", "storing", "indexing", "previews",
                           "mention", "done", "dropped"}
    BY <1>k DEF WorkspaceTypes, RequestPlaces, HandledRequests
  <2>4. QED
    BY <1>k, <2>1, <2>2, <2>3 DEF Workspaces!TypeOK, WorkspaceTypes
<1>2. ASSUME NEW r \in SlackRequest, NEW u \in Workspaces!User
      PROVE  ws_profile[Workspaces!CacheScope(r)][u] # Workspaces!None =>
            ws_profile[Workspaces!CacheScope(r)][u] \in ws_borne[ws_event[r].to][u]
  <2>1. CASE ws_mode = "multi"
    <3>1. ManyWorkspaces(r)
      BY <1>k, <2>1 DEF WorkspaceTokens
    <3>2. CASE ws_context[r].version > 0
      <4>1. Workspaces!CacheScope(r) = ws_event[r].to /\ ws_event[r].to \in Workspaces!Team
        BY <3>1, <3>2 DEF Workspaces!CacheScope, ManyWorkspaces, Workspaces!Events,
                          Workspaces!Event, Workspaces!Team
      <4>2. HomeOf(Workspaces!CacheScope(r)) = ws_event[r].to
                /\ Workspaces!CacheScope(r) \in Workspaces!Scope
        BY <4>1 DEF HomeOf, Workspaces!Scope, Workspaces!Team, Workspaces!None
      <4>3. QED
        BY <1>k, <4>2 DEF WorkspacePeople
    <3>3. CASE ~(ws_context[r].version > 0)
      <4>1. Workspaces!CacheScope(r) = Workspaces!None
        BY <3>3 DEF Workspaces!CacheScope
      <4>2. QED
        BY <1>k, <2>1, <4>1 DEF WorkspacePeople
    <3>4. QED
      BY <3>2, <3>3
  <2>2. CASE ws_mode # "multi"
    <3>1. ws_context[r] = Workspaces!NoContext /\ ws_event[r].to = "home"
      BY <1>k, <2>2 DEF WorkspaceTokens, OneWorkspace, Workspaces!Event
    <3>2. Workspaces!CacheScope(r) = Workspaces!None
      BY <3>1 DEF Workspaces!CacheScope, Workspaces!NoContext
    <3>3. HomeOf(Workspaces!CacheScope(r)) = ws_event[r].to
              /\ Workspaces!CacheScope(r) \in Workspaces!Scope
      BY <3>1, <3>2 DEF HomeOf, Workspaces!Scope
    <3>4. QED
      BY <1>k, <3>3 DEF WorkspacePeople
  <2>3. QED
    BY <2>1, <2>2
<1>3. Workspaces!ProfilesStayHome
  BY <1>k, <1>2 DEF Workspaces!ProfilesStayHome, WorkspaceReads
<1>4. Workspaces!MentionsMeetTheirUser
  BY <1>k DEF Workspaces!MentionsMeetTheirUser, WorkspaceReads
<1>5. QED
  BY <1>1, <1>3, <1>4, <1>k DEF Workspaces!WorkspacesAreApart, WorkspaceCalls

-----------------------------------------------------------------------------
(* The tools of agents, in any number of tasks and with any number of calls. *)
CONSTANTS
    AgentHandling,  \* the tasks that handle an event
    AgentCalls      \* bound on the calls

ASSUME AgentsAssumption == AgentCalls \in Nat

VARIABLES
    ag_setup, ag_event, ag_queue, ag_pc, ag_stack, ag_serving, ag_child,
    ag_last, ag_warnings, ag_calls

Agents == INSTANCE AgentTools WITH
    Handling <- AgentHandling, MaxCalls <- AgentCalls, setup <- ag_setup, event <- ag_event, queue <-
    ag_queue, pc <- ag_pc, stack <- ag_stack, serving <- ag_serving, child <-
    ag_child, last <- ag_last, warnings <- ag_warnings, calls <- ag_calls

agVars == <<ag_setup, ag_event, ag_queue, ag_pc, ag_stack, ag_serving, ag_child,
    ag_last, ag_warnings, ag_calls>>

AgentPlaces == Agents!Conversation \cup {Agents!Nowhere}

\* Whoever handles something has entered its conversation, and whoever is between two
\* messages none but that of the lock.
AgentInPlace(k) ==
    /\ ag_pc[k] = "handling" => Agents!Active(ag_stack[k]) = ag_serving[k]
    /\ Len(ag_stack[k]) <= IF ag_pc[k] = "handling" THEN 2 ELSE IF ag_pc[k] = "draining" THEN 1 ELSE 0
    /\ ag_child[k].alive => Agents!Active(ag_child[k].stack) = ag_child[k].serving

AgentTypes ==
    /\ ag_setup \in Agents!Setups /\ ag_event \in [AgentHandling -> Agents!Events]
    /\ ag_queue \in [AgentHandling -> Seq(Agents!Conversation)]
    /\ ag_pc \in [AgentHandling -> {"idle", "handling", "draining", "done"}]
    /\ ag_stack \in [AgentHandling -> Seq(Agents!Conversation)]
    /\ ag_serving \in [AgentHandling -> AgentPlaces]
    /\ ag_child \in [AgentHandling -> [alive : BOOLEAN, stack : Seq(Agents!Conversation),
                                         serving : AgentPlaces]]
    /\ ag_warnings \in 0 .. 1 /\ ag_calls \in 0 .. AgentCalls

AgentInv == AgentTypes /\ (\A k \in AgentHandling : AgentInPlace(k))
      /\ Agents!AgentsStayInTheirThread

LEMMA SetupsKnown ==
    ASSUME ag_setup \in Agents!Setups
    PROVE  /\ ag_setup.scope \in {"handled", "explicit", "everywhere"}
           /\ ag_setup.approval \in {"all", "none", "map"}
           /\ ag_setup.override \in {Agents!None, "free"}
BY DEF Agents!Setups, Agents!None

\* A conversation is somewhere.
LEMMA SomewhereIs == \A id \in Agents!Conversation : id # Agents!Nowhere /\ Len(id) \in 1 .. 2
BY DEF Agents!Conversation, Agents!Nowhere, Agents!Channel, Agents!Thread

LEMMA LengthsAreNat == \A s \in Seq(Agents!Conversation) : Len(s) \in Nat
OBVIOUS

LEMMA EventsAreSomewhere == \A e \in Agents!Events : e.of \in AgentPlaces
BY DEF Agents!Events, AgentPlaces, Agents!Conversation, Agents!Channel, Agents!Thread,
       Agents!Nowhere

\* Entering a conversation makes it the active one.
LEMMA EnteredIsActive ==
    ASSUME NEW s \in Seq(Agents!Conversation), NEW id \in AgentPlaces
    PROVE  /\ Agents!Entered(s, id) \in Seq(Agents!Conversation)
           /\ Len(Agents!Entered(s, id)) <= Len(s) + 1
           /\ id # Agents!Nowhere \/ s = <<>> => Agents!Active(Agents!Entered(s, id)) = id
<1>1. CASE id = Agents!Nowhere
  BY <1>1 DEF Agents!Entered, Agents!Active
<1>2. CASE id # Agents!Nowhere
  <2>1. id \in Agents!Conversation /\ Agents!Entered(s, id) = Append(s, id)
    BY <1>2 DEF AgentPlaces, Agents!Entered
  <2>2. /\ Append(s, id) \in Seq(Agents!Conversation) /\ Len(Append(s, id)) = Len(s) + 1
        /\ Append(s, id)[Len(s) + 1] = id /\ Append(s, id) # <<>>
    BY <2>1
  <2>3. QED
    BY <2>1, <2>2 DEF Agents!Active, Agents!Last
<1>3. QED
  BY <1>1, <1>2

\* Two are entered at most.
LEMMA TwoEntered ==
    ASSUME NEW s \in Seq(Agents!Conversation), NEW id \in AgentPlaces, NEW e,
          e = Agents!Entered(s, id), Len(s) <= 1
    PROVE  Len(e) <= 2
<1>1. PICK n : n = Len(s)
  OBVIOUS
<1>2. PICK m : m = Len(e)
  OBVIOUS
<1>3. n \in Nat /\ m \in Nat /\ m <= n + 1 /\ n <= 1
  BY <1>1, <1>2, EnteredIsActive, LengthsAreNat
<1>4. m <= 2
  BY <1>3
<1>5. QED
  BY <1>2, <1>4

-----------------------------------------------------------------------------
LEMMA ToolNames ==
    /\ \A t \in Agents!Tools : Agents!Targeted(t) <=> t.name \notin {"getUser", "sendDirectMessage"}
    /\ \A t \in Agents!Tools : t.name = "postMessage" => t = Agents!PostMessage
    /\ \A t \in Agents!Tools : t.name = "deleteMessage" => t = Agents!DeleteMessage
    /\ \A t \in Agents!Writes \cup {Agents!GetUser} : t.gated
    /\ \A t, u \in Agents!Tools : t.name = u.name => t = u
    /\ \A t \in Agents!Tools : t.name # Agents!None
    /\ Agents!Writes \cap Agents!Reads = {} /\ Agents!Reads \subseteq Agents!Tools
    /\ Agents!Writes \subseteq Agents!Tools
  BY DEF Agents!Tools, Agents!Reads, Agents!Writes, Agents!Tool, Agents!Targeted,
         Agents!None, Agents!FetchMessages, Agents!FetchChannelMessages,
                 Agents!FetchThread, Agents!ListThreads,
         Agents!GetThreadParticipants, Agents!GetChannelInfo, Agents!GetUser,
               Agents!StartTyping, Agents!PostMessage, Agents!PostChannelMessage,
         Agents!SendDirectMessage, Agents!EditMessage, Agents!DeleteMessage,
               Agents!AddReaction, Agents!RemoveReaction, Agents!SubscribeThread,
         Agents!UnsubscribeThread

LEMMA ToolsetKnown ==
    ASSUME ag_setup \in Agents!Setups
    PROVE  /\ Agents!Toolset \subseteq Agents!Tools
           /\ ag_setup.presets = {"reader"} => Agents!Toolset = Agents!Reads
<1>1. Agents!Preset("reader") = Agents!Reads /\ Agents!Reads \subseteq Agents!Tools
  BY DEF Agents!Preset, Agents!Tools
<1>2. Agents!Preset("messenger") \subseteq Agents!Tools
  BY DEF Agents!Preset, Agents!Tools, Agents!Reads, Agents!Writes
<1>3. Agents!Preset("moderator") = Agents!Tools
  BY DEF Agents!Preset
<1>4. ag_setup.presets \subseteq {"reader", "messenger", "moderator"}
  BY DEF Agents!Setups
<1>5. QED
  BY <1>1, <1>2, <1>3, <1>4 DEF Agents!Toolset

\* The module's own name of what FiniteSets defines.
LEMMA AgentCount == \A S : Agents!Cardinality(S) = Cardinality(S)
BY DEF Agents!Cardinality, Cardinality

\* An id that names one adapter names the user's own, if that is there, or Discord.
LEMMA UsersAreInferred ==
    ASSUME NEW user \in Agents!Users, Cardinality(Agents!Inferred(user)) = 1
    PROVE  \/ Agents!Inferred(user) = {user.of}
           \/ user.of \notin ag_setup.registered
           \/ user.form = "snowflake" /\ Agents!Inferred(user) = {"discord"}
<1> DEFINE All == {"gchat", "teams", "linear", "slack", "discord", "telegram", "github"}
<1>1. Agents!Inferred(user) \subseteq All
  BY DEF Agents!Inferred, Agents!Users, Agents!User
<1>2. IsFiniteSet(All)
  <2>1. IsFiniteSet({"gchat"})
    BY FS_Singleton
  <2>2. IsFiniteSet({"gchat"} \cup {"teams"})
    BY <2>1, FS_AddElement
  <2>3. IsFiniteSet({"gchat"} \cup {"teams"} \cup {"linear"})
    BY <2>2, FS_AddElement
  <2>4. IsFiniteSet({"gchat"} \cup {"teams"} \cup {"linear"} \cup {"slack"})
    BY <2>3, FS_AddElement
  <2>5. IsFiniteSet({"gchat"} \cup {"teams"} \cup {"linear"} \cup {"slack"} \cup {"discord"})
    BY <2>4, FS_AddElement
  <2>6. IsFiniteSet({"gchat"} \cup {"teams"} \cup {"linear"} \cup {"slack"} \cup {"discord"} \cup {"telegram"})
    BY <2>5, FS_AddElement
  <2>7. IsFiniteSet({"gchat"} \cup {"teams"} \cup {"linear"} \cup {"slack"} \cup {"discord"} \cup {"telegram"}
                    \cup {"github"})
    BY <2>6, FS_AddElement
  <2>8. All = {"gchat"} \cup {"teams"} \cup {"linear"} \cup {"slack"} \cup {"discord"} \cup {"telegram"}
              \cup {"github"}
    OBVIOUS
  <2>9. QED
    BY <2>7, <2>8
<1>3. PICK a : Agents!Inferred(user) = {a}
  BY <1>1, <1>2, FS_Subset, FS_Singleton
<1>4. user.of \in ag_setup.registered => user.of \in Agents!Inferred(user)
          \/ (user.form = "snowflake" /\ Agents!Inferred(user) = {"discord"})
  <2>1. CASE user.form \in {"users/", "29:", "uuid", "U"}
    BY <2>1 DEF Agents!Inferred, Agents!Users, Agents!User
  <2>2. CASE user.form = "number"
    BY <2>2 DEF Agents!Inferred, Agents!Users, Agents!User
  <2>3. CASE user.form = "snowflake"
    BY <2>3, <1>3 DEF Agents!Inferred, Agents!Users, Agents!User
  <2>4. QED
    BY <2>1, <2>2, <2>3 DEF Agents!Users, Agents!User
<1>5. QED
  BY <1>3, <1>4

\* A call reaches what its scope allows, and asks for what must be approved.
LEMMA CallsAreGuarded ==
    ASSUME ag_setup \in Agents!Setups, ag_warnings \in 0 .. 1, NEW tool \in Agents!Toolset,
          NEW c, NEW for, for = Agents!Active(c),
           Agents!Call(tool, c, for)
    PROVE  Agents!AgentsStayInTheirThread'
<1>1. tool \in Agents!Tools
  BY ToolsetKnown
<1>2. ag_setup' = ag_setup
  BY DEF Agents!Call
<1>3. (Agents!ApprovalIsAsked)'
  <2>1. ag_last'.tool = tool.name /\ ag_last'.asked = Agents!NeedsApproval(tool)
    BY DEF Agents!Call
  <2>2. \A S \in SUBSET Agents!Tools : ag_last'.tool \in {t.name : t \in S} => tool \in S
    BY <1>1, <2>1, ToolNames
  <2>3. ASSUME tool \in Agents!Writes \cup {Agents!GetUser}, ~Agents!NeedsApproval(tool)
        PROVE  \/ ag_setup.approval = "none"
               \/ ag_setup.approval = "map" /\ ag_setup.map = "no" /\ tool.name = "postMessage"
               \/ ag_setup.override = "free" /\ tool.name = "deleteMessage"
    BY <2>3, ToolNames, SetupsKnown DEF Agents!NeedsApproval, Agents!Configured,
    Agents!PostMessage, Agents!DeleteMessage, Agents!Tool
  <2>4. Agents!Writes \cup {Agents!GetUser} \subseteq Agents!Tools
    BY DEF Agents!Tools, Agents!Reads
  <2>5. ag_setup.presets = {"reader"} => tool \notin Agents!Writes
    BY ToolsetKnown, ToolNames
  <2>6. QED
    BY <1>2, <2>1, <2>2, <2>3, <2>4, <2>5, ToolNames DEF Agents!ApprovalIsAsked,
    Agents!OfTool
<1>4. CASE Agents!Targeted(tool)
  <2>1. PICK id \in Agents!Conversation :
            LET scope   == Agents!Scope(c)
                guarded == ag_setup.scope # "everywhere"
                blocked == guarded /\ scope # Agents!Nowhere /\ Agents!Blocked(scope, id)
            IN  /\ ag_last' = [tool |-> tool.name, target |-> id, reached |-> {}, for |-> for,
                            asked |-> Agents!NeedsApproval(tool), done |-> ~blocked]
                /\ ag_warnings' =
                      IF guarded /\ scope = Agents!Nowhere /\ ag_warnings = 0
                        THEN 1 ELSE ag_warnings
    BY <1>4 DEF Agents!Call
  <2>2. PICK scope : scope = Agents!Scope(c)
    OBVIOUS
  <2>3. /\ ag_last'.tool = tool.name /\ ag_last'.target = id /\ ag_last'.for = for
        /\ ag_last'.done =
              ~(ag_setup.scope # "everywhere" /\ scope # Agents!Nowhere
                    /\ Agents!Blocked(scope, id))
        /\ ag_warnings' =
              IF ag_setup.scope # "everywhere" /\ scope = Agents!Nowhere /\ ag_warnings = 0
                THEN 1 ELSE ag_warnings
    BY <2>1, <2>2
  <2>4. Agents!Meant' = IF ag_setup.scope = "explicit" THEN ag_setup.explicit ELSE for
    BY <1>2, <2>3 DEF Agents!Meant
  <2>5. ag_setup.scope # "everywhere" => scope = Agents!Meant'
    BY <2>2, <2>4, SetupsKnown DEF Agents!Scope
  <2>6. PICK m : m = Agents!Meant'
    OBVIOUS
  <2>7. (Agents!ToolsStayInScope)'
    <3>1. ASSUME ag_setup.scope # "everywhere", m # Agents!Nowhere, ag_last'.done
          PROVE  id[1] = m[1] /\ (ag_setup.strict /\ Len(m) = 2 => id = m)
      <4>1. scope = m /\ Agents!InScope(m, id)
        BY <2>3, <2>5, <2>6, <3>1 DEF Agents!Blocked
      <4>2. <<m[1]>> = <<id[1]>> /\ (~ag_setup.strict \/ m = <<m[1]>> \/ id = m)
        BY <4>1 DEF Agents!InScope, Agents!ChannelOf
      <4>3. Len(m) = 2 => m # <<m[1]>>
        OBVIOUS
      <4>4. QED
        BY <4>2, <4>3
    <3>2. QED
      BY <1>2, <2>3, <2>6, <3>1 DEF Agents!ToolsStayInScope
  <2>8. (Agents!ToolsReachTheirThread)'
    <3>1. ASSUME id = m, Agents!Decodable(m) PROVE ag_last'.done
      BY <2>3, <2>5, <2>6, <3>1 DEF Agents!Blocked, Agents!InScope
    <3>2. Agents!Decodable(m) <=> Agents!Decodable(Agents!Meant)'
      BY <1>2, <2>6 DEF Agents!Decodable
    <3>3. QED
      BY <2>3, <2>6, <3>1, <3>2 DEF Agents!ToolsReachTheirThread
  <2>9. (Agents!UnscopedIsTold)'
    <3>1. ASSUME ag_setup.scope = "handled", for = Agents!Nowhere PROVE ag_warnings' = 1
      BY <2>2, <2>3, <3>1 DEF Agents!Scope
    <3>2. QED
      BY <1>2, <2>3, <3>1 DEF Agents!UnscopedIsTold
  <2>10. (Agents!UsersReachTheirPlatform)'
    BY <1>1, <1>4, <2>3, ToolNames DEF Agents!UsersReachTheirPlatform
  <2>11. QED
    BY <1>3, <2>7, <2>8, <2>9, <2>10 DEF Agents!AgentsStayInTheirThread
<1>5. CASE ~Agents!Targeted(tool)
  <2>1. PICK user \in Agents!Users :
            ag_last' = [tool |-> tool.name, target |-> user, reached |-> Agents!Inferred(user),
                          for |-> for,
                     asked |-> Agents!NeedsApproval(tool),
                           done |-> Agents!Cardinality(Agents!Inferred(user)) = 1]
    BY <1>5, AgentCount DEF Agents!Call
  <2>2. /\ ag_last'.tool = tool.name /\ ag_last'.target = user
        /\ ag_last'.reached = Agents!Inferred(user)
        /\ ag_last'.done = (Agents!Cardinality(Agents!Inferred(user)) = 1)
    BY <2>1
  <2>3. ~Agents!Aimed'
    <3>1. \A t \in Agents!Tools : Agents!Targeted(t) => ag_last'.tool # t.name
      BY <1>1, <1>5, <2>2, ToolNames
    <3>2. QED
      BY <3>1 DEF Agents!Aimed, Agents!OfTool
  <2>4. (Agents!UsersReachTheirPlatform)'
    BY <1>2, <2>2, AgentCount, UsersAreInferred DEF Agents!UsersReachTheirPlatform
  <2>5. QED
    BY <1>3, <2>3, <2>4 DEF Agents!AgentsStayInTheirThread, Agents!ToolsStayInScope,
                            Agents!ToolsReachTheirThread, Agents!UnscopedIsTold
<1>6. QED
  BY <1>4, <1>5

\* What was told of the last call stays true.
LEMMA CallsStay ==
    ASSUME Agents!AgentsStayInTheirThread, UNCHANGED <<ag_setup, ag_last, ag_warnings>>
    PROVE  Agents!AgentsStayInTheirThread'
BY DEF Agents!AgentsStayInTheirThread, Agents!ToolsStayInScope,
       Agents!ToolsReachTheirThread, Agents!UnscopedIsTold, Agents!ApprovalIsAsked,
       Agents!UsersReachTheirPlatform, Agents!Aimed, Agents!OfTool, Agents!Meant, Agents!Decodable

LEMMA AgentsInitially == Agents!Init => AgentInv
<1> SUFFICES ASSUME Agents!Init PROVE AgentInv
  OBVIOUS
<1>1. ag_queue \in [AgentHandling -> Seq(Agents!Conversation)]
  <2>1. {<<>>, <<Agents!Thread("a", "2")>>, <<Agents!Thread("a", "2"), Agents!Thread("a", "1")>>} \subseteq Seq(Agents!Conversation)
    BY DEF Agents!Conversation
  <2>2. QED
    BY <2>1 DEF Agents!Init
<1>2. <<>> \in Seq(Agents!Conversation) /\ Agents!Nowhere \in AgentPlaces /\ Len(<<>>) = 0
  BY DEF AgentPlaces
<1>3. AgentTypes
  BY <1>1, <1>2, AgentsAssumption DEF Agents!Init, AgentTypes, Agents!Idle
<1>4. ASSUME NEW k \in AgentHandling PROVE AgentInPlace(k)
  BY <1>2 DEF Agents!Init, AgentInPlace, Agents!Idle
<1>5. ag_last.tool = Agents!None /\ ~ag_last.done
  BY DEF Agents!Init, Agents!NoCall
<1>6. \A S \in SUBSET Agents!Tools : ~Agents!OfTool(S)
  BY <1>5, ToolNames DEF Agents!OfTool
<1>7. ~Agents!Aimed /\ ~Agents!OfTool(Agents!Writes)
          /\ ag_last.tool \notin {"getUser", "sendDirectMessage"}
  BY <1>5, <1>6, ToolNames DEF Agents!Aimed, Agents!None
<1>8. Agents!AgentsStayInTheirThread
  BY <1>5, <1>7 DEF Agents!AgentsStayInTheirThread, Agents!ToolsStayInScope,
                    Agents!ToolsReachTheirThread, Agents!UnscopedIsTold,
                    Agents!ApprovalIsAsked, Agents!UsersReachTheirPlatform
<1>9. QED
  BY <1>3, <1>4, <1>8 DEF AgentInv

LEMMA AgentsStep == AgentInv /\ [Agents!Next]_Agents!vars => AgentInv'
<1> SUFFICES ASSUME AgentInv, [Agents!Next]_Agents!vars PROVE AgentInv'
  OBVIOUS
<1>0. AgentTypes /\ (\A k \in AgentHandling : AgentInPlace(k)) /\ Agents!AgentsStayInTheirThread
  BY DEF AgentInv
<1>1. ASSUME NEW k \in AgentHandling, Agents!Dispatch(k) PROVE AgentInv'
  <2>1. PICK s : s = Agents!Entered(ag_stack[k], ag_event[k].of)
    OBVIOUS
  <2>2. ag_event[k].of \in AgentPlaces
    BY <1>0, EventsAreSomewhere DEF AgentTypes
  <2>3. ag_stack[k] \in Seq(Agents!Conversation) /\ Len(ag_stack[k]) = 0 /\ ag_stack[k] = <<>>
    <3>1. ag_stack[k] \in Seq(Agents!Conversation) /\ ag_pc[k] = "idle"
      BY <1>0, <1>1 DEF AgentTypes, Agents!Dispatch
    <3>2. Len(ag_stack[k]) <= 0
      BY <1>0, <3>1 DEF AgentInPlace
    <3>3. QED
      BY <3>1, <3>2
  <2>4. s \in Seq(Agents!Conversation) /\ Len(s) <= 1 /\ Agents!Active(s) = ag_event[k].of
    <3>1. /\ Agents!Entered(ag_stack[k], ag_event[k].of) \in Seq(Agents!Conversation)
          /\ Len(Agents!Entered(ag_stack[k], ag_event[k].of)) <= Len(ag_stack[k]) + 1
          /\ Agents!Active(Agents!Entered(ag_stack[k], ag_event[k].of)) = ag_event[k].of
      BY <2>2, <2>3, EnteredIsActive
    <3>2. QED
      BY <2>1, <2>3, <3>1
  <2>5. /\ ag_pc' = [ag_pc EXCEPT ![k] = "handling"] /\ ag_stack' = [ag_stack EXCEPT ![k] = s]
        /\ ag_serving' = [ag_serving EXCEPT ![k] = ag_event[k].of]
        /\ UNCHANGED <<ag_setup, ag_event, ag_queue, ag_child, ag_last, ag_warnings, ag_calls>>
    BY <1>1, <2>1 DEF Agents!Dispatch
  <2>6. AgentTypes'
    BY <1>0, <2>2, <2>4, <2>5 DEF AgentTypes
  <2>7. ASSUME NEW j \in AgentHandling PROVE AgentInPlace(j)'
    <3>1. CASE j = k
      BY <1>0, <2>2, <2>4, <2>5, <3>1 DEF AgentInPlace, AgentTypes, Agents!Active
    <3>2. CASE j # k
      BY <1>0, <2>5, <3>2 DEF AgentInPlace, AgentTypes, Agents!Active
    <3>3. QED
      BY <3>1, <3>2
  <2>8. QED
    BY <1>0, <2>5, <2>6, <2>7, CallsStay DEF AgentInv
<1>2. ASSUME NEW k \in AgentHandling, Agents!Drain(k) PROVE AgentInv'
  <2>1. PICK h : h = Head(ag_queue[k])
    OBVIOUS
  <2>2. PICK s : s = Agents!Entered(ag_stack[k], h)
    OBVIOUS
  <2>3. h \in Agents!Conversation /\ Tail(ag_queue[k]) \in Seq(Agents!Conversation)
    BY <1>0, <1>2, <2>1 DEF AgentTypes, Agents!Drain
  <2>4. h # Agents!Nowhere /\ h \in AgentPlaces
    BY <2>3, SomewhereIs DEF AgentPlaces
  <2>5. ag_stack[k] \in Seq(Agents!Conversation) /\ Len(ag_stack[k]) <= 1
    <3>1. ag_stack[k] \in Seq(Agents!Conversation) /\ ag_pc[k] = "draining"
      BY <1>0, <1>2 DEF AgentTypes, Agents!Drain
    <3>2. Len(ag_stack[k]) <= 1
      BY <1>0, <3>1 DEF AgentInPlace
    <3>3. QED
      BY <3>1, <3>2
  <2>6. s \in Seq(Agents!Conversation) /\ Len(s) <= 2 /\ Agents!Active(s) = h
    <3>1. /\ Agents!Entered(ag_stack[k], h) \in Seq(Agents!Conversation)
          /\ Len(Agents!Entered(ag_stack[k], h)) <= Len(ag_stack[k]) + 1
          /\ Agents!Active(Agents!Entered(ag_stack[k], h)) = h
      BY <2>4, <2>5, EnteredIsActive
    <3>2. QED
      BY <2>2, <2>4, <2>5, <3>1, TwoEntered
  <2>7. /\ ag_pc' = [ag_pc EXCEPT ![k] = "handling"] /\ ag_stack' = [ag_stack EXCEPT ![k] = s]
        /\ ag_queue' = [ag_queue EXCEPT ![k] = Tail(ag_queue[k])]
        /\ ag_serving' = [ag_serving EXCEPT ![k] = h]
        /\ UNCHANGED <<ag_setup, ag_event, ag_child, ag_last, ag_warnings, ag_calls>>
    BY <1>2, <2>1, <2>2 DEF Agents!Drain
  <2>8. AgentTypes'
    BY <1>0, <2>3, <2>4, <2>6, <2>7 DEF AgentTypes
  <2>9. ASSUME NEW j \in AgentHandling PROVE AgentInPlace(j)'
    <3>1. CASE j = k
      BY <1>0, <2>4, <2>6, <2>7, <3>1 DEF AgentInPlace, AgentTypes, Agents!Active
    <3>2. CASE j # k
      BY <1>0, <2>7, <3>2 DEF AgentInPlace, AgentTypes, Agents!Active
    <3>3. QED
      BY <3>1, <3>2
  <2>10. QED
    BY <1>0, <2>7, <2>8, <2>9, CallsStay DEF AgentInv
<1>3. ASSUME NEW k \in AgentHandling, Agents!Leave(k) PROVE AgentInv'
  <2>1. PICK more \in BOOLEAN :
            /\ ag_pc' = [ag_pc EXCEPT ![k] = IF more THEN "draining" ELSE "done"]
            /\ ag_stack' = [ag_stack EXCEPT ![k] = IF more THEN Agents!Entered(<<>>, ag_event[k].of) ELSE <<>>]
    BY <1>3 DEF Agents!Leave
  <2>2. PICK s : s = IF more THEN Agents!Entered(<<>>, ag_event[k].of) ELSE <<>>
    OBVIOUS
  <2>3. ag_event[k].of \in AgentPlaces /\ <<>> \in Seq(Agents!Conversation) /\ Len(<<>>) = 0
    BY <1>0, EventsAreSomewhere DEF AgentTypes
  <2>4. s \in Seq(Agents!Conversation) /\ Len(s) <= (IF more THEN 1 ELSE 0)
    <3>1. /\ Agents!Entered(<<>>, ag_event[k].of) \in Seq(Agents!Conversation)
          /\ Len(Agents!Entered(<<>>, ag_event[k].of)) <= Len(<<>>) + 1
      BY <2>3, EnteredIsActive
    <3>2. Len(Agents!Entered(<<>>, ag_event[k].of)) <= 1
      BY <2>3, <3>1
    <3>3. QED
      BY <2>2, <2>3, <3>1, <3>2
  <2>5. /\ ag_stack' = [ag_stack EXCEPT ![k] = s]
        /\ ag_serving' = [ag_serving EXCEPT ![k] = Agents!Nowhere]
        /\ UNCHANGED <<ag_setup, ag_event, ag_queue, ag_child, ag_last, ag_warnings, ag_calls>>
    BY <1>3, <2>1, <2>2 DEF Agents!Leave
  <2>6. AgentTypes'
    BY <1>0, <2>1, <2>4, <2>5 DEF AgentTypes, AgentPlaces
  <2>7. ASSUME NEW j \in AgentHandling PROVE AgentInPlace(j)'
    <3>1. CASE j = k
      BY <1>0, <2>1, <2>4, <2>5, <3>1 DEF AgentInPlace, AgentTypes, Agents!Active
    <3>2. CASE j # k
      BY <1>0, <2>1, <2>5, <3>2 DEF AgentInPlace, AgentTypes, Agents!Active
    <3>3. QED
      BY <3>1, <3>2
  <2>8. QED
    BY <1>0, <2>5, <2>6, <2>7, CallsStay DEF AgentInv
<1>4. ASSUME NEW k \in AgentHandling, Agents!Start(k) PROVE AgentInv'
  <2>1. PICK n : n = [alive |-> TRUE, stack |-> ag_stack[k], serving |-> ag_serving[k]]
    OBVIOUS
  <2>2. n \in [alive : BOOLEAN, stack : Seq(Agents!Conversation), serving : AgentPlaces]
            /\ Agents!Active(n.stack) = n.serving
    BY <1>0, <1>4, <2>1 DEF AgentTypes, AgentInPlace, Agents!Start
  <2>3. ag_child' = [ag_child EXCEPT ![k] = n]
        /\ UNCHANGED <<ag_setup, ag_event, ag_queue, ag_pc, ag_stack, ag_serving, ag_last,
                        ag_warnings, ag_calls>>
    BY <1>4, <2>1 DEF Agents!Start
  <2>4. AgentTypes'
    BY <1>0, <2>2, <2>3 DEF AgentTypes
  <2>5. ASSUME NEW j \in AgentHandling PROVE AgentInPlace(j)'
    BY <1>0, <2>2, <2>3 DEF AgentInPlace, AgentTypes, Agents!Active
  <2>6. QED
    BY <1>0, <2>3, <2>4, <2>5, CallsStay DEF AgentInv
<1>5. ASSUME NEW k \in AgentHandling, Agents!CallFromHandler(k)
          \/ Agents!CallFromTask(k) PROVE AgentInv'
  <2>1. \E tool \in Agents!Toolset : \E c, for : for = Agents!Active(c) /\ Agents!Call(tool, c, for)
    <3>1. CASE Agents!CallFromHandler(k)
      BY <1>0, <3>1 DEF Agents!CallFromHandler, AgentInPlace
    <3>2. CASE Agents!CallFromTask(k)
      BY <1>0, <3>2 DEF Agents!CallFromTask, AgentInPlace
    <3>3. QED
      BY <1>5, <3>1, <3>2
  <2>2. PICK tool \in Agents!Toolset : \E c, for : for = Agents!Active(c)
            /\ Agents!Call(tool, c, for)
    BY <2>1
  <2>3. Agents!AgentsStayInTheirThread'
    BY <1>0, <2>2, CallsAreGuarded DEF AgentTypes
  <2>4. /\ ag_calls < AgentCalls /\ ag_calls' = ag_calls + 1 /\ ag_warnings' \in {ag_warnings, 1}
        /\ UNCHANGED <<ag_setup, ag_event, ag_queue, ag_pc, ag_stack, ag_serving, ag_child>>
    BY <2>2 DEF Agents!Call
  <2>5. AgentTypes'
    BY <1>0, <2>4, AgentsAssumption DEF AgentTypes
  <2>6. ASSUME NEW j \in AgentHandling PROVE AgentInPlace(j)'
    BY <1>0, <2>4 DEF AgentInPlace, Agents!Active
  <2>7. QED
    BY <2>3, <2>5, <2>6 DEF AgentInv
<1>6. CASE UNCHANGED Agents!vars
  <2>1. AgentTypes'
    BY <1>0, <1>6 DEF Agents!vars, AgentTypes
  <2>2. ASSUME NEW j \in AgentHandling PROVE AgentInPlace(j)'
    BY <1>0, <1>6 DEF Agents!vars, AgentInPlace, Agents!Active
  <2>3. QED
    BY <1>0, <1>6, <2>1, <2>2, CallsStay DEF Agents!vars, AgentInv
<1>7. QED
  BY <1>1, <1>2, <1>3, <1>4, <1>5, <1>6 DEF Agents!Next

LEMMA AgentsFollow == AgentInv => Agents!AgentsStayInTheirThread
BY DEF AgentInv
=============================================================================
