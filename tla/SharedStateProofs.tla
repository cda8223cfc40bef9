-------------------------- MODULE SharedStateProofs --------------------------
(***************************************************************************)
(* What holds of the state that tasks and processes share: of CallbackUrl, *)
(* for every set of tokens and clicks and any number of faults, and of     *)
(* TurnCancellation, StateAdapters and PostgresStore as MCSharedState runs *)
(* them, for every set of clients and every limit.                         *)
(***************************************************************************)
EXTENDS MCSharedState, FiniteSetTheorems, SequenceTheorems, WellFoundedInduction,
        NaturalsInduction, TLAPS

\* Where a click may delete the record or has, before the fence.
Consuming == {"deleting", "extending"}

\* Once some click has resolved a token, the record of that token is gone for
\* good, and no other click still consuming it holds its lock: the fence is
\* closed to all of them.
FenceClosed ==
    \A c \in resolved :
        /\ pc[c] \in {"releasing", "posting"} \cup Over
        /\ record[carries[c]] = "gone"
        /\ \A d \in Click :
              /\ carries[d] = carries[c]
              /\ pc[d] \in Consuming
              => lock[carries[d]] # d

\* The fence comes after the delete.
DeletedBeforeFence ==
    \A c \in Click : pc[c] = "extending" => record[carries[c]] = "gone"

\* A fault-free click inside the critical section holds the lock.
InsideHoldsLock ==
    faults = 0 => \A c \in Click : pc[c] \in Inside => lock[carries[c]] = c

\* Only the outcome of the fence leads to the POST.
PostersResolved == \A c \in Click : pc[c] = "posting" => c \in resolved

IInv == TypeOK /\ PostersResolved /\ FenceClosed /\ DeletedBeforeFence
             /\ ResolvedOnce

LEMMA InitIInv == Init => IInv
BY CallbackAssumption
   DEF Init, IInv, TypeOK, PostersResolved, FenceClosed, DeletedBeforeFence,
       ResolvedOnce, Inside, Over

LEMMA StepTypeOK == TypeOK /\ PostersResolved /\ [Next]_vars => TypeOK'
<1> SUFFICES ASSUME TypeOK, PostersResolved, [Next]_vars
             PROVE  TypeOK'
  OBVIOUS
<1> USE CallbackAssumption
        DEF TypeOK, Goto, Fault, Consume, Unlock, Inside, Over, cardVars,
            clickVars
<1>1. ASSUME NEW t \in Token, Mint(t) \/ Show(t) \/ LeaseLapses(t) \/ RecordExpires(t)
      PROVE  TypeOK'
  <2>1. CASE Mint(t)
    BY <2>1 DEF Mint
  <2>2. CASE Show(t)
    BY <2>2 DEF Show
  <2>3. CASE LeaseLapses(t)
    BY <2>3 DEF LeaseLapses
  <2>4. CASE RecordExpires(t)
    BY <2>4 DEF RecordExpires
  <2>5. QED
    BY <1>1, <2>1, <2>2, <2>3, <2>4
<1>2. ASSUME NEW c \in Click, NEW t \in Token, Arrive(c, t)
      PROVE  TypeOK'
  BY <1>2 DEF Arrive
<1>3. ASSUME NEW c \in Click, ClickStep(c)
      PROVE  TypeOK'
  <2>1. CASE AcquireLock(c) \/ LockTaken(c)
    BY <2>1 DEF AcquireLock, LockTaken
  <2>2. CASE Read(c) \/ Delete(c)
    BY <2>2 DEF Read, Delete
  <2>3. CASE Extend(c)
    BY <2>3 DEF Extend
  <2>4. CASE Release(c) \/ Unwind(c)
    BY <2>4 DEF Release, Unwind
  <2>5. CASE Post(c)
    BY <2>5 DEF Post, PostersResolved
  <2>6. QED
    BY <1>3, <2>1, <2>2, <2>3, <2>4, <2>5 DEF ClickStep
<1>4. ASSUME NEW c \in Click, CallFails(c)
      PROVE  TypeOK'
  BY <1>4 DEF CallFails
<1>5. ASSUME NEW c \in Click, Vanish(c)
      PROVE  TypeOK'
  <2>1. pc' = [pc EXCEPT ![c] = "failed"] /\ faults' = faults + 1
           /\ faults < MaxFaults
    BY <1>5 DEF Vanish
  <2>2. carries[c] \in Token /\ UNCHANGED <<cardVars, carries, resolved, posted, spent>>
    BY <1>5 DEF Vanish
  <2>3. lock' \in [Token -> Click \cup {NoOne}]
    BY <1>5, <2>2 DEF Vanish
  <2>4. QED
    BY <2>1, <2>2, <2>3
<1>6. CASE Finished \/ UNCHANGED vars
  BY <1>6 DEF Finished, vars
<1>7. QED
  BY <1>1, <1>2, <1>3, <1>4, <1>5, <1>6 DEF Next

\* The parts about the fence are inductive together, given the types.
LEMMA StepFence == IInv /\ [Next]_vars => (PostersResolved /\ FenceClosed
                                     /\ DeletedBeforeFence /\ ResolvedOnce)'
<1> DEFINE Fenced == PostersResolved /\ FenceClosed /\ DeletedBeforeFence /\ ResolvedOnce
<1> SUFFICES ASSUME IInv, [Next]_vars
             PROVE  Fenced'
  OBVIOUS
<1> USE CallbackAssumption
        DEF IInv, TypeOK, PostersResolved, FenceClosed, DeletedBeforeFence, ResolvedOnce,
            Consuming, Goto, Consume, Unlock, Inside, Over, cardVars, clickVars
<1>1. ASSUME NEW t \in Token, Mint(t)
      PROVE  Fenced'
  BY <1>1 DEF Mint
<1>2. ASSUME NEW t \in Token, Show(t)
      PROVE  Fenced'
  BY <1>2 DEF Show
<1>3. ASSUME NEW t \in Token, LeaseLapses(t)
      PROVE  Fenced'
  BY <1>3 DEF LeaseLapses
<1>4. ASSUME NEW t \in Token, RecordExpires(t)
      PROVE  Fenced'
  BY <1>4 DEF RecordExpires
<1>5. ASSUME NEW c \in Click, NEW t \in Token, Arrive(c, t)
      PROVE  Fenced'
  BY <1>5 DEF Arrive
<1>6. ASSUME NEW c \in Click, AcquireLock(c)
      PROVE  Fenced'
  BY <1>6 DEF AcquireLock
<1>7. ASSUME NEW c \in Click, LockTaken(c)
      PROVE  Fenced'
  BY <1>7 DEF LockTaken
<1>8. ASSUME NEW c \in Click, Read(c)
      PROVE  Fenced'
  BY <1>8 DEF Read
<1>9. ASSUME NEW c \in Click, Delete(c)
      PROVE  Fenced'
  BY <1>9 DEF Delete
<1>10. ASSUME NEW c \in Click, Extend(c)
       PROVE  Fenced'
  <2>1. CASE lock[carries[c]] = c
    BY <1>10, <2>1 DEF Extend
  <2>2. CASE lock[carries[c]] # c
    BY <1>10, <2>2 DEF Extend
  <2>3. QED
    BY <2>1, <2>2
<1>11. ASSUME NEW c \in Click, Release(c)
       PROVE  Fenced'
  BY <1>11 DEF Release
<1>12. ASSUME NEW c \in Click, Post(c)
       PROVE  Fenced'
  BY <1>12 DEF Post
<1>13. ASSUME NEW c \in Click, Unwind(c)
       PROVE  Fenced'
  BY <1>13 DEF Unwind
<1>14. ASSUME NEW c \in Click, CallFails(c)
       PROVE  Fenced'
  BY <1>14 DEF CallFails
<1>15. ASSUME NEW c \in Click, Vanish(c)
       PROVE  Fenced'
  BY <1>15 DEF Vanish
<1>16. CASE Finished \/ UNCHANGED vars
  BY <1>16 DEF Finished, vars
<1>17. QED
  BY <1>1, <1>2, <1>3, <1>4, <1>5, <1>6, <1>7, <1>8, <1>9, <1>10, <1>11,
     <1>12, <1>13, <1>14, <1>15, <1>16 DEF Next, ClickStep

LEMMA Invariant == Spec => []IInv
<1>1. IInv /\ [Next]_vars => IInv'
  BY StepTypeOK, StepFence DEF IInv
<1>2. QED
  BY InitIInv, <1>1, PTL DEF Spec

\* The shape of every variable, for every instance.
THEOREM TypeCorrect == Spec => []TypeOK
<1>1. IInv => TypeOK
  BY DEF IInv
<1>2. QED
  BY Invariant, <1>1, PTL

\* A token resolves for at most one click, whatever lapses, crashes or fails:
\* the winner deleted the record before its fence, and a click that had read
\* the record earlier no longer holds the lock and cannot win it back.
THEOREM TokenResolvesOnce == Spec => []ResolvedOnce
<1>1. IInv => ResolvedOnce
  BY DEF IInv
<1>2. QED
  BY Invariant, <1>1, PTL

\* Without faults the lock is never taken from a click at work, nor left.
LEMMA StepInsideHoldsLock ==
    TypeOK /\ InsideHoldsLock /\ [Next]_vars => InsideHoldsLock'
<1> SUFFICES ASSUME TypeOK, InsideHoldsLock, [Next]_vars, faults' = 0
             PROVE  InsideHoldsLock'
  BY DEF InsideHoldsLock
<1> USE CallbackAssumption
        DEF TypeOK, InsideHoldsLock, Goto, Fault, Unlock, Consume, Inside, Over,
            cardVars, clickVars
<1>1. ASSUME NEW t \in Token, Mint(t) \/ Show(t) \/ LeaseLapses(t) \/ RecordExpires(t)
      PROVE  InsideHoldsLock'
  BY <1>1 DEF Mint, Show, LeaseLapses, RecordExpires
<1>2. ASSUME NEW c \in Click, NEW t \in Token, Arrive(c, t)
      PROVE  InsideHoldsLock'
  BY <1>2 DEF Arrive
<1>3. ASSUME NEW c \in Click, AcquireLock(c) \/ LockTaken(c)
      PROVE  InsideHoldsLock'
  BY <1>3 DEF AcquireLock, LockTaken
<1>4. ASSUME NEW c \in Click, Read(c) \/ Delete(c) \/ Extend(c) \/ Post(c)
      PROVE  InsideHoldsLock'
  BY <1>4 DEF Read, Delete, Extend, Post
<1>5. ASSUME NEW c \in Click, Release(c) \/ Unwind(c)
      PROVE  InsideHoldsLock'
  BY <1>5 DEF Release, Unwind
<1>6. ASSUME NEW c \in Click, CallFails(c) \/ Vanish(c)
      PROVE  InsideHoldsLock'
  BY <1>6 DEF CallFails, Vanish
<1>7. CASE Finished \/ UNCHANGED vars
  BY <1>7 DEF Finished, vars
<1>8. QED
  BY <1>1, <1>2, <1>3, <1>4, <1>5, <1>6, <1>7 DEF Next, ClickStep

\* The click that answers for a consumed token.
Answers(c, t) ==
    /\ carries[c] = t
    /\ \/ pc[c] = "extending"
       \/ c \in resolved /\ pc[c] \in {"releasing", "posting"}
       \/ c \in posted

LEMMA StepSpentIsAnswered ==
    IInv /\ InsideHoldsLock /\ SpentIsAnswered /\ [Next]_vars
      => SpentIsAnswered'
<1> SUFFICES ASSUME IInv, InsideHoldsLock, SpentIsAnswered, [Next]_vars,
                    faults' = 0,
                    NEW t \in spent'
             PROVE  \E c \in Click : Answers(c, t)'
  BY DEF SpentIsAnswered, Answers
<1> USE CallbackAssumption
        DEF IInv, TypeOK, InsideHoldsLock, Answers, Goto, Fault, Unlock, Consume,
            Inside, Over, cardVars, clickVars
<1>1. faults = 0
  BY DEF Next, ClickStep, Mint, Show, LeaseLapses, RecordExpires, Arrive,
         AcquireLock, LockTaken, Read, Delete, Extend, Release, Post, Unwind,
         CallFails, Vanish, Finished, vars
<1>2. ASSUME t \notin spent
      PROVE  \E c \in Click : Answers(c, t)'
  <2>1. PICK c \in Click : Delete(c) /\ t = carries[c]
    BY <1>1, <1>2
       DEF Next, ClickStep, Mint, Show, LeaseLapses, RecordExpires, Arrive,
           AcquireLock, LockTaken, Read, Delete, Extend, Release, Post, Unwind,
           CallFails, Vanish, Finished, vars
  <2>2. Answers(c, t)'
    BY <2>1 DEF Delete
  <2>3. QED
    BY <2>2
<1>3. ASSUME NEW e \in Click, Answers(e, t)
      PROVE  Answers(e, t)'
  <2>1. ASSUME NEW c \in Click, ClickStep(c), c # e
        PROVE  Answers(e, t)'
    BY <2>1, <1>3
       DEF ClickStep, AcquireLock, LockTaken, Read, Delete, Extend, Release,
           Post, Unwind
  <2>2. CASE ClickStep(e)
    BY <2>2, <1>1, <1>3
       DEF ClickStep, AcquireLock, LockTaken, Read, Delete, Extend, Release,
           Post, Unwind
  <2>3. ASSUME NEW c \in Click, CallFails(c) \/ Vanish(c)
        PROVE  FALSE
    BY <2>3, <1>1 DEF CallFails, Vanish
  <2>4. ASSUME NEW c \in Click, NEW u \in Token, Arrive(c, u)
        PROVE  Answers(e, t)'
    BY <2>4, <1>3 DEF Arrive, FenceClosed
  <2>5. ASSUME NEW u \in Token, Mint(u) \/ Show(u) \/ LeaseLapses(u) \/ RecordExpires(u)
        PROVE  Answers(e, t)'
    BY <2>5, <1>3 DEF Mint, Show, LeaseLapses, RecordExpires
  <2>6. CASE Finished \/ UNCHANGED vars
    BY <2>6, <1>3 DEF Finished, vars
  <2>7. QED
    BY <2>1, <2>2, <2>3, <2>4, <2>5, <2>6 DEF Next
<1>4. CASE t \in spent
  <2>1. PICK e \in Click : Answers(e, t)
    BY <1>1, <1>4 DEF SpentIsAnswered
  <2>2. QED
    BY <2>1, <1>3
<1>5. QED
  BY <1>2, <1>4

\* The fence never wastes a token: unless something fails, the click that
\* deleted the record still holds the lock when it reaches the fence, and its
\* POST follows.
THEOREM SpentTokensAreAnswered == Spec => []SpentIsAnswered
<1> DEFINE Inv == InsideHoldsLock /\ SpentIsAnswered
<1>1. Init => Inv
  BY CallbackAssumption DEF Init, InsideHoldsLock, SpentIsAnswered, Inside
<1>2. IInv /\ Inv /\ [Next]_vars => Inv'
  BY StepInsideHoldsLock, StepSpentIsAnswered DEF IInv
<1>3. Inv => SpentIsAnswered
  OBVIOUS
<1>4. QED
  BY Invariant, <1>1, <1>2, <1>3, PTL DEF Spec

\* A button is shown after its record was stored, and a record that was stored is
\* never unstored: what clicks, expiry and crashes leave of it is "gone".
LEMMA RecordsComeFirst == Spec => []MintedBeforeShown
<1>1. Init => MintedBeforeShown
  BY DEF Init, MintedBeforeShown
<1>2. TypeOK /\ MintedBeforeShown /\ [Next]_vars => MintedBeforeShown'
  <2> SUFFICES ASSUME TypeOK, MintedBeforeShown, [Next]_vars
               PROVE  MintedBeforeShown'
    OBVIOUS
  <2> USE DEF TypeOK, MintedBeforeShown, Goto, Fault, Consume, Unlock, cardVars, clickVars
  <2>1. ASSUME NEW t \in Token, Mint(t) \/ Show(t) \/ LeaseLapses(t) \/ RecordExpires(t)
        PROVE  MintedBeforeShown'
    BY <2>1 DEF Mint, Show, LeaseLapses, RecordExpires
  <2>2. ASSUME NEW c \in Click, Delete(c) \/ CallFails(c)
        PROVE  MintedBeforeShown'
    BY <2>2 DEF Delete, CallFails
  <2>3. ASSUME NEW c \in Click,
               AcquireLock(c) \/ LockTaken(c) \/ Read(c) \/ Extend(c) \/ Release(c)
                 \/ Post(c) \/ Unwind(c) \/ Vanish(c)
        PROVE  UNCHANGED <<record, shown>>
    <3>1. CASE AcquireLock(c) \/ LockTaken(c) \/ Read(c)
      BY <3>1 DEF AcquireLock, LockTaken, Read
    <3>2. CASE Extend(c) \/ Release(c)
      BY <3>2 DEF Extend, Release
    <3>3. CASE Post(c) \/ Unwind(c)
      BY <3>3 DEF Post, Unwind
    <3>4. CASE Vanish(c)
      BY <3>4 DEF Vanish
    <3>5. QED
      BY <2>3, <3>1, <3>2, <3>3, <3>4
  <2>4. ASSUME NEW c \in Click, NEW t \in Token, Arrive(c, t)
        PROVE  UNCHANGED <<record, shown>>
    BY <2>4 DEF Arrive
  <2>5. CASE Finished \/ UNCHANGED vars
    BY <2>5 DEF Finished, vars
  <2>6. QED
    BY <2>1, <2>2, <2>3, <2>4, <2>5 DEF Next, ClickStep
<1>3. QED
  BY TypeCorrect, <1>1, <1>2, PTL DEF Spec

\* A button's click counts once, for every set of tokens and clicks.
THEOREM ClicksCount == Spec => []ClicksCountOnce
<1>1. MintedBeforeShown /\ ResolvedOnce /\ SpentIsAnswered => ClicksCountOnce
  BY DEF ClicksCountOnce
<1>2. QED
  BY RecordsComeFirst, TokenResolvesOnce, SpentTokensAreAnswered, <1>1, PTL

-----------------------------------------------------------------------------
\* A call of abort_turn was looking for turns while t ran, or t is over and no
\* marker can reach it any more.
Harmless(t) == (\E s \in Stop : t \in turn_during[s]) \/ turn_pc[t] = "over"

\* Every id on its way to the monitors is harmless: published by a turn that
\* has begun, then read by a call, then copied into the abort marker.
MarkersHarmless ==
    /\ turn_active # NoOne => turn_pc[turn_active] # "new"
    /\ turn_abort # NoOne => Harmless(turn_abort)
    /\ \A s \in Stop : turn_sees[s] # NoOne => Harmless(turn_sees[s])
    /\ \A s \in Stop : turn_spc[s] = "writing" => turn_sees[s] # NoOne

TurnInv == Turns!TypeOK /\ MarkersHarmless /\ Turns!StopsOnlyWhatRan

\* Unless something fails, a turn whose marker is set will still look at it.
MarkerHasOwner ==
    turn_faults = 0 /\ turn_active # NoOne
      => turn_pc[turn_active] \in {"handling", "checkActive", "dropActive"}

LEMMA TurnTypesStep ==
    ASSUME Turns!TurnAssumption
    PROVE  Turns!TypeOK /\ [Turns!Next]_Turns!vars => Turns!TypeOK'
<1> SUFFICES ASSUME Turns!TypeOK, [Turns!Next]_Turns!vars
             PROVE  Turns!TypeOK'
  OBVIOUS
<1> USE DEF Turns!TurnAssumption, Turns!TypeOK, Turns!Goto, Turns!SGoto, Turns!Fault,
            Turns!Clearing, Turns!Running, Turns!Registered, Turns!turnVars,
            Turns!stopVars
<1>1. ASSUME NEW t \in Turn, Turns!Begin(t) \/ Turns!HandlersEnd(t)
      PROVE  Turns!TypeOK'
  BY <1>1 DEF Turns!Begin, Turns!HandlersEnd
<1>2. ASSUME NEW t \in Turn, Turns!Publish(t) \/ Turns!Poll(t)
      PROVE  Turns!TypeOK'
  BY <1>2 DEF Turns!Publish, Turns!Poll
<1>3. ASSUME NEW t \in Turn, Turns!CheckActive(t) \/ Turns!DropActive(t)
      PROVE  Turns!TypeOK'
  BY <1>3 DEF Turns!CheckActive, Turns!DropActive
<1>4. ASSUME NEW t \in Turn, Turns!CheckAbort(t) \/ Turns!DropAbort(t)
      PROVE  Turns!TypeOK'
  BY <1>4 DEF Turns!CheckAbort, Turns!DropAbort
<1>5. ASSUME NEW s \in Stop, Turns!StopLocal(s)
      PROVE  Turns!TypeOK'
  BY <1>5 DEF Turns!StopLocal
<1>6. ASSUME NEW s \in Stop, Turns!ReadActive(s) \/ Turns!WriteAbort(s)
      PROVE  Turns!TypeOK'
  BY <1>6 DEF Turns!ReadActive, Turns!WriteAbort
<1>7. ASSUME NEW t \in Turn, Turns!PublishFails(t)
      PROVE  Turns!TypeOK'
  BY <1>7 DEF Turns!PublishFails
<1>8. ASSUME NEW t \in Turn, Turns!PollFails(t) \/ Turns!ClearFails(t)
      PROVE  Turns!TypeOK'
  BY <1>8 DEF Turns!PollFails, Turns!ClearFails
<1>9. ASSUME NEW t \in Turn, Turns!Vanish(t)
      PROVE  Turns!TypeOK'
  BY <1>9 DEF Turns!Vanish
<1>10. ASSUME NEW s \in Stop, Turns!StopFails(s)
       PROVE  Turns!TypeOK'
  BY <1>10 DEF Turns!StopFails
<1>11. CASE Turns!MarkerExpires
  BY <1>11 DEF Turns!MarkerExpires
<1>12. CASE Turns!Finished \/ UNCHANGED Turns!vars
  BY <1>12 DEF Turns!Finished, Turns!vars
<1>13. QED
  BY <1>1, <1>2, <1>3, <1>4, <1>5, <1>6, <1>7, <1>8, <1>9, <1>10, <1>11, <1>12
     DEF Turns!Next, Turns!TurnStep, Turns!StopStep, Turns!FaultStep

LEMMA MarkersStep ==
    ASSUME Turns!TurnAssumption
    PROVE  TurnInv /\ [Turns!Next]_Turns!vars => (MarkersHarmless /\ Turns!StopsOnlyWhatRan)'
<1> DEFINE Goal == MarkersHarmless /\ Turns!StopsOnlyWhatRan
<1> SUFFICES ASSUME TurnInv, [Turns!Next]_Turns!vars
             PROVE  Goal'
  OBVIOUS
<1> USE DEF Turns!TurnAssumption, TurnInv, Turns!TypeOK, MarkersHarmless, Harmless,
            Turns!StopsOnlyWhatRan, Turns!Goto,
            Turns!SGoto, Turns!Fault, Turns!Clearing, Turns!Running, Turns!Registered,
                  Turns!turnVars, Turns!stopVars
<1>1. ASSUME NEW t \in Turn, Turns!Begin(t)
      PROVE  Goal'
  BY <1>1 DEF Turns!Begin
<1>2. ASSUME NEW t \in Turn, Turns!Publish(t)
      PROVE  Goal'
  BY <1>2 DEF Turns!Publish
<1>3. ASSUME NEW t \in Turn, Turns!Poll(t)
      PROVE  Goal'
  BY <1>3 DEF Turns!Poll
<1>4. ASSUME NEW t \in Turn, Turns!HandlersEnd(t) \/ Turns!CheckActive(t) \/ Turns!DropActive(t)
      PROVE  Goal'
  BY <1>4 DEF Turns!HandlersEnd, Turns!CheckActive, Turns!DropActive
<1>5. ASSUME NEW t \in Turn, Turns!CheckAbort(t) \/ Turns!DropAbort(t)
      PROVE  Goal'
  BY <1>5 DEF Turns!CheckAbort, Turns!DropAbort
<1>6. ASSUME NEW s \in Stop, Turns!StopLocal(s)
      PROVE  Goal'
  <2>1. \A r \in Stop : \A t \in turn_during[r] : \E q \in Stop : t \in turn_during'[q]
    <3> SUFFICES ASSUME NEW r \in Stop, NEW t \in turn_during[r]
                 PROVE  \E q \in Stop : t \in turn_during'[q]
      OBVIOUS
    <3>1. CASE r # s
      BY <1>6, <3>1 DEF Turns!StopLocal
    <3>2. CASE r = s
      BY <1>6, <3>2 DEF Turns!StopLocal
    <3>3. QED
      BY <3>1, <3>2
  <2>2. QED
    BY <1>6, <2>1 DEF Turns!StopLocal
<1>7. ASSUME NEW s \in Stop, Turns!ReadActive(s)
      PROVE  Goal'
  BY <1>7 DEF Turns!ReadActive
<1>8. ASSUME NEW s \in Stop, Turns!WriteAbort(s)
      PROVE  Goal'
  BY <1>8 DEF Turns!WriteAbort
<1>9. ASSUME NEW t \in Turn, Turns!PublishFails(t)
      PROVE  Goal'
  BY <1>9 DEF Turns!PublishFails
<1>10. ASSUME NEW t \in Turn, Turns!PollFails(t) \/ Turns!ClearFails(t)
       PROVE  Goal'
  BY <1>10 DEF Turns!PollFails, Turns!ClearFails
<1>11. ASSUME NEW t \in Turn, Turns!Vanish(t)
       PROVE  Goal'
  BY <1>11 DEF Turns!Vanish
<1>12. ASSUME NEW s \in Stop, Turns!StopFails(s)
       PROVE  Goal'
  BY <1>12 DEF Turns!StopFails
<1>13. CASE Turns!MarkerExpires
  BY <1>13 DEF Turns!MarkerExpires
<1>14. CASE Turns!Finished \/ UNCHANGED Turns!vars
  BY <1>14 DEF Turns!Finished, Turns!vars
<1>15. QED
  BY <1>1, <1>2, <1>3, <1>4, <1>5, <1>6, <1>7, <1>8, <1>9, <1>10, <1>11,
     <1>12, <1>13, <1>14 DEF Turns!Next, Turns!TurnStep, Turns!StopStep, Turns!FaultStep

LEMMA OwnerStep ==
    ASSUME Turns!TurnAssumption
    PROVE  Turns!TypeOK /\ MarkerHasOwner /\ [Turns!Next]_Turns!vars => MarkerHasOwner'
<1> SUFFICES ASSUME Turns!TypeOK, MarkerHasOwner, [Turns!Next]_Turns!vars
             PROVE  MarkerHasOwner'
  OBVIOUS
<1> USE DEF Turns!TurnAssumption, Turns!TypeOK, MarkerHasOwner, Turns!Goto, Turns!SGoto,
            Turns!Fault, Turns!Clearing, Turns!Running,
            Turns!Registered, Turns!turnVars, Turns!stopVars
<1>1. ASSUME NEW t \in Turn, Turns!Begin(t) \/ Turns!HandlersEnd(t) \/ Turns!Publish(t)
          \/ Turns!Poll(t)
      PROVE  MarkerHasOwner'
  BY <1>1 DEF Turns!Begin, Turns!HandlersEnd, Turns!Publish, Turns!Poll
<1>2. ASSUME NEW t \in Turn,
             Turns!CheckActive(t) \/ Turns!DropActive(t) \/ Turns!CheckAbort(t)
                   \/ Turns!DropAbort(t)
      PROVE  MarkerHasOwner'
  BY <1>2 DEF Turns!CheckActive, Turns!DropActive, Turns!CheckAbort, Turns!DropAbort
<1>3. ASSUME NEW s \in Stop, Turns!StopLocal(s) \/ Turns!ReadActive(s) \/ Turns!WriteAbort(s)
      PROVE  MarkerHasOwner'
  BY <1>3 DEF Turns!StopLocal, Turns!ReadActive, Turns!WriteAbort
<1>4. CASE Turns!FaultStep
  <2>1. turn_faults' = turn_faults + 1
    BY <1>4 DEF Turns!FaultStep, Turns!PublishFails, Turns!PollFails, Turns!ClearFails,
                Turns!Vanish,
       Turns!StopFails, Turns!MarkerExpires
  <2>2. QED
    BY <2>1
<1>5. CASE Turns!Finished \/ UNCHANGED Turns!vars
  BY <1>5 DEF Turns!Finished, Turns!vars
<1>6. QED
  BY <1>1, <1>2, <1>3, <1>4, <1>5 DEF Turns!Next, Turns!TurnStep, Turns!StopStep

LEMMA TurnInit ==
    ASSUME Turns!TurnAssumption
    PROVE  Turns!Init => TurnInv /\ MarkerHasOwner
BY DEF Turns!TurnAssumption, Turns!Init, TurnInv, Turns!TypeOK, MarkersHarmless,
       Harmless, Turns!StopsOnlyWhatRan,
       MarkerHasOwner

\* The part of the run that is turns and their markers: the others leave it alone.
LEMMA TurnsOfTheRun == SharedStateSpec => Turns!Init /\ [][Turns!Next]_Turns!vars
<1>1. SharedStateInit => Turns!Init
  BY DEF SharedStateInit
<1>2. [SharedStateNext]_<<part, vars, turnVars, modalVars, saVars, pgVars>> => [Turns!Next]_Turns!vars
  BY DEF SharedStateNext, turnVars, Turns!vars, Turns!turnVars, Turns!stopVars
<1>3. QED
  BY <1>1, <1>2, PTL DEF SharedStateSpec

\* Whatever turns overlap, in whatever processes, and whatever is lost: a marker
\* stops only a turn it was written for, and is gone with the last one.
THEOREM MarkersStayMeant == SharedStateSpec => []MarkersAreMeant
<1>1. Turns!TurnAssumption
  BY SharedAssumption
<1>2. Turns!Init => TurnInv /\ MarkerHasOwner
  BY <1>1, TurnInit
<1>3. TurnInv /\ [Turns!Next]_Turns!vars => TurnInv'
  BY <1>1, TurnTypesStep, MarkersStep DEF TurnInv
<1>4. Turns!TypeOK /\ MarkerHasOwner /\ [Turns!Next]_Turns!vars => MarkerHasOwner'
  BY <1>1, OwnerStep
<1>5. TurnInv => Turns!TypeOK
  BY DEF TurnInv
<1>6. TurnInv /\ MarkerHasOwner => MarkersAreMeant
  BY <1>1 DEF TurnInv, Turns!TurnAssumption, Turns!TypeOK, MarkerHasOwner, Turns!MarkersCleaned,
        Turns!Running, MarkersAreMeant, Turns!MarkersAreMeant
<1>7. QED
  BY <1>2, <1>3, <1>4, <1>5, <1>6, TurnsOfTheRun, PTL

-----------------------------------------------------------------------------
\* The in-memory and the Redis adapter side by side

LEMMA AdapterConstants ==
    /\ StateTtl \subseteq Nat
    /\ Retention \in Nat /\ EntryTtl \in Nat /\ MinQueueTtl \in Nat /\ StateMaxTime \in Nat
    /\ StateMaxLength \in Int /\ StateMaxQueueSize \in Int
BY SharedAssumption DEF SharedAssumption, Adapters!AdapterAssumption


Entry == [value : Nat, expires_at : Int]

CacheTypes == sa_memCache \in [StateKey -> Entry] /\ sa_redisCache \in [StateKey -> Entry]

ListTypes ==
    /\ sa_memList \in [value : Seq(Nat), expires_at : Int]
    /\ sa_redisList \in [value : Seq(Nat), expires_at : Int]

QueueTypes ==
    /\ sa_memQueue \in Seq(Entry)
    /\ sa_redisQueue \in [value : Seq(Entry), expires_at : Int]

LockTypes ==
    /\ sa_lock \in [token : Nat, expires_at : Int]
    /\ sa_handle \in [LockWorker -> Nat]
    /\ sa_granted \in [LockWorker -> Int]

AdapterTypes ==
    /\ sa_now \in 0..StateMaxTime /\ sa_written \in Nat
    /\ CacheTypes /\ ListTypes /\ QueueTypes /\ LockTypes

\* A key is the same to both, but that memory may have tidied up an expired one.
CachesAgree ==
    \A k \in StateKey :
        \/ sa_memCache[k] = sa_redisCache[k]
        \/ sa_memCache[k] = Adapters!Absent /\ sa_redisCache[k].expires_at <= sa_now

\* So is a list; without a TTL, Redis keeps one for ever.
ListsAgree ==
    /\ \/ sa_memList = sa_redisList
       \/ sa_memList = [value |-> <<>>, expires_at |-> -1] /\ sa_redisList.expires_at <= sa_now
    /\ Adapters!ListTtl = 0 => sa_redisList.expires_at \in {-1, Adapters!Never}

\* The queue in Redis is the end of the one in memory, and whatever memory has in
\* front of it has expired; the key in Redis outlives its entries.
QueuesAgree ==
    /\ Len(sa_redisQueue.value) <= Len(sa_memQueue)
    /\ \A i \in 1..Len(sa_memQueue) :
           LET j == i - (Len(sa_memQueue) - Len(sa_redisQueue.value))
           IN  IF j >= 1 THEN sa_memQueue[i] = sa_redisQueue.value[j]
                 /\ sa_memQueue[i].expires_at <= sa_redisQueue.expires_at
               ELSE sa_memQueue[i].expires_at <= sa_now
    /\ \A i \in 1..Len(sa_memQueue) : sa_memQueue[i].expires_at <= sa_now + EntryTtl

\* A token is given out once, and whoever was promised the lock has the row.
TokensAreFresh ==
    /\ sa_lock.token <= sa_written
    /\ \A w \in LockWorker : sa_handle[w] <= sa_written
    /\ \A w, v \in LockWorker : sa_handle[w] = sa_handle[v] /\ sa_handle[w] # 0 => w = v
    /\ \A w \in LockWorker : sa_granted[w] > sa_now => sa_handle[w] # 0

AdapterInv ==
    /\ AdapterTypes /\ CachesAgree /\ ListsAgree /\ QueuesAgree /\ TokensAreFresh
    /\ Adapters!SameAnswers /\ Adapters!GrantsAreKept

LEMMA AdapterInit == Adapters!Init => AdapterInv
<1> SUFFICES ASSUME Adapters!Init PROVE AdapterInv
  OBVIOUS
<1>0. /\ sa_now = 0 /\ sa_written = 0
      /\ sa_memCache = [k \in StateKey |-> Adapters!Absent] /\ sa_redisCache = sa_memCache
      /\ sa_memList = [value |-> <<>>, expires_at |-> -1] /\ sa_redisList = sa_memList
      /\ sa_memQueue = <<>> /\ sa_redisQueue = [value |-> <<>>, expires_at |-> -1]
      /\ sa_lock = Adapters!Free /\ sa_handle = [w \in LockWorker |-> 0]
      /\ sa_granted = [w \in LockWorker |-> -1]
      /\ sa_answers = Adapters!NoAnswers
  BY DEF Adapters!Init
<1>1. Adapters!Absent \in Entry /\ Adapters!Free \in [token : Nat, expires_at : Int]
  BY DEF Adapters!Absent, Adapters!Free, Entry
<1>2. AdapterTypes
  <2>1. CacheTypes /\ ListTypes
    BY <1>0, <1>1 DEF CacheTypes, ListTypes
  <2>2. QueueTypes /\ LockTypes
    BY <1>0, <1>1 DEF QueueTypes, LockTypes
  <2>3. sa_now \in 0..StateMaxTime /\ sa_written \in Nat
    BY <1>0, AdapterConstants
  <2>4. QED
    BY <2>1, <2>2, <2>3 DEF AdapterTypes
<1>3. CachesAgree /\ ListsAgree
  BY <1>0 DEF CachesAgree, ListsAgree
<1>4. QueuesAgree
  BY <1>0 DEF QueuesAgree
<1>5. TokensAreFresh /\ Adapters!GrantsAreKept /\ Adapters!SameAnswers
  BY <1>0 DEF TokensAreFresh, Adapters!Free, Adapters!GrantsAreKept,
              Adapters!SameAnswers, Adapters!NoAnswers
<1>6. QED
  BY <1>2, <1>3, <1>4, <1>5 DEF AdapterInv

-----------------------------------------------------------------------------
\* A list or a queue cut to its newest entries.
LEMMA NewestEntries ==
    ASSUME NEW S, NEW s \in Seq(S), NEW n \in Int
    PROVE  /\ Adapters!Newest(s, n) \in Seq(S)
           /\ Len(Adapters!Newest(s, n)) <= Len(s)
           /\ n > 0 => Len(Adapters!Newest(s, n)) = IF Len(s) > n THEN n ELSE Len(s)
           /\ n <= 0 => Len(Adapters!Newest(s, n)) = Len(s)
           /\ \A i \in 1..Len(Adapters!Newest(s, n)) :
                  Adapters!Newest(s, n)[i] = s[i + Len(s) - Len(Adapters!Newest(s, n))]
<1>1. CASE n > 0 /\ Len(s) > n
  <2>1. Adapters!Newest(s, n) = SubSeq(s, Len(s) - n + 1, Len(s))
    BY <1>1 DEF Adapters!Newest
  <2>2. Len(SubSeq(s, Len(s) - n + 1, Len(s))) = n
    BY <1>1
  <2>3. \A i \in 1..n : SubSeq(s, Len(s) - n + 1, Len(s))[i] = s[i + Len(s) - n]
    BY <1>1
  <2>4. SubSeq(s, Len(s) - n + 1, Len(s)) \in Seq(S)
    BY <1>1
  <2>5. QED
    BY <1>1, <2>1, <2>2, <2>3, <2>4
<1>2. CASE ~(n > 0 /\ Len(s) > n)
  <2>1. Adapters!Newest(s, n) = s
    BY <1>2 DEF Adapters!Newest
  <2>2. QED
    BY <1>2, <2>1
<1>3. QED
  BY <1>1, <1>2

\* What dequeue finds in a queue: everything from the first live entry on.
LEMMA PendingEntries ==
    ASSUME NEW S, NEW s \in Seq(S), NEW n \in 1..Len(s), Adapters!Live(s[n]),
           \A i \in 1..(n - 1) : ~Adapters!Live(s[i])
    PROVE  Adapters!Pending(s) = SubSeq(s, n, Len(s))
<1> DEFINE live == {i \in DOMAIN s : Adapters!Live(s[i])}
<1>1. n \in live
  OBVIOUS
<1>2. \A i \in live : n <= i
  OBVIOUS
<1>3. live \subseteq Nat
  OBVIOUS
<1> HIDE DEF live
<1> DEFINE first == CHOOSE i \in live : \A j \in live : i <= j
<1>4. first \in live /\ \A j \in live : first <= j
  BY <1>1, <1>2
<1> HIDE DEF first
<1>5. first = n
  BY <1>1, <1>2, <1>3, <1>4
<1>6. QED
  BY <1>1, <1>5 DEF Adapters!Pending, live, first

\* A set of numbers has a least member.
LEMMA LeastMember ==
    ASSUME NEW T, T \subseteq Nat, T # {}
    PROVE  \E m \in T : \A y \in T : m <= y
<1> DEFINE R == {p \in Nat \X Nat : p[1] < p[2]}
<1>1. IsWellFoundedOn(R, Nat)
  BY NatLessThanWellFounded DEF OpToRel
<1> HIDE DEF R
<1>2. PICK m \in T : \A y \in T : ~(<<y, m>> \in R)
  BY <1>1, WFMin
<1>3. \A y \in T : m \in Nat /\ y \in Nat /\ ~(y < m)
  BY <1>2 DEF R
<1>4. QED
  BY <1>3

LEMMA NothingPending ==
    ASSUME NEW S, NEW s \in Seq(S), \A i \in 1..Len(s) : ~Adapters!Live(s[i])
    PROVE  Adapters!Pending(s) = <<>>
BY DEF Adapters!Pending

-----------------------------------------------------------------------------
\* One step after the other.

\* Nothing but time and what an operation is about changes.
LEMMA TickKeeps == AdapterInv /\ Adapters!Tick => AdapterInv'
<1> SUFFICES ASSUME AdapterInv, Adapters!Tick PROVE AdapterInv'
  OBVIOUS
<1> USE DEF AdapterInv
<1>1. sa_now' = sa_now + 1 /\ sa_now' \in 0..StateMaxTime
          /\ UNCHANGED <<sa_kind, sa_written, sa_memCache, sa_writeCount, sa_redisCache,
        sa_memList, sa_redisList, sa_memQueue, sa_redisQueue, sa_lock, sa_handle,
              sa_granted>> /\ sa_answers' = Adapters!NoAnswers
  BY AdapterConstants DEF Adapters!Tick, AdapterTypes, Adapters!cache, Adapters!lists,
                          Adapters!queues, Adapters!locks
<1>2. AdapterTypes'
  BY <1>1 DEF AdapterTypes, CacheTypes, ListTypes, QueueTypes, LockTypes
<1>3. sa_now \in Nat /\ sa_now <= sa_now'
  BY <1>1 DEF AdapterTypes
<1>4. CachesAgree'
  BY <1>1, <1>3 DEF AdapterTypes, CacheTypes, Entry, CachesAgree
<1>5. ListsAgree'
  BY <1>1, <1>3 DEF AdapterTypes, ListTypes, ListsAgree, Adapters!ListTtl, Adapters!Never
<1>6. QueuesAgree'
  <2>0. \A i \in 1..Len(sa_memQueue) : sa_memQueue[i] \in Entry
    BY DEF AdapterTypes, QueueTypes
  <2>1. \A i \in 1..Len(sa_memQueue) : sa_memQueue[i].expires_at \in Int
    BY <2>0 DEF Entry
  <2>2. EntryTtl \in Nat
    BY AdapterConstants
  <2>3. sa_now \in Int /\ sa_now' \in Int /\ sa_now <= sa_now'
    BY <1>1, <1>3
  <2>4. \A i \in 1..Len(sa_memQueue) :
            /\ sa_memQueue[i].expires_at <= sa_now => sa_memQueue[i].expires_at <= sa_now'
            /\ sa_memQueue[i].expires_at <= sa_now + EntryTtl =>
                  sa_memQueue[i].expires_at <= sa_now' + EntryTtl
    BY <2>1, <2>2, <2>3
  <2>5. sa_memQueue' = sa_memQueue /\ sa_redisQueue' = sa_redisQueue
    BY <1>1
  <2>6. QED
    BY <2>4, <2>5 DEF QueuesAgree
<1>7. TokensAreFresh' /\ Adapters!GrantsAreKept'
  BY <1>1, <1>3 DEF AdapterTypes, LockTypes, TokensAreFresh, Adapters!GrantsAreKept
<1>8. Adapters!SameAnswers'
  BY <1>1 DEF Adapters!SameAnswers, Adapters!NoAnswers
<1>9. QED
  BY <1>2, <1>4, <1>5, <1>6, <1>7, <1>8

LEMMA CacheTypesEqual ==
    ASSUME AdapterInv, UNCHANGED <<sa_now, sa_kind, Adapters!lists, Adapters!queues,
          Adapters!locks>>, sa_written' \in Nat, sa_written' >= sa_written
    PROVE  /\ ListTypes' /\ QueueTypes' /\ LockTypes' /\ ListsAgree' /\ QueuesAgree'
           /\ TokensAreFresh' /\ Adapters!GrantsAreKept'
           /\ sa_now' \in 0..StateMaxTime
<1> USE DEF AdapterInv, AdapterTypes, Adapters!lists, Adapters!queues, Adapters!locks
<1>1. ListTypes' /\ QueueTypes' /\ LockTypes' /\ sa_now' \in 0..StateMaxTime
  BY DEF ListTypes, QueueTypes, LockTypes
<1>2. ListsAgree'
  BY DEF ListsAgree, Adapters!ListTtl, Adapters!Never
<1>3. QueuesAgree'
  BY DEF QueuesAgree
<1>4. TokensAreFresh' /\ Adapters!GrantsAreKept'
  BY DEF TokensAreFresh, Adapters!GrantsAreKept, LockTypes
<1>5. QED
  BY <1>1, <1>2, <1>3, <1>4

LEMMA CacheKeeps ==
    ASSUME AdapterInv, NEW k \in StateKey, NEW ttl \in Nat,
           Adapters!Get(k) \/ Adapters!Delete(k) \/ Adapters!SetKey(k, ttl)
                 \/ Adapters!SetIfNotExists(k, ttl)
    PROVE  AdapterInv'
<1>1. UNCHANGED <<sa_now, sa_kind, Adapters!lists, Adapters!queues, Adapters!locks>>
          /\ sa_written' \in Nat /\ sa_written' >= sa_written
  BY DEF AdapterInv, AdapterTypes, Adapters!Get, Adapters!Delete, Adapters!SetKey,
         Adapters!SetIfNotExists, Adapters!Caching, Adapters!Write
<1>2. /\ ListTypes' /\ QueueTypes' /\ LockTypes' /\ ListsAgree' /\ QueuesAgree'
      /\ TokensAreFresh' /\ Adapters!GrantsAreKept'
      /\ sa_now' \in 0..StateMaxTime
  BY <1>1, CacheTypesEqual
<1>3. Adapters!Deadline(ttl) \in Int /\ sa_now \in Nat
  BY AdapterConstants DEF Adapters!Deadline, Adapters!Never, AdapterInv, AdapterTypes
<1>4. [value |-> sa_written', expires_at |-> Adapters!Deadline(ttl)] \in Entry
          /\ Adapters!Absent \in Entry
  BY <1>1, <1>3 DEF Entry, Adapters!Absent
<1>5. PICK e : e = [value |-> sa_written', expires_at |-> Adapters!Deadline(ttl)]
  OBVIOUS
<1>6. e \in Entry
  BY <1>4, <1>5
<1> USE DEF AdapterInv, AdapterTypes, CacheTypes
<1>7a. Adapters!Value(sa_memCache[k]) = Adapters!Value(sa_redisCache[k])
  <2>1. CASE sa_memCache[k] = sa_redisCache[k]
    BY <2>1
  <2>2. CASE sa_memCache[k] = Adapters!Absent /\ sa_redisCache[k].expires_at <= sa_now
    BY <1>3, <2>2 DEF Entry, Adapters!Value, Adapters!Live, Adapters!Absent
  <2>3. QED
    BY <2>1, <2>2 DEF CachesAgree
<1>7. CASE Adapters!Get(k)
  <2>1. CacheTypes' /\ CachesAgree'
    BY <1>1, <1>3, <1>4, <1>7 DEF Adapters!Get, CachesAgree, Adapters!Live, Entry
  <2>2. sa_answers' = <<Adapters!Value(sa_memCache[k]), Adapters!Value(sa_redisCache[k])>>
    BY <1>7 DEF Adapters!Get
  <2>3. Adapters!SameAnswers'
    BY <1>7a, <2>2 DEF Adapters!SameAnswers
  <2>4. QED
    BY <1>1, <1>2, <2>1, <2>3
<1>8. CASE Adapters!Delete(k)
  <2>1. CacheTypes' /\ CachesAgree'
    BY <1>1, <1>4, <1>8 DEF Adapters!Delete, CachesAgree, Entry
  <2>2. QED
    BY <1>1, <1>2, <1>8, <2>1 DEF Adapters!Delete, Adapters!SameAnswers, Adapters!NoAnswers
<1>9. CASE Adapters!SetKey(k, ttl)
  <2>1. PICK m : m = [sa_memCache EXCEPT ![k] = e]
    OBVIOUS
  <2>2. sa_redisCache' = [sa_redisCache EXCEPT ![k] = e] /\ (sa_memCache' = m
            \/ sa_memCache' = Adapters!Purged(m))
    BY <1>5, <1>9, <2>1 DEF Adapters!SetKey
  <2>3. m \in [StateKey -> Entry] /\ Adapters!Purged(m) \in [StateKey -> Entry]
    BY <1>4, <1>6, <2>1 DEF Adapters!Purged
  <2>4. CacheTypes'
    BY <1>6, <2>2, <2>3
  <2>5. \A x \in StateKey : \/ m[x] = sa_redisCache'[x]
                            \/ m[x] = Adapters!Absent /\ sa_redisCache'[x].expires_at <= sa_now
    BY <1>6, <2>1, <2>2 DEF CachesAgree
  <2>6. \A x \in StateKey : Adapters!Purged(m)[x] = m[x]
            \/ (Adapters!Purged(m)[x] = Adapters!Absent /\ m[x].expires_at <= sa_now)
    BY <1>3, <2>3 DEF Adapters!Purged, Adapters!Live, Entry
  <2>7. CachesAgree'
    BY <1>1, <2>2, <2>5, <2>6 DEF CachesAgree, Adapters!Absent
  <2>8. QED
    BY <1>1, <1>2, <1>9, <2>4, <2>7 DEF Adapters!SetKey, Adapters!SameAnswers,
    Adapters!NoAnswers
<1>10. CASE Adapters!SetIfNotExists(k, ttl)
  <2>1. /\ sa_memCache' = IF Adapters!Live(sa_memCache[k]) THEN sa_memCache ELSE [sa_memCache EXCEPT ![k] = e]
        /\ sa_redisCache' = IF Adapters!Live(sa_redisCache[k]) THEN sa_redisCache ELSE [sa_redisCache EXCEPT ![k] = e]
    BY <1>5, <1>10 DEF Adapters!SetIfNotExists, Adapters!Claim
  <2>2. CacheTypes'
    BY <1>6, <2>1
  <2>3. CachesAgree'
    <3>1. Adapters!Live(sa_memCache[k]) <=> Adapters!Live(sa_redisCache[k])
      BY <1>3 DEF CachesAgree, Adapters!Live, Adapters!Absent, Entry
    <3>2. QED
      BY <1>1, <1>6, <2>1, <3>1 DEF CachesAgree
  <2>4. Adapters!SameAnswers'
    <3>1. sa_answers' = <<Adapters!Value(sa_memCache[k]), Adapters!Value(sa_redisCache[k])>>
      BY <1>10 DEF Adapters!SetIfNotExists
    <3>2. QED
      BY <1>7a, <3>1 DEF Adapters!SameAnswers
  <2>5. QED
    BY <1>1, <1>2, <2>2, <2>3, <2>4
<1>11. QED
  BY <1>7, <1>8, <1>9, <1>10

LEMMA ListKeeps ==
    ASSUME AdapterInv, Adapters!AppendToList \/ Adapters!DeleteHistory \/ Adapters!GetList
    PROVE  AdapterInv'
<1> USE DEF AdapterInv, AdapterTypes, ListTypes
<1>1. UNCHANGED <<sa_now, sa_kind, sa_memCache, sa_writeCount, sa_redisCache, sa_memQueue,
          sa_redisQueue, sa_lock, sa_handle, sa_granted>>
      /\ sa_written' \in Nat /\ sa_written' >= sa_written
  <2>1. Adapters!Listing /\ (Adapters!Write \/ sa_written' = sa_written)
    BY DEF Adapters!AppendToList, Adapters!DeleteHistory, Adapters!GetList
  <2>2. sa_written' \in Nat /\ sa_written' >= sa_written
    BY <2>1 DEF Adapters!Write
  <2>3. QED
    BY <2>1, <2>2 DEF Adapters!Listing, Adapters!cache, Adapters!queues, Adapters!locks
<1>2. CacheTypes' /\ QueueTypes' /\ LockTypes' /\ sa_now' \in 0..StateMaxTime
  BY <1>1 DEF CacheTypes, QueueTypes, LockTypes
<1>3. CachesAgree' /\ QueuesAgree'
  BY <1>1 DEF CachesAgree, QueuesAgree
<1>4. TokensAreFresh' /\ Adapters!GrantsAreKept'
  BY <1>1 DEF TokensAreFresh, Adapters!GrantsAreKept, LockTypes
<1>5. Adapters!ListTtl \in Nat /\ Adapters!ListTtl' = Adapters!ListTtl /\ sa_now \in Nat
          /\ Adapters!Never \in Nat /\ sa_now <= Adapters!Never
  BY <1>1, AdapterConstants DEF Adapters!ListTtl, Adapters!Never
<1>6. Adapters!Items(sa_memList) = Adapters!Items(sa_redisList)
  BY <1>5 DEF ListsAgree, Adapters!Items, Adapters!Live
<1>7. ASSUME NEW v \in Nat, NEW n \in Int, Adapters!AppendBoth(v, n, Adapters!ListTtl)
      PROVE  ListTypes' /\ ListsAgree' /\ Adapters!SameAnswers'
  <2>1. PICK x : x = Adapters!Newest(Append(Adapters!Items(sa_memList), v), n)
    OBVIOUS
  <2>2. Adapters!Items(sa_memList) \in Seq(Nat)
    BY DEF Adapters!Items
  <2>3. Append(Adapters!Items(sa_memList), v) \in Seq(Nat)
    BY <2>2
  <2>4. x \in Seq(Nat)
    BY <2>1, <2>3, NewestEntries
  <2>5. Adapters!Deadline(Adapters!ListTtl) \in Int /\ (Adapters!ListTtl = 0 =>
            Adapters!Deadline(Adapters!ListTtl) = Adapters!Never)
    BY <1>5 DEF Adapters!Deadline
  <2>6. /\ sa_memList' = [value |-> x, expires_at |-> Adapters!Deadline(Adapters!ListTtl)]
        /\ sa_redisList' = [value |-> x, expires_at |-> IF Adapters!ListTtl > 0 THEN Adapters!Deadline(Adapters!ListTtl)
                                                     ELSE IF Adapters!Live(sa_redisList) THEN sa_redisList.expires_at
                                                     ELSE Adapters!Never]
    BY <1>6, <1>7, <2>1 DEF Adapters!AppendBoth
  <2>7. Adapters!ListTtl = 0 /\ Adapters!Live(sa_redisList) =>
            sa_redisList.expires_at = Adapters!Never
    BY <1>5 DEF ListsAgree, Adapters!Live
  <2>8. sa_memList' = sa_redisList' /\ sa_redisList'.expires_at = Adapters!Deadline(Adapters!ListTtl)
    BY <1>5, <2>5, <2>6, <2>7
  <2>9. ListTypes'
    BY <2>4, <2>5, <2>6, <2>8
  <2>10. Adapters!Never' = Adapters!Never
    BY DEF Adapters!Never
  <2>11. ListsAgree'
    BY <1>5, <2>5, <2>8, <2>10 DEF ListsAgree
  <2>12. QED
    BY <1>7, <2>9, <2>11 DEF Adapters!AppendBoth, Adapters!SameAnswers, Adapters!NoAnswers
<1>8. CASE Adapters!AppendToList
  BY <1>1, <1>2, <1>3, <1>4, <1>7, <1>8, AdapterConstants DEF Adapters!AppendToList
<1>9. CASE Adapters!DeleteHistory
  BY <1>1, <1>2, <1>3, <1>4, <1>7, <1>9 DEF Adapters!DeleteHistory, Adapters!Tombstone
<1>10. CASE Adapters!GetList
  <2>1. sa_answers' = <<Adapters!Items(sa_memList), Adapters!Items(sa_redisList)>>
    BY <1>10 DEF Adapters!GetList
  <2>2. Adapters!SameAnswers'
    BY <1>6, <2>1 DEF Adapters!SameAnswers
  <2>3. /\ sa_memList' = IF Adapters!Live(sa_memList) THEN sa_memList ELSE [value |-> <<>>,
              expires_at |-> -1]
        /\ sa_redisList' = sa_redisList
    BY <1>10 DEF Adapters!GetList
  <2>4. ListTypes'
    BY <2>3
  <2>5. ListsAgree'
    BY <1>1, <1>5, <2>3 DEF ListsAgree, Adapters!Live, Adapters!Never
  <2>6. QED
    BY <1>1, <1>2, <1>3, <1>4, <2>2, <2>4, <2>5
<1>11. QED
  BY <1>8, <1>9, <1>10

LEMMA LockKeeps ==
    ASSUME AdapterInv,
           \/ Adapters!ForceReleaseLock
           \/ \E w \in LockWorker : Adapters!ReleaseLock(w)
                 \/ \E ttl \in StateTtl \ {0} : Adapters!AcquireLock(w, ttl)
                       \/ Adapters!ExtendLock(w, ttl)
    PROVE  AdapterInv'
<1> USE DEF AdapterInv, AdapterTypes
<1>1. UNCHANGED <<sa_now, sa_kind, sa_memCache, sa_writeCount, sa_redisCache, sa_memList,
          sa_redisList, sa_memQueue, sa_redisQueue>>
      /\ sa_written' \in Nat /\ sa_answers' = Adapters!NoAnswers
  BY DEF Adapters!ForceReleaseLock, Adapters!ReleaseLock, Adapters!AcquireLock,
         Adapters!ExtendLock, Adapters!Locking, Adapters!Write, Adapters!cache,
                 Adapters!lists, Adapters!queues
<1>2. CacheTypes' /\ ListTypes' /\ QueueTypes' /\ sa_now' \in 0..StateMaxTime
  BY <1>1 DEF CacheTypes, ListTypes, QueueTypes
<1>3. CachesAgree' /\ ListsAgree' /\ QueuesAgree'
  BY <1>1 DEF CachesAgree, ListsAgree, Adapters!ListTtl, Adapters!Never, QueuesAgree
<1>4. Adapters!SameAnswers'
  BY <1>1 DEF Adapters!SameAnswers, Adapters!NoAnswers
<1>5. sa_now \in Nat /\ Adapters!Free \in [token : Nat, expires_at : Int]
  BY DEF Adapters!Free
<1> USE DEF LockTypes
<1>6. CASE Adapters!ForceReleaseLock
  <2>1. sa_lock' = Adapters!Free /\ sa_granted' = [w \in LockWorker |-> -1]
            /\ sa_handle' = sa_handle /\ sa_written' = sa_written
    BY <1>6 DEF Adapters!ForceReleaseLock
  <2>2. LockTypes'
    BY <1>5, <2>1
  <2>3. TokensAreFresh' /\ Adapters!GrantsAreKept'
    BY <1>1, <1>5, <2>1 DEF TokensAreFresh, Adapters!GrantsAreKept, Adapters!Free
  <2>4. QED
    BY <1>1, <1>2, <1>3, <1>4, <2>2, <2>3
<1>7. ASSUME NEW w \in LockWorker, Adapters!ReleaseLock(w) PROVE AdapterInv'
  <2>1. /\ sa_lock' = IF sa_lock.token = sa_handle[w] THEN Adapters!Free ELSE sa_lock
        /\ sa_handle' = [sa_handle EXCEPT ![w] = 0]
        /\ sa_granted' = [sa_granted EXCEPT ![w] = -1]
        /\ sa_written' = sa_written /\ sa_handle[w] # 0
    BY <1>7 DEF Adapters!ReleaseLock
  <2>2. LockTypes'
    BY <1>5, <2>1
  <2>3. TokensAreFresh'
    BY <1>1, <1>5, <2>1 DEF TokensAreFresh, Adapters!Free
  <2>4. Adapters!GrantsAreKept'
    BY <1>1, <1>5, <2>1 DEF TokensAreFresh, Adapters!GrantsAreKept, Adapters!Free
  <2>5. QED
    BY <1>1, <1>2, <1>3, <1>4, <2>2, <2>3, <2>4
<1>8. ASSUME NEW w \in LockWorker, NEW ttl \in StateTtl \ {0}, Adapters!AcquireLock(w,
          ttl) PROVE AdapterInv'
  <2>0. ttl \in Nat /\ sa_written' = sa_written + 1
    BY <1>8, AdapterConstants DEF Adapters!AcquireLock, Adapters!Write
  <2>1. CASE sa_lock = Adapters!Free \/ Adapters!Expired
    <3>1. /\ sa_lock' = [token |-> sa_written', expires_at |-> sa_now + ttl]
          /\ sa_handle' = [sa_handle EXCEPT ![w] = sa_written']
          /\ sa_granted' = [sa_granted EXCEPT ![w] = sa_now + ttl]
      BY <1>8, <2>1 DEF Adapters!AcquireLock
    <3>2. sa_lock.expires_at <= sa_now
      BY <1>5, <2>1 DEF Adapters!Expired, Adapters!Free
    <3>3. \A v \in LockWorker : sa_granted[v] <= sa_now
      BY <1>5, <3>2 DEF Adapters!GrantsAreKept
    <3>4. LockTypes'
      BY <1>1, <1>5, <2>0, <3>1
    <3>5. TokensAreFresh'
      BY <1>1, <2>0, <3>1, <3>3 DEF TokensAreFresh
    <3>6. Adapters!GrantsAreKept'
      BY <1>1, <2>0, <3>1, <3>3 DEF Adapters!GrantsAreKept
    <3>7. QED
      BY <1>1, <1>2, <1>3, <1>4, <3>4, <3>5, <3>6
  <2>2. CASE ~(sa_lock = Adapters!Free \/ Adapters!Expired)
    <3>1. UNCHANGED <<sa_lock, sa_handle, sa_granted>>
      BY <1>8, <2>2 DEF Adapters!AcquireLock, Adapters!locks
    <3>2. LockTypes' /\ TokensAreFresh' /\ Adapters!GrantsAreKept'
      BY <1>1, <2>0, <3>1 DEF TokensAreFresh, Adapters!GrantsAreKept
    <3>3. QED
      BY <1>1, <1>2, <1>3, <1>4, <3>2
  <2>3. QED
    BY <2>1, <2>2
<1>9. ASSUME NEW w \in LockWorker, NEW ttl \in StateTtl \ {0}, Adapters!ExtendLock(w,
          ttl) PROVE AdapterInv'
  <2>0. ttl \in Nat /\ sa_written' = sa_written /\ sa_handle' = sa_handle /\ sa_handle[w] # 0
    BY <1>9, AdapterConstants DEF Adapters!ExtendLock
  <2>1. CASE sa_lock.token = sa_handle[w] /\ Adapters!Renewable
    <3>1. sa_lock' = [sa_lock EXCEPT !.expires_at = sa_now + ttl]
              /\ sa_granted' = [sa_granted EXCEPT ![w] = sa_now + ttl]
      BY <1>9, <2>1 DEF Adapters!ExtendLock
    <3>2. LockTypes'
      BY <1>5, <2>0, <3>1
    <3>3. TokensAreFresh'
      BY <1>1, <2>0, <3>1 DEF TokensAreFresh
    <3>4. Adapters!GrantsAreKept'
      BY <1>1, <2>0, <2>1, <3>1 DEF TokensAreFresh, Adapters!GrantsAreKept
    <3>5. QED
      BY <1>1, <1>2, <1>3, <1>4, <3>2, <3>3, <3>4
  <2>2. CASE sa_lock.token = sa_handle[w] /\ ~Adapters!Renewable
    <3>1. (sa_lock' = Adapters!Free \/ sa_lock' = sa_lock) /\ sa_granted' = sa_granted
      BY <1>9, <2>2 DEF Adapters!ExtendLock
    <3>2. sa_lock.expires_at <= sa_now
      BY <1>5, <2>2 DEF Adapters!Renewable
    <3>3. \A v \in LockWorker : sa_granted[v] <= sa_now
      BY <1>5, <3>2 DEF Adapters!GrantsAreKept
    <3>4. LockTypes' /\ TokensAreFresh'
      BY <1>1, <1>5, <2>0, <3>1 DEF TokensAreFresh, Adapters!Free
    <3>5. Adapters!GrantsAreKept'
      BY <1>1, <1>5, <3>1, <3>3 DEF Adapters!GrantsAreKept
    <3>6. QED
      BY <1>1, <1>2, <1>3, <1>4, <3>4, <3>5
  <2>3. CASE sa_lock.token # sa_handle[w]
    <3>1. UNCHANGED <<sa_lock, sa_granted>>
      BY <1>9, <2>3 DEF Adapters!ExtendLock
    <3>2. LockTypes' /\ TokensAreFresh' /\ Adapters!GrantsAreKept'
      BY <1>1, <2>0, <3>1 DEF TokensAreFresh, Adapters!GrantsAreKept
    <3>3. QED
      BY <1>1, <1>2, <1>3, <1>4, <3>2
  <2>4. QED
    BY <2>1, <2>2, <2>3
<1>10. QED
  BY <1>6, <1>7, <1>8, <1>9

LEMMA QueueKeeps ==
    ASSUME AdapterInv, Adapters!Enqueue \/ Adapters!Dequeue
    PROVE  AdapterInv'
<1> USE DEF AdapterInv, AdapterTypes, QueueTypes
<1>1. Adapters!Queueing /\ sa_written' \in Nat /\ sa_written' >= sa_written
  BY DEF Adapters!Enqueue, Adapters!Dequeue, Adapters!Write
<1>2. UNCHANGED <<sa_now, sa_kind, sa_memCache, sa_writeCount, sa_redisCache, sa_memList,
          sa_redisList, sa_lock, sa_handle, sa_granted>>
  BY <1>1 DEF Adapters!Queueing, Adapters!cache, Adapters!lists, Adapters!locks
<1>3. CacheTypes' /\ ListTypes' /\ LockTypes' /\ sa_now' \in 0..StateMaxTime
  BY <1>2 DEF CacheTypes, ListTypes, LockTypes
<1>4. CachesAgree' /\ ListsAgree'
  BY <1>2 DEF CachesAgree, ListsAgree, Adapters!ListTtl, Adapters!Never
<1>5. TokensAreFresh' /\ Adapters!GrantsAreKept'
  BY <1>1, <1>2 DEF TokensAreFresh, Adapters!GrantsAreKept, LockTypes
<1>6. sa_now \in Nat /\ EntryTtl \in Nat /\ MinQueueTtl \in Nat /\ StateMaxQueueSize \in Int
  BY AdapterConstants
<1>7. \A i \in 1..Len(sa_memQueue) : sa_memQueue[i] \in Entry
  OBVIOUS
<1>8. PICK m : m = sa_memQueue
  OBVIOUS
<1>9. PICK r : r = sa_redisQueue.value
  OBVIOUS
<1>10. m \in Seq(Entry) /\ r \in Seq(Entry) /\ Len(r) <= Len(m) /\ Len(m) \in Nat /\ Len(r) \in Nat
  BY <1>8, <1>9 DEF QueuesAgree
<1>11. \A i \in 1..Len(m) :
          /\ m[i] \in Entry /\ m[i].expires_at \in Int
          /\ m[i].expires_at <= sa_now + EntryTtl
          /\ i - (Len(m) - Len(r)) >= 1 =>
                m[i] = r[i - (Len(m) - Len(r))] /\ m[i].expires_at <= sa_redisQueue.expires_at
          /\ i - (Len(m) - Len(r)) < 1 => m[i].expires_at <= sa_now
  <2>1. \A i \in 1..Len(m) : m[i] \in Entry
    BY <1>10
  <2>2. \A i \in 1..Len(m) : m[i].expires_at \in Int
    BY <2>1 DEF Entry
  <2>3. QED
    BY <1>8, <1>9, <1>10, <2>1, <2>2 DEF QueuesAgree
<1>12. ~Adapters!Live(sa_redisQueue) => \A i \in 1..Len(m) : m[i].expires_at <= sa_now
  <2>1. sa_redisQueue.expires_at \in Int
    OBVIOUS
  <2>2. ASSUME ~Adapters!Live(sa_redisQueue), NEW i \in 1..Len(m) PROVE m[i].expires_at <= sa_now
    <3>1. CASE i - (Len(m) - Len(r)) >= 1
      BY <1>6, <1>11, <2>1, <2>2, <3>1 DEF Adapters!Live
    <3>2. CASE i - (Len(m) - Len(r)) < 1
      BY <1>11, <3>2
    <3>3. QED
      BY <1>10, <3>1, <3>2
  <2>3. QED
    BY <2>2
<1>20. CASE Adapters!Enqueue
  <2> DEFINE ttl == IF EntryTtl > MinQueueTtl THEN EntryTtl ELSE MinQueueTtl
  <2>1. PICK e : e = [value |-> sa_written', expires_at |-> sa_now + EntryTtl]
    OBVIOUS
  <2>2. PICK v : v = Adapters!Items(sa_redisQueue)
    OBVIOUS
  <2>3. /\ sa_memQueue' = Adapters!Newest(Append(m, e), StateMaxQueueSize)
        /\ sa_redisQueue' = [value |-> Adapters!Newest(Append(v, e), StateMaxQueueSize),
              expires_at |-> sa_now + ttl]
        /\ sa_answers' = Adapters!NoAnswers
    BY <1>8, <1>20, <2>1, <2>2 DEF Adapters!Enqueue
  <2>4. e \in Entry /\ ttl \in Nat /\ EntryTtl <= ttl
    BY <1>1, <1>6, <2>1 DEF Entry
  <2> HIDE DEF ttl
  <2>5. v \in Seq(Entry) /\ v \in {r, <<>>} /\ Len(v) \in Nat /\ Len(v) <= Len(m)
    BY <1>9, <1>10, <2>2 DEF Adapters!Items
  <2>6. \A i \in 1..Len(m) :
            /\ m[i].expires_at <= sa_now + EntryTtl
            /\ i - (Len(m) - Len(v)) >= 1 => m[i] = v[i - (Len(m) - Len(v))]
            /\ i - (Len(m) - Len(v)) < 1 => m[i].expires_at <= sa_now
    <3>1. CASE Adapters!Live(sa_redisQueue)
      BY <1>9, <1>11, <2>2, <3>1 DEF Adapters!Items
    <3>2. CASE ~Adapters!Live(sa_redisQueue)
      <4>1. v = <<>> /\ Len(v) = 0
        BY <2>2, <3>2 DEF Adapters!Items
      <4>2. QED
        BY <1>10, <1>11, <1>12, <3>2, <4>1
    <3>3. QED
      BY <3>1, <3>2
  <2>7. PICK mm : mm = Append(m, e)
    OBVIOUS
  <2>8. PICK vv : vv = Append(v, e)
    OBVIOUS
  <2>9. /\ mm \in Seq(Entry) /\ vv \in Seq(Entry) /\ Len(mm) = Len(m) + 1 /\ Len(vv) = Len(v) + 1
        /\ \A i \in 1..Len(mm) : mm[i] = IF i = Len(m) + 1 THEN e ELSE m[i]
        /\ \A i \in 1..Len(vv) : vv[i] = IF i = Len(v) + 1 THEN e ELSE v[i]
    BY <1>10, <2>4, <2>5, <2>7, <2>8
  <2>10. e.expires_at = sa_now + EntryTtl
    BY <2>1
  <2>11. \A i \in 1..Len(mm) :
            /\ mm[i].expires_at <= sa_now + EntryTtl
            /\ i - (Len(mm) - Len(vv)) >= 1 => mm[i] = vv[i - (Len(mm) - Len(vv))]
            /\ i - (Len(mm) - Len(vv)) < 1 => mm[i].expires_at <= sa_now
    <3> SUFFICES ASSUME NEW i \in 1..Len(mm)
                 PROVE  /\ mm[i].expires_at <= sa_now + EntryTtl
                        /\ i - (Len(mm) - Len(vv)) >= 1 => mm[i] = vv[i - (Len(mm) - Len(vv))]
                        /\ i - (Len(mm) - Len(vv)) < 1 => mm[i].expires_at <= sa_now
      OBVIOUS
    <3>1. Len(mm) - Len(vv) = Len(m) - Len(v)
      BY <1>10, <2>5, <2>9
    <3>2. CASE i = Len(m) + 1
      <4>1. mm[i] = e /\ i - (Len(mm) - Len(vv)) = Len(v) + 1
        BY <1>10, <2>5, <2>9, <3>1, <3>2
      <4>2. vv[Len(v) + 1] = e
        BY <2>5, <2>9
      <4>3. Len(v) + 1 >= 1 /\ e.expires_at <= sa_now + EntryTtl
        BY <1>6, <2>5, <2>10
      <4>4. QED
        BY <4>1, <4>2, <4>3
    <3>3. CASE i \in 1..Len(m)
      <4>1. i - (Len(m) - Len(v)) <= Len(v)
        BY <1>10, <2>5, <3>3
      <4>2. i - (Len(m) - Len(v)) >= 1 => vv[i - (Len(m) - Len(v))] = v[i - (Len(m) - Len(v))]
        BY <1>10, <2>5, <2>9, <3>3, <4>1
      <4>3. mm[i] = m[i]
        BY <1>10, <2>9, <3>3
      <4>4. /\ m[i].expires_at <= sa_now + EntryTtl
            /\ i - (Len(m) - Len(v)) >= 1 => m[i] = v[i - (Len(m) - Len(v))]
            /\ i - (Len(m) - Len(v)) < 1 => m[i].expires_at <= sa_now
        BY <2>6, <3>3
      <4>5. QED
        BY <3>1, <4>2, <4>3, <4>4
    <3>4. QED
      BY <1>10, <2>9, <3>2, <3>3
  <2>12. PICK a : a = Adapters!Newest(mm, StateMaxQueueSize)
    OBVIOUS
  <2>13. PICK b : b = Adapters!Newest(vv, StateMaxQueueSize)
    OBVIOUS
  <2>14. /\ a \in Seq(Entry) /\ Len(a) <= Len(mm)
         /\ StateMaxQueueSize > 0 => Len(a) = IF Len(mm) > StateMaxQueueSize THEN StateMaxQueueSize ELSE Len(mm)
         /\ StateMaxQueueSize <= 0 => Len(a) = Len(mm)
         /\ \A i \in 1..Len(a) : a[i] = mm[i + Len(mm) - Len(a)]
    BY <1>6, <2>9, <2>12, NewestEntries
  <2>15. /\ b \in Seq(Entry) /\ Len(b) <= Len(vv)
         /\ StateMaxQueueSize > 0 => Len(b) = IF Len(vv) > StateMaxQueueSize THEN StateMaxQueueSize ELSE Len(vv)
         /\ StateMaxQueueSize <= 0 => Len(b) = Len(vv)
         /\ \A i \in 1..Len(b) : b[i] = vv[i + Len(vv) - Len(b)]
    BY <1>6, <2>9, <2>13, NewestEntries
  <2>16. Len(a) \in Nat /\ Len(b) \in Nat /\ Len(mm) \in Nat /\ Len(vv) \in Nat
    BY <2>9, <2>14, <2>15
  <2>17. Len(b) <= Len(a)
    BY <1>6, <1>10, <2>5, <2>9, <2>14, <2>15, <2>16
  <2>18. \A i \in 1..Len(a) :
            /\ a[i].expires_at <= sa_now + EntryTtl
            /\ i - (Len(a) - Len(b)) >= 1 => a[i] = b[i - (Len(a) - Len(b))]
            /\ i - (Len(a) - Len(b)) < 1 => a[i].expires_at <= sa_now
    <3> SUFFICES ASSUME NEW i \in 1..Len(a)
                 PROVE  /\ a[i].expires_at <= sa_now + EntryTtl
                        /\ i - (Len(a) - Len(b)) >= 1 => a[i] = b[i - (Len(a) - Len(b))]
                        /\ i - (Len(a) - Len(b)) < 1 => a[i].expires_at <= sa_now
      OBVIOUS
    <3>1. PICK j : j = i + Len(mm) - Len(a)
      OBVIOUS
    <3>2. j \in Int /\ j \in 1..Len(mm) /\ a[i] = mm[j]
      BY <2>14, <2>16, <3>1
    <3>3. a[i].expires_at <= sa_now + EntryTtl
      BY <2>11, <3>2
    <3>4. ASSUME i - (Len(a) - Len(b)) >= 1 PROVE a[i] = b[i - (Len(a) - Len(b))]
      <4>1. PICK k : k = i - (Len(a) - Len(b))
        OBVIOUS
      <4>2. k \in Int /\ k \in 1..Len(b) /\ b[k] = vv[k + Len(vv) - Len(b)]
        BY <2>15, <2>16, <3>4, <4>1
      <4>2a. /\ Len(a) \in Nat /\ Len(b) \in Nat /\ Len(mm) \in Nat /\ Len(vv) \in Nat
             /\ i \in Int /\ Len(b) <= Len(vv)
        BY <2>15, <2>16
      <4>3. k + Len(vv) - Len(b) = j - (Len(mm) - Len(vv)) /\ j - (Len(mm) - Len(vv)) >= 1
        BY <3>1, <4>1, <4>2, <4>2a
      <4>4. QED
        BY <2>11, <3>2, <4>1, <4>2, <4>3
    <3>5. ASSUME i - (Len(a) - Len(b)) < 1 PROVE a[i].expires_at <= sa_now
      <4>1. j - (Len(mm) - Len(vv)) < 1
        BY <1>6, <2>9, <1>10, <2>5, <2>14, <2>15, <2>16, <3>1, <3>5, SMTT(30)
      <4>2. QED
        BY <2>11, <3>2, <4>1
    <3>6. QED
      BY <3>3, <3>4, <3>5
  <2>19. sa_memQueue' = a /\ sa_redisQueue' = [value |-> b, expires_at |-> sa_now + ttl]
    BY <2>3, <2>7, <2>8, <2>12, <2>13
  <2>20. sa_redisQueue'.value = b /\ sa_redisQueue'.expires_at = sa_now + ttl
    BY <2>19
  <2>21. QueueTypes'
    BY <1>6, <2>4, <2>14, <2>15, <2>19
  <2>22. \A i \in 1..Len(a) : a[i].expires_at \in Int
    <3>1. \A i \in 1..Len(a) : a[i] \in Entry
      BY <2>14
    <3>2. QED
      BY <3>1 DEF Entry
  <2>23. \A i \in 1..Len(a) : a[i].expires_at <= sa_now + ttl
    BY <1>6, <2>4, <2>18, <2>22
  <2>24. QueuesAgree'
    BY <1>2, <2>17, <2>18, <2>19, <2>20, <2>23 DEF QueuesAgree
  <2>25. Adapters!SameAnswers'
    BY <2>3 DEF Adapters!SameAnswers, Adapters!NoAnswers
  <2>26. QED
    BY <1>1, <1>3, <1>4, <1>5, <2>21, <2>24, <2>25
<1>21. CASE Adapters!Dequeue
  <2>1. PICK x : x = Adapters!Pending(m)
    OBVIOUS
  <2>2. /\ sa_memQueue' = Adapters!Rest(x)
        /\ sa_redisQueue' = [sa_redisQueue EXCEPT !.value = Adapters!Rest(Adapters!Pending(Adapters!Items(sa_redisQueue)))]
        /\ sa_answers' = <<Adapters!First(x), Adapters!First(Adapters!Pending(Adapters!Items(sa_redisQueue)))>>
        /\ sa_written' = sa_written
    BY <1>8, <1>21, <2>1 DEF Adapters!Dequeue
  <2>3. x = Adapters!Pending(Adapters!Items(sa_redisQueue)) /\ x \in Seq(Entry) /\ Len(x) <= Len(m)
        /\ (Adapters!Live(sa_redisQueue) \/ x = <<>>)
        /\ \A i \in 1..Len(x) : x[i] = m[i + Len(m) - Len(x)]
    <3>1. CASE \A i \in 1..Len(m) : ~Adapters!Live(m[i])
      <4>1. x = <<>>
        BY <1>10, <2>1, <3>1, NothingPending
      <4>2. Adapters!Items(sa_redisQueue) \in Seq(Entry)
        BY DEF Adapters!Items
      <4>3. \A i \in 1..Len(Adapters!Items(sa_redisQueue)) : ~Adapters!Live(Adapters!Items(sa_redisQueue)[i])
        <5> SUFFICES ASSUME NEW i \in 1..Len(r),
                  Adapters!Items(sa_redisQueue) = r PROVE ~Adapters!Live(r[i])
          BY <1>9, <1>10 DEF Adapters!Items
        <5>1. i + (Len(m) - Len(r)) \in 1..Len(m)
          BY <1>10
        <5>2. m[i + (Len(m) - Len(r))] = r[i]
          BY <1>10, <1>11, <5>1
        <5>3. QED
          BY <3>1, <5>1, <5>2
      <4>4. Adapters!Pending(Adapters!Items(sa_redisQueue)) = <<>>
        BY <4>2, <4>3, NothingPending
      <4>5. QED
        BY <1>10, <4>1, <4>4
    <3>2. CASE \E i \in 1..Len(m) : Adapters!Live(m[i])
      <4>1. Adapters!Live(sa_redisQueue) /\ Adapters!Items(sa_redisQueue) = r
        BY <1>6, <1>9, <1>11, <1>12, <3>2 DEF Adapters!Live, Adapters!Items
      <4> DEFINE L == {i \in 1..Len(m) : Adapters!Live(m[i])}
      <4>2. L # {} /\ L \subseteq Nat
        BY <3>2
      <4>3. PICK n \in L : \A y \in L : y >= n
        <5> HIDE DEF L
        <5>1. QED
          BY <4>2, LeastMember
      <4>4. n \in 1..Len(m) /\ Adapters!Live(m[n]) /\ \A i \in 1..(n - 1) : ~Adapters!Live(m[i])
        BY <1>10, <4>3
      <4>5. x = SubSeq(m, n, Len(m))
        BY <1>10, <2>1, <4>4, PendingEntries
      <4>6. PICK k : k = n - (Len(m) - Len(r))
        OBVIOUS
      <4>7. k \in Int /\ k \in 1..Len(r) /\ m[n] = r[k]
        <5>1. ~(m[n].expires_at <= sa_now)
          BY <1>6, <1>11, <4>4 DEF Adapters!Live
        <5>2. k \in Int /\ k <= Len(r)
          BY <1>10, <4>4, <4>6
        <5>3. k >= 1 /\ m[n] = r[k]
          <6>1. k >= 1 => m[n] = r[k]
            BY <1>11, <4>4, <4>6
          <6>2. k < 1 => m[n].expires_at <= sa_now
            BY <1>11, <4>4, <4>6
          <6>3. QED
            BY <5>1, <5>2, <6>1, <6>2
        <5>4. QED
          BY <1>10, <5>2, <5>3
      <4>8. \A i \in 1..(k - 1) : ~Adapters!Live(r[i])
        <5> SUFFICES ASSUME NEW i \in 1..(k - 1) PROVE ~Adapters!Live(r[i])
          OBVIOUS
        <5>0. i \in Int /\ i >= 1 /\ n \in Int /\ k \in Int
          BY <1>10, <4>4, <4>7
        <5>1. i + (Len(m) - Len(r)) \in 1..(n - 1)
          BY <1>10, <4>4, <4>6, <5>0
        <5>1a. /\ i + (Len(m) - Len(r)) \in 1..Len(m)
               /\ (i + (Len(m) - Len(r))) - (Len(m) - Len(r)) = i
          BY <1>10, <4>4, <5>0, <5>1
        <5>2. m[i + (Len(m) - Len(r))] = r[i]
          BY <1>11, <5>0, <5>1a
        <5>3. QED
          BY <4>4, <5>1, <5>2
      <4>9. Adapters!Pending(r) = SubSeq(r, k, Len(r))
        BY <1>10, <4>4, <4>7, <4>8, PendingEntries
      <4>10. PICK z : z = SubSeq(r, k, Len(r))
        OBVIOUS
      <4>11. /\ x \in Seq(Entry) /\ Len(x) = Len(m) - n + 1
             /\ \A i \in 1..Len(x) : x[i] = m[i + n - 1]
        BY <1>10, <4>4, <4>5, SMTT(30)
      <4>12. /\ z \in Seq(Entry) /\ Len(z) = Len(r) - k + 1
             /\ \A i \in 1..Len(z) : z[i] = r[i + k - 1]
        BY <1>10, <4>7, <4>10, SMTT(30)
      <4>13. Len(x) = Len(z) /\ Len(x) \in Nat
        BY <1>10, <4>4, <4>6, <4>11, <4>12
      <4>14. \A i \in 1..Len(x) : x[i] = z[i] /\ x[i] = m[i + Len(m) - Len(x)]
        <5> SUFFICES ASSUME NEW i \in 1..Len(x) PROVE x[i] = z[i] /\ x[i] = m[i + Len(m) - Len(x)]
          OBVIOUS
        <5>0. i \in Int /\ n \in Int /\ k \in Int /\ i >= 1 /\ n >= 1 /\ k >= 1
                  /\ i <= Len(m) - n + 1
          BY <1>10, <4>4, <4>7, <4>11, <4>13
        <5>1. i + n - 1 \in 1..Len(m) /\ (i + n - 1) - (Len(m) - Len(r)) = i + k - 1
                  /\ i + k - 1 >= 1
          BY <1>10, <4>6, <5>0
        <5>1a. i + Len(m) - Len(x) = i + n - 1
          BY <1>10, <4>11, <5>0
        <5>2. m[i + n - 1] = r[i + k - 1]
          BY <1>11, <5>1
        <5>3. QED
          BY <4>11, <4>12, <4>13, <5>1a, <5>2
      <4>15. x = z
        <5>1. x \in [1..Len(x) -> Entry] /\ z \in [1..Len(x) -> Entry]
          BY <4>11, <4>12, <4>13
        <5>2. QED
          BY <4>14, <5>1
      <4>16. x = Adapters!Pending(Adapters!Items(sa_redisQueue))
        BY <4>1, <4>9, <4>10, <4>15
      <4>17. x \in Seq(Entry) /\ Len(x) <= Len(m)
        BY <1>10, <4>4, <4>11
      <4>18. QED
        BY <4>1, <4>14, <4>16, <4>17
    <3>3. QED
      BY <3>1, <3>2
  <2>4. PICK y : y = Adapters!Rest(x)
    OBVIOUS
  <2>5. /\ y \in Seq(Entry) /\ Len(y) \in Nat /\ Len(y) <= Len(m)
        /\ \A i \in 1..Len(y) : y[i] = m[i + Len(m) - Len(y)]
        /\ (Adapters!Live(sa_redisQueue) \/ y = <<>>)
    <3>1. CASE x = <<>>
      BY <1>10, <2>4, <3>1 DEF Adapters!Rest
    <3>2. CASE x # <<>>
      <4>1. y = Tail(x) /\ Len(x) > 0
        BY <2>3, <2>4, <3>2 DEF Adapters!Rest
      <4>2. y \in Seq(Entry) /\ Len(y) = Len(x) - 1 /\ \A i \in 1..Len(y) : y[i] = x[i + 1]
        BY <2>3, <4>1
      <4>3. \A i \in 1..Len(y) : i + 1 \in 1..Len(x)
                /\ (i + 1) + Len(m) - Len(x) = i + Len(m) - Len(y)
        BY <1>10, <2>3, <4>1, <4>2
      <4>4. \A i \in 1..Len(y) : y[i] = m[i + Len(m) - Len(y)]
        BY <2>3, <4>2, <4>3
      <4>5. QED
        BY <1>10, <2>3, <3>2, <4>1, <4>2, <4>4
    <3>3. QED
      BY <3>1, <3>2
  <2>6. sa_memQueue' = y /\ sa_redisQueue' = [sa_redisQueue EXCEPT !.value = y]
    BY <2>2, <2>3, <2>4
  <2>7. sa_redisQueue'.value = y /\ sa_redisQueue'.expires_at = sa_redisQueue.expires_at
    BY <2>6
  <2>8. QueueTypes'
    BY <2>5, <2>6
  <2>9. \A i \in 1..Len(y) : y[i].expires_at <= sa_now + EntryTtl
            /\ y[i].expires_at <= sa_redisQueue.expires_at
    <3> SUFFICES ASSUME NEW i \in 1..Len(y)
                 PROVE  y[i].expires_at <= sa_now + EntryTtl
                       /\ y[i].expires_at <= sa_redisQueue.expires_at
      OBVIOUS
    <3>1. i + Len(m) - Len(y) \in 1..Len(m) /\ y[i] = m[i + Len(m) - Len(y)]
      BY <1>10, <2>5
    <3>2. Adapters!Live(sa_redisQueue)
      BY <2>5
    <3>3. sa_redisQueue.expires_at \in Int /\ sa_now < sa_redisQueue.expires_at
      BY <1>6, <3>2 DEF Adapters!Live
    <3>4. PICK j : j = i + Len(m) - Len(y)
      OBVIOUS
    <3>5. j \in 1..Len(m) /\ y[i] = m[j]
      BY <3>1, <3>4
    <3>6. CASE j - (Len(m) - Len(r)) >= 1
      BY <1>11, <3>5, <3>6
    <3>7. CASE j - (Len(m) - Len(r)) < 1
      BY <1>6, <1>11, <3>3, <3>5, <3>7
    <3>8. QED
      BY <1>10, <3>5, <3>6, <3>7
  <2>10. QueuesAgree'
    BY <1>2, <2>5, <2>6, <2>7, <2>9 DEF QueuesAgree
  <2>11. Adapters!SameAnswers'
    BY <2>2, <2>3 DEF Adapters!SameAnswers
  <2>12. QED
    BY <1>1, <1>3, <1>4, <1>5, <2>8, <2>10, <2>11
<1>22. QED
  BY <1>20, <1>21

LEMMA AdapterStep == AdapterInv /\ [Adapters!Next]_Adapters!vars => AdapterInv'
<1> SUFFICES ASSUME AdapterInv, [Adapters!Next]_Adapters!vars PROVE AdapterInv'
  OBVIOUS
<1>1. CASE Adapters!Tick
  BY <1>1, TickKeeps
<1>2. ASSUME NEW k \in StateKey, Adapters!Get(k) \/ Adapters!Delete(k)
          \/ \E ttl \in StateTtl : Adapters!SetKey(k, ttl) \/ Adapters!SetIfNotExists(k, ttl)
      PROVE  AdapterInv'
  <2>1. StateTtl \subseteq Nat /\ 0 \in Nat
    BY AdapterConstants
  <2>2. CASE Adapters!Get(k) \/ Adapters!Delete(k)
    BY <2>1, <2>2, CacheKeeps
  <2>3. ASSUME NEW ttl \in StateTtl, Adapters!SetKey(k, ttl)
            \/ Adapters!SetIfNotExists(k, ttl) PROVE AdapterInv'
    BY <2>1, <2>3, CacheKeeps
  <2>4. QED
    BY <1>2, <2>2, <2>3
<1>3. CASE Adapters!AppendToList \/ Adapters!DeleteHistory \/ Adapters!GetList
  BY <1>3, ListKeeps
<1>4. CASE Adapters!Enqueue \/ Adapters!Dequeue
  BY <1>4, QueueKeeps
<1>5. CASE \/ Adapters!ForceReleaseLock
          \/ \E w \in LockWorker : Adapters!ReleaseLock(w)
                \/ \E ttl \in StateTtl \ {0} : Adapters!AcquireLock(w, ttl)
                      \/ Adapters!ExtendLock(w, ttl)
  BY <1>5, LockKeeps
<1>6. CASE UNCHANGED Adapters!vars
  <2> USE <1>6 DEF Adapters!vars, Adapters!cache, Adapters!lists, Adapters!queues,
                   Adapters!locks, AdapterInv
  <2>1. AdapterTypes'
    BY DEF AdapterTypes, CacheTypes, ListTypes, QueueTypes, LockTypes
  <2>2. CachesAgree' /\ ListsAgree' /\ QueuesAgree' /\ TokensAreFresh'
            /\ Adapters!GrantsAreKept' /\ Adapters!SameAnswers'
    BY DEF CachesAgree, ListsAgree, Adapters!ListTtl, Adapters!Never, QueuesAgree,
           TokensAreFresh, Adapters!GrantsAreKept, Adapters!SameAnswers
  <2>3. QED
    BY <2>1, <2>2
<1>7. QED
  BY <1>1, <1>2, <1>3, <1>4, <1>5, <1>6 DEF Adapters!Next

LEMMA GrantsAreExclusive == AdapterInv => Adapters!BackendsKeepFaith
<1> SUFFICES ASSUME AdapterInv PROVE Adapters!OneGrantAtATime
  BY DEF AdapterInv, Adapters!BackendsKeepFaith
<1>1. QED
  BY DEF AdapterInv, AdapterTypes, LockTypes, TokensAreFresh, Adapters!GrantsAreKept,
         Adapters!OneGrantAtATime

\* The part of the run that is the adapters: the others leave it alone.
LEMMA AdaptersOfTheRun == SharedStateSpec => Adapters!Init /\ [][Adapters!Next]_Adapters!vars
<1>1. SharedStateInit => Adapters!Init
  BY DEF SharedStateInit
<1>2. [SharedStateNext]_<<part, vars, turnVars, modalVars, saVars, pgVars>>
          => [Adapters!Next]_Adapters!vars
  BY DEF SharedStateNext, saVars, Adapters!vars, Adapters!cache, Adapters!lists, Adapters!queues, Adapters!locks
<1>3. QED
  BY <1>1, <1>2, PTL DEF SharedStateSpec

\* For all keys, TTLs and limits: memory and Redis answer every operation alike, and a
\* lock that one worker was promised is no other's until its time is up.
THEOREM BackendsKeepTheirFaith == SharedStateSpec => []BackendsKeepFaith
<1>1. AdapterInv => BackendsKeepFaith
  BY GrantsAreExclusive DEF BackendsKeepFaith
<1>2. QED
  BY <1>1, AdaptersOfTheRun, AdapterInit, AdapterStep, PTL

-----------------------------------------------------------------------------
\* The Postgres adapter and its clients

\* The module's own names of what FiniteSets defines.
LEMMA SameCount ==
    /\ \A S : Postgres!Cardinality(S) = Cardinality(S)
    /\ \A S : Postgres!IsFiniteSet(S) <=> IsFiniteSet(S)
<1>1. ASSUME NEW S PROVE Postgres!Cardinality(S) = Cardinality(S)
  BY DEF Postgres!Cardinality, Cardinality
<1>2. ASSUME NEW S PROVE Postgres!IsFiniteSet(S) <=> IsFiniteSet(S)
  BY DEF Postgres!IsFiniteSet, IsFiniteSet
<1>3. QED
  BY <1>1, <1>2

LEMMA StoreConstants ==
    /\ NoOne \notin StoreClient /\ IsFiniteSet(StoreClient)
    /\ RowTtl \in Int /\ StoreMaxQueueSize \in Nat \ {0} /\ StoreMaxLength \in Nat \ {0}
BY SameCount, SharedAssumption DEF SharedAssumption, Postgres!PostgresAssumption


-----------------------------------------------------------------------------
\* What ORDER BY seq LIMIT n chooses of a set of rows.

Distinct(set) ==
    /\ IsFiniteSet(set)
    /\ \A r \in set : r.seq \in Nat
    /\ \A r, q \in set : r.seq = q.seq => r = q

LEMMA SeqsCount ==
    ASSUME NEW set, Distinct(set)
    PROVE  IsFiniteSet(Postgres!Seqs(set)) /\ Cardinality(Postgres!Seqs(set)) = Cardinality(set)
<1> DEFINE f == [r \in set |-> r.seq]
<1>0. f \in [set -> Postgres!Seqs(set)]
  BY DEF Postgres!Seqs
<1>0a. \A a, b \in set : f[a] = f[b] => a = b
  BY DEF Distinct
<1>0b. \A t \in Postgres!Seqs(set) : \E r \in set : f[r] = t
  BY DEF Postgres!Seqs
<1> HIDE DEF f
<1>1. f \in Bijection(set, Postgres!Seqs(set))
  BY <1>0, <1>0a, <1>0b DEF Bijection, Injection, IsInjective, Surjection
<1>2. ExistsBijection(set, Postgres!Seqs(set))
  BY <1>1 DEF ExistsBijection
<1>3. QED
  BY <1>2, FS_Bijection DEF Distinct

LEMMA DistinctParts ==
    ASSUME NEW set, Distinct(set), NEW few \in SUBSET set
    PROVE  Distinct(few)
BY FS_Subset DEF Distinct

\* Around a row are the older ones and the newer ones.
Older(set, r) == {o \in set : o.seq < r.seq}
Newer(set, r) == {o \in set : o.seq > r.seq}

LEMMA OldestRows ==
    ASSUME NEW set, NEW n
    PROVE  Postgres!Oldest(set, n) = {r \in set : Cardinality(Older(set, r)) < n}
BY SameCount DEF Postgres!Oldest, Older

LEMMA OlderAndNewer ==
    ASSUME NEW set, Distinct(set), NEW r \in set
    PROVE  /\ IsFiniteSet(Older(set, r))
           /\ IsFiniteSet(Newer(set, r))
           /\ Cardinality(Older(set, r)) \in Nat
           /\ Cardinality(Newer(set, r)) \in Nat
           /\ Cardinality(set) = Cardinality(Older(set, r))
                                 + Cardinality(Newer(set, r)) + 1
<1> DEFINE A == Older(set, r)
           B == Newer(set, r)
<1>1. A \in SUBSET set /\ B \in SUBSET set /\ IsFiniteSet(set)
  BY DEF Distinct, Older, Newer
<1>2. IsFiniteSet(A) /\ IsFiniteSet(B)
  BY <1>1, FS_Subset
<1>3. A \cap B = {} /\ r \notin A \cup B /\ set = (A \cup B) \cup {r}
  BY DEF Distinct, Older, Newer
<1> HIDE DEF A, B
<1>4. Cardinality(A) \in Nat /\ Cardinality(B) \in Nat
  BY <1>2, FS_CardinalityType
<1>5. IsFiniteSet(A \cup B) /\ Cardinality(A \cup B) = Cardinality(A) + Cardinality(B) - Cardinality(A \cap B)
  BY <1>2, FS_Union
<1>6. Cardinality(A \cap B) = 0
  BY <1>3, FS_EmptySet
<1>7. Cardinality((A \cup B) \cup {r}) = Cardinality(A \cup B) + 1
  BY <1>3, <1>5, FS_AddElement
<1>8. Cardinality(set) = Cardinality(A) + Cardinality(B) + 1
  BY <1>3, <1>4, <1>5, <1>6, <1>7
<1>9. QED
  BY <1>2, <1>4, <1>8 DEF A, B

LEMMA OldestHaveNewer ==
    ASSUME NEW set, Distinct(set), NEW n \in Int, NEW r \in Postgres!Oldest(set, n)
    PROVE  Cardinality(Newer(set, r)) >= Cardinality(set) - n
<1>1. r \in set /\ Cardinality(Older(set, r)) < n
  BY OldestRows
<1>2. QED
  BY <1>1, OlderAndNewer

LEMMA OldestAreEnough ==
    ASSUME NEW set, Distinct(set), NEW n \in Int, n <= Cardinality(set)
    PROVE  /\ IsFiniteSet(set \ Postgres!Oldest(set, n))
           /\ Cardinality(set \ Postgres!Oldest(set, n)) <= Cardinality(set) - n
<1> DEFINE old == Postgres!Oldest(set, n)
           rest == set \ old
<1>1. IsFiniteSet(set) /\ old \in SUBSET set /\ rest \in SUBSET set
  BY DEF Postgres!Oldest, Distinct
<1>2. IsFiniteSet(old) /\ IsFiniteSet(rest)
  BY <1>1, FS_Subset
<1>3. Cardinality(old) \in Nat /\ Cardinality(rest) \in Nat /\ Cardinality(set) \in Nat
  BY <1>1, <1>2, FS_CardinalityType
<1>4. Cardinality(set) = Cardinality(old) + Cardinality(rest)
  <2>1. old \cup rest = set /\ old \cap rest = {}
    BY <1>1
  <2> HIDE DEF old, rest
  <2>2. Cardinality(old \cup rest) = Cardinality(old) + Cardinality(rest) - Cardinality(old \cap rest)
    BY <1>2, FS_Union
  <2>3. Cardinality(old \cap rest) = 0
    BY <2>1, FS_EmptySet
  <2>4. QED
    BY <1>3, <2>1, <2>2, <2>3
<1>5. CASE rest = {}
  <2>1. Cardinality(rest) = 0
    BY <1>5, FS_EmptySet
  <2>2. QED
    BY <1>2, <1>3, <2>1
<1>6. CASE rest # {}
  <2> DEFINE T == {r.seq : r \in rest}
  <2>1. T \subseteq Nat /\ T # {}
    BY <1>1, <1>6 DEF Distinct
  <2> HIDE DEF T
  <2>2. PICK m \in T : \A y \in T : m <= y
    BY <2>1, LeastMember
  <2>3. PICK r \in rest : r.seq = m
    BY <2>2 DEF T
  <2>4. \A o \in rest : ~(o.seq < r.seq)
    BY <1>1, <2>2, <2>3 DEF T, Distinct
  <2> DEFINE low == Older(set, r)
  <2>5. low \in SUBSET old
    BY <2>4 DEF Older
  <2>6. Cardinality(low) <= Cardinality(old)
    BY <1>2, <2>5, FS_Subset
  <2>7. ~(Cardinality(low) < n)
    BY <2>3, OldestRows
  <2>8. Cardinality(low) \in Nat
    BY <1>1, <2>3, OlderAndNewer
  <2> HIDE DEF low, old, rest
  <2>9. QED
    BY <1>2, <1>3, <1>4, <2>6, <2>7, <2>8 DEF old, rest
<1>7. QED
  BY <1>5, <1>6

\* A limit of one or more keeps the newest row.
LEMMA NewestStays ==
    ASSUME NEW set, Distinct(set), set # {}, NEW k \in Nat \ {0},
           NEW b \in Nat, \A r \in set : r.seq <= b
    PROVE  \E m \in set \ Postgres!Oldest(set, Cardinality(set) - k) : \A o \in set : o.seq <= m.seq
<1> DEFINE T == {b - r.seq : r \in set}
<1>1. T \subseteq Nat /\ T # {}
  BY DEF Distinct
<1> HIDE DEF T
<1>2. PICK t \in T : \A y \in T : t <= y
  BY <1>1, LeastMember
<1> USE DEF T
<1>2a. PICK m \in set : t = b - m.seq
  OBVIOUS
<1>3. \A o \in set : o.seq <= m.seq
  <2> SUFFICES ASSUME NEW o \in set PROVE o.seq <= m.seq
    OBVIOUS
  <2>1. t <= b - o.seq
    BY <1>2
  <2>2. m.seq \in Nat /\ o.seq \in Nat
    BY DEF Distinct
  <2>3. QED
    BY <1>2a, <2>1, <2>2
<1>4. Newer(set, m) = {}
  BY <1>3 DEF Distinct, Newer
<1>5. Cardinality(Newer(set, m)) = 0
  BY <1>4, FS_EmptySet
<1>6. Cardinality(set) \in Nat /\ Cardinality(Older(set, m)) = Cardinality(set) - 1
  BY <1>5, OlderAndNewer, FS_CardinalityType DEF Distinct
<1>7. m \notin Postgres!Oldest(set, Cardinality(set) - k)
  BY <1>6, OldestRows
<1>8. QED
  BY <1>3, <1>7

\* A limit of one keeps nothing else.
LEMMA OnlyTheNewest ==
    ASSUME NEW set, Distinct(set), NEW r \in set \ Postgres!Oldest(set, Cardinality(set) - 1),
          NEW o \in set
    PROVE  o.seq <= r.seq
<1>1. r.seq \in Nat /\ o.seq \in Nat /\ IsFiniteSet(set) /\ Cardinality(set) \in Nat
  BY FS_CardinalityType DEF Distinct
<1>2. Cardinality(Older(set, r)) >= Cardinality(set) - 1
  BY <1>1, OlderAndNewer, OldestRows
<1>3. Cardinality(Newer(set, r)) = 0
  BY <1>1, <1>2, OlderAndNewer
<1>4. Newer(set, r) = {}
  BY <1>3, OlderAndNewer, FS_EmptySet
<1>5. QED
  BY <1>1, <1>4 DEF Newer
-----------------------------------------------------------------------------
\* The inductive invariant.

Open == {"choose", "trim", "commit"}
QueueLabel == {"purge", "insert", "clean", "pick", "take"} \cup Open
ListLabel == {"append", "shorten", "touch", "bury", "evict", "wiping"}

Row == [seq : Nat, expires_at : Int, by : StoreClient \cup {NoOne}, gone : StoreClient \cup {NoOne}]

TableTypes ==
    /\ pg_now \in Nat /\ pg_seq \in Nat
    /\ pg_rows \subseteq Row /\ IsFiniteSet(pg_rows)
    /\ pg_committed \subseteq 0..pg_seq

ClientTypes ==
    /\ pg_pc \in [StoreClient -> {"idle", "tidy"} \cup QueueLabel \cup ListLabel]
    /\ pg_begun \in [StoreClient -> Nat]
    /\ pg_picked \in [StoreClient -> SUBSET (0..pg_seq)]
    /\ pg_taken \in [StoreClient -> SUBSET (0..pg_seq)]
    /\ pg_erased \in [StoreClient -> SUBSET (0..pg_seq)]
    /\ pg_wiped \subseteq 0..pg_seq

RecordTypes == pg_record.expires_at \in Int /\ pg_promised.expires_at \in Int

StagesFitKind ==
    \A c \in StoreClient : /\ pg_begun[c] <= pg_now
                           /\ pg_pc[c] \in QueueLabel => pg_kind = "queue"
                           /\ pg_pc[c] \in ListLabel => pg_kind = "list"

\* A row has its number, and is committed unless its transaction is open.
RowsAreNumbered ==
    /\ \A r \in pg_rows : r.seq <= pg_seq
    /\ \A r, q \in pg_rows : r.seq = q.seq => r = q
    /\ \A r \in pg_rows : r.by = NoOne => r.seq \in pg_committed

\* A row that a transaction inserted is its only one, and nobody else's to delete.
InsertsArePrivate ==
    /\ \A r \in pg_rows : r.by # NoOne => pg_pc[r.by] \in Open /\ r.gone \in {NoOne, r.by}
    /\ \A r, q \in pg_rows : r.by = q.by /\ r.by # NoOne => r = q

\* What a transaction deletes had expired when it began, or is what it has picked.
DeletesAreMeant ==
    \A r \in pg_rows : r.gone # NoOne =>
        /\ pg_pc[r.gone] \in {"insert"} \cup Open
        /\ \/ r.expires_at <= pg_begun[r.gone]
           \/ pg_pc[r.gone] = "commit" /\ r.seq \in pg_picked[r.gone]

\* What a client picked it could see, and what it is about to commit is marked.
PickedWereSeen ==
    \A c \in StoreClient : \A r \in pg_rows : r.seq \in pg_picked[c] =>
        /\ r.by \in {NoOne, c}
        /\ pg_pc[c] = "commit" => r.gone = c

RowsInv == RowsAreNumbered /\ InsertsArePrivate /\ DeletesAreMeant /\ PickedWereSeen

Own(c) == {r \in pg_rows : r.by = c}

\* What a transaction is about to trim has enough newer rows, its own included.
PicksAreOld ==
    \A c \in StoreClient : pg_pc[c] \in {"trim", "commit"} =>
        \A s \in pg_picked[c] :
            Cardinality({t \in pg_committed \cup Postgres!Seqs(Own(c)) : t > s}) >= StoreMaxQueueSize

TrimInv == PicksAreOld /\ Postgres!TrimmedForNewer

TakenInv == Postgres!NobodyTakesTwice /\ \A c \in StoreClient : pg_taken[c] \cap Postgres!Seqs(pg_rows) = {}

\* There is something newer than what a deletion is to wipe, until it is wiped.
WipeInv ==
    /\ Postgres!WipedIsGone
    /\ \A c \in StoreClient : pg_pc[c] = "evict" =>
          \E r \in pg_rows : \A s \in pg_erased[c] : s < r.seq
    /\ \A c \in StoreClient : pg_pc[c] = "wiping" => pg_erased[c] \cap Postgres!Seqs(pg_rows) = {}

\* The live queue, and what it would be if c committed now.
Queued == Postgres!Seqs({r \in pg_rows : r.by = NoOne /\ r.expires_at > pg_now})
Would(c) == Postgres!Seqs({r \in pg_rows : r.by \in {NoOne, c}
      /\ r.expires_at > pg_now}) \ pg_picked[c]

\* Transactions that have chosen what to trim, in the order in which they chose.
Chosen == {c \in StoreClient : pg_pc[c] \in {"trim", "commit"}}
Before(rank, n) == {c \in Chosen : rank[c] < n}

Bound == StoreMaxQueueSize + Cardinality(StoreClient) - 1

\* Of the transactions that have committed, the one that chose last left no more than
\* the limit; each other client has since added one at most, or may still do so if it
\* chose before.  The same holds of every open one that chose later, once it commits.
InOrder(rank, base, top) ==
    /\ base <= top
    /\ \A c \in StoreClient : rank[c] <= top
    /\ \A c, d \in Chosen : rank[c] = rank[d] => c = d
    /\ Cardinality(Queued) + Cardinality(Before(rank, base)) <= Bound
    /\ \A c \in Chosen : rank[c] >= base =>
           Cardinality(Would(c)) + Cardinality(Before(rank, rank[c])) <= Bound

OvershootInv ==
    pg_kind = "queue" =>
        \E rank \in [StoreClient -> Nat], base \in Nat, top \in Nat : InOrder(rank, base, top)

StoreInv ==
    /\ TableTypes /\ ClientTypes /\ RecordTypes /\ StagesFitKind /\ RowsInv
    /\ TrimInv /\ TakenInv /\ WipeInv /\ Postgres!PromisedIsKept /\ OvershootInv

-----------------------------------------------------------------------------
\* Sets of numbers of rows are finite.

LEMMA BoundedIsFinite ==
    ASSUME NEW n \in Nat, NEW S \in SUBSET (0..n)
    PROVE  IsFiniteSet(S) /\ Cardinality(S) \in Nat
<1>1. IsFiniteSet(0..n)
  BY FS_Interval
<1>2. IsFiniteSet(S)
  BY <1>1, FS_Subset
<1>3. QED
  BY <1>2, FS_CardinalityType

LEMMA SmallerIsFewer ==
    ASSUME NEW S, IsFiniteSet(S), NEW T \in SUBSET S
    PROVE  /\ IsFiniteSet(T) /\ Cardinality(T) \in Nat /\ Cardinality(S) \in Nat
           /\ Cardinality(T) <= Cardinality(S)
BY FS_Subset, FS_CardinalityType

LEMMA SeqsAreBounded == TableTypes /\ RowsAreNumbered => Postgres!Seqs(pg_rows) \subseteq 0..pg_seq
BY DEF TableTypes, RowsAreNumbered, Postgres!Seqs, Row

\* Rows that are rewritten keep their numbers.
LEMMA MappedRows ==
    ASSUME TableTypes, RowsAreNumbered, NEW S \in SUBSET pg_rows, NEW g \in [S -> Row],
           \A r \in S : g[r].seq = r.seq, pg_rows' = {g[r] : r \in S}
    PROVE  /\ pg_rows' \subseteq Row /\ IsFiniteSet(pg_rows')
           /\ Postgres!Seqs(pg_rows') = Postgres!Seqs(S)
           /\ Postgres!Seqs(pg_rows') \subseteq Postgres!Seqs(pg_rows)
           /\ \A r, q \in pg_rows' : r.seq = q.seq => r = q
           /\ \A q \in pg_rows' : q.seq <= pg_seq
<1>1. IsFiniteSet(S)
  BY FS_Subset DEF TableTypes
<1>2. g \in Surjection(S, pg_rows')
  BY DEF Surjection
<1>3. IsFiniteSet(pg_rows')
  BY <1>1, <1>2, FS_Surjection
<1>4. pg_rows' \subseteq Row
  OBVIOUS
<1>5. Postgres!Seqs(pg_rows') = Postgres!Seqs(S)
          /\ Postgres!Seqs(pg_rows') \subseteq Postgres!Seqs(pg_rows)
  BY DEF Postgres!Seqs
<1>6. \A r, q \in pg_rows' : r.seq = q.seq => r = q
  BY DEF RowsAreNumbered
<1>7. \A q \in pg_rows' : q.seq <= pg_seq
  BY DEF RowsAreNumbered
<1>8. QED
  BY <1>3, <1>4, <1>5, <1>6, <1>7

\* Rows that go leave the others as they are.
LEMMA FewerRows ==
    ASSUME TableTypes, RowsAreNumbered, pg_rows' \subseteq pg_rows
    PROVE  /\ pg_rows' \subseteq Row /\ IsFiniteSet(pg_rows')
           /\ Postgres!Seqs(pg_rows') \subseteq Postgres!Seqs(pg_rows)
           /\ \A r, q \in pg_rows' : r.seq = q.seq => r = q
           /\ \A q \in pg_rows' : q.seq <= pg_seq
BY FS_Subset DEF TableTypes, RowsAreNumbered, Postgres!Seqs

\* What is not said of rows that have gone stays true.
LEMMA SettledKeep ==
    ASSUME StoreInv, pg_seq' \in Nat, pg_seq' >= pg_seq,
          Postgres!Seqs(pg_rows') \subseteq Postgres!Seqs(pg_rows) \cup ((pg_seq + 1)..pg_seq'),
           pg_taken' = pg_taken, pg_wiped' = pg_wiped
    PROVE  TakenInv' /\ Postgres!WipedIsGone'
<1> USE DEF StoreInv, TableTypes, ClientTypes
<1>1. TakenInv'
  BY DEF TakenInv, Postgres!NobodyTakesTwice
<1>2. Postgres!WipedIsGone'
  BY DEF WipeInv, Postgres!WipedIsGone
<1>3. QED
  BY <1>1, <1>2

\* What is about to be trimmed keeps its newer rows.
LEMMA PicksKeep ==
    ASSUME StoreInv, TableTypes', RowsAreNumbered', pg_committed \subseteq pg_committed',
           \A c \in StoreClient : pg_pc'[c] \in {"trim", "commit"} =>
               /\ pg_pc[c] \in {"trim", "commit"} /\ pg_picked'[c] = pg_picked[c]
               /\ Postgres!Seqs(Own(c)) \subseteq Postgres!Seqs(Own(c))'
    PROVE  PicksAreOld'
<1> SUFFICES ASSUME NEW c \in StoreClient, pg_pc'[c] \in {"trim", "commit"}, NEW s \in pg_picked'[c]
             PROVE  Cardinality({t \in pg_committed' \cup Postgres!Seqs(Own(c))' : t > s}) >= StoreMaxQueueSize
  BY DEF PicksAreOld
<1> DEFINE S == {t \in pg_committed \cup Postgres!Seqs(Own(c)) : t > s}
           T == {t \in pg_committed' \cup Postgres!Seqs(Own(c))' : t > s}
<1>1. S \subseteq T
  OBVIOUS
<1>2. T \subseteq 0..pg_seq' /\ pg_seq' \in Nat
  <2>1. pg_seq' \in Nat /\ pg_committed' \subseteq 0..pg_seq'
    BY DEF TableTypes
  <2>2. \A r \in pg_rows' : r.seq \in 0..pg_seq'
    BY DEF TableTypes, RowsAreNumbered, Row
  <2>3. Postgres!Seqs(Own(c))' \subseteq 0..pg_seq'
    BY <2>2 DEF Postgres!Seqs, Own
  <2>4. QED
    BY <2>1, <2>3
<1>3. Cardinality(S) >= StoreMaxQueueSize
  BY DEF StoreInv, TrimInv, PicksAreOld
<1> HIDE DEF S, T
<1>4. IsFiniteSet(T)
  BY <1>2, BoundedIsFinite
<1>5. Cardinality(S) \in Nat /\ Cardinality(T) \in Nat /\ Cardinality(S) <= Cardinality(T)
  BY <1>1, <1>4, SmallerIsFewer
<1>6. Cardinality(T) >= StoreMaxQueueSize
  BY <1>3, <1>5, StoreConstants
<1>7. QED
  BY <1>6 DEF T

\* And so does what has been trimmed.
LEMMA TrimmedKeep ==
    ASSUME StoreInv, TableTypes', pg_committed \subseteq pg_committed', NEW s \in pg_trimmed
    PROVE  Cardinality({t \in pg_committed' : t > s})
               >= IF pg_kind = "queue" THEN StoreMaxQueueSize ELSE StoreMaxLength
<1> DEFINE limit == IF pg_kind = "queue" THEN StoreMaxQueueSize ELSE StoreMaxLength
           S == {t \in pg_committed : t > s}
           T == {t \in pg_committed' : t > s}
<1>1. S \subseteq T /\ T \subseteq 0..pg_seq' /\ pg_seq' \in Nat
  BY DEF TableTypes
<1>2. Cardinality(S) >= limit /\ limit \in Nat
  BY SameCount, StoreConstants DEF StoreInv, TrimInv, Postgres!TrimmedForNewer
<1> HIDE DEF S, T, limit
<1>3. IsFiniteSet(T)
  BY <1>1, BoundedIsFinite
<1>4. Cardinality(S) \in Nat /\ Cardinality(T) \in Nat /\ Cardinality(S) <= Cardinality(T)
  BY <1>1, <1>3, SmallerIsFewer
<1>5. Cardinality(T) >= limit
  BY <1>2, <1>4
<1>6. QED
  BY <1>5 DEF T, limit

LEMMA TrimsKeep ==
    ASSUME StoreInv, TableTypes', RowsAreNumbered', pg_kind' = pg_kind,
          pg_committed \subseteq pg_committed', pg_trimmed' = pg_trimmed,
           \A c \in StoreClient : pg_pc'[c] \in {"trim", "commit"} =>
               /\ pg_pc[c] \in {"trim", "commit"} /\ pg_picked'[c] = pg_picked[c]
               /\ Postgres!Seqs(Own(c)) \subseteq Postgres!Seqs(Own(c))'
    PROVE  TrimInv'
<1>1. PicksAreOld'
  BY PicksKeep
<1>2. Postgres!TrimmedForNewer'
  BY SameCount, TrimmedKeep DEF Postgres!TrimmedForNewer
<1>3. QED
  BY <1>1, <1>2 DEF TrimInv

LEMMA OrderIsFinite ==
    ASSUME TableTypes, RowsAreNumbered
    PROVE  /\ IsFiniteSet(Queued) /\ Cardinality(Queued) \in Nat
           /\ \A c : IsFiniteSet(Would(c)) /\ Cardinality(Would(c)) \in Nat
           /\ \A rank, n : IsFiniteSet(Before(rank, n)) /\ Cardinality(Before(rank, n)) \in Nat
<1>1. pg_seq \in Nat /\ Queued \in SUBSET (0..pg_seq) /\ \A c : Would(c) \in SUBSET (0..pg_seq)
  BY SeqsAreBounded DEF TableTypes, Queued, Would, Postgres!Seqs
<1>2. IsFiniteSet(Queued) /\ Cardinality(Queued) \in Nat
  BY <1>1, BoundedIsFinite
<1>3. \A c : IsFiniteSet(Would(c)) /\ Cardinality(Would(c)) \in Nat
  BY <1>1, BoundedIsFinite
<1>4. ASSUME NEW rank, NEW n PROVE IsFiniteSet(Before(rank, n))
          /\ Cardinality(Before(rank, n)) \in Nat
  <2>1. Before(rank, n) \in SUBSET StoreClient
    BY DEF Before, Chosen
  <2>2. QED
    BY <2>1, SmallerIsFewer, StoreConstants
<1>5. QED
  BY <1>2, <1>3, <1>4

LEMMA OvershootKeeps ==
    ASSUME StoreInv, TableTypes', RowsAreNumbered', pg_kind' = pg_kind,
          Queued' \subseteq Queued, Chosen' \subseteq Chosen,
           \A c \in Chosen' : Would(c)' \subseteq Would(c)
    PROVE  OvershootInv'
<1> SUFFICES ASSUME pg_kind = "queue"
             PROVE  \E rank \in [StoreClient -> Nat], base \in Nat, top \in Nat : InOrder(rank,
                   base, top)'
  BY DEF OvershootInv
<1>1. PICK rank \in [StoreClient -> Nat], base \in Nat, top \in Nat : InOrder(rank, base, top)
  BY DEF StoreInv, OvershootInv
<1>2. TableTypes /\ RowsAreNumbered
  BY DEF StoreInv, RowsInv
<1>3. Cardinality(Queued') \in Nat /\ Cardinality(Queued) \in Nat
          /\ Cardinality(Queued') <= Cardinality(Queued)
  BY <1>2, OrderIsFinite, SmallerIsFewer
<1>4. ASSUME NEW c \in Chosen'
      PROVE  /\ Cardinality(Would(c)') \in Nat /\ Cardinality(Would(c)) \in Nat
             /\ Cardinality(Would(c)') <= Cardinality(Would(c))
  BY <1>2, OrderIsFinite, SmallerIsFewer
<1>5. ASSUME NEW n
      PROVE  /\ Cardinality(Before(rank, n)') \in Nat /\ Cardinality(Before(rank, n)) \in Nat
             /\ Cardinality(Before(rank, n)') <= Cardinality(Before(rank, n))
  <2>1. Before(rank, n)' \subseteq Before(rank, n)
    BY DEF Before
  <2>2. QED
    BY <1>2, <2>1, OrderIsFinite, SmallerIsFewer
<1>6. Bound \in Int /\ Bound' = Bound
  BY FS_CardinalityType, StoreConstants DEF Bound
<1>7. Cardinality(Queued') + Cardinality(Before(rank, base)') <= Bound
  BY <1>1, <1>3, <1>5, <1>6 DEF InOrder
<1>8. ASSUME NEW c \in Chosen', rank[c] >= base
      PROVE  Cardinality(Would(c)') + Cardinality(Before(rank, rank[c])') <= Bound
  <2>1. Cardinality(Would(c)) + Cardinality(Before(rank, rank[c])) <= Bound
    BY <1>1, <1>8 DEF InOrder
  <2>2. QED
    BY <1>4, <1>5, <1>6, <2>1
<1>9. InOrder(rank, base, top)'
  BY <1>1, <1>6, <1>7, <1>8 DEF InOrder
<1>10. QED
  BY <1>9
-----------------------------------------------------------------------------
\* The invariant holds at first.

LEMMA StoreInit == Postgres!Init => StoreInv
<1> SUFFICES ASSUME Postgres!Init PROVE StoreInv
  OBVIOUS
<1> USE DEF Postgres!Init
<1>0. IsFiniteSet({}) /\ Cardinality({}) = 0
  BY FS_EmptySet
<1>1. TableTypes /\ RecordTypes
  BY <1>0 DEF TableTypes, RecordTypes, Postgres!NoRecord
<1>2. ClientTypes /\ StagesFitKind
  BY DEF ClientTypes, StagesFitKind, QueueLabel, ListLabel, Open
<1>3. RowsInv
  BY DEF RowsInv, RowsAreNumbered, InsertsArePrivate, DeletesAreMeant, PickedWereSeen
<1>4. TrimInv
  BY DEF TrimInv, PicksAreOld, Postgres!TrimmedForNewer
<1>5. TakenInv /\ WipeInv
  BY DEF TakenInv, Postgres!NobodyTakesTwice, WipeInv, Postgres!WipedIsGone
<1>6. Postgres!PromisedIsKept
  BY DEF Postgres!PromisedIsKept
<1>7. OvershootInv
  <2> DEFINE rank == [c \in StoreClient |-> 0]
  <2>1. Chosen = {} /\ Queued = {} /\ Before(rank, 0) = {}
    BY DEF Chosen, Queued, Before, Postgres!Seqs
  <2>2. Cardinality(StoreClient) \in Nat /\ StoreMaxQueueSize \in Nat \ {0}
    BY FS_CardinalityType, StoreConstants
  <2>2a. Cardinality(Queued) = 0 /\ Cardinality(Before(rank, 0)) = 0
    BY <1>0, <2>1
  <2>3. Cardinality(Queued) + Cardinality(Before(rank, 0)) <= Bound
    <3>1. 0 <= Bound
      BY <2>2 DEF Bound
    <3> HIDE DEF rank
    <3>2. QED
      BY <2>2a, <3>1
  <2>4. InOrder(rank, 0, 0)
    BY <2>1, <2>3 DEF InOrder
  <2>5. rank \in [StoreClient -> Nat]
    OBVIOUS
  <2> HIDE DEF rank
  <2>6. QED
    BY <2>4, <2>5 DEF OvershootInv
<1>8. QED
  BY <1>1, <1>2, <1>3, <1>4, <1>5, <1>6, <1>7 DEF StoreInv

-----------------------------------------------------------------------------
\* Steps that leave the rows alone, and those that rewrite, add or delete some.

\* A transaction is one of a queue; a list has no rows that are not committed.
LEMMA ListRowsArePlain ==
    ASSUME StoreInv, pg_kind = "list"
    PROVE  \A r \in pg_rows : r.by = NoOne /\ r.gone = NoOne
<1>1. \A c \in StoreClient : pg_pc[c] \notin {"insert"} \cup Open
  BY DEF StoreInv, StagesFitKind, QueueLabel
<1>2. \A r \in pg_rows : r.by \in StoreClient \cup {NoOne} /\ r.gone \in StoreClient \cup {NoOne}
  BY DEF StoreInv, TableTypes, Row
<1>3. QED
  BY <1>1, <1>2 DEF StoreInv, RowsInv, InsertsArePrivate, DeletesAreMeant

\* What the other clients are doing is theirs.
OthersStay(c) ==
    \A d \in StoreClient : d # c => /\ pg_pc'[d] = pg_pc[d] /\ pg_begun'[d] = pg_begun[d]
                                    /\ pg_picked'[d] = pg_picked[d] /\ pg_erased'[d] = pg_erased[d]

LEMMA QuietKeeps ==
    ASSUME StoreInv, NEW c \in StoreClient, OthersStay(c),
           ClientTypes', StagesFitKind', RecordTypes', Postgres!PromisedIsKept',
           UNCHANGED <<pg_now, pg_kind, pg_seq, pg_rows, pg_committed, pg_trimmed, pg_taken,
                 pg_wiped>>,
           pg_pc[c] \notin {"insert"} \cup Open,
           pg_pc'[c] \notin {"insert", "evict", "wiping"} \cup Open,
           \A r \in pg_rows : r.seq \in pg_picked'[c] => r.by \in {NoOne, c}
    PROVE  StoreInv'
<1> USE DEF StoreInv, RowsInv
<1>1. TableTypes'
  BY DEF TableTypes
<1>2. RowsAreNumbered'
  BY DEF RowsAreNumbered
<1>3. \A r \in pg_rows : r.by \in StoreClient \cup {NoOne} /\ r.gone \in StoreClient \cup {NoOne}
  BY DEF TableTypes, Row
<1>4. InsertsArePrivate'
  BY <1>3 DEF InsertsArePrivate, OthersStay
<1>5. DeletesAreMeant'
  BY <1>3 DEF DeletesAreMeant, OthersStay
<1>6. PickedWereSeen'
  BY DEF PickedWereSeen, OthersStay, Open
<1>7. TrimInv'
  <2>1. \A d \in StoreClient : pg_pc'[d] \in {"trim", "commit"} =>
            /\ pg_pc[d] \in {"trim", "commit"} /\ pg_picked'[d] = pg_picked[d]
            /\ Postgres!Seqs(Own(d)) \subseteq Postgres!Seqs(Own(d))'
    BY DEF OthersStay, Open, Own, Postgres!Seqs
  <2>2. pg_committed \subseteq pg_committed' /\ pg_trimmed' = pg_trimmed /\ pg_kind' = pg_kind
    OBVIOUS
  <2>3. QED
    BY <1>1, <1>2, <2>1, <2>2, TrimsKeep
<1>8. TakenInv' /\ WipeInv'
  BY DEF TakenInv, Postgres!NobodyTakesTwice, WipeInv, Postgres!WipedIsGone, OthersStay
<1>9. OvershootInv'
  <2>1. Queued' \subseteq Queued
    BY DEF Queued
  <2>2. Chosen' \subseteq Chosen /\ c \notin Chosen'
    BY DEF Chosen, OthersStay, Open
  <2>3. \A d \in Chosen' : Would(d)' \subseteq Would(d)
    BY <2>2 DEF Would, OthersStay, Chosen
  <2>4. QED
    BY <1>1, <1>2, <2>1, <2>2, <2>3, OvershootKeeps
<1>10. QED
  BY <1>1, <1>2, <1>4, <1>5, <1>6, <1>7, <1>8, <1>9

\* Rows that go, and rows that are marked as deleted or not.
LEMMA MarkedRows ==
    ASSUME StoreInv, NEW S \in SUBSET pg_rows, NEW g \in [S -> Row],
           \A r \in S : /\ g[r].seq = r.seq /\ g[r].expires_at = r.expires_at
                        /\ g[r].by = r.by,
           pg_rows' = {g[r] : r \in S},
           UNCHANGED <<pg_now, pg_kind, pg_seq, pg_committed>>
    PROVE  /\ TableTypes' /\ RowsAreNumbered'
           /\ Postgres!Seqs(pg_rows') \subseteq Postgres!Seqs(pg_rows)
           /\ Queued' \subseteq Queued
           /\ \A d \in StoreClient : pg_picked'[d] = pg_picked[d] => Would(d)' \subseteq Would(d)
           /\ \A q \in pg_rows' : \E r \in S : q = g[r]
           /\ \A r, q \in pg_rows' : r.by = q.by /\ r.by # NoOne /\ InsertsArePrivate => r = q
<1> USE DEF StoreInv, RowsInv
<1>1. /\ pg_rows' \subseteq Row /\ IsFiniteSet(pg_rows')
      /\ Postgres!Seqs(pg_rows') \subseteq Postgres!Seqs(pg_rows)
      /\ \A r, q \in pg_rows' : r.seq = q.seq => r = q
      /\ \A q \in pg_rows' : q.seq <= pg_seq
  BY MappedRows
<1>2. TableTypes'
  BY <1>1 DEF TableTypes
<1>3. RowsAreNumbered'
  BY <1>1 DEF RowsAreNumbered
<1>4. Queued' \subseteq Queued
  BY DEF Queued, Postgres!Seqs
<1>5. \A d \in StoreClient : pg_picked'[d] = pg_picked[d] => Would(d)' \subseteq Would(d)
  BY DEF Would, Postgres!Seqs
<1>6. \A r, q \in pg_rows' : r.by = q.by /\ r.by # NoOne /\ InsertsArePrivate => r = q
  BY DEF InsertsArePrivate
<1>7. QED
  BY <1>1, <1>2, <1>3, <1>4, <1>5, <1>6

\* What else is to be shown of a step that adds no row and commits none.
LEMMA SettledStep ==
    ASSUME StoreInv, NEW c \in StoreClient, OthersStay(c), TableTypes', RowsAreNumbered',
           UNCHANGED <<pg_now, pg_kind, pg_seq, pg_committed, pg_trimmed, pg_taken, pg_wiped>>,
           Postgres!Seqs(pg_rows') \subseteq Postgres!Seqs(pg_rows), Queued' \subseteq Queued,
           pg_kind = "list" => Postgres!Seqs(pg_rows) \subseteq Postgres!Seqs(pg_rows'),
           pg_pc'[c] \in {"evict", "wiping"} => pg_pc'[c] = pg_pc[c]
                 /\ pg_erased'[c] = pg_erased[c],
           pg_pc'[c] \in {"trim", "commit"} =>
               pg_pc[c] \in {"trim", "commit"} /\ pg_picked'[c] = pg_picked[c],
           \A d \in StoreClient : pg_picked'[d] = pg_picked[d] => Would(d)' \subseteq Would(d),
           \A d \in StoreClient : pg_pc'[d] \in {"trim", "commit"} =>
               Postgres!Seqs(Own(d)) \subseteq Postgres!Seqs(Own(d))'
    PROVE  TrimInv' /\ TakenInv' /\ WipeInv' /\ OvershootInv'
<1>1. \A d \in StoreClient : pg_pc'[d] \in {"trim", "commit"} =>
          /\ pg_pc[d] \in {"trim", "commit"} /\ pg_picked'[d] = pg_picked[d]
          /\ Postgres!Seqs(Own(d)) \subseteq Postgres!Seqs(Own(d))'
  BY DEF OthersStay
<1>2. TrimInv'
  <2>1. pg_committed \subseteq pg_committed' /\ pg_trimmed' = pg_trimmed /\ pg_kind' = pg_kind
    OBVIOUS
  <2>2. QED
    BY <1>1, <2>1, TrimsKeep
<1>3. TakenInv' /\ Postgres!WipedIsGone'
  <2>1. pg_seq' \in Nat /\ pg_seq' >= pg_seq
    BY DEF StoreInv, TableTypes
  <2>2. Postgres!Seqs(pg_rows') \subseteq Postgres!Seqs(pg_rows) \cup ((pg_seq + 1)..pg_seq') /\ pg_taken' = pg_taken /\ pg_wiped' = pg_wiped
    OBVIOUS
  <2>3. QED
    BY <2>1, <2>2, SettledKeep
<1>4. WipeInv'
  <2>1. ASSUME NEW d \in StoreClient, pg_pc'[d] \in {"evict", "wiping"}
        PROVE  pg_pc'[d] = pg_pc[d] /\ pg_erased'[d] = pg_erased[d]
              /\ Postgres!Seqs(pg_rows) = Postgres!Seqs(pg_rows')
    <3>1. pg_pc'[d] = pg_pc[d] /\ pg_erased'[d] = pg_erased[d]
      BY <2>1 DEF OthersStay
    <3>2. pg_kind = "list"
      BY <2>1, <3>1 DEF StoreInv, StagesFitKind, ListLabel
    <3>3. QED
      BY <3>1, <3>2
  <2>2. ASSUME NEW d \in StoreClient, pg_pc'[d] = "evict"
        PROVE  \E r \in pg_rows' : \A s \in pg_erased'[d] : s < r.seq
    <3>1. PICK r \in pg_rows : \A s \in pg_erased[d] : s < r.seq
      BY <2>1, <2>2 DEF StoreInv, WipeInv
    <3>2. r.seq \in Postgres!Seqs(pg_rows')
      BY <2>1, <2>2 DEF Postgres!Seqs
    <3>3. QED
      BY <2>1, <2>2, <3>1, <3>2 DEF Postgres!Seqs
  <2>3. \A d \in StoreClient : pg_pc'[d] = "wiping" =>
            pg_erased'[d] \cap Postgres!Seqs(pg_rows') = {}
    BY <2>1 DEF StoreInv, WipeInv
  <2>4. QED
    BY <1>3, <2>2, <2>3 DEF WipeInv
<1>5. OvershootInv'
  <2>1. Chosen' \subseteq Chosen
    BY <1>1 DEF Chosen
  <2>2. \A d \in Chosen' : Would(d)' \subseteq Would(d)
    BY <1>1 DEF Chosen
  <2>3. pg_kind' = pg_kind
    OBVIOUS
  <2>4. QED
    BY <2>1, <2>2, <2>3, OvershootKeeps
<1>6. QED
  BY <1>2, <1>3, <1>4, <1>5

-----------------------------------------------------------------------------
\* One lemma per action.

LEMMA PurgeKeeps == ASSUME StoreInv, NEW c \in StoreClient, Postgres!Purge(c) PROVE StoreInv'
<1> DEFINE expired == {r \in Postgres!Visible(c) : r.expires_at <= pg_begun[c]}
           g == [r \in pg_rows |-> IF r \in expired THEN [r EXCEPT !.gone = c] ELSE r]
<1> USE DEF StoreInv, RowsInv
<1>1. /\ pg_pc[c] = "purge" /\ pg_pc' = [pg_pc EXCEPT ![c] = "insert"]
      /\ pg_rows' = {g[r] : r \in pg_rows}
      /\ \A r \in expired : r.gone = NoOne
      /\ UNCHANGED <<pg_now, pg_kind, pg_seq, pg_record, pg_begun, pg_picked, pg_committed,
            pg_trimmed, pg_taken, pg_erased,
                     pg_wiped, pg_promised>>
  <2>1. \A r \in expired : r \in pg_rows /\ r.gone # c /\ r.seq \in Postgres!Seqs(expired)
    BY DEF Postgres!Visible, Postgres!Seqs
  <2>2. QED
    BY <2>1 DEF Postgres!Purge, Postgres!Locked, Postgres!Goto, Postgres!clock,
                Postgres!history
<1>2. \A r \in pg_rows : /\ r \in Row /\ r.by \in StoreClient \cup {NoOne}
                         /\ r.gone \in StoreClient \cup {NoOne}
  BY DEF TableTypes, Row
<1>2a. c # NoOne
  BY StoreConstants
<1>3. \A r \in expired : r \in pg_rows /\ r.by = NoOne /\ r.expires_at <= pg_begun[c]
  <2>1. \A r \in pg_rows : r.by # c
    BY <1>1, <1>2a DEF InsertsArePrivate, Open
  <2>2. QED
    BY <2>1 DEF Postgres!Visible
<1>4. /\ g \in [pg_rows -> Row]
      /\ \A r \in pg_rows : /\ g[r].seq = r.seq /\ g[r].expires_at = r.expires_at
                            /\ g[r].by = r.by
                            /\ g[r].gone = IF r \in expired THEN c ELSE r.gone
  BY <1>2 DEF Row
<1> HIDE DEF g, expired
<1>5. ClientTypes' /\ StagesFitKind'
  BY <1>1 DEF ClientTypes, StagesFitKind, QueueLabel, ListLabel
<1>6. OthersStay(c)
  BY <1>1 DEF OthersStay, ClientTypes
<1>7. /\ TableTypes' /\ RowsAreNumbered' /\ Postgres!Seqs(pg_rows') \subseteq Postgres!Seqs(pg_rows)
      /\ Queued' \subseteq Queued
      /\ \A d \in StoreClient : pg_picked'[d] = pg_picked[d] => Would(d)' \subseteq Would(d)
      /\ \A q \in pg_rows' : \E r \in pg_rows : q = g[r]
      /\ \A r, q \in pg_rows' : r.by = q.by /\ r.by # NoOne /\ InsertsArePrivate => r = q
  <2>1. pg_rows \in SUBSET pg_rows /\ g \in [pg_rows -> Row]
    BY <1>4
  <2>2. \A r \in pg_rows : /\ g[r].seq = r.seq /\ g[r].expires_at = r.expires_at
                           /\ g[r].by = r.by
    BY <1>4
  <2>3. pg_rows' = {g[r] : r \in pg_rows} /\ UNCHANGED <<pg_now, pg_kind, pg_seq, pg_committed>>
    BY <1>1
  <2>4. QED
    BY <2>1, <2>2, <2>3, MarkedRows
<1>8. pg_pc'[c] = "insert" /\ \A d \in StoreClient : d # c => pg_pc'[d] = pg_pc[d]
  BY <1>1 DEF ClientTypes
<1>9. InsertsArePrivate'
  <2>1. ASSUME NEW q \in pg_rows', q.by # NoOne
        PROVE  pg_pc'[q.by] \in Open /\ q.gone \in {NoOne, q.by}
    <3>1. PICK r \in pg_rows : q = g[r]
      BY <1>7
    <3>2. r \notin expired /\ q.by = r.by /\ q.gone = r.gone
      BY <1>3, <1>4, <2>1, <3>1
    <3>3. pg_pc[r.by] \in Open /\ r.gone \in {NoOne, r.by}
      BY <2>1, <3>2 DEF InsertsArePrivate
    <3>4. QED
      BY <1>1, <1>2, <1>8, <2>1, <3>2, <3>3 DEF Open
  <2>2. QED
    BY <1>7, <2>1 DEF InsertsArePrivate
<1>10. DeletesAreMeant'
  <2>1. ASSUME NEW q \in pg_rows', q.gone # NoOne
        PROVE  /\ pg_pc'[q.gone] \in {"insert"} \cup Open
               /\ \/ q.expires_at <= pg_begun'[q.gone]
                  \/ pg_pc'[q.gone] = "commit" /\ q.seq \in pg_picked'[q.gone]
    <3>1. PICK r \in pg_rows : q = g[r]
      BY <1>7
    <3>2. CASE r \in expired
      BY <1>1, <1>3, <1>4, <1>8, <3>1, <3>2
    <3>3. CASE r \notin expired
      <4>1. q.gone = r.gone /\ q.expires_at = r.expires_at /\ q.seq = r.seq
        BY <1>4, <3>1, <3>3
      <4>2. /\ pg_pc[r.gone] \in {"insert"} \cup Open
            /\ \/ r.expires_at <= pg_begun[r.gone]
               \/ pg_pc[r.gone] = "commit" /\ r.seq \in pg_picked[r.gone]
        BY <2>1, <4>1 DEF DeletesAreMeant
      <4>3. r.gone \in StoreClient /\ r.gone # c
        BY <1>1, <1>2, <2>1, <4>1, <4>2 DEF Open
      <4>4. QED
        BY <1>1, <1>8, <4>1, <4>2, <4>3
    <3>4. QED
      BY <3>2, <3>3
  <2>2. QED
    BY <2>1 DEF DeletesAreMeant
<1>11. PickedWereSeen'
  <2>1. ASSUME NEW d \in StoreClient, NEW q \in pg_rows', q.seq \in pg_picked'[d]
        PROVE  q.by \in {NoOne, d} /\ (pg_pc'[d] = "commit" => q.gone = d)
    <3>1. PICK r \in pg_rows : q = g[r]
      BY <1>7
    <3>2. q.by = r.by /\ q.seq = r.seq /\ r.seq \in pg_picked[d]
      BY <1>1, <1>4, <2>1, <3>1
    <3>3. r.by \in {NoOne, d} /\ (pg_pc[d] = "commit" => r.gone = d)
      BY <3>2 DEF PickedWereSeen
    <3>4. pg_pc'[d] = "commit" => pg_pc[d] = "commit"
      BY <1>8
    <3>5. r.gone = d => r \notin expired
      BY <1>1, StoreConstants
    <3>6. QED
      BY <1>4, <3>1, <3>2, <3>3, <3>4, <3>5
  <2>2. QED
    BY <2>1 DEF PickedWereSeen
<1>12. TrimInv' /\ TakenInv' /\ WipeInv' /\ OvershootInv'
  <2>1. \A d \in StoreClient : Postgres!Seqs(Own(d)) \subseteq Postgres!Seqs(Own(d))'
    BY <1>1, <1>4 DEF Own, Postgres!Seqs
  <2>2. pg_kind = "list" => Postgres!Seqs(pg_rows) \subseteq Postgres!Seqs(pg_rows')
    BY <1>1, <1>4 DEF Postgres!Seqs
  <2>3. pg_pc'[c] \notin {"evict", "wiping"} /\ pg_pc'[c] \notin {"trim", "commit"}
    BY <1>8
  <2>4. QED
    BY <1>1, <1>6, <1>7, <2>1, <2>2, <2>3, SettledStep
<1>13. RecordTypes' /\ Postgres!PromisedIsKept'
  BY <1>1 DEF RecordTypes, Postgres!PromisedIsKept
<1>14. QED
  BY <1>5, <1>7, <1>9, <1>10, <1>11, <1>12, <1>13

LEMMA TrimKeeps == ASSUME StoreInv, NEW c \in StoreClient, Postgres!Trim(c) PROVE StoreInv'
<1> DEFINE over == {r \in pg_rows : r.seq \in pg_picked[c]}
           g == [r \in pg_rows |-> IF r \in over THEN [r EXCEPT !.gone = c] ELSE r]
<1> USE DEF StoreInv, RowsInv
<1>1. /\ pg_pc[c] = "trim" /\ pg_pc' = [pg_pc EXCEPT ![c] = "commit"]
      /\ pg_rows' = {g[r] : r \in pg_rows}
      /\ \A r \in over : r.gone \in {NoOne, c}
      /\ UNCHANGED <<pg_now, pg_kind, pg_seq, pg_record, pg_begun, pg_picked, pg_committed,
            pg_trimmed, pg_taken, pg_erased,
                     pg_wiped, pg_promised>>
  BY DEF Postgres!Trim, Postgres!Locked, Postgres!Goto, Postgres!clock, Postgres!history
<1>2. \A r \in pg_rows : /\ r \in Row /\ r.by \in StoreClient \cup {NoOne}
                         /\ r.gone \in StoreClient \cup {NoOne}
  BY DEF TableTypes, Row
<1>2a. c # NoOne
  BY StoreConstants
<1>3. \A r \in over : r \in pg_rows /\ r.by \in {NoOne, c} /\ r.seq \in pg_picked[c]
  BY DEF PickedWereSeen
<1>4. /\ g \in [pg_rows -> Row]
      /\ \A r \in pg_rows : /\ g[r].seq = r.seq /\ g[r].expires_at = r.expires_at
                            /\ g[r].by = r.by
                            /\ g[r].gone = IF r \in over THEN c ELSE r.gone
  BY <1>2 DEF Row
<1>4a. \A r \in pg_rows : r \notin over => r.seq \notin pg_picked[c]
  OBVIOUS
<1> HIDE DEF g, over
<1>5. ClientTypes' /\ StagesFitKind'
  <2>1. pg_pc[c] \in QueueLabel
    BY <1>1 DEF QueueLabel, Open
  <2>2. QED
    BY <1>1, <2>1 DEF ClientTypes, StagesFitKind, QueueLabel, ListLabel, Open
<1>6. OthersStay(c)
  BY <1>1 DEF OthersStay, ClientTypes
<1>7. /\ TableTypes' /\ RowsAreNumbered' /\ Postgres!Seqs(pg_rows') \subseteq Postgres!Seqs(pg_rows)
      /\ Queued' \subseteq Queued
      /\ \A d \in StoreClient : pg_picked'[d] = pg_picked[d] => Would(d)' \subseteq Would(d)
      /\ \A q \in pg_rows' : \E r \in pg_rows : q = g[r]
      /\ \A r, q \in pg_rows' : r.by = q.by /\ r.by # NoOne /\ InsertsArePrivate => r = q
  <2>1. pg_rows \in SUBSET pg_rows /\ g \in [pg_rows -> Row]
    BY <1>4
  <2>2. \A r \in pg_rows : /\ g[r].seq = r.seq /\ g[r].expires_at = r.expires_at
                           /\ g[r].by = r.by
    BY <1>4
  <2>3. pg_rows' = {g[r] : r \in pg_rows} /\ UNCHANGED <<pg_now, pg_kind, pg_seq, pg_committed>>
    BY <1>1
  <2>4. QED
    BY <2>1, <2>2, <2>3, MarkedRows
<1>8. pg_pc'[c] = "commit" /\ \A d \in StoreClient : d # c => pg_pc'[d] = pg_pc[d]
  BY <1>1 DEF ClientTypes
<1>9. InsertsArePrivate'
  <2>1. ASSUME NEW q \in pg_rows', q.by # NoOne
        PROVE  pg_pc'[q.by] \in Open /\ q.gone \in {NoOne, q.by}
    <3>1. PICK r \in pg_rows : q = g[r]
      BY <1>7
    <3>2. q.by = r.by /\ q.gone = IF r \in over THEN c ELSE r.gone
      BY <1>4, <3>1
    <3>3. pg_pc[r.by] \in Open /\ r.gone \in {NoOne, r.by}
      BY <2>1, <3>2 DEF InsertsArePrivate
    <3>4. pg_pc'[r.by] \in Open
      BY <1>2, <1>8, <2>1, <3>2, <3>3 DEF Open
    <3>5. QED
      BY <1>3, <2>1, <3>2, <3>3, <3>4
  <2>2. QED
    BY <1>7, <2>1 DEF InsertsArePrivate
<1>10. DeletesAreMeant'
  <2>1. ASSUME NEW q \in pg_rows', q.gone # NoOne
        PROVE  /\ pg_pc'[q.gone] \in {"insert"} \cup Open
               /\ \/ q.expires_at <= pg_begun'[q.gone]
                  \/ pg_pc'[q.gone] = "commit" /\ q.seq \in pg_picked'[q.gone]
    <3>1. PICK r \in pg_rows : q = g[r]
      BY <1>7
    <3>2. CASE r \in over
      BY <1>1, <1>3, <1>4, <1>8, <3>1, <3>2 DEF Open
    <3>3. CASE r \notin over
      <4>1. q.gone = r.gone /\ q.expires_at = r.expires_at /\ q.seq = r.seq
        BY <1>4, <3>1, <3>3
      <4>2. /\ pg_pc[r.gone] \in {"insert"} \cup Open
            /\ \/ r.expires_at <= pg_begun[r.gone]
               \/ pg_pc[r.gone] = "commit" /\ r.seq \in pg_picked[r.gone]
        BY <2>1, <4>1 DEF DeletesAreMeant
      <4>3. r.gone \in StoreClient
        BY <1>2, <2>1, <4>1
      <4>4. CASE r.gone = c
        BY <1>1, <1>8, <4>1, <4>2, <4>4 DEF Open
      <4>5. CASE r.gone # c
        BY <1>1, <1>8, <4>1, <4>2, <4>3, <4>5
      <4>6. QED
        BY <4>4, <4>5
    <3>4. QED
      BY <3>2, <3>3
  <2>2. QED
    BY <2>1 DEF DeletesAreMeant
<1>11. PickedWereSeen'
  <2>1. ASSUME NEW d \in StoreClient, NEW q \in pg_rows', q.seq \in pg_picked'[d]
        PROVE  q.by \in {NoOne, d} /\ (pg_pc'[d] = "commit" => q.gone = d)
    <3>1. PICK r \in pg_rows : q = g[r]
      BY <1>7
    <3>2. q.by = r.by /\ q.seq = r.seq /\ r.seq \in pg_picked[d]
      BY <1>1, <1>4, <2>1, <3>1
    <3>3. r.by \in {NoOne, d} /\ (pg_pc[d] = "commit" => r.gone = d)
      BY <3>2 DEF PickedWereSeen
    <3>4. CASE d = c
      BY <1>4, <1>4a, <3>1, <3>2, <3>3, <3>4
    <3>5. CASE d # c
      <4>1. pg_pc'[d] = "commit" => r.gone = d
        BY <1>8, <3>3, <3>5
      <4>2. r.gone = d => r \notin over
        BY <1>1, <3>5, StoreConstants
      <4>3. QED
        BY <1>4, <3>1, <3>2, <3>3, <4>1, <4>2
    <3>6. QED
      BY <3>4, <3>5
  <2>2. QED
    BY <2>1 DEF PickedWereSeen
<1>12. TrimInv' /\ TakenInv' /\ WipeInv' /\ OvershootInv'
  <2>1. \A d \in StoreClient : Postgres!Seqs(Own(d)) \subseteq Postgres!Seqs(Own(d))'
    BY <1>1, <1>4 DEF Own, Postgres!Seqs
  <2>2. pg_kind = "list" => Postgres!Seqs(pg_rows) \subseteq Postgres!Seqs(pg_rows')
    BY <1>1, <1>4 DEF Postgres!Seqs
  <2>3. /\ pg_pc'[c] \notin {"evict", "wiping"} /\ pg_pc[c] \in {"trim", "commit"}
        /\ pg_picked'[c] = pg_picked[c]
    BY <1>1, <1>8
  <2>4. QED
    BY <1>1, <1>6, <1>7, <2>1, <2>2, <2>3, SettledStep
<1>13. RecordTypes' /\ Postgres!PromisedIsKept'
  BY <1>1 DEF RecordTypes, Postgres!PromisedIsKept
<1>14. QED
  BY <1>5, <1>7, <1>9, <1>10, <1>11, <1>12, <1>13

LEMMA FailKeeps == ASSUME StoreInv, NEW c \in StoreClient, Postgres!Fail(c) PROVE StoreInv'
<1> DEFINE kept == {r \in pg_rows : r.by # c}
           g == [r \in kept |-> [r EXCEPT !.gone = IF @ = c THEN NoOne ELSE @]]
<1> USE DEF StoreInv, RowsInv
<1>1. /\ pg_pc' = [pg_pc EXCEPT ![c] = "idle"]
      /\ pg_begun' = [pg_begun EXCEPT ![c] = 0] /\ pg_picked' = [pg_picked EXCEPT ![c] = {}]
      /\ pg_rows' = {g[r] : r \in kept}
      /\ UNCHANGED <<pg_now, pg_kind, pg_seq, pg_record, pg_committed, pg_trimmed, pg_taken,
            pg_erased, pg_wiped, pg_promised>>
  BY DEF Postgres!Fail, Postgres!Return, Postgres!Goto, Postgres!clock, Postgres!history
<1>2. \A r \in pg_rows : /\ r \in Row /\ r.by \in StoreClient \cup {NoOne}
                         /\ r.gone \in StoreClient \cup {NoOne}
  BY DEF TableTypes, Row
<1>2a. c # NoOne
  BY StoreConstants
<1>3. kept \in SUBSET pg_rows /\ \A r \in kept : r.by # c
  OBVIOUS
<1>4. /\ g \in [kept -> Row]
      /\ \A r \in kept : /\ g[r].seq = r.seq /\ g[r].expires_at = r.expires_at
                         /\ g[r].by = r.by
                         /\ g[r].gone = IF r.gone = c THEN NoOne ELSE r.gone
  BY <1>2 DEF Row
<1>4a. \A r \in pg_rows : r.by # c => r \in kept
  OBVIOUS
<1> HIDE DEF g, kept
<1>5. ClientTypes' /\ StagesFitKind'
  <2>1. ClientTypes'
    BY <1>1 DEF ClientTypes
  <2>2. StagesFitKind'
    BY <1>1 DEF ClientTypes, StagesFitKind, TableTypes, QueueLabel, ListLabel, Open
  <2>3. QED
    BY <2>1, <2>2
<1>6. OthersStay(c)
  BY <1>1 DEF OthersStay, ClientTypes
<1>7. /\ TableTypes' /\ RowsAreNumbered' /\ Postgres!Seqs(pg_rows') \subseteq Postgres!Seqs(pg_rows)
      /\ Queued' \subseteq Queued
      /\ \A d \in StoreClient : pg_picked'[d] = pg_picked[d] => Would(d)' \subseteq Would(d)
      /\ \A q \in pg_rows' : \E r \in kept : q = g[r]
      /\ \A r, q \in pg_rows' : r.by = q.by /\ r.by # NoOne /\ InsertsArePrivate => r = q
  <2>1. kept \in SUBSET pg_rows /\ g \in [kept -> Row]
    BY <1>3, <1>4
  <2>2. \A r \in kept : /\ g[r].seq = r.seq /\ g[r].expires_at = r.expires_at
                        /\ g[r].by = r.by
    BY <1>4
  <2>3. pg_rows' = {g[r] : r \in kept} /\ UNCHANGED <<pg_now, pg_kind, pg_seq, pg_committed>>
    BY <1>1
  <2>4. QED
    BY <2>1, <2>2, <2>3, MarkedRows
<1>8. /\ pg_pc'[c] = "idle" /\ pg_picked'[c] = {}
      /\ \A d \in StoreClient : d # c => pg_pc'[d] = pg_pc[d] /\ pg_begun'[d] = pg_begun[d]
            /\ pg_picked'[d] = pg_picked[d]
  BY <1>1 DEF ClientTypes
<1>9. \A q \in pg_rows' : \E r \in pg_rows : /\ r \in kept /\ q.by = r.by /\ q.seq = r.seq
                                             /\ r.by # c
                                             /\ q.expires_at = r.expires_at
                                             /\ q.gone # NoOne => q.gone = r.gone /\ r.gone # c
                                             /\ r.gone # c => q.gone = r.gone
                                             /\ q.gone \in {NoOne, r.gone}
  BY <1>3, <1>4, <1>7
<1>10. InsertsArePrivate'
  <2>1. ASSUME NEW q \in pg_rows', q.by # NoOne
        PROVE  pg_pc'[q.by] \in Open /\ q.gone \in {NoOne, q.by}
    <3>1. PICK r \in pg_rows : q.by = r.by /\ r.by # c /\ q.gone \in {NoOne, r.gone}
      BY <1>9
    <3>2. pg_pc[r.by] \in Open /\ r.gone \in {NoOne, r.by}
      BY <2>1, <3>1 DEF InsertsArePrivate
    <3>3. pg_pc'[r.by] \in Open
      BY <1>2, <1>8, <2>1, <3>1, <3>2
    <3>4. QED
      BY <3>1, <3>2, <3>3
  <2>2. QED
    BY <1>7, <2>1 DEF InsertsArePrivate
<1>11. DeletesAreMeant'
  <2>1. ASSUME NEW q \in pg_rows', q.gone # NoOne
        PROVE  /\ pg_pc'[q.gone] \in {"insert"} \cup Open
               /\ \/ q.expires_at <= pg_begun'[q.gone]
                  \/ pg_pc'[q.gone] = "commit" /\ q.seq \in pg_picked'[q.gone]
    <3>1. PICK r \in pg_rows : /\ q.seq = r.seq /\ q.expires_at = r.expires_at
                               /\ q.gone = r.gone /\ r.gone # c
      BY <1>9, <2>1
    <3>2. /\ pg_pc[r.gone] \in {"insert"} \cup Open
          /\ \/ r.expires_at <= pg_begun[r.gone]
             \/ pg_pc[r.gone] = "commit" /\ r.seq \in pg_picked[r.gone]
      BY <2>1, <3>1 DEF DeletesAreMeant
    <3>3. r.gone \in StoreClient
      BY <1>2, <2>1, <3>1
    <3>4. QED
      BY <1>8, <3>1, <3>2, <3>3
  <2>2. QED
    BY <2>1 DEF DeletesAreMeant
<1>12. PickedWereSeen'
  <2>1. ASSUME NEW d \in StoreClient, NEW q \in pg_rows', q.seq \in pg_picked'[d]
        PROVE  q.by \in {NoOne, d} /\ (pg_pc'[d] = "commit" => q.gone = d)
    <3>0. d # c
      BY <1>8, <2>1
    <3>1. PICK r \in pg_rows : q.by = r.by /\ q.seq = r.seq /\ (r.gone # c => q.gone = r.gone)
      BY <1>9
    <3>2. r.by \in {NoOne, d} /\ (pg_pc[d] = "commit" => r.gone = d)
      BY <1>8, <2>1, <3>0, <3>1 DEF PickedWereSeen
    <3>3. QED
      BY <1>8, <3>0, <3>1, <3>2
  <2>2. QED
    BY <2>1 DEF PickedWereSeen
<1>13. TrimInv' /\ TakenInv' /\ WipeInv' /\ OvershootInv'
  <2>1. ASSUME NEW d \in StoreClient, pg_pc'[d] \in {"trim", "commit"}
        PROVE  Postgres!Seqs(Own(d)) \subseteq Postgres!Seqs(Own(d))'
    <3>1. d # c
      BY <1>8, <2>1
    <3>2. \A r \in Own(d) : r \in kept /\ g[r] \in pg_rows' /\ g[r].by = d /\ g[r].seq = r.seq
      BY <1>1, <1>4, <1>4a, <3>1 DEF Own
    <3>3. QED
      BY <3>2 DEF Own, Postgres!Seqs
  <2>2. ASSUME pg_kind = "list" PROVE Postgres!Seqs(pg_rows) \subseteq Postgres!Seqs(pg_rows')
    <3>1. \A r \in pg_rows : r \in kept /\ g[r] \in pg_rows' /\ g[r].seq = r.seq
      BY <1>1, <1>2a, <1>4, <1>4a, <2>2, ListRowsArePlain
    <3>2. QED
      BY <3>1 DEF Postgres!Seqs
  <2>3. pg_pc'[c] \notin {"evict", "wiping"} /\ pg_pc'[c] \notin {"trim", "commit"}
    BY <1>8
  <2>4. QED
    BY <1>1, <1>6, <1>7, <2>1, <2>2, <2>3, SettledStep
<1>14. RecordTypes' /\ Postgres!PromisedIsKept'
  BY <1>1 DEF RecordTypes, Postgres!PromisedIsKept
<1>15. QED
  BY <1>5, <1>7, <1>10, <1>11, <1>12, <1>13, <1>14

\* What a client deletes at once, of rows that are committed.
LEMMA DeletedRows ==
    ASSUME StoreInv, NEW c \in StoreClient, OthersStay(c), ClientTypes', StagesFitKind',
           UNCHANGED <<pg_now, pg_kind, pg_seq, pg_record, pg_promised, pg_committed,
                 pg_trimmed, pg_wiped>>,
           pg_kind = "queue", pg_rows' \subseteq pg_rows, \A r \in pg_rows : r.by # NoOne =>
                 r \in pg_rows',
           pg_pc[c] \notin {"insert"} \cup Open, pg_pc'[c] \notin {"insert"} \cup Open,
           pg_picked'[c] \subseteq pg_picked[c]
    PROVE  TakenInv' => StoreInv'
<1> USE DEF StoreInv, RowsInv
<1>0. \A r \in pg_rows : r.by \in StoreClient \cup {NoOne} /\ r.gone \in StoreClient \cup {NoOne}
  BY DEF TableTypes, Row
<1>1. /\ pg_rows' \subseteq Row /\ IsFiniteSet(pg_rows')
      /\ Postgres!Seqs(pg_rows') \subseteq Postgres!Seqs(pg_rows)
      /\ \A r, q \in pg_rows' : r.seq = q.seq => r = q
      /\ \A q \in pg_rows' : q.seq <= pg_seq
  BY FewerRows
<1>2. TableTypes' /\ RecordTypes'
  BY <1>1 DEF TableTypes, RecordTypes
<1>3. RowsAreNumbered'
  BY <1>1 DEF RowsAreNumbered
<1>4. InsertsArePrivate'
  BY <1>0 DEF InsertsArePrivate, OthersStay
<1>5. DeletesAreMeant'
  BY <1>0 DEF DeletesAreMeant, OthersStay
<1>6. PickedWereSeen'
  BY DEF PickedWereSeen, OthersStay, Open
<1>7. \A d \in StoreClient : pg_pc'[d] \in {"trim", "commit"} =>
          /\ pg_pc[d] \in {"trim", "commit"} /\ pg_picked'[d] = pg_picked[d]
          /\ Postgres!Seqs(Own(d)) \subseteq Postgres!Seqs(Own(d))'
  <2>1. ASSUME NEW d \in StoreClient, pg_pc'[d] \in {"trim", "commit"}
        PROVE  /\ pg_pc[d] \in {"trim", "commit"} /\ pg_picked'[d] = pg_picked[d]
               /\ Postgres!Seqs(Own(d)) \subseteq Postgres!Seqs(Own(d))'
    <3>1. d # c
      BY <2>1 DEF Open
    <3>2. pg_pc[d] \in {"trim", "commit"} /\ pg_picked'[d] = pg_picked[d]
      BY <2>1, <3>1 DEF OthersStay
    <3>3. \A r \in pg_rows : r.by = d => r \in pg_rows'
      BY StoreConstants
    <3>4. QED
      BY <3>2, <3>3 DEF Own, Postgres!Seqs
  <2>2. QED
    BY <2>1
<1>8. TrimInv'
  <2>1. pg_committed \subseteq pg_committed' /\ pg_trimmed' = pg_trimmed /\ pg_kind' = pg_kind
    OBVIOUS
  <2>2. QED
    BY <1>2, <1>3, <1>7, <2>1, TrimsKeep
<1>9. WipeInv'
  <2>1. Postgres!WipedIsGone'
    BY <1>1 DEF WipeInv, Postgres!WipedIsGone
  <2>2. \A d \in StoreClient : pg_pc'[d] \notin {"evict", "wiping"}
    BY DEF StagesFitKind, ListLabel
  <2>3. QED
    BY <2>1, <2>2 DEF WipeInv
<1>10. Postgres!PromisedIsKept'
  BY DEF Postgres!PromisedIsKept
<1>11. OvershootInv'
  <2>1. Queued' \subseteq Queued
    BY DEF Queued, Postgres!Seqs
  <2>2. Chosen' \subseteq Chosen
    BY <1>7 DEF Chosen
  <2>3. \A d \in Chosen' : Would(d)' \subseteq Would(d)
    BY <1>7 DEF Chosen, Would, Postgres!Seqs
  <2>4. pg_kind' = pg_kind
    OBVIOUS
  <2>5. QED
    BY <1>2, <1>3, <2>1, <2>2, <2>3, <2>4, OvershootKeeps
<1>12. QED
  BY <1>2, <1>3, <1>4, <1>5, <1>6, <1>8, <1>9, <1>10, <1>11

LEMMA CleanKeeps == ASSUME StoreInv, NEW c \in StoreClient, Postgres!Clean(c) PROVE StoreInv'
<1> DEFINE expired == {r \in Postgres!Visible(c) : r.expires_at <= pg_now}
<1> USE DEF StoreInv, RowsInv
<1>1. /\ pg_pc[c] = "clean" /\ pg_pc' = [pg_pc EXCEPT ![c] = "pick"] /\ pg_rows' = pg_rows \ expired
      /\ UNCHANGED <<pg_now, pg_kind, pg_seq, pg_record, pg_begun, pg_picked, pg_committed,
            pg_trimmed, pg_taken, pg_erased,
                     pg_wiped, pg_promised>>
  BY DEF Postgres!Clean, Postgres!Goto, Postgres!clock, Postgres!history
<1>2. \A r \in expired : r.by = NoOne
  <2>1. \A r \in pg_rows : r.by # c
    BY <1>1, StoreConstants DEF InsertsArePrivate, Open
  <2>2. QED
    BY <2>1 DEF Postgres!Visible
<1> HIDE DEF expired
<1>3. OthersStay(c) /\ pg_pc'[c] = "pick"
  BY <1>1 DEF OthersStay, ClientTypes
<1>4. ClientTypes' /\ StagesFitKind' /\ pg_kind = "queue"
  BY <1>1 DEF ClientTypes, StagesFitKind, QueueLabel, ListLabel
<1>5. pg_rows' \subseteq pg_rows /\ \A r \in pg_rows : r.by # NoOne => r \in pg_rows'
  BY <1>1, <1>2
<1>6. /\ pg_pc[c] \notin {"insert"} \cup Open /\ pg_pc'[c] \notin {"insert"} \cup Open
      /\ pg_picked'[c] \subseteq pg_picked[c]
  BY <1>1, <1>3 DEF Open
<1>7. TakenInv'
  BY <1>1, <1>5 DEF TakenInv, Postgres!NobodyTakesTwice, Postgres!Seqs
<1>8. QED
  BY <1>1, <1>3, <1>4, <1>5, <1>6, <1>7, DeletedRows

LEMMA TakeKeeps == ASSUME StoreInv, NEW c \in StoreClient, Postgres!Take(c) PROVE StoreInv'
<1> USE DEF StoreInv, RowsInv
<1>1. /\ pg_pc[c] = "take" /\ pg_pc' = [pg_pc EXCEPT ![c] = "idle"]
      /\ pg_begun' = [pg_begun EXCEPT ![c] = 0] /\ pg_picked' = [pg_picked EXCEPT ![c] = {}]
      /\ pg_rows' = {r \in pg_rows : r.seq \notin pg_picked[c]}
      /\ pg_taken' = [pg_taken EXCEPT ![c] = @ \cup (pg_picked[c] \cap Postgres!Seqs(pg_rows))]
      /\ UNCHANGED <<pg_now, pg_kind, pg_seq, pg_record, pg_committed, pg_trimmed, pg_erased,
            pg_wiped, pg_promised>>
  BY DEF Postgres!Take, Postgres!Return, Postgres!Goto, Postgres!clock
<1>2. \A r \in pg_rows : r.by # NoOne => r \in pg_rows'
  <2>1. \A r \in pg_rows : r.by # c
    BY <1>1, StoreConstants DEF InsertsArePrivate, Open
  <2>2. \A r \in pg_rows : r.seq \in pg_picked[c] => r.by \in {NoOne, c}
    BY DEF PickedWereSeen
  <2>3. QED
    BY <1>1, <2>1, <2>2
<1>3. OthersStay(c) /\ pg_pc'[c] = "idle" /\ pg_picked'[c] = {}
  BY <1>1 DEF OthersStay, ClientTypes
<1>4. ClientTypes' /\ StagesFitKind' /\ pg_kind = "queue"
  <2>1. ClientTypes'
    BY <1>1 DEF ClientTypes
  <2>2. StagesFitKind'
    BY <1>1 DEF ClientTypes, TableTypes, StagesFitKind, QueueLabel, ListLabel, Open
  <2>3. QED
    BY <1>1, <2>1, <2>2 DEF StagesFitKind, QueueLabel
<1>5. pg_rows' \subseteq pg_rows
  BY <1>1
<1>6. /\ pg_pc[c] \notin {"insert"} \cup Open /\ pg_pc'[c] \notin {"insert"} \cup Open
      /\ pg_picked'[c] \subseteq pg_picked[c]
  BY <1>1, <1>3 DEF Open
<1>7. TakenInv'
  <2>1. /\ pg_taken'[c] = pg_taken[c] \cup (pg_picked[c] \cap Postgres!Seqs(pg_rows))
        /\ \A d \in StoreClient : d # c => pg_taken'[d] = pg_taken[d]
    BY <1>1 DEF ClientTypes
  <2>2. Postgres!Seqs(pg_rows') = Postgres!Seqs(pg_rows) \ pg_picked[c]
    BY <1>1 DEF Postgres!Seqs
  <2>3. Postgres!NobodyTakesTwice'
    BY <2>1 DEF TakenInv, Postgres!NobodyTakesTwice
  <2>4. \A d \in StoreClient : pg_taken'[d] \cap Postgres!Seqs(pg_rows') = {}
    BY <2>1, <2>2 DEF TakenInv
  <2>5. QED
    BY <2>3, <2>4 DEF TakenInv
<1>8. QED
  BY <1>1, <1>2, <1>3, <1>4, <1>5, <1>6, <1>7, DeletedRows

LEMMA InsertEntryKeeps == ASSUME StoreInv, NEW c \in StoreClient,
      Postgres!InsertEntry(c) PROVE StoreInv'
<1> DEFINE new == [seq |-> pg_seq + 1, expires_at |-> pg_begun[c] + RowTtl, by |-> c,
          gone |-> NoOne]
<1> USE DEF StoreInv, RowsInv
<1>1. /\ pg_pc[c] = "insert" /\ pg_pc' = [pg_pc EXCEPT ![c] = "choose"]
      /\ pg_seq' = pg_seq + 1 /\ pg_rows' = pg_rows \cup {new}
      /\ UNCHANGED <<pg_now, pg_kind, pg_record, pg_begun, pg_picked, pg_committed, pg_trimmed,
            pg_taken, pg_erased,
                     pg_wiped, pg_promised>>
  BY DEF Postgres!InsertEntry, Postgres!Insert, Postgres!Goto, Postgres!clock,
         Postgres!history
<1>2. \A r \in pg_rows : /\ r \in Row /\ r.by \in StoreClient \cup {NoOne}
                         /\ r.gone \in StoreClient \cup {NoOne} /\ r.seq \in Nat /\ r.seq <= pg_seq
  BY DEF TableTypes, Row, RowsAreNumbered
<1>3. /\ new \in Row /\ new.seq = pg_seq + 1 /\ new.by = c /\ new.gone = NoOne
      /\ c # NoOne /\ pg_seq \in Nat
  BY StoreConstants DEF ClientTypes, TableTypes, Row
<1> HIDE DEF new
<1>4. \A d \in StoreClient : pg_picked[d] \subseteq 0..pg_seq
          /\ pg_taken[d] \subseteq 0..pg_seq /\ pg_wiped \subseteq 0..pg_seq
  BY DEF ClientTypes
<1>5. \A r \in pg_rows : r.by # c
  BY <1>1, <1>3 DEF InsertsArePrivate, Open
<1>6. OthersStay(c) /\ pg_pc'[c] = "choose"
  BY <1>1 DEF OthersStay, ClientTypes
<1>7. ClientTypes' /\ StagesFitKind'
  <2>1. 0..pg_seq \subseteq 0..pg_seq'
    BY <1>1, <1>3
  <2>2. ClientTypes'
    BY <1>1, <2>1 DEF ClientTypes, QueueLabel, Open
  <2>3. StagesFitKind'
    BY <1>1 DEF ClientTypes, StagesFitKind, QueueLabel, ListLabel, Open
  <2>4. QED
    BY <2>2, <2>3
<1>8. TableTypes' /\ RecordTypes'
  <2>1. IsFiniteSet(pg_rows')
    BY <1>1, FS_AddElement DEF TableTypes
  <2>2. QED
    BY <1>1, <1>3, <2>1 DEF TableTypes, RecordTypes
<1>9. RowsAreNumbered'
  BY <1>1, <1>2, <1>3 DEF RowsAreNumbered
<1>10. InsertsArePrivate'
  <2>1. \A r \in pg_rows : r.by # NoOne => pg_pc'[r.by] \in Open /\ r.gone \in {NoOne, r.by}
    BY <1>2, <1>5, <1>6 DEF InsertsArePrivate, OthersStay
  <2>2. QED
    BY <1>1, <1>3, <1>5, <1>6, <2>1 DEF InsertsArePrivate, Open
<1>11. DeletesAreMeant'
  <2>1. ASSUME NEW r \in pg_rows, r.gone # NoOne
        PROVE  /\ pg_pc'[r.gone] \in {"insert"} \cup Open
               /\ \/ r.expires_at <= pg_begun'[r.gone]
                  \/ pg_pc'[r.gone] = "commit" /\ r.seq \in pg_picked'[r.gone]
    <3>1. /\ pg_pc[r.gone] \in {"insert"} \cup Open
          /\ \/ r.expires_at <= pg_begun[r.gone]
             \/ pg_pc[r.gone] = "commit" /\ r.seq \in pg_picked[r.gone]
      BY <2>1 DEF DeletesAreMeant
    <3>2. CASE r.gone = c
      BY <1>1, <1>6, <3>1, <3>2 DEF Open
    <3>3. CASE r.gone # c
      BY <1>1, <1>2, <1>6, <2>1, <3>1, <3>3 DEF OthersStay
    <3>4. QED
      BY <3>2, <3>3
  <2>2. QED
    BY <1>1, <1>3, <2>1 DEF DeletesAreMeant
<1>12. PickedWereSeen'
  <2>1. \A d \in StoreClient : new.seq \notin pg_picked'[d]
    BY <1>1, <1>3, <1>4
  <2>2. \A d \in StoreClient : pg_pc'[d] = "commit" => pg_pc[d] = "commit"
    BY <1>6 DEF OthersStay
  <2>3. QED
    BY <1>1, <2>1, <2>2 DEF PickedWereSeen
<1>13. TrimInv'
  <2>1. \A d \in StoreClient : pg_pc'[d] \in {"trim", "commit"} =>
            /\ pg_pc[d] \in {"trim", "commit"} /\ pg_picked'[d] = pg_picked[d]
            /\ Postgres!Seqs(Own(d)) \subseteq Postgres!Seqs(Own(d))'
    BY <1>1, <1>6 DEF OthersStay, Own, Postgres!Seqs
  <2>2. pg_committed \subseteq pg_committed' /\ pg_trimmed' = pg_trimmed /\ pg_kind' = pg_kind
    BY <1>1
  <2>3. QED
    BY <1>8, <1>9, <2>1, <2>2, TrimsKeep
<1>14. TakenInv' /\ Postgres!WipedIsGone'
  <2>1. pg_seq' \in Nat /\ pg_seq' >= pg_seq /\ Postgres!Seqs(pg_rows') \subseteq Postgres!Seqs(pg_rows) \cup ((pg_seq + 1)..pg_seq')
    BY <1>1, <1>3 DEF Postgres!Seqs
  <2>2. pg_taken' = pg_taken /\ pg_wiped' = pg_wiped
    BY <1>1
  <2>3. QED
    BY <2>1, <2>2, SettledKeep
<1>15. WipeInv'
  <2>1. \A d \in StoreClient : pg_pc'[d] \notin {"evict", "wiping"}
    BY <1>1, <1>6, <1>7 DEF StagesFitKind, ListLabel, QueueLabel
  <2>2. QED
    BY <1>14, <2>1 DEF WipeInv
<1>16. OvershootInv'
  <2>1. Queued' \subseteq Queued
    BY <1>1, <1>3 DEF Queued, Postgres!Seqs
  <2>2. Chosen' \subseteq Chosen /\ c \notin Chosen'
    BY <1>6 DEF Chosen, OthersStay
  <2>3. \A d \in Chosen' : Would(d)' \subseteq Would(d)
    BY <1>1, <1>3, <2>2 DEF Chosen, Would, Postgres!Seqs
  <2>4. pg_kind' = pg_kind
    BY <1>1
  <2>5. QED
    BY <1>8, <1>9, <2>1, <2>2, <2>3, <2>4, OvershootKeeps
<1>17. Postgres!PromisedIsKept'
  BY <1>1 DEF Postgres!PromisedIsKept
<1>18. QED
  BY <1>7, <1>8, <1>9, <1>10, <1>11, <1>12, <1>13, <1>14, <1>15, <1>16, <1>17

LEMMA StoreTickKeeps == ASSUME StoreInv, Postgres!Tick PROVE StoreInv'
<1> USE DEF StoreInv, RowsInv
<1>1. /\ pg_now' = pg_now + 1
      /\ UNCHANGED <<pg_kind, pg_seq, pg_rows, pg_record, pg_pc, pg_begun, pg_picked,
            pg_committed, pg_trimmed, pg_taken,
                     pg_erased, pg_wiped, pg_promised>>
  BY DEF Postgres!Tick, Postgres!table, Postgres!client
<1>2. TableTypes' /\ RecordTypes'
  BY <1>1 DEF TableTypes, RecordTypes
<1>3. ClientTypes'
  BY <1>1 DEF ClientTypes
<1>4. StagesFitKind'
  BY <1>1 DEF StagesFitKind, TableTypes, ClientTypes
<1>5. RowsInv'
  BY <1>1 DEF RowsAreNumbered, InsertsArePrivate, DeletesAreMeant, PickedWereSeen
<1>6. TrimInv'
  BY <1>1 DEF TrimInv, PicksAreOld, Own, Postgres!TrimmedForNewer
<1>7. TakenInv' /\ WipeInv'
  BY <1>1 DEF TakenInv, Postgres!NobodyTakesTwice, WipeInv, Postgres!WipedIsGone
<1>8. Postgres!PromisedIsKept'
  BY <1>1 DEF Postgres!PromisedIsKept, RecordTypes, TableTypes
<1>9. OvershootInv'
  <2>0. \A r \in pg_rows : r.expires_at \in Int /\ pg_now \in Nat
    BY DEF TableTypes, Row
  <2>1. Queued' \subseteq Queued
    BY <1>1, <2>0 DEF Queued, Postgres!Seqs
  <2>2. Chosen' \subseteq Chosen
    BY <1>1 DEF Chosen
  <2>3. \A d \in Chosen' : Would(d)' \subseteq Would(d)
    BY <1>1, <2>0 DEF Would, Postgres!Seqs
  <2>4. pg_kind' = pg_kind
    BY <1>1
  <2>5. QED
    BY <1>2, <1>5, <2>1, <2>2, <2>3, <2>4, OvershootKeeps
<1>10. QED
  BY <1>2, <1>3, <1>4, <1>5, <1>6, <1>7, <1>8, <1>9

-----------------------------------------------------------------------------
\* In a list nothing is open.
LEMMA ListStep ==
    ASSUME StoreInv, pg_kind = "list", pg_kind' = pg_kind, TableTypes', RowsAreNumbered',
          StagesFitKind',
           \A r \in pg_rows' : r.by = NoOne /\ r.gone = NoOne,
           \A d \in StoreClient : pg_picked'[d] = pg_picked[d] \/ pg_picked'[d] = {}
    PROVE  RowsInv' /\ PicksAreOld' /\ OvershootInv'
<1>1. \A d \in StoreClient : pg_pc'[d] \notin {"insert"} \cup Open
  BY DEF StagesFitKind, QueueLabel
<1>2. InsertsArePrivate' /\ DeletesAreMeant'
  BY DEF InsertsArePrivate, DeletesAreMeant
<1>3. PickedWereSeen'
  BY <1>1 DEF PickedWereSeen, Open
<1>4. PicksAreOld'
  BY <1>1 DEF PicksAreOld, Open
<1>5. OvershootInv'
  BY DEF OvershootInv
<1>6. QED
  BY <1>2, <1>3, <1>4, <1>5 DEF RowsInv

LEMMA InsertItemKeeps == ASSUME StoreInv, NEW c \in StoreClient,
      Postgres!InsertItem(c) PROVE StoreInv'
<1> DEFINE new == [seq |-> pg_seq + 1, expires_at |-> pg_begun[c] + RowTtl,
                   by |-> NoOne, gone |-> NoOne]
<1> USE DEF StoreInv, RowsInv
<1>1. /\ pg_pc[c] \in {"append", "bury"}
      /\ pg_pc' = [pg_pc EXCEPT ![c] = IF pg_pc[c] = "append" THEN "shorten" ELSE "evict"]
      /\ pg_seq' = pg_seq + 1 /\ pg_rows' = pg_rows \cup {new}
      /\ pg_committed' = pg_committed \cup {pg_seq + 1}
      /\ UNCHANGED <<pg_now, pg_kind, pg_record, pg_begun, pg_picked, pg_trimmed, pg_taken,
            pg_erased, pg_wiped, pg_promised>>
  BY DEF Postgres!InsertItem, Postgres!Insert, Postgres!Goto, Postgres!clock
<1>2. \A r \in pg_rows : r.seq \in Nat /\ r.seq <= pg_seq
  BY DEF TableTypes, Row, RowsAreNumbered
<1>3. new \in Row /\ new.seq = pg_seq + 1 /\ new.by = NoOne /\ new.gone = NoOne /\ pg_seq \in Nat
  BY StoreConstants DEF ClientTypes, TableTypes, Row
<1> HIDE DEF new
<1>4. \A d \in StoreClient : pg_erased[d] \subseteq 0..pg_seq
  BY DEF ClientTypes
<1>5. pg_kind = "list"
  BY <1>1 DEF StagesFitKind, ListLabel
<1>6. ClientTypes' /\ StagesFitKind'
  <2>1. 0..pg_seq \subseteq 0..pg_seq'
    BY <1>1, <1>3
  <2>2. ClientTypes'
    BY <1>1, <2>1 DEF ClientTypes, ListLabel
  <2>3. StagesFitKind'
    BY <1>1 DEF ClientTypes, StagesFitKind, QueueLabel, ListLabel, Open
  <2>4. QED
    BY <2>2, <2>3
<1>7. TableTypes' /\ RecordTypes'
  <2>1. IsFiniteSet(pg_rows')
    BY <1>1, FS_AddElement DEF TableTypes
  <2>2. pg_committed' \subseteq 0..pg_seq' /\ pg_rows' \subseteq Row
    <3>1. pg_committed \subseteq 0..pg_seq /\ pg_rows \subseteq Row
      BY DEF TableTypes
    <3>2. 0..pg_seq \subseteq 0..(pg_seq + 1) /\ pg_seq + 1 \in 0..(pg_seq + 1)
      BY <1>3
    <3>3. QED
      BY <1>1, <1>3, <3>1, <3>2
  <2>3. QED
    BY <1>1, <1>3, <2>1, <2>2 DEF TableTypes, RecordTypes
<1>8. RowsAreNumbered'
  BY <1>1, <1>2, <1>3 DEF RowsAreNumbered
<1>9. RowsInv' /\ OvershootInv'
  <2>1. \A r \in pg_rows' : r.by = NoOne /\ r.gone = NoOne
    BY <1>1, <1>3, <1>5, ListRowsArePlain
  <2>2. \A d \in StoreClient : pg_picked'[d] = pg_picked[d] \/ pg_picked'[d] = {}
    BY <1>1
  <2>3. QED
    BY <1>1, <1>5, <1>6, <1>7, <1>8, <2>1, <2>2, ListStep
<1>10. TrimInv'
  <2>1. \A d \in StoreClient : pg_pc'[d] \in {"trim", "commit"} =>
            /\ pg_pc[d] \in {"trim", "commit"} /\ pg_picked'[d] = pg_picked[d]
            /\ Postgres!Seqs(Own(d)) \subseteq Postgres!Seqs(Own(d))'
    BY <1>1 DEF ClientTypes, Own, Postgres!Seqs
  <2>2. pg_committed \subseteq pg_committed' /\ pg_trimmed' = pg_trimmed /\ pg_kind' = pg_kind
    BY <1>1
  <2>3. QED
    BY <1>7, <1>8, <2>1, <2>2, TrimsKeep
<1>11. TakenInv' /\ Postgres!WipedIsGone'
  <2>1. pg_seq' \in Nat /\ pg_seq' >= pg_seq /\ Postgres!Seqs(pg_rows') \subseteq Postgres!Seqs(pg_rows) \cup ((pg_seq + 1)..pg_seq')
    BY <1>1, <1>3 DEF Postgres!Seqs
  <2>2. pg_taken' = pg_taken /\ pg_wiped' = pg_wiped
    BY <1>1
  <2>3. QED
    BY <2>1, <2>2, SettledKeep
<1>12. WipeInv'
  <2>1. ASSUME NEW d \in StoreClient, pg_pc'[d] = "evict"
        PROVE  \E r \in pg_rows' : \A s \in pg_erased'[d] : s < r.seq
    <3>1. new \in pg_rows' /\ \A s \in pg_erased'[d] : s < new.seq
      BY <1>1, <1>3, <1>4
    <3>2. QED
      BY <3>1
  <2>2. ASSUME NEW d \in StoreClient, pg_pc'[d] = "wiping"
        PROVE  pg_erased'[d] \cap Postgres!Seqs(pg_rows') = {}
    <3>1. pg_pc[d] = "wiping"
      BY <1>1, <2>2 DEF ClientTypes
    <3>2. pg_erased[d] \cap Postgres!Seqs(pg_rows) = {} /\ pg_seq + 1 \notin pg_erased[d]
      BY <1>3, <1>4, <3>1 DEF WipeInv
    <3>3. QED
      BY <1>1, <1>3, <3>2 DEF Postgres!Seqs
  <2>3. QED
    BY <1>11, <2>1, <2>2 DEF WipeInv
<1>13. Postgres!PromisedIsKept'
  BY <1>1 DEF Postgres!PromisedIsKept
<1>14. QED
  BY <1>6, <1>7, <1>9, <1>10, <1>11, <1>12, <1>13

LEMMA TrimItemsKeeps == ASSUME StoreInv, NEW c \in StoreClient,
      Postgres!TrimItems(c) PROVE StoreInv'
<1> USE DEF StoreInv, RowsInv
<1>0. PICK over : over = Postgres!Oldest(pg_rows,
          Cardinality(pg_rows) - IF pg_pc[c] = "evict" THEN 1 ELSE StoreMaxLength)
  OBVIOUS
<1>1. /\ pg_pc[c] \in {"shorten", "evict"}
      /\ pg_pc' = [pg_pc EXCEPT ![c] = IF pg_pc[c] = "evict" THEN "wiping" ELSE "touch"]
      /\ pg_rows' = pg_rows \ over
      /\ pg_trimmed' = IF pg_pc[c] = "shorten" THEN pg_trimmed \cup Postgres!Seqs(over) ELSE pg_trimmed
      /\ UNCHANGED <<pg_now, pg_kind, pg_seq, pg_record, pg_begun, pg_picked, pg_committed,
            pg_taken, pg_erased, pg_wiped, pg_promised>>
  BY <1>0, SameCount DEF Postgres!TrimItems, Postgres!Goto, Postgres!clock
<1>2. pg_kind = "list" /\ StoreMaxLength \in Nat \ {0}
  BY <1>1, StoreConstants DEF StagesFitKind, ListLabel
<1>3. \A r \in pg_rows : r.by = NoOne /\ r.gone = NoOne /\ r.seq \in pg_committed
          /\ r.seq \in Nat /\ r.seq <= pg_seq
  BY <1>2, ListRowsArePlain DEF RowsAreNumbered, TableTypes, Row
<1>3a. Distinct(pg_rows) /\ pg_seq \in Nat /\ Cardinality(pg_rows) \in Nat
  BY FS_CardinalityType DEF Distinct, TableTypes, RowsAreNumbered, Row
<1>4. /\ pg_rows' \subseteq Row /\ IsFiniteSet(pg_rows')
      /\ Postgres!Seqs(pg_rows') \subseteq Postgres!Seqs(pg_rows)
      /\ \A r, q \in pg_rows' : r.seq = q.seq => r = q
      /\ \A q \in pg_rows' : q.seq <= pg_seq
  BY <1>1, FewerRows
<1>5. ClientTypes' /\ StagesFitKind'
  BY <1>1 DEF ClientTypes, StagesFitKind, QueueLabel, ListLabel, Open
<1>6. TableTypes' /\ RecordTypes' /\ Postgres!PromisedIsKept'
  BY <1>1, <1>4 DEF TableTypes, RecordTypes, Postgres!PromisedIsKept
<1>7. RowsAreNumbered'
  BY <1>1, <1>4 DEF RowsAreNumbered
<1>8. RowsInv' /\ OvershootInv' /\ PicksAreOld'
  <2>1. \A r \in pg_rows' : r.by = NoOne /\ r.gone = NoOne
    BY <1>1, <1>3
  <2>2. \A d \in StoreClient : pg_picked'[d] = pg_picked[d] \/ pg_picked'[d] = {}
    BY <1>1
  <2>3. QED
    BY <1>1, <1>2, <1>5, <1>6, <1>7, <2>1, <2>2, ListStep
<1>9. Postgres!TrimmedForNewer'
  <2>1. ASSUME NEW s \in Postgres!Seqs(over), pg_pc[c] = "shorten"
        PROVE  Cardinality({t \in pg_committed : t > s}) >= StoreMaxLength
    <3>0. over = Postgres!Oldest(pg_rows, Cardinality(pg_rows) - StoreMaxLength)
      BY <1>0, <2>1
    <3>1. PICK r \in over : r.seq = s
      BY DEF Postgres!Seqs
    <3>2. Cardinality(Newer(pg_rows, r)) >= Cardinality(pg_rows) - (Cardinality(pg_rows) - StoreMaxLength)
      BY <1>2, <1>3a, <3>0, <3>1, OldestHaveNewer
    <3>3. Newer(pg_rows, r) \in SUBSET pg_rows
      BY DEF Newer
    <3>4. Distinct(Newer(pg_rows, r))
      BY <1>3a, <3>3, DistinctParts
    <3>5. Cardinality(Postgres!Seqs(Newer(pg_rows, r))) = Cardinality(Newer(pg_rows, r))
      BY <3>4, SeqsCount
    <3> DEFINE S == Postgres!Seqs(Newer(pg_rows, r))
               T == {t \in pg_committed : t > s}
    <3>6. S \subseteq T
      BY <1>3, <3>1 DEF Newer, Postgres!Seqs
    <3>7. T \in SUBSET (0..pg_seq)
      BY DEF TableTypes
    <3>8. Cardinality(S) >= StoreMaxLength
      BY <1>2, <1>3a, <3>2, <3>5
    <3> HIDE DEF S, T
    <3>9. IsFiniteSet(T)
      BY <1>3a, <3>7, BoundedIsFinite
    <3>10. Cardinality(S) \in Nat /\ Cardinality(T) \in Nat /\ Cardinality(S) <= Cardinality(T)
      BY <3>6, <3>9, SmallerIsFewer
    <3>11. Cardinality(T) >= StoreMaxLength
      BY <1>2, <3>8, <3>10
    <3>12. QED
      BY <3>11 DEF T
  <2>2. \A s \in pg_trimmed' : Cardinality({t \in pg_committed : t > s}) >= StoreMaxLength
    BY <1>1, <1>2, <2>1, SameCount DEF TrimInv, Postgres!TrimmedForNewer
  <2>3. QED
    BY <1>1, <1>2, <2>2, SameCount DEF Postgres!TrimmedForNewer
<1>10. TakenInv' /\ Postgres!WipedIsGone'
  <2>0. pg_seq' = pg_seq /\ pg_seq \in Nat /\ Postgres!Seqs(pg_rows') \subseteq Postgres!Seqs(pg_rows)
    BY <1>1, <1>3a, <1>4
  <2>1. pg_seq' \in Nat /\ pg_seq' >= pg_seq /\ Postgres!Seqs(pg_rows') \subseteq Postgres!Seqs(pg_rows) \cup ((pg_seq + 1)..pg_seq')
    BY <2>0
  <2>2. pg_taken' = pg_taken /\ pg_wiped' = pg_wiped
    BY <1>1
  <2>3. QED
    BY <2>1, <2>2, SettledKeep
<1>11. WipeInv'
  <2>0. PICK k \in Nat \ {0} : /\ over = Postgres!Oldest(pg_rows, Cardinality(pg_rows) - k)
                               /\ pg_pc[c] = "evict" => k = 1
    BY <1>0, <1>2
  <2>1. ASSUME NEW d \in StoreClient, pg_pc'[d] = "evict"
        PROVE  \E r \in pg_rows' : \A s \in pg_erased'[d] : s < r.seq
    <3>1. pg_pc[d] = "evict"
      BY <1>1, <2>1 DEF ClientTypes
    <3>2. PICK r \in pg_rows : \A s \in pg_erased[d] : s < r.seq
      BY <3>1 DEF WipeInv
    <3>3. pg_rows # {} /\ \A o \in pg_rows : o.seq <= pg_seq
      BY <1>3
    <3>4. PICK m \in pg_rows \ Postgres!Oldest(pg_rows,
              Cardinality(pg_rows) - k) : \A o \in pg_rows : o.seq <= m.seq
      BY <1>3a, <3>3, NewestStays
    <3>5. m \in pg_rows' /\ r.seq <= m.seq
      BY <1>1, <2>0, <3>4
    <3>6. \A s \in pg_erased[d] : s \in Int
      BY DEF ClientTypes
    <3>7. \A s \in pg_erased[d] : s < m.seq
      BY <1>1, <1>3, <3>2, <3>5, <3>6
    <3>8. QED
      BY <1>1, <3>5, <3>7
  <2>2. ASSUME NEW d \in StoreClient, pg_pc'[d] = "wiping"
        PROVE  pg_erased'[d] \cap Postgres!Seqs(pg_rows') = {}
    <3>1. CASE d = c
      <4>1. pg_pc[c] = "evict" /\ over = Postgres!Oldest(pg_rows, Cardinality(pg_rows) - 1)
        BY <1>1, <2>0, <2>2, <3>1 DEF ClientTypes
      <4>2. PICK r \in pg_rows : \A s \in pg_erased[c] : s < r.seq
        BY <4>1 DEF WipeInv
      <4>3. ASSUME NEW q \in pg_rows' PROVE q.seq \notin pg_erased[c]
        <5>1. q \in pg_rows \ Postgres!Oldest(pg_rows, Cardinality(pg_rows) - 1)
          BY <1>1, <4>1
        <5>2. r.seq <= q.seq
          BY <1>3a, <5>1, OnlyTheNewest
        <5>3. QED
          BY <1>3, <4>2, <5>1, <5>2
      <4>4. QED
        BY <1>1, <3>1, <4>3 DEF Postgres!Seqs
    <3>2. CASE d # c
      <4>1. pg_pc[d] = "wiping"
        BY <1>1, <2>2, <3>2 DEF ClientTypes
      <4>2. QED
        BY <1>1, <1>4, <4>1 DEF WipeInv
    <3>3. QED
      BY <3>1, <3>2
  <2>3. QED
    BY <1>10, <2>1, <2>2 DEF WipeInv
<1>12. QED
  BY <1>5, <1>6, <1>8, <1>9, <1>10, <1>11 DEF TrimInv

LEMMA TouchKeeps == ASSUME StoreInv, NEW c \in StoreClient, Postgres!Touch(c) PROVE StoreInv'
<1> DEFINE g == [r \in pg_rows |-> [r EXCEPT !.expires_at = pg_begun[c] + RowTtl]]
<1> USE DEF StoreInv, RowsInv
<1>1. /\ pg_pc[c] \in {"touch", "wiping"} /\ pg_pc' = [pg_pc EXCEPT ![c] = "idle"]
      /\ pg_begun' = [pg_begun EXCEPT ![c] = 0] /\ pg_picked' = [pg_picked EXCEPT ![c] = {}]
      /\ pg_rows' = {g[r] : r \in pg_rows}
      /\ pg_wiped' = IF pg_pc[c] = "wiping" THEN pg_wiped \cup pg_erased[c] ELSE pg_wiped
      /\ UNCHANGED <<pg_now, pg_kind, pg_seq, pg_record, pg_committed, pg_trimmed, pg_taken,
            pg_erased, pg_promised>>
  BY DEF Postgres!Touch, Postgres!Return, Postgres!Goto, Postgres!clock
<1>2. pg_kind = "list"
  BY <1>1 DEF StagesFitKind, ListLabel
<1>3. /\ \A r \in pg_rows : r \in Row /\ r.by = NoOne /\ r.gone = NoOne /\ r.seq \in pg_committed
      /\ pg_begun[c] + RowTtl \in Int
  BY <1>2, ListRowsArePlain, StoreConstants
     DEF RowsAreNumbered, TableTypes, ClientTypes, Row
<1>4. /\ g \in [pg_rows -> Row] /\ pg_rows \in SUBSET pg_rows
      /\ \A r \in pg_rows : g[r].seq = r.seq /\ g[r].by = r.by /\ g[r].gone = r.gone
  BY <1>3 DEF Row
<1> HIDE DEF g
<1>5. \A r \in pg_rows : g[r].seq = r.seq
  BY <1>4
<1>6. /\ pg_rows' \subseteq Row /\ IsFiniteSet(pg_rows')
      /\ Postgres!Seqs(pg_rows') = Postgres!Seqs(pg_rows)
      /\ Postgres!Seqs(pg_rows') \subseteq Postgres!Seqs(pg_rows)
      /\ \A r, q \in pg_rows' : r.seq = q.seq => r = q
      /\ \A q \in pg_rows' : q.seq <= pg_seq
  BY <1>1, <1>4, <1>5, MappedRows
<1>7. ClientTypes' /\ StagesFitKind'
  <2>1. ClientTypes'
    BY <1>1 DEF ClientTypes
  <2>2. StagesFitKind'
    BY <1>1 DEF ClientTypes, TableTypes, StagesFitKind, QueueLabel, ListLabel, Open
  <2>3. QED
    BY <2>1, <2>2
<1>8. TableTypes' /\ RecordTypes' /\ Postgres!PromisedIsKept'
  BY <1>1, <1>6 DEF TableTypes, RecordTypes, Postgres!PromisedIsKept
<1>9. \A r \in pg_rows' : r.by = NoOne /\ r.gone = NoOne /\ r.seq \in pg_committed
  BY <1>1, <1>3, <1>4
<1>10. RowsAreNumbered'
  BY <1>1, <1>6, <1>9 DEF RowsAreNumbered
<1>11. RowsInv' /\ OvershootInv' /\ PicksAreOld'
  <2>1. \A d \in StoreClient : pg_picked'[d] = pg_picked[d] \/ pg_picked'[d] = {}
    BY <1>1 DEF ClientTypes
  <2>2. \A r \in pg_rows' : r.by = NoOne /\ r.gone = NoOne
    BY <1>9
  <2>3. QED
    BY <1>1, <1>2, <1>7, <1>8, <1>10, <2>1, <2>2, ListStep
<1>12. Postgres!TrimmedForNewer'
  BY <1>1 DEF TrimInv, Postgres!TrimmedForNewer
<1>13. TakenInv'
  BY <1>1, <1>6 DEF TakenInv, Postgres!NobodyTakesTwice
<1>14. WipeInv'
  <2>1. Postgres!WipedIsGone'
    BY <1>1, <1>6 DEF WipeInv, Postgres!WipedIsGone
  <2>2. \A d \in StoreClient : pg_pc'[d] = "wiping" =>
            pg_erased'[d] \cap Postgres!Seqs(pg_rows') = {}
    BY <1>1, <1>6 DEF WipeInv, ClientTypes
  <2>3. ASSUME NEW d \in StoreClient, pg_pc'[d] = "evict"
        PROVE  \E r \in pg_rows' : \A s \in pg_erased'[d] : s < r.seq
    <3>1. pg_pc[d] = "evict"
      BY <1>1, <2>3 DEF ClientTypes
    <3>2. PICK r \in pg_rows : \A s \in pg_erased[d] : s < r.seq
      BY <3>1 DEF WipeInv
    <3>3. g[r] \in pg_rows' /\ g[r].seq = r.seq
      BY <1>1, <1>5
    <3>4. QED
      BY <1>1, <3>2, <3>3
  <2>4. QED
    BY <2>1, <2>2, <2>3 DEF WipeInv
<1>15. QED
  BY <1>7, <1>8, <1>11, <1>12, <1>13, <1>14 DEF TrimInv

-----------------------------------------------------------------------------
\* Calls, and the statements that choose.

Starts(k, l) ==
    <<k, l>> \in {<<"queue", "purge">>, <<"queue", "clean">>, <<"list", "append">>,
                 <<"list", "bury">>, <<"cache", "tidy">>}

LEMMA CallKeeps ==
    ASSUME StoreInv, NEW c \in StoreClient, NEW k, NEW l, Postgres!Call(c, k, l),
           Starts(k, l),
           UNCHANGED <<pg_committed, pg_trimmed, pg_taken, pg_wiped, pg_promised>>,
           pg_erased' = pg_erased \/ pg_erased' = [pg_erased EXCEPT ![c] = Postgres!Seqs(pg_rows)]
    PROVE  StoreInv'
<1> USE DEF StoreInv, RowsInv
<1>1. /\ pg_kind = k /\ pg_pc[c] = "idle" /\ pg_pc' = [pg_pc EXCEPT ![c] = l]
      /\ pg_begun' = [pg_begun EXCEPT ![c] = pg_now]
      /\ UNCHANGED <<pg_now, pg_kind, pg_seq, pg_rows, pg_record, pg_picked, pg_committed,
            pg_trimmed, pg_taken, pg_wiped, pg_promised>>
  BY DEF Postgres!Call, Postgres!Goto, Postgres!clock, Postgres!table
<1>2. OthersStay(c) /\ pg_pc'[c] = l
  BY <1>1 DEF OthersStay, ClientTypes
<1>3. ClientTypes' /\ StagesFitKind'
  <2>1. Postgres!Seqs(pg_rows) \subseteq 0..pg_seq
    BY SeqsAreBounded
  <2>2. l \in {"idle", "tidy"} \cup QueueLabel \cup ListLabel
    BY DEF Starts, QueueLabel, ListLabel
  <2>3. ClientTypes'
    BY <1>1, <2>1, <2>2 DEF ClientTypes, TableTypes
  <2>4. StagesFitKind'
    BY <1>1 DEF ClientTypes, TableTypes, Starts, StagesFitKind, QueueLabel, ListLabel, Open
  <2>5. QED
    BY <2>3, <2>4
<1>4. RecordTypes' /\ Postgres!PromisedIsKept'
  BY <1>1 DEF RecordTypes, Postgres!PromisedIsKept
<1>5. /\ pg_pc[c] \notin {"insert"} \cup Open
      /\ pg_pc'[c] \notin {"insert", "evict", "wiping"} \cup Open
      /\ \A r \in pg_rows : r.seq \in pg_picked'[c] => r.by \in {NoOne, c}
  BY <1>1, <1>2 DEF Starts, Open, PickedWereSeen
<1>6. UNCHANGED <<pg_now, pg_kind, pg_seq, pg_rows, pg_committed, pg_trimmed, pg_taken, pg_wiped>>
  BY <1>1
<1>7. QED
  BY <1>2, <1>3, <1>4, <1>5, <1>6, QuietKeeps

LEMMA CallsKeep ==
    ASSUME StoreInv, NEW c \in StoreClient,
           Postgres!Enqueue(c) \/ Postgres!Dequeue(c) \/ Postgres!AppendToList(c)
                 \/ Postgres!DeleteHistory(c) \/ Postgres!Get(c)
    PROVE  StoreInv'
<1> USE DEF Postgres!history
<1>1. CASE Postgres!Enqueue(c)
  <2>1. /\ Postgres!Call(c, "queue", "purge")
        /\ UNCHANGED <<pg_committed, pg_trimmed, pg_taken, pg_wiped, pg_promised>>
        /\ pg_erased' = pg_erased \/ pg_erased' = [pg_erased EXCEPT ![c] = Postgres!Seqs(pg_rows)]
    BY <1>1 DEF Postgres!Enqueue
  <2>2. Starts("queue", "purge")
    BY DEF Starts
  <2>3. QED
    BY <2>1, <2>2, CallKeeps
<1>2. CASE Postgres!Dequeue(c)
  <2>1. /\ Postgres!Call(c, "queue", "clean")
        /\ UNCHANGED <<pg_committed, pg_trimmed, pg_taken, pg_wiped, pg_promised>>
        /\ pg_erased' = pg_erased \/ pg_erased' = [pg_erased EXCEPT ![c] = Postgres!Seqs(pg_rows)]
    BY <1>2 DEF Postgres!Dequeue
  <2>2. Starts("queue", "clean")
    BY DEF Starts
  <2>3. QED
    BY <2>1, <2>2, CallKeeps
<1>3. CASE Postgres!AppendToList(c)
  <2>1. /\ Postgres!Call(c, "list", "append")
        /\ UNCHANGED <<pg_committed, pg_trimmed, pg_taken, pg_wiped, pg_promised>>
        /\ pg_erased' = pg_erased \/ pg_erased' = [pg_erased EXCEPT ![c] = Postgres!Seqs(pg_rows)]
    BY <1>3 DEF Postgres!AppendToList
  <2>2. Starts("list", "append")
    BY DEF Starts
  <2>3. QED
    BY <2>1, <2>2, CallKeeps
<1>4. CASE Postgres!DeleteHistory(c)
  <2>1. /\ Postgres!Call(c, "list", "bury") /\ UNCHANGED <<pg_committed, pg_trimmed, pg_taken,
              pg_wiped, pg_promised>>
        /\ pg_erased' = pg_erased \/ pg_erased' = [pg_erased EXCEPT ![c] = Postgres!Seqs(pg_rows)]
    BY <1>4 DEF Postgres!DeleteHistory
  <2>2. Starts("list", "bury")
    BY DEF Starts
  <2>3. QED
    BY <2>1, <2>2, CallKeeps
<1>5. CASE Postgres!Get(c)
  <2>1. /\ Postgres!Call(c, "cache", "tidy") /\ UNCHANGED <<pg_committed, pg_trimmed, pg_taken,
              pg_wiped, pg_promised>>
        /\ pg_erased' = pg_erased \/ pg_erased' = [pg_erased EXCEPT ![c] = Postgres!Seqs(pg_rows)]
    BY <1>5 DEF Postgres!Get
  <2>2. Starts("cache", "tidy")
    BY DEF Starts
  <2>3. QED
    BY <2>1, <2>2, CallKeeps
<1>6. QED
  BY <1>1, <1>2, <1>3, <1>4, <1>5

LEMMA TidyKeeps == ASSUME StoreInv, NEW c \in StoreClient, Postgres!Tidy(c) PROVE StoreInv'
<1> USE DEF StoreInv, RowsInv
<1>1. /\ pg_pc[c] = "tidy" /\ pg_pc' = [pg_pc EXCEPT ![c] = "idle"]
      /\ pg_begun' = [pg_begun EXCEPT ![c] = 0] /\ pg_picked' = [pg_picked EXCEPT ![c] = {}]
      /\ pg_record' = IF pg_record.expires_at <= pg_now THEN Postgres!NoRecord ELSE pg_record
      /\ UNCHANGED <<pg_now, pg_kind, pg_seq, pg_rows, pg_committed, pg_trimmed, pg_taken,
            pg_erased, pg_wiped, pg_promised>>
  BY DEF Postgres!Tidy, Postgres!Return, Postgres!Goto, Postgres!clock, Postgres!history
<1>2. OthersStay(c) /\ pg_pc'[c] = "idle" /\ pg_picked'[c] = {}
  BY <1>1 DEF OthersStay, ClientTypes
<1>3. ClientTypes' /\ StagesFitKind'
  <2>1. ClientTypes'
    BY <1>1 DEF ClientTypes
  <2>2. StagesFitKind'
    BY <1>1 DEF ClientTypes, TableTypes, StagesFitKind, QueueLabel, ListLabel, Open
  <2>3. QED
    BY <2>1, <2>2
<1>4. RecordTypes' /\ Postgres!PromisedIsKept'
  BY <1>1 DEF RecordTypes, Postgres!PromisedIsKept, Postgres!NoRecord, TableTypes
<1>5. /\ pg_pc[c] \notin {"insert"} \cup Open
      /\ pg_pc'[c] \notin {"insert", "evict", "wiping"} \cup Open
      /\ \A r \in pg_rows : r.seq \in pg_picked'[c] => r.by \in {NoOne, c}
  BY <1>1, <1>2 DEF Open
<1>6. UNCHANGED <<pg_now, pg_kind, pg_seq, pg_rows, pg_committed, pg_trimmed, pg_taken, pg_wiped>>
  BY <1>1
<1>7. QED
  BY <1>2, <1>3, <1>4, <1>5, <1>6, QuietKeeps

LEMMA RecordKeeps ==
    ASSUME StoreInv, NEW c \in StoreClient, Postgres!SetKey(c) \/ Postgres!SetIfNotExists(c)
          \/ Postgres!Delete(c)
    PROVE  StoreInv'
<1> USE DEF StoreInv, RowsInv
<1>1. /\ pg_pc[c] = "idle"
      /\ UNCHANGED <<pg_now, pg_kind, pg_seq, pg_rows, pg_pc, pg_begun, pg_picked,
            pg_committed, pg_trimmed, pg_taken, pg_erased, pg_wiped>>
  BY DEF Postgres!SetKey, Postgres!SetIfNotExists, Postgres!Delete,
         Postgres!OneStatement, Postgres!Store, Postgres!clock, Postgres!client,
                 Postgres!table, Postgres!history
<1>2. RecordTypes' /\ Postgres!PromisedIsKept'
  <2>1. pg_now + RowTtl \in Int /\ Postgres!NoRecord.expires_at \in Int
    BY StoreConstants DEF TableTypes, Postgres!NoRecord
  <2>2. \/ UNCHANGED <<pg_record, pg_promised>>
        \/ pg_record' = pg_promised' /\ pg_record'.expires_at \in Int
    BY <2>1 DEF Postgres!SetKey, Postgres!SetIfNotExists, Postgres!Delete,
                Postgres!Store, Postgres!table, Postgres!history
  <2>3. QED
    BY <1>1, <2>2 DEF RecordTypes, Postgres!PromisedIsKept
<1>3. OthersStay(c)
  BY <1>1 DEF OthersStay
<1>4. ClientTypes' /\ StagesFitKind'
  BY <1>1 DEF ClientTypes, StagesFitKind
<1>5. /\ pg_pc[c] \notin {"insert"} \cup Open
      /\ pg_pc'[c] \notin {"insert", "evict", "wiping"} \cup Open
      /\ \A r \in pg_rows : r.seq \in pg_picked'[c] => r.by \in {NoOne, c}
  BY <1>1 DEF Open, PickedWereSeen
<1>6. UNCHANGED <<pg_now, pg_kind, pg_seq, pg_rows, pg_committed, pg_trimmed, pg_taken, pg_wiped>>
  BY <1>1
<1>7. QED
  BY <1>2, <1>3, <1>4, <1>5, <1>6, QuietKeeps

LEMMA PickKeeps == ASSUME StoreInv, NEW c \in StoreClient, Postgres!Pick(c) PROVE StoreInv'
<1> USE DEF StoreInv, RowsInv
<1>0. PICK live : live = {r \in Postgres!Visible(c) : r.expires_at > pg_now}
  OBVIOUS
<1>1. /\ pg_pc[c] = "pick" /\ pg_pc' = [pg_pc EXCEPT ![c] = "take"]
      /\ pg_picked' = [pg_picked EXCEPT ![c] = Postgres!Seqs(Postgres!Oldest(live, 1))]
      /\ UNCHANGED <<pg_now, pg_kind, pg_seq, pg_rows, pg_record, pg_begun, pg_committed,
            pg_trimmed, pg_taken, pg_erased, pg_wiped, pg_promised>>
  BY <1>0 DEF Postgres!Pick, Postgres!Goto, Postgres!clock, Postgres!table, Postgres!history
<1>2. OthersStay(c) /\ pg_pc'[c] = "take" /\ pg_picked'[c] = Postgres!Seqs(Postgres!Oldest(live, 1))
  BY <1>1 DEF OthersStay, ClientTypes
<1>3. Postgres!Oldest(live, 1) \subseteq pg_rows
          /\ \A r \in Postgres!Oldest(live, 1) : r.by \in {NoOne, c}
  BY <1>0 DEF Postgres!Oldest, Postgres!Visible
<1>4. ClientTypes' /\ StagesFitKind'
  <2>1. Postgres!Seqs(Postgres!Oldest(live, 1)) \subseteq 0..pg_seq
    BY <1>3, SeqsAreBounded DEF Postgres!Seqs
  <2>2. ClientTypes'
    BY <1>1, <2>1 DEF ClientTypes, QueueLabel
  <2>3. StagesFitKind'
    BY <1>1 DEF ClientTypes, StagesFitKind, QueueLabel, ListLabel, Open
  <2>4. QED
    BY <2>2, <2>3
<1>5. RecordTypes' /\ Postgres!PromisedIsKept'
  BY <1>1 DEF RecordTypes, Postgres!PromisedIsKept
<1>6. /\ pg_pc[c] \notin {"insert"} \cup Open
      /\ pg_pc'[c] \notin {"insert", "evict", "wiping"} \cup Open
  BY <1>1, <1>2 DEF Open
<1>7. \A r \in pg_rows : r.seq \in pg_picked'[c] => r.by \in {NoOne, c}
  BY <1>2, <1>3 DEF Postgres!Seqs, RowsAreNumbered
<1>8. UNCHANGED <<pg_now, pg_kind, pg_seq, pg_rows, pg_committed, pg_trimmed, pg_taken, pg_wiped>>
  BY <1>1
<1>9. QED
  BY <1>2, <1>4, <1>5, <1>6, <1>7, <1>8, QuietKeeps

LEMMA ChooseKeeps == ASSUME StoreInv, NEW c \in StoreClient, Postgres!Choose(c) PROVE StoreInv'
<1> USE DEF StoreInv, RowsInv
<1>0. PICK live : live = {r \in Postgres!Visible(c) : r.expires_at > pg_begun[c]}
  OBVIOUS
<1>0a. PICK n : n = Cardinality(live) - StoreMaxQueueSize
  OBVIOUS
<1>0b. PICK old : old = Postgres!Oldest(live, n)
  OBVIOUS
<1>1. /\ pg_pc[c] = "choose" /\ pg_pc' = [pg_pc EXCEPT ![c] = "trim"]
      /\ pg_picked' = [pg_picked EXCEPT ![c] = Postgres!Seqs(old)]
      /\ UNCHANGED <<pg_now, pg_kind, pg_seq, pg_rows, pg_record, pg_begun, pg_committed,
            pg_trimmed, pg_taken, pg_erased, pg_wiped, pg_promised>>
  BY <1>0, <1>0a, <1>0b, SameCount DEF Postgres!Choose, Postgres!Goto, Postgres!clock,
                            Postgres!table, Postgres!history
<1>2. pg_kind = "queue" /\ c # NoOne /\ StoreMaxQueueSize \in Nat \ {0}
  BY <1>1, StoreConstants DEF StagesFitKind, QueueLabel, Open
<1>3. /\ live \in SUBSET pg_rows /\ old \in SUBSET live
      /\ \A r \in live : r.by \in {NoOne, c}
  BY <1>0, <1>0b DEF Postgres!Oldest, Postgres!Visible
<1>4. Distinct(live) /\ Cardinality(live) \in Nat /\ n \in Int /\ n <= Cardinality(live)
  <2>1. Distinct(pg_rows)
    BY DEF Distinct, TableTypes, RowsAreNumbered, Row
  <2>2. Distinct(live)
    BY <1>3, <2>1, DistinctParts
  <2>3. Cardinality(live) \in Nat
    BY <2>2, FS_CardinalityType DEF Distinct
  <2>4. QED
    BY <1>0a, <1>2, <2>2, <2>3
<1>5. /\ pg_pc'[c] = "trim" /\ pg_picked'[c] = Postgres!Seqs(old)
      /\ \A d \in StoreClient : d # c => pg_pc'[d] = pg_pc[d] /\ pg_picked'[d] = pg_picked[d]
  BY <1>1 DEF ClientTypes
<1>6. ClientTypes' /\ StagesFitKind'
  <2>1. Postgres!Seqs(old) \subseteq 0..pg_seq
    BY <1>3, SeqsAreBounded DEF Postgres!Seqs
  <2>2. ClientTypes'
    BY <1>1, <2>1 DEF ClientTypes, QueueLabel, Open
  <2>3. StagesFitKind'
    BY <1>1, <1>2 DEF ClientTypes, StagesFitKind, QueueLabel, ListLabel, Open
  <2>4. QED
    BY <2>2, <2>3
<1>7. TableTypes' /\ RecordTypes' /\ Postgres!PromisedIsKept'
  BY <1>1 DEF TableTypes, RecordTypes, Postgres!PromisedIsKept
<1>8. \A r \in pg_rows : r.by \in StoreClient \cup {NoOne} /\ r.gone \in StoreClient \cup {NoOne}
  BY DEF TableTypes, Row
<1>9. RowsAreNumbered'
  BY <1>1 DEF RowsAreNumbered
<1>10. InsertsArePrivate'
  BY <1>1, <1>5, <1>8 DEF InsertsArePrivate, Open
<1>11. DeletesAreMeant'
  <2>1. ASSUME NEW r \in pg_rows, r.gone # NoOne
        PROVE  /\ pg_pc'[r.gone] \in {"insert"} \cup Open
               /\ \/ r.expires_at <= pg_begun[r.gone]
                  \/ pg_pc'[r.gone] = "commit" /\ r.seq \in pg_picked'[r.gone]
    <3>1. /\ pg_pc[r.gone] \in {"insert"} \cup Open
          /\ \/ r.expires_at <= pg_begun[r.gone]
             \/ pg_pc[r.gone] = "commit" /\ r.seq \in pg_picked[r.gone]
      BY <2>1 DEF DeletesAreMeant
    <3>2. CASE r.gone = c
      BY <1>1, <1>5, <3>1, <3>2 DEF Open
    <3>3. CASE r.gone # c
      BY <1>5, <1>8, <2>1, <3>1, <3>3
    <3>4. QED
      BY <3>2, <3>3
  <2>2. QED
    BY <1>1, <2>1 DEF DeletesAreMeant
<1>12. PickedWereSeen'
  <2>1. \A r \in pg_rows : r.seq \in Postgres!Seqs(old) => r \in old
    BY <1>3 DEF Postgres!Seqs, RowsAreNumbered
  <2>2. QED
    BY <1>1, <1>3, <1>5, <2>1 DEF PickedWereSeen
<1>13. PicksAreOld'
  <2>1. ASSUME NEW s \in Postgres!Seqs(old)
        PROVE  Cardinality({t \in pg_committed \cup Postgres!Seqs(Own(c)) : t > s}) >= StoreMaxQueueSize
    <3>1. PICK r \in old : r.seq = s
      BY DEF Postgres!Seqs
    <3>2. Cardinality(Newer(live, r)) >= Cardinality(live) - n
      BY <1>0b, <1>4, <3>1, OldestHaveNewer
    <3>3. Newer(live, r) \in SUBSET live
      BY DEF Newer
    <3>4. Distinct(Newer(live, r))
      BY <1>4, <3>3, DistinctParts
    <3>5. Cardinality(Postgres!Seqs(Newer(live, r))) = Cardinality(Newer(live, r))
      BY <3>4, SeqsCount
    <3> DEFINE S == Postgres!Seqs(Newer(live, r))
               T == {t \in pg_committed \cup Postgres!Seqs(Own(c)) : t > s}
    <3>6. S \subseteq T
      <4>1. \A o \in live : o.seq \in pg_committed \cup Postgres!Seqs(Own(c))
        BY <1>3 DEF RowsAreNumbered, Own, Postgres!Seqs
      <4>2. QED
        BY <3>1, <3>3, <4>1 DEF Newer, Postgres!Seqs
    <3>7. T \in SUBSET (0..pg_seq) /\ pg_seq \in Nat
      BY SeqsAreBounded DEF TableTypes, Own, Postgres!Seqs
    <3>8. Cardinality(S) >= StoreMaxQueueSize
      BY <1>0a, <1>2, <1>4, <3>2, <3>5
    <3> HIDE DEF S, T
    <3>9. IsFiniteSet(T)
      BY <3>7, BoundedIsFinite
    <3>10. Cardinality(S) \in Nat /\ Cardinality(T) \in Nat /\ Cardinality(S) <= Cardinality(T)
      BY <3>6, <3>9, SmallerIsFewer
    <3>11. Cardinality(T) >= StoreMaxQueueSize
      BY <1>2, <3>8, <3>10
    <3>12. QED
      BY <3>11 DEF T
  <2>2. ASSUME NEW d \in StoreClient, pg_pc'[d] \in {"trim", "commit"}, NEW s \in pg_picked'[d]
        PROVE  Cardinality({t \in pg_committed \cup Postgres!Seqs(Own(d)) : t > s}) >= StoreMaxQueueSize
    <3>1. CASE d = c
      BY <1>5, <2>1, <2>2, <3>1
    <3>2. CASE d # c
      BY <1>5, <2>2, <3>2 DEF TrimInv, PicksAreOld
    <3>3. QED
      BY <3>1, <3>2
  <2>3. QED
    BY <1>1, <2>2 DEF PicksAreOld, Own
<1>14. Postgres!TrimmedForNewer' /\ TakenInv'
  BY <1>1 DEF TrimInv, Postgres!TrimmedForNewer, TakenInv, Postgres!NobodyTakesTwice
<1>15. WipeInv'
  <2>1. \A d \in StoreClient : pg_pc'[d] \notin {"evict", "wiping"}
    BY <1>1, <1>2, <1>6 DEF StagesFitKind, ListLabel
  <2>2. QED
    BY <1>1, <2>1 DEF WipeInv, Postgres!WipedIsGone
<1>16. OvershootInv'
  <2>1. PICK rank \in [StoreClient -> Nat], base \in Nat, top \in Nat : InOrder(rank, base, top)
    BY <1>2 DEF OvershootInv
  <2>2. PICK rank2 : rank2 = [rank EXCEPT ![c] = top + 1]
    OBVIOUS
  <2>3. /\ rank2 \in [StoreClient -> Nat] /\ rank2[c] = top + 1
        /\ \A d \in StoreClient : d # c => rank2[d] = rank[d]
        /\ \A d \in StoreClient : rank[d] \in Nat /\ rank[d] <= top
        /\ base <= top
    BY <2>1, <2>2 DEF InOrder
  <2>4. c \notin Chosen /\ Chosen' = Chosen \cup {c} /\ Chosen \subseteq StoreClient
    BY <1>1, <1>5 DEF Chosen
  <2>5. Queued' = Queued
    BY <1>1 DEF Queued
  <2>6. \A d \in Chosen : d # c /\ Would(d)' = Would(d)
    BY <1>1, <1>5, <2>4 DEF Would
  <2>7. ASSUME NEW m \in Nat, m <= top PROVE Before(rank2, m)' = Before(rank, m)
    BY <2>3, <2>4, <2>7 DEF Before
  <2>8. Cardinality(Would(c)') + Cardinality(Before(rank2, rank2[c])') <= Bound
    <3> DEFINE rest == live \ old
    <3>1. IsFiniteSet(rest) /\ Cardinality(rest) <= Cardinality(live) - n
      BY <1>0b, <1>4, OldestAreEnough
    <3>2. Distinct(rest)
      <4>1. rest \in SUBSET live
        OBVIOUS
      <4>2. QED
        BY <1>4, <4>1, DistinctParts
    <3>3. IsFiniteSet(Postgres!Seqs(rest)) /\ Cardinality(Postgres!Seqs(rest)) = Cardinality(rest)
      BY <3>2, SeqsCount
    <3>4. Would(c)' \subseteq Postgres!Seqs(rest)
      <4>1. ASSUME NEW r \in pg_rows, r.by \in {NoOne, c}, r.expires_at > pg_now,
                r.seq \notin Postgres!Seqs(old)
            PROVE  r \in rest
        <5>1. r.expires_at \in Int /\ pg_now \in Nat /\ pg_begun[c] \in Nat /\ pg_begun[c] <= pg_now
          BY DEF TableTypes, Row, ClientTypes, StagesFitKind
        <5>2. ~(r.expires_at <= pg_begun[c]) /\ r.expires_at > pg_begun[c]
          BY <4>1, <5>1
        <5>3. r.gone # c
          BY <1>1, <1>2, <5>2 DEF DeletesAreMeant
        <5>4. r \in live
          BY <1>0, <4>1, <5>2, <5>3 DEF Postgres!Visible
        <5>5. r \notin old
          BY <4>1 DEF Postgres!Seqs
        <5>6. QED
          BY <5>4, <5>5
      <4> HIDE DEF rest
      <4>2. QED
        BY <1>1, <1>5, <4>1 DEF Would, Postgres!Seqs
    <3>5. Cardinality(Would(c)') \in Nat /\ Cardinality(Would(c)') <= Cardinality(Postgres!Seqs(rest))
      BY <3>3, <3>4, SmallerIsFewer
    <3>6. Cardinality(rest) \in Nat
      BY <3>1, FS_CardinalityType
    <3>7. Before(rank2, rank2[c])' \in SUBSET (StoreClient \ {c})
      BY <2>3 DEF Before, Chosen
    <3>8. /\ IsFiniteSet(StoreClient \ {c}) /\ Cardinality(StoreClient \ {c}) = Cardinality(StoreClient) - 1
          /\ Cardinality(StoreClient) \in Nat
      BY FS_RemoveElement, FS_CardinalityType, StoreConstants
    <3>9. /\ Cardinality(Before(rank2, rank2[c])') \in Nat
          /\ Cardinality(Before(rank2, rank2[c])') <= Cardinality(StoreClient \ {c})
      BY <3>7, <3>8, SmallerIsFewer
    <3> HIDE DEF rest
    <3>10. Cardinality(Would(c)') <= StoreMaxQueueSize
      BY <1>0a, <1>2, <1>4, <3>1, <3>3, <3>5, <3>6
    <3>11. QED
      BY <1>2, <3>5, <3>8, <3>9, <3>10 DEF Bound
  <2>9. Cardinality(Queued') + Cardinality(Before(rank2, base)') <= Bound
    BY <2>1, <2>3, <2>5, <2>7 DEF InOrder
  <2>10. ASSUME NEW d \in Chosen', rank2[d] >= base
         PROVE  Cardinality(Would(d)') + Cardinality(Before(rank2, rank2[d])') <= Bound
    <3>1. CASE d = c
      BY <2>8, <3>1
    <3>2. CASE d # c
      <4>1. d \in Chosen /\ rank2[d] = rank[d] /\ rank[d] \in Nat /\ rank[d] <= top
        BY <2>3, <2>4, <3>2
      <4>2. Before(rank2, rank[d])' = Before(rank, rank[d])
        BY <2>7, <4>1
      <4>3. Cardinality(Would(d)) + Cardinality(Before(rank, rank[d])) <= Bound
        BY <2>1, <2>10, <4>1 DEF InOrder
      <4>4. QED
        BY <2>6, <4>1, <4>2, <4>3
    <3>3. QED
      BY <3>1, <3>2
  <2>11. \A d, e \in Chosen' : rank2[d] = rank2[e] => d = e
    BY <2>1, <2>3, <2>4 DEF InOrder
  <2>12. base <= top + 1 /\ \A d \in StoreClient : rank2[d] <= top + 1
    BY <2>3
  <2>13. InOrder(rank2, base, top + 1)'
    BY <2>9, <2>10, <2>11, <2>12 DEF InOrder, Bound
  <2>14. QED
    BY <2>3, <2>13 DEF OvershootInv
<1>17. QED
  BY <1>6, <1>7, <1>9, <1>10, <1>11, <1>12, <1>13, <1>14, <1>15, <1>16 DEF TrimInv

LEMMA OneMore ==
    ASSUME NEW S, IsFiniteSet(S), NEW x, NEW T \in SUBSET (S \cup {x})
    PROVE  /\ Cardinality(T) \in Nat /\ Cardinality(S) \in Nat
           /\ Cardinality(T) <= Cardinality(S) + 1
<1>1. /\ IsFiniteSet(S \cup {x}) /\ Cardinality(S) \in Nat
      /\ Cardinality(S \cup {x}) \in {Cardinality(S), Cardinality(S) + 1}
  BY FS_AddElement, FS_CardinalityType
<1>2. Cardinality(T) \in Nat /\ Cardinality(T) <= Cardinality(S \cup {x})
  BY <1>1, SmallerIsFewer
<1>3. QED
  BY <1>1, <1>2

LEMMA CommitKeeps == ASSUME StoreInv, NEW c \in StoreClient, Postgres!Commit(c) PROVE StoreInv'
<1> DEFINE kept == {r \in pg_rows : r.gone # c}
           g == [r \in kept |-> IF r.by = c THEN [r EXCEPT !.by = NoOne] ELSE r]
<1> USE DEF StoreInv, RowsInv
<1>1. /\ pg_pc[c] = "commit" /\ pg_pc' = [pg_pc EXCEPT ![c] = "idle"]
      /\ pg_begun' = [pg_begun EXCEPT ![c] = 0] /\ pg_picked' = [pg_picked EXCEPT ![c] = {}]
      /\ pg_rows' = {g[r] : r \in kept}
      /\ pg_committed' = pg_committed \cup Postgres!Seqs(Own(c))
      /\ pg_trimmed' = pg_trimmed \cup (pg_picked[c] \cap Postgres!Seqs({r \in pg_rows : r.gone = c}))
      /\ UNCHANGED <<pg_now, pg_kind, pg_seq, pg_record, pg_taken, pg_erased, pg_wiped,
            pg_promised>>
  BY DEF Postgres!Commit, Postgres!Return, Postgres!Goto, Postgres!clock, Own
<1>2. \A r \in pg_rows : /\ r \in Row /\ r.by \in StoreClient \cup {NoOne}
                         /\ r.gone \in StoreClient \cup {NoOne}
  BY DEF TableTypes, Row
<1>3. pg_kind = "queue" /\ c # NoOne /\ StoreMaxQueueSize \in Nat \ {0}
  BY <1>1, StoreConstants DEF StagesFitKind, QueueLabel, Open
<1>4. kept \in SUBSET pg_rows /\ \A r \in kept : r.gone # c
  OBVIOUS
<1>5. /\ g \in [kept -> Row]
      /\ \A r \in kept : /\ g[r].seq = r.seq /\ g[r].expires_at = r.expires_at
                         /\ g[r].gone = r.gone
                         /\ g[r].by = IF r.by = c THEN NoOne ELSE r.by
                         /\ r.by # c => g[r] = r
  BY <1>2 DEF Row
<1>5a. \A r \in pg_rows : r.gone # c => r \in kept
  OBVIOUS
<1> HIDE DEF g, kept
<1>6. /\ pg_pc'[c] = "idle" /\ pg_picked'[c] = {}
      /\ \A d \in StoreClient : d # c => pg_pc'[d] = pg_pc[d] /\ pg_begun'[d] = pg_begun[d]
            /\ pg_picked'[d] = pg_picked[d]
  BY <1>1 DEF ClientTypes
<1>7. ClientTypes' /\ StagesFitKind'
  <2>1. ClientTypes'
    BY <1>1 DEF ClientTypes
  <2>2. StagesFitKind'
    BY <1>1 DEF ClientTypes, StagesFitKind, TableTypes, QueueLabel, ListLabel, Open
  <2>3. QED
    BY <2>1, <2>2
<1>8. /\ pg_rows' \subseteq Row /\ IsFiniteSet(pg_rows')
      /\ Postgres!Seqs(pg_rows') = Postgres!Seqs(kept)
      /\ Postgres!Seqs(pg_rows') \subseteq Postgres!Seqs(pg_rows)
      /\ \A r, q \in pg_rows' : r.seq = q.seq => r = q
      /\ \A q \in pg_rows' : q.seq <= pg_seq
  <2>1. kept \in SUBSET pg_rows /\ g \in [kept -> Row]
    BY <1>4, <1>5
  <2>2. \A r \in kept : g[r].seq = r.seq
    BY <1>5
  <2>3. pg_rows' = {g[r] : r \in kept}
    BY <1>1
  <2>4. QED
    BY <2>1, <2>2, <2>3, MappedRows
<1>9. \A q \in pg_rows' : \E r \in pg_rows : /\ r \in kept /\ q = g[r] /\ r.gone # c
                                             /\ q.seq = r.seq /\ q.expires_at = r.expires_at
                                             /\ q.gone = r.gone
                                             /\ q.by = IF r.by = c THEN NoOne ELSE r.by
                                             /\ r.by # c => q = r
  BY <1>1, <1>4, <1>5
<1>10. TableTypes' /\ RecordTypes' /\ Postgres!PromisedIsKept'
  <2>1. Postgres!Seqs(Own(c)) \subseteq 0..pg_seq
    BY SeqsAreBounded DEF Own, Postgres!Seqs
  <2>2. pg_committed' \subseteq 0..pg_seq'
    BY <1>1, <2>1 DEF TableTypes
  <2>3. QED
    BY <1>1, <1>8, <2>2 DEF TableTypes, RecordTypes, Postgres!PromisedIsKept
<1>11. RowsAreNumbered'
  <2>1. \A r \in pg_rows : r.by \in {NoOne, c} => r.seq \in pg_committed'
    BY <1>1 DEF RowsAreNumbered, Own, Postgres!Seqs
  <2>2. \A q \in pg_rows' : q.by = NoOne => q.seq \in pg_committed'
    BY <1>9, <2>1
  <2>3. QED
    BY <1>1, <1>8, <2>2 DEF RowsAreNumbered
<1>12. InsertsArePrivate'
  <2>1. ASSUME NEW q \in pg_rows', q.by # NoOne PROVE q \in pg_rows /\ q.by # c
    BY <1>3, <1>9, <2>1
  <2>2. ASSUME NEW q \in pg_rows', q.by # NoOne
        PROVE  pg_pc'[q.by] \in Open /\ q.gone \in {NoOne, q.by}
    <3>1. q \in pg_rows /\ q.by # c /\ q.by \in StoreClient
      BY <1>2, <2>1, <2>2
    <3>2. pg_pc[q.by] \in Open /\ q.gone \in {NoOne, q.by}
      BY <2>2, <3>1 DEF InsertsArePrivate
    <3>3. QED
      BY <1>6, <3>1, <3>2
  <2>3. QED
    BY <2>1, <2>2 DEF InsertsArePrivate
<1>13. DeletesAreMeant'
  <2>1. ASSUME NEW q \in pg_rows', q.gone # NoOne
        PROVE  /\ pg_pc'[q.gone] \in {"insert"} \cup Open
               /\ \/ q.expires_at <= pg_begun'[q.gone]
                  \/ pg_pc'[q.gone] = "commit" /\ q.seq \in pg_picked'[q.gone]
    <3>1. PICK r \in pg_rows : /\ q.seq = r.seq /\ q.expires_at = r.expires_at
                               /\ q.gone = r.gone /\ r.gone # c
      BY <1>9
    <3>2. /\ pg_pc[r.gone] \in {"insert"} \cup Open
          /\ \/ r.expires_at <= pg_begun[r.gone]
             \/ pg_pc[r.gone] = "commit" /\ r.seq \in pg_picked[r.gone]
      BY <2>1, <3>1 DEF DeletesAreMeant
    <3>3. r.gone \in StoreClient
      BY <1>2, <2>1, <3>1
    <3>4. QED
      BY <1>6, <3>1, <3>2, <3>3
  <2>2. QED
    BY <2>1 DEF DeletesAreMeant
<1>14. PickedWereSeen'
  <2>1. ASSUME NEW d \in StoreClient, NEW q \in pg_rows', q.seq \in pg_picked'[d]
        PROVE  q.by \in {NoOne, d} /\ (pg_pc'[d] = "commit" => q.gone = d)
    <3>0. d # c
      BY <1>6, <2>1
    <3>1. PICK r \in pg_rows : q.seq = r.seq /\ q.gone = r.gone
              /\ q.by = IF r.by = c THEN NoOne ELSE r.by
      BY <1>9
    <3>2. r.by \in {NoOne, d} /\ (pg_pc[d] = "commit" => r.gone = d)
      BY <1>6, <2>1, <3>0, <3>1 DEF PickedWereSeen
    <3>3. QED
      BY <1>6, <3>0, <3>1, <3>2
  <2>2. QED
    BY <2>1 DEF PickedWereSeen
<1>15. PicksAreOld'
  <2>1. ASSUME NEW d \in StoreClient, pg_pc'[d] \in {"trim", "commit"}
        PROVE  /\ pg_pc[d] \in {"trim", "commit"} /\ pg_picked'[d] = pg_picked[d]
               /\ Postgres!Seqs(Own(d)) \subseteq Postgres!Seqs(Own(d))'
    <3>1. d # c
      BY <1>6, <2>1
    <3>2. ASSUME NEW r \in pg_rows, r.by = d PROVE r \in pg_rows'
      <4>1. r.gone \in {NoOne, d} /\ d # NoOne
        BY <3>2, StoreConstants DEF InsertsArePrivate
      <4>2. r \in kept /\ g[r] = r
        BY <1>3, <1>5, <1>5a, <3>1, <3>2, <4>1
      <4>3. QED
        BY <1>1, <4>2
    <3>3. QED
      BY <1>6, <2>1, <3>1, <3>2 DEF Own, Postgres!Seqs
  <2>2. pg_committed \subseteq pg_committed'
    BY <1>1
  <2>3. QED
    BY <1>10, <1>11, <2>1, <2>2, PicksKeep
<1>16. Postgres!TrimmedForNewer'
  <2>1. pg_committed \subseteq pg_committed'
    BY <1>1
  <2>2. \A s \in pg_trimmed : Cardinality({t \in pg_committed' : t > s}) >= StoreMaxQueueSize
    BY <1>3, <1>10, <2>1, TrimmedKeep
  <2>3. \A s \in pg_picked[c] : Cardinality({t \in pg_committed' : t > s}) >= StoreMaxQueueSize
    BY <1>1 DEF TrimInv, PicksAreOld
  <2>4. QED
    BY <1>1, <1>3, <2>2, <2>3, SameCount DEF Postgres!TrimmedForNewer
<1>17. TakenInv' /\ Postgres!WipedIsGone'
  <2>0. pg_seq' = pg_seq /\ pg_seq \in Nat /\ Postgres!Seqs(pg_rows') \subseteq Postgres!Seqs(pg_rows)
    BY <1>1, <1>8 DEF TableTypes
  <2>1. pg_seq' \in Nat /\ pg_seq' >= pg_seq /\ Postgres!Seqs(pg_rows') \subseteq Postgres!Seqs(pg_rows) \cup ((pg_seq + 1)..pg_seq')
    BY <2>0
  <2>2. pg_taken' = pg_taken /\ pg_wiped' = pg_wiped
    BY <1>1
  <2>3. QED
    BY <2>1, <2>2, SettledKeep
<1>18. WipeInv'
  <2>1. \A d \in StoreClient : pg_pc'[d] \notin {"evict", "wiping"}
    BY <1>1, <1>3, <1>7 DEF StagesFitKind, ListLabel
  <2>2. QED
    BY <1>17, <2>1 DEF WipeInv
<1>19. OvershootInv'
  <2>1. PICK rank \in [StoreClient -> Nat], base \in Nat, top \in Nat : InOrder(rank, base, top)
    BY <1>3 DEF OvershootInv
  <2>1a. /\ \A d \in StoreClient : rank[d] \in Nat /\ rank[d] <= top
         /\ base <= top
    BY <2>1 DEF InOrder
  <2>2. c \in Chosen /\ Chosen' = Chosen \ {c} /\ Chosen \subseteq StoreClient
    BY <1>1, <1>6 DEF Chosen
  <2>3. PICK x : Postgres!Seqs(Own(c)) \subseteq {x}
    <3>1. \A r, q \in Own(c) : r = q
      BY <1>3 DEF InsertsArePrivate, Own
    <3>2. CASE Own(c) = {}
      BY <3>2 DEF Postgres!Seqs
    <3>3. CASE Own(c) # {}
      <4>1. PICK r \in Own(c) : TRUE
        BY <3>3
      <4>2. Postgres!Seqs(Own(c)) \subseteq {r.seq}
        BY <3>1, <4>1 DEF Postgres!Seqs
      <4>3. QED
        BY <4>2
    <3>4. QED
      BY <3>2, <3>3
  <2>4. /\ IsFiniteSet(Queued) /\ Cardinality(Queued) \in Nat
        /\ \A d : IsFiniteSet(Would(d)) /\ Cardinality(Would(d)) \in Nat
        /\ \A n : IsFiniteSet(Before(rank, n)) /\ Cardinality(Before(rank, n)) \in Nat
    BY OrderIsFinite
  <2>5. Queued' \subseteq Would(c) /\ Queued' \subseteq Queued \cup {x}
    <3>1. ASSUME NEW q \in pg_rows', q.by = NoOne, q.expires_at > pg_now
          PROVE  q.seq \in Would(c) /\ q.seq \in Queued \cup Postgres!Seqs(Own(c))
      <4>1. PICK r \in pg_rows : /\ r.gone # c /\ q.seq = r.seq /\ q.expires_at = r.expires_at
                                 /\ q.by = IF r.by = c THEN NoOne ELSE r.by
        BY <1>9
      <4>2. r.by \in {NoOne, c} /\ r.seq \notin pg_picked[c]
        BY <1>1, <3>1, <4>1 DEF PickedWereSeen
      <4>3. QED
        BY <3>1, <4>1, <4>2 DEF Would, Queued, Own, Postgres!Seqs
    <3>2. QED
      BY <1>1, <2>3, <3>1 DEF Queued, Postgres!Seqs
  <2>6. /\ Cardinality(Queued') \in Nat
        /\ Cardinality(Queued') <= Cardinality(Would(c))
        /\ Cardinality(Queued') <= Cardinality(Queued) + 1
    BY <2>4, <2>5, SmallerIsFewer, OneMore
  <2>7. ASSUME NEW d \in Chosen'
        PROVE  Cardinality(Would(d)') \in Nat /\ Cardinality(Would(d)') <= Cardinality(Would(d)) + 1
    <3>1. d # c /\ d \in StoreClient
      BY <2>2
    <3>2. ASSUME NEW q \in pg_rows', q.by \in {NoOne, d}, q.expires_at > pg_now,
              q.seq \notin pg_picked[d]
          PROVE  q.seq \in Would(d) \cup Postgres!Seqs(Own(c))
      <4>1. PICK r \in pg_rows : /\ q.seq = r.seq /\ q.expires_at = r.expires_at
                                 /\ q.by = IF r.by = c THEN NoOne ELSE r.by
        BY <1>9
      <4>2. QED
        BY <3>2, <4>1 DEF Would, Own, Postgres!Seqs
    <3>3. Would(d)' \subseteq Would(d) \cup {x}
      <4>1. Would(d)' \subseteq Would(d) \cup Postgres!Seqs(Own(c))
        BY <1>1, <1>6, <3>1, <3>2 DEF Would, Postgres!Seqs
      <4>2. QED
        BY <2>3, <4>1
    <3>4. QED
      BY <2>4, <3>3, OneMore
  <2>8. ASSUME NEW n
        PROVE  /\ Cardinality(Before(rank, n)') \in Nat
               /\ Cardinality(Before(rank, n)') <= Cardinality(Before(rank, n))
               /\ rank[c] < n => Cardinality(Before(rank, n)') = Cardinality(Before(rank, n)) - 1
    <3>1. Before(rank, n)' = Before(rank, n) \ {c}
      BY <2>2 DEF Before
    <3>2. rank[c] < n => c \in Before(rank, n)
      BY <2>2 DEF Before
    <3>3. QED
      BY <2>4, <3>1, <3>2, FS_RemoveElement, SmallerIsFewer
  <2>9. Bound \in Int /\ Bound' = Bound
    BY <1>3, FS_CardinalityType, StoreConstants DEF Bound
  <2>10. ASSUME NEW d \in Chosen', rank[d] >= base, rank[d] >= rank[c]
         PROVE  Cardinality(Would(d)') + Cardinality(Before(rank, rank[d])') <= Bound
    <3>1. d # c /\ d \in Chosen /\ rank[d] # rank[c] /\ rank[d] \in Nat /\ rank[c] \in Nat
      BY <2>1, <2>1a, <2>2 DEF InOrder
    <3>2. Cardinality(Would(d)) + Cardinality(Before(rank, rank[d])) <= Bound
      BY <2>1, <2>10, <3>1 DEF InOrder
    <3>3. rank[c] < rank[d]
      BY <2>10, <3>1
    <3>4. Cardinality(Before(rank, rank[d])') = Cardinality(Before(rank, rank[d])) - 1
      BY <2>8, <3>3
    <3>5. QED
      BY <2>4, <2>7, <2>8, <2>9, <3>2, <3>4
  <2>11. CASE rank[c] >= base
    <3>1. Cardinality(Queued') + Cardinality(Before(rank, rank[c])') <= Bound
      <4>1. Cardinality(Would(c)) + Cardinality(Before(rank, rank[c])) <= Bound
        BY <2>1, <2>2, <2>11 DEF InOrder
      <4>2. QED
        BY <2>4, <2>6, <2>8, <2>9, <4>1
    <3>2. ASSUME NEW d \in Chosen', rank[d] >= rank[c]
          PROVE  Cardinality(Would(d)') + Cardinality(Before(rank, rank[d])') <= Bound
      <4>1. rank[d] >= base
        BY <2>1a, <2>2, <2>11, <3>2
      <4>2. QED
        BY <2>10, <3>2, <4>1
    <3>3. InOrder(rank, rank[c], top)'
      BY <2>1, <2>1a, <2>2, <2>9, <3>1, <3>2 DEF InOrder
    <3>4. rank[c] \in Nat
      BY <2>1a
    <3>5. QED
      BY <3>3, <3>4 DEF OvershootInv
  <2>12. CASE rank[c] < base
    <3>1. Cardinality(Queued') + Cardinality(Before(rank, base)') <= Bound
      <4>1. Cardinality(Queued) + Cardinality(Before(rank, base)) <= Bound
        BY <2>1 DEF InOrder
      <4>2. Cardinality(Before(rank, base)') = Cardinality(Before(rank, base)) - 1
        BY <2>8, <2>12
      <4>3. QED
        BY <2>4, <2>6, <2>9, <4>1, <4>2
    <3>2. ASSUME NEW d \in Chosen', rank[d] >= base
          PROVE  Cardinality(Would(d)') + Cardinality(Before(rank, rank[d])') <= Bound
      <4>1. rank[d] >= rank[c]
        BY <2>1a, <2>2, <2>12, <3>2
      <4>2. QED
        BY <2>10, <3>2, <4>1
    <3>3. InOrder(rank, base, top)'
      BY <2>1, <2>1a, <2>2, <2>9, <3>1, <3>2 DEF InOrder
    <3>4. QED
      BY <3>3 DEF OvershootInv
  <2>13. QED
    BY <2>1a, <2>11, <2>12
<1>20. QED
  BY <1>7, <1>10, <1>11, <1>12, <1>13, <1>14, <1>15, <1>16, <1>17, <1>18, <1>19 DEF TrimInv

-----------------------------------------------------------------------------
LEMMA StoreStep == StoreInv /\ [Postgres!Next]_Postgres!vars => StoreInv'
<1> SUFFICES ASSUME StoreInv, [Postgres!Next]_Postgres!vars PROVE StoreInv'
  OBVIOUS
<1>1. CASE Postgres!Tick
  BY <1>1, StoreTickKeeps
<1>2. ASSUME NEW c \in StoreClient,
             \/ Postgres!Enqueue(c) \/ Postgres!Purge(c) \/ Postgres!InsertEntry(c)
                   \/ Postgres!Choose(c) \/ Postgres!Trim(c) \/ Postgres!Commit(c)
             \/ Postgres!Dequeue(c) \/ Postgres!Clean(c) \/ Postgres!Pick(c) \/ Postgres!Take(c)
             \/ Postgres!AppendToList(c) \/ Postgres!DeleteHistory(c)
                   \/ Postgres!InsertItem(c) \/ Postgres!TrimItems(c) \/ Postgres!Touch(c)
             \/ Postgres!SetKey(c) \/ Postgres!SetIfNotExists(c) \/ Postgres!Delete(c)
                   \/ Postgres!Get(c) \/ Postgres!Tidy(c)
             \/ Postgres!Fail(c)
      PROVE  StoreInv'
  BY <1>2, CallsKeep, PurgeKeeps, InsertEntryKeeps, ChooseKeeps, TrimKeeps, CommitKeeps,
     CleanKeeps, PickKeeps, TakeKeeps, InsertItemKeeps, TrimItemsKeeps, TouchKeeps,
     RecordKeeps, TidyKeeps, FailKeeps
<1>3. CASE UNCHANGED Postgres!vars
  <2>1. /\ UNCHANGED <<pg_now, pg_kind, pg_seq, pg_rows, pg_record, pg_pc, pg_begun, pg_picked>>
        /\ UNCHANGED <<pg_committed, pg_trimmed, pg_taken, pg_erased, pg_wiped, pg_promised>>
    BY <1>3 DEF Postgres!vars, Postgres!clock, Postgres!table, Postgres!client,
                Postgres!history
  <2> USE DEF StoreInv, RowsInv
  <2>2. TableTypes' /\ ClientTypes' /\ RecordTypes' /\ StagesFitKind'
    BY <2>1 DEF TableTypes, ClientTypes, RecordTypes, StagesFitKind
  <2>3. RowsInv'
    BY <2>1 DEF RowsAreNumbered, InsertsArePrivate, DeletesAreMeant, PickedWereSeen
  <2>4. TrimInv'
    BY <2>1 DEF TrimInv, PicksAreOld, Postgres!TrimmedForNewer, Own
  <2>5. TakenInv' /\ WipeInv' /\ Postgres!PromisedIsKept'
    BY <2>1 DEF TakenInv, Postgres!NobodyTakesTwice, WipeInv, Postgres!WipedIsGone,
                Postgres!PromisedIsKept
  <2>6. OvershootInv'
    <3>1. Queued' = Queued /\ Chosen' = Chosen /\ \A d : Would(d)' = Would(d)
      BY <2>1 DEF Queued, Chosen, Would
    <3>2. Queued' \subseteq Queued /\ Chosen' \subseteq Chosen
              /\ \A d \in Chosen' : Would(d)' \subseteq Would(d)
      BY <3>1
    <3>3. pg_kind' = pg_kind
      BY <2>1
    <3>4. QED
      BY <2>2, <2>3, <3>2, <3>3, OvershootKeeps
  <2>7. QED
    BY <2>2, <2>3, <2>4, <2>5, <2>6
<1>4. QED
  BY <1>1, <1>2, <1>3 DEF Postgres!Next

LEMMA StoreIsSound == StoreInv => Postgres!StoredIsAccountedFor
<1> SUFFICES ASSUME StoreInv PROVE Postgres!StoredIsAccountedFor
  OBVIOUS
<1> USE DEF StoreInv, RowsInv
<1>1. Postgres!TrimmedForNewer /\ Postgres!NobodyTakesTwice /\ Postgres!WipedIsGone
          /\ Postgres!PromisedIsKept
  BY DEF TrimInv, TakenInv, WipeInv
<1>2. Postgres!OvershootIsBounded
  <2> SUFFICES ASSUME pg_kind = "queue"
               PROVE  Cardinality({r \in pg_rows : r.by = NoOne /\ r.expires_at > pg_now})
                          <= StoreMaxQueueSize + Cardinality(StoreClient) - 1
    BY SameCount DEF Postgres!OvershootIsBounded
  <2>1. PICK rank \in [StoreClient -> Nat], base \in Nat, top \in Nat : InOrder(rank, base, top)
    BY DEF OvershootInv
  <2>2. Cardinality(Queued) + Cardinality(Before(rank, base)) <= Bound
    BY <2>1 DEF InOrder
  <2>3. Cardinality(Queued) \in Nat /\ Cardinality(Before(rank, base)) \in Nat /\ Bound \in Int
    BY OrderIsFinite, FS_CardinalityType, StoreConstants DEF Bound
  <2> DEFINE live == {r \in pg_rows : r.by = NoOne /\ r.expires_at > pg_now}
  <2>4. live \in SUBSET pg_rows /\ Distinct(pg_rows)
    BY DEF Distinct, TableTypes, RowsAreNumbered, Row
  <2>5. Distinct(live)
    BY <2>4, DistinctParts
  <2>6. Queued = Postgres!Seqs(live)
    BY DEF Queued
  <2> HIDE DEF live
  <2>7. Cardinality(live) = Cardinality(Queued)
    BY <2>5, <2>6, SeqsCount
  <2>8. Cardinality(live) <= Bound
    BY <2>2, <2>3, <2>7
  <2>9. QED
    BY <2>8 DEF live, Bound
<1>3. QED
  BY <1>1, <1>2 DEF Postgres!StoredIsAccountedFor

\* The part of the run that is Postgres: the others leave it alone.
LEMMA PostgresOfTheRun == SharedStateSpec => Postgres!Init /\ [][Postgres!Next]_Postgres!vars
<1>1. SharedStateInit => Postgres!Init
  BY DEF SharedStateInit
<1>2. [SharedStateNext]_<<part, vars, turnVars, modalVars, saVars, pgVars>>
          => [Postgres!Next]_Postgres!vars
  BY DEF SharedStateNext, pgVars, Postgres!vars, Postgres!clock, Postgres!table, Postgres!client, Postgres!history
<1>3. QED
  BY <1>1, <1>2, PTL DEF SharedStateSpec

\* For any number of clients and any limits, however their statements interleave and
\* whatever fails between them: an entry is trimmed for newer ones only and dequeued
\* once, a wiped history is gone, what was set is kept, and a queue exceeds its limit
\* by the other clients at most.
THEOREM StoreKeepsAccount == SharedStateSpec => []StoredIsAccountedFor
<1>1. StoreInv => StoredIsAccountedFor
  BY StoreIsSound DEF StoredIsAccountedFor
<1>2. QED
  BY <1>1, PostgresOfTheRun, StoreInit, StoreStep, PTL
=============================================================================
