--------------------------- MODULE TelegramProofs ---------------------------
(***************************************************************************)
(* What holds of TelegramPolling for any number of updates, whichever of   *)
(* them form albums or fail for ever, and any number of failed calls,      *)
(* stops and crashes; and of TelegramAlbum as MCTelegram runs it, for any  *)
(* deliveries of its parts.                                                *)
(***************************************************************************)
EXTENDS MCTelegram, FiniteSetTheorems, WellFoundedInduction, TLAPS

\* Where a loop is that has read its checkpoint.
Reading == {"off", "loading", "sleeping"}

\* The offset is past whatever waits in a checkpoint.
PendingIsPast ==
    /\ \A u \in checkpoint.pending : u < checkpoint.offset
    /\ \A u \in stored.pending : u < stored.offset

\* What is below an offset that Telegram knows, or may be told, was handled or waits
\* in the checkpoint, the saved one and the loop's.
OffsetIsSafe ==
    /\ ConfirmedIsSafe
    /\ \A u \in Update : u < stored.offset => u \in settled \cup stored.pending
    /\ checkpoint # Unread =>
           \A u \in Update :
               u < confirmed \/ u < checkpoint.offset =>
                   u \in settled \cup (stored.pending \cap checkpoint.pending)

\* A fetched batch is what Telegram had, without a gap, and lies ahead of the loop.
BatchIsNext ==
    pc = "handling" =>
        /\ \A u \in batch : u >= checkpoint.offset /\ u <= arrived
        /\ \A u \in Update, v \in batch : confirmed <= u /\ u <= v => u \in batch
        /\ \A u \in todo : ~IsPart(u)
        /\ failed \cap completed = {}
        /\ \A u \in batch : IsPart(u) \/ u \in todo \cup failed \cup completed

\* A batch that is tried again is ready and was not preceded by another.
BatchIsReady ==
    pc = "retrying" => batch \subseteq Ready(checkpoint) /\ ~drained

\* What has succeeded is remembered as long as it can come up again; as long as a
\* failed write leaves it in the checkpoint, it is the next to be tried.
CompletedIsKnown ==
    /\ completed \subseteq settled
    /\ todo \cap failed = {}
    /\ pc = "loading" => checkpoint = Unread
    /\ checkpoint = Unread => completed = {}
    /\ \A u \in completed \cap checkpoint.pending :
           /\ pc \in {"retrying", "sleeping", "deciding", "off"}
           /\ ~drained
           /\ u \in Ready(checkpoint)
    /\ \A u \in Update :
           \/ wins[u] = 0
           \/ wins[u] = 1 /\ u \in completed
           \/ /\ wins[u] = 1 /\ checkpoint # Unread
              /\ u < checkpoint.offset /\ u \notin checkpoint.pending

\* An album is dispatched as a whole, and its parts share one fate.
AlbumsShareOneFate ==
    pc = "retrying" =>
        \A u \in batch :
            LET mates == Group(u, checkpoint.pending) IN
            /\ mates \subseteq batch
            /\ \/ mates \subseteq todo
               \/ mates \cap todo = {} /\ (mates \subseteq failed \/ mates \cap failed = {})

PollingInv ==
    /\ TypeOK /\ PendingIsPast /\ OffsetIsSafe /\ BatchIsNext /\ BatchIsReady
    /\ CompletedIsKnown /\ AlbumsShareOneFate

-----------------------------------------------------------------------------
(* Lemmas about the operators *)

\* The members of a group have the same group.
LEMMA GroupIsShared ==
    ASSUME NEW s, NEW u \in s, NEW v \in Group(u, s)
    PROVE  u \in Group(u, s) /\ v \in s /\ Group(v, s) = Group(u, s)
BY DEF Group

\* What is ready is ready with its whole album.
LEMMA AlbumsAreReadyWhole ==
    \A u \in Ready(checkpoint) :
        u \in checkpoint.pending /\ Group(u, checkpoint.pending) \subseteq Ready(checkpoint)
<1> SUFFICES ASSUME NEW u \in Ready(checkpoint)
             PROVE  u \in checkpoint.pending /\ Group(u, checkpoint.pending) \subseteq Ready(checkpoint)
  OBVIOUS
<1>1. u \in checkpoint.pending
  BY DEF Ready
<1>2. \A v \in Group(u, checkpoint.pending) :
          v \in checkpoint.pending /\ Group(v, checkpoint.pending) = Group(u, checkpoint.pending)
  BY <1>1, GroupIsShared
<1>3. QED
  BY <1>1, <1>2 DEF Ready

\* Max1 is the greatest of the updates of a batch.
LEMMA BatchHasAMax ==
    ASSUME MaxUpdate \in Nat, NEW S \in SUBSET Update, S # {}
    PROVE  Max1(S) \in S /\ \A n \in S : n <= Max1(S)
<1> DEFINE R == {p \in Nat \X Nat : p[1] < p[2]}
           T == {n \in Nat : MaxUpdate - n \in S}
<1>1. IsWellFoundedOn(R, Nat)
  BY NatLessThanWellFounded DEF OpToRel
<1>2. PICK x \in S : TRUE
  OBVIOUS
<1>3. MaxUpdate - x \in T
  BY <1>2 DEF Update
<1>4. T \subseteq Nat /\ T # {}
  BY <1>3
<1> HIDE DEF T, R
<1>5. PICK m \in T : \A y \in T : ~(<<y, m>> \in R)
  BY <1>1, <1>4, WFMin
<1> USE DEF T, R
<1>6. MaxUpdate - m \in S /\ m \in Nat
  BY <1>5
<1>7. ASSUME NEW n \in S
      PROVE  n <= MaxUpdate - m
  <2>1. n \in Nat /\ n <= MaxUpdate
    BY DEF Update
  <2>2. MaxUpdate - n \in Nat /\ MaxUpdate - (MaxUpdate - n) = n
    BY <2>1
  <2>3. MaxUpdate - n \in T
    BY <2>2
  <2>4. ~(MaxUpdate - n < m)
    BY <1>5, <1>6, <2>2, <2>3
  <2>5. QED
    BY <1>6, <2>1, <2>4
<1>8. QED
  BY <1>6, <1>7 DEF Max1

\* getUpdates leaves no gap: what is older than an update it returns, it returns too.
LEMMA FetchedWithoutGap ==
    ASSUME MaxUpdate \in Nat, Limit \in Nat, arrived \in Nat, NEW from \in Nat,
           NEW v \in Unconfirmed(from), NEW u \in Update, from <= u, u <= v
    PROVE  u \in Unconfirmed(from)
<1> DEFINE Older(w) == {x \in Update : from <= x /\ x < w}
<1>1. v \in Update /\ Cardinality(Older(v)) < Limit /\ v <= arrived
  BY DEF Unconfirmed
<1>2. IsFiniteSet(Update)
  BY FS_Interval DEF Update
<1>3. IsFiniteSet(Older(v))
  <2>1. Older(v) \subseteq Update
    OBVIOUS
  <2>2. QED
    BY <1>2, <2>1, FS_Subset
<1>4. Older(u) \subseteq Older(v)
  BY <1>1 DEF Update
<1>5. /\ IsFiniteSet(Older(u)) /\ Cardinality(Older(u)) <= Cardinality(Older(v))
      /\ Cardinality(Older(u)) \in Nat /\ Cardinality(Older(v)) \in Nat
  BY <1>3, <1>4, FS_Subset, FS_CardinalityType
<1>6. Cardinality(Older(u)) < Limit
  BY <1>1, <1>5
<1>7. QED
  BY <1>1, <1>6 DEF Unconfirmed, Update

\* A checkpoint that was read is one that can be saved.
LEMMA ReadCheckpoint ==
    ASSUME TypeOK
    PROVE  /\ checkpoint.offset \in Int /\ checkpoint.pending \subseteq Update
           /\ stored.offset \in Nat /\ stored.pending \subseteq Update
           /\ checkpoint # Unread => checkpoint \in [offset : Nat, pending : SUBSET Update]
           /\ checkpoint # Unread => checkpoint.offset \in Nat
           /\ pc \notin Reading => checkpoint # Unread
BY DEF TypeOK, Unread, Checkpoint, Reading

\* What a fetched batch leaves to be done: the new offset is past all of it, nothing
\* below is lost, and nothing that has succeeded comes back.
LEMMA FetchedIsKept ==
    ASSUME PollingInv, pc = "handling", todo = {}
    PROVE  /\ AfterFetch \in [offset : Nat, pending : SUBSET Update]
           /\ AfterFetch.offset >= checkpoint.offset
           /\ checkpoint.pending \subseteq AfterFetch.pending
           /\ \A u \in AfterFetch.pending : u < AfterFetch.offset
           /\ \A u \in Update : u < confirmed \/ u < AfterFetch.offset =>
                  u \in settled \cup AfterFetch.pending
           /\ completed \cap AfterFetch.pending = {}
           /\ \A u \in Update : u < checkpoint.offset /\ u \notin checkpoint.pending =>
                  u \notin AfterFetch.pending
<1> USE PollingAssumption DEF PollingInv
<1>1. /\ checkpoint \in [offset : Nat, pending : SUBSET Update] /\ checkpoint # Unread
      /\ batch \in SUBSET Update /\ failed \subseteq batch /\ confirmed \in Nat
      /\ completed \subseteq settled
  BY ReadCheckpoint DEF Reading, TypeOK, CompletedIsKnown
<1>2. /\ AfterFetch.offset = IF batch = {} THEN checkpoint.offset ELSE Max1(batch) + 1
      /\ AfterFetch.pending = checkpoint.pending \cup Fresh
      /\ AfterFetch = [offset |-> AfterFetch.offset, pending |-> AfterFetch.pending]
  BY DEF AfterFetch, Checkpoint
<1>3. Fresh \subseteq batch /\ Fresh \cap completed = {}
  BY <1>1 DEF Fresh, BatchIsNext
<1>4. \A u \in batch : u \in completed \cup Fresh
  BY DEF BatchIsNext, Fresh
<1>5. checkpoint.pending \cap completed = {}
  BY DEF CompletedIsKnown
<1>6. \A u \in Update : u < confirmed \/ u < checkpoint.offset => u \in settled \cup checkpoint.pending
  BY <1>1 DEF OffsetIsSafe
<1>7. \A u \in batch : u \in Nat /\ u >= checkpoint.offset
  BY <1>1 DEF BatchIsNext, Update
<1>8. /\ AfterFetch.offset \in Nat /\ AfterFetch.offset >= checkpoint.offset
      /\ \A u \in batch : u < AfterFetch.offset
      /\ \A u \in Update : u < AfterFetch.offset => u < confirmed \/ u < checkpoint.offset \/ u \in batch
  <2>1. CASE batch = {}
    BY <1>1, <1>2, <2>1
  <2>2. CASE batch # {}
    <3>1. Max1(batch) \in batch /\ \A n \in batch : n <= Max1(batch)
      BY <1>1, <2>2, BatchHasAMax
    <3>2. AfterFetch.offset = Max1(batch) + 1 /\ Max1(batch) \in Nat
      BY <1>2, <1>7, <2>2, <3>1
    <3>3. AfterFetch.offset \in Nat /\ AfterFetch.offset >= checkpoint.offset
      BY <1>1, <1>7, <3>1, <3>2
    <3>4. \A u \in batch : u < AfterFetch.offset
      BY <1>7, <3>1, <3>2
    <3>5. ASSUME NEW u \in Update, u < AfterFetch.offset, ~(u < confirmed)
          PROVE  u \in batch
      <4>1. confirmed <= u /\ u <= Max1(batch)
        BY <1>1, <3>2, <3>5 DEF Update
      <4>2. QED
        BY <3>1, <4>1 DEF BatchIsNext
    <3>6. QED
      BY <3>3, <3>4, <3>5
  <2>3. QED
    BY <2>1, <2>2
<1>9. AfterFetch.pending \subseteq Update
  BY <1>1, <1>2, <1>3
<1>10. \A u \in AfterFetch.pending : u < AfterFetch.offset
  <2>1. \A u \in checkpoint.pending : u \in Nat /\ u < checkpoint.offset
    BY <1>1 DEF PendingIsPast, Update
  <2>2. \A u \in checkpoint.pending : u < AfterFetch.offset
    BY <1>1, <1>8, <2>1
  <2>3. QED
    BY <1>2, <1>3, <1>8, <2>2
<1>11. \A u \in Update : u < confirmed \/ u < AfterFetch.offset => u \in settled \cup AfterFetch.pending
  BY <1>1, <1>2, <1>4, <1>6, <1>8
<1>12. \A u \in Update : u < checkpoint.offset /\ u \notin checkpoint.pending => u \notin AfterFetch.pending
  <2>1. \A u \in batch : ~(u < checkpoint.offset)
    BY <1>1, <1>7
  <2>2. QED
    BY <1>2, <1>3, <2>1
<1>13. AfterFetch \in [offset : Nat, pending : SUBSET Update]
  BY <1>2, <1>8, <1>9
<1>14. completed \cap AfterFetch.pending = {}
  BY <1>2, <1>3, <1>5
<1>15. QED
  BY <1>2, <1>8, <1>10, <1>11, <1>12, <1>13, <1>14

\* What a retried batch leaves to be done.
LEMMA RetriedIsKept ==
    ASSUME PollingInv, pc = "retrying"
    PROVE  /\ AfterRetry \in [offset : Nat, pending : SUBSET Update]
           /\ AfterRetry.offset = checkpoint.offset
           /\ AfterRetry.pending = checkpoint.pending \ completed
           /\ \A u \in AfterRetry.pending : u < AfterRetry.offset
           /\ \A u \in Update : u < confirmed \/ u < AfterRetry.offset =>
                  u \in settled \cup AfterRetry.pending
<1> USE DEF PollingInv
<1>1. /\ checkpoint \in [offset : Nat, pending : SUBSET Update] /\ checkpoint # Unread
      /\ completed \subseteq settled
  BY ReadCheckpoint DEF Reading, CompletedIsKnown
<1>2. /\ AfterRetry.offset = checkpoint.offset
      /\ AfterRetry.pending = checkpoint.pending \ completed
      /\ AfterRetry = [offset |-> AfterRetry.offset, pending |-> AfterRetry.pending]
  BY DEF AfterRetry, Checkpoint
<1>3. \A u \in AfterRetry.pending : u < AfterRetry.offset
  BY <1>2 DEF PendingIsPast
<1>4. \A u \in Update : u < confirmed \/ u < AfterRetry.offset => u \in settled \cup AfterRetry.pending
  BY <1>1, <1>2 DEF OffsetIsSafe
<1>5. AfterRetry \in [offset : Nat, pending : SUBSET Update]
  BY <1>1, <1>2
<1>6. QED
  BY <1>2, <1>3, <1>4, <1>5

-----------------------------------------------------------------------------

LEMMA PollingInitially == Init => PollingInv
<1> SUFFICES ASSUME Init
             PROVE  PollingInv
  OBVIOUS
<1> USE PollingAssumption DEF Init
<1>1. TypeOK
  <2>1. stored \in [offset : Nat, pending : SUBSET Update]
    BY DEF NoCheckpoint, Checkpoint
  <2>2. wins \in [Update -> Nat]
    OBVIOUS
  <2>3. arrived \in 0 .. MaxUpdate /\ faults \in 0 .. MaxFaults /\ confirmed \in Nat
    OBVIOUS
  <2>4. checkpoint = Unread /\ pc \in {"off", "loading", "sleeping"}
    OBVIOUS
  <2>5. QED
    BY <2>1, <2>2, <2>3, <2>4 DEF TypeOK
<1>2. PendingIsPast /\ OffsetIsSafe
  BY DEF PendingIsPast, OffsetIsSafe, ConfirmedIsSafe, NoCheckpoint, Unread, Checkpoint, Update
<1>3. BatchIsNext /\ BatchIsReady /\ CompletedIsKnown /\ AlbumsShareOneFate
  BY DEF BatchIsNext, BatchIsReady, CompletedIsKnown, AlbumsShareOneFate
<1>4. QED
  BY <1>1, <1>2, <1>3 DEF PollingInv

\* Starting a loop, reading the checkpoint and choosing what comes next.
LEMMA BeginningsKeepIt ==
    ASSUME PollingInv, Start \/ Load \/ Decide \/ Wake
    PROVE  PollingInv'
<1>a. /\ TypeOK /\ PendingIsPast /\ OffsetIsSafe /\ BatchIsNext /\ BatchIsReady
      /\ CompletedIsKnown /\ AlbumsShareOneFate
  BY DEF PollingInv
<1>b. /\ checkpoint.offset \in Int /\ checkpoint.pending \subseteq Update
      /\ stored.offset \in Nat /\ stored.pending \subseteq Update
      /\ checkpoint # Unread => checkpoint \in [offset : Nat, pending : SUBSET Update]
      /\ pc \notin Reading => checkpoint # Unread
  BY <1>a, ReadCheckpoint
<1>c. UNCHANGED <<arrived, confirmed, stored, due, settled, faults>>
  BY DEF Start, Load, Decide, Wake, server
<1>d. Ready(checkpoint)' = IF checkpoint' = checkpoint THEN Ready(checkpoint) ELSE Ready(checkpoint')
  BY <1>c DEF Ready
<1> USE <1>a, <1>b, <1>c, PollingAssumption DEF PollingInv
<1>1. CASE Start
  <2> USE <1>1 DEF Start
  <2>1. TypeOK'
    <3>1. wins' \in [Update -> Nat]
      OBVIOUS
    <3>2. checkpoint' = Unread /\ pc' \in {"off", "loading", "sleeping"}
      OBVIOUS
    <3>3. todo' \subseteq batch' /\ failed' \subseteq batch' /\ completed' \subseteq Update /\ batch' \subseteq Update
      OBVIOUS
    <3>4. QED
      BY <3>1, <3>2, <3>3 DEF TypeOK
  <2>2. PendingIsPast' /\ OffsetIsSafe'
    BY DEF PendingIsPast, OffsetIsSafe, ConfirmedIsSafe, Unread, Checkpoint
  <2>3. BatchIsNext' /\ BatchIsReady' /\ AlbumsShareOneFate'
    BY DEF BatchIsNext, BatchIsReady, AlbumsShareOneFate
  <2>4. CompletedIsKnown'
    BY DEF CompletedIsKnown
  <2>5. QED
    BY <2>1, <2>2, <2>3, <2>4
<1>2. CASE Load
  <2> USE <1>2 DEF Load
  <2>1. TypeOK'
    <3>1. stored \in [offset : Nat, pending : SUBSET Update] /\ wins \in [Update -> Nat]
      BY DEF TypeOK
    <3>2. QED
      BY <3>1 DEF TypeOK
  <2>2. PendingIsPast'
    BY DEF PendingIsPast
  <2>3. OffsetIsSafe'
    BY DEF OffsetIsSafe, ConfirmedIsSafe
  <2>4. BatchIsNext' /\ BatchIsReady' /\ AlbumsShareOneFate'
    BY DEF BatchIsNext, BatchIsReady, AlbumsShareOneFate
  <2>5. CompletedIsKnown'
    <3>1. completed = {} /\ \A u \in Update : wins[u] = 0
      BY DEF CompletedIsKnown
    <3>2. QED
      BY <3>1 DEF CompletedIsKnown
  <2>6. QED
    BY <2>1, <2>2, <2>3, <2>4, <2>5
<1>3. CASE Decide
  <2> USE <1>3 DEF Decide
  <2>a. UNCHANGED <<checkpoint, completed, drained, wins, active>> /\ Ready(checkpoint)' = Ready(checkpoint)
    BY <1>d
  <2>b. \/ pc' \in {"off", "fetching"} /\ UNCHANGED <<batch, todo, failed>>
        \/ pc' = "retrying" /\ ~drained /\ batch' = Ready(checkpoint) /\ todo' = batch' /\ failed' = {}
    OBVIOUS
  <2>c. checkpoint # Unread
    BY DEF Reading
  <2>1. TypeOK'
    <3>1. Ready(checkpoint) \subseteq Update
      BY DEF Ready
    <3>2. batch' \subseteq Update /\ todo' \subseteq batch' /\ failed' \subseteq batch'
      BY <2>b, <3>1 DEF TypeOK
    <3>3. pc' \in {"off", "loading", "deciding", "retrying", "fetching", "handling", "sleeping"}
      BY <2>b
    <3>4. QED
      BY <2>a, <2>c, <3>2, <3>3 DEF TypeOK
  <2>2. PendingIsPast' /\ OffsetIsSafe'
    BY <2>a DEF PendingIsPast, OffsetIsSafe, ConfirmedIsSafe
  <2>3. BatchIsNext' /\ BatchIsReady'
    BY <2>a, <2>b DEF BatchIsNext, BatchIsReady
  <2>4. CompletedIsKnown'
    <3>1. todo' \cap failed' = {}
      BY <2>b DEF CompletedIsKnown
    <3>2. pc' = "fetching" => completed \cap checkpoint.pending = {}
      BY DEF CompletedIsKnown
    <3>3. \A u \in completed \cap checkpoint.pending :
              pc' \in {"retrying", "sleeping", "deciding", "off"} /\ ~drained /\ u \in Ready(checkpoint)
      BY <2>b, <3>2 DEF CompletedIsKnown
    <3>4. QED
      BY <2>a, <2>b, <2>c, <3>1, <3>3 DEF CompletedIsKnown
  <2>5. AlbumsShareOneFate'
    <3>1. \A u \in Ready(checkpoint) : Group(u, checkpoint.pending) \subseteq Ready(checkpoint)
      BY AlbumsAreReadyWhole
    <3>2. \A u : Group(u, checkpoint.pending)' = Group(u, checkpoint.pending)
      BY <2>a DEF Group
    <3>3. QED
      BY <2>a, <2>b, <3>1, <3>2 DEF AlbumsShareOneFate
  <2>6. QED
    BY <2>1, <2>2, <2>3, <2>4, <2>5
<1>4. CASE Wake
  <2> USE <1>4 DEF Wake
  <2>a. Ready(checkpoint)' = Ready(checkpoint)
    BY <1>d
  <2>1. TypeOK'
    BY DEF TypeOK
  <2>2. PendingIsPast' /\ OffsetIsSafe'
    BY DEF PendingIsPast, OffsetIsSafe, ConfirmedIsSafe
  <2>3. BatchIsNext' /\ BatchIsReady' /\ AlbumsShareOneFate'
    BY DEF BatchIsNext, BatchIsReady, AlbumsShareOneFate
  <2>4. CompletedIsKnown'
    BY <2>a DEF CompletedIsKnown
  <2>5. QED
    BY <2>1, <2>2, <2>3, <2>4
<1>5. QED
  BY <1>1, <1>2, <1>3, <1>4

\* Stopping, dying, and calls that fail.
LEMMA InterruptionsKeepIt ==
    ASSUME PollingInv, Stop \/ Crash \/ CallFails
    PROVE  PollingInv'
<1>a. /\ TypeOK /\ PendingIsPast /\ OffsetIsSafe /\ BatchIsNext /\ BatchIsReady
      /\ CompletedIsKnown /\ AlbumsShareOneFate
  BY DEF PollingInv
<1>b. /\ checkpoint.offset \in Int /\ checkpoint.pending \subseteq Update
      /\ checkpoint # Unread => checkpoint.offset \in Nat
      /\ pc \notin Reading => checkpoint # Unread
  BY <1>a, ReadCheckpoint
<1>c. UNCHANGED <<arrived, stored, due, checkpoint, completed, drained, batch, todo, failed, settled, wins>>
  BY DEF Stop, Crash, CallFails, server
<1>d. pc' \in {pc, "sleeping", "off"}
  BY DEF Stop, Crash, CallFails
<1>e. faults' \in 0 .. MaxFaults
  <2>1. faults < MaxFaults /\ faults' = faults + 1
    BY DEF Stop, Crash, CallFails, Fault
  <2>2. QED
    BY <1>a, <2>1, PollingAssumption DEF TypeOK
<1>f. confirmed' = confirmed \/ (pc = "fetching" /\ confirmed' = checkpoint.offset)
  BY DEF Stop, Crash, CallFails, Confirm, server
<1>g. Ready(checkpoint)' = Ready(checkpoint) /\ \A u : Group(u, checkpoint.pending)' = Group(u, checkpoint.pending)
  BY <1>c DEF Ready, Group
<1>1. TypeOK'
  <2>1. confirmed' \in Nat
    BY <1>a, <1>b, <1>f DEF TypeOK, Reading
  <2>2. active' \in BOOLEAN
    BY <1>a DEF Stop, Crash, CallFails, TypeOK
  <2>3. pc' \in {"off", "loading", "deciding", "retrying", "fetching", "handling", "sleeping"}
    BY <1>a, <1>d DEF TypeOK
  <2>4. \/ checkpoint' \in [offset : Nat, pending : SUBSET Update]
        \/ checkpoint' = Unread /\ pc' \in {"off", "loading", "sleeping"}
    BY <1>a, <1>c, <1>d DEF TypeOK
  <2>5. QED
    BY <1>a, <1>c, <1>e, <2>1, <2>2, <2>3, <2>4 DEF TypeOK
<1>2. PendingIsPast'
  BY <1>a, <1>c DEF PendingIsPast
<1>3. OffsetIsSafe'
  <2>1. CASE confirmed' = confirmed
    BY <1>a, <1>c, <2>1 DEF OffsetIsSafe, ConfirmedIsSafe
  <2>2. CASE pc = "fetching" /\ confirmed' = checkpoint.offset
    BY <1>a, <1>b, <1>c, <2>2 DEF OffsetIsSafe, ConfirmedIsSafe, Reading
  <2>3. QED
    BY <1>f, <2>1, <2>2
<1>4. BatchIsNext'
  BY <1>a, <1>c, <1>d, <1>f DEF BatchIsNext
<1>5. BatchIsReady'
  BY <1>a, <1>c, <1>d, <1>g DEF BatchIsReady
<1>6. CompletedIsKnown'
  BY <1>a, <1>c, <1>d, <1>g DEF CompletedIsKnown
<1>7. AlbumsShareOneFate'
  BY <1>a, <1>c, <1>d, <1>g DEF AlbumsShareOneFate
<1>8. QED
  BY <1>1, <1>2, <1>3, <1>4, <1>5, <1>6, <1>7 DEF PollingInv

\* getUpdates: what the loop takes for handled by confirming it is so.
LEMMA FetchKeepsIt ==
    ASSUME PollingInv, Fetch
    PROVE  PollingInv'
<1>a. /\ TypeOK /\ PendingIsPast /\ OffsetIsSafe /\ BatchIsNext /\ BatchIsReady
      /\ CompletedIsKnown /\ AlbumsShareOneFate
  BY DEF PollingInv
<1>b. /\ checkpoint # Unread /\ checkpoint \in [offset : Nat, pending : SUBSET Update]
      /\ checkpoint.offset \in Nat
  BY <1>a, ReadCheckpoint DEF Fetch, Reading
<1>c. /\ UNCHANGED <<arrived, stored, due, active, checkpoint, completed, settled, wins, faults>>
      /\ pc = "fetching" /\ pc' = "handling" /\ drained' = FALSE /\ failed' = {}
      /\ todo' = {u \in batch' : ~IsPart(u)}
  BY DEF Fetch
<1>d. /\ confirmed' \in {confirmed, checkpoint.offset} /\ confirmed' \in Nat
      /\ confirmed' >= checkpoint.offset /\ confirmed' >= confirmed
  BY <1>a, <1>b DEF Fetch, Confirm, TypeOK
<1>e. batch' \subseteq Unconfirmed(confirmed') /\ batch' \in {Unconfirmed(confirmed'), {}}
  BY DEF Fetch
<1>f. Unconfirmed(confirmed') = {u \in Update : u >= confirmed' /\ u <= arrived
                    /\ Cardinality({v \in Update : confirmed' <= v /\ v < u}) < Limit}
  BY DEF Unconfirmed
<1>1. TypeOK'
  <2>1. batch' \subseteq Update /\ todo' \subseteq batch' /\ failed' \subseteq batch'
    BY <1>c, <1>e, <1>f
  <2>2. QED
    BY <1>a, <1>b, <1>c, <1>d, <2>1 DEF TypeOK
<1>2. PendingIsPast'
  BY <1>a, <1>c DEF PendingIsPast
<1>3. OffsetIsSafe'
  <2>1. \A u \in Update : u < confirmed' => u < confirmed \/ u < checkpoint.offset
    BY <1>d
  <2>2. QED
    BY <1>a, <1>b, <1>c, <2>1 DEF OffsetIsSafe, ConfirmedIsSafe
<1>4. BatchIsNext'
  <2>1. ASSUME NEW u \in batch'
        PROVE  u >= checkpoint.offset /\ u <= arrived
    <3>a. u \in Unconfirmed(confirmed')
      BY <1>e
    <3>b. u \in Update /\ u >= confirmed' /\ u <= arrived
      BY <1>f, <3>a
    <3>1. u \in Nat /\ u >= confirmed' /\ u <= arrived
      BY <3>b DEF Update
    <3>2. QED
      BY <1>b, <1>d, <3>1
  <2>2. ASSUME NEW u \in Update, NEW v \in batch', confirmed' <= u, u <= v
        PROVE  u \in batch'
    <3>1. batch' = Unconfirmed(confirmed')
      BY <1>e
    <3>2. v \in Unconfirmed(confirmed') /\ arrived \in Nat
      BY <1>a, <3>1 DEF TypeOK
    <3>3. u \in Unconfirmed(confirmed')
      BY <1>d, <2>2, <3>2, FetchedWithoutGap, PollingAssumption
    <3>4. QED
      BY <3>1, <3>3
  <2>3. (\A u \in todo : ~IsPart(u))' /\ (\A u \in batch : IsPart(u) \/ u \in todo \cup failed \cup completed)'
    BY <1>c DEF IsPart
  <2>4. QED
    BY <1>c, <2>1, <2>2, <2>3 DEF BatchIsNext
<1>5. BatchIsReady' /\ AlbumsShareOneFate'
  BY <1>c DEF BatchIsReady, AlbumsShareOneFate
<1>6. CompletedIsKnown'
  <2>1. completed \cap checkpoint.pending = {}
    BY <1>a, <1>c DEF CompletedIsKnown
  <2>2. QED
    BY <1>a, <1>b, <1>c, <2>1 DEF CompletedIsKnown
<1>7. QED
  BY <1>1, <1>2, <1>3, <1>4, <1>5, <1>6 DEF PollingInv

\* The handlers of a group: none of it had succeeded and could have been forgotten.
LEMMA GroupsKeepIt ==
    ASSUME PollingInv, NEW u \in todo, GroupEnds(u)
    PROVE  PollingInv'
<1> DEFINE g == Group(u, todo)
           mates(w) == Group(w, checkpoint.pending)
<1>a. /\ TypeOK /\ PendingIsPast /\ OffsetIsSafe /\ BatchIsNext /\ BatchIsReady
      /\ CompletedIsKnown /\ AlbumsShareOneFate
  BY DEF PollingInv
<1>b. /\ checkpoint # Unread /\ checkpoint \in [offset : Nat, pending : SUBSET Update]
      /\ checkpoint.offset \in Nat /\ pc \in {"retrying", "handling"}
  BY <1>a, ReadCheckpoint DEF GroupEnds, Reading
<1>c. /\ UNCHANGED <<arrived, confirmed, stored, due, pc, active, checkpoint, drained, batch>>
      /\ todo' = todo \ g
  BY DEF GroupEnds, server
<1>d. g \subseteq todo /\ u \in g /\ g \subseteq batch /\ batch \subseteq Update /\ todo \subseteq batch
  BY <1>a DEF Group, TypeOK
<1>e. \/ /\ settled' = settled \cup g /\ completed' = completed \cup g /\ failed' = failed
         /\ wins' = [v \in Update |-> IF v \in g \ completed THEN wins[v] + 1 ELSE wins[v]]
         /\ faults' = faults
      \/ /\ failed' = failed \cup g /\ ~(g \subseteq completed)
         /\ UNCHANGED <<completed, settled, wins>>
         /\ faults' = faults \/ (faults < MaxFaults /\ faults' = faults + 1)
  BY DEF GroupEnds, Handle, Fault
<1>g. /\ Ready(checkpoint)' = Ready(checkpoint)
      /\ \A w : Group(w, checkpoint.pending)' = mates(w)
  BY <1>c DEF Ready, Group
<1>h. ASSUME pc = "handling"
      PROVE  g = {u}
  BY <1>a, <1>h DEF BatchIsNext, Group, IsPart
<1>i. ASSUME pc = "retrying"
      PROVE  /\ batch \subseteq Ready(checkpoint) /\ batch \subseteq checkpoint.pending
             /\ ~drained
  BY <1>a, <1>i, AlbumsAreReadyWhole DEF BatchIsReady
<1> HIDE DEF g, mates
<1>1. TypeOK'
  <2>1. wins' \in [Update -> Nat] /\ faults' \in 0 .. MaxFaults
    <3>1. wins \in [Update -> Nat] /\ faults \in 0 .. MaxFaults
      BY <1>a DEF TypeOK
    <3>2. wins' \in [Update -> Nat]
      BY <1>e, <3>1
    <3>3. faults' \in 0 .. MaxFaults
      BY <1>e, <3>1, PollingAssumption
    <3>4. QED
      BY <3>2, <3>3
  <2>2. todo' \subseteq batch /\ failed' \subseteq batch /\ completed' \subseteq Update /\ settled' \subseteq Update
    BY <1>a, <1>c, <1>d, <1>e DEF TypeOK
  <2>3. QED
    BY <1>a, <1>b, <1>c, <2>1, <2>2 DEF TypeOK
<1>2. PendingIsPast'
  BY <1>a, <1>c DEF PendingIsPast
<1>3. OffsetIsSafe'
  <2>1. settled \subseteq settled'
    BY <1>e
  <2>2. QED
    BY <1>a, <1>c, <2>1 DEF OffsetIsSafe, ConfirmedIsSafe
<1>4. BatchIsNext'
  <2>1. CASE pc = "handling"
    <3>1. /\ \A v \in batch : v >= checkpoint.offset /\ v <= arrived
          /\ \A v \in Update, w \in batch : confirmed <= v /\ v <= w => v \in batch
          /\ \A v \in todo : ~IsPart(v)
          /\ failed \cap completed = {}
          /\ \A v \in batch : IsPart(v) \/ v \in todo \cup failed \cup completed
      BY <1>a, <2>1 DEF BatchIsNext
    <3>2. todo \cap failed = {}
      BY <1>a DEF CompletedIsKnown
    <3>3. failed' \cap completed' = {}
      BY <1>e, <1>h, <2>1, <3>1, <3>2
    <3>4. \A v \in batch : IsPart(v) \/ v \in todo' \cup failed' \cup completed'
      BY <1>c, <1>e, <3>1
    <3>5. QED
      BY <1>c, <3>1, <3>3, <3>4 DEF BatchIsNext, IsPart
  <2>2. CASE pc # "handling"
    BY <1>c, <2>2 DEF BatchIsNext
  <2>3. QED
    BY <2>1, <2>2
<1>5. BatchIsReady'
  BY <1>a, <1>c, <1>g DEF BatchIsReady
<1>6. CompletedIsKnown'
  <2>1. \A v \in batch : v < checkpoint.offset => v \in checkpoint.pending
    <3>1. CASE pc = "handling"
      <4>1. \A v \in batch : v \in Nat /\ v >= checkpoint.offset
        BY <1>a, <1>d, <3>1 DEF BatchIsNext, Update
      <4>2. QED
        BY <1>b, <4>1
    <3>2. CASE pc = "retrying"
      BY <1>i, <3>2
    <3>3. QED
      BY <1>b, <3>1, <3>2
  <2>2. completed' \subseteq settled' /\ todo' \cap failed' = {}
    BY <1>a, <1>c, <1>e DEF CompletedIsKnown
  <2>3. ASSUME NEW v \in completed' \cap checkpoint.pending
        PROVE  pc \in {"retrying", "sleeping", "deciding", "off"} /\ ~drained /\ v \in Ready(checkpoint)
    <3>1. CASE v \in completed
      BY <1>a, <2>3, <3>1 DEF CompletedIsKnown
    <3>2. CASE v \in g /\ pc = "retrying"
      BY <1>d, <1>i, <3>2
    <3>3. CASE v \in g /\ pc = "handling"
      <4>1. v \in Nat /\ v >= checkpoint.offset /\ v < checkpoint.offset
        BY <1>a, <1>d, <2>3, <3>3 DEF BatchIsNext, PendingIsPast, Update
      <4>2. QED
        BY <1>b, <4>1
    <3>4. QED
      BY <1>b, <1>e, <2>3, <3>1, <3>2, <3>3
  <2>4. ASSUME NEW v \in Update
        PROVE  \/ wins'[v] = 0
               \/ wins'[v] = 1 /\ v \in completed'
               \/ wins'[v] = 1 /\ v < checkpoint.offset /\ v \notin checkpoint.pending
    <3>1. \/ wins[v] = 0
          \/ wins[v] = 1 /\ v \in completed
          \/ wins[v] = 1 /\ v < checkpoint.offset /\ v \notin checkpoint.pending
      BY <1>a DEF CompletedIsKnown
    <3>2. CASE v \in g \ completed /\ completed' = completed \cup g
               /\ wins' = [x \in Update |-> IF x \in g \ completed THEN wins[x] + 1 ELSE wins[x]]
      <4>1. wins[v] = 0
        BY <1>d, <2>1, <3>1, <3>2
      <4>2. QED
        BY <3>2, <4>1
    <3>3. CASE completed \subseteq completed' /\ wins'[v] = wins[v]
      BY <3>1, <3>3
    <3>4. QED
      BY <1>e, <3>2, <3>3
  <2>5. pc' # "loading" /\ checkpoint' # Unread
    BY <1>b, <1>c
  <2>6. QED
    BY <1>c, <1>g, <2>2, <2>3, <2>4, <2>5 DEF CompletedIsKnown
<1>7. AlbumsShareOneFate'
  <2> SUFFICES ASSUME pc = "retrying", NEW w \in batch
               PROVE  /\ mates(w) \subseteq batch
                      /\ \/ mates(w) \subseteq todo'
                         \/ /\ mates(w) \cap todo' = {}
                            /\ mates(w) \subseteq failed' \/ mates(w) \cap failed' = {}
    BY <1>c, <1>g DEF AlbumsShareOneFate
  <2>1. \A v \in batch : /\ v \in checkpoint.pending /\ mates(v) \subseteq batch /\ v \in mates(v)
                         /\ \/ mates(v) \subseteq todo
                            \/ /\ mates(v) \cap todo = {}
                               /\ mates(v) \subseteq failed \/ mates(v) \cap failed = {}
    <3>1. \A v \in batch : v \in checkpoint.pending /\ v \in Group(v, checkpoint.pending)
      BY <1>i DEF Group
    <3>2. QED
      BY <1>a, <3>1 DEF AlbumsShareOneFate, mates
  <2>2. g = mates(u)
    <3>1. mates(u) \subseteq todo
      BY <1>d, <2>1
    <3>2. todo \subseteq checkpoint.pending
      BY <1>d, <1>i
    <3>3. QED
      BY <3>1, <3>2 DEF mates, g, Group
  <2>3. ASSUME mates(w) \cap g # {}
        PROVE  mates(w) = g
    <3>1. PICK x : x \in mates(w) /\ x \in mates(u)
      BY <2>2, <2>3
    <3>2. mates(x) = mates(w)
      <4>1. w \in checkpoint.pending /\ x \in Group(w, checkpoint.pending)
        BY <2>1, <3>1 DEF mates
      <4>2. QED
        BY <4>1, GroupIsShared DEF mates
    <3>3. mates(x) = mates(u)
      <4>1. u \in checkpoint.pending /\ x \in Group(u, checkpoint.pending)
        BY <1>d, <2>1, <3>1 DEF mates
      <4>2. QED
        BY <4>1, GroupIsShared DEF mates
    <3>4. QED
      BY <2>2, <3>2, <3>3
  <2>4. todo \cap failed = {}
    BY <1>a DEF CompletedIsKnown
  <2>5. failed' = failed \/ failed' = failed \cup g
    BY <1>e
  <2>6. CASE mates(w) = g
    BY <1>c, <1>d, <2>1, <2>4, <2>5, <2>6
  <2>7. CASE mates(w) \cap g = {}
    BY <1>c, <2>1, <2>5, <2>7
  <2>8. QED
    BY <2>3, <2>6, <2>7
<1>8. QED
  BY <1>1, <1>2, <1>3, <1>4, <1>5, <1>6, <1>7 DEF PollingInv

\* A checkpoint that is saved, or whose write fails.
LEMMA SavesKeepIt ==
    ASSUME PollingInv, SaveFetched \/ SaveRetried \/ SaveFails
    PROVE  PollingInv'
<1>a. /\ TypeOK /\ PendingIsPast /\ OffsetIsSafe /\ BatchIsNext /\ BatchIsReady
      /\ CompletedIsKnown /\ AlbumsShareOneFate
  BY DEF PollingInv
<1>b. /\ pc \in {"handling", "retrying"} /\ todo = {}
      /\ checkpoint # Unread /\ checkpoint \in [offset : Nat, pending : SUBSET Update]
      /\ stored \in [offset : Nat, pending : SUBSET Update]
  BY <1>a, ReadCheckpoint DEF SaveFetched, SaveRetried, SaveFails, Settling, Reading, TypeOK
<1>c. UNCHANGED <<arrived, confirmed, active, batch, todo, failed, settled, wins>>
  BY DEF SaveFetched, SaveRetried, SaveFails, server
<1>d. pc' \in {"sleeping", "deciding", "off"}
  BY DEF SaveFetched, SaveRetried, SaveFails
<1>e. faults' \in 0 .. MaxFaults
  <2>1. faults' = faults \/ (faults < MaxFaults /\ faults' = faults + 1)
    BY DEF SaveFetched, SaveRetried, SaveFails, Fault
  <2>2. faults \in 0 .. MaxFaults
    BY <1>a DEF TypeOK
  <2>3. QED
    BY <2>1, <2>2, PollingAssumption
<1>f. BatchIsNext' /\ BatchIsReady' /\ AlbumsShareOneFate'
  BY <1>d DEF BatchIsNext, BatchIsReady, AlbumsShareOneFate
<1>g. \A u \in Update : \/ wins[u] = 0
                        \/ wins[u] = 1 /\ u \in completed
                        \/ wins[u] = 1 /\ u < checkpoint.offset /\ u \notin checkpoint.pending
  BY <1>a DEF CompletedIsKnown
<1>h. completed \subseteq settled /\ completed \subseteq Update
  BY <1>a DEF CompletedIsKnown, TypeOK
<1>i. NoCheckpoint.pending = {} /\ NoCheckpoint.offset = 0
      /\ NoCheckpoint \in [offset : Nat, pending : SUBSET Update]
  BY DEF NoCheckpoint, Checkpoint
<1>1. ASSUME NEW new \in [offset : Nat, pending : SUBSET Update],
             new.offset >= checkpoint.offset,
             \A u \in new.pending : u < new.offset,
             \A u \in Update : u < confirmed \/ u < new.offset => u \in settled \cup new.pending,
             completed' \cap new.pending = {}, completed' \subseteq completed,
             \A u \in completed : u \in completed' \/ (u < new.offset /\ u \notin new.pending),
             \A u \in Update : u < checkpoint.offset /\ u \notin checkpoint.pending => u \notin new.pending,
             checkpoint' = new, stored' \in {stored, NoCheckpoint, new},
             stored' # new => new.pending = {},
             due' \subseteq due, drained' \in BOOLEAN
      PROVE  PollingInv'
  <2> USE <1>1
  <2>1. TypeOK'
    <3>1. stored' \in [offset : Nat, pending : SUBSET Update] /\ completed' \subseteq Update /\ due' \subseteq Update
      BY <1>a, <1>b, <1>h, <1>i DEF TypeOK
    <3>2. QED
      BY <1>a, <1>c, <1>d, <1>e, <3>1 DEF TypeOK
  <2>2. PendingIsPast'
    BY <1>a, <1>i DEF PendingIsPast
  <2>3. OffsetIsSafe'
    <3>1. \A u \in Update : u < confirmed \/ u < new.offset => u \in settled \cup (stored'.pending \cap new.pending)
      OBVIOUS
    <3>2. \A u \in Update : u < stored'.offset => u \in settled \cup stored'.pending
      <4>1. CASE stored' = stored
        BY <1>a, <4>1 DEF OffsetIsSafe
      <4>2. CASE stored' = NoCheckpoint
        <5>1. \A u \in Update : ~(u < 0)
          BY DEF Update
        <5>2. QED
          BY <1>i, <4>2, <5>1
      <4>3. CASE stored' = new
        BY <4>3
      <4>4. QED
        BY <4>1, <4>2, <4>3
    <3>3. QED
      BY <1>c, <3>1, <3>2 DEF OffsetIsSafe, ConfirmedIsSafe
  <2>4. CompletedIsKnown'
    <3>1. ASSUME NEW u \in Update
          PROVE  \/ wins[u] = 0
                 \/ wins[u] = 1 /\ u \in completed'
                 \/ wins[u] = 1 /\ u < new.offset /\ u \notin new.pending
      <4>1. u < checkpoint.offset => u < new.offset
        BY <1>b DEF Update
      <4>2. QED
        BY <1>g, <4>1
    <3>2. checkpoint' # Unread
      BY DEF Unread, Checkpoint
    <3>3. completed' \subseteq settled' /\ todo' \cap failed' = {} /\ pc' # "loading"
      BY <1>b, <1>c, <1>d, <1>h
    <3>4. QED
      BY <1>c, <3>1, <3>2, <3>3 DEF CompletedIsKnown
  <2>5. QED
    BY <1>f, <2>1, <2>2, <2>3, <2>4 DEF PollingInv
<1>2. CASE SaveFetched
  <2>a. pc = "handling"
    BY <1>2 DEF SaveFetched
  <2>1. /\ AfterFetch \in [offset : Nat, pending : SUBSET Update]
        /\ AfterFetch.offset >= checkpoint.offset
        /\ \A u \in AfterFetch.pending : u < AfterFetch.offset
        /\ \A u \in Update : u < confirmed \/ u < AfterFetch.offset =>
               u \in settled \cup AfterFetch.pending
        /\ completed \cap AfterFetch.pending = {}
        /\ \A u \in Update : u < checkpoint.offset /\ u \notin checkpoint.pending =>
               u \notin AfterFetch.pending
    BY <1>b, <2>a, FetchedIsKept
  <2>2. /\ checkpoint' = AfterFetch /\ completed' = {u \in completed : u >= AfterFetch.offset}
        /\ due' \subseteq due /\ drained' \in BOOLEAN
        /\ stored' = IF AfterFetch.pending = {} THEN stored ELSE AfterFetch
    BY <1>2, <1>a, <2>a DEF SaveFetched, Saved, TypeOK
  <2>3. /\ completed' \cap AfterFetch.pending = {} /\ completed' \subseteq completed
        /\ \A u \in completed : u \in completed' \/ (u < AfterFetch.offset /\ u \notin AfterFetch.pending)
    <3>1. \A u \in completed : u \in Nat
      BY <1>h DEF Update
    <3>2. \A u \in completed : u >= AfterFetch.offset \/ u < AfterFetch.offset
      BY <2>1, <3>1
    <3>3. QED
      BY <2>1, <2>2, <3>2
  <2>4. stored' \in {stored, NoCheckpoint, AfterFetch} /\ (stored' # AfterFetch => AfterFetch.pending = {})
    BY <2>2
  <2> HIDE DEF AfterFetch
  <2>5. QED
    BY <1>1, <2>1, <2>2, <2>3, <2>4
<1>3. CASE SaveRetried
  <2>a. pc = "retrying"
    BY <1>3 DEF SaveRetried
  <2>1. /\ AfterRetry \in [offset : Nat, pending : SUBSET Update]
        /\ AfterRetry.offset = checkpoint.offset
        /\ AfterRetry.pending = checkpoint.pending \ completed
        /\ \A u \in AfterRetry.pending : u < AfterRetry.offset
        /\ \A u \in Update : u < confirmed \/ u < AfterRetry.offset =>
               u \in settled \cup AfterRetry.pending
    BY <2>a, RetriedIsKept
  <2>2. /\ checkpoint' = AfterRetry /\ completed' = completed \ batch
        /\ due' \subseteq due /\ drained' \in BOOLEAN
        /\ stored' = IF AfterRetry.pending = {} THEN NoCheckpoint ELSE AfterRetry
    BY <1>3, <2>a DEF SaveRetried, Saved
  <2>3. batch \subseteq checkpoint.pending
    BY <1>a, <2>a, AlbumsAreReadyWhole DEF BatchIsReady
  <2>4. /\ completed' \cap AfterRetry.pending = {} /\ completed' \subseteq completed
        /\ \A u \in completed : u \in completed' \/ (u < AfterRetry.offset /\ u \notin AfterRetry.pending)
    BY <1>a, <2>1, <2>2, <2>3 DEF PendingIsPast
  <2>5. /\ stored' \in {stored, NoCheckpoint, AfterRetry} /\ (stored' # AfterRetry => AfterRetry.pending = {})
        /\ AfterRetry.offset >= checkpoint.offset
    BY <1>b, <2>1, <2>2
  <2>6. \A u \in Update : u < checkpoint.offset /\ u \notin checkpoint.pending => u \notin AfterRetry.pending
    BY <2>1
  <2>7. QED
    BY <1>1, <2>1, <2>2, <2>4, <2>5, <2>6
<1>4. CASE SaveFails
  <2>1. UNCHANGED <<due, checkpoint, completed, drained>> /\ stored' \in {stored, Saved}
    BY <1>4 DEF SaveFails
  <2>2. ASSUME stored' # stored
        PROVE  /\ stored' \in [offset : Nat, pending : SUBSET Update]
               /\ \A u \in stored'.pending : u < stored'.offset
               /\ \A u \in Update : u < confirmed \/ u < stored'.offset => u \in settled \cup stored'.pending
               /\ checkpoint.pending \subseteq settled \cup stored'.pending
    <3>1. CASE pc = "handling"
      <4>1. stored' = AfterFetch
        BY <1>4, <2>1, <2>2, <3>1 DEF SaveFails, Saved
      <4>2. QED
        BY <1>b, <3>1, <4>1, FetchedIsKept
    <3>2. CASE pc = "retrying"
      <4>1. /\ AfterRetry \in [offset : Nat, pending : SUBSET Update]
            /\ AfterRetry.pending = checkpoint.pending \ completed
            /\ \A u \in AfterRetry.pending : u < AfterRetry.offset
            /\ \A u \in Update : u < confirmed \/ u < AfterRetry.offset =>
                   u \in settled \cup AfterRetry.pending
        BY <3>2, RetriedIsKept
      <4>2. stored' = IF AfterRetry.pending = {} THEN NoCheckpoint ELSE AfterRetry
        BY <1>b, <2>1, <2>2, <3>2 DEF Saved
      <4>3. \A u \in Update : ~(u < 0)
        BY DEF Update
      <4>4. checkpoint.pending \subseteq settled \cup AfterRetry.pending
        BY <1>h, <4>1
      <4>5. CASE AfterRetry.pending = {}
        BY <1>i, <4>1, <4>2, <4>3, <4>4, <4>5
      <4>6. CASE AfterRetry.pending # {}
        BY <4>1, <4>2, <4>4, <4>6
      <4>7. QED
        BY <4>5, <4>6
    <3>3. QED
      BY <1>b, <3>1, <3>2
  <2>3. TypeOK'
    BY <1>a, <1>b, <1>c, <1>d, <1>e, <2>1, <2>2 DEF TypeOK
  <2>4. PendingIsPast'
    BY <1>a, <2>1, <2>2 DEF PendingIsPast
  <2>5. OffsetIsSafe'
    BY <1>a, <1>b, <1>c, <2>1, <2>2 DEF OffsetIsSafe, ConfirmedIsSafe
  <2>6. CompletedIsKnown'
    <3>1. Ready(checkpoint)' = Ready(checkpoint)
      BY <2>1 DEF Ready
    <3>2. pc' \in {"sleeping", "off"}
      BY <1>4 DEF SaveFails
    <3>3. QED
      BY <1>a, <1>b, <1>c, <2>1, <3>1, <3>2 DEF CompletedIsKnown
  <2>7. QED
    BY <1>f, <2>3, <2>4, <2>5, <2>6 DEF PollingInv
<1>5. QED
  BY <1>2, <1>3, <1>4

\* Every step of the loop, of Telegram and of time keeps it.
LEMMA PollingStep == PollingInv /\ [Next]_vars => PollingInv'
<1> SUFFICES ASSUME PollingInv, [Next]_vars
             PROVE  PollingInv'
  OBVIOUS
<1>a. /\ TypeOK /\ PendingIsPast /\ OffsetIsSafe /\ BatchIsNext /\ BatchIsReady
      /\ CompletedIsKnown /\ AlbumsShareOneFate
  BY DEF PollingInv
<1>1. CASE UNCHANGED <<confirmed, stored, loop, settled, wins, faults>>
           /\ arrived' \in arrived .. MaxUpdate /\ due \subseteq due' /\ due' \subseteq Update
  <2> USE <1>1 DEF loop
  <2>a. Ready(checkpoint) \subseteq Ready(checkpoint)' /\ \A u : Group(u, checkpoint.pending)' = Group(u, checkpoint.pending)
    BY DEF Ready, Group
  <2>b. arrived \in Nat /\ arrived' \in Nat /\ arrived <= arrived' /\ arrived' <= MaxUpdate
    BY <1>a, PollingAssumption DEF TypeOK
  <2>1. TypeOK'
    BY <1>a, <2>b DEF TypeOK
  <2>2. PendingIsPast' /\ OffsetIsSafe'
    BY <1>a DEF PendingIsPast, OffsetIsSafe, ConfirmedIsSafe
  <2>3. BatchIsNext'
    <3>1. \A u \in batch : u <= arrived => u <= arrived'
      BY <1>a, <2>b DEF TypeOK, Update
    <3>2. QED
      BY <1>a, <3>1 DEF BatchIsNext, IsPart
  <2>4. BatchIsReady' /\ CompletedIsKnown' /\ AlbumsShareOneFate'
    BY <1>a, <2>a DEF BatchIsReady, CompletedIsKnown, AlbumsShareOneFate
  <2>5. QED
    BY <2>1, <2>2, <2>3, <2>4 DEF PollingInv
<1>2. CASE UNCHANGED vars
  <2>1. arrived' \in arrived .. MaxUpdate /\ due' \subseteq Update
    BY <1>2, <1>a, PollingAssumption DEF vars, server, TypeOK
  <2>2. QED
    BY <1>1, <1>2, <2>1 DEF vars, server
<1>3. CASE Arrive
  <2>1. arrived' \in arrived .. MaxUpdate /\ due' \subseteq Update
    BY <1>3, <1>a, PollingAssumption DEF Arrive, TypeOK
  <2>2. QED
    BY <1>1, <1>3, <2>1 DEF Arrive
<1>4. ASSUME NEW u \in Update, FallDue(u)
      PROVE  PollingInv'
  <2>1. arrived' \in arrived .. MaxUpdate /\ due' \subseteq Update
    BY <1>4, <1>a, PollingAssumption DEF FallDue, server, TypeOK
  <2>2. QED
    BY <1>1, <1>4, <2>1 DEF FallDue, server
<1>5. CASE Start \/ Load \/ Decide \/ Wake
  BY <1>5, BeginningsKeepIt
<1>6. CASE Stop \/ Crash \/ CallFails
  BY <1>6, InterruptionsKeepIt
<1>7. CASE Fetch
  BY <1>7, FetchKeepsIt
<1>8. ASSUME NEW u \in todo, GroupEnds(u)
      PROVE  PollingInv'
  BY <1>8, GroupsKeepIt
<1>9. CASE SaveFetched \/ SaveRetried \/ SaveFails
  BY <1>9, SavesKeepIt
<1>10. QED
  BY <1>2, <1>3, <1>4, <1>5, <1>6, <1>7, <1>8, <1>9 DEF Next, LoopStep

\* No crash, no stop and no failed call or write, in any order, loses an update that
\* Telegram was told to forget, repeats one within a run of the loop, or splits the
\* parts of an album.
THEOREM PollingKeepsUpdates == Spec => []UpdatesAreKept
<1>1. PollingInv => ConfirmedIsSafe
  BY DEF PollingInv, OffsetIsSafe
<1>2. PollingInv => OncePerRun
  BY DEF PollingInv, CompletedIsKnown, OncePerRun
<1>3. PollingInv => AlbumsStayWhole
  BY DEF PollingInv, AlbumsShareOneFate, AlbumsStayWhole
<1>4. QED
  BY <1>1, <1>2, <1>3, PollingInitially, PollingStep, PTL DEF Spec, UpdatesAreKept

-----------------------------------------------------------------------------
(* Albums *)

\* A task past its claim; and one whose part is no longer its own business: it
\* was written, or went down with the task.
Started == {d \in Delivery : albumPc[d] \notin {"arriving", "ignored"}}
Placed  == {d \in Started : albumPc[d] \notin {"locking", "appending", "writing"}}

\* The parts that a task has taken out of the buffer and not dispatched yet.
Taken(d) == IF albumPc[d] \in {"taking", "dispatching"} THEN entries[d] ELSE {}

\* One task for a part, however often it is delivered.
OneTaskEach ==
    /\ \A d \in Started : PartOf[d] \in claimed
    /\ \A d, e \in Started : PartOf[d] = PartOf[e] => d = e

\* Whoever is inside the critical section, or about to leave it, holds the lock.
HoldersHoldIt == \A d \in Delivery : albumPc[d] \in Album!Inside \cup Album!Unlocking => lock = d

\* What a task has read is what is there, until it acts on it.
ReadsAreFresh ==
    \A d \in Delivery :
        /\ albumPc[d] = "writing"  => entries[d] = buffer \cup {PartOf[d]}
        /\ albumPc[d] = "deleting" => quiet /\ entries[d] = buffer

\* A part that is in the buffer, taken or dispatched was put there by its task.
PartsComeFromTasks ==
    /\ \A p \in buffer : \E d \in Placed : PartOf[d] = p
    /\ \A e \in Delivery : \A p \in Taken(e) \cup album[e] : \E d \in Placed : PartOf[d] = p

\* And it is in one of these places only.
PlacesAreApart ==
    /\ \A d \in Delivery : album[d] # {} => albumPc[d] = "done"
    /\ \A d \in Delivery : buffer \cap Taken(d) = {} /\ buffer \cap album[d] = {}
    /\ \A d, e \in Delivery : d # e => /\ Taken(d) \cap Taken(e) = {}
                                       /\ Taken(d) \cap album[e] = {}
                                       /\ album[d] \cap album[e] = {}

AlbumInv ==
    /\ Album!TypeOK
    /\ OneTaskEach
    /\ ~lapsed => HoldersHoldIt /\ ReadsAreFresh /\ PartsComeFromTasks /\ PlacesAreApart

\* Nothing is claimed, buffered or taken at first.
LEMMA AlbumInit == Album!Init => AlbumInv
<1> SUFFICES ASSUME Album!Init PROVE AlbumInv
  OBVIOUS
<1> USE AlbumAssumption DEF Album!Init, Album!Inside, Album!Unlocking, Album!Over
<1>1. Album!TypeOK
  <2>1. albumFaults \in 0 .. MaxAlbumFaults /\ lock \in Delivery \cup {NoTask}
    OBVIOUS
  <2>2. QED
    BY <2>1 DEF Album!TypeOK
<1>2. OneTaskEach /\ Started = {}
  BY DEF OneTaskEach, Started
<1>3. HoldersHoldIt /\ ReadsAreFresh
  BY DEF HoldersHoldIt, ReadsAreFresh
<1>4. PartsComeFromTasks /\ PlacesAreApart
  BY DEF PartsComeFromTasks, PlacesAreApart, Taken
<1>5. QED
  BY <1>1, <1>2, <1>3, <1>4 DEF AlbumInv

\* The shape of every variable.
LEMMA AlbumTypes == Album!TypeOK /\ [Album!Next]_Album!vars => Album!TypeOK'
<1> SUFFICES ASSUME Album!TypeOK, [Album!Next]_Album!vars PROVE Album!TypeOK'
  OBVIOUS
<1> USE AlbumAssumption DEF Album!TypeOK, Album!Go, Album!Fault, Album!Inside,
                            Album!Unlocking, Album!Over, Album!shared, Album!history
<1>0. \A d \in Delivery : PartOf[d] \in Album!Part
  BY DEF Album!Part
<1>1. ASSUME NEW d \in Delivery, Album!TaskStep(d)
      PROVE  Album!TypeOK'
  <2>1. CASE Album!Claim(d)
    BY <1>0, <2>1 DEF Album!Claim
  <2>2. CASE Album!Lock(d)
    BY <2>2 DEF Album!Lock
  <2>3. CASE Album!ReadToAppend(d)
    BY <1>0, <2>3 DEF Album!ReadToAppend
  <2>4. CASE Album!Write(d)
    BY <2>4 DEF Album!Write
  <2>5. CASE Album!Look(d)
    BY <2>5 DEF Album!Look
  <2>6. CASE Album!Delete(d)
    BY <2>6 DEF Album!Delete
  <2>7. CASE Album!Release(d)
    BY <2>7 DEF Album!Release
  <2>8. CASE Album!Wake(d)
    BY <2>8 DEF Album!Wake
  <2>9. CASE Album!Dispatch(d)
    BY <2>9 DEF Album!Dispatch
  <2>10. QED
    BY <1>1, <2>1, <2>2, <2>3, <2>4, <2>5, <2>6, <2>7, <2>8, <2>9 DEF Album!TaskStep
<1>2. ASSUME NEW d \in Delivery, Album!ClaimRaises(d)
      PROVE  Album!TypeOK'
  BY <1>0, <1>2 DEF Album!ClaimRaises
<1>3. ASSUME NEW d \in Delivery, Album!CallRaises(d)
      PROVE  Album!TypeOK'
  <2>1. Album!Carried(d) \subseteq Album!Part
    BY <1>0 DEF Album!Carried
  <2>2. buffer' \subseteq Album!Part
    BY <1>3 DEF Album!CallRaises
  <2>3. quiet' \in BOOLEAN
    BY <1>3 DEF Album!CallRaises
  <2>4. spilled' \subseteq Album!Part /\ albumFaults' \in 0 .. MaxAlbumFaults
    BY <1>3, <2>1 DEF Album!CallRaises
  <2>5. UNCHANGED <<claimed, lock, entries, album, lapsed>>
           /\ albumPc' = [albumPc EXCEPT ![d] = "failing"]
    BY <1>3 DEF Album!CallRaises
  <2>6. QED
    BY <2>2, <2>3, <2>4, <2>5
<1>4. ASSUME NEW d \in Delivery, Album!Die(d)
      PROVE  Album!TypeOK'
  <2>1. Album!Carried(d) \subseteq Album!Part
    BY <1>0 DEF Album!Carried
  <2>2. QED
    BY <1>4, <2>1 DEF Album!Die
<1>5. CASE Album!LockLapses \/ Album!BufferExpires \/ Album!SettleWindowEnds
  <2>1. CASE Album!LockLapses
    <3>1. \/ UNCHANGED <<lapsed, albumFaults>>
          \/ lapsed' = TRUE /\ albumFaults < MaxAlbumFaults /\ albumFaults' = albumFaults + 1
      BY <2>1 DEF Album!LockLapses
    <3>2. lapsed' \in BOOLEAN
      BY <3>1
    <3>3. albumFaults' \in 0 .. MaxAlbumFaults
      BY <3>1
    <3>4. QED
      BY <2>1, <3>2, <3>3 DEF Album!LockLapses
  <2>2. CASE Album!BufferExpires
    BY <2>2 DEF Album!BufferExpires
  <2>3. CASE Album!SettleWindowEnds
    BY <2>3 DEF Album!SettleWindowEnds
  <2>4. QED
    BY <1>5, <2>1, <2>2, <2>3
<1>6. CASE Album!Finished \/ UNCHANGED Album!vars
  BY <1>6 DEF Album!Finished, Album!vars
<1>7. QED
  BY <1>1, <1>2, <1>3, <1>4, <1>5, <1>6 DEF Album!Next

\* Only the holder of the lock reads or changes the buffer, so what it takes was
\* nobody else's; a death or an exception takes nothing twice.
LEMMA AlbumStep == AlbumInv /\ [Album!Next]_Album!vars => AlbumInv'
<1> DEFINE Rest == OneTaskEach /\ (~lapsed => HoldersHoldIt /\ ReadsAreFresh
                                     /\ PartsComeFromTasks /\ PlacesAreApart)
<1> SUFFICES ASSUME AlbumInv, [Album!Next]_Album!vars PROVE Rest'
  BY AlbumTypes DEF AlbumInv
<1> USE AlbumAssumption
        DEF AlbumInv, Album!TypeOK, Album!Go, Album!Fault, Album!Inside,
            Album!Unlocking, Album!Over, Album!shared, Album!history, Started,
            Placed, Taken, OneTaskEach, HoldersHoldIt, ReadsAreFresh,
            PartsComeFromTasks,
            PlacesAreApart
<1>1. ASSUME NEW d \in Delivery, Album!Claim(d)
      PROVE  Rest'
  BY <1>1 DEF Album!Claim
<1>2. ASSUME NEW d \in Delivery, Album!Lock(d)
      PROVE  Rest'
  BY <1>2 DEF Album!Lock
<1>3. ASSUME NEW d \in Delivery, Album!ReadToAppend(d)
      PROVE  Rest'
  BY <1>3 DEF Album!ReadToAppend
<1>4. ASSUME NEW d \in Delivery, Album!Write(d)
      PROVE  Rest'
  BY <1>4 DEF Album!Write
<1>5. ASSUME NEW d \in Delivery, Album!Look(d)
      PROVE  Rest'
  BY <1>5 DEF Album!Look
<1>6. ASSUME NEW d \in Delivery, Album!Delete(d)
      PROVE  Rest'
  BY <1>6 DEF Album!Delete
<1>7. ASSUME NEW d \in Delivery, Album!Release(d)
      PROVE  Rest'
  BY <1>7 DEF Album!Release
<1>8. ASSUME NEW d \in Delivery, Album!Wake(d)
      PROVE  Rest'
  BY <1>8 DEF Album!Wake
<1>9. ASSUME NEW d \in Delivery, Album!Dispatch(d)
      PROVE  Rest'
  BY <1>9 DEF Album!Dispatch
<1>10. ASSUME NEW d \in Delivery, Album!ClaimRaises(d)
       PROVE  Rest'
  BY <1>10 DEF Album!ClaimRaises
<1>11. ASSUME NEW d \in Delivery, Album!CallRaises(d)
       PROVE  Rest'
  BY <1>11 DEF Album!CallRaises
<1>12. ASSUME NEW d \in Delivery, Album!Die(d)
       PROVE  Rest'
  BY <1>12 DEF Album!Die
<1>13. CASE Album!LockLapses
  BY <1>13 DEF Album!LockLapses
<1>14. CASE Album!BufferExpires \/ Album!SettleWindowEnds
  BY <1>14 DEF Album!BufferExpires, Album!SettleWindowEnds
<1>15. CASE Album!Finished \/ UNCHANGED Album!vars
  BY <1>15 DEF Album!Finished, Album!vars
<1>16. QED
  BY <1>1, <1>2, <1>3, <1>4, <1>5, <1>6, <1>7, <1>8, <1>9, <1>10, <1>11,
     <1>12, <1>13, <1>14, <1>15 DEF Album!Next, Album!TaskStep

\* A webhook's album lives as in TelegramAlbum, a polling adapter's not at all.
LEMMA AlbumsOfTheRun == EitherSpec => Album!Spec
<1>1. EitherInit => Album!Init
  BY DEF EitherInit
<1>2. [EitherNext]_<<mode, vars, albumVars>> => [Album!Next]_Album!vars
  BY DEF EitherNext, albumVars, Album!vars, Album!shared, Album!history
<1>3. QED
  BY <1>1, <1>2, PTL DEF EitherSpec, Album!Spec

\* Racing and repeated deliveries, in any processes, make one message of an album,
\* once it has settled, unless a lock or the buffer expires in use.
THEOREM AlbumsAreDispatchedWhole == EitherSpec => []AlbumsAreWhole
<1>1. AlbumInv => AlbumsAreWhole
  BY DEF AlbumInv, AlbumsAreWhole, Album!AlbumsAreWhole, Album!DispatchedOnce,
         Album!SettledWhole, ReadsAreFresh, PlacesAreApart
<1>2. QED
  BY AlbumsOfTheRun, AlbumInit, AlbumStep, <1>1, PTL DEF Album!Spec
=============================================================================
