--------------------------- MODULE TelegramPolling ---------------------------
(***************************************************************************)
(* The Telegram adapter's long polling: getUpdates confirms every update   *)
(* below the offset it carries, so whatever was fetched has to be handled, *)
(* or saved in the checkpoint of the state backend, before the next call.  *)
(* Failed updates and the parts of albums wait in the checkpoint until     *)
(* they are due.                                                           *)
(*                                                                         *)
(* An update's handlers are one step; a group is an album's pending parts, *)
(* or a single update.  Deadlines are abstracted to the set of updates     *)
(* whose settle window or backoff is over.                                 *)
(***************************************************************************)
EXTENDS Integers, FiniteSets

CONSTANTS
    MaxUpdate,  \* bound of the model: how many updates arrive
    AlbumOf,    \* the album an update is a part of, or NoAlbum
    NoAlbum,
    Poison,     \* updates whose handler fails whenever it runs
    Limit,      \* how many updates one getUpdates returns
    MaxFaults   \* bound of the model: failed calls and handlers, stops, crashes

Update == 1 .. MaxUpdate

ASSUME PollingAssumption ==
    /\ MaxUpdate \in Nat
    /\ Limit \in Nat \ {0}
    /\ MaxFaults \in Nat

VARIABLES
    arrived,     \* Telegram: updates 1 .. arrived exist
    confirmed,   \* Telegram: updates below this offset are forgotten
    stored,      \* the checkpoint in the state backend, or NoCheckpoint
    due,         \* updates whose deadline() has passed
    pc,          \* where polling_loop is
    active,      \* _polling_active
    checkpoint,  \* the loop's checkpoint, Unread before it is read
    completed,   \* the loop's completed
    drained,     \* the loop's drained
    batch,       \* the updates being processed
    todo,        \* those whose handlers have not ended
    failed,      \* those whose group failed
    settled,     \* history: updates whose group has succeeded, ever
    wins,        \* history: how often, in this run of the loop
    faults

server == <<arrived, confirmed>>
loop   == <<pc, active, checkpoint, completed, drained, batch, todo, failed>>
vars   == <<server, stored, due, loop, settled, wins, faults>>

\* offset 0 stands for none.
Checkpoint(o, p) == [offset |-> o, pending |-> p]
NoCheckpoint     == Checkpoint(0, {})
Unread           == Checkpoint(-1, {})

Fault == faults < MaxFaults /\ faults' = faults + 1

\* _polling_group_key: the members of s that share u's fate.
Group(u, s) ==
    {v \in s : v = u \/ (AlbumOf[u] # NoAlbum /\ AlbumOf[v] = AlbumOf[u])}

IsPart(u) == AlbumOf[u] # NoAlbum

\* The pending updates that may be dispatched: their whole group is below the
\* offset and due.
Ready(c) ==
    {u \in c.pending : \A v \in Group(u, c.pending) : v < c.offset /\ v \in due}

\* What getUpdates returns: the oldest updates that are not confirmed.
Unconfirmed(from) ==
    {u \in Update : u >= from /\ u <= arrived
                    /\ Cardinality({v \in Update : from <= v /\ v < u}) < Limit}

Init ==
    /\ arrived = 0
    /\ confirmed = 0
    /\ stored = NoCheckpoint
    /\ due = {}
    /\ pc = "off"
    /\ active = FALSE
    /\ checkpoint = Unread
    /\ completed = {}
    /\ drained = FALSE
    /\ batch = {}
    /\ todo = {}
    /\ failed = {}
    /\ settled = {}
    /\ wins = [u \in Update |-> 0]
    /\ faults = 0

-----------------------------------------------------------------------------
(* Starting and stopping *)

\* start_polling.  The application calls it after stop_polling has returned.
Start ==
    /\ pc = "off"
    /\ pc' = "loading"
    /\ active' = TRUE
    /\ checkpoint' = Unread
    /\ completed' = {}
    /\ drained' = FALSE
    /\ batch' = {} /\ todo' = {} /\ failed' = {}
    /\ wins' = [u \in Update |-> 0]
    /\ UNCHANGED <<server, stored, due, settled, faults>>

\* stop_polling cancels the loop inside getUpdates or a sleep, and otherwise
\* lets it finish the step it is in.
Stop ==
    /\ active
    /\ Fault
    /\ active' = FALSE
    /\ pc' = IF pc \in {"fetching", "sleeping"} THEN "off" ELSE pc
    /\ UNCHANGED <<server, stored, due, checkpoint, completed, drained, batch,
                   todo, failed, settled, wins>>

\* The process dies.
Crash ==
    /\ pc # "off"
    /\ Fault
    /\ pc' = "off"
    /\ active' = FALSE
    /\ UNCHANGED <<server, stored, due, checkpoint, completed, drained, batch,
                   todo, failed, settled, wins>>

-----------------------------------------------------------------------------
(* One iteration *)

\* The top of the loop: the checkpoint, once read, is the loop's own.
Load ==
    /\ pc = "loading"
    /\ checkpoint' = stored
    /\ pc' = "deciding"
    /\ UNCHANGED <<server, stored, due, active, completed, drained, batch, todo,
                   failed, settled, wins, faults>>

\* Mutant (NobodyIsStarved): a ready batch always goes before getUpdates.
DecideRetriesFirst ==
    /\ pc = "deciding"
    /\ \/ /\ ~active
          /\ pc' = "off"
          /\ UNCHANGED <<batch, todo, failed>>
       \/ /\ active
          /\ Ready(checkpoint) # {}
          /\ pc' = "retrying"
          /\ batch' = Ready(checkpoint)
          /\ todo' = batch'
          /\ failed' = {}
       \/ /\ active
          /\ Ready(checkpoint) = {}
          /\ pc' = "fetching"
          /\ UNCHANGED <<batch, todo, failed>>
    /\ UNCHANGED <<server, stored, due, active, checkpoint, completed, drained,
                   settled, wins, faults>>

\* A ready batch is dispatched, but after one such batch getUpdates comes
\* first; a loop that was stopped meanwhile starts nothing.
Decide ==
    /\ pc = "deciding"
    /\ \/ /\ ~active
          /\ pc' = "off"
          /\ UNCHANGED <<batch, todo, failed>>
       \/ /\ active /\ ~drained
          /\ Ready(checkpoint) # {}
          /\ pc' = "retrying"
          /\ batch' = Ready(checkpoint)
          /\ todo' = batch'
          /\ failed' = {}
       \/ /\ active
          /\ drained \/ Ready(checkpoint) = {}
          /\ pc' = "fetching"
          /\ UNCHANGED <<batch, todo, failed>>
    /\ UNCHANGED <<server, stored, due, active, checkpoint, completed, drained,
                   settled, wins, faults>>

\* getUpdates reaches Telegram: everything below the offset is confirmed.
Confirm == confirmed' = IF checkpoint.offset > confirmed THEN checkpoint.offset
                                                         ELSE confirmed

\* It answers in time, or is abandoned for a deadline and counts as empty.
\* Album parts are not dispatched now.
Fetch ==
    /\ pc = "fetching"
    /\ Confirm
    /\ batch' \in {Unconfirmed(confirmed'), {}}
    /\ todo' = {u \in batch' : ~IsPart(u)}
    /\ failed' = {}
    /\ drained' = FALSE
    /\ pc' = "handling"
    /\ UNCHANGED <<arrived, stored, due, active, checkpoint, completed, settled,
                   wins, faults>>

\* A call raises, getUpdates perhaps after it confirmed: the loop backs off.
CallFails ==
    /\ Fault
    /\ \/ pc = "loading" /\ UNCHANGED confirmed
       \/ pc = "fetching" /\ (Confirm \/ UNCHANGED confirmed)
    /\ pc' = IF active THEN "sleeping" ELSE "off"
    /\ UNCHANGED <<arrived, stored, due, active, checkpoint, completed, drained,
                   batch, todo, failed, settled, wins>>

\* The loop sleeps, after a failure or while a deadline is near.
Wake ==
    /\ pc = "sleeping"
    /\ pc' = IF checkpoint = Unread THEN "loading" ELSE "deciding"
    /\ UNCHANGED <<server, stored, due, active, checkpoint, completed, drained,
                   batch, todo, failed, settled, wins, faults>>

-----------------------------------------------------------------------------
(* _process_polling_updates *)

\* Mutant (OncePerRun): completed is not consulted.
HandleAgain(g) ==
    /\ settled' = settled \cup g
    /\ wins' = [u \in Update |-> IF u \in g THEN wins[u] + 1 ELSE wins[u]]

\* run_update dispatches only what the loop has not completed before.
Handle(g) ==
    /\ settled' = settled \cup g
    /\ wins' = [u \in Update |->
                  IF u \in g \ completed THEN wins[u] + 1 ELSE wins[u]]

\* Mutant (AlbumsSettleWhole): a failed part does not fail its album.
GroupEndsByPart(u) ==
    /\ pc \in {"retrying", "handling"}
    /\ \/ /\ Handle({u})
          /\ u \notin Poison
          /\ completed' = completed \cup {u}
          /\ UNCHANGED <<failed, faults>>
       \/ /\ u \in Poison \/ Fault
          /\ u \in Poison => UNCHANGED faults
          /\ failed' = failed \cup {u}
          /\ UNCHANGED <<completed, settled, wins>>
    /\ todo' = todo \ {u}
    /\ UNCHANGED <<server, stored, due, pc, active, checkpoint, drained, batch>>

\* The handlers of a group have ended: if one failed, or was cancelled, the
\* whole group failed.
GroupEnds(u) ==
    LET g == Group(u, todo) IN
    /\ pc \in {"retrying", "handling"}
    /\ \/ /\ g \cap Poison \subseteq completed
          /\ Handle(g)
          /\ completed' = completed \cup g
          /\ UNCHANGED <<failed, faults>>
       \/ /\ ~(g \subseteq completed)
          /\ IF g \cap Poison # {} THEN UNCHANGED faults ELSE Fault
          /\ failed' = failed \cup g
          /\ UNCHANGED <<completed, settled, wins>>
    /\ todo' = todo \ g
    /\ UNCHANGED <<server, stored, due, pc, active, checkpoint, drained, batch>>

-----------------------------------------------------------------------------
(* Saving the checkpoint *)

Max1(S) == CHOOSE m \in S : \A n \in S : n <= m

\* What getUpdates leaves to be done: failures and album parts.
Fresh == failed \cup {u \in batch : IsPart(u) /\ u \notin completed}

\* The checkpoint after a fetched batch, and after a retried one.
AfterFetch ==
    Checkpoint(IF batch = {} THEN checkpoint.offset ELSE Max1(batch) + 1,
               checkpoint.pending \cup Fresh)
AfterRetry == Checkpoint(checkpoint.offset, checkpoint.pending \ completed)

\* What the state backend holds once that is saved: nothing is written as long
\* as nothing is pending, and a checkpoint that becomes empty is deleted.
Saved ==
    IF pc = "handling"
      THEN IF AfterFetch.pending = {} THEN stored ELSE AfterFetch
      ELSE IF AfterRetry.pending = {} THEN NoCheckpoint ELSE AfterRetry

Settling == pc \in {"handling", "retrying"} /\ todo = {}

\* Mutant (ConfirmedIsSafe): what failed is kept in memory only.
SaveFetchedInMemory ==
    /\ pc = "handling" /\ Settling
    /\ checkpoint' = AfterFetch
    /\ due' = due \ Fresh
    /\ completed' = {u \in completed : u >= AfterFetch.offset}
    /\ pc' = "deciding"
    /\ UNCHANGED <<server, stored, active, drained, batch, todo, failed, settled,
                   wins, faults>>

\* The offset moves past the fetched batch once what is left of it is saved.
\* With a deadline near and no updates, the loop takes a nap.
SaveFetched ==
    /\ pc = "handling" /\ Settling
    /\ stored' = Saved
    /\ checkpoint' = AfterFetch
    /\ due' = due \ Fresh
    /\ completed' = {u \in completed : u >= AfterFetch.offset}
    /\ pc' = IF batch = {} /\ checkpoint.pending # {} /\ active
               THEN "sleeping" ELSE "deciding"
    /\ UNCHANGED <<server, active, drained, batch, todo, failed, settled, wins,
                   faults>>

\* What succeeded leaves the checkpoint, what failed gets a later deadline.
SaveRetried ==
    /\ pc = "retrying" /\ Settling
    /\ stored' = Saved
    /\ checkpoint' = AfterRetry
    /\ due' = due \ failed
    /\ completed' = completed \ batch
    /\ drained' = TRUE
    /\ pc' = "deciding"
    /\ UNCHANGED <<server, active, batch, todo, failed, settled, wins, faults>>

\* The write raises, before or after it took effect; the loop goes on with the
\* checkpoint it had, and completed spares what succeeded.
SaveFails ==
    /\ Settling
    /\ pc = "handling" => AfterFetch.pending # {}
    /\ Fault
    /\ stored' \in {stored, Saved}
    /\ pc' = IF active THEN "sleeping" ELSE "off"
    /\ UNCHANGED <<server, due, active, checkpoint, completed, drained, batch,
                   todo, failed, settled, wins>>

-----------------------------------------------------------------------------
(* Telegram and time *)

Arrive ==
    /\ arrived < MaxUpdate
    /\ arrived' = arrived + 1
    /\ UNCHANGED <<confirmed, stored, due, loop, settled, wins, faults>>

\* A settle window or a backoff ends.
FallDue(u) ==
    /\ u \notin due
    /\ u \in checkpoint.pending \cup stored.pending
    /\ due' = due \cup {u}
    /\ UNCHANGED <<server, stored, loop, settled, wins, faults>>

LoopStep ==
    \/ Start \/ Load \/ Decide \/ Fetch \/ Wake \/ SaveFetched \/ SaveRetried
    \/ \E u \in todo : GroupEnds(u)

Next ==
    \/ LoopStep \/ Stop \/ Crash \/ CallFails \/ SaveFails \/ Arrive
    \/ \E u \in Update : FallDue(u)

Spec == Init /\ [][Next]_vars

\* The loop goes on, the application restarts it, deadlines pass, and a getUpdates
\* that is asked again and again is not abandoned every time.
Fairness ==
    /\ WF_vars(LoopStep)
    /\ SF_vars(Fetch /\ batch' = Unconfirmed(confirmed'))
    /\ \A u \in Update : WF_vars(FallDue(u))

FairSpec == Spec /\ Fairness

-----------------------------------------------------------------------------
(* Properties *)

TypeOK ==
    /\ arrived \in 0 .. MaxUpdate
    /\ confirmed \in Nat
    /\ stored \in [offset : Nat, pending : SUBSET Update]
    /\ \/ checkpoint \in [offset : Nat, pending : SUBSET Update]
       \/ checkpoint = Unread /\ pc \in {"off", "loading", "sleeping"}
    /\ pc \in {"off", "loading", "deciding", "retrying", "fetching", "handling",
               "sleeping"}
    /\ active \in BOOLEAN /\ drained \in BOOLEAN
    /\ due \subseteq Update /\ completed \subseteq Update /\ batch \subseteq Update
    /\ todo \subseteq batch /\ failed \subseteq batch
    /\ settled \subseteq Update
    /\ wins \in [Update -> Nat]
    /\ faults \in 0 .. MaxFaults

\* What Telegram has been told to forget was handled, or can be found in the
\* checkpoint after any crash.
ConfirmedIsSafe ==
    \A u \in Update : u < confirmed => u \in settled \cup stored.pending

\* One run of the loop runs the handlers of an update to success once, whatever
\* fails around them: a failed write must not repeat what is done.
OncePerRun == \A u \in Update : wins[u] <= 1

\* The parts of an album that wait in the checkpoint are dispatched together,
\* and succeed or fail together.
AlbumsStayWhole ==
    pc = "retrying" =>
        \A u \in batch :
            LET album == Group(u, checkpoint.pending) IN
            /\ album \subseteq batch
            /\ todo = {} => album \subseteq failed \/ album \cap failed = {}

\* No crash and no failed write loses an update, repeats it within a run, or
\* splits an album.
UpdatesAreKept == ConfirmedIsSafe /\ OncePerRun /\ AlbumsStayWhole

\* Every update is handled in the end, even while another one fails for ever.
NobodyIsStarved ==
    \A u \in Update : Group(u, Update) \cap Poison = {} =>
        ((arrived >= u) ~> (u \in settled))
=============================================================================
