---------------------------- MODULE TelegramAlbum ----------------------------
(***************************************************************************)
(* The parts of one Telegram album, delivered by webhooks to any process.  *)
(* A delivery claims its update_id and starts a task, which puts its part  *)
(* into the shared buffer under a lock and then waits until no part has    *)
(* come for the settle window; the first task to see that removes the      *)
(* buffer and dispatches one message with everything in it.                *)
(*                                                                         *)
(* One step is one call of the state backend.                              *)
(***************************************************************************)
EXTENDS Naturals

CONSTANTS
    Delivery,   \* webhook calls
    PartOf,     \* the part of the album that a delivery carries
    NoTask,     \* nobody holds the lock
    MaxFaults   \* bound of the model

Part == {PartOf[d] : d \in Delivery}

VARIABLES
    claimed,   \* parts whose update_id was claimed (set_if_not_exists)
    lock,      \* the delivery whose task holds the buffer's lock
    buffer,    \* the buffered parts
    quiet,     \* the settle window has passed since the newest part came
    pc,        \* where a delivery or its task is
    entries,   \* what the task read
    album,     \* the parts of the message the task dispatched
    lapsed,    \* history: a lock or the buffer expired while in use
    spilled,   \* history: parts that were with a task when it died
    faults

shared  == <<claimed, lock, buffer, quiet>>
history == <<lapsed, spilled>>
vars    == <<shared, pc, entries, album, history, faults>>

Fault == faults < MaxFaults /\ faults' = faults + 1

Inside == {"appending", "writing", "looking", "deleting"}
Unlocking == {"pausing", "taking", "leaving", "failing"}
Over   == {"ignored", "done", "dead"}

Go(d, l) == pc' = [pc EXCEPT ![d] = l]

Init ==
    /\ claimed = {}
    /\ lock = NoTask
    /\ buffer = {}
    /\ quiet = FALSE
    /\ pc = [d \in Delivery |-> "arriving"]
    /\ entries = [d \in Delivery |-> {}]
    /\ album = [d \in Delivery |-> {}]
    /\ lapsed = FALSE
    /\ spilled = {}
    /\ faults = 0

-----------------------------------------------------------------------------
(* handle_webhook *)

\* Mutant (DispatchedOnce): redeliveries are not claimed.
ClaimNothing(d) ==
    /\ pc[d] = "arriving"
    /\ claimed' = claimed \cup {PartOf[d]}
    /\ Go(d, "locking")
    /\ UNCHANGED <<lock, buffer, quiet, entries, album, history, faults>>

\* The update_id is claimed before the update is processed.
Claim(d) ==
    /\ pc[d] = "arriving"
    /\ claimed' = claimed \cup {PartOf[d]}
    /\ Go(d, IF PartOf[d] \in claimed THEN "ignored" ELSE "locking")
    /\ UNCHANGED <<lock, buffer, quiet, entries, album, history, faults>>

\* The claim raises, before or after it took effect: 503, and Telegram delivers
\* the update again, in vain if it took effect.
ClaimRaises(d) ==
    /\ pc[d] = "arriving"
    /\ Fault
    /\ \/ UNCHANGED <<claimed, spilled>>
       \/ /\ PartOf[d] \notin claimed
          /\ claimed' = claimed \cup {PartOf[d]}
          /\ spilled' = spilled \cup {PartOf[d]}
    /\ UNCHANGED <<lock, buffer, quiet, pc, entries, album, lapsed>>

-----------------------------------------------------------------------------
(* _process_incoming_media_group *)

\* acquire_lock wins; as long as it does not, the task sleeps and tries again.
Lock(d) ==
    /\ pc[d] \in {"locking", "checking"}
    /\ lock = NoTask
    /\ lock' = d
    /\ Go(d, IF pc[d] = "locking" THEN "appending" ELSE "looking")
    /\ UNCHANGED <<claimed, buffer, quiet, entries, album, history, faults>>

\* The first read: the task's own part replaces an earlier copy.
ReadToAppend(d) ==
    /\ pc[d] = "appending"
    /\ entries' = [entries EXCEPT ![d] = buffer \cup {PartOf[d]}]
    /\ Go(d, "writing")
    /\ UNCHANGED <<shared, album, history, faults>>

\* The write restarts the settle window.
Write(d) ==
    /\ pc[d] = "writing"
    /\ buffer' = entries[d]
    /\ quiet' = FALSE
    /\ Go(d, "pausing")
    /\ UNCHANGED <<claimed, lock, entries, album, history, faults>>

\* Mutant (SettledWhole): a task trusts its own sleep instead of the newest part.
LookOnce(d) ==
    /\ pc[d] = "looking"
    /\ entries' = [entries EXCEPT ![d] = buffer]
    /\ Go(d, IF buffer = {} THEN "leaving" ELSE "deleting")
    /\ UNCHANGED <<shared, album, history, faults>>

\* A later read: somebody else has dispatched the album, a part has come
\* within the window, or the album has settled.
Look(d) ==
    /\ pc[d] = "looking"
    /\ entries' = [entries EXCEPT ![d] = buffer]
    /\ Go(d, IF buffer = {} THEN "leaving"
             ELSE IF quiet THEN "deleting" ELSE "pausing")
    /\ UNCHANGED <<shared, album, history, faults>>

Delete(d) ==
    /\ pc[d] = "deleting"
    /\ buffer' = {}
    /\ Go(d, "taking")
    /\ UNCHANGED <<claimed, lock, quiet, entries, album, history, faults>>

\* Mutant (PartsReachAHandler): an album that is still settling is abandoned.
ReleaseAndLeave(d) ==
    /\ pc[d] \in Unlocking
    /\ lock' = IF lock = d THEN NoTask ELSE lock
    /\ Go(d, IF pc[d] = "taking" THEN "dispatching" ELSE "done")
    /\ UNCHANGED <<claimed, buffer, quiet, entries, album, history, faults>>

\* release_lock, in the finally; then the task sleeps, dispatches, or ends.
Release(d) ==
    /\ pc[d] \in Unlocking
    /\ lock' = IF lock = d THEN NoTask ELSE lock
    /\ Go(d, CASE pc[d] = "pausing" -> "settling"
               [] pc[d] = "taking"  -> "dispatching"
               [] pc[d] = "leaving" -> "done"
               [] pc[d] = "failing" -> "dead")
    /\ UNCHANGED <<claimed, buffer, quiet, entries, album, history, faults>>

Wake(d) ==
    /\ pc[d] = "settling"
    /\ Go(d, "checking")
    /\ UNCHANGED <<shared, entries, album, history, faults>>

\* The parts, in order, become one message.
Dispatch(d) ==
    /\ pc[d] = "dispatching"
    /\ album' = [album EXCEPT ![d] = entries[d]]
    /\ Go(d, "done")
    /\ UNCHANGED <<shared, entries, history, faults>>

-----------------------------------------------------------------------------
(* Faults and time *)

\* The parts that would go down with d.
Carried(d) ==
    CASE pc[d] \in {"taking", "dispatching"} -> entries[d]
      [] pc[d] \in {"locking", "appending", "writing"} -> {PartOf[d]}
      [] OTHER -> {}

\* A call inside the lock raises, before or after it took effect; the finally
\* releases the lock and the task ends with the exception.
CallRaises(d) ==
    /\ pc[d] \in Inside
    /\ Fault
    /\ \/ UNCHANGED buffer
       \/ pc[d] = "writing" /\ buffer' = entries[d]
       \/ pc[d] = "deleting" /\ buffer' = {}
    /\ quiet' = IF buffer' = buffer THEN quiet ELSE FALSE
    /\ spilled' = spilled \cup Carried(d) \cup (buffer \ buffer')
    /\ Go(d, "failing")
    /\ UNCHANGED <<claimed, lock, entries, album, lapsed>>

\* The task is cancelled by disconnect(), or its process dies: its lock stays.
Die(d) ==
    /\ pc[d] \notin Over \cup {"arriving"}
    /\ Fault
    /\ spilled' = spilled \cup Carried(d)
    /\ Go(d, "dead")
    /\ UNCHANGED <<shared, entries, album, lapsed>>

\* A lock expires: nobody's any more, or under a task that stalls.
LockLapses ==
    /\ lock # NoTask
    /\ IF pc[lock] \in Over THEN UNCHANGED <<lapsed, faults>>
                            ELSE Fault /\ lapsed' = TRUE
    /\ lock' = NoTask
    /\ UNCHANGED <<claimed, buffer, quiet, pc, entries, album, spilled>>

\* A buffer that nobody writes to for its TTL is gone.
BufferExpires ==
    /\ buffer # {}
    /\ Fault
    /\ lapsed' = TRUE
    /\ buffer' = {}
    /\ UNCHANGED <<claimed, lock, quiet, pc, entries, album, spilled>>

\* The settle window of the newest part ends.
SettleWindowEnds ==
    /\ buffer # {} /\ ~quiet
    /\ quiet' = TRUE
    /\ UNCHANGED <<claimed, lock, buffer, pc, entries, album, history, faults>>

Finished ==
    /\ \A d \in Delivery : pc[d] \in Over
    /\ UNCHANGED vars

TaskStep(d) ==
    \/ Claim(d) \/ Lock(d) \/ ReadToAppend(d) \/ Write(d) \/ Look(d) \/ Delete(d)
    \/ Release(d) \/ Wake(d) \/ Dispatch(d)

Next ==
    \/ \E d \in Delivery :
          TaskStep(d) \/ ClaimRaises(d) \/ CallRaises(d) \/ Die(d)
    \/ LockLapses \/ BufferExpires \/ SettleWindowEnds \/ Finished

Spec == Init /\ [][Next]_vars

\* Tasks that have started go on; a task that finds the lock taken tries again
\* until it gets it; expired locks go and windows end.
Fairness ==
    /\ \A d \in Delivery :
          /\ WF_vars(pc[d] # "arriving" /\ TaskStep(d))
          /\ SF_vars(Lock(d))
    /\ WF_vars(LockLapses /\ pc[lock] \in Over)
    /\ SF_vars(SettleWindowEnds)

FairSpec == Spec /\ Fairness

-----------------------------------------------------------------------------
(* Properties *)

Dispatched == UNION {album[d] : d \in Delivery}

TypeOK ==
    /\ claimed \subseteq Part /\ buffer \subseteq Part /\ spilled \subseteq Part
    /\ lock \in Delivery \cup {NoTask}
    /\ quiet \in BOOLEAN /\ lapsed \in BOOLEAN
    /\ pc \in [Delivery -> {"arriving", "locking", "settling", "checking",
                            "dispatching"} \cup Inside \cup Unlocking \cup Over]
    /\ entries \in [Delivery -> SUBSET Part]
    /\ album \in [Delivery -> SUBSET Part]
    /\ faults \in 0 .. MaxFaults

\* However the parts race and however often they are delivered, none is
\* dispatched twice, as long as no lock expires in use.
DispatchedOnce ==
    ~lapsed => \A d, e \in Delivery : d # e => album[d] \cap album[e] = {}

\* An album is dispatched only after it has settled: a part that came within
\* the window is in it, so nothing is left in the buffer that was there when
\* the album was taken.
SettledWhole ==
    ~lapsed => \A d \in Delivery : pc[d] = "deleting" => quiet /\ entries[d] = buffer

\* Racing deliveries make one album of an album.
AlbumsAreWhole == DispatchedOnce /\ SettledWhole

\* A part that is claimed reaches a handler, unless it goes down with the task
\* that has taken it, or its own task dies too early; what happens to the
\* other tasks of the album does not matter.
PartsReachAHandler ==
    \A p \in Part :
        (p \in claimed) ~> (p \in Dispatched \/ p \in spilled \/ lapsed
                            \/ \E d \in Delivery : PartOf[d] = p /\ pc[d] = "dead")
=============================================================================
