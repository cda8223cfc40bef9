-------------------------- MODULE TurnCancellation --------------------------
(***************************************************************************)
(* Aborting the turn of a thread from any process (chat.py, abort_turn and *)
(* _dispatch_to_handlers).  A turn publishes its id under the thread's     *)
(* active marker and polls the abort marker for its own id; abort_turn     *)
(* aborts the turns of its own process and copies the active marker into   *)
(* the abort marker for the others.                                        *)
(*                                                                         *)
(* One thread of an adapter with supports_turn_cancellation.  Its turns    *)
(* overlap under the concurrent strategy or after a lost lock; the model   *)
(* lets them overlap at will.  Every call of the state backend is one step.*)
(*                                                                         *)
(* A definition whose comment starts with "Mutant" is not part of the      *)
(* model: it is the bug that the property it names would catch.            *)
(***************************************************************************)
EXTENDS Naturals

CONSTANTS
    Turn,       \* turns of the thread, identified by their turn_id
    Stop,       \* calls of abort_turn for the thread
    ProcessOf,  \* the process of each turn and of each call
    MaxFaults,  \* bound on the faults of a behaviour
    Nobody      \* the content of an absent marker

\* What the theorems assume of the constants.
TurnAssumption ==
    /\ Nobody \notin Turn
    /\ Turn \cap Stop = {}
    /\ DOMAIN ProcessOf = Turn \cup Stop
    /\ MaxFaults \in Nat

\* An instance for TLC: every turn and every call in a process of its own.
AllApart == [x \in Turn \cup Stop |-> x]

VARIABLES
    active,   \* active-turn:<thread> in the backend
    abort,    \* abort-turn:<thread> in the backend
    pc,       \* what each turn does next
    polling,  \* turns whose monitor task is running
    aborted,  \* turns whose signal is aborted
    spc,      \* what each call of abort_turn does next
    sees,     \* what it has read from the active marker
    during,   \* history: the turns that ran while a call looked for them
    crowded,  \* history: turns that overlapped with another
    faults    \* history: faults so far

turnVars == <<pc, polling>>
stopVars == <<spc, sees, during>>
vars == <<active, abort, turnVars, aborted, stopVars, crowded, faults>>

\* The calls of _clear_turn_markers.
Clearing == {"checkActive", "dropActive", "checkAbort", "dropAbort"}

\* From the registration of the signal to the end of the finally clause.
Running == {t \in Turn : pc[t] \notin {"new", "over"}}

\* The turns in _active_turn_signals.
Registered == {t \in Turn : pc[t] \in {"publishing", "handling"}}

Goto(t, label)  == pc' = [pc EXCEPT ![t] = label]
SGoto(s, label) == spc' = [spc EXCEPT ![s] = label]

Fault == faults < MaxFaults /\ faults' = faults + 1

Init ==
    /\ active = Nobody
    /\ abort = Nobody
    /\ pc = [t \in Turn |-> "new"]
    /\ polling = {}
    /\ aborted = {}
    /\ spc = [s \in Stop |-> "new"]
    /\ sees = [s \in Stop |-> Nobody]
    /\ during = [s \in Stop |-> {}]
    /\ crowded = {}
    /\ faults = 0

-----------------------------------------------------------------------------
(* A turn *)

\* The signal is registered and the write of the active marker begins.
Begin(t) ==
    /\ pc[t] = "new"
    /\ Goto(t, "publishing")
    /\ crowded' = IF Running = {} THEN crowded ELSE crowded \cup Running \cup {t}
    /\ UNCHANGED <<active, abort, polling, aborted, stopVars, faults>>

\* The marker is written; the monitor starts beside the handlers.
Publish(t) ==
    /\ pc[t] = "publishing"
    /\ active' = t
    /\ polling' = polling \cup {t}
    /\ Goto(t, "handling")
    /\ UNCHANGED <<abort, aborted, stopVars, crowded, faults>>

\* Mutant (StopsOnlyWhatRan): any abort of the thread is taken for this turn's.
PollAnything(t) ==
    /\ t \in polling
    /\ t \in aborted \/ abort # Nobody
    /\ polling' = polling \ {t}
    /\ aborted' = aborted \cup {t}
    /\ UNCHANGED <<active, abort, pc, stopVars, crowded, faults>>

\* A poll that ends the monitor: the abort marker is for this turn, or its
\* signal was aborted meanwhile.  All other polls change nothing.
Poll(t) ==
    /\ t \in polling
    /\ t \in aborted \/ abort = t
    /\ polling' = polling \ {t}
    /\ aborted' = aborted \cup {t}
    /\ UNCHANGED <<active, abort, pc, stopVars, crowded, faults>>

\* The handlers return, raise or are cancelled: the signal is unregistered and
\* the monitor joined.
HandlersEnd(t) ==
    /\ pc[t] = "handling"
    /\ Goto(t, "checkActive")
    /\ polling' = polling \ {t}
    /\ UNCHANGED <<active, abort, aborted, stopVars, crowded, faults>>

\* Mutant (MarkersCleaned): the check is made against the wrong marker.
CheckWrongMarker(t) ==
    /\ pc[t] = "checkActive"
    /\ Goto(t, IF abort = t THEN "dropActive" ELSE "checkAbort")
    /\ UNCHANGED <<active, abort, polling, aborted, stopVars, crowded, faults>>

\* _clear_turn_markers: is the active marker still this turn's?
CheckActive(t) ==
    /\ pc[t] = "checkActive"
    /\ Goto(t, IF active = t THEN "dropActive" ELSE "checkAbort")
    /\ UNCHANGED <<active, abort, polling, aborted, stopVars, crowded, faults>>

\* The active marker is deleted, a newer turn's included.
DropActive(t) ==
    /\ pc[t] = "dropActive"
    /\ active' = Nobody
    /\ Goto(t, "checkAbort")
    /\ UNCHANGED <<abort, polling, aborted, stopVars, crowded, faults>>

CheckAbort(t) ==
    /\ pc[t] = "checkAbort"
    /\ Goto(t, IF abort = t THEN "dropAbort" ELSE "over")
    /\ UNCHANGED <<active, abort, polling, aborted, stopVars, crowded, faults>>

DropAbort(t) ==
    /\ pc[t] = "dropAbort"
    /\ abort' = Nobody
    /\ Goto(t, "over")
    /\ UNCHANGED <<active, polling, aborted, stopVars, crowded, faults>>

-----------------------------------------------------------------------------
(* abort_turn *)

\* The signals of this process's turns are aborted at once.
StopLocal(s) ==
    /\ spc[s] = "new"
    /\ aborted' = aborted
         \cup {t \in Registered : ProcessOf[t] = ProcessOf[s]}
    /\ during' = [during EXCEPT ![s] = @ \cup Running]
    /\ SGoto(s, "reading")
    /\ UNCHANGED <<active, abort, turnVars, sees, crowded, faults>>

\* The active marker is read ...
ReadActive(s) ==
    /\ spc[s] = "reading"
    /\ sees' = [sees EXCEPT ![s] = active]
    /\ during' = [during EXCEPT ![s] = @ \cup Running]
    /\ SGoto(s, IF active = Nobody THEN "over" ELSE "writing")
    /\ UNCHANGED <<active, abort, turnVars, aborted, crowded, faults>>

\* Mutant (StopReachesTheTurn): a standing abort is not overwritten.
WriteAbortOnce(s) ==
    /\ spc[s] = "writing"
    /\ abort' = IF abort = Nobody THEN sees[s] ELSE abort
    /\ SGoto(s, "over")
    /\ UNCHANGED <<active, turnVars, aborted, sees, during, crowded, faults>>

\* ... and copied into the abort marker, whatever is there by now.
WriteAbort(s) ==
    /\ spc[s] = "writing"
    /\ abort' = sees[s]
    /\ SGoto(s, "over")
    /\ UNCHANGED <<active, turnVars, aborted, sees, during, crowded, faults>>

-----------------------------------------------------------------------------
(* Faults *)

\* The write of the active marker raises, before or after it took effect, and
\* the turn goes on; or the turn is cancelled in it and goes to its cleanup.
PublishFails(t) ==
    /\ pc[t] = "publishing"
    /\ Fault
    /\ active' \in {active, t}
    /\ \/ Goto(t, "handling") /\ polling' = polling \cup {t}
       \/ Goto(t, "checkActive") /\ UNCHANGED polling
    /\ UNCHANGED <<abort, aborted, stopVars, crowded>>

\* A poll raises, and the monitor gives up.
PollFails(t) ==
    /\ t \in polling
    /\ Fault
    /\ polling' = polling \ {t}
    /\ UNCHANGED <<active, abort, pc, aborted, stopVars, crowded>>

\* A call of _clear_turn_markers raises or is cancelled, before or after it
\* took effect: what is left of the markers stays.
ClearFails(t) ==
    /\ pc[t] \in Clearing
    /\ Fault
    /\ Goto(t, "over")
    /\ \/ UNCHANGED <<active, abort>>
       \/ pc[t] = "dropActive" /\ active' = Nobody /\ UNCHANGED abort
       \/ pc[t] = "dropAbort" /\ abort' = Nobody /\ UNCHANGED active
    /\ UNCHANGED <<polling, aborted, stopVars, crowded>>

\* The process of a turn dies, and the markers stay.
Vanish(t) ==
    /\ t \in Registered
    /\ Fault
    /\ Goto(t, "over")
    /\ polling' = polling \ {t}
    /\ active' \in {active} \cup (IF pc[t] = "publishing" THEN {t} ELSE {})
    /\ UNCHANGED <<abort, aborted, stopVars, crowded>>

\* A call of abort_turn raises, or its process dies.
StopFails(s) ==
    /\ spc[s] \in {"reading", "writing"}
    /\ Fault
    /\ SGoto(s, "over")
    /\ abort' \in {abort} \cup (IF spc[s] = "writing" THEN {sees[s]} ELSE {})
    /\ UNCHANGED <<active, turnVars, aborted, sees, during, crowded>>

\* ACTIVE_TURN_TTL_MS is over for one of the markers.
MarkerExpires ==
    /\ Fault
    /\ \/ active # Nobody /\ active' = Nobody /\ UNCHANGED abort
       \/ abort # Nobody /\ abort' = Nobody /\ UNCHANGED active
    /\ UNCHANGED <<turnVars, aborted, stopVars, crowded>>

\* Turns and calls are over.
Finished ==
    /\ \A t \in Turn : pc[t] = "over"
    /\ \A s \in Stop : spc[s] = "over"
    /\ UNCHANGED vars

TurnStep(t) ==
    \/ Publish(t) \/ Poll(t) \/ CheckActive(t) \/ DropActive(t)
    \/ CheckAbort(t) \/ DropAbort(t)

StopStep(s) == ReadActive(s) \/ WriteAbort(s)

FaultStep ==
    \/ \E t \in Turn : PublishFails(t) \/ PollFails(t) \/ ClearFails(t) \/ Vanish(t)
    \/ \E s \in Stop : StopFails(s)
    \/ MarkerExpires

Next ==
    \/ \E t \in Turn : Begin(t) \/ HandlersEnd(t) \/ TurnStep(t)
    \/ \E s \in Stop : StopLocal(s) \/ StopStep(s)
    \/ FaultStep
    \/ Finished

Spec == Init /\ [][Next]_vars

\* What has started goes on, and a monitor keeps polling; handlers may run for
\* as long as they like.
FairSpec ==
    /\ Spec
    /\ \A t \in Turn : WF_vars(TurnStep(t)) /\ WF_vars(Poll(t))
    /\ \A s \in Stop : WF_vars(StopStep(s))

-----------------------------------------------------------------------------
(* Properties *)

\* Every variable has the shape the code gives it.
TypeOK ==
    /\ active \in Turn \cup {Nobody}
    /\ abort \in Turn \cup {Nobody}
    /\ pc \in [Turn -> {"new", "publishing", "handling", "over"} \cup Clearing]
    /\ polling \subseteq {t \in Turn : pc[t] = "handling"}
    /\ aborted \subseteq Turn
    /\ spc \in [Stop -> {"new", "reading", "writing", "over"}]
    /\ sees \in [Stop -> Turn \cup {Nobody}]
    /\ during \in [Stop -> SUBSET Turn]
    /\ crowded \subseteq Turn
    /\ faults \in 0 .. MaxFaults

\* An abort never hits a turn it was not meant for: whatever markers earlier
\* turns and calls left behind, an aborted turn ran while some call of
\* abort_turn was looking for turns.
StopsOnlyWhatRan == \A t \in aborted : \E s \in Stop : t \in during[s]

\* Unless something fails, no turn leaves the active marker set, however turns
\* overlap and clear each other's markers.
MarkersCleaned == faults = 0 /\ Running = {} => active = Nobody

\* Markers mean what they say: they stop only turns they were written for, and go
\* with the last turn.
MarkersAreMeant == StopsOnlyWhatRan /\ MarkersCleaned

\* A call of abort_turn reaches the running turn in whatever process it is,
\* unless the turn ends, shares the thread with another turn, or another call
\* that has read an older turn's marker has yet to write it.
StopReachesTheTurn ==
    \A s \in Stop, t \in Turn :
        (spc[s] = "reading" /\ pc[t] = "handling" /\ faults = 0)
          ~> \/ t \in aborted \cup crowded
             \/ pc[t] # "handling"
             \/ \E r \in Stop : spc[r] = "writing" /\ sees[r] # t
             \/ faults > 0

\* The abort of a turn running elsewhere that published itself is recorded in the shared state
\* backend, and its process aborts it on its next poll.
StopIsRecorded ==
    \A s \in Stop, t \in Turn :
        (/\ spc[s] = "reading" /\ pc[t] = "handling" /\ faults = 0
         /\ ProcessOf[s] # ProcessOf[t])
          ~> \/ t \in aborted \cup crowded
             \/ pc[t] # "handling"
             \/ faults > 0
=============================================================================
