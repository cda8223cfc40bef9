------------------------------ MODULE PlanEdits ------------------------------
(***************************************************************************)
(* The edits of one posted plan.  A call changes the plan, enqueues an     *)
(* edit of the message behind the edit enqueued before it, and waits for   *)
(* its own.  An edit is one asyncio task, and a second task behind it      *)
(* absorbs its error for the edit that waits for it; the end of the second *)
(* follows from that of the first, so the pair is one state here.          *)
(***************************************************************************)
EXTENDS Naturals, FiniteSets

CONSTANTS
    Call,        \* calls of add_task, update_task, reset or complete
    NoCall,      \* the chain is empty
    Cancelled,   \* the calls whose caller may be cancelled
    MaxFailures  \* bound of the model: edits that the platform refuses

VARIABLES
    model,     \* the plan: how many changes it has seen
    chain,     \* update_chain: the call that enqueued last
    made,      \* the plan as the call left it
    prev,      \* the call whose edit a call's edit waits for
    state,     \* where the edit of a call is
    sending,   \* the plan that the edit sends
    shown,     \* the plan that the platform shows
    stopped,   \* history: the calls whose caller was cancelled
    failures

vars == <<model, chain, made, prev, state, sending, shown, stopped, failures>>

Pending == {"waiting", "editing", "landed"}
Ended   == {"edited", "failed", "cancelled"}

Become(c, s) == state' = [state EXCEPT ![c] = s]

Init ==
    /\ model = 0
    /\ chain = NoCall
    /\ prev = [c \in Call |-> NoCall]
    /\ made = [c \in Call |-> 0]
    /\ state = [c \in Call |-> "none"]
    /\ sending = [c \in Call |-> 0]
    /\ shown = 0
    /\ stopped = {}
    /\ failures = 0

\* Mutant (OneEditAtATime): the chain is read and extended by two steps, and
\* another call comes between them.
ChangeInTwoSteps(c) ==
    /\ state[c] = "none"
    /\ model' = model + 1
    /\ made' = [made EXCEPT ![c] = model + 1]
    /\ prev' = [prev EXCEPT ![c] = IF chain = NoCall THEN NoCall ELSE prev[chain]]
    /\ chain' = c
    /\ Become(c, "waiting")
    /\ UNCHANGED <<sending, shown, stopped, failures>>

\* The plan changes and the edit is enqueued before anything is awaited.
Change(c) ==
    /\ state[c] = "none"
    /\ model' = model + 1
    /\ made' = [made EXCEPT ![c] = model + 1]
    /\ prev' = [prev EXCEPT ![c] = chain]
    /\ chain' = c
    /\ Become(c, "waiting")
    /\ UNCHANGED <<sending, shown, stopped, failures>>

\* Mutant (EditedIsShown): an edit sends the plan of the one before.
BeginWithOldPlan(c) ==
    /\ state[c] = "waiting"
    /\ prev[c] # NoCall => state[prev[c]] \in {"edited", "failed"}
    /\ sending' = [sending EXCEPT ![c] = IF prev[c] = NoCall THEN model ELSE sending[prev[c]]]
    /\ Become(c, "editing")
    /\ UNCHANGED <<model, chain, prev, made, shown, stopped, failures>>

\* Mutant (EveryEditEnds): an edit waits for a success.
BeginAfterSuccess(c) ==
    /\ state[c] = "waiting"
    /\ prev[c] # NoCall => state[prev[c]] = "edited"
    /\ sending' = [sending EXCEPT ![c] = model]
    /\ Become(c, "editing")
    /\ UNCHANGED <<model, chain, prev, made, shown, stopped, failures>>

\* The edit before has ended, by success or failure: the plan is sent as it is
\* now, with changes made since the call.
Begin(c) ==
    /\ state[c] = "waiting"
    /\ prev[c] # NoCall => state[prev[c]] \in {"edited", "failed"}
    /\ sending' = [sending EXCEPT ![c] = model]
    /\ Become(c, "editing")
    /\ UNCHANGED <<model, chain, prev, made, shown, stopped, failures>>

\* Neither of the two tasks absorbs a CancelledError.
Inherit(c) ==
    /\ state[c] = "waiting"
    /\ prev[c] # NoCall
    /\ state[prev[c]] = "cancelled"
    /\ Become(c, "cancelled")
    /\ UNCHANGED <<model, chain, prev, made, sending, shown, stopped, failures>>

Lands(c) ==
    /\ state[c] = "editing"
    /\ shown' = sending[c]
    /\ Become(c, "landed")
    /\ UNCHANGED <<model, chain, prev, made, sending, stopped, failures>>

Returns(c) ==
    /\ state[c] = "landed"
    /\ Become(c, "edited")
    /\ UNCHANGED <<model, chain, prev, made, sending, shown, stopped, failures>>

Fails(c) ==
    /\ state[c] \in {"editing", "landed"}
    /\ failures < MaxFailures
    /\ failures' = failures + 1
    /\ Become(c, "failed")
    /\ UNCHANGED <<model, chain, prev, made, sending, shown, stopped>>

-----------------------------------------------------------------------------

\* Cancelling a task cancels the task it waits for, and so on: every edit that
\* was enqueued before and has not ended.
Front(c) == {d \in Call : state[d] \in Pending /\ made[d] <= made[c]}

\* The caller is cancelled while it waits for its edit.  An edit under way may
\* have reached the platform.
Cancel(c) ==
    /\ c \in Cancelled
    /\ state[c] \in Pending
    /\ stopped' = stopped \cup {c}
    /\ state' = [d \in Call |-> IF d \in Front(c) THEN "cancelled" ELSE state[d]]
    /\ shown' \in {shown} \cup {sending[d] : d \in {e \in Front(c) : state[e] = "editing"}}
    /\ UNCHANGED <<model, chain, prev, made, sending, failures>>

-----------------------------------------------------------------------------

EditStep(c) == Begin(c) \/ Inherit(c) \/ Lands(c) \/ Returns(c)

Next == \E c \in Call : Change(c) \/ EditStep(c) \/ Fails(c) \/ Cancel(c)

\* The tasks are scheduled and the platform answers.
Fairness == \A c \in Call : WF_vars(EditStep(c))

Spec == Init /\ [][Next]_vars /\ Fairness

-----------------------------------------------------------------------------

TypeOK ==
    /\ model \in 0..Cardinality(Call) /\ shown \in 0..model
    /\ chain \in Call \cup {NoCall}
    /\ prev \in [Call -> Call \cup {NoCall}]
    /\ made \in [Call -> 0..model] /\ sending \in [Call -> 0..model]
    /\ state \in [Call -> Pending \cup Ended \cup {"none"}]
    /\ stopped \subseteq Cancelled
    /\ failures \in 0..MaxFailures

\* Calls of concurrent tasks never have two edits of the message under way.
OneEditAtATime ==
    Cardinality({c \in Call : state[c] \in {"editing", "landed"}}) <= 1

\* A call that returned has its change on the platform, or a later one.
EditedIsShown == \A c \in Call : state[c] = "edited" => shown >= made[c]

\* An older plan never replaces a newer one on the platform.
NewestStays == [][shown' >= shown]_vars

\* Every call comes to an end, whatever became of the edits before its own.
EveryEditEnds == \A c \in Call : state[c] \in Pending ~> state[c] \in Ended

\* The chain of edits brings each call to its end and the message to the newest
\* plan, never back.
PlansSettle == NewestStays /\ EveryEditEnds /\ []EditedIsShown

\* The chain absorbs what happens to an edit, so that the others still run: the
\* edit of a caller that nobody cancelled is attempted.
OthersEditsRun == \A c \in Call : state[c] = "cancelled" => c \in stopped
=============================================================================
