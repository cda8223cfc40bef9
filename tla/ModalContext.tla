---------------------------- MODULE ModalContext ----------------------------
(***************************************************************************)
(* A modal from the handler that opens it to the submissions of its form   *)
(* (chat.py).  What the modal is about and the URL to call back is stored  *)
(* under a fresh context id before the platform is asked to open the view; *)
(* a submission finds it there, runs the handlers, and posts the form to   *)
(* the URL in a task of its own, unless a handler rejected the form.       *)
(***************************************************************************)
EXTENDS Naturals

CONSTANTS
    Submit,    \* the submissions of the form, each a webhook call
    MaxFaults  \* bound on failing calls and on the expiry of the context

VARIABLES
    context,   \* the record in the state backend
    view,      \* what the user sees
    opener,    \* what the handler that opens the modal does next
    task,      \* what each webhook call does next
    found,     \* the submissions that found the callback URL
    post,      \* the task that posts a form
    faults

vars == <<context, view, opener, task, found, post, faults>>

Fault == faults < MaxFaults /\ faults' = faults + 1

Init ==
    /\ context = "none" /\ view = "none" /\ opener = "storing"
    /\ task = [s \in Submit |-> "none"]
    /\ found = {}
    /\ post = [s \in Submit |-> "none"]
    /\ faults = 0

-----------------------------------------------------------------------------
(* _open_modal *)

\* Mutant (OpenViewHasContext): the write is not waited for.
StoreLater ==
    /\ opener = "storing"
    /\ opener' = "opening"
    /\ \E c \in {"none", "stored"} : context' = c
    /\ UNCHANGED <<view, task, found, post, faults>>

StoreContext ==
    /\ opener = "storing"
    /\ context' = "stored"
    /\ opener' = "opening"
    /\ UNCHANGED <<view, task, found, post, faults>>

\* The platform shows the view before it answers.
ViewOpens ==
    /\ opener = "opening"
    /\ view = "none"
    /\ view' = "open"
    /\ UNCHANGED <<context, opener, task, found, post, faults>>

OpenReturns ==
    /\ opener = "opening"
    /\ view # "none"
    /\ opener' = "done"
    /\ UNCHANGED <<context, view, task, found, post, faults>>

\* The write or the call raises; either may have taken effect.
OpenFails ==
    /\ opener \in {"storing", "opening"}
    /\ Fault
    /\ opener' = "failed"
    /\ context' \in {context} \cup (IF opener = "storing" THEN {"stored"} ELSE {})
    /\ UNCHANGED <<view, task, found, post>>

ContextExpires ==
    /\ context = "stored"
    /\ Fault
    /\ context' = "expired"
    /\ UNCHANGED <<view, opener, task, found, post>>

-----------------------------------------------------------------------------
(* process_modal_submit and process_modal_close *)

\* Also while an earlier submission is being handled: the platform gives up on
\* a slow answer and lets the user try again.
SubmitView(s) ==
    /\ view = "open"
    /\ task[s] = "none"
    /\ task' = [task EXCEPT ![s] = "retrieving"]
    /\ UNCHANGED <<context, view, opener, found, post, faults>>

CloseView ==
    /\ view = "open"
    /\ view' = "closed"
    /\ UNCHANGED <<context, opener, task, found, post, faults>>

Retrieve(s) ==
    /\ task[s] = "retrieving"
    /\ found' = IF context = "stored" THEN found \cup {s} ELSE found
    /\ task' = [task EXCEPT ![s] = "handling"]
    /\ UNCHANGED <<context, view, opener, post, faults>>

\* Nothing catches a read that fails: the webhook fails.
RetrieveFails(s) ==
    /\ task[s] = "retrieving"
    /\ Fault
    /\ task' = [task EXCEPT ![s] = "failed"]
    /\ UNCHANGED <<context, view, opener, found, post>>

\* A handler answers with errors for the form.
Reject(s) ==
    /\ task[s] = "handling"
    /\ task' = [task EXCEPT ![s] = "rejected"]
    /\ UNCHANGED <<context, view, opener, found, post, faults>>

\* Mutant (AcceptedIsPosted): only a handler's answer makes the form count.
AcceptAnswered(s) ==
    /\ task[s] = "handling"
    /\ task' = [task EXCEPT ![s] = "accepted"]
    /\ \E answered \in BOOLEAN :
           post' = IF s \in found /\ answered THEN [post EXCEPT ![s] = "posting"] ELSE post
    /\ view' \in {view, "closed"}
    /\ UNCHANGED <<context, opener, found, faults>>

\* No handler answers, or not with errors; one that raises is passed over.
Accept(s) ==
    /\ task[s] = "handling"
    /\ task' = [task EXCEPT ![s] = "accepted"]
    /\ post' = IF s \in found THEN [post EXCEPT ![s] = "posting"] ELSE post
    /\ view' \in {view, "closed"}
    /\ UNCHANGED <<context, opener, found, faults>>

\* post_to_callback_url never raises.
PostEnds(s) ==
    /\ post[s] = "posting"
    /\ post' = [post EXCEPT ![s] = "posted"]
    /\ UNCHANGED <<context, view, opener, task, found, faults>>

PostFails(s) ==
    /\ post[s] = "posting"
    /\ Fault
    /\ post' = [post EXCEPT ![s] = "failed"]
    /\ UNCHANGED <<context, view, opener, task, found>>

Step(s) == Retrieve(s) \/ Reject(s) \/ Accept(s) \/ PostEnds(s)

Next ==
    \/ StoreContext \/ ViewOpens \/ OpenReturns \/ OpenFails
    \/ ContextExpires \/ CloseView
    \/ \E s \in Submit : SubmitView(s) \/ RetrieveFails(s) \/ PostFails(s) \/ Step(s)

\* Webhook calls and background tasks go on.
Fairness == \A s \in Submit : WF_vars(Step(s))

Spec == Init /\ [][Next]_vars /\ Fairness

-----------------------------------------------------------------------------
\* Whoever submits first, the context is there before the view is: a fast user
\* with a slow backend does not outrun the write, nor does a call that failed
\* after the platform had opened the view leave a form without its context.
OpenViewHasContext == view = "open" => context # "none"

\* A form that no handler rejected is posted to the modal's URL, if the context
\* has not expired, also after earlier submissions were rejected or failed.
AcceptedIsPosted ==
    \A s \in Submit :
        (task[s] = "accepted" /\ context = "stored") ~> post[s] \in {"posted", "failed"}

\* No form is ever without its context.
FormsAreAnswered == []OpenViewHasContext /\ AcceptedIsPosted
=============================================================================
