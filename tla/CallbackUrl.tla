----------------------------- MODULE CallbackUrl -----------------------------
(***************************************************************************)
(* Buttons with a callback URL (callback_url.py).  Posting a card stores a *)
(* single-use token in the state backend and shows it on the button; each  *)
(* click resolves and consumes the token under a lease, and the click that *)
(* wins it POSTs the action to the URL.                                    *)
(*                                                                         *)
(* One button, rendered anew with a fresh token whenever its card is       *)
(* edited; clicks on any rendering, each handled by a task of its own in   *)
(* any process.  Every call of the state backend is one step.              *)
(*                                                                         *)
(* A definition whose comment starts with "Mutant" is not part of the      *)
(* model: it is the bug that the property it names would catch.            *)
(***************************************************************************)
EXTENDS Naturals, FiniteSets

CONSTANTS
    Token,      \* the tokens the renderings of the button may get
    Click,      \* deliveries of a click on the button
    Matching,   \* clicks whose action and conversation match the button's
    MaxFaults,  \* bound on the faults of a behaviour
    NoOne,      \* the holder of a free lock
    NoToken     \* the token of a click that has not happened

ASSUME CallbackAssumption ==
    /\ Matching \subseteq Click
    /\ MaxFaults \in Nat
    /\ NoOne \notin Click
    /\ NoToken \notin Token

VARIABLES
    record,    \* the stored callback of each token
    shown,     \* tokens that some rendering of the card has shown
    lock,      \* the click that holds the lock on a token's key, or NoOne
    pc,        \* what each click's task does next
    carries,   \* the token each click carries
    resolved,  \* clicks for which resolve_callback_url returns the record
    posted,    \* history: clicks whose action was POSTed
    spent,     \* history: tokens whose record a click has deleted
    faults     \* history: faults so far

vars == <<record, shown, lock, pc, carries, resolved, posted, spent, faults>>

cardVars  == <<record, shown>>
clickVars == <<pc, carries, resolved, posted>>

\* Where the task of a click may hold the lock of its token.
Inside == {"reading", "deleting", "extending", "releasing"}

Over == {"done", "failed"}

Goto(c, label) == pc' = [pc EXCEPT ![c] = label]

Fault == faults < MaxFaults /\ faults' = faults + 1

Init ==
    /\ record = [t \in Token |-> "none"]
    /\ shown = {}
    /\ lock = [t \in Token |-> NoOne]
    /\ pc = [c \in Click |-> "idle"]
    /\ carries = [c \in Click |-> NoToken]
    /\ resolved = {}
    /\ posted = {}
    /\ spent = {}
    /\ faults = 0

-----------------------------------------------------------------------------
(* The card *)

\* process_card_callback_urls writes the record of a fresh token ...
Mint(t) ==
    /\ record[t] = "none"
    /\ record' = [record EXCEPT ![t] = "stored"]
    /\ UNCHANGED <<shown, lock, clickVars, spent, faults>>

\* Mutant (MintedBeforeShown): the button is shown before its record is there.
ShowAtOnce(t) ==
    /\ t \notin shown
    /\ shown' = shown \cup {t}
    /\ UNCHANGED <<record, lock, clickVars, spent, faults>>

\* ... and then the adapter posts or edits the card.
Show(t) ==
    /\ record[t] # "none"
    /\ t \notin shown
    /\ shown' = shown \cup {t}
    /\ UNCHANGED <<record, lock, clickVars, spent, faults>>

-----------------------------------------------------------------------------
(* resolve_callback_url *)

\* A click arrives with the token of a rendering, perhaps not the latest.
Arrive(c, t) ==
    /\ pc[c] = "idle"
    /\ t \in shown
    /\ carries' = [carries EXCEPT ![c] = t]
    /\ Goto(c, "locking")
    /\ UNCHANGED <<cardVars, lock, resolved, posted, spent, faults>>

\* acquire_lock wins the lock of the token's key ...
AcquireLock(c) ==
    /\ pc[c] = "locking"
    /\ lock[carries[c]] = NoOne
    /\ lock' = [lock EXCEPT ![carries[c]] = c]
    /\ Goto(c, "reading")
    /\ UNCHANGED <<cardVars, carries, resolved, posted, spent, faults>>

\* ... or another click has it, and this one sees the raw value.
LockTaken(c) ==
    /\ pc[c] = "locking"
    /\ lock[carries[c]] # NoOne
    /\ Goto(c, "done")
    /\ UNCHANGED <<cardVars, lock, carries, resolved, posted, spent, faults>>

\* Mutant (MismatchSparesTheToken): the record is consumed before it is matched.
ReadUnmatched(c) ==
    /\ pc[c] = "reading"
    /\ Goto(c, IF record[carries[c]] = "stored" THEN "deleting" ELSE "releasing")
    /\ UNCHANGED <<cardVars, lock, carries, resolved, posted, spent, faults>>

\* get: the record is there and meant for this click, or the token stays.
Read(c) ==
    /\ pc[c] = "reading"
    /\ Goto(c, IF record[carries[c]] = "stored" /\ c \in Matching
                 THEN "deleting" ELSE "releasing")
    /\ UNCHANGED <<cardVars, lock, carries, resolved, posted, spent, faults>>

\* The record of c's token is deleted from the backend.
Consume(c) ==
    /\ record' = [record EXCEPT ![carries[c]] = "gone"]
    /\ spent' = spent \cup {carries[c]}

\* delete: the token is consumed.
Delete(c) ==
    /\ pc[c] = "deleting"
    /\ Consume(c)
    /\ Goto(c, "extending")
    /\ UNCHANGED <<shown, lock, carries, resolved, posted, faults>>

\* Mutant (ResolvedOnce): the answer of extend_lock is not looked at.
ExtendUnfenced(c) ==
    /\ pc[c] = "extending"
    /\ Goto(c, "releasing")
    /\ resolved' = resolved \cup {c}
    /\ UNCHANGED <<cardVars, lock, carries, posted, spent, faults>>

\* extend_lock, the fence: it succeeds only if the lease never lapsed.
Extend(c) ==
    /\ pc[c] = "extending"
    /\ Goto(c, "releasing")
    /\ resolved' = IF lock[carries[c]] = c THEN resolved \cup {c} ELSE resolved
    /\ UNCHANGED <<cardVars, lock, carries, posted, spent, faults>>

\* release_lock frees the lock if the token is still this task's.
Unlock(c) ==
    lock' = IF lock[carries[c]] = c THEN [lock EXCEPT ![carries[c]] = NoOne]
                                    ELSE lock

\* Mutant (SpentIsAnswered): the resolved record does not reach the handler.
ReleaseEmptyHanded(c) ==
    /\ pc[c] = "releasing"
    /\ Unlock(c)
    /\ Goto(c, "done")
    /\ UNCHANGED <<cardVars, carries, resolved, posted, spent, faults>>

\* The finally clause; a resolved click starts the POST beside its handlers.
Release(c) ==
    /\ pc[c] = "releasing"
    /\ Unlock(c)
    /\ Goto(c, IF c \in resolved THEN "posting" ELSE "done")
    /\ UNCHANGED <<cardVars, carries, resolved, posted, spent, faults>>

\* post_to_callback_url: one attempt, whatever the answer.
Post(c) ==
    /\ pc[c] = "posting"
    /\ posted' = posted \cup {c}
    /\ Goto(c, "done")
    /\ UNCHANGED <<cardVars, lock, carries, resolved, spent, faults>>

-----------------------------------------------------------------------------
(* Faults and time *)

\* A state call raises, before or after it took effect: the finally clause
\* releases the lock and the action fails.
CallFails(c) ==
    /\ pc[c] \in {"reading", "deleting", "extending"}
    /\ Fault
    /\ Goto(c, "unwinding")
    /\ \/ UNCHANGED <<record, spent>>
       \/ pc[c] = "deleting" /\ Consume(c)
    /\ UNCHANGED <<shown, lock, carries, resolved, posted>>

\* The finally clause after an exception.
Unwind(c) ==
    /\ pc[c] = "unwinding"
    /\ Unlock(c)
    /\ Goto(c, "failed")
    /\ UNCHANGED <<cardVars, carries, resolved, posted, spent, faults>>

\* The task ends where it is: its process dies, shutdown() cancels it, or
\* acquire_lock or release_lock raises.  A lock may be left behind.
Vanish(c) ==
    /\ pc[c] \notin Over \cup {"idle"}
    /\ Fault
    /\ Goto(c, "failed")
    /\ \/ UNCHANGED lock
       \/ /\ pc[c] = "locking"
          /\ lock[carries[c]] = NoOne
          /\ lock' = [lock EXCEPT ![carries[c]] = c]
       \/ pc[c] \in Inside \cup {"unwinding"} /\ Unlock(c)
    /\ UNCHANGED <<cardVars, carries, resolved, posted, spent>>

\* The lease on a token's key runs out, under a stalled call of its holder or
\* after its holder's death.
LeaseLapses(t) ==
    /\ lock[t] # NoOne
    /\ \/ pc[lock[t]] \in Over /\ UNCHANGED faults
       \/ pc[lock[t]] \notin Over /\ Fault
    /\ lock' = [lock EXCEPT ![t] = NoOne]
    /\ UNCHANGED <<cardVars, clickVars, spent>>

\* CALLBACK_TTL_MS is over.
RecordExpires(t) ==
    /\ record[t] = "stored"
    /\ Fault
    /\ record' = [record EXCEPT ![t] = "gone"]
    /\ UNCHANGED <<shown, lock, clickVars, spent>>

\* Every click has been dealt with, and no lock is left.
Finished ==
    /\ \A c \in Click : pc[c] \in Over
    /\ \A t \in Token : lock[t] = NoOne
    /\ UNCHANGED vars

\* What the task of a click does when nothing goes wrong.
ClickStep(c) ==
    \/ AcquireLock(c) \/ LockTaken(c) \/ Read(c) \/ Delete(c) \/ Extend(c)
    \/ Release(c) \/ Post(c) \/ Unwind(c)

Next ==
    \/ \E t \in Token : Mint(t) \/ Show(t) \/ LeaseLapses(t) \/ RecordExpires(t)
    \/ \E c \in Click : ClickStep(c) \/ CallFails(c) \/ Vanish(c)
    \/ \E c \in Click, t \in Token : Arrive(c, t)
    \/ Finished

Spec == Init /\ [][Next]_vars

\* The event loop keeps running the tasks of clicks that have arrived.
FairSpec == Spec /\ \A c \in Click : WF_vars(ClickStep(c))

-----------------------------------------------------------------------------
(* Properties *)

\* Every variable has the shape the code gives it.
TypeOK ==
    /\ record \in [Token -> {"none", "stored", "gone"}]
    /\ shown \subseteq Token
    /\ lock \in [Token -> Click \cup {NoOne}]
    /\ pc \in [Click -> Inside \cup Over
                          \cup {"idle", "locking", "unwinding", "posting"}]
    /\ carries \in [Click -> Token \cup {NoToken}]
    /\ \A c \in Click : pc[c] # "idle" => carries[c] \in Token
    /\ resolved \subseteq Click
    /\ posted \subseteq resolved
    /\ spent \subseteq Token
    /\ faults \in 0 .. MaxFaults

\* Each token resolves at most once: two clicks never both POST, even if the
\* lease of one lapsed between its reads and writes.
ResolvedOnce ==
    \A c, d \in resolved : carries[c] = carries[d] => c = d

\* The record of a token is there before any client can send the token.
MintedBeforeShown == \A t \in shown : record[t] # "none"

\* A click from another button or conversation leaves the record in place for
\* the one it was meant for.
MismatchSparesTheToken ==
    [][\A t \in Token :
         t \in spent' \ spent =>
           \E c \in Matching : carries[c] = t /\ pc[c] = "deleting"]_vars

\* No token is wasted: without faults a consumed token belongs to a click that
\* has resolved it, or is about to, and will POST.
SpentIsAnswered ==
    faults = 0 =>
      \A t \in spent :
         \E c \in Click :
            /\ carries[c] = t
            /\ \/ pc[c] = "extending"
               \/ c \in resolved /\ pc[c] \in {"releasing", "posting"}
               \/ c \in posted

\* A button's click is answered once: its record is there before the button, no
\* token resolves twice, and none is spent for nothing.
ClicksCountOnce == MintedBeforeShown /\ ResolvedOnce /\ SpentIsAnswered

\* If nothing fails, a token that was clicked is answered, unless a click from
\* elsewhere comes with it: of racing clicks one wins, and it POSTs.
ClickedIsAnswered ==
    \A t \in Token :
        (\E c \in Click : carries[c] = t) /\ faults = 0
          ~> \/ \E c \in posted : carries[c] = t
             \/ \E c \in Click \ Matching : carries[c] = t
             \/ faults > 0
=============================================================================
