------------------------- MODULE SpaceSubscriptions -------------------------
(***************************************************************************)
(* The Google Chat adapter keeps a space subscribed to Workspace Events:   *)
(* calls share one attempt to find or create the subscription, which runs  *)
(* out and is renewed (adapters/google_chat/adapter.py).  One space, one   *)
(* process; Google's list shows what was created.                          *)
(***************************************************************************)
EXTENDS Integers

CONSTANTS
    Caller,           \* calls of _ensure_space_subscription
    MaxSubscriptions, \* bound on the subscriptions created
    MaxFaults         \* bound on failing calls, and on cancelled ones

VARIABLES
    pc,      \* "idle", "reading", "waiting", "listing", "creating", "storing", "returned", "failed"
    read,    \* the subscription a call found in the state, or 0
    saved,   \* space_sub:<space> in the state: a subscription, or 0
    pending, \* _pending_subscriptions: who creates, or 0
    waitsOn, \* whom a call waits for, or 0: nobody, or no longer
    created, \* how many subscriptions were created
    fresh,   \* those with more than an hour to live
    faults,
    blind,   \* history: the list was not to be read
    spoiled  \* history: a call during which something failed, or ran out

calls == <<pc, read, waitsOn>>
google == <<created, fresh>>
vars == <<calls, saved, pending, google, faults, blind, spoiled>>

Init ==
    /\ pc = [c \in Caller |-> "idle"] /\ read = [c \in Caller |-> 0]
    /\ waitsOn = [c \in Caller |-> 0]
    /\ saved = 0 /\ pending = 0 /\ created = 0 /\ fresh = {}
    /\ faults = 0 /\ blind = FALSE /\ spoiled = {}

Fault == faults < MaxFaults /\ faults' = faults + 1
Goto(c, s) == pc' = [pc EXCEPT ![c] = s]

\* The event of an attempt is set.
SetEvent(c) == waitsOn' = [d \in Caller |-> IF waitsOn[d] = c THEN 0 ELSE waitsOn[d]]

\* What goes wrong, goes wrong for every call under way, and for those that
\* join an attempt of theirs.
Underway == {c \in Caller : pc[c] \notin {"idle", "returned", "failed"}}
Spoil == spoiled' = spoiled \cup Underway

-----------------------------------------------------------------------------
\* _ensure_space_subscription

Read(c) ==
    /\ pc[c] = "idle"
    /\ read' = [read EXCEPT ![c] = saved]
    /\ Goto(c, "reading")
    /\ UNCHANGED <<waitsOn, saved, pending, google, faults, blind, spoiled>>

ReadFails(c) ==
    /\ pc[c] = "reading"
    /\ Fault
    /\ Goto(c, "failed")
    /\ UNCHANGED <<read, waitsOn, saved, pending, google, blind, spoiled>>

\* Mutant (OneSubscription): whoever finds nothing in the state creates.
DecideAlone(c) ==
    /\ pc[c] = "reading"
    /\ \/ read[c] \in fresh /\ Goto(c, "returned") /\ UNCHANGED pending
       \/ read[c] \notin fresh /\ pending' = c /\ Goto(c, "listing")
    /\ UNCHANGED <<read, waitsOn, saved, google, faults, blind, spoiled>>

Decide(c) ==
    /\ pc[c] = "reading"
    /\ \/ /\ read[c] \in fresh
          /\ Goto(c, "returned")
          /\ UNCHANGED <<pending, waitsOn, spoiled>>
       \/ /\ read[c] \notin fresh /\ pending # 0
          /\ waitsOn' = [waitsOn EXCEPT ![c] = pending]
          /\ Goto(c, "waiting")
          /\ spoiled' = IF pending \in spoiled THEN spoiled \cup {c} ELSE spoiled
          /\ UNCHANGED pending
       \/ /\ read[c] \notin fresh /\ pending = 0
          /\ pending' = c
          /\ Goto(c, "listing")
          /\ UNCHANGED <<waitsOn, spoiled>>
    /\ UNCHANGED <<read, saved, google, faults, blind>>

Wait(c) ==
    /\ pc[c] = "waiting"
    /\ waitsOn[c] = 0
    /\ Goto(c, "returned")
    /\ UNCHANGED <<read, waitsOn, saved, pending, google, faults, blind, spoiled>>

-----------------------------------------------------------------------------
\* _create_space_subscription_with_cache swallows every failure.

\* Mutant (ReturnedIsFresh): a subscription about to expire will do.
ListAny(c) ==
    /\ pc[c] = "listing"
    /\ \/ /\ created > 0
          /\ read' = [read EXCEPT ![c] = created]
          /\ Goto(c, "storing")
       \/ /\ created = 0
          /\ Goto(c, "creating")
          /\ UNCHANGED read
    /\ UNCHANGED <<waitsOn, saved, pending, google, faults, blind, spoiled>>

List(c) ==
    /\ pc[c] = "listing"
    /\ \/ /\ fresh # {}
          /\ read' = [read EXCEPT ![c] = CHOOSE s \in fresh : TRUE]
          /\ Goto(c, "storing")
       \/ /\ fresh = {}
          /\ Goto(c, "creating")
          /\ UNCHANGED read
    /\ UNCHANGED <<waitsOn, saved, pending, google, faults, blind, spoiled>>

\* A failing list is an empty one.
ListFails(c) ==
    /\ pc[c] = "listing"
    /\ Fault
    /\ blind' = TRUE
    /\ Goto(c, "creating")
    /\ UNCHANGED <<read, waitsOn, saved, pending, google, spoiled>>

Create(c) ==
    /\ pc[c] = "creating"
    /\ created < MaxSubscriptions
    /\ created' = created + 1
    /\ fresh' = fresh \cup {created'}
    /\ read' = [read EXCEPT ![c] = created']
    /\ Goto(c, "storing")
    /\ UNCHANGED <<waitsOn, saved, pending, faults, blind, spoiled>>

Store(c) ==
    /\ pc[c] = "storing"
    /\ saved' = read[c]
    /\ pending' = 0
    /\ SetEvent(c)
    /\ Goto(c, "returned")
    /\ UNCHANGED <<read, google, faults, blind, spoiled>>

CallFails(c) ==
    /\ pc[c] \in {"creating", "storing"}
    /\ Fault
    /\ pending' = 0
    /\ SetEvent(c)
    /\ Goto(c, "returned")
    /\ Spoil
    /\ UNCHANGED <<read, saved, google, blind>>

\* Mutant (WaitersGoOn): a cancelled attempt stays pending.
CancelledPending(c) ==
    /\ c \in Underway
    /\ Fault
    /\ UNCHANGED pending
    /\ Goto(c, "failed")
    /\ Spoil
    /\ UNCHANGED <<read, waitsOn, saved, google, blind>>

\* The finally of the attempt runs also when its webhook is cancelled.
Cancelled(c) ==
    /\ c \in Underway
    /\ Fault
    /\ pending' = IF pending = c THEN 0 ELSE pending
    /\ waitsOn' = [d \in Caller |-> IF waitsOn[d] = c \/ d = c THEN 0 ELSE waitsOn[d]]
    /\ Goto(c, "failed")
    /\ Spoil
    /\ UNCHANGED <<read, saved, google, blind>>

\* A subscription comes to its last hour; its successor, and those a list that
\* fails lets through, stay within the bound.
RunOut(s) ==
    /\ s \in fresh
    /\ created + MaxFaults < MaxSubscriptions
    /\ fresh' = fresh \ {s}
    /\ Spoil
    /\ UNCHANGED <<calls, saved, pending, created, faults, blind>>

Again(c) ==
    /\ pc[c] \in {"returned", "failed"}
    /\ Goto(c, "idle")
    /\ read' = [read EXCEPT ![c] = 0]
    /\ spoiled' = spoiled \ {c}
    /\ UNCHANGED <<waitsOn, saved, pending, google, faults, blind>>

-----------------------------------------------------------------------------
CallStep(c) == Decide(c) \/ Wait(c) \/ List(c) \/ Create(c) \/ Store(c)

Next ==
    \/ \E c \in Caller :
        \/ Read(c) \/ CallStep(c) \/ ReadFails(c) \/ ListFails(c) \/ CallFails(c) \/ Cancelled(c)
        \/ Again(c)
    \/ \E s \in 1 .. MaxSubscriptions : RunOut(s)

\* The state and Google answer.
Fairness == \A c \in Caller : WF_vars(CallStep(c))

Spec == Init /\ [][Next]_vars /\ Fairness

-----------------------------------------------------------------------------
\* A space is subscribed once at a time, whatever calls overlap: two would
\* deliver every message twice.  A list that cannot be read is the exception.
OneSubscription == ~blind => \A s, t \in fresh : s = t

\* "Creates one if it doesn't exist or is about to expire": a call that returns,
\* and during which nothing failed or ran out, leaves the space subscribed for
\* an hour at least.
ReturnedIsFresh ==
    [][\A c \in Caller :
           pc[c] # "returned" /\ pc'[c] = "returned" => fresh # {} \/ c \in spoiled']_vars

\* Nobody waits for ever for another's attempt, however that ends.
WaitersGoOn == \A c \in Caller : pc[c] = "waiting" ~> pc[c] # "waiting"

\* A space is subscribed, once, for whoever asked.
SpaceStaysSubscribed == []OneSubscription /\ ReturnedIsFresh
=============================================================================
