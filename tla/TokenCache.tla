----------------------------- MODULE TokenCache -----------------------------
(***************************************************************************)
(* The access tokens an adapter caches: Google Chat (the bot's and an      *)
(* impersonated user's), GitHub (one per installation), Linear, and Teams  *)
(* (Graph and Bot Framework) share the pattern: a cached token that is not *)
(* about to expire is returned at once, else one lock of the adapter is    *)
(* taken, the cache looked at again, and a token fetched.                  *)
(***************************************************************************)
EXTENDS Integers, FiniteSets, Sequences

CONSTANTS
    Key,       \* the tokens of one adapter, behind its one lock
    Caller,    \* API calls under way
    MaxTokens, \* bound on the tokens fetched
    MaxFaults  \* bound on fetches that fail and callers cancelled

NoToken == 0

VARIABLES
    pc,     \* "idle", "locking", "fetching", "using", "failed"
    wants,  \* whose token a caller is after
    uses,   \* the token it makes its request with
    lock,   \* _token_lock: the holder, then those who wait, in order
    cache,  \* the cached token of each key
    issued, \* the tokens fetched, with their keys
    nearing, \* those about to expire
    faults

callers == <<pc, wants, uses>>
vars == <<callers, lock, cache, issued, nearing, faults>>

Init ==
    /\ pc = [c \in Caller |-> "idle"]
    /\ wants = [c \in Caller |-> CHOOSE k \in Key : TRUE]
    /\ uses = [c \in Caller |-> NoToken]
    /\ lock = <<>>
    /\ cache = [k \in Key |-> NoToken]
    /\ issued = <<>>
    /\ nearing = {}
    /\ faults = 0

Fault == faults < MaxFaults /\ faults' = faults + 1
Goto(c, s) == pc' = [pc EXCEPT ![c] = s]

\* Mutant (RequestsAreAuthorized): whatever is cached will do.
UsableAlways(k) == cache[k] # NoToken

Usable(k) == cache[k] # NoToken /\ cache[k] \notin nearing

Return(c, t) ==
    /\ uses' = [uses EXCEPT ![c] = t]
    /\ Goto(c, "using")

-----------------------------------------------------------------------------
Ask(c) ==
    /\ pc[c] = "idle"
    /\ \E k \in Key :
        /\ wants' = [wants EXCEPT ![c] = k]
        /\ \/ Usable(k) /\ Return(c, cache[k]) /\ UNCHANGED lock
           \/ ~Usable(k) /\ Goto(c, "locking") /\ lock' = lock \o <<c>> /\ UNCHANGED uses
    /\ UNCHANGED <<cache, issued, nearing, faults>>

\* Mutant (OneGoodToken): the cache is not looked at again.
LockedAlone(c) ==
    /\ pc[c] = "locking" /\ Head(lock) = c
    /\ Goto(c, "fetching")
    /\ UNCHANGED <<wants, uses, lock, cache, issued, nearing, faults>>

\* The lock is had, and the cache looked at again.
Locked(c) ==
    /\ pc[c] = "locking" /\ Head(lock) = c
    /\ \/ Usable(wants[c]) /\ Return(c, cache[wants[c]]) /\ lock' = Tail(lock)
       \/ ~Usable(wants[c]) /\ Goto(c, "fetching") /\ UNCHANGED <<uses, lock>>
    /\ UNCHANGED <<wants, cache, issued, nearing, faults>>

Fetched(c) ==
    /\ pc[c] = "fetching"
    /\ Len(issued) < MaxTokens
    /\ issued' = issued \o <<wants[c]>>
    /\ cache' = [cache EXCEPT ![wants[c]] = Len(issued')]
    /\ Return(c, Len(issued'))
    /\ lock' = Tail(lock)
    /\ UNCHANGED <<wants, nearing, faults>>

\* Mutant (CallersGoOn): a fetch that fails keeps the lock.
FetchFailsLocked(c) ==
    /\ pc[c] = "fetching"
    /\ Fault
    /\ Goto(c, "failed")
    /\ UNCHANGED <<wants, uses, lock, cache, issued, nearing>>

FetchFails(c) ==
    /\ pc[c] = "fetching"
    /\ Fault
    /\ lock' = Tail(lock)
    /\ Goto(c, "failed")
    /\ UNCHANGED <<wants, uses, cache, issued, nearing>>

Without(s, i) == [j \in 1 .. Len(s) - 1 |-> s[IF j < i THEN j ELSE j + 1]]

\* Whoever asked gives up, with the lock or while waiting for it.
Cancelled(c) ==
    /\ pc[c] \in {"locking", "fetching"}
    /\ Fault
    /\ \E i \in DOMAIN lock : lock[i] = c /\ lock' = Without(lock, i)
    /\ Goto(c, "failed")
    /\ UNCHANGED <<wants, uses, cache, issued, nearing>>

\* The request is made, and the next one asks again.
Done(c) ==
    /\ pc[c] \in {"using", "failed"}
    /\ uses' = [uses EXCEPT ![c] = NoToken]
    /\ Goto(c, "idle")
    /\ UNCHANGED <<wants, lock, cache, issued, nearing, faults>>

\* A token comes to its last minutes; its successor stays within the bound.
NearExpiry(t) ==
    /\ t \in DOMAIN issued \ nearing
    /\ Len(issued) + Cardinality(nearing) < MaxTokens
    /\ nearing' = nearing \cup {t}
    /\ UNCHANGED <<callers, lock, cache, issued, faults>>

-----------------------------------------------------------------------------
CallerStep(c) == Locked(c) \/ Fetched(c) \/ Done(c)

Next ==
    \/ \E c \in Caller : Ask(c) \/ CallerStep(c) \/ FetchFails(c) \/ Cancelled(c)
    \/ \E t \in 1 .. MaxTokens : NearExpiry(t)

\* The lock is fair, the server answers and requests end.
Fairness == \A c \in Caller : WF_vars(CallerStep(c))

Spec == Init /\ [][Next]_vars /\ Fairness

-----------------------------------------------------------------------------
GoodTokens(k) == {t \in DOMAIN issued : issued[t] = k} \ nearing

\* Requests that find no token at the same time fetch one between them: a second
\* would spend the provider's rate limit, and may revoke the first.
OneGoodToken == \A k \in Key : \A s, t \in GoodTokens(k) : s = t

\* The token a request is given, at once or after however long a wait, is its
\* own key's and not about to expire.
RequestsAreAuthorized ==
    [][\A c \in Caller :
           uses[c] = NoToken /\ uses'[c] # NoToken
               => uses'[c] \notin nearing' /\ issued'[uses'[c]] = wants'[c]]_vars

\* A fetch that fails, or whose caller is cancelled, holds up nobody else.
CallersGoOn == \A c \in Caller : pc[c] = "locking" ~> pc[c] # "locking"

\* One token serves all, and serves them well.
TokensAreShared == []OneGoodToken /\ RequestsAreAuthorized
=============================================================================
