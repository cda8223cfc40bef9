--------------------------- MODULE PostgresStore ---------------------------
(***************************************************************************)
(* The lists, queues and cache of the Postgres adapter, as the SQL         *)
(* statements that several clients interleave.  A list operation and a     *)
(* get are statements that commit one by one, an enqueue is a transaction  *)
(* at READ COMMITTED: a statement sees what others have committed and what *)
(* the transaction did itself, and waits for rows another one is deleting. *)
(* A statement locks its rows at once; clients and database agree about    *)
(* the time.                                                               *)
(***************************************************************************)
EXTENDS Integers, FiniteSets

CONSTANTS
    Client, Nobody,
    Kind,          \* the tables that are used, one per behaviour
    Ttl,           \* of list entries, queue entries and cache entries
    MaxLength,     \* of a list
    MaxQueueSize,  \* of a queue
    MaxTime,       \* bound on the clock
    MaxCalls,      \* bound on the calls
    MaxFaults      \* bound on failing statements and lost connections

\* What the theorems assume of the constants.
PostgresAssumption ==
    /\ Nobody \notin Client /\ IsFiniteSet(Client)
    /\ Ttl \in Int /\ MaxQueueSize \in Nat \ {0} /\ MaxLength \in Nat \ {0}

VARIABLES
    now, kind, calls, faults,
    seq,        \* the sequence of the table
    rows,       \* of one key: by and gone are the open transactions that
                \* inserted the row and that delete it
    record,     \* the row of one cache key
    pc,         \* the statement a client is about to run
    begun,      \* the time its call or transaction began
    picked,     \* the rows a subquery chose, which its statement then deletes
    committed,  \* history: rows ever committed
    trimmed,    \* history: rows deleted because there were too many
    taken,      \* history: rows a client's dequeues returned
    erased,     \* history: what there was when a client called for deletion
    wiped,      \* history: what deletions that returned were to wipe
    promised    \* history: the cache entry last set or claimed

clock == <<now, kind>>
table == <<seq, rows, record>>
client == <<pc, begun, picked>>
history == <<committed, trimmed, taken, erased, wiped, promised>>
vars == <<clock, calls, faults, table, client, history>>

NoRecord == [value |-> 0, expires_at |-> -1]
Seqs(set) == {r.seq : r \in set}
Oldest(set, n) == {r \in set : Cardinality({o \in set : o.seq < r.seq}) < n}

Init ==
    /\ now = 0 /\ kind \in Kind /\ calls = 0 /\ faults = 0
    /\ seq = 0 /\ rows = {} /\ record = NoRecord
    /\ pc = [c \in Client |-> "idle"]
    /\ begun = [c \in Client |-> 0]
    /\ picked = [c \in Client |-> {}]
    /\ committed = {} /\ trimmed = {} /\ wiped = {}
    /\ taken = [c \in Client |-> {}]
    /\ erased = [c \in Client |-> {}]
    /\ promised = NoRecord

Goto(c, l) == pc' = [pc EXCEPT ![c] = l]

Tick ==
    /\ now < MaxTime
    /\ now' = now + 1
    /\ UNCHANGED <<kind, calls, faults, table, client, committed, trimmed, taken, erased, wiped, promised>>

Call(c, k, l) ==
    /\ kind = k
    /\ pc[c] = "idle"
    /\ calls < MaxCalls
    /\ calls' = calls + 1
    /\ Goto(c, l)
    /\ begun' = [begun EXCEPT ![c] = now]
    /\ UNCHANGED <<clock, faults, table, picked>>

\* A call returns, or raises.
Return(c) ==
    /\ Goto(c, "idle")
    /\ begun' = [begun EXCEPT ![c] = 0]
    /\ picked' = [picked EXCEPT ![c] = {}]

Visible(c) == {r \in rows : r.by \in {Nobody, c} /\ r.gone # c}
Locked(c, set) == \E r \in rows : r.seq \in set /\ r.gone \notin {Nobody, c}

\* A row inserted by c, in a transaction or not.
Insert(c, open, expires_at) ==
    /\ seq' = seq + 1
    /\ rows' = rows \cup {[seq |-> seq', expires_at |-> expires_at,
                           by |-> IF open THEN c ELSE Nobody, gone |-> Nobody]}

-----------------------------------------------------------------------------
\* enqueue

Enqueue(c) == Call(c, "queue", "purge") /\ UNCHANGED history

Purge(c) ==
    LET expired == {r \in Visible(c) : r.expires_at <= begun[c]}
    IN  /\ pc[c] = "purge"
        /\ ~Locked(c, Seqs(expired))
        /\ rows' = {IF r \in expired THEN [r EXCEPT !.gone = c] ELSE r : r \in rows}
        /\ Goto(c, "insert")
        /\ UNCHANGED <<clock, calls, faults, seq, record, begun, picked, history>>

InsertEntry(c) ==
    /\ pc[c] = "insert"
    /\ Insert(c, TRUE, begun[c] + Ttl)
    /\ Goto(c, "choose")
    /\ UNCHANGED <<clock, calls, faults, record, begun, picked, history>>

\* Mutant (TrimmedForNewer): the newest are deleted.
ChooseNewest(c) ==
    LET live == {r \in Visible(c) : r.expires_at > begun[c]}
        excess == Cardinality(live) - MaxQueueSize
    IN  /\ pc[c] = "choose"
        /\ picked' = [picked EXCEPT ![c] =
               Seqs({r \in live : Cardinality({o \in live : o.seq > r.seq}) < excess})]
        /\ Goto(c, "trim")
        /\ UNCHANGED <<clock, calls, faults, table, begun, history>>

\* Mutant (OvershootIsBounded): one too many is none too many.
ChooseLoosely(c) ==
    LET live == {r \in Visible(c) : r.expires_at > begun[c]}
    IN  /\ pc[c] = "choose"
        /\ picked' = [picked EXCEPT ![c] =
               Seqs(Oldest(live, Cardinality(live) - MaxQueueSize - 1))]
        /\ Goto(c, "trim")
        /\ UNCHANGED <<clock, calls, faults, table, begun, history>>

\* The oldest of the live entries, for each one too many.
Choose(c) ==
    LET live == {r \in Visible(c) : r.expires_at > begun[c]}
    IN  /\ pc[c] = "choose"
        /\ picked' = [picked EXCEPT ![c] = Seqs(Oldest(live, Cardinality(live) - MaxQueueSize))]
        /\ Goto(c, "trim")
        /\ UNCHANGED <<clock, calls, faults, table, begun, history>>

\* What another transaction deleted meanwhile is passed over.
Trim(c) ==
    /\ pc[c] = "trim"
    /\ ~Locked(c, picked[c])
    /\ rows' = {IF r.seq \in picked[c] THEN [r EXCEPT !.gone = c] ELSE r : r \in rows}
    /\ Goto(c, "commit")
    /\ UNCHANGED <<clock, calls, faults, seq, record, begun, picked, history>>

Commit(c) ==
    /\ pc[c] = "commit"
    /\ rows' = {IF r.by = c THEN [r EXCEPT !.by = Nobody] ELSE r : r \in {r \in rows : r.gone # c}}
    /\ committed' = committed \cup Seqs({r \in rows : r.by = c})
    /\ trimmed' = trimmed \cup (picked[c] \cap Seqs({r \in rows : r.gone = c}))
    /\ Return(c)
    /\ UNCHANGED <<clock, calls, faults, seq, record, taken, erased, wiped, promised>>

-----------------------------------------------------------------------------
\* dequeue

Dequeue(c) == Call(c, "queue", "clean") /\ UNCHANGED history

Clean(c) ==
    LET expired == {r \in Visible(c) : r.expires_at <= now}
    IN  /\ pc[c] = "clean"
        /\ ~Locked(c, Seqs(expired))
        /\ rows' = rows \ expired
        /\ Goto(c, "pick")
        /\ UNCHANGED <<clock, calls, faults, seq, record, begun, picked, history>>

\* The subquery of the DELETE ...
Pick(c) ==
    LET live == {r \in Visible(c) : r.expires_at > now}
    IN  /\ pc[c] = "pick"
        /\ picked' = [picked EXCEPT ![c] = Seqs(Oldest(live, 1))]
        /\ Goto(c, "take")
        /\ UNCHANGED <<clock, calls, faults, table, begun, history>>

\* Mutant (NobodyTakesTwice): what was selected is returned.
TakePicked(c) ==
    /\ pc[c] = "take"
    /\ rows' = {r \in rows : r.seq \notin picked[c]}
    /\ taken' = [taken EXCEPT ![c] = @ \cup picked[c]]
    /\ Return(c)
    /\ UNCHANGED <<clock, calls, faults, seq, record, committed, trimmed, erased, wiped, promised>>

\* ... and the DELETE itself, which returns nothing if the row is gone.
Take(c) ==
    /\ pc[c] = "take"
    /\ ~Locked(c, picked[c])
    /\ rows' = {r \in rows : r.seq \notin picked[c]}
    /\ taken' = [taken EXCEPT ![c] = @ \cup (picked[c] \cap Seqs(rows))]
    /\ Return(c)
    /\ UNCHANGED <<clock, calls, faults, seq, record, committed, trimmed, erased, wiped, promised>>

-----------------------------------------------------------------------------
\* append_to_list, and the deletion of a user's history, which appends a
\* tombstone to a list of one.

AppendToList(c) == Call(c, "list", "append") /\ UNCHANGED history

DeleteHistory(c) ==
    /\ Call(c, "list", "bury")
    /\ erased' = [erased EXCEPT ![c] = Seqs(rows)]
    /\ UNCHANGED <<committed, trimmed, taken, wiped, promised>>

InsertItem(c) ==
    /\ pc[c] \in {"append", "bury"}
    /\ Insert(c, FALSE, begun[c] + Ttl)
    /\ committed' = committed \cup {seq'}
    /\ Goto(c, IF pc[c] = "append" THEN "shorten" ELSE "evict")
    /\ UNCHANGED <<clock, calls, faults, record, begun, picked, trimmed, taken, erased, wiped, promised>>

\* Mutant (WipedIsGone): expired rows are not counted as rows.
TrimLiveItems(c) ==
    LET live == {r \in rows : r.expires_at > now}
        over == Oldest(live, Cardinality(live) - IF pc[c] = "evict" THEN 1 ELSE MaxLength)
    IN  /\ pc[c] \in {"shorten", "evict"}
        /\ rows' = rows \ over
        /\ trimmed' = IF pc[c] = "shorten" THEN trimmed \cup Seqs(over) ELSE trimmed
        /\ Goto(c, IF pc[c] = "evict" THEN "wiping" ELSE "touch")
        /\ UNCHANGED <<clock, calls, faults, seq, record, begun, picked, committed, taken, erased, wiped, promised>>

\* All the rows of the list are counted, expired ones included.
TrimItems(c) ==
    LET over == Oldest(rows, Cardinality(rows) - IF pc[c] = "evict" THEN 1 ELSE MaxLength)
    IN  /\ pc[c] \in {"shorten", "evict"}
        /\ rows' = rows \ over
        /\ trimmed' = IF pc[c] = "shorten" THEN trimmed \cup Seqs(over) ELSE trimmed
        /\ Goto(c, IF pc[c] = "evict" THEN "wiping" ELSE "touch")
        /\ UNCHANGED <<clock, calls, faults, seq, record, begun, picked, committed, taken, erased, wiped, promised>>

\* Every row of the list gets the expiry of this append.
Touch(c) ==
    /\ pc[c] \in {"touch", "wiping"}
    /\ rows' = {[r EXCEPT !.expires_at = begun[c] + Ttl] : r \in rows}
    /\ wiped' = IF pc[c] = "wiping" THEN wiped \cup erased[c] ELSE wiped
    /\ Return(c)
    /\ UNCHANGED <<clock, calls, faults, seq, record, committed, trimmed, taken, erased, promised>>

-----------------------------------------------------------------------------
\* get, set, set_if_not_exists and delete

Store(entry) ==
    /\ record' = entry
    /\ promised' = entry
    /\ UNCHANGED <<seq, rows, committed, trimmed, taken, erased, wiped>>

OneStatement(c) ==
    /\ kind = "cache"
    /\ pc[c] = "idle"
    /\ calls < MaxCalls
    /\ calls' = calls + 1
    /\ UNCHANGED <<clock, faults, client>>

\* The call's number is the value.
SetKey(c) == OneStatement(c) /\ Store([value |-> calls', expires_at |-> now + Ttl])

SetIfNotExists(c) ==
    /\ OneStatement(c)
    /\ IF record.expires_at <= now THEN Store([value |-> calls', expires_at |-> now + Ttl])
       ELSE UNCHANGED <<table, history>>

Delete(c) == OneStatement(c) /\ Store(NoRecord)

\* A get that finds nothing tidies up, in a statement of its own.
Get(c) ==
    /\ record.expires_at <= now    \* else the first statement is all
    /\ Call(c, "cache", "tidy")
    /\ UNCHANGED history

\* Mutant (PromisedIsKept): the key is deleted, expired or not.
TidyKey(c) ==
    /\ pc[c] = "tidy"
    /\ record' = NoRecord
    /\ Return(c)
    /\ UNCHANGED <<clock, calls, faults, seq, rows, history>>

Tidy(c) ==
    /\ pc[c] = "tidy"
    /\ record' = IF record.expires_at <= now THEN NoRecord ELSE record
    /\ Return(c)
    /\ UNCHANGED <<clock, calls, faults, seq, rows, history>>

-----------------------------------------------------------------------------
\* A statement fails or the process dies: an open transaction is rolled back,
\* what was committed stays.
Fail(c) ==
    /\ pc[c] # "idle"
    /\ faults < MaxFaults
    /\ faults' = faults + 1
    /\ rows' = {[r EXCEPT !.gone = IF @ = c THEN Nobody ELSE @] : r \in {r \in rows : r.by # c}}
    /\ Return(c)
    /\ UNCHANGED <<clock, calls, seq, record, history>>

Next ==
    \/ Tick
    \/ \E c \in Client :
        \/ Enqueue(c) \/ Purge(c) \/ InsertEntry(c) \/ Choose(c) \/ Trim(c) \/ Commit(c)
        \/ Dequeue(c) \/ Clean(c) \/ Pick(c) \/ Take(c)
        \/ AppendToList(c) \/ DeleteHistory(c) \/ InsertItem(c) \/ TrimItems(c) \/ Touch(c)
        \/ SetKey(c) \/ SetIfNotExists(c) \/ Delete(c) \/ Get(c) \/ Tidy(c)
        \/ Fail(c)

Spec == Init /\ [][Next]_vars

-----------------------------------------------------------------------------
\* A queue entry or a list item is thrown out for newer ones only: whatever
\* trims at the same time or fails half way, as many newer ones as the limit
\* allows have been stored by then.
TrimmedForNewer ==
    LET limit == IF kind = "queue" THEN MaxQueueSize ELSE MaxLength
    IN  \A s \in trimmed : Cardinality({t \in committed : t > s}) >= limit

\* Two clients that dequeue at the same time never get the same entry.
NobodyTakesTwice == \A c, d \in Client : c # d => taken[c] \cap taken[d] = {}

\* When the deletion of a history has returned, nothing that was stored when it
\* was called is left, not even behind an expiry that a later append renews.
WipedIsGone == wiped \cap Seqs(rows) = {}

\* What was set or claimed stays until it expires or is deleted, also beside a
\* get that has just found the entry before it expired.
PromisedIsKept == promised.expires_at > now => record = promised

\* Transactions do not see each other's entries ("Wrap insert + trim in a
\* transaction to avoid TOCTOU races", postgres.py), yet a queue never exceeds
\* max_size by more than the other clients: the last to trim sees all the rest.
OvershootIsBounded ==
    kind = "queue" =>
        Cardinality({r \in rows : r.by = Nobody /\ r.expires_at > now})
            <= MaxQueueSize + Cardinality(Client) - 1

\* No interleaving of statements, and no failure between them, loses or doubles
\* what the store was asked to keep.
StoredIsAccountedFor ==
    TrimmedForNewer /\ NobodyTakesTwice /\ WipedIsGone /\ PromisedIsKept /\ OvershootIsBounded
=============================================================================
