--------------------------- MODULE StateAdapters ---------------------------
(***************************************************************************)
(* The in-memory adapter and the Redis adapter side by side: every         *)
(* operation is made on both, and both answer.  In memory nothing is       *)
(* awaited and Redis runs one command or script per operation, so an       *)
(* operation is one step whatever tasks and processes call it.  A list     *)
(* carries one TTL in Redis and in memory, a queue one in Redis only,      *)
(* where each entry has its own expiry too.                                *)
(***************************************************************************)
EXTENDS Integers, Sequences

CONSTANTS
    Kind,           \* which parts of the interface are used: one per behaviour
    Key,            \* cache keys
    Worker,         \* who takes the lock
    Ttl,            \* TTLs that callers ask for; 0: none
    Retention,      \* the TTL of lists; 0: none
    EntryTtl,       \* of queue entries
    MinQueueTtl,    \* the least TTL of a queue in Redis
    MaxLength,      \* of lists; 0: none
    MaxQueueSize,   \* of queues
    PurgeInterval,  \* set()s between two purges of the in-memory cache
    MaxTime,        \* bound on the clock
    MaxWrites       \* bound on the values written

\* What the theorems assume of the constants.
AdapterAssumption ==
    /\ Ttl \subseteq Nat
    /\ Retention \in Nat /\ EntryTtl \in Nat /\ MinQueueTtl \in Nat /\ MaxTime \in Nat
    /\ MaxLength \in Nat /\ MaxQueueSize \in Nat \ {0}

VARIABLES
    now, kind,
    written,                           \* values written so far: each is new
    memCache, writeCount, redisCache,  \* value and expires_at of a key
    memList, redisList,
    memQueue, redisQueue,              \* redisQueue has an expiry of its own
    lock,                              \* the lock's row in the backend
    handle,                            \* the token of the Lock that a worker keeps
    granted,                           \* history: how long a worker was promised the lock
    answers                            \* what each backend returned last

cache == <<memCache, writeCount, redisCache>>
lists == <<memList, redisList>>
queues == <<memQueue, redisQueue>>
locks == <<lock, handle, granted>>
vars == <<now, kind, written, cache, lists, queues, locks, answers>>

Never == MaxTime + MaxTime      \* an expires_at of None
Absent == [value |-> 0, expires_at |-> -1]
Free == [token |-> 0, expires_at |-> -1]
Tombstone == 0
NoAnswers == << <<>>, <<>> >>

Deadline(ttl) == IF ttl = 0 THEN Never ELSE now + ttl
Live(entry) == entry.expires_at > now

\* What is returned for an entry: its value, or None.
Value(entry) == IF Live(entry) THEN <<entry.value>> ELSE <<>>

\* The last n of a list or a queue.  (No limit on a list is 0; for a queue, 0 keeps
\* nothing in memory and everything in Redis, and is not assumed.)
Newest(s, n) == IF n > 0 /\ Len(s) > n THEN SubSeq(s, Len(s) - n + 1, Len(s)) ELSE s

Init ==
    /\ now = 0 /\ kind \in Kind /\ written = 0
    /\ memCache = [k \in Key |-> Absent] /\ writeCount = 0 /\ redisCache = memCache
    /\ memList = [value |-> <<>>, expires_at |-> -1] /\ redisList = memList
    /\ memQueue = <<>> /\ redisQueue = [value |-> <<>>, expires_at |-> -1]
    /\ lock = Free /\ handle = [w \in Worker |-> 0] /\ granted = [w \in Worker |-> -1]
    /\ answers = NoAnswers

Tick ==
    /\ now < MaxTime
    /\ now' = now + 1
    /\ answers' = NoAnswers
    /\ UNCHANGED <<kind, written, cache, lists, queues, locks>>

Write == written < MaxWrites /\ written' = written + 1

-----------------------------------------------------------------------------
\* Keys and values.

Caching == kind = "cache" /\ UNCHANGED <<now, kind, lists, queues, locks>>

\* _purge_expired, after every so many set()s.
Purged(entries) == [k \in Key |-> IF Live(entries[k]) THEN entries[k] ELSE Absent]

SetKey(k, ttl) ==
    LET entry == [value |-> written', expires_at |-> Deadline(ttl)]
        entries == [memCache EXCEPT ![k] = entry]
        due == writeCount + 1 >= PurgeInterval
    IN  /\ Caching /\ Write
        /\ memCache' = IF due THEN Purged(entries) ELSE entries
        /\ writeCount' = IF due THEN 0 ELSE writeCount + 1
        /\ redisCache' = [redisCache EXCEPT ![k] = entry]
        /\ answers' = NoAnswers

Claim(entries, k, ttl) ==
    IF Live(entries[k]) THEN entries
    ELSE [entries EXCEPT ![k] = [value |-> written', expires_at |-> Deadline(ttl)]]

SetIfNotExists(k, ttl) ==
    /\ Caching /\ Write
    /\ memCache' = Claim(memCache, k, ttl)
    /\ redisCache' = Claim(redisCache, k, ttl)
    /\ answers' = <<Value(memCache[k]), Value(redisCache[k])>>
    /\ UNCHANGED writeCount

\* An expired entry goes when it is read.
Get(k) ==
    /\ Caching
    /\ answers' = <<Value(memCache[k]), Value(redisCache[k])>>
    /\ memCache' = IF Live(memCache[k]) THEN memCache ELSE [memCache EXCEPT ![k] = Absent]
    /\ UNCHANGED <<written, writeCount, redisCache>>

Delete(k) ==
    /\ Caching
    /\ memCache' = [memCache EXCEPT ![k] = Absent]
    /\ redisCache' = [redisCache EXCEPT ![k] = Absent]
    /\ answers' = NoAnswers
    /\ UNCHANGED <<written, writeCount>>

-----------------------------------------------------------------------------
\* Lists: the history of a thread or of a user.

Listing == kind \in {"list", "unlimited list"} /\ UNCHANGED <<now, kind, cache, queues, locks>>

Items(list) == IF Live(list) THEN list.value ELSE <<>>

\* In memory an expired list is begun again, and every append sets the expiry.
\* In Redis an expired key is gone, and pexpire is for a TTL only.
AppendBoth(value, maxLength, ttl) ==
    /\ memList' = [value |-> Newest(Append(Items(memList), value), maxLength),
                   expires_at |-> Deadline(ttl)]
    /\ redisList' = [value |-> Newest(Append(Items(redisList), value), maxLength),
                     expires_at |-> IF ttl > 0 THEN Deadline(ttl)
                                    ELSE IF Live(redisList) THEN redisList.expires_at
                                    ELSE Never]
    /\ answers' = NoAnswers

ListTtl == IF kind = "list" THEN Retention ELSE 0

AppendToList == Listing /\ Write /\ AppendBoth(written', MaxLength, ListTtl)

\* The history of a user is deleted: a tombstone evicts everything.
DeleteHistory == Listing /\ UNCHANGED written /\ AppendBoth(Tombstone, 1, ListTtl)

GetList ==
    /\ Listing
    /\ answers' = <<Items(memList), Items(redisList)>>
    /\ memList' = IF Live(memList) THEN memList ELSE [value |-> <<>>, expires_at |-> -1]
    /\ UNCHANGED <<written, redisList>>

-----------------------------------------------------------------------------
\* Queues.

Queueing == kind = "queue" /\ UNCHANGED <<now, kind, cache, lists, locks>>

\* Mutant (SameAnswers): the queue in Redis lives as long as its first entry.
EnqueueKeepsTtl ==
    LET entry == [value |-> written', expires_at |-> now + EntryTtl]
    IN  /\ Queueing /\ Write
        /\ memQueue' = Newest(Append(memQueue, entry), MaxQueueSize)
        /\ redisQueue' = [value |-> Newest(Append(Items(redisQueue), entry), MaxQueueSize),
                          expires_at |-> IF Live(redisQueue) THEN redisQueue.expires_at
                                         ELSE now + EntryTtl]
        /\ answers' = NoAnswers

\* The TTL of the queue in Redis follows the entry that came last.
Enqueue ==
    LET entry == [value |-> written', expires_at |-> now + EntryTtl]
        ttl == IF EntryTtl > MinQueueTtl THEN EntryTtl ELSE MinQueueTtl
    IN  /\ Queueing /\ Write
        /\ memQueue' = Newest(Append(memQueue, entry), MaxQueueSize)
        /\ redisQueue' = [value |-> Newest(Append(Items(redisQueue), entry), MaxQueueSize),
                          expires_at |-> now + ttl]
        /\ answers' = NoAnswers

\* A queue from its first live entry on: callers dequeue again after an
\* expired one.
Pending(queue) ==
    LET live == {i \in DOMAIN queue : Live(queue[i])}
    IN  IF live = {} THEN <<>>
        ELSE SubSeq(queue, CHOOSE i \in live : \A j \in live : i <= j, Len(queue))
Rest(queue) == IF queue = <<>> THEN <<>> ELSE Tail(queue)
First(queue) == IF queue = <<>> THEN <<>> ELSE <<queue[1].value>>

Dequeue ==
    LET inMemory == Pending(memQueue)
        inRedis == Pending(Items(redisQueue))
    IN  /\ Queueing
        /\ memQueue' = Rest(inMemory)
        /\ redisQueue' = [redisQueue EXCEPT !.value = Rest(inRedis)]
        /\ answers' = <<First(inMemory), First(inRedis)>>
        /\ UNCHANGED written

-----------------------------------------------------------------------------
\* Locks, of one backend at a time.  At the very time a lock expires, Redis
\* still keeps its key, Postgres calls it expired, and in memory acquire_lock
\* calls it free while extend_lock calls it held.

Locking ==
    /\ kind \in {"memory", "redis", "postgres"}
    /\ answers' = NoAnswers
    /\ UNCHANGED <<now, kind, cache, lists, queues>>

Expired == IF kind = "redis" THEN lock.expires_at < now ELSE lock.expires_at <= now
Renewable == IF kind = "postgres" THEN lock.expires_at > now ELSE lock.expires_at >= now

AcquireLock(w, ttl) ==
    /\ Locking /\ Write
    /\ IF lock = Free \/ Expired
       THEN /\ lock' = [token |-> written', expires_at |-> now + ttl]
            /\ handle' = [handle EXCEPT ![w] = written']
            /\ granted' = [granted EXCEPT ![w] = now + ttl]
       ELSE UNCHANGED locks

\* Mutant (OneGrantAtATime): any holder's lock is extended.
ExtendAnyLock(w, ttl) ==
    /\ Locking
    /\ handle[w] # 0
    /\ IF lock # Free /\ Renewable
       THEN /\ lock' = [lock EXCEPT !.expires_at = now + ttl]
            /\ granted' = [granted EXCEPT ![w] = now + ttl]
       ELSE UNCHANGED <<lock, granted>>
    /\ UNCHANGED <<written, handle>>

\* In memory a lock found expired is removed.
ExtendLock(w, ttl) ==
    /\ Locking
    /\ handle[w] # 0
    /\ CASE lock.token = handle[w] /\ Renewable ->
              /\ lock' = [lock EXCEPT !.expires_at = now + ttl]
              /\ granted' = [granted EXCEPT ![w] = now + ttl]
         [] lock.token = handle[w] /\ ~Renewable ->
              /\ lock' = IF kind = "memory" THEN Free ELSE lock
              /\ UNCHANGED granted
         [] OTHER -> UNCHANGED <<lock, granted>>
    /\ UNCHANGED <<written, handle>>

\* Mutant (GrantsAreKept): a release does not look at the token.
ReleaseAnyLock(w) ==
    /\ Locking
    /\ handle[w] # 0
    /\ lock' = Free
    /\ handle' = [handle EXCEPT ![w] = 0]
    /\ granted' = [granted EXCEPT ![w] = -1]
    /\ UNCHANGED written

ReleaseLock(w) ==
    /\ Locking
    /\ handle[w] # 0
    /\ lock' = IF lock.token = handle[w] THEN Free ELSE lock
    /\ handle' = [handle EXCEPT ![w] = 0]
    /\ granted' = [granted EXCEPT ![w] = -1]
    /\ UNCHANGED written

\* Whoever held the lock is not promised it any more.
ForceReleaseLock ==
    /\ Locking
    /\ lock' = Free
    /\ granted' = [w \in Worker |-> -1]
    /\ UNCHANGED <<written, handle>>

-----------------------------------------------------------------------------
Next ==
    \/ Tick
    \/ \E k \in Key : Get(k) \/ Delete(k) \/ \E ttl \in Ttl : SetKey(k, ttl) \/ SetIfNotExists(k, ttl)
    \/ AppendToList \/ DeleteHistory \/ GetList
    \/ Enqueue \/ Dequeue
    \/ ForceReleaseLock
    \/ \E w \in Worker :
           ReleaseLock(w) \/ \E ttl \in Ttl \ {0} : AcquireLock(w, ttl) \/ ExtendLock(w, ttl)

Spec == Init /\ [][Next]_vars

-----------------------------------------------------------------------------
\* A bot that was tested on the in-memory adapter runs on Redis: whatever the
\* TTLs, the trims, the purges and the expiries of whole keys, both return the
\* same values, claims, histories and queued messages.
SameAnswers == answers[1] = answers[2]

\* Also at the very time it expires a lock is promised to one worker only: no
\* order of acquire_lock, extend_lock and release_lock with old handles leaves
\* two with a lease.
OneGrantAtATime == \A w, v \in Worker : granted[w] > now /\ granted[v] > now => w = v

\* A promised lease is the one in the backend's row: nobody else's call
\* shortens it or takes it away.
GrantsAreKept == \A w \in Worker :
    granted[w] > now => lock.token = handle[w] /\ lock.expires_at = granted[w]

\* The backends agree, and a lease they grant is exclusive and kept.
BackendsKeepFaith == SameAnswers /\ OneGrantAtATime /\ GrantsAreKept
=============================================================================
