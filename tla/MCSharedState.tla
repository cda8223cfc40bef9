--------------------------- MODULE MCSharedState ----------------------------
(***************************************************************************)
(* What tasks and processes share through the state backend, for TLC: two  *)
(* renderings of a button with clicks c1 .. c3, turns t1, t2 with calls    *)
(* s1, s2 of abort_turn in two processes, a modal submitted twice, the     *)
(* adapters side by side, and two clients of Postgres.                     *)
(***************************************************************************)
EXTENDS CallbackUrl

CONSTANTS
    tok1, tok2, c1, c2, c3, t1, t2, s1, s2,
    Turn, Stop, ProcessOf,  \* TurnCancellation's; a modal is submitted once for each Stop
    MaxTurnFaults,
    \* StateAdapters':
    StateKey, LockWorker, StateTtl, Retention, EntryTtl, MinQueueTtl, StateMaxLength,
    StateMaxQueueSize, PurgeInterval, StateMaxTime, MaxWrites,
    \* PostgresStore's:
    StoreClient, RowTtl, StoreMaxLength, StoreMaxQueueSize, StoreMaxTime, MaxStoreCalls,
    MaxStoreFaults

VARIABLES
    part,    \* which part moves: one per behaviour
    turn_active, turn_abort, turn_pc, turn_polling, turn_aborted, turn_spc,
    turn_sees, turn_during, turn_crowded, turn_faults,
    modal_context, modal_view, modal_opener, modal_task, modal_found, modal_post,
    modal_faults,
    sa_now, sa_kind, sa_written, sa_memCache, sa_writeCount, sa_redisCache,
    sa_memList, sa_redisList, sa_memQueue, sa_redisQueue, sa_lock, sa_handle,
    sa_granted, sa_answers,
    pg_now, pg_kind, pg_calls, pg_faults, pg_seq, pg_rows, pg_record, pg_pc,
    pg_begun, pg_picked, pg_committed, pg_trimmed, pg_taken, pg_erased, pg_wiped,
    pg_promised

\* Turn t1 and call s1 run in one process, turn t2 and call s2 in another.
TwoProcesses ==
    [x \in {t1, t2, s1, s2} |-> IF x \in {t2, s2} THEN "q" ELSE "p"]

Turns == INSTANCE TurnCancellation WITH
    MaxFaults <- MaxTurnFaults, Nobody <- NoOne, active <- turn_active,
    abort <- turn_abort, pc <- turn_pc,
    polling <- turn_polling, aborted <- turn_aborted, spc <- turn_spc, sees <-
    turn_sees, during <- turn_during, crowded <- turn_crowded, faults <- turn_faults

turnVars == <<turn_active, turn_abort, turn_pc, turn_polling, turn_aborted,
    turn_spc, turn_sees, turn_during, turn_crowded, turn_faults>>

Modal == INSTANCE ModalContext WITH
    Submit <- Stop, MaxFaults <- 2, context <- modal_context, view <-
    modal_view, opener <- modal_opener, task <- modal_task, found <- modal_found,
    post <- modal_post, faults <- modal_faults

modalVars == <<modal_context, modal_view, modal_opener, modal_task, modal_found,
    modal_post, modal_faults>>

Adapters == INSTANCE StateAdapters WITH
    Kind <- {"cache", "list", "unlimited list", "queue", "memory", "redis",
    "postgres"}, Key <- StateKey, Worker <- LockWorker, Ttl <- StateTtl,
    Retention <- Retention, EntryTtl <- EntryTtl, MinQueueTtl <- MinQueueTtl,
    MaxLength <- StateMaxLength, MaxQueueSize <- StateMaxQueueSize,
    PurgeInterval <- PurgeInterval, MaxTime <- StateMaxTime, MaxWrites <- MaxWrites,
    now <- sa_now, kind <-
    sa_kind, written <- sa_written, memCache <- sa_memCache, writeCount <-
    sa_writeCount, redisCache <- sa_redisCache, memList <- sa_memList, redisList <-
    sa_redisList, memQueue <- sa_memQueue, redisQueue <- sa_redisQueue, lock <-
    sa_lock, handle <- sa_handle, granted <- sa_granted, answers <- sa_answers

saVars == <<sa_now, sa_kind, sa_written, sa_memCache, sa_writeCount,
    sa_redisCache, sa_memList, sa_redisList, sa_memQueue, sa_redisQueue, sa_lock,
    sa_handle, sa_granted, sa_answers>>

Postgres == INSTANCE PostgresStore WITH
    Client <- StoreClient, Nobody <- NoOne, Kind <- {"queue", "list", "cache"},
    Ttl <- RowTtl, MaxLength <- StoreMaxLength, MaxQueueSize <- StoreMaxQueueSize,
    MaxTime <- StoreMaxTime, MaxCalls <- MaxStoreCalls, MaxFaults <- MaxStoreFaults,
    now <- pg_now, kind <- pg_kind, calls <- pg_calls, faults <- pg_faults, seq <-
    pg_seq, rows <- pg_rows, record <- pg_record, pc <- pg_pc, begun <- pg_begun,
    picked <- pg_picked, committed <- pg_committed, trimmed <- pg_trimmed, taken <-
    pg_taken, erased <- pg_erased, wiped <- pg_wiped, promised <- pg_promised

pgVars == <<pg_now, pg_kind, pg_calls, pg_faults, pg_seq, pg_rows, pg_record,
    pg_pc, pg_begun, pg_picked, pg_committed, pg_trimmed, pg_taken, pg_erased,
    pg_wiped, pg_promised>>

ASSUME SharedAssumption ==
    Turns!TurnAssumption /\ Adapters!AdapterAssumption /\ Postgres!PostgresAssumption

-----------------------------------------------------------------------------
SharedStateInit ==
    /\ part \in {"callback", "turn", "modal", "adapters", "postgres"}
    /\ Init
    /\ Turns!Init
    /\ Modal!Init
    /\ Adapters!Init
    /\ Postgres!Init
    \* What does not move starts in one way.
    /\ part # "adapters" => sa_kind = "cache"
    /\ part # "postgres" => pg_kind = "cache"

SharedStateNext ==
    \/ /\ part = "callback" /\ Next
       /\ UNCHANGED <<part, turnVars, modalVars, saVars, pgVars>>
    \/ /\ part = "turn" /\ Turns!Next
       /\ UNCHANGED <<part, vars, modalVars, saVars, pgVars>>
    \/ /\ part = "modal" /\ Modal!Next
       /\ UNCHANGED <<part, vars, turnVars, saVars, pgVars>>
    \/ /\ part = "adapters" /\ Adapters!Next
       /\ UNCHANGED <<part, vars, turnVars, modalVars, pgVars>>
    \/ /\ part = "postgres" /\ Postgres!Next
       /\ UNCHANGED <<part, vars, turnVars, modalVars, saVars>>

\* The fairness of each module, for the one that moves.
SharedStateFairness ==
    /\ \A c \in Click : WF_vars(part = "callback" /\ ClickStep(c))
    /\ \A t \in Turn : WF_turnVars(part = "turn" /\ Turns!TurnStep(t))
    /\ \A t \in Turn : WF_turnVars(part = "turn" /\ Turns!Poll(t))
    /\ \A s \in Stop : WF_turnVars(part = "turn" /\ Turns!StopStep(s))
    /\ \A s \in Stop : WF_modalVars(part = "modal" /\ Modal!Step(s))

SharedStateSpec == SharedStateInit /\ [][SharedStateNext]_<<part, vars, turnVars,
    modalVars, saVars, pgVars>> /\ SharedStateFairness

-----------------------------------------------------------------------------
MarkersAreMeant      == Turns!MarkersAreMeant
BackendsKeepFaith    == Adapters!BackendsKeepFaith
StoredIsAccountedFor == Postgres!StoredIsAccountedFor

\* What a user does takes effect: a click is answered, a call of abort_turn stops
\* its turn, and an accepted form, whose context was there first, is posted.
UsersAreHeard ==
    MismatchSparesTheToken /\ ClickedIsAnswered /\ Turns!StopReachesTheTurn /\ Modal!FormsAreAnswered
=============================================================================
