------------------------------- MODULE Lease -------------------------------
(***************************************************************************)
(* What the thread lock promises, with neither clocks nor heartbeats: one  *)
(* owner at a time, each worker the owner at most once and for one stretch *)
(* of time, and the lock comes free before it changes hands.               *)
(***************************************************************************)
CONSTANTS Worker, NoWorker

VARIABLES
    owner,    \* who owns the lock, or NoWorker
    entitled  \* the workers that have not had it yet

Init == owner = NoWorker /\ entitled = Worker

Grant(w) ==
    /\ owner = NoWorker
    /\ w \in entitled
    /\ owner' = w
    /\ entitled' = entitled \ {w}

\* The owner gives the lock back, its lease lapses, or it is forced.
ComeFree ==
    /\ owner' = NoWorker
    /\ UNCHANGED entitled

Next == ComeFree \/ \E w \in Worker : Grant(w)

Spec == Init /\ [][Next]_<<owner, entitled>>
=============================================================================
