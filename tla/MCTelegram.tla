----------------------------- MODULE MCTelegram -----------------------------
(***************************************************************************)
(* TelegramPolling and TelegramAlbum for TLC.  An adapter polls or serves  *)
(* webhooks, never both: mode says which, and only that half moves.        *)
(***************************************************************************)
EXTENDS TelegramPolling

CONSTANTS a, d1, d2, d3, Delivery, PartOf, NoTask, MaxAlbumFaults

VARIABLES mode, claimed, lock, buffer, quiet, albumPc, entries, album, lapsed,
          spilled, albumFaults

Album == INSTANCE TelegramAlbum WITH
    MaxFaults <- MaxAlbumFaults,
    pc        <- albumPc,
    faults    <- albumFaults

ASSUME AlbumAssumption == NoTask \notin Delivery /\ MaxAlbumFaults \in Nat

\* d1, d2 and d3 are deliveries, the last of the part of the first.
FirstAgain == [d \in {d1, d2, d3} |-> IF d = d3 THEN d1 ELSE d]

\* Updates 2 and 3 are the parts of an album.
OneAlbum == [u \in Update |-> IF u \in {2, 3} THEN a ELSE NoAlbum]

albumVars == <<claimed, lock, buffer, quiet, albumPc, entries, album, lapsed,
               spilled, albumFaults>>

EitherInit == mode \in {"polling", "webhook"} /\ Init /\ Album!Init

EitherNext ==
    \/ mode = "polling" /\ Next /\ UNCHANGED <<mode, albumVars>>
    \/ mode = "webhook" /\ Album!Next /\ UNCHANGED <<mode, vars>>

\* Fairness and Album!Fairness, each of the half that moves.
EitherFairness ==
    /\ WF_vars(mode = "polling" /\ LoopStep)
    /\ SF_vars(mode = "polling" /\ Fetch /\ batch' = Unconfirmed(confirmed'))
    /\ \A u \in Update : WF_vars(mode = "polling" /\ FallDue(u))
    /\ \A d \in Delivery :
          /\ WF_albumVars(albumPc[d] # "arriving" /\ Album!TaskStep(d))
          /\ SF_albumVars(Album!Lock(d))
    /\ WF_albumVars(Album!LockLapses /\ albumPc[lock] \in Album!Over)
    /\ SF_albumVars(Album!SettleWindowEnds)

EitherSpec == EitherInit /\ [][EitherNext]_<<mode, vars, albumVars>> /\ EitherFairness

AlbumsAreWhole     == Album!AlbumsAreWhole
PartsReachAHandler == Album!PartsReachAHandler
=============================================================================
