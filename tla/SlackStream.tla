----------------------------- MODULE SlackStream -----------------------------
(***************************************************************************)
(* A reply streamed through Slack's native streaming.  Slack finalizes a   *)
(* stream that is about five minutes old, so a long reply is cut into      *)
(* segments, each a message of its own: the adapter stops a segment that   *)
(* is due and continues in a new one, and when Slack was faster it sends   *)
(* again what had not reached it.  A failure of the very first call turns  *)
(* the reply into a message that is posted and edited.                     *)
(*                                                                         *)
(* The committed text of the reply is cut into numbered pieces; a place in *)
(* it is the number of pieces before it.  Code fences and table headers    *)
(* that a cut repeats are layout and left out.  A call that fails had no   *)
(* effect.                                                                 *)
(***************************************************************************)
EXTENDS Naturals, Sequences

CONSTANTS
    Task,          \* task cards
    MaxPieces,     \* bound of the model: the pieces of a reply
    MaxRotations,  \* bound of the model: segments after the first
    MaxFaults      \* bound of the model: failing calls

VARIABLES
    pc,            \* what the task does next
    goal,          \* why the text is flushed: "text", "card", "cut" (before a card), "stop"
    committed,     \* resolved_committed
    appended,      \* last_appended
    flushed,       \* last_flushed
    rest,          \* where the text to append begins
    card,          \* the structured chunk to send
    age,           \* of the segment: "unstarted", "young", "due", "overdue", "expired"
    buffer,        \* text in slack_sdk's streamer that Slack has not seen
    cards,         \* tasks the segment's message shows
    mode,          \* "native" or "fallback"
    rendered,      \* native_rendered
    structured,    \* structured_chunks_supported
    open,          \* open_tasks
    slack,         \* what all the messages of the reply show, in order
    message,       \* the fallback message: how much it shows
    stray,         \* history: tasks updated in a message that did not show them
    rotations, faults

text  == <<committed, appended, flushed, rest>>
seg   == <<age, buffer, cards>>
chunk == <<goal, card, structured, open, stray>>
reply == <<mode, rendered, slack, message>>
vars  == <<pc, text, seg, chunk, reply, rotations, faults>>

Over == {"returned", "raised"}

Pieces(from, to) == [i \in 1..(to - from) |-> from + i]

Started == age # "unstarted"

Init ==
    /\ pc = "reading"
    /\ goal = "text"
    /\ committed = 0 /\ appended = 0 /\ flushed = 0 /\ rest = 0
    /\ card \in Task
    /\ age = "unstarted" /\ buffer = <<>> /\ cards = {}
    /\ mode = "native" /\ rendered = FALSE
    /\ structured = TRUE /\ open = {} /\ stray = {}
    /\ slack = <<>> /\ message = 0
    /\ rotations = 0 /\ faults = 0

-----------------------------------------------------------------------------
(* Slack *)

\* The clock of the open stream; Slack finalizes a stream that is due.
Age ==
    /\ pc \notin Over
    /\ age' \in CASE age = "young"   -> {"due"}
                  [] age = "due"     -> {"overdue", "expired"}
                  [] age = "overdue" -> {"expired"}
                  [] OTHER           -> {}
    /\ UNCHANGED <<pc, text, buffer, cards, chunk, reply, rotations, faults>>

Accepts == age # "expired"

\* A call that Slack accepts: the streamer's buffer and the new text get there.
Delivered(new) ==
    /\ Accepts
    /\ slack' = slack \o buffer \o new
    /\ buffer' = <<>>
    /\ age' = IF Started THEN age ELSE "young"
    /\ rendered' = TRUE

Refused == faults < MaxFaults /\ faults' = faults + 1

-----------------------------------------------------------------------------
(* The task *)

\* A chunk: text, of which the renderer may hold some back, or a task card.
Read ==
    /\ pc = "reading"
    /\ pc' = "flushing"
    /\ \/ /\ goal' = "text"
          /\ committed' \in committed..(IF committed < MaxPieces THEN committed + 1 ELSE committed)
          /\ UNCHANGED card
       \/ /\ goal' = "card"
          /\ card' \in Task
          /\ UNCHANGED committed
    /\ UNCHANGED <<appended, flushed, rest, seg, structured, open, stray, reply,
                   rotations, faults>>

\* The end of the source or an abort: what was held back is committed.
Finish ==
    /\ pc = "reading"
    /\ pc' = "flushing"
    /\ goal' = "stop"
    /\ committed' \in committed..(IF committed < MaxPieces THEN committed + 1 ELSE committed)
    /\ UNCHANGED <<appended, flushed, rest, seg, card, structured, open, stray, reply,
                   rotations, faults>>

\* The source raises; the open segment is left to Slack.
Break ==
    /\ pc = "reading"
    /\ pc' = "raised"
    /\ UNCHANGED <<text, seg, chunk, reply, rotations, faults>>

\* What follows the flush.
Done == CASE goal = "text" -> "reading"
          [] goal = "card" -> "bounding"
          [] goal = "cut"  -> "carding"
          [] goal = "stop" -> "stopping"

\* Whether the segment is rotated before this delta; a paragraph break in it or
\* a structured chunk makes a boundary.
RotationDue(boundary) == age \in {"overdue", "expired"} \/ (age = "due" /\ boundary)

Flush ==
    /\ pc = "flushing"
    /\ mode = "native"
    /\ IF committed = appended
       THEN pc' = Done /\ UNCHANGED rest
       ELSE \E boundary \in BOOLEAN :
               /\ pc' = IF RotationDue(boundary) THEN "rotating" ELSE "appending"
               /\ rest' = appended
    /\ UNCHANGED <<committed, appended, flushed, seg, chunk, reply, rotations, faults>>

\* Mutant (SlackInOrder): only the delta goes to the next segment.
RotateWithDelta ==
    /\ pc = "rotating"
    /\ rotations < MaxRotations
    /\ rest' = appended
    /\ pc' = "opening"
    /\ age' = "unstarted"
    /\ buffer' = <<>>
    /\ cards' = {}
    /\ rotations' = rotations + 1
    /\ UNCHANGED <<committed, appended, flushed, chunk, reply, faults>>

\* rotate_segment: stop() carries the text up to a cut; when the segment has
\* expired, whatever Slack did not confirm goes to the next one.
Rotate ==
    /\ pc = "rotating"
    /\ rotations < MaxRotations
    /\ \/ /\ Accepts
          /\ \E cut \in appended..committed :
                /\ slack' = slack \o buffer \o Pieces(appended, cut)
                /\ flushed' = cut
                /\ rest' = cut
          /\ pc' = "opening"
          /\ UNCHANGED faults
       \/ /\ ~Accepts
          /\ rest' = flushed
          /\ pc' = "opening"
          /\ UNCHANGED <<slack, flushed, faults>>
       \/ /\ Refused
          /\ pc' = "raised"
          /\ UNCHANGED <<slack, flushed, rest>>
    /\ IF pc' = "raised"
       THEN UNCHANGED <<seg, rotations>>
       ELSE /\ age' = "unstarted"
            /\ buffer' = <<>>
            /\ cards' = {}
            /\ rotations' = rotations + 1
    /\ UNCHANGED <<committed, appended, chunk, mode, rendered, message>>

\* Mutant (CardsStayTogether): a segment starts without the open tasks.
OpenEmpty ==
    /\ pc = "opening"
    /\ pc' = "appending"
    /\ UNCHANGED <<text, seg, chunk, reply, rotations, faults>>

\* start_next_segment: open tasks are replayed.
OpenNext ==
    /\ pc = "opening"
    /\ pc' = "appending"
    /\ \/ /\ open = {} \/ ~structured
          /\ UNCHANGED <<age, buffer, slack, rendered, cards, structured, faults>>
       \/ /\ open # {} /\ structured
          /\ Delivered(<<>>)
          /\ cards' = open
          /\ UNCHANGED <<structured, faults>>
       \/ /\ open # {} /\ structured
          /\ Refused
          /\ structured' = FALSE
          /\ UNCHANGED <<age, buffer, slack, rendered, cards>>
    /\ UNCHANGED <<text, goal, card, open, stray, mode, message, rotations>>

\* Mutant (ReturnedIsWhole): buffered text counts as confirmed.
AppendConfirmed ==
    /\ pc = "appending"
    /\ \/ /\ buffer' = buffer \o Pieces(rest, committed)
          /\ UNCHANGED <<age, slack, rendered>>
       \/ Delivered(Pieces(rest, committed))
    /\ appended' = committed
    /\ flushed' = committed
    /\ pc' = Done
    /\ UNCHANGED <<committed, rest, cards, chunk, mode, message, rotations, faults>>

\* The rest is appended: kept in the streamer's buffer, except as the first text
\* of a later segment, or sent with it.
AppendText ==
    /\ pc = "appending"
    /\ \/ /\ rest = committed
          /\ appended' = committed
          /\ pc' = Done
          /\ UNCHANGED <<flushed, age, buffer, slack, rendered, mode, faults>>
       \/ /\ rest < committed
          /\ rotations = 0 \/ Started
          /\ buffer' = buffer \o Pieces(rest, committed)
          /\ appended' = committed
          /\ pc' = Done
          /\ UNCHANGED <<flushed, age, slack, rendered, mode, faults>>
       \/ /\ rest < committed
          /\ Delivered(Pieces(rest, committed))
          /\ appended' = committed
          /\ flushed' = committed
          /\ pc' = Done
          /\ UNCHANGED <<mode, faults>>
       \/ /\ rest < committed
          /\ Refused \/ (~Accepts /\ UNCHANGED faults)
          /\ IF rendered
             THEN pc' = "raised" /\ UNCHANGED mode
             ELSE pc' = "flushing" /\ mode' = "fallback"
          /\ UNCHANGED <<appended, flushed, age, buffer, slack, rendered>>
    /\ UNCHANGED <<committed, rest, cards, chunk, message, rotations>>

\* A card is a boundary: a due segment rotates before it is sent.
Bound ==
    /\ pc = "bounding"
    /\ IF ~structured        THEN pc' = "reading"  /\ UNCHANGED <<goal, rest>>
       ELSE IF RotationDue(TRUE)
                             THEN pc' = "rotating" /\ goal' = "cut" /\ rest' = appended
                             ELSE pc' = "carding"  /\ UNCHANGED <<goal, rest>>
    /\ UNCHANGED <<committed, appended, flushed, seg, card, structured, open, stray,
                   reply, rotations, faults>>

\* The card is sent, with the streamer's buffer, and the task remembered unless
\* it is over.  A failure ends the use of cards.
SendCard ==
    /\ pc = "carding"
    /\ pc' = "reading"
    /\ \/ /\ Delivered(<<>>)
          /\ flushed' = appended
          /\ cards' = cards \cup {card}
          /\ open' \in {open \cup {card}, open \ {card}}
          /\ stray' = IF card \in open \ cards THEN stray \cup {card} ELSE stray
          /\ UNCHANGED <<structured, faults>>
       \/ /\ Refused \/ (~Accepts /\ UNCHANGED faults)
          /\ structured' = FALSE
          /\ UNCHANGED <<flushed, seg, open, stray, slack, rendered>>
    /\ UNCHANGED <<committed, appended, rest, goal, card, mode, message, rotations>>

\* Posting and editing instead, throttled until the end; cards are skipped.
FlushFallback ==
    /\ pc = "flushing"
    /\ mode = "fallback"
    /\ \/ /\ message' \in IF goal = "stop" THEN {committed} ELSE {message, committed}
          /\ pc' = CASE goal = "stop" -> "returned" [] OTHER -> "reading"
          /\ UNCHANGED faults
       \/ Refused /\ pc' = "raised" /\ UNCHANGED message
    /\ UNCHANGED <<text, seg, chunk, mode, rendered, slack, rotations>>

\* stop(): the last call, and the first one of a reply that fits in the buffer.
\* A segment that expired before holds all that was confirmed; the rest is
\* delivered by a segment that is opened to be stopped.  (A first call that opens a
\* segment and then fails to stop it leaves an empty message behind, which adds
\* nothing to the text.)
Stop ==
    /\ pc = "stopping"
    /\ \/ /\ Accepts
          /\ slack' = slack \o buffer
          /\ pc' = "returned"
          /\ UNCHANGED <<mode, faults>>
       \/ /\ Refused
          /\ IF rendered THEN pc' = "raised" /\ UNCHANGED mode
                         ELSE pc' = "flushing" /\ mode' = "fallback"
          /\ UNCHANGED slack
       \/ /\ ~Accepts
          /\ slack' = slack \o Pieces(flushed, appended)
          /\ pc' = "returned"
          /\ UNCHANGED <<mode, faults>>
       \/ /\ ~Accepts
          /\ flushed < appended
          /\ Refused
          /\ pc' = "raised"
          /\ UNCHANGED <<slack, mode>>
    /\ UNCHANGED <<text, seg, chunk, rendered, message, rotations>>

-----------------------------------------------------------------------------

TaskStep ==
    \/ Read \/ Finish \/ Break \/ Flush \/ Rotate \/ OpenNext \/ AppendText \/ Bound \/ SendCard
    \/ FlushFallback \/ Stop

Next == Age \/ TaskStep

Spec == Init /\ [][Next]_vars

-----------------------------------------------------------------------------

TypeOK ==
    /\ committed \in 0..MaxPieces /\ appended \in 0..committed /\ flushed \in 0..committed
    /\ rest \in 0..committed
    /\ cards \subseteq Task /\ open \subseteq Task /\ stray \subseteq Task
    /\ age \in {"unstarted", "young", "due", "overdue", "expired"}
    /\ mode \in {"native", "fallback"}
    /\ message \in 0..committed

\* The messages of a reply, read one after the other, hold its text from the
\* start, without a gap and nothing twice, wherever segments were cut or expired.
SlackInOrder == slack = Pieces(0, Len(slack))

\* A reply that ends without an error is there as a whole: natively or by the
\* fallback, never half by each.
ReturnedIsWhole ==
    pc = "returned" =>
        \/ mode = "native" /\ Len(slack) = committed
        \/ mode = "fallback" /\ message = committed /\ slack = <<>>

\* While Slack accepts task cards, an open task is updated where it is shown,
\* however many segments the reply has had since.
CardsStayTogether == structured => stray = {}

\* However a reply is cut into segments, expires or falls back, it reads as one.
ReplyReadsAsOne == SlackInOrder /\ ReturnedIsWhole /\ CardsStayTogether
=============================================================================
