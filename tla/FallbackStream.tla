---------------------------- MODULE FallbackStream ----------------------------
(***************************************************************************)
(* A stream posted through a platform that has no native streaming: the    *)
(* thread posts a message, pulls chunks until the source ends or the turn  *)
(* is aborted, and edits the message from a second task meanwhile.         *)
(*                                                                         *)
(* What a message shows is a number: how many chunks its text holds, or    *)
(* one of the three contents that are no text of the stream.               *)
(***************************************************************************)
EXTENDS Integers

CONSTANTS
    MaxChunks,   \* bound of the model: the chunks of the longest stream
    MaxFaults    \* bound of the model: calls of the platform that fail

ASSUME StreamAssumption == MaxChunks \in Nat /\ MaxFaults \in Nat

Nothing == -3
Dots    == -2    \* the placeholder
Space   == -1    \* what stands for a stream of whitespace

Content == {Nothing, Dots, Space} \cup 0..MaxChunks

VARIABLES
    blank,        \* how many chunks the stream's leading whitespace takes
    held,         \* a chunk that render() holds back while it is the newest
    placeholder,  \* whether a placeholder is configured
    pc,           \* where the posting task is
    pull,         \* the wait for a chunk: "waiting", "chunk", "end" or "error"
    pushed,       \* chunks given to the renderer
    aborted,      \* the turn's signal
    failed,       \* stream_error
    posted,       \* msg is not None
    last,         \* last_edit_content
    stop,         \* stop_event
    loop,         \* the edit loop: "none", "sleeping", "editing", "landed", "ended"
    edit,         \* what the loop is sending
    typing,       \* _typing_started
    sent,         \* what the caller's SentMessage or the history says
    shown,        \* what the platform shows
    unsure,       \* history: a call took effect and failed all the same
    faults

stream == <<blank, held, placeholder>>
source == <<pull, pushed, aborted>>
looper == <<loop, edit>>
outer  == <<typing, sent>>
vars   == <<stream, source, looper, outer, pc, failed, posted, last, stop, shown,
            unsure, faults>>

Over == {"returned", "raised", "cancelled"}

Blank(text) == text <= blank

\* render() of what was pushed, and finish().
Rendered == IF pushed = held THEN pushed - 1 ELSE pushed
Finished == pushed

\* The text a finished stream should leave on the platform.
Whole == IF Blank(Finished) THEN Space ELSE Finished

Init ==
    /\ blank \in 0..MaxChunks
    /\ held \in 1..(MaxChunks + 1)
    /\ placeholder \in BOOLEAN
    /\ pc = IF placeholder THEN "opening" ELSE "pulling"
    /\ pull = "waiting"
    /\ pushed = 0
    /\ aborted = FALSE
    /\ failed = FALSE
    /\ posted = FALSE
    /\ last = 0
    /\ stop = FALSE
    /\ loop = "none"
    /\ edit = 0
    /\ typing \in BOOLEAN
    /\ sent = Nothing
    /\ shown = Nothing
    /\ unsure = FALSE
    /\ faults = 0

-----------------------------------------------------------------------------
(* Calls of the platform.  A call that fails may have taken effect. *)

Succeeds(content) ==
    /\ shown' = content
    /\ last' = content
    /\ UNCHANGED <<unsure, faults>>

Fails(content) ==
    /\ faults < MaxFaults
    /\ faults' = faults + 1
    /\ \/ UNCHANGED <<shown, unsure>>
       \/ shown' = content /\ unsure' = TRUE
    /\ UNCHANGED last

\* Mutant (TypingEnds): only a stream that was posted ends the indicator.
LeaveTyping(how) == pc' = how /\ typing' = (typing /\ ~posted)

\* Leaving _fallback_stream, by a return or an exception, ends the indicator.
Leave(how) == pc' = how /\ typing' = FALSE

-----------------------------------------------------------------------------
(* The source and the turn's signal, outside the stream *)

Offer ==
    /\ pc = "pulling"
    /\ pull = "waiting"
    /\ pull' \in {"end", "error"} \cup (IF pushed < MaxChunks THEN {"chunk"} ELSE {})
    /\ UNCHANGED <<stream, looper, outer, pc, pushed, aborted, failed, posted, last,
                   stop, shown, unsure, faults>>

Abort ==
    /\ ~aborted
    /\ pc \notin Over
    /\ aborted' = TRUE
    /\ UNCHANGED <<stream, looper, outer, pc, pull, pushed, failed, posted, last, stop,
                   shown, unsure, faults>>

-----------------------------------------------------------------------------
(* The posting task *)

\* The placeholder.  A failure leaves before the stream was touched.
Open ==
    /\ pc = "opening"
    /\ \/ /\ Succeeds(Dots)
          /\ posted' = TRUE
          /\ loop' = "sleeping"
          /\ pc' = "pulling"
          /\ UNCHANGED typing
       \/ /\ Fails(Dots)
          /\ Leave("raised")
          /\ UNCHANGED <<posted, loop>>
    /\ UNCHANGED <<stream, source, edit, sent, failed, stop>>

\* Mutant (AbortedTakesNoMore): the abort is looked at before the wait only.
TakeAnyChunk ==
    /\ pc = "pulling"
    /\ pull = "chunk"
    /\ pushed' = pushed + 1
    /\ pull' = "waiting"
    /\ pc' = IF posted THEN "pulling" ELSE "starting"
    /\ UNCHANGED <<stream, looper, outer, aborted, failed, posted, last, stop, shown,
                   unsure, faults>>

\* A chunk is pushed, unless the abort came while it was awaited or before the
\* task took it up.
Take ==
    /\ pc = "pulling"
    /\ pull = "chunk"
    /\ ~aborted
    /\ pushed' = pushed + 1
    /\ pull' = "waiting"
    /\ pc' = IF posted THEN "pulling" ELSE "starting"
    /\ UNCHANGED <<stream, looper, outer, aborted, failed, posted, last, stop, shown,
                   unsure, faults>>

\* Without a message, the first text that is not whitespace is posted; a failed
\* post ends the stream like an error of the source.
Start ==
    /\ pc = "starting"
    /\ \/ /\ Blank(Rendered)
          /\ pc' = "pulling"
          /\ UNCHANGED <<posted, loop, last, stop, shown, unsure, faults, failed>>
       \/ /\ ~Blank(Rendered)
          /\ Succeeds(Rendered)
          /\ posted' = TRUE
          /\ loop' = "sleeping"
          /\ pc' = "pulling"
          /\ UNCHANGED <<failed, stop>>
       \/ /\ ~Blank(Rendered)
          /\ Fails(Rendered)
          /\ failed' = TRUE
          /\ stop' = TRUE
          /\ pc' = "joining"
          /\ UNCHANGED <<posted, loop>>
    /\ UNCHANGED <<stream, source, edit, outer>>

\* Mutant (AbortEndsTheStream): an abort does not interrupt a pending wait.
EndOfSource ==
    /\ pc = "pulling"
    /\ pull \in {"end", "error"}
    /\ failed' \in {pull = "error"} \cup (IF aborted THEN {FALSE} ELSE {})
    /\ stop' = TRUE
    /\ pc' = "joining"
    /\ UNCHANGED <<stream, source, looper, outer, posted, last, shown, unsure, faults>>

\* The source ended, raised, or the abort interrupts the wait; an error that
\* comes together with the abort may be taken for its effect.
EndOfStream ==
    /\ pc = "pulling"
    /\ aborted \/ pull \in {"end", "error"}
    /\ failed' \in {pull = "error"} \cup (IF aborted THEN {FALSE} ELSE {})
    /\ stop' = TRUE
    /\ pc' = "joining"
    /\ UNCHANGED <<stream, source, looper, outer, posted, last, shown, unsure, faults>>

\* Mutant (SentIsShown): the final edit does not wait for the loop's.
JoinAtOnce ==
    /\ pc = "joining"
    /\ IF failed /\ ~posted
       THEN Leave("raised")
       ELSE pc' = "closing" /\ UNCHANGED typing
    /\ UNCHANGED <<stream, source, looper, sent, failed, posted, last, stop, shown,
                   unsure, faults>>

\* The loop is awaited; without a message a failed stream has nothing to flush.
Join ==
    /\ pc = "joining"
    /\ loop \in {"none", "ended"}
    /\ IF failed /\ ~posted
       THEN Leave("raised")
       ELSE pc' = "closing" /\ UNCHANGED typing
    /\ UNCHANGED <<stream, source, looper, sent, failed, posted, last, stop, shown,
                   unsure, faults>>

\* Mutant (WholeTextIsShown): what the loop showed last is left as it is.
CloseIfNothingPosted ==
    /\ pc = "closing"
    /\ \/ /\ posted
          /\ last # Dots
          /\ pc' = "recording"
          /\ UNCHANGED <<posted, last, shown, unsure, faults, typing>>
       \/ /\ ~posted \/ last = Dots
          /\ Succeeds(Whole)
          /\ posted' = TRUE
          /\ pc' = "recording"
          /\ UNCHANGED typing
    /\ UNCHANGED <<stream, source, looper, sent, failed, stop>>

\* The last post or edit: the whole text if it is not shown yet, the space in
\* the place of a placeholder that no text replaced.
Close ==
    /\ pc = "closing"
    /\ \/ /\ posted
          /\ last = Whole
          /\ pc' = "recording"
          /\ UNCHANGED <<posted, last, shown, unsure, faults, typing>>
       \/ /\ ~posted \/ last # Whole
          /\ Succeeds(Whole)
          /\ posted' = TRUE
          /\ pc' = "recording"
          /\ UNCHANGED typing
       \/ /\ posted
          /\ last # Whole
          /\ Fails(Whole)
          /\ pc' = "recording"
          /\ UNCHANGED <<posted, typing>>
       \/ /\ ~posted
          /\ Fails(Whole)
          /\ Leave("raised")
          /\ UNCHANGED posted
    /\ UNCHANGED <<stream, source, looper, sent, failed, stop>>

\* The history gets what the platform shows, and so does the caller, unless the
\* source had failed or the history does.
Record ==
    /\ pc = "recording"
    /\ sent' = last
    /\ \/ Leave(IF failed THEN "raised" ELSE "returned") /\ UNCHANGED faults
       \/ faults < MaxFaults /\ faults' = faults + 1 /\ Leave("raised")
    /\ UNCHANGED <<stream, source, looper, failed, posted, last, stop, shown, unsure>>

\* Mutant (LoopEnds): only an end of the stream stops the loop.
CancelOnly ==
    /\ pc \notin Over
    /\ Leave("cancelled")
    /\ UNCHANGED <<stream, source, looper, sent, failed, posted, last, stop, shown,
                   unsure, faults>>

\* A cancelled task stops where it is; a cancelled wait for the loop cancels the
\* loop, whose edit may have reached the platform already.
Cancel ==
    /\ pc \notin Over
    /\ stop' = (stop \/ pc \in {"pulling", "starting"})
    /\ Leave("cancelled")
    /\ IF pc = "joining" /\ loop \notin {"none", "ended"}
       THEN /\ loop' = "ended"
            /\ shown' \in IF loop = "editing" THEN {shown, edit} ELSE {shown}
       ELSE UNCHANGED <<loop, shown>>
    /\ UNCHANGED <<stream, source, edit, sent, failed, posted, last, unsure, faults>>

-----------------------------------------------------------------------------
(* The edit loop *)

Idle == loop' = IF stop THEN "ended" ELSE "sleeping"

\* The interval elapsed, or the stop woke the loop.
Wake ==
    /\ loop = "sleeping"
    /\ \/ stop /\ loop' = "ended" /\ UNCHANGED edit
       \/ /\ ~stop
          /\ ~Blank(Rendered)
          /\ Rendered # last
          /\ loop' = "editing"
          /\ edit' = Rendered
    /\ UNCHANGED <<stream, source, outer, pc, failed, posted, last, stop, shown, unsure,
                   faults>>

EditLands ==
    /\ loop = "editing"
    /\ shown' = edit
    /\ loop' = "landed"
    /\ UNCHANGED <<stream, source, edit, outer, pc, failed, posted, last, stop, unsure,
                   faults>>

EditReturns ==
    /\ loop = "landed"
    /\ last' = edit
    /\ Idle
    /\ UNCHANGED <<stream, source, edit, outer, pc, failed, posted, stop, shown, unsure,
                   faults>>

EditFails ==
    /\ loop \in {"editing", "landed"}
    /\ faults < MaxFaults
    /\ faults' = faults + 1
    /\ unsure' = (unsure \/ loop = "landed")
    /\ Idle
    /\ UNCHANGED <<stream, source, edit, outer, pc, failed, posted, last, stop, shown>>

-----------------------------------------------------------------------------

LoopStep == Wake \/ EditLands \/ EditReturns \/ EditFails
TaskStep == Open \/ Take \/ Start \/ EndOfStream \/ Join \/ Close \/ Record

Next == Offer \/ Abort \/ Cancel \/ TaskStep \/ LoopStep

\* Tasks are scheduled and the platform answers; nothing is asked of the source.
Fairness == WF_vars(TaskStep) /\ WF_vars(LoopStep)

Spec == Init /\ [][Next]_vars /\ Fairness

-----------------------------------------------------------------------------

TypeOK ==
    /\ blank \in 0..MaxChunks /\ held \in 1..(MaxChunks + 1) /\ placeholder \in BOOLEAN
    /\ pc \in Over \cup {"opening", "pulling", "starting", "joining", "closing", "recording"}
    /\ pull \in {"waiting", "chunk", "end", "error"}
    /\ pushed \in 0..MaxChunks /\ aborted \in BOOLEAN
    /\ failed \in BOOLEAN /\ posted \in BOOLEAN /\ stop \in BOOLEAN
    /\ last \in Content /\ shown \in Content /\ sent \in Content
    /\ loop \in {"none", "sleeping", "editing", "landed", "ended"}
    /\ edit \in 0..MaxChunks
    /\ typing \in BOOLEAN /\ unsure \in BOOLEAN /\ faults \in 0..MaxFaults

\* What the caller and the history are told is what the platform shows, then
\* and ever after, unless a failed call took effect.
SentIsShown == sent # Nothing /\ ~unsure => shown = sent

\* A stream that ended while every call succeeded leaves its whole text, even
\* when its source failed, and never a placeholder.
WholeTextIsShown ==
    pc \in {"returned", "raised"} /\ posted /\ faults = 0 => shown = Whole

\* Nobody is left "typing" by a stream that is over.
TypingEnds == pc \in Over => ~typing

\* What a reader sees, what the caller is told and what the source produced agree
\* once the stream is over, whatever the edit loop did beside it.
ReaderSeesTheText == SentIsShown /\ WholeTextIsShown /\ TypingEnds

\* No chunk is taken once the turn was aborted.
AbortedTakesNoMore == [][aborted => pushed' = pushed]_vars

\* An aborted stream comes to an end, whatever its source does.
AbortEndsTheStream == aborted ~> pc \in Over

\* The edit loop does not outlive the stream, cancelled or not.
LoopEnds == pc \in Over ~> loop \in {"none", "ended"}

\* An abort takes hold at once and leaves nothing running.
AbortsAreHeeded == AbortedTakesNoMore /\ AbortEndsTheStream /\ LoopEnds
=============================================================================
