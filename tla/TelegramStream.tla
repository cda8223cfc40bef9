---------------------------- MODULE TelegramStream ----------------------------
(***************************************************************************)
(* A reply streamed to a Telegram chat: a message that is edited as chunks *)
(* arrive, no faster than the chat allows and never while a rate limit     *)
(* runs, and a final edit that waits for both.  One task does all of it.   *)
(*                                                                         *)
(* A text is a number, the chunks it holds; the placeholder is -1.         *)
(***************************************************************************)
EXTENDS Integers

CONSTANTS
    Interval,    \* least time between edits
    Cap,         \* the longest wait of the final edit
    MaxChunks,   \* bound of the model
    MaxLimits,   \* bound of the model: rate limits and other failures
    MaxTime      \* bound of the model

Placeholder == -1
Nothing     == -2

Max2(a, b) == IF a >= b THEN a ELSE b

VARIABLES
    blank,         \* how many chunks the leading whitespace takes
    held,          \* a chunk that render() holds back while it is the newest
    pc,
    pushed,        \* chunks taken from the stream
    last,          \* last_edit_content, Nothing before the first post
    lastAt,        \* last_edit_at
    blockedUntil,  \* blocked_until
    wake,          \* when the final edit's sleep ends
    now,
    shown,         \* what the chat shows
    limitedUntil,  \* history: when the latest rate limit told to come back
    unsure,        \* history: a call failed and took effect
    failures

text  == <<blank, held, pushed>>
limit == <<blockedUntil, limitedUntil>>
vars  == <<text, limit, pc, last, lastAt, wake, now, shown, unsure, failures>>

Render(n) == IF n = held THEN n - 1 ELSE n
Rendered  == Render(pushed)
Finished  == pushed
Posted    == last # Nothing

ShouldEdit(t) == Posted /\ t > blank /\ t # last

Init ==
    /\ blank \in 0..MaxChunks /\ held \in 1..MaxChunks
    /\ pc \in {"opening", "pulling"}
    /\ pushed = 0 /\ last = Nothing /\ lastAt = 0
    /\ blockedUntil = 0 /\ limitedUntil = 0 /\ wake = 0 /\ now = 0
    /\ shown = Nothing /\ unsure = FALSE /\ failures = 0

Shows(t, next) ==
    /\ shown' = t
    /\ last' = t
    /\ lastAt' = now
    /\ pc' = next
    /\ UNCHANGED <<failures, unsure>>

\* A call fails for a reason other than the rate limit, and may take effect.
Breaks(t, next) ==
    /\ failures < MaxLimits
    /\ failures' = failures + 1
    /\ shown' \in {shown, t}
    /\ unsure' = (unsure \/ shown' # shown)
    /\ pc' = next
    /\ UNCHANGED <<last, lastAt, limit>>

Limited(r) ==
    /\ failures < MaxLimits
    /\ failures' = failures + 1
    /\ blockedUntil' = Max2(blockedUntil, now + r)
    /\ limitedUntil' = now + r
    /\ UNCHANGED <<last, lastAt, shown, unsure>>

Retries == 1..(Cap + 1)

Tick ==
    /\ now < MaxTime
    /\ now' = now + 1
    /\ UNCHANGED <<text, limit, pc, last, lastAt, wake, shown, unsure, failures>>

\* The placeholder, or the first text of a stream without one.
Post ==
    /\ pc \in {"opening", "posting"}
    /\ LET t == IF pc = "opening" THEN Placeholder ELSE Rendered
       IN  \/ Shows(t, "pulling") /\ UNCHANGED limit
           \/ Breaks(t, "raised")
    /\ UNCHANGED <<text, wake, now>>

\* Mutant (QuietWhileLimited): a rate limit is like any failure.
ChunkWhenPaced ==
    /\ pc = "pulling"
    /\ pushed < MaxChunks
    /\ pushed' = pushed + 1
    /\ pc' = IF ~Posted
             THEN IF Render(pushed + 1) > blank THEN "posting" ELSE "pulling"
             ELSE IF now - lastAt >= Interval /\ Render(pushed + 1) > blank /\ Render(pushed + 1) # last
                  THEN "editing" ELSE "pulling"
    /\ UNCHANGED <<blank, held, limit, last, lastAt, wake, now, shown, unsure, failures>>

Chunk ==
    /\ pc = "pulling"
    /\ pushed < MaxChunks
    /\ pushed' = pushed + 1
    /\ pc' = IF ~Posted
             THEN IF Render(pushed + 1) > blank THEN "posting" ELSE "pulling"
             ELSE IF now >= blockedUntil /\ now - lastAt >= Interval
                     /\ Render(pushed + 1) > blank /\ Render(pushed + 1) # last
                  THEN "editing" ELSE "pulling"
    /\ UNCHANGED <<blank, held, limit, last, lastAt, wake, now, shown, unsure, failures>>

\* An edit on the way: a failure is passed over.
Edit ==
    /\ pc = "editing"
    /\ \/ Shows(Rendered, "pulling") /\ blockedUntil' = 0 /\ UNCHANGED limitedUntil
       \/ Breaks(Rendered, "pulling")
       \/ \E r \in Retries : Limited(r) /\ pc' = "pulling"
    /\ UNCHANGED <<text, wake, now>>

\* The stream ended, or its source failed.
End ==
    /\ pc = "pulling"
    /\ \/ /\ pc' = "raised"
          /\ UNCHANGED <<wake, shown, last, lastAt, unsure, failures, limit>>
       \/ /\ Posted /\ ~ShouldEdit(Finished)
          /\ pc' = "returned"
          /\ UNCHANGED <<wake, shown, last, lastAt, unsure, failures, limit>>
       \/ /\ ShouldEdit(Finished)
          /\ wake' = now + Max2(Max2(0, blockedUntil - now), Max2(0, Interval - (now - lastAt)))
          /\ pc' = IF blockedUntil - now > Cap THEN "raised" ELSE "final"
          /\ UNCHANGED <<shown, last, lastAt, unsure, failures, limit>>
       \/ /\ ~Posted
          /\ IF Finished <= blank
             THEN pc' = "raised" /\ UNCHANGED <<shown, last, lastAt, unsure, failures, limit>>
             ELSE \/ Shows(Finished, "returned") /\ UNCHANGED limit
                  \/ Breaks(Finished, "raised")
          /\ UNCHANGED wake
    /\ UNCHANGED <<text, now>>

\* Mutant (ReturnedIsShown): the final edit is as dispensable as the others.
FinalEditIfItCan ==
    /\ pc \in {"final", "again"}
    /\ now >= wake
    /\ \/ Shows(Finished, "returned") /\ blockedUntil' = 0 /\ UNCHANGED <<limitedUntil, wake>>
       \/ Breaks(Finished, "returned") /\ UNCHANGED wake
       \/ \E r \in Retries : Limited(r) /\ pc' = "returned" /\ UNCHANGED wake
    /\ UNCHANGED <<text, now>>

\* The final edit: one more try after a rate limit that is short enough.
FinalEdit ==
    /\ pc \in {"final", "again"}
    /\ now >= wake
    /\ \/ Shows(Finished, "returned") /\ blockedUntil' = 0 /\ UNCHANGED <<limitedUntil, wake>>
       \/ Breaks(Finished, "raised") /\ UNCHANGED wake
       \/ \E r \in Retries :
             /\ Limited(r)
             /\ pc' = IF pc = "again" \/ r > Cap THEN "raised" ELSE "again"
             /\ wake' = now + r
    /\ UNCHANGED <<text, now>>

Next == Tick \/ Post \/ Chunk \/ Edit \/ End \/ FinalEdit

Spec == Init /\ [][Next]_vars

-----------------------------------------------------------------------------

TypeOK ==
    /\ blank \in 0..MaxChunks /\ held \in 1..MaxChunks /\ pushed \in 0..MaxChunks
    /\ pc \in {"opening", "pulling", "posting", "editing", "final", "again", "returned", "raised"}
    /\ {last, shown} \subseteq {Nothing, Placeholder} \cup 0..MaxChunks
    /\ lastAt \in 0..now /\ now \in 0..MaxTime
    /\ failures \in 0..MaxLimits

\* A call that returns leaves the whole text in the chat: a message cut short by a
\* failure is never taken for the complete one.
ReturnedIsShown ==
    pc = "returned" /\ ~unsure /\ Finished > blank => shown = Finished

\* While a rate limit of Telegram runs, no edit is sent.
QuietWhileLimited ==
    [][(pc' = "editing" \/ pc \in {"final", "again"}) /\ pc' # pc => now >= limitedUntil]_vars

\* A reply arrives in full, at the pace Telegram asks for.
RepliesMindTheLimit == []ReturnedIsShown /\ QuietWhileLimited
=============================================================================
