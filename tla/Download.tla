------------------------------ MODULE Download ------------------------------
(* The guarded download of an attachment (shared/download.py): at most         *)
(* Redirects + 1 requests, each sent to a vetted place with the headers of     *)
(* its hop, one response at a time, its body read up to a limit; one deadline  *)
(* over all of it.  The transport, the hook on the response and the body may   *)
(* ignore their cancellation, a close may be slow, and the caller may cancel.  *)
EXTENDS Integers, FiniteSets, Sequences

CONSTANTS
    Redirects,  \* redirects followed, DEFAULT_REDIRECTS
    Deadline,   \* timeout_ms, in ticks
    Limit,      \* decoded bytes allowed, in chunks
    MaxFaults   \* bound on hooks that raise, bodies that break and cancellations

VARIABLES
    now,        \* loop.time(), from the call on
    form,       \* headers is a "mapping" of credentials, or a "function" of the hop's URL
    listed,     \* hosts is given
    hop, place, \* of range(redirects + 1), and where current leads
    pc,         \* where download_attachment stands
    task,       \* the transport's request: "none", "running", "answered" or "abandoned"
    asked,      \* the requests sent: where, with which headers, when
    unclosed,   \* the hops whose response is open
    closing,    \* those with a close under way
    body,       \* chunks decoded so far
    declared,   \* Content-Length, or -1
    then,       \* what follows the close of a response
    outcome,    \* what the caller was told
    faults      \* faults so far

vars == <<now, form, listed, hop, place, pc, task, asked, unclosed, closing, body, declared, then, outcome, faults>>
fixed == <<form, listed>>

\* The attachment's own host and a second one of the platform are allowed; a
\* foreign one where no hosts are listed; plain http and internal ones never.
Places == {"home", "cdn", "foreign", "internal"}
Valid(p) == p \in {"home", "cdn"} \cup (IF listed THEN {} ELSE {"foreign"})

\* Mutants: a mapping's credentials follow every redirect; the hook is awaited
\* without the deadline; the time is not looked at again after the headers'
\* callback; a late response is let go; a failing hook leaves its response; the
\* chunk over the limit is kept.
MutHopHeaders(p) == form = "mapping" \/ p \in {"home", "cdn"}
MutBounded == {"waiting", "reading", "closing"}
MutSend ==
    /\ pc = "headers" /\ task' = "running" /\ pc' = "waiting"
    /\ asked' = Append(asked, [place |-> place, credentials |-> FALSE, at |-> now])
    /\ UNCHANGED <<now, fixed, hop, place, unclosed, closing, body, declared, then, outcome, faults>>
MutAnswer ==
    /\ task \in {"running", "abandoned"} /\ unclosed' = unclosed \cup {hop}
    /\ task' = IF task = "running" THEN "answered" ELSE "none"
    /\ UNCHANGED <<now, fixed, hop, place, pc, asked, closing, body, declared, then, outcome, faults>>
MutHookRaises ==
    /\ pc = "hook" /\ faults < MaxFaults /\ faults' = faults + 1
    /\ outcome' = "failed" /\ pc' = "over"
    /\ UNCHANGED <<now, fixed, hop, place, task, asked, unclosed, closing, body, declared, then>>
MutFits(size) == body <= Limit

\* What a hop's request carries: a mapping's credentials stay with the first
\* origin; the adapters' functions give them to the platform's own hosts.
HopHeaders(p) == IF form = "mapping" THEN p = "home" ELSE p \in {"home", "cdn"}

\* The waits that _within_deadline and _close_within bound.
Bounded == {"waiting", "hook", "reading", "closing"}
Expired == now >= Deadline

Init ==
    /\ now = 0 /\ form \in {"mapping", "function"} /\ listed \in BOOLEAN
    /\ hop = 0 /\ place = "home" /\ pc = "hop" /\ task = "none"
    /\ asked = <<>> /\ unclosed = {} /\ closing = {} /\ body = 0 /\ declared = -1
    /\ then = "none" /\ outcome = "none" /\ faults = 0

----------------------------------------------------------------------------
Finish(o) == outcome' = o /\ pc' = "over"

\* Leaves the try: the response is closed, whatever is to follow.
Close(what) == pc' = "closing" /\ then' = what /\ closing' = closing \cup {hop}

\* _abandon: the task is cancelled and not waited for.  What it answered
\* already, or answers yet, goes to _close_late.
Abandon ==
    /\ task' = IF task = "running" THEN "abandoned" ELSE "none"
    /\ closing' = closing \cup (IF task = "answered" THEN {hop} ELSE {})

\* No hop is begun once the time is over, and the callback for the headers,
\* which runs in the loop, may itself take up what was left.
BeginHop ==
    /\ pc = "hop"
    /\ IF Expired THEN Finish("timeout") ELSE pc' = "headers" /\ UNCHANGED outcome
    /\ UNCHANGED <<now, fixed, hop, place, task, asked, unclosed, closing, body, declared, then, faults>>

SlowHeaders ==
    /\ pc = "headers" /\ form = "function" /\ now <= Deadline
    /\ now' = now + 1
    /\ UNCHANGED <<fixed, hop, place, pc, task, asked, unclosed, closing, body, declared, then, outcome, faults>>

Send ==
    /\ pc = "headers"
    /\ IF Expired
       THEN Finish("timeout") /\ UNCHANGED <<task, asked>>
       ELSE /\ asked' = Append(asked, [place |-> place, credentials |-> HopHeaders(place), at |-> now])
            /\ task' = "running" /\ pc' = "waiting" /\ UNCHANGED outcome
    /\ UNCHANGED <<now, fixed, hop, place, unclosed, closing, body, declared, then, faults>>

----------------------------------------------------------------------------
\* The transport.  A response that comes after the request was abandoned is
\* closed in the background; a request that honours its cancellation opens none.
Answer ==
    /\ task \in {"running", "abandoned"}
    /\ unclosed' = unclosed \cup {hop}
    /\ IF task = "running" THEN task' = "answered" /\ UNCHANGED closing
       ELSE task' = "none" /\ closing' = closing \cup {hop}
    /\ UNCHANGED <<now, fixed, hop, place, pc, asked, body, declared, then, outcome, faults>>

Obey ==
    /\ task = "abandoned" /\ task' = "none"
    /\ UNCHANGED <<now, fixed, hop, place, pc, asked, unclosed, closing, body, declared, then, outcome, faults>>

RequestFails ==
    /\ task = "running" /\ pc = "waiting" /\ faults < MaxFaults
    /\ task' = "none" /\ faults' = faults + 1
    /\ Finish(IF Expired THEN "timeout" ELSE "failed")
    /\ UNCHANGED <<now, fixed, hop, place, asked, unclosed, closing, body, declared, then>>

Closed(h) ==
    /\ h \in closing /\ h \in unclosed
    /\ unclosed' = unclosed \ {h} /\ closing' = closing \ {h}
    /\ UNCHANGED <<now, fixed, hop, place, pc, task, asked, body, declared, then, outcome, faults>>

----------------------------------------------------------------------------
\* _within_deadline around the request: an answer at the deadline is late.
TimeOut ==
    /\ pc = "waiting" /\ pc \in Bounded /\ Expired
    /\ Abandon /\ Finish("timeout")
    /\ UNCHANGED <<now, fixed, hop, place, asked, unclosed, body, declared, then, faults>>

\* A redirect is followed to a vetted place while hops are left; any other
\* status that is no success ends the download, as does a declared length over
\* the limit; a success is shown to on_response, if one is given, and read.
Redirected ==
    /\ pc = "waiting" /\ task = "answered" /\ ~Expired /\ task' = "none"
    /\ \E to \in Places :
          IF hop = Redirects \/ ~Valid(to)
          THEN Close("refused") /\ UNCHANGED place
          ELSE Close("next") /\ place' = to
    /\ UNCHANGED <<now, fixed, hop, asked, unclosed, body, declared, outcome, faults>>

Refused ==
    /\ pc = "waiting" /\ task = "answered" /\ ~Expired /\ task' = "none"
    /\ Close("refused")
    /\ UNCHANGED <<now, fixed, hop, place, asked, unclosed, body, declared, outcome, faults>>

Succeeded ==
    /\ pc = "waiting" /\ task = "answered" /\ ~Expired /\ task' = "none"
    /\ pc' \in {"hook", "reading"} /\ declared' \in -1 .. Limit + 1
    /\ UNCHANGED <<now, fixed, hop, place, asked, unclosed, closing, body, then, outcome, faults>>

HookEnds ==
    /\ pc = "hook" /\ ~Expired /\ pc' = "reading"
    /\ UNCHANGED <<now, fixed, hop, place, task, asked, unclosed, closing, body, declared, then, outcome, faults>>

HookRaises ==
    /\ pc = "hook" /\ ~Expired /\ faults < MaxFaults /\ faults' = faults + 1
    /\ Close("failed")
    /\ UNCHANGED <<now, fixed, hop, place, task, asked, unclosed, body, declared, outcome>>

\* take() counts the decoded bytes before it keeps them.
Fits(size) == size <= Limit /\ (declared >= 0 => size <= declared)

Take ==
    /\ pc = "reading" /\ ~Expired
    /\ IF Fits(body + 1) /\ declared <= Limit
       THEN body' = body + 1 /\ UNCHANGED <<pc, then, closing>>
       ELSE Close("refused") /\ UNCHANGED body
    /\ UNCHANGED <<now, fixed, hop, place, task, asked, unclosed, declared, outcome, faults>>

BodyEnds ==
    /\ pc = "reading" /\ ~Expired
    /\ Close(IF declared > Limit THEN "refused" ELSE "bytes")
    /\ UNCHANGED <<now, fixed, hop, place, task, asked, unclosed, body, declared, outcome, faults>>

BodyBreaks ==
    /\ pc = "reading" /\ ~Expired /\ faults < MaxFaults /\ faults' = faults + 1
    /\ Close("failed")
    /\ UNCHANGED <<now, fixed, hop, place, task, asked, unclosed, body, declared, outcome>>

LateAfterAnswer ==
    /\ pc \in {"hook", "reading"} /\ pc \in Bounded /\ Expired
    /\ Close("timeout")
    /\ UNCHANGED <<now, fixed, hop, place, task, asked, unclosed, body, declared, outcome, faults>>

\* _close_within returns when the close has ended, or at the deadline, with the
\* close left to end in the background; an error other than NetworkError that
\* surfaces at the deadline is told as a timeout.
AfterClose ==
    /\ pc = "closing"
    /\ hop \notin closing \/ (pc \in Bounded /\ Expired)
    /\ IF then = "next"
       THEN pc' = "hop" /\ hop' = hop + 1 /\ UNCHANGED outcome
       ELSE Finish(IF then = "failed" /\ Expired THEN "timeout" ELSE then) /\ UNCHANGED hop
    /\ then' = "none"
    /\ UNCHANGED <<now, fixed, place, task, asked, unclosed, closing, body, declared, faults>>

\* The caller is cancelled at one of the awaits.
Cancel ==
    /\ pc \in Bounded /\ faults < MaxFaults /\ faults' = faults + 1
    /\ CASE pc = "waiting" -> Abandon /\ Finish("cancelled") /\ UNCHANGED then
         [] pc = "closing" -> Finish("cancelled") /\ then' = "none" /\ UNCHANGED <<task, closing>>
         [] OTHER          -> closing' = closing \cup {hop} /\ Finish("cancelled") /\ UNCHANGED <<task, then>>
    /\ UNCHANGED <<now, fixed, hop, place, asked, unclosed, body, declared>>

\* The loop runs what is due before time goes on.
Tick ==
    /\ now <= Deadline /\ pc # "headers" /\ ~(pc = "hop")
    /\ ~(Expired /\ pc \in Bounded)
    /\ now' = now + 1
    /\ UNCHANGED <<fixed, hop, place, pc, task, asked, unclosed, closing, body, declared, then, outcome, faults>>

Step ==
    \/ BeginHop \/ Send \/ SlowHeaders \/ Answer \/ Obey \/ RequestFails \/ (\E h \in 0 .. Redirects : Closed(h))
    \/ TimeOut \/ Redirected \/ Refused \/ Succeeded \/ HookEnds \/ HookRaises \/ Take \/ BodyEnds
    \/ BodyBreaks \/ LateAfterAnswer \/ AfterClose

Quiet == outcome # "none" /\ task = "none" /\ closing = {} /\ now > Deadline
Next == Step \/ Cancel \/ Tick \/ (Quiet /\ UNCHANGED vars)

----------------------------------------------------------------------------
TypeOK ==
    /\ now \in 0 .. Deadline + 1 /\ hop \in 0 .. Redirects /\ place \in Places
    /\ pc \in {"hop", "headers", "over"} \cup Bounded
    /\ task \in {"none", "running", "answered", "abandoned"}
    /\ Len(asked) <= Redirects + 1 /\ unclosed \cup closing \subseteq 0 .. Redirects
    /\ body \in 0 .. Limit + 1 /\ declared \in -1 .. Limit + 1
    /\ outcome \in {"none", "bytes", "refused", "failed", "timeout", "cancelled"}

\* Whatever ends a download -- a deadline, a refusal, a hook that raises, a
\* cancellation, an answer that comes too late -- every response that was opened
\* is closed or about to be, and a hop begins with no response open that is not.
EveryResponseIsClosed ==
    /\ outcome # "none" => unclosed \subseteq closing
    /\ pc \in {"hop", "headers", "waiting"} => unclosed \ closing \subseteq (IF task = "answered" THEN {hop} ELSE {})

\* The caller is told by the deadline, or as soon as its own callback lets the
\* loop go on, and nothing is asked of any host from then on.
DeadlineHolds ==
    /\ now > Deadline => outcome # "none" \/ pc = "headers"
    /\ \A i \in 1 .. Len(asked) : asked[i].at < Deadline

\* Every request goes to a vetted place, and the credentials of a mapping only
\* to the attachment's own origin, however the redirects wind.
RequestsAreVetted ==
    \A i \in 1 .. Len(asked) :
        Valid(asked[i].place) /\ ((form = "mapping" /\ asked[i].credentials) => asked[i].place = "home")

\* Bytes are handed over only for a body that ended in time, within the limit
\* and the length it declared.
BytesAreWhole ==
    outcome = "bytes" =>
        body <= Limit /\ declared <= Limit /\ (declared >= 0 => body <= declared) /\ task = "none"

DownloadsAreGuarded ==
    TypeOK /\ EveryResponseIsClosed /\ DeadlineHolds /\ RequestsAreVetted /\ BytesAreWhole
=============================================================================
