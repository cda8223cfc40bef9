--------------------------- MODULE MarkdownRenderer ---------------------------
(***************************************************************************)
(* What an append-only surface may be given of Markdown that is still      *)
(* being written: get_committable_text().  The unit is the line.  A line   *)
(* is a table row, a table's separator, a code fence, a blank line, a line *)
(* with one inline marker ("star"), or other text.  The last line may be   *)
(* unfinished.                                                             *)
(*                                                                         *)
(* A Linear agent session is such a surface: each flush sends what the     *)
(* text has more than the text sent last, by length.  Lengths are counted  *)
(* in lines.                                                               *)
(***************************************************************************)
EXTENDS Naturals, SequencesExt

CONSTANTS
    Kind,      \* the kinds of lines a source writes
    Wrap,      \* wrap_tables_for_append
    MaxLines   \* bound of the model

VARIABLES
    lines,     \* the text: its lines, each <<kind, number>>
    open,      \* the last line is unfinished
    toggles,   \* _fence_toggles: fences among the finished lines
    finished   \* _finished

\* Of a Linear session.
VARIABLES
    pc,        \* "reading", "returned" or "raised"
    length,    \* of last_appended
    sent       \* the lines of all activities

renderer == <<lines, open, toggles, finished>>

KindOf(line) == line[1]
Fence == <<"fence", 0>>    \* a fence that the renderer adds

Before(text, n) == SubSeq(text, 1, n)

\* _is_inside_code_fence
InsideFence(text) == Cardinality({i \in DOMAIN text : KindOf(text[i]) = "fence"}) % 2 = 1

\* The last line before the rows that end at n.
Above(text, n) == Max({0} \cup {i \in 1..n : KindOf(text[i]) # "row"})

IsSeparator(text, i) == i > 0 /\ KindOf(text[i]) = "sep"

\* Mutant (TablesAreNotTakenBack): an earlier table's separator does not count.
CommittablePrefixOfBlock(text) ==
    LET n     == Len(text)
        above == Above(text, n)
    IN  IF IsSeparator(text, above) /\ above = n
        THEN Before(text, Above(text, n - 1))
        ELSE IF IsSeparator(text, above) \/ above = n
        THEN text
        ELSE Before(text, above)

\* _get_committable_prefix: rows without a separator wait for one, and a header
\* waits for its first row, unless the rows above belong to an earlier table.
CommittablePrefix(text) ==
    LET n     == Len(text)
        above == Above(text, n)
    IN  IF IsSeparator(text, above) /\ above = n
        THEN LET start == Above(text, n - 1)
             IN  IF IsSeparator(text, start) THEN text ELSE Before(text, start)
        ELSE IF IsSeparator(text, above) \/ above = n
        THEN text
        ELSE Before(text, above)

\* _find_clean_prefix: nothing from an unclosed marker on.
CleanPrefix(text) ==
    LET stars == {i \in DOMAIN text : /\ KindOf(text[i]) = "star"
                                      /\ ~InsideFence(Before(text, i))}
    IN  IF Cardinality(stars) % 2 = 0 THEN text ELSE Before(text, Max(stars) - 1)

\* Whether a separator confirms the table that starts at line i.
Confirmed(text, i) ==
    \E j \in i..Len(text) : /\ KindOf(text[j]) = "sep"
                            /\ \A k \in i..(j - 1) : KindOf(text[k]) = "row"

\* One line of _wrap_tables_for_append; the fence of the text that ends a table
\* is not counted as one.
WrapLine(text, i, w) ==
    LET line  == text[i]
        table == KindOf(line) \in {"row", "sep"}
        add(before) == [w EXCEPT !.out = w.out \o before \o <<line>>]
    IN  IF ~w.table /\ KindOf(line) = "fence" THEN [add(<<>>) EXCEPT !.code = ~w.code]
        ELSE IF w.code                        THEN add(<<>>)
        ELSE IF table /\ ~w.table /\ Confirmed(text, i)
                                              THEN [add(<<Fence>>) EXCEPT !.table = TRUE]
        ELSE IF ~table /\ w.table             THEN [add(<<Fence>>) EXCEPT !.table = FALSE]
        ELSE add(<<>>)

\* _format_append_only_text
Wrapped(text, close) ==
    IF ~Wrap THEN text
    ELSE LET none == [out |-> <<>>, table |-> FALSE, code |-> FALSE]
             w == FoldLeftDomain(LAMBDA v, i : WrapLine(text, i, v), none, text)
         IN  IF w.table /\ close THEN w.out \o <<Fence>> ELSE w.out

\* get_committable_text
Committable ==
    LET done == IF open THEN Front(lines) ELSE lines
        safe == Wrapped(CommittablePrefix(done), FALSE)
    IN  IF finished               THEN Wrapped(lines, TRUE)
        ELSE IF InsideFence(done) THEN Wrapped(lines, FALSE)
        ELSE IF InsideFence(safe) THEN safe
        ELSE CleanPrefix(safe)

\* _is_accumulated_inside_fence
AccumulatedInside ==
    LET last == open /\ KindOf(Last(lines)) = "fence"
    IN  (toggles % 2 = 1) # last

-----------------------------------------------------------------------------

InitRenderer == lines = <<>> /\ open = FALSE /\ toggles = 0 /\ finished = FALSE

\* Mutant (FencesAreCounted): a fence counts when it is begun and when it ends.
PushTwice ==
    \/ /\ open
       /\ open' = FALSE
       /\ toggles' = IF KindOf(Last(lines)) = "fence" THEN toggles + 1 ELSE toggles
       /\ UNCHANGED <<lines, finished>>
    \/ /\ ~open
       /\ Len(lines) < MaxLines
       /\ \E k \in Kind :
             /\ lines' = Append(lines, <<k, Len(lines) + 1>>)
             /\ open' \in BOOLEAN
             /\ toggles' = IF k = "fence" THEN toggles + 1 ELSE toggles
       /\ UNCHANGED finished

\* push(): a chunk ends the line that is open, or writes the next one, whole or
\* in part.
Push ==
    \/ /\ open
       /\ open' = FALSE
       /\ toggles' = IF KindOf(Last(lines)) = "fence" THEN toggles + 1 ELSE toggles
       /\ UNCHANGED <<lines, finished>>
    \/ /\ ~open
       /\ Len(lines) < MaxLines
       /\ \E k \in Kind :
             /\ lines' = Append(lines, <<k, Len(lines) + 1>>)
             /\ open' \in BOOLEAN
             /\ toggles' = IF k = "fence" /\ ~open' THEN toggles + 1 ELSE toggles
       /\ UNCHANGED finished

\* finish()
Finish ==
    /\ ~finished
    /\ finished' = TRUE
    /\ UNCHANGED <<lines, open, toggles>>

RendererNext == ~finished /\ (Push \/ Finish)

RendererSpec == InitRenderer /\ [][RendererNext]_renderer

-----------------------------------------------------------------------------
(* A reply streamed into a Linear agent session *)

session == <<renderer, pc, length, sent>>

\* What is sent of a delta: blank lines around it are stripped.
Stripped(delta) ==
    LET full == {i \in DOMAIN delta : KindOf(delta[i]) # "blank"}
    IN  IF full = {} THEN <<>> ELSE SubSeq(delta, Min(full), Max(full))

\* flush_markdown; an empty delta is sent by force only.
FlushMarkdown(text, force) ==
    LET delta == Stripped(SubSeq(text, length + 1, Len(text)))
    IN  IF delta # <<>> \/ force
        THEN sent' = sent \o delta /\ length' = Len(text)
        ELSE UNCHANGED <<sent, length>>

InitSession == InitRenderer /\ pc = "reading" /\ length = 0 /\ sent = <<>>

PushText == pc = "reading" /\ Push /\ UNCHANGED <<pc, length, sent>>

\* A task_update: the text so far becomes a thought.
TaskUpdate ==
    /\ pc = "reading"
    /\ FlushMarkdown(Committable, FALSE)
    /\ UNCHANGED <<renderer, pc>>

\* Mutant (EveryLineIsSent): the response has what was committed only.
RespondCommitted ==
    /\ pc = "reading"
    /\ Finish
    /\ FlushMarkdown(Committable, TRUE)
    /\ pc' = "returned"

\* The response: the rest of the finished text, which render() does not wrap.
Respond ==
    /\ pc = "reading"
    /\ Finish
    /\ FlushMarkdown(lines, TRUE)
    /\ pc' = "returned"

\* The source or a call of Linear raises.
BreakOff ==
    /\ pc = "reading"
    /\ pc' = "raised"
    /\ UNCHANGED <<renderer, length, sent>>

SessionNext == PushText \/ TaskUpdate \/ Respond \/ BreakOff

SessionSpec == InitSession /\ [][SessionNext]_session

-----------------------------------------------------------------------------

\* The count kept from chunk to chunk says whether the text ends in a fence.
FencesAreCounted == AccumulatedInside <=> InsideFence(lines)

\* The monotonic contract of an append-only surface: what was given of a table or
\* a block of code is never taken back or changed by what follows.
TablesAreNotTakenBack ==
    [][IsPrefix(Committable, Committable')]_renderer

\* What an append-only surface was given stands, fences and tables included.
PrefixesStand == []FencesAreCounted /\ TablesAreNotTakenBack

\* The deltas add up: when the session ends, every line of the reply has been
\* sent, once and in order.
EveryLineIsSent ==
    pc = "returned" =>
        SelectSeq(sent, LAMBDA x : x # Fence /\ KindOf(x) # "blank")
            = SelectSeq(lines, LAMBDA x : KindOf(x) # "blank")
=============================================================================
