---------------------------- MODULE StreamsProofs ----------------------------
(***************************************************************************)
(* What holds of a streamed reply of any length, whatever fails: of        *)
(* FallbackStream, and of PlanEdits, SlackStream, TeamsStream and          *)
(* TelegramStream as MCStreams runs them.                                  *)
(***************************************************************************)
EXTENDS MCStreams, SequenceTheorems, TLAPS

\* Where the posting task is tells whether there is a message, and whether the
\* edit loop can still be at work; the longest stream bounds what it pulls.
TaskAndLoop ==
    /\ pull = "chunk" => pushed < MaxChunks
    /\ pc \in {"opening", "starting"} => ~posted
    /\ pc = "recording" => posted
    /\ loop # "none" => posted
    /\ pc \in {"closing", "recording", "returned", "raised"} => loop \in {"none", "ended"}

\* What the task knows of the message is what the platform shows, but for an edit
\* whose answer is on its way, or one that a cancelled task left behind.
LastIsShown ==
    /\ unsure => faults > 0
    /\ loop = "landed" => shown = edit
    /\ ~unsure /\ posted /\ loop # "landed" /\ pc # "cancelled" => shown = last

\* The text is complete before its caller is told of it.
WholeIsRecorded ==
    pc \in {"recording", "returned", "raised"} /\ posted /\ faults = 0 => shown = Whole

\* Whoever has been told can rely on it: the loop is over, and nothing is unknown.
ToldIsFinal ==
    sent # Nothing => /\ pc \in {"returned", "raised"}
                      /\ loop \in {"none", "ended"}
                      /\ posted
                      /\ sent = last

StreamInv ==
    /\ TypeOK /\ TaskAndLoop /\ LastIsShown /\ WholeIsRecorded /\ ToldIsFinal /\ TypingEnds

-----------------------------------------------------------------------------

LEMMA StreamInitially == Init => StreamInv
<1> USE StreamAssumption
<1>1. ASSUME Init
      PROVE  TypeOK
  <2>1. last \in Content /\ shown \in Content /\ sent \in Content /\ edit \in 0..MaxChunks
    BY <1>1 DEF Init, Content
  <2>2. /\ pushed \in 0..MaxChunks /\ faults \in 0..MaxFaults
        /\ blank \in 0..MaxChunks /\ held \in 1..(MaxChunks + 1)
    BY <1>1 DEF Init
  <2>3. pc \in Over \cup {"opening", "pulling", "starting", "joining", "closing", "recording"}
    BY <1>1 DEF Init
  <2>4. QED
    BY <1>1, <2>1, <2>2, <2>3 DEF Init, TypeOK
<1>2. Init => TaskAndLoop /\ LastIsShown /\ WholeIsRecorded /\ ToldIsFinal /\ TypingEnds
  BY DEF Init, TaskAndLoop, LastIsShown, WholeIsRecorded, ToldIsFinal, TypingEnds, Over
<1>3. QED
  BY <1>1, <1>2 DEF StreamInv

\* What a reader can be shown of a stream.
LEMMA TextsAreContent ==
    ASSUME TypeOK
    PROVE  /\ Dots \in Content /\ Nothing \in Content /\ Space \in Content
           /\ Whole \in Content
           /\ pushed >= 1 => Rendered \in 0..MaxChunks
           /\ ~Blank(Rendered) => Rendered \in 0..MaxChunks
BY StreamAssumption
   DEF TypeOK, Dots, Nothing, Space, Content, Whole, Rendered, Finished, Blank

\* Every step of the source, the posting task and the edit loop keeps it.
LEMMA StreamStep == StreamInv /\ [Next]_vars => StreamInv'
<1> SUFFICES ASSUME StreamInv, [Next]_vars
             PROVE  StreamInv'
  OBVIOUS
<1>a. TypeOK /\ TaskAndLoop /\ LastIsShown /\ WholeIsRecorded /\ ToldIsFinal /\ TypingEnds
  BY DEF StreamInv
<1>b. /\ Dots \in Content /\ Nothing \in Content /\ Space \in Content /\ Whole \in Content
      /\ pushed >= 1 => Rendered \in 0..MaxChunks
      /\ ~Blank(Rendered) => Rendered \in 0..MaxChunks
  BY <1>a, TextsAreContent
<1>c. UNCHANGED <<blank, pushed>> => Whole' = Whole
  BY DEF Whole, Blank, Finished
<1> USE StreamAssumption, <1>a, <1>b, <1>c DEF StreamInv
<1>1. CASE UNCHANGED vars
  BY <1>1 DEF vars, stream, source, looper, outer, TypeOK, TaskAndLoop, LastIsShown,
              WholeIsRecorded, ToldIsFinal, TypingEnds
<1>2. CASE Offer \/ Abort
  <2>1. UNCHANGED <<stream, looper, outer, pc, pushed, failed, posted, last, stop, shown,
                    unsure, faults>>
    BY <1>2 DEF Offer, Abort
  <2>2. TypeOK'
    <3>1. pull' \in {"waiting", "chunk", "end", "error"} /\ aborted' \in BOOLEAN
      BY <1>2 DEF Offer, Abort, TypeOK
    <3>2. QED
      BY <2>1, <3>1 DEF stream, looper, outer, TypeOK
  <2>3. TaskAndLoop'
    <3>1. pull' = "chunk" => pushed' < MaxChunks
      BY <1>2, <2>1 DEF Offer, Abort, TaskAndLoop
    <3>2. QED
      BY <2>1, <3>1 DEF looper, TaskAndLoop
  <2>4. LastIsShown' /\ WholeIsRecorded'
    BY <2>1 DEF stream, looper, LastIsShown, WholeIsRecorded
  <2>5. ToldIsFinal' /\ TypingEnds'
    BY <2>1 DEF looper, outer, ToldIsFinal, TypingEnds
  <2>6. QED
    BY <2>2, <2>3, <2>4, <2>5
<1>3. CASE Cancel
  <2>1. TypeOK'
    <3>1. shown' \in Content
      BY <1>3 DEF Cancel, TypeOK, Content
    <3>2. loop' \in {"none", "sleeping", "editing", "landed", "ended"} /\ stop' \in BOOLEAN
      BY <1>3 DEF Cancel, TypeOK
    <3>3. QED
      BY <1>3, <3>1, <3>2 DEF Cancel, Leave, Over, stream, source, TypeOK
  <2>a. TaskAndLoop'
    BY <1>3 DEF Cancel, Leave, Over, source, TypeOK, TaskAndLoop
  <2>2. TaskAndLoop' /\ LastIsShown'
    <3>1. loop' = "landed" => loop = "landed" /\ shown' = shown
      BY <1>3 DEF Cancel, TypeOK
    <3>2. QED
      BY <1>3, <2>a, <3>1 DEF Cancel, Leave, Over, TypeOK, LastIsShown
  <2>3. WholeIsRecorded' /\ ToldIsFinal' /\ TypingEnds'
    BY <1>3 DEF Cancel, Leave, Over, WholeIsRecorded, ToldIsFinal, TypingEnds
  <2>4. QED
    BY <2>1, <2>2, <2>3
<1>4. CASE Open
  <2> USE <1>4 DEF Open, Succeeds, Fails, Leave, stream, source, Over
  <2>1. TypeOK'
    <3>1. UNCHANGED <<blank, held, placeholder, pull, pushed, aborted>>
      BY DEF TypeOK
    <3>2. pc' \in Over \cup {"opening", "pulling", "starting", "joining", "closing", "recording"}
      BY DEF TypeOK
    <3>3. last' \in Content /\ shown' \in Content /\ sent' \in Content
      BY DEF TypeOK
    <3>4. faults' \in 0..MaxFaults /\ unsure' \in BOOLEAN
      <4>1. faults' = faults \/ (faults < MaxFaults /\ faults' = faults + 1)
        OBVIOUS
      <4>2. faults \in 0..MaxFaults /\ unsure' \in BOOLEAN
        BY DEF TypeOK
      <4>3. QED
        BY ONLY <4>1, <4>2, StreamAssumption
    <3>5. loop' \in {"none", "sleeping", "editing", "landed", "ended"} /\ edit' \in 0..MaxChunks
      BY DEF TypeOK
    <3>6. failed' \in BOOLEAN /\ posted' \in BOOLEAN /\ stop' \in BOOLEAN /\ typing' \in BOOLEAN
      BY DEF TypeOK
    <3>7. QED
      BY <3>1, <3>2, <3>3, <3>4, <3>5, <3>6 DEF TypeOK
  <2>2. TaskAndLoop' /\ LastIsShown'
    BY DEF TypeOK, TaskAndLoop, LastIsShown
  <2>3. WholeIsRecorded' /\ ToldIsFinal' /\ TypingEnds'
    BY DEF WholeIsRecorded, ToldIsFinal, TypingEnds, TaskAndLoop
  <2>4. QED
    BY <2>1, <2>2, <2>3
<1>5. CASE Take
  <2> USE <1>5 DEF Take, stream, looper, outer, Over
  <2>1. TypeOK'
    <3>a. pushed \in 0..MaxChunks /\ pushed < MaxChunks
      BY DEF TypeOK, TaskAndLoop
    <3>1. UNCHANGED <<blank, held, placeholder>>
      BY DEF TypeOK
    <3>2. pc' \in Over \cup {"opening", "pulling", "starting", "joining", "closing", "recording"}
      BY DEF TypeOK
    <3>3. pushed' \in 0..MaxChunks /\ pull' = "waiting"
      BY <3>a
    <3>4. last' \in Content /\ shown' \in Content /\ sent' \in Content
      BY DEF TypeOK
    <3>5. UNCHANGED <<loop, edit, typing, aborted, failed, posted, stop, unsure, faults>>
      BY DEF TypeOK
    <3>6. QED
      BY <3>1, <3>2, <3>3, <3>4, <3>5 DEF TypeOK
  <2>2. TaskAndLoop' /\ LastIsShown'
    BY DEF TypeOK, TaskAndLoop, LastIsShown
  <2>3. WholeIsRecorded' /\ ToldIsFinal' /\ TypingEnds'
    BY DEF WholeIsRecorded, ToldIsFinal, TypingEnds
  <2>4. QED
    BY <2>1, <2>2, <2>3
<1>6. CASE Start
  <2> USE <1>6 DEF Start, Succeeds, Fails, stream, source, outer, Over
  <2>1. TypeOK'
    <3>1. UNCHANGED <<blank, held, placeholder, pull, pushed, aborted>>
      BY DEF TypeOK
    <3>2. pc' \in Over \cup {"opening", "pulling", "starting", "joining", "closing", "recording"}
      BY DEF TypeOK
    <3>3. last' \in Content /\ shown' \in Content /\ sent' \in Content
      BY DEF TypeOK, Content
    <3>4. faults' \in 0..MaxFaults /\ unsure' \in BOOLEAN
      <4>1. faults' = faults \/ (faults < MaxFaults /\ faults' = faults + 1)
        OBVIOUS
      <4>2. faults \in 0..MaxFaults /\ unsure' \in BOOLEAN
        BY DEF TypeOK
      <4>3. QED
        BY ONLY <4>1, <4>2, StreamAssumption
    <3>5. loop' \in {"none", "sleeping", "editing", "landed", "ended"} /\ edit' \in 0..MaxChunks
      BY DEF TypeOK
    <3>6. failed' \in BOOLEAN /\ posted' \in BOOLEAN /\ stop' \in BOOLEAN /\ typing' \in BOOLEAN
      BY DEF TypeOK
    <3>7. QED
      BY <3>1, <3>2, <3>3, <3>4, <3>5, <3>6 DEF TypeOK
  <2>2. TaskAndLoop' /\ LastIsShown'
    BY DEF TypeOK, TaskAndLoop, LastIsShown
  <2>3. WholeIsRecorded' /\ ToldIsFinal' /\ TypingEnds'
    BY DEF WholeIsRecorded, ToldIsFinal, TypingEnds
  <2>4. QED
    BY <2>1, <2>2, <2>3
<1>7. CASE EndOfStream
  <2> USE <1>7 DEF EndOfStream, stream, source, looper, outer, Over
  <2>1. TypeOK'
    BY DEF TypeOK
  <2>2. TaskAndLoop' /\ LastIsShown'
    BY DEF TypeOK, TaskAndLoop, LastIsShown
  <2>3. WholeIsRecorded' /\ ToldIsFinal' /\ TypingEnds'
    BY DEF WholeIsRecorded, ToldIsFinal, TypingEnds
  <2>4. QED
    BY <2>1, <2>2, <2>3
<1>8. CASE Join
  <2> USE <1>8 DEF Join, Leave, stream, source, looper, Over
  <2>1. TypeOK'
    BY DEF TypeOK
  <2>2. TaskAndLoop' /\ LastIsShown'
    BY DEF TypeOK, TaskAndLoop, LastIsShown
  <2>3. WholeIsRecorded' /\ ToldIsFinal' /\ TypingEnds'
    BY DEF WholeIsRecorded, ToldIsFinal, TypingEnds
  <2>4. QED
    BY <2>1, <2>2, <2>3
<1>9. CASE Close
  <2> USE <1>9 DEF Close, Succeeds, Fails, Leave, stream, source, looper, Over
  <2>1. TypeOK'
    <3>1. UNCHANGED <<blank, held, placeholder, pull, pushed, aborted>>
      BY DEF TypeOK
    <3>2. pc' \in Over \cup {"opening", "pulling", "starting", "joining", "closing", "recording"}
      BY DEF TypeOK
    <3>3. last' \in Content /\ shown' \in Content /\ sent' \in Content
      BY DEF TypeOK
    <3>4. faults' \in 0..MaxFaults /\ unsure' \in BOOLEAN
      <4>1. faults' = faults \/ (faults < MaxFaults /\ faults' = faults + 1)
        OBVIOUS
      <4>2. faults \in 0..MaxFaults /\ unsure' \in BOOLEAN
        BY DEF TypeOK
      <4>3. QED
        BY ONLY <4>1, <4>2, StreamAssumption
    <3>5. loop' \in {"none", "sleeping", "editing", "landed", "ended"} /\ edit' \in 0..MaxChunks
      BY DEF TypeOK
    <3>6. failed' \in BOOLEAN /\ posted' \in BOOLEAN /\ stop' \in BOOLEAN /\ typing' \in BOOLEAN
      BY DEF TypeOK
    <3>7. QED
      BY <3>1, <3>2, <3>3, <3>4, <3>5, <3>6 DEF TypeOK
  <2>2. TaskAndLoop' /\ LastIsShown'
    BY DEF TypeOK, TaskAndLoop, LastIsShown
  <2>a. Whole' = Whole
    OBVIOUS
  <2>3. WholeIsRecorded'
    <3>1. faults' = 0 => faults = 0 /\ ~unsure
      BY DEF TypeOK, LastIsShown
    <3>2. CASE posted /\ last = Whole /\ UNCHANGED <<last, shown, faults>>
      <4>1. faults = 0 => shown = Whole
        BY <3>1, <3>2 DEF TaskAndLoop, LastIsShown
      <4>2. QED
        BY <2>a, <3>2, <4>1 DEF WholeIsRecorded
    <3>3. CASE shown' = Whole
      BY <2>a, <3>3 DEF WholeIsRecorded
    <3>4. CASE faults' = faults + 1
      BY <3>4 DEF TypeOK, WholeIsRecorded
    <3>5. QED
      BY <3>2, <3>3, <3>4
  <2>4. ToldIsFinal' /\ TypingEnds'
    BY DEF ToldIsFinal, TypingEnds
  <2>5. QED
    BY <2>1, <2>2, <2>3, <2>4
<1>10. CASE Record
  <2> USE <1>10 DEF Record, Leave, stream, source, looper, Over
  <2>1. TypeOK'
    <3>1. UNCHANGED <<blank, held, placeholder, pull, pushed, aborted>>
      BY DEF TypeOK
    <3>2. pc' \in Over \cup {"opening", "pulling", "starting", "joining", "closing", "recording"}
      BY DEF TypeOK
    <3>3. last' \in Content /\ shown' \in Content /\ sent' \in Content
      BY DEF TypeOK
    <3>4. faults' \in 0..MaxFaults /\ unsure' \in BOOLEAN
      <4>1. faults' = faults \/ (faults < MaxFaults /\ faults' = faults + 1)
        OBVIOUS
      <4>2. faults \in 0..MaxFaults /\ unsure' \in BOOLEAN
        BY DEF TypeOK
      <4>3. QED
        BY ONLY <4>1, <4>2, StreamAssumption
    <3>5. loop' \in {"none", "sleeping", "editing", "landed", "ended"} /\ edit' \in 0..MaxChunks
      BY DEF TypeOK
    <3>6. failed' \in BOOLEAN /\ posted' \in BOOLEAN /\ stop' \in BOOLEAN /\ typing' \in BOOLEAN
      BY DEF TypeOK
    <3>7. QED
      BY <3>1, <3>2, <3>3, <3>4, <3>5, <3>6 DEF TypeOK
  <2>2. TaskAndLoop' /\ LastIsShown'
    BY DEF TypeOK, TaskAndLoop, LastIsShown
  <2>3. WholeIsRecorded'
    BY DEF TypeOK, WholeIsRecorded
  <2>4. ToldIsFinal' /\ TypingEnds'
    BY DEF ToldIsFinal, TypingEnds, TaskAndLoop
  <2>5. QED
    BY <2>1, <2>2, <2>3, <2>4
<1>11. CASE LoopStep
  <2> USE <1>11 DEF LoopStep, Wake, EditLands, EditReturns, EditFails, Idle, stream, source,
                    outer, Over
  <2>1. TypeOK'
    <3>1. UNCHANGED <<blank, held, placeholder, pull, pushed, aborted>>
      BY DEF TypeOK
    <3>2. pc' \in Over \cup {"opening", "pulling", "starting", "joining", "closing", "recording"}
      BY DEF TypeOK
    <3>3. last' \in Content /\ shown' \in Content /\ sent' \in Content
      BY DEF TypeOK, Content
    <3>4. faults' \in 0..MaxFaults /\ unsure' \in BOOLEAN
      <4>1. faults' = faults \/ (faults < MaxFaults /\ faults' = faults + 1)
        OBVIOUS
      <4>2. faults \in 0..MaxFaults /\ unsure' \in BOOLEAN
        BY DEF TypeOK
      <4>3. QED
        BY ONLY <4>1, <4>2, StreamAssumption
    <3>5. loop' \in {"none", "sleeping", "editing", "landed", "ended"} /\ edit' \in 0..MaxChunks
      BY DEF TypeOK
    <3>6. failed' \in BOOLEAN /\ posted' \in BOOLEAN /\ stop' \in BOOLEAN /\ typing' \in BOOLEAN
      BY DEF TypeOK
    <3>7. QED
      BY <3>1, <3>2, <3>3, <3>4, <3>5, <3>6 DEF TypeOK
  <2>2. TaskAndLoop'
    BY DEF TypeOK, TaskAndLoop
  <2>3. LastIsShown'
    BY DEF TypeOK, TaskAndLoop, LastIsShown
  <2>a. Whole' = Whole
    OBVIOUS
  <2>4. WholeIsRecorded'
    BY <2>a DEF TypeOK, WholeIsRecorded, TaskAndLoop
  <2>5. ToldIsFinal' /\ TypingEnds'
    BY DEF ToldIsFinal, TypingEnds
  <2>6. QED
    BY <2>1, <2>2, <2>3, <2>4, <2>5
<1>12. QED
  BY <1>1, <1>2, <1>3, <1>4, <1>5, <1>6, <1>7, <1>8, <1>9, <1>10, <1>11
     DEF Next, TaskStep

\* Whatever the edit loop, the source and an abort do to each other: what the
\* caller and the history are told is what the reader sees from then on, a stream
\* whose calls all succeeded leaves its whole text, and nobody is left "typing".
THEOREM StreamIsTold == Spec => []ReaderSeesTheText
<1>1. StreamInv => ReaderSeesTheText
  BY DEF StreamInv, TypeOK, ReaderSeesTheText, SentIsShown, WholeTextIsShown, TypingEnds,
         LastIsShown, WholeIsRecorded, ToldIsFinal, Over
<1>2. QED
  BY <1>1, StreamInitially, StreamStep, PTL DEF Spec

\* Once the turn was aborted, the stream takes no chunk, however its wait ended.
THEOREM NothingIsTakenAfterAbort == Spec => AbortedTakesNoMore
<1>1. [Next]_vars => [aborted => pushed' = pushed]_vars
  BY DEF Next, TaskStep, LoopStep, Offer, Abort, Cancel, Open, Take, Start, EndOfStream, Join,
         Close, Record, Wake, EditLands, EditReturns, EditFails, Succeeds, Fails, vars, source
<1>2. QED
  BY <1>1, PTL DEF Spec, AbortedTakesNoMore

-----------------------------------------------------------------------------
\* The edits of a plan

Called(c) == plan_state[c] # "none"

PlanTypes ==
    /\ plan_model \in Nat /\ plan_shown \in Nat
    /\ plan_chain \in Call \cup {NoCall}
    /\ plan_prev \in [Call -> Call \cup {NoCall}]
    /\ plan_made \in [Call -> Nat] /\ plan_sending \in [Call -> Nat]
    /\ plan_state \in [Call -> {"waiting", "editing", "landed", "edited", "failed",
          "cancelled", "none"}]

\* The calls form a chain in the order in which they changed the plan.
CallsAreChained ==
    /\ plan_chain = NoCall => plan_model = 0
    /\ plan_chain # NoCall => Called(plan_chain) /\ plan_made[plan_chain] = plan_model
    /\ \A c \in Call : Called(c) =>
           /\ plan_made[c] \in 1..plan_model
           /\ plan_prev[c] = NoCall => plan_made[c] = 1
           /\ plan_prev[c] # NoCall => Called(plan_prev[c])
                 /\ plan_made[plan_prev[c]] + 1 = plan_made[c]
    /\ \A c, d \in Call : Called(c) /\ Called(d) /\ plan_made[c] = plan_made[d] => c = d

\* An edit leaves its place in the chain after all that were enqueued before it
\* have ended.
EarlierHaveEnded ==
    \A c, d \in Call :
        /\ plan_state[c] \notin {"none", "waiting"}
        /\ Called(d) /\ plan_made[d] < plan_made[c]
        => plan_state[d] \in {"edited", "failed", "cancelled"}

\* The plan that is sent is no older than what is shown and what the call left.
NewerIsSent ==
    /\ plan_shown <= plan_model
    /\ \A c \in Call :
           /\ plan_state[c] = "editing" => plan_shown <= plan_sending[c]
                 /\ plan_made[c] <= plan_sending[c] /\ plan_sending[c] <= plan_model
           /\ plan_state[c] \in {"landed", "edited"} => plan_made[c] <= plan_shown

PlanInv == PlanTypes /\ CallsAreChained /\ EarlierHaveEnded /\ NewerIsSent

LEMMA PlanInit == Plan!Init => PlanInv
BY StreamsAssumption DEF Plan!Init, PlanInv, PlanTypes, CallsAreChained, EarlierHaveEnded,
                      NewerIsSent, Called

LEMMA OneIsUnderWay ==
    ASSUME PlanInv, NEW c \in Call, NEW d \in Call,
           plan_state[c] \in {"editing", "landed"}, plan_state[d] \in {"editing", "landed"}
    PROVE  c = d
<1>1. plan_made[c] \in Nat /\ plan_made[d] \in Nat
  BY DEF PlanInv, PlanTypes
<1>2. ~(plan_made[c] < plan_made[d]) /\ ~(plan_made[d] < plan_made[c])
  BY DEF PlanInv, EarlierHaveEnded, Called
<1>3. plan_made[c] = plan_made[d]
  BY <1>1, <1>2
<1>4. QED
  BY <1>3 DEF PlanInv, CallsAreChained, Called

LEMMA PlanStep == PlanInv /\ [Plan!Next]_Plan!vars => PlanInv' /\ plan_shown' >= plan_shown
<1> SUFFICES ASSUME PlanInv, [Plan!Next]_Plan!vars PROVE PlanInv' /\ plan_shown' >= plan_shown
  OBVIOUS
<1> USE StreamsAssumption DEF PlanInv, PlanTypes, Plan!Become
<1>1. ASSUME NEW c \in Call, Plan!Change(c)
      PROVE  PlanInv' /\ plan_shown' >= plan_shown
  <2>1. PlanTypes' /\ plan_shown' = plan_shown
    BY <1>1 DEF Plan!Change
  <2>2. CallsAreChained'
    BY <1>1 DEF Plan!Change, CallsAreChained, Called
  <2>3. EarlierHaveEnded'
    BY <1>1 DEF Plan!Change, EarlierHaveEnded, Called, CallsAreChained
  <2>4. NewerIsSent'
    BY <1>1 DEF Plan!Change, NewerIsSent
  <2>5. QED
    BY <2>1, <2>2, <2>3, <2>4
<1>2. ASSUME NEW c \in Call, Plan!Begin(c) \/ Plan!Inherit(c)
      PROVE  PlanInv' /\ plan_shown' >= plan_shown
  <2>1. PlanTypes' /\ plan_shown' = plan_shown
    BY <1>2 DEF Plan!Begin, Plan!Inherit
  <2>2. CallsAreChained'
    BY <1>2 DEF Plan!Begin, Plan!Inherit, CallsAreChained, Called
  <2>3. \A d \in Call : Called(d) /\ plan_made[d] < plan_made[c] =>
            plan_state[d] \in {"edited", "failed", "cancelled"}
    <3>1. plan_state[c] = "waiting"
      BY <1>2 DEF Plan!Begin, Plan!Inherit
    <3>2. CASE plan_prev[c] = NoCall
      BY <3>1, <3>2 DEF CallsAreChained, Called
    <3>3. CASE plan_prev[c] # NoCall
      <4>1. /\ plan_prev[c] \in Call /\ Called(plan_prev[c])
            /\ plan_made[plan_prev[c]] + 1 = plan_made[c]
        BY <3>1, <3>3 DEF CallsAreChained, Called
      <4>2. plan_state[plan_prev[c]] \in {"edited", "failed", "cancelled"}
        BY <1>2, <3>3 DEF Plan!Begin, Plan!Inherit
      <4>3. ASSUME NEW d \in Call, Called(d), plan_made[d] < plan_made[c]
            PROVE  d = plan_prev[c] \/ plan_made[d] < plan_made[plan_prev[c]]
        BY <4>1, <4>3 DEF CallsAreChained
      <4>4. QED
        BY <4>1, <4>2, <4>3 DEF EarlierHaveEnded
    <3>4. QED
      BY <3>2, <3>3
  <2>4. EarlierHaveEnded'
    BY <1>2, <2>3 DEF Plan!Begin, Plan!Inherit, EarlierHaveEnded, Called
  <2>5. NewerIsSent'
    BY <1>2 DEF Plan!Begin, Plan!Inherit, NewerIsSent, CallsAreChained, Called
  <2>6. QED
    BY <2>1, <2>2, <2>4, <2>5
<1>3. ASSUME NEW c \in Call, Plan!Lands(c)
      PROVE  PlanInv' /\ plan_shown' >= plan_shown
  <2>1. PlanTypes' /\ plan_shown' >= plan_shown
    BY <1>3 DEF Plan!Lands, NewerIsSent
  <2>2. CallsAreChained'
    BY <1>3 DEF Plan!Lands, CallsAreChained, Called
  <2>3. EarlierHaveEnded'
    BY <1>3 DEF Plan!Lands, EarlierHaveEnded, Called
  <2>4. NewerIsSent'
    <3>1. \A d \in Call : plan_state[d] = "editing" => d = c
      BY <1>3, OneIsUnderWay DEF Plan!Lands
    <3>2. QED
      BY <1>3, <3>1 DEF Plan!Lands, NewerIsSent
  <2>5. QED
    BY <2>1, <2>2, <2>3, <2>4
<1>4. ASSUME NEW c \in Call, Plan!Returns(c) \/ Plan!Fails(c)
      PROVE  PlanInv' /\ plan_shown' >= plan_shown
  <2>1. PlanTypes' /\ plan_shown' = plan_shown
    BY <1>4 DEF Plan!Returns, Plan!Fails
  <2>2. CallsAreChained'
    BY <1>4 DEF Plan!Returns, Plan!Fails, CallsAreChained, Called
  <2>3. EarlierHaveEnded'
    BY <1>4 DEF Plan!Returns, Plan!Fails, EarlierHaveEnded, Called
  <2>4. NewerIsSent'
    BY <1>4 DEF Plan!Returns, Plan!Fails, NewerIsSent
  <2>5. QED
    BY <2>1, <2>2, <2>3, <2>4
<1>5. ASSUME NEW c \in Call, Plan!Cancel(c)
      PROVE  PlanInv' /\ plan_shown' >= plan_shown
  <2>1. /\ plan_state[c] \in {"waiting", "editing", "landed"}
        /\ \A d \in Call : plan_state'[d] = IF d \in Plan!Front(c)
                                              THEN "cancelled" ELSE plan_state[d]
        /\ UNCHANGED <<plan_model, plan_chain, plan_prev, plan_made, plan_sending>>
        /\ \A d \in Call : d \in Plan!Front(c) <=> plan_state[d] \in {"waiting", "editing",
              "landed"} /\ plan_made[d] <= plan_made[c]
    BY <1>5 DEF Plan!Cancel, Plan!Front, Plan!Pending
  <2>2. \/ plan_shown' = plan_shown
        \/ \E e \in Plan!Front(c) : plan_state[e] = "editing" /\ plan_shown' = plan_sending[e]
    BY <1>5 DEF Plan!Cancel
  <2>3. PlanTypes' /\ plan_shown' >= plan_shown /\ plan_shown' <= plan_model
    <3>1. plan_state' \in [Call -> {"waiting", "editing", "landed", "edited", "failed",
              "cancelled", "none"}]
      BY <1>5, <2>1 DEF Plan!Cancel
    <3>2. QED
      BY <2>1, <2>2, <3>1 DEF NewerIsSent, Plan!Front
  <2>4. \A d \in Call : Called(d)' <=> Called(d)
    BY <2>1 DEF Called
  <2>5. CallsAreChained'
    BY <2>1, <2>4 DEF CallsAreChained
  <2>6. EarlierHaveEnded'
    BY <2>1, <2>4 DEF EarlierHaveEnded, Called
  <2>7. NewerIsSent'
    <3>1. ASSUME NEW d \in Call, plan_state'[d] = "editing"
          PROVE  plan_shown' = plan_shown
      <4>1. plan_state[d] = "editing" /\ d \notin Plan!Front(c)
        BY <2>1, <3>1
      <4>2. ASSUME NEW e \in Plan!Front(c), plan_state[e] = "editing"
            PROVE  FALSE
        BY <4>1, <4>2, OneIsUnderWay DEF Plan!Front
      <4>3. QED
        BY <2>2, <4>2
    <3>2. QED
      BY <2>1, <2>3, <3>1 DEF NewerIsSent
  <2>8. QED
    BY <2>3, <2>5, <2>6, <2>7
<1>6. CASE UNCHANGED Plan!vars
  BY <1>6 DEF Plan!vars, CallsAreChained, EarlierHaveEnded, NewerIsSent, Called
<1>7. QED
  BY <1>1, <1>2, <1>3, <1>4, <1>5, <1>6 DEF Plan!Next, Plan!EditStep

\* What the inductive invariant is for.
LEMMA EditedAreShown == PlanInv => Plan!EditedIsShown
BY DEF PlanInv, NewerIsSent, Plan!EditedIsShown

\* The part of the run that is a plan: the others leave it alone.
LEMMA PlansOfTheRun ==
    StreamsSpec => Plan!Init /\ [][Plan!Next]_Plan!vars
<1>1. StreamsInit => Plan!Init
  BY DEF StreamsInit
<1>2. [StreamsNext]_<<path, vars, planVars, slackVars, mdVars, linearVars, teamsVars, tgVars>>
          => [Plan!Next]_Plan!vars
  BY DEF StreamsNext, planVars, Plan!vars
<1>3. QED
  BY <1>1, <1>2, PTL DEF StreamsSpec

\* Whichever calls wait for each other, fail or are cancelled: an older plan never
\* replaces a newer one, and a call that returned has its change on the platform.
THEOREM PlansNeverGoBack == StreamsSpec => Plan!NewestStays /\ []Plan!EditedIsShown
<1>1. PlanInv /\ [Plan!Next]_Plan!vars => [plan_shown' >= plan_shown]_Plan!vars
  BY PlanStep
<1>2. StreamsSpec => Plan!NewestStays
  BY <1>1, PlansOfTheRun, PlanInit, PlanStep, PTL DEF Plan!NewestStays
<1>3. StreamsSpec => []Plan!EditedIsShown
  BY PlansOfTheRun, PlanInit, PlanStep, EditedAreShown, PTL
<1>4. QED
  BY <1>2, <1>3

-----------------------------------------------------------------------------
\* Slack's native stream

\* Pieces is a sequence with its own length, and two that meet make one.
LEMMA PiecesLength ==
    ASSUME NEW a \in Nat, NEW b \in Nat, a <= b
    PROVE  Slack!Pieces(a, b) \in Seq(Nat) /\ Len(Slack!Pieces(a, b)) = b - a
<1>1. b - a \in Nat
  OBVIOUS
<1>2. Slack!Pieces(a, b) \in [1..(b - a) -> Nat]
  BY DEF Slack!Pieces
<1>3. QED
  BY <1>1, <1>2

LEMMA PiecesJoin ==
    ASSUME NEW a \in Nat, NEW b \in Nat, NEW c \in Nat, a <= b, b <= c
    PROVE  Slack!Pieces(a, b) \o Slack!Pieces(b, c) = Slack!Pieces(a, c)
<1>1. PICK s : s = Slack!Pieces(a, b)
  OBVIOUS
<1>2. PICK t : t = Slack!Pieces(b, c)
  OBVIOUS
<1>3. /\ s \in Seq(Nat) /\ Len(s) = b - a
      /\ t \in Seq(Nat) /\ Len(t) = c - b
  BY <1>1, <1>2, PiecesLength
<1>4. /\ \A i \in 1..(b - a) : s[i] = a + i
      /\ \A i \in 1..(c - b) : t[i] = b + i
  BY <1>1, <1>2 DEF Slack!Pieces
<1>5. PICK st : st = s \o t
  OBVIOUS
<1>6. /\ st \in Seq(Nat)
      /\ Len(st) = c - a
      /\ \A i \in 1..(c - a) : st[i] = IF i <= b - a THEN s[i] ELSE t[i - (b - a)]
  <2>1. s \in Seq(Nat) /\ t \in Seq(Nat)
    BY <1>3
  <2>2. /\ st \in Seq(Nat)
        /\ Len(st) = Len(s) + Len(t)
        /\ \A i \in 1..(Len(s) + Len(t)) :
              st[i] = IF i <= Len(s) THEN s[i] ELSE t[i - Len(s)]
    BY <2>1, <1>5, ConcatProperties
  <2>3. Len(s) + Len(t) = c - a
    BY <1>3
  <2>4. QED
    BY <1>3, <2>2, <2>3
<1>7. \A i \in 1..(c - a) : st[i] = a + i
  BY <1>4, <1>6
<1>8. st \in [1..(c - a) -> Nat]
  BY <1>6
<1>9. st = [i \in 1..(c - a) |-> a + i]
  BY <1>7, <1>8
<1>10. QED
  BY <1>1, <1>2, <1>5, <1>9 DEF Slack!Pieces

LEMMA NoPieces == \A a \in Nat : Slack!Pieces(a, a) = << >>
<1> SUFFICES ASSUME NEW a \in Nat PROVE Slack!Pieces(a, a) = << >>
  OBVIOUS
<1>1. Slack!Pieces(a, a) \in Seq(Nat) /\ Len(Slack!Pieces(a, a)) = 0
  BY PiecesLength
<1>2. QED
  BY <1>1

SegmentTypes ==
    /\ slack_committed \in Nat /\ slack_appended \in 0..slack_committed
    /\ slack_flushed \in 0..slack_committed
    /\ slack_rest \in 0..slack_committed /\ slack_message \in 0..slack_committed
    /\ slack_age \in {"unstarted", "young", "due", "overdue", "expired"}
    /\ slack_mode \in {"native", "fallback"} /\ slack_goal \in {"text", "card", "cut", "stop"}
    /\ slack_pc \in Slack!Over \cup {"reading", "flushing", "rotating", "opening", "appending",
          "bounding",
                         "carding", "stopping"}

\* What Slack has, what the streamer holds back and what is yet to be appended
\* follow each other without a gap.
TextIsKept ==
    /\ /\ slack_mode = "native"
       /\ slack_pc \in {"reading", "flushing", "rotating", "bounding", "carding", "stopping"}
       => /\ slack_flushed <= slack_appended
          /\ slack_slack = Slack!Pieces(0, slack_flushed)
          /\ slack_buffer = Slack!Pieces(slack_flushed, slack_appended)
    /\ slack_pc \in {"opening", "appending"} =>
          /\ slack_flushed <= slack_rest
          /\ slack_slack = Slack!Pieces(0, slack_flushed)
          /\ slack_buffer = Slack!Pieces(slack_flushed, slack_rest)
    /\ slack_pc = "opening" => slack_flushed = slack_rest
    /\ slack_pc \in {"bounding", "carding", "stopping"} => slack_committed = slack_appended
    /\ slack_pc = "returned" /\ slack_mode = "native" =>
          slack_slack = Slack!Pieces(0, slack_committed)
    /\ slack_pc = "raised" => \E n \in Nat : slack_slack = Slack!Pieces(0, n)

\* Before anything was shown, and only then, the reply may fall back.
FallbackIsClean ==
    /\ Slack!Started => slack_rendered
    /\ slack_pc = "rotating" => Slack!Started
    /\ ~slack_rendered /\ slack_pc # "returned" => slack_slack = << >>
    /\ slack_mode = "fallback" => slack_slack = << >>
          /\ slack_pc \in {"reading", "flushing"} \cup Slack!Over
    /\ slack_mode = "fallback" /\ slack_pc = "returned" => slack_message = slack_committed

\* An open task is in the segment that is written, which replays them first.
CardsAreReplayed ==
    slack_structured => slack_stray = {} /\ (slack_pc # "opening" =>
          slack_open \subseteq slack_cards)

SegmentInv == SegmentTypes /\ TextIsKept /\ FallbackIsClean /\ CardsAreReplayed

LEMMA SegmentInit == Slack!Init => SegmentInv
<1>1. Slack!Pieces(0, 0) = << >>
  BY NoPieces
<1>2. Slack!Init => SegmentTypes /\ FallbackIsClean /\ CardsAreReplayed
  <2>1. Slack!Init => SegmentTypes
    BY DEF Slack!Init, SegmentTypes, Slack!Over
  <2>4. Slack!Init => CardsAreReplayed
    BY DEF Slack!Init, CardsAreReplayed
  <2>2. Slack!Init => FallbackIsClean
    BY DEF Slack!Init, FallbackIsClean, Slack!Started
  <2>3. QED
    BY <2>1, <2>2, <2>4
<1>3. Slack!Init => TextIsKept
  <2>1. SUFFICES ASSUME Slack!Init PROVE TextIsKept
    OBVIOUS
  <2>2. /\ slack_flushed = 0 /\ slack_appended = 0 /\ slack_pc = "reading"
        /\ slack_slack = Slack!Pieces(0, 0) /\ slack_buffer = Slack!Pieces(0, 0)
    BY <1>1, <2>1 DEF Slack!Init
  <2>3. QED
    BY <2>2 DEF TextIsKept
<1>4. QED
  BY <1>2, <1>3 DEF SegmentInv

\* A call that Slack accepts leaves nothing in the streamer.
LEMMA DeliveredAdds ==
    ASSUME NEW a \in Nat, NEW b \in Nat, NEW c \in Nat, a <= b, b <= c,
           slack_slack = Slack!Pieces(0, a), slack_buffer = Slack!Pieces(a, b),
           Slack!Delivered(Slack!Pieces(b, c))
    PROVE  slack_slack' = Slack!Pieces(0, c) /\ slack_buffer' = << >> /\ slack_rendered'
                                                                      /\ Slack!Started'
           /\ slack_age' \in {slack_age, "young"}
<1>1. slack_slack' = Slack!Pieces(0, a) \o Slack!Pieces(a, b) \o Slack!Pieces(b, c)
  BY DEF Slack!Delivered
<1>2. Slack!Pieces(0, a) \o Slack!Pieces(a, b) = Slack!Pieces(0, b)
  <2>1. 0 \in Nat /\ a \in Nat /\ b \in Nat /\ 0 <= a /\ a <= b
    OBVIOUS
  <2>2. QED
    BY <2>1, PiecesJoin
<1>3. Slack!Pieces(0, b) \o Slack!Pieces(b, c) = Slack!Pieces(0, c)
  <2>1. 0 \in Nat /\ b \in Nat /\ c \in Nat /\ 0 <= b /\ b <= c
    OBVIOUS
  <2>2. QED
    BY <2>1, PiecesJoin
<1>4. QED
  BY <1>1, <1>2, <1>3 DEF Slack!Delivered, Slack!Started

LEMMA SegmentStep == SegmentInv /\ [Slack!Next]_Slack!vars => SegmentInv'
<1> SUFFICES ASSUME SegmentInv, [Slack!Next]_Slack!vars PROVE SegmentInv'
  OBVIOUS
<1> USE DEF SegmentInv, SegmentTypes, Slack!Started, Slack!Over
<1> USE DEF Slack!text, Slack!seg, Slack!chunk, Slack!reply
<1>0. slack_mode = "native" \/ slack_mode = "fallback"
  OBVIOUS
<1>1. CASE Slack!Age
  BY <1>1 DEF Slack!Age, TextIsKept, FallbackIsClean, CardsAreReplayed
<1>2. CASE Slack!Read \/ Slack!Finish
  BY <1>2 DEF Slack!Read, Slack!Finish, TextIsKept, FallbackIsClean, CardsAreReplayed
<1>3. CASE Slack!Break
  BY <1>3, NoPieces DEF Slack!Break, TextIsKept, FallbackIsClean, CardsAreReplayed
<1>4. CASE Slack!Flush
  <2>1. SegmentTypes'
    BY <1>4 DEF Slack!Flush, Slack!Done
  <2>2. TextIsKept'
    BY <1>4 DEF Slack!Flush, Slack!Done, TextIsKept, Slack!RotationDue
  <2>3. FallbackIsClean' /\ CardsAreReplayed'
    BY <1>4 DEF Slack!Flush, Slack!Done, FallbackIsClean, CardsAreReplayed,
                Slack!RotationDue
  <2>4. QED
    BY <2>1, <2>2, <2>3
<1>5. CASE Slack!Rotate
  <2>1. /\ slack_mode = "native" /\ slack_rendered
        /\ slack_flushed <= slack_appended /\ slack_slack = Slack!Pieces(0, slack_flushed)
        /\ slack_buffer = Slack!Pieces(slack_flushed, slack_appended)
    BY <1>5 DEF Slack!Rotate, TextIsKept, FallbackIsClean
  <2>2. CASE slack_pc' = "raised"
    BY <1>5, <2>1, <2>2 DEF Slack!Rotate, TextIsKept, FallbackIsClean, CardsAreReplayed
  <2>3. CASE slack_pc' = "opening" /\ ~Slack!Accepts /\ slack_rest' = slack_flushed
            /\ UNCHANGED <<slack_slack, slack_flushed>>
    <3>1. slack_buffer' = Slack!Pieces(slack_flushed', slack_rest')
      BY <1>5, <2>3, NoPieces DEF Slack!Rotate
    <3>2. QED
      BY <1>5, <2>1, <2>3, <3>1 DEF Slack!Rotate, TextIsKept, FallbackIsClean,
                                    CardsAreReplayed
  <2>4. ASSUME slack_pc' = "opening", Slack!Accepts, NEW cut \in slack_appended..slack_committed,
               slack_slack' = slack_slack \o slack_buffer \o Slack!Pieces(slack_appended, cut),
                     slack_flushed' = cut, slack_rest' = cut
        PROVE  SegmentInv'
    <3>1. cut \in Nat /\ slack_appended <= cut /\ cut <= slack_committed
      BY <2>4
    <3>2. slack_slack' = Slack!Pieces(0, cut)
      <4>1. Slack!Pieces(0, slack_flushed) \o Slack!Pieces(slack_flushed,
                slack_appended) = Slack!Pieces(0, slack_appended)
        <5>1. 0 \in Nat /\ slack_flushed \in Nat /\ slack_appended \in Nat
                  /\ 0 <= slack_flushed /\ slack_flushed <= slack_appended
          BY <2>1
        <5>2. QED
          BY <5>1, PiecesJoin
      <4>2. Slack!Pieces(0, slack_appended) \o Slack!Pieces(slack_appended,
                cut) = Slack!Pieces(0, cut)
        <5>1. 0 \in Nat /\ slack_appended \in Nat /\ cut \in Nat /\ 0 <= slack_appended
                  /\ slack_appended <= cut
          BY <3>1
        <5>2. QED
          BY <5>1, PiecesJoin
      <4>3. QED
        BY <2>1, <2>4, <4>1, <4>2
    <3>3. slack_buffer' = Slack!Pieces(slack_flushed', slack_rest')
      BY <1>5, <2>4, <3>1, NoPieces DEF Slack!Rotate
    <3>4. QED
      BY <1>5, <2>1, <2>4, <3>1, <3>2, <3>3 DEF Slack!Rotate, TextIsKept,
      FallbackIsClean, CardsAreReplayed
  <2>5. QED
    BY <1>5, <2>2, <2>3, <2>4 DEF Slack!Rotate
<1>6. CASE Slack!OpenNext
  <2>1. /\ slack_mode = "native" /\ slack_flushed = slack_rest
        /\ slack_slack = Slack!Pieces(0, slack_flushed)
        /\ slack_buffer = Slack!Pieces(slack_flushed, slack_rest) /\ slack_buffer = << >>
    BY <1>6, NoPieces DEF Slack!OpenNext, TextIsKept, FallbackIsClean
  <2>2. CASE UNCHANGED <<slack_age, slack_buffer, slack_slack, slack_rendered, slack_cards>>
    <3>1. SegmentTypes' /\ TextIsKept' /\ FallbackIsClean'
      BY <1>6, <2>1, <2>2 DEF Slack!OpenNext, TextIsKept, FallbackIsClean
    <3>2. CardsAreReplayed'
      BY <1>6, <2>2 DEF Slack!OpenNext, CardsAreReplayed, Slack!Delivered
    <3>3. QED
      BY <3>1, <3>2
  <2>3. CASE Slack!Delivered(<<>>) /\ slack_cards' = slack_open /\ UNCHANGED slack_structured
    <3>1. Slack!Pieces(slack_rest, slack_rest) = << >>
      BY NoPieces
    <3>2. /\ slack_slack' = Slack!Pieces(0, slack_rest) /\ slack_buffer' = << >>
          /\ slack_rendered' /\ slack_age' # "unstarted"
          /\ slack_age' \in {slack_age, "young"}
      BY <2>1, <2>3, <3>1, DeliveredAdds
    <3>3. QED
      BY <1>6, <2>1, <2>3, <3>1, <3>2 DEF Slack!OpenNext, TextIsKept, FallbackIsClean,
      CardsAreReplayed,
         Slack!Delivered
  <2>4. QED
    BY <1>6, <2>2, <2>3 DEF Slack!OpenNext
<1>7. CASE Slack!AppendText
  <2>1. /\ slack_pc = "appending" /\ slack_mode = "native" /\ slack_flushed <= slack_rest
        /\ slack_slack = Slack!Pieces(0, slack_flushed)
        /\ slack_buffer = Slack!Pieces(slack_flushed, slack_rest)
    BY <1>7 DEF Slack!AppendText, TextIsKept, FallbackIsClean
  <2>2. UNCHANGED <<slack_committed, slack_rest, slack_cards, Slack!chunk, slack_message,
            slack_rotations>>
    BY <1>7 DEF Slack!AppendText
  <2>3. Slack!Done \in {"reading", "bounding", "carding", "stopping"}
    BY DEF Slack!Done
  <2>4. CASE /\ slack_rest = slack_committed /\ slack_appended' = slack_committed
            /\ slack_pc' = Slack!Done
             /\ UNCHANGED <<slack_flushed, slack_age, slack_buffer, slack_slack,
                   slack_rendered, slack_mode, slack_faults>>
    BY <2>1, <2>2, <2>3, <2>4 DEF TextIsKept, FallbackIsClean, CardsAreReplayed
  <2>5. CASE /\ slack_rest < slack_committed /\ slack_appended' = slack_committed
            /\ slack_pc' = Slack!Done
             /\ slack_buffer' = slack_buffer \o Slack!Pieces(slack_rest, slack_committed)
             /\ UNCHANGED <<slack_flushed, slack_age, slack_slack, slack_rendered, slack_mode,
                   slack_faults>>
    <3>1. Slack!Pieces(slack_flushed, slack_rest) \o Slack!Pieces(slack_rest,
              slack_committed) = Slack!Pieces(slack_flushed, slack_committed)
      <4>1. slack_flushed \in Nat /\ slack_rest \in Nat /\ slack_committed \in Nat
                /\ slack_flushed <= slack_rest /\ slack_rest <= slack_committed
        BY <2>1, <2>5
      <4>2. QED
        BY <4>1, PiecesJoin
    <3>2. slack_buffer' = Slack!Pieces(slack_flushed, slack_committed)
      BY <2>1, <2>5, <3>1
    <3>3. QED
      BY <2>1, <2>2, <2>3, <2>5, <3>2 DEF TextIsKept, FallbackIsClean, CardsAreReplayed
  <2>6. CASE /\ slack_rest < slack_committed /\ slack_appended' = slack_committed
            /\ slack_flushed' = slack_committed /\ slack_pc' = Slack!Done
             /\ Slack!Delivered(Slack!Pieces(slack_rest, slack_committed)) /\ UNCHANGED slack_mode
    <3>1. /\ slack_slack' = Slack!Pieces(0, slack_committed) /\ slack_buffer' = << >>
          /\ slack_rendered' /\ slack_age' # "unstarted"
          /\ slack_age' \in {slack_age, "young"}
      BY <2>1, <2>6, DeliveredAdds
    <3>2. Slack!Pieces(slack_committed, slack_committed) = << >>
      BY NoPieces
    <3>3. QED
      BY <2>1, <2>2, <2>3, <2>6, <3>1, <3>2 DEF TextIsKept, FallbackIsClean,
      CardsAreReplayed
  <2>7. CASE /\ IF slack_rendered THEN slack_pc' = "raised" /\ UNCHANGED slack_mode
                            ELSE slack_pc' = "flushing" /\ slack_mode' = "fallback"
             /\ UNCHANGED <<slack_appended, slack_flushed, slack_age, slack_buffer,
                   slack_slack, slack_rendered>>
    BY <1>7, <2>1, <2>2, <2>7 DEF Slack!AppendText, TextIsKept, FallbackIsClean,
                                  CardsAreReplayed
  <2>8. QED
    BY <1>7, <2>4, <2>5, <2>6, <2>7 DEF Slack!AppendText
<1>8. CASE Slack!Bound
  <2>1. SegmentTypes'
    BY <1>8 DEF Slack!Bound
  <2>2. TextIsKept'
    BY <1>8 DEF Slack!Bound, TextIsKept
  <2>3. FallbackIsClean' /\ CardsAreReplayed'
    BY <1>8 DEF Slack!Bound, FallbackIsClean, CardsAreReplayed, Slack!RotationDue
  <2>4. QED
    BY <2>1, <2>2, <2>3
<1>9. CASE Slack!SendCard
  <2>1. /\ slack_mode = "native" /\ slack_flushed <= slack_appended
        /\ slack_committed = slack_appended
        /\ slack_slack = Slack!Pieces(0, slack_flushed)
        /\ slack_buffer = Slack!Pieces(slack_flushed, slack_appended)
    BY <1>9 DEF Slack!SendCard, TextIsKept, FallbackIsClean
  <2>2. CASE slack_structured' = FALSE /\ UNCHANGED <<slack_flushed, Slack!seg, slack_open,
            slack_stray, slack_slack, slack_rendered>>
    BY <1>9, <2>1, <2>2 DEF Slack!SendCard, TextIsKept, FallbackIsClean, CardsAreReplayed
  <2>3. CASE /\ Slack!Delivered(<<>>) /\ slack_flushed' = slack_appended
             /\ slack_cards' = slack_cards \cup {slack_card}
             /\ slack_open' \in {slack_open \cup {slack_card}, slack_open \ {slack_card}}
             /\ slack_stray' = IF slack_card \in slack_open \ slack_cards
                                 THEN slack_stray \cup {slack_card} ELSE slack_stray
             /\ UNCHANGED slack_structured
    <3>1. Slack!Pieces(slack_appended, slack_appended) = << >>
      BY NoPieces
    <3>2. /\ slack_slack' = Slack!Pieces(0, slack_appended) /\ slack_buffer' = << >>
          /\ slack_rendered' /\ slack_age' # "unstarted"
          /\ slack_age' \in {slack_age, "young"}
      BY <2>1, <2>3, <3>1, DeliveredAdds
    <3>3. CardsAreReplayed'
      BY <1>9, <2>3 DEF Slack!SendCard, CardsAreReplayed
    <3>4. QED
      BY <1>9, <2>1, <2>3, <3>1, <3>2, <3>3 DEF Slack!SendCard, TextIsKept, FallbackIsClean
  <2>4. QED
    BY <1>9, <2>2, <2>3 DEF Slack!SendCard
<1>10. CASE Slack!FlushFallback
  BY <1>10, NoPieces DEF Slack!FlushFallback, TextIsKept, FallbackIsClean, CardsAreReplayed
<1>11. CASE Slack!Stop
  <2>1. /\ slack_mode = "native" /\ slack_flushed <= slack_appended
        /\ slack_committed = slack_appended
        /\ slack_slack = Slack!Pieces(0, slack_flushed)
        /\ slack_buffer = Slack!Pieces(slack_flushed, slack_appended)
    BY <1>11 DEF Slack!Stop, TextIsKept, FallbackIsClean
  <2>2. Slack!Pieces(0, slack_flushed) \o Slack!Pieces(slack_flushed,
            slack_appended) = Slack!Pieces(0, slack_appended)
    <3>1. 0 \in Nat /\ slack_flushed \in Nat /\ slack_appended \in Nat /\ 0 <= slack_flushed
              /\ slack_flushed <= slack_appended
      BY <2>1
    <3>2. QED
      BY <3>1, PiecesJoin
  <2>3. CASE slack_pc' = "returned" /\ UNCHANGED slack_mode
    <3>1. slack_slack' = Slack!Pieces(0, slack_committed)
      BY <1>11, <2>1, <2>2, <2>3 DEF Slack!Stop
    <3>2. QED
      BY <1>11, <2>1, <2>3, <3>1 DEF Slack!Stop, TextIsKept, FallbackIsClean,
                                     CardsAreReplayed
  <2>4. CASE slack_pc' # "returned" /\ UNCHANGED slack_slack
    BY <1>11, <2>1, <2>4 DEF Slack!Stop, TextIsKept, FallbackIsClean, CardsAreReplayed
  <2>5. QED
    BY <1>11, <2>3, <2>4 DEF Slack!Stop
<1>12. CASE UNCHANGED Slack!vars
  BY <1>12 DEF Slack!vars, TextIsKept, FallbackIsClean, CardsAreReplayed
<1>13. QED
  BY <1>1, <1>2, <1>3, <1>4, <1>5, <1>6, <1>7, <1>8, <1>9, <1>10, <1>11, <1>12
     DEF Slack!Next, Slack!TaskStep

\* What the inductive invariant is for.
LEMMA SegmentsReadAsOne == SegmentInv => Slack!ReplyReadsAsOne
<1> SUFFICES ASSUME SegmentInv PROVE Slack!ReplyReadsAsOne
  OBVIOUS
<1> USE DEF SegmentInv, SegmentTypes, Slack!Over
<1>1. \A n \in Nat : Len(Slack!Pieces(0, n)) = n
  BY PiecesLength
<1>2. PICK n \in Nat : slack_slack = Slack!Pieces(0, n)
  BY NoPieces DEF TextIsKept, FallbackIsClean
<1>3. Slack!SlackInOrder
  BY <1>1, <1>2 DEF Slack!SlackInOrder
<1>4. Slack!ReturnedIsWhole
  BY <1>1 DEF Slack!ReturnedIsWhole, TextIsKept, FallbackIsClean
<1>5. Slack!CardsStayTogether
  BY DEF Slack!CardsStayTogether, CardsAreReplayed
<1>6. QED
  BY <1>3, <1>4, <1>5 DEF Slack!ReplyReadsAsOne

\* The part of the run that is Slack's native stream: the others leave it alone.
LEMMA SlackReplyOfTheRun ==
    StreamsSpec => Slack!Init /\ [][Slack!Next]_Slack!vars
<1>1. StreamsInit => Slack!Init
  BY DEF StreamsInit
<1>2. [StreamsNext]_<<path, vars, planVars, slackVars, mdVars, linearVars, teamsVars, tgVars>>
          => [Slack!Next]_Slack!vars
  BY DEF StreamsNext, slackVars, Slack!vars, Slack!text, Slack!seg, Slack!chunk, Slack!reply
<1>3. QED
  BY <1>1, <1>2, PTL DEF StreamsSpec

\* However long a reply is, wherever its segments are cut, expire or are refused: its
\* messages read as one, whole when it returned, and cards are updated where they are.
THEOREM SegmentsMakeOneReply == StreamsSpec => []ReplyReadsAsOne
<1>1. SegmentInv => ReplyReadsAsOne
  BY SegmentsReadAsOne DEF ReplyReadsAsOne
<1>2. QED
  BY <1>1, SlackReplyOfTheRun, SegmentInit, SegmentStep, PTL

-----------------------------------------------------------------------------
\* The replies of a Teams chat

\* Where a reply is that the turn belongs to, before it does, and while it streams.
Active == {"handling", "emitting", "waiting", "settling", "posting", "over"}
Early == {"none", "arriving", "queued", "dropped"}
Streaming == {"emitting", "waiting", "settling"}

ReplyTypes ==
    /\ teams_hook \in [Message -> {"none", "open", "closing", "closed"}]
    /\ teams_reply \in [Message -> Active \cup Early \cup {"done"}]
    /\ teams_turn \in Message \cup {Nobody} /\ teams_registry \in Message \cup {Nobody}
    /\ teams_by \in [Message -> Message \cup {Nobody}]
    /\ teams_via \in [Message -> Message \cup {Nobody}]
    /\ teams_posted \subseteq Message

ChunkTypes ==
    /\ teams_emitted \in [Message -> Nat]
    /\ teams_queue \in [Message -> SUBSET (Message \X Nat)]
    /\ teams_flight \in [Message -> SUBSET (Message \X Nat)]
    /\ teams_shown \subseteq Message \X Nat

StreamerTypes ==
    /\ teams_captured \in [Message -> BOOLEAN] /\ teams_dead \in [Message -> BOOLEAN]
    /\ teams_canceled \in [Message -> BOOLEAN] /\ teams_final \in [Message -> BOOLEAN]

\* One reply at a time is handled, by the task that has the turn, whose webhook waits
\* for it; only a reply that was begun has a streamer, and chunks.
TurnsAreTaken ==
    /\ \A m \in Message :
           /\ teams_reply[m] \in Active => teams_turn # Nobody /\ teams_by[m] = teams_turn
           /\ teams_reply[m] = "none" <=> teams_hook[m] = "none"
           /\ teams_reply[m] = "arriving" => teams_hook[m] = "open"
           /\ teams_reply[m] \in Early => teams_by[m] = Nobody
           /\ teams_reply[m] \in Early \cup {"handling"} =>
                 teams_via[m] = Nobody /\ teams_emitted[m] = 0
           /\ teams_reply[m] \in Streaming => teams_via[m] # Nobody
           /\ teams_reply[m] = "posting" /\ teams_via[m] = Nobody => teams_emitted[m] = 0
           /\ teams_turn = m => teams_hook[m] = "open"
    /\ \A m, n \in Message : teams_reply[m] \in Active /\ teams_reply[n] \in Active => m = n

\* A streamer that was closed is not registered any more and has nothing left to send;
\* nobody closes that of a reply which its own task streams.
StreamersAreOpen ==
    /\ teams_registry # Nobody => teams_hook[teams_registry] = "open"
          /\ ~teams_final[teams_registry]
    /\ \A s \in Message : teams_final[s] => teams_queue[s] = {} /\ teams_flight[s] = {}
          /\ teams_hook[s] # "none"
    /\ \A m \in Message :
           teams_via[m] # Nobody => teams_hook[teams_via[m]] # "none"
    /\ \A m \in Message :
           teams_by[m] = m /\ teams_via[m] = m /\ teams_reply[m] \in Streaming => ~teams_final[m]

\* Chunks are where their reply put them, and a streamer that shows one has its id.
ChunksAreKnown ==
    /\ \A s, n \in Message, i \in Nat :
           <<n, i>> \in teams_queue[s] \/ <<n, i>> \in teams_flight[s] =>
                 teams_via[n] = s /\ i <= teams_emitted[n]
    /\ \A n \in Message, i \in Nat :
           <<n, i>> \in teams_shown => teams_via[n] \in Message
                 /\ teams_captured[teams_via[n]] /\ i <= teams_emitted[n]

\* A reply that is posted, or about to be, has left nothing that may be shown.
PostedIsSafe ==
    \A m \in Message : teams_reply[m] = "posting" \/ m \in teams_posted =>
        /\ teams_reply[m] \in {"posting", "over", "done"}
        /\ \A i \in Nat :
               /\ <<m, i>> \notin teams_shown
               /\ \A s \in Message :
                      /\ <<m, i>> \notin teams_flight[s]
                      /\ <<m, i>> \in teams_queue[s] => teams_dead[s]

\* No chunk of a reply gets lost before its streamer breaks; one that was given up
\* without a post had begun to show, or a flush of it was too slow to wait for.
ReplyIsKept ==
    \A m \in Message : teams_by[m] = m /\ teams_via[m] = m /\ ~teams_canceled[m] =>
        /\ teams_dead[m] \/ \A i \in 1..teams_emitted[m] : <<m,
              i>> \in teams_shown \cup teams_queue[m] \cup teams_flight[m]
        /\ teams_reply[m] \in {"over", "done"} =>
               teams_emitted[m] = 0 \/ teams_captured[m] \/ m \in teams_givenUp
                     \/ m \in teams_posted
        /\ teams_hook[m] = "closed" => teams_final[m] \/ teams_dead[m] \/ m \in teams_givenUp

RepliesInv ==
    /\ ReplyTypes /\ ChunkTypes /\ StreamerTypes /\ TurnsAreTaken /\ StreamersAreOpen
    /\ ChunksAreKnown /\ PostedIsSafe
    /\ ReplyIsKept

LEMMA RepliesInit == Teams!Init => RepliesInv
<1> SUFFICES ASSUME Teams!Init PROVE RepliesInv
  OBVIOUS
<1> USE StreamsAssumption DEF Teams!Init, Active, Early, Streaming
<1>1. ReplyTypes /\ ChunkTypes /\ StreamerTypes
  BY DEF ReplyTypes, ChunkTypes, StreamerTypes
<1>2. TurnsAreTaken /\ StreamersAreOpen
  BY DEF TurnsAreTaken, StreamersAreOpen
<1>3. ChunksAreKnown /\ PostedIsSafe
  BY DEF ChunksAreKnown, PostedIsSafe
<1>4. ReplyIsKept
  BY DEF ReplyIsKept
<1>5. QED
  BY <1>1, <1>2, <1>3, <1>4 DEF RepliesInv

\* What closing a streamer does to it.
LEMMA Finishes ==
    ASSUME RepliesInv, NEW s \in Message, Teams!Finish(s)
    PROVE  \/ teams_final[s] /\ UNCHANGED Teams!sdk
           \/ /\ teams_flight[s] = {} /\ ~teams_dead[s] /\ ~teams_canceled[s]
              /\ teams_final' = [teams_final EXCEPT ![s] = TRUE]
              /\ teams_shown' = teams_shown \cup teams_queue[s]
              /\ teams_captured' = [teams_captured EXCEPT ![s] = teams_captured[s]
                    \/ teams_queue[s] # {}]
              /\ teams_queue' = [teams_queue EXCEPT ![s] = {}]
              /\ UNCHANGED <<teams_dead, teams_givenUp, teams_flight, teams_canceled>>
           \/ /\ teams_flight[s] = {} /\ ~teams_dead[s] /\ ~teams_canceled[s]
              /\ teams_dead' = [teams_dead EXCEPT ![s] = TRUE]
              /\ UNCHANGED <<teams_shown, teams_captured, teams_queue, teams_final,
                    teams_givenUp, teams_flight, teams_canceled>>
           \/ /\ teams_flight[s] # {} \/ teams_dead[s] \/ teams_canceled[s]
              /\ teams_givenUp' = IF teams_flight[s] = {}
                                    THEN teams_givenUp ELSE teams_givenUp \cup {s}
              /\ UNCHANGED <<teams_shown, teams_captured, teams_queue, teams_dead, teams_final,
                    teams_flight, teams_canceled>>
BY DEF Teams!Finish, Teams!Finalize, Teams!sdk

\* Each step keeps each part.
LEMMA RepliesStep == RepliesInv /\ [Teams!Next]_Teams!vars => RepliesInv'
<1> SUFFICES ASSUME RepliesInv, [Teams!Next]_Teams!vars PROVE RepliesInv'
  OBVIOUS
<1> USE StreamsAssumption DEF RepliesInv, Active, Early, Streaming, Teams!sdk, Teams!hooks,
                            Teams!tasks, Teams!Go, Teams!Forget
<1>1. ASSUME NEW m \in Message, Teams!Arrive(m)
      PROVE  RepliesInv'
  <2>1. ReplyTypes'
    BY <1>1 DEF Teams!Arrive, ReplyTypes
  <2>2. ChunkTypes'
    BY <1>1 DEF Teams!Arrive, ChunkTypes, ReplyTypes
  <2>3. StreamerTypes'
    BY <1>1 DEF Teams!Arrive, StreamerTypes
  <2>4. TurnsAreTaken'
    BY <1>1 DEF Teams!Arrive, TurnsAreTaken, ReplyTypes, ChunkTypes
  <2>5. StreamersAreOpen'
    BY <1>1 DEF Teams!Arrive, StreamersAreOpen, ReplyTypes, ChunkTypes, StreamerTypes,
                TurnsAreTaken
  <2>6. ChunksAreKnown'
    BY <1>1 DEF Teams!Arrive, ChunksAreKnown, ReplyTypes, ChunkTypes, TurnsAreTaken
  <2>7. PostedIsSafe'
    BY <1>1 DEF Teams!Arrive, PostedIsSafe, ReplyTypes, ChunkTypes, StreamerTypes,
                TurnsAreTaken
  <2>8. ReplyIsKept'
    BY <1>1 DEF Teams!Arrive, ReplyIsKept, ReplyTypes, ChunkTypes, StreamerTypes,
                TurnsAreTaken
  <2>9. QED
    BY <2>1, <2>2, <2>3, <2>4, <2>5, <2>6, <2>7, <2>8
<1>2. ASSUME NEW m \in Message, Teams!Flush(m)
      PROVE  RepliesInv'
  <2>1. ReplyTypes'
    BY <1>2 DEF Teams!Flush, ReplyTypes
  <2>2. ChunkTypes'
    BY <1>2 DEF Teams!Flush, ChunkTypes, ReplyTypes
  <2>3. StreamerTypes'
    BY <1>2 DEF Teams!Flush, StreamerTypes
  <2>4. TurnsAreTaken'
    BY <1>2 DEF Teams!Flush, TurnsAreTaken, ReplyTypes, ChunkTypes
  <2>5. StreamersAreOpen'
    BY <1>2 DEF Teams!Flush, StreamersAreOpen, ReplyTypes, ChunkTypes, StreamerTypes,
                TurnsAreTaken
  <2>6. ChunksAreKnown'
    BY <1>2 DEF Teams!Flush, ChunksAreKnown, ReplyTypes, ChunkTypes, TurnsAreTaken
  <2>7. PostedIsSafe'
    BY <1>2 DEF Teams!Flush, PostedIsSafe, ReplyTypes, ChunkTypes, StreamerTypes,
                TurnsAreTaken
  <2>8. ReplyIsKept'
    BY <1>2 DEF Teams!Flush, ReplyIsKept, ReplyTypes, ChunkTypes, StreamerTypes,
                TurnsAreTaken
  <2>9. QED
    BY <2>1, <2>2, <2>3, <2>4, <2>5, <2>6, <2>7, <2>8
<1>3. ASSUME NEW m \in Message, Teams!Land(m)
      PROVE  RepliesInv'
  <2>1. ReplyTypes'
    BY <1>3 DEF Teams!Land, ReplyTypes
  <2>2. ChunkTypes'
    BY <1>3 DEF Teams!Land, ChunkTypes, ReplyTypes
  <2>3. StreamerTypes'
    BY <1>3 DEF Teams!Land, StreamerTypes
  <2>4. TurnsAreTaken'
    BY <1>3 DEF Teams!Land, TurnsAreTaken, ReplyTypes, ChunkTypes
  <2>5. StreamersAreOpen'
    BY <1>3 DEF Teams!Land, StreamersAreOpen, ReplyTypes, ChunkTypes, StreamerTypes,
                TurnsAreTaken
  <2>6. ChunksAreKnown'
    <3>1. /\ teams_captured'[m] /\ \A t \in Message : teams_captured[t] => teams_captured'[t]
          /\ \A t \in Message : teams_flight'[t] = IF t = m THEN {} ELSE teams_flight[t]
          /\ teams_shown' = teams_shown \cup teams_flight[m]
          /\ UNCHANGED <<teams_queue, teams_via, teams_emitted>>
      BY <1>3 DEF Teams!Land, ChunkTypes, StreamerTypes
    <3>2. QED
      BY <3>1 DEF ChunksAreKnown
  <2>7. PostedIsSafe'
    BY <1>3 DEF Teams!Land, PostedIsSafe, ReplyTypes, ChunkTypes, StreamerTypes,
                TurnsAreTaken
  <2>8. ReplyIsKept'
    BY <1>3 DEF Teams!Land, ReplyIsKept, ReplyTypes, ChunkTypes, StreamerTypes,
                TurnsAreTaken
  <2>9. QED
    BY <2>1, <2>2, <2>3, <2>4, <2>5, <2>6, <2>7, <2>8
<1>4. ASSUME NEW m \in Message, Teams!Refuse(m)
      PROVE  RepliesInv'
  <2>1. ReplyTypes'
    BY <1>4 DEF Teams!Refuse, ReplyTypes
  <2>2. ChunkTypes'
    BY <1>4 DEF Teams!Refuse, ChunkTypes, ReplyTypes
  <2>3. StreamerTypes'
    BY <1>4 DEF Teams!Refuse, StreamerTypes
  <2>4. TurnsAreTaken'
    BY <1>4 DEF Teams!Refuse, TurnsAreTaken, ReplyTypes, ChunkTypes
  <2>5. StreamersAreOpen'
    BY <1>4 DEF Teams!Refuse, StreamersAreOpen, ReplyTypes, ChunkTypes, StreamerTypes,
                TurnsAreTaken
  <2>6. ChunksAreKnown'
    BY <1>4 DEF Teams!Refuse, ChunksAreKnown, ReplyTypes, ChunkTypes, TurnsAreTaken
  <2>7. PostedIsSafe'
    BY <1>4 DEF Teams!Refuse, PostedIsSafe, ReplyTypes, ChunkTypes, StreamerTypes,
                TurnsAreTaken
  <2>8. ReplyIsKept'
    BY <1>4 DEF Teams!Refuse, ReplyIsKept, ReplyTypes, ChunkTypes, StreamerTypes,
                TurnsAreTaken
  <2>9. QED
    BY <2>1, <2>2, <2>3, <2>4, <2>5, <2>6, <2>7, <2>8
<1>5. ASSUME NEW m \in Message, Teams!Admit(m)
      PROVE  RepliesInv'
  <2>1. ReplyTypes'
    BY <1>5 DEF Teams!Admit, ReplyTypes
  <2>2. ChunkTypes'
    BY <1>5 DEF Teams!Admit, ChunkTypes, ReplyTypes
  <2>3. StreamerTypes'
    BY <1>5 DEF Teams!Admit, StreamerTypes
  <2>4. TurnsAreTaken'
    BY <1>5 DEF Teams!Admit, TurnsAreTaken, ReplyTypes, ChunkTypes
  <2>5. StreamersAreOpen'
    BY <1>5 DEF Teams!Admit, StreamersAreOpen, ReplyTypes, ChunkTypes, StreamerTypes,
                TurnsAreTaken
  <2>6. ChunksAreKnown'
    BY <1>5 DEF Teams!Admit, ChunksAreKnown, ReplyTypes, ChunkTypes, TurnsAreTaken
  <2>7. PostedIsSafe'
    BY <1>5 DEF Teams!Admit, PostedIsSafe, ReplyTypes, ChunkTypes, StreamerTypes,
                TurnsAreTaken
  <2>8. ReplyIsKept'
    BY <1>5 DEF Teams!Admit, ReplyIsKept, ReplyTypes, ChunkTypes, StreamerTypes,
                TurnsAreTaken
  <2>9. QED
    BY <2>1, <2>2, <2>3, <2>4, <2>5, <2>6, <2>7, <2>8
<1>6. ASSUME NEW m \in Message, Teams!Reply(m)
      PROVE  RepliesInv'
  <2>1. ReplyTypes'
    BY <1>6 DEF Teams!Reply, ReplyTypes
  <2>2. ChunkTypes'
    BY <1>6 DEF Teams!Reply, ChunkTypes, ReplyTypes
  <2>3. StreamerTypes'
    BY <1>6 DEF Teams!Reply, StreamerTypes
  <2>4. TurnsAreTaken'
    BY <1>6 DEF Teams!Reply, TurnsAreTaken, ReplyTypes, ChunkTypes
  <2>5. StreamersAreOpen'
    BY <1>6 DEF Teams!Reply, StreamersAreOpen, ReplyTypes, ChunkTypes, StreamerTypes,
                TurnsAreTaken
  <2>6. ChunksAreKnown'
    BY <1>6 DEF Teams!Reply, ChunksAreKnown, ReplyTypes, ChunkTypes, TurnsAreTaken
  <2>7. PostedIsSafe'
    <3>1. \A i \in Nat : <<m, i>> \notin teams_shown
              /\ \A t \in Message : <<m, i>> \notin teams_queue[t] \cup teams_flight[t]
      BY <1>6 DEF Teams!Reply, ChunksAreKnown, TurnsAreTaken
    <3>2. \A n \in Message : n # m => teams_reply'[n] = teams_reply[n]
      BY <1>6 DEF Teams!Reply, ReplyTypes
    <3>3. QED
      BY <1>6, <3>1, <3>2 DEF Teams!Reply, PostedIsSafe
  <2>8. ReplyIsKept'
    BY <1>6 DEF Teams!Reply, ReplyIsKept, ReplyTypes, ChunkTypes, StreamerTypes,
                TurnsAreTaken
  <2>9. QED
    BY <2>1, <2>2, <2>3, <2>4, <2>5, <2>6, <2>7, <2>8
<1>7. ASSUME NEW m \in Message, Teams!Emit(m)
      PROVE  RepliesInv'
  <2>1. ReplyTypes'
    BY <1>7 DEF Teams!Emit, ReplyTypes
  <2>2. ChunkTypes'
    <3>1. teams_via[m] \in Message /\ teams_emitted[m] \in Nat /\ teams_emitted[m] + 1 \in Nat
      BY <1>7 DEF Teams!Emit, ChunkTypes, ReplyTypes, TurnsAreTaken
    <3>2. <<m, teams_emitted[m] + 1>> \in Message \X Nat
      BY <3>1
    <3>3. teams_emitted' \in [Message -> Nat]
      BY <1>7, <3>1 DEF Teams!Emit, ChunkTypes
    <3>4. teams_queue' \in [Message -> SUBSET (Message \X Nat)]
      BY <1>7, <3>1, <3>2 DEF Teams!Emit, ChunkTypes
    <3>5. QED
      BY <1>7, <3>3, <3>4 DEF Teams!Emit, ChunkTypes
  <2>3. StreamerTypes'
    BY <1>7 DEF Teams!Emit, StreamerTypes
  <2>4. TurnsAreTaken'
    BY <1>7 DEF Teams!Emit, TurnsAreTaken, ReplyTypes, ChunkTypes
  <2>5. StreamersAreOpen'
    BY <1>7 DEF Teams!Emit, StreamersAreOpen, ReplyTypes, ChunkTypes, StreamerTypes,
                TurnsAreTaken
  <2>6. ChunksAreKnown'
    BY <1>7 DEF Teams!Emit, ChunksAreKnown, ReplyTypes, ChunkTypes, TurnsAreTaken
  <2>7. PostedIsSafe'
    BY <1>7 DEF Teams!Emit, PostedIsSafe, ReplyTypes, ChunkTypes, StreamerTypes,
                TurnsAreTaken
  <2>8. ReplyIsKept'
    <3>1. /\ teams_emitted[m] \in Nat
          /\ \A n \in Message : teams_emitted'[n] = IF n = m
                                                      THEN teams_emitted[m] + 1 ELSE teams_emitted[n]
      BY <1>7 DEF Teams!Emit, ChunkTypes
    <3>2. \A t \in Message : teams_queue[t] \subseteq teams_queue'[t]
      BY <1>7 DEF Teams!Emit, ChunkTypes
    <3>3. teams_via[m] = m /\ teams_by[m] = m => <<m, teams_emitted[m] + 1>> \in teams_queue'[m]
      BY <1>7 DEF Teams!Emit, ChunkTypes, StreamersAreOpen
    <3>4. \A i \in 1..(teams_emitted[m] + 1) : i \in 1..teams_emitted[m] \/ i = teams_emitted[m] + 1
      BY <3>1
    <3>5. ASSUME NEW n \in Message, teams_by[n] = n, teams_via[n] = n, ~teams_canceled[n],
              ~teams_dead[n],
                 NEW i \in 1..teams_emitted'[n]
          PROVE  <<n, i>> \in teams_shown \cup teams_queue'[n] \cup teams_flight[n]
      <4>1. CASE n # m
        <5>1. i \in 1..teams_emitted[n]
          BY <3>1, <3>5, <4>1
        <5>2. QED
          BY <3>2, <3>5, <5>1 DEF ReplyIsKept
      <4>2. CASE n = m
        <5>1. i \in 1..(teams_emitted[m] + 1)
          BY <3>1, <3>5, <4>2
        <5>2. QED
          BY <3>2, <3>3, <3>4, <3>5, <4>2, <5>1 DEF ReplyIsKept
      <4>3. QED
        BY <4>1, <4>2
    <3>6. UNCHANGED <<teams_by, teams_via, teams_canceled, teams_dead, teams_captured,
              teams_final, teams_shown, teams_flight, teams_givenUp, teams_posted, teams_hook,
                    teams_reply>>
      BY <1>7 DEF Teams!Emit
    <3>7. teams_reply[m] = "emitting"
      BY <1>7 DEF Teams!Emit
    <3>8. \A n \in Message : teams_reply[n] \in {"over", "done"} =>
              teams_emitted'[n] = teams_emitted[n]
      BY <3>1, <3>7
    <3>9. QED
      BY <3>5, <3>6, <3>8 DEF ReplyIsKept
  <2>9. QED
    BY <2>1, <2>2, <2>3, <2>4, <2>5, <2>6, <2>7, <2>8
<1>8. ASSUME NEW m \in Message, Teams!EndOfReply(m)
      PROVE  RepliesInv'
  <2>1. ReplyTypes'
    BY <1>8 DEF Teams!EndOfReply, ReplyTypes
  <2>2. ChunkTypes'
    BY <1>8 DEF Teams!EndOfReply, ChunkTypes, ReplyTypes
  <2>3. StreamerTypes'
    BY <1>8 DEF Teams!EndOfReply, StreamerTypes
  <2>4. TurnsAreTaken'
    BY <1>8 DEF Teams!EndOfReply, TurnsAreTaken, ReplyTypes, ChunkTypes
  <2>5. StreamersAreOpen'
    BY <1>8 DEF Teams!EndOfReply, StreamersAreOpen, ReplyTypes, ChunkTypes,
                StreamerTypes, TurnsAreTaken
  <2>6. ChunksAreKnown'
    BY <1>8 DEF Teams!EndOfReply, ChunksAreKnown, ReplyTypes, ChunkTypes, TurnsAreTaken
  <2>7. PostedIsSafe'
    BY <1>8 DEF Teams!EndOfReply, PostedIsSafe, ReplyTypes, ChunkTypes, StreamerTypes,
                TurnsAreTaken
  <2>8. ReplyIsKept'
    BY <1>8 DEF Teams!EndOfReply, ReplyIsKept, ReplyTypes, ChunkTypes, StreamerTypes,
                TurnsAreTaken
  <2>9. QED
    BY <2>1, <2>2, <2>3, <2>4, <2>5, <2>6, <2>7, <2>8
<1>9. ASSUME NEW m \in Message, Teams!Confirm(m)
      PROVE  RepliesInv'
  <2>1. ReplyTypes'
    BY <1>9 DEF Teams!Confirm, ReplyTypes
  <2>2. ChunkTypes'
    BY <1>9 DEF Teams!Confirm, ChunkTypes, ReplyTypes
  <2>3. StreamerTypes'
    BY <1>9 DEF Teams!Confirm, StreamerTypes
  <2>4. TurnsAreTaken'
    BY <1>9 DEF Teams!Confirm, TurnsAreTaken, ReplyTypes, ChunkTypes
  <2>5. StreamersAreOpen'
    BY <1>9 DEF Teams!Confirm, StreamersAreOpen, ReplyTypes, ChunkTypes, StreamerTypes,
                TurnsAreTaken
  <2>6. ChunksAreKnown'
    BY <1>9 DEF Teams!Confirm, ChunksAreKnown, ReplyTypes, ChunkTypes, TurnsAreTaken
  <2>7. PostedIsSafe'
    BY <1>9 DEF Teams!Confirm, PostedIsSafe, ReplyTypes, ChunkTypes, StreamerTypes,
                TurnsAreTaken
  <2>8. ReplyIsKept'
    BY <1>9 DEF Teams!Confirm, ReplyIsKept, ReplyTypes, ChunkTypes, StreamerTypes,
                TurnsAreTaken
  <2>9. QED
    BY <2>1, <2>2, <2>3, <2>4, <2>5, <2>6, <2>7, <2>8
<1>10. ASSUME NEW m \in Message, Teams!Post(m)
      PROVE  RepliesInv'
  <2>1. ReplyTypes'
    BY <1>10 DEF Teams!Post, ReplyTypes
  <2>2. ChunkTypes'
    BY <1>10 DEF Teams!Post, ChunkTypes, ReplyTypes
  <2>3. StreamerTypes'
    BY <1>10 DEF Teams!Post, StreamerTypes
  <2>4. TurnsAreTaken'
    BY <1>10 DEF Teams!Post, TurnsAreTaken, ReplyTypes, ChunkTypes
  <2>5. StreamersAreOpen'
    BY <1>10 DEF Teams!Post, StreamersAreOpen, ReplyTypes, ChunkTypes, StreamerTypes,
                 TurnsAreTaken
  <2>6. ChunksAreKnown'
    BY <1>10 DEF Teams!Post, ChunksAreKnown, ReplyTypes, ChunkTypes, TurnsAreTaken
  <2>7. PostedIsSafe'
    BY <1>10 DEF Teams!Post, PostedIsSafe, ReplyTypes, ChunkTypes, StreamerTypes,
                 TurnsAreTaken
  <2>8. ReplyIsKept'
    BY <1>10 DEF Teams!Post, ReplyIsKept, ReplyTypes, ChunkTypes, StreamerTypes,
                 TurnsAreTaken
  <2>9. QED
    BY <2>1, <2>2, <2>3, <2>4, <2>5, <2>6, <2>7, <2>8
<1>11. ASSUME NEW m \in Message, Teams!Return(m)
      PROVE  RepliesInv'
  <2>1. ReplyTypes'
    BY <1>11 DEF Teams!Return, ReplyTypes
  <2>2. ChunkTypes'
    BY <1>11 DEF Teams!Return, ChunkTypes, ReplyTypes
  <2>3. StreamerTypes'
    BY <1>11 DEF Teams!Return, StreamerTypes
  <2>4. TurnsAreTaken'
    BY <1>11 DEF Teams!Return, TurnsAreTaken, ReplyTypes, ChunkTypes
  <2>5. StreamersAreOpen'
    BY <1>11 DEF Teams!Return, StreamersAreOpen, ReplyTypes, ChunkTypes, StreamerTypes,
                 TurnsAreTaken
  <2>6. ChunksAreKnown'
    BY <1>11 DEF Teams!Return, ChunksAreKnown, ReplyTypes, ChunkTypes, TurnsAreTaken
  <2>7. PostedIsSafe'
    BY <1>11 DEF Teams!Return, PostedIsSafe, ReplyTypes, ChunkTypes, StreamerTypes,
                 TurnsAreTaken
  <2>8. ReplyIsKept'
    BY <1>11 DEF Teams!Return, ReplyIsKept, ReplyTypes, ChunkTypes, StreamerTypes,
                 TurnsAreTaken
  <2>9. QED
    BY <2>1, <2>2, <2>3, <2>4, <2>5, <2>6, <2>7, <2>8
<1>12. ASSUME NEW m \in Message, Teams!Withdraw(m)
      PROVE  RepliesInv'
  <2>1. ReplyTypes'
    BY <1>12 DEF Teams!Withdraw, ReplyTypes
  <2>2. ChunkTypes'
    BY <1>12 DEF Teams!Withdraw, ChunkTypes, ReplyTypes
  <2>3. StreamerTypes'
    BY <1>12 DEF Teams!Withdraw, StreamerTypes
  <2>4. TurnsAreTaken'
    BY <1>12 DEF Teams!Withdraw, TurnsAreTaken, ReplyTypes, ChunkTypes
  <2>5. StreamersAreOpen'
    BY <1>12 DEF Teams!Withdraw, StreamersAreOpen, ReplyTypes, ChunkTypes, StreamerTypes,
                 TurnsAreTaken
  <2>6. ChunksAreKnown'
    BY <1>12 DEF Teams!Withdraw, ChunksAreKnown, ReplyTypes, ChunkTypes, TurnsAreTaken
  <2>7. PostedIsSafe'
    BY <1>12 DEF Teams!Withdraw, PostedIsSafe, ReplyTypes, ChunkTypes, StreamerTypes,
                 TurnsAreTaken
  <2>8. ReplyIsKept'
    BY <1>12 DEF Teams!Withdraw, ReplyIsKept, ReplyTypes, ChunkTypes, StreamerTypes,
                 TurnsAreTaken
  <2>9. QED
    BY <2>1, <2>2, <2>3, <2>4, <2>5, <2>6, <2>7, <2>8
<1>13. ASSUME NEW m \in Message, Teams!Close(m)
      PROVE  RepliesInv'
  <2>1. teams_hook[m] = "closing" /\ teams_registry # m /\ teams_turn # m
    BY <1>13 DEF Teams!Close, TurnsAreTaken, StreamersAreOpen
  <2>2. CASE teams_final[m] /\ UNCHANGED Teams!sdk
    <3>1. ReplyTypes'
      BY <1>13, <2>1, <2>2 DEF Teams!Close, ReplyTypes
    <3>2. ChunkTypes'
      BY <1>13, <2>1, <2>2 DEF Teams!Close, ChunkTypes, ReplyTypes
    <3>3. StreamerTypes'
      BY <1>13, <2>1, <2>2 DEF Teams!Close, StreamerTypes
    <3>4. TurnsAreTaken'
      BY <1>13, <2>1, <2>2 DEF Teams!Close, TurnsAreTaken, ReplyTypes, ChunkTypes
    <3>5. StreamersAreOpen'
      BY <1>13, <2>1, <2>2 DEF Teams!Close, StreamersAreOpen, ReplyTypes, ChunkTypes,
                               StreamerTypes, TurnsAreTaken
    <3>6. ChunksAreKnown'
      BY <1>13, <2>1, <2>2 DEF Teams!Close, ChunksAreKnown, ReplyTypes, ChunkTypes,
                               TurnsAreTaken
    <3>7. PostedIsSafe'
      BY <1>13, <2>1, <2>2 DEF Teams!Close, PostedIsSafe, ReplyTypes, ChunkTypes,
                               StreamerTypes, TurnsAreTaken
    <3>8. ReplyIsKept'
      BY <1>13, <2>1, <2>2 DEF Teams!Close, ReplyIsKept, ReplyTypes, ChunkTypes,
                               StreamerTypes, TurnsAreTaken
    <3>9. QED
      BY <3>1, <3>2, <3>3, <3>4, <3>5, <3>6, <3>7, <3>8
  <2>3. CASE /\ teams_flight[m] = {} /\ ~teams_dead[m] /\ ~teams_canceled[m]
             /\ teams_final' = [teams_final EXCEPT ![m] = TRUE]
             /\ teams_shown' = teams_shown \cup teams_queue[m]
             /\ teams_captured' = [teams_captured EXCEPT ![m] = teams_captured[m]
                   \/ teams_queue[m] # {}]
             /\ teams_queue' = [teams_queue EXCEPT ![m] = {}]
             /\ UNCHANGED <<teams_dead, teams_givenUp, teams_flight, teams_canceled>>
    <3>1. ReplyTypes'
      BY <1>13, <2>1, <2>3 DEF Teams!Close, ReplyTypes
    <3>2. ChunkTypes'
      BY <1>13, <2>1, <2>3 DEF Teams!Close, ChunkTypes, ReplyTypes
    <3>3. StreamerTypes'
      BY <1>13, <2>1, <2>3 DEF Teams!Close, StreamerTypes
    <3>4. TurnsAreTaken'
      BY <1>13, <2>1, <2>3 DEF Teams!Close, TurnsAreTaken, ReplyTypes, ChunkTypes
    <3>5. StreamersAreOpen'
      BY <1>13, <2>1, <2>3 DEF Teams!Close, StreamersAreOpen, ReplyTypes, ChunkTypes,
                               StreamerTypes, TurnsAreTaken
    <3>6. ChunksAreKnown'
      <4>1. /\ \A t \in Message : teams_captured[t] => teams_captured'[t]
            /\ teams_queue[m] # {} => teams_captured'[m]
            /\ \A t \in Message : teams_queue'[t] = IF t = m THEN {} ELSE teams_queue[t]
        BY <2>1, <2>3 DEF ChunkTypes, StreamerTypes
      <4>2. UNCHANGED <<teams_flight, teams_via, teams_emitted>>
        BY <1>13, <2>3 DEF Teams!Close
      <4>3. \A n \in Message, i \in Nat : <<n, i>> \in teams_queue[m] =>
                teams_via[n] = m /\ teams_captured'[m] /\ i <= teams_emitted[n]
        BY <2>1, <4>1 DEF ChunksAreKnown
      <4>4. QED
        BY <2>1, <2>3, <4>1, <4>2, <4>3 DEF ChunksAreKnown
    <3>7. PostedIsSafe'
      BY <1>13, <2>1, <2>3 DEF Teams!Close, PostedIsSafe, ReplyTypes, ChunkTypes,
                               StreamerTypes, TurnsAreTaken
    <3>8. ReplyIsKept'
      BY <1>13, <2>1, <2>3 DEF Teams!Close, ReplyIsKept, ReplyTypes, ChunkTypes,
                               StreamerTypes, TurnsAreTaken
    <3>9. QED
      BY <3>1, <3>2, <3>3, <3>4, <3>5, <3>6, <3>7, <3>8
  <2>4. CASE /\ teams_flight[m] = {} /\ ~teams_dead[m] /\ ~teams_canceled[m]
             /\ teams_dead' = [teams_dead EXCEPT ![m] = TRUE]
             /\ UNCHANGED <<teams_shown, teams_captured, teams_queue, teams_final,
                   teams_givenUp, teams_flight, teams_canceled>>
    <3>1. ReplyTypes'
      BY <1>13, <2>1, <2>4 DEF Teams!Close, ReplyTypes
    <3>2. ChunkTypes'
      BY <1>13, <2>1, <2>4 DEF Teams!Close, ChunkTypes, ReplyTypes
    <3>3. StreamerTypes'
      BY <1>13, <2>1, <2>4 DEF Teams!Close, StreamerTypes
    <3>4. TurnsAreTaken'
      BY <1>13, <2>1, <2>4 DEF Teams!Close, TurnsAreTaken, ReplyTypes, ChunkTypes
    <3>5. StreamersAreOpen'
      BY <1>13, <2>1, <2>4 DEF Teams!Close, StreamersAreOpen, ReplyTypes, ChunkTypes,
                               StreamerTypes, TurnsAreTaken
    <3>6. ChunksAreKnown'
      BY <1>13, <2>1, <2>4 DEF Teams!Close, ChunksAreKnown, ReplyTypes, ChunkTypes,
                               TurnsAreTaken
    <3>7. PostedIsSafe'
      BY <1>13, <2>1, <2>4 DEF Teams!Close, PostedIsSafe, ReplyTypes, ChunkTypes,
                               StreamerTypes, TurnsAreTaken
    <3>8. ReplyIsKept'
      BY <1>13, <2>1, <2>4 DEF Teams!Close, ReplyIsKept, ReplyTypes, ChunkTypes,
                               StreamerTypes, TurnsAreTaken
    <3>9. QED
      BY <3>1, <3>2, <3>3, <3>4, <3>5, <3>6, <3>7, <3>8
  <2>5. CASE /\ teams_flight[m] # {} \/ teams_dead[m] \/ teams_canceled[m]
             /\ teams_givenUp' = IF teams_flight[m] = {}
                                   THEN teams_givenUp ELSE teams_givenUp \cup {m}
             /\ UNCHANGED <<teams_shown, teams_captured, teams_queue, teams_dead, teams_final,
                   teams_flight, teams_canceled>>
    <3>1. ReplyTypes'
      BY <1>13, <2>1, <2>5 DEF Teams!Close, ReplyTypes
    <3>2. ChunkTypes'
      BY <1>13, <2>1, <2>5 DEF Teams!Close, ChunkTypes, ReplyTypes
    <3>3. StreamerTypes'
      BY <1>13, <2>1, <2>5 DEF Teams!Close, StreamerTypes
    <3>4. TurnsAreTaken'
      BY <1>13, <2>1, <2>5 DEF Teams!Close, TurnsAreTaken, ReplyTypes, ChunkTypes
    <3>5. StreamersAreOpen'
      BY <1>13, <2>1, <2>5 DEF Teams!Close, StreamersAreOpen, ReplyTypes, ChunkTypes,
                               StreamerTypes, TurnsAreTaken
    <3>6. ChunksAreKnown'
      BY <1>13, <2>1, <2>5 DEF Teams!Close, ChunksAreKnown, ReplyTypes, ChunkTypes,
                               TurnsAreTaken
    <3>7. PostedIsSafe'
      BY <1>13, <2>1, <2>5 DEF Teams!Close, PostedIsSafe, ReplyTypes, ChunkTypes,
                               StreamerTypes, TurnsAreTaken
    <3>8. ReplyIsKept'
      BY <1>13, <2>1, <2>5 DEF Teams!Close, ReplyIsKept, ReplyTypes, ChunkTypes,
                               StreamerTypes, TurnsAreTaken
    <3>9. QED
      BY <3>1, <3>2, <3>3, <3>4, <3>5, <3>6, <3>7, <3>8
  <2>6. QED
    BY <1>13, <2>1, <2>2, <2>3, <2>4, <2>5, Finishes DEF Teams!Close
<1>14. ASSUME NEW m \in Message, Teams!Settle(m)
      PROVE  RepliesInv'
  <2>a. /\ teams_reply[m] = "settling" /\ teams_via[m] \in Message
        /\ \A n \in Message : teams_reply[n] \in Active => n = m
    BY <1>14 DEF Teams!Settle, TurnsAreTaken, ReplyTypes
  <2>1. PICK s \in Message :
            /\ s = teams_via[m] /\ teams_reply[m] = "settling"
            /\ \A n \in Message : teams_reply[n] \in Active => n = m
    BY <2>a
  <2>2. CASE teams_final[s] /\ UNCHANGED Teams!sdk
    <3>1. ReplyTypes'
      BY <1>14, <2>1, <2>2 DEF Teams!Settle, ReplyTypes
    <3>2. ChunkTypes'
      BY <1>14, <2>1, <2>2 DEF Teams!Settle, ChunkTypes, ReplyTypes
    <3>3. StreamerTypes'
      BY <1>14, <2>1, <2>2 DEF Teams!Settle, StreamerTypes
    <3>4. TurnsAreTaken'
      BY <1>14, <2>1, <2>2 DEF Teams!Settle, TurnsAreTaken, ReplyTypes, ChunkTypes
    <3>5. StreamersAreOpen'
      BY <1>14, <2>1, <2>2 DEF Teams!Settle, StreamersAreOpen, ReplyTypes, ChunkTypes,
                               StreamerTypes, TurnsAreTaken
    <3>6. ChunksAreKnown'
      BY <1>14, <2>1, <2>2 DEF Teams!Settle, ChunksAreKnown, ReplyTypes, ChunkTypes,
                               TurnsAreTaken
    <3>7. PostedIsSafe'
      <4>1. ASSUME teams_reply'[m] = "posting", NEW i \in Nat
            PROVE  /\ <<m, i>> \notin teams_shown'
                   /\ \A t \in Message :
                          /\ <<m, i>> \notin teams_flight'[t]
                          /\ <<m, i>> \in teams_queue'[t] => teams_dead'[t]
        BY <1>14, <2>1, <2>2, <4>1 DEF Teams!Settle, StreamersAreOpen, ChunksAreKnown,
                                       ReplyTypes, StreamerTypes
      <4>2. teams_reply'[m] \in {"posting", "over"} /\ m \notin teams_posted
                /\ UNCHANGED teams_posted
        BY <1>14, <2>1 DEF Teams!Settle, PostedIsSafe, ReplyTypes
      <4>3. \A n \in Message : n # m => teams_reply'[n] = teams_reply[n]
        BY <1>14 DEF Teams!Settle, ReplyTypes
      <4>4. ASSUME NEW n \in Message, n # m, teams_reply[n] = "posting"
                \/ n \in teams_posted, NEW i \in Nat
            PROVE  /\ <<n, i>> \notin teams_shown'
                   /\ \A t \in Message :
                          /\ <<n, i>> \notin teams_flight'[t]
                          /\ <<n, i>> \in teams_queue'[t] => teams_dead'[t]
        BY <2>1, <2>2, <4>4 DEF PostedIsSafe, ChunkTypes, StreamerTypes
      <4>5. QED
        BY <2>1, <4>1, <4>2, <4>3, <4>4 DEF PostedIsSafe
    <3>8. ReplyIsKept'
      BY <1>14, <2>1, <2>2 DEF Teams!Settle, ReplyIsKept, ReplyTypes, StreamerTypes,
                               TurnsAreTaken,
         StreamersAreOpen
    <3>9. QED
      BY <3>1, <3>2, <3>3, <3>4, <3>5, <3>6, <3>7, <3>8
  <2>3. CASE /\ teams_flight[s] = {} /\ ~teams_dead[s] /\ ~teams_canceled[s]
             /\ teams_final' = [teams_final EXCEPT ![s] = TRUE]
             /\ teams_shown' = teams_shown \cup teams_queue[s]
             /\ teams_captured' = [teams_captured EXCEPT ![s] = teams_captured[s]
                   \/ teams_queue[s] # {}]
             /\ teams_queue' = [teams_queue EXCEPT ![s] = {}]
             /\ UNCHANGED <<teams_dead, teams_givenUp, teams_flight, teams_canceled>>
    <3>1. ReplyTypes'
      BY <1>14, <2>1, <2>3 DEF Teams!Settle, ReplyTypes
    <3>2. ChunkTypes'
      BY <1>14, <2>1, <2>3 DEF Teams!Settle, ChunkTypes, ReplyTypes
    <3>3. StreamerTypes'
      BY <1>14, <2>1, <2>3 DEF Teams!Settle, StreamerTypes
    <3>4. TurnsAreTaken'
      BY <1>14, <2>1, <2>3 DEF Teams!Settle, TurnsAreTaken, ReplyTypes, ChunkTypes
    <3>5. StreamersAreOpen'
      BY <1>14, <2>1, <2>3 DEF Teams!Settle, StreamersAreOpen, ReplyTypes, ChunkTypes,
                               StreamerTypes, TurnsAreTaken
    <3>6. ChunksAreKnown'
      <4>1. /\ \A t \in Message : teams_captured[t] => teams_captured'[t]
            /\ teams_queue[s] # {} => teams_captured'[s]
            /\ \A t \in Message : teams_queue'[t] = IF t = s THEN {} ELSE teams_queue[t]
        BY <2>1, <2>3 DEF ChunkTypes, StreamerTypes
      <4>2. UNCHANGED <<teams_flight, teams_via, teams_emitted>>
        BY <1>14, <2>3 DEF Teams!Settle
      <4>3. \A n \in Message, i \in Nat : <<n, i>> \in teams_queue[s] =>
                teams_via[n] = s /\ teams_captured'[s] /\ i <= teams_emitted[n]
        BY <2>1, <4>1 DEF ChunksAreKnown
      <4>4. QED
        BY <2>1, <2>3, <4>1, <4>2, <4>3 DEF ChunksAreKnown
    <3>7. PostedIsSafe'
      <4>1. ASSUME teams_reply'[m] = "posting", NEW i \in Nat
            PROVE  /\ <<m, i>> \notin teams_shown'
                   /\ \A t \in Message :
                          /\ <<m, i>> \notin teams_flight'[t]
                          /\ <<m, i>> \in teams_queue'[t] => teams_dead'[t]
        <5>1. teams_queue[s] = {} /\ ~teams_captured[s]
          BY <1>14, <2>1, <2>3, <4>1 DEF Teams!Settle, ReplyTypes, StreamerTypes
        <5>2. teams_shown' = teams_shown /\ teams_queue' = teams_queue
                  /\ teams_flight' = teams_flight
          BY <2>1, <2>3, <5>1 DEF ChunkTypes
        <5>3. QED
          BY <2>1, <2>3, <5>1, <5>2 DEF ChunksAreKnown
      <4>2. teams_reply'[m] \in {"posting", "over"} /\ m \notin teams_posted
                /\ UNCHANGED teams_posted
        BY <1>14, <2>1 DEF Teams!Settle, PostedIsSafe, ReplyTypes
      <4>3. \A n \in Message : n # m => teams_reply'[n] = teams_reply[n]
        BY <1>14 DEF Teams!Settle, ReplyTypes
      <4>4. ASSUME NEW n \in Message, n # m, teams_reply[n] = "posting"
                \/ n \in teams_posted, NEW i \in Nat
            PROVE  /\ <<n, i>> \notin teams_shown'
                   /\ \A t \in Message :
                          /\ <<n, i>> \notin teams_flight'[t]
                          /\ <<n, i>> \in teams_queue'[t] => teams_dead'[t]
        BY <2>1, <2>3, <4>4 DEF PostedIsSafe, ChunkTypes, StreamerTypes
      <4>5. QED
        BY <2>1, <4>1, <4>2, <4>3, <4>4 DEF PostedIsSafe
    <3>8. ReplyIsKept'
      BY <1>14, <2>1, <2>3 DEF Teams!Settle, ReplyIsKept, ReplyTypes, ChunkTypes,
                               StreamerTypes, TurnsAreTaken
    <3>9. QED
      BY <3>1, <3>2, <3>3, <3>4, <3>5, <3>6, <3>7, <3>8
  <2>4. CASE /\ teams_flight[s] = {} /\ ~teams_dead[s] /\ ~teams_canceled[s]
             /\ teams_dead' = [teams_dead EXCEPT ![s] = TRUE]
             /\ UNCHANGED <<teams_shown, teams_captured, teams_queue, teams_final,
                   teams_givenUp, teams_flight, teams_canceled>>
    <3>1. ReplyTypes'
      BY <1>14, <2>1, <2>4 DEF Teams!Settle, ReplyTypes
    <3>2. ChunkTypes'
      BY <1>14, <2>1, <2>4 DEF Teams!Settle, ChunkTypes, ReplyTypes
    <3>3. StreamerTypes'
      BY <1>14, <2>1, <2>4 DEF Teams!Settle, StreamerTypes
    <3>4. TurnsAreTaken'
      BY <1>14, <2>1, <2>4 DEF Teams!Settle, TurnsAreTaken, ReplyTypes, ChunkTypes
    <3>5. StreamersAreOpen'
      BY <1>14, <2>1, <2>4 DEF Teams!Settle, StreamersAreOpen, ReplyTypes, ChunkTypes,
                               StreamerTypes, TurnsAreTaken
    <3>6. ChunksAreKnown'
      BY <1>14, <2>1, <2>4 DEF Teams!Settle, ChunksAreKnown, ReplyTypes, ChunkTypes,
                               TurnsAreTaken
    <3>7. PostedIsSafe'
      <4>1. ASSUME teams_reply'[m] = "posting", NEW i \in Nat
            PROVE  /\ <<m, i>> \notin teams_shown'
                   /\ \A t \in Message :
                          /\ <<m, i>> \notin teams_flight'[t]
                          /\ <<m, i>> \in teams_queue'[t] => teams_dead'[t]
        BY <1>14, <2>1, <2>4, <4>1 DEF Teams!Settle, ChunksAreKnown, ReplyTypes,
                                       StreamerTypes
      <4>2. teams_reply'[m] \in {"posting", "over"} /\ m \notin teams_posted
                /\ UNCHANGED teams_posted
        BY <1>14, <2>1 DEF Teams!Settle, PostedIsSafe, ReplyTypes
      <4>3. \A n \in Message : n # m => teams_reply'[n] = teams_reply[n]
        BY <1>14 DEF Teams!Settle, ReplyTypes
      <4>4. ASSUME NEW n \in Message, n # m, teams_reply[n] = "posting"
                \/ n \in teams_posted, NEW i \in Nat
            PROVE  /\ <<n, i>> \notin teams_shown'
                   /\ \A t \in Message :
                          /\ <<n, i>> \notin teams_flight'[t]
                          /\ <<n, i>> \in teams_queue'[t] => teams_dead'[t]
        BY <2>1, <2>4, <4>4 DEF PostedIsSafe, ChunkTypes, StreamerTypes
      <4>5. QED
        BY <2>1, <4>1, <4>2, <4>3, <4>4 DEF PostedIsSafe
    <3>8. ReplyIsKept'
      BY <1>14, <2>1, <2>4 DEF Teams!Settle, ReplyIsKept, ReplyTypes, ChunkTypes,
                               StreamerTypes, TurnsAreTaken
    <3>9. QED
      BY <3>1, <3>2, <3>3, <3>4, <3>5, <3>6, <3>7, <3>8
  <2>5. CASE /\ teams_flight[s] # {} \/ teams_dead[s] \/ teams_canceled[s]
             /\ teams_givenUp' = IF teams_flight[s] = {}
                                   THEN teams_givenUp ELSE teams_givenUp \cup {s}
             /\ UNCHANGED <<teams_shown, teams_captured, teams_queue, teams_dead, teams_final,
                   teams_flight, teams_canceled>>
    <3>1. ReplyTypes'
      BY <1>14, <2>1, <2>5 DEF Teams!Settle, ReplyTypes
    <3>2. ChunkTypes'
      BY <1>14, <2>1, <2>5 DEF Teams!Settle, ChunkTypes, ReplyTypes
    <3>3. StreamerTypes'
      BY <1>14, <2>1, <2>5 DEF Teams!Settle, StreamerTypes
    <3>4. TurnsAreTaken'
      BY <1>14, <2>1, <2>5 DEF Teams!Settle, TurnsAreTaken, ReplyTypes, ChunkTypes
    <3>5. StreamersAreOpen'
      BY <1>14, <2>1, <2>5 DEF Teams!Settle, StreamersAreOpen, ReplyTypes, ChunkTypes,
                               StreamerTypes, TurnsAreTaken
    <3>6. ChunksAreKnown'
      BY <1>14, <2>1, <2>5 DEF Teams!Settle, ChunksAreKnown, ReplyTypes, ChunkTypes,
                               TurnsAreTaken
    <3>7. PostedIsSafe'
      <4>1. ASSUME teams_reply'[m] = "posting", NEW i \in Nat
            PROVE  /\ <<m, i>> \notin teams_shown'
                   /\ \A t \in Message :
                          /\ <<m, i>> \notin teams_flight'[t]
                          /\ <<m, i>> \in teams_queue'[t] => teams_dead'[t]
        BY <1>14, <2>1, <2>5, <4>1 DEF Teams!Settle, ChunksAreKnown, ReplyTypes,
                                       StreamerTypes
      <4>2. teams_reply'[m] \in {"posting", "over"} /\ m \notin teams_posted
                /\ UNCHANGED teams_posted
        BY <1>14, <2>1 DEF Teams!Settle, PostedIsSafe, ReplyTypes
      <4>3. \A n \in Message : n # m => teams_reply'[n] = teams_reply[n]
        BY <1>14 DEF Teams!Settle, ReplyTypes
      <4>4. ASSUME NEW n \in Message, n # m, teams_reply[n] = "posting"
                \/ n \in teams_posted, NEW i \in Nat
            PROVE  /\ <<n, i>> \notin teams_shown'
                   /\ \A t \in Message :
                          /\ <<n, i>> \notin teams_flight'[t]
                          /\ <<n, i>> \in teams_queue'[t] => teams_dead'[t]
        BY <2>1, <2>5, <4>4 DEF PostedIsSafe, ChunkTypes, StreamerTypes
      <4>5. QED
        BY <2>1, <4>1, <4>2, <4>3, <4>4 DEF PostedIsSafe
    <3>8. ReplyIsKept'
      BY <1>14, <2>1, <2>5 DEF Teams!Settle, ReplyIsKept, ReplyTypes, ChunkTypes,
                               StreamerTypes, TurnsAreTaken
    <3>9. QED
      BY <3>1, <3>2, <3>3, <3>4, <3>5, <3>6, <3>7, <3>8
  <2>6. CASE teams_canceled[s] /\ UNCHANGED Teams!sdk
    <3>1. ReplyTypes'
      BY <1>14, <2>1, <2>6 DEF Teams!Settle, ReplyTypes
    <3>2. ChunkTypes'
      BY <1>14, <2>1, <2>6 DEF Teams!Settle, ChunkTypes, ReplyTypes
    <3>3. StreamerTypes'
      BY <1>14, <2>1, <2>6 DEF Teams!Settle, StreamerTypes
    <3>4. TurnsAreTaken'
      BY <1>14, <2>1, <2>6 DEF Teams!Settle, TurnsAreTaken, ReplyTypes, ChunkTypes
    <3>5. StreamersAreOpen'
      BY <1>14, <2>1, <2>6 DEF Teams!Settle, StreamersAreOpen, ReplyTypes, ChunkTypes,
                               StreamerTypes, TurnsAreTaken
    <3>6. ChunksAreKnown'
      BY <1>14, <2>1, <2>6 DEF Teams!Settle, ChunksAreKnown, ReplyTypes, ChunkTypes,
                               TurnsAreTaken
    <3>7. PostedIsSafe'
      BY <1>14, <2>1, <2>6 DEF Teams!Settle, PostedIsSafe, ReplyTypes, ChunkTypes,
                               StreamerTypes, TurnsAreTaken
    <3>8. ReplyIsKept'
      BY <1>14, <2>1, <2>6 DEF Teams!Settle, ReplyIsKept, ReplyTypes, ChunkTypes,
                               StreamerTypes, TurnsAreTaken
    <3>9. QED
      BY <3>1, <3>2, <3>3, <3>4, <3>5, <3>6, <3>7, <3>8
  <2>7. QED
    BY <1>14, <2>1, <2>2, <2>3, <2>4, <2>5, <2>6, Finishes DEF Teams!Settle
<1>15. CASE UNCHANGED Teams!vars
  BY <1>15 DEF Teams!vars, ReplyTypes, ChunkTypes, StreamerTypes, TurnsAreTaken,
               StreamersAreOpen, ChunksAreKnown, PostedIsSafe, ReplyIsKept
<1>16. QED
  BY <1>1, <1>2, <1>3, <1>4, <1>5, <1>6, <1>7, <1>8, <1>9, <1>10, <1>11, <1>12, <1>13,
  <1>14, <1>15 DEF Teams!Next, Teams!Step

\* What the inductive invariant is for.
LEMMA ArriveOnce == RepliesInv => Teams!RepliesArriveOnce
<1> SUFFICES ASSUME RepliesInv PROVE Teams!RepliesArriveOnce
  OBVIOUS
<1> USE StreamsAssumption DEF RepliesInv
<1>1. Teams!NeverTwice
  <2>1. ASSUME NEW m \in teams_posted, NEW i \in 1..teams_emitted[m]
        PROVE  <<m, i>> \notin teams_shown
    <3>1. m \in Message /\ i \in Nat
      BY DEF ReplyTypes, ChunkTypes
    <3>2. QED
      BY <3>1 DEF PostedIsSafe
  <2>2. QED
    BY <2>1 DEF Teams!NeverTwice, Teams!Chunks
<1>2. Teams!RegistryIsCurrent
  BY DEF Teams!RegistryIsCurrent, StreamersAreOpen
<1>3. ASSUME NEW m \in Message, teams_hook[m] = "closed", teams_by[m] = m, teams_via[m] = m,
          ~teams_canceled[m],
             m \notin teams_givenUp, teams_captured[m] => ~teams_dead[m], m \notin teams_posted
      PROVE  Teams!Chunks(m) \subseteq teams_shown
  <2>1. teams_reply[m] = "done"
    <3>1. teams_reply[m] \notin Active
      BY <1>3 DEF TurnsAreTaken
    <3>2. teams_reply[m] \notin Early
      BY <1>3 DEF TurnsAreTaken
    <3>3. QED
      BY <3>1, <3>2 DEF ReplyTypes
  <2>2. CASE teams_emitted[m] = 0
    BY <2>2 DEF Teams!Chunks
  <2>3. CASE teams_captured[m]
    <3>1. ~teams_dead[m] /\ teams_final[m] /\ teams_queue[m] = {} /\ teams_flight[m] = {}
      BY <1>3, <2>3 DEF ReplyIsKept, StreamersAreOpen
    <3>2. \A i \in 1..teams_emitted[m] : <<m, i>> \in teams_shown
      BY <1>3, <3>1 DEF ReplyIsKept
    <3>3. QED
      BY <3>2 DEF Teams!Chunks
  <2>4. QED
    BY <1>3, <2>1, <2>2, <2>3 DEF ReplyIsKept
<1>4. Teams!RepliesArrive
  BY <1>3 DEF Teams!RepliesArrive
<1>5. QED
  BY <1>1, <1>2, <1>4 DEF Teams!RepliesArriveOnce

\* The part of the run that is a Teams chat: the others leave it alone.
LEMMA TeamsOfTheRun ==
    StreamsSpec => Teams!Init /\ [][Teams!Next]_Teams!vars
<1>1. StreamsInit => Teams!Init
  BY DEF StreamsInit
<1>2. [StreamsNext]_<<path, vars, planVars, slackVars, mdVars, linearVars, teamsVars, tgVars>>
          => [Teams!Next]_Teams!vars
  BY DEF StreamsNext, teamsVars, Teams!vars, Teams!sdk, Teams!hooks, Teams!tasks
<1>3. QED
  BY <1>1, <1>2, PTL DEF StreamsSpec

\* Whatever messages overlap, and whatever flushes fail, hang or are stopped: a reply
\* is never there twice, and there once by its own webhook's streamer or as a post.
THEOREM TeamsRepliesArrive == StreamsSpec => []RepliesArriveOnce
<1>1. RepliesInv => RepliesArriveOnce
  BY ArriveOnce DEF RepliesArriveOnce
<1>2. QED
  BY <1>1, TeamsOfTheRun, RepliesInit, RepliesStep, PTL

-----------------------------------------------------------------------------
\* The edits of a Telegram message

PaceTypes ==
    /\ tg_blank \in 0..MaxChunks /\ tg_held \in 1..MaxChunks /\ tg_pushed \in 0..MaxChunks
    /\ tg_last \in Int /\ tg_shown \in Int
    /\ tg_lastAt \in Int /\ tg_blockedUntil \in Int /\ tg_limitedUntil \in Int
    /\ tg_wake \in Int /\ tg_now \in Int

\* What the task believes is shown is, but for a call that failed and took effect.
LastIsKnown == tg_unsure \/ tg_shown = tg_last

\* A call that returned has shown all there was to show.
AllIsShown == tg_pc = "returned" /\ tg_pushed > tg_blank => tg_last = tg_pushed

\* The block the task keeps covers the latest rate limit, or that one is over.
LimitIsKept ==
    /\ tg_limitedUntil <= tg_blockedUntil \/ tg_limitedUntil <= tg_now
    /\ tg_pc = "editing" => tg_limitedUntil <= tg_now
    /\ tg_pc \in {"final", "again"} => tg_limitedUntil <= tg_wake

PaceInv == PaceTypes /\ LastIsKnown /\ AllIsShown /\ LimitIsKept

LEMMA PaceInit == Telegram!Init => PaceInv
BY StreamAssumption, StreamsAssumption DEF Telegram!Init, PaceInv, PaceTypes, LastIsKnown,
     AllIsShown,
                        LimitIsKept, Telegram!Nothing

\* What an edit shows is a number, whatever render() holds back.
LEMMA TextsAreNumbers ==
    ASSUME PaceInv
    PROVE  Telegram!Rendered \in Int /\ Telegram!Finished \in Int /\ Telegram!Placeholder \in Int
BY StreamAssumption, StreamsAssumption DEF PaceInv, PaceTypes, Telegram!Rendered, Telegram!Render,
                        Telegram!Finished, Telegram!Placeholder

LEMMA PaceStep == PaceInv /\ [Telegram!Next]_Telegram!vars => PaceInv'
<1> SUFFICES ASSUME PaceInv, [Telegram!Next]_Telegram!vars PROVE PaceInv'
  OBVIOUS
<1> USE StreamAssumption, StreamsAssumption, TextsAreNumbers
        DEF PaceInv, PaceTypes, LastIsKnown, AllIsShown, LimitIsKept, Telegram!text,
            Telegram!limit
<1>1. CASE Telegram!Tick
  BY <1>1 DEF Telegram!Tick
<1>2. CASE Telegram!Post
  <2>1. PICK t \in Int :
            /\ \/ Telegram!Shows(t, "pulling") /\ UNCHANGED Telegram!limit
               \/ Telegram!Breaks(t, "raised")
            /\ UNCHANGED <<Telegram!text, tg_wake, tg_now>>
    BY <1>2 DEF Telegram!Post
  <2>2. QED
    BY <2>1 DEF Telegram!Shows, Telegram!Breaks
<1>3. CASE Telegram!Chunk
  BY <1>3 DEF Telegram!Chunk
<1>4. CASE Telegram!Edit
  <2>1. CASE Telegram!Shows(Telegram!Rendered, "pulling") /\ tg_blockedUntil' = 0
            /\ UNCHANGED tg_limitedUntil
    BY <1>4, <2>1 DEF Telegram!Edit, Telegram!Shows
  <2>2. CASE Telegram!Breaks(Telegram!Rendered, "pulling")
    BY <1>4, <2>2 DEF Telegram!Edit, Telegram!Breaks
  <2>3. ASSUME NEW r \in Telegram!Retries, Telegram!Limited(r), tg_pc' = "pulling"
        PROVE  PaceInv'
    <3>1. r \in Nat
      BY <2>3 DEF Telegram!Retries
    <3>2. tg_blockedUntil' \in Int /\ tg_limitedUntil' \in Int
              /\ tg_limitedUntil' <= tg_blockedUntil'
      BY <2>3, <3>1 DEF Telegram!Limited, Telegram!Max2
    <3>3. QED
      BY <1>4, <2>3, <3>2 DEF Telegram!Edit, Telegram!Limited
  <2>4. QED
    BY <1>4, <2>1, <2>2, <2>3 DEF Telegram!Edit
<1>5. CASE Telegram!End
  <2>1. CASE tg_pc' = "raised" /\ UNCHANGED <<tg_wake, tg_shown, tg_last, tg_lastAt, tg_unsure,
            tg_failures, Telegram!limit>>
    BY <1>5, <2>1 DEF Telegram!End
  <2>2. CASE /\ Telegram!Posted /\ ~Telegram!ShouldEdit(Telegram!Finished)
             /\ tg_pc' = "returned"
             /\ UNCHANGED <<tg_wake, tg_shown, tg_last, tg_lastAt, tg_unsure, tg_failures,
                   Telegram!limit>>
    BY <1>5, <2>2 DEF Telegram!End, Telegram!ShouldEdit, Telegram!Posted, Telegram!Finished
  <2>3. CASE /\ tg_wake' = tg_now
                           + Telegram!Max2(Telegram!Max2(0, tg_blockedUntil - tg_now),
                                 Telegram!Max2(0, Interval - (tg_now - tg_lastAt)))
             /\ tg_pc' \in {"raised", "final"}
             /\ UNCHANGED <<tg_shown, tg_last, tg_lastAt, tg_unsure, tg_failures, Telegram!limit>>
    <3>1. tg_wake' \in Int /\ tg_wake' >= tg_now /\ tg_wake' >= tg_blockedUntil
      BY <2>3 DEF Telegram!Max2
    <3>2. tg_limitedUntil <= tg_wake'
      BY <3>1
    <3>3. QED
      BY <1>5, <2>3, <3>1, <3>2 DEF Telegram!End
  <2>4. CASE UNCHANGED tg_wake /\ Telegram!Shows(Telegram!Finished, "returned")
            /\ UNCHANGED Telegram!limit
    BY <1>5, <2>4 DEF Telegram!End, Telegram!Shows, Telegram!Finished
  <2>5. CASE UNCHANGED tg_wake /\ Telegram!Breaks(Telegram!Finished, "raised")
    BY <1>5, <2>5 DEF Telegram!End, Telegram!Breaks
  <2>6. CASE UNCHANGED tg_wake /\ tg_pc' = "raised"
            /\ UNCHANGED <<tg_shown, tg_last, tg_lastAt, tg_unsure, tg_failures, Telegram!limit>>
    BY <1>5, <2>6 DEF Telegram!End
  <2>7. QED
    BY <1>5, <2>1, <2>2, <2>3, <2>4, <2>5, <2>6 DEF Telegram!End
<1>6. CASE Telegram!FinalEdit
  <2>1. CASE Telegram!Shows(Telegram!Finished, "returned") /\ tg_blockedUntil' = 0
            /\ UNCHANGED <<tg_limitedUntil, tg_wake>>
    <3>1. tg_limitedUntil <= tg_now
      BY <1>6 DEF Telegram!FinalEdit
    <3>2. QED
      BY <1>6, <2>1, <3>1 DEF Telegram!FinalEdit, Telegram!Shows, Telegram!Finished
  <2>2. CASE Telegram!Breaks(Telegram!Finished, "raised") /\ UNCHANGED tg_wake
    BY <1>6, <2>2 DEF Telegram!FinalEdit, Telegram!Breaks
  <2>3. ASSUME NEW r \in Telegram!Retries, Telegram!Limited(r), tg_pc' \in {"raised", "again"},
            tg_wake' = tg_now + r
        PROVE  PaceInv'
    <3>1. r \in Nat
      BY <2>3 DEF Telegram!Retries
    <3>2. /\ tg_blockedUntil' \in Int /\ tg_limitedUntil' \in Int
          /\ tg_limitedUntil' <= tg_blockedUntil'
          /\ tg_wake' \in Int /\ tg_limitedUntil' <= tg_wake'
      BY <2>3, <3>1 DEF Telegram!Limited, Telegram!Max2
    <3>3. QED
      BY <1>6, <2>3, <3>2 DEF Telegram!FinalEdit, Telegram!Limited
  <2>4. QED
    BY <1>6, <2>1, <2>2, <2>3 DEF Telegram!FinalEdit
<1>7. CASE UNCHANGED Telegram!vars
  BY <1>7 DEF Telegram!vars
<1>8. QED
  BY <1>1, <1>2, <1>3, <1>4, <1>5, <1>6, <1>7 DEF Telegram!Next

\* No edit is sent before the latest rate limit is over.
LEMMA EditsWait ==
    PaceInv /\ [Telegram!Next]_Telegram!vars =>
        [(tg_pc' = "editing" \/ tg_pc \in {"final", "again"}) /\ tg_pc' # tg_pc =>
              tg_now >= tg_limitedUntil]_Telegram!vars
<1> SUFFICES ASSUME PaceInv, Telegram!Next, tg_pc' = "editing"
          \/ tg_pc \in {"final", "again"}, tg_pc' # tg_pc
             PROVE  tg_now >= tg_limitedUntil
  BY DEF Telegram!vars
<1> USE DEF PaceInv, PaceTypes, LimitIsKept
<1>1. CASE Telegram!Chunk
  BY <1>1 DEF Telegram!Chunk
<1>2. CASE Telegram!FinalEdit
  BY <1>2 DEF Telegram!FinalEdit
<1>3. CASE Telegram!Tick \/ Telegram!Post \/ Telegram!Edit \/ Telegram!End
  BY <1>3 DEF Telegram!Tick, Telegram!Post, Telegram!Edit, Telegram!End, Telegram!Shows,
              Telegram!Breaks
<1>4. QED
  BY <1>1, <1>2, <1>3 DEF Telegram!Next

\* What the inductive invariant is for.
LEMMA ReturnedAreShown == PaceInv => Telegram!ReturnedIsShown
BY DEF PaceInv, PaceTypes, LastIsKnown, AllIsShown, Telegram!ReturnedIsShown,
       Telegram!Finished

\* The part of the run that is a Telegram message: the others leave it alone.
LEMMA TelegramOfTheRun ==
    StreamsSpec => Telegram!Init /\ [][Telegram!Next]_Telegram!vars
<1>1. StreamsInit => Telegram!Init
  BY DEF StreamsInit
<1>2. [StreamsNext]_<<path, vars, planVars, slackVars, mdVars, linearVars, teamsVars, tgVars>>
          => [Telegram!Next]_Telegram!vars
  BY DEF StreamsNext, tgVars, Telegram!vars, Telegram!text, Telegram!limit
<1>3. QED
  BY <1>1, <1>2, PTL DEF StreamsSpec

\* For any text, pace and rate limits: a call that returns leaves the whole text in
\* the chat, and while a rate limit runs no edit is sent.
THEOREM RateLimitsAreMinded == StreamsSpec => RepliesMindTheLimit
<1>1. StreamsSpec => []Telegram!ReturnedIsShown
  BY TelegramOfTheRun, PaceInit, PaceStep, ReturnedAreShown, PTL
<1>2. StreamsSpec => Telegram!QuietWhileLimited
  BY TelegramOfTheRun, PaceInit, PaceStep, EditsWait, PTL DEF Telegram!QuietWhileLimited
<1>3. QED
  BY <1>1, <1>2 DEF RepliesMindTheLimit, Telegram!RepliesMindTheLimit
=============================================================================
