----------------------------- MODULE MCChatFair -----------------------------
(***************************************************************************)
(* How a chat's tasks come to their end, for TLC: deliveries under the     *)
(* strategies that lock, and events under the concurrent strategy and      *)
(* beside it.                                                              *)
(***************************************************************************)
EXTENDS ChatDispatch, FiniteSetTheorems, TLAPS

CONSTANTS
    d1, d2, d3, d4,
    \* EventRouting's.
    Event, Message, Mentioned, Handlers, MaxConcurrent, MaxRouteFaults

ASSUME RoutingAssumption ==
    /\ Message \subseteq Event
    /\ IsFiniteSet(Event)
    /\ MaxConcurrent \in Nat

VARIABLES
    part,    \* which part moves: one per behaviour
    route_kind, route_propagate, route_pc, route_next, route_route, route_answer,
    route_post, route_view, route_seen, route_free, route_subscribed, route_faults,
    route_late

\* d1 .. d4 are deliveries, each of a message of its own, in one thread.
AllDiffer == [d \in {d1, d2, d3, d4} |-> d]
OneThread == [d \in {d1, d2, d3, d4} |-> "t"]

\* The strategies that drain a queue; a fault where it matters most.
Queueing ==
    {[strategy |-> s, onLockConflict |-> "drop", onQueueFull |-> "drop-oldest"] : s \in {"queue", "burst", "debounce"}}
QueueFault == [drop |-> 0, queue |-> 1, debounce |-> 0, burst |-> 0]

Routing == INSTANCE EventRouting WITH
    MaxFaults <- MaxRouteFaults, kind <- route_kind, propagate <-
    route_propagate, pc <- route_pc, next <- route_next, route <- route_route,
    answer <- route_answer, post <- route_post, view <- route_view, seen <-
    route_seen, free <- route_free, subscribed <- route_subscribed, faults <-
    route_faults, late <- route_late

routeVars == <<route_kind, route_propagate, route_pc, route_next, route_route,
    route_answer, route_post, route_view, route_seen, route_free, route_subscribed,
    route_faults, route_late>>

-----------------------------------------------------------------------------
ChatFairInit ==
    /\ part \in {"dispatch", "routing"}
    \* What does not move starts in one way.
    /\ Init
    /\ part # "dispatch" => config = CHOOSE c \in Configs : TRUE
    /\ Routing!Init
    /\ part # "routing" => /\ route_propagate
                           /\ route_kind = [e \in Event |-> IF e \in Message THEN "message" ELSE "notice"]

ChatFairNext ==
    \/ /\ part = "dispatch" /\ Next
       /\ UNCHANGED <<part, routeVars>>
    \/ /\ part = "routing" /\ Routing!Next
       /\ UNCHANGED <<part, vars>>

\* The fairness of each module, for the one that moves.
ChatFairFairness ==
    /\ \A d \in Delivery : WF_vars(part = "dispatch" /\ TaskStep(d) /\ pc[d] # "new")
    /\ WF_vars(part = "dispatch" /\ OrphanLapses)
    /\ WF_routeVars(part = "routing" /\ Routing!Step)

ChatFairSpec == ChatFairInit /\ [][ChatFairNext]_<<part, vars, routeVars>> /\
    ChatFairFairness

-----------------------------------------------------------------------------
PlacesAreShared          == Routing!PlacesAreShared
EventsReachTheirHandlers == Routing!EventsReachTheirHandlers
HostsMayTrustIt          == Routing!HostsMayTrustIt

-----------------------------------------------------------------------------
\* Proofs about EventRouting, for any events and handlers, and any number of faults.

Question == {"options", "submit"}
Label == {"none", "waiting", "routing", "handling", "posting", "done", "failed", "cancelled"}

RoutingTypes ==
    /\ route_kind \in [Event -> Routing!Kind \cup {"message"}]
    /\ route_propagate \in BOOLEAN
    /\ route_pc \in [Event -> Label]
    /\ route_next \in [Event -> Int]
    /\ route_route \in [Event -> {"none", "subscribed", "mention", "pattern"}]
    /\ route_answer \in [Event -> BOOLEAN]
    /\ route_post \in [Event -> {"none", "sending", "ended"}]
    /\ route_view \in [Event -> {"none", "raw", "quiet"}]
    /\ route_seen \in [Event -> {"none", "fulfilled", "failed", "cancelled"}]
    /\ route_subscribed \in BOOLEAN
    /\ route_late \subseteq Event

\* Only messages wait for a place, and nobody ends a subscription.
WaitingAreMessages ==
    /\ route_late # {} => route_subscribed
    /\ \A e \in Event :
          /\ route_pc[e] = "waiting" => route_kind[e] = "message"
          /\ route_pc[e] \in {"none", "waiting", "routing"} => route_route[e] = "none"

\* A question is never routed, and the host is handed its POST when it is answered.
QuestionsAreAsked ==
    \A e \in Event : route_kind[e] \in Question =>
        /\ route_pc[e] \in {"none", "handling", "done"}
        /\ route_view[e] # "none" => route_pc[e] = "done"

\* The host holds a task itself only if it has asked for it.
RawIsAskedFor ==
    \A e \in Event : route_view[e] = "raw" => route_propagate \/ (route_kind[e] = "submit"
          /\ route_pc[e] = "done")

\* A POST begins in the handling of an action or with the answer to a form, and the
\* task of an action is not done before it.
PostsAreAwaited ==
    \A e \in Event :
        /\ route_post[e] # "none" => route_kind[e] \in {"action", "submit"}
        /\ route_pc[e] \in {"none", "waiting", "routing"} => route_post[e] = "none"
        /\ route_pc[e] = "posting" => route_post[e] # "none"
        /\ route_pc[e] = "done" /\ route_kind[e] # "submit" => route_post[e] # "sending"

RoutingInv ==
    /\ RoutingTypes /\ WaitingAreMessages /\ QuestionsAreAsked /\ RawIsAskedFor /\ PostsAreAwaited
    /\ Routing!EventsReachTheirHandlers /\ Routing!HostsMayTrustIt

LEMMA RoutingInit == Routing!Init => RoutingInv
<1> SUFFICES ASSUME Routing!Init PROVE RoutingInv
  OBVIOUS
<1>1. RoutingTypes
  <2>1. /\ route_kind \in [Event -> Routing!Kind \cup {"message"}] /\ route_propagate \in BOOLEAN
        /\ route_pc = [e \in Event |-> "none"] /\ route_next = [e \in Event |-> 1]
        /\ route_route = [e \in Event |-> "none"] /\ route_answer = [e \in Event |-> FALSE]
        /\ route_post = [e \in Event |-> "none"] /\ route_view = [e \in Event |-> "none"]
        /\ route_seen = [e \in Event |-> "none"] /\ route_subscribed = FALSE /\ route_late = {}
    BY DEF Routing!Init
  <2>2. route_pc \in [Event -> Label] /\ route_route \in [Event -> {"none", "subscribed",
            "mention", "pattern"}]
        /\ route_post \in [Event -> {"none", "sending", "ended"}]
        /\ route_view \in [Event -> {"none", "raw", "quiet"}]
        /\ route_seen \in [Event -> {"none", "fulfilled", "failed", "cancelled"}]
    BY <2>1, Zenon DEF Label
  <2>3. route_next \in [Event -> Int] /\ route_answer \in [Event -> BOOLEAN]
    BY <2>1
  <2>4. QED
    BY <2>1, <2>2, <2>3 DEF RoutingTypes
<1>2. WaitingAreMessages /\ QuestionsAreAsked
  BY DEF Routing!Init, WaitingAreMessages, QuestionsAreAsked
<1>3. RawIsAskedFor /\ PostsAreAwaited
  BY DEF Routing!Init, RawIsAskedFor, PostsAreAwaited
<1>4. Routing!EventsReachTheirHandlers
  BY DEF Routing!Init, Routing!EventsReachTheirHandlers, Routing!SubscribedComesFirst,
         Routing!EveryHandlerIsAsked
<1>5. Routing!HostsMayTrustIt
  BY DEF Routing!Init, Routing!HostsMayTrustIt, Routing!HostsDoNotCancel,
         Routing!FulfilledIsFinished
<1>6. QED
  BY <1>1, <1>2, <1>3, <1>4, <1>5 DEF RoutingInv

LEMMA RoutingStep == RoutingInv /\ [Routing!Next]_Routing!vars => RoutingInv'
<1> SUFFICES ASSUME RoutingInv, [Routing!Next]_Routing!vars PROVE RoutingInv'
  OBVIOUS
<1> USE DEF RoutingInv, RoutingTypes, WaitingAreMessages, QuestionsAreAsked, RawIsAskedFor,
     PostsAreAwaited, Routing!EventsReachTheirHandlers, Routing!HostsMayTrustIt,
             Routing!SubscribedComesFirst,
     Routing!EveryHandlerIsAsked, Routing!HostsDoNotCancel, Routing!FulfilledIsFinished, Label,
           Routing!Kind, Question, Routing!Over,
     Routing!task, Routing!host, Routing!given
<1>1. ASSUME NEW e \in Event, Routing!ProcessMessage(e) PROVE RoutingInv'
  BY <1>1 DEF Routing!ProcessMessage, Routing!Handed
<1>2. ASSUME NEW e \in Event, Routing!ProcessEvent(e) PROVE RoutingInv'
  BY <1>2 DEF Routing!ProcessEvent, Routing!Handed
<1>3. ASSUME NEW e \in Event, Routing!ProcessNotice(e) PROVE RoutingInv'
  BY <1>3 DEF Routing!ProcessNotice
<1>4. ASSUME NEW e \in Event, Routing!ProcessQuestion(e) PROVE RoutingInv'
  BY <1>4 DEF Routing!ProcessQuestion
<1>5. ASSUME NEW e \in Event, Routing!Enter(e) PROVE RoutingInv'
  BY <1>5 DEF Routing!Enter
<1>6. ASSUME NEW e \in Event, Routing!RouteMessage(e) PROVE RoutingInv'
  BY <1>6 DEF Routing!RouteMessage, Routing!Routes
<1>7. ASSUME NEW e \in Event, Routing!RouteUpdate(e) PROVE RoutingInv'
  BY <1>7 DEF Routing!RouteUpdate, Routing!Routed
<1>8. ASSUME NEW e \in Event, Routing!RouteReaction(e) PROVE RoutingInv'
  BY <1>8 DEF Routing!RouteReaction, Routing!Routed
<1>9. ASSUME NEW e \in Event, Routing!RouteCommand(e) PROVE RoutingInv'
  BY <1>9 DEF Routing!RouteCommand, Routing!Routed
<1>10. ASSUME NEW e \in Event, Routing!RouteNotice(e) PROVE RoutingInv'
  BY <1>10 DEF Routing!RouteNotice, Routing!Routed
<1>11. ASSUME NEW e \in Event, Routing!RouteAction(e) PROVE RoutingInv'
  BY <1>11 DEF Routing!RouteAction
<1>12. ASSUME NEW e \in Event, Routing!HandlerEnds(e) PROVE RoutingInv'
  <2>1. route_subscribed' \in BOOLEAN /\ (route_subscribed => route_subscribed')
    BY <1>12 DEF Routing!HandlerEnds
  <2>2. route_next' = [route_next EXCEPT ![e] = @ + 1] /\ route_pc[e] = "handling"
            /\ route_kind[e] \notin Question
        /\ UNCHANGED <<Routing!given, route_pc, route_route, route_answer, route_post,
              Routing!host, route_late>>
    BY <1>12 DEF Routing!HandlerEnds
  <2>3. QED
    BY <2>1, <2>2
<1>13. ASSUME NEW e \in Event, Routing!HandlerFails(e) PROVE RoutingInv'
  BY <1>13 DEF Routing!HandlerFails, Routing!Fault, Routing!Released
<1>14. ASSUME NEW e \in Event, Routing!Ends(e) PROVE RoutingInv'
  BY <1>14 DEF Routing!Ends, Routing!Released
<1>15. ASSUME NEW e \in Event, Routing!Posted(e) PROVE RoutingInv'
  BY <1>15 DEF Routing!Posted
<1>16. ASSUME NEW e \in Event, Routing!Ask(e) PROVE RoutingInv'
  BY <1>16 DEF Routing!Ask, Routing!Asking, Routing!Fault
<1>17. ASSUME NEW e \in Event, Routing!AnswerOptions(e) PROVE RoutingInv'
  BY <1>17 DEF Routing!AnswerOptions, Routing!Asking
<1>18. ASSUME NEW e \in Event, Routing!AnswerSubmit(e) PROVE RoutingInv'
  BY <1>18 DEF Routing!AnswerSubmit, Routing!Asking
<1>19. ASSUME NEW e \in Event, Routing!RoutingFails(e) PROVE RoutingInv'
  BY <1>19 DEF Routing!RoutingFails, Routing!Fault, Routing!Released
<1>20. ASSUME NEW e \in Event, Routing!PostEnds(e) PROVE RoutingInv'
  BY <1>20 DEF Routing!PostEnds
<1>21. ASSUME NEW e \in Event, Routing!Settle(e) PROVE RoutingInv'
  BY <1>21 DEF Routing!Settle, Routing!Ended, Routing!Over
<1>22. ASSUME NEW e \in Event, Routing!HostCancels(e) PROVE RoutingInv'
  <2>1. route_seen' = [route_seen EXCEPT ![e] = "cancelled"] /\ route_view[e] # "none"
            /\ ~Routing!Ended(e)
        /\ UNCHANGED <<Routing!given, route_next, route_route, route_answer, route_view,
              route_subscribed, route_late>>
    BY <1>22 DEF Routing!HostCancels
  <2>2. CASE route_view[e] = "raw"
    <3>1. route_pc' = [route_pc EXCEPT ![e] = IF @ = "done" THEN "done" ELSE "cancelled"]
          /\ route_post' = [route_post EXCEPT ![e] = IF route_pc[e] \in {"done",
                "posting"} THEN "ended" ELSE @]
      BY <1>22, <2>2 DEF Routing!HostCancels
    <3>2. route_pc[e] = "done" => route_kind[e] = "submit"
      BY <2>1 DEF Routing!Ended
    <3>3. RoutingTypes' /\ WaitingAreMessages' /\ QuestionsAreAsked' /\ RawIsAskedFor'
      BY <2>1, <2>2, <3>1, <3>2
    <3>4. PostsAreAwaited' /\ Routing!EventsReachTheirHandlers'
      <4>1. PostsAreAwaited'
        BY <2>1, <2>2, <3>1, <3>2
      <4>2. Routing!SubscribedComesFirst'
        BY <2>1
      <4>3. Routing!EveryHandlerIsAsked'
        BY <2>1, <2>2, <3>1, <3>2
      <4>4. QED
        BY <4>1, <4>2, <4>3
    <3>5. Routing!HostsMayTrustIt'
      BY <2>1, <2>2, <3>1, <3>2
    <3>6. QED
      BY <3>3, <3>4, <3>5
  <2>3. CASE route_view[e] # "raw"
    <3>1. UNCHANGED <<route_pc, route_post>>
      BY <1>22, <2>3 DEF Routing!HostCancels
    <3>2. QED
      BY <2>1, <3>1
  <2>4. QED
    BY <2>2, <2>3
<1>23. CASE UNCHANGED Routing!vars
  BY <1>23 DEF Routing!vars
<1>24. QED
  BY <1>1, <1>2, <1>3, <1>4, <1>5, <1>6, <1>7, <1>8, <1>9, <1>10, <1>11, <1>12, <1>13,
  <1>14, <1>15, <1>16, <1>17, <1>18, <1>19, <1>20, <1>21, <1>22, <1>23 DEF Routing!Next,
          Routing!Process, Routing!TaskStep

\* The part of the run that is EventRouting: the other leaves it alone.
LEMMA RoutingOfTheRun == ChatFairSpec => Routing!Init /\ [][Routing!Next]_Routing!vars
<1>1. ChatFairInit => Routing!Init
  BY DEF ChatFairInit
<1>2. [ChatFairNext]_<<part, vars, routeVars>> => [Routing!Next]_Routing!vars
  BY DEF ChatFairNext, routeVars, Routing!vars, Routing!given, Routing!task, Routing!host
<1>3. QED
  BY <1>1, <1>2, PTL DEF ChatFairSpec

\* However subscriptions, failing handlers and cancellations fall: a message that comes
\* after its thread was subscribed goes to the handlers of subscriptions, and a
\* question ends unanswered only after every handler was asked.
THEOREM EventsAreRouted == ChatFairSpec => []EventsReachTheirHandlers
<1>1. RoutingInv => EventsReachTheirHandlers
  BY DEF RoutingInv, EventsReachTheirHandlers
<1>2. QED
  BY RoutingOfTheRun, RoutingInit, RoutingStep, <1>1, PTL

\* A host that gives up waiting stops no handler, unless it holds the task
\* itself, and what it was handed is fulfilled only when the work has ended.
THEOREM HostsTrustIt == ChatFairSpec => []HostsMayTrustIt
<1>1. RoutingInv => HostsMayTrustIt
  BY DEF RoutingInv, HostsMayTrustIt
<1>2. QED
  BY RoutingOfTheRun, RoutingInit, RoutingStep, <1>1, PTL

\* The semaphore.

\* The module's own name of what FiniteSets defines.
LEMMA SameCount == \A S : Routing!Cardinality(S) = Cardinality(S)
  BY DEF Routing!Cardinality, Cardinality

Busy == {e \in Message : route_pc[e] \in {"routing", "handling"}}

\* Every place is free or with a message.
PlacesAreCounted ==
    /\ route_free \in Nat
    /\ Cardinality(Busy) + route_free = MaxConcurrent
    /\ \A e \in Event : route_kind[e] = "message" <=> e \in Message

\* A message that leaves gives its place back.
LEMMA PlaceIsReturned ==
    ASSUME RoutingTypes, PlacesAreCounted, NEW e \in Event,
           UNCHANGED route_kind, route_pc' = [route_pc EXCEPT ![e] = route_pc'[e]],
           route_pc'[e] \notin {"routing", "handling"}, Routing!Released(e)
    PROVE  PlacesAreCounted'
<1>1. IsFiniteSet(Busy) /\ Cardinality(Busy) \in Nat
  BY RoutingAssumption, FS_Subset, FS_CardinalityType DEF Busy
<1>2. Busy' = Busy \ {e}
  BY RoutingAssumption DEF Busy, RoutingTypes
<1>3. e \in Busy <=> route_kind[e] = "message" /\ route_pc[e] \in {"routing", "handling"}
  BY DEF Busy, PlacesAreCounted
<1>4. Cardinality(Busy') = IF e \in Busy THEN Cardinality(Busy) - 1 ELSE Cardinality(Busy)
  BY <1>1, <1>2, FS_RemoveElement
<1>5. route_free' = IF e \in Busy THEN route_free + 1 ELSE route_free
  BY <1>3 DEF Routing!Released
<1>6. QED
  BY RoutingAssumption, <1>1, <1>4, <1>5 DEF PlacesAreCounted

\* So does a step that leaves whoever is inside there.
LEMMA PlaceIsKept ==
    ASSUME RoutingTypes, PlacesAreCounted, UNCHANGED <<route_kind, route_free>>, Busy' = Busy
    PROVE  PlacesAreCounted'
  BY DEF PlacesAreCounted

\* At most max_concurrent messages are with their handlers, for any events and
\* whatever fails or is cancelled.
THEOREM PlacesAreNotOverdrawn == ChatFairSpec => []Routing!AtMostMaxConcurrent
<1>1. Routing!Init => PlacesAreCounted
  <2> SUFFICES ASSUME Routing!Init PROVE PlacesAreCounted
    OBVIOUS
  <2>1. Busy = {}
    BY RoutingAssumption DEF Routing!Init, Busy
  <2>2. QED
    BY RoutingAssumption, <2>1, FS_EmptySet DEF Routing!Init, PlacesAreCounted
<1>2. RoutingInv /\ PlacesAreCounted /\ [Routing!Next]_Routing!vars => PlacesAreCounted'
  <2> SUFFICES ASSUME RoutingInv, PlacesAreCounted,
            [Routing!Next]_Routing!vars PROVE PlacesAreCounted'
    OBVIOUS
  <2>0. RoutingTypes
    BY DEF RoutingInv
  <2>1. ASSUME NEW e \in Event, Routing!Enter(e) PROVE PlacesAreCounted'
    <3>1. e \in Message /\ e \notin Busy
      BY <2>1 DEF Routing!Enter, Busy, RoutingInv, WaitingAreMessages, PlacesAreCounted
    <3>2. Busy' = Busy \cup {e}
      BY RoutingAssumption, <2>0, <2>1, <3>1 DEF Routing!Enter, Busy, RoutingTypes
    <3>3. IsFiniteSet(Busy) /\ Cardinality(Busy) \in Nat
      BY RoutingAssumption, FS_Subset, FS_CardinalityType DEF Busy
    <3>4. Cardinality(Busy') = Cardinality(Busy) + 1
      BY <3>1, <3>2, <3>3, FS_AddElement
    <3>5. route_free' = route_free - 1 /\ route_free > 0 /\ route_kind' = route_kind
      BY <2>1 DEF Routing!Enter, Routing!given
    <3>6. QED
      BY RoutingAssumption, <3>3, <3>4, <3>5 DEF PlacesAreCounted
  <2>2. ASSUME NEW e \in Event, Routing!RoutingFails(e) \/ Routing!HandlerFails(e)
            \/ Routing!Ends(e) PROVE PlacesAreCounted'
    <3>1. UNCHANGED route_kind /\ Routing!Released(e)
      BY <2>2 DEF Routing!RoutingFails, Routing!HandlerFails, Routing!Ends, Routing!given
    <3>2. route_pc' = [route_pc EXCEPT ![e] = route_pc'[e]]
              /\ route_pc'[e] \notin {"routing", "handling"}
      BY <2>0, <2>2 DEF Routing!RoutingFails, Routing!HandlerFails, Routing!Ends,
                        RoutingTypes
    <3>3. QED
      BY <2>0, <3>1, <3>2, PlaceIsReturned
  <2>3. ASSUME NEW e \in Event, Routing!HostCancels(e) PROVE PlacesAreCounted'
    <3>1. CASE route_view[e] = "raw"
      <4>1. UNCHANGED route_kind /\ Routing!Released(e)
        BY <2>3, <3>1 DEF Routing!HostCancels, Routing!given
      <4>2. route_pc' = [route_pc EXCEPT ![e] = route_pc'[e]]
                /\ route_pc'[e] \notin {"routing", "handling"}
        BY <2>0, <2>3, <3>1 DEF Routing!HostCancels, RoutingTypes
      <4>3. QED
        BY <2>0, <4>1, <4>2, PlaceIsReturned
    <3>2. CASE route_view[e] # "raw"
      <4>1. UNCHANGED <<route_kind, route_free, route_pc>>
        BY <2>3, <3>2 DEF Routing!HostCancels, Routing!given
      <4>2. QED
        BY <2>0, <4>1, PlaceIsKept DEF Busy
    <3>3. QED
      BY <3>1, <3>2
  <2>4. ASSUME NEW e \in Event, Routing!Process(e) \/ Routing!RouteMessage(e)
            \/ Routing!RouteUpdate(e) \/ Routing!RouteReaction(e)
               \/ Routing!RouteCommand(e) \/ Routing!RouteNotice(e)
                     \/ Routing!RouteAction(e) \/ Routing!HandlerEnds(e) \/ Routing!Posted(e)
               \/ Routing!Ask(e) \/ Routing!AnswerOptions(e) \/ Routing!AnswerSubmit(e)
                     \/ Routing!PostEnds(e) \/ Routing!Settle(e)
        PROVE  PlacesAreCounted'
    <3>1. UNCHANGED <<route_kind, route_free>>
      BY <2>4 DEF Routing!Process, Routing!ProcessMessage, Routing!ProcessEvent,
                  Routing!ProcessNotice, Routing!ProcessQuestion, Routing!RouteMessage,
         Routing!RouteUpdate, Routing!RouteReaction, Routing!RouteCommand, Routing!RouteNotice,
               Routing!Routed, Routing!RouteAction, Routing!HandlerEnds, Routing!Posted,
         Routing!Ask, Routing!AnswerOptions, Routing!AnswerSubmit, Routing!PostEnds,
               Routing!Settle, Routing!given
    <3>2. \/ UNCHANGED route_pc
          \/ /\ route_pc' = [route_pc EXCEPT ![e] = route_pc'[e]]
             /\ \/ route_kind[e] # "message"
                \/ route_pc[e] \in {"routing", "handling"} <=> route_pc'[e] \in {"routing",
                      "handling"}
      BY <2>0, <2>4 DEF Routing!Process, Routing!ProcessMessage, Routing!ProcessEvent,
                        Routing!ProcessNotice, Routing!ProcessQuestion,
                                Routing!RouteMessage,
         Routing!RouteUpdate, Routing!RouteReaction, Routing!RouteCommand, Routing!RouteNotice,
               Routing!Routed, Routing!RouteAction, Routing!HandlerEnds, Routing!Posted,
         Routing!Ask, Routing!Asking, Routing!AnswerOptions, Routing!AnswerSubmit,
               Routing!PostEnds, Routing!Settle, RoutingTypes, Routing!task
    <3>3. Busy' = Busy
      BY RoutingAssumption, <2>0, <3>2 DEF Busy, RoutingTypes, PlacesAreCounted
    <3>4. QED
      BY <2>0, <3>1, <3>3, PlaceIsKept
  <2>5. CASE UNCHANGED Routing!vars
    BY <2>0, <2>5, PlaceIsKept DEF Routing!vars, Routing!given, Routing!task, Busy
  <2>6. QED
    BY <2>1, <2>2, <2>3, <2>4, <2>5 DEF Routing!Next, Routing!TaskStep
<1>3. PlacesAreCounted => Routing!AtMostMaxConcurrent
  <2> SUFFICES ASSUME PlacesAreCounted PROVE Routing!AtMostMaxConcurrent
    OBVIOUS
  <2>1. IsFiniteSet(Busy) /\ Cardinality(Busy) \in Nat
    BY RoutingAssumption, FS_Subset, FS_CardinalityType DEF Busy
  <2>2. QED
    BY SameCount, RoutingAssumption, <2>1 DEF PlacesAreCounted, Routing!AtMostMaxConcurrent,
           Busy
<1>4. QED
  BY RoutingOfTheRun, RoutingInit, RoutingStep, <1>1, <1>2, <1>3, PTL
=============================================================================
