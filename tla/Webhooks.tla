------------------------------ MODULE Webhooks ------------------------------
(***************************************************************************)
(* From a platform's HTTP request to the answer.  A platform delivers one  *)
(* batch of events, and again while it waits for an answer or thinks it    *)
(* got none; somebody else may send the same bytes without a signature.    *)
(* A delivery passes the stages of its adapter in order, each of which may *)
(* answer; deliveries overlap wherever a stage awaits.                     *)
(***************************************************************************)
EXTENDS Naturals, Sequences, FiniteSets

CONSTANTS
    Delivery,      \* requests that carry the batch
    NoDelivery,
    MaxFaults      \* bound: awaited calls that fail

VARIABLES
    route,         \* the adapter, and the way into it
    setup,         \* what the adapter was configured with
    letter,        \* [genuine, whole, fresh] of each delivery
    batch,         \* the events: "good", "bad" (raises), "other" (nothing for us)
    stage,         \* of each delivery: the number of its stage, 0 before it is sent
    item,          \* WhatsApp: the event a delivery is at
    answer,        \* the status each delivery was answered with, 0 before
    handed,        \* history: [by, event], what Chat was handed
    marked,        \* who claimed or marked the batch in the state backend
    options,       \* Teams: whose options the bridge holds for the activity's id
    used,          \* history: Teams: whose options went to Chat
    alone,         \* history: Teams: deliveries that met no other in the bridge
    inferred,      \* Google Chat: who taught the adapter its own address
    excused,       \* history: events given up because a call failed
    faults

vars == <<route, setup, letter, batch, stage, item, answer, handed, marked, options,
          used, alone, inferred, excused, faults>>

(***************************************************************************)
(* The stages of each route, each with the status of its refusal           *)
(***************************************************************************)
Slack        == << <<"mode", 405>>, <<"signature", 401>>, <<"challenge", 200>>,
                   <<"token", 500>>, <<"parse", 400>>, <<"seen", 200>>,
                   <<"workspace", 200>>, <<"dispatch", 200>> >>
SlackForm    == << <<"mode", 405>>, <<"signature", 401>>, <<"token", 500>>,
                   <<"workspace", 200>>, <<"parse", 400>>, <<"dispatch", 200>> >>
SlackForward == << <<"signature", 401>>, <<"parse", 400>>, <<"fresh", 401>>,
                   <<"workspace", 200>>, <<"dispatch", 200>> >>
Messenger    == << <<"signature", 403>>, <<"parse", 400>>, <<"dispatch", 200>> >>
WhatsApp     == << <<"signature", 401>>, <<"parse", 400>>, <<"each", 200>> >>
Twilio       == << <<"signature", 401>>, <<"parse", 400>>, <<"dispatch", 200>> >>
GitHub       == << <<"signature", 401>>, <<"challenge", 200>>, <<"parse", 400>>,
                   <<"installation", 500>>, <<"identity", 200>>, <<"dispatch", 200>> >>
Linear       == << <<"signature", 401>>, <<"parse", 400>>, <<"fresh", 401>>,
                   <<"dispatch", 200>> >>
Gateway      == << <<"signature", 401>>, <<"parse", 400>>, <<"dispatch", 200>> >>
Discord      == << <<"signature", 401>>, <<"parse", 400>>, <<"challenge", 200>>,
                   <<"dispatch", 200>> >>
PubSub       == << <<"parse", 400>>, <<"signature", 401>>, <<"dispatch", 200>> >>
GoogleChat   == << <<"parse", 400>>, <<"signature", 401>>, <<"address", 200>>,
                   <<"dispatch", 200>> >>
Teams        == << <<"parse", 400>>, <<"registered", 500>>, <<"issuer", 401>>,
                   <<"record", 401>>, <<"signature", 401>>, <<"context", 500>>,
                   <<"dispatch", 200>>, <<"finish", 200>> >>

\* Mutant: the update is claimed before its secret token is looked at.
MutTelegram == << <<"parse", 400>>, <<"scope", 503>>, <<"claim", 503>>,
                   <<"signature", 401>>, <<"dispatch", 200>> >>

Telegram == << <<"signature", 401>>, <<"parse", 400>>, <<"scope", 503>>,
                   <<"claim", 503>>, <<"dispatch", 200>> >>

Routes == [slack |-> Slack, slackForm |-> SlackForm, slackForward |-> SlackForward,
           messenger |-> Messenger, whatsapp |-> WhatsApp, twilio |-> Twilio,
           github |-> GitHub, linear |-> Linear, gateway |-> Gateway,
           discord |-> Discord, pubsub |-> PubSub, gchat |-> GoogleChat,
           teams |-> Teams, telegram |-> Telegram]

Batches == [messenger |-> {<<a, b>> : a, b \in {"good", "bad", "other"}},
            whatsapp  |-> {<<a, b>> : a, b \in {"good", "bad", "other"}}]
BatchesOf(r) == IF r \in DOMAIN Batches THEN Batches[r]
                ELSE {<<a>> : a \in {"good", "bad", "other", "ping"}}

\* verification: "on"; "missing", nothing to verify with; "off", waived.
Setups(r) ==
    {s \in [verification : {"on", "missing", "off"}, ready : BOOLEAN, known : BOOLEAN] :
        /\ s.verification # "on" => r \in {"telegram", "pubsub", "gchat"}
        /\ ~s.ready => r \in {"slack", "slackForm", "teams"}
        /\ ~s.known => r \in {"slack", "slackForm", "slackForward"}}

Letters(r) ==
    {l \in [genuine : BOOLEAN, whole : BOOLEAN, fresh : BOOLEAN] :
        /\ l.genuine => l.whole /\ (r # "slackForward" => l.fresh)
        /\ ~l.genuine => l.fresh}

At(d) == Routes[route][stage[d]][1]
Code(d) == Routes[route][stage[d]][2]
Running(d) == stage[d] > 0 /\ answer[d] = 0
Is(kind) == \E i \in DOMAIN batch : batch[i] = kind
Kept == <<route, setup, letter, batch>>

Init ==
    /\ route \in DOMAIN Routes
    /\ setup \in Setups(route)
    /\ letter \in [Delivery -> Letters(route)]
    /\ batch \in BatchesOf(route)
    /\ stage = [d \in Delivery |-> 0]
    /\ item = [d \in Delivery |-> 1]
    /\ answer = [d \in Delivery |-> 0]
    /\ handed = {}
    /\ marked = NoDelivery
    /\ options = NoDelivery
    /\ used = [d \in Delivery |-> d]
    /\ alone = {}
    /\ inferred = NoDelivery
    /\ excused = {}
    /\ faults = 0

(***************************************************************************)
(* Answering, and going on                                                 *)
(***************************************************************************)
Recorded(d) == route = "teams" /\ stage[d] > 4

\* Mutant: the bridge keeps the options of a delivery it has answered.
MutForget(d) == UNCHANGED <<options, alone>>

\* Teams: whatever the answer, the options under the activity's id go.
Forget(d) ==
    IF Recorded(d) THEN /\ options' = NoDelivery
                        /\ alone' = IF options = d THEN alone ELSE alone \ {options}
    ELSE UNCHANGED <<options, alone>>

Answer(d, code) ==
    /\ answer' = [answer EXCEPT ![d] = code]
    /\ Forget(d)
    /\ UNCHANGED stage

GoOn(d) ==
    /\ stage' = [stage EXCEPT ![d] = @ + 1]
    /\ UNCHANGED <<answer, options, alone>>

Fault == faults < MaxFaults /\ faults' = faults + 1

\* A platform may deliver again at any time; so may anybody deliver anything.
Send(d) ==
    /\ stage[d] = 0
    /\ stage' = [stage EXCEPT ![d] = 1]
    /\ UNCHANGED <<Kept, item, answer, handed, marked, options, used, alone, inferred,
                   excused, faults>>

Trusted(d) == letter[d].genuine \/ setup.verification = "off"

\* Mutant: without a verifier of its own a transport is let through.
MutPasses(d, s) ==
    CASE s = "signature"  -> Trusted(d) \/ setup.verification = "missing"
      [] s = "parse"      -> letter[d].whole
      [] s = "fresh"      -> letter[d].fresh
      [] s = "mode"       -> setup.ready
      [] s = "registered" -> setup.ready
      [] s = "challenge"  -> ~Is("ping")

\* Whether a delivery gets past a check.
Passes(d, s) ==
    CASE s = "signature"  -> setup.verification # "missing" /\ Trusted(d)
      [] s = "parse"      -> letter[d].whole
      [] s = "fresh"      -> letter[d].fresh
      [] s = "mode"       -> setup.ready
      [] s = "registered" -> setup.ready
      [] s = "challenge"  -> ~Is("ping")

Check(d) ==
    /\ Running(d)
    /\ At(d) \in {"signature", "parse", "fresh", "mode", "registered", "challenge"}
    /\ IF Passes(d, At(d)) THEN GoOn(d) ELSE Answer(d, Code(d))
    /\ UNCHANGED <<Kept, item, handed, marked, used, inferred, excused, faults>>

\* Calls of the state backend or the platform on the way: the bot's token, the
\* workspace's, the installation, the bot's identity, the scope of claims, the
\* user's context.
Calls == {"token", "workspace", "installation", "identity", "scope", "context"}

Ask(d) ==
    /\ Running(d)
    /\ At(d) \in Calls
    /\ \/ /\ IF At(d) = "workspace" /\ ~setup.known THEN Answer(d, Code(d)) ELSE GoOn(d)
          /\ UNCHANGED faults
       \/ /\ Fault
          /\ CASE At(d) = "identity"  -> GoOn(d)
               [] At(d) = "workspace" -> Answer(d, 500)
               [] OTHER               -> Answer(d, Code(d))
    /\ UNCHANGED <<Kept, item, handed, marked, used, inferred, excused>>

\* Google Chat: a verified request tells the adapter where it is reached.
LearnAddress(d) ==
    /\ Running(d)
    /\ At(d) = "address"
    /\ inferred' = IF inferred = NoDelivery THEN d ELSE inferred
    /\ GoOn(d)
    /\ UNCHANGED <<Kept, item, handed, marked, used, excused, faults>>

\* Slack: a retry of what was dispatched is acknowledged.  A failed read means no.
LookForMarker(d) ==
    /\ Running(d)
    /\ At(d) = "seen"
    /\ \/ /\ IF marked # NoDelivery THEN Answer(d, Code(d)) ELSE GoOn(d)
          /\ UNCHANGED faults
       \/ Fault /\ GoOn(d)
    /\ UNCHANGED <<Kept, item, handed, marked, used, inferred, excused>>

\* Mutant: an update whose claim fails is dispatched all the same.
MutClaim(d) ==
    /\ Running(d)
    /\ At(d) = "claim"
    /\ \/ /\ IF marked = NoDelivery THEN GoOn(d) /\ marked' = d
             ELSE Answer(d, 200) /\ UNCHANGED marked
          /\ UNCHANGED faults
       \/ Fault /\ GoOn(d) /\ UNCHANGED marked
    /\ UNCHANGED <<Kept, item, handed, used, inferred, excused>>

\* Telegram: the update's id is claimed; a call that fails may have claimed it.
Claim(d) ==
    /\ Running(d)
    /\ At(d) = "claim"
    /\ \/ /\ IF marked = NoDelivery THEN GoOn(d) /\ marked' = d
             ELSE Answer(d, 200) /\ UNCHANGED marked
          /\ UNCHANGED <<faults, excused>>
       \/ /\ Fault
          /\ Answer(d, Code(d))
          /\ \/ UNCHANGED <<marked, excused>>
             \/ /\ marked = NoDelivery
                /\ marked' = d
                /\ excused' = excused \cup DOMAIN batch
    /\ UNCHANGED <<Kept, item, handed, used, inferred>>

\* Teams: the issuer a token claims is looked at before anything is kept; a token
\* that claims the right one may still be forged.
LookAtIssuer(d) ==
    /\ Running(d)
    /\ At(d) = "issuer"
    /\ GoOn(d) \/ (~letter[d].genuine /\ Answer(d, Code(d)))
    /\ UNCHANGED <<Kept, item, handed, marked, used, inferred, excused, faults>>

\* Teams: the options are kept under the activity's id for the handlers.
RecordOptions(d) ==
    /\ Running(d)
    /\ At(d) = "record"
    /\ options' = d
    /\ alone' = IF options = NoDelivery /\ ~\E e \in Delivery : Running(e) /\ Recorded(e)
                THEN alone \cup {d} ELSE alone \ {options}
    /\ stage' = [stage EXCEPT ![d] = @ + 1]
    /\ UNCHANGED <<Kept, item, answer, handed, marked, used, inferred, excused, faults>>

(***************************************************************************)
(* Handing the events to Chat                                              *)
(***************************************************************************)
\* Mutant: an event that raises is answered as if it had been handled.
MutRaised == 200

\* The answer when an event raises: Telegram and Pub/Sub must not see it again,
\* the gateway's is taken for bad JSON.
Raised == CASE route \in {"telegram", "pubsub"} -> 200
            [] route = "gateway"                -> 400
            [] OTHER                            -> 500

\* The events before the first that raises.
Reached == {i \in DOMAIN batch : \A j \in 1 .. i : batch[j] # "bad"}

Dispatch(d) ==
    /\ Running(d)
    /\ At(d) = "dispatch"
    /\ handed' = handed \cup {[by |-> d, event |-> i] : i \in {j \in Reached : batch[j] = "good"}}
    /\ used' = IF route = "teams" THEN [used EXCEPT ![d] = options] ELSE used
    /\ marked' = IF route \in {"slack", "slackForward"} THEN d ELSE marked
    /\ IF Is("bad") THEN Answer(d, Raised)
       ELSE IF route = "teams" THEN GoOn(d) ELSE Answer(d, 200)
    /\ UNCHANGED <<Kept, item, inferred, excused, faults>>

\* Teams: a direct message is answered once its handler is done.
Finish(d) ==
    /\ Running(d)
    /\ At(d) = "finish"
    /\ Answer(d, 200)
    /\ UNCHANGED <<Kept, item, handed, marked, used, inferred, excused, faults>>

\* Mutant: the first message that fails ends the batch.
MutAfterFailure(d) == Len(batch) + 1

AfterFailure(d) == item[d] + 1

\* WhatsApp: each message on its own, after the identity of its sender; what fails
\* is logged.
Each(d) ==
    /\ Running(d)
    /\ At(d) = "each"
    /\ IF item[d] > Len(batch)
       THEN Answer(d, 200) /\ UNCHANGED <<item, handed, excused, faults>>
       ELSE /\ UNCHANGED <<stage, answer, options, alone>>
            /\ \/ /\ item' = [item EXCEPT ![d] = IF batch[@] = "bad" THEN AfterFailure(d) ELSE @ + 1]
                  /\ handed' = IF batch[item[d]] = "good"
                               THEN handed \cup {[by |-> d, event |-> item[d]]} ELSE handed
                  /\ UNCHANGED <<faults, excused>>
               \/ /\ Fault
                  /\ excused' = excused \cup {item[d]}
                  /\ item' = [item EXCEPT ![d] = AfterFailure(d)]
                  /\ UNCHANGED handed
    /\ UNCHANGED <<Kept, marked, used, inferred>>

Finished == (\A d \in Delivery : stage[d] > 0 /\ answer[d] # 0) /\ UNCHANGED vars

Next ==
    \/ \E d \in Delivery :
          \/ Send(d) \/ Check(d) \/ Ask(d) \/ LearnAddress(d) \/ LookForMarker(d)
          \/ LookAtIssuer(d) \/ Claim(d) \/ RecordOptions(d) \/ Dispatch(d) \/ Finish(d) \/ Each(d)
    \/ Finished

Spec == Init /\ [][Next]_vars

(***************************************************************************)
(* Properties                                                              *)
(***************************************************************************)
TypeOK ==
    /\ route \in DOMAIN Routes
    /\ stage \in [Delivery -> 0 .. 8]
    /\ answer \in [Delivery -> {0, 200, 400, 401, 403, 405, 500, 503}]
    /\ handed \subseteq [by : Delivery, event : DOMAIN batch]
    /\ {marked, options, inferred} \subseteq Delivery \cup {NoDelivery}
    /\ excused \subseteq DOMAIN batch
    /\ faults \in 0 .. MaxFaults

\* Once the platform is told its delivery was taken, it will not send it again: each
\* event in it that Chat should see has been handed over by then, by this delivery or
\* by one that overlaps it and has the claim.  A workspace without installation is
\* refused that way on purpose; a WhatsApp sender whose identity could not be read
\* and a Telegram claim that landed and failed are the cases the code gives up.
AcknowledgedIsHandled ==
    \A d \in Delivery : \A i \in DOMAIN batch :
        /\ answer[d] = 200 /\ letter[d].genuine /\ setup.known
        /\ batch[i] = "good"
        /\ \A e \in Delivery : ~Running(e)
        => i \in excused \/ \E h \in handed : h.event = i

\* A request without a valid signature changes nothing, unless verification was
\* waived: it hands nothing over, takes no claim or marker a genuine delivery would
\* then find, and does not teach the adapter its address.
RefusedLeavesNoTrace ==
    /\ \A h \in handed : Trusted(h.by)
    /\ \A d \in {marked, inferred} \ {NoDelivery} : Trusted(d)

\* Telegram: however often and however closely an update is delivered, its claim
\* lets one delivery through.
ClaimedIsHandedOnce ==
    route = "telegram" =>
        \A i \in DOMAIN batch : Cardinality({h \in handed : h.event = i}) <= 1

\* Teams: the options (a host's wait_until) that go to Chat with an activity are
\* those of its own delivery unless another delivery of the activity met it in the
\* bridge; and the bridge forgets them all.
OptionsAreTheDeliverys ==
    /\ \A d \in alone : used[d] = d
    /\ (\A d \in Delivery : ~Running(d)) => options = NoDelivery

WebhooksKeepFaith ==
    /\ TypeOK
    /\ AcknowledgedIsHandled
    /\ RefusedLeavesNoTrace
    /\ ClaimedIsHandedOnce
    /\ OptionsAreTheDeliverys
=============================================================================
