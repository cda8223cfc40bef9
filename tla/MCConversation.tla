--------------------------- MODULE MCConversation ---------------------------
(***************************************************************************)
(* A conversation for TLC: its messages on the way in (the routing of      *)
(* ChatDispatch, and how the adapters name threads and tell their own      *)
(* words), on the way out, and the walk through its history.               *)
(***************************************************************************)
EXTENDS ConversationProofs

CONSTANTS
    d1, d2, d3, d4,  \* deliveries
    OwnSteps,        \* bound on what is done to a restored thread
    UserEvents,      \* bound on WhatsApp's webhooks
    UserFaults       \* bound on the calls of the state that fail meanwhile

ASSUME RevivedAssumption == OwnSteps \in Nat

VARIABLES
    part,    \* which part moves: one per behaviour
    walk_walk, walk_stored, walk_created, walk_cursor, walk_seen, walk_pages,
    walk_done, walk_kept, walk_cursorGone,
    post_platform, post_posts, post_world, post_rich, post_answered,
    post_deferred, post_parentKnown, post_faults,
    card_platform, card_card, card_place, card_screen, card_record,
    card_press, card_wire, card_events, card_seen,
    own_kind, own_default, own_active, own_object, own_last, own_steps,
    md_platform, md_opener, md_form, md_handlers, md_closers, md_views,
    md_contexts, md_last, md_posts, md_closed, md_menu, md_steps,
    wa_alias, wa_route, wa_pace, wa_era, wa_rotated, wa_task, wa_loose,
    wa_quiet, wa_home, wa_known, wa_told, wa_last, wa_events, wa_faults

\* d1 .. d4 are deliveries, the last of the message of the first; two threads share
\* a channel-scoped lock.
FirstIsRedelivered == [d \in {d1, d2, d3, d4} |-> IF d = d4 THEN d1 ELSE d]
TwoThreads == [d \in {d1, d2, d3, d4} |-> IF d \in {d2, d3} THEN "u" ELSE "t"]

Config(strategy, conflict, full) ==
    [strategy |-> strategy, onLockConflict |-> conflict, onQueueFull |-> full]

\* Every strategy, each with the policy that lets the most happen, and its faults.
EveryStrategy ==
    {Config("drop", "callback", "drop-oldest"),
     Config("queue", "drop", "drop-oldest"),
     Config("debounce", "drop", "drop-oldest"),
     Config("burst", "drop", "drop-newest")}
SomeFaults == [drop |-> 1, queue |-> 1, debounce |-> 0, burst |-> 1]

\* Every adapter, in both directions.
EveryWalk == [platform : {"slack thread", "slack channel", "gchat thread",
                          "gchat channel", "discord", "telegram", "messenger", "teams chat",
                          "teams group thread", "teams thread", "teams channel",
                          "linear comment", "linear session", "linear issue",
                          "linear activities", "github issue", "github review",
                          "twilio", "whatsapp"},
              direction : {"forward", "backward"}]

History == INSTANCE Pagination WITH
    Walks <- EveryWalk, Limit <- 2, FetchLimit <- 4, ListLimit <- 3, MaxHistory <-
    7, MaxArrivals <- 1, MaxDeletions <- 1, MaxPages <- 9, Roots <- {1, 3, 4, 6, 8},
    Ours <- {2, 5, 6}, ThreadStart <- 3, Twin <- 4, walk <- walk_walk, stored <-
    walk_stored, created <- walk_created, cursor <- walk_cursor, seen <- walk_seen,
    pages <- walk_pages, done <- walk_done, kept <- walk_kept, cursorGone <-
    walk_cursorGone

walkVars == <<walk_walk, walk_stored, walk_created, walk_cursor, walk_seen,
    walk_pages, walk_done, walk_kept, walk_cursorGone>>

Outgoing == INSTANCE Posting WITH
    Post <- {"p1", "p2"}, First <- "p1", MaxFaults <- 2, platform <- post_platform,
    posts <- post_posts, world <- post_world, rich <- post_rich, answered <-
    post_answered, deferred <- post_deferred, parentKnown <- post_parentKnown,
    faults <- post_faults

postVars == <<post_platform, post_posts, post_world, post_rich, post_answered,
    post_deferred, post_parentKnown, post_faults>>

Screens == INSTANCE Cards WITH
    Radios <- 2, Replies <- 2, IdLimit <- 4, DataLimit <- 3, platform <-
    card_platform, card <- card_card, place <- card_place, screen <- card_screen,
    record <- card_record, press <- card_press, wire <- card_wire, events <-
    card_events, seen <- card_seen

cardVars == <<card_platform, card_card, card_place, card_screen, card_record,
    card_press, card_wire, card_events, card_seen>>

Revived == INSTANCE Ownership WITH
    MaxSteps <- OwnSteps, kind <- own_kind, default <- own_default, active <- own_active,
    object <- own_object, last <- own_last, steps <- own_steps

ownVars == <<own_kind, own_default, own_active, own_object, own_last,
    own_steps>>

Forms == INSTANCE Modals WITH
    Radios <- 2, Menu <- 2, MaxSteps <- 3, platform <- md_platform, opener <-
    md_opener, form <- md_form, handlers <- md_handlers, closers <- md_closers,
    views <- md_views, contexts <- md_contexts, last <- md_last, posts <- md_posts,
    closed <- md_closed, menu <- md_menu, steps <- md_steps

mdVars == <<md_platform, md_opener, md_form, md_handlers, md_closers, md_views,
    md_contexts, md_last, md_posts, md_closed, md_menu, md_steps>>

Users == INSTANCE WhatsAppIdentity WITH
    MaxEvents <- UserEvents, MaxFaults <- UserFaults, alias <- wa_alias, route <- wa_route, pace <-
    wa_pace, era <- wa_era, rotated <- wa_rotated, task <- wa_task, loose <-
    wa_loose, quiet <- wa_quiet, home <- wa_home, known <- wa_known, told <-
    wa_told, last <- wa_last, events <- wa_events, faults <- wa_faults

waVars == <<wa_alias, wa_route, wa_pace, wa_era, wa_rotated, wa_task, wa_loose,
    wa_quiet, wa_home, wa_known, wa_told, wa_last, wa_events, wa_faults>>

-----------------------------------------------------------------------------
ConversationInit ==
    /\ part \in {"dispatch", "history", "outgoing", "incoming", "requests", "workspaces", "guarded", "queued", "cards", "agents", "revived", "modals", "users"}
    \* What does not move starts in one way.
    /\ \/ part = "modals"
       \/ part # "modals" /\ md_platform = "teams" /\ md_form = [Forms!PlainForm EXCEPT !.url = "none"]
    /\ Forms!Init
    /\ \/ part = "dispatch"
       \/ part # "dispatch" /\ config = Config("drop", "callback", "drop-oldest")
    /\ Init
    /\ \/ part = "history"
       \/ part # "history" /\ walk_walk = [platform |-> "twilio", direction |-> "forward"]
    /\ History!Init
    /\ part # "history" => walk_created = 0
    /\ \/ part = "outgoing"
       \/ part # "outgoing" /\ post_platform = "twilio"
    /\ Outgoing!Init
    /\ \/ part = "incoming"
       \/ part # "incoming" /\ in_platform = "twilio"
    /\ Incoming!Init
    /\ \/ part = "requests"
       \/ part # "requests" /\ web_route = "twilio" /\ web_batch = <<"good">>
    /\ Requests!Init
    /\ part # "requests" => \A d \in WebDelivery : web_letter[d].genuine
    /\ \/ part = "workspaces"
       \/ part # "workspaces" /\ ws_mode = "sync"
    /\ Workspaces!Init
    /\ \/ part = "guarded"
       \/ part # "guarded" /\ dl_form = "mapping" /\ dl_listed = FALSE
    /\ Guarded!Init
    /\ \/ part = "queued"
       \/ part # "queued" /\ qf_form = "twilio"
    /\ Queued!Init
    /\ \/ part = "cards"
       \/ part # "cards" /\ card_platform = "twilio" /\ card_card = Screens!PlainCard
    /\ Screens!Init
    /\ \/ part = "agents"
       \/ part # "agents" /\ ag_setup = Agents!PlainSetup
    /\ Agents!Init
    /\ \/ part = "revived"
       \/ part # "revived" /\ own_kind = "channel" /\ own_default = "none" /\ own_active = "none" /\ own_object = Revived!Nameless
    /\ Revived!Init
    /\ \/ part = "users"
       \/ part # "users" /\ wa_pace = "together" /\ wa_rotated = FALSE
    /\ Users!Init
    /\ part # "users" => wa_known = [w \in {"ann", "bob"} |-> {}]

ConversationNext ==
    \/ /\ part = "dispatch" /\ Next
       /\ UNCHANGED <<part, walkVars, postVars, inVars, webVars, wsVars, dlVars, qfVars, cardVars, agVars, ownVars, mdVars, waVars>>
    \/ /\ part = "history" /\ History!Next
       /\ UNCHANGED <<part, vars, postVars, inVars, webVars, wsVars, dlVars, qfVars,
          cardVars, agVars, ownVars, mdVars, waVars>>
    \/ /\ part = "outgoing" /\ Outgoing!Next
       /\ UNCHANGED <<part, vars, walkVars, inVars, webVars, wsVars, dlVars, qfVars,
          cardVars, agVars, ownVars, mdVars, waVars>>
    \/ /\ part = "incoming" /\ Incoming!Next
       /\ UNCHANGED <<part, vars, walkVars, postVars, webVars, wsVars, dlVars,
          qfVars, cardVars, agVars, ownVars, mdVars, waVars>>
    \/ /\ part = "requests" /\ Requests!Next
       /\ UNCHANGED <<part, vars, walkVars, postVars, inVars, wsVars, dlVars,
          qfVars, cardVars, agVars, ownVars, mdVars, waVars>>
    \/ /\ part = "workspaces" /\ Workspaces!Next
       /\ UNCHANGED <<part, vars, walkVars, postVars, inVars, webVars, dlVars,
          qfVars, cardVars, agVars, ownVars, mdVars, waVars>>
    \/ /\ part = "guarded" /\ Guarded!Next
       /\ UNCHANGED <<part, vars, walkVars, postVars, inVars, webVars, wsVars,
          qfVars, cardVars, agVars, ownVars, mdVars, waVars>>
    \/ /\ part = "queued" /\ Queued!Next
       /\ UNCHANGED <<part, vars, walkVars, postVars, inVars, webVars, wsVars,
          dlVars, cardVars, agVars, ownVars, mdVars, waVars>>
    \/ /\ part = "cards" /\ Screens!Next
       /\ UNCHANGED <<part, vars, walkVars, postVars, inVars, webVars, wsVars,
          dlVars, qfVars, agVars, ownVars, mdVars, waVars>>
    \/ /\ part = "agents" /\ Agents!Next
       /\ UNCHANGED <<part, vars, walkVars, postVars, inVars, webVars, wsVars,
          dlVars, qfVars, cardVars, ownVars, mdVars, waVars>>
    \/ /\ part = "revived" /\ Revived!Next
       /\ UNCHANGED <<part, vars, walkVars, postVars, inVars, webVars, wsVars,
          dlVars, qfVars, cardVars, agVars, mdVars, waVars>>
    \/ /\ part = "modals" /\ Forms!Next
       /\ UNCHANGED <<part, vars, walkVars, postVars, inVars, webVars, wsVars,
          dlVars, qfVars, cardVars, agVars, ownVars, waVars>>
    \/ /\ part = "users" /\ Users!Next
       /\ UNCHANGED <<part, vars, walkVars, postVars, inVars, webVars, wsVars,
          dlVars, qfVars, cardVars, agVars, ownVars, mdVars>>
    \* Whatever has no more to do.
    \/ part # "dispatch" /\ UNCHANGED <<part, vars, walkVars, postVars, inVars, webVars, wsVars, dlVars, qfVars, cardVars, agVars, ownVars, mdVars, waVars>>

ConversationSpec == ConversationInit /\ [][ConversationNext]_<<part, vars, walkVars,
    postVars, inVars, webVars, wsVars, dlVars, qfVars, cardVars, agVars, ownVars,
    mdVars, waVars>>

-----------------------------------------------------------------------------
\* Of the part that moves; the others stand at their first state.
WalksAreWhole == part = "history" => History!WalksAreWhole
PostsAreWhole ==
    /\ part = "outgoing" => Outgoing!PostsAreWhole
    /\ part = "cards" => Screens!CardsAreUnderstood
    /\ part = "modals" => Forms!ModalsKeepTheirForms
EventsFindTheirThread ==
    /\ part = "incoming" => Incoming!EventsFindTheirThread
    /\ part = "agents" => Agents!AgentsStayInTheirThread
    /\ part = "revived" => Revived!ObjectsStayTheirChats
    /\ part = "users" => Users!UsersKeepTheirThread
OwnWordsAreIgnored    == part = "incoming" => Incoming!OwnWordsAreIgnored
WebhooksKeepFaith     == part = "requests" => Requests!WebhooksKeepFaith

\* What is fetched with credentials, a file or a user of a Slack workspace, is
\* fetched from where it may be and with those meant for it.
CredentialsStayHome ==
    /\ part = "guarded" => Guarded!DownloadsAreGuarded
    /\ part = "queued" => Queued!FilesSurviveTheQueue
    /\ part = "workspaces" => Workspaces!WorkspacesAreApart
-----------------------------------------------------------------------------
(* Threads and channels that were restored, with any number of steps.      *)

ChatsOr == Revived!Chats \cup {Revived!None}
AdaptersOr == Revived!Adapters \cup {Revived!None}
HeardMessages == [mention : {"unset", "no", "yes"}, system : {"unset", "no", "yes"},
                    reply : {"unset", "r1"},
          key : {"u", Revived!None}, adapter : AdaptersOr]
OwnedBindings == [on : BOOLEAN, explicit : ChatsOr, owner : ChatsOr, checked : ChatsOr]
OwnedObjects == [form : {"object"}, adapter : AdaptersOr, name : {Revived!None, "", "slack"},
                   binding : OwnedBindings,
            state : ChatsOr, streaming : ChatsOr, turn : ChatsOr, recent : ChatsOr,
                  history : ChatsOr,
            channel : {<<>>} \cup (Revived!Adapters \X ChatsOr), message : HeardMessages]
OwnedTexts == [form : {"json"}, name : {"", "slack"},
                 message : {Revived!Written(m) : m \in HeardMessages}]

\* A binding that found an owner found one that has the adapter, and the state that is
\* kept is that owner's; what is not bound has an adapter; what is bound streams by its
\* owner; and a channel was made of the adapter.
SoundObject(o) ==
    /\ o \in OwnedObjects
    /\ ~o.binding.on => o.binding = Revived!NoBinding /\ o.adapter # Revived!None
    /\ (o.binding.on /\ o.binding.owner # Revived!None /\ o.adapter # Revived!None) =>
          Revived!Owns(o.binding.owner, o.adapter)
    /\ o.binding.on => o.streaming = Revived!None /\ (o.state # Revived!None =>
                                                        o.state = o.binding.owner)
    /\ o.adapter = Revived!None => o.name # Revived!None /\ (o.name = "slack" =>
                                                               o.binding.owner = Revived!None)
    /\ o.name = "" => o.adapter = Revived!None
    /\ o.channel # <<>> => o.channel[1] = o.adapter

OwnershipInv ==
    /\ own_default \in ChatsOr /\ own_active \in ChatsOr /\ own_steps \in 0 .. OwnSteps
    /\ own_object \in OwnedTexts \/ SoundObject(own_object)
    /\ Revived!ObjectsStayTheirChats

ChatsKnown == own_default \in ChatsOr /\ own_active \in ChatsOr

LEMMA NoneIsNoOne == Revived!None \notin Revived!Chats
      /\ Revived!None \notin Revived!Adapters /\ Revived!None # "" /\ Revived!None # "slack"
BY DEF Revived!None, Revived!Chats, Revived!Adapters

LEMMA SingletonsAre == ChatsKnown => Revived!Singleton \in ChatsOr
BY DEF ChatsKnown, Revived!Singleton

\* Whoever is found under a name has the adapter.
LEMMA NamedAreOwned ==
    ASSUME NEW c \in Revived!Chats, NEW n
    PROVE  /\ Revived!Named(c, n) \in AdaptersOr
           /\ Revived!Named(c, n) # Revived!None => Revived!Owns(c, Revived!Named(c, n))
BY DEF Revived!Chats, Revived!Named, Revived!Registered, AdaptersOr, Revived!Adapters,
       Revived!Owns, Revived!None

\* Looking for the owner finds one that has the adapter, and once.
LEMMA OwnersAreFound ==
    ASSUME ChatsKnown, NEW b \in OwnedBindings, NEW a, NEW r, r = Revived!OwnerResolved(b, a)
    PROVE  /\ r \in OwnedBindings /\ r.on = b.on /\ r.explicit = b.explicit
           /\ b.owner # Revived!None => r = b
           /\ ~b.on => r = b
           /\ b.owner = Revived!None /\ r.owner # Revived!None => Revived!Owns(r.owner, a)
           /\ Revived!OwnerResolved(r, a) = r
<1> DEFINE chat == IF b.explicit # Revived!None THEN b.explicit ELSE Revived!Singleton
<1>1. chat \in ChatsOr
  BY SingletonsAre DEF OwnedBindings
<1>2. CASE ~b.on \/ b.owner # Revived!None \/ chat = Revived!None \/ chat = b.checked
  <2>1. r = b
    BY <1>2 DEF Revived!OwnerResolved
  <2>2. QED
    BY <2>1
<1>3. CASE ~(~b.on \/ b.owner # Revived!None \/ chat = Revived!None \/ chat = b.checked)
  <2>1. PICK w : w = IF Revived!Owns(chat, a) THEN chat ELSE Revived!None
    OBVIOUS
  <2>2. r = [b EXCEPT !.checked = chat, !.owner = w]
    BY <1>3, <2>1 DEF Revived!OwnerResolved
  <2>3. w \in ChatsOr /\ (w # Revived!None => Revived!Owns(w, a))
    BY <1>1, <2>1 DEF ChatsOr
  <2>4. /\ r \in OwnedBindings /\ r.on = b.on /\ r.explicit = b.explicit /\ r.owner = w
        /\ r.checked = chat
    BY <1>1, <2>2, <2>3 DEF OwnedBindings
  <2>5. Revived!OwnerResolved(r, a) = r
    BY <2>4 DEF Revived!OwnerResolved
  <2>6. QED
    BY <1>3, <2>3, <2>4, <2>5
<1>4. QED
  BY <1>2, <1>3

\* Only what changes the binding or the adapter changes what holds of an object.
LEMMA Rebound ==
    ASSUME NEW o, SoundObject(o), NEW b \in OwnedBindings, b.on = o.binding.on, ~b.on =>
          b = o.binding,
           o.binding.owner # Revived!None => b = o.binding,
           o.adapter # Revived!None, b.owner # Revived!None =>
                 b = o.binding \/ Revived!Owns(b.owner, o.adapter),
           NEW n, n = [o EXCEPT !.binding = b]
    PROVE  SoundObject(n)
<1>1. /\ n \in OwnedObjects /\ n.binding = b /\ n.adapter = o.adapter /\ n.name = o.name
      /\ n.state = o.state
      /\ n.streaming = o.streaming /\ n.channel = o.channel
  BY DEF SoundObject, OwnedObjects
<1>2. QED
  BY <1>1 DEF SoundObject

\* The adapter is looked up: once it is found, so is its owner.
LEMMA AdaptersAreFound ==
    ASSUME ChatsKnown, NEW o, SoundObject(o), NEW w, w = Revived!WithAdapter(o)
    PROVE  /\ w.raised \in BOOLEAN /\ SoundObject(w.o) /\ (w.raised =>
                                                             w.o = o /\ o.adapter = Revived!None)
           /\ w.o.state = o.state /\ w.o.channel = o.channel /\ w.o.streaming = o.streaming
           /\ w.o.message = o.message /\ w.o.name = o.name
           /\ w.o.binding.on = o.binding.on /\ w.o.binding.explicit = o.binding.explicit
           /\ ~w.raised => w.o.adapter # Revived!None
                 /\ Revived!OwnerResolved(w.o.binding, w.o.adapter) = w.o.binding
           /\ o.adapter # Revived!None => /\ ~w.raised /\ w.o = Revived!Resolved(o)
                                          /\ o.binding.owner # Revived!None => w.o = o
<1>0. o \in OwnedObjects /\ o.binding \in OwnedBindings
  BY DEF SoundObject, OwnedObjects
<1>1. CASE o.adapter # Revived!None
  <2>1. PICK b : b = Revived!OwnerResolved(o.binding, o.adapter)
    OBVIOUS
  <2>2. w = [o |-> [o EXCEPT !.binding = b], raised |-> FALSE]
    BY <1>1, <2>1 DEF Revived!WithAdapter, Revived!Resolved
  <2>3. PICK n : n = [o EXCEPT !.binding = b]
    OBVIOUS
  <2>4. w.o = n /\ w.raised = FALSE
    BY <2>2, <2>3
  <2>5. /\ b \in OwnedBindings /\ b.on = o.binding.on /\ b.explicit = o.binding.explicit
        /\ o.binding.owner # Revived!None => b = o.binding
        /\ ~b.on => b = o.binding
        /\ b.owner # Revived!None => b = o.binding \/ Revived!Owns(b.owner, o.adapter)
        /\ Revived!OwnerResolved(b, o.adapter) = b
    BY <1>0, <2>1, OwnersAreFound
  <2>6. SoundObject(n)
    BY <1>1, <2>3, <2>5, Rebound
  <2>7. /\ n.state = o.state /\ n.channel = o.channel /\ n.streaming = o.streaming
        /\ n.message = o.message
        /\ n.name = o.name /\ n.binding = b /\ n.adapter = o.adapter /\ (b = o.binding => n = o)
    BY <1>0, <2>3 DEF OwnedObjects
  <2>8. n = Revived!Resolved(o)
    BY <2>1, <2>3 DEF Revived!Resolved
  <2>9. QED
    BY <1>1, <2>4, <2>5, <2>6, <2>7, <2>8
<1>2. CASE o.adapter = Revived!None
  <2>1. PICK chat : chat = IF o.binding.explicit # Revived!None THEN o.binding.explicit ELSE Revived!Singleton
    OBVIOUS
  <2>2. PICK found : found = IF chat = Revived!None THEN Revived!None ELSE Revived!Named(chat, o.name)
    OBVIOUS
  <2>3. CASE o.name = "" \/ ~o.binding.on \/ found = Revived!None
    <3>1. w = [o |-> o, raised |-> TRUE]
      BY <1>2, <2>1, <2>2, <2>3 DEF Revived!WithAdapter
    <3>2. QED
      BY <1>2, <3>1
  <2>4. CASE ~(o.name = "" \/ ~o.binding.on \/ found = Revived!None)
    <3>1. PICK b : b = [o.binding EXCEPT !.owner = chat]
      OBVIOUS
    <3>2. PICK n : n = [o EXCEPT !.adapter = found, !.binding = b]
      OBVIOUS
    <3>3. w.o = n /\ w.raised = FALSE
      <4>1. w = [o |-> [o EXCEPT !.adapter = found, !.binding.owner = chat], raised |-> FALSE]
        BY <1>2, <2>1, <2>2, <2>4 DEF Revived!WithAdapter
      <4>2. [o EXCEPT !.adapter = found, !.binding.owner = chat] = n
        BY <1>0, <3>1, <3>2 DEF OwnedObjects, OwnedBindings
      <4>3. QED
        BY <4>1, <4>2
    <3>4. chat \in Revived!Chats /\ found \in Revived!Adapters /\ Revived!Owns(chat, found)
      <4>1. chat \in ChatsOr
        BY <1>0, <2>1, SingletonsAre DEF OwnedBindings
      <4>2. QED
        BY <4>1, <2>2, <2>4, NamedAreOwned DEF ChatsOr, AdaptersOr
    <3>5. b \in OwnedBindings /\ b.on /\ b.owner = chat /\ b.explicit = o.binding.explicit
      BY <1>0, <2>4, <3>1, <3>4 DEF OwnedBindings, ChatsOr
    <3>6. /\ n \in OwnedObjects /\ n.binding = b /\ n.adapter = found /\ n.name = o.name
          /\ n.state = o.state
          /\ n.streaming = o.streaming /\ n.channel = o.channel /\ n.message = o.message
      BY <1>0, <3>2, <3>4, <3>5 DEF OwnedObjects, AdaptersOr
    <3>7. o.name = "slack" /\ o.state = Revived!None /\ o.binding.on
      BY <1>0, <1>2, <2>4 DEF SoundObject, OwnedObjects
    <3>8. o.channel = <<>>
      BY <1>0, <1>2, NoneIsNoOne DEF SoundObject, OwnedObjects
    <3>9. SoundObject(n)
      BY <3>4, <3>5, <3>6, <3>7, <3>8, NoneIsNoOne DEF SoundObject
    <3>10. Revived!OwnerResolved(b, found) = b
      BY <3>4, <3>5, NoneIsNoOne, OwnersAreFound
    <3>11. QED
      BY <1>2, <3>3, <3>4, <3>5, <3>6, <3>7, <3>9, <3>10, NoneIsNoOne
  <2>5. QED
    BY <2>3, <2>4
<1>3. QED
  BY <1>1, <1>2

\* The state is looked up: the owner's, if there is one.
LEMMA StatesAreFound ==
    ASSUME ChatsKnown, NEW o, SoundObject(o), NEW w, w = Revived!WithState(o)
    PROVE  /\ w.raised \in BOOLEAN /\ SoundObject(w.o)
           /\ w.o.channel = o.channel /\ w.o.message = o.message /\ w.o.binding.on = o.binding.on
           /\ w.state \in ChatsOr
           /\ (o.binding.on /\ ~w.raised /\ w.o.binding.owner # Revived!None) =>
                 w.state = w.o.binding.owner
           /\ (~w.raised /\ o.adapter # Revived!None) =>
                 w.o.adapter = o.adapter
           /\ (~w.raised /\ o.binding.on /\ o.state = Revived!None) =>
                 w.o.adapter # Revived!None /\ Revived!OwnerResolved(w.o.binding, w.o.adapter) = w.o.binding
           /\ (o.binding.owner # Revived!None /\ o.adapter # Revived!None) =>
                 ~w.raised /\ w.o.binding = o.binding /\ w.o.adapter = o.adapter
<1>0. o \in OwnedObjects /\ o.binding \in OwnedBindings /\ Revived!Singleton \in ChatsOr
  BY SingletonsAre DEF SoundObject, OwnedObjects
<1>1. CASE o.state # Revived!None
  <2>1. w = [o |-> o, state |-> o.state, raised |-> FALSE]
    BY <1>1 DEF Revived!WithState
  <2>2. w.o = o /\ w.state = o.state /\ w.raised = FALSE
    BY <2>1
  <2>3. o.state \in ChatsOr /\ (o.binding.on => o.state = o.binding.owner)
    BY <1>0, <1>1 DEF SoundObject, OwnedObjects
  <2>4. QED
    BY <1>1, <2>2, <2>3
<1>2. CASE o.state = Revived!None /\ ~o.binding.on
  <2>1. PICK n : n = [o EXCEPT !.state = Revived!Singleton]
    OBVIOUS
  <2>2. w = [o |-> n, state |-> Revived!Singleton, raised |-> Revived!Singleton = Revived!None]
    BY <1>2, <2>1 DEF Revived!WithState
  <2>3. /\ n \in OwnedObjects /\ n.binding = o.binding /\ n.adapter = o.adapter /\ n.name = o.name
        /\ n.streaming = o.streaming /\ n.channel = o.channel /\ n.message = o.message
    BY <1>0, <2>1 DEF OwnedObjects
  <2>4. SoundObject(n)
    BY <1>2, <2>3 DEF SoundObject
  <2>5. w.o = n /\ w.state = Revived!Singleton /\ w.raised \in BOOLEAN
    BY <2>2
  <2>6. o.binding.owner = Revived!None
    <3>1. o.binding = Revived!NoBinding
      BY <1>2 DEF SoundObject
    <3>2. QED
      BY <3>1 DEF Revived!NoBinding
  <2>7. QED
    BY <1>0, <1>2, <2>3, <2>4, <2>5, <2>6
<1>3. CASE o.state = Revived!None /\ o.binding.on
  <2>1. PICK a : a = Revived!WithAdapter(o)
    OBVIOUS
  <2>2. /\ a.raised \in BOOLEAN /\ SoundObject(a.o) /\ (a.raised =>
                                                          a.o = o /\ o.adapter = Revived!None)
        /\ a.o.state = o.state /\ a.o.channel = o.channel /\ a.o.message = o.message
        /\ a.o.binding.on = o.binding.on
        /\ ~a.raised => a.o.adapter # Revived!None
              /\ Revived!OwnerResolved(a.o.binding, a.o.adapter) = a.o.binding
        /\ o.adapter # Revived!None => /\ ~a.raised /\ a.o = Revived!Resolved(o)
                                       /\ o.binding.owner # Revived!None => a.o = o
    BY <2>1, AdaptersAreFound
  <2>3. CASE a.raised
    <3>1. w = [o |-> a.o, state |-> Revived!None, raised |-> TRUE]
      BY <1>3, <2>1, <2>3 DEF Revived!WithState
    <3>2. QED
      BY <2>2, <2>3, <3>1 DEF ChatsOr
  <2>4. CASE ~a.raised
    <3>1. PICK e : e = a.o
      OBVIOUS
    <3>2. /\ e \in OwnedObjects /\ e.binding \in OwnedBindings /\ SoundObject(e)
          /\ e.binding.on /\ e.adapter # Revived!None
          /\ e.state = Revived!None /\ Revived!OwnerResolved(e.binding, e.adapter) = e.binding
      BY <1>3, <2>2, <2>4, <3>1 DEF SoundObject, OwnedObjects
    <3>3. Revived!Resolved(e) = e
      BY <3>2 DEF OwnedObjects, Revived!Resolved
    <3>4. o.adapter # Revived!None => e.adapter = o.adapter
      BY <1>0, <2>2, <3>1 DEF OwnedObjects, Revived!Resolved
    <3>5. CASE e.binding.owner # Revived!None
      <4>1. PICK n : n = [e EXCEPT !.state = e.binding.owner]
        OBVIOUS
      <4>2. w = [o |-> n, state |-> e.binding.owner, raised |-> FALSE]
        BY <1>3, <2>1, <2>4, <3>1, <3>3, <3>5, <4>1 DEF Revived!WithState
      <4>3. /\ n \in OwnedObjects /\ n.binding = e.binding /\ n.adapter = e.adapter
            /\ n.name = e.name
            /\ n.state = e.binding.owner /\ e.binding.owner \in ChatsOr
            /\ n.streaming = e.streaming /\ n.channel = e.channel /\ n.message = e.message
        BY <3>2, <4>1 DEF OwnedObjects, OwnedBindings
      <4>4. SoundObject(n)
        BY <3>2, <4>3 DEF SoundObject
      <4>5. w.o = n /\ w.state = n.state /\ w.raised = FALSE
        BY <4>2, <4>3
      <4>6. Revived!OwnerResolved(n.binding, n.adapter) = n.binding
        BY <3>2, <4>3
      <4>7. o.binding.owner # Revived!None /\ o.adapter # Revived!None =>
                n.binding = o.binding /\ n.adapter = o.adapter
        BY <2>2, <3>1, <4>3
      <4>8. QED
        BY <1>3, <2>2, <3>1, <3>2, <3>4, <4>3, <4>4, <4>5, <4>6, <4>7
    <3>6. CASE e.binding.owner = Revived!None
      <4>1. PICK s : s = IF e.binding.explicit # Revived!None THEN Revived!None ELSE Revived!Singleton
        OBVIOUS
      <4>2. w = [o |-> e, state |-> s, raised |-> e.binding.explicit # Revived!None
                   \/ Revived!Singleton = Revived!None]
        BY <1>3, <2>1, <2>4, <3>1, <3>3, <3>6, <4>1 DEF Revived!WithState
      <4>3. s \in ChatsOr
        BY <1>0, <4>1 DEF ChatsOr
      <4>4. o.adapter # Revived!None => o.binding.owner = Revived!None
        BY <2>2, <3>1, <3>6
      <4>5. w.raised \in BOOLEAN /\ w.o = e /\ w.state = s
        BY <4>2
      <4>6. QED
        BY <1>3, <2>2, <3>1, <3>2, <3>4, <3>6, <4>3, <4>4, <4>5
    <3>7. QED
      BY <3>5, <3>6
  <2>5. QED
    BY <2>2, <2>3, <2>4
<1>4. QED
  BY <1>1, <1>2, <1>3

\* The channel is made of the adapter, and of the state of its owner.
LEMMA ChannelsAreMade ==
    ASSUME ChatsKnown, NEW o, SoundObject(o), NEW w, w = Revived!WithChannel(o)
    PROVE  /\ w.raised \in BOOLEAN /\ SoundObject(w.o) /\ w.o.binding.on = o.binding.on
           /\ ~w.raised => w.o.channel # <<>>
           /\ (o.binding.on /\ ~w.raised /\ o.channel = <<>> /\ w.o.binding.owner # Revived!None) =>
                 w.o.channel[2] = w.o.binding.owner
           /\ (o.binding.owner # Revived!None /\ o.adapter # Revived!None) =>
                 ~w.raised /\ w.o.binding = o.binding /\ w.o.adapter = o.adapter
<1>1. PICK t : t = Revived!WithAdapter(o)
  OBVIOUS
<1>2. PICK s : s = Revived!WithState(t.o)
  OBVIOUS
<1>3. /\ t.raised \in BOOLEAN /\ SoundObject(t.o) /\ (t.raised =>
                                                        o.adapter = Revived!None)
                                                              /\ (~t.raised =>
                                                                    t.o.adapter # Revived!None)
      /\ t.o.channel = o.channel /\ t.o.binding.on = o.binding.on
      /\ o.adapter # Revived!None => ~t.raised /\ (o.binding.owner # Revived!None => t.o = o)
  BY <1>1, AdaptersAreFound
<1>4. /\ s.raised \in BOOLEAN /\ SoundObject(s.o) /\ s.o.channel = t.o.channel
      /\ s.o.binding.on = t.o.binding.on
      /\ s.state \in ChatsOr
      /\ (t.o.binding.on /\ ~s.raised /\ s.o.binding.owner # Revived!None) =>
            s.state = s.o.binding.owner
      /\ (~s.raised /\ t.o.adapter # Revived!None) => s.o.adapter = t.o.adapter
      /\ (t.o.binding.owner # Revived!None /\ t.o.adapter # Revived!None) =>
            ~s.raised /\ s.o.binding = t.o.binding /\ s.o.adapter = t.o.adapter
  BY <1>2, <1>3, StatesAreFound
<1>5. CASE o.channel # <<>>
  <2>1. w.o = o /\ w.raised = FALSE
    BY <1>5 DEF Revived!WithChannel
  <2>2. QED
    BY <1>5, <2>1
<1>6. CASE o.channel = <<>> /\ t.raised
  <2>1. w = t
    BY <1>1, <1>2, <1>6 DEF Revived!WithChannel
  <2>2. QED
    BY <1>3, <1>6, <2>1
<1>7. CASE o.channel = <<>> /\ ~t.raised /\ s.raised
  <2>1. w.o = s.o /\ w.raised = TRUE
    BY <1>1, <1>2, <1>7 DEF Revived!WithChannel
  <2>2. QED
    BY <1>3, <1>4, <1>7, <2>1
<1>8. CASE o.channel = <<>> /\ ~t.raised /\ ~s.raised
  <2>1. PICK e : e = s.o
    OBVIOUS
  <2>2. PICK c : c = <<e.adapter, s.state>>
    OBVIOUS
  <2>3. PICK n : n = [e EXCEPT !.channel = c]
    OBVIOUS
  <2>4. w.o = n /\ w.raised = FALSE
    BY <1>1, <1>2, <1>8, <2>1, <2>2, <2>3 DEF Revived!WithChannel
  <2>5. e \in OwnedObjects /\ e.adapter \in Revived!Adapters
    BY <1>3, <1>4, <1>8, <2>1 DEF SoundObject, OwnedObjects, AdaptersOr
  <2>6. c \in Revived!Adapters \X ChatsOr /\ c[1] = e.adapter /\ c[2] = s.state /\ c # <<>>
    BY <1>4, <2>2, <2>5
  <2>7. /\ n \in OwnedObjects /\ n.binding = e.binding /\ n.adapter = e.adapter /\ n.name = e.name
        /\ n.state = e.state /\ n.streaming = e.streaming /\ n.channel = c
    BY <2>3, <2>5, <2>6 DEF OwnedObjects
  <2>8. SoundObject(n)
    <3>1. SoundObject(e)
      BY <1>4, <2>1
    <3>2. QED
      BY <2>6, <2>7, <3>1 DEF SoundObject
  <2>9. QED
    BY <1>3, <1>4, <1>8, <2>1, <2>4, <2>6, <2>7, <2>8
<1>9. QED
  BY <1>3, <1>4, <1>5, <1>6, <1>7, <1>8

-----------------------------------------------------------------------------
\* Of a message nothing is lost on the way but the user's key.
LEMMA MessagesAreRead ==
    ASSUME NEW m \in HeardMessages, NEW r, r = Revived!Read(Revived!Written(m))
    PROVE  r \in HeardMessages /\ r.mention = m.mention /\ r.system = m.system /\ r.reply = m.reply
<1>1. PICK d : d = {f \in {"mention", "system", "reply"} : m[f] # "unset"}
  OBVIOUS
<1>2. PICK w : w = [f \in d |-> m[f]]
  OBVIOUS
<1>3. Revived!Written(m).fields = w /\ DOMAIN w = d
  BY <1>1, <1>2 DEF Revived!Written
<1>4. \A f \in {"mention", "system", "reply"} : (IF f \in DOMAIN w THEN w[f] ELSE "unset") = m[f]
  BY <1>1, <1>2, <1>3
<1>5. r = [Revived!Message(m.mention, m.system, m.reply) EXCEPT !.key = Revived!None]
  <2>1. /\ (IF "mention" \in DOMAIN w THEN w["mention"] ELSE "unset") = m.mention
        /\ (IF "system" \in DOMAIN w THEN w["system"] ELSE "unset") = m.system
        /\ (IF "reply" \in DOMAIN w THEN w["reply"] ELSE "unset") = m.reply
    BY <1>4
  <2>2. QED
    BY <1>3, <2>1 DEF Revived!Read
<1>6. QED
  BY <1>5 DEF Revived!Message, HeardMessages, AdaptersOr, Revived!None

\* What is written of an object names its adapter.
LEMMA ObjectsAreWritten ==
    ASSUME ChatsKnown, NEW o, SoundObject(o), NEW v,
          v = Revived!Serialized(IF o.name # Revived!None THEN o ELSE Revived!WithAdapter(o).o)
    PROVE  /\ v \in OwnedTexts /\ v.name = (IF o.name # Revived!None THEN o.name ELSE "slack")
           /\ v.message = Revived!Written(o.message)
<1>1. o \in OwnedObjects /\ (o.name = Revived!None => o.adapter # Revived!None)
  BY DEF SoundObject
<1>2. PICK e : e = IF o.name # Revived!None THEN o ELSE Revived!WithAdapter(o).o
  OBVIOUS
<1>3. e.name = o.name /\ e.message = o.message
  BY <1>2, AdaptersAreFound
<1>4. v = [form |-> "json", name |-> IF o.name # Revived!None THEN o.name ELSE "slack",
             message |-> Revived!Written(o.message)]
  BY <1>2, <1>3 DEF Revived!Serialized, Revived!NameOf
<1>5. (IF o.name # Revived!None THEN o.name ELSE "slack") \in {"", "slack"}
  BY <1>1 DEF OwnedObjects
<1>6. o.message \in HeardMessages
  BY <1>1 DEF OwnedObjects
<1>7. PICK x : x = Revived!Written(o.message)
  OBVIOUS
<1>8. PICK n : n = IF o.name # Revived!None THEN o.name ELSE "slack"
  OBVIOUS
<1>9. v = [form |-> "json", name |-> n, message |-> x]
  BY <1>4, <1>7, <1>8
<1>10. PICK T : T = {Revived!Written(m) : m \in HeardMessages}
  OBVIOUS
<1>11. x \in T /\ n \in {"", "slack"}
  BY <1>5, <1>6, <1>7, <1>8, <1>10
<1>12. v \in [form : {"json"}, name : {"", "slack"}, message : T] /\ v.name = n /\ v.message = x
  <2>1. [form |-> "json", name |-> n, message |-> x] \in [form : {"json"}, name : {"", "slack"}, message : T]
    BY <1>11
  <2>2. v.name = n
    BY <1>9
  <2>3. v.message = x
    BY <1>9
  <2>4. QED
    BY <1>9, <2>1, <2>2, <2>3, Zenon
<1>13. QED
  BY <1>7, <1>8, <1>10, <1>12 DEF OwnedTexts

\* What is restored is JSON, or an object.
Restorable(data) == data \in OwnedTexts \/ SoundObject(data)

\* The adapter's name as from_json finds it.
LookedUp(data) == IF data.form = "json" \/ data.name # Revived!None THEN data.name ELSE "slack"

\* The message a restored object has.
Recalled(data) == IF data.form = "json" THEN Revived!Read(data.message) ELSE data.message

LEMMA RecalledIsHeard == ASSUME NEW data, Restorable(data) PROVE Recalled(data) \in HeardMessages
<1>1. CASE data \in OwnedTexts
  <2>1. PICK m \in HeardMessages : data.message = Revived!Written(m)
    BY <1>1 DEF OwnedTexts
  <2>2. data.form = "json"
    BY <1>1 DEF OwnedTexts
  <2>3. QED
    BY <2>1, <2>2, MessagesAreRead DEF Recalled
<1>2. CASE SoundObject(data)
  BY <1>2 DEF SoundObject, OwnedObjects, Recalled
<1>3. QED
  BY <1>1, <1>2 DEF Restorable

\* With an adapter or a Chat named, nothing but the name and the message counts of what
\* is restored.
Bound(name, message, adapter, chat) ==
    LET found == IF adapter # Revived!None THEN adapter ELSE IF name = "" THEN Revived!None ELSE Revived!Named(chat, name)
    IN  [form |-> "object", adapter |-> found,
           name |-> IF adapter # Revived!None THEN "slack" ELSE name,
         binding |-> IF chat # Revived!None THEN [Revived!Binding(chat) EXCEPT !.owner = chat]
                     ELSE Revived!OwnerResolved(Revived!Binding(Revived!None), adapter),
         state |-> chat, streaming |-> Revived!None, turn |-> Revived!None,
               recent |-> Revived!None, history |-> Revived!None, channel |-> <<>>,
         message |-> IF chat # Revived!None /\ found # Revived!None THEN [message EXCEPT !.adapter = found] ELSE message]
Raises(name, adapter, chat) ==
    chat # Revived!None /\ IF adapter # Revived!None THEN ~Revived!Owns(chat, adapter) ELSE name # "" /\ Revived!Named(chat, name) = Revived!None

LEMMA RestoredIs ==
    ASSUME NEW data, Restorable(data), NEW adapter \in AdaptersOr, NEW chat \in ChatsOr,
           adapter # Revived!None \/ chat # Revived!None, NEW r, r = Revived!Restored(data, adapter, chat)
    PROVE  /\ r.raised = Raises(LookedUp(data), adapter, chat)
           /\ r.raised => r.o = data
           /\ ~r.raised => r.o = Bound(LookedUp(data), Recalled(data), adapter, chat)
<1> DEFINE old    == data.form = "object"
           lookup == IF data.name \notin {Revived!None, ""} THEN data.name
                     ELSE IF old /\ data.adapter # Revived!None THEN Revived!NameOf(data.adapter) ELSE ""
<1>1. PICK n : n = LookedUp(data)
  OBVIOUS
<1>2. data.form \in {"object", "json"} /\ (old <=> SoundObject(data))
          /\ (~old <=> data \in OwnedTexts)
  BY DEF Restorable, SoundObject, OwnedObjects, OwnedTexts
<1>3. lookup = n /\ n \in {"", "slack"}
  <2>1. CASE old
    BY <1>1, <1>2, <2>1, NoneIsNoOne DEF SoundObject, OwnedObjects, LookedUp, Revived!NameOf
  <2>2. CASE ~old
    BY <1>1, <1>2, <2>2, NoneIsNoOne DEF OwnedTexts, LookedUp
  <2>3. QED
    BY <2>1, <2>2
<1>4. PICK m : m = Recalled(data)
  OBVIOUS
<1>5. m \in HeardMessages
  BY <1>4, RecalledIsHeard
<1>6. PICK s : s = IF ~old THEN Revived!Fresh(data, chat) ELSE Revived!Cleared(data, chat)
  OBVIOUS
<1>7. \E sa, sn :
        /\ s = [form |-> "object", adapter |-> sa, name |-> sn,
                  binding |-> Revived!Binding(chat), state |-> Revived!None,
                streaming |-> Revived!None, turn |-> Revived!None, recent |-> Revived!None,
                      history |-> Revived!None, channel |-> <<>>, message |-> m]
        /\ n = "" => sa = Revived!None /\ sn = ""
  <2>1. CASE old
    <3>1. data \in OwnedObjects /\ (data.name = "" => data.adapter = Revived!None)
      BY <1>2, <2>1 DEF SoundObject
    <3>2. n = "" => data.name = ""
      BY <1>1, <2>1 DEF LookedUp
    <3>3. PICK b : b = Revived!Binding(chat)
      OBVIOUS
    <3>4. s = [data EXCEPT !.state = Revived!None, !.channel = <<>>, !.history = Revived!None,
                 !.recent = Revived!None,
                           !.binding = b, !.streaming = Revived!None, !.turn = Revived!None]
      BY <1>6, <2>1, <3>3 DEF Revived!Cleared
    <3>5. m = data.message
      BY <1>4, <2>1 DEF Recalled
    <3>6. s = [form |-> "object", adapter |-> data.adapter, name |-> data.name,
                 binding |-> Revived!Binding(chat),
               state |-> Revived!None, streaming |-> Revived!None, turn |-> Revived!None,
                     recent |-> Revived!None, history |-> Revived!None, channel |-> <<>>,
               message |-> m]
      BY <3>1, <3>3, <3>4, <3>5 DEF OwnedObjects
    <3>7. QED
      BY <3>1, <3>2, <3>6
  <2>2. CASE ~old
    <3>1. m = Revived!Read(data.message) /\ n = data.name
      BY <1>1, <1>2, <1>4, <2>2 DEF Recalled, LookedUp
    <3>2. s = [form |-> "object", adapter |-> Revived!None, name |-> data.name,
                 binding |-> Revived!Binding(chat), state |-> Revived!None,
               streaming |-> Revived!None, turn |-> Revived!None, recent |-> Revived!None,
                     history |-> Revived!None, channel |-> <<>>, message |-> m]
      BY <1>6, <2>2, <3>1 DEF Revived!Fresh
    <3>3. QED
      BY <3>1, <3>2
  <2>3. QED
    BY <2>1, <2>2
<1>71. PICK sa, sn :
        /\ s = [form |-> "object", adapter |-> sa, name |-> sn,
                  binding |-> Revived!Binding(chat), state |-> Revived!None,
                streaming |-> Revived!None, turn |-> Revived!None, recent |-> Revived!None,
                      history |-> Revived!None, channel |-> <<>>, message |-> m]
        /\ n = "" => sa = Revived!None /\ sn = ""
  BY <1>7
<1>8. PICK raises \in BOOLEAN :
          raises = (\/ chat # Revived!None /\ adapter # Revived!None /\ ~Revived!Owns(chat, adapter)
                    \/ chat # Revived!None /\ adapter = Revived!None /\ lookup # ""
                          /\ Revived!Named(chat, lookup) = Revived!None)
  OBVIOUS
<1>9. raises = Raises(n, adapter, chat)
  BY <1>3, <1>8 DEF Raises
<1>10. CASE raises
  <2>1. r = [o |-> Revived!Refused(data, chat), raised |-> TRUE]
    BY <1>8, <1>10 DEF Revived!Restored
  <2>2. QED
    BY <1>1, <1>9, <1>10, <2>1 DEF Revived!Refused
<1>11. CASE ~raises
  <2> DEFINE start  == IF ~old THEN Revived!Fresh(data, chat)
                       ELSE IF adapter = Revived!None
                               /\ chat = Revived!None THEN data ELSE Revived!Cleared(data, chat)
             given  == IF adapter = Revived!None THEN start ELSE [start EXCEPT !.adapter = adapter, !.name = Revived!NameOf(adapter)]
             named  == IF chat = Revived!None \/ adapter # Revived!None \/ lookup = "" THEN given
                       ELSE [given EXCEPT !.adapter = Revived!Named(chat, lookup), !.name = lookup]
  <2>1. start = s
    BY <1>6
  <2>2. PICK g : g = given
    OBVIOUS
  <2>3. PICK f : f = named
    OBVIOUS
  <2>4. PICK found : found = IF adapter # Revived!None THEN adapter ELSE IF n = "" THEN Revived!None ELSE Revived!Named(chat, n)
    OBVIOUS
  <2>5. PICK name : name = IF adapter # Revived!None THEN "slack" ELSE n
    OBVIOUS
  <2>6. g = IF adapter = Revived!None THEN s ELSE [s EXCEPT !.adapter = adapter, !.name = "slack"]
    BY <2>1, <2>2 DEF Revived!NameOf
  <2>7. f = IF chat = Revived!None \/ adapter # Revived!None
               \/ n = "" THEN g ELSE [g EXCEPT !.adapter = found, !.name = n]
    <3>1. named = IF chat = Revived!None \/ adapter # Revived!None \/ n = "" THEN given
                  ELSE [given EXCEPT !.adapter = Revived!Named(chat, n), !.name = n]
      BY <1>3
    <3>2. chat # Revived!None /\ adapter = Revived!None /\ n # "" => found = Revived!Named(chat, n)
      BY <2>4
    <3>3. QED
      BY <2>2, <2>3, <3>1, <3>2
  <2>8. f = [form |-> "object", adapter |-> found, name |-> name,
               binding |-> Revived!Binding(chat), state |-> Revived!None,
             streaming |-> Revived!None, turn |-> Revived!None, recent |-> Revived!None,
                   history |-> Revived!None, channel |-> <<>>, message |-> m]
    <3>1. CASE adapter # Revived!None
      BY <1>71, <2>4, <2>5, <2>6, <2>7, <3>1
    <3>2. CASE adapter = Revived!None /\ n = ""
      BY <1>71, <2>4, <2>5, <2>6, <2>7, <3>2
    <3>3. CASE adapter = Revived!None /\ n # ""
      BY <1>71, <2>4, <2>5, <2>6, <2>7, <3>3
    <3>4. QED
      BY <3>1, <3>2, <3>3
  <2>9. CASE chat # Revived!None
    <3>1. r = [raised |-> FALSE, o |-> Revived!Owned(f, chat)]
      <4>1. r = [raised |-> FALSE, o |-> Revived!Owned(named, chat)]
        BY <1>8, <1>11, <2>9 DEF Revived!Restored
      <4>2. QED
        BY <2>3, <4>1
    <3>2. PICK b : b = [Revived!Binding(chat) EXCEPT !.owner = chat]
      OBVIOUS
    <3>3. PICK mm : mm = IF found # Revived!None THEN [m EXCEPT !.adapter = found] ELSE m
      OBVIOUS
    <3>4. PICK bound : bound = Revived!Owned(f, chat)
      OBVIOUS
    <3>5. bound = [form |-> "object", adapter |-> found, name |-> name, binding |-> b,
                     state |-> chat,
                   streaming |-> Revived!None, turn |-> Revived!None, recent |-> Revived!None,
                         history |-> Revived!None, channel |-> <<>>, message |-> mm]
      <4>1. bound = [f EXCEPT !.state = chat, !.binding = b, !.message = mm]
        BY <1>5, <2>8, <3>2, <3>3, <3>4 DEF Revived!Owned, HeardMessages
      <4>2. QED
        BY <2>8, <4>1
    <3>6. Bound(n, m, adapter, chat) = bound
      BY <2>4, <2>5, <2>9, <3>2, <3>3, <3>5 DEF Bound
    <3>7. r.raised = FALSE /\ r.o = bound
      BY <3>1, <3>4
    <3>8. QED
      BY <1>1, <1>4, <1>9, <1>11, <3>6, <3>7
  <2>10. CASE chat = Revived!None
    <3>1. adapter # Revived!None
      BY <2>10
    <3>2. r = [raised |-> FALSE, o |-> Revived!Resolved(g)]
      <4>1. r = [raised |-> FALSE, o |-> Revived!Resolved(given)]
        BY <1>8, <1>11, <2>10, <3>1 DEF Revived!Restored
      <4>2. QED
        BY <2>2, <4>1
    <3>3. PICK b : b = Revived!OwnerResolved(Revived!Binding(Revived!None), adapter)
      OBVIOUS
    <3>4. g = f /\ found = adapter
      BY <2>4, <2>7, <2>10, <3>1
    <3>5. PICK bound : bound = Revived!Resolved(g)
      OBVIOUS
    <3>6. bound = [f EXCEPT !.binding = b]
      BY <2>8, <2>10, <3>3, <3>4, <3>5 DEF Revived!Resolved
    <3>7. bound = Bound(n, m, adapter, chat)
      BY <2>4, <2>5, <2>8, <2>10, <3>1, <3>3, <3>6 DEF Bound
    <3>8. r.raised = FALSE /\ r.o = bound
      BY <3>2, <3>5
    <3>9. QED
      BY <1>1, <1>4, <1>9, <1>11, <3>7, <3>8
  <2>11. QED
    BY <2>9, <2>10
<1>12. QED
  BY <1>10, <1>11

\* With a Chat named, what is restored is that Chat's, as is its message.
OwnedAs(r, m, adapter, chat) ==
    /\ SoundObject(r) /\ r.form = "object"
    /\ r.message.mention = m.mention /\ r.message.system = m.system /\ r.message.reply = m.reply
    /\ (chat # Revived!None /\ r.adapter # Revived!None) =>
          Revived!Owns(chat, r.adapter) /\ r.state = chat /\ r.message.adapter = r.adapter
    /\ adapter # Revived!None => r.adapter = adapter

LEMMA BoundIsOwned ==
    ASSUME ChatsKnown, NEW n \in {"", "slack"}, NEW m \in HeardMessages,
          NEW adapter \in AdaptersOr, NEW chat \in ChatsOr,
           adapter # Revived!None \/ chat # Revived!None, ~Raises(n, adapter, chat), NEW r,
                 r = Bound(n, m, adapter, chat)
    PROVE  OwnedAs(r, m, adapter, chat)
<1>1. PICK found : found = IF adapter # Revived!None THEN adapter ELSE IF n = "" THEN Revived!None ELSE Revived!Named(chat, n)
  OBVIOUS
<1>2. PICK name : name = IF adapter # Revived!None THEN "slack" ELSE n
  OBVIOUS
<1>3. PICK b : b = IF chat # Revived!None THEN [Revived!Binding(chat) EXCEPT !.owner = chat] ELSE Revived!OwnerResolved(Revived!Binding(Revived!None), adapter)
  OBVIOUS
<1>4. PICK mm : mm = IF chat # Revived!None /\ found # Revived!None THEN [m EXCEPT !.adapter = found] ELSE m
  OBVIOUS
<1>5. r = [form |-> "object", adapter |-> found, name |-> name, binding |-> b, state |-> chat,
             streaming |-> Revived!None,
           turn |-> Revived!None, recent |-> Revived!None, history |-> Revived!None,
                 channel |-> <<>>, message |-> mm]
  BY <1>1, <1>2, <1>3, <1>4 DEF Bound
<1>6. /\ found \in AdaptersOr /\ (found = Revived!None => n = "" /\ adapter = Revived!None)
      /\ found # Revived!None /\ chat # Revived!None => Revived!Owns(chat, found)
  <2>1. CASE adapter # Revived!None
    BY <1>1, <2>1 DEF Raises
  <2>2. CASE adapter = Revived!None
    BY <1>1, <2>2, NamedAreOwned DEF Raises, ChatsOr, AdaptersOr
  <2>3. QED
    BY <2>1, <2>2
<1>7. mm \in HeardMessages /\ mm.mention = m.mention /\ mm.system = m.system /\ mm.reply = m.reply
      /\ (chat # Revived!None /\ found # Revived!None => mm.adapter = found)
  BY <1>4, <1>6 DEF HeardMessages
<1>8. /\ b \in OwnedBindings /\ b.on /\ (chat # Revived!None => b.owner = chat)
      /\ chat = Revived!None /\ b.owner # Revived!None => Revived!Owns(b.owner, found)
  <2>1. CASE chat # Revived!None
    BY <1>3, <2>1 DEF Revived!Binding, OwnedBindings, ChatsOr
  <2>2. CASE chat = Revived!None
    <3>1. Revived!Binding(Revived!None) \in OwnedBindings
              /\ Revived!Binding(Revived!None).on
              /\ Revived!Binding(Revived!None).owner = Revived!None
      BY DEF Revived!Binding, OwnedBindings, ChatsOr
    <3>2. b = Revived!OwnerResolved(Revived!Binding(Revived!None), adapter) /\ found = adapter
      BY <1>1, <1>3, <2>2
    <3>3. QED
      BY <2>2, <3>1, <3>2, OwnersAreFound
  <2>3. QED
    BY <2>1, <2>2
<1>9. name \in {"", "slack"} /\ (found = Revived!None => name = "") /\ (name = "" => found = Revived!None)
  BY <1>1, <1>2, <1>6
<1>10. PICK e : e = [form |-> "object", adapter |-> found, name |-> name, binding |-> b,
                       state |-> chat,
                     streaming |-> Revived!None, turn |-> Revived!None,
                           recent |-> Revived!None, history |-> Revived!None, channel |-> <<>>,
                     message |-> mm]
  OBVIOUS
<1>11. /\ r \in OwnedObjects
       /\ r.binding = b /\ r.adapter = found /\ r.name = name /\ r.state = chat
       /\ r.streaming = Revived!None
       /\ r.channel = <<>> /\ r.message = mm /\ r.form = "object"
  <2>1. e \in OwnedObjects
    BY <1>6, <1>7, <1>8, <1>9, <1>10 DEF OwnedObjects, ChatsOr
  <2>2. /\ e.binding = b /\ e.adapter = found /\ e.name = name /\ e.state = chat
        /\ e.streaming = Revived!None
        /\ e.channel = <<>> /\ e.message = mm /\ e.form = "object"
    BY <1>10
  <2>3. e = r
    BY <1>5, <1>10, Zenon
  <2>4. QED
    BY <2>1, <2>2, <2>3, Zenon
<1>12. SoundObject(r)
  BY <1>6, <1>8, <1>9, <1>11, NoneIsNoOne DEF SoundObject
<1>13. adapter # Revived!None => found = adapter
  BY <1>1
<1>14. QED
  BY <1>6, <1>7, <1>11, <1>12, <1>13 DEF OwnedAs

\* Of an object, or of what was written of it, the same comes back, but for the message.
LEMMA BoundAlike ==
    ASSUME NEW n, NEW m1, NEW m2, NEW adapter, NEW chat,
           NEW r1, r1 = Bound(n, m1, adapter, chat), NEW r2, r2 = Bound(n, m2, adapter, chat)
    PROVE  [r1 EXCEPT !.message = Revived!PlainMessage] = [r2 EXCEPT !.message = Revived!PlainMessage]
<1>1. PICK found : found = IF adapter # Revived!None THEN adapter ELSE IF n = "" THEN Revived!None ELSE Revived!Named(chat, n)
  OBVIOUS
<1>2. PICK name : name = IF adapter # Revived!None THEN "slack" ELSE n
  OBVIOUS
<1>3. PICK b : b = IF chat # Revived!None THEN [Revived!Binding(chat) EXCEPT !.owner = chat] ELSE Revived!OwnerResolved(Revived!Binding(Revived!None), adapter)
  OBVIOUS
<1>4. PICK w1 : w1 = IF chat # Revived!None /\ found # Revived!None THEN [m1 EXCEPT !.adapter = found] ELSE m1
  OBVIOUS
<1>5. PICK w2 : w2 = IF chat # Revived!None /\ found # Revived!None THEN [m2 EXCEPT !.adapter = found] ELSE m2
  OBVIOUS
<1>6. PICK p : p = Revived!PlainMessage
  OBVIOUS
<1>7. /\ r1 = [form |-> "object", adapter |-> found, name |-> name, binding |-> b,
                 state |-> chat, streaming |-> Revived!None,
                turn |-> Revived!None, recent |-> Revived!None, history |-> Revived!None,
                      channel |-> <<>>, message |-> w1]
      /\ r2 = [form |-> "object", adapter |-> found, name |-> name, binding |-> b,
                 state |-> chat, streaming |-> Revived!None,
                turn |-> Revived!None, recent |-> Revived!None, history |-> Revived!None,
                      channel |-> <<>>, message |-> w2]
  BY <1>1, <1>2, <1>3, <1>4, <1>5 DEF Bound
<1>8. [r1 EXCEPT !.message = p] = [r2 EXCEPT !.message = p]
  BY <1>7
<1>9. QED
  BY <1>6, <1>8

\* Without either, an object stays as it is unless the Chat that is active has its adapter.
LEMMA RevivedAre ==
    ASSUME ChatsKnown, NEW data, Restorable(data), NEW r, r = Revived!Restored(data, Revived!None, Revived!None)
    PROVE  /\ r.raised = FALSE /\ SoundObject(r.o) /\ r.o.form = "object"
           /\ r.o.message = Recalled(data)
           /\ (SoundObject(data) /\ data.adapter # Revived!None) => r.o = data
<1> DEFINE old   == data.form = "object"
           start == IF ~old THEN Revived!Fresh(data, Revived!None) ELSE data
<1>1. data.form \in {"object", "json"} /\ (old <=> SoundObject(data))
          /\ (~old <=> data \in OwnedTexts)
  BY DEF Restorable, SoundObject, OwnedObjects, OwnedTexts
<1>2. PICK s : s = start
  OBVIOUS
<1>3. PICK m \in HeardMessages : m = Recalled(data)
  BY RecalledIsHeard
<1>4. SoundObject(s) /\ s.message = m /\ s.form = "object"
  <2>1. CASE old
    BY <1>1, <1>2, <1>3, <2>1 DEF SoundObject, OwnedObjects, Recalled
  <2>2. CASE ~old
    <3>1. data.form = "json" /\ data.name \in {"", "slack"} /\ m = Revived!Read(data.message)
      BY <1>1, <1>3, <2>2 DEF OwnedTexts, Recalled
    <3>2. PICK b : b = Revived!Binding(Revived!None)
      OBVIOUS
    <3>3. PICK n : n = data.name
      OBVIOUS
    <3>4. s = [form |-> "object", adapter |-> Revived!None, name |-> n, binding |-> b,
                 state |-> Revived!None,
               streaming |-> Revived!None, turn |-> Revived!None, recent |-> Revived!None,
                     history |-> Revived!None, channel |-> <<>>, message |-> m]
      BY <1>2, <2>2, <3>1, <3>2, <3>3 DEF Revived!Fresh
    <3>5. b \in OwnedBindings /\ b.on /\ b.owner = Revived!None
      BY <3>2 DEF Revived!Binding, OwnedBindings, ChatsOr
    <3>6. s \in OwnedObjects
      BY <3>1, <3>3, <3>4, <3>5 DEF OwnedObjects, ChatsOr, AdaptersOr
    <3>7. /\ s.binding = b /\ s.adapter = Revived!None /\ s.name = n
          /\ s.state = Revived!None /\ s.streaming = Revived!None
          /\ s.channel = <<>> /\ s.message = m /\ s.form = "object"
      BY <3>4
    <3>8. QED
      BY <3>1, <3>3, <3>5, <3>6, <3>7, NoneIsNoOne DEF SoundObject
  <2>3. QED
    BY <2>1, <2>2
<1>5. PICK eager : eager = IF Revived!Singleton = Revived!None
                              \/ s.name \in {Revived!None,
                                               ""} THEN Revived!None ELSE Revived!Named(Revived!Singleton, s.name)
  OBVIOUS
<1>6. PICK e : e = [s EXCEPT !.adapter = eager, !.binding.owner = Revived!Singleton,
                      !.state = Revived!Singleton]
  OBVIOUS
<1>7. /\ r.raised = FALSE
      /\ r.o = IF s.binding.on /\ s.adapter = Revived!None /\ eager # Revived!None THEN e ELSE s
  <2>1. r = [raised |-> FALSE,
             o |-> IF s.binding.on /\ s.adapter = Revived!None
                      /\ eager # Revived!None THEN e ELSE s]
    BY <1>2, <1>5, <1>6 DEF Revived!Restored
  <2>2. QED
    BY <2>1
<1>8. CASE s.binding.on /\ s.adapter = Revived!None /\ eager # Revived!None
  <2>1. PICK c : c = Revived!Singleton
    OBVIOUS
  <2>2. c \in Revived!Chats /\ eager \in Revived!Adapters /\ Revived!Owns(c, eager)
    BY <1>5, <1>8, <2>1, SingletonsAre, NamedAreOwned DEF ChatsOr, AdaptersOr
  <2>3. PICK b : b = [s.binding EXCEPT !.owner = c]
    OBVIOUS
  <2>4. s \in OwnedObjects /\ s.binding \in OwnedBindings
    BY <1>4 DEF SoundObject, OwnedObjects
  <2>5. e = [s EXCEPT !.adapter = eager, !.binding = b, !.state = c]
    BY <1>6, <2>1, <2>3, <2>4 DEF OwnedObjects, OwnedBindings
  <2>6. b \in OwnedBindings /\ b.on /\ b.owner = c
    BY <1>8, <2>2, <2>3, <2>4 DEF OwnedBindings, ChatsOr
  <2>7. /\ e \in OwnedObjects /\ e.binding = b /\ e.adapter = eager /\ e.name = s.name
        /\ e.state = c
        /\ e.streaming = s.streaming /\ e.channel = s.channel /\ e.message = s.message
        /\ e.form = "object"
    BY <2>2, <2>4, <2>5, <2>6 DEF OwnedObjects, ChatsOr, AdaptersOr
  <2>8. s.channel = <<>> /\ s.name # ""
    BY <1>4, <1>5, <1>8, <2>4, NoneIsNoOne DEF SoundObject, OwnedObjects
  <2>9. SoundObject(e)
    BY <1>4, <1>8, <2>2, <2>6, <2>7, <2>8, NoneIsNoOne DEF SoundObject
  <2>10. ~(SoundObject(data) /\ data.adapter # Revived!None)
    BY <1>1, <1>2, <1>8
  <2>11. QED
    BY <1>3, <1>4, <1>7, <1>8, <2>7, <2>9, <2>10
<1>9. CASE ~(s.binding.on /\ s.adapter = Revived!None /\ eager # Revived!None)
  BY <1>1, <1>2, <1>3, <1>4, <1>7, <1>9
<1>10. QED
  BY <1>8, <1>9

-----------------------------------------------------------------------------
LEMMA OwnersHave == \A c, a : Revived!IsOf(c, a) <=> Revived!Owns(c, a)
BY DEF Revived!IsOf, Revived!Owns

\* What is asked of an operation when there was none but what holds of the object.
LEMMA NothingUsed ==
    ASSUME NEW o, o = own_object', o \in OwnedTexts \/ SoundObject(o), own_last' = Revived!NoUse
    PROVE  Revived!ObjectsStayTheirChats'
<1>1. own_last'.op = Revived!None /\ Revived!None \notin {"use", "channel", "stream", "revive",
                                                            "restore", "serialize"}
  BY DEF Revived!NoUse, Revived!None
<1>2. Revived!RoutesDoNotSplit'
  BY <1>1, OwnersHave DEF Revived!RoutesDoNotSplit, Revived!IsObject, OwnedTexts,
                          SoundObject
<1>3. QED
  BY <1>1, <1>2 DEF Revived!ObjectsStayTheirChats, Revived!OwnersAreKept,
                    Revived!FailuresLeaveItAlone, Revived!RebindingIsRestoring,
                            Revived!StreamsAsItsChat,
                    Revived!NamedChatIsTheOwner, Revived!MessagesSurvive

LEMMA DispatchedAreSound ==
    ASSUME NEW c \in ChatsOr, NEW a \in Revived!Adapters, NEW m, m \in HeardMessages,
          own_kind \in {"thread", "channel"}, NEW o,
           o = Revived!Dispatched(c, a, m) \/ o = [Revived!Dispatched(c, a, m) EXCEPT !.message.adapter = Revived!None]
    PROVE  SoundObject(o)
<1>1. PICK k : k = IF own_kind = "thread" THEN c ELSE Revived!None
  OBVIOUS
<1>2. PICK mm : mm \in HeardMessages /\ (mm = [m EXCEPT !.adapter = a]
                                           \/ mm = [m EXCEPT !.adapter = Revived!None])
  BY DEF HeardMessages, AdaptersOr
<1>3. PICK b : b = Revived!NoBinding
  OBVIOUS
<1>4. PICK n : n \in HeardMessages /\ o = [form |-> "object", adapter |-> a,
                                             name |-> Revived!None, binding |-> b, state |-> c,
                                   streaming |-> k, turn |-> k, recent |-> k, history |-> c,
                                         channel |-> <<>>, message |-> n]
  <2>1. PICK m1 : m1 = [m EXCEPT !.adapter = a]
    OBVIOUS
  <2>2. PICK m2 : m2 = [m EXCEPT !.adapter = Revived!None]
    OBVIOUS
  <2>3. m1 \in HeardMessages /\ m2 \in HeardMessages /\ m2 = [m1 EXCEPT !.adapter = Revived!None]
    BY <2>1, <2>2 DEF HeardMessages, AdaptersOr
  <2>4. PICK d : d = [form |-> "object", adapter |-> a, name |-> Revived!None, binding |-> b,
                        state |-> c,
                      streaming |-> k, turn |-> k, recent |-> k, history |-> c,
                            channel |-> <<>>, message |-> m1]
    OBVIOUS
  <2>5. Revived!Dispatched(c, a, m) = d
    BY <1>1, <1>3, <2>1, <2>4 DEF Revived!Dispatched
  <2>6. [d EXCEPT !.message.adapter = Revived!None] =
            [form |-> "object", adapter |-> a, name |-> Revived!None, binding |-> b, state |-> c,
             streaming |-> k, turn |-> k, recent |-> k, history |-> c, channel |-> <<>>,
                   message |-> m2]
    BY <2>3, <2>4
  <2>7. CASE o = d
    BY <2>3, <2>4, <2>7
  <2>8. CASE o = [d EXCEPT !.message.adapter = Revived!None]
    BY <2>3, <2>6, <2>8
  <2>9. QED
    BY <2>5, <2>7, <2>8
<1>5. b \in OwnedBindings /\ ~b.on /\ k \in ChatsOr /\ b.owner = Revived!None
  BY <1>1, <1>3 DEF Revived!NoBinding, OwnedBindings, ChatsOr
<1>6. PICK e : e = [form |-> "object", adapter |-> a, name |-> Revived!None, binding |-> b,
                      state |-> c, streaming |-> k,
                    turn |-> k, recent |-> k, history |-> c, channel |-> <<>>, message |-> n]
  OBVIOUS
<1>7. e \in OwnedObjects
  BY <1>4, <1>5, <1>6 DEF OwnedObjects, AdaptersOr
<1>8. e.binding = b /\ e.adapter = a /\ e.name = Revived!None /\ e.channel = <<>>
  BY <1>6
<1>9. SoundObject(e)
  BY <1>3, <1>5, <1>7, <1>8, NoneIsNoOne DEF SoundObject
<1>10. QED
  BY <1>4, <1>6, <1>9, Zenon

LEMMA OwnershipInitially == Revived!Init => OwnershipInv
<1> SUFFICES ASSUME Revived!Init PROVE OwnershipInv
  OBVIOUS
<1>1. own_default \in ChatsOr /\ own_active \in ChatsOr /\ own_steps \in 0 .. OwnSteps
  BY RevivedAssumption DEF Revived!Init, ChatsOr, Revived!Chats
<1>2. Revived!PlainMessage \in HeardMessages /\ Revived!Messages \subseteq HeardMessages
  BY DEF Revived!PlainMessage, Revived!Messages, Revived!Message, HeardMessages, AdaptersOr
<1>3. "c1" \in ChatsOr /\ "c2" \in ChatsOr /\ Revived!None \in ChatsOr
          /\ "s1" \in Revived!Adapters /\ "b2" \in Revived!Adapters
  BY DEF ChatsOr, Revived!Chats, Revived!Adapters
<1>4. PICK o : o = own_object
  OBVIOUS
<1>5. o \in OwnedTexts \/ SoundObject(o)
  <2>1. CASE o = Revived!Nameless
    <3>1. PICK x : x = Revived!Written(Revived!PlainMessage)
      OBVIOUS
    <3>2. PICK T : T = {Revived!Written(m) : m \in HeardMessages}
      OBVIOUS
    <3>3. x \in T /\ o = [form |-> "json", name |-> "", message |-> x]
      BY <1>2, <2>1, <3>1, <3>2 DEF Revived!Nameless
    <3>4. QED
      BY <3>2, <3>3 DEF OwnedTexts
  <2>2. CASE o = Revived!Dispatched("c1", "s1", Revived!PlainMessage)
            \/ o = Revived!Dispatched("c2", "b2", Revived!PlainMessage) \/ o = Revived!Bare("s1")
    BY <1>2, <1>3, <2>2, DispatchedAreSound DEF Revived!Init, Revived!Bare
  <2>3. CASE \E m \in Revived!Messages : o = Revived!Dispatched("c1", "s1", m)
    BY <1>2, <1>3, <2>3, DispatchedAreSound DEF Revived!Init
  <2>4. QED
    BY <1>4, <2>1, <2>2, <2>3 DEF Revived!Init
<1>6. own_last.op = Revived!None /\ Revived!None \notin {"use", "channel", "stream", "revive",
                                                           "restore", "serialize"}
  BY DEF Revived!Init, Revived!NoUse, Revived!None
<1>7. Revived!RoutesDoNotSplit
  BY <1>4, <1>5, <1>6, OwnersHave DEF Revived!RoutesDoNotSplit, Revived!IsObject,
                                      OwnedTexts, SoundObject
<1>8. Revived!ObjectsStayTheirChats
  BY <1>6, <1>7 DEF Revived!ObjectsStayTheirChats, Revived!OwnersAreKept,
                    Revived!FailuresLeaveItAlone, Revived!RebindingIsRestoring,
                            Revived!StreamsAsItsChat,
                    Revived!NamedChatIsTheOwner, Revived!MessagesSurvive
<1>9. QED
  BY <1>1, <1>4, <1>5, <1>8 DEF OwnershipInv

\* What is written of an object, or restored, is of the same message.
LEMMA SerializedInStep ==
    ASSUME OwnershipInv, Revived!Serialize
    PROVE  OwnershipInv'
<1>1. PICK o : o = own_object
  OBVIOUS
<1>2. ChatsKnown /\ SoundObject(o)
  BY <1>1 DEF OwnershipInv, ChatsKnown, Revived!Serialize, OwnedTexts
<1>3. PICK v : v = Revived!Serialized(IF o.name # Revived!None THEN o ELSE Revived!WithAdapter(o).o)
  OBVIOUS
<1>4. PICK u : u = own_last'
  OBVIOUS
<1>5. own_object' = v /\ u.op = "serialize" /\ u.before = o
  BY <1>1, <1>3, <1>4 DEF Revived!Serialize, Revived!NoUse
<1>6. v \in OwnedTexts /\ v.message = Revived!Written(o.message)
  BY <1>2, <1>3, ObjectsAreWritten
<1>7. PICK r : r = Revived!Read(Revived!Written(o.message))
  OBVIOUS
<1>8. r.mention = o.message.mention /\ r.system = o.message.system
          /\ r.reply = o.message.reply /\ o.form = "object"
  BY <1>2, <1>7, MessagesAreRead DEF SoundObject, OwnedObjects
<1>9. v.form = "json"
  BY <1>6 DEF OwnedTexts
<1>10. Revived!MessagesSurvive'
  BY <1>4, <1>5, <1>6, <1>7, <1>8, <1>9 DEF Revived!MessagesSurvive
<1>11. Revived!ObjectsStayTheirChats'
  BY <1>4, <1>5, <1>9, <1>10 DEF Revived!ObjectsStayTheirChats, Revived!RoutesDoNotSplit,
                                 Revived!IsObject, Revived!OwnersAreKept,
                                         Revived!FailuresLeaveItAlone,
                    Revived!RebindingIsRestoring, Revived!StreamsAsItsChat,
                          Revived!NamedChatIsTheOwner
<1>12. /\ UNCHANGED <<own_default, own_active>> /\ own_steps' \in 0 .. OwnSteps
  BY RevivedAssumption DEF Revived!Serialize, Revived!Count, OwnershipInv
<1>13. QED
  BY <1>5, <1>6, <1>11, <1>12 DEF OwnershipInv

LEMMA RestoredInStep ==
    ASSUME OwnershipInv, Revived!FromJson
    PROVE  OwnershipInv'
<1>1. PICK o : o = own_object
  OBVIOUS
<1>2. PICK adapter \in AdaptersOr, chat \in ChatsOr :
        LET restored == Revived!Restored(own_object, adapter, chat)
            json     == IF own_object.form = "json" THEN own_object
                        ELSE Revived!Serialized(IF own_object.name # Revived!None THEN own_object ELSE Revived!WithAdapter(own_object).o)
        IN  /\ own_object' = restored.o
            /\ own_last' = [Revived!NoUse EXCEPT !.op = IF adapter = Revived!None

                                                                 /\ chat = Revived!None THEN "revive" ELSE "restore",
                                     !.raised = restored.raised, !.before = own_object,
                                     !.fresh = Revived!Restored(json, adapter, chat),
                                           !.chat = chat, !.given = adapter]
  BY DEF Revived!FromJson, AdaptersOr, ChatsOr
<1>3. PICK r : r = Revived!Restored(o, adapter, chat)
  OBVIOUS
<1>4. PICK j : j = IF o.form = "json" THEN o ELSE Revived!Serialized(IF o.name # Revived!None THEN o ELSE Revived!WithAdapter(o).o)
  OBVIOUS
<1>5. PICK f : f = Revived!Restored(j, adapter, chat)
  OBVIOUS
<1>6. PICK u : u = own_last'
  OBVIOUS
<1>7. PICK op : op = IF adapter = Revived!None /\ chat = Revived!None THEN "revive" ELSE "restore"
  OBVIOUS
<1>8. /\ own_object' = r.o /\ u.op = op /\ u.raised = r.raised /\ u.before = o
      /\ u.fresh = f /\ u.chat = chat
      /\ u.given = adapter
  <2>1. u = [Revived!NoUse EXCEPT !.op = op, !.raised = r.raised, !.before = o, !.fresh = f,
               !.chat = chat, !.given = adapter]
    BY <1>1, <1>2, <1>3, <1>4, <1>5, <1>6, <1>7
  <2>2. own_object' = r.o
    BY <1>1, <1>2, <1>3
  <2>3. QED
    BY <2>1, <2>2 DEF Revived!NoUse
<1>9. /\ ChatsKnown /\ Restorable(o) /\ UNCHANGED <<own_default, own_active>>
      /\ own_steps' \in 0 .. OwnSteps
  BY <1>1, RevivedAssumption DEF OwnershipInv, ChatsKnown, Restorable, Revived!FromJson,
                               Revived!Count
<1>10. PICK e : e = r.o
  OBVIOUS
<1>11. PICK m \in HeardMessages : m = Recalled(o)
  BY <1>9, RecalledIsHeard
<1>12. (SoundObject(o) => o.form = "object") /\ (o \in OwnedTexts => o.form = "json")
  BY DEF SoundObject, OwnedObjects, OwnedTexts
<1>13. CASE adapter = Revived!None /\ chat = Revived!None
  <2>1. /\ r.raised = FALSE /\ SoundObject(e) /\ e.form = "object" /\ e.message = m
        /\ (SoundObject(o) /\ o.adapter # Revived!None) => e = o
    BY <1>3, <1>9, <1>10, <1>11, <1>13, RevivedAre
  <2>2. u.op = "revive" /\ own_object' = e
    BY <1>7, <1>8, <1>10, <1>13
  <2>3. Revived!RoutesDoNotSplit'
    BY <1>6, <2>1, <2>2, OwnersHave DEF Revived!RoutesDoNotSplit, Revived!IsObject,
    SoundObject
  <2>4. Revived!OwnersAreKept'
    BY <1>6, <1>8, <1>9, <1>12, <2>1, <2>2 DEF Revived!OwnersAreKept, Restorable
  <2>5. Revived!MessagesSurvive'
    BY <1>6, <1>8, <1>11, <2>1, <2>2 DEF Revived!MessagesSurvive, Recalled
  <2>6. Revived!ObjectsStayTheirChats'
    BY <1>6, <1>8, <2>1, <2>2, <2>3, <2>4, <2>5 DEF Revived!ObjectsStayTheirChats,
    Revived!FailuresLeaveItAlone, Revived!RebindingIsRestoring,
                                                   Revived!StreamsAsItsChat,
                                                         Revived!NamedChatIsTheOwner
  <2>7. QED
    BY <1>9, <2>1, <2>2, <2>6 DEF OwnershipInv
<1>14. CASE adapter # Revived!None \/ chat # Revived!None
  <2>1. PICK n : n = LookedUp(o)
    OBVIOUS
  <2>2. n \in {"", "slack"}
    BY <1>9, <2>1, NoneIsNoOne DEF Restorable, SoundObject, OwnedObjects, OwnedTexts,
                                   LookedUp
  <2>3. /\ r.raised = Raises(n, adapter, chat) /\ (r.raised => e = o)
        /\ ~r.raised => e = Bound(n, m, adapter, chat)
    BY <1>3, <1>9, <1>10, <1>11, <1>14, <2>1, RestoredIs
  <2>4. u.op = "restore" /\ own_object' = e
    BY <1>7, <1>8, <1>10, <1>14
  <2>5. ~r.raised => /\ SoundObject(e) /\ e.form = "object"
                     /\ e.message.mention = m.mention /\ e.message.system = m.system
                     /\ e.message.reply = m.reply
                     /\ (chat # Revived!None /\ e.adapter # Revived!None) =>
                           Revived!Owns(chat, e.adapter) /\ e.state = chat
                                 /\ e.message.adapter = e.adapter
                     /\ adapter # Revived!None => e.adapter = adapter
    <3>1. ASSUME ~r.raised PROVE OwnedAs(e, m, adapter, chat)
      BY <1>9, <1>14, <2>2, <2>3, <3>1, BoundIsOwned
    <3>2. QED
      BY <3>1 DEF OwnedAs
  <2>6. e \in OwnedTexts \/ SoundObject(e)
    BY <1>9, <2>3, <2>5 DEF Restorable
  <2>7. Revived!RoutesDoNotSplit'
    BY <1>6, <2>4, <2>6, OwnersHave DEF Revived!RoutesDoNotSplit, Revived!IsObject,
    SoundObject, OwnedTexts
  <2>8. Revived!RebindingIsRestoring'
    <3>1. ASSUME o.form = "object"
          PROVE  /\ r.raised = f.raised
                 /\ ~r.raised => [e EXCEPT !.message = Revived!PlainMessage] = [f.o EXCEPT !.message = Revived!PlainMessage]
      <4>1. SoundObject(o)
        BY <1>9, <1>12, <3>1 DEF Restorable
      <4>2. j \in OwnedTexts /\ j.name = n
        BY <1>4, <1>9, <2>1, <3>1, <4>1, ObjectsAreWritten DEF LookedUp
      <4>3. LookedUp(j) = n /\ Restorable(j)
        BY <4>2 DEF LookedUp, OwnedTexts, Restorable
      <4>4. PICK k : k = Recalled(j)
        OBVIOUS
      <4>5. PICK g : g = f.o
        OBVIOUS
      <4>6. f.raised = Raises(n, adapter, chat) /\ (~f.raised => g = Bound(n, k, adapter, chat))
        BY <1>5, <1>14, <4>3, <4>4, <4>5, RestoredIs
      <4>7. ~r.raised => [e EXCEPT !.message = Revived!PlainMessage] = [g EXCEPT !.message = Revived!PlainMessage]
        BY <2>3, <4>6, BoundAlike
      <4>8. QED
        BY <2>3, <4>5, <4>6, <4>7
    <3>2. QED
      BY <1>6, <1>8, <2>4, <3>1 DEF Revived!RebindingIsRestoring
  <2>9. Revived!NamedChatIsTheOwner'
    BY <1>6, <1>8, <2>4, <2>5, OwnersHave DEF Revived!NamedChatIsTheOwner
  <2>10. Revived!MessagesSurvive'
    <3>1. CASE r.raised
      BY <1>6, <1>8, <2>3, <2>4, <3>1 DEF Revived!MessagesSurvive
    <3>2. CASE ~r.raised
      BY <1>6, <1>8, <1>11, <2>4, <2>5, <3>2 DEF Revived!MessagesSurvive, Recalled
    <3>3. QED
      BY <3>1, <3>2
  <2>11. Revived!ObjectsStayTheirChats'
    BY <1>6, <1>8, <2>3, <2>4, <2>7, <2>8, <2>9, <2>10
       DEF Revived!ObjectsStayTheirChats, Revived!FailuresLeaveItAlone,
           Revived!OwnersAreKept, Revived!StreamsAsItsChat
  <2>12. QED
    BY <1>9, <2>4, <2>6, <2>11 DEF OwnershipInv
<1>15. QED
  BY <1>13, <1>14

-----------------------------------------------------------------------------
\* What an operation that uses the object is told of must be of the object's owner.
LEMMA UsedInStep ==
    ASSUME NEW o, o = own_object, SoundObject(o), NEW e, e = own_object', SoundObject(e),
          NEW u, u = own_last', u.before = o,
           u.op \in {"use", "channel", "stream"},
           (o.binding.owner # Revived!None /\ o.adapter # Revived!None) =>
               e.binding.owner = o.binding.owner /\ ~u.raised /\ u.adapter = o.adapter,
           (u.op \in {"use", "channel"} /\ ~u.raised /\ o.channel = <<>> /\ e.binding.on /\ e.binding.owner # Revived!None) =>
               u.state = e.binding.owner,
           (u.op = "stream" /\ ~u.raised) =>
               /\ ~e.binding.on => u.streaming = e.streaming
               /\ e.binding.on => u.streaming = e.binding.owner
    PROVE  Revived!ObjectsStayTheirChats'
<1>1. Revived!RoutesDoNotSplit'
  BY OwnersHave DEF Revived!RoutesDoNotSplit, Revived!IsObject, SoundObject
<1>2. Revived!OwnersAreKept'
  BY DEF Revived!OwnersAreKept
<1>3. Revived!StreamsAsItsChat'
  BY DEF Revived!StreamsAsItsChat
<1>4. QED
  BY <1>1, <1>2, <1>3 DEF Revived!ObjectsStayTheirChats, Revived!FailuresLeaveItAlone,
                          Revived!RebindingIsRestoring, Revived!NamedChatIsTheOwner,
                          Revived!MessagesSurvive

LEMMA UseInStep ==
    ASSUME OwnershipInv, Revived!Use
    PROVE  OwnershipInv'
<1>1. PICK o : o = own_object
  OBVIOUS
<1>2. /\ ChatsKnown /\ SoundObject(o) /\ UNCHANGED <<own_default, own_active>>
      /\ own_steps' \in 0 .. OwnSteps
  <2>1. own_steps \in 0 .. OwnSteps /\ own_steps < OwnSteps /\ own_steps' = own_steps + 1
    BY DEF OwnershipInv, Revived!Use, Revived!Count
  <2>2. own_steps' \in 0 .. OwnSteps
    BY <2>1, RevivedAssumption
  <2>3. o \notin OwnedTexts
    BY <1>1 DEF Revived!Use, OwnedTexts
  <2>4. QED
    BY <1>1, <2>2, <2>3 DEF OwnershipInv, ChatsKnown, Revived!Use
<1>3. PICK u : u = own_last'
  OBVIOUS
<1>4. PICK e : e = own_object'
  OBVIOUS
<1>5. o \in OwnedObjects /\ o.binding \in OwnedBindings
  BY <1>2 DEF SoundObject, OwnedObjects
<1>6. SUFFICES SoundObject(e) /\ Revived!ObjectsStayTheirChats'
  BY <1>2, <1>4 DEF OwnershipInv
<1>7. CASE LET with == Revived!WithState(own_object)
               then == Revived!WithAdapter(with.o)
           IN  /\ own_object' = then.o
               /\ own_last' = [Revived!NoUse EXCEPT !.op = "use", !.raised = with.raised
                                 \/ then.raised, !.adapter = then.o.adapter,
                                        !.state = with.state, !.before = own_object]
  <2>1. PICK w : w = Revived!WithState(o)
    OBVIOUS
  <2>2. PICK a : a = Revived!WithAdapter(w.o)
    OBVIOUS
  <2>3. PICK q : q = (w.raised \/ a.raised)
    OBVIOUS
  <2>4. PICK c : c = a.o.adapter
    OBVIOUS
  <2>5. /\ e = a.o /\ u.op = "use" /\ u.raised = q /\ u.adapter = e.adapter
        /\ u.state = w.state /\ u.before = o
    <3>1. u = [Revived!NoUse EXCEPT !.op = "use", !.raised = q, !.adapter = c,
                 !.state = w.state, !.before = o]
      BY <1>1, <1>3, <1>7, <2>1, <2>2, <2>3, <2>4
    <3>2. e = a.o
      BY <1>1, <1>4, <1>7, <2>1, <2>2
    <3>3. QED
      BY <2>4, <3>1, <3>2 DEF Revived!NoUse
  <2>6. /\ w.raised \in BOOLEAN /\ SoundObject(w.o) /\ w.o.binding.on = o.binding.on
        /\ (o.binding.on /\ ~w.raised /\ w.o.binding.owner # Revived!None) =>
              w.state = w.o.binding.owner
        /\ (~w.raised /\ o.binding.on /\ o.state = Revived!None) =>
              w.o.adapter # Revived!None /\ Revived!OwnerResolved(w.o.binding,
                                                                    w.o.adapter) = w.o.binding
        /\ (o.binding.owner # Revived!None /\ o.adapter # Revived!None) =>
              ~w.raised /\ w.o.binding = o.binding /\ w.o.adapter = o.adapter
    BY <1>2, <2>1, StatesAreFound
  <2>7. PICK x : x = w.o
    OBVIOUS
  <2>8. /\ a.raised \in BOOLEAN /\ SoundObject(a.o) /\ (a.raised =>
                                                          a.o = x /\ x.adapter = Revived!None)
        /\ a.o.binding.on = x.binding.on
        /\ x.adapter # Revived!None => /\ ~a.raised /\ a.o = Revived!Resolved(x)
                                       /\ x.binding.owner # Revived!None => a.o = x
    BY <1>2, <2>2, <2>6, <2>7, AdaptersAreFound
  <2>9. x \in OwnedObjects /\ SoundObject(x)
    BY <2>6, <2>7 DEF SoundObject
  <2>10. (~w.raised /\ o.binding.on /\ o.state = Revived!None) => e = x
    <3>1. x.adapter # Revived!None /\ Revived!OwnerResolved(x.binding, x.adapter) = x.binding =>
              Revived!Resolved(x) = x
      BY <2>9 DEF Revived!Resolved, OwnedObjects
    <3>2. QED
      BY <2>5, <2>6, <2>7, <2>8, <3>1
  <2>11. (~w.raised /\ o.binding.on /\ o.state # Revived!None) =>
            w.state = x.binding.owner /\ x = o /\ o.binding.owner # Revived!None
    <3>1. o.state # Revived!None => w = [o |-> o, state |-> o.state, raised |-> FALSE]
      BY <2>1 DEF Revived!WithState
    <3>2. o.state # Revived!None => w.o = o /\ w.state = o.state
      BY <3>1
    <3>3. QED
      BY <1>2, <2>7, <3>2 DEF SoundObject
  <2>12. (~q /\ e.binding.on /\ e.binding.owner # Revived!None) => w.state = e.binding.owner
    <3>1. ASSUME ~q, e.binding.on, e.binding.owner # Revived!None,
              o.state # Revived!None PROVE w.state = e.binding.owner
      <4>1. o.binding.on /\ x = o /\ w.state = o.binding.owner /\ o.binding.owner # Revived!None
        BY <2>3, <2>5, <2>6, <2>7, <2>8, <2>11, <3>1
      <4>2. ~a.raised
        BY <2>3, <3>1
      <4>3. CASE o.adapter # Revived!None
        BY <2>5, <2>8, <4>1, <4>3
      <4>4. CASE o.adapter = Revived!None
        <5>1. o.name = ""
          BY <1>2, <1>5, <4>1, <4>4 DEF SoundObject, OwnedObjects
        <5>2. a = [o |-> o, raised |-> TRUE]
          BY <2>2, <2>7, <4>1, <4>4, <5>1 DEF Revived!WithAdapter
        <5>3. QED
          BY <4>2, <5>2
      <4>5. QED
        BY <4>3, <4>4
    <3>2. QED
      BY <2>3, <2>5, <2>6, <2>7, <2>8, <2>10, <3>1
  <2>13. (o.binding.owner # Revived!None /\ o.adapter # Revived!None) =>
             e.binding.owner = o.binding.owner /\ ~q /\ e.adapter = o.adapter
    BY <2>3, <2>5, <2>6, <2>7, <2>8
  <2>14. SoundObject(e)
    BY <2>5, <2>8
  <2>15. Revived!ObjectsStayTheirChats'
    BY <1>1, <1>2, <1>3, <1>4, <2>5, <2>12, <2>13, <2>14, UsedInStep
  <2>16. QED
    BY <2>14, <2>15
<1>8. CASE LET with == Revived!WithChannel(own_object)
           IN  /\ own_object' = with.o
               /\ own_last' = [Revived!NoUse EXCEPT !.op = "channel", !.raised = with.raised,
                                 !.before = own_object,
                                        !.adapter = IF with.raised THEN Revived!None ELSE with.o.channel[1],
                                        !.state = IF with.raised THEN Revived!None ELSE with.o.channel[2]]
  <2>1. PICK w : w = Revived!WithChannel(o)
    OBVIOUS
  <2>2. PICK c : c = IF w.raised THEN Revived!None ELSE w.o.channel[1]
    OBVIOUS
  <2>3. PICK s : s = IF w.raised THEN Revived!None ELSE w.o.channel[2]
    OBVIOUS
  <2>4. /\ e = w.o /\ u.op = "channel" /\ u.raised = w.raised /\ u.adapter = c
        /\ u.state = s /\ u.before = o
    <3>1. u = [Revived!NoUse EXCEPT !.op = "channel", !.raised = w.raised, !.before = o,
                 !.adapter = c, !.state = s]
      BY <1>1, <1>3, <1>8, <2>1, <2>2, <2>3
    <3>2. e = w.o
      BY <1>1, <1>4, <1>8, <2>1
    <3>3. QED
      BY <3>1, <3>2 DEF Revived!NoUse
  <2>5. /\ w.raised \in BOOLEAN /\ SoundObject(e) /\ e.binding.on = o.binding.on
        /\ ~w.raised => e.channel # <<>>
        /\ (o.binding.on /\ ~w.raised /\ o.channel = <<>> /\ e.binding.owner # Revived!None) =>
              e.channel[2] = e.binding.owner
        /\ (o.binding.owner # Revived!None /\ o.adapter # Revived!None) =>
              ~w.raised /\ e.binding = o.binding /\ e.adapter = o.adapter
    BY <1>2, <2>1, <2>4, ChannelsAreMade
  <2>6. ~w.raised => c = e.adapter /\ s = e.channel[2]
    BY <2>2, <2>3, <2>4, <2>5 DEF SoundObject
  <2>7. Revived!ObjectsStayTheirChats'
    BY <1>1, <1>2, <1>3, <1>4, <2>4, <2>5, <2>6, UsedInStep
  <2>8. QED
    BY <2>5, <2>7
<1>9. CASE LET with == Revived!WithAdapter(own_object)
           IN  /\ own_object' = IF with.raised THEN with.o ELSE Revived!Resolved(with.o)
               /\ own_last' = [Revived!NoUse EXCEPT !.op = "stream", !.raised = with.raised,
                                 !.adapter = with.o.adapter,
                                        !.before = own_object,
                                        !.streaming = IF with.raised THEN Revived!None ELSE Revived!StreamingOf(with.o)]
  <2>1. PICK w : w = Revived!WithAdapter(o)
    OBVIOUS
  <2>2. PICK x : x = w.o
    OBVIOUS
  <2>3. PICK s : s = IF w.raised THEN Revived!None ELSE Revived!StreamingOf(x)
    OBVIOUS
  <2>4. PICK c : c = x.adapter
    OBVIOUS
  <2>5. /\ e = (IF w.raised THEN x ELSE Revived!Resolved(x)) /\ u.op = "stream"
        /\ u.raised = w.raised /\ u.adapter = c /\ u.streaming = s
        /\ u.before = o
    <3>1. u = [Revived!NoUse EXCEPT !.op = "stream", !.raised = w.raised, !.adapter = c,
                 !.before = o, !.streaming = s]
      BY <1>1, <1>3, <1>9, <2>1, <2>2, <2>3, <2>4
    <3>2. e = IF w.raised THEN x ELSE Revived!Resolved(x)
      BY <1>1, <1>4, <1>9, <2>1, <2>2
    <3>3. QED
      BY <3>1, <3>2 DEF Revived!NoUse
  <2>6. /\ w.raised \in BOOLEAN /\ SoundObject(x) /\ (w.raised => x = o /\ o.adapter = Revived!None)
        /\ x.binding.on = o.binding.on
        /\ ~w.raised => x.adapter # Revived!None
              /\ Revived!OwnerResolved(x.binding, x.adapter) = x.binding
        /\ o.adapter # Revived!None => /\ ~w.raised /\ x = Revived!Resolved(o)
                                       /\ o.binding.owner # Revived!None => x = o
    BY <1>2, <2>1, <2>2, AdaptersAreFound
  <2>7. x \in OwnedObjects /\ x.binding \in OwnedBindings
    BY <2>6 DEF SoundObject, OwnedObjects
  <2>8. CASE ~w.raised
    <3>1. e = x
      BY <2>5, <2>6, <2>7, <2>8 DEF Revived!Resolved, OwnedObjects
    <3>2. s = IF x.streaming # Revived!None THEN x.streaming ELSE x.binding.owner
      BY <2>3, <2>6, <2>8 DEF Revived!StreamingOf
    <3>3. x.binding.on => s = x.binding.owner
      BY <2>6, <3>2 DEF SoundObject
    <3>4. ~x.binding.on => s = x.streaming
      <4>1. Revived!NoBinding.owner = Revived!None
        BY DEF Revived!NoBinding
      <4>2. QED
        BY <2>6, <3>2, <4>1 DEF SoundObject
    <3>5. SoundObject(e) /\ (o.binding.owner # Revived!None /\ o.adapter # Revived!None => e = o)
      BY <2>6, <3>1
    <3>6. Revived!ObjectsStayTheirChats'
      BY <1>1, <1>2, <1>3, <1>4, <2>4, <2>5, <2>8, <3>1, <3>3, <3>4, <3>5, UsedInStep
    <3>7. QED
      BY <3>5, <3>6
  <2>9. CASE w.raised
    <3>1. x = o /\ o.adapter = Revived!None
      BY <2>6, <2>9
    <3>2. SoundObject(e)
      BY <1>2, <2>5, <2>9, <3>1
    <3>3. Revived!ObjectsStayTheirChats'
      BY <1>1, <1>2, <1>3, <1>4, <2>5, <2>9, <3>1, <3>2, UsedInStep
    <3>4. QED
      BY <3>2, <3>3
  <2>10. QED
    BY <2>6, <2>8, <2>9
<1>10. QED
  BY <1>7, <1>8, <1>9 DEF Revived!Use

LEMMA OwnershipStep == OwnershipInv /\ [Revived!Next]_Revived!vars => OwnershipInv'
<1> SUFFICES ASSUME OwnershipInv, [Revived!Next]_Revived!vars PROVE OwnershipInv'
  OBVIOUS
<1>1. CASE Revived!ChangeChats
  <2>1. PICK o : o = own_object'
    OBVIOUS
  <2>2. o \in OwnedTexts \/ SoundObject(o)
    BY <1>1, <2>1 DEF OwnershipInv, Revived!ChangeChats
  <2>3. own_default' \in ChatsOr /\ own_active' \in ChatsOr
    BY <1>1 DEF OwnershipInv, Revived!ChangeChats, ChatsOr
  <2>4. own_steps' \in 0 .. OwnSteps
    <3>1. own_steps \in 0 .. OwnSteps /\ own_steps < OwnSteps /\ own_steps' = own_steps + 1
      BY <1>1 DEF OwnershipInv, Revived!ChangeChats, Revived!Count
    <3>2. QED
      BY <3>1, RevivedAssumption
  <2>5. Revived!ObjectsStayTheirChats'
    BY <1>1, <2>1, <2>2, NothingUsed DEF Revived!ChangeChats
  <2>6. QED
    BY <2>1, <2>2, <2>3, <2>4, <2>5 DEF OwnershipInv
<1>2. CASE Revived!Serialize
  BY <1>2, SerializedInStep
<1>3. CASE Revived!FromJson
  BY <1>3, RestoredInStep
<1>4. CASE Revived!Use
  BY <1>4, UseInStep
<1>5. CASE UNCHANGED Revived!vars
  BY <1>5 DEF Revived!vars, OwnershipInv, Revived!ObjectsStayTheirChats,
              Revived!RoutesDoNotSplit, Revived!OwnersAreKept, Revived!FailuresLeaveItAlone,
              Revived!RebindingIsRestoring, Revived!StreamsAsItsChat,
                    Revived!NamedChatIsTheOwner, Revived!MessagesSurvive, Revived!IsObject,
                          Revived!IsOf
<1>6. QED
  BY <1>1, <1>2, <1>3, <1>4, <1>5 DEF Revived!Next

LEMMA OwnershipFollows == OwnershipInv => Revived!ObjectsStayTheirChats
BY DEF OwnershipInv

-----------------------------------------------------------------------------
(* WhatsApp's users, with any number of webhooks and failing calls.        *)

Anns == {"pa0", "pa1", "ba0", "ba1", "ea0", "ea1"}
AnnsOr == Anns \cup {Users!None}
AnnsRoutes == [bsuid : AnnsOr, parent : AnnsOr, phone : AnnsOr]
NamedLists == [1 .. 3 -> AnnsOr] \cup [1 .. 4 -> AnnsOr] \cup [1 .. 5 -> AnnsOr]
FoundAliases == {<<>>} \cup UNION {[P -> AnnsOr] : P \in SUBSET (1 .. 5)}
UserWrites == [at : Anns, is : {"alias", "route"}, to : AnnsOr, route : AnnsRoutes]

UserTasks == [pc : {"aliases", "route", "writing"}, who : {"ann"}, era : 0 .. 1,
                ids : NamedLists, fallback : Anns,
            fields : AnnsRoutes, notice : BOOLEAN, clears : BOOLEAN, got : FoundAliases,
                  user : AnnsOr, path : AnnsRoutes,
            writes : SUBSET UserWrites, alone : BOOLEAN]

\* What is stored is the first user's: of the second, nothing ever is.
IdentityTypes ==
    /\ wa_pace \in {"apart", "together"} /\ wa_era \in 0 .. 1 /\ wa_rotated \in BOOLEAN
    /\ wa_alias \in [Users!Ids -> AnnsOr] /\ wa_alias["pb"] = Users!None
    /\ wa_alias["bb"] = Users!None
    /\ wa_route \in [Users!Ids -> AnnsRoutes] /\ wa_route["pb"] = Users!EmptyRoute
    /\ wa_route["bb"] = Users!EmptyRoute
    /\ wa_task \in [Users!Slots -> UserTasks \cup {Users!NoTask}] /\ wa_loose \in SUBSET UserWrites
    /\ wa_quiet \in SUBSET Users!User /\ wa_told \in BOOLEAN
    /\ wa_home \in [Users!User -> AnnsOr] /\ wa_home["bob"] = Users!None
    /\ wa_known \in [Users!User -> SUBSET Anns] /\ wa_known["bob"] = {}
    /\ wa_last \in [who : {Users!None, "ann"}, alone : BOOLEAN, ids : SUBSET Anns,
                      user : AnnsOr, hit : BOOLEAN]
    /\ wa_last.user # Users!None \/ wa_last.hit \/ wa_last.alone => wa_last.who = "ann"

\* A route leads somewhere, and not to a number of another time.
GoodRoute(r, e) == r.phone \in {Users!None, Users!Phone("ann", e)} /\ (r.phone # Users!None \/ r.bsuid # Users!None \/ r.parent # Users!None)

\* A webhook is the first user's: its number is that of its time, a notice of a
\* change takes the number away and says something; all it writes leads to one user.
WebhookAsGiven(t) ==
    /\ t.era <= wa_era /\ t.fields.phone \in {Users!None, Users!Phone("ann", t.era)}
    /\ (t.notice <=> t.clears)
    /\ t.notice => t.fields.bsuid # Users!None \/ t.fields.parent # Users!None
          \/ t.fields.phone # Users!None
    /\ t.pc = "route" => DOMAIN t.got = Users!Places(t)
    /\ t.pc = "writing" =>
          /\ t.user \in Anns
          /\ \A w \in t.writes : \/ w.is = "alias" /\ w.to = t.user /\ w.at \in Users!Named(t)
                                 \/ w.is = "route" /\ w.at = t.user

UserTasksAsGiven == \A s \in Users!Slots, t \in UserTasks : wa_task[s] = t => WebhookAsGiven(t)

\* A webhook that is alone has nobody beside it, and writes outlive a webhook only
\* where one failed.
AloneIsAlone ==
    /\ \A s \in Users!Slots, t \in UserTasks : wa_task[s] = t /\ (t.alone
                                                                    \/ wa_pace = "apart") => \A r \in Users!Slots \ {s} : wa_task[r] = Users!NoTask
    /\ \A s \in Users!Slots, t \in UserTasks : wa_task[s] = t /\ t.alone => wa_loose = {}
    /\ \A s \in Users!Slots, t \in UserTasks : wa_task[s] = t /\ "ann" \in wa_quiet => t.alone
    /\ wa_loose # {} => wa_pace = "apart" /\ (\A s \in Users!Slots : wa_task[s] = Users!NoTask) /\ ~wa_last.alone /\ "ann" \notin wa_quiet

\* What a webhook that is alone has read still stands, and what it named leads
\* to its user already or is about to.
LinksAreHealing ==
    /\ \A s \in Users!Slots, t \in UserTasks :
          wa_task[s] = t /\ t.alone /\ t.pc = "route" =>
                \A i \in Users!Places(t) : t.got[i] = wa_alias[t.ids[i]]
    /\ \A s \in Users!Slots, t \in UserTasks :
          wa_task[s] = t /\ t.alone /\ t.pc = "writing" =>
              \A id \in Users!Named(t) : wa_alias[id] = t.user
                    \/ \E w \in t.writes : w.is = "alias" /\ w.at = id
    /\ wa_last.alone /\ (\A s \in Users!Slots : wa_task[s] = Users!NoTask) =>
          \A id \in wa_last.ids : wa_alias[id] = wa_last.user

\* Ahead of what leads to the user's thread an id is named that began another.
Misled(t) ==
    /\ wa_home["ann"] # Users!None /\ Users!Named(t) \cap wa_known["ann"] # {}
    /\ \E i \in Users!Places(t) : /\ wa_alias[t.ids[i]] \notin {Users!None, wa_home["ann"]}
                                  /\ \A j \in Users!Places(t) : j < i =>
                                        wa_alias[t.ids[j]] # wa_home["ann"]

\* What is known leads home, and a webhook that names any of it goes there.
ThreadsAreKnown ==
    /\ wa_home["ann"] = Users!None => wa_known["ann"] = {}
    /\ wa_last.hit => wa_home["ann"] # Users!None
    /\ "ann" \in wa_quiet /\ wa_last.hit => wa_last.user = wa_home["ann"]
    /\ "ann" \in wa_quiet /\ wa_home["ann"] # Users!None =>
          \A id \in wa_known["ann"] : wa_alias[id] = wa_home["ann"]
    /\ \A s \in Users!Slots, t \in UserTasks :
          wa_task[s] = t /\ "ann" \in wa_quiet /\ t.pc \in {"aliases", "route"} => ~Misled(t)
    /\ \A s \in Users!Slots, t \in UserTasks :
          wa_task[s] = t /\ "ann" \in wa_quiet /\ t.pc = "writing"
                /\ wa_home["ann"] # Users!None /\ Users!Named(t) \cap wa_known["ann"] # {}
              => t.user = wa_home["ann"]

\* Where the adapter was told the number, the route home has no other.
NumbersAreTold ==
    /\ wa_told => wa_home["ann"] # Users!None
    /\ wa_told /\ "ann" \in wa_quiet => GoodRoute(wa_route[wa_home["ann"]], wa_era)
    /\ \A s \in Users!Slots, t \in UserTasks : wa_task[s] = t /\ wa_told
          /\ "ann" \in wa_quiet => t.era = wa_era
    /\ \A s \in Users!Slots, t \in UserTasks :
          wa_task[s] = t /\ t.pc = "writing" /\ wa_told /\ "ann" \in wa_quiet
                /\ t.user = wa_home["ann"]
              => \A w \in t.writes : w.is = "route" => GoodRoute(w.route, wa_era)
    /\ \A s \in Users!Slots, t \in UserTasks :
          wa_task[s] = t /\ t.pc = "writing" /\ t.alone /\ (t.notice \/ t.fields.phone # Users!None)
              => /\ \A w \in t.writes : w.is = "route" => GoodRoute(w.route, t.era)
                 /\ (\E w \in t.writes : w.is = "route") \/ GoodRoute(wa_route[t.user], t.era)

UsersInv == IdentityTypes /\ UserTasksAsGiven /\ AloneIsAlone /\ LinksAreHealing
      /\ ThreadsAreKnown /\ NumbersAreTold

\* A webhook as it comes in.
FreshWebhook(t) == t \in UserTasks /\ t.pc = "aliases" /\ WebhookAsGiven(t)

LEMMA NoUserIs == Users!None \notin Users!Ids /\ Users!Ids = Anns \cup {"pb", "bb"}
      /\ (\A id \in Anns : Users!Owner(id) = "ann") /\ Users!None \notin Anns
                 /\ Users!Owner("pb") = "bob" /\ Users!Owner("bb") = "bob"
BY DEF Users!None, Users!Ids, Anns, Users!Owner

LEMMA AnnsIdentifiers ==
    ASSUME NEW e \in 0 .. 1
    PROVE  /\ Users!Phone("ann", e) \in {"pa0", "pa1"} /\ Users!Bsuid("ann", e) \in {"ba0", "ba1"}
           /\ Users!Parent("ann", e) \in {"ea0", "ea1", Users!None}
           /\ Users!Phone("bob", e) = "pb" /\ Users!Bsuid("bob", e) = "bb"
           /\ Users!Parent("bob", e) = Users!None
BY DEF Users!Phone, Users!Bsuid, Users!Parent

LEMMA EmptyIs == Users!EmptyRoute \in AnnsRoutes /\ Users!EmptyRoute.phone = Users!None
      /\ Users!EmptyRoute.bsuid = Users!None /\ Users!EmptyRoute.parent = Users!None
BY DEF Users!EmptyRoute, AnnsRoutes, AnnsOr

LEMMA ShownAre ==
    ASSUME NEW e \in 0 .. 1, NEW r \in Users!Shown("ann", e)
    PROVE  r \in AnnsRoutes /\ r.phone \in {Users!None, Users!Phone("ann", e)}
          /\ r.bsuid \in {Users!None, Users!Bsuid("ann", e)}
           /\ r.parent \in {Users!None, Users!Parent("ann", e)}
<1>1. PICK p, b, q : p = Users!Phone("ann", e) /\ b = Users!Bsuid("ann", e)
          /\ q = Users!Parent("ann", e)
  OBVIOUS
<1>2. p \in AnnsOr /\ b \in AnnsOr /\ q \in AnnsOr /\ Users!None \in AnnsOr
  BY <1>1, AnnsIdentifiers DEF AnnsOr, Anns
<1>3. \E x \in {Users!None, p}, y \in {Users!None, b}, z \in {Users!None,
                                                                q} : r = [bsuid |-> y, parent |-> z, phone |-> x]
  BY <1>1 DEF Users!Shown, Users!EmptyRoute
<1>4. QED
  BY <1>1, <1>2, <1>3 DEF AnnsRoutes

LEMMA ListsAre ==
    ASSUME NEW a \in AnnsOr, NEW b \in AnnsOr, NEW c \in AnnsOr, NEW d \in AnnsOr, NEW e \in AnnsOr
    PROVE  <<a, b, c>> \in NamedLists /\ <<a, b, c, d>> \in NamedLists
          /\ <<a, b, c, d, e>> \in NamedLists
BY DEF NamedLists

LEMMA TasksAre ==
    ASSUME NEW stage \in {"aliases", "route", "writing"}, NEW e \in 0 .. 1,
          NEW l \in NamedLists, NEW back \in Anns,
           NEW f \in AnnsRoutes, NEW n \in BOOLEAN, NEW c \in BOOLEAN, NEW g \in FoundAliases,
                 NEW u \in AnnsOr,
           NEW p \in AnnsRoutes, NEW w \in SUBSET UserWrites, NEW a \in BOOLEAN
    PROVE  [pc |-> stage, who |-> "ann", era |-> e, ids |-> l, fallback |-> back, fields |-> f,
              notice |-> n, clears |-> c,
            got |-> g, user |-> u, path |-> p, writes |-> w, alone |-> a] \in UserTasks
BY DEF UserTasks

LEMMA LinksAre ==
    ASSUME NEW e \in 0 .. wa_era, wa_era \in 0 .. 1, NEW l \in NamedLists,
          NEW f \in AnnsRoutes, NEW back \in Anns,
           NEW notice \in BOOLEAN, f.phone \in {Users!None, Users!Phone("ann", e)},
           notice => f.bsuid # Users!None \/ f.parent # Users!None \/ f.phone # Users!None,
           NEW t, t = Users!Link("ann", e, l, back, f, notice, notice)
    PROVE  FreshWebhook(t)
<1>1. t = [pc |-> "aliases", who |-> "ann", era |-> e, ids |-> l, fallback |-> back,
           fields |-> f, notice |-> notice, clears |-> notice, got |-> <<>>,
                 user |-> Users!None, path |-> Users!EmptyRoute,
           writes |-> {}, alone |-> TRUE]
  BY DEF Users!Link
<1>2. t \in UserTasks
  <2>1. e \in 0 .. 1 /\ <<>> \in FoundAliases /\ Users!EmptyRoute \in AnnsRoutes
            /\ Users!None \in AnnsOr /\ {} \in SUBSET UserWrites
    BY EmptyIs DEF AnnsOr, FoundAliases
  <2>2. PICK g, r : g = <<>> /\ r = Users!EmptyRoute
    OBVIOUS
  <2>3. t = [pc |-> "aliases", who |-> "ann", era |-> e, ids |-> l, fallback |-> back,
             fields |-> f, notice |-> notice, clears |-> notice, got |-> g,
                   user |-> Users!None, path |-> r,
             writes |-> {}, alone |-> TRUE]
    BY <1>1, <2>2
  <2>4. e \in 0 .. 1 /\ FALSE \in BOOLEAN /\ TRUE \in BOOLEAN
            /\ "aliases" \in {"aliases", "route", "writing"}
    BY <2>1
  <2>5. g \in FoundAliases /\ r \in AnnsRoutes /\ Users!None \in AnnsOr /\ {} \in SUBSET UserWrites
    BY <2>1, <2>2
  <2>6. [pc |-> "aliases", who |-> "ann", era |-> e, ids |-> l, fallback |-> back,
         fields |-> f, notice |-> notice, clears |-> notice, got |-> g, user |-> Users!None,
               path |-> r,
         writes |-> {}, alone |-> TRUE] \in UserTasks
    BY <2>4, <2>5, l \in NamedLists, f \in AnnsRoutes, back \in Anns, notice \in BOOLEAN,
    TasksAre
  <2>7. QED
    BY <2>3, <2>6
<1>3. QED
  BY <1>1, <1>2 DEF FreshWebhook, WebhookAsGiven

\* A contact that is matched is the sender's own.
LEMMA ContactsAre ==
    ASSUME NEW e \in 0 .. 1, NEW own \in Users!Shown("ann", e), NEW ann, NEW bob, NEW contacts,
           ann = [phone |-> Users!Phone("ann", e), bsuid |-> Users!Bsuid("ann", e),
                    parent |-> Users!Parent("ann", e)],
           bob = [phone |-> Users!Phone("bob", 0), bsuid |-> Users!Bsuid("bob", 0),
                    parent |-> Users!Parent("bob", 0)],
           contacts \in {<<>>, <<ann>>, <<bob, ann>>}
    PROVE  Users!MatchContact(own, contacts) \in {Users!EmptyRoute, ann}
<1> DEFINE matches(c) == \/ own.bsuid # Users!None /\ c.bsuid = own.bsuid
                         \/ own.parent # Users!None /\ c.parent = own.parent
                         \/ own.phone # Users!None /\ c.phone = own.phone
<1>1. ~matches(bob)
  <2>1. bob.phone = "pb" /\ bob.bsuid = "bb" /\ bob.parent = Users!None
    BY AnnsIdentifiers
  <2>2. own.phone \in {Users!None, "pa0", "pa1"} /\ own.bsuid \in {Users!None, "ba0", "ba1"}
            /\ own.parent \in {Users!None, "ea0", "ea1"}
    BY ShownAre, AnnsIdentifiers
  <2>3. QED
    BY <2>1, <2>2
<1>2. CASE contacts = <<>>
  BY <1>2 DEF Users!MatchContact
<1>3. CASE contacts = <<ann>>
  <2>1. \A i \in DOMAIN contacts : contacts[i] = ann
    BY <1>3
  <2>2. QED
    BY <1>3, <2>1 DEF Users!MatchContact
<1>4. CASE contacts = <<bob, ann>>
  <2>1. DOMAIN contacts = {1, 2} /\ contacts[1] = bob /\ contacts[2] = ann /\ Len(contacts) = 2
    BY <1>4
  <2>2. \A i \in DOMAIN contacts : matches(contacts[i]) => contacts[i] = ann
    BY <1>1, <2>1
  <2>3. (\E i \in DOMAIN contacts : matches(contacts[i])) =>
            \E i : matches(contacts[i]) /\ \A j \in 1 .. i - 1 : ~matches(contacts[j])
    BY <1>1, <2>1
  <2>4. QED
    BY <2>1, <2>2, <2>3 DEF Users!MatchContact
<1>5. QED
  BY <1>2, <1>3, <1>4

LEMMA FirstOfUsers == \A a, b : Users!First(a, b) = (IF a # Users!None THEN a ELSE b)
BY DEF Users!First

\* Every webhook names none but the first user.
LEMMA WebhooksAreFresh ==
    ASSUME wa_era \in 0 .. 1, NEW t, t \in Users!FromMessages \cup Users!FromSystem \cup Users!FromUpdates
    PROVE  FreshWebhook(t)
<1>1. CASE t \in Users!FromMessages
  <2>0. PICK e \in 0 .. wa_era : t \in Users!MessagesOf(e) /\ t.fallback # Users!None
    BY <1>1 DEF Users!FromMessages
  <2>1. PICK own \in Users!Shown("ann", e), contacts \in Users!Batches(e) : t = Users!LinkMessage(e, own, contacts) /\ t.fallback # Users!None
    BY <2>0 DEF Users!MessagesOf
  <2>2. e \in 0 .. 1
    OBVIOUS
  <2>3. PICK c : c = Users!MatchContact(own, contacts)
    OBVIOUS
  <2>4. PICK ann : ann = Users!Whole("ann", e)
    OBVIOUS
  <2>5. c \in {Users!EmptyRoute, ann}
    <3>1. PICK bob : bob = Users!Whole("bob", 0)
      OBVIOUS
    <3>2. contacts \in {<<>>, <<ann>>, <<bob, ann>>}
      BY <2>1, <2>4, <3>1 DEF Users!Batches
    <3>3. QED
      BY <2>2, <2>3, <2>4, <3>1, <3>2, ContactsAre DEF Users!Whole
  <2>6. /\ c.phone \in {Users!None, Users!Phone("ann", e)}
        /\ c.bsuid \in {Users!None, Users!Bsuid("ann", e)}
        /\ c.parent \in {Users!None, Users!Parent("ann", e)}
    BY <2>4, <2>5, EmptyIs DEF Users!Whole
  <2>7. PICK f : f = Users!Fields(own, c)
    OBVIOUS
  <2>8. f.phone = Users!First(own.phone, c.phone) /\ f.bsuid = Users!First(own.bsuid, c.bsuid)
        /\ f.parent = Users!First(own.parent, c.parent)
        /\ f = [phone |-> f.phone, bsuid |-> f.bsuid, parent |-> f.parent]
    BY <2>7 DEF Users!Fields
  <2>9. /\ f.phone \in {Users!None, Users!Phone("ann", e)}
        /\ f.bsuid \in {Users!None, Users!Bsuid("ann", e)}
        /\ f.parent \in {Users!None, Users!Parent("ann", e)}
    BY <2>2, <2>6, <2>8, ShownAre, FirstOfUsers
  <2>10. f.phone \in AnnsOr /\ f.bsuid \in AnnsOr /\ f.parent \in AnnsOr
    BY <2>2, <2>9, AnnsIdentifiers DEF AnnsOr, Anns
  <2>11. f \in AnnsRoutes
    BY <2>8, <2>10 DEF AnnsRoutes
  <2>12. \E l, back : l = <<f.bsuid, f.parent, f.phone>> /\ back = Users!UserId(f)
    BY Zenon
  <2>120. PICK l, back : l = <<f.bsuid, f.parent, f.phone>> /\ back = Users!UserId(f)
    BY <2>12, Zenon
  <2>13. t = Users!Link("ann", e, l, back, f, FALSE, FALSE)
    BY <2>1, <2>3, <2>7, <2>120 DEF Users!LinkMessage
  <2>14. back # Users!None
    BY <2>1, <2>13 DEF Users!Link
  <2>15. back \in Anns
    BY <2>10, <2>120, <2>14, FirstOfUsers DEF Users!UserId, AnnsOr
  <2>16. l \in NamedLists
    BY <2>10, <2>120, ListsAre
  <2>17. QED
    BY <2>9, <2>11, <2>13, <2>15, <2>16, LinksAre
<1>2. CASE t \in Users!FromSystem
  <2>0. PICK source \in {Users!None, Users!Phone("ann", 0)},
            f \in Users!News : t = Users!LinkSystem(source, f)
    BY <1>2 DEF Users!FromSystem
  <2>1. f \in Users!Shown("ann", 1) /\ wa_era = 1 /\ f # Users!EmptyRoute
        /\ t = Users!Link("ann", 1, <<source, f.bsuid, f.parent, f.phone>>, Users!First(source, Users!UserId(f)), f, TRUE, TRUE)
    BY <2>0 DEF Users!News, Users!LinkSystem
  <2>2. /\ f \in AnnsRoutes /\ f.phone \in {Users!None, Users!Phone("ann", 1)} /\ wa_era = 1
        /\ source \in AnnsOr
        /\ f.bsuid \in AnnsOr /\ f.parent \in AnnsOr /\ f.phone \in AnnsOr
    BY <2>1, ShownAre, AnnsIdentifiers DEF AnnsOr, Anns, AnnsRoutes
  <2>3. f.bsuid # Users!None \/ f.parent # Users!None \/ f.phone # Users!None
    BY <2>1, <2>2 DEF Users!EmptyRoute, AnnsRoutes
  <2>4. PICK l, back : l = <<source, f.bsuid, f.parent, f.phone>>
            /\ back = Users!First(source, Users!UserId(f))
    OBVIOUS
  <2>5. back \in Anns /\ l \in NamedLists
    BY <2>2, <2>3, <2>4, FirstOfUsers, ListsAre DEF Users!UserId, AnnsOr
  <2>6. QED
    BY <2>1, <2>2, <2>3, <2>4, <2>5, LinksAre
<1>3. CASE t \in Users!FromUpdates
  <2>0. PICK old \in {Users!None, Users!Parent("ann", 0)},
            f \in {f \in Users!News : wa_rotated
                     /\ f.bsuid # Users!None} : t = Users!LinkUpdate(old, f)
    BY <1>3 DEF Users!FromUpdates
  <2>1. f \in Users!Shown("ann", 1) /\ wa_era = 1 /\ wa_rotated /\ f.bsuid # Users!None
        /\ t = Users!Link("ann", 1, <<Users!Bsuid("ann", 0), old, f.bsuid, f.parent, f.phone>>,
                            Users!Bsuid("ann", 0), f, TRUE, TRUE)
    BY <2>0 DEF Users!News, Users!LinkUpdate
  <2>2. /\ f \in AnnsRoutes /\ f.phone \in {Users!None, Users!Phone("ann", 1)} /\ wa_era = 1
        /\ old \in AnnsOr /\ f.bsuid # Users!None
        /\ f.bsuid \in AnnsOr /\ f.parent \in AnnsOr /\ f.phone \in AnnsOr
        /\ Users!Bsuid("ann", 0) \in Anns
    BY <2>1, ShownAre, AnnsIdentifiers DEF AnnsOr, Anns, AnnsRoutes
  <2>3. PICK l, back : l = <<Users!Bsuid("ann", 0), old, f.bsuid, f.parent, f.phone>>
            /\ back = Users!Bsuid("ann", 0)
    OBVIOUS
  <2>4. back \in Anns /\ l \in NamedLists
    BY <2>2, <2>3, ListsAre DEF AnnsOr
  <2>5. QED
    BY <2>1, <2>2, <2>3, <2>4, LinksAre
<1>4. QED
  BY <1>1, <1>2, <1>3

LEMMA UserTaskFields ==
    ASSUME NEW t \in UserTasks
    PROVE  /\ t.pc \in {"aliases", "route", "writing"} /\ t.who = "ann" /\ t.era \in 0 .. 1
           /\ t.ids \in NamedLists
           /\ t.fallback \in Anns /\ t.fields \in AnnsRoutes /\ t.notice \in BOOLEAN
           /\ t.clears \in BOOLEAN
           /\ t.got \in FoundAliases /\ t.user \in AnnsOr /\ t.path \in AnnsRoutes
           /\ t.writes \in SUBSET UserWrites
           /\ t.alone \in BOOLEAN
BY DEF UserTasks

LEMMA NoTaskIsNone == Users!NoTask \notin UserTasks /\ Users!NoTask.pc = "idle"
<1>1. Users!NoTask.pc = "idle"
  BY DEF Users!NoTask
<1>2. QED
  BY <1>1, UserTaskFields

LEMMA PlacesAre ==
    ASSUME NEW t \in UserTasks
    PROVE  /\ Users!Places(t) \subseteq 1 .. 5 /\ (\A i \in Users!Places(t) : t.ids[i] \in Anns)
           /\ Users!Named(t) \subseteq Anns /\ (\A i \in Users!Places(t) : t.ids[i] \in Users!Named(t))
           /\ \A id \in Users!Named(t) : \E i \in Users!Places(t) : id = t.ids[i]
<1>1. t.ids \in NamedLists
  BY UserTaskFields
<1>2. /\ DOMAIN t.ids \subseteq 1 .. 5
      /\ \A i \in DOMAIN t.ids : t.ids[i] \in AnnsOr
  BY <1>1 DEF NamedLists
<1>3. QED
  BY <1>2 DEF Users!Places, Users!Named, AnnsOr

\* The surest identifier comes first.
SurestFirst(t) ==
    Users!Surest(t) # Users!None => \E i \in Users!Places(t) : t.ids[i] = Users!Surest(t)
          /\ \A j \in Users!Places(t) : i <= j

\* Where the first identifiers of a list are.
LEMMA FirstPlaces ==
    ASSUME NEW a \in AnnsOr, NEW b \in AnnsOr, NEW c \in AnnsOr, NEW d \in AnnsOr, NEW e \in AnnsOr,
           NEW l \in {<<a, b, c>>, <<a, b, c, d>>, <<a, b, c, d, e>>}
    PROVE  /\ DOMAIN l \subseteq 1 .. 5
           /\ a # Users!None => 1 \in DOMAIN l /\ l[1] = a
           /\ a = Users!None /\ b # Users!None => 2 \in DOMAIN l /\ l[2] = b /\ l[1] = Users!None
           /\ a = Users!None /\ b = Users!None /\ c # Users!None =>
                 3 \in DOMAIN l /\ l[3] = c /\ l[1] = Users!None /\ l[2] = Users!None
OBVIOUS

\* The surest is whichever of the first three there is.
LEMMA FirstOfThree ==
    ASSUME NEW t, NEW a \in AnnsOr, NEW b \in AnnsOr, NEW c \in AnnsOr, NEW d \in AnnsOr,
          NEW e \in AnnsOr,
           t.ids \in {<<a, b, c>>, <<a, b, c, d>>, <<a, b, c, d, e>>},
           Users!Surest(t) # Users!None => Users!Surest(t) = Users!First(a, Users!First(b, c))
    PROVE  SurestFirst(t)
<1>1. PICK l : l = t.ids
  OBVIOUS
<1>2. Users!Places(t) = {i \in DOMAIN l : l[i] # Users!None}
          /\ l \in {<<a, b, c>>, <<a, b, c, d>>, <<a, b, c, d, e>>}
  BY <1>1 DEF Users!Places
<1>3. \A i \in Users!Places(t) : i \in 1 .. 5
  BY <1>2, FirstPlaces
<1>4. CASE Users!Surest(t) = Users!None
  BY <1>4 DEF SurestFirst
<1>5. CASE Users!Surest(t) # Users!None /\ a # Users!None
  <2>1. 1 \in Users!Places(t) /\ l[1] = Users!Surest(t)
    BY <1>2, <1>5, FirstPlaces, FirstOfUsers
  <2>2. QED
    BY <1>1, <1>3, <2>1 DEF SurestFirst
<1>6. CASE Users!Surest(t) # Users!None /\ a = Users!None /\ b # Users!None
  <2>1. 2 \in Users!Places(t) /\ l[2] = Users!Surest(t) /\ 1 \notin Users!Places(t)
    BY <1>2, <1>6, FirstPlaces, FirstOfUsers
  <2>2. QED
    BY <1>1, <1>3, <2>1 DEF SurestFirst
<1>7. CASE Users!Surest(t) # Users!None /\ a = Users!None /\ b = Users!None
  <2>1. 3 \in Users!Places(t) /\ l[3] = Users!Surest(t) /\ 1 \notin Users!Places(t)
            /\ 2 \notin Users!Places(t)
    BY <1>2, <1>7, FirstPlaces, FirstOfUsers
  <2>2. QED
    BY <1>1, <1>3, <2>1 DEF SurestFirst
<1>8. QED
  BY <1>4, <1>5, <1>6, <1>7

\* In every webhook the surest identifier comes first.
LEMMA WebhooksAreOrdered ==
    ASSUME wa_era \in 0 .. 1, NEW t, t \in Users!FromMessages \cup Users!FromSystem \cup Users!FromUpdates
    PROVE  SurestFirst(t)
<1>0. Users!None \in AnnsOr
  BY DEF AnnsOr
<1>1. CASE t \in Users!FromMessages
  <2>1. PICK e \in 0 .. wa_era : t \in Users!MessagesOf(e) /\ t.fallback # Users!None
    BY <1>1 DEF Users!FromMessages
  <2>2. PICK own \in Users!Shown("ann", e), contacts \in Users!Batches(e) : t = Users!LinkMessage(e, own, contacts)
    BY <2>1 DEF Users!MessagesOf
  <2>3. PICK f, back : f = Users!Fields(own, Users!MatchContact(own, contacts))
            /\ back = Users!UserId(f)
    OBVIOUS
  <2>4. t = Users!Link("ann", e, <<f.bsuid, f.parent, f.phone>>, back, f, FALSE, FALSE)
    BY <2>2, <2>3 DEF Users!LinkMessage
  <2>5. f \in AnnsRoutes
    <3>1. t \in UserTasks
      BY <1>1, WebhooksAreFresh DEF FreshWebhook
    <3>2. t.fields = f
      BY <2>4 DEF Users!Link
    <3>3. QED
      BY <3>1, <3>2, UserTaskFields
  <2>6. f.bsuid \in AnnsOr /\ f.parent \in AnnsOr /\ f.phone \in AnnsOr
    BY <2>5 DEF AnnsRoutes
  <2>7. PICK l : l = <<f.bsuid, f.parent, f.phone>>
    OBVIOUS
  <2>8. t = Users!Link("ann", e, l, back, f, FALSE, FALSE)
    BY <2>4, <2>7
  <2>9. /\ t.ids = l /\ t.fields = f /\ t.notice = FALSE
        /\ Users!Places(t) = {i \in DOMAIN l : l[i] # Users!None}
    BY <2>8 DEF Users!Link, Users!Places
  <2>10. Users!Surest(t) = Users!First(f.bsuid, f.parent)
    BY <2>9 DEF Users!Surest
  <2>11. Users!Surest(t) # Users!None => Users!Surest(t) = Users!First(f.bsuid, Users!First(f.parent, f.phone))
    BY <2>10, FirstOfUsers
  <2>12. l \in {<<f.bsuid, f.parent, f.phone>>, <<f.bsuid, f.parent, f.phone, Users!None>>,
                  <<f.bsuid, f.parent, f.phone, Users!None, Users!None>>}
    BY <2>7
  <2>13. QED
    BY <1>0, <2>6, <2>9, <2>11, <2>12, FirstOfThree
<1>2. CASE t \in Users!FromSystem
  <2>1. PICK source \in {Users!None, Users!Phone("ann", 0)},
            f \in Users!News : t = Users!LinkSystem(source, f)
    BY <1>2 DEF Users!FromSystem
  <2>2. f \in Users!Shown("ann", 1)
    BY <2>1 DEF Users!News
  <2>3. PICK l, back : l = <<source, f.bsuid, f.parent, f.phone>>
            /\ back = Users!First(source, Users!UserId(f))
    OBVIOUS
  <2>4. t = Users!Link("ann", 1, l, back, f, TRUE, TRUE)
    BY <2>1, <2>3 DEF Users!LinkSystem
  <2>5. /\ t.who = "ann" /\ t.ids = l /\ t.fallback = back /\ t.fields = f /\ t.notice = TRUE
        /\ Users!Places(t) = {i \in DOMAIN l : l[i] # Users!None}
    BY <2>4 DEF Users!Link, Users!Places
  <2>6. /\ f.bsuid \in AnnsOr /\ f.parent \in AnnsOr /\ f.phone \in {Users!None, "pa1"}
        /\ f.phone \in AnnsOr
        /\ source \in AnnsOr
    BY <2>1, <2>2, ShownAre, AnnsIdentifiers DEF AnnsOr, Anns, AnnsRoutes, Users!Phone
  <2>7. back = Users!First(source, Users!First(f.phone, Users!First(f.bsuid, f.parent)))
    BY <2>3 DEF Users!UserId
  <2>8. "pa1" \notin {Users!Phone("ann", 0), Users!Bsuid("ann", 0), Users!Parent("ann", 0)}
    BY DEF Users!Phone, Users!Bsuid, Users!Parent, Users!None
  <2>9. Users!Surest(t) = IF back \in {Users!Phone("ann", 0), Users!Bsuid("ann", 0),
                                         Users!Parent("ann", 0)} THEN back
                    ELSE Users!First(f.bsuid, f.parent)
    BY <2>5 DEF Users!Surest
  <2>10. source # Users!None => back = source /\ source = Users!Phone("ann", 0)
    BY <2>1, <2>7, FirstOfUsers
  <2>11. Users!Surest(t) = Users!First(source, Users!First(f.bsuid, f.parent))
    <3>1. CASE source # Users!None
      BY <2>9, <2>10, <3>1, FirstOfUsers
    <3>2. CASE source = Users!None
      <4>1. back = IF f.phone # Users!None THEN f.phone ELSE Users!First(f.bsuid, f.parent)
        BY <2>7, <3>2, FirstOfUsers
      <4>2. f.phone # Users!None => f.phone = "pa1"
        BY <2>6
      <4>3. Users!Surest(t) = Users!First(f.bsuid, f.parent)
        BY <2>8, <2>9, <4>1, <4>2
      <4>4. QED
        BY <3>2, <4>3, FirstOfUsers
    <3>3. QED
      BY <3>1, <3>2
  <2>12. l \in {<<source, f.bsuid, f.parent>>, <<source, f.bsuid, f.parent, f.phone>>,
                  <<source, f.bsuid, f.parent, f.phone, Users!None>>}
    BY <2>3
  <2>13. QED
    BY <1>0, <2>5, <2>6, <2>11, <2>12, FirstOfThree
<1>3. CASE t \in Users!FromUpdates
  <2>1. PICK old \in {Users!None, Users!Parent("ann", 0)},
            f \in {f \in Users!News : wa_rotated
                     /\ f.bsuid # Users!None} : t = Users!LinkUpdate(old, f)
    BY <1>3 DEF Users!FromUpdates
  <2>2. f \in Users!Shown("ann", 1)
    BY <2>1 DEF Users!News
  <2>3. PICK l, back : l = <<Users!Bsuid("ann", 0), old, f.bsuid, f.parent, f.phone>>
            /\ back = Users!Bsuid("ann", 0)
    OBVIOUS
  <2>4. t = Users!Link("ann", 1, l, back, f, TRUE, TRUE)
    BY <2>1, <2>3 DEF Users!LinkUpdate
  <2>5. /\ t.who = "ann" /\ t.ids = l /\ t.fallback = back /\ t.fields = f /\ t.notice = TRUE
        /\ Users!Places(t) = {i \in DOMAIN l : l[i] # Users!None}
    BY <2>4 DEF Users!Link, Users!Places
  <2>6. /\ f.bsuid \in AnnsOr /\ f.parent \in AnnsOr /\ f.phone \in AnnsOr /\ old \in AnnsOr
        /\ Users!Bsuid("ann", 0) \in Anns /\ Users!Bsuid("ann", 0) \in AnnsOr
        /\ Users!Bsuid("ann", 0) # Users!None
    BY <2>1, <2>2, ShownAre, AnnsIdentifiers, NoUserIs DEF AnnsOr, Anns, AnnsRoutes
  <2>7. Users!Surest(t) = Users!Bsuid("ann", 0)
    BY <2>3, <2>5 DEF Users!Surest
  <2>8. Users!Surest(t) = Users!First(Users!Bsuid("ann", 0), Users!First(old, f.bsuid))
    BY <2>6, <2>7, FirstOfUsers
  <2>9. PICK b : b = Users!Bsuid("ann", 0)
    OBVIOUS
  <2>10. l \in {<<b, old, f.bsuid>>, <<b, old, f.bsuid, f.parent>>, <<b, old, f.bsuid, f.parent, f.phone>>}
    BY <2>3, <2>9
  <2>11. b \in AnnsOr /\ Users!Surest(t) = Users!First(b, Users!First(old, f.bsuid))
    BY <2>6, <2>8, <2>9
  <2>12. QED
    BY <2>5, <2>6, <2>10, <2>11, FirstOfThree
<1>4. QED
  BY <1>1, <1>2, <1>3

\* Who is led astray is known to be.
LEMMA MisledAreStrays ==
    ASSUME NEW t \in UserTasks, SurestFirst(t), Misled(t)
    PROVE  Users!Strays(t)
<1>1. t.who = "ann" /\ Users!Places(t) \subseteq 1 .. 5
          /\ \A i \in Users!Places(t) : t.ids[i] \in Users!Named(t)
  BY UserTaskFields, PlacesAre
<1>2. PICK i \in Users!Places(t) : /\ wa_alias[t.ids[i]] \notin {Users!None, wa_home["ann"]}
                                   /\ \A j \in Users!Places(t) : j < i =>
                                         wa_alias[t.ids[j]] # wa_home["ann"]
  BY DEF Misled
<1>3. Users!Surest(t) # Users!None => wa_alias[Users!Surest(t)] # wa_home["ann"]
  <2>1. SUFFICES ASSUME Users!Surest(t) # Users!None PROVE wa_alias[Users!Surest(t)] # wa_home["ann"]
    OBVIOUS
  <2>2. PICK k \in Users!Places(t) : t.ids[k] = Users!Surest(t) /\ k <= i
    BY <1>2, <2>1 DEF SurestFirst
  <2>3. k = i \/ k < i
    BY <1>1, <2>2
  <2>4. QED
    BY <1>2, <2>2, <2>3
<1>4. QED
  BY <1>1, <1>2, <1>3 DEF Users!Strays, Misled

\* Tasks that differ in none of what they were given.
LEMMA SamePlaces ==
    ASSUME NEW t, NEW n, n.ids = t.ids
    PROVE  Users!Places(n) = Users!Places(t) /\ Users!Named(n) = Users!Named(t)
<1>1. Users!Places(n) = Users!Places(t)
  BY DEF Users!Places
<1>2. QED
  BY <1>1 DEF Users!Named

LEMMA AloneIs ==
    ASSUME NEW t \in UserTasks, NEW b \in BOOLEAN, NEW n, n = [t EXCEPT !.alone = b]
    PROVE  /\ n \in UserTasks /\ n.alone = b /\ n.pc = t.pc /\ n.who = t.who
           /\ n.era = t.era /\ n.ids = t.ids
           /\ n.fields = t.fields /\ n.notice = t.notice /\ n.clears = t.clears
           /\ n.got = t.got /\ n.user = t.user
           /\ n.writes = t.writes
BY DEF UserTasks

LEMMA ReadingIs ==
    ASSUME NEW t \in UserTasks, NEW g \in FoundAliases, NEW n,
          n = [[t EXCEPT !.pc = "route"] EXCEPT !.got = g]
    PROVE  /\ n \in UserTasks /\ n.pc = "route" /\ n.got = g /\ n.alone = t.alone
           /\ n.who = t.who /\ n.era = t.era
           /\ n.ids = t.ids /\ n.fields = t.fields /\ n.notice = t.notice /\ n.clears = t.clears
BY DEF UserTasks

LEMMA FoundIs ==
    ASSUME NEW t \in UserTasks, NEW u \in Anns, NEW r \in AnnsRoutes, NEW f,
          f = [t EXCEPT !.user = u, !.path = r]
    PROVE  /\ f \in UserTasks /\ f.user = u /\ f.path = r /\ f.alone = t.alone
           /\ f.who = t.who /\ f.era = t.era
           /\ f.ids = t.ids /\ f.fields = t.fields /\ f.notice = t.notice
           /\ f.clears = t.clears /\ f.got = t.got
<1>1. u \in AnnsOr
  BY DEF AnnsOr
<1>2. QED
  BY <1>1 DEF UserTasks

LEMMA WritingIs ==
    ASSUME NEW f \in UserTasks, NEW w \in SUBSET UserWrites, NEW g \in FoundAliases,
          NEW r \in AnnsRoutes,
           NEW n, n = [f EXCEPT !.pc = "writing", !.writes = w, !.got = g, !.path = r]
    PROVE  /\ n \in UserTasks /\ n.pc = "writing" /\ n.writes = w /\ n.user = f.user
           /\ n.alone = f.alone /\ n.who = f.who
           /\ n.era = f.era /\ n.ids = f.ids /\ n.fields = f.fields /\ n.notice = f.notice
           /\ n.clears = f.clears
BY DEF UserTasks

LEMMA WrittenIs ==
    ASSUME NEW t \in UserTasks, NEW w \in SUBSET UserWrites, NEW n, n = [t EXCEPT !.writes = w]
    PROVE  /\ n \in UserTasks /\ n.pc = t.pc /\ n.writes = w /\ n.user = t.user
           /\ n.alone = t.alone /\ n.who = t.who
           /\ n.era = t.era /\ n.ids = t.ids /\ n.fields = t.fields /\ n.notice = t.notice
           /\ n.clears = t.clears
           /\ n.got = t.got
BY DEF UserTasks

\* The thread is that of the first alias found, or the fallback.
LEMMA CanonicalIs ==
    ASSUME NEW t \in UserTasks, DOMAIN t.got = Users!Places(t)
    PROVE  /\ Users!Canonical(t) \in Anns
           /\ \/ \A i \in Users!Places(t) : t.got[i] = Users!None
              \/ \E i \in Users!Places(t) : /\ t.got[i] = Users!Canonical(t)
                                            /\ t.got[i] # Users!None
                                            /\ \A j \in Users!Places(t) : j < i =>
                                                  t.got[j] = Users!None
<1>1. PICK found : found = {i \in Users!Places(t) : t.got[i] # Users!None}
  OBVIOUS
<1>2. Users!Canonical(t) = IF found = {} THEN t.fallback ELSE t.got[CHOOSE i \in found : \A j \in found : i <= j]
  BY <1>1 DEF Users!Canonical
<1>3. found \subseteq 1 .. 5 /\ found \subseteq Users!Places(t)
  BY <1>1, PlacesAre
<1>4. \A i \in Users!Places(t) : t.got[i] \in AnnsOr
  BY PlacesAre, UserTaskFields DEF FoundAliases
<1>5. CASE found = {}
  BY <1>1, <1>2, <1>5, UserTaskFields
<1>6. CASE found # {}
  <2>1. \E i \in found : \A j \in found : i <= j
    <3>1. \A j \in found : j = 1 \/ j = 2 \/ j = 3 \/ j = 4 \/ j = 5
      BY <1>3
    <3>2. CASE 1 \in found
      BY <3>1, <3>2
    <3>3. CASE 1 \notin found /\ 2 \in found
      BY <3>1, <3>3
    <3>4. CASE 1 \notin found /\ 2 \notin found /\ 3 \in found
      BY <3>1, <3>4
    <3>5. CASE 1 \notin found /\ 2 \notin found /\ 3 \notin found
      BY <1>6, <3>1, <3>5
    <3>6. QED
      BY <3>2, <3>3, <3>4, <3>5
  <2>2. PICK i : i = CHOOSE m \in found : \A j \in found : m <= j
    OBVIOUS
  <2>3. i \in found /\ \A j \in found : i <= j
    BY <2>1, <2>2
  <2>4. Users!Canonical(t) = t.got[i] /\ t.got[i] # Users!None /\ i \in Users!Places(t)
    BY <1>1, <1>2, <1>6, <2>2, <2>3
  <2>5. \A j \in Users!Places(t) : j < i => t.got[j] = Users!None
    BY <1>1, <1>3, <2>3, PlacesAre
  <2>6. QED
    BY <1>4, <2>4, <2>5 DEF AnnsOr
<1>7. QED
  BY <1>5, <1>6

LEMMA MergedIs ==
    ASSUME NEW f \in UserTasks
    PROVE  /\ Users!Merged(f) \in AnnsRoutes
           /\ Users!Merged(f).bsuid = (IF f.fields.bsuid # Users!None THEN f.fields.bsuid ELSE f.path.bsuid)
           /\ Users!Merged(f).parent = (IF f.fields.parent # Users!None THEN f.fields.parent ELSE f.path.parent)
           /\ Users!Merged(f).phone = (IF f.clears
                                          \/ f.fields.phone # Users!None THEN f.fields.phone ELSE f.path.phone)
<1>1. PICK a, b, m : a = f.fields /\ b = f.path /\ m = Users!Merged(f)
  OBVIOUS
<1>2. a \in AnnsRoutes /\ b \in AnnsRoutes
  BY <1>1, UserTaskFields
<1>3. /\ a.phone \in AnnsOr /\ a.bsuid \in AnnsOr /\ a.parent \in AnnsOr
      /\ b.phone \in AnnsOr /\ b.bsuid \in AnnsOr /\ b.parent \in AnnsOr
  BY <1>2 DEF AnnsRoutes
<1>4. m = [bsuid |-> Users!First(a.bsuid, b.bsuid), parent |-> Users!First(a.parent, b.parent),
           phone |-> IF f.clears THEN a.phone ELSE Users!First(a.phone, b.phone)]
  BY <1>1 DEF Users!Merged
<1>5. /\ m.bsuid = (IF a.bsuid # Users!None THEN a.bsuid ELSE b.bsuid)
      /\ m.parent = (IF a.parent # Users!None THEN a.parent ELSE b.parent)
      /\ m.phone = (IF f.clears \/ a.phone # Users!None THEN a.phone ELSE b.phone)
  BY <1>4, FirstOfUsers
<1>6. /\ Users!First(a.bsuid, b.bsuid) \in AnnsOr /\ Users!First(a.parent, b.parent) \in AnnsOr
      /\ (IF f.clears THEN a.phone ELSE Users!First(a.phone, b.phone)) \in AnnsOr
  BY <1>3, FirstOfUsers
<1>7. m \in AnnsRoutes
  BY <1>4, <1>6 DEF AnnsRoutes
<1>8. QED
  BY <1>1, <1>5, <1>7

\* Merging keeps a good route good, and a notice or a message with a number makes one.
LEMMA MergedIsGood ==
    ASSUME NEW f \in UserTasks, f.fields.phone \in {Users!None, Users!Phone("ann", f.era)},
          f.notice <=> f.clears,
           f.notice => f.fields.bsuid # Users!None \/ f.fields.parent # Users!None
                 \/ f.fields.phone # Users!None
    PROVE  /\ f.notice \/ f.fields.phone # Users!None => GoodRoute(Users!Merged(f), f.era)
           /\ GoodRoute(f.path, f.era) => GoodRoute(Users!Merged(f), f.era)
<1>1. PICK a, b, m : a = f.fields /\ b = f.path /\ m = Users!Merged(f)
  OBVIOUS
<1>2. /\ m.bsuid = (IF a.bsuid # Users!None THEN a.bsuid ELSE b.bsuid)
      /\ m.parent = (IF a.parent # Users!None THEN a.parent ELSE b.parent)
      /\ m.phone = (IF f.clears \/ a.phone # Users!None THEN a.phone ELSE b.phone)
  BY <1>1, MergedIs
<1>3. f.notice \/ a.phone # Users!None => GoodRoute(m, f.era)
  BY <1>1, <1>2 DEF GoodRoute
<1>4. GoodRoute(b, f.era) => GoodRoute(m, f.era)
  BY <1>1, <1>2 DEF GoodRoute
<1>5. QED
  BY <1>1, <1>3, <1>4

LEMMA WritesAre ==
    ASSUME NEW f \in UserTasks, f.user \in Anns, DOMAIN f.got = Users!Places(f)
    PROVE  /\ Users!Writes(f) \in SUBSET UserWrites
           /\ \A w \in Users!Writes(f) : \/ w.is = "alias" /\ w.to = f.user
                                               /\ w.at \in Users!Named(f)
                                         \/ w.is = "route" /\ w.at = f.user
                                               /\ w.route = Users!Merged(f)
           /\ \A i \in Users!Places(f) : f.got[i] = f.user
                 \/ \E w \in Users!Writes(f) : w.is = "alias" /\ w.at = f.ids[i]
           /\ (\E w \in Users!Writes(f) : w.is = "route") \/ Users!Merged(f) = f.path
<1> DEFINE A == {[at |-> f.ids[i], is |-> "alias", to |-> f.user,
                    route |-> Users!EmptyRoute] : i \in {i \in Users!Places(f) : f.got[i] # f.user}}
           R == IF Users!Merged(f) = f.path THEN {} ELSE {[at |-> f.user, is |-> "route",
                                                             to |-> Users!None,
                                                                   route |-> Users!Merged(f)]}
<1>1. Users!Writes(f) = A \cup R
  BY DEF Users!Writes
<1>2. \A w \in A : w \in UserWrites /\ w.is = "alias" /\ w.to = f.user /\ w.at \in Users!Named(f)
  <2>1. PICK e : e = Users!EmptyRoute
    OBVIOUS
  <2>2. e \in AnnsRoutes
    BY <2>1, EmptyIs
  <2>3. \A i \in Users!Places(f) : f.ids[i] \in Anns /\ f.ids[i] \in Users!Named(f)
    BY PlacesAre
  <2>4. TAKE w \in A
  <2>5. PICK i \in Users!Places(f) : w = [at |-> f.ids[i], is |-> "alias", to |-> f.user,
                                            route |-> e]
    BY <2>1
  <2>6. QED
    BY <2>2, <2>3, <2>5 DEF UserWrites, AnnsOr
<1>3. \A w \in R : w \in UserWrites /\ w.is = "route" /\ w.at = f.user /\ w.route = Users!Merged(f)
  <2>1. PICK m : m = Users!Merged(f)
    OBVIOUS
  <2>2. m \in AnnsRoutes
    BY <2>1, MergedIs
  <2>3. TAKE w \in R
  <2>4. w = [at |-> f.user, is |-> "route", to |-> Users!None, route |-> m]
    BY <2>1
  <2>5. QED
    BY <2>1, <2>2, <2>4 DEF UserWrites, AnnsOr
<1>4. \A i \in Users!Places(f) : f.got[i] = f.user \/ \E w \in A : w.is = "alias" /\ w.at = f.ids[i]
  <2>1. TAKE i \in Users!Places(f)
  <2>2. CASE f.got[i] # f.user
    <3>1. [at |-> f.ids[i], is |-> "alias", to |-> f.user, route |-> Users!EmptyRoute] \in A
      BY <2>2
    <3>2. QED
      BY <3>1
  <2>3. QED
    BY <2>2
<1>5. Users!Merged(f) # f.path => \E w \in R : w.is = "route"
  <2>1. Users!Merged(f) # f.path => [at |-> f.user, is |-> "route", to |-> Users!None,
                                       route |-> Users!Merged(f)] \in R
    OBVIOUS
  <2>2. QED
    BY <2>1
<1> HIDE DEF A, R
<1>6. QED
  BY <1>1, <1>2, <1>3, <1>4, <1>5

LEMMA StoredAre ==
    ASSUME IdentityTypes, NEW W \in SUBSET UserWrites, Users!Stored(W)
    PROVE  /\ wa_alias' \in [Users!Ids -> AnnsOr] /\ wa_alias'["pb"] = Users!None
           /\ wa_alias'["bb"] = Users!None
           /\ wa_route' \in [Users!Ids -> AnnsRoutes] /\ wa_route'["pb"] = Users!EmptyRoute
           /\ wa_route'["bb"] = Users!EmptyRoute
           /\ \A id \in Users!Ids :
                \/ wa_alias'[id] = wa_alias[id] /\ \A w \in W : w.is = "alias" => w.at # id
                \/ \E w \in W : w.is = "alias" /\ w.at = id /\ wa_alias'[id] = w.to
           /\ \A id \in Users!Ids :
                \/ wa_route'[id] = wa_route[id] /\ \A w \in W : w.is = "route" => w.at # id
                \/ \E w \in W : w.is = "route" /\ w.at = id /\ wa_route'[id] = w.route
<1>1. \A w \in W : w.at \in Anns /\ w.to \in AnnsOr /\ w.route \in AnnsRoutes
  BY DEF UserWrites
<1>2. PICK a, r :
        /\ a = [id \in Users!Ids |-> IF \E w \in W : w.is = "alias" /\ w.at = id
                                THEN (CHOOSE w \in W : w.is = "alias"
                                        /\ w.at = id).to ELSE wa_alias[id]]
        /\ r = [id \in Users!Ids |-> IF \E w \in W : w.is = "route" /\ w.at = id
                                THEN (CHOOSE w \in W : w.is = "route"
                                        /\ w.at = id).route ELSE wa_route[id]]
  OBVIOUS
<1>3. wa_alias' = a /\ wa_route' = r
  BY <1>2 DEF Users!Stored
<1>4. \A id \in Users!Ids :
        \/ a[id] = wa_alias[id] /\ \A w \in W : w.is = "alias" => w.at # id
        \/ \E w \in W : w.is = "alias" /\ w.at = id /\ a[id] = w.to
  <2>1. TAKE id \in Users!Ids
  <2>2. a[id] = IF \E w \in W : w.is = "alias" /\ w.at = id
                  THEN (CHOOSE w \in W : w.is = "alias" /\ w.at = id).to ELSE wa_alias[id]
    BY <1>2
  <2>3. PICK c : c = CHOOSE w \in W : w.is = "alias" /\ w.at = id
    OBVIOUS
  <2>4. (\E w \in W : w.is = "alias" /\ w.at = id) => c \in W /\ c.is = "alias" /\ c.at = id
    BY <2>3
  <2>5. QED
    BY <2>2, <2>3, <2>4
<1>5. \A id \in Users!Ids :
        \/ r[id] = wa_route[id] /\ \A w \in W : w.is = "route" => w.at # id
        \/ \E w \in W : w.is = "route" /\ w.at = id /\ r[id] = w.route
  <2>1. TAKE id \in Users!Ids
  <2>2. r[id] = IF \E w \in W : w.is = "route" /\ w.at = id
                  THEN (CHOOSE w \in W : w.is = "route" /\ w.at = id).route ELSE wa_route[id]
    BY <1>2
  <2>3. PICK c : c = CHOOSE w \in W : w.is = "route" /\ w.at = id
    OBVIOUS
  <2>4. (\E w \in W : w.is = "route" /\ w.at = id) => c \in W /\ c.is = "route" /\ c.at = id
    BY <2>3
  <2>5. QED
    BY <2>2, <2>3, <2>4
<1>6. "pb" \in Users!Ids /\ "bb" \in Users!Ids /\ "pb" \notin Anns /\ "bb" \notin Anns
  BY DEF Users!Ids, Anns
<1>7. wa_alias \in [Users!Ids -> AnnsOr] /\ wa_alias["pb"] = Users!None
          /\ wa_alias["bb"] = Users!None
      /\ wa_route \in [Users!Ids -> AnnsRoutes] /\ wa_route["pb"] = Users!EmptyRoute
      /\ wa_route["bb"] = Users!EmptyRoute
  BY DEF IdentityTypes
<1>8. a \in [Users!Ids -> AnnsOr] /\ a["pb"] = Users!None /\ a["bb"] = Users!None
  <2>1. \A id \in Users!Ids : a[id] \in AnnsOr
    BY <1>1, <1>4, <1>7
  <2>2. QED
    BY <1>1, <1>2, <1>4, <1>6, <1>7, <2>1
<1>9. r \in [Users!Ids -> AnnsRoutes] /\ r["pb"] = Users!EmptyRoute /\ r["bb"] = Users!EmptyRoute
  <2>1. \A id \in Users!Ids : r[id] \in AnnsRoutes
    BY <1>1, <1>5, <1>7
  <2>2. QED
    BY <1>1, <1>2, <1>5, <1>6, <1>7, <2>1
<1>10. QED
  BY <1>3, <1>4, <1>5, <1>8, <1>9

LEMMA IdentitiesStutter == ASSUME UsersInv, UNCHANGED Users!vars PROVE UsersInv'
BY DEF UsersInv, IdentityTypes, UserTasksAsGiven, WebhookAsGiven, AloneIsAlone,
       LinksAreHealing, ThreadsAreKnown, Misled, NumbersAreTold,
       Users!vars, Users!store, Users!truth, Users!history

LEMMA ChangeKeeps == ASSUME UsersInv, Users!Change PROVE UsersInv'
<1>1. wa_era = 0 /\ wa_era' = 1 /\ wa_told' = FALSE
      /\ UNCHANGED <<wa_alias, wa_route, wa_pace, wa_rotated, wa_task, wa_loose, wa_quiet,
                      wa_home, wa_known, wa_last>>
  BY DEF Users!Change, Users!store
<1>2. IdentityTypes'
  <2>1. wa_era' \in 0 .. 1
    BY <1>1
  <2>2. wa_told' \in BOOLEAN
    BY <1>1, Zenon
  <2>3. QED
    BY <1>1, <2>1, <2>2, Zenon DEF UsersInv, IdentityTypes
<1>3. UserTasksAsGiven'
  <2>1. \A t \in UserTasks : WebhookAsGiven(t) => WebhookAsGiven(t)'
    BY <1>1, UserTaskFields DEF WebhookAsGiven
  <2>2. QED
    BY <1>1, <2>1 DEF UsersInv, UserTasksAsGiven
<1>4. AloneIsAlone' /\ LinksAreHealing'
  BY <1>1 DEF UsersInv, AloneIsAlone, LinksAreHealing
<1>5. ThreadsAreKnown'
  BY <1>1 DEF UsersInv, ThreadsAreKnown, Misled
<1>6. NumbersAreTold'
  BY <1>1 DEF UsersInv, NumbersAreTold
<1>7. QED
  BY <1>2, <1>3, <1>4, <1>5, <1>6 DEF UsersInv

LEMMA BusyUsers ==
    ASSUME IdentityTypes
    PROVE  Users!Busy("ann") <=> (\E s \in Users!Slots : wa_task[s] # Users!NoTask) \/ wa_loose # {}
<1>1. \A s \in Users!Slots : (wa_task[s].pc # "idle"
                                /\ wa_task[s].who = "ann") <=> wa_task[s] # Users!NoTask
  <2>1. TAKE s \in Users!Slots
  <2>2. wa_task[s] \in UserTasks \cup {Users!NoTask}
    BY DEF IdentityTypes
  <2>3. QED
    BY <2>2, UserTaskFields, NoTaskIsNone
<1>2. \A w \in wa_loose : Users!Owner(w.at) = "ann"
  <2>1. \A w \in wa_loose : w.at \in Anns
    BY DEF IdentityTypes, UserWrites
  <2>2. QED
    BY <2>1, NoUserIs
<1>3. QED
  BY <1>1, <1>2 DEF Users!Busy

LEMMA ReceiveKeeps == ASSUME UsersInv, NEW s \in Users!Slots, Users!Receive(s) PROVE UsersInv'
<1>1. PICK t \in Users!FromMessages \cup Users!FromSystem \cup Users!FromUpdates :
          /\ wa_task' = [r \in Users!Slots |-> IF r = s THEN [t EXCEPT !.alone = ~Users!Busy(t.who)]
                                      ELSE IF wa_task[r].pc # "idle"

                                                                      /\ wa_task[r].who = t.who THEN [wa_task[r] EXCEPT !.alone = FALSE]
                                      ELSE wa_task[r]]
          /\ wa_quiet' = IF Users!Busy(t.who) \/ t.era < wa_era
                            \/ Users!Strays(t) THEN wa_quiet \ {t.who} ELSE wa_quiet
          /\ wa_told' = (wa_told /\ t.era = wa_era)
  BY DEF Users!Receive
<1>2. /\ wa_task[s] = Users!NoTask
      /\ wa_pace = "apart" => wa_loose = {} /\ \A r \in Users!Slots : wa_task[r] = Users!NoTask
      /\ UNCHANGED <<wa_alias, wa_route, wa_pace, wa_era, wa_rotated, wa_loose, wa_home,
                      wa_known, wa_last>>
  <2>1. wa_task[s].pc = "idle" /\ (wa_pace = "apart" =>
                                     wa_loose = {} /\ \A r \in Users!Slots : wa_task[r].pc = "idle")
        /\ UNCHANGED <<wa_alias, wa_route, wa_pace, wa_era, wa_rotated, wa_loose, wa_home,
                        wa_known, wa_last>>
    BY DEF Users!Receive, Users!store, Users!truth
  <2>2. \A r \in Users!Slots : wa_task[r] \in UserTasks \cup {Users!NoTask}
    BY DEF UsersInv, IdentityTypes
  <2>3. QED
    BY <2>1, <2>2, UserTaskFields
<1>3. t \in UserTasks /\ t.pc = "aliases" /\ WebhookAsGiven(t) /\ t.who = "ann"
  <2>1. wa_era \in 0 .. 1
    BY DEF UsersInv, IdentityTypes
  <2>2. QED
    BY <2>1, WebhooksAreFresh, UserTaskFields DEF FreshWebhook
<1>30. Misled(t) => Users!Strays(t)
  BY <1>3, MisledAreStrays, WebhooksAreOrdered DEF UsersInv, IdentityTypes
<1>4. PICK b \in BOOLEAN : b = ~Users!Busy("ann")
  OBVIOUS
<1>5. b <=> wa_loose = {} /\ \A r \in Users!Slots : wa_task[r] = Users!NoTask
  BY <1>4, BusyUsers DEF UsersInv
<1>6. PICK n : n = [t EXCEPT !.alone = b]
  OBVIOUS
<1>7. /\ n \in UserTasks /\ n.alone = b /\ n.pc = t.pc /\ n.who = t.who /\ n.era = t.era
      /\ n.ids = t.ids
      /\ n.fields = t.fields /\ n.notice = t.notice /\ n.clears = t.clears
  BY <1>3, <1>6, AloneIs
<1>8. wa_task'[s] = n /\ wa_task' \in [Users!Slots -> UserTasks \cup {Users!NoTask}]
      /\ \A r \in Users!Slots \ {s} : \/ wa_task[r] = Users!NoTask /\ wa_task'[r] = Users!NoTask
                                      \/ wa_task[r] \in UserTasks
                                            /\ wa_task'[r] \in UserTasks
                                            /\ wa_task'[r] = [wa_task[r] EXCEPT !.alone = FALSE]
  <2>1. wa_task'[s] = n
    BY <1>1, <1>3, <1>4, <1>6
  <2>2. \A r \in Users!Slots \ {s} : \/ wa_task[r] = Users!NoTask /\ wa_task'[r] = Users!NoTask
                                     \/ wa_task[r] \in UserTasks
                                           /\ wa_task'[r] \in UserTasks
                                           /\ wa_task'[r] = [wa_task[r] EXCEPT !.alone = FALSE]
    <3>1. TAKE r \in Users!Slots \ {s}
    <3>2. wa_task'[r] = IF wa_task[r].pc # "idle"
                           /\ wa_task[r].who = t.who THEN [wa_task[r] EXCEPT !.alone = FALSE] ELSE wa_task[r]
      BY <1>1
    <3>3. CASE wa_task[r] = Users!NoTask
      <4>1. PICK o : o = wa_task[r]
        OBVIOUS
      <4>2. ~(o.pc # "idle" /\ o.who = t.who)
        BY <3>3, <4>1, NoTaskIsNone
      <4>3. wa_task'[r] = o
        BY <3>2, <4>1, <4>2
      <4>4. wa_task[r] = Users!NoTask /\ wa_task'[r] = Users!NoTask
        BY <3>3, <4>1, <4>3
      <4>5. QED
        BY <4>4
    <3>4. CASE wa_task[r] \in UserTasks
      <4>1. PICK o : o = wa_task[r]
        OBVIOUS
      <4>2. o.pc # "idle" /\ o.who = t.who
        BY <1>3, <3>4, <4>1, UserTaskFields
      <4>3. wa_task'[r] = [o EXCEPT !.alone = FALSE]
        BY <3>2, <4>1, <4>2
      <4>4. FALSE \in BOOLEAN
        OBVIOUS
      <4>5. QED
        BY <3>4, <4>1, <4>3, <4>4, AloneIs
    <3>5. QED
      BY <3>3, <3>4 DEF UsersInv, IdentityTypes
  <2>3. DOMAIN wa_task' = Users!Slots /\ \A r \in Users!Slots : wa_task'[r] \in UserTasks \cup {Users!NoTask}
    BY <1>1, <1>7, <2>1, <2>2
  <2>4. PICK k : k = wa_task'
    OBVIOUS
  <2>5. k = [r \in Users!Slots |-> k[r]]
    BY <1>1, <2>4
  <2>6. k \in [Users!Slots -> UserTasks \cup {Users!NoTask}]
    BY <2>3, <2>4, <2>5
  <2>7. QED
    BY <2>1, <2>2, <2>4, <2>6
\* Another at work is not alone any more, and otherwise as it was.
<1>9. \A r \in Users!Slots \ {s}, u \in UserTasks : wa_task'[r] = u =>
          \E o \in UserTasks :
             /\ wa_task[r] = o /\ ~u.alone /\ u.pc = o.pc /\ u.who = o.who
             /\ u.era = o.era /\ u.ids = o.ids
             /\ u.fields = o.fields /\ u.notice = o.notice
             /\ u.clears = o.clears /\ u.got = o.got
             /\ u.user = o.user /\ u.writes = o.writes
  <2>1. TAKE r \in Users!Slots \ {s}, u \in UserTasks
  <2>2. HAVE wa_task'[r] = u
  <2>3. PICK o : o = wa_task[r]
    OBVIOUS
  <2>4. o \in UserTasks /\ u = [o EXCEPT !.alone = FALSE]
    BY <1>8, <2>2, <2>3, NoTaskIsNone
  <2>5. FALSE \in BOOLEAN
    OBVIOUS
  <2>6. QED
    BY <2>3, <2>4, <2>5, AloneIs
<1>10. wa_quiet' \subseteq wa_quiet /\ ("ann" \in wa_quiet' =>
                                          b /\ t.era = wa_era /\ ~Misled(t)) /\ (wa_told' => wa_told /\ t.era = wa_era) /\ wa_told' \in BOOLEAN
  <2>1. t.era \in 0 .. 1 /\ t.era <= wa_era /\ wa_era \in 0 .. 1 /\ wa_told \in BOOLEAN
    BY <1>3, UserTaskFields DEF WebhookAsGiven, UsersInv, IdentityTypes
  <2>2. wa_told' \in BOOLEAN /\ (wa_told' => wa_told /\ t.era = wa_era)
    BY <1>1, Zenon
  <2>3. wa_quiet' = IF Users!Busy("ann") \/ t.era < wa_era
                       \/ Users!Strays(t) THEN wa_quiet \ {"ann"} ELSE wa_quiet
    BY <1>1, <1>3, Zenon
  <2>4. wa_quiet' \subseteq wa_quiet
    BY <2>3
  <2>5. "ann" \in wa_quiet' => b /\ ~(t.era < wa_era) /\ ~Misled(t)
    BY <1>4, <1>30, <2>3
  <2>6. QED
    BY <2>1, <2>2, <2>4, <2>5
<1>11. b => \A r \in Users!Slots \ {s} : wa_task'[r] = Users!NoTask
  BY <1>5, <1>8, NoTaskIsNone
<1>12. IdentityTypes'
  BY <1>2, <1>8, <1>10 DEF UsersInv, IdentityTypes
<1>13. UserTasksAsGiven'
  <2>1. \A r \in Users!Slots, u \in UserTasks : wa_task'[r] = u => WebhookAsGiven(u)
    <3>1. TAKE r \in Users!Slots, u \in UserTasks
    <3>2. HAVE wa_task'[r] = u
    <3>3. CASE r = s
      <4>1. u = n
        BY <1>8, <3>2, <3>3
      <4>2. WebhookAsGiven(t) => WebhookAsGiven(n)
        BY <1>3, <1>7 DEF WebhookAsGiven
      <4>3. QED
        BY <1>3, <4>1, <4>2
    <3>4. CASE r # s
      <4>1. PICK o \in UserTasks :
               /\ wa_task[r] = o /\ u.pc = o.pc /\ u.era = o.era /\ u.ids = o.ids
               /\ u.fields = o.fields /\ u.notice = o.notice /\ u.clears = o.clears /\ u.got = o.got
               /\ u.user = o.user /\ u.writes = o.writes
        BY <1>9, <3>2, <3>4
      <4>2. WebhookAsGiven(o)
        BY <4>1 DEF UsersInv, UserTasksAsGiven
      <4>3. Users!Places(u) = Users!Places(o) /\ Users!Named(u) = Users!Named(o)
        BY <4>1, SamePlaces
      <4>4. QED
        BY <4>1, <4>2, <4>3 DEF WebhookAsGiven
    <3>5. QED
      BY <3>3, <3>4
  <2>2. \A u : WebhookAsGiven(u) => WebhookAsGiven(u)'
    BY <1>2 DEF WebhookAsGiven
  <2>3. QED
    BY <2>1, <2>2 DEF UserTasksAsGiven
<1>14. AloneIsAlone'
  <2>1. \A r \in Users!Slots, u \in UserTasks : wa_task'[r] = u /\ u.alone => r = s /\ b
    BY <1>7, <1>8, <1>9
  <2>2. wa_pace' = "apart" => b
    BY <1>2, <1>5
  <2>3. \A r \in Users!Slots, u \in UserTasks : wa_task'[r] = u /\ b => r = s /\ u.alone
    BY <1>7, <1>8, <1>11, NoTaskIsNone
  <2>4. \A r \in Users!Slots, u \in UserTasks : wa_task'[r] = u /\ (u.alone
                                                                      \/ wa_pace' = "apart") => \A q \in Users!Slots \ {r} : wa_task'[q] = Users!NoTask
    BY <1>11, <2>1, <2>2, <2>3
  <2>5. b => wa_loose' = {}
    BY <1>2, <1>5
  <2>6. "ann" \in wa_quiet' => b
    BY <1>10
  <2>7. wa_loose' = {}
    BY <1>2, <1>5 DEF UsersInv, AloneIsAlone
  <2>8. QED
    BY <2>1, <2>3, <2>4, <2>5, <2>6, <2>7 DEF AloneIsAlone
<1>15. LinksAreHealing'
  <2>1. wa_task'[s] # Users!NoTask
    BY <1>7, <1>8, NoTaskIsNone
  <2>2. \A r \in Users!Slots, u \in UserTasks : wa_task'[r] = u /\ u.alone => u.pc = "aliases"
    BY <1>3, <1>7, <1>8, <1>9
  <2>3. QED
    BY <2>1, <2>2 DEF LinksAreHealing
<1>16. ThreadsAreKnown'
  <2>1. \A r \in Users!Slots, u \in UserTasks : wa_task'[r] = u /\ "ann" \in wa_quiet' => u = n
    BY <1>8, <1>10, <1>11, NoTaskIsNone
  <2>2. ~Misled(t) => ~Misled(n)'
    <3>1. Users!Places(n) = Users!Places(t) /\ Users!Named(n) = Users!Named(t)
      BY <1>7, SamePlaces
    <3>2. QED
      BY <1>2, <1>7, <3>1 DEF Misled
  <2>3. \A r \in Users!Slots, u \in UserTasks : wa_task'[r] = u /\ "ann" \in wa_quiet' =>
            u.pc = "aliases" /\ ~Misled(u)'
    BY <1>3, <1>7, <1>10, <2>1, <2>2
  <2>4. /\ wa_home'["ann"] = Users!None => wa_known'["ann"] = {}
        /\ wa_last'.hit => wa_home'["ann"] # Users!None
        /\ "ann" \in wa_quiet' /\ wa_last'.hit => wa_last'.user = wa_home'["ann"]
        /\ "ann" \in wa_quiet' /\ wa_home'["ann"] # Users!None =>
              \A id \in wa_known'["ann"] : wa_alias'[id] = wa_home'["ann"]
    BY <1>2, <1>10 DEF UsersInv, ThreadsAreKnown
  <2>5. QED
    BY <2>3, <2>4 DEF ThreadsAreKnown
<1>17. NumbersAreTold'
  <2>1. \A r \in Users!Slots, u \in UserTasks : wa_task'[r] = u /\ ("ann" \in wa_quiet'
                                                                      \/ u.alone) => u.era = t.era /\ u.pc = "aliases"
    BY <1>3, <1>7, <1>8, <1>9, <1>10, <1>11, NoTaskIsNone
  <2>2. /\ wa_told' => wa_home'["ann"] # Users!None
        /\ wa_told' /\ "ann" \in wa_quiet' => GoodRoute(wa_route'[wa_home'["ann"]], wa_era')
    BY <1>2, <1>10 DEF UsersInv, NumbersAreTold
  <2>3. QED
    BY <1>2, <1>10, <2>1, <2>2 DEF NumbersAreTold
<1>18. QED
  BY <1>12, <1>13, <1>14, <1>15, <1>16, <1>17 DEF UsersInv

LEMMA ReadAliasesKeeps == ASSUME UsersInv, NEW s \in Users!Slots,
      Users!ReadAliases(s) PROVE UsersInv'
<1>1. PICK t, g : t = wa_task[s] /\ g = [i \in Users!Places(t) |-> wa_alias[t.ids[i]]]
  OBVIOUS
<1>2. t \in UserTasks /\ t.pc = "aliases" /\ WebhookAsGiven(t)
  <2>1. t.pc = "aliases" /\ t \in UserTasks \cup {Users!NoTask}
    BY <1>1 DEF Users!ReadAliases, UsersInv, IdentityTypes
  <2>2. t \in UserTasks
    BY <2>1, NoTaskIsNone
  <2>3. QED
    BY <1>1, <2>1, <2>2 DEF UsersInv, UserTasksAsGiven
<1>3. UNCHANGED <<wa_alias, wa_route, wa_pace, wa_era, wa_rotated, wa_loose, wa_quiet, wa_home,
                   wa_known, wa_told, wa_last>>
  BY DEF Users!ReadAliases, Users!store, Users!truth, Users!history
<1>4. g \in FoundAliases /\ DOMAIN g = Users!Places(t)
          /\ \A i \in Users!Places(t) : g[i] = wa_alias[t.ids[i]]
  <2>1. \A i \in Users!Places(t) : wa_alias[t.ids[i]] \in AnnsOr
    BY <1>2, PlacesAre, NoUserIs DEF UsersInv, IdentityTypes
  <2>2. Users!Places(t) \in SUBSET (1 .. 5)
    BY <1>2, PlacesAre
  <2>3. g \in [Users!Places(t) -> AnnsOr]
    BY <1>1, <2>1
  <2>4. PICK P : P = Users!Places(t)
    OBVIOUS
  <2>5. g \in UNION {[Q -> AnnsOr] : Q \in SUBSET (1 .. 5)}
    BY <2>2, <2>3, <2>4
  <2>6. QED
    BY <1>1, <2>5 DEF FoundAliases
<1>5. PICK n : n = [[t EXCEPT !.pc = "route"] EXCEPT !.got = g]
  OBVIOUS
<1>6. /\ n \in UserTasks /\ n.pc = "route" /\ n.got = g /\ n.alone = t.alone
      /\ n.who = t.who /\ n.era = t.era
      /\ n.ids = t.ids /\ n.fields = t.fields /\ n.notice = t.notice /\ n.clears = t.clears
  BY <1>2, <1>4, <1>5 DEF UserTasks
<1>7. Users!Places(n) = Users!Places(t) /\ Users!Named(n) = Users!Named(t)
  BY <1>6, SamePlaces
<1>8. wa_task \in [Users!Slots -> UserTasks \cup {Users!NoTask}]
  BY DEF UsersInv, IdentityTypes
<1>9. wa_task'[s] = n /\ (\A r \in Users!Slots \ {s} : wa_task'[r] = wa_task[r])
          /\ wa_task' \in [Users!Slots -> UserTasks \cup {Users!NoTask}]
  <2>1. wa_task' = [wa_task EXCEPT ![s].pc = "route",
                      ![s].got = [i \in Users!Places(wa_task[s]) |-> wa_alias[wa_task[s].ids[i]]]]
    BY DEF Users!ReadAliases
  <2>2. wa_task' = [wa_task EXCEPT ![s].pc = "route", ![s].got = g]
    BY <1>1, <2>1
  <2>3. wa_task' = [wa_task EXCEPT ![s] = n]
    BY <1>1, <1>5, <1>8, <2>2
  <2>4. QED
    BY <1>6, <1>8, <2>3
<1>10. IdentityTypes'
  BY <1>3, <1>9 DEF UsersInv, IdentityTypes
<1>11. UserTasksAsGiven'
  <2>1. WebhookAsGiven(n)
    BY <1>2, <1>4, <1>6, <1>7 DEF WebhookAsGiven
  <2>2. \A u : WebhookAsGiven(u) => WebhookAsGiven(u)'
    BY <1>3 DEF WebhookAsGiven
  <2>3. QED
    BY <1>9, <2>1, <2>2 DEF UsersInv, UserTasksAsGiven
<1>12. AloneIsAlone'
  <2>1. \A r \in Users!Slots : wa_task'[r] = Users!NoTask <=> wa_task[r] = Users!NoTask
    BY <1>1, <1>2, <1>6, <1>9, NoTaskIsNone
  <2>2. \A r \in Users!Slots, u \in UserTasks : wa_task'[r] = u =>
            \E o \in UserTasks : wa_task[r] = o /\ o.alone = u.alone
    BY <1>1, <1>2, <1>6, <1>9
  <2>3. QED
    BY <1>3, <2>1, <2>2 DEF UsersInv, AloneIsAlone
<1>13. LinksAreHealing'
  <2>1. wa_task[s] # Users!NoTask /\ wa_task'[s] # Users!NoTask
    BY <1>1, <1>2, <1>6, <1>9, NoTaskIsNone
  <2>2. \A i \in Users!Places(n) : n.got[i] = wa_alias'[n.ids[i]]
    BY <1>3, <1>4, <1>6, <1>7
  <2>3. QED
    BY <1>3, <1>6, <1>9, <2>1, <2>2 DEF UsersInv, LinksAreHealing
<1>14. ThreadsAreKnown'
  <2>1. "ann" \in wa_quiet => ~Misled(n)
    <3>1. "ann" \in wa_quiet => ~Misled(t)
      BY <1>1, <1>2 DEF UsersInv, ThreadsAreKnown
    <3>2. QED
      BY <1>6, <1>7, <3>1 DEF Misled
  <2>2. \A u : ~Misled(u) => ~Misled(u)'
    BY <1>3 DEF Misled
  <2>3. QED
    BY <1>3, <1>6, <1>9, <2>1, <2>2 DEF UsersInv, ThreadsAreKnown
<1>15. NumbersAreTold'
  BY <1>1, <1>2, <1>3, <1>6, <1>9 DEF UsersInv, NumbersAreTold
<1>16. QED
  BY <1>10, <1>11, <1>12, <1>13, <1>14, <1>15 DEF UsersInv

LEMMA ReadRouteKeeps == ASSUME UsersInv, NEW s \in Users!Slots, Users!ReadRoute(s) PROVE UsersInv'
<1>1. PICK t, user : t = wa_task[s] /\ user = Users!Canonical(t)
  OBVIOUS
<1>2. t \in UserTasks /\ t.pc = "route" /\ WebhookAsGiven(t) /\ DOMAIN t.got = Users!Places(t)
  <2>1. t.pc = "route" /\ t \in UserTasks \cup {Users!NoTask}
    BY <1>1 DEF Users!ReadRoute, UsersInv, IdentityTypes
  <2>2. t \in UserTasks
    BY <2>1, NoTaskIsNone
  <2>3. WebhookAsGiven(t)
    BY <1>1, <2>2 DEF UsersInv, UserTasksAsGiven
  <2>4. QED
    BY <2>1, <2>2, <2>3 DEF WebhookAsGiven
<1>3. UNCHANGED <<wa_alias, wa_route, wa_pace, wa_era, wa_rotated, wa_loose, wa_quiet, wa_home,
                   wa_known, wa_told, wa_last>>
  BY DEF Users!ReadRoute, Users!store, Users!truth, Users!history
<1>4. /\ user \in Anns
      /\ \/ \A i \in Users!Places(t) : t.got[i] = Users!None
         \/ \E i \in Users!Places(t) : /\ t.got[i] = user /\ t.got[i] # Users!None
                                       /\ \A j \in Users!Places(t) : j < i => t.got[j] = Users!None
  BY <1>1, <1>2, CanonicalIs
<1>5. PICK p : p = wa_route[user]
  OBVIOUS
<1>6. p \in AnnsRoutes
  BY <1>4, <1>5, NoUserIs DEF UsersInv, IdentityTypes
<1>7. PICK f : f = [t EXCEPT !.user = user, !.path = p]
  OBVIOUS
<1>8. /\ f \in UserTasks /\ f.user = user /\ f.path = p /\ f.alone = t.alone
      /\ f.who = t.who /\ f.era = t.era
      /\ f.ids = t.ids /\ f.fields = t.fields /\ f.notice = t.notice /\ f.clears = t.clears
      /\ f.got = t.got
  BY <1>2, <1>4, <1>6, <1>7 DEF UserTasks, AnnsOr
<1>9. PICK w, g, e : w = Users!Writes(f) /\ g = <<>> /\ e = Users!EmptyRoute
  OBVIOUS
<1>10. Users!Places(f) = Users!Places(t) /\ Users!Named(f) = Users!Named(t)
  BY <1>8, SamePlaces
<1>11. /\ w \in SUBSET UserWrites
       /\ \A x \in w : \/ x.is = "alias" /\ x.to = user /\ x.at \in Users!Named(t)
                       \/ x.is = "route" /\ x.at = user /\ x.route = Users!Merged(f)
       /\ \A i \in Users!Places(t) : t.got[i] = user \/ \E x \in w : x.is = "alias"
             /\ x.at = t.ids[i]
       /\ (\E x \in w : x.is = "route") \/ Users!Merged(f) = p
  <2>1. f \in UserTasks /\ f.user \in Anns /\ DOMAIN f.got = Users!Places(f)
    BY <1>2, <1>4, <1>8, <1>10
  <2>2. /\ w \in SUBSET UserWrites
        /\ \A x \in w : \/ x.is = "alias" /\ x.to = f.user /\ x.at \in Users!Named(f)
                        \/ x.is = "route" /\ x.at = f.user /\ x.route = Users!Merged(f)
        /\ \A i \in Users!Places(f) : f.got[i] = f.user \/ \E x \in w : x.is = "alias"
              /\ x.at = f.ids[i]
        /\ (\E x \in w : x.is = "route") \/ Users!Merged(f) = f.path
    BY <1>9, <2>1, WritesAre
  <2>3. QED
    BY <1>8, <1>10, <2>2
<1>12. PICK n : n = [f EXCEPT !.pc = "writing", !.writes = w, !.got = g, !.path = e]
  OBVIOUS
<1>13. g \in FoundAliases /\ e \in AnnsRoutes
  BY <1>9, EmptyIs DEF FoundAliases
<1>14. /\ n \in UserTasks /\ n.pc = "writing" /\ n.writes = w /\ n.user = user
       /\ n.alone = t.alone /\ n.who = t.who
       /\ n.era = t.era /\ n.ids = t.ids /\ n.fields = t.fields /\ n.notice = t.notice
       /\ n.clears = t.clears
  BY <1>8, <1>11, <1>12, <1>13 DEF UserTasks
<1>15. Users!Places(n) = Users!Places(t) /\ Users!Named(n) = Users!Named(t)
  BY <1>14, SamePlaces
<1>16. wa_task \in [Users!Slots -> UserTasks \cup {Users!NoTask}]
  BY DEF UsersInv, IdentityTypes
<1>17. wa_task'[s] = n /\ (\A r \in Users!Slots \ {s} : wa_task'[r] = wa_task[r])
          /\ wa_task' \in [Users!Slots -> UserTasks \cup {Users!NoTask}]
  <2>1. wa_task' = [wa_task EXCEPT ![s] = n]
    BY <1>1, <1>5, <1>7, <1>9, <1>12 DEF Users!ReadRoute
  <2>2. QED
    BY <1>14, <1>16, <2>1
<1>18. IdentityTypes'
  BY <1>3, <1>17 DEF UsersInv, IdentityTypes
<1>19. UserTasksAsGiven'
  <2>1. WebhookAsGiven(n)
    BY <1>2, <1>4, <1>11, <1>14, <1>15 DEF WebhookAsGiven
  <2>2. \A u : WebhookAsGiven(u) => WebhookAsGiven(u)'
    BY <1>3 DEF WebhookAsGiven
  <2>3. QED
    BY <1>17, <2>1, <2>2 DEF UsersInv, UserTasksAsGiven
<1>20. AloneIsAlone'
  <2>1. \A r \in Users!Slots : wa_task'[r] = Users!NoTask <=> wa_task[r] = Users!NoTask
    BY <1>1, <1>2, <1>14, <1>17, NoTaskIsNone
  <2>2. \A r \in Users!Slots, u \in UserTasks : wa_task'[r] = u =>
            \E o \in UserTasks : wa_task[r] = o /\ o.alone = u.alone
    BY <1>1, <1>2, <1>14, <1>17
  <2>3. QED
    BY <1>3, <2>1, <2>2 DEF UsersInv, AloneIsAlone
\* What a webhook that is alone has read still stands.
<1>21. t.alone => \A i \in Users!Places(t) : t.got[i] = wa_alias[t.ids[i]]
  BY <1>1, <1>2 DEF UsersInv, LinksAreHealing
<1>22. LinksAreHealing'
  <2>1. wa_task[s] # Users!NoTask /\ wa_task'[s] # Users!NoTask
    BY <1>1, <1>2, <1>14, <1>17, NoTaskIsNone
  <2>2. n.alone => \A id \in Users!Named(n) : wa_alias[id] = n.user
            \/ \E x \in n.writes : x.is = "alias" /\ x.at = id
    <3>1. \A id \in Users!Named(t) : \E i \in Users!Places(t) : id = t.ids[i]
      BY <1>2, PlacesAre
    <3>2. QED
      BY <1>11, <1>14, <1>15, <1>21, <3>1
  <2>3. QED
    BY <1>3, <1>14, <1>17, <2>1, <2>2 DEF UsersInv, LinksAreHealing
<1>23. "ann" \in wa_quiet /\ wa_home["ann"] # Users!None
          /\ Users!Named(t) \cap wa_known["ann"] # {} => user = wa_home["ann"]
  <2>1. SUFFICES ASSUME "ann" \in wa_quiet, wa_home["ann"] # Users!None,
            Users!Named(t) \cap wa_known["ann"] # {}
                 PROVE  user = wa_home["ann"]
    OBVIOUS
  <2>2. ~Misled(t) /\ t.alone /\ \A id \in wa_known["ann"] : wa_alias[id] = wa_home["ann"]
    BY <1>1, <1>2, <2>1 DEF UsersInv, ThreadsAreKnown, AloneIsAlone
  <2>3. PICK k \in Users!Places(t) : t.ids[k] \in wa_known["ann"]
    BY <1>2, <2>1, PlacesAre
  <2>4. t.got[k] = wa_home["ann"]
    BY <1>21, <2>2, <2>3
  <2>5. PICK i \in Users!Places(t) : t.got[i] = user /\ t.got[i] # Users!None
            /\ \A j \in Users!Places(t) : j < i => t.got[j] = Users!None
    BY <1>4, <2>1, <2>3, <2>4
  <2>6. t.who = "ann"
    BY <1>2, UserTaskFields
  <2>7. wa_alias[t.ids[i]] = user /\ user # Users!None /\ \A j \in Users!Places(t) : j < i =>
            wa_alias[t.ids[j]] # wa_home["ann"]
    BY <1>21, <2>1, <2>2, <2>5
  <2>8. QED
    BY <2>1, <2>2, <2>6, <2>7 DEF Misled
<1>24. ThreadsAreKnown'
  <2>1. \A u : ~Misled(u) => ~Misled(u)'
    BY <1>3 DEF Misled
  <2>2. "ann" \in wa_quiet /\ wa_home["ann"] # Users!None
            /\ Users!Named(n) \cap wa_known["ann"] # {} => n.user = wa_home["ann"]
    BY <1>14, <1>15, <1>23
  <2>3. QED
    BY <1>3, <1>14, <1>17, <2>1, <2>2 DEF UsersInv, ThreadsAreKnown
<1>25. NumbersAreTold'
  <2>1. t.fields.phone \in {Users!None, Users!Phone("ann", t.era)} /\ (t.notice <=> t.clears)
        /\ (t.notice => t.fields.bsuid # Users!None \/ t.fields.parent # Users!None
              \/ t.fields.phone # Users!None)
    BY <1>2 DEF WebhookAsGiven
  <2>2. /\ t.notice \/ t.fields.phone # Users!None => GoodRoute(Users!Merged(f), t.era)
        /\ GoodRoute(p, t.era) => GoodRoute(Users!Merged(f), t.era)
    BY <1>8, <2>1, MergedIsGood
  <2>3. wa_told /\ "ann" \in wa_quiet /\ user = wa_home["ann"] =>
            t.era = wa_era /\ GoodRoute(p, wa_era)
    BY <1>1, <1>2, <1>5 DEF UsersInv, NumbersAreTold
  <2>4. wa_told /\ "ann" \in wa_quiet /\ n.user = wa_home["ann"] =>
            \A x \in n.writes : x.is = "route" => GoodRoute(x.route, wa_era)
    BY <1>11, <1>14, <2>2, <2>3
  <2>5. n.notice \/ n.fields.phone # Users!None
          => /\ \A x \in n.writes : x.is = "route" => GoodRoute(x.route, n.era)
             /\ (\E x \in n.writes : x.is = "route") \/ GoodRoute(wa_route[n.user], n.era)
    BY <1>5, <1>11, <1>14, <2>2
  <2>6. wa_told /\ "ann" \in wa_quiet => n.era = wa_era
    BY <1>1, <1>2, <1>14 DEF UsersInv, NumbersAreTold
  <2>7. QED
    BY <1>3, <1>14, <1>17, <2>4, <2>5, <2>6 DEF UsersInv, NumbersAreTold
<1>26. QED
  BY <1>18, <1>19, <1>20, <1>22, <1>24, <1>25 DEF UsersInv

LEMMA WriteKeeps == ASSUME UsersInv, NEW s \in Users!Slots, Users!Write(s) PROVE UsersInv'
<1>1. PICK t : t = wa_task[s]
  OBVIOUS
<1>2. PICK W \in SUBSET t.writes : Users!Stored(W)
          /\ wa_task' = [wa_task EXCEPT ![s].writes = @ \ W]
  <2>1. PICK W \in IF wa_pace = "apart" THEN {wa_task[s].writes} ELSE {{w} : w \in wa_task[s].writes} :
            Users!Stored(W) /\ wa_task' = [wa_task EXCEPT ![s].writes = @ \ W]
    BY DEF Users!Write
  <2>2. W \in SUBSET t.writes
    BY <1>1, <2>1
  <2>3. QED
    BY <2>1, <2>2
<1>3. t \in UserTasks /\ t.pc = "writing" /\ WebhookAsGiven(t)
  <2>1. t.pc = "writing" /\ t \in UserTasks \cup {Users!NoTask}
    BY <1>1 DEF Users!Write, UsersInv, IdentityTypes
  <2>2. t \in UserTasks
    BY <2>1, NoTaskIsNone
  <2>3. QED
    BY <1>1, <2>1, <2>2 DEF UsersInv, UserTasksAsGiven
<1>4. UNCHANGED <<wa_pace, wa_era, wa_rotated, wa_loose, wa_quiet, wa_home, wa_known, wa_told,
                   wa_last>>
  BY DEF Users!Write, Users!truth, Users!history
<1>5. /\ t.user \in Anns /\ t.writes \in SUBSET UserWrites /\ W \in SUBSET UserWrites
      /\ \A w \in t.writes :
            \/ w.is = "alias" /\ w.to = t.user /\ w.at \in Users!Named(t)
            \/ w.is = "route" /\ w.at = t.user
  BY <1>3, UserTaskFields DEF WebhookAsGiven
<1>6. IdentityTypes
  BY DEF UsersInv
<1>7. /\ wa_alias' \in [Users!Ids -> AnnsOr] /\ wa_alias'["pb"] = Users!None
      /\ wa_alias'["bb"] = Users!None
      /\ wa_route' \in [Users!Ids -> AnnsRoutes] /\ wa_route'["pb"] = Users!EmptyRoute
      /\ wa_route'["bb"] = Users!EmptyRoute
  BY <1>2, <1>5, <1>6, StoredAre
<1>8. \A id \in Users!Ids :
          \/ wa_alias'[id] = wa_alias[id] /\ \A w \in W : w.is = "alias" => w.at # id
          \/ wa_alias'[id] = t.user /\ id \in Users!Named(t)
  <2>1. TAKE id \in Users!Ids
  <2>2. \/ wa_alias'[id] = wa_alias[id] /\ \A w \in W : w.is = "alias" => w.at # id
        \/ \E w \in W : w.is = "alias" /\ w.at = id /\ wa_alias'[id] = w.to
    BY <1>2, <1>5, <1>6, StoredAre
  <2>3. QED
    BY <1>5, <2>2
<1>9. \A id \in Users!Ids :
          \/ wa_route'[id] = wa_route[id] /\ \A w \in W : w.is = "route" => w.at # id
          \/ id = t.user /\ \E w \in W : w.is = "route" /\ wa_route'[id] = w.route
  <2>1. TAKE id \in Users!Ids
  <2>2. \/ wa_route'[id] = wa_route[id] /\ \A w \in W : w.is = "route" => w.at # id
        \/ \E w \in W : w.is = "route" /\ w.at = id /\ wa_route'[id] = w.route
    BY <1>2, <1>5, <1>6, StoredAre
  <2>3. QED
    BY <1>5, <2>2
<1>10. PICK v : v = t.writes \ W
  OBVIOUS
<1>11. PICK n : n = [t EXCEPT !.writes = v]
  OBVIOUS
<1>12. /\ n \in UserTasks /\ n.pc = "writing" /\ n.writes = v /\ n.user = t.user
       /\ n.alone = t.alone /\ n.who = t.who
       /\ n.era = t.era /\ n.ids = t.ids /\ n.fields = t.fields /\ n.notice = t.notice
       /\ n.clears = t.clears
  <2>1. v \in SUBSET UserWrites
    BY <1>5, <1>10
  <2>2. QED
    BY <1>3, <1>11, <2>1 DEF UserTasks
<1>13. Users!Places(n) = Users!Places(t) /\ Users!Named(n) = Users!Named(t)
  BY <1>12, SamePlaces
<1>14. wa_task'[s] = n /\ (\A r \in Users!Slots \ {s} : wa_task'[r] = wa_task[r])
          /\ wa_task' \in [Users!Slots -> UserTasks \cup {Users!NoTask}]
  <2>1. wa_task \in [Users!Slots -> UserTasks \cup {Users!NoTask}]
    BY <1>6 DEF IdentityTypes
  <2>2. wa_task' = [wa_task EXCEPT ![s] = n]
    BY <1>1, <1>2, <1>10, <1>11, <2>1
  <2>3. QED
    BY <1>12, <2>1, <2>2
<1>15. IdentityTypes'
  BY <1>4, <1>6, <1>7, <1>14 DEF IdentityTypes
<1>16. UserTasksAsGiven'
  <2>1. WebhookAsGiven(n)
    BY <1>3, <1>5, <1>10, <1>12, <1>13 DEF WebhookAsGiven
  <2>2. \A u : WebhookAsGiven(u) => WebhookAsGiven(u)'
    BY <1>4 DEF WebhookAsGiven
  <2>3. QED
    BY <1>14, <2>1, <2>2 DEF UsersInv, UserTasksAsGiven
<1>17. \A r \in Users!Slots : wa_task'[r] = Users!NoTask <=> wa_task[r] = Users!NoTask
  BY <1>1, <1>3, <1>12, <1>14, NoTaskIsNone
<1>18. AloneIsAlone'
  <2>1. \A r \in Users!Slots, u \in UserTasks : wa_task'[r] = u =>
            \E o \in UserTasks : wa_task[r] = o /\ o.alone = u.alone
    BY <1>1, <1>3, <1>12, <1>14
  <2>2. QED
    BY <1>4, <1>17, <2>1 DEF UsersInv, AloneIsAlone
\* Nobody who is alone, or whose user's webhooks come in order, is beside this one.
<1>19. \A r \in Users!Slots, u \in UserTasks : wa_task'[r] = u /\ (u.alone
                                                                     \/ "ann" \in wa_quiet) => r = s /\ u = n
  <2>1. TAKE r \in Users!Slots, u \in UserTasks
  <2>2. HAVE wa_task'[r] = u /\ (u.alone \/ "ann" \in wa_quiet)
  <2>3. CASE r # s
    <3>1. wa_task[r] = u /\ wa_task[s] # Users!NoTask
      BY <1>1, <1>3, <1>14, <2>2, <2>3, NoTaskIsNone
    <3>2. u.alone
      BY <2>2, <3>1 DEF UsersInv, AloneIsAlone
    <3>3. QED
      BY <2>3, <3>1, <3>2 DEF UsersInv, AloneIsAlone
  <2>4. QED
    BY <1>14, <2>2, <2>3
<1>20. "ann" \in wa_quiet => t.alone
  BY <1>1, <1>3 DEF UsersInv, AloneIsAlone
<1>21. LinksAreHealing'
  <2>1. wa_task[s] # Users!NoTask /\ wa_task'[s] # Users!NoTask
    BY <1>1, <1>3, <1>17, NoTaskIsNone
  <2>2. n.alone => \A id \in Users!Named(n) : wa_alias'[id] = n.user
            \/ \E w \in n.writes : w.is = "alias" /\ w.at = id
    <3>1. SUFFICES ASSUME n.alone, NEW id \in Users!Named(n), wa_alias'[id] # n.user
                   PROVE  \E w \in n.writes : w.is = "alias" /\ w.at = id
      OBVIOUS
    <3>2. wa_alias[id] = t.user \/ \E w \in t.writes : w.is = "alias" /\ w.at = id
      BY <1>1, <1>3, <1>12, <1>13, <3>1 DEF UsersInv, LinksAreHealing
    <3>3. id \in Users!Ids
      BY <1>12, <3>1, PlacesAre, NoUserIs
    <3>4. wa_alias'[id] = wa_alias[id] /\ \A w \in W : w.is = "alias" => w.at # id
      BY <1>8, <1>12, <3>1, <3>3
    <3>5. QED
      BY <1>10, <1>12, <3>1, <3>2, <3>4
  <2>3. QED
    BY <1>12, <1>19, <2>1, <2>2 DEF LinksAreHealing
<1>22. ThreadsAreKnown'
  <2>1. "ann" \in wa_quiet /\ wa_home["ann"] # Users!None
            /\ Users!Named(t) \cap wa_known["ann"] # {} => t.user = wa_home["ann"]
    BY <1>1, <1>3 DEF UsersInv, ThreadsAreKnown
  <2>2. "ann" \in wa_quiet /\ wa_home["ann"] # Users!None =>
            \A id \in wa_known["ann"] : wa_alias'[id] = wa_home["ann"]
    <3>1. wa_known["ann"] \subseteq Users!Ids
      BY <1>6, NoUserIs DEF IdentityTypes, Users!User
    <3>2. "ann" \in wa_quiet /\ wa_home["ann"] # Users!None =>
              \A id \in wa_known["ann"] : wa_alias[id] = wa_home["ann"]
      BY DEF UsersInv, ThreadsAreKnown
    <3>3. QED
      BY <1>8, <2>1, <3>1, <3>2
  <2>3. "ann" \in wa_quiet /\ wa_home["ann"] # Users!None
            /\ Users!Named(n) \cap wa_known["ann"] # {} => n.user = wa_home["ann"]
    BY <1>12, <1>13, <2>1
  <2>4. \A r \in Users!Slots, u \in UserTasks : wa_task'[r] = u /\ "ann" \in wa_quiet => u = n
    BY <1>19
  <2>5. /\ wa_home["ann"] = Users!None => wa_known["ann"] = {}
        /\ wa_last.hit => wa_home["ann"] # Users!None
        /\ "ann" \in wa_quiet /\ wa_last.hit => wa_last.user = wa_home["ann"]
    BY DEF UsersInv, ThreadsAreKnown
  <2>6. QED
    BY <1>4, <1>12, <2>2, <2>3, <2>4, <2>5 DEF ThreadsAreKnown
<1>23. NumbersAreTold'
  <2>1. wa_told => wa_home["ann"] # Users!None
    BY DEF UsersInv, NumbersAreTold
  <2>2. wa_home["ann"] \in AnnsOr
    BY <1>6 DEF IdentityTypes, Users!User
  <2>3. wa_told /\ "ann" \in wa_quiet /\ t.user = wa_home["ann"] =>
            \A w \in t.writes : w.is = "route" => GoodRoute(w.route, wa_era)
    BY <1>1, <1>3 DEF UsersInv, NumbersAreTold
  <2>4. wa_told /\ "ann" \in wa_quiet => GoodRoute(wa_route'[wa_home["ann"]], wa_era)
    <3>1. wa_told /\ "ann" \in wa_quiet => GoodRoute(wa_route[wa_home["ann"]], wa_era)
      BY DEF UsersInv, NumbersAreTold
    <3>2. wa_told => wa_home["ann"] \in Users!Ids
      BY <2>1, <2>2, NoUserIs DEF AnnsOr
    <3>3. \A w \in W : w \in t.writes
      OBVIOUS
    <3>4. QED
      BY <1>9, <2>3, <3>1, <3>2, <3>3
  <2>5. t.alone /\ (t.notice \/ t.fields.phone # Users!None)
          => /\ \A w \in t.writes : w.is = "route" => GoodRoute(w.route, t.era)
             /\ (\E w \in t.writes : w.is = "route") \/ GoodRoute(wa_route[t.user], t.era)
    BY <1>1, <1>3 DEF UsersInv, NumbersAreTold
  <2>6. n.alone /\ (n.notice \/ n.fields.phone # Users!None)
          => /\ \A w \in n.writes : w.is = "route" => GoodRoute(w.route, n.era)
             /\ (\E w \in n.writes : w.is = "route") \/ GoodRoute(wa_route'[n.user], n.era)
    <3>1. \A w : w \in n.writes <=> w \in t.writes /\ w \notin W
      BY <1>10, <1>12
    <3>2. t.user \in Users!Ids
      BY <1>5, NoUserIs
    <3>3. \/ wa_route'[t.user] = wa_route[t.user] /\ \A w \in W : w.is = "route" => w.at # t.user
          \/ \E w \in W : w.is = "route" /\ wa_route'[t.user] = w.route
      BY <1>9, <3>2
    <3>4. \A w \in W : w \in t.writes /\ (w.is = "route" => w.at = t.user)
      BY <1>5
    <3>5. QED
      BY <1>12, <2>5, <3>1, <3>3, <3>4
  <2>7. wa_told /\ "ann" \in wa_quiet /\ n.user = wa_home["ann"] =>
            \A w \in n.writes : w.is = "route" => GoodRoute(w.route, wa_era)
    BY <1>10, <1>12, <2>3
  <2>8. wa_told /\ "ann" \in wa_quiet => n.era = wa_era
    BY <1>1, <1>3, <1>12 DEF UsersInv, NumbersAreTold
  <2>9. \A r \in Users!Slots, u \in UserTasks : wa_task'[r] = u /\ (u.alone
                                                                      \/ "ann" \in wa_quiet) => u = n
    BY <1>19
  <2>10. QED
    BY <1>4, <2>1, <2>4, <2>6, <2>7, <2>8, <2>9 DEF NumbersAreTold
<1>24. QED
  BY <1>15, <1>16, <1>18, <1>21, <1>22, <1>23 DEF UsersInv

LEMMA WriteLooseKeeps == ASSUME UsersInv, Users!WriteLoose PROVE UsersInv'
<1>1. PICK w \in wa_loose : Users!Stored({w}) /\ wa_loose' = wa_loose \ {w}
  BY DEF Users!WriteLoose
<1>2. UNCHANGED <<wa_pace, wa_era, wa_rotated, wa_task, wa_quiet, wa_home, wa_known, wa_told,
                   wa_last>>
  BY DEF Users!WriteLoose, Users!truth, Users!history
<1>3. IdentityTypes
  BY DEF UsersInv
<1>4. /\ wa_alias' \in [Users!Ids -> AnnsOr] /\ wa_alias'["pb"] = Users!None
      /\ wa_alias'["bb"] = Users!None
      /\ wa_route' \in [Users!Ids -> AnnsRoutes] /\ wa_route'["pb"] = Users!EmptyRoute
      /\ wa_route'["bb"] = Users!EmptyRoute
  <2>1. {w} \in SUBSET UserWrites
    BY <1>1, <1>3 DEF IdentityTypes
  <2>2. QED
    BY <1>1, <1>3, <2>1, StoredAre
<1>5. wa_pace = "apart" /\ (\A s \in Users!Slots : wa_task[s] = Users!NoTask)
          /\ ~wa_last.alone /\ "ann" \notin wa_quiet
  BY <1>1 DEF UsersInv, AloneIsAlone
<1>6. IdentityTypes'
  <2>1. wa_loose' \in SUBSET UserWrites
    BY <1>1, <1>3 DEF IdentityTypes
  <2>2. QED
    BY <1>2, <1>3, <1>4, <2>1, Zenon DEF IdentityTypes
<1>7. \A s \in Users!Slots, t \in UserTasks : wa_task'[s] # t
  BY <1>2, <1>5, NoTaskIsNone
<1>8. UserTasksAsGiven'
  BY <1>7 DEF UserTasksAsGiven
<1>9. AloneIsAlone'
  BY <1>2, <1>5, <1>7 DEF AloneIsAlone
<1>10. LinksAreHealing'
  BY <1>2, <1>5, <1>7 DEF LinksAreHealing
<1>11. ThreadsAreKnown'
  BY <1>2, <1>5, <1>7 DEF UsersInv, ThreadsAreKnown
<1>12. NumbersAreTold'
  BY <1>2, <1>5, <1>7 DEF UsersInv, NumbersAreTold
<1>13. QED
  BY <1>6, <1>8, <1>9, <1>10, <1>11, <1>12 DEF UsersInv

LEMMA LinkedKeeps == ASSUME UsersInv, NEW s \in Users!Slots, Users!Linked(s) PROVE UsersInv'
<1>1. PICK t, ids : t = wa_task[s] /\ ids = Users!Named(t)
  OBVIOUS
<1>2. t \in UserTasks /\ t.pc = "writing" /\ t.writes = {} /\ WebhookAsGiven(t)
          /\ t.who = "ann" /\ t.user \in Anns /\ ids \in SUBSET Anns
  <2>1. t.pc = "writing" /\ t.writes = {} /\ t \in UserTasks \cup {Users!NoTask}
    BY <1>1 DEF Users!Linked, UsersInv, IdentityTypes
  <2>2. t \in UserTasks
    BY <2>1, NoTaskIsNone
  <2>3. WebhookAsGiven(t)
    BY <1>1, <2>2 DEF UsersInv, UserTasksAsGiven
  <2>4. QED
    BY <1>1, <2>1, <2>2, <2>3, UserTaskFields, PlacesAre DEF WebhookAsGiven
<1>3. UNCHANGED <<wa_alias, wa_route, wa_pace, wa_era, wa_rotated, wa_loose, wa_quiet>>
  BY DEF Users!Linked, Users!store, Users!truth
<1>4. PICK hit \in BOOLEAN :
         /\ hit = (wa_home["ann"] # Users!None /\ ids \cap wa_known["ann"] # {})
         /\ hit <=> wa_home["ann"] # Users!None /\ ids \cap wa_known["ann"] # {}
  <2>1. PICK x \in BOOLEAN : x = (wa_home["ann"] # Users!None /\ ids \cap wa_known["ann"] # {})
    OBVIOUS
  <2>2. x <=> wa_home["ann"] # Users!None /\ ids \cap wa_known["ann"] # {}
    BY <2>1, Zenon
  <2>3. QED
    BY <2>1, <2>2, Zenon
<1>5. PICK fresh \in BOOLEAN :
         /\ fresh => wa_home["ann"] = Users!None
               /\ \A id \in Users!Ids : Users!Owner(id) = "ann" =>
                     wa_alias[id] \in {Users!None, t.user}
         /\ wa_home' = IF fresh THEN [wa_home EXCEPT !["ann"] = t.user] ELSE wa_home
  <2>1. PICK whole, sole \in BOOLEAN :
           /\ sole <=> \A id \in Users!Ids : Users!Owner(id) = "ann" =>
                 wa_alias[id] \in {Users!None, t.user}
           /\ wa_home' = IF wa_home["ann"] = Users!None /\ whole
                            /\ sole THEN [wa_home EXCEPT !["ann"] = t.user] ELSE wa_home
    <3>1. PICK whole : whole = ({Users!Phone("ann", wa_era), Users!Bsuid("ann", wa_era),
                                   Users!Parent("ann", wa_era)} \ {Users!None} \subseteq ids)
      OBVIOUS
    <3>2. PICK sole \in BOOLEAN : sole = (\A id \in Users!Ids : Users!Owner(id) = "ann" =>
                                            wa_alias[id] \in {Users!None, t.user})
      OBVIOUS
    <3>3. wa_home' = IF wa_home["ann"] = Users!None /\ whole
                        /\ sole THEN [wa_home EXCEPT !["ann"] = t.user] ELSE wa_home
      BY <1>1, <1>2, <3>1, <3>2, Zenon DEF Users!Linked
    <3>4. sole <=> \A id \in Users!Ids : Users!Owner(id) = "ann" =>
              wa_alias[id] \in {Users!None, t.user}
      BY <3>2, Zenon
    <3>5. QED
      BY <3>3, <3>4
  <2>2. PICK x \in BOOLEAN : x <=> wa_home["ann"] = Users!None /\ whole /\ sole
    <3>1. PICK x \in BOOLEAN : x = (wa_home["ann"] = Users!None /\ whole /\ sole)
      OBVIOUS
    <3>2. QED
      BY <3>1, Zenon
  <2>3. QED
    BY <2>1, <2>2
<1>6. /\ wa_known' = IF hit \/ wa_home'["ann"] # wa_home["ann"] THEN [wa_known EXCEPT !["ann"] = @ \cup ids] ELSE wa_known
      /\ wa_told' = (wa_told \/ (t.era = wa_era /\ ids \cap wa_known'["ann"] # {}
                                   /\ (t.notice \/ t.fields.phone # Users!None)))
      /\ wa_last' = [who |-> "ann", alone |-> t.alone, ids |-> ids, user |-> t.user, hit |-> hit]
      /\ wa_task' = [wa_task EXCEPT ![s] = Users!NoTask]
  <2>1. wa_known' = IF hit \/ wa_home'["ann"] # wa_home["ann"] THEN [wa_known EXCEPT !["ann"] = @ \cup ids] ELSE wa_known
    BY <1>1, <1>2, <1>4, Zenon DEF Users!Linked
  <2>2. wa_told' = (wa_told \/ (t.era = wa_era /\ ids \cap wa_known'["ann"] # {}
                                  /\ (t.notice \/ t.fields.phone # Users!None)))
    BY <1>1, <1>2, Zenon DEF Users!Linked
  <2>3. wa_last' = [who |-> "ann", alone |-> t.alone, ids |-> ids, user |-> t.user, hit |-> hit]
    BY <1>1, <1>2, <1>4, Zenon DEF Users!Linked
  <2>4. wa_task' = [wa_task EXCEPT ![s] = Users!NoTask]
    BY DEF Users!Linked
  <2>5. QED
    BY <2>1, <2>2, <2>3, <2>4
<1>7. IdentityTypes
  BY DEF UsersInv
<1>8. wa_task'[s] = Users!NoTask /\ (\A r \in Users!Slots \ {s} : wa_task'[r] = wa_task[r])
          /\ wa_task' \in [Users!Slots -> UserTasks \cup {Users!NoTask}]
  BY <1>6, <1>7 DEF IdentityTypes
<1>9. /\ wa_home' \in [Users!User -> AnnsOr] /\ wa_home'["bob"] = Users!None
      /\ wa_home'["ann"] = IF fresh THEN t.user ELSE wa_home["ann"]
  <2>1. t.user \in AnnsOr /\ "ann" \in Users!User /\ wa_home \in [Users!User -> AnnsOr]
            /\ wa_home["bob"] = Users!None
    BY <1>2, <1>7 DEF IdentityTypes, Users!User, AnnsOr
  <2>2. QED
    BY <1>5, <2>1
<1>10. /\ wa_known' \in [Users!User -> SUBSET Anns] /\ wa_known'["bob"] = {}
       /\ wa_known'["ann"] = IF hit \/ wa_home'["ann"] # wa_home["ann"] THEN wa_known["ann"] \cup ids ELSE wa_known["ann"]
  <2>1. "ann" \in Users!User /\ wa_known \in [Users!User -> SUBSET Anns] /\ wa_known["bob"] = {}
    BY <1>7 DEF IdentityTypes, Users!User
  <2>2. wa_known["ann"] \cup ids \in SUBSET Anns
    BY <1>2, <2>1
  <2>3. QED
    BY <1>6, <2>1, <2>2
<1>11. wa_told' \in BOOLEAN /\ (wa_told' <=> wa_told \/ (t.era = wa_era
                                                           /\ ids \cap wa_known'["ann"] # {}
                                                           /\ (t.notice
                                                                 \/ t.fields.phone # Users!None)))
  BY <1>6, Zenon
<1>12. wa_last'.who = "ann" /\ wa_last'.alone = t.alone /\ wa_last'.ids = ids
          /\ wa_last'.user = t.user /\ wa_last'.hit = hit
       /\ wa_last' \in [who : {Users!None, "ann"}, alone : BOOLEAN, ids : SUBSET Anns,
                          user : AnnsOr, hit : BOOLEAN]
  BY <1>2, <1>6, UserTaskFields DEF AnnsOr
<1>13. IdentityTypes'
  <2>1. wa_last'.user # Users!None \/ wa_last'.hit \/ wa_last'.alone => wa_last'.who = "ann"
    BY <1>12
  <2>2. QED
    BY <1>3, <1>7, <1>8, <1>9, <1>10, <1>11, <1>12, <2>1, Zenon DEF IdentityTypes
<1>14. UserTasksAsGiven'
  <2>1. \A u : WebhookAsGiven(u) => WebhookAsGiven(u)'
    BY <1>3 DEF WebhookAsGiven
  <2>2. QED
    BY <1>8, <2>1, NoTaskIsNone DEF UsersInv, UserTasksAsGiven
<1>15. wa_loose = {}
  BY <1>1, <1>2, NoTaskIsNone DEF UsersInv, AloneIsAlone
<1>16. AloneIsAlone'
  <2>1. \A r \in Users!Slots, u \in UserTasks : wa_task'[r] = u => wa_task[r] = u
    BY <1>8, NoTaskIsNone
  <2>2. \A r \in Users!Slots : wa_task[r] = Users!NoTask => wa_task'[r] = Users!NoTask
    BY <1>8
  <2>3. QED
    BY <1>3, <1>15, <2>1, <2>2 DEF UsersInv, AloneIsAlone
\* Beside a webhook that is alone there is none.
<1>17. \A r \in Users!Slots, u \in UserTasks : ~(wa_task'[r] = u /\ (u.alone \/ "ann" \in wa_quiet))
  <2>1. SUFFICES ASSUME NEW r \in Users!Slots, NEW u \in UserTasks, wa_task'[r] = u, u.alone
            \/ "ann" \in wa_quiet PROVE FALSE
    OBVIOUS
  <2>2. r # s /\ wa_task[r] = u
    BY <1>8, <2>1, NoTaskIsNone
  <2>3. u.alone
    BY <2>1, <2>2 DEF UsersInv, AloneIsAlone
  <2>4. QED
    BY <1>1, <1>2, <2>2, <2>3, NoTaskIsNone DEF UsersInv, AloneIsAlone
<1>18. t.alone => \A id \in ids : wa_alias[id] = t.user
  BY <1>1, <1>2 DEF UsersInv, LinksAreHealing
<1>19. "ann" \in wa_quiet => t.alone
  BY <1>1, <1>2 DEF UsersInv, AloneIsAlone
<1>20. LinksAreHealing'
  BY <1>3, <1>12, <1>17, <1>18 DEF LinksAreHealing
<1>21. hit /\ "ann" \in wa_quiet => t.user = wa_home["ann"]
  BY <1>1, <1>2, <1>4 DEF UsersInv, ThreadsAreKnown
<1>22. wa_home["ann"] = Users!None => wa_known["ann"] = {}
  BY DEF UsersInv, ThreadsAreKnown
<1>23. t.user # Users!None
  BY <1>2, NoUserIs
\* The thread is home where what was named is known.
<1>24. "ann" \in wa_quiet /\ ids \cap wa_known'["ann"] # {} => t.user = wa_home'["ann"]
  <2>1. SUFFICES ASSUME "ann" \in wa_quiet, ids \cap wa_known'["ann"] # {},
            ~fresh PROVE t.user = wa_home'["ann"]
    BY <1>9
  <2>2. wa_home'["ann"] = wa_home["ann"]
    BY <1>9, <2>1
  <2>3. hit
    BY <1>4, <1>10, <1>22, <2>1, <2>2
  <2>4. QED
    BY <1>21, <2>1, <2>2, <2>3
<1>25. ThreadsAreKnown'
  <2>1. wa_home'["ann"] = Users!None => wa_known'["ann"] = {}
    BY <1>4, <1>9, <1>10, <1>22, <1>23
  <2>2. hit => wa_home'["ann"] # Users!None
    BY <1>4, <1>9, <1>23
  <2>3. "ann" \in wa_quiet /\ hit => t.user = wa_home'["ann"]
    BY <1>4, <1>5, <1>9, <1>21
  <2>4. "ann" \in wa_quiet /\ wa_home'["ann"] # Users!None =>
            \A id \in wa_known'["ann"] : wa_alias[id] = wa_home'["ann"]
    <3>1. SUFFICES ASSUME "ann" \in wa_quiet, wa_home'["ann"] # Users!None,
              NEW id \in wa_known'["ann"] PROVE wa_alias[id] = wa_home'["ann"]
      OBVIOUS
    <3>2. CASE id \in wa_known["ann"]
      <4>1. wa_home'["ann"] = wa_home["ann"]
        BY <1>5, <1>9, <1>22, <3>2
      <4>2. QED
        BY <3>1, <3>2, <4>1 DEF UsersInv, ThreadsAreKnown
    <3>3. CASE id \notin wa_known["ann"]
      <4>1. id \in ids
        BY <1>10, <3>1, <3>3
      <4>2. wa_alias[id] = t.user
        BY <1>18, <1>19, <3>1, <4>1
      <4>3. t.user = wa_home'["ann"]
        BY <1>24, <3>1, <4>1
      <4>4. QED
        BY <4>2, <4>3
    <3>4. QED
      BY <3>2, <3>3
  <2>5. QED
    BY <1>3, <1>12, <1>17, <2>1, <2>2, <2>3, <2>4 DEF ThreadsAreKnown
<1>26. NumbersAreTold'
  <2>1. wa_told => wa_home["ann"] # Users!None /\ ("ann" \in wa_quiet =>
                                                     GoodRoute(wa_route[wa_home["ann"]], wa_era))
    BY DEF UsersInv, NumbersAreTold
  <2>2. wa_told' => wa_home'["ann"] # Users!None
    BY <1>9, <1>11, <1>23, <1>25, <2>1 DEF ThreadsAreKnown
  <2>3. wa_told' /\ "ann" \in wa_quiet => GoodRoute(wa_route[wa_home'["ann"]], wa_era)
    <3>1. CASE wa_told
      BY <1>5, <1>9, <2>1, <3>1
    <3>2. CASE ~wa_told
      <4>1. SUFFICES ASSUME wa_told', "ann" \in wa_quiet PROVE GoodRoute(wa_route[wa_home'["ann"]], wa_era)
        OBVIOUS
      <4>2. t.era = wa_era /\ ids \cap wa_known'["ann"] # {} /\ (t.notice
                                                                   \/ t.fields.phone # Users!None)
        BY <1>11, <3>2, <4>1
      <4>3. GoodRoute(wa_route[t.user], t.era)
        BY <1>1, <1>2, <1>19, <4>1, <4>2 DEF UsersInv, NumbersAreTold
      <4>4. QED
        BY <1>24, <4>1, <4>2, <4>3
    <3>3. QED
      BY <3>1, <3>2
  <2>4. QED
    BY <1>3, <1>17, <2>2, <2>3 DEF NumbersAreTold
<1>27. QED
  BY <1>13, <1>14, <1>16, <1>20, <1>25, <1>26 DEF UsersInv

LEMMA FailsKeeps == ASSUME UsersInv, NEW s \in Users!Slots, Users!Fails(s) PROVE UsersInv'
<1>1. PICK t : t = wa_task[s]
  OBVIOUS
<1>2. t \in UserTasks /\ t.who = "ann"
  <2>1. t \in UserTasks \cup {Users!NoTask} /\ t.pc \in {"aliases", "route", "writing"}
    BY <1>1 DEF Users!Fails, UsersInv, IdentityTypes
  <2>2. QED
    BY <2>1, NoTaskIsNone, UserTaskFields
<1>3. /\ UNCHANGED <<wa_alias, wa_route, wa_pace, wa_era, wa_rotated, wa_home, wa_known,
                      wa_told>> /\ wa_pace = "apart"
      /\ wa_quiet' = wa_quiet \ {"ann"}
      /\ wa_last' = [who |-> "ann", alone |-> FALSE, ids |-> Users!Named(t),
                       user |-> t.fallback, hit |-> FALSE]
      /\ wa_task' = [wa_task EXCEPT ![s] = Users!NoTask]
  BY <1>1, <1>2 DEF Users!Fails, Users!store, Users!truth
<1>4. IdentityTypes
  BY DEF UsersInv
<1>5. wa_loose' \in SUBSET UserWrites
  <2>1. t.writes \in SUBSET UserWrites /\ wa_loose \in SUBSET UserWrites
    BY <1>2, <1>4, UserTaskFields DEF IdentityTypes
  <2>2. wa_loose' = wa_loose \/ \E w \in t.writes : wa_loose' = wa_loose \cup (t.writes \ {w})
    BY <1>1 DEF Users!Fails
  <2>3. QED
    BY <2>1, <2>2
<1>6. \A r \in Users!Slots : wa_task'[r] = Users!NoTask
  <2>1. \A r \in Users!Slots \ {s} : wa_task[r] = Users!NoTask
    BY <1>1, <1>2, <1>3 DEF UsersInv, AloneIsAlone
  <2>2. wa_task \in [Users!Slots -> UserTasks \cup {Users!NoTask}]
    BY <1>4 DEF IdentityTypes
  <2>3. QED
    BY <1>3, <2>1, <2>2
<1>7. wa_task' \in [Users!Slots -> UserTasks \cup {Users!NoTask}]
  BY <1>3, <1>4 DEF IdentityTypes
<1>8. /\ wa_last' \in [who : {Users!None, "ann"}, alone : BOOLEAN, ids : SUBSET Anns,
                         user : AnnsOr, hit : BOOLEAN]
      /\ wa_last'.who = "ann" /\ wa_last'.alone = FALSE /\ wa_last'.hit = FALSE
  <2>1. Users!Named(t) \in SUBSET Anns /\ t.fallback \in AnnsOr
    BY <1>2, PlacesAre, UserTaskFields DEF AnnsOr
  <2>2. PICK named : named = Users!Named(t)
    OBVIOUS
  <2>3. wa_last' = [who |-> "ann", alone |-> FALSE, ids |-> named, user |-> t.fallback,
                      hit |-> FALSE]
    BY <1>3, <2>2
  <2>4. QED
    BY <2>1, <2>2, <2>3
<1>9. wa_quiet' \in SUBSET Users!User /\ "ann" \notin wa_quiet'
  BY <1>3, <1>4 DEF IdentityTypes
<1>10. IdentityTypes'
  <2>1. wa_last'.user # Users!None \/ wa_last'.hit \/ wa_last'.alone => wa_last'.who = "ann"
    BY <1>8
  <2>2. QED
    BY <1>3, <1>4, <1>5, <1>7, <1>8, <1>9, <2>1, Zenon DEF IdentityTypes
<1>11. \A r \in Users!Slots, u \in UserTasks : wa_task'[r] # u
  BY <1>6, NoTaskIsNone
<1>12. UserTasksAsGiven'
  BY <1>11 DEF UserTasksAsGiven
<1>13. AloneIsAlone'
  BY <1>3, <1>6, <1>8, <1>9, <1>11 DEF AloneIsAlone
<1>14. LinksAreHealing'
  BY <1>8, <1>11 DEF LinksAreHealing
<1>15. ThreadsAreKnown'
  BY <1>3, <1>8, <1>9, <1>11 DEF UsersInv, ThreadsAreKnown
<1>16. NumbersAreTold'
  BY <1>3, <1>9, <1>11 DEF UsersInv, NumbersAreTold
<1>17. QED
  BY <1>10, <1>12, <1>13, <1>14, <1>15, <1>16 DEF UsersInv

LEMMA IdentitiesInitially == Users!Init => UsersInv
<1> SUFFICES ASSUME Users!Init PROVE UsersInv
  OBVIOUS
<1>1. PICK all \in {{}, {"pa0", "ba0", Users!Parent("ann", 0)} \ {Users!None}} :
          /\ wa_alias = [id \in Users!Ids |-> IF id \in all THEN "pa0" ELSE Users!None]
          /\ wa_route = [id \in Users!Ids |-> IF id = "pa0" /\ all # {}
                                       THEN [phone |-> "pa0", bsuid |-> "ba0",
                                               parent |-> Users!Parent("ann", 0)] ELSE Users!EmptyRoute]
          /\ wa_home = [w \in Users!User |-> IF w = "ann" /\ all # {} THEN "pa0" ELSE Users!None]
          /\ wa_known = [w \in Users!User |-> IF w = "ann" THEN all ELSE {}]
  BY DEF Users!Init
<1>2. /\ wa_pace \in {"apart", "together"} /\ wa_era = 0 /\ wa_rotated \in BOOLEAN
      /\ wa_task = [s \in Users!Slots |-> Users!NoTask] /\ wa_loose = {}
      /\ wa_quiet = Users!User /\ wa_told = FALSE
      /\ wa_last = [who |-> Users!None, alone |-> FALSE, ids |-> {}, user |-> Users!None,
                      hit |-> FALSE]
  BY DEF Users!Init
<1>3. PICK q : q = Users!Parent("ann", 0)
  OBVIOUS
<1>4. q \in AnnsOr
  BY <1>3, AnnsIdentifiers DEF AnnsOr, Anns
<1>5. all \subseteq Anns
  BY <1>1, <1>3, <1>4 DEF Anns, AnnsOr
<1>6. IdentityTypes
  <2>1. wa_alias \in [Users!Ids -> AnnsOr] /\ wa_alias["pb"] = Users!None
            /\ wa_alias["bb"] = Users!None
    BY <1>1, <1>5 DEF Users!Ids, AnnsOr, Anns
  <2>2. wa_route \in [Users!Ids -> AnnsRoutes] /\ wa_route["pb"] = Users!EmptyRoute
            /\ wa_route["bb"] = Users!EmptyRoute
    <3>1. PICK e, r : e = Users!EmptyRoute /\ r = [phone |-> "pa0", bsuid |-> "ba0", parent |-> q]
      OBVIOUS
    <3>2. e \in AnnsRoutes
      BY <3>1, EmptyIs
    <3>3. r \in AnnsRoutes
      BY <1>4, <3>1 DEF AnnsRoutes, AnnsOr, Anns
    <3>4. wa_route = [id \in Users!Ids |-> IF id = "pa0" /\ all # {} THEN r ELSE e]
      BY <1>1, <1>3, <3>1
    <3>5. "pb" \in Users!Ids /\ "bb" \in Users!Ids
      BY DEF Users!Ids
    <3>6. QED
      BY <3>1, <3>2, <3>3, <3>4, <3>5
  <2>3. /\ wa_home \in [Users!User -> AnnsOr] /\ wa_home["bob"] = Users!None
        /\ wa_known \in [Users!User -> SUBSET Anns] /\ wa_known["bob"] = {}
    BY <1>1, <1>5 DEF Users!User, AnnsOr, Anns
  <2>4. wa_task \in [Users!Slots -> UserTasks \cup {Users!NoTask}]
            /\ wa_loose \in SUBSET UserWrites /\ wa_quiet \in SUBSET Users!User
    BY <1>2
  <2>5. wa_told \in BOOLEAN
    BY <1>2, Zenon
  <2>6. wa_last \in [who : {Users!None, "ann"}, alone : BOOLEAN, ids : SUBSET Anns,
                       user : AnnsOr, hit : BOOLEAN]
        /\ wa_last.user = Users!None /\ wa_last.hit = FALSE /\ wa_last.alone = FALSE
    BY <1>2 DEF AnnsOr
  <2>7. wa_era \in 0 .. 1
    BY <1>2
  <2>8. (wa_last.user # Users!None \/ wa_last.hit \/ wa_last.alone) => wa_last.who = "ann"
    BY <2>6
  <2>9. QED
    BY <1>2, <2>1, <2>2, <2>3, <2>4, <2>5, <2>6, <2>7, <2>8, Zenon DEF IdentityTypes
<1>7. \A s \in Users!Slots, t \in UserTasks : wa_task[s] # t
  BY <1>2, NoTaskIsNone
<1>8. UserTasksAsGiven
  BY <1>7 DEF UserTasksAsGiven
<1>9. AloneIsAlone
  BY <1>2, <1>7 DEF AloneIsAlone
<1>10. LinksAreHealing
  BY <1>2, <1>7 DEF LinksAreHealing
<1>11. ThreadsAreKnown
  <2>1. wa_home["ann"] = (IF all # {} THEN "pa0" ELSE Users!None) /\ wa_known["ann"] = all
    BY <1>1 DEF Users!User
  <2>2. \A id \in all : wa_alias[id] = "pa0"
    BY <1>1, <1>5, NoUserIs
  <2>3. wa_last.hit = FALSE
    BY <1>2
  <2>4. (wa_home["ann"] = Users!None => wa_known["ann"] = {})
        /\ (wa_home["ann"] # Users!None => \A id \in wa_known["ann"] : wa_alias[id] = wa_home["ann"])
    BY <2>1, <2>2 DEF Users!None
  <2>5. QED
    BY <1>7, <2>3, <2>4 DEF ThreadsAreKnown
<1>12. NumbersAreTold
  BY <1>2, <1>7 DEF NumbersAreTold
<1>13. QED
  BY <1>6, <1>8, <1>9, <1>10, <1>11, <1>12 DEF UsersInv

LEMMA IdentitiesStep == ASSUME UsersInv, [Users!Next]_Users!vars PROVE UsersInv'
BY IdentitiesStutter, ChangeKeeps, WriteLooseKeeps, ReceiveKeeps, ReadAliasesKeeps,
ReadRouteKeeps, WriteKeeps,
   LinkedKeeps, FailsKeeps DEF Users!Next

LEMMA IdentitiesFollow == ASSUME UsersInv PROVE Users!UsersKeepTheirThread
<1>1. IdentityTypes
  BY DEF UsersInv
<1>2. Users!UsersStayApart
  <2>1. \A id \in Users!Ids : wa_alias[id] # Users!None =>
            Users!Owner(wa_alias[id]) = Users!Owner(id)
    BY <1>1, NoUserIs DEF IdentityTypes, AnnsOr
  <2>2. wa_last.user # Users!None => Users!Owner(wa_last.user) = wa_last.who
    <3>1. wa_last.user \in AnnsOr
      BY <1>1 DEF IdentityTypes
    <3>2. QED
      BY <1>1, <3>1, NoUserIs DEF IdentityTypes, AnnsOr
  <2>3. \A user \in Users!Ids : {Users!Owner(id) : id \in {Users!Recipient(user).to,
                                                             Users!Recipient(user).recipient} \ {Users!None}} = {Users!Owner(user)}
    <3>1. TAKE user \in Users!Ids
    <3>2. PICK r : r = wa_route[user]
      OBVIOUS
    <3>3. r \in AnnsRoutes /\ (user \notin Anns => r = Users!EmptyRoute)
      BY <1>1, <3>2, NoUserIs DEF IdentityTypes
    <3>4. PICK id : id = Users!First(r.bsuid, r.parent)
      OBVIOUS
    <3>5. r.phone \in AnnsOr /\ id \in AnnsOr
      BY <3>3, <3>4, FirstOfUsers DEF AnnsRoutes
    <3>6. user \notin Anns => r.phone = Users!None /\ id = Users!None
      BY <3>3, <3>4, EmptyIs, FirstOfUsers
    <3>7. PICK to, at : to = Users!Recipient(user).to /\ at = Users!Recipient(user).recipient
      OBVIOUS
    <3>8. \/ (r.phone # Users!None \/ id # Users!None) /\ to = r.phone /\ at = id
          \/ to = user /\ at = Users!None
          \/ to = Users!None /\ at = user
      BY <3>2, <3>4, <3>7 DEF Users!Recipient
    <3>9. (to # Users!None \/ at # Users!None)
              /\ (\A x \in {to, at} \ {Users!None} : Users!Owner(x) = Users!Owner(user))
      BY <3>5, <3>6, <3>8, NoUserIs DEF AnnsOr
    <3>10. {Users!Owner(x) : x \in {to, at} \ {Users!None}} = {Users!Owner(user)}
      BY <3>9
    <3>11. QED
      BY <3>7, <3>10
  <2>4. QED
    BY <2>1, <2>2, <2>3 DEF Users!UsersStayApart
<1>3. Users!ThreadsAreKept
  <2>1. \A w \in wa_quiet : w = "ann" \/ w = "bob"
    BY <1>1 DEF IdentityTypes, Users!User
  <2>2. wa_home["bob"] = Users!None /\ (wa_last.hit => wa_last.who = "ann")
    BY <1>1 DEF IdentityTypes
  <2>3. QED
    BY <2>1, <2>2 DEF UsersInv, ThreadsAreKnown, Users!ThreadsAreKept
<1>4. Users!OldNumbersAreForgotten
  <2>1. SUFFICES ASSUME "ann" \in wa_quiet, wa_told, wa_home["ann"] # Users!None
                 PROVE  Users!Recipient(wa_home["ann"]).to \in {Users!None, Users!Phone("ann", wa_era)}
    BY DEF Users!OldNumbersAreForgotten
  <2>2. PICK user, r : user = wa_home["ann"] /\ r = wa_route[user]
    OBVIOUS
  <2>3. GoodRoute(r, wa_era)
    BY <2>1, <2>2 DEF UsersInv, NumbersAreTold
  <2>4. r.phone # Users!None \/ Users!First(r.bsuid, r.parent) # Users!None
    BY <2>3, FirstOfUsers DEF GoodRoute
  <2>5. Users!Recipient(user).to = r.phone
    BY <2>2, <2>4 DEF Users!Recipient
  <2>6. QED
    BY <2>2, <2>3, <2>5 DEF GoodRoute
<1>5. Users!LinksHeal
  <2>1. SUFFICES ASSUME wa_last.alone, ~Users!Busy(wa_last.who) PROVE \A id \in wa_last.ids : wa_alias[id] = wa_last.user
    BY DEF Users!LinksHeal
  <2>2. wa_last.who = "ann"
    BY <1>1, <2>1 DEF IdentityTypes
  <2>3. \A s \in Users!Slots : wa_task[s] = Users!NoTask
    BY <1>1, <2>1, <2>2, BusyUsers
  <2>4. QED
    BY <2>1, <2>3 DEF UsersInv, LinksAreHealing
<1>6. QED
  BY <1>2, <1>3, <1>4, <1>5 DEF Users!UsersKeepTheirThread

-----------------------------------------------------------------------------
(* What holds of the run, by the invariants above and in ConversationProofs: *)
(* each part takes its own steps, and the others leave it alone.             *)

\* The part of the run that is webhooks.
LEMMA RequestsOfTheRun == ConversationSpec => Requests!Init /\ [][Requests!Next]_Requests!vars
<1>1. ConversationInit => Requests!Init
  BY DEF ConversationInit
<1>2. [ConversationNext]_<<part, vars, walkVars, postVars, inVars, webVars, wsVars, dlVars, qfVars,
        cardVars, agVars, ownVars, mdVars, waVars>> => [Requests!Next]_Requests!vars
  BY DEF ConversationNext, webVars, Requests!vars
<1>3. QED
  BY <1>1, <1>2, PTL DEF ConversationSpec

\* The part of the run that is events and their threads.
LEMMA IncomingOfTheRun == ConversationSpec => Incoming!Init /\ [][Incoming!Next]_Incoming!vars
<1>1. ConversationInit => Incoming!Init
  BY DEF ConversationInit
<1>2. [ConversationNext]_<<part, vars, walkVars, postVars, inVars, webVars, wsVars, dlVars, qfVars,
        cardVars, agVars, ownVars, mdVars, waVars>> => [Incoming!Next]_Incoming!vars
  BY DEF ConversationNext, inVars, Incoming!vars
<1>3. QED
  BY <1>1, <1>2, PTL DEF ConversationSpec

\* The part of the run that is a guarded download.
LEMMA GuardedOfTheRun == ConversationSpec => Guarded!Init /\ [][Guarded!Next]_Guarded!vars
<1>1. ConversationInit => Guarded!Init
  BY DEF ConversationInit
<1>2. [ConversationNext]_<<part, vars, walkVars, postVars, inVars, webVars, wsVars, dlVars, qfVars,
        cardVars, agVars, ownVars, mdVars, waVars>> => [Guarded!Next]_Guarded!vars
  BY DEF ConversationNext, dlVars, Guarded!vars
<1>3. QED
  BY <1>1, <1>2, PTL DEF ConversationSpec

\* The part of the run that is the files of a queued message.
LEMMA QueuedOfTheRun == ConversationSpec => Queued!Init /\ [][Queued!Next]_Queued!vars
<1>1. ConversationInit => Queued!Init
  BY DEF ConversationInit
<1>2. [ConversationNext]_<<part, vars, walkVars, postVars, inVars, webVars, wsVars, dlVars, qfVars,
        cardVars, agVars, ownVars, mdVars, waVars>> => [Queued!Next]_Queued!vars
  BY DEF ConversationNext, qfVars, Queued!vars
<1>3. QED
  BY <1>1, <1>2, PTL DEF ConversationSpec

\* The part of the run that is Slack's workspaces.
LEMMA WorkspacesOfTheRun == ConversationSpec => Workspaces!Init /\ [][Workspaces!Next]_Workspaces!vars
<1>1. ConversationInit => Workspaces!Init
  BY DEF ConversationInit
<1>2. [ConversationNext]_<<part, vars, walkVars, postVars, inVars, webVars, wsVars, dlVars, qfVars,
        cardVars, agVars, ownVars, mdVars, waVars>> => [Workspaces!Next]_Workspaces!vars
  BY DEF ConversationNext, wsVars, Workspaces!vars
<1>3. QED
  BY <1>1, <1>2, PTL DEF ConversationSpec

\* The part of the run that is the tools of agents.
LEMMA AgentsOfTheRun == ConversationSpec => Agents!Init /\ [][Agents!Next]_Agents!vars
<1>1. ConversationInit => Agents!Init
  BY DEF ConversationInit
<1>2. [ConversationNext]_<<part, vars, walkVars, postVars, inVars, webVars, wsVars, dlVars, qfVars,
        cardVars, agVars, ownVars, mdVars, waVars>> => [Agents!Next]_Agents!vars
  BY DEF ConversationNext, agVars, Agents!vars
<1>3. QED
  BY <1>1, <1>2, PTL DEF ConversationSpec

\* The part of the run that is the objects that were restored.
LEMMA RevivedOfTheRun == ConversationSpec => Revived!Init /\ [][Revived!Next]_Revived!vars
<1>1. ConversationInit => Revived!Init
  BY DEF ConversationInit
<1>2. [ConversationNext]_<<part, vars, walkVars, postVars, inVars, webVars, wsVars, dlVars, qfVars,
        cardVars, agVars, ownVars, mdVars, waVars>> => [Revived!Next]_Revived!vars
  BY DEF ConversationNext, ownVars, Revived!vars
<1>3. QED
  BY <1>1, <1>2, PTL DEF ConversationSpec

\* The part of the run that is WhatsApp's users.
LEMMA UsersOfTheRun == ConversationSpec => Users!Init /\ [][Users!Next]_Users!vars
<1>1. ConversationInit => Users!Init
  BY DEF ConversationInit
<1>2. [ConversationNext]_<<part, vars, walkVars, postVars, inVars, webVars, wsVars, dlVars, qfVars,
        cardVars, agVars, ownVars, mdVars, waVars>> => [Users!Next]_Users!vars
  BY DEF ConversationNext, waVars, Users!vars, Users!store, Users!truth, Users!history
<1>3. QED
  BY <1>1, <1>2, PTL DEF ConversationSpec

\* However the deliveries of a batch overlap, repeat and fail, on every route: what is
\* acknowledged was handled, what is refused left no trace, what Telegram claims is
\* handed over once, and the bridge keeps the options of the deliveries apart.
THEOREM WebhooksAreFaithful == ConversationSpec => []WebhooksKeepFaith
<1>1. WebInv => WebhooksKeepFaith
  BY WebIsFaithful DEF WebhooksKeepFaith
<1>2. QED
  BY RequestsOfTheRun, WebInit, WebStep, <1>1, PTL

\* On every platform, however long the conversation and whatever is edited or arrives
\* before a post has returned: the bot answers none of its own words, unless its adapter
\* did not know its id when they arrived, and is Linear's, or GitHub's that asked in
\* vain before any post had returned.
THEOREM BotsIgnoreThemselves == ConversationSpec => []OwnWordsAreIgnored
<1>1. IngressInv => OwnWordsAreIgnored
  BY IngressFollows DEF OwnWordsAreIgnored
<1>2. QED
  BY IncomingOfTheRun, IngressInitially, IngressStep, <1>1, PTL

\* On every platform and however long the conversation, with any number of tasks, calls,
\* steps, webhooks and failures: the events about a message that can know its thread agree
\* on it and a subscriber hears it; an agent's tools stay in the conversation its handler
\* is for; a thread that was restored is its own Chat's; and a WhatsApp user stays in one
\* thread, apart from the others.
THEOREM EventsShareTheirThread == ConversationSpec => []EventsFindTheirThread
<1>1. IngressInv /\ AgentInv /\ OwnershipInv /\ UsersInv => EventsFindTheirThread
  BY IngressFollows, AgentsFollow, OwnershipFollows, IdentitiesFollow DEF EventsFindTheirThread
<1>2. ConversationSpec => []IngressInv
  BY IncomingOfTheRun, IngressInitially, IngressStep, PTL
<1>3. ConversationSpec => []AgentInv
  BY AgentsOfTheRun, AgentsInitially, AgentsStep, PTL
<1>4. ConversationSpec => []OwnershipInv
  BY RevivedOfTheRun, OwnershipInitially, OwnershipStep, PTL
<1>5. ConversationSpec => []UsersInv
  BY UsersOfTheRun, IdentitiesInitially, IdentitiesStep, PTL
<1>6. QED
  BY <1>1, <1>2, <1>3, <1>4, <1>5, PTL

\* For every limit, and any number of redirects, failures, changed installations and
\* requests at once: a download asks only vetted hosts, in time and within its limits;
\* a queued file is fetched with the credentials of its own workspace; and the tokens,
\* names and mentions of Slack's workspaces do not mix.
THEOREM CredentialsAreKeptHome == ConversationSpec => []CredentialsStayHome
<1>1. DownloadInv /\ FilesInv /\ SlackInv => CredentialsStayHome
  BY DownloadFollows, FilesFollow, WsFollow DEF CredentialsStayHome
<1>2. ConversationSpec => []DownloadInv
  BY GuardedOfTheRun, DownloadInitially, DownloadStep, PTL
<1>3. ConversationSpec => []FilesInv
  BY QueuedOfTheRun, FilesInitially, FilesStep, PTL
<1>4. ConversationSpec => []SlackInv
  BY WorkspacesOfTheRun, WsInit, WsStep, PTL
<1>5. QED
  BY <1>1, <1>2, <1>3, <1>4, PTL
=============================================================================
