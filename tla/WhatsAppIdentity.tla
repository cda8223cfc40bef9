-------------------------- MODULE WhatsAppIdentity --------------------------
(* Whose thread a WhatsApp message belongs to (whatsapp/adapter.py): a user is   *)
(* known by a phone number, a business-scoped id and its parent, any of which a  *)
(* webhook may leave out and a change of number replaces.  Aliases lead from     *)
(* each to one of them, which names the thread; a route says what to write to.   *)
(* Both are kept in the state backend, read and written without a lock.          *)
EXTENDS Integers, FiniteSets, Sequences

CONSTANTS
    MaxEvents,  \* bound on the webhooks; one more where they overlap
    MaxFaults   \* bound on failing state calls

VARIABLES
    alias, route,  \* the stored state
    pace,          \* whether webhooks overlap
    era, rotated,  \* how often the first user's number changed, and whether the ids did
    task,          \* the webhooks at work
    loose,         \* writes that nobody waits for any more
    quiet,         \* history: the users whose webhooks came one at a time, in order, and did neither fail nor stray
    home, known,   \* history: a user's thread, and what is known to lead there
    told,          \* history: the adapter was told the current number
    last,          \* history: what the last webhook came to
    events, faults

store == <<alias, route>>
truth == <<pace, era, rotated>>
history == <<quiet, home, known, told>>
vars == <<store, truth, task, loose, history, last, events, faults>>

None == "none"
User == {"ann", "bob"}
Ids == {"pa0", "pa1", "ba0", "ba1", "ea0", "ea1", "pb", "bb"}
Owner(id) == IF id \in {"pb", "bb"} THEN "bob" ELSE "ann"

\* A user's identifiers in an era of the number.
Phone(who, e) == IF who = "bob" THEN "pb" ELSE IF e = 0 THEN "pa0" ELSE "pa1"
Bsuid(who, e) == IF who = "bob" THEN "bb" ELSE IF e = 0 \/ ~rotated THEN "ba0" ELSE "ba1"
Parent(who, e) == IF who = "bob" \/ pace = "together" THEN None ELSE IF e = 0 \/ ~rotated THEN "ea0" ELSE "ea1"

EmptyRoute == [bsuid |-> None, parent |-> None, phone |-> None]
NoTask == [pc |-> "idle"]
Slots == {1, 2}

Bound == IF pace = "apart" THEN MaxEvents ELSE MaxEvents + 1

First(a, b) == IF a # None THEN a ELSE b

Init ==
    /\ pace \in {"apart", "together"} /\ era = 0 /\ rotated \in (IF pace = "apart" THEN BOOLEAN ELSE {FALSE})
    \* Nothing is stored, or what a first message that named all has left.
    /\ \E all \in {{}, {"pa0", "ba0", Parent("ann", 0)} \ {None}} :
          /\ alias = [id \in Ids |-> IF id \in all THEN "pa0" ELSE None]
          /\ route = [id \in Ids |-> IF id = "pa0" /\ all # {}
                                       THEN [phone |-> "pa0", bsuid |-> "ba0", parent |-> Parent("ann", 0)] ELSE EmptyRoute]
          /\ home = [w \in User |-> IF w = "ann" /\ all # {} THEN "pa0" ELSE None]
          /\ known = [w \in User |-> IF w = "ann" THEN all ELSE {}]
    /\ task = [s \in Slots |-> NoTask] /\ loose = {} /\ quiet = User /\ told = FALSE
    /\ last = [who |-> None, alone |-> FALSE, ids |-> {}, user |-> None, hit |-> FALSE]
    /\ events = 0 /\ faults = 0

\* The number changes, and the ids perhaps with it.
Change ==
    /\ pace = "apart" /\ era = 0
    /\ era' = 1 /\ told' = FALSE
    /\ UNCHANGED <<store, pace, rotated, task, loose, quiet, home, known, last, events, faults>>

----------------------------------------------------------------------------
(* What a webhook says of its sender *)

\* What a message or a notice shows of a user.
Shown(who, e) ==
    LET all == [phone |-> Phone(who, e), bsuid |-> Bsuid(who, e), parent |-> Parent(who, e)]
    IN  {EmptyRoute, [EmptyRoute EXCEPT !.phone = all.phone], [EmptyRoute EXCEPT !.bsuid = all.bsuid],
         [all EXCEPT !.parent = None], all}

\* Mutant (UsersStayApart): else the first one.
MutMatchContact(own, contacts) ==
    LET matches(c) == \/ own.bsuid # None /\ c.bsuid = own.bsuid
                      \/ own.parent # None /\ c.parent = own.parent
                      \/ own.phone # None /\ c.phone = own.phone
    IN  IF \E i \in DOMAIN contacts : matches(contacts[i])
          THEN contacts[CHOOSE i \in DOMAIN contacts : matches(contacts[i]) /\ \A j \in 1 .. i - 1 : ~matches(contacts[j])]
        ELSE IF contacts # <<>> THEN contacts[1]
        ELSE EmptyRoute

\* _match_contact
MatchContact(own, contacts) ==
    LET matches(c) == \/ own.bsuid # None /\ c.bsuid = own.bsuid
                      \/ own.parent # None /\ c.parent = own.parent
                      \/ own.phone # None /\ c.phone = own.phone
    IN  IF \E i \in DOMAIN contacts : matches(contacts[i])
          THEN contacts[CHOOSE i \in DOMAIN contacts : matches(contacts[i]) /\ \A j \in 1 .. i - 1 : ~matches(contacts[j])]
        ELSE IF own = EmptyRoute /\ Len(contacts) = 1 THEN contacts[1]
        ELSE EmptyRoute

\* _fields
Fields(own, contact) ==
    [phone |-> First(own.phone, contact.phone), bsuid |-> First(own.bsuid, contact.bsuid),
     parent |-> First(own.parent, contact.parent)]

UserId(f) == First(f.phone, First(f.bsuid, f.parent))

\* What _link is called with: the identifiers in their order, where those that are
\* missing count for nothing, the thread where none of them has an alias, what the
\* route learns, and whether a number that is left out is taken away.
Link(who, e, ids, fallback, fields, notice, clears) ==
    [pc |-> "aliases", who |-> who, era |-> e, ids |-> ids, fallback |-> fallback,
     fields |-> fields, notice |-> notice, clears |-> clears, got |-> <<>>, user |-> None, path |-> EmptyRoute, writes |-> {},
     alone |-> TRUE]

\* Where an identifier is, and which there are.
Places(t) == {i \in DOMAIN t.ids : t.ids[i] # None}
Named(t)  == {t.ids[i] : i \in Places(t)}

\* All that a contact of a batch says; the batches a message of the first user comes
\* in: without contacts, with its own, with another sender's before its own.
Whole(who, e) == [phone |-> Phone(who, e), bsuid |-> Bsuid(who, e), parent |-> Parent(who, e)]
Batches(e) == {<<>>, <<Whole("ann", e)>>, <<Whole("bob", 0), Whole("ann", e)>>}

LinkMessage(e, own, contacts) ==
    LET f == Fields(own, MatchContact(own, contacts))
    IN  Link("ann", e, <<f.bsuid, f.parent, f.phone>>, UserId(f), f, FALSE, FALSE)

MessagesOf(e) == {LinkMessage(e, own, contacts) : own \in Shown("ann", e), contacts \in Batches(e)}

\* A message of the first user, perhaps a late one.
FromMessages == {t \in UNION {MessagesOf(e) : e \in 0 .. era} : t.fallback # None}

\* What a notice of the first user's change says that is new.
News == {f \in Shown("ann", 1) : era = 1 /\ f # EmptyRoute}

\* Mutant (ThreadsAreKept): the number it was sent from comes last.
MutLinkSystem(source, new) ==
    Link("ann", 1, <<new.bsuid, new.parent, new.phone, source>>, First(source, UserId(new)), new, TRUE, TRUE)

\* A system message, sent from the old number if from one, with what is new.
LinkSystem(source, new) ==
    Link("ann", 1, <<source, new.bsuid, new.parent, new.phone>>, First(source, UserId(new)), new, TRUE, TRUE)

FromSystem == {LinkSystem(source, new) : source \in {None, Phone("ann", 0)}, new \in News}

\* Mutant (OldNumbersAreForgotten): a number that is left out is kept.
MutLinkUpdate(old, new) ==
    Link("ann", 1, <<Bsuid("ann", 0), old, new.bsuid, new.parent, new.phone>>, Bsuid("ann", 0), new, TRUE, FALSE)

\* _handle_user_id_update, when the ids changed with the number.
LinkUpdate(old, new) ==
    Link("ann", 1, <<Bsuid("ann", 0), old, new.bsuid, new.parent, new.phone>>, Bsuid("ann", 0), new, TRUE, TRUE)

FromUpdates ==
    {LinkUpdate(old, new) : old \in {None, Parent("ann", 0)}, new \in {f \in News : rotated /\ f.bsuid # None}}

----------------------------------------------------------------------------
(* _link *)

Busy(who) == (\E s \in Slots : task[s].pc # "idle" /\ task[s].who = who) \/ \E w \in loose : Owner(w.at) = who

\* The identifier that is meant to say first who it is: what a notice says it was
\* before the change, else an id, which a change of number leaves alone.
Surest(t) ==
    IF t.notice /\ t.fallback \in {Phone(t.who, 0), Bsuid(t.who, 0), Parent(t.who, 0)}
      THEN t.fallback ELSE First(t.fields.bsuid, t.fields.parent)

\* What names the user names one too that began another thread, and the surest
\* does not settle it.
Strays(t) ==
    /\ home[t.who] # None /\ Named(t) \cap known[t.who] # {}
    /\ \E id \in Named(t) : alias[id] \notin {None, home[t.who]}
    /\ Surest(t) # None => alias[Surest(t)] # home[t.who]

Receive(s) ==
    /\ task[s].pc = "idle" /\ events < Bound /\ events' = events + 1
    /\ \A r \in Slots : task[r].pc = "idle" => s <= r
    /\ pace = "apart" => loose = {} /\ \A r \in Slots : task[r].pc = "idle"
    /\ \E t \in FromMessages \cup FromSystem \cup FromUpdates :
          /\ task' = [r \in Slots |-> IF r = s THEN [t EXCEPT !.alone = ~Busy(t.who)]
                                      ELSE IF task[r].pc # "idle" /\ task[r].who = t.who THEN [task[r] EXCEPT !.alone = FALSE]
                                      ELSE task[r]]
          /\ quiet' = IF Busy(t.who) \/ t.era < era \/ Strays(t) THEN quiet \ {t.who} ELSE quiet
          /\ told' = (told /\ t.era = era)
    /\ UNCHANGED <<store, truth, loose, home, known, last, faults>>

\* The aliases are looked up together.
ReadAliases(s) ==
    /\ task[s].pc = "aliases"
    /\ task' = [task EXCEPT ![s].pc = "route", ![s].got = [i \in Places(task[s]) |-> alias[task[s].ids[i]]]]
    /\ UNCHANGED <<store, truth, loose, history, last, events, faults>>

\* The first alias in the order of the list names the thread.
Canonical(t) ==
    LET found == {i \in Places(t) : t.got[i] # None}
    IN  IF found = {} THEN t.fallback ELSE t.got[CHOOSE i \in found : \A j \in found : i <= j]

\* merge: what is said wins; a change that leaves the number out takes it away.
Merged(t) ==
    [bsuid |-> First(t.fields.bsuid, t.path.bsuid), parent |-> First(t.fields.parent, t.path.parent),
     phone |-> IF t.clears THEN t.fields.phone ELSE First(t.fields.phone, t.path.phone)]

\* Mutant (LinksHeal): only what had no alias is given one.
MutWrites(t) ==
    {[at |-> t.ids[i], is |-> "alias", to |-> t.user, route |-> EmptyRoute] : i \in {i \in Places(t) : t.got[i] = None}}
    \cup (IF Merged(t) = t.path THEN {} ELSE {[at |-> t.user, is |-> "route", to |-> None, route |-> Merged(t)]})

\* Only what differs is written.
Writes(t) ==
    {[at |-> t.ids[i], is |-> "alias", to |-> t.user, route |-> EmptyRoute] : i \in {i \in Places(t) : t.got[i] # t.user}}
    \cup (IF Merged(t) = t.path THEN {} ELSE {[at |-> t.user, is |-> "route", to |-> None, route |-> Merged(t)]})

Stored(writes) ==
    /\ alias' = [id \in Ids |-> IF \E w \in writes : w.is = "alias" /\ w.at = id
                                 THEN (CHOOSE w \in writes : w.is = "alias" /\ w.at = id).to ELSE alias[id]]
    /\ route' = [id \in Ids |-> IF \E w \in writes : w.is = "route" /\ w.at = id
                                 THEN (CHOOSE w \in writes : w.is = "route" /\ w.at = id).route ELSE route[id]]

\* The route is read, and the writing begins.
ReadRoute(s) ==
    /\ task[s].pc = "route"
    /\ LET user  == Canonical(task[s])
           found == [task[s] EXCEPT !.user = user, !.path = route[user]]
       IN  task' = [task EXCEPT ![s] = [found EXCEPT !.pc = "writing", !.writes = Writes(found), !.got = <<>>, !.path = EmptyRoute]]
    /\ UNCHANGED <<store, truth, loose, history, last, events, faults>>

\* The writes land one by one; where nobody looks meanwhile, at once.
Write(s) ==
    /\ task[s].pc = "writing" /\ task[s].writes # {}
    /\ \E W \in IF pace = "apart" THEN {task[s].writes} ELSE {{w} : w \in task[s].writes} :
          Stored(W) /\ task' = [task EXCEPT ![s].writes = @ \ W]
    /\ UNCHANGED <<truth, loose, history, last, events, faults>>

WriteLoose ==
    /\ \E w \in loose : Stored({w}) /\ loose' = loose \ {w}
    /\ UNCHANGED <<truth, task, history, last, events, faults>>

\* Everything the webhook named now leads to its thread.  A message that names
\* all a user has makes that the user's, unless another part of the user has one.
Linked(s) ==
    LET t     == task[s]
        w     == t.who
        ids   == Named(t)
        hit   == home[w] # None /\ ids \cap known[w] # {}
        whole == {Phone(w, era), Bsuid(w, era), Parent(w, era)} \ {None} \subseteq ids
        sole  == \A id \in Ids : Owner(id) = w => alias[id] \in {None, t.user}
    IN  /\ t.pc = "writing" /\ t.writes = {}
        /\ home' = IF home[w] = None /\ whole /\ sole THEN [home EXCEPT ![w] = t.user] ELSE home
        /\ known' = IF hit \/ home'[w] # home[w] THEN [known EXCEPT ![w] = @ \cup ids] ELSE known
        /\ told' = (told \/ (t.era = era /\ ids \cap known'[w] # {} /\ (t.notice \/ t.fields.phone # None)))
        /\ last' = [who |-> w, alone |-> t.alone, ids |-> ids, user |-> t.user, hit |-> hit]
        /\ task' = [task EXCEPT ![s] = NoTask]
        /\ UNCHANGED <<store, truth, loose, quiet, events, faults>>

\* A failing call: the thread is the one the webhook alone suggests; what was
\* being written goes on without it.
Fails(s) ==
    LET t == task[s]
    IN  /\ pace = "apart" /\ faults < MaxFaults /\ faults' = faults + 1
        /\ \/ t.pc \in {"aliases", "route"} /\ UNCHANGED loose
           \/ t.pc = "writing" /\ \E w \in t.writes : loose' = loose \cup (t.writes \ {w})
        /\ quiet' = quiet \ {t.who}
        /\ last' = [who |-> t.who, alone |-> FALSE, ids |-> Named(t), user |-> t.fallback, hit |-> FALSE]
        /\ task' = [task EXCEPT ![s] = NoTask]
        /\ UNCHANGED <<store, truth, home, known, told, events>>

Next ==
    \/ Change \/ WriteLoose
    \/ \E s \in Slots : Receive(s) \/ ReadAliases(s) \/ ReadRoute(s) \/ Write(s) \/ Linked(s) \/ Fails(s)
    \/ (events = Bound /\ (\A s \in Slots : task[s].pc = "idle") /\ loose = {} /\ UNCHANGED vars)

Spec == Init /\ [][Next]_vars

----------------------------------------------------------------------------
(* Properties *)

\* _recipient, of a thread: its route if that leads anywhere.
Recipient(user) ==
    LET r == route[user]
        id == First(r.bsuid, r.parent)
    IN  IF r.phone # None \/ id # None THEN [to |-> r.phone, recipient |-> id]
        ELSE IF user \in {"pa0", "pa1", "pb"} THEN [to |-> user, recipient |-> None] ELSE [to |-> None, recipient |-> user]

TypeOK ==
    /\ \A id \in Ids : alias[id] \in Ids \cup {None}
    /\ \A w \in loose : w.at \in Ids /\ w.is \in {"alias", "route"}
    /\ era \in 0 .. 1 /\ events \in 0 .. Bound /\ faults \in 0 .. MaxFaults

\* No message lands in the thread of another user, and no reply goes to one,
\* however webhooks overlap and whichever batch a contact came in.
UsersStayApart ==
    /\ \A id \in Ids : alias[id] # None => Owner(alias[id]) = Owner(id)
    /\ last.user # None => Owner(last.user) = last.who
    /\ \A user \in Ids : {Owner(id) : id \in {Recipient(user).to, Recipient(user).recipient} \ {None}} = {Owner(user)}

\* A user whose webhooks came one at a time stays in one thread when the number
\* changes and the ids with it, in whatever order the notices and the first
\* messages come.
ThreadsAreKept ==
    \A w \in quiet :
        /\ home[w] # None => \A id \in known[w] : alias[id] = home[w]
        /\ (last.who = w /\ last.hit) => last.user = home[w]

\* From when the change is known, replies do not go to the former number.
OldNumbersAreForgotten ==
    ("ann" \in quiet /\ told /\ home["ann"] # None) => Recipient(home["ann"]).to \in {None, Phone("ann", era)}

\* What overlapping webhooks split, the next one that names it all joins.
LinksHeal ==
    (last.alone /\ ~Busy(last.who)) => \A id \in last.ids : alias[id] = last.user

UsersKeepTheirThread == UsersStayApart /\ ThreadsAreKept /\ OldNumbersAreForgotten /\ LinksHeal
=============================================================================
