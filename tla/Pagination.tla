----------------------------- MODULE Pagination -----------------------------
(***************************************************************************)
(* Walking a conversation page by page: Thread.messages, all_messages and  *)
(* Channel.messages call the adapter's fetch_messages (or                  *)
(* fetch_channel_messages) until a page has no cursor or no message, while *)
(* messages arrive and are deleted.  A message is its place in the order   *)
(* of creation, a page is a set of messages delivered in that order, and a *)
(* cursor is the message (or the instant) a page ended at; 0 is no cursor. *)
(* Each operator named after a platform is one fetch of its adapter.       *)
(***************************************************************************)
EXTENDS Naturals, FiniteSets, Sequences, FiniteSetsExt, SequencesExt

CONSTANTS
    Walks,       \* the walks considered, a subset of AllWalks
    Limit,       \* messages asked for in a page
    FetchLimit,  \* what Slack's backward fetch of a thread asks for
    ListLimit,   \* what a listing of a Teams channel holds
    MaxHistory,  \* bound: messages there when the walk starts
    MaxArrivals, \* bound: messages that arrive during the walk
    MaxDeletions,\* bound: messages deleted during the walk
    MaxPages,    \* bound: pages fetched by a walk that never ends
    Roots,       \* Google Chat: the messages that start a thread
    Ours,        \* Twilio: the messages the bot sent
    ThreadStart, \* Teams: the message a group chat's thread starts at
    Twin         \* Twin and Twin + 1 were created in the same instant

VARIABLES
    walk,       \* [platform, direction]
    stored,     \* the messages of the conversation
    created,    \* messages created so far
    cursor,     \* what the next fetch passes
    seen,       \* what the iterator yielded, in order
    pages,      \* pages fetched
    done,       \* the iterator is exhausted
    kept,       \* there when the walk started, and ever since
    cursorGone  \* a fetch passed the cursor of a deleted message

vars == <<walk, stored, created, cursor, seen, pages, done, kept, cursorGone>>

Platforms == {"slack thread", "slack channel", "gchat thread", "gchat channel",
              "discord", "telegram", "messenger", "teams chat",
              "teams group thread", "teams thread", "teams channel",
              "linear comment", "linear session", "linear issue",
              "linear activities",
              "github issue", "github review", "twilio", "whatsapp"}
AllWalks == [platform : Platforms, direction : {"forward", "backward"}]

(***************************************************************************)
(* Pages                                                                   *)
(***************************************************************************)
Lowest(S, n) == {m \in S : Cardinality({k \in S : k < m}) < n}
Highest(S, n) == {m \in S : Cardinality({k \in S : k > m}) < n}
Stamp(m) == IF m = Twin + 1 THEN Twin ELSE m

\* The messages past the cursor, and the page of Limit nearest to it.
Beyond(c, d) == {m \in stored : IF d = "forward" THEN m > c ELSE c = 0 \/ m < c}
Nearest(S, d) == IF d = "forward" THEN Lowest(S, Limit) ELSE Highest(S, Limit)

\* A page, and the cursor at its far end if there is more to fetch.
Page(S, more, d) ==
    [messages |-> S,
     next |-> IF ~more \/ S = {} THEN 0
              ELSE IF d = "forward" THEN Max(S) ELSE Min(S)]

\* A page of S, with a cursor if it leaves something of S.
PageOf(S, d) == Page(Nearest(S, d), Nearest(S, d) # S, d)

\* Mutant: the message at the cursor is fetched again.
MutSlackThreadInclusive(c, d) ==
    LET pool == IF d = "forward" THEN Beyond(c, d)
                ELSE {m \in stored : c = 0 \/ m <= c}
        fetched == Lowest(pool, FetchLimit)
        page == Highest(fetched, Limit)
    IN  IF d = "forward" THEN PageOf(pool, d)
        ELSE Page(page, page # fetched \/ fetched # pool, d)

\* Slack: replies come oldest first; backward takes the last ones of a larger
\* fetch that ends at the cursor.
SlackThread(c, d) ==
    LET pool == Beyond(c, d)
        fetched == Lowest(pool, FetchLimit)
        page == Highest(fetched, Limit)
    IN  IF d = "forward" THEN PageOf(pool, d)
        ELSE Page(page, page # fetched \/ fetched # pool, d)

\* Slack's history is cut nearest to the bound that is given, and at the
\* newest message when none is; so does Discord, which has more if the page
\* is full.
Cut(c, d) == IF d = "forward" /\ c = 0 THEN Highest(stored, Limit)
             ELSE Nearest(Beyond(c, d), d)
SlackChannel(c, d) == Page(Cut(c, d), Cut(c, d) # Beyond(c, d), d)
Discord(c, d) == Page(Cut(c, d), Cardinality(Cut(c, d)) = Limit, d)

\* Mutant: the cursor is a message, and a deleted one starts over.
MutGoogleThread(c, d) ==
    PageOf(IF c \in stored THEN Beyond(c, d) ELSE stored, d)

\* Google Chat: the API's own page tokens.
GoogleThread(c, d) == PageOf(Beyond(c, d), d)

\* Where the cursor is a message that must still be there, the walk starts
\* over when it is not.
Indexed(S, c, d) == IF c \in S THEN Beyond(c, d) \cap S ELSE S

\* Google Chat's channel: forward reads everything and keeps the thread roots;
\* backward reads pages of three times the limit until it has enough roots,
\* and goes on after what it read.
GoogleChannel(c, d) ==
    LET pool == Beyond(c, "backward")
        Read(k) == Highest(pool, 3 * Limit * k)
        Enough(k) == Read(k) = pool \/ Cardinality(Read(k) \cap Roots) >= Limit
        read == Read(CHOOSE k \in 1 .. Cardinality(pool) + 1 :
                        Enough(k) /\ \A j \in 1 .. k - 1 : ~Enough(j))
    IN  IF d = "forward" THEN PageOf(Indexed(stored \cap Roots, c, d), d)
        ELSE [messages |-> Highest(read \cap Roots, Limit),
              next |-> IF read # pool THEN Min(read) ELSE 0]

\* Telegram and Messenger page through the messages they have cached.
Telegram(c, d) == PageOf(Indexed(stored, c, d), d)
Messenger(c, d) == Telegram(c, d)

\* Microsoft Graph compares instants; a full page has more.
Later(S, c) == {m \in S : c = 0 \/ Stamp(m) > Stamp(c)}
Earlier(S, c) == {m \in S : c = 0 \/ Stamp(m) < Stamp(c)}
TeamsChat(c, d) ==
    LET page == Nearest(IF d = "forward" THEN Later(stored, c)
                        ELSE Earlier(stored, c), d)
    IN  Page(page, Cardinality(page) >= Limit, d)
\* A thread of a group chat is what its chat says from its first message on.
TeamsGroupThread(c, d) ==
    LET page == TeamsChat(c, d)
        inThread == {m \in page.messages : m >= ThreadStart}
    IN  Page(inThread, page.next # 0, d)
\* Mutant: the page before the cursor is taken from the wrong end.
MutTeamsThread(c, d) ==
    LET before == Earlier(stored, c)
    IN  IF d = "forward" THEN PageOf(Later(stored, c), d)
        ELSE Page(Lowest(before, Limit), Cardinality(before) > Limit, d)

\* A thread of a channel is read whole; backward, a cursor with nothing
\* before it or nothing from it on starts over.
TeamsThread(c, d) ==
    LET before == Earlier(stored, c)
    IN  PageOf(IF d = "forward" THEN Later(stored, c)
               ELSE IF before # {} /\ before # stored THEN before ELSE stored, d)
\* A channel: forward within one listing, backward without the cursor.
TeamsChannel(c, d) ==
    LET page == Highest(stored, Limit)
    IN  IF d = "forward" THEN PageOf(Later(Highest(stored, ListLimit), c), d)
        ELSE Page(page, Cardinality(page) >= Limit, d)

\* Linear: comments below their root, of which only a forward page says there
\* is more, and an issue's comments; neither passes the cursor on.
LinearComments(d) ==
    LET children == stored \ {1}
        page == Nearest(children, d)
    IN  IF 1 \notin stored THEN Page({}, FALSE, d)
        ELSE [Page(page, d = "forward" /\ page # children, d)
                EXCEPT !.messages = {1} \cup page]
LinearSession(d) == LinearComments(d)
LinearIssue == PageOf(stored, "forward")
\* The activities of a session without a root comment.
LinearActivities(c, d) == PageOf(Beyond(c, d), d)

\* GitHub and Twilio have one page.
GitHubIssue(d) == Page(Nearest(Lowest(stored, Limit), d), FALSE, d)
GitHubReview(d) == Page(Nearest(stored, d), FALSE, d)
Twilio ==
    Page(Highest(Highest(stored \cap Ours, Limit)
                     \cup Highest(stored \ Ours, Limit), Limit), FALSE, "backward")

Fetched(w, c) ==
    LET d == w.direction
    IN  CASE w.platform = "slack thread" -> SlackThread(c, d)
          [] w.platform = "slack channel" -> SlackChannel(c, d)
          [] w.platform = "gchat thread" -> GoogleThread(c, d)
          [] w.platform = "gchat channel" -> GoogleChannel(c, d)
          [] w.platform = "discord" -> Discord(c, d)
          [] w.platform = "telegram" -> Telegram(c, d)
          [] w.platform = "messenger" -> Messenger(c, d)
          [] w.platform = "teams chat" -> TeamsChat(c, d)
          [] w.platform = "teams group thread" -> TeamsGroupThread(c, d)
          [] w.platform = "teams thread" -> TeamsThread(c, d)
          [] w.platform = "teams channel" -> TeamsChannel(c, d)
          [] w.platform = "linear comment" -> LinearComments(d)
          [] w.platform = "linear session" -> LinearSession(d)
          [] w.platform = "linear issue" -> LinearIssue
          [] w.platform = "linear activities" -> LinearActivities(c, d)
          [] w.platform = "github issue" -> GitHubIssue(d)
          [] w.platform = "github review" -> GitHubReview(d)
          [] w.platform = "twilio" -> Twilio
          [] w.platform = "whatsapp" -> Page({}, FALSE, d)

(***************************************************************************)
(* The walk                                                                *)
(***************************************************************************)
Init ==
    /\ walk \in Walks
    /\ \E n \in 0 .. MaxHistory : created = n /\ stored = 1 .. n
    /\ kept = stored
    /\ cursor = 0 /\ seen = <<>> /\ pages = 0 /\ done = FALSE
    /\ cursorGone = FALSE

\* A page as the iterator yields it.
Yielded(S, d) == SetToSortSeq(S, LAMBDA a, b : IF d = "forward" THEN a < b ELSE a > b)

\* One turn of the iterator's loop.  A walk that yields nothing ends with the
\* history the SDK recorded, where the adapter keeps one.
Fetch ==
    LET page == Fetched(walk, cursor)
        last == page.next = 0 \/ page.messages = {}
        whole == IF last /\ seen = <<>> /\ page.messages = {}
                     /\ walk.platform = "whatsapp"
                 THEN stored ELSE page.messages
    IN  /\ ~done /\ pages < MaxPages
        /\ seen' = seen \o Yielded(whole, walk.direction)
        /\ pages' = pages + 1
        /\ done' = last
        /\ cursor' = IF last THEN cursor ELSE page.next
        /\ cursorGone' = (cursorGone \/ cursor \notin stored \cup {0})
        /\ UNCHANGED <<walk, stored, created, kept>>

\* Somebody writes into the conversation.
Arrive ==
    /\ ~done /\ pages > 0
    /\ created < MaxHistory + MaxArrivals
    /\ created' = created + 1
    /\ stored' = stored \cup {created + 1}
    /\ UNCHANGED <<walk, cursor, seen, pages, done, kept, cursorGone>>

\* Somebody deletes a message.  Teams keeps a tombstone in its place.
Delete(m) ==
    /\ ~done /\ pages > 0
    /\ walk.platform \notin {"teams chat", "teams group thread", "teams thread",
                             "teams channel"}
    /\ m \in stored /\ Cardinality((1 .. created) \ stored) < MaxDeletions
    /\ stored' = stored \ {m}
    /\ kept' = kept \ {m}
    /\ UNCHANGED <<walk, created, cursor, seen, pages, done, cursorGone>>

Next == Fetch \/ Arrive \/ \E m \in stored : Delete(m)

Spec == Init /\ [][Next]_vars

(***************************************************************************)
(* Properties                                                              *)
(***************************************************************************)
PaginationTypeOK ==
    /\ walk \in Walks /\ stored \subseteq 1 .. created /\ kept \subseteq stored
    /\ cursor \in 0 .. created /\ seen \in Seq(1 .. created)
    /\ pages \in 0 .. MaxPages /\ done \in BOOLEAN /\ cursorGone \in BOOLEAN

\* The walks whose next page does not depend on the cursor, those that find
\* their place by a message that must still be there, those that find it by
\* the instant, and those that have more than one page but not the whole
\* conversation in them.
Circular == [platform : {"linear issue"}, direction : {"forward", "backward"}]
            \cup [platform : {"linear comment", "linear session"},
                  direction : {"forward"}]
            \cup {[platform |-> "teams channel", direction |-> "backward"]}
ByMessage == {w \in AllWalks : \/ w.platform \in {"telegram", "messenger"}
                               \/ w = [platform |-> "gchat channel",
                                       direction |-> "forward"]}
ByInstant == [platform : {"teams chat", "teams group thread", "teams thread"},
              direction : {"forward", "backward"}]
Partial ==
    [platform : {"github issue", "github review", "twilio"},
     direction : {"forward", "backward"}]
    \cup [platform : {"discord", "slack channel", "teams channel",
                      "teams group thread"}, direction : {"forward"}]
    \cup [platform : {"linear comment", "linear session", "gchat channel"},
          direction : {"backward"}]

\* The messages a walk is about.
Wanted == CASE walk.platform = "gchat channel" -> kept \cap Roots
            [] walk.platform = "teams group thread" -> {m \in kept : m >= ThreadStart}
            [] OTHER -> kept

\* A walk yields no message twice and never goes back, whatever arrives or is
\* deleted meanwhile (unless its place was a message that is gone).
InOrder ==
    walk \in Circular \/ (walk \in ByMessage /\ cursorGone)
    \/ \A i, j \in DOMAIN seen :
            i < j => IF walk.direction = "forward" THEN seen[i] < seen[j]
                                                  ELSE seen[i] > seen[j]

\* A walk that ended yielded every message that was there all along; where the
\* place is an instant, one that shares its instant with a yielded message may
\* be missing, and Slack's backward walk needs the thread to fit its fetch.
NothingSkipped ==
    done /\ walk \notin Circular \cup Partial =>
        \/ \A m \in Wanted :
               \E i \in DOMAIN seen :
                   seen[i] = m \/ (walk \in ByInstant /\ Stamp(seen[i]) = Stamp(m))
        \/ /\ walk = [platform |-> "slack thread", direction |-> "backward"]
           /\ created > FetchLimit

\* Thread.messages, Thread.all_messages and Channel.messages deliver each
\* message of the conversation once and in order, over any number of pages.
WalksAreWhole == InOrder /\ NothingSkipped

\* "Iterate messages oldest first (forward from beginning). Auto-paginates
\* lazily." (types.py): whatever the platform, no message comes twice.
NoMessageTwice == IsInjective(seen)

=============================================================================
