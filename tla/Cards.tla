------------------------------- MODULE Cards -------------------------------
(* A card from the application to the screen and a press back.  Each adapter    *)
(* turns the card into what its platform can show (adapters/*/cards.py), packs  *)
(* a button's id and value into what the platform returns when it is pressed,   *)
(* and unpacks it into the action the handlers see.                             *)
(*                                                                              *)
(* Text is a short sequence of symbols, "NL" a line break; the platforms'       *)
(* limits are constants, so that small ones are reached.                        *)
EXTENDS Integers, FiniteSets, Sequences, SequencesExt

CONSTANTS
    Radios,     \* options of a radio group on Slack (10)
    Replies,    \* buttons of a WhatsApp or a Messenger message (3)
    IdLimit,    \* length of a custom_id on Discord (100)
    DataLimit   \* room for id and value in Telegram's callback data (64 bytes)

VARIABLES
    platform,
    card,       \* the card the application posts
    place,      \* "made", "shown", "refused", "pressed" or "handled"
    screen,     \* what the platform shows
    record,     \* the values kept for the callback tokens, by button
    press,      \* what was pressed, and what was chosen in each input
    wire,       \* what the platform sends back
    events,     \* the actions the adapter makes of it
    seen        \* the actions the handlers saw

vars == <<platform, card, place, screen, record, press, wire, events, seen>>

Platform == {"slack", "teams", "gchat", "discord", "telegram", "whatsapp", "messenger",
             "github", "linear", "twilio"}

Absent == <<"absent">>  \* no value
Label  == <<"label">>   \* the words on a button

----------------------------------------------------------------------------
(* Cards *)

Control(is, id, value, callback, options) ==
    [is |-> is, id |-> id, value |-> value, callback |-> callback, options |-> options]
Button(id, value, callback) == Control("button", id, value, callback, <<>>)
LinkButton(id)              == Control("link-button", id, Absent, FALSE, <<>>)
Select(id, options)         == Control("select", id, Absent, FALSE, options)
RadioSelect(id, options)    == Control("radio", id, Absent, FALSE, options)
NoControl                   == Control("none", "none", Absent, FALSE, <<>>)
Inputs == {"select", "radio"}

\* A child; "fits" says whether Slack draws the table or the chart.
Leaf(kind, fits, row) == [kind |-> kind, fits |-> fits, row |-> row]
Child(leaf)           == [section |-> FALSE, leaves |-> <<leaf>>]
Section(leaves)       == [section |-> TRUE, leaves |-> leaves]

Words    == Leaf("text", TRUE, <<>>)
Table    == Leaf("table", TRUE, <<>>)
Chart    == Leaf("chart", TRUE, <<>>)
Actions(row) == Leaf("actions", TRUE, row)

Values == {Absent, <<>>, <<"x">>, <<"NL", "x">>, <<"x", "x", "x">>}
Plain(id) == Button(id, <<"x">>, FALSE)
Choice == Select("s", << <<"x">>, <<>> >>)

Rows ==
    {<<Button("a", v, c)>> : v \in Values, c \in BOOLEAN} \cup
    {<<LinkButton("l")>>,
     <<Choice>>,
     <<Plain("a"), Choice>>,
     <<Choice, RadioSelect("r", << <<"x">>, <<"y">>, <<"z">> >>)>>,
     <<LinkButton("l"), Plain("a"), Plain("b"), Button("c", Absent, TRUE)>>}

\* Whatever goes with controls, before or after them, in a section or not.
Others ==
    {Child(Words), Child(Table), Child(Leaf("table", FALSE, <<>>)), Child(Leaf("link", TRUE, <<>>)),
     Child(Chart), Child(Leaf("image", TRUE, <<>>)), Child(Leaf("divider", TRUE, <<>>)),
     Section(<<Words, Table>>), Section(<<Leaf("divider", TRUE, <<>>), Actions(<<LinkButton("m")>>)>>),
     Section(<<Actions(<<Choice>>)>>), Section(<<Table, Actions(<<Plain("d")>>)>>)}

NoHead == [title |-> FALSE, subtitle |-> FALSE, image |-> FALSE]
Heads == {NoHead, [NoHead EXCEPT !.title = TRUE], [NoHead EXCEPT !.image = TRUE],
          [NoHead EXCEPT !.title = TRUE, !.subtitle = TRUE]}

Bodies ==
    {<<other, Child(Actions(row))>> : other \in Others, row \in Rows} \cup
    {<<Child(Actions(row)), other>> : other \in Others, row \in Rows} \cup
    {<<one, other>> : one \in Others, other \in Others} \cup
    {<<Child(Chart), Section(<<Chart>>), Child(Chart)>>}

Cards ==
    {[head |-> [NoHead EXCEPT !.title = TRUE], children |-> body] : body \in Bodies} \cup
    {[head |-> head, children |-> <<Child(Actions(row))>>] : head \in Heads, row \in Rows} \cup
    {[head |-> head, children |-> <<Child(Words), Child(Actions(row))>>] : head \in Heads, row \in Rows}

\* For a part that stands still.
PlainCard == [head |-> NoHead, children |-> <<Child(Words), Child(Actions(<<Choice>>))>>]

\* The children in order, each with its place; sections opened.
Leaves(c) ==
    FlattenSeq([i \in DOMAIN c.children |->
        [j \in DOMAIN c.children[i].leaves |-> [at |-> <<i, j>>] @@ c.children[i].leaves[j]]])

OfKind(leaves, kinds) == SelectSeq(leaves, LAMBDA leaf : leaf.kind \in kinds)
Controls(leaves)      == FlattenSeq([i \in DOMAIN leaves |-> leaves[i].row])
FirstN(s, n)          == SubSeq(s, 1, IF Len(s) < n THEN Len(s) ELSE n)

----------------------------------------------------------------------------
(* What is shown: pieces of content, controls to press or to choose from, and   *)
(* controls that are only told of, a link with its address.                     *)

Piece(is, at, control) == [is |-> is, at |-> at, control |-> control]
Shown(is, leaf)        == <<Piece(is, leaf.at, NoControl)>>
Controlled(is, leaf)   == [i \in DOMAIN leaf.row |-> Piece(is[leaf.row[i].is], leaf.at, leaf.row[i])]
Told(leaf) == Controlled([k \in {"button", "link-button"} \cup Inputs |-> "told"], leaf)

HeadPart(part, is) == IF card.head[part] THEN <<Piece(is, <<part>>, NoControl)>> ELSE <<>>
Heading        == HeadPart("title", "words") \o HeadPart("subtitle", "words") \o HeadPart("image", "picture")

\* Mutants: a section counts its tables afresh; the limit on options is gone.
MutSlackTable(leaves, i) ==
    IF leaves[i].fits /\ ~\E j \in 1..(i - 1) : leaves[j].kind = "table" /\ leaves[j].at[1] = leaves[i].at[1]
    THEN "grid" ELSE "words"
MutSlackControl(leaf, c) ==
    Piece(IF c.is \in Inputs THEN "choose" ELSE "press", leaf.at, c)

\* Slack draws one table a message and two charts, if they fit; the rest is text.
SlackTable(leaves, i) ==
    IF leaves[i].fits /\ ~\E j \in 1..(i - 1) : leaves[j].kind = "table" /\ leaves[j].fits THEN "grid" ELSE "words"
SlackChart(leaves, i) ==
    IF leaves[i].fits /\ Cardinality({j \in 1..(i - 1) : leaves[j].kind = "chart" /\ leaves[j].fits}) < 2
    THEN "graph" ELSE "words"

\* Slack's link buttons report a press as well.
SlackControl(leaf, c) ==
    IF c.is \in Inputs
    THEN Piece("choose", leaf.at,
               IF c.is = "radio" THEN [c EXCEPT !.options = FirstN(c.options, Radios)] ELSE c)
    ELSE Piece("press", leaf.at, c)

SlackScreen(leaves) ==
    Heading \o
    FlattenSeq([i \in DOMAIN leaves |->
        CASE leaves[i].kind = "table"   -> Shown(SlackTable(leaves, i), leaves[i])
          [] leaves[i].kind = "chart"   -> Shown(SlackChart(leaves, i), leaves[i])
          [] leaves[i].kind = "image"   -> Shown("picture", leaves[i])
          [] leaves[i].kind = "divider" -> Shown("rule", leaves[i])
          [] leaves[i].kind = "actions" -> [j \in DOMAIN leaves[i].row |-> SlackControl(leaves[i], leaves[i].row[j])]
          [] OTHER                      -> Shown("words", leaves[i])])

\* Teams: a divider is a line above the next element of its container, or the
\* last element; inputs need a button, and get one when their row has none.
Hoisted(body) ==
    FlattenSeq([i \in DOMAIN body |->
        IF body[i].is # "marker" THEN <<body[i]>>
        ELSE IF i < Len(body) /\ body[i + 1].is = "marker" THEN <<>>
        ELSE <<[body[i] EXCEPT !.is = "rule"]>>])

\* Mutant: one button for the inputs, wherever the buttons are.
MutTeamsSubmit(leaf) ==
    LET all == Controls(Leaves(card))
    IN  IF (\E i \in DOMAIN leaf.row : leaf.row[i].is \in Inputs) /\ ~\E i \in DOMAIN all : all[i].is \in {"button", "link-button"}
        THEN Shown("submit", leaf) ELSE <<>>

TeamsSubmit(leaf) ==
    IF (\E i \in DOMAIN leaf.row : leaf.row[i].is \in Inputs) /\ ~\E i \in DOMAIN leaf.row : leaf.row[i].is = "button"
    THEN Shown("submit", leaf) ELSE <<>>

TeamsControls == ("button" :> "press") @@ ("link-button" :> "open") @@ ("select" :> "choose") @@ ("radio" :> "choose")
IsAction(piece) == piece.is \in {"press", "open", "submit"}

TeamsPieces(leaf) ==
    CASE leaf.kind = "image"   -> Shown("picture", leaf)
      [] leaf.kind = "divider" -> Shown("marker", leaf)
      [] leaf.kind = "table"   -> Shown("grid", leaf)
      [] leaf.kind = "actions" -> Controlled(TeamsControls, leaf) \o TeamsSubmit(leaf)
      [] OTHER                 -> Shown("words", leaf)

\* The elements of a container, then the buttons of the card.
TeamsScreen(leaves) ==
    LET of(i)   == FlattenSeq([j \in DOMAIN leaves |-> IF leaves[j].at[1] = i THEN TeamsPieces(leaves[j]) ELSE <<>>])
        body(i) == SelectSeq(of(i), LAMBDA piece : ~IsAction(piece))
        all     == FlattenSeq([i \in DOMAIN card.children |->
                       IF card.children[i].section THEN Hoisted(body(i)) ELSE body(i)])
    IN  Heading \o Hoisted(all) \o
        FlattenSeq([i \in DOMAIN card.children |-> SelectSeq(of(i), IsAction)])

\* Google Chat shows everything, in order; an empty card gets an empty paragraph.
GoogleControls(leaf) == Controlled(TeamsControls, leaf)
GoogleScreen(leaves) ==
    Heading \o
    FlattenSeq([i \in DOMAIN leaves |->
        CASE leaves[i].kind = "image"   -> Shown("picture", leaves[i])
          [] leaves[i].kind = "divider" -> Shown("rule", leaves[i])
          [] leaves[i].kind = "actions" -> GoogleControls(leaves[i])
          [] OTHER                      -> Shown("words", leaves[i])]) \o
    IF leaves = <<>> THEN <<Piece("words", <<>>, NoControl)>> ELSE <<>>

\* The text every platform can show: no picture, no control.
FallbackText(leaf) ==
    CASE leaf.kind \in {"image", "actions"} -> <<>>
      [] leaf.kind = "divider"              -> Shown("rule", leaf)
      [] OTHER                              -> Shown("words", leaf)

\* Buttons and links; whatever there is to choose from is left out.
Buttons(leaf) ==
    SelectSeq(Controlled(TeamsControls, leaf), LAMBDA piece : piece.is # "choose")

DiscordScreen(leaves) ==
    Heading \o FlattenSeq([i \in DOMAIN leaves |->
        IF leaves[i].kind = "actions" THEN Buttons(leaves[i]) ELSE FallbackText(leaves[i])])

TelegramText(leaves) ==
    HeadPart("title", "words") \o HeadPart("subtitle", "words") \o
    FlattenSeq([i \in DOMAIN leaves |-> FallbackText(leaves[i])])
TelegramKeyboard(leaves) == FlattenSeq([i \in DOMAIN leaves |-> Buttons(leaves[i])])
TelegramScreen(leaves)   == TelegramText(leaves) \o TelegramKeyboard(leaves)

TwilioScreen(leaves) == TelegramText(leaves)

\* GitHub and Linear write the controls out.
MarkdownScreen(leaves) ==
    Heading \o
    FlattenSeq([i \in DOMAIN leaves |->
        CASE leaves[i].kind = "image"   -> Shown("picture", leaves[i])
          [] leaves[i].kind = "actions" -> Told(leaves[i])
          [] OTHER                      -> FallbackText(leaves[i])])

LinearScreen(leaves) == MarkdownScreen(leaves)

\* The controls of the first row of a card, wherever it is.
FirstRow(leaves) == LET rows == OfKind(leaves, {"actions"}) IN IF rows = <<>> THEN <<>> ELSE Buttons(rows[1])
\* Mutant (PlatformsTakeIt): all of them.
AllReplies(buttons) == buttons
FirstReplies(buttons) == FirstN(buttons, Replies)

\* Messenger: a template carries the first buttons, and text; what it cannot
\* carry makes the whole card text.
Unsupported(leaves) ==
    \E i \in DOMAIN leaves :
        leaves[i].kind = "table" \/ \E j \in DOMAIN leaves[i].row : leaves[i].row[j].is \in Inputs

MessengerText(leaves) ==
    Heading \o
    FlattenSeq([i \in DOMAIN leaves |->
        CASE leaves[i].kind = "image"   -> Shown("picture", leaves[i])
          [] leaves[i].kind = "actions" -> Told(leaves[i])
          [] leaves[i].kind = "chart"   -> <<>>
          [] OTHER                      -> FallbackText(leaves[i])])

TemplateBody(leaves, kinds) ==
    LET texts == OfKind(leaves, kinds) IN FlattenSeq([i \in DOMAIN texts |-> Shown("words", texts[i])])

\* With a title and a subtitle there is no room for the text.
MessengerScreen(leaves) ==
    LET buttons == FirstReplies(FirstRow(leaves))
        body    == TemplateBody(leaves, {"text", "link"})
        generic == card.head.title \/ card.head.image
    IN  IF Unsupported(leaves) \/ buttons = <<>> \/ (~generic /\ body = <<>>) THEN MessengerText(leaves)
        ELSE Heading \o (IF card.head.title /\ card.head.subtitle THEN <<>> ELSE body) \o buttons

\* WhatsApp: reply buttons with the links told in the text; a lone link as a
\* button when the text carries the rest; otherwise text.
WhatsAppText(leaves) ==
    Heading \o
    FlattenSeq([i \in DOMAIN leaves |->
        CASE leaves[i].kind = "image"                      -> Shown("picture", leaves[i])
          [] leaves[i].kind = "actions"                    -> Told(leaves[i])
          [] leaves[i].kind \in {"link", "table", "chart"} -> <<>>
          [] OTHER                                         -> FallbackText(leaves[i])])

LinkLines(leaves) ==
    SelectSeq(FlattenSeq([i \in DOMAIN leaves |-> Told(leaves[i])]),
              LAMBDA piece : piece.control.is = "link-button")

WhatsAppReplies(leaves) ==
    FirstReplies(SelectSeq(FirstRow(leaves), LAMBDA piece : piece.is = "press"))

PromotableLink(leaves) ==
    /\ ~card.head.image
    /\ Len(Controls(leaves)) = 1 /\ Controls(leaves)[1].is = "link-button"
    /\ \A i \in DOMAIN leaves : leaves[i].kind \in {"actions", "divider", "text"}

WhatsAppScreen(leaves) ==
    LET envelope == HeadPart("title", "words") \o HeadPart("subtitle", "words") \o TemplateBody(leaves, {"text"})
    IN  IF WhatsAppReplies(leaves) # <<>> THEN envelope \o LinkLines(leaves) \o WhatsAppReplies(leaves)
        ELSE IF PromotableLink(leaves) THEN envelope \o FirstRow(OfKind(leaves, {"actions"}))
        ELSE WhatsAppText(leaves)

Screen(leaves) ==
    CASE platform = "slack"     -> SlackScreen(leaves)
      [] platform = "teams"     -> TeamsScreen(leaves)
      [] platform = "gchat"     -> GoogleScreen(leaves)
      [] platform = "discord"   -> DiscordScreen(leaves)
      [] platform = "telegram"  -> TelegramScreen(leaves)
      [] platform = "whatsapp"  -> WhatsAppScreen(leaves)
      [] platform = "messenger" -> MessengerScreen(leaves)
      [] platform = "twilio"    -> TwilioScreen(leaves)
      [] platform = "linear"    -> LinearScreen(leaves)
      [] OTHER                  -> MarkdownScreen(leaves)

----------------------------------------------------------------------------
(* What the platform keeps of a button and sends back *)

Wire(id, value, chosen) == [id |-> id, value |-> value, chosen |-> chosen]
Given(value) == value \notin {Absent, <<>>}

\* Discord has one string for both, cut at the first line break.
CustomId(c) == IF Given(c.value) THEN <<c.id, "NL">> \o c.value ELSE <<c.id>>
FirstBreak(s) == SelectInSeq(s, LAMBDA symbol : symbol = "NL")
LastBreak(s)  == SelectLastInSeq(s, LAMBDA symbol : symbol = "NL")

DataSize(c) == 1 + IF c.value = Absent THEN 0 ELSE Len(c.value)

\* Mutant (CardsAreUnderstood): nobody looks at the length.
MutRefused(pieces) == FALSE

Refused(pieces) ==
    \E i \in DOMAIN pieces :
        /\ pieces[i].is = "press"
        /\ \/ platform = "discord" /\ Len(CustomId(pieces[i].control)) \notin 1..IdLimit
           \/ platform = "telegram" /\ DataSize(pieces[i].control) > DataLimit

Encoded(c) ==
    CASE platform = "discord"                            -> Wire(CustomId(c), Absent, {})
      [] platform \in {"slack", "gchat"} /\ ~Given(c.value) -> Wire(<<c.id>>, Absent, {})
      [] OTHER                                           -> Wire(<<c.id>>, c.value, {})

Event(id, value) == [id |-> id, value |-> value, mapping |-> FALSE]

\* Mutant (PressesAreUnderstood): cut at the last line break.
MutDiscordEvent(w) ==
    LET cut == LastBreak(w.id)
    IN  IF cut = 0 THEN Event(w.id, w.id)
        ELSE Event(SubSeq(w.id, 1, cut - 1), SubSeq(w.id, cut + 1, Len(w.id)))

DiscordEvent(w) ==
    LET cut == FirstBreak(w.id)
    IN  IF cut = 0 THEN Event(w.id, w.id)
        ELSE Event(SubSeq(w.id, 1, cut - 1), SubSeq(w.id, cut + 1, Len(w.id)))

\* Slack: the option chosen, or the value.
SlackEvent(w) ==
    IF w.chosen # {} THEN Event(w.id, (CHOOSE c \in w.chosen : TRUE).value) ELSE Event(w.id, w.value)

\* Google Chat: the value, or what was chosen under the action's own id.
GoogleEvent(w) ==
    LET own == {c \in w.chosen : c.id = w.id}
    IN  IF w.value # Absent \/ own = {} THEN Event(w.id, w.value)
        ELSE Event(w.id, (CHOOSE c \in own : TRUE).value)

\* Teams: one action for each input of the injected button; for a button of the
\* card, what it submits is a mapping unless it is the button's value alone.
TeamsEvents(w) ==
    IF w.id = <<"__auto_submit">> THEN {Event(c.id, c.value) : c \in w.chosen}
    ELSE {[Event(w.id, IF w.chosen = {} THEN w.value ELSE Absent) EXCEPT !.mapping = w.chosen # {}]}

\* WhatsApp: the button's words stand for a value it was not given.
ReplyEvent(w) == Event(w.id, IF w.value = Absent /\ platform = "whatsapp" THEN Label ELSE w.value)

Events(w) ==
    CASE platform = "slack"   -> {SlackEvent(w)}
      [] platform = "teams"   -> TeamsEvents(w)
      [] platform = "gchat"   -> {GoogleEvent(w)}
      [] platform = "discord" -> {DiscordEvent(w)}
      [] OTHER                -> {ReplyEvent(w)}

----------------------------------------------------------------------------
(* Steps *)

Init ==
    /\ platform \in Platform
    /\ card \in Cards
    /\ place = "made"
    /\ screen = <<>>
    /\ record = {}
    /\ press = [control |-> NoControl, chosen |-> {}]
    /\ wire = Wire(<<>>, Absent, {})
    /\ events = {}
    /\ seen = {}

\* _process_callback_urls: a button with a callback gets a token for its value.
Token(c) == <<"cb", c.id>>
Tokened(c) == IF c.callback THEN [c EXCEPT !.value = Token(c), !.callback = FALSE] ELSE c
Processed(leaves) ==
    [i \in DOMAIN leaves |-> [leaves[i] EXCEPT !.row = [j \in DOMAIN leaves[i].row |-> Tokened(leaves[i].row[j])]]]
Records(leaves) ==
    {[token |-> Token(c), id |-> c.id, value |-> c.value] : c \in {d \in ToSet(Controls(leaves)) : d.callback}}

\* A post: the tokens are kept first, then the platform may refuse the card.
Post ==
    /\ place = "made"
    /\ LET leaves == Leaves(card)
           pieces == Screen(Processed(leaves))
       IN  /\ record' = Records(leaves)
           /\ place' = IF Refused(pieces) THEN "refused" ELSE "shown"
           /\ screen' = IF Refused(pieces) THEN <<>> ELSE pieces
    /\ UNCHANGED <<platform, card, press, wire, events, seen>>

\* What the user may have chosen in the inputs on the screen.
Inputted == {screen[i].control : i \in {j \in DOMAIN screen : screen[j].is = "choose"}}
Chosen  == {choice \in SUBSET {[id |-> <<c.id>>, value |-> v] : c \in Inputted, v \in UNION {ToSet(d.options) : d \in Inputted}} :
                /\ \A c \in Inputted : \E v \in ToSet(c.options) : [id |-> <<c.id>>, value |-> v] \in choice
                /\ Cardinality(choice) = Cardinality({c.id : c \in Inputted})}

\* A press or a choice.  Slack sends the one that changed, Google Chat and Teams
\* all the inputs of the card.
Press ==
    /\ place = "shown"
    /\ \E i \in DOMAIN screen, chosen \in Chosen :
        LET c == screen[i].control
            own == {o \in chosen : o.id = <<c.id>>}
        IN  /\ screen[i].is \in {"press", "submit"} \cup (IF platform = "teams" THEN {} ELSE {"choose"})
            /\ press' = [control |-> c, chosen |-> chosen]
            /\ wire' = CASE screen[i].is = "submit"  -> Wire(<<"__auto_submit">>, Absent, chosen)
                         [] platform = "slack"       -> [Encoded(c) EXCEPT !.chosen = own]
                         [] OTHER                    -> [Encoded(c) EXCEPT !.chosen = chosen]
    /\ place' = "pressed"
    /\ UNCHANGED <<platform, card, screen, record, events, seen>>

\* The adapter's handler of the press.
Arrive ==
    /\ place = "pressed"
    /\ events' = Events(wire)
    /\ place' = "arrived"
    /\ UNCHANGED <<platform, card, screen, record, press, wire, seen>>

\* Chat: a token becomes the value it stands for, if this button's; a value that
\* is not text cannot be looked at, and the action is lost.
Resolved(e) ==
    LET found == {r \in record : r.token = e.value /\ <<r.id>> = e.id}
    IN  IF found = {} THEN e ELSE [e EXCEPT !.value = (CHOOSE r \in found : TRUE).value]

Handle ==
    /\ place = "arrived"
    /\ \E e \in events :
        /\ events' = events \ {e}
        /\ seen' = seen \cup IF e.mapping THEN {} ELSE {Resolved(e)}
        /\ place' = IF events = {e} THEN "handled" ELSE place
    /\ UNCHANGED <<platform, card, screen, record, press, wire>>

Stop ==
    /\ \/ place \in {"refused", "handled"}
       \/ place = "shown" /\ ~\E i \in DOMAIN screen : screen[i].is \in {"press", "submit", "choose"}
    /\ UNCHANGED vars

Next == Post \/ Press \/ Arrive \/ Handle \/ Stop

Spec == Init /\ [][Next]_vars

----------------------------------------------------------------------------
(* Properties *)

TypeOK ==
    /\ platform \in Platform
    /\ place \in {"made", "refused", "shown", "pressed", "arrived", "handled"}
    /\ seen \subseteq [id : {<<c>> : c \in {"a", "b", "c", "d", "l", "m", "s", "r"}},
                       value : Values \cup {Label} \cup {<<c>> : c \in {"x", "y", "z", "a", "c", "d", "l", "m"}}, mapping : {FALSE}]

Submitted == platform = "teams" /\ press.chosen # {}

\* What was pressed is what the handlers see, once: the button's id and its
\* value, also when the platform only kept a token; each input's id and what was
\* chosen.  A button of a Teams card with inputs is the exception.
PressesAreUnderstood ==
    (place = "handled" /\ ~(Submitted /\ press.control.is = "button")) =>
        CASE press.control.is = "none" ->
                seen = {Event(c.id, c.value) : c \in press.chosen}
          [] press.control.is \in Inputs ->
                seen = {Event(c.id, c.value) : c \in {o \in press.chosen : o.id = <<press.control.id>>}}
          [] OTHER ->
                LET c == CHOOSE d \in ToSet(Controls(Leaves(card))) : d.id = press.control.id
                IN  \E e \in seen :
                        /\ seen = {e} /\ e.id = <<c.id>>
                        /\ IF Given(c.value) THEN e.value = c.value
                           ELSE e.value \in {Absent, <<>>, Label, <<c.id>>}

\* A press is handled, as the comment in Chat says of a value that is no token.
HandlersSeeThePress == place = "handled" => seen # {}

Places(pieces, kinds) == {pieces[i].at : i \in {j \in DOMAIN pieces : pieces[j].is \in kinds}}
Posted   == place \notin {"made", "refused"}
LeavesOf(kinds) == {leaf \in ToSet(Leaves(card)) : leaf.kind \in kinds}
Reached(c) == \E i \in DOMAIN screen : screen[i].control.id = c.id

\* The text of a card is on the screen, in its order and once, wherever in the
\* card it is; on the platforms with cards, and where cards are written out,
\* so is all the rest.
WordsStand ==
    LET texts == OfKind(Leaves(card), {"text"})
        words == SelectSeq(screen, LAMBDA piece : \E i \in DOMAIN texts : texts[i].at = piece.at)
    IN  Posted =>
            /\ \/ [i \in DOMAIN words |-> words[i].at] = [i \in DOMAIN texts |-> texts[i].at]
               \/ platform = "messenger" /\ card.head.subtitle
            /\ platform \in {"slack", "teams", "gchat", "github", "linear"} =>
                /\ \A leaf \in LeavesOf({"table", "chart", "link", "image"}) :
                        leaf.at \in Places(screen, {"words", "grid", "graph", "picture"})
                /\ \A c \in ToSet(Controls(Leaves(card))) : Reached(c)
            /\ platform \in {"slack", "teams", "gchat", "discord", "telegram"} /\ LeavesOf({"divider"}) # {} =>
                Places(screen, {"rule"}) # {}

\* A button or a link is not lost: buttons can be pressed wherever there are
\* buttons, and a link's address is there even where only replies are buttons.
ControlsAreReachable ==
    Posted =>
        \A c \in ToSet(Controls(Leaves(card))) :
            CASE platform \in {"discord", "telegram"} -> c.is \in Inputs \/ Reached(c)
              [] platform = "whatsapp"                -> c.is = "link-button" => Reached(c)
              [] platform \in {"twilio", "messenger"} -> TRUE
              [] OTHER                                -> Reached(c)

\* An input of a Teams card can be submitted.
InputsCanBeSubmitted ==
    Posted /\ platform = "teams" /\ Inputted # {} => \E i \in DOMAIN screen : screen[i].is \in {"press", "submit"}

Count(is) == Cardinality({i \in DOMAIN screen : screen[i].is \in is})

\* What is sent is within the platform's limits, and a card is refused only for a
\* value that is too long and has no callback to keep it.
PlatformsTakeIt ==
    /\ platform = "slack" =>
        /\ Count({"grid"}) <= 1 /\ Count({"graph"}) <= 2
        /\ \A i \in DOMAIN screen : screen[i].control.is = "radio" => Len(screen[i].control.options) <= Radios
    /\ platform \in {"whatsapp", "messenger"} => Count({"press"}) <= Replies
    /\ platform = "discord" => \A i \in DOMAIN screen :
            screen[i].is = "press" => Len(CustomId(screen[i].control)) <= IdLimit
    /\ platform = "telegram" => \A i \in DOMAIN screen :
            screen[i].is = "press" => DataSize(screen[i].control) <= DataLimit
    /\ place = "refused" =>
            \E c \in ToSet(Controls(Leaves(card))) : c.value = <<"x", "x", "x">> /\ ~c.callback

CardsAreUnderstood ==
    PressesAreUnderstood /\ WordsStand /\ ControlsAreReachable /\ InputsCanBeSubmitted /\ PlatformsTakeIt
=============================================================================
