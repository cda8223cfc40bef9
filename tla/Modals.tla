------------------------------- MODULE Modals -------------------------------
(* Modals with their forms (modals.py): what a handler opens, what Slack or     *)
(* Teams is given to show, what the user leaves in the fields, the handlers     *)
(* that hear of it, and what their answer makes of the views, which stand one   *)
(* upon another.  The menus whose options a handler finds while the user types  *)
(* (process_options_load) have 2.5 seconds.  How a submission overlaps another, *)
(* and how its context is stored and expires, is ModalContext's.                *)
EXTENDS Integers, FiniteSets, Sequences, SequencesExt

CONSTANTS
    Radios,   \* the options a group of radio buttons may have on Slack: 10
    Menu,     \* the options a menu may have on Slack: 100
    MaxSteps  \* bound on the user's steps, with which a behaviour ends

VARIABLES
    platform,  \* "slack", or "teams" with the helpers an application calls
    opener,    \* what opens the modal, and whether it has a trigger
    form,      \* the modal it opens
    handlers,  \* the submit handlers, in the order of their registration
    closers,   \* the close handlers
    views,     \* the views the user has, the uppermost last
    contexts,  \* the modal contexts stored
    last,      \* the last form handled
    posts,     \* history: the URLs forms were posted to
    closed,    \* history: the close handlers that ran for the last view closed
    menu,      \* the menu's handlers, and how far its request is
    steps

vars == <<platform, opener, form, handlers, closers, views, contexts, last, posts, closed, menu, steps>>

None == "none"

----------------------------------------------------------------------------
(* Modals and their children: the value an input starts with may be odd, an     *)
(* impossible date or no option, and be refused.                                *)

Modal(callback, url, notify, meta, child) ==
    [callback |-> callback, url |-> url, notify |-> notify, meta |-> meta, child |-> child]

Input(kind, start, options) == [kind |-> kind, start |-> start, options |-> options]
Options == <<"good", "new", "third">>

TextInput(start)      == Input("text", start, <<>>)
DateInput(start)      == Input("date", start, <<>>)
NumberInput(start)    == Input("number", start, <<>>)
Select(start)         == Input("select", start, Options)
RadioSelect(start)    == Input("radio", start, Options)
ExternalSelect(start) == Input("external", start, <<>>)
Words                 == Input("words", None, <<>>)
Image                 == Input("image", None, <<>>)

Children == {TextInput(s) : s \in {None, "good"}} \cup
            {DateInput(s) : s \in {None, "good", "odd"}} \cup
            {NumberInput(s) : s \in {None, "good", "0"}} \cup
            {Select(s) : s \in {None, "good", "odd"}} \cup
            {RadioSelect(s) : s \in {None, "good", "third", "odd"}} \cup
            {ExternalSelect(s) : s \in {None, "good"}} \cup {Words, Image}

PlainForm == Modal("first", "url1", TRUE, "meta1", TextInput(None))
Forms == {PlainForm, [PlainForm EXCEPT !.url = None], [PlainForm EXCEPT !.meta = None], [PlainForm EXCEPT !.notify = FALSE]} \cup
         {[PlainForm EXCEPT !.child = c] : c \in Children}

\* What a handler updates or pushes.
NextForm == Modal("second", "url2", TRUE, "meta2", Select("good"))

----------------------------------------------------------------------------
(* Slack's views (slack/modals.py) *)

Offered(e) == IF e.kind = "radio" THEN SubSeq(e.options, 1, Radios) ELSE e.options

\* Mutant (ModalsOpen): as the modal has it.
MutSlackStart(e) == e.start

\* What the user finds in the field.
SlackStart(e) ==
    CASE e.kind = "date"                -> IF e.start = "odd" THEN None ELSE e.start
      [] e.kind \in {"select", "radio"} -> IF e.start \in Range(Offered(e)) THEN e.start ELSE None
      [] OTHER                          -> e.start

\* _modal_child_to_block raises for what is no child of a modal.
SlackRaises(e) == e.kind = "image"

\* encode_modal_metadata, decode_modal_metadata: a view has room for one string.
Encoded(context, meta) == IF context = None /\ meta = None THEN [plain |-> FALSE, c |-> None, m |-> None]
                          ELSE [plain |-> FALSE, c |-> context, m |-> meta]
Decoded(metadata) == IF metadata.plain THEN [c |-> metadata.c, m |-> None] ELSE [c |-> metadata.c, m |-> metadata.m]

\* Mutant (FormsKnowTheirOrigin): the string is the modal's own.
MutSlackView(f, context) ==
    [callback |-> f.callback, of |-> f, start |-> SlackStart(f.child), notify |-> f.notify, submits |-> TRUE, bare |-> FALSE,
     metadata |-> IF f.meta # None THEN Encoded(None, f.meta) ELSE Encoded(context, None)]

\* modal_to_slack_view
SlackView(f, context) ==
    [callback |-> f.callback, of |-> f, start |-> SlackStart(f.child), notify |-> f.notify, submits |-> TRUE, bare |-> FALSE,
     metadata |-> Encoded(context, f.meta)]

\* What Slack refuses: an impossible date, an initial option that is not one.
Refused(view) ==
    LET e == view.of.child
    IN  \/ e.kind = "date" /\ view.start = "odd"
        \/ e.kind \in {"select", "radio"} /\ view.start \notin Range(Offered(e)) \cup {None}

\* Mutant (FormsAreHeard): what has no value has been cleared.
MutSlackValue(e) == IF e.value = None THEN "" ELSE e.value

\* _handle_view_submission flattens the state of a view.
SlackValue(e) == CASE e.value # None -> e.value [] e.date # None -> e.date [] e.option # None -> e.option [] OTHER -> ""

\* What Slack says of an input, with nothing in it unless it is text.
SlackState(kind, entered) ==
    LET left == IF entered = "" THEN None ELSE entered
    IN  CASE kind = "text"   -> [value |-> entered, date |-> None, option |-> None]
          [] kind = "number" -> [value |-> left, date |-> None, option |-> None]
          [] kind = "date"   -> [value |-> None, date |-> left, option |-> None]
          [] OTHER           -> [value |-> None, date |-> None, option |-> left]

----------------------------------------------------------------------------
(* Teams' dialogs (teams/modals.py) *)

\* _modal_child_to_adaptive_elements: what it does not know is left out.
TeamsShows(e) == e.kind \notin {"external", "image"}

\* modal_to_adaptive_card, in a task module; there is no string for the modal.
TeamsCard(f, context) ==
    [callback |-> f.callback, of |-> f, start |-> f.child.start, notify |-> FALSE, submits |-> TRUE, bare |-> FALSE,
     metadata |-> Encoded(context, None)]

\* The card of errors has nothing to submit.
ErrorsCard(view) == [view EXCEPT !.submits = FALSE]

\* What Teams submits: a number as such; an empty field may be left out.
TeamsData(kind, entered) ==
    {[type |-> IF kind = "number" THEN "number" ELSE "string", is |-> entered] : x \in {entered} \ {""}} \cup
    (IF entered = "" THEN {[type |-> "absent", is |-> ""], [type |-> "string", is |-> ""]} ELSE {})

\* Mutant (FormsAreHeard): strings only.
MutTeamsValues(datum) == IF datum.type = "string" THEN datum.is ELSE None

\* parse_teams_dialog_submit_values
TeamsValues(datum) == IF datum.type \in {"string", "number"} THEN datum.is ELSE None

----------------------------------------------------------------------------
(* Handlers *)

Matches(handler, callback) == handler.for \in {"any", callback}

\* Mutant (FormsAreAnswered): a handler that raises ends it.
MutAnswer(callback) ==
    LET first == SelectInSeq(handlers, LAMBDA h : Matches(h, callback) /\ h.does # "nothing")
    IN  IF first = 0 \/ handlers[first].does = "raises" THEN None ELSE handlers[first].does

\* process_modal_submit: the first answer; who raises is passed over.
Answer(callback) ==
    LET first == SelectInSeq(handlers, LAMBDA h : Matches(h, callback) /\ h.does \notin {"nothing", "raises"})
    IN  IF first = 0 THEN None ELSE handlers[first].does

\* process_modal_close: a handler that raises is the last.
ClosersRun(callback) ==
    LET matching == SelectSeq(closers, LAMBDA h : Matches(h, callback))
        raising  == SelectInSeq(matching, LAMBDA h : h.does = "raises")
    IN  IF raising = 0 THEN Len(matching) ELSE raising

\* The modal a handler answers with has the context of the form it answers.
Following(context) == [SlackView(NextForm, context) EXCEPT !.bare = Last(views).bare]

\* Mutant (FormsAreAnswered): the modal a handler pushes takes the place of the other.
MutResponse(answer, context) ==
    CASE answer \in {None, "close"}   -> Front(views)
      [] answer = "clear"             -> <<>>
      [] answer = "errors"            -> views
      [] answer \in {"update", "push"} -> Append(Front(views), Following(context))

\* _modal_response_to_slack, and what Slack does; without an answer the view is
\* closed, with "clear" the whole stack, and none is pushed on three.
SlackResponse(answer, context) ==
    CASE answer \in {None, "close"} -> Front(views)
      [] answer = "clear"           -> <<>>
      [] answer = "errors"          -> views
      [] answer = "update"          -> Append(Front(views), Following(context))
      [] answer = "push"            -> IF Len(views) = 3 THEN views ELSE Append(views, Following(context))

\* to_teams_task_module_response; a dialog is one card, which another replaces.
TeamsResponse(answer, context) ==
    CASE answer \in {None, "close", "clear"} -> <<>>
      [] answer = "errors"                   -> <<ErrorsCard(Last(views))>>
      [] answer \in {"update", "push"}       -> <<TeamsCard(NextForm, context)>>

----------------------------------------------------------------------------
(* Steps of the user's *)

NoForm == [view |-> <<>>, entered |-> None, heard |-> None, meta |-> None, related |-> None, answer |-> None, before |-> <<>>]
NoContext == [of |-> None, url |-> None]

Behaviours == {"nothing", "raises", "close", "clear", "errors", "update", "push"}
Handlers == [for : {"any", "first", "second"}, does : Behaviours]
Openers == [by : {"action", "command", "direct"}, trigger : BOOLEAN]
PlainOpener == [by |-> "action", trigger |-> TRUE]
Rejecter == [for |-> "second", does |-> "errors"]
Pusher == [for |-> "first", does |-> "push"]

\* A modal opened before the metadata was a record of two.
OldView == [SlackView(PlainForm, None) EXCEPT !.metadata = [plain |-> TRUE, c |-> "old", m |-> None],
                                              !.of.meta = None]

Loaders == {"nothing", "raises", "empty", "one", "groups", "many", "slow"}
NoMenu == [loaders |-> <<>>, at |-> "none", next |-> 0, found |-> None, answer |-> None, handed |-> FALSE]

\* A choice of one part, with what is plain of the others.
Plain == [opener |-> PlainOpener, form |-> PlainForm, handlers |-> <<Pusher, Rejecter>>, closers |-> <<>>, loaders |-> <<>>]
Setups ==
    {[Plain EXCEPT !.opener = o] : o \in Openers} \cup {[Plain EXCEPT !.form = f] : f \in Forms} \cup
    {[Plain EXCEPT !.handlers = <<h>>] : h \in Handlers} \cup
    {[Plain EXCEPT !.handlers = <<h, [for |-> "any", does |-> d]>>] : h \in Handlers, d \in {"nothing", "close", "errors"}} \cup
    {[Plain EXCEPT !.closers = <<[for |-> f, does |-> d], [for |-> "any", does |-> "notes"]>>] :
        f \in {"any", "second"}, d \in {"notes", "raises"}} \cup
    {[Plain EXCEPT !.loaders = <<[for |-> f, does |-> a], [for |-> "field", does |-> b]>>] :
        f \in {"any", "field", "other"}, a, b \in Loaders}

Init ==
    /\ platform \in {"slack", "teams"}
    /\ \E setup \in Setups :
          /\ opener = setup.opener /\ form = setup.form /\ handlers = setup.handlers /\ closers = setup.closers
          /\ menu = [NoMenu EXCEPT !.loaders = setup.loaders]
    /\ platform = "teams" => opener = PlainOpener /\ closers = <<>> /\ menu = NoMenu
                             /\ (Len(handlers) = 1 \/ form # PlainForm)
    /\ views \in {<<>>} \cup (IF platform = "slack" /\ form = PlainForm /\ opener = PlainOpener /\ menu = NoMenu
                              THEN {<<OldView>>} ELSE {})
    /\ contexts = [c \in {"old", "new"} |->
                     IF c = "old" /\ views # <<>> THEN [of |-> "command", url |-> "url0"] ELSE NoContext]
    /\ last = NoForm /\ posts = <<>> /\ closed = 0 /\ steps = 0

\* _open_modal of an action or a command, or the adapter's own; the context
\* first, then the view.
Open ==
    /\ steps = 0 /\ views = <<>> /\ opener.trigger
    /\ steps' = 1
    /\ LET context == IF opener.by = "direct" \/ platform = "teams" THEN None ELSE "new"
           view    == IF platform = "slack" THEN SlackView(form, context) ELSE TeamsCard(form, context)
       IN  /\ contexts' = IF context = None THEN contexts
                          ELSE [contexts EXCEPT !["new"] = [of |-> opener.by, url |-> form.url]]
           /\ views' = IF platform = "slack" /\ (SlackRaises(form.child) \/ Refused(view)) THEN <<>> ELSE <<view>>
    /\ UNCHANGED <<platform, opener, form, handlers, closers, last, posts, closed, menu>>

\* What a user may leave in a field.
Fillings(view) ==
    LET e     == view.of.child
        start == IF view.start = None \/ (e.options # <<>> /\ view.start \notin Range(e.options)) THEN "" ELSE view.start
    IN  CASE e.kind \in {"words", "image"}         -> {None}
          [] platform = "teams" /\ ~TeamsShows(e) -> {None}
          [] OTHER                                 -> {start, "new", ""}

\* A form, from the platform to the handlers and back; the callback URL's task
\* is taken to post.
Submit ==
    /\ views # <<>> /\ Last(views).submits /\ steps < MaxSteps
    /\ steps' = steps + 1
    /\ LET view    == Last(views)
           kind    == view.of.child.kind
           meta    == Decoded(view.metadata)
           related == IF meta.c = None THEN NoContext ELSE contexts[meta.c]
           answer  == IF platform = "slack" THEN Answer(view.callback)
                      ELSE LET does == handlers[1].does IN IF does \in {"nothing", "raises"} THEN None ELSE does
       IN  \E entered \in Fillings(view) :
           \E heard \in IF entered = None THEN {None}
                        ELSE IF platform = "slack" THEN {SlackValue(SlackState(kind, entered))}
                        ELSE {TeamsValues(d) : d \in TeamsData(kind, entered)} :
              /\ last' = [view |-> <<view>>, entered |-> entered, heard |-> heard, meta |-> meta.m,
                          related |-> related.of, answer |-> answer, before |-> views]
              /\ views' = IF platform = "slack" THEN SlackResponse(answer, meta.c) ELSE TeamsResponse(answer, meta.c)
              /\ posts' = IF related.url # None /\ answer # "errors" THEN Append(posts, related.url) ELSE posts
    /\ UNCHANGED <<platform, opener, form, handlers, closers, contexts, closed, menu>>

\* The user closes the view on top; Slack tells if it was asked to.
Close ==
    /\ views # <<>> /\ steps < MaxSteps
    /\ steps' = steps + 1
    /\ views' = IF platform = "slack" THEN Front(views) ELSE <<>>
    /\ closed' = IF Last(views).notify THEN ClosersRun(Last(views).callback) ELSE 0
    /\ last' = NoForm
    /\ UNCHANGED <<platform, opener, form, handlers, closers, contexts, posts, menu>>

\* update_modal, which the application calls: the view has no metadata any more.
UpdateView ==
    /\ platform = "slack" /\ views # <<>> /\ ~Last(views).bare /\ steps < MaxSteps
    /\ steps' = steps + 1
    /\ views' = Append(Front(views), [SlackView(NextForm, None) EXCEPT !.metadata = Encoded(None, None), !.bare = TRUE])
    /\ last' = NoForm
    /\ UNCHANGED <<platform, opener, form, handlers, closers, contexts, posts, closed, menu>>

----------------------------------------------------------------------------
(* A menu's options *)

\* Mutant (MenusAreAnswered): in the order of their registration.
MutLoading == SelectSeq(menu.loaders, LAMBDA h : h.for \in {"any", "field"})

\* process_options_load: the handlers of this field first.
Loading == SelectSeq(menu.loaders, LAMBDA h : h.for = "field") \o SelectSeq(menu.loaders, LAMBDA h : h.for = "any")

\* _options_load_response: groups or options, and no more than fit.
Serialized(result) ==
    CASE result \in {None, "empty"} -> [groups |-> FALSE, count |-> 0]
      [] result = "one"             -> [groups |-> FALSE, count |-> 1]
      [] result = "groups"          -> [groups |-> TRUE, count |-> 1]
      [] result \in {"many", "slow"} -> [groups |-> FALSE, count |-> Menu]

Ask ==
    /\ menu.loaders # <<>> /\ menu.at = "none" /\ steps = 0
    /\ menu' = [menu EXCEPT !.at = "loading", !.next = 1]
    /\ UNCHANGED <<platform, opener, form, handlers, closers, views, contexts, last, posts, closed, steps>>

\* A handler returns; one that raises is passed over, and so is one with nothing.
Loaded ==
    /\ menu.at \in {"loading", "late"}
    /\ LET through == menu.next > Len(Loading)
           does    == IF through THEN None ELSE Loading[menu.next].does
       IN  /\ does = "slow" => menu.at = "late"
           /\ IF through \/ does \notin {"nothing", "raises"}
              THEN menu' = [menu EXCEPT !.at = "done", !.found = does,
                                        !.answer = IF menu.at = "late" THEN @ ELSE <<Serialized(does)>>]
              ELSE menu' = [menu EXCEPT !.next = @ + 1]
    /\ UNCHANGED <<platform, opener, form, handlers, closers, views, contexts, last, posts, closed, steps>>

\* Mutant (MenusAreAnswered): the loading is cancelled with the wait for it.
CancelOnTimeout ==
    /\ menu.at = "loading" /\ menu.next <= Len(Loading) /\ Loading[menu.next].does = "slow"
    /\ menu' = [menu EXCEPT !.at = "cancelled", !.answer = <<Serialized(None)>>]
    /\ UNCHANGED <<platform, opener, form, handlers, closers, views, contexts, last, posts, closed, steps>>

\* The 2.5 seconds are over: no options, and the host is handed the task, which
\* goes on also if the host will not have it.
TimesOut ==
    /\ menu.at = "loading" /\ menu.next <= Len(Loading) /\ Loading[menu.next].does = "slow"
    /\ \E taken \in BOOLEAN : menu' = [menu EXCEPT !.at = "late", !.answer = <<Serialized(None)>>, !.handed = taken]
    /\ UNCHANGED <<platform, opener, form, handlers, closers, views, contexts, last, posts, closed, steps>>

Next ==
    \/ Open \/ Submit \/ Close \/ UpdateView \/ Ask \/ Loaded \/ TimesOut
    \/ (steps = MaxSteps \/ views = <<>>) /\ UNCHANGED vars

Spec == Init /\ [][Next]_vars

----------------------------------------------------------------------------
(* Properties *)

TypeOK ==
    /\ platform \in {"slack", "teams"} /\ opener \in Openers /\ form \in Forms /\ steps \in 0 .. MaxSteps
    /\ Len(views) <= MaxSteps /\ Len(posts) <= MaxSteps /\ closed \in 0 .. 2

\* A modal opens whatever its fields start with, with a date or an option that is
\* none left out, and opens nothing only if it holds what no modal can.
ModalsOpen ==
    (steps = 1 /\ last = NoForm /\ platform = "slack" /\ closed = 0 /\ posts = <<>> /\ contexts["old"] = NoContext) =>
        views # <<>> \/ form.child.kind = "image"

\* The handler hears what the user left in the field, be it the value it started
\* with, zero, an option, a date, or nothing any more.
FormsAreHeard ==
    (last # NoForm /\ last.entered # None) =>
        last.heard = last.entered \/ (platform = "teams" /\ last.entered = "" /\ last.heard = None)

\* It finds the thread, or the channel, where the modal was opened, however many
\* were pushed on it since, and the string of this very modal; neither, if the
\* application updated the view, or the one below, by itself.
FormsKnowTheirOrigin ==
    (last # NoForm /\ platform = "slack" /\ ~last.view[1].bare) =>
        /\ last.meta = last.view[1].of.meta
        /\ last.related = IF contexts["old"].of # None THEN "command"
                          ELSE IF opener.by = "direct" THEN None ELSE opener.by

\* What the handlers answer is what the user sees, as long as one of them does:
\* errors leave the form where it is, to be submitted again, a pushed modal
\* leaves the one below to come back to, and no form is posted that was rejected.
FormsAreAnswered ==
    (last # NoForm /\ platform = "slack") =>
        LET able == {i \in DOMAIN handlers : handlers[i].for \in {"any", last.view[1].callback}
                                             /\ handlers[i].does \notin {"nothing", "raises"}}
            does == IF able = {} THEN None ELSE handlers[CHOOSE i \in able : \A j \in able : i <= j].does
        IN  /\ does = "errors" => views = last.before
            /\ does = "push" => IsPrefix(last.before, views) /\ (Len(last.before) < 3 => views # last.before)
            /\ does = "clear" => views = <<>>
            /\ does \in {None, "close"} => Append(views, last.view[1]) = last.before

\* Each form accepted is posted once, to the URL of the modal opened first; one
\* of a modal on top of it too, whatever URL that one names.
PostsAreTheFirsts ==
    /\ \A i \in DOMAIN posts : posts[i] = contexts[IF contexts["old"] # NoContext THEN "old" ELSE "new"].url
    /\ (last # NoForm /\ last.answer # "errors" /\ last.related # None /\ form.url # None) => posts # <<>>

\* A menu shows what the first of its handlers to answer found, those of the
\* field before the others, unless the user had to wait too long, who sees
\* none; and the handler is let finish.
MenusAreAnswered ==
    LET of(f) == SelectSeq(menu.loaders, LAMBDA h : h.for = f /\ h.does \notin {"nothing", "raises"})
        first == of("field") \o of("any")
        shown == menu.answer[1]
    IN  /\ menu.at # "cancelled"
        /\ menu.answer # None =>
             /\ shown.count <= Menu
             /\ shown.groups <=> first # <<>> /\ first[1].does = "groups"
             /\ menu.at = "done" => menu.found = (IF first = <<>> THEN None ELSE first[1].does)
             /\ (shown.count = 0) <=> (first = <<>> \/ first[1].does \in {"empty", "slow"})

ModalsKeepTheirForms ==
    /\ ModalsOpen /\ FormsAreHeard /\ FormsKnowTheirOrigin /\ FormsAreAnswered
    /\ PostsAreTheFirsts /\ MenusAreAnswered
=============================================================================
