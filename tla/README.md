# A verification development for chat-sdk-python

TLA+ models of the parts of `chat_sdk` (`src/src/chat_sdk`) whose correctness
depends on what happens when, and of the tables in which one wrong row loses a
message. TLC checks every model on small instances; TLAPS proves the most important
properties for every value of the constants.

Paths below are relative to `src/src/chat_sdk/` unless they start with `src/`.

1. Inventory · 2. The models · 3. Runs · 4. Findings · 5. Observations · 6. Proofs ·
7. Only model-checked · 8. Not modelled · 9. Plan

## 1. Inventory

`chat_sdk` is a library for chat bots. A web framework hands it webhooks of a
platform (Slack, Teams, Telegram, ...); an *adapter* per platform turns them into
messages and events; `Chat` decides which handlers run, and when; handlers post,
stream and edit through `Thread` and `Channel`. Everything that must outlive a
request or be seen by other processes goes through a `StateAdapter` (memory,
Redis or Postgres). All code is asyncio: inside a process, tasks interleave at
`await`; across processes, calls of the state backend interleave.

| Component | State | Operations | Hard behaviour | Correct when |
|---|---|---|---|---|
| Held-lock lifecycle (`chat.py` 250-385, 2846-2867) | lease in the backend; `_held_until`, `_ownership_lost`, `_stopped`, in-flight extend | `_with_held_lock`, `_run`, `_extend_once`, `stop` | lease against clock; late or lost answers; cancellation; hung handlers | a running handler keeps its lease; a lost one is noticed; no lease comes back or is freed by another |
| Routing and concurrency strategies (`chat.py` 2586-3028) | dedupe keys, lock, queue in the backend; `pending`, `skipped` of each loop | drop / queue / debounce / burst / concurrent | racing deliveries in several processes; force release; crash after a destructive dequeue | each message handled at most once, in order, under the lock; nothing lost without a reason |
| Turn cancellation (`chat.py` 1757-1772, 3034-3121) | `_active_turn_signals`; active and abort markers in the backend | `abort_turn`, `_monitor_turn_abort`, `_clear_turn_markers` | get-then-delete on shared markers; polling | an abort reaches the turn it was meant for and no other |
| Chat lifecycle (`chat.py` 799-890) | `_initialized`, `_init_promise`, `_active_tasks` | `initialize`, `shutdown` | shared attempt, retry after failure, shutdown during an attempt | one attempt at a time; state connected when initialised |
| Event routing (`chat.py` 3123-3311, actions, modals) | handler tables, subscriptions, tasks handed to the host | `process_*` | cancellation by the host; late subscriptions | one choice of handlers per event; what the host is handed tells when the work is over |
| State backends (`state/*.py`) | locks, queues, values, lists, subscriptions | `StateAdapter` | expiry, atomicity per backend, bounds | all three implement one contract |
| Callback URLs, modal contexts (`callback_url.py`, `chat.py`) | single-use tokens, contexts | mint, resolve, POST; open, submit | consumption under a lease; a form rejected, submitted twice, expired | a token is used once; an open modal has its context |
| Threads, channels (`thread.py`, `channel.py`, `reviver.py`) | thread state; which Chat a restored thread belongs to | `post`, `messages`, `from_json` | pages of a history that changes; bindings beside several Chats | a walk skips nothing; a restored thread uses the Chat it came from |
| Streaming, plans (`thread.py`, `plan.py`, adapters) | edit loop; chain of edits; native streams | `stream`, `_enqueue_edit` | concurrent edits, aborts, rate limits, segments that expire | what is shown in the end is the reply, whole, once and in order |
| History, files (`thread_history.py`, `history/user.py`, `shared/download.py`) | bounded lists; fetch closures | append, list, delete; download | trimming; a closure lost in a queue; redirects and deadlines | newest N kept; a file is fetched with the credentials of its own workspace |
| Slack (`adapters/slack/adapter.py`) | Socket Mode task, delivery markers, installations, users and links | start, loop, stop; webhook; stream | stop during connect or backoff; retries; rotating tokens | one connection; an event handled once; a token of the right workspace |
| Telegram (`adapters/telegram/adapter.py`) | polling checkpoint, webhook claims, album buffers | `polling_loop`, `_process_incoming_media_group` | crash between dispatch, checkpoint and acknowledgement; racing album parts | no update lost; one dispatch per album |
| Teams, Google Chat, WhatsApp | streamers, subscriptions, tokens, identity aliases | webhook, stream, subscribe, link | shared attempts, caches, unlocked merges | a reply arrives once; a space stays subscribed; users stay apart |
| Discord, GitHub, Linear, Messenger, Twilio, web | tokens, agent sessions | translate, post, fetch | what each platform differs in | as above |
| Cards, modals, AI tools (`cards.py`, `modals.py`, `ai/`) | none; the context variable of a dispatch | render, decode, guard | what is shown against what comes back; tools outside their conversation | a press reaches the handlers as it was made; a tool stays in its conversation |

`PROJECT.json` lists every component with its status, and every hazard of the
code with its line and the properties that are about it.

## 2. The models

### LockHeartbeat

One lock key, the row of the backend behind it, and the workers (tasks of any
process) that want it.

| Model | Code |
|---|---|
| `lock` (token, expiry) | the row of `chat_state_locks`; `acquire_lock`, `extend_lock`, `release_lock`, `force_release_lock` of `state/postgres.py` |
| `pc` | where the task is: `_handle_drop` / `_handle_queue_or_debounce`, `fn`, `stop()`, `release_lock` |
| `hb`, `nextTick`, `startedAt`, `heldUntil`, `lost` | `_LockHeartbeat._task`, `next_tick`, `_started_at`, `_held_until`, `_ownership_lost` |
| `call`, `sentAt` | `_in_flight`: an extend is sent, takes effect (`ExtendLands`), and is answered (`ExtendReturns`) or raises (`ExtendRaises`) |
| `leaseEnd`, `misses`, `forced` | history, for the properties |

Time is the natural number `clock`. `MaxDelay` bounds the round trip of a call,
`MaxLag` how late the event loop wakes a heartbeat that is due; both are
parameters, and the properties say how they depend on them. A release has no
such bound. All machines read the same clock: the client computes `held_until`
from its own clock only, and the backend compares expiries with its own only, so
a constant skew between the two changes nothing; a drift is not modelled.
The callback may run for ever (`FnEnds` need not happen). `Faults` selects
which faults an instance allows: `error` (an extend raises, before or after it
took effect), `cancel` (of a task in `stop()`, or waiting for `acquire_lock` or
`release_lock`), `crash`, `force`.

### ChatDispatch

One lock key and the deliveries that reach it, each handled by a task of its
own in any process. One step is one call of the state backend with the code up
to the next call, so the calls of tasks interleave freely.

| Model | Code |
|---|---|
| `config` | the strategy, conflict policy and overflow policy `Chat` was created with; fixed in each behaviour |
| `keys` | live dedupe keys (`set_if_not_exists`, `_route_incoming_message`) |
| `lock`, `queue`, `stale` | the lock and the pending queue in the backend; entries past `expires_at` |
| `pc` = `new` .. `enqueuing` | `_route_incoming_message`, `_handle_drop`, `_resolve_lock_conflict`, `_handle_queue_or_debounce` |
| `pc` = `buffering`, `window`, `taking`, `counting`, `handling`, `releasing` | inside `_with_held_lock`: the enqueue of debounce and burst, the sleep, `_take_pending`, debounce's `queue_depth`, `_dispatch_to_handlers`, `release_lock` |
| `pending`, `skipped` | the locals of `_take_pending`, `_debounce_loop`, `_drain_queue` |
| `lost` | tasks whose `heartbeat.is_ownership_lost()` is true |
| `handled`, `gone`, `arrivals`, `late`, `lapsed`, `usurped` | history, for the properties |

The lease's time is LockHeartbeat's subject. Here a lease may lapse under its
holder at any moment (`LeaseLapses`, a fault), and the holder notices at any
later moment or never (`NoticeLoss`); the holder may also believe wrongly that
it lost the lock. Other faults: a handler raises or a task is cancelled
(`UnwindHolder`), a task is cancelled before it holds the lock or its process
dies (`Vanish`; a lock it was just acquiring may have been granted), a queued
entry or a dedupe key expires. Each counts against
`MaxFaults`, a bound per strategy.

Left out: the persistence of history before the lock, the choice of handlers,
the content of messages. The queue is trimmed as by `MemoryStateAdapter.enqueue`
and Redis's script, in one step; Postgres does the same in a transaction whose
interleavings are PostgresStore's subject. Expired entries count in
`queue_depth` and are returned by `dequeue`, as in memory and Redis; Postgres
hides them. With the concurrent strategy there is no lock and nothing to model.
A conflict callback that is neither "force" nor "drop" is a free choice between
the two (`onLockConflict = "callback"`).

### CallbackUrl

One button with a callback URL. Each time its card is posted or edited it gets a
fresh token (`Mint`, then `Show`); a click carries the token of some rendering.

| Model | Code |
|---|---|
| `record` | the value at `chat:callback:<token>`: not yet written, stored, or deleted or expired |
| `lock` | the lock on that key; `acquire_lock`, `extend_lock` and `release_lock` compare tokens |
| `pc` | `resolve_callback_url` call by call (`locking`, `reading`, `deleting`, `extending`, `releasing`; `unwinding` is its `finally` after an exception), then the POST |
| `Matching` | the clicks whose action id and conversation are those stored with the token |
| `resolved`, `posted`, `spent` | which clicks got the record and POSTed it; which records were deleted by a click |

Faults: the lease lapses under its holder, a state call raises before or after
it took effect, a task is cancelled or its process dies at any point (perhaps
leaving a lock), the record expires. `deleted` and `expired` look the same to
the code and are one value. A crash between the write of the record and the
post only leaves a record nobody can click, which a stop of the behaviour covers.

### TurnCancellation

The turns of one thread, in any process, and the calls of `abort_turn` for it.

| Model | Code |
|---|---|
| `active`, `abort` | the values at `active-turn:<thread>` and `abort-turn:<thread>` |
| `pc` | `_dispatch_to_handlers`: the write of the active marker, the handlers, and the four calls of `_clear_turn_markers` |
| `polling` | turns whose `_monitor_turn_abort` task runs; a poll that changes nothing is not a step |
| `aborted` | turns whose `TurnSignal` is aborted |
| `spc`, `sees` | `abort_turn`: its local part, the read of one marker, the write of the other |
| `during`, `crowded` | history: the turns that ran during a call, and those that overlapped |

Under a lock, turns of a thread follow each other; under the concurrent strategy
or after a lost lease they overlap, and the model lets them. Faults: a call of
the backend raises before or after it took effect, a turn is cancelled while it
publishes or cleans up, a process dies, a marker expires. `HandlersEnd` covers
handlers that return, raise or are cancelled, in one step with the join of the
monitor: cancelled, the monitor does nothing more.

`Lease` is the abstract lock that the rows implement: one owner at a time, each
worker the owner for one stretch at most, free before it changes hands. The
refinement mapping reads the owner off a row that has not expired
(`ImplementsLease`).

### Connections and the life of a chat

- `ChatLifecycle`: `_ensure_initialized`, `_run_init_attempt`, `shutdown` and
  `connect`/`disconnect` of the three backends. Callers share one attempt;
  a failed one is cached (adapters) or forgotten (state); `shutdown` forgets an attempt
  that may still be running.
- `SocketMode`: `start_socket_mode`, `stop_socket_mode` and `_socket_mode_loop`
  with overlapping calls. slack_sdk's client is external: a disconnect that has
  begun closes it, a cancelled connect leaves nothing open.
- `SlackDelivery`: one event of the Events API, delivered again until it is
  acknowledged; the retry marker and Chat's deduplication.
- `SpaceSubscriptions`: the subscription of one Google Chat space, which calls
  share, find, create, renew, and lose to time.
- `TokenCache`: double-checked locking of cached access tokens (Google Chat,
  GitHub, Linear, Teams).

### From a request to the handlers, and back

- `Webhooks`: the stages of each adapter's endpoint (verification, parsing,
  claim, dispatch, answer) as a table of stages; deliveries overlap wherever a stage awaits.
- `Ingress`: what each adapter's handlers make of an event: its thread, and
  whether the bot did it itself. A thread is the message it starts at, or 0.
- `EventRouting`: the `process_*` methods, the task each starts, what the host is
  given, which handlers a message reaches, and the concurrent strategy.
- `AgentTools`: the tools of `ai/tools.py`, the guard of `ai/scope.py`, and the
  context variable that says which conversation is being handled.
- `Posting`: the sequence of API calls each adapter makes for one message, any of
  which is refused or loses its answer; edits, ephemeral and scheduled messages.
- `Pagination`: one fetch per adapter and direction, and the walk built on it, while
  messages are written and deleted.
- `Cards`: what each platform shows of a card, and what a press comes back as.
- `Modals`, `ModalContext`: the fields of a form and the views upon each other; the
  context stored before a modal opens, read at submit, and its callback.
- `Ownership`: the Chat a serialised thread or channel belongs to when it is restored.
- `WhatsAppIdentity`: aliases and routes of users whose number and ids change.
- `SlackWorkspaces`, `QueuedFiles`, `Download`: tokens, profiles and links of
  workspaces; files on their way through a queue; the guarded download.
- `TelegramPolling`, `TelegramAlbum`: the checkpoint protocol of long polling,
  and the shared buffer of an album's parts.

### Streams

- `FallbackStream`: a message posted, then edited by a second task while chunks
  are pulled, with aborts and cancellations anywhere.
- `PlanEdits`: the chain of edits of a posted plan.
- `SlackStream`: a reply cut into segments that expire; `TeamsStream`: replies through the
  streamer registered for a chat; `TelegramStream`: pacing and rate limits.
- `MarkdownRenderer`: the committable prefix of Markdown still being written, and
  a Linear agent session, which sends what the prefix has more than the text sent last.

### What is stored

- `StateAdapters`: the in-memory and the Redis adapter side by side, every
  operation made on both and the answers compared, and Postgres's locks.
- `PostgresStore`: lists, queues and cache of the Postgres adapter, statement by
  statement, under READ COMMITTED.

### Modules for TLC

Systems that share no state are checked in one run, by a module whose selector
variable says which of them a behaviour is about; only that one moves, and the
variables of an instance carry a prefix. `MCConversation` (with ChatDispatch),
`MCChatFair` (ChatDispatch with fairness, EventRouting), `MCTelegram`,
`MCStreams`, `MCSharedState` and `MCConnections` are such modules. A behaviour of the union is a
behaviour of exactly one part, so nothing is gained or lost by the union but
files; lemmas named `...OfTheRun` prove that.

In the models, a definition whose comment starts with "Mutant" is a bug that
could be made in the definition after it; `PROJECT.json` names the property that
TLC finds violated once the mutant replaces it. No run uses them otherwise.

Names of platforms head the operators that translate one adapter: what
differs between adapters is a table of operators, what they share an action.

## 3. Runs

| Run | Instance | What it shows |
|---|---|---|
| `heartbeat_leases` | 2 workers, TTL 9 (interval 3), round trip 1, cap 7, clock to 11; error, force, crash, cancel | a running handler keeps its lease through any single failed extend; a lost lease does not come back, only its owner frees it, a hung handler loses it; the rows implement `Lease` |
| `conversation` | every strategy, 4 deliveries of 3 messages in 2 threads, queue of 2, 1 fault (none for debounce); beside it history, posting, ingress, webhooks, workspaces, downloads, queues, cards, agents, restored threads, modals, a WhatsApp user in three webhooks (four where they overlap) | accounting, exclusion, order; and that what an adapter says, shows, fetches and answers is right |
| `chat_fair` | queue, debounce, burst; 4 messages of one thread, queue of 1, 1 fault for queue; 3 events of every kind beside it | liveness of dispatch; routing |
| `telegram_ingress` | 4 updates, pages of 3, an album, a poisonous update, 2 faults; 3 deliveries of 2 parts, 1 fault | no update lost or confirmed early; albums whole and once |
| `streams` | 3 chunks, 3 calls on a plan, 3 pieces and 2 rotations, 2 Teams messages of 2 chunks, 5 lines of Markdown, 2 rate limits | what is shown in the end |
| `shared_state` | 2 tokens and 3 clicks; 2 turns and 2 aborts in 2 processes; a modal submitted twice; three backends; 2 clients of Postgres | single use, stale markers, equal answers |
| `connections` | 2 adapters, 2 callers, 3 attempts, 1 shutdown; 3 Socket Mode calls of 2 callers, 6 clients; 3 retries; 4 subscriptions; 3 tokens of 2 keys | attempts do not cross, one connection, nobody waits for ever |
| `turns_overwritten`, `plan_cancelled`, `linear_drops_text`, `teams_streamer_shared`, `shutdown_wedges_postgres` | | findings, below |

Where the cfg says `CHECK_DEADLOCK FALSE` a behaviour ends when all its calls have
been made; elsewhere a step that changes nothing is enabled only when all work is done, so
that a state in which somebody waits for ever is an error. In the other runs that
is what the liveness properties are for.

Bounds. Two workers are enough for a lease: the properties relate one worker to
its lease or to one other, and a third can only do to the second what the second
does to the first. The clock reaches past the cap and one further interval. In ChatDispatch four
deliveries fill a queue of two while one task holds the lock and another waits,
which is what an eviction, a second drain and a redelivery need together. In
CallbackUrl the race the fence is for takes two clicks on a token and one lapse;
the third click, the second token and the second fault let the race meet a
mismatch, a crash or a failed call. Two turns and two calls are what stale
markers need: one of each to leave them behind, one to be misled by them. Three
Socket Mode calls are a start, a stop that overtakes it and a start after both. Three
chunks let an edit be overtaken by the next while the last is pending. Four
updates are a page, an album across its end and one after it. Two Teams
messages are one registry overwritten. The proofs hold for any of these numbers.

Fairness. Every task that has started goes on: asyncio runs its ready tasks, a
backend or platform answers or the call raises, and handlers return, except where a
handler, a hook or a flush that hangs is the point of the property. A lease
nobody renews runs out. No delivery has to arrive, no fault has to happen, no
caller has to be cancelled. For an abort, handlers may run for ever and monitors
keep polling, so that only the abort can end the wait. For the Socket Mode loop,
connections that are tried often enough succeed only once faults are used up.

Properties, by run. One name stands for a conjunction whose parts are named.

`heartbeat_leases`
- `HeartbeatIsSafe`: `RenewedLeaseIsHeld` (a running handler that missed at most
  one extend holds its lease), `TakeoverWindowBounded` (belief outlives the
  lease by less than a round trip), `HungHandlerLetsGo`, `NoExtendAfterRelease`
  (unless a task is cancelled inside `stop()`).
- `LeasesEndForGood`: `OnlyOwnerReleases`, `NoResurrection`. `ImplementsLease`.

`conversation`
- `EachMessageOnce`: `NothingLostOrDoubled` (each delivery is in exactly one
  place: with its task, in the queue, in one drainer's hands, shown to one
  handler call, or gone with a recorded reason), `SurfacedOnce` (a message
  reaches handlers once, however often delivered, unless its dedupe key expired).
- `HandlersHoldTheLock`: whoever is inside `_with_held_lock` holds the lock
  unless its lease lapsed or was forced.
- `BatchesAreProper`: `DispatchedInOrder`, `OnlyLateEntriesWait` (without faults:
  messages are handled in the order of arrival, and the only entries left without
  a drainer are those queued after the last holder had found the queue
  empty), `ThreadsAreIsolated`.
- `WalksAreWhole`: a walk is in order and skips no message that was there throughout.
- `PostsAreWhole`: `Posting`'s `ShownOnce`, `RepliesOnce`, `HandleIsTheLast`,
  `AnsweredOnce`, `EditsReplace`; `Cards`' `PressesAreUnderstood`, `WordsStand`,
  `ControlsAreReachable`, `InputsCanBeSubmitted`, `PlatformsTakeIt`; `Modals`'
  `ModalsOpen`, `FormsAreHeard`, `FormsKnowTheirOrigin`, `FormsAreAnswered`,
  `PostsAreTheFirsts`, `MenusAreAnswered`.
- `EventsFindTheirThread`: events of one conversation name one thread, tools stay in
  theirs, restored threads go back to their Chat, WhatsApp users stay apart and keep
  their thread. `OwnWordsAreIgnored`: the bot does not answer itself, unless the adapter did not know
  its id when the words arrived (a history of each event records whether it did).
- `WebhooksKeepFaith`: what is acknowledged is handled, what is refused leaves no
  trace, a claimed delivery is handed on once, and options are the delivery's own.
- `CredentialsStayHome`: every response of a download is closed, its deadline holds,
  its requests are vetted; a queued file keeps its fetch; calls use the token and the
  profiles of their workspace.

`chat_fair`
- `EventsReachTheirHandlers`: subscriptions come first, every handler is asked.
  `HostsMayTrustIt`: what `wait_until` is given ends with the work.
- `QueuedInTimeIsDrained`, `LockComesFree`; `PlacesAreShared`: at most
  `max_concurrent` handlers, and everybody is admitted.

`telegram_ingress`
- `UpdatesAreKept`: an update is confirmed only when handled or saved, none is
  handled twice by one run of the loop, albums stay whole. `AlbumsAreWhole`:
  dispatched once, and settled. `NobodyIsStarved`, `PartsReachAHandler`.

`streams`
- `ReaderSeesTheText`, `ReplyReadsAsOne` (`SlackInOrder`, `ReturnedIsWhole`, `CardsStayTogether`),
  `RepliesArriveOnce` (`NeverTwice`, `RepliesArrive`, `RegistryIsCurrent`), `EveryLineIsSent` (the renderer
  itself drops no line), `PrefixesStand` (`FencesAreCounted`, `TablesAreNotTakenBack`),
  `PlansSettle` (`NewestStays`, `EveryEditEnds`, `EditedIsShown`), `RepliesMindTheLimit`
  (`ReturnedIsShown`, `QuietWhileLimited`), `StreamsEnd` (`AbortsAreHeeded`, `WebhooksEnd`).

`shared_state`
- `ClicksCountOnce` (`MintedBeforeShown`, `ResolvedOnce`, `SpentIsAnswered`),
  `MarkersAreMeant` (`StopsOnlyWhatRan`, `MarkersCleaned`), `BackendsKeepFaith`
  (`SameAnswers`, `OneGrantAtATime`, `GrantsAreKept`), `StoredIsAccountedFor` (`TrimmedForNewer`, `NobodyTakesTwice`,
  `WipedIsGone`, `PromisedIsKept`, `OvershootIsBounded`), `UsersAreHeard`
  (`MismatchSparesTheToken`, `ClickedIsAnswered`, `StopReachesTheTurn`, `FormsAreAnswered`).

`connections`
- `AttemptsDoNotCross` (`InitializedIsConnected`, `OneCurrentAttempt`, `AdaptersStartOnce`,
  `PoolsAreDiscarded`), `OneConnection` (`OneLoop`, `NoOrphans`, `StartsAreTold`),
  `MarkersTell` (`HandledOnce`, `MarkedWasDispatched`), `SpaceStaysSubscribed`,
  `TokensAreShared`, `NobodyWaitsForEver`.

## 4. Findings

Each is a run that must end in a violation, quoted with its lines in
`PROJECT.json`.

- `turns_overwritten`, `StopIsRecorded`: `abort_turn` writes the id it read without
  looking again. A call that stalls between the two while its turn ends replaces
  the abort of the next turn, which then runs on although somebody asked for its
  end. Nothing else has to fail, and turns need not overlap.
- `plan_cancelled`, `OthersEditsRun`: cancelling one caller of a plan cancels
  the edits it waits behind, and no later edit gets past the cancelled one.
- `linear_drops_text`, `EveryLineIsSent`: a table flushed into a Linear session is
  longer, by its fences, than the text the next delta is cut from, which loses as
  many characters.
- `teams_streamer_shared`, `StreamersAreNotShared`: an overlapping direct message
  replaces the streamer of the message being handled.
- `shutdown_wedges_postgres`, `ShutdownClearsFailures`: after a shutdown, a
  Postgres adapter that owns its pool probes the closed pool for ever.

## 5. Observations

Met while modelling. The findings of the five violation runs are in section 4. Four more of these
observations contradict a line of the repository, and no run states them; the properties
that pass exclude each by name:

- `types.py` 2447-2449 and 2457-2459: the iterators of a thread go through its messages, newest or oldest first. Linear and
  Teams channels can repeat a page for ever (`Pagination.NoMessageTwice`; `Circular` in `WalksAreWhole`).
- The comment at `chat.py` 3434 says that a handler can still download after the queue. A single-workspace Slack file
  cannot be (`QueuedFiles.HandlersCanStillDownload`; `QueuesCostNoFile` leaves `SlackForms` out).
- The comment at `chat.py` 2090-2096: handlers see the raw value where no token resolves. A mapping raises in `callback_url.py` 103
  (`Cards.HandlersSeeThePress`; `PressesAreUnderstood` leaves a Teams card with inputs out).
- `adapters/slack/adapter.py` 4060-4063: a message, its edits and its deletion must agree on a thread. Under
  `agent_view` they do not (`Ingress.Astray` names the case; `EventsFindTheirThread` leaves it out).

The others contradict nothing, or are documented where they are.

Lock and queue
- `_held_until` (`chat.py`) is later than the lease by the latency of the extend, though its
  comment calls it the latest instant the lock is known to be ours;
  `TakeoverWindowBounded` says how much. A task cancelled inside `stop()` releases with an
  extend in flight; harmless, because `extend_lock` compares tokens.
- An entry may be queued after the holder's last look at the queue, and then waits
  for the next webhook (`src/docs/UPSTREAM_SYNC.md` documents the window between the last
  dequeue and the release; it extends past the release). Two tasks that both saw room make
  drop-newest evict the oldest entry. Under a channel-scoped lock, debounce drops
  superseded messages of another thread than the final one.
- Postgres: concurrent enqueues overshoot `max_size`, by no more than the other
  clients (`OvershootIsBounded`); `append_to_list` renews rows that had expired
  (`state/postgres.py` 503-512).

Connections
- A Socket Mode start during a stop's drain can orphan a WebSocket; a start whose
  loop failed returns silently if another start has replaced the task. An event is
  acknowledged, then lost, if its installation cannot be resolved.
- A callback's POST is not awaited when a handler raises.

History
- Linear's comments (issue, comment thread, session; forward) and Teams
  channels (backward) can repeat the same page for ever (`adapters/linear/adapter.py` 1811-1918, 2039-2152).
  Discord and Slack channels start a forward walk at the newest page. Google Chat channels
  (backward), and `list_threads` of Google Chat and Slack, drop roots beyond `limit` of a
  scanned page. A Teams channel's forward walk covers the newest 50. GitHub and
  Twilio return one page. Telegram, Messenger and Google Chat channels restart when
  the message of the cursor was deleted. `WalksAreWhole` excludes these by name, each with its condition.

Posting
- Discord's edit to text leaves the card, Google Chat's edit to a card leaves the text;
  a Slack post of files only returns a made-up id that cannot be edited; a Telegram album
  returns its last message while the caption is on the first; a failed first PATCH leaves a
  Discord deferred response unanswered.

Ingress
- Slack with `agent_view`: a top-level direct message goes to `slack:D:`, its edits, deletions
  and reactions to `slack:D:ts` (against the docstring at `adapters/slack/adapter.py` 4060-4063);
  without it, reactions go to `slack:D:ts`. Google Chat's clicks and Pub/Sub messages in a direct
  chat use the thread name, webhook messages the space. A Discord thread without a known
  parent is taken for a channel. Reactions in a Telegram topic go to the chat's thread.
  Without a bot id Google Chat drops every bot's messages but handles its own reactions;
  Linear whose identity could not be read at start handles its own comments.

Webhooks
- WhatsApp acknowledges and loses a message whose identity lookup failed. A Telegram claim
  that landed but was reported as failed answers 503, and the redelivery is taken for a
  duplicate. Telegram and Pub/Sub answer 200 when processing raised. One malformed
  Messenger event fails its batch. Google Chat parses JSON before it verifies the
  request. Teams keys `_webhook_options` by activity id: the end of an overlapping
  redelivery removes the other's.

Files and workspaces
- A single-workspace Slack file cannot be fetched after a queue that serialises
  (`adapters/slack/adapter.py` 5365, 5451, 5820-5839; `chat.py` 3434-3439). An event without a team is fetched
  under the request context of whoever drains it. Slack keeps the token resolved at the start of a request;
  `_handle_slack_error` invalidates the one that is current.

Cards, modals, tools
- A button of a Teams card with inputs submits a mapping (`adapters/teams/adapter.py` 1800-1816), which
  `decode_callback_value` (`callback_url.py` 103) cannot take: the handlers do not run.
- Messenger's generic template drops text children; WhatsApp and Messenger show the first three
  buttons of the first row; Discord and Telegram drop selects and radios; Twilio drops the
  URLs of link buttons; `disabled` is honoured by Discord and Google Chat. Callback tokens
  are minted before a platform refuses a card.
- A pushed or updated modal shares the first one's context. A raising close handler stops the
  rest. Teams dialogs show external selects as nothing.
- Handlers of option loads, and of modal and action events without a thread, run with no
  conversation, so tools reach the workspace (documented).

Identities and restored objects
- A restored thread is bound by the adapter's name: an adapter registered under another
  key comes back as whoever has that key. Rebinding with only `adapter=` leaves
  the current message's subject with the old adapter.
- WhatsApp: overlapping webhooks may split one user until an event names all
  identifiers; a message that shows only a new id begins a second thread, and a later webhook that names
  that id ahead of a known one moves the user there (`Strays`); a late message of an old number makes it the route again; a failing
  state sends the message to the un-linked thread.

## 6. Proofs

Eight modules hold theorems: `LockHeartbeatProofs`, `ConversationProofs`, `StreamsProofs`,
`TelegramProofs`, `SharedStateProofs`, `ConnectionsProofs` and, at their ends, `MCConversation` and
`MCChatFair`. They rest on the assumptions on constants that TLC evaluates in the runs
(`LeaseAssumption`, `DispatchAssumption`, `CallbackAssumption`, `StreamAssumption`, `StreamsAssumption`,
`PollingAssumption`, `AlbumAssumption`, `LifecycleAssumption`, `ConnectionsAssumption`, `SharedAssumption`,
`AdapterAssumption`, `PostgresAssumption`, `RoutingAssumption`, `RequestsAssumption`, `IncomingAssumption`,
`GuardedAssumption`, `QueuedAssumption`, `WorkspacesAssumption`, `AgentsAssumption`, `RevivedAssumption`):
that bounds are naturals, that "nobody" is not a member, that a TTL or a limit of Postgres and the limit of a
queue are positive,
that Postgres has finitely many clients and a chat finitely many events.
They hold for any number of workers, deliveries, clicks, turns, calls, chunks, updates, requests,
callers or faults. A theorem about a union is drawn from the theorem about its part by the
lemma `...OfTheRun`.

`ConversationProofs` extends ChatDispatch and holds, part by part, what the `conversation` run
instantiates beside it: the constants of the part with their assumption, its variables, its
instance, its inductive invariant, and lemmas `...Initially`, `...Step`, `...Follow(s)`, which say that
the invariant holds at first, that every step keeps it and that it implies the property. `MCConversation`
extends it, does the same for `Ownership` and `WhatsAppIdentity`, and joins all into theorems about the
specification of the run.

**LockHeartbeat.** `TypeCorrect` is inductive. `LeasesAreNotResurrected`,
`ReleasesAreOwn`: per action, from the types. `LateExtends`: from `Quiet`,
which says when a worker may have an extend in flight. `TakeoverWindow` and
`HungHandlers` follow from `TimesInv`: where each call and each granted lease
stand relative to the clock. Neither is inductive alone: that `held_until`
exceeds the lease by at most the delay depends on when the extend that moved
both was sent. `RenewedLeases` follows from `RenewInv`: `Paced` places the
heartbeat in time; `Provisioned` counts how many intervals of its lease a worker
has left, for each number of extends missed; `CoveredIsLive` turns that account
into a live lease, and `OthersDoNotMatter` shows that no other worker's step
touches it. `LeaseImplemented`: every step of a row is a step of `Lease` or a stutter.
`HeartbeatSafe`, `LeasesEnd` conjoin them as the run checks them.

**ChatDispatch** (in `ConversationProofs`). The proof climbs. The lock (`HoldersHoldTheLock`): inductive with the
types of lock and labels. Admission (`DeliveriesAdmittedOnce`, with `KeyClaimed`):
an admitted message has its key or had it until it expired. Places (`MessagesHaveOnePlace`):
ghost homes say where each delivery is; sequences hold each delivery once and in
the order of arrival, `Rank`, within the queue, within a drainer's
hands and within a call. From these `MessagesAreShownOnce`. Order
(`OrderInv`, without faults): what a drainer holds is older than what is queued
(`ForeignIsOlder`), and nothing shown is newer than what is still to be shown;
from it `BatchesStayProper`.

**CallbackUrl.** That no two clicks resolve a token is not inductive: `FenceClosed` adds that
once one has, the record is gone and no other click that had read it still holds
the lock, so none can pass the fence, nor come back to it. `SpentTokensAreAnswered`
with `InsideHoldsLock`: without faults the click in the critical section holds the lock.

**TurnCancellation** (in `SharedStateProofs`). `TurnInv`, with `MarkersHarmless` (every id on its way from
the active marker through a call to the abort marker belongs to a turn that ran
during a call or is over) and `MarkerHasOwner` (without faults the turn whose id is published has yet
to look at the marker). `TurnAssumption` is a hypothesis there, and a fact of the run's instance.

**Connections.** `LifecycleInv` relates the attempt callers wait for to those a shutdown
left behind. `SocketInv` (`OneLoop`, `OvertakenAreKnown`, `CancelledAreAwaited`) and, unless a start came
across a stop, `ApartInv` (`OneRuns`, `LoopsHaveTheirClients`, `ClientsHaveTheirLoops`, `OpenIsOwned`): every open client is some
loop's and every running loop the adapter's. `MarkerInv`: a marker exists only after a
dispatch and from then on takes the place of Chat's key. `SpaceInv`: one attempt
at a time, which creates only when the list showed none, and whose outcome the
waiters share. `TokenInv`: the waiters are a queue, whoever is inside fetched only
when the cache had nothing good (`FetchedWhenNone`).

**Streams.** `StreamInv` (`TaskAndLoop`, `LastIsShown`, `WholeIsRecorded`, `ToldIsFinal`, `TypingEnds`): the edit loop
and the final edit never run at once, so the last edit acknowledged is what the platform shows.
`PlanInv` (`CallsAreChained`, `EarlierHaveEnded`, `NewerIsSent`): an edit runs only when all before it have ended.
`SegmentInv` (`TextIsKept`, `FallbackIsClean`, `CardsAreReplayed`): what the segments show, joined with what is
buffered and what is to be sent again, is the text from its start, each piece once.
`RepliesInv` (`ReplyTypes`, `ChunkTypes`, `StreamerTypes`, `TurnsAreTaken`, `StreamersAreOpen`, `ChunksAreKnown`, `PostedIsSafe`, `ReplyIsKept`) for Teams
and `PaceInv` (`LastIsKnown`, `AllIsShown`, `LimitIsKept`) for Telegram's pacing.

**Routing.** `RoutingInv`: `WaitingAreMessages`, `QuestionsAreAsked`, `RawIsAskedFor` (the host holds a task
itself only where it asked for its errors), `PostsAreAwaited` (an action is not done before its POST).
`PlacesAreCounted`: places free and messages inside add up to `max_concurrent`.

**Telegram.** `PollingInv` (`PendingIsPast`, `OffsetIsSafe`, `BatchIsNext`, `BatchIsReady`, `CompletedIsKnown`, `AlbumsShareOneFate`): below the
offset everything is done or pending in the saved checkpoint, and the parts of one album are pending,
ready or done together. `AlbumInv`: unless a lock lapsed in use, whoever reads or writes
the buffer holds its lock and has read what is there, so each part leaves it in one dispatch.

**State backends.** `SameAnswers` alone is not inductive: `AdapterInv` says what the two stores have in
common while they differ. `CachesAgree` and `ListsAgree`: they hold the same live values, though one keeps
expired ones until the next purge; `QueuesAgree`: from the first live entry on they hold the same entries, and
those before it are over for good, because entries expire in the order of their arrival.
`TokensAreFresh`: a lock's token is nobody else's, so an old handle neither extends nor frees it.

**Postgres.** `StoreInv` relates each statement in flight to the rows. `RowsAreNumbered`,
`InsertsArePrivate`: a row has one number, drawn when it is inserted, and until the commit nobody else sees it.
`DeletesAreMeant`, `PickedWereSeen`, `PicksAreOld`: what a trim or a dequeue is about to delete was
committed when it looked, and of newer rows there are as many as the limit allows.
`TakenInv`: what was taken is no longer a row, and no two clients took it. `WipeInv`: until a deletion has cleared
the list, the list holds something newer than all it is to delete, so leaving the newest row leaves none of that. `OvershootInv` ranks the clients by when they chose
what to trim: the last to choose among those that have committed left no more than the limit, and every
other client has added one entry since, or may still add one if it chose before; counting them
takes the library's facts about cardinalities.

**Webhooks.** `WebInv`: `SignedFirst` (nobody is past a route's signature without one), `ClaimIsKept`
(Telegram's claim is held by who is at the dispatch, or everything was handed over), `EventsGivenInTime` (what
lies behind a delivery in its batch has been given to handlers), `BridgeHolds` (whose options the Teams bridge has).

**Ingress.** `IngressInv`: `KnowsItself` (which adapters may not know their own id yet), `StillAsked` (what was known when an event arrived is not forgotten while its adapter asks), `HandedHome` (the thread
of an event is a function of the message it is about, `ThreadOfEvents`), `SubscribedTo`.

**Download.** `DownloadInv`: `DownloadInStep`, `OpenOnes` (only the response being looked at is open with no
close under way), `AskedAreVetted`, `BodyIsMeasured`, `DownloadInTime`. **QueuedFiles.** `FilesInv`: each file has
one way to be fetched, by the credentials it came with. **SlackWorkspaces.** `SlackInv`: beside the tokens, people, reads and
calls of a workspace, `VersionsGrow`: a request never sees an installation older than the one at its start.

**AgentTools.** `AgentInv`: `AgentInPlace`, whoever handles something is in its conversation, and between two
queued messages in that of the lock only, whatever was entered in between.

**Ownership** (in `MCConversation`). `OwnershipInv`: `SoundObject`, an object whose binding found an owner has an adapter of that owner and
no other's state; one that is not bound has an adapter; a channel was made of the thread's adapter. From it, by cases on
`from_json`, that binding an object anew is restoring its JSON.

**WhatsAppIdentity** (in `MCConversation`). `UsersInv`: `AloneIsAlone` (a webhook marked alone has nobody beside it and no write left over),
`LinksAreHealing` (what it has read still stands, and what it named leads to its user or is about to),
`ThreadsAreKnown`, `NumbersAreTold` (the route home carries no other number than that of the time, nor will a
write that is on its way give it one). The attempt to prove it showed that `ThreadsAreKept` needs a condition: a message
in a thread of its own may be followed by a webhook that names the id it came from ahead of
one of the user's known ids, and `_link` then takes the first. `Strays` says when: the identifier meant to come first (`Surest`: what a
notice says it was before the change, else an id) does not lead to the thread, and another that is named
leads elsewhere. TLC meets it from three webhooks on, so the run has three.

Each invariant was checked by TLC before it was proved; those of Teams on two messages
(67 thousand states) and three (28 million), those of Postgres on two clients (230 thousand)
and three (1.9 million).

## 7. Only model-checked

- Liveness and everything under fairness: the provers have neither ENABLED nor leads-to.
- Induction over data: what a fold over lines of Markdown computes. That is `EveryLineIsSent` and
  `PrefixesStand`.
- `WalksAreWhole` and `PostsAreWhole`. A walk concatenates pages that an adapter cuts with filters and folds,
  and what a card or a form shows is computed over its elements: their content is what an adapter does with each
  case, which TLC enumerates.

## 8. Not modelled

The rollback of inline markers in streaming Markdown; a wrapped table followed by a
fenced one; code fences and table headers that a Slack segment repeats; the inside of
the Teams SDK's stream, beyond its flushes; the exact millisecond at which Redis drops a key; drift
between clocks; a deadlock of Postgres's row locks other than as a failure; `set_state`'s lost
update, which is known; the purge of the in-memory backend; a queue of `max_size` 0, which memory keeps empty and
Redis does not trim, and negative limits (`AdapterAssumption` excludes both); two
`shutdown()` calls at once, and calls served while it runs; slack_sdk's own reconnection; GitHub's
eviction at 100 tokens; `list_threads`; Discord's direct messages; converters between formats,
templates, canvases, directory lookups, and the validation of signatures and JWTs, which are
pure functions or somebody else's. The handlers of a Telegram group are one step, and a
polled album is not taken apart again where one part's call to the buffer failed. A `stop()` of a Slack stream
that opened a segment before it failed leaves an empty message, which the text of the reply does not
show.


## 9. Plan

What is left, most telling first.

1. `PostsAreWhole`: that the calls made for one message stay in their order and that each is answered
   once, in `Posting`; that a press comes back as it was made, in `Cards`, platform by platform.
2. `WalksAreWhole`: that a page and its cursor part the history, adapter by adapter; the step to a whole walk
   is an induction over pages.
3. Pure functions that no module has: the converters between formats, and `list_threads`.
