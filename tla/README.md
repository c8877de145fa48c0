# Telegramer in TLA+

TLA+ models of Telegramer, a Deluge plugin that lets people of a whitelist add
torrents and RSS subscriptions from Telegram chats, with the TLC
configurations that check them and the theorems TLAPS proves. The plugin's own
code is `src/telegramer/core.py` (class `Core`, 1200 lines); what it relies on
is the copy of python-telegram-bot in `src/telegramer/include/telegram/ext/`.
Paths below are relative to `src/telegramer/`.

## 1. The system

| Component | Where | State | Operations |
|---|---|---|---|
| Conversations | `core.py` 482-1019, 1165-1203; `include/telegram/ext/conversationhandler.py`, `dispatcher.py` 518-583 | `ConversationHandler.conversations` of the three handlers; `Core.opts`, `label`, `is_rss`, `yarss_data`, `magnet_only` | `/add`, `/addpaused`, `/rss`, `/cancel`, one callback for each state, the global magnet and document handlers |
| Lifecycle | `core.py` 227-378, 1036-1049, 1126-1148 | `whitelist`, `notifylist`, `bot`, `updater`, `timer`, the event handlers registered with Deluge, `config` | `enable`, `disable`, `set_config`, `restart_telegramer`, `connect_events`, `disconnect_events` |
| Update delivery | `include/telegram/ext/updater.py` 360-828, `dispatcher.py` 443-583 | `last_update_id`, `update_queue`, the polling and dispatcher threads, the updates Telegram keeps | `start_polling`, polling, `process_update`, `stop` |
| Outgoing messages | `core.py` 383-416 | none | `telegram_send` |
| Notifications | `core.py` 1024-1113 | the timer; the time each torrent was added | `check_speed`, `on_torrent_added`, `on_torrent_finished` |
| Listing | `core.py` 200-211, 1115-1123 | none | `list_torrents`, `format_torrent_info` |
| Preferences | `gtkui.py`, `gtk3ui.py`, `webui.py`, `data/telegramer.js` | widgets | call `get_config` and `set_config` |
| Packaging, vendored libraries | `setup.py`, Dockerfiles, `include/` | - | - |

How they interact. Deluge runs `enable()` and everything registered with it in
the Twisted reactor's thread. `enable()` makes an `Updater`, whose polling
thread asks Telegram for updates and puts them in a queue, and whose dispatcher
thread takes them out one at a time and offers each to the handlers in the order
they were added: `conv_handler` (`/add`), `conv_handler_paused`
(`/addpaused`), `conv_handler_rss` (`/rss`), `send_document`, `find_magnet`,
then the commands. The callback of the first handler that accepts the update is
a method of the **one** `Core` object; it may call Deluge's core, the Label
plugin and YaRSS2, and returns the state the conversation goes to. Every
callback first checks that the chat is in `Core.whitelist`. `set_config` saves
the preferences and calls `restart_telegramer`, that is, `disable()` followed by
`enable()`, from the reactor's thread, whatever the dispatcher thread does
meanwhile.

What is hard, and what makes each part correct:

* **Conversations.** The conversation's place is kept per chat, by a
  `ConversationHandler`; what it has collected is kept once, in `Core`. Two
  chats, or one chat with two open conversations, write over each other's
  answers; answers are offered to the *first* handler with an open conversation,
  not the last one opened; callbacks that raise keep half of what they did;
  `is_rss`, `opts` and `yarss_data` survive a restart and conversations do not;
  `/cancel` is a text like others to `Filters.text`. Correct means: a torrent
  gets what its own chat chose, at most once unless its label could not be set; a
  subscription is complete; an `/add` never becomes a subscription; who leaves the
  whitelist leaves the conversations; every conversation can be brought to its end.
* **Lifecycle.** `enable()` and `disable()` do many things in order, each of
  which may raise, and part of their work runs two seconds later. Correct
  means: at most one polling `Updater`; after `disable()` nothing of the plugin
  remains registered; lists and bot are those of the same preferences, and a bot
  that these cannot make is not replaced by the one of before going on. (A
  `set_config` that fails half-way leaves stored preferences that no bot was
  started with, see section 5.)
* **Update delivery.** Correct means: an update acknowledged to Telegram has
  been put in the queue, and one in the queue is offered to the handlers before
  the dispatcher stops; one that is delivered twice is delivered after a
  restart; the errors that the poller puts between the updates do not disturb
  this, nor keep `stop()` from returning.
* **Outgoing messages, notifications.** Two threads send at once, a send may
  raise, and the lists change in between. Correct means: a text arrives in
  order, at every recipient the lists name and at no one else; each new torrent
  is announced once, old ones not at all.

## 2. The modules

| Module | Models |
|---|---|
| `Conversations` | the three ConversationHandlers, the global handlers, all callbacks that change state, restarts as the conversations see them |
| `ConversationsHistory` | `Conversations` plus history variables: what each chat has chosen, what each conversation has delivered |
| `Inbox` | the abstract specification of update delivery: what users are promised about their messages |
| `UpdateDelivery` | the polling thread, the dispatcher thread and the reactor between Telegram and the handlers; implements `Inbox` |
| `Service` | the abstract specification of the plugin: what someone who switches it on and off and configures it is promised about the bot |
| `PluginLifecycle` | switching on and off, configuring and restarting the plugin; implements `Service` |
| `Outbox` | `telegram_send` from two threads |
| `Notifications` | `Outbox` composed with the events, the timer and the daemon that cause messages |
| `ConversationsProofs`, `HistoryProofs`, `UpdateDeliveryProofs`, `PluginLifecycleProofs`, `OutboxProofs`, `NotificationsProofs` | the theorems about the modules above (`OutboxProofs` only lemmas, for `NotificationsProofs`) |
| `MCConversations`, `MCHistory`, `MCDelivery`, `MCLifecycle`, `MCNotifications` | the instances for TLC |

The modules meet where the code's parts meet, each seeing as much of the other
as it needs: `Conversations` takes the updates one at a time and in the order
that `UpdateDelivery` proves (`Process` there stands for `process_update` here);
`UpdateDelivery` has `disable()` and `enable()` step by step where they touch
the threads, `PluginLifecycle` has them whole with all their failures, and in
`Outbox` they change the lists. `enable()` in `Outbox` waits for the dispatcher's
call to be over: that is `StopIsFinal` of `UpdateDelivery`. It holds for a
`disable()` that reaches `telegram_poll_stop()`; after one that ended at its timer
(`bot_is_replaced`) the old dispatcher may go on with a listing for the old lists,
and `Outbox` does not have that.

A definition whose name begins with `Faulty`, or that a comment calls so, is a
variant of the next one with a bug a programmer could have left. No action uses
it; put in the place of the right one it violates the property that PROJECT.json
names for it.

### `Conversations` and the code

| TLA+ | Code |
|---|---|
| `conv[h][u]` | `conversations` of `conv_handler`, `conv_handler_paused`, `conv_handler_rss`; `"IDLE"` is no entry |
| `opts`, `label`, `is_rss`, `yarss_data` | the attributes of `Core` of the same name (`yarss_data.subscription_data`) |
| `whitelist`, `enabled` | `Core.whitelist`; between an `enable()` and the next `disable()` |
| `out` | what the last update made the bot say, hand to Deluge and hand to YaRSS2 |
| `check_update`, `Handles`, `Entry`, `InState`, `Fallback`, `NoConversation` | `ConversationHandler.check_update` and the loop of `Dispatcher.process_update` |
| `ReplyAndReturn`, `Return`, `ReturnNone` | the callback's reply and return value, `_update_state`, and the exceptions that end in `dispatch_error` |
| `add` ... `no_effect` | one action per callback, with all it calls (`rss_apply` and `addRss` are part of `category`; `prepare_categories`, `prepare_torrent_type`, `apply_label` are part of the callbacks that end with them) |
| `process_update(u, m)` | the dispatcher hands update `m` of chat `u` to the handlers; the whitelist test included |
| `enable(W)`, `disable` | `enable()` with whitelist `W`; `disable()` |

An action is one whole callback, for the dispatcher runs them one at a time.
Where calls of the callback may raise, the action has a disjunct for each
outcome the state can tell apart, the assignments made before the exception
included. `MayFail` says which calls may raise in an instance: `reply`
(`reply_text` and the keyboards), `mkdir` (`os.makedirs`), `label`, `deluge`
(adding the torrent), `fetch` (downloading a file or a URL), `rss` (YaRSS2),
`norss` (YaRSS2 is not there) and `nofeeds` (its feeds were deleted meanwhile).

What is abstracted:

* Chats are private, so that user and chat, the two parts of the conversation's
  key, are one. A group of several whitelisted users would have one key per
  user and the same shared attributes.
* A message is one of a few texts and documents; what `re.findall`, `is_magnet`
  and `is_url` say of it is given by the sets `MagnetTexts`, `IsMagnet`,
  `OneMatch`, `MatchIsMagnet`, `IsUrl`. Templates' expressions are kept as the
  template's name and the keyword that has replaced `NAME`; a keyword is assumed
  not to contain `NAME`.
* `magnet_only` is `True` only inside `find_magnet`, so no variable holds it.
* `/list` stands for the commands that read (`/status`, `/down`, `/up`,
  `/paused`, `/queued`, `/help`): they change nothing.
* Edited messages raise at the first line of a callback and change nothing.
* A callback sees one whitelist. In the code `disable()` may empty it between
  the test of a callback and that of the callback it calls, which then returns
  `None`, as a reply that raises does.
* One `Updater` at a time, and `enable()` and `disable()` succeed;
  `PluginLifecycle` drops both.

### `UpdateDelivery` and the code

| TLA+ | Code |
|---|---|
| `sent`, `acked` | Telegram's side: the updates 1..`sent` exist, those up to `acked` are forgotten because a request named a later offset |
| `poller` | where `Updater._start_polling` is: in `_bootstrap`, at the head of `_network_loop_retry` (`loop`) or in its `sleep` (`pause`), with a request under way, with a reply in hand (`batch`), or ended; `unready` is ended before `ready.set()` |
| `last_update_id`, `running`, `queue`, `stop_event`, `exception_event` | the attributes of `Updater` and `Dispatcher` |
| `dispatcher` | where `Dispatcher.start` is: before `get(True, 1)`, after `queue.Empty` but before the events are read, in `process_update`, or ended |
| `Ask`, `Answer` | `get_updates` reaching Telegram, its reply |
| `TimedOut`, `NetworkError`, `InvalidToken` | how a request fails (lines 645-666): asked again at once after `TimedOut` and after a pause for `RetryAfter`; any other `TelegramError` is put in the queue by `polling_onerr_cb`; `InvalidToken` ends the thread |
| `Process`, `ProcessError` | `process_update` of an update; of an `Error`, which goes to `Core.error` and is logged |
| `CheckRunning`, `Put` | `updater.py` 604-612: the reply is dropped when `running` is off; the offset moves only after the last update is in the queue |
| `ClearRunning`, `StopDispatcher`, `DispatcherStopped`, `Join` | `Updater.stop` in its order |
| `FillWhitelist`, `start_polling`, `Ready` | `enable()`: the lists first, then a new `Updater`, then the wait for `polling_ready` |
| `Crash` | the daemon dies at any point |

An action is what a thread does between two points where another one can see or
change something. Updates are numbered as they are sent; what they say does not
matter here, nor does it which error an `Error` in the queue is. Left out: webhooks,
the job queue and `run_async` (the plugin uses none). An `Updater` whose
`start_polling` raised before it had threads is in `PluginLifecycle`
(`enable_without_threads`), not here: its `stop()` has nobody to wait for.

`Stalls` is the one thing assumed of the scheduler. `Dispatcher.start` catches
`queue.Empty` and only then reads the stop event. If the thread is held up
between the two for as long as the poller takes to put a reply in the queue,
wait for its poll interval and acknowledge it with the next request, and
`stop()` sets the event meanwhile, then the dispatcher ends with acknowledged
updates in its queue, which no one will ever handle. With `Stalls = FALSE` the
poller does not get through a poll interval (`pause`; nothing is acknowledged
from `loop`, where no reply came before) while the dispatcher is at that point; with `Stalls = TRUE` TLC violates `PulledAgain`. "Updates ignored and
will be pulled again on restart" (`updater.py` 606) is thus true up to a thread
that stalls for a poll interval between two bytecodes. The four theorems that
need it (`NothingForgotten`, `NothingGetsLost`, `ImplementsInbox`, `FewRepeats`)
have `~Stalls` as an explicit assumption; the others hold at any speed.

`Inbox` knows the number of the update that is handed over next and how many
calls of the handlers there were. A restart may step back by at most `Window`
updates, for which `UpdateDelivery` gives the size of a reply; only a crash may
skip. The instance `anyspeed` reads the same specification with the restarts
counted as crashes: what is left is that one `Updater` keeps the order.

### `PluginLifecycle` and the code

| TLA+ | Code |
|---|---|
| `config` | the keys of `Core.config` that decide what `enable()` does; texts of lists are the pair of lists they describe |
| `core`, `on` | which `Core` Deluge made last, and whether the plugin is switched on |
| `updater`, `orphans` | `Core.updater`; how many running Updaters nobody refers to |
| `pending` | the calls of `reactor.callLater(2, ...)`, in their order |
| `Usable` | whether `Request(**REQUEST_KWARGS)` takes the proxy (`request.py` 160-195: PySocks there, a scheme that urllib3 knows) and `Bot()` the token |
| `enable`, `enable_without_token`, `enable_without_bot`, `enable_without_threads` | the four ways through `enable()`: everything works; no token; `Request()` or `Bot()` raises; `start_polling` raises after it has set `running` |
| `started` | history: the preferences that the last `enable()` read |
| `polling_ready` | `start_polling` returns when the bootstrap has reached Telegram; until then the reactor's thread is taken |
| `disable`, `disable_aborted` | `disable()`, and its end at `self.timer.stop()` of a timer that does not run |
| `set_config`, `set_config_raises` | lines 1125-1141: the keys are stored one by one; at an unknown key or a text where a number belongs the rest is skipped, and so are `save()` and the restart |
| `connect_events`, `disconnect_events` | the delayed calls, made by the Core that asked for them |

All of it runs in the reactor's thread, so a step is a whole call, or the part
of it up to where it waits. `disable_aborted` happens for a negative
`user_timer` (`LoopingCall.start` refuses it) and for a timer that was stopped
before. The history variable `aborted` marks this failure, which the code does not
repair; `partial` says that a `set_config` has stored some keys and raised, so that
the preferences stored are not those the bot was started with.

`Service` sees of this the preferences, whether the plugin is switched on, and
`Serving`: the token and the lists of the running `Updater`, or nothing. There
`Start` (an `enable()` that succeeds) needs that no bot serves and takes the
preferences of that moment, `Stop` is the part of `disable()` that ends the bot,
`Configure` may change the preferences and never the bot, and after `Break`
(`aborted`) nothing is promised. That `enable()` fails in many ways, that lists
and token are assigned one after the other, and that an `Updater` may run without
threads, are steps that `Service` does not see or must be able to explain.

### `Outbox`, `Notifications` and the code

| TLA+ | Code |
|---|---|
| a text | the lengths of its lines; `Length` is `len(message)` |
| `call[t]` | the frame of `telegram_send` in thread `t`: `to` without the chats that were served, and the lines `first`..`next-1` that `tmp` holds |
| `NextChat` | the filter of line 397; with `len(message) > 4096` |
| `SendWhole`, `AddLine`, `LastLine` | the two branches; a piece goes out when `tmp` has become longer than 4000, and is refused when a line has made it longer than 4096; what `tmp` holds after the last line is dropped |
| `Fails` | `send_message` raises: nothing in `telegram_send` catches it, the rest of the chats get nothing |
| `sent`, `skipped`, `failed` | history: the pieces each chat got, the chats the filter left out, the texts an exception cut off |
| `on_torrent_added`, `on_torrent_finished`, `check_speed` with `NextSlow`, `SlowFails` | lines 1024-1034 and 1050-1113; the one `try` around the loop of `check_speed` is why an exception ends all of this check |
| `checked` | history: the slow torrents that the last `check_speed` found, and the number of its first message |
| `AddTorrent`, `LoadTorrent`, `StartDaemon` | Deluge: a torrent is added; a starting daemon adds all it knows again with the same event |
| `Window` | the 300 s of line 1065 |

The order in which a chat list is served is any order (`Orders`): the lists come
out of Python sets. The bot exists (`if self.bot`), Markdown never fails by
itself, and formatting is left out: a notification is one short line, a listing
is any of `Listings`.

## 3. The runs

| Run | Instance | Shows |
|---|---|---|
| `one_chat_rss` | one chat; `/add`, `/rss`, `/cancel`, an answer that fits `TORRENT_TYPE`, a feed, templates with and without `NAME`; replies and YaRSS2 may fail, feeds may have been deleted | `TypeOK`, `AddIsNotRss`, `SubscriptionComplete`, `DeliveredOnce` (of subscriptions), `OnlyForward` |
| `adding` | whitelists `{a}` and `{b}`, every way to add a torrent, a feed but no templates; every call may fail | `OnlyWhitelistedConverse` |
| `conversations_end` | one chat, `/addpaused`, `/rss`, `/cancel` and the text that leads on in every state; under `LiveSpec` | `ConversationEnds` |
| `two_chats` | chats a and b in one whitelist, `/add`, `/cancel`, a directory, labels, a torrent file; replies, downloads, Deluge and labels may fail | `HTypeOK`, `ChoicesKept`, `DeliveredOnce` (of torrents) |
| `delivery` | three updates, replies of up to two, three Updaters, one crash, one network error in the queue at a time; the poller may die in its bootstrap or later; under `LiveSpec` | `TypeOK`, `PulledAgain`, `NothingLost`, `StopIsFinal`, `RepeatsAreFew`, `OnlyDrainIgnores`, `StopGetsCloser`, `DeliversInOrder` (implements `Inbox`), `StopEnds`, `EveryUpdateIsHandled` |
| `lifecycle` | two tokens besides none and a malformed one, two pairs of lists, a speed limit or none, a good and a bad timer, a usable and an unusable proxy, the sets of keys the dialog and the web page send; two Cores | `TypeOK`, `NoOrphans`, `AsConfigured`, `EventsFollow`, `OffIsOff`, `ServesAsPromised` (implements `Service`) |
| `notifications` | three chats, two pairs of lists, two torrents, two texts of those too long for one message and notifications at the same time, a restart of the daemon | `TypeOK`, `BeginningInOrder`, `OnlyTheEndIsLost`, `EverySlowIsTold`, `OldTorrentsAreQuiet`, `NothingToStrangers` |
| `cancel_is_an_answer`, `stale_directory`, `shared_choices`, `bot_is_replaced`, `list_is_cut` | as little as the counterexample needs | where code and documentation disagree, section 5 |

**Bounds.** `Conversations` has no counters, and `delivered` is one of five words:
everything is bounded by the sets of texts. Each answer falls in few classes (names a category
or not, quoted or not, a feed, a template with or without `NAME`, a magnet, ...),
and each run has a text for every class its properties tell apart; a text that
belongs to no class serves as label, keyword and wrong answer. In
`conversations_end` one text is feed, template and category, because
the temporal property is dear and only states matter to it. Two chats are enough
for what is shared: a callback of a third one writes the same attributes.
`/addpaused` is in `adding` and `conversations_end`, not in the two runs with a
memory, which it would make too long; there the theorems cover it.
Deadlock is checked in all runs of `Conversations` and `ConversationsHistory`;
the other modules stop where their bounds on updates, restarts, texts and time
are used up, so their runs do not check it (`StopEnds` and
`EveryUpdateIsHandled` say what must not stop).

`delivery` (493,107 states): three updates in replies of two make a full reply,
a shorter one, an update in hand with another in the queue and a third on the
way. Three Updaters (`MaxRestarts` counts them, the first included) let one
restart follow another while the first one's updates are handed over again; one
crash suffices, for it forgets everything but Telegram's side. One `Error` at a
time in the queue (`MaxErrors`) stands before, between or behind updates, and
another may follow when it has been taken out. All of its
properties but the last two are also proved for any bounds.

`lifecycle` (684,288 states): two Cores, so that the second is made while the
first one's delayed calls are under way; three delayed calls, the two of a
restart while one of another is under way; one orphaned Updater, since none is
what is claimed. `Room` keeps calls that need more from beginning.
`set_config` may raise at the speed limit, which has keys before it (the token and
the lists) and after it (the timer and the proxy).

`notifications` (3,472,848 states): a limit of 8 and a threshold of 4 instead of
4096 and 4000 leave room between the two for a piece that one more line makes
long enough, and for a line that makes it too long. Two texts overlap, one in
each thread; two list pairs differ in one chat of each kind. A window of one
tick within three, and one start of the daemon, give starts within and after the
window. Two texts are also a check that speaks of both torrents, two checks, and a
listing that fails inside a check. The two torrents are symmetric, and no property
names one of them.

**Fairness.** `LiveSpec` of `Conversations` assumes strong fairness of
`Moves(h, u)`: if again and again chat `u` could send a text that the conversation `h` takes and that moves
it, then some day it does and the callback does not fail. That is an assumption
about people and about the services the bot calls, not about the scheduler; what
the property then says about the code is that there always *is* such a text.
It is strong because `/add` takes the texts while it is open, and `/rss` must
wait. Without the fallback, a conversation in a state its handler does not know
would be stuck; `ConversationEnds` finds that.

`LiveSpec` of `UpdateDelivery` assumes that the threads run, that callbacks
return, that Telegram's bootstrap call succeeds in the end, that a `disable()` is
followed by the `enable()` of its restart, and that a network which fails again
and again also answers again and again (strong fairness of `Ask` and `Answer`).
`Loop` is strong only because `~Stalls` may disable it each time the dispatcher
is between its two reads. Nothing is assumed of the people, of restarts or
crashes. The properties then say that the reactor's `stop()` ends although it
waits for both threads, and that everyone who writes is handled, or met a bot
that was being stopped, a crash, or a poller whose token was revoked.

## 4. What is proved

All theorems hold for every value of the constants that satisfies the
assumptions named in the modules; what else a theorem assumes, it says.

### `ConversationsProofs`

Of the constants it is assumed that whitelists are sets of chats, that `DirOf`
names a directory for each category and quoted text, and that `None` is none of
the data.

* `TypeCorrect`: `Spec => []TypeOK`. One lemma for each group of callbacks.
* `WhitelistRespected`: `Spec => []OnlyWhitelistedConverse`, for any number of
  chats in the whitelists. The invariant is strengthened with
  `~enabled => whitelist = {}`: updates that the dispatcher drains after
  `disable()` must not begin a conversation, or `enable()` would be
  the only thing that keeps the property.
* `AddNeverRss`: `Spec => []AddIsNotRss` and `SubscriptionsComplete`:
  `Spec => []SubscriptionComplete`, when no whitelist holds two chats
  (`SoleOwner`). With two chats both are false, see section 5.

The last two need the inductive invariant `IInv`. That a saved subscription is
complete is decided by the answer to *which directory*, three callbacks after
the feed was stored, so `RssAnswered` says for each state of the `/rss`
conversation what `yarss_data` already holds: a feed in `REGEX`, a template with
`NAME` too in `FILE_NAME`, a keyword too in `CATEGORY`. It says so only while
`is_rss` is set, for `/cancel` and `/add` of an overlapping conversation clear
both `is_rss` and, perhaps, `yarss_data` and leave the `/rss` conversation where
it is; that they always clear the flag when they clear the data is the heart
of the argument, and forgetting it in `cancel` is the mutant of the run. The
steps are grouped by what they do to these attributes: *quiet* callbacks leave
`is_rss` and `yarss_data` alone and move no conversation into `CATEGORY`
(`QuietKeeps`), *resetting* ones clear `is_rss` (`ResetKeeps`), and those of
`/rss` advance one conversation (`RssEntryKeeps`, `RssActionKeeps`,
`ApplyKeeps`), which is the only one of its kind because the whitelist has one
chat (`SoleConverser`) and no open `/add` can be ahead of it
(`RssIsNotShadowed`).

### `HistoryProofs`

* `HistoryTyped`: `HSpec => []HTypeOK`; `HSpec` implies `Spec`, so that
  `TypeCorrect` gives the part about `Core`.
* `ConversationsGoForward`: `Spec => OnlyForward`, whatever fails and with any
  number of chats. `AnswersLeft` bounds the questions a conversation has left in
  each state, also in those its handler does not know; no callback ever returns a
  state with more. This is the half of `ConversationEnds` that is safety: a
  conversation moves at most seven times before it ends, so that nothing but an
  answer that never comes, or never counts, can keep it open.
* `ChoicesAreKept`: `HSpec => []ChoicesKept`, for any number of chats, when
  `mkdir` may not fail: a directory that cannot be made is left out, and the chat
  is not told. The Label plugin may fail; then only the label is missing, and
  `delivered` says so.
* `PauseAndLabelAreKept`: `HSpec => []PauseAndLabelKept`, whichever calls fail:
  what a failure takes away is the label or the directory; the torrent is still
  paused exactly if the chat said `/addpaused`, and has no label of another. No
  run lists this property: in `two_chats`, where `mkdir` does not fail,
  `ChoicesKept` implies it.
* `NothingTwice`: `HSpec => []DeliveredOnce`, whichever calls fail. A torrent can
  come twice only from a chat that chose a label, after the Label plugin raised,
  and a subscription after its confirmation raised; what was handed over whole
  never comes again. A conversation that has delivered whole or without a label
  asked for is over.

The first half of the module says of each callback (`Took`, `TookNone`, one
lemma for each group) which conversation it moves and that it moves it forward,
whether it may assign the shared attributes, and what it hands over. The
invariants need no more: `Kept` says that as long as nobody interfered `opts` is
what this chat was told (`AsTold`; without its directory if that could not be
made), and `label` from the state after `SET_LABEL` on; `Delivery` that what is
handed over `Fulfils` it; `Ended` that a conversation that has delivered whole is
`IDLE`, and one that has delivered without its label has one chosen. That other conversations, those of the same chat included, leave `Kept`
alone is `OthersKept`, which rests on `OneHandler`: an update is handled by at
most one conversation.

### `UpdateDeliveryProofs`

Whatever the speed of the threads: `TypeCorrect`, `StopEndsThreads`
(`StopIsFinal`), `IgnoredWhileStopping` (`OnlyDrainIgnores`), `StopIsNear`
(`StopGetsCloser`) and `InOrderAtAnySpeed` (`SkipsOnlyBetweenUpdaters`). Their
inductive invariant `Inv` is, next to the types, `InOrder`: what was handed over,
what is in hand and what is in the queue are consecutive; `Offsets`: they end at
most `Limit` after what Telegram has forgotten, and `last_update_id` follows;
`Stopped`: what each step of `stop()` has brought about.

Under `~Stalls`: `NothingForgotten` (`PulledAgain`), `NothingGetsLost`
(`NothingLost`), `ImplementsInbox` (`Spec => inbox!Spec`) and `FewRepeats`
(`RepeatsAreFew`). `IInv` adds two parts to `Inv`. `Acknowledged`, the one that
`~Stalls` is needed for, says that a dispatcher which has found its queue empty
has handed over everything that is acknowledged or will be by a request under
way; `PulledAgain` follows at once. `Handled` says that without a crash every
update up to `upto` was heeded or ignored, so that an acknowledged one is among
these or, by `InOrder`, in hand or in the queue. Under the refinement `next` is
`upto + 1`; a new `Updater` steps back to `acked + 1`, which `Offsets` bounds by
one reply: it is Inbox's `Restart`. `RepeatsAreFew` is an invariant of `Inbox`
and is proved there (`InboxRepeats`), then carried over by the refinement.

`StopGetsCloser` is the half of `StopEnds` that is safety. `Remaining` weighs what
the three threads still have to do before `stop()` returns; an update in the
poller's hand weighs three, for it becomes one in the queue, which weighs two, and
one in the dispatcher's hand; a request under way weighs four, for it may end in
an error in the queue and a pause. While `stop()` waits, each step of a thread lowers
the sum (`PollerGetsCloser`, `DispatcherGetsCloser`). What remains for fairness,
and for TLC, is that such a step is taken. `running` is off by then, and a poller
that asked once more without looking at it breaks the property: that is its mutant.

### `PluginLifecycleProofs`

`TypeCorrect`, `OneUpdater` (`NoOrphans`), `BotAsConfigured` (`AsConfigured`),
`EventsAreHeard` (`EventsFollow`), `OffStaysOff` (`OffIsOff`), for any tokens,
proxies, lists, bounds and failing calls. `AsConfigured` compares bot and lists with
`started`, what the last `enable()` read, and `started` with what is stored; so it
speaks of the time after a half-failed `set_config` too, and of an `enable()` that
could make no bot, after which none may poll. `NoOrphans` alone is not inductive: `Alone` says
that no Updater runs when `enable()` is about to make one. `EventsFollow` speaks
of the time after the delayed calls; its invariant `Hearing` says at every moment
what the calls still to be made *will have done*: `Hears(p, s, c)` is decided by
the last call of `c` in the list `p`, and by the registered handlers `s` if there
is none. So it does not matter that after a restart the disconnection comes
before the connection, nor how many restarts happen within two seconds.

`ImplementsService` (`Spec => ServesAsPromised`) maps each step to one of
`Service` or to a stutter. It needs `NoOrphans`' invariant (`enable()` begins
with no `Updater` that runs, so that `Start` finds no bot) and nothing of
`AsConfigured`: that the lists do not change while a bot serves is seen step by
step: `enable()` assigns them before the new `Updater` runs, and `disable()`
empties the whitelist in the same call that ends the old one.

### `OutboxProofs` and `NotificationsProofs`

`TypeCorrect`, `InOrder` (`BeginningInOrder`), `EndLost` (`OnlyTheEndIsLost`),
`SlowAreTold` (`EverySlowIsTold`), `OldAreQuiet` (`OldTorrentsAreQuiet`) and
`ListsRespected` (`NothingToStrangers`): every property of the run, for any
chats, texts, lists, window and numbers of calls and starts. `OInv` is about one
call: what `tmp` holds begins after the last line that was sent, two threads never
work on the same text, and past the filter the chat is in the lists unless the
bot is being stopped. `Turns` is about a whole text: the chats before the one
that is served have been served, and of this one's lines at most `Chunk`
characters wait in `tmp`. `Quiet` is about announcements: of a torrent that the
starting daemon has yet to add again, this start is not counted yet, so that its
announcement may be. `CheckGoes` is about `check_speed`: while it goes on, the last
notification is its own (so that the failure `SlowFails` finds is one of this
check), and every torrent it has found was told of or is still in `slow`, unless
one of its messages failed.

### Only model-checked

`ConversationEnds`, `StopEnds` and `EveryUpdateIsHandled`: liveness under
fairness is out of TLAPS's reach. Of the first two the part that is safety is
proved (`OnlyForward`, `StopGetsCloser`), of the last one that nothing which was
acknowledged is lost (`NothingLost`). Every invariant, action property and
refinement of the passing runs is proved, under the assumptions named above.

## 5. Where the code and what it says differ

| Run | What happens |
|---|---|
| `cancel_is_an_answer` | "Send /cancel at any time to abort" (`core.py` 138), but the filters of all text states accept commands: `/cancel` is stored as label, keyword or directory and the conversation goes on. |
| `stale_directory` | "Use Default Settings" (137) at the end of `/rss` saves the subscription with the directory of the last `/add`, since only `/add` and `/addpaused` empty `opts`. |
| `shared_choices` | Two chats at `/add`: the torrent of one gets the directory or label of the other (515). |
| `bot_is_replaced` | A negative `user_timer` makes a timer that never runs; `disable()` ends at its `stop()` (371), before `telegram_poll_stop()`, and `enable()` puts a second `Updater` beside one that goes on polling and that nothing refers to any more. 1139: "Restart bot service". |
| `list_is_cut` | A listing of more than 4096 characters is sent without its end, up to 4000 characters of it (403-409). 470: "/list - List all torrents". |

Also seen, without a run of their own:

* `category` returns `SET_LABEL` to the `/rss` conversation when an overlapping
  conversation has reset `is_rss`; `conv_handler_rss` has no such state. The
  conversation can still be cancelled (`ConversationEnds`).
* README.md of the repository (49) says that additional users can use `/add`, and
  that "all other commands and notifications will only be available to and
  received by the bot owner". The code has one whitelist: every chat of it can use
  every command (258-267, 483), and those of `telegram_users_notify` are notified.
* A label that cannot be set is answered with "Download failed" in `add_url`, or
  not at all (1019), and the torrent was added; sent again, it is added again.
  `DeliveredOnce` says that one conversation adds a torrent twice in no other way.
* A `set_config` that raises at a key (1131) has stored the keys before it; nothing
  is saved or restarted, and a later one that finds nothing changed does not
  restart either. Until the next restart the bot is not that of the stored
  preferences (`partial` in `AsConfigured`).
* With two chats, `/cancel` in one clears the feed the other has picked, and
  another `/rss` sets the flag again, so that an incomplete subscription is saved
  (`SubscriptionComplete` with two chats).
* After `/addpaused` with default settings, `/rss` with default settings ends in a
  `KeyError` (790) without an answer; a keyword sent twice because the reply
  failed names the subscription differently from its expression (772).
* `enable()` with a token that `Bot()` refuses (294) or a proxy that `Request()`
  cannot use (293) leaves `bot` as it was, while the lists are the new ones, the
  timer runs and the events are connected: notifications for the new lists go out
  with the old token, and no commands are answered. When `get_me` raises in `start_polling`, the `Updater`
  says it runs and has no threads; the next restart repairs both.
* `start_polling` waits in the reactor's thread for a bootstrap that is retried for
  ever: without a network Deluge waits with it. A poller that ends inside the
  bootstrap never reports itself ready (`"unready"`), and `Ready` never comes; that
  is why `StopEnds` does not speak of `enable()`.
* A listing with a line of more than 95 characters may make a piece longer than
  the 4096 that Telegram takes, since 4000 is tested after the line was added: the
  exception drops the rest. A chat that has blocked the bot silences those after
  it in the list, and in `check_speed` the slow torrents after the first.
* Torrents added less than 300 s before the daemon is restarted are announced
  again (1066).
* A thread that stalls at `dispatcher.py` 475-476 loses updates, see `Stalls`
  above.

## 6. Not modelled

* **Vendored libraries**: `include/` holds python-telegram-bot, `future`,
  `tornado`, `requests` and more, over 98 % of the lines in `src/`. The parts of
  `telegram.ext` that route, poll and dispatch are modelled, and nothing else is:
  the rest is reached through `Bot`'s calls, whose outcomes (a result, an
  exception, a lost reply) the modules enumerate. The share of all lines that the
  models cover is therefore small; of `core.py` they cover what changes state.
* **Text without state**: `format_torrent_info` and `list_torrents` format what
  Deluge says; `Outbox` takes any listing. `/status`, `/help` and their kind are
  `/list`.
* **Dialogs**: the widgets of the GTK and web preferences, beyond what they send to
  `set_config`; loading and saving of the config file.
* **Deluge and YaRSS2**: not in the repository. The callbacks call Deluge from the
  dispatcher's thread although it expects the reactor's; what that can break is
  inside Deluge.
* **Commands that cannot run**: `/reload` is bound to a method without parameters
  and ends in a `TypeError`.
* **Packaging**: `setup.py`, Dockerfiles, scripts.
