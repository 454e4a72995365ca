# A verification project for Bobby

Bobby is an assistant for Pebble watches. A user speaks to the watch app
(`app/src/c`, C), the companion program on the phone (`app/src/pkjs`,
JavaScript) carries the prompt to a web service (`service/`, Go), and text,
widgets and actions come back the same way. This directory holds TLA+ models of
the parts of that system whose correctness depends on the order of events,
their TLC configurations, and TLAPS proofs about them. Paths below are relative
to the root of the repository.

## 1. Inventory

| Component | State it keeps | Operations | Talks to |
|---|---|---|---|
| Phone message queue, `lib/message_queue.js` | queue, two counters of what is in flight | `enqueue`, `dequeue`, two callbacks per send, a retry timer | the Bluetooth link; called by every session, action and image |
| Alarm manager, `alarms/manager.c`, `alarm_window.c` | sorted array in memory, parallel arrays in flash, events in the system's wakeup service | add, cancel, save, load, ring, snooze, dismiss | phone (requests), conversation (actions and widgets), the system |
| Alarm menu, `menus/alarm_menu.c` | rows of a menu layer, a selected row, an empty state | open, reload, select, delete | alarm manager, alarm windows above it |
| Conversation, `converse/conversation.c` | array of entries, two counters of deleted ones | add, append, complete, delete, idle? | conversation manager |
| Conversation manager, `converse/conversation_manager.c` | the conversation, handlers | a handler per message of the phone, input of the user, memory pressure | phone, session window, alarm manager |
| Session window, `converse/session_window.c` | array of segment layers, thinking layer, dictation, timeout | show, replace, drop from the front, ask | conversation manager, user |
| Memory pressure, `util/memory` | list of callbacks | called by `bmalloc()` when it fails | conversation manager, image manager |
| Image manager, `image_manager/`, map widget | list of images, callbacks | start, chunk, complete, destroy, memory pressure | phone (`image_transfer.js`), map widgets |
| Phone session, `session.js`, `index.js` | one websocket and `hasOpenDialog` per prompt | a message of the service, close | service, message queue |
| Phone actions, `actions/` | one listener per alarm request | set, get, delete, answer | service (websocket), watch |
| Reminders, `lib/reminders.js`, `reminders.js`, `reminders_menu.c` | list in local storage, list in the menu | add, delete, list, transfer | timeline, watch |
| Consent, version, settings, `consent.c`, `version.c`, `assistant.c`, `config.js` | three flash keys, stage of the consent window, a frozen menu | launch, migrate, agree, choose, echo of the phone, two writes | phone |
| Windows and timeout, `session_window.c`, `root_window.c`, `menus/`, `result_window.c` | window stack, quick-launch timer, dictation, subscriptions | push, pop, appear, disappear, time out, ring | system, phone |
| Prompt session, `service/assistant/session.go` | messages of a thread, websocket | rounds with the model, function calls, verifier, store | model, phone, Redis |
| Verifier, `verifier.go` | none | find claims without a function call | model |
| Functions, `functions/` | registry | call function, call action (request and answer over the websocket, 10 s) | phone, outside services |
| Quota, `quota/quota.go` | a Redis counter per user and month | look up, charge | all sessions of the user |

How they interact. The watch sends a prompt; the phone starts a session for it
without looking for another one still running. The service streams fragments,
thoughts (function summaries), actions and widgets; the phone turns them into
AppMessages and queues them; the queue keeps order but drops what the link fails
to deliver. The watch's handlers turn messages into entries of the conversation
and segments of the window. An action travels on to the watch's alarm manager
and its result back to the service.

What is hard here:

- *Failure in the queue.* A failed send is dropped, its callback restarts the
  queue by a path that skips every check of the normal one.
- *Three stores of one fact.* An alarm lives in memory, in flash and in the
  wakeup service; most operations update two of them; the app may be launched by
  an alarm, left at any moment, or killed between two flash writes.
- *Re-entrancy.* `bmalloc()` may delete conversation entries, segments or images
  from under the handler that allocates.
- *Position instead of identity.* Segments correspond to entries by position,
  menu rows to alarms, answers to actions.
- *Several sessions at once*, and messages lost, late or of another session.
- *Sessions of one user charging one quota*, command by command, while the month
  turns and processes die.
- *Callbacks that act on whatever is on top.* A timer, a failed dictation and a late
  answer pop the top window, which need not be the one they belong to.
- *Two machines that keep one setting*, and writes to flash between which the user
  may leave.

`PROJECT.json` lists these hazards at the lines where they bite, with the
properties that cover them.

What makes each component correct, in one sentence each:

- Queue: every message handed over once, in order; the counters equal what is
  outstanding; nothing queued is forgotten; limits overshot only by a known amount.
- Alarms: no alarm is lost, rings twice or rings at another's time; nothing
  launches the app for an alarm it does not know.
- Menu: what Delete deletes is of the menu's kind; rows fit what there is.
- Conversation and window: entries and segments stay in step; one response at
  most is open; a user who cannot speak sees why.
- Image manager: no image is freed twice; a widget never draws a freed bitmap.
- Actions: each request of the service gets one answer, its own, in time.
- Prompt session: a prompt ends, with exactly one of done and an error; the thread
  stored is the thread spoken, and one the model accepts; a false claim is reported.
- Quota: a month is overshot by a known amount only, every counter expires.
- Windows: nothing but what a callback is about is closed by it; a quick-launched
  app quits by itself.
- Consent: who consented is not asked again; watch and phone agree on the location.
- Reminders: the menu shows what is stored; the timeline follows.

## 2. Plan

Order, the most important behaviour first; all but the last are done:

1. `FifoChannel`, `MessageQueue`, `MessageQueueProofs`.
2. `AlarmManager`; `AlarmMenu`, which composes it with the menu.
3. `Conversation`.
4. `ActionRoundTrip`: service, phone and watch for one action.
5. `ImageManager` with the map widget and nested memory pressure.
6. `PromptAnswer` (abstract), `PromptSession`, which implements it.
7. `Quota`.
8. `WindowStack`; `WatchApp`, which composes it with launch, versions, consent and
   the phone's echo.
9. `Reminders`: store, timeline, transfer, menu.
10. `AlarmManagerProofs` (of AlarmMenu too), `ServiceProofs` (of PromptSession and
    Quota), `ConversationProofs`, `WatchAppProofs`, `RemindersProofs`,
    `ActionRoundTripProofs`, `ImageManagerProofs`.
11. To come: `PhoneSession`, composed with FifoChannel and Conversation: what a user
    sees of what the service sent.

Modules that are proved about use no `RECURSIVE` operator, take their parameters
as CONSTANTS with a named assumption, and have one action per operation.

## 3. Modules

### FifoChannel (abstract)

What the rest of the phone may assume of the queue: `accepted` is every message
ever enqueued in order, the first `handed` of them went to the link, `answered`
those whose callback came. One step of the program accepts or answers one
message and hands over at most one more, the next in line.

### MessageQueue

`app/src/pkjs/lib/message_queue.js`. JavaScript runs one callback at a time: an
action is one entry into the object. `queue`, `messagesInFlight`,
`bytesInFlight` are the object's fields; `inTransit` and `ghosts` stand for the
closures whose callbacks are still to come, `timers` for pending
`setTimeout(dequeue, 10)`; `sent` and `failures` are history. A *ghost* is what
`dequeue()` sends when a retry timer finds the queue empty:
`sendAppMessage(undefined)`, which occupies a slot and no bytes. `countBytes()`
is the constant `Size`; the sum of sizes is the constant function `Total`
(characterised by its recursion in `TotalAssumption`), so that the proofs need no
recursive operator. Messages are distinct: two equal messages would be two
members.

### AlarmManager

`app/src/c/alarms/manager.c`, `alarm_window.c`, and what of `assistant.c` and
`conversation_manager.c` decides about alarms. `alarms` is
`s_manager.pending_alarms`; `flash` the persisted keys, each written by a step of
its own (`Write`, along the plan in `todo`), so that `Kill` may come between two
of them; `scheduled` the wakeup service, which outlives the app; `due` the events
handed to the running app; `windows` the alarm windows on the stack; `shown` the
alarms the open conversation shows as set. Time counts minutes. `fate` is history:
what became of each wakeup ever scheduled. `Load` is `prv_load_alarms()`: the
lower of the two counts is believed, entries unknown to the wakeup service are
dropped, and what a torn save left unwritten is read as whatever was on the stack.
With no alarms to save the code deletes all keys, cancels *all* wakeups, and, having
no return there, writes every key again: `SavePlan` says just that.

Left out: the names of alarms (a flash key no decision depends on), the reply to
the phone (modelled in ActionRoundTrip), vibration.

### AlarmMenu

`app/src/c/menus/alarm_menu.c`, extending AlarmManager: `rows`, `selected` and
`empty` are the menu layer's, counted when it last reloaded; the manager's steps
change the alarms behind them without telling (`Next /\ Reacts`).

### Conversation

`app/src/c/converse/conversation.c`, `conversation_manager.c`,
`session_window.c`, `util/memory/pressure.c`, `malloc.c`. `entries`,
`deletedEntries`, `nulledEntries` are the conversation's, `segments`,
`segmentsDeleted`, `thinking` the window's. A segment is the number of the entry
it shows, 0 once freed. A handler is cut at its allocations: `todo` holds its
remaining steps (`create`, `fill`, `append`, `show`, `display`, `update`), and
`MemoryPressure` may come before any of them but `show`, as `bmalloc()` may call
`prv_handle_memory_pressure()` there. `fault` names the undefined behaviour a step
runs into; nothing happens after it. Two windows may follow one another, because
the callback of the first stays registered when its manager is freed.

A dictation that fails before anything was said pops the window on top. That is the
session's, unless an alarm or the release notes came over it (WindowStack has the
stack): then the session stays with nothing in it, which `spared` remembers, and a
long press takes the type of an entry that is not there. No pressure comes at `show`,
nor before `update` has done: `segment_layer_update()` allocates nothing, since an info
layer makes its text and icon when it is created, messages only change texts and sizes,
and widgets are not updated; only the thinking layer that may follow it is allocated.

Messages arrive in any order, which covers two sessions at once, lost messages and
delayed ones. The array's growth is left out: it copies the entries to a larger
array and leaks the old one, whose pointers stay valid. Texts, heights, scrolling,
vibration and the thread id are left out as well.

### ActionRoundTrip

`service/assistant/functions/functions.go` (`CallAction`) and the loop that calls
it, `app/src/pkjs/actions/`, and the replies of `alarms/manager.c`. An action is
known by its number in `asked`. `calling` is where each session's CallAction() is;
`down` and `up` are the two directions of its websocket; `listeners` the phone's
`handleMessage` closures in the order they were added, over all sessions; `toWatch`
and `toPhone` the Bluetooth link. An answer carries the action whose handler gave
it (`for`) and the action whose reply it tells (`from`): the program sees neither,
which is what the properties are about. `Read` takes whatever comes next,
`ReadFails` may come at any time (ten seconds are longer than any other step) and
closes the websocket, as the library does when a read's context ends.
`DeleteReminder` answers up to three times, having no `return` after its errors;
`AskWatch` sets no timeout, because the call meant to has its arguments swapped. The
closures that hear a reply, and those that do not, are sets of places of `listeners`;
`InOrder` is their only arrangement in the order they were added, said without
recursion.

Left out: the arguments of actions, what answers say, actions refused before a
request is written, `send_feedback` (not registered by the service), messages of
the queue that ask for no reply.

### ImageManager

`app/src/pkjs/lib/image_transfer.js`, `widgets/map.js`,
`app/src/c/image_manager/image_manager.c`, `converse/segments/widgets/map.c` and
`util/memory`. An image and its map widget share a number. `channel` is the message
queue seen from outside: in order, with losses. `todo` is the call stack laid out as
the steps still to be run: a handler's allocations are steps, and memory pressure at
one of them puts the destruction of the oldest image before it - tell the widget,
free, drop from the list - in the order of the code, so that the skull the widget
fetches when told is one more allocation, inside the destruction. `freed` is the heap's
view, `list` the program's. A look-up reads the list from the front until it meets its
image, so that it reads freed memory not only when it looks for a freed image but also
when one stands before the image it looks for (`SearchesFreed`); every look-up has
that branch: those of the messages, of a map registering, and of a window that closes,
which unregisters and destroys the image of each map it shows. A skull that cannot be
had is noted in the widget, which may itself have been freed by then. In each
case `fault` says so and nothing happens after it. The second level of memory pressure, the conversation's, deletes the oldest map or
something else. `prv_handle_image_complete()` looks for an image it has just freed:
the model lets it be found or not. `s_cached_image_ref` is never set by the code, so
every look-up goes to the list.

`Without` takes images off the list by the places of those that stay (`InOrder`), a
form the proofs can use; it is what `linked_list_remove()` leaves.

Left out: sizes (all chunks fit), pixels, the user's location, layouts; an image of
which the header's chunk was lost is treated as any other.

### PromptAnswer (abstract)

The frames of one websocket, as `session.js` reads them: text and thoughts, at most
one warning, one `d` that closes the dialog, one `t` that names the thread, a normal
close; a failure only in place of all that follows the text; a cut at any time.

### PromptSession

`service/assistant/session.go` (`Run`), `verifier/verifier.go`,
`persistence/persistence.go`, and of `functions.go` what decides how a round ends.
One goroutine per prompt: `pc` is where `Run` is, `conn` its websocket, `messages`
the thread as the goroutine has it, `store` Redis. The sessions share the store
alone; a thread has the id of the session that stored it, and any session may
continue any thread the phone was told of (`knows`). A text either claims to have
set an alarm or does not; a call sets it or is another. The language model is an
oracle: any text, any call, an end or a failure at any point of the stream, and the
verifier's model either answers rightly or fails. A write may succeed after the
phone has gone, and fails from then on once it has failed. `missed`, `unstored` and
`verdict` are history, to say why something is not as it should be.

### Quota

`quota/quota.go`, `quota/user.go`. One user's counter in Redis per month, and the
global counter of one kind of query. `INCRBY` and `EXPIRE` are steps of their own,
between which the month may turn, the process may die, or other sessions run; the
key is computed again for the second. What a session charges is bounded by `Cost`,
which stands for the rounds of PromptSession and the size of a context. The sessions
are named by their `Tracker`, and the module's specification is `QuotaSpec`, so that
ServiceProofs can speak of it beside that of PromptSession.

### WindowStack

The windows of `app/src/c` by kind, on a stack. From the SDK it takes this: a call
that changes the stack calls `disappear` of the old top, `load` and `appear` of the
new one, before it returns; a dictation puts the system's own window on top, which
may or may not make the window under it disappear. `sw` is the session window: is
it a quick launch's, does its timer run and will it still call `prv_timed_out()`,
and how far the conversation is (Conversation has the rest). `waiting` are the
windows that show the running pony, `due` what the phone has yet to answer; `root`
is the handle of the root window's subscription, which `disappear` unsubscribes and
does not clear. `lost` and `seen` are history: what the last step took from the
user, and what had happened before that explains it.

### WatchApp

Launch and exit around WindowStack: `assistant.c`, `version.c`, `consent.c`, and the
echo of `index.js` and `config.js`. The flash keys outlive a launch; `phase` has a
value for each point between two writes, where the user may leave. Messages under
way are lost with the app. The initial states are those an earlier version may have
left. A version is old (1.1 or before, which implied the consent), recent or this
one. Once consent is given the root window takes the place of the menu or comes on
top, as the SDK may order the removals.

### Reminders

`lib/reminders.js`, `actions/reminders.js`, `actions/timeline.js`, `reminders.js`,
`menus/reminders_menu.c`. A reminder is the time it is for. `requests` to the
timeline are served in any order or fail unheard; `toPhone` and `outbox` are the
two directions of Bluetooth. The phone sends the count and the first item at once,
each next item when the one before is acknowledged, and an item again when it
failed, be it lost or only its acknowledgement. The transfer of a menu that was
left goes on, into the next menu. `rows`, `capacity` and `drawn` are what the menu
holds, what it waits for and what the menu layer last counted. The click handler
does not compare the row with the reminders there are: a row drawn before a second
count took its reminder away is memory that was not written, and may be any
reminder that ever was there.

Every reminder has its requests to the timeline; those of reminders outside
`Followed` are left out, together with their pins, and nothing is said about the
timeline for them.

## 4. Runs

| Run | Instance | Question |
|---|---|---|
| `message_queue` | 5 messages of weights 1, 4, 5, 1, 5, limits 2 messages and 4 bytes, 3 failures | counters, no lost wake-up, limits, refinement of FifoChannel; fair: the queue comes to rest |
| `alarm_manager` | room for 2, minutes 0 to 2, 3 wakeups, one missed, one kill | memory, flash and service agree through requests, rings, snoozes, exits, launches; what a kill between two flash writes leaves intact; each rings at most once; fair: every alarm is dealt with in the end |
| `alarm_menu` | room for 2, minutes 0 to 2, 3 wakeups | what Delete deletes while alarms ring |
| `conversation` | 5 entries, 2 windows | entries and segments in step under memory pressure; every fault explained; who cannot speak sees why |
| `action_round_trip` | 2 sessions, 3 actions of 4 kinds, 1 loss, 1 broken connection | whose answer does CallAction() return, and why not its own; fair: every call returns |
| `action_timeout` | 1 session, 2 actions, 1 loss, fair | does an alarm handler ever give up? No |
| `image_manager` | 2 maps of 2 chunks, 3 shortages of memory, 1 loss | lists, callbacks and bitmaps under memory pressure in the middle of a destruction |
| `prompt_session` | 2 prompts, 1 round with functions and 1 without, one at a time | refinement of PromptAnswer; threads that can be continued; claims and warnings; fair: every prompt ends |
| `quota` | 2 sessions of cost 2, a quota of 3, 2 months, 4 queries | how far the limits are overshot; why a counter may never expire |
| `watch_app` | 3 windows, 1 request of a kind, 1 message, 2 choices (symmetric) | what callbacks close, whether a quick launch ends, who is asked for consent |
| `reminders` | 2 times, 2 menus, kept for 1 | what menu and timeline show after losses and retries; fair: a menu that knows the count ends up showing |
| `reminders_timeline` | 2 times, both followed, 1 menu | is a stored reminder on the timeline? Not if the request failed |

Why the bounds are enough. The queue's weights lie below, at and above the byte
limit, so that one message exhausts it, several do, and a small one goes out
beyond it; three failures let retry timers overlap, and find the queue both empty
and not. Its theorems hold for all values. Two alarms suffice for order, equal
times, a full array and a request refused; three wakeups add a snooze or a second
alarm after a ring; both snoozes last one minute, so that they fit. The menu needs two rows to shift. Five entries allow two thoughts
to be replaced, which is where `nulled_entries` goes wrong, and a response to be
open behind them. Three actions let a surplus answer shift two later ones, and a
reply be heard by the listener of another session's action while that session
asks again. Two images and three shortages let one be destroyed inside the
destruction of the other and of itself.

Two prompts are one that is continued by the other; sessions that run at once share
the store, of which each writes only its own key, and the quota, which has a model
of its own, so that they are let run one after the other (`MaxOpen`). One round with
functions has everything a round can have; the second is the round without. For the
quota all is proved for any values; the instance has a session that enters with
almost nothing left, two that overshoot together, and queries within and beyond the
global limit. Three windows are a session, one over it and an alarm over both; the
settings of the phone are saved only while a consent is asked for, when they can
matter. Two reminders give a list with an order and a last item; two menus one
transfer into another's; only one of the two has its pin followed, as pins have
nothing to do with each other.

Numbers of entries, wakeups, failures, kills, misses, windows and the clock are
bounds of the instance (named in the modules), not of the code. CHECK_DEADLOCK is
off where, with the bounds reached, and in the code itself, the system may simply
have nothing more to do; `watch_app`, `quota` and the reminders are checked for
deadlock.

### Disagreements met

Two are runs of their own:

- **No timeout for the watch** (`action_timeout`). "Timed out waiting for a response
  from the watch." is never said: `setTimeout(2000, function...)`. The service's ten
  seconds end the call instead, and the listener stays.
- **A timeline that does not throw** (`reminders_timeline`). `lib/reminders.js` says
  "Insert into timeline first - if this fails it will throw". The request is
  asynchronous (`actions/timeline.js:42`) and its failure goes unheard: the reminder is
stored and confirmed. In TLC's trace `addReminder()` sends the PUT and stores the
reminder, and then the PUT fails. Line 111 says the same of the removal, "if this fails
it will throw", and is wrong in the same way: the reminder is gone, the pin may stay
(`RemindersExplained` names it).

Others the properties of the passing runs are stated around:

- **Torn saves.** `persist_keys.h` says that if the two counts disagree "we assume the
  lower number is correct". It is the lower number of *some* array; entries below it
  may join one alarm's time to another's wakeup. `SurvivesKill` is what remains true.
- **Stale alarm menu.** The comment in `prv_window_appear()` gives an alarm going off as
  the reason to reload; the function returns before it unless the menu is for timers.
  `MenuSound` says so of the timer menu only.
- **Idle with an answer to come.** A comment in `session_window.c` says that a response
  comes after a locally created widget, and the thinking layer stays;
  `conversation_is_idle()` lets the user speak. `OpenIsVisible` is the other direction.
- **Another's reply.** The listener is to "pick up our response"; it picks up the first
  reply of its kind, whoever asked: `AnswersExplained`.

What the models show besides, without a text that claims otherwise:

- A kill between `wakeup_schedule()` and the end of the save leaves a wakeup
  without an alarm in memory, or an alarm that loads with another's time. That no
  alarm is lost (`NoSilentLoss`) therefore holds without kills only, while no wakeup
  ever outlives its alarm (`NoOrphans`); order, capacity, `Durable` and `Armed` hold in
  spite of one kill (`SurvivesKill`). After a second kill all of them may fail.
- An alarm with another's time may get the time of a third, so that after a kill two
  alarms may have one time: `Ascending` is strict before it only. It takes room for
  four to see this, more than the run has; it came to light when the invariant of the
  run did not turn out inductive. The same attempt showed that two kills may
  leave two alarms with one id, one of which rings after its wakeup is spent, and that
  after one an alarm may ring before the time shown for it: `RingsOnce` says which
  part of it needs how few kills. Delete hands the manager a time, so that after a
  kill it may cancel the other kind: `DeletesItsKind` is about what precedes it.
- `nulled_entries` is decremented and never incremented. `LengthDrift`, a part of
  `FaultsExplained`, says exactly by how much `conversation_length()` is wrong. After
  two thoughts were replaced, memory pressure may delete everything, the response
  being appended to included; `FaultsExplained` says that this, the segment array
  running out, a response freed while something stands behind it, the callback
  of a freed manager, and an empty window that a failed dictation left standing under
  another are all that can go wrong.
- An action answered twice - `deleteReminder()` of an unknown reminder says so, and
  then says `ok` - puts its session out of step: `SurplusStays` says that the
  answers left unread never fall below the surplus, so that each later action,
  unless it overtakes one that waits for the watch, returns the answer to an
  earlier one. `AnswersExplained` says that this and a second session are the only
  two reasons for a wrong answer.
- Memory that runs out while a map widget fetches its skull is fatal: the image it
  stands for is still first on the list, and is freed again (`FaultsExplained`). As no
  callback returns from that, `ListSound` holds between callbacks whatever happened,
  but for an image whose data there was no room for. That one stays on the list
  when it is freed, and any look-up past it reads it: of a later image's message, of a
  map that comes, of a window that closes.
- Nothing ends a response whose CHAT_DONE was lost. What could be stated of it is false,
  so no property does; `OpenIsVisible` says that the window looks busy for as long.
- The queue's limits are soft: `LimitsBound` says how soft.
- A claim goes unwarned if an earlier prompt of the thread called the function, if the
  call was made and failed, if it was not the last thing said, or if the verifier
  failed; a warning may be about the answer before (`ClaimsExplained`).
- Redis refusing a thread goes unnoticed: the phone is told an id under which there is
  nothing (`ThreadsSound` names these as `unstored`).
- A month is overshot by up to one credit less than the running sessions cost; a
  counter lives for ever if the one charge that could set its expiry failed, died or
  was overtaken by the month (`ExpiryExplained`).
- An entry that arrives under another window - or changes, or is deleted for want of
  memory, and scrolls the layer - starts the quick-launch timer, which then
  pops that window; a dictation that fails under an alarm pops the alarm; the answer
  to a report that was left closes the next one, unsent (`LossesExplained`).
  A result window cancels the timer an uninitialised field names
  (`QuitsExplained` has this as an excuse).
- The choice of location freezes the consent menu until the phone echoes it, and any
  setting of the location counts as the echo (`ConsentExplained`).
- A reminder sent again after a lost acknowledgement appears twice and takes the place
  of the last one; a second transfer starts the list again under the rows shown,
  which then have no reminder behind them, to be selected and deleted all the same
  (`RemindersExplained`; only a menu to which no other transfer came draws no such row). If a row is then deleted there is room for the last one, which
  comes as a row the menu layer does not draw. It takes three reminders to see
  this, more than the run has: that the rows drawn are those there are had to be given
  up for such a list when the proof of it failed.

## 5. Fairness

- Queue: the platform answers every send with success or failure (`WF` on the two
  callbacks of each message, and of ghosts), and timers fire. Nothing makes a
  send succeed: `MaxFailures` bounds failures, and a failed message is dropped,
  which is why `EventuallyIdle` speaks of coming to rest.
- Alarms: the clock advances, the wakeup service fires what is due or launches the
  app, the app handles the events it was handed and goes on with the handler it
  is in. No fairness of users and of the phone. `EventuallyRings` promises nothing
  after a kill in the middle of a save. An event missed because the app was just
  ending, or the watch off, counts as dealt with.
- Actions: a call ends by an answer or its timeout (`WF` of both together), phone and
  watch handle what they receive. Nothing delivers a message that was lost.
- Prompt sessions: a goroutine runs on (`WF` per step of the goroutine); the model's
  stream ends or fails; Redis and the functions answer or fail; an
  action is given ten seconds. No fairness of the phone, and none of success.
- Reminders: `SF` of delivery, in `FairSpec`. An item that failed is sent again for as long as there
  is a connection, so what is needed is that it works now and then. Nothing makes the
  user, the timeline or the clock act.

## 6. Proofs

`MessageQueueProofs` proves, for every finite set of messages, all sizes and all
limits:

- `TypeCorrect`: `Spec => []TypeOK`;
- `CountersCorrect`: `Spec => []CountersMatch`. Inductive with `TypeOK` and the
  fact that `inTransit` is a finite subset of what was sent; the arithmetic of sums
  is in `TotalAssumption`. It needs `Distinct`: nothing is both queued and sent,
  and no message twice in either - otherwise a second send of a message in flight
  would take a slot and not enlarge `inTransit`;
- `NeverStalls`: `Spec => []NoStall`. Of itself not inductive: a success that
  finds the byte limit exceeded sends nothing, so one needs to know that bytes in
  flight mean a message in transit, which is `CountersMatch`;
- `LimitsHold`: `InFlightBound`, `BytesBound` and `GhostsBound`, from `TypeOK`,
  `CountersMatch` and `MaxSize`;
- `Refinement`: `Spec => Channel!Spec`, each action mapping to an Accept, an
  Answer or an Advance.

All are from `MessageAssumption`, `TotalAssumption` and `LimitAssumption` alone;
TLC evaluates these on the instance of the runs.

`ServiceProofs` proves of Quota, for any number of sessions, any quotas, costs and months:

- `QuotaTypeCorrect`: `QuotaSpec => []QuotaTypeOK`;
- `LimitsAreKept`: `QuotaSpec => []LimitsKept`. `Overshoot` is not inductive: a session that
  has been admitted may charge later, whatever the counter says by then. `UsedBound` adds
  what the running sessions may still charge, `Rest`, one pair of session and credit for
  each, so that sums are cardinalities: a charge of *n* takes *n* pairs from `Rest`
  (`RestCharged`) and adds *n* to the counter; a session enters, which gives it `Cost`
  pairs at most, only while a credit remains; past months are bounded and future ones
  are zero. `FreeWithinLimit` needs that a free query is a counted one (`FreeBound`);
- `ExpiryIsExplained`: `QuotaSpec => []ExpiryExplained`, with `ExpireBound`: a charge between
  its two commands charged the current month, or its month is accounted for.

They rest on `QuotaAssumption` alone and on the library's facts about cardinalities.

Of PromptSession it proves, for any set of prompts, any number of rounds and any number
of sessions at once (the run lets them run one after the other):

- `TypeCorrect`: `Spec => []TypeOK`, which says that no session has more than one
  round after the functions were withdrawn;
- `AnswersAreOrdered`: `Spec => AnswersInOrder`, the refinement of PromptAnswer. What is
  needed is `Position`: where the goroutine is determines how far the phone may be;
- `ThreadsAreSound`: `Spec => []ThreadsSound`;
- `ClaimsAreExplained`: `Spec => []ClaimsExplained`.

A thread in Redis is a whole conversation because the one each session *has* is, but
for the call it is about to have answered (`Whole`): it begins with the thread it
continues, then has the session's own prompt once, and every call is followed by its
response. `Foreign` and `Known` say that what a thread continues was finished before,
so that it cannot change any more, and `OwnLast` that what a session says comes last.
`Verdict` says that the verifier's verdict is on the thread that is stored,
because nothing is said after it. The least and the greatest element of a set of
positions take the place of induction over a thread. They rest on `PromptAssumption`
alone.

`AlarmManagerProofs` proves, for any `MAX_ALARMS`, any times and snoozes, any number of
wakeups, kills and misses:

- `TypeCorrect`: `Spec => []TypeOK`;
- `StoresAlwaysAgree`: `Spec => []StoresAgree`;
- `AlarmsSurviveAKill`: `Spec => []SurvivesKill`;
- `ConversationIsTruthful`: `Spec => []ConversationTruthful`;
- `AlarmsRingOnce`: `Spec => RingsOnce`, an action property.

The properties speak of the states between two handlers; the invariant must speak of
those inside a save. `Saving` says that `todo` is always the end of some save, each step
followed by the one the code has next; `Progress` says for each step which keys already
are of the array in memory and which are still of the old one, so that a kill finds
some columns new and others old, each of one array (`Columns`). `Saved` is what holds
when nothing is left to write. `Wakeups`, `Known` and `Memory` tie the array to the
wakeup service, `Timely` to the times; `NoneLost` is `NoSilentLoss` carried through a
save, where only memory knows; `Shown` ties the conversation to the array. Each
carries the number of kills up to which it holds, which is what the code's
rule of the lower count can bear: with one kill flash never has an entry that was not
written (`NeverShort`), so that loading reads nothing undefined. Removing and
inserting are proved to keep arrays in order by position (`Removed`, `Inserted`).

Of the menus over the alarms it proves:

- `MenuKeepsToManager`: `MenuSpec => Spec`. Whatever a menu does is a step of the
  manager or leaves it alone, so that all of the above holds under the menus;
- `MenuTypeCorrect`: `MenuSpec => []MenuTypeOK`. The rows are counted when a menu
  loads, and no count exceeds the array (`RowCountBound`);
- `MenusAreSound`: `MenuSpec => MenuSound`, an action property. `DeletesItsKind` needs
  the strict order of the array, the part of the manager's invariant that a kill ends.

All this rests on `AlarmAssumption` alone.

`ConversationProofs` proves, for any number of entries and windows:

- `TypeCorrect`: `Spec => []TypeOK`;
- `SegmentsAlwaysMatch`: `Spec => []SegmentsMatch`;
- `FaultsAreExplained`: `Spec => []FaultsExplained`;
- `OpenIsAlwaysVisible`: `Spec => []OpenIsVisible`.

Segments and entries are deleted from the front by two components that do not look at
each other; `InStep` says that the live segments are nevertheless just the entries
`Displayed`, in order, so that the first of one is the first of the other
(`FirstIsFirst`). Within a handler the newest entry has no segment yet (`Building`) or is
nothing yet (`Pending`); `Handling` says that `todo` is always the rest of one handler,
so that a step finds the entry as the one before left it. `Drift` says by how much
`conversation_length()` is wrong, which decides whether memory pressure stops: by one for
each thought that was replaced, so that the newest entry is deleted only after two
(`Lasting`). A window with nothing in it has a dictation going on, or was spared by
one (`Opened`). `OneOpen` and `Busy` give `OpenIsVisible`, `Died` gives `FaultsExplained`.
They rest on `ConversationAssumption` alone.

`WatchAppProofs` proves, for a stack of any depth of two or more, any number of requests,
messages and choices:

- `TypeCorrect`: `AppSpec => []TypeOK`;
- `LossesAreExplained`: `AppSpec => []LossesExplained`;
- `QuitsAreExplained`: `AppSpec => []QuitsExplained`;
- `ConsentIsExplained`: `AppSpec => []ConsentExplained`.

`lost` and `seen` tell of the last step and of the past; what ties them is where windows
can be. They pile up by `Level`: one of a level is opened from one of the level
below, alarms and results anywhere, so that a window of a level is on the stack once
(`Piled`), the action menu is right over its session and nothing but the choice,
alarms and results is over the consent (`Placed`). `Asked` says that a form is owed an
answer it does not wait for, or more than one, only if one was abandoned; `Heard`
that a dictation goes on under another window only if that window came over it; `Sound`
accounts for the session's timer; `Rooted` for the subscription of the root window.
For the consent, `Remembered` says which keys flash can hold between two writes, `Frozen`
that a frozen menu has a message under way or lost, and `Echoed` that, if the settings
page takes no part, the choice is in one place at a time. They rest on
`WindowAssumption` and `AppAssumption` alone: the stack has room for the two windows
`main()` pushes.

`RemindersProofs` proves, for any number of reminders, menus, messages and requests:

- `TypeCorrect`: `Spec => []TypeOK`;
- `RemindersAreExplained`: `Spec => []RemindersExplained`, both from
- `InductiveInvariant`: `Spec => []IInv`.

The transfers of several menus share the phone's outbox, whose first message is taken and
whose rest is put at its end. `Chain` says what stays true of the open menu's: its
count is behind all other counts and before its only item, so that a list begins with a
count and is followed by nothing else of another menu's making unless `mixed`;
`Requesting` that nothing of it is there while the list is still asked for; `Loading`
that a menu that loads has something before it that will end the loading, enough items
if it knows how many; `Unmixed` that the rows there are and what is left of the item
make up one list in order. `Erased` and `Pinned` account for what was deleted. One
lemma moves the outbox (`Moves`, `Places`), for the next item and for the same one
again. They rest on `RemindersAssumption` alone.

`ActionRoundTripProofs` proves, for any number of sessions, actions, lost messages and
broken websockets:

- `TypeCorrect`: `Spec => []TypeOK`;
- `AnswersAreExplained`: `Spec => []AnswersExplained`;
- `SurplusAlwaysStays`: `Spec => []SurplusStays`, all from
- `InductiveInvariant`: `Spec => []IInv`.

`Once` says that an action is in one place: under way to the phone, or waiting there,
or told, and told once if the watch was asked. `Pending` is what a session without a
surplus is like: all there is of it, on the websocket or among the handlers, is of the
action CallAction() is at; it follows from the count of `SurplusStays`, which leaves
room for nothing else once an answer is read. A reply may be heard by a handler it is
not for (`Misheard`), and then its own handler either heard it too, or had heard
another's before (`Overheard`); going back along these, one comes to a surplus or to
another session that asked for the same kind, and `Mistold` carries that reason with
the answer until it is read. That handlers which hear a reply and those which do not add
up to those that waited is a bijection of places (`DeafWaitOn`). They rest on
`ActionAssumption` alone.

`ImageManagerProofs` proves, for any number of images, chunks, lost messages and
shortages of memory:

- `TypeCorrect`: `Spec => []TypeOK`;
- `ListIsSound`: `Spec => []ListSound`;
- `FaultsAreExplained`: `Spec => []FaultsExplained`;
- `MapsAreExplained`: `Spec => []MapsExplained`, all from
- `InductiveInvariant`: `Spec => []IInv`.

The properties speak of the states between two callbacks, and of the fault that ends
it; the invariant must speak of the calls in between, which nest. `Calls` says that
`todo` is always the rest of calls, each step followed by the one the code has next
(`Follows`), and that a call inside an allocation returns to it. `ChannelOK` says that
an image's messages are what the phone has sent, in that order. What keeps memory
sound is `Orderly`, that memory has not run out while a widget fetched its skull: then
the head of the list is never destroyed twice at once. `Sound` is what holds of each
image as long as that is so: before its start has come nothing is known of it
(`FreshIs`); while it is made it is not on the list and has no widget (`MadeIs`); while
it is destroyed it is still there, and once its widget has been told shows no bitmap
(`FreeIs`); it is on the list as long as it is there, but for one that had no data, and
its widget has its ear (`ListIs`, `BitmapIs`); of its chunks each has come, is to come or was lost (`WholeIs`),
and a widget that loads has the end of its image before it or a reason to wait for ever
(`LoadingIs`).

When memory has run out in such a place, none of this need be true any more, and the
proof shows instead that it cannot go well: an image is then pending to be freed that
has been freed or is pending to be freed twice, and no step takes that back
(`NestedIsDoomed`). So the program does not come to rest in such a state (`Meaning`),
which is why `ListSound` and `MapsExplained` need no exception for it. `WholeShown` holds
all the same, and `FaultsExplained` is carried along, since after a fault nothing
happens. That a look-up meets freed memory only where an image without data was freed
(`Searched`) is what leaves the faults of look-ups no other cause. They rest on `ImageAssumption` alone.

So every invariant the runs check is a theorem, and every action property and
refinement. Only model-checked: liveness (`EventuallyIdle`, `EventuallyRings`,
`EventuallyShown` and the others), which is out of the prover's reach.

## 7. Not modelled

`PROJECT.json` lists every component. Left out for good: drawing and layout, fonts,
vibration, the service's data sources and widgets (each translates one request or
text), the HTTP front, the emulator and tools. Left out of parts that are modelled:
the parsing of the stream in `session.js` (Conversation takes its messages in any
order and any number), the settings of quick launch, vibration and transcripts, the
thread id on the watch, `GetUserInfo()` beyond its success or failure, and what texts
say. Memory that runs out is in WindowStack only what scrolls a session (`EntryUpdated`);
Conversation and ImageManager consider the rest of its consequences. Of the menu over
the alarms it is not stated that Delete deletes the alarm shown in the row: it may
delete another of the same kind, the menu being stale as said in section 4.
