------------------------------ MODULE Reminders ------------------------------
(***************************************************************************)
(* Reminders: the phone's store and its pins on the timeline               *)
(* (app/src/pkjs: lib/reminders.js, actions/reminders.js,                  *)
(* actions/timeline.js), the transfer of the list (pkjs/reminders.js) and  *)
(* the menu of the watch that shows it (app/src/c/menus/reminders_menu.c). *)
(*                                                                         *)
(* A reminder is the time it is for: no two share one, and the store's     *)
(* order, by time, is the numbers'.  Texts are left out.                   *)
(***************************************************************************)
EXTENDS Integers, Sequences, SequencesExt, FiniteSets

CONSTANTS
    MaxTime,   \* bound: the clock, and so the reminders
    Day,       \* for how long an expired reminder is kept
    MaxOpens,  \* bound: menus opened one after the other
    Followed   \* bound: the reminders whose pins are followed; no two pins
               \* have to do with each other

ASSUME RemindersAssumption ==
    /\ MaxTime \in Nat
    /\ Day \in Nat
    /\ MaxOpens \in Nat
    /\ Followed \subseteq 1..MaxTime

Reminder == 1..MaxTime

VARIABLES
    now,       \* the clock
    stored,    \* the reminders in localStorage
    made,      \* the reminders there ever were
    pins,      \* the pins on the timeline
    requests,  \* requests to the timeline under way
    toPhone,   \* the message of the watch under way, if any: the outbox of
               \* the watch holds one
    outbox,    \* messages of the phone, each to be sent and answered
    open,      \* is the menu window there
    opens,     \* how many there have been
    view,      \* "loading" (the pony), "list" or "empty"
    capacity,  \* data->reminders_capacity
    rows,      \* data->reminders[0 .. num_reminders - 1]
    drawn,     \* rows of the menu layer at its last reload
    picked,    \* the reminder the action menu is about, or 0
    unheard,   \* history: this menu's request or its count was lost
    mixed,     \* history: this menu got messages of another's transfer
    repeated,  \* history: it got an item twice, the answer to one being lost
    erased,    \* history: reminders deleted from a menu that are stored still
    untold,    \* history: a deletion did not reach the phone
    misfiled   \* history: pins, of reminders to come, the timeline kept

phone == <<stored, made, requests>>
timeline == <<pins, misfiled>>
wire == <<toPhone, outbox>>
menu == <<open, opens, view, capacity, rows, drawn, picked>>
faults == <<unheard, mixed, repeated, untold>>
histories == <<faults, erased>>
vars == <<now, phone, timeline, wire, menu, histories>>

\* A deletion, or 0 for a list request; "of" is the menu that asked.
Message == [erase : 0..MaxTime, of : 1..MaxOpens]

\* A count, or an item: the first of what is left to send.
Delivery == [count : BOOLEAN, left : Seq(Reminder), of : 1..MaxOpens]

Init ==
    /\ now = 0
    /\ stored = {}
    /\ made = {}
    /\ pins = {}
    /\ requests = {}
    /\ toPhone = <<>>
    /\ outbox = <<>>
    /\ open = FALSE
    /\ opens = 0
    /\ view = "loading"
    /\ capacity = 0
    /\ rows = <<>>
    /\ drawn = 0
    /\ picked = 0
    /\ unheard = FALSE
    /\ mixed = FALSE
    /\ repeated = FALSE
    /\ erased = {}
    /\ untold = FALSE
    /\ misfiled = {}

-----------------------------------------------------------------------------
(* The store and the timeline.                                             *)

\* cleanupExpiredReminders().
Kept == {r \in stored : r > now - Day}

Ascending(s) == \A i, j \in DOMAIN s : i < j => s[i] < s[j]

\* getAllReminders(): those to come, by time, the only such list.
AllReminders ==
    LET coming == {r \in Kept : r > now}
    IN  {s \in [1..Cardinality(coming) -> coming] : Ascending(s)}

\* saveReminders().
Store(s) ==
    /\ stored' = s
    /\ erased' = erased \intersect s

\* A request to the timeline is sent, and not waited for.  Those for other
\* reminders than the followed are left out, and so are their pins.
Requested(op, r) ==
    requests' = IF r \in Followed THEN requests \union {<<op, r>>}
                ELSE requests

\* addReminder(), for set_reminder of the assistant, whose time is not checked.
AddReminder ==
    /\ \E r \in Reminder \ made :
          /\ made' = made \union {r}
          /\ Store(Kept \union {r})
          /\ Requested("PUT", r)
    /\ UNCHANGED <<now, timeline, wire, menu, faults>>

\* Mutant: the pin is forgotten.
EraseStored(r) ==
    /\ Store(Kept \ {r})
    /\ UNCHANGED <<requests, made>>

\* deleteReminder(r): of one that is not stored nothing is heard.
Erase(r) ==
    /\ Store(Kept \ {r})
    /\ \/ r \in Kept /\ Requested("DELETE", r)
       \/ r \notin Kept /\ UNCHANGED requests
    /\ UNCHANGED made

\* delete_reminder of the assistant, with any id it was told of.
DeleteReminder ==
    /\ \E r \in made : Erase(r)
    /\ UNCHANGED <<now, timeline, wire, menu, faults>>

\* get_reminders of the assistant.
GetReminders ==
    /\ Store(Kept)
    /\ UNCHANGED <<now, made, requests, timeline, wire, menu, faults>>

\* The timeline serves the requests under way in any order.
PinRequestServed ==
    /\ \E q \in requests :
          /\ requests' = requests \ {q}
          /\ pins' = IF q[1] = "PUT" THEN pins \union {q[2]}
                     ELSE pins \ {q[2]}
          /\ misfiled' = IF q[1] = "DELETE" /\ <<"PUT", q[2]>> \in requests
                         THEN misfiled \union {q[2]} ELSE misfiled
    /\ UNCHANGED <<now, stored, made, wire, menu, histories>>

\* No token, no network or an error status: timelineRequest() does not tell.
PinRequestFails ==
    /\ \E q \in requests :
          /\ requests' = requests \ {q}
          /\ misfiled' = IF q[1] = "DELETE" THEN misfiled \union {q[2]}
                         ELSE misfiled
    /\ UNCHANGED <<now, stored, made, pins, wire, menu, histories>>

Tick ==
    /\ now < MaxTime
    /\ now' = now + 1
    /\ misfiled' = {r \in misfiled : r > now'}
    /\ UNCHANGED <<phone, pins, wire, menu, histories>>

-----------------------------------------------------------------------------
(* The transfer.                                                           *)

\* The count and the first item are sent at once, without waiting.
Transfer(list, of) ==
    <<[count |-> TRUE, left |-> list, of |-> of]>>
    \o (IF list = <<>> THEN <<>>
        ELSE <<[count |-> FALSE, left |-> list, of |-> of]>>)

\* handleReminderMessage().
PhoneHears ==
    /\ toPhone # <<>>
    /\ toPhone' = <<>>
    /\ LET m == Head(toPhone) IN
          \/ /\ m.erase = 0
             /\ Store(Kept)
             /\ \E list \in AllReminders :
                   outbox' = outbox \o Transfer(list, m.of)
             /\ UNCHANGED <<made, requests>>
          \/ m.erase # 0 /\ Erase(m.erase) /\ UNCHANGED outbox
    /\ UNCHANGED <<now, timeline, menu, faults>>

\* REMINDER_COUNT: a new array, whether or not there is one already.
HearCount(n) ==
    /\ capacity' = n
    /\ \/ n = 0 /\ view' = "empty" /\ UNCHANGED rows
       \/ n > 0 /\ rows' = <<>> /\ UNCHANGED view
    /\ UNCHANGED drawn

\* Mutant: items are taken until the menu is closed.
TakesAll(r) == TRUE

\* There is room in the array.
Takes(r) == Len(rows) < capacity

\* REMINDER_TEXT, ID and TIME: with the last of them the menu is shown.
HearItem(r) ==
    /\ \/ /\ Takes(r)
          /\ rows' = Append(rows, r)
          /\ \/ Len(rows') = capacity /\ view' = "list" /\ drawn' = capacity
             \/ Len(rows') # capacity /\ UNCHANGED <<view, drawn>>
       \/ ~Takes(r) /\ UNCHANGED <<rows, view, drawn>>
    /\ UNCHANGED capacity

\* prv_app_message_received(), if there is a menu to receive the message.
WatchHears(m) ==
    \/ /\ open
       /\ \/ m.count /\ HearCount(Len(m.left))
          \/ ~m.count /\ HearItem(Head(m.left))
       /\ mixed' = (mixed \/ m.of # opens)
    \/ ~open /\ UNCHANGED <<view, capacity, rows, drawn, mixed>>

\* sendNextReminder(): on success the next item.
Following(m) ==
    IF m.count \/ Len(m.left) = 1 THEN <<>>
    ELSE <<[m EXCEPT !.left = Tail(@)]>>

Delivered ==
    /\ outbox # <<>>
    /\ WatchHears(Head(outbox))
    /\ outbox' = Tail(outbox) \o Following(Head(outbox))
    /\ UNCHANGED <<now, phone, timeline, toPhone, open, opens, picked,
                   unheard, repeated, erased, untold>>

\* Mutant: an item that failed is skipped.
Skipped(m) == Following(m)

\* On failure the same item again; a count is not sent again.
Retried(m) == IF m.count THEN <<>> ELSE <<m>>

\* The message is lost.
DeliveryFails ==
    /\ outbox # <<>>
    /\ LET m == Head(outbox) IN
          /\ outbox' = Tail(outbox) \o Retried(m)
          /\ unheard' = (unheard \/ (open /\ m.count /\ m.of = opens))
    /\ UNCHANGED <<now, phone, timeline, toPhone, menu, mixed, repeated,
                   erased, untold>>

\* The message is delivered but its acknowledgement lost.
AcknowledgementLost ==
    /\ outbox # <<>>
    /\ LET m == Head(outbox) IN
          /\ WatchHears(m)
          /\ outbox' = Tail(outbox) \o Retried(m)
          /\ repeated' = (repeated \/ (open /\ ~m.count))
    /\ UNCHANGED <<now, phone, timeline, toPhone, open, opens, picked,
                   unheard, erased, untold>>

-----------------------------------------------------------------------------
(* The menu.                                                               *)

\* The window is unloaded, and what it kept is gone.
Closed ==
    /\ open' = FALSE
    /\ view' = "loading"
    /\ capacity' = 0
    /\ rows' = <<>>
    /\ drawn' = 0
    /\ picked' = 0
    /\ unheard' = FALSE
    /\ mixed' = FALSE
    /\ repeated' = FALSE

\* prv_window_load() asks for the list; whether that was sent is not looked
\* at.
OpenMenu ==
    /\ ~open
    /\ opens < MaxOpens
    /\ open' = TRUE
    /\ opens' = opens + 1
    /\ \/ /\ toPhone = <<>>
          /\ toPhone' = <<[erase |-> 0, of |-> opens']>>
          /\ UNCHANGED unheard
       \/ unheard' = TRUE /\ UNCHANGED toPhone
    /\ UNCHANGED <<now, phone, timeline, outbox, view, capacity, rows, drawn,
                   picked, mixed, repeated, erased, untold>>

CloseMenu ==
    /\ open
    /\ picked = 0
    /\ Closed
    /\ UNCHANGED <<now, phone, timeline, wire, opens, erased, untold>>

\* prv_select_click().  A row without a reminder, drawn before a second count,
\* is memory that was not written: any reminder's there ever was, or none that
\* is one, which then does nothing or ends the app.
SelectRow ==
    /\ open
    /\ view = "list"
    /\ picked = 0
    /\ \E i \in 1..drawn :
          picked' \in IF i <= Len(rows) THEN {rows[i]} ELSE made
    /\ UNCHANGED <<now, phone, timeline, wire, open, opens, view, capacity,
                   rows, drawn, histories>>

\* prv_delete_reminder_callback(): the phone is told, perhaps, and the first
\* row of that reminder goes, if there still is one.
DeleteRow ==
    /\ picked # 0
    /\ picked' = 0
    /\ \/ /\ toPhone = <<>>
          /\ toPhone' = <<[erase |-> picked, of |-> opens]>>
          /\ UNCHANGED untold
       \/ untold' = TRUE /\ UNCHANGED toPhone
    /\ \/ /\ \A i \in DOMAIN rows : rows[i] # picked
          /\ UNCHANGED <<rows, view, drawn>>
       \/ \E i \in DOMAIN rows :
             /\ rows[i] = picked
             /\ \A j \in 1..(i - 1) : rows[j] # picked
             /\ rows' = RemoveAt(rows, i)
             /\ \/ rows' = <<>> /\ view' = "empty" /\ UNCHANGED drawn
                \/ rows' # <<>> /\ drawn' = Len(rows') /\ UNCHANGED view
    /\ erased' = erased \union ({picked} \intersect stored)
    /\ UNCHANGED <<now, phone, timeline, outbox, open, opens, capacity,
                   unheard, mixed, repeated>>

Back ==
    /\ picked # 0
    /\ picked' = 0
    /\ UNCHANGED <<now, phone, timeline, wire, open, opens, view, capacity,
                   rows, drawn, histories>>

\* The app ends, and the phone's side with it; what was sent to the timeline
\* is on its way.
AppEnds ==
    /\ Closed
    /\ toPhone' = <<>>
    /\ outbox' = <<>>
    /\ untold' = (untold \/ \E i \in DOMAIN toPhone : toPhone[i].erase # 0)
    /\ UNCHANGED <<now, phone, timeline, opens, erased>>

-----------------------------------------------------------------------------
Next ==
    \/ AddReminder
    \/ DeleteReminder
    \/ GetReminders
    \/ PinRequestServed
    \/ PinRequestFails
    \/ Tick
    \/ PhoneHears
    \/ Delivered
    \/ DeliveryFails
    \/ AcknowledgementLost
    \/ OpenMenu
    \/ CloseMenu
    \/ SelectRow
    \/ DeleteRow
    \/ Back
    \/ AppEnds

Spec == Init /\ [][Next]_vars

\* The connection works now and then: it does not fail for ever what is
\* tried for ever.
FairSpec == Spec /\ SF_vars(Delivered)

-----------------------------------------------------------------------------
TypeOK ==
    /\ now \in 0..MaxTime
    /\ stored \subseteq made
    /\ made \subseteq Reminder
    /\ pins \subseteq made
    /\ requests \subseteq {"PUT", "DELETE"} \X made
    /\ toPhone \in Seq(Message) /\ Len(toPhone) <= 1
    /\ outbox \in Seq(Delivery)
    /\ \A i \in DOMAIN outbox : outbox[i].count \/ outbox[i].left # <<>>
    /\ open \in BOOLEAN
    /\ opens \in 0..MaxOpens
    /\ view \in {"loading", "list", "empty"}
    /\ capacity \in 0..MaxTime
    /\ rows \in Seq(made)
    /\ capacity > 0 => Len(rows) <= capacity
    /\ drawn \in 0..MaxTime
    /\ picked \in {0} \union made

\* Nothing is under way that could end the loading.
Silent ==
    /\ outbox = <<>>
    /\ \A i \in DOMAIN toPhone : toPhone[i].erase # 0

\* What goes wrong with reminders, and why.  The menu loads for ever only if
\* its request or its count was lost; unless messages of another menu's
\* transfer came to it, no row is drawn that has no reminder; unless, too, an
\* item was sent again, its list has every reminder once, in order, and all are
\* drawn (an item that comes twice may fill the list early, and another follow
\* once a row was deleted, undrawn); a reminder deleted from the menu stays only if the phone was not
\* told; and a pin outlives its reminder only if the timeline was not rid of
\* it, or the reminder expired.
RemindersExplained ==
    /\ open /\ view = "loading" /\ Silent => unheard
    /\ open /\ view = "list" /\ ~mixed =>
          /\ drawn <= Len(rows) /\ rows # <<>>
          /\ ~repeated => drawn = Len(rows) /\ Ascending(rows)
    /\ \A r \in erased :
          \/ \E i \in DOMAIN toPhone : toPhone[i].erase = r
          \/ untold
    /\ \A r \in pins \ stored :
          \/ r \in misfiled
          \/ r <= now
          \/ <<"DELETE", r>> \in requests

\* A menu that knows how many reminders to expect ends up showing them, or
\* that there are none: what is retried for ever arrives.
EventuallyShown ==
    open /\ view = "loading" /\ capacity > 0
        ~> (~open \/ view # "loading")

\* "Insert into timeline first - if this fails it will throw"
\* (lib/reminders.js): a reminder that is stored and to come is on the
\* timeline, or on its way there.  Of those not followed no pin is known.
StoredIsPinned ==
    \A r \in stored \intersect Followed :
        r > now => r \in pins \/ <<"PUT", r>> \in requests
=============================================================================
