---------------------------- MODULE AlarmManager ----------------------------
(***************************************************************************)
(* The watch's alarms and timers (app/src/c/alarms/manager.c and           *)
(* alarm_window.c) between three stores that must agree: the sorted array  *)
(* in memory, the parallel arrays in flash, and the system's wakeup        *)
(* service, which outlives the app and launches it when an alarm is due.   *)
(*                                                                         *)
(* The app runs one callback at a time, so a handler is one action - up to *)
(* the call of prv_save_alarms(), which writes each flash key by itself.   *)
(* "todo" is the rest of the running handler: one action per flash write,  *)
(* so that the app can be killed between two of them.                      *)
(*                                                                         *)
(* Time is counted in minutes, the resolution of the wakeup service.  The  *)
(* names of alarms, a sixth flash key between is_timers and the second     *)
(* count, are left out: no decision of the code depends on them.           *)
(***************************************************************************)
EXTENDS Integers, Sequences, FiniteSets

CONSTANTS
    MAX_ALARMS,       \* 8 in the code and in the wakeup service
    TimerSnooze,      \* one minute
    AlarmSnooze,      \* ten minutes
    MaxTime,          \* bound: the clock stops here
    MaxIds,           \* bound: how many wakeups are ever scheduled
    MaxKills,         \* bound: kills in the middle of a handler
    MaxMisses         \* bound: alarms that come due while the watch is off

ASSUME AlarmAssumption ==
    /\ MAX_ALARMS \in Nat \ {0}
    /\ TimerSnooze \in Nat \ {0}
    /\ AlarmSnooze \in Nat \ {0}
    /\ MaxTime \in Nat
    /\ MaxIds \in Nat
    /\ MaxKills \in Nat
    /\ MaxMisses \in Nat

Time == 0..MaxTime
WakeupId == 1..MaxIds
Alarm == [time : Time, id : WakeupId, timer : BOOLEAN]

\* The flash keys in the order prv_save_alarms() writes them.
Keys == <<"one", "times", "ids", "timers", "two">>

VARIABLES
    now,          \* time(NULL)
    scheduled,    \* the wakeup service: this app's events, [id, time]
    due,          \* ids handed to the running app, handlers still to run
    running,      \* is the app running
    alarms,       \* s_manager.pending_alarms
    windows,      \* the alarm windows on the screen, the top one last
    shown,        \* alarms the open conversation shows as set, [id, time]
    conversing,   \* is there a conversation manager
    flash,        \* the persisted keys
    todo,         \* the steps left of the handler that is running
    fate,         \* history: what became of each wakeup ever scheduled
    kills, misses \* how often the two bounded misfortunes happened

service == <<scheduled, fate>>
screen == <<windows, conversing>>
misfortunes == <<kills, misses>>
vars == <<now, service, due, running, alarms, screen, shown, flash, todo,
          misfortunes>>

EmptyFlash == [one |-> 0, times |-> <<>>, ids |-> <<>>, timers |-> <<>>,
               two |-> 0]

Init ==
    /\ now = 0
    /\ scheduled = {}
    /\ due = <<>>
    /\ running = FALSE
    /\ alarms = <<>>
    /\ windows = <<>>
    /\ shown = {}
    /\ conversing = FALSE
    /\ flash = EmptyFlash
    /\ todo = <<>>
    /\ fate = <<>>
    /\ kills = 0
    /\ misses = 0

Idle == running /\ todo = <<>>

Ids(events) == {e.id : e \in events}

Due == {due[i] : i \in DOMAIN due}

AlarmIds == {alarms[i].id : i \in DOMAIN alarms}

-----------------------------------------------------------------------------
(* Saving: the image of memory, the plan of writes, one write.             *)

\* Mutant: a count that is one too high.
ImageOneMore(s) ==
    [one |-> Len(s) + 1,
     times |-> [i \in DOMAIN s |-> s[i].time],
     ids |-> [i \in DOMAIN s |-> s[i].id],
     timers |-> [i \in DOMAIN s |-> s[i].timer],
     two |-> Len(s) + 1]

\* What each key holds once prv_save_alarms() has written it.
Image(s) ==
    [one |-> Len(s),
     times |-> [i \in DOMAIN s |-> s[i].time],
     ids |-> [i \in DOMAIN s |-> s[i].id],
     timers |-> [i \in DOMAIN s |-> s[i].timer],
     two |-> Len(s)]

\* Mutant: the second count is forgotten.
SavePlanOneCount(s) == <<"one", "times", "ids", "timers">>

\* With no alarms every key is deleted - deleted keys read as the image of
\* the empty array - and all wakeups cancelled, and then, the code having no
\* return there, every key is written as well.
SavePlan(s) ==
    IF s = <<>> THEN Keys \o <<"cancel_all">> \o Keys ELSE Keys

Write ==
    /\ running
    /\ todo # <<>>
    /\ Head(todo) # "maybe_alarm"
    /\ \/ /\ Head(todo) = "cancel_all"
          /\ scheduled' = {}
          /\ UNCHANGED flash
       \/ /\ Head(todo) # "cancel_all"
          /\ flash' = [flash EXCEPT ![Head(todo)] = Image(alarms)[Head(todo)]]
          /\ UNCHANGED scheduled
    /\ todo' = Tail(todo)
    /\ UNCHANGED <<now, fate, due, running, alarms, screen, shown,
                   misfortunes>>

-----------------------------------------------------------------------------
(* Adding and removing.                                                    *)

\* wakeup_schedule() has room for an event at this time.  It may still fail:
\* the minute can belong to another app's event, or the call fail inside.
Schedulable(when) ==
    /\ when > now
    /\ \A e \in scheduled : e.time # when
    /\ Cardinality(scheduled) < MAX_ALARMS

\* The first place whose alarm is not earlier than "when", as the loop of
\* alarm_manager_add_alarm() finds it, is the one after k.
InsertsAfter(k, when) ==
    /\ \A i \in 1..k : alarms[i].time < when
    /\ k < Len(alarms) => alarms[k + 1].time >= when

AddAlarm(when, timer, conversational) ==
    /\ Len(alarms) < MAX_ALARMS
    /\ Schedulable(when)
    /\ LET a == [time |-> when, id |-> Len(fate) + 1, timer |-> timer]
           e == [id |-> Len(fate) + 1, time |-> when]
       IN  /\ a \in Alarm
           /\ scheduled' = scheduled \union {e}
           /\ \E k \in 0..Len(alarms) :
                 /\ InsertsAfter(k, when)
                 /\ alarms' = SubSeq(alarms, 1, k) \o <<a>>
                                \o SubSeq(alarms, k + 1, Len(alarms))
           /\ shown' = IF conversational /\ conversing
                       THEN shown \union {e} ELSE shown
    /\ fate' = Append(fate, "pending")
    /\ todo' = SavePlan(alarms')
    /\ UNCHANGED <<now, due, running, flash, misfortunes>>

\* alarm_manager_add_alarm() returns an error and has changed nothing.
AddFails ==
    UNCHANGED <<now, service, due, running, alarms, shown, flash, todo,
                misfortunes>>

Add(when, timer, conversational) ==
    \/ AddAlarm(when, timer, conversational)
    \/ AddFails

\* Mutant: the wakeup is not cancelled.
RemoveOnly(i, why) ==
    LET a == alarms[i] IN
    /\ alarms' = SubSeq(alarms, 1, i - 1) \o SubSeq(alarms, i + 1, Len(alarms))
    /\ fate' = [fate EXCEPT ![a.id] = why]
    /\ shown' = IF conversing /\ a.time > now
                THEN {e \in shown : e.id # a.id} ELSE shown
    /\ UNCHANGED scheduled

\* Mutant: the conversation is told of past alarms instead of future ones.
RemoveUntold(i, why) ==
    LET a == alarms[i] IN
    /\ scheduled' = {e \in scheduled : e.id # a.id}
    /\ alarms' = SubSeq(alarms, 1, i - 1) \o SubSeq(alarms, i + 1, Len(alarms))
    /\ fate' = [fate EXCEPT ![a.id] = why]
    /\ shown' = IF conversing /\ a.time < now
                THEN {e \in shown : e.id # a.id} ELSE shown

\* prv_remove_alarm(): memory and the wakeup service, but not flash.  The
\* conversation is told only of an alarm still to come.
RemoveAlarm(i, why) ==
    LET a == alarms[i] IN
    /\ scheduled' = {e \in scheduled : e.id # a.id}
    /\ alarms' = SubSeq(alarms, 1, i - 1) \o SubSeq(alarms, i + 1, Len(alarms))
    /\ fate' = [fate EXCEPT ![a.id] = why]
    /\ shown' = IF conversing /\ a.time > now
                THEN {e \in shown : e.id # a.id} ELSE shown

-----------------------------------------------------------------------------
(* Requests of the phone, the menu and the user.                           *)

\* SET_ALARM_TIME: a timer's time is relative.
SetAlarmRequest(time, timer) ==
    /\ Idle
    /\ Add(IF timer THEN now + time ELSE time, timer, TRUE)
    /\ UNCHANGED screen

\* CANCEL_ALARM_TIME, or "Delete" in the alarm menu, with a time: the kind
\* of the alarm is not looked at.
CancelAlarm(when) ==
    /\ Idle
    /\ \E i \in DOMAIN alarms :
          /\ alarms[i].time = when
          /\ \A j \in 1..(i - 1) : alarms[j].time # when
          /\ RemoveAlarm(i, "cancelled")
    /\ todo' = SavePlan(alarms')
    /\ UNCHANGED <<now, due, running, screen, flash, misfortunes>>

\* CANCEL_ALARM_TIME of 0: the first alarm of the kind goes, without a save.
CancelFirst(timer) ==
    /\ Idle
    /\ \E i \in DOMAIN alarms :
          /\ alarms[i].timer = timer
          /\ \A j \in 1..(i - 1) : alarms[j].timer # timer
          /\ RemoveAlarm(i, "cancelled")
    /\ UNCHANGED <<now, due, running, screen, flash, todo, misfortunes>>

\* The up button of an alarm window: the window goes, whether there was room
\* for the snoozed alarm or not.
Snooze ==
    /\ Idle
    /\ windows # <<>>
    /\ LET timer == windows[Len(windows)].timer IN
       Add(now + IF timer THEN TimerSnooze ELSE AlarmSnooze, timer, FALSE)
    /\ windows' = SubSeq(windows, 1, Len(windows) - 1)
    /\ UNCHANGED conversing

Dismiss ==
    /\ Idle
    /\ windows # <<>>
    /\ windows' = SubSeq(windows, 1, Len(windows) - 1)
    /\ UNCHANGED <<now, service, due, running, alarms, conversing, shown,
                   flash, todo, misfortunes>>

\* The session window creates and destroys the conversation manager.
OpenConversation ==
    /\ Idle
    /\ ~conversing
    /\ conversing' = TRUE
    /\ UNCHANGED <<now, service, due, running, alarms, windows, shown, flash,
                   todo, misfortunes>>

CloseConversation ==
    /\ Idle
    /\ conversing
    /\ conversing' = FALSE
    /\ shown' = {}
    /\ UNCHANGED <<now, service, due, running, alarms, windows, flash, todo,
                   misfortunes>>

-----------------------------------------------------------------------------
(* The wakeup service and the life of the app.                             *)

\* An event comes due while the app runs: its handler is queued.
Fire(e) ==
    /\ running
    /\ e \in scheduled
    /\ e.time <= now
    /\ scheduled' = scheduled \ {e}
    /\ due' = Append(due, e.id)
    /\ UNCHANGED <<now, fate, running, alarms, screen, shown, flash, todo,
                   misfortunes>>

\* Mutant: the earliest alarm rings, whichever wakeup came.
RingEarliest ==
    /\ due # <<>>
    /\ due' = Tail(due)
    /\ \/ /\ alarms # <<>>
          /\ windows' = Append(windows, alarms[1])
          /\ RemoveAlarm(1, "rung")
       \/ /\ alarms = <<>>
          /\ UNCHANGED <<service, alarms, windows, shown>>
    /\ UNCHANGED <<now, running, conversing, flash, misfortunes>>

\* Ring the alarm of the event that was handed over first, if the app knows
\* it, and remove it - without saving.
RingNext ==
    /\ due # <<>>
    /\ due' = Tail(due)
    /\ \/ \E i \in DOMAIN alarms :
             /\ alarms[i].id = Head(due)
             /\ windows' = Append(windows, alarms[i])
             /\ RemoveAlarm(i, "rung")
       \/ /\ Head(due) \notin AlarmIds
          /\ UNCHANGED <<service, alarms, windows, shown>>
    /\ UNCHANGED <<now, running, conversing, flash, misfortunes>>

\* prv_wakeup_handler(), for an event that came while the app ran.
WakeupHandler ==
    /\ Idle
    /\ RingNext
    /\ UNCHANGED todo

\* Mutant: main() forgets about the event that launched the app.
MaybeNoAlarm ==
    /\ running
    /\ todo = <<"maybe_alarm">>
    /\ todo' = <<>>
    /\ due' = Tail(due)
    /\ UNCHANGED <<now, service, running, alarms, screen, shown, flash,
                   misfortunes>>

\* alarm_manager_maybe_alarm(), for the event that launched the app: main()
\* calls it before the event loop starts.
MaybeAlarm ==
    /\ running
    /\ todo = <<"maybe_alarm">>
    /\ todo' = <<>>
    /\ RingNext

\* An entry of a flash array beyond those written is what the stack held.
Entry(column, i, junk) == IF i <= Len(column) THEN column[i] ELSE junk

Lesser(m, n) == IF m < n THEN m ELSE n

\* prv_load_alarms() in an app launched by the wakeups of the set "launch"
\* (one, or none), "live" being the events the service still holds and "then"
\* what main() goes on to do.  Entries whose wakeup is gone are dropped, and the
\* others, in their order, are kept.
Load(launch, live, then) ==
    LET count == Lesser(flash.one, flash.two) IN
    \/ /\ count = 0
       /\ alarms' = <<>>
       /\ scheduled' = {}
       /\ todo' = then
    \/ /\ count > 0
       /\ \E junk \in Alarm :
             LET entries == [i \in 1..count |->
                               [time |-> Entry(flash.times, i, junk.time),
                                id |-> Entry(flash.ids, i, junk.id),
                                timer |-> Entry(flash.timers, i, junk.timer)]]
                 kept == {i \in 1..count :
                            entries[i].id \in Ids(live) \union launch}
             IN  \E n \in 0..count : \E at \in [1..n -> kept] :
                    /\ \A i, j \in 1..n : i < j => at[i] < at[j]
                    /\ \A k \in kept : \E i \in 1..n : at[i] = k
                    /\ alarms' = [i \in 1..n |-> entries[at[i]]]
                    /\ todo' = IF n < count
                               THEN SavePlan(alarms') \o then ELSE then
       /\ scheduled' = live

\* The user starts the app.
Launch ==
    /\ ~running
    /\ running' = TRUE
    /\ Load({}, scheduled, <<>>)
    /\ UNCHANGED <<now, fate, due, screen, shown, flash, misfortunes>>

\* An event comes due while the app does not run, and launches it.
LaunchByWakeup(e) ==
    /\ ~running
    /\ e \in scheduled
    /\ e.time <= now
    /\ running' = TRUE
    /\ due' = <<e.id>>
    /\ Load({e.id}, scheduled \ {e}, <<"maybe_alarm">>)
    /\ UNCHANGED <<now, fate, screen, shown, flash, misfortunes>>

\* The watch is off when an event comes due.
Miss(e) ==
    /\ ~running
    /\ misses < MaxMisses
    /\ e \in scheduled
    /\ e.time <= now
    /\ scheduled' = scheduled \ {e}
    /\ fate' = [fate EXCEPT ![e.id] = "missed"]
    /\ misses' = misses + 1
    /\ UNCHANGED <<now, due, running, alarms, screen, shown, flash, todo,
                   kills>>

\* The memory of the app is gone.  An event handed to the app that it did not
\* get round to handle is gone with it.
AppEnds ==
    /\ running' = FALSE
    /\ alarms' = <<>>
    /\ windows' = <<>>
    /\ conversing' = FALSE
    /\ shown' = {}
    /\ due' = <<>>
    /\ todo' = <<>>
    /\ fate' = [id \in DOMAIN fate |->
                  IF id \in Due THEN "missed" ELSE fate[id]]
    /\ UNCHANGED <<now, scheduled, flash, misses>>

\* The user leaves, or another app takes over, between two callbacks.
Exit ==
    /\ Idle
    /\ AppEnds
    /\ UNCHANGED kills

\* The watch resets, or the app crashes, between two flash writes.
Kill ==
    /\ running
    /\ todo # <<>>
    /\ kills < MaxKills
    /\ kills' = kills + 1
    /\ AppEnds

\* The service is prompt: no event is due when the clock moves on.
Tick ==
    /\ now < MaxTime
    /\ \A e \in scheduled : e.time > now
    /\ now' = now + 1
    /\ UNCHANGED <<service, due, running, alarms, screen, shown, flash, todo,
                   misfortunes>>

Next ==
    \/ \E t \in Time, k \in BOOLEAN : SetAlarmRequest(t, k)
    \/ \E t \in Time : CancelAlarm(t)
    \/ \E k \in BOOLEAN : CancelFirst(k)
    \/ Snooze
    \/ Dismiss
    \/ OpenConversation
    \/ CloseConversation
    \/ Write
    \/ \E e \in scheduled : Fire(e) \/ LaunchByWakeup(e) \/ Miss(e)
    \/ WakeupHandler
    \/ MaybeAlarm
    \/ Launch
    \/ Exit
    \/ Kill
    \/ Tick

\* The clock advances, the service fires what is due, and the app goes on
\* with what it has begun; users and phones owe nothing.
Fairness ==
    /\ WF_vars(Tick)
    /\ WF_vars(Write)
    /\ WF_vars(\E e \in scheduled : Fire(e) \/ LaunchByWakeup(e))
    /\ WF_vars(WakeupHandler \/ MaybeAlarm)

Spec == Init /\ [][Next]_vars

FairSpec == Spec /\ Fairness

-----------------------------------------------------------------------------
Flash == [one : 0..MAX_ALARMS, times : Seq(Time), ids : Seq(WakeupId),
          timers : Seq(BOOLEAN), two : 0..MAX_ALARMS]

Step == {"one", "times", "ids", "timers", "two", "cancel_all",
         "maybe_alarm"}

TypeOK ==
    /\ now \in Time
    /\ scheduled \in SUBSET [id : WakeupId, time : Time]
    /\ due \in Seq(WakeupId)
    /\ running \in BOOLEAN
    /\ alarms \in Seq(Alarm)
    /\ windows \in Seq(Alarm)
    /\ shown \in SUBSET [id : WakeupId, time : Time]
    /\ conversing \in BOOLEAN
    /\ flash \in Flash
    /\ todo \in Seq(Step)
    /\ fate \in Seq({"pending", "rung", "cancelled", "missed"})
    /\ Len(fate) <= MaxIds
    /\ kills \in 0..MaxKills
    /\ misses \in 0..MaxMisses

\* "Insert the new alarm in order, so the expiry time is always ascending"
\* (manager.c), and no more of them than MAX_ALARMS.  Two are of the same time
\* only after a kill: one of them has a wakeup at another.
Ascending ==
    /\ \A i, j \in DOMAIN alarms : i < j =>
          /\ alarms[i].time <= alarms[j].time
          /\ kills = 0 => alarms[i].time # alarms[j].time
    /\ Len(alarms) <= MAX_ALARMS

\* The alarm that entry i of flash would be loaded as.
Stored(i) == [time |-> flash.times[i], id |-> flash.ids[i],
              timer |-> flash.timers[i]]

StoredAlarms == {Stored(i) : i \in 1..Lesser(flash.one, flash.two)}

\* Leaving the app between two callbacks loses no alarm.
Durable ==
    Idle => \A i \in DOMAIN alarms : alarms[i] \in StoredAlarms

\* While the wakeup of an alarm is pending, the service holds it (or has just
\* handed it over), and the app - when it runs, its memory, else its flash -
\* knows the same alarm at the same time.
NoSilentLoss ==
    (Idle \/ ~running) =>
        \A id \in DOMAIN fate : fate[id] = "pending" =>
            /\ id \in Ids(scheduled) \union Due
            /\ running => \E i \in DOMAIN alarms :
                  /\ alarms[i].id = id
                  /\ \A e \in scheduled : e.id = id => e.time = alarms[i].time
            /\ ~running => \E a \in StoredAlarms :
                              a.id = id /\ [id |-> id, time |-> a.time] \in scheduled

\* An alarm that was cancelled, rang or was missed has left nothing behind in
\* the service that would launch the app for it.
NoOrphans == \A e \in scheduled : fate[e.id] = "pending"

\* Memory, flash and the wakeup service agree between two callbacks, although
\* three of the four ways to remove an alarm do not save: no alarm is silently
\* lost, unless a kill tore a save, and no wakeup outlives its alarm.
StoresAgree == NoOrphans /\ (kills = 0 => NoSilentLoss)

\* Every alarm in memory still has its wakeup, so that it can ring.
Armed ==
    Idle => \A i \in DOMAIN alarms :
               alarms[i].id \in Ids(scheduled) \union Due

\* What holds even if the app was killed once between two flash writes of a
\* save, whose counts, times and ids may then be of different arrays: at every
\* later launch the array is in order, every alarm in it has its wakeup, and
\* memory knows no more than flash.  (A second kill may leave all three wrong.)
SurvivesKill == kills <= 1 => Ascending /\ Durable /\ Armed

\* What the conversation shows as set and still to come, is pending.
ConversationTruthful ==
    \A e \in shown : e.time > now => e.id \in AlarmIds

\* An alarm rings once, and no earlier than its time: a save torn by a kill can
\* leave it another's, and a second one an id that two of them share.
RingsOnce ==
    [][\A i \in DOMAIN windows' : i \notin DOMAIN windows =>
          /\ kills = 0 => windows'[i].time <= now
          /\ kills <= 1 => fate[windows'[i].id] = "pending"]_vars

\* Every alarm, set and not cancelled, is eventually dealt with: it rings, or
\* is missed because the app was ending at that very moment; unless the app
\* was killed while it saved.
EventuallyRings ==
    \A id \in WakeupId :
        (id \in DOMAIN fate /\ fate[id] = "pending")
            ~> (id \in DOMAIN fate => fate[id] # "pending") \/ kills > 0
=============================================================================
