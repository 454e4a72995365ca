------------------------------ MODULE AlarmMenu ------------------------------
(***************************************************************************)
(* The alarm menu and the timer menu (app/src/c/menus/alarm_menu.c) on top *)
(* of the alarm manager.  A menu shows one kind of alarm as rows; the      *)
(* alarms behind the rows come and go without the menu being told: an      *)
(* alarm rings and covers the menu, the phone sets or cancels one, or one  *)
(* goes while the "Delete" action menu is open.                            *)
(*                                                                         *)
(* "rows" is how many rows the menu layer counted when it last (re)loaded  *)
(* its data.  Row texts are drawn from the manager and are left out.       *)
(***************************************************************************)
EXTENDS AlarmManager

VARIABLES
    open,        \* is a menu window on the stack
    forTimers,   \* data->for_timers
    rows,        \* rows of the menu layer at its last reload
    empty,       \* is "No alarms set" shown in place of the menu layer
    selected,    \* the selected row, from 1
    deleting     \* is the action menu with "Delete" over the menu

menu == <<open, forTimers, rows, empty, selected, deleting>>
menuVars == <<vars, menu>>

MenuInit ==
    /\ Init
    /\ open = FALSE
    /\ forTimers = FALSE
    /\ rows = 0
    /\ empty = FALSE
    /\ selected = 1
    /\ deleting = FALSE

\* The places in the manager's array of the alarms that menu shows.
Relevant(s, timers) == {i \in DOMAIN s : s[i].timer = timers}

RowCount(s, timers) == Cardinality(Relevant(s, timers))

\* Mutant: rows are counted over alarms and timers alike.
InRowOfAll(i, row) == i = row

\* The alarm behind a row: the row-th relevant one in the array.
InRow(i, row) ==
    /\ i \in Relevant(alarms, forTimers)
    /\ Cardinality({j \in Relevant(alarms, forTimers) : j <= i}) = row

\* menu_layer_reload_data(): the selection stays within the rows.
Reload(s) ==
    /\ rows' = RowCount(s, forTimers)
    /\ selected' = IF selected > rows' /\ rows' > 0 THEN rows' ELSE selected
    /\ UNCHANGED empty

\* prv_show_empty() removes the menu layer for good.
ShowEmpty ==
    /\ empty' = TRUE
    /\ UNCHANGED <<rows, selected>>

ReloadOrEmpty(s) ==
    \/ s = <<>> /\ ShowEmpty
    \/ s # <<>> /\ Reload(s)

\* prv_window_appear(), once the manager's array is s: the alarm menu
\* returns at once.
Appear(s) ==
    \/ forTimers /\ ReloadOrEmpty(s)
    \/ ~forTimers /\ UNCHANGED <<rows, empty, selected>>

\* The menu is what the user looks at.
OnTop == open /\ windows = <<>> /\ ~deleting

OpenMenu(timers) ==
    /\ Idle
    /\ windows = <<>>
    /\ ~open
    /\ open' = TRUE
    /\ forTimers' = timers
    /\ rows' = RowCount(alarms, timers)
    /\ empty' = (rows' = 0)
    /\ selected' = 1
    /\ UNCHANGED <<deleting, vars>>

CloseMenu ==
    /\ Idle
    /\ OnTop
    /\ open' = FALSE
    /\ UNCHANGED <<forTimers, rows, empty, selected, deleting, vars>>

\* The user moves to a row and presses select.
SelectRow(row) ==
    /\ Idle
    /\ OnTop
    /\ ~empty
    /\ row \in 1..rows
    /\ selected' = row
    /\ deleting' = TRUE
    /\ UNCHANGED <<open, forTimers, rows, empty, vars>>

\* prv_cancel_alarm(): what is deleted is whatever is now in the selected
\* row; if nothing is, nothing happens.  Then the action menu closes and the
\* menu appears again.
Delete ==
    /\ Idle
    /\ deleting
    /\ windows = <<>>
    /\ \/ \E i \in DOMAIN alarms :
             /\ InRow(i, selected)
             /\ CancelAlarm(alarms[i].time)
             /\ ReloadOrEmpty(alarms')
       \/ /\ \A i \in DOMAIN alarms : ~InRow(i, selected)
          /\ Appear(alarms)
          /\ UNCHANGED vars
    /\ deleting' = FALSE
    /\ UNCHANGED <<open, forTimers>>

Back ==
    /\ Idle
    /\ deleting
    /\ windows = <<>>
    /\ deleting' = FALSE
    /\ Appear(alarms)
    /\ UNCHANGED <<open, forTimers, vars>>

\* The second's tick, subscribed to while the timer menu is on top.
MenuTick ==
    /\ Idle
    /\ OnTop
    /\ forTimers
    /\ Reload(alarms)
    /\ UNCHANGED <<open, forTimers, deleting, vars>>

\* The last alarm window goes and the menu is what lay under it.
Uncovered == open /\ ~deleting /\ windows # <<>> /\ windows' = <<>>

\* What a step of the manager does to the menu: nothing, unless it ends the
\* app or takes the last alarm window off the menu.
Reacts ==
    \/ /\ ~running'
       /\ open' = FALSE
       /\ deleting' = FALSE
       /\ UNCHANGED <<forTimers, rows, empty, selected>>
    \/ /\ running'
       /\ \/ Uncovered /\ Appear(alarms')
          \/ ~Uncovered /\ UNCHANGED <<rows, empty, selected>>
       /\ UNCHANGED <<open, forTimers, deleting>>

MenuNext ==
    \/ \E timers \in BOOLEAN : OpenMenu(timers)
    \/ CloseMenu
    \/ \E row \in 1..MAX_ALARMS : SelectRow(row)
    \/ Delete
    \/ Back
    \/ MenuTick
    \/ Next /\ Reacts

MenuSpec == MenuInit /\ [][MenuNext]_menuVars

-----------------------------------------------------------------------------
MenuTypeOK ==
    /\ TypeOK
    /\ open \in BOOLEAN
    /\ forTimers \in BOOLEAN
    /\ rows \in 0..MAX_ALARMS
    /\ empty \in BOOLEAN
    /\ selected \in 1..MAX_ALARMS
    /\ deleting \in BOOLEAN

\* prv_cancel_alarm() hands only a time to the manager, which looks for it
\* among alarms and timers alike.  Still the timer menu never deletes an
\* alarm nor the alarm menu a timer, however the array changed while the
\* action menu was open: no two alarms share a time, but for those that a save
\* torn by a kill has given one.
DeletesItsKind ==
    kills = 0 /\ deleting /\ Delete =>
        \A i \in DOMAIN alarms :
            fate'[alarms[i].id] = "cancelled" => alarms[i].timer = forTimers

\* A menu that an alarm covered: "A potential reason for us disappearing and
\* reappearing is an alarm going off, in which case our old data will no longer
\* make any sense" (comment in prv_window_appear).  The timer menu comes back
\* with as many rows as there are timers; the alarm menu is not reloaded.
TimerMenuFresh ==
    Uncovered /\ running' /\ forTimers =>
        empty' \/ rows' = RowCount(alarms', TRUE)

\* What the menus do to alarms that come and go under them.
MenuSound == [][DeletesItsKind /\ TimerMenuFresh]_menuVars
=============================================================================
