----------------------------- MODULE WindowStack -----------------------------
(***************************************************************************)
(* The windows of the watch app and what happens to them behind the user's *)
(* back (app/src/c: root_window.c, converse/session_window.c,              *)
(* converse/report_window.c, menus/, alarms/alarm_window.c,                *)
(* util/result_window.c): the timeout of a quick launch, a dictation that  *)
(* fails, an alarm that rings, answers of the phone that come late.        *)
(*                                                                         *)
(* A window is its kind; the last of "stack" is on top.  The SDK calls     *)
(* disappear for the old top, then appear for the new one, within the call *)
(* that changes the stack.  Of a conversation only what opens and closes   *)
(* windows is kept (module Conversation has the rest); the screens of the  *)
(* root menu that show a text or a list are one kind, "screen".            *)
(***************************************************************************)
EXTENDS Integers, Sequences, SequencesExt, FiniteSets

CONSTANTS
    MaxDepth,    \* bound: windows on the stack
    MaxDue       \* bound: requests of one kind the phone has not dealt with

\* main() pushes two windows, the release notes over one other.
ASSUME WindowAssumption ==
    /\ MaxDepth \in Nat /\ MaxDepth >= 2
    /\ MaxDue \in Nat

\* The windows that send the phone one message and wait for its answer.
Form == {"report", "feedback"}
Asking == Form \union {"quota"}

Kind == Asking \union
    {"root", "suggestions", "menu", "screen", "session", "actions", "result",
     "alarm", "notes", "consent", "choice"}

VARIABLES
    stack,      \* the window stack, top last
    sw,         \* the session window, see Session
    dictating,  \* the window whose dictation is under way, or "nobody"
    waiting,    \* the asking windows that show the running pony
    due,        \* for each kind, requests the phone has yet to deal with
    root,       \* the root window's app_message_handle, see Handle
    seen,       \* history: what has happened that may explain a loss
    lost        \* history: what the last step took from the user

\* conv: "empty", "busy" (a prompt is being answered) or "idle";
\* armed: the timer will call prv_timed_out(); excuse: why it will not, or
\* why the session stays although its only dictation failed ("unheard").
Session == [timed : BOOLEAN, armed : BOOLEAN,
            conv : {"empty", "busy", "idle"},
            excuse : {"none", "covered", "cancelled", "misfired", "unheard"}]

NoSession == [timed |-> FALSE, armed |-> FALSE, conv |-> "empty",
              excuse |-> "none"]

\* "stale": unsubscribed, but not cleared.
Handle == {"none", "live", "stale"}

Losses == {"timeout", "dictation", "answer", "warning"}
Reasons == {"late_entry", "covered_dictation", "abandoned", "unanswered",
            "root_away"}

windowVars == <<stack, sw, dictating, waiting, due, root, seen, lost>>

Windows == Range(stack)
TopOf(s) == IF s = <<>> THEN "nothing" ELSE Last(s)
Top == TopOf(stack)

\* A step of the windows that takes nothing from the user.
Harmless == lost' = {}

Quiet == dictating = "nobody"

\* The user acts on window w: it is on top, no dictation window above it.
At(w) == Top = w /\ Quiet

Over(s, w) == IF Len(s) < MaxDepth THEN {Append(s, w)} ELSE {}

\* window_stack_remove(): s without one window w.
Removed(s, w) == {RemoveAt(s, i) : i \in {k \in DOMAIN s : s[k] = w}}

-----------------------------------------------------------------------------
(* What the handlers of windows do when the stack becomes s.               *)

Covered(w) ==
    [w EXCEPT !.armed = FALSE,
              !.excuse = IF @ = "unheard" THEN @ ELSE "covered"]

\* Mutant: prv_window_disappear() leaves the timer alone.
TimerKept(s) ==
    IF "session" \notin Range(s) THEN NoSession
    ELSE [sw EXCEPT !.excuse =
            IF Top = "session" /\ TopOf(s) # "session" THEN "covered" ELSE @]

\* The session window's disappear and unload handlers: the timer is
\* cancelled, and nothing in appear starts it again.
SessionIn(s) ==
    IF "session" \notin Range(s) THEN NoSession
    ELSE IF Top = "session" /\ TopOf(s) # "session"
    THEN Covered(sw)
    ELSE sw

\* prv_window_appear() subscribes if there is no handle, and
\* prv_window_disappear() unsubscribes without forgetting it.
RootIn(s) ==
    IF "root" \notin Range(s) THEN "none"
    ELSE IF TopOf(s) = "root" THEN IF root = "none" THEN "live" ELSE root
    ELSE IF root = "live" THEN "stale" ELSE root

\* What may later explain a loss, seen as the stack becomes s.
SeenIn(s) ==
    (IF dictating = "session" /\ "session" \in Range(s)
        /\ TopOf(s) # "session"
     THEN {"covered_dictation"} ELSE {})
    \union
    (IF \E w \in Form : w \in Windows /\ w \notin Range(s) /\ due[w] > 0
     THEN {"abandoned"} ELSE {})
    \union
    (IF Top = "root" /\ TopOf(s) # "root" THEN {"root_away"} ELSE {})

\* Mutant: a dictation is not ended with its window.
LayoutDictating(s, d) ==
    /\ stack' = s
    /\ root' = RootIn(s)
    /\ dictating' = d
    /\ waiting' = waiting \intersect Range(s)

\* The stack becomes s, dictation d goes on unless its window is unloaded.
Layout(s, d) ==
    /\ stack' = s
    /\ root' = RootIn(s)
    /\ dictating' = IF d \in Range(s) THEN d ELSE "nobody"
    /\ waiting' = waiting \intersect Range(s)

Show(s) ==
    /\ Layout(s, dictating)
    /\ sw' = SessionIn(s)
    /\ seen' = seen \union SeenIn(s)
    /\ UNCHANGED due
    /\ Harmless

Push(w) == \E s \in Over(stack, w) : Show(s)

\* session_window_push(): the window appears, and adds the starting prompt or
\* starts the dictation.  The prompt's answer may be an error at once.
PushSession(s, timed, prompted) ==
    /\ \E conv \in IF prompted THEN {"busy", "idle"} ELSE {"empty"} :
         sw' = [timed |-> timed, armed |-> timed /\ prompted, conv |-> conv,
                excuse |-> "none"]
    /\ Layout(s, IF prompted THEN "nobody" ELSE "session")
    /\ seen' = seen \union SeenIn(s)
    /\ UNCHANGED due
    /\ Harmless

-----------------------------------------------------------------------------
(* The session window and its timeout.                                     *)

\* Mutant: a timer is registered only if the handle is NULL, which it is not
\* after the timer went off.
RefreshedOnce(w) ==
    [w EXCEPT !.armed = w.armed \/ (w.timed /\ w.excuse # "misfired"),
              !.excuse = "none"]

\* prv_refresh_timeout().
Refreshed(w) == [w EXCEPT !.armed = w.timed, !.excuse = "none"]

\* Entries were added and the last leaves the conversation like conv, while
\* the stack becomes s.
Entered(s, conv) ==
    /\ sw' = [Refreshed(sw) EXCEPT !.conv = conv]
    /\ seen' = seen \union SeenIn(s)
                \union IF sw.timed /\ TopOf(s) # "session"
                       THEN {"late_entry"} ELSE {}

\* A message of the phone, or an alarm, adds an entry: whatever is on top.
EntryArrives ==
    /\ "session" \in Windows
    /\ \E conv \in {"busy", "idle"} : Entered(stack, conv)
    /\ UNCHANGED <<stack, dictating, waiting, due, root>>
    /\ Harmless

\* An entry is added to or completed, or the oldest one is deleted because
\* memory ran out, under whatever window: the session window refreshes the
\* timeout only if it scrolls.
EntryUpdated ==
    /\ "session" \in Windows
    /\ sw.conv # "empty"
    /\ \E conv \in {sw.conv, "idle"} :
          \/ Entered(stack, conv)
          \/ sw' = [sw EXCEPT !.conv = conv] /\ UNCHANGED seen
    /\ UNCHANGED <<stack, dictating, waiting, due, root>>
    /\ Harmless

Scroll ==
    /\ At("session")
    /\ sw.conv # "empty"
    /\ sw' = Refreshed(sw)
    /\ UNCHANGED <<stack, dictating, waiting, due, root, seen>>
    /\ Harmless

\* prv_timed_out(): the window popped is the one on top.
TimedOut ==
    /\ sw.armed
    /\ stack # <<>>
    /\ Layout(Front(stack), dictating)
    /\ sw' = IF Top = "session" THEN SessionIn(Front(stack))
             ELSE [sw EXCEPT !.armed = FALSE, !.excuse = "misfired"]
    /\ lost' = IF Top = "session" THEN {} ELSE {"timeout"}
    /\ seen' = seen \union SeenIn(Front(stack))
    /\ UNCHANGED due

\* Select, on a conversation that is idle or empty.  Whether the system's
\* dictation window makes the session window disappear, the SDK leaves open.
Speak ==
    /\ At("session")
    /\ sw.conv \in {"idle", "empty"}
    /\ dictating' = "session"
    /\ \/ UNCHANGED sw
       \/ sw' = Covered(sw)
    /\ UNCHANGED <<stack, waiting, due, root, seen>>
    /\ Harmless

\* A transcript: the prompt may fail to be sent, which adds an error.
DictationSucceeds ==
    /\ dictating = "session"
    /\ \E conv \in {"busy", "idle"} : Entered(stack, conv)
    /\ dictating' = "nobody"
    /\ UNCHANGED <<stack, waiting, due, root>>
    /\ Harmless

\* Anything else: if there is nothing to look at, pop the window on top.
DictationFails ==
    /\ dictating = "session"
    /\ \/ /\ sw.conv # "empty"
          /\ dictating' = "nobody"
          /\ UNCHANGED <<stack, sw, waiting, root, seen>>
          /\ Harmless
       \/ /\ sw.conv = "empty"
          /\ Layout(Front(stack), "nobody")
          /\ sw' = IF Top = "session" THEN SessionIn(Front(stack))
                   ELSE [sw EXCEPT !.excuse = "unheard"]
          /\ lost' = IF Top = "session" THEN {} ELSE {"dictation"}
          /\ seen' = seen \union SeenIn(Front(stack))
    /\ UNCHANGED due

\* Select held down.  On an empty conversation the app dies of it (module
\* Conversation).
LongPress ==
    /\ At("session")
    /\ sw.conv = "idle"
    /\ Push("actions")

\* "Yes.", "No." or the last prompt: the entry is added under the menu.
ActionInput ==
    /\ At("actions")
    /\ Layout(Front(stack), dictating)
    /\ \E conv \in {"busy", "idle"} : Entered(Front(stack), conv)
    /\ UNCHANGED due
    /\ Harmless

ActionDictate ==
    /\ At("actions")
    /\ Layout(Front(stack), "session")
    /\ UNCHANGED <<sw, due, seen>>
    /\ Harmless

ActionReport ==
    /\ At("actions")
    /\ Show(Append(Front(stack), "report"))

-----------------------------------------------------------------------------
(* The root window, its menu and the screens of that.                      *)

PromptClicked ==
    /\ At("root")
    /\ \E s \in Over(stack, "session") : PushSession(s, FALSE, FALSE)

OpenSuggestions == At("root") /\ Push("suggestions")

\* The action menu closes behind the session window it pushes.
SuggestionClicked ==
    /\ At("suggestions")
    /\ PushSession(Append(Front(stack), "session"), FALSE, TRUE)

OpenMenu == At("root") /\ Push("menu")

OpenScreen == At("menu") /\ \E w \in {"screen", "feedback"} : Push(w)

\* The phone warns when its side has started: the root window shows the warning
\* if it is subscribed.
CobbleWarns ==
    /\ stack # <<>>
    /\ root # "live"
    /\ lost' = {"warning"}
    /\ seen' = IF Top = "root" THEN seen ELSE seen \union {"root_away"}
    /\ UNCHANGED <<stack, sw, dictating, waiting, due, root>>

\* Back, where the app does not say what it does: not while a dictation is
\* shown, and in the consent windows see WatchApp.
Back ==
    /\ stack # <<>>
    /\ Quiet
    /\ Top \notin {"consent", "choice"}
    /\ Show(Front(stack))

-----------------------------------------------------------------------------
(* Windows that ask the phone.                                             *)

\* app_message_outbox_send(), its result not looked at: the request of w
\* reaches the phone or does not.
Sent(w) ==
    \/ due[w] < MaxDue /\ due' = [due EXCEPT ![w] = @ + 1] /\ UNCHANGED seen
    \/ UNCHANGED due /\ seen' = seen \union {"unanswered"}

OpenQuota ==
    /\ At("menu")
    /\ \E s \in Over(stack, "quota") :
         /\ stack' = s
         /\ waiting' = waiting \union {"quota"}
         /\ Sent("quota")
    /\ UNCHANGED <<sw, dictating, root>>
    /\ Harmless

SubmitReport ==
    /\ At("report")
    /\ "report" \notin waiting
    /\ waiting' = waiting \union {"report"}
    /\ Sent("report")
    /\ UNCHANGED <<stack, sw, dictating, root>>
    /\ Harmless

SpeakFeedback ==
    /\ At("feedback")
    /\ "feedback" \notin waiting
    /\ dictating' = "feedback"
    /\ UNCHANGED <<stack, sw, waiting, due, root, seen>>
    /\ Harmless

FeedbackDictated ==
    /\ dictating = "feedback"
    /\ dictating' = "nobody"
    /\ \/ waiting' = waiting \union {"feedback"} /\ Sent("feedback")
       \/ UNCHANGED <<waiting, due, seen>>
    /\ UNCHANGED <<stack, sw, root>>
    /\ Harmless

\* The request fails, or its answer does not reach the watch: no listener for
\* errors, no answer to a status other than 200 for the quota, no retry.
PhoneFails ==
    /\ \E w \in Asking : due[w] > 0 /\ due' = [due EXCEPT ![w] = @ - 1]
    /\ seen' = seen \union {"unanswered"}
    /\ UNCHANGED <<stack, sw, dictating, waiting, root>>
    /\ Harmless

\* result_window_push() leaves data->timer to chance and appear cancels the
\* timer it names: it may be the session window's.
SessionByResult(s) ==
    {SessionIn(s)} \union
        IF SessionIn(s).armed
        THEN {[SessionIn(s) EXCEPT !.armed = FALSE, !.excuse = "cancelled"]}
        ELSE {}

ResultOver(s) == Over(s, "result")

\* prv_app_message_received() of the report and of the feedback window, which
\* takes any answer of its kind for its own.
Takes(w) == w \in Windows

\* The answer shows its result and removes the window it finds.
FormAnswered ==
    \E w \in Form :
        /\ due[w] > 0
        /\ due' = [due EXCEPT ![w] = @ - 1]
        /\ \/ /\ Takes(w)
              /\ \E r \in Removed(stack, w) : \E s \in ResultOver(r) :
                    /\ Layout(s, dictating)
                    /\ sw' \in SessionByResult(s)
                    /\ seen' = seen \union (SeenIn(s) \ {"abandoned"})
              /\ lost' = IF w \in waiting THEN {} ELSE {"answer"}
           \/ /\ ~Takes(w)
              /\ UNCHANGED <<stack, sw, dictating, waiting, root, seen>>
              /\ Harmless

\* The quota window shows the answer; any other window ignores it.
QuotaAnswered ==
    /\ due["quota"] > 0
    /\ due' = [due EXCEPT !["quota"] = @ - 1]
    /\ waiting' = waiting \ {"quota"}
    /\ UNCHANGED <<stack, sw, dictating, root, seen>>
    /\ Harmless

\* The timer of a result window, on top or not, removes that window.
ResultExpires == \E s \in Removed(stack, "result") : Show(s)

-----------------------------------------------------------------------------
(* Alarms.                                                                 *)

\* The wakeup handler pushes the alarm's window over whatever is there.
Rings == stack # <<>> /\ Push("alarm")

\* Snoozed or not, a result is shown and the alarm's window removed.
Snooze ==
    /\ At("alarm")
    /\ \E s \in ResultOver(Front(stack)) :
          /\ Layout(s, dictating)
          /\ sw' \in SessionByResult(s)
    /\ UNCHANGED <<due, seen>>
    /\ Harmless

-----------------------------------------------------------------------------
NothingDue == [w \in Asking |-> 0]

StackInit ==
    /\ stack = <<>>
    /\ sw = NoSession
    /\ dictating = "nobody"
    /\ waiting = {}
    /\ due = NothingDue
    /\ root = "none"
    /\ seen = {}
    /\ lost = {}

StackNext ==
    \/ EntryArrives
    \/ EntryUpdated
    \/ Scroll
    \/ TimedOut
    \/ Speak
    \/ DictationSucceeds
    \/ DictationFails
    \/ LongPress
    \/ ActionInput
    \/ ActionDictate
    \/ ActionReport
    \/ PromptClicked
    \/ OpenSuggestions
    \/ SuggestionClicked
    \/ OpenMenu
    \/ OpenScreen
    \/ CobbleWarns
    \/ Back
    \/ OpenQuota
    \/ SubmitReport
    \/ SpeakFeedback
    \/ FeedbackDictated
    \/ PhoneFails
    \/ FormAnswered
    \/ QuotaAnswered
    \/ ResultExpires
    \/ Rings
    \/ Snooze
=============================================================================
