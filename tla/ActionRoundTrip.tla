-------------------------- MODULE ActionRoundTrip --------------------------
(***************************************************************************)
(* Actions: the functions of the service that are carried out elsewhere.   *)
(* CallAction() of the service sends a request over the session's          *)
(* websocket and takes the next message of it for the answer; the phone's  *)
(* handlers answer by themselves, or ask the watch and answer when a reply *)
(* comes.  Nothing in an answer or in a reply says which request it is of: *)
(* here each carries the number of the action, and the model's "for" and   *)
(* "from" show what the program cannot see.                                *)
(*                                                                         *)
(* A session is one prompt and one websocket.  The arguments of actions    *)
(* and the contents of answers are left out, and with them the calls that  *)
(* end before a request is sent.                                           *)
(***************************************************************************)
EXTENDS Integers, FiniteSets, SequencesExt

CONSTANTS
    Session,          \* the prompts
    Kinds,            \* the kinds of action the model asks for
    MaxActions,       \* bound: actions asked for, by all sessions
    MaxLosses,        \* bound: AppMessages lost
    MaxBreaks         \* bound: websockets that break

ASSUME ActionAssumption ==
    /\ Kinds \subseteq {"set_alarm", "get_alarm", "delete_reminder", "other"}
    /\ MaxActions \in Nat
    /\ MaxLosses \in Nat
    /\ MaxBreaks \in Nat

ActionId == 1..MaxActions

\* An answer: the action whose handler gave it, and the action whose request
\* the watch had replied to, 0 if the phone answered by itself.
Answer == [for : ActionId, from : 0..MaxActions]

VARIABLES
    asked,        \* every action asked for, [session, kind], by number
    calling,      \* per session the action CallAction() is at, or 0
    open,         \* per session whether its websocket is
    down,         \* per session the actions on their way to the phone
    up,           \* per session the answers on their way to the service
    listeners,    \* the phone's alarm handlers waiting for a reply, oldest first
    toWatch,      \* requests on their way to the watch
    toPhone,      \* replies on their way to the phone
    answers,      \* history: what was returned, [to, for, from]
    failures,     \* history: actions that returned an error of CallAction()
    lost,         \* history: actions whose request or reply was lost
    surplus,      \* history: per session the answers given beyond one an action
    breaks        \* how many websockets broke

service == <<asked, calling, answers, failures>>
link == <<toWatch, toPhone, lost>>
vars == <<service, open, down, up, listeners, link, surplus, breaks>>

Init ==
    /\ asked = <<>>
    /\ calling = [s \in Session |-> 0]
    /\ open = [s \in Session |-> TRUE]
    /\ down = [s \in Session |-> <<>>]
    /\ up = [s \in Session |-> <<>>]
    /\ listeners = <<>>
    /\ toWatch = <<>>
    /\ toPhone = <<>>
    /\ answers = {}
    /\ failures = {}
    /\ lost = {}
    /\ surplus = [s \in Session |-> 0]
    /\ breaks = 0

Asker(a) == asked[a].session

Kind(a) == asked[a].kind

\* The websocket of s is closed, by whom ever: nothing more is read from it.
Shut(s) ==
    /\ open' = [open EXCEPT ![s] = FALSE]
    /\ up' = [up EXCEPT ![s] = <<>>]

-----------------------------------------------------------------------------
(* The service.                                                            *)

\* Mutant: the action after the next one is waited for.
NextButOne == Len(asked) + 2

Number == Len(asked) + 1

\* The model calls a function that is an action: the request is written.  A
\* session whose websocket is closed fails to write the thought before, and
\* asks for nothing more.
CallAction(s, kind) ==
    /\ open[s]
    /\ calling[s] = 0
    /\ Len(asked) < MaxActions
    /\ asked' = Append(asked, [session |-> s, kind |-> kind])
    /\ calling' = [calling EXCEPT ![s] = Number]
    /\ down' = [down EXCEPT ![s] = Append(@, Len(asked) + 1)]
    /\ UNCHANGED <<answers, failures, open, up, listeners, link, surplus,
                   breaks>>

Return(s, answer) ==
    /\ answers' = answers \union
                    {[to |-> calling[s], for |-> answer.for, from |-> answer.from]}
    /\ calling' = [calling EXCEPT ![s] = 0]
    /\ UNCHANGED <<asked, failures, open, down, listeners, link, surplus,
                   breaks>>

\* Mutant: all that has arrived is read, the last of it taken.
ReadLast(s) ==
    /\ calling[s] # 0
    /\ up[s] # <<>>
    /\ up' = [up EXCEPT ![s] = <<>>]
    /\ Return(s, Last(up[s]))

\* The next message of the websocket is the response.
Read(s) ==
    /\ calling[s] # 0
    /\ up[s] # <<>>
    /\ up' = [up EXCEPT ![s] = Tail(@)]
    /\ Return(s, Head(up[s]))

\* Mutant: no timeout, the read fails only when the websocket is closed.
ReadBreaks(s) ==
    /\ calling[s] # 0
    /\ ~open[s]
    /\ failures' = failures \union {calling[s]}
    /\ calling' = [calling EXCEPT ![s] = 0]
    /\ Shut(s)
    /\ UNCHANGED <<asked, answers, down, listeners, link, surplus, breaks>>

\* The read fails, because the websocket is closed or ten seconds are over:
\* a read given up closes the websocket.
ReadFails(s) ==
    /\ calling[s] # 0
    /\ failures' = failures \union {calling[s]}
    /\ calling' = [calling EXCEPT ![s] = 0]
    /\ Shut(s)
    /\ UNCHANGED <<asked, answers, down, listeners, link, surplus, breaks>>

\* The prompt is answered, and the service closes the websocket.
EndSession(s) ==
    /\ open[s]
    /\ calling[s] = 0
    /\ Shut(s)
    /\ UNCHANGED <<service, down, listeners, link, surplus, breaks>>

-----------------------------------------------------------------------------
(* The phone.                                                              *)

\* ws.send(), n times: what is sent on a closed websocket is dropped.
Sends(a, from, n) ==
    LET s == Asker(a) IN
    /\ up' = IF open[s]
             THEN [up EXCEPT ![s] = @ \o [i \in 1..n |-> [for |-> a, from |-> from]]]
             ELSE up
    /\ surplus' = IF open[s] THEN [surplus EXCEPT ![s] = @ + n - 1] ELSE surplus

\* The watch is asked, and a listener hooked up for its reply.  The timeout
\* meant to unhook it is called with its arguments the wrong way round, and
\* does nothing.
AskWatch(a) ==
    /\ listeners' = Append(listeners, a)
    /\ toWatch' = Append(toWatch, a)
    /\ UNCHANGED <<up, surplus>>

AnswerTimes(a, n) ==
    /\ Sends(a, 0, n)
    /\ UNCHANGED <<listeners, toWatch>>

\* setAlarm(): a bad time or duration is answered at once.
SetAlarm(a) ==
    /\ Kind(a) = "set_alarm"
    /\ AskWatch(a) \/ AnswerTimes(a, 1)

GetAlarm(a) ==
    /\ Kind(a) = "get_alarm"
    /\ AskWatch(a)

\* deleteReminder() does not return after it has answered with an error: an
\* unknown reminder is answered twice, a missing id three times.
DeleteReminder(a) ==
    /\ Kind(a) = "delete_reminder"
    /\ \E n \in 1..3 : AnswerTimes(a, n)

\* set_reminder, get_reminders, update_settings and unknown actions.
OtherAction(a) ==
    /\ Kind(a) = "other"
    /\ AnswerTimes(a, 1)

\* handleAction(), for a message of the websocket.
HandleAction(s) ==
    /\ down[s] # <<>>
    /\ down' = [down EXCEPT ![s] = Tail(@)]
    /\ LET a == Head(down[s]) IN
       SetAlarm(a) \/ GetAlarm(a) \/ DeleteReminder(a) \/ OtherAction(a)
    /\ UNCHANGED <<service, open, toPhone, lost, breaks>>

\* Mutant: any reply of the watch will do.
HearsAny(a, reply) == TRUE

\* handleMessage() of a's listener looks for the key of its kind of reply.
Hears(a, reply) == Kind(a) = Kind(reply)

\* The places of s's handlers that hear the reply.
Heard(s, reply) == {i \in DOMAIN listeners : /\ Asker(listeners[i]) = s
                                             /\ Hears(listeners[i], reply)}

\* Of all others: cleanup() of those that hear it.
Deaf(reply) == {i \in DOMAIN listeners : ~Hears(listeners[i], reply)}

\* Some places, in order: the only such list.
InOrder(places) ==
    {at \in [1..Cardinality(places) -> places] :
        \A i, j \in DOMAIN at : i < j => at[i] < at[j]}

\* A reply is given to all listeners: each that hears it answers with it.
HearReply ==
    /\ toPhone # <<>>
    /\ LET reply == Head(toPhone)
           Given(at) == [i \in DOMAIN at |->
                           [for |-> listeners[at[i]], from |-> reply]]
       IN  /\ \E at \in [Session -> UNION {InOrder(Heard(s, reply)) : s \in Session}] :
                 /\ \A s \in Session : at[s] \in InOrder(Heard(s, reply))
                 /\ up' = [s \in Session |->
                             IF open[s] THEN up[s] \o Given(at[s]) ELSE up[s]]
           /\ \E at \in InOrder(Deaf(reply)) :
                 listeners' = [i \in DOMAIN at |-> listeners[at[i]]]
    /\ toPhone' = Tail(toPhone)
    /\ UNCHANGED <<service, open, down, toWatch, lost, surplus, breaks>>

-----------------------------------------------------------------------------
(* The watch, and what goes wrong on the way.                              *)

\* The alarm manager's handlers reply to every request, if the outbox can be
\* opened and sent.
WatchHandles ==
    /\ toWatch # <<>>
    /\ toWatch' = Tail(toWatch)
    /\ \/ /\ toPhone' = Append(toPhone, Head(toWatch))
          /\ UNCHANGED lost
       \/ /\ Cardinality(lost) < MaxLosses
          /\ lost' = lost \union {Head(toWatch)}
          /\ UNCHANGED toPhone
    /\ UNCHANGED <<service, open, down, up, listeners, surplus, breaks>>

\* Bluetooth fails to deliver a message.
Lose ==
    /\ Cardinality(lost) < MaxLosses
    /\ \/ \E i \in DOMAIN toWatch :
             /\ toWatch' = RemoveAt(toWatch, i)
             /\ lost' = lost \union {toWatch[i]}
             /\ UNCHANGED toPhone
       \/ \E i \in DOMAIN toPhone :
             /\ toPhone' = RemoveAt(toPhone, i)
             /\ lost' = lost \union {toPhone[i]}
             /\ UNCHANGED toWatch
    /\ UNCHANGED <<service, open, down, up, listeners, surplus, breaks>>

\* The phone's connection breaks, whatever the session is doing.
Break(s) ==
    /\ open[s]
    /\ breaks < MaxBreaks
    /\ breaks' = breaks + 1
    /\ Shut(s)
    /\ down' = [down EXCEPT ![s] = <<>>]
    /\ UNCHANGED <<service, listeners, link, surplus>>

\* The watch app is left, and the phone's program stopped with it.
AppCloses ==
    /\ \E s \in Session : open[s]
    /\ breaks < MaxBreaks
    /\ breaks' = breaks + 1
    /\ open' = [s \in Session |-> FALSE]
    /\ up' = [s \in Session |-> <<>>]
    /\ down' = [s \in Session |-> <<>>]
    /\ listeners' = <<>>
    /\ toWatch' = <<>>
    /\ toPhone' = <<>>
    /\ UNCHANGED <<service, lost, surplus>>

Next ==
    \/ \E s \in Session :
          \/ \E kind \in Kinds : CallAction(s, kind)
          \/ Read(s)
          \/ ReadFails(s)
          \/ EndSession(s)
          \/ HandleAction(s)
          \/ Break(s)
    \/ HearReply
    \/ WatchHandles
    \/ Lose
    \/ AppCloses

\* A call ends by an answer or by its timeout; the phone and the watch handle
\* what they receive.  Nothing makes a message arrive that was lost.
Fairness ==
    /\ \A s \in Session : WF_vars(Read(s) \/ ReadFails(s))
    /\ \A s \in Session : WF_vars(HandleAction(s))
    /\ WF_vars(WatchHandles)
    /\ WF_vars(HearReply)

Spec == Init /\ [][Next]_vars

FairSpec == Spec /\ Fairness

-----------------------------------------------------------------------------
TypeOK ==
    /\ asked \in Seq([session : Session, kind : Kinds])
    /\ Len(asked) <= MaxActions
    /\ calling \in [Session -> 0..Len(asked)]
    /\ open \in [Session -> BOOLEAN]
    /\ down \in [Session -> Seq(DOMAIN asked)]
    /\ up \in [Session -> Seq(Answer)]
    /\ listeners \in Seq(DOMAIN asked)
    /\ toWatch \in Seq(DOMAIN asked)
    /\ toPhone \in Seq(DOMAIN asked)
    /\ answers \subseteq [to : ActionId, for : ActionId, from : 0..MaxActions]
    /\ failures \subseteq DOMAIN asked
    /\ lost \subseteq DOMAIN asked
    /\ surplus \in [Session -> 0..(2 * MaxActions)]
    /\ breaks \in 0..MaxBreaks

\* Why CallAction() ever returns the answer to something else: it never takes
\* one from another session's websocket; it takes one given for another action
\* only after an action of its session was answered more than once; and the
\* answer tells the watch's reply to another request only if that was of the
\* same kind, and after such a repetition or beside another session that asked
\* for the same.
TakesExplained ==
    \A r \in answers :
        LET s == Asker(r.to) IN
        /\ Asker(r.for) = s
        /\ r.for # r.to => r.for < r.to /\ surplus[s] > 0
        /\ r.from \notin {0, r.for} =>
              /\ Kind(r.from) = Kind(r.for)
              /\ \/ surplus[s] > 0
                 \/ \E b \in DOMAIN asked :
                       Asker(b) # s /\ Kind(b) = Kind(r.for)

\* How often the answer of an action has come to the service.
Given(a) ==
    Cardinality({r \in answers : r.for = a})
        + Cardinality({i \in DOMAIN up[Asker(a)] : up[Asker(a)][i].for = a})

\* Whatever replies the watch sends, to whomever, a handler that asked it
\* answers at most once.
AlarmsAnsweredOnce ==
    \A a \in DOMAIN asked :
        Kind(a) \in {"set_alarm", "get_alarm"} => Given(a) <= 1

\* A listener that waits, waits for a request or reply on its way, unless one
\* was lost: no reply is used up by another listener and then missing.
ListenersAwaitReply ==
    \A i \in DOMAIN listeners :
        listeners[i] \in ToSet(toWatch) \union ToSet(toPhone) \union lost

\* Whose answer it is that CallAction() takes, and whose reply it tells: of two
\* sessions, or two actions of one, and of requests whose reply was lost.
AnswersExplained == TakesExplained /\ AlarmsAnsweredOnce /\ ListenersAwaitReply

\* The actions of s that the phone has yet to answer.
Unanswered(s) ==
    Len(down[s])
        + Cardinality({i \in DOMAIN listeners : Asker(listeners[i]) = s})

\* One answer too many is never made up for: while a session's websocket is
\* open, the answers that wait to be read and those still to be given exceed
\* what CallAction() waits for by every answer given too often so far.
SurplusStays ==
    \A s \in Session :
        open[s] =>
            Len(up[s]) + Unanswered(s)
                = surplus[s] + (IF calling[s] = 0 THEN 0 ELSE 1)

\* Every call of CallAction() returns, with an answer, with the failure of the
\* websocket, or after ten seconds: a session is always back at no call.
EventuallyReturns ==
    \A s \in Session : []<>(calling[s] = 0)

\* "Timed out waiting for a response from the watch." (alarms.js): an alarm
\* handler does not wait for ever.
EventuallyUnhooked ==
    \A a \in ActionId :
        a \in ToSet(listeners) ~> a \notin ToSet(listeners)
=============================================================================
