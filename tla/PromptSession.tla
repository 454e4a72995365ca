--------------------------- MODULE PromptSession ---------------------------
(***************************************************************************)
(* The prompt sessions of the service: one goroutine and one websocket for *)
(* every prompt.  A session restores the thread it continues from Redis,   *)
(* asks the model round after round, sends what it says to the phone, has  *)
(* its functions called, looks for claims that are not true, and stores    *)
(* the thread under a new id, which the phone may continue.                *)
(*                                                                         *)
(* What is said is reduced to what the verifier tells apart: a text that   *)
(* claims to have set an alarm and one that does not, the call that sets   *)
(* it and any other.  The charges of a session are those of module Quota;  *)
(* what becomes of an action on its way is that of ActionRoundTrip.  Text  *)
(* held back for a widget that is not closed is no event before the widget *)
(* is, and dropped if it never is.                                         *)
(***************************************************************************)
EXTENDS Integers, FiniteSets, SequencesExt

CONSTANTS
    Session,     \* the prompts
    MaxRounds,   \* rounds in which the model is offered functions
    MaxOpen,     \* bound: sessions that run at once
    NoThread     \* no thread: nothing to continue, or nothing stored

Texts == {"say", "claim"}
Calls == {"set", "other"}
Responses == {"result", "error"}
Kinds == {"user"} \union Texts \union Calls \union Responses

\* A message of a thread: what it is, and the session it is of.
Message == [kind : Kinds, of : Session]

ASSUME PromptAssumption ==
    /\ MaxRounds \in Nat
    /\ MaxOpen \in Nat
    /\ NoThread \notin Session \union Seq(Message)

Endings == {"normal", "refused", "failed", "cut"}

VARIABLES
    pc,         \* per session where its goroutine is
    conn,       \* per session its websocket: "open", "gone" (the phone has
                \* left, writes may still succeed), or "broken"
    orig,       \* per session the thread it continues
    messages,   \* per session the thread as it has it
    rounds,     \* per session the rounds begun
    content,    \* per session the text of this round, "" if blank
    call,       \* per session the function called in this round, or ""
    store,      \* per session the thread Redis has under its id
    seen,       \* history: per session what the phone has seen (PromptAnswer)
    knows,      \* history: the threads whose id the phone was sent
    missed,     \* history: the sessions that showed text they do not have
    unstored,   \* history: the sessions whose thread Redis refused or dropped
    verdict     \* history: per session what the verifier did: "warned" the
                \* phone, or kept "silent" because it failed

round == <<rounds, content, call>>
history == <<seen, knows, missed, unstored, verdict>>
vars == <<pc, conn, orig, messages, round, store, history>>

Init ==
    /\ pc = [s \in Session |-> "idle"]
    /\ conn = [s \in Session |-> "broken"]
    /\ orig = [s \in Session |-> NoThread]
    /\ messages = [s \in Session |-> <<>>]
    /\ rounds = [s \in Session |-> 0]
    /\ content = [s \in Session |-> ""]
    /\ call = [s \in Session |-> ""]
    /\ store = [s \in Session |-> NoThread]
    /\ seen = [s \in Session |-> "none"]
    /\ knows = {}
    /\ missed = {}
    /\ unstored = {}
    /\ verdict = [s \in Session |-> {}]

Said(s, kind) == [kind |-> kind, of |-> s]

Goto(s, where) == pc' = [pc EXCEPT ![s] = where]

\* The phone sees the answer go on, if it is still there.
Shows(s, stage) ==
    seen' = IF conn[s] = "open" THEN [seen EXCEPT ![s] = stage] ELSE seen

\* A write to the websocket of s succeeds.
WriteSucceeds(s) == conn[s] # "broken"

\* A write to the websocket of s fails, and so will all that follow it.
WriteFails(s) ==
    /\ conn[s] # "open"
    /\ conn' = [conn EXCEPT ![s] = "broken"]

\* The goroutine ends, and what it alone had is gone.
Return(s) ==
    /\ Goto(s, "ended")
    /\ messages' = [messages EXCEPT ![s] = <<>>]
    /\ rounds' = [rounds EXCEPT ![s] = 0]
    /\ content' = [content EXCEPT ![s] = ""]
    /\ call' = [call EXCEPT ![s] = ""]

\* The websocket is closed with a status, if it still can be.
End(s, stage) ==
    /\ Return(s)
    /\ conn' = [conn EXCEPT ![s] = "broken"]
    /\ Shows(s, stage)

-----------------------------------------------------------------------------
(* The start of a session.                                                 *)

\* The phone opens a websocket for a prompt, to continue a thread it knows.
NewPromptSession(s) ==
    /\ pc[s] = "idle"
    /\ Cardinality({p \in Session : pc[p] \notin {"idle", "ended"}}) < MaxOpen
    /\ conn' = [conn EXCEPT ![s] = "open"]
    /\ seen' = [seen EXCEPT ![s] = "text"]
    /\ \E o \in knows \union {NoThread} :
          /\ orig' = [orig EXCEPT ![s] = o]
          /\ Goto(s, IF o = NoThread THEN "admit" ELSE "restore")
    /\ messages' = [messages EXCEPT ![s] = <<Said(s, "user")>>]
    /\ UNCHANGED <<round, store, knows, missed, unstored, verdict>>

\* The thread is loaded from Redis and put before the prompt.
RestoreThread(s) ==
    /\ pc[s] = "restore"
    /\ store[orig[s]] # NoThread
    /\ messages' = [messages EXCEPT ![s] = store[orig[s]] \o @]
    /\ Goto(s, "admit")
    /\ UNCHANGED <<conn, orig, round, store, history>>

\* The thread has expired, was never stored, or Redis does not answer.
RestoreFails(s) ==
    /\ pc[s] = "restore"
    /\ End(s, "failed")
    /\ UNCHANGED <<orig, store, knows, missed, unstored, verdict>>

\* The user has a subscription and quota left: the first round begins.
Admit(s) ==
    /\ pc[s] = "admit"
    /\ Goto(s, "stream")
    /\ rounds' = [rounds EXCEPT ![s] = 1]
    /\ UNCHANGED <<conn, orig, messages, content, call, store, history>>

\* The user is not known, has no subscription, or has used the quota up.
Refuse(s) ==
    /\ pc[s] = "admit"
    /\ \E stage \in {"refused", "failed"} : End(s, stage)
    /\ UNCHANGED <<orig, store, knows, missed, unstored, verdict>>

-----------------------------------------------------------------------------
(* A round: the stream of the model's answer, then its function call.      *)

\* A chunk of text is written to the phone, word by word, and added to the
\* content of the round.
Chunk(s) ==
    /\ pc[s] = "stream"
    /\ WriteSucceeds(s)
    /\ \E t \in Texts :
          content' = [content EXCEPT ![s] = IF @ = "claim" THEN @ ELSE t]
    /\ UNCHANGED <<pc, conn, orig, messages, rounds, call, store, history>>

\* A word cannot be written: the stream is read no further, and the chunk is
\* not added although words of it may have been shown.
ChunkFails(s) ==
    /\ pc[s] = "stream"
    /\ WriteFails(s)
    /\ Goto(s, "settle")
    /\ missed' = missed \union {s}
    /\ UNCHANGED <<orig, messages, round, store, seen, knows, unstored, verdict>>

\* Mutant: functions are offered in every round.
AlwaysOffers(s) == TRUE

\* After MaxRounds rounds the model is offered no functions.
OffersTools(s) == rounds[s] <= MaxRounds

\* The model calls a function: a second call of one answer replaces the first.
StreamCall(s) ==
    /\ pc[s] = "stream"
    /\ OffersTools(s)
    /\ \E f \in Calls : call' = [call EXCEPT ![s] = f]
    /\ UNCHANGED <<pc, conn, orig, messages, rounds, content, store, history>>

\* The model fails: nothing of the prompt is stored.
StreamError(s) ==
    /\ pc[s] = "stream"
    /\ End(s, "failed")
    /\ UNCHANGED <<orig, store, knows, missed, unstored, verdict>>

EndStream(s) ==
    /\ pc[s] = "stream"
    /\ Goto(s, "settle")
    /\ UNCHANGED <<conn, orig, messages, round, store, history>>

\* The text of the round as a message, if it is not blank.
Spoken(s) == IF content[s] = "" THEN <<>> ELSE <<Said(s, content[s])>>

\* Mutant: a round without text leaves the loop for the end.
StopSilent(s) ==
    /\ pc[s] = "settle"
    /\ call[s] = ""
    /\ messages' = [messages EXCEPT ![s] = @ \o Spoken(s)]
    /\ content' = [content EXCEPT ![s] = ""]
    /\ Goto(s, IF content[s] = "" THEN "store" ELSE "verify")
    /\ UNCHANGED <<conn, orig, rounds, call, store, history>>

\* The round ends without a call: the loop is left.
Stop(s) ==
    /\ pc[s] = "settle"
    /\ call[s] = ""
    /\ messages' = [messages EXCEPT ![s] = @ \o Spoken(s)]
    /\ content' = [content EXCEPT ![s] = ""]
    /\ Goto(s, "verify")
    /\ UNCHANGED <<conn, orig, rounds, call, store, history>>

\* The round ends with a call, and the phone is told the thought.
Think(s) ==
    /\ pc[s] = "settle"
    /\ call[s] # ""
    /\ WriteSucceeds(s)
    /\ messages' = [messages EXCEPT ![s] = @ \o Spoken(s) \o <<Said(s, call[s])>>]
    /\ content' = [content EXCEPT ![s] = ""]
    /\ Goto(s, "call")
    /\ UNCHANGED <<conn, orig, rounds, call, store, history>>

\* Mutant: the session goes on to its end when the thought cannot be written.
ThinkFailsGoesOn(s) ==
    /\ pc[s] = "settle"
    /\ call[s] # ""
    /\ WriteFails(s)
    /\ messages' = [messages EXCEPT ![s] = @ \o Spoken(s) \o <<Said(s, call[s])>>]
    /\ content' = [content EXCEPT ![s] = ""]
    /\ Goto(s, "verify")
    /\ UNCHANGED <<orig, rounds, call, store, history>>

\* The thought cannot be written: the session ends there, without a word.
ThinkFails(s) ==
    /\ pc[s] = "settle"
    /\ call[s] # ""
    /\ WriteFails(s)
    /\ Return(s)
    /\ UNCHANGED <<orig, store, history>>

\* The response is added to the thread, and the next round begins.
Respond(s, response) ==
    /\ pc[s] = "call"
    /\ messages' = [messages EXCEPT ![s] = Append(@, Said(s, response))]
    /\ call' = [call EXCEPT ![s] = ""]
    /\ rounds' = [rounds EXCEPT ![s] = @ + 1]
    /\ Goto(s, "stream")
    /\ UNCHANGED <<orig, content, store, knows, missed, unstored, verdict>>

\* A function of the service answers; an error it reports is an answer too.
CallFunction(s) ==
    /\ call[s] = "other"
    /\ Respond(s, "result")
    /\ UNCHANGED <<conn, seen>>

\* The phone answers an action, with its result or an error.
CallAction(s) ==
    /\ call[s] = "set"
    /\ conn[s] = "open"
    /\ \E response \in Responses : Respond(s, response)
    /\ UNCHANGED <<conn, seen>>

\* Mutant: no timeout, a silent phone is waited for until it has gone.
ActionBreaks(s) ==
    /\ call[s] = "set"
    /\ conn[s] # "open"
    /\ Respond(s, "error")
    /\ conn' = [conn EXCEPT ![s] = "broken"]
    /\ UNCHANGED seen

\* The request of an action cannot be written, or its answer is not read in
\* time, which closes the websocket.  The session goes on.
ActionFails(s) ==
    /\ call[s] = "set"
    /\ Respond(s, "error")
    /\ conn' = [conn EXCEPT ![s] = "broken"]
    /\ Shows(s, "cut")

-----------------------------------------------------------------------------
(* After the rounds.                                                       *)

IsModels(m) == m.kind \in Texts \union Calls

\* The last message of the model, of this prompt or an earlier one, 0 if
\* there is none.
LastAssistantMessage(s) ==
    LET mine == {i \in 1..Len(messages[s]) : IsModels(messages[s][i])}
    IN  IF mine = {} THEN 0 ELSE CHOOSE i \in mine : \A j \in mine : j <= i

\* The message looked at claims something.
Claims(s) ==
    LET i == LastAssistantMessage(s)
    IN  i # 0 /\ messages[s][i].kind = "claim"

\* Mutant: only the calls that succeeded count.
SetCallsAnswered(s) ==
    \E i \in 1..Len(messages[s]) - 1 :
        messages[s][i].kind = "set" /\ messages[s][i + 1].kind = "result"

\* The thread has a call of the function, from whatever prompt.
HasCalled(s) == \E i \in 1..Len(messages[s]) : messages[s][i].kind = "set"

\* The claim of a message nothing was called for.
Lies(s) == Claims(s) /\ ~HasCalled(s)

\* The verifier has nothing to say, or fails: it is given a second and a half.
FindNoLies(s) ==
    /\ pc[s] = "verify"
    /\ verdict' = IF Lies(s) THEN [verdict EXCEPT ![s] = {"silent"}] ELSE verdict
    /\ Goto(s, "done")
    /\ UNCHANGED <<conn, orig, messages, round, store, seen, knows, missed, unstored>>

\* A claim without a call: the phone is warned, if it can be.
FindLies(s) ==
    /\ pc[s] = "verify"
    /\ Lies(s)
    /\ \/ /\ WriteSucceeds(s)
          /\ Shows(s, "warned")
          /\ verdict' = IF conn[s] = "open" THEN [verdict EXCEPT ![s] = {"warned"}]
                                            ELSE verdict
          /\ UNCHANGED conn
       \/ /\ WriteFails(s)
          /\ UNCHANGED <<seen, verdict>>
    /\ Goto(s, "done")
    /\ UNCHANGED <<orig, messages, round, store, knows, missed, unstored>>

\* The dialog is done.
WriteDone(s) ==
    /\ pc[s] = "done"
    /\ \/ /\ WriteSucceeds(s)
          /\ Shows(s, "done")
          /\ UNCHANGED conn
       \/ /\ WriteFails(s)
          /\ UNCHANGED seen
    /\ Goto(s, "store")
    /\ UNCHANGED <<orig, messages, round, store, knows, missed, unstored, verdict>>

\* The thread is stored under the session's own id; that Redis may refuse is
\* not looked at.  (Marshalling the thread, whose failure is, cannot fail.)
StoreThread(s) ==
    /\ pc[s] = "store"
    /\ \/ /\ store' = [store EXCEPT ![s] = messages[s]]
          /\ UNCHANGED unstored
       \/ /\ unstored' = unstored \union {s}
          /\ UNCHANGED store
    /\ Goto(s, "name")
    /\ UNCHANGED <<conn, orig, messages, round, seen, knows, missed, verdict>>

\* The phone is told the id of the thread.
WriteThreadId(s) ==
    /\ pc[s] = "name"
    /\ \/ /\ WriteSucceeds(s)
          /\ Shows(s, "named")
          /\ knows' = IF conn[s] = "open" THEN knows \union {s} ELSE knows
          /\ UNCHANGED conn
       \/ /\ WriteFails(s)
          /\ UNCHANGED <<seen, knows>>
    /\ Goto(s, "close")
    /\ UNCHANGED <<orig, messages, round, store, missed, unstored, verdict>>

Close(s) ==
    /\ pc[s] = "close"
    /\ End(s, "normal")
    /\ UNCHANGED <<orig, store, knows, missed, unstored, verdict>>

-----------------------------------------------------------------------------
(* The environment.                                                        *)

\* The phone is gone: the app is closed, or the network is.
HangUp(s) ==
    /\ conn[s] = "open"
    /\ conn' = [conn EXCEPT ![s] = "gone"]
    /\ seen' = [seen EXCEPT ![s] = "cut"]
    /\ UNCHANGED <<pc, orig, messages, round, store, knows, missed, unstored, verdict>>

\* A thread is kept for ten minutes.
Expire(s) ==
    /\ store[s] # NoThread
    /\ store' = [store EXCEPT ![s] = NoThread]
    /\ unstored' = unstored \union {s}
    /\ UNCHANGED <<pc, conn, orig, messages, round, seen, knows, missed, verdict>>
-----------------------------------------------------------------------------
(* The specification.                                                      *)

Start(s) == NewPromptSession(s) \/ RestoreThread(s) \/ RestoreFails(s)
            \/ Admit(s) \/ Refuse(s)

Stream(s) == Chunk(s) \/ ChunkFails(s) \/ StreamCall(s) \/ StreamError(s)
             \/ EndStream(s)

Settle(s) == Stop(s) \/ Think(s) \/ ThinkFails(s)

Called(s) == CallFunction(s) \/ CallAction(s) \/ ActionFails(s)

Conclude(s) == FindNoLies(s) \/ FindLies(s) \/ WriteDone(s) \/ StoreThread(s)
               \/ WriteThreadId(s) \/ Close(s)

Environment(s) == HangUp(s) \/ Expire(s)

Next == \E s \in Session :
    Start(s) \/ Stream(s) \/ Settle(s) \/ Called(s) \/ Conclude(s) \/ Environment(s)

Spec == Init /\ [][Next]_vars

\* The goroutine runs on; Redis, the user service and the functions answer or
\* fail; the model's stream ends; an action is given ten seconds.
Fairness == \A s \in Session :
    /\ WF_vars(RestoreFails(s))
    /\ WF_vars(Refuse(s))
    /\ WF_vars(EndStream(s))
    /\ WF_vars(Settle(s))
    /\ WF_vars(CallFunction(s))
    /\ WF_vars(ActionFails(s))
    /\ WF_vars(Conclude(s))

FairSpec == Spec /\ Fairness

-----------------------------------------------------------------------------
(* Properties.                                                             *)

\* The values the variables range over; no session has more rounds than one
\* after the functions were withdrawn.
TypeOK ==
    /\ pc \in [Session -> {"idle", "restore", "admit", "stream", "settle", "call",
                           "verify", "done", "store", "name", "close", "ended"}]
    /\ conn \in [Session -> {"open", "gone", "broken"}]
    /\ orig \in [Session -> Session \union {NoThread}]
    /\ messages \in [Session -> Seq(Message)]
    /\ rounds \in [Session -> 0..MaxRounds + 1]
    /\ content \in [Session -> Texts \union {""}]
    /\ call \in [Session -> Calls \union {""}]
    /\ store \in [Session -> Seq(Message) \union {NoThread}]
    /\ seen \in [Session -> {"none", "text", "warned", "done", "named"} \union Endings]
    /\ knows \subseteq Session
    /\ missed \subseteq Session
    /\ unstored \subseteq Session
    /\ verdict \in [Session -> SUBSET {"warned", "silent"}]

\* What the phone sees of every session is an answer as session.js expects it:
\* the warning before the "d", the id of the thread after it, a failure only
\* in place of both, whatever the phone, the model and Redis do.
Answer == INSTANCE PromptAnswer

AnswersInOrder == Answer!Spec

\* The stored thread t of s goes on where the thread it continues ends (if that
\* is still stored), with one prompt of the user and what follows from it; and
\* every call in it has its response right behind, as the model demands of a
\* thread it is given.
Continues(s, t) ==
    /\ orig[s] # NoThread /\ store[orig[s]] # NoThread =>
          /\ IsPrefix(store[orig[s]], t)
          /\ t[Len(store[orig[s]]) + 1] = Said(s, "user")
    /\ orig[s] = NoThread => t[1] = Said(s, "user")
    /\ Cardinality({i \in 1..Len(t) : t[i] = Said(s, "user")}) = 1
    /\ \A i \in 1..Len(t) :
          t[i].kind \in Calls <=>
             i < Len(t) /\ t[i + 1].kind \in Responses /\ t[i + 1].of = t[i].of

\* The threads in Redis are whole conversations, and a phone that knows an id
\* finds its thread there (unless Redis refused or dropped it), with every
\* text it was shown.
ThreadsSound ==
    /\ \A s \in Session : store[s] # NoThread => Continues(s, store[s])
    /\ \A s \in knows : store[s] # NoThread \/ s \in unstored
    /\ knows \intersect missed = {}

\* The messages of the model in the thread of s that are of s itself.
Own(s) == {i \in 1..Len(messages[s]) : messages[s][i].of = s /\ IsModels(messages[s][i])}

LastOwn(s) == CHOOSE i \in Own(s) : \A j \in Own(s) : j <= i

CalledBy(s, p) ==
    \E i \in 1..Len(messages[s]) : messages[s][i] = Said(p, "set")

\* The alarm is set by s: the phone said so.
ReallySet(s) ==
    \E i \in 1..Len(messages[s]) - 1 :
        /\ messages[s][i] = Said(s, "set")
        /\ messages[s][i + 1].kind = "result"

ClaimsSomewhere(s) == \E i \in Own(s) : messages[s][i].kind = "claim"

\* A user who is told "done" after a claim that an alarm was set, without one
\* being set by this prompt, has been warned; or the verifier failed, the call
\* was made and failed, an earlier prompt of the thread made such a call, or
\* the claim is not the last thing the model said.
UnwarnedExplained ==
    \A s \in Session :
        /\ seen[s] \in {"done", "named"}
        /\ ClaimsSomewhere(s)
        /\ ~ReallySet(s)
        => \/ verdict[s] # {}
           \/ \E p \in Session : CalledBy(s, p)
           \/ messages[s][LastOwn(s)].kind # "claim"

\* A warning is deserved: this prompt called nothing for its last claim; only a
\* prompt the model has no word to say to is warned of the claim before it.
WarningsDeserved ==
    \A s \in Session :
        "warned" \in verdict[s] /\ pc[s] # "ended" =>
            /\ \A p \in Session : ~CalledBy(s, p)
            /\ IF Own(s) = {} THEN orig[s] # NoThread
                              ELSE messages[s][LastOwn(s)].kind = "claim"

ClaimsExplained == UnwarnedExplained /\ WarningsDeserved

\* Every prompt is answered or given up: the rounds come to an end, and no
\* phone, model or store can hold a session for ever.
EventuallyEnds ==
    \A s \in Session : pc[s] # "idle" ~> pc[s] = "ended"
=============================================================================
