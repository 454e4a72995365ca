---------------------------- MODULE MessageQueue ----------------------------
(***************************************************************************)
(* The phone's outgoing AppMessage queue, app/src/pkjs/lib/               *)
(* message_queue.js.  JavaScript runs one callback at a time, so each      *)
(* action is one entry into the object: a call of enqueue(), the success   *)
(* or the failure callback of one Pebble.sendAppMessage(), or the expiry   *)
(* of one retry timer.                                                     *)
(*                                                                         *)
(* The failure path is where the interest lies: a failed send is dropped,  *)
(* and ten milliseconds later dequeue() runs with none of enqueue()'s      *)
(* checks - neither the limits nor whether anything is queued.             *)
(***************************************************************************)
EXTENDS Naturals, Sequences, FiniteSets

CONSTANTS
    Message,              \* the messages other modules enqueue, all distinct
    Size,                 \* countBytes() of each message
    Total,                \* the sum of Size over each set of messages
    MAX_MESSAGES,         \* the literal 6 in enqueue()
    MAX_BYTES_IN_FLIGHT,  \* 400 in the code
    MaxSize,              \* no message is larger than this
    MaxFailures           \* bound: how many sends the link may fail

ASSUME MessageAssumption ==
    /\ IsFiniteSet(Message)
    /\ Size \in [Message -> Nat]
    /\ MaxSize \in Nat
    /\ \A m \in Message : Size[m] <= MaxSize

ASSUME TotalAssumption ==
    /\ Total \in [SUBSET Message -> Nat]
    /\ Total[{}] = 0
    /\ \A S \in SUBSET Message : \A m \in Message \ S :
          Total[S \union {m}] = Total[S] + Size[m]

ASSUME LimitAssumption ==
    /\ MAX_MESSAGES \in Nat \ {0}
    /\ MAX_BYTES_IN_FLIGHT \in Nat \ {0}
    /\ MaxFailures \in Nat

VARIABLES
    queue,              \* this.queue
    messagesInFlight,   \* this.messagesInFlight
    bytesInFlight,      \* this.bytesInFlight
    inTransit,          \* messages sent whose callbacks are still to come
    ghosts,             \* unanswered sendAppMessage(undefined) calls
    timers,             \* pending setTimeout(dequeue, 10)
    sent,               \* history: the messages handed over, in order
    failures            \* history: how often the failure callback ran

vars == <<queue, messagesInFlight, bytesInFlight, inTransit, ghosts, timers,
          sent, failures>>

Init ==
    /\ queue = <<>>
    /\ messagesInFlight = 0
    /\ bytesInFlight = 0
    /\ inTransit = {}
    /\ ghosts = 0
    /\ timers = 0
    /\ sent = <<>>
    /\ failures = 0

Elements(s) == {s[i] : i \in DOMAIN s}

Accepted == Elements(sent) \union Elements(queue)

-----------------------------------------------------------------------------

\* Mutant: the bytes in flight do not count.
HasRoomForAnySize == messagesInFlight < MAX_MESSAGES

\* enqueue()'s test for sending at once.
HasRoom ==
    /\ messagesInFlight < MAX_MESSAGES
    /\ bytesInFlight < MAX_BYTES_IN_FLIGHT

\* Mutant: the newest message goes first.
SendNewest(q, n, b, flying) ==
    LET last == Len(q) IN
    /\ queue' = SubSeq(q, 1, last - 1)
    /\ messagesInFlight' = n + 1
    /\ bytesInFlight' = b + Size[q[last]]
    /\ inTransit' = flying \union {q[last]}
    /\ sent' = Append(sent, q[last])

\* Mutant: the message sent is not counted.
SendUncounted(q, n, b, flying) ==
    /\ queue' = Tail(q)
    /\ messagesInFlight' = n
    /\ bytesInFlight' = b + Size[Head(q)]
    /\ inTransit' = flying \union {Head(q)}
    /\ sent' = Append(sent, Head(q))

\* dequeue() of a non-empty queue q, when n messages of b bytes, the set
\* flying, are unanswered.
SendHead(q, n, b, flying) ==
    /\ queue' = Tail(q)
    /\ messagesInFlight' = n + 1
    /\ bytesInFlight' = b + Size[Head(q)]
    /\ inTransit' = flying \union {Head(q)}
    /\ sent' = Append(sent, Head(q))

Enqueue(m) ==
    /\ m \notin Accepted
    /\ \/ /\ HasRoom
          /\ SendHead(Append(queue, m), messagesInFlight, bytesInFlight,
                      inTransit)
       \/ /\ ~HasRoom
          /\ queue' = Append(queue, m)
          /\ UNCHANGED <<messagesInFlight, bytesInFlight, inTransit, sent>>
    /\ UNCHANGED <<ghosts, timers, failures>>

\* The success callback, once it has left n, b and flying outstanding: it
\* checks the byte limit but not the message limit before sending the next.
AfterSuccess(n, b, flying) ==
    \/ /\ queue # <<>>
       /\ b <= MAX_BYTES_IN_FLIGHT
       /\ SendHead(queue, n, b, flying)
    \/ /\ queue = <<>> \/ b > MAX_BYTES_IN_FLIGHT
       /\ messagesInFlight' = n
       /\ bytesInFlight' = b
       /\ inTransit' = flying
       /\ UNCHANGED <<queue, sent>>

SendSucceeds(m) ==
    /\ m \in inTransit
    /\ AfterSuccess(messagesInFlight - 1, bytesInFlight - Size[m],
                    inTransit \ {m})
    /\ UNCHANGED <<ghosts, timers, failures>>

\* countBytes(undefined) is 0: a ghost occupies a slot and no bytes.
GhostSucceeds ==
    /\ ghosts > 0
    /\ ghosts' = ghosts - 1
    /\ AfterSuccess(messagesInFlight - 1, bytesInFlight, inTransit)
    /\ UNCHANGED <<timers, failures>>

\* Mutant: a failure arms no timer.
GiveUp ==
    /\ failures < MaxFailures
    /\ failures' = failures + 1
    /\ messagesInFlight' = messagesInFlight - 1
    /\ UNCHANGED timers

\* Both failure callbacks end by arming the retry timer.
ArmRetry ==
    /\ failures < MaxFailures
    /\ failures' = failures + 1
    /\ timers' = timers + 1
    /\ messagesInFlight' = messagesInFlight - 1

\* Mutant: the bytes of a lost message stay counted.
SendFailsKeepingBytes(m) ==
    /\ m \in inTransit
    /\ ArmRetry
    /\ inTransit' = inTransit \ {m}
    /\ UNCHANGED <<queue, bytesInFlight, ghosts, sent>>

SendFails(m) ==
    /\ m \in inTransit
    /\ ArmRetry
    /\ inTransit' = inTransit \ {m}
    /\ bytesInFlight' = bytesInFlight - Size[m]
    /\ UNCHANGED <<queue, ghosts, sent>>

GhostFails ==
    /\ ghosts > 0
    /\ ArmRetry
    /\ ghosts' = ghosts - 1
    /\ UNCHANGED <<queue, bytesInFlight, inTransit, sent>>

\* Mutant: on an empty queue the timer is armed again.
RetryPolling ==
    /\ timers > 0
    /\ queue # <<>>
    /\ timers' = timers - 1
    /\ SendHead(queue, messagesInFlight, bytesInFlight, inTransit)
    /\ UNCHANGED <<ghosts, failures>>

\* The timer calls dequeue() unconditionally: on an empty queue, shift()
\* yields undefined and that is what is sent.
RetryTimer ==
    /\ timers > 0
    /\ timers' = timers - 1
    /\ \/ /\ queue # <<>>
          /\ SendHead(queue, messagesInFlight, bytesInFlight, inTransit)
          /\ UNCHANGED ghosts
       \/ /\ queue = <<>>
          /\ ghosts' = ghosts + 1
          /\ messagesInFlight' = messagesInFlight + 1
          /\ UNCHANGED <<queue, bytesInFlight, inTransit, sent>>
    /\ UNCHANGED failures

Next ==
    \/ \E m \in Message : Enqueue(m) \/ SendSucceeds(m) \/ SendFails(m)
    \/ GhostSucceeds
    \/ GhostFails
    \/ RetryTimer

\* The platform answers every send, one way or the other, and runs timers.
Fairness ==
    /\ \A m \in Message : WF_vars(SendSucceeds(m) \/ SendFails(m))
    /\ WF_vars(GhostSucceeds \/ GhostFails)
    /\ WF_vars(RetryTimer)

Spec == Init /\ [][Next]_vars

FairSpec == Spec /\ Fairness

-----------------------------------------------------------------------------
TypeOK ==
    /\ queue \in Seq(Message)
    /\ messagesInFlight \in Nat
    /\ bytesInFlight \in Nat
    /\ inTransit \in SUBSET Message
    /\ ghosts \in Nat
    /\ timers \in Nat
    /\ sent \in Seq(Message)
    /\ failures \in Nat

\* The two counters of the object always equal what is really outstanding:
\* each callback gives back exactly the slot and the bytes its own dequeue()
\* took, in whatever order the callbacks come.
CountersMatch ==
    /\ messagesInFlight = Cardinality(inTransit) + ghosts
    /\ bytesInFlight = Total[inTransit]

\* No lost wake-up: whenever something is queued there is a callback or a
\* timer still to come that will look at the queue again.
NoStall ==
    queue # <<>> => inTransit # {} \/ ghosts > 0 \/ timers > 0

InFlightBound == messagesInFlight + timers <= MAX_MESSAGES + failures

BytesBound ==
    bytesInFlight <= MAX_BYTES_IN_FLIGHT + MaxSize * (1 + (failures - timers))

\* How far the limits that enqueue() checks are overshot: that of messages by
\* at most one message per failed send, that of bytes by at most one message,
\* plus one for each retry timer that has fired.
LimitsBound == InFlightBound /\ BytesBound

\* Sends of undefined only ever stem from failed sends, one from each.
GhostsBound == ghosts + timers <= failures

\* The queue implements the lossy first-in first-out channel.
Channel == INSTANCE FifoChannel WITH
    accepted <- sent \o queue,
    handed <- Len(sent),
    answered <- Elements(sent) \ inTransit

ImplementsChannel == Channel!Spec

\* If the link answers every send, and fails only finitely often, whatever is
\* queued is handed over, and the queue and the link become idle: the retry
\* timers and the ghosts they send die out.
EventuallyIdle == <>[](messagesInFlight = 0 /\ timers = 0 /\ queue = <<>>)
=============================================================================
