------------------------- MODULE MessageQueueProofs -------------------------
(***************************************************************************)
(* Proofs about MessageQueue for every set of messages, every pair of      *)
(* limits and any number of failures.                                      *)
(***************************************************************************)
EXTENDS MessageQueue, FiniteSetTheorems, TLAPS

\* The strengthening that makes the counters inductive: a queued message is
\* queued once and was not handed over yet, so dequeue() never adds a message
\* to inTransit that is in there already.
Distinct ==
    /\ \A i, j \in DOMAIN queue : queue[i] = queue[j] => i = j
    /\ Elements(queue) \cap Elements(sent) = {}
    /\ inTransit \subseteq Elements(sent)

-----------------------------------------------------------------------------
\* What Append and Tail do to the elements of a sequence.
LEMMA ElementsAppend ==
    ASSUME NEW S, NEW s \in Seq(S), NEW e \in S
    PROVE  /\ Append(s, e) \in Seq(S)
           /\ Append(s, e) # <<>>
           /\ Elements(Append(s, e)) = Elements(s) \union {e}
<1> DEFINE t == Append(s, e)
<1>1. t \in Seq(S) /\ Len(t) = Len(s) + 1 /\ Len(s) \in Nat
  OBVIOUS
<1>2. t[Len(s) + 1] = e /\ \A i \in 1..Len(s) : t[i] = s[i]
  OBVIOUS
<1>3. DOMAIN t = 1..(Len(s) + 1) /\ DOMAIN s = 1..Len(s)
  BY <1>1
<1>4. Elements(t) = Elements(s) \union {e}
  <2> HIDE DEF t
  <2>1. ASSUME NEW x \in Elements(t) PROVE x \in Elements(s) \union {e}
    BY <1>1, <1>2, <1>3 DEF Elements
  <2>2. ASSUME NEW x \in Elements(s) PROVE x \in Elements(t)
    BY <1>1, <1>2, <1>3 DEF Elements
  <2>3. e \in Elements(t)
    BY <1>1, <1>2, <1>3 DEF Elements
  <2> QED
    BY <2>1, <2>2, <2>3
<1>5. t # <<>>
  BY <1>1
<1> QED
  BY <1>1, <1>4, <1>5

LEMMA ElementsHeadTail ==
    ASSUME NEW S, NEW s \in Seq(S), s # <<>>
    PROVE  /\ Head(s) \in S
           /\ Tail(s) \in Seq(S)
           /\ Elements(s) = {Head(s)} \union Elements(Tail(s))
<1>1. Head(s) \in S /\ Tail(s) \in Seq(S) /\ Len(s) \in Nat \ {0}
  OBVIOUS
<1>2. DOMAIN Tail(s) = 1..(Len(s) - 1)
  OBVIOUS
<1>3. \A i \in 1..(Len(s) - 1) : Tail(s)[i] = s[i + 1]
  OBVIOUS
<1>4. ASSUME NEW x \in Elements(s)
      PROVE  x \in {Head(s)} \union Elements(Tail(s))
  <2>1. PICK i \in 1..Len(s) : x = s[i]
    BY DEF Elements
  <2>2. CASE i = 1
    BY <2>1, <2>2
  <2>3. CASE i # 1
    <3>1. i - 1 \in 1..(Len(s) - 1) /\ Tail(s)[i - 1] = x
      BY <1>1, <1>3, <2>1, <2>3
    <3> QED
      BY <3>1, <1>2 DEF Elements
  <2> QED
    BY <2>2, <2>3
<1>5. ASSUME NEW x \in {Head(s)} \union Elements(Tail(s))
      PROVE  x \in Elements(s)
  <2>1. CASE x = Head(s)
    BY <1>1, <2>1 DEF Elements
  <2>2. CASE x \in Elements(Tail(s))
    <3>1. PICK i \in 1..(Len(s) - 1) : x = s[i + 1]
      BY <2>2, <1>2, <1>3 DEF Elements
    <3> QED
      BY <1>1, <3>1 DEF Elements
  <2> QED
    BY <2>1, <2>2
<1> QED
  BY <1>1, <1>4, <1>5

\* In a queue without repetitions the head does not recur in the tail.
LEMMA HeadNotInTail ==
    ASSUME NEW S, NEW s \in Seq(S), s # <<>>,
           \A i, j \in DOMAIN s : s[i] = s[j] => i = j
    PROVE  /\ Head(s) \notin Elements(Tail(s))
           /\ \A i, j \in DOMAIN Tail(s) : Tail(s)[i] = Tail(s)[j] => i = j
<1>1. Len(s) \in Nat \ {0} /\ DOMAIN s = 1..Len(s)
  OBVIOUS
<1>2. DOMAIN Tail(s) = 1..(Len(s) - 1)
  OBVIOUS
<1>3. \A i \in 1..(Len(s) - 1) : Tail(s)[i] = s[i + 1]
  OBVIOUS
<1>4. Head(s) \notin Elements(Tail(s))
  BY <1>1, <1>2, <1>3 DEF Elements
<1>5. \A i, j \in DOMAIN Tail(s) : Tail(s)[i] = Tail(s)[j] => i = j
  BY <1>1, <1>2, <1>3
<1> QED
  BY <1>4, <1>5

\* Appending a new element keeps a sequence without repetitions.
LEMMA AppendDistinct ==
    ASSUME NEW S, NEW s \in Seq(S), NEW e \in S, e \notin Elements(s),
           \A i, j \in DOMAIN s : s[i] = s[j] => i = j
    PROVE  \A i, j \in DOMAIN Append(s, e) :
              Append(s, e)[i] = Append(s, e)[j] => i = j
BY DEF Elements

\* A set of messages weighs the sum of its parts, one message at a time.
LEMMA Weight ==
    ASSUME NEW S \in SUBSET Message, NEW m \in Message
    PROVE  /\ IsFiniteSet(S) /\ Cardinality(S) \in Nat /\ Total[S] \in Nat
           /\ m \notin S => /\ Cardinality(S \union {m}) = Cardinality(S) + 1
                            /\ Total[S \union {m}] = Total[S] + Size[m]
           /\ m \in S => /\ Cardinality(S \ {m}) = Cardinality(S) - 1
                         /\ Total[S \ {m}] = Total[S] - Size[m]
                         /\ Cardinality(S) >= 1
           /\ Size[m] \in Nat
<1>1. IsFiniteSet(S)
  BY MessageAssumption, FS_Subset
<1>2. Cardinality(S) \in Nat /\ Total[S] \in Nat /\ Size[m] \in Nat
  BY <1>1, FS_CardinalityType, TotalAssumption, MessageAssumption
<1>3. ASSUME m \notin S
      PROVE  /\ Cardinality(S \union {m}) = Cardinality(S) + 1
             /\ Total[S \union {m}] = Total[S] + Size[m]
  BY <1>1, <1>3, FS_AddElement, TotalAssumption
<1>4. ASSUME m \in S
      PROVE  /\ Cardinality(S \ {m}) = Cardinality(S) - 1
             /\ Total[S \ {m}] = Total[S] - Size[m]
             /\ Cardinality(S) >= 1
  <2>1. (S \ {m}) \union {m} = S
    BY <1>4
  <2>2. Total[S] = Total[S \ {m}] + Size[m] /\ Total[S \ {m}] \in Nat
    BY <2>1, TotalAssumption
  <2>3. Cardinality(S \ {m}) = Cardinality(S) - 1
    BY <1>1, <1>4, FS_RemoveElement
  <2>4. Cardinality(S \ {m}) \in Nat
    BY <1>1, FS_Subset, FS_CardinalityType
  <2> QED
    BY <2>2, <2>3, <2>4, <1>2
<1> QED
  BY <1>1, <1>2, <1>3, <1>4
-----------------------------------------------------------------------------
\* The part of the invariant that a send of the next message depends on,
\* stated of a queue q and of n messages of b bytes, the set flying, that
\* are outstanding when dequeue() starts.
Ready(q, n, b, flying) ==
    /\ q \in Seq(Message)
    /\ \A i, j \in DOMAIN q : q[i] = q[j] => i = j
    /\ Elements(q) \cap Elements(sent) = {}
    /\ flying \subseteq Elements(sent)
    /\ flying \in SUBSET Message
    /\ n = Cardinality(flying) + ghosts
    /\ b = Total[flying]

IInv ==
    /\ TypeOK
    /\ CountersMatch
    /\ Distinct
    /\ GhostsBound
    /\ InFlightBound
    /\ BytesBound
    /\ NoStall

\* dequeue() on a non-empty queue keeps counters, queue and history in step.
LEMMA SendHeadStep ==
    ASSUME TypeOK,
           NEW STATE q, NEW STATE n, NEW STATE b, NEW STATE flying,
           Ready(q, n, b, flying), q # <<>>, ghosts' = ghosts,
           SendHead(q, n, b, flying)
    PROVE  /\ queue' \in Seq(Message)
           /\ messagesInFlight' = n + 1 /\ messagesInFlight' \in Nat
           /\ bytesInFlight' \in Nat
           /\ \E w \in Nat : w <= MaxSize /\ bytesInFlight' = b + w
           /\ inTransit' \in SUBSET Message /\ inTransit' # {}
           /\ sent' \in Seq(Message)
           /\ CountersMatch' /\ Distinct'
<1> DEFINE h == Head(q)
<1>1. /\ h \in Message /\ Tail(q) \in Seq(Message)
      /\ Elements(q) = {h} \union Elements(Tail(q))
  BY ElementsHeadTail DEF Ready
<1>2. /\ h \notin Elements(Tail(q))
      /\ \A i, j \in DOMAIN Tail(q) : Tail(q)[i] = Tail(q)[j] => i = j
  BY HeadNotInTail DEF Ready
<1>3. /\ sent' = Append(sent, h) /\ sent' \in Seq(Message)
      /\ Elements(sent)' = Elements(sent) \union {h}
  <2>1. sent' = Append(sent, h)
    BY DEF SendHead
  <2>2. Elements(sent)' = Elements(Append(sent, h))
    BY <2>1 DEF Elements
  <2> QED
    BY <1>1, <2>1, <2>2, ElementsAppend DEF TypeOK
<1>4. h \notin Elements(sent) /\ h \notin flying
  BY <1>1 DEF Ready
<1>5. /\ Cardinality(flying \union {h}) = Cardinality(flying) + 1
      /\ Total[flying \union {h}] = Total[flying] + Size[h]
      /\ Cardinality(flying) \in Nat /\ Total[flying] \in Nat
      /\ Size[h] \in Nat
  BY <1>1, <1>4, Weight DEF Ready
<1>6. /\ queue' = Tail(q) /\ messagesInFlight' = n + 1
      /\ bytesInFlight' = b + Size[h] /\ inTransit' = flying \union {h}
  BY DEF SendHead
<1>7. Size[h] <= MaxSize
  BY <1>1, MessageAssumption
<1>8. CountersMatch'
  BY <1>5, <1>6 DEF CountersMatch, Ready, TypeOK
<1>9. Distinct'
  <2>1. Elements(queue)' = Elements(Tail(q))
    BY <1>6 DEF Elements
  <2>2. Elements(queue)' \cap Elements(sent)' = {}
    BY <2>1, <1>1, <1>2, <1>3 DEF Ready
  <2>3. inTransit' \subseteq Elements(sent)'
    BY <1>3, <1>6 DEF Ready
  <2> QED
    BY <1>2, <1>6, <2>2, <2>3 DEF Distinct
<1>10. inTransit' \in SUBSET Message /\ inTransit' # {}
  BY <1>1, <1>6 DEF Ready
<1>11. messagesInFlight' \in Nat /\ bytesInFlight' \in Nat
  <2>1. n = Cardinality(flying) + ghosts /\ b = Total[flying] /\ ghosts \in Nat
    BY DEF Ready, TypeOK
  <2> QED
    BY <2>1, <1>5, <1>6
<1> QED
  BY <1>1, <1>3, <1>5, <1>6, <1>7, <1>8, <1>9, <1>10, <1>11

\* What remains outstanding after one message is answered is Ready.
LEMMA AnswerReady ==
    ASSUME IInv, NEW m \in inTransit
    PROVE  /\ Ready(queue, messagesInFlight - 1, bytesInFlight - Size[m],
                    inTransit \ {m})
           /\ messagesInFlight - 1 \in Nat
           /\ bytesInFlight - Size[m] \in Nat
           /\ bytesInFlight - Size[m] <= bytesInFlight
<1>1. m \in Message /\ inTransit \in SUBSET Message
  BY DEF IInv, TypeOK
<1>2. /\ Cardinality(inTransit \ {m}) = Cardinality(inTransit) - 1
      /\ Total[inTransit \ {m}] = Total[inTransit] - Size[m]
      /\ Cardinality(inTransit) >= 1 /\ Cardinality(inTransit) \in Nat
      /\ Size[m] \in Nat /\ Total[inTransit] \in Nat
  BY <1>1, Weight
<1>3. Total[inTransit \ {m}] \in Nat
  BY <1>1, TotalAssumption
<1>4. /\ messagesInFlight = Cardinality(inTransit) + ghosts
      /\ bytesInFlight = Total[inTransit]
      /\ ghosts \in Nat /\ messagesInFlight \in Nat /\ bytesInFlight \in Nat
  BY DEF IInv, TypeOK, CountersMatch
<1>5. /\ messagesInFlight - 1 = Cardinality(inTransit \ {m}) + ghosts
      /\ messagesInFlight - 1 \in Nat
  BY <1>2, <1>4
<1>6. /\ bytesInFlight - Size[m] = Total[inTransit \ {m}]
      /\ bytesInFlight - Size[m] \in Nat
      /\ bytesInFlight - Size[m] <= bytesInFlight
  BY <1>2, <1>3, <1>4
<1>7. /\ queue \in Seq(Message)
      /\ \A i, j \in DOMAIN queue : queue[i] = queue[j] => i = j
      /\ Elements(queue) \cap Elements(sent) = {}
      /\ inTransit \subseteq Elements(sent)
  BY DEF IInv, TypeOK, Distinct
<1>8. inTransit \ {m} \subseteq Elements(sent) /\ inTransit \ {m} \in SUBSET Message
  BY <1>1, <1>7
<1>9. Ready(queue, messagesInFlight - 1, bytesInFlight - Size[m],
            inTransit \ {m})
  BY <1>5, <1>6, <1>7, <1>8 DEF Ready
<1> QED
  BY <1>5, <1>6, <1>9
-----------------------------------------------------------------------------
LEMMA InitIInv == Init => IInv
<1> SUFFICES ASSUME Init PROVE IInv
  OBVIOUS
<1> USE DEF Init
<1>1. TypeOK
  BY DEF TypeOK
<1>2. CountersMatch
  BY TotalAssumption, FS_EmptySet DEF CountersMatch
<1>3. Distinct
  BY DEF Distinct, Elements
<1>4. GhostsBound /\ InFlightBound
  BY LimitAssumption DEF GhostsBound, InFlightBound
<1>5. BytesBound
  BY LimitAssumption, MessageAssumption DEF BytesBound
<1>6. NoStall
  BY DEF NoStall
<1> QED
  BY <1>1, <1>2, <1>3, <1>4, <1>5, <1>6 DEF IInv

\* The byte bound is a sum of a product: this is the only nonlinear step.
LEMMA Headroom ==
    ASSUME NEW f \in Nat, NEW t \in Nat, t <= f
    PROVE  /\ MaxSize * (1 + (f - t)) \in Nat
           /\ MaxSize * (1 + (f - t)) >= MaxSize
           /\ t > 0 => MaxSize * (1 + (f - (t - 1)))
                         = MaxSize * (1 + (f - t)) + MaxSize
<1>1. MaxSize \in Nat /\ f - t \in Nat
  BY MessageAssumption
<1>2. PICK k \in Nat : k = f - t
  BY <1>1
<1>3. MaxSize * (1 + k) = MaxSize + MaxSize * k /\ MaxSize * k \in Nat
  BY <1>1
<1>4. MaxSize * (1 + (k + 1)) = MaxSize * (1 + k) + MaxSize
  BY <1>1
<1>5. t > 0 => f - (t - 1) = k + 1
  BY <1>2
<1> QED
  BY <1>1, <1>2, <1>3, <1>4, <1>5

LEMMA EnqueueIInv ==
    ASSUME IInv, NEW m \in Message, Enqueue(m)
    PROVE  IInv'
<1> DEFINE q == Append(queue, m)
<1>1. TypeOK /\ Distinct
  BY DEF IInv
<1>2. /\ q \in Seq(Message) /\ q # <<>>
      /\ Elements(q) = Elements(queue) \union {m}
  BY <1>1, ElementsAppend DEF TypeOK
<1>3. m \notin Elements(queue) /\ m \notin Elements(sent)
  BY DEF Enqueue, Accepted
<1>4. \A i, j \in DOMAIN q : q[i] = q[j] => i = j
  BY <1>1, <1>3, AppendDistinct DEF TypeOK, Distinct
<1>5. Elements(q) \cap Elements(sent) = {}
  BY <1>1, <1>2, <1>3 DEF Distinct
<1>6. UNCHANGED <<ghosts, timers, failures>>
  BY DEF Enqueue
<1>7. CASE /\ HasRoom
           /\ SendHead(q, messagesInFlight, bytesInFlight, inTransit)
  <2>1. Ready(q, messagesInFlight, bytesInFlight, inTransit)
    BY <1>1, <1>2, <1>4, <1>5 DEF Ready, IInv, TypeOK, CountersMatch, Distinct
  <2>2. /\ queue' \in Seq(Message)
        /\ messagesInFlight' = messagesInFlight + 1
        /\ messagesInFlight' \in Nat /\ bytesInFlight' \in Nat
        /\ \E w \in Nat : w <= MaxSize /\ bytesInFlight' = bytesInFlight + w
        /\ inTransit' \in SUBSET Message /\ inTransit' # {}
        /\ sent' \in Seq(Message)
        /\ CountersMatch' /\ Distinct'
    BY <1>1, <1>2, <1>6, <1>7, <2>1, SendHeadStep
  <2>3. TypeOK'
    BY <1>1, <1>6, <2>2 DEF TypeOK
  <2>4. GhostsBound' /\ NoStall'
    BY <1>6, <2>2 DEF GhostsBound, NoStall, IInv
  <2>5. InFlightBound'
    <3>1. timers <= failures
      BY <1>1 DEF IInv, GhostsBound, TypeOK
    <3> QED
      BY <1>1, <1>6, <1>7, <2>2, <3>1, LimitAssumption
      DEF InFlightBound, HasRoom, TypeOK
  <2>6. BytesBound'
    <3>1. timers <= failures
      BY <1>1 DEF IInv, GhostsBound, TypeOK
    <3>2. MaxSize * (1 + (failures - timers)) >= MaxSize
      BY <1>1, <3>1, Headroom DEF TypeOK
    <3>3. MaxSize * (1 + (failures - timers)) \in Nat
      BY <1>1, <3>1, Headroom DEF TypeOK
    <3> DEFINE slack == MaxSize * (1 + (failures - timers))
    <3>4. bytesInFlight' <= MAX_BYTES_IN_FLIGHT + slack
      <4> HIDE DEF slack
      <4>1. slack \in Nat /\ slack >= MaxSize
        BY <3>2, <3>3 DEF slack
      <4> QED
        BY <1>1, <1>7, <2>2, <4>1, LimitAssumption, MessageAssumption
        DEF HasRoom, TypeOK
    <3> QED
      BY <1>6, <3>4 DEF BytesBound
  <2> QED
    BY <2>2, <2>3, <2>4, <2>5, <2>6 DEF IInv
<1>8. CASE /\ ~HasRoom
           /\ queue' = q
           /\ UNCHANGED <<messagesInFlight, bytesInFlight, inTransit, sent>>
  <2>1. TypeOK'
    BY <1>1, <1>2, <1>6, <1>8 DEF TypeOK
  <2>2. CountersMatch' /\ GhostsBound' /\ InFlightBound' /\ BytesBound'
    BY <1>6, <1>8
    DEF IInv, CountersMatch, GhostsBound, InFlightBound, BytesBound
  <2>3. Distinct'
    BY <1>1, <1>4, <1>5, <1>8 DEF Distinct, Elements
  <2>4. NoStall'
    <3>1. ASSUME inTransit = {}, ghosts = 0 PROVE HasRoom
      BY <3>1, FS_EmptySet, TotalAssumption, LimitAssumption
      DEF IInv, CountersMatch, HasRoom
    <3> QED
      BY <1>1, <1>6, <1>8, <3>1 DEF NoStall, TypeOK
  <2> QED
    BY <2>1, <2>2, <2>3, <2>4 DEF IInv
<1> QED
  BY <1>7, <1>8 DEF Enqueue
-----------------------------------------------------------------------------
\* What is outstanding - the set flying and g ghosts - once a callback gave
\* back one slot and some bytes.
Answered(flying, g) ==
    /\ flying \in SUBSET Message
    /\ flying \subseteq inTransit
    /\ g \in Nat
    /\ g <= ghosts
    /\ messagesInFlight - 1 \in Nat
    /\ messagesInFlight - 1 = Cardinality(flying) + g
    /\ Total[flying] \in Nat
    /\ Total[flying] <= bytesInFlight

\* A success callback that gave back one slot and some bytes keeps IInv,
\* whether it goes on to send the next message or not.
LEMMA AfterSuccessIInv ==
    ASSUME IInv, NEW STATE flying, NEW STATE g,
           Answered(flying, g),
           ghosts' = g, UNCHANGED <<timers, failures>>,
           AfterSuccess(messagesInFlight - 1, Total[flying], flying)
    PROVE  IInv'
<1> DEFINE n == messagesInFlight - 1
           b == Total[flying]
<1>0. /\ b \in Nat /\ b <= bytesInFlight
      /\ flying \in SUBSET Message /\ flying \subseteq inTransit
      /\ n = Cardinality(flying) + g /\ n \in Nat
      /\ g \in Nat /\ g <= ghosts
  BY DEF Answered
<1>1. TypeOK /\ Distinct /\ GhostsBound
  BY DEF IInv
<1>3. timers <= failures /\ timers' = timers /\ failures' = failures
  BY <1>1 DEF GhostsBound, TypeOK
<1>2. GhostsBound'
  <2>1. ghosts \in Nat /\ timers \in Nat /\ failures \in Nat
    BY <1>1 DEF TypeOK
  <2>2. ghosts + timers <= failures
    BY <1>1 DEF GhostsBound
  <2>3. g + timers <= failures
    BY <1>0, <2>1, <2>2
  <2> QED
    BY <2>3, <1>3 DEF GhostsBound
<1> DEFINE slack == MaxSize * (1 + (failures - timers))
<1>4. slack \in Nat /\ slack >= MaxSize
  BY <1>1, <1>3, Headroom DEF TypeOK
<1>5. CASE /\ queue # <<>>
           /\ b <= MAX_BYTES_IN_FLIGHT
           /\ SendHead(queue, n, b, flying)
  <2>1. /\ Head(queue) \in Message /\ Tail(queue) \in Seq(Message)
        /\ Elements(queue) = {Head(queue)} \union Elements(Tail(queue))
    BY <1>1, <1>5, ElementsHeadTail DEF TypeOK
  <2>2. /\ Head(queue) \notin Elements(Tail(queue))
        /\ \A i, j \in DOMAIN Tail(queue) :
              Tail(queue)[i] = Tail(queue)[j] => i = j
    BY <1>1, <1>5, HeadNotInTail DEF TypeOK, Distinct
  <2>3. Head(queue) \notin Elements(sent) /\ Head(queue) \notin flying
    BY <1>0, <1>1, <2>1 DEF Distinct
  <2>4. /\ Cardinality(flying \union {Head(queue)}) = Cardinality(flying) + 1
        /\ Total[flying \union {Head(queue)}] = b + Size[Head(queue)]
        /\ Size[Head(queue)] \in Nat /\ Size[Head(queue)] <= MaxSize
        /\ Cardinality(flying) \in Nat
    BY <1>0, <2>1, <2>3, Weight, MessageAssumption
  <2>5. /\ queue' = Tail(queue) /\ messagesInFlight' = messagesInFlight
        /\ bytesInFlight' = b + Size[Head(queue)]
        /\ inTransit' = flying \union {Head(queue)}
        /\ sent' = Append(sent, Head(queue))
    BY <1>0, <1>1, <1>5 DEF SendHead, TypeOK
  <2>6. sent' \in Seq(Message)
        /\ Elements(sent)' = Elements(sent) \union {Head(queue)}
    <3>1. Elements(sent)' = Elements(Append(sent, Head(queue)))
      BY <2>5 DEF Elements
    <3> QED
      BY <1>1, <2>1, <2>5, <3>1, ElementsAppend DEF TypeOK
  <2>7. TypeOK'
    <3>1. bytesInFlight' \in Nat
      <4> HIDE DEF b
      <4> QED
        BY <1>0, <2>4, <2>5
    <3>2. inTransit' \in SUBSET Message
      BY <1>0, <2>1, <2>5
    <3>3. ghosts' \in Nat
      BY <1>0
    <3> QED
      BY <1>1, <1>3, <2>1, <2>5, <2>6, <3>1, <3>2, <3>3 DEF TypeOK
  <2>8. CountersMatch'
    BY <1>0, <1>1, <2>4, <2>5 DEF CountersMatch, TypeOK
  <2>9. Distinct'
    <3>1. Elements(queue)' = Elements(Tail(queue))
      BY <2>5 DEF Elements
    <3> QED
      BY <1>0, <1>1, <2>1, <2>2, <2>5, <2>6, <3>1 DEF Distinct
  <2>10. InFlightBound'
    BY <1>3, <2>5 DEF IInv, InFlightBound
  <2>11. BytesBound'
    <3>1. bytesInFlight' <= MAX_BYTES_IN_FLIGHT + slack
      <4> HIDE DEF slack
      <4> QED
        BY <1>0, <1>4, <1>5, <2>4, <2>5, LimitAssumption, MessageAssumption
    <3> QED
      BY <1>3, <3>1 DEF BytesBound
  <2>12. NoStall'
    BY <2>5 DEF NoStall
  <2> QED
    BY <1>2, <2>7, <2>8, <2>9, <2>10, <2>11, <2>12 DEF IInv
<1>6. CASE /\ queue = <<>> \/ b > MAX_BYTES_IN_FLIGHT
           /\ messagesInFlight' = n
           /\ bytesInFlight' = b
           /\ inTransit' = flying
           /\ UNCHANGED <<queue, sent>>
  <2>1. TypeOK'
    BY <1>0, <1>1, <1>3, <1>6 DEF TypeOK
  <2>2. CountersMatch'
    BY <1>0, <1>6 DEF CountersMatch
  <2>3. Distinct'
    BY <1>0, <1>1, <1>6 DEF Distinct, Elements
  <2>4. InFlightBound'
    BY <1>0, <1>1, <1>3, <1>6, LimitAssumption DEF IInv, InFlightBound, TypeOK
  <2>5. BytesBound'
    <3>1. bytesInFlight' <= MAX_BYTES_IN_FLIGHT + slack
      <4>1. bytesInFlight <= MAX_BYTES_IN_FLIGHT + slack
        BY DEF IInv, BytesBound
      <4> HIDE DEF slack
      <4> QED
        BY <1>0, <1>1, <1>4, <1>6, <4>1, LimitAssumption DEF TypeOK
    <3> QED
      BY <1>3, <3>1 DEF BytesBound
  <2>6. NoStall'
    <3>1. b > MAX_BYTES_IN_FLIGHT => flying # {}
      <4>1. Total[{}] = 0
        BY TotalAssumption
      <4>2. ASSUME flying = {} PROVE b = 0
        BY <4>1, <4>2
      <4> HIDE DEF b
      <4> QED
        BY <4>2, LimitAssumption
    <3> QED
      BY <1>6, <3>1 DEF NoStall
  <2> QED
    BY <1>2, <2>1, <2>2, <2>3, <2>4, <2>5, <2>6 DEF IInv
<1> QED
  BY <1>5, <1>6 DEF AfterSuccess

LEMMA SendSucceedsIInv ==
    ASSUME IInv, NEW m \in Message, SendSucceeds(m)
    PROVE  IInv'
<1>1. m \in inTransit /\ UNCHANGED <<ghosts, timers, failures>>
  BY DEF SendSucceeds
<1>2. ghosts \in Nat /\ inTransit \in SUBSET Message
  BY DEF IInv, TypeOK
<1>3. /\ Answered(inTransit \ {m}, ghosts)
      /\ bytesInFlight - Size[m] = Total[inTransit \ {m}]
  <2>1. /\ Ready(queue, messagesInFlight - 1, bytesInFlight - Size[m],
                 inTransit \ {m})
        /\ messagesInFlight - 1 \in Nat
        /\ bytesInFlight - Size[m] \in Nat
        /\ bytesInFlight - Size[m] <= bytesInFlight
    BY <1>1, AnswerReady
  <2>2. /\ messagesInFlight - 1 = Cardinality(inTransit \ {m}) + ghosts
        /\ bytesInFlight - Size[m] = Total[inTransit \ {m}]
    BY <2>1 DEF Ready
  <2>3. ghosts <= ghosts /\ inTransit \ {m} \in SUBSET Message
        /\ inTransit \ {m} \subseteq inTransit
    BY <1>2
  <2>4. Total[inTransit \ {m}] \in Nat
        /\ Total[inTransit \ {m}] <= bytesInFlight
    BY <2>1, <2>2
  <2> QED
    BY <1>2, <2>1, <2>2, <2>3, <2>4 DEF Answered
<1>4. AfterSuccess(messagesInFlight - 1, Total[inTransit \ {m}],
                   inTransit \ {m})
  BY <1>3 DEF SendSucceeds
<1> QED
  BY <1>1, <1>3, <1>4, AfterSuccessIInv

LEMMA GhostSucceedsIInv ==
    ASSUME IInv, GhostSucceeds
    PROVE  IInv'
<1>1. TypeOK /\ CountersMatch
  BY DEF IInv
<1>2. /\ ghosts' = ghosts - 1 /\ ghosts > 0
      /\ UNCHANGED <<timers, failures>>
      /\ AfterSuccess(messagesInFlight - 1, bytesInFlight, inTransit)
  BY DEF GhostSucceeds
<1>3. Cardinality(inTransit) \in Nat
  BY <1>1, MessageAssumption, FS_Subset, FS_CardinalityType DEF TypeOK
<1>4. /\ messagesInFlight - 1 \in Nat
      /\ ghosts - 1 \in Nat /\ ghosts - 1 <= ghosts
      /\ messagesInFlight - 1 = Cardinality(inTransit) + (ghosts - 1)
  BY <1>1, <1>2, <1>3 DEF TypeOK, CountersMatch
<1>5. bytesInFlight \in Nat /\ bytesInFlight = Total[inTransit]
  BY <1>1 DEF TypeOK, CountersMatch
<1>6. Answered(inTransit, ghosts - 1)
  BY <1>1, <1>4, <1>5 DEF Answered, TypeOK
<1>7. AfterSuccess(messagesInFlight - 1, Total[inTransit], inTransit)
  BY <1>2, <1>5
<1> QED
  BY <1>2, <1>6, <1>7, AfterSuccessIInv
-----------------------------------------------------------------------------
LEMMA SendFailsIInv ==
    ASSUME IInv, NEW m \in Message, SendFails(m)
    PROVE  IInv'
<1> DEFINE n == messagesInFlight - 1
           b == bytesInFlight - Size[m]
<1>1. TypeOK /\ Distinct
  BY DEF IInv
<1>2. /\ m \in inTransit /\ UNCHANGED <<queue, ghosts, sent>>
      /\ failures' = failures + 1 /\ timers' = timers + 1
      /\ messagesInFlight' = n /\ bytesInFlight' = b
      /\ inTransit' = inTransit \ {m}
  BY DEF SendFails, ArmRetry
<1>3. /\ n \in Nat /\ b \in Nat /\ b <= bytesInFlight
      /\ n = Cardinality(inTransit \ {m}) + ghosts
      /\ b = Total[inTransit \ {m}]
  BY <1>2, AnswerReady DEF Ready
<1>4. TypeOK'
  BY <1>1, <1>2, <1>3 DEF TypeOK
<1>5. CountersMatch'
  BY <1>2, <1>3 DEF CountersMatch
<1>6. Distinct'
  BY <1>1, <1>2 DEF Distinct, Elements
<1>7. GhostsBound' /\ InFlightBound'
  BY <1>1, <1>2, LimitAssumption DEF IInv, GhostsBound, InFlightBound, TypeOK
<1>8. BytesBound'
  <2>1. failures' - timers' = failures - timers
    BY <1>1, <1>2 DEF TypeOK
  <2>2. timers <= failures
    BY <1>1 DEF IInv, GhostsBound, TypeOK
  <2> DEFINE slack == MaxSize * (1 + (failures - timers))
  <2>3. slack \in Nat
    BY <1>1, <2>2, Headroom DEF TypeOK
  <2>4. bytesInFlight <= MAX_BYTES_IN_FLIGHT + slack
    BY DEF IInv, BytesBound
  <2>5. bytesInFlight' <= MAX_BYTES_IN_FLIGHT + slack
    <3> HIDE DEF slack, b
    <3> QED
      BY <1>1, <1>2, <1>3, <2>3, <2>4, LimitAssumption DEF TypeOK
  <2> QED
    BY <2>1, <2>5 DEF BytesBound
<1>9. NoStall'
  BY <1>1, <1>2 DEF NoStall, TypeOK
<1> QED
  BY <1>4, <1>5, <1>6, <1>7, <1>8, <1>9 DEF IInv

LEMMA GhostFailsIInv ==
    ASSUME IInv, GhostFails
    PROVE  IInv'
<1>1. TypeOK /\ Distinct /\ CountersMatch
  BY DEF IInv
<1>2. /\ UNCHANGED <<queue, bytesInFlight, inTransit, sent>>
      /\ ghosts > 0 /\ ghosts' = ghosts - 1
      /\ failures' = failures + 1 /\ timers' = timers + 1
      /\ messagesInFlight' = messagesInFlight - 1
  BY DEF GhostFails, ArmRetry
<1>3. Cardinality(inTransit) \in Nat
  BY <1>1, MessageAssumption, FS_Subset, FS_CardinalityType DEF TypeOK
<1>4. TypeOK'
  BY <1>1, <1>2, <1>3 DEF TypeOK, CountersMatch
<1>5. CountersMatch'
  BY <1>1, <1>2, <1>3 DEF TypeOK, CountersMatch
<1>6. Distinct'
  BY <1>1, <1>2 DEF Distinct, Elements
<1>7. GhostsBound' /\ InFlightBound'
  BY <1>1, <1>2, LimitAssumption DEF IInv, GhostsBound, InFlightBound, TypeOK
<1>8. BytesBound'
  <2>1. failures' - timers' = failures - timers
    BY <1>1, <1>2 DEF TypeOK
  <2> QED
    BY <1>2, <2>1 DEF IInv, BytesBound
<1>9. NoStall'
  BY <1>1, <1>2 DEF NoStall, TypeOK
<1> QED
  BY <1>4, <1>5, <1>6, <1>7, <1>8, <1>9 DEF IInv

LEMMA RetryTimerIInv ==
    ASSUME IInv, RetryTimer
    PROVE  IInv'
<1>1. TypeOK /\ Distinct /\ CountersMatch /\ GhostsBound
  BY DEF IInv
<1>2. timers > 0 /\ timers' = timers - 1 /\ failures' = failures
  BY DEF RetryTimer
<1>3. timers <= failures /\ timers \in Nat /\ failures \in Nat
  BY <1>1 DEF GhostsBound, TypeOK
<1> DEFINE slack == MaxSize * (1 + (failures - timers))
           wider == MaxSize * (1 + (failures - (timers - 1)))
<1>4. slack \in Nat /\ wider = slack + MaxSize
  BY <1>2, <1>3, Headroom
<1>5. bytesInFlight <= MAX_BYTES_IN_FLIGHT + slack
  BY DEF IInv, BytesBound
<1>6. CASE /\ queue # <<>>
           /\ SendHead(queue, messagesInFlight, bytesInFlight, inTransit)
           /\ UNCHANGED ghosts
  <2>1. Ready(queue, messagesInFlight, bytesInFlight, inTransit)
    BY <1>1 DEF Ready, TypeOK, CountersMatch, Distinct
  <2>2. /\ queue' \in Seq(Message)
        /\ messagesInFlight' = messagesInFlight + 1
        /\ messagesInFlight' \in Nat /\ bytesInFlight' \in Nat
        /\ \E w \in Nat : w <= MaxSize /\ bytesInFlight' = bytesInFlight + w
        /\ inTransit' \in SUBSET Message /\ inTransit' # {}
        /\ sent' \in Seq(Message)
        /\ CountersMatch' /\ Distinct'
    BY <1>1, <1>6, <2>1, SendHeadStep
  <2>3. TypeOK'
    BY <1>1, <1>2, <1>6, <2>2 DEF TypeOK
  <2>4. GhostsBound' /\ InFlightBound'
    BY <1>1, <1>2, <1>6, <2>2, LimitAssumption
    DEF IInv, GhostsBound, InFlightBound, TypeOK
  <2>5. BytesBound'
    <3>1. bytesInFlight' <= MAX_BYTES_IN_FLIGHT + wider
      <4> HIDE DEF slack, wider
      <4> QED
        BY <1>1, <1>4, <1>5, <2>2, LimitAssumption, MessageAssumption
        DEF TypeOK
    <3> QED
      BY <1>2, <3>1 DEF BytesBound
  <2>6. NoStall'
    BY <2>2 DEF NoStall
  <2> QED
    BY <2>2, <2>3, <2>4, <2>5, <2>6 DEF IInv
<1>7. CASE /\ queue = <<>>
           /\ ghosts' = ghosts + 1
           /\ messagesInFlight' = messagesInFlight + 1
           /\ UNCHANGED <<queue, bytesInFlight, inTransit, sent>>
  <2>1. TypeOK'
    BY <1>1, <1>2, <1>7 DEF TypeOK
  <2>2. CountersMatch'
    <3>1. Cardinality(inTransit) \in Nat
      BY <1>1, MessageAssumption, FS_Subset, FS_CardinalityType DEF TypeOK
    <3> QED
      BY <1>1, <1>7, <3>1 DEF CountersMatch, TypeOK
  <2>3. Distinct'
    BY <1>1, <1>7 DEF Distinct, Elements
  <2>4. GhostsBound' /\ InFlightBound'
    BY <1>1, <1>2, <1>7, LimitAssumption
    DEF IInv, GhostsBound, InFlightBound, TypeOK
  <2>5. BytesBound'
    <3>1. bytesInFlight' <= MAX_BYTES_IN_FLIGHT + wider
      <4> HIDE DEF slack, wider
      <4> QED
        BY <1>1, <1>4, <1>5, <1>7, LimitAssumption, MessageAssumption
        DEF TypeOK
    <3> QED
      BY <1>2, <3>1 DEF BytesBound
  <2>6. NoStall'
    BY <1>7 DEF NoStall
  <2> QED
    BY <2>1, <2>2, <2>3, <2>4, <2>5, <2>6 DEF IInv
<1> QED
  BY <1>6, <1>7 DEF RetryTimer

LEMMA StutterIInv ==
    ASSUME IInv, UNCHANGED vars
    PROVE  IInv'
<1> USE DEF vars, IInv
<1>1. TypeOK' /\ CountersMatch'
  BY DEF TypeOK, CountersMatch
<1>2. Distinct'
  BY DEF Distinct, Elements
<1>3. GhostsBound' /\ InFlightBound'
  BY DEF GhostsBound, InFlightBound
<1>4. BytesBound'
  BY DEF BytesBound
<1>5. NoStall'
  BY DEF NoStall
<1> QED
  BY <1>1, <1>2, <1>3, <1>4, <1>5

LEMMA NextIInv == IInv /\ [Next]_vars => IInv'
<1> SUFFICES ASSUME IInv, [Next]_vars PROVE IInv'
  OBVIOUS
<1>1. CASE \E m \in Message : Enqueue(m)
  BY <1>1, EnqueueIInv
<1>2. CASE \E m \in Message : SendSucceeds(m)
  BY <1>2, SendSucceedsIInv
<1>3. CASE \E m \in Message : SendFails(m)
  BY <1>3, SendFailsIInv
<1>4. CASE GhostSucceeds
  BY <1>4, GhostSucceedsIInv
<1>5. CASE GhostFails
  BY <1>5, GhostFailsIInv
<1>6. CASE RetryTimer
  BY <1>6, RetryTimerIInv
<1>7. CASE UNCHANGED vars
  BY <1>7, StutterIInv
<1> QED
  BY <1>1, <1>2, <1>3, <1>4, <1>5, <1>6, <1>7 DEF Next

LEMMA InductiveInvariant == Spec => []IInv
BY InitIInv, NextIInv, PTL DEF Spec

\* Types: in particular the two counters never go negative.
THEOREM TypeCorrect == Spec => []TypeOK
<1>1. IInv => TypeOK
  BY DEF IInv
<1> QED
  BY <1>1, InductiveInvariant, PTL

\* The counters that enqueue() decides by always equal what is outstanding.
THEOREM CountersCorrect == Spec => []CountersMatch
<1>1. IInv => CountersMatch
  BY DEF IInv
<1> QED
  BY <1>1, InductiveInvariant, PTL

\* Whatever fails and in whatever order the answers come, a queued message
\* always has a callback or a timer ahead of it that will send it.
THEOREM NeverStalls == Spec => []NoStall
<1>1. IInv => NoStall
  BY DEF IInv
<1> QED
  BY <1>1, InductiveInvariant, PTL

\* How far failures can push the queue past its two limits.
THEOREM LimitsHold == Spec => []LimitsBound
<1>1. IInv => LimitsBound
  BY DEF IInv, LimitsBound
<1> QED
  BY <1>1, InductiveInvariant, PTL
-----------------------------------------------------------------------------
\* Moving the head of the queue to the history leaves the channel's sequence
\* of accepted messages as it is.
LEMMA MoveHead ==
    ASSUME NEW S, NEW s \in Seq(S), NEW q \in Seq(S), q # <<>>
    PROVE  Append(s, Head(q)) \o Tail(q) = s \o q
OBVIOUS

LEMMA AcceptOne ==
    ASSUME NEW S, NEW s \in Seq(S), NEW q \in Seq(S), NEW m \in S
    PROVE  s \o Append(q, m) = Append(s \o q, m)
OBVIOUS

\* The front of the accepted messages is what was handed over.
LEMMA FrontIsSent ==
    ASSUME NEW S, NEW s \in Seq(S), NEW q \in Seq(S)
    PROVE  /\ {(s \o q)[i] : i \in 1..Len(s)} = Elements(s)
           /\ {(s \o q)[i] : i \in 1..Len(s \o q)}
                = Elements(s) \union Elements(q)
<1>1. /\ Len(s) \in Nat /\ Len(q) \in Nat /\ Len(s \o q) = Len(s) + Len(q)
      /\ DOMAIN s = 1..Len(s) /\ DOMAIN q = 1..Len(q)
  OBVIOUS
<1>2. \A i \in 1..Len(s) : (s \o q)[i] = s[i]
  OBVIOUS
<1>3. \A i \in 1..Len(q) : (s \o q)[Len(s) + i] = q[i]
  OBVIOUS
<1>4. {(s \o q)[i] : i \in 1..Len(s)} = Elements(s)
  BY <1>1, <1>2 DEF Elements
<1>5. ASSUME NEW x \in {(s \o q)[i] : i \in 1..Len(s \o q)}
      PROVE  x \in Elements(s) \union Elements(q)
  <2>1. PICK i \in 1..(Len(s) + Len(q)) : x = (s \o q)[i]
    BY <1>1
  <2>2. CASE i \in 1..Len(s)
    BY <1>1, <1>2, <2>1, <2>2 DEF Elements
  <2>3. CASE i \notin 1..Len(s)
    <3>1. i - Len(s) \in 1..Len(q) /\ x = q[i - Len(s)]
      BY <1>1, <1>3, <2>1, <2>3
    <3> QED
      BY <1>1, <3>1 DEF Elements
  <2> QED
    BY <2>2, <2>3
<1>6. ASSUME NEW x \in Elements(s) \union Elements(q)
      PROVE  x \in {(s \o q)[i] : i \in 1..Len(s \o q)}
  <2>1. CASE x \in Elements(s)
    <3>1. PICK i \in 1..Len(s) : x = s[i]
      BY <2>1, <1>1 DEF Elements
    <3>2. i \in 1..Len(s \o q) /\ x = (s \o q)[i]
      BY <1>1, <1>2, <3>1
    <3> QED
      BY <3>2
  <2>2. CASE x \in Elements(q)
    <3>1. PICK i \in 1..Len(q) : x = q[i]
      BY <2>2, <1>1 DEF Elements
    <3>2. Len(s) + i \in 1..Len(s \o q) /\ x = (s \o q)[Len(s) + i]
      BY <1>1, <1>3, <3>1
    <3> QED
      BY <3>2
  <2> QED
    BY <2>1, <2>2
<1> QED
  BY <1>4, <1>5, <1>6

\* A dequeue() of the queue q, seen by the channel: the accepted messages are
\* sent \o q, one more of them is handed over, and the answers are those of
\* the messages handed over before, less the ones still in flying.
LEMMA SendHeadAdvances ==
    ASSUME TypeOK, NEW STATE q, NEW STATE n, NEW STATE b, NEW STATE flying,
           q \in Seq(Message), Elements(q) \cap Elements(sent) = {},
           q # <<>>, SendHead(q, n, b, flying)
    PROVE  /\ sent' \o queue' = sent \o q
           /\ Len(sent') = Len(sent) + 1
           /\ Len(sent') <= Len(sent' \o queue')
           /\ Elements(sent)' \ inTransit' = Elements(sent) \ flying
<1>1. q \in Seq(Message) /\ sent \in Seq(Message)
  BY DEF TypeOK
<1>2. /\ Head(q) \in Message /\ Tail(q) \in Seq(Message)
      /\ Elements(q) = {Head(q)} \union Elements(Tail(q))
  BY <1>1, ElementsHeadTail
<1>3. queue' = Tail(q) /\ sent' = Append(sent, Head(q))
      /\ inTransit' = flying \union {Head(q)}
  BY DEF SendHead
<1>4. sent' \o queue' = sent \o q
  BY <1>1, <1>3, MoveHead
<1>5. Len(sent') = Len(sent) + 1 /\ Len(sent') <= Len(sent' \o queue')
  BY <1>1, <1>2, <1>3
<1>6. Elements(sent)' = Elements(sent) \union {Head(q)}
  <2>1. Elements(sent)' = Elements(Append(sent, Head(q)))
    BY <1>3 DEF Elements
  <2> QED
    BY <1>1, <1>2, <2>1, ElementsAppend
<1>7. Head(q) \notin Elements(sent)
  BY <1>2
<1> QED
  BY <1>3, <1>4, <1>5, <1>6, <1>7

\* Every step of the queue is a step of the channel, or none.
LEMMA StepSimulation == IInv /\ [Next]_vars => [Channel!Next]_(Channel!channelVars)
<1> SUFFICES ASSUME IInv, [Next]_vars
             PROVE  [Channel!Next]_(Channel!channelVars)
  OBVIOUS
<1> DEFINE accepted == sent \o queue
           answered == Elements(sent) \ inTransit
<1>1. TypeOK /\ Distinct
  BY DEF IInv
<1>2. queue \in Seq(Message) /\ sent \in Seq(Message)
      /\ Len(sent) \in Nat /\ Len(sent) <= Len(accepted)
  BY <1>1 DEF TypeOK
<1>3. Channel!HandedOver = Elements(sent)
  BY <1>2, FrontIsSent DEF Channel!HandedOver
<1>4. ASSUME /\ sent' \o queue' = accepted
             /\ Len(sent') \in {Len(sent), Len(sent) + 1}
             /\ Len(sent') <= Len(sent' \o queue')
             /\ Elements(sent)' \ inTransit' = answered
      PROVE  Channel!Advance
  BY <1>4 DEF Channel!Advance, Channel!MayAdvance
<1>5. ASSUME NEW m \in Message, m \in inTransit,
             sent' \o queue' = accepted,
             Len(sent') \in {Len(sent), Len(sent) + 1},
             Len(sent') <= Len(sent' \o queue'),
             Elements(sent)' \ inTransit' = Elements(sent) \ (inTransit \ {m})
      PROVE  Channel!Answer(m)
  <2>1. m \in Channel!HandedOver \ answered
    BY <1>1, <1>3, <1>5 DEF Distinct
  <2>2. Elements(sent)' \ inTransit' = answered \union {m}
    BY <1>1, <1>5 DEF Distinct
  <2>3. Channel!MayAdvance
    BY <1>5 DEF Channel!MayAdvance
  <2> QED
    BY <1>5, <2>1, <2>2, <2>3 DEF Channel!Answer
<1>6. ASSUME NEW m \in Message, Enqueue(m)
      PROVE  Channel!Accept(m)
  <2> DEFINE q == Append(queue, m)
  <2>1. m \notin Elements(queue) /\ m \notin Elements(sent)
    BY <1>6 DEF Enqueue, Accepted
  <2>2. ~Channel!Contains(accepted, m)
    <3>1. {accepted[i] : i \in 1..Len(accepted)}
            = Elements(sent) \union Elements(queue)
      BY <1>2, FrontIsSent
    <3> QED
      BY <2>1, <3>1 DEF Channel!Contains
  <2>3. sent \o q = Append(accepted, m)
    BY <1>2, AcceptOne
  <2>4. /\ q \in Seq(Message) /\ q # <<>>
        /\ Elements(q) = Elements(queue) \union {m}
    BY <1>2, ElementsAppend
  <2>5. CASE /\ HasRoom
             /\ SendHead(q, messagesInFlight, bytesInFlight, inTransit)
    <3>2. Elements(q) \cap Elements(sent) = {}
      BY <1>1, <2>1, <2>4 DEF Distinct
    <3>4. /\ sent' \o queue' = sent \o q
          /\ Len(sent') = Len(sent) + 1
          /\ Len(sent') <= Len(sent' \o queue')
          /\ Elements(sent)' \ inTransit' = answered
      BY <1>1, <2>4, <2>5, <3>2, SendHeadAdvances
    <3> QED
      BY <2>2, <2>3, <3>4 DEF Channel!Accept, Channel!MayAdvance
  <2>6. CASE /\ ~HasRoom
             /\ queue' = q
             /\ UNCHANGED <<messagesInFlight, bytesInFlight, inTransit, sent>>
    <3>1. sent' \o queue' = Append(accepted, m)
      BY <2>3, <2>6
    <3>2. Len(sent') <= Len(sent' \o queue')
      BY <1>2, <2>4, <2>6
    <3>3. Elements(sent)' \ inTransit' = answered
      BY <2>6 DEF Elements
    <3> QED
      BY <2>2, <2>6, <3>1, <3>2, <3>3 DEF Channel!Accept, Channel!MayAdvance
  <2> QED
    BY <1>6, <2>5, <2>6 DEF Enqueue
<1>7. ASSUME NEW m \in Message, SendSucceeds(m)
      PROVE  Channel!Answer(m)
  <2>1. m \in inTransit
    BY <1>7 DEF SendSucceeds
  <2>2. Elements(queue) \cap Elements(sent) = {}
    BY <1>1 DEF Distinct
  <2>3. CASE /\ queue # <<>>
             /\ SendHead(queue, messagesInFlight - 1, bytesInFlight - Size[m],
                         inTransit \ {m})
    <3>1. /\ sent' \o queue' = accepted
          /\ Len(sent') = Len(sent) + 1
          /\ Len(sent') <= Len(sent' \o queue')
          /\ Elements(sent)' \ inTransit' = Elements(sent) \ (inTransit \ {m})
      BY <1>1, <1>2, <2>2, <2>3, SendHeadAdvances
    <3> QED
      BY <1>5, <2>1, <3>1
  <2>4. CASE inTransit' = inTransit \ {m} /\ UNCHANGED <<queue, sent>>
    <3>1. Elements(sent)' = Elements(sent)
      BY <2>4 DEF Elements
    <3> QED
      BY <1>2, <1>5, <2>1, <2>4, <3>1
  <2> QED
    BY <1>7, <2>3, <2>4 DEF SendSucceeds, AfterSuccess
<1>8. ASSUME NEW m \in Message, SendFails(m)
      PROVE  Channel!Answer(m)
  <2>1. m \in inTransit /\ inTransit' = inTransit \ {m}
        /\ UNCHANGED <<queue, sent>>
    BY <1>8 DEF SendFails
  <2>2. Elements(sent)' = Elements(sent)
    BY <2>1 DEF Elements
  <2> QED
    BY <1>2, <1>5, <2>1, <2>2
<1>9. ASSUME UNCHANGED <<queue, inTransit, sent>>
      PROVE  Channel!Advance
  <2>1. Elements(sent)' = Elements(sent)
    BY <1>9 DEF Elements
  <2> QED
    BY <1>2, <1>4, <1>9, <2>1
<1>10. ASSUME NEW STATE n, queue # <<>>,
              SendHead(queue, n, bytesInFlight, inTransit)
       PROVE  Channel!Advance
  <2>1. Elements(queue) \cap Elements(sent) = {}
    BY <1>1 DEF Distinct
  <2>2. /\ sent' \o queue' = accepted
        /\ Len(sent') = Len(sent) + 1
        /\ Len(sent') <= Len(sent' \o queue')
        /\ Elements(sent)' \ inTransit' = answered
    BY <1>1, <1>2, <1>10, <2>1, SendHeadAdvances
  <2> QED
    BY <1>4, <2>2
<1>11. CASE GhostSucceeds
  BY <1>9, <1>10, <1>11 DEF GhostSucceeds, AfterSuccess, Channel!Next
<1>12. CASE GhostFails
  BY <1>9, <1>12 DEF GhostFails, Channel!Next
<1>13. CASE RetryTimer
  BY <1>9, <1>10, <1>13 DEF RetryTimer, Channel!Next
<1>14. CASE UNCHANGED vars
  BY <1>9, <1>14 DEF vars, Channel!Next
<1> QED
  BY <1>6, <1>7, <1>8, <1>11, <1>12, <1>13, <1>14 DEF Next, Channel!Next

LEMMA InitSimulation == Init => Channel!Init
BY DEF Init, Channel!Init, Elements

\* The queue is a first-in first-out channel that hands each message over
\* once: failures lose messages but neither reorder nor repeat them.
THEOREM Refinement == Spec => ImplementsChannel
<1>1. Init /\ [][Next]_vars /\ []IInv => Channel!Init /\ [][Channel!Next]_(Channel!channelVars)
  BY InitSimulation, StepSimulation, PTL
<1> QED
  BY <1>1, InductiveInvariant, PTL DEF Spec, ImplementsChannel, Channel!Spec
=============================================================================
