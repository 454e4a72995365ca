------------------------ MODULE ConversationProofs ------------------------
(***************************************************************************)
(* Proofs about Conversation for any number of entries and windows: the    *)
(* segments of the window and the entries of the conversation stay in      *)
(* step although each is deleted from the front without looking at the     *)
(* other, one response at most is open, who may not speak sees why, and    *)
(* what the app can die of under memory pressure is exactly named.         *)
(***************************************************************************)
EXTENDS Conversation, FunctionTheorems, FiniteSetTheorems, SequenceTheorems,
        TLAPS

-----------------------------------------------------------------------------
(* The inductive invariant.                                                *)

\* The steps of a handler that make an entry.
Creating(steps) == {i \in DOMAIN steps : steps[i].do = "create"}

\* The kinds whose content is allocated before prv_create_entry().
Prepared == {"Action", "Widget", "LocalWidget"}

\* Step t comes after step s.
Follows(s, t) ==
    CASE s.do = "create"  -> IF s.what \in Prepared THEN t.do = "show"
                             ELSE t.do = "fill" /\ t.what = s.what
      [] s.do = "fill"    -> IF s.what = "Response" THEN t.do = "append"
                             ELSE t.do = "show"
      [] s.do = "append"  -> t.do \in {"show", "update"}
      [] s.do = "show"    -> t.do = "display"
      [] s.do = "display" -> t.do = "create"
      [] s.do = "update"  -> t.do = "create"

\* The steps are what is left of one handler.
Planned(steps) ==
    /\ \A i \in 1..Len(steps) - 1 : Follows(steps[i], steps[i + 1])
    /\ steps # <<>> => steps[Len(steps)].do \in {"display", "update"}
    /\ \A i \in 1..Len(steps) :
          /\ steps[i].do = "create" => steps[i].what \in Kind
          /\ steps[i].do = "fill" => steps[i].what \in Kind \ Prepared
          /\ steps[i].do = "update" =>
                i = 1 \/ (i = 2 /\ steps[1].do = "append")

\* The newest entry has no segment yet: its handler is between creating and
\* displaying it.
Building ==
    /\ todo # <<>>
    /\ \/ Head(todo).do \in {"fill", "show", "display"}
       \/ Head(todo).do = "append" /\ todo[2].do = "show"

\* The newest entry is nothing yet: conversation_add_thought() and
\* conversation_add_error() allocate before they give it its type.
Pending ==
    /\ todo # <<>>
    /\ Head(todo).do = "fill"
    /\ Head(todo).what \in {"Thought", "Error"}

\* The entries that have a segment.
Displayed == IF Building THEN Alive \ {Count} ELSE Alive

\* What is left of a handler fits, and no response is started while one is open.
Handling ==
    /\ Planned(todo)
    /\ RoomFor(todo)
    /\ \A i \in DOMAIN todo :
          todo[i].do = "create" /\ todo[i].what = "Response" => i = 1 /\ Open = {}

\* The live segments are the entries displayed, in order.
InStep ==
    /\ LiveSegments = Displayed
    /\ \A i, j \in (segmentsDeleted + 1)..Len(segments) :
          i < j => segments[i] < segments[j]

\* The newest entry is there, unless it is still pending, or all are deleted.
Newest ==
    /\ Count > deletedEntries => Count \in Alive \/ Pending
    /\ Building => Count > deletedEntries
    /\ Pending => Last = Destroyed
    /\ todo # <<>> /\ Head(todo).do = "fill" /\ ~Pending =>
          Last.type = Head(todo).what

\* Only memory pressure after two thoughts deletes the newest entry.
Lasting == Count > deletedEntries \/ Count = 0 \/ thoughts >= 2

\* The only thought is the newest entry, or the one the next entry replaces.
LoneThought ==
    \A i \in Displayed : entries[i].type = "Thought" =>
        IF Building THEN i = Count - 1 /\ Head(todo).do # "display"
        ELSE i = Count

\* By how much conversation_length() is wrong.
Drift == Length = Cardinality(Alive) + thoughts + (IF Pending THEN 1 ELSE 0)

\* There is one open response at most.
OneOpen == \A i, j \in Open : i = j

\* The window is busy whenever the user may not speak.
Busy == ~Building /\ ~IsIdle => thinking

\* Without a window there is nothing; a window without an entry waits for one,
\* or it was spared.
Opened ==
    /\ ~window => /\ entries = <<>> /\ segments = <<>> /\ todo = <<>>
                  /\ nulledEntries = 0 /\ thoughts = 0 /\ ~spared
    /\ Count = 0 /\ window => asking \/ spared \/ (todo # <<>> /\ Head(todo).do = "create")

\* What the app has died of.
Died ==
    /\ fault \notin {"no_entry", "half_built"}
    /\ fault = "no_segment" => thoughts >= 2
    /\ fault = "no_newest" => thoughts >= 2 \/ spared
    /\ fault = "freed_response" => thoughts >= 2 \/ Last.type # "Deleted"

IInv ==
    /\ TypeOK /\ Handling /\ InStep /\ Newest /\ Lasting /\ LoneThought
    /\ Drift /\ OneOpen /\ Busy /\ Opened /\ Died

-----------------------------------------------------------------------------
(* The steps of a handler.                                                 *)

\* Two steps put behind others.
LEMMA TwoMore ==
    ASSUME NEW p \in Seq(StepType), NEW a \in StepType, NEW b \in StepType
    PROVE  /\ p \o <<a, b>> \in Seq(StepType)
           /\ Len(p \o <<a, b>>) = Len(p) + 2
           /\ \A i \in 1..Len(p) : (p \o <<a, b>>)[i] = p[i]
           /\ (p \o <<a, b>>)[Len(p) + 1] = a
           /\ (p \o <<a, b>>)[Len(p) + 2] = b
<1> DEFINE t == <<a, b>>
<1>1. t \in Seq(StepType) /\ Len(t) = 2 /\ t[1] = a /\ t[2] = b
  OBVIOUS
<1>2. Len(p) \in Nat
  OBVIOUS
<1> HIDE DEF t
<1>3. /\ p \o t \in Seq(StepType) /\ Len(p \o t) = Len(p) + 2
      /\ \A i \in 1..Len(p) + 2 :
            (p \o t)[i] = IF i <= Len(p) THEN p[i] ELSE t[i - Len(p)]
  <2>1. /\ p \o t \in Seq(StepType) /\ Len(p \o t) = Len(p) + Len(t)
        /\ \A i \in 1..Len(p) + Len(t) :
              (p \o t)[i] = IF i <= Len(p) THEN p[i] ELSE t[i - Len(p)]
    BY <1>1, ConcatProperties
  <2> QED
    BY <1>1, <2>1
<1>4. Len(p) + 1 - Len(p) = 1 /\ Len(p) + 2 - Len(p) = 2
  BY <1>2
<1>5. /\ \A i \in 1..Len(p) : (p \o t)[i] = p[i]
      /\ (p \o t)[Len(p) + 1] = a
      /\ (p \o t)[Len(p) + 2] = b
  BY <1>1, <1>2, <1>3, <1>4
<1> QED
  BY <1>3, <1>5 DEF t

\* One step put behind others.
LEMMA OneMore ==
    ASSUME NEW p \in Seq(StepType), NEW a \in StepType
    PROVE  /\ p \o <<a>> \in Seq(StepType)
           /\ Len(p \o <<a>>) = Len(p) + 1
           /\ \A i \in 1..Len(p) : (p \o <<a>>)[i] = p[i]
           /\ (p \o <<a>>)[Len(p) + 1] = a
<1> DEFINE t == <<a>>
<1>1. t \in Seq(StepType) /\ Len(t) = 1 /\ t[1] = a
  OBVIOUS
<1>2. Len(p) \in Nat
  OBVIOUS
<1> HIDE DEF t
<1>3. /\ p \o t \in Seq(StepType) /\ Len(p \o t) = Len(p) + 1
      /\ \A i \in 1..Len(p) + 1 :
            (p \o t)[i] = IF i <= Len(p) THEN p[i] ELSE t[i - Len(p)]
  <2>1. /\ p \o t \in Seq(StepType) /\ Len(p \o t) = Len(p) + Len(t)
        /\ \A i \in 1..Len(p) + Len(t) :
              (p \o t)[i] = IF i <= Len(p) THEN p[i] ELSE t[i - Len(p)]
    BY <1>1, ConcatProperties
  <2> QED
    BY <1>1, <2>1
<1>4. Len(p) + 1 - Len(p) = 1
  BY <1>2
<1>5. /\ \A i \in 1..Len(p) : (p \o t)[i] = p[i]
      /\ (p \o t)[Len(p) + 1] = a
  BY <1>1, <1>2, <1>3, <1>4
<1> QED
  BY <1>3, <1>5 DEF t

\* Build() written out.
LEMMA BuildIs ==
    ASSUME NEW kind \in Kind
    PROVE  LET b == Build(kind)
               n == Len(b)
           IN  /\ b \in Seq(StepType)
               /\ n = IF kind \in Prepared THEN 3
                      ELSE IF kind = "Response" THEN 5 ELSE 4
               /\ b[1] = [do |-> "create", what |-> kind]
               /\ kind \notin Prepared => b[2] = [do |-> "fill", what |-> kind]
               /\ kind = "Response" => b[3] = Do("append")
               /\ b[n - 1] = Do("show")
               /\ b[n] = Do("display")
<1> DEFINE c == [do |-> "create", what |-> kind]
           f == [do |-> "fill", what |-> kind]
           p == <<c>>
           q == p \o (IF kind \notin Prepared THEN <<f>> ELSE <<>>)
           r == q \o (IF kind = "Response" THEN <<Do("append")>> ELSE <<>>)
           s == r \o <<Do("show"), Do("display")>>
<1>1. /\ c \in StepType /\ f \in StepType /\ Do("append") \in StepType
      /\ Do("show") \in StepType /\ Do("display") \in StepType
  BY DEF Do, StepType, EntryType
<1>2. Build(kind) = s
  BY DEF Build, Prepared
<1>3. p \in Seq(StepType) /\ Len(p) = 1 /\ p[1] = c
  BY <1>1
<1> HIDE DEF c, f, p
<1>4. /\ q \in Seq(StepType)
      /\ Len(q) = IF kind \notin Prepared THEN 2 ELSE 1
      /\ q[1] = c
      /\ kind \notin Prepared => q[2] = f
  <2>1. CASE kind \in Prepared
    BY <1>3, <2>1, ConcatEmptySeq
  <2>2. CASE kind \notin Prepared
    <3>1. q = p \o <<f>>
      BY <2>2
    <3> HIDE DEF q
    <3> QED
      <4>1. /\ p \o <<f>> \in Seq(StepType)
            /\ Len(p \o <<f>>) = Len(p) + 1
            /\ \A i \in 1..Len(p) : (p \o <<f>>)[i] = p[i]
            /\ (p \o <<f>>)[Len(p) + 1] = f
        BY <1>1, <1>3, OneMore
      <4>2. 1 \in 1..Len(p) /\ Len(p) + 1 = 2
        BY <1>3
      <4> QED
        BY <1>3, <2>2, <3>1, <4>1, <4>2
  <2> QED
    BY <2>1, <2>2
<1> HIDE DEF q
<1>5. kind = "Response" => kind \notin Prepared
  BY DEF Prepared
<1>6. /\ r \in Seq(StepType)
      /\ Len(r) = IF kind = "Response" THEN Len(q) + 1 ELSE Len(q)
      /\ \A i \in 1..Len(q) : r[i] = q[i]
      /\ kind = "Response" => r[Len(q) + 1] = Do("append")
  <2>1. CASE kind # "Response"
    BY <1>4, <2>1, ConcatEmptySeq
  <2>2. CASE kind = "Response"
    <3>1. r = q \o <<Do("append")>>
      BY <2>2
    <3> HIDE DEF r
    <3> QED
      BY <1>1, <1>4, <2>2, <3>1, OneMore
  <2> QED
    BY <2>1, <2>2
<1> HIDE DEF r
<1>7. /\ s \in Seq(StepType)
      /\ Len(s) = Len(r) + 2
      /\ \A i \in 1..Len(r) : s[i] = r[i]
      /\ s[Len(r) + 1] = Do("show")
      /\ s[Len(r) + 2] = Do("display")
  BY <1>1, <1>6, TwoMore
<1> HIDE DEF s
<1>8. CASE kind \in Prepared
  BY <1>2, <1>4, <1>5, <1>6, <1>7, <1>8 DEF c, f
<1>9. CASE kind = "Response"
  BY <1>2, <1>4, <1>5, <1>6, <1>7, <1>9 DEF c, f
<1>10. CASE kind \notin Prepared \union {"Response"}
  BY <1>2, <1>4, <1>5, <1>6, <1>7, <1>10 DEF c, f
<1> QED
  BY <1>8, <1>9, <1>10

\* It is a plan that begins with the one entry it creates.
LEMMA BuildPlanned ==
    ASSUME NEW kind \in Kind
    PROVE  /\ Build(kind) \in Seq(StepType)
           /\ Build(kind) # <<>>
           /\ Planned(Build(kind))
           /\ Build(kind)[1] = [do |-> "create", what |-> kind]
           /\ \A i \in 1..Len(Build(kind)) : /\ Build(kind)[i].do # "update"
                                             /\ i # 1 => Build(kind)[i].do # "create"
<1> DEFINE b == Build(kind)
<1> HIDE DEF b
<1>1. CASE kind \in Prepared
  <2>1. /\ b \in Seq(StepType) /\ Len(b) = 3
        /\ b[1] = [do |-> "create", what |-> kind]
        /\ b[2] = Do("show") /\ b[3] = Do("display")
    <3>1. /\ b \in Seq(StepType) /\ Len(b) = 3
          /\ b[1] = [do |-> "create", what |-> kind]
          /\ b[Len(b) - 1] = Do("show") /\ b[Len(b)] = Do("display")
      BY <1>1, BuildIs DEF b
    <3>2. Len(b) - 1 = 2
      BY <3>1
    <3> QED
      BY <3>1, <3>2
  <2>2. 1..Len(b) - 1 = {1, 2} /\ 1..Len(b) = {1, 2, 3}
    BY <2>1
  <2>3. b # <<>>
    <3>1. Len(b) # 0
      BY <2>1
    <3> QED
      BY <3>1, EmptySeq
  <2>4. \A i \in {1, 2} : Follows(b[i], b[i + 1])
    <3>1. Follows(b[1], b[2]) /\ Follows(b[2], b[3])
      BY <1>1, <2>1 DEF Follows, Do
    <3> QED
      BY <3>1
  <2>5. Planned(b)
    BY <1>1, <2>1, <2>2, <2>4 DEF Planned, Do
  <2> QED
    BY <2>1, <2>2, <2>3, <2>5 DEF b, Do
<1>2. CASE kind = "Response"
  <2>1. /\ b \in Seq(StepType) /\ Len(b) = 5
        /\ b[1] = [do |-> "create", what |-> kind]
        /\ b[2] = [do |-> "fill", what |-> kind]
        /\ b[3] = Do("append") /\ b[4] = Do("show") /\ b[5] = Do("display")
    BY <1>2, BuildIs DEF b, Prepared
  <2>2. 1..Len(b) - 1 = {1, 2, 3, 4} /\ 1..Len(b) = {1, 2, 3, 4, 5}
    BY <2>1
  <2>3. b # <<>>
    <3>1. Len(b) # 0
      BY <2>1
    <3> QED
      BY <3>1, EmptySeq
  <2>4. \A i \in {1, 2, 3, 4} : Follows(b[i], b[i + 1])
    <3>1. /\ Follows(b[1], b[2]) /\ Follows(b[2], b[3])
          /\ Follows(b[3], b[4]) /\ Follows(b[4], b[5])
      BY <1>2, <2>1 DEF Follows, Do, Prepared
    <3> QED
      BY <3>1
  <2>5. Planned(b)
    BY <1>2, <2>1, <2>2, <2>4 DEF Planned, Do, Prepared
  <2> QED
    BY <2>1, <2>2, <2>3, <2>5 DEF b, Do
<1>3. CASE kind \notin Prepared \union {"Response"}
  <2>1. /\ b \in Seq(StepType) /\ Len(b) = 4
        /\ b[1] = [do |-> "create", what |-> kind]
        /\ b[2] = [do |-> "fill", what |-> kind]
        /\ b[3] = Do("show") /\ b[4] = Do("display")
    BY <1>3, BuildIs DEF b
  <2>2. 1..Len(b) - 1 = {1, 2, 3} /\ 1..Len(b) = {1, 2, 3, 4}
    BY <2>1
  <2>3. b # <<>>
    <3>1. Len(b) # 0
      BY <2>1
    <3> QED
      BY <3>1, EmptySeq
  <2>4. \A i \in {1, 2, 3} : Follows(b[i], b[i + 1])
    <3>1. /\ Follows(b[1], b[2]) /\ Follows(b[2], b[3])
          /\ Follows(b[3], b[4])
      BY <1>3, <2>1 DEF Follows, Do
    <3> QED
      BY <3>1
  <2>5. Planned(b)
    BY <1>3, <2>1, <2>2, <2>4 DEF Planned, Do
  <2> QED
    BY <2>1, <2>2, <2>3, <2>5 DEF b, Do
<1> QED
  BY <1>1, <1>2, <1>3

\* A plan that creates entries may come behind another, or behind an update.
LEMMA PlannedConcat ==
    ASSUME NEW p \in Seq(StepType), NEW q \in Seq(StepType), p # <<>>, q # <<>>,
           Planned(p), Planned(q), q[1].do = "create",
           \A i \in 1..Len(q) : q[i].do # "update"
    PROVE  /\ p \o q \in Seq(StepType) /\ p \o q # <<>>
           /\ (p \o q)[1] = p[1]
           /\ Planned(p \o q)
           /\ \A i \in 1..Len(p \o q) : \/ i \in 1..Len(p) /\ (p \o q)[i] = p[i]
                                        \/ \E j \in 1..Len(q) : (p \o q)[i] = q[j]
<1> DEFINE r == p \o q
           m == Len(p)
           n == Len(q)
<1>1. m \in Nat \ {0} /\ n \in Nat \ {0}
  BY EmptySeq
<1>2. /\ r \in Seq(StepType)
      /\ Len(r) = m + n
      /\ \A i \in 1..m + n : r[i] = IF i <= m THEN p[i] ELSE q[i - m]
  BY ConcatProperties
<1>3. r # <<>>
  <2>1. Len(r) # 0
    BY <1>1, <1>2
  <2> HIDE DEF r
  <2> QED
    BY <2>1, EmptySeq
<1>4. /\ \A i \in 1..m - 1 : Follows(p[i], p[i + 1])
      /\ \A i \in 1..n - 1 : Follows(q[i], q[i + 1])
      /\ p[m].do \in {"display", "update"}
      /\ q[n].do \in {"display", "update"}
  BY DEF Planned
<1>5. Follows(p[m], q[1])
  BY <1>4 DEF Follows
<1> HIDE DEF r, m, n
<1>6. ASSUME NEW i \in 1..m + n - 1 PROVE Follows(r[i], r[i + 1])
  <2>0. i \in 1..m + n /\ i + 1 \in 1..m + n /\ i \in Nat
    BY <1>1
  <2>1. CASE i < m
    <3>1. r[i] = p[i] /\ r[i + 1] = p[i + 1] /\ i \in 1..m - 1
      BY <1>1, <1>2, <2>0, <2>1
    <3> QED
      BY <1>4, <3>1
  <2>2. CASE i = m
    <3>1. r[i] = p[m] /\ r[i + 1] = q[1]
      <4>1. i + 1 - m = 1
        BY <1>1, <2>2
      <4> QED
        BY <1>1, <1>2, <2>0, <2>2, <4>1
    <3> QED
      BY <1>5, <3>1
  <2>3. CASE i > m
    <3> DEFINE k == i - m
    <3>1. k \in 1..n - 1 /\ i + 1 - m = k + 1
      BY <1>1, <2>3
    <3>2. r[i] = q[k] /\ r[i + 1] = q[i + 1 - m]
      BY <1>1, <1>2, <2>0, <2>3
    <3> HIDE DEF k
    <3> QED
      BY <1>4, <3>1, <3>2
  <2> QED
    BY <1>1, <2>0, <2>1, <2>2, <2>3
<1>7. r[1] = p[1]
  BY <1>1, <1>2
<1>8. r[Len(r)] = q[n]
  <2>1. (m + n) - m = n /\ m + n \in 1..m + n /\ ~(m + n <= m)
    BY <1>1
  <2>2. r[m + n] = q[(m + n) - m]
    BY <1>2, <2>1
  <2> QED
    BY <1>2, <2>1, <2>2
<1>9. ASSUME NEW i \in 1..m + n
      PROVE  \/ i \in 1..m /\ r[i] = p[i]
             \/ \E j \in 1..n : r[i] = q[j]
  <2>1. CASE i <= m
    BY <1>1, <1>2, <2>1
  <2>2. CASE i > m
    <3>1. i - m \in 1..n /\ r[i] = q[i - m]
      BY <1>1, <1>2, <2>2
    <3> QED
      BY <3>1
  <2> QED
    BY <1>1, <2>1, <2>2
<1>10. \A i \in 1..m + n :
          /\ r[i].do = "create" => r[i].what \in Kind
          /\ r[i].do = "fill" => r[i].what \in Kind \ Prepared
          /\ r[i].do = "update" => i = 1 \/ (i = 2 /\ r[1].do = "append")
  <2>1. /\ \A i \in 1..m :
              /\ p[i].do = "create" => p[i].what \in Kind
              /\ p[i].do = "fill" => p[i].what \in Kind \ Prepared
              /\ p[i].do = "update" => i = 1 \/ (i = 2 /\ p[1].do = "append")
        /\ \A i \in 1..n :
              /\ q[i].do = "create" => q[i].what \in Kind
              /\ q[i].do = "fill" => q[i].what \in Kind \ Prepared
              /\ q[i].do # "update"
    BY DEF Planned, m, n
  <2> QED
    BY <1>7, <1>9, <2>1
<1>11. Planned(r)
  <2>1. \A i \in 1..Len(r) - 1 : Follows(r[i], r[i + 1])
    BY <1>1, <1>2, <1>6
  <2> QED
    BY <1>2, <1>4, <1>8, <1>10, <2>1 DEF Planned
<1> QED
  BY <1>2, <1>3, <1>7, <1>9, <1>11 DEF r, m, n

\* What is left after the first step is a plan.
LEMMA TailPlanned ==
    ASSUME NEW p \in Seq(StepType), p # <<>>, Planned(p)
    PROVE  /\ Tail(p) \in Seq(StepType)
           /\ Len(Tail(p)) = Len(p) - 1
           /\ \A i \in 1..Len(p) - 1 : Tail(p)[i] = p[i + 1]
           /\ Planned(Tail(p))
           /\ Tail(p) = <<>> => Head(p).do \in {"display", "update"}
           /\ Tail(p) # <<>> => Follows(Head(p), Head(Tail(p)))
           /\ Tail(p) # <<>> /\ Head(Tail(p)).do = "append" =>
                 Tail(p)[2].do = "show"
<1> DEFINE q == Tail(p)
           n == Len(p)
<1>1. n \in Nat \ {0}
  BY EmptySeq
<1>2. /\ q \in Seq(StepType) /\ Len(q) = n - 1
      /\ \A i \in 1..n - 1 : q[i] = p[i + 1]
  BY HeadTailProperties
<1>3. Head(p) = p[1]
  OBVIOUS
<1>4. /\ \A i \in 1..n - 1 : Follows(p[i], p[i + 1])
      /\ p[n].do \in {"display", "update"}
      /\ \A i \in 1..n :
            /\ p[i].do = "create" => p[i].what \in Kind
            /\ p[i].do = "fill" => p[i].what \in Kind \ Prepared
            /\ p[i].do = "update" => i = 1 \/ (i = 2 /\ p[1].do = "append")
  BY DEF Planned
<1> HIDE DEF q, n
<1>5. CASE n = 1
  <2>1. q = <<>>
    BY <1>2, <1>5, EmptySeq
  <2>2. 1..0 = {} /\ Len(q) = 0 /\ Len(q) - 1 = -1 /\ 1..(-1) = {}
    BY <1>2, <1>5
  <2>3. Planned(q)
    BY <2>1, <2>2 DEF Planned
  <2> QED
    BY <1>2, <1>3, <1>4, <1>5, <2>1, <2>3 DEF q, n
<1>6. CASE n # 1
  <2>1. n - 1 \in Nat \ {0} /\ 1 \in 1..n - 1 /\ n \in Nat
    BY <1>1, <1>6
  <2>2. q # <<>> /\ Head(q) = q[1] /\ q[1] = p[2]
    <3>1. q # <<>>
      BY <1>2, <2>1, EmptySeq
    <3>2. q[1] = p[1 + 1]
      BY <1>2, <2>1
    <3> QED
      BY <1>2, <3>1, <3>2
  <2>3. \A i \in 1..Len(q) - 1 : Follows(q[i], q[i + 1])
    <3>1. ASSUME NEW i \in 1..n - 2 PROVE Follows(q[i], q[i + 1])
      <4>1. i \in 1..n - 1 /\ i + 1 \in 1..n - 1 /\ i + 1 + 1 = (i + 1) + 1
        BY <2>1
      <4>2. q[i] = p[i + 1] /\ q[i + 1] = p[(i + 1) + 1]
        BY <1>2, <4>1
      <4> QED
        BY <1>4, <4>1, <4>2
    <3>2. Len(q) - 1 = n - 2
      BY <1>2, <2>1
    <3> QED
      BY <3>1, <3>2
  <2>4. q[Len(q)] = p[n]
    <3>1. n - 1 \in 1..n - 1 /\ (n - 1) + 1 = n
      BY <2>1
    <3> QED
      BY <1>2, <3>1
  <2>5. \A i \in 1..Len(q) :
            /\ q[i].do = "create" => q[i].what \in Kind
            /\ q[i].do = "fill" => q[i].what \in Kind \ Prepared
            /\ q[i].do = "update" => i = 1 /\ p[1].do = "append"
    <3>1. ASSUME NEW i \in 1..n - 1
          PROVE  /\ q[i].do = "create" => q[i].what \in Kind
                 /\ q[i].do = "fill" => q[i].what \in Kind \ Prepared
                 /\ q[i].do = "update" => i = 1 /\ p[1].do = "append"
      <4>1. i + 1 \in 1..n /\ i + 1 # 1 /\ (i + 1 = 2 => i = 1)
        BY <2>1
      <4> QED
        BY <1>2, <1>4, <4>1
    <3> QED
      BY <1>2, <3>1
  <2>6. Planned(q)
    BY <1>4, <2>3, <2>4, <2>5 DEF Planned
  <2>7. Follows(p[1], p[2])
    <3>1. 1 + 1 = 2
      OBVIOUS
    <3> QED
      BY <1>4, <2>1, <3>1
  <2>8. ASSUME q[1].do = "append" PROVE q[2].do = "show"
    <3>1. Len(q) # 1
      BY <1>4, <2>4, <2>8
    <3>2. 2 \in 1..Len(q) /\ 1 \in 1..Len(q) - 1 /\ 1 + 1 = 2
      BY <1>2, <2>1, <3>1
    <3>3. Follows(q[1], q[2])
      BY <2>3, <3>2
    <3>4. q[2].do # "update"
      BY <2>5, <3>2
    <3> QED
      BY <2>8, <3>3, <3>4 DEF Follows
  <2> QED
    BY <1>2, <1>3, <2>2, <2>6, <2>7, <2>8 DEF q, n
<1> QED
  BY <1>5, <1>6

\* The steps that create entries, one step on.
LEMMA CreatingTail ==
    ASSUME NEW p \in Seq(StepType), p # <<>>
    PROVE  /\ Cardinality(Creating(p)) \in Nat
           /\ Cardinality(Creating(Tail(p))) \in Nat
           /\ Cardinality(Creating(Tail(p))) =
                 IF Head(p).do = "create" THEN Cardinality(Creating(p)) - 1
                 ELSE Cardinality(Creating(p))
<1> DEFINE q == Tail(p)
           n == Len(p)
           B == Creating(q)
           C == Creating(p)
<1>1. n \in Nat \ {0} /\ DOMAIN p = 1..n
  BY EmptySeq
<1>2. /\ q \in Seq(StepType) /\ Len(q) = n - 1
      /\ \A i \in 1..n - 1 : q[i] = p[i + 1]
  BY HeadTailProperties
<1>3. Head(p) = p[1]
  OBVIOUS
<1>4. DOMAIN q = 1..n - 1
  BY <1>2, LenProperties
<1> HIDE DEF q, n
<1>5. /\ B = {i \in 1..n - 1 : q[i].do = "create"}
      /\ C = {i \in 1..n : p[i].do = "create"}
  BY <1>1, <1>4 DEF Creating
<1> HIDE DEF B, C
<1>6. IsFiniteSet(B) /\ IsFiniteSet(C)
  <2>1. IsFiniteSet(1..n - 1) /\ IsFiniteSet(1..n)
    BY <1>1, FS_Interval
  <2> QED
    BY <1>5, <2>1, FS_Subset
<1> DEFINE f == [i \in B |-> i + 1]
<1>7. f \in Bijection(B, C \ {1})
  <2>1. f \in [B -> C \ {1}]
    BY <1>1, <1>2, <1>5
  <2>2. \A a, b \in B : f[a] = f[b] => a = b
    BY <1>1, <1>5
  <2>3. ASSUME NEW t \in C \ {1} PROVE \E s \in B : f[s] = t
    <3>1. t - 1 \in 1..n - 1 /\ (t - 1) + 1 = t
      BY <1>1, <1>5
    <3>2. t - 1 \in B
      BY <1>2, <1>5, <3>1
    <3> QED
      BY <3>1, <3>2
  <2> QED
    BY <2>1, <2>2, <2>3, Fun_IsBij
<1>8. Cardinality(B) = Cardinality(C \ {1})
  BY <1>6, <1>7, FS_Bijection DEF ExistsBijection
<1>9. 1 \in C <=> Head(p).do = "create"
  BY <1>1, <1>3, <1>5
<1>10. Cardinality(C) \in Nat /\ Cardinality(B) \in Nat
  BY <1>6, FS_CardinalityType
<1>11. Cardinality(C \ {1}) = IF 1 \in C THEN Cardinality(C) - 1 ELSE Cardinality(C)
  BY <1>6, FS_RemoveElement
<1> QED
  BY <1>8, <1>9, <1>10, <1>11 DEF B, C, q

\* Where a handler stands with the newest entry, one step on.
LEMMA BuildingNext ==
    ASSUME TypeOK, Handling, todo # <<>>, todo' = Tail(todo)
    PROVE  /\ todo' \in Seq(StepType)
           /\ Planned(todo')
           /\ todo' # <<>> => Follows(Head(todo), Head(todo'))
           /\ Head(todo).do = "create" => Building'
           /\ Head(todo).do = "fill" => Building' /\ ~Pending'
           /\ Head(todo).do = "append" => (Building' <=> Building) /\ ~Pending'
           /\ Head(todo).do = "show" =>
                 Building' /\ ~Pending' /\ Head(todo').do = "display"
           /\ Head(todo).do \in {"display", "update"} => ~Building' /\ ~Pending'
           /\ Head(todo).do # "create" /\ todo' # <<>> => Head(todo').do # "fill"
           /\ \A i \in DOMAIN todo' :
                 ~(todo'[i].do = "create" /\ todo'[i].what = "Response")
<1> USE DEF TypeOK, Handling
<1>1. /\ todo' \in Seq(StepType)
      /\ Len(todo') = Len(todo) - 1
      /\ \A i \in 1..Len(todo) - 1 : todo'[i] = todo[i + 1]
      /\ Planned(todo')
      /\ todo' = <<>> => Head(todo).do \in {"display", "update"}
      /\ todo' # <<>> => Follows(Head(todo), Head(todo'))
      /\ todo' # <<>> /\ Head(todo').do = "append" => todo'[2].do = "show"
  BY TailPlanned
<1>2. Len(todo) \in Nat \ {0} /\ DOMAIN todo = 1..Len(todo) /\ DOMAIN todo' = 1..Len(todo')
  BY <1>1, EmptySeq
<1>3. Head(todo) = todo[1] /\ Head(todo) \in StepType
  BY <1>2
<1>4. /\ \A i \in 1..Len(todo) - 1 : Follows(todo[i], todo[i + 1])
      /\ todo[1].do = "create" => todo[1].what \in Kind
  BY <1>2 DEF Planned
<1>5. \A i \in DOMAIN todo' :
         ~(todo'[i].do = "create" /\ todo'[i].what = "Response")
  <2>1. ASSUME NEW i \in DOMAIN todo',
               todo'[i].do = "create" /\ todo'[i].what = "Response"
        PROVE  FALSE
    <3>1. i \in 1..Len(todo) - 1 /\ i + 1 \in DOMAIN todo /\ i + 1 # 1
      BY <1>1, <1>2
    <3> QED
      BY <1>1, <2>1, <3>1
  <2> QED
    BY <2>1
<1>6. Head(todo).do = "create" => Building'
  BY <1>1, <1>3 DEF Building, Follows
<1>7. Head(todo).do = "fill" => Building' /\ ~Pending'
  BY <1>1, <1>3 DEF Building, Pending, Follows
<1>8. Head(todo).do = "append" => (Building' <=> Building) /\ ~Pending'
  <2> SUFFICES ASSUME Head(todo).do = "append"
               PROVE  (Building' <=> Building) /\ ~Pending'
    OBVIOUS
  <2>1. todo' # <<>>
    BY <1>1
  <2>2. Len(todo') # 0
    BY <1>1, <2>1, EmptySeq
  <2>3. Head(todo') = todo[2]
    <3>1. 1 \in 1..Len(todo) - 1 /\ 1 + 1 = 2 /\ Head(todo') = todo'[1]
      BY <1>1, <1>2, <2>1, <2>2
    <3> QED
      BY <1>1, <3>1
  <2> QED
    BY <1>1, <2>1, <2>3 DEF Building, Pending, Follows
<1>9. Head(todo).do = "show" =>
         Building' /\ ~Pending' /\ Head(todo').do = "display"
  BY <1>1, <1>3 DEF Building, Pending, Follows
<1>10. Head(todo).do \in {"display", "update"} => ~Building' /\ ~Pending'
  BY <1>1, <1>3 DEF Building, Pending, Follows
<1>11. Head(todo).do # "create" /\ todo' # <<>> => Head(todo').do # "fill"
  BY <1>1, <1>3 DEF Follows, StepType
<1> QED
  BY <1>1, <1>5, <1>6, <1>7, <1>8, <1>9, <1>10, <1>11

-----------------------------------------------------------------------------
(* Handlers.                                                               *)

\* The numbers and the arrays.
LEMMA Facts ==
    ASSUME TypeOK
    PROVE  /\ Count \in Nat /\ Len(entries) = Count /\ DOMAIN entries = 1..Count
           /\ \A i \in 1..Count : entries[i] \in Entry
           /\ deletedEntries \in Nat /\ deletedEntries <= Count
           /\ Len(segments) \in Nat
           /\ \A i \in 1..Len(segments) : segments[i] \in 0..Count
           /\ segmentsDeleted \in Nat /\ segmentsDeleted <= Len(segments)
           /\ Alive \subseteq 1..Count
           /\ IsFiniteSet(Alive) /\ Cardinality(Alive) \in Nat
<1> USE DEF TypeOK
<1>1. Count \in Nat /\ Len(entries) = Count /\ DOMAIN entries = 1..Count
  BY DEF Count
<1>2. \A i \in 1..Count : entries[i] \in Entry
  BY <1>1, ElementOfSeq
<1>3. deletedEntries \in Nat /\ deletedEntries <= Count
  BY <1>1
<1>4. Len(segments) \in Nat /\ \A i \in 1..Len(segments) : segments[i] \in 0..Count
  BY <1>1, ElementOfSeq
<1>5. segmentsDeleted \in Nat /\ segmentsDeleted <= Len(segments)
  BY <1>4
<1>6. Alive \subseteq 1..Count
  BY <1>1, <1>3 DEF Alive
<1>7. IsFiniteSet(1..Count)
  BY <1>1, FS_Interval
<1>8. IsFiniteSet(Alive) /\ Cardinality(Alive) \in Nat
  BY <1>6, <1>7, FS_Subset, FS_CardinalityType
<1> QED
  BY <1>1, <1>2, <1>3, <1>4, <1>5, <1>6, <1>8

\* A handler begins: entries may be completed, but none is made or deleted.
LEMMA HandlerStep ==
    ASSUME IInv, Idle,
           UNCHANGED <<deletedEntries, nulledEntries, thoughts, screen, thinking,
                       session, fault>>,
           entries' \in Seq(Entry), Len(entries') = Len(entries),
           \A i \in 1..Count : /\ entries'[i].type = entries[i].type
                               /\ entries'[i].open => entries[i].open,
           todo' \in Seq(StepType), todo' # <<>>, Planned(todo'),
           \/ Head(todo').do \in {"create", "update"}
           \/ Head(todo').do = "append" /\ todo'[2].do = "update",
           Count + Cardinality(Creating(todo')) <= MaxEntries,
           \A i \in DOMAIN todo' :
              todo'[i].do = "create" /\ todo'[i].what = "Response" =>
                 i = 1 /\ Open = {},
           asking' \in BOOLEAN, asking' = asking \/ Head(todo').do = "create"
    PROVE  IInv'
<1> USE DEF IInv, screen, session
<1>1. /\ Count \in Nat /\ Len(entries) = Count /\ DOMAIN entries = 1..Count
      /\ \A i \in 1..Count : entries[i] \in Entry
      /\ deletedEntries \in Nat /\ deletedEntries <= Count
      /\ Len(segments) \in Nat
      /\ segmentsDeleted \in Nat /\ segmentsDeleted <= Len(segments)
  BY Facts
<1>2. Count' = Count /\ window /\ todo = <<>> /\ fault = "none"
  BY <1>1 DEF Count, Idle
<1>3. TypeOK'
  BY <1>1, <1>2 DEF TypeOK
<1>4. ~Building /\ ~Pending /\ ~Building' /\ ~Pending'
  BY <1>2 DEF Building, Pending
<1>5. Alive' = Alive /\ LiveSegments' = LiveSegments /\ Displayed' = Displayed
  BY <1>1, <1>2, <1>4 DEF Alive, LiveSegments, Displayed
<1>6. Open' \subseteq Open
  BY <1>1, <1>2 DEF Open
<1>7. Handling'
  <2>1. RoomFor(todo)'
    BY <1>2 DEF RoomFor, Creating
  <2> QED
    BY <1>6, <2>1 DEF Handling
<1>8. InStep'
  BY <1>5 DEF InStep
<1>9. Newest'
  BY <1>1, <1>2, <1>4, <1>5 DEF Newest
<1>10. Lasting'
  BY <1>2 DEF Lasting
<1>11. LoneThought'
  BY <1>1, <1>2, <1>4, <1>5 DEF LoneThought, Displayed, Alive
<1>12. Drift'
  BY <1>2, <1>4, <1>5 DEF Drift, Length
<1>13. OneOpen'
  BY <1>6 DEF OneOpen
<1>14. IsIdle => IsIdle'
  <2>1. CASE Count = deletedEntries
    BY <1>2, <2>1 DEF IsIdle, Nonempty
  <2>2. CASE Count # deletedEntries
    <3>1. Count \in 1..Count
      BY <1>1, <2>2
    <3>2. Last'.type = Last.type /\ (Last'.open => Last.open)
      BY <1>2, <3>1 DEF Last
    <3> QED
      BY <1>2, <3>2 DEF IsIdle, Nonempty
  <2> QED
    BY <2>1, <2>2
<1>15. Busy'
  BY <1>4, <1>14 DEF Busy
<1>16. Opened'
  BY <1>2 DEF Opened
<1>17. Died'
  BY <1>2 DEF Died
<1> QED
  BY <1>3, <1>7, <1>8, <1>9, <1>10, <1>11, <1>12, <1>13, <1>15, <1>16, <1>17

\* conversation_complete_response() keeps what the entries are.
LEMMA CompletedFacts ==
    ASSUME TypeOK
    PROVE  /\ Completed \in Seq(Entry)
           /\ Len(Completed) = Len(entries)
           /\ \A i \in 1..Count : /\ Completed[i].type = entries[i].type
                                  /\ Completed[i].open => entries[i].open
<1>1. /\ Count \in Nat /\ Len(entries) = Count /\ DOMAIN entries = 1..Count
      /\ \A i \in 1..Count : entries[i] \in Entry
  BY Facts
<1>2. Completed = [i \in 1..Count |->
                     [entries[i] EXCEPT !.open = @ /\ ~LastOpen(i)]]
  BY <1>1 DEF Completed
<1>3. ASSUME NEW i \in 1..Count
      PROVE  /\ Completed[i] \in Entry
             /\ Completed[i].type = entries[i].type
             /\ Completed[i].open => entries[i].open
  <2>1. entries[i] \in Entry
    BY <1>1
  <2>2. Completed[i] = [entries[i] EXCEPT !.open = @ /\ ~LastOpen(i)]
    BY <1>2
  <2>3. entries[i].type \in EntryType /\ entries[i].open \in BOOLEAN
    BY <2>1 DEF Entry
  <2>4. entries[i] = [type |-> entries[i].type, open |-> entries[i].open]
    BY <2>1 DEF Entry
  <2>5. Completed[i] = [type |-> entries[i].type,
                        open |-> entries[i].open /\ ~LastOpen(i)]
    BY <2>1, <2>2, <2>4 DEF Entry
  <2> HIDE DEF LastOpen
  <2>6. (entries[i].open /\ ~LastOpen(i)) \in BOOLEAN
    OBVIOUS
  <2> QED
    BY <2>3, <2>5, <2>6 DEF Entry
<1>4. Completed \in [1..Count -> Entry]
  BY <1>2, <1>3
<1>5. Completed \in Seq(Entry) /\ Len(Completed) = Count
  BY <1>1, <1>4
<1> QED
  BY <1>1, <1>3, <1>5

\* A plan that begins with the step first and creates entries of the kinds.
PlanOf(p, first, kinds) ==
    /\ p \in Seq(StepType) /\ p # <<>>
    /\ Planned(p)
    /\ p[1].do = first
    /\ \A i \in 1..Len(p) : p[i].do = "create" => p[i].what \in kinds

\* CHAT_DONE: nothing but an update of the window.
LEMMA UpdateAlone == PlanOf(<<Do("update")>>, "update", {})
<1> DEFINE p == <<Do("update")>>
<1>1. /\ p \in Seq(StepType) /\ p # <<>> /\ Len(p) = 1
      /\ p[1].do = "update"
  BY DEF Do, StepType, EntryType
<1> HIDE DEF p
<1>2. Len(p) - 1 = 0 /\ 1..0 = {} /\ 1..Len(p) = {1}
  BY <1>1
<1>3. Planned(p)
  BY <1>1, <1>2 DEF Planned
<1>4. PlanOf(p, "update", {})
  BY <1>1, <1>2, <1>3 DEF PlanOf
<1> QED
  BY <1>4 DEF p

\* CHAT, to the open response.
LEMMA AppendUpdate ==
    /\ PlanOf(<<Do("append"), Do("update")>>, "append", {})
    /\ <<Do("append"), Do("update")>>[2].do = "update"
<1> DEFINE p == <<Do("append"), Do("update")>>
<1>1. /\ p \in Seq(StepType) /\ p # <<>> /\ Len(p) = 2
      /\ p[1].do = "append" /\ p[2].do = "update"
  BY DEF Do, StepType, EntryType
<1> HIDE DEF p
<1>2. Len(p) - 1 = 1 /\ 1..1 = {1} /\ 1..Len(p) = {1, 2} /\ 1 + 1 = 2
  BY <1>1
<1>3. Follows(p[1], p[2])
  BY <1>1 DEF Follows
<1>4. Planned(p)
  BY <1>1, <1>2, <1>3 DEF Planned
<1>5. PlanOf(p, "append", {})
  BY <1>1, <1>2, <1>4 DEF PlanOf
<1> QED
  BY <1>1, <1>5 DEF p

\* Build() is a plan for one entry.
LEMMA BuildAlone ==
    ASSUME NEW kind \in Kind
    PROVE  /\ PlanOf(Build(kind), "create", {kind})
           /\ \A i \in 1..Len(Build(kind)) : i # 1 => Build(kind)[i].do # "create"
<1>1. /\ Build(kind) \in Seq(StepType) /\ Build(kind) # <<>>
      /\ Planned(Build(kind))
      /\ Build(kind)[1] = [do |-> "create", what |-> kind]
      /\ \A i \in 1..Len(Build(kind)) : i # 1 => Build(kind)[i].do # "create"
  BY BuildPlanned
<1>2. Build(kind)[1].do = "create" /\ Build(kind)[1].what = kind
  BY <1>1
<1>3. \A i \in 1..Len(Build(kind)) :
         Build(kind)[i].do = "create" => Build(kind)[i].what \in {kind}
  BY <1>1, <1>2
<1> QED
  BY <1>1, <1>2, <1>3 DEF PlanOf

\* Build() may stand behind another plan.
LEMMA BuildBehind ==
    ASSUME NEW kind \in Kind, NEW p, NEW first, NEW kinds, PlanOf(p, first, kinds)
    PROVE  PlanOf(p \o Build(kind), first, kinds \union {kind})
<1> DEFINE q == Build(kind)
           r == p \o q
<1>1. /\ q \in Seq(StepType) /\ q # <<>> /\ Planned(q) /\ q[1].do = "create"
      /\ \A i \in 1..Len(q) : q[i].do # "update"
  <2>1. q[1] = [do |-> "create", what |-> kind]
    BY BuildPlanned
  <2>2. q[1].do = "create"
    BY <2>1
  <2> QED
    BY <2>2, BuildPlanned
<1>2. \A i \in 1..Len(q) : q[i].do = "create" => q[i].what = kind
  BY BuildAlone DEF PlanOf
<1>3. /\ p \in Seq(StepType) /\ p # <<>> /\ Planned(p) /\ p[1].do = first
      /\ \A i \in 1..Len(p) : p[i].do = "create" => p[i].what \in kinds
  BY DEF PlanOf
<1> HIDE DEF q
<1>4. /\ r \in Seq(StepType) /\ r # <<>>
      /\ r[1] = p[1]
      /\ Planned(r)
      /\ \A i \in 1..Len(r) : \/ i \in 1..Len(p) /\ r[i] = p[i]
                              \/ \E j \in 1..Len(q) : r[i] = q[j]
  BY <1>1, <1>3, PlannedConcat
<1> HIDE DEF r
<1>5. \A i \in 1..Len(r) : r[i].do = "create" => r[i].what \in kinds \union {kind}
  BY <1>2, <1>3, <1>4
<1>6. PlanOf(r, first, kinds \union {kind})
  BY <1>3, <1>4, <1>5 DEF PlanOf
<1> QED
  BY <1>6 DEF r, q

\* Messages of any kind begin a handler.
LEMMA ReceiveStep ==
    ASSUME IInv, NEW steps, NEW new, NEW first, NEW kinds, Receive(new, steps),
           new = entries \/ new = Completed,
           PlanOf(steps, first, kinds),
           first \in {"create", "update"} \/ (first = "append" /\ steps[2].do = "update"),
           \/ "Response" \notin kinds
           \/ /\ Open = {}
              /\ \A i \in 1..Len(steps) : i # 1 => steps[i].do # "create"
    PROVE  IInv'
<1>1. /\ Idle /\ RoomFor(steps) /\ entries' = new /\ todo' = steps
      /\ UNCHANGED <<deletedEntries, nulledEntries, thoughts, screen, thinking,
                     session, fault>>
      /\ asking' = asking
  BY DEF Receive
<1>2. TypeOK /\ todo = <<>> /\ window
  BY DEF IInv, Idle, Receive
<1>3. /\ entries' \in Seq(Entry) /\ Len(entries') = Len(entries)
      /\ \A i \in 1..Count : /\ entries'[i].type = entries[i].type
                             /\ entries'[i].open => entries[i].open
  BY <1>1, <1>2, CompletedFacts DEF TypeOK
<1>4. /\ todo' \in Seq(StepType) /\ todo' # <<>> /\ Planned(todo')
      /\ todo'[1].do = first /\ Head(todo') = todo'[1]
      /\ DOMAIN todo' = 1..Len(todo')
  BY <1>1 DEF PlanOf
<1>5. Count + Cardinality(Creating(todo')) <= MaxEntries
  BY <1>1 DEF RoomFor, Creating
<1>6. \A i \in DOMAIN todo' :
         todo'[i].do = "create" /\ todo'[i].what = "Response" =>
            i = 1 /\ Open = {}
  BY <1>1, <1>4 DEF PlanOf
<1>7. asking \in BOOLEAN
  BY <1>2 DEF TypeOK
<1>8. first = "create" \/ first = "update" \/ first = "append"
  OBVIOUS
<1> QED
  BY <1>1, <1>2, <1>3, <1>4, <1>5, <1>6, <1>7, <1>8, HandlerStep DEF PlanOf

\* Every message of the phone begins such a handler.
LEMMA MessageStep ==
    ASSUME IInv, Message
    PROVE  IInv'
<1>0. /\ "Response" \in Kind /\ "Thought" \in Kind /\ "Error" \in Kind
      /\ "Widget" \in Kind /\ "Action" \in Kind /\ "LocalWidget" \in Kind
  BY DEF Kind
<1>1. ASSUME Chat PROVE IInv'
  <2>1. ASSUME Open # {}, Receive(entries, <<Do("append"), Do("update")>>)
        PROVE  IInv'
    BY <2>1, AppendUpdate, ReceiveStep
  <2>2. ASSUME Open = {}, Receive(entries, Build("Response")) PROVE IInv'
    BY <1>0, <2>2, BuildAlone, ReceiveStep
  <2> QED
    BY <1>1, <2>1, <2>2 DEF Chat
<1>2. ASSUME NEW kind \in {"Thought", "Error", "Widget"},
             Receive(Completed, <<Do("update")>> \o Build(kind))
      PROVE  IInv'
  <2>1. PlanOf(<<Do("update")>> \o Build(kind), "update", {} \union {kind})
    BY <1>0, UpdateAlone, BuildBehind
  <2> QED
    BY <1>2, <2>1, ReceiveStep
<1>3. ASSUME ChatDone PROVE IInv'
  BY <1>3, UpdateAlone, ReceiveStep DEF ChatDone
<1>4. ASSUME NEW errors \in {1, 2}, Close(errors) PROVE IInv'
  <2>1. ASSUME Receive(Completed, Build("Error")) PROVE IInv'
    BY <1>0, <2>1, BuildAlone, ReceiveStep
  <2>2. ASSUME Receive(Completed, Build("Error") \o Build("Error")) PROVE IInv'
    <3>1. PlanOf(Build("Error") \o Build("Error"), "create",
                 {"Error"} \union {"Error"})
      BY <1>0, BuildAlone, BuildBehind
    <3> QED
      BY <2>2, <3>1, ReceiveStep
  <2> QED
    BY <1>4, <2>1, <2>2 DEF Close
<1>5. ASSUME NEW kind \in {"Action", "LocalWidget", "Error"},
             Receive(entries, Build(kind))
      PROVE  IInv'
  BY <1>0, <1>5, BuildAlone, ReceiveStep
<1> QED
  BY <1>1, <1>2, <1>3, <1>4, <1>5
     DEF Message, Function, Warning, WidgetReceived, ActionTaken, TimerSet,
         OutboxFailed

\* conversation_manager_add_input() begins one too.
LEMMA PromptStep ==
    ASSUME IInv, Prompt
    PROVE  IInv'
<1>1. PICK steps \in {Build("Prompt"), Build("Prompt") \o Build("Error")} :
         RoomFor(steps) /\ todo' = steps
  BY DEF Prompt
<1>2. \E kinds \in {{"Prompt"}, {"Prompt"} \union {"Error"}} :
         PlanOf(steps, "create", kinds)
  <2>1. "Prompt" \in Kind /\ "Error" \in Kind
    BY DEF Kind
  <2>2. PlanOf(Build("Prompt"), "create", {"Prompt"})
    BY <2>1, BuildAlone
  <2>3. PlanOf(Build("Prompt") \o Build("Error"), "create",
               {"Prompt"} \union {"Error"})
    BY <2>1, <2>2, BuildBehind
  <2> QED
    BY <2>2, <2>3
<1>3. /\ Idle /\ TypeOK /\ asking' = FALSE
      /\ UNCHANGED <<entries, deletedEntries, nulledEntries, thoughts, screen,
                     thinking, session, fault>>
  BY DEF Prompt, IInv, conversation
<1>4. /\ todo' \in Seq(StepType) /\ todo' # <<>> /\ Planned(todo')
      /\ todo'[1].do = "create" /\ Head(todo') = todo'[1]
      /\ DOMAIN todo' = 1..Len(todo')
      /\ \A i \in 1..Len(todo') : todo'[i].do = "create" => todo'[i].what # "Response"
  BY <1>1, <1>2 DEF PlanOf
<1>5. Count + Cardinality(Creating(todo')) <= MaxEntries
  BY <1>1 DEF RoomFor, Creating
<1>6. entries' \in Seq(Entry) /\ Len(entries') = Len(entries)
  BY <1>3 DEF TypeOK
<1> QED
  BY <1>3, <1>4, <1>5, <1>6, HandlerStep

\* Nothing but the flags changes: what is asked, and what the app died of.
LEMMA FlagStep ==
    ASSUME IInv, fault = "none",
           UNCHANGED <<conversation, screen, thinking, todo, window, windows,
                       stale>>,
           asking' \in BOOLEAN, spared' \in BOOLEAN,
           spared' => window, spared => spared',
           Count = 0 /\ window => asking' = asking \/ spared',
           \/ fault' \in {"none", "freed_manager"}
           \/ fault' = "no_segment" /\ thoughts >= 2
           \/ fault' = "no_newest" /\ (thoughts >= 2 \/ spared')
    PROVE  IInv'
<1> USE DEF IInv, conversation, screen, session
<1>1. Count' = Count
  BY DEF Count
<1>2. Building' = Building /\ Pending' = Pending /\ Alive' = Alive /\ Open' = Open
  BY <1>1 DEF Building, Pending, Alive, Open
<1>3. Displayed' = Displayed /\ LiveSegments' = LiveSegments
  BY <1>1, <1>2 DEF Displayed, LiveSegments
<1>4. TypeOK'
  BY <1>1 DEF TypeOK
<1>5. Handling'
  BY <1>1, <1>2 DEF Handling, RoomFor
<1>6. InStep' /\ OneOpen'
  BY <1>2, <1>3 DEF InStep, OneOpen
<1>7. Newest' /\ Lasting' /\ LoneThought'
  BY <1>1, <1>2, <1>3 DEF Newest, Lasting, LoneThought, Last
<1>8. Drift'
  BY <1>1, <1>2 DEF Drift, Length
<1>9. Busy'
  BY <1>1, <1>2 DEF Busy, IsIdle, Nonempty, Last
<1>10. Opened'
  BY <1>1 DEF Opened
<1>11. Died'
  BY <1>1 DEF Died
<1> QED
  BY <1>4, <1>5, <1>6, <1>7, <1>8, <1>9, <1>10, <1>11

\* An empty conversation, of a window that was opened or closed.
LEMMA EmptyStep ==
    ASSUME IInv, fault = "none", todo = <<>>,
           entries' = <<>>, deletedEntries' = 0, nulledEntries' = 0,
           thoughts' = 0, segments' = <<>>, segmentsDeleted' = 0,
           thinking' \in BOOLEAN, stale' \in BOOLEAN, spared' = FALSE,
           UNCHANGED <<todo, fault>>,
           window' \in BOOLEAN, asking' = window', windows' \in 0..MaxWindows
    PROVE  IInv'
<1> USE DEF IInv
<1>1. Count' = 0 /\ MaxEntries \in Nat
  BY ConversationAssumption DEF Count
<1>2. /\ entries' \in Seq(Entry) /\ segments' \in Seq(0..Count')
      /\ Len(segments') = 0
  BY EmptySeq
<1>3. TypeOK'
  <2>1. /\ thinking' \in BOOLEAN /\ asking' \in BOOLEAN /\ window' \in BOOLEAN
        /\ stale' \in BOOLEAN /\ spared' \in BOOLEAN
    BY Zenon
  <2> QED
    BY <1>1, <1>2, <2>1 DEF TypeOK
<1>4. ~Building' /\ ~Pending'
  BY DEF Building, Pending
<1>5. Alive' = {} /\ Open' = {} /\ LiveSegments' = {} /\ Displayed' = {}
  BY <1>1, <1>2, <1>4 DEF Alive, Open, LiveSegments, Displayed
<1>6. RoomFor(todo)'
  <2>1. DOMAIN <<>> = {}
    OBVIOUS
  <2>2. Creating(todo') = {}
    BY <2>1 DEF Creating
  <2> QED
    BY <1>1, <2>2, FS_EmptySet DEF RoomFor, Creating
<1>7. Handling'
  BY <1>6 DEF Handling
<1>8. InStep' /\ OneOpen' /\ LoneThought'
  BY <1>1, <1>2, <1>5 DEF InStep, OneOpen, LoneThought
<1>9. Newest' /\ Lasting'
  BY <1>1, <1>4 DEF Newest, Lasting
<1>10. Drift'
  BY <1>1, <1>4, <1>5, FS_EmptySet DEF Drift, Length
<1>11. Busy'
  BY <1>1 DEF Busy, IsIdle, Nonempty
<1>12. Opened' /\ Died'
  BY <1>1 DEF Opened, Died
<1> QED
  BY <1>3, <1>7, <1>8, <1>9, <1>10, <1>11, <1>12

\* What the user does keeps the invariant: where he finds nothing to press on
\* (LongPress), two thoughts were replaced or the window was spared.
LEMMA UserStep ==
    ASSUME IInv, User
    PROVE  IInv'
<1>1. TypeOK /\ Opened /\ Newest /\ Lasting
  BY DEF IInv
<1>2. /\ 0 \in 0..0 /\ MaxWindows \in Nat /\ windows \in 0..MaxWindows
      /\ thinking \in BOOLEAN /\ stale \in BOOLEAN
  BY <1>1, ConversationAssumption DEF TypeOK
<1>3. ASSUME OpenWindow PROVE IInv'
  <2>1. /\ entries = <<>> /\ segments = <<>> /\ todo = <<>> /\ fault = "none"
        /\ nulledEntries = 0 /\ thoughts = 0 /\ spared = FALSE
    BY <1>1, <1>3 DEF TypeOK, OpenWindow, Opened
  <2>2. Len(entries) = 0 /\ Len(segments) = 0
    BY <2>1
  <2>3. deletedEntries = 0 /\ segmentsDeleted = 0
    BY <1>1, <2>2, Facts
  <2>4. windows' \in 0..MaxWindows
    BY <1>2, <1>3 DEF OpenWindow
  <2>5. /\ UNCHANGED <<conversation, screen, thinking, todo, stale, spared, fault>>
        /\ window' = TRUE /\ asking' = TRUE
    BY <1>3 DEF OpenWindow
  <2> QED
    BY <1>2, <2>1, <2>3, <2>4, <2>5, EmptyStep DEF conversation, screen
<1>4. ASSUME Destroy, Idle PROVE IInv'
  BY <1>2, <1>4, EmptyStep DEF Destroy, Idle
<1>5. ASSUME Select PROVE IInv'
  <2>1. todo = <<>> /\ fault = "none" /\ ~asking /\ asking' = TRUE
    BY <1>5 DEF Select, Idle
  <2>2. Count = 0 /\ window => spared
    BY <1>1, <2>1 DEF Opened
  <2> QED
    BY <1>1, <1>5, <2>1, <2>2, FlagStep DEF Select, session, TypeOK, Idle
<1>6. ASSUME LongPress PROVE IInv'
  <2>1. /\ todo = <<>> /\ fault = "none" /\ ~asking
        /\ asking' = Nonempty
        /\ fault' = IF Nonempty THEN "none" ELSE "no_newest"
        /\ UNCHANGED <<conversation, screen, thinking, todo, session>>
    BY <1>6 DEF LongPress, Idle
  <2>2. (Count = 0 => spared) /\ window
    BY <1>1, <1>6, <2>1 DEF Opened, LongPress, Idle
  <2>3. asking' \in BOOLEAN
    BY <2>1 DEF Nonempty
  <2>4. ~Nonempty => thoughts >= 2 \/ spared
    BY <1>1, <2>2, Facts DEF Lasting, Nonempty
  <2> QED
    BY <1>1, <2>1, <2>2, <2>3, <2>4, FlagStep DEF session, TypeOK
<1>7. ASSUME NoPrompt PROVE IInv'
  <2>1. ASSUME asking' = FALSE, spared' = (spared \/ ~Nonempty),
               UNCHANGED <<conversation, screen, thinking, todo, window, windows,
                           stale, fault>>
        PROVE  IInv'
    <3>1. Count = 0 => ~Nonempty
      BY <1>1, Facts DEF Nonempty
    <3>2. fault = "none" /\ window
      BY <1>7 DEF NoPrompt, Idle
    <3>3. spared \in BOOLEAN /\ spared' \in BOOLEAN
      BY <1>1, <2>1 DEF TypeOK, Nonempty
    <3> QED
      BY <2>1, <3>1, <3>2, <3>3, FlagStep
  <2> QED
    BY <1>4, <1>7, <2>1 DEF NoPrompt
<1> QED
  BY <1>3, <1>4, <1>5, <1>6, <1>7, PromptStep DEF User, CloseWindow

\* The callback of a freed manager is the end.
LEMMA StaleStep ==
    ASSUME IInv, StalePressure
    PROVE  IInv'
<1>1. /\ fault = "none" /\ fault' = "freed_manager"
      /\ UNCHANGED <<conversation, screen, thinking, asking, todo, session>>
  BY DEF StalePressure
<1>2. asking' \in BOOLEAN /\ spared \in BOOLEAN /\ (spared => window)
  BY <1>1 DEF IInv, TypeOK, Opened
<1> QED
  BY <1>1, <1>2, FlagStep DEF session

-----------------------------------------------------------------------------
(* The steps of a handler.                                                 *)

\* prv_create_entry(): from here on the newest entry has no segment, and is no
\* more than nothing if its content is yet to come.
LEMMA CreateStep ==
    ASSUME IInv, Create
    PROVE  IInv'
<1> USE DEF IInv
<1>1. /\ fault = "none" /\ todo # <<>> /\ Head(todo).do = "create"
      /\ todo' = Tail(todo)
      /\ UNCHANGED <<deletedEntries, nulledEntries, thoughts, screen, thinking,
                     asking, session, fault>>
  BY DEF Create, Running
<1>2. /\ Count \in Nat /\ Len(entries) = Count
      /\ \A i \in 1..Count : entries[i] \in Entry
      /\ deletedEntries \in Nat /\ deletedEntries <= Count
      /\ Alive \subseteq 1..Count
      /\ IsFiniteSet(Alive) /\ Cardinality(Alive) \in Nat
      /\ entries \in Seq(Entry) /\ todo \in Seq(StepType)
  BY Facts DEF TypeOK
<1>3. /\ todo' \in Seq(StepType) /\ Planned(todo')
      /\ todo' # <<>> => Follows(Head(todo), Head(todo'))
      /\ Building'
      /\ \A i \in DOMAIN todo' :
            ~(todo'[i].do = "create" /\ todo'[i].what = "Response")
  BY <1>1, BuildingNext
<1>4. todo' # <<>> /\ window
  BY <1>1, <1>3 DEF Building, Opened
<1> DEFINE kind == Head(todo).what
           late == kind \in {"Thought", "Error"}
           new == IF late THEN Destroyed ELSE [type |-> kind, open |-> kind = "Response"]
<1>5. Head(todo) = todo[1] /\ 1 \in DOMAIN todo
  BY <1>1, <1>2, EmptySeq
<1>6. kind \in Kind
  <2>1. 1 \in 1..Len(todo)
    BY <1>2, <1>5
  <2> QED
    BY <1>1, <1>5, <2>1 DEF Handling, Planned
<1>7. new \in Entry /\ new.type = (IF late THEN "Deleted" ELSE kind)
  BY <1>6 DEF Entry, EntryType, Destroyed
<1>8. entries' = Append(entries, new)
  BY DEF Create
<1>9. new.open = (kind = "Response")
  BY DEF Destroyed
<1>10. late => new = Destroyed
  OBVIOUS
<1>11. "Deleted" \notin Kind
  BY DEF Kind
<1> HIDE DEF new
<1>12. /\ entries' \in Seq(Entry) /\ Len(entries') = Count + 1
       /\ \A i \in 1..Count : entries'[i] = entries[i]
       /\ entries'[Count + 1] = new
  BY <1>2, <1>7, <1>8, AppendProperties
<1>13. Count' = Count + 1
  BY <1>12 DEF Count
<1>14. ~Building /\ ~Pending
  BY <1>1 DEF Building, Pending
<1>15. /\ kind \in Prepared => Head(todo').do = "show"
       /\ kind \notin Prepared => Head(todo').do = "fill" /\ Head(todo').what = kind
  BY <1>1, <1>3, <1>4 DEF Follows
<1>16. Pending' <=> late
  BY <1>4, <1>15 DEF Pending, Prepared
<1>17. Alive' = IF late THEN Alive ELSE Alive \union {Count + 1}
  <2>1. \A i \in (deletedEntries + 1)..(Count + 1) :
           i \in Alive' <=> entries'[i].type # "Deleted"
    BY <1>1, <1>13 DEF Alive
  <2>2. Alive' \subseteq (deletedEntries + 1)..(Count + 1)
    BY <1>1, <1>13 DEF Alive
  <2>3. \A i \in (deletedEntries + 1)..Count : i \in Alive <=> i \in Alive'
    BY <1>2, <1>12, <2>1 DEF Alive
  <2>4. Alive \subseteq (deletedEntries + 1)..Count
    BY DEF Alive
  <2>5. Count + 1 \in Alive' <=> ~late
    BY <1>2, <1>6, <1>7, <1>11, <1>12, <2>1
  <2> HIDE DEF late
  <2>6. \A i \in (deletedEntries + 1)..(Count + 1) :
           i = Count + 1 \/ i \in (deletedEntries + 1)..Count
    BY <1>2
  <2>7. (deletedEntries + 1)..Count \subseteq (deletedEntries + 1)..(Count + 1)
    BY <1>2
  <2>8. Count + 1 \notin Alive
    BY <1>2
  <2>9. CASE late
    <3>1. Count + 1 \notin Alive'
      BY <2>5, <2>9
    <3>2. \A i : i \in Alive' <=> i \in Alive
      BY <2>2, <2>3, <2>4, <2>6, <2>7, <3>1
    <3>3. Alive' = Alive
      BY <3>2, Zenon
    <3> QED
      BY <2>9, <3>3
  <2>10. CASE ~late
    BY <2>2, <2>3, <2>4, <2>5, <2>6, <2>7, <2>8, <2>10
  <2> QED
    BY <2>9, <2>10
<1>18. Displayed' = Displayed /\ Displayed = Alive /\ LiveSegments' = LiveSegments
  <2>1. Count + 1 \notin Alive
    BY <1>2
  <2>2. Displayed' = Alive' \ {Count + 1} /\ Displayed = Alive
    BY <1>3, <1>13, <1>14 DEF Displayed
  <2>3. LiveSegments' = LiveSegments
    BY <1>1 DEF LiveSegments, screen
  <2> QED
    BY <1>17, <2>1, <2>2, <2>3
<1>19. /\ Cardinality(Creating(todo)) \in Nat
       /\ Cardinality(Creating(todo')) \in Nat
       /\ Cardinality(Creating(todo')) = Cardinality(Creating(todo)) - 1
  BY <1>1, <1>2, CreatingTail
<1>20. Count + Cardinality(Creating(todo)) <= MaxEntries /\ MaxEntries \in Nat
  BY ConversationAssumption DEF Handling, RoomFor, Creating
<1>21. TypeOK'
  <2>1. Count' <= MaxEntries
    BY <1>2, <1>13, <1>19, <1>20
  <2>2. segments' \in Seq(0..Count')
    <3>1. 0..Count \subseteq 0..Count'
      BY <1>2, <1>13
    <3>2. segments \in Seq(0..Count) /\ segments' = segments
      BY <1>1 DEF TypeOK, screen
    <3> QED
      BY <3>1, <3>2, SeqMonotonic
  <2>3. deletedEntries' \in 0..Count'
    BY <1>1, <1>2, <1>13
  <2> QED
    BY <1>1, <1>3, <1>12, <2>1, <2>2, <2>3 DEF TypeOK, screen, session
<1>22. Handling'
  <2>1. RoomFor(todo)'
    <3>1. Count' + Cardinality(Creating(todo')) <= MaxEntries
      BY <1>2, <1>13, <1>19, <1>20
    <3> QED
      BY <3>1 DEF RoomFor, Creating
  <2> QED
    BY <1>3, <2>1 DEF Handling
<1>23. InStep'
  BY <1>1, <1>18 DEF InStep, screen
<1>24. Last' = new
  BY <1>12, <1>13 DEF Last
<1>25. Newest'
  BY <1>1, <1>2, <1>7, <1>10, <1>13, <1>15, <1>16, <1>17, <1>24 DEF Newest
<1>26. Lasting'
  BY <1>1, <1>2, <1>13 DEF Lasting
<1>27. LoneThought'
  <2>1. \A i \in Displayed : entries'[i] = entries[i]
    BY <1>2, <1>12, <1>18
  <2>2. \A i \in Displayed : entries[i].type = "Thought" => i = Count
    BY <1>14 DEF LoneThought
  <2>3. Head(todo').do # "display" /\ Count' - 1 = Count
    BY <1>2, <1>13, <1>15
  <2> QED
    BY <1>3, <1>18, <2>1, <2>2, <2>3 DEF LoneThought
<1>28. Drift'
  <2>1. Cardinality(Alive') = IF late THEN Cardinality(Alive) ELSE Cardinality(Alive) + 1
    <3>1. Count + 1 \notin Alive
      BY <1>2
    <3> HIDE DEF late
    <3> QED
      BY <1>2, <1>17, <3>1, FS_AddElement
  <2>2. Length' = Length + 1
    BY <1>1, <1>2, <1>13 DEF Length, TypeOK
  <2>3. Length = Cardinality(Alive) + thoughts
    BY <1>2, <1>14 DEF Drift, TypeOK
  <2>4. Cardinality(Alive) \in Nat /\ thoughts' = thoughts /\ thoughts \in Nat
    BY <1>1, <1>2 DEF TypeOK
  <2> HIDE DEF late
  <2> QED
    BY <1>16, <2>1, <2>2, <2>3, <2>4 DEF Drift
<1>29. OneOpen'
  <2>1. kind = "Response" => Open = {}
    BY <1>1, <1>5 DEF Handling
  <2>2. Open' \subseteq Open \union {Count + 1}
    BY <1>1, <1>2, <1>12, <1>13 DEF Open
  <2>3. Count + 1 \in Open' => kind = "Response"
    BY <1>9, <1>12, <1>13 DEF Open
  <2> QED
    BY <2>1, <2>2, <2>3 DEF OneOpen
<1>30. Busy' /\ Opened' /\ Died'
  BY <1>1, <1>2, <1>3, <1>4, <1>13 DEF Busy, Opened, Died, session
<1> QED
  BY <1>21, <1>22, <1>23, <1>25, <1>26, <1>27, <1>28, <1>29, <1>30

\* The content of the newest entry is there.
LEMMA FillStep ==
    ASSUME IInv, Fill
    PROVE  IInv'
<1> USE DEF IInv
<1>1. /\ fault = "none" /\ todo # <<>> /\ Head(todo).do = "fill"
      /\ todo' = Tail(todo)
      /\ UNCHANGED <<deletedEntries, nulledEntries, thoughts, screen, thinking,
                     asking, session, fault>>
  BY DEF Fill, Running
<1>2. /\ Count \in Nat /\ Len(entries) = Count
      /\ \A i \in 1..Count : entries[i] \in Entry
      /\ deletedEntries \in Nat /\ deletedEntries <= Count
      /\ Alive \subseteq 1..Count
      /\ IsFiniteSet(Alive) /\ Cardinality(Alive) \in Nat
      /\ entries \in Seq(Entry) /\ todo \in Seq(StepType)
  BY Facts DEF TypeOK
<1>3. /\ todo' \in Seq(StepType) /\ Planned(todo')
      /\ todo' # <<>> => Follows(Head(todo), Head(todo')) /\ Head(todo').do # "fill"
      /\ Building' /\ ~Pending'
      /\ \A i \in DOMAIN todo' :
            ~(todo'[i].do = "create" /\ todo'[i].what = "Response")
  BY <1>1, BuildingNext
<1>4. todo' # <<>> /\ window /\ Building
  BY <1>1, <1>3 DEF Building, Opened
<1>5. Count > deletedEntries /\ Count \in 1..Count
  BY <1>2, <1>4 DEF Newest
<1> DEFINE kind == Head(todo).what
           new == [entries[Count] EXCEPT !.type = kind]
<1>6. kind \in Kind
  <2>1. Head(todo) = todo[1] /\ 1 \in 1..Len(todo)
    BY <1>1, <1>2, EmptySeq
  <2> QED
    BY <1>1, <2>1 DEF Handling, Planned
<1>7. /\ new \in Entry /\ new.type = kind
      /\ new.open = entries[Count].open
      /\ kind # "Deleted"
  BY <1>2, <1>5, <1>6 DEF Entry, EntryType, Kind
<1>8. entries' = [entries EXCEPT ![Count] = new]
  BY DEF Fill
<1> HIDE DEF new
<1>9. /\ entries' \in Seq(Entry) /\ Len(entries') = Count
      /\ \A i \in 1..Count : entries'[i] = IF i = Count THEN new ELSE entries[i]
  BY <1>2, <1>5, <1>7, <1>8, ExceptSeq
<1>10. Count' = Count
  BY <1>9 DEF Count
<1>11. Last' = new /\ Last = entries[Count]
  BY <1>5, <1>9, <1>10 DEF Last
<1>12. /\ Pending => Last = Destroyed /\ kind \in {"Thought", "Error"}
       /\ ~Pending => Last.type = kind
  BY <1>1 DEF Newest, Pending
<1>13. Alive' = Alive \union {Count}
  BY <1>1, <1>2, <1>5, <1>7, <1>9, <1>10 DEF Alive
<1>14. Displayed' = Displayed /\ LiveSegments' = LiveSegments /\ Displayed = Alive \ {Count}
  BY <1>1, <1>3, <1>4, <1>10, <1>13 DEF Displayed, LiveSegments, screen
<1>15. Open' = Open
  <2>1. \A i \in 1..Count : i # Count => entries'[i] = entries[i]
    BY <1>9
  <2>2. (new.type = "Response" /\ new.open) <=>
           (entries[Count].type = "Response" /\ entries[Count].open)
    BY <1>7, <1>11, <1>12 DEF Destroyed
  <2> QED
    BY <1>1, <1>2, <1>5, <1>9, <1>10, <2>1, <2>2 DEF Open
<1>16. TypeOK'
  BY <1>1, <1>3, <1>9, <1>10 DEF TypeOK, screen, session
<1>17. Handling'
  <2>1. /\ Cardinality(Creating(todo')) = Cardinality(Creating(todo))
    BY <1>1, <1>2, CreatingTail
  <2>2. RoomFor(todo)'
    BY <1>10, <2>1 DEF RoomFor, Creating, Handling
  <2> QED
    BY <1>3, <2>2 DEF Handling
<1>18. InStep' /\ OneOpen'
  BY <1>1, <1>14, <1>15 DEF InStep, OneOpen, screen
<1>19. Newest' /\ Lasting'
  BY <1>1, <1>3, <1>5, <1>10, <1>13 DEF Newest, Lasting
<1>20. LoneThought'
  <2>1. \A i \in Displayed : entries'[i] = entries[i]
    BY <1>2, <1>9, <1>14
  <2>2. Head(todo').do # "display"
    BY <1>1, <1>3, <1>4 DEF Follows
  <2> QED
    BY <1>3, <1>4, <1>10, <1>14, <2>1, <2>2 DEF LoneThought
<1>21. Drift'
  <2>1. Pending => Count \notin Alive
    BY <1>11, <1>12 DEF Alive, Destroyed
  <2>2. ~Pending => Count \in Alive
    BY <1>5 DEF Newest
  <2>3. Cardinality(Alive') = IF Pending THEN Cardinality(Alive) + 1 ELSE Cardinality(Alive)
    BY <1>2, <1>13, <2>1, <2>2, FS_AddElement
  <2>4. Length' = Length /\ thoughts' = thoughts /\ thoughts \in Nat
    BY <1>1, <1>10 DEF Length, TypeOK
  <2> QED
    BY <1>2, <1>3, <2>3, <2>4 DEF Drift
<1>22. Busy' /\ Opened' /\ Died'
  BY <1>1, <1>3, <1>4, <1>5, <1>10 DEF Busy, Opened, Died, session
<1> QED
  BY <1>16, <1>17, <1>18, <1>19, <1>20, <1>21, <1>22

\* Steps that change neither the entries nor the segments.
LEMMA TodoStep ==
    ASSUME IInv, fault = "none", todo # <<>>, Head(todo).do \in {"append", "update"},
           todo' = Tail(todo), thinking' \in BOOLEAN,
           UNCHANGED <<conversation, screen, asking, session, fault>>,
           ~Building' /\ ~IsIdle => thinking'
    PROVE  IInv'
<1> USE DEF IInv, conversation, screen, session
<1>1. Count' = Count /\ todo \in Seq(StepType)
  BY DEF Count, TypeOK
<1>2. /\ todo' \in Seq(StepType) /\ Planned(todo')
      /\ todo' # <<>> => Follows(Head(todo), Head(todo')) /\ Head(todo').do # "fill"
      /\ Building' <=> Building
      /\ ~Pending'
      /\ \A i \in DOMAIN todo' :
            ~(todo'[i].do = "create" /\ todo'[i].what = "Response")
  <2>1. Head(todo).do = "update" => ~Building
    BY DEF Building
  <2> QED
    BY <2>1, BuildingNext
<1>3. ~Pending
  BY DEF Pending
<1>4. /\ Alive' = Alive /\ Open' = Open /\ LiveSegments' = LiveSegments
      /\ Displayed' = Displayed
  BY <1>1, <1>2 DEF Alive, Open, LiveSegments, Displayed
<1>5. TypeOK'
  BY <1>1, <1>2 DEF TypeOK
<1>6. Handling'
  <2>1. Cardinality(Creating(todo')) = Cardinality(Creating(todo))
    BY <1>1, CreatingTail
  <2>2. RoomFor(todo)'
    BY <1>1, <2>1 DEF RoomFor, Creating, Handling
  <2> QED
    BY <1>2, <2>2 DEF Handling
<1>7. InStep' /\ OneOpen'
  BY <1>4 DEF InStep, OneOpen
<1>8. Newest' /\ Lasting'
  BY <1>1, <1>2, <1>3, <1>4 DEF Newest, Lasting
<1>9. LoneThought'
  <2>1. Building' => Head(todo').do # "display"
    BY <1>2 DEF Building, Follows
  <2> QED
    BY <1>1, <1>2, <1>4, <2>1 DEF LoneThought
<1>10. Drift'
  BY <1>1, <1>2, <1>3, <1>4 DEF Drift, Length
<1>11. Busy'
  BY <1>1 DEF Busy, IsIdle, Nonempty, Last
<1>12. Opened' /\ Died'
  BY <1>1 DEF Opened, Died
<1> QED
  BY <1>5, <1>6, <1>7, <1>8, <1>9, <1>10, <1>11, <1>12

\* The window is made to look busy whenever the user may not speak.
LEMMA BusyIsVisible ==
    ASSUME TypeOK, Newest, ~Pending, ~IsIdle
    PROVE  Visible
<1>1. Nonempty /\ Count > deletedEntries
  BY Facts DEF IsIdle, Nonempty
<1>2. Count \in Alive /\ Count \in 1..Count
  BY <1>1, Facts DEF Newest
<1>3. Last \in Entry /\ Last.type # "Deleted"
  BY <1>2, Facts DEF Alive, Last
<1>4. /\ Last.type \in {"Prompt", "Response", "Thought", "Action", "Error", "Widget",
                        "LocalWidget"}
      /\ Last.open \in BOOLEAN
  BY <1>3 DEF Entry, EntryType, Kind
<1> HIDE DEF Last
<1> QED
  BY <1>1, <1>4 DEF IsIdle, Visible

\* A fragment is appended.
LEMMA AppendStep ==
    ASSUME IInv, AppendFragment
    PROVE  IInv'
<1>1. /\ fault = "none" /\ todo # <<>> /\ Head(todo).do = "append"
      /\ todo' = Tail(todo)
      /\ UNCHANGED <<conversation, screen, thinking, asking, session, fault>>
  BY DEF AppendFragment, Running
<1>2. TypeOK /\ Handling /\ Busy
  BY DEF IInv
<1>3. Building' <=> Building
  BY <1>1, <1>2, BuildingNext
<1>4. thinking' = thinking /\ thinking \in BOOLEAN
  BY <1>1, <1>2 DEF TypeOK
<1>5. ~Building' /\ ~IsIdle => thinking'
  BY <1>2, <1>3, <1>4 DEF Busy
<1> QED
  BY <1>1, <1>4, <1>5, TodoStep

\* The window updates its thinking layer.
LEMMA UpdateStep ==
    ASSUME IInv, Update
    PROVE  IInv'
<1>1. /\ fault = "none" /\ todo # <<>> /\ Head(todo).do = "update"
      /\ todo' = Tail(todo)
      /\ UNCHANGED <<conversation, screen, asking, session, fault>>
      /\ thinking' = IF Len(segments) > segmentsDeleted THEN Visible ELSE thinking
  BY DEF Update, Running
<1>2. TypeOK /\ Newest /\ InStep /\ Handling
  BY DEF IInv
<1>3. ~Building /\ ~Pending
  BY <1>1 DEF Building, Pending
<1>4. thinking' \in BOOLEAN
  BY <1>1, <1>2 DEF TypeOK, Visible
<1>5. ASSUME ~IsIdle PROVE thinking'
  <2>1. Visible
    BY <1>2, <1>3, <1>5, BusyIsVisible
  <2>2. Count \in Alive
    BY <1>2, <1>3, <1>5, Facts DEF Newest, IsIdle, Nonempty
  <2>3. Count \in LiveSegments
    BY <1>2, <1>3, <2>2 DEF InStep, Displayed
  <2>4. Len(segments) > segmentsDeleted
    BY <1>2, <2>3, Facts DEF LiveSegments
  <2> QED
    BY <1>1, <2>1, <2>4
<1> QED
  BY <1>1, <1>4, <1>5, TodoStep

\* The newest entry gets its segment: it comes last, as the entry does.
LEMMA DisplayStep ==
    ASSUME IInv, Display
    PROVE  IInv'
<1> USE DEF IInv
<1>1. /\ fault = "none" /\ todo # <<>> /\ Head(todo).do = "display"
      /\ todo' = Tail(todo)
      /\ segments' = Append(segments, Count)
      /\ thinking' = Visible
      /\ UNCHANGED <<entries, deletedEntries, nulledEntries, thoughts, segmentsDeleted,
                     asking, session, fault>>
  BY DEF Display, Running, conversation
<1>2. /\ Count \in Nat /\ Len(entries) = Count
      /\ deletedEntries \in Nat /\ deletedEntries <= Count
      /\ Len(segments) \in Nat /\ segmentsDeleted \in Nat
      /\ segmentsDeleted <= Len(segments)
      /\ Alive \subseteq 1..Count
      /\ segments \in Seq(0..Count) /\ todo \in Seq(StepType)
  BY Facts DEF TypeOK
<1>3. /\ todo' \in Seq(StepType) /\ Planned(todo')
      /\ todo' # <<>> => Follows(Head(todo), Head(todo')) /\ Head(todo').do # "fill"
      /\ ~Building' /\ ~Pending'
      /\ \A i \in DOMAIN todo' :
            ~(todo'[i].do = "create" /\ todo'[i].what = "Response")
  BY <1>1, BuildingNext
<1>4. Building /\ ~Pending /\ Count' = Count
  BY <1>1 DEF Building, Pending, Count
<1>5. Count > deletedEntries /\ Count \in Alive
  BY <1>4 DEF Newest
<1>6. /\ segments' \in Seq(0..Count) /\ Len(segments') = Len(segments) + 1
      /\ \A i \in 1..Len(segments) : segments'[i] = segments[i]
      /\ segments'[Len(segments) + 1] = Count
  <2>1. Count \in 0..Count
    BY <1>2
  <2> QED
    BY <1>1, <1>2, <2>1, AppendProperties
<1>7. Alive' = Alive /\ Open' = Open
  BY <1>1, <1>4 DEF Alive, Open
<1>8. Displayed = Alive \ {Count} /\ Displayed' = Alive
  BY <1>3, <1>4, <1>7 DEF Displayed
<1>9. LiveSegments' = LiveSegments \union {Count}
  BY <1>1, <1>2, <1>6 DEF LiveSegments
<1>10. TypeOK'
  <2>1. thinking' \in BOOLEAN
    BY <1>1 DEF Visible
  <2> QED
    BY <1>1, <1>2, <1>3, <1>4, <1>6, <2>1 DEF TypeOK, session
<1>11. Handling'
  <2>1. Cardinality(Creating(todo')) = Cardinality(Creating(todo))
    BY <1>1, <1>2, CreatingTail
  <2>2. RoomFor(todo)'
    BY <1>4, <2>1 DEF RoomFor, Creating, Handling
  <2> QED
    BY <1>3, <2>2 DEF Handling
<1>12. InStep'
  <2>1. LiveSegments' = Displayed'
    BY <1>5, <1>8, <1>9 DEF InStep
  <2>2. ASSUME NEW i \in (segmentsDeleted' + 1)..Len(segments'),
               NEW j \in (segmentsDeleted' + 1)..Len(segments'), i < j
        PROVE  segments'[i] < segments'[j]
    <3>1. i \in (segmentsDeleted + 1)..Len(segments) /\ segments'[i] = segments[i]
      BY <1>1, <1>2, <1>6, <2>2
    <3>2. CASE j = Len(segments) + 1
      <4>1. segments[i] \in Alive \ {Count}
        BY <1>8, <3>1 DEF InStep, LiveSegments
      <4>2. segments[i] < Count
        <5>1. segments[i] \in 1..Count /\ segments[i] # Count
          BY <1>2, <4>1
        <5> QED
          BY <1>2, <5>1
      <4> QED
        BY <1>6, <3>1, <3>2, <4>2
    <3>3. CASE j # Len(segments) + 1
      <4>1. j \in (segmentsDeleted + 1)..Len(segments) /\ segments'[j] = segments[j]
        BY <1>1, <1>2, <1>6, <3>3
      <4> QED
        BY <2>2, <3>1, <4>1 DEF InStep
    <3> QED
      BY <3>2, <3>3
  <2> QED
    BY <2>1, <2>2 DEF InStep
<1>13. Newest' /\ Lasting'
  BY <1>1, <1>3, <1>4, <1>5, <1>7 DEF Newest, Lasting
<1>14. LoneThought'
  <2>1. \A i \in Displayed : entries[i].type # "Thought"
    BY <1>1, <1>4 DEF LoneThought
  <2> QED
    BY <1>1, <1>3, <1>4, <1>8, <2>1 DEF LoneThought
<1>15. Drift'
  BY <1>1, <1>3, <1>4, <1>7 DEF Drift, Length
<1>16. OneOpen'
  BY <1>7 DEF OneOpen
<1>17. Busy'
  <2>1. ~IsIdle => Visible
    BY <1>4, BusyIsVisible
  <2> QED
    BY <1>1, <1>4, <2>1 DEF Busy, IsIdle, Nonempty, Last
<1>18. Opened' /\ Died'
  <2>1. window
    BY <1>1 DEF Opened
  <2> QED
    BY <1>1, <1>2, <1>4, <1>5, <2>1 DEF Opened, Died, session
<1> QED
  BY <1>10, <1>11, <1>12, <1>13, <1>14, <1>15, <1>16, <1>17, <1>18

\* The thought that goes is that of the last segment: the segment is dropped from
\* the end by position, the entry is searched for.
LEMMA ShowStep ==
    ASSUME IInv, Show
    PROVE  IInv'
<1> USE DEF IInv
<1>1. /\ fault = "none" /\ todo # <<>> /\ Head(todo).do = "show"
      /\ UNCHANGED <<deletedEntries, nulledEntries, segmentsDeleted, asking,
                     session, fault>>
  BY DEF Show
<1>2. /\ Count \in Nat /\ Len(entries) = Count
      /\ \A i \in 1..Count : entries[i] \in Entry
      /\ deletedEntries \in Nat /\ deletedEntries <= Count
      /\ Len(segments) \in Nat /\ segmentsDeleted \in Nat
      /\ segmentsDeleted <= Len(segments)
      /\ Alive \subseteq 1..Count
      /\ IsFiniteSet(Alive) /\ Cardinality(Alive) \in Nat
      /\ segments \in Seq(0..Count) /\ todo \in Seq(StepType)
      /\ entries \in Seq(Entry)
  BY Facts DEF TypeOK
<1>3. Building /\ ~Pending
  BY <1>1 DEF Building, Pending
<1>4. Count > deletedEntries /\ Count \in Alive /\ Nonempty /\ window
  BY <1>1, <1>2, <1>3 DEF Newest, Nonempty, Opened
<1>5. todo' = Tail(todo)
  BY <1>4 DEF Show
<1>6. /\ todo' \in Seq(StepType) /\ Planned(todo')
      /\ todo' # <<>>
      /\ Building' /\ ~Pending' /\ Head(todo').do = "display"
      /\ \A i \in DOMAIN todo' :
            ~(todo'[i].do = "create" /\ todo'[i].what = "Response")
  <2>1. Building' /\ Head(todo').do = "display"
    BY <1>1, <1>5, BuildingNext
  <2>2. todo' # <<>>
    BY <2>1 DEF Building
  <2> QED
    BY <1>1, <1>5, <2>1, <2>2, BuildingNext
<1>7. Displayed = Alive \ {Count} /\ LiveSegments = Displayed
  BY <1>3 DEF Displayed, InStep
<1>8. Cardinality(Creating(todo')) = Cardinality(Creating(todo))
  BY <1>1, <1>2, <1>5, CreatingTail
<1>9. CASE ~LastSegmentIsThought
  <2>1. UNCHANGED <<segments, thinking, entries, thoughts>>
    BY <1>9 DEF Show
  <2>2. Count' = Count /\ Alive' = Alive /\ Open' = Open /\ LiveSegments' = LiveSegments
    BY <1>1, <2>1 DEF Count, Alive, Open, LiveSegments
  <2>3. Displayed' = Displayed
    BY <1>6, <1>7, <2>2 DEF Displayed
  <2>4. \A i \in Displayed : entries[i].type # "Thought"
    <3>1. ASSUME NEW i \in Displayed, entries[i].type = "Thought" PROVE FALSE
      <4>1. i = Count - 1
        BY <1>3, <3>1 DEF LoneThought
      <4>2. PICK j \in (segmentsDeleted + 1)..Len(segments) : segments[j] = i
        BY <1>7 DEF LiveSegments
      <4>3. Len(segments) \in (segmentsDeleted + 1)..Len(segments)
        BY <1>2
      <4>4. segments[Len(segments)] \in Displayed
        BY <1>7, <4>3 DEF LiveSegments
      <4>5. segments[Len(segments)] <= Count - 1 /\ segments[Len(segments)] \in Nat
        BY <1>2, <1>7, <4>4
      <4>6. j = Len(segments)
        <5>1. j < Len(segments) => segments[j] < segments[Len(segments)]
          BY <4>3 DEF InStep
        <5> QED
          BY <1>2, <4>1, <4>2, <4>5, <5>1
      <4>7. Len(segments) > segmentsDeleted
        BY <1>2, <4>2
      <4> QED
        BY <1>9, <3>1, <4>2, <4>6, <4>7 DEF LastSegmentIsThought
    <3> QED
      BY <3>1
  <2>5. TypeOK'
    BY <1>1, <1>6, <2>1, <2>2 DEF TypeOK, session
  <2>6. RoomFor(todo)'
    BY <1>8, <2>2 DEF RoomFor, Creating, Handling
  <2>7. Handling'
    BY <1>6, <2>6 DEF Handling
  <2>8. InStep' /\ OneOpen'
    BY <1>1, <2>1, <2>2, <2>3 DEF InStep, OneOpen
  <2>9. Newest' /\ Lasting'
    BY <1>1, <1>4, <1>6, <2>2 DEF Newest, Lasting
  <2>10. LoneThought'
    BY <2>1, <2>3, <2>4 DEF LoneThought
  <2>11. Drift'
    BY <1>1, <1>3, <1>6, <2>1, <2>2 DEF Drift, Length
  <2>12. Busy' /\ Opened' /\ Died'
    BY <1>1, <1>2, <1>4, <1>6, <2>2 DEF Busy, Opened, Died, session
  <2> QED
    BY <2>5, <2>7, <2>8, <2>9, <2>10, <2>11, <2>12
<1>10. CASE LastSegmentIsThought
  <2> DEFINE t == Count - 1
             m == Len(segments)
  <2>1. /\ segments' = SubSeq(segments, 1, m - 1)
        /\ thinking' = Visible
        /\ DeleteLastThought
    BY <1>10 DEF Show
  <2>2. m > segmentsDeleted /\ entries[segments[m]].type = "Thought"
    BY <1>10 DEF LastSegmentIsThought
  <2>3. segments[m] = t /\ t \in Displayed /\ entries[t].type = "Thought"
    <3>1. m \in (segmentsDeleted + 1)..m
      BY <1>2, <2>2
    <3>2. segments[m] \in Displayed
      BY <1>7, <3>1 DEF LiveSegments
    <3> QED
      BY <1>3, <2>2, <3>2 DEF LoneThought
  <2>4. t \in (deletedEntries + 1)..(Count - 1) /\ t \in 1..Count /\ t # Count
    BY <1>2, <2>3 DEF Displayed, Alive
  <2>5. entries' = [entries EXCEPT ![t] = Destroyed] /\ thoughts' = thoughts + 1
    <3>1. PICK i \in (deletedEntries + 1)..(Count - 1) :
             /\ entries[i].type = "Thought"
             /\ entries' = [entries EXCEPT ![i] = Destroyed]
             /\ thoughts' = thoughts + 1
      BY <2>1, <2>3, <2>4 DEF DeleteLastThought
    <3>2. i \in Displayed
      BY <1>2, <1>7, <3>1 DEF Alive
    <3>3. i = t
      BY <1>3, <3>1, <3>2 DEF LoneThought
    <3> QED
      BY <3>1, <3>3
  <2> HIDE DEF t, m
  <2>6. Destroyed \in Entry /\ Destroyed.type = "Deleted"
    BY DEF Destroyed, Entry, EntryType
  <2>7. /\ entries' \in Seq(Entry) /\ Len(entries') = Count
        /\ \A i \in 1..Count : entries'[i] = IF i = t THEN Destroyed ELSE entries[i]
    BY <1>2, <2>4, <2>5, <2>6, ExceptSeq
  <2>8. Count' = Count
    BY <2>7 DEF Count
  <2>9. Alive' = Alive \ {t}
    BY <1>1, <1>2, <2>6, <2>7, <2>8 DEF Alive
  <2>10. Open' = Open
    <3>1. \A i \in (deletedEntries + 1)..Count :
             (entries'[i].type = "Response" /\ entries'[i].open)
                <=> (entries[i].type = "Response" /\ entries[i].open)
      BY <1>2, <2>3, <2>6, <2>7
    <3> QED
      BY <1>1, <2>8, <3>1 DEF Open
  <2>11. Displayed' = Displayed \ {t}
    BY <1>6, <1>7, <2>8, <2>9 DEF Displayed
  <2>12. /\ segments' \in Seq(0..Count) /\ Len(segments') = m - 1
         /\ \A i \in 1..m - 1 : segments'[i] = segments[i]
    <3>1. /\ m \in Nat /\ m - 1 \in Nat
          /\ \A i \in 1..m - 1 : segments[i] \in 0..Count
      BY <1>2, <2>2, ElementOfSeq DEF m
    <3>2. /\ segments' \in Seq(0..Count)
          /\ Len(segments') = IF 1 <= m - 1 THEN m - 1 - 1 + 1 ELSE 0
          /\ \A i \in 1..m - 1 - 1 + 1 : segments'[i] = segments[1 + i - 1]
      BY <2>1, <3>1, SubSeqProperties
    <3> QED
      BY <3>1, <3>2
  <2>13. LiveSegments' = LiveSegments \ {t}
    <3>1. LiveSegments' = {segments[i] : i \in (segmentsDeleted + 1)..(m - 1)}
      <4>1. LiveSegments' = {segments'[i] : i \in (segmentsDeleted + 1)..(m - 1)}
        BY <1>1, <2>12 DEF LiveSegments
      <4>2. \A i \in (segmentsDeleted + 1)..(m - 1) : segments'[i] = segments[i]
        BY <1>2, <2>12
      <4> QED
        BY <4>1, <4>2
    <3>2. LiveSegments = {segments[i] : i \in (segmentsDeleted + 1)..m}
      BY DEF LiveSegments, m
    <3>3. /\ m \in Nat
          /\ \A i \in (segmentsDeleted + 1)..m :
                i = m \/ (i \in (segmentsDeleted + 1)..(m - 1) /\ i < m)
          /\ \A i \in (segmentsDeleted + 1)..(m - 1) :
                i \in (segmentsDeleted + 1)..m /\ i < m
          /\ m \in (segmentsDeleted + 1)..m
      BY <1>2, <2>2 DEF m
    <3>4. \A i \in (segmentsDeleted + 1)..(m - 1) : segments[i] # t
      <4>1. ASSUME NEW i \in (segmentsDeleted + 1)..(m - 1) PROVE segments[i] # t
        <5>1. segments[i] < segments[m]
          BY <3>3 DEF InStep, m
        <5>2. t \in Nat
          BY <2>4
        <5> QED
          BY <2>3, <5>1, <5>2
      <4> QED
        BY <4>1
    <3> QED
      BY <2>3, <3>1, <3>2, <3>3, <3>4
  <2>14. TypeOK'
    <3>1. thinking' \in BOOLEAN
      BY <2>1 DEF Visible
    <3>2. segmentsDeleted' \in 0..Len(segments')
      BY <1>1, <1>2, <2>2, <2>12 DEF m
    <3> QED
      BY <1>1, <1>6, <2>5, <2>7, <2>8, <2>12, <3>1, <3>2 DEF TypeOK, session
  <2>15. RoomFor(todo)'
    BY <1>8, <2>8 DEF RoomFor, Creating, Handling
  <2>16. Handling'
    BY <1>6, <2>15 DEF Handling
  <2>17. InStep'
    <3>1. LiveSegments' = Displayed'
      BY <1>7, <2>11, <2>13
    <3>2. ASSUME NEW i \in (segmentsDeleted' + 1)..Len(segments'),
                 NEW j \in (segmentsDeleted' + 1)..Len(segments'), i < j
          PROVE  segments'[i] < segments'[j]
      <4>1. /\ i \in (segmentsDeleted + 1)..Len(segments) /\ segments'[i] = segments[i]
            /\ j \in (segmentsDeleted + 1)..Len(segments) /\ segments'[j] = segments[j]
        <5>1. segmentsDeleted' = segmentsDeleted /\ Len(segments') = m - 1
          BY <1>1, <2>12
        <5>2. /\ i \in 1..m - 1 /\ i \in (segmentsDeleted + 1)..m
              /\ j \in 1..m - 1 /\ j \in (segmentsDeleted + 1)..m
          BY <1>2, <5>1 DEF m
        <5> QED
          BY <2>12, <5>2 DEF m
      <4> QED
        BY <3>2, <4>1 DEF InStep
    <3> QED
      BY <3>1, <3>2 DEF InStep
  <2>18. Newest' /\ Lasting'
    BY <1>1, <1>4, <1>6, <2>4, <2>8, <2>9 DEF Newest, Lasting
  <2>19. LoneThought'
    <3>1. ASSUME NEW i \in Displayed' PROVE entries'[i].type # "Thought"
      <4>1. i \in Displayed /\ i # t /\ i \in 1..Count
        BY <1>2, <1>7, <2>11
      <4>2. entries'[i] = entries[i]
        BY <2>7, <4>1
      <4> QED
        BY <1>3, <4>1, <4>2 DEF LoneThought, t
    <3> QED
      BY <3>1 DEF LoneThought
  <2>20. Drift'
    <3>1. t \in Alive
      BY <1>7, <2>3
    <3>2. Cardinality(Alive') = Cardinality(Alive) - 1
      BY <1>2, <2>9, <3>1, FS_RemoveElement
    <3>3. Length' = Length /\ thoughts \in Nat
      BY <1>1, <2>8 DEF Length, TypeOK
    <3> QED
      BY <1>2, <1>3, <1>6, <2>5, <3>2, <3>3 DEF Drift
  <2>21. OneOpen'
    BY <2>10 DEF OneOpen
  <2>22. Busy' /\ Opened' /\ Died'
    BY <1>1, <1>2, <1>4, <1>6, <2>8 DEF Busy, Opened, Died, session
  <2> QED
    BY <2>14, <2>16, <2>17, <2>18, <2>19, <2>20, <2>21, <2>22
<1> QED
  BY <1>9, <1>10

-----------------------------------------------------------------------------
(* Memory pressure.                                                        *)

\* The first entry alive is the one the first live segment shows.
LEMMA FirstIsFirst ==
    ASSUME IInv, NEW k \in 1..(Count + 1), FirstAlive(k),
           segmentsDeleted # Len(segments)
    PROVE  /\ k = segments[segmentsDeleted + 1]
           /\ k \in Displayed
           /\ k \in Alive
           /\ Building => k < Count
           /\ \A i \in Alive : k <= i
           /\ deletedEntries < k
<1> USE DEF IInv
<1>1. /\ Count \in Nat /\ deletedEntries \in Nat /\ deletedEntries <= Count
      /\ Len(segments) \in Nat /\ segmentsDeleted \in Nat
      /\ segmentsDeleted <= Len(segments)
      /\ Alive \subseteq 1..Count
  BY Facts
<1> DEFINE x == segments[segmentsDeleted + 1]
<1>2. segmentsDeleted + 1 \in (segmentsDeleted + 1)..Len(segments)
  BY <1>1
<1>3. x \in Displayed
  BY <1>2 DEF InStep, LiveSegments
<1>4. x \in Alive /\ x \in 1..Count /\ (Building => x # Count)
  BY <1>1, <1>3 DEF Displayed
<1>5. /\ k \in (deletedEntries + 1)..(Count + 1)
      /\ k <= Count => entries[k].type # "Deleted"
      /\ \A i \in (deletedEntries + 1)..(k - 1) : entries[i].type = "Deleted"
  BY DEF FirstAlive
<1> HIDE DEF x
<1>6. ASSUME NEW i \in Alive PROVE k <= i
  <2>1. i \in (deletedEntries + 1)..Count /\ entries[i].type # "Deleted"
    BY DEF Alive
  <2>2. i \notin (deletedEntries + 1)..(k - 1)
    BY <1>5, <2>1
  <2> QED
    BY <1>1, <2>1, <2>2
<1>7. k <= x
  BY <1>4, <1>6
<1>8. k \in Alive
  BY <1>1, <1>4, <1>5, <1>7 DEF Alive
<1>9. Building => k < Count
  BY <1>1, <1>4, <1>7
<1>10. k \in Displayed
  BY <1>8, <1>9 DEF Displayed
<1>11. PICK j \in (segmentsDeleted + 1)..Len(segments) : segments[j] = k
  BY <1>10 DEF InStep, LiveSegments
<1>12. segmentsDeleted + 1 < j => x < k
  BY <1>2, <1>11 DEF InStep, x
<1>13. j = segmentsDeleted + 1
  BY <1>1, <1>4, <1>7, <1>11, <1>12
<1> QED
  BY <1>1, <1>5, <1>6, <1>8, <1>9, <1>10, <1>11, <1>13

\* prv_handle_memory_pressure(), at whatever allocation.
LEMMA PressureStep ==
    ASSUME IInv, MemoryPressure
    PROVE  IInv'
<1> USE DEF IInv
<1>1. /\ window /\ fault = "none" /\ Length > 2
      /\ UNCHANGED <<thoughts, thinking, asking, todo, session>>
  BY DEF MemoryPressure
<1>2. PICK k \in 1..(Count + 1) :
         /\ FirstAlive(k)
         /\ fault' = FaultOf(k)
         /\ IF fault' \in {"no_segment", "no_entry"}
            THEN UNCHANGED <<entries, deletedEntries, nulledEntries, screen>>
            ELSE /\ segments' = [segments EXCEPT ![segmentsDeleted + 1] = 0]
                 /\ segmentsDeleted' = segmentsDeleted + 1
                 /\ entries' = [entries EXCEPT ![k] = Destroyed]
                 /\ nulledEntries' = nulledEntries - (k - 1 - deletedEntries)
                 /\ deletedEntries' = k
  BY DEF MemoryPressure
<1>3. /\ Count \in Nat /\ Len(entries) = Count
      /\ \A i \in 1..Count : entries[i] \in Entry
      /\ deletedEntries \in Nat /\ deletedEntries <= Count
      /\ Len(segments) \in Nat /\ segmentsDeleted \in Nat
      /\ segmentsDeleted <= Len(segments)
      /\ Alive \subseteq 1..Count
      /\ IsFiniteSet(Alive) /\ Cardinality(Alive) \in Nat
      /\ segments \in Seq(0..Count)
      /\ entries \in Seq(Entry)
      /\ nulledEntries \in Int /\ thoughts \in Nat
  BY Facts DEF TypeOK
<1>4. Length = Cardinality(Alive) + thoughts + (IF Pending THEN 1 ELSE 0)
  BY DEF Drift
<1>5. Pending => Building /\ Count \notin Alive
  BY <1>3 DEF Pending, Building, Newest, Alive, Destroyed, Last
<1>6. CASE segmentsDeleted = Len(segments)
  <2>1. fault' = "no_segment"
    BY <1>2, <1>6 DEF FaultOf
  <2>2. Displayed = {}
    BY <1>3, <1>6 DEF InStep, LiveSegments
  <2>3. thoughts >= 2
    <3>1. CASE Alive = {}
      <4>1. Cardinality(Alive) = 0
        BY <3>1, FS_EmptySet
      <4> QED
        BY <1>1, <1>3, <1>4, <4>1
    <3>2. CASE Alive # {}
      <4>1. Alive = {Count}
        BY <2>2, <3>2 DEF Displayed
      <4>2. Cardinality(Alive) = 1 /\ ~Pending
        BY <1>5, <4>1, FS_Singleton
      <4> QED
        BY <1>1, <1>3, <1>4, <4>2
    <3> QED
      BY <3>1, <3>2
  <2>4. UNCHANGED <<conversation, screen, thinking, todo, session>> /\ asking' = asking
    BY <1>1, <1>2, <2>1 DEF conversation
  <2>5. asking' \in BOOLEAN /\ spared \in BOOLEAN
    BY <2>4 DEF TypeOK
  <2> QED
    BY <1>1, <2>1, <2>3, <2>4, <2>5, FlagStep DEF session
<1>7. CASE segmentsDeleted # Len(segments)
  <2>1. /\ k = segments[segmentsDeleted + 1]
        /\ k \in Displayed /\ k \in Alive
        /\ Building => k < Count
        /\ \A i \in Alive : k <= i
        /\ deletedEntries < k
    BY <1>2, <1>7, FirstIsFirst
  <2>2. k \in 1..Count /\ entries[k].type # "Deleted"
    BY <1>3, <2>1 DEF Alive
  <2>3. /\ fault' \in {"none", "freed_response"}
        /\ fault' = "freed_response" => Appending(k)
    <3>1. ~HalfBuilt(k)
      BY <1>3, <2>1 DEF HalfBuilt, Building
    <3>2. k # Count + 1
      BY <1>3, <2>2
    <3> QED
      BY <1>2, <1>7, <3>1, <3>2 DEF FaultOf
  <2>4. /\ segments' = [segments EXCEPT ![segmentsDeleted + 1] = 0]
        /\ segmentsDeleted' = segmentsDeleted + 1
        /\ entries' = [entries EXCEPT ![k] = Destroyed]
        /\ nulledEntries' = nulledEntries - (k - 1 - deletedEntries)
        /\ deletedEntries' = k
    BY <1>2, <2>3
  <2>5. Destroyed \in Entry /\ Destroyed.type = "Deleted"
    BY DEF Destroyed, Entry, EntryType
  <2>6. /\ entries' \in Seq(Entry) /\ Len(entries') = Count
        /\ \A i \in 1..Count : entries'[i] = IF i = k THEN Destroyed ELSE entries[i]
    BY <1>3, <2>2, <2>4, <2>5, ExceptSeq
  <2>7. Count' = Count
    BY <2>6 DEF Count
  <2>8. /\ segments' \in Seq(0..Count) /\ Len(segments') = Len(segments)
        /\ \A i \in 1..Len(segments) :
              segments'[i] = IF i = segmentsDeleted + 1 THEN 0 ELSE segments[i]
    <3>1. segmentsDeleted + 1 \in 1..Len(segments) /\ 0 \in 0..Count
      BY <1>3, <1>7
    <3> QED
      BY <1>3, <2>4, <3>1, ExceptSeq
  <2>9. Building' = Building /\ Pending' = Pending
    BY <1>1 DEF Building, Pending
  <2>10. Alive' = Alive \ {k}
    <3>1. ASSUME NEW i \in Alive' PROVE i \in Alive /\ i # k
      <4>1. i \in (k + 1)..Count /\ entries'[i].type # "Deleted"
        BY <2>4, <2>7 DEF Alive
      <4>2. i \in 1..Count /\ i # k /\ i \in (deletedEntries + 1)..Count
        BY <1>3, <2>1, <2>2, <4>1
      <4> QED
        BY <2>6, <4>1, <4>2 DEF Alive
    <3>2. ASSUME NEW i \in Alive, i # k PROVE i \in Alive'
      <4>1. i \in 1..Count /\ entries[i].type # "Deleted" /\ k <= i
        BY <1>3, <2>1 DEF Alive
      <4>2. i \in (k + 1)..Count
        BY <1>3, <2>2, <3>2, <4>1
      <4>3. entries'[i].type # "Deleted"
        BY <2>6, <3>2, <4>1
      <4> QED
        BY <2>4, <2>7, <4>2, <4>3 DEF Alive
    <3> QED
      BY <3>1, <3>2
  <2>11. Displayed' = Displayed \ {k}
    BY <2>7, <2>9, <2>10 DEF Displayed
  <2>12. /\ \A i \in (segmentsDeleted' + 1)..Len(segments') :
               /\ i \in (segmentsDeleted + 1)..Len(segments)
               /\ segmentsDeleted + 1 < i
               /\ segments'[i] = segments[i]
         /\ \A i \in (segmentsDeleted + 1)..Len(segments) :
               i # segmentsDeleted + 1 => i \in (segmentsDeleted' + 1)..Len(segments')
    <3>1. \A i \in (segmentsDeleted' + 1)..Len(segments') :
             /\ i \in (segmentsDeleted + 1)..Len(segments)
             /\ i \in 1..Len(segments)
             /\ segmentsDeleted + 1 < i
      BY <1>3, <2>4, <2>8
    <3>2. \A i \in (segmentsDeleted' + 1)..Len(segments') : segments'[i] = segments[i]
      BY <1>3, <2>8, <3>1
    <3>3. \A i \in (segmentsDeleted + 1)..Len(segments) :
             i # segmentsDeleted + 1 => i \in (segmentsDeleted' + 1)..Len(segments')
      BY <1>3, <2>4, <2>8
    <3> QED
      BY <3>1, <3>2, <3>3
  <2>13. LiveSegments' = LiveSegments \ {k}
    <3>1. ASSUME NEW x \in LiveSegments' PROVE x \in LiveSegments /\ x # k
      <4>1. PICK i \in (segmentsDeleted' + 1)..Len(segments') : x = segments'[i]
        BY DEF LiveSegments
      <4>2. /\ i \in (segmentsDeleted + 1)..Len(segments)
            /\ segmentsDeleted + 1 < i
            /\ x = segments[i]
        BY <2>12, <4>1
      <4>3. segments[segmentsDeleted + 1] < segments[i]
        <5>1. segmentsDeleted + 1 \in (segmentsDeleted + 1)..Len(segments)
          BY <1>3, <1>7
        <5> QED
          BY <4>2, <5>1 DEF InStep
      <4> QED
        BY <2>1, <2>2, <4>2, <4>3 DEF LiveSegments
    <3>2. ASSUME NEW x \in LiveSegments, x # k PROVE x \in LiveSegments'
      <4>1. PICK i \in (segmentsDeleted + 1)..Len(segments) : x = segments[i]
        BY DEF LiveSegments
      <4>2. i \in (segmentsDeleted' + 1)..Len(segments')
        BY <2>1, <2>12, <3>2, <4>1
      <4> QED
        BY <2>12, <4>1, <4>2 DEF LiveSegments
    <3> QED
      BY <3>1, <3>2
  <2>14. Open' \subseteq Open
    <3>1. ASSUME NEW i \in Open' PROVE i \in Open
      <4>1. /\ i \in (k + 1)..Count
            /\ entries'[i].type = "Response" /\ entries'[i].open
        BY <2>4, <2>7 DEF Open
      <4>2. i \in 1..Count /\ i # k /\ i \in (deletedEntries + 1)..Count
        BY <1>3, <2>1, <2>2, <4>1
      <4> QED
        BY <2>6, <4>1, <4>2 DEF Open
    <3> QED
      BY <3>1
  <2>15. k = Count => thoughts >= 2
    <3> SUFFICES ASSUME k = Count PROVE thoughts >= 2
      OBVIOUS
    <3>1. ~Building /\ ~Pending
      BY <1>3, <1>5, <2>1
    <3>2. Alive = {Count}
      <4>1. \A i \in Alive : i = Count
        BY <1>3, <2>1
      <4> QED
        BY <2>1, <4>1
    <3>3. Cardinality(Alive) = 1
      BY <3>2, FS_Singleton
    <3> QED
      BY <1>1, <1>3, <1>4, <3>1, <3>3
  <2>16. k # Count => Last' = Last /\ k < Count
    BY <1>3, <2>2, <2>6, <2>7 DEF Last
  <2>17. TypeOK'
    <3>1. segmentsDeleted' \in 0..Len(segments') /\ deletedEntries' \in 0..Count'
      <4>1. deletedEntries' \in 0..Count'
        BY <1>3, <2>2, <2>4, <2>7
      <4>2. segmentsDeleted + 1 \in 0..Len(segments)
        BY <1>3, <1>7
      <4> QED
        BY <2>4, <2>8, <4>1, <4>2
    <3>2. nulledEntries' \in Int
      BY <1>3, <2>2, <2>4
    <3>3. fault' \in {"none", "no_segment", "no_entry", "half_built",
                      "freed_response", "freed_manager", "no_newest"}
      BY <2>3
    <3> QED
      BY <1>1, <2>6, <2>7, <2>8, <3>1, <3>2, <3>3 DEF TypeOK, session
  <2>18. Handling'
    <3>1. RoomFor(todo)'
      BY <1>1, <2>7 DEF RoomFor, Handling
    <3> QED
      BY <1>1, <2>14, <3>1 DEF Handling
  <2>19. InStep'
    <3>1. LiveSegments' = Displayed'
      BY <2>11, <2>13 DEF InStep
    <3>2. ASSUME NEW i \in (segmentsDeleted' + 1)..Len(segments'),
                 NEW j \in (segmentsDeleted' + 1)..Len(segments'), i < j
          PROVE  segments'[i] < segments'[j]
      BY <2>12, <3>2 DEF InStep
    <3> QED
      BY <3>1, <3>2 DEF InStep
  <2>20. Newest'
    <3>1. Count' > deletedEntries' => Count' \in Alive' \/ Pending'
      <4> SUFFICES ASSUME Count > k PROVE Count \in Alive' \/ Pending'
        BY <2>4, <2>7
      <4>1. k \in Nat /\ Count > deletedEntries /\ Count # k
        BY <1>3, <2>1
      <4>2. Count \in Alive \/ Pending
        BY <4>1 DEF Newest
      <4> QED
        BY <2>9, <2>10, <4>1, <4>2
    <3>2. Building' => Count' > deletedEntries'
      BY <1>3, <2>1, <2>2, <2>4, <2>7, <2>9
    <3>3. Pending' => Last' = Destroyed
      BY <1>3, <1>5, <2>1, <2>2, <2>9, <2>16 DEF Newest
    <3>4. todo # <<>> /\ Head(todo).do = "fill" => Building
      BY DEF Building
    <3>5. todo' # <<>> /\ Head(todo').do = "fill" /\ ~Pending' =>
             Last'.type = Head(todo').what
      BY <1>1, <1>3, <2>1, <2>2, <2>9, <2>16, <3>4 DEF Newest
    <3> QED
      BY <3>1, <3>2, <3>3, <3>5 DEF Newest
  <2>21. Lasting'
    BY <1>1, <1>3, <2>2, <2>4, <2>7, <2>15, <2>16 DEF Lasting
  <2>22. LoneThought'
    <3>1. ASSUME NEW i \in Displayed' PROVE i \in Displayed /\ entries'[i] = entries[i]
      BY <1>3, <2>6, <2>11 DEF Displayed
    <3> QED
      BY <1>1, <2>7, <2>9, <3>1 DEF LoneThought
  <2>23. Drift'
    <3>1. Cardinality(Alive') = Cardinality(Alive) - 1
      <4>1. IsFiniteSet(Alive) /\ k \in Alive
        BY <1>3, <2>1
      <4>2. Cardinality(Alive \ {k}) = Cardinality(Alive) - 1
        BY ONLY <4>1, FS_RemoveElement
      <4> QED
        BY <2>10, <4>2
    <3>2. Length' = Length - 1
      BY <1>3, <2>2, <2>4, <2>7 DEF Length
    <3> QED
      BY <1>1, <1>3, <1>4, <2>9, <3>1, <3>2 DEF Drift
  <2>24. OneOpen'
    BY <2>14 DEF OneOpen
  <2>25. Busy'
    <3> SUFFICES ASSUME ~Building, ~IsIdle' PROVE thinking
      BY <1>1, <2>9 DEF Busy
    <3>1. k # Count /\ Last' = Last
      BY <2>4, <2>7, <2>16 DEF IsIdle, Nonempty
    <3>2. Nonempty
      BY <1>3, <2>1, <2>2 DEF Nonempty
    <3>3. ~IsIdle
      BY <3>1, <3>2 DEF IsIdle, Nonempty
    <3> QED
      BY <3>3 DEF Busy
  <2>26. Opened'
    <3>1. window' /\ Count' # 0
      BY <1>1, <1>3, <2>2, <2>7 DEF session
    <3> QED
      BY <3>1 DEF Opened
  <2>27. Died'
    <3>1. ASSUME fault' = "freed_response", k # Count PROVE Last'.type # "Deleted"
      <4>1. ~Pending
        BY <2>3, <3>1 DEF Appending, Pending
      <4>2. Count \in Alive
        BY <1>3, <2>1, <2>16, <3>1, <4>1 DEF Newest
      <4> QED
        BY <2>16, <3>1, <4>2 DEF Alive, Last
    <3> QED
      BY <1>1, <2>3, <2>15, <3>1 DEF Died
  <2> QED
    BY <2>17, <2>18, <2>19, <2>20, <2>21, <2>22, <2>23, <2>24, <2>25, <2>26, <2>27
<1> QED
  BY <1>6, <1>7

-----------------------------------------------------------------------------
(* The theorems.                                                           *)

\* Before the first window there is nothing.
LEMMA InitHolds == Init => IInv
<1> SUFFICES ASSUME Init PROVE IInv
  OBVIOUS
<1> USE DEF Init
<1>1. Count = 0 /\ MaxEntries \in Nat /\ MaxWindows \in Nat
  BY ConversationAssumption DEF Count
<1>2. /\ entries \in Seq(Entry) /\ segments \in Seq(0..Count) /\ todo \in Seq(StepType)
      /\ Len(segments) = 0
  BY EmptySeq
<1>3. TypeOK
  <2>1. /\ Count <= MaxEntries /\ deletedEntries \in 0..Count
        /\ segmentsDeleted \in 0..Len(segments) /\ windows \in 0..MaxWindows
    BY <1>1, <1>2
  <2>2. /\ thinking \in BOOLEAN /\ asking \in BOOLEAN
        /\ window \in BOOLEAN /\ stale \in BOOLEAN /\ spared \in BOOLEAN
    BY Zenon
  <2>3. nulledEntries \in Int /\ thoughts \in Nat /\ fault = "none"
    OBVIOUS
  <2> QED
    BY ONLY <1>2, <2>1, <2>2, <2>3 DEF TypeOK
<1>4. ~Building /\ ~Pending
  BY DEF Building, Pending
<1>5. Alive = {} /\ Open = {} /\ LiveSegments = {} /\ Displayed = {}
  BY <1>1, <1>2, <1>4 DEF Alive, Open, LiveSegments, Displayed
<1>6. DOMAIN todo = {} /\ Len(todo) = 0 /\ 1..0 = {} /\ 1..(0 - 1) = {}
  OBVIOUS
<1>7. RoomFor(todo)
  <2>1. Creating(todo) = {}
    BY <1>6 DEF Creating
  <2> QED
    BY <1>1, <2>1, FS_EmptySet DEF RoomFor, Creating
<1>8. Handling
  BY <1>6, <1>7 DEF Handling, Planned
<1>9. InStep /\ OneOpen /\ LoneThought
  BY <1>1, <1>2, <1>5 DEF InStep, OneOpen, LoneThought
<1>10. Newest /\ Lasting
  BY <1>1, <1>4 DEF Newest, Lasting
<1>11. Drift
  BY <1>1, <1>4, <1>5, FS_EmptySet DEF Drift, Length
<1>12. Busy
  BY <1>1 DEF Busy, IsIdle, Nonempty
<1>13. Opened /\ Died
  BY <1>1 DEF Opened, Died
<1> QED
  BY <1>3, <1>8, <1>9, <1>10, <1>11, <1>12, <1>13 DEF IInv

\* An app that only stutters.
LEMMA SameStep == IInv /\ UNCHANGED vars => IInv'
<1> SUFFICES ASSUME IInv, UNCHANGED vars PROVE IInv'
  OBVIOUS
<1> USE DEF vars, conversation, screen, session
<1>1. Count' = Count
  BY DEF Count
<1>2. Building' = Building /\ Pending' = Pending /\ Alive' = Alive /\ Open' = Open
  BY <1>1 DEF Building, Pending, Alive, Open
<1>3. Displayed' = Displayed /\ LiveSegments' = LiveSegments
  BY <1>1, <1>2 DEF Displayed, LiveSegments
<1> USE DEF IInv
<1>4. TypeOK'
  BY <1>1 DEF TypeOK
<1>5. Handling'
  BY <1>1, <1>2 DEF Handling, RoomFor
<1>6. InStep' /\ OneOpen'
  BY <1>2, <1>3 DEF InStep, OneOpen
<1>7. Newest' /\ Lasting' /\ LoneThought'
  BY <1>1, <1>2, <1>3 DEF Newest, Lasting, LoneThought, Last
<1>8. Drift'
  BY <1>1, <1>2 DEF Drift, Length
<1>9. Busy'
  BY <1>1, <1>2 DEF Busy, IsIdle, Nonempty, Last
<1>10. Opened' /\ Died'
  BY <1>1 DEF Opened, Died, Last
<1> QED
  BY <1>4, <1>5, <1>6, <1>7, <1>8, <1>9, <1>10

\* No step breaks the invariant.
LEMMA NextStep == IInv /\ [Next]_vars => IInv'
  BY CreateStep, FillStep, AppendStep, ShowStep, DisplayStep, UpdateStep,
     PressureStep, StaleStep, MessageStep, UserStep, SameStep DEF Next, Step

\* The invariant behind all that is proved: however far a handler of
\* conversation_manager.c has come when bmalloc() calls
\* prv_handle_memory_pressure(), what is left of it, the entries and the
\* segments fit together.
THEOREM InductiveInvariant == Spec => []IInv
  BY InitHolds, NextStep, PTL DEF Spec

\* Every variable keeps its type, for any number of entries and windows: in
\* particular deleted_entries and segments_deleted stay within their arrays.
THEOREM TypeCorrect == Spec => []TypeOK
<1>1. IInv => TypeOK
  BY DEF IInv
<1> QED
  BY <1>1, InductiveInvariant, PTL

\* Between two handlers the segments of session_window.c are those of the
\* entries alive, in their order, and no thought is kept but the newest entry.
THEOREM SegmentsAlwaysMatch == Spec => []SegmentsMatch
<1>1. IInv => SegmentsMatch
  <2> SUFFICES ASSUME IInv, Idle
               PROVE  /\ LiveSegments = Alive
                      /\ \A i \in Alive : entries[i].type = "Thought" => i = Count
                      /\ \A i, j \in (segmentsDeleted + 1)..Len(segments) :
                            i < j => segments[i] < segments[j]
    BY DEF SegmentsMatch
  <2>1. ~Building
    BY DEF Building, Idle
  <2> QED
    BY <2>1 DEF IInv, InStep, LoneThought, Displayed
<1> QED
  BY <1>1, InductiveInvariant, PTL

\* prv_handle_memory_pressure() destroys nothing that is under construction or
\* not there; where it is the end of the app, two thoughts had been replaced
\* without nulled_entries counting them, or something stood behind the response
\* it freed.  And prv_select_long_pressed() finds no entry only then, or after
\* prv_dictation_status_callback() popped another window than its own.
THEOREM FaultsAreExplained == Spec => []FaultsExplained
<1>1. IInv => FaultsExplained
  <2> SUFFICES ASSUME IInv PROVE FaultsExplained
    OBVIOUS
  <2> USE DEF IInv
  <2>1. LengthDrift
    <3>1. Idle => ~Pending
      BY DEF Pending, Idle
    <3>2. Cardinality(Alive) + thoughts + 0 = Cardinality(Alive) + thoughts
      BY Facts DEF TypeOK
    <3> QED
      BY <3>1, <3>2 DEF LengthDrift, Drift
  <2>2. NeverImpossible
    <3>1. todo # <<>> /\ Head(todo).do = "show" => Nonempty
      BY Facts DEF Building, Newest, Nonempty
    <3>2. 0 \notin LiveSegments
      BY Facts DEF InStep, Displayed
    <3> QED
      BY <3>1, <3>2 DEF NeverImpossible
  <2> QED
    BY <2>1, <2>2 DEF FaultsExplained, Died
<1> QED
  BY <1>1, InductiveInvariant, PTL

\* prv_find_last_open_response() has one response to find at most, whichever
\* sessions the fragments are of; and while conversation_is_idle() keeps the
\* user from speaking, the thinking layer is shown.
THEOREM OpenIsAlwaysVisible == Spec => []OpenIsVisible
<1>1. IInv => OpenIsVisible
  <2> SUFFICES ASSUME IInv PROVE OpenIsVisible
    OBVIOUS
  <2>1. Cardinality(Open) <= 1
    <3>1. CASE Open = {}
      BY <3>1, FS_EmptySet
    <3>2. CASE Open # {}
      <4>1. PICK i \in Open : TRUE
        BY <3>2
      <4>2. Open = {i}
        BY <4>1 DEF IInv, OneOpen
      <4> QED
        BY <4>2, FS_Singleton
    <3> QED
      BY <3>1, <3>2
  <2>2. Idle => ~Building
    BY DEF Building, Idle
  <2> QED
    BY <2>1, <2>2 DEF OpenIsVisible, IInv, Busy
<1> QED
  BY <1>1, InductiveInvariant, PTL
====
