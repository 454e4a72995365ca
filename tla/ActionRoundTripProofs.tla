------------------------ MODULE ActionRoundTripProofs ------------------------
(***************************************************************************)
(* Proofs about ActionRoundTrip for any number of sessions, actions and    *)
(* losses: whose answer CallAction() returns, how often an action is       *)
(* answered, and what that does to those after it.                         *)
(***************************************************************************)
EXTENDS ActionRoundTrip, SequenceTheorems, FiniteSetTheorems, TLAPS

-----------------------------------------------------------------------------
(* The inductive invariant.                                                *)

\* The kinds that are asked of the watch.
Alarms == {"set_alarm", "get_alarm"}

\* A handler of x waits for a reply.
Waits(x) == \E i \in DOMAIN listeners : listeners[i] = x

\* The service was told an answer to x, or will be.
Told(x) == \/ \E i \in DOMAIN up[Asker(x)] : up[Asker(x)][i].for = x
           \/ \E r \in answers : r.for = x

\* The request of x to the watch, or the reply to it, is on its way.
Sent(x) == \/ \E i \in DOMAIN toWatch : toWatch[i] = x
           \/ \E i \in DOMAIN toPhone : toPhone[i] = x

Beside(x) == \E b \in DOMAIN asked : Asker(b) # Asker(x) /\ Kind(b) = Kind(x)

\* Why the answer to x may tell the reply to another request.
Excused(x) == surplus[Asker(x)] > 0 \/ Beside(x)

Distinct(q) == \A i, j \in DOMAIN q : q[i] = q[j] => i = j

\* What is of a session stays with it.
Owned ==
    /\ \A s \in Session : \A i \in DOMAIN down[s] : Asker(down[s][i]) = s
    /\ \A s \in Session : \A i \in DOMAIN up[s] :
          /\ up[s][i].for \in DOMAIN asked /\ Asker(up[s][i].for) = s
          /\ up[s][i].from \in {0} \union DOMAIN asked
    /\ \A s \in Session : ~open[s] => up[s] = <<>>
    /\ \A s \in Session : surplus[s] <= 2 * (Len(asked) - Len(down[s]))
    /\ \A r \in answers : /\ r.for \in DOMAIN asked
                          /\ r.to \in DOMAIN asked
                          /\ r.from \in {0} \union DOMAIN asked

\* CallAction() is at the newest action of its session.
Newest ==
    \A s \in Session : calling[s] # 0 =>
        /\ Asker(calling[s]) = s
        /\ \A b \in DOMAIN asked : Asker(b) = s => b <= calling[s]

\* An action is in one place at a time, and one for the watch is answered once.
Once ==
    /\ \A s \in Session : Distinct(down[s])
    /\ \A s \in Session : \A i \in DOMAIN down[s] :
          ~Waits(down[s][i]) /\ ~Told(down[s][i]) /\ ~Sent(down[s][i])
    /\ Distinct(listeners)
    /\ \A i \in DOMAIN listeners : ~Told(listeners[i])
    /\ Distinct(toWatch) /\ Distinct(toPhone)
    /\ \A i \in DOMAIN toWatch, j \in DOMAIN toPhone : toWatch[i] # toPhone[j]
    /\ \A s \in Session : \A i \in DOMAIN up[s] :
          Kind(up[s][i].for) \in Alarms =>
             /\ \A j \in DOMAIN up[s] : up[s][j].for = up[s][i].for => j = i
             /\ \A r \in answers : r.for # up[s][i].for
    /\ \A q, r \in answers : q.for = r.for /\ Kind(q.for) \in Alarms => q = r

\* While no action was answered too often, all there is of a session is of the
\* action CallAction() is at.
Pending ==
    \A s \in Session : open[s] /\ surplus[s] = 0 =>
        /\ \A i \in DOMAIN down[s] : down[s][i] = calling[s]
        /\ \A i \in DOMAIN listeners :
              Asker(listeners[i]) = s => listeners[i] = calling[s]
        /\ \A i \in DOMAIN up[s] : up[s][i].for = calling[s]

\* A reply that finds no handler of its own left: that heard another's.
Overheard ==
    \A x \in DOMAIN asked :
        Sent(x) /\ ~Waits(x) /\ open[Asker(x)] => Excused(x)

\* An answer that tells another's reply.
Mistold ==
    \A s \in Session : \A i \in DOMAIN up[s] :
        up[s][i].from \notin {0, up[s][i].for} =>
            /\ Kind(up[s][i].from) = Kind(up[s][i].for)
            /\ Excused(up[s][i].for)

IInv ==
    /\ TypeOK /\ Owned /\ Newest /\ Once /\ Pending /\ Overheard /\ Mistold
    /\ TakesExplained /\ ListenersAwaitReply /\ SurplusStays

-----------------------------------------------------------------------------
(* Sequences.                                                              *)

\* What is left when the first is taken.
LEMMA Taken ==
    ASSUME NEW S, NEW q \in Seq(S), q # <<>>
    PROVE  /\ Tail(q) \in Seq(S) /\ Head(q) = q[1] /\ q[1] \in S
           /\ Len(q) \in Nat \ {0} /\ Len(Tail(q)) = Len(q) - 1
           /\ DOMAIN q = 1..Len(q) /\ 1 \in DOMAIN q
           /\ \A i \in DOMAIN Tail(q) : i + 1 \in DOMAIN q /\ Tail(q)[i] = q[i + 1]
           /\ \A i \in DOMAIN q : i # 1 =>
                 i - 1 \in DOMAIN Tail(q) /\ Tail(q)[i - 1] = q[i]
           /\ \A i \in DOMAIN Tail(q) : i \in Nat /\ i >= 1
<1> DEFINE n == Len(q)
           t == Tail(q)
<1>1. n \in Nat /\ n # 0 /\ DOMAIN q = 1..n
  BY EmptySeq, LenProperties
<1>2. t \in Seq(S) /\ Len(t) = n - 1 /\ \A i \in 1..Len(t) : t[i] = q[i + 1]
  BY HeadTailProperties
<1>3. DOMAIN t = 1..n - 1
  BY <1>2, LenProperties
<1>4. 1 \in DOMAIN q
  BY <1>1
<1>5. Head(q) = q[1] /\ q[1] \in S
  BY <1>1, <1>4, ElementOfSeq
<1> HIDE DEF n, t
<1>6. \A i \in DOMAIN t : i + 1 \in DOMAIN q /\ t[i] = q[i + 1] /\ i \in Nat /\ i >= 1
  BY <1>1, <1>2, <1>3
<1>7. \A i \in DOMAIN q : i # 1 => i - 1 \in DOMAIN t /\ t[i - 1] = q[i]
  <2> SUFFICES ASSUME NEW i \in DOMAIN q, i # 1
               PROVE  i - 1 \in DOMAIN t /\ t[i - 1] = q[i]
    OBVIOUS
  <2>1. i - 1 \in 1..n - 1 /\ (i - 1) + 1 = i
    BY <1>1
  <2> QED
    BY <1>3, <1>6, <2>1
<1> QED
  BY <1>1, <1>2, <1>4, <1>5, <1>6, <1>7 DEF n, t

\* What is there when one more is put at the end.
LEMMA Added ==
    ASSUME NEW S, NEW q \in Seq(S), NEW x \in S
    PROVE  /\ Append(q, x) \in Seq(S) /\ Len(Append(q, x)) = Len(q) + 1
           /\ Len(q) \in Nat /\ DOMAIN q = 1..Len(q)
           /\ DOMAIN Append(q, x) = DOMAIN q \union {Len(q) + 1}
           /\ Len(q) + 1 \notin DOMAIN q
           /\ \A i \in DOMAIN q : Append(q, x)[i] = q[i]
           /\ Append(q, x)[Len(q) + 1] = x
<1> DEFINE n == Len(q)
           a == Append(q, x)
<1>1. n \in Nat /\ DOMAIN q = 1..n
  BY LenProperties
<1>2. /\ a \in Seq(S) /\ Len(a) = n + 1
      /\ \A i \in 1..n : a[i] = q[i]
      /\ a[n + 1] = x
  BY AppendProperties
<1>3. DOMAIN a = 1..n + 1
  BY <1>2, LenProperties
<1> HIDE DEF n, a
<1>4. DOMAIN a = DOMAIN q \union {n + 1} /\ n + 1 \notin DOMAIN q
  BY <1>1, <1>3
<1> QED
  BY <1>1, <1>2, <1>4 DEF n, a

\* What is there when others are put behind.
LEMMA Joined ==
    ASSUME NEW S, NEW q \in Seq(S), NEW x \in Seq(S)
    PROVE  /\ q \o x \in Seq(S) /\ Len(q \o x) = Len(q) + Len(x)
           /\ Len(q) \in Nat /\ Len(x) \in Nat
           /\ \A i \in DOMAIN q : i \in DOMAIN (q \o x) /\ (q \o x)[i] = q[i]
           /\ \A i \in DOMAIN (q \o x) :
                 \/ i \in DOMAIN q /\ (q \o x)[i] = q[i]
                 \/ i \notin DOMAIN q /\ i - Len(q) \in DOMAIN x /\ i \in Nat
                    /\ (q \o x)[i] = x[i - Len(q)]
<1> DEFINE n == Len(q)
           k == Len(x)
           c == q \o x
<1>1. n \in Nat /\ DOMAIN q = 1..n /\ k \in Nat /\ DOMAIN x = 1..k
  BY LenProperties
<1>2. /\ c \in Seq(S) /\ Len(c) = n + k
      /\ \A i \in 1..n + k : c[i] = IF i <= n THEN q[i] ELSE x[i - n]
  BY ConcatProperties
<1>3. DOMAIN c = 1..n + k
  BY <1>2, LenProperties
<1> HIDE DEF n, k, c
<1>4. \A i \in DOMAIN q : i \in DOMAIN c /\ c[i] = q[i]
  BY <1>1, <1>2, <1>3
<1>5. \A i \in DOMAIN c :
        \/ i \in DOMAIN q /\ c[i] = q[i]
        \/ i \notin DOMAIN q /\ i - n \in DOMAIN x /\ i \in Nat /\ c[i] = x[i - n]
  <2> SUFFICES ASSUME NEW i \in DOMAIN c
               PROVE  \/ i \in DOMAIN q /\ c[i] = q[i]
                      \/ /\ i \notin DOMAIN q /\ i - n \in DOMAIN x /\ i \in Nat
                         /\ c[i] = x[i - n]
    OBVIOUS
  <2>1. CASE i <= n
    BY <1>1, <1>2, <1>3, <2>1
  <2>2. CASE ~(i <= n)
    BY <1>1, <1>2, <1>3, <2>2
  <2> QED
    BY <2>1, <2>2
<1> QED
  BY <1>1, <1>2, <1>4, <1>5 DEF n, k, c

\* RemoveAt() moves what is behind one place up.
LEMMA Removed ==
    ASSUME NEW S, NEW s \in Seq(S), NEW i \in 1..Len(s)
    PROVE  LET r == RemoveAt(s, i)
           IN  /\ r \in Seq(S)
               /\ Len(r) = Len(s) - 1
               /\ \A j \in 1..Len(s) - 1 : r[j] = s[IF j < i THEN j ELSE j + 1]
<1> DEFINE u == SubSeq(s, 1, i - 1)
           v == SubSeq(s, i + 1, Len(s))
<1>1. Len(s) \in Nat
  OBVIOUS
<1>2. \A j \in 1..Len(s) : s[j] \in S
  BY ElementOfSeq
<1>3. /\ u \in Seq(S)
      /\ Len(u) = i - 1
      /\ \A j \in 1..i - 1 : u[j] = s[j]
  <2>1. \A j \in 1..i - 1 : s[j] \in S
    BY <1>1, <1>2
  <2>2. /\ u \in Seq(S)
        /\ Len(u) = IF 1 <= i - 1 THEN i - 1 - 1 + 1 ELSE 0
        /\ \A j \in 1..i - 1 - 1 + 1 : u[j] = s[1 + j - 1]
    BY <1>1, <2>1, SubSeqProperties
  <2> HIDE DEF u
  <2> QED
    BY <1>1, <2>2
<1>4. /\ v \in Seq(S)
      /\ Len(v) = Len(s) - i
      /\ \A j \in 1..Len(s) - i : v[j] = s[i + j]
  <2>1. \A j \in i + 1..Len(s) : s[j] \in S
    BY <1>1, <1>2
  <2>2. /\ v \in Seq(S)
        /\ Len(v) = IF i + 1 <= Len(s) THEN Len(s) - (i + 1) + 1 ELSE 0
        /\ \A j \in 1..Len(s) - (i + 1) + 1 : v[j] = s[i + 1 + j - 1]
    BY <1>1, <2>1, SubSeqProperties
  <2> HIDE DEF v
  <2> QED
    BY <1>1, <2>2
<1> HIDE DEF u, v
<1>5. /\ u \o v \in Seq(S)
      /\ Len(u \o v) = Len(u) + Len(v)
      /\ \A j \in 1..Len(u) + Len(v) :
            (u \o v)[j] = IF j <= Len(u) THEN u[j] ELSE v[j - Len(u)]
  BY <1>3, <1>4, ConcatProperties
<1>6. ASSUME NEW j \in 1..Len(s) - 1
      PROVE  (u \o v)[j] = s[IF j < i THEN j ELSE j + 1]
  <2>1. CASE j < i
    BY <1>1, <1>3, <1>4, <1>5, <2>1
  <2>2. CASE ~(j < i)
    <3>1. (u \o v)[j] = v[j - (i - 1)] /\ j - (i - 1) \in 1..Len(s) - i
      BY <1>1, <1>3, <1>4, <1>5, <2>2
    <3>2. v[j - (i - 1)] = s[i + (j - (i - 1))]
      BY <1>4, <3>1
    <3>3. i + (j - (i - 1)) = j + 1
      BY <1>1
    <3> QED
      BY <2>2, <3>1, <3>2, <3>3
  <2> QED
    BY <2>1, <2>2
<1>7. /\ u \o v \in Seq(S)
      /\ Len(u \o v) = Len(s) - 1
      /\ \A j \in 1..Len(s) - 1 :
            (u \o v)[j] = s[IF j < i THEN j ELSE j + 1]
  <2>1. Len(u) + Len(v) = Len(s) - 1
    BY <1>1, <1>3, <1>4
  <2> QED
    BY <1>5, <1>6, <2>1
<1> QED
  BY <1>7 DEF u, v, RemoveAt

\* What is left when one is lost.
LEMMA OneLost ==
    ASSUME NEW S, NEW q \in Seq(S), NEW i \in DOMAIN q
    PROVE  /\ RemoveAt(q, i) \in Seq(S) /\ q[i] \in S
           /\ \A j \in DOMAIN RemoveAt(q, i) :
                 \E k \in DOMAIN q : RemoveAt(q, i)[j] = q[k]
           /\ \A k \in DOMAIN q : k # i =>
                 \E j \in DOMAIN RemoveAt(q, i) : RemoveAt(q, i)[j] = q[k]
           /\ Distinct(q) => Distinct(RemoveAt(q, i))
<1> DEFINE n == Len(q)
           r == RemoveAt(q, i)
<1>1. n \in Nat /\ DOMAIN q = 1..n /\ i \in 1..n
  BY LenProperties
<1>2. /\ r \in Seq(S) /\ Len(r) = n - 1
      /\ \A j \in 1..n - 1 : r[j] = q[IF j < i THEN j ELSE j + 1]
  BY <1>1, Removed
<1>3. DOMAIN r = 1..n - 1 /\ q[i] \in S
  BY <1>1, <1>2, LenProperties, ElementOfSeq
<1> DEFINE at(j) == IF j < i THEN j ELSE j + 1
<1> HIDE DEF n, r
<1>4. \A j \in DOMAIN r : at(j) \in DOMAIN q /\ r[j] = q[at(j)]
  BY <1>1, <1>2, <1>3
<1>5. \A j, k \in DOMAIN r : at(j) = at(k) => j = k
  BY <1>1, <1>3
<1>6. ASSUME NEW k \in DOMAIN q, k # i
      PROVE  \E j \in DOMAIN r : r[j] = q[k]
  <2>1. CASE k < i
    <3>1. k \in DOMAIN r /\ at(k) = k
      BY <1>1, <1>3, <2>1
    <3> QED
      BY <1>4, <3>1
  <2>2. CASE ~(k < i)
    <3>1. k - 1 \in DOMAIN r /\ at(k - 1) = k
      BY <1>1, <1>3, <1>6, <2>2
    <3> QED
      BY <1>4, <3>1
  <2> QED
    BY <2>1, <2>2
<1>7. Distinct(q) => Distinct(r)
  <2> HIDE DEF at
  <2> QED
    BY <1>4, <1>5 DEF Distinct
<1> QED
  BY <1>2, <1>3, <1>4, <1>6, <1>7 DEF n, r

\* An ordered list of places has each of them once.
LEMMA InOrderFacts ==
    ASSUME NEW I, IsFiniteSet(I), I \subseteq Nat, NEW at \in InOrder(I)
    PROVE  /\ Cardinality(I) \in Nat /\ DOMAIN at = 1..Cardinality(I)
           /\ \A i \in DOMAIN at : at[i] \in I
           /\ \A i, j \in DOMAIN at : at[i] = at[j] => i = j
           /\ \A k \in I : \E i \in DOMAIN at : at[i] = k
<1> DEFINE n == Cardinality(I)
<1>1. n \in Nat
  BY FS_CardinalityType
<1>2. at \in [1..n -> I] /\ \A i, j \in DOMAIN at : i < j => at[i] < at[j]
  BY DEF InOrder
<1>3. \A i, j \in DOMAIN at : at[i] = at[j] => i = j
  <2> SUFFICES ASSUME NEW i \in 1..n, NEW j \in 1..n, at[i] = at[j], i # j
               PROVE  FALSE
    BY <1>2
  <2>1. at[i] \in Nat /\ at[j] \in Nat
    BY <1>2
  <2>2. i < j \/ j < i
    BY <1>1
  <2> QED
    BY <1>2, <2>1, <2>2
<1>4. IsFiniteSet(1..n) /\ Cardinality(1..n) = n
  <2>1. /\ IsFiniteSet(1..n)
        /\ Cardinality(1..n) = IF 1 > n THEN 0 ELSE n - 1 + 1
    BY <1>1, FS_Interval
  <2> QED
    BY <1>1, <2>1
<1>5. at \in Injection(1..n, I)
  BY <1>2, <1>3 DEF Injection, IsInjective
<1>6. at \in Surjection(1..n, I)
  BY <1>4, <1>5, FS_Injection
<1> QED
  BY <1>1, <1>2, <1>3, <1>6 DEF Surjection

-----------------------------------------------------------------------------
(* What the invariant says of each part of the state.                      *)

\* The places of s's handlers.
Waiting(s) == {i \in DOMAIN listeners : Asker(listeners[i]) = s}

\* The types, spelled out.
LEMMA Parts ==
    ASSUME IInv
    PROVE  /\ Len(asked) \in Nat /\ DOMAIN asked = 1..Len(asked)
           /\ \A a \in DOMAIN asked : Asker(a) \in Session /\ Kind(a) \in Kinds
           /\ \A s \in Session :
                 /\ calling[s] \in 0..Len(asked)
                 /\ open[s] \in BOOLEAN
                 /\ down[s] \in Seq(DOMAIN asked) /\ Len(down[s]) \in Nat
                 /\ \A i \in DOMAIN down[s] : down[s][i] \in DOMAIN asked
                 /\ up[s] \in Seq(Answer) /\ Len(up[s]) \in Nat
                 /\ \A i \in DOMAIN up[s] : up[s][i] \in Answer
                 /\ surplus[s] \in Nat
           /\ listeners \in Seq(DOMAIN asked) /\ Len(listeners) \in Nat
           /\ DOMAIN listeners = 1..Len(listeners)
           /\ \A i \in DOMAIN listeners : listeners[i] \in DOMAIN asked
           /\ \A i \in DOMAIN toWatch : toWatch[i] \in DOMAIN asked
           /\ \A i \in DOMAIN toPhone : toPhone[i] \in DOMAIN asked
           /\ MaxActions \in Nat
<1>1. TypeOK
  BY DEF IInv
<1>2. /\ Len(asked) \in Nat /\ DOMAIN asked = 1..Len(asked)
      /\ \A a \in DOMAIN asked : asked[a] \in [session : Session, kind : Kinds]
  BY <1>1, LenProperties, ElementOfSeq DEF TypeOK
<1>3. \A a \in DOMAIN asked : Asker(a) \in Session /\ Kind(a) \in Kinds
  BY <1>2 DEF Asker, Kind
<1>4. ASSUME NEW s \in Session
      PROVE  /\ calling[s] \in 0..Len(asked)
             /\ open[s] \in BOOLEAN
             /\ down[s] \in Seq(DOMAIN asked) /\ Len(down[s]) \in Nat
             /\ \A i \in DOMAIN down[s] : down[s][i] \in DOMAIN asked
             /\ up[s] \in Seq(Answer) /\ Len(up[s]) \in Nat
             /\ \A i \in DOMAIN up[s] : up[s][i] \in Answer
             /\ surplus[s] \in Nat
  <2>1. /\ calling[s] \in 0..Len(asked) /\ open[s] \in BOOLEAN
        /\ down[s] \in Seq(DOMAIN asked) /\ up[s] \in Seq(Answer)
        /\ surplus[s] \in 0..2 * MaxActions
    BY <1>1 DEF TypeOK
  <2>2. Len(down[s]) \in Nat /\ Len(up[s]) \in Nat
        /\ DOMAIN down[s] = 1..Len(down[s]) /\ DOMAIN up[s] = 1..Len(up[s])
    BY <2>1, LenProperties
  <2> QED
    BY <2>1, <2>2, ElementOfSeq, ActionAssumption
<1>5. /\ listeners \in Seq(DOMAIN asked) /\ Len(listeners) \in Nat
      /\ DOMAIN listeners = 1..Len(listeners)
  BY <1>1, LenProperties DEF TypeOK
<1>6. /\ \A i \in DOMAIN listeners : listeners[i] \in DOMAIN asked
      /\ \A i \in DOMAIN toWatch : toWatch[i] \in DOMAIN asked
      /\ \A i \in DOMAIN toPhone : toPhone[i] \in DOMAIN asked
  BY <1>1, LenProperties, ElementOfSeq DEF TypeOK
<1> QED
  BY <1>2, <1>3, <1>4, <1>5, <1>6, ActionAssumption

\* The handlers that wait can be counted.
LEMMA Counted ==
    ASSUME IInv, NEW s \in Session
    PROVE  /\ IsFiniteSet(Waiting(s)) /\ Cardinality(Waiting(s)) \in Nat
           /\ Waiting(s) \subseteq Nat
           /\ Unanswered(s) = Len(down[s]) + Cardinality(Waiting(s))
           /\ IsFiniteSet(DOMAIN listeners)
<1>1. Len(listeners) \in Nat /\ DOMAIN listeners = 1..Len(listeners)
  BY Parts
<1>2. IsFiniteSet(1..Len(listeners))
  BY <1>1, FS_Interval
<1>3. Waiting(s) \subseteq 1..Len(listeners) /\ Waiting(s) \subseteq Nat
  BY <1>1 DEF Waiting
<1>4. IsFiniteSet(Waiting(s)) /\ Cardinality(Waiting(s)) \in Nat
  BY <1>2, <1>3, FS_Subset, FS_CardinalityType
<1> QED
  BY <1>1, <1>2, <1>3, <1>4 DEF Unanswered, Waiting

\* Nothing is asked for, nothing under way.
LEMMA InitHolds == Init => IInv
<1> SUFFICES ASSUME Init PROVE IInv
  OBVIOUS
<1>1. /\ Len(<<>>) = 0 /\ DOMAIN asked = {} /\ Len(asked) = 0
      /\ DOMAIN listeners = {} /\ DOMAIN toWatch = {} /\ DOMAIN toPhone = {}
      /\ \A s \in Session : DOMAIN up[s] = {} /\ DOMAIN down[s] = {}
  BY DEF Init
<1>2. TypeOK
  <2>1. /\ asked \in Seq([session : Session, kind : Kinds])
        /\ <<>> \in Seq(DOMAIN asked) /\ <<>> \in Seq(Answer)
        /\ 0 <= MaxActions /\ 0 \in 0..2 * MaxActions /\ 0 \in 0..MaxBreaks
        /\ 0 \in 0..Len(asked)
    BY <1>1, ActionAssumption DEF Init
  <2> QED
    BY <1>1, <2>1 DEF Init, TypeOK
<1>3. Owned
  <2>1. 0 <= 2 * (0 - 0)
    OBVIOUS
  <2> QED
    BY <1>1, <2>1 DEF Init, Owned
<1>4. Newest /\ Once /\ Pending /\ Overheard /\ Mistold /\ ListenersAwaitReply
      /\ TakesExplained
  BY <1>1 DEF Init, Newest, Once, Pending, Overheard, Mistold,
              ListenersAwaitReply, TakesExplained, Distinct
<1>5. SurplusStays
  <2> SUFFICES ASSUME NEW s \in Session
               PROVE  Len(up[s]) + Unanswered(s)
                        = surplus[s] + (IF calling[s] = 0 THEN 0 ELSE 1)
    BY DEF SurplusStays
  <2>1. {i \in DOMAIN listeners : Asker(listeners[i]) = s} = {}
    BY <1>1
  <2>2. Unanswered(s) = 0
    BY <1>1, <2>1, FS_EmptySet DEF Unanswered, Init
  <2> QED
    BY <1>1, <2>2 DEF Init
<1> QED
  BY <1>2, <1>3, <1>4, <1>5 DEF IInv

-----------------------------------------------------------------------------
(* The watch, and what goes wrong on the way.                              *)

\* Requests and replies that move on, or are lost, concern none but those who
\* wait for them.
LEMMA LinkStep ==
    ASSUME IInv,
           UNCHANGED <<service, open, down, up, listeners, surplus, breaks>>,
           toWatch' \in Seq(DOMAIN asked), toPhone' \in Seq(DOMAIN asked),
           lost \subseteq lost', lost' \subseteq DOMAIN asked,
           ToSet(toWatch') \union ToSet(toPhone')
               \subseteq ToSet(toWatch) \union ToSet(toPhone),
           ToSet(toWatch) \union ToSet(toPhone)
               \subseteq ToSet(toWatch') \union ToSet(toPhone') \union lost',
           Distinct(toWatch'), Distinct(toPhone'),
           \A i \in DOMAIN toWatch', j \in DOMAIN toPhone' : toWatch'[i] # toPhone'[j]
    PROVE  IInv'
<1>1. UNCHANGED <<asked, calling, answers, failures, open, down, up, listeners,
                  surplus, breaks>>
  BY DEF service
<1>2. \A x : Sent(x)' => Sent(x)
  BY DEF Sent, ToSet
<1>3. TypeOK'
  BY <1>1 DEF IInv, TypeOK
<1>4. Owned' /\ Newest' /\ Pending' /\ Mistold' /\ TakesExplained'
  BY <1>1 DEF IInv, Owned, Newest, Pending, Mistold, TakesExplained, Asker, Kind,
              Excused, Beside
<1>5. Once'
  <2>1. \A x : Told(x)' <=> Told(x)
    BY <1>1 DEF Told, Asker
  <2>2. \A x : Waits(x)' <=> Waits(x)
    BY <1>1 DEF Waits
  <2>3. /\ \A s \in Session : Distinct(down[s])
        /\ \A s \in Session : \A i \in DOMAIN down[s] :
              ~Waits(down[s][i]) /\ ~Told(down[s][i]) /\ ~Sent(down[s][i])
        /\ Distinct(listeners)
        /\ \A i \in DOMAIN listeners : ~Told(listeners[i])
    BY DEF IInv, Once
  <2>4. /\ \A s \in Session : Distinct(down'[s])
        /\ \A s \in Session : \A i \in DOMAIN down'[s] :
              ~Waits(down[s][i])' /\ ~Told(down[s][i])' /\ ~Sent(down[s][i])'
        /\ Distinct(listeners')
        /\ \A i \in DOMAIN listeners' : ~Told(listeners[i])'
    BY <1>1, <1>2, <2>1, <2>2, <2>3
  <2>5. /\ \A s \in Session : \A i \in DOMAIN up'[s] :
             Kind(up[s][i].for)' \in Alarms =>
                /\ \A j \in DOMAIN up'[s] : up'[s][j].for = up'[s][i].for => j = i
                /\ \A r \in answers' : r.for # up'[s][i].for
        /\ \A q, r \in answers' : q.for = r.for /\ Kind(q.for)' \in Alarms => q = r
    BY <1>1 DEF IInv, Once, Kind
  <2> QED
    BY <2>4, <2>5 DEF Once
<1>6. Overheard'
  BY <1>1, <1>2 DEF IInv, Overheard, Waits, Excused, Beside, Asker, Kind
<1>7. ListenersAwaitReply'
  BY <1>1 DEF IInv, ListenersAwaitReply
<1>8. SurplusStays'
  BY <1>1 DEF IInv, SurplusStays, Unanswered, Asker
<1> QED
  BY <1>3, <1>4, <1>5, <1>6, <1>7, <1>8 DEF IInv

\* The watch replies, or its reply is lost.
LEMMA WatchHandlesStep == IInv /\ WatchHandles => IInv'
<1> SUFFICES ASSUME IInv, WatchHandles PROVE IInv'
  OBVIOUS
<1> DEFINE x == toWatch[1]
           t == Tail(toWatch)
<1>1. toWatch \in Seq(DOMAIN asked) /\ toPhone \in Seq(DOMAIN asked)
      /\ lost \subseteq DOMAIN asked /\ toWatch # <<>>
  BY DEF IInv, TypeOK, WatchHandles
<1>2. /\ t \in Seq(DOMAIN asked) /\ Head(toWatch) = x /\ x \in DOMAIN asked
      /\ 1 \in DOMAIN toWatch /\ DOMAIN toWatch = 1..Len(toWatch)
      /\ \A i \in DOMAIN t : i + 1 \in DOMAIN toWatch /\ t[i] = toWatch[i + 1]
      /\ \A i \in DOMAIN toWatch : i # 1 =>
            i - 1 \in DOMAIN t /\ t[i - 1] = toWatch[i]
      /\ \A i \in DOMAIN t : i \in Nat /\ i >= 1
  BY <1>1, Taken
<1>3. /\ UNCHANGED <<service, open, down, up, listeners, surplus, breaks>>
      /\ toWatch' = t
      /\ \/ toPhone' = Append(toPhone, x) /\ lost' = lost
         \/ toPhone' = toPhone /\ lost' = lost \union {x}
  BY <1>2 DEF WatchHandles
<1>4. /\ Distinct(toWatch) /\ Distinct(toPhone)
      /\ \A i \in DOMAIN toWatch, j \in DOMAIN toPhone : toWatch[i] # toPhone[j]
  BY DEF IInv, Once
<1>5. /\ Append(toPhone, x) \in Seq(DOMAIN asked)
      /\ DOMAIN Append(toPhone, x) = DOMAIN toPhone \union {Len(toPhone) + 1}
      /\ \A i \in DOMAIN toPhone : Append(toPhone, x)[i] = toPhone[i]
      /\ Append(toPhone, x)[Len(toPhone) + 1] = x
  BY <1>1, <1>2, Added
<1> DEFINE more == Append(toPhone, x)
           last == Len(toPhone) + 1
<1> HIDE DEF t, x, more, last
<1>6. Distinct(t) /\ \A i \in DOMAIN t : t[i] # x
  <2>1. \A i, j \in DOMAIN t : t[i] = t[j] => i + 1 = j + 1
    BY <1>2, <1>4 DEF Distinct
  <2>2. \A i, j \in DOMAIN t : i + 1 = j + 1 => i = j
    BY <1>2
  <2>3. \A i \in DOMAIN t : i + 1 # 1
    BY <1>2
  <2>4. \A i \in DOMAIN t : t[i] # x
    BY <1>2, <1>4, <2>3 DEF Distinct, x
  <2> QED
    BY <2>1, <2>2, <2>4 DEF Distinct
<1>7. ToSet(t) \subseteq ToSet(toWatch) /\ x \in ToSet(toWatch)
      /\ ToSet(toWatch) \subseteq ToSet(t) \union {x}
  BY <1>2 DEF ToSet, x
<1>8. CASE toPhone' = more /\ lost' = lost
  <2>1. /\ more \in Seq(DOMAIN asked)
        /\ DOMAIN more = DOMAIN toPhone \union {last}
        /\ \A i \in DOMAIN toPhone : more[i] = toPhone[i]
        /\ more[last] = x
    BY <1>5 DEF more, last
  <2>2. ToSet(more) = ToSet(toPhone) \union {x}
    BY <2>1 DEF ToSet
  <2>3. \A j \in DOMAIN toPhone : toPhone[j] # x
    BY <1>2, <1>4 DEF x
  <2>4. Distinct(more)
    BY <1>4, <2>1, <2>3 DEF Distinct
  <2>5. \A i \in DOMAIN t, j \in DOMAIN more : t[i] # more[j]
    BY <1>2, <1>4, <1>6, <2>1
  <2> QED
    BY <1>1, <1>2, <1>3, <1>6, <1>7, <1>8, <2>1, <2>2, <2>4, <2>5, LinkStep
<1>9. CASE toPhone' = toPhone /\ lost' = lost \union {x}
  <2>1. \A i \in DOMAIN t, j \in DOMAIN toPhone : t[i] # toPhone[j]
    BY <1>2, <1>4
  <2> QED
    BY <1>1, <1>2, <1>3, <1>4, <1>6, <1>7, <1>9, <2>1, LinkStep
<1> QED
  BY <1>3, <1>8, <1>9 DEF more

\* A message is lost.
LEMMA LoseStep == IInv /\ Lose => IInv'
<1> SUFFICES ASSUME IInv, Lose PROVE IInv'
  OBVIOUS
<1>1. toWatch \in Seq(DOMAIN asked) /\ toPhone \in Seq(DOMAIN asked)
      /\ lost \subseteq DOMAIN asked
  BY DEF IInv, TypeOK
<1>2. UNCHANGED <<service, open, down, up, listeners, surplus, breaks>>
  BY DEF Lose
<1>3. /\ Distinct(toWatch) /\ Distinct(toPhone)
      /\ \A i \in DOMAIN toWatch, j \in DOMAIN toPhone : toWatch[i] # toPhone[j]
  BY DEF IInv, Once
<1>4. CASE \E i \in DOMAIN toWatch : /\ toWatch' = RemoveAt(toWatch, i)
                                     /\ lost' = lost \union {toWatch[i]}
                                     /\ toPhone' = toPhone
  <2>1. PICK i \in DOMAIN toWatch : /\ toWatch' = RemoveAt(toWatch, i)
                                    /\ lost' = lost \union {toWatch[i]}
                                    /\ toPhone' = toPhone
    BY <1>4
  <2>2. /\ toWatch' \in Seq(DOMAIN asked) /\ toWatch[i] \in DOMAIN asked
        /\ \A j \in DOMAIN toWatch' : \E k \in DOMAIN toWatch : toWatch'[j] = toWatch[k]
        /\ \A k \in DOMAIN toWatch : k # i =>
              \E j \in DOMAIN toWatch' : toWatch'[j] = toWatch[k]
        /\ Distinct(toWatch) => Distinct(toWatch')
    BY <1>1, <2>1, OneLost
  <2>3. ToSet(toWatch') \subseteq ToSet(toWatch)
        /\ ToSet(toWatch) \subseteq ToSet(toWatch') \union {toWatch[i]}
    BY <2>2 DEF ToSet
  <2>4. \A k \in DOMAIN toWatch', j \in DOMAIN toPhone' : toWatch'[k] # toPhone'[j]
    BY <1>3, <2>1, <2>2
  <2> QED
    BY <1>1, <1>2, <1>3, <2>1, <2>2, <2>3, <2>4, LinkStep
<1>5. CASE \E i \in DOMAIN toPhone : /\ toPhone' = RemoveAt(toPhone, i)
                                     /\ lost' = lost \union {toPhone[i]}
                                     /\ toWatch' = toWatch
  <2>1. PICK i \in DOMAIN toPhone : /\ toPhone' = RemoveAt(toPhone, i)
                                    /\ lost' = lost \union {toPhone[i]}
                                    /\ toWatch' = toWatch
    BY <1>5
  <2>2. /\ toPhone' \in Seq(DOMAIN asked) /\ toPhone[i] \in DOMAIN asked
        /\ \A j \in DOMAIN toPhone' : \E k \in DOMAIN toPhone : toPhone'[j] = toPhone[k]
        /\ \A k \in DOMAIN toPhone : k # i =>
              \E j \in DOMAIN toPhone' : toPhone'[j] = toPhone[k]
        /\ Distinct(toPhone) => Distinct(toPhone')
    BY <1>1, <2>1, OneLost
  <2>3. ToSet(toPhone') \subseteq ToSet(toPhone)
        /\ ToSet(toPhone) \subseteq ToSet(toPhone') \union {toPhone[i]}
    BY <2>2 DEF ToSet
  <2>4. \A k \in DOMAIN toWatch', j \in DOMAIN toPhone' : toWatch'[k] # toPhone'[j]
    BY <1>3, <2>1, <2>2
  <2> QED
    BY <1>1, <1>2, <1>3, <2>1, <2>2, <2>3, <2>4, LinkStep
<1> QED
  BY <1>4, <1>5 DEF Lose

\* A websocket is closed: what was on its way to the service is gone.
LEMMA ShutStep ==
    ASSUME IInv, NEW s \in Session, Shut(s),
           down' = down \/ down' = [down EXCEPT ![s] = <<>>],
           calling' = calling \/ calling' = [calling EXCEPT ![s] = 0],
           failures' \subseteq DOMAIN asked, breaks' \in 0..MaxBreaks,
           UNCHANGED <<asked, answers, listeners, toWatch, toPhone, lost, surplus>>
    PROVE  IInv'
<1>1. TypeOK
  BY DEF IInv
<1>2. /\ open'[s] = FALSE /\ up'[s] = <<>>
      /\ \A t \in Session : t # s => open'[t] = open[t] /\ up'[t] = up[t]
      /\ open' \in [Session -> BOOLEAN]
      /\ up' \in [Session -> Seq(Answer)]
  <2>1. <<>> \in Seq(Answer)
    BY EmptySeq
  <2> QED
    BY <1>1, <2>1 DEF Shut, TypeOK
<1>3. /\ down'[s] = down[s] \/ down'[s] = <<>>
      /\ \A t \in Session : t # s => down'[t] = down[t]
      /\ down' \in [Session -> Seq(DOMAIN asked)]
  <2>1. <<>> \in Seq(DOMAIN asked)
    BY EmptySeq
  <2> QED
    BY <1>1, <2>1 DEF TypeOK
<1>4. /\ calling'[s] = calling[s] \/ calling'[s] = 0
      /\ \A t \in Session : t # s => calling'[t] = calling[t]
      /\ calling' \in [Session -> 0..Len(asked)]
  <2>1. 0 \in 0..Len(asked)
    BY Parts
  <2> QED
    BY <1>1, <2>1 DEF TypeOK
<1>5. DOMAIN <<>> = {} /\ Len(<<>>) = 0
  OBVIOUS
<1>6. \A a : Asker(a)' = Asker(a) /\ Kind(a)' = Kind(a)
  BY DEF Asker, Kind
<1>7. /\ \A a \in DOMAIN asked : Told(a)' => Told(a)
      /\ \A a : Waits(a)' <=> Waits(a)
      /\ \A a : Sent(a)' <=> Sent(a)
      /\ \A a : Excused(a)' <=> Excused(a)
  <2>1. ASSUME NEW a \in DOMAIN asked, Told(a)' PROVE Told(a)
    <3>1. Asker(a) \in Session
      BY Parts
    <3> QED
      BY <1>2, <1>5, <1>6, <2>1, <3>1 DEF Told
  <2> QED
    BY <1>6, <2>1 DEF Waits, Sent, Excused, Beside
<1>8. \A t \in Session : \A i \in DOMAIN down[t] : down[t][i] \in DOMAIN asked
  BY Parts
<1>9. TypeOK'
  BY <1>1, <1>2, <1>3, <1>4 DEF TypeOK
<1>10. Owned'
  <2>1. \A t \in Session : surplus'[t] <= 2 * (Len(asked') - Len(down'[t]))
    <3> SUFFICES ASSUME NEW t \in Session
                 PROVE  surplus[t] <= 2 * (Len(asked) - Len(down'[t]))
      OBVIOUS
    <3> DEFINE n == Len(asked)
               d == Len(down[t])
               e == Len(down'[t])
    <3>1. surplus[t] <= 2 * (n - d) /\ surplus[t] \in Nat /\ n \in Nat /\ d \in Nat
      BY Parts DEF IInv, Owned
    <3>2. e = d \/ e = 0
      BY <1>3, <1>5
    <3> HIDE DEF n, d, e
    <3>3. surplus[t] <= 2 * (n - e)
      BY <3>1, <3>2
    <3> QED
      BY <3>3 DEF n, e
  <2>2. \A t \in Session : \A i \in DOMAIN down'[t] : Asker(down[t][i])' = t
    BY <1>3, <1>5, <1>6 DEF IInv, Owned
  <2>3. \A t \in Session : \A i \in DOMAIN up'[t] :
          /\ up'[t][i].for \in DOMAIN asked' /\ Asker(up[t][i].for)' = t
          /\ up'[t][i].from \in {0} \union DOMAIN asked'
    BY <1>2, <1>5, <1>6 DEF IInv, Owned
  <2>4. \A t \in Session : ~open'[t] => up'[t] = <<>>
    BY <1>2 DEF IInv, Owned
  <2>5. \A r \in answers' : /\ r.for \in DOMAIN asked'
                            /\ r.to \in DOMAIN asked'
                            /\ r.from \in {0} \union DOMAIN asked'
    BY DEF IInv, Owned
  <2> QED
    BY <2>1, <2>2, <2>3, <2>4, <2>5 DEF Owned
<1>11. Newest'
  BY <1>4, <1>6 DEF IInv, Newest
<1>12. Once'
  <2>1. /\ \A t \in Session : Distinct(down[t])
        /\ \A t \in Session : \A i \in DOMAIN down[t] :
              ~Waits(down[t][i]) /\ ~Told(down[t][i]) /\ ~Sent(down[t][i])
        /\ Distinct(listeners) /\ Distinct(toWatch) /\ Distinct(toPhone)
        /\ \A i \in DOMAIN listeners : ~Told(listeners[i])
        /\ \A i \in DOMAIN toWatch, j \in DOMAIN toPhone : toWatch[i] # toPhone[j]
    BY DEF IInv, Once
  <2>2. \A t \in Session : Distinct(down'[t])
    BY <1>3, <1>5, <2>1 DEF Distinct
  <2>3. \A t \in Session : \A i \in DOMAIN down'[t] :
              ~Waits(down[t][i])' /\ ~Told(down[t][i])' /\ ~Sent(down[t][i])'
    BY <1>3, <1>5, <1>7, <1>8, <2>1
  <2>4. /\ Distinct(listeners') /\ Distinct(toWatch') /\ Distinct(toPhone')
        /\ \A i \in DOMAIN listeners' : ~Told(listeners[i])'
        /\ \A i \in DOMAIN toWatch', j \in DOMAIN toPhone' : toWatch'[i] # toPhone'[j]
    <3>1. \A i \in DOMAIN listeners : listeners[i] \in DOMAIN asked
      BY Parts
    <3> QED
      BY <1>7, <2>1, <3>1
  <2>5. /\ \A t \in Session : \A i \in DOMAIN up'[t] :
             Kind(up[t][i].for)' \in Alarms =>
                /\ \A j \in DOMAIN up'[t] : up'[t][j].for = up'[t][i].for => j = i
                /\ \A r \in answers' : r.for # up'[t][i].for
        /\ \A q, r \in answers' : q.for = r.for /\ Kind(q.for)' \in Alarms => q = r
    <3>1. /\ \A t \in Session : \A i \in DOMAIN up[t] :
                Kind(up[t][i].for) \in Alarms =>
                   /\ \A j \in DOMAIN up[t] : up[t][j].for = up[t][i].for => j = i
                   /\ \A r \in answers : r.for # up[t][i].for
          /\ \A q, r \in answers : q.for = r.for /\ Kind(q.for) \in Alarms => q = r
      BY DEF IInv, Once
    <3>2. \A q, r \in answers' : q.for = r.for /\ Kind(q.for)' \in Alarms => q = r
      BY <1>6, <3>1
    <3>3. ASSUME NEW t \in Session, NEW i \in DOMAIN up'[t],
                 Kind(up[t][i].for)' \in Alarms
          PROVE  /\ \A j \in DOMAIN up'[t] : up'[t][j].for = up'[t][i].for => j = i
                 /\ \A r \in answers' : r.for # up'[t][i].for
      <4>1. t # s /\ up'[t] = up[t]
        BY <1>2, <1>5, <3>3
      <4>2. Kind(up[t][i].for) \in Alarms
        BY <1>6, <3>3, <4>1
      <4> QED
        BY <3>1, <3>3, <4>1, <4>2
    <3> QED
      BY <3>2, <3>3
  <2> QED
    BY <2>2, <2>3, <2>4, <2>5 DEF Once
<1>13. Pending'
  <2> SUFFICES ASSUME NEW t \in Session, t # s, open'[t], surplus'[t] = 0
               PROVE  /\ \A i \in DOMAIN down'[t] : down'[t][i] = calling'[t]
                      /\ \A i \in DOMAIN listeners' :
                            Asker(listeners[i])' = t => listeners'[i] = calling'[t]
                      /\ \A i \in DOMAIN up'[t] : up'[t][i].for = calling'[t]
    BY <1>2 DEF Pending
  <2>1. /\ open[t] /\ surplus[t] = 0 /\ down'[t] = down[t] /\ up'[t] = up[t]
        /\ calling'[t] = calling[t]
    BY <1>2, <1>3, <1>4
  <2>2. /\ \A i \in DOMAIN down[t] : down[t][i] = calling[t]
        /\ \A i \in DOMAIN listeners :
              Asker(listeners[i]) = t => listeners[i] = calling[t]
        /\ \A i \in DOMAIN up[t] : up[t][i].for = calling[t]
    BY <2>1 DEF IInv, Pending
  <2> QED
    BY <1>6, <2>1, <2>2
<1>14. Overheard'
  <2> SUFFICES ASSUME NEW x \in DOMAIN asked', Sent(x)', ~Waits(x)', open'[Asker(x)']
               PROVE  Excused(x)'
    BY DEF Overheard
  <2>1. Asker(x) \in Session /\ open[Asker(x)]
    BY <1>2, <1>6, Parts
  <2> QED
    BY <1>7, <2>1 DEF IInv, Overheard
<1>15. Mistold'
  BY <1>2, <1>5, <1>6, <1>7 DEF IInv, Mistold
<1>16. TakesExplained' /\ ListenersAwaitReply'
  BY <1>6 DEF IInv, TakesExplained, ListenersAwaitReply
<1>17. SurplusStays'
  <2> SUFFICES ASSUME NEW t \in Session, t # s, open'[t]
               PROVE  Len(up'[t]) + Unanswered(t)'
                        = surplus'[t] + (IF calling'[t] = 0 THEN 0 ELSE 1)
    BY <1>2 DEF SurplusStays
  <2>1. Unanswered(t)' = Unanswered(t)
    BY <1>3, <1>6 DEF Unanswered
  <2> QED
    BY <1>2, <1>4, <2>1 DEF IInv, SurplusStays
<1> QED
  BY <1>9, <1>10, <1>11, <1>12, <1>13, <1>14, <1>15, <1>16, <1>17 DEF IInv

\* The session ends, its connection breaks, or CallAction() gives up.
LEMMA ShutSteps ==
    ASSUME IInv, NEW s \in Session, EndSession(s) \/ Break(s) \/ ReadFails(s)
    PROVE  IInv'
<1>1. failures \subseteq DOMAIN asked /\ breaks \in 0..MaxBreaks
  BY DEF IInv, TypeOK
<1>2. CASE EndSession(s)
  BY <1>1, <1>2, ShutStep DEF EndSession, service, link
<1>3. CASE Break(s)
  <2>1. breaks' \in 0..MaxBreaks
    BY <1>1, <1>3, ActionAssumption DEF Break
  <2> QED
    BY <1>1, <1>3, <2>1, ShutStep DEF Break, service, link
<1>4. CASE ReadFails(s)
  <2>1. calling[s] \in DOMAIN asked
    BY <1>4, Parts DEF ReadFails
  <2> QED
    BY <1>1, <1>4, <2>1, ShutStep DEF ReadFails, link
<1> QED
  BY <1>2, <1>3, <1>4

\* The watch app is left.
LEMMA AppClosesStep == IInv /\ AppCloses => IInv'
<1> SUFFICES ASSUME IInv, AppCloses PROVE IInv'
  OBVIOUS
<1>1. TypeOK
  BY DEF IInv
<1>2. /\ breaks' \in 0..MaxBreaks
      /\ open' = [s \in Session |-> FALSE]
      /\ up' = [s \in Session |-> <<>>]
      /\ down' = [s \in Session |-> <<>>]
      /\ listeners' = <<>> /\ toWatch' = <<>> /\ toPhone' = <<>>
      /\ UNCHANGED <<asked, calling, answers, failures, lost, surplus>>
  BY <1>1, ActionAssumption DEF AppCloses, TypeOK, service
<1>3. /\ DOMAIN <<>> = {} /\ Len(<<>>) = 0
      /\ <<>> \in Seq(Answer) /\ <<>> \in Seq(DOMAIN asked)
  BY EmptySeq
<1>4. /\ \A s \in Session : /\ DOMAIN up'[s] = {} /\ DOMAIN down'[s] = {}
                            /\ Len(down'[s]) = 0 /\ open'[s] = FALSE
                            /\ up'[s] = <<>>
      /\ DOMAIN listeners' = {} /\ DOMAIN toWatch' = {} /\ DOMAIN toPhone' = {}
  BY <1>2, <1>3
<1>5. \A a : Asker(a)' = Asker(a) /\ Kind(a)' = Kind(a)
  BY <1>2 DEF Asker, Kind
<1>6. TypeOK'
  BY <1>1, <1>2, <1>3 DEF TypeOK
<1>7. Owned'
  <2>1. ASSUME NEW s \in Session PROVE surplus[s] <= 2 * (Len(asked) - 0)
    <3> DEFINE n == Len(asked)
               d == Len(down[s])
    <3>1. surplus[s] <= 2 * (n - d) /\ surplus[s] \in Nat /\ n \in Nat /\ d \in Nat
      BY Parts DEF IInv, Owned
    <3> HIDE DEF n, d
    <3>2. surplus[s] <= 2 * (n - 0)
      BY <3>1
    <3> QED
      BY <3>2 DEF n
  <2> QED
    BY <1>2, <1>4, <2>1 DEF IInv, Owned
<1>8. Newest'
  BY <1>2, <1>5 DEF IInv, Newest
<1>9. Once'
  BY <1>2, <1>4, <1>5 DEF IInv, Once, Distinct
<1>10. Pending' /\ Mistold' /\ SurplusStays'
  BY <1>4 DEF Pending, Mistold, SurplusStays
<1>11. Overheard'
  BY <1>4 DEF Overheard, Sent
<1>12. TakesExplained' /\ ListenersAwaitReply'
  BY <1>2, <1>4, <1>5 DEF IInv, TakesExplained, ListenersAwaitReply
<1> QED
  BY <1>6, <1>7, <1>8, <1>9, <1>10, <1>11, <1>12 DEF IInv

-----------------------------------------------------------------------------
(* The service.                                                            *)

\* A new action: nothing there is of it yet but its request.
LEMMA CallActionStep ==
    ASSUME IInv, NEW s \in Session, NEW kind \in Kinds, CallAction(s, kind)
    PROVE  IInv'
<1> DEFINE rec == [session |-> s, kind |-> kind]
           n == Len(asked)
<1>0. PICK a : a = n + 1
  OBVIOUS
<1>1. TypeOK
  BY DEF IInv
<1>2. /\ open[s] /\ calling[s] = 0 /\ n < MaxActions
      /\ asked' = Append(asked, rec)
      /\ calling' = [calling EXCEPT ![s] = a]
      /\ down' = [down EXCEPT ![s] = Append(@, a)]
      /\ UNCHANGED <<answers, failures, open, up, listeners, toWatch, toPhone,
                     lost, surplus, breaks>>
  BY <1>0 DEF CallAction, Number, link
<1>3. rec \in [session : Session, kind : Kinds] /\ rec.session = s /\ rec.kind = kind
  OBVIOUS
<1> HIDE DEF rec
<1>4. /\ asked' \in Seq([session : Session, kind : Kinds]) /\ Len(asked') = a
      /\ n \in Nat /\ DOMAIN asked = 1..n
      /\ DOMAIN asked' = DOMAIN asked \union {a} /\ a \notin DOMAIN asked
      /\ \A x \in DOMAIN asked : asked'[x] = asked[x]
      /\ asked'[a] = rec
  <2>1. asked \in Seq([session : Session, kind : Kinds])
    BY <1>1 DEF TypeOK
  <2> QED
    BY <1>0, <1>2, <1>3, <2>1, Added
<1>5. /\ \A x \in DOMAIN asked : Asker(x)' = Asker(x) /\ Kind(x)' = Kind(x)
      /\ Asker(a)' = s /\ Kind(a)' = kind
  BY <1>3, <1>4 DEF Asker, Kind
<1>6. calling'[s] = a /\ \A t \in Session : t # s => calling'[t] = calling[t]
  BY <1>1, <1>2 DEF TypeOK
<1>7. /\ down'[s] = Append(down[s], a)
      /\ \A t \in Session : t # s => down'[t] = down[t]
  BY <1>1, <1>2 DEF TypeOK
<1>8. Seq(DOMAIN asked) \subseteq Seq(DOMAIN asked')
  BY <1>4, SeqMonotonic
<1> DEFINE d == Len(down[s])
<1>9. /\ down'[s] \in Seq(DOMAIN asked') /\ Len(down'[s]) = d + 1 /\ d \in Nat
      /\ DOMAIN down'[s] = DOMAIN down[s] \union {d + 1} /\ d + 1 \notin DOMAIN down[s]
      /\ \A i \in DOMAIN down[s] : down'[s][i] = down[s][i]
      /\ down'[s][d + 1] = a
  <2>1. down[s] \in Seq(DOMAIN asked') /\ a \in DOMAIN asked'
    BY <1>4, <1>8, Parts
  <2> QED
    BY <1>7, <2>1, Added
<1> DEFINE z == d + 1
<1>10. /\ DOMAIN down'[s] = DOMAIN down[s] \union {z} /\ z \notin DOMAIN down[s]
       /\ down'[s][z] = a
  BY <1>9
<1>11. a \in Nat /\ a # 0 /\ a <= MaxActions /\ n <= a /\ \A x \in DOMAIN asked : x <= a
       /\ a \in 0..a
  BY <1>0, <1>2, <1>4, Parts
<1> HIDE DEF n, d, z
\* Nothing else knows of the new action.
<1>12. /\ \A t \in Session : \A i \in DOMAIN down[t] : down[t][i] \in DOMAIN asked
       /\ \A t \in Session : \A i \in DOMAIN up[t] : up[t][i].for \in DOMAIN asked
       /\ \A i \in DOMAIN listeners : listeners[i] \in DOMAIN asked
       /\ \A i \in DOMAIN toWatch : toWatch[i] \in DOMAIN asked
       /\ \A i \in DOMAIN toPhone : toPhone[i] \in DOMAIN asked
       /\ \A r \in answers : r.for \in DOMAIN asked /\ r.to \in DOMAIN asked
  BY Parts DEF IInv, Owned
<1>13. /\ \A x : (Waits(x)' <=> Waits(x)) /\ (Sent(x)' <=> Sent(x))
       /\ \A x \in DOMAIN asked : Told(x)' <=> Told(x)
       /\ ~Waits(a) /\ ~Sent(a) /\ ~Told(a)'
  BY <1>2, <1>4, <1>5, <1>12 DEF Waits, Sent, Told
<1>14. \A x \in DOMAIN asked : Excused(x) => Excused(x)'
  <2>1. \A x \in DOMAIN asked : Beside(x) => Beside(x)'
    BY <1>4, <1>5 DEF Beside
  <2> QED
    BY <1>2, <1>5, <2>1 DEF Excused
<1>15. TypeOK'
  <2>1. calling' \in [Session -> 0..Len(asked')]
    <3>1. 0..n \subseteq 0..a
      BY <1>4, <1>11
    <3> QED
      BY <1>1, <1>2, <1>4, <1>11, <3>1 DEF TypeOK, n
  <2>2. down' \in [Session -> Seq(DOMAIN asked')]
    BY <1>1, <1>2, <1>7, <1>8, <1>9 DEF TypeOK
  <2>3. /\ listeners' \in Seq(DOMAIN asked') /\ toWatch' \in Seq(DOMAIN asked')
        /\ toPhone' \in Seq(DOMAIN asked')
    BY <1>1, <1>2, <1>8 DEF TypeOK
  <2> QED
    BY <1>1, <1>2, <1>4, <1>11, <2>1, <2>2, <2>3 DEF TypeOK
<1>16. Owned'
  <2>1. ASSUME NEW t \in Session
        PROVE  surplus[t] <= 2 * (a - Len(down'[t]))
    <3> DEFINE e == Len(down[t])
    <3>1. surplus[t] <= 2 * (n - e) /\ surplus[t] \in Nat /\ e \in Nat
      BY Parts DEF IInv, Owned, n
    <3>2. Len(down'[t]) = e \/ Len(down'[t]) = e + 1
      BY <1>7, <1>9 DEF d
    <3>3. a = n + 1
      BY <1>0
    <3> DEFINE f == Len(down'[t])
    <3> HIDE DEF e, f
    <3>4. surplus[t] <= 2 * (a - f)
      <4>1. f = e \/ f = e + 1
        BY <3>2 DEF f
      <4> QED
        BY <1>4, <3>1, <3>3, <4>1
    <3> QED
      BY <3>4 DEF f
  <2>2. ASSUME NEW t \in Session, NEW i \in DOMAIN down'[t]
        PROVE  Asker(down[t][i])' = t
    <3>1. CASE t = s /\ i = z
      BY <1>5, <1>10, <3>1
    <3>2. CASE i \in DOMAIN down[t] /\ down'[t][i] = down[t][i]
      BY <1>5, <1>12, <3>2 DEF IInv, Owned
    <3> QED
      BY <1>7, <1>9, <1>10, <2>2, <3>1, <3>2
  <2>3. \A t \in Session : \A i \in DOMAIN up'[t] :
          /\ up'[t][i].for \in DOMAIN asked' /\ Asker(up[t][i].for)' = t
          /\ up'[t][i].from \in {0} \union DOMAIN asked'
    BY <1>2, <1>4, <1>5 DEF IInv, Owned
  <2>4. \A r \in answers' : /\ r.for \in DOMAIN asked'
                            /\ r.to \in DOMAIN asked'
                            /\ r.from \in {0} \union DOMAIN asked'
    BY <1>2, <1>4 DEF IInv, Owned
  <2>5. \A t \in Session : ~open'[t] => up'[t] = <<>>
    BY <1>2 DEF IInv, Owned
  <2> QED
    BY <1>2, <1>4, <2>1, <2>2, <2>3, <2>4, <2>5 DEF Owned
<1>17. Newest'
  <2> SUFFICES ASSUME NEW t \in Session, calling'[t] # 0
               PROVE  /\ Asker(calling[t])' = t
                      /\ \A b \in DOMAIN asked' : Asker(b)' = t => b <= calling'[t]
    BY DEF Newest
  <2>1. CASE t = s
    BY <1>4, <1>5, <1>6, <1>11, <2>1
  <2>2. CASE t # s
    <3>1. /\ calling'[t] = calling[t] /\ calling[t] \in DOMAIN asked
          /\ Asker(calling[t]) = t
          /\ \A b \in DOMAIN asked : Asker(b) = t => b <= calling[t]
      BY <1>6, <2>2, Parts DEF IInv, Newest
    <3> DEFINE c == calling[t]
    <3>2. Asker(c)' = Asker(c) /\ c' = c
      BY <1>5, <3>1
    <3>3. \A b \in DOMAIN asked' : Asker(b)' = t => b <= calling[t]
      BY <1>4, <1>5, <2>2, <3>1
    <3>4. Asker(calling[t])' = t
      BY <3>1, <3>2
    <3> QED
      BY <3>1, <3>3, <3>4
  <2> QED
    BY <2>1, <2>2
<1>18. Once'
  <2>1. /\ \A t \in Session : Distinct(down[t])
        /\ \A t \in Session : \A i \in DOMAIN down[t] :
              ~Waits(down[t][i]) /\ ~Told(down[t][i]) /\ ~Sent(down[t][i])
        /\ Distinct(listeners) /\ Distinct(toWatch) /\ Distinct(toPhone)
        /\ \A i \in DOMAIN listeners : ~Told(listeners[i])
        /\ \A i \in DOMAIN toWatch, j \in DOMAIN toPhone : toWatch[i] # toPhone[j]
    BY DEF IInv, Once
  <2>2. ASSUME NEW t \in Session
        PROVE  /\ Distinct(down'[t])
               /\ \A i \in DOMAIN down'[t] :
                    ~Waits(down[t][i])' /\ ~Told(down[t][i])' /\ ~Sent(down[t][i])'
    <3>1. CASE t = s
      <4>1. Distinct(down'[s])
        BY <1>4, <1>9, <1>10, <1>12, <2>1 DEF Distinct
      <4>2. ASSUME NEW i \in DOMAIN down'[s]
            PROVE  ~Waits(down[s][i])' /\ ~Told(down[s][i])' /\ ~Sent(down[s][i])'
        <5>1. CASE i = z
          <6>1. down'[s][i] = a
            BY <1>10, <5>1
          <6> QED
            BY <1>13, <6>1
        <5>2. CASE i \in DOMAIN down[s]
          <6>1. down'[s][i] = down[s][i] /\ down[s][i] \in DOMAIN asked
            BY <1>9, <1>12, <5>2
          <6>2. ~Waits(down[s][i]) /\ ~Told(down[s][i]) /\ ~Sent(down[s][i])
            BY <2>1, <5>2
          <6> QED
            BY <1>13, <6>1, <6>2
        <5> QED
          BY <1>10, <4>2, <5>1, <5>2
      <4> QED
        BY <3>1, <4>1, <4>2
    <3>2. CASE t # s
      BY <1>7, <1>12, <1>13, <2>1, <3>2
    <3> QED
      BY <3>1, <3>2
  <2>3. /\ Distinct(listeners') /\ Distinct(toWatch') /\ Distinct(toPhone')
        /\ \A i \in DOMAIN listeners' : ~Told(listeners[i])'
        /\ \A i \in DOMAIN toWatch', j \in DOMAIN toPhone' : toWatch'[i] # toPhone'[j]
    BY <1>2, <1>12, <1>13, <2>1
  <2>4. ASSUME NEW t \in Session, NEW i \in DOMAIN up'[t],
               Kind(up[t][i].for)' \in Alarms
        PROVE  /\ \A j \in DOMAIN up'[t] : up'[t][j].for = up'[t][i].for => j = i
               /\ \A r \in answers' : r.for # up'[t][i].for
    <3>1. Kind(up[t][i].for) \in Alarms
      BY <1>2, <1>5, <1>12, <2>4
    <3> QED
      BY <1>2, <2>4, <3>1 DEF IInv, Once
  <2>5. \A q, r \in answers' : q.for = r.for /\ Kind(q.for)' \in Alarms => q = r
    BY <1>2, <1>5, <1>12 DEF IInv, Once
  <2> QED
    BY <2>2, <2>3, <2>4, <2>5 DEF Once
<1>19. Pending'
  <2> SUFFICES ASSUME NEW t \in Session, open'[t], surplus'[t] = 0
               PROVE  /\ \A i \in DOMAIN down'[t] : down'[t][i] = calling'[t]
                      /\ \A i \in DOMAIN listeners' :
                            Asker(listeners[i])' = t => listeners'[i] = calling'[t]
                      /\ \A i \in DOMAIN up'[t] : up'[t][i].for = calling'[t]
    BY DEF Pending
  <2>1. /\ \A i \in DOMAIN down[t] : down[t][i] = calling[t]
        /\ \A i \in DOMAIN listeners :
              Asker(listeners[i]) = t => listeners[i] = calling[t]
        /\ \A i \in DOMAIN up[t] : up[t][i].for = calling[t]
    BY <1>2 DEF IInv, Pending
\* Nothing was left of the actions before.
  <2>2. CASE t = s
    <3>1. \A x \in DOMAIN asked : x # 0
      BY <1>4
    <3>2. /\ DOMAIN down[s] = {} /\ DOMAIN up[s] = {}
          /\ \A i \in DOMAIN listeners : Asker(listeners[i]) # s
      BY <1>2, <1>12, <2>1, <2>2, <3>1
    <3> QED
      BY <1>2, <1>5, <1>6, <1>10, <1>12, <2>2, <3>2
  <2>3. CASE t # s
    BY <1>2, <1>5, <1>6, <1>7, <1>12, <2>1, <2>3
  <2> QED
    BY <2>2, <2>3
<1>20. Overheard'
  <2> SUFFICES ASSUME NEW x \in DOMAIN asked', Sent(x)', ~Waits(x)', open'[Asker(x)']
               PROVE  Excused(x)'
    BY DEF Overheard
  <2>1. x \in DOMAIN asked /\ Sent(x) /\ ~Waits(x) /\ open[Asker(x)]
    BY <1>2, <1>4, <1>5, <1>13
  <2> QED
    BY <1>14, <2>1 DEF IInv, Overheard
<1>21. Mistold'
  <2> SUFFICES ASSUME NEW t \in Session, NEW i \in DOMAIN up[t],
                      up[t][i].from \notin {0, up[t][i].for}
               PROVE  /\ Kind(up[t][i].from)' = Kind(up[t][i].for)'
                      /\ Excused(up[t][i].for)'
    BY <1>2 DEF Mistold
  <2>1. up[t][i].for \in DOMAIN asked /\ up[t][i].from \in DOMAIN asked
    BY DEF IInv, Owned
  <2>2. Kind(up[t][i].from) = Kind(up[t][i].for) /\ Excused(up[t][i].for)
    BY DEF IInv, Mistold
  <2>3. up'[t][i].from = up[t][i].from /\ up'[t][i].for = up[t][i].for
    BY <1>2
  <2> QED
    BY <1>5, <1>14, <2>1, <2>2, <2>3
<1>22. TakesExplained'
  <2> SUFFICES ASSUME NEW r \in answers
               PROVE  /\ Asker(r.for)' = Asker(r.to)'
                      /\ r.for # r.to => r.for < r.to /\ surplus'[Asker(r.to)'] > 0
                      /\ r.from \notin {0, r.for} =>
                            /\ Kind(r.from)' = Kind(r.for)'
                            /\ \/ surplus'[Asker(r.to)'] > 0
                               \/ \E b \in DOMAIN asked' :
                                     Asker(b)' # Asker(r.to)' /\ Kind(b)' = Kind(r.for)'
    BY <1>2 DEF TakesExplained
  <2>1. r.for \in DOMAIN asked /\ r.to \in DOMAIN asked
        /\ r.from \in {0} \union DOMAIN asked
    BY DEF IInv, Owned
  <2>2. /\ Asker(r.for) = Asker(r.to)
        /\ r.for # r.to => r.for < r.to /\ surplus[Asker(r.to)] > 0
        /\ r.from \notin {0, r.for} =>
              /\ Kind(r.from) = Kind(r.for)
              /\ \/ surplus[Asker(r.to)] > 0
                 \/ \E b \in DOMAIN asked :
                       Asker(b) # Asker(r.to) /\ Kind(b) = Kind(r.for)
    BY DEF IInv, TakesExplained
  <2> QED
    BY <1>2, <1>4, <1>5, <2>1, <2>2
<1>23. ListenersAwaitReply'
  BY <1>2 DEF IInv, ListenersAwaitReply
<1>24. SurplusStays'
  <2> SUFFICES ASSUME NEW t \in Session, open[t]
               PROVE  Len(up[t]) + Unanswered(t)'
                        = surplus[t] + (IF calling'[t] = 0 THEN 0 ELSE 1)
    BY <1>2 DEF SurplusStays
  <2> DEFINE w == Cardinality(Waiting(t))
             u == Len(up[t])
             e == Len(down[t])
  <2>1. Waiting(t)' = Waiting(t)
    BY <1>2, <1>5, <1>12 DEF Waiting
  <2>2. Unanswered(t)' = Len(down'[t]) + w
    BY <2>1 DEF Unanswered, Waiting
  <2>3. /\ Unanswered(t) = e + w /\ w \in Nat /\ u \in Nat /\ e \in Nat
        /\ surplus[t] \in Nat
    BY Counted, Parts
  <2>4. u + Unanswered(t) = surplus[t] + (IF calling[t] = 0 THEN 0 ELSE 1)
    BY DEF IInv, SurplusStays
  <2> HIDE DEF w, u, e
  <2>5. CASE t = s
    <3>1. Len(down'[t]) = e + 1 /\ calling[t] = 0 /\ calling'[t] # 0
      BY <1>2, <1>6, <1>9, <1>11, <2>5 DEF e, d
    <3>2. u + (e + w) = surplus[t]
      BY <2>3, <2>4, <3>1
    <3>3. u + Unanswered(t)' = surplus[t] + 1
      BY <2>2, <2>3, <3>1, <3>2
    <3> QED
      BY <3>1, <3>3 DEF u
  <2>6. CASE t # s
    <3>1. Len(down'[t]) = e /\ calling'[t] = calling[t]
      BY <1>6, <1>7, <2>6 DEF e
    <3> QED
      BY <2>2, <2>3, <2>4, <3>1 DEF u
  <2> QED
    BY <2>5, <2>6
<1> QED
  BY <1>15, <1>16, <1>17, <1>18, <1>19, <1>20, <1>21, <1>22, <1>23, <1>24 DEF IInv

\* CallAction() returns: the answer was given for its own action, or why not
\* is explained.
LEMMA ReadStep ==
    ASSUME IInv, NEW s \in Session, Read(s)
    PROVE  IInv'
<1>1. TypeOK
  BY DEF IInv
<1>2. PICK c : c = calling[s]
  OBVIOUS
<1>3. PICK h : h = up[s][1]
  OBVIOUS
<1>4. PICK rec : rec = [to |-> c, for |-> h.for, from |-> h.from]
  OBVIOUS
<1>5. rec.to = c /\ rec.for = h.for /\ rec.from = h.from
  BY <1>4
<1> DEFINE q == up[s]
           t == Tail(q)
<1>6. q \in Seq(Answer) /\ q # <<>> /\ c # 0
  BY <1>2, Parts DEF Read
<1>7. /\ t \in Seq(Answer) /\ Head(q) = h
      /\ Len(q) \in Nat \ {0} /\ Len(t) = Len(q) - 1 /\ 1 \in DOMAIN q
      /\ \A i \in DOMAIN t : i + 1 \in DOMAIN q /\ t[i] = q[i + 1]
      /\ \A i \in DOMAIN t : i \in Nat /\ i >= 1
  BY <1>3, <1>6, Taken
<1>8. /\ up' = [up EXCEPT ![s] = t] /\ answers' = answers \union {rec}
      /\ calling' = [calling EXCEPT ![s] = 0]
      /\ UNCHANGED <<asked, failures, open, down, listeners, toWatch, toPhone,
                     lost, surplus, breaks>>
  BY <1>2, <1>4, <1>7 DEF Read, Return, link
<1>9. /\ up'[s] = t /\ \A x \in Session : x # s => up'[x] = up[x]
      /\ calling'[s] = 0 /\ \A x \in Session : x # s => calling'[x] = calling[x]
  BY <1>1, <1>8 DEF TypeOK
<1>10. \A a : Asker(a)' = Asker(a) /\ Kind(a)' = Kind(a)
  BY <1>8 DEF Asker, Kind
<1> HIDE DEF t
\* What remains to be read was there before.
<1>11. /\ \A i \in DOMAIN t : /\ i + 1 \in DOMAIN up[s] /\ t[i] = up[s][i + 1]
                              /\ i + 1 # 1
       /\ up[s][1] = h /\ 1 \in DOMAIN up[s]
       /\ \A i, j \in DOMAIN t : i + 1 = j + 1 => i = j
  BY <1>3, <1>7
<1>12. ASSUME NEW x \in Session, NEW i \in DOMAIN up'[x]
       PROVE  \E j \in DOMAIN up[x] : up'[x][i] = up[x][j]
  <2>1. CASE x = s
    BY <1>9, <1>11, <1>12, <2>1
  <2>2. CASE x # s
    BY <1>9, <1>12, <2>2
  <2> QED
    BY <2>1, <2>2
<1>13. open[s]
  BY <1>6 DEF IInv, Owned
<1>14. h.for \in DOMAIN asked /\ Asker(h.for) = s /\ h.from \in {0} \union DOMAIN asked
  BY <1>11 DEF IInv, Owned
<1>15. c \in DOMAIN asked /\ Asker(c) = s /\ h.for <= c
  <2>1. c \in DOMAIN asked
    BY <1>2, <1>6, Parts
  <2>2. Asker(c) = s /\ \A b \in DOMAIN asked : Asker(b) = s => b <= c
    BY <1>2, <1>6 DEF IInv, Newest
  <2> QED
    BY <1>14, <2>1, <2>2
<1>16. /\ \A a : (Waits(a)' <=> Waits(a)) /\ (Sent(a)' <=> Sent(a))
       /\ \A a : Excused(a)' <=> Excused(a)
  BY <1>8, <1>10 DEF Waits, Sent, Excused, Beside
<1>17. ASSUME NEW a \in DOMAIN asked, Told(a)' PROVE Told(a)
  <2>1. Asker(a)' = Asker(a) /\ Asker(a) \in Session
    BY <1>10, Parts
  <2>2. CASE \E i \in DOMAIN up'[Asker(a)] : up'[Asker(a)][i].for = a
    BY <1>12, <2>1, <2>2 DEF Told
  <2>3. CASE \E r \in answers : r.for = a
    BY <2>3 DEF Told
  <2>4. CASE rec.for = a
    BY <1>5, <1>11, <1>14, <2>4 DEF Told
  <2> QED
    BY <1>8, <1>17, <2>1, <2>2, <2>3, <2>4 DEF Told
<1>18. TypeOK'
  <2>1. rec \in [to : ActionId, for : ActionId, from : 0..MaxActions]
    <3>1. DOMAIN asked \subseteq ActionId /\ ActionId \subseteq 0..MaxActions
          /\ 0 \in 0..MaxActions
      BY <1>1, Parts, ActionAssumption DEF TypeOK, ActionId
    <3>2. c \in ActionId /\ h.for \in ActionId /\ h.from \in 0..MaxActions
      BY <1>14, <1>15, <3>1
    <3> QED
      BY <1>4, <3>2
  <2>2. calling' \in [Session -> 0..Len(asked)]
    <3>1. 0 \in 0..Len(asked)
      BY Parts
    <3> QED
      BY <1>1, <1>8, <3>1 DEF TypeOK
  <2>3. up' \in [Session -> Seq(Answer)]
    BY <1>1, <1>7, <1>8 DEF TypeOK, t
  <2> QED
    BY <1>1, <1>8, <2>1, <2>2, <2>3 DEF TypeOK
<1>19. Owned'
  <2>1. \A x \in Session : \A i \in DOMAIN down'[x] : Asker(down[x][i])' = x
    BY <1>8, <1>10 DEF IInv, Owned
  <2>2. ASSUME NEW x \in Session, NEW i \in DOMAIN up'[x]
        PROVE  /\ up'[x][i].for \in DOMAIN asked' /\ Asker(up[x][i].for)' = x
               /\ up'[x][i].from \in {0} \union DOMAIN asked'
    <3>1. PICK j \in DOMAIN up[x] : up'[x][i] = up[x][j]
      BY <1>12
    <3>2. /\ up[x][j].for \in DOMAIN asked /\ Asker(up[x][j].for) = x
          /\ up[x][j].from \in {0} \union DOMAIN asked
      BY DEF IInv, Owned
    <3> QED
      BY <1>8, <1>10, <3>1, <3>2
  <2>3. \A x \in Session : ~open'[x] => up'[x] = <<>>
    BY <1>8, <1>9, <1>13 DEF IInv, Owned
  <2>4. \A r \in answers' : /\ r.for \in DOMAIN asked'
                            /\ r.to \in DOMAIN asked'
                            /\ r.from \in {0} \union DOMAIN asked'
    BY <1>5, <1>8, <1>14, <1>15 DEF IInv, Owned
  <2>5. \A x \in Session : surplus'[x] <= 2 * (Len(asked') - Len(down'[x]))
    BY <1>8 DEF IInv, Owned
  <2> QED
    BY <2>1, <2>2, <2>3, <2>4, <2>5 DEF Owned
<1>20. Newest'
  <2> SUFFICES ASSUME NEW x \in Session, calling'[x] # 0
               PROVE  /\ Asker(calling[x])' = x
                      /\ \A b \in DOMAIN asked' : Asker(b)' = x => b <= calling'[x]
    BY DEF Newest
  <2>1. x # s /\ calling'[x] = calling[x]
    BY <1>9
  <2>2. /\ Asker(calling[x]) = x
        /\ \A b \in DOMAIN asked : Asker(b) = x => b <= calling[x]
    BY <2>1 DEF IInv, Newest
  <2> QED
    BY <1>8, <1>10, <2>1, <2>2
<1>21. Once'
  <2>1. /\ \A x \in Session : Distinct(down[x])
        /\ \A x \in Session : \A i \in DOMAIN down[x] :
              ~Waits(down[x][i]) /\ ~Told(down[x][i]) /\ ~Sent(down[x][i])
        /\ Distinct(listeners) /\ Distinct(toWatch) /\ Distinct(toPhone)
        /\ \A i \in DOMAIN listeners : ~Told(listeners[i])
        /\ \A i \in DOMAIN toWatch, j \in DOMAIN toPhone : toWatch[i] # toPhone[j]
    BY DEF IInv, Once
  <2>2. /\ \A x \in Session : \A i \in DOMAIN down[x] : down[x][i] \in DOMAIN asked
        /\ \A i \in DOMAIN listeners : listeners[i] \in DOMAIN asked
    BY Parts
  <2>3. /\ \A x \in Session : Distinct(down'[x])
        /\ \A x \in Session : \A i \in DOMAIN down'[x] :
              ~Waits(down[x][i])' /\ ~Told(down[x][i])' /\ ~Sent(down[x][i])'
        /\ Distinct(listeners') /\ Distinct(toWatch') /\ Distinct(toPhone')
        /\ \A i \in DOMAIN listeners' : ~Told(listeners[i])'
        /\ \A i \in DOMAIN toWatch', j \in DOMAIN toPhone' : toWatch'[i] # toPhone'[j]
    BY <1>8, <1>16, <1>17, <2>1, <2>2
  <2>4. /\ \A x \in Session : \A i \in DOMAIN up[x] :
              Kind(up[x][i].for) \in Alarms =>
                 /\ \A j \in DOMAIN up[x] : up[x][j].for = up[x][i].for => j = i
                 /\ \A r \in answers : r.for # up[x][i].for
        /\ \A p, r \in answers : p.for = r.for /\ Kind(p.for) \in Alarms => p = r
    BY DEF IInv, Once
  <2>5. ASSUME NEW x \in Session, NEW i \in DOMAIN up'[x],
               Kind(up[x][i].for)' \in Alarms
        PROVE  /\ \A j \in DOMAIN up'[x] : up'[x][j].for = up'[x][i].for => j = i
               /\ \A r \in answers' : r.for # up'[x][i].for
    <3>1. CASE x = s
      <4>1. Kind(up[s][i + 1].for) \in Alarms /\ i \in DOMAIN t
        BY <1>9, <1>10, <1>11, <2>5, <3>1
      <4>2. /\ \A j \in DOMAIN up[s] : up[s][j].for = up[s][i + 1].for => j = i + 1
            /\ \A r \in answers : r.for # up[s][i + 1].for
        BY <1>11, <2>4, <4>1
      <4>3. \A j \in DOMAIN t : t[j].for = t[i].for => j = i
        BY <1>11, <4>1, <4>2
      <4>4. h.for # t[i].for
        BY <1>11, <4>1, <4>2
      <4> QED
        BY <1>5, <1>8, <1>9, <1>11, <3>1, <4>1, <4>2, <4>3, <4>4
    <3>2. CASE x # s
      <4>1. up'[x] = up[x] /\ Kind(up[x][i].for) \in Alarms
        BY <1>9, <1>10, <2>5, <3>2
      <4>2. Asker(up[x][i].for) = x
        BY <4>1 DEF IInv, Owned
      <4> QED
        BY <1>5, <1>8, <1>14, <2>4, <3>2, <4>1, <4>2
    <3> QED
      BY <3>1, <3>2
  <2>6. \A p, r \in answers' : p.for = r.for /\ Kind(p.for)' \in Alarms => p = r
    BY <1>5, <1>8, <1>10, <1>11, <2>4
  <2> QED
    BY <2>3, <2>5, <2>6 DEF Once
\* The answers still to come, if none came too often, were this one.
<1>22. ASSUME surplus[s] = 0
       PROVE  /\ DOMAIN t = {} /\ DOMAIN down[s] = {}
              /\ \A i \in DOMAIN listeners : Asker(listeners[i]) # s
  <2> DEFINE n == Len(q)
             w == Cardinality(Waiting(s))
             d == Len(down[s])
             k == Len(t)
  <2>1. n + Unanswered(s) = 1
    <3>1. Len(up[s]) + Unanswered(s) = surplus[s] + 1
      BY <1>2, <1>6, <1>13 DEF IInv, SurplusStays
    <3> QED
      BY <1>22, <3>1
  <2>2. /\ IsFiniteSet(Waiting(s)) /\ w \in Nat /\ Unanswered(s) = d + w /\ d \in Nat
        /\ n \in Nat \ {0} /\ k = n - 1
    BY <1>7, Parts, Counted
  <2>3. DOMAIN t = 1..k /\ DOMAIN down[s] = 1..d
    BY <1>7, Parts, LenProperties
  <2> HIDE DEF n, w, d, k
  <2>4. w = 0 /\ d = 0 /\ k = 0
    BY <2>1, <2>2
  <2>5. Waiting(s) = {}
    BY <2>2, <2>4, FS_EmptySet DEF w
  <2> QED
    BY <2>3, <2>4, <2>5 DEF Waiting
<1>23. Pending'
  <2> SUFFICES ASSUME NEW x \in Session, open[x], surplus[x] = 0
               PROVE  /\ \A i \in DOMAIN down[x] : down[x][i] = calling'[x]
                      /\ \A i \in DOMAIN listeners :
                            Asker(listeners[i]) = x => listeners[i] = calling'[x]
                      /\ \A i \in DOMAIN up'[x] : up'[x][i].for = calling'[x]
    BY <1>8, <1>10 DEF Pending
  <2>1. CASE x = s
    BY <1>9, <1>22, <2>1
  <2>2. CASE x # s
    BY <1>9, <2>2 DEF IInv, Pending
  <2> QED
    BY <2>1, <2>2
<1>24. Overheard'
  BY <1>8, <1>10, <1>16 DEF IInv, Overheard
<1>25. Mistold'
  <2> SUFFICES ASSUME NEW x \in Session, NEW i \in DOMAIN up'[x],
                      up'[x][i].from \notin {0, up'[x][i].for}
               PROVE  /\ Kind(up[x][i].from)' = Kind(up[x][i].for)'
                      /\ Excused(up[x][i].for)'
    BY DEF Mistold
  <2>1. PICK j \in DOMAIN up[x] : up'[x][i] = up[x][j]
    BY <1>12
  <2>2. Kind(up[x][j].from) = Kind(up[x][j].for) /\ Excused(up[x][j].for)
    BY <2>1 DEF IInv, Mistold
  <2> QED
    BY <1>10, <1>16, <2>1, <2>2
<1>26. TakesExplained'
  <2> SUFFICES ASSUME NEW r \in answers'
               PROVE  /\ Asker(r.for) = Asker(r.to)
                      /\ r.for # r.to => r.for < r.to /\ surplus[Asker(r.to)] > 0
                      /\ r.from \notin {0, r.for} =>
                            /\ Kind(r.from) = Kind(r.for)
                            /\ \/ surplus[Asker(r.to)] > 0
                               \/ \E b \in DOMAIN asked :
                                     Asker(b) # Asker(r.to) /\ Kind(b) = Kind(r.for)
    BY <1>8, <1>10 DEF TakesExplained
  <2>1. CASE r \in answers
    BY <2>1 DEF IInv, TakesExplained
  <2>2. CASE r = rec
    <3>1. r.for = h.for /\ r.to = c /\ r.from = h.from
          /\ Asker(r.for) = s /\ Asker(r.to) = s
      BY <1>5, <1>14, <1>15, <2>2
    <3>2. h.for # c => h.for < c /\ surplus[s] > 0
      <4>1. h.for # c => h.for < c
        <5>1. h.for \in Nat /\ c \in Nat
          BY <1>14, <1>15, Parts
        <5> QED
          BY <1>15, <5>1
      <4>2. surplus[s] = 0 => h.for = c
        BY <1>2, <1>11, <1>13 DEF IInv, Pending
      <4>3. surplus[s] \in Nat
        BY Parts
      <4> QED
        BY <4>1, <4>2, <4>3
    <3>3. h.from \notin {0, h.for} => /\ Kind(h.from) = Kind(h.for)
                                      /\ Excused(h.for)
      BY <1>11 DEF IInv, Mistold
    <3>4. Excused(h.for) => \/ surplus[s] > 0
                            \/ \E b \in DOMAIN asked :
                                  Asker(b) # s /\ Kind(b) = Kind(h.for)
      BY <1>14 DEF Excused, Beside
    <3> QED
      BY <3>1, <3>2, <3>3, <3>4
  <2> QED
    BY <1>8, <2>1, <2>2
<1>27. ListenersAwaitReply'
  BY <1>8 DEF IInv, ListenersAwaitReply
<1>28. SurplusStays'
  <2> SUFFICES ASSUME NEW x \in Session, open[x]
               PROVE  Len(up'[x]) + Unanswered(x)
                        = surplus[x] + (IF calling'[x] = 0 THEN 0 ELSE 1)
    <3>1. \A x \in Session : Unanswered(x)' = Unanswered(x)
      BY <1>8, <1>10 DEF Unanswered
    <3> QED
      BY <1>8, <3>1 DEF SurplusStays
  <2>1. Len(up[x]) + Unanswered(x) = surplus[x] + (IF calling[x] = 0 THEN 0 ELSE 1)
    BY DEF IInv, SurplusStays
  <2>2. CASE x = s
    <3> DEFINE n == Len(q)
               k == Len(t)
               v == Unanswered(s)
    <3>1. n + v = surplus[s] + 1 /\ k = n - 1 /\ n \in Nat \ {0} /\ v \in Nat
      <4>1. v \in Nat
        <5> DEFINE d == Len(down[s])
                   w == Cardinality(Waiting(s))
        <5>1. v = d + w /\ d \in Nat /\ w \in Nat
          BY Counted, Parts
        <5> HIDE DEF v, d, w
        <5> QED
          BY <5>1
      <4>2. calling[s] # 0
        BY <1>2, <1>6
      <4>3. n + v = surplus[s] + 1
        BY <2>1, <2>2, <4>2
      <4> QED
        BY <1>7, <4>1, <4>3
    <3>2. Len(up'[s]) = k /\ surplus[s] \in Nat
      BY <1>9, Parts
    <3> HIDE DEF n, k, v
    <3>3. k + v = surplus[s]
      BY <3>1, <3>2
    <3> QED
      BY <1>9, <2>2, <3>2, <3>3 DEF v
  <2>3. CASE x # s
    BY <1>9, <2>1, <2>3
  <2> QED
    BY <2>2, <2>3
<1> QED
  BY <1>18, <1>19, <1>20, <1>21, <1>23, <1>24, <1>25, <1>26, <1>27, <1>28 DEF IInv

-----------------------------------------------------------------------------
(* The phone.                                                              *)

\* What the phone has read is no longer on its way to it: it is of s, and
\* nothing else is there of it.
LEMMA Received ==
    ASSUME IInv, NEW s \in Session, down[s] # <<>>,
           down' = [down EXCEPT ![s] = Tail(@)], NEW x, x = Head(down[s])
    PROVE  /\ x \in DOMAIN asked /\ Asker(x) = s
           /\ ~Waits(x) /\ ~Told(x) /\ ~Sent(x)
           /\ down' \in [Session -> Seq(DOMAIN asked)]
           /\ Len(down[s]) \in Nat \ {0} /\ Len(down'[s]) = Len(down[s]) - 1
           /\ \A t \in Session : t # s => down'[t] = down[t]
           /\ \A t \in Session : ToSet(down'[t]) \subseteq ToSet(down[t]) \ {x}
           /\ \A t \in Session : Distinct(down'[t])
           /\ open[s] /\ surplus[s] = 0 => x = calling[s]
<1>1. TypeOK
  BY DEF IInv
<1> DEFINE q == down[s]
           r == Tail(q)
<1>2. q \in Seq(DOMAIN asked) /\ q # <<>>
  BY Parts
<1>3. /\ r \in Seq(DOMAIN asked) /\ Head(q) = q[1] /\ q[1] \in DOMAIN asked
      /\ Len(q) \in Nat \ {0} /\ Len(r) = Len(q) - 1 /\ 1 \in DOMAIN q
      /\ \A i \in DOMAIN r : i + 1 \in DOMAIN q /\ r[i] = q[i + 1]
      /\ \A i \in DOMAIN r : i \in Nat /\ i >= 1
  BY <1>2, Taken
<1>4. x = down[s][1] /\ x \in DOMAIN asked /\ 1 \in DOMAIN down[s]
  BY <1>3
<1>5. down' \in [Session -> Seq(DOMAIN asked)] /\ down'[s] = r
      /\ \A t \in Session : t # s => down'[t] = down[t]
  BY <1>1, <1>3 DEF TypeOK
<1> HIDE DEF r
<1>6. /\ \A i \in DOMAIN r : /\ i + 1 \in DOMAIN down[s] /\ r[i] = down[s][i + 1]
                             /\ i + 1 # 1
      /\ \A i, j \in DOMAIN r : i + 1 = j + 1 => i = j
  BY <1>3
<1>7. Asker(x) = s
  BY <1>4 DEF IInv, Owned
<1>8. /\ ~Waits(x) /\ ~Told(x) /\ ~Sent(x)
      /\ \A t \in Session : Distinct(down[t])
  BY <1>4 DEF IInv, Once
<1>9. \A i \in DOMAIN r : r[i] # x
  BY <1>4, <1>6, <1>8 DEF Distinct
<1>10. ASSUME NEW t \in Session, NEW i \in DOMAIN down'[t]
       PROVE  /\ down'[t][i] # x
              /\ \E j \in DOMAIN down[t] : down'[t][i] = down[t][j]
  <2>1. CASE t = s
    BY <1>5, <1>6, <1>9, <1>10, <2>1
  <2>2. CASE t # s
    <3>1. down'[t] = down[t] /\ Asker(down[t][i]) = t
      BY <1>5, <1>10, <2>2 DEF IInv, Owned
    <3> QED
      BY <1>7, <1>10, <2>2, <3>1
  <2> QED
    BY <2>1, <2>2
<1>11. ASSUME NEW t \in Session PROVE Distinct(down'[t])
  <2>1. CASE t = s
    <3>1. Distinct(r)
      BY <1>6, <1>8 DEF Distinct
    <3> QED
      BY <1>5, <2>1, <3>1
  <2>2. CASE t # s
    BY <1>5, <1>8, <2>2
  <2> QED
    BY <2>1, <2>2
<1>12. \A t \in Session : ToSet(down'[t]) \subseteq ToSet(down[t]) \ {x}
  BY <1>10 DEF ToSet
<1>13. open[s] /\ surplus[s] = 0 => x = calling[s]
  BY <1>4 DEF IInv, Pending
<1>14. Len(down[s]) \in Nat \ {0} /\ Len(down'[s]) = Len(down[s]) - 1
  BY <1>3, <1>5
<1> QED
  BY <1>4, <1>5, <1>7, <1>8, <1>11, <1>12, <1>13, <1>14

\* The watch is asked.
LEMMA AskStep ==
    ASSUME IInv, NEW s \in Session, down[s] # <<>>,
           down' = [down EXCEPT ![s] = Tail(@)], AskWatch(Head(down[s])),
           UNCHANGED <<service, open, toPhone, lost, breaks>>
    PROVE  IInv'
<1>1. TypeOK
  BY DEF IInv
<1>2. PICK x : x = Head(down[s])
  OBVIOUS
<1>3. /\ x \in DOMAIN asked /\ Asker(x) = s
      /\ ~Waits(x) /\ ~Told(x) /\ ~Sent(x)
      /\ down' \in [Session -> Seq(DOMAIN asked)]
      /\ Len(down[s]) \in Nat \ {0} /\ Len(down'[s]) = Len(down[s]) - 1
      /\ \A t \in Session : t # s => down'[t] = down[t]
      /\ \A t \in Session : Distinct(down'[t])
      /\ open[s] /\ surplus[s] = 0 => x = calling[s]
  BY <1>2, Received
<1>4. ASSUME NEW t \in Session, NEW i \in DOMAIN down'[t]
       PROVE  down'[t][i] # x /\ \E j \in DOMAIN down[t] : down'[t][i] = down[t][j]
  <2>1. ToSet(down'[t]) \subseteq ToSet(down[t]) \ {x}
    BY <1>2, Received
  <2>2. down'[t][i] \in ToSet(down'[t])
    BY <1>4 DEF ToSet
  <2>3. \E j \in DOMAIN down[t] : down'[t][i] = down[t][j]
    BY <2>1, <2>2 DEF ToSet
  <2> QED
    BY <2>1, <2>2, <2>3
<1>5. /\ listeners' = Append(listeners, x) /\ toWatch' = Append(toWatch, x)
      /\ UNCHANGED <<asked, calling, answers, failures, open, up, toPhone, lost,
                     surplus, breaks>>
  BY <1>2 DEF AskWatch, service
<1>6. PICK l : l = Len(listeners) + 1
  OBVIOUS
<1>7. /\ listeners' \in Seq(DOMAIN asked)
      /\ DOMAIN listeners' = DOMAIN listeners \union {l} /\ l \notin DOMAIN listeners
      /\ \A i \in DOMAIN listeners : listeners'[i] = listeners[i]
      /\ listeners'[l] = x
  <2>1. listeners \in Seq(DOMAIN asked)
    BY <1>1 DEF TypeOK
  <2> QED
    BY <1>3, <1>5, <1>6, <2>1, Added
<1>8. PICK m : m = Len(toWatch) + 1
  OBVIOUS
<1>9. /\ toWatch' \in Seq(DOMAIN asked)
      /\ DOMAIN toWatch' = DOMAIN toWatch \union {m} /\ m \notin DOMAIN toWatch
      /\ \A i \in DOMAIN toWatch : toWatch'[i] = toWatch[i]
      /\ toWatch'[m] = x
  <2>1. toWatch \in Seq(DOMAIN asked)
    BY <1>1 DEF TypeOK
  <2> QED
    BY <1>3, <1>5, <1>8, <2>1, Added
<1>10. \A a : Asker(a)' = Asker(a) /\ Kind(a)' = Kind(a)
  BY <1>5 DEF Asker, Kind
<1>11. /\ \A a : Waits(a)' <=> (Waits(a) \/ a = x)
       /\ \A a : Sent(a)' <=> (Sent(a) \/ a = x)
  BY <1>5, <1>7, <1>9 DEF Waits, Sent
<1>12. /\ \A a : Told(a)' <=> Told(a)
       /\ \A a : Excused(a)' <=> Excused(a)
  BY <1>5, <1>10 DEF Told, Excused, Beside
<1>13. TypeOK'
  BY <1>1, <1>3, <1>5, <1>7, <1>9 DEF TypeOK
<1>14. Owned'
  <2>1. ASSUME NEW t \in Session
        PROVE  surplus[t] <= 2 * (Len(asked) - Len(down'[t]))
    <3> DEFINE n == Len(asked)
               d == Len(down[t])
               e == Len(down'[t])
    <3>1. surplus[t] <= 2 * (n - d) /\ surplus[t] \in Nat /\ n \in Nat /\ d \in Nat
      BY Parts DEF IInv, Owned
    <3>2. e = d \/ e = d - 1
      BY <1>3
    <3> HIDE DEF n, d, e
    <3>3. surplus[t] <= 2 * (n - e)
      BY <3>1, <3>2
    <3> QED
      BY <3>3 DEF n, e
  <2>2. ASSUME NEW t \in Session, NEW i \in DOMAIN down'[t]
        PROVE  Asker(down[t][i])' = t
    <3>1. PICK j \in DOMAIN down[t] : down'[t][i] = down[t][j]
      BY <1>4, <2>2
    <3>2. Asker(down[t][j]) = t
      BY DEF IInv, Owned
    <3> QED
      BY <1>10, <3>1, <3>2
  <2>3. /\ \A t \in Session : \A i \in DOMAIN up'[t] :
            /\ up'[t][i].for \in DOMAIN asked' /\ Asker(up[t][i].for)' = t
            /\ up'[t][i].from \in {0} \union DOMAIN asked'
        /\ \A t \in Session : ~open'[t] => up'[t] = <<>>
        /\ \A r \in answers' : /\ r.for \in DOMAIN asked'
                               /\ r.to \in DOMAIN asked'
                               /\ r.from \in {0} \union DOMAIN asked'
    BY <1>5, <1>10 DEF IInv, Owned
  <2> QED
    BY <1>5, <2>1, <2>2, <2>3 DEF Owned
<1>15. Newest' /\ TakesExplained'
  BY <1>5, <1>10 DEF IInv, Newest, TakesExplained
<1>16. Once'
  <2>1. /\ \A t \in Session : \A i \in DOMAIN down[t] :
              ~Waits(down[t][i]) /\ ~Told(down[t][i]) /\ ~Sent(down[t][i])
        /\ Distinct(listeners) /\ Distinct(toWatch) /\ Distinct(toPhone)
        /\ \A i \in DOMAIN listeners : ~Told(listeners[i])
        /\ \A i \in DOMAIN toWatch, j \in DOMAIN toPhone : toWatch[i] # toPhone[j]
    BY DEF IInv, Once
  <2>2. \A t \in Session : \A i \in DOMAIN down'[t] :
              ~Waits(down[t][i])' /\ ~Told(down[t][i])' /\ ~Sent(down[t][i])'
    BY <1>11, <1>12, <1>4, <2>1
  <2>3. /\ \A i \in DOMAIN listeners : listeners[i] # x
        /\ \A i \in DOMAIN toWatch : toWatch[i] # x
        /\ \A i \in DOMAIN toPhone : toPhone[i] # x
    BY <1>3 DEF Waits, Sent
  <2>4. Distinct(listeners') /\ Distinct(toWatch') /\ Distinct(toPhone')
    BY <1>5, <1>7, <1>9, <2>1, <2>3 DEF Distinct
  <2>5. /\ \A i \in DOMAIN listeners' : ~Told(listeners[i])'
        /\ \A i \in DOMAIN toWatch', j \in DOMAIN toPhone' : toWatch'[i] # toPhone'[j]
    BY <1>3, <1>5, <1>7, <1>9, <1>12, <2>1, <2>3
  <2>6. /\ \A t \in Session : \A i \in DOMAIN up'[t] :
              Kind(up[t][i].for)' \in Alarms =>
                 /\ \A j \in DOMAIN up'[t] : up'[t][j].for = up'[t][i].for => j = i
                 /\ \A r \in answers' : r.for # up'[t][i].for
        /\ \A p, r \in answers' : p.for = r.for /\ Kind(p.for)' \in Alarms => p = r
    BY <1>5 DEF IInv, Once, Kind
  <2> QED
    BY <1>3, <2>2, <2>4, <2>5, <2>6 DEF Once
<1>17. Pending'
  <2> SUFFICES ASSUME NEW t \in Session, open[t], surplus[t] = 0
               PROVE  /\ \A i \in DOMAIN down'[t] : down'[t][i] = calling[t]
                      /\ \A i \in DOMAIN listeners' :
                            Asker(listeners'[i]) = t => listeners'[i] = calling[t]
                      /\ \A i \in DOMAIN up[t] : up[t][i].for = calling[t]
    BY <1>5, <1>10 DEF Pending
  <2>1. /\ \A i \in DOMAIN down[t] : down[t][i] = calling[t]
        /\ \A i \in DOMAIN listeners :
              Asker(listeners[i]) = t => listeners[i] = calling[t]
        /\ \A i \in DOMAIN up[t] : up[t][i].for = calling[t]
    BY DEF IInv, Pending
  <2>2. \A i \in DOMAIN down'[t] : down'[t][i] = calling[t]
    BY <1>4, <2>1
  <2>3. \A i \in DOMAIN listeners' :
            Asker(listeners'[i]) = t => listeners'[i] = calling[t]
    BY <1>3, <1>7, <2>1
  <2> QED
    BY <2>1, <2>2, <2>3
<1>18. Overheard'
  <2> SUFFICES ASSUME NEW a \in DOMAIN asked, Sent(a)', ~Waits(a)', open[Asker(a)]
               PROVE  Excused(a)'
    BY <1>5, <1>10 DEF Overheard
  <2>1. Sent(a) /\ ~Waits(a)
    BY <1>11
  <2> QED
    BY <1>12, <2>1 DEF IInv, Overheard
<1>19. Mistold'
  <2> SUFFICES ASSUME NEW t \in Session, NEW i \in DOMAIN up[t],
                      up[t][i].from \notin {0, up[t][i].for}
               PROVE  /\ Kind(up[t][i].from)' = Kind(up[t][i].for)'
                      /\ Excused(up[t][i].for)'
    BY <1>5 DEF Mistold
  <2>1. Kind(up[t][i].from) = Kind(up[t][i].for) /\ Excused(up[t][i].for)
    BY DEF IInv, Mistold
  <2>2. up'[t][i] = up[t][i]
    BY <1>5
  <2> QED
    BY <1>10, <1>12, <2>1, <2>2
<1>20. ListenersAwaitReply'
  <2> SUFFICES ASSUME NEW i \in DOMAIN listeners'
               PROVE  listeners'[i] \in ToSet(toWatch') \union ToSet(toPhone) \union lost
    BY <1>5 DEF ListenersAwaitReply
  <2>1. ToSet(toWatch) \subseteq ToSet(toWatch') /\ x \in ToSet(toWatch')
    BY <1>9 DEF ToSet
  <2>2. CASE i \in DOMAIN listeners
    BY <1>7, <2>1, <2>2 DEF IInv, ListenersAwaitReply
  <2>3. CASE i = l
    BY <1>7, <2>1, <2>3
  <2> QED
    BY <1>7, <2>2, <2>3
<1>21. SurplusStays'
  <2> SUFFICES ASSUME NEW t \in Session, open[t]
               PROVE  Len(up[t]) + Unanswered(t)'
                        = surplus[t] + (IF calling[t] = 0 THEN 0 ELSE 1)
    BY <1>5 DEF SurplusStays
  <2>1. Unanswered(t)' = Unanswered(t)
    <3>1. IsFiniteSet(Waiting(t)) /\ Cardinality(Waiting(t)) \in Nat
          /\ Unanswered(t) = Len(down[t]) + Cardinality(Waiting(t))
      BY Counted
    <3>2. Unanswered(t)' = Len(down'[t]) + Cardinality(Waiting(t)')
      BY DEF Unanswered, Waiting
    <3>3. CASE t = s
      <4>1. Waiting(t)' = Waiting(t) \union {l} /\ l \notin Waiting(t)
        BY <1>3, <1>7, <1>10, <3>3 DEF Waiting
      <4> DEFINE w == Cardinality(Waiting(t))
                 v == Cardinality(Waiting(t)')
                 d == Len(down[t])
                 e == Len(down'[t])
      <4>2. v = w + 1
        BY <3>1, <4>1, FS_AddElement
      <4>3. e = d - 1 /\ d \in Nat /\ w \in Nat
        BY <1>3, <3>1, <3>3
      <4> HIDE DEF w, v, d, e
      <4>4. e + v = d + w
        BY <4>2, <4>3
      <4> QED
        BY <3>1, <3>2, <4>4 DEF w, v, d, e
    <3>4. CASE t # s
      <4>1. Waiting(t)' = Waiting(t) /\ down'[t] = down[t]
        BY <1>3, <1>7, <1>10, <3>4 DEF Waiting
      <4> QED
        BY <3>1, <3>2, <4>1
    <3> QED
      BY <3>3, <3>4
  <2> QED
    BY <2>1 DEF IInv, SurplusStays
<1> QED
  BY <1>13, <1>14, <1>15, <1>16, <1>17, <1>18, <1>19, <1>20, <1>21 DEF IInv

\* An answer more for each answer counted: n given, one action less to give it.
LEMMA Balance ==
    ASSUME NEW u \in Nat, NEW d \in Nat, NEW w \in Nat, NEW p \in Nat,
           NEW c \in Nat, NEW n \in Nat, u + (d + w) = p + c
    PROVE  (u + n) + ((d - 1) + w) = (p + n - 1) + c
OBVIOUS

\* An answer given n times is sent n times, unless the websocket is closed.
LEMMA GivenTimes ==
    ASSUME IInv, NEW s \in Session, NEW x \in DOMAIN asked, Asker(x) = s,
           NEW n \in 1..3, Sends(x, 0, n)
    PROVE  /\ up' \in [Session -> Seq(Answer)] /\ surplus' \in [Session -> Nat]
           /\ \A t \in Session : t # s => up'[t] = up[t] /\ surplus'[t] = surplus[t]
           /\ open[s] => /\ Len(up'[s]) = Len(up[s]) + n
                         /\ surplus'[s] = surplus[s] + n - 1
           /\ ~open[s] => up' = up /\ surplus' = surplus
           /\ \A i \in DOMAIN up[s] : i \in DOMAIN up'[s] /\ up'[s][i] = up[s][i]
           /\ \A i \in DOMAIN up'[s] :
                 \/ i \in DOMAIN up[s] /\ up'[s][i] = up[s][i]
                 \/ i \notin DOMAIN up[s] /\ up'[s][i] = [for |-> x, from |-> 0]
           /\ n = 1 => \A i, j \in DOMAIN up'[s] :
                          i \notin DOMAIN up[s] /\ j \notin DOMAIN up[s] => i = j
<1>1. TypeOK
  BY DEF IInv
<1>2. PICK z : z = [for |-> x, from |-> 0]
  OBVIOUS
<1> DEFINE new == [i \in 1..n |-> z]
           q == up[s]
           l == Len(q)
<1>3. z \in Answer
  <2>1. x \in ActionId /\ 0 \in 0..MaxActions
    BY <1>1, Parts, ActionAssumption DEF TypeOK, ActionId
  <2> QED
    BY <1>2, <2>1 DEF Answer
<1>4. new \in Seq(Answer) /\ Len(new) = n /\ DOMAIN new = 1..n
      /\ \A i \in DOMAIN new : new[i] = z
  BY <1>3
<1>5. q \in Seq(Answer) /\ surplus[s] \in Nat /\ \A t \in Session : surplus[t] \in Nat
  BY Parts
<1> HIDE DEF new
<1>6. /\ q \o new \in Seq(Answer) /\ Len(q \o new) = l + n /\ l \in Nat
      /\ \A i \in DOMAIN q : i \in DOMAIN (q \o new) /\ (q \o new)[i] = q[i]
      /\ \A i \in DOMAIN (q \o new) :
            \/ i \in DOMAIN q /\ (q \o new)[i] = q[i]
            \/ i \notin DOMAIN q /\ i - l \in DOMAIN new /\ i \in Nat
               /\ (q \o new)[i] = new[i - l]
  BY <1>4, <1>5, Joined
<1>7. CASE open[s]
  <2>1. /\ up' = [up EXCEPT ![s] = q \o new]
        /\ surplus' = [surplus EXCEPT ![s] = @ + n - 1]
    BY <1>2, <1>7 DEF Sends, new
  <2>2. surplus[s] + n - 1 \in Nat
    BY <1>5
  <2>3. /\ up' \in [Session -> Seq(Answer)] /\ up'[s] = q \o new
        /\ \A t \in Session : t # s => up'[t] = up[t] /\ surplus'[t] = surplus[t]
    BY <1>1, <1>6, <2>1 DEF TypeOK
  <2>4. surplus' \in [Session -> Nat] /\ surplus'[s] = surplus[s] + n - 1
    <3>1. surplus \in [Session -> Nat]
      BY <1>1, <1>5 DEF TypeOK
    <3> QED
      BY <2>1, <2>2, <3>1
  <2>5. ASSUME n = 1, NEW i \in DOMAIN (q \o new), NEW j \in DOMAIN (q \o new),
               i \notin DOMAIN q, j \notin DOMAIN q
        PROVE  i = j
    <3>1. i - l \in 1..1 /\ j - l \in 1..1 /\ i \in Nat /\ j \in Nat
      BY <1>4, <1>6, <2>5
    <3> HIDE DEF l
    <3> QED
      BY <1>6, <3>1
  <2> QED
    BY <1>2, <1>4, <1>6, <1>7, <2>3, <2>4, <2>5
<1>8. CASE ~open[s]
  <2>1. up' = up /\ surplus' = surplus
    BY <1>8 DEF Sends
  <2>2. surplus \in [Session -> Nat]
    BY <1>1, <1>5 DEF TypeOK
  <2> QED
    BY <1>1, <1>8, <2>1, <2>2 DEF TypeOK
<1> QED
  BY <1>7, <1>8

\* The phone answers by itself: an action of the watch's once, a reminder's
\* deletion maybe too often.
LEMMA AnswerStep ==
    ASSUME IInv, NEW s \in Session, down[s] # <<>>,
           down' = [down EXCEPT ![s] = Tail(@)],
           NEW n \in 1..3, AnswerTimes(Head(down[s]), n),
           Kind(Head(down[s])) \in Alarms => n = 1,
           UNCHANGED <<service, open, toPhone, lost, breaks>>
    PROVE  IInv'
<1>1. TypeOK
  BY DEF IInv
<1>2. PICK x : x = Head(down[s])
  OBVIOUS
<1>3. /\ x \in DOMAIN asked /\ Asker(x) = s
      /\ ~Waits(x) /\ ~Told(x) /\ ~Sent(x)
      /\ down' \in [Session -> Seq(DOMAIN asked)]
      /\ Len(down[s]) \in Nat \ {0} /\ Len(down'[s]) = Len(down[s]) - 1
      /\ \A t \in Session : t # s => down'[t] = down[t]
      /\ \A t \in Session : Distinct(down'[t])
      /\ open[s] /\ surplus[s] = 0 => x = calling[s]
  BY <1>2, Received
<1>4. ASSUME NEW t \in Session, NEW i \in DOMAIN down'[t]
      PROVE  down'[t][i] # x /\ \E j \in DOMAIN down[t] : down'[t][i] = down[t][j]
  <2>1. ToSet(down'[t]) \subseteq ToSet(down[t]) \ {x}
    BY <1>2, Received
  <2>2. down'[t][i] \in ToSet(down'[t])
    BY <1>4 DEF ToSet
  <2>3. \E j \in DOMAIN down[t] : down'[t][i] = down[t][j]
    BY <2>1, <2>2 DEF ToSet
  <2> QED
    BY <2>1, <2>2, <2>3
<1>5. /\ Sends(x, 0, n) /\ (Kind(x) \in Alarms => n = 1)
      /\ UNCHANGED <<asked, calling, answers, failures, open, listeners, toWatch,
                     toPhone, lost, breaks>>
  BY <1>2 DEF AnswerTimes, service
<1>6. /\ up' \in [Session -> Seq(Answer)] /\ surplus' \in [Session -> Nat]
      /\ \A t \in Session : t # s => up'[t] = up[t] /\ surplus'[t] = surplus[t]
      /\ open[s] => /\ Len(up'[s]) = Len(up[s]) + n
                    /\ surplus'[s] = surplus[s] + n - 1
      /\ ~open[s] => up' = up /\ surplus' = surplus
      /\ \A i \in DOMAIN up[s] : i \in DOMAIN up'[s] /\ up'[s][i] = up[s][i]
      /\ \A i \in DOMAIN up'[s] :
            \/ i \in DOMAIN up[s] /\ up'[s][i] = up[s][i]
            \/ i \notin DOMAIN up[s] /\ up'[s][i] = [for |-> x, from |-> 0]
      /\ n = 1 => \A i, j \in DOMAIN up'[s] :
                     i \notin DOMAIN up[s] /\ j \notin DOMAIN up[s] => i = j
  BY <1>3, <1>5, GivenTimes
<1>7. \A a : Asker(a)' = Asker(a) /\ Kind(a)' = Kind(a)
  BY <1>5 DEF Asker, Kind
\* An answer is one from before, or the one given now.
<1>8. ASSUME NEW t \in Session, NEW i \in DOMAIN up'[t]
      PROVE  \/ i \in DOMAIN up[t] /\ up'[t][i] = up[t][i]
             \/ /\ t = s /\ i \notin DOMAIN up[s]
                /\ up'[t][i].for = x /\ up'[t][i].from = 0
  <2>1. CASE t = s
    BY <1>6, <1>8, <2>1
  <2>2. CASE t # s
    BY <1>6, <1>8, <2>2
  <2> QED
    BY <2>1, <2>2
<1>9. \A t \in Session : /\ surplus[t] \in Nat /\ surplus'[t] \in Nat
                         /\ surplus'[t] >= surplus[t]
  <2> SUFFICES ASSUME NEW t \in Session
               PROVE  /\ surplus[t] \in Nat /\ surplus'[t] \in Nat
                      /\ surplus'[t] >= surplus[t]
    OBVIOUS
  <2>1. surplus[t] \in Nat /\ surplus'[t] \in Nat
    BY <1>6, Parts
  <2>2. surplus'[t] = surplus[t] \/ surplus'[t] = surplus[t] + n - 1
    BY <1>6
  <2> QED
    BY <2>1, <2>2
<1>10. /\ \A a : (Waits(a)' <=> Waits(a)) /\ (Sent(a)' <=> Sent(a))
       /\ \A a \in DOMAIN asked : Excused(a) => Excused(a)'
  <2>1. \A a : (Waits(a)' <=> Waits(a)) /\ (Sent(a)' <=> Sent(a))
    BY <1>5 DEF Waits, Sent
  <2>2. ASSUME NEW a \in DOMAIN asked, Excused(a) PROVE Excused(a)'
    <3>1. Beside(a)' <=> Beside(a)
      BY <1>5, <1>7 DEF Beside
    <3>2. Asker(a) \in Session
      BY Parts
    <3>3. surplus[Asker(a)] > 0 => surplus'[Asker(a)] > 0
      BY <1>9, <3>2
    <3> QED
      BY <1>7, <2>2, <3>1, <3>3 DEF Excused
  <2> QED
    BY <2>1, <2>2
<1>11. ASSUME NEW a \in DOMAIN asked, Told(a)', a # x PROVE Told(a)
  <2>1. Asker(a)' = Asker(a) /\ Asker(a) \in Session
    BY <1>7, Parts
  <2>2. CASE \E i \in DOMAIN up'[Asker(a)] : up'[Asker(a)][i].for = a
    BY <1>8, <1>11, <2>1, <2>2 DEF Told
  <2>3. CASE \E r \in answers : r.for = a
    BY <2>3 DEF Told
  <2> QED
    BY <1>5, <1>11, <2>1, <2>2, <2>3 DEF Told
<1>12. ASSUME NEW t \in Session
       PROVE  surplus'[t] <= 2 * (Len(asked) - Len(down'[t]))
  <2> DEFINE k == Len(asked)
             d == Len(down[t])
             e == Len(down'[t])
  <2>1. /\ surplus[t] <= 2 * (k - d) /\ surplus[t] \in Nat /\ k \in Nat /\ d \in Nat
        /\ surplus'[t] \in Nat
    BY <1>9, Parts DEF IInv, Owned
  <2>2. CASE t = s
    <3>1. e = d - 1 /\ (surplus'[t] = surplus[t] \/ surplus'[t] = surplus[t] + n - 1)
      BY <1>3, <1>6, <2>2
    <3> HIDE DEF k, d, e
    <3>2. surplus'[t] <= 2 * (k - e)
      BY <2>1, <3>1
    <3> QED
      BY <3>2 DEF k, e
  <2>3. CASE t # s
    BY <1>3, <1>6, <2>1, <2>3
  <2> QED
    BY <2>2, <2>3
<1>13. TypeOK'
  <2>1. ASSUME NEW t \in Session PROVE surplus'[t] \in 0..2 * MaxActions
    <3> DEFINE k == Len(asked)
               e == Len(down'[t])
    <3>1. surplus'[t] <= 2 * (k - e) /\ surplus'[t] \in Nat /\ k \in Nat
          /\ k <= MaxActions /\ MaxActions \in Nat
      BY <1>1, <1>9, <1>12, Parts DEF TypeOK
    <3>2. e \in Nat
      BY <1>3
    <3> HIDE DEF k, e
    <3> QED
      BY <3>1, <3>2
  <2>2. surplus' \in [Session -> 0..2 * MaxActions]
    BY <1>6, <2>1
  <2> QED
    BY <1>1, <1>3, <1>5, <1>6, <2>2 DEF TypeOK
<1>14. Owned'
  <2>1. ASSUME NEW t \in Session, NEW i \in DOMAIN down'[t]
        PROVE  Asker(down[t][i])' = t
    <3>1. PICK j \in DOMAIN down[t] : down'[t][i] = down[t][j]
      BY <1>4, <2>1
    <3>2. Asker(down[t][j]) = t
      BY DEF IInv, Owned
    <3> QED
      BY <1>7, <3>1, <3>2
  <2>2. ASSUME NEW t \in Session, NEW i \in DOMAIN up'[t]
        PROVE  /\ up'[t][i].for \in DOMAIN asked' /\ Asker(up[t][i].for)' = t
               /\ up'[t][i].from \in {0} \union DOMAIN asked'
    <3>1. CASE i \in DOMAIN up[t] /\ up'[t][i] = up[t][i]
      BY <1>5, <1>7, <3>1 DEF IInv, Owned
    <3>2. CASE t = s /\ up'[t][i].for = x /\ up'[t][i].from = 0
      BY <1>3, <1>5, <1>7, <3>2
    <3> QED
      BY <1>8, <2>2, <3>1, <3>2
  <2>3. \A t \in Session : ~open'[t] => up'[t] = <<>>
    BY <1>5, <1>6 DEF IInv, Owned
  <2>4. \A r \in answers' : /\ r.for \in DOMAIN asked'
                            /\ r.to \in DOMAIN asked'
                            /\ r.from \in {0} \union DOMAIN asked'
    BY <1>5 DEF IInv, Owned
  <2> QED
    BY <1>5, <1>12, <2>1, <2>2, <2>3, <2>4 DEF Owned
<1>15. Newest' /\ ListenersAwaitReply'
  BY <1>5, <1>7 DEF IInv, Newest, ListenersAwaitReply
<1>16. Once'
  <2>1. /\ \A t \in Session : \A i \in DOMAIN down[t] :
              ~Waits(down[t][i]) /\ ~Told(down[t][i]) /\ ~Sent(down[t][i])
        /\ Distinct(listeners) /\ Distinct(toWatch) /\ Distinct(toPhone)
        /\ \A i \in DOMAIN listeners : ~Told(listeners[i])
        /\ \A i \in DOMAIN toWatch, j \in DOMAIN toPhone : toWatch[i] # toPhone[j]
    BY DEF IInv, Once
  <2>2. ASSUME NEW t \in Session, NEW i \in DOMAIN down'[t]
        PROVE  ~Waits(down[t][i])' /\ ~Told(down[t][i])' /\ ~Sent(down[t][i])'
    <3>1. PICK j \in DOMAIN down[t] : down'[t][i] = down[t][j]
      BY <1>4, <2>2
    <3>2. down[t][j] \in DOMAIN asked /\ down[t][j] # x
      BY <1>4, <2>2, <3>1, Parts
    <3> QED
      BY <1>10, <1>11, <2>1, <3>1, <3>2
  <2>3. ASSUME NEW i \in DOMAIN listeners PROVE ~Told(listeners[i])'
    <3>1. listeners[i] \in DOMAIN asked /\ listeners[i] # x
      BY <1>3, Parts DEF Waits
    <3>2. listeners'[i] = listeners[i] /\ ~Told(listeners[i])
      BY <1>5, <2>1
    <3> QED
      BY <1>11, <3>1, <3>2
  <2>4. /\ Distinct(listeners') /\ Distinct(toWatch') /\ Distinct(toPhone')
        /\ \A i \in DOMAIN listeners' : ~Told(listeners[i])'
        /\ \A i \in DOMAIN toWatch', j \in DOMAIN toPhone' : toWatch'[i] # toPhone'[j]
    BY <1>5, <2>1, <2>3
  <2>5. ASSUME NEW t \in Session, NEW i \in DOMAIN up'[t],
               Kind(up[t][i].for)' \in Alarms
        PROVE  /\ \A j \in DOMAIN up'[t] : up'[t][j].for = up'[t][i].for => j = i
               /\ \A r \in answers' : r.for # up'[t][i].for
    <3>1. Kind(up'[t][i].for) \in Alarms
      BY <1>7, <2>5
    <3>2. CASE i \in DOMAIN up[t] /\ up'[t][i] = up[t][i]
      <4>1. /\ \A j \in DOMAIN up[t] : up[t][j].for = up[t][i].for => j = i
            /\ \A r \in answers : r.for # up[t][i].for
        BY <3>1, <3>2 DEF IInv, Once
      <4>2. t = s => up[t][i].for # x
        BY <1>3, <3>2 DEF Told
      <4>3. \A j \in DOMAIN up'[t] : up'[t][j].for = up'[t][i].for => j = i
        BY <1>8, <3>2, <4>1, <4>2
      <4> QED
        BY <1>5, <3>2, <4>1, <4>3
    <3>3. CASE t = s /\ i \notin DOMAIN up[s] /\ up'[t][i].for = x
      <4>1. n = 1
        BY <1>5, <3>1, <3>3
      <4>2. \A j \in DOMAIN up[s] : up[s][j].for # x
        BY <1>3 DEF Told
      <4>3. \A r \in answers : r.for # x
        BY <1>3 DEF Told
      <4>4. \A j \in DOMAIN up'[s] : up'[s][j].for = x => j = i
        <5> SUFFICES ASSUME NEW j \in DOMAIN up'[s], up'[s][j].for = x
                     PROVE  j = i
          OBVIOUS
        <5>1. j \notin DOMAIN up[s]
          BY <1>6, <4>2
        <5> QED
          BY <1>6, <2>5, <3>3, <4>1, <5>1
      <4> QED
        BY <1>5, <3>3, <4>3, <4>4
    <3> QED
      BY <1>8, <2>5, <3>2, <3>3
  <2>6. \A p, r \in answers' : p.for = r.for /\ Kind(p.for)' \in Alarms => p = r
    BY <1>5 DEF IInv, Once, Kind
  <2> QED
    BY <1>3, <2>2, <2>4, <2>5, <2>6 DEF Once
<1>17. Pending'
  <2> SUFFICES ASSUME NEW t \in Session, open[t], surplus'[t] = 0
               PROVE  /\ \A i \in DOMAIN down'[t] : down'[t][i] = calling[t]
                      /\ \A i \in DOMAIN listeners :
                            Asker(listeners[i]) = t => listeners[i] = calling[t]
                      /\ \A i \in DOMAIN up'[t] : up'[t][i].for = calling[t]
    BY <1>5, <1>7 DEF Pending
  <2>1. surplus[t] = 0
    BY <1>9
  <2>2. /\ \A i \in DOMAIN down[t] : down[t][i] = calling[t]
        /\ \A i \in DOMAIN listeners :
              Asker(listeners[i]) = t => listeners[i] = calling[t]
        /\ \A i \in DOMAIN up[t] : up[t][i].for = calling[t]
    BY <2>1 DEF IInv, Pending
  <2>3. \A i \in DOMAIN down'[t] : down'[t][i] = calling[t]
    BY <1>4, <2>2
  <2>4. \A i \in DOMAIN up'[t] : up'[t][i].for = calling[t]
    BY <1>3, <1>8, <2>1, <2>2
  <2> QED
    BY <2>2, <2>3, <2>4
<1>18. Overheard'
  <2> SUFFICES ASSUME NEW a \in DOMAIN asked, Sent(a)', ~Waits(a)', open[Asker(a)]
               PROVE  Excused(a)'
    BY <1>5, <1>7 DEF Overheard
  <2>1. Sent(a) /\ ~Waits(a)
    BY <1>10
  <2> QED
    BY <1>10, <2>1 DEF IInv, Overheard
<1>19. Mistold'
  <2> SUFFICES ASSUME NEW t \in Session, NEW i \in DOMAIN up'[t],
                      up'[t][i].from \notin {0, up'[t][i].for}
               PROVE  /\ Kind(up[t][i].from)' = Kind(up[t][i].for)'
                      /\ Excused(up[t][i].for)'
    BY DEF Mistold
  <2>1. i \in DOMAIN up[t] /\ up'[t][i] = up[t][i]
    BY <1>8
  <2>2. Kind(up[t][i].from) = Kind(up[t][i].for) /\ Excused(up[t][i].for)
    BY <2>1 DEF IInv, Mistold
  <2>3. up[t][i].for \in DOMAIN asked
    BY <2>1 DEF IInv, Owned
  <2> QED
    BY <1>7, <1>10, <2>1, <2>2, <2>3
<1>20. TakesExplained'
  <2> SUFFICES ASSUME NEW r \in answers
               PROVE  /\ Asker(r.for) = Asker(r.to)
                      /\ r.for # r.to => r.for < r.to /\ surplus'[Asker(r.to)] > 0
                      /\ r.from \notin {0, r.for} =>
                            /\ Kind(r.from) = Kind(r.for)
                            /\ \/ surplus'[Asker(r.to)] > 0
                               \/ \E b \in DOMAIN asked :
                                     Asker(b) # Asker(r.to) /\ Kind(b) = Kind(r.for)
    BY <1>5, <1>7 DEF TakesExplained
  <2>1. /\ Asker(r.for) = Asker(r.to)
        /\ r.for # r.to => r.for < r.to /\ surplus[Asker(r.to)] > 0
        /\ r.from \notin {0, r.for} =>
              /\ Kind(r.from) = Kind(r.for)
              /\ \/ surplus[Asker(r.to)] > 0
                 \/ \E b \in DOMAIN asked :
                       Asker(b) # Asker(r.to) /\ Kind(b) = Kind(r.for)
    BY DEF IInv, TakesExplained
  <2>2. Asker(r.to) \in Session
    BY Parts DEF IInv, Owned
  <2>3. surplus[Asker(r.to)] > 0 => surplus'[Asker(r.to)] > 0
    BY <1>9, <2>2
  <2> QED
    BY <2>1, <2>3
<1>21. SurplusStays'
  <2> SUFFICES ASSUME NEW t \in Session, open[t]
               PROVE  Len(up'[t]) + Unanswered(t)'
                        = surplus'[t] + (IF calling[t] = 0 THEN 0 ELSE 1)
    BY <1>5 DEF SurplusStays
  <2> DEFINE w == Cardinality(Waiting(t))
             d == Len(down[t])
             e == Len(down'[t])
             u == Len(up[t])
             v == Len(up'[t])
             c == IF calling[t] = 0 THEN 0 ELSE 1
  <2>1. w \in Nat /\ Unanswered(t) = d + w /\ d \in Nat /\ u \in Nat
        /\ surplus[t] \in Nat
    BY Counted, Parts
  <2>2. Unanswered(t)' = e + w
    BY <1>5, <1>7 DEF Unanswered, Waiting
  <2>3. u + Unanswered(t) = surplus[t] + c /\ c \in Nat
    BY DEF IInv, SurplusStays
  <2>4. CASE t = s
    <3>1. e = d - 1 /\ v = u + n /\ surplus'[t] = surplus[t] + n - 1
      BY <1>3, <1>6, <2>4
    <3> HIDE DEF w, d, e, u, v, c
    <3>2. v + (e + w) = surplus'[t] + c
      <4>1. u + (d + w) = surplus[t] + c
        BY <2>1, <2>3
      <4>2. PICK p : p = surplus[t]
        OBVIOUS
      <4>3. /\ u + (d + w) = p + c /\ e = d - 1 /\ v = u + n
            /\ surplus'[t] = p + n - 1
        BY <3>1, <4>1, <4>2
      <4>4. /\ u \in Nat /\ d \in Nat /\ w \in Nat /\ p \in Nat /\ c \in Nat
            /\ n \in Nat
        BY <2>1, <2>3, <4>2
      <4>5. (u + n) + ((d - 1) + w) = (p + n - 1) + c
        BY <4>3, <4>4, Balance
      <4> QED
        BY <4>3, <4>5
    <3> QED
      BY <2>2, <3>2 DEF v, c
  <2>5. CASE t # s
    <3>1. e = d /\ v = u /\ surplus'[t] = surplus[t]
      BY <1>3, <1>6, <2>5
    <3> HIDE DEF w, d, e, u, v, c
    <3>2. v + (e + w) = surplus'[t] + c
      BY <2>1, <2>3, <3>1
    <3> QED
      BY <2>2, <3>2 DEF v, c
  <2> QED
    BY <2>4, <2>5
<1> QED
  BY <1>13, <1>14, <1>15, <1>16, <1>17, <1>18, <1>19, <1>20, <1>21 DEF IInv

\* A message of the websocket is handled.
LEMMA HandleActionStep ==
    ASSUME IInv, NEW s \in Session, HandleAction(s)
    PROVE  IInv'
<1> DEFINE x == Head(down[s])
<1>1. /\ down[s] # <<>> /\ down' = [down EXCEPT ![s] = Tail(@)]
      /\ UNCHANGED <<service, open, toPhone, lost, breaks>>
      /\ SetAlarm(x) \/ GetAlarm(x) \/ DeleteReminder(x) \/ OtherAction(x)
  BY DEF HandleAction
<1>2. 1 \in 1..3 /\ "delete_reminder" \notin Alarms /\ "other" \notin Alarms
  BY DEF Alarms
<1>3. CASE AskWatch(x)
  BY <1>1, <1>3, AskStep
<1>4. CASE AnswerTimes(x, 1)
  BY <1>1, <1>2, <1>4, AnswerStep
<1>5. CASE DeleteReminder(x)
  <2>1. PICK n \in 1..3 : AnswerTimes(x, n)
    BY <1>5 DEF DeleteReminder
  <2>2. Kind(x) \notin Alarms
    BY <1>2, <1>5 DEF DeleteReminder
  <2> QED
    BY <1>1, <2>1, <2>2, AnswerStep
<1> QED
  BY <1>1, <1>3, <1>4, <1>5 DEF SetAlarm, GetAlarm, OtherAction

\* Handlers that hear a reply are some of those that wait.
LEMMA SomeHear ==
    ASSUME IInv, NEW s \in Session, NEW r
    PROVE  /\ Heard(s, r) \subseteq Waiting(s)
           /\ \A i \in Heard(s, r) : /\ i \in DOMAIN listeners
                                     /\ Asker(listeners[i]) = s
                                     /\ Kind(listeners[i]) = Kind(r)
           /\ IsFiniteSet(Heard(s, r)) /\ Cardinality(Heard(s, r)) \in Nat
           /\ Cardinality(Heard(s, r)) <= Cardinality(Waiting(s))
<1>1. Heard(s, r) \subseteq Waiting(s)
  BY DEF Heard, Waiting
<1>2. \A i \in Heard(s, r) : /\ i \in DOMAIN listeners
                             /\ Asker(listeners[i]) = s
                             /\ Kind(listeners[i]) = Kind(r)
  BY DEF Heard, Hears
<1>3. IsFiniteSet(Waiting(s))
  BY Counted
<1> QED
  BY <1>1, <1>2, <1>3, FS_Subset, FS_CardinalityType

\* Each handler of a session that hears the reply r answers with it, once.
LEMMA GivenByHearers ==
    ASSUME IInv, NEW r \in DOMAIN asked, NEW at,
           \A s \in Session : at[s] \in InOrder(Heard(s, r)),
           up' = [s \in Session |->
                    IF open[s]
                    THEN up[s] \o [i \in DOMAIN at[s] |->
                                     [for |-> listeners[at[s][i]], from |-> r]]
                    ELSE up[s]],
           NEW t \in Session
    PROVE  /\ up'[t] \in Seq(Answer)
           /\ open[t] => Len(up'[t]) = Len(up[t]) + Cardinality(Heard(t, r))
           /\ ~open[t] => up'[t] = up[t]
           /\ \A i \in DOMAIN up[t] : i \in DOMAIN up'[t] /\ up'[t][i] = up[t][i]
           /\ \A i \in DOMAIN up'[t] :
                 \/ i \in DOMAIN up[t] /\ up'[t][i] = up[t][i]
                 \/ /\ i \notin DOMAIN up[t] /\ open[t] /\ up'[t][i].from = r
                    /\ \E k \in Heard(t, r) : up'[t][i].for = listeners[k]
           /\ \A i, j \in DOMAIN up'[t] :
                 /\ i \notin DOMAIN up[t] /\ j \notin DOMAIN up[t]
                 /\ up'[t][i].for = up'[t][j].for
                 => i = j
<1>1. TypeOK
  BY DEF IInv
<1>2. PICK b : b = at[t]
  OBVIOUS
<1> DEFINE h == Cardinality(Heard(t, r))
           new == [i \in DOMAIN b |-> [for |-> listeners[b[i]], from |-> r]]
           q == up[t]
           l == Len(q)
<1>3. /\ h \in Nat /\ DOMAIN b = 1..h
      /\ \A i \in DOMAIN b : b[i] \in Heard(t, r)
      /\ \A i, j \in DOMAIN b : b[i] = b[j] => i = j
  <2>1. Heard(t, r) \subseteq Nat /\ IsFiniteSet(Heard(t, r))
    BY SomeHear, Counted
  <2>2. b \in InOrder(Heard(t, r))
    BY <1>2
  <2> QED
    BY <2>1, <2>2, InOrderFacts
<1>4. \A i \in DOMAIN b : listeners[b[i]] \in DOMAIN asked /\ b[i] \in DOMAIN listeners
  BY <1>3, Parts, SomeHear
<1>5. DOMAIN asked \subseteq ActionId /\ r \in 0..MaxActions
  <2>1. PICK m : m = Len(asked)
    OBVIOUS
  <2>2. m \in Nat /\ DOMAIN asked = 1..m /\ m <= MaxActions
    BY <1>1, <2>1, Parts DEF TypeOK
  <2> QED
    BY <2>2, ActionAssumption DEF ActionId
<1>6. /\ new \in [1..h -> Answer] /\ DOMAIN new = 1..h
      /\ \A i \in DOMAIN new : new[i].for = listeners[b[i]] /\ new[i].from = r
  BY <1>3, <1>4, <1>5 DEF Answer
<1>7. q \in Seq(Answer)
  BY Parts
<1>8. up'[t] = IF open[t] THEN q \o new ELSE q
  BY <1>2
<1> HIDE DEF new, h
<1>9. new \in Seq(Answer) /\ Len(new) = h
  BY <1>3, <1>6
<1>10. /\ q \o new \in Seq(Answer) /\ Len(q \o new) = l + h /\ l \in Nat
       /\ \A i \in DOMAIN q : i \in DOMAIN (q \o new) /\ (q \o new)[i] = q[i]
       /\ \A i \in DOMAIN (q \o new) :
            \/ i \in DOMAIN q /\ (q \o new)[i] = q[i]
            \/ i \notin DOMAIN q /\ i - l \in DOMAIN new /\ i \in Nat
               /\ (q \o new)[i] = new[i - l]
  <2>1. Len(q \o new) = l + Len(new)
    BY <1>7, <1>9, Joined
  <2> QED
    BY <1>7, <1>9, <2>1, Joined
<1> HIDE DEF l
<1>11. CASE open[t]
  <2>1. up'[t] = q \o new
    BY <1>8, <1>11
  <2>2. ASSUME NEW i \in DOMAIN (q \o new), i \notin DOMAIN q
        PROVE  /\ i - l \in DOMAIN b /\ i \in Nat
               /\ (q \o new)[i].for = listeners[b[i - l]]
               /\ (q \o new)[i].from = r
               /\ b[i - l] \in Heard(t, r) /\ b[i - l] \in DOMAIN listeners
    BY <1>3, <1>4, <1>6, <1>10, <2>2
  <2>3. ASSUME NEW i \in DOMAIN (q \o new), NEW j \in DOMAIN (q \o new),
               i \notin DOMAIN q, j \notin DOMAIN q,
               (q \o new)[i].for = (q \o new)[j].for
        PROVE  i = j
    <3>1. /\ i - l \in DOMAIN b /\ j - l \in DOMAIN b /\ i \in Nat /\ j \in Nat
          /\ listeners[b[i - l]] = listeners[b[j - l]]
          /\ b[i - l] \in DOMAIN listeners /\ b[j - l] \in DOMAIN listeners
      BY <2>2, <2>3
    <3>2. b[i - l] = b[j - l]
      BY <3>1 DEF IInv, Once, Distinct
    <3>3. i - l = j - l
      BY <1>3, <3>1, <3>2
    <3> QED
      BY <1>10, <3>1, <3>3
  <2>4. Len(up'[t]) = Len(up[t]) + Cardinality(Heard(t, r))
    BY <1>10, <2>1 DEF l, h
  <2>5. \A i \in DOMAIN (q \o new) :
          \/ i \in DOMAIN q /\ (q \o new)[i] = q[i]
          \/ /\ i \notin DOMAIN q /\ (q \o new)[i].from = r
             /\ \E k \in Heard(t, r) : (q \o new)[i].for = listeners[k]
    BY <1>10, <2>2
  <2>6. \A i \in DOMAIN up'[t] :
          \/ i \in DOMAIN up[t] /\ up'[t][i] = up[t][i]
          \/ /\ i \notin DOMAIN up[t] /\ open[t] /\ up'[t][i].from = r
             /\ \E k \in Heard(t, r) : up'[t][i].for = listeners[k]
    BY <1>11, <2>1, <2>5
  <2>7. /\ up'[t] \in Seq(Answer)
        /\ \A i \in DOMAIN up[t] : i \in DOMAIN up'[t] /\ up'[t][i] = up[t][i]
    BY <1>10, <2>1
  <2>8. \A i, j \in DOMAIN up'[t] :
           /\ i \notin DOMAIN up[t] /\ j \notin DOMAIN up[t]
           /\ up'[t][i].for = up'[t][j].for
           => i = j
    <3> SUFFICES ASSUME NEW i \in DOMAIN up'[t], NEW j \in DOMAIN up'[t],
                        i \notin DOMAIN up[t], j \notin DOMAIN up[t],
                        up'[t][i].for = up'[t][j].for
                 PROVE  i = j
      OBVIOUS
    <3>1. PICK p : p = q \o new
      OBVIOUS
    <3>2. \A y, z \in DOMAIN p : y \notin DOMAIN q /\ z \notin DOMAIN q
                                /\ p[y].for = p[z].for => y = z
      BY <2>3, <3>1
    <3> QED
      BY <2>1, <3>1, <3>2
  <2> QED
    BY <1>11, <2>4, <2>6, <2>7, <2>8
<1>12. CASE ~open[t]
  <2>1. up'[t] = up[t]
    BY <1>8, <1>12
  <2> QED
    BY <1>7, <1>12, <2>1
<1> QED
  BY <1>11, <1>12

\* The handlers that do not hear the reply wait on.
LEMMA DeafWaitOn ==
    ASSUME IInv, NEW r \in DOMAIN asked, NEW b \in InOrder(Deaf(r)),
           listeners' = [i \in DOMAIN b |-> listeners[b[i]]], asked' = asked
    PROVE  /\ listeners' \in Seq(DOMAIN asked)
           /\ \A i \in DOMAIN listeners' :
                 \E k \in DOMAIN listeners : /\ listeners'[i] = listeners[k]
                                             /\ Kind(listeners[k]) # Kind(r)
           /\ \A k \in DOMAIN listeners : Kind(listeners[k]) # Kind(r) =>
                 \E i \in DOMAIN listeners' : listeners'[i] = listeners[k]
           /\ Distinct(listeners')
           /\ \A t \in Session :
                 Cardinality(Waiting(t)')
                     = Cardinality(Waiting(t)) - Cardinality(Heard(t, r))
<1> DEFINE n == Cardinality(Deaf(r))
<1>1. /\ Deaf(r) \subseteq DOMAIN listeners
      /\ \A i \in DOMAIN listeners : i \in Deaf(r) <=> Kind(listeners[i]) # Kind(r)
  BY DEF Deaf, Hears
<1>2. IsFiniteSet(Deaf(r)) /\ Deaf(r) \subseteq Nat
  <2>1. Len(listeners) \in Nat /\ DOMAIN listeners = 1..Len(listeners)
    BY Parts
  <2>2. IsFiniteSet(DOMAIN listeners)
    BY <2>1, FS_Interval
  <2> QED
    BY <1>1, <2>1, <2>2, FS_Subset
<1>3. /\ n \in Nat /\ DOMAIN b = 1..n
      /\ \A i \in DOMAIN b : b[i] \in Deaf(r)
      /\ \A i, j \in DOMAIN b : b[i] = b[j] => i = j
      /\ \A k \in Deaf(r) : \E i \in DOMAIN b : b[i] = k
  BY <1>2, InOrderFacts
<1> HIDE DEF n
<1>4. /\ DOMAIN listeners' = DOMAIN b
      /\ \A i \in DOMAIN b : /\ listeners'[i] = listeners[b[i]]
                             /\ b[i] \in DOMAIN listeners
                             /\ Kind(listeners[b[i]]) # Kind(r)
                             /\ listeners[b[i]] \in DOMAIN asked
  BY <1>1, <1>3, Parts
<1>5. listeners' \in Seq(DOMAIN asked)
  <2>1. listeners' \in [1..n -> DOMAIN asked]
    BY <1>3, <1>4
  <2> QED
    BY <1>3, <2>1
<1>6. Distinct(listeners')
  BY <1>3, <1>4 DEF IInv, Once, Distinct
<1>7. \A k \in DOMAIN listeners : Kind(listeners[k]) # Kind(r) =>
         \E i \in DOMAIN listeners' : listeners'[i] = listeners[k]
  BY <1>1, <1>3, <1>4
<1>8. ASSUME NEW t \in Session
      PROVE  Cardinality(Waiting(t)')
                 = Cardinality(Waiting(t)) - Cardinality(Heard(t, r))
  <2> DEFINE W == Waiting(t)'
             V == Waiting(t) \ Heard(t, r)
             f == [i \in W |-> b[i]]
  <2>1. W = {i \in DOMAIN b : Asker(listeners[b[i]]) = t}
    <3>1. \A a : Asker(a)' = Asker(a)
      BY DEF Asker
    <3> QED
      BY <1>4, <3>1 DEF Waiting
  <2>2. V = {k \in Deaf(r) : Asker(listeners[k]) = t}
    BY <1>1 DEF Waiting, Heard, Hears
  <2> HIDE DEF W, V
  <2>3. f \in [W -> V] /\ \A i, j \in W : f[i] = f[j] => i = j
    BY <1>3, <2>1, <2>2
  <2>4. \A k \in V : \E i \in W : f[i] = k
    BY <1>3, <2>1, <2>2
  <2> HIDE DEF f
  <2>5. f \in Bijection(W, V)
    BY <2>3, <2>4 DEF Bijection, Injection, Surjection, IsInjective
  <2>6. ExistsBijection(W, V)
    BY <2>5 DEF ExistsBijection
  <2>7. IsFiniteSet(W)
    <3>1. IsFiniteSet(1..n)
      BY <1>3, FS_Interval
    <3>2. W \subseteq 1..n
      BY <1>3, <2>1
    <3> QED
      BY <3>1, <3>2, FS_Subset
  <2>8. Cardinality(V) = Cardinality(W)
    BY <2>6, <2>7, FS_Bijection
  <2>9. Waiting(t) \cap Heard(t, r) = Heard(t, r) /\ IsFiniteSet(Waiting(t))
    BY SomeHear, Counted
  <2>10. Cardinality(V) = Cardinality(Waiting(t)) - Cardinality(Heard(t, r))
    BY <2>9, FS_Difference DEF V
  <2> QED
    BY <2>8, <2>10 DEF W
<1> QED
  BY <1>4, <1>5, <1>6, <1>7, <1>8

\* A handler that hears the reply to another request is excused.
LEMMA Misheard ==
    ASSUME IInv, NEW a \in DOMAIN asked, NEW r \in DOMAIN asked,
           Waits(a), Sent(r), a # r, Kind(a) = Kind(r), open[Asker(a)]
    PROVE  Excused(a)
<1> DEFINE s == Asker(a)
<1>1. s \in Session /\ surplus[s] \in Nat
  BY Parts
<1>2. CASE Asker(r) # s
  BY <1>2 DEF Excused, Beside
<1>3. CASE surplus[s] > 0
  BY <1>3 DEF Excused
<1>4. CASE Asker(r) = s /\ ~(surplus[s] > 0)
  <2>1. surplus[s] = 0
    BY <1>1, <1>4
  <2>2. \A i \in DOMAIN listeners :
            Asker(listeners[i]) = s => listeners[i] = calling[s]
    BY <1>1, <2>1 DEF IInv, Pending
  <2>3. ~Waits(r)
    BY <1>4, <2>2 DEF Waits
  <2>4. Excused(r)
    BY <1>4, <2>3 DEF IInv, Overheard
  <2>5. PICK b \in DOMAIN asked : Asker(b) # s /\ Kind(b) = Kind(r)
    BY <1>4, <2>4 DEF Excused, Beside
  <2> QED
    BY <2>5 DEF Excused, Beside
<1> QED
  BY <1>2, <1>3, <1>4

\* A reply is given to all handlers: those that hear it answer, the others
\* wait on.
LEMMA HearReplyStep == IInv /\ HearReply => IInv'
<1> SUFFICES ASSUME IInv, HearReply PROVE IInv'
  OBVIOUS
<1>1. TypeOK
  BY DEF IInv
<1>2. PICK r : r = Head(toPhone)
  OBVIOUS
<1>3. /\ toPhone # <<>> /\ toPhone' = Tail(toPhone)
      /\ UNCHANGED <<asked, calling, answers, failures, open, down, toWatch, lost,
                     surplus, breaks>>
  BY DEF HearReply, service
<1>4. PICK at : /\ \A s \in Session : at[s] \in InOrder(Heard(s, r))
                /\ up' = [s \in Session |->
                            IF open[s]
                            THEN up[s] \o [i \in DOMAIN at[s] |->
                                     [for |-> listeners[at[s][i]], from |-> r]]
                            ELSE up[s]]
  <2>1. PICK at \in [Session -> UNION {InOrder(Heard(s, Head(toPhone))) : s \in Session}] :
            /\ \A s \in Session : at[s] \in InOrder(Heard(s, Head(toPhone)))
            /\ up' = [s \in Session |->
                        IF open[s]
                        THEN up[s] \o [i \in DOMAIN at[s] |->
                                 [for |-> listeners[at[s][i]], from |-> Head(toPhone)]]
                        ELSE up[s]]
    BY Zenon DEF HearReply
  <2> QED
    BY <1>2, <2>1
<1>5. PICK b \in InOrder(Deaf(r)) : listeners' = [i \in DOMAIN b |-> listeners[b[i]]]
  BY <1>2 DEF HearReply
\* The reply, and those after it.
<1>6. toPhone \in Seq(DOMAIN asked)
  BY <1>1 DEF TypeOK
<1> DEFINE q == Tail(toPhone)
<1>7. /\ q \in Seq(DOMAIN asked) /\ r = toPhone[1] /\ r \in DOMAIN asked
      /\ 1 \in DOMAIN toPhone
      /\ \A i \in DOMAIN q : i + 1 \in DOMAIN toPhone /\ q[i] = toPhone[i + 1]
      /\ \A i \in DOMAIN toPhone : i # 1 =>
            i - 1 \in DOMAIN q /\ q[i - 1] = toPhone[i]
      /\ \A i \in DOMAIN q : i \in Nat /\ i >= 1
  BY <1>2, <1>3, <1>6, Taken
<1>8. toPhone' = q
  BY <1>3
<1> HIDE DEF q
<1>9. /\ \A i \in DOMAIN q : i + 1 # 1
      /\ \A i, j \in DOMAIN q : i + 1 = j + 1 => i = j
  BY <1>7
<1>10. Sent(r)
  BY <1>7 DEF Sent
<1>11. /\ Distinct(toWatch) /\ Distinct(toPhone) /\ Distinct(listeners)
       /\ \A i \in DOMAIN toWatch, j \in DOMAIN toPhone : toWatch[i] # toPhone[j]
       /\ \A i \in DOMAIN listeners : ~Told(listeners[i])
  BY DEF IInv, Once
<1>12. /\ Distinct(q) /\ \A i \in DOMAIN q : q[i] # r
       /\ \A i \in DOMAIN toWatch : toWatch[i] # r
       /\ \A i \in DOMAIN toWatch, j \in DOMAIN q : toWatch[i] # q[j]
  <2>1. Distinct(q)
    BY <1>7, <1>9, <1>11 DEF Distinct
  <2>2. \A i \in DOMAIN q : q[i] # r
    BY <1>7, <1>9, <1>11 DEF Distinct
  <2> QED
    BY <1>7, <1>11, <2>1, <2>2
\* The answers given, and the handlers left.
<1>13. ASSUME NEW t \in Session
       PROVE  /\ up'[t] \in Seq(Answer)
              /\ open[t] => Len(up'[t]) = Len(up[t]) + Cardinality(Heard(t, r))
              /\ ~open[t] => up'[t] = up[t]
              /\ \A i \in DOMAIN up[t] : i \in DOMAIN up'[t] /\ up'[t][i] = up[t][i]
              /\ \A i \in DOMAIN up'[t] :
                    \/ i \in DOMAIN up[t] /\ up'[t][i] = up[t][i]
                    \/ /\ i \notin DOMAIN up[t] /\ open[t] /\ up'[t][i].from = r
                       /\ \E k \in Heard(t, r) : up'[t][i].for = listeners[k]
              /\ \A i, j \in DOMAIN up'[t] :
                    /\ i \notin DOMAIN up[t] /\ j \notin DOMAIN up[t]
                    /\ up'[t][i].for = up'[t][j].for
                    => i = j
  BY <1>4, <1>7, GivenByHearers
<1>14. ASSUME NEW t \in Session, NEW i \in DOMAIN up'[t]
       PROVE  \/ i \in DOMAIN up[t] /\ up'[t][i] = up[t][i]
              \/ /\ i \notin DOMAIN up[t] /\ open[t] /\ up'[t][i].from = r
                 /\ \E k \in DOMAIN listeners :
                       /\ up'[t][i].for = listeners[k] /\ listeners[k] \in DOMAIN asked
                       /\ Asker(listeners[k]) = t /\ Kind(listeners[k]) = Kind(r)
  <2>1. CASE i \in DOMAIN up[t] /\ up'[t][i] = up[t][i]
    BY <2>1
  <2>2. CASE /\ i \notin DOMAIN up[t] /\ open[t] /\ up'[t][i].from = r
             /\ \E k \in Heard(t, r) : up'[t][i].for = listeners[k]
    <3>1. PICK k \in Heard(t, r) : up'[t][i].for = listeners[k]
      BY <2>2
    <3>2. /\ k \in DOMAIN listeners /\ Asker(listeners[k]) = t
          /\ Kind(listeners[k]) = Kind(r) /\ listeners[k] \in DOMAIN asked
      BY SomeHear, Parts
    <3> QED
      BY <2>2, <3>1, <3>2
  <2> QED
    BY <1>13, <1>14, <2>1, <2>2
<1>15. /\ listeners' \in Seq(DOMAIN asked)
       /\ \A i \in DOMAIN listeners' :
             \E k \in DOMAIN listeners : /\ listeners'[i] = listeners[k]
                                         /\ Kind(listeners[k]) # Kind(r)
       /\ \A k \in DOMAIN listeners : Kind(listeners[k]) # Kind(r) =>
             \E i \in DOMAIN listeners' : listeners'[i] = listeners[k]
       /\ Distinct(listeners')
       /\ \A t \in Session :
             Cardinality(Waiting(t)')
                 = Cardinality(Waiting(t)) - Cardinality(Heard(t, r))
  BY <1>3, <1>5, <1>7, DeafWaitOn
<1>16. \A a : Asker(a)' = Asker(a) /\ Kind(a)' = Kind(a)
  BY <1>3 DEF Asker, Kind
<1>17. \A a : Excused(a)' <=> Excused(a)
  BY <1>3, <1>16 DEF Excused, Beside
<1>18. /\ \A a : Waits(a)' => Waits(a) /\ Kind(a) # Kind(r)
       /\ \A a : Waits(a) /\ Kind(a) # Kind(r) => Waits(a)'
       /\ \A a : Sent(a)' => Sent(a) /\ a # r
  <2>1. \A a : Waits(a)' => Waits(a) /\ Kind(a) # Kind(r)
    BY <1>15 DEF Waits
  <2>2. \A a : Waits(a) /\ Kind(a) # Kind(r) => Waits(a)'
    BY <1>15 DEF Waits
  <2>3. \A a : Sent(a)' => Sent(a) /\ a # r
    BY <1>3, <1>7, <1>8, <1>12 DEF Sent
  <2> QED
    BY <2>1, <2>2, <2>3
<1>19. ASSUME NEW a \in DOMAIN asked, Told(a)'
       PROVE  Told(a) \/ (Waits(a) /\ Kind(a) = Kind(r))
  <2>1. Asker(a)' = Asker(a) /\ Asker(a) \in Session
    BY <1>16, Parts
  <2>2. CASE \E i \in DOMAIN up'[Asker(a)] : up'[Asker(a)][i].for = a
    <3>1. PICK i \in DOMAIN up'[Asker(a)] : up'[Asker(a)][i].for = a
      BY <2>2
    <3>2. CASE i \in DOMAIN up[Asker(a)] /\ up'[Asker(a)][i] = up[Asker(a)][i]
      BY <3>1, <3>2 DEF Told
    <3>3. CASE \E k \in DOMAIN listeners :
                  /\ up'[Asker(a)][i].for = listeners[k]
                  /\ Kind(listeners[k]) = Kind(r)
      BY <3>1, <3>3 DEF Waits
    <3> QED
      BY <1>14, <2>1, <3>2, <3>3
  <2>3. CASE \E p \in answers : p.for = a
    BY <2>3 DEF Told
  <2> QED
    BY <1>3, <1>19, <2>1, <2>2, <2>3 DEF Told
<1>20. TypeOK'
  <2>1. up' \in [Session -> Seq(Answer)]
    BY <1>4, <1>13
  <2> QED
    BY <1>1, <1>3, <1>7, <1>8, <1>15, <2>1 DEF TypeOK
<1>21. Owned'
  <2>1. ASSUME NEW t \in Session, NEW i \in DOMAIN up'[t]
        PROVE  /\ up'[t][i].for \in DOMAIN asked' /\ Asker(up[t][i].for)' = t
               /\ up'[t][i].from \in {0} \union DOMAIN asked'
    <3>1. CASE i \in DOMAIN up[t] /\ up'[t][i] = up[t][i]
      BY <1>3, <1>16, <3>1 DEF IInv, Owned
    <3>2. CASE ~(i \in DOMAIN up[t] /\ up'[t][i] = up[t][i])
      BY <1>3, <1>7, <1>14, <1>16, <2>1, <3>2
    <3> QED
      BY <3>1, <3>2
  <2>2. \A t \in Session : ~open'[t] => up'[t] = <<>>
    BY <1>3, <1>13 DEF IInv, Owned
  <2>3. \A t \in Session : \A i \in DOMAIN down'[t] : Asker(down[t][i])' = t
    BY <1>3, <1>16 DEF IInv, Owned
  <2>4. /\ \A t \in Session : surplus'[t] <= 2 * (Len(asked') - Len(down'[t]))
        /\ \A p \in answers' : /\ p.for \in DOMAIN asked'
                               /\ p.to \in DOMAIN asked'
                               /\ p.from \in {0} \union DOMAIN asked'
    BY <1>3 DEF IInv, Owned
  <2> QED
    BY <2>1, <2>2, <2>3, <2>4 DEF Owned
<1>22. Newest' /\ TakesExplained'
  BY <1>3, <1>16 DEF IInv, Newest, TakesExplained
<1>23. Once'
  <2>1. /\ \A t \in Session : Distinct(down[t])
        /\ \A t \in Session : \A i \in DOMAIN down[t] :
              ~Waits(down[t][i]) /\ ~Told(down[t][i]) /\ ~Sent(down[t][i])
    BY DEF IInv, Once
  <2>2. ASSUME NEW t \in Session, NEW i \in DOMAIN down[t]
        PROVE  ~Waits(down[t][i])' /\ ~Told(down[t][i])' /\ ~Sent(down[t][i])'
    <3>1. PICK a : a = down[t][i]
      OBVIOUS
    <3>2. a \in DOMAIN asked /\ ~Waits(a) /\ ~Told(a) /\ ~Sent(a)
      BY <2>1, <3>1, Parts
    <3>3. ~Waits(a)' /\ ~Told(a)' /\ ~Sent(a)'
      BY <1>18, <1>19, <3>2
    <3>4. down'[t][i] = a
      BY <1>3, <3>1
    <3> QED
      BY <3>3, <3>4
  <2>3. ASSUME NEW i \in DOMAIN listeners' PROVE ~Told(listeners[i])'
    <3>1. PICK k \in DOMAIN listeners : /\ listeners'[i] = listeners[k]
                                        /\ Kind(listeners[k]) # Kind(r)
      BY <1>15
    <3>2. listeners[k] \in DOMAIN asked /\ ~Told(listeners[k])
      BY <1>11, Parts
    <3>3. PICK a : a = listeners[k]
      OBVIOUS
    <3>4. ~Told(a)'
      BY <1>19, <3>1, <3>2, <3>3
    <3> QED
      BY <3>1, <3>3, <3>4
  <2>4. /\ \A t \in Session : Distinct(down'[t])
        /\ \A t \in Session : \A i \in DOMAIN down'[t] :
              ~Waits(down[t][i])' /\ ~Told(down[t][i])' /\ ~Sent(down[t][i])'
        /\ Distinct(listeners') /\ Distinct(toWatch') /\ Distinct(toPhone')
        /\ \A i \in DOMAIN listeners' : ~Told(listeners[i])'
        /\ \A i \in DOMAIN toWatch', j \in DOMAIN toPhone' : toWatch'[i] # toPhone'[j]
    <3>1. /\ \A t \in Session : Distinct(down'[t])
          /\ Distinct(listeners') /\ Distinct(toWatch') /\ Distinct(toPhone')
      BY <1>3, <1>8, <1>11, <1>12, <1>15, <2>1
    <3>2. \A i \in DOMAIN toWatch', j \in DOMAIN toPhone' : toWatch'[i] # toPhone'[j]
      BY <1>3, <1>8, <1>12
    <3>3. \A t \in Session : \A i \in DOMAIN down'[t] :
              ~Waits(down[t][i])' /\ ~Told(down[t][i])' /\ ~Sent(down[t][i])'
      BY <1>3, <2>2
    <3> QED
      BY <2>3, <3>1, <3>2, <3>3
\* Who answers now had not answered before.
  <2>5. ASSUME NEW t \in Session, NEW i \in DOMAIN up'[t], i \notin DOMAIN up[t]
        PROVE  /\ \A j \in DOMAIN up[t] : up[t][j].for # up'[t][i].for
               /\ \A p \in answers : p.for # up'[t][i].for
    <3>1. PICK k \in DOMAIN listeners : /\ up'[t][i].for = listeners[k]
                                        /\ Asker(listeners[k]) = t
      BY <1>14, <2>5
    <3> QED
      BY <1>11, <3>1 DEF Told
  <2>6. ASSUME NEW t \in Session, NEW i \in DOMAIN up'[t],
               Kind(up[t][i].for)' \in Alarms
        PROVE  /\ \A j \in DOMAIN up'[t] : up'[t][j].for = up'[t][i].for => j = i
               /\ \A p \in answers' : p.for # up'[t][i].for
    <3>1. Kind(up'[t][i].for) \in Alarms
      BY <1>16, <2>6
    <3>2. CASE i \in DOMAIN up[t]
      <4>1. up'[t][i] = up[t][i]
        BY <1>13, <3>2
      <4>2. /\ \A j \in DOMAIN up[t] : up[t][j].for = up[t][i].for => j = i
            /\ \A p \in answers : p.for # up[t][i].for
        BY <3>1, <3>2, <4>1 DEF IInv, Once
      <4>3. ASSUME NEW j \in DOMAIN up'[t], up'[t][j].for = up'[t][i].for
            PROVE  j = i
        <5>1. CASE j \in DOMAIN up[t]
          <6>1. up'[t][j] = up[t][j]
            BY <1>13, <5>1
          <6> QED
            BY <4>1, <4>2, <4>3, <5>1, <6>1
        <5>2. CASE j \notin DOMAIN up[t]
          BY <2>5, <3>2, <4>1, <4>3, <5>2
        <5> QED
          BY <5>1, <5>2
      <4> QED
        BY <1>3, <4>1, <4>2, <4>3
    <3>3. CASE i \notin DOMAIN up[t]
      <4>1. ASSUME NEW j \in DOMAIN up'[t], up'[t][j].for = up'[t][i].for
            PROVE  j = i
        <5>1. CASE j \in DOMAIN up[t]
          <6>1. up'[t][j] = up[t][j]
            BY <1>13, <5>1
          <6> QED
            BY <2>5, <3>3, <4>1, <5>1, <6>1
        <5>2. CASE j \notin DOMAIN up[t]
          BY <1>13, <3>3, <4>1, <5>2
        <5> QED
          BY <5>1, <5>2
      <4> QED
        BY <1>3, <2>5, <3>3, <4>1
    <3> QED
      BY <3>2, <3>3
  <2>7. \A o, p \in answers' : o.for = p.for /\ Kind(o.for)' \in Alarms => o = p
    BY <1>3, <1>16 DEF IInv, Once
  <2> QED
    BY <2>4, <2>6, <2>7 DEF Once
<1>24. Pending'
  <2> SUFFICES ASSUME NEW t \in Session, open[t], surplus[t] = 0
               PROVE  /\ \A i \in DOMAIN down[t] : down[t][i] = calling[t]
                      /\ \A i \in DOMAIN listeners' :
                            Asker(listeners'[i]) = t => listeners'[i] = calling[t]
                      /\ \A i \in DOMAIN up'[t] : up'[t][i].for = calling[t]
    BY <1>3, <1>16 DEF Pending
  <2>1. /\ \A i \in DOMAIN down[t] : down[t][i] = calling[t]
        /\ \A i \in DOMAIN listeners :
              Asker(listeners[i]) = t => listeners[i] = calling[t]
        /\ \A i \in DOMAIN up[t] : up[t][i].for = calling[t]
    BY DEF IInv, Pending
  <2>2. \A i \in DOMAIN listeners' :
            Asker(listeners'[i]) = t => listeners'[i] = calling[t]
    BY <1>15, <2>1
  <2>3. \A i \in DOMAIN up'[t] : up'[t][i].for = calling[t]
    BY <1>14, <2>1
  <2> QED
    BY <2>1, <2>2, <2>3
<1>25. Overheard'
  <2> SUFFICES ASSUME NEW a \in DOMAIN asked, Sent(a)', ~Waits(a)', open[Asker(a)]
               PROVE  Excused(a)
    BY <1>3, <1>16, <1>17 DEF Overheard
  <2>1. Sent(a) /\ a # r
    BY <1>18
  <2>2. CASE ~Waits(a)
    BY <2>1, <2>2 DEF IInv, Overheard
  <2>3. CASE Waits(a)
    <3>1. Kind(a) = Kind(r)
      BY <1>18, <2>3
    <3> QED
      BY <1>7, <1>10, <2>1, <2>3, <3>1, Misheard
  <2> QED
    BY <2>2, <2>3
<1>26. Mistold'
  <2> SUFFICES ASSUME NEW t \in Session, NEW i \in DOMAIN up'[t],
                      up'[t][i].from \notin {0, up'[t][i].for}
               PROVE  /\ Kind(up'[t][i].from) = Kind(up'[t][i].for)
                      /\ Excused(up'[t][i].for)
    BY <1>16, <1>17 DEF Mistold
  <2>1. CASE i \in DOMAIN up[t] /\ up'[t][i] = up[t][i]
    BY <2>1 DEF IInv, Mistold
  <2>2. CASE ~(i \in DOMAIN up[t] /\ up'[t][i] = up[t][i])
    <3>1. PICK k \in DOMAIN listeners :
              /\ up'[t][i].for = listeners[k] /\ listeners[k] \in DOMAIN asked
              /\ Asker(listeners[k]) = t /\ Kind(listeners[k]) = Kind(r)
      BY <1>14, <2>2
    <3>2. up'[t][i].from = r /\ open[t]
      BY <1>14, <2>2
    <3>3. PICK a : a = listeners[k]
      OBVIOUS
    <3>4. a \in DOMAIN asked /\ Waits(a) /\ a # r /\ Kind(a) = Kind(r)
          /\ open[Asker(a)]
      BY <3>1, <3>2, <3>3 DEF Waits
    <3>5. Excused(a)
      BY <1>7, <1>10, <3>4, Misheard
    <3> QED
      BY <3>1, <3>2, <3>3, <3>4, <3>5
  <2> QED
    BY <2>1, <2>2
<1>27. ListenersAwaitReply'
  <2> SUFFICES ASSUME NEW i \in DOMAIN listeners'
               PROVE  listeners'[i] \in ToSet(toWatch) \union ToSet(q) \union lost
    BY <1>3, <1>8 DEF ListenersAwaitReply
  <2>1. PICK k \in DOMAIN listeners : /\ listeners'[i] = listeners[k]
                                      /\ Kind(listeners[k]) # Kind(r)
    BY <1>15
  <2>2. listeners[k] \in ToSet(toWatch) \union ToSet(toPhone) \union lost
    BY DEF IInv, ListenersAwaitReply
  <2>3. ToSet(toPhone) \subseteq ToSet(q) \union {r}
    BY <1>7 DEF ToSet
  <2>4. listeners[k] # r
    BY <2>1
  <2> QED
    BY <2>1, <2>2, <2>3, <2>4
<1>28. SurplusStays'
  <2> SUFFICES ASSUME NEW t \in Session, open[t]
               PROVE  Len(up'[t]) + Unanswered(t)'
                        = surplus[t] + (IF calling[t] = 0 THEN 0 ELSE 1)
    BY <1>3 DEF SurplusStays
  <2> DEFINE w == Cardinality(Waiting(t))
             x == Cardinality(Waiting(t)')
             h == Cardinality(Heard(t, r))
             d == Len(down[t])
             u == Len(up[t])
             v == Len(up'[t])
             c == IF calling[t] = 0 THEN 0 ELSE 1
  <2>1. /\ w \in Nat /\ Unanswered(t) = d + w /\ d \in Nat /\ u \in Nat /\ h \in Nat
        /\ surplus[t] \in Nat
    BY Counted, Parts, SomeHear
  <2>2. Unanswered(t)' = d + x
    BY <1>3 DEF Unanswered, Waiting
  <2>3. u + Unanswered(t) = surplus[t] + c
    BY DEF IInv, SurplusStays
  <2>4. x = w - h /\ v = u + h
    BY <1>13, <1>15
  <2> HIDE DEF w, x, h, d, u, v, c
  <2>5. u + (d + w) = surplus[t] + c
    BY <2>1, <2>3
  <2>6. v + (d + x) = u + (d + w)
    BY <2>1, <2>4
  <2> QED
    BY <2>2, <2>5, <2>6 DEF v, c
<1> QED
  BY <1>20, <1>21, <1>22, <1>23, <1>24, <1>25, <1>26, <1>27, <1>28 DEF IInv

-----------------------------------------------------------------------------
(* The theorems.                                                           *)

\* Every step keeps the invariant.
LEMMA NextStep == IInv /\ [Next]_vars => IInv'
<1> SUFFICES ASSUME IInv, [Next]_vars PROVE IInv'
  OBVIOUS
<1>1. ASSUME NEW s \in Session,
             \/ \E kind \in Kinds : CallAction(s, kind)
             \/ Read(s) \/ ReadFails(s) \/ EndSession(s) \/ HandleAction(s) \/ Break(s)
      PROVE  IInv'
  BY <1>1, CallActionStep, ReadStep, ShutSteps, HandleActionStep
<1>2. CASE HearReply
  BY <1>2, HearReplyStep
<1>3. CASE WatchHandles
  BY <1>3, WatchHandlesStep
<1>4. CASE Lose
  BY <1>4, LoseStep
<1>5. CASE AppCloses
  BY <1>5, AppClosesStep
<1>6. CASE UNCHANGED vars
  <2>1. UNCHANGED <<asked, calling, answers, failures, open, down, up, listeners,
                    toWatch, toPhone, lost, surplus, breaks>>
    BY <1>6 DEF vars, service, link
  <2> QED
    BY <2>1 DEF IInv, TypeOK, Owned, Newest, Once, Pending, Overheard, Mistold,
                TakesExplained, ListenersAwaitReply, SurplusStays, Unanswered,
                Waits, Told, Sent, Excused, Beside, Asker, Kind
<1> QED
  BY <1>1, <1>2, <1>3, <1>4, <1>5, <1>6 DEF Next

\* The inductive invariant holds for any number of sessions, actions, lost
\* messages and broken websockets.
THEOREM InductiveInvariant == Spec => []IInv
<1>1. Init => IInv
  BY InitHolds
<1>2. IInv /\ [Next]_vars => IInv'
  BY NextStep
<1> QED
  BY <1>1, <1>2, PTL DEF Spec

\* What is asked for, under way and returned is what it should be: in particular
\* no more than two answers too many an action (actions/reminders.js).
THEOREM TypeCorrect == Spec => []TypeOK
<1>1. IInv => TypeOK
  BY DEF IInv
<1> QED
  BY <1>1, InductiveInvariant, PTL

\* An answer given once too often is never made up for: every later call of
\* CallAction() in the session has one answer too many before it (query.go).
THEOREM SurplusAlwaysStays == Spec => []SurplusStays
<1>1. IInv => SurplusStays
  BY DEF IInv
<1> QED
  BY <1>1, InductiveInvariant, PTL

\* How many there are of what is there once at most.
LEMMA AtMostOne ==
    ASSUME NEW S, \A x, y \in S : x = y
    PROVE  Cardinality(S) \in {0, 1} /\ (S # {} => Cardinality(S) = 1)
           /\ (S = {} => Cardinality(S) = 0)
<1>1. CASE S = {}
  BY <1>1, FS_EmptySet
<1>2. CASE S # {}
  <2>1. PICK x : S = {x}
    BY <1>2
  <2> QED
    BY <1>2, <2>1, FS_Singleton
<1> QED
  BY <1>1, <1>2

\* Once is what AlarmsAnsweredOnce counts.
LEMMA OnceImplies == IInv => AlarmsAnsweredOnce
<1> SUFFICES ASSUME IInv, NEW a \in DOMAIN asked, Kind(a) \in Alarms
             PROVE  Given(a) <= 1
  BY DEF AlarmsAnsweredOnce, Alarms
<1> DEFINE R == {r \in answers : r.for = a}
           I == {i \in DOMAIN up[Asker(a)] : up[Asker(a)][i].for = a}
<1>1. Asker(a) \in Session
  BY Parts
<1>2. \A x, y \in R : x = y
  BY DEF IInv, Once
<1>3. \A i, j \in I : i = j
  BY <1>1 DEF IInv, Once
<1>4. R = {} \/ I = {}
  BY <1>1 DEF IInv, Once
<1>5. Given(a) = Cardinality(R) + Cardinality(I)
  BY DEF Given
<1> HIDE DEF R, I
<1>6. /\ Cardinality(R) \in {0, 1} /\ (R = {} => Cardinality(R) = 0)
      /\ Cardinality(I) \in {0, 1} /\ (I = {} => Cardinality(I) = 0)
  BY <1>2, <1>3, AtMostOne
<1> QED
  BY <1>4, <1>5, <1>6

\* Whose answer CallAction() returns, and whose reply it tells, has one of the
\* reasons that AnswersExplained names; a handler that asks the watch answers at
\* most once, and waits only for what is on its way or was lost (alarms.js).
THEOREM AnswersAreExplained == Spec => []AnswersExplained
<1>1. IInv => AnswersExplained
  BY OnceImplies DEF IInv, AnswersExplained
<1> QED
  BY <1>1, InductiveInvariant, PTL
=============================================================================
