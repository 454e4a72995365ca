------------------------- MODULE ImageManagerProofs -------------------------
(***************************************************************************)
(* Proofs about ImageManager for any number of images, chunks, losses and  *)
(* failed allocations: what may go wrong with memory, that the list of     *)
(* images stays sound, and what a map shows.                               *)
(*                                                                         *)
(* While memory has not run out in the middle of telling a widget, at most *)
(* one image is being destroyed for memory on top of what the handler was  *)
(* doing; the rest follows from what each pending step promises.           *)
(***************************************************************************)
EXTENDS ImageManager, SequenceTheorems, FiniteSetTheorems, TLAPS

\* The step b comes right behind a.
Follows(a, b) ==
    \/ a[1] = "record" /\ b = <<"data", a[2]>>
    \/ a[1] = "data" /\ b = <<"append", a[2]>>
    \/ a[1] = "layer" /\ b = <<"register", a[2]>>
    \/ a[1] \in {"tell", "skull"} /\ b = <<"free", a[2]>>
    \/ a[1] = "free" /\ b \in {<<"drop", a[2]>>, <<"drop_first", 0>>}
    \/ a[1] = "drop_first" /\ b[1] \in Allocating

Chained(s) ==
    \A i \in DOMAIN s : i + 1 \in DOMAIN s => Follows(s[i], s[i + 1])

Ended(s) ==
    \A i \in DOMAIN s :
        i + 1 \notin DOMAIN s => s[i][1] \in {"append", "register", "drop"}

\* The pending steps are those of calls that run to their end.
Calls == Chained(todo) /\ Ended(todo)

Does(what, id) == <<what, id>> \in ToSet(todo)

Sent(id, what) == <<what, id, 0>> \in ToSet(channel)

\* An image is about to be freed a second time.
Doomed ==
    \E i \in DOMAIN todo :
        /\ todo[i][1] = "free"
        /\ \/ todo[i][2] \in freed
           \/ \E j \in DOMAIN todo : j # i /\ todo[j] = todo[i]

\* Memory that ran out in the middle of telling a widget ends in a fault.
NestedIsDoomed == fault = "none" /\ nested => Doomed

Orderly == fault = "none" /\ ~nested

\* The messages of one image, in the order they are sent.
Rank(m) == CASE m[1] = "start" -> 0
             [] m[1] = "widget" -> 1
             [] m[1] = "chunk" -> m[3] + 1
             [] m[1] = "complete" -> Chunks + 2

Ordered(q) ==
    \A i, j \in DOMAIN q :
        i < j /\ q[i][2] = q[j][2] => Rank(q[i]) < Rank(q[j])

\* What is under way is what the phone has sent, in order.
ChannelOK ==
    /\ \A id \in timers : id <= sent
    /\ \A m \in ToSet(channel) :
          m[2] <= sent /\ (m[2] \in timers => m[1] \in {"start", "widget"})
    /\ Ordered(channel)

Distinct(s) == \A i, j \in DOMAIN s : s[i] = s[j] => i = j

-----------------------------------------------------------------------------
(* Sequences, as lists and as the sets of what is on them.                 *)

\* What is left when the first is taken.
LEMMA Taken ==
    ASSUME NEW S, NEW q \in Seq(S), q # <<>>
    PROVE  /\ Tail(q) \in Seq(S) /\ Head(q) = q[1] /\ q[1] \in S
           /\ Len(q) \in Nat \ {0} /\ Len(Tail(q)) = Len(q) - 1
           /\ DOMAIN q = 1..Len(q) /\ 1 \in DOMAIN q
           /\ \A i \in DOMAIN Tail(q) : i + 1 \in DOMAIN q /\ Tail(q)[i] = q[i + 1]
           /\ \A i \in DOMAIN q : i # 1 =>
                 i - 1 \in DOMAIN Tail(q) /\ Tail(q)[i - 1] = q[i]
           /\ \A i \in DOMAIN Tail(q) : i \in Nat /\ i >= 1
<1> DEFINE n == Len(q)
           t == Tail(q)
<1>1. n \in Nat /\ n # 0 /\ DOMAIN q = 1..n
  BY EmptySeq, LenProperties
<1>2. t \in Seq(S) /\ Len(t) = n - 1 /\ \A i \in 1..Len(t) : t[i] = q[i + 1]
  BY HeadTailProperties
<1>3. DOMAIN t = 1..n - 1
  BY <1>2, LenProperties
<1>4. 1 \in DOMAIN q
  BY <1>1
<1>5. Head(q) = q[1] /\ q[1] \in S
  BY <1>1, <1>4, ElementOfSeq
<1> HIDE DEF n, t
<1>6. \A i \in DOMAIN t : i + 1 \in DOMAIN q /\ t[i] = q[i + 1] /\ i \in Nat /\ i >= 1
  BY <1>1, <1>2, <1>3
<1>7. \A i \in DOMAIN q : i # 1 => i - 1 \in DOMAIN t /\ t[i - 1] = q[i]
  <2> SUFFICES ASSUME NEW i \in DOMAIN q, i # 1
               PROVE  i - 1 \in DOMAIN t /\ t[i - 1] = q[i]
    OBVIOUS
  <2>1. i - 1 \in 1..n - 1 /\ (i - 1) + 1 = i
    BY <1>1
  <2> QED
    BY <1>2, <1>3, <2>1
<1> QED
  BY <1>1, <1>2, <1>4, <1>5, <1>6, <1>7 DEF n, t

\* What is left on a list without its first.
LEMMA TakenSet ==
    ASSUME NEW S, NEW q \in Seq(S), q # <<>>
    PROVE  /\ Head(q) \in ToSet(q) /\ Head(q) \in S
           /\ ToSet(Tail(q)) \subseteq ToSet(q)
           /\ ToSet(q) \subseteq ToSet(Tail(q)) \union {Head(q)}
           /\ Distinct(q) => Distinct(Tail(q)) /\ Head(q) \notin ToSet(Tail(q))
<1> DEFINE t == Tail(q)
<1>1. /\ Head(q) = q[1] /\ q[1] \in S /\ 1 \in DOMAIN q
      /\ \A i \in DOMAIN t : /\ i + 1 \in DOMAIN q /\ t[i] = q[i + 1]
                             /\ i \in Nat /\ i >= 1
      /\ \A i \in DOMAIN q : i # 1 => i - 1 \in DOMAIN t /\ t[i - 1] = q[i]
  BY Taken
<1> HIDE DEF t
<1>2. ToSet(t) \subseteq ToSet(q)
  BY <1>1 DEF ToSet
<1>3. ToSet(q) \subseteq ToSet(t) \union {Head(q)}
  <2> SUFFICES ASSUME NEW i \in DOMAIN q
               PROVE  q[i] \in ToSet(t) \union {Head(q)}
    BY DEF ToSet
  <2>1. CASE i = 1
    BY <1>1, <2>1
  <2>2. CASE i # 1
    <3>1. i - 1 \in DOMAIN t /\ t[i - 1] = q[i]
      BY <1>1, <2>2
    <3> QED
      BY <3>1 DEF ToSet
  <2> QED
    BY <2>1, <2>2
<1>4. ASSUME Distinct(q)
      PROVE  Distinct(t) /\ Head(q) \notin ToSet(t)
  <2>1. \A i \in DOMAIN t : i + 1 # 1
    BY <1>1
  <2>2. \A i, j \in DOMAIN t : i + 1 = j + 1 => i = j
    BY <1>1
  <2>3. Head(q) \notin ToSet(t)
    BY <1>1, <1>4, <2>1 DEF ToSet, Distinct
  <2>4. Distinct(t)
    BY <1>1, <1>4, <2>2 DEF Distinct
  <2> QED
    BY <2>3, <2>4
<1>5. Head(q) \in ToSet(q)
  <2>1. q[1] \in ToSet(q)
    BY <1>1 DEF ToSet
  <2> QED
    BY <1>1, <2>1
<1> QED
  BY <1>1, <1>2, <1>3, <1>4, <1>5 DEF t

\* What is on a list when one more is put at the end.
LEMMA AddedSet ==
    ASSUME NEW S, NEW q \in Seq(S), NEW x \in S
    PROVE  /\ Append(q, x) \in Seq(S)
           /\ ToSet(Append(q, x)) = ToSet(q) \union {x}
           /\ Append(q, x) # <<>>
           /\ q # <<>> => Head(Append(q, x)) = Head(q)
           /\ q = <<>> => Head(Append(q, x)) = x
           /\ Distinct(q) /\ x \notin ToSet(q) => Distinct(Append(q, x))
<1> DEFINE n == Len(q)
           a == Append(q, x)
<1>1. n \in Nat /\ DOMAIN q = 1..n
  BY LenProperties
<1>2. /\ a \in Seq(S) /\ Len(a) = n + 1
      /\ \A i \in 1..n : a[i] = q[i]
      /\ a[n + 1] = x
  BY AppendProperties
<1>3. DOMAIN a = 1..n + 1
  BY <1>2, LenProperties
<1>4. a # <<>> /\ (q # <<>> => n > 0) /\ (q = <<>> => n = 0)
  <2>1. a = <<>> <=> Len(a) = 0
    BY <1>2, EmptySeq
  <2>2. q = <<>> <=> n = 0
    BY EmptySeq
  <2> HIDE DEF n, a
  <2> QED
    BY <1>1, <1>2, <2>1, <2>2
<1>5. Head(a) = a[1] /\ (q # <<>> => Head(q) = q[1])
  BY <1>2, <1>4, HeadTailProperties
<1> HIDE DEF n, a
<1>6. DOMAIN a = DOMAIN q \union {n + 1} /\ n + 1 \notin DOMAIN q
  BY <1>1, <1>3
<1>7. \A i \in DOMAIN q : a[i] = q[i]
  BY <1>1, <1>2
<1>8. ToSet(a) = ToSet(q) \union {x}
  BY <1>2, <1>6, <1>7 DEF ToSet
<1>9. ASSUME Distinct(q), x \notin ToSet(q) PROVE Distinct(a)
  <2>1. \A i \in DOMAIN q : a[i] # x
    BY <1>7, <1>9 DEF ToSet
  <2> QED
    BY <1>2, <1>6, <1>7, <1>9, <2>1 DEF Distinct
<1>10. (q # <<>> => Head(a) = Head(q)) /\ (q = <<>> => Head(a) = x)
  BY <1>1, <1>2, <1>4, <1>5
<1> QED
  BY <1>2, <1>4, <1>8, <1>9, <1>10 DEF a

\* What is there when others are put behind.
LEMMA Joined ==
    ASSUME NEW S, NEW q \in Seq(S), NEW x \in Seq(S)
    PROVE  /\ q \o x \in Seq(S) /\ Len(q \o x) = Len(q) + Len(x)
           /\ Len(q) \in Nat /\ Len(x) \in Nat
           /\ DOMAIN q = 1..Len(q) /\ DOMAIN x = 1..Len(x)
           /\ DOMAIN (q \o x) = 1..Len(q) + Len(x)
           /\ \A i \in DOMAIN q : i \in DOMAIN (q \o x) /\ (q \o x)[i] = q[i]
           /\ \A i \in DOMAIN x : /\ i + Len(q) \in DOMAIN (q \o x)
                                  /\ (q \o x)[i + Len(q)] = x[i]
           /\ \A i \in DOMAIN (q \o x) :
                 \/ i \in DOMAIN q /\ (q \o x)[i] = q[i]
                 \/ i \notin DOMAIN q /\ i - Len(q) \in DOMAIN x /\ i \in Nat
                    /\ (q \o x)[i] = x[i - Len(q)]
           /\ ToSet(q \o x) = ToSet(q) \union ToSet(x)
<1> DEFINE n == Len(q)
           k == Len(x)
           c == q \o x
<1>1. n \in Nat /\ DOMAIN q = 1..n /\ k \in Nat /\ DOMAIN x = 1..k
  BY LenProperties
<1>2. /\ c \in Seq(S) /\ Len(c) = n + k
      /\ \A i \in 1..n + k : c[i] = IF i <= n THEN q[i] ELSE x[i - n]
  BY ConcatProperties
<1>3. DOMAIN c = 1..n + k
  BY <1>2, LenProperties
<1> HIDE DEF n, k, c
<1>4. \A i \in DOMAIN q : i \in DOMAIN c /\ c[i] = q[i]
  BY <1>1, <1>2, <1>3
<1>5. \A i \in DOMAIN c :
        \/ i \in DOMAIN q /\ c[i] = q[i]
        \/ i \notin DOMAIN q /\ i - n \in DOMAIN x /\ i \in Nat /\ c[i] = x[i - n]
  <2> SUFFICES ASSUME NEW i \in DOMAIN c
               PROVE  \/ i \in DOMAIN q /\ c[i] = q[i]
                      \/ /\ i \notin DOMAIN q /\ i - n \in DOMAIN x /\ i \in Nat
                         /\ c[i] = x[i - n]
    OBVIOUS
  <2>1. CASE i <= n
    BY <1>1, <1>2, <1>3, <2>1
  <2>2. CASE ~(i <= n)
    BY <1>1, <1>2, <1>3, <2>2
  <2> QED
    BY <2>1, <2>2
<1>6. ASSUME NEW i \in DOMAIN x PROVE i + n \in DOMAIN c /\ c[i + n] = x[i]
  <2>1. i + n \in 1..n + k /\ ~(i + n <= n) /\ (i + n) - n = i
    BY <1>1
  <2> QED
    BY <1>2, <1>3, <2>1
<1>7. ToSet(c) = ToSet(q) \union ToSet(x)
  <2>1. ToSet(c) \subseteq ToSet(q) \union ToSet(x)
    BY <1>5 DEF ToSet
  <2>2. ToSet(q) \subseteq ToSet(c)
    BY <1>4 DEF ToSet
  <2>3. ToSet(x) \subseteq ToSet(c)
    BY <1>6 DEF ToSet
  <2> QED
    BY <2>1, <2>2, <2>3
<1> QED
  BY <1>1, <1>2, <1>3, <1>4, <1>5, <1>6, <1>7 DEF n, k, c

\* RemoveAt() moves what is behind one place up.
LEMMA Removed ==
    ASSUME NEW S, NEW s \in Seq(S), NEW i \in 1..Len(s)
    PROVE  LET r == RemoveAt(s, i)
           IN  /\ r \in Seq(S)
               /\ Len(r) = Len(s) - 1
               /\ \A j \in 1..Len(s) - 1 : r[j] = s[IF j < i THEN j ELSE j + 1]
<1> DEFINE u == SubSeq(s, 1, i - 1)
           v == SubSeq(s, i + 1, Len(s))
<1>1. Len(s) \in Nat
  OBVIOUS
<1>2. \A j \in 1..Len(s) : s[j] \in S
  BY ElementOfSeq
<1>3. /\ u \in Seq(S)
      /\ Len(u) = i - 1
      /\ \A j \in 1..i - 1 : u[j] = s[j]
  <2>1. \A j \in 1..i - 1 : s[j] \in S
    BY <1>1, <1>2
  <2>2. /\ u \in Seq(S)
        /\ Len(u) = IF 1 <= i - 1 THEN i - 1 - 1 + 1 ELSE 0
        /\ \A j \in 1..i - 1 - 1 + 1 : u[j] = s[1 + j - 1]
    BY <1>1, <2>1, SubSeqProperties
  <2> HIDE DEF u
  <2> QED
    BY <1>1, <2>2
<1>4. /\ v \in Seq(S)
      /\ Len(v) = Len(s) - i
      /\ \A j \in 1..Len(s) - i : v[j] = s[i + j]
  <2>1. \A j \in i + 1..Len(s) : s[j] \in S
    BY <1>1, <1>2
  <2>2. /\ v \in Seq(S)
        /\ Len(v) = IF i + 1 <= Len(s) THEN Len(s) - (i + 1) + 1 ELSE 0
        /\ \A j \in 1..Len(s) - (i + 1) + 1 : v[j] = s[i + 1 + j - 1]
    BY <1>1, <2>1, SubSeqProperties
  <2> HIDE DEF v
  <2> QED
    BY <1>1, <2>2
<1> HIDE DEF u, v
<1>5. /\ u \o v \in Seq(S)
      /\ Len(u \o v) = Len(u) + Len(v)
      /\ \A j \in 1..Len(u) + Len(v) :
            (u \o v)[j] = IF j <= Len(u) THEN u[j] ELSE v[j - Len(u)]
  BY <1>3, <1>4, ConcatProperties
<1>6. ASSUME NEW j \in 1..Len(s) - 1
      PROVE  (u \o v)[j] = s[IF j < i THEN j ELSE j + 1]
  <2>1. CASE j < i
    BY <1>1, <1>3, <1>4, <1>5, <2>1
  <2>2. CASE ~(j < i)
    <3>1. (u \o v)[j] = v[j - (i - 1)] /\ j - (i - 1) \in 1..Len(s) - i
      BY <1>1, <1>3, <1>4, <1>5, <2>2
    <3>2. v[j - (i - 1)] = s[i + (j - (i - 1))]
      BY <1>4, <3>1
    <3>3. i + (j - (i - 1)) = j + 1
      BY <1>1
    <3> QED
      BY <2>2, <3>1, <3>2, <3>3
  <2> QED
    BY <2>1, <2>2
<1>7. /\ u \o v \in Seq(S)
      /\ Len(u \o v) = Len(s) - 1
      /\ \A j \in 1..Len(s) - 1 :
            (u \o v)[j] = s[IF j < i THEN j ELSE j + 1]
  <2>1. Len(u) + Len(v) = Len(s) - 1
    BY <1>1, <1>3, <1>4
  <2> QED
    BY <1>5, <1>6, <2>1
<1> QED
  BY <1>7 DEF u, v, RemoveAt

\* The sequence r is what is left of q when some of it is taken away.
PartOf(r, q) ==
    \E at \in [DOMAIN r -> DOMAIN q] :
        /\ \A i \in DOMAIN r : r[i] = q[at[i]]
        /\ \A i, j \in DOMAIN r : i < j => at[i] < at[j]

LEMMA TailIsPart ==
    ASSUME NEW S, NEW q \in Seq(S), q # <<>>
    PROVE  PartOf(Tail(q), q)
<1> DEFINE t == Tail(q)
           at == [i \in DOMAIN t |-> i + 1]
<1>1. \A i \in DOMAIN t : /\ i + 1 \in DOMAIN q /\ t[i] = q[i + 1]
                          /\ i \in Nat /\ i >= 1
  BY Taken
<1> HIDE DEF t
<1>2. at \in [DOMAIN t -> DOMAIN q]
  BY <1>1
<1>3. \A i \in DOMAIN t : t[i] = q[at[i]]
  BY <1>1
<1>4. \A i, j \in DOMAIN t : i < j => at[i] < at[j]
  BY <1>1
<1> HIDE DEF at
<1>5. PartOf(t, q)
  BY <1>2, <1>3, <1>4 DEF PartOf
<1> QED
  BY <1>5 DEF t

\* What is left when one is lost.
LEMMA OneLost ==
    ASSUME NEW S, NEW q \in Seq(S), NEW i \in DOMAIN q
    PROVE  /\ RemoveAt(q, i) \in Seq(S) /\ q[i] \in S
           /\ PartOf(RemoveAt(q, i), q)
           /\ ToSet(q) \subseteq ToSet(RemoveAt(q, i)) \union {q[i]}
<1> DEFINE n == Len(q)
           r == RemoveAt(q, i)
<1>1. n \in Nat /\ DOMAIN q = 1..n /\ i \in 1..n
  BY LenProperties
<1>2. /\ r \in Seq(S) /\ Len(r) = n - 1
      /\ \A j \in 1..n - 1 : r[j] = q[IF j < i THEN j ELSE j + 1]
  BY <1>1, Removed
<1>3. DOMAIN r = 1..n - 1 /\ q[i] \in S
  BY <1>1, <1>2, LenProperties, ElementOfSeq
<1> DEFINE at == [j \in DOMAIN r |-> IF j < i THEN j ELSE j + 1]
<1> HIDE DEF n, r
<1>4. \A j \in DOMAIN r : at[j] \in DOMAIN q /\ r[j] = q[at[j]]
  BY <1>1, <1>2, <1>3
<1>5. \A j, k \in DOMAIN r : j < k => at[j] < at[k]
  BY <1>1, <1>3
<1>6. ASSUME NEW k \in DOMAIN q, k # i
      PROVE  \E j \in DOMAIN r : r[j] = q[k]
  <2>1. CASE k < i
    <3>1. k \in DOMAIN r /\ at[k] = k
      BY <1>1, <1>3, <2>1
    <3> QED
      BY <1>4, <3>1
  <2>2. CASE ~(k < i)
    <3>1. k - 1 \in DOMAIN r /\ at[k - 1] = k
      BY <1>1, <1>3, <1>6, <2>2
    <3> QED
      BY <1>4, <3>1
  <2> QED
    BY <2>1, <2>2
<1>7. at \in [DOMAIN r -> DOMAIN q]
  BY <1>4
<1> HIDE DEF at
<1>8. PartOf(r, q)
  BY <1>4, <1>5, <1>7 DEF PartOf
<1>9. ToSet(q) \subseteq ToSet(r) \union {q[i]}
  BY <1>6 DEF ToSet
<1> QED
  BY <1>2, <1>3, <1>8, <1>9 DEF r

LEMMA PartSet ==
    ASSUME NEW q, NEW r, PartOf(r, q)
    PROVE  ToSet(r) \subseteq ToSet(q)
BY DEF PartOf, ToSet

\* An ordered list of places has each of them once.
LEMMA InOrderFacts ==
    ASSUME NEW I, IsFiniteSet(I), I \subseteq Nat, NEW at \in InOrder(I)
    PROVE  /\ Cardinality(I) \in Nat /\ DOMAIN at = 1..Cardinality(I)
           /\ \A i \in DOMAIN at : at[i] \in I
           /\ \A i, j \in DOMAIN at : at[i] = at[j] => i = j
           /\ \A k \in I : \E i \in DOMAIN at : at[i] = k
<1> DEFINE n == Cardinality(I)
<1>1. n \in Nat
  BY FS_CardinalityType
<1>2. at \in [1..n -> I] /\ \A i, j \in DOMAIN at : i < j => at[i] < at[j]
  BY DEF InOrder
<1>3. \A i, j \in DOMAIN at : at[i] = at[j] => i = j
  <2> SUFFICES ASSUME NEW i \in 1..n, NEW j \in 1..n, at[i] = at[j], i # j
               PROVE  FALSE
    BY <1>2
  <2>1. at[i] \in Nat /\ at[j] \in Nat
    BY <1>2
  <2>2. i < j \/ j < i
    BY <1>1
  <2> QED
    BY <1>2, <2>1, <2>2
<1>4. IsFiniteSet(1..n) /\ Cardinality(1..n) = n
  <2>1. /\ IsFiniteSet(1..n)
        /\ Cardinality(1..n) = IF 1 > n THEN 0 ELSE n - 1 + 1
    BY <1>1, FS_Interval
  <2> QED
    BY <1>1, <2>1
<1>5. at \in Injection(1..n, I)
  BY <1>2, <1>3 DEF Injection, IsInjective
<1>6. at \in Surjection(1..n, I)
  BY <1>4, <1>5, FS_Injection
<1> QED
  BY <1>1, <1>2, <1>3, <1>6 DEF Surjection


\* What is left of the list without some images.
LEMMA WithoutStep ==
    ASSUME NEW ids, list \in Seq(Id), Without(ids)
    PROVE  /\ list' \in Seq(Id)
           /\ ToSet(list') = {id \in ToSet(list) : id \notin ids}
           /\ Distinct(list) => Distinct(list')
<1> DEFINE I == {i \in DOMAIN list : list[i] \notin ids}
<1>1. PICK b \in InOrder(I) : list' = [i \in DOMAIN b |-> list[b[i]]]
  BY DEF Without
<1>2. Len(list) \in Nat /\ DOMAIN list = 1..Len(list)
  BY LenProperties
<1>3. IsFiniteSet(I) /\ I \subseteq Nat
  <2>1. IsFiniteSet(DOMAIN list) /\ I \subseteq DOMAIN list
    BY <1>2, FS_Interval
  <2> QED
    BY <1>2, <2>1, FS_Subset
<1>4. \A i \in DOMAIN list : list[i] \in Id
  BY ElementOfSeq
<1>5. /\ Cardinality(I) \in Nat /\ DOMAIN b = 1..Cardinality(I)
      /\ \A i \in DOMAIN b : b[i] \in I
      /\ \A i, j \in DOMAIN b : b[i] = b[j] => i = j
      /\ \A k \in I : \E i \in DOMAIN b : b[i] = k
  BY <1>3, InOrderFacts
<1>6. /\ DOMAIN list' = DOMAIN b
      /\ \A i \in DOMAIN b : /\ list'[i] = list[b[i]]
                             /\ b[i] \in DOMAIN list /\ list[b[i]] \notin ids
                             /\ list[b[i]] \in Id
  BY <1>1, <1>4, <1>5
<1>7. \A k \in DOMAIN list : list[k] \notin ids =>
         \E i \in DOMAIN b : list'[i] = list[k]
  <2> SUFFICES ASSUME NEW k \in DOMAIN list, list[k] \notin ids
               PROVE  \E i \in DOMAIN b : list'[i] = list[k]
    OBVIOUS
  <2>1. k \in I
    OBVIOUS
  <2>2. PICK i \in DOMAIN b : b[i] = k
    BY <1>5, <2>1
  <2> QED
    BY <1>6, <2>2
<1> HIDE DEF I
<1>8. list' \in Seq(Id)
  <2> DEFINE n == Cardinality(I)
  <2>1. n \in Nat /\ list' = [i \in 1..n |-> list[b[i]]]
    BY <1>1, <1>5
  <2>2. DOMAIN b = 1..n
    BY <1>5
  <2> HIDE DEF n
  <2>3. \A i \in 1..n : list[b[i]] \in Id
    BY <1>6, <2>2
  <2>4. list' \in [1..n -> Id]
    BY <2>1, <2>3
  <2> QED
    BY <2>1, <2>4
<1>9. ToSet(list') = {id \in ToSet(list) : id \notin ids}
  BY <1>6, <1>7 DEF ToSet
<1>10. Distinct(list) => Distinct(list')
  BY <1>5, <1>6 DEF Distinct
<1> QED
  BY <1>8, <1>9, <1>10

-----------------------------------------------------------------------------
(* The pending steps.                                                      *)

\* What a type says of a pending step.
LEMMA StepType ==
    ASSUME NEW a \in Step
    PROVE  /\ a = <<a[1], a[2]>>
           /\ a[1] # "drop_first" => a[2] \in Id
           /\ a[1] = "drop_first" => a = <<"drop_first", 0>>
           /\ a[1] \in {"record", "data", "append", "layer", "register", "skull",
                        "tell", "free", "drop_first", "drop"}
BY DEF Step

LEMMA StepIn ==
    /\ <<"drop_first", 0>> \in Step
    /\ \A id \in Id : \A what \in {"record", "data", "append", "layer", "register",
                                   "skull", "tell", "free", "drop"} :
          <<what, id>> \in Step
BY DEF Step

\* The step that runs.
LEMMA RunningStep ==
    ASSUME todo \in Seq(Step), todo # <<>>
    PROVE  /\ Head(todo) = todo[1] /\ todo[1] \in Step /\ 1 \in DOMAIN todo
           /\ Subject = todo[1][2]
           /\ todo[1] = <<todo[1][1], Subject>>
           /\ todo[1][1] # "drop_first" => Subject \in Id
           /\ \A what : Running(what) <=> fault = "none" /\ todo[1][1] = what
<1>1. Head(todo) = todo[1] /\ todo[1] \in Step /\ 1 \in DOMAIN todo
  BY Taken
<1>2. Subject = todo[1][2]
  BY <1>1 DEF Subject
<1>3. todo[1] = <<todo[1][1], todo[1][2]>> /\ (todo[1][1] # "drop_first" => todo[1][2] \in Id)
  BY <1>1, StepType
<1>4. \A what : Running(what) <=> fault = "none" /\ todo[1][1] = what
  BY <1>1 DEF Running
<1> QED
  BY <1>1, <1>2, <1>3, <1>4

\* Three steps put together of two and one.
LEMMA Frame ==
    ASSUME NEW a \in Step, NEW b \in Step, NEW c \in Step
    PROVE  LET p == <<a, b>> \o <<c>>
           IN  /\ p \in Seq(Step) /\ Len(p) = 3 /\ DOMAIN p = 1..3
               /\ p[1] = a /\ p[2] = b /\ p[3] = c
               /\ ToSet(p) = {a, b, c}
<1> DEFINE u == <<a, b>>
           v == <<c>>
           p == u \o v
<1>1. /\ u \in Seq(Step) /\ Len(u) = 2 /\ u[1] = a /\ u[2] = b
      /\ v \in Seq(Step) /\ Len(v) = 1 /\ v[1] = c
  OBVIOUS
<1> HIDE DEF u, v
<1>2. /\ p \in Seq(Step) /\ Len(p) = 3
      /\ \A i \in 1..3 : p[i] = IF i <= 2 THEN u[i] ELSE v[i - 2]
  <2>1. /\ p \in Seq(Step) /\ Len(p) = Len(u) + Len(v)
        /\ \A i \in 1..Len(u) + Len(v) :
              p[i] = IF i <= Len(u) THEN u[i] ELSE v[i - Len(u)]
    BY <1>1, ConcatProperties
  <2> HIDE DEF p
  <2>2. Len(u) + Len(v) = 3
    BY <1>1
  <2> QED
    BY <1>1, <2>1, <2>2
<1>3. DOMAIN p = 1..3 /\ p \in Seq(Step) /\ Len(p) = 3
  BY <1>2, LenProperties
<1> HIDE DEF p
<1>6. p[1] = a /\ p[2] = b /\ p[3] = c
  BY <1>1, <1>2
<1>4. DOMAIN p = {1, 2, 3}
  BY <1>3
<1>5. ToSet(p) = {a, b, c}
  BY <1>4, <1>6 DEF ToSet
<1> QED
  BY <1>3, <1>5, <1>6 DEF p, u, v

\* Calls stay whole when their next step is taken.
LEMMA CallsTail ==
    ASSUME todo \in Seq(Step), todo # <<>>, Calls
    PROVE  Tail(todo) \in Seq(Step) /\ Chained(Tail(todo)) /\ Ended(Tail(todo))
<1> DEFINE t == Tail(todo)
<1>1. /\ t \in Seq(Step)
      /\ \A i \in DOMAIN t : /\ i + 1 \in DOMAIN todo /\ t[i] = todo[i + 1]
                             /\ i \in Nat /\ i >= 1
      /\ \A i \in DOMAIN todo : i # 1 => i - 1 \in DOMAIN t /\ t[i - 1] = todo[i]
      /\ DOMAIN todo = 1..Len(todo) /\ Len(todo) \in Nat
  BY Taken
<1> HIDE DEF t
<1>2. ASSUME NEW i \in DOMAIN t
      PROVE  i + 1 \in DOMAIN t <=> (i + 1) + 1 \in DOMAIN todo
  <2>1. i \in Nat /\ i >= 1
    BY <1>1
  <2>2. i + 1 \in DOMAIN t => (i + 1) + 1 \in DOMAIN todo
    BY <1>1
  <2>3. (i + 1) + 1 # 1 /\ ((i + 1) + 1) - 1 = i + 1
    BY <2>1
  <2>4. (i + 1) + 1 \in DOMAIN todo => i + 1 \in DOMAIN t
    BY <1>1, <2>3
  <2> QED
    BY <2>2, <2>4
<1>3. Chained(t)
  BY <1>1, <1>2 DEF Calls, Chained
<1>4. Ended(t)
  BY <1>1, <1>2 DEF Calls, Ended
<1> QED
  BY <1>1, <1>3, <1>4 DEF t

\* Calls stay whole when other calls come before them.
LEMMA CallsPush ==
    ASSUME NEW p \in Seq(Step), NEW q \in Seq(Step), p # <<>>, q # <<>>,
           Chained(p), Chained(q), Ended(q), Follows(p[Len(p)], q[1])
    PROVE  p \o q \in Seq(Step) /\ Chained(p \o q) /\ Ended(p \o q)
<1> DEFINE n == Len(p)
           k == Len(q)
           c == p \o q
<1>1. /\ c \in Seq(Step) /\ n \in Nat /\ k \in Nat
      /\ DOMAIN p = 1..n /\ DOMAIN q = 1..k /\ DOMAIN c = 1..n + k
      /\ \A i \in DOMAIN p : c[i] = p[i]
      /\ \A i \in DOMAIN q : c[i + n] = q[i]
      /\ \A i \in DOMAIN c : i \in DOMAIN p \/ (i - n \in DOMAIN q /\ i \in Nat)
  <2>1. c \in Seq(Step) /\ n \in Nat /\ k \in Nat
    BY Joined
  <2>2. DOMAIN p = 1..n /\ DOMAIN q = 1..k /\ DOMAIN c = 1..n + k
    BY Joined
  <2>3. \A i \in DOMAIN p : c[i] = p[i]
    BY Joined
  <2>4. \A i \in DOMAIN q : c[i + n] = q[i]
    BY Joined
  <2>5. \A i \in DOMAIN c : i \in DOMAIN p \/ (i - n \in DOMAIN q /\ i \in Nat)
    BY Joined
  <2> QED
    BY <2>1, <2>2, <2>3, <2>4, <2>5
<1>2. n > 0 /\ k > 0
  <2>1. n # 0 /\ k # 0
    BY EmptySeq
  <2> HIDE DEF n, k
  <2> QED
    BY <1>1, <2>1
<1> HIDE DEF n, k, c
<1>3. ASSUME NEW i \in DOMAIN c
      PROVE  \/ i \in DOMAIN p /\ i + 1 \in DOMAIN p /\ i + 1 \in DOMAIN c
             \/ i = n /\ i \in DOMAIN p /\ i + 1 \in DOMAIN c /\ c[i + 1] = q[1]
             \/ /\ i - n \in DOMAIN q /\ c[i] = q[i - n]
                /\ (i - n) + 1 \in DOMAIN q <=> i + 1 \in DOMAIN c
                /\ (i - n) + 1 \in DOMAIN q => c[i + 1] = q[(i - n) + 1]
  <2>1. CASE i \in DOMAIN p /\ i # n
    BY <1>1, <1>2, <2>1
  <2>2. CASE i = n
    <3>1. 1 \in DOMAIN q /\ i + 1 = 1 + n /\ i + 1 \in DOMAIN c /\ i \in DOMAIN p
      BY <1>1, <1>2, <2>2
    <3> QED
      BY <1>1, <2>2, <3>1
  <2>3. CASE i \notin DOMAIN p
    <3> DEFINE j == i - n
    <3>1. j \in DOMAIN q /\ i \in Nat
      BY <1>1, <2>3
    <3>2. j + n = i /\ (j + 1) + n = i + 1 /\ j \in Nat
      <4>1. n \in Nat /\ k \in Nat /\ DOMAIN q = 1..k
        BY <1>1
      <4>2. j \in Nat
        BY <3>1, <4>1
      <4> QED
        BY <3>1, <4>1, <4>2
    <3> HIDE DEF j
    <3>3. j + 1 \in DOMAIN q <=> i + 1 \in DOMAIN c
      BY <1>1, <3>1, <3>2
    <3>4. c[i] = q[j] /\ (j + 1 \in DOMAIN q => c[i + 1] = q[j + 1])
      BY <1>1, <3>1, <3>2
    <3> QED
      BY <3>1, <3>3, <3>4 DEF j
  <2> QED
    BY <2>1, <2>2, <2>3
<1>4. Chained(c)
  <2> SUFFICES ASSUME NEW i \in DOMAIN c, i + 1 \in DOMAIN c
               PROVE  Follows(c[i], c[i + 1])
    BY DEF Chained
  <2>1. CASE i \in DOMAIN p /\ i + 1 \in DOMAIN p
    BY <1>1, <2>1 DEF Chained
  <2>2. CASE i = n /\ i \in DOMAIN p /\ c[i + 1] = q[1]
    BY <1>1, <2>2 DEF n
  <2>3. CASE /\ i - n \in DOMAIN q /\ c[i] = q[i - n]
             /\ (i - n) + 1 \in DOMAIN q <=> i + 1 \in DOMAIN c
             /\ (i - n) + 1 \in DOMAIN q => c[i + 1] = q[(i - n) + 1]
    BY <2>3 DEF Chained
  <2> QED
    BY <1>3, <2>1, <2>2, <2>3
<1>5. Ended(c)
  BY <1>3 DEF Ended
<1> QED
  BY <1>1, <1>4, <1>5 DEF c

-----------------------------------------------------------------------------
(* Types.                                                                  *)

\* What a type says of a message.
LEMMA MessageType ==
    ASSUME NEW m \in Message
    PROVE  /\ m = <<m[1], m[2], m[3]>> /\ m[2] \in Id
           /\ m[1] \in {"start", "widget", "chunk", "complete"}
           /\ m[1] = "chunk" => m[3] \in 1..Chunks
           /\ m[1] # "chunk" => m[3] = 0
BY DEF Message

LEMMA MessageIn ==
    /\ \A id \in Id : /\ <<"start", id, 0>> \in Message
                      /\ <<"widget", id, 0>> \in Message
                      /\ <<"complete", id, 0>> \in Message
    /\ \A id \in Id : \A n \in 1..Chunks : <<"chunk", id, n>> \in Message
BY DEF Message

\* The message looks for its image over one whose memory was freed.
Dangling(m) ==
    m[1] # "start" /\ (m[1] = "widget" => window) /\ SearchesFreed(m[2])

\* A look-up reads freed memory only if an image that was freed is on the list,
\* and does so if the image it is for is that one.
LEMMA Searched ==
    ASSUME list \in Seq(Id), NEW id
    PROVE  /\ SearchesFreed(id) => \E y \in Id : Known(y) /\ y \in freed
           /\ Distinct(list) /\ Known(id) /\ id \in freed => SearchesFreed(id)
<1>1. DOMAIN list = 1..Len(list) /\ Len(list) \in Nat
  BY LenProperties
<1>2. \A i \in DOMAIN list : list[i] \in Id /\ Known(list[i])
  BY <1>1, ElementOfSeq DEF Known, ToSet
<1>3. ASSUME SearchesFreed(id) PROVE \E y \in Id : Known(y) /\ y \in freed
  BY <1>2, <1>3 DEF SearchesFreed
<1>4. ASSUME Distinct(list), Known(id), id \in freed PROVE SearchesFreed(id)
  <2>1. PICK i \in DOMAIN list : list[i] = id
    BY <1>4 DEF Known, ToSet
  <2>2. \A j \in 1..(i - 1) : j \in DOMAIN list /\ j # i
    BY <1>1, <2>1
  <2>3. \A j \in 1..(i - 1) : list[j] # id
    BY <1>4, <2>1, <2>2 DEF Distinct
  <2> QED
    BY <1>4, <2>1, <2>3 DEF SearchesFreed
<1> QED
  BY <1>3, <1>4

\* What a message does.
LEMMA ReceiveIs ==
    ASSUME TypeOK, Receive
    PROVE  /\ Idle /\ channel # <<>> /\ Head(channel) \in Message
           /\ channel' = Tail(channel)
           /\ \/ /\ Dangling(Head(channel))
                 /\ fault' = "image_read_after_free"
                 /\ UNCHANGED <<image, widget, todo, unmade>>
              \/ /\ ~Dangling(Head(channel))
                 /\ UNCHANGED fault
                 /\ \/ /\ Head(channel)[1] = "start"
                       /\ StartReceived(Head(channel)[2])
                    \/ /\ Head(channel)[1] = "widget"
                       /\ WidgetReceived(Head(channel)[2])
                    \/ /\ Head(channel)[1] = "chunk"
                       /\ ChunkReceived(Head(channel)[2], Head(channel)[3])
                    \/ /\ Head(channel)[1] = "complete"
                       /\ CompleteReceived(Head(channel)[2])
           /\ UNCHANGED <<phone, list, freed, window, pressures, lost, nested>>
<1>1. Idle /\ channel # <<>> /\ channel' = Tail(channel)
  BY DEF Receive
<1>2. channel \in Seq(Message)
  BY DEF TypeOK
<1>3. Head(channel) \in Message
  BY <1>1, <1>2, Taken
<1>4. UNCHANGED <<phone, list, freed, window, pressures, lost, nested>>
  BY DEF Receive
<1>5. \/ /\ Dangling(Head(channel))
         /\ fault' = "image_read_after_free"
         /\ UNCHANGED <<image, widget, todo, unmade>>
      \/ /\ ~Dangling(Head(channel))
         /\ UNCHANGED fault
         /\ \/ /\ Head(channel)[1] = "start"
               /\ StartReceived(Head(channel)[2])
            \/ /\ Head(channel)[1] = "widget"
               /\ WidgetReceived(Head(channel)[2])
            \/ /\ Head(channel)[1] = "chunk"
               /\ ChunkReceived(Head(channel)[2], Head(channel)[3])
            \/ /\ Head(channel)[1] = "complete"
               /\ CompleteReceived(Head(channel)[2])
  BY Zenon DEF Receive, Dangling
<1> QED
  BY <1>1, <1>3, <1>4, <1>5

\* The ways a step changes what is pending.
TodoForms ==
    \/ todo' = todo
    \/ todo # <<>> /\ todo' = Tail(todo)
    \/ todo' = <<>>
    \/ \E id \in Id :
          \/ todo' = <<<<"record", id>>, <<"data", id>>, <<"append", id>>>>
          \/ todo' = <<<<"layer", id>>, <<"register", id>>>>
          \/ todo' = Destroying(id) \o <<<<"drop", id>>>>
    \/ /\ todo # <<>> /\ todo[1][1] \in Allocating /\ list # <<>>
       /\ todo' = Destroying(Head(list)) \o <<<<"drop_first", 0>>>> \o todo
    \/ /\ todo # <<>> /\ todo[1][1] = "tell"
       /\ todo' = <<<<"skull", Subject>>>> \o Tail(todo)

LEMMA TodoStep ==
    ASSUME TypeOK, [Next]_vars
    PROVE  TodoForms
<1>1. CASE Map \/ (\E id \in timers : SendContents(id)) \/ Lose
           \/ ConversationPressure \/ OpenWindow \/ CloseWindow \/ UNCHANGED vars
  <2>1. todo' = todo
    BY <1>1 DEF Map, SendContents, Lose, ConversationPressure, OpenWindow,
                CloseWindow, vars
  <2> QED
    BY <2>1 DEF TodoForms
<1>2. CASE Pressure
  <2>1. todo # <<>> /\ fault = "none" /\ Head(todo)[1] \in Allocating
    BY <1>2 DEF Pressure, Running
  <2>2. todo \in Seq(Step)
    BY DEF TypeOK
  <2>3. todo[1][1] \in Allocating
    BY <2>1, <2>2, RunningStep
  <2> QED
    BY <1>2, <2>1, <2>3 DEF TodoForms, Pressure
<1>3. CASE AllocationFails \/ AllocationSucceeds \/ Free \/ ListStep \/ Register
  <2>1. todo' = todo \/ todo' = <<>> \/ (todo # <<>> /\ todo' = Tail(todo))
    BY <1>3 DEF AllocationFails, AllocationSucceeds, Free, ListStep, DropFirst,
                DropById, AddToList, Register, Beginning, Running
  <2> QED
    BY <2>1 DEF TodoForms
<1>4. CASE Tell
  <2>1. todo # <<>> /\ Head(todo)[1] = "tell"
    BY <1>4 DEF Tell, Running
  <2>2. todo \in Seq(Step)
    BY DEF TypeOK
  <2>3. todo[1][1] = "tell"
    BY <2>1, <2>2, RunningStep
  <2>4. \/ todo' = todo \/ todo' = Tail(todo)
        \/ todo' = <<<<"skull", Subject>>>> \o Tail(todo)
    BY <1>4 DEF Tell
  <2> QED
    BY <2>1, <2>3, <2>4 DEF TodoForms
<1>5. CASE Receive
  <2> DEFINE id == Head(channel)[2]
  <2>1. id \in Id
    BY <1>5, ReceiveIs, MessageType
  <2>2. \/ todo' = todo \/ todo' = <<>>
        \/ todo' = <<<<"record", id>>, <<"data", id>>, <<"append", id>>>>
        \/ todo' = <<<<"layer", id>>, <<"register", id>>>>
        \/ todo' = Destroying(id) \o <<<<"drop", id>>>>
    <3>1. \/ todo' = todo
          \/ StartReceived(id) \/ WidgetReceived(id) \/ CompleteReceived(id)
          \/ ChunkReceived(id, Head(channel)[3])
      BY <1>5, ReceiveIs
    <3> HIDE DEF id
    <3> QED
      BY <3>1 DEF StartReceived, WidgetReceived, CompleteReceived, ChunkReceived,
                  BitmapMade
  <2> HIDE DEF id
  <2> QED
    BY <2>1, <2>2 DEF TodoForms
<1> QED
  BY <1>1, <1>2, <1>3, <1>4, <1>5 DEF Next

\* Whatever is put first is followed by what it calls for.
LEMMA CallsStep ==
    ASSUME TypeOK, Calls, [Next]_vars
    PROVE  todo' \in Seq(Step) /\ Calls'
<1>1. todo \in Seq(Step) /\ list \in Seq(Id) /\ Chained(todo) /\ Ended(todo)
  BY DEF TypeOK, Calls
<1> SUFFICES todo' \in Seq(Step) /\ Chained(todo') /\ Ended(todo')
  BY DEF Calls
<1>2. CASE todo' = todo
  BY <1>1, <1>2
<1>3. CASE todo # <<>> /\ todo' = Tail(todo)
  BY <1>1, <1>3, CallsTail
<1>4. CASE todo' = <<>>
  BY <1>4 DEF Chained, Ended
<1>5. ASSUME NEW id \in Id,
             \/ todo' = <<<<"record", id>>, <<"data", id>>, <<"append", id>>>>
             \/ todo' = <<<<"layer", id>>, <<"register", id>>>>
             \/ todo' = Destroying(id) \o <<<<"drop", id>>>>
      PROVE  todo' \in Seq(Step) /\ Chained(todo') /\ Ended(todo')
  <2>1. CASE todo' = <<<<"record", id>>, <<"data", id>>, <<"append", id>>>>
    <3>1. PICK r, d, a : r = <<"record", id>> /\ d = <<"data", id>> /\ a = <<"append", id>>
      OBVIOUS
    <3>2. r \in Step /\ d \in Step /\ a \in Step
      BY <3>1, StepIn
    <3>3. Follows(r, d) /\ Follows(d, a) /\ a[1] = "append"
      BY <3>1 DEF Follows
    <3>4. todo' = <<r, d, a>>
      BY <2>1, <3>1
    <3>5. todo' \in Seq(Step) /\ DOMAIN todo' = 1..3
          /\ todo'[1] = r /\ todo'[2] = d /\ todo'[3] = a
      BY <3>2, <3>4
    <3>6. DOMAIN todo' = {1, 2, 3} /\ 3 + 1 \notin DOMAIN todo' /\ 1 + 1 = 2 /\ 2 + 1 = 3
      BY <3>5
    <3> QED
      BY <3>3, <3>5, <3>6 DEF Chained, Ended
  <2>2. CASE todo' = <<<<"layer", id>>, <<"register", id>>>>
    <3>1. PICK l, r : l = <<"layer", id>> /\ r = <<"register", id>>
      OBVIOUS
    <3>2. l \in Step /\ r \in Step
      BY <3>1, StepIn
    <3>3. Follows(l, r) /\ r[1] = "register"
      BY <3>1 DEF Follows
    <3>4. todo' = <<l, r>>
      BY <2>2, <3>1
    <3>5. todo' \in Seq(Step) /\ DOMAIN todo' = 1..2 /\ todo'[1] = l /\ todo'[2] = r
      BY <3>2, <3>4
    <3>6. DOMAIN todo' = {1, 2} /\ 2 + 1 \notin DOMAIN todo' /\ 1 + 1 = 2
      BY <3>5
    <3> QED
      BY <3>3, <3>5, <3>6 DEF Chained, Ended
  <2>3. CASE todo' = Destroying(id) \o <<<<"drop", id>>>>
    <3>1. PICK t, f, d : t = <<"tell", id>> /\ f = <<"free", id>> /\ d = <<"drop", id>>
      OBVIOUS
    <3>2. t \in Step /\ f \in Step /\ d \in Step
      BY <3>1, StepIn
    <3>3. Follows(t, f) /\ Follows(f, d) /\ d[1] = "drop"
      BY <3>1 DEF Follows
    <3>4. todo' = <<t, f>> \o <<d>>
      BY <2>3, <3>1 DEF Destroying
    <3>5. todo' \in Seq(Step) /\ DOMAIN todo' = 1..3
          /\ todo'[1] = t /\ todo'[2] = f /\ todo'[3] = d
      BY <3>2, <3>4, Frame
    <3>6. DOMAIN todo' = {1, 2, 3} /\ 3 + 1 \notin DOMAIN todo' /\ 1 + 1 = 2 /\ 2 + 1 = 3
      BY <3>5
    <3> QED
      BY <3>3, <3>5, <3>6 DEF Chained, Ended
  <2> QED
    BY <1>5, <2>1, <2>2, <2>3
<1>6. CASE /\ todo # <<>> /\ todo[1][1] \in Allocating /\ list # <<>>
           /\ todo' = Destroying(Head(list)) \o <<<<"drop_first", 0>>>> \o todo
  <2>1. PICK h : h = Head(list)
    OBVIOUS
  <2>2. h \in Id
    BY <1>1, <1>6, <2>1, TakenSet
  <2>3. PICK t, f, d : t = <<"tell", h>> /\ f = <<"free", h>> /\ d = <<"drop_first", 0>>
    OBVIOUS
  <2>4. t \in Step /\ f \in Step /\ d \in Step
    BY <2>2, <2>3, StepIn
  <2>5. PICK p : p = <<t, f>> \o <<d>>
    OBVIOUS
  <2>6. p \in Seq(Step) /\ Len(p) = 3 /\ DOMAIN p = 1..3 /\ p[1] = t /\ p[2] = f /\ p[3] = d
    BY <2>4, <2>5, Frame
  <2>7. todo' = p \o todo
    BY <1>6, <2>1, <2>3, <2>5 DEF Destroying
  <2>8. Follows(t, f) /\ Follows(f, d) /\ Follows(d, todo[1])
    BY <1>6, <2>3 DEF Follows
  <2>9. DOMAIN p = {1, 2, 3} /\ 3 + 1 \notin DOMAIN p /\ 1 + 1 = 2 /\ 2 + 1 = 3 /\ p # <<>>
    BY <2>6
  <2>10. Chained(p)
    BY <2>6, <2>8, <2>9 DEF Chained
  <2>11. Follows(p[Len(p)], todo[1])
    BY <2>6, <2>8
  <2> QED
    BY <1>1, <1>6, <2>6, <2>7, <2>9, <2>10, <2>11, CallsPush
<1>7. CASE /\ todo # <<>> /\ todo[1][1] = "tell"
           /\ todo' = <<<<"skull", Subject>>>> \o Tail(todo)
  <2>1. PICK t : t = Tail(todo)
    OBVIOUS
  <2>2. t \in Seq(Step) /\ Chained(t) /\ Ended(t)
    BY <1>1, <1>7, <2>1, CallsTail
  <2>3. /\ 1 \in DOMAIN todo /\ Subject \in Id
        /\ todo[1] = <<"tell", Subject>>
    BY <1>1, <1>7, RunningStep
  <2>4. 1 + 1 \in DOMAIN todo
    BY <1>1, <1>7, <2>3 DEF Ended
  <2>5. Follows(todo[1], todo[2])
    <3>1. Follows(todo[1], todo[1 + 1])
      BY <1>1, <2>3, <2>4 DEF Chained
    <3>2. 1 + 1 = 2
      OBVIOUS
    <3> QED
      BY <3>1, <3>2
  <2>6. todo[2] = <<"free", Subject>>
    BY <2>3, <2>5 DEF Follows
  <2>7. 1 \in DOMAIN t /\ t[1] = todo[2]
    <3>1. \A i \in DOMAIN todo : i # 1 => i - 1 \in DOMAIN t /\ t[i - 1] = todo[i]
      BY <1>1, <1>7, <2>1, Taken
    <3> QED
      BY <2>4, <3>1
  <2>8. PICK k : k = <<"skull", Subject>>
    OBVIOUS
  <2>9. k \in Step /\ Follows(k, t[1])
    BY <2>3, <2>6, <2>7, <2>8, StepIn DEF Follows
  <2>10. PICK p : p = <<k>>
    OBVIOUS
  <2>11. p \in Seq(Step) /\ Len(p) = 1 /\ DOMAIN p = 1..1 /\ p[1] = k /\ p # <<>>
    BY <2>9, <2>10
  <2>12. 1 + 1 \notin DOMAIN p
    BY <2>11
  <2>13. Chained(p)
    BY <2>11, <2>12 DEF Chained
  <2>14. t # <<>>
    BY <2>7
  <2>15. todo' = p \o t
    BY <1>7, <2>1, <2>8, <2>10
  <2>16. Follows(p[Len(p)], t[1])
    BY <2>9, <2>11
  <2> QED
    BY <2>2, <2>11, <2>13, <2>14, <2>15, <2>16, CallsPush
<1> QED
  BY <1>2, <1>3, <1>4, <1>5, <1>6, <1>7, TodoStep DEF TodoForms

LEMMA InitType == Init => TypeOK /\ Calls
<1> SUFFICES ASSUME Init PROVE TypeOK /\ Calls
  OBVIOUS
<1>1. /\ sent \in 0..MaxImages /\ pressures \in 0..MaxPressures
      /\ timers \subseteq Id /\ freed \subseteq Id /\ unmade \subseteq Id
      /\ lost \subseteq Message
  BY ImageAssumption DEF Init
<1>2. channel \in Seq(Message) /\ list \in Seq(Id) /\ todo \in Seq(Step)
  BY EmptySeq DEF Init
<1>3. /\ image \in [Id -> [got : SUBSET (1..Chunks), data : BOOLEAN,
                           bitmap : BOOLEAN, callback : BOOLEAN]]
      /\ widget \in [Id -> [alive : BOOLEAN, loading : BOOLEAN,
                            bitmap : BOOLEAN, skull : BOOLEAN]]
  BY DEF Init, NewImage, NoWidget
<1>4. window \in BOOLEAN /\ nested \in BOOLEAN /\ fault = "none"
  BY DEF Init
<1>5. TypeOK
  BY <1>1, <1>2, <1>3, <1>4 DEF TypeOK
<1>6. Calls
  BY DEF Init, Calls, Chained, Ended
<1> QED
  BY <1>5, <1>6

\* The messages of an image.
LEMMA ContentsAre ==
    ASSUME NEW id \in Id
    PROVE  /\ Opening(id) \in Seq(Message) /\ Contents(id) \in Seq(Message)
           /\ ToSet(Opening(id)) = {<<"start", id, 0>>, <<"widget", id, 0>>}
           /\ ToSet(Contents(id)) = {<<"chunk", id, n>> : n \in 1..Chunks}
                                      \union {<<"complete", id, 0>>}
           /\ DOMAIN Opening(id) = {1, 2}
           /\ Opening(id)[1] = <<"start", id, 0>> /\ Opening(id)[2] = <<"widget", id, 0>>
           /\ DOMAIN Contents(id) = 1..Chunks + 1
           /\ \A n \in 1..Chunks : Contents(id)[n] = <<"chunk", id, n>>
           /\ Contents(id)[Chunks + 1] = <<"complete", id, 0>>
<1>1. PICK s, w, c : /\ s = <<"start", id, 0>> /\ w = <<"widget", id, 0>>
                     /\ c = <<"complete", id, 0>>
  OBVIOUS
<1>2. s \in Message /\ w \in Message /\ c \in Message
  BY <1>1, MessageIn
<1>3. /\ Opening(id) \in Seq(Message) /\ DOMAIN Opening(id) = {1, 2}
      /\ Opening(id)[1] = s /\ Opening(id)[2] = w
  <2>1. Opening(id) = <<s, w>>
    BY <1>1 DEF Opening
  <2>2. DOMAIN Opening(id) = 1..2
    BY <2>1
  <2> QED
    BY <1>2, <2>1, <2>2
<1>4. ToSet(Opening(id)) = {s, w}
  BY <1>3 DEF ToSet
<1>5. PICK u : u = [n \in 1..Chunks |-> <<"chunk", id, n>>]
  OBVIOUS
<1>6. PICK v : v = <<c>>
  OBVIOUS
<1>7. Chunks \in Nat
  BY ImageAssumption
<1>8. /\ u \in Seq(Message) /\ DOMAIN u = 1..Chunks
      /\ \A n \in 1..Chunks : u[n] = <<"chunk", id, n>>
  <2>1. u \in [1..Chunks -> Message]
    BY <1>5, MessageIn
  <2> QED
    BY <1>5, <1>7, <2>1
<1>9. Len(u) = Chunks
  BY <1>7, <1>8, LenProperties
<1>10. v \in Seq(Message) /\ Len(v) = 1 /\ DOMAIN v = {1} /\ v[1] = c
  BY <1>2, <1>6
<1>11. Contents(id) = u \o v
  BY <1>1, <1>5, <1>6 DEF Contents
<1>12. /\ Contents(id) \in Seq(Message) /\ DOMAIN Contents(id) = 1..Chunks + 1
       /\ \A i \in DOMAIN u : Contents(id)[i] = u[i]
       /\ \A i \in DOMAIN v : Contents(id)[i + Len(u)] = v[i]
       /\ ToSet(Contents(id)) = ToSet(u) \union ToSet(v)
  <2>1. u \o v \in Seq(Message) /\ DOMAIN (u \o v) = 1..Len(u) + Len(v)
    BY <1>8, <1>10, Joined
  <2>2. Len(u) + Len(v) = Chunks + 1
    BY <1>7, <1>9, <1>10
  <2>3. \A i \in DOMAIN u : (u \o v)[i] = u[i]
    BY <1>8, <1>10, Joined
  <2>4. \A i \in DOMAIN v : (u \o v)[i + Len(u)] = v[i]
    BY <1>8, <1>10, Joined
  <2>5. ToSet(u \o v) = ToSet(u) \union ToSet(v)
    BY <1>8, <1>10, Joined
  <2> QED
    BY <1>11, <2>1, <2>2, <2>3, <2>4, <2>5
<1>13. ToSet(u) = {<<"chunk", id, n>> : n \in 1..Chunks} /\ ToSet(v) = {c}
  <2>1. ToSet(u) = {u[n] : n \in 1..Chunks} /\ ToSet(v) = {v[1]}
    BY <1>8, <1>10 DEF ToSet
  <2>2. {u[n] : n \in 1..Chunks} = {<<"chunk", id, n>> : n \in 1..Chunks}
    BY <1>8
  <2> QED
    BY <1>10, <2>1, <2>2
<1>14. Contents(id)[Chunks + 1] = c
  <2>1. Contents(id)[1 + Chunks] = c
    BY <1>9, <1>10, <1>12
  <2> QED
    BY <1>7, <2>1
<1> QED
  BY <1>1, <1>3, <1>4, <1>8, <1>12, <1>13, <1>14

LEMMA TypeStep ==
    ASSUME TypeOK, Calls, [Next]_vars
    PROVE  TypeOK' /\ Calls'
<1> DEFINE Images == [got : SUBSET (1..Chunks), data : BOOLEAN,
                      bitmap : BOOLEAN, callback : BOOLEAN]
           Widgets == [alive : BOOLEAN, loading : BOOLEAN,
                       bitmap : BOOLEAN, skull : BOOLEAN]
           Phone == sent \in 0..MaxImages /\ timers \subseteq Id /\ channel \in Seq(Message)
           Memory == list \in Seq(Id) /\ image \in [Id -> Images] /\ freed \subseteq Id
           Widget == window \in BOOLEAN /\ widget \in [Id -> Widgets]
           Faults == fault \in {"none", "image_read_after_free", "image_freed_twice",
                                "widget_written_after_free", "no_memory_for_a_layer"}
           Histories == /\ pressures \in 0..MaxPressures /\ lost \subseteq Message
                        /\ unmade \subseteq Id /\ nested \in BOOLEAN
<1>1. Phone /\ Memory /\ Widget /\ Faults /\ Histories /\ todo \in Seq(Step)
  BY DEF TypeOK
<1>2. todo' \in Seq(Step) /\ Calls'
  BY CallsStep
<1> SUFFICES Phone' /\ Memory' /\ Widget' /\ Faults' /\ Histories'
  BY <1>2 DEF TypeOK
<1>3. CASE Map
  <2>1. sent + 1 \in Id /\ sent + 1 \in 0..MaxImages
    BY <1>1, <1>3, ImageAssumption DEF Map, Id
  <2>2. Opening(sent + 1) \in Seq(Message)
    BY <2>1, ContentsAre
  <2>3. channel \o Opening(sent + 1) \in Seq(Message)
    BY <1>1, <2>2, ConcatProperties
  <2>4. Phone'
    BY <1>1, <1>3, <2>1, <2>3 DEF Map
  <2> QED
    BY <1>1, <1>3, <2>4 DEF Map, memory, history
<1>4. CASE \E id \in timers : SendContents(id)
  <2>1. PICK id \in timers : SendContents(id)
    BY <1>4
  <2>2. Contents(id) \in Seq(Message)
    BY <1>1, <2>1, ContentsAre
  <2>3. channel \o Contents(id) \in Seq(Message)
    BY <1>1, <2>2, ConcatProperties
  <2>4. Phone'
    BY <1>1, <2>1, <2>3 DEF SendContents
  <2> QED
    BY <1>1, <2>1, <2>4 DEF SendContents, memory, history
<1>5. CASE Lose
  <2>1. PICK i \in DOMAIN channel : /\ channel' = RemoveAt(channel, i)
                                    /\ lost' = lost \union {channel[i]}
    BY <1>5 DEF Lose
  <2>2. channel' \in Seq(Message) /\ channel[i] \in Message
    BY <1>1, <2>1, OneLost
  <2> QED
    BY <1>1, <1>5, <2>1, <2>2 DEF Lose, phone, memory
<1>6. CASE Pressure
  <2>1. pressures' \in 0..MaxPressures
    BY <1>1, <1>6, ImageAssumption DEF Pressure
  <2>2. nested' \in BOOLEAN
    BY <1>6 DEF Pressure
  <2> QED
    BY <1>1, <1>6, <2>1, <2>2 DEF Pressure, phone, memory
<1>7. ASSUME NEW ids, WidgetsGo(ids), UNCHANGED phone, UNCHANGED channel
      PROVE  Phone' /\ Memory' /\ widget' \in [Id -> Widgets]
  <2>1. list' \in Seq(Id)
    BY <1>1, <1>7, WithoutStep DEF WidgetsGo
  <2>2. widget' \in [Id -> Widgets]
    <3>1. NoWidget \in Widgets
      BY DEF NoWidget
    <3> QED
      BY <1>1, <1>7, <3>1 DEF WidgetsGo
  <2>3. image' \in [Id -> Images]
    <3>1. \A id \in Id : [image[id] EXCEPT !.callback = FALSE] \in Images
      BY <1>1
    <3> QED
      BY <1>1, <1>7, <3>1 DEF WidgetsGo
  <2>4. freed' \subseteq Id
    <3>1. \A id : Known(id) => id \in Id
      BY <1>1, ElementOfSeq DEF Known, ToSet
    <3> QED
      BY <1>1, <1>7, <3>1 DEF WidgetsGo
  <2> QED
    BY <1>1, <1>7, <2>1, <2>2, <2>3, <2>4 DEF phone
<1>8. CASE ConversationPressure
  <2>1. pressures' \in 0..MaxPressures
    BY <1>1, <1>8, ImageAssumption DEF ConversationPressure
  <2>2. UNCHANGED phone /\ UNCHANGED channel /\ UNCHANGED <<window, fault, lost, unmade>>
    BY <1>8 DEF ConversationPressure
  <2>3. \/ UNCHANGED <<memory, widget, nested>>
        \/ \E id \in Shown : WidgetsGo({id}) /\ nested' \in BOOLEAN
    BY <1>8 DEF ConversationPressure
  <2>4. CASE UNCHANGED <<memory, widget, nested>>
    BY <1>1, <2>1, <2>2, <2>4 DEF phone, memory
  <2>5. CASE \E id \in Shown : WidgetsGo({id}) /\ nested' \in BOOLEAN
    <3>1. PICK id \in Shown : WidgetsGo({id}) /\ nested' \in BOOLEAN
      BY <2>5
    <3>2. Phone' /\ Memory' /\ widget' \in [Id -> Widgets]
      BY <1>7, <2>2, <3>1
    <3> QED
      BY <1>1, <2>1, <2>2, <3>1, <3>2
  <2> QED
    BY <2>3, <2>4, <2>5
<1>9. ASSUME todo # <<>>
      PROVE  todo[1][1] # "drop_first" => Subject \in Id
  BY <1>1, <1>9, RunningStep
<1>10. \A what : Running(what) /\ what # "drop_first" => Subject \in Id
  <2> SUFFICES ASSUME NEW what, Running(what), what # "drop_first"
               PROVE  Subject \in Id
    OBVIOUS
  <2>1. todo # <<>> /\ fault = "none"
    BY DEF Running
  <2>2. todo[1][1] = what
    BY <1>1, <2>1, RunningStep
  <2> QED
    BY <1>9, <2>1, <2>2
<1>11. CASE AllocationFails
  <2>1. UNCHANGED <<phone, channel, memory, window, widget, pressures, lost, nested>>
    BY <1>11 DEF AllocationFails
  <2>2. /\ unmade' = unmade \/ (unmade' = unmade \union {Subject} /\ Subject \in Id)
        /\ \/ fault' = fault
           \/ fault' \in {"no_memory_for_a_layer", "widget_written_after_free"}
    BY <1>10, <1>11 DEF AllocationFails, Beginning
  <2> QED
    BY <1>1, <2>1, <2>2 DEF phone, memory
<1>12. CASE AllocationSucceeds
  <2>1. UNCHANGED <<phone, channel, list, freed, window, pressures, history>>
    BY <1>12 DEF AllocationSucceeds
  <2>2. /\ image' = image \/ image' = [image EXCEPT ![Subject].data = TRUE]
        /\ widget' = widget \/ widget' = [widget EXCEPT ![Subject].skull = TRUE]
        /\ fault' = fault \/ fault' = "widget_written_after_free"
    BY <1>12 DEF AllocationSucceeds
  <2>3. image' \in [Id -> Images]
    <3>1. Subject \in Id => [image[Subject] EXCEPT !.data = TRUE] \in Images
      BY <1>1
    <3>2. image' = image \/ image' = [image EXCEPT ![Subject] =
                                        [image[Subject] EXCEPT !.data = TRUE]]
      BY <2>2
    <3> HIDE DEF Images
    <3> QED
      BY <1>1, <3>1, <3>2
  <2>4. widget' \in [Id -> Widgets]
    <3>1. Subject \in Id => [widget[Subject] EXCEPT !.skull = TRUE] \in Widgets
      BY <1>1
    <3>2. widget' = widget \/ widget' = [widget EXCEPT ![Subject] =
                                           [widget[Subject] EXCEPT !.skull = TRUE]]
      BY <2>2
    <3> HIDE DEF Widgets
    <3> QED
      BY <1>1, <3>1, <3>2
  <2> QED
    BY <1>1, <2>1, <2>2, <2>3, <2>4 DEF phone, history
<1>13. CASE Tell
  <2>1. UNCHANGED <<phone, channel, memory, window, pressures, history>>
    BY <1>13 DEF Tell
  <2>2. /\ widget' = widget \/ widget' = [widget EXCEPT ![Subject] = Bereaved(@)]
        /\ fault' = fault \/ fault' = "image_read_after_free"
    BY <1>13 DEF Tell
  <2>3. widget' \in [Id -> Widgets]
    <3>1. Subject \in Id => Bereaved(widget[Subject]) \in Widgets
      BY <1>1 DEF Bereaved
    <3> HIDE DEF Widgets
    <3> QED
      BY <1>1, <2>2, <3>1
  <2> QED
    BY <1>1, <2>1, <2>2, <2>3 DEF phone, memory, history
<1>14. CASE Free
  <2>1. UNCHANGED <<phone, channel, list, image, window, widget, pressures, history>>
    BY <1>14 DEF Free
  <2>2. /\ freed' = freed \/ (freed' = freed \union {Subject} /\ Subject \in Id)
        /\ fault' = fault \/ fault' = "image_freed_twice"
    BY <1>10, <1>14 DEF Free, Beginning
  <2> QED
    BY <1>1, <2>1, <2>2 DEF phone, history
<1>15. CASE ListStep
  <2>1. UNCHANGED <<phone, channel, image, freed, window, widget, fault, pressures,
                    history>>
    BY <1>15 DEF ListStep
  <2>2. \/ list' = list \/ (list # <<>> /\ list' = Tail(list))
        \/ Without({Subject})
        \/ (list' = Append(list, Subject) /\ Subject \in Id)
    BY <1>10, <1>15 DEF ListStep, DropFirst, DropById, AddToList, Beginning
  <2>3. list' \in Seq(Id)
    <3>1. CASE list' = list
      BY <1>1, <3>1
    <3>2. CASE list # <<>> /\ list' = Tail(list)
      <4>1. Tail(list) \in Seq(Id)
        BY <1>1, <3>2, Taken
      <4> QED
        BY <3>2, <4>1
    <3>3. CASE Without({Subject})
      BY <1>1, <3>3, WithoutStep
    <3>4. CASE list' = Append(list, Subject) /\ Subject \in Id
      <4>1. Append(list, Subject) \in Seq(Id)
        BY <1>1, <3>4, AddedSet
      <4> QED
        BY <3>4, <4>1
    <3> QED
      BY <2>2, <3>1, <3>2, <3>3, <3>4
  <2> QED
    BY <1>1, <2>1, <2>3 DEF phone, history
<1>16. CASE Register
  <2>1. /\ UNCHANGED <<phone, channel, list, freed, window, pressures, history>>
        /\ fault' = fault \/ fault' = "image_read_after_free"
    BY <1>16 DEF Register
  <2>2. [NoWidget EXCEPT !.alive = TRUE, !.loading = TRUE] \in Widgets
    BY DEF NoWidget
  <2>3. widget' \in [Id -> Widgets]
    BY <1>1, <1>16, <2>2 DEF Register
  <2>4. image' \in [Id -> Images]
    <3>1. PICK k \in BOOLEAN : k = Known(Subject)
      <4>1. Known(Subject) \in BOOLEAN
        BY DEF Known
      <4> QED
        BY <4>1
    <3>2. image' = image \/ image' = [image EXCEPT ![Subject].callback = k]
      BY <1>16, <3>1 DEF Register
    <3>3. \A id \in Id : [image[id] EXCEPT !.callback = k] \in Images
      BY <1>1
    <3> QED
      BY <1>1, <3>2, <3>3
  <2> QED
    BY <1>1, <2>1, <2>3, <2>4 DEF phone, history
<1>17. CASE Receive
  <2> DEFINE m == Head(channel)
  <2>1. /\ UNCHANGED <<phone, list, freed, window, pressures, lost, nested>>
        /\ channel # <<>> /\ channel' = Tail(channel) /\ m \in Message
        /\ fault' = fault \/ fault' = "image_read_after_free"
    BY <1>17, ReceiveIs
  <2>2. channel' \in Seq(Message)
    BY <1>1, <2>1, Taken
  <2>3. m[2] \in Id /\ (m[1] = "chunk" => m[3] \in 1..Chunks)
    BY <2>1, MessageType
  <2>4. \/ UNCHANGED <<image, widget, unmade>>
        \/ StartReceived(m[2]) \/ WidgetReceived(m[2])
        \/ m[1] = "chunk" /\ ChunkReceived(m[2], m[3])
        \/ CompleteReceived(m[2])
    BY <1>17, ReceiveIs
  <2> HIDE DEF m
  <2>5. /\ image' \in [Id -> Images] /\ widget' \in [Id -> Widgets]
        /\ unmade' \subseteq Id
    <3>1. CASE UNCHANGED <<image, widget, unmade>>
      BY <1>1, <3>1
    <3>2. CASE StartReceived(m[2]) \/ WidgetReceived(m[2])
      BY <1>1, <3>2 DEF StartReceived, WidgetReceived
    <3>3. CASE m[1] = "chunk" /\ ChunkReceived(m[2], m[3])
      <4>1. UNCHANGED <<widget, unmade>>
        BY <3>3 DEF ChunkReceived
      <4>2. image' = image \/ image' = [image EXCEPT ![m[2]].got = @ \union {m[3]}]
        BY <3>3 DEF ChunkReceived
      <4>3. image[m[2]].got \union {m[3]} \in SUBSET (1..Chunks)
        BY <1>1, <2>3, <3>3
      <4>4. image' \in [Id -> Images]
        <5> DEFINE i == [image[m[2]] EXCEPT !.got = @ \union {m[3]}]
        <5>1. i \in Images
          <6>1. PICK r \in Images : r = image[m[2]]
            BY <1>1, <2>3
          <6>2. PICK g \in SUBSET (1..Chunks) : g = r.got \union {m[3]}
            BY <4>3, <6>1
          <6>3. [r EXCEPT !.got = g] \in Images
            OBVIOUS
          <6>4. i = [r EXCEPT !.got = g]
            BY <6>1, <6>2
          <6> QED
            BY <6>3, <6>4
        <5>2. image' = image \/ image' = [image EXCEPT ![m[2]] = i]
          BY <4>2
        <5> HIDE DEF i, Images
        <5> QED
          BY <1>1, <2>3, <5>1, <5>2
      <4> QED
        BY <1>1, <4>1, <4>4
    <3>4. CASE CompleteReceived(m[2])
      <4>1. /\ image' = image \/ image' = [image EXCEPT ![m[2]].bitmap = TRUE]
            /\ \/ widget' = widget
               \/ widget' = [widget EXCEPT ![m[2]].loading = FALSE, ![m[2]].bitmap = TRUE]
            /\ unmade' = unmade \/ unmade' = unmade \union {m[2]}
        BY <3>4 DEF CompleteReceived, BitmapMade
      <4>2. image' \in [Id -> Images]
        <5> DEFINE i == [image[m[2]] EXCEPT !.bitmap = TRUE]
        <5>1. i \in Images
          <6>1. PICK r \in Images : r = image[m[2]]
            BY <1>1, <2>3
          <6>2. [r EXCEPT !.bitmap = TRUE] \in Images
            OBVIOUS
          <6> QED
            BY <6>1, <6>2
        <5>2. image' = image \/ image' = [image EXCEPT ![m[2]] = i]
          BY <4>1
        <5> HIDE DEF i, Images
        <5> QED
          BY <1>1, <2>3, <5>1, <5>2
      <4>3. widget' \in [Id -> Widgets]
        <5> DEFINE w == [widget[m[2]] EXCEPT !.loading = FALSE, !.bitmap = TRUE]
        <5>1. w \in Widgets
          <6>1. PICK r \in Widgets : r = widget[m[2]]
            BY <1>1, <2>3
          <6>2. [r EXCEPT !.loading = FALSE, !.bitmap = TRUE] \in Widgets
            OBVIOUS
          <6> QED
            BY <6>1, <6>2
        <5>2. widget' = widget \/ widget' = [widget EXCEPT ![m[2]] = w]
          BY <1>1, <2>3, <4>1
        <5> HIDE DEF w, Widgets
        <5> QED
          BY <1>1, <2>3, <5>1, <5>2
      <4> QED
        BY <1>1, <2>3, <4>1, <4>2, <4>3
    <3> QED
      BY <2>4, <3>1, <3>2, <3>3, <3>4
  <2> QED
    BY <1>1, <2>1, <2>2, <2>5 DEF phone
<1>18. CASE OpenWindow
  BY <1>1, <1>18 DEF OpenWindow, phone, memory, history
<1>19. CASE CloseWindow
  <2>1. /\ UNCHANGED phone /\ UNCHANGED channel
        /\ UNCHANGED <<todo, pressures, history>>
        /\ \/ /\ UNCHANGED <<memory, window, widget>>
              /\ fault' = "image_read_after_free"
           \/ WidgetsGo(Shown) /\ window' = FALSE /\ UNCHANGED fault
    BY <1>19 DEF CloseWindow
  <2>2. CASE WidgetsGo(Shown) /\ window' = FALSE /\ UNCHANGED fault
    <3>1. Phone' /\ Memory' /\ widget' \in [Id -> Widgets]
      BY <1>7, <2>1, <2>2
    <3> QED
      BY <1>1, <2>1, <2>2, <3>1 DEF history
  <2>3. CASE UNCHANGED <<memory, window, widget>> /\ fault' = "image_read_after_free"
    BY <1>1, <2>1, <2>3 DEF phone, memory, history
  <2> QED
    BY <2>1, <2>2, <2>3
<1>20. CASE UNCHANGED vars
  BY <1>1, <1>20 DEF vars, phone, memory, history
<1> QED
  BY <1>3, <1>4, <1>5, <1>6, <1>8, <1>11, <1>12, <1>13, <1>14, <1>15, <1>16,
     <1>17, <1>18, <1>19, <1>20 DEF Next

-----------------------------------------------------------------------------
(* The phone's messages.                                                   *)

LEMMA RankType ==
    ASSUME NEW m \in Message
    PROVE  /\ Rank(m) \in Nat /\ Rank(m) <= Chunks + 2
           /\ m[1] = "start" => Rank(m) = 0
           /\ m[1] = "widget" => Rank(m) = 1
           /\ m[1] = "chunk" => Rank(m) = m[3] + 1
           /\ m[1] = "complete" => Rank(m) = Chunks + 2
<1>1. /\ m[1] \in {"start", "widget", "chunk", "complete"}
      /\ m[1] = "chunk" => m[3] \in 1..Chunks
  BY MessageType
<1>2. Chunks \in Nat
  BY ImageAssumption
<1>3. CASE m[1] = "start"
  BY <1>2, <1>3 DEF Rank
<1>4. CASE m[1] = "widget"
  BY <1>2, <1>4 DEF Rank
<1>5. CASE m[1] = "chunk"
  BY <1>1, <1>2, <1>5 DEF Rank
<1>6. CASE m[1] = "complete"
  BY <1>2, <1>6 DEF Rank
<1> QED
  BY <1>1, <1>3, <1>4, <1>5, <1>6

LEMMA PartOrdered ==
    ASSUME NEW q, NEW r, PartOf(r, q), Ordered(q)
    PROVE  Ordered(r)
BY DEF PartOf, Ordered

\* Messages put behind keep the order, if those there of the same image are
\* all before them.
LEMMA JoinOrdered ==
    ASSUME NEW q \in Seq(Message), NEW x \in Seq(Message), Ordered(q), Ordered(x),
           \A a \in ToSet(q), b \in ToSet(x) : a[2] = b[2] => Rank(a) < Rank(b)
    PROVE  Ordered(q \o x)
<1> DEFINE n == Len(q)
           c == q \o x
<1>1. /\ n \in Nat /\ DOMAIN q = 1..n
      /\ \A i \in DOMAIN c :
            \/ i \in DOMAIN q /\ c[i] = q[i]
            \/ i \notin DOMAIN q /\ i - n \in DOMAIN x /\ i \in Nat /\ c[i] = x[i - n]
  <2>1. n \in Nat /\ DOMAIN q = 1..n
    BY Joined
  <2>2. \A i \in DOMAIN c :
            \/ i \in DOMAIN q /\ c[i] = q[i]
            \/ i \notin DOMAIN q /\ i - n \in DOMAIN x /\ i \in Nat /\ c[i] = x[i - n]
    BY Joined
  <2> QED
    BY <2>1, <2>2
<1>2. DOMAIN x = 1..Len(x) /\ Len(x) \in Nat
  BY LenProperties
<1> HIDE DEF n, c
<1>3. ASSUME NEW i \in DOMAIN c, NEW j \in DOMAIN c, i < j, c[i][2] = c[j][2]
      PROVE  Rank(c[i]) < Rank(c[j])
  <2>1. CASE i \in DOMAIN q /\ j \in DOMAIN q
    BY <1>1, <1>3, <2>1 DEF Ordered
  <2>2. CASE i \in DOMAIN q /\ j \notin DOMAIN q
    <3>1. c[i] \in ToSet(q)
      BY <1>1, <2>2 DEF ToSet
    <3>2. c[j] \in ToSet(x)
      BY <1>1, <2>2 DEF ToSet
    <3> QED
      BY <1>3, <3>1, <3>2
  <2>3. CASE i \notin DOMAIN q /\ j \in DOMAIN q
    <3>1. i \in Nat /\ i - n \in 1..Len(x) /\ j \in 1..n
      BY <1>1, <1>2, <2>3
    <3> QED
      BY <1>1, <1>2, <1>3, <3>1
  <2>4. CASE i \notin DOMAIN q /\ j \notin DOMAIN q
    <3>1. PICK k \in DOMAIN x : k = i - n /\ c[i] = x[k] /\ i \in Nat
      BY <1>1, <2>4
    <3>2. PICK l \in DOMAIN x : l = j - n /\ c[j] = x[l] /\ j \in Nat
      BY <1>1, <2>4
    <3>3. k < l
      BY <1>1, <1>3, <3>1, <3>2
    <3> QED
      BY <1>3, <3>1, <3>2, <3>3 DEF Ordered
  <2> QED
    BY <2>1, <2>2, <2>3, <2>4
<1>4. Ordered(c)
  BY <1>3 DEF Ordered
<1> QED
  BY <1>4 DEF c

LEMMA ContentsOrdered ==
    ASSUME NEW id \in Id
    PROVE  Ordered(Opening(id)) /\ Ordered(Contents(id))
<1>1. Ordered(Opening(id))
  <2>1. /\ DOMAIN Opening(id) = {1, 2}
        /\ Opening(id)[1] = <<"start", id, 0>> /\ Opening(id)[2] = <<"widget", id, 0>>
    BY ContentsAre
  <2>2. Rank(Opening(id)[1]) = 0 /\ Rank(Opening(id)[2]) = 1
    BY <2>1 DEF Rank
  <2>3. \A i, j \in {1, 2} : i < j => i = 1 /\ j = 2
    OBVIOUS
  <2> QED
    BY <2>1, <2>2, <2>3 DEF Ordered
<1>2. Ordered(Contents(id))
  <2> DEFINE c == Contents(id)
  <2>1. /\ DOMAIN c = 1..Chunks + 1
        /\ \A n \in 1..Chunks : c[n] = <<"chunk", id, n>>
        /\ c[Chunks + 1] = <<"complete", id, 0>>
    BY ContentsAre
  <2>2. Chunks \in Nat
    BY ImageAssumption
  <2> HIDE DEF c
  <2>3. \A n \in 1..Chunks : Rank(c[n]) = n + 1
    <3> SUFFICES ASSUME NEW n \in 1..Chunks PROVE Rank(c[n]) = n + 1
      OBVIOUS
    <3>1. c[n] = <<"chunk", id, n>>
      BY <2>1
    <3>2. <<"chunk", id, n>> \in Message
      BY MessageIn
    <3>3. Rank(<<"chunk", id, n>>) = n + 1
      BY <3>2, RankType
    <3> QED
      BY <3>1, <3>3
  <2>4. Rank(c[Chunks + 1]) = Chunks + 2
    <3>1. <<"complete", id, 0>> \in Message
      BY MessageIn
    <3>2. Rank(<<"complete", id, 0>>) = Chunks + 2
      BY <3>1, RankType
    <3> QED
      BY <2>1, <3>2
  <2>5. \A i \in DOMAIN c : Rank(c[i]) = i + 1
    <3> SUFFICES ASSUME NEW i \in DOMAIN c PROVE Rank(c[i]) = i + 1
      OBVIOUS
    <3>1. i \in 1..Chunks \/ i = Chunks + 1
      BY <2>1, <2>2
    <3>2. (Chunks + 1) + 1 = Chunks + 2
      BY <2>2
    <3> QED
      BY <2>3, <2>4, <3>1, <3>2
  <2>6. Ordered(c)
    BY <2>1, <2>5 DEF Ordered
  <2> QED
    BY <2>6 DEF c
<1> QED
  BY <1>1, <1>2

\* What comes behind the first message of an image.
LEMMA HeadFirst ==
    ASSUME channel \in Seq(Message), channel # <<>>, Ordered(channel)
    PROVE  /\ Head(channel) \in Message /\ Head(channel) \in ToSet(channel)
           /\ ToSet(Tail(channel)) \subseteq ToSet(channel)
           /\ ToSet(channel) \subseteq ToSet(Tail(channel)) \union {Head(channel)}
           /\ \A m \in ToSet(Tail(channel)) :
                 m[2] = Head(channel)[2] => Rank(Head(channel)) < Rank(m)
<1>1. /\ Head(channel) \in Message /\ Head(channel) \in ToSet(channel)
      /\ ToSet(Tail(channel)) \subseteq ToSet(channel)
      /\ ToSet(channel) \subseteq ToSet(Tail(channel)) \union {Head(channel)}
  BY TakenSet
<1>2. /\ Head(channel) = channel[1] /\ 1 \in DOMAIN channel
      /\ \A i \in DOMAIN Tail(channel) :
            i + 1 \in DOMAIN channel /\ Tail(channel)[i] = channel[i + 1]
      /\ \A i \in DOMAIN Tail(channel) : i \in Nat /\ i >= 1
  BY Taken
<1>3. ASSUME NEW i \in DOMAIN Tail(channel), Tail(channel)[i][2] = Head(channel)[2]
      PROVE  Rank(Head(channel)) < Rank(Tail(channel)[i])
  <2>1. 1 < i + 1 /\ i + 1 \in DOMAIN channel
    BY <1>2
  <2> QED
    BY <1>2, <1>3, <2>1 DEF Ordered
<1>4. \A m \in ToSet(Tail(channel)) :
         m[2] = Head(channel)[2] => Rank(Head(channel)) < Rank(m)
  BY <1>3 DEF ToSet
<1> QED
  BY <1>1, <1>4

\* The actions that leave the phone and its messages alone.
Elsewhere ==
    \/ Pressure \/ ConversationPressure \/ AllocationFails \/ AllocationSucceeds
    \/ Tell \/ Free \/ ListStep \/ Register \/ OpenWindow \/ CloseWindow
    \/ UNCHANGED vars

LEMMA ElsewhereStep ==
    ASSUME Elsewhere
    PROVE  UNCHANGED <<phone, channel, lost>>
BY DEF Elsewhere, Pressure, ConversationPressure, AllocationFails, AllocationSucceeds,
       Tell, Free, ListStep, Register, OpenWindow, CloseWindow, vars, history, phone

LEMMA ChannelStep ==
    ASSUME TypeOK, ChannelOK, [Next]_vars
    PROVE  ChannelOK'
<1>1. /\ sent \in 0..MaxImages /\ timers \subseteq Id /\ channel \in Seq(Message)
  BY DEF TypeOK
<1>2. \A id \in Id : id \in Nat
  BY DEF Id
<1>3. sent \in Nat
  BY <1>1
<1>4. \A m \in ToSet(channel) : m \in Message
  BY <1>1, ElementOfSeq DEF ToSet
<1>5. CASE Map
  <2>1. PICK id : id = sent + 1
    OBVIOUS
  <2>2. id \in Id
    BY <1>1, <1>5, <2>1, ImageAssumption DEF Map, Id
  <2>3. /\ Opening(id) \in Seq(Message) /\ Ordered(Opening(id))
        /\ ToSet(Opening(id)) = {<<"start", id, 0>>, <<"widget", id, 0>>}
    BY <2>2, ContentsAre, ContentsOrdered
  <2>4. /\ sent' = id /\ timers' = timers \union {id}
        /\ channel' = channel \o Opening(id)
    BY <1>5, <2>1 DEF Map
  <2>5. \A m \in ToSet(channel) : m[2] <= sent /\ m[2] # id /\ m[2] <= id
    <3> SUFFICES ASSUME NEW m \in ToSet(channel)
                 PROVE  m[2] <= sent /\ m[2] # id /\ m[2] <= id
      OBVIOUS
    <3>1. m[2] <= sent /\ m[2] \in Nat
      BY <1>2, <1>4, MessageType DEF ChannelOK
    <3> QED
      BY <1>3, <2>1, <3>1
  <2>6. \A m \in ToSet(Opening(id)) : m[2] = id /\ m[1] \in {"start", "widget"}
    BY <2>3
  <2>7. ToSet(channel') = ToSet(channel) \union ToSet(Opening(id))
    BY <1>1, <2>3, <2>4, Joined
  <2>8. Ordered(channel')
    <3>1. \A a \in ToSet(channel), b \in ToSet(Opening(id)) :
             a[2] = b[2] => Rank(a) < Rank(b)
      BY <2>5, <2>6
    <3>2. Ordered(channel \o Opening(id))
      BY <1>1, <2>3, <3>1, JoinOrdered DEF ChannelOK
    <3> QED
      BY <2>4, <3>2
  <2>9. \A i \in timers' : i <= sent'
    <3>1. \A i \in timers : i <= sent /\ i \in Nat
      BY <1>1, <1>2 DEF ChannelOK
    <3> QED
      BY <1>3, <2>1, <2>4, <3>1
  <2>10. id <= id
    BY <1>2, <2>2
  <2>11. \A m \in ToSet(channel') :
            m[2] <= sent' /\ (m[2] \in timers' => m[1] \in {"start", "widget"})
    BY <2>4, <2>5, <2>6, <2>7, <2>10 DEF ChannelOK
  <2> QED
    BY <2>8, <2>9, <2>11 DEF ChannelOK
<1>6. CASE \E id \in timers : SendContents(id)
  <2>1. PICK id \in timers : SendContents(id)
    BY <1>6
  <2>2. id \in Id /\ id <= sent
    BY <1>1 DEF ChannelOK
  <2>3. /\ Contents(id) \in Seq(Message) /\ Ordered(Contents(id))
        /\ ToSet(Contents(id)) = {<<"chunk", id, n>> : n \in 1..Chunks}
                                   \union {<<"complete", id, 0>>}
    BY <2>2, ContentsAre, ContentsOrdered
  <2>4. /\ sent' = sent /\ timers' = timers \ {id}
        /\ channel' = channel \o Contents(id)
    BY <2>1 DEF SendContents
  <2>5. \A m \in ToSet(Contents(id)) : m[2] = id /\ m[1] \in {"chunk", "complete"}
    BY <2>3
  <2>6. ToSet(channel') = ToSet(channel) \union ToSet(Contents(id))
    BY <1>1, <2>3, <2>4, Joined
  <2>7. ASSUME NEW a \in ToSet(channel), NEW b \in ToSet(Contents(id)), a[2] = b[2]
        PROVE  Rank(a) < Rank(b)
    <3>1. a[1] \in {"start", "widget"}
      BY <2>5, <2>7 DEF ChannelOK
    <3>2. Rank(a) = 0 \/ Rank(a) = 1
      BY <1>4, <3>1, RankType
    <3>3. b \in Message
      BY <2>3, ElementOfSeq DEF ToSet
    <3>4. b[1] = "chunk" => b[3] \in 1..Chunks /\ Rank(b) = b[3] + 1
      BY <3>3, MessageType, RankType
    <3>5. b[1] = "complete" => Rank(b) = Chunks + 2
      BY <3>3, RankType
    <3>6. Rank(b) > 1
      BY <2>5, <3>4, <3>5, ImageAssumption
    <3>7. Rank(b) \in Nat
      BY <3>3, RankType
    <3> QED
      BY <3>2, <3>6, <3>7
  <2>8. Ordered(channel \o Contents(id))
    BY <1>1, <2>3, <2>7, JoinOrdered DEF ChannelOK
  <2>9. \A m \in ToSet(channel') :
            m[2] <= sent' /\ (m[2] \in timers' => m[1] \in {"start", "widget"})
    BY <2>2, <2>4, <2>5, <2>6 DEF ChannelOK
  <2> QED
    BY <2>4, <2>8, <2>9 DEF ChannelOK
<1>7. CASE Lose \/ Receive
  <2>1. UNCHANGED phone
    BY <1>7 DEF Lose, Receive
  <2>2. PartOf(channel', channel)
    <3>1. CASE Lose
      <4>1. PICK i \in DOMAIN channel : channel' = RemoveAt(channel, i)
        BY <3>1 DEF Lose
      <4> QED
        BY <1>1, <4>1, OneLost
    <3>2. CASE Receive
      <4>1. channel # <<>> /\ channel' = Tail(channel)
        BY <3>2 DEF Receive
      <4> QED
        BY <1>1, <4>1, TailIsPart
    <3> QED
      BY <1>7, <3>1, <3>2
  <2>3. ToSet(channel') \subseteq ToSet(channel) /\ Ordered(channel')
    BY <2>2, PartSet, PartOrdered DEF ChannelOK
  <2> QED
    BY <2>1, <2>3 DEF ChannelOK, phone
<1>8. CASE Elsewhere
  BY <1>8, ElsewhereStep DEF ChannelOK, phone
<1> QED
  BY <1>5, <1>6, <1>7, <1>8 DEF Next, Elsewhere

-----------------------------------------------------------------------------
(* What holds while memory has not run out in the middle of telling a      *)
(* widget.                                                                 *)

\* Nothing of the image has come yet.
Fresh(id) == id > sent \/ Sent(id, "start")

FreshIs(id) ==
    Fresh(id) =>
        /\ image[id] = NewImage /\ widget[id] = NoWidget
        /\ ~Known(id) /\ id \notin freed /\ id \notin unmade
        /\ ~Does("append", id) /\ ~Does("register", id)

\* An image that is being made is not on the list yet, and has no widget.
MadeIs(id) ==
    /\ Does("append", id) =>
          /\ ~Known(id) /\ id \notin freed
          /\ ~Does("register", id)
          /\ widget[id] = NoWidget /\ ~image[id].callback
    /\ Does("data", id) => ~image[id].data

\* An image that is about to be freed is still there, and once its widget has
\* been told, no bitmap of it is shown.
FreeIs(id) ==
    /\ Does("free", id) =>
          Known(id) /\ (Does("tell", id) \/ (id \notin freed /\ ~widget[id].bitmap))
    /\ Does("skull", id) => widget[id].alive
    /\ Does("drop", id) => id \in unmade
    /\ todo # <<>> /\ todo[1] = <<"drop", id>> => id \in freed

\* An image is on the list while it is there, and the widget has its ear; one
\* without data may stay when it is freed.
ListIs(id) ==
    /\ Known(id) /\ id \in freed =>
          \/ id \in unmade
          \/ todo # <<>> /\ todo[1][1] = "drop_first" /\ id = Head(list)
    /\ image[id].data /\ id \notin freed => Known(id) \/ Does("append", id)
    /\ ~image[id].data /\ (Known(id) \/ (Does("append", id) /\ ~Does("data", id)))
          => id \in unmade
    /\ Known(id) => (image[id].callback <=> widget[id].alive)
    /\ \/ id > sent \/ Known(id) \/ Sent(id, "start") \/ Does("append", id)
       \/ id \in freed \union unmade \/ <<"start", id, 0>> \in lost

BitmapIs(id) ==
    widget[id].bitmap => id \notin freed /\ image[id].bitmap /\ image[id].callback

\* The message is still to come, or lost.
Ahead(m) == m[2] \in timers \/ m \in ToSet(channel) \/ m \in lost

\* An image that may be made a bitmap of has every chunk, or it is to come.
WholeIs(id) ==
    Sent(id, "start") \/ Does("append", id) \/ (image[id].data /\ id \notin freed)
    => \A n \in 1..Chunks : n \in image[id].got \/ Ahead(<<"chunk", id, n>>)

\* A widget that loads waits for the end of its image.
LoadingIs(id) ==
    /\ Sent(id, "widget") \/ Does("register", id) => Ahead(<<"complete", id, 0>>)
    /\ widget[id].alive /\ widget[id].loading =>
          \/ Ahead(<<"complete", id, 0>>)
          \/ <<"start", id, 0>> \in lost
          \/ id \in freed \union unmade

ImageIs(id) ==
    /\ FreshIs(id) /\ MadeIs(id) /\ FreeIs(id) /\ ListIs(id)
    /\ BitmapIs(id) /\ WholeIs(id) /\ LoadingIs(id)

\* The oldest image is taken off the list when it has been freed.
DropFirstIs ==
    \A i \in DOMAIN todo :
        todo[i][1] = "drop_first" =>
            /\ list # <<>>
            /\ i = 1 => Head(list) \in freed
            /\ i > 1 => todo[i - 1] = <<"free", Head(list)>>

Sound ==
    /\ Distinct(todo) /\ Distinct(list) /\ DropFirstIs
    /\ \A id \in Id : ImageIs(id)

\* A bitmap that is shown has all its chunks but the lost ones, whatever else
\* went wrong.
WholeShown ==
    \A id \in Id :
        widget[id].bitmap =>
            \A n \in 1..Chunks :
                n \in image[id].got \/ <<"chunk", id, n>> \in lost

IInv ==
    /\ TypeOK /\ Calls /\ ChannelOK
    /\ NestedIsDoomed /\ (Orderly => Sound)
    /\ WholeShown /\ FaultsExplained

-----------------------------------------------------------------------------
(* What is pending behind the step that runs.                              *)

Ends == {"append", "register", "drop"}

LEMMA Behind ==
    ASSUME Calls, NEW i \in DOMAIN todo, todo[i][1] \notin Ends
    PROVE  i + 1 \in DOMAIN todo /\ Follows(todo[i], todo[i + 1])
BY DEF Calls, Chained, Ended, Ends

\* Behind the last step of a call there is none.
LEMMA NoneBehind ==
    ASSUME todo \in Seq(Step), Calls, NEW i \in DOMAIN todo, todo[i][1] \in Ends
    PROVE  DOMAIN todo = 1..i
<1>1. Len(todo) \in Nat /\ DOMAIN todo = 1..Len(todo)
  BY LenProperties
<1>2. i + 1 \notin DOMAIN todo
  <2> SUFFICES ASSUME i + 1 \in DOMAIN todo PROVE FALSE
    OBVIOUS
  <2>1. Follows(todo[i], todo[i + 1])
    BY DEF Calls, Chained
  <2> QED
    BY <2>1 DEF Follows, Ends
<1> QED
  BY <1>1, <1>2

\* What is pending, by the step that runs.
LEMMA Pending ==
    ASSUME todo \in Seq(Step), Calls, todo # <<>>, NEW x, x = Subject
    PROVE  /\ todo[1][1] = "record" =>
                 ToSet(todo) = {<<"record", x>>, <<"data", x>>, <<"append", x>>}
           /\ todo[1][1] = "data" => ToSet(todo) = {<<"data", x>>, <<"append", x>>}
           /\ todo[1][1] = "layer" => ToSet(todo) = {<<"layer", x>>, <<"register", x>>}
           /\ todo[1][1] \in Ends => ToSet(todo) = {todo[1]} /\ Tail(todo) = <<>>
           /\ todo[1][1] = "free" =>
                 /\ 2 \in DOMAIN todo
                 /\ \/ /\ todo[2] = <<"drop", x>>
                       /\ ToSet(todo) = {<<"free", x>>, <<"drop", x>>}
                    \/ todo[2] = <<"drop_first", 0>>
           /\ todo[1][1] \in {"tell", "skull"} =>
                 /\ 2 \in DOMAIN todo /\ todo[2] = <<"free", x>>
                 /\ 3 \in DOMAIN todo
                 /\ \/ /\ todo[3] = <<"drop", x>>
                       /\ ToSet(todo) = {todo[1], <<"free", x>>, <<"drop", x>>}
                    \/ todo[3] = <<"drop_first", 0>>
           /\ todo[1][1] = "drop_first" =>
                 2 \in DOMAIN todo /\ todo[2][1] \in Allocating
<1>1. 1 \in DOMAIN todo /\ todo[1] = <<todo[1][1], x>>
  BY RunningStep
<1>2. 1 + 1 = 2 /\ 2 + 1 = 3 /\ 1..1 = {1} /\ 1..2 = {1, 2} /\ 1..3 = {1, 2, 3}
  OBVIOUS
<1>3. todo[1][1] \notin Ends => 2 \in DOMAIN todo /\ Follows(todo[1], todo[2])
  BY <1>1, <1>2, Behind
<1>4. 2 \in DOMAIN todo /\ todo[2][1] \notin Ends =>
         3 \in DOMAIN todo /\ Follows(todo[2], todo[3])
  BY <1>2, Behind
<1>5. todo[1][1] \in Ends => DOMAIN todo = {1}
  BY <1>1, <1>2, NoneBehind
<1>6. 2 \in DOMAIN todo /\ todo[2][1] \in Ends => DOMAIN todo = {1, 2}
  BY <1>2, NoneBehind
<1>7. 3 \in DOMAIN todo /\ todo[3][1] \in Ends => DOMAIN todo = {1, 2, 3}
  BY <1>2, NoneBehind
<1>8. DOMAIN todo = {1} => ToSet(todo) = {todo[1]}
  BY DEF ToSet
<1>9. DOMAIN todo = {1, 2} => ToSet(todo) = {todo[1], todo[2]}
  BY DEF ToSet
<1>10. DOMAIN todo = {1, 2, 3} => ToSet(todo) = {todo[1], todo[2], todo[3]}
  BY DEF ToSet
<1>11. ASSUME todo[1][1] = "record"
       PROVE  ToSet(todo) = {<<"record", x>>, <<"data", x>>, <<"append", x>>}
  <2>1. 2 \in DOMAIN todo /\ todo[2] = <<"data", x>>
    BY <1>1, <1>3, <1>11 DEF Follows, Ends
  <2>2. 3 \in DOMAIN todo /\ todo[3] = <<"append", x>>
    BY <1>4, <2>1 DEF Follows, Ends
  <2> QED
    BY <1>1, <1>7, <1>10, <1>11, <2>1, <2>2 DEF Ends
<1>12. ASSUME todo[1][1] = "data"
       PROVE  ToSet(todo) = {<<"data", x>>, <<"append", x>>}
  <2>1. 2 \in DOMAIN todo /\ todo[2] = <<"append", x>>
    BY <1>1, <1>3, <1>12 DEF Follows, Ends
  <2> QED
    BY <1>1, <1>6, <1>9, <1>12, <2>1 DEF Ends
<1>13. ASSUME todo[1][1] = "layer"
       PROVE  ToSet(todo) = {<<"layer", x>>, <<"register", x>>}
  <2>1. 2 \in DOMAIN todo /\ todo[2] = <<"register", x>>
    BY <1>1, <1>3, <1>13 DEF Follows, Ends
  <2> QED
    BY <1>1, <1>6, <1>9, <1>13, <2>1 DEF Ends
<1>14. ASSUME todo[1][1] \in Ends
       PROVE  ToSet(todo) = {todo[1]} /\ Tail(todo) = <<>>
  <2>1. ToSet(todo) = {todo[1]} /\ DOMAIN todo = {1}
    BY <1>5, <1>8, <1>14
  <2>2. \A i \in DOMAIN Tail(todo) : i + 1 \in DOMAIN todo /\ i \in Nat /\ i >= 1
    BY Taken
  <2>3. DOMAIN Tail(todo) = {}
    BY <2>1, <2>2
  <2>4. Tail(todo) \in Seq(Step)
    BY Taken
  <2>5. Tail(todo) = <<>>
    <3>1. Len(Tail(todo)) \in Nat /\ DOMAIN Tail(todo) = 1..Len(Tail(todo))
      BY <2>4, LenProperties
    <3>2. PICK n \in Nat : n = Len(Tail(todo)) /\ DOMAIN Tail(todo) = 1..n
      BY <3>1
    <3>3. 1..n = {}
      BY <2>3, <3>2
    <3>4. n = 0
      BY <3>3
    <3> QED
      BY <2>4, <3>2, <3>4, EmptySeq
  <2> QED
    BY <2>1, <2>5
<1>15. ASSUME todo[1][1] = "free"
       PROVE  /\ 2 \in DOMAIN todo
              /\ \/ /\ todo[2] = <<"drop", x>>
                    /\ ToSet(todo) = {<<"free", x>>, <<"drop", x>>}
                 \/ todo[2] = <<"drop_first", 0>>
  <2>1. 2 \in DOMAIN todo /\ todo[2] \in {<<"drop", x>>, <<"drop_first", 0>>}
    BY <1>1, <1>3, <1>15 DEF Follows, Ends
  <2>2. todo[2] = <<"drop", x>> => ToSet(todo) = {todo[1], todo[2]}
    BY <1>6, <1>9, <2>1 DEF Ends
  <2> QED
    BY <1>1, <1>15, <2>1, <2>2
<1>16. ASSUME todo[1][1] \in {"tell", "skull"}
       PROVE  /\ 2 \in DOMAIN todo /\ todo[2] = <<"free", x>>
              /\ 3 \in DOMAIN todo
              /\ \/ /\ todo[3] = <<"drop", x>>
                    /\ ToSet(todo) = {todo[1], <<"free", x>>, <<"drop", x>>}
                 \/ todo[3] = <<"drop_first", 0>>
  <2>1. 2 \in DOMAIN todo /\ todo[2] = <<"free", x>>
    BY <1>1, <1>3, <1>16 DEF Follows, Ends
  <2>2. 3 \in DOMAIN todo /\ todo[3] \in {<<"drop", x>>, <<"drop_first", 0>>}
    BY <1>4, <2>1 DEF Follows, Ends
  <2>3. todo[3] = <<"drop", x>> => ToSet(todo) = {todo[1], todo[2], todo[3]}
    BY <1>7, <1>10, <2>2 DEF Ends
  <2> QED
    BY <2>1, <2>2, <2>3
<1>17. ASSUME todo[1][1] = "drop_first"
       PROVE  2 \in DOMAIN todo /\ todo[2][1] \in Allocating
  BY <1>3, <1>17 DEF Follows, Ends
<1> QED
  BY <1>11, <1>12, <1>13, <1>14, <1>15, <1>16, <1>17

\* An image that is told of is freed then, and one is told of at once; data
\* that is fetched is put on the list.
LEMMA Promises ==
    ASSUME todo \in Seq(Step), Calls, NEW id
    PROVE  /\ Does("tell", id) => Does("free", id) /\ todo # <<>> /\ todo[1] = <<"tell", id>>
           /\ Does("skull", id) => Does("free", id)
           /\ Does("data", id) => Does("append", id)
           /\ Does("layer", id) => Does("register", id)
<1>1. \A a, b : Follows(a, b) => b[1] # "tell"
  BY DEF Follows, Allocating
<1>2. ASSUME NEW i \in DOMAIN todo, todo[i][1] = "tell"
      PROVE  i = 1
  <2>1. Len(todo) \in Nat /\ DOMAIN todo = 1..Len(todo)
    BY LenProperties
  <2> SUFFICES ASSUME i # 1 PROVE FALSE
    OBVIOUS
  <2>2. PICK j \in DOMAIN todo : j = i - 1 /\ j + 1 = i
    BY <2>1
  <2>3. Follows(todo[j], todo[j + 1])
    BY <2>2 DEF Calls, Chained
  <2> QED
    BY <1>1, <1>2, <2>2, <2>3
<1>3. ASSUME NEW i \in DOMAIN todo, todo[i][1] \notin Ends
      PROVE  \E j \in DOMAIN todo : Follows(todo[i], todo[j])
  BY <1>3, Behind
<1>4. ASSUME Does("tell", id)
      PROVE  Does("free", id) /\ todo # <<>> /\ todo[1] = <<"tell", id>>
  <2>1. PICK i \in DOMAIN todo : todo[i] = <<"tell", id>>
    BY <1>4 DEF Does, ToSet
  <2>2. i = 1
    BY <1>2, <2>1
  <2>3. PICK j \in DOMAIN todo : Follows(todo[i], todo[j])
    BY <1>3, <2>1 DEF Ends
  <2>4. todo[j] = <<"free", id>>
    BY <2>1, <2>3 DEF Follows
  <2>5. todo # <<>>
    BY <2>1
  <2> QED
    BY <2>1, <2>2, <2>4, <2>5 DEF Does, ToSet
<1>5. ASSUME Does("skull", id) PROVE Does("free", id)
  <2>1. PICK i \in DOMAIN todo : todo[i] = <<"skull", id>>
    BY <1>5 DEF Does, ToSet
  <2>2. PICK j \in DOMAIN todo : Follows(todo[i], todo[j])
    BY <1>3, <2>1 DEF Ends
  <2>3. todo[j] = <<"free", id>>
    BY <2>1, <2>2 DEF Follows
  <2> QED
    BY <2>3 DEF Does, ToSet
<1>6. ASSUME Does("data", id) PROVE Does("append", id)
  <2>1. PICK i \in DOMAIN todo : todo[i] = <<"data", id>>
    BY <1>6 DEF Does, ToSet
  <2>2. PICK j \in DOMAIN todo : Follows(todo[i], todo[j])
    BY <1>3, <2>1 DEF Ends
  <2>3. todo[j] = <<"append", id>>
    BY <2>1, <2>2 DEF Follows
  <2> QED
    BY <2>3 DEF Does, ToSet
<1>7. ASSUME Does("layer", id) PROVE Does("register", id)
  <2>1. PICK i \in DOMAIN todo : todo[i] = <<"layer", id>>
    BY <1>7 DEF Does, ToSet
  <2>2. PICK j \in DOMAIN todo : Follows(todo[i], todo[j])
    BY <1>3, <2>1 DEF Ends
  <2>3. todo[j] = <<"register", id>>
    BY <2>1, <2>2 DEF Follows
  <2> QED
    BY <2>3 DEF Does, ToSet
<1> QED
  BY <1>4, <1>5, <1>6, <1>7

\* What is pending when the step that runs is done.
LEMMA DoesTail ==
    ASSUME todo \in Seq(Step), todo # <<>>, Distinct(todo), todo' = Tail(todo)
    PROVE  /\ \A what, id : Does(what, id)' <=>
                               Does(what, id) /\ <<what, id>> # todo[1]
           /\ Distinct(todo')
           /\ \A i \in DOMAIN todo' : /\ i + 1 \in DOMAIN todo /\ i \in Nat /\ i >= 1
                                      /\ todo'[i] = todo[i + 1]
           /\ 2 \in DOMAIN todo => todo' # <<>> /\ todo'[1] = todo[2]
<1>1. /\ Head(todo) = todo[1]
      /\ \A i \in DOMAIN Tail(todo) : /\ i + 1 \in DOMAIN todo
                                      /\ Tail(todo)[i] = todo[i + 1]
                                      /\ i \in Nat /\ i >= 1
      /\ \A i \in DOMAIN todo : i # 1 =>
            i - 1 \in DOMAIN Tail(todo) /\ Tail(todo)[i - 1] = todo[i]
  BY Taken
<1>2. /\ ToSet(Tail(todo)) \subseteq ToSet(todo)
      /\ ToSet(todo) \subseteq ToSet(Tail(todo)) \union {Head(todo)}
      /\ Distinct(Tail(todo)) /\ Head(todo) \notin ToSet(Tail(todo))
  BY TakenSet
<1>3. \A what, id : <<what, id>> \in ToSet(Tail(todo)) <=>
                       <<what, id>> \in ToSet(todo) /\ <<what, id>> # todo[1]
  BY <1>1, <1>2
<1>4. 2 \in DOMAIN todo => Tail(todo) # <<>> /\ Tail(todo)[1] = todo[2]
  <2>1. 2 # 1 /\ 2 - 1 = 1
    OBVIOUS
  <2>2. 2 \in DOMAIN todo => 1 \in DOMAIN Tail(todo) /\ Tail(todo)[1] = todo[2]
    BY <1>1, <2>1
  <2>3. PICK t : t = Tail(todo)
    OBVIOUS
  <2>4. 1 \in DOMAIN t => t # <<>>
    OBVIOUS
  <2> QED
    BY <2>2, <2>3, <2>4
<1> QED
  BY <1>1, <1>2, <1>3, <1>4 DEF Does

\* Nothing is pending when a handler has returned.
LEMMA DoesNothing ==
    /\ todo = <<>> => \A what, id : ~Does(what, id)
    /\ todo' = <<>> => \A what, id : ~Does(what, id)'
BY DEF Does, ToSet

-----------------------------------------------------------------------------
(* Each action keeps the state sound.                                      *)

\* The action happens in a sound state, and memory does not run out in the
\* middle of telling a widget.
Going == TypeOK /\ Calls /\ ChannelOK /\ Orderly /\ Orderly' /\ Sound

\* What the phone and the link do: what was to come still is, or it is lost.
LEMMA PhoneKeeps ==
    ASSUME TypeOK, ChannelOK, Map \/ (\E id \in timers : SendContents(id)) \/ Lose
    PROVE  /\ UNCHANGED <<list, image, freed, widget, todo, unmade>>
           /\ sent \in Nat /\ sent' \in Nat
           /\ lost \subseteq lost'
           /\ \A id \in Id :
                 /\ Fresh(id)' => Fresh(id)
                 /\ id \in Nat
                 /\ Sent(id, "start")' => Sent(id, "start") \/ id \in timers'
                 /\ Sent(id, "widget")' => Sent(id, "widget") \/ id \in timers'
                 /\ Sent(id, "start") => Sent(id, "start")' \/ <<"start", id, 0>> \in lost'
                 /\ id > sent => id > sent' \/ Sent(id, "start")'
                 /\ Ahead(<<"complete", id, 0>>) => Ahead(<<"complete", id, 0>>)'
                 /\ \A n \in 1..Chunks :
                       Ahead(<<"chunk", id, n>>) => Ahead(<<"chunk", id, n>>)'
<1>1. /\ sent \in Nat /\ timers \subseteq Id /\ channel \in Seq(Message)
      /\ \A id \in Id : id \in Nat
  BY DEF TypeOK, Id
<1>2. CASE Map
  <2>1. PICK x : x = sent + 1
    OBVIOUS
  <2>2. x \in Id /\ x \in Nat
    BY <1>1, <1>2, <2>1, ImageAssumption DEF Map, Id, TypeOK
  <2>3. /\ Opening(x) \in Seq(Message)
        /\ ToSet(Opening(x)) = {<<"start", x, 0>>, <<"widget", x, 0>>}
    BY <2>2, ContentsAre
  <2>4. /\ sent' = x /\ timers' = timers \union {x}
        /\ channel' = channel \o Opening(x) /\ lost' = lost
        /\ UNCHANGED <<list, image, freed, widget, todo, unmade>>
    BY <1>2, <2>1 DEF Map, memory, history
  <2>5. ToSet(channel') = ToSet(channel) \union {<<"start", x, 0>>, <<"widget", x, 0>>}
    BY <1>1, <2>3, <2>4, Joined
  <2>6. ASSUME NEW id \in Id
        PROVE  /\ Fresh(id)' => Fresh(id)
               /\ Sent(id, "start")' => Sent(id, "start") \/ id \in timers'
               /\ Sent(id, "widget")' => Sent(id, "widget") \/ id \in timers'
               /\ Sent(id, "start") => Sent(id, "start")'
               /\ id > sent => id > sent' \/ Sent(id, "start")'
    <3>1. CASE id = x
      BY <1>1, <2>1, <2>2, <2>4, <2>5, <3>1 DEF Fresh, Sent
    <3>2. CASE id # x
      <4>1. /\ Sent(id, "start")' <=> Sent(id, "start")
            /\ Sent(id, "widget")' <=> Sent(id, "widget")
        BY <2>5, <3>2 DEF Sent
      <4>2. id > sent <=> id > sent'
        BY <1>1, <2>1, <2>4, <3>2
      <4> QED
        BY <4>1, <4>2 DEF Fresh
    <3> QED
      BY <3>1, <3>2
  <2>7. \A m : Ahead(m) => Ahead(m)'
    BY <2>4, <2>5 DEF Ahead
  <2> QED
    BY <1>1, <2>2, <2>4, <2>6, <2>7
<1>3. CASE \E id \in timers : SendContents(id)
  <2>1. PICK x \in timers : SendContents(x)
    BY <1>3
  <2>2. /\ Contents(x) \in Seq(Message)
        /\ ToSet(Contents(x)) = {<<"chunk", x, n>> : n \in 1..Chunks}
                                   \union {<<"complete", x, 0>>}
    BY <1>1, <2>1, ContentsAre
  <2>3. /\ sent' = sent /\ timers' = timers \ {x} /\ lost' = lost
        /\ channel' = channel \o Contents(x)
        /\ UNCHANGED <<list, image, freed, widget, todo, unmade>>
    BY <2>1 DEF SendContents, memory, history
  <2>4. ToSet(channel') = ToSet(channel) \union ToSet(Contents(x))
    BY <1>1, <2>2, <2>3, Joined
  <2>5. \A id : /\ Sent(id, "start")' <=> Sent(id, "start")
                /\ Sent(id, "widget")' <=> Sent(id, "widget")
    BY <2>2, <2>4 DEF Sent
  <2>6. \A id : Fresh(id)' <=> Fresh(id)
    BY <2>3, <2>5 DEF Fresh
  <2>7. ASSUME NEW id \in Id
        PROVE  /\ Ahead(<<"complete", id, 0>>) => Ahead(<<"complete", id, 0>>)'
               /\ \A n \in 1..Chunks :
                     Ahead(<<"chunk", id, n>>) => Ahead(<<"chunk", id, n>>)'
    <3>1. CASE id = x
      BY <2>2, <2>4, <3>1 DEF Ahead
    <3>2. CASE id # x
      BY <2>3, <2>4, <3>2 DEF Ahead
    <3> QED
      BY <3>1, <3>2
  <2> QED
    BY <1>1, <2>3, <2>5, <2>6, <2>7
<1>4. CASE Lose
  <2>1. PICK i \in DOMAIN channel : /\ channel' = RemoveAt(channel, i)
                                    /\ lost' = lost \union {channel[i]}
    BY <1>4 DEF Lose
  <2>2. PartOf(channel', channel) /\ ToSet(channel) \subseteq ToSet(channel') \union {channel[i]}
    BY <1>1, <2>1, OneLost
  <2>3. ToSet(channel') \subseteq ToSet(channel)
    BY <2>2, PartSet
  <2>4. UNCHANGED <<sent, timers, list, image, freed, widget, todo, unmade>>
    BY <1>4 DEF Lose, phone, memory
  <2>5. \A m : Ahead(m) => Ahead(m)'
    BY <2>1, <2>2, <2>4 DEF Ahead
  <2>6. \A id, what : /\ Sent(id, what)' => Sent(id, what)
                      /\ Sent(id, what) => Sent(id, what)' \/ <<what, id, 0>> \in lost'
    BY <2>1, <2>2, <2>3 DEF Sent
  <2>7. \A id : Fresh(id)' => Fresh(id)
    BY <2>4, <2>6 DEF Fresh
  <2> QED
    BY <1>1, <2>1, <2>4, <2>5, <2>6, <2>7
<1> QED
  BY <1>2, <1>3, <1>4

\* Here sent' may be more than sent; the image sent is fresh then.
LEMMA PhoneSound ==
    ASSUME Going, Map \/ (\E id \in timers : SendContents(id)) \/ Lose
    PROVE  Sound'
<1>1. /\ UNCHANGED <<list, image, freed, widget, todo, unmade>>
      /\ sent \in Nat /\ sent' \in Nat /\ lost \subseteq lost'
  BY PhoneKeeps DEF Going
<1>2. /\ \A id : Known(id)' <=> Known(id)
      /\ \A what, id : Does(what, id)' <=> Does(what, id)
  BY <1>1 DEF Known, Does
<1>3. Distinct(todo') /\ Distinct(list') /\ DropFirstIs'
  BY <1>1 DEF Going, Sound, DropFirstIs
<1>4. ASSUME NEW id \in Id
      PROVE  ImageIs(id)'
  <2>1. ImageIs(id)
    BY DEF Going, Sound
  <2>2. /\ Fresh(id)' => Fresh(id)
        /\ Sent(id, "start")' => Sent(id, "start") \/ id \in timers'
        /\ Sent(id, "widget")' => Sent(id, "widget") \/ id \in timers'
        /\ Sent(id, "start") => Sent(id, "start")' \/ <<"start", id, 0>> \in lost'
        /\ id > sent => id > sent' \/ Sent(id, "start")'
        /\ Ahead(<<"complete", id, 0>>) => Ahead(<<"complete", id, 0>>)'
        /\ \A n \in 1..Chunks :
              Ahead(<<"chunk", id, n>>) => Ahead(<<"chunk", id, n>>)'
    BY PhoneKeeps DEF Going
  <2>3. FreshIs(id)'
    BY <1>1, <1>2, <2>1, <2>2 DEF ImageIs, FreshIs, NewImage, NoWidget
  <2>4. MadeIs(id)'
    BY <1>1, <1>2, <2>1 DEF ImageIs, MadeIs, NoWidget
  <2>5. FreeIs(id)'
    BY <1>1, <1>2, <2>1 DEF ImageIs, FreeIs
  <2>6. ListIs(id)'
    BY <1>1, <1>2, <2>1, <2>2 DEF ImageIs, ListIs
  <2>7. BitmapIs(id)'
    BY <1>1, <2>1 DEF ImageIs, BitmapIs
  <2>8. WholeIs(id)'
    <3>1. id \in timers' => \A n \in 1..Chunks : Ahead(<<"chunk", id, n>>)'
      BY DEF Ahead
    <3> QED
      BY <1>1, <1>2, <2>1, <2>2, <3>1 DEF ImageIs, WholeIs
  <2>9. LoadingIs(id)'
    <3>1. id \in timers' => Ahead(<<"complete", id, 0>>)'
      BY DEF Ahead
    <3> QED
      BY <1>1, <1>2, <2>1, <2>2, <3>1 DEF ImageIs, LoadingIs
  <2> QED
    BY <2>3, <2>4, <2>5, <2>6, <2>7, <2>8, <2>9 DEF ImageIs
<1> QED
  BY <1>3, <1>4 DEF Sound

\* What is fresh, sent or ahead is the phone's and the link's.
LEMMA Elsewhere3 ==
    ASSUME UNCHANGED <<phone, channel, lost>>
    PROVE  /\ sent' = sent /\ timers' = timers /\ lost' = lost
           /\ \A id : Fresh(id)' <=> Fresh(id)
           /\ \A id, what : Sent(id, what)' <=> Sent(id, what)
           /\ \A m : Ahead(m)' <=> Ahead(m)
BY DEF Fresh, Sent, Ahead, phone

\* What a sound state says of the step that runs.
LEMMA GoingFacts ==
    ASSUME Going
    PROVE  /\ todo \in Seq(Step) /\ list \in Seq(Id) /\ Calls /\ fault = "none"
           /\ Distinct(todo) /\ Distinct(list) /\ DropFirstIs
           /\ \A id \in Id : ImageIs(id)
           /\ image \in [Id -> [got : SUBSET (1..Chunks), data : BOOLEAN,
                                bitmap : BOOLEAN, callback : BOOLEAN]]
           /\ widget \in [Id -> [alive : BOOLEAN, loading : BOOLEAN,
                                 bitmap : BOOLEAN, skull : BOOLEAN]]
BY DEF Going, TypeOK, Sound, Orderly

\* An image that is being destroyed by a running step is on the list.
LEMMA DestroyedKnown ==
    ASSUME Going, NEW id \in Id, Does("free", id) \/ Does("skull", id) \/ Does("tell", id)
    PROVE  Known(id) /\ list # <<>> /\ ~Fresh(id)
<1>1. Does("free", id)
  BY Promises, GoingFacts
<1>2. Known(id) /\ ~Fresh(id)
  BY <1>1, GoingFacts DEF ImageIs, FreeIs, FreshIs
<1> QED
  BY <1>2 DEF Known, ToSet

LEMMA PressureSound ==
    ASSUME Going, Pressure
    PROVE  Sound'
<1>1. /\ todo \in Seq(Step) /\ list \in Seq(Id) /\ Calls /\ fault = "none"
      /\ Distinct(todo) /\ Distinct(list) /\ DropFirstIs
      /\ \A id \in Id : ImageIs(id)
  BY GoingFacts
<1>2. /\ todo # <<>> /\ list # <<>>
      /\ todo' = Destroying(Head(list)) \o <<<<"drop_first", 0>>>> \o todo
      /\ UNCHANGED <<image, widget, list, freed, unmade>>
      /\ UNCHANGED <<phone, channel, lost>>
      /\ ~(Running("skull") /\ Subject = Head(list))
  BY DEF Pressure, Running, memory, Going, Orderly
<1>3. todo[1][1] \in Allocating
  BY <1>1, <1>2, RunningStep DEF Pressure
<1>4. PICK h \in Id : h = Head(list)
  BY <1>1, <1>2, TakenSet
<1>5. Known(h)
  BY <1>1, <1>2, <1>4, TakenSet DEF Known
<1>6. PICK x : x = Subject
  OBVIOUS
<1>7. todo[1] = <<todo[1][1], x>> /\ 1 \in DOMAIN todo /\ x \in Id
  BY <1>1, <1>2, <1>3, <1>6, RunningStep DEF Allocating
<1>8. ~Does("tell", h) /\ ~Does("free", h) /\ ~Does("drop_first", 0)
      /\ \A id : ~Does("tell", id)
  <2>1. \A id : ~Does("tell", id)
    BY <1>1, <1>3, <1>7, Promises DEF Allocating
  <2>2. CASE todo[1][1] \in {"record", "data", "layer"}
    <3>1. \/ ToSet(todo) = {<<"record", x>>, <<"data", x>>, <<"append", x>>}
          \/ ToSet(todo) = {<<"data", x>>, <<"append", x>>}
          \/ ToSet(todo) = {<<"layer", x>>, <<"register", x>>}
      BY <1>1, <1>2, <1>6, <2>2, Pending
    <3> QED
      BY <2>1, <3>1 DEF Does
  <2>3. CASE todo[1][1] = "skull"
    <3>1. x # h
      BY <1>1, <1>2, <1>4, <1>6, <2>3, RunningStep
    <3>2. /\ 2 \in DOMAIN todo /\ todo[2] = <<"free", x>> /\ 3 \in DOMAIN todo
          /\ \/ ToSet(todo) = {todo[1], <<"free", x>>, <<"drop", x>>}
             \/ todo[3] = <<"drop_first", 0>>
      BY <1>1, <1>2, <1>6, <2>3, Pending
    <3>3. CASE todo[3] = <<"drop_first", 0>>
      <4>1. 3 > 1 /\ 3 - 1 = 2
        OBVIOUS
      <4>2. todo[2] = <<"free", Head(list)>>
        BY <1>1, <3>2, <3>3, <4>1 DEF DropFirstIs
      <4> QED
        BY <1>4, <3>1, <3>2, <4>2
    <3>4. CASE ToSet(todo) = {todo[1], <<"free", x>>, <<"drop", x>>}
      BY <1>7, <2>1, <2>3, <3>1, <3>4 DEF Does
    <3> QED
      BY <3>2, <3>3, <3>4
  <2> QED
    BY <1>3, <2>2, <2>3 DEF Allocating
<1>9. PICK t, f, d : /\ t = <<"tell", h>> /\ f = <<"free", h>> /\ d = <<"drop_first", 0>>
                     /\ t # f /\ f # d /\ t # d
  <2>1. PICK t, f, d : t = <<"tell", h>> /\ f = <<"free", h>> /\ d = <<"drop_first", 0>>
    OBVIOUS
  <2>2. t[1] = "tell" /\ f[1] = "free" /\ d[1] = "drop_first"
    BY <2>1
  <2>3. t # f /\ f # d /\ t # d
    BY <2>2
  <2> QED
    BY <2>1, <2>3
<1>10. t \in Step /\ f \in Step /\ d \in Step
  BY <1>9, StepIn
<1>11. PICK p : p = <<t, f>> \o <<d>>
  OBVIOUS
<1>12. /\ p \in Seq(Step) /\ Len(p) = 3 /\ DOMAIN p = 1..3
       /\ p[1] = t /\ p[2] = f /\ p[3] = d /\ ToSet(p) = {t, f, d}
  BY <1>10, <1>11, Frame
<1>13. todo' = p \o todo
  BY <1>2, <1>4, <1>9, <1>11 DEF Destroying
<1>14. /\ \A i \in DOMAIN p : i \in DOMAIN todo' /\ todo'[i] = p[i]
       /\ \A i \in DOMAIN todo' :
             \/ i \in DOMAIN p /\ todo'[i] = p[i]
             \/ i \notin DOMAIN p /\ i - 3 \in DOMAIN todo /\ i \in Nat /\ todo'[i] = todo[i - 3]
       /\ ToSet(todo') = {t, f, d} \union ToSet(todo)
  <2>1. \A i \in DOMAIN p : i \in DOMAIN todo' /\ todo'[i] = p[i]
    BY <1>1, <1>12, <1>13, Joined
  <2>2. \A i \in DOMAIN todo' :
             \/ i \in DOMAIN p /\ todo'[i] = p[i]
             \/ i \notin DOMAIN p /\ i - 3 \in DOMAIN todo /\ i \in Nat /\ todo'[i] = todo[i - 3]
    <3>1. \A i \in DOMAIN (p \o todo) :
             \/ i \in DOMAIN p /\ (p \o todo)[i] = p[i]
             \/ i \notin DOMAIN p /\ i - Len(p) \in DOMAIN todo /\ i \in Nat
                /\ (p \o todo)[i] = todo[i - Len(p)]
      BY <1>1, <1>12, Joined
    <3> QED
      BY <1>12, <1>13, <3>1
  <2>3. ToSet(todo') = {t, f, d} \union ToSet(todo)
    BY <1>1, <1>12, <1>13, Joined
  <2> QED
    BY <2>1, <2>2, <2>3
<1>15. DOMAIN p = {1, 2, 3}
  BY <1>12
<1>16. /\ todo'[1] = t /\ todo'[2] = f /\ todo'[3] = d
       /\ 1 \in DOMAIN todo' /\ 2 \in DOMAIN todo' /\ 3 \in DOMAIN todo' /\ todo' # <<>>
  BY <1>12, <1>14, <1>15
<1>17. t \notin ToSet(todo) /\ f \notin ToSet(todo) /\ d \notin ToSet(todo)
  BY <1>8, <1>9 DEF Does
<1>18. Distinct(todo')
  <2> SUFFICES ASSUME NEW i \in DOMAIN todo', NEW j \in DOMAIN todo', todo'[i] = todo'[j]
               PROVE  i = j
    BY DEF Distinct
  <2>1. DOMAIN todo = 1..Len(todo) /\ Len(todo) \in Nat
    BY <1>1, LenProperties
  <2>2. CASE i \in DOMAIN p /\ j \in DOMAIN p
    BY <1>9, <1>15, <1>16, <2>2
  <2>3. CASE i \in DOMAIN p /\ j \notin DOMAIN p
    <3>1. todo'[i] \in {t, f, d}
      BY <1>15, <1>16, <2>3
    <3>2. todo'[j] \in ToSet(todo)
      BY <1>14, <2>3 DEF ToSet
    <3> QED
      BY <1>17, <3>1, <3>2
  <2>4. CASE i \notin DOMAIN p /\ j \in DOMAIN p
    <3>1. todo'[j] \in {t, f, d}
      BY <1>15, <1>16, <2>4
    <3>2. todo'[i] \in ToSet(todo)
      BY <1>14, <2>4 DEF ToSet
    <3> QED
      BY <1>17, <3>1, <3>2
  <2>5. CASE i \notin DOMAIN p /\ j \notin DOMAIN p
    <3>1. PICK k \in DOMAIN todo : k = i - 3 /\ i \in Nat /\ todo'[i] = todo[k]
      BY <1>14, <2>5
    <3>2. PICK l \in DOMAIN todo : l = j - 3 /\ j \in Nat /\ todo'[j] = todo[l]
      BY <1>14, <2>5
    <3>3. k = l
      BY <1>1, <3>1, <3>2 DEF Distinct
    <3> QED
      BY <2>1, <3>1, <3>2, <3>3
  <2> QED
    BY <2>2, <2>3, <2>4, <2>5
<1>19. DropFirstIs'
  <2> SUFFICES ASSUME NEW i \in DOMAIN todo', todo'[i][1] = "drop_first"
               PROVE  /\ list' # <<>> /\ (i = 1 => Head(list') \in freed')
                      /\ i > 1 => todo'[i - 1] = <<"free", Head(list')>>
    BY DEF DropFirstIs
  <2>1. i = 3
    <3>1. todo' \in Seq(Step)
      BY <1>1, <1>12, <1>13, Joined
    <3>2. todo'[i] \in Step
      BY <3>1, ElementOfSeq, LenProperties
    <3>3. todo'[i] = d
      BY <1>9, <3>2, StepType
    <3> QED
      BY <1>16, <1>18, <3>3 DEF Distinct
  <2>2. 3 - 1 = 2 /\ 3 # 1
    OBVIOUS
  <2> QED
    BY <1>2, <1>4, <1>9, <1>16, <2>1, <2>2
<1>20. \A what, id : Does(what, id)' <=> Does(what, id) \/ <<what, id>> \in {t, f, d}
  BY <1>14 DEF Does
<1>21. \A id : /\ Does("append", id)' <=> Does("append", id)
               /\ Does("register", id)' <=> Does("register", id)
               /\ Does("data", id)' <=> Does("data", id)
               /\ Does("skull", id)' <=> Does("skull", id)
               /\ Does("drop", id)' <=> Does("drop", id)
               /\ Does("tell", id)' <=> Does("tell", id) \/ id = h
               /\ Does("free", id)' <=> Does("free", id) \/ id = h
  BY <1>9, <1>20
<1>22. \A id : Known(id)' <=> Known(id)
  BY <1>2 DEF Known
<1>23. ASSUME NEW id \in Id PROVE ImageIs(id)'
  <2>1. ImageIs(id)
    BY <1>1
  <2>2. /\ Fresh(id)' <=> Fresh(id)
        /\ Sent(id, "start")' <=> Sent(id, "start")
        /\ Sent(id, "widget")' <=> Sent(id, "widget")
        /\ \A m : Ahead(m)' <=> Ahead(m)
        /\ sent' = sent /\ lost' = lost
    BY <1>2, Elsewhere3
  <2>3. FreshIs(id)'
    BY <1>2, <1>21, <1>22, <2>1, <2>2 DEF ImageIs, FreshIs, NewImage, NoWidget
  <2>4. MadeIs(id)'
    BY <1>2, <1>21, <1>22, <2>1 DEF ImageIs, MadeIs, NoWidget
  <2>5. FreeIs(id)'
    BY <1>2, <1>5, <1>8, <1>9, <1>16, <1>21, <1>22, <2>1 DEF ImageIs, FreeIs
  <2>6. ListIs(id)'
    BY <1>2, <1>3, <1>21, <1>22, <2>1, <2>2 DEF ImageIs, ListIs, Allocating
  <2>7. BitmapIs(id)'
    BY <1>2, <2>1 DEF ImageIs, BitmapIs
  <2>8. WholeIs(id)'
    BY <1>2, <1>21, <2>1, <2>2 DEF ImageIs, WholeIs
  <2>9. LoadingIs(id)'
    BY <1>2, <1>21, <2>1, <2>2 DEF ImageIs, LoadingIs
  <2> QED
    BY <2>3, <2>4, <2>5, <2>6, <2>7, <2>8, <2>9 DEF ImageIs
<1>24. Distinct(list')
  BY <1>1, <1>2
<1> QED
  BY <1>18, <1>19, <1>23, <1>24 DEF Sound

\* What becomes of the widgets that go, and of their images.
LEMMA WidgetsGone ==
    ASSUME TypeOK, NEW ids, WidgetsGo(ids)
    PROVE  /\ Distinct(list) => Distinct(list')
           /\ \A id \in Id :
                 /\ Known(id)' <=> Known(id) /\ id \notin ids
                 /\ id \in freed' <=> id \in freed \/ (id \in ids /\ Known(id))
                 /\ id \in ids => widget'[id] = NoWidget
                 /\ id \notin ids => widget'[id] = widget[id]
                 /\ ~(id \in ids /\ Known(id)) => image'[id] = image[id]
                 /\ /\ image'[id].got = image[id].got
                    /\ image'[id].data = image[id].data
                    /\ image'[id].bitmap = image[id].bitmap
<1>1. /\ image \in [Id -> [got : SUBSET (1..Chunks), data : BOOLEAN,
                           bitmap : BOOLEAN, callback : BOOLEAN]]
      /\ list \in Seq(Id)
  BY DEF TypeOK
<1>2. /\ ToSet(list') = {id \in ToSet(list) : id \notin ids}
      /\ Distinct(list) => Distinct(list')
  BY <1>1, WithoutStep DEF WidgetsGo
<1>3. /\ widget' = [id \in Id |-> IF id \in ids THEN NoWidget ELSE widget[id]]
      /\ image' = [id \in Id |-> IF id \in ids /\ Known(id)
                                 THEN [image[id] EXCEPT !.callback = FALSE]
                                 ELSE image[id]]
      /\ freed' = freed \union {id \in ids : Known(id)}
  BY DEF WidgetsGo
<1>4. ASSUME NEW id \in Id
      PROVE  /\ Known(id)' <=> Known(id) /\ id \notin ids
             /\ id \in freed' <=> id \in freed \/ (id \in ids /\ Known(id))
             /\ id \in ids => widget'[id] = NoWidget
             /\ id \notin ids => widget'[id] = widget[id]
             /\ ~(id \in ids /\ Known(id)) => image'[id] = image[id]
  BY <1>2, <1>3 DEF Known
<1>5. ASSUME NEW id \in Id
      PROVE  /\ image'[id].got = image[id].got
             /\ image'[id].data = image[id].data
             /\ image'[id].bitmap = image[id].bitmap
  <2>1. \/ image'[id] = image[id]
        \/ image'[id] = [image[id] EXCEPT !.callback = FALSE]
    BY <1>3
  <2>2. PICK r \in [got : SUBSET (1..Chunks), data : BOOLEAN,
                    bitmap : BOOLEAN, callback : BOOLEAN] : r = image[id]
    BY <1>1
  <2>3. LET s == [r EXCEPT !.callback = FALSE]
        IN  s.got = r.got /\ s.data = r.data /\ s.bitmap = r.bitmap
    OBVIOUS
  <2> QED
    BY <2>1, <2>2, <2>3
<1> QED
  BY <1>2, <1>4, <1>5

LEMMA ConversationPressureSound ==
    ASSUME Going, ConversationPressure
    PROVE  Sound'
<1>1. /\ todo \in Seq(Step) /\ list \in Seq(Id) /\ Calls /\ fault = "none"
      /\ Distinct(todo) /\ Distinct(list) /\ DropFirstIs
      /\ \A id \in Id : ImageIs(id)
  BY GoingFacts
<1>2. /\ list = <<>> /\ UNCHANGED <<phone, channel, lost>> /\ UNCHANGED <<todo, unmade>>
      /\ \/ UNCHANGED <<memory, widget, nested>>
         \/ \E id \in Shown : WidgetsGo({id})
  BY DEF ConversationPressure
<1>3. \A id : ~Known(id)
  BY <1>2 DEF Known, ToSet
<1>4. PICK gone : /\ \A id \in Id : Known(id)' <=> Known(id)
                  /\ \A id \in Id : id \in freed' <=> id \in freed
                  /\ \A id \in Id : image'[id] = image[id]
                  /\ \A id \in Id : id \in gone => widget'[id] = NoWidget
                  /\ \A id \in Id : id \notin gone => widget'[id] = widget[id]
                  /\ Distinct(list')
  <2>1. CASE UNCHANGED <<memory, widget, nested>>
    <3>1. /\ \A id \in Id : Known(id)' <=> Known(id)
          /\ \A id \in Id : id \in freed' <=> id \in freed
          /\ \A id \in Id : image'[id] = image[id]
          /\ widget' = widget /\ Distinct(list')
      BY <1>1, <2>1 DEF memory, Known
    <3>2. PICK g : g = {}
      OBVIOUS
    <3>3. /\ \A id \in Id : id \in g => widget'[id] = NoWidget
          /\ \A id \in Id : id \notin g => widget'[id] = widget[id]
      BY <3>1, <3>2
    <3> QED
      BY <3>1, <3>3
  <2>2. CASE \E id \in Shown : WidgetsGo({id})
    <3>1. PICK x \in Shown : WidgetsGo({x})
      BY <2>2
    <3>2. /\ Distinct(list')
          /\ \A id \in Id :
                /\ Known(id)' <=> Known(id) /\ id \notin {x}
                /\ id \in freed' <=> id \in freed \/ (id \in {x} /\ Known(id))
                /\ id \in {x} => widget'[id] = NoWidget
                /\ id \notin {x} => widget'[id] = widget[id]
                /\ ~(id \in {x} /\ Known(id)) => image'[id] = image[id]
      BY <1>1, <3>1, WidgetsGone DEF Going
    <3> QED
      BY <1>3, <3>2
  <2> QED
    BY <1>2, <2>1, <2>2
<1>5. \A what, id : Does(what, id)' <=> Does(what, id)
  BY <1>2 DEF Does
<1>6. \A i \in DOMAIN todo : todo[i][1] # "drop_first"
  BY <1>1, <1>2 DEF DropFirstIs
<1>7. DropFirstIs'
  BY <1>2, <1>6 DEF DropFirstIs
<1>8. ASSUME NEW id \in Id PROVE ImageIs(id)'
  <2>1. ImageIs(id) /\ ~Known(id)
    BY <1>1, <1>3
  <2>2. /\ Fresh(id)' <=> Fresh(id)
        /\ Sent(id, "start")' <=> Sent(id, "start")
        /\ Sent(id, "widget")' <=> Sent(id, "widget")
        /\ \A m : Ahead(m)' <=> Ahead(m)
        /\ sent' = sent /\ lost' = lost
    BY <1>2, Elsewhere3
  <2>3. ~Does("free", id) /\ ~Does("skull", id)
    BY <1>2, DestroyedKnown
  <2>4. widget'[id] = NoWidget \/ widget'[id] = widget[id]
    BY <1>4
  <2>5. FreshIs(id)'
    BY <1>2, <1>4, <1>5, <2>1, <2>2 DEF ImageIs, FreshIs, NewImage, NoWidget
  <2>6. MadeIs(id)'
    BY <1>2, <1>4, <1>5, <2>1 DEF ImageIs, MadeIs, NoWidget
  <2>7. FreeIs(id)'
    BY <1>2, <1>4, <1>5, <2>1, <2>3 DEF ImageIs, FreeIs
  <2>8. ListIs(id)'
    BY <1>2, <1>4, <1>5, <2>1, <2>2 DEF ImageIs, ListIs
  <2>9. BitmapIs(id)'
    BY <1>4, <2>1, <2>4 DEF ImageIs, BitmapIs, NoWidget
  <2>10. WholeIs(id)'
    BY <1>2, <1>4, <1>5, <2>1, <2>2 DEF ImageIs, WholeIs
  <2>11. LoadingIs(id)'
    BY <1>2, <1>4, <1>5, <2>1, <2>2, <2>4 DEF ImageIs, LoadingIs, NoWidget
  <2> QED
    BY <2>5, <2>6, <2>7, <2>8, <2>9, <2>10, <2>11 DEF ImageIs
<1> QED
  BY <1>1, <1>2, <1>4, <1>7, <1>8 DEF Sound

LEMMA AllocationFailsSound ==
    ASSUME Going, AllocationFails
    PROVE  Sound'
<1>1. /\ todo \in Seq(Step) /\ list \in Seq(Id) /\ Calls /\ fault = "none"
      /\ Distinct(todo) /\ Distinct(list) /\ DropFirstIs
      /\ \A id \in Id : ImageIs(id)
  BY GoingFacts
<1>2. /\ list = <<>> /\ todo # <<>> /\ fault' = "none"
      /\ UNCHANGED <<phone, channel, lost>>
      /\ UNCHANGED <<list, image, freed, widget>>
  BY DEF AllocationFails, Beginning, Running, memory, Going, Orderly
<1>3. PICK x : x = Subject
  OBVIOUS
<1>4. /\ todo[1] = <<todo[1][1], x>>
      /\ todo[1][1] # "drop_first" => x \in Id
      /\ \A what : Running(what) <=> todo[1][1] = what
  BY <1>1, <1>2, <1>3, RunningStep
<1>5. \/ todo[1][1] = "record" /\ todo' = <<>> /\ unmade' = unmade \union {x}
      \/ todo[1][1] = "data" /\ todo' = Tail(todo) /\ unmade' = unmade \union {x}
      \/ todo[1][1] = "skull"
  BY <1>2, <1>3, <1>4 DEF AllocationFails, Beginning
<1>6. todo[1][1] # "skull"
  <2> SUFFICES ASSUME todo[1][1] = "skull" PROVE FALSE
    OBVIOUS
  <2>1. Does("skull", x) /\ x \in Id
    <3>1. 1 \in DOMAIN todo
      BY <1>1, <1>2, RunningStep
    <3> QED
      BY <1>4, <3>1 DEF Does, ToSet
  <2> QED
    BY <1>2, <2>1, DestroyedKnown
<1>7. x \in Id /\ unmade' = unmade \union {x}
      /\ Does("append", x) /\ Does("data", x)
      /\ \A what, id : /\ Does(what, id)' => what = "append" /\ id = x
                       /\ Does(what, id)' => todo[1][1] = "data"
                       /\ Does(what, id) => id = x /\ what \in {"record", "data", "append"}
  <2>1. CASE todo[1][1] = "record" /\ todo' = <<>> /\ unmade' = unmade \union {x}
    <3>1. ToSet(todo) = {<<"record", x>>, <<"data", x>>, <<"append", x>>}
      BY <1>1, <1>2, <1>3, <2>1, Pending
    <3>2. \A what, id : ~Does(what, id)'
      BY <2>1, DoesNothing
    <3> QED
      BY <1>4, <2>1, <3>1, <3>2 DEF Does
  <2>2. CASE todo[1][1] = "data" /\ todo' = Tail(todo) /\ unmade' = unmade \union {x}
    <3>1. ToSet(todo) = {<<"data", x>>, <<"append", x>>}
      BY <1>1, <1>2, <1>3, <2>2, Pending
    <3>2. \A what, id : Does(what, id)' <=> Does(what, id) /\ <<what, id>> # todo[1]
      BY <1>1, <1>2, <2>2, DoesTail
    <3> QED
      BY <1>4, <2>2, <3>1, <3>2 DEF Does
  <2> QED
    BY <1>5, <1>6, <2>1, <2>2
<1>8. Distinct(todo')
  <2>1. CASE todo' = <<>>
    BY <2>1 DEF Distinct
  <2>2. CASE todo' = Tail(todo)
    BY <1>1, <1>2, <2>2, DoesTail
  <2> QED
    BY <1>5, <1>6, <2>1, <2>2
<1>9. \A i \in DOMAIN todo' : todo'[i][1] = "append"
  <2>1. todo' \in Seq(Step)
    BY CallsStep DEF Going, Next
  <2>2. ASSUME NEW i \in DOMAIN todo' PROVE todo'[i][1] = "append"
    <3>1. todo'[i] \in Step
      BY <2>1, ElementOfSeq, LenProperties
    <3>2. PICK a, id : todo'[i] = <<a, id>>
      BY <3>1, StepType
    <3>3. <<a, id>> \in ToSet(todo')
      BY <3>2 DEF ToSet
    <3>4. Does(a, id)'
      BY <3>3 DEF Does
    <3>5. a = "append"
      BY <1>7, <3>4
    <3> QED
      BY <3>2, <3>5
  <2> QED
    BY <2>2
<1>10. DropFirstIs'
  BY <1>9 DEF DropFirstIs
<1>11. todo' # <<>> => todo'[1][1] = "append"
  <2>1. todo' \in Seq(Step)
    BY CallsStep DEF Going, Next
  <2>2. todo' # <<>> => 1 \in DOMAIN todo'
    BY <2>1, Taken
  <2> QED
    BY <1>9, <2>2
<1>12. ASSUME NEW id \in Id PROVE ImageIs(id)'
  <2>1. ImageIs(id) /\ ImageIs(x)
    BY <1>1, <1>7
  <2>2. /\ Fresh(id)' <=> Fresh(id)
        /\ Sent(id, "start")' <=> Sent(id, "start")
        /\ Sent(id, "widget")' <=> Sent(id, "widget")
        /\ \A m : Ahead(m)' <=> Ahead(m)
        /\ sent' = sent /\ lost' = lost
    BY <1>2, Elsewhere3
  <2>3. ~Known(id) /\ ~Known(id)'
    BY <1>2 DEF Known, ToSet
  <2>4. ~Fresh(x) /\ ~image[x].data
    BY <1>7, <2>1 DEF ImageIs, FreshIs, MadeIs
  <2>5. FreshIs(id)'
    BY <1>2, <1>7, <2>1, <2>2, <2>3, <2>4 DEF ImageIs, FreshIs, NewImage, NoWidget
  <2>6. MadeIs(id)'
    BY <1>2, <1>7, <2>1, <2>3 DEF ImageIs, MadeIs, NoWidget
  <2>7. FreeIs(id)'
    BY <1>7, <1>11 DEF FreeIs
  <2>8. ListIs(id)'
    BY <1>2, <1>7, <2>1, <2>2, <2>3, <2>4 DEF ImageIs, ListIs
  <2>9. BitmapIs(id)'
    BY <1>2, <2>1 DEF ImageIs, BitmapIs
  <2>10. WholeIs(id)'
    BY <1>2, <1>7, <2>1, <2>2, <2>4 DEF ImageIs, WholeIs
  <2>11. LoadingIs(id)'
    BY <1>2, <1>7, <2>1, <2>2 DEF ImageIs, LoadingIs
  <2> QED
    BY <2>5, <2>6, <2>7, <2>8, <2>9, <2>10, <2>11 DEF ImageIs
<1>13. Distinct(list')
  BY <1>1, <1>2
<1> QED
  BY <1>8, <1>10, <1>12, <1>13 DEF Sound

\* The step that runs is done; it was not the last of a destruction but one.
LEMMA TailKeeps ==
    ASSUME Going, todo # <<>>, todo' = Tail(todo), list' = list, todo[1][1] # "free"
    PROVE  /\ \A what, id : Does(what, id)' <=>
                               Does(what, id) /\ <<what, id>> # todo[1]
           /\ Distinct(todo') /\ DropFirstIs'
           /\ \A id : ~(todo' # <<>> /\ todo'[1] = <<"drop", id>>)
<1>1. /\ todo \in Seq(Step) /\ Calls /\ Distinct(todo) /\ DropFirstIs
  BY GoingFacts
<1>2. /\ \A what, id : Does(what, id)' <=> Does(what, id) /\ <<what, id>> # todo[1]
      /\ Distinct(todo')
      /\ \A i \in DOMAIN todo' : /\ i + 1 \in DOMAIN todo /\ i \in Nat /\ i >= 1
                                 /\ todo'[i] = todo[i + 1]
  BY <1>1, DoesTail
<1>3. DropFirstIs'
  <2> SUFFICES ASSUME NEW i \in DOMAIN todo', todo'[i][1] = "drop_first"
               PROVE  /\ list' # <<>> /\ (i = 1 => Head(list') \in freed')
                      /\ i > 1 => todo'[i - 1] = <<"free", Head(list')>>
    BY DEF DropFirstIs
  <2>1. /\ i \in Nat /\ i >= 1 /\ i + 1 \in DOMAIN todo /\ todo'[i] = todo[i + 1]
        /\ i + 1 > 1 /\ (i + 1) - 1 = i
    BY <1>2
  <2>2. list # <<>> /\ todo[i] = <<"free", Head(list)>>
    BY <1>1, <2>1 DEF DropFirstIs
  <2>3. i # 1
    BY <2>2
  <2>4. i - 1 \in DOMAIN todo'
    <3>1. todo' \in Seq(Step) /\ todo' # <<>>
      BY <1>1, Taken
    <3>2. DOMAIN todo' = 1..Len(todo') /\ Len(todo') \in Nat
      BY <3>1, LenProperties
    <3> QED
      BY <2>1, <2>3, <3>2
  <2>5. todo'[i - 1] = todo[(i - 1) + 1] /\ (i - 1) + 1 = i
    BY <1>2, <2>1, <2>4
  <2> QED
    BY <2>2, <2>3, <2>5
<1>4. ASSUME NEW id, todo' # <<>>, todo'[1] = <<"drop", id>>
      PROVE  FALSE
  <2>1. 1 \in DOMAIN todo'
    <3>1. todo' \in Seq(Step)
      BY <1>1, Taken
    <3> QED
      BY <1>4, <3>1, Taken
  <2>2. 1 + 1 \in DOMAIN todo /\ todo[1 + 1] = <<"drop", id>> /\ 1 \in DOMAIN todo
    BY <1>1, <1>2, <1>4, <2>1, Taken
  <2>3. Follows(todo[1], todo[1 + 1])
    BY <1>1, <2>2 DEF Calls, Chained
  <2> QED
    BY <2>2, <2>3 DEF Follows, Allocating
<1> QED
  BY <1>2, <1>3, <1>4

LEMMA AllocationSucceedsSound ==
    ASSUME Going, AllocationSucceeds
    PROVE  Sound'
<1>1. /\ todo \in Seq(Step) /\ list \in Seq(Id) /\ Calls /\ fault = "none"
      /\ Distinct(todo) /\ Distinct(list) /\ DropFirstIs
      /\ \A id \in Id : ImageIs(id)
      /\ image \in [Id -> [got : SUBSET (1..Chunks), data : BOOLEAN,
                           bitmap : BOOLEAN, callback : BOOLEAN]]
      /\ widget \in [Id -> [alive : BOOLEAN, loading : BOOLEAN,
                            bitmap : BOOLEAN, skull : BOOLEAN]]
  BY GoingFacts
<1>2. /\ todo # <<>> /\ todo' = Tail(todo) /\ fault' = "none"
      /\ UNCHANGED <<phone, channel, lost>>
      /\ UNCHANGED <<list, freed, unmade>>
  BY DEF AllocationSucceeds, Beginning, Running, history, Going, Orderly
<1>3. PICK x : x = Subject
  OBVIOUS
<1>4. /\ todo[1] = <<todo[1][1], x>> /\ 1 \in DOMAIN todo
      /\ todo[1][1] # "drop_first" => x \in Id
      /\ \A what : Running(what) <=> todo[1][1] = what
  BY <1>1, <1>2, <1>3, RunningStep
<1>5. \/ todo[1][1] \in {"record", "layer"} /\ UNCHANGED <<image, widget>>
      \/ /\ todo[1][1] = "data" /\ image' = [image EXCEPT ![x].data = TRUE]
         /\ UNCHANGED widget
      \/ /\ todo[1][1] = "skull" /\ widget[x].alive
         /\ widget' = [widget EXCEPT ![x].skull = TRUE] /\ UNCHANGED image
  BY <1>2, <1>3, <1>4 DEF AllocationSucceeds, Beginning
<1>6. x \in Id /\ todo[1][1] \in Allocating
  BY <1>4, <1>5 DEF Allocating
<1>7. /\ \A what, id : Does(what, id)' <=> Does(what, id) /\ <<what, id>> # todo[1]
      /\ Distinct(todo') /\ DropFirstIs'
      /\ \A id : ~(todo' # <<>> /\ todo'[1] = <<"drop", id>>)
  BY <1>2, <1>6, TailKeeps DEF Allocating
<1>8. /\ Does(todo[1][1], x)
      /\ todo[1][1] = "data" => Does("append", x)
  <2>1. Does(todo[1][1], x)
    BY <1>4 DEF Does, ToSet
  <2> QED
    BY <1>1, <2>1, Promises
<1>9. /\ \A id \in Id : /\ image'[id].got = image[id].got
                        /\ image'[id].bitmap = image[id].bitmap
                        /\ image'[id].callback = image[id].callback
                        /\ ~(todo[1][1] = "data" /\ id = x) => image'[id] = image[id]
      /\ todo[1][1] = "data" => image'[x].data
  <2>1. CASE UNCHANGED image /\ todo[1][1] # "data"
    BY <2>1
  <2>2. CASE todo[1][1] = "data" /\ image' = [image EXCEPT ![x].data = TRUE]
    <3>1. PICK r \in [got : SUBSET (1..Chunks), data : BOOLEAN,
                      bitmap : BOOLEAN, callback : BOOLEAN] : r = image[x]
      BY <1>1, <1>6
    <3>2. PICK s : s = [r EXCEPT !.data = TRUE]
      OBVIOUS
    <3>3. s.got = r.got /\ s.bitmap = r.bitmap /\ s.callback = r.callback /\ s.data
      BY <3>2
    <3>4. image'[x] = s /\ \A id \in Id : id # x => image'[id] = image[id]
      BY <1>1, <1>6, <2>2, <3>1, <3>2
    <3> QED
      BY <2>2, <3>1, <3>3, <3>4
  <2> QED
    BY <1>5, <2>1, <2>2
<1>10. /\ \A id \in Id : /\ widget'[id].alive = widget[id].alive
                         /\ widget'[id].loading = widget[id].loading
                         /\ widget'[id].bitmap = widget[id].bitmap
                         /\ widget'[id] = widget[id] \/ (id = x /\ widget[x].alive)
  <2>1. CASE UNCHANGED widget
    BY <2>1
  <2>2. CASE widget[x].alive /\ widget' = [widget EXCEPT ![x].skull = TRUE]
    <3>1. PICK r \in [alive : BOOLEAN, loading : BOOLEAN,
                      bitmap : BOOLEAN, skull : BOOLEAN] : r = widget[x]
      BY <1>1, <1>6
    <3>2. PICK s : s = [r EXCEPT !.skull = TRUE]
      OBVIOUS
    <3>3. s.alive = r.alive /\ s.loading = r.loading /\ s.bitmap = r.bitmap
      BY <3>2
    <3>4. widget'[x] = s /\ \A id \in Id : id # x => widget'[id] = widget[id]
      BY <1>1, <1>6, <2>2, <3>1, <3>2
    <3> QED
      BY <2>2, <3>1, <3>3, <3>4
  <2> QED
    BY <1>5, <2>1, <2>2
<1>11. ASSUME NEW id \in Id PROVE ImageIs(id)'
  <2>1. ImageIs(id) /\ ImageIs(x)
    BY <1>1, <1>6
  <2>2. /\ Fresh(id)' <=> Fresh(id)
        /\ Sent(id, "start")' <=> Sent(id, "start")
        /\ Sent(id, "widget")' <=> Sent(id, "widget")
        /\ \A m : Ahead(m)' <=> Ahead(m)
        /\ sent' = sent /\ lost' = lost
    BY <1>2, Elsewhere3
  <2>3. Known(id)' <=> Known(id)
    BY <1>2 DEF Known
  <2>4. /\ Does("append", id)' <=> Does("append", id)
        /\ Does("register", id)' <=> Does("register", id)
        /\ Does("free", id)' <=> Does("free", id)
        /\ Does("tell", id)' <=> Does("tell", id)
        /\ Does("drop", id)' <=> Does("drop", id)
        /\ Does("data", id)' <=> Does("data", id) /\ ~(todo[1][1] = "data" /\ id = x)
        /\ Does("skull", id)' => Does("skull", id)
    BY <1>4, <1>6, <1>7 DEF Allocating
  <2>5. FreshIs(id)'
    <3> SUFFICES ASSUME Fresh(id)' PROVE FreshIs(id)'
      BY DEF FreshIs
    <3>1. ~Does("append", id) /\ ~widget[id].alive
      BY <2>1, <2>2 DEF ImageIs, FreshIs, NoWidget
    <3>2. image'[id] = image[id] /\ widget'[id] = widget[id]
      BY <1>8, <1>9, <1>10, <3>1
    <3> QED
      BY <1>2, <2>1, <2>2, <2>3, <2>4, <3>2 DEF ImageIs, FreshIs, NewImage, NoWidget
  <2>6. MadeIs(id)'
    <3>1. Does("append", id) => ~widget[id].alive
      BY <2>1 DEF ImageIs, MadeIs, NoWidget
    <3>2. Does("append", id) => widget'[id] = widget[id]
      BY <1>10, <3>1
    <3>3. Does("data", id)' => image'[id] = image[id]
      BY <1>9, <2>4
    <3> QED
      BY <1>2, <1>9, <2>1, <2>3, <2>4, <3>2, <3>3 DEF ImageIs, MadeIs
  <2>7. FreeIs(id)'
    BY <1>2, <1>7, <1>10, <2>1, <2>3, <2>4 DEF ImageIs, FreeIs
  <2>8. ListIs(id)'
    <3>1. image'[id].data => image[id].data \/ Does("append", id)
      BY <1>8, <1>9
    <3>2. ~image'[id].data => ~image[id].data /\ (Does("data", id)' <=> Does("data", id))
      <4>1. CASE todo[1][1] = "data" /\ id = x
        BY <1>9, <4>1
      <4>2. CASE ~(todo[1][1] = "data" /\ id = x)
        BY <1>9, <2>4, <4>2
      <4> QED
        BY <4>1, <4>2
    <3>3. Known(id) /\ id \in freed => id \in unmade
      BY <1>6, <2>1 DEF ImageIs, ListIs, Allocating
    <3> QED
      BY <1>2, <1>9, <1>10, <2>1, <2>2, <2>3, <2>4, <3>1, <3>2, <3>3 DEF ImageIs, ListIs
  <2>9. BitmapIs(id)'
    BY <1>2, <1>9, <1>10, <2>1 DEF ImageIs, BitmapIs
  <2>10. WholeIs(id)'
    <3>1. image'[id].data => image[id].data \/ Does("append", id)
      BY <1>8, <1>9
    <3> QED
      BY <1>2, <1>9, <2>1, <2>2, <2>4, <3>1 DEF ImageIs, WholeIs
  <2>11. LoadingIs(id)'
    BY <1>2, <1>10, <2>1, <2>2, <2>4 DEF ImageIs, LoadingIs
  <2> QED
    BY <2>5, <2>6, <2>7, <2>8, <2>9, <2>10, <2>11 DEF ImageIs
<1>12. Distinct(list')
  BY <1>1, <1>2
<1> QED
  BY <1>7, <1>11, <1>12 DEF Sound

\* The widget that is told fetches its skull before the image is freed.
LEMMA SkullPushed ==
    ASSUME Going, NEW x \in Id, todo # <<>>, todo[1] = <<"tell", x>>,
           todo' = <<<<"skull", x>>>> \o Tail(todo), list' = list
    PROVE  /\ \A what, id : Does(what, id)' <=>
                               \/ Does(what, id) /\ <<what, id>> # todo[1]
                               \/ <<what, id>> = <<"skull", x>>
           /\ Distinct(todo') /\ DropFirstIs'
           /\ \A id : ~(todo' # <<>> /\ todo'[1] = <<"drop", id>>)
<1>1. /\ todo \in Seq(Step) /\ Calls /\ Distinct(todo) /\ DropFirstIs
  BY GoingFacts
<1>2. /\ Tail(todo) \in Seq(Step) /\ Len(todo) \in Nat \ {0}
      /\ DOMAIN todo = 1..Len(todo) /\ Len(Tail(todo)) = Len(todo) - 1
      /\ \A i \in DOMAIN Tail(todo) : /\ i + 1 \in DOMAIN todo
                                      /\ Tail(todo)[i] = todo[i + 1]
                                      /\ i \in Nat /\ i >= 1
      /\ \A i \in DOMAIN todo : i # 1 =>
            i - 1 \in DOMAIN Tail(todo) /\ Tail(todo)[i - 1] = todo[i]
  BY <1>1, Taken
<1>3. PICK s : s = <<<<"skull", x>>>>
  OBVIOUS
<1>4. s \in Seq(Step) /\ Len(s) = 1 /\ s[1] = <<"skull", x>> /\ DOMAIN s = {1}
  <2>1. <<"skull", x>> \in Step
    BY StepIn
  <2> QED
    BY <1>3, <2>1
<1>5. /\ ToSet(todo') = ToSet(s) \union ToSet(Tail(todo))
      /\ DOMAIN (s \o Tail(todo)) = 1..1 + (Len(todo) - 1)
  <2>1. ToSet(s \o Tail(todo)) = ToSet(s) \union ToSet(Tail(todo))
    BY <1>2, <1>4, Joined
  <2>2. DOMAIN (s \o Tail(todo)) = 1..Len(s) + Len(Tail(todo))
    BY <1>2, <1>4, Joined
  <2> QED
    BY <1>2, <1>3, <1>4, <2>1, <2>2
<1>6. ToSet(s) = {<<"skull", x>>}
  BY <1>4 DEF ToSet
<1>7. DOMAIN todo' = DOMAIN todo
  BY <1>2, <1>3, <1>5
<1>8. todo'[1] = <<"skull", x>> /\ \A i \in DOMAIN todo : i # 1 => todo'[i] = todo[i]
  <2> DEFINE c == s \o Tail(todo)
  <2>1. \A i \in DOMAIN s : i \in DOMAIN c /\ c[i] = s[i]
    BY <1>2, <1>4, Joined
  <2>2. \A i \in DOMAIN Tail(todo) : /\ i + Len(s) \in DOMAIN c
                                     /\ c[i + Len(s)] = Tail(todo)[i]
    BY <1>2, <1>4, Joined
  <2>3. ASSUME NEW i \in DOMAIN todo, i # 1 PROVE todo'[i] = todo[i]
    <3>1. i - 1 \in DOMAIN Tail(todo) /\ Tail(todo)[i - 1] = todo[i]
      BY <1>2, <2>3
    <3>2. (i - 1) + 1 = i
      BY <1>2
    <3> QED
      BY <1>3, <1>4, <2>2, <3>1, <3>2
  <2> QED
    BY <1>3, <1>4, <2>1, <2>3
<1>9. \A what, id : <<what, id>> \in ToSet(Tail(todo)) <=>
                       <<what, id>> \in ToSet(todo) /\ <<what, id>> # todo[1]
  <2>1. /\ ToSet(Tail(todo)) \subseteq ToSet(todo)
        /\ ToSet(todo) \subseteq ToSet(Tail(todo)) \union {Head(todo)}
        /\ Head(todo) \notin ToSet(Tail(todo)) /\ Head(todo) = todo[1]
    BY <1>1, Taken, TakenSet
  <2> QED
    BY <2>1
<1>10. \A what, id : Does(what, id)' <=>
                        \/ Does(what, id) /\ <<what, id>> # todo[1]
                        \/ <<what, id>> = <<"skull", x>>
  BY <1>5, <1>6, <1>9 DEF Does
<1>11. \A i \in DOMAIN todo : todo[i] # <<"skull", x>>
  <2> SUFFICES ASSUME NEW i \in DOMAIN todo, todo[i] = <<"skull", x>>
               PROVE  FALSE
    OBVIOUS
  <2>1. i + 1 \in DOMAIN todo /\ todo[i + 1] = <<"free", x>>
    BY <1>1, Behind DEF Follows, Ends, Calls
  <2>2. 1 \in DOMAIN todo /\ 1 + 1 \in DOMAIN todo /\ todo[1 + 1] = <<"free", x>>
    <3>1. PICK j \in DOMAIN todo : j = 1
      BY <1>2
    <3>2. todo[j][1] = "tell" /\ todo[j][2] = x
      BY <3>1
    <3>3. j + 1 \in DOMAIN todo /\ Follows(todo[j], todo[j + 1])
      BY <1>1, <3>2, Behind DEF Ends
    <3>4. todo[j + 1] = <<"free", x>>
      BY <3>2, <3>3 DEF Follows
    <3> QED
      BY <3>1, <3>3, <3>4
  <2>3. i + 1 = 1 + 1
    BY <1>1, <2>1, <2>2 DEF Distinct
  <2>4. i = 1
    BY <1>2, <2>3
  <2> QED
    BY <2>4
<1>12. Distinct(todo')
  <2>1. ASSUME NEW i \in DOMAIN todo', NEW j \in DOMAIN todo', todo'[i] = todo'[j]
        PROVE  i = j
    <3>1. CASE i # 1 /\ j # 1
      BY <1>1, <1>7, <1>8, <2>1, <3>1 DEF Distinct
    <3>2. CASE i = 1 /\ j # 1
      BY <1>7, <1>8, <1>11, <2>1, <3>2
    <3>3. CASE i # 1 /\ j = 1
      BY <1>7, <1>8, <1>11, <2>1, <3>3
    <3> QED
      BY <3>1, <3>2, <3>3
  <2> QED
    BY <2>1 DEF Distinct
<1>13. DropFirstIs'
  <2> SUFFICES ASSUME NEW i \in DOMAIN todo', todo'[i][1] = "drop_first"
               PROVE  /\ list' # <<>> /\ (i = 1 => Head(list') \in freed')
                      /\ i > 1 => todo'[i - 1] = <<"free", Head(list')>>
    BY DEF DropFirstIs
  <2>1. i # 1 /\ i \in DOMAIN todo /\ todo[i] = todo'[i]
    BY <1>7, <1>8
  <2>2. i > 1 /\ i - 1 \in DOMAIN todo
    BY <1>2, <2>1
  <2>3. list # <<>> /\ todo[i - 1] = <<"free", Head(list)>>
    BY <1>1, <2>1, <2>2 DEF DropFirstIs
  <2>4. i - 1 # 1
    BY <2>3
  <2> QED
    BY <1>8, <2>1, <2>2, <2>3, <2>4
<1> QED
  BY <1>8, <1>10, <1>12, <1>13

LEMMA TellSound ==
    ASSUME Going, Tell
    PROVE  Sound'
<1>1. /\ todo \in Seq(Step) /\ list \in Seq(Id) /\ Calls /\ fault = "none"
      /\ Distinct(todo) /\ Distinct(list) /\ DropFirstIs
      /\ \A id \in Id : ImageIs(id)
      /\ image \in [Id -> [got : SUBSET (1..Chunks), data : BOOLEAN,
                           bitmap : BOOLEAN, callback : BOOLEAN]]
      /\ widget \in [Id -> [alive : BOOLEAN, loading : BOOLEAN,
                            bitmap : BOOLEAN, skull : BOOLEAN]]
  BY GoingFacts
<1>2. /\ Running("tell") /\ todo # <<>> /\ fault' = "none"
      /\ UNCHANGED <<phone, channel, lost>>
      /\ UNCHANGED <<list, freed, image, unmade>>
  BY DEF Tell, Running, history, memory, Going, Orderly
<1>3. PICK x : x = Subject
  OBVIOUS
<1>4. /\ todo[1] = <<"tell", x>> /\ x \in Id /\ 1 \in DOMAIN todo
  <2>1. /\ todo[1] = <<todo[1][1], x>> /\ 1 \in DOMAIN todo
        /\ todo[1][1] # "drop_first" => x \in Id
        /\ \A what : Running(what) <=> fault = "none" /\ todo[1][1] = what
    BY <1>1, <1>2, <1>3, RunningStep
  <2> QED
    BY <1>2, <2>1
<1>5. /\ x \notin freed
      /\ \/ /\ image[x].callback
            /\ widget' = [widget EXCEPT ![x] = Bereaved(@)]
            /\ \/ todo' = Tail(todo)
               \/ todo' = <<<<"skull", x>>>> \o Tail(todo)
         \/ /\ ~image[x].callback
            /\ todo' = Tail(todo) /\ widget' = widget
  <2>1. fault' = "none" => fault' # "image_read_after_free"
    OBVIOUS
  <2> QED
    BY <1>2, <1>3, <2>1 DEF Tell
<1>6. /\ Does("tell", x) /\ Does("free", x)
  <2>1. Does("tell", x)
    BY <1>4 DEF Does, ToSet
  <2> QED
    BY <1>1, <2>1, Promises
<1>7. /\ Known(x) /\ ~Fresh(x) /\ (image[x].callback <=> widget[x].alive)
      /\ ~Does("append", x)
  <2>1. ImageIs(x)
    BY <1>1, <1>4
  <2> QED
    BY <1>6, <2>1 DEF ImageIs, FreeIs, FreshIs, ListIs, MadeIs
<1>8. /\ \A id \in Id : id # x => widget'[id] = widget[id]
      /\ widget'[x].alive = widget[x].alive
      /\ widget'[x].loading => widget[x].loading
      /\ ~widget'[x].bitmap
  <2>1. CASE widget' = [widget EXCEPT ![x] = Bereaved(@)]
    <3>1. PICK r \in [alive : BOOLEAN, loading : BOOLEAN,
                      bitmap : BOOLEAN, skull : BOOLEAN] : r = widget[x]
      BY <1>1, <1>4
    <3>2. PICK s : s = [r EXCEPT !.loading = FALSE, !.bitmap = FALSE]
      OBVIOUS
    <3>3. s.alive = r.alive /\ ~s.loading /\ ~s.bitmap
      BY <3>2
    <3>4. widget'[x] = s /\ \A id \in Id : id # x => widget'[id] = widget[id]
      BY <1>1, <1>4, <2>1, <3>1, <3>2 DEF Bereaved
    <3> QED
      BY <3>1, <3>3, <3>4
  <2>2. CASE ~image[x].callback /\ widget' = widget
    <3>1. ImageIs(x)
      BY <1>1, <1>4
    <3> QED
      BY <2>2, <3>1 DEF ImageIs, BitmapIs
  <2> QED
    BY <1>5, <2>1, <2>2
<1>9. /\ \A what, id : Does(what, id)' => \/ Does(what, id) /\ <<what, id>> # todo[1]
                                          \/ <<what, id>> = <<"skull", x>> /\ widget[x].alive
      /\ \A what, id : Does(what, id) /\ <<what, id>> # todo[1] => Does(what, id)'
      /\ Distinct(todo') /\ DropFirstIs'
      /\ \A id : ~(todo' # <<>> /\ todo'[1] = <<"drop", id>>)
  <2>1. CASE todo' = Tail(todo)
    BY <1>2, <1>4, <2>1, TailKeeps
  <2>2. CASE todo' = <<<<"skull", x>>>> \o Tail(todo) /\ image[x].callback
    BY <1>2, <1>4, <1>7, <2>2, SkullPushed
  <2> QED
    BY <1>5, <2>1, <2>2
<1>10. ASSUME NEW id \in Id PROVE ImageIs(id)'
  <2>1. ImageIs(id)
    BY <1>1
  <2>2. /\ Fresh(id)' <=> Fresh(id)
        /\ Sent(id, "start")' <=> Sent(id, "start")
        /\ Sent(id, "widget")' <=> Sent(id, "widget")
        /\ \A m : Ahead(m)' <=> Ahead(m)
        /\ sent' = sent /\ lost' = lost
    BY <1>2, Elsewhere3
  <2>3. Known(id)' <=> Known(id)
    BY <1>2 DEF Known
  <2>4. /\ Does("append", id)' <=> Does("append", id)
        /\ Does("register", id)' <=> Does("register", id)
        /\ Does("free", id)' <=> Does("free", id)
        /\ Does("tell", id)' <=> Does("tell", id) /\ id # x
        /\ Does("drop", id)' <=> Does("drop", id)
        /\ Does("data", id)' <=> Does("data", id)
        /\ Does("skull", id)' => Does("skull", id) \/ (id = x /\ widget[x].alive)
    BY <1>4, <1>9
  <2>5. FreshIs(id)'
    BY <1>2, <1>7, <1>8, <2>1, <2>2, <2>3, <2>4 DEF ImageIs, FreshIs, NewImage, NoWidget
  <2>6. MadeIs(id)'
    BY <1>2, <1>7, <1>8, <2>1, <2>3, <2>4 DEF ImageIs, MadeIs, NoWidget
  <2>7. FreeIs(id)'
    <3>1. id # x => widget'[id] = widget[id]
      BY <1>8
    <3> QED
      BY <1>2, <1>5, <1>8, <1>9, <2>1, <2>3, <2>4, <3>1 DEF ImageIs, FreeIs
  <2>8. ListIs(id)'
    <3>1. Known(id) /\ id \in freed => id \in unmade
      BY <1>4, <2>1 DEF ImageIs, ListIs
    <3>2. widget'[id].alive = widget[id].alive
      BY <1>8
    <3> QED
      BY <1>2, <2>1, <2>2, <2>3, <2>4, <3>1, <3>2 DEF ImageIs, ListIs
  <2>9. BitmapIs(id)'
    BY <1>2, <1>8, <2>1 DEF ImageIs, BitmapIs
  <2>10. WholeIs(id)'
    BY <1>2, <2>1, <2>2, <2>4 DEF ImageIs, WholeIs
  <2>11. LoadingIs(id)'
    <3>1. /\ widget'[id].alive = widget[id].alive
          /\ widget'[id].loading => widget[id].loading
      BY <1>8
    <3> QED
      BY <1>2, <2>1, <2>2, <2>4, <3>1 DEF ImageIs, LoadingIs
  <2> QED
    BY <2>5, <2>6, <2>7, <2>8, <2>9, <2>10, <2>11 DEF ImageIs
<1>11. Distinct(list')
  BY <1>1, <1>2
<1> QED
  BY <1>9, <1>10, <1>11 DEF Sound

LEMMA FreeSound ==
    ASSUME Going, Free
    PROVE  Sound'
<1>1. /\ todo \in Seq(Step) /\ list \in Seq(Id) /\ Calls /\ fault = "none"
      /\ Distinct(todo) /\ Distinct(list) /\ DropFirstIs
      /\ \A id \in Id : ImageIs(id)
      /\ image \in [Id -> [got : SUBSET (1..Chunks), data : BOOLEAN,
                           bitmap : BOOLEAN, callback : BOOLEAN]]
      /\ widget \in [Id -> [alive : BOOLEAN, loading : BOOLEAN,
                            bitmap : BOOLEAN, skull : BOOLEAN]]
  BY GoingFacts
<1>2. /\ Running("free") /\ todo # <<>> /\ fault' = "none"
      /\ UNCHANGED <<phone, channel, lost>>
      /\ UNCHANGED <<list, image, widget, unmade>>
  BY DEF Free, Beginning, Running, history, Going, Orderly
<1>3. PICK x : x = Subject
  OBVIOUS
<1>4. /\ todo[1] = <<"free", x>> /\ x \in Id /\ 1 \in DOMAIN todo
  <2>1. /\ todo[1] = <<todo[1][1], x>> /\ 1 \in DOMAIN todo
        /\ todo[1][1] # "drop_first" => x \in Id
        /\ \A what : Running(what) <=> fault = "none" /\ todo[1][1] = what
    BY <1>1, <1>2, <1>3, RunningStep
  <2> QED
    BY <1>2, <2>1
<1>5. x \notin freed /\ freed' = freed \union {x} /\ todo' = Tail(todo)
  <2>1. fault' # "image_freed_twice"
    BY <1>2
  <2> QED
    BY <1>3, <2>1 DEF Free, Beginning
<1>6. /\ \A what, id : Does(what, id)' <=> Does(what, id) /\ <<what, id>> # todo[1]
      /\ Distinct(todo')
      /\ \A i \in DOMAIN todo' : /\ i + 1 \in DOMAIN todo /\ i \in Nat /\ i >= 1
                                 /\ todo'[i] = todo[i + 1]
      /\ 2 \in DOMAIN todo => todo' # <<>> /\ todo'[1] = todo[2]
  BY <1>1, <1>2, <1>5, DoesTail
<1>7. /\ 2 \in DOMAIN todo
      /\ todo[2] = <<"drop", x>> \/ todo[2] = <<"drop_first", 0>>
  BY <1>1, <1>2, <1>3, <1>4, Pending
<1>8. todo' # <<>> /\ todo'[1] = todo[2]
  BY <1>6, <1>7
<1>9. todo[2] = <<"drop_first", 0>> => list # <<>> /\ x = Head(list)
  <2> SUFFICES ASSUME todo[2] = <<"drop_first", 0>> PROVE list # <<>> /\ x = Head(list)
    OBVIOUS
  <2>1. PICK j \in DOMAIN todo : j = 2
    BY <1>7
  <2>2. todo[j][1] = "drop_first" /\ j > 1 /\ j - 1 = 1
    BY <2>1
  <2>3. list # <<>> /\ todo[j - 1] = <<"free", Head(list)>>
    BY <1>1, <2>2 DEF DropFirstIs
  <2> QED
    BY <1>4, <2>2, <2>3
<1>10. todo[2] = <<"drop", x>> => x \in unmade
  <2>1. todo[2] = <<"drop", x>> => Does("drop", x)
    BY <1>7 DEF Does, ToSet
  <2>2. ImageIs(x)
    BY <1>1, <1>4
  <2> QED
    BY <2>1, <2>2 DEF ImageIs, FreeIs
<1>11. Known(x) /\ ~widget[x].bitmap /\ ~Fresh(x) /\ ~Does("append", x)
  <2>1. ImageIs(x) /\ Does("free", x)
    BY <1>1, <1>4 DEF Does, ToSet
  <2>2. ~Does("tell", x)
    BY <1>1, <1>4, Promises
  <2> QED
    BY <2>1, <2>2 DEF ImageIs, FreeIs, FreshIs, MadeIs
<1>12. DropFirstIs'
  <2> SUFFICES ASSUME NEW i \in DOMAIN todo', todo'[i][1] = "drop_first"
               PROVE  /\ list' # <<>> /\ (i = 1 => Head(list') \in freed')
                      /\ i > 1 => todo'[i - 1] = <<"free", Head(list')>>
    BY DEF DropFirstIs
  <2>1. /\ i \in Nat /\ i >= 1 /\ i + 1 \in DOMAIN todo /\ todo'[i] = todo[i + 1]
        /\ i + 1 > 1 /\ (i + 1) - 1 = i
    BY <1>6
  <2>2. list # <<>> /\ todo[i] = <<"free", Head(list)>>
    BY <1>1, <2>1 DEF DropFirstIs
  <2>3. i = 1 => Head(list) = x
    BY <1>4, <2>2
  <2>4. i > 1 => i - 1 \in DOMAIN todo'
    <3>1. todo' \in Seq(Step) /\ todo' # <<>>
      BY <1>1, <1>2, <1>5, <1>8, Taken
    <3>2. DOMAIN todo' = 1..Len(todo') /\ Len(todo') \in Nat
      BY <3>1, LenProperties
    <3> QED
      BY <2>1, <3>2
  <2>5. i > 1 => todo'[i - 1] = todo[(i - 1) + 1] /\ (i - 1) + 1 = i
    BY <1>6, <2>1, <2>4
  <2> QED
    BY <1>2, <1>5, <2>2, <2>3, <2>5
<1>13. ASSUME NEW id \in Id PROVE ImageIs(id)'
  <2>1. ImageIs(id)
    BY <1>1
  <2>2. /\ Fresh(id)' <=> Fresh(id)
        /\ Sent(id, "start")' <=> Sent(id, "start")
        /\ Sent(id, "widget")' <=> Sent(id, "widget")
        /\ \A m : Ahead(m)' <=> Ahead(m)
        /\ sent' = sent /\ lost' = lost
    BY <1>2, Elsewhere3
  <2>3. Known(id)' <=> Known(id)
    BY <1>2 DEF Known
  <2>4. /\ Does("append", id)' <=> Does("append", id)
        /\ Does("register", id)' <=> Does("register", id)
        /\ Does("free", id)' <=> Does("free", id) /\ id # x
        /\ Does("tell", id)' <=> Does("tell", id)
        /\ Does("drop", id)' <=> Does("drop", id)
        /\ Does("data", id)' <=> Does("data", id)
        /\ Does("skull", id)' <=> Does("skull", id)
    BY <1>4, <1>6
  <2>5. FreshIs(id)'
    BY <1>2, <1>5, <1>11, <2>1, <2>2, <2>3, <2>4 DEF ImageIs, FreshIs, NewImage, NoWidget
  <2>6. MadeIs(id)'
    BY <1>2, <1>5, <1>11, <2>1, <2>3, <2>4 DEF ImageIs, MadeIs, NoWidget
  <2>7. FreeIs(id)'
    <3>1. todo'[1] = <<"drop", id>> => id \in freed'
      BY <1>5, <1>7, <1>8
    <3> QED
      BY <1>2, <1>5, <2>1, <2>3, <2>4, <3>1 DEF ImageIs, FreeIs
  <2>8. ListIs(id)'
    <3>1. Known(id)' /\ id \in freed' =>
             \/ id \in unmade'
             \/ todo' # <<>> /\ todo'[1][1] = "drop_first" /\ id = Head(list')
      BY <1>2, <1>4, <1>5, <1>7, <1>8, <1>9, <1>10, <2>1, <2>3 DEF ImageIs, ListIs
    <3> QED
      BY <1>2, <1>5, <2>1, <2>2, <2>3, <2>4, <3>1 DEF ImageIs, ListIs
  <2>9. BitmapIs(id)'
    BY <1>2, <1>5, <1>11, <2>1 DEF ImageIs, BitmapIs
  <2>10. WholeIs(id)'
    BY <1>2, <1>5, <2>1, <2>2, <2>4 DEF ImageIs, WholeIs
  <2>11. LoadingIs(id)'
    BY <1>2, <1>5, <2>1, <2>2, <2>4 DEF ImageIs, LoadingIs
  <2> QED
    BY <2>5, <2>6, <2>7, <2>8, <2>9, <2>10, <2>11 DEF ImageIs
<1>14. Distinct(list')
  BY <1>1, <1>2
<1> QED
  BY <1>6, <1>12, <1>13, <1>14 DEF Sound

\* A call whose last step runs was the only one.
LEMMA LastStep ==
    ASSUME Going, todo # <<>>, todo[1][1] \in Ends, todo' = Tail(todo)
    PROVE  /\ todo' = <<>> /\ todo[1] = <<todo[1][1], Subject>> /\ Subject \in Id
           /\ \A what, id : ~Does(what, id)'
           /\ \A what, id : Does(what, id) <=> <<what, id>> = todo[1]
           /\ Distinct(todo') /\ DropFirstIs'
<1>1. todo \in Seq(Step) /\ Calls
  BY GoingFacts
<1>2. PICK x : x = Subject
  OBVIOUS
<1>3. ToSet(todo) = {todo[1]} /\ todo' = <<>>
  BY <1>1, <1>2, Pending
<1>4. /\ todo[1] = <<todo[1][1], Subject>>
      /\ todo[1][1] # "drop_first" => Subject \in Id
  BY <1>1, RunningStep
<1>5. \A what, id : ~Does(what, id)'
  BY <1>3, DoesNothing
<1>6. Distinct(todo') /\ DropFirstIs'
  BY <1>3 DEF Distinct, DropFirstIs
<1> QED
  BY <1>3, <1>4, <1>5, <1>6 DEF Does, Ends

LEMMA DropFirstSound ==
    ASSUME Going, ListStep, DropFirst
    PROVE  Sound'
<1>1. /\ todo \in Seq(Step) /\ list \in Seq(Id) /\ Calls /\ fault = "none"
      /\ Distinct(todo) /\ Distinct(list) /\ DropFirstIs
      /\ \A id \in Id : ImageIs(id)
      /\ image \in [Id -> [got : SUBSET (1..Chunks), data : BOOLEAN,
                           bitmap : BOOLEAN, callback : BOOLEAN]]
      /\ widget \in [Id -> [alive : BOOLEAN, loading : BOOLEAN,
                            bitmap : BOOLEAN, skull : BOOLEAN]]
  BY GoingFacts
<1>2. /\ Running("drop_first") /\ todo # <<>> /\ todo' = Tail(todo)
      /\ list' = IF list = <<>> THEN list ELSE Tail(list)
      /\ UNCHANGED <<phone, channel, lost>>
      /\ UNCHANGED <<freed, image, widget, unmade>>
  BY DEF ListStep, DropFirst, Beginning, Running, history
<1>3. PICK y : y = Subject
  OBVIOUS
<1>4. todo[1] = <<"drop_first", 0>> /\ 1 \in DOMAIN todo
  <2>1. /\ todo[1] \in Step /\ 1 \in DOMAIN todo
        /\ \A what : Running(what) <=> fault = "none" /\ todo[1][1] = what
    BY <1>1, <1>2, RunningStep
  <2> QED
    BY <1>2, <2>1, StepType
<1>5. list # <<>> /\ Head(list) \in freed
  BY <1>1, <1>4 DEF DropFirstIs
<1>6. PICK h : h = Head(list)
  OBVIOUS
<1>7. /\ Distinct(list') /\ h \in Id
      /\ \A id : Known(id)' <=> Known(id) /\ id # h
  <2>1. list' = Tail(list)
    BY <1>2, <1>5
  <2>2. /\ Head(list) \in ToSet(list) /\ Head(list) \in Id
        /\ ToSet(Tail(list)) \subseteq ToSet(list)
        /\ ToSet(list) \subseteq ToSet(Tail(list)) \union {Head(list)}
        /\ Distinct(Tail(list)) /\ Head(list) \notin ToSet(Tail(list))
    BY <1>1, <1>5, TakenSet
  <2> QED
    BY <1>6, <2>1, <2>2 DEF Known
<1>8. /\ \A what, id : Does(what, id)' <=> Does(what, id) /\ <<what, id>> # todo[1]
      /\ Distinct(todo')
      /\ \A i \in DOMAIN todo' : /\ i + 1 \in DOMAIN todo /\ i \in Nat /\ i >= 1
                                 /\ todo'[i] = todo[i + 1]
      /\ 2 \in DOMAIN todo => todo' # <<>> /\ todo'[1] = todo[2]
  BY <1>1, <1>2, DoesTail
<1>9. todo' # <<>> /\ todo'[1][1] \in Allocating
  <2>1. 2 \in DOMAIN todo /\ todo[2][1] \in Allocating
    BY <1>1, <1>2, <1>3, <1>4, Pending
  <2> QED
    BY <1>8, <2>1
<1>10. DropFirstIs'
  <2> SUFFICES ASSUME NEW i \in DOMAIN todo', todo'[i][1] = "drop_first"
               PROVE  FALSE
    BY DEF DropFirstIs
  <2>1. i + 1 \in DOMAIN todo /\ i \in Nat /\ i >= 1 /\ todo[i + 1][1] = "drop_first"
    BY <1>8
  <2>2. todo[i + 1] = <<"drop_first", 0>>
    <3>1. todo[i + 1] \in Step
      BY <1>1, <2>1, ElementOfSeq, LenProperties
    <3> QED
      BY <2>1, <3>1, StepType
  <2>3. i + 1 = 1
    BY <1>1, <1>4, <2>1, <2>2 DEF Distinct
  <2> QED
    BY <2>1, <2>3
<1>11. ASSUME NEW id \in Id PROVE ImageIs(id)'
  <2>1. ImageIs(id)
    BY <1>1
  <2>2. /\ Fresh(id)' <=> Fresh(id)
        /\ Sent(id, "start")' <=> Sent(id, "start")
        /\ Sent(id, "widget")' <=> Sent(id, "widget")
        /\ \A m : Ahead(m)' <=> Ahead(m)
        /\ sent' = sent /\ lost' = lost
    BY <1>2, Elsewhere3
  <2>3. /\ Known(id)' => Known(id) /\ id # h
        /\ Known(id) => Known(id)' \/ id = h
        /\ h \in freed
    BY <1>5, <1>6, <1>7
  <2>4. /\ Does("append", id)' <=> Does("append", id)
        /\ Does("register", id)' <=> Does("register", id)
        /\ Does("free", id)' <=> Does("free", id)
        /\ Does("tell", id)' <=> Does("tell", id)
        /\ Does("drop", id)' <=> Does("drop", id)
        /\ Does("data", id)' <=> Does("data", id)
        /\ Does("skull", id)' <=> Does("skull", id)
    BY <1>4, <1>8
  <2>5. FreshIs(id)'
    BY <1>2, <2>1, <2>2, <2>3, <2>4 DEF ImageIs, FreshIs
  <2>6. MadeIs(id)'
    BY <1>2, <2>1, <2>3, <2>4 DEF ImageIs, MadeIs
  <2>7. FreeIs(id)'
    <3>1. ~Does("tell", id)
      BY <1>1, <1>4, Promises
    <3>2. todo'[1] # <<"drop", id>>
      BY <1>9 DEF Allocating
    <3> QED
      BY <1>2, <2>1, <2>3, <2>4, <3>1, <3>2 DEF ImageIs, FreeIs
  <2>8. ListIs(id)'
    BY <1>2, <1>6, <2>1, <2>2, <2>3, <2>4 DEF ImageIs, ListIs
  <2>9. BitmapIs(id)'
    BY <1>2, <2>1 DEF ImageIs, BitmapIs
  <2>10. WholeIs(id)'
    BY <1>2, <2>1, <2>2, <2>4 DEF ImageIs, WholeIs
  <2>11. LoadingIs(id)'
    BY <1>2, <2>1, <2>2, <2>4 DEF ImageIs, LoadingIs
  <2> QED
    BY <2>5, <2>6, <2>7, <2>8, <2>9, <2>10, <2>11 DEF ImageIs
<1> QED
  BY <1>7, <1>8, <1>10, <1>11 DEF Sound

LEMMA DropByIdSound ==
    ASSUME Going, ListStep, DropById
    PROVE  Sound'
<1>1. /\ todo \in Seq(Step) /\ list \in Seq(Id) /\ Calls /\ fault = "none"
      /\ Distinct(todo) /\ Distinct(list) /\ DropFirstIs
      /\ \A id \in Id : ImageIs(id)
      /\ image \in [Id -> [got : SUBSET (1..Chunks), data : BOOLEAN,
                           bitmap : BOOLEAN, callback : BOOLEAN]]
      /\ widget \in [Id -> [alive : BOOLEAN, loading : BOOLEAN,
                            bitmap : BOOLEAN, skull : BOOLEAN]]
  BY GoingFacts
<1>2. /\ Running("drop") /\ todo # <<>> /\ todo' = Tail(todo)
      /\ Without({Subject}) \/ UNCHANGED list
      /\ UNCHANGED <<phone, channel, lost>>
      /\ UNCHANGED <<freed, image, widget, unmade>>
  BY DEF ListStep, DropById, Beginning, Running, history
<1>3. PICK x : x = Subject
  OBVIOUS
<1>4. todo[1][1] = "drop"
  BY <1>1, <1>2, RunningStep
<1>5. /\ todo' = <<>> /\ todo[1] = <<"drop", x>> /\ x \in Id
      /\ \A what, id : ~Does(what, id)'
      /\ \A what, id : Does(what, id) <=> <<what, id>> = todo[1]
      /\ Distinct(todo') /\ DropFirstIs'
  BY <1>2, <1>3, <1>4, LastStep DEF Ends
<1>6. /\ Distinct(list')
      /\ \A id : Known(id)' => Known(id)
      /\ \A id : Known(id) => Known(id)' \/ id = x
  <2>1. CASE UNCHANGED list
    BY <1>1, <2>1 DEF Known
  <2>2. CASE Without({x})
    <3>1. /\ ToSet(list') = {id \in ToSet(list) : id \notin {x}}
          /\ Distinct(list) => Distinct(list')
      BY <1>1, <2>2, WithoutStep
    <3> QED
      BY <1>1, <3>1 DEF Known
  <2> QED
    BY <1>2, <1>3, <2>1, <2>2
<1>7. x \in freed
  <2>1. ImageIs(x)
    BY <1>1, <1>5
  <2> QED
    BY <1>2, <1>5, <2>1 DEF ImageIs, FreeIs
<1>8. ASSUME NEW id \in Id PROVE ImageIs(id)'
  <2>1. ImageIs(id)
    BY <1>1
  <2>2. /\ Fresh(id)' <=> Fresh(id)
        /\ Sent(id, "start")' <=> Sent(id, "start")
        /\ Sent(id, "widget")' <=> Sent(id, "widget")
        /\ \A m : Ahead(m)' <=> Ahead(m)
        /\ sent' = sent /\ lost' = lost
    BY <1>2, Elsewhere3
  <2>3. Known(id)' => Known(id)
    BY <1>6
  <2>4. Known(id) => Known(id)' \/ id \in freed
    BY <1>6, <1>7
  <2>5. ~Does("append", id)
    BY <1>5
  <2>6. FreshIs(id)'
    BY <1>2, <1>5, <2>1, <2>2, <2>3 DEF ImageIs, FreshIs
  <2>7. MadeIs(id)' /\ FreeIs(id)'
    BY <1>5 DEF MadeIs, FreeIs
  <2>8. ListIs(id)'
    BY <1>2, <1>4, <1>5, <2>1, <2>2, <2>3, <2>4, <2>5 DEF ImageIs, ListIs
  <2>9. BitmapIs(id)'
    BY <1>2, <2>1 DEF ImageIs, BitmapIs
  <2>10. WholeIs(id)'
    BY <1>2, <1>5, <2>1, <2>2 DEF ImageIs, WholeIs
  <2>11. LoadingIs(id)'
    BY <1>2, <1>5, <2>1, <2>2 DEF ImageIs, LoadingIs
  <2> QED
    BY <2>6, <2>7, <2>8, <2>9, <2>10, <2>11 DEF ImageIs
<1> QED
  BY <1>5, <1>6, <1>8 DEF Sound

LEMMA AddToListSound ==
    ASSUME Going, ListStep, AddToList
    PROVE  Sound'
<1>1. /\ todo \in Seq(Step) /\ list \in Seq(Id) /\ Calls /\ fault = "none"
      /\ Distinct(todo) /\ Distinct(list) /\ DropFirstIs
      /\ \A id \in Id : ImageIs(id)
      /\ image \in [Id -> [got : SUBSET (1..Chunks), data : BOOLEAN,
                           bitmap : BOOLEAN, callback : BOOLEAN]]
      /\ widget \in [Id -> [alive : BOOLEAN, loading : BOOLEAN,
                            bitmap : BOOLEAN, skull : BOOLEAN]]
  BY GoingFacts
<1>2. /\ Running("append") /\ todo # <<>> /\ todo' = Tail(todo)
      /\ list' = Append(list, Subject)
      /\ UNCHANGED <<phone, channel, lost>>
      /\ UNCHANGED <<freed, image, widget, unmade>>
  BY DEF ListStep, AddToList, Beginning, Running, history
<1>3. PICK x : x = Subject
  OBVIOUS
<1>4. todo[1][1] = "append"
  BY <1>1, <1>2, RunningStep
<1>5. /\ todo' = <<>> /\ todo[1] = <<"append", x>> /\ x \in Id
      /\ \A what, id : ~Does(what, id)'
      /\ \A what, id : Does(what, id) <=> <<what, id>> = todo[1]
      /\ Distinct(todo') /\ DropFirstIs'
  BY <1>2, <1>3, <1>4, LastStep DEF Ends
<1>6. /\ Does("append", x) /\ ~Does("data", x)
      /\ ~Known(x) /\ x \notin freed /\ ~widget[x].alive /\ ~image[x].callback /\ ~Fresh(x)
  <2>1. ImageIs(x) /\ Does("append", x) /\ ~Does("data", x)
    BY <1>1, <1>5
  <2> QED
    BY <2>1 DEF ImageIs, MadeIs, FreshIs, NoWidget
<1>7. /\ Distinct(list')
      /\ \A id : Known(id)' <=> Known(id) \/ id = x
  <2>1. /\ ToSet(list') = ToSet(list) \union {x}
        /\ Distinct(list) /\ x \notin ToSet(list) => Distinct(list')
    BY <1>1, <1>2, <1>3, <1>5, AddedSet
  <2> QED
    BY <1>1, <1>6, <2>1 DEF Known
<1>8. ASSUME NEW id \in Id PROVE ImageIs(id)'
  <2>1. ImageIs(id)
    BY <1>1
  <2>2. /\ Fresh(id)' <=> Fresh(id)
        /\ Sent(id, "start")' <=> Sent(id, "start")
        /\ Sent(id, "widget")' <=> Sent(id, "widget")
        /\ \A m : Ahead(m)' <=> Ahead(m)
        /\ sent' = sent /\ lost' = lost
    BY <1>2, Elsewhere3
  <2>3. Known(id)' <=> Known(id) \/ id = x
    BY <1>7
  <2>4. Does("append", id) => id = x
    BY <1>5
  <2>5. FreshIs(id)'
    BY <1>2, <1>5, <1>6, <2>1, <2>2, <2>3 DEF ImageIs, FreshIs
  <2>6. MadeIs(id)' /\ FreeIs(id)'
    BY <1>5 DEF MadeIs, FreeIs
  <2>7. ListIs(id)'
    <3>1. todo[1][1] # "drop_first"
      BY <1>4
    <3>2. CASE id = x
      BY <1>2, <1>5, <1>6, <2>1, <2>3, <3>2 DEF ImageIs, ListIs
    <3>3. CASE id # x
      BY <1>2, <1>5, <2>1, <2>2, <2>3, <2>4, <3>1, <3>3 DEF ImageIs, ListIs
    <3> QED
      BY <3>2, <3>3
  <2>8. BitmapIs(id)'
    BY <1>2, <2>1 DEF ImageIs, BitmapIs
  <2>9. WholeIs(id)'
    BY <1>2, <1>5, <2>1, <2>2 DEF ImageIs, WholeIs
  <2>10. LoadingIs(id)'
    BY <1>2, <1>5, <2>1, <2>2 DEF ImageIs, LoadingIs
  <2> QED
    BY <2>5, <2>6, <2>7, <2>8, <2>9, <2>10 DEF ImageIs
<1> QED
  BY <1>5, <1>7, <1>8 DEF Sound

LEMMA RegisterSound ==
    ASSUME Going, Register
    PROVE  Sound'
<1>1. /\ todo \in Seq(Step) /\ list \in Seq(Id) /\ Calls /\ fault = "none"
      /\ Distinct(todo) /\ Distinct(list) /\ DropFirstIs
      /\ \A id \in Id : ImageIs(id)
      /\ image \in [Id -> [got : SUBSET (1..Chunks), data : BOOLEAN,
                           bitmap : BOOLEAN, callback : BOOLEAN]]
      /\ widget \in [Id -> [alive : BOOLEAN, loading : BOOLEAN,
                            bitmap : BOOLEAN, skull : BOOLEAN]]
  BY GoingFacts
<1>2. /\ Running("register") /\ todo # <<>> /\ todo' = Tail(todo)
      /\ widget' = [widget EXCEPT ![Subject] =
                       [NoWidget EXCEPT !.alive = TRUE, !.loading = TRUE]]
      /\ image' = [image EXCEPT ![Subject].callback = Known(Subject)]
      /\ UNCHANGED <<phone, channel, lost>>
      /\ UNCHANGED <<list, freed, unmade>>
  BY DEF Register, Beginning, Running, history, Going, Orderly
<1>3. PICK x : x = Subject
  OBVIOUS
<1>4. todo[1][1] = "register"
  BY <1>1, <1>2, RunningStep
<1>5. /\ todo' = <<>> /\ todo[1] = <<"register", x>> /\ x \in Id
      /\ \A what, id : ~Does(what, id)'
      /\ \A what, id : Does(what, id) <=> <<what, id>> = todo[1]
      /\ Distinct(todo') /\ DropFirstIs'
  BY <1>2, <1>3, <1>4, LastStep DEF Ends
<1>6. Does("register", x) /\ ~Fresh(x) /\ Ahead(<<"complete", x, 0>>)
  <2>1. ImageIs(x) /\ Does("register", x)
    BY <1>1, <1>5
  <2> QED
    BY <2>1 DEF ImageIs, FreshIs, LoadingIs
<1>7. /\ \A id \in Id : id # x => image'[id] = image[id]
      /\ \A id \in Id : /\ image'[id].got = image[id].got
                        /\ image'[id].data = image[id].data
                        /\ image'[id].bitmap = image[id].bitmap
      /\ image'[x].callback <=> Known(x)
  <2>1. PICK k : k = Known(x)
    OBVIOUS
  <2>2. PICK r \in [got : SUBSET (1..Chunks), data : BOOLEAN,
                    bitmap : BOOLEAN, callback : BOOLEAN] : r = image[x]
    BY <1>1, <1>5
  <2>3. PICK s : s = [r EXCEPT !.callback = k]
    OBVIOUS
  <2>4. s.got = r.got /\ s.data = r.data /\ s.bitmap = r.bitmap /\ s.callback = k
    BY <2>3
  <2>5. image'[x] = s /\ \A id \in Id : id # x => image'[id] = image[id]
    BY <1>1, <1>2, <1>3, <1>5, <2>1, <2>2, <2>3
  <2> QED
    BY <2>1, <2>2, <2>4, <2>5
<1>8. /\ \A id \in Id : id # x => widget'[id] = widget[id]
      /\ widget'[x].alive /\ ~widget'[x].bitmap
  <2>1. PICK s : s = [NoWidget EXCEPT !.alive = TRUE, !.loading = TRUE]
    OBVIOUS
  <2>2. s.alive /\ ~s.bitmap
    BY <2>1 DEF NoWidget
  <2>3. widget'[x] = s /\ \A id \in Id : id # x => widget'[id] = widget[id]
    BY <1>1, <1>2, <1>3, <1>5, <2>1
  <2> QED
    BY <2>2, <2>3
<1>9. ASSUME NEW id \in Id PROVE ImageIs(id)'
  <2>1. ImageIs(id)
    BY <1>1
  <2>2. /\ Fresh(id)' <=> Fresh(id)
        /\ Sent(id, "start")' <=> Sent(id, "start")
        /\ Sent(id, "widget")' <=> Sent(id, "widget")
        /\ \A m : Ahead(m)' <=> Ahead(m)
        /\ sent' = sent /\ lost' = lost
    BY <1>2, Elsewhere3
  <2>3. Known(id)' <=> Known(id)
    BY <1>2 DEF Known
  <2>4. ~Does("append", id)
    BY <1>5
  <2>5. FreshIs(id)'
    BY <1>2, <1>5, <1>6, <1>7, <1>8, <2>1, <2>2, <2>3 DEF ImageIs, FreshIs, NewImage, NoWidget
  <2>6. MadeIs(id)' /\ FreeIs(id)'
    BY <1>5 DEF MadeIs, FreeIs
  <2>7. ListIs(id)'
    <3>1. todo[1][1] # "drop_first"
      BY <1>4
    <3>2. Known(id)' => (image'[id].callback <=> widget'[id].alive)
      <4>1. CASE id = x
        BY <1>7, <1>8, <2>3, <4>1
      <4>2. CASE id # x
        BY <1>7, <1>8, <2>1, <2>3, <4>2 DEF ImageIs, ListIs
      <4> QED
        BY <4>1, <4>2
    <3> QED
      BY <1>2, <1>5, <1>7, <2>1, <2>2, <2>3, <2>4, <3>1, <3>2 DEF ImageIs, ListIs
  <2>8. BitmapIs(id)'
    BY <1>2, <1>7, <1>8, <2>1 DEF ImageIs, BitmapIs
  <2>9. WholeIs(id)'
    BY <1>2, <1>5, <1>7, <2>1, <2>2 DEF ImageIs, WholeIs
  <2>10. LoadingIs(id)'
    <3>1. CASE id = x
      BY <1>5, <1>6, <2>2, <3>1 DEF LoadingIs
    <3>2. CASE id # x
      BY <1>2, <1>5, <1>8, <2>1, <2>2, <3>2 DEF ImageIs, LoadingIs
    <3> QED
      BY <3>1, <3>2
  <2> QED
    BY <2>5, <2>6, <2>7, <2>8, <2>9, <2>10 DEF ImageIs
<1>10. Distinct(list')
  BY <1>1, <1>2
<1> QED
  BY <1>5, <1>9, <1>10 DEF Sound

LEMMA OpenWindowSound ==
    ASSUME Going, OpenWindow \/ UNCHANGED vars
    PROVE  Sound'
<1>1. /\ todo \in Seq(Step) /\ list \in Seq(Id) /\ Calls /\ fault = "none"
      /\ Distinct(todo) /\ Distinct(list) /\ DropFirstIs
      /\ \A id \in Id : ImageIs(id)
      /\ image \in [Id -> [got : SUBSET (1..Chunks), data : BOOLEAN,
                           bitmap : BOOLEAN, callback : BOOLEAN]]
      /\ widget \in [Id -> [alive : BOOLEAN, loading : BOOLEAN,
                            bitmap : BOOLEAN, skull : BOOLEAN]]
  BY GoingFacts
<1>2. /\ UNCHANGED <<list, image, freed, widget, todo, unmade>>
      /\ UNCHANGED <<phone, channel, lost>>
  BY DEF OpenWindow, vars, memory, history
<1>3. /\ \A id : Known(id)' <=> Known(id)
      /\ \A what, id : Does(what, id)' <=> Does(what, id)
  BY <1>2 DEF Known, Does
<1>4. Distinct(todo') /\ Distinct(list') /\ DropFirstIs'
  BY <1>1, <1>2 DEF DropFirstIs
<1>5. ASSUME NEW id \in Id PROVE ImageIs(id)'
  <2>1. ImageIs(id)
    BY <1>1
  <2>2. /\ Fresh(id)' <=> Fresh(id)
        /\ Sent(id, "start")' <=> Sent(id, "start")
        /\ Sent(id, "widget")' <=> Sent(id, "widget")
        /\ \A m : Ahead(m)' <=> Ahead(m)
        /\ sent' = sent /\ lost' = lost
    BY <1>2, Elsewhere3
  <2>3. FreshIs(id)'
    BY <1>2, <1>3, <2>1, <2>2 DEF ImageIs, FreshIs, NewImage, NoWidget
  <2>4. MadeIs(id)'
    BY <1>2, <1>3, <2>1 DEF ImageIs, MadeIs, NoWidget
  <2>5. FreeIs(id)'
    BY <1>2, <1>3, <2>1 DEF ImageIs, FreeIs
  <2>6. ListIs(id)'
    BY <1>2, <1>3, <2>1, <2>2 DEF ImageIs, ListIs
  <2>7. BitmapIs(id)'
    BY <1>2, <2>1 DEF ImageIs, BitmapIs
  <2>8. WholeIs(id)'
    BY <1>2, <1>3, <2>1, <2>2 DEF ImageIs, WholeIs
  <2>9. LoadingIs(id)'
    BY <1>2, <1>3, <2>1, <2>2 DEF ImageIs, LoadingIs
  <2> QED
    BY <2>3, <2>4, <2>5, <2>6, <2>7, <2>8, <2>9 DEF ImageIs
<1> QED
  BY <1>4, <1>5 DEF Sound

LEMMA CloseWindowSound ==
    ASSUME Going, CloseWindow
    PROVE  Sound'
<1>1. /\ todo \in Seq(Step) /\ list \in Seq(Id) /\ Calls /\ fault = "none"
      /\ Distinct(todo) /\ Distinct(list) /\ DropFirstIs
      /\ \A id \in Id : ImageIs(id)
      /\ image \in [Id -> [got : SUBSET (1..Chunks), data : BOOLEAN,
                           bitmap : BOOLEAN, callback : BOOLEAN]]
      /\ widget \in [Id -> [alive : BOOLEAN, loading : BOOLEAN,
                            bitmap : BOOLEAN, skull : BOOLEAN]]
  BY GoingFacts
<1>2. /\ todo = <<>> /\ todo' = <<>> /\ WidgetsGo(Shown)
      /\ UNCHANGED <<phone, channel, lost>> /\ UNCHANGED unmade
  BY DEF CloseWindow, Idle, history, Going, Orderly
<1>3. \A what, id : ~Does(what, id) /\ ~Does(what, id)'
  BY <1>2, DoesNothing
<1>4. PICK ids : ids = Shown
  OBVIOUS
<1>5. /\ Distinct(list')
      /\ \A id \in Id :
            /\ Known(id)' <=> Known(id) /\ id \notin ids
            /\ id \in freed' <=> id \in freed \/ (id \in ids /\ Known(id))
            /\ id \in ids => widget'[id] = NoWidget
            /\ id \notin ids => widget'[id] = widget[id]
            /\ ~(id \in ids /\ Known(id)) => image'[id] = image[id]
            /\ image'[id].got = image[id].got
            /\ image'[id].data = image[id].data
            /\ image'[id].bitmap = image[id].bitmap
  BY <1>1, <1>2, <1>4, WidgetsGone DEF Going
<1>6. \A id \in Id : id \in ids <=> widget[id].alive
  BY <1>4 DEF Shown
<1>7. Distinct(todo') /\ DropFirstIs'
  BY <1>2 DEF Distinct, DropFirstIs
<1>8. ASSUME NEW id \in Id PROVE ImageIs(id)'
  <2>1. ImageIs(id)
    BY <1>1
  <2>2. /\ Fresh(id)' <=> Fresh(id)
        /\ Sent(id, "start")' <=> Sent(id, "start")
        /\ Sent(id, "widget")' <=> Sent(id, "widget")
        /\ \A m : Ahead(m)' <=> Ahead(m)
        /\ sent' = sent /\ lost' = lost
    BY <1>2, Elsewhere3
  <2>3. /\ Known(id)' <=> Known(id) /\ id \notin ids
        /\ id \in freed' <=> id \in freed \/ (id \in ids /\ Known(id))
        /\ id \in ids => widget'[id] = NoWidget
        /\ id \notin ids => widget'[id] = widget[id]
        /\ ~(id \in ids /\ Known(id)) => image'[id] = image[id]
        /\ image'[id].got = image[id].got
        /\ image'[id].data = image[id].data
        /\ image'[id].bitmap = image[id].bitmap
        /\ id \in ids <=> widget[id].alive
    BY <1>5, <1>6
  <2>4. FreshIs(id)'
    BY <1>2, <1>3, <2>1, <2>2, <2>3 DEF ImageIs, FreshIs, NewImage, NoWidget
  <2>5. MadeIs(id)' /\ FreeIs(id)'
    BY <1>2, <1>3 DEF MadeIs, FreeIs
  <2>6. ListIs(id)'
    BY <1>2, <1>3, <2>1, <2>2, <2>3 DEF ImageIs, ListIs
  <2>7. BitmapIs(id)'
    BY <2>1, <2>3 DEF ImageIs, BitmapIs, NoWidget
  <2>8. WholeIs(id)'
    BY <1>2, <1>3, <2>1, <2>2, <2>3 DEF ImageIs, WholeIs
  <2>9. LoadingIs(id)'
    BY <1>2, <1>3, <2>1, <2>2, <2>3 DEF ImageIs, LoadingIs, NoWidget
  <2> QED
    BY <2>4, <2>5, <2>6, <2>7, <2>8, <2>9 DEF ImageIs
<1> QED
  BY <1>5, <1>7, <1>8 DEF Sound

\* What a message finds, and what is still to come when it has been received.
LEMMA ReceiveFacts ==
    ASSUME Going, Receive, NEW m, m = Head(channel), NEW x, x = m[2]
    PROVE  /\ m \in Message /\ x \in Id /\ todo = <<>> /\ ~Dangling(m)
           /\ UNCHANGED <<list, freed, sent, timers, lost>>
           /\ \A what, id : ~Does(what, id)
           /\ \A id, what : Sent(id, what)' => Sent(id, what)
           /\ \A id, what : Sent(id, what) => Sent(id, what)' \/ m = <<what, id, 0>>
           /\ \A id : Fresh(id)' => Fresh(id)
           /\ \A a : Ahead(a) => Ahead(a)' \/ a = m
           /\ m[1] = "start" <=> Fresh(x)
           /\ m[1] = "start" => Sent(x, "start")
           /\ ~Fresh(x)' /\ ~Sent(x, "start")'
           /\ m[1] # "start" => ~Sent(x, "widget")' /\ ~Sent(x, "start")
           /\ m[1] = "widget" => Sent(x, "widget")
<1>1. /\ Idle /\ channel # <<>> /\ m \in Message /\ channel' = Tail(channel)
      /\ Dangling(m) => fault' = "image_read_after_free"
      /\ UNCHANGED <<phone, list, freed, lost>>
  BY Zenon, ReceiveIs DEF Going
<1>2. todo = <<>> /\ ~Dangling(m)
  BY <1>1 DEF Idle, Going, Orderly
<1>3. /\ x \in Id /\ x \in Nat /\ sent \in Nat
      /\ m = <<m[1], m[2], m[3]>> /\ m[1] \in {"start", "widget", "chunk", "complete"}
      /\ m[1] = "chunk" => m[3] \in 1..Chunks
      /\ m[1] # "chunk" => m[3] = 0
  BY <1>1, MessageType DEF Going, TypeOK, Id
<1>4. \A what, id : ~Does(what, id)
  BY <1>2, DoesNothing
<1>5. UNCHANGED <<list, freed, sent, timers, lost>>
  BY <1>1 DEF phone
<1>6. /\ m \in ToSet(channel)
      /\ ToSet(channel') \subseteq ToSet(channel)
      /\ ToSet(channel) \subseteq ToSet(channel') \union {m}
      /\ \A b \in ToSet(channel') : b[2] = x => Rank(m) < Rank(b)
  <2>1. channel \in Seq(Message) /\ Ordered(channel)
    BY DEF Going, TypeOK, ChannelOK
  <2> QED
    BY <1>1, <2>1, HeadFirst
<1>7. /\ \A id, what : Sent(id, what)' => Sent(id, what)
      /\ \A id, what : Sent(id, what) => Sent(id, what)' \/ m = <<what, id, 0>>
  BY <1>6 DEF Sent
<1>8. \A id : Fresh(id)' => Fresh(id)
  BY <1>5, <1>7 DEF Fresh
<1>9. \A a : Ahead(a) => Ahead(a)' \/ a = m
  BY <1>5, <1>6 DEF Ahead
<1>10. x <= sent
  BY <1>6 DEF Going, ChannelOK
<1>11. /\ Rank(m) \in Nat
       /\ m[1] = "start" => Rank(m) = 0
       /\ m[1] = "widget" => Rank(m) = 1
       /\ m[1] = "chunk" => Rank(m) = m[3] + 1
       /\ m[1] = "complete" => Rank(m) = Chunks + 2
  BY <1>1, RankType
<1>12. ~Sent(x, "start")'
  <2> SUFFICES ASSUME Sent(x, "start")' PROVE FALSE
    OBVIOUS
  <2>1. PICK b : b = <<"start", x, 0>>
    OBVIOUS
  <2>2. b \in ToSet(channel') /\ b[1] = "start" /\ b[2] = x /\ b \in Message
    BY <1>3, <2>1, MessageIn DEF Sent
  <2>3. Rank(b) = 0
    BY <2>2, RankType
  <2> QED
    BY <1>6, <1>11, <2>2, <2>3
<1>13. m[1] # "start" => ~Sent(x, "widget")'
  <2> SUFFICES ASSUME m[1] # "start", Sent(x, "widget")' PROVE FALSE
    OBVIOUS
  <2>1. PICK b : b = <<"widget", x, 0>>
    OBVIOUS
  <2>2. b \in ToSet(channel') /\ b[1] = "widget" /\ b[2] = x /\ b \in Message
    BY <1>3, <2>1, MessageIn DEF Sent
  <2>3. Rank(b) = 1
    BY <2>2, RankType
  <2>4. Rank(m) >= 1
    BY <1>3, <1>11, ImageAssumption
  <2> QED
    BY <1>6, <1>11, <2>2, <2>3, <2>4
<1>14. m[1] # "start" => ~Sent(x, "start")
  BY <1>7, <1>12
<1>15. m[1] = "start" => Sent(x, "start")
  BY <1>3, <1>6 DEF Sent
<1>16. m[1] = "widget" => Sent(x, "widget")
  BY <1>3, <1>6 DEF Sent
<1>17. ~(x > sent)
  BY <1>3, <1>10
<1>18. (m[1] = "start" <=> Fresh(x)) /\ ~Fresh(x)'
  BY <1>5, <1>12, <1>14, <1>15, <1>17 DEF Fresh
<1> QED
  BY <1>1, <1>2, <1>3, <1>4, <1>5, <1>7, <1>8, <1>9, <1>12, <1>13, <1>14, <1>15,
     <1>16, <1>18

LEMMA StartSound ==
    ASSUME Going, Receive, Head(channel)[1] = "start", StartReceived(Head(channel)[2])
    PROVE  Sound'
<1>1. /\ todo \in Seq(Step) /\ list \in Seq(Id) /\ Calls /\ fault = "none"
      /\ Distinct(todo) /\ Distinct(list) /\ DropFirstIs
      /\ \A id \in Id : ImageIs(id)
      /\ image \in [Id -> [got : SUBSET (1..Chunks), data : BOOLEAN,
                           bitmap : BOOLEAN, callback : BOOLEAN]]
      /\ widget \in [Id -> [alive : BOOLEAN, loading : BOOLEAN,
                            bitmap : BOOLEAN, skull : BOOLEAN]]
  BY GoingFacts
<1>2. PICK m : m = Head(channel)
  OBVIOUS
<1>3. PICK x : x = m[2]
  OBVIOUS
<1>4. /\ m \in Message /\ x \in Id /\ todo = <<>> /\ ~Dangling(m)
      /\ UNCHANGED <<list, freed, sent, timers, lost>>
      /\ \A what, id : ~Does(what, id)
      /\ \A id, what : Sent(id, what)' => Sent(id, what)
      /\ \A id, what : Sent(id, what) => Sent(id, what)' \/ m = <<what, id, 0>>
      /\ \A id : Fresh(id)' => Fresh(id)
      /\ \A a : Ahead(a) => Ahead(a)' \/ a = m
      /\ m[1] = "start" <=> Fresh(x)
      /\ m[1] = "start" => Sent(x, "start")
      /\ ~Fresh(x)' /\ ~Sent(x, "start")'
      /\ m[1] # "start" => ~Sent(x, "widget")' /\ ~Sent(x, "start")
      /\ m[1] = "widget" => Sent(x, "widget")
  BY <1>2, <1>3, ReceiveFacts
<1>5. \A id : Known(id)' <=> Known(id)
  BY <1>4 DEF Known
<1>6. m[1] = "start" /\ StartReceived(x)
  BY <1>2, <1>3
<1>7. /\ todo' = <<<<"record", x>>, <<"data", x>>, <<"append", x>>>>
      /\ UNCHANGED <<image, widget, unmade>>
  BY <1>6 DEF StartReceived
<1>8. /\ \A what, id : Does(what, id)' <=> id = x /\ what \in {"record", "data", "append"}
      /\ Distinct(todo') /\ DropFirstIs'
      /\ todo' # <<>> /\ todo'[1] = <<"record", x>>
  <2>1. PICK a, b, c : a = <<"record", x>> /\ b = <<"data", x>> /\ c = <<"append", x>>
    OBVIOUS
  <2>2. /\ todo' = <<a, b, c>> /\ a # b /\ a # c /\ b # c
        /\ a[1] # "drop_first" /\ b[1] # "drop_first" /\ c[1] # "drop_first"
    BY <1>7, <2>1
  <2>3. DOMAIN todo' = {1, 2, 3} /\ todo'[1] = a /\ todo'[2] = b /\ todo'[3] = c
    <3>1. DOMAIN <<a, b, c>> = 1..3 /\ 1..3 = {1, 2, 3}
      OBVIOUS
    <3> QED
      BY <2>2, <3>1
  <2>4. ToSet(todo') = {a, b, c}
    BY <2>3 DEF ToSet
  <2>5. \A what, id : Does(what, id)' <=> <<what, id>> \in {a, b, c}
    BY <2>4 DEF Does
  <2>6. \A what, id : <<what, id>> \in {a, b, c} <=>
                         id = x /\ what \in {"record", "data", "append"}
    BY <2>1
  <2>7. Distinct(todo')
    BY <2>2, <2>3 DEF Distinct
  <2>8. DropFirstIs'
    BY <2>2, <2>3 DEF DropFirstIs
  <2> QED
    BY <2>1, <2>2, <2>3, <2>5, <2>6, <2>7, <2>8
<1>9. ASSUME NEW id \in Id PROVE ImageIs(id)'
  <2>1. ImageIs(id)
    BY <1>1
  <2>2. /\ Fresh(id)' => Fresh(id)
        /\ Sent(id, "start")' => Sent(id, "start")
        /\ Sent(id, "widget")' => Sent(id, "widget")
        /\ Sent(id, "start") => Sent(id, "start")' \/ id = x
        /\ \A n : Ahead(<<"chunk", id, n>>) => Ahead(<<"chunk", id, n>>)'
        /\ Ahead(<<"complete", id, 0>>) => Ahead(<<"complete", id, 0>>)'
    BY <1>3, <1>4, <1>6
  <2>3. Does("append", id)' => id = x /\ Fresh(x)
    BY <1>4, <1>6, <1>8
  <2>4. /\ ~Does("register", id)' /\ ~Does("free", id)' /\ ~Does("skull", id)'
        /\ ~Does("drop", id)' /\ ~Does("tell", id)'
        /\ Does("data", id)' <=> Does("append", id)'
        /\ Does("append", id)' <=> id = x
    BY <1>8
  <2>5. FreshIs(id)'
    BY <1>4, <1>5, <1>7, <2>1, <2>2, <2>4 DEF ImageIs, FreshIs, NewImage, NoWidget
  <2>6. MadeIs(id)'
    <3>1. Does("append", id)' =>
            /\ image[id] = NewImage /\ widget[id] = NoWidget
            /\ ~Known(id) /\ id \notin freed
      BY <2>1, <2>3 DEF ImageIs, FreshIs
    <3>2. ~NewImage.data /\ ~NewImage.callback
      BY DEF NewImage
    <3> QED
      BY <1>4, <1>5, <1>7, <2>4, <3>1, <3>2 DEF MadeIs, NoWidget
  <2>7. FreeIs(id)'
    BY <1>8, <2>4 DEF FreeIs
  <2>8. ListIs(id)'
    BY <1>4, <1>5, <1>7, <2>1, <2>2, <2>4 DEF ImageIs, ListIs
  <2>9. BitmapIs(id)'
    BY <1>4, <1>7, <2>1 DEF ImageIs, BitmapIs
  <2>10. WholeIs(id)'
    <3>1. Does("append", id)' => Sent(id, "start")
      BY <1>4, <1>6, <2>3
    <3> QED
      BY <1>4, <1>7, <2>1, <2>2, <3>1 DEF ImageIs, WholeIs
  <2>11. LoadingIs(id)'
    BY <1>4, <1>7, <2>1, <2>2, <2>4 DEF ImageIs, LoadingIs
  <2> QED
    BY <2>5, <2>6, <2>7, <2>8, <2>9, <2>10, <2>11 DEF ImageIs
<1>10. Distinct(list')
  BY <1>1, <1>4
<1> QED
  BY <1>8, <1>9, <1>10 DEF Sound

LEMMA WidgetSound ==
    ASSUME Going, Receive, Head(channel)[1] = "widget", WidgetReceived(Head(channel)[2])
    PROVE  Sound'
<1>1. /\ todo \in Seq(Step) /\ list \in Seq(Id) /\ Calls /\ fault = "none"
      /\ Distinct(todo) /\ Distinct(list) /\ DropFirstIs
      /\ \A id \in Id : ImageIs(id)
      /\ image \in [Id -> [got : SUBSET (1..Chunks), data : BOOLEAN,
                           bitmap : BOOLEAN, callback : BOOLEAN]]
      /\ widget \in [Id -> [alive : BOOLEAN, loading : BOOLEAN,
                            bitmap : BOOLEAN, skull : BOOLEAN]]
  BY GoingFacts
<1>2. PICK m : m = Head(channel)
  OBVIOUS
<1>3. PICK x : x = m[2]
  OBVIOUS
<1>4. /\ m \in Message /\ x \in Id /\ todo = <<>> /\ ~Dangling(m)
      /\ UNCHANGED <<list, freed, sent, timers, lost>>
      /\ \A what, id : ~Does(what, id)
      /\ \A id, what : Sent(id, what)' => Sent(id, what)
      /\ \A id, what : Sent(id, what) => Sent(id, what)' \/ m = <<what, id, 0>>
      /\ \A id : Fresh(id)' => Fresh(id)
      /\ \A a : Ahead(a) => Ahead(a)' \/ a = m
      /\ m[1] = "start" <=> Fresh(x)
      /\ m[1] = "start" => Sent(x, "start")
      /\ ~Fresh(x)' /\ ~Sent(x, "start")'
      /\ m[1] # "start" => ~Sent(x, "widget")' /\ ~Sent(x, "start")
      /\ m[1] = "widget" => Sent(x, "widget")
  BY <1>2, <1>3, ReceiveFacts
<1>5. \A id : Known(id)' <=> Known(id)
  BY <1>4 DEF Known
<1>6. m[1] = "widget" /\ WidgetReceived(x)
  BY <1>2, <1>3
<1>7. /\ todo' = <<<<"layer", x>>, <<"register", x>>>> \/ todo' = <<>>
      /\ UNCHANGED <<image, widget, unmade>>
  BY <1>6 DEF WidgetReceived
<1>8. /\ \A what, id : Does(what, id)' => id = x /\ what \in {"layer", "register"}
      /\ Distinct(todo') /\ DropFirstIs'
      /\ todo' # <<>> => todo'[1] = <<"layer", x>>
  <2>1. CASE todo' = <<>>
    <3>1. \A what, id : ~Does(what, id)'
      BY <2>1, DoesNothing
    <3>2. Distinct(todo') /\ DropFirstIs'
      BY <2>1 DEF Distinct, DropFirstIs
    <3> QED
      BY <2>1, <3>1, <3>2
  <2>2. CASE todo' = <<<<"layer", x>>, <<"register", x>>>>
    <3>1. PICK a, b : a = <<"layer", x>> /\ b = <<"register", x>>
      OBVIOUS
    <3>2. /\ todo' = <<a, b>> /\ a # b
          /\ a[1] # "drop_first" /\ b[1] # "drop_first"
      BY <2>2, <3>1
    <3>3. DOMAIN todo' = {1, 2} /\ todo'[1] = a /\ todo'[2] = b
      <4>1. DOMAIN <<a, b>> = 1..2 /\ 1..2 = {1, 2}
        OBVIOUS
      <4> QED
        BY <3>2, <4>1
    <3>4. ToSet(todo') = {a, b}
      BY <3>3 DEF ToSet
    <3>5. \A what, id : Does(what, id)' <=> <<what, id>> \in {a, b}
      BY <3>4 DEF Does
    <3>6. Distinct(todo')
      BY <3>2, <3>3 DEF Distinct
    <3>7. DropFirstIs'
      BY <3>2, <3>3 DEF DropFirstIs
    <3> QED
      BY <3>1, <3>3, <3>5, <3>6, <3>7
  <2> QED
    BY <1>7, <2>1, <2>2
<1>9. ASSUME NEW id \in Id PROVE ImageIs(id)'
  <2>1. ImageIs(id)
    BY <1>1
  <2>2. /\ Fresh(id)' => Fresh(id)
        /\ Sent(id, "start")' => Sent(id, "start")
        /\ Sent(id, "widget")' => Sent(id, "widget")
        /\ Sent(id, "start") => Sent(id, "start")'
        /\ \A n : Ahead(<<"chunk", id, n>>) => Ahead(<<"chunk", id, n>>)'
        /\ Ahead(<<"complete", id, 0>>) => Ahead(<<"complete", id, 0>>)'
    BY <1>3, <1>4, <1>6
  <2>3. /\ ~Does("append", id)' /\ ~Does("free", id)' /\ ~Does("skull", id)'
        /\ ~Does("drop", id)' /\ ~Does("tell", id)' /\ ~Does("data", id)'
        /\ Does("register", id)' => id = x
    BY <1>8
  <2>4. FreshIs(id)'
    BY <1>4, <1>5, <1>7, <2>1, <2>2, <2>3 DEF ImageIs, FreshIs, NewImage, NoWidget
  <2>5. MadeIs(id)'
    BY <2>3 DEF MadeIs
  <2>6. FreeIs(id)'
    BY <1>8, <2>3 DEF FreeIs
  <2>7. ListIs(id)'
    BY <1>4, <1>5, <1>7, <2>1, <2>2, <2>3 DEF ImageIs, ListIs
  <2>8. BitmapIs(id)'
    BY <1>4, <1>7, <2>1 DEF ImageIs, BitmapIs
  <2>9. WholeIs(id)'
    BY <1>4, <1>7, <2>1, <2>2, <2>3 DEF ImageIs, WholeIs
  <2>10. LoadingIs(id)'
    <3>1. Does("register", id)' => Sent(id, "widget")
      BY <1>4, <1>6, <2>3
    <3> QED
      BY <1>4, <1>7, <2>1, <2>2, <3>1 DEF ImageIs, LoadingIs
  <2> QED
    BY <2>4, <2>5, <2>6, <2>7, <2>8, <2>9, <2>10 DEF ImageIs
<1>10. Distinct(list')
  BY <1>1, <1>4
<1> QED
  BY <1>8, <1>9, <1>10 DEF Sound

LEMMA ChunkSound ==
    ASSUME Going, Receive, Head(channel)[1] = "chunk",
           ChunkReceived(Head(channel)[2], Head(channel)[3])
    PROVE  Sound'
<1>1. /\ todo \in Seq(Step) /\ list \in Seq(Id) /\ Calls /\ fault = "none"
      /\ Distinct(todo) /\ Distinct(list) /\ DropFirstIs
      /\ \A id \in Id : ImageIs(id)
      /\ image \in [Id -> [got : SUBSET (1..Chunks), data : BOOLEAN,
                           bitmap : BOOLEAN, callback : BOOLEAN]]
      /\ widget \in [Id -> [alive : BOOLEAN, loading : BOOLEAN,
                            bitmap : BOOLEAN, skull : BOOLEAN]]
  BY GoingFacts
<1>2. PICK m : m = Head(channel)
  OBVIOUS
<1>3. PICK x : x = m[2]
  OBVIOUS
<1>4. /\ m \in Message /\ x \in Id /\ todo = <<>> /\ ~Dangling(m)
      /\ UNCHANGED <<list, freed, sent, timers, lost>>
      /\ \A what, id : ~Does(what, id)
      /\ \A id, what : Sent(id, what)' => Sent(id, what)
      /\ \A id, what : Sent(id, what) => Sent(id, what)' \/ m = <<what, id, 0>>
      /\ \A id : Fresh(id)' => Fresh(id)
      /\ \A a : Ahead(a) => Ahead(a)' \/ a = m
      /\ m[1] = "start" <=> Fresh(x)
      /\ m[1] = "start" => Sent(x, "start")
      /\ ~Fresh(x)' /\ ~Sent(x, "start")'
      /\ m[1] # "start" => ~Sent(x, "widget")' /\ ~Sent(x, "start")
      /\ m[1] = "widget" => Sent(x, "widget")
  BY <1>2, <1>3, ReceiveFacts
<1>5. \A id : Known(id)' <=> Known(id)
  BY <1>4 DEF Known
<1>6. m[1] = "chunk" /\ ChunkReceived(x, m[3])
  BY <1>2, <1>3
<1>7. PICK k : k = m[3]
  OBVIOUS
<1>8. /\ image' = IF Known(x) /\ image[x].data
                  THEN [image EXCEPT ![x].got = @ \union {k}] ELSE image
      /\ UNCHANGED <<widget, todo, unmade>>
  BY <1>6, <1>7 DEF ChunkReceived
<1>9. /\ \A what, id : ~Does(what, id)'
      /\ Distinct(todo') /\ DropFirstIs' /\ todo' = <<>>
  <2>1. todo' = <<>>
    BY <1>4, <1>8
  <2> QED
    BY <2>1, DoesNothing DEF Distinct, DropFirstIs
<1>10. /\ \A id \in Id : /\ id # x => image'[id] = image[id]
                         /\ image[id].got \subseteq image'[id].got
                         /\ image'[id].data = image[id].data
                         /\ image'[id].bitmap = image[id].bitmap
                         /\ image'[id].callback = image[id].callback
       /\ Known(x) /\ image[x].data => k \in image'[x].got
  <2>1. CASE ~(Known(x) /\ image[x].data)
    BY <1>8, <2>1
  <2>2. CASE Known(x) /\ image[x].data
    <3>1. PICK r \in [got : SUBSET (1..Chunks), data : BOOLEAN,
                      bitmap : BOOLEAN, callback : BOOLEAN] : r = image[x]
      BY <1>1, <1>4
    <3>2. PICK s : s = [r EXCEPT !.got = r.got \union {k}]
      OBVIOUS
    <3>3. /\ s.got = r.got \union {k} /\ s.data = r.data
          /\ s.bitmap = r.bitmap /\ s.callback = r.callback
      BY <3>2
    <3>4. image'[x] = s /\ \A id \in Id : id # x => image'[id] = image[id]
      BY <1>1, <1>4, <1>8, <2>2, <3>1, <3>2
    <3> QED
      BY <3>1, <3>3, <3>4
  <2> QED
    BY <2>1, <2>2
<1>11. ASSUME NEW id \in Id PROVE ImageIs(id)'
  <2>1. ImageIs(id)
    BY <1>1
  <2>2. /\ Fresh(id)' => Fresh(id)
        /\ Sent(id, "start")' => Sent(id, "start")
        /\ Sent(id, "widget")' => Sent(id, "widget")
        /\ Sent(id, "start") => Sent(id, "start")'
        /\ \A n : Ahead(<<"chunk", id, n>>) => Ahead(<<"chunk", id, n>>)' \/ (id = x /\ n = m[3])
        /\ Ahead(<<"complete", id, 0>>) => Ahead(<<"complete", id, 0>>)'
    BY <1>3, <1>4, <1>6, MessageType
  <2>3. /\ id # x => image'[id] = image[id]
        /\ image[id].got \subseteq image'[id].got
        /\ image'[id].data = image[id].data
        /\ image'[id].bitmap = image[id].bitmap
        /\ image'[id].callback = image[id].callback
    BY <1>10
  <2>4. FreshIs(id)'
    BY <1>4, <1>5, <1>8, <1>9, <2>1, <2>2, <2>3 DEF ImageIs, FreshIs, NewImage, NoWidget
  <2>5. MadeIs(id)' /\ FreeIs(id)'
    BY <1>9 DEF MadeIs, FreeIs
  <2>6. ListIs(id)'
    BY <1>4, <1>5, <1>8, <1>9, <2>1, <2>2, <2>3 DEF ImageIs, ListIs
  <2>7. BitmapIs(id)'
    BY <1>4, <1>8, <2>1, <2>3 DEF ImageIs, BitmapIs
  <2>8. WholeIs(id)'
    <3>1. CASE id = x
      <4>1. Known(x) => k \in image'[x].got \/ ~image[x].data
        BY <1>10
      <4>2. image[x].data /\ x \notin freed => Known(x)
        BY <1>4, <2>1, <3>1 DEF ImageIs, ListIs
      <4> QED
        BY <1>4, <1>7, <1>9, <2>1, <2>2, <2>3, <3>1, <4>1, <4>2 DEF ImageIs, WholeIs
    <3>2. CASE id # x
      BY <1>4, <1>9, <2>1, <2>2, <2>3, <3>2 DEF ImageIs, WholeIs
    <3> QED
      BY <3>1, <3>2
  <2>9. LoadingIs(id)'
    BY <1>4, <1>8, <1>9, <2>1, <2>2 DEF ImageIs, LoadingIs
  <2> QED
    BY <2>4, <2>5, <2>6, <2>7, <2>8, <2>9 DEF ImageIs
<1>12. Distinct(list')
  BY <1>1, <1>4
<1> QED
  BY <1>9, <1>11, <1>12 DEF Sound

LEMMA CompleteSound ==
    ASSUME Going, Receive, Head(channel)[1] = "complete", CompleteReceived(Head(channel)[2])
    PROVE  Sound'
<1>1. /\ todo \in Seq(Step) /\ list \in Seq(Id) /\ Calls /\ fault = "none"
      /\ Distinct(todo) /\ Distinct(list) /\ DropFirstIs
      /\ \A id \in Id : ImageIs(id)
      /\ image \in [Id -> [got : SUBSET (1..Chunks), data : BOOLEAN,
                           bitmap : BOOLEAN, callback : BOOLEAN]]
      /\ widget \in [Id -> [alive : BOOLEAN, loading : BOOLEAN,
                            bitmap : BOOLEAN, skull : BOOLEAN]]
  BY GoingFacts
<1>2. PICK m : m = Head(channel)
  OBVIOUS
<1>3. PICK x : x = m[2]
  OBVIOUS
<1>4. /\ m \in Message /\ x \in Id /\ todo = <<>> /\ ~Dangling(m)
      /\ UNCHANGED <<list, freed, sent, timers, lost>>
      /\ \A what, id : ~Does(what, id)
      /\ \A id, what : Sent(id, what)' => Sent(id, what)
      /\ \A id, what : Sent(id, what) => Sent(id, what)' \/ m = <<what, id, 0>>
      /\ \A id : Fresh(id)' => Fresh(id)
      /\ \A a : Ahead(a) => Ahead(a)' \/ a = m
      /\ m[1] = "start" <=> Fresh(x)
      /\ m[1] = "start" => Sent(x, "start")
      /\ ~Fresh(x)' /\ ~Sent(x, "start")'
      /\ m[1] # "start" => ~Sent(x, "widget")' /\ ~Sent(x, "start")
      /\ m[1] = "widget" => Sent(x, "widget")
  BY <1>2, <1>3, ReceiveFacts
<1>5. \A id : Known(id)' <=> Known(id)
  BY <1>4 DEF Known
<1>6. m[1] = "complete" /\ CompleteReceived(x)
  BY <1>2, <1>3
<1>7. Known(x) => x \notin freed
  <2>1. list \in Seq(Id) /\ Distinct(list)
    BY <1>1
  <2>2. ~SearchesFreed(x)
    BY <1>3, <1>4, <1>6 DEF Dangling
  <2> QED
    BY <2>1, <2>2, Searched
<1>8. ImageIs(x) /\ ~Fresh(x)
  BY <1>1, <1>4, <1>6
<1>9. /\ \A id \in Id : /\ ~Does("append", id)' /\ ~Does("data", id)'
                        /\ ~Does("register", id)' /\ ~Does("skull", id)'
                        /\ Does("free", id)' => Known(id) /\ Does("tell", id)'
                        /\ Does("drop", id)' => id \in unmade'
                        /\ ~(todo' # <<>> /\ todo'[1] = <<"drop", id>>)
      /\ Distinct(todo') /\ DropFirstIs'
      /\ unmade \subseteq unmade' /\ \A id \in Id : id # x => (id \in unmade' <=> id \in unmade)
  <2>1. CASE todo' = todo
    <3>1. todo' = <<>>
      BY <1>4, <2>1
    <3>2. \A what, id : ~Does(what, id)'
      BY <3>1, DoesNothing
    <3>3. Distinct(todo') /\ DropFirstIs'
      BY <3>1 DEF Distinct, DropFirstIs
    <3>4. unmade' = unmade \/ unmade' = unmade \union {x}
      BY <1>6 DEF CompleteReceived, BitmapMade
    <3> QED
      BY <3>1, <3>2, <3>3, <3>4
  <2>2. CASE /\ Known(x) /\ ~image[x].data
             /\ todo' = Destroying(x) \o <<<<"drop", x>>>>
             /\ UNCHANGED <<image, widget, unmade>>
    <3>1. PICK a, b, c : a = <<"tell", x>> /\ b = <<"free", x>> /\ c = <<"drop", x>>
      OBVIOUS
    <3>2. a \in Step /\ b \in Step /\ c \in Step
      BY <1>4, <3>1, StepIn
    <3>3. todo' = <<a, b>> \o <<c>>
      BY <2>2, <3>1 DEF Destroying
    <3>4. /\ DOMAIN todo' = 1..3 /\ Len(todo') = 3
          /\ todo'[1] = a /\ todo'[2] = b /\ todo'[3] = c
          /\ ToSet(todo') = {a, b, c}
      BY <3>2, <3>3, Frame
    <3>5. DOMAIN todo' = {1, 2, 3}
      BY <3>4
    <3>6. /\ a # b /\ a # c /\ b # c
          /\ a[1] # "drop_first" /\ b[1] # "drop_first" /\ c[1] # "drop_first"
      BY <3>1
    <3>7. Distinct(todo')
      BY <3>4, <3>5, <3>6 DEF Distinct
    <3>8. DropFirstIs'
      BY <3>4, <3>5, <3>6 DEF DropFirstIs
    <3>9. \A what, id : Does(what, id)' <=> <<what, id>> \in {a, b, c}
      BY <3>4 DEF Does
    <3>10. \A what, id : Does(what, id)' <=> id = x /\ what \in {"tell", "free", "drop"}
      BY <3>1, <3>9
    <3>11. x \in unmade
      BY <1>8, <2>2 DEF ImageIs, ListIs
    <3>12. \A id : todo'[1] # <<"drop", id>>
      BY <3>1, <3>4
    <3> QED
      BY <2>2, <3>7, <3>8, <3>10, <3>11, <3>12
  <2> QED
    BY <1>6, <2>1, <2>2 DEF CompleteReceived, BitmapMade
<1>10. /\ \A id \in Id : id # x => image'[id] = image[id] /\ widget'[id] = widget[id]
       /\ \A id \in Id : /\ image'[id].got = image[id].got
                         /\ image'[id].data = image[id].data
                         /\ image[id].bitmap => image'[id].bitmap
                         /\ image'[id].callback = image[id].callback
                         /\ widget'[id].alive = widget[id].alive
                         /\ widget'[id].loading => widget[id].loading
       /\ widget'[x].bitmap =>
             \/ widget[x].bitmap
             \/ Known(x) /\ image'[x].bitmap /\ image[x].callback
       /\ widget'[x].loading /\ widget[x].alive =>
             ~Known(x) \/ x \in unmade'
  <2>1. CASE BitmapMade(x)
    <3>1. Known(x) /\ image[x].data /\ image' = [image EXCEPT ![x].bitmap = TRUE]
      BY <2>1 DEF BitmapMade
    <3>2. PICK r \in [got : SUBSET (1..Chunks), data : BOOLEAN,
                      bitmap : BOOLEAN, callback : BOOLEAN] : r = image[x]
      BY <1>1, <1>4
    <3>3. PICK s : s = [r EXCEPT !.bitmap = TRUE]
      OBVIOUS
    <3>4. s.got = r.got /\ s.data = r.data /\ s.bitmap /\ s.callback = r.callback
      BY <3>3
    <3>5. image'[x] = s /\ \A id \in Id : id # x => image'[id] = image[id]
      BY <1>1, <1>4, <3>1, <3>2, <3>3
    <3>6. CASE image[x].callback
      <4>1. widget' = [widget EXCEPT ![x].loading = FALSE, ![x].bitmap = TRUE]
        BY <2>1, <3>6 DEF BitmapMade
      <4>2. PICK q \in [alive : BOOLEAN, loading : BOOLEAN,
                        bitmap : BOOLEAN, skull : BOOLEAN] : q = widget[x]
        BY <1>1, <1>4
      <4>3. PICK p : p = [q EXCEPT !.loading = FALSE, !.bitmap = TRUE]
        OBVIOUS
      <4>4. p.alive = q.alive /\ ~p.loading
        BY <4>3
      <4>5. widget'[x] = p /\ \A id \in Id : id # x => widget'[id] = widget[id]
        BY <1>1, <1>4, <4>1, <4>2, <4>3
      <4> QED
        BY <3>1, <3>2, <3>4, <3>5, <3>6, <4>2, <4>4, <4>5
    <3>7. CASE ~image[x].callback
      <4>1. widget' = widget
        BY <2>1, <3>7 DEF BitmapMade
      <4>2. ~widget[x].alive
        BY <1>8, <3>1, <3>7 DEF ImageIs, ListIs
      <4> QED
        BY <3>2, <3>4, <3>5, <4>1, <4>2
    <3> QED
      BY <3>6, <3>7
  <2>2. CASE Known(x) /\ image[x].data /\ unmade' = unmade \union {x} /\ UNCHANGED <<image, widget>>
    BY <2>2
  <2>3. CASE Known(x) /\ ~image[x].data /\ UNCHANGED <<image, widget, unmade>>
    BY <1>8, <2>3 DEF ImageIs, ListIs
  <2>4. CASE ~Known(x) /\ UNCHANGED <<image, widget>>
    BY <2>4
  <2> QED
    BY <1>6, <2>1, <2>2, <2>3, <2>4 DEF CompleteReceived
<1>11. ASSUME NEW id \in Id PROVE ImageIs(id)'
  <2>1. ImageIs(id)
    BY <1>1
  <2>2. /\ Fresh(id)' => Fresh(id)
        /\ Sent(id, "start")' => Sent(id, "start")
        /\ Sent(id, "widget")' => Sent(id, "widget")
        /\ Sent(id, "start") => Sent(id, "start")'
        /\ \A n : Ahead(<<"chunk", id, n>>) => Ahead(<<"chunk", id, n>>)'
        /\ Ahead(<<"complete", id, 0>>) => Ahead(<<"complete", id, 0>>)' \/ id = x
    BY <1>3, <1>4, <1>6, MessageType
  <2>3. /\ image'[id].got = image[id].got
        /\ image'[id].data = image[id].data
        /\ image[id].bitmap => image'[id].bitmap
        /\ image'[id].callback = image[id].callback
        /\ widget'[id].alive = widget[id].alive
        /\ widget'[id].loading => widget[id].loading
        /\ id # x => image'[id] = image[id] /\ widget'[id] = widget[id]
        /\ id \in unmade => id \in unmade'
        /\ id # x => (id \in unmade' <=> id \in unmade)
        /\ Known(id)' <=> Known(id)
        /\ id \in freed' <=> id \in freed
    BY <1>4, <1>5, <1>9, <1>10
  <2>4. /\ ~Does("append", id)' /\ ~Does("register", id)' /\ ~Does("data", id)'
        /\ ~Does("skull", id)'
        /\ Does("free", id)' => Known(id) /\ Does("tell", id)'
        /\ Does("drop", id)' => id \in unmade'
        /\ ~(todo' # <<>> /\ todo'[1] = <<"drop", id>>)
        /\ ~Does("append", id) /\ ~Does("register", id)
    BY <1>4, <1>9
  <2>5. FreshIs(id)'
    BY <1>8, <2>1, <2>2, <2>3, <2>4 DEF ImageIs, FreshIs, NewImage, NoWidget
  <2>6. MadeIs(id)' /\ FreeIs(id)'
    BY <2>3, <2>4 DEF MadeIs, FreeIs
  <2>7. ListIs(id)'
    BY <1>4, <2>1, <2>2, <2>3, <2>4 DEF ImageIs, ListIs
  <2>8. BitmapIs(id)'
    <3>1. CASE id = x
      BY <1>7, <1>10, <2>1, <2>3, <3>1 DEF ImageIs, BitmapIs
    <3>2. CASE id # x
      BY <2>1, <2>3, <3>2 DEF ImageIs, BitmapIs
    <3> QED
      BY <3>1, <3>2
  <2>9. WholeIs(id)'
    BY <2>1, <2>2, <2>3, <2>4 DEF ImageIs, WholeIs
  <2>10. LoadingIs(id)'
    <3>1. Sent(id, "widget")' \/ Does("register", id)' => Ahead(<<"complete", id, 0>>)'
      BY <1>4, <1>6, <2>1, <2>2, <2>4 DEF ImageIs, LoadingIs
    <3>2. ASSUME widget'[id].alive, widget'[id].loading
          PROVE  \/ Ahead(<<"complete", id, 0>>)' \/ <<"start", id, 0>> \in lost'
                 \/ id \in freed' \union unmade'
      <4>1. CASE id # x
        BY <1>4, <2>1, <2>2, <2>3, <3>2, <4>1 DEF ImageIs, LoadingIs
      <4>2. CASE id = x /\ Known(x)
        BY <1>10, <2>3, <3>2, <4>2
      <4>3. CASE id = x /\ ~Known(x)
        <5>1. ~(x > sent) /\ ~Sent(x, "start") /\ ~Does("append", x)
          BY <1>4, <1>6, <1>8 DEF Fresh
        <5>2. x \in freed \union unmade \/ <<"start", x, 0>> \in lost
          BY <1>8, <4>3, <5>1 DEF ImageIs, ListIs
        <5> QED
          BY <1>4, <2>3, <4>3, <5>2
      <4> QED
        BY <4>1, <4>2, <4>3
    <3> QED
      BY <3>1, <3>2 DEF LoadingIs
  <2> QED
    BY <2>5, <2>6, <2>7, <2>8, <2>9, <2>10 DEF ImageIs
<1>12. Distinct(list')
  BY <1>1, <1>4
<1> QED
  BY <1>9, <1>11, <1>12 DEF Sound

LEMMA ReceiveSound ==
    ASSUME Going, Receive
    PROVE  Sound'
<1>1. /\ Dangling(Head(channel)) => fault' = "image_read_after_free"
      /\ ~Dangling(Head(channel)) =>
           \/ Head(channel)[1] = "start" /\ StartReceived(Head(channel)[2])
           \/ Head(channel)[1] = "widget" /\ WidgetReceived(Head(channel)[2])
           \/ /\ Head(channel)[1] = "chunk"
              /\ ChunkReceived(Head(channel)[2], Head(channel)[3])
           \/ Head(channel)[1] = "complete" /\ CompleteReceived(Head(channel)[2])
  BY Zenon, ReceiveIs DEF Going
<1>2. fault' # "image_read_after_free"
  BY DEF Going, Orderly
<1> QED
  BY <1>1, <1>2, StartSound, WidgetSound, ChunkSound, CompleteSound

LEMMA SoundStep ==
    ASSUME Going, [Next]_vars
    PROVE  Sound'
<1>1. CASE ListStep
  BY <1>1, DropFirstSound, DropByIdSound, AddToListSound DEF ListStep
<1> QED
  BY <1>1, PhoneSound, PressureSound, ConversationPressureSound, AllocationFailsSound,
     AllocationSucceedsSound, TellSound, FreeSound, RegisterSound, ReceiveSound,
     OpenWindowSound, CloseWindowSound DEF Next

-----------------------------------------------------------------------------
(* What goes wrong, and what is said of it.                                *)

\* A fault is the end of it, and memory that ran out at the wrong time stays
\* run out.
LEMMA FaultsStay ==
    ASSUME [Next]_vars
    PROVE  /\ fault # "none" => fault' = fault
           /\ nested => nested'
           /\ freed \subseteq freed' /\ unmade \subseteq unmade' /\ lost \subseteq lost'
<1>1. CASE Map
  BY <1>1 DEF Map, memory, history
<1>2. ASSUME NEW id \in timers, SendContents(id)
      PROVE  UNCHANGED <<fault, nested, freed, unmade, lost>>
  BY <1>2 DEF SendContents, memory, history
<1>3. CASE Lose
  BY <1>3 DEF Lose, memory
<1>4. CASE Pressure
  BY <1>4 DEF Pressure, memory
<1>5. CASE ConversationPressure
  <2>1. UNCHANGED <<fault, unmade, lost>>
    BY <1>5 DEF ConversationPressure
  <2>2. CASE UNCHANGED <<memory, widget, nested>>
    BY <2>1, <2>2 DEF memory
  <2>3. ASSUME NEW id \in Shown, WidgetsGo({id}),
               nested' = (nested \/ (Running("skull") /\ Subject = id))
        PROVE  freed \subseteq freed' /\ (nested => nested')
    BY <2>3 DEF WidgetsGo
  <2> QED
    BY <1>5, <2>1, <2>2, <2>3 DEF ConversationPressure
<1>6. CASE AllocationFails
  <2>1. fault = "none"
    BY <1>6 DEF AllocationFails, Beginning, Running
  <2> QED
    BY <1>6, <2>1 DEF AllocationFails, memory
<1>7. CASE AllocationSucceeds
  <2>1. fault = "none"
    BY <1>7 DEF AllocationSucceeds, Beginning, Running
  <2> QED
    BY <1>7, <2>1 DEF AllocationSucceeds, history
<1>8. CASE Tell
  BY <1>8 DEF Tell, Running, memory, history
<1>9. CASE Free
  <2>1. fault = "none"
    BY <1>9 DEF Free, Beginning, Running
  <2> QED
    BY <1>9, <2>1 DEF Free, history
<1>10. CASE ListStep \/ Register
  BY <1>10 DEF ListStep, Register, Running, history
<1>11. CASE Receive
  <2>1. fault = "none" /\ UNCHANGED <<freed, lost, nested>>
    BY <1>11 DEF Receive, Idle
  <2>2. unmade \subseteq unmade'
    BY <1>11 DEF Receive, StartReceived, WidgetReceived, ChunkReceived, CompleteReceived,
                 BitmapMade
  <2> QED
    BY <2>1, <2>2
<1>12. CASE OpenWindow
  BY <1>12 DEF OpenWindow, memory, history
<1>13. CASE CloseWindow
  BY <1>13 DEF CloseWindow, WidgetsGo, Idle, memory, history
<1>14. CASE UNCHANGED vars
  BY <1>14 DEF vars, memory, history
<1> QED
  BY <1>1, <1>2, <1>3, <1>4, <1>5, <1>6, <1>7, <1>8, <1>9, <1>10, <1>11, <1>12, <1>13,
     <1>14 DEF Next

\* Frees that stay pending stay doomed.
LEMMA StaysDoomed ==
    ASSUME Doomed, freed \subseteq freed', NEW at,
           \A i \in DOMAIN todo : todo[i][1] = "free" =>
               at[i] \in DOMAIN todo' /\ todo'[at[i]] = todo[i],
           \A i, j \in DOMAIN todo : at[i] = at[j] => i = j
    PROVE  Doomed'
<1>1. PICK i \in DOMAIN todo :
         /\ todo[i][1] = "free"
         /\ todo[i][2] \in freed \/ \E j \in DOMAIN todo : j # i /\ todo[j] = todo[i]
  BY DEF Doomed
<1>2. at[i] \in DOMAIN todo' /\ todo'[at[i]] = todo[i]
  BY <1>1
<1>3. CASE todo[i][2] \in freed
  <2>1. todo'[at[i]][1] = "free" /\ todo'[at[i]][2] \in freed'
    BY <1>1, <1>2, <1>3
  <2> QED
    BY <1>2, <2>1 DEF Doomed
<1>4. CASE \E j \in DOMAIN todo : j # i /\ todo[j] = todo[i]
  <2>1. PICK j \in DOMAIN todo : j # i /\ todo[j] = todo[i]
    BY <1>4
  <2>2. at[j] \in DOMAIN todo' /\ todo'[at[j]] = todo'[at[i]] /\ at[j] # at[i]
    BY <1>1, <1>2, <2>1
  <2>3. todo'[at[i]][1] = "free"
    BY <1>1, <1>2
  <2> QED
    BY <1>2, <2>2, <2>3 DEF Doomed
<1> QED
  BY <1>1, <1>3, <1>4

LEMMA NothingDoomed ==
    ASSUME todo = <<>>
    PROVE  ~Doomed
BY DEF Doomed

\* Of two frees of the same image one goes through, and the other is doomed.
LEMMA FreeDoomed ==
    ASSUME TypeOK, Doomed, Free, fault' = "none"
    PROVE  Doomed'
<1>1. todo \in Seq(Step) /\ todo # <<>> /\ fault = "none"
  BY DEF TypeOK, Free, Beginning, Running
<1>2. PICK x : x = Subject
  OBVIOUS
<1>3. x \notin freed /\ freed' = freed \union {x} /\ todo' = Tail(todo) /\ Running("free")
  <2>1. fault' # "image_freed_twice"
    OBVIOUS
  <2> QED
    BY <1>2, <2>1 DEF Free, Beginning
<1>4. todo[1] = <<"free", x>>
  <2>1. /\ todo[1] = <<todo[1][1], x>>
        /\ \A what : Running(what) <=> fault = "none" /\ todo[1][1] = what
    BY <1>1, <1>2, RunningStep
  <2> QED
    BY <1>3, <2>1
<1>5. \A i \in DOMAIN todo : i # 1 => i - 1 \in DOMAIN todo' /\ todo'[i - 1] = todo[i]
  BY <1>1, <1>3, Taken
<1>6. PICK i \in DOMAIN todo :
         /\ todo[i][1] = "free"
         /\ todo[i][2] \in freed \/ \E j \in DOMAIN todo : j # i /\ todo[j] = todo[i]
  BY DEF Doomed
<1>7. PICK k \in DOMAIN todo' : todo'[k][1] = "free" /\
            (todo'[k][2] \in freed' \/ \E l \in DOMAIN todo' : l # k /\ todo'[l] = todo'[k])
  <2>1. ASSUME NEW j \in DOMAIN todo, j # 1, todo[j][1] = "free", todo[j][2] \in freed'
        PROVE  \E k \in DOMAIN todo' : todo'[k][1] = "free" /\ todo'[k][2] \in freed'
    <3>1. j - 1 \in DOMAIN todo' /\ todo'[j - 1] = todo[j]
      BY <1>5, <2>1
    <3>2. PICK k \in DOMAIN todo' : todo'[k] = todo[j]
      BY <3>1
    <3> QED
      BY <2>1, <3>2
  <2>2. CASE i # 1 /\ todo[i][2] \in freed'
    BY <1>6, <2>1, <2>2
  <2>3. CASE i = 1
    <3>1. PICK j \in DOMAIN todo : j # i /\ todo[j] = todo[i]
      BY <1>3, <1>4, <1>6, <2>3
    <3>2. j # 1 /\ todo[j][1] = "free" /\ todo[j][2] \in freed'
      BY <1>3, <1>4, <2>3, <3>1
    <3> QED
      BY <2>1, <3>2
  <2>4. CASE i # 1 /\ todo[i][2] \notin freed'
    <3>1. PICK j \in DOMAIN todo : j # i /\ todo[j] = todo[i]
      BY <1>3, <1>6, <2>4
    <3>2. j # 1
      BY <1>3, <1>4, <2>4, <3>1
    <3>3. PICK k, l : k = i - 1 /\ l = j - 1
      OBVIOUS
    <3>4. /\ k \in DOMAIN todo' /\ todo'[k] = todo[i]
          /\ l \in DOMAIN todo' /\ todo'[l] = todo[i]
      BY <1>5, <2>4, <3>1, <3>2, <3>3
    <3>5. k # l
      <4>1. DOMAIN todo = 1..Len(todo)
        BY <1>1, LenProperties
      <4> QED
        BY <3>1, <3>3, <4>1
    <3> QED
      BY <1>6, <3>4, <3>5
  <2> QED
    BY <2>2, <2>3, <2>4
<1> QED
  BY <1>7 DEF Doomed

\* What is doomed stays so until it ends in a fault.
LEMMA DoomedStep ==
    ASSUME TypeOK, Calls, Doomed, fault = "none", fault' = "none", [Next]_vars
    PROVE  Doomed'
<1>1. todo \in Seq(Step) /\ freed \subseteq freed'
  BY FaultsStay DEF TypeOK
<1>2. todo # <<>>
  BY NothingDoomed
<1>3. PICK x : x = Subject
  OBVIOUS
<1>4. /\ todo[1] = <<todo[1][1], x>> /\ 1 \in DOMAIN todo
      /\ \A what : Running(what) <=> todo[1][1] = what
  BY <1>1, <1>2, <1>3, RunningStep
<1>5. DOMAIN todo = 1..Len(todo) /\ Len(todo) \in Nat
  BY <1>1, LenProperties
<1>6. ASSUME todo' = todo PROVE Doomed'
  <2>1. PICK at : at = [i \in DOMAIN todo |-> i]
    OBVIOUS
  <2> QED
    BY <1>1, <1>6, <2>1, StaysDoomed
<1>7. ASSUME todo' = Tail(todo), todo[1][1] # "free" PROVE Doomed'
  <2>1. \A i \in DOMAIN todo : i # 1 => i - 1 \in DOMAIN todo' /\ todo'[i - 1] = todo[i]
    BY <1>1, <1>2, <1>7, Taken
  <2>2. PICK at : at = [i \in DOMAIN todo |-> i - 1]
    OBVIOUS
  <2>3. \A i, j \in DOMAIN todo : at[i] = at[j] => i = j
    BY <1>5, <2>2
  <2>4. \A i \in DOMAIN todo : todo[i][1] = "free" =>
            at[i] \in DOMAIN todo' /\ todo'[at[i]] = todo[i]
    BY <1>7, <2>1, <2>2
  <2> QED
    BY <1>1, <2>3, <2>4, StaysDoomed
<1>8. \A i \in DOMAIN todo : todo[i][1] = "free" => todo[i] \in ToSet(todo)
  BY DEF ToSet
<1>9. todo[1][1] \notin {"record", "data", "layer", "append", "register", "drop"}
  <2>1. PICK i \in DOMAIN todo : todo[i][1] = "free"
    BY DEF Doomed
  <2>2. todo[i] \in ToSet(todo)
    BY <1>8, <2>1
  <2>3. /\ todo[1][1] = "record" =>
              ToSet(todo) = {<<"record", x>>, <<"data", x>>, <<"append", x>>}
        /\ todo[1][1] = "data" => ToSet(todo) = {<<"data", x>>, <<"append", x>>}
        /\ todo[1][1] = "layer" => ToSet(todo) = {<<"layer", x>>, <<"register", x>>}
        /\ todo[1][1] \in Ends => ToSet(todo) = {todo[1]}
    BY <1>1, <1>2, <1>3, Pending
  <2> QED
    BY <2>1, <2>2, <2>3 DEF Ends
<1>10. CASE Map \/ (\E id \in timers : SendContents(id)) \/ Lose \/ UNCHANGED vars
  <2>1. todo' = todo
    BY <1>10 DEF Map, SendContents, Lose, vars
  <2> QED
    BY <1>6, <2>1
<1>11. CASE Pressure
  <2>1. list # <<>> /\ todo' = Destroying(Head(list)) \o <<<<"drop_first", 0>>>> \o todo
    BY <1>11 DEF Pressure
  <2>2. PICK h : h = Head(list)
    OBVIOUS
  <2>3. h \in Id
    BY <2>1, <2>2, TakenSet DEF TypeOK
  <2>4. PICK p : p = <<<<"tell", h>>, <<"free", h>>>> \o <<<<"drop_first", 0>>>>
    OBVIOUS
  <2>5. p \in Seq(Step) /\ Len(p) = 3
    <3>1. PICK a, b, c : a = <<"tell", h>> /\ b = <<"free", h>> /\ c = <<"drop_first", 0>>
      OBVIOUS
    <3>2. a \in Step /\ b \in Step /\ c \in Step
      BY <2>3, <3>1, StepIn
    <3>3. p = <<a, b>> \o <<c>>
      BY <2>4, <3>1
    <3> QED
      BY <3>2, <3>3, Frame
  <2>6. todo' = p \o todo
    BY <2>1, <2>2, <2>4 DEF Destroying
  <2>7. \A i \in DOMAIN todo : i + 3 \in DOMAIN todo' /\ todo'[i + 3] = todo[i]
    <3>1. \A i \in DOMAIN todo : /\ i + Len(p) \in DOMAIN (p \o todo)
                                 /\ (p \o todo)[i + Len(p)] = todo[i]
      BY <1>1, <2>5, Joined
    <3> QED
      BY <2>5, <2>6, <3>1
  <2>8. PICK at : at = [i \in DOMAIN todo |-> i + 3]
    OBVIOUS
  <2>9. \A i, j \in DOMAIN todo : at[i] = at[j] => i = j
    BY <1>5, <2>8
  <2>10. \A i \in DOMAIN todo : at[i] \in DOMAIN todo' /\ todo'[at[i]] = todo[i]
    BY <2>7, <2>8
  <2> QED
    BY <1>1, <2>9, <2>10, StaysDoomed
<1>12. CASE ConversationPressure
  <2>1. todo' = todo
    BY <1>12 DEF ConversationPressure
  <2> QED
    BY <1>6, <2>1
<1>13. CASE AllocationFails
  <2>1. todo[1][1] = "skull" /\ todo' = Tail(todo)
    BY <1>4, <1>9, <1>13 DEF AllocationFails, Beginning
  <2> QED
    BY <1>7, <2>1
<1>14. CASE AllocationSucceeds
  <2>1. todo[1][1] = "skull" /\ todo' = Tail(todo)
    BY <1>4, <1>9, <1>14 DEF AllocationSucceeds, Beginning
  <2> QED
    BY <1>7, <2>1
<1>15. CASE Tell
  <2>1. /\ todo[1][1] = "tell"
        /\ todo' = Tail(todo) \/ todo' = <<<<"skull", x>>>> \o Tail(todo)
    BY <1>3, <1>4, <1>15 DEF Tell
  <2>2. CASE todo' = <<<<"skull", x>>>> \o Tail(todo)
    <3>1. PICK s : s = <<<<"skull", x>>>>
      OBVIOUS
    <3>2. x \in Id
      BY <1>1, <1>2, <1>3, <2>1, RunningStep
    <3>3. s \in Seq(Step) /\ Len(s) = 1
      <4>1. <<"skull", x>> \in Step
        BY <3>2, StepIn
      <4> QED
        BY <3>1, <4>1
    <3>4. /\ Tail(todo) \in Seq(Step)
          /\ \A i \in DOMAIN todo : i # 1 =>
                i - 1 \in DOMAIN Tail(todo) /\ Tail(todo)[i - 1] = todo[i]
      BY <1>1, <1>2, Taken
    <3>5. \A i \in DOMAIN Tail(todo) : /\ i + Len(s) \in DOMAIN (s \o Tail(todo))
                                       /\ (s \o Tail(todo))[i + Len(s)] = Tail(todo)[i]
      BY <3>3, <3>4, Joined
    <3>6. ASSUME NEW i \in DOMAIN todo, i # 1
          PROVE  i \in DOMAIN todo' /\ todo'[i] = todo[i]
      <4>1. (i - 1) + 1 = i
        BY <1>5
      <4> QED
        BY <2>2, <3>1, <3>3, <3>4, <3>5, <3>6, <4>1
    <3>7. PICK at : at = [i \in DOMAIN todo |-> i]
      OBVIOUS
    <3>8. \A i \in DOMAIN todo : todo[i][1] = "free" =>
             at[i] \in DOMAIN todo' /\ todo'[at[i]] = todo[i]
      BY <2>1, <3>6, <3>7
    <3>9. \A i, j \in DOMAIN todo : at[i] = at[j] => i = j
      BY <3>7
    <3> QED
      BY <1>1, <3>8, <3>9, StaysDoomed
  <2> QED
    BY <1>7, <2>1, <2>2
<1>16. CASE Free
  BY <1>16, FreeDoomed
<1>17. CASE ListStep
  <2>1. todo[1][1] \in {"drop_first", "drop", "append"} /\ todo' = Tail(todo)
    BY <1>4, <1>17 DEF ListStep, DropFirst, DropById, AddToList, Beginning
  <2> QED
    BY <1>7, <2>1
<1>18. CASE Register
  BY <1>4, <1>9, <1>18 DEF Register, Beginning
<1>19. CASE Receive \/ OpenWindow \/ CloseWindow
  BY <1>2, <1>19 DEF Receive, OpenWindow, CloseWindow, Idle
<1> QED
  BY <1>10, <1>11, <1>12, <1>13, <1>14, <1>15, <1>16, <1>17, <1>18, <1>19 DEF Next

\* Memory that runs out while a widget fetches its skull frees an image that
\* is already being destroyed: there is one that is freed twice.
LEMMA NestedStep ==
    ASSUME TypeOK, Calls, NestedIsDoomed, Orderly => Sound, [Next]_vars
    PROVE  NestedIsDoomed'
<1> SUFFICES ASSUME fault' = "none", nested' PROVE Doomed'
  BY DEF NestedIsDoomed
<1>1. fault = "none"
  BY FaultsStay
<1>2. CASE nested
  BY <1>1, <1>2, DoomedStep DEF NestedIsDoomed
<1>3. ASSUME ~nested, \/ Pressure
                      \/ ConversationPressure
      PROVE  Doomed'
  <2>1. /\ todo \in Seq(Step) /\ Sound /\ list \in Seq(Id)
    BY <1>1, <1>3 DEF Orderly, TypeOK
  <2>2. PICK x : x = Subject
    OBVIOUS
  <2>3. /\ Running("skull") /\ todo # <<>>
        /\ \/ /\ Pressure /\ x = Head(list) /\ list # <<>>
              /\ todo' = Destroying(x) \o <<<<"drop_first", 0>>>> \o todo
           \/ list = <<>>
    <3>1. CASE Pressure
      BY <1>3, <2>2, <3>1 DEF Pressure, Running
    <3>2. CASE ConversationPressure
      <4>1. /\ list = <<>>
            /\ \/ UNCHANGED <<memory, widget, nested>>
               \/ \E id \in Shown : nested' = (nested \/ (Running("skull") /\ Subject = id))
        BY <3>2 DEF ConversationPressure
      <4> QED
        BY <1>3, <4>1 DEF Running
    <3> QED
      BY <1>3, <3>1, <3>2
  <2>4. todo[1] = <<"skull", x>> /\ x \in Id /\ 1 \in DOMAIN todo
    <3>1. /\ todo[1] = <<todo[1][1], x>> /\ 1 \in DOMAIN todo
          /\ todo[1][1] # "drop_first" => x \in Id
          /\ \A what : Running(what) <=> fault = "none" /\ todo[1][1] = what
      BY <2>1, <2>2, <2>3, RunningStep
    <3> QED
      BY <2>3, <3>1
  <2>5. list # <<>>
    <3>1. Does("skull", x)
      BY <2>4 DEF Does, ToSet
    <3>2. Does("free", x)
      BY <2>1, <3>1, Promises
    <3>3. Known(x)
      BY <2>1, <2>4, <3>2 DEF Sound, ImageIs, FreeIs
    <3> QED
      BY <3>3 DEF Known, ToSet
  <2>6. 2 \in DOMAIN todo /\ todo[2] = <<"free", x>>
    BY <2>1, <2>2, <2>3, <2>4, Pending
  <2>7. PICK a, b, c : a = <<"tell", x>> /\ b = <<"free", x>> /\ c = <<"drop_first", 0>>
    OBVIOUS
  <2>8. a \in Step /\ b \in Step /\ c \in Step
    BY <2>4, <2>7, StepIn
  <2>9. PICK p : p = <<a, b>> \o <<c>>
    OBVIOUS
  <2>10. p \in Seq(Step) /\ Len(p) = 3 /\ DOMAIN p = 1..3 /\ p[2] = b
    BY <2>8, <2>9, Frame
  <2>11. todo' = p \o todo
    BY <2>3, <2>5, <2>7, <2>9 DEF Destroying
  <2>12. 2 \in DOMAIN todo' /\ todo'[2] = b
    <3>1. \A i \in DOMAIN p : i \in DOMAIN (p \o todo) /\ (p \o todo)[i] = p[i]
      BY <2>1, <2>10, Joined
    <3> QED
      BY <2>10, <2>11, <3>1
  <2>13. 5 \in DOMAIN todo' /\ todo'[5] = b
    <3>1. \A i \in DOMAIN todo : /\ i + Len(p) \in DOMAIN (p \o todo)
                                 /\ (p \o todo)[i + Len(p)] = todo[i]
      BY <2>1, <2>10, Joined
    <3>2. 2 + 3 = 5
      OBVIOUS
    <3> QED
      BY <2>6, <2>7, <2>10, <2>11, <3>1, <3>2
  <2>14. b[1] = "free" /\ 2 # 5
    BY <2>7
  <2> QED
    BY <2>12, <2>13, <2>14 DEF Doomed
<1>4. ASSUME ~nested, ~Pressure, ~ConversationPressure PROVE FALSE
  <2>1. UNCHANGED nested
    BY <1>4 DEF Next, Map, SendContents, Lose, AllocationFails, AllocationSucceeds, Tell,
                Free, ListStep, Register, Receive, OpenWindow, CloseWindow, vars, history
  <2> QED
    BY <1>4, <2>1
<1> QED
  BY <1>2, <1>3, <1>4

\* Between two callbacks the state is sound.
LEMMA IdleSound ==
    ASSUME IInv, Idle
    PROVE  Orderly /\ Sound
BY NothingDoomed DEF IInv, Idle, NestedIsDoomed, Orderly

\* When the last message of an image comes, what has not come of it is lost.
LEMMA LastMessage ==
    ASSUME IInv, Idle, channel # <<>>, NEW m, m = Head(channel), m[1] = "complete",
           NEW x, x = m[2], Known(x), x \notin freed, image[x].data
    PROVE  \A n \in 1..Chunks : n \in image[x].got \/ <<"chunk", x, n>> \in lost
<1>1. Sound /\ channel \in Seq(Message) /\ Ordered(channel) /\ todo = <<>>
  BY IdleSound DEF IInv, TypeOK, ChannelOK, Idle
<1>2. /\ m \in Message /\ m \in ToSet(channel)
      /\ ToSet(channel) \subseteq ToSet(Tail(channel)) \union {m}
      /\ \A b \in ToSet(Tail(channel)) : b[2] = x => Rank(m) < Rank(b)
  BY <1>1, HeadFirst
<1>3. x \in Id /\ Rank(m) = Chunks + 2 /\ Rank(m) \in Nat
  BY <1>2, MessageType, RankType
<1>4. x \notin timers
  <2>1. m[2] \in timers => m[1] \in {"start", "widget"}
    BY <1>2 DEF IInv, ChannelOK
  <2> QED
    BY <2>1
<1> SUFFICES ASSUME NEW n \in 1..Chunks, <<"chunk", x, n>> \in ToSet(channel)
             PROVE  FALSE
  <2>1. ASSUME NEW n \in 1..Chunks PROVE n \in image[x].got \/ Ahead(<<"chunk", x, n>>)
    <3>1. WholeIs(x)
      BY <1>1, <1>3 DEF Sound, ImageIs
    <3> QED
      BY <3>1 DEF WholeIs
  <2>2. \A n \in 1..Chunks : Ahead(<<"chunk", x, n>>) =>
            <<"chunk", x, n>> \in ToSet(channel) \/ <<"chunk", x, n>> \in lost
    BY <1>4 DEF Ahead
  <2> QED
    BY <2>1, <2>2
<1>5. PICK b : b = <<"chunk", x, n>>
  OBVIOUS
<1>6. b[1] = "chunk" /\ b[2] = x /\ b[3] = n /\ b \in Message
  BY <1>3, <1>5, MessageIn
<1>7. b \in ToSet(Tail(channel))
  BY <1>2, <1>5, <1>6
<1>8. Rank(b) = n + 1
  BY <1>6, RankType
<1>9. Rank(m) < Rank(b)
  BY <1>2, <1>6, <1>7
<1> QED
  BY <1>3, <1>8, <1>9, ImageAssumption

LEMMA WholeStep ==
    ASSUME IInv, [Next]_vars
    PROVE  WholeShown'
<1>1. /\ image \in [Id -> [got : SUBSET (1..Chunks), data : BOOLEAN,
                           bitmap : BOOLEAN, callback : BOOLEAN]]
      /\ widget \in [Id -> [alive : BOOLEAN, loading : BOOLEAN,
                            bitmap : BOOLEAN, skull : BOOLEAN]]
      /\ list \in Seq(Id) /\ todo \in Seq(Step) /\ TypeOK /\ WholeShown
      /\ lost \subseteq lost'
  BY FaultsStay DEF IInv, TypeOK
<1>2. ASSUME \A id \in Id : /\ widget'[id].bitmap => widget[id].bitmap
                            /\ image[id].got \subseteq image'[id].got
      PROVE  WholeShown'
  BY <1>1, <1>2 DEF WholeShown
<1>3. ASSUME UNCHANGED <<image, widget>> PROVE WholeShown'
  BY <1>2, <1>3
<1>4. CASE Map \/ Lose \/ Pressure \/ AllocationFails \/ Free \/ ListStep \/ OpenWindow
           \/ UNCHANGED vars
  BY <1>3, <1>4 DEF Map, Lose, Pressure, AllocationFails, Free, ListStep,
                    OpenWindow, vars, memory
<1>5. ASSUME NEW id \in timers, SendContents(id) PROVE WholeShown'
  BY <1>3, <1>5 DEF SendContents, memory
<1>6. ASSUME NEW ids, WidgetsGo(ids) PROVE WholeShown'
  <2>1. \A id \in Id : /\ id \in ids => widget'[id] = NoWidget
                       /\ id \notin ids => widget'[id] = widget[id]
                       /\ image'[id].got = image[id].got
    BY <1>1, <1>6, WidgetsGone
  <2> QED
    BY <1>2, <2>1 DEF NoWidget
<1>7. CASE ConversationPressure
  <2>1. CASE UNCHANGED <<memory, widget, nested>>
    BY <1>3, <2>1 DEF memory
  <2> QED
    BY <1>6, <1>7, <2>1 DEF ConversationPressure
<1>8. CASE CloseWindow
  <2>1. CASE UNCHANGED <<memory, window, widget>>
    BY <1>3, <2>1 DEF memory
  <2> QED
    BY <1>6, <1>8, <2>1 DEF CloseWindow
<1>9. PICK x : x = Subject
  OBVIOUS
<1>10. ASSUME todo # <<>>, todo[1][1] # "drop_first" PROVE x \in Id
  BY <1>1, <1>9, <1>10, RunningStep
<1>11. \A what : Running(what) => todo # <<>> /\ todo[1][1] = what
  BY <1>1, RunningStep DEF Running
<1>12. CASE AllocationSucceeds
  <2>1. CASE UNCHANGED <<image, widget>>
    BY <1>3, <2>1
  <2>2. CASE x \in Id /\ image' = [image EXCEPT ![x].data = TRUE] /\ UNCHANGED widget
    <3>1. PICK r \in [got : SUBSET (1..Chunks), data : BOOLEAN,
                      bitmap : BOOLEAN, callback : BOOLEAN] : r = image[x]
      BY <1>1, <2>2
    <3>2. PICK s : s = [r EXCEPT !.data = TRUE]
      OBVIOUS
    <3>3. s.got = r.got
      BY <3>2
    <3>4. image'[x] = s /\ \A id \in Id : id # x => image'[id] = image[id]
      BY <1>1, <2>2, <3>1, <3>2
    <3> QED
      BY <1>2, <2>2, <3>1, <3>3, <3>4
  <2>3. CASE x \in Id /\ widget' = [widget EXCEPT ![x].skull = TRUE] /\ UNCHANGED image
    <3>1. PICK r \in [alive : BOOLEAN, loading : BOOLEAN,
                      bitmap : BOOLEAN, skull : BOOLEAN] : r = widget[x]
      BY <1>1, <2>3
    <3>2. PICK s : s = [r EXCEPT !.skull = TRUE]
      OBVIOUS
    <3>3. s.bitmap = r.bitmap
      BY <3>2
    <3>4. widget'[x] = s /\ \A id \in Id : id # x => widget'[id] = widget[id]
      BY <1>1, <2>3, <3>1, <3>2
    <3> QED
      BY <1>2, <2>3, <3>1, <3>3, <3>4
  <2> QED
    BY <1>9, <1>10, <1>11, <1>12, <2>1, <2>2, <2>3 DEF AllocationSucceeds, Beginning
<1>13. CASE Tell
  <2>1. /\ x \in Id /\ UNCHANGED image
        /\ UNCHANGED widget \/ widget' = [widget EXCEPT ![x] = Bereaved(@)]
    BY <1>9, <1>10, <1>11, <1>13 DEF Tell, memory
  <2>2. CASE widget' = [widget EXCEPT ![x] = Bereaved(@)]
    <3>1. PICK r \in [alive : BOOLEAN, loading : BOOLEAN,
                      bitmap : BOOLEAN, skull : BOOLEAN] : r = widget[x]
      BY <1>1, <2>1
    <3>2. PICK s : s = [r EXCEPT !.loading = FALSE, !.bitmap = FALSE]
      OBVIOUS
    <3>3. ~s.bitmap
      BY <3>2
    <3>4. widget'[x] = s /\ \A id \in Id : id # x => widget'[id] = widget[id]
      BY <1>1, <2>1, <2>2, <3>1, <3>2 DEF Bereaved
    <3> QED
      BY <1>2, <2>1, <3>3, <3>4
  <2> QED
    BY <1>3, <2>1, <2>2
<1>14. ASSUME Register, ~UNCHANGED <<image, widget>> PROVE WholeShown'
  <2>1. /\ x \in Id
        /\ widget' = [widget EXCEPT ![x] = [NoWidget EXCEPT !.alive = TRUE, !.loading = TRUE]]
        /\ image' = [image EXCEPT ![x].callback = Known(x)]
    BY <1>9, <1>10, <1>11, <1>14 DEF Register, Beginning
  <2>2. PICK k : k = Known(x)
    OBVIOUS
  <2>3. PICK r \in [got : SUBSET (1..Chunks), data : BOOLEAN,
                    bitmap : BOOLEAN, callback : BOOLEAN] : r = image[x]
    BY <1>1, <2>1
  <2>4. PICK s : s = [r EXCEPT !.callback = k]
    OBVIOUS
  <2>5. s.got = r.got
    BY <2>4
  <2>6. image'[x] = s /\ \A id \in Id : id # x => image'[id] = image[id]
    BY <1>1, <2>1, <2>2, <2>3, <2>4
  <2>7. PICK w : w = [NoWidget EXCEPT !.alive = TRUE, !.loading = TRUE]
    OBVIOUS
  <2>8. ~w.bitmap
    BY <2>7 DEF NoWidget
  <2>9. widget'[x] = w /\ \A id \in Id : id # x => widget'[id] = widget[id]
    BY <1>1, <2>1, <2>7
  <2> QED
    BY <1>2, <2>3, <2>5, <2>6, <2>8, <2>9
<1>15. CASE Receive
  <2>1. PICK m : m = Head(channel)
    OBVIOUS
  <2>2. PICK y, k : y = m[2] /\ k = m[3]
    OBVIOUS
  <2>3. /\ Idle /\ channel # <<>> /\ m \in Message
        /\ \/ UNCHANGED <<image, widget>>
           \/ ~Dangling(m) /\ m[1] = "chunk" /\ ChunkReceived(y, k)
           \/ ~Dangling(m) /\ m[1] = "complete" /\ CompleteReceived(y)
    BY <1>1, <1>15, <2>1, <2>2, ReceiveIs DEF StartReceived, WidgetReceived
  <2>4. y \in Id
    BY <2>2, <2>3, MessageType
  <2>5. CASE ChunkReceived(y, k)
    <3>1. /\ UNCHANGED widget
          /\ \/ UNCHANGED image
             \/ image' = [image EXCEPT ![y].got = @ \union {k}]
      BY <2>5 DEF ChunkReceived
    <3>2. CASE image' = [image EXCEPT ![y].got = @ \union {k}]
      <4>1. PICK r \in [got : SUBSET (1..Chunks), data : BOOLEAN,
                        bitmap : BOOLEAN, callback : BOOLEAN] : r = image[y]
        BY <1>1, <2>4
      <4>2. PICK s : s = [r EXCEPT !.got = r.got \union {k}]
        OBVIOUS
      <4>3. s.got = r.got \union {k}
        BY <4>2
      <4>4. image'[y] = s /\ \A id \in Id : id # y => image'[id] = image[id]
        BY <1>1, <2>4, <3>2, <4>1, <4>2
      <4> QED
        BY <1>2, <3>1, <4>1, <4>3, <4>4
    <3> QED
      BY <1>3, <3>1, <3>2
  <2>6. ASSUME ~Dangling(m), m[1] = "complete", BitmapMade(y) PROVE WholeShown'
    <3>1. /\ Known(y) /\ image[y].data /\ y \notin freed
          /\ image' = [image EXCEPT ![y].bitmap = TRUE]
          /\ \/ widget' = [widget EXCEPT ![y].loading = FALSE, ![y].bitmap = TRUE]
             \/ widget' = widget
      <4>1. Distinct(list) /\ ~SearchesFreed(y)
        BY <2>2, <2>3, <2>6, IdleSound DEF Dangling, Sound
      <4> QED
        BY <1>1, <2>6, <4>1, Searched DEF BitmapMade
    <3>2. \A n \in 1..Chunks : n \in image[y].got \/ <<"chunk", y, n>> \in lost
      BY <2>1, <2>2, <2>3, <2>6, <3>1, LastMessage
    <3>3. PICK r \in [got : SUBSET (1..Chunks), data : BOOLEAN,
                      bitmap : BOOLEAN, callback : BOOLEAN] : r = image[y]
      BY <1>1, <2>4
    <3>4. PICK s : s = [r EXCEPT !.bitmap = TRUE]
      OBVIOUS
    <3>5. s.got = r.got
      BY <3>4
    <3>6. image'[y] = s /\ \A id \in Id : id # y => image'[id] = image[id]
      BY <1>1, <2>4, <3>1, <3>3, <3>4
    <3>7. \A id \in Id : image'[id].got = image[id].got
      BY <3>3, <3>5, <3>6
    <3>8. \A id \in Id : id # y => widget'[id] = widget[id]
      BY <1>1, <2>4, <3>1
    <3> QED
      BY <1>1, <3>2, <3>7, <3>8 DEF WholeShown
  <2>7. ASSUME CompleteReceived(y), ~BitmapMade(y) PROVE UNCHANGED <<image, widget>>
    BY <2>7 DEF CompleteReceived
  <2> QED
    BY <1>3, <2>3, <2>5, <2>6, <2>7
<1> QED
  BY <1>3, <1>4, <1>5, <1>7, <1>8, <1>12, <1>13, <1>14, <1>15 DEF Next

\* A fault comes of a layer there is no memory for, of memory that ran out at
\* the wrong time, or of an image that could not be made and stayed on the list.
LEMMA FaultStep ==
    ASSUME IInv, [Next]_vars
    PROVE  FaultsExplained'
<1>1. /\ todo \in Seq(Step) /\ Calls /\ FaultsExplained /\ TypeOK
      /\ fault # "none" => fault' = fault
      /\ nested => nested'
      /\ freed \subseteq freed' /\ unmade \subseteq unmade'
  BY FaultsStay DEF IInv, TypeOK
<1>2. CASE fault # "none"
  BY <1>1, <1>2 DEF FaultsExplained
<1>3. CASE fault = "none" /\ fault' = "none"
  BY <1>3 DEF FaultsExplained
<1>4. CASE fault = "none" /\ nested
  BY <1>1, <1>4 DEF FaultsExplained
<1>5. ASSUME fault = "none", ~nested, fault' # "none" PROVE FaultsExplained'
  <2>1. Sound
    BY <1>5 DEF IInv, Orderly
  <2>2. \/ AllocationFails \/ AllocationSucceeds \/ Tell \/ Free
        \/ Register \/ Receive \/ CloseWindow
    BY <1>5 DEF Next, Map, SendContents, Lose, Pressure, ConversationPressure,
                ListStep, OpenWindow, vars
  <2>3. PICK x : x = Subject
    OBVIOUS
  <2>4. \A what : Running(what) /\ what # "drop_first" =>
           /\ todo # <<>> /\ todo[1] = <<what, x>> /\ x \in Id /\ Does(what, x)
    <3> SUFFICES ASSUME NEW what, Running(what), what # "drop_first"
                 PROVE  /\ todo # <<>> /\ todo[1] = <<what, x>> /\ x \in Id
                        /\ Does(what, x)
      OBVIOUS
    <3>1. todo # <<>>
      BY DEF Running
    <3>2. /\ todo[1] = <<todo[1][1], x>> /\ 1 \in DOMAIN todo
          /\ todo[1][1] # "drop_first" => x \in Id
          /\ \A a : Running(a) <=> fault = "none" /\ todo[1][1] = a
      BY <1>1, <2>3, <3>1, RunningStep
    <3>3. todo[1] = <<what, x>> /\ 1 \in DOMAIN todo /\ x \in Id
      BY <3>2
    <3> QED
      BY <3>1, <3>3 DEF Does, ToSet
  <2>5. CASE AllocationFails
    <3>1. \/ fault' = "no_memory_for_a_layer"
          \/ Running("skull") /\ ~widget[x].alive
      BY <1>5, <2>3, <2>5 DEF AllocationFails
    <3>2. Running("skull") => x \in Id /\ Does("skull", x)
      BY <2>4
    <3>3. ~(Running("skull") /\ ~widget[x].alive)
      BY <2>1, <3>2 DEF Sound, ImageIs, FreeIs
    <3> QED
      BY <3>1, <3>3 DEF FaultsExplained
  <2>6. CASE AllocationSucceeds
    <3>1. Running("skull") /\ ~widget[x].alive
      BY <1>5, <2>3, <2>6 DEF AllocationSucceeds
    <3>2. x \in Id /\ Does("skull", x)
      BY <2>4, <3>1
    <3> QED
      BY <2>1, <3>1, <3>2 DEF Sound, ImageIs, FreeIs
  <2>7. CASE Tell
    <3>1. Running("tell") /\ x \in freed /\ fault' = "image_read_after_free"
      BY <1>5, <2>3, <2>7 DEF Tell
    <3>2. todo # <<>> /\ todo[1] = <<"tell", x>> /\ x \in Id /\ Does("tell", x)
      BY <2>4, <3>1
    <3>3. Known(x)
      <4>1. Does("free", x)
        BY <1>1, <3>2, Promises
      <4> QED
        BY <2>1, <3>2, <4>1 DEF Sound, ImageIs, FreeIs
    <3>4. x \in unmade
      <4>1. todo[1][1] # "drop_first" /\ ListIs(x)
        BY <2>1, <3>2 DEF Sound, ImageIs
      <4> QED
        BY <3>1, <3>3, <4>1 DEF ListIs
    <3> QED
      BY <1>1, <3>1, <3>4 DEF FaultsExplained
  <2>8. CASE Free
    <3>1. Running("free") /\ x \in freed
      BY <1>5, <2>3, <2>8 DEF Free
    <3>2. todo[1] = <<"free", x>> /\ x \in Id /\ Does("free", x)
      BY <2>4, <3>1
    <3>3. Does("tell", x)
      BY <2>1, <3>1, <3>2 DEF Sound, ImageIs, FreeIs
    <3>4. todo[1] = <<"tell", x>>
      BY <1>1, <3>3, Promises
    <3> QED
      BY <3>2, <3>4
  <2>9. CASE Receive
    <3>1. PICK m : m = Head(channel)
      OBVIOUS
    <3>2. Idle /\ m \in Message /\ Dangling(m) /\ fault' = "image_read_after_free"
      BY <1>1, <1>5, <2>9, <3>1, ReceiveIs
    <3>3. PICK y \in Id : Known(y) /\ y \in freed
      BY <1>1, <3>2, Searched DEF Dangling, TypeOK
    <3>4. y \in unmade
      BY <2>1, <3>2, <3>3 DEF Sound, ImageIs, ListIs, Idle
    <3> QED
      BY <1>1, <3>2, <3>3, <3>4 DEF FaultsExplained
  <2>10. CASE Register \/ CloseWindow
    <3>1. /\ fault' = "image_read_after_free"
          /\ todo = <<>> \/ Running("register")
          /\ \E id : SearchesFreed(id)
      BY <1>5, <2>10 DEF Register, CloseWindow, Idle
    <3>2. PICK y \in Id : Known(y) /\ y \in freed
      BY <1>1, <3>1, Searched DEF TypeOK
    <3>3. todo # <<>> => todo[1][1] = "register"
      BY <2>4, <3>1
    <3>4. y \in unmade
      BY <2>1, <3>2, <3>3 DEF Sound, ImageIs, ListIs
    <3> QED
      BY <1>1, <3>1, <3>2, <3>4 DEF FaultsExplained
  <2> QED
    BY <2>2, <2>5, <2>6, <2>7, <2>8, <2>9, <2>10
<1> QED
  BY <1>2, <1>3, <1>4, <1>5

-----------------------------------------------------------------------------
(* The invariant.                                                          *)

LEMMA InitHolds == Init => IInv
<1> SUFFICES ASSUME Init PROVE IInv
  OBVIOUS
<1>1. TypeOK /\ Calls
  BY InitType
<1>2. /\ sent = 0 /\ timers = {} /\ channel = <<>> /\ list = <<>> /\ freed = {}
      /\ image = [id \in Id |-> NewImage] /\ widget = [id \in Id |-> NoWidget]
      /\ todo = <<>> /\ fault = "none" /\ lost = {} /\ unmade = {} /\ nested = FALSE
  BY DEF Init
<1>3. ChannelOK
  BY <1>2 DEF ChannelOK, ToSet, Ordered
<1>4. NestedIsDoomed
  BY <1>2 DEF NestedIsDoomed
<1>5. Sound
  <2>1. Distinct(todo) /\ Distinct(list) /\ DropFirstIs
    BY <1>2 DEF Distinct, DropFirstIs
  <2>2. ASSUME NEW id \in Id PROVE ImageIs(id)
    <3>1. /\ image[id] = NewImage /\ widget[id] = NoWidget /\ id > sent
          /\ ~Known(id) /\ \A what : ~Sent(id, what) /\ ~Does(what, id)
      BY <1>2 DEF Known, Sent, Does, ToSet, Id
    <3>2. FreshIs(id) /\ MadeIs(id)
      BY <1>2, <3>1 DEF FreshIs, MadeIs
    <3>3. FreeIs(id)
      BY <1>2, <3>1 DEF FreeIs
    <3>4. ListIs(id)
      BY <1>2, <3>1 DEF ListIs, NewImage
    <3>5. BitmapIs(id) /\ LoadingIs(id)
      BY <3>1 DEF BitmapIs, LoadingIs, NoWidget
    <3>6. WholeIs(id)
      BY <3>1 DEF WholeIs, NewImage
    <3> QED
      BY <3>2, <3>3, <3>4, <3>5, <3>6 DEF ImageIs
  <2> QED
    BY <2>1, <2>2 DEF Sound
<1>6. WholeShown
  BY <1>2 DEF WholeShown, NoWidget
<1>7. FaultsExplained
  BY <1>2 DEF FaultsExplained
<1> QED
  BY <1>1, <1>3, <1>4, <1>5, <1>6, <1>7 DEF IInv

LEMMA NextStep == IInv /\ [Next]_vars => IInv'
<1> SUFFICES ASSUME IInv, [Next]_vars PROVE IInv'
  OBVIOUS
<1>1. TypeOK /\ Calls /\ ChannelOK /\ NestedIsDoomed /\ (Orderly => Sound)
  BY DEF IInv
<1>2. TypeOK' /\ Calls'
  BY <1>1, TypeStep
<1>3. ChannelOK'
  BY <1>1, ChannelStep
<1>4. NestedIsDoomed'
  BY <1>1, NestedStep
<1>5. ASSUME Orderly' PROVE Sound'
  <2>1. Orderly
    BY <1>5, FaultsStay DEF Orderly
  <2> QED
    BY <1>1, <1>5, <2>1, SoundStep DEF Going
<1>6. WholeShown' /\ FaultsExplained'
  BY WholeStep, FaultStep
<1> QED
  BY <1>2, <1>3, <1>4, <1>5, <1>6 DEF IInv

\* What the invariant says between two callbacks.
LEMMA Meaning ==
    ASSUME IInv
    PROVE  TypeOK /\ ListSound /\ FaultsExplained /\ MapsExplained
<1>1. TypeOK /\ FaultsExplained /\ WholeShown
  BY DEF IInv
<1>2. \A what, id : Idle => ~Does(what, id)
  BY DoesNothing DEF Idle
<1>3. ListSound
  <2> SUFFICES ASSUME Idle
               PROVE  /\ \A i, j \in DOMAIN list : list[i] = list[j] => i = j
                      /\ \A id \in ToSet(list) : id \in freed => id \in unmade
                      /\ \A id \in Id : image[id].data /\ id \notin freed => Known(id)
    BY DEF ListSound
  <2>1. Sound /\ todo = <<>>
    BY IdleSound DEF Idle
  <2>2. \A i, j \in DOMAIN list : list[i] = list[j] => i = j
    BY <2>1 DEF Sound, Distinct
  <2>3. \A id \in ToSet(list) : id \in Id /\ Known(id)
    <3>1. list \in Seq(Id)
      BY <1>1 DEF TypeOK
    <3>2. \A i \in DOMAIN list : list[i] \in Id
      BY <3>1, ElementOfSeq, LenProperties
    <3> QED
      BY <3>2 DEF Known, ToSet
  <2>4. \A id \in Id : ListIs(id)
    BY <2>1 DEF Sound, ImageIs
  <2> QED
    BY <1>2, <2>1, <2>2, <2>3, <2>4 DEF ListIs
<1>4. ShowsTheLiving
  <2>1. Idle => \A id \in Id : BitmapIs(id)
    BY IdleSound DEF Sound, ImageIs
  <2> QED
    BY <2>1 DEF ShowsTheLiving, BitmapIs, Shown
<1>5. LoadingExplained
  <2> SUFFICES ASSUME Idle, NEW id \in Shown, widget[id].loading
               PROVE  \/ Coming(id)
                      \/ \E what \in {"start", "complete"} : <<what, id, 0>> \in lost
                      \/ id \in freed \union unmade
    BY DEF LoadingExplained
  <2>1. id \in Id /\ widget[id].alive
    BY DEF Shown
  <2>2. \/ Ahead(<<"complete", id, 0>>) \/ <<"start", id, 0>> \in lost
        \/ id \in freed \union unmade
    BY <2>1, IdleSound DEF Sound, ImageIs, LoadingIs
  <2>3. Ahead(<<"complete", id, 0>>) => Coming(id) \/ <<"complete", id, 0>> \in lost
    BY DEF Ahead, Coming, ToSet
  <2> QED
    BY <2>2, <2>3
<1>6. ShownWhole
  BY <1>1 DEF WholeShown, ShownWhole, Shown
<1> QED
  BY <1>1, <1>3, <1>4, <1>5, <1>6 DEF MapsExplained

-----------------------------------------------------------------------------
(* The theorems.                                                           *)

\* What every pending step of image_manager.c, pressure.c and map.c, every
\* message and every image is like, whatever the phone sends and the heap holds.
THEOREM InductiveInvariant == Spec => []IInv
<1>1. Init => IInv
  BY InitHolds
<1>2. IInv /\ [Next]_vars => IInv'
  BY NextStep
<1> QED
  BY <1>1, <1>2, PTL DEF Spec

\* The steps that are pending, the images, the widgets and the messages are
\* what image_manager.c and map.c can hold.
THEOREM TypeCorrect == Spec => []TypeOK
<1>1. IInv => TypeOK
  BY Meaning
<1> QED
  BY <1>1, InductiveInvariant, PTL

\* Between two callbacks s_image_list holds every image there is, once, and no
\* other, but that an image that had no data may stay on it (image_manager.c).
THEOREM ListIsSound == Spec => []ListSound
<1>1. IInv => ListSound
  BY Meaning
<1> QED
  BY <1>1, InductiveInvariant, PTL

\* Whatever is sent, lost, freed and asked for, memory is misused only in the
\* ways that FaultsExplained names (malloc.c, image_manager.c, map.c).
THEOREM FaultsAreExplained == Spec => []FaultsExplained
<1>1. IInv => FaultsExplained
  BY Meaning
<1> QED
  BY <1>1, InductiveInvariant, PTL

\* A map that shows a bitmap shows one that is there, and all of it unless a
\* chunk was lost; a map that still loads when its image has come has one of
\* the reasons MapsExplained names (map.c, lib/image_transfer.js).
THEOREM MapsAreExplained == Spec => []MapsExplained
<1>1. IInv => MapsExplained
  BY Meaning
<1> QED
  BY <1>1, InductiveInvariant, PTL
=============================================================================
