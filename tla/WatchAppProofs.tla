---------------------------- MODULE WatchAppProofs ----------------------------
(***************************************************************************)
(* Proofs about WatchApp for stacks of any depth, any number of requests   *)
(* and of messages under way: what callbacks take from the user has a      *)
(* cause that can be named, a session of a quick launch ends by itself or  *)
(* there is a reason why not, and a consent is asked for, given and echoed *)
(* as its window promises.                                                 *)
(***************************************************************************)
EXTENDS WatchApp, SequenceTheorems, TLAPS

-----------------------------------------------------------------------------
(* The windows of a stack.                                                 *)

\* How windows pile up: one of a level is opened from one of the level below.
Level(w) ==
    IF w \in {"root", "consent"} THEN 1
    ELSE IF w \in {"menu", "suggestions", "session", "choice"} THEN 2
    ELSE IF w \in Asking \union {"screen", "actions"} THEN 3
    ELSE 0

Piled(s) ==
    \A i, j \in 1..Len(s) :
        i < j /\ Level(s[i]) > 0 /\ Level(s[j]) > 0 => Level(s[i]) < Level(s[j])

\* What may be above a consent window.
OverConsent == {"choice", "alarm", "result"}

\* The action menu is right over the session; the consent window is at the
\* bottom, and the choice belongs to it.
Placed(s) ==
    \A i \in 1..Len(s) :
        /\ s[i] = "actions" => i - 1 \in 1..Len(s) /\ s[i - 1] = "session"
        /\ s[i] = "consent" => i = 1 /\ \A j \in 2..Len(s) : s[j] \in OverConsent
        /\ s[i] = "choice" => s[1] = "consent"

Well(s) == s \in Seq(Kind) /\ Len(s) <= MaxDepth /\ Piled(s) /\ Placed(s)

\* The window on top, and the stack without it.
LEMMA FrontFacts ==
    ASSUME NEW s \in Seq(Kind), s # <<>>
    PROVE  /\ Len(s) \in Nat \ {0}
           /\ TopOf(s) = s[Len(s)] /\ Last(s) = s[Len(s)] /\ s[Len(s)] \in Kind
           /\ Front(s) \in Seq(Kind)
           /\ Len(Front(s)) = Len(s) - 1
           /\ \A i \in 1..Len(s) - 1 : Front(s)[i] = s[i]
           /\ Range(s) = Range(Front(s)) \union {TopOf(s)}
<1>1. Len(s) \in Nat \ {0}
  BY EmptySeq
<1>2. /\ SubSeq(s, 1, Len(s) - 1) \in Seq(Kind)
      /\ Len(SubSeq(s, 1, Len(s) - 1)) = Len(s) - 1
      /\ \A i \in 1..Len(s) - 1 : SubSeq(s, 1, Len(s) - 1)[i] = s[i]
  <2>1. \A i \in 1..Len(s) - 1 : s[i] \in Kind
    BY <1>1, ElementOfSeq
  <2>2. 1 \in Int /\ Len(s) - 1 \in Int
    BY <1>1
  <2>3. /\ SubSeq(s, 1, Len(s) - 1) \in Seq(Kind)
        /\ Len(SubSeq(s, 1, Len(s) - 1)) =
              IF 1 <= Len(s) - 1 THEN Len(s) - 1 - 1 + 1 ELSE 0
        /\ \A i \in 1..Len(s) - 1 - 1 + 1 :
              SubSeq(s, 1, Len(s) - 1)[i] = s[1 + i - 1]
    BY <2>1, <2>2, SubSeqProperties
  <2>4. Len(s) - 1 - 1 + 1 = Len(s) - 1
    BY <1>1
  <2>5. Len(SubSeq(s, 1, Len(s) - 1)) = Len(s) - 1
    <3>1. CASE 1 <= Len(s) - 1
      BY <2>3, <2>4, <3>1
    <3>2. CASE ~(1 <= Len(s) - 1)
      <4> DEFINE n == Len(s)
      <4>0. n \in Nat \ {0} /\ ~(1 <= n - 1)
        BY <1>1, <3>2
      <4> HIDE DEF n
      <4>1. n - 1 = 0
        BY <4>0
      <4> QED
        BY <2>3, <3>2, <4>1 DEF n
    <3> QED
      BY <3>1, <3>2
  <2>6. \A i \in 1..Len(s) - 1 : 1 + i - 1 = i
    BY <1>1
  <2> QED
    BY <2>3, <2>4, <2>5, <2>6
<1>3. TopOf(s) = s[Len(s)] /\ Last(s) = s[Len(s)] /\ s[Len(s)] \in Kind
  BY <1>1, ElementOfSeq DEF TopOf, Last
<1> DEFINE f == SubSeq(s, 1, Len(s) - 1)
<1>4. Range(s) = Range(f) \union {s[Len(s)]}
  <2>1. DOMAIN s = 1..Len(s) /\ DOMAIN f = 1..Len(s) - 1
    BY <1>2, LenProperties
  <2> HIDE DEF f
  <2>2. \A i \in 1..Len(s) - 1 : f[i] = s[i]
    BY <1>2 DEF f
  <2>3. 1..Len(s) = (1..Len(s) - 1) \union {Len(s)}
    BY <1>1
  <2> QED
    BY <2>1, <2>2, <2>3 DEF Range
<1> QED
  BY <1>1, <1>2, <1>3, <1>4 DEF Front

\* A window put on top.
LEMMA AppendFacts ==
    ASSUME NEW s \in Seq(Kind), NEW w \in Kind
    PROVE  /\ Append(s, w) \in Seq(Kind)
           /\ Len(s) \in Nat
           /\ Len(Append(s, w)) = Len(s) + 1
           /\ \A i \in 1..Len(s) : Append(s, w)[i] = s[i]
           /\ Append(s, w)[Len(s) + 1] = w
           /\ Append(s, w) # <<>>
           /\ TopOf(Append(s, w)) = w
           /\ Range(Append(s, w)) = Range(s) \union {w}
<1> DEFINE a == Append(s, w)
<1>1. /\ a \in Seq(Kind) /\ Len(s) \in Nat /\ Len(a) = Len(s) + 1
      /\ \A i \in 1..Len(s) : a[i] = s[i]
      /\ a[Len(s) + 1] = w
  BY AppendProperties
<1> HIDE DEF a
<1>2. a # <<>>
  BY <1>1, EmptySeq
<1>3. TopOf(a) = w
  BY <1>1, <1>2 DEF TopOf, Last
<1>4. Range(a) = Range(s) \union {w}
  <2>1. DOMAIN s = 1..Len(s) /\ DOMAIN a = 1..Len(s) + 1
    BY <1>1, LenProperties
  <2>2. 1..Len(s) + 1 = (1..Len(s)) \union {Len(s) + 1}
    BY <1>1
  <2> QED
    BY <1>1, <2>1, <2>2 DEF Range
<1> QED
  BY <1>1, <1>2, <1>3, <1>4 DEF a

\* Members of a stack.
LEMMA RangeIs ==
    ASSUME NEW s \in Seq(Kind)
    PROVE  /\ Range(s) = {s[i] : i \in 1..Len(s)}
           /\ Range(s) \subseteq Kind
           /\ Len(s) \in Nat
           /\ s = <<>> <=> Range(s) = {}
           /\ s # <<>> => TopOf(s) \in Range(s)
           /\ s = <<>> => TopOf(s) = "nothing"
<1>1. DOMAIN s = 1..Len(s) /\ Len(s) \in Nat
  BY LenProperties
<1>2. Range(s) = {s[i] : i \in 1..Len(s)}
  BY <1>1 DEF Range
<1>3. \A i \in 1..Len(s) : s[i] \in Kind
  BY ElementOfSeq
<1>4. CASE s = <<>>
  <2>1. Len(s) = 0
    BY <1>4, EmptySeq
  <2> QED
    BY <1>1, <1>2, <1>3, <1>4, <2>1 DEF TopOf
<1>5. CASE s # <<>>
  <2>1. Len(s) \in 1..Len(s)
    BY <1>5, EmptySeq
  <2> QED
    BY <1>1, <1>2, <1>3, <1>5, <2>1 DEF TopOf, Last
<1> QED
  BY <1>4, <1>5

\* A window taken out.
LEMMA RemovedFacts ==
    ASSUME NEW s \in Seq(Kind), NEW w, NEW r \in Removed(s, w)
    PROVE  /\ r \in Seq(Kind)
           /\ Len(s) \in Nat /\ Len(r) \in Nat /\ Len(r) = Len(s) - 1
           /\ \E k \in 1..Len(s) :
                 /\ s[k] = w
                 /\ \A i \in 1..Len(r) : r[i] = IF i < k THEN s[i] ELSE s[i + 1]
           /\ Range(s) = Range(r) \union {w}
           /\ w \in Range(s)
<1>1. Len(s) \in Nat /\ DOMAIN s = 1..Len(s)
  BY LenProperties
<1>2. PICK k \in 1..Len(s) : s[k] = w /\ r = RemoveAt(s, k)
  BY <1>1 DEF Removed
<1> DEFINE p == SubSeq(s, 1, k - 1)
           q == SubSeq(s, k + 1, Len(s))
<1>3. k \in Int /\ 1 <= k /\ k <= Len(s)
  BY <1>1
<1>4. p \in Seq(Kind) /\ Len(p) = k - 1 /\ \A i \in 1..k - 1 : p[i] = s[i]
  <2>1. \A i \in 1..k - 1 : s[i] \in Kind
    BY <1>1, <1>3, ElementOfSeq
  <2>2. /\ SubSeq(s, 1, k - 1) \in Seq(Kind)
        /\ Len(SubSeq(s, 1, k - 1)) =
              IF 1 <= k - 1 THEN k - 1 - 1 + 1 ELSE 0
        /\ \A i \in 1..k - 1 - 1 + 1 : SubSeq(s, 1, k - 1)[i] = s[1 + i - 1]
    <3>1. 1 \in Int /\ k - 1 \in Int
      BY <1>3
    <3> QED
      BY <2>1, <3>1, SubSeqProperties
  <2> QED
    BY <1>3, <2>2
<1>5. /\ q \in Seq(Kind) /\ Len(q) = Len(s) - k
      /\ \A i \in 1..Len(s) - k : q[i] = s[k + i]
  <2>1. \A i \in k + 1..Len(s) : s[i] \in Kind
    BY <1>1, <1>3, ElementOfSeq
  <2>2. /\ SubSeq(s, k + 1, Len(s)) \in Seq(Kind)
        /\ Len(SubSeq(s, k + 1, Len(s))) =
              IF k + 1 <= Len(s) THEN Len(s) - (k + 1) + 1 ELSE 0
        /\ \A i \in 1..Len(s) - (k + 1) + 1 :
              SubSeq(s, k + 1, Len(s))[i] = s[(k + 1) + i - 1]
    <3>1. k + 1 \in Int /\ Len(s) \in Int
      BY <1>1, <1>3
    <3> QED
      BY <2>1, <3>1, SubSeqProperties
  <2>3. Len(s) - (k + 1) + 1 = Len(s) - k
    BY <1>1, <1>3
  <2>4. Len(SubSeq(s, k + 1, Len(s))) = Len(s) - k
    <3>1. CASE k + 1 <= Len(s)
      BY <2>2, <2>3, <3>1
    <3>2. CASE ~(k + 1 <= Len(s))
      <4> DEFINE n == Len(s)
      <4>0. n \in Nat /\ k \in Int /\ k <= n /\ ~(k + 1 <= n)
        BY <1>1, <1>3, <3>2
      <4> HIDE DEF n
      <4>1. n - k = 0
        BY <4>0
      <4> QED
        BY <2>2, <3>2, <4>1 DEF n
    <3> QED
      BY <3>1, <3>2
  <2>5. \A i \in 1..Len(s) - k : (k + 1) + i - 1 = k + i
    BY <1>1, <1>3
  <2> QED
    BY <2>2, <2>3, <2>4, <2>5
<1>6. r = p \o q
  BY <1>2 DEF RemoveAt
<1> HIDE DEF p, q
<1>7. /\ r \in Seq(Kind) /\ Len(r) = Len(p) + Len(q)
      /\ \A i \in 1..Len(p) + Len(q) :
            r[i] = IF i <= Len(p) THEN p[i] ELSE q[i - Len(p)]
  BY <1>4, <1>5, <1>6, ConcatProperties
<1>8. Len(r) = Len(s) - 1 /\ Len(r) \in Nat
  BY <1>1, <1>3, <1>4, <1>5, <1>7
<1>9. ASSUME NEW i \in 1..Len(r)
      PROVE  r[i] = IF i < k THEN s[i] ELSE s[i + 1]
  <2>1. CASE i < k
    <3>1. i <= Len(p) /\ i \in 1..k - 1 /\ i \in 1..Len(p) + Len(q)
      BY <1>1, <1>3, <1>4, <1>5, <1>7, <2>1
    <3> QED
      BY <1>4, <1>7, <2>1, <3>1
  <2>2. CASE ~(i < k)
    <3>1. /\ ~(i <= Len(p)) /\ i \in 1..Len(p) + Len(q)
          /\ i - Len(p) \in 1..Len(s) - k /\ k + (i - Len(p)) = i + 1
      BY <1>1, <1>3, <1>4, <1>5, <1>7, <1>8, <2>2
    <3>2. r[i] = q[i - Len(p)]
      BY <1>7, <3>1
    <3>3. q[i - Len(p)] = s[k + (i - Len(p))]
      BY <1>5, <3>1
    <3> QED
      BY <2>2, <3>1, <3>2, <3>3
  <2> QED
    BY <2>1, <2>2
<1>10. Range(s) = Range(r) \union {w}
  <2>1. Range(s) = {s[i] : i \in 1..Len(s)} /\ Range(r) = {r[i] : i \in 1..Len(r)}
    BY <1>7, RangeIs
  <2>2. ASSUME NEW i \in 1..Len(s) PROVE s[i] \in Range(r) \union {w}
    <3>1. CASE i < k
      <4>1. i \in 1..Len(r) /\ r[i] = s[i]
        BY <1>3, <1>8, <1>9, <3>1
      <4> QED
        BY <2>1, <4>1
    <3>2. CASE i > k
      <4>1. i - 1 \in 1..Len(r) /\ ~(i - 1 < k) /\ i - 1 + 1 = i
        BY <1>3, <1>8, <3>2
      <4>2. r[i - 1] = s[i - 1 + 1]
        BY <1>9, <4>1
      <4> QED
        BY <2>1, <4>1, <4>2
    <3> QED
      BY <1>2, <1>3, <3>1, <3>2
  <2>3. ASSUME NEW i \in 1..Len(r) PROVE r[i] \in Range(s)
    <3>1. i \in 1..Len(s) /\ i + 1 \in 1..Len(s)
      BY <1>1, <1>8
    <3> QED
      BY <1>9, <2>1, <3>1
  <2>4. w \in Range(s)
    BY <1>2, <2>1
  <2> QED
    BY <2>1, <2>2, <2>3, <2>4
<1> QED
  BY <1>1, <1>2, <1>7, <1>8, <1>9, <1>10

-----------------------------------------------------------------------------
(* Stacks stay well piled.                                                 *)

\* A consent window has only its choice, alarms and results over it.
LEMMA ConsentAlone ==
    ASSUME NEW s, Well(s)
    PROVE  /\ "choice" \in Range(s) => "consent" \in Range(s)
           /\ "consent" \in Range(s) => Range(s) \subseteq OverConsent \union {"consent"}
           /\ "consent" \in Range(s) => s[1] = "consent" /\ s # <<>>
           /\ TopOf(s) = "consent" => Len(s) = 1 /\ Range(s) = {"consent"}
<1>1. s \in Seq(Kind) /\ Placed(s)
  BY DEF Well
<1>2. /\ Range(s) = {s[i] : i \in 1..Len(s)} /\ Len(s) \in Nat
      /\ s = <<>> <=> Range(s) = {}
      /\ s # <<>> => TopOf(s) \in Range(s)
      /\ s = <<>> => TopOf(s) = "nothing"
  BY <1>1, RangeIs
<1>3. ASSUME "consent" \in Range(s)
      PROVE  /\ 1 \in 1..Len(s) /\ s[1] = "consent"
             /\ \A j \in 2..Len(s) : s[j] \in OverConsent
  <2>1. PICK i \in 1..Len(s) : s[i] = "consent"
    BY <1>2, <1>3
  <2>2. i = 1 /\ \A j \in 2..Len(s) : s[j] \in OverConsent
    BY <1>1, <2>1 DEF Placed
  <2> QED
    BY <2>1, <2>2
<1>4. ASSUME "choice" \in Range(s) PROVE "consent" \in Range(s)
  <2>1. PICK i \in 1..Len(s) : s[i] = "choice"
    BY <1>2, <1>4
  <2>2. s[1] = "consent" /\ 1 \in 1..Len(s)
    BY <1>1, <1>2, <2>1 DEF Placed
  <2> QED
    BY <1>2, <2>2
<1>5. ASSUME "consent" \in Range(s)
      PROVE  Range(s) \subseteq OverConsent \union {"consent"}
  <2>1. \A i \in 1..Len(s) : i = 1 \/ i \in 2..Len(s)
    BY <1>2
  <2> QED
    BY <1>2, <1>3, <1>5, <2>1
<1>6. ASSUME TopOf(s) = "consent" PROVE Len(s) = 1 /\ Range(s) = {"consent"}
  <2>1. s # <<>> /\ "consent" \in Range(s)
    BY <1>2, <1>6
  <2>2. Len(s) \in 1..Len(s) /\ s[Len(s)] = "consent"
    BY <1>1, <1>2, <1>6, <2>1, FrontFacts
  <2>3. Len(s) = 1
    BY <1>1, <2>2 DEF Placed
  <2>4. 1..Len(s) = {1} /\ s[1] = "consent"
    BY <2>2, <2>3
  <2> QED
    BY <1>2, <2>3, <2>4
<1> QED
  BY <1>2, <1>3, <1>4, <1>5, <1>6

\* A window of a level is on the stack once, and above those of lower levels.
LEMMA TopOnce ==
    ASSUME NEW s, Well(s), s # <<>>, Level(TopOf(s)) > 0
    PROVE  /\ TopOf(s) \notin Range(Front(s))
           /\ \A w \in Range(Front(s)) : Level(w) > 0 => Level(w) < Level(TopOf(s))
<1>1. s \in Seq(Kind) /\ Piled(s)
  BY DEF Well
<1>2. /\ Len(s) \in Nat \ {0}
      /\ TopOf(s) = s[Len(s)]
      /\ Front(s) \in Seq(Kind)
      /\ Len(Front(s)) = Len(s) - 1
      /\ \A i \in 1..Len(s) - 1 : Front(s)[i] = s[i]
  BY <1>1, FrontFacts
<1>3. Range(Front(s)) = {Front(s)[i] : i \in 1..Len(s) - 1}
  BY <1>2, RangeIs
<1>4. \A n : Level(n) \in Nat
  BY DEF Level
<1>5. ASSUME NEW w \in Range(Front(s)), Level(w) > 0
      PROVE  Level(w) < Level(TopOf(s))
  <2>1. PICK i \in 1..Len(s) - 1 : w = s[i]
    BY <1>2, <1>3
  <2>2. i \in 1..Len(s) /\ Len(s) \in 1..Len(s) /\ i < Len(s)
    BY <1>2
  <2> QED
    BY <1>1, <1>2, <1>5, <2>1, <2>2 DEF Piled
<1>6. TopOf(s) \notin Range(Front(s))
  BY <1>4, <1>5
<1> QED
  BY <1>5, <1>6

\* The action menu is right over the session.
LEMMA MenuOverSession ==
    ASSUME NEW s, Well(s), TopOf(s) = "actions"
    PROVE  s # <<>> /\ Front(s) # <<>> /\ TopOf(Front(s)) = "session"
<1>1. s \in Seq(Kind) /\ Placed(s)
  BY DEF Well
<1>2. s # <<>>
  BY DEF TopOf
<1>3. /\ Len(s) \in Nat \ {0}
      /\ TopOf(s) = s[Len(s)]
      /\ Front(s) \in Seq(Kind)
      /\ Len(Front(s)) = Len(s) - 1
      /\ \A i \in 1..Len(s) - 1 : Front(s)[i] = s[i]
  BY <1>1, <1>2, FrontFacts
<1>4. Len(s) - 1 \in 1..Len(s) /\ s[Len(s) - 1] = "session"
  <2>1. Len(s) \in 1..Len(s)
    BY <1>3
  <2> QED
    BY <1>1, <1>3, <2>1 DEF Placed
<1>5. Front(s) # <<>>
  BY <1>3, <1>4, EmptySeq
<1>6. TopOf(Front(s)) = Front(s)[Len(s) - 1]
  BY <1>3, <1>5, FrontFacts
<1>7. Len(s) - 1 \in 1..Len(s) - 1
  BY <1>3, <1>4
<1> QED
  BY <1>2, <1>3, <1>4, <1>5, <1>6, <1>7

\* The window on top is popped.
LEMMA FrontWell ==
    ASSUME NEW s, Well(s), s # <<>>
    PROVE  Well(Front(s))
<1>1. s \in Seq(Kind) /\ Piled(s) /\ Placed(s) /\ Len(s) <= MaxDepth
  BY DEF Well
<1> DEFINE f == Front(s)
           n == Len(s)
<1>2. /\ n \in Nat \ {0} /\ f \in Seq(Kind) /\ Len(f) = n - 1
      /\ \A i \in 1..n - 1 : f[i] = s[i]
  BY <1>1, FrontFacts
<1> HIDE DEF f
<1>3. 1..n - 1 \subseteq 1..n /\ n - 1 <= MaxDepth
  BY <1>1, <1>2, WindowAssumption
<1>4. Piled(f)
  BY <1>1, <1>2, <1>3 DEF Piled
<1>5. ASSUME NEW i \in 1..n - 1
      PROVE  /\ f[i] = "actions" => i - 1 \in 1..n - 1 /\ f[i - 1] = "session"
             /\ f[i] = "consent" => i = 1 /\ \A j \in 2..n - 1 : f[j] \in OverConsent
             /\ f[i] = "choice" => f[1] = "consent"
  <2>1. i \in 1..n /\ f[i] = s[i]
    BY <1>2, <1>3
  <2>2. ASSUME f[i] = "actions" PROVE i - 1 \in 1..n - 1 /\ f[i - 1] = "session"
    <3>1. i - 1 \in 1..n /\ s[i - 1] = "session"
      BY <1>1, <2>1, <2>2 DEF Placed
    <3>2. i - 1 \in 1..n - 1
      BY <1>2, <3>1
    <3> QED
      BY <1>2, <3>1, <3>2
  <2>3. ASSUME f[i] = "consent"
        PROVE  i = 1 /\ \A j \in 2..n - 1 : f[j] \in OverConsent
    <3>1. i = 1 /\ \A j \in 2..n : s[j] \in OverConsent
      BY <1>1, <2>1, <2>3 DEF Placed
    <3>2. 2..n - 1 \subseteq 2..n /\ 2..n - 1 \subseteq 1..n - 1
      BY <1>2
    <3> QED
      BY <1>2, <3>1, <3>2
  <2>4. ASSUME f[i] = "choice" PROVE f[1] = "consent"
    <3>1. s[1] = "consent"
      BY <1>1, <2>1, <2>4 DEF Placed
    <3>2. 1 \in 1..n - 1
      BY <1>2
    <3> QED
      BY <1>2, <3>1, <3>2
  <2> QED
    BY <2>2, <2>3, <2>4
<1>6. Placed(f)
  BY <1>2, <1>5 DEF Placed
<1> QED
  BY <1>2, <1>3, <1>4, <1>6 DEF Well, f

\* A window that no other needs is taken out.
LEMMA RemovedWell ==
    ASSUME NEW s, Well(s), NEW w \in {"result", "report", "feedback", "choice"},
           NEW r \in Removed(s, w)
    PROVE  /\ Well(r)
           /\ w # "result" => w \notin Range(r)
<1>1. s \in Seq(Kind) /\ Piled(s) /\ Placed(s) /\ Len(s) <= MaxDepth
  BY DEF Well
<1> DEFINE n == Len(s)
<1>2. /\ r \in Seq(Kind) /\ n \in Nat /\ Len(r) \in Nat /\ Len(r) = n - 1
  BY <1>1, RemovedFacts
<1>3. PICK k \in 1..n :
        /\ s[k] = w
        /\ \A i \in 1..Len(r) : r[i] = IF i < k THEN s[i] ELSE s[i + 1]
  BY <1>1, RemovedFacts
<1> DEFINE at(i) == IF i < k THEN i ELSE i + 1
<1>4. /\ \A i \in 1..n - 1 : r[i] = s[at(i)] /\ at(i) \in 1..n /\ at(i) # k
      /\ \A i, j \in 1..n - 1 : i < j => at(i) < at(j)
      /\ k \in Int /\ 1 <= k
  BY <1>2, <1>3
<1>5. Len(r) <= MaxDepth
  BY <1>1, <1>2, WindowAssumption
<1>6. Piled(r)
  <2> SUFFICES ASSUME NEW i \in 1..n - 1, NEW j \in 1..n - 1, i < j,
                      Level(r[i]) > 0, Level(r[j]) > 0
               PROVE  Level(r[i]) < Level(r[j])
    BY <1>2 DEF Piled
  <2>1. /\ at(i) \in 1..n /\ at(j) \in 1..n /\ at(i) < at(j)
        /\ r[i] = s[at(i)] /\ r[j] = s[at(j)]
    BY <1>4
  <2> HIDE DEF at
  <2> QED
    BY <1>1, <2>1 DEF Piled
<1>7. ASSUME NEW i \in 1..n - 1
      PROVE  /\ r[i] = "actions" => i - 1 \in 1..n - 1 /\ r[i - 1] = "session"
             /\ r[i] = "consent" => i = 1 /\ \A j \in 2..n - 1 : r[j] \in OverConsent
             /\ r[i] = "choice" => r[1] = "consent"
  <2>1. ASSUME r[i] = "actions" PROVE i - 1 \in 1..n - 1 /\ r[i - 1] = "session"
    <3>1. at(i) - 1 \in 1..n /\ s[at(i) - 1] = "session"
      <4>1. at(i) \in 1..n /\ s[at(i)] = "actions"
        BY <1>4, <2>1
      <4> HIDE DEF at
      <4> QED
        BY <1>1, <4>1 DEF Placed
    <3>2. at(i) - 1 # k
      BY <1>3, <3>1
    <3>3. i - 1 \in 1..n - 1 /\ at(i - 1) = at(i) - 1
      BY <1>2, <1>4, <3>1, <3>2
    <3>4. r[i - 1] = s[at(i - 1)]
      BY <1>4, <3>3
    <3> QED
      BY <3>1, <3>3, <3>4
  <2>2. ASSUME r[i] = "consent"
        PROVE  i = 1 /\ \A j \in 2..n - 1 : r[j] \in OverConsent
    <3>1. at(i) = 1 /\ \A j \in 2..n : s[j] \in OverConsent
      <4>1. at(i) \in 1..n /\ s[at(i)] = "consent"
        BY <1>4, <2>2
      <4> HIDE DEF at
      <4> QED
        BY <1>1, <4>1 DEF Placed
    <3>2. i = 1
      BY <1>4, <3>1
    <3>3. ASSUME NEW j \in 2..n - 1 PROVE r[j] \in OverConsent
      <4>1. j \in 1..n - 1 /\ at(j) \in 2..n /\ r[j] = s[at(j)]
        BY <1>2, <1>4
      <4> HIDE DEF at
      <4> QED
        BY <3>1, <4>1
    <3> QED
      BY <3>2, <3>3
  <2>3. ASSUME r[i] = "choice" PROVE r[1] = "consent"
    <3>1. s[1] = "consent"
      <4>1. at(i) \in 1..n /\ s[at(i)] = "choice"
        BY <1>4, <2>3
      <4> HIDE DEF at
      <4> QED
        BY <1>1, <4>1 DEF Placed
    <3>2. 1 # k
      BY <1>3, <3>1
    <3>3. 1 \in 1..n - 1 /\ at(1) = 1
      BY <1>2, <1>4, <3>2
    <3>4. r[1] = s[at(1)]
      BY <1>4, <3>3
    <3> QED
      BY <3>1, <3>3, <3>4
  <2> QED
    BY <2>1, <2>2, <2>3
<1>8. Placed(r)
  BY <1>2, <1>7 DEF Placed
<1>9. ASSUME w # "result" PROVE w \notin Range(r)
  <2>1. Range(r) = {r[i] : i \in 1..n - 1}
    BY <1>2, RangeIs
  <2>2. Level(w) > 0 /\ ~(Level(w) < Level(w))
    BY <1>9 DEF Level, Asking, Form
  <2>3. ASSUME NEW i \in 1..n - 1 PROVE r[i] # w
    <3>1. at(i) \in 1..n /\ at(i) # k /\ r[i] = s[at(i)] /\ at(i) \in Int
      BY <1>2, <1>4
    <3>2. at(i) < k \/ k < at(i)
      BY <1>4, <3>1
    <3> HIDE DEF at
    <3> QED
      BY <1>1, <1>3, <2>2, <3>1, <3>2 DEF Piled
  <2> QED
    BY <2>1, <2>3
<1> QED
  BY <1>2, <1>5, <1>6, <1>8, <1>9 DEF Well

\* A window is put on top.
LEMMA OverWell ==
    ASSUME NEW s, Well(s), NEW w \in Kind \ {"consent"}, Len(s) < MaxDepth,
           Level(w) > 0 => \A v \in Range(s) : Level(v) > 0 => Level(v) < Level(w),
           w = "actions" => s # <<>> /\ TopOf(s) = "session",
           w = "choice" => "consent" \in Range(s),
           "consent" \in Range(s) => w \in OverConsent
    PROVE  Well(Append(s, w))
<1>1. s \in Seq(Kind) /\ Piled(s) /\ Placed(s)
  BY DEF Well
<1> DEFINE a == Append(s, w)
           n == Len(s)
<1>2. /\ a \in Seq(Kind) /\ n \in Nat /\ Len(a) = n + 1
      /\ \A i \in 1..n : a[i] = s[i]
      /\ a[n + 1] = w
  BY <1>1, AppendFacts
<1>3. Len(a) <= MaxDepth
  BY <1>2, WindowAssumption
<1>4. Range(s) = {s[i] : i \in 1..n}
  BY <1>1, RangeIs
<1> HIDE DEF a
<1>5. Piled(a)
  <2> SUFFICES ASSUME NEW i \in 1..n + 1, NEW j \in 1..n + 1, i < j,
                      Level(a[i]) > 0, Level(a[j]) > 0
               PROVE  Level(a[i]) < Level(a[j])
    BY <1>2 DEF Piled
  <2>1. i \in 1..n
    BY <1>2
  <2>2. CASE j \in 1..n
    BY <1>1, <1>2, <2>1, <2>2 DEF Piled
  <2>3. CASE j = n + 1
    <3>1. a[j] = w /\ a[i] = s[i] /\ s[i] \in Range(s)
      BY <1>2, <1>4, <2>1, <2>3
    <3> QED
      BY <3>1
  <2> QED
    BY <1>2, <2>2, <2>3
<1>6. ASSUME NEW i \in 1..n + 1
      PROVE  /\ a[i] = "actions" => i - 1 \in 1..n + 1 /\ a[i - 1] = "session"
             /\ a[i] = "consent" => i = 1 /\ \A j \in 2..n + 1 : a[j] \in OverConsent
             /\ a[i] = "choice" => a[1] = "consent"
  <2>1. CASE i \in 1..n
    <3>1. a[i] = s[i]
      BY <1>2, <2>1
    <3>2. ASSUME a[i] = "actions" PROVE i - 1 \in 1..n + 1 /\ a[i - 1] = "session"
      <4>1. i - 1 \in 1..n /\ s[i - 1] = "session"
        BY <1>1, <2>1, <3>1, <3>2 DEF Placed
      <4> QED
        BY <1>2, <4>1
    <3>3. ASSUME a[i] = "consent"
          PROVE  i = 1 /\ \A j \in 2..n + 1 : a[j] \in OverConsent
      <4>1. i = 1 /\ \A j \in 2..n : s[j] \in OverConsent
        BY <1>1, <2>1, <3>1, <3>3 DEF Placed
      <4>2. w \in OverConsent
        BY <1>4, <2>1, <3>1, <3>3
      <4>3. \A j \in 2..n + 1 : j = n + 1 \/ (j \in 2..n /\ j \in 1..n)
        BY <1>2
      <4> QED
        BY <1>2, <4>1, <4>2, <4>3
    <3>4. ASSUME a[i] = "choice" PROVE a[1] = "consent"
      <4>1. s[1] = "consent"
        BY <1>1, <2>1, <3>1, <3>4 DEF Placed
      <4>2. 1 \in 1..n
        BY <2>1
      <4> QED
        BY <1>2, <4>1, <4>2
    <3> QED
      BY <3>2, <3>3, <3>4
  <2>2. CASE i = n + 1
    <3>1. a[i] = w /\ w # "consent"
      BY <1>2, <2>2
    <3>2. ASSUME w = "actions" PROVE i - 1 \in 1..n + 1 /\ a[i - 1] = "session"
      <4>1. n \in Nat \ {0} /\ s[n] = "session"
        BY <1>1, <3>2, FrontFacts
      <4>2. i - 1 = n /\ n \in 1..n /\ n \in 1..n + 1
        BY <2>2, <4>1
      <4> QED
        BY <1>2, <4>1, <4>2
    <3>3. ASSUME w = "choice" PROVE a[1] = "consent"
      <4>1. s[1] = "consent" /\ s # <<>>
        BY <3>3, ConsentAlone
      <4>2. 1 \in 1..n
        BY <1>1, <4>1, FrontFacts
      <4> QED
        BY <1>2, <4>1, <4>2
    <3> QED
      BY <3>1, <3>2, <3>3
  <2> QED
    BY <1>2, <2>1, <2>2
<1>7. Placed(a)
  BY <1>2, <1>6 DEF Placed
<1> QED
  BY <1>2, <1>3, <1>5, <1>7 DEF Well, a

\* A window is opened from the one on top.
LEMMA OpenedWell ==
    ASSUME NEW s, Well(s), NEW w \in Kind \ {"consent", "choice"}, Len(s) < MaxDepth,
           Level(TopOf(s)) > 0, TopOf(s) # "consent", TopOf(s) # "choice",
           Level(TopOf(s)) < Level(w), w = "actions" => TopOf(s) = "session"
    PROVE  Well(Append(s, w))
<1>1. s # <<>>
  BY DEF TopOf, Level, Asking, Form
<1>2. s \in Seq(Kind)
  BY DEF Well
<1>3. Range(s) = Range(Front(s)) \union {TopOf(s)}
  BY <1>1, <1>2, FrontFacts
<1>4. TopOf(s) \notin OverConsent \union {"consent"}
  BY DEF Level, OverConsent, Asking, Form
<1>5. "consent" \notin Range(s)
  BY <1>3, <1>4, ConsentAlone
<1>6. \A v : Level(v) \in Nat
  BY DEF Level
<1>7. \A v \in Range(s) : Level(v) > 0 => Level(v) < Level(w)
  <2>1. \A v \in Range(Front(s)) : Level(v) > 0 => Level(v) < Level(TopOf(s))
    BY <1>1, TopOnce
  <2> QED
    BY <1>3, <1>6, <2>1
<1> QED
  BY <1>1, <1>5, <1>7, OverWell

\* A window takes the place of the one on top.
LEMMA ReplacedWell ==
    ASSUME NEW s, Well(s), NEW w \in Kind \ {"actions", "consent", "choice"},
           Level(TopOf(s)) > 0, TopOf(s) # "consent", TopOf(s) # "choice",
           Level(TopOf(s)) = Level(w)
    PROVE  Well(Append(Front(s), w))
<1>1. s # <<>>
  BY DEF TopOf, Level, Asking, Form
<1>2. s \in Seq(Kind) /\ Len(s) <= MaxDepth
  BY DEF Well
<1>3. /\ Range(s) = Range(Front(s)) \union {TopOf(s)}
      /\ Len(Front(s)) = Len(s) - 1 /\ Len(s) \in Nat
  BY <1>1, <1>2, FrontFacts
<1>4. TopOf(s) \notin OverConsent \union {"consent"}
  BY DEF Level, OverConsent, Asking, Form
<1>5. "consent" \notin Range(Front(s))
  BY <1>3, <1>4, ConsentAlone
<1>6. \A v \in Range(Front(s)) : Level(v) > 0 => Level(v) < Level(TopOf(s))
  BY <1>1, TopOnce
<1>7. Len(Front(s)) < MaxDepth
  BY <1>2, <1>3, WindowAssumption
<1>8. Well(Front(s))
  BY <1>1, FrontWell
<1> QED
  BY <1>5, <1>6, <1>7, <1>8, OverWell

\* An alarm or a result comes on top of anything.
LEMMA FreeWell ==
    ASSUME NEW s, Well(s), NEW w \in {"alarm", "result"}, Len(s) < MaxDepth
    PROVE  Well(Append(s, w))
<1>1. Level(w) = 0 /\ ~(Level(w) > 0) /\ w \in Kind \ {"consent"} /\ w \in OverConsent
  BY DEF Level, Asking, Form, Kind, OverConsent
<1> QED
  BY <1>1, OverWell

\* What is left when the choice and the consent are removed, and the root
\* window put over or under it.
LEMMA ConsentedWell ==
    ASSUME NEW s, Well(s), NEW r \in Removed(s, "choice"),
           NEW rest \in Removed(r, "consent")
    PROVE  /\ Well(Append(rest, "root")) /\ Well(<<"root">> \o rest)
           /\ Range(Append(rest, "root")) = Range(rest) \union {"root"}
           /\ Range(<<"root">> \o rest) = Range(rest) \union {"root"}
           /\ Range(rest) \subseteq Range(s)
           /\ Range(rest) \subseteq {"alarm", "result"}
           /\ Append(rest, "root") # <<>> /\ <<"root">> \o rest # <<>>
<1>1. s \in Seq(Kind) /\ Len(s) <= MaxDepth
  BY DEF Well
<1>2. Well(r) /\ "choice" \notin Range(r)
  BY RemovedWell
<1>3. r \in Seq(Kind) /\ Placed(r)
  BY <1>2 DEF Well
<1>4. /\ Len(s) \in Nat /\ Len(r) = Len(s) - 1
      /\ Range(s) = Range(r) \union {"choice"}
  BY <1>1, RemovedFacts
<1>5. /\ rest \in Seq(Kind) /\ Len(rest) \in Nat /\ Len(r) \in Nat
      /\ Len(rest) = Len(r) - 1
      /\ Range(r) = Range(rest) \union {"consent"}
      /\ \E k \in 1..Len(r) :
            /\ r[k] = "consent"
            /\ \A i \in 1..Len(rest) : rest[i] = IF i < k THEN r[i] ELSE r[i + 1]
  BY <1>3, RemovedFacts
<1>6. Range(rest) \subseteq {"alarm", "result"}
  <2>1. PICK k \in 1..Len(r) :
          /\ r[k] = "consent"
          /\ \A i \in 1..Len(rest) : rest[i] = IF i < k THEN r[i] ELSE r[i + 1]
    BY <1>5
  <2>2. k = 1 /\ \A j \in 2..Len(r) : r[j] \in OverConsent
    BY <1>3, <2>1 DEF Placed
  <2>3. ASSUME NEW i \in 1..Len(rest) PROVE rest[i] \in OverConsent
    <3>1. ~(i < k) /\ i + 1 \in 2..Len(r)
      BY <1>5, <2>2
    <3> QED
      BY <2>1, <2>2, <3>1
  <2>4. Range(rest) = {rest[i] : i \in 1..Len(rest)}
    BY <1>5, RangeIs
  <2> QED
    BY <1>2, <1>5, <2>3, <2>4 DEF OverConsent
<1>7. \A i \in 1..Len(rest) : rest[i] \in {"alarm", "result"}
  <2>1. Range(rest) = {rest[i] : i \in 1..Len(rest)}
    BY <1>5, RangeIs
  <2> QED
    BY <1>6, <2>1
<1>8. "root" \in Kind
  BY DEF Kind
<1> DEFINE a == Append(rest, "root")
           b == <<"root">> \o rest
           t == <<"root">>
           n == Len(rest)
<1>9. /\ a \in Seq(Kind) /\ Len(a) = n + 1 /\ a # <<>>
      /\ \A i \in 1..n : a[i] = rest[i]
      /\ a[n + 1] = "root"
      /\ Range(a) = Range(rest) \union {"root"}
  BY <1>5, <1>8, AppendFacts
<1>10. t \in Seq(Kind) /\ Len(t) = 1 /\ t[1] = "root"
  BY <1>8
<1> HIDE DEF t
<1>11. /\ t \o rest \in Seq(Kind) /\ Len(t \o rest) = 1 + n
       /\ \A i \in 1..1 + n : (t \o rest)[i] = IF i <= 1 THEN t[i] ELSE rest[i - 1]
  <2>1. /\ t \o rest \in Seq(Kind) /\ Len(t \o rest) = Len(t) + Len(rest)
        /\ \A i \in 1..Len(t) + Len(rest) :
              (t \o rest)[i] = IF i <= Len(t) THEN t[i] ELSE rest[i - Len(t)]
    BY <1>5, <1>10, ConcatProperties
  <2> QED
    BY <1>10, <2>1
<1>12. b \in Seq(Kind) /\ Len(b) = 1 + n /\ b[1] = "root"
       /\ \A i \in 2..1 + n : i - 1 \in 1..n /\ b[i] = rest[i - 1]
  <2>1. b = t \o rest
    BY DEF t
  <2> HIDE DEF b
  <2>2. 1 \in 1..1 + n
    BY <1>5
  <2>3. \A i \in 2..1 + n : i \in 1..1 + n /\ ~(i <= 1) /\ i - 1 \in 1..n
    BY <1>5
  <2> QED
    BY <1>10, <1>11, <2>1, <2>2, <2>3
<1> HIDE DEF a, b
<1>13. b # <<>>
  <2>1. Len(b) # 0
    BY <1>5, <1>12
  <2> QED
    BY <2>1, EmptySeq
<1>14. Range(b) = Range(rest) \union {"root"}
  <2>1. Range(b) = {b[i] : i \in 1..1 + n} /\ Range(rest) = {rest[i] : i \in 1..n}
    BY <1>5, <1>12, RangeIs
  <2>2. /\ 1 \in 1..1 + n
        /\ \A i \in 1..1 + n : i = 1 \/ i \in 2..1 + n
        /\ \A i \in 1..n : i + 1 \in 2..1 + n /\ i + 1 \in 1..1 + n /\ (i + 1) - 1 = i
    BY <1>5
  <2>3. \A i \in 1..n : b[i + 1] = rest[(i + 1) - 1]
    BY <1>12, <2>2
  <2>4. \A i \in 1..n : b[i + 1] = rest[i]
    BY <2>2, <2>3
  <2>5. ASSUME NEW i \in 1..1 + n PROVE b[i] \in Range(rest) \union {"root"}
    <3>1. CASE i = 1
      BY <1>12, <3>1
    <3>2. CASE i \in 2..1 + n
      <4>1. i - 1 \in 1..n /\ b[i] = rest[i - 1]
        BY <1>12, <3>2
      <4> QED
        BY <2>1, <4>1
    <3> QED
      BY <2>2, <3>1, <3>2
  <2>6. ASSUME NEW i \in 1..n PROVE rest[i] \in Range(b)
    <3>1. i + 1 \in 1..1 + n /\ b[i + 1] = rest[i]
      BY <2>2, <2>4
    <3> QED
      BY <2>1, <3>1
  <2>7. "root" \in Range(b)
    BY <1>12, <2>1, <2>2
  <2> QED
    BY <2>1, <2>5, <2>6, <2>7
<1>15. n + 1 <= MaxDepth /\ n + 1 = 1 + n
  BY <1>1, <1>4, <1>5, WindowAssumption
<1>16. Level("alarm") = 0 /\ Level("result") = 0 /\ ~(0 > 0)
  BY DEF Level, Asking, Form
<1>17. Well(a)
  <2>1. \A i \in 1..n + 1 : i = n + 1 \/ (i \in 1..n /\ a[i] \in {"alarm", "result"})
    BY <1>5, <1>7, <1>9
  <2>2. Piled(a)
    <3> SUFFICES ASSUME NEW i \in 1..n + 1, NEW j \in 1..n + 1, i < j,
                        Level(a[i]) > 0
                 PROVE  FALSE
      BY <1>9 DEF Piled
    <3>1. i # n + 1
      BY <1>5
    <3>2. Level(a[i]) = 0
      BY <1>16, <2>1, <3>1
    <3> QED
      BY <1>16, <3>2
  <2>3. Placed(a)
    BY <1>9, <2>1 DEF Placed
  <2> QED
    BY <1>9, <1>15, <2>2, <2>3 DEF Well
<1>18. Well(b)
  <2>1. \A i \in 1..1 + n : i = 1 \/ (i \in 2..1 + n /\ b[i] \in {"alarm", "result"})
    BY <1>5, <1>7, <1>12
  <2>2. Piled(b)
    <3> SUFFICES ASSUME NEW i \in 1..1 + n, NEW j \in 1..1 + n, i < j,
                        Level(b[j]) > 0
                 PROVE  FALSE
      BY <1>12 DEF Piled
    <3>1. j # 1
      BY <1>5
    <3>2. Level(b[j]) = 0
      BY <1>16, <2>1, <3>1
    <3> QED
      BY <1>16, <3>2
  <2>3. Placed(b)
    BY <1>12, <2>1 DEF Placed
  <2> QED
    BY <1>12, <1>15, <2>2, <2>3 DEF Well
<1> QED
  BY <1>4, <1>5, <1>6, <1>9, <1>13, <1>14, <1>17, <1>18 DEF a, b

-----------------------------------------------------------------------------
(* The invariant of the windows.                                           *)

WindowTypes ==
    /\ sw \in Session
    /\ dictating \in {"nobody", "session", "feedback"}
    /\ dictating # "nobody" => dictating \in Windows
    /\ waiting \subseteq Asking \intersect Windows
    /\ due \in [Asking -> 0..MaxDue]
    /\ root \in Handle
    /\ seen \subseteq Reasons
    /\ lost \subseteq Losses

\* A session w on the stack s, with dictation d and history h: its timer runs
\* only if something was said, and over another window only if an entry came
\* late; what it does not run for is known.
Sound(w, s, d, h) ==
    /\ w.armed => w.conv # "empty"
    /\ "session" \notin Range(s) => w = NoSession
    /\ w.armed /\ TopOf(s) # "session" => "late_entry" \in h
    /\ "session" \in Range(s) =>
          /\ w.timed /\ w.conv # "empty" => w.armed \/ w.excuse # "none"
          /\ w.conv = "empty" => d = "session" \/ w.excuse = "unheard"

\* A session that listens under another window was covered.
Heard == dictating = "session" /\ Top # "session" => "covered_dictation" \in seen

\* A form has an answer due that it does not wait for, or a second one, only
\* if one was left with its answer due.
Asked ==
    /\ \A w \in Form :
          due[w] > 0 /\ (w \notin waiting \/ due[w] > 1) => "abandoned" \in seen
    /\ dictating = "feedback" => "feedback" \notin waiting

\* The root window is subscribed while it is on top, until it was covered.
Rooted ==
    /\ root = "live" => Top = "root"
    /\ root = "stale" => "root_away" \in seen
    /\ Top = "root" => root # "none"

WInv ==
    /\ Well(stack) /\ WindowTypes /\ Sound(sw, stack, dictating, seen)
    /\ Heard /\ Asked /\ Rooted /\ LossesExplained

-----------------------------------------------------------------------------
(* What the steps of windows have in common.                               *)

\* The stack of the invariant.
LEMMA StackFacts ==
    ASSUME WInv
    PROVE  /\ stack \in Seq(Kind) /\ Len(stack) \in Nat /\ Len(stack) <= MaxDepth
           /\ Windows = Range(stack) /\ Windows \subseteq Kind
           /\ stack = <<>> <=> Windows = {}
           /\ stack # <<>> => /\ Top \in Windows
                              /\ Windows = Range(Front(stack)) \union {Top}
           /\ stack = <<>> => Top = "nothing"
<1>1. stack \in Seq(Kind) /\ Len(stack) <= MaxDepth
  BY DEF WInv, Well
<1> QED
  BY <1>1, RangeIs, FrontFacts DEF Windows, Top

\* What is remembered of a change of the stack.
LEMMA SeenInIs ==
    ASSUME NEW s
    PROVE  /\ SeenIn(s) \subseteq Reasons
           /\ dictating = "session" /\ "session" \in Range(s) /\ TopOf(s) # "session"
                 => "covered_dictation" \in SeenIn(s)
           /\ \A w \in Form : w \in Windows /\ w \notin Range(s) /\ due[w] > 0
                 => "abandoned" \in SeenIn(s)
           /\ Top = "root" /\ TopOf(s) # "root" => "root_away" \in SeenIn(s)
BY DEF SeenIn, Reasons

\* The stack becomes s.
LEMMA LayoutStep ==
    ASSUME WInv, NEW s, Well(s), NEW d \in {"nobody", "session", "feedback"},
           Layout(s, d), seen \subseteq seen',
           Top = "root" /\ TopOf(s) # "root" /\ root = "live" => "root_away" \in seen'
    PROVE  /\ stack' = s /\ Well(stack)'
           /\ Windows' = Range(s) /\ Top' = TopOf(s)
           /\ dictating' \in {"nobody", "session", "feedback"}
           /\ dictating' # "nobody" => dictating' = d /\ dictating' \in Windows'
           /\ d \in Range(s) => dictating' = d
           /\ waiting' = waiting \intersect Range(s)
           /\ waiting' \subseteq Asking \intersect Windows'
           /\ root' \in Handle /\ Rooted'
<1>1. stack' = s /\ Well(stack)' /\ Windows' = Range(s) /\ Top' = TopOf(s)
  <2>1. stack' = s
    BY DEF Layout
  <2> QED
    BY <2>1 DEF Well, Piled, Placed, Windows, Top
<1>2. /\ dictating' \in {"nobody", "session", "feedback"}
      /\ dictating' # "nobody" => dictating' = d /\ dictating' \in Windows'
      /\ d \in Range(s) => dictating' = d
  BY <1>1 DEF Layout
<1>3. /\ waiting' = waiting \intersect Range(s)
      /\ waiting' \subseteq Asking \intersect Windows'
  BY <1>1 DEF Layout, WInv, WindowTypes
<1>4. root' = RootIn(s) /\ root \in Handle /\ Rooted
  BY DEF Layout, WInv, WindowTypes
<1>5. TopOf(s) = "root" => "root" \in Range(s)
  <2>1. s \in Seq(Kind)
    BY DEF Well
  <2> QED
    BY <2>1, RangeIs
<1>6. root' \in Handle
  BY <1>4 DEF RootIn, Handle
<1>7. Rooted'
  <2>1. root' = "live" => TopOf(s) = "root"
    BY <1>4 DEF RootIn, Handle
  <2>2. root' = "stale" => "root_away" \in seen'
    BY <1>4 DEF RootIn, Handle, Rooted
  <2>3. TopOf(s) = "root" => root' # "none"
    BY <1>4, <1>5 DEF RootIn, Handle
  <2> QED
    BY <1>1, <2>1, <2>2, <2>3 DEF Rooted
<1> QED
  BY <1>1, <1>2, <1>3, <1>6, <1>7

\* Windows go, and nothing is sent or answered.
LEMMA FormsStep ==
    ASSUME WInv, NEW s, waiting' = waiting \intersect Range(s), due' = due,
           seen \subseteq seen', dictating' = "feedback" => dictating = "feedback",
           \A w \in Form : w \in Windows /\ w \notin Range(s) /\ due[w] > 0
               => "abandoned" \in seen'
    PROVE  /\ Asked'
           /\ \A w \in waiting' : due'[w] = 0 => "unanswered" \in seen'
<1>1. Asked /\ waiting \subseteq Windows
  BY DEF WInv, WindowTypes
<1>2. \A w \in Form : due'[w] > 0 /\ (w \notin waiting' \/ due'[w] > 1)
         => "abandoned" \in seen'
  BY <1>1 DEF Asked
<1>3. dictating' = "feedback" => "feedback" \notin waiting'
  BY <1>1 DEF Asked
<1>4. \A w \in waiting' : due'[w] = 0 => "unanswered" \in seen'
  BY DEF WInv, LossesExplained
<1> QED
  BY <1>2, <1>3, <1>4 DEF Asked

\* The session window after its disappear and unload handlers.
LEMMA SessionInSound ==
    ASSUME WInv, NEW s, "session" \in Range(s) => "session" \in Windows,
           NEW d, dictating = "session" /\ "session" \in Range(s) => d = "session",
           NEW h, seen \subseteq h
    PROVE  SessionIn(s) \in Session /\ Sound(SessionIn(s), s, d, h)
<1>1. sw \in Session /\ Sound(sw, stack, dictating, seen)
  BY DEF WInv, WindowTypes
<1>2. CASE "session" \notin Range(s)
  <2>1. SessionIn(s) = NoSession
    BY <1>2 DEF SessionIn
  <2> QED
    BY <1>2, <2>1 DEF Sound, NoSession, Session
<1>3. CASE "session" \in Range(s) /\ Top = "session" /\ TopOf(s) # "session"
  <2>1. SessionIn(s) = Covered(sw)
    BY <1>3 DEF SessionIn
  <2>2. /\ Covered(sw) \in Session
        /\ Covered(sw).armed = FALSE
        /\ Covered(sw).timed = sw.timed /\ Covered(sw).conv = sw.conv
        /\ Covered(sw).excuse # "none"
        /\ sw.excuse = "unheard" => Covered(sw).excuse = "unheard"
    BY <1>1 DEF Covered, Session
  <2>3. sw.conv = "empty" => dictating = "session" \/ sw.excuse = "unheard"
    BY <1>1, <1>3 DEF Sound, Windows
  <2> HIDE DEF Sound
  <2> QED
    BY <1>3, <2>1, <2>2, <2>3 DEF Sound
<1>4. CASE "session" \in Range(s) /\ ~(Top = "session" /\ TopOf(s) # "session")
  <2>1. SessionIn(s) = sw
    BY <1>4 DEF SessionIn
  <2>2. "session" \in Range(stack)
    BY <1>4 DEF Windows
  <2> QED
    BY <1>1, <1>4, <2>1, <2>2 DEF Sound, Top
<1> QED
  BY <1>2, <1>3, <1>4

\* Windows come or go, and nothing else happens.
LEMMA ShowStep ==
    ASSUME WInv, NEW s, Well(s), "session" \in Range(s) => "session" \in Windows,
           Show(s)
    PROVE  WInv'
<1>1. /\ Layout(s, dictating) /\ sw' = SessionIn(s) /\ seen' = seen \union SeenIn(s)
      /\ due' = due /\ lost' = {}
  BY DEF Show, Harmless
<1>2. dictating \in {"nobody", "session", "feedback"} /\ seen \subseteq Reasons
      /\ due \in [Asking -> 0..MaxDue]
  BY DEF WInv, WindowTypes
<1>3. seen \subseteq seen' /\ seen' \subseteq Reasons
  BY <1>1, <1>2, SeenInIs
<1>4. Top = "root" /\ TopOf(s) # "root" /\ root = "live" => "root_away" \in seen'
  BY <1>1, SeenInIs
<1>5. /\ stack' = s /\ Well(stack)'
      /\ Windows' = Range(s) /\ Top' = TopOf(s)
      /\ dictating' \in {"nobody", "session", "feedback"}
      /\ dictating' # "nobody" => dictating' = dictating /\ dictating' \in Windows'
      /\ dictating \in Range(s) => dictating' = dictating
      /\ waiting' = waiting \intersect Range(s)
      /\ waiting' \subseteq Asking \intersect Windows'
      /\ root' \in Handle /\ Rooted'
  BY <1>1, <1>2, <1>3, <1>4, LayoutStep
<1>6. /\ Asked'
      /\ \A w \in waiting' : due'[w] = 0 => "unanswered" \in seen'
  <2>1. \A w \in Form : w \in Windows /\ w \notin Range(s) /\ due[w] > 0
           => "abandoned" \in seen'
    BY <1>1, SeenInIs
  <2> QED
    BY <1>1, <1>3, <1>5, <2>1, FormsStep
<1>7. sw' \in Session /\ Sound(sw, stack, dictating, seen)'
  <2>1. dictating = "session" /\ "session" \in Range(s) => dictating' = "session"
    BY <1>5
  <2>2. SessionIn(s) \in Session /\ Sound(SessionIn(s), s, dictating', seen')
    BY <1>3, <2>1, SessionInSound
  <2> QED
    BY <1>1, <1>5, <2>2 DEF Sound
<1>8. Heard'
  BY <1>1, <1>5, SeenInIs DEF Heard
<1>9. WindowTypes'
  BY <1>1, <1>2, <1>3, <1>5, <1>7 DEF WindowTypes
<1>10. LossesExplained'
  BY <1>1, <1>6 DEF LossesExplained
<1> QED
  BY <1>5, <1>6, <1>7, <1>8, <1>9, <1>10 DEF WInv

\* The stack stays as it is.
LEMMA StillStep ==
    ASSUME WInv, UNCHANGED <<stack, root>>, seen \subseteq seen'
    PROVE  /\ Well(stack)' /\ Windows' = Windows /\ Top' = Top
           /\ root' \in Handle /\ Rooted'
<1>1. stack' = stack /\ root' = root /\ Well(stack) /\ Rooted /\ root \in Handle
  BY DEF WInv, WindowTypes
<1>2. Well(stack)' /\ Windows' = Windows /\ Top' = Top
  BY <1>1 DEF Well, Piled, Placed, Windows, Top
<1> QED
  BY <1>1, <1>2 DEF Rooted

\* Nothing is sent, answered or closed.
LEMMA SameForms ==
    ASSUME WInv, UNCHANGED <<waiting, due>>, seen \subseteq seen',
           dictating' = "feedback" => "feedback" \notin waiting
    PROVE  /\ Asked'
           /\ waiting' \subseteq Asking \intersect Windows
           /\ due' \in [Asking -> 0..MaxDue]
           /\ \A w \in waiting' : due'[w] = 0 => "unanswered" \in seen'
<1>1. Asked /\ waiting \subseteq Asking \intersect Windows
      /\ due \in [Asking -> 0..MaxDue] /\ LossesExplained
  BY DEF WInv, WindowTypes
<1> QED
  BY <1>1 DEF Asked, LossesExplained

\* Entries are added while the stack becomes s.
LEMMA EnteredFacts ==
    ASSUME WInv, NEW s, "session" \in Range(s), NEW conv \in {"busy", "idle"},
           Entered(s, conv)
    PROVE  /\ sw' \in Session
           /\ \A d : Sound(sw', s, d, seen')
           /\ seen \subseteq seen' /\ seen' \subseteq Reasons
           /\ SeenIn(s) \subseteq seen'
<1>1. sw \in Session /\ seen \subseteq Reasons
  BY DEF WInv, WindowTypes
<1>2. /\ sw' = [Refreshed(sw) EXCEPT !.conv = conv]
      /\ seen' = seen \union SeenIn(s)
                  \union IF sw.timed /\ TopOf(s) # "session"
                         THEN {"late_entry"} ELSE {}
  BY DEF Entered
<1>3. /\ sw' \in Session
      /\ sw'.armed = sw.timed /\ sw'.timed = sw.timed /\ sw'.conv = conv
  BY <1>1, <1>2 DEF Refreshed, Session
<1>4. seen \subseteq seen' /\ seen' \subseteq Reasons /\ SeenIn(s) \subseteq seen'
  BY <1>1, <1>2, SeenInIs DEF Reasons
<1>5. sw.timed /\ TopOf(s) # "session" => "late_entry" \in seen'
  BY <1>2
<1>6. \A d : Sound(sw', s, d, seen')
  BY <1>3, <1>5 DEF Sound
<1> QED
  BY <1>3, <1>4, <1>6

\* No consent window comes or goes.
ConsentKept ==
    Windows' \intersect {"consent", "choice"} = Windows \intersect {"consent", "choice"}

-----------------------------------------------------------------------------
(* The session window and its timeout.                                     *)

\* An entry of the conversation, shown by the session wherever it is on the stack.
LEMMA EntryArrivesStep ==
    ASSUME WInv, EntryArrives
    PROVE  WInv' /\ ConsentKept
<1>1. PICK conv \in {"busy", "idle"} : Entered(stack, conv)
  BY DEF EntryArrives
<1>2. /\ "session" \in Range(stack) /\ lost' = {}
      /\ UNCHANGED <<stack, dictating, waiting, due, root>>
  BY DEF EntryArrives, Harmless, Windows
<1>3. /\ sw' \in Session /\ \A d : Sound(sw', stack, d, seen')
      /\ seen \subseteq seen' /\ seen' \subseteq Reasons
  BY <1>1, <1>2, EnteredFacts
<1>4. /\ Well(stack)' /\ Windows' = Windows /\ Top' = Top
      /\ root' \in Handle /\ Rooted'
  BY <1>2, <1>3, StillStep
<1>5. WindowTypes /\ Heard /\ Asked
  BY DEF WInv
<1>6. /\ Asked' /\ waiting' \subseteq Asking \intersect Windows
      /\ due' \in [Asking -> 0..MaxDue]
      /\ \A w \in waiting' : due'[w] = 0 => "unanswered" \in seen'
  BY <1>2, <1>3, <1>5, SameForms DEF Asked
<1>7. Heard'
  BY <1>2, <1>3, <1>4, <1>5 DEF Heard
<1>8. Sound(sw, stack, dictating, seen)'
  BY <1>2, <1>3 DEF Sound
<1>9. WindowTypes'
  BY <1>2, <1>3, <1>4, <1>5, <1>6 DEF WindowTypes
<1>10. LossesExplained'
  BY <1>2, <1>6 DEF LossesExplained
<1> QED
  BY <1>4, <1>6, <1>7, <1>8, <1>9, <1>10 DEF WInv, ConsentKept

\* An update of the last entry, which restarts the quick-launch timer.
LEMMA EntryUpdatedStep ==
    ASSUME WInv, EntryUpdated
    PROVE  WInv' /\ ConsentKept
<1>1. PICK conv \in {sw.conv, "idle"} :
        \/ Entered(stack, conv)
        \/ sw' = [sw EXCEPT !.conv = conv] /\ UNCHANGED seen
  BY DEF EntryUpdated
<1>2. /\ "session" \in Range(stack) /\ lost' = {} /\ sw.conv # "empty"
      /\ UNCHANGED <<stack, dictating, waiting, due, root>>
  BY DEF EntryUpdated, Harmless, Windows
<1>3. WindowTypes /\ Heard /\ Asked /\ Sound(sw, stack, dictating, seen)
  BY DEF WInv
<1>4. conv \in {"busy", "idle"}
  BY <1>2, <1>3 DEF WindowTypes, Session
<1>5. /\ sw' \in Session /\ Sound(sw', stack, dictating, seen')
      /\ seen \subseteq seen' /\ seen' \subseteq Reasons
  <2>1. CASE Entered(stack, conv)
    BY <1>2, <1>4, <2>1, EnteredFacts
  <2>2. CASE sw' = [sw EXCEPT !.conv = conv] /\ UNCHANGED seen
    <3>1. /\ sw' \in Session /\ sw'.armed = sw.armed /\ sw'.timed = sw.timed
          /\ sw'.conv = conv /\ sw'.excuse = sw.excuse
      BY <1>3, <1>4, <2>2 DEF WindowTypes, Session
    <3>2. Sound(sw', stack, dictating, seen')
      BY <1>2, <1>3, <1>4, <2>2, <3>1 DEF Sound
    <3> QED
      BY <1>3, <2>2, <3>1, <3>2 DEF WindowTypes
  <2> QED
    BY <1>1, <2>1, <2>2
<1>6. /\ Well(stack)' /\ Windows' = Windows /\ Top' = Top
      /\ root' \in Handle /\ Rooted'
  BY <1>2, <1>5, StillStep
<1>7. /\ Asked' /\ waiting' \subseteq Asking \intersect Windows
      /\ due' \in [Asking -> 0..MaxDue]
      /\ \A w \in waiting' : due'[w] = 0 => "unanswered" \in seen'
  BY <1>2, <1>3, <1>5, SameForms DEF Asked
<1>8. Heard'
  BY <1>2, <1>3, <1>5, <1>6 DEF Heard
<1>9. Sound(sw, stack, dictating, seen)'
  BY <1>2, <1>5 DEF Sound
<1>10. WindowTypes'
  BY <1>2, <1>3, <1>5, <1>6, <1>7 DEF WindowTypes
<1>11. LossesExplained'
  BY <1>2, <1>7 DEF LossesExplained
<1> QED
  BY <1>6, <1>7, <1>8, <1>9, <1>10, <1>11 DEF WInv, ConsentKept

\* The user scrolls the session: the timer starts anew.
LEMMA ScrollStep ==
    ASSUME WInv, Scroll
    PROVE  WInv' /\ ConsentKept
<1>1. /\ Top = "session" /\ sw.conv # "empty" /\ sw' = Refreshed(sw) /\ lost' = {}
      /\ UNCHANGED <<stack, dictating, waiting, due, root, seen>>
  BY DEF Scroll, At, Harmless
<1>2. WindowTypes /\ Heard /\ Asked /\ Sound(sw, stack, dictating, seen)
  BY DEF WInv
<1>3. /\ Well(stack)' /\ Windows' = Windows /\ Top' = Top
      /\ root' \in Handle /\ Rooted'
  BY <1>1, StillStep
<1>4. /\ Asked' /\ waiting' \subseteq Asking \intersect Windows
      /\ due' \in [Asking -> 0..MaxDue]
      /\ \A w \in waiting' : due'[w] = 0 => "unanswered" \in seen'
  BY <1>1, <1>2, SameForms DEF Asked
<1>5. /\ sw' \in Session /\ sw'.armed = sw.timed /\ sw'.timed = sw.timed
      /\ sw'.conv = sw.conv
  BY <1>1, <1>2 DEF WindowTypes, Session, Refreshed
<1>6. "session" \in Range(stack)
  <2>1. stack # <<>>
    BY <1>1, StackFacts
  <2> QED
    BY <1>1, <2>1, StackFacts
<1>7. Sound(sw, stack, dictating, seen)'
  BY <1>1, <1>2, <1>5, <1>6 DEF Sound, Top
<1>8. Heard'
  BY <1>1, <1>2, <1>3 DEF Heard
<1>9. WindowTypes'
  BY <1>1, <1>2, <1>3, <1>4, <1>5 DEF WindowTypes
<1>10. LossesExplained'
  BY <1>1, <1>4 DEF LossesExplained
<1> QED
  BY <1>3, <1>4, <1>7, <1>8, <1>9, <1>10 DEF WInv, ConsentKept

\* A session means that no consent is asked for.
LEMMA NoConsent ==
    ASSUME WInv, NEW w \in Windows, w \notin OverConsent \union {"consent"}
    PROVE  "consent" \notin Windows /\ "choice" \notin Windows
<1>1. Well(stack) /\ Windows = Range(stack)
  BY DEF WInv, Windows
<1> QED
  BY <1>1, ConsentAlone

\* The quick-launch timer pops whatever window is on top.
LEMMA TimedOutStep ==
    ASSUME WInv, TimedOut
    PROVE  WInv' /\ ConsentKept
<1> DEFINE f == Front(stack)
<1>1. /\ sw.armed /\ stack # <<>> /\ Layout(f, dictating)
      /\ sw' = IF Top = "session" THEN SessionIn(f)
               ELSE [sw EXCEPT !.armed = FALSE, !.excuse = "misfired"]
      /\ lost' = IF Top = "session" THEN {} ELSE {"timeout"}
      /\ seen' = seen \union SeenIn(f) /\ due' = due
  BY DEF TimedOut
<1>2. /\ Well(stack) /\ WindowTypes /\ Heard /\ Asked
      /\ Sound(sw, stack, dictating, seen)
  BY DEF WInv
<1>3. "session" \in Windows
  <2>1. "session" \notin Windows => sw = NoSession
    BY <1>2 DEF Sound, Windows
  <2> QED
    BY <1>1, <2>1 DEF NoSession
<1>4. Windows = Range(f) \union {Top}
  BY <1>1, StackFacts
<1>5. Well(f)
  BY <1>1, <1>2, FrontWell
<1>6. seen \subseteq seen' /\ seen' \subseteq Reasons
  BY <1>1, <1>2, SeenInIs DEF WindowTypes
<1>7. Top = "root" /\ TopOf(f) # "root" /\ root = "live" => "root_away" \in seen'
  BY <1>1, SeenInIs
<1>8. dictating \in {"nobody", "session", "feedback"}
  BY <1>2 DEF WindowTypes
<1> HIDE DEF f
<1>9. /\ stack' = f /\ Well(stack)'
      /\ Windows' = Range(f) /\ Top' = TopOf(f)
      /\ dictating' \in {"nobody", "session", "feedback"}
      /\ dictating' # "nobody" => dictating' = dictating /\ dictating' \in Windows'
      /\ dictating \in Range(f) => dictating' = dictating
      /\ waiting' = waiting \intersect Range(f)
      /\ waiting' \subseteq Asking \intersect Windows'
      /\ root' \in Handle /\ Rooted'
  BY <1>1, <1>5, <1>6, <1>7, <1>8, LayoutStep
<1>10. /\ Asked'
       /\ \A w \in waiting' : due'[w] = 0 => "unanswered" \in seen'
  <2>1. \A w \in Form : w \in Windows /\ w \notin Range(f) /\ due[w] > 0
           => "abandoned" \in seen'
    BY <1>1, SeenInIs
  <2> QED
    BY <1>1, <1>6, <1>9, <2>1, FormsStep
<1>11. sw' \in Session /\ Sound(sw', f, dictating', seen')
  <2>1. CASE Top = "session"
    <3>1. dictating = "session" /\ "session" \in Range(f) => dictating' = "session"
      BY <1>9
    <3> QED
      BY <1>1, <1>3, <1>6, <2>1, <3>1, SessionInSound
  <2>2. CASE Top # "session"
    <3>1. "session" \in Range(f)
      BY <1>3, <1>4, <2>2
    <3>2. /\ sw' \in Session /\ sw'.armed = FALSE /\ sw'.timed = sw.timed
          /\ sw'.conv = sw.conv /\ sw'.excuse = "misfired"
      BY <1>1, <1>2, <2>2 DEF WindowTypes, Session
    <3>3. sw.conv # "empty"
      BY <1>1, <1>2 DEF Sound
    <3> QED
      BY <3>1, <3>2, <3>3 DEF Sound
  <2> QED
    BY <2>1, <2>2
<1>12. Heard'
  BY <1>1, <1>9, SeenInIs DEF Heard
<1>13. WindowTypes'
  <2>1. lost' \subseteq Losses
    BY <1>1 DEF Losses
  <2> QED
    BY <1>1, <1>2, <1>6, <1>9, <1>11, <2>1 DEF WindowTypes
<1>14. LossesExplained'
  <2>1. "timeout" \in lost' => "late_entry" \in seen'
    BY <1>1, <1>2, <1>6 DEF Sound, Top
  <2>2. lost' \subseteq {"timeout"}
    BY <1>1
  <2> QED
    BY <1>10, <2>1, <2>2 DEF LossesExplained
<1>15. Sound(sw, stack, dictating, seen)'
  BY <1>9, <1>11 DEF Sound
<1>16. ConsentKept
  <2>1. "consent" \notin Windows /\ "choice" \notin Windows
    BY <1>3, NoConsent DEF OverConsent
  <2> QED
    BY <1>4, <1>9, <2>1 DEF ConsentKept
<1> QED
  BY <1>9, <1>10, <1>12, <1>13, <1>14, <1>15, <1>16 DEF WInv

\* The user starts a dictation from the session.
LEMMA SpeakStep ==
    ASSUME WInv, Speak
    PROVE  WInv' /\ ConsentKept
<1>1. /\ Top = "session" /\ dictating' = "session" /\ lost' = {}
      /\ sw' = sw \/ sw' = Covered(sw)
      /\ UNCHANGED <<stack, waiting, due, root, seen>>
  BY DEF Speak, At, Harmless
<1>2. /\ WindowTypes /\ Sound(sw, stack, dictating, seen)
  BY DEF WInv
<1>3. /\ Well(stack)' /\ Windows' = Windows /\ Top' = Top
      /\ root' \in Handle /\ Rooted'
  BY <1>1, StillStep
<1>4. /\ Asked' /\ waiting' \subseteq Asking \intersect Windows
      /\ due' \in [Asking -> 0..MaxDue]
      /\ \A w \in waiting' : due'[w] = 0 => "unanswered" \in seen'
  BY <1>1, SameForms
<1>5. "session" \in Range(stack) /\ "session" \in Windows
  <2>1. stack # <<>>
    BY <1>1, StackFacts
  <2> QED
    BY <1>1, <2>1, StackFacts
<1>6. sw' \in Session /\ Sound(sw', stack, "session", seen)
  <2>1. CASE sw' = sw
    BY <1>2, <1>5, <2>1 DEF Sound, WindowTypes
  <2>2. CASE sw' = Covered(sw)
    <3>1. /\ sw' \in Session /\ sw'.armed = FALSE /\ sw'.excuse # "none"
      BY <1>2, <2>2 DEF Covered, Session, WindowTypes
    <3> QED
      BY <1>5, <3>1 DEF Sound
  <2> QED
    BY <1>1, <2>1, <2>2
<1>7. Sound(sw, stack, dictating, seen)'
  BY <1>1, <1>6 DEF Sound
<1>8. Heard'
  BY <1>1, <1>3 DEF Heard
<1>9. WindowTypes'
  BY <1>1, <1>2, <1>3, <1>4, <1>5, <1>6 DEF WindowTypes
<1>10. LossesExplained'
  BY <1>1, <1>4 DEF LossesExplained
<1> QED
  BY <1>3, <1>4, <1>7, <1>8, <1>9, <1>10 DEF WInv, ConsentKept

\* A dictation of the session that succeeds goes back to the session.
LEMMA DictationSucceedsStep ==
    ASSUME WInv, DictationSucceeds
    PROVE  WInv' /\ ConsentKept
<1>1. PICK conv \in {"busy", "idle"} : Entered(stack, conv)
  BY DEF DictationSucceeds
<1>2. /\ dictating = "session" /\ dictating' = "nobody" /\ lost' = {}
      /\ UNCHANGED <<stack, waiting, due, root>>
  BY DEF DictationSucceeds, Harmless
<1>3. WindowTypes
  BY DEF WInv
<1>4. "session" \in Range(stack)
  BY <1>2, <1>3 DEF WindowTypes, Windows
<1>5. /\ sw' \in Session /\ \A d : Sound(sw', stack, d, seen')
      /\ seen \subseteq seen' /\ seen' \subseteq Reasons
  BY <1>1, <1>4, EnteredFacts
<1>6. /\ Well(stack)' /\ Windows' = Windows /\ Top' = Top
      /\ root' \in Handle /\ Rooted'
  BY <1>2, <1>5, StillStep
<1>7. /\ Asked' /\ waiting' \subseteq Asking \intersect Windows
      /\ due' \in [Asking -> 0..MaxDue]
      /\ \A w \in waiting' : due'[w] = 0 => "unanswered" \in seen'
  BY <1>2, <1>5, SameForms
<1>8. Heard'
  BY <1>2 DEF Heard
<1>9. Sound(sw, stack, dictating, seen)'
  BY <1>2, <1>5 DEF Sound
<1>10. WindowTypes'
  BY <1>2, <1>5, <1>6, <1>7 DEF WindowTypes
<1>11. LossesExplained'
  BY <1>2, <1>7 DEF LossesExplained
<1> QED
  BY <1>6, <1>7, <1>8, <1>9, <1>10, <1>11 DEF WInv, ConsentKept

\* A dictation of the session that fails may pop what is on top.
LEMMA DictationFailsStep ==
    ASSUME WInv, DictationFails
    PROVE  WInv' /\ ConsentKept
<1>1. /\ Well(stack) /\ WindowTypes /\ Heard /\ Asked
      /\ Sound(sw, stack, dictating, seen)
  BY DEF WInv
<1>2. dictating = "session" /\ due' = due /\ "session" \in Windows
  BY <1>1 DEF DictationFails, WindowTypes
<1>3. CASE /\ sw.conv # "empty" /\ dictating' = "nobody" /\ lost' = {}
           /\ UNCHANGED <<stack, sw, waiting, root, seen>>
  <2>1. /\ Well(stack)' /\ Windows' = Windows /\ Top' = Top
        /\ root' \in Handle /\ Rooted'
    BY <1>3, StillStep
  <2>2. /\ Asked' /\ waiting' \subseteq Asking \intersect Windows
        /\ due' \in [Asking -> 0..MaxDue]
        /\ \A w \in waiting' : due'[w] = 0 => "unanswered" \in seen'
    BY <1>2, <1>3, SameForms
  <2>3. Sound(sw, stack, dictating, seen)'
    BY <1>1, <1>3 DEF Sound
  <2>4. Heard' /\ WindowTypes'
    BY <1>1, <1>3, <2>1, <2>2 DEF Heard, WindowTypes
  <2>5. LossesExplained'
    BY <1>3, <2>2 DEF LossesExplained
  <2> QED
    BY <2>1, <2>2, <2>3, <2>4, <2>5 DEF WInv, ConsentKept
<1>4. CASE /\ sw.conv = "empty" /\ Layout(Front(stack), "nobody")
           /\ sw' = IF Top = "session" THEN SessionIn(Front(stack))
                    ELSE [sw EXCEPT !.excuse = "unheard"]
           /\ lost' = IF Top = "session" THEN {} ELSE {"dictation"}
           /\ seen' = seen \union SeenIn(Front(stack))
  <2> DEFINE f == Front(stack)
  <2>1. stack # <<>>
    BY <1>2, StackFacts
  <2>2. Windows = Range(f) \union {Top}
    BY <2>1, StackFacts
  <2>3. Well(f)
    BY <1>1, <2>1, FrontWell
  <2>4. /\ seen \subseteq seen' /\ seen' \subseteq Reasons
        /\ Top = "root" /\ TopOf(f) # "root" /\ root = "live" => "root_away" \in seen'
    BY <1>1, <1>4, SeenInIs DEF WindowTypes
  <2>5. /\ stack' = f /\ Well(stack)'
        /\ Windows' = Range(f) /\ Top' = TopOf(f)
        /\ dictating' \in {"nobody", "session", "feedback"}
        /\ dictating' # "nobody" => dictating' = "nobody" /\ dictating' \in Windows'
        /\ waiting' = waiting \intersect Range(f)
        /\ waiting' \subseteq Asking \intersect Windows'
        /\ root' \in Handle /\ Rooted'
    BY <1>4, <2>3, <2>4, LayoutStep
  <2>6. Top = "session" => "session" \notin Range(f)
    <3>1. Level("session") > 0
      BY DEF Level, Asking, Form
    <3> QED
      BY <1>1, <2>1, <3>1, TopOnce DEF Top
  <2>7. /\ Asked'
        /\ \A w \in waiting' : due'[w] = 0 => "unanswered" \in seen'
    <3>1. \A w \in Form : w \in Windows /\ w \notin Range(f) /\ due[w] > 0
             => "abandoned" \in seen'
      BY <1>4, SeenInIs
    <3> QED
      BY <1>2, <2>4, <2>5, <3>1, FormsStep
  <2>8. sw' \in Session /\ Sound(sw', f, dictating', seen')
    <3>1. CASE Top = "session"
      <4>1. dictating = "session" /\ "session" \in Range(f)
               => dictating' = "session"
        BY <2>6, <3>1
      <4>2. sw' = SessionIn(f)
        BY <1>4, <3>1
      <4> HIDE DEF f
      <4> QED
        BY <1>2, <2>4, <4>1, <4>2, SessionInSound
    <3>2. CASE Top # "session"
      <4>1. "session" \in Range(f)
        BY <1>2, <2>2, <3>2
      <4>2. /\ sw' \in Session /\ sw'.armed = sw.armed /\ sw'.timed = sw.timed
            /\ sw'.conv = sw.conv /\ sw'.excuse = "unheard"
        BY <1>1, <1>4, <3>2 DEF WindowTypes, Session
      <4>3. ~sw.armed
        BY <1>1, <1>4 DEF Sound
      <4> HIDE DEF f
      <4> QED
        BY <4>1, <4>2, <4>3 DEF Sound
    <3> QED
      BY <3>1, <3>2
  <2>9. Heard'
    BY <2>5 DEF Heard
  <2>10. WindowTypes'
    <3>1. lost' \subseteq Losses
      BY <1>4 DEF Losses
    <3> QED
      BY <1>1, <1>2, <2>4, <2>5, <2>8, <3>1 DEF WindowTypes
  <2>11. LossesExplained'
    <3>1. "dictation" \in lost' => "covered_dictation" \in seen'
      BY <1>1, <1>2, <1>4, <2>4 DEF Heard
    <3>2. lost' \subseteq {"dictation"}
      BY <1>4
    <3> QED
      BY <2>7, <3>1, <3>2 DEF LossesExplained
  <2>12. Sound(sw, stack, dictating, seen)'
    BY <2>5, <2>8 DEF Sound
  <2>13. ConsentKept
    <3>1. "consent" \notin Windows /\ "choice" \notin Windows
      BY <1>2, NoConsent DEF OverConsent
    <3> QED
      BY <2>2, <2>5, <3>1 DEF ConsentKept
  <2> QED
    BY <2>5, <2>7, <2>9, <2>10, <2>11, <2>12, <2>13 DEF WInv
<1> QED
  BY <1>3, <1>4 DEF DictationFails, Harmless

\* A window that is not of a consent is pushed.
LEMMA PushStep ==
    ASSUME WInv, NEW w \in Kind \ {"session", "consent", "choice"},
           Len(stack) < MaxDepth => Well(Append(stack, w)), Push(w)
    PROVE  WInv' /\ ConsentKept
<1>1. Len(stack) < MaxDepth /\ Show(Append(stack, w))
  BY DEF Push, Over
<1>2. Range(Append(stack, w)) = Windows \union {w}
  BY StackFacts, AppendFacts
<1>3. WInv'
  BY <1>1, <1>2, ShowStep
<1>4. Windows' = Range(Append(stack, w))
  BY <1>1 DEF Show, Layout, Windows
<1> QED
  BY <1>2, <1>3, <1>4 DEF ConsentKept

\* A long press on the session opens its action menu.
LEMMA LongPressStep ==
    ASSUME WInv, LongPress
    PROVE  WInv' /\ ConsentKept
<1>1. Top = "session" /\ Push("actions")
  BY DEF LongPress, At
<1>2. Well(stack) /\ TopOf(stack) = "session"
  BY <1>1 DEF WInv, Top
<1>3. /\ "actions" \in Kind \ {"session", "consent", "choice"}
      /\ Level("session") > 0 /\ Level("session") < Level("actions")
  BY DEF Kind, Level, Asking, Form
<1> QED
  BY <1>1, <1>2, <1>3, OpenedWell, PushStep

\* The action menu's canned prompt goes to the session below it.
LEMMA ActionInputStep ==
    ASSUME WInv, ActionInput
    PROVE  WInv' /\ ConsentKept
<1> DEFINE f == Front(stack)
<1>1. PICK conv \in {"busy", "idle"} : Entered(f, conv)
  BY DEF ActionInput
<1>2. /\ Top = "actions" /\ dictating = "nobody" /\ Layout(f, dictating)
      /\ due' = due /\ lost' = {}
  BY DEF ActionInput, At, Quiet, Harmless
<1>3. /\ Well(stack) /\ WindowTypes /\ TopOf(stack) = "actions"
  BY <1>2 DEF WInv, Top
<1>4. stack # <<>> /\ f # <<>> /\ TopOf(f) = "session"
  BY <1>3, MenuOverSession
<1>5. Well(f)
  BY <1>3, <1>4, FrontWell
<1>6. "session" \in Range(f)
  BY <1>4, <1>5, RangeIs DEF Well
<1>7. Windows = Range(f) \union {Top}
  BY <1>4, StackFacts
<1> HIDE DEF f
<1>8. /\ sw' \in Session /\ \A d : Sound(sw', f, d, seen')
      /\ seen \subseteq seen' /\ seen' \subseteq Reasons /\ SeenIn(f) \subseteq seen'
  BY <1>1, <1>6, EnteredFacts
<1>9. /\ stack' = f /\ Well(stack)'
      /\ Windows' = Range(f) /\ Top' = TopOf(f)
      /\ dictating' \in {"nobody", "session", "feedback"}
      /\ dictating' # "nobody" => dictating' = dictating /\ dictating' \in Windows'
      /\ waiting' = waiting \intersect Range(f)
      /\ waiting' \subseteq Asking \intersect Windows'
      /\ root' \in Handle /\ Rooted'
  BY <1>2, <1>5, <1>8, LayoutStep
<1>10. /\ Asked'
       /\ \A w \in waiting' : due'[w] = 0 => "unanswered" \in seen'
  <2>1. \A w \in Form : w \in Windows /\ w \notin Range(f) /\ due[w] > 0
           => "abandoned" \in seen'
    BY <1>8, SeenInIs
  <2> QED
    BY <1>2, <1>8, <1>9, <2>1, FormsStep
<1>11. Heard'
  BY <1>4, <1>9 DEF Heard
<1>12. Sound(sw, stack, dictating, seen)'
  BY <1>8, <1>9 DEF Sound
<1>13. WindowTypes'
  BY <1>2, <1>3, <1>8, <1>9 DEF WindowTypes
<1>14. LossesExplained'
  BY <1>2, <1>10 DEF LossesExplained
<1>15. ConsentKept
  BY <1>2, <1>7, <1>9 DEF ConsentKept
<1> QED
  BY <1>9, <1>10, <1>11, <1>12, <1>13, <1>14, <1>15 DEF WInv

\* The action menu's dictation is the session's.
LEMMA ActionDictateStep ==
    ASSUME WInv, ActionDictate
    PROVE  WInv' /\ ConsentKept
<1> DEFINE f == Front(stack)
<1>1. /\ Top = "actions" /\ dictating = "nobody" /\ Layout(f, "session")
      /\ UNCHANGED <<sw, due, seen>> /\ lost' = {}
  BY DEF ActionDictate, At, Quiet, Harmless
<1>2. /\ Well(stack) /\ WindowTypes /\ Sound(sw, stack, dictating, seen)
      /\ TopOf(stack) = "actions"
  BY <1>1 DEF WInv, Top
<1>3. stack # <<>> /\ f # <<>> /\ TopOf(f) = "session"
  BY <1>2, MenuOverSession
<1>4. Well(f)
  BY <1>2, <1>3, FrontWell
<1>5. "session" \in Range(f)
  BY <1>3, <1>4, RangeIs DEF Well
<1>6. Windows = Range(f) \union {Top}
  BY <1>3, StackFacts
<1> HIDE DEF f
<1>7. /\ stack' = f /\ Well(stack)'
      /\ Windows' = Range(f) /\ Top' = TopOf(f)
      /\ dictating' \in {"nobody", "session", "feedback"}
      /\ dictating' # "nobody" => dictating' = "session" /\ dictating' \in Windows'
      /\ "session" \in Range(f) => dictating' = "session"
      /\ waiting' = waiting \intersect Range(f)
      /\ waiting' \subseteq Asking \intersect Windows'
      /\ root' \in Handle /\ Rooted'
  BY <1>1, <1>4, LayoutStep
<1>8. /\ Asked'
      /\ \A w \in waiting' : due'[w] = 0 => "unanswered" \in seen'
  <2>1. \A w \in Form : ~(w \in Windows /\ w \notin Range(f))
    BY <1>1, <1>6 DEF Form
  <2> QED
    BY <1>1, <1>7, <2>1, FormsStep
<1>9. Heard'
  BY <1>3, <1>7 DEF Heard
<1>10. Sound(sw, f, "session", seen)
  <2>1. "session" \in Range(stack)
    BY <1>5, <1>6 DEF Windows
  <2> QED
    BY <1>2, <1>3, <1>5, <2>1 DEF Sound
<1>11. Sound(sw, stack, dictating, seen)'
  BY <1>1, <1>5, <1>7, <1>10 DEF Sound
<1>12. WindowTypes'
  BY <1>1, <1>2, <1>7 DEF WindowTypes
<1>13. LossesExplained'
  BY <1>1, <1>8 DEF LossesExplained
<1>14. ConsentKept
  BY <1>1, <1>6, <1>7 DEF ConsentKept
<1> QED
  BY <1>7, <1>8, <1>9, <1>11, <1>12, <1>13, <1>14 DEF WInv

\* The action menu opens the report window in its place.
LEMMA ActionReportStep ==
    ASSUME WInv, ActionReport
    PROVE  WInv' /\ ConsentKept
<1> DEFINE s == Append(Front(stack), "report")
<1>1. Top = "actions" /\ Show(s)
  BY DEF ActionReport, At
<1>2. Well(stack) /\ TopOf(stack) = "actions"
  BY <1>1 DEF WInv, Top
<1>3. stack # <<>>
  BY <1>2 DEF TopOf
<1>4. "report" \in Kind \ {"actions", "consent", "choice"}
      /\ Level("report") = Level("actions") /\ Level("actions") > 0
  BY DEF Kind, Level, Asking, Form
<1>5. Well(s)
  BY <1>2, <1>4, ReplacedWell
<1>6. Windows = Range(Front(stack)) \union {Top}
  BY <1>3, StackFacts
<1>7. Range(s) = Range(Front(stack)) \union {"report"}
  BY <1>3, <1>4, StackFacts, FrontFacts, AppendFacts
<1> HIDE DEF s
<1>8. WInv'
  BY <1>1, <1>5, <1>6, <1>7, ShowStep
<1>9. Windows' = Range(s)
  BY <1>1 DEF Show, Layout, Windows
<1> QED
  BY <1>1, <1>6, <1>7, <1>8, <1>9 DEF ConsentKept

-----------------------------------------------------------------------------
(* The root window, its menu and the screens of that.                      *)

\* A session window is pushed, with a prompt or listening.
LEMMA PushSessionStep ==
    ASSUME WInv, NEW s, Well(s), TopOf(s) = "session", NEW prompted \in BOOLEAN,
           PushSession(s, FALSE, prompted), Range(s) \subseteq Windows \union {"session"},
           Windows \subseteq Range(s) \union {"suggestions"}
    PROVE  WInv' /\ ConsentKept
<1> DEFINE d == IF prompted THEN "nobody" ELSE "session"
<1>1. /\ Layout(s, d) /\ seen' = seen \union SeenIn(s) /\ due' = due /\ lost' = {}
  BY DEF PushSession, Harmless
<1>2. PICK conv \in IF prompted THEN {"busy", "idle"} ELSE {"empty"} :
        sw' = [timed |-> FALSE, armed |-> FALSE /\ prompted, conv |-> conv,
               excuse |-> "none"]
  BY DEF PushSession
<1>3. /\ sw' \in Session /\ sw'.timed = FALSE /\ sw'.armed = FALSE
      /\ sw'.conv = "empty" => ~prompted
  <2>1. sw' = [timed |-> FALSE, armed |-> FALSE, conv |-> conv, excuse |-> "none"]
    BY <1>2
  <2>2. conv \in {"empty", "busy", "idle"} /\ (conv = "empty" => ~prompted)
    BY <1>2
  <2> QED
    BY <2>1, <2>2 DEF Session
<1>4. WindowTypes
  BY DEF WInv
<1>5. /\ seen \subseteq seen' /\ seen' \subseteq Reasons
      /\ Top = "root" /\ TopOf(s) # "root" /\ root = "live" => "root_away" \in seen'
  BY <1>1, <1>4, SeenInIs DEF WindowTypes
<1>6. d \in {"nobody", "session", "feedback"} /\ d # "feedback"
      /\ (~prompted => d = "session")
  OBVIOUS
<1> HIDE DEF d
<1>7. /\ stack' = s /\ Well(stack)'
      /\ Windows' = Range(s) /\ Top' = TopOf(s)
      /\ dictating' \in {"nobody", "session", "feedback"}
      /\ dictating' # "nobody" => dictating' = d /\ dictating' \in Windows'
      /\ d \in Range(s) => dictating' = d
      /\ waiting' = waiting \intersect Range(s)
      /\ waiting' \subseteq Asking \intersect Windows'
      /\ root' \in Handle /\ Rooted'
  BY <1>1, <1>5, <1>6, LayoutStep
<1>8. "session" \in Range(s)
  <2>1. s \in Seq(Kind) /\ s # <<>>
    BY DEF Well, TopOf
  <2> QED
    BY <2>1, RangeIs
<1>9. /\ Asked'
      /\ \A w \in waiting' : due'[w] = 0 => "unanswered" \in seen'
  <2>1. \A w \in Form : w \in Windows /\ w \notin Range(s) /\ due[w] > 0
           => "abandoned" \in seen'
    BY <1>1, SeenInIs
  <2>2. dictating' # "feedback"
    BY <1>6, <1>7
  <2> QED
    BY <1>1, <1>5, <1>7, <2>1, <2>2, FormsStep
<1>10. Heard'
  BY <1>7 DEF Heard
<1>11. Sound(sw', s, dictating', seen')
  <2>1. sw'.conv = "empty" => dictating' = "session"
    BY <1>3, <1>6, <1>7, <1>8
  <2> QED
    BY <1>3, <1>8, <2>1 DEF Sound
<1>12. Sound(sw, stack, dictating, seen)'
  BY <1>7, <1>11 DEF Sound
<1>13. WindowTypes'
  BY <1>1, <1>3, <1>4, <1>5, <1>7 DEF WindowTypes
<1>14. LossesExplained'
  BY <1>1, <1>9 DEF LossesExplained
<1>15. ConsentKept
  BY <1>7 DEF ConsentKept
<1> QED
  BY <1>7, <1>9, <1>10, <1>12, <1>13, <1>14, <1>15 DEF WInv

\* The root window opens a session that dictates at once.
LEMMA PromptClickedStep ==
    ASSUME WInv, PromptClicked
    PROVE  WInv' /\ ConsentKept
<1> DEFINE s == Append(stack, "session")
<1>1. Top = "root" /\ Len(stack) < MaxDepth /\ PushSession(s, FALSE, FALSE)
  BY DEF PromptClicked, At, Over
<1>2. Well(stack) /\ TopOf(stack) = "root"
  BY <1>1 DEF WInv, Top
<1>3. /\ "session" \in Kind \ {"consent", "choice"}
      /\ Level("root") > 0 /\ Level("root") < Level("session")
  BY DEF Kind, Level, Asking, Form
<1>4. Well(s)
  BY <1>1, <1>2, <1>3, OpenedWell
<1>5. Range(s) = Windows \union {"session"} /\ TopOf(s) = "session"
  BY <1>3, StackFacts, AppendFacts
<1> HIDE DEF s
<1> QED
  BY <1>1, <1>4, <1>5, PushSessionStep

\* A suggestion of the root window opens a session.
LEMMA SuggestionClickedStep ==
    ASSUME WInv, SuggestionClicked
    PROVE  WInv' /\ ConsentKept
<1> DEFINE s == Append(Front(stack), "session")
<1>1. Top = "suggestions" /\ PushSession(s, FALSE, TRUE)
  BY DEF SuggestionClicked, At
<1>2. Well(stack) /\ TopOf(stack) = "suggestions"
  BY <1>1 DEF WInv, Top
<1>3. /\ "session" \in Kind \ {"actions", "consent", "choice"}
      /\ Level("suggestions") > 0 /\ Level("suggestions") = Level("session")
  BY DEF Kind, Level, Asking, Form
<1>4. Well(s)
  BY <1>1, <1>2, <1>3, ReplacedWell
<1>5. stack # <<>> /\ Windows = Range(Front(stack)) \union {Top}
  <2>1. stack # <<>>
    BY <1>1, StackFacts
  <2> QED
    BY <2>1, StackFacts
<1>6. Range(s) = Range(Front(stack)) \union {"session"} /\ TopOf(s) = "session"
  BY <1>3, <1>5, StackFacts, FrontFacts, AppendFacts
<1> HIDE DEF s
<1> QED
  BY <1>1, <1>4, <1>5, <1>6, PushSessionStep

\* Suggestions, menus and windows of text are pushed over the root window.
LEMMA MenusStep ==
    ASSUME WInv, OpenSuggestions \/ OpenMenu \/ OpenScreen
    PROVE  WInv' /\ ConsentKept
<1>1. Well(stack)
  BY DEF WInv
<1>2. PICK w \in {"suggestions", "menu", "screen", "feedback"} :
        /\ Push(w)
        /\ \/ Top = "root" /\ w \in {"suggestions", "menu"}
           \/ Top = "menu" /\ w \in {"screen", "feedback"}
  BY DEF OpenSuggestions, OpenMenu, OpenScreen, At
<1>3. /\ w \in Kind \ {"session", "consent", "choice"} /\ w # "actions"
      /\ Level(TopOf(stack)) > 0 /\ Level(TopOf(stack)) < Level(w)
      /\ TopOf(stack) # "consent" /\ TopOf(stack) # "choice"
  BY <1>2 DEF Kind, Level, Asking, Form, Top
<1> QED
  BY <1>1, <1>2, <1>3, OpenedWell, PushStep

\* The phone's warning, heard by the root window only while it appears.
LEMMA CobbleWarnsStep ==
    ASSUME WInv, CobbleWarns
    PROVE  WInv' /\ ConsentKept
<1>1. /\ root # "live" /\ lost' = {"warning"}
      /\ seen' = IF Top = "root" THEN seen ELSE seen \union {"root_away"}
      /\ UNCHANGED <<stack, sw, dictating, waiting, due, root>>
  BY DEF CobbleWarns
<1>2. /\ WindowTypes /\ Sound(sw, stack, dictating, seen) /\ Heard /\ Asked /\ Rooted
  BY DEF WInv
<1>3. seen \subseteq seen' /\ seen' \subseteq Reasons
  BY <1>1, <1>2 DEF WindowTypes, Reasons
<1>4. "root_away" \in seen'
  BY <1>1, <1>2 DEF WindowTypes, Handle, Rooted
<1>5. /\ Well(stack)' /\ Windows' = Windows /\ Top' = Top
      /\ root' \in Handle /\ Rooted'
  BY <1>1, <1>3, StillStep
<1>6. /\ Asked' /\ waiting' \subseteq Asking \intersect Windows
      /\ due' \in [Asking -> 0..MaxDue]
      /\ \A w \in waiting' : due'[w] = 0 => "unanswered" \in seen'
  BY <1>1, <1>2, <1>3, SameForms DEF Asked
<1>7. Heard' /\ Sound(sw, stack, dictating, seen)'
  BY <1>1, <1>2, <1>3, <1>5 DEF Heard, Sound
<1>8. WindowTypes'
  BY <1>1, <1>2, <1>3, <1>5, <1>6 DEF WindowTypes, Losses
<1>9. LossesExplained'
  BY <1>1, <1>4, <1>6 DEF LossesExplained
<1> QED
  BY <1>5, <1>6, <1>7, <1>8, <1>9 DEF WInv, ConsentKept

\* Back pops the window on top, whatever it is.
LEMMA BackStep ==
    ASSUME WInv, Back
    PROVE  WInv' /\ ConsentKept
<1>1. stack # <<>> /\ Top \notin {"consent", "choice"} /\ Show(Front(stack))
  BY DEF Back
<1>2. Well(Front(stack)) /\ Windows = Range(Front(stack)) \union {Top}
  BY <1>1, FrontWell, StackFacts DEF WInv
<1>3. WInv'
  BY <1>1, <1>2, ShowStep
<1>4. Windows' = Range(Front(stack))
  BY <1>1 DEF Show, Layout, Windows
<1> QED
  BY <1>1, <1>2, <1>3, <1>4 DEF ConsentKept

-----------------------------------------------------------------------------
(* Windows that ask the phone.                                             *)

\* A request is sent or not.
LEMMA SentFacts ==
    ASSUME WindowTypes, NEW w \in Asking, Sent(w)
    PROVE  /\ due' \in [Asking -> 0..MaxDue]
           /\ \A v \in Asking : v # w => due'[v] = due[v]
           /\ due'[w] > 1 => due[w] > 0
           /\ due'[w] = 0 => "unanswered" \in seen'
           /\ seen \subseteq seen' /\ seen' \subseteq Reasons
<1>1. due \in [Asking -> 0..MaxDue] /\ seen \subseteq Reasons
      /\ due[w] \in 0..MaxDue /\ MaxDue \in Nat
  BY WindowAssumption DEF WindowTypes
<1>2. CASE due[w] < MaxDue /\ due' = [due EXCEPT ![w] = @ + 1] /\ UNCHANGED seen
  <2>1. due[w] + 1 \in 0..MaxDue
    BY <1>1, <1>2
  <2>2. due' \in [Asking -> 0..MaxDue] /\ due'[w] = due[w] + 1
        /\ \A v \in Asking : v # w => due'[v] = due[v]
    BY <1>1, <1>2, <2>1
  <2> QED
    BY <1>1, <1>2, <2>2
<1>3. CASE UNCHANGED due /\ seen' = seen \union {"unanswered"}
  <2>1. due'[w] > 1 => due[w] > 0
    BY <1>1, <1>3
  <2> QED
    BY <1>1, <1>3, <2>1 DEF Reasons
<1> QED
  BY <1>2, <1>3 DEF Sent

\* A request is answered or has failed.
LEMMA DealtWith ==
    ASSUME WindowTypes, NEW w \in Asking, due[w] > 0,
           due' = [due EXCEPT ![w] = @ - 1]
    PROVE  /\ due' \in [Asking -> 0..MaxDue]
           /\ \A v \in Asking : v # w => due'[v] = due[v]
           /\ due'[w] > 0 => due[w] > 1
           /\ due'[w] > 1 => due[w] > 1
<1>1. due \in [Asking -> 0..MaxDue]
      /\ due[w] \in 0..MaxDue /\ MaxDue \in Nat
  BY WindowAssumption DEF WindowTypes
<1>2. due[w] - 1 \in 0..MaxDue
  BY <1>1
<1>3. due' \in [Asking -> 0..MaxDue] /\ due'[w] = due[w] - 1
      /\ \A v \in Asking : v # w => due'[v] = due[v]
  BY <1>1, <1>2
<1>4. (due[w] - 1 > 0 => due[w] > 1) /\ (due[w] - 1 > 1 => due[w] > 1)
  BY <1>1
<1> QED
  BY <1>3, <1>4

\* The quota window is pushed, and asks the phone.
LEMMA OpenQuotaStep ==
    ASSUME WInv, OpenQuota
    PROVE  WInv' /\ ConsentKept
<1> DEFINE s == Append(stack, "quota")
<1>1. /\ Top = "menu" /\ dictating = "nobody" /\ Len(stack) < MaxDepth /\ stack' = s
      /\ waiting' = waiting \union {"quota"} /\ Sent("quota")
      /\ UNCHANGED <<sw, dictating, root>> /\ lost' = {}
  BY DEF OpenQuota, At, Quiet, Over, Harmless
<1>2. /\ Well(stack) /\ TopOf(stack) = "menu" /\ WindowTypes /\ Asked /\ Rooted
      /\ Sound(sw, stack, dictating, seen) /\ LossesExplained
  BY <1>1 DEF WInv, Top
<1>3. /\ "quota" \in Kind \ {"consent", "choice"} /\ "quota" \in Asking \ Form
      /\ Level("menu") > 0 /\ Level("menu") < Level("quota")
  BY DEF Kind, Level, Asking, Form
<1>4. Well(s)
  BY <1>1, <1>2, <1>3, OpenedWell
<1>5. Range(s) = Windows \union {"quota"} /\ TopOf(s) = "quota"
  BY <1>3, StackFacts, AppendFacts
<1> HIDE DEF s
<1>6. Well(stack)' /\ Windows' = Range(s) /\ Top' = TopOf(s)
  BY <1>1, <1>4 DEF Well, Piled, Placed, Windows, Top
<1>7. /\ due' \in [Asking -> 0..MaxDue]
      /\ \A v \in Asking : v # "quota" => due'[v] = due[v]
      /\ due'["quota"] = 0 => "unanswered" \in seen'
      /\ seen \subseteq seen' /\ seen' \subseteq Reasons
  BY <1>1, <1>2, <1>3, SentFacts
<1>8. Form \subseteq Asking /\ waiting \subseteq Asking
  BY <1>2 DEF Asking, WindowTypes
<1>9. Asked'
  BY <1>1, <1>2, <1>3, <1>7, <1>8 DEF Asked
<1>10. \A w \in waiting' : due'[w] = 0 => "unanswered" \in seen'
  BY <1>1, <1>2, <1>7, <1>8 DEF LossesExplained
<1>11. Rooted'
  BY <1>1, <1>2, <1>5, <1>6, <1>7 DEF Rooted
<1>12. Heard'
  BY <1>1 DEF Heard
<1>13. Sound(sw', s, dictating', seen')
  BY <1>1, <1>2, <1>5, <1>7 DEF Sound, Windows
<1>14. Sound(sw, stack, dictating, seen)'
  BY <1>1, <1>13 DEF Sound
<1>15. WindowTypes'
  <2>1. waiting' \subseteq Asking \intersect Windows'
    BY <1>1, <1>2, <1>3, <1>5, <1>6 DEF WindowTypes
  <2> QED
    BY <1>1, <1>2, <1>5, <1>6, <1>7, <2>1 DEF WindowTypes
<1>16. LossesExplained'
  BY <1>1, <1>10 DEF LossesExplained
<1>17. ConsentKept
  BY <1>5, <1>6 DEF ConsentKept
<1> QED
  BY <1>6, <1>9, <1>11, <1>12, <1>14, <1>15, <1>16, <1>17 DEF WInv

\* A form that does not wait yet is sent.
LEMMA FormSent ==
    ASSUME WInv, NEW w \in Form, w \in Windows, w \notin waiting,
           waiting' = waiting \union {w}, Sent(w), UNCHANGED <<stack, sw, root>>,
           \/ dictating' = dictating /\ (dictating = "feedback" => w # "feedback")
           \/ dictating' = "nobody" /\ dictating # "session", lost' = {}
    PROVE  WInv' /\ ConsentKept
<1>1. /\ WindowTypes /\ Asked /\ Heard /\ Sound(sw, stack, dictating, seen)
      /\ LossesExplained
  BY DEF WInv
<1>2. w \in Asking /\ Form \subseteq Asking
  BY DEF Asking
<1>3. /\ due' \in [Asking -> 0..MaxDue]
      /\ \A v \in Asking : v # w => due'[v] = due[v]
      /\ due'[w] > 1 => due[w] > 0
      /\ due'[w] = 0 => "unanswered" \in seen'
      /\ seen \subseteq seen' /\ seen' \subseteq Reasons
  BY <1>1, <1>2, SentFacts
<1>4. /\ Well(stack)' /\ Windows' = Windows /\ Top' = Top
      /\ root' \in Handle /\ Rooted'
  BY <1>3, StillStep
<1>5. ASSUME NEW v \in Form, due'[v] > 0, v \notin waiting' \/ due'[v] > 1
      PROVE  "abandoned" \in seen'
  <2>1. CASE v = w
    <3>1. due[w] > 0
      BY <1>3, <1>5, <2>1
    <3> QED
      BY <1>1, <1>3, <3>1 DEF Asked
  <2>2. CASE v # w
    <3>1. due'[v] = due[v]
      BY <1>2, <1>3, <2>2
    <3> QED
      BY <1>1, <1>3, <1>5, <2>2, <3>1 DEF Asked
  <2> QED
    BY <2>1, <2>2
<1>6. Asked'
  BY <1>1, <1>5 DEF Asked
<1>7. \A v \in waiting' : due'[v] = 0 => "unanswered" \in seen'
  BY <1>1, <1>3 DEF LossesExplained, WindowTypes
<1>8. Heard'
  BY <1>1, <1>3, <1>4 DEF Heard
<1>9. Sound(sw, stack, dictating, seen)'
  BY <1>1, <1>3 DEF Sound
<1>10. WindowTypes'
  <2>1. waiting' \subseteq Asking \intersect Windows'
    BY <1>1, <1>2, <1>4 DEF WindowTypes
  <2> QED
    BY <1>1, <1>3, <1>4, <2>1 DEF WindowTypes
<1>11. LossesExplained'
  BY <1>7 DEF LossesExplained
<1> QED
  BY <1>4, <1>6, <1>8, <1>9, <1>10, <1>11 DEF WInv, ConsentKept

\* The report window asks the phone.
LEMMA SubmitReportStep ==
    ASSUME WInv, SubmitReport
    PROVE  WInv' /\ ConsentKept
<1>1. /\ Top = "report" /\ "report" \notin waiting
      /\ waiting' = waiting \union {"report"} /\ Sent("report") /\ lost' = {}
      /\ UNCHANGED <<stack, sw, dictating, root>>
  BY DEF SubmitReport, At, Harmless
<1>2. "report" \in Windows /\ "report" \in Form
  <2>1. stack # <<>>
    BY <1>1, StackFacts
  <2> QED
    BY <1>1, <2>1, StackFacts DEF Form
<1> QED
  BY <1>1, <1>2, FormSent

\* The feedback window starts its dictation.
LEMMA SpeakFeedbackStep ==
    ASSUME WInv, SpeakFeedback
    PROVE  WInv' /\ ConsentKept
<1>1. /\ Top = "feedback" /\ "feedback" \notin waiting /\ dictating = "nobody"
      /\ dictating' = "feedback" /\ lost' = {}
      /\ UNCHANGED <<stack, sw, waiting, due, root, seen>>
  BY DEF SpeakFeedback, At, Quiet, Harmless
<1>2. "feedback" \in Windows
  <2>1. stack # <<>>
    BY <1>1, StackFacts
  <2> QED
    BY <1>1, <2>1, StackFacts
<1>3. WindowTypes /\ Sound(sw, stack, dictating, seen)
  BY DEF WInv
<1>4. /\ Well(stack)' /\ Windows' = Windows /\ Top' = Top
      /\ root' \in Handle /\ Rooted'
  BY <1>1, StillStep
<1>5. /\ Asked' /\ waiting' \subseteq Asking \intersect Windows
      /\ due' \in [Asking -> 0..MaxDue]
      /\ \A w \in waiting' : due'[w] = 0 => "unanswered" \in seen'
  BY <1>1, SameForms
<1>6. Heard' /\ Sound(sw, stack, dictating, seen)'
  BY <1>1, <1>3 DEF Heard, Sound
<1>7. WindowTypes'
  BY <1>1, <1>2, <1>3, <1>4, <1>5 DEF WindowTypes
<1>8. LossesExplained'
  BY <1>1, <1>5 DEF LossesExplained
<1> QED
  BY <1>4, <1>5, <1>6, <1>7, <1>8 DEF WInv, ConsentKept

\* The feedback window's dictation ends, sent to the phone or not.
LEMMA FeedbackDictatedStep ==
    ASSUME WInv, FeedbackDictated
    PROVE  WInv' /\ ConsentKept
<1>1. /\ dictating = "feedback" /\ dictating' = "nobody" /\ lost' = {}
      /\ UNCHANGED <<stack, sw, root>>
  BY DEF FeedbackDictated, Harmless
<1>2. /\ WindowTypes /\ Asked /\ Sound(sw, stack, dictating, seen)
  BY DEF WInv
<1>3. /\ "feedback" \in Windows /\ "feedback" \in Form /\ "feedback" \notin waiting
  BY <1>1, <1>2 DEF WindowTypes, Asked, Form
<1>4. CASE waiting' = waiting \union {"feedback"} /\ Sent("feedback")
  BY <1>1, <1>3, <1>4, FormSent
<1>5. CASE UNCHANGED <<waiting, due, seen>>
  <2>1. /\ Well(stack)' /\ Windows' = Windows /\ Top' = Top
        /\ root' \in Handle /\ Rooted'
    BY <1>1, <1>5, StillStep
  <2>2. /\ Asked' /\ waiting' \subseteq Asking \intersect Windows
        /\ due' \in [Asking -> 0..MaxDue]
        /\ \A w \in waiting' : due'[w] = 0 => "unanswered" \in seen'
    BY <1>1, <1>5, SameForms
  <2>3. Heard' /\ Sound(sw, stack, dictating, seen)'
    BY <1>1, <1>2, <1>5 DEF Heard, Sound
  <2>4. WindowTypes'
    BY <1>1, <1>2, <1>5, <2>1, <2>2 DEF WindowTypes
  <2>5. LossesExplained'
    BY <1>1, <2>2 DEF LossesExplained
  <2> QED
    BY <2>1, <2>2, <2>3, <2>4, <2>5 DEF WInv, ConsentKept
<1> QED
  BY <1>4, <1>5 DEF FeedbackDictated

\* The phone's request for a form fails, and the form waits on.
LEMMA PhoneFailsStep ==
    ASSUME WInv, PhoneFails
    PROVE  WInv' /\ ConsentKept
<1>1. PICK w \in Asking : due[w] > 0 /\ due' = [due EXCEPT ![w] = @ - 1]
  BY DEF PhoneFails
<1>2. /\ seen' = seen \union {"unanswered"} /\ lost' = {}
      /\ UNCHANGED <<stack, sw, dictating, waiting, root>>
  BY DEF PhoneFails, Harmless
<1>3. /\ WindowTypes /\ Asked /\ Heard /\ Sound(sw, stack, dictating, seen)
  BY DEF WInv
<1>4. seen \subseteq seen' /\ seen' \subseteq Reasons /\ "unanswered" \in seen'
  BY <1>2, <1>3 DEF WindowTypes, Reasons
<1>5. /\ due' \in [Asking -> 0..MaxDue]
      /\ \A v \in Asking : v # w => due'[v] = due[v]
      /\ due'[w] > 0 => due[w] > 1
      /\ due'[w] > 1 => due[w] > 1
  BY <1>1, <1>3, DealtWith
<1>6. /\ Well(stack)' /\ Windows' = Windows /\ Top' = Top
      /\ root' \in Handle /\ Rooted'
  BY <1>2, <1>4, StillStep
<1>7. Asked'
  <2>1. ASSUME NEW v \in Form, due'[v] > 0, v \notin waiting' \/ due'[v] > 1
        PROVE  "abandoned" \in seen'
    <3>1. v \in Asking /\ due \in [Asking -> 0..MaxDue]
      BY <1>3 DEF Asking, WindowTypes
    <3>2. CASE v = w
      <4>1. due[v] > 1 /\ due[v] > 0
        BY <1>1, <1>5, <2>1, <3>2
      <4> QED
        BY <1>3, <1>4, <4>1 DEF Asked
    <3>3. CASE v # w
      <4>1. due'[v] = due[v]
        BY <1>5, <3>1, <3>3
      <4> QED
        BY <1>2, <1>3, <1>4, <2>1, <4>1 DEF Asked
    <3> QED
      BY <3>2, <3>3
  <2> QED
    BY <1>2, <1>3, <2>1 DEF Asked
<1>8. Heard' /\ Sound(sw, stack, dictating, seen)'
  BY <1>2, <1>3, <1>4, <1>6 DEF Heard, Sound
<1>9. WindowTypes'
  BY <1>2, <1>3, <1>4, <1>5, <1>6 DEF WindowTypes
<1>10. LossesExplained'
  BY <1>2, <1>4 DEF LossesExplained
<1> QED
  BY <1>6, <1>7, <1>8, <1>9, <1>10 DEF WInv, ConsentKept

\* A result window may cancel the session's timer.
LEMMA ByResultSound ==
    ASSUME WInv, NEW s, "session" \in Range(s) => "session" \in Windows,
           NEW d, dictating = "session" /\ "session" \in Range(s) => d = "session",
           NEW h, seen \subseteq h, NEW t \in SessionByResult(s)
    PROVE  t \in Session /\ Sound(t, s, d, h)
<1> DEFINE u == SessionIn(s)
<1>1. u \in Session /\ Sound(u, s, d, h)
  BY SessionInSound
<1>2. \/ t = u
      \/ u.armed /\ t = [u EXCEPT !.armed = FALSE, !.excuse = "cancelled"]
  BY DEF SessionByResult
<1> HIDE DEF u
<1>3. CASE t = u
  BY <1>1, <1>3
<1>4. CASE u.armed /\ t = [u EXCEPT !.armed = FALSE, !.excuse = "cancelled"]
  <2>1. /\ t \in Session /\ t.armed = FALSE /\ t.timed = u.timed
        /\ t.conv = u.conv /\ t.excuse = "cancelled"
    BY <1>1, <1>4 DEF Session
  <2>2. u.conv # "empty"
    BY <1>1, <1>4 DEF Sound
  <2>3. "session" \in Range(s)
    <3>1. NoSession.armed = FALSE
      BY DEF NoSession
    <3> QED
      BY <1>1, <1>4, <3>1 DEF Sound
  <2> QED
    BY <2>1, <2>2, <2>3 DEF Sound
<1> QED
  BY <1>2, <1>3, <1>4

\* An answer to a form: the form that takes it is removed, a result shown.
LEMMA FormAnsweredStep ==
    ASSUME WInv, FormAnswered
    PROVE  WInv' /\ ConsentKept
<1>1. PICK w \in Form :
        /\ due[w] > 0
        /\ due' = [due EXCEPT ![w] = @ - 1]
        /\ \/ /\ Takes(w)
              /\ \E r \in Removed(stack, w) : \E s \in ResultOver(r) :
                    /\ Layout(s, dictating)
                    /\ sw' \in SessionByResult(s)
                    /\ seen' = seen \union (SeenIn(s) \ {"abandoned"})
              /\ lost' = IF w \in waiting THEN {} ELSE {"answer"}
           \/ /\ ~Takes(w)
              /\ UNCHANGED <<stack, sw, dictating, waiting, root, seen>>
              /\ Harmless
  BY DEF FormAnswered
<1>2. /\ WindowTypes /\ Asked /\ Heard /\ Sound(sw, stack, dictating, seen)
      /\ Well(stack) /\ LossesExplained
  BY DEF WInv
<1>3. w \in Asking /\ Form \subseteq Asking /\ due \in [Asking -> 0..MaxDue]
  BY <1>2 DEF Asking, WindowTypes
<1>4. /\ due' \in [Asking -> 0..MaxDue]
      /\ \A v \in Asking : v # w => due'[v] = due[v]
      /\ due'[w] > 0 => due[w] > 1
  BY <1>1, <1>2, <1>3, DealtWith
<1>5. \A v \in waiting : due[v] = 0 => "unanswered" \in seen
  BY <1>2 DEF LossesExplained
<1>6. due'[w] > 0 => "abandoned" \in seen
  <2>1. due[w] > 1 => due[w] > 0
    BY <1>3
  <2> QED
    BY <1>2, <1>4, <2>1 DEF Asked
<1>7. CASE /\ ~Takes(w)
           /\ UNCHANGED <<stack, sw, dictating, waiting, root, seen>>
           /\ Harmless
  <2>1. lost' = {} /\ w \notin Windows /\ waiting \subseteq Asking \intersect Windows
    BY <1>2, <1>7 DEF Harmless, Takes, WindowTypes
  <2>2. /\ Well(stack)' /\ Windows' = Windows /\ Top' = Top
        /\ root' \in Handle /\ Rooted'
    BY <1>7, StillStep
  <2>3. Asked'
    BY <1>2, <1>3, <1>4, <1>6, <1>7 DEF Asked
  <2>4. \A v \in waiting' : due'[v] = 0 => "unanswered" \in seen'
    BY <1>4, <1>5, <1>7, <2>1
  <2>5. Heard' /\ Sound(sw, stack, dictating, seen)'
    BY <1>2, <1>7, <2>2 DEF Heard, Sound
  <2>6. WindowTypes'
    BY <1>2, <1>4, <1>7, <2>1, <2>2 DEF WindowTypes
  <2>7. LossesExplained'
    BY <2>1, <2>4 DEF LossesExplained
  <2> QED
    BY <2>2, <2>3, <2>5, <2>6, <2>7 DEF WInv, ConsentKept
<1>8. CASE /\ Takes(w)
           /\ \E r \in Removed(stack, w) : \E s \in ResultOver(r) :
                 /\ Layout(s, dictating)
                 /\ sw' \in SessionByResult(s)
                 /\ seen' = seen \union (SeenIn(s) \ {"abandoned"})
           /\ lost' = IF w \in waiting THEN {} ELSE {"answer"}
  <2>1. PICK r \in Removed(stack, w) : \E s \in ResultOver(r) :
                 /\ Layout(s, dictating)
                 /\ sw' \in SessionByResult(s)
                 /\ seen' = seen \union (SeenIn(s) \ {"abandoned"})
    BY <1>8
  <2>2. PICK s \in ResultOver(r) :
                 /\ Layout(s, dictating)
                 /\ sw' \in SessionByResult(s)
                 /\ seen' = seen \union (SeenIn(s) \ {"abandoned"})
    BY <2>1
  <2>3. Len(r) < MaxDepth /\ s = Append(r, "result")
    BY DEF ResultOver, Over
  <2>4. Well(r) /\ w \notin Range(r)
    BY <1>2, RemovedWell DEF Form
  <2>5. Windows = Range(r) \union {w}
    <3>1. stack \in Seq(Kind)
      BY <1>2 DEF Well
    <3> QED
      BY <3>1, RemovedFacts DEF Windows
  <2>6. Well(s)
    BY <2>3, <2>4, FreeWell
  <2>7. TopOf(s) = "result" /\ Range(s) = Range(r) \union {"result"}
    <3>1. r \in Seq(Kind) /\ "result" \in Kind
      BY <2>4 DEF Well, Kind
    <3> QED
      BY <2>3, <3>1, AppendFacts
  <2>8. w \notin {"result", "session", "consent", "choice"}
    BY DEF Form
  <2>9. seen \subseteq seen' /\ seen' \subseteq Reasons
    BY <1>2, <2>2, SeenInIs DEF WindowTypes
  <2>10. Top = "root" /\ TopOf(s) # "root" /\ root = "live" => "root_away" \in seen'
    BY <2>2, SeenInIs
  <2>11. dictating \in {"nobody", "session", "feedback"}
    BY <1>2 DEF WindowTypes
  <2>12. /\ stack' = s /\ Well(stack)'
         /\ Windows' = Range(s) /\ Top' = TopOf(s)
         /\ dictating' \in {"nobody", "session", "feedback"}
         /\ dictating' # "nobody" => dictating' = dictating /\ dictating' \in Windows'
         /\ dictating \in Range(s) => dictating' = dictating
         /\ waiting' = waiting \intersect Range(s)
         /\ waiting' \subseteq Asking \intersect Windows'
         /\ root' \in Handle /\ Rooted'
    BY <2>2, <2>6, <2>9, <2>10, <2>11, LayoutStep
  <2>13. Asked'
    <3>1. ASSUME NEW v \in Form, due'[v] > 0, v \notin waiting' \/ due'[v] > 1
          PROVE  "abandoned" \in seen'
      <4>1. CASE v = w
        BY <1>6, <2>9, <3>1, <4>1
      <4>2. CASE v # w
        <5>1. due'[v] = due[v]
          BY <1>3, <1>4, <4>2
        <5>2. v \in waiting => v \in waiting'
          BY <1>2, <2>5, <2>7, <2>12, <4>2 DEF WindowTypes
        <5> QED
          BY <1>2, <2>9, <3>1, <5>1, <5>2 DEF Asked
      <4> QED
        BY <4>1, <4>2
    <3>2. dictating' = "feedback" => "feedback" \notin waiting'
      BY <1>2, <2>12 DEF Asked
    <3> QED
      BY <3>1, <3>2 DEF Asked
  <2>14. \A v \in waiting' : due'[v] = 0 => "unanswered" \in seen'
    <3>1. w \notin waiting'
      BY <2>4, <2>7, <2>8, <2>12
    <3>2. \A v \in waiting' : v \in waiting /\ v \in Asking
      BY <2>12
    <3> QED
      BY <1>4, <1>5, <2>9, <3>1, <3>2
  <2>15. Heard'
    <3>1. dictating' = "session" => dictating = "session" /\ "session" \in Range(s)
      BY <2>12
    <3>2. dictating' = "session" => "covered_dictation" \in SeenIn(s)
      BY <2>7, <3>1, SeenInIs
    <3> QED
      BY <2>2, <3>2 DEF Heard
  <2>16. sw' \in Session /\ Sound(sw', s, dictating', seen')
    <3>1. "session" \in Range(s) => "session" \in Windows
      BY <2>5, <2>7
    <3>2. dictating = "session" /\ "session" \in Range(s) => dictating' = "session"
      BY <2>12
    <3> QED
      BY <2>2, <2>9, <3>1, <3>2, ByResultSound
  <2>17. Sound(sw, stack, dictating, seen)'
    BY <2>12, <2>16 DEF Sound
  <2>18. WindowTypes'
    <3>1. lost' \subseteq Losses
      BY <1>8 DEF Losses
    <3> QED
      BY <1>4, <2>9, <2>12, <2>16, <3>1 DEF WindowTypes
  <2>19. LossesExplained'
    <3>1. "answer" \in lost' => "abandoned" \in seen'
      BY <1>1, <1>2, <1>8, <2>9 DEF Asked
    <3>2. lost' \subseteq {"answer"}
      BY <1>8
    <3> QED
      BY <2>14, <3>1, <3>2 DEF LossesExplained
  <2>20. ConsentKept
    BY <2>5, <2>7, <2>8, <2>12 DEF ConsentKept
  <2> QED
    BY <2>12, <2>13, <2>15, <2>17, <2>18, <2>19, <2>20 DEF WInv
<1> QED
  BY <1>1, <1>7, <1>8

\* The quota window takes its answer, if it is still there.
LEMMA QuotaAnsweredStep ==
    ASSUME WInv, QuotaAnswered
    PROVE  WInv' /\ ConsentKept
<1>1. /\ due["quota"] > 0 /\ due' = [due EXCEPT !["quota"] = @ - 1]
      /\ waiting' = waiting \ {"quota"} /\ lost' = {}
      /\ UNCHANGED <<stack, sw, dictating, root, seen>>
  BY DEF QuotaAnswered, Harmless
<1>2. /\ WindowTypes /\ Asked /\ Heard /\ Sound(sw, stack, dictating, seen)
      /\ LossesExplained
  BY DEF WInv
<1>3. "quota" \in Asking /\ "quota" \notin Form /\ Form \subseteq Asking
  BY DEF Asking, Form
<1>4. /\ due' \in [Asking -> 0..MaxDue]
      /\ \A v \in Asking : v # "quota" => due'[v] = due[v]
  BY <1>1, <1>2, <1>3, DealtWith
<1>5. /\ Well(stack)' /\ Windows' = Windows /\ Top' = Top
      /\ root' \in Handle /\ Rooted'
  BY <1>1, StillStep
<1>6. Asked'
  <2>1. \A v \in Form : due'[v] = due[v] /\ (v \in waiting' <=> v \in waiting)
    BY <1>1, <1>3, <1>4
  <2>2. "feedback" \in Form
    BY DEF Form
  <2> QED
    BY <1>1, <1>2, <2>1, <2>2 DEF Asked
<1>7. \A v \in waiting' : due'[v] = 0 => "unanswered" \in seen'
  BY <1>1, <1>2, <1>4 DEF LossesExplained, WindowTypes
<1>8. Heard' /\ Sound(sw, stack, dictating, seen)'
  BY <1>1, <1>2, <1>5 DEF Heard, Sound
<1>9. WindowTypes'
  BY <1>1, <1>2, <1>4, <1>5 DEF WindowTypes
<1>10. LossesExplained'
  BY <1>1, <1>7 DEF LossesExplained
<1> QED
  BY <1>5, <1>6, <1>8, <1>9, <1>10 DEF WInv, ConsentKept

\* The result window's timer removes it, wherever it is.
LEMMA ResultExpiresStep ==
    ASSUME WInv, ResultExpires
    PROVE  WInv' /\ ConsentKept
<1>1. PICK r \in Removed(stack, "result") : Show(r)
  BY DEF ResultExpires
<1>2. Well(stack)
  BY DEF WInv
<1>3. Well(r)
  BY <1>2, RemovedWell
<1>4. Windows = Range(r) \union {"result"}
  BY <1>2, RemovedFacts DEF Windows, Well
<1>5. WInv'
  BY <1>1, <1>3, <1>4, ShowStep
<1>6. Windows' = Range(r)
  BY <1>1 DEF Show, Layout, Windows
<1> QED
  BY <1>4, <1>5, <1>6 DEF ConsentKept

-----------------------------------------------------------------------------
(* Alarms.                                                                 *)

\* An alarm rings over any other window.
LEMMA RingsStep ==
    ASSUME WInv, Rings
    PROVE  WInv' /\ ConsentKept
<1>1. Push("alarm") /\ Well(stack)
  BY DEF Rings, WInv
<1>2. "alarm" \in Kind \ {"session", "consent", "choice"}
  BY DEF Kind
<1> QED
  BY <1>1, <1>2, FreeWell, PushStep

\* An alarm is snoozed or dismissed.
LEMMA SnoozeStep ==
    ASSUME WInv, Snooze
    PROVE  WInv' /\ ConsentKept
<1> DEFINE f == Front(stack)
<1>1. PICK s \in ResultOver(f) : Layout(s, dictating) /\ sw' \in SessionByResult(s)
  BY DEF Snooze
<1>2. /\ Top = "alarm" /\ dictating = "nobody" /\ UNCHANGED <<due, seen>> /\ lost' = {}
  BY DEF Snooze, At, Quiet, Harmless
<1>3. WindowTypes /\ Well(stack) /\ LossesExplained
  BY DEF WInv
<1>4. stack # <<>>
  BY <1>2, StackFacts
<1>5. Windows = Range(f) \union {Top}
  BY <1>4, StackFacts
<1>6. Well(f)
  BY <1>3, <1>4, FrontWell
<1> HIDE DEF f
<1>7. Len(f) < MaxDepth /\ s = Append(f, "result")
  BY DEF ResultOver, Over
<1>8. Well(s)
  BY <1>6, <1>7, FreeWell
<1>9. TopOf(s) = "result" /\ Range(s) = Range(f) \union {"result"}
  <2>1. f \in Seq(Kind) /\ "result" \in Kind
    BY <1>6 DEF Well, Kind
  <2> QED
    BY <1>7, <2>1, AppendFacts
<1>10. /\ stack' = s /\ Well(stack)'
       /\ Windows' = Range(s) /\ Top' = TopOf(s)
       /\ dictating' \in {"nobody", "session", "feedback"}
       /\ dictating' # "nobody" => dictating' = dictating /\ dictating' \in Windows'
       /\ waiting' = waiting \intersect Range(s)
       /\ waiting' \subseteq Asking \intersect Windows'
       /\ root' \in Handle /\ Rooted'
  BY <1>1, <1>2, <1>8, LayoutStep
<1>11. /\ Asked'
       /\ \A w \in waiting' : due'[w] = 0 => "unanswered" \in seen'
  <2>1. \A w \in Form : ~(w \in Windows /\ w \notin Range(s))
    BY <1>2, <1>5, <1>9 DEF Form
  <2> QED
    BY <1>2, <1>10, <2>1, FormsStep
<1>12. Heard'
  BY <1>2, <1>10 DEF Heard
<1>13. sw' \in Session /\ Sound(sw', s, dictating', seen')
  <2>1. "session" \in Range(s) => "session" \in Windows
    BY <1>5, <1>9
  <2> QED
    BY <1>1, <1>2, <2>1, ByResultSound
<1>14. Sound(sw, stack, dictating, seen)'
  BY <1>10, <1>13 DEF Sound
<1>15. WindowTypes'
  BY <1>2, <1>3, <1>10, <1>13 DEF WindowTypes
<1>16. LossesExplained'
  BY <1>2, <1>11 DEF LossesExplained
<1>17. ConsentKept
  BY <1>2, <1>5, <1>9, <1>10 DEF ConsentKept
<1> QED
  BY <1>10, <1>11, <1>12, <1>14, <1>15, <1>16, <1>17 DEF WInv

\* A step of the windows keeps their invariant, and the consent windows.
LEMMA StackNextStep ==
    ASSUME WInv, StackNext
    PROVE  WInv' /\ ConsentKept
BY EntryArrivesStep, EntryUpdatedStep, ScrollStep, TimedOutStep, SpeakStep,
   DictationSucceedsStep, DictationFailsStep, LongPressStep, ActionInputStep,
   ActionDictateStep, ActionReportStep, PromptClickedStep, MenusStep,
   SuggestionClickedStep, CobbleWarnsStep, BackStep, OpenQuotaStep,
   SubmitReportStep, SpeakFeedbackStep, FeedbackDictatedStep, PhoneFailsStep,
   FormAnsweredStep, QuotaAnsweredStep, ResultExpiresStep, RingsStep, SnoozeStep
   DEF StackNext

-----------------------------------------------------------------------------
(* The inductive invariant of the app.                                     *)

AppTypes ==
    /\ phase \in {"off", "starting", "running", "consenting"}
    /\ (stack = <<>>) <=> (phase \in {"off", "starting"})
    /\ pVersion \in Version
    /\ pLocation \in Setting
    /\ pConsent \in BOOLEAN
    /\ last \in Version
    /\ stage \in Stage
    /\ expecting \in BOOLEAN
    /\ toPhone \subseteq Choice
    /\ toWatch \in Seq(Choice) /\ Len(toWatch) <= MaxInFlight
    /\ phoneLocation \in Choice
    /\ dropped \in BOOLEAN /\ saved \in BOOLEAN
    /\ answered \in BOOLEAN /\ cut \in BOOLEAN

\* What flash says: a location without a consent is one of a version that
\* implied the consent, which the next launch still knows, or was cut off.
Remembered ==
    /\ pConsent => pLocation # "unset"
    /\ answered => pConsent
    /\ pLocation # "unset" /\ ~pConsent /\ phase # "consenting" =>
          \/ cut
          \/ phase = "off" /\ pVersion = "old"
          \/ phase = "starting" /\ last = "old"

\* The consent windows: there while the menu is frozen, which only a message
\* under way or a lost one explains, and between the two writes.
Frozen ==
    /\ "consent" \in Windows => ~pConsent
    /\ phase = "consenting" =>
          /\ {"consent", "choice"} \subseteq Windows
          /\ ~expecting /\ pLocation # "unset"
    /\ expecting =>
          /\ phase = "running"
          /\ {"consent", "choice"} \subseteq Windows
          /\ toPhone # {} \/ toWatch # <<>> \/ dropped

\* Without the settings page, the choice is in one place at a time: on its way
\* to the phone, back, or on both sides.
Echoed ==
    ~saved =>
        /\ toPhone # {} => expecting /\ toWatch = <<>>
        /\ toWatch # <<>> => expecting /\ toWatch = <<phoneLocation>>
        /\ phase = "consenting" => pLocation = phoneLocation
        /\ answered => pLocation = phoneLocation

IInv == WInv /\ AppTypes /\ Remembered /\ Frozen /\ Echoed

-----------------------------------------------------------------------------
(* Launch and exit.                                                        *)

\* A stack of one window.
LEMMA SingleFacts ==
    ASSUME NEW w \in Kind \ {"actions", "choice"}
    PROVE  /\ <<w>> \in Seq(Kind) /\ Len(<<w>>) = 1
           /\ Range(<<w>>) = {w} /\ TopOf(<<w>>) = w /\ Well(<<w>>) /\ <<w>> # <<>>
<1> DEFINE s == <<w>>
<1>1. s \in Seq(Kind) /\ Len(s) = 1 /\ s[1] = w
  OBVIOUS
<1> HIDE DEF s
<1>2. s # <<>>
  <2>1. Len(s) # 0
    BY <1>1
  <2> QED
    BY <2>1, EmptySeq
<1>3. 1..Len(s) = {1} /\ 2..Len(s) = {}
  BY <1>1
<1>4. Range(s) = {w}
  BY <1>1, <1>3, RangeIs
<1>5. TopOf(s) = w
  BY <1>1, <1>2 DEF TopOf, Last
<1>6. Piled(s) /\ Placed(s)
  BY <1>1, <1>3 DEF Piled, Placed
<1>7. Len(s) <= MaxDepth
  BY <1>1, WindowAssumption
<1> QED
  BY <1>1, <1>2, <1>4, <1>5, <1>6, <1>7 DEF Well, s

\* With the release notes over it.
LEMMA NotesFacts ==
    ASSUME NEW w \in {"root", "session"}
    PROVE  LET s == WithNotes(<<w>>)
           IN  /\ s \in Seq(Kind) /\ Well(s) /\ s # <<>>
               /\ \/ Range(s) = {w} /\ TopOf(s) = w /\ Len(s) = 1
                  \/ Range(s) = {w, "notes"} /\ TopOf(s) = "notes" /\ Len(s) = 2
<1> DEFINE t == <<w>>
<1>1. /\ w \in Kind \ {"actions", "choice"} /\ "notes" \in Kind \ {"consent"}
      /\ ~(Level("notes") > 0)
  BY DEF Kind, Level, Asking, Form
<1>2. /\ t \in Seq(Kind) /\ Len(t) = 1 /\ Range(t) = {w} /\ TopOf(t) = w
      /\ Well(t) /\ t # <<>>
  BY <1>1, SingleFacts
<1>3. WithNotes(t) = t \/ WithNotes(t) = Append(t, "notes")
  BY DEF WithNotes
<1> HIDE DEF t
<1>4. /\ Append(t, "notes") \in Seq(Kind) /\ Append(t, "notes") # <<>>
      /\ Range(Append(t, "notes")) = {w, "notes"}
      /\ TopOf(Append(t, "notes")) = "notes"
      /\ Len(Append(t, "notes")) = 2
  <2>1. /\ Append(t, "notes") \in Seq(Kind) /\ Append(t, "notes") # <<>>
        /\ Range(Append(t, "notes")) = Range(t) \union {"notes"}
        /\ TopOf(Append(t, "notes")) = "notes"
        /\ Len(Append(t, "notes")) = Len(t) + 1
    BY <1>1, <1>2, AppendFacts
  <2> QED
    BY <1>2, <2>1
<1>5. Well(Append(t, "notes"))
  <2>1. Len(t) < MaxDepth
    BY <1>2, WindowAssumption
  <2> QED
    BY <1>1, <1>2, <2>1, OverWell
<1> QED
  BY <1>2, <1>3, <1>4, <1>5 DEF t

\* The windows are the first of a launch.
LEMMA FirstWindowsStep ==
    ASSUME NEW s \in Seq(Kind), Well(s), "session" \notin Range(s),
           FirstWindows(s), waiting' = {}, due' = NothingDue, lost' = {}
    PROVE  WInv' /\ stack' = s
<1>1. /\ stack' = s /\ sw' = NoSession /\ dictating' = "nobody"
      /\ root' = IF "root" \notin Range(s) THEN "none"
                 ELSE IF TopOf(s) = "root" THEN "live" ELSE "stale"
      /\ seen' = IF root' = "stale" THEN {"root_away"} ELSE {}
  BY DEF FirstWindows
<1>2. Well(stack)' /\ Windows' = Range(s) /\ Top' = TopOf(s)
  BY <1>1 DEF Well, Piled, Placed, Windows, Top
<1>3. due' \in [Asking -> 0..MaxDue] /\ \A w \in Form : ~(due'[w] > 0)
  BY WindowAssumption DEF NothingDue, Asking
<1>4. Rooted'
  <2>1. s # <<>> => TopOf(s) \in Range(s)
    BY RangeIs
  <2>2. TopOf(s) = "root" => s # <<>>
    BY DEF TopOf
  <2> QED
    BY <1>1, <1>2, <2>1, <2>2 DEF Rooted
<1>5. Asked' /\ Heard'
  BY <1>1, <1>3 DEF Asked, Heard
<1>6. Sound(sw, stack, dictating, seen)'
  BY <1>1 DEF Sound, NoSession
<1>7. WindowTypes'
  BY <1>1, <1>3 DEF WindowTypes, NoSession, Session, Handle, Reasons
<1>8. LossesExplained'
  BY DEF LossesExplained
<1> QED
  BY <1>1, <1>2, <1>4, <1>5, <1>6, <1>7, <1>8 DEF WInv

\* A quick launch puts a session over the root window.
LEMMA FirstSessionStep ==
    ASSUME NEW timed \in BOOLEAN, FirstSession(timed), waiting' = {},
           due' = NothingDue, lost' = {}
    PROVE  WInv' /\ stack' # <<>> /\ Windows' \subseteq {"session", "notes"}
<1> DEFINE s == WithNotes(<<"session">>)
<1>1. /\ stack' = s /\ root' = "none" /\ dictating' = "session"
      /\ sw' = [NoSession EXCEPT !.timed = timed,
                  !.excuse = IF Len(stack') = 2 THEN "covered" ELSE "none"]
      /\ seen' = IF Len(stack') = 2 THEN {"covered_dictation"} ELSE {}
  BY DEF FirstSession
<1>2. /\ s \in Seq(Kind) /\ Well(s) /\ s # <<>>
      /\ \/ Range(s) = {"session"} /\ TopOf(s) = "session" /\ Len(s) = 1
         \/ Range(s) = {"session", "notes"} /\ TopOf(s) = "notes" /\ Len(s) = 2
  BY NotesFacts
<1> HIDE DEF s
<1>3. Well(stack)' /\ Windows' = Range(s) /\ Top' = TopOf(s)
  BY <1>1, <1>2 DEF Well, Piled, Placed, Windows, Top
<1>4. due' \in [Asking -> 0..MaxDue] /\ \A w \in Form : ~(due'[w] > 0)
  BY WindowAssumption DEF NothingDue, Asking
<1>5. sw' \in Session /\ sw'.armed = FALSE /\ sw'.conv = "empty"
  BY <1>1 DEF NoSession, Session
<1>6. Rooted' /\ Asked' /\ Heard'
  BY <1>1, <1>2, <1>3, <1>4 DEF Rooted, Asked, Heard
<1>7. Sound(sw', s, "session", seen')
  BY <1>2, <1>5 DEF Sound
<1>8. Sound(sw, stack, dictating, seen)'
  BY <1>1, <1>7 DEF Sound
<1>9. WindowTypes'
  BY <1>1, <1>2, <1>3, <1>4, <1>5 DEF WindowTypes, Handle, Reasons
<1>10. LossesExplained'
  BY DEF LossesExplained
<1> QED
  BY <1>1, <1>2, <1>3, <1>6, <1>8, <1>9, <1>10 DEF WInv

\* No windows at all.
LEMMA NoWindows ==
    ASSUME stack' = <<>>, sw' = NoSession, dictating' = "nobody", waiting' = {},
           due' = NothingDue, root' = "none", seen' = {}, lost' = {}
    PROVE  WInv' /\ Windows' = {}
<1>1. <<>> \in Seq(Kind) /\ Len(<<>>) = 0 /\ Range(<<>>) = {}
  BY EmptySeq, RangeIs
<1>2. Well(<<>>)
  BY <1>1, WindowAssumption DEF Well, Piled, Placed
<1>3. Well(stack)' /\ Windows' = {} /\ Top' = "nothing"
  BY <1>1, <1>2 DEF Well, Piled, Placed, Windows, Top, TopOf
<1>4. due' \in [Asking -> 0..MaxDue] /\ \A w \in Form : ~(due'[w] > 0)
  BY WindowAssumption DEF NothingDue, Asking
<1>5. Rooted' /\ Asked' /\ Heard'
  BY <1>3, <1>4 DEF Rooted, Asked, Heard
<1>6. Sound(sw, stack, dictating, seen)'
  BY <1>1 DEF Sound, NoSession
<1>7. WindowTypes'
  BY <1>4 DEF WindowTypes, NoSession, Session, Handle
<1>8. LossesExplained'
  BY DEF LossesExplained
<1> QED
  BY <1>3, <1>5, <1>6, <1>7, <1>8 DEF WInv

\* The windows do not change.
LEMMA SameWindows ==
    ASSUME WInv, UNCHANGED windowVars
    PROVE  WInv' /\ Windows' = Windows
BY DEF windowVars, WInv, Well, Piled, Placed, WindowTypes, Sound, Heard, Asked,
       Rooted, LossesExplained, Windows, Top

\* No message is under way to the watch.
LEMMA NoMessages == <<>> \in Seq(Choice) /\ Len(<<>>) <= MaxInFlight
<1>1. <<>> \in Seq(Choice) /\ Len(<<>>) = 0
  BY EmptySeq
<1> QED
  BY <1>1, AppAssumption

\* The inductive invariant holds before the app is launched.
LEMMA InitHolds == AppInit => IInv
<1> SUFFICES ASSUME AppInit PROVE IInv
  OBVIOUS
<1>1. /\ stack = <<>> /\ sw = NoSession /\ dictating = "nobody" /\ waiting = {}
      /\ due = NothingDue /\ root = "none" /\ seen = {} /\ lost = {}
  BY DEF AppInit, StackInit
<1>2. <<>> \in Seq(Kind) /\ Len(<<>>) = 0 /\ Range(<<>>) = {}
  BY EmptySeq, RangeIs
<1>3. Well(stack) /\ Windows = {} /\ Top = "nothing"
  BY <1>1, <1>2, WindowAssumption DEF Well, Piled, Placed, Windows, Top, TopOf
<1>4. due \in [Asking -> 0..MaxDue] /\ \A w \in Form : ~(due[w] > 0)
  BY <1>1, WindowAssumption DEF NothingDue, Asking
<1>5. Rooted /\ Asked /\ Heard /\ Sound(sw, stack, dictating, seen) /\ LossesExplained
  BY <1>1, <1>2, <1>3, <1>4 DEF Rooted, Asked, Heard, Sound, NoSession, LossesExplained
<1>6. WindowTypes
  BY <1>1, <1>4 DEF WindowTypes, NoSession, Session, Handle
<1>7. PICK i \in Installed :
        /\ pVersion = i.v /\ pLocation = i.l /\ pConsent = i.c
        /\ phoneLocation \in IF i.l = "unset" THEN Choice ELSE {i.l}
  BY DEF AppInit
<1>8. /\ pVersion \in Version /\ pLocation \in Setting /\ pConsent \in BOOLEAN
      /\ phoneLocation \in Choice
      /\ pConsent => pLocation # "unset"
      /\ pLocation # "unset" /\ ~pConsent => pVersion = "old"
  <2>1. CASE i = [v |-> "none", l |-> "unset", c |-> FALSE]
    BY <1>7, <2>1 DEF Version, Setting
  <2>2. CASE i = [v |-> "recent", l |-> "unset", c |-> FALSE]
    BY <1>7, <2>2 DEF Version, Setting
  <2>3. CASE \E x \in Setting : i = [v |-> "old", l |-> x, c |-> FALSE]
    BY <1>7, <2>3 DEF Version, Setting
  <2>4. CASE \E x \in Choice : i = [v |-> "recent", l |-> x, c |-> TRUE]
    BY <1>7, <2>4, AppAssumption DEF Version, Setting
  <2> QED
    BY <1>7, <2>1, <2>2, <2>3, <2>4 DEF Installed
<1>9. /\ phase = "off" /\ last = "none" /\ stage = "llm" /\ expecting = FALSE
      /\ toPhone = {} /\ toWatch = <<>> /\ dropped = FALSE /\ saved = FALSE
      /\ answered = FALSE /\ cut = FALSE
  BY DEF AppInit
<1>10. AppTypes
  BY <1>1, <1>8, <1>9, NoMessages DEF AppTypes, Version, Stage
<1>11. Remembered /\ Frozen /\ Echoed
  BY <1>3, <1>8, <1>9 DEF Remembered, Frozen, Echoed
<1> QED
  BY <1>3, <1>5, <1>6, <1>10, <1>11 DEF IInv, WInv

\* A launch reads the version and migrates the consent.
LEMMA LaunchStep ==
    ASSUME IInv, Launch
    PROVE  IInv'
<1>1. WInv /\ AppTypes /\ Remembered /\ Frozen /\ Echoed
  BY DEF IInv
<1>2. /\ phase = "off" /\ phase' = "starting" /\ last' = pVersion
      /\ pVersion' \in {pVersion, "current"}
      /\ UNCHANGED windowVars
      /\ UNCHANGED <<pLocation, pConsent, stage, expecting, toPhone, toWatch,
                     phoneLocation, dropped, saved, answered, cut>>
  BY DEF Launch, consent, wire
<1>3. WInv' /\ Windows' = Windows
  BY <1>1, <1>2, SameWindows
<1>4. stack' = stack
  BY <1>2 DEF windowVars
<1>5. AppTypes'
  BY <1>1, <1>2, <1>4 DEF AppTypes, Version
<1>6. Remembered'
  BY <1>1, <1>2 DEF Remembered
<1>7. Frozen' /\ Echoed'
  BY <1>1, <1>2, <1>3 DEF Frozen, Echoed
<1> QED
  BY <1>3, <1>5, <1>6, <1>7 DEF IInv

\* main() pushes the first windows.
LEMMA BeginStep ==
    ASSUME IInv, Begin
    PROVE  IInv'
<1>1. WInv /\ AppTypes /\ Remembered /\ Frozen /\ Echoed
  BY DEF IInv
<1>2. /\ phase = "starting" /\ phase' = "running" /\ last' = "none" /\ stage' = "llm"
      /\ waiting' = {} /\ due' = NothingDue /\ lost' = {}
      /\ UNCHANGED <<pVersion, pLocation, expecting, toPhone, toWatch,
                     phoneLocation, dropped, saved, answered, cut>>
  BY DEF Begin, wire
<1>3. /\ pConsent' \in BOOLEAN
      /\ pConsent => pConsent'
      /\ pConsent' => pConsent \/ Migrates
      /\ Migrates => pConsent'
  BY DEF Begin
<1>4. Migrates => last = "old" /\ pLocation # "unset"
  BY DEF Migrates
<1>5. last = "old" /\ pLocation # "unset" => Migrates
  BY DEF Migrates, Updated, FirstLaunch
<1>6. WInv' /\ stack' # <<>> /\ ("consent" \in Windows' => ~pConsent')
  <2>1. CASE FirstWindows(<<"alarm">>)
    <3>1. "alarm" \in Kind \ {"actions", "choice"}
      BY DEF Kind
    <3>2. /\ <<"alarm">> \in Seq(Kind) /\ Range(<<"alarm">>) = {"alarm"}
          /\ Well(<<"alarm">>) /\ <<"alarm">> # <<>>
      BY <3>1, SingleFacts
    <3>3. WInv' /\ stack' = <<"alarm">>
      BY <1>2, <2>1, <3>2, FirstWindowsStep
    <3> QED
      BY <3>2, <3>3 DEF Windows
  <2>2. CASE ~pConsent' /\ FirstWindows(<<"consent">>)
    <3>1. "consent" \in Kind \ {"actions", "choice"}
      BY DEF Kind
    <3>2. /\ <<"consent">> \in Seq(Kind) /\ Range(<<"consent">>) = {"consent"}
          /\ Well(<<"consent">>) /\ <<"consent">> # <<>>
      BY <3>1, SingleFacts
    <3>3. WInv' /\ stack' = <<"consent">>
      BY <1>2, <2>2, <3>2, FirstWindowsStep
    <3> QED
      BY <2>2, <3>2, <3>3
  <2>3. CASE pConsent' /\ FirstWindows(WithNotes(<<"root">>))
    <3> DEFINE s == WithNotes(<<"root">>)
    <3>1. /\ s \in Seq(Kind) /\ Well(s) /\ s # <<>>
          /\ Range(s) = {"root"} \/ Range(s) = {"root", "notes"}
      BY NotesFacts
    <3>2. FirstWindows(s)
      BY <2>3
    <3> HIDE DEF s
    <3>3. WInv' /\ stack' = s
      BY <1>2, <3>1, <3>2, FirstWindowsStep
    <3> QED
      BY <3>1, <3>3 DEF Windows
  <2>4. CASE pConsent' /\ \E timed \in BOOLEAN : FirstSession(timed)
    BY <1>2, <2>4, FirstSessionStep
  <2> QED
    BY <2>1, <2>2, <2>3, <2>4 DEF Begin
<1>7. expecting = FALSE
  BY <1>1, <1>2 DEF Frozen, AppTypes
<1>8. AppTypes'
  BY <1>1, <1>2, <1>3, <1>6 DEF AppTypes, Version, Stage
<1>9. Remembered'
  BY <1>1, <1>2, <1>3, <1>4, <1>5 DEF Remembered
<1>10. Frozen' /\ Echoed'
  BY <1>1, <1>2, <1>6, <1>7 DEF Frozen, Echoed
<1> QED
  BY <1>6, <1>8, <1>9, <1>10 DEF IInv

\* The user leaves, or the watch is reset.
LEMMA LeaveStep ==
    ASSUME IInv, Leave
    PROVE  IInv'
<1>1. WInv /\ AppTypes /\ Remembered /\ Frozen /\ Echoed
  BY DEF IInv
<1>2. /\ phase # "off" /\ phase' = "off" /\ stage' = "llm" /\ expecting' = FALSE
      /\ toPhone' = {} /\ toWatch' = <<>> /\ dropped' = FALSE
      /\ stack' = <<>> /\ sw' = NoSession /\ dictating' = "nobody" /\ waiting' = {}
      /\ due' = NothingDue /\ root' = "none" /\ seen' = {} /\ lost' = {}
      /\ last' = "none"
      /\ UNCHANGED <<pVersion, pLocation, pConsent, phoneLocation, saved, answered>>
  BY DEF Leave, Gone, flash
<1>3. /\ cut' \in BOOLEAN
      /\ cut \/ phase = "consenting" \/ (phase = "starting" /\ Migrates) => cut'
  BY DEF Leave
<1>4. WInv' /\ Windows' = {}
  BY <1>2, NoWindows
<1>5. AppTypes'
  BY <1>1, <1>2, <1>3, NoMessages DEF AppTypes, Version, Stage
<1>6. last = "old" /\ pLocation # "unset" => Migrates
  BY DEF Migrates, Updated, FirstLaunch
<1>7. Remembered'
  BY <1>1, <1>2, <1>3, <1>6 DEF Remembered
<1>8. Frozen' /\ Echoed'
  BY <1>1, <1>2, <1>4 DEF Frozen, Echoed
<1> QED
  BY <1>4, <1>5, <1>7, <1>8 DEF IInv

-----------------------------------------------------------------------------
(* Consent.                                                                *)

\* The user goes on from a page of the consent window.
LEMMA AgreeStep ==
    ASSUME IInv, Agree
    PROVE  IInv'
<1>1. WInv /\ AppTypes /\ Remembered /\ Frozen /\ Echoed
  BY DEF IInv
<1>2. /\ phase = "running" /\ Top = "consent"
      /\ UNCHANGED <<phase, pVersion, pLocation, pConsent, last, expecting, toPhone,
                     toWatch, phoneLocation, dropped, saved, answered, cut>>
      /\ stage' \in Stage
  BY <1>1 DEF Agree, At, flash, wire, Stage, AppTypes
<1>3. /\ WInv' /\ stack' # <<>>
      /\ Windows \subseteq Windows'
      /\ "consent" \in Windows' => "consent" \in Windows
  <2>1. CASE UNCHANGED windowVars
    <3>1. stack # <<>> /\ stack' = stack
      BY <1>1, <1>2, <2>1, StackFacts DEF windowVars
    <3> QED
      BY <1>1, <2>1, <3>1, SameWindows
  <2>2. CASE Push("choice")
    <3> DEFINE s == Append(stack, "choice")
    <3>1. Len(stack) < MaxDepth /\ Show(s)
      BY <2>2 DEF Push, Over
    <3>2. Well(stack) /\ Range(stack) = {"consent"}
      BY <1>1, <1>2, ConsentAlone DEF WInv, Top
    <3>3. /\ "choice" \in Kind \ {"consent"} /\ "choice" \in OverConsent
          /\ Level("consent") < Level("choice")
      BY DEF Kind, OverConsent, Level, Asking, Form
    <3>4. Well(s)
      <4>1. \A v \in Range(stack) : Level(v) > 0 => Level(v) < Level("choice")
        BY <3>2, <3>3
      <4>2. "consent" \in Range(stack)
        BY <3>2
      <4> QED
        BY <3>1, <3>2, <3>3, <4>1, <4>2, OverWell
    <3>5. Range(s) = Range(stack) \union {"choice"} /\ s # <<>>
      BY <3>2, <3>3, AppendFacts DEF Well
    <3> HIDE DEF s
    <3>6. WInv'
      BY <1>1, <3>1, <3>4, <3>5, ShowStep DEF Windows
    <3>7. stack' = s /\ Windows' = Range(s) /\ Windows = Range(stack)
      BY <3>1 DEF Show, Layout, Windows
    <3> QED
      BY <3>5, <3>6, <3>7
  <2> QED
    BY <2>1, <2>2 DEF Agree
<1>4. AppTypes'
  BY <1>1, <1>2, <1>3 DEF AppTypes
<1>5. Remembered' /\ Frozen' /\ Echoed'
  BY <1>1, <1>2, <1>3 DEF Remembered, Frozen, Echoed
<1> QED
  BY <1>3, <1>4, <1>5 DEF IInv

\* The user chooses about the location: the menu freezes.
LEMMA ChooseStep ==
    ASSUME IInv, NEW v \in Choice, Choose(v)
    PROVE  IInv'
<1>1. WInv /\ AppTypes /\ Remembered /\ Frozen /\ Echoed
  BY DEF IInv
<1>2. /\ phase = "running" /\ Top = "choice" /\ ~expecting /\ expecting' = TRUE
      /\ UNCHANGED windowVars
      /\ UNCHANGED <<phase, pVersion, pLocation, pConsent, last, stage, toWatch,
                     phoneLocation, saved, answered, cut>>
      /\ \/ toPhone' = {v} /\ dropped' = dropped
         \/ dropped' = TRUE /\ toPhone' = toPhone
  BY DEF Choose, At, flash
<1>3. WInv' /\ Windows' = Windows /\ stack' = stack
  BY <1>1, <1>2, SameWindows DEF windowVars
<1>4. {"consent", "choice"} \subseteq Windows
  <2>1. Well(stack) /\ Windows = Range(stack)
    BY <1>1 DEF WInv, Windows
  <2>2. stack # <<>> /\ "choice" \in Windows
    BY <1>1, <1>2, StackFacts
  <2> QED
    BY <2>1, <2>2, ConsentAlone
<1>5. AppTypes'
  BY <1>1, <1>2, <1>3 DEF AppTypes
<1>6. Remembered'
  BY <1>1, <1>2 DEF Remembered
<1>7. Frozen'
  <2>1. toPhone' # {} \/ toWatch' # <<>> \/ dropped'
    BY <1>2
  <2> QED
    BY <1>1, <1>2, <1>3, <1>4, <2>1 DEF Frozen
<1>8. Echoed'
  BY <1>1, <1>2 DEF Echoed
<1> QED
  BY <1>3, <1>5, <1>6, <1>7, <1>8 DEF IInv

\* The user leaves the consent window.
LEMMA DeclineStep ==
    ASSUME IInv, Decline
    PROVE  IInv'
<1>1. WInv /\ AppTypes /\ Remembered /\ Frozen /\ Echoed
  BY DEF IInv
<1> DEFINE f == Front(stack)
<1>2. /\ phase = "running" /\ Show(f)
      /\ UNCHANGED <<pVersion, pLocation, pConsent, last, phoneLocation, saved,
                     answered, cut>>
  BY DEF Decline, flash
<1>3. Top \in {"consent", "choice"}
  BY DEF Decline, At
<1>4. stack # <<>> /\ Windows = Range(f) \union {Top}
  <2>1. stack # <<>>
    BY <1>1, <1>3, StackFacts
  <2> QED
    BY <1>1, <2>1, StackFacts
<1>5. Well(stack) /\ Windows = Range(stack) /\ Top = TopOf(stack)
  BY <1>1 DEF WInv, Windows, Top
<1>6. Well(f)
  BY <1>4, <1>5, FrontWell
<1>7. Len(f) = Len(stack) - 1 /\ f \in Seq(Kind)
  BY <1>4, <1>5, FrontFacts DEF Well
<1> HIDE DEF f
<1>8. WInv'
  BY <1>1, <1>2, <1>4, <1>6, ShowStep
<1>9. stack' = f /\ Windows' = Range(f)
  BY <1>2 DEF Show, Layout, Windows
<1>10. CASE Top = "consent" /\ Gone
  <2>1. Len(f) = 0
    <3>1. Len(stack) = 1
      BY <1>5, <1>10, ConsentAlone
    <3> QED
      BY <1>7, <3>1
  <2>2. f = <<>> /\ Range(f) = {}
    BY <1>7, <2>1, EmptySeq, RangeIs
  <2>3. /\ phase' = "off" /\ stage' = "llm" /\ expecting' = FALSE
        /\ toPhone' = {} /\ toWatch' = <<>> /\ dropped' = FALSE
    BY <1>10 DEF Gone
  <2>4. AppTypes'
    BY <1>1, <1>2, <1>9, <2>2, <2>3, NoMessages DEF AppTypes, Stage
  <2>5. Remembered' /\ Frozen' /\ Echoed'
    BY <1>1, <1>2, <1>9, <2>2, <2>3 DEF Remembered, Frozen, Echoed
  <2> QED
    BY <1>8, <2>4, <2>5 DEF IInv
<1>11. CASE /\ Top = "choice" /\ ~expecting /\ stage' = "llm"
            /\ UNCHANGED <<phase, expecting, toPhone, toWatch, dropped>>
  <2>1. "consent" \in Range(f)
    BY <1>4, <1>5, <1>11, ConsentAlone
  <2>2. f # <<>>
    BY <1>7, <2>1, RangeIs
  <2>3. AppTypes'
    BY <1>1, <1>2, <1>4, <1>9, <1>11, <2>2 DEF AppTypes, Stage
  <2>4. Remembered' /\ Frozen' /\ Echoed'
    BY <1>1, <1>2, <1>4, <1>9, <1>11 DEF Remembered, Frozen, Echoed
  <2> QED
    BY <1>8, <2>3, <2>4 DEF IInv
<1> QED
  BY <1>10, <1>11 DEF Decline, At

\* A message to the watch.
LEMMA ToWatchFacts ==
    ASSUME AppTypes, NEW v \in Choice, ToWatch(v)
    PROVE  /\ toWatch' \in Seq(Choice) /\ Len(toWatch') <= MaxInFlight
           /\ dropped' \in BOOLEAN
           /\ toWatch' # <<>> \/ dropped'
           /\ dropped => dropped'
           /\ \/ toWatch' = toWatch
              \/ toWatch' = Append(toWatch, v)
<1>1. toWatch \in Seq(Choice) /\ Len(toWatch) <= MaxInFlight /\ dropped \in BOOLEAN
  BY DEF AppTypes
<1>2. CASE Len(toWatch) < MaxInFlight /\ toWatch' = Append(toWatch, v) /\ UNCHANGED dropped
  <2>1. /\ Append(toWatch, v) \in Seq(Choice)
        /\ Len(Append(toWatch, v)) = Len(toWatch) + 1
        /\ Len(toWatch) \in Nat
    BY <1>1, AppendProperties
  <2>2. Len(toWatch) + 1 <= MaxInFlight /\ Len(toWatch) + 1 # 0
    BY <1>2, <2>1, AppAssumption
  <2>3. Append(toWatch, v) # <<>>
    BY <2>1, <2>2, EmptySeq
  <2> QED
    BY <1>1, <1>2, <2>1, <2>2, <2>3
<1>3. CASE dropped' = TRUE /\ UNCHANGED toWatch
  BY <1>1, <1>3
<1> QED
  BY <1>2, <1>3 DEF ToWatch

\* The phone hears of the choice, stores it and echoes it.
LEMMA PhoneHearsStep ==
    ASSUME IInv, PhoneHears
    PROVE  IInv'
<1>1. WInv /\ AppTypes /\ Remembered /\ Frozen /\ Echoed
  BY DEF IInv
<1>2. PICK v \in toPhone : toPhone' = {} /\ phoneLocation' = v /\ ToWatch(v)
  BY DEF PhoneHears
<1>3. /\ phase = "running" /\ UNCHANGED windowVars
      /\ UNCHANGED <<phase, pVersion, pLocation, pConsent, last, stage, expecting,
                     saved, answered, cut>>
  BY DEF PhoneHears, flash, consent
<1>4. v \in Choice
  BY <1>1, <1>2 DEF AppTypes
<1>5. /\ toWatch' \in Seq(Choice) /\ Len(toWatch') <= MaxInFlight
      /\ dropped' \in BOOLEAN
      /\ toWatch' # <<>> \/ dropped'
      /\ dropped => dropped'
      /\ \/ toWatch' = toWatch
         \/ toWatch' = Append(toWatch, v)
  BY <1>1, <1>2, <1>4, ToWatchFacts
<1>6. WInv' /\ Windows' = Windows /\ stack' = stack
  BY <1>1, <1>3, SameWindows DEF windowVars
<1>7. AppTypes'
  BY <1>1, <1>2, <1>3, <1>4, <1>5, <1>6 DEF AppTypes
<1>8. Remembered' /\ Frozen'
  BY <1>1, <1>3, <1>5, <1>6 DEF Remembered, Frozen
<1>9. Echoed'
  <2> SUFFICES ASSUME ~saved'
               PROVE  /\ toPhone' # {} => expecting' /\ toWatch' = <<>>
                      /\ toWatch' # <<>> => expecting' /\ toWatch' = <<phoneLocation'>>
                      /\ phase' = "consenting" => pLocation' = phoneLocation'
                      /\ answered' => pLocation' = phoneLocation'
    BY DEF Echoed
  <2>1. expecting /\ toWatch = <<>>
    BY <1>1, <1>2, <1>3 DEF Echoed
  <2>2. ~answered
    BY <1>1, <2>1 DEF Frozen, Remembered
  <2>3. Append(<<>>, v) = <<v>>
    BY <1>4
  <2> QED
    BY <1>2, <1>3, <1>5, <2>1, <2>2, <2>3
<1> QED
  BY <1>6, <1>7, <1>8, <1>9 DEF IInv

\* The settings page of the phone changes the location.
LEMMA SettingsSavedStep ==
    ASSUME IInv, SettingsSaved
    PROVE  IInv'
<1>1. WInv /\ AppTypes /\ Remembered /\ Frozen /\ Echoed
  BY DEF IInv
<1>2. PICK v \in Choice : phoneLocation' = v /\ ToWatch(v)
  BY DEF SettingsSaved
<1>3. /\ phase = "running" /\ saved' = TRUE /\ UNCHANGED windowVars
      /\ UNCHANGED <<phase, pVersion, pLocation, pConsent, last, stage, expecting,
                     toPhone, answered, cut>>
  BY DEF SettingsSaved, flash, consent
<1>4. /\ toWatch' \in Seq(Choice) /\ Len(toWatch') <= MaxInFlight
      /\ dropped' \in BOOLEAN
      /\ toWatch' # <<>> \/ dropped'
  BY <1>1, <1>2, ToWatchFacts
<1>5. WInv' /\ Windows' = Windows /\ stack' = stack
  BY <1>1, <1>3, SameWindows DEF windowVars
<1>6. AppTypes'
  BY <1>1, <1>2, <1>3, <1>4, <1>5 DEF AppTypes
<1>7. Remembered' /\ Frozen' /\ Echoed'
  BY <1>1, <1>3, <1>4, <1>5 DEF Remembered, Frozen, Echoed
<1> QED
  BY <1>5, <1>6, <1>7 DEF IInv

\* The watch hears of the location from the phone.
LEMMA WatchHearsStep ==
    ASSUME IInv, WatchHears
    PROVE  IInv'
<1>1. WInv /\ AppTypes /\ Remembered /\ Frozen /\ Echoed
  BY DEF IInv
<1>2. /\ phase = "running" /\ toWatch # <<>> /\ toWatch' = Tail(toWatch)
      /\ UNCHANGED windowVars
      /\ UNCHANGED <<pVersion, pConsent, last, stage, toPhone, phoneLocation,
                     dropped, saved, answered, cut>>
  BY DEF WatchHears
<1>3. WInv' /\ Windows' = Windows /\ stack' = stack
  BY <1>1, <1>2, SameWindows DEF windowVars
<1>4. /\ Head(toWatch) \in Choice /\ Tail(toWatch) \in Seq(Choice)
      /\ Len(Tail(toWatch)) <= MaxInFlight
  <2>1. /\ Head(toWatch) \in Choice /\ Tail(toWatch) \in Seq(Choice)
        /\ Len(Tail(toWatch)) = Len(toWatch) - 1
    BY <1>1, <1>2, HeadTailProperties DEF AppTypes
  <2>2. Len(toWatch) \in Nat /\ Len(toWatch) <= MaxInFlight
    BY <1>1 DEF AppTypes
  <2> QED
    BY <2>1, <2>2, AppAssumption
<1>5. CASE Heeds /\ expecting' = FALSE /\ pLocation' = Head(toWatch)
           /\ phase' = "consenting"
  <2>1. pLocation' \in Choice /\ pLocation' # "unset" /\ pLocation' \in Setting
    BY <1>4, <1>5, AppAssumption DEF Setting
  <2>2. expecting /\ {"consent", "choice"} \subseteq Windows /\ ~pConsent /\ ~answered
    BY <1>1, <1>5 DEF Heeds, Frozen, Remembered
  <2>3. AppTypes'
    BY <1>1, <1>2, <1>3, <1>4, <1>5, <2>1 DEF AppTypes
  <2>4. Remembered' /\ Frozen'
    BY <1>1, <1>2, <1>3, <1>5, <2>1, <2>2 DEF Remembered, Frozen
  <2>5. Echoed'
    <3> SUFFICES ASSUME ~saved
                 PROVE  /\ toPhone' = {} /\ toWatch' = <<>>
                        /\ pLocation' = phoneLocation'
      BY <1>2, <2>2 DEF Echoed
    <3>1. toWatch = <<phoneLocation>> /\ toPhone = {}
      BY <1>1, <1>2 DEF Echoed
    <3>2. Head(<<phoneLocation>>) = phoneLocation /\ Tail(<<phoneLocation>>) = <<>>
      OBVIOUS
    <3> QED
      BY <1>2, <1>5, <3>1, <3>2
  <2> QED
    BY <1>3, <2>3, <2>4, <2>5 DEF IInv
<1>6. CASE ~Heeds /\ UNCHANGED <<expecting, pLocation, phase>>
  <2>1. ~expecting
    BY <1>1, <1>6 DEF Heeds, Frozen
  <2>2. saved
    BY <1>1, <1>2, <2>1 DEF Echoed
  <2>3. AppTypes'
    BY <1>1, <1>2, <1>3, <1>4, <1>6 DEF AppTypes
  <2>4. Remembered' /\ Frozen' /\ Echoed'
    BY <1>1, <1>2, <1>3, <1>6, <2>1, <2>2 DEF Remembered, Frozen, Echoed
  <2> QED
    BY <1>3, <2>3, <2>4 DEF IInv
<1> QED
  BY <1>5, <1>6 DEF WatchHears

\* The second write: consent is stored, and the root window shown.
LEMMA ConsentedStep ==
    ASSUME IInv, Consented
    PROVE  IInv'
<1>1. WInv /\ AppTypes /\ Remembered /\ Frozen /\ Echoed
  BY DEF IInv
<1>2. /\ phase = "consenting" /\ phase' = "running" /\ pConsent' = TRUE
      /\ answered' = TRUE /\ dropped' = FALSE
      /\ UNCHANGED <<pVersion, pLocation, last, stage, expecting, toPhone, toWatch,
                     phoneLocation, saved, cut>>
  BY DEF Consented, consent
<1>3. PICK r \in Removed(stack, "choice") : \E rest \in Removed(r, "consent") :
        Show(Append(rest, "root")) \/ Show(<<"root">> \o rest)
  BY DEF Consented
<1>4. PICK rest \in Removed(r, "consent") :
        Show(Append(rest, "root")) \/ Show(<<"root">> \o rest)
  BY <1>3
<1>5. PICK s : /\ s \in {Append(rest, "root"), <<"root">> \o rest} /\ Show(s)
  BY <1>4
<1>6. Well(stack) /\ Windows = Range(stack)
  BY <1>1 DEF WInv, Windows
<1>7. /\ Well(s) /\ Range(s) = Range(rest) \union {"root"}
      /\ Range(rest) \subseteq {"alarm", "result"} /\ s # <<>>
  <2>1. /\ Well(Append(rest, "root")) /\ Well(<<"root">> \o rest)
        /\ Range(Append(rest, "root")) = Range(rest) \union {"root"}
        /\ Range(<<"root">> \o rest) = Range(rest) \union {"root"}
        /\ Range(rest) \subseteq {"alarm", "result"}
        /\ Append(rest, "root") # <<>> /\ <<"root">> \o rest # <<>>
    BY <1>6, ConsentedWell
  <2> QED
    BY <1>5, <2>1
<1>8. WInv'
  BY <1>1, <1>5, <1>7, ShowStep
<1>9. stack' = s /\ Windows' = Range(s)
  BY <1>5 DEF Show, Layout, Windows
<1>10. AppTypes'
  BY <1>1, <1>2, <1>7, <1>9 DEF AppTypes
<1>11. Remembered' /\ Frozen' /\ Echoed'
  BY <1>1, <1>2, <1>7, <1>9 DEF Remembered, Frozen, Echoed
<1> QED
  BY <1>8, <1>10, <1>11 DEF IInv

\* A step of the windows, and what the app makes of it.
LEMMA WindowsStep ==
    ASSUME IInv, phase = "running", StackNext, Reacts
    PROVE  IInv'
<1>1. WInv /\ AppTypes /\ Remembered /\ Frozen /\ Echoed
  BY DEF IInv
<1>2. WInv' /\ ConsentKept
  BY <1>1, StackNextStep
<1>3. UNCHANGED <<pVersion, pLocation, pConsent, last, phoneLocation, saved,
                  answered, cut>>
  BY DEF Reacts, flash, wire
<1>4. CASE stack' = <<>> /\ Gone
  <2>1. /\ phase' = "off" /\ stage' = "llm" /\ expecting' = FALSE
        /\ toPhone' = {} /\ toWatch' = <<>> /\ dropped' = FALSE
    BY <1>4 DEF Gone
  <2>2. AppTypes'
    BY <1>1, <1>3, <1>4, <2>1, NoMessages DEF AppTypes, Stage
  <2>3. "consent" \in Windows' => "consent" \in Windows
    BY <1>2 DEF ConsentKept
  <2>4. Remembered' /\ Frozen' /\ Echoed'
    BY <1>1, <1>3, <2>1, <2>3 DEF Remembered, Frozen, Echoed
  <2> QED
    BY <1>2, <2>2, <2>4 DEF IInv
<1>5. CASE /\ stack' # <<>>
           /\ stage' = IF TopOf(stack') = "consent" /\ Top # "consent"
                       THEN "llm" ELSE stage
           /\ UNCHANGED <<phase, expecting, wire>>
  <2>1. UNCHANGED <<toPhone, toWatch, dropped>>
    BY <1>5 DEF wire
  <2>2. AppTypes'
    BY <1>1, <1>3, <1>5, <2>1 DEF AppTypes, Stage
  <2>3. /\ "consent" \in Windows' => "consent" \in Windows
        /\ {"consent", "choice"} \subseteq Windows
              => {"consent", "choice"} \subseteq Windows'
    BY <1>2 DEF ConsentKept
  <2>4. Remembered' /\ Frozen' /\ Echoed'
    BY <1>1, <1>3, <1>5, <2>1, <2>3 DEF Remembered, Frozen, Echoed
  <2> QED
    BY <1>2, <2>2, <2>4 DEF IInv
<1> QED
  BY <1>4, <1>5 DEF Reacts

\* A stuttering step changes nothing of the invariant.
LEMMA SameStep == IInv /\ UNCHANGED allVars => IInv'
<1> SUFFICES ASSUME IInv, UNCHANGED allVars PROVE IInv'
  OBVIOUS
<1>1. WInv /\ AppTypes /\ Remembered /\ Frozen /\ Echoed
  BY DEF IInv
<1>2. /\ UNCHANGED windowVars
      /\ UNCHANGED <<phase, pVersion, pLocation, pConsent, last, stage, expecting,
                     toPhone, toWatch, phoneLocation, dropped, saved, answered, cut>>
  BY DEF allVars, appVars, flash, consent, wire
<1>3. WInv' /\ Windows' = Windows /\ stack' = stack
  BY <1>1, <1>2, SameWindows DEF windowVars
<1>4. AppTypes'
  BY <1>1, <1>2, <1>3 DEF AppTypes
<1>5. Remembered' /\ Frozen' /\ Echoed'
  BY <1>1, <1>2, <1>3 DEF Remembered, Frozen, Echoed
<1> QED
  BY <1>3, <1>4, <1>5 DEF IInv

\* Every step of the app, of the phone and of the user keeps the invariant.
LEMMA NextStep == IInv /\ [AppNext]_allVars => IInv'
BY LaunchStep, BeginStep, LeaveStep, AgreeStep, ChooseStep, DeclineStep,
   PhoneHearsStep, SettingsSavedStep, WatchHearsStep, ConsentedStep, WindowsStep,
   SameStep DEF AppNext

-----------------------------------------------------------------------------
(* Theorems.                                                               *)

\* The invariant that all others follow from: windows pile up in order, a
\* session's timer, dictation and forms are accounted for, and the consent is
\* in one place at a time.
THEOREM InductiveInvariant == AppSpec => []IInv
BY InitHolds, NextStep, PTL DEF AppSpec

\* The windows, flash and messages have their types: a dictation belongs to a
\* window on the stack, who waits is on the stack, and the app runs as long as
\* it has a window.
THEOREM TypeCorrect == AppSpec => []TypeOK
<1>1. IInv => TypeOK
  BY DEF IInv, WInv, Well, WindowTypes, AppTypes, TypeOK
<1> QED
  BY <1>1, InductiveInvariant, PTL

\* Whatever a timeout, a failed dictation, a late answer, a lost request or a
\* warning takes from the user has its cause in what happened before.
THEOREM LossesAreExplained == AppSpec => []LossesExplained
<1>1. IInv => LossesExplained
  BY DEF IInv, WInv
<1> QED
  BY <1>1, InductiveInvariant, PTL

\* The session of a quick launch has its timer running, or a reason why not.
THEOREM QuitsAreExplained == AppSpec => []QuitsExplained
<1>1. IInv => QuitsExplained
  BY DEF IInv, WInv, Sound, QuitsExplained, Windows
<1> QED
  BY <1>1, InductiveInvariant, PTL

\* A consent means a choice, is asked for again only if the app was cut off
\* between two writes, is the same on watch and phone unless the settings page
\* took part, and its menu stays frozen only if a message was lost.
THEOREM ConsentIsExplained == AppSpec => []ConsentExplained
<1>1. IInv => ConsentExplained
  <2> SUFFICES ASSUME IInv PROVE ConsentExplained
    OBVIOUS
  <2>1. Remembered /\ Frozen /\ Echoed
    BY DEF IInv
  <2> QED
    BY <2>1 DEF Remembered, Frozen, Echoed, ConsentExplained
<1> QED
  BY <1>1, InductiveInvariant, PTL
=============================================================================
