------------------------- MODULE AlarmManagerProofs -------------------------
(***************************************************************************)
(* Proofs about AlarmManager for any number of alarms, wakeups, kills and  *)
(* misses: memory, flash and the wakeup service agree, the conversation    *)
(* shows what is set, alarms ring once and in time, and what one kill in   *)
(* the middle of a save cannot break.  Then, about AlarmMenu: the menus    *)
(* break nothing of it, and delete and show alarms of their kind.          *)
(***************************************************************************)
EXTENDS AlarmMenu, SequenceTheorems, FiniteSetTheorems, TLAPS

-----------------------------------------------------------------------------
(* The inductive invariant.                                                *)

\* No more alarms than there is room for.
Room == Len(alarms) <= MAX_ALARMS

\* An app that does not run has nothing but its flash.
Off ==
    ~running => /\ alarms = <<>> /\ windows = <<>> /\ shown = {}
                /\ due = <<>> /\ todo = <<>> /\ ~conversing

\* The steps that may come after one of a handler.
Follows(step) ==
    CASE step = "one"        -> {"times"}
      [] step = "times"      -> {"ids"}
      [] step = "ids"        -> {"timers"}
      [] step = "timers"     -> {"two"}
      [] step = "two"        -> {"cancel_all", "maybe_alarm"}
      [] step = "cancel_all" -> {"one"}
      [] OTHER               -> {}

\* What is left of a handler is the end of a save, perhaps of one that cancels
\* all, and of main().
Linked(steps) ==
    \A i \in 1..Len(steps) - 1 : steps[i + 1] \in Follows(steps[i])

Planned(steps) ==
    /\ Linked(steps)
    /\ steps # <<>> => steps[Len(steps)] \in {"two", "maybe_alarm"}

Saving ==
    /\ Planned(todo)
    /\ \A i \in 1..Len(todo) : todo[i] = "cancel_all" => alarms = <<>>

\* The service has every wakeup once, and none of those handed to the app; what
\* it has is pending.
Wakeups ==
    /\ \A e \in scheduled : /\ e.id \in DOMAIN fate
                            /\ fate[e.id] = "pending"
                            /\ e.id \notin Due
    /\ \A e, f \in scheduled : e.id = f.id => e = f
    /\ \A i \in DOMAIN due : due[i] \in DOMAIN fate

\* The ids of the alarms in memory are of wakeups that were scheduled.
Known == \A i \in DOMAIN alarms : alarms[i].id \in DOMAIN fate

\* The alarms in memory are different, in order, pending, and will ring.
Memory ==
    kills <= 1 =>
        /\ \A i \in DOMAIN alarms :
              /\ fate[alarms[i].id] = "pending"
              /\ alarms[i].id \in Ids(scheduled) \union Due
        /\ \A i, j \in DOMAIN alarms :
              i < j => /\ alarms[i].id # alarms[j].id
                       /\ alarms[i].time <= alarms[j].time

\* Before any kill, the alarms in memory have the times of their wakeups.
Timely ==
    kills = 0 =>
        /\ \A i \in DOMAIN alarms :
              /\ \A e \in scheduled : e.id = alarms[i].id => e.time = alarms[i].time
              /\ alarms[i].id \in Due => alarms[i].time <= now
        /\ \A i, j \in DOMAIN alarms : i # j => alarms[i].time # alarms[j].time

\* Before any kill, what is pending is known, to memory or to flash.
NoneLost ==
    kills = 0 =>
        \A id \in DOMAIN fate : fate[id] = "pending" =>
            /\ running => id \in AlarmIds
            /\ ~running => \E a \in StoredAlarms :
                              a.id = id /\ [id |-> id, time |-> a.time] \in scheduled

\* The columns of flash are each of one array of alarms.
Columns ==
    kills <= 1 =>
        /\ \A i, j \in DOMAIN flash.ids : i # j => flash.ids[i] # flash.ids[j]
        /\ \A i, j \in DOMAIN flash.times : i < j =>
              /\ flash.times[i] <= flash.times[j]
              /\ kills = 0 => flash.times[i] # flash.times[j]

\* Flash has no more entries than are written.
Written ==
    LET count == Lesser(flash.one, flash.two)
    IN  /\ count <= Len(flash.times)
        /\ count <= Len(flash.ids)
        /\ count <= Len(flash.timers)

\* Memory knows no more than flash, and before any kill all of flash is of one
\* array.
Saved ==
    kills <= 1 =>
        /\ Written
        /\ \A i \in DOMAIN alarms : alarms[i] \in StoredAlarms
        /\ kills = 0 => /\ flash.one = flash.two
                        /\ Len(flash.times) = flash.two
                        /\ Len(flash.ids) = flash.two
                        /\ Len(flash.timers) = flash.two

\* What a save that has come to a step has written, and what it has not yet.
HasOne == flash.one = Len(alarms)
HasTimes == flash.times = Image(alarms).times
HasIds == flash.ids = Image(alarms).ids
HasTimers == flash.timers = Image(alarms).timers
HasTwo == flash.two = Len(alarms)
OldOne == kills = 0 => flash.one = flash.two
OldTimes == kills = 0 => Len(flash.times) = flash.two
OldIds == kills = 0 => Len(flash.ids) = flash.two
OldTimers == kills = 0 => Len(flash.timers) = flash.two

Progress ==
    IF todo = <<>> THEN Saved
    ELSE /\ Head(todo) = "one" => OldOne /\ OldTimes /\ OldIds /\ OldTimers
         /\ Head(todo) = "times" => HasOne /\ OldTimes /\ OldIds /\ OldTimers
         /\ Head(todo) = "ids" => HasOne /\ HasTimes /\ OldIds /\ OldTimers
         /\ Head(todo) = "timers" => HasOne /\ HasTimes /\ HasIds /\ OldTimers
         /\ Head(todo) = "two" => HasOne /\ HasTimes /\ HasIds /\ HasTimers
         /\ Head(todo) = "cancel_all" =>
               HasOne /\ HasTimes /\ HasIds /\ HasTimers /\ HasTwo
         /\ Head(todo) = "maybe_alarm" => Saved

\* What the conversation shows has the time of the alarm it shows.
Shown ==
    \A e \in shown :
        /\ e.id \in DOMAIN fate
        /\ \A i \in DOMAIN alarms : alarms[i].id = e.id => alarms[i].time = e.time
        /\ e.time > now => e.id \in AlarmIds
        /\ conversing

IInv ==
    /\ TypeOK /\ Off /\ Columns
    /\ Saving /\ Progress
    /\ Room /\ Known /\ Wakeups /\ Memory /\ Timely /\ NoneLost /\ Shown

Fate == {"pending", "rung", "cancelled", "missed"}

Event == [id : WakeupId, time : Time]
-----------------------------------------------------------------------------
(* Sequences.                                                              *)

\* What prv_remove_alarm() leaves of an array.
LEMMA Removed ==
    ASSUME NEW S, NEW s \in Seq(S), NEW i \in 1..Len(s)
    PROVE  LET r == SubSeq(s, 1, i - 1) \o SubSeq(s, i + 1, Len(s))
           IN  /\ r \in Seq(S)
               /\ Len(r) = Len(s) - 1
               /\ \A j \in 1..Len(s) - 1 : r[j] = s[IF j < i THEN j ELSE j + 1]
<1> DEFINE u == SubSeq(s, 1, i - 1)
           v == SubSeq(s, i + 1, Len(s))
<1>1. Len(s) \in Nat
  OBVIOUS
<1>2. \A j \in 1..Len(s) : s[j] \in S
  BY ElementOfSeq
<1>3. /\ u \in Seq(S)
      /\ Len(u) = i - 1
      /\ \A j \in 1..i - 1 : u[j] = s[j]
  <2>1. \A j \in 1..i - 1 : s[j] \in S
    BY <1>1, <1>2
  <2>2. /\ u \in Seq(S)
        /\ Len(u) = IF 1 <= i - 1 THEN i - 1 - 1 + 1 ELSE 0
        /\ \A j \in 1..i - 1 - 1 + 1 : u[j] = s[1 + j - 1]
    BY <1>1, <2>1, SubSeqProperties
  <2> HIDE DEF u
  <2> QED
    BY <1>1, <2>2
<1>4. /\ v \in Seq(S)
      /\ Len(v) = Len(s) - i
      /\ \A j \in 1..Len(s) - i : v[j] = s[i + j]
  <2>1. \A j \in i + 1..Len(s) : s[j] \in S
    BY <1>1, <1>2
  <2>2. /\ v \in Seq(S)
        /\ Len(v) = IF i + 1 <= Len(s) THEN Len(s) - (i + 1) + 1 ELSE 0
        /\ \A j \in 1..Len(s) - (i + 1) + 1 : v[j] = s[i + 1 + j - 1]
    BY <1>1, <2>1, SubSeqProperties
  <2> HIDE DEF v
  <2> QED
    BY <1>1, <2>2
<1> HIDE DEF u, v
<1>5. /\ u \o v \in Seq(S)
      /\ Len(u \o v) = Len(u) + Len(v)
      /\ \A j \in 1..Len(u) + Len(v) :
            (u \o v)[j] = IF j <= Len(u) THEN u[j] ELSE v[j - Len(u)]
  BY <1>3, <1>4, ConcatProperties
<1>6. ASSUME NEW j \in 1..Len(s) - 1
      PROVE  (u \o v)[j] = s[IF j < i THEN j ELSE j + 1]
  <2>1. CASE j < i
    BY <1>1, <1>3, <1>4, <1>5, <2>1
  <2>2. CASE ~(j < i)
    <3>1. (u \o v)[j] = v[j - (i - 1)] /\ j - (i - 1) \in 1..Len(s) - i
      BY <1>1, <1>3, <1>4, <1>5, <2>2
    <3>2. v[j - (i - 1)] = s[i + (j - (i - 1))]
      BY <1>4, <3>1
    <3>3. i + (j - (i - 1)) = j + 1
      BY <1>1
    <3> QED
      BY <2>2, <3>1, <3>2, <3>3
  <2> QED
    BY <2>1, <2>2
<1>7. /\ u \o v \in Seq(S)
      /\ Len(u \o v) = Len(s) - 1
      /\ \A j \in 1..Len(s) - 1 :
            (u \o v)[j] = s[IF j < i THEN j ELSE j + 1]
  <2>1. Len(u) + Len(v) = Len(s) - 1
    BY <1>1, <1>3, <1>4
  <2> QED
    BY <1>5, <1>6, <2>1
<1> QED
  BY <1>7 DEF u, v

\* The array alarm_manager_add_alarm() makes.
InsertAt(s, k, a) == SubSeq(s, 1, k) \o <<a>> \o SubSeq(s, k + 1, Len(s))

\* Its length, and which alarm is where.
LEMMA Inserted ==
    ASSUME NEW S, NEW s \in Seq(S), NEW a \in S, NEW k \in 0..Len(s)
    PROVE  /\ InsertAt(s, k, a) \in Seq(S)
           /\ Len(InsertAt(s, k, a)) = Len(s) + 1
           /\ \A j \in 1..Len(s) + 1 :
                 InsertAt(s, k, a)[j] = IF j <= k THEN s[j]
                                        ELSE IF j = k + 1 THEN a ELSE s[j - 1]
<1> DEFINE u == SubSeq(s, 1, k)
           v == SubSeq(s, k + 1, Len(s))
           w == u \o <<a>>
<1>1. Len(s) \in Nat
  OBVIOUS
<1>2. \A j \in 1..Len(s) : s[j] \in S
  BY ElementOfSeq
<1>3. /\ u \in Seq(S)
      /\ Len(u) = k
      /\ \A j \in 1..k : u[j] = s[j]
  <2>1. \A j \in 1..k : s[j] \in S
    BY <1>1, <1>2
  <2>2. /\ u \in Seq(S)
        /\ Len(u) = IF 1 <= k THEN k - 1 + 1 ELSE 0
        /\ \A j \in 1..k - 1 + 1 : u[j] = s[1 + j - 1]
    BY <1>1, <2>1, SubSeqProperties
  <2> HIDE DEF u
  <2> QED
    BY <1>1, <2>2
<1>4. /\ v \in Seq(S)
      /\ Len(v) = Len(s) - k
      /\ \A j \in 1..Len(s) - k : v[j] = s[k + j]
  <2>1. \A j \in k + 1..Len(s) : s[j] \in S
    BY <1>1, <1>2
  <2>2. /\ v \in Seq(S)
        /\ Len(v) = IF k + 1 <= Len(s) THEN Len(s) - (k + 1) + 1 ELSE 0
        /\ \A j \in 1..Len(s) - (k + 1) + 1 : v[j] = s[k + 1 + j - 1]
    BY <1>1, <2>1, SubSeqProperties
  <2> HIDE DEF v
  <2> QED
    BY <1>1, <2>2
<1> HIDE DEF u, v
<1>5. /\ w \in Seq(S)
      /\ Len(w) = k + 1
      /\ \A j \in 1..k : w[j] = s[j]
      /\ w[k + 1] = a
  <2>1. w = Append(u, a)
    BY <1>3, AppendIsConcat
  <2> QED
    BY <1>3, <2>1, AppendProperties
<1> HIDE DEF w
<1>6. /\ w \o v \in Seq(S)
      /\ Len(w \o v) = Len(w) + Len(v)
      /\ \A j \in 1..Len(w) + Len(v) :
            (w \o v)[j] = IF j <= Len(w) THEN w[j] ELSE v[j - Len(w)]
  BY <1>4, <1>5, ConcatProperties
<1>7. ASSUME NEW j \in 1..Len(s) + 1
      PROVE  (w \o v)[j] = IF j <= k THEN s[j]
                           ELSE IF j = k + 1 THEN a ELSE s[j - 1]
  <2>1. CASE j <= k + 1
    BY <1>1, <1>4, <1>5, <1>6, <2>1
  <2>2. CASE ~(j <= k + 1)
    <3>1. (w \o v)[j] = v[j - (k + 1)] /\ j - (k + 1) \in 1..Len(s) - k
      BY <1>1, <1>4, <1>5, <1>6, <2>2
    <3>2. v[j - (k + 1)] = s[k + (j - (k + 1))]
      BY <1>4, <3>1
    <3>3. k + (j - (k + 1)) = j - 1
      BY <1>1
    <3> QED
      BY <2>2, <3>1, <3>2, <3>3
  <2> QED
    BY <2>1, <2>2
<1>8. /\ w \o v \in Seq(S)
      /\ Len(w \o v) = Len(s) + 1
      /\ \A j \in 1..Len(s) + 1 :
            (w \o v)[j] = IF j <= k THEN s[j]
                         ELSE IF j = k + 1 THEN a ELSE s[j - 1]
  <2>1. Len(w) + Len(v) = Len(s) + 1
    BY <1>1, <1>4, <1>5
  <2> QED
    BY <1>6, <1>7, <2>1
<1> QED
  BY <1>8 DEF u, v, w, InsertAt

\* Two parts of a plan make one, if the second may follow the first.
LEMMA LinkedConcat ==
    ASSUME NEW p \in Seq(Step), NEW q \in Seq(Step), p # <<>>, q # <<>>,
           Linked(p), Linked(q), q[1] \in Follows(p[Len(p)])
    PROVE  /\ p \o q \in Seq(Step) /\ p \o q # <<>>
           /\ Len(p \o q) = Len(p) + Len(q)
           /\ (p \o q)[1] = p[1]
           /\ (p \o q)[Len(p \o q)] = q[Len(q)]
           /\ Linked(p \o q)
           /\ \A i \in 1..Len(p \o q) : \/ \E j \in 1..Len(p) : (p \o q)[i] = p[j]
                                        \/ \E j \in 1..Len(q) : (p \o q)[i] = q[j]
<1> DEFINE r == p \o q
           m == Len(p)
           n == Len(q)
<1>1. m \in Nat \ {0} /\ n \in Nat \ {0}
  BY EmptySeq
<1>2. /\ r \in Seq(Step)
      /\ Len(r) = m + n
      /\ \A i \in 1..m + n : r[i] = IF i <= m THEN p[i] ELSE q[i - m]
  BY ConcatProperties
<1>3. r # <<>>
  <2>1. Len(r) # 0
    BY <1>1, <1>2
  <2> HIDE DEF r
  <2> QED
    BY <2>1, EmptySeq
<1>4. /\ \A i \in 1..m - 1 : p[i + 1] \in Follows(p[i])
      /\ \A i \in 1..n - 1 : q[i + 1] \in Follows(q[i])
      /\ q[1] \in Follows(p[m])
  BY DEF Linked
<1> HIDE DEF r, m, n
<1>5. ASSUME NEW i \in 1..m + n - 1 PROVE r[i + 1] \in Follows(r[i])
  <2>0. i \in 1..m + n /\ i + 1 \in 1..m + n /\ i \in Nat
    BY <1>1
  <2>1. CASE i < m
    <3>1. r[i] = p[i] /\ r[i + 1] = p[i + 1] /\ i \in 1..m - 1
      BY <1>1, <1>2, <2>0, <2>1
    <3> QED
      BY <1>4, <3>1
  <2>2. CASE i = m
    <3>1. r[i] = p[m] /\ r[i + 1] = q[1]
      <4>1. i + 1 - m = 1
        BY <1>1, <2>2
      <4> QED
        BY <1>1, <1>2, <2>0, <2>2, <4>1
    <3> QED
      BY <1>4, <3>1
  <2>3. CASE i > m
    <3> DEFINE k == i - m
    <3>1. k \in 1..n - 1 /\ i + 1 - m = k + 1
      BY <1>1, <2>3
    <3>2. r[i] = q[k] /\ r[i + 1] = q[i + 1 - m]
      BY <1>1, <1>2, <2>0, <2>3
    <3> HIDE DEF k
    <3> QED
      BY <1>4, <3>1, <3>2
  <2> QED
    BY <1>1, <2>0, <2>1, <2>2, <2>3
<1>6. r[1] = p[1]
  BY <1>1, <1>2
<1>7. r[Len(r)] = q[n]
  <2>1. (m + n) - m = n /\ m + n \in 1..m + n /\ ~(m + n <= m)
    BY <1>1
  <2>2. r[m + n] = q[(m + n) - m]
    BY <1>2, <2>1
  <2> QED
    BY <1>2, <2>1, <2>2
<1>8. ASSUME NEW i \in 1..m + n
      PROVE  \/ \E j \in 1..m : r[i] = p[j]
             \/ \E j \in 1..n : r[i] = q[j]
  <2>1. CASE i <= m
    BY <1>1, <1>2, <2>1
  <2>2. CASE i > m
    <3>1. i - m \in 1..n /\ r[i] = q[i - m]
      BY <1>1, <1>2, <2>2
    <3> QED
      BY <3>1
  <2> QED
    BY <1>1, <2>1, <2>2
<1>9. Linked(r)
  <2>1. \A i \in 1..Len(r) - 1 : r[i + 1] \in Follows(r[i])
    BY <1>1, <1>2, <1>5
  <2> QED
    BY <2>1 DEF Linked
<1> QED
  BY <1>2, <1>3, <1>6, <1>7, <1>8, <1>9 DEF r, m, n

\* The plan of a save begins with the first count, ends with the second one, and
\* cancels all only if there are no alarms; main() may go on behind it.
LEMMA PlanIsPlanned ==
    ASSUME NEW s
    PROVE  /\ Planned(SavePlan(s))
           /\ SavePlan(s) \in Seq(Step) /\ SavePlan(s) # <<>>
           /\ SavePlan(s)[1] = "one"
           /\ SavePlan(s)[Len(SavePlan(s))] = "two"
           /\ \A i \in 1..Len(SavePlan(s)) :
                 SavePlan(s)[i] = "cancel_all" => s = <<>>
<1>1. /\ Keys \in Seq(Step) /\ Keys # <<>>
      /\ Len(Keys) = 5
      /\ Keys[1] = "one" /\ Keys[2] = "times" /\ Keys[3] = "ids"
      /\ Keys[4] = "timers" /\ Keys[5] = "two"
  BY DEF Keys, Step
<1>2. /\ Linked(Keys)
      /\ \A i \in 1..5 : Keys[i] # "cancel_all"
  <2>1. 1..Len(Keys) - 1 = {1, 2, 3, 4} /\ 1..5 = {1, 2, 3, 4, 5}
    BY <1>1
  <2>2. ASSUME NEW i \in {1, 2, 3, 4} PROVE Keys[i + 1] \in Follows(Keys[i])
    <3>1. CASE i = 1
      BY <1>1, <3>1 DEF Follows
    <3>2. CASE i = 2
      BY <1>1, <3>2 DEF Follows
    <3>3. CASE i = 3
      BY <1>1, <3>3 DEF Follows
    <3>4. CASE i = 4
      BY <1>1, <3>4 DEF Follows
    <3> QED
      BY <3>1, <3>2, <3>3, <3>4
  <2>3. Linked(Keys)
    BY <2>1, <2>2 DEF Linked
  <2> QED
    BY <1>1, <2>1, <2>3
<1>3. CASE s # <<>>
  BY <1>1, <1>2, <1>3 DEF SavePlan, Planned
<1>4. CASE s = <<>>
  <2> DEFINE c == <<"cancel_all">>
             p == Keys \o c
  <2>1. c \in Seq(Step) /\ c # <<>> /\ Len(c) = 1 /\ c[1] = "cancel_all"
    BY DEF Step
  <2>2. Linked(c)
    <3> HIDE DEF c
    <3>1. 1..Len(c) - 1 = {}
      BY <2>1
    <3> QED
      BY <3>1 DEF Linked
  <2> HIDE DEF c
  <2>3. c[1] \in Follows(Keys[Len(Keys)])
    BY <1>1, <2>1 DEF Follows
  <2>4. /\ p \in Seq(Step) /\ p # <<>>
        /\ p[1] = "one" /\ p[Len(p)] = "cancel_all" /\ Linked(p)
    <3>1. /\ p \in Seq(Step) /\ p # <<>> /\ p[1] = Keys[1]
          /\ p[Len(p)] = c[Len(c)] /\ Linked(p)
      <4>1. Keys \in Seq(Step) /\ Keys # <<>> /\ Linked(Keys)
        BY <1>1, <1>2
      <4>2. c \in Seq(Step) /\ c # <<>> /\ Linked(c)
        BY <2>1, <2>2
      <4> QED
        BY <4>1, <4>2, <2>3, LinkedConcat
    <3> HIDE DEF p
    <3> QED
      BY <1>1, <2>1, <3>1
  <2> HIDE DEF p
  <2>5. Keys[1] \in Follows(p[Len(p)])
    BY <1>1, <2>4 DEF Follows
  <2>6. /\ p \o Keys \in Seq(Step) /\ p \o Keys # <<>>
        /\ (p \o Keys)[1] = "one" /\ (p \o Keys)[Len(p \o Keys)] = "two"
        /\ Linked(p \o Keys)
    <3>1. Keys \in Seq(Step) /\ Keys # <<>> /\ Linked(Keys)
      BY <1>1, <1>2
    <3>2. /\ p \o Keys \in Seq(Step) /\ p \o Keys # <<>>
          /\ (p \o Keys)[1] = p[1]
          /\ (p \o Keys)[Len(p \o Keys)] = Keys[Len(Keys)]
          /\ Linked(p \o Keys)
      BY <2>4, <2>5, <3>1, LinkedConcat
    <3> DEFINE r == p \o Keys
    <3> HIDE DEF r
    <3> QED
      BY <1>1, <2>4, <3>2
  <2>7. SavePlan(s) = p \o Keys
    BY <1>4 DEF SavePlan, p, c
  <2> QED
    BY <1>4, <2>6, <2>7 DEF Planned
<1> QED
  BY <1>3, <1>4

\* So is the plan of a save within prv_load_alarms(), before main() goes on.
LEMMA LaunchPlanIsPlanned ==
    ASSUME NEW s
    PROVE  LET q == SavePlan(s) \o <<"maybe_alarm">>
           IN  /\ Planned(q)
               /\ q \in Seq(Step) /\ q # <<>>
               /\ q[1] = "one"
               /\ \A i \in 1..Len(q) : q[i] = "cancel_all" => s = <<>>
<1> DEFINE p == SavePlan(s)
           c == <<"maybe_alarm">>
<1>1. c \in Seq(Step) /\ c # <<>> /\ Len(c) = 1 /\ c[1] = "maybe_alarm"
  BY DEF Step
<1>2. Linked(c)
  <2> HIDE DEF c
  <2>1. 1..Len(c) - 1 = {}
    BY <1>1
  <2> QED
    BY <2>1 DEF Linked
<1>3. /\ Linked(p)
      /\ p \in Seq(Step) /\ p # <<>>
      /\ p[1] = "one" /\ p[Len(p)] = "two"
      /\ \A i \in 1..Len(p) : p[i] = "cancel_all" => s = <<>>
  BY PlanIsPlanned DEF Planned
<1> HIDE DEF c, p
<1>4. c[1] \in Follows(p[Len(p)])
  BY <1>1, <1>3 DEF Follows
<1>5. /\ p \o c \in Seq(Step) /\ p \o c # <<>>
      /\ (p \o c)[1] = "one" /\ (p \o c)[Len(p \o c)] = "maybe_alarm"
      /\ Linked(p \o c)
      /\ \A i \in 1..Len(p \o c) : \/ \E j \in 1..Len(p) : (p \o c)[i] = p[j]
                                   \/ \E j \in 1..Len(c) : (p \o c)[i] = c[j]
  BY <1>1, <1>2, <1>3, <1>4, LinkedConcat
<1>6. ASSUME NEW i \in 1..Len(p \o c), (p \o c)[i] = "cancel_all"
      PROVE  s = <<>>
  <2>1. \A j \in 1..Len(c) : c[j] # "cancel_all"
    <3>1. 1..Len(c) = {1}
      BY <1>1
    <3> QED
      BY <1>1, <3>1
  <2> QED
    BY <1>3, <1>5, <1>6, <2>1
<1> QED
  BY <1>5, <1>6 DEF Planned, p, c

\* A step done leaves the rest of the plan.
LEMMA PlanGoesOn ==
    ASSUME NEW steps \in Seq(Step), Planned(steps), steps # <<>>
    PROVE  /\ Tail(steps) \in Seq(Step)
           /\ Planned(Tail(steps))
           /\ Tail(steps) # <<>> => Head(Tail(steps)) \in Follows(Head(steps))
           /\ Tail(steps) = <<>> => Head(steps) \in {"two", "maybe_alarm"}
           /\ \A i \in 1..Len(Tail(steps)) : Tail(steps)[i] = steps[i + 1]
<1> DEFINE t == Tail(steps)
           n == Len(steps)
<1>1. /\ t \in Seq(Step)
      /\ Len(t) = n - 1
      /\ \A i \in 1..Len(t) : t[i] = steps[i + 1]
      /\ n \in Nat \ {0}
      /\ Head(steps) = steps[1]
  BY HeadTailProperties, EmptySeq
<1>2. t # <<>> => /\ Len(t) \in Nat \ {0}
                  /\ Head(t) = t[1]
  BY <1>1, EmptySeq
<1>3. t = <<>> => Len(t) = 0
  BY EmptySeq
<1> HIDE DEF t, n
<1>4. Planned(t)
  <2>1. ASSUME NEW i \in 1..Len(t) - 1 PROVE t[i + 1] \in Follows(t[i])
    <3>1. i + 1 \in 1..n - 1 /\ i \in 1..Len(t) /\ i + 1 \in 1..Len(t)
      BY <1>1
    <3>2. steps[(i + 1) + 1] \in Follows(steps[i + 1])
      BY <3>1 DEF Planned, Linked, n
    <3> QED
      BY <1>1, <3>1, <3>2
  <2>2. ASSUME t # <<>> PROVE t[Len(t)] \in {"two", "maybe_alarm"}
    <3>1. Len(t) \in 1..Len(t) /\ Len(t) + 1 = n
      BY <1>1, <1>2, <2>2
    <3>2. t[Len(t)] = steps[n]
      BY <1>1, <3>1
    <3> QED
      BY <3>2 DEF Planned, Linked, n
  <2> QED
    BY <2>1, <2>2 DEF Planned, Linked
<1>5. ASSUME t # <<>> PROVE Head(t) \in Follows(Head(steps))
  <2>1. 1 \in 1..n - 1 /\ 1 \in 1..Len(t)
    BY <1>1, <1>2, <1>5
  <2>2. steps[1 + 1] \in Follows(steps[1])
    BY <2>1 DEF Planned, Linked, n
  <2> QED
    BY <1>1, <1>2, <1>5, <2>1, <2>2
<1>6. ASSUME t = <<>> PROVE Head(steps) \in {"two", "maybe_alarm"}
  <2>1. n = 1
    BY <1>1, <1>3, <1>6
  <2> QED
    BY <1>1, <2>1 DEF Planned, Linked, n
<1> QED
  BY <1>1, <1>4, <1>5, <1>6 DEF t

-----------------------------------------------------------------------------
(* Removing an alarm.                                                      *)

\* Where the alarm at place j was before the one at place i went.
Was(i, j) == IF j < i THEN j ELSE j + 1

\* What prv_remove_alarm() does to the array and to the history.
LEMMA RemoveFacts ==
    ASSUME TypeOK, Known, NEW i \in DOMAIN alarms, NEW why \in Fate,
           RemoveAlarm(i, why)
    PROVE  /\ alarms' \in Seq(Alarm)
           /\ Len(alarms') = Len(alarms) - 1
           /\ \A j \in DOMAIN alarms' : /\ Was(i, j) \in DOMAIN alarms \ {i}
                                        /\ alarms'[j] = alarms[Was(i, j)]
           /\ \A j, k \in DOMAIN alarms' : j < k => Was(i, j) < Was(i, k)
           /\ \A j \in DOMAIN alarms : j # i =>
                 \E k \in DOMAIN alarms' : Was(i, k) = j
           /\ fate' \in Seq(Fate) /\ Len(fate') = Len(fate)
           /\ DOMAIN fate' = DOMAIN fate
           /\ fate'[alarms[i].id] = why
           /\ \A id \in DOMAIN fate : id # alarms[i].id => fate'[id] = fate[id]
           /\ scheduled' = {e \in scheduled : e.id # alarms[i].id}
           /\ shown' \in SUBSET Event
<1> DEFINE n == Len(alarms)
<1>1. alarms \in Seq(Alarm) /\ n \in Nat /\ DOMAIN alarms = 1..n
  BY LenProperties DEF TypeOK
<1>2. /\ alarms' \in Seq(Alarm)
      /\ Len(alarms') = n - 1
      /\ \A j \in 1..n - 1 : alarms'[j] = alarms[IF j < i THEN j ELSE j + 1]
  <2>1. alarms' = SubSeq(alarms, 1, i - 1) \o SubSeq(alarms, i + 1, Len(alarms))
    BY DEF RemoveAlarm
  <2> QED
    BY <1>1, <2>1, Removed
<1>3. DOMAIN alarms' = 1..n - 1
  BY <1>2, LenProperties
<1> HIDE DEF n
<1>4. \A j \in DOMAIN alarms' : /\ Was(i, j) \in DOMAIN alarms \ {i}
                                /\ alarms'[j] = alarms[Was(i, j)]
  BY <1>1, <1>2, <1>3 DEF Was
<1>5. \A j, k \in DOMAIN alarms' : j < k => Was(i, j) < Was(i, k)
  BY <1>1, <1>3 DEF Was
<1>6. ASSUME NEW j \in DOMAIN alarms, j # i
      PROVE  \E k \in DOMAIN alarms' : Was(i, k) = j
  <2>1. CASE j < i
    <3>1. j \in DOMAIN alarms' /\ Was(i, j) = j
      BY <1>1, <1>3, <2>1 DEF Was
    <3> QED
      BY <3>1
  <2>2. CASE i < j
    <3>1. j - 1 \in DOMAIN alarms' /\ Was(i, j - 1) = j
      BY <1>1, <1>3, <2>2 DEF Was
    <3> QED
      BY <3>1
  <2> QED
    BY <1>1, <1>6, <2>1, <2>2
<1>7. /\ fate' \in Seq(Fate) /\ Len(fate') = Len(fate)
      /\ \A id \in 1..Len(fate) :
            fate'[id] = IF id = alarms[i].id THEN why ELSE fate[id]
  <2>1. fate \in Seq(Fate) /\ DOMAIN fate = 1..Len(fate)
    BY LenProperties DEF TypeOK, Fate
  <2>2. alarms[i].id \in 1..Len(fate)
    BY <2>1 DEF Known
  <2>3. fate' = [fate EXCEPT ![alarms[i].id] = why]
    BY DEF RemoveAlarm
  <2> QED
    BY <2>1, <2>2, <2>3, ExceptSeq
<1>8. DOMAIN fate' = DOMAIN fate /\ DOMAIN fate = 1..Len(fate)
  BY <1>7, LenProperties DEF TypeOK
<1>9. fate'[alarms[i].id] = why
  BY <1>7, <1>8 DEF Known
<1>10. scheduled' = {e \in scheduled : e.id # alarms[i].id}
  BY DEF RemoveAlarm
<1>11. shown' \in SUBSET Event
  BY DEF RemoveAlarm, TypeOK, Event
<1> QED
  BY <1>1, <1>2, <1>4, <1>5, <1>6, <1>7, <1>8, <1>9, <1>10, <1>11 DEF n

\* Taking the first event that was handed over leaves the others.
LEMMA DueAfter ==
    ASSUME TypeOK, due # <<>>, due' = Tail(due)
    PROVE  /\ due' \in Seq(WakeupId)
           /\ Due' \subseteq Due
           /\ \A id \in Due : id # Head(due) => id \in Due'
           /\ Head(due) \in Due
           /\ \A k \in DOMAIN due' : due'[k] = due[k + 1] /\ k + 1 \in DOMAIN due
<1> DEFINE n == Len(due)
<1>1. due \in Seq(WakeupId) /\ n \in Nat \ {0} /\ DOMAIN due = 1..n
  BY EmptySeq, LenProperties DEF TypeOK
<1>2. /\ due' \in Seq(WakeupId) /\ Len(due') = n - 1
      /\ \A k \in 1..Len(due') : due'[k] = due[k + 1]
      /\ Head(due) = due[1]
  BY <1>1, HeadTailProperties
<1>3. DOMAIN due' = 1..n - 1
  BY <1>2, LenProperties
<1> HIDE DEF n
<1>4. \A k \in DOMAIN due' : due'[k] = due[k + 1] /\ k + 1 \in DOMAIN due
  BY <1>1, <1>2, <1>3
<1>5. ASSUME NEW k \in DOMAIN due, due[k] # Head(due)
      PROVE  due[k] \in Due'
  <2>1. k # 1
    BY <1>2, <1>5
  <2>2. k - 1 \in DOMAIN due' /\ (k - 1) + 1 = k
    BY <1>1, <1>3, <2>1
  <2>3. due'[k - 1] = due[k]
    BY <1>4, <2>2
  <2> QED
    BY <2>2, <2>3 DEF Due
<1>6. 1 \in DOMAIN due
  BY <1>1
<1> QED
  BY <1>2, <1>4, <1>5, <1>6 DEF Due

\* What is said of memory, the wakeup service, the history and the conversation.
Data == Room /\ Known /\ Wakeups /\ Memory /\ Timely /\ NoneLost /\ Shown

\* Removing an alarm - that rang, perhaps - leaves the others as they are.
LEMMA RemoveKeeps ==
    ASSUME TypeOK, Data, running, NEW i \in DOMAIN alarms, NEW why \in Fate \ {"pending"},
           RemoveAlarm(i, why),
           UNCHANGED <<now, running, conversing, kills, flash>>,
           \/ due' = due
           \/ due # <<>> /\ Head(due) = alarms[i].id /\ due' = Tail(due)
    PROVE  Data'
<1> USE DEF Data
<1> DEFINE x == alarms[i].id
<1>1. /\ alarms' \in Seq(Alarm)
      /\ Len(alarms') = Len(alarms) - 1
      /\ fate' \in Seq(Fate) /\ Len(fate') = Len(fate)
  BY RemoveFacts
<1>2. /\ \A j \in DOMAIN alarms' : /\ Was(i, j) \in DOMAIN alarms \ {i}
                                   /\ alarms'[j] = alarms[Was(i, j)]
      /\ \A j, k \in DOMAIN alarms' : j < k => Was(i, j) < Was(i, k)
      /\ \A j \in DOMAIN alarms : j # i =>
            \E k \in DOMAIN alarms' : Was(i, k) = j
  BY RemoveFacts
<1>3. /\ DOMAIN fate' = DOMAIN fate
      /\ fate'[x] = why
      /\ \A id \in DOMAIN fate : id # x => fate'[id] = fate[id]
  BY RemoveFacts
<1>4. /\ scheduled' = {e \in scheduled : e.id # x}
      /\ why # "pending"
  BY RemoveFacts
<1>5. /\ Due' \subseteq Due
      /\ \A id \in Due : id # x => id \in Due'
      /\ \A k \in DOMAIN due' : due'[k] \in DOMAIN fate
  <2>1. CASE due' = due
    BY <2>1 DEF Due, Wakeups
  <2>2. CASE due # <<>> /\ Head(due) = x /\ due' = Tail(due)
    BY <2>2, DueAfter DEF Wakeups
  <2> QED
    BY <2>1, <2>2
<1>6. /\ \A j \in DOMAIN alarms : alarms[j].id \in DOMAIN fate
      /\ x \in DOMAIN fate
  BY DEF Known
<1>7. AlarmIds \subseteq AlarmIds' \union {x}
  <2> SUFFICES ASSUME NEW j \in DOMAIN alarms, alarms[j].id # x
               PROVE  alarms[j].id \in AlarmIds'
    BY DEF AlarmIds
  <2>1. PICK k \in DOMAIN alarms' : Was(i, k) = j
    BY <1>2
  <2>2. alarms'[k] = alarms[j]
    BY <1>2, <2>1
  <2> QED
    BY <2>2 DEF AlarmIds
<1> HIDE DEF x
<1>8. Room'
  <2>1. Len(alarms) \in Nat
    BY LenProperties DEF TypeOK
  <2> QED
    BY <1>1, <2>1, AlarmAssumption DEF Room
<1>9. Known'
  BY <1>2, <1>3, <1>6 DEF Known
<1>10. Wakeups'
  <2>1. ASSUME NEW e \in scheduled'
        PROVE  /\ e.id \in DOMAIN fate'
               /\ fate'[e.id] = "pending"
               /\ e.id \notin Due'
    BY <1>3, <1>4, <1>5 DEF Wakeups
  <2>2. \A e, f \in scheduled' : e.id = f.id => e = f
    BY <1>4 DEF Wakeups
  <2> QED
    BY <1>3, <1>5, <2>1, <2>2 DEF Wakeups
<1>11. Memory'
  <2> SUFFICES ASSUME kills <= 1
               PROVE  /\ \A j \in DOMAIN alarms' :
                            /\ fate'[alarms'[j].id] = "pending"
                            /\ alarms'[j].id \in Ids(scheduled)' \union Due'
                      /\ \A j, k \in DOMAIN alarms' :
                            j < k => /\ alarms'[j].id # alarms'[k].id
                                     /\ alarms'[j].time <= alarms'[k].time
    BY DEF Memory
  <2>1. /\ \A j \in DOMAIN alarms :
              /\ fate[alarms[j].id] = "pending"
              /\ alarms[j].id \in Ids(scheduled) \union Due
        /\ \A j, k \in DOMAIN alarms :
              j < k => /\ alarms[j].id # alarms[k].id
                       /\ alarms[j].time <= alarms[k].time
    BY DEF Memory
  <2>2. ASSUME NEW j \in DOMAIN alarms, j # i PROVE alarms[j].id # x
    <3>1. i \in Int /\ j \in Int
      BY LenProperties DEF TypeOK
    <3> QED
      BY <2>1, <2>2, <3>1 DEF x
  <2>3. ASSUME NEW j \in DOMAIN alarms'
        PROVE  /\ fate'[alarms'[j].id] = "pending"
               /\ alarms'[j].id \in Ids(scheduled)' \union Due'
    <3>1. /\ alarms'[j].id # x
          /\ alarms'[j].id \in DOMAIN fate
          /\ fate[alarms'[j].id] = "pending"
          /\ alarms'[j].id \in Ids(scheduled) \union Due
      BY <1>2, <1>6, <2>1, <2>2
    <3> QED
      BY <1>3, <1>4, <1>5, <3>1 DEF Ids
  <2>4. ASSUME NEW j \in DOMAIN alarms', NEW k \in DOMAIN alarms', j < k
        PROVE  /\ alarms'[j].id # alarms'[k].id
               /\ alarms'[j].time <= alarms'[k].time
    BY <1>2, <2>1, <2>4
  <2> QED
    BY <2>3, <2>4
<1>12. Timely'
  <2> SUFFICES ASSUME kills = 0
               PROVE  /\ \A j \in DOMAIN alarms' :
                            /\ \A e \in scheduled' : e.id = alarms'[j].id =>
                                  e.time = alarms'[j].time
                            /\ alarms'[j].id \in Due' => alarms'[j].time <= now
                      /\ \A j, k \in DOMAIN alarms' :
                            j # k => alarms'[j].time # alarms'[k].time
    BY DEF Timely
  <2>1. /\ \A j \in DOMAIN alarms :
              /\ \A e \in scheduled : e.id = alarms[j].id => e.time = alarms[j].time
              /\ alarms[j].id \in Due => alarms[j].time <= now
        /\ \A j, k \in DOMAIN alarms : j # k => alarms[j].time # alarms[k].time
    BY DEF Timely
  <2>2. ASSUME NEW j \in DOMAIN alarms'
        PROVE  /\ \A e \in scheduled' : e.id = alarms'[j].id =>
                     e.time = alarms'[j].time
               /\ alarms'[j].id \in Due' => alarms'[j].time <= now
    BY <1>2, <1>4, <1>5, <2>1
  <2>3. ASSUME NEW j \in DOMAIN alarms', NEW k \in DOMAIN alarms', j # k
        PROVE  alarms'[j].time # alarms'[k].time
    <3>1. j \in Int /\ k \in Int
      BY <1>1, LenProperties
    <3>2. Was(i, j) # Was(i, k)
      <4>1. CASE j < k
        BY <1>1, <1>2, <4>1 DEF Was
      <4>2. CASE k < j
        BY <1>1, <1>2, <4>2 DEF Was
      <4> QED
        BY <2>3, <3>1, <4>1, <4>2
    <3> QED
      BY <1>2, <2>1, <3>2
  <2> QED
    BY <2>2, <2>3
<1>13. NoneLost'
  <2> SUFFICES ASSUME kills = 0, NEW id \in DOMAIN fate', fate'[id] = "pending"
               PROVE  id \in AlarmIds'
    BY DEF NoneLost
  <2>1. id \in DOMAIN fate /\ id # x /\ fate[id] = "pending"
    BY <1>3, <1>4
  <2>2. id \in AlarmIds
    BY <2>1 DEF NoneLost
  <2> QED
    BY <1>7, <2>1, <2>2
<1>14. Shown'
  <2>1. shown' = IF conversing /\ alarms[i].time > now
                 THEN {e \in shown : e.id # x} ELSE shown
    BY DEF RemoveAlarm, x
  <2>2. ASSUME NEW e \in shown'
        PROVE  /\ e.id \in DOMAIN fate'
               /\ \A j \in DOMAIN alarms' : alarms'[j].id = e.id => alarms'[j].time = e.time
               /\ e.time > now => e.id \in AlarmIds'
               /\ conversing
    <3>1. /\ e \in shown
          /\ e.id \in DOMAIN fate
          /\ \A j \in DOMAIN alarms : alarms[j].id = e.id => alarms[j].time = e.time
          /\ e.time > now => e.id \in AlarmIds
          /\ conversing
      BY <2>1 DEF Shown
    <3>2. e.time > now => e.id # x
      BY <2>1, <3>1 DEF x
    <3> QED
      BY <1>2, <1>3, <1>7, <3>1, <3>2
  <2> QED
    BY <2>2 DEF Shown
<1> QED
  BY <1>8, <1>9, <1>10, <1>11, <1>12, <1>13, <1>14

-----------------------------------------------------------------------------
(* Saving.                                                                 *)

\* prv_save_alarms() is called between two callbacks, when flash is whole.
LEMMA SaveBegins ==
    ASSUME Saved, UNCHANGED <<flash, kills>>,
           \/ todo' = SavePlan(alarms')
           \/ todo' = SavePlan(alarms') \o <<"maybe_alarm">>
    PROVE  Saving' /\ Progress' /\ todo' \in Seq(Step) /\ todo' # <<>>
<1>1. /\ Planned(todo') /\ todo' \in Seq(Step) /\ todo' # <<>>
      /\ todo'[1] = "one"
      /\ \A i \in 1..Len(todo') : todo'[i] = "cancel_all" => alarms' = <<>>
  <2>1. CASE todo' = SavePlan(alarms')
    BY <2>1, PlanIsPlanned
  <2>2. CASE todo' = SavePlan(alarms') \o <<"maybe_alarm">>
    BY <2>2, LaunchPlanIsPlanned
  <2> QED
    BY <2>1, <2>2
<1>2. Head(todo') = "one"
  BY <1>1
<1>3. OldOne' /\ OldTimes' /\ OldIds' /\ OldTimers'
  BY DEF Saved, OldOne, OldTimes, OldIds, OldTimers
<1>4. Progress'
  BY <1>1, <1>2, <1>3 DEF Progress
<1> QED
  BY <1>1, <1>4 DEF Saving

\* With no save, flash goes on to know what memory knows.
LEMMA NoSave ==
    ASSUME Saved, UNCHANGED <<flash, kills>>, todo' = <<>>,
           \A j \in DOMAIN alarms' : \E i \in DOMAIN alarms : alarms'[j] = alarms[i]
    PROVE  Saving' /\ Progress' /\ todo' \in Seq(Step)
<1>1. Saved'
  BY DEF Saved, Written, StoredAlarms, Stored, Lesser
<1>2. Planned(todo') /\ 1..Len(todo') = {}
  <2>1. Len(todo') = 0
    BY EmptySeq
  <2>2. 1..Len(todo') = {} /\ 1..Len(todo') - 1 = {}
    BY <2>1
  <2> QED
    BY <2>2 DEF Planned, Linked
<1> QED
  BY <1>1, <1>2, EmptySeq DEF Saving, Progress

\* An alarm goes, with a save or without one.
LEMMA RemoveStep ==
    ASSUME IInv, running, NEW i \in DOMAIN alarms, NEW why \in Fate \ {"pending"},
           RemoveAlarm(i, why),
           UNCHANGED <<now, running, conversing, flash, misfortunes>>,
           \/ due' = due
           \/ due # <<>> /\ Head(due) = alarms[i].id /\ due' = Tail(due),
           Saved, todo' = <<>> \/ todo' = SavePlan(alarms'),
           windows' \in Seq(Alarm)
    PROVE  IInv'
<1> USE DEF IInv
<1>1. Data'
  BY RemoveKeeps DEF Data, misfortunes
<1>2. /\ alarms' \in Seq(Alarm)
      /\ \A j \in DOMAIN alarms' : /\ Was(i, j) \in DOMAIN alarms \ {i}
                                   /\ alarms'[j] = alarms[Was(i, j)]
      /\ fate' \in Seq(Fate) /\ Len(fate') = Len(fate)
      /\ scheduled' = {e \in scheduled : e.id # alarms[i].id}
      /\ shown' \in SUBSET Event
  BY RemoveFacts
<1>3. Saving' /\ Progress' /\ todo' \in Seq(Step)
  <2>1. CASE todo' = <<>>
    BY <1>2, <2>1, NoSave DEF misfortunes
  <2>2. CASE todo' = SavePlan(alarms')
    BY <2>2, SaveBegins DEF misfortunes
  <2> QED
    BY <2>1, <2>2
<1>4. due' \in Seq(WakeupId)
  BY DueAfter DEF TypeOK
<1>5. TypeOK'
  BY <1>2, <1>3, <1>4 DEF TypeOK, Fate, Event, misfortunes
<1>6. Off' /\ Columns'
  BY DEF Off, Columns, misfortunes
<1> QED
  BY <1>1, <1>3, <1>5, <1>6 DEF Data

-----------------------------------------------------------------------------
(* Adding an alarm.                                                        *)

\* Where the alarm at place j was before one came after place k.
Came(k, j) == IF j <= k THEN j ELSE j - 1

\* What alarm_manager_add_alarm() does to the array and to the history.
LEMMA AddFacts ==
    ASSUME TypeOK, Data, NEW when, NEW timer, NEW conversational,
           AddAlarm(when, timer, conversational)
    PROVE  \E k \in 0..Len(alarms), a \in Alarm :
              /\ a.time = when /\ a.id = Len(fate) + 1 /\ a.id \notin DOMAIN fate
              /\ InsertsAfter(k, when) /\ Schedulable(when)
              /\ alarms' \in Seq(Alarm) /\ Len(alarms') = Len(alarms) + 1
              /\ Len(alarms') <= MAX_ALARMS
              /\ alarms'[k + 1] = a /\ k + 1 \in DOMAIN alarms'
              /\ \A j \in DOMAIN alarms' : j # k + 1 =>
                    /\ Came(k, j) \in DOMAIN alarms
                    /\ alarms'[j] = alarms[Came(k, j)]
              /\ \A i \in DOMAIN alarms :
                    \E j \in DOMAIN alarms' : j # k + 1 /\ Came(k, j) = i
              /\ DOMAIN fate' = DOMAIN fate \union {a.id}
              /\ fate' \in Seq(Fate) /\ Len(fate') <= MaxIds
              /\ fate'[a.id] = "pending"
              /\ \A id \in DOMAIN fate : fate'[id] = fate[id]
              /\ scheduled' = scheduled \union {[id |-> a.id, time |-> when]}
              /\ scheduled' \in SUBSET Event
              /\ shown' \in SUBSET Event
              /\ \A e \in shown' : \/ e \in shown
                                   \/ e = [id |-> a.id, time |-> when] /\ conversing
<1> DEFINE n == Len(alarms)
           m == Len(fate)
           a == [time |-> when, id |-> m + 1, timer |-> timer]
           e == [id |-> m + 1, time |-> when]
<1>1. alarms \in Seq(Alarm) /\ n \in Nat /\ DOMAIN alarms = 1..n
  BY LenProperties DEF TypeOK
<1>2. fate \in Seq(Fate) /\ m \in Nat /\ DOMAIN fate = 1..m
  BY LenProperties DEF TypeOK, Fate
<1>3. /\ n < MAX_ALARMS /\ Schedulable(when)
      /\ a \in Alarm
      /\ scheduled' = scheduled \union {e}
      /\ shown' = IF conversational /\ conversing THEN shown \union {e} ELSE shown
      /\ fate' = Append(fate, "pending")
  BY DEF AddAlarm
<1>4. PICK k \in 0..n :
         /\ InsertsAfter(k, when)
         /\ alarms' = SubSeq(alarms, 1, k) \o <<a>> \o SubSeq(alarms, k + 1, n)
  BY DEF AddAlarm
<1>5. m + 1 \in WakeupId /\ when \in Time /\ e \in Event
  BY <1>3 DEF Alarm, Event
<1>6. a.time = when /\ a.id = m + 1 /\ e.id = m + 1
  OBVIOUS
<1> HIDE DEF a
<1>7. /\ alarms' \in Seq(Alarm)
      /\ Len(alarms') = n + 1
      /\ \A j \in 1..n + 1 : alarms'[j] = IF j <= k THEN alarms[j]
                                          ELSE IF j = k + 1 THEN a ELSE alarms[j - 1]
  <2>1. alarms \in Seq(Alarm) /\ a \in Alarm /\ k \in 0..Len(alarms)
    BY <1>1, <1>3
  <2>2. alarms' = InsertAt(alarms, k, a)
    BY <1>4 DEF InsertAt
  <2>3. /\ InsertAt(alarms, k, a) \in Seq(Alarm)
        /\ Len(InsertAt(alarms, k, a)) = Len(alarms) + 1
        /\ \A j \in 1..Len(alarms) + 1 :
              InsertAt(alarms, k, a)[j] = IF j <= k THEN alarms[j]
                                          ELSE IF j = k + 1 THEN a ELSE alarms[j - 1]
    BY <2>1, Inserted
  <2> QED
    BY <2>2, <2>3
<1>8. DOMAIN alarms' = 1..n + 1
  BY <1>7, LenProperties
<1>9. /\ fate' \in Seq(Fate) /\ Len(fate') = m + 1
      /\ \A id \in 1..m : fate'[id] = fate[id]
      /\ fate'[m + 1] = "pending"
  BY <1>2, <1>3, AppendProperties DEF Fate
<1>10. DOMAIN fate' = 1..m + 1
  BY <1>9, LenProperties
<1> HIDE DEF n, m
<1>11. n + 1 <= MAX_ALARMS
  BY <1>1, <1>3, AlarmAssumption
<1>12. /\ m + 1 <= MaxIds /\ m + 1 \notin DOMAIN fate
       /\ DOMAIN fate' = DOMAIN fate \union {m + 1}
  BY <1>2, <1>5, <1>10 DEF WakeupId
<1>13. /\ alarms'[k + 1] = a /\ k + 1 \in DOMAIN alarms'
       /\ \A j \in DOMAIN alarms' : j # k + 1 =>
             /\ Came(k, j) \in DOMAIN alarms
             /\ alarms'[j] = alarms[Came(k, j)]
  BY <1>1, <1>7, <1>8 DEF Came
<1>14. ASSUME NEW i \in DOMAIN alarms
       PROVE  \E j \in DOMAIN alarms' : j # k + 1 /\ Came(k, j) = i
  <2>1. CASE i <= k
    <3>1. i \in DOMAIN alarms' /\ i # k + 1 /\ Came(k, i) = i
      BY <1>1, <1>8, <2>1 DEF Came
    <3> QED
      BY <3>1
  <2>2. CASE ~(i <= k)
    <3>1. i + 1 \in DOMAIN alarms' /\ i + 1 # k + 1 /\ Came(k, i + 1) = i
      BY <1>1, <1>8, <2>2 DEF Came
    <3> QED
      BY <3>1
  <2> QED
    BY <2>1, <2>2
<1>15. scheduled' \in SUBSET Event /\ shown' \in SUBSET Event
  BY <1>3, <1>5 DEF TypeOK, Event
<1>16. \A f \in shown' : \/ f \in shown
                         \/ f = e /\ conversing
  BY <1>3
<1> QED
  <2> WITNESS k \in 0..Len(alarms), a \in Alarm
  <2> QED
    BY <1>2, <1>3, <1>4, <1>6, <1>7, <1>9, <1>11, <1>12, <1>13, <1>14, <1>15, <1>16 DEF n, m

\* An alarm comes, at a time that no other has, and is saved.
LEMMA AddStep ==
    ASSUME IInv, Idle, NEW when, NEW timer, NEW conversational,
           AddAlarm(when, timer, conversational),
           conversing' = conversing, windows' \in Seq(Alarm)
    PROVE  IInv'
<1> USE DEF IInv
<1>1. PICK k \in 0..Len(alarms), a \in Alarm :
         /\ a.time = when /\ a.id = Len(fate) + 1 /\ a.id \notin DOMAIN fate
         /\ InsertsAfter(k, when) /\ Schedulable(when)
         /\ alarms' \in Seq(Alarm) /\ Len(alarms') = Len(alarms) + 1
         /\ Len(alarms') <= MAX_ALARMS
         /\ alarms'[k + 1] = a /\ k + 1 \in DOMAIN alarms'
         /\ \A j \in DOMAIN alarms' : j # k + 1 =>
               /\ Came(k, j) \in DOMAIN alarms
               /\ alarms'[j] = alarms[Came(k, j)]
         /\ \A i \in DOMAIN alarms :
               \E j \in DOMAIN alarms' : j # k + 1 /\ Came(k, j) = i
         /\ DOMAIN fate' = DOMAIN fate \union {a.id}
         /\ fate' \in Seq(Fate) /\ Len(fate') <= MaxIds
         /\ fate'[a.id] = "pending"
         /\ \A id \in DOMAIN fate : fate'[id] = fate[id]
         /\ scheduled' = scheduled \union {[id |-> a.id, time |-> when]}
         /\ scheduled' \in SUBSET Event
         /\ shown' \in SUBSET Event
         /\ \A e \in shown' : \/ e \in shown
                              \/ e = [id |-> a.id, time |-> when] /\ conversing
  BY AddFacts DEF Data
<1>2. /\ running /\ todo = <<>> /\ Saved
      /\ UNCHANGED <<now, due, running, flash, kills, misses>>
      /\ todo' = SavePlan(alarms')
  BY DEF Idle, Progress, AddAlarm, misfortunes
<1>3. /\ k \in Nat
      /\ DOMAIN alarms = 1..Len(alarms) /\ DOMAIN alarms' = 1..Len(alarms')
      /\ Len(alarms) \in Nat
  BY <1>1, LenProperties DEF TypeOK
<1>4. Due' = Due
  BY <1>2 DEF Due
<1>5. \A i \in DOMAIN alarms : alarms[i].id \in DOMAIN fate
  BY DEF Known
<1>6. AlarmIds' = AlarmIds \union {a.id}
  <2>1. ASSUME NEW j \in DOMAIN alarms' PROVE alarms'[j].id \in AlarmIds \union {a.id}
    BY <1>1 DEF AlarmIds
  <2>2. ASSUME NEW i \in DOMAIN alarms PROVE alarms[i].id \in AlarmIds'
    <3>1. PICK j \in DOMAIN alarms' : j # k + 1 /\ Came(k, j) = i
      BY <1>1
    <3>2. alarms'[j] = alarms[i]
      BY <1>1, <3>1
    <3> QED
      BY <3>2 DEF AlarmIds
  <2>3. a.id \in AlarmIds'
    BY <1>1 DEF AlarmIds
  <2> QED
    BY <2>1, <2>2, <2>3 DEF AlarmIds
<1>7. Room' /\ Known'
  BY <1>1, <1>5 DEF Room, Known
<1>8. Wakeups'
  <2>1. Due \subseteq DOMAIN fate
    BY DEF Wakeups, Due
  <2>2. ASSUME NEW e \in scheduled'
        PROVE  /\ e.id \in DOMAIN fate'
               /\ fate'[e.id] = "pending"
               /\ e.id \notin Due'
    BY <1>1, <1>4, <2>1 DEF Wakeups
  <2>3. ASSUME NEW e \in scheduled', NEW f \in scheduled', e.id = f.id PROVE e = f
    BY <1>1, <2>3 DEF Wakeups
  <2> QED
    BY <1>1, <1>2, <2>2, <2>3 DEF Wakeups
<1>9. Memory'
  <2> SUFFICES ASSUME kills <= 1
               PROVE  /\ \A j \in DOMAIN alarms' :
                            /\ fate'[alarms'[j].id] = "pending"
                            /\ alarms'[j].id \in Ids(scheduled)' \union Due'
                      /\ \A i, j \in DOMAIN alarms' :
                            i < j => /\ alarms'[i].id # alarms'[j].id
                                     /\ alarms'[i].time <= alarms'[j].time
    BY <1>2 DEF Memory
  <2>1. /\ \A j \in DOMAIN alarms :
              /\ fate[alarms[j].id] = "pending"
              /\ alarms[j].id \in Ids(scheduled) \union Due
        /\ \A i, j \in DOMAIN alarms :
              i < j => /\ alarms[i].id # alarms[j].id
                       /\ alarms[i].time <= alarms[j].time
    BY DEF Memory
  <2>2. ASSUME NEW j \in DOMAIN alarms'
        PROVE  /\ fate'[alarms'[j].id] = "pending"
               /\ alarms'[j].id \in Ids(scheduled)' \union Due'
    <3>1. CASE j = k + 1
      <4>1. /\ alarms'[j].id = a.id /\ fate'[a.id] = "pending"
            /\ [id |-> a.id, time |-> when] \in scheduled'
        BY <1>1, <3>1
      <4> QED
        BY <4>1 DEF Ids
    <3>2. CASE j # k + 1
      BY <1>1, <1>4, <1>5, <2>1, <3>2 DEF Ids
    <3> QED
      BY <3>1, <3>2
  <2>3. \A i \in DOMAIN alarms : alarms[i].time \in Int
    <3>1. \A i \in DOMAIN alarms : alarms[i] \in Alarm
      BY <1>3, ElementOfSeq DEF TypeOK
    <3> QED
      BY <3>1 DEF Alarm, Time
  <2>4. when \in Int
    BY <1>1 DEF Alarm, Time
  <2>5. /\ \A i \in DOMAIN alarms : i <= k => alarms[i].time < when
        /\ \A i \in DOMAIN alarms : k < i => alarms[i].time >= when
    <3>1. \A i \in DOMAIN alarms : i <= k => alarms[i].time < when
      BY <1>1, <1>3 DEF InsertsAfter
    <3>2. ASSUME NEW i \in DOMAIN alarms, k < i PROVE alarms[i].time >= when
      <4>1. k < Len(alarms) /\ k + 1 \in DOMAIN alarms /\ (k + 1 = i \/ k + 1 < i)
        BY <1>3, <3>2
      <4>2. alarms[k + 1].time >= when
        BY <1>1, <4>1 DEF InsertsAfter
      <4>3. alarms[k + 1].time <= alarms[i].time
        BY <2>1, <2>3, <4>1
      <4> QED
        BY <2>3, <2>4, <4>1, <4>2, <4>3
    <3> QED
      BY <3>1, <3>2
  <2>6. ASSUME NEW i \in DOMAIN alarms', NEW j \in DOMAIN alarms', i < j
        PROVE  /\ alarms'[i].id # alarms'[j].id
               /\ alarms'[i].time <= alarms'[j].time
    <3>1. CASE i = k + 1
      <4>1. j # k + 1 /\ k < Came(k, j)
        BY <1>3, <2>6, <3>1 DEF Came
      <4>2. alarms'[j] = alarms[Came(k, j)] /\ Came(k, j) \in DOMAIN alarms
        BY <1>1, <4>1
      <4> QED
        BY <1>1, <1>5, <2>3, <2>4, <2>5, <3>1, <4>1, <4>2
    <3>2. CASE j = k + 1
      <4>1. i # k + 1 /\ Came(k, i) <= k
        BY <1>3, <2>6, <3>2 DEF Came
      <4>2. alarms'[i] = alarms[Came(k, i)] /\ Came(k, i) \in DOMAIN alarms
        BY <1>1, <4>1
      <4> QED
        BY <1>1, <1>5, <2>3, <2>4, <2>5, <3>2, <4>1, <4>2
    <3>3. CASE i # k + 1 /\ j # k + 1
      <4>1. Came(k, i) < Came(k, j)
        BY <1>3, <2>6, <3>3 DEF Came
      <4> QED
        BY <1>1, <2>1, <3>3, <4>1
    <3> QED
      BY <3>1, <3>2, <3>3
  <2> QED
    BY <2>2, <2>6
<1>10. Timely'
  <2> SUFFICES ASSUME kills = 0
               PROVE  /\ \A j \in DOMAIN alarms' :
                            /\ \A e \in scheduled' : e.id = alarms'[j].id =>
                                  e.time = alarms'[j].time
                            /\ alarms'[j].id \in Due' => alarms'[j].time <= now
                      /\ \A i, j \in DOMAIN alarms' :
                            i # j => alarms'[i].time # alarms'[j].time
    BY <1>2 DEF Timely
  <2>1. /\ \A j \in DOMAIN alarms :
              /\ \A e \in scheduled : e.id = alarms[j].id => e.time = alarms[j].time
              /\ alarms[j].id \in Due => alarms[j].time <= now
        /\ \A i, j \in DOMAIN alarms : i # j => alarms[i].time # alarms[j].time
    BY DEF Timely
  <2>2. \A i \in DOMAIN alarms : alarms[i].time # when
    <3>1. \A i \in DOMAIN alarms : alarms[i].id \in Ids(scheduled) \union Due
      BY DEF Memory
    <3>2. \A e \in scheduled : e.time # when
      BY <1>1 DEF Schedulable
    <3>3. when > now /\ when \in Int /\ now \in Int
      BY <1>1 DEF Schedulable, Alarm, Time, TypeOK
    <3>4. ASSUME NEW i \in DOMAIN alarms, alarms[i].time = when PROVE FALSE
      <4>1. alarms[i].id \notin Due
        BY <2>1, <3>3, <3>4
      <4>2. PICK e \in scheduled : e.id = alarms[i].id
        BY <3>1, <4>1 DEF Ids
      <4> QED
        BY <2>1, <3>2, <3>4, <4>2
    <3> QED
      BY <3>4
  <2>3. Due \subseteq DOMAIN fate /\ \A e \in scheduled : e.id \in DOMAIN fate
    BY DEF Wakeups, Due
  <2>4. ASSUME NEW j \in DOMAIN alarms'
        PROVE  /\ \A e \in scheduled' : e.id = alarms'[j].id =>
                     e.time = alarms'[j].time
               /\ alarms'[j].id \in Due' => alarms'[j].time <= now
    <3>1. CASE j = k + 1
      BY <1>1, <1>4, <2>3, <3>1
    <3>2. CASE j # k + 1
      BY <1>1, <1>4, <1>5, <2>1, <3>2
    <3> QED
      BY <3>1, <3>2
  <2>5. ASSUME NEW i \in DOMAIN alarms', NEW j \in DOMAIN alarms', i # j
        PROVE  alarms'[i].time # alarms'[j].time
    <3>1. CASE i = k + 1
      BY <1>1, <2>2, <2>5, <3>1
    <3>2. CASE j = k + 1
      BY <1>1, <2>2, <2>5, <3>2
    <3>3. CASE i # k + 1 /\ j # k + 1
      <4>1. Came(k, i) # Came(k, j)
        BY <1>3, <2>5, <3>3 DEF Came
      <4> QED
        BY <1>1, <2>1, <3>3, <4>1
    <3> QED
      BY <3>1, <3>2, <3>3
  <2> QED
    BY <2>4, <2>5
<1>11. NoneLost'
  <2> SUFFICES ASSUME kills = 0, NEW id \in DOMAIN fate', fate'[id] = "pending"
               PROVE  id \in AlarmIds'
    BY <1>2 DEF NoneLost
  <2>1. CASE id = a.id
    BY <1>6, <2>1
  <2>2. CASE id \in DOMAIN fate
    BY <1>1, <1>2, <1>6, <2>2 DEF NoneLost
  <2> QED
    BY <1>1, <2>1, <2>2
<1>12. Shown'
  <2> SUFFICES ASSUME NEW e \in shown'
               PROVE  /\ e.id \in DOMAIN fate'
                      /\ \A j \in DOMAIN alarms' :
                            alarms'[j].id = e.id => alarms'[j].time = e.time
                      /\ e.time > now => e.id \in AlarmIds'
                      /\ conversing
    BY <1>2 DEF Shown
  <2>1. CASE e \in shown
    <3>1. /\ e.id \in DOMAIN fate
          /\ \A j \in DOMAIN alarms : alarms[j].id = e.id => alarms[j].time = e.time
          /\ e.time > now => e.id \in AlarmIds
          /\ conversing
      BY <2>1 DEF Shown
    <3> QED
      BY <1>1, <1>6, <3>1
  <2>2. CASE e = [id |-> a.id, time |-> when] /\ conversing
    BY <1>1, <1>5, <1>6, <2>2
  <2> QED
    BY <1>1, <2>1, <2>2
<1>13. Saving' /\ Progress' /\ todo' \in Seq(Step)
  BY <1>2, SaveBegins
<1>14. TypeOK'
  BY <1>1, <1>2, <1>13 DEF TypeOK, Fate, Event
<1>15. Off' /\ Columns'
  BY <1>2 DEF Off, Columns
<1> QED
  BY <1>7, <1>8, <1>9, <1>10, <1>11, <1>12, <1>13, <1>14, <1>15

-----------------------------------------------------------------------------
(* The screen, and a request that changes nothing.                         *)

\* Windows and the conversation come and go without an effect on alarms.
LEMMA ScreenStep ==
    ASSUME IInv,
           UNCHANGED <<now, service, due, running, alarms, flash, todo,
                       misfortunes>>,
           windows' \in Seq(Alarm), conversing' \in BOOLEAN,
           \/ shown' = shown /\ (shown # {} => conversing')
           \/ shown' = {},
           running
    PROVE  IInv'
<1> USE DEF IInv
<1>1. UNCHANGED <<now, scheduled, fate, due, running, alarms, flash, todo,
                  kills, misses>>
  BY DEF service, misfortunes
<1>2. shown' \in SUBSET Event /\ shown' \subseteq shown
  BY DEF TypeOK, Event
<1>3. TypeOK'
  BY <1>1, <1>2 DEF TypeOK, Event
<1>4. Due' = Due /\ AlarmIds' = AlarmIds /\ Ids(scheduled)' = Ids(scheduled)
  BY <1>1 DEF Due, AlarmIds
<1>5. StoredAlarms' = StoredAlarms
  BY <1>1 DEF StoredAlarms, Stored
<1>6. Off' /\ Columns' /\ Room' /\ Known'
  BY <1>1 DEF Off, Columns, Room, Known
<1>7. Wakeups' /\ Memory' /\ Timely' /\ NoneLost'
  BY <1>1, <1>4, <1>5 DEF Wakeups, Memory, Timely, NoneLost
<1>8. Saving' /\ Progress'
  <2>1. Saved' = Saved
    BY <1>1, <1>5 DEF Saved, Written
  <2>2. Saving'
    BY <1>1 DEF Saving
  <2>3. Progress'
    BY <1>1, <2>1 DEF Progress, HasOne, HasTimes, HasIds, HasTimers, HasTwo,
                      OldOne, OldTimes, OldIds, OldTimers
  <2> QED
    BY <2>2, <2>3
<1>9. Shown'
  BY <1>1, <1>2, <1>4 DEF Shown
<1> QED
  BY <1>3, <1>6, <1>7, <1>8, <1>9

-----------------------------------------------------------------------------
(* The wakeup service and the clock.                                       *)

\* An event handed over is in "due" instead of in the service.
LEMMA FireStep ==
    ASSUME IInv, NEW e \in scheduled, Fire(e)
    PROVE  IInv'
<1> USE DEF IInv
<1>1. /\ UNCHANGED <<now, fate, running, alarms, windows, conversing, shown,
                     flash, todo, kills, misses>>
      /\ running /\ e.time <= now
      /\ scheduled' = scheduled \ {e}
      /\ due' = Append(due, e.id)
  BY DEF Fire, screen, misfortunes
<1>2. e \in Event /\ e.id \in WakeupId /\ due \in Seq(WakeupId)
  BY DEF TypeOK, Event
<1>3. /\ due' \in Seq(WakeupId) /\ Len(due') = Len(due) + 1
      /\ \A k \in 1..Len(due) : due'[k] = due[k]
      /\ due'[Len(due) + 1] = e.id
  BY <1>1, <1>2, AppendProperties
<1>4. Len(due) \in Nat /\ DOMAIN due = 1..Len(due) /\ DOMAIN due' = 1..Len(due) + 1
  BY <1>2, <1>3, LenProperties
<1>5. Due' = Due \union {e.id}
  <2>1. ASSUME NEW k \in DOMAIN due' PROVE due'[k] \in Due \union {e.id}
    BY <1>3, <1>4 DEF Due
  <2>2. ASSUME NEW k \in DOMAIN due PROVE due[k] \in Due'
    <3>1. k \in DOMAIN due' /\ due'[k] = due[k]
      BY <1>3, <1>4
    <3> QED
      BY <3>1 DEF Due
  <2>3. e.id \in Due'
    <3>1. Len(due) + 1 \in DOMAIN due'
      BY <1>4
    <3> QED
      BY <1>3, <3>1 DEF Due
  <2> QED
    BY <2>1, <2>2, <2>3 DEF Due
<1>6. TypeOK'
  BY <1>1, <1>3 DEF TypeOK
<1>7. AlarmIds' = AlarmIds /\ StoredAlarms' = StoredAlarms
  BY <1>1 DEF AlarmIds, StoredAlarms, Stored
<1>8. Off' /\ Columns' /\ Room' /\ Known'
  BY <1>1 DEF Off, Columns, Room, Known
<1>9. Wakeups'
  <2>1. \A k \in DOMAIN due' : due'[k] \in DOMAIN fate
    BY <1>3, <1>4 DEF Wakeups
  <2>2. ASSUME NEW f \in scheduled'
        PROVE  f.id \in DOMAIN fate /\ fate[f.id] = "pending" /\ f.id \notin Due'
    BY <1>1, <1>5 DEF Wakeups
  <2>3. \A f, g \in scheduled' : f.id = g.id => f = g
    BY <1>1 DEF Wakeups
  <2> QED
    BY <1>1, <2>1, <2>2, <2>3 DEF Wakeups
<1>10. Ids(scheduled)' \union Due' = Ids(scheduled) \union Due
  BY <1>1, <1>5 DEF Ids
<1>11. Memory'
  BY <1>1, <1>10 DEF Memory
<1>12. Timely'
  BY <1>1, <1>5 DEF Timely
<1>13. NoneLost'
  BY <1>1, <1>7 DEF NoneLost
<1>14. Saving' /\ Progress'
  <2>1. Saved' = Saved
    BY <1>1, <1>7 DEF Saved, Written
  <2>2. Saving'
    BY <1>1 DEF Saving
  <2>3. Progress'
    BY <1>1, <2>1 DEF Progress, HasOne, HasTimes, HasIds, HasTimers, HasTwo,
                      OldOne, OldTimes, OldIds, OldTimers
  <2> QED
    BY <2>2, <2>3
<1>15. Shown'
  BY <1>1, <1>7 DEF Shown
<1> QED
  BY <1>6, <1>8, <1>9, <1>11, <1>12, <1>13, <1>14, <1>15

\* Time passes: what the conversation shows as to come only becomes less.
LEMMA TickStep ==
    ASSUME IInv, Tick
    PROVE  IInv'
<1> USE DEF IInv
<1>1. /\ UNCHANGED <<scheduled, fate, due, running, alarms, windows, conversing,
                     shown, flash, todo, kills, misses>>
      /\ now < MaxTime /\ now' = now + 1
  BY DEF Tick, service, screen, misfortunes
<1>2. now \in Int /\ now' \in Time
  BY <1>1, AlarmAssumption DEF TypeOK, Time
<1>3. TypeOK'
  BY <1>1, <1>2 DEF TypeOK
<1>4. Due' = Due /\ AlarmIds' = AlarmIds /\ Ids(scheduled)' = Ids(scheduled)
  BY <1>1 DEF Due, AlarmIds
<1>5. StoredAlarms' = StoredAlarms
  BY <1>1 DEF StoredAlarms, Stored
<1>6. Off' /\ Columns' /\ Room' /\ Known'
  BY <1>1 DEF Off, Columns, Room, Known
<1>7. Wakeups' /\ Memory' /\ NoneLost'
  BY <1>1, <1>4, <1>5 DEF Wakeups, Memory, NoneLost
<1>8. Timely'
  <2>1. \A i \in DOMAIN alarms : alarms[i].time \in Int
    <3>1. \A i \in DOMAIN alarms : alarms[i] \in Alarm
      BY LenProperties, ElementOfSeq DEF TypeOK
    <3> QED
      BY <3>1 DEF Alarm, Time
  <2> QED
    BY <1>1, <1>2, <1>4, <2>1 DEF Timely
<1>9. Saving' /\ Progress'
  <2>1. Saved' = Saved
    BY <1>1, <1>5 DEF Saved, Written
  <2>2. Saving'
    BY <1>1 DEF Saving
  <2>3. Progress'
    BY <1>1, <2>1 DEF Progress, HasOne, HasTimes, HasIds, HasTimers, HasTwo,
                      OldOne, OldTimes, OldIds, OldTimers
  <2> QED
    BY <2>2, <2>3
<1>10. Shown'
  <2>1. \A e \in shown : e.time \in Int
    BY DEF TypeOK, Time
  <2> QED
    BY <1>1, <1>2, <1>4, <2>1 DEF Shown
<1> QED
  BY <1>3, <1>6, <1>7, <1>8, <1>9, <1>10

\* An alarm comes due while the watch is off.
LEMMA MissStep ==
    ASSUME IInv, NEW e \in scheduled, Miss(e)
    PROVE  IInv'
<1> USE DEF IInv
<1>1. /\ UNCHANGED <<now, due, running, alarms, windows, conversing, shown,
                     flash, todo, kills>>
      /\ ~running
      /\ scheduled' = scheduled \ {e}
      /\ fate' = [fate EXCEPT ![e.id] = "missed"]
      /\ misses < MaxMisses /\ misses' = misses + 1
  BY DEF Miss, screen
<1>2. alarms = <<>> /\ windows = <<>> /\ shown = {} /\ due = <<>> /\ todo = <<>>
  BY <1>1 DEF Off
<1>3. fate \in Seq(Fate) /\ DOMAIN fate = 1..Len(fate)
  BY LenProperties DEF TypeOK, Fate
<1>4. e.id \in 1..Len(fate)
  BY <1>3 DEF Wakeups
<1>5. /\ fate' \in Seq(Fate) /\ Len(fate') = Len(fate)
      /\ \A id \in 1..Len(fate) : fate'[id] = IF id = e.id THEN "missed" ELSE fate[id]
  BY <1>1, <1>3, <1>4, ExceptSeq DEF Fate
<1>6. DOMAIN fate' = DOMAIN fate
  BY <1>3, <1>5, LenProperties
<1>7. DOMAIN alarms = {} /\ DOMAIN alarms' = {} /\ DOMAIN due = {} /\ DOMAIN due' = {}
  <2>1. Len(<<>>) = 0 /\ <<>> \in Seq(Alarm)
    BY EmptySeq
  <2>2. DOMAIN <<>> = 1..0
    BY <2>1, LenProperties
  <2> QED
    BY <1>1, <1>2, <2>2
<1>8. misses' \in 0..MaxMisses
  BY <1>1, AlarmAssumption DEF TypeOK
<1>9. TypeOK'
  BY <1>1, <1>5, <1>8 DEF TypeOK, Fate
<1>10. Off' /\ Columns' /\ Room'
  BY <1>1 DEF Off, Columns, Room
<1>11. Known' /\ Memory' /\ Timely'
  BY <1>1, <1>7 DEF Known, Memory, Timely
<1>12. Wakeups'
  <2>1. Due' = Due
    BY <1>1 DEF Due
  <2>2. ASSUME NEW f \in scheduled'
        PROVE  f.id \in DOMAIN fate' /\ fate'[f.id] = "pending" /\ f.id \notin Due'
    <3>1. f \in scheduled /\ f.id # e.id
      BY <1>1 DEF Wakeups
    <3> QED
      BY <1>3, <1>5, <1>6, <2>1, <3>1 DEF Wakeups
  <2>3. \A f, g \in scheduled' : f.id = g.id => f = g
    BY <1>1 DEF Wakeups
  <2> QED
    BY <1>7, <2>2, <2>3 DEF Wakeups
<1>13. NoneLost'
  <2>1. StoredAlarms' = StoredAlarms
    BY <1>1 DEF StoredAlarms, Stored
  <2> SUFFICES ASSUME kills = 0, NEW id \in DOMAIN fate', fate'[id] = "pending"
               PROVE  \E a \in StoredAlarms :
                         a.id = id /\ [id |-> id, time |-> a.time] \in scheduled'
    BY <1>1, <2>1 DEF NoneLost
  <2>2. id \in DOMAIN fate /\ id # e.id /\ fate[id] = "pending"
    BY <1>3, <1>5, <1>6
  <2>3. PICK a \in StoredAlarms : a.id = id /\ [id |-> id, time |-> a.time] \in scheduled
    BY <1>1, <2>2 DEF NoneLost
  <2>4. [id |-> id, time |-> a.time] # e
    BY <2>2
  <2> QED
    BY <1>1, <2>3, <2>4
<1>14. Saving' /\ Progress'
  <2>1. Saved
    BY <1>2 DEF Progress
  <2> QED
    BY <1>1, <1>2, <2>1, NoSave
<1>15. Shown'
  BY <1>1, <1>2 DEF Shown
<1> QED
  BY <1>9, <1>10, <1>11, <1>12, <1>13, <1>14, <1>15

\* Before any kill flash has entries for its counts, wherever a save has come to.
LEMMA NeverShort ==
    ASSUME TypeOK, Progress, kills = 0
    PROVE  Written
<1>1. /\ flash.one \in Int /\ flash.two \in Int /\ Len(alarms) \in Int
      /\ AlarmAssumption
  BY AlarmAssumption, LenProperties DEF TypeOK, Flash
<1>2. /\ Len(Image(alarms).times) = Len(alarms)
      /\ Len(Image(alarms).ids) = Len(alarms)
      /\ Len(Image(alarms).timers) = Len(alarms)
  <2>1. alarms \in Seq(Alarm) /\ DOMAIN alarms = 1..Len(alarms)
    BY LenProperties DEF TypeOK
  <2> QED
    BY <1>1, <2>1 DEF Image
<1>3. ASSUME todo # <<>>
      PROVE  Head(todo) \in Step
  BY <1>3, HeadTailProperties DEF TypeOK
<1>4. CASE Saved
  BY <1>4 DEF Saved
<1>5. CASE OldOne /\ OldTimes /\ OldIds /\ OldTimers
  BY <1>1, <1>5 DEF Written, Lesser, OldOne, OldTimes, OldIds, OldTimers
<1>6. CASE HasOne /\ OldTimes /\ OldIds /\ OldTimers
  BY <1>1, <1>6 DEF Written, Lesser, HasOne, OldTimes, OldIds, OldTimers
<1>7. CASE HasOne /\ HasTimes /\ OldIds /\ OldTimers
  BY <1>1, <1>2, <1>7 DEF Written, Lesser, HasOne, HasTimes, OldIds, OldTimers
<1>8. CASE HasOne /\ HasTimes /\ HasIds /\ OldTimers
  BY <1>1, <1>2, <1>8 DEF Written, Lesser, HasOne, HasTimes, HasIds, OldTimers
<1>9. CASE HasOne /\ HasTimes /\ HasIds /\ HasTimers
  BY <1>1, <1>2, <1>9 DEF Written, Lesser, HasOne, HasTimes, HasIds, HasTimers
<1> QED
  BY <1>3, <1>4, <1>5, <1>6, <1>7, <1>8, <1>9 DEF Progress, Step

\* The app ends, at leisure or killed: memory is gone, flash and the service
\* stay.
LEMMA EndsStep ==
    ASSUME IInv, running, AppEnds,
           \/ todo = <<>> /\ kills' = kills
           \/ kills < MaxKills /\ kills' = kills + 1
    PROVE  IInv'
<1> USE DEF IInv
<1>1. /\ running' = FALSE /\ alarms' = <<>> /\ windows' = <<>>
      /\ conversing' = FALSE /\ shown' = {} /\ due' = <<>> /\ todo' = <<>>
      /\ fate' = [id \in DOMAIN fate |-> IF id \in Due THEN "missed" ELSE fate[id]]
      /\ UNCHANGED <<now, scheduled, flash, misses>>
  BY DEF AppEnds
<1>2. kills \in Nat /\ kills' \in 0..MaxKills /\ kills' \in Nat
  BY AlarmAssumption DEF TypeOK
<1>3. fate \in Seq(Fate) /\ DOMAIN fate = 1..Len(fate) /\ Len(fate) \in Nat
  BY LenProperties DEF TypeOK, Fate
<1>4. /\ fate' \in Seq(Fate) /\ Len(fate') = Len(fate) /\ DOMAIN fate' = DOMAIN fate
      /\ \A id \in DOMAIN fate : fate'[id] = IF id \in Due THEN "missed" ELSE fate[id]
  <2>1. \A id \in 1..Len(fate) : fate[id] \in Fate
    BY <1>3, ElementOfSeq
  <2>2. fate' \in [1..Len(fate) -> Fate]
    BY <1>1, <1>3, <2>1 DEF Fate
  <2>3. fate' \in Seq(Fate)
    BY <1>3, <2>2, SeqDef
  <2>4. DOMAIN fate' = 1..Len(fate)
    BY <2>2
  <2>5. Len(fate') = Len(fate)
    BY <1>3, <2>3, <2>4, LenProperties
  <2> QED
    BY <1>1, <1>3, <2>3, <2>4, <2>5
<1>5. /\ <<>> \in Seq(Alarm) /\ <<>> \in Seq(WakeupId) /\ <<>> \in Seq(Step)
      /\ Len(<<>>) = 0 /\ DOMAIN <<>> = {}
  BY EmptySeq
<1>6. TypeOK'
  BY <1>1, <1>2, <1>4, <1>5 DEF TypeOK, Fate
<1>7. Off' /\ Room'
  BY <1>1, <1>5, AlarmAssumption DEF Off, Room
<1>8. Columns'
  BY <1>1, <1>2 DEF Columns
<1>9. Known' /\ Memory' /\ Timely' /\ Shown'
  BY <1>1, <1>5 DEF Known, Memory, Timely, Shown
<1>10. Wakeups'
  <2>1. Due' = {}
    BY <1>1, <1>5 DEF Due
  <2> QED
    BY <1>1, <1>4, <1>5, <2>1 DEF Wakeups
<1>11. Saving' /\ Progress'
  <2>1. ASSUME kills' <= 1 PROVE Written
    <3>1. CASE todo = <<>>
      BY <1>2, <2>1, <3>1 DEF Progress, Saved
    <3>2. CASE kills = 0
      BY <3>2, NeverShort
    <3> QED
      BY <1>2, <2>1, <3>1, <3>2
  <2>2. Saved'
    <3>1. kills' = 0 => todo = <<>> /\ kills = 0
      BY <1>2
    <3>2. Written' = Written
      BY <1>1 DEF Written
    <3> QED
      BY <1>1, <1>5, <2>1, <3>1, <3>2 DEF Saved, Progress
  <2>3. Planned(todo') /\ 1..Len(todo') = {}
    <3>1. Len(todo') = 0
      BY <1>1, <1>5
    <3>2. 1..Len(todo') = {} /\ 1..Len(todo') - 1 = {}
      BY <3>1
    <3> QED
      BY <1>1, <3>2 DEF Planned, Linked
  <2> QED
    BY <1>1, <2>2, <2>3 DEF Saving, Progress
<1>12. NoneLost'
  <2> SUFFICES ASSUME kills' = 0, NEW id \in DOMAIN fate', fate'[id] = "pending"
               PROVE  \E a \in StoredAlarms' :
                         a.id = id /\ [id |-> id, time |-> a.time] \in scheduled'
    BY <1>1 DEF NoneLost
  <2>1. kills = 0 /\ todo = <<>> /\ StoredAlarms' = StoredAlarms
    BY <1>1, <1>2 DEF StoredAlarms, Stored
  <2>2. id \in DOMAIN fate /\ id \notin Due /\ fate[id] = "pending"
    BY <1>4
  <2>3. PICK i \in DOMAIN alarms : alarms[i].id = id
    BY <2>1, <2>2 DEF NoneLost, AlarmIds
  <2>4. alarms[i] \in StoredAlarms
    BY <2>1 DEF Progress, Saved
  <2>5. PICK e \in scheduled : e.id = id
    BY <2>1, <2>2, <2>3 DEF Memory, Ids
  <2>6. e.time = alarms[i].time
    BY <2>1, <2>3, <2>5 DEF Timely
  <2>7. e = [id |-> id, time |-> alarms[i].time]
    BY <2>5, <2>6 DEF TypeOK
  <2> QED
    BY <1>1, <2>1, <2>3, <2>4, <2>5, <2>7
<1> QED
  BY <1>6, <1>7, <1>8, <1>9, <1>10, <1>11, <1>12

-----------------------------------------------------------------------------
(* One write of a save.                                                    *)

\* The image of memory, when memory is in order, is what flash may hold.
LEMMA ImageFacts ==
    ASSUME TypeOK, Room
    PROVE  /\ Image(alarms) \in Flash
           /\ Image(alarms).one = Len(alarms) /\ Image(alarms).two = Len(alarms)
           /\ DOMAIN Image(alarms).times = DOMAIN alarms
           /\ DOMAIN Image(alarms).ids = DOMAIN alarms
           /\ DOMAIN Image(alarms).timers = DOMAIN alarms
           /\ Len(Image(alarms).times) = Len(alarms)
           /\ Len(Image(alarms).ids) = Len(alarms)
           /\ Len(Image(alarms).timers) = Len(alarms)
           /\ \A i \in DOMAIN alarms : /\ Image(alarms).times[i] = alarms[i].time
                                       /\ Image(alarms).ids[i] = alarms[i].id
                                       /\ Image(alarms).timers[i] = alarms[i].timer
           /\ \A i \in DOMAIN alarms : alarms[i] \in Alarm
<1> DEFINE n == Len(alarms)
<1>1. /\ n \in Nat /\ DOMAIN alarms = 1..n
      /\ \A i \in 1..n : alarms[i] \in Alarm
  BY LenProperties, ElementOfSeq DEF TypeOK
<1>2. /\ Image(alarms).one = n /\ Image(alarms).two = n
      /\ Image(alarms).times = [i \in 1..n |-> alarms[i].time]
      /\ Image(alarms).ids = [i \in 1..n |-> alarms[i].id]
      /\ Image(alarms).timers = [i \in 1..n |-> alarms[i].timer]
      /\ Image(alarms) = [one |-> n, times |-> Image(alarms).times,
                          ids |-> Image(alarms).ids,
                          timers |-> Image(alarms).timers, two |-> n]
  BY <1>1 DEF Image
<1> HIDE DEF n
<1>3. /\ Image(alarms).times \in [1..n -> Time]
      /\ Image(alarms).ids \in [1..n -> WakeupId]
      /\ Image(alarms).timers \in [1..n -> BOOLEAN]
  BY <1>1, <1>2 DEF Alarm
<1>4. /\ Image(alarms).times \in Seq(Time)
      /\ Image(alarms).ids \in Seq(WakeupId)
      /\ Image(alarms).timers \in Seq(BOOLEAN)
  <2>1. n \in Nat
    BY <1>1
  <2>2. \A S : [1..n -> S] \subseteq Seq(S)
    BY <2>1, SeqDef
  <2> QED
    BY <1>3, <2>2
<1>5. /\ DOMAIN Image(alarms).times = 1..n
      /\ DOMAIN Image(alarms).ids = 1..n
      /\ DOMAIN Image(alarms).timers = 1..n
  BY <1>3
<1>6. /\ Len(Image(alarms).times) = n
      /\ Len(Image(alarms).ids) = n
      /\ Len(Image(alarms).timers) = n
  BY <1>1, <1>4, <1>5, LenProperties
<1>7. n \in 0..MAX_ALARMS
  BY <1>1, AlarmAssumption DEF Room, n
<1>8. Image(alarms) \in Flash
  BY <1>2, <1>4, <1>7 DEF Flash
<1>9. \A i \in 1..n : /\ Image(alarms).times[i] = alarms[i].time
                      /\ Image(alarms).ids[i] = alarms[i].id
                      /\ Image(alarms).timers[i] = alarms[i].timer
  BY <1>2
<1> QED
  BY <1>1, <1>2, <1>5, <1>6, <1>8, <1>9 DEF n

\* When the last key is written, flash has all that memory has.
LEMMA AllWritten ==
    ASSUME TypeOK, Room, HasOne, HasTimes, HasIds, HasTimers, HasTwo
    PROVE  Saved
<1>1. /\ flash.one = Len(alarms) /\ flash.two = Len(alarms)
      /\ flash.times = Image(alarms).times
      /\ flash.ids = Image(alarms).ids
      /\ flash.timers = Image(alarms).timers
  BY DEF HasOne, HasTimes, HasIds, HasTimers, HasTwo
<1>2. /\ Len(Image(alarms).times) = Len(alarms)
      /\ Len(Image(alarms).ids) = Len(alarms)
      /\ Len(Image(alarms).timers) = Len(alarms)
      /\ \A i \in DOMAIN alarms : /\ Image(alarms).times[i] = alarms[i].time
                                  /\ Image(alarms).ids[i] = alarms[i].id
                                  /\ Image(alarms).timers[i] = alarms[i].timer
      /\ \A i \in DOMAIN alarms : alarms[i] \in Alarm
  BY ImageFacts
<1>3. Len(alarms) \in Nat /\ DOMAIN alarms = 1..Len(alarms)
  BY LenProperties DEF TypeOK
<1>4. Lesser(flash.one, flash.two) = Len(alarms)
  BY <1>1 DEF Lesser
<1>5. Written
  BY <1>1, <1>2, <1>3, <1>4 DEF Written
<1>6. ASSUME NEW i \in DOMAIN alarms PROVE alarms[i] \in StoredAlarms
  <2>1. Stored(i) = [time |-> alarms[i].time, id |-> alarms[i].id,
                     timer |-> alarms[i].timer]
    BY <1>1, <1>2 DEF Stored
  <2>2. Stored(i) = alarms[i]
    BY <1>2, <2>1 DEF Alarm
  <2> QED
    BY <1>3, <1>4, <2>2 DEF StoredAlarms
<1> QED
  BY <1>1, <1>2, <1>5, <1>6 DEF Saved

\* The same of the state after a write.
LEMMA AllWrittenNext ==
    (TypeOK /\ Room /\ HasOne /\ HasTimes /\ HasIds /\ HasTimers /\ HasTwo)'
        => Saved'
<1>1. TypeOK /\ Room /\ HasOne /\ HasTimes /\ HasIds /\ HasTimers /\ HasTwo
        => Saved
  BY AllWritten
<1> QED
  BY <1>1, PTL

\* Each write of prv_save_alarms() brings the save one key further.
LEMMA WriteStep ==
    ASSUME IInv, Write
    PROVE  IInv'
<1> USE DEF IInv
<1> DEFINE h == Head(todo)
<1>1. /\ running /\ todo # <<>> /\ h # "maybe_alarm"
      /\ todo' = Tail(todo)
      /\ UNCHANGED <<now, fate, due, running, alarms, windows, conversing,
                     shown, kills, misses>>
      /\ \/ h = "cancel_all" /\ scheduled' = {} /\ flash' = flash
         \/ /\ h # "cancel_all" /\ scheduled' = scheduled
            /\ flash' = [flash EXCEPT ![h] = Image(alarms)[h]]
  BY DEF Write, screen, misfortunes
<1>2. /\ todo \in Seq(Step) /\ Len(todo) \in Nat \ {0} /\ h \in Step
      /\ h = todo[1]
  BY <1>1, EmptySeq, HeadTailProperties DEF TypeOK
<1>3. /\ todo' \in Seq(Step) /\ Planned(todo')
      /\ todo' # <<>> => Head(todo') \in Follows(h)
      /\ todo' = <<>> => h = "two"
      /\ \A i \in 1..Len(todo') : todo'[i] = todo[i + 1]
      /\ Len(todo') = Len(todo) - 1
  BY <1>1, <1>2, PlanGoesOn, HeadTailProperties DEF Saving
<1>4. h = "cancel_all" => alarms = <<>>
  BY <1>2 DEF Saving
<1> HIDE DEF h
<1>5. /\ Image(alarms) \in Flash
      /\ DOMAIN Image(alarms).times = DOMAIN alarms
      /\ DOMAIN Image(alarms).ids = DOMAIN alarms
      /\ Image(alarms).one = Len(alarms) /\ Image(alarms).two = Len(alarms)
      /\ \A i \in DOMAIN alarms : /\ Image(alarms).times[i] = alarms[i].time
                                  /\ Image(alarms).ids[i] = alarms[i].id
  BY ImageFacts
<1>6. /\ flash \in Flash
      /\ flash.one' = IF h = "one" THEN Len(alarms) ELSE flash.one
      /\ flash.times' = IF h = "times" THEN Image(alarms).times ELSE flash.times
      /\ flash.ids' = IF h = "ids" THEN Image(alarms).ids ELSE flash.ids
      /\ flash.timers' = IF h = "timers" THEN Image(alarms).timers ELSE flash.timers
      /\ flash.two' = IF h = "two" THEN Len(alarms) ELSE flash.two
      /\ flash' \in Flash
  <2>1. flash \in Flash
    BY DEF TypeOK
  <2>2. CASE h = "cancel_all"
    BY <1>1, <2>1, <2>2
  <2>3. CASE h = "one"
    BY <1>1, <1>5, <2>1, <2>3 DEF Flash
  <2>4. CASE h = "times"
    BY <1>1, <1>5, <2>1, <2>4 DEF Flash
  <2>5. CASE h = "ids"
    BY <1>1, <1>5, <2>1, <2>5 DEF Flash
  <2>6. CASE h = "timers"
    BY <1>1, <1>5, <2>1, <2>6 DEF Flash
  <2>7. CASE h = "two"
    BY <1>1, <1>5, <2>1, <2>7 DEF Flash
  <2> QED
    BY <1>1, <1>2, <2>2, <2>3, <2>4, <2>5, <2>6, <2>7 DEF Step
<1>7. TypeOK'
  BY <1>1, <1>3, <1>6 DEF TypeOK
<1>8. /\ Due' = Due /\ AlarmIds' = AlarmIds
      /\ DOMAIN <<>> = {}
  BY <1>1 DEF Due, AlarmIds
<1>9. Off' /\ Room' /\ Known' /\ Shown'
  BY <1>1, <1>8 DEF Off, Room, Known, Shown
<1>10. scheduled' \subseteq scheduled /\ (alarms # <<>> => scheduled' = scheduled)
  BY <1>1, <1>4
<1>11. Wakeups'
  BY <1>1, <1>8, <1>10 DEF Wakeups
<1>12. Memory' /\ Timely'
  <2>1. CASE alarms = <<>>
    BY <1>1, <1>8, <2>1 DEF Memory, Timely
  <2>2. CASE alarms # <<>>
    <3>1. Ids(scheduled)' = Ids(scheduled)
      BY <1>10, <2>2
    <3> QED
      BY <1>1, <1>8, <1>10, <2>2, <3>1 DEF Memory, Timely
  <2> QED
    BY <2>1, <2>2
<1>13. NoneLost'
  BY <1>1, <1>8 DEF NoneLost
<1>14. Columns'
  <2>1. ASSUME kills <= 1
        PROVE  \A i, j \in DOMAIN flash.ids' : i # j => flash.ids'[i] # flash.ids'[j]
    <3>1. CASE h = "ids"
      <4>1. \A i \in DOMAIN alarms : i \in Int
        BY LenProperties DEF TypeOK
      <4> QED
        BY <1>5, <1>6, <2>1, <3>1, <4>1 DEF Memory
    <3>2. CASE h # "ids"
      BY <1>6, <2>1, <3>2 DEF Columns
    <3> QED
      BY <3>1, <3>2
  <2>2. ASSUME kills <= 1
        PROVE  \A i, j \in DOMAIN flash.times' : i < j =>
                  /\ flash.times'[i] <= flash.times'[j]
                  /\ kills = 0 => flash.times'[i] # flash.times'[j]
    <3>1. CASE h = "times"
      <4>1. \A i \in DOMAIN alarms : i \in Int
        BY LenProperties DEF TypeOK
      <4> QED
        BY <1>5, <1>6, <2>2, <3>1, <4>1 DEF Memory, Timely
    <3>2. CASE h # "times"
      BY <1>6, <2>2, <3>2 DEF Columns
    <3> QED
      BY <3>1, <3>2
  <2> QED
    BY <1>1, <2>1, <2>2 DEF Columns
<1>15. Saving'
  <2>1. ASSUME NEW i \in 1..Len(todo'), todo'[i] = "cancel_all" PROVE alarms' = <<>>
    <3>1. i + 1 \in 1..Len(todo) /\ todo[i + 1] = "cancel_all"
      BY <1>2, <1>3, <2>1
    <3> QED
      BY <1>1, <3>1 DEF Saving
  <2> QED
    BY <1>3, <2>1 DEF Saving
<1>16. Progress'
  <2> USE DEF HasOne, HasTimes, HasIds, HasTimers, HasTwo,
              OldOne, OldTimes, OldIds, OldTimers
  <2>1. CASE h = "one"
    <3>1. HasOne' /\ OldTimes' /\ OldIds' /\ OldTimers'
      BY <1>1, <1>6, <2>1 DEF Progress, h
    <3>2. todo' # <<>> /\ Head(todo') = "times"
      BY <1>3, <2>1 DEF Follows
    <3> QED
      BY <3>1, <3>2 DEF Progress
  <2>2. CASE h = "times"
    <3>1. HasOne' /\ HasTimes' /\ OldIds' /\ OldTimers'
      BY <1>1, <1>6, <2>2 DEF Progress, h
    <3>2. todo' # <<>> /\ Head(todo') = "ids"
      BY <1>3, <2>2 DEF Follows
    <3> QED
      BY <3>1, <3>2 DEF Progress
  <2>3. CASE h = "ids"
    <3>1. HasOne' /\ HasTimes' /\ HasIds' /\ OldTimers'
      BY <1>1, <1>6, <2>3 DEF Progress, h
    <3>2. todo' # <<>> /\ Head(todo') = "timers"
      BY <1>3, <2>3 DEF Follows
    <3> QED
      BY <3>1, <3>2 DEF Progress
  <2>4. CASE h = "timers"
    <3>1. HasOne' /\ HasTimes' /\ HasIds' /\ HasTimers'
      BY <1>1, <1>6, <2>4 DEF Progress, h
    <3>2. todo' # <<>> /\ Head(todo') = "two"
      BY <1>3, <2>4 DEF Follows
    <3> QED
      BY <3>1, <3>2 DEF Progress
  <2>5. CASE h = "two"
    <3>1. HasOne' /\ HasTimes' /\ HasIds' /\ HasTimers' /\ HasTwo'
      BY <1>1, <1>6, <2>5 DEF Progress, h
    <3>2. Saved'
      BY <1>7, <1>9, <3>1, AllWrittenNext
    <3>3. todo' = <<>> \/ Head(todo') \in {"cancel_all", "maybe_alarm"}
      BY <1>3, <2>5 DEF Follows
    <3> QED
      BY <3>1, <3>2, <3>3 DEF Progress
  <2>6. CASE h = "cancel_all"
    <3>1. flash.one = Len(alarms) /\ flash.two = Len(alarms) /\ Saved
      BY <1>1, <2>6, AllWritten DEF Progress, h
    <3>2. OldOne' /\ OldTimes' /\ OldIds' /\ OldTimers'
      BY <1>1, <2>6, <3>1 DEF Saved
    <3>3. todo' # <<>> /\ Head(todo') = "one"
      BY <1>3, <2>6 DEF Follows
    <3> QED
      BY <3>2, <3>3 DEF Progress
  <2> QED
    BY <1>1, <1>2, <2>1, <2>2, <2>3, <2>4, <2>5, <2>6 DEF Step
<1> QED
  BY <1>7, <1>9, <1>11, <1>12, <1>13, <1>14, <1>15, <1>16

-----------------------------------------------------------------------------
(* Loading, in an app the user or a wakeup starts.                         *)

\* How the app was launched: by an event that is due, or by none.
Launched(launch, live, then) ==
    \/ /\ launch = {} /\ live = scheduled /\ then = <<>> /\ due' = due
    \/ \E e \in scheduled :
          /\ launch = {e.id} /\ live = scheduled \ {e}
          /\ then = <<"maybe_alarm">> /\ due' = <<e.id>> /\ e.time <= now

\* The event that launched the app is handed over, and no other is lost.
LEMMA LaunchFacts ==
    ASSUME IInv, ~running, NEW launch, NEW live, NEW then,
           Launched(launch, live, then)
    PROVE  /\ Due' = launch
           /\ launch \union Ids(live) = Ids(scheduled)
           /\ live \subseteq scheduled
           /\ \A e \in live : e.id \notin launch
           /\ \A e \in scheduled : e.id \in launch => e.time <= now
           /\ \A e \in scheduled : e \notin live => e.id \in launch
           /\ due' \in Seq(WakeupId)
           /\ \A i \in DOMAIN due' : due'[i] \in DOMAIN fate
           /\ then \in {<<>>, <<"maybe_alarm">>}
<1> USE DEF IInv
<1>1. due = <<>> /\ DOMAIN <<>> = {}
  BY DEF Off
<1>2. CASE launch = {} /\ live = scheduled /\ then = <<>> /\ due' = due
  <2>1. Due' = {}
    BY <1>1, <1>2 DEF Due
  <2>2. due' \in Seq(WakeupId) /\ DOMAIN due' = {}
    BY <1>1, <1>2, EmptySeq
  <2> QED
    BY <1>2, <2>1, <2>2
<1>3. ASSUME NEW e \in scheduled, launch = {e.id}, live = scheduled \ {e},
             then = <<"maybe_alarm">>, due' = <<e.id>>, e.time <= now
      PROVE  /\ Due' = launch
             /\ launch \union Ids(live) = Ids(scheduled)
             /\ live \subseteq scheduled
             /\ \A f \in live : f.id \notin launch
             /\ \A f \in scheduled : f.id \in launch => f.time <= now
             /\ \A f \in scheduled : f \notin live => f.id \in launch
             /\ due' \in Seq(WakeupId)
             /\ \A i \in DOMAIN due' : due'[i] \in DOMAIN fate
             /\ then \in {<<>>, <<"maybe_alarm">>}
  <2>1. e.id \in WakeupId
    BY DEF TypeOK
  <2>2. due' \in Seq(WakeupId) /\ Len(due') = 1 /\ due'[1] = e.id
    BY <1>3, <2>1
  <2>3. DOMAIN due' = {1}
    BY <2>2, LenProperties
  <2>4. Due' = {e.id}
    BY <2>2, <2>3 DEF Due
  <2>5. \A f \in scheduled : f.id = e.id => f = e
    BY DEF Wakeups
  <2>6. e.id \in DOMAIN fate
    BY DEF Wakeups
  <2> QED
    BY <1>3, <2>2, <2>3, <2>4, <2>5, <2>6 DEF Ids
<1> QED
  BY <1>2, <1>3 DEF Launched

\* What prv_load_alarms() finds: the kept entries of flash, in their order.
Loaded(n, at, entries) ==
    LET count == Lesser(flash.one, flash.two)
    IN  /\ count \in 1..MAX_ALARMS /\ n \in 0..count
        /\ alarms' \in Seq(Alarm) /\ DOMAIN alarms' = 1..n /\ Len(alarms') = n
        /\ \A i \in 1..n : /\ at[i] \in 1..count
                           /\ alarms'[i] = entries[at[i]]
                           /\ alarms'[i].id \in Ids(scheduled)
        /\ \A i, j \in 1..n : i < j => at[i] < at[j]
        /\ \A k \in 1..count : entries[k].id \in Ids(scheduled) =>
              \E i \in 1..n : at[i] = k
        /\ kills <= 1 => \A k \in 1..count : /\ entries[k] = Stored(k)
                                             /\ k \in DOMAIN flash.times
                                             /\ k \in DOMAIN flash.ids

\* prv_load_alarms() finds just that, unless one of the counts is zero.
LEMMA LoadFacts ==
    ASSUME IInv, ~running, NEW launch, NEW live, NEW then,
           launch \union Ids(live) = Ids(scheduled),
           Load(launch, live, then), Lesser(flash.one, flash.two) # 0
    PROVE  \E n, at, entries :
              /\ Loaded(n, at, entries)
              /\ scheduled' = live
              /\ todo' = then \/ todo' = SavePlan(alarms') \o then
<1> USE DEF IInv
<1> DEFINE count == Lesser(flash.one, flash.two)
<1>1. /\ flash \in Flash /\ count \in 1..MAX_ALARMS /\ count \in Nat
  BY AlarmAssumption DEF TypeOK, Flash, Lesser
<1>2. PICK junk \in Alarm :
         LET entries == [i \in 1..count |->
                           [time |-> Entry(flash.times, i, junk.time),
                            id |-> Entry(flash.ids, i, junk.id),
                            timer |-> Entry(flash.timers, i, junk.timer)]]
             kept == {i \in 1..count : entries[i].id \in Ids(live) \union launch}
         IN  \E n \in 0..count : \E at \in [1..n -> kept] :
                /\ \A i, j \in 1..n : i < j => at[i] < at[j]
                /\ \A k \in kept : \E i \in 1..n : at[i] = k
                /\ alarms' = [i \in 1..n |-> entries[at[i]]]
                /\ todo' = IF n < count THEN SavePlan(alarms') \o then ELSE then
  BY <1>1 DEF Load
<1> DEFINE entries == [i \in 1..count |->
                         [time |-> Entry(flash.times, i, junk.time),
                          id |-> Entry(flash.ids, i, junk.id),
                          timer |-> Entry(flash.timers, i, junk.timer)]]
           kept == {i \in 1..count : entries[i].id \in Ids(live) \union launch}
<1>3. PICK n \in 0..count : \E at \in [1..n -> kept] :
                /\ \A i, j \in 1..n : i < j => at[i] < at[j]
                /\ \A k \in kept : \E i \in 1..n : at[i] = k
                /\ alarms' = [i \in 1..n |-> entries[at[i]]]
                /\ todo' = IF n < count THEN SavePlan(alarms') \o then ELSE then
  BY <1>2
<1>4. PICK at \in [1..n -> kept] :
                /\ \A i, j \in 1..n : i < j => at[i] < at[j]
                /\ \A k \in kept : \E i \in 1..n : at[i] = k
                /\ alarms' = [i \in 1..n |-> entries[at[i]]]
                /\ todo' = IF n < count THEN SavePlan(alarms') \o then ELSE then
  BY <1>3
<1>5. /\ flash.times \in Seq(Time) /\ flash.ids \in Seq(WakeupId)
      /\ flash.timers \in Seq(BOOLEAN)
      /\ Len(flash.times) \in Nat /\ Len(flash.ids) \in Nat
      /\ Len(flash.timers) \in Nat
      /\ DOMAIN flash.times = 1..Len(flash.times)
      /\ DOMAIN flash.ids = 1..Len(flash.ids)
  BY <1>1, LenProperties DEF Flash
<1>6. \A k \in 1..count : entries[k] \in Alarm
  <2> SUFFICES ASSUME NEW k \in 1..count PROVE entries[k] \in Alarm
    OBVIOUS
  <2>1. entries[k] = [time |-> Entry(flash.times, k, junk.time),
                      id |-> Entry(flash.ids, k, junk.id),
                      timer |-> Entry(flash.timers, k, junk.timer)]
    OBVIOUS
  <2>2. junk.time \in Time /\ junk.id \in WakeupId /\ junk.timer \in BOOLEAN
    BY DEF Alarm
  <2>3. Entry(flash.times, k, junk.time) \in Time
    BY <1>1, <1>5, <2>2, ElementOfSeq DEF Entry
  <2>4. Entry(flash.ids, k, junk.id) \in WakeupId
    BY <1>1, <1>5, <2>2, ElementOfSeq DEF Entry
  <2>5. Entry(flash.timers, k, junk.timer) \in BOOLEAN
    BY <1>1, <1>5, <2>2, ElementOfSeq DEF Entry
  <2> QED
    BY <2>1, <2>3, <2>4, <2>5 DEF Alarm
<1>7. ASSUME kills <= 1, NEW k \in 1..count
      PROVE  entries[k] = Stored(k) /\ k \in DOMAIN flash.times /\ k \in DOMAIN flash.ids
  <2>1. count <= Len(flash.times) /\ count <= Len(flash.ids) /\ count <= Len(flash.timers)
    BY <1>7 DEF Off, Progress, Saved, Written
  <2>2. k <= Len(flash.times) /\ k <= Len(flash.ids) /\ k <= Len(flash.timers)
    BY <1>1, <1>5, <2>1
  <2> QED
    BY <1>1, <1>5, <2>2 DEF Entry, Stored
<1> HIDE DEF entries
<1>8. \A i \in 1..n : at[i] \in 1..count /\ at[i] \in kept
  BY <1>4
<1>9. \A k \in 1..count : k \in kept <=> entries[k].id \in Ids(scheduled)
  OBVIOUS
<1> HIDE DEF kept
<1>10. n \in Nat /\ alarms' \in [1..n -> Alarm]
  BY <1>1, <1>4, <1>6, <1>8
<1>11. alarms' \in Seq(Alarm) /\ DOMAIN alarms' = 1..n /\ Len(alarms') = n
  <2>1. alarms' \in Seq(Alarm) /\ DOMAIN alarms' = 1..n
    BY <1>10, SeqDef
  <2> QED
    BY <1>10, <2>1, LenProperties
<1>12. \A i \in 1..n : alarms'[i] = entries[at[i]] /\ alarms'[i].id \in Ids(scheduled)
  BY <1>4, <1>8, <1>9
<1>13. scheduled' = live
  BY <1>1 DEF Load
<1>14. Loaded(n, at, entries)
  BY <1>1, <1>4, <1>7, <1>8, <1>9, <1>11, <1>12 DEF Loaded
<1> QED
  BY <1>4, <1>13, <1>14

\* An app that is launched has in memory what flash and the service agree on.
LEMMA LoadStep ==
    ASSUME IInv, ~running, running', NEW launch, NEW live, NEW then,
           Launched(launch, live, then), Load(launch, live, then), running' \in BOOLEAN,
           UNCHANGED <<now, fate, screen, shown, flash, misfortunes>>
    PROVE  IInv'
<1> USE DEF IInv
<1> DEFINE count == Lesser(flash.one, flash.two)
<1>1. UNCHANGED <<now, fate, windows, conversing, shown, flash, kills, misses>>
  BY DEF screen, misfortunes
<1>2. /\ Due' = launch
      /\ launch \union Ids(live) = Ids(scheduled)
      /\ live \subseteq scheduled
      /\ \A e \in live : e.id \notin launch
      /\ \A e \in scheduled : e.id \in launch => e.time <= now
      /\ \A e \in scheduled : e \notin live => e.id \in launch
      /\ due' \in Seq(WakeupId)
      /\ \A i \in DOMAIN due' : due'[i] \in DOMAIN fate
      /\ then \in {<<>>, <<"maybe_alarm">>}
  BY LaunchFacts
<1>3. /\ shown = {} /\ todo = <<>> /\ alarms = <<>> /\ Saved
      /\ DOMAIN <<>> = {} /\ Len(<<>>) = 0
  BY DEF Off, Progress
<1>4. count \in Nat
  BY AlarmAssumption DEF TypeOK, Flash, Lesser
<1>5. Off' /\ Columns' /\ Shown'
  BY <1>1, <1>3 DEF Off, Columns, Shown
<1>6. StoredAlarms' = StoredAlarms /\ Written' = Written
  BY <1>1 DEF StoredAlarms, Stored, Written
<1>7. ASSUME scheduled' \subseteq live PROVE Wakeups'
  BY <1>1, <1>2, <1>7 DEF Wakeups
<1>8. ASSUME todo' = then, Saved' PROVE Saving' /\ Progress' /\ todo' \in Seq(Step)
  <2>1. CASE then = <<>>
    <3>1. 1..Len(then) = {} /\ 1..Len(then) - 1 = {} /\ then \in Seq(Step)
      <4>1. Len(then) = 0 /\ then \in Seq(Step)
        BY <2>1, EmptySeq
      <4> QED
        BY <4>1
    <3> QED
      BY <1>8, <2>1, <3>1 DEF Saving, Progress, Planned, Linked
  <2>2. CASE then = <<"maybe_alarm">>
    <3>1. /\ then \in Seq(Step) /\ Len(then) = 1 /\ then[1] = "maybe_alarm"
          /\ Head(then) = "maybe_alarm" /\ then # <<>>
      BY <2>2 DEF Step
    <3>2. 1..Len(then) = {1} /\ 1..Len(then) - 1 = {}
      BY <3>1
    <3>3. Saving'
      BY <1>8, <3>1, <3>2 DEF Saving, Planned, Linked
    <3>4. Progress'
      BY <1>8, <3>1 DEF Progress
    <3> QED
      BY <1>8, <3>1, <3>3, <3>4
  <2> QED
    BY <1>2, <2>1, <2>2
<1>9. CASE count = 0
  <2>1. alarms' = <<>> /\ scheduled' = {} /\ todo' = then
    BY <1>4, <1>9 DEF Load
  <2>2. Room' /\ Known' /\ Memory' /\ Timely'
    BY <1>3, <2>1, AlarmAssumption DEF Room, Known, Memory, Timely
  <2>3. Wakeups'
    BY <1>7, <2>1
  <2>4. 1..count = {}
    BY <1>9
  <2>5. NoneLost'
    BY <1>1, <2>4 DEF NoneLost, StoredAlarms
  <2>6. Saved'
    BY <1>1, <1>3, <1>6, <2>1 DEF Saved
  <2>7. Saving' /\ Progress' /\ todo' \in Seq(Step)
    BY <1>8, <2>1, <2>6
  <2>8. TypeOK'
    BY <1>1, <1>2, <2>1, <2>7, EmptySeq DEF TypeOK
  <2> QED
    BY <1>5, <2>2, <2>3, <2>5, <2>7, <2>8
<1>10. CASE count # 0
  <2>1. PICK n, at, entries :
           /\ Loaded(n, at, entries)
           /\ scheduled' = live
           /\ todo' = then \/ todo' = SavePlan(alarms') \o then
    BY <1>2, <1>10, LoadFacts
  <2>2. /\ count \in 1..MAX_ALARMS /\ n \in 0..count
        /\ alarms' \in Seq(Alarm) /\ DOMAIN alarms' = 1..n /\ Len(alarms') = n
        /\ \A i \in 1..n : /\ at[i] \in 1..count
                           /\ alarms'[i] = entries[at[i]]
                           /\ alarms'[i].id \in Ids(scheduled)
        /\ \A i, j \in 1..n : i < j => at[i] < at[j]
        /\ \A k \in 1..count : entries[k].id \in Ids(scheduled) =>
              \E i \in 1..n : at[i] = k
        /\ kills <= 1 => \A k \in 1..count : /\ entries[k] = Stored(k)
                                             /\ k \in DOMAIN flash.times
                                             /\ k \in DOMAIN flash.ids
    BY <2>1 DEF Loaded
  <2>3. /\ \A id \in Ids(scheduled) : id \in DOMAIN fate /\ fate[id] = "pending"
        /\ \A e, f \in scheduled : e.id = f.id => e = f
    BY DEF Wakeups, Ids
  <2>4. StoredAlarms = {Stored(k) : k \in 1..count}
    BY DEF StoredAlarms
  <2> HIDE DEF count
  <2>5. Room'
    BY <1>4, <2>2, AlarmAssumption DEF Room
  <2>6. Known'
    BY <1>1, <2>2, <2>3 DEF Known
  <2>7. Wakeups'
    BY <1>7, <2>1
  <2>8. Ids(scheduled)' \union Due' = Ids(scheduled)
    BY <1>2, <2>1
  <2>9. ASSUME kills <= 1, NEW i \in 1..n
        PROVE  /\ alarms'[i] = Stored(at[i])
               /\ alarms'[i].time = flash.times[at[i]]
               /\ alarms'[i].id = flash.ids[at[i]]
               /\ at[i] \in DOMAIN flash.times /\ at[i] \in DOMAIN flash.ids
               /\ at[i] \in 1..count
    <3>1. /\ at[i] \in 1..count /\ alarms'[i] = entries[at[i]]
          /\ entries[at[i]] = Stored(at[i])
          /\ at[i] \in DOMAIN flash.times /\ at[i] \in DOMAIN flash.ids
      BY <2>2, <2>9
    <3>2. /\ Stored(at[i]).time = flash.times[at[i]]
          /\ Stored(at[i]).id = flash.ids[at[i]]
      BY DEF Stored
    <3> QED
      BY <3>1, <3>2
  <2>10. \A i, j \in 1..n : i < j => at[i] # at[j]
    BY <1>4, <2>2
  <2>11. Memory'
    <3> SUFFICES ASSUME kills <= 1
                 PROVE  /\ \A i \in DOMAIN alarms' :
                              /\ fate[alarms'[i].id] = "pending"
                              /\ alarms'[i].id \in Ids(scheduled)' \union Due'
                        /\ \A i, j \in DOMAIN alarms' :
                              i < j => /\ alarms'[i].id # alarms'[j].id
                                       /\ alarms'[i].time <= alarms'[j].time
      BY <1>1 DEF Memory
    <3>1. ASSUME NEW i \in 1..n, NEW j \in 1..n, i < j
          PROVE  alarms'[i].id # alarms'[j].id /\ alarms'[i].time <= alarms'[j].time
      <4>1. at[i] < at[j] /\ at[i] # at[j]
        BY <2>2, <2>10, <3>1
      <4> QED
        BY <2>9, <4>1 DEF Columns
    <3> QED
      BY <2>2, <2>3, <2>8, <3>1
  <2>12. ASSUME kills = 0, NEW i \in 1..n, NEW e \in scheduled, e.id = alarms'[i].id
         PROVE  e.time = alarms'[i].time
    <3>1. e.id \in DOMAIN fate /\ fate[e.id] = "pending"
      BY DEF Wakeups
    <3>2. PICK a \in StoredAlarms :
             a.id = e.id /\ [id |-> e.id, time |-> a.time] \in scheduled
      BY <2>12, <3>1 DEF NoneLost
    <3>3. PICK k \in 1..count : a = Stored(k)
      BY <2>4, <3>2
    <3>4. flash.ids[k] = flash.ids[at[i]] /\ k \in DOMAIN flash.ids
      BY <2>2, <2>9, <2>12, <3>2, <3>3 DEF Stored
    <3>5. k = at[i]
      BY <2>9, <2>12, <3>4 DEF Columns
    <3>6. a.time = alarms'[i].time
      BY <2>9, <2>12, <3>3, <3>5
    <3>7. e = [id |-> e.id, time |-> a.time]
      BY <2>3, <3>2
    <3>8. e.time = a.time
      BY <3>7
    <3> QED
      BY <3>6, <3>8
  <2>13. Timely'
    <3> SUFFICES ASSUME kills = 0
                 PROVE  /\ \A i \in DOMAIN alarms' :
                              /\ \A e \in live : e.id = alarms'[i].id => e.time = alarms'[i].time
                              /\ alarms'[i].id \in launch => alarms'[i].time <= now
                        /\ \A i, j \in DOMAIN alarms' :
                              i # j => alarms'[i].time # alarms'[j].time
      BY <1>1, <1>2, <2>1 DEF Timely
    <3>1. ASSUME NEW i \in 1..n
          PROVE  /\ \A e \in live : e.id = alarms'[i].id => e.time = alarms'[i].time
                 /\ alarms'[i].id \in launch => alarms'[i].time <= now
      <4>1. PICK e \in scheduled : e.id = alarms'[i].id
        BY <2>2 DEF Ids
      <4>2. e.time = alarms'[i].time
        BY <2>12, <4>1
      <4> QED
        BY <1>2, <2>12, <4>1, <4>2
    <3>2. ASSUME NEW i \in 1..n, NEW j \in 1..n, i < j
          PROVE  alarms'[i].time # alarms'[j].time
      <4>1. at[i] < at[j]
        BY <2>2, <3>2
      <4> QED
        BY <2>9, <4>1 DEF Columns
    <3> QED
      BY <1>4, <2>2, <3>1, <3>2
  <2>14. NoneLost'
    <3> SUFFICES ASSUME kills = 0, NEW id \in DOMAIN fate, fate[id] = "pending"
                 PROVE  id \in AlarmIds'
      BY <1>1 DEF NoneLost
    <3>1. PICK a \in StoredAlarms :
             a.id = id /\ [id |-> id, time |-> a.time] \in scheduled
      BY DEF NoneLost
    <3>2. PICK k \in 1..count : a = Stored(k)
      BY <2>4, <3>1
    <3>3. id \in Ids(scheduled)
      BY <3>1 DEF Ids
    <3>4. entries[k] = a
      BY <2>2, <3>2
    <3>5. PICK i \in 1..n : at[i] = k
      BY <2>2, <3>1, <3>3, <3>4
    <3>6. alarms'[i].id = id /\ i \in DOMAIN alarms'
      BY <2>2, <3>1, <3>4, <3>5
    <3> QED
      BY <3>6 DEF AlarmIds
  <2>15. Saved'
    BY <1>1, <1>3, <1>6, <2>2, <2>4, <2>9 DEF Saved
  <2>16. Saving' /\ Progress' /\ todo' \in Seq(Step)
    <3>1. CASE todo' = then
      BY <1>8, <2>15, <3>1
    <3>2. CASE todo' = SavePlan(alarms') \o <<>>
      <4>1. todo' = SavePlan(alarms')
        BY <3>2, PlanIsPlanned, ConcatEmptySeq
      <4> QED
        BY <1>1, <1>3, <4>1, SaveBegins
    <3>3. CASE todo' = SavePlan(alarms') \o <<"maybe_alarm">>
      BY <1>1, <1>3, <3>3, SaveBegins
    <3> QED
      BY <1>2, <2>1, <3>1, <3>2, <3>3
  <2>17. TypeOK'
    BY <1>1, <1>2, <2>1, <2>2, <2>16 DEF TypeOK
  <2> QED
    BY <1>5, <2>5, <2>6, <2>7, <2>11, <2>13, <2>14, <2>16, <2>17
<1> QED
  BY <1>9, <1>10

-----------------------------------------------------------------------------
(* Handling an event.                                                      *)

\* An event whose alarm is gone is dropped.
LEMMA DropStep ==
    ASSUME IInv, running, Saved, due # <<>>, due' = Tail(due), todo' = <<>>,
           Head(due) \notin AlarmIds,
           UNCHANGED <<service, alarms, windows, shown>>,
           UNCHANGED <<now, running, conversing, flash, misfortunes>>
    PROVE  IInv'
<1> USE DEF IInv
<1>1. UNCHANGED <<now, scheduled, fate, running, alarms, windows, conversing,
                  shown, flash, kills, misses>>
  BY DEF service, misfortunes
<1>2. /\ due' \in Seq(WakeupId)
      /\ Due' \subseteq Due
      /\ \A id \in Due : id # Head(due) => id \in Due'
      /\ \A k \in DOMAIN due' : due'[k] = due[k + 1] /\ k + 1 \in DOMAIN due
  BY DueAfter
<1>3. Saving' /\ Progress' /\ todo' \in Seq(Step)
  BY <1>1, NoSave
<1>4. TypeOK'
  BY <1>1, <1>2, <1>3 DEF TypeOK
<1>5. AlarmIds' = AlarmIds /\ StoredAlarms' = StoredAlarms
  BY <1>1 DEF AlarmIds, StoredAlarms, Stored
<1>6. Off' /\ Columns' /\ Room' /\ Known' /\ Shown'
  BY <1>1, <1>5 DEF Off, Columns, Room, Known, Shown
<1>7. Wakeups'
  BY <1>1, <1>2 DEF Wakeups
<1>8. Memory'
  <2>1. \A i \in DOMAIN alarms : alarms[i].id # Head(due)
    BY DEF AlarmIds
  <2>2. Ids(scheduled)' = Ids(scheduled)
    BY <1>1
  <2> QED
    BY <1>1, <1>2, <2>1, <2>2 DEF Memory
<1>9. Timely' /\ NoneLost'
  BY <1>1, <1>2, <1>5 DEF Timely, NoneLost
<1> QED
  BY <1>3, <1>4, <1>6, <1>7, <1>8, <1>9

\* The alarm of the event rings, if the app knows it.
LEMMA RingStep ==
    ASSUME IInv, running, Saved, todo' = <<>>, RingNext
    PROVE  IInv'
<1> USE DEF IInv
<1>1. /\ due # <<>> /\ due' = Tail(due)
      /\ UNCHANGED <<now, running, conversing, flash, misfortunes>>
  BY DEF RingNext
<1>2. ASSUME NEW i \in DOMAIN alarms, alarms[i].id = Head(due),
             windows' = Append(windows, alarms[i]), RemoveAlarm(i, "rung")
      PROVE  IInv'
  <2>1. alarms[i] \in Alarm
    BY LenProperties, ElementOfSeq DEF TypeOK
  <2>2. windows' \in Seq(Alarm)
    BY <1>2, <2>1, AppendProperties DEF TypeOK
  <2>3. "rung" \in Fate \ {"pending"}
    BY DEF Fate
  <2> HIDE DEF IInv
  <2> QED
    BY <1>1, <1>2, <2>2, <2>3, RemoveStep
<1>3. CASE /\ Head(due) \notin AlarmIds
           /\ UNCHANGED <<service, alarms, windows, shown>>
  BY <1>1, <1>3, DropStep
<1> QED
  BY <1>2, <1>3 DEF RingNext

-----------------------------------------------------------------------------
(* The invariant.                                                          *)

\* A watch that never had an alarm.
LEMMA InitHolds == Init => IInv
<1> SUFFICES ASSUME Init PROVE IInv
  OBVIOUS
<1> USE AlarmAssumption DEF Init
<1>1. /\ <<>> \in Seq(Alarm) /\ <<>> \in Seq(WakeupId) /\ <<>> \in Seq(Step)
      /\ <<>> \in Seq(Fate) /\ <<>> \in Seq(Time) /\ <<>> \in Seq(BOOLEAN)
      /\ Len(<<>>) = 0 /\ DOMAIN <<>> = {}
  BY EmptySeq
<1>2. flash \in Flash
  BY <1>1 DEF Flash, EmptyFlash
<1>3. now \in Time /\ kills \in 0..MaxKills /\ misses \in 0..MaxMisses
  BY DEF Time
<1>4. TypeOK
  <2>1. fate \in Seq({"pending", "rung", "cancelled", "missed"})
    BY <1>1 DEF Fate
  <2>2. Len(fate) <= MaxIds
    BY <1>1
  <2>3. /\ due \in Seq(WakeupId) /\ alarms \in Seq(Alarm) /\ windows \in Seq(Alarm)
        /\ todo \in Seq(Step)
    BY <1>1
  <2>4. /\ scheduled \in SUBSET [id : WakeupId, time : Time]
        /\ shown \in SUBSET [id : WakeupId, time : Time]
        /\ running \in BOOLEAN /\ conversing \in BOOLEAN
    OBVIOUS
  <2> QED
    BY <1>2, <1>3, <2>1, <2>2, <2>3, <2>4 DEF TypeOK
<1>5. Off /\ Room /\ Known /\ Memory /\ Timely /\ NoneLost /\ Shown
  BY <1>1 DEF Off, Room, Known, Memory, Timely, NoneLost, Shown
<1>6. Columns
  BY <1>1 DEF Columns, EmptyFlash
<1>7. Wakeups
  BY <1>1 DEF Wakeups
<1>8. Saving
  <2>1. 1..Len(todo) = {} /\ 1..Len(todo) - 1 = {}
    <3>1. Len(todo) = 0
      BY <1>1
    <3> QED
      BY <3>1
  <2> QED
    BY <2>1 DEF Saving, Planned, Linked
<1>9. Progress
  BY <1>1 DEF Progress, Saved, Written, EmptyFlash, Lesser
<1> QED
  BY <1>4, <1>5, <1>6, <1>7, <1>8, <1>9 DEF IInv

\* Between two callbacks flash is whole, and before main() lets the event that
\* launched the app ring.
LEMMA IdleIsSaved ==
    ASSUME IInv
    PROVE  /\ Idle => Saved /\ running /\ todo = <<>>
           /\ todo = <<"maybe_alarm">> => Saved
  BY DEF IInv, Progress, Idle

\* The top alarm window goes, and the others stay.
LEMMA TopGoes ==
    ASSUME TypeOK, windows # <<>>
    PROVE  /\ SubSeq(windows, 1, Len(windows) - 1) \in Seq(Alarm)
           /\ DOMAIN SubSeq(windows, 1, Len(windows) - 1) \subseteq DOMAIN windows
<1> DEFINE n == Len(windows)
           u == SubSeq(windows, 1, n - 1)
<1>1. /\ windows \in Seq(Alarm) /\ n \in Nat \ {0} /\ DOMAIN windows = 1..n
      /\ \A i \in 1..n : windows[i] \in Alarm
  BY EmptySeq, LenProperties, ElementOfSeq DEF TypeOK
<1>2. \A i \in 1..n - 1 : windows[i] \in Alarm
  BY <1>1
<1>3. /\ u \in Seq(Alarm)
      /\ Len(u) = IF 1 <= n - 1 THEN n - 1 - 1 + 1 ELSE 0
  BY <1>1, <1>2, SubSeqProperties
<1> HIDE DEF u, n
<1>4. DOMAIN u = 1..Len(u) /\ Len(u) <= n
  BY <1>1, <1>3, LenProperties
<1>5. DOMAIN u \subseteq DOMAIN windows
  BY <1>1, <1>3, <1>4
<1> QED
  BY <1>3, <1>5 DEF u, n

\* Every step keeps the invariant.
LEMMA NextStep == IInv /\ [Next]_vars => IInv'
<1> SUFFICES ASSUME IInv, [Next]_vars PROVE IInv'
  OBVIOUS
<1>1. TypeOK /\ Off /\ Shown
  BY DEF IInv
<1>2. ASSUME Idle, NEW when, NEW timer, NEW conversational,
             Add(when, timer, conversational),
             conversing' = conversing, windows' \in Seq(Alarm)
      PROVE  IInv'
  <2>1. CASE AddAlarm(when, timer, conversational)
    BY <1>2, <2>1, AddStep
  <2>2. CASE AddFails
    <3>1. shown # {} => conversing
      BY <1>1 DEF Shown
    <3>2. running /\ shown' = shown /\ conversing' \in BOOLEAN
      BY <1>1, <1>2, <2>2 DEF Idle, AddFails, TypeOK
    <3>3. UNCHANGED <<now, service, due, running, alarms, flash, todo,
                      misfortunes>>
      BY <2>2 DEF AddFails
    <3> QED
      BY <1>2, <3>1, <3>2, <3>3, ScreenStep
  <2> QED
    BY <1>2, <2>1, <2>2 DEF Add
<1>3. ASSUME NEW t \in Time, NEW k \in BOOLEAN, SetAlarmRequest(t, k)
      PROVE  IInv'
  BY <1>1, <1>2, <1>3 DEF SetAlarmRequest, screen, TypeOK
<1>4. ASSUME NEW t \in Time, CancelAlarm(t) PROVE IInv'
  <2>1. PICK i \in DOMAIN alarms : RemoveAlarm(i, "cancelled")
    BY <1>4 DEF CancelAlarm
  <2>2. "cancelled" \in Fate \ {"pending"} /\ Saved /\ running
    BY <1>4, IdleIsSaved DEF Fate, CancelAlarm
  <2>3. /\ todo' = SavePlan(alarms')
        /\ due' = due /\ windows' \in Seq(Alarm)
        /\ UNCHANGED <<now, running, conversing, flash, misfortunes>>
    BY <1>1, <1>4 DEF CancelAlarm, screen, TypeOK
  <2> QED
    BY <2>1, <2>2, <2>3, RemoveStep
<1>5. ASSUME NEW k \in BOOLEAN, CancelFirst(k) PROVE IInv'
  <2>1. PICK i \in DOMAIN alarms : RemoveAlarm(i, "cancelled")
    BY <1>5 DEF CancelFirst
  <2>2. "cancelled" \in Fate \ {"pending"} /\ Saved /\ running /\ todo = <<>>
    BY <1>5, IdleIsSaved DEF Fate, CancelFirst
  <2>3. /\ todo' = <<>>
        /\ due' = due /\ windows' \in Seq(Alarm)
        /\ UNCHANGED <<now, running, conversing, flash, misfortunes>>
    BY <1>1, <1>5, <2>2 DEF CancelFirst, screen, TypeOK
  <2> QED
    BY <2>1, <2>2, <2>3, RemoveStep
<1>6. ASSUME Snooze PROVE IInv'
  <2>1. windows' \in Seq(Alarm)
    BY <1>1, <1>6, TopGoes DEF Snooze
  <2> QED
    BY <1>2, <1>6, <2>1 DEF Snooze
<1>7. ASSUME Dismiss \/ OpenConversation \/ CloseConversation PROVE IInv'
  <2>1. UNCHANGED <<now, service, due, running, alarms, flash, todo,
                    misfortunes>> /\ running
    BY <1>7 DEF Dismiss, OpenConversation, CloseConversation, Idle
  <2>2. windows' \in Seq(Alarm)
    BY <1>1, <1>7, TopGoes DEF Dismiss, OpenConversation, CloseConversation, TypeOK
  <2>3. conversing' \in BOOLEAN
    BY <1>1, <1>7 DEF Dismiss, OpenConversation, CloseConversation, TypeOK
  <2>4. \/ shown' = shown /\ (shown # {} => conversing')
        \/ shown' = {}
    BY <1>1, <1>7 DEF Dismiss, OpenConversation, CloseConversation, Shown
  <2> QED
    BY <2>1, <2>2, <2>3, <2>4, ScreenStep
<1>8. ASSUME Write PROVE IInv'
  BY <1>8, WriteStep
<1>9. ASSUME NEW e \in scheduled, Fire(e) PROVE IInv'
  BY <1>9, FireStep
<1>10. ASSUME NEW e \in scheduled, LaunchByWakeup(e) PROVE IInv'
  <2>1. /\ ~running /\ running' = TRUE
        /\ Load({e.id}, scheduled \ {e}, <<"maybe_alarm">>)
        /\ UNCHANGED <<now, fate, screen, shown, flash, misfortunes>>
    BY <1>10 DEF LaunchByWakeup
  <2>2. Launched({e.id}, scheduled \ {e}, <<"maybe_alarm">>)
    BY <1>10 DEF LaunchByWakeup, Launched
  <2> QED
    BY <2>1, <2>2, LoadStep
<1>11. ASSUME NEW e \in scheduled, Miss(e) PROVE IInv'
  BY <1>11, MissStep
<1>12. ASSUME WakeupHandler PROVE IInv'
  BY <1>12, IdleIsSaved, RingStep DEF WakeupHandler
<1>13. ASSUME MaybeAlarm PROVE IInv'
  BY <1>13, IdleIsSaved, RingStep DEF MaybeAlarm
<1>14. ASSUME Launch PROVE IInv'
  <2>1. /\ ~running /\ running' = TRUE
        /\ Load({}, scheduled, <<>>)
        /\ UNCHANGED <<now, fate, screen, shown, flash, misfortunes>>
    BY <1>14 DEF Launch
  <2>2. Launched({}, scheduled, <<>>)
    BY <1>14 DEF Launch, Launched
  <2> QED
    BY <2>1, <2>2, LoadStep
<1>15. ASSUME Exit PROVE IInv'
  BY <1>15, EndsStep DEF Exit, Idle
<1>16. ASSUME Kill PROVE IInv'
  BY <1>16, EndsStep DEF Kill
<1>17. ASSUME Tick PROVE IInv'
  BY <1>17, TickStep
<1>18. ASSUME UNCHANGED vars PROVE IInv'
  <2>1. UNCHANGED <<now, scheduled, fate, due, running, alarms, windows,
                    conversing, shown, flash, todo, kills, misses>>
    BY <1>18 DEF vars, service, screen, misfortunes
  <2> QED
    BY <2>1 DEF IInv, TypeOK, Off, Columns, Saving, Progress, Room, Known,
                Wakeups, Memory, Timely, NoneLost, Shown, Due, AlarmIds, Saved,
                Written, StoredAlarms, Stored, HasOne, HasTimes, HasIds,
                HasTimers, HasTwo, OldOne, OldTimes, OldIds, OldTimers
<1> QED
  BY <1>3, <1>4, <1>5, <1>6, <1>7, <1>8, <1>9, <1>10, <1>11, <1>12, <1>13,
     <1>14, <1>15, <1>16, <1>17, <1>18 DEF Next

\* The invariant behind all that is proved: the array of manager.c, the wakeup
\* service and the flash keys, however far a save has come, fit together.
THEOREM InductiveInvariant == Spec => []IInv
<1>1. Init => IInv
  BY InitHolds
<1>2. IInv /\ [Next]_vars => IInv'
  BY NextStep
<1> QED
  BY <1>1, <1>2, PTL DEF Spec

-----------------------------------------------------------------------------
(* What follows.                                                           *)

\* Every variable keeps its type, for any number of alarms and wakeups: the array
\* of manager.c, the flash keys and the steps of a save.
THEOREM TypeCorrect == Spec => []TypeOK
<1>1. IInv => TypeOK
  BY DEF IInv
<1> QED
  BY <1>1, InductiveInvariant, PTL

\* The invariant implies that the three stores agree.
LEMMA Agreement == IInv => StoresAgree
<1> SUFFICES ASSUME IInv PROVE StoresAgree
  OBVIOUS
<1>1. NoOrphans
  BY DEF IInv, Wakeups, NoOrphans
<1>2. ASSUME kills = 0, Idle \/ ~running, NEW id \in DOMAIN fate,
             fate[id] = "pending"
      PROVE  /\ id \in Ids(scheduled) \union Due
             /\ running => \E i \in DOMAIN alarms :
                   /\ alarms[i].id = id
                   /\ \A e \in scheduled : e.id = id => e.time = alarms[i].time
             /\ ~running => \E a \in StoredAlarms :
                   a.id = id /\ [id |-> id, time |-> a.time] \in scheduled
  <2>1. CASE running
    <3>1. PICK i \in DOMAIN alarms : alarms[i].id = id
      BY <1>2, <2>1 DEF IInv, NoneLost, AlarmIds
    <3>2. id \in Ids(scheduled) \union Due
      BY <1>2, <3>1 DEF IInv, Memory
    <3>3. \A e \in scheduled : e.id = id => e.time = alarms[i].time
      BY <1>2, <3>1 DEF IInv, Timely
    <3> QED
      BY <2>1, <3>1, <3>2, <3>3
  <2>2. CASE ~running
    <3>1. PICK a \in StoredAlarms :
             a.id = id /\ [id |-> id, time |-> a.time] \in scheduled
      BY <1>2, <2>2 DEF IInv, NoneLost
    <3>2. id \in Ids(scheduled)
      BY <3>1 DEF Ids
    <3> QED
      BY <2>2, <3>1, <3>2
  <2> QED
    BY <2>1, <2>2
<1> QED
  BY <1>1, <1>2 DEF StoresAgree, NoSilentLoss

\* Memory, flash and the wakeup service agree between two callbacks and while the
\* app does not run, although CANCEL_ALARM_TIME of 0, the wakeup handler and
\* alarm_manager_maybe_alarm() remove an alarm without prv_save_alarms().
THEOREM StoresAlwaysAgree == Spec => []StoresAgree
<1> QED
  BY Agreement, InductiveInvariant, PTL

\* It implies what one kill leaves intact.
LEMMA Survival == IInv => SurvivesKill
<1> SUFFICES ASSUME IInv, kills <= 1 PROVE Ascending /\ Durable /\ Armed
  BY DEF SurvivesKill
<1>1. Ascending
  <2>1. \A i \in DOMAIN alarms : i \in Int
    BY LenProperties DEF IInv, TypeOK
  <2> QED
    BY <2>1 DEF IInv, Memory, Timely, Room, Ascending
<1>2. Durable
  BY IdleIsSaved DEF Durable, Saved
<1>3. Armed
  BY DEF IInv, Memory, Armed
<1> QED
  BY <1>1, <1>2, <1>3

\* After one kill between any two flash writes of prv_save_alarms() the array is
\* still in order, every alarm in it has its wakeup, and flash has it all.
THEOREM AlarmsSurviveAKill == Spec => []SurvivesKill
<1> QED
  BY Survival, InductiveInvariant, PTL

\* What the open conversation shows as set and still to come, the manager has:
\* conversation_manager_handle_alarm_deleted() was told of all that went.
THEOREM ConversationIsTruthful == Spec => []ConversationTruthful
<1>1. IInv => ConversationTruthful
  BY DEF IInv, Shown, ConversationTruthful
<1> QED
  BY <1>1, InductiveInvariant, PTL

\* Alarm windows come only from an alarm that rings.
LEMMA WindowsStep ==
    ASSUME IInv, [Next]_vars
    PROVE  \/ DOMAIN windows' \subseteq DOMAIN windows
           \/ /\ Saved /\ due # <<>>
              /\ \E i \in DOMAIN alarms :
                    /\ alarms[i].id = Head(due)
                    /\ windows' = Append(windows, alarms[i])
<1> DEFINE Fewer == DOMAIN windows' \subseteq DOMAIN windows
<1>1. TypeOK
  BY DEF IInv
<1>2. ASSUME windows' = windows PROVE Fewer
  BY <1>2
<1>3. ASSUME windows # <<>>, windows' = SubSeq(windows, 1, Len(windows) - 1)
      PROVE  Fewer
  BY <1>1, <1>3, TopGoes
<1>4. ASSUME AppEnds PROVE Fewer
  <2>1. DOMAIN <<>> = {}
    OBVIOUS
  <2> QED
    BY <1>4, <2>1 DEF AppEnds
<1>5. ASSUME RingNext, Saved
      PROVE  \/ Fewer
             \/ /\ Saved /\ due # <<>>
                /\ \E i \in DOMAIN alarms :
                      /\ alarms[i].id = Head(due)
                      /\ windows' = Append(windows, alarms[i])
  BY <1>2, <1>5 DEF RingNext
<1>6. ASSUME \/ \E t \in Time, k \in BOOLEAN : SetAlarmRequest(t, k)
             \/ \E t \in Time : CancelAlarm(t)
             \/ \E k \in BOOLEAN : CancelFirst(k)
             \/ OpenConversation
             \/ CloseConversation
             \/ Write
             \/ \E e \in scheduled : Fire(e) \/ LaunchByWakeup(e) \/ Miss(e)
             \/ Launch
             \/ Tick
             \/ UNCHANGED vars
      PROVE  Fewer
  <2>1. windows' = windows
    BY <1>6 DEF SetAlarmRequest, CancelAlarm, CancelFirst, OpenConversation,
                CloseConversation, Write, Fire, LaunchByWakeup, Miss, Launch,
                Tick, vars, screen
  <2> QED
    BY <1>2, <2>1
<1>7. ASSUME Snooze \/ Dismiss PROVE Fewer
  BY <1>3, <1>7 DEF Snooze, Dismiss
<1>8. ASSUME Exit \/ Kill PROVE Fewer
  BY <1>4, <1>8 DEF Exit, Kill
<1>9. WakeupHandler \/ MaybeAlarm => RingNext /\ Saved
  BY IdleIsSaved DEF WakeupHandler, MaybeAlarm
<1> QED
  BY <1>5, <1>6, <1>7, <1>8, <1>9 DEF Next

\* What comes on the screen with a step is an alarm whose time has come, unless
\* the app was killed, and that never rang, unless it was killed twice.
LEMMA RingsOnceStep ==
    ASSUME IInv, [Next]_vars, NEW i \in DOMAIN windows', i \notin DOMAIN windows
    PROVE  /\ kills = 0 => windows'[i].time <= now
           /\ kills <= 1 => fate[windows'[i].id] = "pending"
<1>1. PICK j \in DOMAIN alarms : /\ alarms[j].id = Head(due)
                                 /\ windows' = Append(windows, alarms[j])
                                 /\ due # <<>>
  BY WindowsStep
<1>2. windows \in Seq(Alarm) /\ alarms[j] \in Alarm
  BY LenProperties, ElementOfSeq DEF IInv, TypeOK
<1>3. /\ windows' \in Seq(Alarm) /\ Len(windows') = Len(windows) + 1
      /\ windows'[Len(windows) + 1] = alarms[j]
      /\ Len(windows) \in Nat
      /\ DOMAIN windows = 1..Len(windows)
      /\ DOMAIN windows' = 1..Len(windows')
  BY <1>1, <1>2, AppendProperties, LenProperties
<1>4. i = Len(windows) + 1
  BY <1>3
<1>5. alarms[j].id \in Due
  <2>1. due \in Seq(WakeupId) /\ Len(due) \in Nat \ {0} /\ DOMAIN due = 1..Len(due)
    BY <1>1, EmptySeq, LenProperties DEF IInv, TypeOK
  <2>2. Head(due) = due[1] /\ 1 \in DOMAIN due
    BY <2>1
  <2> QED
    BY <1>1, <2>2 DEF Due
<1> QED
  BY <1>3, <1>4, <1>5 DEF IInv, Memory, Timely

\* prv_wakeup_handler() and alarm_manager_maybe_alarm() ring an alarm once, and
\* no earlier than its time.
THEOREM AlarmsRingOnce == Spec => RingsOnce
<1>1. IInv /\ [Next]_vars =>
        [\A i \in DOMAIN windows' : i \notin DOMAIN windows =>
            /\ kills = 0 => windows'[i].time <= now
            /\ kills <= 1 => fate[windows'[i].id] = "pending"]_vars
  BY RingsOnceStep
<1> QED
  BY <1>1, InductiveInvariant, PTL DEF Spec, RingsOnce

-----------------------------------------------------------------------------
(* The menus on top of the manager.                                        *)

\* prv_cancel_alarm() asks of the manager what the phone may ask of it too.
LEMMA MenuStepIsManagers == IInv /\ [MenuNext]_menuVars => [Next]_vars
<1> SUFFICES ASSUME IInv, [MenuNext]_menuVars, ~UNCHANGED vars PROVE Next
  OBVIOUS
<1>1. CASE Delete
  <2>1. PICK i \in DOMAIN alarms : CancelAlarm(alarms[i].time)
    BY <1>1 DEF Delete
  <2>2. alarms[i].time \in Time
    <3>1. alarms[i] \in Alarm
      BY ElementOfSeq, LenProperties DEF IInv, TypeOK
    <3> QED
      BY <3>1 DEF Alarm
  <2> QED
    BY <2>1, <2>2 DEF Next
<1>2. CASE \/ \E timers \in BOOLEAN : OpenMenu(timers)
           \/ CloseMenu
           \/ \E row \in 1..MAX_ALARMS : SelectRow(row)
           \/ Back
           \/ MenuTick
  BY <1>2 DEF OpenMenu, CloseMenu, SelectRow, Back, MenuTick
<1>3. CASE UNCHANGED menuVars
  BY <1>3 DEF menuVars
<1>4. CASE Next /\ Reacts
  BY <1>4
<1> QED
  BY <1>1, <1>2, <1>3, <1>4 DEF MenuNext

\* So the manager's invariant holds under the menus.
LEMMA ManagersInvariant == MenuSpec => []IInv
<1>1. MenuInit => IInv
  BY InitHolds DEF MenuInit
<1>2. IInv /\ [MenuNext]_menuVars => IInv'
  BY MenuStepIsManagers, NextStep
<1> QED
  BY <1>1, <1>2, PTL DEF MenuSpec

\* The menus do nothing to alarms that the manager's handlers would not do, so
\* that all that is proved of the manager holds under them.
THEOREM MenuKeepsToManager == MenuSpec => Spec
<1>1. MenuInit => Init
  BY DEF MenuInit
<1> QED
  BY <1>1, MenuStepIsManagers, ManagersInvariant, PTL DEF MenuSpec, Spec

\* The manager has at most as many alarms of a kind as it has room.
LEMMA RowCountBound ==
    ASSUME NEW s \in Seq(Alarm), Len(s) <= MAX_ALARMS, NEW timers \in BOOLEAN
    PROVE  RowCount(s, timers) \in 0..MAX_ALARMS
<1>1. Len(s) \in Nat /\ DOMAIN s = 1..Len(s) /\ MAX_ALARMS \in Nat
  BY LenProperties, AlarmAssumption
<1>2. IsFiniteSet(1..Len(s)) /\ Cardinality(1..Len(s)) = Len(s)
  <2>1. /\ IsFiniteSet(1..Len(s))
        /\ Cardinality(1..Len(s)) = IF 1 > Len(s) THEN 0 ELSE Len(s) - 1 + 1
    BY <1>1, FS_Interval, 1 \in Int, Len(s) \in Int
  <2> QED
    BY <1>1, <2>1
<1>3. Relevant(s, timers) \subseteq 1..Len(s)
  BY <1>1 DEF Relevant
<1>4. /\ IsFiniteSet(Relevant(s, timers))
      /\ Cardinality(Relevant(s, timers)) <= Cardinality(1..Len(s))
  BY <1>2, <1>3, FS_Subset
<1>5. Cardinality(Relevant(s, timers)) \in Nat
  BY <1>4, FS_CardinalityType
<1> QED
  BY <1>1, <1>2, <1>4, <1>5 DEF RowCount

\* The types of the menu's own variables.
MenuTypes ==
    /\ open \in BOOLEAN
    /\ forTimers \in BOOLEAN
    /\ rows \in 0..MAX_ALARMS
    /\ empty \in BOOLEAN
    /\ selected \in 1..MAX_ALARMS
    /\ deleting \in BOOLEAN

\* prv_window_appear() and the deletion reload the rows of any array there is
\* room for.
LEMMA AppearTypes ==
    ASSUME MenuTypes, NEW s \in Seq(Alarm), Len(s) <= MAX_ALARMS,
           ReloadOrEmpty(s) \/ Appear(s) \/ Reload(s)
    PROVE  /\ rows' \in 0..MAX_ALARMS
           /\ empty' \in BOOLEAN
           /\ selected' \in 1..MAX_ALARMS
<1>1. RowCount(s, forTimers) \in 0..MAX_ALARMS
  BY RowCountBound DEF MenuTypes
<1>2. CASE Reload(s)
  <2>1. rows' \in 0..MAX_ALARMS /\ empty' \in BOOLEAN
    BY <1>1, <1>2 DEF Reload, MenuTypes
  <2>2. selected' \in {rows', selected} /\ (selected' # selected => rows' > 0)
    BY <1>2 DEF Reload
  <2> QED
    BY <2>1, <2>2, AlarmAssumption DEF MenuTypes
<1>3. CASE ShowEmpty
  BY <1>3 DEF ShowEmpty, MenuTypes
<1>4. CASE UNCHANGED <<rows, empty, selected>>
  BY <1>4 DEF MenuTypes
<1> QED
  BY <1>2, <1>3, <1>4 DEF ReloadOrEmpty, Appear

\* Each step of a menu, or under it, keeps them.
LEMMA MenuTypesStep ==
    ASSUME IInv, IInv', MenuTypes, [MenuNext]_menuVars
    PROVE  MenuTypes'
<1>1. /\ alarms \in Seq(Alarm) /\ Len(alarms) <= MAX_ALARMS
      /\ alarms' \in Seq(Alarm) /\ Len(alarms') <= MAX_ALARMS
      /\ 1 \in 1..MAX_ALARMS
  BY AlarmAssumption DEF IInv, TypeOK, Room
<1>2. ASSUME NEW timers \in BOOLEAN, OpenMenu(timers) PROVE MenuTypes'
  <2>1. rows' \in 0..MAX_ALARMS
    BY <1>1, <1>2, RowCountBound DEF OpenMenu
  <2> QED
    BY <1>1, <1>2, <2>1 DEF OpenMenu, MenuTypes
<1>3. ASSUME CloseMenu PROVE MenuTypes'
  BY <1>3 DEF CloseMenu, MenuTypes
<1>4. ASSUME NEW row \in 1..MAX_ALARMS, SelectRow(row) PROVE MenuTypes'
  BY <1>4 DEF SelectRow, MenuTypes
<1>5. ASSUME Delete PROVE MenuTypes'
  <2>1. ReloadOrEmpty(alarms') \/ Appear(alarms)
    BY <1>5 DEF Delete
  <2>2. /\ rows' \in 0..MAX_ALARMS
        /\ empty' \in BOOLEAN
        /\ selected' \in 1..MAX_ALARMS
    BY <1>1, <2>1, AppearTypes
  <2> QED
    BY <1>5, <2>2 DEF Delete, MenuTypes
<1>6. ASSUME Back PROVE MenuTypes'
  <2>1. /\ rows' \in 0..MAX_ALARMS
        /\ empty' \in BOOLEAN
        /\ selected' \in 1..MAX_ALARMS
    BY <1>1, <1>6, AppearTypes DEF Back
  <2> QED
    BY <1>6, <2>1 DEF Back, MenuTypes
<1>7. ASSUME MenuTick PROVE MenuTypes'
  <2>1. /\ rows' \in 0..MAX_ALARMS
        /\ empty' \in BOOLEAN
        /\ selected' \in 1..MAX_ALARMS
    BY <1>1, <1>7, AppearTypes DEF MenuTick
  <2> QED
    BY <1>7, <2>1 DEF MenuTick, MenuTypes
<1>8. ASSUME Reacts PROVE MenuTypes'
  <2>1. UNCHANGED <<rows, empty, selected>> \/ Appear(alarms')
    BY <1>8 DEF Reacts
  <2>2. /\ rows' \in 0..MAX_ALARMS
        /\ empty' \in BOOLEAN
        /\ selected' \in 1..MAX_ALARMS
    BY <1>1, <2>1, AppearTypes DEF MenuTypes
  <2> QED
    BY <1>8, <2>2 DEF Reacts, MenuTypes
<1>9. ASSUME UNCHANGED menuVars PROVE MenuTypes'
  BY <1>9 DEF menuVars, menu, MenuTypes
<1> QED
  BY <1>2, <1>3, <1>4, <1>5, <1>6, <1>7, <1>8, <1>9 DEF MenuNext

\* The menu's rows are never more than there is room for alarms, and a row that
\* can be selected is one of them, while alarms come and go under the menu.
THEOREM MenuTypeCorrect == MenuSpec => []MenuTypeOK
<1>1. MenuInit => MenuTypes
  <2>1. 1 \in 1..MAX_ALARMS /\ 0 \in 0..MAX_ALARMS
    BY AlarmAssumption
  <2> QED
    BY <2>1, Zenon DEF MenuInit, MenuTypes
<1>2. IInv /\ MenuTypes => MenuTypeOK
  BY DEF IInv, MenuTypes, MenuTypeOK
<1> QED
  BY <1>1, <1>2, ManagersInvariant, MenuTypesStep, PTL DEF MenuSpec

\* Delete cancels one alarm, the one in the selected row, before any kill.
LEMMA DeleteStep ==
    ASSUME IInv
    PROVE  DeletesItsKind
<1> SUFFICES ASSUME kills = 0, Delete, NEW i \in DOMAIN alarms,
                    fate'[alarms[i].id] = "cancelled"
             PROVE  alarms[i].timer = forTimers
  BY DEF DeletesItsKind
<1>1. fate[alarms[i].id] = "pending" /\ alarms[i].id \in DOMAIN fate
  BY DEF IInv, Memory, Known
<1>2. ~UNCHANGED vars
  BY <1>1 DEF vars, service
<1>3. PICK j \in DOMAIN alarms : InRow(j, selected) /\ CancelAlarm(alarms[j].time)
  BY <1>2 DEF Delete
<1>4. PICK k \in DOMAIN alarms : /\ alarms[k].time = alarms[j].time
                                 /\ RemoveAlarm(k, "cancelled")
  BY <1>3 DEF CancelAlarm
<1>5. k = j
  BY <1>4 DEF IInv, Timely
<1>6. fate' = [fate EXCEPT ![alarms[k].id] = "cancelled"]
  BY <1>4 DEF RemoveAlarm
<1>7. alarms[i].id = alarms[k].id
  BY <1>1, <1>6
<1>8. i = k
  <2>1. i \in Nat /\ k \in Nat
    BY LenProperties DEF IInv, TypeOK
  <2>2. i < k \/ k < i \/ i = k
    BY <2>1
  <2> QED
    BY <1>7, <2>2 DEF IInv, Memory
<1> QED
  BY <1>3, <1>5, <1>8 DEF InRow, Relevant

\* The timer menu that an alarm covered is reloaded when it appears again.
LEMMA FreshStep ==
    ASSUME [MenuNext]_menuVars
    PROVE  TimerMenuFresh
<1> SUFFICES ASSUME open, ~deleting, windows # <<>>, windows' = <<>>, running',
                    forTimers
             PROVE  empty' \/ rows' = RowCount(alarms', TRUE)
  BY DEF TimerMenuFresh, Uncovered
<1>1. Reacts
  BY DEF MenuNext, OpenMenu, CloseMenu, SelectRow, Delete, Back, MenuTick,
         OnTop, menuVars, vars, screen
<1>2. Appear(alarms')
  BY <1>1 DEF Reacts, Uncovered
<1>3. ReloadOrEmpty(alarms')
  BY <1>2 DEF Appear
<1>4. CASE ShowEmpty
  BY <1>4 DEF ShowEmpty
<1>5. CASE Reload(alarms')
  BY <1>5 DEF Reload, RowCount, Relevant
<1> QED
  BY <1>3, <1>4, <1>5 DEF ReloadOrEmpty

\* However alarms come and go under a menu, Delete never cancels one of the
\* other kind, though all it hands to the manager is a time, and the timer menu
\* shows after an alarm as many rows as there are timers.
THEOREM MenusAreSound == MenuSpec => MenuSound
<1>1. IInv /\ [MenuNext]_menuVars => [DeletesItsKind /\ TimerMenuFresh]_menuVars
  BY DeleteStep, FreshStep
<1> QED
  BY <1>1, ManagersInvariant, PTL DEF MenuSpec, MenuSound

=============================================================================
