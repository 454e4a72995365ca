--------------------------- MODULE RemindersProofs ---------------------------
(***************************************************************************)
(* Proofs about Reminders for any number of reminders, menus and messages: *)
(* what can be wrong with a menu or with the timeline has one of the       *)
(* reasons that RemindersExplained names.                                  *)
(***************************************************************************)
EXTENDS Reminders, SequenceTheorems, FiniteSetTheorems, TLAPS

-----------------------------------------------------------------------------
(* The inductive invariant.                                                *)

\* What the phone may have in its outbox.
Item == {m \in Delivery : /\ m.left \in Seq(made) /\ Len(m.left) <= MaxTime
                          /\ Ascending(m.left)
                          /\ m.count \/ m.left # <<>>
                          /\ m.of <= opens}

\* What the watch may have in its outbox.
Asked == {m \in Message : m.erase \in {0} \union made /\ m.of <= opens}

Stores ==
    /\ now \in 0..MaxTime
    /\ stored \subseteq made
    /\ made \subseteq Reminder
    /\ pins \subseteq made \intersect Followed
    /\ requests \subseteq {"PUT", "DELETE"} \X (made \intersect Followed)

Wired ==
    /\ toPhone \in Seq(Asked) /\ Len(toPhone) <= 1
    /\ outbox \in Seq(Item)

Holds ==
    /\ open \in BOOLEAN
    /\ opens \in 0..MaxOpens
    /\ view \in {"loading", "list", "empty"}
    /\ capacity \in 0..MaxTime
    /\ rows \in Seq(made) /\ Len(rows) <= MaxTime
    /\ capacity > 0 => Len(rows) <= capacity
    /\ drawn \in 0..MaxTime
    /\ picked \in {0} \union made
    /\ open => opens > 0

\* A menu that has heard nothing yet.
Fresh == rows = <<>> /\ capacity = 0 /\ view = "loading"

\* A reminder is picked in a menu that has loaded.
Picked ==
    /\ picked # 0 => open /\ view # "loading"
    /\ ~open => Fresh

\* The count and the item of the transfer to a menu in the outbox b.
CountAt(b, of, i) == b[i].count /\ b[i].of = of

ItemAt(b, of, i) == ~b[i].count /\ b[i].of = of

\* What is left of the transfer to the last menu: its count, if it is still to
\* come, is behind all others and before its only item.
Chain(b, of) ==
    /\ \A i, j \in DOMAIN b : CountAt(b, of, i) /\ b[j].count => j <= i
    /\ \A i, j \in DOMAIN b : ItemAt(b, of, i) /\ ItemAt(b, of, j) => i = j
    /\ \A i, j \in DOMAIN b : CountAt(b, of, i) /\ ItemAt(b, of, j) =>
          i < j /\ b[i].left = b[j].left
    /\ \A i \in DOMAIN b : CountAt(b, of, i) /\ b[i].left # <<>> =>
          \E j \in DOMAIN b : ItemAt(b, of, j)
    /\ \A i, j \in DOMAIN b : ItemAt(b, of, i) /\ b[j].count =>
          \E k \in DOMAIN b : CountAt(b, of, k)

\* Nothing is on its way while the list is asked for; a request of an earlier
\* menu kept the open one's from being sent.
Requesting ==
    open => \A i \in DOMAIN toPhone : toPhone[i].erase = 0 =>
               /\ \A j \in DOMAIN outbox : outbox[j].of # opens
               /\ toPhone[i].of # opens => unheard

\* A menu that loads has what will end the loading still before it.
Loading ==
    open /\ view = "loading" =>
        \/ unheard
        \/ \E i \in DOMAIN toPhone : toPhone[i].erase = 0
        \/ \E i \in DOMAIN outbox : CountAt(outbox, opens, i)
        \/ /\ Len(rows) < capacity
           /\ \E i \in DOMAIN outbox :
                 /\ ItemAt(outbox, opens, i)
                 /\ Len(outbox[i].left) >= capacity - Len(rows)

\* A list that no other transfer touched: until the count comes there is
\* nothing; then rows and items to come make up one list in order.
Unmixed ==
    open /\ ~mixed =>
        /\ \A i \in DOMAIN toPhone : toPhone[i].erase = 0 => Fresh
        /\ \A i \in DOMAIN outbox : CountAt(outbox, opens, i) => Fresh
        /\ capacity = 0 => rows = <<>> /\ view # "list"
        /\ view = "list" => drawn <= Len(rows) /\ rows # <<>>
        /\ ~repeated =>
              /\ \A i \in DOMAIN outbox :
                    ItemAt(outbox, opens, i) /\ capacity > 0 =>
                       /\ view = "loading"
                       /\ Len(rows) + Len(outbox[i].left) = capacity
                       /\ Ascending(rows)
                       /\ \A j \in DOMAIN rows, k \in DOMAIN outbox[i].left :
                             rows[j] < outbox[i].left[k]
              /\ view = "list" => drawn = Len(rows) /\ Ascending(rows)

Menu ==
    /\ Picked
    /\ open => Chain(outbox, opens)
    /\ Requesting /\ Loading /\ Unmixed

\* A deletion the phone did not hear of.
Erased ==
    \A r \in erased :
        /\ r # 0
        /\ \/ \E i \in DOMAIN toPhone : toPhone[i].erase = r
           \/ untold

\* Of a reminder that is gone the timeline has or gets a pin only if its
\* removal failed, is on its way, or was not asked for as it had expired.
Pinned ==
    \A r \in made \ stored :
        r \in pins \/ <<"PUT", r>> \in requests =>
            r \in misfiled \/ r <= now \/ <<"DELETE", r>> \in requests

IInv == Stores /\ Wired /\ Holds /\ Menu /\ Erased /\ Pinned

\* It says what the runs check.
LEMMA Meaning == IInv => TypeOK /\ RemindersExplained
<1> SUFFICES ASSUME IInv PROVE TypeOK /\ RemindersExplained
  OBVIOUS
<1>1. TypeOK
  <2>1. toPhone \in Seq(Message) /\ outbox \in Seq(Delivery)
    <3>1. Asked \subseteq Message /\ Item \subseteq Delivery
      BY DEF Asked, Item
    <3> QED
      BY <3>1, SeqMonotonic DEF IInv, Wired
  <2>2. \A i \in DOMAIN outbox : outbox[i].count \/ outbox[i].left # <<>>
    BY LenProperties, ElementOfSeq DEF IInv, Wired, Item
  <2> QED
    BY <2>1, <2>2 DEF IInv, Wired, Stores, Holds, TypeOK
<1>2. open /\ view = "loading" /\ Silent => unheard
  <2>1. ASSUME outbox = <<>> PROVE DOMAIN outbox = {}
    BY <2>1
  <2> QED
    BY <2>1 DEF Silent, IInv, Menu, Loading
<1>3. open /\ view = "list" /\ ~mixed =>
          /\ drawn <= Len(rows) /\ rows # <<>>
          /\ ~repeated => drawn = Len(rows) /\ Ascending(rows)
  BY DEF IInv, Menu, Unmixed
<1>4. \A r \in erased : (\E i \in DOMAIN toPhone : toPhone[i].erase = r) \/ untold
  BY DEF IInv, Erased
<1>5. \A r \in pins \ stored :
          r \in misfiled \/ r <= now \/ <<"DELETE", r>> \in requests
  BY DEF IInv, Pinned, Stores
<1> QED
  BY <1>1, <1>2, <1>3, <1>4, <1>5 DEF RemindersExplained

\* Nothing is stored, and no menu is open.
LEMMA InitHolds == Init => IInv
<1> SUFFICES ASSUME Init PROVE IInv
  OBVIOUS
<1>1. DOMAIN toPhone = {} /\ DOMAIN outbox = {} /\ Len(toPhone) = 0 /\ Len(rows) = 0
  BY DEF Init
<1>2. toPhone \in Seq(Asked) /\ outbox \in Seq(Item) /\ rows \in Seq(made)
  BY EmptySeq DEF Init
<1>3. Stores /\ Wired /\ Holds
  <2>1. 0 \in 0..MaxTime /\ 0 \in 0..MaxOpens /\ 0 <= MaxTime
    BY RemindersAssumption
  <2>2. Stores
    BY <2>1 DEF Init, Stores
  <2>3. Wired
    BY <1>1, <1>2, 0 <= 1 DEF Wired
  <2>4. Holds
    BY <1>1, <1>2, <2>1, ~(0 > 0) DEF Init, Holds
  <2> QED
    BY <2>2, <2>3, <2>4
<1>4. Menu
  BY <1>1 DEF Init, Menu, Picked, Fresh, Requesting, Loading, Unmixed
<1>5. Erased /\ Pinned
  BY DEF Init, Erased, Pinned
<1> QED
  BY <1>3, <1>4, <1>5 DEF IInv

-----------------------------------------------------------------------------
(* The store and the timeline.                                             *)

\* What may be sent grows with what there ever was.
LEMMA WiredGrows ==
    ASSUME IInv, made \subseteq made', opens' \in Nat, opens <= opens'
    PROVE  Seq(Asked) \subseteq Seq(Asked)' /\ Seq(Item) \subseteq Seq(Item)'
<1>1. Seq(made) \subseteq Seq(made')
  BY SeqMonotonic
<1>2. opens \in Nat
  BY RemindersAssumption DEF IInv, Holds
<1>3. Asked \subseteq Asked'
  <2> SUFFICES ASSUME NEW m \in Asked PROVE m \in Asked'
    OBVIOUS
  <2>1. m.of \in Nat
    BY RemindersAssumption DEF Asked, Message
  <2> QED
    BY <1>2, <2>1 DEF Asked
<1>4. Item \subseteq Item'
  <2> SUFFICES ASSUME NEW m \in Item PROVE m \in Item'
    OBVIOUS
  <2>1. m.of \in Nat
    BY RemindersAssumption DEF Item, Delivery
  <2> QED
    BY <1>1, <1>2, <2>1 DEF Item
<1> QED
  BY <1>3, <1>4, SeqMonotonic

\* The menu does not see what happens to the store.
LEMMA MenuSame ==
    ASSUME IInv, made \subseteq made', UNCHANGED <<wire, menu, faults>>
    PROVE  Wired' /\ Holds' /\ Menu'
<1>1. /\ UNCHANGED <<toPhone, outbox, open, opens, view, capacity, rows, drawn,
                     picked, unheard, mixed, repeated, untold>>
      /\ opens \in Nat
  BY RemindersAssumption DEF wire, menu, faults, IInv, Holds
<1>2. Wired'
  <2>1. Seq(Asked) \subseteq Seq(Asked)' /\ Seq(Item) \subseteq Seq(Item)'
    BY <1>1, WiredGrows
  <2> QED
    BY <1>1, <2>1 DEF IInv, Wired
<1>3. Holds'
  <2>1. Seq(made) \subseteq Seq(made')
    BY SeqMonotonic
  <2> QED
    BY <1>1, <2>1 DEF IInv, Holds
<1>4. Menu'
  BY <1>1 DEF IInv, Menu, Picked, Fresh, Chain, CountAt, ItemAt, Requesting,
              Loading, Unmixed
<1> QED
  BY <1>2, <1>3, <1>4

\* saveReminders() takes no deletion back that the phone did not hear of.
LEMMA StoreKeepsErased ==
    ASSUME Erased, NEW s, Store(s), UNCHANGED <<toPhone, untold>>
    PROVE  Erased'
BY DEF Erased, Store

\* Expired reminders are dropped.
LEMMA KeptFacts ==
    ASSUME IInv
    PROVE  /\ Kept \subseteq stored
           /\ \A r \in stored \ Kept : r <= now
<1>1. \A r \in stored : r \in Nat /\ now \in Nat
  BY RemindersAssumption DEF IInv, Stores, Reminder
<1> QED
  BY <1>1, RemindersAssumption DEF Kept

\* cleanupExpiredReminders(), in whatever asks for the list.
LEMMA CleanupStep ==
    ASSUME IInv, Store(Kept), UNCHANGED <<now, made, requests, timeline>>
    PROVE  Stores' /\ Pinned'
<1>1. UNCHANGED <<now, made, requests, pins, misfiled>> /\ stored' = Kept
  BY DEF timeline, Store
<1> QED
  BY <1>1, KeptFacts DEF IInv, Stores, Pinned

\* A reminder is new: none like it is on the timeline, or was ever removed.
LEMMA AddReminderStep == IInv /\ AddReminder => IInv'
<1> SUFFICES ASSUME IInv, AddReminder PROVE IInv'
  OBVIOUS
<1>1. PICK r \in Reminder \ made : /\ made' = made \union {r}
                                   /\ Store(Kept \union {r})
                                   /\ Requested("PUT", r)
  BY DEF AddReminder
<1>2. UNCHANGED <<now, pins, misfiled>> /\ stored' = Kept \union {r}
  BY <1>1 DEF AddReminder, timeline, Store
<1>3. Wired' /\ Holds' /\ Menu'
  BY <1>1, MenuSame DEF AddReminder
<1>4. Erased'
  BY <1>1, StoreKeepsErased DEF AddReminder, wire, faults, IInv
<1>5. requests' \subseteq requests \union {<<"PUT", r>>}
      /\ requests \subseteq requests' /\ (r \notin Followed => requests' = requests)
  BY <1>1 DEF Requested
<1>6. Stores'
  BY <1>1, <1>2, <1>5, KeptFacts DEF IInv, Stores
<1>7. Pinned'
  <2> SUFFICES ASSUME NEW q \in made' \ stored',
                      q \in pins' \/ <<"PUT", q>> \in requests'
               PROVE  q \in misfiled' \/ q <= now' \/ <<"DELETE", q>> \in requests'
    BY DEF Pinned
  <2>1. q \in made /\ q # r /\ q \notin Kept
    BY <1>1, <1>2
  <2>2. q \in pins \/ <<"PUT", q>> \in requests
    BY <1>2, <1>5, <2>1
  <2> QED
    BY <1>2, <1>5, <2>1, <2>2, KeptFacts DEF IInv, Pinned
<1> QED
  BY <1>3, <1>4, <1>6, <1>7 DEF IInv

\* deleteReminder(), for the assistant or the menu: what is stored is taken
\* from the timeline as well.
LEMMA EraseStep ==
    ASSUME IInv, NEW r, Erase(r), UNCHANGED <<now, timeline>>
    PROVE  Stores' /\ Pinned' /\ made' = made /\ erased' \subseteq erased \ {r}
<1>1. /\ UNCHANGED <<now, made, pins, misfiled>> /\ stored' = Kept \ {r}
      /\ erased' = erased \intersect (Kept \ {r})
  BY DEF Erase, timeline, Store
<1>2. /\ requests \subseteq requests'
      /\ requests' \subseteq requests \union {<<"DELETE", r>>}
      /\ r \notin Kept \/ r \notin Followed => requests' = requests
      /\ r \in Kept /\ r \in Followed => <<"DELETE", r>> \in requests'
  BY DEF Erase, Requested
<1>3. Stores'
  BY <1>1, <1>2, KeptFacts DEF IInv, Stores
<1>4. Pinned'
  <2> SUFFICES ASSUME NEW q \in made' \ stored',
                      q \in pins' \/ <<"PUT", q>> \in requests'
               PROVE  q \in misfiled' \/ q <= now' \/ <<"DELETE", q>> \in requests'
    BY DEF Pinned
  <2>1. q \in made /\ (q \in pins \/ <<"PUT", q>> \in requests)
    BY <1>1, <1>2
  <2>2. q \in Followed
    BY <2>1 DEF IInv, Stores
  <2>3. CASE q \in stored
    BY <1>1, <1>2, <2>2, <2>3, KeptFacts
  <2>4. CASE q \notin stored
    BY <1>1, <1>2, <2>1, <2>4 DEF IInv, Pinned
  <2> QED
    BY <2>3, <2>4
<1> QED
  BY <1>1, <1>3, <1>4

\* delete_reminder of the assistant.
LEMMA DeleteReminderStep == IInv /\ DeleteReminder => IInv'
<1> SUFFICES ASSUME IInv, DeleteReminder PROVE IInv'
  OBVIOUS
<1>1. PICK r \in made : Erase(r)
  BY DEF DeleteReminder
<1>2. Stores' /\ Pinned' /\ made' = made /\ erased' \subseteq erased
  BY <1>1, EraseStep DEF DeleteReminder
<1>3. Wired' /\ Holds' /\ Menu'
  BY <1>2, MenuSame DEF DeleteReminder
<1>4. Erased'
  BY <1>2 DEF DeleteReminder, wire, faults, IInv, Erased
<1> QED
  BY <1>2, <1>3, <1>4 DEF IInv

\* get_reminders of the assistant.
LEMMA GetRemindersStep == IInv /\ GetReminders => IInv'
<1> SUFFICES ASSUME IInv, GetReminders PROVE IInv'
  OBVIOUS
<1>1. Stores' /\ Pinned'
  BY CleanupStep DEF GetReminders
<1>2. Wired' /\ Holds' /\ Menu'
  BY MenuSame DEF GetReminders
<1>3. Erased'
  BY StoreKeepsErased DEF GetReminders, wire, faults, IInv
<1> QED
  BY <1>1, <1>2, <1>3 DEF IInv

\* The timeline serves a request, whichever was sent first, or it fails: what
\* it keeps of a reminder that is gone is known from then on.
LEMMA PinRequestStep ==
    ASSUME IInv, PinRequestServed \/ PinRequestFails
    PROVE  IInv'
<1>1. PICK q \in requests :
         /\ requests' = requests \ {q}
         /\ \/ /\ pins' = IF q[1] = "PUT" THEN pins \union {q[2]}
                           ELSE pins \ {q[2]}
               /\ misfiled' = IF q[1] = "DELETE" /\ <<"PUT", q[2]>> \in requests
                              THEN misfiled \union {q[2]} ELSE misfiled
            \/ /\ misfiled' = IF q[1] = "DELETE" THEN misfiled \union {q[2]}
                              ELSE misfiled
               /\ pins' = pins
  BY DEF PinRequestServed, PinRequestFails
<1>2. UNCHANGED <<now, stored, made, wire, menu, histories>>
  BY DEF PinRequestServed, PinRequestFails
<1>3. /\ q = <<q[1], q[2]>> /\ q[1] \in {"PUT", "DELETE"}
      /\ q[2] \in made \intersect Followed
  BY DEF IInv, Stores
<1>4. Wired' /\ Holds' /\ Menu'
  BY <1>2, MenuSame DEF histories
<1>5. Erased'
  BY <1>2 DEF histories, wire, faults, IInv, Erased
<1>6. Stores'
  BY <1>1, <1>2, <1>3 DEF IInv, Stores
<1>7. Pinned'
  <2> SUFFICES ASSUME NEW r \in made' \ stored',
                      r \in pins' \/ <<"PUT", r>> \in requests'
               PROVE  r \in misfiled' \/ r <= now' \/ <<"DELETE", r>> \in requests'
    BY DEF Pinned
  <2>1. r \in pins \/ <<"PUT", r>> \in requests
    BY <1>1, <1>3
  <2>2. \/ r \in misfiled \/ r <= now \/ <<"DELETE", r>> \in requests
    BY <1>2, <2>1 DEF IInv, Pinned
  <2>3. misfiled \subseteq misfiled'
    BY <1>1
  <2>4. CASE q = <<"DELETE", r>>
    <3>1. CASE pins' = pins
      BY <1>1, <2>4, <3>1
    <3>2. CASE pins' # pins \/ <<"PUT", r>> \in requests
      BY <1>1, <2>4, <3>2
    <3> QED
      BY <3>1, <3>2
  <2>5. CASE q # <<"DELETE", r>>
    BY <1>1, <1>2, <2>2, <2>3, <2>5
  <2> QED
    BY <2>4, <2>5
<1> QED
  BY <1>4, <1>5, <1>6, <1>7 DEF IInv

\* Time only lets reminders expire.
LEMMA TickStep == IInv /\ Tick => IInv'
<1> SUFFICES ASSUME IInv, Tick PROVE IInv'
  OBVIOUS
<1>1. UNCHANGED <<stored, made, requests, pins, wire, menu, histories>>
  BY DEF Tick, phone
<1>2. Wired' /\ Holds' /\ Menu'
  BY <1>1, MenuSame DEF histories
<1>3. Erased'
  BY <1>1 DEF histories, wire, faults, IInv, Erased
<1>4. Stores'
  <2>1. now' \in 0..MaxTime
    BY RemindersAssumption DEF Tick, IInv, Stores
  <2> QED
    BY <1>1, <2>1 DEF IInv, Stores
<1>5. Pinned'
  <2>1. \A r \in made : r \in Nat /\ now \in Nat
    BY RemindersAssumption DEF IInv, Stores, Reminder
  <2> QED
    BY <1>1, <2>1 DEF Tick, IInv, Pinned
<1> QED
  BY <1>2, <1>3, <1>4, <1>5 DEF IInv

-----------------------------------------------------------------------------
(* The phone's outbox.                                                     *)

\* A message is well-formed.
LEMMA ItemFacts ==
    ASSUME NEW m \in Item
    PROVE  /\ m \in Delivery /\ m.count \in BOOLEAN
           /\ m.left \in Seq(made) /\ Len(m.left) \in Nat
           /\ DOMAIN m.left = 1..Len(m.left)
           /\ Len(m.left) <= MaxTime /\ Ascending(m.left)
           /\ m.left = <<>> <=> Len(m.left) = 0
           /\ ~m.count => Len(m.left) >= 1
           /\ m.left # <<>> => Head(m.left) = m.left[1] /\ m.left[1] \in made
<1>1. /\ m \in Delivery /\ m.left \in Seq(made) /\ Len(m.left) <= MaxTime
      /\ Ascending(m.left) /\ (m.count \/ m.left # <<>>)
  BY DEF Item
<1>2. m.count \in BOOLEAN
  BY <1>1 DEF Delivery
<1>3. Len(m.left) \in Nat /\ DOMAIN m.left = 1..Len(m.left)
  BY <1>1, LenProperties
<1>4. (m.left = <<>> => Len(m.left) = 0) /\ (m.left # <<>> => Len(m.left) \in Nat \ {0})
  BY <1>1, EmptySeq
<1>5. m.left # <<>> => Head(m.left) = m.left[1] /\ m.left[1] \in made
  <2>1. m.left # <<>> => 1 \in 1..Len(m.left)
    BY <1>4
  <2> QED
    BY <1>1, <2>1, ElementOfSeq
<1> QED
  BY <1>1, <1>2, <1>3, <1>4, <1>5

\* What becomes of the first message m: nothing, or an item of its transfer
\* that goes to the end.
Rest(m, x) ==
    /\ x \in Seq(Item) /\ Len(x) <= 1
    /\ x # <<>> => ~m.count /\ ~x[1].count /\ x[1].of = m.of

Passed(b, x) == Tail(b) \o x

\* sendNextReminder(), called back with success.
LEMMA FollowingFacts ==
    ASSUME NEW m \in Item
    PROVE  /\ Rest(m, Following(m))
           /\ Following(m) = <<>> => m.count \/ Len(m.left) = 1
           /\ Following(m) # <<>> =>
                 /\ Len(m.left) > 1
                 /\ Following(m)[1].left = Tail(m.left)
<1>1. CASE m.count \/ Len(m.left) = 1
  <2>1. Following(m) = <<>>
    BY <1>1 DEF Following
  <2> QED
    BY <1>1, <2>1, EmptySeq DEF Rest
<1>2. CASE ~(m.count \/ Len(m.left) = 1)
  <2> DEFINE t == [m EXCEPT !.left = Tail(@)]
             x == <<t>>
  <2>1. Following(m) = x
    BY <1>2 DEF Following
  <2>0. /\ m \in Delivery /\ m.left \in Seq(made) /\ Len(m.left) \in Nat
        /\ DOMAIN m.left = 1..Len(m.left) /\ Len(m.left) <= MaxTime
        /\ Ascending(m.left) /\ (m.left = <<>> <=> Len(m.left) = 0)
        /\ ~m.count => Len(m.left) >= 1
    BY ItemFacts
  <2>2. ~m.count /\ Len(m.left) > 1 /\ m.left # <<>>
    <3> DEFINE k == Len(m.left)
    <3>1. ~m.count /\ k # 1
      BY <1>2
    <3>2. k \in Nat /\ k >= 1 /\ (m.left = <<>> <=> k = 0)
      BY <2>0, <3>1
    <3> HIDE DEF k
    <3>3. k > 1 /\ m.left # <<>>
      BY <3>1, <3>2
    <3> QED
      BY <3>1, <3>3 DEF k
  <2>3. /\ Tail(m.left) \in Seq(made) /\ Len(Tail(m.left)) = Len(m.left) - 1
        /\ \A i \in 1..Len(Tail(m.left)) : Tail(m.left)[i] = m.left[i + 1]
    BY <2>0, <2>2, HeadTailProperties
  <2>4. DOMAIN Tail(m.left) = 1..Len(Tail(m.left))
    BY <2>3, LenProperties
  <2>5. Ascending(Tail(m.left))
    <3> SUFFICES ASSUME NEW i \in DOMAIN Tail(m.left), NEW j \in DOMAIN Tail(m.left),
                        i < j
                 PROVE  Tail(m.left)[i] < Tail(m.left)[j]
      BY DEF Ascending
    <3>1. i + 1 \in 1..Len(m.left) /\ j + 1 \in 1..Len(m.left) /\ i + 1 < j + 1
      BY <2>0, <2>3, <2>4
    <3> QED
      BY <2>0, <2>3, <2>4, <3>1 DEF Ascending
  <2>6. t.left = Tail(m.left) /\ t.count = m.count /\ t.of = m.of
    BY <2>0 DEF Delivery
  <2>7. t \in Item
    <3> DEFINE k == Len(m.left)
               l == Tail(m.left)
    <3>1. Len(l) # 0 /\ Len(l) <= MaxTime
      <4>1. k \in Nat /\ k > 1 /\ k <= MaxTime /\ Len(l) = k - 1
        BY <2>0, <2>2, <2>3
      <4> HIDE DEF k, l
      <4> QED
        BY <4>1, RemindersAssumption
    <3>2. l # <<>>
      BY <3>1, EmptySeq
    <3>3. l \in Seq(Reminder)
      <4>1. m.left \in Seq(Reminder)
        BY <2>0 DEF Delivery
      <4> QED
        BY <2>2, <4>1, HeadTailProperties
    <3>4. t \in Delivery
      BY <2>0, <3>3 DEF Delivery
    <3>5. t.of <= opens
      BY <2>6 DEF Item
    <3> QED
      BY <2>3, <2>5, <2>6, <3>1, <3>2, <3>4, <3>5 DEF Item
  <2>8. x \in Seq(Item) /\ Len(x) = 1 /\ x[1] = t /\ x # <<>>
    BY <2>7
  <2> HIDE DEF t, x
  <2> QED
    BY <2>0, <2>1, <2>2, <2>6, <2>8 DEF Rest
<1> QED
  BY <1>1, <1>2

\* sendNextReminder(), called back with failure.
LEMMA RetriedFacts ==
    ASSUME NEW m \in Item
    PROVE  /\ Rest(m, Retried(m))
           /\ Retried(m) = <<>> => m.count
           /\ Retried(m) # <<>> => Retried(m)[1] = m
<1>1. CASE m.count
  BY <1>1, EmptySeq DEF Retried, Rest
<1>2. CASE ~m.count
  <2> DEFINE x == <<m>>
  <2>1. Retried(m) = x
    BY <1>2 DEF Retried
  <2>2. x \in Seq(Item) /\ Len(x) = 1 /\ x[1] = m /\ x # <<>>
    OBVIOUS
  <2> HIDE DEF x
  <2> QED
    BY <1>2, <2>1, <2>2 DEF Rest
<1> QED
  BY <1>1, <1>2

\* The first message is taken, and what is left of it put at the end.
LEMMA Moves ==
    ASSUME NEW b \in Seq(Item), b # <<>>, NEW x, Rest(b[1], x),
           NEW c, c = Passed(b, x)
    PROVE  /\ c \in Seq(Item)
           /\ Len(b) \in Nat \ {0} /\ Len(c) \in Nat
           /\ DOMAIN b = 1..Len(b) /\ DOMAIN c = 1..Len(c)
           /\ x = <<>> => Len(c) = Len(b) - 1
           /\ x # <<>> => Len(c) = Len(b) /\ c[Len(b)] = x[1]
           /\ \A i \in 1..Len(b) - 1 : c[i] = b[i + 1]
<1> DEFINE t == Tail(b)
           n == Len(b)
           h == Len(t)
           k == Len(x)
           l == Len(c)
<1>1. t \in Seq(Item) /\ h = n - 1 /\ \A i \in 1..h : t[i] = b[i + 1]
  BY HeadTailProperties
<1>2. x \in Seq(Item) /\ k <= 1
  BY DEF Rest
<1>3. k \in Nat /\ (x = <<>> => k = 0) /\ (x # <<>> => k # 0)
  BY <1>2, EmptySeq, LenProperties
<1>4. n \in Nat \ {0} /\ DOMAIN b = 1..n
  BY EmptySeq, LenProperties
<1>5. /\ c \in Seq(Item) /\ l = h + k
      /\ \A i \in 1..h + k : c[i] = IF i <= h THEN t[i] ELSE x[i - h]
  BY <1>1, <1>2, ConcatProperties DEF Passed
<1>6. l \in Nat /\ DOMAIN c = 1..l
  BY <1>5, LenProperties
<1> HIDE DEF t, n, h, k, l
<1>7. \A i \in 1..n - 1 : c[i] = b[i + 1]
  <2> SUFFICES ASSUME NEW i \in 1..n - 1 PROVE c[i] = b[i + 1]
    OBVIOUS
  <2>1. i \in 1..h + k /\ i <= h /\ i \in 1..h
    BY <1>1, <1>3, <1>4
  <2> QED
    BY <1>1, <1>5, <2>1
<1>8. x # <<>> => l = n /\ c[n] = x[1]
  <2> SUFFICES ASSUME x # <<>> PROVE l = n /\ c[n] = x[1]
    OBVIOUS
  <2>1. k = 1
    BY <1>2, <1>3
  <2>2. n \in 1..h + k /\ ~(n <= h) /\ n - h = 1
    BY <1>1, <1>4, <2>1
  <2>3. l = n
    BY <1>1, <1>4, <1>5, <2>1
  <2> QED
    BY <1>5, <2>2, <2>3
<1>9. x = <<>> => l = n - 1
  BY <1>1, <1>3, <1>4, <1>5
<1> QED
  BY <1>4, <1>5, <1>6, <1>7, <1>8, <1>9 DEF n, l

\* The messages behind the first keep their order; only an item comes after
\* them.
LEMMA Places ==
    ASSUME NEW b \in Seq(Item), b # <<>>, NEW x, Rest(b[1], x),
           NEW c, c = Passed(b, x)
    PROVE  /\ \A i \in DOMAIN b : i # 1 => i - 1 \in DOMAIN c /\ c[i - 1] = b[i]
           /\ \A i \in DOMAIN c :
                 \/ i + 1 \in DOMAIN b /\ c[i] = b[i + 1]
                 \/ i = Len(b) /\ x # <<>> /\ c[i] = x[1]
           /\ x # <<>> => Len(b) \in DOMAIN c /\ c[Len(b)] = x[1]
           /\ 1 \in DOMAIN b
           /\ \A i \in DOMAIN b : i \in Nat /\ i >= 1 /\ i <= Len(b)
           /\ \A i \in DOMAIN c : i \in Nat /\ i >= 1
           /\ Len(b) \in Nat
<1> DEFINE n == Len(b)
           l == Len(c)
<1>1. /\ n \in Nat \ {0} /\ l \in Nat
      /\ DOMAIN b = 1..n /\ DOMAIN c = 1..l
      /\ x = <<>> => l = n - 1
      /\ x # <<>> => l = n /\ c[n] = x[1]
      /\ \A i \in 1..n - 1 : c[i] = b[i + 1]
  BY Moves
<1> HIDE DEF n, l
<1>2. ASSUME NEW i \in DOMAIN b, i # 1 PROVE i - 1 \in DOMAIN c /\ c[i - 1] = b[i]
  <2>1. i - 1 \in 1..n - 1 /\ (i - 1) + 1 = i
    BY <1>1, <1>2
  <2>2. n - 1 <= l
    BY <1>1
  <2>3. i - 1 \in 1..l
    BY <1>1, <2>1, <2>2
  <2>4. c[i - 1] = b[(i - 1) + 1]
    BY <1>1, <2>1
  <2> QED
    BY <1>1, <2>1, <2>3, <2>4
<1>3. ASSUME NEW i \in DOMAIN c
      PROVE  \/ i + 1 \in DOMAIN b /\ c[i] = b[i + 1]
             \/ i = n /\ x # <<>> /\ c[i] = x[1]
  <2>1. CASE i \in 1..n - 1
    BY <1>1, <2>1
  <2>2. CASE i \notin 1..n - 1
    <3>1. x # <<>>
      BY <1>1, <2>2
    <3> QED
      BY <1>1, <2>2, <3>1
  <2> QED
    BY <2>1, <2>2
<1>4. /\ x # <<>> => n \in DOMAIN c /\ c[n] = x[1]
      /\ 1 \in DOMAIN b /\ n \in Nat
      /\ \A i \in DOMAIN b : i \in Nat /\ i >= 1 /\ i <= n
      /\ \A i \in DOMAIN c : i \in Nat /\ i >= 1
  BY <1>1
<1> QED
  BY <1>2, <1>3, <1>4 DEF n

\* A step of the outbox keeps the transfer of any menu in order.
LEMMA ChainMoves ==
    ASSUME NEW b \in Seq(Item), b # <<>>, NEW x, Rest(b[1], x),
           NEW c, c = Passed(b, x), NEW of, Chain(b, of)
    PROVE  Chain(c, of)
<1>1. /\ \A i \in DOMAIN b : i # 1 => i - 1 \in DOMAIN c /\ c[i - 1] = b[i]
      /\ \A i \in DOMAIN c :
            \/ i + 1 \in DOMAIN b /\ c[i] = b[i + 1]
            \/ i = Len(b) /\ x # <<>> /\ c[i] = x[1]
      /\ x # <<>> => Len(b) \in DOMAIN c /\ c[Len(b)] = x[1]
      /\ 1 \in DOMAIN b /\ Len(b) \in Nat
      /\ \A i \in DOMAIN b : i \in Nat /\ i >= 1 /\ i <= Len(b)
      /\ \A i \in DOMAIN c : i \in Nat /\ i >= 1
  BY Places
<1>2. x # <<>> => ~b[1].count /\ ~x[1].count /\ x[1].of = b[1].of
  BY DEF Rest
\* A count was there before, behind the first.
<1>3. ASSUME NEW i \in DOMAIN c, c[i].count
      PROVE  i + 1 \in DOMAIN b /\ b[i + 1] = c[i]
  BY <1>1, <1>2, <1>3
\* So was an item, or it is what was first.
<1>4. ASSUME NEW i \in DOMAIN c, ItemAt(c, of, i)
      PROVE  \/ i + 1 \in DOMAIN b /\ b[i + 1] = c[i] /\ ItemAt(b, of, i + 1)
             \/ i = Len(b) /\ ItemAt(b, of, 1)
  BY <1>1, <1>2, <1>4 DEF ItemAt
<1>5. ASSUME NEW i \in DOMAIN c, NEW j \in DOMAIN c, CountAt(c, of, i), c[j].count
      PROVE  j <= i
  <2>1. /\ i + 1 \in DOMAIN b /\ CountAt(b, of, i + 1)
        /\ j + 1 \in DOMAIN b /\ b[j + 1].count
    BY <1>3, <1>5 DEF CountAt
  <2>2. j + 1 <= i + 1
    BY <2>1 DEF Chain
  <2> QED
    BY <1>1, <2>2
<1>6. ASSUME NEW i \in DOMAIN c, NEW j \in DOMAIN c, ItemAt(c, of, i), ItemAt(c, of, j)
      PROVE  i = j
  <2>1. CASE i = Len(b) /\ ItemAt(b, of, 1)
    BY <1>1, <1>4, <1>6, <2>1 DEF Chain
  <2>2. CASE j = Len(b) /\ ItemAt(b, of, 1)
    BY <1>1, <1>4, <1>6, <2>2 DEF Chain
  <2>3. CASE /\ i + 1 \in DOMAIN b /\ ItemAt(b, of, i + 1)
             /\ j + 1 \in DOMAIN b /\ ItemAt(b, of, j + 1)
    <3>1. i + 1 = j + 1
      BY <2>3 DEF Chain
    <3> QED
      BY <1>1, <3>1
  <2> QED
    BY <1>4, <1>6, <2>1, <2>2, <2>3
<1>7. ASSUME NEW i \in DOMAIN c, NEW j \in DOMAIN c, CountAt(c, of, i), ItemAt(c, of, j)
      PROVE  i < j /\ c[i].left = c[j].left
  <2>1. i + 1 \in DOMAIN b /\ CountAt(b, of, i + 1) /\ b[i + 1] = c[i]
    BY <1>3, <1>7 DEF CountAt
  <2>2. ~ItemAt(b, of, 1)
    <3>1. ASSUME ItemAt(b, of, 1) PROVE i + 1 < 1
      BY <1>1, <2>1, <3>1 DEF Chain
    <3> QED
      BY <1>1, <3>1
  <2>3. j + 1 \in DOMAIN b /\ ItemAt(b, of, j + 1) /\ b[j + 1] = c[j]
    BY <1>4, <1>7, <2>2
  <2>4. i + 1 < j + 1 /\ b[i + 1].left = b[j + 1].left
    BY <2>1, <2>3 DEF Chain
  <2> QED
    BY <1>1, <2>1, <2>3, <2>4
<1>8. ASSUME NEW i \in DOMAIN c, CountAt(c, of, i), c[i].left # <<>>
      PROVE  \E j \in DOMAIN c : ItemAt(c, of, j)
  <2>1. i + 1 \in DOMAIN b /\ CountAt(b, of, i + 1) /\ b[i + 1] = c[i]
    BY <1>3, <1>8 DEF CountAt
  <2>2. PICK j \in DOMAIN b : ItemAt(b, of, j)
    BY <1>8, <2>1 DEF Chain
  <2>3. i + 1 < j
    BY <2>1, <2>2 DEF Chain
  <2>4. j # 1
    BY <1>1, <2>3
  <2> QED
    BY <1>1, <2>2, <2>4 DEF ItemAt
<1>9. ASSUME NEW i \in DOMAIN c, NEW j \in DOMAIN c, ItemAt(c, of, i), c[j].count
      PROVE  \E k \in DOMAIN c : CountAt(c, of, k)
  <2>1. j + 1 \in DOMAIN b /\ b[j + 1].count
    BY <1>3, <1>9
  <2>2. PICK l \in DOMAIN b : ItemAt(b, of, l)
    BY <1>1, <1>4, <1>9
  <2>3. PICK k \in DOMAIN b : CountAt(b, of, k)
    BY <2>1, <2>2 DEF Chain
  <2>4. j + 1 <= k
    BY <2>1, <2>3 DEF Chain
  <2>5. k # 1
    BY <1>1, <2>4
  <2> QED
    BY <1>1, <2>3, <2>5 DEF CountAt
<1> QED
  BY <1>5, <1>6, <1>7, <1>8, <1>9 DEF Chain

\* The phone's outbox after a step of it, as the menu's request sees it.
LEMMA OutboxStep ==
    ASSUME IInv, outbox # <<>>, NEW x, Rest(outbox[1], x),
           outbox' = Passed(outbox, x),
           UNCHANGED <<made, open, opens, toPhone>>, unheard => unheard'
    PROVE  Wired' /\ (open => Chain(outbox, opens))' /\ Requesting'
<1>1. outbox \in Seq(Item)
  BY DEF IInv, Wired
<1>2. Item' = Item /\ Asked' = Asked
  BY DEF Item, Asked
<1>3. Wired'
  <2>1. outbox' \in Seq(Item)
    BY <1>1, Moves
  <2> QED
    BY <1>2, <2>1 DEF IInv, Wired
<1>4. ASSUME open' PROVE Chain(outbox', opens')
  <2>1. Chain(outbox, opens)
    BY <1>4 DEF IInv, Menu
  <2>2. Chain(outbox', opens)
    BY <1>1, <2>1, ChainMoves
  <2> QED
    BY <2>2
<1>5. Requesting'
  <2> SUFFICES ASSUME open', NEW i \in DOMAIN toPhone', toPhone'[i].erase = 0
               PROVE  /\ \A j \in DOMAIN outbox' : outbox'[j].of # opens'
                      /\ toPhone'[i].of # opens' => unheard'
    BY DEF Requesting
  <2>1. /\ \A j \in DOMAIN outbox : outbox[j].of # opens
        /\ toPhone[i].of # opens => unheard
    BY DEF IInv, Menu, Requesting
  <2>2. ASSUME NEW j \in DOMAIN outbox' PROVE outbox'[j].of # opens'
    <3>1. /\ \/ j + 1 \in DOMAIN outbox /\ outbox'[j] = outbox[j + 1]
             \/ x # <<>> /\ outbox'[j] = x[1]
          /\ 1 \in DOMAIN outbox
      BY <1>1, <2>2, Places
    <3>2. x # <<>> => x[1].of = outbox[1].of
      BY DEF Rest
    <3> QED
      BY <2>1, <3>1, <3>2
  <2> QED
    BY <2>1, <2>2
<1> QED
  BY <1>3, <1>4, <1>5

\* What is behind the first message of the outbox is there after it was taken.
LEMMA Behind ==
    ASSUME IInv, outbox # <<>>, NEW x, Rest(outbox[1], x),
           outbox' = Passed(outbox, x), UNCHANGED opens
    PROVE  /\ \A i \in DOMAIN outbox :
                 i # 1 => \E j \in DOMAIN outbox' : outbox'[j] = outbox[i]
           /\ x # <<>> => \E j \in DOMAIN outbox' : outbox'[j] = x[1]
           /\ \A j \in DOMAIN outbox' :
                 \/ \E i \in DOMAIN outbox : i # 1 /\ outbox'[j] = outbox[i]
                 \/ x # <<>> /\ outbox'[j] = x[1]
           /\ 1 \in DOMAIN outbox
<1>1. outbox \in Seq(Item)
  BY DEF IInv, Wired
<1>2. /\ \A i \in DOMAIN outbox :
            i # 1 => i - 1 \in DOMAIN outbox' /\ outbox'[i - 1] = outbox[i]
      /\ \A i \in DOMAIN outbox' :
            \/ i + 1 \in DOMAIN outbox /\ outbox'[i] = outbox[i + 1]
            \/ i = Len(outbox) /\ x # <<>> /\ outbox'[i] = x[1]
      /\ x # <<>> => Len(outbox) \in DOMAIN outbox' /\ outbox'[Len(outbox)] = x[1]
      /\ 1 \in DOMAIN outbox
      /\ \A i \in DOMAIN outbox' : i \in Nat /\ i >= 1
  BY <1>1, Places
<1>3. \A j \in DOMAIN outbox' : j + 1 # 1
  BY <1>2
<1> QED
  BY <1>2, <1>3

\* The first message is well-formed.
LEMMA FirstFacts ==
    ASSUME IInv, outbox # <<>>
    PROVE  /\ Head(outbox) = outbox[1] /\ outbox[1] \in Item
           /\ 1 \in DOMAIN outbox
<1>1. outbox \in Seq(Item) /\ Len(outbox) \in Nat \ {0} /\ DOMAIN outbox = 1..Len(outbox)
  BY EmptySeq, LenProperties DEF IInv, Wired
<1>2. 1 \in DOMAIN outbox
  BY <1>1
<1> QED
  BY <1>1, <1>2, ElementOfSeq

\* A count has been delivered: the list begins, or there is none.
LEMMA CountHeard ==
    ASSUME IInv, open, outbox # <<>>, outbox[1].count,
           HearCount(Len(outbox[1].left)),
           outbox' = Passed(outbox, <<>>),
           mixed' = (mixed \/ outbox[1].of # opens),
           UNCHANGED <<made, open, opens, toPhone, picked, unheard>>
    PROVE  Holds' /\ Picked' /\ Loading' /\ Unmixed'
<1> DEFINE m == outbox[1]
           n == Len(m.left)
<1>1. /\ m \in Item /\ n \in Nat /\ n <= MaxTime /\ (m.left = <<>> <=> n = 0)
      /\ 1 \in DOMAIN outbox
  BY FirstFacts, ItemFacts
<1>2. Rest(m, <<>>)
  BY EmptySeq DEF Rest
<1>3. /\ \A i \in DOMAIN outbox :
            i # 1 => \E j \in DOMAIN outbox' : outbox'[j] = outbox[i]
      /\ \A j \in DOMAIN outbox' : \E i \in DOMAIN outbox :
            i # 1 /\ outbox'[j] = outbox[i]
  BY <1>2, Behind
<1>4. Chain(outbox, opens)
  BY DEF IInv, Menu
<1>5. CASE n = 0
  <2>1. capacity' = 0 /\ view' = "empty" /\ UNCHANGED <<rows, drawn>>
    BY <1>5 DEF HearCount
  <2>2. Holds'
    BY <2>1, RemindersAssumption DEF IInv, Holds
  <2>3. Picked' /\ Loading'
    BY <2>1 DEF IInv, Menu, Picked, Loading
  <2>4. Unmixed'
    <3> SUFFICES ASSUME ~mixed' PROVE Unmixed'
      BY DEF Unmixed
    <3>1. ~mixed /\ CountAt(outbox, opens, 1)
      BY DEF CountAt
    <3>2. rows = <<>>
      BY <1>1, <3>1 DEF IInv, Menu, Unmixed, Fresh
    <3>3. \A i \in DOMAIN toPhone' : toPhone'[i].erase # 0
      BY <1>1, <3>1 DEF IInv, Menu, Requesting, CountAt
    <3>4. \A i \in DOMAIN outbox' : ~CountAt(outbox', opens', i)
      <4> SUFFICES ASSUME NEW i \in DOMAIN outbox', CountAt(outbox', opens', i)
                   PROVE  FALSE
        OBVIOUS
      <4>1. PICK j \in DOMAIN outbox : j # 1 /\ outbox'[i] = outbox[j]
        BY <1>3
      <4>2. outbox[j].count
        BY <4>1 DEF CountAt
      <4>3. j <= 1
        BY <1>1, <1>4, <3>1, <4>2 DEF Chain
      <4>4. j \in Nat /\ j >= 1
        BY LenProperties DEF IInv, Wired
      <4> QED
        BY <4>1, <4>3, <4>4
    <3> QED
      BY <2>1, <3>2, <3>3, <3>4, ~(0 > 0) DEF Unmixed
  <2> QED
    BY <2>2, <2>3, <2>4
<1>6. CASE n # 0
  <2>1. n > 0 /\ capacity' = n /\ rows' = <<>> /\ UNCHANGED <<view, drawn>>
    BY <1>1, <1>6 DEF HearCount
  <2>2. rows' \in Seq(made') /\ Len(rows') = 0 /\ DOMAIN rows' = {}
    BY <2>1, EmptySeq
  <2>3. Holds'
    <3>1. 0 <= n /\ 0 <= MaxTime /\ n \in 0..MaxTime
      BY <1>1, RemindersAssumption
    <3> QED
      BY <2>1, <2>2, <3>1 DEF IInv, Holds
  <2>4. Picked'
    BY <2>1 DEF IInv, Menu, Picked
\* The list's item is still behind: it is all of it.
  <2>5. ASSUME NEW i \in DOMAIN outbox, CountAt(outbox, opens, 1),
               ItemAt(outbox, opens, i)
        PROVE  \E j \in DOMAIN outbox' : /\ outbox'[j] = outbox[i]
                                          /\ ItemAt(outbox', opens', j)
    <3>1. i # 1
      BY <2>5 DEF CountAt, ItemAt
    <3> QED
      BY <1>3, <2>5, <3>1 DEF ItemAt
  <2>6. Loading'
    <3> SUFFICES ASSUME view = "loading", ~unheard,
                        \A i \in DOMAIN toPhone : toPhone[i].erase # 0
                 PROVE  Loading'
      BY <2>1 DEF Loading
    <3>1. \E i \in DOMAIN outbox : CountAt(outbox, opens, i)
      BY <1>1, <1>4 DEF IInv, Menu, Loading, Chain
    <3>2. PICK i \in DOMAIN outbox : CountAt(outbox, opens, i)
      BY <3>1
    <3>3. CASE i # 1
      <4>1. PICK j \in DOMAIN outbox' : outbox'[j] = outbox[i]
        BY <1>3, <3>3
      <4>2. CountAt(outbox', opens', j)
        BY <3>2, <4>1 DEF CountAt
      <4> QED
        BY <4>2 DEF Loading
    <3>4. CASE i = 1
      <4>1. PICK j \in DOMAIN outbox : ItemAt(outbox, opens, j)
        BY <1>1, <1>4, <1>6, <3>2, <3>4 DEF Chain
      <4>2. outbox[j].left = m.left
        BY <1>4, <3>2, <3>4, <4>1 DEF Chain
      <4>3. PICK k \in DOMAIN outbox' : /\ outbox'[k] = outbox[j]
                                        /\ ItemAt(outbox', opens', k)
        BY <2>5, <3>2, <3>4, <4>1
      <4>4. Len(outbox'[k].left) = n /\ Len(rows') < capacity'
            /\ n >= capacity' - Len(rows')
        BY <1>1, <2>1, <2>2, <4>2, <4>3
      <4> QED
        BY <4>3, <4>4 DEF Loading
    <3> QED
      BY <3>3, <3>4
  <2>7. Unmixed'
    <3> SUFFICES ASSUME ~mixed' PROVE Unmixed'
      BY DEF Unmixed
    <3>1. ~mixed /\ CountAt(outbox, opens, 1)
      BY DEF CountAt
    <3>2. Fresh
      BY <1>1, <3>1 DEF IInv, Menu, Unmixed
    <3>3. \A i \in DOMAIN toPhone' : toPhone'[i].erase # 0
      BY <1>1, <3>1 DEF IInv, Menu, Requesting, CountAt
    <3>4. \A i \in DOMAIN outbox' : ~CountAt(outbox', opens', i)
      <4> SUFFICES ASSUME NEW i \in DOMAIN outbox', CountAt(outbox', opens', i)
                   PROVE  FALSE
        OBVIOUS
      <4>1. PICK j \in DOMAIN outbox : j # 1 /\ outbox'[i] = outbox[j]
        BY <1>3
      <4>2. outbox[j].count
        BY <4>1 DEF CountAt
      <4>3. j <= 1
        BY <1>1, <1>4, <3>1, <4>2 DEF Chain
      <4>4. j \in Nat /\ j >= 1
        BY LenProperties DEF IInv, Wired
      <4> QED
        BY <4>1, <4>3, <4>4
    <3>5. ASSUME NEW i \in DOMAIN outbox', ItemAt(outbox', opens', i)
          PROVE  Len(outbox'[i].left) = n
      <4>1. PICK j \in DOMAIN outbox : j # 1 /\ outbox'[i] = outbox[j]
        BY <1>3
      <4>2. ItemAt(outbox, opens, j)
        BY <3>5, <4>1 DEF ItemAt
      <4>3. m.left = outbox[j].left
        BY <1>1, <1>4, <3>1, <4>2 DEF Chain
      <4> QED
        BY <4>1, <4>3
    <3>6. view' = "loading" /\ capacity' # 0 /\ 0 + n = capacity'
      BY <1>1, <2>1, <3>2 DEF Fresh
    <3>7. Ascending(rows')
      BY <2>2 DEF Ascending
    <3> QED
      BY <2>2, <3>3, <3>4, <3>5, <3>6, <3>7 DEF Unmixed
  <2> QED
    BY <2>3, <2>4, <2>6, <2>7
<1> QED
  BY <1>5, <1>6

\* An item has been delivered, for the first time or again: it is taken if
\* there is room, and the next or the same goes to the end of the outbox.
LEMMA ItemHeard ==
    ASSUME IInv, open, outbox # <<>>, ~outbox[1].count,
           HearItem(Head(outbox[1].left)),
           NEW x, Rest(outbox[1], x), outbox' = Passed(outbox, x),
           x = <<>> => Len(outbox[1].left) = 1,
           x # <<>> => \/ Len(outbox[1].left) > 1 /\ x[1].left = Tail(outbox[1].left)
                       \/ x[1] = outbox[1] /\ repeated',
           repeated => repeated',
           mixed' = (mixed \/ outbox[1].of # opens),
           UNCHANGED <<made, open, opens, toPhone, picked, unheard>>
    PROVE  Holds' /\ Picked' /\ Loading' /\ Unmixed'
<1> DEFINE m == outbox[1]
           l == Len(m.left)
           h == Head(m.left)
           k == Len(rows)
<1>1. /\ m \in Item /\ l \in Nat /\ l >= 1 /\ h = m.left[1] /\ h \in made
      /\ DOMAIN m.left = 1..l /\ Ascending(m.left) /\ m.left \in Seq(made)
      /\ m.left # <<>> /\ 1 \in DOMAIN outbox
  <2>1. m \in Item /\ 1 \in DOMAIN outbox
    BY FirstFacts
  <2>2. /\ l \in Nat /\ l >= 1 /\ DOMAIN m.left = 1..l /\ Ascending(m.left)
        /\ m.left \in Seq(made) /\ (m.left = <<>> <=> l = 0)
    BY <2>1, ItemFacts
  <2>3. m.left # <<>>
    BY <2>2
  <2>4. h = m.left[1] /\ h \in made
    BY <2>1, <2>3, ItemFacts
  <2> QED
    BY <2>1, <2>2, <2>3, <2>4
<1>2. /\ \A i \in DOMAIN outbox :
            i # 1 => \E j \in DOMAIN outbox' : outbox'[j] = outbox[i]
      /\ x # <<>> => \E j \in DOMAIN outbox' : outbox'[j] = x[1]
      /\ \A j \in DOMAIN outbox' :
            \/ \E i \in DOMAIN outbox : i # 1 /\ outbox'[j] = outbox[i]
            \/ x # <<>> /\ outbox'[j] = x[1]
  BY Behind
<1>3. Chain(outbox, opens)
  BY DEF IInv, Menu
<1>4. x # <<>> => ~x[1].count /\ x[1].of = m.of
  BY DEF Rest
<1>5. /\ rows \in Seq(made) /\ k \in Nat /\ DOMAIN rows = 1..k /\ k <= MaxTime
      /\ capacity \in 0..MaxTime /\ capacity \in Nat /\ MaxTime \in Nat
      /\ made \subseteq Nat
  BY LenProperties, RemindersAssumption DEF IInv, Holds, Stores, Reminder
<1>6. /\ capacity' = capacity
      /\ \/ /\ k < capacity /\ rows' = Append(rows, h)
            /\ \/ Len(rows') = capacity /\ view' = "list" /\ drawn' = capacity
               \/ Len(rows') # capacity /\ UNCHANGED <<view, drawn>>
         \/ ~(k < capacity) /\ UNCHANGED <<rows, view, drawn>>
  BY DEF HearItem, Takes
<1>7. /\ Append(rows, h) \in Seq(made) /\ Len(Append(rows, h)) = k + 1
      /\ Append(rows, h) # <<>>
      /\ \A i \in 1..k : Append(rows, h)[i] = rows[i]
      /\ Append(rows, h)[k + 1] = h
      /\ DOMAIN Append(rows, h) = 1..(k + 1)
  <2>1. Append(rows, h) \in Seq(made) /\ Len(Append(rows, h)) = k + 1
    BY <1>1, <1>5, AppendProperties
  <2>2. DOMAIN Append(rows, h) = 1..(k + 1)
    BY <2>1, LenProperties
  <2> QED
    BY <1>1, <1>5, <2>2, AppendProperties
<1> DEFINE longer == Append(rows, h)
<1> HIDE DEF longer
\* No count of this transfer is left while its item is.
<1>8. ASSUME m.of = opens, NEW i \in DOMAIN outbox PROVE ~CountAt(outbox, opens, i)
  <2>1. ItemAt(outbox, opens, 1)
    BY <1>8 DEF ItemAt
  <2>2. CountAt(outbox, opens, i) => i < 1
    BY <1>1, <1>3, <2>1 DEF Chain
  <2>3. i \in Nat /\ i >= 1
    BY LenProperties DEF IInv, Wired
  <2> QED
    BY <2>2, <2>3
<1>9. Holds'
  <2>1. CASE k < capacity
    <3>1. rows' = longer
      BY <1>6, <2>1 DEF longer
    <3>2. Len(rows') = k + 1 /\ rows' \in Seq(made)
      BY <1>7, <3>1 DEF longer
    <3>3. Len(rows') <= capacity /\ Len(rows') <= MaxTime
      <4> HIDE DEF k
      <4> QED
        BY <1>5, <2>1, <3>2
    <3>4. drawn' \in 0..MaxTime /\ view' \in {"loading", "list", "empty"}
      BY <1>5, <1>6, <2>1 DEF IInv, Holds
    <3> QED
      BY <1>5, <1>6, <3>2, <3>3, <3>4 DEF IInv, Holds
  <2>2. CASE ~(k < capacity)
    BY <1>6, <2>2 DEF IInv, Holds
  <2> QED
    BY <2>1, <2>2
<1>10. Picked'
  <2>1. open' /\ (view' = view \/ view' = "list")
    BY <1>6
  <2> QED
    BY <2>1 DEF IInv, Menu, Picked
<1>11. Loading'
  <2> SUFFICES ASSUME view' = "loading", ~unheard,
                      \A i \in DOMAIN toPhone : toPhone[i].erase # 0
               PROVE  Loading'
    BY DEF Loading
  <2>1. view = "loading" /\ (k < capacity => k + 1 # capacity /\ rows' = longer)
    BY <1>6, <1>7 DEF longer
  <2>2. CASE \E i \in DOMAIN outbox : CountAt(outbox, opens, i)
    <3>1. PICK i \in DOMAIN outbox : CountAt(outbox, opens, i)
      BY <2>2
    <3>2. i # 1
      BY <3>1 DEF CountAt
    <3>3. PICK j \in DOMAIN outbox' : outbox'[j] = outbox[i]
      BY <1>2, <3>2
    <3>4. CountAt(outbox', opens', j)
      BY <3>1, <3>3 DEF CountAt
    <3> QED
      BY <3>4 DEF Loading
  <2>3. CASE \A i \in DOMAIN outbox : ~CountAt(outbox, opens, i)
    <3>1. PICK i \in DOMAIN outbox : /\ k < capacity /\ ItemAt(outbox, opens, i)
                                     /\ Len(outbox[i].left) >= capacity - k
      BY <2>1, <2>3 DEF IInv, Menu, Loading
    <3>2. Len(rows') = k + 1
      BY <1>7, <2>1, <3>1 DEF longer
    <3>3. Len(rows') < capacity'
      <4> HIDE DEF k
      <4> QED
        BY <1>5, <1>6, <2>1, <3>1, <3>2
    <3>4. CASE i # 1
      <4>1. PICK j \in DOMAIN outbox' : outbox'[j] = outbox[i]
        BY <1>2, <3>4
      <4>2. outbox[i] \in Item
        BY LenProperties, ElementOfSeq DEF IInv, Wired
      <4> DEFINE q == Len(outbox[i].left)
      <4>3. q \in Nat /\ q >= capacity - k
        BY <3>1, <4>2, ItemFacts
      <4>4. q >= capacity' - Len(rows')
        <5> HIDE DEF q, k
        <5> QED
          BY <1>5, <1>6, <3>2, <4>3
      <4>5. ItemAt(outbox', opens', j) /\ Len(outbox'[j].left) >= capacity' - Len(rows')
        BY <3>1, <4>1, <4>4 DEF ItemAt
      <4> QED
        BY <3>3, <4>5 DEF Loading
    <3>5. CASE i = 1
      <4>1. l > 1 /\ l >= capacity - k
        <5>1. l >= capacity - k
          BY <3>1, <3>5
        <5> HIDE DEF l, k
        <5> QED
          BY <1>1, <1>5, <2>1, <3>1, <5>1
      <4>2. x # <<>>
        <5>1. x = <<>> => l = 1
          OBVIOUS
        <5> HIDE DEF l
        <5> QED
          BY <4>1, <5>1
      <4>3. PICK j \in DOMAIN outbox' : outbox'[j] = x[1]
        BY <1>2, <4>2
      <4>4. ItemAt(outbox', opens', j)
        BY <1>4, <3>1, <3>5, <4>2, <4>3 DEF ItemAt
      <4>5. Len(outbox'[j].left) = l \/ Len(outbox'[j].left) = l - 1
        <5>1. Len(Tail(m.left)) = l - 1
          BY <1>1, HeadTailProperties
        <5> QED
          BY <4>2, <4>3, <5>1
      <4>6. Len(outbox'[j].left) >= capacity' - Len(rows')
        <5> HIDE DEF l, k
        <5> QED
          BY <1>1, <1>5, <1>6, <3>2, <4>1, <4>5
      <4> QED
        BY <3>3, <4>4, <4>6 DEF Loading
    <3> QED
      BY <3>4, <3>5
  <2> QED
    BY <2>2, <2>3
<1>12. Unmixed'
  <2> SUFFICES ASSUME ~mixed' PROVE Unmixed'
    BY DEF Unmixed
  <2>1. ~mixed /\ m.of = opens /\ ItemAt(outbox, opens, 1)
    BY DEF ItemAt
  <2>2. \A i \in DOMAIN toPhone' : toPhone'[i].erase # 0
    BY <1>1, <2>1 DEF IInv, Menu, Requesting
  <2>3. ASSUME NEW j \in DOMAIN outbox' PROVE ~CountAt(outbox', opens', j)
    <3> SUFFICES ASSUME outbox'[j].count, outbox'[j].of = opens PROVE FALSE
      BY DEF CountAt
    <3>1. PICK i \in DOMAIN outbox : outbox'[j] = outbox[i]
      BY <1>2, <1>4
    <3>2. CountAt(outbox, opens, i)
      BY <3>1 DEF CountAt
    <3> QED
      BY <1>8, <2>1, <3>2
  <2>4. capacity = 0 => ~(k < capacity)
    <3> HIDE DEF k
    <3> QED
      BY <1>5
  <2>5. capacity' = 0 => rows' = <<>> /\ view' # "list"
    BY <1>6, <2>1, <2>4 DEF IInv, Menu, Unmixed
\* No row is drawn that is not there.
  <2>6. view' = "list" => drawn' <= Len(rows') /\ rows' # <<>>
    <3> SUFFICES ASSUME view' = "list" PROVE drawn' <= Len(rows') /\ rows' # <<>>
      OBVIOUS
    <3>1. drawn \in Nat /\ (view = "list" => drawn <= k /\ rows # <<>>)
      BY <2>1, RemindersAssumption DEF IInv, Menu, Unmixed, Holds
    <3>2. CASE k < capacity
      <4>1. rows' = longer /\ Len(rows') = k + 1 /\ rows' # <<>>
        BY <1>6, <1>7, <3>2 DEF longer
      <4>2. drawn' = k + 1 \/ (drawn' = drawn /\ view = "list")
        BY <1>6, <3>2, <4>1
      <4> HIDE DEF k
      <4> QED
        BY <1>5, <3>1, <4>1, <4>2
    <3>3. CASE ~(k < capacity)
      BY <1>6, <3>1, <3>3
    <3> QED
      BY <3>2, <3>3
  <2>7. CASE repeated'
    BY <2>2, <2>3, <2>5, <2>6, <2>7 DEF Unmixed
  <2>8. CASE ~repeated'
    <3>1. ~repeated
      BY <2>8
    <3>2. x # <<>> => l > 1 /\ x[1].left = Tail(m.left)
      BY <2>8
    <3>3. ASSUME NEW j \in DOMAIN outbox', ItemAt(outbox', opens', j)
          PROVE  x # <<>> /\ outbox'[j] = x[1]
      <4> SUFFICES ASSUME NEW i \in DOMAIN outbox, i # 1, outbox'[j] = outbox[i]
                   PROVE  FALSE
        BY <1>2
      <4>1. ItemAt(outbox, opens, i)
        BY <3>3 DEF ItemAt
      <4> QED
        BY <1>1, <1>3, <2>1, <4>1 DEF Chain
    <3>4. CASE capacity = 0
      <4>1. view' = view /\ view # "list" /\ capacity' = 0
        BY <1>6, <2>1, <2>4, <3>4 DEF IInv, Menu, Unmixed
      <4> QED
        BY <2>2, <2>3, <2>5, <2>6, <4>1, ~(0 > 0) DEF Unmixed
    <3>5. CASE capacity # 0
      <4>1. capacity > 0
        BY <1>5, <3>5
      <4>2. /\ view = "loading" /\ k + l = capacity /\ Ascending(rows)
            /\ \A i \in DOMAIN rows, j \in DOMAIN m.left : rows[i] < m.left[j]
        BY <1>1, <2>1, <3>1, <4>1 DEF IInv, Menu, Unmixed
      <4>3. k < capacity
        <5> HIDE DEF k, l
        <5> QED
          BY <1>1, <1>5, <4>2
      <4>4. rows' = longer /\ Len(rows') = k + 1 /\ rows' # <<>> /\ DOMAIN rows' = 1..(k + 1)
        BY <1>6, <1>7, <4>3 DEF longer
      <4>5. Ascending(rows')
        <5> SUFFICES ASSUME NEW i \in DOMAIN rows', NEW j \in DOMAIN rows', i < j
                     PROVE  rows'[i] < rows'[j]
          BY DEF Ascending
        <5>1. i \in 1..k /\ (j \in 1..k \/ j = k + 1)
          <6> HIDE DEF k
          <6> QED
            BY <1>5, <4>4
        <5>2. rows'[i] = rows[i] /\ i \in DOMAIN rows
          BY <1>5, <1>7, <4>4, <5>1 DEF longer
        <5>3. CASE j \in 1..k
          BY <1>5, <1>7, <4>2, <4>4, <5>2, <5>3 DEF longer, Ascending
        <5>4. CASE j = k + 1
          <6>1. rows'[j] = m.left[1] /\ 1 \in DOMAIN m.left
            BY <1>1, <1>7, <4>4, <5>4 DEF longer
          <6> QED
            BY <4>2, <5>2, <6>1
        <5> QED
          BY <5>1, <5>3, <5>4
      <4>6. CASE k + 1 = capacity
        <5>1. l = 1
          <6> HIDE DEF k, l
          <6> QED
            BY <1>1, <1>5, <4>2, <4>6
        <5>2. x = <<>>
          BY <3>2, <5>1
        <5>3. view' = "list" /\ drawn' = Len(rows')
          BY <1>6, <4>3, <4>4, <4>6
        <5> QED
          BY <1>6, <2>2, <2>3, <2>5, <2>6, <3>3, <4>4, <4>5, <5>2, <5>3 DEF Unmixed
      <4>7. CASE k + 1 # capacity
        <5>1. view' = "loading"
          BY <1>6, <4>2, <4>3, <4>4, <4>7
        <5>2. ASSUME NEW j \in DOMAIN outbox', ItemAt(outbox', opens', j)
              PROVE  /\ Len(rows') + Len(outbox'[j].left) = capacity'
                     /\ \A i \in DOMAIN rows', n \in DOMAIN outbox'[j].left :
                           rows'[i] < outbox'[j].left[n]
          <6>1. outbox'[j].left = Tail(m.left) /\ l > 1
            BY <3>2, <3>3, <5>2
          <6> DEFINE t == Tail(m.left)
          <6>2. /\ Len(t) = l - 1 /\ t \in Seq(made)
                /\ \A n \in 1..Len(t) : t[n] = m.left[n + 1]
            BY <1>1, HeadTailProperties
          <6>3. DOMAIN t = 1..Len(t)
            BY <6>2, LenProperties
          <6> HIDE DEF t
          <6>4. (k + 1) + (l - 1) = capacity
            <7> HIDE DEF k, l
            <7> QED
              BY <1>1, <1>5, <4>2
          <6>5. ASSUME NEW i \in DOMAIN rows', NEW n \in DOMAIN t
                PROVE  rows'[i] < t[n]
            <7>1. n + 1 \in DOMAIN m.left /\ t[n] = m.left[n + 1] /\ 1 < n + 1
                  /\ 1 \in DOMAIN m.left
              <8> HIDE DEF l
              <8> QED
                BY <1>1, <6>1, <6>2, <6>3
            <7>2. CASE i \in 1..k
              <8>1. rows'[i] = rows[i] /\ i \in DOMAIN rows
                BY <1>5, <1>7, <4>4, <7>2 DEF longer
              <8> QED
                BY <4>2, <7>1, <8>1
            <7>3. CASE i = k + 1
              <8>1. rows'[i] = m.left[1]
                BY <1>1, <1>7, <4>4, <7>3 DEF longer
              <8>2. m.left[1] < m.left[n + 1]
                BY <1>1, <7>1 DEF Ascending
              <8> QED
                BY <7>1, <8>1, <8>2
            <7>4. i \in 1..k \/ i = k + 1
              <8> HIDE DEF k
              <8> QED
                BY <1>5, <4>4
            <7> QED
              BY <7>2, <7>3, <7>4
          <6>6. outbox'[j].left = t
            BY <6>1 DEF t
          <6>7. Len(rows') + Len(t) = capacity'
            BY <1>6, <4>4, <6>2, <6>4
          <6> QED
            BY <6>5, <6>6, <6>7
        <5> QED
          BY <2>2, <2>3, <2>5, <2>6, <4>5, <5>1, <5>2 DEF Unmixed
      <4> QED
        BY <4>6, <4>7
    <3> QED
      BY <3>4, <3>5
  <2> QED
    BY <2>7, <2>8
<1> QED
  BY <1>9, <1>10, <1>11, <1>12

\* No menu is there to hear it.
LEMMA NoneHears ==
    ASSUME IInv, ~open,
           UNCHANGED <<made, open, opens, view, capacity, rows, drawn, picked>>
    PROVE  Holds' /\ Picked' /\ Loading' /\ Unmixed'
BY DEF IInv, Holds, Menu, Picked, Fresh, Loading, Unmixed

\* The phone's store knows nothing of it.
LEMMA StoreSame ==
    ASSUME IInv, UNCHANGED <<now, stored, made, requests, pins, misfiled>>
    PROVE  Stores' /\ Pinned'
BY DEF IInv, Stores, Pinned

\* A message arrives, and the phone hears that it did.
LEMMA DeliveredStep == IInv /\ Delivered => IInv'
<1> SUFFICES ASSUME IInv, Delivered PROVE IInv'
  OBVIOUS
<1> DEFINE m == outbox[1]
           x == Following(m)
<1>1. outbox # <<>> /\ Head(outbox) = m /\ m \in Item
  BY FirstFacts DEF Delivered
<1>2. /\ UNCHANGED <<now, stored, made, requests, pins, misfiled, toPhone, open,
                     opens, picked, unheard, repeated, erased, untold>>
      /\ WatchHears(m)
      /\ outbox' = Passed(outbox, x)
  BY <1>1 DEF Delivered, Passed, phone, timeline
<1>3. /\ Rest(m, x)
      /\ x = <<>> => m.count \/ Len(m.left) = 1
      /\ x # <<>> => Len(m.left) > 1 /\ x[1].left = Tail(m.left)
  BY <1>1, FollowingFacts
<1> HIDE DEF x
<1>4. Wired' /\ (open => Chain(outbox, opens))' /\ Requesting'
  BY <1>1, <1>2, <1>3, OutboxStep
<1>5. Stores' /\ Pinned'
  BY <1>2, StoreSame
<1>6. Erased'
  BY <1>2 DEF IInv, Erased
<1>7. Holds' /\ Picked' /\ Loading' /\ Unmixed'
  <2>1. CASE ~open
    <3>1. UNCHANGED <<view, capacity, rows, drawn>>
      BY <1>2, <2>1 DEF WatchHears
    <3> QED
      BY <1>2, <2>1, <3>1, NoneHears
  <2>2. CASE open /\ m.count
    <3>1. HearCount(Len(m.left)) /\ mixed' = (mixed \/ m.of # opens)
      BY <1>2, <2>2 DEF WatchHears
    <3>2. x = <<>>
      BY <1>3, <2>2 DEF Rest
    <3>3. outbox' = Passed(outbox, <<>>)
      BY <1>2, <3>2
    <3> QED
      BY <1>1, <1>2, <2>2, <3>1, <3>3, CountHeard
  <2>3. CASE open /\ ~m.count
    <3>1. HearItem(Head(m.left)) /\ mixed' = (mixed \/ m.of # opens)
      BY <1>2, <2>3 DEF WatchHears
    <3>2. x = <<>> => Len(m.left) = 1
      BY <1>3, <2>3
    <3> QED
      BY <1>1, <1>2, <1>3, <2>3, <3>1, <3>2, ItemHeard
  <2> QED
    BY <2>1, <2>2, <2>3
<1> QED
  BY <1>4, <1>5, <1>6, <1>7 DEF IInv, Menu

\* A message arrives, and the phone does not hear that it did.
LEMMA AcknowledgementLostStep == IInv /\ AcknowledgementLost => IInv'
<1> SUFFICES ASSUME IInv, AcknowledgementLost PROVE IInv'
  OBVIOUS
<1> DEFINE m == outbox[1]
           x == Retried(m)
<1>1. outbox # <<>> /\ Head(outbox) = m /\ m \in Item
  BY FirstFacts DEF AcknowledgementLost
<1>2. /\ UNCHANGED <<now, stored, made, requests, pins, misfiled, toPhone, open,
                     opens, picked, unheard, erased, untold>>
      /\ WatchHears(m)
      /\ outbox' = Passed(outbox, x)
      /\ repeated' = (repeated \/ (open /\ ~m.count))
  BY <1>1 DEF AcknowledgementLost, Passed, phone, timeline
<1>3. /\ Rest(m, x)
      /\ x = <<>> => m.count
      /\ x # <<>> => x[1] = m
  BY <1>1, RetriedFacts
<1> HIDE DEF x
<1>4. Wired' /\ (open => Chain(outbox, opens))' /\ Requesting'
  BY <1>1, <1>2, <1>3, OutboxStep
<1>5. Stores' /\ Pinned'
  BY <1>2, StoreSame
<1>6. Erased'
  BY <1>2 DEF IInv, Erased
<1>7. Holds' /\ Picked' /\ Loading' /\ Unmixed'
  <2>1. CASE ~open
    <3>1. UNCHANGED <<view, capacity, rows, drawn>>
      BY <1>2, <2>1 DEF WatchHears
    <3> QED
      BY <1>2, <2>1, <3>1, NoneHears
  <2>2. CASE open /\ m.count
    <3>1. HearCount(Len(m.left)) /\ mixed' = (mixed \/ m.of # opens)
      BY <1>2, <2>2 DEF WatchHears
    <3>2. x = <<>>
      BY <1>3, <2>2 DEF Rest
    <3>3. outbox' = Passed(outbox, <<>>)
      BY <1>2, <3>2
    <3> QED
      BY <1>1, <1>2, <2>2, <3>1, <3>3, CountHeard
  <2>3. CASE open /\ ~m.count
    <3>1. HearItem(Head(m.left)) /\ mixed' = (mixed \/ m.of # opens)
      BY <1>2, <2>3 DEF WatchHears
    <3>2. x # <<>> /\ x[1] = m /\ repeated'
      BY <1>2, <1>3, <2>3
    <3>3. repeated => repeated'
      BY <3>2
    <3> QED
      BY <1>1, <1>2, <1>3, <2>3, <3>1, <3>2, <3>3, ItemHeard
  <2> QED
    BY <2>1, <2>2, <2>3
<1> QED
  BY <1>4, <1>5, <1>6, <1>7 DEF IInv, Menu

\* A message is lost: an item is sent again, a count is not.
LEMMA DeliveryFailsStep == IInv /\ DeliveryFails => IInv'
<1> SUFFICES ASSUME IInv, DeliveryFails PROVE IInv'
  OBVIOUS
<1> DEFINE m == outbox[1]
           x == Retried(m)
<1>1. outbox # <<>> /\ Head(outbox) = m /\ m \in Item
  BY FirstFacts DEF DeliveryFails
<1>2. /\ UNCHANGED <<now, stored, made, requests, pins, misfiled, toPhone, open,
                     opens, view, capacity, rows, drawn, picked, mixed,
                     repeated, erased, untold>>
      /\ outbox' = Passed(outbox, x)
      /\ unheard' = (unheard \/ (open /\ m.count /\ m.of = opens))
  BY <1>1 DEF DeliveryFails, Passed, phone, timeline, menu
<1>3. /\ Rest(m, x)
      /\ x = <<>> => m.count
      /\ x # <<>> => x[1] = m
  BY <1>1, RetriedFacts
<1> HIDE DEF x
<1>4. Wired' /\ (open => Chain(outbox, opens))' /\ Requesting'
  BY <1>1, <1>2, <1>3, OutboxStep
<1>5. Stores' /\ Pinned'
  BY <1>2, StoreSame
<1>6. Erased'
  BY <1>2 DEF IInv, Erased
<1>7. Holds' /\ Picked'
  BY <1>2 DEF IInv, Holds, Menu, Picked, Fresh
<1>8. /\ \A i \in DOMAIN outbox :
            i # 1 => \E j \in DOMAIN outbox' : outbox'[j] = outbox[i]
      /\ x # <<>> => \E j \in DOMAIN outbox' : outbox'[j] = x[1]
      /\ \A j \in DOMAIN outbox' : \E i \in DOMAIN outbox : outbox'[j] = outbox[i]
  BY <1>1, <1>2, <1>3, Behind
<1>9. ASSUME NEW i \in DOMAIN outbox, ~(CountAt(outbox, opens, 1)),
             outbox[i].of = opens
      PROVE  \E j \in DOMAIN outbox' : outbox'[j] = outbox[i]
  BY <1>3, <1>8, <1>9 DEF CountAt
<1>10. Loading'
  <2> SUFFICES ASSUME open, view = "loading", ~unheard,
                      ~CountAt(outbox, opens, 1),
                      \A i \in DOMAIN toPhone : toPhone[i].erase # 0
               PROVE  Loading'
    BY <1>2 DEF Loading, CountAt
  <2>1. CASE \E i \in DOMAIN outbox : CountAt(outbox, opens, i)
    <3>1. PICK i \in DOMAIN outbox : CountAt(outbox, opens, i)
      BY <2>1
    <3>2. PICK j \in DOMAIN outbox' : outbox'[j] = outbox[i]
      BY <1>9, <3>1 DEF CountAt
    <3>3. CountAt(outbox', opens', j)
      BY <1>2, <3>1, <3>2 DEF CountAt
    <3> QED
      BY <3>3 DEF Loading
  <2>2. CASE /\ Len(rows) < capacity
             /\ \E i \in DOMAIN outbox :
                   /\ ItemAt(outbox, opens, i)
                   /\ Len(outbox[i].left) >= capacity - Len(rows)
    <3>1. PICK i \in DOMAIN outbox : /\ ItemAt(outbox, opens, i)
                                     /\ Len(outbox[i].left) >= capacity - Len(rows)
      BY <2>2
    <3>2. PICK j \in DOMAIN outbox' : outbox'[j] = outbox[i]
      BY <1>9, <3>1 DEF ItemAt
    <3>3. ItemAt(outbox', opens', j)
      BY <1>2, <3>1, <3>2 DEF ItemAt
    <3> QED
      BY <1>2, <2>2, <3>1, <3>2, <3>3 DEF Loading
  <2> QED
    BY <2>1, <2>2 DEF IInv, Menu, Loading
<1>11. Unmixed'
  <2> SUFFICES ASSUME open, ~mixed PROVE Unmixed'
    BY <1>2 DEF Unmixed
  <2>1. ASSUME NEW j \in DOMAIN outbox', CountAt(outbox', opens', j) PROVE Fresh'
    <3>1. PICK i \in DOMAIN outbox : outbox'[j] = outbox[i]
      BY <1>8
    <3>2. CountAt(outbox, opens, i)
      BY <1>2, <2>1, <3>1 DEF CountAt
    <3> QED
      BY <1>2, <3>2 DEF IInv, Menu, Unmixed, Fresh
  <2>2. ASSUME NEW j \in DOMAIN outbox', ItemAt(outbox', opens', j), capacity > 0,
               ~repeated
        PROVE  /\ view = "loading"
               /\ Len(rows) + Len(outbox'[j].left) = capacity
               /\ Ascending(rows)
               /\ \A i \in DOMAIN rows, k \in DOMAIN outbox'[j].left :
                     rows[i] < outbox'[j].left[k]
    <3>1. PICK i \in DOMAIN outbox : outbox'[j] = outbox[i]
      BY <1>8
    <3>2. ItemAt(outbox, opens, i)
      BY <1>2, <2>2, <3>1 DEF ItemAt
    <3> QED
      BY <2>2, <3>1, <3>2 DEF IInv, Menu, Unmixed
  <2>3. /\ \A i \in DOMAIN toPhone : toPhone[i].erase = 0 => Fresh
        /\ capacity = 0 => rows = <<>> /\ view # "list"
        /\ view = "list" => drawn <= Len(rows) /\ rows # <<>>
        /\ ~repeated /\ view = "list" => drawn = Len(rows) /\ Ascending(rows)
    BY DEF IInv, Menu, Unmixed
  <2> QED
    BY <1>2, <2>1, <2>2, <2>3 DEF Unmixed, Fresh
<1> QED
  BY <1>4, <1>5, <1>6, <1>7, <1>10, <1>11 DEF IInv, Menu

-----------------------------------------------------------------------------
(* The menu.                                                               *)

\* The window is opened: no message is on its way that is for it.
LEMMA OpenMenuStep == IInv /\ OpenMenu => IInv'
<1> SUFFICES ASSUME IInv, OpenMenu PROVE IInv'
  OBVIOUS
<1>1. /\ ~open /\ open' = TRUE /\ opens < MaxOpens /\ opens' = opens + 1
      /\ UNCHANGED <<now, stored, made, requests, pins, misfiled, outbox, view,
                     capacity, rows, drawn, picked, mixed, repeated, erased,
                     untold>>
      /\ \/ /\ toPhone = <<>>
            /\ toPhone' = <<[erase |-> 0, of |-> opens']>>
            /\ UNCHANGED unheard
         \/ unheard' = TRUE /\ UNCHANGED toPhone
  BY DEF OpenMenu, phone, timeline
<1>2. opens \in Nat /\ opens' \in Nat /\ opens <= opens' /\ MaxOpens \in Nat
  BY <1>1, RemindersAssumption DEF IInv, Holds
<1>3. Fresh
  BY <1>1 DEF IInv, Menu, Picked
<1>4. \A i \in DOMAIN outbox : outbox[i].of # opens'
  <2> SUFFICES ASSUME NEW i \in DOMAIN outbox PROVE outbox[i].of # opens'
    OBVIOUS
  <2>1. outbox[i] \in Item
    BY LenProperties, ElementOfSeq DEF IInv, Wired
  <2>2. outbox[i].of \in Nat /\ outbox[i].of <= opens
    BY <2>1, RemindersAssumption DEF Item, Delivery
  <2> QED
    BY <1>1, <1>2, <2>2
<1> DEFINE r == [erase |-> 0, of |-> opens']
           s == <<r>>
<1>5. s \in Seq(Asked') /\ Len(s) = 1 /\ DOMAIN s = {1} /\ s[1] = r
      /\ r.erase = 0 /\ r.of = opens'
  <2>1. r.of \in 1..MaxOpens /\ r.of <= opens' /\ r.erase \in 0..MaxTime
    BY <1>1, <1>2, RemindersAssumption
  <2>2. r \in Asked'
    BY <2>1 DEF Asked, Message
  <2> QED
    BY <2>2
<1> HIDE DEF r, s
<1>6. \/ toPhone = <<>> /\ toPhone' = s /\ unheard' = unheard
      \/ unheard' = TRUE /\ toPhone' = toPhone
  BY <1>1 DEF r, s
<1>7. Stores' /\ Pinned'
  BY <1>1, StoreSame
<1>8. Erased'
  BY <1>1 DEF IInv, Erased
<1>9. Wired'
  <2>1. Seq(Asked) \subseteq Seq(Asked') /\ Seq(Item) \subseteq Seq(Item)'
    BY <1>1, <1>2, WiredGrows
  <2>2. toPhone' \in Seq(Asked') /\ Len(toPhone') <= 1
    <3>1. CASE toPhone' = s
      BY <1>5, <3>1, 1 <= 1
    <3>2. CASE toPhone' = toPhone
      BY <2>1, <3>2 DEF IInv, Wired
    <3> QED
      BY <1>6, <3>1, <3>2
  <2> QED
    BY <1>1, <2>1, <2>2 DEF IInv, Wired
<1>10. Holds'
  <2>1. opens' \in 0..MaxOpens /\ opens' > 0
    BY <1>1, <1>2
  <2> QED
    BY <1>1, <2>1 DEF IInv, Holds
<1>11. Picked' /\ Chain(outbox', opens')
  BY <1>1, <1>4 DEF IInv, Menu, Picked, Chain, CountAt, ItemAt
<1>12. Requesting'
  BY <1>1, <1>4, <1>5, <1>6 DEF Requesting
<1>13. Loading'
  BY <1>5, <1>6 DEF Loading
<1>14. Unmixed'
  <2>1. Fresh' /\ ~(capacity' > 0)
    BY <1>1, <1>3 DEF Fresh
  <2> QED
    BY <2>1 DEF Unmixed, Fresh
<1> QED
  BY <1>7, <1>8, <1>9, <1>10, <1>11, <1>12, <1>13, <1>14 DEF IInv, Menu

\* A window that is gone keeps nothing.
LEMMA ClosedFacts ==
    ASSUME IInv, Closed, UNCHANGED <<made, opens>>
    PROVE  Holds' /\ Menu'
<1>1. /\ rows' \in Seq(made') /\ Len(rows') = 0 /\ 0 <= MaxTime
      /\ 0 \in 0..MaxTime
  BY EmptySeq, RemindersAssumption DEF Closed
<1>2. Holds'
  BY <1>1, ~(0 > 0) DEF Closed, IInv, Holds
<1>3. Menu'
  BY DEF Closed, Menu, Picked, Fresh, Requesting, Loading, Unmixed
<1> QED
  BY <1>2, <1>3

\* The window is closed.
LEMMA CloseMenuStep == IInv /\ CloseMenu => IInv'
<1> SUFFICES ASSUME IInv, CloseMenu PROVE IInv'
  OBVIOUS
<1>1. /\ Closed
      /\ UNCHANGED <<now, stored, made, requests, pins, misfiled, toPhone,
                     outbox, opens, erased, untold>>
  BY DEF CloseMenu, phone, timeline, wire
<1>2. Wired'
  BY <1>1 DEF IInv, Wired, Asked, Item
<1>3. Erased'
  BY <1>1 DEF IInv, Erased
<1> QED
  BY <1>1, <1>2, <1>3, StoreSame, ClosedFacts DEF IInv

\* The app ends: a deletion on its way is not heard of.
LEMMA AppEndsStep == IInv /\ AppEnds => IInv'
<1> SUFFICES ASSUME IInv, AppEnds PROVE IInv'
  OBVIOUS
<1>1. /\ Closed /\ toPhone' = <<>> /\ outbox' = <<>>
      /\ untold' = (untold \/ \E i \in DOMAIN toPhone : toPhone[i].erase # 0)
      /\ UNCHANGED <<now, stored, made, requests, pins, misfiled, opens, erased>>
  BY DEF AppEnds, phone, timeline
<1>2. Wired'
  <2>1. toPhone' \in Seq(Asked') /\ outbox' \in Seq(Item') /\ Len(toPhone') = 0
    BY <1>1, EmptySeq
  <2> QED
    BY <2>1 DEF Wired
<1>3. Erased'
  BY <1>1 DEF IInv, Erased
<1> QED
  BY <1>1, <1>2, <1>3, StoreSame, ClosedFacts DEF IInv

\* The action menu opens or closes, and nothing else happens.
LEMMA PickStep ==
    ASSUME IInv, SelectRow \/ Back
    PROVE  IInv'
<1>1. /\ UNCHANGED <<now, stored, made, requests, pins, misfiled, toPhone,
                     outbox, open, opens, view, capacity, rows, drawn, unheard,
                     mixed, repeated, erased, untold>>
      /\ picked' = 0 \/ (open /\ view = "list" /\ picked' \in made)
  <2>1. CASE Back
    BY <2>1 DEF Back, phone, timeline, wire, histories, faults
  <2>2. CASE SelectRow
    <3>1. PICK i \in 1..drawn : picked' \in IF i <= Len(rows) THEN {rows[i]} ELSE made
      BY <2>2 DEF SelectRow
    <3>2. i <= Len(rows) => rows[i] \in made
      <4>1. rows \in Seq(made) /\ Len(rows) \in Nat /\ i \in Nat /\ i >= 1
        BY LenProperties, RemindersAssumption DEF IInv, Holds
      <4>2. i <= Len(rows) => i \in 1..Len(rows)
        BY <4>1
      <4> QED
        BY <4>1, <4>2, ElementOfSeq
    <3>3. picked' \in made
      BY <3>1, <3>2
    <3> QED
      BY <2>2, <3>3 DEF SelectRow, phone, timeline, wire, histories, faults
  <2> QED
    BY <2>1, <2>2
<1>2. picked' \in {0} \union made
  BY <1>1
<1>3. Wired'
  BY <1>1 DEF IInv, Wired, Asked, Item
<1>4. Holds'
  BY <1>1, <1>2 DEF IInv, Holds
<1>5. Menu'
  BY <1>1 DEF IInv, Menu, Picked, Fresh, Chain, CountAt, ItemAt, Requesting,
              Loading, Unmixed
<1>6. Erased'
  BY <1>1 DEF IInv, Erased
<1> QED
  BY <1>1, <1>3, <1>4, <1>5, <1>6, StoreSame DEF IInv

\* RemoveAt() moves what is behind one place up.
LEMMA Removed ==
    ASSUME NEW S, NEW s \in Seq(S), NEW i \in 1..Len(s)
    PROVE  LET r == RemoveAt(s, i)
           IN  /\ r \in Seq(S)
               /\ Len(r) = Len(s) - 1
               /\ \A j \in 1..Len(s) - 1 : r[j] = s[IF j < i THEN j ELSE j + 1]
<1> DEFINE u == SubSeq(s, 1, i - 1)
           v == SubSeq(s, i + 1, Len(s))
<1>1. Len(s) \in Nat
  OBVIOUS
<1>2. \A j \in 1..Len(s) : s[j] \in S
  BY ElementOfSeq
<1>3. /\ u \in Seq(S)
      /\ Len(u) = i - 1
      /\ \A j \in 1..i - 1 : u[j] = s[j]
  <2>1. \A j \in 1..i - 1 : s[j] \in S
    BY <1>1, <1>2
  <2>2. /\ u \in Seq(S)
        /\ Len(u) = IF 1 <= i - 1 THEN i - 1 - 1 + 1 ELSE 0
        /\ \A j \in 1..i - 1 - 1 + 1 : u[j] = s[1 + j - 1]
    BY <1>1, <2>1, SubSeqProperties
  <2> HIDE DEF u
  <2> QED
    BY <1>1, <2>2
<1>4. /\ v \in Seq(S)
      /\ Len(v) = Len(s) - i
      /\ \A j \in 1..Len(s) - i : v[j] = s[i + j]
  <2>1. \A j \in i + 1..Len(s) : s[j] \in S
    BY <1>1, <1>2
  <2>2. /\ v \in Seq(S)
        /\ Len(v) = IF i + 1 <= Len(s) THEN Len(s) - (i + 1) + 1 ELSE 0
        /\ \A j \in 1..Len(s) - (i + 1) + 1 : v[j] = s[i + 1 + j - 1]
    BY <1>1, <2>1, SubSeqProperties
  <2> HIDE DEF v
  <2> QED
    BY <1>1, <2>2
<1> HIDE DEF u, v
<1>5. /\ u \o v \in Seq(S)
      /\ Len(u \o v) = Len(u) + Len(v)
      /\ \A j \in 1..Len(u) + Len(v) :
            (u \o v)[j] = IF j <= Len(u) THEN u[j] ELSE v[j - Len(u)]
  BY <1>3, <1>4, ConcatProperties
<1>6. ASSUME NEW j \in 1..Len(s) - 1
      PROVE  (u \o v)[j] = s[IF j < i THEN j ELSE j + 1]
  <2>1. CASE j < i
    BY <1>1, <1>3, <1>4, <1>5, <2>1
  <2>2. CASE ~(j < i)
    <3>1. (u \o v)[j] = v[j - (i - 1)] /\ j - (i - 1) \in 1..Len(s) - i
      BY <1>1, <1>3, <1>4, <1>5, <2>2
    <3>2. v[j - (i - 1)] = s[i + (j - (i - 1))]
      BY <1>4, <3>1
    <3>3. i + (j - (i - 1)) = j + 1
      BY <1>1
    <3> QED
      BY <2>2, <3>1, <3>2, <3>3
  <2> QED
    BY <2>1, <2>2
<1>7. /\ u \o v \in Seq(S)
      /\ Len(u \o v) = Len(s) - 1
      /\ \A j \in 1..Len(s) - 1 :
            (u \o v)[j] = s[IF j < i THEN j ELSE j + 1]
  <2>1. Len(u) + Len(v) = Len(s) - 1
    BY <1>1, <1>3, <1>4
  <2> QED
    BY <1>5, <1>6, <2>1
<1> QED
  BY <1>7 DEF u, v, RemoveAt

\* A row is deleted, if it is still there, and the phone is told, or not.
LEMMA DeleteRowStep == IInv /\ DeleteRow => IInv'
<1> SUFFICES ASSUME IInv, DeleteRow PROVE IInv'
  OBVIOUS
<1>1. /\ picked # 0 /\ picked' = 0 /\ erased' = erased \union ({picked} \intersect stored)
      /\ UNCHANGED <<now, stored, made, requests, pins, misfiled, outbox, open,
                     opens, capacity, unheard, mixed, repeated>>
      /\ \/ /\ toPhone = <<>> /\ toPhone' = <<[erase |-> picked, of |-> opens]>>
            /\ UNCHANGED untold
         \/ untold' = TRUE /\ UNCHANGED toPhone
  BY DEF DeleteRow, phone, timeline
<1>2. \/ UNCHANGED <<rows, view, drawn>>
      \/ \E i \in DOMAIN rows :
            /\ rows' = RemoveAt(rows, i)
            /\ \/ rows' = <<>> /\ view' = "empty" /\ UNCHANGED drawn
               \/ rows' # <<>> /\ drawn' = Len(rows') /\ UNCHANGED view
  BY DEF DeleteRow
<1>3. open /\ view # "loading" /\ view' # "loading" /\ picked \in made
  BY <1>1, <1>2 DEF IInv, Holds, Menu, Picked
<1> DEFINE r == [erase |-> picked, of |-> opens]
           s == <<r>>
<1>4. /\ s \in Seq(Asked) /\ Len(s) = 1 /\ DOMAIN s = {1} /\ s[1] = r
      /\ r.erase = picked
  <2>1. opens \in 1..MaxOpens /\ opens <= opens /\ picked \in 0..MaxTime
    BY <1>3, RemindersAssumption DEF IInv, Holds, Stores, Reminder
  <2>2. r \in Asked
    BY <1>3, <2>1 DEF Asked, Message
  <2> QED
    BY <2>2
<1> HIDE DEF s
<1>5. \/ toPhone = <<>> /\ toPhone' = s /\ untold' = untold
      \/ untold' = TRUE /\ toPhone' = toPhone
  BY <1>1 DEF s
<1> HIDE DEF r
<1>6. Wired'
  <2>1. Asked' = Asked /\ Item' = Item
    BY <1>1 DEF Asked, Item
  <2>2. toPhone' \in Seq(Asked) /\ Len(toPhone') <= 1
    <3>1. CASE toPhone' = s
      BY <1>4, <3>1, 1 <= 1
    <3>2. CASE toPhone' = toPhone
      BY <3>2 DEF IInv, Wired
    <3> QED
      BY <1>5, <3>1, <3>2
  <2> QED
    BY <1>1, <2>1, <2>2 DEF IInv, Wired
<1>7. Erased'
  <2> SUFFICES ASSUME NEW q \in erased'
               PROVE  q # 0 /\ ((\E i \in DOMAIN toPhone' : toPhone'[i].erase = q) \/ untold')
    BY DEF Erased
  <2>1. q \in erased \/ q = picked
    BY <1>1
  <2>2. CASE toPhone = <<>> /\ toPhone' = s /\ untold' = untold
    <3>1. DOMAIN toPhone = {}
      BY <2>2
    <3>2. CASE q = picked
      BY <1>1, <1>4, <2>2, <3>2
    <3>3. CASE q \in erased
      BY <2>2, <3>1, <3>3 DEF IInv, Erased
    <3> QED
      BY <2>1, <3>2, <3>3
  <2>3. CASE untold' = TRUE /\ toPhone' = toPhone
    BY <1>1, <2>1, <2>3 DEF IInv, Erased
  <2> QED
    BY <1>5, <2>2, <2>3
\* What is left of the list is in order.
<1>8. /\ rows \in Seq(made) /\ Len(rows) \in Nat /\ DOMAIN rows = 1..Len(rows)
      /\ Len(rows) <= MaxTime /\ MaxTime \in Nat /\ capacity \in Nat
  BY LenProperties, RemindersAssumption DEF IInv, Holds
<1>9. ASSUME NEW i \in DOMAIN rows, rows' = RemoveAt(rows, i)
      PROVE  /\ rows' \in Seq(made) /\ Len(rows') = Len(rows) - 1
             /\ Len(rows') \in Nat
             /\ Ascending(rows) => Ascending(rows')
  <2> DEFINE k == Len(rows)
  <2>1. /\ rows' \in Seq(made) /\ Len(rows') = k - 1
        /\ \A j \in 1..k - 1 : rows'[j] = rows[IF j < i THEN j ELSE j + 1]
    <3>1. i \in 1..Len(rows)
      BY <1>8
    <3> QED
      BY <1>8, <1>9, <3>1, Removed
  <2>2. DOMAIN rows' = 1..k - 1 /\ Len(rows') \in Nat
    BY <2>1, LenProperties
  <2>3. ASSUME Ascending(rows), NEW p \in DOMAIN rows', NEW q \in DOMAIN rows', p < q
        PROVE  rows'[p] < rows'[q]
    <3> DEFINE u == IF p < i THEN p ELSE p + 1
               v == IF q < i THEN q ELSE q + 1
    <3>1. u \in 1..k /\ v \in 1..k /\ u < v
      <4>1. k \in Nat /\ i \in 1..k /\ p \in 1..k - 1 /\ q \in 1..k - 1 /\ p < q
        BY <1>8, <2>2, <2>3
      <4> HIDE DEF k
      <4> QED
        BY <4>1
    <3>2. rows'[p] = rows[u] /\ rows'[q] = rows[v]
      BY <2>1, <2>2
    <3> HIDE DEF u, v
    <3> QED
      BY <1>8, <2>3, <3>1, <3>2 DEF Ascending
  <2> QED
    BY <2>1, <2>2, <2>3 DEF Ascending
<1>10. Holds'
  <2>1. CASE UNCHANGED <<rows, view, drawn>>
    BY <1>1, <2>1 DEF IInv, Holds
  <2>2. CASE \E i \in DOMAIN rows :
                /\ rows' = RemoveAt(rows, i)
                /\ \/ rows' = <<>> /\ view' = "empty" /\ UNCHANGED drawn
                   \/ rows' # <<>> /\ drawn' = Len(rows') /\ UNCHANGED view
    <3>1. PICK i \in DOMAIN rows :
                /\ rows' = RemoveAt(rows, i)
                /\ \/ rows' = <<>> /\ view' = "empty" /\ UNCHANGED drawn
                   \/ rows' # <<>> /\ drawn' = Len(rows') /\ UNCHANGED view
      BY <2>2
    <3>2. rows' \in Seq(made) /\ Len(rows') = Len(rows) - 1 /\ Len(rows') \in Nat
      BY <1>9, <3>1
    <3>3. Len(rows') <= MaxTime /\ (capacity > 0 => Len(rows') <= capacity)
          /\ Len(rows') \in 0..MaxTime
      <4>1. capacity > 0 => Len(rows) <= capacity
        BY DEF IInv, Holds
      <4> QED
        BY <1>8, <3>2, <4>1
    <3>4. drawn' \in 0..MaxTime /\ view' \in {"loading", "list", "empty"}
      BY <3>1, <3>3 DEF IInv, Holds
    <3> QED
      BY <1>1, <3>2, <3>3, <3>4 DEF IInv, Holds
  <2> QED
    BY <1>2, <2>1, <2>2
<1>11. Picked' /\ Chain(outbox', opens')
  BY <1>1, <1>3 DEF IInv, Menu, Picked
<1>12. \A i \in DOMAIN toPhone' :
          \/ toPhone'[i].erase # 0
          \/ toPhone' = toPhone
  BY <1>1, <1>4, <1>5
<1>13. Requesting' /\ Loading'
  BY <1>1, <1>3, <1>12 DEF IInv, Menu, Requesting, Loading
<1>14. Unmixed'
  <2> SUFFICES ASSUME ~mixed PROVE Unmixed'
    BY <1>1 DEF Unmixed
  <2>1. \A i \in DOMAIN toPhone' : toPhone'[i].erase # 0
    BY <1>3, <1>12 DEF IInv, Menu, Unmixed, Fresh
  <2>2. \A i \in DOMAIN outbox' : ~CountAt(outbox', opens', i)
    BY <1>1, <1>3 DEF IInv, Menu, Unmixed, Fresh
  <2>3. capacity' = 0 => rows' = <<>> /\ view' # "list"
    <3> SUFFICES ASSUME capacity = 0 PROVE rows' = <<>> /\ view' # "list"
      BY <1>1
    <3>1. rows = <<>> /\ view # "list"
      BY <1>3 DEF IInv, Menu, Unmixed
    <3>2. DOMAIN rows = {}
      BY <3>1
    <3> QED
      BY <1>2, <3>1, <3>2
  <2>4. ASSUME ~repeated
        PROVE  /\ \A i \in DOMAIN outbox' : ItemAt(outbox', opens', i) => ~(capacity' > 0)
               /\ view' = "list" => drawn' = Len(rows') /\ Ascending(rows')
    <3>1. \A i \in DOMAIN outbox' : ItemAt(outbox', opens', i) => ~(capacity' > 0)
      BY <1>1, <1>3, <2>4 DEF IInv, Menu, Unmixed, ItemAt
    <3>2. ASSUME view' = "list"
          PROVE  drawn' = Len(rows') /\ Ascending(rows')
      <4>1. view = "list"
        BY <1>2, <3>2
      <4>2. drawn = Len(rows) /\ Ascending(rows)
        BY <1>3, <2>4, <4>1 DEF IInv, Menu, Unmixed
      <4>3. CASE UNCHANGED <<rows, view, drawn>>
        BY <4>2, <4>3 DEF Ascending
      <4>4. CASE \E i \in DOMAIN rows : rows' = RemoveAt(rows, i) /\ rows' # <<>>
                                         /\ drawn' = Len(rows')
        <5>1. Ascending(rows')
          BY <1>9, <4>2, <4>4
        <5> QED
          BY <4>4, <5>1
      <4> QED
        BY <1>2, <3>2, <4>3, <4>4
    <3> QED
      BY <3>1, <3>2
  <2>5. view' = "list" => drawn' <= Len(rows') /\ rows' # <<>>
    <3>1. view = "list" => drawn <= Len(rows) /\ rows # <<>>
      BY <1>3 DEF IInv, Menu, Unmixed
    <3>2. \A i \in DOMAIN rows : rows' = RemoveAt(rows, i) => Len(rows') \in Nat
      BY <1>9
    <3> QED
      BY <1>2, <3>1, <3>2
  <2> QED
    BY <1>1, <2>1, <2>2, <2>3, <2>4, <2>5 DEF Unmixed
<1> QED
  BY <1>1, <1>6, <1>7, <1>10, <1>11, <1>13, <1>14, StoreSame DEF IInv, Menu

-----------------------------------------------------------------------------
(* The request for the list.                                               *)

\* The list that is sent is sorted, and no longer than there are reminders.
LEMMA ListFacts ==
    ASSUME IInv, NEW list \in AllReminders, NEW of \in 1..MaxOpens, of <= opens
    PROVE  /\ list \in Seq(made)
           /\ LET t == Transfer(list, of)
              IN  /\ t \in Seq(Item) /\ Len(t) \in {1, 2}
                  /\ t[1].count /\ t[1].left = list /\ t[1].of = of
                  /\ Len(t) = 1 => list = <<>>
                  /\ Len(t) = 2 => ~t[2].count /\ t[2].left = list /\ t[2].of = of
<1> DEFINE coming == {r \in Kept : r > now}
           n == Cardinality(coming)
<1>1. coming \subseteq made /\ made \subseteq 1..MaxTime /\ coming \subseteq 1..MaxTime
  BY KeptFacts DEF IInv, Stores, Reminder
<1>2. IsFiniteSet(coming) /\ n \in Nat /\ n <= MaxTime
  <2>1. IsFiniteSet(1..MaxTime) /\ Cardinality(1..MaxTime) = MaxTime
    <3>1. 1 \in Int /\ MaxTime \in Int /\ (1 > MaxTime => MaxTime = 0)
      BY RemindersAssumption
    <3>2. /\ IsFiniteSet(1..MaxTime)
          /\ Cardinality(1..MaxTime) = IF 1 > MaxTime THEN 0 ELSE MaxTime - 1 + 1
      BY <3>1, FS_Interval
    <3> QED
      BY <3>1, <3>2, RemindersAssumption
  <2>2. IsFiniteSet(coming) /\ n <= MaxTime
    BY <1>1, <2>1, FS_Subset
  <2> QED
    BY <2>2, FS_CardinalityType
<1>3. list \in [1..n -> coming] /\ Ascending(list)
  BY DEF AllReminders
<1> HIDE DEF coming, n
<1>4. list \in Seq(made) /\ Len(list) = n
  <2>1. list \in [1..n -> made]
    BY <1>1, <1>3
  <2> QED
    BY <1>2, <1>3, <2>1, LenProperties
<1>5. list \in Seq(Reminder)
  BY <1>1, <1>4, SeqMonotonic DEF Reminder
<1> DEFINE c == [count |-> TRUE, left |-> list, of |-> of]
           i == [count |-> FALSE, left |-> list, of |-> of]
           s == <<c>>
<1>6. c \in Item
  BY <1>2, <1>3, <1>4, <1>5 DEF Item, Delivery
<1>7. list # <<>> => i \in Item
  BY <1>2, <1>3, <1>4, <1>5 DEF Item, Delivery
<1>8. s \in Seq(Item) /\ Len(s) = 1 /\ s[1] = c
  BY <1>6
<1>9. CASE list = <<>>
  <2>1. Transfer(list, of) = s
    <3>1. s \o <<>> = s
      BY <1>8, ConcatEmptySeq
    <3> QED
      BY <1>9, <3>1 DEF Transfer
  <2> HIDE DEF s
  <2> QED
    BY <1>4, <1>8, <1>9, <2>1
<1>10. CASE list # <<>>
  <2> DEFINE z == <<i>>
  <2>1. Transfer(list, of) = s \o z
    BY <1>10 DEF Transfer
  <2>2. z \in Seq(Item) /\ Len(z) = 1 /\ z[1] = i
    BY <1>7, <1>10
  <2> HIDE DEF s, z
  <2>3. /\ s \o z \in Seq(Item) /\ Len(s \o z) = 2
        /\ (s \o z)[1] = c /\ (s \o z)[2] = i
    <3>1. /\ s \o z \in Seq(Item) /\ Len(s \o z) = Len(s) + Len(z)
          /\ \A j \in 1..Len(s) + Len(z) :
                (s \o z)[j] = IF j <= Len(s) THEN s[j] ELSE z[j - Len(s)]
      BY <1>8, <2>2, ConcatProperties
    <3>2. Len(s) + Len(z) = 2 /\ 1 \in 1..2 /\ 2 \in 1..2
      BY <1>8, <2>2
    <3>3. (s \o z)[1] = s[1] /\ (s \o z)[2] = z[1]
      <4>1. (s \o z)[2] = z[2 - 1]
        BY <1>8, <3>1, <3>2
      <4>2. (s \o z)[1] = s[1]
        BY <1>8, <3>1, <3>2, 1 <= 1
      <4>3. 2 - 1 = 1
        OBVIOUS
      <4> QED
        BY <4>1, <4>2, <4>3
    <3> QED
      BY <1>8, <2>2, <3>1, <3>2, <3>3
  <2> QED
    BY <1>4, <2>1, <2>3
<1> QED
  BY <1>9, <1>10

\* The phone hears the watch: the menu's list is put behind what is to be sent
\* still, or a reminder is deleted.
LEMMA PhoneHearsStep == IInv /\ PhoneHears => IInv'
<1> SUFFICES ASSUME IInv, PhoneHears PROVE IInv'
  OBVIOUS
<1> DEFINE m == toPhone[1]
<1>1. /\ toPhone # <<>> /\ toPhone' = <<>>
      /\ UNCHANGED <<now, pins, misfiled, open, opens, view, capacity, rows,
                     drawn, picked, unheard, mixed, repeated, untold>>
      /\ \/ /\ Head(toPhone).erase = 0
            /\ Store(Kept)
            /\ \E list \in AllReminders :
                  outbox' = outbox \o Transfer(list, Head(toPhone).of)
            /\ UNCHANGED <<made, requests>>
         \/ /\ Head(toPhone).erase # 0 /\ Erase(Head(toPhone).erase)
            /\ UNCHANGED outbox
  BY DEF PhoneHears, timeline, menu, faults
<1>2. /\ DOMAIN toPhone = {1} /\ Head(toPhone) = m /\ m \in Asked
      /\ DOMAIN toPhone' = {}
  <2>1. toPhone \in Seq(Asked) /\ Len(toPhone) <= 1 /\ Len(toPhone) \in Nat
        /\ Len(toPhone) # 0 /\ DOMAIN toPhone = 1..Len(toPhone)
    BY <1>1, EmptySeq, LenProperties DEF IInv, Wired
  <2>2. Len(toPhone) = 1
    BY <2>1
  <2> QED
    BY <1>1, <2>1, <2>2, ElementOfSeq
<1> HIDE DEF m
<1>3. toPhone' \in Seq(Asked') /\ Len(toPhone') <= 1
  BY <1>1, EmptySeq
<1>4. Picked' /\ Requesting'
  BY <1>1, <1>2 DEF IInv, Menu, Picked, Fresh, Requesting
<1>5. CASE m.erase # 0
  <2>1. Erase(m.erase) /\ outbox' = outbox
    BY <1>1, <1>2, <1>5
  <2>2. Stores' /\ Pinned' /\ made' = made /\ erased' \subseteq erased \ {m.erase}
    BY <1>1, <2>1, EraseStep DEF timeline
  <2>3. Erased'
    BY <1>1, <1>2, <2>2 DEF IInv, Erased, m
  <2>4. Wired'
    <3>1. Item' = Item
      BY <1>1, <2>2 DEF Item
    <3> QED
      BY <1>3, <2>1, <3>1 DEF IInv, Wired
  <2>5. Holds'
    BY <1>1, <2>2 DEF IInv, Holds
  <2>6. (open => Chain(outbox, opens))'
    BY <1>1, <2>1 DEF IInv, Menu
  <2>7. Loading' /\ Unmixed'
    <3>1. \A i \in DOMAIN toPhone : toPhone[i].erase # 0
      BY <1>2, <1>5 DEF m
    <3>2. Loading'
      BY <1>1, <2>1, <3>1 DEF IInv, Menu, Loading, CountAt, ItemAt
    <3>3. Unmixed'
      BY <1>1, <1>2, <2>1 DEF IInv, Menu, Unmixed, CountAt, ItemAt, Fresh
    <3> QED
      BY <3>2, <3>3
  <2> QED
    BY <1>4, <2>2, <2>3, <2>4, <2>5, <2>6, <2>7 DEF IInv, Menu
<1>6. CASE m.erase = 0
  <2>1. /\ Store(Kept) /\ UNCHANGED <<made, requests>>
        /\ \E list \in AllReminders : outbox' = outbox \o Transfer(list, m.of)
    BY <1>1, <1>2, <1>6
  <2>2. Stores' /\ Pinned'
    BY <1>1, <2>1, CleanupStep DEF timeline
  <2>3. Erased'
    BY <1>1, <1>2, <1>6, <2>1 DEF IInv, Erased, Store, m
  <2>4. Holds'
    BY <1>1, <2>1 DEF IInv, Holds
  <2>5. PICK list \in AllReminders : outbox' = outbox \o Transfer(list, m.of)
    BY <2>1
  <2> DEFINE t == Transfer(list, m.of)
             n == Len(outbox)
             k == Len(t)
             b == outbox'
  <2>6. m.of \in 1..MaxOpens /\ m.of <= opens
    BY <1>2 DEF Asked, Message
  <2>7. /\ t \in Seq(Item) /\ k \in {1, 2}
        /\ t[1].count /\ t[1].left = list /\ t[1].of = m.of
        /\ k = 1 => list = <<>>
        /\ k = 2 => ~t[2].count /\ t[2].left = list /\ t[2].of = m.of
    BY <2>6, ListFacts
  <2> HIDE DEF t
  <2>8. /\ b \in Seq(Item) /\ DOMAIN b = 1..n + k /\ n \in Nat
        /\ DOMAIN outbox = 1..n
        /\ \A i \in 1..n + k : b[i] = IF i <= n THEN outbox[i] ELSE t[i - n]
    <3>1. outbox \in Seq(Item) /\ n \in Nat /\ DOMAIN outbox = 1..n
      BY LenProperties DEF IInv, Wired
    <3>2. b = outbox \o t
      BY <2>5 DEF t
    <3>3. /\ b \in Seq(Item) /\ Len(b) = n + k
          /\ \A i \in 1..n + k : b[i] = IF i <= n THEN outbox[i] ELSE t[i - n]
      <4> HIDE DEF b
      <4> QED
        BY <2>7, <3>1, <3>2, ConcatProperties
    <3> QED
      BY <3>1, <3>3, LenProperties
  <2> HIDE DEF n, k
\* What was there is, and behind it the count and, if any, the item.
  <2>9. /\ \A i \in DOMAIN outbox : i \in DOMAIN b /\ b[i] = outbox[i] /\ i < n + 1
        /\ n + 1 \in DOMAIN b /\ b[n + 1] = t[1]
        /\ k = 2 => n + 2 \in DOMAIN b /\ b[n + 2] = t[2]
        /\ \A i \in DOMAIN b :
              i \in DOMAIN outbox \/ i = n + 1 \/ (k = 2 /\ i = n + 2)
        /\ n \in Nat
    <3>1. \A i \in DOMAIN outbox : i \in DOMAIN b /\ b[i] = outbox[i] /\ i < n + 1
      BY <2>7, <2>8
    <3>2. n + 1 \in DOMAIN b /\ b[n + 1] = t[1]
      <4>1. n + 1 \in 1..n + k /\ ~(n + 1 <= n) /\ (n + 1) - n = 1
        BY <2>7, <2>8
      <4> QED
        BY <2>8, <4>1
    <3>3. k = 2 => n + 2 \in DOMAIN b /\ b[n + 2] = t[2]
      <4> SUFFICES ASSUME k = 2 PROVE n + 2 \in DOMAIN b /\ b[n + 2] = t[2]
        OBVIOUS
      <4>1. n + 2 \in 1..n + k /\ ~(n + 2 <= n) /\ (n + 2) - n = 2
        BY <2>8
      <4> QED
        BY <2>8, <4>1
    <3>4. \A i \in DOMAIN b :
              i \in DOMAIN outbox \/ i = n + 1 \/ (k = 2 /\ i = n + 2)
      BY <2>7, <2>8
    <3> QED
      BY <2>8, <3>1, <3>2, <3>3, <3>4
  <2> HIDE DEF b
  <2>10. outbox' = b
    BY DEF b
  <2>11. Wired'
    <3>1. Item' = Item
      BY <1>1, <2>1 DEF Item
    <3> QED
      BY <1>3, <2>8, <2>10, <3>1 DEF Wired
\* Nothing of the open menu's was there.
  <2>12. open => /\ \A j \in DOMAIN outbox : outbox[j].of # opens
                 /\ m.of # opens => unheard
    BY <1>2, <1>6 DEF IInv, Menu, Requesting, m
  <2>13. ASSUME open, NEW i \in DOMAIN b, b[i].of = opens
         PROVE  /\ m.of = opens
                /\ i = n + 1 \/ (k = 2 /\ i = n + 2)
    BY <2>7, <2>9, <2>12, <2>13
  <2>14. ASSUME open PROVE Chain(b, opens)
    <3>1. ASSUME NEW i \in DOMAIN b, CountAt(b, opens, i) PROVE i = n + 1
      BY <2>7, <2>9, <2>13, <2>14, <3>1 DEF CountAt
    <3>2. ASSUME NEW i \in DOMAIN b, ItemAt(b, opens, i) PROVE i = n + 2 /\ k = 2
      BY <2>7, <2>9, <2>13, <2>14, <3>2 DEF ItemAt
    <3>3. ASSUME NEW i \in DOMAIN b, b[i].count PROVE i <= n + 1
      BY <2>7, <2>8, <2>9, <3>3
    <3>4. ASSUME NEW i \in DOMAIN b, CountAt(b, opens, i), b[i].left # <<>>
          PROVE  \E j \in DOMAIN b : ItemAt(b, opens, j)
      <4>1. i = n + 1 /\ m.of = opens
        BY <2>13, <2>14, <3>1, <3>4 DEF CountAt
      <4>2. k = 2
        BY <2>7, <2>9, <3>4, <4>1
      <4>3. ItemAt(b, opens, n + 2)
        BY <2>7, <2>9, <4>1, <4>2 DEF ItemAt
      <4> QED
        BY <2>9, <4>2, <4>3
    <3>5. ASSUME NEW i \in DOMAIN b, ItemAt(b, opens, i)
          PROVE  CountAt(b, opens, n + 1) /\ n + 1 \in DOMAIN b
      <4>1. m.of = opens
        BY <2>13, <2>14, <3>5 DEF ItemAt
      <4> QED
        BY <2>7, <2>9, <4>1 DEF CountAt
    <3>6. ASSUME NEW i \in DOMAIN b, NEW j \in DOMAIN b,
                 CountAt(b, opens, i), ItemAt(b, opens, j)
          PROVE  i < j /\ b[i].left = b[j].left
      <4>1. i = n + 1 /\ j = n + 2 /\ k = 2
        BY <3>1, <3>2, <3>6
      <4> QED
        BY <2>7, <2>9, <4>1
    <3> QED
      BY <3>1, <3>2, <3>3, <3>4, <3>5, <3>6 DEF Chain
  <2>15. Loading'
    <3> SUFFICES ASSUME open, ~unheard PROVE Loading'
      BY <1>1 DEF Loading
    <3>1. CountAt(b, opens, n + 1)
      BY <2>7, <2>9, <2>12 DEF CountAt
    <3> QED
      BY <1>1, <2>9, <2>10, <3>1 DEF Loading
  <2>16. Unmixed'
    <3> SUFFICES ASSUME open, ~mixed PROVE Unmixed'
      BY <1>1 DEF Unmixed
    <3>1. Fresh
      BY <1>2, <1>6 DEF IInv, Menu, Unmixed, m
    <3>2. Fresh' /\ ~(capacity' > 0)
      BY <1>1, <3>1 DEF Fresh
    <3> QED
      BY <3>2 DEF Unmixed, Fresh
  <2> QED
    BY <1>1, <1>4, <2>2, <2>3, <2>4, <2>10, <2>11, <2>14, <2>15, <2>16 DEF IInv, Menu
<1> QED
  BY <1>5, <1>6

-----------------------------------------------------------------------------
(* The theorems.                                                           *)

\* Every step keeps the invariant.
LEMMA NextStep == IInv /\ [Next]_vars => IInv'
<1> SUFFICES ASSUME IInv, [Next]_vars PROVE IInv'
  OBVIOUS
<1>1. CASE AddReminder
  BY <1>1, AddReminderStep
<1>2. CASE DeleteReminder
  BY <1>2, DeleteReminderStep
<1>3. CASE GetReminders
  BY <1>3, GetRemindersStep
<1>4. CASE PinRequestServed \/ PinRequestFails
  BY <1>4, PinRequestStep
<1>5. CASE Tick
  BY <1>5, TickStep
<1>6. CASE PhoneHears
  BY <1>6, PhoneHearsStep
<1>7. CASE Delivered
  BY <1>7, DeliveredStep
<1>8. CASE DeliveryFails
  BY <1>8, DeliveryFailsStep
<1>9. CASE AcknowledgementLost
  BY <1>9, AcknowledgementLostStep
<1>10. CASE OpenMenu
  BY <1>10, OpenMenuStep
<1>11. CASE CloseMenu
  BY <1>11, CloseMenuStep
<1>12. CASE SelectRow \/ Back
  BY <1>12, PickStep
<1>13. CASE DeleteRow
  BY <1>13, DeleteRowStep
<1>14. CASE AppEnds
  BY <1>14, AppEndsStep
<1>15. CASE UNCHANGED vars
  <2>1. /\ UNCHANGED <<now, stored, made, requests, pins, misfiled, erased,
                       wire, menu, faults>>
        /\ UNCHANGED <<toPhone, untold>>
    BY <1>15 DEF vars, phone, timeline, wire, histories, faults
  <2>2. Erased'
    BY <2>1 DEF IInv, Erased
  <2> QED
    BY <2>1, <2>2, StoreSame, MenuSame DEF IInv
<1> QED
  BY <1>1, <1>2, <1>3, <1>4, <1>5, <1>6, <1>7, <1>8, <1>9, <1>10, <1>11,
     <1>12, <1>13, <1>14, <1>15 DEF Next

\* The inductive invariant holds for any number of reminders and menus.
THEOREM InductiveInvariant == Spec => []IInv
<1>1. Init => IInv
  BY InitHolds
<1>2. IInv /\ [Next]_vars => IInv'
  BY NextStep
<1> QED
  BY <1>1, <1>2, PTL DEF Spec

\* What is stored, sent and shown is what it should be: a list fits in the
\* array of the menu, and what is shown, deleted or pinned are reminders that
\* were made (lib/reminders.js, reminders_menu.c).
THEOREM TypeCorrect == Spec => []TypeOK
<1>1. IInv => TypeOK
  BY Meaning
<1> QED
  BY <1>1, InductiveInvariant, PTL

\* What goes wrong with a menu of reminders or with a pin has one of the
\* reasons that RemindersExplained names, for any number of reminders, menus,
\* lost messages and requests to the timeline.
THEOREM RemindersAreExplained == Spec => []RemindersExplained
<1>1. IInv => RemindersExplained
  BY Meaning
<1> QED
  BY <1>1, InductiveInvariant, PTL
=============================================================================
