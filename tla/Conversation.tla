---------------------------- MODULE Conversation ----------------------------
(***************************************************************************)
(* One conversation on the watch and the window that shows it              *)
(* (app/src/c/converse: conversation.c, conversation_manager.c and         *)
(* session_window.c) while memory runs short.                              *)
(*                                                                         *)
(* The conversation is an array of entries; the window keeps an array of   *)
(* segments, one for each entry still alive, by position only.  Both are   *)
(* emptied from the front by the memory pressure callback, which bmalloc() *)
(* may call wherever a handler allocates: "todo" is the rest of the        *)
(* handler that is running, cut at its allocations.                        *)
(*                                                                         *)
(* Texts, heights and the vibration are left out, and so is the growth of  *)
(* the arrays.  Messages come in any order: the phone runs one session per *)
(* prompt and nothing stops two of them from answering at once.            *)
(***************************************************************************)
EXTENDS Integers, Sequences, FiniteSets

CONSTANTS
    MaxEntries,   \* bound: entries ever created in one conversation
    MaxWindows    \* bound: session windows opened one after the other

ASSUME ConversationAssumption ==
    /\ MaxEntries \in Nat
    /\ MaxWindows \in Nat

\* A widget of the phone and one the watch made itself behave differently.
Kind == {"Prompt", "Response", "Thought", "Action", "Error", "Widget",
         "LocalWidget"}

EntryType == Kind \union {"Deleted"}

Entry == [type : EntryType, open : BOOLEAN]

VARIABLES
    entries,         \* conversation->entries; open: a response, not complete
    deletedEntries,  \* conversation->deleted_entries
    nulledEntries,   \* conversation->nulled_entries
    segments,        \* sw->segment_layers: for each its entry, 0 for NULL
    segmentsDeleted, \* sw->segments_deleted
    thinking,        \* is there a thinking layer
    asking,          \* a dictation or the action menu may yet give a prompt
    todo,            \* the steps left of the handler that is running
    window,          \* is the session window there
    windows,         \* how many there have been
    stale,           \* is the callback of a freed manager still registered
    thoughts,        \* history: thoughts replaced by a later entry
    spared,          \* history: a failed dictation left an empty window there
    fault            \* the undefined behaviour the app has died of, or "none"

conversation == <<entries, deletedEntries, nulledEntries, thoughts>>
screen == <<segments, segmentsDeleted>>
session == <<window, windows, stale, spared>>
vars == <<conversation, screen, thinking, asking, todo, session, fault>>

Init ==
    /\ entries = <<>>
    /\ deletedEntries = 0
    /\ nulledEntries = 0
    /\ segments = <<>>
    /\ segmentsDeleted = 0
    /\ thinking = FALSE
    /\ thoughts = 0
    /\ asking = FALSE
    /\ todo = <<>>
    /\ window = FALSE
    /\ windows = 0
    /\ stale = FALSE
    /\ spared = FALSE
    /\ fault = "none"

Idle == window /\ todo = <<>> /\ fault = "none"

-----------------------------------------------------------------------------
(* The conversation.                                                       *)

Count == Len(entries)

\* conversation_peek() has an entry to return.
Nonempty == Count # deletedEntries

Last == entries[Count]

\* Mutant: the entries deleted from the front still count.
LengthOfAll == Count

\* conversation_length().
Length == Count - deletedEntries - nulledEntries

Open == {i \in (deletedEntries + 1)..Count :
            entries[i].type = "Response" /\ entries[i].open}

\* prv_find_last_open_response() finds entry i.
LastOpen(i) == i \in Open /\ \A j \in Open : j <= i

\* conversation_complete_response().
Completed == [i \in DOMAIN entries |->
                [entries[i] EXCEPT !.open = @ /\ ~LastOpen(i)]]

\* conversation_is_idle(): may the user speak?
IsIdle ==
    Nonempty =>
        \/ Last.type \in {"Error", "Widget", "LocalWidget"}
        \/ Last.type = "Response" /\ ~Last.open

\* Mutant: an action counts as an answer.
VisibleUnlessActed ==
    /\ Nonempty
    /\ \/ Last.type \in {"Prompt", "Thought", "LocalWidget"}
       \/ Last.type = "Response" /\ Last.open

\* prv_update_thinking_layer() decides whether to show the animation.
Visible ==
    /\ Nonempty
    /\ \/ Last.type \in {"Prompt", "Action", "Thought", "LocalWidget"}
       \/ Last.type = "Response" /\ Last.open

Destroyed == [type |-> "Deleted", open |-> FALSE]

-----------------------------------------------------------------------------
(* Handlers, cut at their allocations.                                     *)

Do(step) == [do |-> step, what |-> "Deleted"]

\* Actions and widgets allocate before prv_create_entry(), the others after;
\* a response is started, then appended to.  Each ends with a call of
\* prv_conversation_updated(manager, true): "show" and "display".
Build(kind) ==
    <<[do |-> "create", what |-> kind]>>
    \o (IF kind \in {"Action", "Widget", "LocalWidget"} THEN <<>>
        ELSE <<[do |-> "fill", what |-> kind]>>)
    \o (IF kind = "Response" THEN <<Do("append")>> ELSE <<>>)
    \o <<Do("show"), Do("display")>>

\* The bound on entries covers those that the steps of a handler make.
RoomFor(steps) ==
    Count + Cardinality({i \in DOMAIN steps : steps[i].do = "create"})
        <= MaxEntries

Running(step) ==
    /\ fault = "none"
    /\ todo # <<>>
    /\ Head(todo).do = step
    /\ todo' = Tail(todo)

\* prv_create_entry().  Prompts and responses are given their type at once,
\* before their content is there; thoughts and errors are nothing until then.
Create ==
    /\ Running("create")
    /\ LET kind == Head(todo).what IN
       entries' = Append(entries,
                     IF kind \in {"Thought", "Error"} THEN Destroyed
                     ELSE [type |-> kind, open |-> kind = "Response"])
    /\ UNCHANGED <<deletedEntries, nulledEntries, thoughts, screen, thinking,
                   asking, session, fault>>

Fill ==
    /\ Running("fill")
    /\ entries' = [entries EXCEPT ![Count].type = Head(todo).what]
    /\ UNCHANGED <<deletedEntries, nulledEntries, thoughts, screen, thinking,
                   asking, session, fault>>

\* prv_append_to_response() has found room for the fragment.
AppendFragment ==
    /\ Running("append")
    /\ UNCHANGED <<conversation, screen, thinking, asking, session, fault>>

\* The segment layer at the end shows a thought.
LastSegmentIsThought ==
    /\ Len(segments) > segmentsDeleted
    /\ entries[segments[Len(segments)]].type = "Thought"

\* Mutant: the search begins at the newest entry itself.
DeleteNewestThought ==
    \/ \E i \in (deletedEntries + 1)..Count :
          /\ entries[i].type = "Thought"
          /\ \A j \in (i + 1)..Count : entries[j].type # "Thought"
          /\ entries' = [entries EXCEPT ![i] = Destroyed]
          /\ thoughts' = thoughts + 1
    \/ /\ \A i \in (deletedEntries + 1)..Count :
             entries[i].type # "Thought"
       /\ UNCHANGED <<entries, thoughts>>

\* conversation_delete_last_thought(): the last one before the newest entry.
DeleteLastThought ==
    \/ \E i \in (deletedEntries + 1)..(Count - 1) :
          /\ entries[i].type = "Thought"
          /\ \A j \in (i + 1)..(Count - 1) : entries[j].type # "Thought"
          /\ entries' = [entries EXCEPT ![i] = Destroyed]
          /\ thoughts' = thoughts + 1
    \/ /\ \A i \in (deletedEntries + 1)..(Count - 1) :
             entries[i].type # "Thought"
       /\ UNCHANGED <<entries, thoughts>>

\* prv_conversation_manager_handler(true) up to segment_layer_create(): an
\* old thought goes.  Without an entry to show it logs an error and returns.
Show ==
    /\ fault = "none"
    /\ todo # <<>>
    /\ Head(todo).do = "show"
    /\ \/ /\ LastSegmentIsThought
          /\ segments' = SubSeq(segments, 1, Len(segments) - 1)
          /\ thinking' = Visible
          /\ DeleteLastThought
       \/ /\ ~LastSegmentIsThought
          /\ UNCHANGED <<segments, thinking, entries, thoughts>>
    /\ todo' = IF Nonempty THEN Tail(todo) ELSE Tail(Tail(todo))
    /\ UNCHANGED <<deletedEntries, nulledEntries, segmentsDeleted, asking,
                   session, fault>>

\* Mutant: the segment is tied to the place after the newest entry.
DisplayNext ==
    /\ Running("display")
    /\ segments' = Append(segments, Count + 1)
    /\ thinking' = Visible
    /\ UNCHANGED <<conversation, segmentsDeleted, asking, session, fault>>

\* ... and from there on, the segment layer having been created.
Display ==
    /\ Running("display")
    /\ segments' = Append(segments, Count)
    /\ thinking' = Visible
    /\ UNCHANGED <<conversation, segmentsDeleted, asking, session, fault>>

\* prv_conversation_manager_handler(false): segment_layer_update() changes
\* only texts and sizes, an info layer's text and icon being made with it.
Update ==
    /\ Running("update")
    /\ thinking' = IF Len(segments) > segmentsDeleted THEN Visible
                   ELSE thinking
    /\ UNCHANGED <<conversation, screen, asking, session, fault>>

-----------------------------------------------------------------------------
(* Memory pressure.                                                        *)

\* The response that prv_append_to_response() is copying into a new buffer.
Appending(i) == todo # <<>> /\ Head(todo).do = "append" /\ LastOpen(i)

\* An entry that has its type but not yet its content.
HalfBuilt(i) ==
    /\ todo # <<>>
    /\ Head(todo).do = "fill"
    /\ i = Count
    /\ entries[i].type # "Deleted"

\* conversation_delete_first_entry() skips entries that are deleted already
\* and stops at the k-th: nulled_entries, which nothing ever increments, is
\* decremented for each one skipped.
FirstAlive(k) ==
    /\ k \in (deletedEntries + 1)..(Count + 1)
    /\ k <= Count => entries[k].type # "Deleted"
    /\ \A i \in (deletedEntries + 1)..(k - 1) : entries[i].type = "Deleted"

\* What destroying the first segment and the k-th entry runs into.
FaultOf(k) ==
    IF segmentsDeleted = Len(segments) THEN "no_segment"
    ELSE IF k = Count + 1 THEN "no_entry"
    ELSE IF HalfBuilt(k) THEN "half_built"
    ELSE IF Appending(k) THEN "freed_response"
    ELSE "none"

\* prv_handle_memory_pressure(), from within a bmalloc() of the handler that
\* is running, or of any other code.  "show" and "update" allocate nothing but
\* at the end of "update" a thinking layer.
MemoryPressure ==
    /\ window
    /\ fault = "none"
    /\ todo # <<>> => Head(todo).do \notin {"show", "update"}
    /\ Length > 2
    /\ \E k \in 1..(Count + 1) :
          /\ FirstAlive(k)
          /\ fault' = FaultOf(k)
          /\ IF fault' \in {"no_segment", "no_entry"}
             THEN UNCHANGED <<entries, deletedEntries, nulledEntries, screen>>
             ELSE /\ segments' =
                        [segments EXCEPT ![segmentsDeleted + 1] = 0]
                  /\ segmentsDeleted' = segmentsDeleted + 1
                  /\ entries' = [entries EXCEPT ![k] = Destroyed]
                  /\ nulledEntries' =
                        nulledEntries - (k - 1 - deletedEntries)
                  /\ deletedEntries' = k
    /\ UNCHANGED <<thoughts, thinking, asking, todo, session>>

\* conversation_manager_destroy() leaves its callback registered; called
\* with the freed manager it may return false or be the end of the app.
StalePressure ==
    /\ stale
    /\ fault = "none"
    /\ fault' = "freed_manager"
    /\ UNCHANGED <<conversation, screen, thinking, asking, todo, session>>

-----------------------------------------------------------------------------
(* Messages of the phone.                                                  *)

\* A message arrives: the first steps of its handler are done, "steps" left.
Receive(newEntries, steps) ==
    /\ Idle
    /\ RoomFor(steps)
    /\ entries' = newEntries
    /\ todo' = steps
    /\ UNCHANGED <<deletedEntries, nulledEntries, thoughts, screen, thinking,
                   asking, session, fault>>

\* Mutant: every fragment starts a response.
ChatAnew == Receive(entries, Build("Response"))

\* CHAT: to the open response, wherever it is, or to a new one.
Chat ==
    \/ /\ Open # {}
       /\ Receive(entries, <<Do("append"), Do("update")>>)
    \/ /\ Open = {}
       /\ Receive(entries, Build("Response"))

Function == Receive(Completed, <<Do("update")>> \o Build("Thought"))

ChatDone == Receive(Completed, <<Do("update")>>)

Warning == Receive(Completed, <<Do("update")>> \o Build("Error"))

WidgetReceived == Receive(Completed, <<Do("update")>> \o Build("Widget"))

\* CLOSE_WAS_CLEAN and CLOSE_REASON come in one message: an error for each
\* that tells of one.
Close(errors) ==
    \/ errors = 1 /\ Receive(Completed, Build("Error"))
    \/ errors = 2 /\ Receive(Completed, Build("Error") \o Build("Error"))

\* An action of the phone or of the alarm manager, and the alarm manager's
\* widget for a timer, complete nothing.
ActionTaken == Receive(entries, Build("Action"))

TimerSet == Receive(entries, Build("LocalWidget"))

\* A message of this app, any one, could not be sent.
OutboxFailed == Receive(entries, Build("Error"))

-----------------------------------------------------------------------------
(* The user.                                                               *)

\* The window appears and at once asks for a prompt.
OpenWindow ==
    /\ ~window
    /\ fault = "none"
    /\ windows < MaxWindows
    /\ window' = TRUE
    /\ windows' = windows + 1
    /\ asking' = TRUE
    /\ UNCHANGED <<conversation, screen, thinking, todo, stale, spared, fault>>

\* prv_destroy().
Destroy ==
    /\ window' = FALSE
    /\ asking' = FALSE
    /\ stale' = TRUE
    /\ spared' = FALSE
    /\ entries' = <<>>
    /\ deletedEntries' = 0
    /\ nulledEntries' = 0
    /\ thoughts' = 0
    /\ segments' = <<>>
    /\ segmentsDeleted' = 0
    /\ thinking' = FALSE
    /\ UNCHANGED <<todo, windows, fault>>

CloseWindow == Idle /\ Destroy

\* A press of select, for a dictation.
Select ==
    /\ Idle
    /\ ~asking
    /\ IsIdle
    /\ asking' = TRUE
    /\ UNCHANGED <<conversation, screen, thinking, todo, session, fault>>

\* A long press, for the action menu: it looks at the type of the newest
\* entry, whether there is one or not.
LongPress ==
    /\ Idle
    /\ ~asking
    /\ IsIdle
    /\ asking' = Nonempty
    /\ fault' = IF Nonempty THEN "none" ELSE "no_newest"
    /\ UNCHANGED <<conversation, screen, thinking, todo, session>>

\* conversation_manager_add_input(), whatever has come in since Select; the
\* outbox may be busy.
Prompt ==
    /\ Idle
    /\ asking
    /\ asking' = FALSE
    /\ \E steps \in {Build("Prompt"), Build("Prompt") \o Build("Error")} :
          /\ RoomFor(steps)
          /\ todo' = steps
    /\ UNCHANGED <<conversation, screen, thinking, session, fault>>

\* The dictation fails, or the menu is left.  With nothing said, a failed
\* dictation pops the window on top: the session's own, or that of an alarm or
\* of the release notes, which has come over it.
NoPrompt ==
    /\ Idle
    /\ asking
    /\ \/ ~Nonempty /\ Destroy
       \/ /\ asking' = FALSE
          /\ spared' = (spared \/ ~Nonempty)
          /\ UNCHANGED <<conversation, screen, thinking, todo, window, windows,
                         stale, fault>>

Step ==
    \/ Create
    \/ Fill
    \/ AppendFragment
    \/ Show
    \/ Display
    \/ Update

Message ==
    \/ Chat
    \/ Function
    \/ ChatDone
    \/ Warning
    \/ WidgetReceived
    \/ \E errors \in {1, 2} : Close(errors)
    \/ ActionTaken
    \/ TimerSet
    \/ OutboxFailed

User ==
    \/ OpenWindow
    \/ CloseWindow
    \/ Select
    \/ LongPress
    \/ Prompt
    \/ NoPrompt

Next == Step \/ MemoryPressure \/ StalePressure \/ Message \/ User

Spec == Init /\ [][Next]_vars

-----------------------------------------------------------------------------
StepType == [do : {"create", "fill", "append", "show", "display", "update"},
             what : EntryType]

TypeOK ==
    /\ entries \in Seq(Entry)
    /\ Count <= MaxEntries
    /\ deletedEntries \in 0..Count
    /\ nulledEntries \in Int
    /\ segments \in Seq(0..Count)
    /\ segmentsDeleted \in 0..Len(segments)
    /\ thinking \in BOOLEAN
    /\ asking \in BOOLEAN
    /\ todo \in Seq(StepType)
    /\ window \in BOOLEAN
    /\ windows \in 0..MaxWindows
    /\ stale \in BOOLEAN
    /\ spared \in BOOLEAN
    /\ thoughts \in Nat
    /\ fault \in {"none", "no_segment", "no_entry", "half_built",
                  "freed_response", "freed_manager", "no_newest"}

Alive == {i \in (deletedEntries + 1)..Count : entries[i].type # "Deleted"}

LiveSegments == {segments[i] : i \in (segmentsDeleted + 1)..Len(segments)}

\* Between two handlers the window shows exactly the entries still alive, in
\* their order: the two arrays, which know of each other's deletions only by
\* position, never get out of step.  "We don't keep old Thought segments
\* around" (session_window.c): the only thought there can be is the newest.
SegmentsMatch ==
    Idle =>
        /\ LiveSegments = Alive
        /\ \A i \in Alive : entries[i].type = "Thought" => i = Count
        /\ \A i, j \in (segmentsDeleted + 1)..Len(segments) :
              i < j => segments[i] < segments[j]

\* nulled_entries is never incremented: conversation_length() counts every
\* thought ever replaced as an entry still there.
LengthDrift == Idle => Length = Cardinality(Alive) + thoughts

\* What the code itself calls impossible is: a new entry announced when there
\* are none ("????"), and a NULL among the segments not deleted ("not
\* possible!?").
NeverImpossible ==
    /\ todo # <<>> /\ Head(todo).do = "show" => Nonempty
    /\ 0 \notin LiveSegments

\* Freeing memory never hits an entry under construction or one that is not
\* there.  It empties the window, and runs out of segments, only once two
\* thoughts have been replaced; and it frees the response being appended to
\* only then or when something was added behind that response while it was
\* open.  A long press meets an empty window only in the same way, or where a
\* failed dictation took another window in its place.  What the code calls
\* impossible is.
FaultsExplained ==
    /\ LengthDrift
    /\ NeverImpossible
    /\ fault \notin {"no_entry", "half_built"}
    /\ fault = "no_segment" => thoughts >= 2
    /\ fault = "no_newest" => thoughts >= 2 \/ spared
    /\ fault = "freed_response" => thoughts >= 2 \/ Last.type # "Deleted"

\* However the fragments of sessions interleave, at most one response is open;
\* and while the select button does nothing, the window shows that the
\* assistant is busy.
OpenIsVisible ==
    /\ Cardinality(Open) <= 1
    /\ Idle /\ ~IsIdle => thinking
=============================================================================
