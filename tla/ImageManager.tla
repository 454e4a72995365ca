---------------------------- MODULE ImageManager ----------------------------
(***************************************************************************)
(* Maps on the watch: the phone's image transfer (lib/image_transfer.js,   *)
(* widgets/map.js), the watch's image manager and the map widgets that     *)
(* show its images.                                                        *)
(*                                                                         *)
(* The heart of it is memory.  An allocation that finds too little frees   *)
(* the oldest image; destroying an image tells its widget; and the widget  *)
(* allocates a picture of a skull to show in its place.  "todo" is the     *)
(* rest of the running handler, the calls it is nested in included, as     *)
(* steps <<what, id>>; it is empty between two callbacks.  "fault" names   *)
(* the first undefined behaviour met; nothing happens after it.            *)
(*                                                                         *)
(* An image and the widget made for it share their number, which is the    *)
(* phone's IMAGE_ID.  Sizes, pixels and the user's location are left out.  *)
(***************************************************************************)
EXTENDS Integers, FiniteSets, SequencesExt

CONSTANTS
    Chunks,           \* chunks per image
    MaxImages,        \* bound: images sent
    MaxPressures,     \* bound: how often an allocation finds too little memory
    MaxLosses         \* bound: messages lost

ASSUME ImageAssumption ==
    /\ Chunks \in Nat \ {0}
    /\ MaxImages \in Nat
    /\ MaxPressures \in Nat
    /\ MaxLosses \in Nat

Id == 1..MaxImages

Message == {"start", "widget", "complete"} \X Id \X {0}
             \union {"chunk"} \X Id \X (1..Chunks)

VARIABLES
    sent,         \* nextImageId - 1
    timers,       \* images whose chunks are to be enqueued in 50 ms
    channel,      \* messages on their way to the watch, <<what, id, n>>
    list,         \* s_image_list
    image,        \* per image: chunks received, data held, bitmap made, callback set
    freed,        \* images whose memory was freed
    window,       \* is there a session window
    widget,       \* per map widget: alive, loading, shows the bitmap, has a skull
    todo,
    fault,
    pressures,
    lost,         \* history: messages lost
    unmade,       \* history: images there was no memory for
    nested        \* history: memory ran out while a widget fetched its skull,
                  \* and the image it stood for or the widget itself was freed

phone == <<sent, timers>>
memory == <<list, image, freed>>
history == <<lost, unmade, nested>>
vars == <<phone, channel, memory, window, widget, todo, fault, pressures,
          history>>

NewImage == [got |-> {}, data |-> FALSE, bitmap |-> FALSE, callback |-> FALSE]

NoWidget == [alive |-> FALSE, loading |-> FALSE, bitmap |-> FALSE,
             skull |-> FALSE]

Init ==
    /\ sent = 0
    /\ timers = {}
    /\ channel = <<>>
    /\ list = <<>>
    /\ image = [id \in Id |-> NewImage]
    /\ freed = {}
    /\ window = FALSE
    /\ widget = [id \in Id |-> NoWidget]
    /\ todo = <<>>
    /\ fault = "none"
    /\ pressures = 0
    /\ lost = {}
    /\ unmade = {}
    /\ nested = FALSE

Idle == todo = <<>> /\ fault = "none"

Running(what) == todo # <<>> /\ fault = "none" /\ Head(todo)[1] = what

Subject == Head(todo)[2]

Known(id) == id \in ToSet(list)

\* A look-up goes through the list from the front until it has found the image,
\* and on its way reads an image whose memory was freed.
SearchesFreed(id) ==
    \E i \in DOMAIN list :
        /\ list[i] \in freed
        /\ \A j \in 1..(i - 1) : list[j] # id

\* The ways to visit the numbers of "places" from the least to the greatest.
InOrder(places) ==
    {at \in [1..Cardinality(places) -> places] :
        \A i, j \in DOMAIN at : i < j => at[i] < at[j]}

\* The list without the images "ids".
Without(ids) ==
    \E at \in InOrder({i \in DOMAIN list : list[i] \notin ids}) :
        list' = [i \in DOMAIN at |-> list[at[i]]]

-----------------------------------------------------------------------------
(* The phone.                                                              *)

Opening(id) == <<<<"start", id, 0>>, <<"widget", id, 0>>>>

\* map(): sendImage() enqueues the start, and then the widget is.
Map ==
    /\ sent < MaxImages
    /\ sent' = sent + 1
    /\ timers' = timers \union {sent + 1}
    /\ channel' = channel \o Opening(sent + 1)
    /\ UNCHANGED <<memory, window, widget, todo, fault, pressures, history>>

\* Mutant: chunks are counted from zero.
ContentsFromZero(id) ==
    [n \in 1..Chunks |-> <<"chunk", id, n - 1>>] \o <<<<"complete", id, 0>>>>

Contents(id) ==
    [n \in 1..Chunks |-> <<"chunk", id, n>>] \o <<<<"complete", id, 0>>>>

\* The timer of sendImage().
SendContents(id) ==
    /\ timers' = timers \ {id}
    /\ channel' = channel \o Contents(id)
    /\ UNCHANGED <<sent, memory, window, widget, todo, fault, pressures, history>>

\* The message queue drops what the link fails to deliver.
Lose ==
    /\ Cardinality(lost) < MaxLosses
    /\ \E i \in DOMAIN channel :
          /\ channel' = RemoveAt(channel, i)
          /\ lost' = lost \union {channel[i]}
    /\ UNCHANGED <<phone, memory, window, widget, todo, fault, pressures,
                   unmade, nested>>

-----------------------------------------------------------------------------
(* Allocation.                                                             *)

\* prv_destroy_image(): the widget is told, then the memory is freed.
Destroying(id) == <<<<"tell", id>>, <<"free", id>>>>

Beginning(what) == Running(what) /\ todo' = Tail(todo)

\* The steps that allocate.
Allocating == {"record", "data", "layer", "skull"}

\* bmalloc() frees the oldest image and tries again.  Whoever is being
\* destroyed is still on the list, first if it is the oldest.
Pressure ==
    /\ \E what \in Allocating : Running(what)
    /\ pressures < MaxPressures
    /\ pressures' = pressures + 1
    /\ list # <<>>
    /\ todo' = Destroying(Head(list)) \o <<<<"drop_first", 0>>>> \o todo
    /\ nested' = (nested \/ (Running("skull") /\ Subject = Head(list)))
    /\ UNCHANGED <<phone, channel, memory, window, widget, fault, lost, unmade>>

\* Mutant: the image and its callback outlive the widget.
WidgetsGoAlone(ids) ==
    /\ widget' = [id \in Id |-> IF id \in ids THEN NoWidget ELSE widget[id]]
    /\ UNCHANGED memory

\* Entries of the set ids are deleted: for each, map_widget_destroy() takes
\* the callback back and prv_destroy_entry() destroys the image.
WidgetsGo(ids) ==
    /\ widget' = [id \in Id |-> IF id \in ids THEN NoWidget ELSE widget[id]]
    /\ image' = [id \in Id |-> IF id \in ids /\ Known(id)
                               THEN [image[id] EXCEPT !.callback = FALSE]
                               ELSE image[id]]
    /\ freed' = freed \union {id \in ids : Known(id)}
    /\ Without(ids)

Shown == {id \in Id : widget[id].alive}

\* With no image left, the conversation deletes its oldest entry: a map, or
\* something that is none.
ConversationPressure ==
    /\ \E what \in Allocating : Running(what)
    /\ pressures < MaxPressures
    /\ pressures' = pressures + 1
    /\ list = <<>>
    /\ window
    /\ \/ UNCHANGED <<memory, widget, nested>>
       \/ \E id \in Shown :
             /\ \A other \in Shown : id <= other
             /\ WidgetsGo({id})
             /\ nested' = (nested \/ (Running("skull") /\ Subject = id))
    /\ UNCHANGED <<phone, channel, window, todo, fault, lost, unmade>>

\* Nothing could be freed: bmalloc() returns NULL.  The image is given up, or
\* kept without its data; a layer that is NULL is written to; a widget does
\* without its skull, but notes that in its memory, freed or not.
AllocationFails ==
    /\ list = <<>>
    /\ \/ /\ Running("record")
          /\ todo' = <<>>
          /\ unmade' = unmade \union {Subject}
          /\ UNCHANGED fault
       \/ /\ Beginning("data")
          /\ unmade' = unmade \union {Subject}
          /\ UNCHANGED fault
       \/ /\ Running("layer")
          /\ fault' = "no_memory_for_a_layer"
          /\ UNCHANGED <<todo, unmade>>
       \/ /\ Beginning("skull")
          /\ widget[Subject].alive
          /\ UNCHANGED <<fault, unmade>>
       \/ /\ Running("skull")
          /\ ~widget[Subject].alive
          /\ fault' = "widget_written_after_free"
          /\ UNCHANGED <<todo, unmade>>
    /\ UNCHANGED <<phone, channel, memory, window, widget, pressures, lost,
                   nested>>

AllocationSucceeds ==
    /\ \/ /\ Beginning("record") \/ Beginning("layer")
          /\ UNCHANGED <<image, widget, fault>>
       \/ /\ Beginning("data")
          /\ image' = [image EXCEPT ![Subject].data = TRUE]
          /\ UNCHANGED <<widget, fault>>
       \/ /\ Beginning("skull")
          /\ widget[Subject].alive
          /\ widget' = [widget EXCEPT ![Subject].skull = TRUE]
          /\ UNCHANGED <<image, fault>>
       \/ /\ Running("skull")
          /\ ~widget[Subject].alive
          /\ fault' = "widget_written_after_free"
          /\ UNCHANGED <<image, widget, todo>>
    /\ UNCHANGED <<phone, channel, list, freed, window, pressures, history>>

-----------------------------------------------------------------------------
(* Destroying an image, and the handlers' last steps.                      *)

\* Mutant: the widget keeps the bitmap it shows.
KeepsBitmap(w) == [w EXCEPT !.loading = FALSE]

\* prv_image_updated(), for an image destroyed.
Bereaved(w) == [w EXCEPT !.loading = FALSE, !.bitmap = FALSE]

\* The callback of the image that is destroyed.
Tell ==
    /\ Running("tell")
    /\ \/ /\ Subject \in freed
          /\ fault' = "image_read_after_free"
          /\ UNCHANGED <<widget, todo>>
       \/ /\ Subject \notin freed
          /\ image[Subject].callback
          /\ widget' = [widget EXCEPT ![Subject] = Bereaved(@)]
          /\ todo' = IF widget[Subject].skull
                     THEN Tail(todo)
                     ELSE <<<<"skull", Subject>>>> \o Tail(todo)
          /\ UNCHANGED fault
       \/ /\ Subject \notin freed
          /\ ~image[Subject].callback
          /\ todo' = Tail(todo)
          /\ UNCHANGED <<widget, fault>>
    /\ UNCHANGED <<phone, channel, memory, window, pressures, history>>

Free ==
    /\ \/ /\ Beginning("free")
          /\ Subject \notin freed
          /\ freed' = freed \union {Subject}
          /\ UNCHANGED fault
       \/ /\ Running("free")
          /\ Subject \in freed
          /\ fault' = "image_freed_twice"
          /\ UNCHANGED <<freed, todo>>
    /\ UNCHANGED <<phone, channel, list, image, window, widget, pressures,
                   history>>

\* Mutant: the image is left on the list.
DropNone ==
    /\ Beginning("drop_first")
    /\ UNCHANGED list

DropFirst ==
    /\ Beginning("drop_first")
    /\ list' = IF list = <<>> THEN list ELSE Tail(list)

\* The image is looked for by its id, which is read from freed memory: it is
\* found, or not.
DropById ==
    /\ Beginning("drop")
    /\ \/ Without({Subject})
       \/ UNCHANGED list

\* A new image is appended to the list.
AddToList ==
    /\ Beginning("append")
    /\ list' = Append(list, Subject)

ListStep ==
    /\ DropFirst \/ DropById \/ AddToList
    /\ UNCHANGED <<phone, channel, image, freed, window, widget, fault,
                   pressures, history>>

\* map_widget_create() comes to image_manager_register_callback(): an image
\* that is not on the list will never call.
Register ==
    /\ \/ /\ Running("register")
          /\ SearchesFreed(Subject)
          /\ fault' = "image_read_after_free"
          /\ UNCHANGED <<widget, image, todo>>
       \/ /\ Beginning("register")
          /\ ~SearchesFreed(Subject)
          /\ widget' = [widget EXCEPT ![Subject] =
                          [NoWidget EXCEPT !.alive = TRUE, !.loading = TRUE]]
          /\ image' = [image EXCEPT ![Subject].callback = Known(Subject)]
          /\ UNCHANGED fault
    /\ UNCHANGED <<phone, channel, list, freed, window, pressures, history>>

-----------------------------------------------------------------------------
(* Messages, and the user.                                                 *)

StartReceived(id) ==
    /\ todo' = <<<<"record", id>>, <<"data", id>>, <<"append", id>>>>
    /\ UNCHANGED <<image, widget, unmade>>

WidgetReceived(id) ==
    /\ todo' = IF window THEN <<<<"layer", id>>, <<"register", id>>>> ELSE <<>>
    /\ UNCHANGED <<image, widget, unmade>>

ChunkReceived(id, n) ==
    /\ image' = IF Known(id) /\ image[id].data
                THEN [image EXCEPT ![id].got = @ \union {n}] ELSE image
    /\ UNCHANGED <<widget, todo, unmade>>

\* A bitmap is made of the data - if the system can - and the widget told.
BitmapMade(id) ==
    /\ Known(id) /\ image[id].data
    /\ image' = [image EXCEPT ![id].bitmap = TRUE]
    /\ widget' = IF image[id].callback
                 THEN [widget EXCEPT ![id].loading = FALSE, ![id].bitmap = TRUE]
                 ELSE widget
    /\ UNCHANGED <<todo, unmade>>

CompleteReceived(id) ==
    \/ BitmapMade(id)
    \/ /\ Known(id) /\ image[id].data
       /\ unmade' = unmade \union {id}
       /\ UNCHANGED <<image, widget, todo>>
    \/ /\ Known(id) /\ ~image[id].data
       /\ todo' = Destroying(id) \o <<<<"drop", id>>>>
       /\ UNCHANGED <<image, widget, unmade>>
    \/ /\ ~Known(id)
       /\ UNCHANGED <<image, widget, todo, unmade>>

\* prv_inbox_received() and, for the widget, the conversation manager.  All but
\* the start look the image up.
Receive ==
    /\ Idle
    /\ channel # <<>>
    /\ channel' = Tail(channel)
    /\ LET what == Head(channel)[1]
           id == Head(channel)[2]
           n == Head(channel)[3]
           dangling == /\ what # "start"
                       /\ what = "widget" => window
                       /\ SearchesFreed(id)
       IN  \/ /\ dangling
              /\ fault' = "image_read_after_free"
              /\ UNCHANGED <<image, widget, todo, unmade>>
           \/ /\ ~dangling
              /\ \/ what = "start" /\ StartReceived(id)
                 \/ what = "widget" /\ WidgetReceived(id)
                 \/ what = "chunk" /\ ChunkReceived(id, n)
                 \/ what = "complete" /\ CompleteReceived(id)
              /\ UNCHANGED fault
    /\ UNCHANGED <<phone, list, freed, window, pressures, lost, nested>>

OpenWindow ==
    /\ Idle
    /\ ~window
    /\ window' = TRUE
    /\ UNCHANGED <<phone, channel, memory, widget, todo, fault, pressures,
                   history>>

\* The window's segments are destroyed, and then its conversation: the image of
\* each map is looked up, to take its callback back and to destroy it.
CloseWindow ==
    /\ Idle
    /\ window
    /\ \/ /\ \E id \in Shown : SearchesFreed(id)
          /\ fault' = "image_read_after_free"
          /\ UNCHANGED <<memory, window, widget>>
       \/ /\ \A id \in Shown : ~SearchesFreed(id)
          /\ window' = FALSE
          /\ WidgetsGo(Shown)
          /\ UNCHANGED fault
    /\ UNCHANGED <<phone, channel, todo, pressures, history>>

Next ==
    \/ Map
    \/ \E id \in timers : SendContents(id)
    \/ Lose
    \/ Pressure
    \/ ConversationPressure
    \/ AllocationFails
    \/ AllocationSucceeds
    \/ Tell
    \/ Free
    \/ ListStep
    \/ Register
    \/ Receive
    \/ OpenWindow
    \/ CloseWindow

Spec == Init /\ [][Next]_vars

-----------------------------------------------------------------------------
Step == {"record", "data", "append", "layer", "register", "skull", "tell",
         "free", "drop"} \X Id
        \union {<<"drop_first", 0>>}

TypeOK ==
    /\ sent \in 0..MaxImages
    /\ timers \subseteq Id
    /\ channel \in Seq(Message)
    /\ list \in Seq(Id)
    /\ image \in [Id -> [got : SUBSET (1..Chunks), data : BOOLEAN,
                         bitmap : BOOLEAN, callback : BOOLEAN]]
    /\ freed \subseteq Id
    /\ window \in BOOLEAN
    /\ widget \in [Id -> [alive : BOOLEAN, loading : BOOLEAN,
                          bitmap : BOOLEAN, skull : BOOLEAN]]
    /\ todo \in Seq(Step)
    /\ fault \in {"none", "image_read_after_free", "image_freed_twice",
                  "widget_written_after_free", "no_memory_for_a_layer"}
    /\ pressures \in 0..MaxPressures
    /\ lost \subseteq Message
    /\ unmade \subseteq Id
    /\ nested \in BOOLEAN

\* Between two callbacks no widget draws a bitmap whose image is gone, and an
\* image that may still change has the ear of the widget that shows it.
ShowsTheLiving ==
    Idle => \A id \in Shown :
               widget[id].bitmap =>
                  /\ id \notin freed
                  /\ image[id].bitmap /\ image[id].callback

\* Between two callbacks the list holds every image there is, once, and no
\* other - but one that had no data may be left on it although it is freed.
ListSound ==
    Idle =>
        /\ \A i, j \in DOMAIN list : list[i] = list[j] => i = j
        /\ \A id \in ToSet(list) : id \in freed => id \in unmade
        /\ \A id \in Id : image[id].data /\ id \notin freed => Known(id)

\* All that can go wrong with memory: a layer there is no room for, an image
\* without data left on the list, or memory that runs out while a widget
\* fetches its skull.
FaultsExplained ==
    fault # "none" =>
        \/ fault = "no_memory_for_a_layer"
        \/ nested
        \/ fault = "image_read_after_free" /\ unmade \intersect freed # {}

\* More of an image is still to come.
Coming(id) ==
    id \in timers \/ \E i \in DOMAIN channel : channel[i][2] = id

\* A map that still loads when all of its image has come has a reason to: a
\* message was lost, the image was freed before the map came, or there was no
\* memory for it.
LoadingExplained ==
    Idle => \A id \in Shown :
        widget[id].loading =>
            \/ Coming(id)
            \/ \E what \in {"start", "complete"} : <<what, id, 0>> \in lost
            \/ id \in freed \union unmade

\* A map that shows a bitmap shows all of it, unless a chunk was lost.
ShownWhole ==
    \A id \in Shown :
        widget[id].bitmap =>
            \A n \in 1..Chunks :
                n \in image[id].got \/ <<"chunk", id, n>> \in lost

\* What a map widget shows, in whatever order the image, its chunks and the
\* widget come and whichever of them memory pressure takes.
MapsExplained == ShowsTheLiving /\ LoadingExplained /\ ShownWhole
=============================================================================
