------------------------------- MODULE WatchApp -------------------------------
(***************************************************************************)
(* The watch app from launch to exit: the version and consent it keeps in  *)
(* flash (app/src/c: assistant.c, version/version.c, consent/consent.c),   *)
(* the windows it shows (module WindowStack), and the part of the phone    *)
(* that echoes the consent (app/src/pkjs: index.js, config.js).            *)
(*                                                                         *)
(* The user may leave at any time, also between two writes to flash.  The  *)
(* phone's side lives as long as the app does: messages under way are lost *)
(* with it.                                                                *)
(***************************************************************************)
EXTENDS WindowStack

CONSTANTS
    Choice,        \* the location may be used, or may not
    MaxInFlight    \* bound: messages under way to the watch

ASSUME AppAssumption ==
    /\ "unset" \notin Choice
    /\ MaxInFlight \in Nat

\* "old" is 1.1 or older, "recent" newer and older than this version.
Version == {"none", "old", "recent", "current"}
Setting == Choice \union {"unset"}
Stage == {"llm", "gemini", "location"}

VARIABLES
    phase,      \* "off", "starting" (between version_init() and
                \* consent_migrate()), "running" or "consenting" (between the
                \* two writes of a consent)
    pVersion,   \* PERSIST_KEY_VERSION
    pLocation,  \* PERSIST_KEY_LOCATION_ENABLED
    pConsent,   \* PERSIST_KEY_CONSENTS_COMPLETED >= 1
    last,       \* s_last_launch
    stage,      \* data->stage of the consent window
    expecting,  \* data->expected_app_response is set
    toPhone,    \* the choice under way to the phone, if any
    toWatch,    \* settings of the location under way to the watch
    phoneLocation,  \* clay-settings LOCATION_ENABLED
    dropped,    \* history: a message of this launch's consent was lost
    saved,      \* history: the settings were saved on the phone
    answered,   \* history: the consent was completed on the watch
    cut         \* history: the app was left between two writes

flash == <<pVersion, pLocation, pConsent>>
consent == <<stage, expecting>>
wire == <<toPhone, toWatch, phoneLocation, dropped, saved>>
appVars == <<phase, flash, last, consent, wire, answered, cut>>
allVars == <<windowVars, appVars>>

\* What earlier launches, of this or of earlier versions, leave behind.
Installed ==
    {[v |-> "none", l |-> "unset", c |-> FALSE],
     [v |-> "recent", l |-> "unset", c |-> FALSE]}
    \union {[v |-> "old", l |-> x, c |-> FALSE] : x \in Setting}
    \union {[v |-> "recent", l |-> x, c |-> TRUE] : x \in Choice}

AppInit ==
    /\ StackInit
    /\ phase = "off"
    /\ \E i \in Installed :
          /\ pVersion = i.v
          /\ pLocation = i.l
          /\ pConsent = i.c
          /\ phoneLocation \in IF i.l = "unset" THEN Choice ELSE {i.l}
    /\ last = "none"
    /\ stage = "llm"
    /\ expecting = FALSE
    /\ toPhone = {}
    /\ toWatch = <<>>
    /\ dropped = FALSE
    /\ saved = FALSE
    /\ answered = FALSE
    /\ cut = FALSE

-----------------------------------------------------------------------------
(* Launch and exit.                                                        *)

\* prv_init() up to and with version_init(), whose write may fail.
Launch ==
    /\ phase = "off"
    /\ phase' = "starting"
    /\ last' = pVersion
    /\ pVersion' \in {pVersion, "current"}
    /\ UNCHANGED <<windowVars, pLocation, pConsent, consent, wire, answered,
                   cut>>

\* version_is_updated() and version_is_first_launch().
Updated == last # "current"
FirstLaunch == last = "none"

\* Mutant: the setting of the location is not asked for.
MigratesUnasked == Updated /\ ~FirstLaunch /\ last = "old"

\* consent_migrate() finds an update of a version that implied consent.
Migrates == Updated /\ ~FirstLaunch /\ last = "old" /\ pLocation # "unset"

\* The windows main() pushes, with release_notes_maybe_push() over them.
WithNotes(s) == IF Updated /\ ~FirstLaunch THEN Append(s, "notes") ELSE s

\* The stack becomes s, with root or no session on it.
FirstWindows(s) ==
    /\ stack' = s
    /\ root' = IF "root" \notin Range(s) THEN "none"
               ELSE IF TopOf(s) = "root" THEN "live" ELSE "stale"
    /\ seen' = IF root' = "stale" THEN {"root_away"} ELSE {}
    /\ sw' = NoSession
    /\ dictating' = "nobody"

\* A quick launch: the session listens, under the release notes if any.
FirstSession(timed) ==
    /\ stack' = WithNotes(<<"session">>)
    /\ root' = "none"
    /\ sw' = [NoSession EXCEPT !.timed = timed,
                !.excuse = IF Len(stack') = 2 THEN "covered" ELSE "none"]
    /\ dictating' = "session"
    /\ seen' = IF Len(stack') = 2 THEN {"covered_dictation"} ELSE {}

\* The rest of prv_init() and of main(), up to the event loop: launched by an
\* alarm, by the user, or by a quick launch set to start a session.
Begin ==
    /\ phase = "starting"
    /\ phase' = "running"
    /\ pConsent' = (pConsent \/ Migrates)
    /\ \/ FirstWindows(<<"alarm">>)
       \/ ~pConsent' /\ FirstWindows(<<"consent">>)
       \/ pConsent' /\ FirstWindows(WithNotes(<<"root">>))
       \/ pConsent' /\ \E timed \in BOOLEAN : FirstSession(timed)
    /\ waiting' = {}
    /\ due' = NothingDue
    /\ lost' = {}
    /\ stage' = "llm"
    /\ last' = "none"
    /\ UNCHANGED <<pVersion, pLocation, expecting, wire, answered, cut>>

\* What ends with the app: its windows, and the messages under way.
Gone ==
    /\ phase' = "off"
    /\ stage' = "llm"
    /\ expecting' = FALSE
    /\ toPhone' = {}
    /\ toWatch' = <<>>
    /\ dropped' = FALSE

\* The user leaves, or the watch is reset: also between two writes.
Leave ==
    /\ phase # "off"
    /\ Gone
    /\ stack' = <<>>
    /\ sw' = NoSession
    /\ dictating' = "nobody"
    /\ waiting' = {}
    /\ due' = NothingDue
    /\ root' = "none"
    /\ seen' = {}
    /\ lost' = {}
    /\ last' = "none"
    /\ cut' = (cut \/ phase = "consenting" \/ (phase = "starting" /\ Migrates))
    /\ UNCHANGED <<flash, phoneLocation, saved, answered>>

-----------------------------------------------------------------------------
(* Consent.                                                                *)

\* Select, at the bottom of a text: the next text, or the menu.
Agree ==
    /\ phase = "running"
    /\ At("consent")
    /\ \/ stage = "llm" /\ stage' = "gemini" /\ UNCHANGED windowVars
       \/ stage = "gemini" /\ stage' = "location" /\ UNCHANGED windowVars
       \/ stage = "location" /\ Push("choice") /\ UNCHANGED stage
    /\ UNCHANGED <<phase, flash, last, expecting, wire, answered, cut>>

\* prv_consent_menu_select_callback(): the menu is frozen until the phone
\* has answered.  Whether the message was sent is not looked at.
Choose(v) ==
    /\ phase = "running"
    /\ At("choice")
    /\ ~expecting
    /\ expecting' = TRUE
    /\ \/ toPhone' = {v} /\ UNCHANGED dropped
       \/ dropped' = TRUE /\ UNCHANGED toPhone
    /\ UNCHANGED <<windowVars, phase, flash, last, stage, toWatch,
                   phoneLocation, saved, answered, cut>>

\* Back leaves the consent window and the app, or the menu if not frozen.
Decline ==
    /\ phase = "running"
    /\ \/ At("consent") /\ Gone
       \/ At("choice") /\ ~expecting /\ stage' = "llm"
            /\ UNCHANGED <<phase, expecting, toPhone, toWatch, dropped>>
    /\ Show(Front(stack))
    /\ UNCHANGED <<flash, last, phoneLocation, saved, answered, cut>>

\* A message to the watch is under way, or is lost.
ToWatch(v) ==
    \/ /\ Len(toWatch) < MaxInFlight
       /\ toWatch' = Append(toWatch, v)
       /\ UNCHANGED dropped
    \/ dropped' = TRUE /\ UNCHANGED toWatch

\* handleAppMessage() stores the choice and echoes it.
PhoneHears ==
    /\ phase = "running"
    /\ \E v \in toPhone :
          /\ toPhone' = {}
          /\ phoneLocation' = v
          /\ ToWatch(v)
    /\ UNCHANGED <<windowVars, phase, flash, last, consent, saved, answered,
                   cut>>

\* The settings page stores what was chosen there and sends it to the watch.
\* Bound: only while a consent is asked for.
SettingsSaved ==
    /\ phase = "running"
    /\ "consent" \in Windows
    /\ \E v \in Choice :
          /\ phoneLocation' = v
          /\ ToWatch(v)
    /\ saved' = TRUE
    /\ UNCHANGED <<windowVars, phase, flash, last, consent, toPhone,
                   answered, cut>>

\* The consent window waits for an answer.
Heeds == expecting /\ "consent" \in Windows

\* prv_app_message_handler(), up to and with the first write.
WatchHears ==
    /\ phase = "running"
    /\ toWatch # <<>>
    /\ toWatch' = Tail(toWatch)
    /\ \/ /\ Heeds
          /\ expecting' = FALSE
          /\ pLocation' = Head(toWatch)
          /\ phase' = "consenting"
       \/ ~Heeds /\ UNCHANGED <<expecting, pLocation, phase>>
    /\ UNCHANGED <<windowVars, pVersion, pConsent, last, stage, toPhone,
                   phoneLocation, dropped, saved, answered, cut>>

\* The second write, then the root window, where the menu was or on top.
Consented ==
    /\ phase = "consenting"
    /\ phase' = "running"
    /\ pConsent' = TRUE
    /\ answered' = TRUE
    /\ dropped' = FALSE
    /\ \E r \in Removed(stack, "choice") : \E rest \in Removed(r, "consent") :
          Show(Append(rest, "root")) \/ Show(<<"root">> \o rest)
    /\ UNCHANGED <<pVersion, pLocation, last, consent, toPhone, toWatch,
                   phoneLocation, saved, cut>>

\* A step of the windows: with the last of them the app ends, and a consent
\* window that comes to the top starts over.
Reacts ==
    \/ /\ stack' = <<>>
       /\ Gone
       /\ UNCHANGED <<flash, last, phoneLocation, saved, answered, cut>>
    \/ /\ stack' # <<>>
       /\ stage' = IF TopOf(stack') = "consent" /\ Top # "consent"
                   THEN "llm" ELSE stage
       /\ UNCHANGED <<phase, flash, last, expecting, wire, answered, cut>>

AppNext ==
    \/ phase = "running" /\ StackNext /\ Reacts
    \/ Launch
    \/ Begin
    \/ Leave
    \/ Agree
    \/ \E v \in Choice : Choose(v)
    \/ Decline
    \/ PhoneHears
    \/ SettingsSaved
    \/ WatchHears
    \/ Consented

AppSpec == AppInit /\ [][AppNext]_allVars

-----------------------------------------------------------------------------
\* The type invariant of the app and its windows.
TypeOK ==
    /\ stack \in Seq(Kind) /\ Len(stack) <= MaxDepth
    /\ sw \in Session
    /\ dictating \in {"nobody", "session", "feedback"}
    /\ dictating # "nobody" => dictating \in Windows
    /\ waiting \subseteq Asking \intersect Windows
    /\ due \in [Asking -> 0..MaxDue]
    /\ root \in Handle
    /\ seen \subseteq Reasons
    /\ lost \subseteq Losses
    /\ phase \in {"off", "starting", "running", "consenting"}
    /\ (stack = <<>>) <=> (phase \in {"off", "starting"})
    /\ pVersion \in Version
    /\ pLocation \in Setting
    /\ pConsent \in BOOLEAN
    /\ last \in Version
    /\ stage \in Stage
    /\ expecting \in BOOLEAN
    /\ toPhone \subseteq Choice
    /\ toWatch \in Seq(Choice) /\ Len(toWatch) <= MaxInFlight
    /\ phoneLocation \in Choice

\* What callbacks take from the user that looks at something else, and why.
\* A window other than the session falls to prv_timed_out() only if an entry
\* came, changed or was deleted while the session was covered, and to a failed dictation only if the
\* session was covered while it was listening; a report or feedback that was
\* not sent is closed only by the answer to one that was left; the pony runs
\* in vain only if an answer never comes; and the warning about Cobble is not
\* shown only if the root window was away or covered when, or before, it came.
LossesExplained ==
    /\ "timeout" \in lost => "late_entry" \in seen
    /\ "dictation" \in lost => "covered_dictation" \in seen
    /\ "answer" \in lost => "abandoned" \in seen
    /\ \A w \in waiting : due[w] = 0 => "unanswered" \in seen
    /\ "warning" \in lost => "root_away" \in seen

\* A session of a quick launch ends by itself: once anything was said its
\* timer runs, unless a window covered it since, its timer went off over
\* another window or a result window cancelled it; and a session in which
\* nothing was said is listening, unless its dictation failed over another
\* window.
QuitsExplained ==
    "session" \in Windows =>
        /\ sw.timed /\ sw.conv # "empty" => sw.armed \/ sw.excuse # "none"
        /\ sw.conv = "empty" =>
              dictating = "session" \/ sw.excuse = "unheard"

\* Consent is given by a choice of the location: the user who made one is
\* asked again only if the app was left between two writes to flash; phone
\* and watch agree on it unless the settings page took part; and the menu is
\* frozen for good only if a message was lost.
ConsentExplained ==
    /\ pConsent => pLocation # "unset"
    /\ "consent" \in Windows /\ pLocation # "unset" /\ phase = "running"
          => cut
    /\ answered /\ ~saved => phoneLocation = pLocation
    /\ expecting =>
          /\ {"consent", "choice"} \subseteq Windows
          /\ toPhone # {} \/ toWatch # <<>> \/ dropped
=============================================================================
