---------------------------- MODULE SettingsFile ----------------------------
(***************************************************************************)
(* The settings (src/src/settings.cpp), which three parts of a launch read *)
(* one after the other and every click on the settings panel writes as a   *)
(* whole, and the launch ping with its install id                          *)
(* (src/src/network/telemetry.cpp), across launches, crashes and edits of  *)
(* the files.                                                              *)
(*                                                                         *)
(* One setting of each kind stands for the others: two switches, one that  *)
(* the program has to ask for and one that is read before there is a       *)
(* window, a shade, a choice, and a height, which is counted in halves of  *)
(* a centimetre.                                                           *)
(***************************************************************************)
EXTENDS Integers, Sequences, FiniteSetsExt, Functions

CONSTANTS
    MaxLaunches, \* times the program is started
    MaxClicks    \* clicks on the settings panel, and edits of the file

VARIABLES
    ini,      \* the lines of settings.ini, a value for each key that has one
    settings, \* settings_ of the renderer
    pc,       \* how far the process has come
    name,     \* the service's name
    idfile,   \* what install_id.txt has: <<>>, or an id
    pings,    \* the pings handed to a worker
    launches,
    clicks,
    before,   \* what was known when the process began
    chosen,   \* the settings the user saw last
    intact,   \* the last save was complete, and nobody has touched the file
    losses    \* times the id was lost

settingsVars == <<ini, settings, pc, name, idfile, pings, launches, clicks, before,
                  chosen, intact, losses>>

Switches == {"telemetry_enabled", "use_computer_name"}

Default == [telemetry_enabled |-> 1, use_computer_name |-> 0, bezel_r |-> 28,
            record_format |-> 0, screenshot_resize_height_cm |-> 20]

\* What a line may say other than a number.
Yes == 1000   \* true
Junk == 1001  \* a word that is neither true nor a number
NotANumber == 1002  \* nan, which is a number to stof() and not to stoi()
Words == {Yes, Junk, NotANumber}

\* The ranges of load().
Ranges == [bezel_r |-> <<18, 160>>, record_format |-> <<0, 1>>,
           screenshot_resize_height_cm |-> <<1, 100>>]
Within(x, range) == Min({Max({x, range[1]}), range[2]})

\* Mutant: a shade is kept as dark as the drawer.
ReadValueDark(key, raw) ==
    IF key \in Switches THEN (IF raw \in {1, Yes} THEN 1 ELSE 0)
    ELSE IF raw \in Words THEN Default[key]
    ELSE IF key = "bezel_r" THEN Within(raw, <<18, 40>>) ELSE Within(raw, Ranges[key])

\* What a line stands for; one that says nothing of use leaves the default.  The
\* height is read by stof(), and std::clamp() lets nan pass.
ReadValue(key, raw) ==
    IF key \in Switches THEN (IF raw \in {1, Yes} THEN 1 ELSE 0)
    ELSE IF key = "screenshot_resize_height_cm" /\ raw = NotANumber THEN NotANumber
    ELSE IF raw \in Words THEN Default[key]
    ELSE Within(raw, Ranges[key])

\* Settings::load(); a file that is not there has no lines.
Load(file) ==
    [k \in DOMAIN Default |-> IF k \in DOMAIN file THEN ReadValue(k, file[k]) ELSE Default[k]]

Init ==
    /\ ini = <<>> /\ settings = Default /\ pc = "off" /\ name = ""
    /\ idfile = <<>> /\ pings = <<>>
    /\ launches = 0 /\ clicks = 0
    /\ before = [intact |-> TRUE, chosen |-> Default]
    /\ chosen = Default /\ intact = TRUE /\ losses = 0

-----------------------------------------------------------------------------
(* A launch *)

FilesKept == UNCHANGED <<ini, idfile, chosen, intact, losses, clicks>>

Start ==
    /\ pc = "off" /\ launches < MaxLaunches
    /\ launches' = launches + 1
    /\ before' = [intact |-> intact, chosen |-> chosen]
    /\ pc' = "name"
    /\ FilesKept /\ UNCHANGED <<settings, name, pings>>

\* Mutant: the setting is not asked.
ReadNameDefault ==
    /\ pc = "name"
    /\ name' = "MSEndpointMgr"
    /\ pc' = "window"
    /\ FilesKept /\ UNCHANGED <<settings, pings, launches, before>>

\* main()
ReadName ==
    /\ pc = "name"
    /\ name' = IF Load(ini).use_computer_name = 1 THEN "computer" ELSE "MSEndpointMgr"
    /\ pc' = "window"
    /\ FilesKept /\ UNCHANGED <<settings, pings, launches, before>>

\* Renderer::init()
ReadSettings ==
    /\ pc = "window"
    /\ settings' = Load(ini)
    /\ chosen' = settings'
    /\ pc' = "ping"
    /\ UNCHANGED <<ini, name, idfile, pings, launches, clicks, before, intact, losses>>

Ping(id) == pings' = Append(pings, [id |-> id, losses |-> losses, before |-> before])

\* Mutant: every launch has an id of its own.
SendPingFresh ==
    /\ pc = "ping"
    /\ IF Load(ini).telemetry_enabled = 0
       THEN pc' = "run" /\ UNCHANGED pings
       ELSE pc' = "id" /\ UNCHANGED pings
    /\ FilesKept /\ UNCHANGED <<settings, name, launches, before>>

\* App::init() and send_launch_ping_async(): with an id in the file the ping is
\* sent, and else there is one to be made.
SendPing ==
    /\ pc = "ping"
    /\ IF Load(ini).telemetry_enabled = 0
       THEN pc' = "run" /\ UNCHANGED pings
       ELSE IF idfile # <<>>
       THEN pc' = "run" /\ Ping(idfile[1])
       ELSE pc' = "id" /\ UNCHANGED pings
    /\ FilesKept /\ UNCHANGED <<settings, name, launches, before>>

\* install_id(): the ping takes the new id whether it could be written or not.
MakeId ==
    /\ pc = "id"
    /\ Ping(launches)
    /\ \E written \in BOOLEAN :
        /\ idfile' = IF written THEN <<launches>> ELSE <<>>
        /\ losses' = IF written THEN losses ELSE losses + 1
    /\ pc' = "run"
    /\ UNCHANGED <<ini, settings, name, launches, clicks, before, chosen, intact>>

-----------------------------------------------------------------------------
(* The settings panel *)

Presets == {28, 110}

\* Mutant: the height may grow as long as the user likes.
ChangedFree(key) ==
    IF key \in Switches THEN {1 - settings[key]}
    ELSE IF key = "bezel_r" THEN Presets
    ELSE IF key = "record_format" THEN {0, 1}
    ELSE {settings[key] - 50, settings[key] + 50}

\* What a click on a setting's button makes of it.
Changed(key) ==
    IF key \in Switches THEN {1 - settings[key]}
    ELSE IF key = "bezel_r" THEN Presets
    ELSE IF key = "record_format" THEN {0, 1}
    ELSE IF settings[key] = NotANumber THEN {NotANumber}
    ELSE {Within(settings[key] + d, <<2, 60>>) : d \in {-1, 1}}

\* The click changes the setting, and save() opens the file, which empties it.
Click ==
    /\ pc = "run" /\ clicks < MaxClicks
    /\ \E k \in DOMAIN Default : \E value \in Changed(k) :
        settings' = [settings EXCEPT ![k] = value]
    /\ chosen' = settings' /\ intact' = FALSE
    /\ \E opens \in BOOLEAN :
        /\ pc' = IF opens THEN "save" ELSE "run"
        /\ ini' = IF opens THEN <<>> ELSE ini
    /\ clicks' = clicks + 1
    /\ UNCHANGED <<name, idfile, pings, launches, before, losses>>

\* All lines are written at once, when the file is closed, if there is room.
Save ==
    /\ pc = "save"
    /\ \E written \in BOOLEAN :
        /\ ini' = IF written THEN settings ELSE <<>>
        /\ intact' = written
    /\ pc' = "run"
    /\ UNCHANGED <<settings, name, idfile, pings, launches, clicks, before, chosen, losses>>

Quit ==
    /\ pc = "run" /\ pc' = "off"
    /\ FilesKept /\ UNCHANGED <<settings, name, pings, launches, before>>

\* The process is killed, as the next one does that is started with
\* --cleanup-stale.
Killed ==
    /\ pc \notin {"off", "run"} /\ pc' = "off"
    /\ idfile' \in IF pc = "id" THEN {<<>>, <<launches>>} ELSE {idfile}
    /\ UNCHANGED <<ini, settings, name, pings, launches, clicks, before, chosen, intact, losses>>

\* Between two launches somebody edits a line, drops one, or removes a file.
Edit ==
    /\ pc = "off" /\ clicks < MaxClicks
    /\ \E k \in DOMAIN Default :
        \/ \E raw \in {0, 200} \cup Words :
            ini' = [j \in DOMAIN ini \cup {k} |-> IF j = k THEN raw ELSE ini[j]]
        \/ ini' = Restrict(ini, DOMAIN ini \ {k})
    /\ intact' = FALSE
    /\ clicks' = clicks + 1
    /\ UNCHANGED <<settings, pc, name, idfile, pings, launches, before, chosen, losses>>
RemoveId ==
    /\ pc = "off" /\ idfile # <<>>
    /\ idfile' = <<>> /\ losses' = losses + 1
    /\ UNCHANGED <<ini, settings, pc, name, pings, launches, clicks, before, chosen, intact>>

Next ==
    \/ Start \/ ReadName \/ ReadSettings \/ SendPing \/ MakeId
    \/ Click \/ Save \/ Quit \/ Killed \/ Edit \/ RemoveId

-----------------------------------------------------------------------------
(* Properties *)

TypeOK ==
    /\ DOMAIN settings = DOMAIN Default
    /\ DOMAIN ini \subseteq DOMAIN Default
    /\ pc \in {"off", "name", "window", "ping", "id", "run", "save"}
    /\ Len(idfile) <= 1

\* Whatever the file says and whatever is clicked, a setting is in the range that
\* what uses it expects; but for a height that the file had as nan.
SettingsInRange ==
    /\ \A k \in Switches : settings[k] \in {0, 1}
    /\ \A k \in DOMAIN Ranges :
         \/ settings[k] \in Ranges[k][1] .. Ranges[k][2]
         \/ k = "screenshot_resize_height_cm" /\ settings[k] = NotANumber

\* Violated: a line that says nan makes the height none, which no click repairs
\* and every save keeps; pictures are no longer scaled (renderer.cpp:7210).
HeightIsNumber == settings.screenshot_resize_height_cm # NotANumber

\* What the user has chosen is what the next launch starts with, and the name it
\* has, unless the save has failed or the file was touched.
ChoiceKept ==
    (before.intact /\ pc \in {"ping", "id"}) =>
        /\ settings = before.chosen
        /\ name = IF settings.use_computer_name = 1 THEN "computer" ELSE "MSEndpointMgr"

\* Nobody who has switched the ping off is counted, unless the save has failed or
\* the file was touched.
PingsWanted ==
    \A i \in DOMAIN pings :
        pings[i].before.intact => pings[i].before.chosen.telemetry_enabled = 1

\* An installation has one id as long as its file is there.
SameIdentity ==
    \A i, j \in DOMAIN pings : pings[i].losses = pings[j].losses => pings[i].id = pings[j].id

\* Violated: the same without the exception.  save() empties the file first: a
\* process that is killed then, or a full disk, has the next launch send a ping.
PingsAlwaysWanted ==
    \A i \in DOMAIN pings : pings[i].before.chosen.telemetry_enabled = 1
=============================================================================
