----------------------------- MODULE MCProgram -----------------------------
(***************************************************************************)
(* SourceArbiter, and the parts of the program that share no state with it *)
(* nor with each other, for TLC: the update's banner, the log's drawer,    *)
(* the settings and the launch ping, the rows of the usage log, and        *)
(* main().  They are not multiplied with each other: `part' is chosen at   *)
(* the start, never changes, and only the part it names moves.             *)
(***************************************************************************)
EXTENDS SourceArbiter, Sequences

CONSTANTS MaxChecks, Writers, MaxPieces, MaxLines, RingSize, MaxLaunches, MaxClicks, MaxRows,
          Processes, MaxArguments

ASSUME ProgramAssumption ==
    /\ {MaxChecks, MaxPieces, MaxLines, MaxLaunches, MaxRows, MaxClicks, MaxArguments}
         \subseteq Nat
    /\ RingSize \in Nat \ {0}
    /\ Processes # {} /\ "nobody" \notin Processes

VARIABLES
    part,
    in_progress, workers, latest, url, banner, drawn, cached, toast, opened, gone,
    buffers, printed, lines, version, disk, session, reading, rows, row_version,
    offset, dragging, added, unread, missed,
    ini, settings, settings_pc, name, idfile, pings, launches, clicks, before,
    settings_chosen, intact, losses,
    csv, truth, shown, pinged,
    args, process_pc, config, found, met, rules, agreed, killer

Update == INSTANCE UpdateCheck
Log == INSTANCE LogPanel
Files == INSTANCE SettingsFile WITH pc <- settings_pc, chosen <- settings_chosen
Usage == INSTANCE UsageRows
Main == INSTANCE ProgramStart WITH pc <- process_pc

updateV == <<in_progress, workers, latest, url, banner, drawn, cached, toast, opened, gone>>
logV == <<buffers, printed, lines, version, disk, session, reading, rows, row_version,
          offset, dragging, added, unread, missed>>
settingsV == <<ini, settings, settings_pc, name, idfile, pings, launches, clicks, before,
               settings_chosen, intact, losses>>
usageV == <<csv, truth, shown, pinged>>
mainV == <<args, process_pc, config, found, met, rules, agreed, killer>>

Parts == {"arbiter", "update", "log", "settings", "usage", "main"}

ProgramInit ==
    /\ part \in Parts
    /\ Init /\ Update!Init /\ Log!Init /\ Files!Init
    /\ Usage!Init /\ (part # "usage" => csv = <<>>)
    /\ Main!Init /\ (part # "main" => \A p \in Processes : args[p] = <<"--cleanup-stale">>)
    /\ part # "main" => rules

ProgramNext ==
    /\ UNCHANGED part
    /\ \/ /\ part = "arbiter" /\ Next
          /\ UNCHANGED <<updateV, logV, settingsV, usageV, mainV>>
       \/ /\ part = "update" /\ Update!Next
          /\ UNCHANGED <<vars, logV, settingsV, usageV, mainV>>
       \/ /\ part = "log" /\ Log!Next
          /\ UNCHANGED <<vars, updateV, settingsV, usageV, mainV>>
       \/ /\ part = "settings" /\ Files!Next
          /\ UNCHANGED <<vars, updateV, logV, usageV, mainV>>
       \/ /\ part = "usage" /\ Usage!Next
          /\ UNCHANGED <<vars, updateV, logV, settingsV, mainV>>
       \/ /\ part = "main" /\ Main!Next
          /\ UNCHANGED <<vars, updateV, logV, settingsV, usageV>>

allVars == <<part, vars, updateV, logV, settingsV, usageV, mainV>>

\* Only SourceArbiter's fairness is assumed.
ProgramSpec ==
    /\ ProgramInit /\ [][ProgramNext]_allVars
    /\ \A d \in Devices : WF_vars(AirPlayStep(d))
    /\ WF_vars(MiracastStep)
    /\ WF_vars(ShutdownStep)

\* The parts' types, and what each of them keeps.  UpdateCheck: one worker at a
\* time, a page that is the version's, a banner that is about what was found, and
\* an answer for whoever asks.  LogPanel: lines that are whole, the last ones, and
\* rows that are the lines.  SettingsFile: ranges, choices that are kept, and pings
\* of one identity that are wanted.  UsageRows: counts and rows of what was logged.
\* ProgramStart: command lines that compose, and processes that do not end each
\* other.
ProgramSafe ==
    CASE part = "arbiter" -> TRUE
      [] part = "update" ->
            /\ Update!TypeOK /\ Update!OneWriter /\ Update!PageOfVersion
            /\ Update!BannerOfFound /\ Update!FoundIfLater /\ Update!AskerTold
      [] part = "log" ->
            Log!TypeOK /\ Log!LinesWhole /\ Log!LastLinesKept /\ Log!RowsCurrent
      [] part = "settings" ->
            /\ Files!TypeOK /\ Files!SettingsInRange /\ Files!ChoiceKept
            /\ Files!PingsWanted /\ Files!SameIdentity
      [] part = "usage" ->
            Usage!TypeOK /\ Usage!StatsCountRows /\ Usage!RowsShownBack
      [] part = "main" ->
            Main!TypeOK /\ Main!LinesCompose /\ Main!SomeoneLeft /\ Main!OldOnesGone

\* LogPanel: what is drawn is the end of the log when a line has come.
\* ProgramStart: the firewall's rules are made for a user who has agreed twice.
StepsAllowed == Log!DrawnInside /\ Main!RulesAgreed
=============================================================================
