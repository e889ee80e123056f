----------------------------- MODULE UsageRows -----------------------------
(***************************************************************************)
(* The rows of usage_log.csv (src/src/usage_log.cpp): what a row becomes   *)
(* as a line of cells between commas, what a line becomes when the log is  *)
(* read, and what the statistics make of it, which the drawer shows and    *)
(* the launch ping takes along.                                            *)
(*                                                                         *)
(* The sessions, and when a row is written, are SourceArbiter's.  A cell   *)
(* is a string, Blank if there is nothing in it; a device's name is the    *)
(* sequence of its pieces between commas, without the quotes it is put in, *)
(* which change no count.                                                  *)
(***************************************************************************)
EXTENDS Integers, SequencesExt, FiniteSetsExt

CONSTANT MaxRows   \* rows the usage log is given

VARIABLES
    csv,    \* the lines of the file after its first, each a sequence of cells
    truth,  \* what each line is about
    shown,  \* <<>>, or the statistics drawer's counts and rows
    pinged  \* <<>>, or the counts of the launch ping, and the log's length then

usageVars == <<csv, truth, shown, pinged>>

Platforms == {"iOS", "Android"}
Blank == ""  \* a cell with nothing in it
Names == {<<Blank>>, <<"Bob">>, <<"7">>, <<"Bob", "Ann">>}
Uses == {"screenshot", "annotate", "ocr_copy", "recording"}

\* What std::stoll() makes of a cell: a number, or an exception that leaves 0.
Seconds(cell) ==
    CASE cell = "45" -> 45
      [] cell = "90" -> 90
      [] cell = "7"  -> 7
      [] OTHER       -> 0

\* append_row(): a line of five columns; the last is empty if there is no duration.
Line(row) == <<"time", row.event, row.platform>> \o row.device \o <<row.duration>>

\* std::getline() gives no cell for an end that is empty.
CellsOf(line) == IF Last(line) = Blank THEN Front(line) ELSE line

\* Mutant: the device is not asked whether it is there.
RowReadOld(line) ==
    LET cols == CellsOf(line) IN
    [event |-> cols[2], platform |-> cols[3], device |-> Blank,
     duration |-> IF Len(cols) >= 4 THEN Seconds(cols[4]) ELSE 0]

\* load_rows(): four columns are a line of before there were devices.
RowRead(line) ==
    LET cols == CellsOf(line) IN
    [event |-> cols[2], platform |-> cols[3],
     device |-> IF Len(cols) >= 5 THEN cols[4] ELSE Blank,
     duration |-> IF Len(cols) >= 5 THEN Seconds(cols[5])
                  ELSE IF Len(cols) = 4 THEN Seconds(cols[4]) ELSE 0]
LoadRows(file) == [i \in DOMAIN file |-> RowRead(file[i])]

\* Mutant: every row's time counts.
ComputeStatsAll(rows) ==
    LET Count(e, p) == Cardinality({i \in DOMAIN rows : rows[i].event = e /\ rows[i].platform = p})
    IN  [starts |-> Cardinality({i \in DOMAIN rows : rows[i].event = "app_start"}),
         sessions |-> [p \in Platforms |-> Count("session_start", p)],
         seconds |-> [p \in Platforms |->
                         FoldLeft(LAMBDA sum, r : IF r.platform = p THEN sum + r.duration ELSE sum,
                                  0, rows)],
         uses |-> [e \in Uses |-> [p \in Platforms |-> Count(e, p)]]]

\* The time of a platform's sessions that have ended.
SecondsOf(rows, p) ==
    FoldLeft(LAMBDA sum, r : IF r.event = "session_end" /\ r.platform = p
                             THEN sum + r.duration ELSE sum, 0, rows)

\* compute_stats()
ComputeStats(rows) ==
    LET Count(e, p) == Cardinality({i \in DOMAIN rows : rows[i].event = e /\ rows[i].platform = p})
    IN  [starts |-> Cardinality({i \in DOMAIN rows : rows[i].event = "app_start"}),
         sessions |-> [p \in Platforms |-> Count("session_start", p)],
         seconds |-> [p \in Platforms |-> SecondsOf(rows, p)],
         uses |-> [e \in Uses |-> [p \in Platforms |-> Count(e, p)]]]

\* A file of an older version has lines without a device.
OldRow == [event |-> "session_end", platform |-> "iOS", device |-> <<>>, duration |-> "45"]

Init ==
    /\ truth \in {<<>>, <<OldRow>>}
    /\ csv = [i \in DOMAIN truth |-> Line(truth[i])]
    /\ shown = <<>> /\ pinged = <<>>

AppendRow(event, platform, device, duration) ==
    LET row == [event |-> event, platform |-> platform, device |-> device,
                duration |-> duration]
    IN  /\ Len(csv) < MaxRows
        /\ truth' = Append(truth, row)
        /\ csv' = Append(csv, Line(row))
        /\ UNCHANGED <<shown, pinged>>

AppStart == AppendRow("app_start", Blank, <<Blank>>, Blank)
AppStop == AppendRow("app_stop", Blank, <<Blank>>, Blank)
SessionStart(p, d) == AppendRow("session_start", p, d, Blank)
SessionEnd(p, d, s) == AppendRow("session_end", p, d, s)
\* The platform is that of the screen's source, if there is one.
FeatureUse(e, p) == AppendRow(e, p, <<Blank>>, Blank)

\* Mutant: the oldest row comes first.
OpenStatsOldFirst ==
    /\ shown' = <<[counts |-> ComputeStats(LoadRows(csv)), rows |-> LoadRows(csv)]>>
    /\ UNCHANGED <<csv, truth, pinged>>

\* rebuild_stats_cache(), once for each time the drawer is opened.
OpenStats ==
    /\ shown' = <<[counts |-> ComputeStats(LoadRows(csv)), rows |-> Reverse(LoadRows(csv))]>>
    /\ UNCHANGED <<csv, truth, pinged>>

\* send_launch_ping_async()
Ping ==
    /\ pinged = <<>>
    /\ pinged' = <<[counts |-> ComputeStats(LoadRows(csv)), length |-> Len(csv)]>>
    /\ UNCHANGED <<csv, truth, shown>>

Next ==
    \/ AppStart \/ AppStop
    \/ \E p \in Platforms, d \in Names :
        SessionStart(p, d) \/ \E s \in {"0", "90"} : SessionEnd(p, d, s)
    \/ \E e \in Uses, p \in Platforms \cup {Blank} : FeatureUse(e, p)
    \/ OpenStats \/ Ping

-----------------------------------------------------------------------------
(* Properties *)

TypeOK == DOMAIN csv = DOMAIN truth /\ Len(shown) <= 1 /\ Len(pinged) <= 1

\* What was logged, counted.
Logged(rows) ==
    LET Times(e, p) == Cardinality({i \in DOMAIN rows : rows[i].event = e /\ rows[i].platform = p})
    IN  [starts |-> Times("app_start", Blank),
         sessions |-> [p \in Platforms |-> Times("session_start", p)],
         uses |-> [e \in Uses |-> [p \in Platforms |-> Times(e, p)]]]
Ends(rows, p, s) ==
    Cardinality({i \in DOMAIN rows : /\ rows[i].event = "session_end"
                                     /\ rows[i].platform = p /\ rows[i].duration = s})
Plain(rows) == \A i \in DOMAIN rows : Len(rows[i].device) <= 1

\* The ping and the drawer count what was logged until then, whatever the devices
\* are called; and the minutes, unless a name has a comma.
CountsOf(counts, rows) ==
    /\ \A f \in {"starts", "sessions", "uses"} : counts[f] = Logged(rows)[f]
    /\ Plain(rows) => \A p \in Platforms :
                          counts.seconds[p] = 90 * Ends(rows, p, "90") + 45 * Ends(rows, p, "45")
StatsCountRows ==
    /\ \A i \in DOMAIN pinged :
        CountsOf(pinged[i].counts, SubSeq(truth, 1, pinged[i].length))
    /\ \A i \in DOMAIN shown :
        CountsOf(shown[i].counts, SubSeq(truth, 1, Len(shown[i].rows)))

\* The drawer's rows are those of the log, the last one first; of a session that
\* has ended it says whose it was, unless the name has a comma.
RowsShownBack ==
    \A i \in DOMAIN shown :
        LET rows == shown[i].rows IN
        \A j \in DOMAIN rows :
            LET row == truth[Len(rows) + 1 - j] IN
            /\ rows[j].event = row.event /\ rows[j].platform = row.platform
            /\ (row.event = "session_end" /\ Len(row.device) = 1) => rows[j].device = row.device[1]

\* Violated: of every session it says whose it is.  The line of a session_start
\* ends in an empty cell, and is taken for one of the old form.
DevicesShown ==
    \A i \in DOMAIN csv : Len(truth[i].device) = 1 => RowRead(csv[i]).device = truth[i].device[1]

\* Violated: the minutes are those of the sessions.  A comma in a device's name
\* moves the duration to a column that is not read.
MinutesCounted ==
    LET counts == ComputeStats(LoadRows(csv)) IN
    \A p \in Platforms :
        counts.seconds[p] = 90 * Ends(truth, p, "90") + 45 * Ends(truth, p, "45")
=============================================================================
