------------------------------ MODULE LogPanel ------------------------------
(***************************************************************************)
(* The log (src/include/opm/log_buffer.h): what any thread prints on       *)
(* std::cout or std::cerr becomes lines of a ring, and of a file while one *)
(* is open; and the drawer that shows the lines                            *)
(* (Renderer::draw_log_panel), on the window's thread.                     *)
(*                                                                         *)
(* A piece of text is known by who printed it and as which in turn.        *)
(***************************************************************************)
EXTENDS Integers, SequencesExt, FiniteSetsExt

CONSTANTS
    Writers,   \* threads that print, other than the window's
    MaxPieces, \* pieces of text they print together
    MaxLines,  \* changes of the log
    RingSize   \* lines kept; the program keeps 500

Streams == {"cout", "cerr"}
Window == "window"  \* the thread that draws
Visible == 1        \* rows the drawer has room for

VARIABLES
    buffers,     \* thread_bufs_ of each stream's TeeBuf
    printed,     \* how many pieces each thread has printed
    lines,       \* lines_
    version,     \* version_
    disk,        \* <<>>, or the file that is open
    session,     \* log_to_file_session_
    reading,     \* <<>>, or the lines draw_log_panel() has read
    rows,        \* log_row_cache_; <<>> until the drawer has been drawn
    row_version, \* log_cache_version_ is also log_last_version_
    offset,      \* log_scroll_offset_
    dragging,    \* log_scrollbar_dragging_
    added,       \* the lines there have been since the log was cleared
    unread,      \* lines have changed since draw_log_panel() read them
    missed       \* and had when the rows were made

logVars == <<buffers, printed, lines, version, disk, session>>
drawerVars == <<reading, rows, row_version, offset, dragging>>
panelVars == <<logVars, drawerVars, added, unread, missed>>

NotReading == <<>>

Init ==
    /\ buffers = [s \in Streams |-> [t \in Writers |-> <<>>]]
    /\ printed = [t \in Writers |-> 0]
    /\ lines = <<>> /\ version = 0 /\ disk = <<>> /\ session = FALSE
    /\ reading = NotReading
    /\ rows = <<>> /\ row_version = 0 /\ offset = 0 /\ dragging = FALSE
    /\ added = <<>> /\ unread = FALSE /\ missed = FALSE

-----------------------------------------------------------------------------
(* LogBuffer                                                               *)

\* The end of a sequence, of at most so many.
LastOf(n, s) == SubSeq(s, 1 + Max({0, Len(s) - n}), Len(s))

\* Mutant: a full ring takes no line.
AddLineFull(line) ==
    /\ version < MaxLines
    /\ lines' = IF Len(lines) = RingSize THEN lines ELSE Append(lines, line)
    /\ version' = version + 1
    /\ disk' = [i \in DOMAIN disk |-> Append(disk[i], line)]
    /\ added' = Append(added, line)
    /\ unread' = TRUE

\* add_line(), under mutex_.
AddLine(line) ==
    /\ version < MaxLines
    /\ lines' = LastOf(RingSize, Append(lines, line))
    /\ version' = version + 1
    /\ disk' = [i \in DOMAIN disk |-> Append(disk[i], line)]
    /\ added' = Append(added, line)
    /\ unread' = TRUE

\* Mutant: one buffer for all threads.
BuffersShared(s, t, text) == [buffers EXCEPT ![s] = [u \in Writers |-> text]]

\* The buffer of a thread, of which there is one for each stream.
BuffersWith(s, t, text) == [buffers EXCEPT ![s][t] = text]

\* xsputn() of a piece of text, and overflow() or xsputn() of the end of a line,
\* under buf_mutex_ of the stream.
Write(t) ==
    /\ FoldFunction(LAMBDA n, m : n + m, 0, printed) < MaxPieces
    /\ \E s \in Streams :
        buffers' = BuffersWith(s, t, Append(buffers[s][t], <<t, s, printed[t] + 1>>))
    /\ printed' = [printed EXCEPT ![t] = @ + 1]
    /\ UNCHANGED <<lines, version, disk, session, drawerVars, added, unread, missed>>
EndLine(t) ==
    /\ \E s \in Streams :
        /\ buffers[s][t] # <<>>
        /\ AddLine(buffers[s][t])
        /\ buffers' = BuffersWith(s, t, <<>>)
    /\ UNCHANGED <<printed, session, drawerVars, missed>>

-----------------------------------------------------------------------------
(* The window's thread, between two frames                                 *)

Free == reading = NotReading
\* It prints a line of its own.
Says == <<<<Window, "cout", 1>>>>

\* Ctrl+C, or the menu: all lines are copied, and a line says so.
Copy ==
    /\ Free /\ lines # <<>>
    /\ AddLine(Says)
    /\ UNCHANGED <<buffers, printed, session, drawerVars, missed>>

\* Mutant: the version stays.
ClearQuietly ==
    /\ Free /\ lines # <<>> /\ version + 2 <= MaxLines
    /\ lines' = <<Says>> /\ added' = <<Says>>
    /\ version' = version
    /\ disk' = [i \in DOMAIN disk |-> Append(disk[i], Says)]
    /\ unread' = TRUE
    /\ UNCHANGED <<buffers, printed, session, drawerVars, missed>>

\* Ctrl+X, or the menu: clear(), which changes the version too, and the line
\* that says so.  Another thread's line that comes between the two is taken for
\* one that comes after them.
Clear ==
    /\ Free /\ lines # <<>> /\ version + 2 <= MaxLines
    /\ lines' = <<Says>> /\ added' = <<Says>>
    /\ version' = version + 2
    /\ disk' = [i \in DOMAIN disk |-> Append(disk[i], Says)]
    /\ unread' = TRUE
    /\ UNCHANGED <<buffers, printed, session, drawerVars, missed>>

\* Mutant: what could not be opened is taken for open.
TogglePlain ==
    /\ Free /\ version < MaxLines
    /\ session' = ~session
    /\ \E opens \in BOOLEAN :
        disk' = IF session \/ ~opens THEN <<>> ELSE <<<<Says>>>>
    /\ lines' = LastOf(RingSize, Append(lines, Says)) /\ version' = version + 1
    /\ added' = Append(added, Says) /\ unread' = TRUE
    /\ UNCHANGED <<buffers, printed, drawerVars, missed>>

\* The switch of the settings: open_file(), which empties the file and may fail,
\* and the line that says so; or the line, and close_file().
Toggle ==
    /\ Free /\ version < MaxLines
    /\ \E opens \in BOOLEAN :
        /\ session' = (~session /\ opens)
        /\ disk' = IF session' THEN <<<<Says>>>> ELSE <<>>
    /\ lines' = LastOf(RingSize, Append(lines, Says)) /\ version' = version + 1
    /\ added' = Append(added, Says) /\ unread' = TRUE
    /\ UNCHANGED <<buffers, printed, drawerVars, missed>>

-----------------------------------------------------------------------------
(* draw_log_panel(): first the lines, later the version.                   *)

Read ==
    /\ Free /\ lines # <<>>
    /\ reading' = <<lines>>
    /\ unread' = FALSE
    /\ UNCHANGED <<logVars, rows, row_version, offset, dragging, added, missed>>

MaxScroll(n) == Max({0, n - Visible})
Clamped(x, limit) == Min({Max({0, x}), limit})

\* Mutant: the drawer stays where it is.
ScrolledStill(limit) == Clamped(offset, limit)

\* To the end if the version is another one, unless the thumb is held.
Scrolled(limit) ==
    IF version # row_version /\ ~dragging THEN limit ELSE Clamped(offset, limit)

\* The rows are made again only if the version is another one.
Draw ==
    /\ reading # NotReading
    /\ rows' = IF version # row_version THEN reading[1] ELSE rows
    /\ row_version' = version
    /\ offset' = Scrolled(MaxScroll(Len(rows')))
    /\ reading' = NotReading
    /\ missed' = IF version # row_version THEN unread ELSE missed
    /\ UNCHANGED <<logVars, dragging, added, unread>>

\* The wheel; and the thumb, which puts the offset anywhere on the track, is
\* there if not all rows fit, and is let go of at the button's release.
Wheel ==
    /\ Free /\ rows # <<>>
    /\ \E d \in {-1, 1} : offset' = offset + d /\ offset' \in -1 .. Len(rows)
    /\ UNCHANGED <<logVars, reading, rows, row_version, dragging, added, unread, missed>>
Drag ==
    /\ Free /\ MaxScroll(Len(rows)) > 0
    /\ dragging' = TRUE
    /\ offset' \in 0 .. MaxScroll(Len(rows))
    /\ UNCHANGED <<logVars, reading, rows, row_version, added, unread, missed>>
Release ==
    /\ Free /\ dragging /\ dragging' = FALSE
    /\ UNCHANGED <<logVars, reading, rows, row_version, offset, added, unread, missed>>

Next ==
    \/ \E t \in Writers : Write(t) \/ EndLine(t)
    \/ Copy \/ Clear \/ Toggle
    \/ Read \/ Draw \/ Wheel \/ Drag \/ Release

-----------------------------------------------------------------------------
(* Properties *)

TypeOK ==
    /\ Len(lines) <= RingSize /\ Len(disk) <= 1 /\ Len(reading) <= 1
    /\ version \in Nat /\ row_version \in 0 .. version
    /\ offset \in Int /\ {session, dragging, unread, missed} \subseteq BOOLEAN

\* A line is what one thread has printed on one stream, in the order in which it
\* has, whatever others print meanwhile.
LinesWhole ==
    \A i \in DOMAIN added :
        \A j, k \in DOMAIN added[i] :
            LET p == added[i][j]  q == added[i][k] IN
            p[1] = q[1] /\ p[2] = q[2] /\ (j < k => p[3] < q[3])

\* The log has the last lines there have been since it was cleared, and the file
\* the last ones of these, at least, while the switch says that it is written.
LastLinesKept ==
    /\ lines = LastOf(RingSize, added)
    /\ session <=> disk # <<>>
    /\ disk # <<>> => \/ IsSuffix(disk[1], added) \/ IsSuffix(added, disk[1])

\* The rows are the lines, unless the version says otherwise, or a line came while
\* the drawer was being drawn.
RowsCurrent ==
    (reading = NotReading /\ row_version = version /\ row_version # 0 /\ ~missed) => rows = lines

\* What is drawn is among the rows, and is their end when a line has come, unless
\* the user holds the thumb.
DrawnInside == [][Draw => /\ offset' \in 0 .. MaxScroll(Len(rows'))
                          /\ (version # row_version /\ ~dragging)
                                => offset' = MaxScroll(Len(rows'))]_panelVars

\* Violated: the rows are the lines whenever the versions agree.  A line that
\* comes between get_lines() and version() is missing until the next one comes.
RowsAlwaysCurrent ==
    (reading = NotReading /\ row_version = version /\ row_version # 0) => rows = lines
=============================================================================
