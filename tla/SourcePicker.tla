---------------------------- MODULE SourcePicker ----------------------------
(***************************************************************************)
(* What the AirPlay receiver promises to the picker of the user interface, *)
(* with no threads, sockets or locks in sight: a set of devices, some of   *)
(* which stream, and one of them chosen for the screen.                    *)
(***************************************************************************)

CONSTANTS
    Devices,   \* the devices that may turn up
    None       \* no device is chosen; not one of them

VARIABLES
    known,      \* devices with a dot in the picker
    streaming,  \* those with an open mirror connection
    chosen      \* the device whose frames reach the screen

vars == <<known, streaming, chosen>>

TypeOK ==
    /\ known \subseteq Devices
    /\ streaming \subseteq known
    /\ chosen \in known \cup {None}

Init ==
    /\ known = {}
    /\ streaming = {}
    /\ chosen = None

(* A device sets a session up; it may not stream yet. *)
Announce(d) ==
    /\ known' = known \cup {d}
    /\ UNCHANGED <<streaming, chosen>>

(* A device opens a mirror connection, its first or a replacement.  The     *)
(* screen follows it only if nothing else is shown.                         *)
Stream(d) ==
    /\ known' = known \cup {d}
    /\ streaming' = streaming \cup {d}
    /\ chosen' = IF chosen = None THEN d ELSE chosen

(* A device's mirror connection ends.  The screen goes to another streaming *)
(* device if it was this one's, and stays where it is otherwise.            *)
Drop(d) ==
    /\ d \in streaming
    /\ known' = known \ {d}
    /\ streaming' = streaming \ {d}
    /\ IF chosen # d
       THEN UNCHANGED chosen
       ELSE IF streaming' = {}
            THEN chosen' = None
            ELSE chosen' \in streaming'

(* The user picks a dot. *)
Choose(d) ==
    /\ d \in known
    /\ chosen' = d
    /\ UNCHANGED <<known, streaming>>

Next == \E d \in Devices : Announce(d) \/ Stream(d) \/ Drop(d) \/ Choose(d)

Spec == Init /\ [][Next]_vars
=============================================================================
