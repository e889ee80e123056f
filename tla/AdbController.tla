--------------------------- MODULE AdbController ---------------------------
(***************************************************************************)
(* The commands of adb.exe (AdbController and spawn_capture() in           *)
(* src/src/android/scrcpy_receiver.cpp).  A call makes two pipes, starts   *)
(* the process with an end of each, writes its standard input, reads what  *)
(* it prints until nobody holds the pipe's other end, and waits for it.    *)
(*                                                                         *)
(* A process inherits what may be inherited when it is started, of every   *)
(* call: the panel's discovery and a connection call adb at the same time, *)
(* and the end of one's pipe may be held by the other's process.           *)
(***************************************************************************)
EXTENDS Integers

CONSTANT Calls   \* calls of adb.exe, each from a thread of its own

VARIABLES
    command,   \* what a call is to do
    step,      \* where it is
    open,      \* the ends of its pipes and its process, by handles held here
    process,   \* its process: "none", "running" or "exited"
    inherited, \* the ends of pipes a process holds: pairs of a call and an end
    input,     \* whether there is something on its standard input
    printed,   \* the words it has printed
    code,      \* its exit code; -1: no process
    told       \* what the caller is told

adbVars == <<command, step, open, process, inherited, input, printed, code, told>>

\* What is printed for a command, and what is looked for in it: a word, or the
\* lines of devices without those that are offline or unauthorized.
Words == [pair |-> {"Successfully paired", "Failed"}, connect |-> {"connected", "failed"},
          devices |-> {"device", "offline"}]
Wanted == [pair |-> {"Successfully paired"}, connect |-> {"connected"}, devices |-> {"device"}]

Init ==
    /\ command \in [Calls -> DOMAIN Words] /\ step = [c \in Calls |-> "idle"]
    /\ open = [c \in Calls |-> {}]
    /\ process = [c \in Calls |-> "none"] /\ inherited = [c \in Calls |-> {}]
    /\ input = [c \in Calls |-> FALSE] /\ printed = [c \in Calls |-> {}]
    /\ code = [c \in Calls |-> 0] /\ told = [c \in Calls |-> {}]

-----------------------------------------------------------------------------
(* spawn_capture()                                                         *)

\* The call goes on from one step to the next, with these handles.
Goes(c, from, to, handles) ==
    /\ step[c] = from /\ step' = [step EXCEPT ![c] = to]
    /\ open' = [open EXCEPT ![c] = handles]
    /\ UNCHANGED command

FirstPipe(c) ==
    /\ Goes(c, "idle", "keep input", {"in_r", "in_w"})
    /\ UNCHANGED <<process, inherited, input, printed, code, told>>
SecondPipe(c) ==
    /\ Goes(c, "second pipe", "keep output", open[c] \cup {"out_r", "out_w"})
    /\ UNCHANGED <<process, inherited, input, printed, code, told>>

\* SetHandleInformation(): from here on the end that stays is not inherited.
Keep(c) ==
    /\ \/ Goes(c, "keep input", "second pipe", open[c])
       \/ Goes(c, "keep output", "create", open[c])
    /\ UNCHANGED <<process, inherited, input, printed, code, told>>
Private(c) == (IF step[c] = "keep input" THEN {} ELSE {"in_w"})
              \cup (IF step[c] = "keep output" THEN {} ELSE {"out_r"})

\* A pipe or the process cannot be made: the call returns -1.
SpawnFails(c) ==
    /\ \E from \in {"idle", "second pipe", "create"} : Goes(c, from, "return", {})
    /\ code' = [code EXCEPT ![c] = -1]
    /\ UNCHANGED <<process, inherited, input, printed, told>>

\* What a process inherits that is started now.
Inheritable ==
    UNION {{<<d, e>> : e \in open[d] \ (Private(d) \cup {"process"})} : d \in Calls}

\* Mutant: the end the process writes to stays open here.
AfterCreateKeeps(c) == (open[c] \ {"in_r"}) \cup {"process"}

\* The ends that are the process's are closed.
AfterCreate(c) == (open[c] \ {"in_r", "out_w"}) \cup {"process"}

CreateProcess(c) ==
    /\ Goes(c, "create", "write", AfterCreate(c))
    /\ process' = [process EXCEPT ![c] = "running"]
    /\ inherited' = [inherited EXCEPT ![c] = Inheritable]
    /\ UNCHANGED <<input, printed, code, told>>

\* The code that pairs is written, and the end is closed.
WriteInput(c) ==
    /\ Goes(c, "write", "read", open[c] \ {"in_w"})
    /\ input' = [input EXCEPT ![c] = (command[c] = "pair")]
    /\ UNCHANGED <<process, inherited, printed, code, told>>

\* ReadFile() fails when nobody can write any more.
CanBeWritten(c) == "out_w" \in open[c] \/ \E d \in Calls : <<c, "out_w">> \in inherited[d]
ReadEnds(c) ==
    /\ ~CanBeWritten(c)
    /\ Goes(c, "read", "wait", open[c] \ {"out_r"})
    /\ UNCHANGED <<process, inherited, input, printed, code, told>>

\* The process has ended, or ten seconds later it is killed, with the code 1.
Wait(c) ==
    /\ Goes(c, "wait", "return", open[c] \ {"process"})
    /\ IF process[c] = "exited" THEN UNCHANGED <<process, inherited, code>>
       ELSE /\ process' = [process EXCEPT ![c] = "exited"]
            /\ inherited' = [inherited EXCEPT ![c] = {}]
            /\ code' = [code EXCEPT ![c] = 1]
    /\ UNCHANGED <<input, printed, told>>

\* Mutant: the exit code is not looked at.
FoundAnyway(c) == printed[c] \cap Wanted[command[c]]

\* pair(), connect() and list_devices(): what is found in what was printed.
Found(c) == IF code[c] = 0 THEN printed[c] \cap Wanted[command[c]] ELSE {}

Return(c) ==
    /\ Goes(c, "return", "returned", open[c])
    /\ told' = [told EXCEPT ![c] = Found(c)]
    /\ UNCHANGED <<process, inherited, input, printed, code>>

-----------------------------------------------------------------------------
(* The process: it prints and ends; adb reads the code that pairs first.   *)
(* It may close its standard output before it ends, or not end at all.     *)

Prints(c, w) ==
    /\ process[c] = "running" /\ <<c, "out_w">> \in inherited[c] /\ printed[c] = {}
    /\ printed' = [printed EXCEPT ![c] = {w}]
    /\ UNCHANGED <<command, step, open, process, inherited, input, code, told>>

ClosesOutput(c) ==
    /\ process[c] = "running"
    /\ inherited' = [inherited EXCEPT ![c] = @ \ {<<c, "out_w">>}]
    /\ UNCHANGED <<command, step, open, process, input, printed, code, told>>

Exits(c) ==
    /\ process[c] = "running" /\ (command[c] = "pair" => input[c])
    /\ process' = [process EXCEPT ![c] = "exited"]
    /\ inherited' = [inherited EXCEPT ![c] = {}]
    /\ code' \in {[code EXCEPT ![c] = rc] : rc \in {0, 1}}
    /\ UNCHANGED <<command, step, open, input, printed, told>>

CallStep(c) ==
    \/ FirstPipe(c) \/ Keep(c) \/ SecondPipe(c) \/ SpawnFails(c) \/ CreateProcess(c)
    \/ WriteInput(c) \/ ReadEnds(c) \/ Wait(c) \/ Return(c)

Next ==
    \E c \in Calls :
        \/ CallStep(c) \/ ClosesOutput(c) \/ Exits(c)
        \/ \E w \in Words[command[c]] : Prints(c, w)

-----------------------------------------------------------------------------
(* Properties *)

TypeOK ==
    /\ command \in [Calls -> DOMAIN Words]
    /\ step \in [Calls -> {"idle", "keep input", "second pipe", "keep output", "create",
                           "write", "read", "wait", "return", "returned"}]
    /\ process \in [Calls -> {"none", "running", "exited"}]
    /\ code \in [Calls -> {-1, 0, 1}]

\* A call that has returned has closed every handle it made, however it ended.
HandlesClosed == \A c \in Calls : step[c] \in {"return", "returned"} => open[c] = {}

\* Nothing is reported of a command that failed, was killed or never ran.
ToldOfSuccess ==
    \A c \in Calls : told[c] # {} =>
        process[c] = "exited" /\ code[c] = 0 /\ told[c] \subseteq printed[c]

\* A call that waits for output waits for a process: when all have ended, nobody
\* is left who can write to its pipe, and it goes on by itself.
NobodyWaits ==
    (\A d \in Calls : process[d] # "running") =>
        \A c \in Calls : step[c] = "read" => ~CanBeWritten(c)
=============================================================================
