---------------------------- MODULE ProgramStart ----------------------------
(***************************************************************************)
(* main() (src/src/main.cpp): the command line, the processes a launch may *)
(* end, the firewall's rules it may ask for, and the life of App, for      *)
(* several processes of the program at once.                               *)
(***************************************************************************)
EXTENDS Integers, Sequences

CONSTANTS
    Processes,   \* processes of the program
    MaxArguments \* words of a command line

VARIABLES
    args,    \* each process's command line, until it has read it
    pc,      \* where it is
    config,  \* what it made of the line
    found,   \* the processes it has listed and not got to yet
    met,     \* of those it has got to, the ones it could open
    rules,   \* the firewall has the rules
    agreed,  \* how often each process's user has said yes to rules
    killer   \* who ended each process

startVars == <<args, pc, config, found, met, rules, agreed, killer>>

Nobody == "nobody"

-----------------------------------------------------------------------------
(* The command line *)

\* An option of each kind: what takes no word after it, what takes any, what takes
\* a number, what does its work at once and ends, and what does not exist.
Switches == {"--airplay-pin", "--cleanup-stale", "--setup-firewall"}
Values == {"--name", "--width"}
Words == Switches \cup Values \cup {"--help", "--android-connect", "1280", "phone"}

Unset == ""  \* an option that is not given
NoOptions == [w \in Switches \cup Values |-> Unset]

\* The outcomes of a word: the program goes on, has ended, or has crashed.
Going(options, skip) == [on |-> "run", options |-> options, skip |-> skip]
Over(how, options) == [on |-> how, options |-> options, skip |-> FALSE]

\* Mutant: the last word needs none after it.
WordTakenLast(line, i, options) ==
    LET w == line[i]  more == TRUE IN
    CASE w \in Switches -> Going([options EXCEPT ![w] = "on"], FALSE)
      [] w = "--width" /\ more ->
            IF i < Len(line) /\ line[i + 1] = "1280" THEN Going([options EXCEPT ![w] = line[i + 1]], TRUE)
            ELSE Over("crash", options)
      [] w = "--name" /\ more ->
            Going([options EXCEPT ![w] = IF i < Len(line) THEN line[i + 1] ELSE Unset], TRUE)
      [] OTHER -> Over("exit", options)

\* One turn of main()'s loop.  A word that std::stoi() does not take for a number
\* is an exception that nobody catches.
WordTaken(line, i, options) ==
    LET w == line[i]  more == i < Len(line) IN
    CASE w \in Switches -> Going([options EXCEPT ![w] = "on"], FALSE)
      [] w = "--width" /\ more ->
            IF line[i + 1] = "1280" THEN Going([options EXCEPT ![w] = line[i + 1]], TRUE)
            ELSE Over("crash", options)
      [] w = "--name" /\ more -> Going([options EXCEPT ![w] = line[i + 1]], TRUE)
      [] OTHER -> Over("exit", options)

\* The loop, up to word n.
Parsed(line) ==
    LET after[n \in 0 .. Len(line)] ==
            IF n = 0 THEN Going(NoOptions, FALSE)
            ELSE LET last == after[n - 1] IN
                 IF last.on # "run" THEN last
                 ELSE IF last.skip THEN [last EXCEPT !.skip = FALSE]
                 ELSE WordTaken(line, n, last.options)
    IN  after[Len(line)]

-----------------------------------------------------------------------------
(* The processes *)

Alive(p) == pc[p] \notin {"off", "exit", "crash", "killed"}

Init ==
    /\ \E p \in Processes :
        \E line \in UNION {[1 .. n -> Words] : n \in 0 .. MaxArguments} :
            args = [q \in Processes |-> IF q = p THEN line ELSE <<"--cleanup-stale">>]
    /\ pc = [p \in Processes |-> "off"]
    /\ config = [p \in Processes |-> NoOptions]
    /\ found = [p \in Processes |-> {}] /\ met = [p \in Processes |-> {}]
    /\ rules \in BOOLEAN
    /\ agreed = [p \in Processes |-> 0]
    /\ killer = [p \in Processes |-> Nobody]

Goto(p, place) == pc' = [pc EXCEPT ![p] = place]
Kept == UNCHANGED <<args, rules, agreed>>

\* The process is started and reads its command line.
Launch(p) ==
    /\ pc[p] = "off"
    /\ \E line \in {Parsed(args[p])} :
        /\ config' = [config EXCEPT ![p] = line.options]
        /\ Goto(p, CASE line.on = "run" -> "cleanup" [] line.on = "crash" -> "crash"
                     [] OTHER -> "exit")
    /\ args' = [args EXCEPT ![p] = <<>>]
    /\ UNCHANGED <<found, met, rules, agreed, killer>>

\* Mutant: the process finds itself as well.
ListsAll(p) ==
    /\ pc[p] = "cleanup" /\ config[p]["--cleanup-stale"] = "on"
    /\ found' = [found EXCEPT ![p] = {q \in Processes : Alive(q)}]
    /\ Goto(p, "kill")
    /\ Kept /\ UNCHANGED <<config, met, killer>>

\* The user agrees, and kill_stale_instances() lists who is there.
Lists(p) ==
    /\ pc[p] = "cleanup" /\ config[p]["--cleanup-stale"] = "on"
    /\ found' = [found EXCEPT ![p] = {q \in Processes \ {p} : Alive(q)}]
    /\ Goto(p, "kill")
    /\ Kept /\ UNCHANGED <<config, met, killer>>

\* No option, or the user does not agree.
KillsNobody(p) ==
    /\ pc[p] = "cleanup"
    /\ Goto(p, "firewall")
    /\ Kept /\ UNCHANGED <<config, found, met, killer>>

\* Mutant: a process that could be opened is waited for, and not ended.
KillsNone(p, q) ==
    /\ pc[p] = "kill" /\ q \in found[p]
    /\ found' = [found EXCEPT ![p] = @ \ {q}]
    /\ met' = [met EXCEPT ![p] = @ \cup {q}]
    /\ UNCHANGED <<pc, killer>>
    /\ Kept /\ UNCHANGED config

\* One of the list: it may not be opened, or is ended, wherever it is, unless it
\* has ended by itself.
Kills(p, q) ==
    /\ pc[p] = "kill" /\ q \in found[p]
    /\ found' = [found EXCEPT ![p] = @ \ {q}]
    /\ \/ UNCHANGED <<pc, met, killer>>
       \/ /\ met' = [met EXCEPT ![p] = @ \cup {q}]
          /\ IF Alive(q)
             THEN /\ pc' = [pc EXCEPT ![q] = "killed"]
                  /\ killer' = [killer EXCEPT ![q] = p]
             ELSE UNCHANGED <<pc, killer>>
    /\ Kept /\ UNCHANGED config
Listed(p) ==
    /\ pc[p] = "kill" /\ found[p] = {}
    /\ Goto(p, "firewall")
    /\ Kept /\ UNCHANGED <<config, found, met, killer>>

WallKept == UNCHANGED <<args, config, found, met, killer>>

\* Mutant: what netsh does not say is taken for a yes.
AsksWithout(p) ==
    /\ pc[p] = "firewall" /\ config[p]["--setup-firewall"] = "on"
    /\ Goto(p, "elevate") /\ UNCHANGED agreed
    /\ WallKept /\ UNCHANGED rules

\* The user agrees to look for rules; there are some, or there are none and the
\* user agrees to make them.  netsh may give no answer in time, which is taken
\* for none.
Asks(p) ==
    /\ pc[p] = "firewall" /\ config[p]["--setup-firewall"] = "on"
    /\ \/ Goto(p, "elevate") /\ agreed' = [agreed EXCEPT ![p] = 2]
       \/ Goto(p, "name") /\ agreed' = [agreed EXCEPT ![p] = 1]
    /\ WallKept /\ UNCHANGED rules
AsksNot(p) ==
    /\ pc[p] = "firewall"
    /\ Goto(p, "name")
    /\ WallKept /\ UNCHANGED <<rules, agreed>>

\* The command that makes the rules needs an administrator.
Elevates(p) ==
    /\ pc[p] = "elevate"
    /\ \/ rules' = TRUE \/ UNCHANGED rules
    /\ Goto(p, "name")
    /\ WallKept /\ UNCHANGED agreed

\* App's life: its name, which an option has given or the settings give, init(),
\* which may fail, run() and shutdown().
Names(p) ==
    /\ pc[p] = "name" /\ Goto(p, "init")
    /\ config' = [config EXCEPT ![p]["--name"] =
                     IF @ = Unset THEN "1PhoneMirror" ELSE @]
    /\ Kept /\ UNCHANGED <<found, met, killer>>
Lives(p) ==
    /\ \/ pc[p] = "init" /\ (Goto(p, "run") \/ Goto(p, "exit"))
       \/ pc[p] = "run" /\ Goto(p, "shutdown")
       \/ pc[p] = "shutdown" /\ Goto(p, "exit")
    /\ Kept /\ UNCHANGED <<config, found, met, killer>>

Next ==
    \E p \in Processes :
        \/ Launch(p)
        \/ Lists(p) \/ KillsNobody(p) \/ (\E q \in Processes : Kills(p, q)) \/ Listed(p)
        \/ Asks(p) \/ AsksNot(p) \/ Elevates(p)
        \/ Names(p) \/ Lives(p)

-----------------------------------------------------------------------------
(* Properties *)

TypeOK ==
    /\ DOMAIN pc = Processes /\ rules \in BOOLEAN
    /\ \A p \in Processes : found[p] \subseteq Processes /\ met[p] \subseteq Processes

\* Two command lines that are taken are taken one after the other, and the second
\* has the last word: no option swallows the next one, and none needs what is not
\* there.
LinesCompose ==
    \A p \in Processes : pc[p] = "off" =>
        \A k \in 0 .. Len(args[p]) :
            LET a == Parsed(SubSeq(args[p], 1, k))
                b == Parsed(SubSeq(args[p], k + 1, Len(args[p])))
                c == Parsed(args[p])
            IN  (a.on = "run" /\ ~a.skip /\ b.on = "run") =>
                    /\ c.on = "run"
                    /\ \A w \in DOMAIN NoOptions :
                        c.options[w] = IF b.options[w] # Unset THEN b.options[w] ELSE a.options[w]

\* Processes that are started together do not end each other: whoever ends
\* another has not been ended by it or by itself, so that somebody is left.
SomeoneLeft ==
    /\ \A p, q \in Processes : killer[p] = q => q # p /\ killer[q] # p
    /\ \E p \in Processes : killer[p] = Nobody

\* Whoever comes to run has ended the processes it has listed and could open.
OldOnesGone ==
    \A p \in Processes : pc[p] \in {"firewall", "elevate", "name", "init", "run"} =>
        \A q \in met[p] : ~Alive(q)

\* Rules are made only after the user has said yes twice.
RulesAgreed == [][rules' # rules => \E p \in Processes : agreed[p] = 2]_startVars
=============================================================================
