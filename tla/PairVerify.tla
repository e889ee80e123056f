----------------------------- MODULE PairVerify -----------------------------
(***************************************************************************)
(* The keys of a mirror session: Pairing (pair-setup and the two phases of *)
(* pair-verify) and FairPlay (the key message), pairing.cpp, as the RTSP   *)
(* handlers of airplay_server.cpp use them, up to the SETUP that combines  *)
(* the two into the stream's AES key (airplay_server.cpp:803-822).         *)
(*                                                                         *)
(* pairing_ and fairplay_ are single objects without a mutex, called by    *)
(* the handler thread of every client.  A call is a begin and an end; what *)
(* calls do that overlap on one object is undefined, and the object is     *)
(* then `torn': every outcome is possible.                                 *)
(***************************************************************************)
CONSTANTS
    Clients, \* devices that pair
    Nobody   \* none of them

VARIABLES
    state,    \* Pairing::state_
    session,  \* whose keys pairing_ holds
    keymsg,   \* whose message fairplay_ holds, if keymsg_len_ is 164
    inside,   \* the call each client's handler is in
    torn,     \* calls on pairing_ have overlapped
    progress, \* how far each client has got by what it was answered
    key,      \* the AES key its SETUP has given it
    alone     \* ghost: nobody else has called since its pair-setup

verifyVars == <<state, session, keymsg, inside, torn, progress, key, alone>>

PairingCalls == {"setup", "phase1", "phase2"}
FairPlayCalls == {"challenge", "handshake"}
\* SETUP reads both objects.
Calls == PairingCalls \cup FairPlayCalls \cup {"key"}

States == {"Initial", "Setup", "Handshake", "Finished"}
Progress == {"none", "setup", "keys", "verified", "challenged", "ready", "refused"}

TypeOK ==
    /\ state \in States
    /\ session \in Clients \cup {Nobody}
    /\ keymsg \in Clients \cup {Nobody}
    /\ inside \in [Clients -> Calls \cup {"idle"}]
    /\ torn \in BOOLEAN
    /\ progress \in [Clients -> Progress]
    /\ key \in [Clients -> {"none", "right", "wrong"}]
    /\ alone \in [Clients -> BOOLEAN]

Init ==
    /\ state = "Initial"
    /\ session = Nobody
    /\ keymsg = Nobody
    /\ inside = [c \in Clients |-> "idle"]
    /\ torn = FALSE
    /\ progress = [c \in Clients |-> "none"]
    /\ key = [c \in Clients |-> "none"]
    /\ alone = [c \in Clients |-> FALSE]

\* Two calls on pairing_, at least one of which changes it.
Clash(x, y) ==
    /\ {x, y} \subseteq PairingCalls \cup {"key"}
    /\ {x, y} # {"key"}

\* A client asks in the order of the protocol; it may start again, and then
\* forgets what it had.
Asks(c, call) ==
    \/ call = "setup"
    \/ call = "phase1"    /\ progress[c] = "setup"
    \/ call = "phase2"    /\ progress[c] = "keys"
    \/ call = "challenge" /\ progress[c] = "verified"
    \/ call = "handshake" /\ progress[c] = "challenged"
    \/ call = "key"       /\ progress[c] = "ready"

Begin(c, call) ==
    /\ inside[c] = "idle"
    /\ Asks(c, call)
    /\ inside' = [inside EXCEPT ![c] = call]
    /\ torn' = (torn \/ \E d \in Clients : Clash(call, inside[d]))
    /\ alone' = [d \in Clients |->
                   IF d # c THEN FALSE
                   ELSE IF call = "setup" THEN \A e \in Clients : inside[e] = "idle"
                   ELSE alone[c]]
    /\ IF call = "setup"
       THEN progress' = [progress EXCEPT ![c] = "none"] /\ key' = [key EXCEPT ![c] = "none"]
       ELSE UNCHANGED <<progress, key>>
    /\ UNCHANGED <<state, session, keymsg>>

Leaves(c, step) ==
    /\ inside' = [inside EXCEPT ![c] = "idle"]
    /\ progress' = [progress EXCEPT ![c] = step]

\* Mutant: reset_session() is all that pair-setup does.
PairSetupOnlyResets(c) ==
    /\ ~torn /\ inside[c] = "setup"
    /\ state' = "Initial" /\ session' = Nobody
    /\ Leaves(c, "setup")
    /\ UNCHANGED <<keymsg, torn, key, alone>>

\* pair_setup(): reset_session(), then state_ = Setup.
PairSetup(c) ==
    /\ ~torn /\ inside[c] = "setup"
    /\ state' = "Setup" /\ session' = Nobody
    /\ Leaves(c, "setup")
    /\ UNCHANGED <<keymsg, torn, key, alone>>

\* pair_verify_phase1(): refused unless in Setup; the client's keys and a
\* key pair of our own, the shared secret, our signature.
PhaseOne(c) ==
    /\ ~torn /\ inside[c] = "phase1"
    /\ IF state = "Setup"
       THEN state' = "Handshake" /\ session' = c /\ Leaves(c, "keys")
       ELSE UNCHANGED <<state, session>> /\ Leaves(c, "refused")
    /\ UNCHANGED <<keymsg, torn, key, alone>>

\* pair_verify_phase2(): refused unless in Handshake; the signature is
\* checked against the keys that are in the object.
PhaseTwo(c) ==
    /\ ~torn /\ inside[c] = "phase2"
    /\ IF state = "Handshake" /\ session = c
       THEN state' = "Finished" /\ Leaves(c, "verified")
       ELSE UNCHANGED state /\ Leaves(c, "refused")
    /\ UNCHANGED <<session, keymsg, torn, key, alone>>

\* After calls have overlapped a call on pairing_ does anything.
TornCall(c) ==
    /\ torn /\ inside[c] \in PairingCalls
    /\ \E s \in States : state' = s
    /\ \E d \in Clients \cup {Nobody} : session' = d
    /\ \E step \in {"refused", CASE inside[c] = "setup" -> "setup"
                                 [] inside[c] = "phase1" -> "keys"
                                 [] OTHER -> "verified"} : Leaves(c, step)
    /\ UNCHANGED <<keymsg, torn, key, alone>>

\* FairPlay::setup(): the message that is held is dropped.
Challenge(c) ==
    /\ inside[c] = "challenge"
    /\ keymsg' = Nobody
    /\ Leaves(c, "challenged")
    /\ UNCHANGED <<state, session, torn, key, alone>>

\* FairPlay::handshake(): the message is kept for decrypt().  If two are
\* copied at once the mix counts as the other client's.
Handshake(c) ==
    /\ inside[c] = "handshake"
    /\ \E d \in Clients : inside[d] = "handshake" /\ keymsg' = d
    /\ Leaves(c, "ready")
    /\ UNCHANGED <<state, session, torn, key, alone>>

\* SETUP: without a message there is no key; it is hashed with the shared
\* secret of whatever session pairing_ holds.
DeriveKey(c) ==
    /\ inside[c] = "key"
    /\ key' = [key EXCEPT ![c] =
                 IF keymsg = Nobody THEN "none"
                 ELSE IF keymsg = c /\ session = c /\ state \in {"Handshake", "Finished"} /\ ~torn
                      THEN "right" ELSE "wrong"]
    /\ Leaves(c, IF keymsg = Nobody THEN "refused" ELSE "ready")
    /\ UNCHANGED <<state, session, keymsg, torn, alone>>

Next ==
    \E c \in Clients :
        \/ \E call \in Calls : Begin(c, call)
        \/ PairSetup(c) \/ PhaseOne(c) \/ PhaseTwo(c) \/ TornCall(c)
        \/ Challenge(c) \/ Handshake(c) \/ DeriveKey(c)

Spec == Init /\ [][Next]_verifyVars

(***************************************************************************)
(* Properties.                                                             *)
(***************************************************************************)

\* A client that nobody comes between is never refused and gets the key it
\* can decrypt with, whatever clients before it left in the two objects.
AloneSucceeds ==
    \A c \in Clients :
        alone[c] /\ ~torn => progress[c] # "refused" /\ key[c] # "wrong"

(***************************************************************************)
(* What the code intends and does not keep on every path.                  *)
(***************************************************************************)

\* Each device gets a key that decrypts its own stream.
KeyFits == \A c \in Clients : key[c] # "wrong"

\* No two handlers are inside pairing_ at once.
PairingNotTorn == ~torn
=============================================================================
