----------------------------- MODULE PinPairing -----------------------------
(***************************************************************************)
(* Pairing with a PIN: airplay_server.cpp:540-728 over the SRP server of   *)
(* srp_pin.cpp, and the code the renderer draws.  There is one PIN and one *)
(* SRP session for all clients; each client has an RTSP handler thread of  *)
(* its own.  pin_mutex_ is held throughout a step of /pair-setup-pin, and  *)
(* /pair-pin-start shows its PIN after it has released the mutex.          *)
(*                                                                         *)
(* The arithmetic is reduced to who can compute what: a proof is right if  *)
(* it was made from the session's PIN by the client that got its salt and  *)
(* B, and only that client has the key for the third step.                 *)
(***************************************************************************)

CONSTANTS
    Clients, \* devices that pair
    Nobody,  \* none of them
    Pins,    \* the four digits
    NoPin    \* the empty string

VARIABLES
    current,   \* current_pin_
    active,    \* srp_active_
    srp,       \* srp_pin_
    shown,     \* Renderer::pin_code_
    starting,  \* per client, a PIN that is stored and not yet shown
    late       \* ghost: the PIN shown last was not current any more by then

pinVars == <<current, active, srp, shown, starting, late>>

\* SrpPinServer: the PIN and the client of its session, whether start() was
\* carried out (ready) and whether a proof was accepted (authenticated_).
Session == [pin : Pins \cup {NoPin}, by : Clients \cup {Nobody},
            ready : BOOLEAN, authenticated : BOOLEAN]

TypeOK ==
    /\ current \in Pins \cup {NoPin}
    /\ active \in BOOLEAN
    /\ srp \in Session
    /\ shown \in Pins \cup {NoPin}
    /\ starting \in [Clients -> Pins \cup {NoPin}]
    /\ late \in BOOLEAN

Init ==
    /\ current = NoPin
    /\ active = FALSE
    /\ srp = [pin |-> NoPin, by |-> Nobody, ready |-> FALSE, authenticated |-> FALSE]
    /\ shown = NoPin
    /\ starting = [c \in Clients |-> NoPin]
    /\ late = FALSE

(***************************************************************************)
(* SrpPinServer, srp_pin.cpp.                                              *)
(***************************************************************************)

\* start(): a new salt and key pair for this PIN and the client that asks.
StartSession(c) ==
    srp' = [pin |-> current, by |-> c, ready |-> TRUE, authenticated |-> FALSE]

\* process_client_pubkey(): whether a proof that c made from pin verifies.
Verifies(c, pin) == srp.ready /\ srp.by = c /\ srp.pin = pin

\* srp_pin_decrypt_ltpk(): c's long term key comes out whole only if c has
\* encrypted it with the session's key.
Decrypts(c) == srp.by = c

(***************************************************************************)
(* handle_pair_pin_start().                                                *)
(***************************************************************************)

\* Mutant: the session of the PIN before is kept.
PinStartKeepsSession(c) ==
    /\ starting[c] = NoPin
    /\ \E pin \in Pins : current' = pin /\ starting' = [starting EXCEPT ![c] = pin]
    /\ UNCHANGED <<active, srp, shown, late>>

\* Under pin_mutex_: a new PIN, and no session.
PinStart(c) ==
    /\ starting[c] = NoPin
    /\ \E pin \in Pins : current' = pin /\ starting' = [starting EXCEPT ![c] = pin]
    /\ active' = FALSE
    /\ UNCHANGED <<srp, shown, late>>

\* on_pin_display_(pin), without the mutex.
PinShow(c) ==
    /\ starting[c] # NoPin
    /\ shown' = starting[c]
    /\ starting' = [starting EXCEPT ![c] = NoPin]
    /\ late' = (starting[c] # current)
    /\ UNCHANGED <<current, active, srp>>

(***************************************************************************)
(* handle_pair_setup_pin(), step 1: salt and B.                            *)
(***************************************************************************)

\* A client that is here has been answered by /pair-pin-start before.
Idle(c) == starting[c] = NoPin

StepOne(c) ==
    /\ Idle(c)
    /\ current # NoPin
    /\ StartSession(c)
    /\ active' = TRUE
    /\ UNCHANGED <<current, shown, starting, late>>

\* SrpPinServer::start() gives up: the session it had is gone, active stays.
StepOneFails(c) ==
    /\ Idle(c)
    /\ current # NoPin
    /\ srp' = [srp EXCEPT !.ready = FALSE, !.authenticated = FALSE]
    /\ UNCHANGED <<current, active, shown, starting, late>>

(***************************************************************************)
(* Step 2: the client's public key and proof.                              *)
(***************************************************************************)

\* The sizes are wrong, or the arithmetic throws.
StepTwoAborts(c) ==
    /\ Idle(c)
    /\ active
    /\ active' = FALSE
    /\ UNCHANGED <<current, srp, shown, starting, late>>

StepTwoAccepts(c, pin) ==
    /\ Idle(c)
    /\ active
    /\ Verifies(c, pin)
    /\ srp' = [srp EXCEPT !.authenticated = TRUE]
    /\ UNCHANGED <<current, active, shown, starting, late>>

\* A wrong proof takes the PIN from the screen and ends the session; the
\* PIN itself stays.
StepTwoRefuses(c, pin) ==
    /\ Idle(c)
    /\ active
    /\ ~Verifies(c, pin)
    /\ shown' = NoPin
    /\ active' = FALSE
    /\ UNCHANGED <<current, srp, starting, late>>

(***************************************************************************)
(* Step 3: the long term keys are exchanged.  A body that does not decrypt *)
(* and a key that does not encrypt change nothing.                         *)
(***************************************************************************)

\* Mutant: the PIN is forgotten and stays on the screen.
StepThreeLeavesPin(c) ==
    /\ Idle(c)
    /\ active /\ srp.authenticated /\ Decrypts(c)
    /\ current' = NoPin
    /\ active' = FALSE
    /\ UNCHANGED <<srp, shown, starting, late>>

StepThree(c) ==
    /\ Idle(c)
    /\ active /\ srp.authenticated /\ Decrypts(c)
    /\ shown' = NoPin
    /\ current' = NoPin
    /\ active' = FALSE
    /\ UNCHANGED <<srp, starting, late>>

Next ==
    \E c \in Clients :
        \/ PinStart(c) \/ PinShow(c)
        \/ StepOne(c) \/ StepOneFails(c)
        \/ StepTwoAborts(c) \/ StepThree(c)
        \/ \E pin \in Pins : StepTwoAccepts(c, pin) \/ StepTwoRefuses(c, pin)

Spec == Init /\ [][Next]_pinVars

(***************************************************************************)
(* Properties.                                                             *)
(***************************************************************************)

\* A session that can still be carried on is one of the PIN that is current:
\* a new PIN ("forced fresh start", airplay_server.cpp:553), a failed step
\* and a pairing that is complete all end it, in whatever order the clients'
\* requests come.
SessionUsesPin == active /\ srp.ready => srp.pin = current

\* The PIN on the screen is one that can be entered, unless another is about
\* to be shown in its place, or it had been replaced or used before it was
\* shown (on_pin_display_ is called without the mutex).
ShownIsCurrent ==
    shown # NoPin =>
        \/ shown = current
        \/ late
        \/ \E c \in Clients : starting[c] # NoPin

(***************************************************************************)
(* What the code intends and does not keep on every path.                  *)
(***************************************************************************)

\* The PIN on the screen is always one that can be entered.
ShownCanBeEntered == shown # NoPin => shown = current

\* Only the client that is refused loses its session.
RefusalIsOwn ==
    [][\A c \in Clients :
         (srp.by = c /\ active /\ \E d \in Clients \ {c}, pin \in Pins : StepTwoRefuses(d, pin))
             => active']_pinVars
=============================================================================
