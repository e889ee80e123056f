---------------------------- MODULE Program_proofs ----------------------------
(***************************************************************************)
(* The source arbiter for any number of devices and sessions: no claim of  *)
(* the screen outlives its owner, and a device's rows in the usage log     *)
(* alternate.  And the parts of the program beside it, for any number of   *)
(* checks, threads, lines, launches, rows, processes and words: each has   *)
(* an inductive invariant (UpdateInv, LogInv, SettingsInv, UsageInv,       *)
(* MainInv), its lemmas come first, then one for each action.              *)
(***************************************************************************)
EXTENDS MCProgram, SequenceTheorems, FiniteSetTheorems, Induction, TLAPS

(***************************************************************************)
(* The source arbiter.                                                     *)
(***************************************************************************)
\* A thread of one kind is never one of another.
LEMMA ThreadsApart ==
    /\ Ui \in Threads /\ Miracast \in Threads /\ Cast \in Threads /\ Android \in Threads
    /\ Ui # Miracast /\ Miracast \notin {Cast, Android}
    /\ \A d \in Devices :
        /\ <<"setup", d>> \in Threads /\ <<"mirror", d>> \in Threads
        /\ \A e \in Devices : <<"setup", d>> # <<"mirror", e>>
        /\ <<"setup", d>> \notin {Ui, Miracast, Cast, Android}
        /\ <<"mirror", d>> \notin {Ui, Miracast, Cast, Android}
        /\ \A e \in Devices : <<"mirror", d>> = <<"mirror", e>> => d = e
  BY DEF Threads, Setups, Mirrors, Ui, Miracast, Cast, Android

-----------------------------------------------------------------------------
\* What a thread that goes somewhere does to the types of the thread variables.
Location ==
    {"off", "tell", "live", "claim", "read", "start", "bye", "end", "late", "stuck"} \cup Devices

LEMMA GotoTyped ==
    ASSUME TypeOK, NEW t \in Threads, NEW l \in Location, Goto(t, l)
    PROVE  pc' \in [Threads -> Location]
  BY DEF TypeOK, Goto, Location

LEMMA NotifyTyped ==
    ASSUME TypeOK, NEW t \in Threads, NEW l \in {"off", "live", "bye"}, Notify(t, l),
           AirPlay!TypeOK'
    PROVE  /\ pc' \in [Threads -> Location]
           /\ after' \in [Threads -> {"off", "live", "bye"}]
           /\ snapshot' \in [Threads -> SUBSET Devices]
<1>1. pc' \in [Threads -> Location]
  BY GotoTyped DEF Notify, Location
<1>2. after' \in [Threads -> {"off", "live", "bye"}]
  BY DEF Notify, TypeOK
<1>3. snapshot' \in [Threads -> SUBSET Devices]
  BY DEF Notify, TypeOK, AirPlay!TypeOK
<1>. QED  BY <1>1, <1>2, <1>3

\* The picker's own steps keep the picker's type.
LEMMA RegistryTyped ==
    ASSUME TypeOK, NEW d \in Devices,
           AirPlay!Announce(d) \/ AirPlay!Stream(d) \/ AirPlay!Drop(d) \/ AirPlay!Choose(d)
    PROVE  AirPlay!TypeOK'
<1>1. CASE AirPlay!Announce(d)
  BY <1>1 DEF TypeOK, AirPlay!TypeOK, AirPlay!Announce
<1>2. CASE AirPlay!Stream(d)
  BY <1>2 DEF TypeOK, AirPlay!TypeOK, AirPlay!Stream
<1>3. CASE AirPlay!Drop(d)
  BY <1>3 DEF TypeOK, AirPlay!TypeOK, AirPlay!Drop
<1>4. CASE AirPlay!Choose(d)
  BY <1>4 DEF TypeOK, AirPlay!TypeOK, AirPlay!Choose
<1>. QED  BY <1>1, <1>2, <1>3, <1>4

\* A callback's rows.
LEMMA TellTyped ==
    ASSUME TypeOK, NEW t \in Threads, Tell(t)
    PROVE  TypeOK'
<1>1. pc' \in [Threads -> Location]
  BY GotoTyped DEF Tell, GoesOn, TypeOK, Location
<1>2. snapshot[t] \subseteq Devices /\ logged \subseteq Devices
  BY DEF TypeOK
<1>3. logged' \subseteq Devices
  BY <1>2 DEF Tell
<1>4. open' \subseteq Keys
  BY <1>2 DEF Tell, TypeOK, Keys
<1>5. balance' \in [Keys -> Int]
  BY DEF Tell, TypeOK
<1>6. /\ snapshot' \in [Threads -> SUBSET Devices]
      /\ after' \in [Threads -> {"off", "live", "bye"}]
  BY DEF Tell, TypeOK
<1>7. AirPlay!TypeOK'
  BY DEF Tell, TypeOK, AirPlay!TypeOK, registryVars
<1>8. QED
  BY <1>1, <1>3, <1>4, <1>5, <1>6, <1>7 DEF Tell, TypeOK, Location, quitVars

-----------------------------------------------------------------------------
LEMMA InitTyped == Init => TypeOK
<1>. SUFFICES ASSUME Init PROVE TypeOK
  OBVIOUS
<1>1. AirPlay!TypeOK
  BY DEF Init, AirPlay!Init, AirPlay!TypeOK
<1>2. snapshot \in [Threads -> SUBSET Devices] /\ balance \in [Keys -> Int]
  BY DEF Init
<1>3. begun \in 0 .. MaxSessions
  BY MaxSessionsAssumption DEF Init
<1>. QED  BY <1>1, <1>2, <1>3 DEF Init, TypeOK

LEMMA TypeKept ==
    ASSUME TypeOK, [Next]_vars
    PROVE  TypeOK'
<1>. USE ThreadsApart
<1>1. ASSUME NEW d \in Devices, Setup(d) PROVE TypeOK'
  <2>1. AirPlay!TypeOK'
    BY <1>1, RegistryTyped DEF Setup
  <2>2. begun' \in 0 .. MaxSessions
    BY <1>1, MaxSessionsAssumption DEF Setup, TypeOK, Begin
  <2>. QED
    BY <1>1, <2>1, <2>2, NotifyTyped
    DEF Setup, TypeOK, Location, Elsewhere, logVars, quitVars
<1>2. ASSUME NEW d \in Devices, Connect(d) PROVE TypeOK'
  <2>1. AirPlay!TypeOK'
    BY <1>2, RegistryTyped DEF Connect
  <2>2. begun' \in 0 .. MaxSessions
    BY <1>2, MaxSessionsAssumption DEF Connect, TypeOK, Begin
  <2>. QED
    BY <1>2, <2>1, <2>2, NotifyTyped
    DEF Connect, TypeOK, Location, Elsewhere, logVars, quitVars
<1>3. ASSUME NEW d \in Devices, Ends(d) PROVE TypeOK'
  <2>1. AirPlay!TypeOK'
    BY <1>3, RegistryTyped DEF Ends
  <2>. QED
    BY <1>3, <2>1, NotifyTyped DEF Ends, TypeOK, Location, Elsewhere, logVars,
       quitVars
<1>4. ASSUME NEW d \in Devices, Choose(d) PROVE TypeOK'
  <2>1. AirPlay!TypeOK'
    BY <1>4, RegistryTyped DEF Choose
  <2>. QED
    BY <1>4, <2>1, NotifyTyped DEF Choose, TypeOK, Location, Elsewhere, logVars,
       quitVars
<1>5. ASSUME NEW t \in Threads, Tell(t) PROVE TypeOK'
  BY <1>5, TellTyped
<1>6. ASSUME NEW d \in Devices, Picture(d) PROVE TypeOK'
  BY <1>6, GotoTyped
  DEF Picture, Elsewhere,
      TypeOK, AirPlay!TypeOK, registryVars, logVars, quitVars, Location
<1>7. ASSUME NEW d \in Devices, ClaimAirPlay(<<"mirror", d>>) PROVE TypeOK'
  BY <1>7, GotoTyped
  DEF ClaimAirPlay, Claim, Protocols, Elsewhere,
      TypeOK, AirPlay!TypeOK, registryVars, logVars, quitVars, Location
<1>8. ASSUME NEW t \in Threads, ByeAirPlay(t) PROVE TypeOK'
  BY <1>8, GotoTyped
  DEF ByeAirPlay, Protocols, Elsewhere,
      TypeOK, AirPlay!TypeOK, registryVars, logVars, quitVars, Location
<1>9. ASSUME NEW d \in Devices, Select(d) PROVE TypeOK'
  BY <1>9, GotoTyped
  DEF Select, UiKeeps, Protocols,
      TypeOK, AirPlay!TypeOK, registryVars, logVars, quitVars, Location
<1>10. ASSUME NEW d \in Devices, ChooseNothing(d) PROVE TypeOK'
  BY <1>10, GotoTyped
  DEF ChooseNothing, UiKeeps,
      TypeOK, AirPlay!TypeOK, registryVars, logVars, quitVars, Location
<1>11. ASSUME Accept PROVE TypeOK'
  BY <1>11, GotoTyped
  DEF Accept, Elsewhere,
      TypeOK, AirPlay!TypeOK, registryVars, logVars, quitVars, Location
<1>12. ASSUME MessageBegins PROVE TypeOK'
  BY <1>12, GotoTyped
  DEF MessageBegins, Elsewhere,
      TypeOK, AirPlay!TypeOK, registryVars, logVars, quitVars, Location
<1>13. ASSUME MessageEnds PROVE TypeOK'
  BY <1>13, GotoTyped
  DEF MessageEnds, Elsewhere,
      TypeOK, AirPlay!TypeOK, registryVars, logVars, quitVars, Location
<1>14. ASSUME PictureMiracast PROVE TypeOK'
  BY <1>14, GotoTyped, MaxSessionsAssumption
  DEF PictureMiracast, Claim, Begin, Protocols, Elsewhere,
      TypeOK, AirPlay!TypeOK, registryVars, logVars, quitVars, Location
<1>15. ASSUME LogStart PROVE TypeOK'
  BY <1>15, GotoTyped
  DEF LogStart, Keys,
      TypeOK, AirPlay!TypeOK, registryVars, logVars, quitVars, Location
<1>16. ASSUME SessionEnds PROVE TypeOK'
  BY <1>16, GotoTyped
  DEF SessionEnds, Protocols, Elsewhere,
      TypeOK, AirPlay!TypeOK, registryVars, logVars, quitVars, Location
<1>17. ASSUME LogEnd PROVE TypeOK'
  BY <1>17, GotoTyped
  DEF LogEnd, Keys,
      TypeOK, AirPlay!TypeOK, registryVars, logVars, quitVars, Location
<1>18. ASSUME AndroidTakes PROVE TypeOK'
  BY <1>18
  DEF AndroidTakes, OthersKeep, threadVars, Protocols,
      TypeOK, AirPlay!TypeOK, registryVars, logVars, quitVars
<1>19. ASSUME AndroidFrees PROVE TypeOK'
  BY <1>19
  DEF AndroidFrees, OthersKeep, threadVars, Protocols,
      TypeOK, AirPlay!TypeOK, registryVars, logVars, quitVars
<1>20. ASSUME Quit PROVE TypeOK'
  BY <1>20
  DEF Quit, QuitKeeps,
      TypeOK, AirPlay!TypeOK, registryVars, logVars, quitVars
<1>21. ASSUME NEW k \in Keys, CloseSession(k) PROVE TypeOK'
  BY <1>21
  DEF CloseSession, QuitKeeps,
      TypeOK, AirPlay!TypeOK, registryVars, logVars, quitVars
<1>22. ASSUME StopAirPlay PROVE TypeOK'
  BY <1>22
  DEF StopAirPlay, StopKeeps, QuitKeeps,
      TypeOK, AirPlay!TypeOK, registryVars, logVars, quitVars
<1>23. ASSUME StopMiracast PROVE TypeOK'
  BY <1>23
  DEF StopMiracast, StopKeeps, QuitKeeps,
      TypeOK, AirPlay!TypeOK, registryVars, logVars, quitVars
<1>24. ASSUME StopCast PROVE TypeOK'
  BY <1>24, GotoTyped
  DEF StopCast, StopKeeps, QuitKeeps,
      TypeOK, AirPlay!TypeOK, registryVars, logVars, quitVars, Location
<1>25. ASSUME CastEnds \/ CastLeaves PROVE TypeOK'
  BY <1>25, GotoTyped
  DEF CastEnds, CastLeaves, StopKeeps, QuitKeeps,
      TypeOK, AirPlay!TypeOK, registryVars, logVars, quitVars, Location
<1>26. ASSUME StopAndroid PROVE TypeOK'
  BY <1>26, GotoTyped
  DEF StopAndroid, StopKeeps, QuitKeeps,
      TypeOK, AirPlay!TypeOK, registryVars, logVars, quitVars, Location
<1>27. ASSUME AndroidEnds PROVE TypeOK'
  BY <1>27, GotoTyped
  DEF AndroidEnds, StopKeeps, QuitKeeps,
      TypeOK, AirPlay!TypeOK, registryVars, logVars, quitVars, Location
<1>28. ASSUME ShutdownDone PROVE TypeOK'
  BY <1>28
  DEF ShutdownDone, StopKeeps, QuitKeeps,
      TypeOK, AirPlay!TypeOK, registryVars, logVars, quitVars
<1>29. ASSUME NEW d \in Devices, Jams(d) PROVE TypeOK'
  BY <1>29, GotoTyped
  DEF Jams, Elsewhere,
      TypeOK, AirPlay!TypeOK, registryVars, logVars, quitVars, Location
<1>30. ASSUME UNCHANGED vars PROVE TypeOK'
  BY <1>30
  DEF vars, threadVars,
      TypeOK, AirPlay!TypeOK, registryVars, logVars, quitVars
<1>. QED
  BY <1>1, <1>2, <1>3, <1>4, <1>5, <1>6, <1>7, <1>8, <1>9, <1>10, <1>11, <1>12, <1>13,
     <1>14, <1>15, <1>16, <1>17, <1>18, <1>19, <1>20, <1>21, <1>22, <1>23, <1>24, <1>25,
     <1>26, <1>27, <1>28, <1>29, <1>30
  DEF Next, AirPlayStep, Event, MiracastStep, ShutdownStep, StopsStreaming, Leaves,
      LastBye, Teardown, MiracastStops, MiracastLeaves

\* Every state has its type.
THEOREM Typing == Spec => []TypeOK
<1>. QED  BY InitTyped, TypeKept, PTL DEF Spec

-----------------------------------------------------------------------------
(* A claim has an owner. *)

\* The thread is in location l, or goes there when the callback returns.
Heads(t, l) == pc[t] = l \/ (pc[t] = "tell" /\ after[t] = l)

\* A handler that streams has its device in the registry ...
LiveStreams ==
    \A d \in Devices :
        (Heads(<<"mirror", d>>, "live") \/ pc[<<"mirror", d>>] = "claim") => d \in streaming

\* ... so that a claim for AirPlay, which such a handler makes, is given back by
\* the one that empties the registry, unless that one waits for ever,
AirPlayOwned ==
    (source = "AirPlay" /\ ~stale) =>
        \/ known # {}
        \/ \E d \in Devices : Heads(<<"mirror", d>>, "bye") \/ pc[<<"mirror", d>>] = "stuck"

\* and Miracast's by the session that made it.
MiracastOwned == source = "Miracast" => pc[Miracast] \in {"start", "live", "read"}

ScreenInv == LiveStreams /\ AirPlayOwned /\ MiracastOwned

LEMMA ScreenKept ==
    ASSUME TypeOK, ScreenInv, [Next]_vars
    PROVE  ScreenInv'
<1>. USE ThreadsApart
<1>1. ASSUME NEW d \in Devices, Setup(d) PROVE ScreenInv'
  BY <1>1
  DEF Setup, Notify, AirPlay!Announce, TypeOK, ScreenInv, LiveStreams, AirPlayOwned,
      MiracastOwned, Heads, Goto, registryVars
<1>2. ASSUME NEW d \in Devices, Connect(d) PROVE ScreenInv'
  BY <1>2
  DEF Connect, Notify, AirPlay!Stream, TypeOK, ScreenInv, LiveStreams, AirPlayOwned,
      MiracastOwned, Heads, Goto, registryVars
<1>3. ASSUME NEW d \in Devices, Ends(d) PROVE ScreenInv'
  BY <1>3
  DEF Ends, Notify, AirPlay!Drop, At, TypeOK, ScreenInv, LiveStreams, AirPlayOwned,
      MiracastOwned, Heads, Goto, registryVars
<1>4. ASSUME NEW d \in Devices, Choose(d) PROVE ScreenInv'
  BY <1>4
  DEF Choose, Notify, AirPlay!Choose, TypeOK, ScreenInv, LiveStreams, AirPlayOwned,
      MiracastOwned, Heads, Goto, registryVars
<1>5. ASSUME NEW d \in Devices, Tell(<<"setup", d>>) PROVE ScreenInv'
  BY <1>5
  DEF Tell, GoesOn, TypeOK, ScreenInv, LiveStreams, AirPlayOwned,
      MiracastOwned, Heads, Goto, registryVars
<1>6. ASSUME NEW d \in Devices, Tell(<<"mirror", d>>) PROVE ScreenInv'
  BY <1>6
  DEF Tell, GoesOn, At, TypeOK, ScreenInv, LiveStreams, AirPlayOwned,
      MiracastOwned, Heads, Goto, registryVars
<1>7. ASSUME Tell(Ui) PROVE ScreenInv'
  BY <1>7
  DEF Tell, GoesOn, TypeOK, ScreenInv, LiveStreams, AirPlayOwned,
      MiracastOwned, Heads, Goto, registryVars
<1>8. ASSUME NEW d \in Devices, Picture(d) PROVE ScreenInv'
  BY <1>8
  DEF Picture, At, TypeOK, ScreenInv, LiveStreams, AirPlayOwned,
      MiracastOwned, Heads, Goto, registryVars
<1>9. ASSUME NEW d \in Devices, ClaimAirPlay(<<"mirror", d>>) PROVE ScreenInv'
  BY <1>9
  DEF ClaimAirPlay, Claim, At, AirPlay!TypeOK, TypeOK, ScreenInv, LiveStreams, AirPlayOwned,
      MiracastOwned, Heads, Goto, registryVars
<1>10. ASSUME NEW d \in Devices, LastBye(d) PROVE ScreenInv'
  BY <1>10
  DEF LastBye, ByeAirPlay, At, TypeOK, ScreenInv, LiveStreams, AirPlayOwned,
      MiracastOwned, Heads, Goto, registryVars
<1>11. ASSUME NEW d \in Devices, Teardown(d) PROVE ScreenInv'
  BY <1>11
  DEF Teardown, ByeAirPlay, Serves, At, TypeOK, ScreenInv, LiveStreams, AirPlayOwned,
      MiracastOwned, Heads, Goto, registryVars
<1>12. ASSUME NEW d \in Devices, Select(d) PROVE ScreenInv'
  BY <1>12
  DEF Select, UiKeeps, UiRuns, TypeOK, ScreenInv, LiveStreams, AirPlayOwned,
      MiracastOwned, Heads, Goto, registryVars
<1>13. ASSUME NEW d \in Devices, ChooseNothing(d) PROVE ScreenInv'
  BY <1>13
  DEF ChooseNothing, UiKeeps, TypeOK, ScreenInv, LiveStreams, AirPlayOwned,
      MiracastOwned, Heads, Goto, registryVars
<1>14. ASSUME Accept PROVE ScreenInv'
  BY <1>14
  DEF Accept, At, TypeOK, ScreenInv, LiveStreams, AirPlayOwned,
      MiracastOwned, Heads, Goto, registryVars
<1>15. ASSUME MessageBegins PROVE ScreenInv'
  BY <1>15
  DEF MessageBegins, At, TypeOK, ScreenInv, LiveStreams, AirPlayOwned,
      MiracastOwned, Heads, Goto, registryVars
<1>16. ASSUME MessageEnds PROVE ScreenInv'
  BY <1>16
  DEF MessageEnds, At, TypeOK, ScreenInv, LiveStreams, AirPlayOwned,
      MiracastOwned, Heads, Goto, registryVars
<1>17. ASSUME PictureMiracast PROVE ScreenInv'
  BY <1>17
  DEF PictureMiracast, Claim, At, TypeOK, ScreenInv, LiveStreams, AirPlayOwned,
      MiracastOwned, Heads, Goto, registryVars
<1>18. ASSUME LogStart PROVE ScreenInv'
  BY <1>18
  DEF LogStart, At, TypeOK, ScreenInv, LiveStreams, AirPlayOwned,
      MiracastOwned, Heads, Goto, registryVars
<1>19. ASSUME SessionEnds PROVE ScreenInv'
  BY <1>19
  DEF SessionEnds, At, TypeOK, ScreenInv, LiveStreams, AirPlayOwned,
      MiracastOwned, Heads, Goto, registryVars
<1>20. ASSUME LogEnd PROVE ScreenInv'
  BY <1>20
  DEF LogEnd, At, TypeOK, ScreenInv, LiveStreams, AirPlayOwned,
      MiracastOwned, Heads, Goto, registryVars
<1>21. ASSUME AndroidTakes PROVE ScreenInv'
  BY <1>21
  DEF AndroidTakes, OthersKeep, threadVars, TypeOK, ScreenInv, LiveStreams, AirPlayOwned,
      MiracastOwned, Heads, Goto, registryVars
<1>22. ASSUME AndroidFrees PROVE ScreenInv'
  BY <1>22
  DEF AndroidFrees, OthersKeep, threadVars, TypeOK, ScreenInv, LiveStreams, AirPlayOwned,
      MiracastOwned, Heads, Goto, registryVars
<1>23. ASSUME Quit PROVE ScreenInv'
  BY <1>23
  DEF Quit, QuitKeeps, TypeOK, ScreenInv, LiveStreams, AirPlayOwned,
      MiracastOwned, Heads, registryVars
<1>24. ASSUME NEW k \in Keys, CloseSession(k) PROVE ScreenInv'
  BY <1>24
  DEF CloseSession, QuitKeeps, TypeOK, ScreenInv, LiveStreams, AirPlayOwned,
      MiracastOwned, Heads, registryVars
<1>25. ASSUME StopAirPlay PROVE ScreenInv'
  BY <1>25
  DEF StopAirPlay, StopKeeps, QuitKeeps, TypeOK, ScreenInv, LiveStreams, AirPlayOwned,
      MiracastOwned, Heads, registryVars
<1>26. ASSUME StopMiracast PROVE ScreenInv'
  BY <1>26
  DEF StopMiracast, StopKeeps, QuitKeeps, TypeOK, ScreenInv, LiveStreams, AirPlayOwned,
      MiracastOwned, Heads, registryVars
<1>27. ASSUME StopCast PROVE ScreenInv'
  BY <1>27
  DEF StopCast, StopKeeps, QuitKeeps, Goto, TypeOK, ScreenInv, LiveStreams, AirPlayOwned,
      MiracastOwned, Heads, registryVars
<1>28. ASSUME CastEnds \/ CastLeaves PROVE ScreenInv'
  BY <1>28
  DEF CastEnds, CastLeaves, StopKeeps, QuitKeeps, Goto, TypeOK, ScreenInv, LiveStreams,
      AirPlayOwned, MiracastOwned, Heads, registryVars
<1>29. ASSUME StopAndroid PROVE ScreenInv'
  BY <1>29
  DEF StopAndroid, StopKeeps, QuitKeeps, Goto, TypeOK, ScreenInv, LiveStreams, AirPlayOwned,
      MiracastOwned, Heads, registryVars
<1>30. ASSUME AndroidEnds PROVE ScreenInv'
  BY <1>30
  DEF AndroidEnds, StopKeeps, QuitKeeps, Goto, TypeOK, ScreenInv, LiveStreams, AirPlayOwned,
      MiracastOwned, Heads, registryVars
<1>31. ASSUME ShutdownDone PROVE ScreenInv'
  BY <1>31
  DEF ShutdownDone, StopKeeps, QuitKeeps, TypeOK, ScreenInv, LiveStreams, AirPlayOwned,
      MiracastOwned, Heads, registryVars
<1>32. ASSUME NEW d \in Devices, Jams(d) PROVE ScreenInv'
  BY <1>32
  DEF Jams, At, Elsewhere, Goto, TypeOK, ScreenInv, LiveStreams, AirPlayOwned,
      MiracastOwned, Heads, registryVars
<1>33. ASSUME UNCHANGED vars PROVE ScreenInv'
  BY <1>33
  DEF vars, threadVars, TypeOK, ScreenInv, LiveStreams, AirPlayOwned,
      MiracastOwned, Heads, registryVars
<1>. QED
  BY <1>1, <1>2, <1>3, <1>4, <1>5, <1>6, <1>7, <1>8, <1>9, <1>10, <1>11, <1>12, <1>13,
     <1>14, <1>15, <1>16, <1>17, <1>18, <1>19, <1>20, <1>21, <1>22, <1>23, <1>24, <1>25,
     <1>26, <1>27, <1>28, <1>29, <1>30, <1>31, <1>32, <1>33
  DEF Next, AirPlayStep, Event, MiracastStep, ShutdownStep, StopsStreaming, Leaves,
      MiracastStops, MiracastLeaves

\* Once every thread has settled, nobody has the screen without a session.
THEOREM Screen == Spec => []ScreenReleased
<1>1. Init => ScreenInv
  BY ThreadsApart DEF Init, ScreenInv, LiveStreams, AirPlayOwned, MiracastOwned, Heads
<1>2. TypeOK /\ ScreenInv => ScreenReleased
  <2>. SUFFICES ASSUME TypeOK, ScreenInv, Quiet, ~stale PROVE
         /\ source = "AirPlay" => known # {}
         /\ source = "Miracast" => At(Miracast, "live")
    BY DEF ScreenReleased
  <2>1. \A d \in Devices :
           ~Heads(<<"mirror", d>>, "bye") /\ pc[<<"mirror", d>>] # "stuck"
    BY ThreadsApart DEF Quiet, At, Heads
  <2>2. source = "AirPlay" => known # {}
    BY <2>1 DEF ScreenInv, AirPlayOwned
  <2>3. source = "Miracast" => At(Miracast, "live")
    BY ThreadsApart DEF ScreenInv, MiracastOwned, Quiet, At
  <2>. QED  BY <2>2, <2>3
<1>. QED  BY <1>1, <1>2, InitTyped, TypeKept, ScreenKept, PTL DEF Spec

-----------------------------------------------------------------------------
(* The log. *)

\* The sources callback writes a row exactly for whom it has not written it.
LEMMA TellAlternates ==
    ASSUME TypeOK, RowsAlternate, NEW t \in Threads, Tell(t)
    PROVE  RowsAlternate'
<1>. SUFFICES ASSUME phase = "run", NEW d \in Devices
              PROVE  /\ balance'[d] = IF d \in logged' THEN 1 ELSE 0
                     /\ d \in open' <=> d \in logged'
  BY DEF RowsAlternate, Tell, quitVars
<1>1. balance[d] = (IF d \in logged THEN 1 ELSE 0) /\ (d \in open <=> d \in logged)
  BY DEF RowsAlternate
<1>2. d \in Keys
  BY DEF Keys
<1>3. balance'[d] = balance[d] + (IF d \in snapshot[t] \ logged THEN 1 ELSE 0)
                               - (IF d \in logged \ snapshot[t] THEN 1 ELSE 0)
  BY <1>2 DEF Tell
<1>4. d \in open' <=> d \in logged'
  BY <1>1 DEF Tell
<1>5. logged' = snapshot[t]
  BY DEF Tell
<1>. QED  BY <1>1, <1>3, <1>4, <1>5

\* Nobody else writes rows of a device before the shutdown.
LEMMA RowsKept ==
    ASSUME TypeOK, RowsAlternate, [Next]_vars
    PROVE  RowsAlternate'
<1>1. ASSUME NEW t \in Threads, Tell(t) PROVE RowsAlternate'
  BY <1>1, TellAlternates
<1>2. CASE UNCHANGED logVars /\ (phase' = "run" => phase = "run")
  BY <1>2 DEF RowsAlternate, logVars
<1>3. ASSUME LogStart \/ LogEnd PROVE RowsAlternate'
  <2>1. \A d \in Devices : d # "Android"
    BY DevicesAssumption
  <2>. QED
    BY <1>3, <2>1 DEF LogStart, LogEnd, RowsAlternate, TypeOK, Keys, quitVars
<1>4. ASSUME NEW k \in Keys, CloseSession(k) PROVE RowsAlternate'
  BY <1>4 DEF CloseSession, QuitKeeps, RowsAlternate
<1>. QED
  BY <1>1, <1>2, <1>3, <1>4, ThreadsApart
  DEF Next, AirPlayStep, Event, MiracastStep, ShutdownStep, StopsStreaming, Leaves, Ends,
      LastBye, Teardown, MiracastStops, MiracastLeaves, SessionEnds, Setup, Connect, Choose,
      ChooseNothing, Picture, ClaimAirPlay, ByeAirPlay, Select, Accept, MessageBegins,
      MessageEnds, PictureMiracast, AndroidTakes, AndroidFrees, OthersKeep, Quit, QuitKeeps,
      StopAirPlay, StopMiracast, StopCast, CastEnds, CastLeaves, StopAndroid, AndroidEnds,
      ShutdownDone, StopKeeps, Jams, UiKeeps, Elsewhere, vars, logVars, quitVars

\* Until the shutdown the rows of a device alternate, in whatever order the lists
\* reach the callback.
THEOREM Rows == Spec => []RowsAlternate
<1>1. Init => RowsAlternate
  BY DEF Init, RowsAlternate, Keys
<1>. QED  BY <1>1, InitTyped, TypeKept, RowsKept, PTL DEF Spec

(***************************************************************************)
(* The update check.                                                       *)
(***************************************************************************)

\* What a check finds: nothing, or what the release's tag and page say.
Named(tag) == IF tag[1] = Update!SmallV THEN Tail(tag) ELSE tag
FoundBy(tag) ==
    [ok |-> TRUE, latest |-> Named(tag), url |-> Update!Page(tag),
     available |-> Update!IsNewer(Update!ParseSemver(tag), Update!Current)]
Results == {Update!Failure} \cup {FoundBy(t) : t \in Update!Tags}

\* The least of what has one.
LEMMA LeastIs ==
    ASSUME NEW S \in SUBSET Int, NEW m \in S, \A x \in S : m <= x
    PROVE  Update!Min(S) = m
<1>1. \E x \in S : \A y \in S : x <= y
  OBVIOUS
<1>2. Update!Min(S) \in S /\ \A y \in S : Update!Min(S) <= y
  BY <1>1 DEF Update!Min
<1>3. \A n \in S : (\A y \in S : n <= y) => n = m
  OBVIOUS
<1> QED
  BY <1>2, <1>3

\* And the greatest.
LEMMA GreatestIs ==
    ASSUME NEW S \in SUBSET Int, NEW m \in S, \A x \in S : x <= m
    PROVE  Update!Max(S) = m
<1>1. \E x \in S : \A y \in S : x >= y
  OBVIOUS
<1>2. Update!Max(S) \in S /\ \A y \in S : Update!Max(S) >= y
  BY <1>1 DEF Update!Max
<1>3. \A n \in S : (\A y \in S : n >= y) => n = m
  OBVIOUS
<1> QED
  BY <1>2, <1>3

\* A release's fields are its tag and the page it names first.
LEMMA FieldsExtracted ==
    ASSUME NEW tag
    PROVE  /\ Update!ExtractField(Update!Release(tag), "tag_name") = tag
           /\ Update!ExtractField(Update!Release(tag), "html_url") = Update!Page(tag)
<1> DEFINE body == Update!Release(tag)
           Occur(key) == {i \in DOMAIN body : body[i][1] = key}
<1>1. body = <<<<"html_url", Update!Page(tag)>>, <<"html_url", <<"author">>>>,
               <<"tag_name", tag>>>>
  BY DEF Update!Release
<1> HIDE DEF body
<1>2. DOMAIN body = {1, 2, 3}
  BY <1>1
<1>3. /\ body[1][1] = "html_url" /\ body[2][1] = "html_url" /\ body[3][1] = "tag_name"
      /\ body[1][2] = Update!Page(tag) /\ body[3][2] = tag
  BY <1>1
<1>4. Occur("tag_name") = {3} /\ Occur("html_url") = {1, 2}
  BY <1>2, <1>3
<1>5. Update!Min({3}) = 3 /\ Update!Min({1, 2}) = 1
  BY LeastIs
<1> QED
  BY <1>3, <1>4, <1>5 DEF Update!ExtractField, body

\* A release's tag is not empty, and what is left of one that begins with a v does
\* not begin with another.
LEMMA TagsNamed ==
    ASSUME NEW t \in Update!Tags
    PROVE  /\ t # <<>>
           /\ t[1] = Update!SmallV =>
                /\ Tail(t) # <<>>
                /\ Tail(t)[1] \notin {Update!SmallV, Update!CapitalV}
<1>1. ASSUME NEW n \in Nat \ {0, 1}, t \in [1 .. n -> Int], t[2] \notin {-2, -3}
      PROVE  /\ t # <<>>
             /\ Tail(t) # <<>> /\ Tail(t)[1] \notin {-2, -3}
  <2>1. t \in Seq(Int) /\ Len(t) = n
    BY <1>1
  <2>2. /\ t # <<>>
        /\ Tail(t) \in Seq(Int) /\ Len(Tail(t)) = n - 1 /\ Tail(t)[1] = t[2]
    BY <2>1, HeadTailProperties, EmptySeq
  <2>3. n - 1 # 0
    OBVIOUS
  <2>4. Tail(t) # <<>>
    BY <2>2, <2>3, EmptySeq
  <2> QED
    BY <1>1, <2>2, <2>4
<1>2. \E n \in {2, 4, 6, 7, 8} : t \in [1 .. n -> Int] /\ t[2] \in {0, -1, 2, -5}
  <2> USE DEF Update!SmallV, Update!CapitalV, Update!Dot, Update!Other, Update!Huge
  <2>1. CASE Len(t) = 2
    <3>1. t = <<-4, 2>>
      BY <2>1 DEF Update!Tags
    <3> QED
      BY <3>1
  <2>2. CASE Len(t) = 4
    <3>1. t = <<-3, 0, -1, 10>>
      BY <2>2 DEF Update!Tags
    <3> QED
      BY <3>1
  <2>3. CASE Len(t) = 6
    <3>1. \E a, b \in Int, c, d \in Int : t = <<-2, a, -1, b, -1, c>> /\ a \in {0, -5}
      BY <2>3 DEF Update!Tags
    <3> QED
      BY <3>1
  <2>4. CASE Len(t) = 7
    <3>1. t = <<1, -1, 0, -1, 0, -4, 2>>
      BY <2>4 DEF Update!Tags
    <3> QED
      BY <3>1
  <2>5. CASE Len(t) = 8
    <3>1. t = <<-2, 0, -1, 5, -1, 9, -4, 9>>
      BY <2>5 DEF Update!Tags
    <3> QED
      BY <3>1
  <2>6. Len(t) \in {2, 4, 6, 7, 8}
    BY DEF Update!Tags
  <2> QED
    BY <2>1, <2>2, <2>3, <2>4, <2>5, <2>6
<1>3. t # <<>> /\ Tail(t) # <<>> /\ Tail(t)[1] \notin {-2, -3}
  <2>1. PICK n \in {2, 4, 6, 7, 8} : t \in [1 .. n -> Int] /\ t[2] \in {0, -1, 2, -5}
    BY <1>2
  <2>2. n \in Nat \ {0, 1} /\ t[2] \notin {-2, -3}
    BY <2>1
  <2> QED
    BY <1>1, <2>1, <2>2
<1> QED
  BY <1>3 DEF Update!SmallV, Update!CapitalV

\* So the version reads the same without it.
LEMMA VersionNamed ==
    ASSUME NEW t \in Update!Tags
    PROVE  Update!ParseSemver(Named(t)) = Update!ParseSemver(t)
<1>1. CASE t[1] # Update!SmallV
  BY <1>1 DEF Named
<1>2. CASE t[1] = Update!SmallV
  <2>1. Named(t) = Tail(t)
    BY <1>2 DEF Named
  <2>2. /\ t # <<>> /\ t[1] \in {Update!SmallV, Update!CapitalV}
        /\ ~(Tail(t) # <<>> /\ Tail(t)[1] \in {Update!SmallV, Update!CapitalV})
    BY <1>2, TagsNamed
  <2>3. Update!ParseSemver(Tail(t)) = Update!ParseSemver(t)
    BY <2>2, Zenon DEF Update!ParseSemver, Update!Unprefixed
  <2> QED
    BY <2>1, <2>3
<1> QED
  BY <1>1, <1>2

\* A check finds nothing, or what a release says.
LEMMA CheckFinds ==
    ASSUME NEW answer \in Update!Answers
    PROVE  Update!CheckForUpdate(answer) \in Results
<1>1. CASE answer.status # 200 \/ answer.body = <<>>
  BY <1>1 DEF Update!CheckForUpdate, Results
<1>2. ASSUME NEW t \in Update!Tags, answer = [status |-> 200, body |-> Update!Release(t)]
      PROVE  Update!CheckForUpdate(answer) \in Results
  <2>1. answer.status = 200 /\ answer.body = Update!Release(t)
    BY <1>2
  <2>2. Update!Release(t) # <<>>
    BY DEF Update!Release
  <2>3. t # <<>> /\ Update!Page(t) # <<>>
    BY TagsNamed DEF Update!Page
  <2>4. /\ Update!ExtractField(answer.body, "tag_name") = t
        /\ Update!ExtractField(answer.body, "html_url") = Update!Page(t)
    BY <2>1, FieldsExtracted
  <2>5. Update!CheckForUpdate(answer) = FoundBy(t)
    BY <2>1, <2>2, <2>3, <2>4 DEF Update!CheckForUpdate, FoundBy, Named
  <2> QED
    BY <2>5 DEF Results
<1> QED
  BY <1>1, <1>2 DEF Update!Answers

\* There is one cardinality.
LEMMA UpdateCounts == \A S : Update!Cardinality(S) = Cardinality(S)
  BY DEF Update!Cardinality, Cardinality

\* Three numbers between two dots are the slots.
LEMMA SlotsRead ==
    ASSUME NEW a \in Nat, NEW b \in Nat, NEW c \in Nat, NEW s, s = <<a, -1, b, -1, c>>
    PROVE  Update!Slot(s, 0) = a /\ Update!Slot(s, 1) = b /\ Update!Slot(s, 2) = c
<1> DEFINE Dots(i) == {j \in 1 .. i - 1 : s[j] = Update!Dot}
           Occur(k) == {i \in DOMAIN s : s[i] # Update!Dot /\ Update!Cardinality(Dots(i)) = k}
<1>1. DOMAIN s = 1 .. 5 /\ s[1] = a /\ s[2] = -1 /\ s[3] = b /\ s[4] = -1 /\ s[5] = c
  OBVIOUS
<1>2. Dots(1) = {} /\ Dots(3) = {2} /\ Dots(5) = {2, 4}
  BY <1>1 DEF Update!Dot
<1>3. Cardinality({}) = 0 /\ Cardinality({2}) = 1 /\ Cardinality({2, 4}) = 2
  <2>1. Cardinality({}) = 0 /\ Cardinality({2}) = 1 /\ IsFiniteSet({2})
    BY FS_EmptySet, FS_Singleton
  <2>2. Cardinality({2} \cup {4}) = 2
    BY <2>1, FS_AddElement
  <2>3. {2, 4} = {2} \cup {4}
    OBVIOUS
  <2> QED
    BY <2>1, <2>2, <2>3
<1> HIDE DEF Dots
<1>4. Occur(0) = {1} /\ Occur(1) = {3} /\ Occur(2) = {5}
  <2>1. \A i \in 1 .. 5 : s[i] # Update!Dot <=> i \in {1, 3, 5}
    BY <1>1 DEF Update!Dot
  <2> QED
    BY <1>1, <1>2, <1>3, <2>1, UpdateCounts
<1>5. Update!Min({1}) = 1 /\ Update!Min({3}) = 3 /\ Update!Min({5}) = 5
  BY LeastIs
<1>6. \A n \in Nat : n # Update!Huge
  BY DEF Update!Huge
<1>7. ASSUME NEW k
      PROVE  Update!Slot(s, k) = IF Occur(k) = {} \/ s[Update!Min(Occur(k))] = Update!Huge THEN 0
                                 ELSE s[Update!Min(Occur(k))]
  BY DEF Update!Slot, Dots
<1> HIDE DEF Occur
<1> QED
  BY <1>1, <1>4, <1>5, <1>6, <1>7

\* Two sequences of numbers of the same length and with the same elements.
LEMMA SameNumbers ==
    ASSUME NEW s \in Seq(Int), NEW t \in Seq(Int), Len(s) = Len(t),
           \A i \in 1 .. Len(s) : s[i] = t[i]
    PROVE  s = t
  BY SeqEqual

\* A version of three numbers is read, whatever follows.
LEMMA VersionRead ==
    ASSUME NEW a \in Nat, NEW b \in Nat, NEW c \in Nat, NEW d \in Nat, NEW n,
           Update!Unprefixed(n) \in {<<a, -1, b, -1, c>>, <<a, -1, b, -1, c, -4, d>>}
    PROVE  Update!ParseSemver(n) = <<a, b, c>>
<1> DEFINE s == Update!Unprefixed(n)
           ends == {i \in DOMAIN s : s[i] \in {Update!SmallV, Update!CapitalV, Update!Other}}
<1>1. CASE s = <<a, -1, b, -1, c>>
  <2>1. ends = {}
    BY <1>1 DEF Update!SmallV, Update!CapitalV, Update!Other
  <2>2. Update!Numeric(s) = <<a, -1, b, -1, c>>
    BY <1>1, <2>1 DEF Update!Numeric
  <2> QED
    BY <2>2, SlotsRead DEF Update!ParseSemver
<1>2. CASE s = <<a, -1, b, -1, c, -4, d>>
  <2>1. /\ DOMAIN s = 1 .. 7 /\ s[1] = a /\ s[2] = -1 /\ s[3] = b /\ s[4] = -1 /\ s[5] = c
        /\ s[6] = -4 /\ s[7] = d
    BY <1>2
  <2>2. ends = {6}
    BY <2>1 DEF Update!SmallV, Update!CapitalV, Update!Other
  <2>3. Update!Min({6}) = 6
    BY LeastIs
  <2>4. Update!Numeric(s) = SubSeq(s, 1, 5)
    <3>1. Update!Numeric(s) = IF ends = {} THEN s ELSE SubSeq(s, 1, Update!Min(ends) - 1)
      BY DEF Update!Numeric
    <3> HIDE DEF s, ends
    <3>2. ends # {} /\ Update!Min(ends) - 1 = 5
      BY <2>2, <2>3
    <3> QED
      BY <3>1, <3>2
  <2>5. SubSeq(s, 1, 5) = <<a, -1, b, -1, c>>
    <3>1. \A i \in 1 .. 5 : s[i] \in Int
      BY <2>1
    <3>2. /\ SubSeq(s, 1, 5) \in Seq(Int) /\ Len(SubSeq(s, 1, 5)) = 5
          /\ \A i \in 1 .. 5 : SubSeq(s, 1, 5)[i] = s[i]
      BY <3>1, SubSeqProperties
    <3>3. <<a, -1, b, -1, c>> \in Seq(Int) /\ Len(<<a, -1, b, -1, c>>) = 5
      OBVIOUS
    <3>4. \A i \in 1 .. 5 : <<a, -1, b, -1, c>>[i] = s[i]
      BY <2>1
    <3> QED
      BY <3>2, <3>3, <3>4, SameNumbers
  <2>6. Update!Numeric(s) = <<a, -1, b, -1, c>>
    BY <2>4, <2>5
  <2> QED
    BY <2>6, SlotsRead DEF Update!ParseSemver
<1> QED
  BY <1>1, <1>2

\* Of a tag that begins with three numbers it is known whether it is later.
LEMMA LaterFound ==
    ASSUME NEW t \in Update!Tags, Len(Named(t)) >= 5,
           Update!Huge \notin Update!ToSet(Named(t))
    PROVE  FoundBy(t).available <=> Update!Later(Named(t))
<1> USE DEF Update!SmallV, Update!CapitalV, Update!Dot, Update!Other, Update!Huge
<1>1. FoundBy(t).available = Update!IsNewer(Update!ParseSemver(t), <<0, 6, 2>>)
  BY DEF FoundBy, Update!Current
<1>2. ASSUME NEW a \in Nat, NEW b \in Nat, NEW c \in Nat, NEW d \in Nat,
             Named(t) \in {<<a, -1, b, -1, c>>, <<a, -1, b, -1, c, -4, d>>},
             Update!ParseSemver(t) = <<a, b, c>>
      PROVE  /\ Update!Later(Named(t)) <=> 10000 * a + 100 * b + c > 602
             /\ FoundBy(t).available <=> a > 0 \/ (a = 0 /\ b > 6) \/ (a = 0 /\ b = 6 /\ c > 2)
  <2>1. Named(t)[1] = a /\ Named(t)[3] = b /\ Named(t)[5] = c
    BY <1>2
  <2>2. Update!Later(Named(t)) <=> 10000 * a + 100 * b + c > 602
    BY <2>1 DEF Update!Later
  <2> QED
    BY <1>1, <1>2, <2>2 DEF Update!IsNewer
<1>3. ASSUME NEW a \in Nat, NEW b \in Nat, NEW c \in Nat, NEW d \in Nat,
             t \in {<<-2, a, -1, b, -1, c>>, <<-2, a, -1, b, -1, c, -4, d>>}
      PROVE  /\ Named(t) \in {<<a, -1, b, -1, c>>, <<a, -1, b, -1, c, -4, d>>}
             /\ Update!ParseSemver(t) = <<a, b, c>>
  <2>1. t[1] = -2 /\ t # <<>>
    BY <1>3
  <2>2. Tail(t) \in {<<a, -1, b, -1, c>>, <<a, -1, b, -1, c, -4, d>>}
    <3>1. CASE t = <<-2, a, -1, b, -1, c>>
      BY <3>1
    <3>2. CASE t = <<-2, a, -1, b, -1, c, -4, d>>
      BY <3>2
    <3> QED
      BY <1>3, <3>1, <3>2
  <2>3. Update!Unprefixed(t) = Tail(t) /\ Named(t) = Tail(t)
    BY <2>1 DEF Update!Unprefixed, Named
  <2>4. Update!Unprefixed(t) \in {<<a, -1, b, -1, c>>, <<a, -1, b, -1, c, -4, d>>}
    BY <2>2, <2>3
  <2>5. Update!ParseSemver(t) = <<a, b, c>>
    BY <2>4, VersionRead, SMTT(30)
  <2> QED
    BY <2>2, <2>3, <2>5
<1>4. CASE t \in {<<-2, 0, -1, 6, -1, 2>>, <<-2, 0, -1, 6, -1, 3>>}
  <2>1. PICK c \in {2, 3} : t = <<-2, 0, -1, 6, -1, c>>
    BY <1>4
  <2>2. /\ Named(t) \in {<<0, -1, 6, -1, c>>, <<0, -1, 6, -1, c, -4, 0>>}
        /\ Update!ParseSemver(t) = <<0, 6, c>>
    BY <2>1, <1>3
  <2> QED
    BY <1>2, <2>2
<1>5. CASE t = <<-2, 0, -1, 5, -1, 9, -4, 9>>
  <2>1. /\ Named(t) \in {<<0, -1, 5, -1, 9>>, <<0, -1, 5, -1, 9, -4, 9>>}
        /\ Update!ParseSemver(t) = <<0, 5, 9>>
    BY <1>5, <1>3
  <2> QED
    BY <1>2, <2>1
<1>6. CASE t = <<1, -1, 0, -1, 0, -4, 2>>
  <2>1. Named(t) = t /\ Update!Unprefixed(t) = t
    BY <1>6 DEF Named, Update!Unprefixed
  <2>2. Update!ParseSemver(t) = <<1, 0, 0>>
    BY <1>6, <2>1, VersionRead, SMTT(30)
  <2> QED
    BY <1>2, <1>6, <2>1, <2>2
<1>7. CASE t = <<-2, -5, -1, 7, -1, 0>>
  <2>1. Named(t) = <<-5, -1, 7, -1, 0>>
    BY <1>7 DEF Named
  <2>2. 1 \in DOMAIN Named(t) /\ Named(t)[1] = -5
    BY <2>1
  <2> QED
    BY <2>2 DEF Update!ToSet
<1>8. CASE t = <<-3, 0, -1, 10>>
  <2>1. Named(t) = t /\ Len(t) = 4
    BY <1>8 DEF Named
  <2>2. Len(Named(t)) = 4
    BY <2>1
  <2> QED
    BY <2>2
<1>9. CASE t = <<-4, 2>>
  <2>1. Named(t) = t /\ Len(t) = 2
    BY <1>9 DEF Named
  <2>2. Len(Named(t)) = 2
    BY <2>1
  <2> QED
    BY <2>2
<1> QED
  BY <1>4, <1>5, <1>6, <1>7, <1>8, <1>9 DEF Update!Tags

Worker == [at : {"ask", "store", "tell", "release", "off"}, manual : BOOLEAN,
           result : Results, told : BOOLEAN]

UpdateTyped ==
    /\ {in_progress, banner, cached, gone} \subseteq BOOLEAN
    /\ toast \in {"", "failed", "up to date"}
    /\ drawn = <<>> \/ \E text : drawn = <<text>>
    /\ workers \in Seq(Worker)

\* Only the last worker can be at work, and then it holds the latch.
LastAtWork ==
    \A w \in DOMAIN workers :
        workers[w].at # "off" => in_progress /\ w = Len(workers)

\* A worker without an answer has no result; the last one that has stored its result
\* has left its version, which what is drawn and not out of date says if the worker
\* has told of it; and whoever was to tell has told.
WorkersDone ==
    \A w \in DOMAIN workers :
        /\ workers[w].at = "ask" => workers[w].result = Update!Failure
        /\ (w = Len(workers) /\ workers[w].at \in {"tell", "release", "off"}) =>
              latest = workers[w].result.latest
        /\ (/\ w = Len(workers) /\ workers[w].at \in {"release", "off"}
            /\ workers[w].result.available /\ cached) => drawn = <<latest>>
        /\ (workers[w].at \in {"release", "off"} /\ workers[w].manual) => workers[w].told

BannerFound == banner => \E w \in DOMAIN workers : workers[w].result.available

UpdateInv ==
    UpdateTyped /\ LastAtWork /\ WorkersDone /\ Update!PageOfVersion /\ BannerFound

\* A result's fields.
LEMMA ResultFields ==
    ASSUME NEW r \in Results
    PROVE  /\ r.ok \in BOOLEAN /\ r.available \in BOOLEAN /\ (r.available => r.ok)
           /\ \/ r.latest = <<>> /\ r.url = <<>> /\ r.available = FALSE
              \/ /\ r.url # <<>> /\ r.url[1] = "page"
                 /\ r.latest \in {r.url[2], Tail(r.url[2])}
<1>1. CASE r = Update!Failure
  BY <1>1 DEF Update!Failure
<1>2. ASSUME NEW t \in Update!Tags, r = FoundBy(t)
      PROVE  /\ r.ok = TRUE /\ r.available \in BOOLEAN
             /\ r.url = <<"page", t>> /\ r.latest \in {t, Tail(t)}
  BY <1>2 DEF FoundBy, Named, Update!Page, Update!IsNewer
<1>3. CASE \E t \in Update!Tags : r = FoundBy(t)
  <2>1. PICK t \in Update!Tags : r = FoundBy(t)
    BY <1>3
  <2>2. r.ok = TRUE /\ r.available \in BOOLEAN /\ r.url = <<"page", t>> /\ r.latest \in {t, Tail(t)}
    BY <1>2, <2>1
  <2>3. r.url # <<>> /\ r.url[1] = "page" /\ r.url[2] = t
    BY <2>2
  <2> QED
    BY <2>2, <2>3
<1> QED
  BY <1>1, <1>3 DEF Results

\* A worker goes on, and the others stay where they are.
LEMMA WorkerGoes ==
    ASSUME workers \in Seq(Worker), NEW w \in DOMAIN workers, NEW x \in Worker,
           workers' = [workers EXCEPT ![w] = x]
    PROVE  /\ workers' \in Seq(Worker) /\ Len(workers') = Len(workers)
           /\ DOMAIN workers' = DOMAIN workers /\ workers'[w] = x
           /\ \A v \in DOMAIN workers : v # w => workers'[v] = workers[v]
<1>1. DOMAIN workers = 1 .. Len(workers) /\ Len(workers) \in Nat
  BY LenProperties
<1>2. workers \in [1 .. Len(workers) -> Worker]
  BY <1>1, ElementOfSeq
<1>3. workers' \in [1 .. Len(workers) -> Worker]
  BY <1>2
<1> QED
  BY <1>1, <1>2, <1>3

LEMMA UpdateBegins ==
    ASSUME Update!Init
    PROVE  UpdateInv
<1>1. workers = <<>>
  BY DEF Update!Init
<1>2. DOMAIN workers = {}
  BY <1>1
<1>3. workers \in Seq(Worker)
  BY <1>1, EmptySeq
<1> QED
  BY <1>2, <1>3 DEF Update!Init, UpdateInv, UpdateTyped, LastAtWork, WorkersDone,
     Update!PageOfVersion, BannerFound

\* A check begins.
LEMMA UpdateChecks ==
    ASSUME UpdateInv, NEW manual \in BOOLEAN, Update!Check(manual)
    PROVE  UpdateInv'
<1> DEFINE x == [at |-> "ask", manual |-> manual, result |-> Update!Failure, told |-> FALSE]
           n == Len(workers)
<1>1. workers \in Seq(Worker) /\ n \in Nat /\ DOMAIN workers = 1 .. n
  BY LenProperties DEF UpdateInv, UpdateTyped
<1>2. x \in Worker
  BY DEF Worker, Results
<1>3. /\ workers' = Append(workers, x) /\ in_progress = FALSE /\ in_progress' = TRUE
      /\ UNCHANGED <<latest, url, banner, drawn, cached, toast, opened, gone>>
  BY DEF Update!Check, Update!bannerVars, UpdateInv, UpdateTyped
<1> HIDE DEF x
<1>4. /\ workers' \in Seq(Worker) /\ Len(workers') = n + 1 /\ DOMAIN workers' = 1 .. n + 1
      /\ workers'[n + 1] = x /\ \A v \in 1 .. n : workers'[v] = workers[v]
  BY <1>1, <1>2, <1>3, AppendProperties, LenProperties
<1>5. \A v \in 1 .. n : workers[v].at = "off"
  BY <1>1, <1>3 DEF UpdateInv, LastAtWork
<1>6. x.at = "ask" /\ x.result = Update!Failure
  BY DEF x
<1> HIDE DEF n
<1>7. UpdateTyped'
  BY <1>3, <1>4 DEF UpdateInv, UpdateTyped
<1>8. LastAtWork'
  BY <1>1, <1>3, <1>4, <1>5 DEF LastAtWork
<1>9. WorkersDone'
  <2>1. \A v \in 1 .. n : v # n + 1
    BY <1>1
  <2> QED
    BY <1>1, <1>3, <1>4, <1>5, <1>6, <2>1 DEF UpdateInv, WorkersDone
<1>10. Update!PageOfVersion' /\ BannerFound'
  BY <1>1, <1>3, <1>4 DEF UpdateInv, Update!PageOfVersion, BannerFound
<1> QED
  BY <1>7, <1>8, <1>9, <1>10 DEF UpdateInv

\* What a step leaves.
LEMMA UpdateStill ==
    ASSUME UpdateInv, UNCHANGED <<in_progress, workers, latest, url, banner, drawn, cached, toast>>,
           gone' \in BOOLEAN
    PROVE  UpdateInv'
<1>1. UpdateTyped'
  BY DEF UpdateInv, UpdateTyped
<1>2. LastAtWork' /\ BannerFound' /\ Update!PageOfVersion'
  BY DEF UpdateInv, LastAtWork, Update!PageOfVersion, BannerFound
<1>3. WorkersDone'
  BY DEF UpdateInv, WorkersDone
<1> QED
  BY <1>1, <1>2, <1>3 DEF UpdateInv

\* The banner is drawn, or closed.
LEMMA UpdateDraws ==
    ASSUME UpdateInv, Update!Draw \/ Update!ClickClose \/ Update!ClickLink
    PROVE  UpdateInv'
<1>1. /\ UNCHANGED <<in_progress, workers, latest, url, toast, gone>>
      /\ \/ banner' = banner /\ drawn' = <<latest>> /\ cached' = TRUE
         \/ banner' = FALSE /\ UNCHANGED <<drawn, cached>>
  BY DEF Update!Draw, Update!ClickClose, Update!ClickLink
<1>2. UpdateTyped'
  BY <1>1 DEF UpdateInv, UpdateTyped
<1>3. WorkersDone'
  BY <1>1 DEF UpdateInv, WorkersDone
<1> QED
  BY <1>1, <1>2, <1>3 DEF UpdateInv, LastAtWork, Update!PageOfVersion, BannerFound

\* A worker that is at work is the last one; whatever it does next, the others have
\* ended, and its record stays one.
LEMMA WorkerSteps ==
    ASSUME UpdateInv, NEW w \in DOMAIN workers, workers[w].at # "off", NEW x \in Worker,
           workers' = [workers EXCEPT ![w] = x]
    PROVE  /\ workers' \in Seq(Worker) /\ workers[w] \in Worker
           /\ DOMAIN workers' = DOMAIN workers /\ Len(workers') = Len(workers)
           /\ w = Len(workers) /\ workers'[w] = x /\ in_progress = TRUE
           /\ \A v \in DOMAIN workers :
                v # w => workers'[v] = workers[v] /\ workers[v].at = "off" /\ v # Len(workers)
<1>1. workers \in Seq(Worker)
  BY DEF UpdateInv, UpdateTyped
<1>2. workers[w] \in Worker
  BY <1>1, ElementOfSeq, LenProperties
<1>3. w = Len(workers) /\ in_progress = TRUE
  BY DEF UpdateInv, LastAtWork, UpdateTyped
<1>4. \A v \in DOMAIN workers : v # w => workers[v].at = "off"
  BY <1>3 DEF UpdateInv, LastAtWork
<1> QED
  BY <1>1, <1>2, <1>3, <1>4, WorkerGoes

LEMMA UpdateAnswers ==
    ASSUME UpdateInv, NEW w \in DOMAIN workers, Update!Answer(w)
    PROVE  UpdateInv'
<1>1. PICK answer \in Update!Answers :
        workers' = [workers EXCEPT ![w].at = "store",
                                   ![w].result = Update!CheckForUpdate(answer)]
  BY DEF Update!Answer
<1>2. /\ workers[w].at = "ask"
      /\ UNCHANGED <<in_progress, latest, url, banner, drawn, cached, toast, opened, gone>>
  BY DEF Update!Answer, Update!bannerVars
<1> DEFINE r == Update!CheckForUpdate(answer)
           x == [workers[w] EXCEPT !.at = "store", !.result = r]
<1>3. r \in Results
  BY CheckFinds
<1> HIDE DEF r
<1>4. workers' = [workers EXCEPT ![w] = x]
  BY <1>1 DEF r
<1>5. workers[w] \in Worker /\ workers[w].result = Update!Failure
  BY <1>2, ElementOfSeq, LenProperties DEF UpdateInv, UpdateTyped, WorkersDone
<1>6. /\ x \in Worker /\ x.at = "store" /\ x.result = r
      /\ workers[w].result.available = FALSE
  <2>1. workers[w].result.available = FALSE
    BY <1>5 DEF Update!Failure
  <2>2. x \in Worker /\ x.at = "store" /\ x.result = r
    BY <1>3, <1>5 DEF Worker
  <2> QED
    BY <2>1, <2>2
<1> HIDE DEF x
<1>7. /\ workers' \in Seq(Worker) /\ DOMAIN workers' = DOMAIN workers
      /\ Len(workers') = Len(workers)
      /\ w = Len(workers) /\ workers'[w] = x /\ in_progress = TRUE
      /\ \A v \in DOMAIN workers :
                v # w => workers'[v] = workers[v] /\ workers[v].at = "off" /\ v # Len(workers)
  BY <1>2, <1>4, <1>6, WorkerSteps
<1>8. UpdateTyped'
  BY <1>2, <1>7 DEF UpdateInv, UpdateTyped
<1>9. LastAtWork'
  BY <1>2, <1>7 DEF UpdateInv, LastAtWork
<1>10. WorkersDone'
  BY <1>2, <1>6, <1>7 DEF UpdateInv, WorkersDone
<1>11. BannerFound'
  BY <1>2, <1>6, <1>7 DEF UpdateInv, BannerFound
<1> QED
  BY <1>2, <1>8, <1>9, <1>10, <1>11 DEF UpdateInv, Update!PageOfVersion

LEMMA UpdateStores ==
    ASSUME UpdateInv, NEW w \in DOMAIN workers, Update!Store(w)
    PROVE  UpdateInv'
<1> DEFINE x == [workers[w] EXCEPT !.at = "tell"]
<1>1. /\ workers[w].at = "store" /\ workers' = [workers EXCEPT ![w] = x]
      /\ latest' = workers[w].result.latest /\ url' = workers[w].result.url
      /\ UNCHANGED <<in_progress, banner, drawn, cached, toast, opened, gone>>
  BY DEF Update!Store, Update!Step
<1>2. workers[w] \in Worker
  BY ElementOfSeq, LenProperties DEF UpdateInv, UpdateTyped
<1>3. x \in Worker /\ x.at = "tell" /\ x.result = workers[w].result /\ x.result \in Results
  BY <1>2 DEF Worker
<1> HIDE DEF x
<1>4. /\ workers' \in Seq(Worker) /\ DOMAIN workers' = DOMAIN workers
      /\ Len(workers') = Len(workers)
      /\ w = Len(workers) /\ workers'[w] = x /\ in_progress = TRUE
      /\ \A v \in DOMAIN workers :
                v # w => workers'[v] = workers[v] /\ workers[v].at = "off" /\ v # Len(workers)
  BY <1>1, <1>3, WorkerSteps
<1>5. UpdateTyped'
  BY <1>1, <1>4 DEF UpdateInv, UpdateTyped
<1>6. LastAtWork'
  BY <1>1, <1>4 DEF UpdateInv, LastAtWork
<1>7. WorkersDone'
  BY <1>1, <1>3, <1>4 DEF UpdateInv, WorkersDone
<1>8. BannerFound'
  BY <1>1, <1>3, <1>4 DEF UpdateInv, BannerFound
<1>9. Update!PageOfVersion'
  BY <1>1, <1>3, ResultFields DEF Update!PageOfVersion
<1> QED
  BY <1>5, <1>6, <1>7, <1>8, <1>9 DEF UpdateInv

LEMMA UpdateTells ==
    ASSUME UpdateInv, NEW w \in DOMAIN workers, Update!Tell(w)
    PROVE  UpdateInv'
<1> DEFINE r == workers[w].result
           newer == r.ok /\ r.available
           told == newer \/ workers[w].manual
<1>1. workers[w] \in Worker /\ workers[w].manual \in BOOLEAN /\ r \in Results
  <2>1. workers[w] \in Worker
    BY ElementOfSeq, LenProperties DEF UpdateInv, UpdateTyped
  <2> QED
    BY <2>1 DEF Worker
<1>2. newer \in BOOLEAN /\ told \in BOOLEAN /\ (newer <=> r.available) /\ r.available \in BOOLEAN
  BY <1>1, ResultFields
<1>3. workers[w].manual => told
  OBVIOUS
<1>4. /\ workers[w].at = "tell"
      /\ workers' = [workers EXCEPT ![w].at = "release", ![w].told = told]
      /\ banner' = (banner \/ newer) /\ cached' = (cached /\ ~newer)
      /\ toast' \in {toast, "up to date", "failed"}
      /\ UNCHANGED <<in_progress, latest, url, drawn, opened, gone>>
  BY DEF Update!Tell
<1> HIDE DEF newer, told
<1> DEFINE x == [workers[w] EXCEPT !.at = "release", !.told = told]
<1>5. /\ x \in Worker /\ x.at = "release" /\ x.result = r /\ x.told = told
      /\ x.manual = workers[w].manual
  BY <1>1, <1>2 DEF Worker
<1>6. workers' = [workers EXCEPT ![w] = x]
  BY <1>4
<1> HIDE DEF x
<1>7. /\ workers' \in Seq(Worker) /\ DOMAIN workers' = DOMAIN workers
      /\ Len(workers') = Len(workers)
      /\ w = Len(workers) /\ workers'[w] = x /\ in_progress = TRUE
      /\ \A v \in DOMAIN workers :
                v # w => workers'[v] = workers[v] /\ workers[v].at = "off" /\ v # Len(workers)
  BY <1>4, <1>5, <1>6, WorkerSteps
<1>8. UpdateTyped'
  BY <1>2, <1>4, <1>7 DEF UpdateInv, UpdateTyped
<1>9. LastAtWork'
  BY <1>4, <1>7 DEF UpdateInv, LastAtWork
<1>10. WorkersDone'
  <2>1. /\ latest = r.latest /\ latest' = latest /\ drawn' = drawn
        /\ ~(r.available /\ cached')
    BY <1>2, <1>4, <1>7 DEF UpdateInv, WorkersDone
  <2>2. ASSUME NEW v \in DOMAIN workers, v # w
        PROVE  (workers[v].at \in {"release", "off"} /\ workers[v].manual) => workers[v].told
    BY DEF UpdateInv, WorkersDone
  <2>3. x.manual => x.told
    BY <1>3, <1>5
  <2> HIDE DEF r
  <2> QED
    BY <1>5, <1>7, <2>1, <2>2, <2>3 DEF WorkersDone
<1>11. BannerFound'
  <2>1. workers'[w].result = r /\ \A v \in DOMAIN workers : v # w => workers'[v] = workers[v]
    BY <1>5, <1>7
  <2>2. CASE newer
    <3>1. r.available
      BY <1>2, <2>2
    <3> HIDE DEF r
    <3> QED
      BY <1>7, <2>1, <3>1 DEF BannerFound
  <2>3. CASE ~newer
    <3>1. banner' => banner
      BY <1>2, <1>4, <2>3
    <3>2. banner => \E v \in DOMAIN workers : workers[v].result.available
      BY DEF UpdateInv, BannerFound
    <3>3. \A v \in DOMAIN workers : workers'[v].result = workers[v].result
      BY <2>1
    <3> QED
      BY <1>7, <3>1, <3>2, <3>3 DEF BannerFound
  <2> QED
    BY <2>2, <2>3
<1> QED
  BY <1>4, <1>8, <1>9, <1>10, <1>11 DEF UpdateInv, Update!PageOfVersion

LEMMA UpdateEnds ==
    ASSUME UpdateInv, NEW w \in DOMAIN workers, Update!Ends(w)
    PROVE  UpdateInv'
<1> DEFINE x == [workers[w] EXCEPT !.at = "off"]
<1>1. /\ workers[w].at = "release" /\ workers' = [workers EXCEPT ![w] = x]
      /\ in_progress' = FALSE
      /\ UNCHANGED <<latest, url, banner, drawn, cached, toast, opened, gone>>
  BY DEF Update!Ends, Update!Step, Update!bannerVars
<1>2. workers[w] \in Worker
  BY ElementOfSeq, LenProperties DEF UpdateInv, UpdateTyped
<1>3. /\ x \in Worker /\ x.at = "off" /\ x.result = workers[w].result
      /\ x.told = workers[w].told /\ x.manual = workers[w].manual
  BY <1>2 DEF Worker
<1> HIDE DEF x
<1>4. /\ workers' \in Seq(Worker) /\ DOMAIN workers' = DOMAIN workers
      /\ Len(workers') = Len(workers)
      /\ w = Len(workers) /\ workers'[w] = x /\ in_progress = TRUE
      /\ \A v \in DOMAIN workers :
                v # w => workers'[v] = workers[v] /\ workers[v].at = "off" /\ v # Len(workers)
  BY <1>1, <1>3, WorkerSteps
<1>5. UpdateTyped'
  BY <1>1, <1>4 DEF UpdateInv, UpdateTyped
<1>6. LastAtWork'
  BY <1>1, <1>3, <1>4 DEF UpdateInv, LastAtWork
<1>7. WorkersDone'
  BY <1>1, <1>3, <1>4 DEF UpdateInv, WorkersDone
<1>8. BannerFound'
  BY <1>1, <1>3, <1>4 DEF UpdateInv, BannerFound
<1> QED
  BY <1>1, <1>5, <1>6, <1>7, <1>8 DEF UpdateInv, Update!PageOfVersion

LEMMA UpdateStep ==
    ASSUME UpdateInv, Update!Next
    PROVE  UpdateInv'
<1>1. ASSUME Update!Launch \/ Update!ClickCheck  PROVE UpdateInv'
  BY <1>1, UpdateChecks DEF Update!Launch, Update!ClickCheck
<1>2. ASSUME Update!Quit  PROVE UpdateInv'
  BY <1>2, UpdateStill DEF Update!Quit, Update!bannerVars
<1> QED
  BY <1>1, <1>2, UpdateAnswers, UpdateStores, UpdateTells, UpdateEnds, UpdateDraws
  DEF Update!Next

\* The last check that has told, if all have, is the last.
LEMMA LastToldIs ==
    ASSUME UpdateInv, workers # <<>>, Update!LastTold = Len(workers)
    PROVE  Len(workers) \in DOMAIN workers /\ workers[Len(workers)].at \in {"release", "off"}
<1> DEFINE n == Len(workers)
           told == {w \in DOMAIN workers : workers[w].at \in {"release", "off"}}
<1>1. n \in Nat \ {0} /\ DOMAIN workers = 1 .. n
  BY EmptySeq, LenProperties DEF UpdateInv, UpdateTyped
<1>2. \A w \in 1 .. n - 1 : w \in told
  BY <1>1 DEF UpdateInv, LastAtWork
<1>3. CASE n \notin told
  <2>1. told = 1 .. n - 1
    BY <1>1, <1>2, <1>3
  <2>2. CASE n = 1
    <3>1. told = {}
      BY <2>1, <2>2
    <3>2. Update!LastTold = 0
      BY <3>1 DEF Update!LastTold
    <3> QED
      BY <2>2, <3>2
  <2>3. CASE n # 1
    <3>1. n - 1 \in told /\ told \in SUBSET Int /\ \A v \in told : v <= n - 1
      BY <1>1, <2>1, <2>3
    <3>2. Update!Max(told) = n - 1
      BY <3>1, GreatestIs
    <3>3. Update!LastTold = n - 1
      BY <3>1, <3>2 DEF Update!LastTold
    <3> QED
      BY <1>1, <3>3
  <2> QED
    BY <2>2, <2>3
<1> QED
  BY <1>1, <1>3

\* What follows.
LEMMA UpdateServes ==
    ASSUME UpdateInv
    PROVE  /\ Update!TypeOK /\ Update!OneWriter /\ Update!PageOfVersion
           /\ Update!BannerOfFound /\ Update!FoundIfLater /\ Update!AskerTold
<1>1. workers \in Seq(Worker) /\ \A w \in DOMAIN workers : workers[w] \in Worker
  BY ElementOfSeq, LenProperties DEF UpdateInv, UpdateTyped
<1>2. Update!TypeOK
  <2>1. \A w \in DOMAIN workers :
          workers[w].at \in {"ask", "store", "tell", "release", "off"}
    BY <1>1 DEF Worker
  <2>2. Len(drawn) <= 1
    <3>1. CASE drawn = <<>>
      BY <3>1, EmptySeq
    <3>2. ASSUME NEW text, drawn = <<text>>  PROVE Len(drawn) <= 1
      BY <3>2
    <3> QED
      BY <3>1, <3>2 DEF UpdateInv, UpdateTyped
  <2> QED
    BY <2>1, <2>2 DEF UpdateInv, UpdateTyped, Update!TypeOK
<1>3. Update!OneWriter
  <2> DEFINE busy == {w \in DOMAIN workers : workers[w].at # "off"}
  <2>1. busy \in SUBSET {Len(workers)}
    BY DEF UpdateInv, LastAtWork
  <2>2. IsFiniteSet({Len(workers)}) /\ Cardinality({Len(workers)}) = 1
    BY FS_Singleton
  <2>3. Cardinality(busy) <= 1
    BY <2>1, <2>2, FS_Subset
  <2> QED
    BY <2>3, UpdateCounts DEF Update!OneWriter
<1>4. Update!FoundIfLater
  <2> SUFFICES ASSUME NEW w \in DOMAIN workers, workers[w].result.ok,
                      Len(workers[w].result.latest) >= 5,
                      Update!Huge \notin Update!ToSet(workers[w].result.latest)
               PROVE  workers[w].result.available <=> Update!Later(workers[w].result.latest)
    BY DEF Update!FoundIfLater
  <2>1. workers[w].result \in Results /\ workers[w].result # Update!Failure
    BY <1>1 DEF Worker, Update!Failure
  <2>2. PICK t \in Update!Tags : workers[w].result = FoundBy(t)
    BY <2>1 DEF Results
  <2>3. workers[w].result.latest = Named(t)
    BY <2>2 DEF FoundBy
  <2> QED
    BY <2>2, <2>3, LaterFound
<1>5. Update!AskerTold
  BY DEF UpdateInv, WorkersDone, Update!AskerTold
<1>6. Update!BannerOfFound
  <2> SUFFICES ASSUME banner
               PROVE  /\ \E w \in DOMAIN workers : workers[w].result.available
                      /\ (Update!LastTold = Len(workers)
                            /\ workers[Update!LastTold].result.available) =>
                           /\ Update!IsNewer(Update!ParseSemver(latest), Update!Current)
                           /\ (drawn # <<>> /\ cached) => drawn = <<latest>>
    BY DEF Update!BannerOfFound
  <2>1. PICK v \in DOMAIN workers : workers[v].result.available
    BY DEF UpdateInv, BannerFound
  <2>2. workers # <<>>
    BY <2>1
  <2>3. ASSUME Update!LastTold = Len(workers), workers[Update!LastTold].result.available
        PROVE  /\ Update!IsNewer(Update!ParseSemver(latest), Update!Current)
               /\ (drawn # <<>> /\ cached) => drawn = <<latest>>
    <3> DEFINE w == Len(workers)
    <3>1. w \in DOMAIN workers /\ workers[w].at \in {"release", "off"}
      BY <2>2, <2>3, LastToldIs
    <3>2. /\ latest = workers[w].result.latest /\ workers[w].result.available
          /\ cached => drawn = <<latest>>
      BY <2>3, <3>1 DEF UpdateInv, WorkersDone
    <3>3. PICK t \in Update!Tags : workers[w].result = FoundBy(t)
      BY <1>1, <3>1, <3>2 DEF Worker, Results, Update!Failure
    <3>4. /\ latest = Named(t)
          /\ Update!IsNewer(Update!ParseSemver(t), Update!Current)
      BY <3>2, <3>3 DEF FoundBy
    <3>5. Update!ParseSemver(latest) = Update!ParseSemver(t)
      BY <3>4, VersionNamed
    <3> QED
      BY <3>2, <3>4, <3>5
  <2> QED
    BY <2>1, <2>3
<1> QED
  BY <1>2, <1>3, <1>4, <1>5, <1>6 DEF UpdateInv

(***************************************************************************)
(* The log and its drawer.                                                 *)
(***************************************************************************)

LEMMA LogMax ==
    ASSUME NEW a \in Int, NEW b \in Int
    PROVE  Log!Max({a, b}) = IF a >= b THEN a ELSE b
<1>1. \E x \in {a, b} : \A y \in {a, b} : x >= y
  OBVIOUS
<1>2. Log!Max({a, b}) \in {a, b} /\ \A y \in {a, b} : Log!Max({a, b}) >= y
  BY <1>1 DEF Log!Max
<1> QED
  BY <1>2

LEMMA LogMin ==
    ASSUME NEW a \in Int, NEW b \in Int
    PROVE  Log!Min({a, b}) = IF a <= b THEN a ELSE b
<1>1. \E x \in {a, b} : \A y \in {a, b} : x <= y
  OBVIOUS
<1>2. Log!Min({a, b}) \in {a, b} /\ \A y \in {a, b} : Log!Min({a, b}) <= y
  BY <1>1 DEF Log!Min
<1> QED
  BY <1>2

\* The end of a sequence.
LEMMA LastOfIs ==
    ASSUME NEW S, NEW s \in Seq(S), NEW n \in Nat
    PROVE  LET d == IF Len(s) > n THEN Len(s) - n ELSE 0
               e == Log!LastOf(n, s)
           IN  /\ e \in Seq(S) /\ d \in Nat /\ Len(s) \in Nat
               /\ Len(e) = Len(s) - d /\ Len(e) <= n
               /\ \A i \in 1 .. Len(e) : e[i] = s[d + i]
<1> DEFINE l == Len(s)
           d == IF l > n THEN l - n ELSE 0
           e == Log!LastOf(n, s)
<1>1. l \in Nat /\ \A i \in 1 .. l : s[i] \in S
  BY LenProperties, ElementOfSeq
<1> HIDE DEF l
<1>2. Log!Max({0, l - n}) = d
  BY <1>1, LogMax
<1>3. e = SubSeq(s, 1 + d, l)
  BY <1>2 DEF Log!LastOf, l
<1>4. d \in Nat /\ d <= l /\ l - d <= n
  BY <1>1
<1> HIDE DEF d, e
<1>5. \A i \in 1 + d .. l : s[i] \in S
  BY <1>1, <1>4
<1>6. /\ SubSeq(s, 1 + d, l) \in Seq(S)
      /\ Len(SubSeq(s, 1 + d, l)) = IF 1 + d <= l THEN l - (1 + d) + 1 ELSE 0
      /\ \A i \in 1 .. l - (1 + d) + 1 : SubSeq(s, 1 + d, l)[i] = s[1 + d + i - 1]
  BY <1>1, <1>4, <1>5, SubSeqProperties
<1>7. Len(e) = l - d
  BY <1>1, <1>3, <1>4, <1>6
<1>8. \A i \in 1 .. l - d : i \in 1 .. l - (1 + d) + 1 /\ 1 + d + i - 1 = d + i
  BY <1>1, <1>4
<1>9. \A i \in 1 .. Len(e) : e[i] = s[d + i]
  BY <1>3, <1>6, <1>7, <1>8
<1>10. e \in Seq(S) /\ Len(e) <= n
  BY <1>3, <1>4, <1>6, <1>7
<1> QED
  BY <1>1, <1>4, <1>7, <1>9, <1>10 DEF d, e, l

\* A line more: the end of the end is the end of the whole.
LEMMA LastOfAppend ==
    ASSUME NEW S, NEW s \in Seq(S), NEW n \in Nat \ {0}, NEW x \in S
    PROVE  Log!LastOf(n, Append(Log!LastOf(n, s), x)) = Log!LastOf(n, Append(s, x))
<1> DEFINE l == Len(s)
           d == IF l > n THEN l - n ELSE 0
           e == Log!LastOf(n, s)
           f == Append(e, x)
           t == Append(s, x)
           kf == Len(f)
           kt == Len(t)
           df == IF kf > n THEN kf - n ELSE 0
           dt == IF kt > n THEN kt - n ELSE 0
           lf == Log!LastOf(n, f)
           lt == Log!LastOf(n, t)
<1>1. /\ e \in Seq(S) /\ d \in Nat /\ l \in Nat /\ Len(e) = l - d /\ l - d \in Nat
      /\ \A i \in 1 .. l - d : e[i] = s[d + i]
  BY LastOfIs
<1>2. d = IF l > n THEN l - n ELSE 0
  OBVIOUS
<1> HIDE DEF d, e, l
<1>3. l \in Nat /\ d \in Nat /\ d <= l
  BY <1>1
<1>4. /\ f \in Seq(S) /\ Len(f) = l - d + 1 /\ f[l - d + 1] = x
      /\ \A i \in 1 .. l - d : f[i] = e[i]
  BY <1>1, AppendProperties
<1>5. /\ t \in Seq(S) /\ Len(t) = l + 1 /\ t[l + 1] = x
      /\ \A i \in 1 .. l : t[i] = s[i]
  BY AppendProperties DEF l
<1> HIDE DEF f, t
<1>6. \A i \in 1 .. l - d + 1 : f[i] = t[d + i]
  <2> SUFFICES ASSUME NEW i \in 1 .. l - d + 1 PROVE f[i] = t[d + i]
    OBVIOUS
  <2>1. CASE i = l - d + 1
    <3>1. d + i = l + 1
      BY <1>1, <2>1
    <3> QED
      BY <1>4, <1>5, <2>1, <3>1
  <2>2. CASE i # l - d + 1
    <3>1. i \in 1 .. l - d /\ d + i \in 1 .. l
      BY <1>3, <2>2
    <3> QED
      BY <1>1, <1>4, <1>5, <3>1
  <2> QED
    BY <2>1, <2>2
<1>7. /\ lf \in Seq(S) /\ df \in Nat /\ Len(lf) = kf - df
       /\ \A i \in 1 .. Len(lf) : lf[i] = f[df + i]
  BY <1>4, LastOfIs
<1>8. /\ lt \in Seq(S) /\ dt \in Nat /\ Len(lt) = kt - dt
       /\ \A i \in 1 .. Len(lt) : lt[i] = t[dt + i]
  BY <1>5, LastOfIs
<1>9. kf = l - d + 1 /\ kt = l + 1
  BY <1>4, <1>5
<1> HIDE DEF kf, kt
<1>10. df = (IF l - d + 1 > n THEN l - d + 1 - n ELSE 0) /\ dt = IF l + 1 > n THEN l + 1 - n ELSE 0
  BY <1>3, <1>9
<1> HIDE DEF df, dt, lf, lt
<1>11. l - d + 1 - df = l + 1 - dt /\ d + df = dt /\ df \in Nat /\ dt \in Nat
  BY <1>2, <1>3, <1>10
<1>12. /\ lf \in Seq(S) /\ Len(lf) = l - d + 1 - df
      /\ \A i \in 1 .. l - d + 1 - df : lf[i] = f[df + i]
  <2>1. Len(lf) = l - d + 1 - df
    BY <1>3, <1>7, <1>9
  <2> QED
    BY <1>3, <1>7, <2>1
<1>13. /\ lt \in Seq(S) /\ Len(lt) = l + 1 - dt
      /\ \A i \in 1 .. l + 1 - dt : lt[i] = t[dt + i]
  <2>1. Len(lt) = l + 1 - dt
    BY <1>3, <1>8, <1>9
  <2> QED
    BY <1>3, <1>8, <2>1
<1>14. \A i \in 1 .. l + 1 - dt : df + i \in 1 .. l - d + 1 /\ d + (df + i) = dt + i
  BY <1>3, <1>11
<1>15. ASSUME NEW i \in 1 .. l + 1 - dt  PROVE lf[i] = lt[i]
  <2>1. df + i \in 1 .. l - d + 1 /\ d + (df + i) = dt + i
    BY <1>14
  <2>2. lf[i] = f[df + i] /\ lt[i] = t[dt + i]
    BY <1>12, <1>13, <1>11
  <2>3. f[df + i] = t[d + (df + i)]
    BY <1>6, <2>1
  <2> QED
    BY <2>1, <2>2, <2>3
<1>16. lf = lt
  BY <1>12, <1>13, <1>11, <1>15, SeqEqual
<1> QED
  BY <1>16 DEF lf, lt, e, f, t

\* A suffix is what a sequence ends with.
LEMMA SuffixIs ==
    ASSUME NEW S, NEW s \in Seq(S), NEW t \in Seq(S)
    PROVE  Log!IsSuffix(s, t) <=>
             /\ Len(s) <= Len(t)
             /\ \A i \in 1 .. Len(s) : s[i] = t[Len(t) - Len(s) + i]
<1> DEFINE l == Len(s)
           m == Len(t)
           rs == Log!Reverse(s)
           rt == Log!Reverse(t)
<1>1. l \in Nat /\ m \in Nat /\ (\A i \in 1 .. l : s[i] \in S) /\ \A i \in 1 .. m : t[i] \in S
  BY LenProperties, ElementOfSeq
<1>2. /\ rs = [i \in 1 .. l |-> s[l - i + 1]] /\ rt = [i \in 1 .. m |-> t[m - i + 1]]
  BY DEF Log!Reverse
<1> HIDE DEF l, m, rs, rt
<1>3. rs \in Seq(S) /\ Len(rs) = l /\ rt \in Seq(S) /\ Len(rt) = m
  BY <1>1, <1>2
<1>4. Log!IsSuffix(s, t) <=> l <= m /\ SubSeq(rs, 1, l) = SubSeq(rt, 1, l)
  BY <1>3 DEF Log!IsSuffix, Log!IsPrefix, rs, rt
<1>5. ASSUME l <= m
      PROVE  SubSeq(rs, 1, l) = SubSeq(rt, 1, l) <=> \A i \in 1 .. l : s[i] = t[m - l + i]
  <2>1. (\A i \in 1 .. l : rs[i] = s[l - i + 1]) /\ \A i \in 1 .. l : rt[i] = t[m - i + 1]
    BY <1>1, <1>2, <1>5
  <2>2. \A i \in 1 .. l : rs[i] \in S /\ rt[i] \in S
    <3> SUFFICES ASSUME NEW i \in 1 .. l PROVE rs[i] \in S /\ rt[i] \in S
      OBVIOUS
    <3>1. l - i + 1 \in 1 .. l /\ m - i + 1 \in 1 .. m
      BY <1>1, <1>5
    <3> QED
      BY <1>1, <2>1, <3>1
  <2>3. /\ SubSeq(rs, 1, l) \in Seq(S) /\ Len(SubSeq(rs, 1, l)) = l
        /\ \A i \in 1 .. l : SubSeq(rs, 1, l)[i] = rs[i]
    BY <1>1, <2>2, SubSeqProperties
  <2>4. /\ SubSeq(rt, 1, l) \in Seq(S) /\ Len(SubSeq(rt, 1, l)) = l
        /\ \A i \in 1 .. l : SubSeq(rt, 1, l)[i] = rt[i]
    BY <1>1, <2>2, SubSeqProperties
  <2>5. SubSeq(rs, 1, l) = SubSeq(rt, 1, l) <=> \A i \in 1 .. l : rs[i] = rt[i]
    BY <1>1, <2>3, <2>4, SeqEqual
  <2>6. ASSUME \A i \in 1 .. l : rs[i] = rt[i], NEW i \in 1 .. l
        PROVE  s[i] = t[m - l + i]
    <3>1. l - i + 1 \in 1 .. l /\ l - (l - i + 1) + 1 = i /\ m - (l - i + 1) + 1 = m - l + i
      BY <1>1
    <3> QED
      BY <2>1, <2>6, <3>1
  <2>7. ASSUME \A i \in 1 .. l : s[i] = t[m - l + i], NEW i \in 1 .. l
        PROVE  rs[i] = rt[i]
    <3>1. l - i + 1 \in 1 .. l /\ m - l + (l - i + 1) = m - i + 1
      BY <1>1
    <3> QED
      BY <2>1, <2>7, <3>1
  <2> QED
    BY <2>5, <2>6, <2>7
<1> QED
  BY <1>4, <1>5 DEF l, m

\* A line more on both.
LEMMA SuffixAppend ==
    ASSUME NEW S, NEW s \in Seq(S), NEW t \in Seq(S), NEW x \in S, Log!IsSuffix(s, t)
    PROVE  Log!IsSuffix(Append(s, x), Append(t, x))
<1> DEFINE l == Len(s)
           m == Len(t)
           u == Append(s, x)
           v == Append(t, x)
<1>1. l \in Nat /\ m \in Nat /\ l <= m /\ \A i \in 1 .. l : s[i] = t[m - l + i]
  BY SuffixIs, LenProperties
<1>2. /\ u \in Seq(S) /\ Len(u) = l + 1 /\ u[l + 1] = x /\ \A i \in 1 .. l : u[i] = s[i]
      /\ v \in Seq(S) /\ Len(v) = m + 1 /\ v[m + 1] = x /\ \A i \in 1 .. m : v[i] = t[i]
  BY AppendProperties
<1> HIDE DEF l, m, u, v
<1>3. \A i \in 1 .. l + 1 : u[i] = v[m + 1 - (l + 1) + i]
  <2> SUFFICES ASSUME NEW i \in 1 .. l + 1 PROVE u[i] = v[m + 1 - (l + 1) + i]
    OBVIOUS
  <2>1. CASE i = l + 1
    <3>1. m + 1 - (l + 1) + i = m + 1
      BY <1>1, <2>1
    <3> QED
      BY <1>2, <2>1, <3>1
  <2>2. CASE i # l + 1
    <3>1. i \in 1 .. l /\ m + 1 - (l + 1) + i = m - l + i /\ m - l + i \in 1 .. m
      BY <1>1, <2>2
    <3> QED
      BY <1>1, <1>2, <3>1
  <2> QED
    BY <2>1, <2>2
<1>4. l + 1 <= m + 1
  BY <1>1
<1>5. u \in Seq(S) /\ Len(u) = l + 1 /\ v \in Seq(S) /\ Len(v) = m + 1
  BY <1>2
<1>6. \A i \in 1 .. Len(u) : u[i] = v[Len(v) - Len(u) + i]
  <2> SUFFICES ASSUME NEW i \in 1 .. Len(u)  PROVE u[i] = v[Len(v) - Len(u) + i]
    OBVIOUS
  <2>1. i \in 1 .. l + 1 /\ Len(v) - Len(u) + i = m + 1 - (l + 1) + i
    BY <1>1, <1>5
  <2> QED
    BY <1>3, <2>1
<1>7. Len(u) <= Len(v)
  BY <1>1, <1>4, <1>5
<1>8. Log!IsSuffix(u, v)
  BY <1>5, <1>6, <1>7, SuffixIs
<1> QED
  BY <1>8 DEF u, v

\* And the last alone.
LEMMA SuffixLast ==
    ASSUME NEW S, NEW t \in Seq(S), NEW x \in S
    PROVE  Log!IsSuffix(<<x>>, Append(t, x))
<1>1. /\ Append(t, x) \in Seq(S) /\ Len(Append(t, x)) = Len(t) + 1
      /\ Append(t, x)[Len(t) + 1] = x /\ Len(t) \in Nat
  BY AppendProperties, LenProperties
<1>2. <<x>> \in Seq(S) /\ Len(<<x>>) = 1 /\ <<x>>[1] = x
  OBVIOUS
<1>3. /\ Len(<<x>>) <= Len(Append(t, x))
      /\ \A i \in 1 .. Len(<<x>>) :
            <<x>>[i] = Append(t, x)[Len(Append(t, x)) - Len(<<x>>) + i]
  BY <1>1, <1>2
<1> QED
  BY <1>1, <1>2, <1>3, SuffixIs

Piece == {<<t, s, n>> : t \in Writers \cup {Log!Window}, s \in Log!Streams, n \in Nat}
Line == Seq(Piece)

\* What one thread has printed on one stream, in its order.
Whole(line) ==
    \A j, k \in DOMAIN line :
        /\ line[j][1] = line[k][1] /\ line[j][2] = line[k][2]
        /\ j < k => line[j][3] < line[k][3]

PanelTyped ==
    /\ lines \in Seq(Line) /\ added \in Seq(Line) /\ rows \in Seq(Line)
    /\ disk \in Seq(Seq(Line)) /\ Len(disk) <= 1
    /\ reading \in Seq(Seq(Line)) /\ Len(reading) <= 1
    /\ version \in Nat /\ row_version \in 0 .. version /\ offset \in Int
    /\ {session, dragging, unread, missed} \subseteq BOOLEAN
LogTyped ==
    /\ buffers \in [Log!Streams -> [Writers -> Line]]
    /\ printed \in [Writers -> Nat]
    /\ PanelTyped

\* A buffer has what its thread has printed on its stream since the line began.
Buffered(s, t) ==
    \A j \in DOMAIN buffers[s][t] :
        /\ buffers[s][t][j][1] = t /\ buffers[s][t][j][2] = s
        /\ buffers[s][t][j][3] <= printed[t]
        /\ \A k \in DOMAIN buffers[s][t] : j < k => buffers[s][t][j][3] < buffers[s][t][k][3]
BuffersWhole == \A s \in Log!Streams, t \in Writers : Buffered(s, t)

\* What has been read is what there is, and so are the rows, unless a line has come.
ReadNow == (reading # <<>> /\ ~unread) => reading[1] = lines
RowsNow == (row_version = version /\ row_version # 0 /\ ~missed) => rows = lines

LogInv ==
    /\ LogTyped /\ BuffersWhole /\ Log!LinesWhole /\ Log!LastLinesKept
    /\ ReadNow /\ RowsNow

\* The window's line.
LEMMA SaysWhole == Log!Says \in Line /\ Whole(Log!Says)
<1> DEFINE p == <<Log!Window, "cout", 1>>
<1>1. p \in Piece
  BY DEF Piece, Log!Streams
<1> HIDE DEF p
<1>2. <<p>> \in Seq(Piece) /\ DOMAIN <<p>> = {1}
  BY <1>1
<1>3. Log!Says = <<p>>
  BY DEF Log!Says, p
<1> QED
  BY <1>2, <1>3 DEF Line, Whole

\* Lines that are whole stay so with one more.
LEMMA WholeAppend ==
    ASSUME NEW s \in Seq(Line), \A i \in DOMAIN s : Whole(s[i]), NEW x \in Line, Whole(x)
    PROVE  Append(s, x) \in Seq(Line) /\ \A i \in DOMAIN Append(s, x) : Whole(Append(s, x)[i])
<1>1. /\ Append(s, x) \in Seq(Line) /\ Len(s) \in Nat
      /\ DOMAIN Append(s, x) = 1 .. Len(s) + 1 /\ DOMAIN s = 1 .. Len(s)
      /\ Append(s, x)[Len(s) + 1] = x /\ \A i \in 1 .. Len(s) : Append(s, x)[i] = s[i]
  BY AppendProperties, LenProperties
<1> QED
  BY <1>1

LEMMA LinesWholeIs == Log!LinesWhole <=> \A i \in DOMAIN added : Whole(added[i])
  BY DEF Log!LinesWhole, Whole

\* A line more on the log.
LEMMA LogLines ==
    ASSUME LogInv, NEW x \in Line, Whole(x), added' = Append(added, x),
           lines' = Log!LastOf(RingSize, Append(lines, x))
    PROVE  /\ lines' \in Seq(Line) /\ added' \in Seq(Line)
           /\ Log!LinesWhole' /\ lines' = Log!LastOf(RingSize, added')
<1>1. /\ added \in Seq(Line) /\ RingSize \in Nat \ {0} /\ lines = Log!LastOf(RingSize, added)
      /\ \A i \in DOMAIN added : Whole(added[i])
  BY ProgramAssumption, LinesWholeIs DEF LogInv, LogTyped, PanelTyped,
     Log!LastLinesKept
<1>2. added' \in Seq(Line) /\ \A i \in DOMAIN added' : Whole(added'[i])
  BY <1>1, WholeAppend
<1>3. lines' = Log!LastOf(RingSize, added')
  BY <1>1, LastOfAppend
<1>4. lines' \in Seq(Line)
  BY <1>1, <1>2, <1>3, LastOfIs
<1>5. Log!LinesWhole'
  BY <1>2 DEF Log!LinesWhole, Whole
<1> QED
  BY <1>2, <1>3, <1>4, <1>5

\* The file, if one is open.
DiskKept ==
    disk # <<>> => Log!IsSuffix(disk[1], added) \/ Log!IsSuffix(added, disk[1])

\* One of at most one.
LEMMA OneAtMost ==
    ASSUME NEW S, NEW s \in Seq(S), Len(s) <= 1
    PROVE  /\ s # <<>> <=> Len(s) = 1
           /\ s # <<>> => s[1] \in S /\ DOMAIN s = {1}
<1>1. Len(s) \in Nat /\ DOMAIN s = 1 .. Len(s) /\ (s # <<>> => Len(s) # 0) /\ Len(<<>>) = 0
  BY LenProperties, EmptySeq
<1>2. \A i \in 1 .. Len(s) : s[i] \in S
  BY ElementOfSeq
<1> QED
  BY <1>1, <1>2

\* It grows as the log does.
LEMMA DiskGrows ==
    ASSUME LogInv, NEW x \in Line, disk' = [i \in DOMAIN disk |-> Append(disk[i], x)],
           added' = Append(added, x) \/ added' = <<x>>
    PROVE  /\ disk' \in Seq(Seq(Line)) /\ Len(disk') <= 1 /\ (disk' # <<>> <=> disk # <<>>)
           /\ DiskKept'
<1>1. disk \in Seq(Seq(Line)) /\ Len(disk) <= 1 /\ added \in Seq(Line)
  BY DEF LogInv, LogTyped, PanelTyped
<1>2. /\ DOMAIN disk = 1 .. Len(disk) /\ Len(disk) \in Nat
      /\ \A i \in 1 .. Len(disk) : disk[i] \in Seq(Line)
  BY <1>1, LenProperties, ElementOfSeq
<1>3. \A i \in 1 .. Len(disk) : Append(disk[i], x) \in Seq(Line)
  BY <1>2, AppendProperties
<1>4. disk' \in Seq(Seq(Line)) /\ Len(disk') = Len(disk)
  BY <1>2, <1>3
<1>5. disk' # <<>> <=> disk # <<>>
  BY <1>1, <1>4, OneAtMost
<1>6. DiskKept'
  <2> SUFFICES ASSUME disk' # <<>>
               PROVE  Log!IsSuffix(disk'[1], added') \/ Log!IsSuffix(added', disk'[1])
    BY DEF DiskKept
  <2>1. disk[1] \in Seq(Line) /\ DOMAIN disk = {1} /\ disk # <<>>
    BY <1>1, <1>5, OneAtMost
  <2>2. disk'[1] = Append(disk[1], x)
    BY <2>1
  <2>3. Log!IsSuffix(disk[1], added) \/ Log!IsSuffix(added, disk[1])
    BY <2>1 DEF LogInv, Log!LastLinesKept
  <2>4. CASE added' = Append(added, x)
    BY <1>1, <2>1, <2>2, <2>3, <2>4, SuffixAppend
  <2>5. CASE added' = <<x>>
    BY <2>1, <2>2, <2>5, SuffixLast
  <2> QED
    BY <2>4, <2>5
<1> QED
  BY <1>1, <1>4, <1>5, <1>6

\* The drawer waits for the next time it is drawn.
LEMMA DrawerWaits ==
    ASSUME LogInv, version' \in Nat, version' > version, unread' = TRUE,
           UNCHANGED <<reading, rows, row_version, offset, dragging, missed>>
    PROVE  ReadNow' /\ RowsNow' /\ row_version' \in 0 .. version'
<1>1. version \in Nat /\ row_version \in 0 .. version
  BY DEF LogInv, LogTyped, PanelTyped
<1> QED
  BY <1>1 DEF ReadNow, RowsNow

LEMMA LogBegins ==
    ASSUME Log!Init
    PROVE  LogInv
<1>1. /\ <<>> \in Seq(Line) /\ <<>> \in Seq(Seq(Line)) /\ Len(<<>>) = 0 /\ <<>> \in Line
      /\ DOMAIN <<>> = {}
  BY EmptySeq DEF Line
<1>2. LogTyped
  <2>1. buffers \in [Log!Streams -> [Writers -> Line]] /\ printed \in [Writers -> Nat]
    BY <1>1 DEF Log!Init
  <2>2. /\ lines \in Seq(Line) /\ added \in Seq(Line) /\ rows \in Seq(Line)
        /\ disk \in Seq(Seq(Line)) /\ Len(disk) <= 1
        /\ reading \in Seq(Seq(Line)) /\ Len(reading) <= 1
    BY <1>1 DEF Log!Init, Log!NotReading
  <2>3. version \in Nat /\ row_version \in 0 .. version /\ offset \in Int
    BY DEF Log!Init
  <2>4. {session, dragging, unread, missed} \subseteq BOOLEAN
    BY DEF Log!Init
  <2> QED
    BY <2>1, <2>2, <2>3, <2>4 DEF LogTyped, PanelTyped
<1>3. BuffersWhole /\ Log!LinesWhole
  BY <1>1 DEF Log!Init, BuffersWhole, Buffered, Log!LinesWhole
<1>4. Log!LastOf(RingSize, <<>>) = <<>>
  <2> DEFINE s == <<>>
             d == IF Len(s) > RingSize THEN Len(s) - RingSize ELSE 0
  <2>1. s \in Seq(Line) /\ Len(s) = 0 /\ RingSize \in Nat
    BY <1>1, ProgramAssumption
  <2> HIDE DEF s
  <2>2. Log!LastOf(RingSize, s) \in Seq(Line) /\ Len(Log!LastOf(RingSize, s)) = Len(s) - d
    BY <2>1, LastOfIs
  <2>3. d = 0
    BY <2>1
  <2>4. Log!LastOf(RingSize, s) = <<>>
    BY <2>1, <2>2, <2>3, EmptySeq
  <2> USE DEF s
  <2> QED
    BY <2>4
<1>5. Log!LastLinesKept
  BY <1>4 DEF Log!Init, Log!LastLinesKept
<1> QED
  BY <1>2, <1>3, <1>5 DEF Log!Init, LogInv, Log!NotReading, ReadNow, RowsNow

\* A thread prints.
LEMMA LogWrites ==
    ASSUME LogInv, NEW t \in Writers, Log!Write(t)
    PROVE  LogInv'
<1>1. PICK s \in Log!Streams :
        buffers' = [buffers EXCEPT ![s][t] = Append(buffers[s][t], <<t, s, printed[t] + 1>>)]
  BY DEF Log!Write, Log!BuffersWith
<1>2. /\ printed' = [printed EXCEPT ![t] = @ + 1]
      /\ UNCHANGED <<lines, version, disk, session, reading, rows, row_version, offset,
                     dragging, added, unread, missed>>
  BY DEF Log!Write, Log!drawerVars
<1> DEFINE b == buffers[s][t]
           n == printed[t]
           p == <<t, s, n + 1>>
           c == Append(b, p)
<1>3. /\ buffers \in [Log!Streams -> [Writers -> Line]] /\ printed \in [Writers -> Nat]
      /\ b \in Seq(Piece) /\ n \in Nat
  BY DEF LogInv, LogTyped, PanelTyped, Line
<1>4. p \in Piece /\ p[1] = t /\ p[2] = s /\ p[3] = n + 1
  BY <1>3 DEF Piece
<1>5. /\ Len(b) \in Nat /\ DOMAIN b = 1 .. Len(b)
      /\ \A j \in 1 .. Len(b) :
            /\ b[j][1] = t /\ b[j][2] = s /\ b[j][3] <= n
            /\ \A k \in 1 .. Len(b) : j < k => b[j][3] < b[k][3]
  <2>1. Len(b) \in Nat /\ DOMAIN b = 1 .. Len(b)
    BY <1>3, LenProperties
  <2> QED
    BY <2>1 DEF LogInv, BuffersWhole, Buffered
<1>6. \A j \in 1 .. Len(b) : b[j] \in Piece /\ b[j][3] \in Nat
  <2>1. \A j \in 1 .. Len(b) : b[j] \in Piece
    BY <1>3, ElementOfSeq
  <2>2. \A q \in Piece : q[3] \in Nat
    BY DEF Piece
  <2> QED
    BY <2>1, <2>2
<1> HIDE DEF b, n, p
<1>7. /\ c \in Seq(Piece) /\ DOMAIN c = 1 .. Len(b) + 1 /\ c[Len(b) + 1] = p
      /\ \A j \in 1 .. Len(b) : c[j] = b[j]
  BY <1>3, <1>4, AppendProperties, LenProperties
<1> HIDE DEF c
<1>8. \A j \in 1 .. Len(b) + 1 :
        /\ c[j][1] = t /\ c[j][2] = s /\ c[j][3] <= n + 1
        /\ \A k \in 1 .. Len(b) + 1 : j < k => c[j][3] < c[k][3]
  <2>1. ASSUME NEW j \in 1 .. Len(b)
        PROVE  /\ c[j][1] = t /\ c[j][2] = s /\ c[j][3] <= n + 1
               /\ \A k \in 1 .. Len(b) + 1 : j < k => c[j][3] < c[k][3]
    <3>1. c[j][1] = t /\ c[j][2] = s /\ c[j][3] \in Nat /\ c[j][3] <= n
      BY <1>5, <1>6, <1>7
    <3>2. ASSUME NEW k \in 1 .. Len(b), j < k  PROVE c[j][3] < c[k][3]
      BY <1>5, <1>7, <3>2
    <3>3. c[j][3] < c[Len(b) + 1][3]
      BY <1>3, <1>4, <1>7, <3>1
    <3>4. \A k \in 1 .. Len(b) + 1 : k = Len(b) + 1 \/ k \in 1 .. Len(b)
      BY <1>5
    <3> QED
      BY <1>3, <3>1, <3>2, <3>3, <3>4
  <2>2. /\ c[Len(b) + 1][1] = t /\ c[Len(b) + 1][2] = s /\ c[Len(b) + 1][3] = n + 1
        /\ \A k \in 1 .. Len(b) + 1 : ~(Len(b) + 1 < k)
    BY <1>4, <1>5, <1>7
  <2>3. \A k \in 1 .. Len(b) + 1 : k = Len(b) + 1 \/ k \in 1 .. Len(b)
    BY <1>5
  <2> QED
    BY <1>3, <2>1, <2>2, <2>3
<1>9. /\ buffers' \in [Log!Streams -> [Writers -> Line]] /\ buffers'[s][t] = c
      /\ \A s2 \in Log!Streams, t2 \in Writers :
            <<s2, t2>> # <<s, t>> => buffers'[s2][t2] = buffers[s2][t2]
  BY <1>1, <1>3, <1>7 DEF b, n, p, c, Line
<1>10. /\ printed' \in [Writers -> Nat] /\ printed'[t] = n + 1
       /\ \A t2 \in Writers : t2 # t => printed'[t2] = printed[t2]
  BY <1>2, <1>3 DEF n
<1>11. BuffersWhole'
  <2> SUFFICES ASSUME NEW s2 \in Log!Streams, NEW t2 \in Writers
               PROVE  Buffered(s2, t2)'
    BY DEF BuffersWhole
  <2>1. CASE s2 = s /\ t2 = t
    BY <1>7, <1>8, <1>9, <1>10, <2>1, ZenonT(60) DEF Buffered
  <2>2. CASE t2 # t
    BY <1>9, <1>10, <2>2 DEF LogInv, BuffersWhole, Buffered
  <2>3. CASE t2 = t /\ s2 # s
    <3>1. Buffered(s2, t) /\ buffers'[s2][t] = buffers[s2][t] /\ printed'[t] = printed[t] + 1
      BY <1>9, <1>10, <2>3 DEF LogInv, BuffersWhole, n
    <3>2. \A j \in DOMAIN buffers[s2][t] : buffers[s2][t][j][3] \in Nat
      <4>1. buffers[s2][t] \in Seq(Piece)
        BY <1>3 DEF Line
      <4> QED
        BY <4>1, ElementOfSeq, LenProperties DEF Piece
    <3>3. printed[t] \in Nat
      BY <1>3 DEF n
    <3>4. \A j \in DOMAIN buffers[s2][t] : buffers[s2][t][j][3] <= printed[t] + 1
      BY <3>1, <3>2, <3>3 DEF Buffered
    <3> QED
      BY <2>3, <3>1, <3>4 DEF Buffered
  <2> QED
    BY <2>1, <2>2, <2>3
<1>12. LogTyped'
  BY <1>2, <1>9, <1>10 DEF LogInv, LogTyped, PanelTyped
<1>13. Log!LinesWhole' /\ Log!LastLinesKept' /\ ReadNow' /\ RowsNow'
  BY <1>2 DEF LogInv, Log!LinesWhole, Log!LastLinesKept, ReadNow, RowsNow
<1> QED
  BY <1>11, <1>12, <1>13 DEF LogInv

\* A short log is all of it.
LEMMA LastOfOne ==
    ASSUME NEW x \in Line
    PROVE  Log!LastOf(RingSize, <<x>>) = <<x>>
<1> DEFINE s == <<x>>
           d == IF Len(s) > RingSize THEN Len(s) - RingSize ELSE 0
           e == Log!LastOf(RingSize, s)
<1>1. s \in Seq(Line) /\ Len(s) = 1 /\ RingSize \in Nat \ {0}
  BY ProgramAssumption
<1> HIDE DEF s
<1>2. d = 0
  BY <1>1
<1>3. e \in Seq(Line) /\ Len(e) = Len(s) - d /\ \A i \in 1 .. Len(e) : e[i] = s[d + i]
  BY <1>1, LastOfIs
<1> HIDE DEF d, e
<1>4. Len(e) = 1 /\ \A i \in 1 .. 1 : e[i] = s[i]
  BY <1>1, <1>2, <1>3
<1>5. e = s
  BY <1>1, <1>3, <1>4, SeqEqual
<1> QED
  BY <1>5 DEF e, s

\* What a step of the window that prints nothing leaves alone.
LEMMA LogStays ==
    ASSUME LogInv, UNCHANGED Log!logVars, added' = added
    PROVE  /\ buffers' \in [Log!Streams -> [Writers -> Line]] /\ printed' \in [Writers -> Nat]
           /\ BuffersWhole' /\ Log!LinesWhole' /\ Log!LastLinesKept'
  BY DEF LogInv, LogTyped, Log!logVars, BuffersWhole, Buffered, Log!LinesWhole,
         Log!LastLinesKept

\* A line comes.
LEMMA LogAdds ==
    ASSUME LogInv, NEW x \in Line, Whole(x), Log!AddLine(x),
           UNCHANGED <<session, reading, rows, row_version, offset, dragging, missed>>
    PROVE  /\ PanelTyped' /\ Log!LinesWhole' /\ Log!LastLinesKept' /\ ReadNow' /\ RowsNow'
<1>1. /\ lines' = Log!LastOf(RingSize, Append(lines, x)) /\ version' = version + 1
      /\ disk' = [i \in DOMAIN disk |-> Append(disk[i], x)]
      /\ added' = Append(added, x) /\ unread' = TRUE
  BY DEF Log!AddLine
<1>2. /\ lines' \in Seq(Line) /\ added' \in Seq(Line)
      /\ Log!LinesWhole' /\ lines' = Log!LastOf(RingSize, added')
  BY <1>1, LogLines
<1>3. /\ disk' \in Seq(Seq(Line)) /\ Len(disk') <= 1 /\ (disk' # <<>> <=> disk # <<>>)
      /\ DiskKept'
  BY <1>1, DiskGrows
<1>4. version' \in Nat /\ version' > version
  BY <1>1 DEF LogInv, LogTyped, PanelTyped
<1>5. ReadNow' /\ RowsNow' /\ row_version' \in 0 .. version'
  BY <1>1, <1>4, DrawerWaits
<1>6. Log!LastLinesKept'
  BY <1>2, <1>3 DEF LogInv, Log!LastLinesKept, DiskKept
<1>7. PanelTyped'
  BY <1>1, <1>2, <1>3, <1>4, <1>5 DEF LogInv, LogTyped, PanelTyped
<1> QED
  BY <1>2, <1>5, <1>6, <1>7

LEMMA LogEnds ==
    ASSUME LogInv, NEW t \in Writers, Log!EndLine(t)
    PROVE  LogInv'
<1>1. PICK s \in Log!Streams :
        Log!AddLine(buffers[s][t]) /\ buffers' = [buffers EXCEPT ![s][t] = <<>>]
  BY DEF Log!EndLine, Log!BuffersWith
<1>2. UNCHANGED <<printed, session, reading, rows, row_version, offset, dragging, missed>>
  BY DEF Log!EndLine, Log!drawerVars
<1>3. /\ buffers \in [Log!Streams -> [Writers -> Line]] /\ printed \in [Writers -> Nat]
  BY DEF LogInv, LogTyped
<1>4. buffers[s][t] \in Line /\ Buffered(s, t)
  BY <1>3 DEF LogInv, BuffersWhole
<1>5. Whole(buffers[s][t])
  BY <1>4 DEF Buffered, Whole
<1>6. PanelTyped' /\ Log!LinesWhole' /\ Log!LastLinesKept' /\ ReadNow' /\ RowsNow'
  BY <1>1, <1>2, <1>4, <1>5, LogAdds
<1>7. <<>> \in Line /\ DOMAIN <<>> = {}
  BY EmptySeq DEF Line
<1>8. /\ buffers' \in [Log!Streams -> [Writers -> Line]] /\ buffers'[s][t] = <<>>
      /\ \A s2 \in Log!Streams, t2 \in Writers :
            <<s2, t2>> # <<s, t>> => buffers'[s2][t2] = buffers[s2][t2]
  BY <1>1, <1>3, <1>7
<1>9. BuffersWhole'
  <2> SUFFICES ASSUME NEW s2 \in Log!Streams, NEW t2 \in Writers
               PROVE  Buffered(s2, t2)'
    BY DEF BuffersWhole
  <2>1. CASE s2 = s /\ t2 = t
    BY <1>7, <1>8, <2>1 DEF Buffered
  <2>2. CASE <<s2, t2>> # <<s, t>>
    BY <1>2, <1>8, <2>2 DEF LogInv, BuffersWhole, Buffered
  <2> QED
    BY <2>1, <2>2
<1> QED
  BY <1>2, <1>3, <1>6, <1>8, <1>9 DEF LogInv, LogTyped

LEMMA LogCopies ==
    ASSUME LogInv, Log!Copy
    PROVE  LogInv'
<1>1. /\ Log!AddLine(Log!Says)
      /\ UNCHANGED <<buffers, printed, session, reading, rows, row_version, offset,
                     dragging, missed>>
  BY DEF Log!Copy, Log!drawerVars
<1>2. PanelTyped' /\ Log!LinesWhole' /\ Log!LastLinesKept' /\ ReadNow' /\ RowsNow'
  BY <1>1, SaysWhole, LogAdds
<1>3. /\ buffers' \in [Log!Streams -> [Writers -> Line]] /\ printed' \in [Writers -> Nat]
      /\ BuffersWhole'
  BY <1>1 DEF LogInv, LogTyped, BuffersWhole, Buffered
<1> QED
  BY <1>2, <1>3 DEF LogInv, LogTyped

LEMMA LogClears ==
    ASSUME LogInv, Log!Clear
    PROVE  LogInv'
<1> DEFINE x == Log!Says
<1>1. /\ lines' = <<x>> /\ added' = <<x>> /\ version' = version + 2 /\ unread' = TRUE
      /\ disk' = [i \in DOMAIN disk |-> Append(disk[i], x)]
      /\ UNCHANGED <<buffers, printed, session, reading, rows, row_version, offset,
                     dragging, missed>>
  BY DEF Log!Clear, Log!drawerVars
<1>2. x \in Line /\ Whole(x)
  BY SaysWhole
<1> HIDE DEF x
<1>3. <<x>> \in Seq(Line) /\ DOMAIN <<x>> = {1} /\ <<x>>[1] = x
  BY <1>2
<1>4. Log!LinesWhole' /\ lines' = Log!LastOf(RingSize, added')
  <2>1. \A i \in DOMAIN added' : Whole(added'[i])
    BY <1>1, <1>2, <1>3
  <2> QED
    BY <1>1, <1>2, <2>1, LastOfOne DEF Log!LinesWhole, Whole
<1>5. /\ disk' \in Seq(Seq(Line)) /\ Len(disk') <= 1 /\ (disk' # <<>> <=> disk # <<>>)
      /\ DiskKept'
  BY <1>1, <1>2, DiskGrows
<1>6. version' \in Nat /\ version' > version
  BY <1>1 DEF LogInv, LogTyped, PanelTyped
<1>7. ReadNow' /\ RowsNow' /\ row_version' \in 0 .. version'
  BY <1>1, <1>6, DrawerWaits
<1>8. Log!LastLinesKept'
  BY <1>1, <1>4, <1>5 DEF LogInv, Log!LastLinesKept, DiskKept
<1>9. PanelTyped'
  BY <1>1, <1>3, <1>5, <1>6, <1>7 DEF LogInv, LogTyped, PanelTyped
<1>10. /\ buffers' \in [Log!Streams -> [Writers -> Line]] /\ printed' \in [Writers -> Nat]
       /\ BuffersWhole'
  BY <1>1 DEF LogInv, LogTyped, BuffersWhole, Buffered
<1> QED
  BY <1>4, <1>7, <1>8, <1>9, <1>10 DEF LogInv, LogTyped

LEMMA LogToggles ==
    ASSUME LogInv, Log!Toggle
    PROVE  LogInv'
<1> DEFINE x == Log!Says
<1>1. /\ lines' = Log!LastOf(RingSize, Append(lines, x)) /\ version' = version + 1
      /\ added' = Append(added, x) /\ unread' = TRUE /\ session' \in BOOLEAN
      /\ disk' = IF session' THEN <<<<x>>>> ELSE <<>>
      /\ UNCHANGED <<buffers, printed, reading, rows, row_version, offset, dragging, missed>>
  BY DEF Log!Toggle, Log!drawerVars
<1>2. x \in Line /\ Whole(x) /\ added \in Seq(Line)
  BY SaysWhole DEF LogInv, LogTyped, PanelTyped
<1> HIDE DEF x
<1>3. /\ lines' \in Seq(Line) /\ added' \in Seq(Line)
      /\ Log!LinesWhole' /\ lines' = Log!LastOf(RingSize, added')
  BY <1>1, <1>2, LogLines
<1>4. /\ disk' \in Seq(Seq(Line)) /\ Len(disk') <= 1 /\ (session' <=> disk' # <<>>)
      /\ disk' # <<>> => disk'[1] = <<x>>
  <2>1. CASE session'
    <3>1. <<x>> \in Seq(Line)
      BY <1>2
    <3> QED
      BY <1>1, <2>1, <3>1
  <2>2. CASE ~session'
    BY <1>1, <2>2, EmptySeq
  <2> QED
    BY <1>1, <2>1, <2>2
<1>5. Log!LastLinesKept'
  <2>1. Log!IsSuffix(<<x>>, added')
    BY <1>1, <1>2, SuffixLast
  <2> QED
    BY <1>3, <1>4, <2>1 DEF Log!LastLinesKept
<1>6. version' \in Nat /\ version' > version
  BY <1>1 DEF LogInv, LogTyped, PanelTyped
<1>7. ReadNow' /\ RowsNow' /\ row_version' \in 0 .. version'
  BY <1>1, <1>6, DrawerWaits
<1>8. PanelTyped'
  BY <1>1, <1>3, <1>4, <1>6, <1>7 DEF LogInv, LogTyped, PanelTyped
<1>9. /\ buffers' \in [Log!Streams -> [Writers -> Line]] /\ printed' \in [Writers -> Nat]
      /\ BuffersWhole'
  BY <1>1 DEF LogInv, LogTyped, BuffersWhole, Buffered
<1> QED
  BY <1>3, <1>5, <1>7, <1>8, <1>9 DEF LogInv, LogTyped

LEMMA LogReads ==
    ASSUME LogInv, Log!Read
    PROVE  LogInv'
<1>1. /\ reading' = <<lines>> /\ unread' = FALSE
      /\ UNCHANGED <<Log!logVars, rows, row_version, offset, dragging, added, missed>>
  BY DEF Log!Read
<1>2. lines \in Seq(Line) /\ UNCHANGED <<lines, version, disk, session>>
  BY <1>1 DEF LogInv, LogTyped, PanelTyped, Log!logVars
<1>3. reading' \in Seq(Seq(Line)) /\ Len(reading') <= 1 /\ reading'[1] = lines
  BY <1>1, <1>2
<1>4. PanelTyped'
  BY <1>1, <1>2, <1>3 DEF LogInv, LogTyped, PanelTyped
<1>5. ReadNow' /\ RowsNow'
  BY <1>1, <1>2, <1>3 DEF LogInv, ReadNow, RowsNow
<1> QED
  BY <1>1, <1>4, <1>5, LogStays DEF LogInv, LogTyped

\* Where the drawer scrolls to.
LEMMA ScrolledInside ==
    ASSUME LogInv, NEW n \in Nat
    PROVE  /\ Log!MaxScroll(n) \in Nat
           /\ Log!Scrolled(Log!MaxScroll(n)) \in 0 .. Log!MaxScroll(n)
<1> DEFINE m == Log!MaxScroll(n)
           c == Log!Max({0, offset})
<1>1. offset \in Int
  BY DEF LogInv, LogTyped, PanelTyped
<1>2. m = IF 0 >= n - 1 THEN 0 ELSE n - 1
  BY LogMax DEF Log!MaxScroll, Log!Visible
<1>3. m \in Nat
  BY <1>2
<1>4. c = IF 0 >= offset THEN 0 ELSE offset
  BY <1>1, LogMax
<1>5. c \in Nat
  BY <1>1, <1>4
<1> HIDE DEF m, c
<1>6. Log!Min({c, m}) = IF c <= m THEN c ELSE m
  BY <1>3, <1>5, LogMin
<1>7. Log!Clamped(offset, m) = Log!Min({c, m})
  BY DEF Log!Clamped, c
<1>8. Log!Scrolled(m) = m \/ Log!Scrolled(m) = Log!Clamped(offset, m)
  BY DEF Log!Scrolled
<1>9. Log!Scrolled(m) \in 0 .. m
  BY <1>3, <1>5, <1>6, <1>7, <1>8
<1> QED
  BY <1>3, <1>9 DEF m

LEMMA LogDraws ==
    ASSUME LogInv, Log!Draw
    PROVE  /\ LogInv'
           /\ offset' \in 0 .. Log!MaxScroll(Len(rows'))
           /\ (version # row_version /\ ~dragging) => offset' = Log!MaxScroll(Len(rows'))
<1>1. /\ reading # <<>> /\ rows' = IF version # row_version THEN reading[1] ELSE rows
      /\ row_version' = version /\ offset' = Log!Scrolled(Log!MaxScroll(Len(rows')))
      /\ reading' = <<>> /\ missed' = IF version # row_version THEN unread ELSE missed
      /\ UNCHANGED <<Log!logVars, dragging, added, unread>>
  BY DEF Log!Draw, Log!NotReading
<1>2. UNCHANGED <<lines, version, disk, session>>
  BY <1>1 DEF Log!logVars
<1>3. reading[1] \in Seq(Line) /\ rows \in Seq(Line)
  BY <1>1, OneAtMost DEF LogInv, LogTyped, PanelTyped
<1>4. rows' \in Seq(Line) /\ Len(rows') \in Nat
  BY <1>1, <1>3, LenProperties
<1>5. /\ offset' \in 0 .. Log!MaxScroll(Len(rows')) /\ Log!MaxScroll(Len(rows')) \in Nat
      /\ (version # row_version /\ ~dragging) => offset' = Log!MaxScroll(Len(rows'))
  <2>1. (version # row_version /\ ~dragging) => offset' = Log!MaxScroll(Len(rows'))
    BY <1>1 DEF Log!Scrolled
  <2> QED
    BY <1>1, <1>4, <2>1, ScrolledInside
<1>6. PanelTyped'
  <2>1. /\ reading' \in Seq(Seq(Line)) /\ Len(reading') <= 1
    BY <1>1, EmptySeq
  <2>2. row_version' \in 0 .. version' /\ offset' \in Int
    BY <1>1, <1>2, <1>5 DEF LogInv, LogTyped, PanelTyped
  <2>3. {session', dragging', unread', missed'} \subseteq BOOLEAN
    BY <1>1, <1>2 DEF LogInv, LogTyped, PanelTyped
  <2> QED
    BY <1>1, <1>2, <1>4, <2>1, <2>2, <2>3 DEF LogInv, LogTyped, PanelTyped
<1>7. ReadNow' /\ RowsNow'
  BY <1>1, <1>2 DEF LogInv, ReadNow, RowsNow
<1> QED
  BY <1>1, <1>5, <1>6, <1>7, LogStays DEF LogInv, LogTyped

\* The wheel and the thumb.
LEMMA LogScrolls ==
    ASSUME LogInv, Log!Wheel \/ Log!Drag \/ Log!Release
    PROVE  LogInv'
<1>1. UNCHANGED <<Log!logVars, reading, rows, row_version, added, unread, missed>>
  BY DEF Log!Wheel, Log!Drag, Log!Release
<1>2. UNCHANGED <<lines, version, disk, session>>
  BY <1>1 DEF Log!logVars
<1>3. dragging' \in BOOLEAN
  BY DEF LogInv, LogTyped, PanelTyped, Log!Wheel, Log!Drag, Log!Release
<1>4. offset' \in Int
  <2>1. CASE Log!Wheel
    BY <2>1 DEF LogInv, LogTyped, PanelTyped, Log!Wheel
  <2>2. CASE Log!Drag
    BY <2>2 DEF Log!Drag
  <2>3. CASE Log!Release
    BY <2>3 DEF LogInv, LogTyped, PanelTyped, Log!Release
  <2> QED
    BY <2>1, <2>2, <2>3
<1>5. PanelTyped'
  BY <1>1, <1>2, <1>3, <1>4 DEF LogInv, LogTyped, PanelTyped
<1>6. ReadNow' /\ RowsNow'
  BY <1>1, <1>2 DEF LogInv, ReadNow, RowsNow
<1> QED
  BY <1>1, <1>5, <1>6, LogStays DEF LogInv, LogTyped

LEMMA LogStep ==
    ASSUME LogInv, Log!Next
    PROVE  LogInv'
  BY LogWrites, LogEnds, LogCopies, LogClears, LogToggles, LogReads, LogDraws,
     LogScrolls
  DEF Log!Next

LEMMA LogStill ==
    ASSUME LogInv, UNCHANGED logV
    PROVE  LogInv'
  BY DEF LogInv, LogTyped, PanelTyped, logV, BuffersWhole, Buffered, Log!LinesWhole,
         Log!LastLinesKept, ReadNow, RowsNow

\* What follows.
LEMMA LogServes ==
    ASSUME LogInv
    PROVE  Log!TypeOK /\ Log!LinesWhole /\ Log!LastLinesKept /\ Log!RowsCurrent
<1>1. Len(lines) <= RingSize
  <2>1. added \in Seq(Line) /\ RingSize \in Nat /\ lines = Log!LastOf(RingSize, added)
    BY ProgramAssumption DEF LogInv, LogTyped, PanelTyped, Log!LastLinesKept
  <2> QED
    BY <2>1, LastOfIs
<1>2. Log!TypeOK
  BY <1>1 DEF LogInv, LogTyped, PanelTyped, Log!TypeOK
<1>3. Log!RowsCurrent
  BY DEF LogInv, RowsNow, Log!RowsCurrent
<1> QED
  BY <1>2, <1>3 DEF LogInv

(***************************************************************************)
(* The settings and the launch ping.                                       *)
(***************************************************************************)

SettingKeys == {"telemetry_enabled", "use_computer_name", "bezel_r", "record_format",
         "screenshot_resize_height_cm"}

\* What the height can be.
Heights == (1 .. 100) \cup {1002}

\* Settings that are in their ranges.
Settled(s) ==
    /\ s \in [SettingKeys -> Int]
    /\ s["telemetry_enabled"] \in 0 .. 1 /\ s["use_computer_name"] \in 0 .. 1
    /\ s["bezel_r"] \in 18 .. 160 /\ s["record_format"] \in 0 .. 1
    /\ s["screenshot_resize_height_cm"] \in Heights

NameOf(s) == IF s["use_computer_name"] = 1 THEN "computer" ELSE "MSEndpointMgr"

LaunchPing == [id : Nat, losses : Nat, before : [intact : BOOLEAN, chosen : [SettingKeys -> Int]]]

SettingsTyped ==
    /\ Settled(settings) /\ Settled(settings_chosen)
    /\ DOMAIN ini \subseteq SettingKeys /\ \A k \in DOMAIN ini : ini[k] \in Int
    /\ settings_pc \in {"off", "name", "window", "ping", "id", "run", "save"}
    /\ idfile \in Seq(Nat) /\ Len(idfile) <= 1
    /\ pings \in Seq(LaunchPing) /\ launches \in Nat /\ losses \in Nat
    /\ before \in [intact : BOOLEAN, chosen : [SettingKeys -> Int]]
    /\ intact \in BOOLEAN

\* The file has what was chosen, and a launch finds it there.
FileHas ==
    /\ intact => Files!Load(ini) = settings_chosen
    /\ (settings_pc \in {"name", "window", "ping", "id"} /\ before.intact) =>
            intact /\ settings_chosen = before.chosen
    /\ (settings_pc = "window" /\ before.intact) => name = NameOf(before.chosen)
    /\ (settings_pc \in {"ping", "id"} /\ before.intact) =>
            settings = before.chosen /\ name = NameOf(before.chosen)
    /\ settings_pc \in {"ping", "id", "run", "save"} => settings_chosen = settings
    /\ settings_pc = "id" => Files!Load(ini)["telemetry_enabled"] = 1

\* The pings since the id was lost have the id of the file.
IdsOfFile ==
    /\ \A i \in DOMAIN pings :
        /\ pings[i].losses <= losses
        /\ pings[i].losses = losses => idfile # <<>> /\ pings[i].id = idfile[1]
    /\ settings_pc = "id" => idfile = <<>>

SettingsInv ==
    /\ SettingsTyped /\ FileHas /\ IdsOfFile /\ Files!PingsWanted /\ Files!SameIdentity

LEMMA FilesMax ==
    ASSUME NEW a \in Int, NEW b \in Int
    PROVE  Files!Max({a, b}) = IF a >= b THEN a ELSE b
<1>1. \E x \in {a, b} : \A y \in {a, b} : x >= y
  OBVIOUS
<1>2. Files!Max({a, b}) \in {a, b} /\ \A y \in {a, b} : Files!Max({a, b}) >= y
  BY <1>1 DEF Files!Max
<1> QED
  BY <1>2

LEMMA FilesMin ==
    ASSUME NEW a \in Int, NEW b \in Int
    PROVE  Files!Min({a, b}) = IF a <= b THEN a ELSE b
<1>1. \E x \in {a, b} : \A y \in {a, b} : x <= y
  OBVIOUS
<1>2. Files!Min({a, b}) \in {a, b} /\ \A y \in {a, b} : Files!Min({a, b}) <= y
  BY <1>1 DEF Files!Min
<1> QED
  BY <1>2

\* What is put in a range is in it, and what is there stays as it is.
LEMMA WithinIs ==
    ASSUME NEW x \in Int, NEW a \in Int, NEW b \in Int, a <= b
    PROVE  /\ Files!Within(x, <<a, b>>) \in a .. b
           /\ x \in a .. b => Files!Within(x, <<a, b>>) = x
<1> DEFINE m == Files!Max({x, a})
<1>1. m = IF x >= a THEN x ELSE a
  BY FilesMax
<1>2. m \in Int
  BY <1>1
<1>3. Files!Within(x, <<a, b>>) = Files!Min({m, b})
  BY DEF Files!Within
<1> HIDE DEF m
<1>4. Files!Min({m, b}) = IF m <= b THEN m ELSE b
  BY <1>2, FilesMin
<1> QED
  BY <1>1, <1>3, <1>4

LEMMA KeysAre ==
    /\ DOMAIN Files!Default = SettingKeys /\ Settled(Files!Default)
    /\ DOMAIN Files!Ranges = {"bezel_r", "record_format", "screenshot_resize_height_cm"}
    /\ Files!Ranges["bezel_r"] = <<18, 160>> /\ Files!Ranges["record_format"] = <<0, 1>>
    /\ Files!Ranges["screenshot_resize_height_cm"] = <<1, 100>>
<1>1. DOMAIN Files!Default = SettingKeys
  BY DEF Files!Default, SettingKeys
<1>2. /\ Files!Default["telemetry_enabled"] = 1 /\ Files!Default["use_computer_name"] = 0
      /\ Files!Default["bezel_r"] = 28 /\ Files!Default["record_format"] = 0
      /\ Files!Default["screenshot_resize_height_cm"] = 20
  BY DEF Files!Default
<1>3. Files!Default \in [SettingKeys -> Int]
  BY DEF Files!Default, SettingKeys
<1>4. Settled(Files!Default)
  BY <1>2, <1>3 DEF Settled, Heights
<1>5. /\ DOMAIN Files!Ranges = {"bezel_r", "record_format", "screenshot_resize_height_cm"}
      /\ Files!Ranges["bezel_r"] = <<18, 160>> /\ Files!Ranges["record_format"] = <<0, 1>>
      /\ Files!Ranges["screenshot_resize_height_cm"] = <<1, 100>>
  BY DEF Files!Ranges
<1> QED
  BY <1>1, <1>4, <1>5

\* What a line is read as.
LEMMA ReadIs ==
    ASSUME NEW raw \in Int
    PROVE  /\ Files!ReadValue("telemetry_enabled", raw) \in 0 .. 1
           /\ Files!ReadValue("use_computer_name", raw) \in 0 .. 1
           /\ Files!ReadValue("bezel_r", raw) \in 18 .. 160
           /\ Files!ReadValue("record_format", raw) \in 0 .. 1
           /\ Files!ReadValue("screenshot_resize_height_cm", raw) \in Heights
           /\ raw \in 0 .. 1 =>
                /\ Files!ReadValue("telemetry_enabled", raw) = raw
                /\ Files!ReadValue("use_computer_name", raw) = raw
                /\ Files!ReadValue("record_format", raw) = raw
           /\ raw \in 18 .. 160 => Files!ReadValue("bezel_r", raw) = raw
           /\ raw \in Heights => Files!ReadValue("screenshot_resize_height_cm", raw) = raw
<1>1. ASSUME NEW k \in Files!Switches
      PROVE  /\ Files!ReadValue(k, raw) \in 0 .. 1
             /\ raw \in 0 .. 1 => Files!ReadValue(k, raw) = raw
  <2>1. Files!ReadValue(k, raw) = IF raw \in {1, 1000} THEN 1 ELSE 0
    BY DEF Files!ReadValue, Files!Yes
  <2> QED
    BY <2>1
<1>2. "telemetry_enabled" \in Files!Switches /\ "use_computer_name" \in Files!Switches
  BY DEF Files!Switches
<1>3. /\ Files!Ranges["bezel_r"] = <<18, 160>> /\ Files!Default["bezel_r"] \in 18 .. 160
      /\ Files!Ranges["record_format"] = <<0, 1>> /\ Files!Default["record_format"] \in 0 .. 1
      /\ Files!Ranges["screenshot_resize_height_cm"] = <<1, 100>>
      /\ Files!Default["screenshot_resize_height_cm"] \in Heights
  BY KeysAre DEF Settled
<1>4. /\ Files!ReadValue("bezel_r", raw) \in 18 .. 160
      /\ raw \in 18 .. 160 => Files!ReadValue("bezel_r", raw) = raw
  <2>1. "bezel_r" \notin Files!Switches
    BY DEF Files!Switches
  <2>2. Files!ReadValue("bezel_r", raw) =
          IF raw \in {1000, 1001, 1002} THEN Files!Default["bezel_r"]
          ELSE Files!Within(raw, <<18, 160>>)
    BY <1>3, <2>1 DEF Files!ReadValue, Files!Words, Files!Yes, Files!Junk, Files!NotANumber
  <2>3. /\ Files!Within(raw, <<18, 160>>) \in 18 .. 160
        /\ raw \in 18 .. 160 => Files!Within(raw, <<18, 160>>) = raw
    BY WithinIs, SMTT(30)
  <2> QED
    BY <1>3, <2>2, <2>3
<1>5. /\ Files!ReadValue("record_format", raw) \in 0 .. 1
      /\ raw \in 0 .. 1 => Files!ReadValue("record_format", raw) = raw
  <2>1. "record_format" \notin Files!Switches
    BY DEF Files!Switches
  <2>2. Files!ReadValue("record_format", raw) =
          IF raw \in {1000, 1001, 1002} THEN Files!Default["record_format"]
          ELSE Files!Within(raw, <<0, 1>>)
    BY <1>3, <2>1 DEF Files!ReadValue, Files!Words, Files!Yes, Files!Junk, Files!NotANumber
  <2>3. /\ Files!Within(raw, <<0, 1>>) \in 0 .. 1
        /\ raw \in 0 .. 1 => Files!Within(raw, <<0, 1>>) = raw
    BY WithinIs, SMTT(30)
  <2> QED
    BY <1>3, <2>2, <2>3
<1>6. /\ Files!ReadValue("screenshot_resize_height_cm", raw) \in Heights
      /\ raw \in Heights => Files!ReadValue("screenshot_resize_height_cm", raw) = raw
  <2>1. "screenshot_resize_height_cm" \notin Files!Switches
    BY DEF Files!Switches
  <2>2. Files!ReadValue("screenshot_resize_height_cm", raw) =
          IF raw = 1002 THEN 1002
          ELSE IF raw \in {1000, 1001} THEN Files!Default["screenshot_resize_height_cm"]
          ELSE Files!Within(raw, <<1, 100>>)
    BY <1>3, <2>1 DEF Files!ReadValue, Files!Words, Files!Yes, Files!Junk, Files!NotANumber
  <2>3. /\ Files!Within(raw, <<1, 100>>) \in 1 .. 100
        /\ raw \in 1 .. 100 => Files!Within(raw, <<1, 100>>) = raw
    BY WithinIs, SMTT(30)
  <2> QED
    BY <1>3, <2>2, <2>3 DEF Heights
<1> QED
  BY <1>1, <1>2, <1>4, <1>5, <1>6

\* Whatever the file says, what is read is in range.
LEMMA LoadSettled ==
    ASSUME NEW f, DOMAIN f \subseteq SettingKeys, \A k \in DOMAIN f : f[k] \in Int
    PROVE  Settled(Files!Load(f))
<1> DEFINE l == Files!Load(f)
<1>1. l = [k \in SettingKeys |->
              IF k \in DOMAIN f THEN Files!ReadValue(k, f[k]) ELSE Files!Default[k]]
  BY KeysAre DEF Files!Load
<1> HIDE DEF l
<1>2. /\ DOMAIN l = SettingKeys /\ l = [k \in SettingKeys |-> l[k]]
      /\ \A k \in SettingKeys :
            l[k] = IF k \in DOMAIN f THEN Files!ReadValue(k, f[k]) ELSE Files!Default[k]
  BY <1>1
<1>3. Settled(Files!Default)
  BY KeysAre
<1>4. /\ l["telemetry_enabled"] \in 0 .. 1 /\ l["use_computer_name"] \in 0 .. 1
      /\ l["bezel_r"] \in 18 .. 160 /\ l["record_format"] \in 0 .. 1
      /\ l["screenshot_resize_height_cm"] \in Heights
  <2>1. \A k \in SettingKeys : k \notin DOMAIN f => l[k] = Files!Default[k]
    BY <1>2
  <2>2. \A k \in SettingKeys : k \in DOMAIN f => l[k] = Files!ReadValue(k, f[k]) /\ f[k] \in Int
    BY <1>2
  <2>3. /\ "telemetry_enabled" \in SettingKeys /\ "use_computer_name" \in SettingKeys
        /\ "bezel_r" \in SettingKeys
        /\ "record_format" \in SettingKeys /\ "screenshot_resize_height_cm" \in SettingKeys
    BY DEF SettingKeys
  <2>4. l["telemetry_enabled"] \in 0 .. 1
    BY <1>3, <2>1, <2>2, <2>3, ReadIs DEF Settled
  <2>5. l["use_computer_name"] \in 0 .. 1
    BY <1>3, <2>1, <2>2, <2>3, ReadIs DEF Settled
  <2>6. l["bezel_r"] \in 18 .. 160
    BY <1>3, <2>1, <2>2, <2>3, ReadIs DEF Settled
  <2>7. l["record_format"] \in 0 .. 1
    BY <1>3, <2>1, <2>2, <2>3, ReadIs DEF Settled
  <2>8. l["screenshot_resize_height_cm"] \in Heights
    BY <1>3, <2>1, <2>2, <2>3, ReadIs DEF Settled
  <2> QED
    BY <2>4, <2>5, <2>6, <2>7, <2>8
<1>5. \A k \in SettingKeys : l[k] \in Int
  BY <1>4 DEF SettingKeys, Heights
<1>6. l \in [SettingKeys -> Int]
  BY <1>2, <1>5
<1>7. Settled(l)
  BY <1>4, <1>6 DEF Settled
<1> QED
  BY <1>7 DEF l

\* Settings that were written whole are read back.
LEMMA LoadWritten ==
    ASSUME NEW s, Settled(s)
    PROVE  Files!Load(s) = s
<1>1. s \in [SettingKeys -> Int] /\ DOMAIN s = SettingKeys
  BY DEF Settled
<1>2. Files!Load(s) = [k \in SettingKeys |-> Files!ReadValue(k, s[k])]
  BY <1>1, KeysAre DEF Files!Load
<1>3. \A k \in SettingKeys : Files!ReadValue(k, s[k]) = s[k]
  <2>1. Files!ReadValue("telemetry_enabled", s["telemetry_enabled"]) = s["telemetry_enabled"]
    BY ReadIs DEF Settled
  <2>2. Files!ReadValue("use_computer_name", s["use_computer_name"]) = s["use_computer_name"]
    BY ReadIs DEF Settled
  <2>3. Files!ReadValue("bezel_r", s["bezel_r"]) = s["bezel_r"]
    BY ReadIs DEF Settled
  <2>4. Files!ReadValue("record_format", s["record_format"]) = s["record_format"]
    BY ReadIs DEF Settled
  <2>5. Files!ReadValue("screenshot_resize_height_cm", s["screenshot_resize_height_cm"])
          = s["screenshot_resize_height_cm"]
    BY ReadIs DEF Settled, Heights
  <2> QED
    BY <2>1, <2>2, <2>3, <2>4, <2>5 DEF SettingKeys
<1> QED
  BY <1>1, <1>2, <1>3

LEMMA SettingsBegin ==
    ASSUME Files!Init
    PROVE  SettingsInv
<1>1. <<>> \in Seq(Nat) /\ <<>> \in Seq(LaunchPing) /\ DOMAIN <<>> = {} /\ Len(<<>>) = 0
  BY EmptySeq
<1>2. /\ Settled(Files!Default) /\ Files!Default \in [SettingKeys -> Int]
      /\ DOMAIN Files!Default = SettingKeys
  BY KeysAre DEF Settled
<1>3. SettingsTyped
  <2>1. before \in [intact : BOOLEAN, chosen : [SettingKeys -> Int]]
    BY <1>2 DEF Files!Init
  <2>2. DOMAIN ini \subseteq SettingKeys /\ \A k \in DOMAIN ini : ini[k] \in Int
    BY <1>1 DEF Files!Init
  <2>3. settings_pc \in {"off", "name", "window", "ping", "id", "run", "save"}
    BY DEF Files!Init
  <2>4. intact \in BOOLEAN
    BY DEF Files!Init
  <2>5. idfile = <<>> /\ pings = <<>> /\ launches = 0 /\ losses = 0
    BY DEF Files!Init
  <2>6. idfile \in Seq(Nat) /\ Len(idfile) <= 1 /\ pings \in Seq(LaunchPing)
    BY <1>1, <2>5
  <2>7. launches \in Nat /\ losses \in Nat
    BY <2>5
  <2>8. Settled(settings) /\ Settled(settings_chosen)
    BY <1>2 DEF Files!Init
  <2> QED
    BY <2>1, <2>2, <2>3, <2>8, <2>4, <2>6, <2>7 DEF SettingsTyped
<1>4. Files!Load(<<>>) = Files!Default
  <2>1. Files!Load(<<>>) = [k \in SettingKeys |-> Files!Default[k]]
    BY <1>1, <1>2 DEF Files!Load
  <2> QED
    BY <1>2, <2>1
<1>5. FileHas
  BY <1>4 DEF Files!Init, FileHas
<1>6. IdsOfFile /\ Files!PingsWanted /\ Files!SameIdentity
  BY <1>1 DEF Files!Init, IdsOfFile, Files!PingsWanted, Files!SameIdentity
<1> QED
  BY <1>3, <1>5, <1>6 DEF SettingsInv

\* Without a ping, and with the id that there was.
LEMMA PingsStay ==
    ASSUME SettingsInv, UNCHANGED <<idfile, pings, losses>>, settings_pc' = "id" => idfile = <<>>
    PROVE  /\ IdsOfFile' /\ Files!PingsWanted' /\ Files!SameIdentity'
           /\ idfile' \in Seq(Nat) /\ Len(idfile') <= 1
           /\ pings' \in Seq(LaunchPing) /\ losses' \in Nat
  BY DEF SettingsInv, SettingsTyped, IdsOfFile, Files!PingsWanted, Files!SameIdentity

LEMMA SettingsStarts ==
    ASSUME SettingsInv, Files!Start
    PROVE  SettingsInv'
<1>1. /\ launches' = launches + 1 /\ settings_pc' = "name"
      /\ before' = [intact |-> intact, chosen |-> settings_chosen]
      /\ UNCHANGED <<ini, idfile, settings_chosen, intact, losses, clicks, settings, name, pings>>
  BY DEF Files!Start, Files!FilesKept
<1>2. before' \in [intact : BOOLEAN, chosen : [SettingKeys -> Int]]
  BY <1>1 DEF SettingsInv, SettingsTyped, Settled
<1>3. SettingsTyped'
  BY <1>1, <1>2, PingsStay DEF SettingsInv, SettingsTyped
<1>4. FileHas'
  BY <1>1 DEF SettingsInv, FileHas
<1> QED
  BY <1>1, <1>3, <1>4, PingsStay DEF SettingsInv

LEMMA SettingsNamed ==
    ASSUME SettingsInv, Files!ReadName
    PROVE  SettingsInv'
<1>1. /\ settings_pc = "name" /\ settings_pc' = "window"
      /\ name' = NameOf(Files!Load(ini))
      /\ UNCHANGED <<ini, idfile, settings_chosen, intact, losses, clicks, settings, pings,
                     launches, before>>
  BY DEF Files!ReadName, Files!FilesKept, NameOf
<1>2. SettingsTyped'
  BY <1>1, PingsStay DEF SettingsInv, SettingsTyped
<1>3. FileHas'
  BY <1>1 DEF SettingsInv, FileHas
<1> QED
  BY <1>1, <1>2, <1>3, PingsStay DEF SettingsInv

LEMMA SettingsRead ==
    ASSUME SettingsInv, Files!ReadSettings
    PROVE  SettingsInv'
<1>1. /\ settings_pc = "window" /\ settings_pc' = "ping"
      /\ settings' = Files!Load(ini) /\ settings_chosen' = settings'
      /\ UNCHANGED <<ini, name, idfile, pings, launches, clicks, before, intact, losses>>
  BY DEF Files!ReadSettings
<1>2. Settled(settings')
  BY <1>1, LoadSettled DEF SettingsInv, SettingsTyped
<1>3. SettingsTyped'
  BY <1>1, <1>2, PingsStay DEF SettingsInv, SettingsTyped
<1>4. FileHas'
  BY <1>1 DEF SettingsInv, FileHas
<1> QED
  BY <1>1, <1>3, <1>4, PingsStay DEF SettingsInv

\* A ping of a launch that may send it, with the one id there is.
LEMMA PingAdded ==
    ASSUME SettingsInv, NEW n \in Nat,
           pings' = Append(pings, [id |-> n, losses |-> losses, before |-> before]),
           before.intact => before.chosen["telemetry_enabled"] = 1,
           \A i \in DOMAIN pings : pings[i].losses = losses => pings[i].id = n
    PROVE  /\ pings' \in Seq(LaunchPing) /\ Files!PingsWanted' /\ Files!SameIdentity'
           /\ \A i \in DOMAIN pings' :
                /\ pings'[i].losses <= losses
                /\ pings'[i].losses = losses => pings'[i].id = n
<1> DEFINE p == [id |-> n, losses |-> losses, before |-> before]
           l == Len(pings)
<1>1. /\ pings \in Seq(LaunchPing) /\ losses \in Nat
      /\ before \in [intact : BOOLEAN, chosen : [SettingKeys -> Int]]
  BY DEF SettingsInv, SettingsTyped
<1>2. p \in LaunchPing /\ p.id = n /\ p.losses = losses /\ p.before = before
  BY <1>1 DEF LaunchPing
<1> HIDE DEF p
<1>3. /\ pings' \in Seq(LaunchPing) /\ l \in Nat /\ DOMAIN pings = 1 .. l
      /\ DOMAIN pings' = 1 .. l + 1 /\ pings'[l + 1] = p
      /\ \A i \in 1 .. l : pings'[i] = pings[i]
  BY <1>1, <1>2, AppendProperties, LenProperties DEF p
<1>4. \A i \in 1 .. l : /\ pings[i].losses <= losses
                        /\ pings[i].losses = losses => pings[i].id = n
  BY <1>3 DEF SettingsInv, IdsOfFile
<1>5. \A i \in 1 .. l + 1 : /\ pings'[i].losses <= losses
                            /\ pings'[i].losses = losses => pings'[i].id = n
  BY <1>1, <1>2, <1>3, <1>4
<1>6. Files!PingsWanted'
  <2> SUFFICES ASSUME NEW i \in 1 .. l + 1, pings'[i].before.intact
               PROVE  pings'[i].before.chosen.telemetry_enabled = 1
    BY <1>3 DEF Files!PingsWanted
  <2>1. CASE i = l + 1
    BY <1>2, <1>3, <2>1
  <2>2. CASE i \in 1 .. l
    BY <1>3, <2>2 DEF SettingsInv, Files!PingsWanted
  <2> QED
    BY <1>3, <2>1, <2>2
<1>7. Files!SameIdentity'
  <2> SUFFICES ASSUME NEW i \in 1 .. l + 1, NEW j \in 1 .. l + 1,
                      pings'[i].losses = pings'[j].losses
               PROVE  pings'[i].id = pings'[j].id
    BY <1>3 DEF Files!SameIdentity
  <2>1. CASE pings'[i].losses = losses
    BY <1>5, <2>1
  <2>2. CASE pings'[i].losses # losses
    <3>1. i \in 1 .. l /\ j \in 1 .. l
      BY <1>2, <1>3, <2>2
    <3> QED
      BY <1>3, <3>1 DEF SettingsInv, Files!SameIdentity
  <2> QED
    BY <2>1, <2>2
<1> QED
  BY <1>3, <1>5, <1>6, <1>7

LEMMA SettingsPing ==
    ASSUME SettingsInv, Files!SendPing
    PROVE  SettingsInv'
<1> DEFINE wanted == Files!Load(ini)["telemetry_enabled"]
<1>1. /\ settings_pc = "ping"
      /\ UNCHANGED <<ini, idfile, settings_chosen, intact, losses, clicks, settings, name,
                     launches, before>>
  BY DEF Files!SendPing, Files!FilesKept
<1>2. wanted \in 0 .. 1
  BY LoadSettled DEF SettingsInv, SettingsTyped, Settled
<1>3. before.intact => before.chosen["telemetry_enabled"] = wanted
  BY <1>1 DEF SettingsInv, FileHas
<1>4. CASE wanted = 0
  <2>1. settings_pc' = "run" /\ UNCHANGED pings
    BY <1>4 DEF Files!SendPing
  <2>2. SettingsTyped'
    BY <1>1, <2>1, PingsStay DEF SettingsInv, SettingsTyped
  <2>3. FileHas'
    BY <1>1, <2>1 DEF SettingsInv, FileHas
  <2> QED
    BY <1>1, <2>1, <2>2, <2>3, PingsStay DEF SettingsInv
<1>5. CASE wanted = 1 /\ idfile # <<>>
  <2>1. /\ settings_pc' = "run"
        /\ pings' = Append(pings, [id |-> idfile[1], losses |-> losses, before |-> before])
    BY <1>5 DEF Files!SendPing, Files!Ping
  <2>2. idfile[1] \in Nat
    <3>1. idfile \in Seq(Nat)
      BY DEF SettingsInv, SettingsTyped
    <3>2. Len(idfile) \in Nat /\ Len(idfile) # 0
      BY <1>5, <3>1, EmptySeq, LenProperties
    <3> QED
      BY <3>1, <3>2, ElementOfSeq
  <2>3. \A i \in DOMAIN pings : pings[i].losses = losses => pings[i].id = idfile[1]
    BY DEF SettingsInv, IdsOfFile
  <2>4. /\ pings' \in Seq(LaunchPing) /\ Files!PingsWanted' /\ Files!SameIdentity'
        /\ \A i \in DOMAIN pings' :
                /\ pings'[i].losses <= losses
                /\ pings'[i].losses = losses => pings'[i].id = idfile[1]
    BY <1>3, <1>5, <2>1, <2>2, <2>3, PingAdded
  <2>5. IdsOfFile'
    BY <1>1, <1>5, <2>1, <2>4 DEF IdsOfFile
  <2>6. SettingsTyped'
    BY <1>1, <2>1, <2>4 DEF SettingsInv, SettingsTyped
  <2>7. FileHas'
    BY <1>1, <2>1 DEF SettingsInv, FileHas
  <2> QED
    BY <2>4, <2>5, <2>6, <2>7 DEF SettingsInv
<1>6. CASE wanted = 1 /\ idfile = <<>>
  <2>1. settings_pc' = "id" /\ UNCHANGED pings
    BY <1>6 DEF Files!SendPing
  <2>2. SettingsTyped'
    BY <1>1, <1>6, <2>1, PingsStay DEF SettingsInv, SettingsTyped
  <2>3. FileHas'
    BY <1>1, <1>6, <2>1 DEF SettingsInv, FileHas
  <2> QED
    BY <1>1, <1>6, <2>1, <2>2, <2>3, PingsStay DEF SettingsInv
<1> QED
  BY <1>2, <1>4, <1>5, <1>6

\* As long as there is no id, no ping has been sent since it was lost.
LEMMA SettingsId ==
    ASSUME SettingsInv, Files!MakeId
    PROVE  SettingsInv'
<1>1. /\ settings_pc = "id" /\ settings_pc' = "run"
      /\ pings' = Append(pings, [id |-> launches, losses |-> losses, before |-> before])
      /\ \/ idfile' = <<launches>> /\ losses' = losses
         \/ idfile' = <<>> /\ losses' = losses + 1
      /\ UNCHANGED <<ini, settings, name, launches, clicks, before, settings_chosen, intact>>
  BY DEF Files!MakeId, Files!Ping
<1>2. launches \in Nat /\ losses \in Nat /\ idfile = <<>>
  BY <1>1 DEF SettingsInv, SettingsTyped, IdsOfFile
<1>3. before.intact => before.chosen["telemetry_enabled"] = 1
  BY <1>1 DEF SettingsInv, FileHas
<1>4. \A i \in DOMAIN pings : pings[i].losses = losses => pings[i].id = launches
  BY <1>2 DEF SettingsInv, IdsOfFile
<1>5. /\ pings' \in Seq(LaunchPing) /\ Files!PingsWanted' /\ Files!SameIdentity'
      /\ \A i \in DOMAIN pings' :
                /\ pings'[i].losses <= losses
                /\ pings'[i].losses = losses => pings'[i].id = launches
  BY <1>1, <1>2, <1>3, <1>4, PingAdded
<1>6. \A i \in DOMAIN pings' : pings'[i].losses \in Nat
  <2>1. \A i \in DOMAIN pings' : pings'[i] \in LaunchPing
    BY <1>5, ElementOfSeq, LenProperties
  <2> QED
    BY <2>1 DEF LaunchPing
<1>7. IdsOfFile' /\ idfile' \in Seq(Nat) /\ Len(idfile') <= 1 /\ losses' \in Nat
  <2>1. CASE idfile' = <<launches>> /\ losses' = losses
    <3>1. idfile' # <<>> /\ idfile'[1] = launches /\ idfile' \in Seq(Nat) /\ Len(idfile') = 1
      BY <1>2, <2>1
    <3> QED
      BY <1>1, <1>2, <1>5, <2>1, <3>1 DEF IdsOfFile
  <2>2. CASE idfile' = <<>> /\ losses' = losses + 1
    <3>1. \A i \in DOMAIN pings' : pings'[i].losses <= losses' /\ pings'[i].losses # losses'
      BY <1>2, <1>5, <1>6, <2>2
    <3> QED
      BY <1>1, <1>2, <2>2, <3>1, EmptySeq DEF IdsOfFile
  <2> QED
    BY <1>1, <2>1, <2>2
<1>8. SettingsTyped'
  BY <1>1, <1>5, <1>7 DEF SettingsInv, SettingsTyped
<1>9. FileHas'
  BY <1>1 DEF SettingsInv, FileHas
<1> QED
  BY <1>5, <1>7, <1>8, <1>9 DEF SettingsInv

LEMMA SettingsClick ==
    ASSUME SettingsInv, Files!Click
    PROVE  SettingsInv'
<1>1. /\ settings_chosen' = settings' /\ intact' = FALSE
      /\ settings_pc' \in {"save", "run"} /\ (ini' = <<>> \/ ini' = ini)
      /\ UNCHANGED <<name, idfile, pings, launches, before, losses>>
  BY DEF Files!Click
<1>2. PICK k \in SettingKeys : \E v \in Files!Changed(k) : settings' = [settings EXCEPT ![k] = v]
  BY KeysAre DEF Files!Click
<1> PICK v \in Files!Changed(k) : settings' = [settings EXCEPT ![k] = v]
  BY <1>2
<1>3. Settled(settings)
  BY DEF SettingsInv, SettingsTyped
<1>4. /\ k \in Files!Switches => v \in 0 .. 1
      /\ k = "bezel_r" => v \in 18 .. 160
      /\ k = "record_format" => v \in 0 .. 1
      /\ k = "screenshot_resize_height_cm" => v \in Heights
  <2>1. CASE k \in Files!Switches
    <3>1. settings[k] \in 0 .. 1 /\ v = 1 - settings[k]
      BY <1>2, <1>3, <2>1 DEF Settled, Files!Switches, Files!Changed
    <3>2. k # "bezel_r" /\ k # "record_format" /\ k # "screenshot_resize_height_cm"
      BY <2>1 DEF Files!Switches
    <3> QED
      BY <3>1, <3>2
  <2>2. CASE k = "bezel_r"
    BY <2>2 DEF Files!Switches, Files!Changed, Files!Presets
  <2>3. CASE k = "record_format"
    BY <2>3 DEF Files!Switches, Files!Changed
  <2>4. CASE k = "screenshot_resize_height_cm"
    <3>1. \/ v = 1002
          \/ \E d \in {-1, 1} : v = Files!Within(settings[k] + d, <<2, 60>>)
      BY <2>4 DEF Files!Switches, Files!Changed, Files!NotANumber
    <3> SUFFICES ASSUME NEW d \in {-1, 1}, v = Files!Within(settings[k] + d, <<2, 60>>)
                 PROVE  v \in Heights
      BY <2>4, <3>1 DEF Files!Switches, Heights
    <3>2. settings[k] \in Int
      BY <1>3, <2>4 DEF Settled
    <3> DEFINE x == settings[k] + d
    <3>3. x \in Int /\ v = Files!Within(x, <<2, 60>>)
      BY <3>2
    <3> HIDE DEF x
    <3>4. Files!Within(x, <<2, 60>>) \in 2 .. 60
      <4>1. x \in Int /\ 2 \in Int /\ 60 \in Int /\ 2 <= 60
        BY <3>3
      <4> QED
        BY ONLY <4>1, WithinIs, SMTT(30)
    <3> QED
      BY <3>3, <3>4 DEF Heights
  <2> QED
    BY <2>1, <2>2, <2>3, <2>4 DEF SettingKeys, Files!Switches
<1>5. v \in Int
  BY <1>4 DEF SettingKeys, Files!Switches, Heights
<1>6. /\ settings' \in [SettingKeys -> Int] /\ settings'[k] = v
      /\ \A j \in SettingKeys : j # k => settings'[j] = settings[j]
  BY <1>2, <1>3, <1>5 DEF Settled
<1>7. Settled(settings')
  <2>1. settings'["telemetry_enabled"] \in 0 .. 1 /\ settings'["use_computer_name"] \in 0 .. 1
    BY <1>3, <1>4, <1>6 DEF Settled, SettingKeys, Files!Switches
  <2>2. settings'["bezel_r"] \in 18 .. 160
    BY <1>3, <1>4, <1>6 DEF Settled, SettingKeys
  <2>3. settings'["record_format"] \in 0 .. 1
    BY <1>3, <1>4, <1>6 DEF Settled, SettingKeys
  <2>4. settings'["screenshot_resize_height_cm"] \in Heights
    BY <1>3, <1>4, <1>6 DEF Settled, SettingKeys
  <2> QED
    BY <1>6, <2>1, <2>2, <2>3, <2>4 DEF Settled
<1>8. DOMAIN ini' \subseteq SettingKeys /\ \A j \in DOMAIN ini' : ini'[j] \in Int
  <2>1. DOMAIN <<>> = {}
    BY EmptySeq
  <2> QED
    BY <1>1, <2>1 DEF SettingsInv, SettingsTyped
<1>9. SettingsTyped'
  BY <1>1, <1>7, <1>8, PingsStay DEF SettingsInv, SettingsTyped
<1>10. FileHas'
  BY <1>1 DEF FileHas
<1> QED
  BY <1>1, <1>9, <1>10, PingsStay DEF SettingsInv

LEMMA SettingsSave ==
    ASSUME SettingsInv, Files!Save
    PROVE  SettingsInv'
<1>1. /\ settings_pc = "save" /\ settings_pc' = "run"
      /\ (ini' = settings /\ intact' = TRUE) \/ (ini' = <<>> /\ intact' = FALSE)
      /\ UNCHANGED <<settings, name, idfile, pings, launches, clicks, before, settings_chosen,
                     losses>>
  BY DEF Files!Save
<1>2. Settled(settings) /\ settings_chosen = settings
  BY <1>1 DEF SettingsInv, SettingsTyped, FileHas
<1>3. DOMAIN ini' \subseteq SettingKeys /\ \A j \in DOMAIN ini' : ini'[j] \in Int
  <2>1. DOMAIN <<>> = {}
    BY EmptySeq
  <2> QED
    BY <1>1, <1>2, <2>1 DEF Settled
<1>4. intact' => Files!Load(ini') = settings_chosen'
  BY <1>1, <1>2, LoadWritten
<1>5. SettingsTyped'
  BY <1>1, <1>3, PingsStay DEF SettingsInv, SettingsTyped
<1>6. FileHas'
  BY <1>1, <1>2, <1>4 DEF FileHas
<1> QED
  BY <1>1, <1>5, <1>6, PingsStay DEF SettingsInv

\* The process ends.
LEMMA SettingsQuit ==
    ASSUME SettingsInv, Files!Quit \/ Files!Killed
    PROVE  SettingsInv'
<1>1. /\ settings_pc' = "off"
      /\ UNCHANGED <<ini, settings, name, pings, launches, before, settings_chosen, intact, losses>>
      /\ settings_pc # "id" => idfile' = idfile
      /\ idfile' \in {idfile, <<>>, <<launches>>}
  BY DEF Files!Quit, Files!Killed, Files!FilesKept
<1>2. idfile' \in Seq(Nat) /\ Len(idfile') <= 1
  <2>1. launches \in Nat /\ idfile \in Seq(Nat) /\ Len(idfile) <= 1
    BY DEF SettingsInv, SettingsTyped
  <2>2. CASE idfile' = <<launches>>
    BY <2>1, <2>2
  <2>3. CASE idfile' = <<>>
    BY <2>3, EmptySeq
  <2> QED
    BY <1>1, <2>1, <2>2, <2>3
<1>3. SettingsTyped'
  BY <1>1, <1>2 DEF SettingsInv, SettingsTyped
<1>4. FileHas'
  BY <1>1 DEF SettingsInv, FileHas
<1>5. IdsOfFile'
  <2>1. CASE settings_pc = "id"
    <3>1. \A i \in DOMAIN pings : pings[i].losses <= losses /\ pings[i].losses # losses
      BY <2>1 DEF SettingsInv, IdsOfFile
    <3> QED
      BY <1>1, <3>1 DEF IdsOfFile
  <2>2. CASE settings_pc # "id"
    BY <1>1, <2>2 DEF SettingsInv, IdsOfFile
  <2> QED
    BY <2>1, <2>2
<1>6. Files!PingsWanted' /\ Files!SameIdentity'
  BY <1>1 DEF SettingsInv, Files!PingsWanted, Files!SameIdentity
<1> QED
  BY <1>3, <1>4, <1>5, <1>6 DEF SettingsInv

LEMMA SettingsEdit ==
    ASSUME SettingsInv, Files!Edit
    PROVE  SettingsInv'
<1>1. /\ settings_pc = "off" /\ intact' = FALSE
      /\ UNCHANGED <<settings, settings_pc, name, idfile, pings, launches, before,
                     settings_chosen, losses>>
  BY DEF Files!Edit
<1>2. DOMAIN ini' \subseteq SettingKeys /\ \A j \in DOMAIN ini' : ini'[j] \in Int
  <2>1. DOMAIN ini \subseteq SettingKeys /\ \A j \in DOMAIN ini : ini[j] \in Int
    BY DEF SettingsInv, SettingsTyped
  <2>2. PICK k \in DOMAIN Files!Default :
          \/ \E raw \in {0, 200} \cup Files!Words :
                ini' = [j \in DOMAIN ini \cup {k} |-> IF j = k THEN raw ELSE ini[j]]
          \/ ini' = Files!Restrict(ini, DOMAIN ini \ {k})
    BY DEF Files!Edit
  <2>3. k \in SettingKeys
    BY KeysAre
  <2>4. ASSUME NEW raw \in {0, 200} \cup Files!Words,
               ini' = [j \in DOMAIN ini \cup {k} |-> IF j = k THEN raw ELSE ini[j]]
        PROVE  DOMAIN ini' \subseteq SettingKeys /\ \A j \in DOMAIN ini' : ini'[j] \in Int
    <3>1. raw \in Int
      BY DEF Files!Words, Files!Yes, Files!Junk, Files!NotANumber
    <3> QED
      BY <2>1, <2>3, <2>4, <3>1
  <2>5. CASE ini' = Files!Restrict(ini, DOMAIN ini \ {k})
    BY <2>1, <2>5 DEF Files!Restrict
  <2> QED
    BY <2>2, <2>4, <2>5
<1>3. SettingsTyped'
  BY <1>1, <1>2, PingsStay DEF SettingsInv, SettingsTyped
<1>4. FileHas'
  BY <1>1 DEF FileHas
<1> QED
  BY <1>1, <1>3, <1>4, PingsStay DEF SettingsInv

LEMMA SettingsLoseId ==
    ASSUME SettingsInv, Files!RemoveId
    PROVE  SettingsInv'
<1>1. /\ settings_pc = "off" /\ idfile' = <<>> /\ losses' = losses + 1
      /\ UNCHANGED <<ini, settings, settings_pc, name, pings, launches, clicks, before,
                     settings_chosen, intact>>
  BY DEF Files!RemoveId
<1>2. losses \in Nat /\ pings \in Seq(LaunchPing)
  BY DEF SettingsInv, SettingsTyped
<1>3. \A i \in DOMAIN pings : pings[i].losses \in Nat
  <2>1. \A i \in DOMAIN pings : pings[i] \in LaunchPing
    BY <1>2, ElementOfSeq, LenProperties
  <2> QED
    BY <2>1 DEF LaunchPing
<1>4. SettingsTyped'
  BY <1>1, <1>2, EmptySeq DEF SettingsInv, SettingsTyped
<1>5. FileHas'
  BY <1>1 DEF SettingsInv, FileHas
<1>6. \A i \in DOMAIN pings : pings[i].losses <= losses + 1 /\ pings[i].losses # losses + 1
  BY <1>2, <1>3 DEF SettingsInv, IdsOfFile
<1>7. IdsOfFile'
  BY <1>1, <1>6 DEF IdsOfFile
<1>8. Files!PingsWanted' /\ Files!SameIdentity'
  BY <1>1 DEF SettingsInv, Files!PingsWanted, Files!SameIdentity
<1> QED
  BY <1>4, <1>5, <1>7, <1>8 DEF SettingsInv

LEMMA SettingsStep ==
    ASSUME SettingsInv, Files!Next
    PROVE  SettingsInv'
  BY SettingsStarts, SettingsNamed, SettingsRead, SettingsPing, SettingsId,
     SettingsClick,
     SettingsSave, SettingsQuit, SettingsEdit, SettingsLoseId
  DEF Files!Next

LEMMA SettingsStill ==
    ASSUME SettingsInv, UNCHANGED settingsV
    PROVE  SettingsInv'
  BY DEF SettingsInv, SettingsTyped, settingsV, FileHas, IdsOfFile, Files!PingsWanted,
         Files!SameIdentity

\* What follows.
LEMMA SettingsServe ==
    ASSUME SettingsInv
    PROVE  /\ Files!TypeOK /\ Files!SettingsInRange /\ Files!ChoiceKept
           /\ Files!PingsWanted /\ Files!SameIdentity
<1>1. Settled(settings) /\ DOMAIN settings = SettingKeys
  BY DEF SettingsInv, SettingsTyped, Settled
<1>2. Files!TypeOK
  BY <1>1, KeysAre DEF SettingsInv, SettingsTyped, Files!TypeOK
<1>3. Files!SettingsInRange
  <2>1. \A k \in Files!Switches : settings[k] \in {0, 1}
    BY <1>1 DEF Settled, Files!Switches
  <2>2. \A k \in DOMAIN Files!Ranges :
          \/ settings[k] \in Files!Ranges[k][1] .. Files!Ranges[k][2]
          \/ k = "screenshot_resize_height_cm" /\ settings[k] = 1002
    BY <1>1, KeysAre DEF Settled, Heights
  <2> QED
    BY <2>1, <2>2 DEF Files!SettingsInRange, Files!NotANumber
<1>4. Files!ChoiceKept
  BY DEF SettingsInv, FileHas, NameOf, Files!ChoiceKept
<1> QED
  BY <1>2, <1>3, <1>4 DEF SettingsInv

(***************************************************************************)
(* The usage log's rows.                                                   *)
(***************************************************************************)

\* What a cell has.
Cell ==
    {"time", "app_start", "app_stop", "session_start", "session_end", "iOS", "Android",
     "Bob", "7", "Ann", "0", "45", "90", Usage!Blank} \cup Usage!Uses

LEMMA BlankIs == Usage!Blank \notin {"time", "app_start", "app_stop", "session_start",
                                    "session_end", "iOS", "Android", "Bob", "7", "Ann",
                                    "0", "45", "90"}
  BY Zenon DEF Usage!Blank

\* What the program logs.
LoggedRow ==
    {Usage!OldRow}
    \cup [event : {"app_start", "app_stop"}, platform : {Usage!Blank},
          device : {<<Usage!Blank>>}, duration : {Usage!Blank}]
    \cup [event : {"session_start"}, platform : Usage!Platforms, device : Usage!Names,
          duration : {Usage!Blank}]
    \cup [event : {"session_end"}, platform : Usage!Platforms, device : Usage!Names,
          duration : {"0", "90"}]
    \cup [event : Usage!Uses, platform : Usage!Platforms \cup {Usage!Blank},
          device : {<<Usage!Blank>>}, duration : {Usage!Blank}]

UsageTyped ==
    /\ truth \in Seq(LoggedRow) /\ csv = [i \in DOMAIN truth |-> Usage!Line(truth[i])]
    /\ Len(shown) <= 1 /\ Len(pinged) <= 1
    /\ \A i \in DOMAIN shown :
        /\ Len(shown[i].rows) \in 0 .. Len(truth)
        /\ DOMAIN shown[i].rows = 1 .. Len(shown[i].rows)
    /\ \A i \in DOMAIN pinged : pinged[i].length \in 0 .. Len(truth)

UsageInv == UsageTyped /\ Usage!StatsCountRows /\ Usage!RowsShownBack

LEMMA RowIs ==
    ASSUME NEW r \in LoggedRow
    PROVE  /\ r.device \in Seq(Cell) /\ Len(r.device) \in 0 .. 2
           /\ Len(r.device) = 0 => r.event = "session_end" /\ r.duration = "45"
           /\ r.event = "app_start" => r.platform = Usage!Blank
           /\ r.event = "session_end" => r.duration \in {"0", "45", "90"}
           /\ r.duration = "45" => Len(r.device) = 0
<1>1. Usage!Blank \in Cell /\ "Bob" \in Cell /\ "7" \in Cell /\ "Ann" \in Cell
  BY DEF Cell
<1>2. <<Usage!Blank>> \in Seq(Cell) /\ Len(<<Usage!Blank>>) = 1
  BY <1>1
<1>3. ASSUME NEW d \in Usage!Names
      PROVE  d \in Seq(Cell) /\ (Len(d) = 1 \/ Len(d) = 2)
  <2>1. CASE d = <<Usage!Blank>>
    BY <1>1, <2>1
  <2>2. CASE d = <<"Bob">>
    BY <1>1, <2>2
  <2>3. CASE d = <<"7">>
    BY <1>1, <2>3
  <2>4. CASE d = <<"Bob", "Ann">>
    BY <1>1, <2>4
  <2> QED
    BY <1>3, <2>1, <2>2, <2>3, <2>4 DEF Usage!Names
<1>4. CASE r = Usage!OldRow
  <2>1. /\ r.device = <<>> /\ r.event = "session_end" /\ r.duration = "45"
        /\ r.platform = "iOS"
    BY <1>4 DEF Usage!OldRow
  <2> QED
    BY <2>1, EmptySeq
<1>5. CASE r \in [event : {"app_start", "app_stop"}, platform : {Usage!Blank},
                  device : {<<Usage!Blank>>}, duration : {Usage!Blank}]
  <2>1. /\ r.device = <<Usage!Blank>> /\ r.event \in {"app_start", "app_stop"}
        /\ r.platform = Usage!Blank /\ r.duration = Usage!Blank
    BY <1>5
  <2> QED
    BY <1>2, <2>1, BlankIs
<1>6. CASE r \in [event : {"session_start"}, platform : Usage!Platforms,
                  device : Usage!Names, duration : {Usage!Blank}]
  <2>1. r.device \in Usage!Names /\ r.event = "session_start" /\ r.duration = Usage!Blank
    BY <1>6
  <2>2. r.device \in Seq(Cell) /\ (Len(r.device) = 1 \/ Len(r.device) = 2)
    BY <1>3, <2>1
  <2>3. r.event # "app_start" /\ r.event # "session_end" /\ r.duration # "45"
    BY <2>1, BlankIs
  <2>4. CASE Len(r.device) = 1
    BY <2>2, <2>3, <2>4
  <2>5. CASE Len(r.device) = 2
    BY <2>2, <2>3, <2>5
  <2> QED
    BY <2>2, <2>4, <2>5
<1>7. CASE r \in [event : {"session_end"}, platform : Usage!Platforms, device : Usage!Names,
                  duration : {"0", "90"}]
  <2>1. r.device \in Usage!Names /\ r.event = "session_end" /\ r.duration \in {"0", "90"}
    BY <1>7
  <2>2. r.device \in Seq(Cell) /\ (Len(r.device) = 1 \/ Len(r.device) = 2)
    BY <1>3, <2>1
  <2>3. r.event # "app_start" /\ r.duration \in {"0", "45", "90"} /\ r.duration # "45"
    BY <2>1
  <2>4. CASE Len(r.device) = 1
    BY <2>2, <2>3, <2>4
  <2>5. CASE Len(r.device) = 2
    BY <2>2, <2>3, <2>5
  <2> QED
    BY <2>2, <2>4, <2>5
<1>8. CASE r \in [event : Usage!Uses, platform : Usage!Platforms \cup {Usage!Blank},
                  device : {<<Usage!Blank>>}, duration : {Usage!Blank}]
  <2>1. r.device = <<Usage!Blank>> /\ r.event \in Usage!Uses /\ r.duration = Usage!Blank
    BY <1>8
  <2> QED
    BY <1>2, <2>1, BlankIs DEF Usage!Uses
<1> QED
  BY <1>4, <1>5, <1>6, <1>7, <1>8 DEF LoggedRow

LEMMA Joined ==
    ASSUME NEW S, NEW s \in Seq(S), NEW t \in Seq(S)
    PROVE  /\ s \o t \in Seq(S) /\ Len(s \o t) = Len(s) + Len(t)
           /\ \A i \in 1 .. Len(s) : (s \o t)[i] = s[i]
           /\ \A i \in 1 .. Len(t) : (s \o t)[Len(s) + i] = t[i]
<1> DEFINE m == Len(s)
           k == Len(t)
<1>1. m \in Nat /\ k \in Nat
  BY LenProperties
<1>2. /\ s \o t \in Seq(S) /\ Len(s \o t) = m + k
      /\ \A i \in 1 .. m + k : (s \o t)[i] = IF i <= m THEN s[i] ELSE t[i - m]
  BY ConcatProperties
<1> HIDE DEF m, k
<1>3. \A i \in 1 .. m : i \in 1 .. m + k /\ i <= m
  BY <1>1
<1>4. \A i \in 1 .. k : m + i \in 1 .. m + k /\ ~(m + i <= m) /\ (m + i) - m = i
  BY <1>1
<1>5. /\ \A i \in 1 .. m : (s \o t)[i] = s[i]
      /\ \A i \in 1 .. k : (s \o t)[m + i] = t[i]
  BY <1>2, <1>3, <1>4
<1> QED
  BY <1>2, <1>5 DEF m, k

\* The cells of a row's line.
LEMMA LineIs ==
    ASSUME NEW r \in LoggedRow, r.event \in Cell, r.platform \in Cell, r.duration \in Cell
    PROVE  LET l == Usage!Line(r)  n == Len(r.device) IN
           /\ l \in Seq(Cell) /\ Len(l) = 4 + n /\ n \in 0 .. 2
           /\ l[2] = r.event /\ l[3] = r.platform /\ l[4 + n] = r.duration
           /\ \A i \in 1 .. n : l[3 + i] = r.device[i]
<1> DEFINE a == <<"time", r.event, r.platform>>
           d == r.device
           e == <<r.duration>>
           n == Len(d)
           l == Usage!Line(r)
<1>1. d \in Seq(Cell) /\ n \in 0 .. 2
  BY RowIs
<1>2. a \in Seq(Cell) /\ Len(a) = 3 /\ a[2] = r.event /\ a[3] = r.platform
  <2>1. "time" \in Cell
    BY DEF Cell
  <2> QED
    BY <2>1
<1>3. e \in Seq(Cell) /\ Len(e) = 1 /\ e[1] = r.duration
  OBVIOUS
<1>4. l = (a \o d) \o e
  BY DEF Usage!Line
<1> HIDE DEF a, d, e, n, l
<1>5. /\ a \o d \in Seq(Cell) /\ Len(a \o d) = 3 + n
      /\ \A i \in 1 .. 3 : (a \o d)[i] = a[i]
      /\ \A i \in 1 .. n : (a \o d)[3 + i] = d[i]
  <2>1. n \in Nat /\ d \in Seq(Cell) /\ Len(d) = n
    BY <1>1 DEF n
  <2>2. /\ a \o d \in Seq(Cell) /\ Len(a \o d) = Len(a) + Len(d)
        /\ \A i \in 1 .. Len(a) : (a \o d)[i] = a[i]
        /\ \A i \in 1 .. Len(d) : (a \o d)[Len(a) + i] = d[i]
    <3>1. a \in Seq(Cell) /\ d \in Seq(Cell)
      BY <1>2, <2>1
    <3> QED
      BY <3>1, Joined
  <2> QED
    BY <1>2, <2>1, <2>2
<1>6. /\ l \in Seq(Cell) /\ Len(l) = 4 + n
      /\ \A i \in 1 .. 3 + n : l[i] = (a \o d)[i]
      /\ l[4 + n] = e[1]
  <2> DEFINE u == a \o d
             m == 3 + n
  <2>1. m \in Nat /\ u \in Seq(Cell) /\ Len(u) = m /\ 1 \in Nat /\ m + 1 = 4 + n
    BY <1>1, <1>5
  <2> HIDE DEF u, m
  <2>2. /\ u \o e \in Seq(Cell) /\ Len(u \o e) = Len(u) + Len(e)
        /\ \A i \in 1 .. Len(u) : (u \o e)[i] = u[i]
        /\ \A i \in 1 .. Len(e) : (u \o e)[Len(u) + i] = e[i]
    <3>1. u \in Seq(Cell) /\ e \in Seq(Cell)
      BY <1>3, <2>1
    <3> QED
      BY <3>1, Joined
  <2>3. /\ Len(u \o e) = m + 1 /\ (u \o e)[m + 1] = e[1]
        /\ \A i \in 1 .. m : (u \o e)[i] = u[i]
    BY <1>3, <2>1, <2>2
  <2> QED
    BY <1>4, <2>1, <2>2, <2>3 DEF u, m
<1>7. l[2] = r.event /\ l[3] = r.platform
  BY <1>1, <1>2, <1>5, <1>6
<1>8. l[4 + n] = r.duration
  BY <1>3, <1>6
<1>9. \A i \in 1 .. n : l[3 + i] = d[i]
  BY <1>1, <1>5, <1>6
<1> QED
  BY <1>1, <1>6, <1>7, <1>8, <1>9 DEF d, l, n

LEMMA RowCells ==
    ASSUME NEW r \in LoggedRow
    PROVE  r.event \in Cell /\ r.platform \in Cell /\ r.duration \in Cell
  BY DEF LoggedRow, Usage!OldRow, Usage!Platforms, Usage!Uses, Cell

\* What is read of it, whatever there is to count.
LEMMA RowReadIs ==
    ASSUME NEW r \in LoggedRow
    PROVE  LET x == Usage!RowRead(Usage!Line(r)) IN
           /\ x.event = r.event /\ x.platform = r.platform
           /\ (r.event = "session_end" /\ Len(r.device) <= 1) =>
                    x.duration = IF r.duration = "90" THEN 90
                                 ELSE IF r.duration = "45" THEN 45 ELSE 0
           /\ (r.event = "session_end" /\ Len(r.device) = 1) => x.device = r.device[1]
<1> DEFINE l == Usage!Line(r)
           c == Usage!CellsOf(l)
           n == Len(r.device)
           x == Usage!RowRead(l)
<1>1. /\ l \in Seq(Cell) /\ Len(l) = 4 + n /\ n \in 0 .. 2
      /\ l[2] = r.event /\ l[3] = r.platform /\ l[4 + n] = r.duration
      /\ \A i \in 1 .. n : l[3 + i] = r.device[i]
  BY RowCells, LineIs
<1> HIDE DEF l, n
<1>2. c = IF r.duration = Usage!Blank THEN SubSeq(l, 1, 3 + n) ELSE l
  <2>1. Usage!Last(l) = r.duration
    BY <1>1 DEF Usage!Last
  <2>2. Usage!Front(l) = SubSeq(l, 1, 3 + n)
    <3>1. Len(l) - 1 = 3 + n
      BY <1>1
    <3> QED
      BY <3>1 DEF Usage!Front
  <2> QED
    BY <2>1, <2>2 DEF Usage!CellsOf
<1>3. c[2] = r.event /\ c[3] = r.platform
  <2>1. CASE r.duration = Usage!Blank
    <3>1. /\ SubSeq(l, 1, 3 + n) \in Seq(Cell)
          /\ \A i \in 1 .. 3 + n : SubSeq(l, 1, 3 + n)[i] = l[i]
      BY <1>1, SubSeqProperties
    <3> QED
      BY <1>1, <1>2, <2>1, <3>1
  <2>2. CASE r.duration # Usage!Blank
    BY <1>1, <1>2, <2>2
  <2> QED
    BY <2>1, <2>2
<1>4. ASSUME r.event = "session_end"  PROVE c = l
  <2>1. r.duration \in {"0", "45", "90"}
    BY <1>4, RowIs
  <2> QED
    BY <1>2, <2>1, BlankIs
<1> HIDE DEF c
<1>5. x = [event |-> c[2], platform |-> c[3],
           device |-> IF Len(c) >= 5 THEN c[4] ELSE Usage!Blank,
           duration |-> IF Len(c) >= 5 THEN Usage!Seconds(c[5])
                        ELSE IF Len(c) = 4 THEN Usage!Seconds(c[4]) ELSE 0]
  BY DEF Usage!RowRead, c
<1>6. x.event = r.event /\ x.platform = r.platform
  BY <1>3, <1>5
<1>7. /\ x.device = IF Len(c) >= 5 THEN c[4] ELSE Usage!Blank
      /\ x.duration = IF Len(c) >= 5 THEN Usage!Seconds(c[5])
                      ELSE IF Len(c) = 4 THEN Usage!Seconds(c[4]) ELSE 0
  BY <1>5
<1> HIDE DEF x
<1>8. /\ Usage!Seconds("90") = 90 /\ Usage!Seconds("45") = 45 /\ Usage!Seconds("0") = 0
  BY DEF Usage!Seconds
<1>9. ASSUME r.event = "session_end", n = 1
      PROVE  /\ x.device = r.device[1]
             /\ x.duration = IF r.duration = "90" THEN 90
                             ELSE IF r.duration = "45" THEN 45 ELSE 0
  <2>1. c = l /\ Len(l) = 5 /\ l[5] = r.duration /\ l[4] = r.device[1]
    BY <1>1, <1>4, <1>9
  <2>2. r.duration \in {"0", "45", "90"}
    BY <1>9, RowIs
  <2> QED
    BY <1>7, <1>8, <2>1, <2>2
<1>10. ASSUME r.event = "session_end", n = 0
       PROVE  x.duration = IF r.duration = "90" THEN 90
                           ELSE IF r.duration = "45" THEN 45 ELSE 0
  <2>1. c = l /\ Len(l) = 4 /\ l[4] = r.duration
    BY <1>1, <1>4, <1>10
  <2>2. r.duration \in {"0", "45", "90"}
    BY <1>10, RowIs
  <2> QED
    BY <1>7, <1>8, <2>1, <2>2
<1>11. ASSUME r.event = "session_end", n <= 1
       PROVE  x.duration = IF r.duration = "90" THEN 90
                           ELSE IF r.duration = "45" THEN 45 ELSE 0
  <2>1. n = 0 \/ n = 1
    BY <1>1, <1>11
  <2> QED
    BY <1>9, <1>10, <1>11, <2>1
<1>12. (r.event = "session_end" /\ n = 1) => x.device = r.device[1]
  BY <1>9
<1> QED
  BY <1>6, <1>11, <1>12 DEF l, n, x

\* What the fold over the rows says.
LEMMA SecondsFold ==
    ASSUME NEW t, NEW p
    PROVE  Usage!SecondsOf(t, p) =
            (CHOOSE sums : sums = [s \in SUBSET (DOMAIN t) |->
                IF s = {} THEN 0
                ELSE IF t[Usage!Max(s)].event = "session_end" /\ t[Usage!Max(s)].platform = p
                     THEN sums[s \ {Usage!Max(s)}] + t[Usage!Max(s)].duration
                     ELSE sums[s \ {Usage!Max(s)}]])[DOMAIN t]
  BY DEF Usage!SecondsOf, Usage!FoldLeft, Usage!MapThenFoldSet

LEMMA UsageMax ==
    ASSUME NEW n \in Nat, NEW s \in SUBSET (1 .. n), s # {}
    PROVE  Usage!Max(s) \in s /\ \A y \in s : y <= Usage!Max(s)
<1> DEFINE T == {k \in Nat : n - k \in s}
<1>1. T \subseteq Nat /\ T # {}
  <2>1. PICK x \in s : TRUE
    OBVIOUS
  <2>2. n - x \in Nat /\ n - (n - x) = x
    OBVIOUS
  <2> QED
    BY <2>1, <2>2
<1>2. PICK k \in T : \A y \in T : k <= y
  BY <1>1, LeastOfNats
<1>3. n - k \in s /\ \A y \in s : n - y \in T /\ y <= n - k
  <2>1. \A y \in s : n - y \in Nat /\ n - (n - y) = y /\ y \in Nat
    OBVIOUS
  <2>2. \A y \in s : n - y \in T
    BY <2>1
  <2> QED
    BY <1>2, <2>1, <2>2
<1>4. \E x \in s : \A y \in s : x >= y
  BY <1>3
<1>5. Usage!Max(s) \in s /\ \A y \in s : Usage!Max(s) >= y
  BY <1>4 DEF Usage!Max
<1> QED
  BY <1>5

\* Rows that take ninety seconds, and forty-five, and none.
LEMMA SecondsAre ==
    ASSUME NEW n \in Nat, NEW t, DOMAIN t = 1 .. n, NEW p,
           NEW A \in SUBSET (1 .. n), NEW B \in SUBSET (1 .. n), A \cap B = {},
           \A i \in 1 .. n :
                /\ i \in A => t[i].event = "session_end" /\ t[i].platform = p /\ t[i].duration = 90
                /\ i \in B => t[i].event = "session_end" /\ t[i].platform = p /\ t[i].duration = 45
                /\ (i \notin A \cup B /\ t[i].event = "session_end" /\ t[i].platform = p) =>
                        t[i].duration = 0
    PROVE  Usage!SecondsOf(t, p) = 90 * Cardinality(A) + 45 * Cardinality(B)
<1> DEFINE share(s) == 90 * Cardinality(s \cap A) + 45 * Cardinality(s \cap B)
           Sums(g) == g = [s \in SUBSET (DOMAIN t) |->
                IF s = {} THEN 0
                ELSE IF t[Usage!Max(s)].event = "session_end" /\ t[Usage!Max(s)].platform = p
                     THEN g[s \ {Usage!Max(s)}] + t[Usage!Max(s)].duration
                     ELSE g[s \ {Usage!Max(s)}]]
           shares == [s \in SUBSET (1 .. n) |-> share(s)]
           h == CHOOSE g : Sums(g)
<1>1. \A s \in SUBSET (1 .. n) : /\ IsFiniteSet(s \cap A) /\ IsFiniteSet(s \cap B)
                                 /\ Cardinality(s \cap A) \in Nat
                                 /\ Cardinality(s \cap B) \in Nat
  <2>1. IsFiniteSet(1 .. n)
    BY FS_Interval
  <2>2. \A s \in SUBSET (1 .. n) : IsFiniteSet(s)
    BY <2>1, FS_Subset
  <2>3. \A s \in SUBSET (1 .. n) : s \cap A \in SUBSET (1 .. n) /\ s \cap B \in SUBSET (1 .. n)
    OBVIOUS
  <2> QED
    BY <2>2, <2>3, FS_CardinalityType
<1>2. ASSUME NEW s \in SUBSET (1 .. n), NEW x \in s
      PROVE  share(s) = IF t[x].event = "session_end" /\ t[x].platform = p
                       THEN share(s \ {x}) + t[x].duration ELSE share(s \ {x})
  <2> DEFINE r == s \ {x}
  <2>1. r \in SUBSET (1 .. n) /\ r \cap A = (s \cap A) \ {x} /\ r \cap B = (s \cap B) \ {x}
    OBVIOUS
  <2>2. /\ Cardinality(r \cap A) = IF x \in s \cap A THEN Cardinality(s \cap A) - 1
                                   ELSE Cardinality(s \cap A)
        /\ Cardinality(r \cap B) = IF x \in s \cap B THEN Cardinality(s \cap B) - 1
                                   ELSE Cardinality(s \cap B)
    BY <1>1, <2>1, FS_RemoveElement
  <2> DEFINE a == Cardinality(s \cap A)
             b == Cardinality(s \cap B)
             c == Cardinality(r \cap A)
             d == Cardinality(r \cap B)
  <2>3. a \in Nat /\ b \in Nat /\ c \in Nat /\ d \in Nat
    BY <1>1, <2>1
  <2>4. /\ share(s) = 90 * a + 45 * b /\ share(r) = 90 * c + 45 * d
    OBVIOUS
  <2>5. CASE x \in A
    <3>1. t[x].event = "session_end" /\ t[x].platform = p /\ t[x].duration = 90
      BY <2>5
    <3>2. c = a - 1 /\ d = b
      BY <2>2, <2>5
    <3> HIDE DEF a, b, c, d, share
    <3>3. share(s) = share(r) + 90
      BY <2>3, <2>4, <3>2
    <3> QED
      BY <3>1, <3>3
  <2>6. CASE x \in B
    <3>1. t[x].event = "session_end" /\ t[x].platform = p /\ t[x].duration = 45
      BY <2>6
    <3>2. c = a /\ d = b - 1
      BY <2>2, <2>6
    <3> HIDE DEF a, b, c, d, share
    <3>3. share(s) = share(r) + 45
      BY <2>3, <2>4, <3>2
    <3> QED
      BY <3>1, <3>3
  <2>7. CASE x \notin A \cup B
    <3>1. (t[x].event = "session_end" /\ t[x].platform = p) => t[x].duration = 0
      BY <2>7
    <3>2. c = a /\ d = b
      BY <2>2, <2>7
    <3> HIDE DEF a, b, c, d, share
    <3>3. share(s) = share(r) /\ share(r) = share(r) + 0
      BY <2>3, <2>4, <3>2
    <3> QED
      BY <3>1, <3>3
  <2> QED
    BY <2>5, <2>6, <2>7
<1>3. share({}) = 0
  BY FS_EmptySet
<1> HIDE DEF share
<1>4. Sums(shares)
  <2>1. ASSUME NEW s \in SUBSET (1 .. n), s # {}
        PROVE  LET x == Usage!Max(s) IN
               shares[s] = IF t[x].event = "session_end" /\ t[x].platform = p
                          THEN shares[s \ {x}] + t[x].duration ELSE shares[s \ {x}]
    <3> DEFINE x == Usage!Max(s)
    <3>1. x \in s
      BY <2>1, UsageMax
    <3> HIDE DEF x
    <3>2. shares[s] = share(s) /\ shares[s \ {x}] = share(s \ {x})
      OBVIOUS
    <3>3. share(s) = IF t[x].event = "session_end" /\ t[x].platform = p
                     THEN share(s \ {x}) + t[x].duration ELSE share(s \ {x})
      BY <1>2, <3>1
    <3> HIDE DEF shares
    <3>4. shares[s] = IF t[x].event = "session_end" /\ t[x].platform = p
                      THEN shares[s \ {x}] + t[x].duration ELSE shares[s \ {x}]
      BY <3>2, <3>3
    <3> QED
      BY <3>4 DEF x
  <2>2. shares[{}] = 0
    BY <1>3
  <2> HIDE DEF shares
  <2>3. shares = [s \in SUBSET (1 .. n) |-> shares[s]]
    BY DEF shares
  <2>4. \A s \in SUBSET (1 .. n) :
          shares[s] = IF s = {} THEN 0
                     ELSE IF t[Usage!Max(s)].event = "session_end" /\ t[Usage!Max(s)].platform = p
                     THEN shares[s \ {Usage!Max(s)}] + t[Usage!Max(s)].duration
                     ELSE shares[s \ {Usage!Max(s)}]
    BY <2>1, <2>2
  <2> QED
    BY <2>3, <2>4
<1>5. Sums(h)
  <2> HIDE DEF Sums
  <2> QED
    BY <1>4
<1>6. Usage!SecondsOf(t, p) = h[1 .. n]
  <2>1. Usage!SecondsOf(t, p) = h[DOMAIN t]
    BY SecondsFold
  <2> QED
    BY <2>1
<1> HIDE DEF h
<1>7. \A s \in SUBSET (1 .. n) :
         h[s] = IF s = {} THEN 0
                ELSE IF t[Usage!Max(s)].event = "session_end" /\ t[Usage!Max(s)].platform = p
                THEN h[s \ {Usage!Max(s)}] + t[Usage!Max(s)].duration
                ELSE h[s \ {Usage!Max(s)}]
  BY <1>5
<1> HIDE DEF Sums
<1>8. \A m \in Nat : m <= n => h[1 .. m] = share(1 .. m)
  <2> DEFINE M == {m \in Nat : m <= n => h[1 .. m] = share(1 .. m)}
  <2>1. 0 \in M
    <3>1. 1 .. 0 = {}
      OBVIOUS
    <3>2. h[{}] = 0
      BY <1>7
    <3> QED
      BY <1>3, <3>1, <3>2
  <2>2. ASSUME NEW m \in M  PROVE m + 1 \in M
    <3> SUFFICES ASSUME m + 1 <= n  PROVE h[1 .. m + 1] = share(1 .. m + 1)
      OBVIOUS
    <3> DEFINE s == 1 .. m + 1
    <3>1. s \in SUBSET (1 .. n) /\ s # {} /\ m + 1 \in s /\ s \ {m + 1} = 1 .. m
      OBVIOUS
    <3>2. Usage!Max(s) = m + 1
      <4>1. Usage!Max(s) \in s /\ m + 1 <= Usage!Max(s)
        BY <3>1, UsageMax
      <4> QED
        BY <4>1
    <3>3. h[1 .. m] = share(1 .. m)
      OBVIOUS
    <3> HIDE DEF s
    <3>4. h[s] = IF t[m + 1].event = "session_end" /\ t[m + 1].platform = p
                 THEN h[1 .. m] + t[m + 1].duration ELSE h[1 .. m]
      <4>1. h[s] = IF t[Usage!Max(s)].event = "session_end" /\ t[Usage!Max(s)].platform = p
                   THEN h[s \ {Usage!Max(s)}] + t[Usage!Max(s)].duration
                   ELSE h[s \ {Usage!Max(s)}]
        BY <1>7, <3>1
      <4>2. s \ {Usage!Max(s)} = 1 .. m
        BY <3>1, <3>2
      <4> QED
        BY <3>2, <4>1, <4>2
    <3>5. share(s) = IF t[m + 1].event = "session_end" /\ t[m + 1].platform = p
                    THEN share(1 .. m) + t[m + 1].duration ELSE share(1 .. m)
      BY <1>2, <3>1
    <3> QED
      BY <3>3, <3>4, <3>5 DEF s
  <2> HIDE DEF M
  <2>3. \A m \in Nat : m \in M
    <3>1. M \subseteq Nat
      BY DEF M
    <3> QED
      BY <2>1, <2>2, <3>1, NatsBySteps
  <2> QED
    BY <2>3 DEF M
<1>9. h[1 .. n] = share(1 .. n)
  BY <1>8
<1>10. (1 .. n) \cap A = A /\ (1 .. n) \cap B = B
  OBVIOUS
<1> QED
  BY <1>6, <1>9, <1>10 DEF share

LEMMA UsageCounts == \A S : Usage!Cardinality(S) = Cardinality(S)
  BY DEF Usage!Cardinality, Cardinality

\* What is made of the log is what was logged.
LEMMA CountsComputed ==
    ASSUME truth \in Seq(LoggedRow), csv = [i \in DOMAIN truth |-> Usage!Line(truth[i])]
    PROVE  /\ Usage!CountsOf(Usage!ComputeStats(Usage!LoadRows(csv)), truth)
           /\ LET t == Usage!LoadRows(csv) IN
              /\ DOMAIN t = DOMAIN truth
              /\ \A i \in DOMAIN truth : t[i] = Usage!RowRead(Usage!Line(truth[i]))
<1> DEFINE t == Usage!LoadRows(csv)
           n == Len(truth)
           c == Usage!ComputeStats(t)
           Read(e, p) == {i \in DOMAIN t : t[i].event = e /\ t[i].platform = p}
           Were(e, p) == {i \in DOMAIN truth : truth[i].event = e /\ truth[i].platform = p}
<1>1. n \in Nat /\ DOMAIN truth = 1 .. n /\ \A i \in 1 .. n : truth[i] \in LoggedRow
  BY ElementOfSeq, LenProperties
<1>2. DOMAIN t = 1 .. n /\ \A i \in 1 .. n : t[i] = Usage!RowRead(Usage!Line(truth[i]))
  BY <1>1 DEF Usage!LoadRows
<1> HIDE DEF t, n
<1>3. \A i \in 1 .. n : t[i].event = truth[i].event /\ t[i].platform = truth[i].platform
  BY <1>1, <1>2, RowReadIs
<1>4. \A e, p : Read(e, p) = Were(e, p)
  BY <1>1, <1>2, <1>3
<1>5. {i \in DOMAIN t : t[i].event = "app_start"} = Were("app_start", Usage!Blank)
  BY <1>1, <1>2, <1>3, RowIs
<1>6. c = [starts |-> Usage!Cardinality({i \in DOMAIN t : t[i].event = "app_start"}),
           sessions |-> [p \in Usage!Platforms |-> Usage!Cardinality(Read("session_start", p))],
           seconds |-> [p \in Usage!Platforms |-> Usage!SecondsOf(t, p)],
           uses |-> [e \in Usage!Uses |->
                        [p \in Usage!Platforms |-> Usage!Cardinality(Read(e, p))]]]
  BY DEF Usage!ComputeStats
<1>7. Usage!Logged(truth) =
          [starts |-> Usage!Cardinality(Were("app_start", Usage!Blank)),
           sessions |-> [p \in Usage!Platforms |-> Usage!Cardinality(Were("session_start", p))],
           uses |-> [e \in Usage!Uses |->
                        [p \in Usage!Platforms |-> Usage!Cardinality(Were(e, p))]]]
  BY DEF Usage!Logged
<1> HIDE DEF c, Read, Were
<1>8. \A f \in {"starts", "sessions", "uses"} : c[f] = Usage!Logged(truth)[f]
  <2>1. c["starts"] = Usage!Logged(truth)["starts"]
    <3>1. c["starts"] = Usage!Cardinality({i \in DOMAIN t : t[i].event = "app_start"})
      BY <1>6
    <3>2. Usage!Logged(truth)["starts"] = Usage!Cardinality(Were("app_start", Usage!Blank))
      BY <1>7
    <3> QED
      BY <1>5, <3>1, <3>2
  <2>2. c["sessions"] = Usage!Logged(truth)["sessions"]
    BY <1>4, <1>6, <1>7
  <2>3. c["uses"] = Usage!Logged(truth)["uses"]
    BY <1>4, <1>6, <1>7
  <2> QED
    BY <2>1, <2>2, <2>3
<1>9. ASSUME Usage!Plain(truth), NEW p \in Usage!Platforms
      PROVE  c.seconds[p] = 90 * Usage!Ends(truth, p, "90") + 45 * Usage!Ends(truth, p, "45")
  <2> DEFINE Took(s) == {i \in DOMAIN truth : /\ truth[i].event = "session_end"
                                              /\ truth[i].platform = p
                                              /\ truth[i].duration = s}
             A == Took("90")
             B == Took("45")
  <2>1. A \in SUBSET (1 .. n) /\ B \in SUBSET (1 .. n) /\ A \cap B = {}
    BY <1>1
  <2>2. /\ \A i \in A : /\ truth[i].event = "session_end" /\ truth[i].platform = p
                        /\ truth[i].duration = "90"
        /\ \A i \in B : /\ truth[i].event = "session_end" /\ truth[i].platform = p
                        /\ truth[i].duration = "45"
        /\ \A i \in 1 .. n :
                (truth[i].event = "session_end" /\ truth[i].platform = p /\ i \notin A \cup B) =>
                    truth[i].duration # "90" /\ truth[i].duration # "45"
    BY <1>1
  <2>3. /\ Usage!Ends(truth, p, "90") = Cardinality(A)
        /\ Usage!Ends(truth, p, "45") = Cardinality(B)
    BY UsageCounts DEF Usage!Ends
  <2> HIDE DEF A, B, Took
  <2>4. \A i \in 1 .. n : t[i].event = "session_end" =>
            t[i].duration = IF truth[i].duration = "90" THEN 90
                            ELSE IF truth[i].duration = "45" THEN 45 ELSE 0
    <3>1. \A i \in 1 .. n : Len(truth[i].device) <= 1
      BY <1>1, <1>9 DEF Usage!Plain
    <3> QED
      BY <1>1, <1>2, <1>3, <3>1, RowReadIs
  <2>5. \A i \in 1 .. n :
            /\ i \in A => t[i].event = "session_end" /\ t[i].platform = p /\ t[i].duration = 90
            /\ i \in B => t[i].event = "session_end" /\ t[i].platform = p /\ t[i].duration = 45
            /\ (i \notin A \cup B /\ t[i].event = "session_end" /\ t[i].platform = p) =>
                    t[i].duration = 0
    <3> SUFFICES ASSUME NEW i \in 1 .. n
                 PROVE
            /\ i \in A => t[i].event = "session_end" /\ t[i].platform = p /\ t[i].duration = 90
            /\ i \in B => t[i].event = "session_end" /\ t[i].platform = p /\ t[i].duration = 45
            /\ (i \notin A \cup B /\ t[i].event = "session_end" /\ t[i].platform = p) =>
                    t[i].duration = 0
      OBVIOUS
    <3>1. ASSUME i \in A
          PROVE  t[i].event = "session_end" /\ t[i].platform = p /\ t[i].duration = 90
      BY <1>3, <2>2, <2>4, <3>1
    <3>2. ASSUME i \in B
          PROVE  t[i].event = "session_end" /\ t[i].platform = p /\ t[i].duration = 45
      BY <1>3, <2>2, <2>4, <3>2
    <3>3. ASSUME i \notin A \cup B, t[i].event = "session_end", t[i].platform = p
          PROVE  t[i].duration = 0
      BY <1>3, <2>2, <2>4, <3>3
    <3> QED
      BY <3>1, <3>2, <3>3
  <2>6. Usage!SecondsOf(t, p) = 90 * Cardinality(A) + 45 * Cardinality(B)
    <3>1. n \in Nat /\ DOMAIN t = 1 .. n
      BY <1>1, <1>2
    <3> QED
      BY <2>1, <2>5, <3>1, SecondsAre
  <2>7. c.seconds[p] = Usage!SecondsOf(t, p)
    BY <1>6
  <2> QED
    BY <2>3, <2>6, <2>7
<1>10. Usage!CountsOf(c, truth)
  BY <1>8, <1>9 DEF Usage!CountsOf
<1> QED
  BY <1>1, <1>2, <1>10 DEF c, t

LEMMA UsageBegins ==
    ASSUME Usage!Init
    PROVE  UsageInv
<1>1. /\ truth \in {<<>>, <<Usage!OldRow>>}
      /\ csv = [i \in DOMAIN truth |-> Usage!Line(truth[i])]
      /\ shown = <<>> /\ pinged = <<>>
  BY DEF Usage!Init
<1>2. DOMAIN <<>> = {} /\ Len(<<>>) = 0 /\ <<>> \in Seq(LoggedRow)
  BY EmptySeq
<1>3. truth \in Seq(LoggedRow)
  <2>1. Usage!OldRow \in LoggedRow
    BY DEF LoggedRow
  <2> QED
    BY <1>1, <1>2, <2>1
<1>4. UsageTyped
  BY <1>1, <1>2, <1>3 DEF UsageTyped
<1>5. Usage!StatsCountRows /\ Usage!RowsShownBack
  BY <1>1, <1>2 DEF Usage!StatsCountRows, Usage!RowsShownBack
<1> QED
  BY <1>4, <1>5 DEF UsageInv

\* A row that is added leaves what came before it as it was.
LEMMA BeginningKept ==
    ASSUME NEW S, NEW s \in Seq(S), NEW x \in S, NEW k \in 0 .. Len(s)
    PROVE  /\ Append(s, x) \in Seq(S) /\ Len(Append(s, x)) = Len(s) + 1
           /\ \A i \in 1 .. Len(s) : Append(s, x)[i] = s[i]
           /\ Append(s, x)[Len(s) + 1] = x
           /\ SubSeq(Append(s, x), 1, k) = SubSeq(s, 1, k)
<1> DEFINE t == Append(s, x)
           n == Len(s)
<1>1. /\ n \in Nat /\ t \in Seq(S) /\ Len(t) = n + 1
      /\ \A i \in 1 .. n : t[i] = s[i]
      /\ t[n + 1] = x
  BY AppendProperties, LenProperties
<1> HIDE DEF t, n
<1>2. /\ SubSeq(t, 1, k) = [i \in 1 .. k |-> t[i]]
      /\ SubSeq(s, 1, k) = [i \in 1 .. k |-> s[i]]
  <2>1. /\ SubSeq(t, 1, k) = [i \in 1 .. (1 + k) - 1 |-> t[i + 1 - 1]]
        /\ SubSeq(s, 1, k) = [i \in 1 .. (1 + k) - 1 |-> s[i + 1 - 1]]
    OBVIOUS
  <2>2. k \in Int /\ (1 + k) - 1 = k /\ \A i \in 1 .. k : i + 1 - 1 = i
    BY <1>1 DEF n
  <2> QED
    BY <2>1, <2>2
<1>3. \A i \in 1 .. k : t[i] = s[i]
  BY <1>1 DEF n
<1>4. SubSeq(t, 1, k) = SubSeq(s, 1, k)
  BY <1>2, <1>3
<1> QED
  BY <1>1, <1>4 DEF t, n

LEMMA WholeKept ==
    ASSUME NEW S, NEW s \in Seq(S)
    PROVE  SubSeq(s, 1, Len(s)) = s
<1> DEFINE n == Len(s)
<1>1. n \in Nat /\ s = [i \in 1 .. n |-> s[i]]
  BY LenProperties
<1> HIDE DEF n
<1>2. SubSeq(s, 1, n) = [i \in 1 .. n |-> s[i]]
  <2>1. SubSeq(s, 1, n) = [i \in 1 .. (1 + n) - 1 |-> s[i + 1 - 1]]
    BY <1>1
  <2>2. n \in Int /\ (1 + n) - 1 = n /\ \A i \in 1 .. n : i + 1 - 1 = i
    BY <1>1
  <2> QED
    BY <2>1, <2>2
<1> QED
  BY <1>1, <1>2 DEF n

LEMMA RowAppended ==
    ASSUME UsageInv, NEW r \in LoggedRow, truth' = Append(truth, r),
           csv' = Append(csv, Usage!Line(r)), UNCHANGED <<shown, pinged>>
    PROVE  UsageInv'
<1> DEFINE n == Len(truth)
<1>1. /\ truth \in Seq(LoggedRow) /\ n \in Nat /\ DOMAIN truth = 1 .. n
      /\ csv = [i \in 1 .. n |-> Usage!Line(truth[i])]
  BY LenProperties DEF UsageInv, UsageTyped
<1>2. /\ truth' \in Seq(LoggedRow) /\ Len(truth') = n + 1 /\ DOMAIN truth' = 1 .. n + 1
      /\ \A i \in 1 .. n : truth'[i] = truth[i]
      /\ truth'[n + 1] = r
  <2>1. 0 \in 0 .. Len(truth)
    BY <1>1
  <2>2. /\ truth' \in Seq(LoggedRow) /\ Len(truth') = n + 1
        /\ \A i \in 1 .. n : truth'[i] = truth[i]
        /\ truth'[n + 1] = r
    BY <1>1, <2>1, BeginningKept
  <2> QED
    BY <2>2, LenProperties
<1>3. \A k \in 0 .. n : SubSeq(truth', 1, k) = SubSeq(truth, 1, k)
  BY <1>1, BeginningKept
<1>4. csv' = [i \in DOMAIN truth' |-> Usage!Line(truth'[i])]
  <2> DEFINE S == {Usage!Line(truth[i]) : i \in 1 .. n} \cup {Usage!Line(r)}
  <2>1. csv \in Seq(S) /\ Len(csv) = n /\ Usage!Line(r) \in S
    <3>1. csv \in [1 .. n -> S]
      BY <1>1
    <3> HIDE DEF S
    <3>2. csv \in Seq(S) /\ Len(csv) = n
      BY <1>1, <3>1
    <3> QED
      BY <3>2 DEF S
  <2> HIDE DEF S
  <2>2. /\ csv' \in Seq(S) /\ Len(csv') = n + 1
        /\ \A i \in 1 .. n : csv'[i] = csv[i]
        /\ csv'[n + 1] = Usage!Line(r)
    <3>1. 0 \in 0 .. Len(csv)
      BY <1>1, <2>1
    <3> QED
      BY <2>1, <3>1, BeginningKept
  <2>3. csv' = [i \in 1 .. n + 1 |-> csv'[i]]
    BY <2>2, LenProperties
  <2>4. \A i \in 1 .. n + 1 : csv'[i] = Usage!Line(truth'[i])
    <3> SUFFICES ASSUME NEW i \in 1 .. n + 1  PROVE csv'[i] = Usage!Line(truth'[i])
      OBVIOUS
    <3>1. CASE i = n + 1
      BY <1>2, <2>2, <3>1
    <3>2. CASE i \in 1 .. n
      BY <1>1, <1>2, <2>2, <3>2
    <3> QED
      BY <1>1, <3>1, <3>2
  <2> QED
    BY <1>2, <2>3, <2>4
<1> HIDE DEF n
<1>5. UsageTyped'
  <2>1. \A k \in 0 .. n : k \in 0 .. n + 1
    BY <1>1
  <2> QED
    BY <1>2, <1>4, <2>1 DEF UsageInv, UsageTyped, n
<1>6. Usage!StatsCountRows'
  <2>1. ASSUME NEW i \in DOMAIN pinged
        PROVE  Usage!CountsOf(pinged[i].counts, SubSeq(truth', 1, pinged[i].length))
    <3>1. pinged[i].length \in 0 .. n
      BY DEF UsageInv, UsageTyped, n
    <3>2. Usage!CountsOf(pinged[i].counts, SubSeq(truth, 1, pinged[i].length))
      BY DEF UsageInv, Usage!StatsCountRows
    <3> QED
      BY <1>3, <3>1, <3>2
  <2>2. ASSUME NEW i \in DOMAIN shown
        PROVE  Usage!CountsOf(shown[i].counts, SubSeq(truth', 1, Len(shown[i].rows)))
    <3>1. Len(shown[i].rows) \in 0 .. n
      BY DEF UsageInv, UsageTyped, n
    <3>2. Usage!CountsOf(shown[i].counts, SubSeq(truth, 1, Len(shown[i].rows)))
      BY DEF UsageInv, Usage!StatsCountRows
    <3> QED
      BY <1>3, <3>1, <3>2
  <2> QED
    BY <2>1, <2>2 DEF Usage!StatsCountRows
<1>7. Usage!RowsShownBack'
  <2> SUFFICES ASSUME NEW i \in DOMAIN shown, NEW j \in DOMAIN shown[i].rows
               PROVE  LET row == truth'[Len(shown[i].rows) + 1 - j] IN
                      /\ shown[i].rows[j].event = row.event
                      /\ shown[i].rows[j].platform = row.platform
                      /\ (row.event = "session_end" /\ Len(row.device) = 1) =>
                            shown[i].rows[j].device = row.device[1]
    BY DEF Usage!RowsShownBack
  <2> DEFINE k == Len(shown[i].rows)
  <2>1. k \in 0 .. n /\ j \in 1 .. k
    BY DEF UsageInv, UsageTyped, n
  <2>2. k + 1 - j \in 1 .. n
    BY <1>1, <2>1
  <2>3. truth'[k + 1 - j] = truth[k + 1 - j]
    BY <1>2, <2>2
  <2> QED
    BY <2>3 DEF UsageInv, Usage!RowsShownBack
<1> QED
  BY <1>5, <1>6, <1>7 DEF UsageInv

LEMMA UsagePings ==
    ASSUME UsageInv, Usage!Ping
    PROVE  UsageInv'
<1> DEFINE c == Usage!ComputeStats(Usage!LoadRows(csv))
<1>1. /\ pinged' = <<[counts |-> c, length |-> Len(csv)]>>
      /\ UNCHANGED <<csv, truth, shown>>
  BY DEF Usage!Ping
<1>2. Usage!CountsOf(c, truth)
  BY CountsComputed DEF UsageInv, UsageTyped
<1> HIDE DEF c
<1>3. /\ truth \in Seq(LoggedRow) /\ Len(truth) \in Nat /\ Len(csv) = Len(truth)
  <2>1. /\ truth \in Seq(LoggedRow) /\ csv = [i \in DOMAIN truth |-> Usage!Line(truth[i])]
    BY DEF UsageInv, UsageTyped
  <2>2. Len(truth) \in Nat /\ DOMAIN truth = 1 .. Len(truth)
    BY <2>1, LenProperties
  <2>3. csv \in Seq({csv[i] : i \in DOMAIN csv}) /\ Len(csv) = Len(truth)
    <3>1. csv \in [1 .. Len(truth) -> {csv[i] : i \in DOMAIN csv}]
      BY <2>1, <2>2
    <3> QED
      BY <2>2, <3>1
  <2> QED
    BY <2>1, <2>2, <2>3
<1>4. /\ Len(pinged') = 1 /\ DOMAIN pinged' = {1}
      /\ pinged'[1].counts = c /\ pinged'[1].length = Len(truth)
  BY <1>1, <1>3
<1>5. UsageTyped'
  <2>1. Len(truth) \in 0 .. Len(truth)
    BY <1>3
  <2> QED
    BY <1>1, <1>4, <2>1 DEF UsageInv, UsageTyped
<1>6. Usage!StatsCountRows'
  <2>1. SubSeq(truth, 1, Len(truth)) = truth
    BY <1>3, WholeKept
  <2>2. \A i \in DOMAIN pinged' :
            Usage!CountsOf(pinged'[i].counts, SubSeq(truth, 1, pinged'[i].length))
    BY <1>2, <1>4, <2>1
  <2> QED
    BY <1>1, <2>2 DEF UsageInv, Usage!StatsCountRows
<1>7. Usage!RowsShownBack'
  BY <1>1 DEF UsageInv, Usage!RowsShownBack
<1> QED
  BY <1>5, <1>6, <1>7 DEF UsageInv

LEMMA UsageOpens ==
    ASSUME UsageInv, Usage!OpenStats
    PROVE  UsageInv'
<1> DEFINE t == Usage!LoadRows(csv)
           c == Usage!ComputeStats(t)
           b == Usage!Reverse(t)
           n == Len(truth)
<1>1. /\ shown' = <<[counts |-> c, rows |-> b]>>
      /\ UNCHANGED <<csv, truth, pinged>>
  BY DEF Usage!OpenStats
<1>2. /\ Usage!CountsOf(c, truth) /\ DOMAIN t = DOMAIN truth
      /\ \A i \in DOMAIN truth : t[i] = Usage!RowRead(Usage!Line(truth[i]))
  BY CountsComputed DEF UsageInv, UsageTyped
<1>3. truth \in Seq(LoggedRow) /\ n \in Nat /\ DOMAIN truth = 1 .. n
  BY LenProperties DEF UsageInv, UsageTyped
<1>4. \A i \in 1 .. n : truth[i] \in LoggedRow
  BY <1>3, ElementOfSeq
<1> HIDE DEF n, c
<1>5. /\ DOMAIN b = 1 .. n /\ Len(b) = n
      /\ \A j \in 1 .. n : b[j] = t[n + 1 - j]
  <2> DEFINE S == {t[i] : i \in 1 .. n}
  <2>1. t \in [1 .. n -> S] /\ t \in Seq(S) /\ Len(t) = n
    <3>1. t \in [1 .. n -> S]
      BY <1>2, <1>3 DEF Usage!LoadRows
    <3> HIDE DEF S, t
    <3>2. t \in Seq(S) /\ Len(t) = n
      BY <1>3, <3>1
    <3> QED
      BY <3>1, <3>2
  <2> HIDE DEF S, t
  <2>2. b = [i \in 1 .. n |-> t[(n - i) + 1]]
    BY <2>1 DEF Usage!Reverse
  <2>3. \A i \in 1 .. n : (n - i) + 1 = n + 1 - i /\ n + 1 - i \in 1 .. n
    BY <1>3
  <2> HIDE DEF b
  <2>4. DOMAIN b = 1 .. n /\ \A j \in 1 .. n : b[j] = t[n + 1 - j]
    BY <2>2, <2>3
  <2>5. b \in [1 .. n -> S]
    BY <2>1, <2>2, <2>3
  <2>6. Len(b) = n
    BY <1>3, <2>5
  <2> QED
    BY <2>4, <2>6
<1> HIDE DEF t, b
<1>6. /\ Len(shown') = 1 /\ DOMAIN shown' = {1}
      /\ shown'[1].counts = c /\ shown'[1].rows = b
  BY <1>1
<1>7. UsageTyped'
  <2>1. Len(b) \in 0 .. Len(truth) /\ DOMAIN b = 1 .. Len(b)
    BY <1>3, <1>5 DEF n
  <2> QED
    BY <1>1, <1>6, <2>1 DEF UsageInv, UsageTyped
<1>8. Usage!StatsCountRows'
  <2>1. SubSeq(truth, 1, Len(b)) = truth
    BY <1>3, <1>5, WholeKept DEF n
  <2>2. \A i \in DOMAIN shown' :
            Usage!CountsOf(shown'[i].counts, SubSeq(truth, 1, Len(shown'[i].rows)))
    BY <1>2, <1>6, <2>1
  <2> QED
    BY <1>1, <2>2 DEF UsageInv, Usage!StatsCountRows
<1>9. \A j \in 1 .. n : LET row == truth[n + 1 - j] IN
         /\ b[j].event = row.event /\ b[j].platform = row.platform
         /\ (row.event = "session_end" /\ Len(row.device) = 1) => b[j].device = row.device[1]
  <2> SUFFICES ASSUME NEW j \in 1 .. n
               PROVE LET row == truth[n + 1 - j] IN
         /\ b[j].event = row.event /\ b[j].platform = row.platform
         /\ (row.event = "session_end" /\ Len(row.device) = 1) => b[j].device = row.device[1]
    OBVIOUS
  <2>1. n + 1 - j \in 1 .. n
    BY <1>3
  <2>2. b[j] = Usage!RowRead(Usage!Line(truth[n + 1 - j])) /\ truth[n + 1 - j] \in LoggedRow
    BY <1>2, <1>3, <1>4, <1>5, <2>1
  <2> QED
    BY <2>2, RowReadIs
<1>10. Usage!RowsShownBack'
  BY <1>1, <1>5, <1>6, <1>9 DEF Usage!RowsShownBack
<1> QED
  BY <1>7, <1>8, <1>10 DEF UsageInv

LEMMA UsageStep ==
    ASSUME UsageInv, Usage!Next
    PROVE  UsageInv'
<1>1. ASSUME NEW e, NEW p, NEW d, NEW s, Usage!AppendRow(e, p, d, s),
             [event |-> e, platform |-> p, device |-> d, duration |-> s] \in LoggedRow
      PROVE  UsageInv'
  BY <1>1, RowAppended DEF Usage!AppendRow
<1>2. CASE Usage!AppStart
  <2>1. [event |-> "app_start", platform |-> Usage!Blank, device |-> <<Usage!Blank>>,
         duration |-> Usage!Blank] \in LoggedRow
    BY DEF LoggedRow
  <2> QED
    BY <1>1, <1>2, <2>1 DEF Usage!AppStart
<1>3. CASE Usage!AppStop
  <2>1. [event |-> "app_stop", platform |-> Usage!Blank, device |-> <<Usage!Blank>>,
         duration |-> Usage!Blank] \in LoggedRow
    BY DEF LoggedRow
  <2> QED
    BY <1>1, <1>3, <2>1 DEF Usage!AppStop
<1>4. ASSUME NEW p \in Usage!Platforms, NEW d \in Usage!Names, Usage!SessionStart(p, d)
      PROVE  UsageInv'
  <2>1. [event |-> "session_start", platform |-> p, device |-> d,
         duration |-> Usage!Blank] \in LoggedRow
    BY DEF LoggedRow
  <2> QED
    BY <1>1, <1>4, <2>1 DEF Usage!SessionStart
<1>5. ASSUME NEW p \in Usage!Platforms, NEW d \in Usage!Names, NEW s \in {"0", "90"},
             Usage!SessionEnd(p, d, s)
      PROVE  UsageInv'
  <2>1. [event |-> "session_end", platform |-> p, device |-> d,
         duration |-> s] \in LoggedRow
    BY DEF LoggedRow
  <2> QED
    BY <1>1, <1>5, <2>1 DEF Usage!SessionEnd
<1>6. ASSUME NEW e \in Usage!Uses, NEW p \in Usage!Platforms \cup {Usage!Blank},
             Usage!FeatureUse(e, p)
      PROVE  UsageInv'
  <2>1. [event |-> e, platform |-> p, device |-> <<Usage!Blank>>,
         duration |-> Usage!Blank] \in LoggedRow
    BY DEF LoggedRow
  <2> QED
    BY <1>1, <1>6, <2>1 DEF Usage!FeatureUse
<1> QED
  BY <1>2, <1>3, <1>4, <1>5, <1>6, UsagePings, UsageOpens DEF Usage!Next

LEMMA UsageStill ==
    ASSUME UsageInv, UNCHANGED usageV
    PROVE  UsageInv'
<1>1. UsageTyped'
  BY DEF UsageInv, UsageTyped, usageV
<1>2. Usage!StatsCountRows' /\ Usage!RowsShownBack'
  BY DEF UsageInv, Usage!StatsCountRows, Usage!RowsShownBack, usageV
<1> QED
  BY <1>1, <1>2 DEF UsageInv

LEMMA UsageServes ==
    ASSUME UsageInv
    PROVE  Usage!TypeOK /\ Usage!StatsCountRows /\ Usage!RowsShownBack
  BY DEF UsageInv, UsageTyped, Usage!TypeOK

(***************************************************************************)
(* main().                                                                 *)
(***************************************************************************)

Ended == {"exit", "crash", "killed"}
Place == {"off", "cleanup", "kill", "firewall", "elevate", "name", "init", "run", "shutdown"}
            \cup Ended

MainTyped ==
    /\ process_pc \in [Processes -> Place] /\ rules \in BOOLEAN
    /\ found \in [Processes -> SUBSET Processes] /\ met \in [Processes -> SUBSET Processes]
    /\ agreed \in [Processes -> 0 .. 2]
    /\ killer \in [Processes -> Processes \cup {Main!Nobody}]

\* Who has been ended stays so, as does who was got to; and nobody lists itself.
KilledStays == \A p \in Processes : killer[p] # Main!Nobody => process_pc[p] = "killed"
ListedLive ==
    \A p, q \in Processes : q \in found[p] => q # p /\ process_pc[q] # "off"
MetEnded == \A p, q \in Processes : q \in met[p] => process_pc[q] \in Ended
ElevatesAgreed == \A p \in Processes : process_pc[p] = "elevate" => agreed[p] = 2

MainInv ==
    /\ MainTyped /\ KilledStays /\ ListedLive /\ MetEnded /\ ElevatesAgreed
    /\ Main!SomeoneLeft

LEMMA NobodyIs == Main!Nobody \notin Processes
  BY ProgramAssumption DEF Main!Nobody

LEMMA AliveIs ==
    ASSUME NEW p \in Processes
    PROVE  Main!Alive(p) <=> process_pc[p] # "off" /\ process_pc[p] \notin Ended
  BY DEF Main!Alive, Ended

LEMMA MainBegins ==
    ASSUME Main!Init
    PROVE  MainInv
<1>1. /\ process_pc = [p \in Processes |-> "off"]
      /\ found = [p \in Processes |-> {}] /\ met = [p \in Processes |-> {}]
      /\ agreed = [p \in Processes |-> 0] /\ killer = [p \in Processes |-> Main!Nobody]
  BY DEF Main!Init
<1>2. rules \in BOOLEAN
  BY DEF Main!Init
<1>3. MainTyped
  BY <1>1, <1>2 DEF MainTyped, Place
<1>4. KilledStays /\ ListedLive /\ MetEnded /\ ElevatesAgreed
  BY <1>1 DEF KilledStays, ListedLive, MetEnded, ElevatesAgreed
<1>5. Main!SomeoneLeft
  BY <1>1, NobodyIs, ProgramAssumption DEF Main!SomeoneLeft
<1> QED
  BY <1>3, <1>4, <1>5 DEF MainInv

\* A process goes on by itself.
LEMMA MainGoes ==
    ASSUME MainInv, NEW p \in Processes, NEW place \in Place \ {"off"}, Main!Goto(p, place),
           process_pc[p] \notin Ended, UNCHANGED <<found, met, killer>>,
           rules' \in BOOLEAN, agreed' \in [Processes -> 0 .. 2],
           \A q \in Processes : q # p => agreed'[q] = agreed[q],
           place = "elevate" => agreed'[p] = 2
    PROVE  MainInv'
<1>1. /\ process_pc' \in [Processes -> Place] /\ process_pc'[p] = place
      /\ \A q \in Processes : q # p => process_pc'[q] = process_pc[q]
  BY DEF MainInv, MainTyped, Main!Goto
<1>2. MainTyped'
  BY <1>1 DEF MainInv, MainTyped
<1>3. KilledStays'
  BY <1>1 DEF MainInv, KilledStays, Ended
<1>4. ListedLive' /\ ElevatesAgreed'
  BY <1>1 DEF MainInv, ListedLive, ElevatesAgreed
<1>5. MetEnded'
  BY <1>1 DEF MainInv, MetEnded
<1>6. Main!SomeoneLeft'
  BY DEF MainInv, Main!SomeoneLeft
<1> QED
  BY <1>2, <1>3, <1>4, <1>5, <1>6 DEF MainInv

LEMMA MainLaunches ==
    ASSUME MainInv, NEW p \in Processes, Main!Launch(p)
    PROVE  MainInv'
<1>1. /\ process_pc[p] = "off" /\ UNCHANGED <<found, met, rules, agreed, killer>>
  BY DEF Main!Launch
<1>2. \E place \in {"cleanup", "crash", "exit"} : Main!Goto(p, place)
  BY DEF Main!Launch
<1>3. PICK place \in {"cleanup", "crash", "exit"} : Main!Goto(p, place)
  BY <1>2
<1>4. place \in Place \ {"off"} /\ place # "elevate"
  BY DEF Place, Ended
<1>5. process_pc[p] \notin Ended
  BY <1>1 DEF Ended
<1> QED
  BY <1>1, <1>3, <1>4, <1>5, MainGoes DEF MainInv, MainTyped

LEMMA MainLists ==
    ASSUME MainInv, NEW p \in Processes, Main!Lists(p)
    PROVE  MainInv'
<1>1. /\ process_pc[p] = "cleanup" /\ Main!Goto(p, "kill")
      /\ found' = [found EXCEPT ![p] = {q \in Processes \ {p} : Main!Alive(q)}]
      /\ UNCHANGED <<met, killer, rules, agreed>>
  BY DEF Main!Lists, Main!Kept
<1>2. /\ process_pc' \in [Processes -> Place] /\ process_pc'[p] = "kill"
      /\ \A q \in Processes : q # p => process_pc'[q] = process_pc[q]
  BY <1>1 DEF MainInv, MainTyped, Main!Goto, Place
<1>3. /\ found' \in [Processes -> SUBSET Processes]
      /\ \A q \in Processes : q # p => found'[q] = found[q]
      /\ \A q \in Processes : q \in found'[p] => q # p /\ process_pc[q] # "off"
  BY <1>1, AliveIs DEF MainInv, MainTyped
<1>4. MainTyped'
  BY <1>1, <1>2, <1>3 DEF MainInv, MainTyped
<1>5. KilledStays'
  BY <1>1, <1>2 DEF MainInv, KilledStays
<1>6. ListedLive'
  BY <1>1, <1>2, <1>3 DEF MainInv, ListedLive
<1>7. ElevatesAgreed'
  BY <1>1, <1>2 DEF MainInv, ElevatesAgreed
<1>8. MetEnded'
  BY <1>1, <1>2 DEF MainInv, MetEnded, Ended
<1>9. Main!SomeoneLeft'
  BY <1>1 DEF MainInv, Main!SomeoneLeft
<1> QED
  BY <1>4, <1>5, <1>6, <1>7, <1>8, <1>9 DEF MainInv

\* One that is ended: it has not ended whoever ends it, which is still there.
LEMMA MainKills ==
    ASSUME MainInv, NEW p \in Processes, NEW q \in Processes, Main!Kills(p, q)
    PROVE  MainInv'
<1>1. /\ process_pc[p] = "kill" /\ q \in found[p]
      /\ found' = [found EXCEPT ![p] = @ \ {q}]
      /\ UNCHANGED <<rules, agreed>>
  BY DEF Main!Kills, Main!Kept
<1>2. /\ found' \in [Processes -> SUBSET Processes]
      /\ \A r, s \in Processes : s \in found'[r] => s \in found[r]
  BY <1>1 DEF MainInv, MainTyped
<1>3. CASE UNCHANGED <<process_pc, met, killer>>
  <2>1. MainTyped'
    BY <1>1, <1>2, <1>3 DEF MainInv, MainTyped
  <2>2. KilledStays' /\ ListedLive' /\ MetEnded' /\ ElevatesAgreed'
    BY <1>1, <1>2, <1>3 DEF MainInv, KilledStays, ListedLive, MetEnded, ElevatesAgreed
  <2>3. Main!SomeoneLeft'
    BY <1>3 DEF MainInv, Main!SomeoneLeft
  <2> QED
    BY <2>1, <2>2, <2>3 DEF MainInv
<1>4. CASE /\ met' = [met EXCEPT ![p] = @ \cup {q}]
           /\ ~Main!Alive(q) /\ UNCHANGED <<process_pc, killer>>
  <2>1. /\ met' \in [Processes -> SUBSET Processes]
        /\ \A r, s \in Processes : s \in met'[r] => s \in met[r] \/ s = q
    BY <1>4 DEF MainInv, MainTyped
  <2>2. process_pc[q] \in Ended
    BY <1>1, <1>4, AliveIs DEF MainInv, ListedLive
  <2>3. MainTyped'
    BY <1>1, <1>2, <1>4, <2>1 DEF MainInv, MainTyped
  <2>4. KilledStays' /\ ListedLive' /\ ElevatesAgreed'
    BY <1>1, <1>2, <1>4 DEF MainInv, KilledStays, ListedLive, ElevatesAgreed
  <2>5. MetEnded'
    BY <1>4, <2>1, <2>2 DEF MainInv, MetEnded
  <2>6. Main!SomeoneLeft'
    BY <1>4 DEF MainInv, Main!SomeoneLeft
  <2> QED
    BY <2>3, <2>4, <2>5, <2>6 DEF MainInv
<1>5. CASE /\ met' = [met EXCEPT ![p] = @ \cup {q}] /\ Main!Alive(q)
           /\ process_pc' = [process_pc EXCEPT ![q] = "killed"]
           /\ killer' = [killer EXCEPT ![q] = p]
  <2>1. /\ met' \in [Processes -> SUBSET Processes]
        /\ \A r, s \in Processes : s \in met'[r] => s \in met[r] \/ s = q
    BY <1>5 DEF MainInv, MainTyped
  <2>2. /\ process_pc' \in [Processes -> Place] /\ process_pc'[q] = "killed"
        /\ \A r \in Processes : r # q => process_pc'[r] = process_pc[r]
    BY <1>5 DEF MainInv, MainTyped, Place, Ended
  <2>3. /\ killer' \in [Processes -> Processes \cup {Main!Nobody}] /\ killer'[q] = p
        /\ \A r \in Processes : r # q => killer'[r] = killer[r]
    BY <1>5 DEF MainInv, MainTyped
  <2>4. p # q /\ killer[p] = Main!Nobody
    BY <1>1 DEF MainInv, ListedLive, KilledStays
  <2>5. MainTyped'
    BY <1>1, <1>2, <2>1, <2>2, <2>3 DEF MainInv, MainTyped
  <2>6. KilledStays' /\ ListedLive' /\ ElevatesAgreed'
    BY <1>1, <1>2, <2>2, <2>3 DEF MainInv, KilledStays, ListedLive, ElevatesAgreed
  <2>7. MetEnded'
    BY <2>1, <2>2 DEF MainInv, MetEnded, Ended
  <2>8. Main!SomeoneLeft'
    <3>1. \A r, s \in Processes : killer'[r] = s => s # r /\ killer'[s] # r
      BY <2>3, <2>4, NobodyIs DEF MainInv, Main!SomeoneLeft
    <3> QED
      BY <2>3, <2>4, <3>1 DEF Main!SomeoneLeft
  <2> QED
    BY <2>5, <2>6, <2>7, <2>8 DEF MainInv
<1> QED
  BY <1>3, <1>4, <1>5 DEF Main!Kills

LEMMA MainAsks ==
    ASSUME MainInv, NEW p \in Processes, Main!Asks(p)
    PROVE  MainInv'
<1>1. /\ process_pc[p] = "firewall" /\ UNCHANGED <<found, met, killer, rules>>
      /\ \/ Main!Goto(p, "elevate") /\ agreed' = [agreed EXCEPT ![p] = 2]
         \/ Main!Goto(p, "name") /\ agreed' = [agreed EXCEPT ![p] = 1]
  BY DEF Main!Asks, Main!WallKept
<1>2. process_pc[p] \notin Ended /\ {"elevate", "name"} \subseteq Place \ {"off"}
  BY <1>1 DEF Ended, Place
<1>3. CASE Main!Goto(p, "elevate") /\ agreed' = [agreed EXCEPT ![p] = 2]
  <2>1. /\ agreed' \in [Processes -> 0 .. 2] /\ agreed'[p] = 2
        /\ \A q \in Processes : q # p => agreed'[q] = agreed[q]
    BY <1>3 DEF MainInv, MainTyped
  <2> QED
    BY <1>1, <1>2, <1>3, <2>1, MainGoes DEF MainInv, MainTyped
<1>4. CASE Main!Goto(p, "name") /\ agreed' = [agreed EXCEPT ![p] = 1]
  <2>1. /\ agreed' \in [Processes -> 0 .. 2]
        /\ \A q \in Processes : q # p => agreed'[q] = agreed[q]
    BY <1>4 DEF MainInv, MainTyped
  <2> QED
    BY <1>1, <1>2, <1>4, <2>1, MainGoes DEF MainInv, MainTyped
<1> QED
  BY <1>1, <1>3, <1>4

LEMMA MainElevates ==
    ASSUME MainInv, NEW p \in Processes, Main!Elevates(p)
    PROVE  MainInv' /\ agreed[p] = 2
<1>1. /\ process_pc[p] = "elevate" /\ UNCHANGED <<found, met, killer, agreed>>
      /\ rules' \in BOOLEAN /\ Main!Goto(p, "name")
  BY DEF MainInv, MainTyped, Main!Elevates, Main!WallKept
<1>2. process_pc[p] \notin Ended /\ "name" \in Place \ {"off"}
  BY <1>1 DEF Ended, Place
<1> QED
  BY <1>1, <1>2, MainGoes DEF MainInv, MainTyped, ElevatesAgreed

\* The other steps of a process only lead it on.
LEMMA MainLives ==
    ASSUME MainInv, NEW p \in Processes,
           \/ Main!KillsNobody(p) \/ Main!Listed(p) \/ Main!AsksNot(p)
           \/ Main!Names(p) \/ Main!Lives(p)
    PROVE  MainInv' /\ UNCHANGED rules
<1>1. UNCHANGED <<found, met, killer, rules, agreed>>
  BY DEF Main!KillsNobody, Main!Listed, Main!AsksNot, Main!Names, Main!Lives,
     Main!Kept,
         Main!WallKept
<1>2. /\ process_pc[p] \in {"cleanup", "kill", "firewall", "name", "init", "run", "shutdown"}
      /\ \E place \in {"firewall", "name", "init", "run", "exit", "shutdown"} :
            Main!Goto(p, place)
  BY DEF Main!KillsNobody, Main!Listed, Main!AsksNot, Main!Names, Main!Lives
<1>3. PICK place \in {"firewall", "name", "init", "run", "exit", "shutdown"} :
        Main!Goto(p, place)
  BY <1>2
<1>4. place \in Place \ {"off"} /\ place # "elevate" /\ process_pc[p] \notin Ended
  BY <1>2 DEF Place, Ended
<1> QED
  BY <1>1, <1>3, <1>4, MainGoes DEF MainInv, MainTyped

LEMMA MainStep ==
    ASSUME MainInv, Main!Next
    PROVE  MainInv' /\ (rules' # rules => \E p \in Processes : agreed[p] = 2)
<1>1. PICK p \in Processes :
        \/ Main!Launch(p)
        \/ Main!Lists(p) \/ Main!KillsNobody(p) \/ (\E q \in Processes : Main!Kills(p, q))
        \/ Main!Listed(p)
        \/ Main!Asks(p) \/ Main!AsksNot(p) \/ Main!Elevates(p)
        \/ Main!Names(p) \/ Main!Lives(p)
  BY DEF Main!Next
<1>2. ASSUME Main!Launch(p)  PROVE MainInv' /\ UNCHANGED rules
  BY <1>2, MainLaunches DEF Main!Launch
<1>3. ASSUME Main!Lists(p)  PROVE MainInv' /\ UNCHANGED rules
  BY <1>3, MainLists DEF Main!Lists, Main!Kept
<1>4. ASSUME NEW q \in Processes, Main!Kills(p, q)  PROVE MainInv' /\ UNCHANGED rules
  BY <1>4, MainKills DEF Main!Kills, Main!Kept
<1>5. ASSUME Main!Asks(p)  PROVE MainInv' /\ UNCHANGED rules
  BY <1>5, MainAsks DEF Main!Asks
<1>6. ASSUME Main!Elevates(p)  PROVE MainInv' /\ agreed[p] = 2
  BY <1>6, MainElevates
<1> QED
  BY <1>1, <1>2, <1>3, <1>4, <1>5, <1>6, MainLives

LEMMA MainStill ==
    ASSUME MainInv, UNCHANGED mainV
    PROVE  MainInv'
  BY DEF MainInv, MainTyped, KilledStays, ListedLive, MetEnded, ElevatesAgreed,
         Main!SomeoneLeft, mainV

\* What follows.
LEMMA MainServes ==
    ASSUME MainInv
    PROVE  Main!TypeOK /\ Main!SomeoneLeft /\ Main!OldOnesGone
<1>1. Main!TypeOK
  BY DEF MainInv, MainTyped, Main!TypeOK
<1>2. Main!OldOnesGone
  BY AliveIs DEF MainInv, MainTyped, MetEnded, Main!OldOnesGone
<1> QED
  BY <1>1, <1>2 DEF MainInv

(***************************************************************************)
(* The command lines.                                                      *)
(***************************************************************************)

Options == [Main!Switches \cup Main!Values -> {"on", Main!Unset} \cup Main!Words]
Outcome == [on : {"run", "exit", "crash"}, options : Options, skip : BOOLEAN]

\* One turn of the loop, and what the loop makes of the words up to the m-th.
Turn(line, last, k) ==
    IF last.on # "run" THEN last
    ELSE IF last.skip THEN [last EXCEPT !.skip = FALSE]
    ELSE Main!WordTaken(line, k, last.options)
Start == Main!Going(Main!NoOptions, FALSE)
Runs(line, f, m) ==
    f = [k \in 0 .. m |-> IF k = 0 THEN Start ELSE Turn(line, f[k - 1], k)]

LEMMA UnsetIs == Main!Unset # "on" /\ Main!Unset \notin Main!Words
<1>1. /\ Main!Unset # "on" /\ Main!Unset # "--airplay-pin" /\ Main!Unset # "--cleanup-stale"
      /\ Main!Unset # "--setup-firewall" /\ Main!Unset # "--name" /\ Main!Unset # "--width"
      /\ Main!Unset # "--help" /\ Main!Unset # "--android-connect" /\ Main!Unset # "1280"
      /\ Main!Unset # "phone"
  BY Zenon DEF Main!Unset
<1> QED
  BY <1>1 DEF Main!Words, Main!Switches, Main!Values

LEMMA LoopRuns ==
    ASSUME NEW line, NEW n \in Nat
    PROVE  \E f : Runs(line, f, n)
<1> DEFINE M == {m \in Nat : \E f : Runs(line, f, m)}
<1>1. 0 \in M
  <2> DEFINE f == [k \in 0 .. 0 |-> Start]
  <2>1. f = [k \in 0 .. 0 |-> IF k = 0 THEN Start ELSE Turn(line, f[k - 1], k)]
    OBVIOUS
  <2>2. Runs(line, f, 0)
    BY <2>1 DEF Runs
  <2> QED
    BY <2>2
<1>2. ASSUME NEW m \in M  PROVE m + 1 \in M
  <2>1. m \in Nat /\ \E f : Runs(line, f, m)
    OBVIOUS
  <2>2. PICK f : Runs(line, f, m)
    BY <2>1
  <2> HIDE DEF M
  <2> DEFINE g == [k \in 0 .. m + 1 |-> IF k = m + 1 THEN Turn(line, f[m], m + 1) ELSE f[k]]
  <2>3. \A k \in 0 .. m : f[k] = IF k = 0 THEN Start ELSE Turn(line, f[k - 1], k)
    BY <2>2 DEF Runs
  <2>4. \A k \in 0 .. m : g[k] = f[k]
    BY <2>1
  <2>5. g[m + 1] = Turn(line, f[m], m + 1)
    BY <2>1
  <2>6. g = [k \in 0 .. m + 1 |-> g[k]]
    OBVIOUS
  <2> HIDE DEF g
  <2>7. ASSUME NEW k \in 0 .. m + 1
        PROVE  g[k] = IF k = 0 THEN Start ELSE Turn(line, g[k - 1], k)
    <3>1. CASE k = m + 1
      BY <2>1, <2>4, <2>5, <3>1
    <3>2. CASE k \in 1 .. m
      <4>1. k - 1 \in 0 .. m /\ k \in 0 .. m /\ k # 0
        BY <2>1, <3>2
      <4> QED
        BY <2>3, <2>4, <4>1
    <3>3. CASE k = 0
      BY <2>1, <2>3, <2>4, <3>3
    <3> QED
      BY <2>1, <3>1, <3>2, <3>3
  <2>8. Runs(line, g, m + 1)
    BY <2>6, <2>7 DEF Runs
  <2> QED
    BY <2>1, <2>8 DEF M
<1> HIDE DEF M
<1>3. n \in M
  <2>1. M \subseteq Nat
    BY DEF M
  <2> QED
    BY <1>1, <1>2, <2>1, NatsBySteps
<1> QED
  BY <1>3 DEF M

LEMMA ParsedIs ==
    ASSUME NEW line, Len(line) \in Nat
    PROVE  \E f : Runs(line, f, Len(line)) /\ Main!Parsed(line) = f[Len(line)]
<1> DEFINE h == CHOOSE f : Runs(line, f, Len(line))
<1>1. Main!Parsed(line) =
        (CHOOSE f : f = [k \in 0 .. Len(line) |->
            IF k = 0 THEN Main!Going(Main!NoOptions, FALSE)
            ELSE IF f[k - 1].on # "run" THEN f[k - 1]
                 ELSE IF f[k - 1].skip THEN [f[k - 1] EXCEPT !.skip = FALSE]
                 ELSE Main!WordTaken(line, k, f[k - 1].options)])[Len(line)]
  BY DEF Main!Parsed
<1>2. Main!Parsed(line) = h[Len(line)]
  BY <1>1 DEF Runs, Turn, Start
<1>3. Runs(line, h, Len(line))
  BY LoopRuns
<1> QED
  BY <1>2, <1>3

LEMMA WordTakenTyped ==
    ASSUME NEW line \in Seq(Main!Words), NEW i \in 1 .. Len(line), NEW o \in Options
    PROVE  Main!WordTaken(line, i, o) \in Outcome
<1>1. Len(line) \in Nat /\ (i < Len(line) => line[i + 1] \in Main!Words)
  <2>1. Len(line) \in Nat /\ (i < Len(line) => i + 1 \in 1 .. Len(line))
    BY LenProperties
  <2> QED
    BY <2>1, ElementOfSeq
<1>2. \A w \in Main!Switches \cup Main!Values, x \in {"on", Main!Unset} \cup Main!Words :
        [o EXCEPT ![w] = x] \in Options
  BY DEF Options
<1>3. "--width" \in Main!Values /\ "--name" \in Main!Values
  BY DEF Main!Values
<1>4. \A q \in Options, s \in BOOLEAN : Main!Going(q, s) \in Outcome
  BY DEF Main!Going, Outcome
<1>5. Main!Over("exit", o) \in Outcome /\ Main!Over("crash", o) \in Outcome
  BY DEF Main!Over, Outcome
<1>6. CASE line[i] \in Main!Switches
  <2>1. Main!WordTaken(line, i, o) = Main!Going([o EXCEPT ![line[i]] = "on"], FALSE)
    <3>1. line[i] # "--width" /\ line[i] # "--name"
      BY <1>6 DEF Main!Switches
    <3> QED
      BY <1>6, <3>1 DEF Main!WordTaken
  <2>2. [o EXCEPT ![line[i]] = "on"] \in Options
    BY <1>2, <1>6
  <2> QED
    BY <1>4, <2>1, <2>2
<1>7. CASE line[i] = "--width" /\ i < Len(line)
  <2>1. line[i] \notin Main!Switches
    BY <1>7 DEF Main!Switches
  <2>2. Main!WordTaken(line, i, o) =
            IF line[i + 1] = "1280" THEN Main!Going([o EXCEPT !["--width"] = line[i + 1]], TRUE)
            ELSE Main!Over("crash", o)
    BY <1>7, <2>1 DEF Main!WordTaken
  <2> QED
    BY <1>1, <1>2, <1>3, <1>4, <1>5, <1>7, <2>2
<1>8. CASE line[i] = "--name" /\ i < Len(line)
  <2>1. line[i] \notin Main!Switches
    BY <1>8 DEF Main!Switches
  <2>2. Main!WordTaken(line, i, o) = Main!Going([o EXCEPT !["--name"] = line[i + 1]], TRUE)
    BY <1>8, <2>1 DEF Main!WordTaken
  <2> QED
    BY <1>1, <1>2, <1>3, <1>4, <1>8, <2>2
<1>9. CASE /\ line[i] \notin Main!Switches
           /\ ~(line[i] = "--width" /\ i < Len(line))
           /\ ~(line[i] = "--name" /\ i < Len(line))
  <2>1. Main!WordTaken(line, i, o) = Main!Over("exit", o)
    BY <1>9 DEF Main!WordTaken
  <2> QED
    BY <1>5, <2>1
<1> QED
  BY <1>6, <1>7, <1>8, <1>9

\* A word does the same in two lines if the same comes after it.
LEMMA SameWord ==
    ASSUME NEW x, NEW i, NEW y, NEW j, NEW o, x[i] = y[j], i < Len(x) <=> j < Len(y),
           i < Len(x) => x[i + 1] = y[j + 1]
    PROVE  Main!WordTaken(x, i, o) = Main!WordTaken(y, j, o)
<1>1. CASE i < Len(x)
  <2>1. j < Len(y) /\ x[i + 1] = y[j + 1]
    BY <1>1
  <2> QED
    BY <1>1, <2>1 DEF Main!WordTaken
<1>2. CASE ~(i < Len(x))
  <2>1. ~(j < Len(y))
    BY <1>2
  <2> QED
    BY <1>2, <2>1 DEF Main!WordTaken
<1> QED
  BY <1>1, <1>2

\* A last word that is taken is a switch, and does the same wherever it is.
LEMMA LastWord ==
    ASSUME NEW x, NEW i, NEW y, NEW o, x[i] = y[i], ~(i < Len(x)),
           Main!WordTaken(x, i, o).on = "run"
    PROVE  Main!WordTaken(x, i, o) = Main!WordTaken(y, i, o)
<1>1. CASE x[i] \in Main!Switches
  BY <1>1 DEF Main!WordTaken
<1>2. CASE x[i] \notin Main!Switches
  <2>1. Main!WordTaken(x, i, o) = Main!Over("exit", o)
    BY <1>2 DEF Main!WordTaken
  <2> QED
    BY <2>1 DEF Main!Over
<1> QED
  BY <1>1, <1>2

\* The options b with those of a where b has none.
Merged(a, b, c) ==
    \A w \in Main!Switches \cup Main!Values : c[w] = IF b[w] # Main!Unset THEN b[w] ELSE a[w]

LEMMA WordMerged ==
    ASSUME NEW line \in Seq(Main!Words), NEW i \in 1 .. Len(line),
           NEW a \in Options, NEW b \in Options, NEW c \in Options, Merged(a, b, c),
           Main!WordTaken(line, i, b).on = "run"
    PROVE  LET u == Main!WordTaken(line, i, b)  v == Main!WordTaken(line, i, c) IN
           v.on = "run" /\ (v.skip <=> u.skip) /\ Merged(a, u.options, v.options)
<1> DEFINE u == Main!WordTaken(line, i, b)
           v == Main!WordTaken(line, i, c)
<1>1. Len(line) \in Nat /\ (i < Len(line) => line[i + 1] \in Main!Words)
  <2>1. Len(line) \in Nat /\ (i < Len(line) => i + 1 \in 1 .. Len(line))
    BY LenProperties
  <2> QED
    BY <2>1, ElementOfSeq
<1>2. ASSUME NEW w \in Main!Switches \cup Main!Values, NEW x \in {"on"} \cup Main!Words
      PROVE  Merged(a, [b EXCEPT ![w] = x], [c EXCEPT ![w] = x])
  <2>1. x # Main!Unset
    BY UnsetIs
  <2> QED
    BY <2>1 DEF Merged, Options
<1>3. ASSUME NEW w \in Main!Switches \cup Main!Values, NEW x \in {"on"} \cup Main!Words,
             NEW s \in BOOLEAN, u = Main!Going([b EXCEPT ![w] = x], s),
             v = Main!Going([c EXCEPT ![w] = x], s)
      PROVE  v.on = "run" /\ (v.skip <=> u.skip) /\ Merged(a, u.options, v.options)
  <2>1. u.options = [b EXCEPT ![w] = x] /\ v.options = [c EXCEPT ![w] = x]
    BY <1>3 DEF Main!Going
  <2>2. v.on = "run" /\ v.skip = s /\ u.skip = s
    BY <1>3 DEF Main!Going
  <2> QED
    BY <1>2, <2>1, <2>2
<1>4. "--width" \in Main!Values /\ "--name" \in Main!Values
  BY DEF Main!Values
<1>5. CASE line[i] \in Main!Switches
  <2>1. /\ u = Main!Going([b EXCEPT ![line[i]] = "on"], FALSE)
        /\ v = Main!Going([c EXCEPT ![line[i]] = "on"], FALSE)
    <3>1. line[i] # "--width" /\ line[i] # "--name"
      BY <1>5 DEF Main!Switches
    <3> QED
      BY <1>5, <3>1 DEF Main!WordTaken
  <2> HIDE DEF u, v
  <2>2. line[i] \in Main!Switches \cup Main!Values
    BY <1>5
  <2>3. v.on = "run" /\ (v.skip <=> u.skip) /\ Merged(a, u.options, v.options)
    BY <1>3, <2>1, <2>2
  <2> QED
    BY <2>3 DEF u, v
<1>6. CASE line[i] = "--width" /\ i < Len(line)
  <2>1. line[i] \notin Main!Switches
    BY <1>6 DEF Main!Switches
  <2>2. /\ u = IF line[i + 1] = "1280" THEN Main!Going([b EXCEPT !["--width"] = line[i + 1]], TRUE)
               ELSE Main!Over("crash", b)
        /\ v = IF line[i + 1] = "1280" THEN Main!Going([c EXCEPT !["--width"] = line[i + 1]], TRUE)
               ELSE Main!Over("crash", c)
    BY <1>6, <2>1 DEF Main!WordTaken
  <2>3. u.on = "run"
    OBVIOUS
  <2> HIDE DEF u, v
  <2>4. line[i + 1] = "1280"
    BY <2>2, <2>3 DEF Main!Over
  <2>5. /\ u = Main!Going([b EXCEPT !["--width"] = line[i + 1]], TRUE)
        /\ v = Main!Going([c EXCEPT !["--width"] = line[i + 1]], TRUE)
    BY <2>2, <2>4
  <2>6. v.on = "run" /\ (v.skip <=> u.skip) /\ Merged(a, u.options, v.options)
    BY <1>1, <1>3, <1>4, <1>6, <2>5
  <2> QED
    BY <2>6 DEF u, v
<1>7. CASE line[i] = "--name" /\ i < Len(line)
  <2>1. line[i] \notin Main!Switches
    BY <1>7 DEF Main!Switches
  <2>2. /\ u = Main!Going([b EXCEPT !["--name"] = line[i + 1]], TRUE)
        /\ v = Main!Going([c EXCEPT !["--name"] = line[i + 1]], TRUE)
    BY <1>7, <2>1 DEF Main!WordTaken
  <2> HIDE DEF u, v
  <2>3. v.on = "run" /\ (v.skip <=> u.skip) /\ Merged(a, u.options, v.options)
    BY <1>1, <1>3, <1>4, <1>7, <2>2
  <2> QED
    BY <2>3 DEF u, v
<1>8. CASE /\ line[i] \notin Main!Switches
           /\ ~(line[i] = "--width" /\ i < Len(line))
           /\ ~(line[i] = "--name" /\ i < Len(line))
  <2>1. u = Main!Over("exit", b)
    BY <1>8 DEF Main!WordTaken
  <2> QED
    BY <2>1 DEF Main!Over
<1> QED
  BY <1>5, <1>6, <1>7, <1>8

\* What the loop has made of a line's beginning is an outcome.
LEMMA RunsTyped ==
    ASSUME NEW line \in Seq(Main!Words), NEW f, Runs(line, f, Len(line))
    PROVE  \A m \in 0 .. Len(line) : f[m] \in Outcome
<1> DEFINE n == Len(line)
           M == {m \in Nat : m <= n => f[m] \in Outcome}
<1>1. n \in Nat
  BY LenProperties
<1>2. \A k \in 0 .. n : f[k] = IF k = 0 THEN Start ELSE Turn(line, f[k - 1], k)
  BY DEF Runs
<1> HIDE DEF n
<1>3. 0 \in M
  <2>1. Main!NoOptions \in Options
    BY DEF Main!NoOptions, Options
  <2>2. Start \in Outcome
    BY <2>1 DEF Start, Main!Going, Outcome
  <2> QED
    BY <1>1, <1>2, <2>2
<1>4. ASSUME NEW m \in M  PROVE m + 1 \in M
  <2> SUFFICES ASSUME m + 1 <= n  PROVE f[m + 1] \in Outcome
    OBVIOUS
  <2>1. m \in Nat /\ f[m] \in Outcome /\ m + 1 \in 1 .. n
    BY <1>1
  <2>2. f[m + 1] = Turn(line, f[m], m + 1)
    BY <1>1, <1>2, <2>1
  <2> HIDE DEF M
  <2>3. f[m].options \in Options
    BY <2>1 DEF Outcome
  <2>4. Main!WordTaken(line, m + 1, f[m].options) \in Outcome
    BY <2>1, <2>3, WordTakenTyped DEF n
  <2>5. [f[m] EXCEPT !.skip = FALSE] \in Outcome
    BY <2>1 DEF Outcome
  <2> QED
    BY <2>1, <2>2, <2>4, <2>5 DEF Turn
<1> HIDE DEF M
<1>5. \A m \in Nat : m \in M
  <2>1. M \subseteq Nat
    BY DEF M
  <2> QED
    BY <1>3, <1>4, <2>1, NatsBySteps
<1> QED
  BY <1>1, <1>5 DEF M, n

\* The loop does with a line what it does with the line's beginning, if that is
\* taken to its end.
LEMMA BeginningRuns ==
    ASSUME NEW x \in Seq(Main!Words), NEW z \in Seq(Main!Words), Len(x) <= Len(z),
           \A i \in 1 .. Len(x) : x[i] = z[i],
           NEW f, NEW h, Runs(x, f, Len(x)), Runs(z, h, Len(z)),
           f[Len(x)].on = "run", ~f[Len(x)].skip
    PROVE  h[Len(x)] = f[Len(x)]
<1> DEFINE k == Len(x)
           n == Len(z)
           M == {m \in Nat : m < k => h[m] = f[m]}
<1>1. k \in Nat /\ n \in Nat /\ k <= n
  BY LenProperties
<1>2. /\ \A m \in 0 .. k : f[m] = IF m = 0 THEN Start ELSE Turn(x, f[m - 1], m)
      /\ \A m \in 0 .. n : h[m] = IF m = 0 THEN Start ELSE Turn(z, h[m - 1], m)
  BY DEF Runs
<1>3. f[k].on = "run" /\ (\A i \in 1 .. k : x[i] = z[i])
  OBVIOUS
<1> HIDE DEF k, n
<1>4. f[0] = h[0]
  BY <1>1, <1>2
<1>5. 0 \in M
  BY <1>4
<1>6. ASSUME NEW m \in M  PROVE m + 1 \in M
  <2> SUFFICES ASSUME m + 1 < k  PROVE h[m + 1] = f[m + 1]
    OBVIOUS
  <2>1. m \in Nat /\ h[m] = f[m]
    BY <1>1
  <2>2. f[m + 1] = Turn(x, f[m], m + 1) /\ h[m + 1] = Turn(z, h[m], m + 1)
    BY <1>1, <1>2, <2>1
  <2>3. /\ m + 1 < Len(x) /\ m + 1 < Len(z)
        /\ x[m + 1] = z[m + 1] /\ x[(m + 1) + 1] = z[(m + 1) + 1]
    BY <1>1, <1>3, <2>1 DEF k, n
  <2>4. Main!WordTaken(x, m + 1, f[m].options) = Main!WordTaken(z, m + 1, f[m].options)
    BY <2>3, SameWord
  <2> HIDE DEF M
  <2> QED
    BY <2>1, <2>2, <2>4 DEF Turn
<1>7. \A m \in Nat : m \in M
  <2> HIDE DEF M
  <2>1. M \subseteq Nat
    BY DEF M
  <2> QED
    BY <1>5, <1>6, <2>1, NatsBySteps
<1>8. ASSUME k = 0
      PROVE  h[k] = f[k]
  BY <1>4, <1>8
<1>9. ASSUME k # 0
      PROVE  h[k] = f[k]
  <2>1. k - 1 \in Nat /\ k - 1 < k /\ k \in 0 .. k /\ k \in 0 .. n /\ k \in 1 .. k
    BY <1>1, <1>9
  <2>2. h[k - 1] = f[k - 1]
    BY <1>7, <2>1
  <2>3. f[k] = Turn(x, f[k - 1], k) /\ h[k] = Turn(z, f[k - 1], k)
    BY <1>2, <1>9, <2>1, <2>2
  <2>4. x[k] = z[k] /\ ~(k < Len(x))
    BY <1>1, <1>3, <2>1 DEF k
  <2>5. f[k].on = "run"
    BY <1>3
  <2>6. CASE f[k - 1].on # "run"
    BY <2>3, <2>6 DEF Turn
  <2>7. CASE f[k - 1].on = "run" /\ f[k - 1].skip
    BY <2>3, <2>7 DEF Turn
  <2>8. CASE f[k - 1].on = "run" /\ ~f[k - 1].skip
    <3>1. /\ f[k] = Main!WordTaken(x, k, f[k - 1].options)
          /\ h[k] = Main!WordTaken(z, k, f[k - 1].options)
      BY <2>3, <2>8 DEF Turn
    <3>2. Main!WordTaken(x, k, f[k - 1].options).on = "run"
      BY <2>5, <3>1
    <3> QED
      BY <2>4, <3>1, <3>2, LastWord
  <2> QED
    BY <2>6, <2>7, <2>8
<1> QED
  BY <1>8, <1>9 DEF k

\* From there on it does what it does with the rest, over the options it has.
LEMMA RestRuns ==
    ASSUME NEW y \in Seq(Main!Words), NEW z \in Seq(Main!Words), NEW k \in Nat,
           Len(z) = k + Len(y), \A i \in 1 .. Len(y) : y[i] = z[k + i],
           NEW g, NEW h, Runs(y, g, Len(y)), Runs(z, h, Len(z)),
           h[k].on = "run", ~h[k].skip, g[Len(y)].on = "run"
    PROVE  h[Len(z)].on = "run" /\ Merged(h[k].options, g[Len(y)].options, h[Len(z)].options)
<1> DEFINE l == Len(y)
           n == Len(z)
           a == h[k].options
           Like(m) == /\ h[k + m].on = "run" /\ (h[k + m].skip <=> g[m].skip)
                      /\ Merged(a, g[m].options, h[k + m].options)
           M == {m \in Nat : (m <= l /\ g[m].on = "run") => Like(m)}
<1>1. l \in Nat /\ n \in Nat /\ n = k + l
  BY LenProperties
<1>2. /\ \A m \in 0 .. l : g[m] = IF m = 0 THEN Start ELSE Turn(y, g[m - 1], m)
      /\ \A m \in 0 .. n : h[m] = IF m = 0 THEN Start ELSE Turn(z, h[m - 1], m)
  BY DEF Runs
<1>3. (\A m \in 0 .. l : g[m] \in Outcome) /\ (\A m \in 0 .. n : h[m] \in Outcome)
  BY RunsTyped
<1> HIDE DEF n, l
<1>4. a \in Options
  <2>1. h[k] \in Outcome
    BY <1>1, <1>3
  <2> QED
    BY <2>1 DEF Outcome
<1>5. 0 \in M
  <2>1. g[0] = Start
    BY <1>1, <1>2
  <2>2. g[0].options = Main!NoOptions /\ g[0].skip = FALSE
    BY <2>1 DEF Start, Main!Going
  <2>3. \A w \in Main!Switches \cup Main!Values : Main!NoOptions[w] = Main!Unset
    BY DEF Main!NoOptions
  <2>4. Merged(a, Main!NoOptions, a)
    BY <2>3 DEF Merged
  <2>5. k + 0 = k
    OBVIOUS
  <2>6. Like(0)
    BY <2>2, <2>4, <2>5
  <2> HIDE DEF Like
  <2> QED
    BY <2>6
<1> HIDE DEF a
<1>6. ASSUME NEW m \in M  PROVE m + 1 \in M
  <2> SUFFICES ASSUME m + 1 <= l, g[m + 1].on = "run"  PROVE Like(m + 1)
    OBVIOUS
  <2>1. m \in Nat /\ (g[m].on = "run" => Like(m))
    BY <1>1
  <2> HIDE DEF M
  <2>2. /\ m \in 0 .. l /\ m + 1 \in 0 .. l /\ m + 1 # 0 /\ (m + 1) - 1 = m
        /\ k + m \in 0 .. n /\ k + (m + 1) \in 0 .. n /\ k + (m + 1) # 0
        /\ (k + (m + 1)) - 1 = k + m
        /\ m + 1 \in 1 .. l /\ k + (m + 1) \in 1 .. n
    BY <1>1, <2>1
  <2> DEFINE i == m + 1
             j == k + i
  <2>3. g[i] = Turn(y, g[m], i) /\ h[j] = Turn(z, h[k + m], j)
    BY <1>2, <2>2
  <2>4. g[m].on = "run"
    BY <2>3 DEF Turn
  <2>5. Like(m)
    BY <2>1, <2>4
  <2>6. g[m] \in Outcome /\ h[k + m] \in Outcome
    BY <1>3, <2>2
  <2>7. /\ i \in 1 .. Len(y) /\ j \in 1 .. Len(z) /\ y[i] = z[j]
        /\ (i < Len(y) <=> j < Len(z)) /\ (i < Len(y) => y[i + 1] = z[j + 1])
    <3>1. /\ i \in 1 .. Len(y) /\ j \in 1 .. Len(z) /\ (i < Len(y) <=> j < Len(z))
      BY <1>1, <2>2 DEF l, n
    <3>2. y[i] = z[j]
      BY <3>1
    <3>3. i < Len(y) => i + 1 \in 1 .. Len(y) /\ k + (i + 1) = j + 1
      BY <1>1, <2>1 DEF l
    <3>4. i < Len(y) => y[i + 1] = z[j + 1]
      BY <3>3
    <3> QED
      BY <3>1, <3>2, <3>4
  <2>8. g[i].on = "run"
    OBVIOUS
  <2> HIDE DEF i, j
  <2>9. CASE g[m].skip
    <3>1. h[k + m].on = "run" /\ h[k + m].skip
      BY <2>5, <2>9
    <3>2. /\ g[i] = [g[m] EXCEPT !.skip = FALSE]
          /\ h[j] = [h[k + m] EXCEPT !.skip = FALSE]
      BY <2>3, <2>4, <2>9, <3>1 DEF Turn
    <3>3. /\ g[i].skip = FALSE /\ g[i].options = g[m].options
          /\ h[j].on = h[k + m].on /\ h[j].skip = FALSE /\ h[j].options = h[k + m].options
      BY <2>6, <3>2 DEF Outcome
    <3>4. Merged(a, g[i].options, h[j].options)
      BY <2>5, <3>3
    <3> QED
      BY <3>1, <3>3, <3>4 DEF i, j
  <2>10. CASE ~g[m].skip
    <3>1. h[k + m].on = "run" /\ ~h[k + m].skip
      BY <2>5, <2>10
    <3> DEFINE b == g[m].options
               c == h[k + m].options
    <3>2. b \in Options /\ c \in Options /\ Merged(a, b, c)
      BY <2>5, <2>6 DEF Outcome
    <3>3. g[i] = Main!WordTaken(y, i, b) /\ h[j] = Main!WordTaken(z, j, c)
      BY <2>3, <2>4, <2>10, <3>1 DEF Turn
    <3> HIDE DEF b, c
    <3>4. Main!WordTaken(y, i, b) = Main!WordTaken(z, j, b)
      <4>1. y[i] = z[j] /\ (i < Len(y) <=> j < Len(z)) /\ (i < Len(y) => y[i + 1] = z[j + 1])
        BY <2>7
      <4> QED
        BY <4>1, SameWord, SMTT(30)
    <3>5. Main!WordTaken(z, j, b).on = "run"
      BY <2>8, <3>3, <3>4
    <3>6. /\ h[j].on = "run" /\ (h[j].skip <=> g[i].skip)
          /\ Merged(a, g[i].options, h[j].options)
      BY <1>4, <2>7, <3>2, <3>3, <3>4, <3>5, WordMerged
    <3> QED
      BY <3>6 DEF i, j
  <2> QED
    BY <2>9, <2>10
<1>7. \A m \in Nat : m \in M
  <2> HIDE DEF M
  <2>1. M \subseteq Nat
    BY DEF M
  <2> QED
    BY <1>5, <1>6, <2>1, NatsBySteps
<1>8. Like(l)
  <2>1. l \in Nat /\ l <= l /\ g[l].on = "run"
    BY <1>1 DEF l
  <2> HIDE DEF Like
  <2> QED
    BY <1>7, <2>1
<1> QED
  BY <1>1, <1>8 DEF l, n, a

LEMMA LinesServe ==
    ASSUME args \in [Processes -> Seq(Main!Words)]
    PROVE  Main!LinesCompose
<1> SUFFICES ASSUME NEW p \in Processes, NEW k \in 0 .. Len(args[p])
             PROVE  LET a == Main!Parsed(SubSeq(args[p], 1, k))
                        b == Main!Parsed(SubSeq(args[p], k + 1, Len(args[p])))
                        c == Main!Parsed(args[p])
                    IN  (a.on = "run" /\ ~a.skip /\ b.on = "run") =>
                            /\ c.on = "run"
                            /\ \A w \in DOMAIN Main!NoOptions :
                                c.options[w] = IF b.options[w] # Main!Unset THEN b.options[w]
                                               ELSE a.options[w]
  BY DEF Main!LinesCompose
<1> DEFINE z == args[p]
           n == Len(z)
           x == SubSeq(z, 1, k)
           y == SubSeq(z, k + 1, n)
<1>1. z \in Seq(Main!Words) /\ n \in Nat /\ k \in Nat /\ k <= n
  <2>1. z \in Seq(Main!Words)
    OBVIOUS
  <2>2. n \in Nat
    BY <2>1, LenProperties
  <2> QED
    BY <2>1, <2>2
<1> HIDE DEF z
<1>2. x \in Seq(Main!Words) /\ Len(x) = k /\ \A i \in 1 .. k : x[i] = z[i]
  <2>1. \A i \in 1 .. k : z[i] \in Main!Words
    BY <1>1, ElementOfSeq
  <2>2. x = [i \in 1 .. (1 + k) - 1 |-> z[i + 1 - 1]]
    BY <1>1
  <2>3. (1 + k) - 1 = k /\ \A i \in 1 .. k : i + 1 - 1 = i
    BY <1>1
  <2>4. x = [i \in 1 .. k |-> z[i]]
    BY <2>2, <2>3
  <2> HIDE DEF x
  <2>5. x \in [1 .. k -> Main!Words]
    BY <2>1, <2>4
  <2> QED
    BY <1>1, <2>4, <2>5
<1>3. y \in Seq(Main!Words) /\ Len(y) = n - k /\ \A i \in 1 .. n - k : y[i] = z[k + i]
  <2>1. \A i \in 1 .. n - k : k + i \in 1 .. n /\ z[k + i] \in Main!Words
    <3>1. \A i \in 1 .. n - k : k + i \in 1 .. n
      BY <1>1
    <3> QED
      BY <1>1, <3>1, ElementOfSeq
  <2>2. y = [i \in 1 .. (1 + n) - (k + 1) |-> z[i + (k + 1) - 1]]
    BY <1>1
  <2>3. (1 + n) - (k + 1) = n - k /\ \A i \in 1 .. n - k : i + (k + 1) - 1 = k + i
    BY <1>1
  <2>4. y = [i \in 1 .. n - k |-> z[k + i]]
    BY <2>2, <2>3
  <2> HIDE DEF y, n
  <2> DEFINE l == n - k
  <2>5. y = [i \in 1 .. l |-> z[k + i]] /\ \A i \in 1 .. l : z[k + i] \in Main!Words
    BY <2>1, <2>4
  <2>6. l \in Nat
    BY <1>1
  <2> HIDE DEF l
  <2>7. y \in [1 .. l -> Main!Words]
    BY <2>5
  <2>8. y \in Seq(Main!Words) /\ Len(y) = l /\ \A i \in 1 .. l : y[i] = z[k + i]
    BY <2>5, <2>6, <2>7
  <2> QED
    BY <2>8 DEF l
<1> HIDE DEF x, y, n
<1>4. PICK f : Runs(x, f, k) /\ Main!Parsed(x) = f[k]
  <2>1. Len(x) \in Nat /\ Len(x) = k
    BY <1>1, <1>2
  <2>2. \E f : Runs(x, f, Len(x)) /\ Main!Parsed(x) = f[Len(x)]
    BY <2>1, ParsedIs
  <2> QED
    BY <2>1, <2>2
<1>5. PICK g : Runs(y, g, n - k) /\ Main!Parsed(y) = g[n - k]
  <2>1. Len(y) \in Nat /\ Len(y) = n - k
    BY <1>1, <1>3
  <2>2. \E g : Runs(y, g, Len(y)) /\ Main!Parsed(y) = g[Len(y)]
    BY <2>1, ParsedIs
  <2> QED
    BY <2>1, <2>2
<1>6. PICK h : Runs(z, h, n) /\ Main!Parsed(z) = h[n]
  BY <1>1, ParsedIs DEF n
<1>7. ASSUME f[k].on = "run", ~f[k].skip, g[n - k].on = "run"
      PROVE  h[n].on = "run" /\ Merged(f[k].options, g[n - k].options, h[n].options)
  <2>1. h[k] = f[k]
    <3>1. Len(x) <= Len(z) /\ \A i \in 1 .. Len(x) : x[i] = z[i]
      BY <1>1, <1>2 DEF n
    <3>2. Runs(x, f, Len(x)) /\ Runs(z, h, Len(z))
      BY <1>2, <1>4, <1>6 DEF n
    <3>3. f[Len(x)].on = "run" /\ ~f[Len(x)].skip
      BY <1>2, <1>7
    <3>4. h[Len(x)] = f[Len(x)]
      BY <1>1, <1>2, <3>1, <3>2, <3>3, BeginningRuns
    <3> QED
      BY <1>2, <3>4
  <2>2. Len(z) = k + Len(y) /\ \A i \in 1 .. Len(y) : y[i] = z[k + i]
    BY <1>1, <1>3 DEF n
  <2>3. Runs(y, g, Len(y)) /\ Runs(z, h, Len(z)) /\ g[Len(y)].on = "run"
    BY <1>3, <1>5, <1>6, <1>7 DEF n
  <2>4. h[k].on = "run" /\ ~h[k].skip
    BY <1>7, <2>1
  <2>5. /\ h[Len(z)].on = "run"
        /\ Merged(h[k].options, g[Len(y)].options, h[Len(z)].options)
    BY <1>1, <1>3, <2>2, <2>3, <2>4, RestRuns
  <2> QED
    BY <1>3, <2>1, <2>5 DEF n
<1>8. DOMAIN Main!NoOptions = Main!Switches \cup Main!Values
  BY DEF Main!NoOptions
<1> DEFINE a == Main!Parsed(x)
           b == Main!Parsed(y)
           c == Main!Parsed(z)
<1>9. (a.on = "run" /\ ~a.skip /\ b.on = "run") =>
        c.on = "run" /\ Merged(a.options, b.options, c.options)
  BY <1>4, <1>5, <1>6, <1>7
<1> HIDE DEF a, b, c
<1>10. (a.on = "run" /\ ~a.skip /\ b.on = "run") =>
        /\ c.on = "run"
        /\ \A w \in DOMAIN Main!NoOptions :
            c.options[w] = IF b.options[w] # Main!Unset THEN b.options[w] ELSE a.options[w]
  BY <1>8, <1>9 DEF Merged
<1> QED
  BY <1>10 DEF a, b, c, x, y, n, z

LEMMA LinesBegin ==
    ASSUME Main!Init
    PROVE  args \in [Processes -> Seq(Main!Words)]
<1>1. PICK p \in Processes, line \in UNION {[1 .. n -> Main!Words] : n \in 0 .. MaxArguments} :
        args = [q \in Processes |-> IF q = p THEN line ELSE <<"--cleanup-stale">>]
  BY DEF Main!Init
<1>2. PICK n \in 0 .. MaxArguments : line \in [1 .. n -> Main!Words]
  OBVIOUS
<1>3. n \in Nat
  OBVIOUS
<1>4. line \in Seq(Main!Words)
  BY <1>2, <1>3
<1>5. "--cleanup-stale" \in Main!Words
  BY DEF Main!Words, Main!Switches
<1>6. <<"--cleanup-stale">> \in Seq(Main!Words)
  BY <1>5
<1> QED
  BY <1>1, <1>4, <1>6

LEMMA LinesStep ==
    ASSUME args \in [Processes -> Seq(Main!Words)], Main!Next
    PROVE  args' \in [Processes -> Seq(Main!Words)]
<1>1. PICK p \in Processes :
        \/ Main!Launch(p)
        \/ Main!Lists(p) \/ Main!KillsNobody(p) \/ (\E q \in Processes : Main!Kills(p, q))
        \/ Main!Listed(p)
        \/ Main!Asks(p) \/ Main!AsksNot(p) \/ Main!Elevates(p)
        \/ Main!Names(p) \/ Main!Lives(p)
  BY DEF Main!Next
<1>2. CASE Main!Launch(p)
  <2>1. args' = [args EXCEPT ![p] = <<>>]
    BY <1>2 DEF Main!Launch
  <2>2. <<>> \in Seq(Main!Words)
    BY EmptySeq
  <2> QED
    BY <2>1, <2>2
<1>3. CASE ~Main!Launch(p)
  <2>1. UNCHANGED args
    BY <1>1, <1>3 DEF Main!Lists, Main!KillsNobody, Main!Kills, Main!Listed,
       Main!Asks,
                      Main!AsksNot, Main!Elevates, Main!Names, Main!Lives, Main!Kept,
                      Main!WallKept
  <2> QED
    BY <2>1
<1> QED
  BY <1>2, <1>3

(***************************************************************************)
(* The program.                                                            *)
(***************************************************************************)

\* Every part's invariant holds whichever part moves: the others stay as they began.
ProgramInv ==
    /\ part \in Parts
    /\ UpdateInv /\ LogInv /\ SettingsInv /\ UsageInv /\ MainInv
    /\ args \in [Processes -> Seq(Main!Words)]

LEMMA ProgramBegins ==
    ASSUME ProgramInit
    PROVE  ProgramInv
<1>1. part \in Parts /\ Update!Init /\ Log!Init /\ Files!Init /\ Usage!Init /\ Main!Init
  BY DEF ProgramInit
<1> QED
  BY <1>1, UpdateBegins, LogBegins, SettingsBegin, UsageBegins, MainBegins, LinesBegin
  DEF ProgramInv

LEMMA ProgramKept ==
    ASSUME ProgramInv, [ProgramNext]_allVars
    PROVE  ProgramInv'
<1>1. part' = part
  BY DEF ProgramNext, allVars
<1>2. UpdateInv'
  <2>1. CASE Update!Next
    BY <2>1, UpdateStep DEF ProgramInv
  <2>2. CASE UNCHANGED updateV
    <3>1. /\ UNCHANGED <<in_progress, workers, latest, url, banner, drawn, cached, toast>>
          /\ gone' = gone
      BY <2>2 DEF updateV
    <3>2. gone \in BOOLEAN
      BY DEF ProgramInv, UpdateInv, UpdateTyped
    <3> QED
      BY <3>1, <3>2, UpdateStill DEF ProgramInv
  <2> QED
    BY <2>1, <2>2 DEF ProgramNext, allVars
<1>3. LogInv'
  <2>1. Log!Next \/ UNCHANGED logV
    BY DEF ProgramNext, allVars
  <2> QED
    BY <2>1, LogStep, LogStill DEF ProgramInv
<1>4. SettingsInv'
  <2>1. Files!Next \/ UNCHANGED settingsV
    BY DEF ProgramNext, allVars
  <2> QED
    BY <2>1, SettingsStep, SettingsStill DEF ProgramInv
<1>5. UsageInv'
  <2>1. Usage!Next \/ UNCHANGED usageV
    BY DEF ProgramNext, allVars
  <2> QED
    BY <2>1, UsageStep, UsageStill DEF ProgramInv
<1>6. MainInv' /\ args' \in [Processes -> Seq(Main!Words)]
  <2>1. CASE Main!Next
    BY <2>1, MainStep, LinesStep DEF ProgramInv
  <2>2. CASE UNCHANGED mainV
    <3>1. UNCHANGED args
      BY <2>2 DEF mainV
    <3> QED
      BY <2>2, <3>1, MainStill DEF ProgramInv
  <2> QED
    BY <2>1, <2>2 DEF ProgramNext, allVars
<1> QED
  BY <1>1, <1>2, <1>3, <1>4, <1>5, <1>6 DEF ProgramInv

\* The update's banner, the log's drawer, the settings and the pings, the usage
\* log's rows and main()'s command lines and processes do as ProgramSafe says, for
\* any number of each.
THEOREM ProgramServed == ProgramSpec => []ProgramSafe
<1>1. ProgramInv => ProgramSafe
  <2> SUFFICES ASSUME ProgramInv  PROVE ProgramSafe
    OBVIOUS
  <2>1. /\ Update!TypeOK /\ Update!OneWriter /\ Update!PageOfVersion
        /\ Update!BannerOfFound /\ Update!FoundIfLater /\ Update!AskerTold
    BY UpdateServes DEF ProgramInv
  <2>2. Log!TypeOK /\ Log!LinesWhole /\ Log!LastLinesKept /\ Log!RowsCurrent
    BY LogServes DEF ProgramInv
  <2>3. /\ Files!TypeOK /\ Files!SettingsInRange /\ Files!ChoiceKept
        /\ Files!PingsWanted /\ Files!SameIdentity
    BY SettingsServe DEF ProgramInv
  <2>4. Usage!TypeOK /\ Usage!StatsCountRows /\ Usage!RowsShownBack
    BY UsageServes DEF ProgramInv
  <2>5. Main!TypeOK /\ Main!LinesCompose /\ Main!SomeoneLeft /\ Main!OldOnesGone
    BY MainServes, LinesServe DEF ProgramInv
  <2>6. part \in {"arbiter", "update", "log", "settings", "usage", "main"}
    BY DEF ProgramInv, Parts
  <2> QED
    BY <2>1, <2>2, <2>3, <2>4, <2>5, <2>6 DEF ProgramSafe
<1> QED
  BY <1>1, ProgramBegins, ProgramKept, PTL DEF ProgramSpec

\* The log's thumb stays among its rows, and the firewall's rules are made for a
\* user who has agreed twice, whatever else the program does.
THEOREM ProgramSteps == ProgramSpec => StepsAllowed
<1>1. ASSUME ProgramInv, [ProgramNext]_allVars
      PROVE  [Log!Draw => /\ offset' \in 0 .. Log!MaxScroll(Len(rows'))
                          /\ (version # row_version /\ ~dragging)
                                => offset' = Log!MaxScroll(Len(rows'))]_Log!panelVars
  BY <1>1, LogDraws DEF ProgramInv
<1>2. ASSUME ProgramInv, [ProgramNext]_allVars
      PROVE  [rules' # rules => \E p \in Processes : agreed[p] = 2]_Main!startVars
  <2>1. Main!Next \/ UNCHANGED mainV
    BY <1>2 DEF ProgramNext, allVars
  <2>2. CASE Main!Next
    BY <1>2, <2>2, MainStep DEF ProgramInv
  <2>3. CASE UNCHANGED mainV
    BY <2>3 DEF mainV
  <2> QED
    BY <2>1, <2>2, <2>3
<1> QED
  BY <1>1, <1>2, ProgramBegins, ProgramKept, PTL
  DEF ProgramSpec, StepsAllowed, Log!DrawnInside, Main!RulesAgreed

\* What is proved of the arbiter holds of the program, whose other parts leave it
\* alone.
THEOREM ProgramArbitrates == ProgramSpec => Spec
<1>1. ProgramInit => Init
  BY DEF ProgramInit
<1>2. [ProgramNext]_allVars => [Next]_vars
  BY DEF ProgramNext, allVars
<1> QED
  BY <1>1, <1>2, PTL DEF ProgramSpec, Spec
=============================================================================
