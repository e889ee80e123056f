----------------------- MODULE AirPlaySources_proofs -----------------------
(***************************************************************************)
(* Proofs about AirPlaySources: for any number of devices, connections,    *)
(* audio threads, disconnects and socket handles.                          *)
(***************************************************************************)
EXTENDS AirPlaySources, TLAPS

\* What get_or_create_source_locked returns is a source.
LEMMA SourceOfType ==
    ASSUME TypeOK, NEW ip \in Ips
    PROVE  SourceOf(ip) \in Source
  BY DEF TypeOK, SourceOf, Source, NoSource

\* A source stays one when one of its fields changes.
LEMMA SourceFields ==
    ASSUME NEW src \in Source
    PROVE  /\ \A h \in Handles \cup {NoHandle} :
                 /\ [src EXCEPT !.mirror_sock = h] \in Source
                 /\ [src EXCEPT !.audio_sock = h] \in Source
           /\ [src EXCEPT !.has_aes_key = TRUE] \in Source
           /\ [src EXCEPT !.has_aes_iv = TRUE] \in Source
           /\ \A b \in BOOLEAN : [src EXCEPT !.paused = b] \in Source
  BY DEF Source

\* Storing a source, or updating one, keeps the registry's types.
LEMMA StoreType ==
    ASSUME TypeOK, NEW ip \in Ips, NEW src \in Source, Store(ip, src) \/ Update(ip, src)
    PROVE  /\ reg' \subseteq Ips
           /\ sources' \in [Ips -> Source]
           /\ nextNumber' \in Nat
  BY DEF TypeOK, Store, Update

\* Every state of the registry and of its threads has its type: in particular
\* the slots of a source hold handles or INVALID_SOCK, never anything else.
THEOREM Typing == Spec => []TypeOK
<1>1. Init => TypeOK
  BY ThreadsAssumption DEF Init, TypeOK, Source, NoSource, Locations, Threads
<1>2. TypeOK /\ [Next]_vars => TypeOK'
  <2> SUFFICES ASSUME TypeOK, [Next]_vars PROVE TypeOK'
    OBVIOUS
  <2> USE ThreadsAssumption, NoHandleAssumption
  <2>1. ASSUME NEW c \in Conns, Accept(c) PROVE TypeOK'
    BY <2>1 DEF Accept, Bound, FreeHandles, TypeOK, Threads, Locations, Goto, registryVars
  <2>2. ASSUME NEW c \in Conns, Register(c) PROVE TypeOK'
    <3>1. PeerOf[c] \in Ips /\ sock[c] \in Handles \cup {NoHandle}
      BY DEF TypeOK, Threads
    <3>2. SourceOf(PeerOf[c]) \in Source
      BY <3>1, SourceOfType
    <3>3. [SourceOf(PeerOf[c]) EXCEPT !.mirror_sock = sock[c]] \in Source
      BY <3>1, <3>2, SourceFields
    <3>4. SourceOf(PeerOf[c]).mirror_sock \in Handles \cup {NoHandle}
      BY <3>2 DEF Source
    <3> QED
      BY <2>2, <3>1, <3>3, <3>4, StoreType DEF Register, TypeOK, Threads, Locations, Goto
  <2>3. ASSUME NEW c \in Conns, Replace(c) PROVE TypeOK'
    BY <2>3 DEF Replace, Closed, TypeOK, Threads, Locations, Goto, registryVars
  <2>4. ASSUME NEW c \in Conns, Check(c) PROVE TypeOK'
    BY <2>4 DEF Check, Moves, TypeOK, Threads, Locations, Goto, registryVars
  <2>5. ASSUME NEW c \in Conns, RecvFails(c) PROVE TypeOK'
    BY <2>5 DEF RecvFails, Moves, TypeOK, Threads, Locations, Goto, registryVars
  <2>6. ASSUME NEW c \in Conns, ReceiveOther(c) PROVE TypeOK'
    BY <2>6 DEF ReceiveOther, Moves, TypeOK, Threads, Locations, Goto, registryVars
  <2>7. ASSUME NEW c \in Conns, ReceiveVideo(c) PROVE TypeOK'
    <3>1. PeerOf[c] \in Ips /\ sources[PeerOf[c]] \in Source
      BY DEF TypeOK
    <3>2. [sources[PeerOf[c]] EXCEPT !.paused = FALSE] \in Source
      BY <3>1, SourceFields
    <3> QED
      BY <2>7, <3>1, <3>2, StoreType DEF ReceiveVideo, TypeOK, Threads, Locations, Goto
  <2>8. ASSUME NEW c \in Conns, ReceivePause(c) PROVE TypeOK'
    <3>1. PeerOf[c] \in Ips /\ sources[PeerOf[c]] \in Source
      BY DEF TypeOK
    <3>2. [sources[PeerOf[c]] EXCEPT !.paused = TRUE] \in Source
      BY <3>1, SourceFields
    <3> QED
      BY <2>8, <3>1, <3>2, StoreType DEF ReceivePause, TypeOK, Threads, Locations, Goto
  <2>9. ASSUME NEW c \in Conns, Grab(c) PROVE TypeOK'
    BY <2>9 DEF Grab, Moves, TypeOK, Threads, Locations, Goto, registryVars
  <2>10. ASSUME NEW c \in Conns, Decode(c) PROVE TypeOK'
    BY <2>10 DEF Decode, Moves, TypeOK, Threads, Locations, Goto, registryVars
  <2>11. ASSUME NEW c \in Conns, DecodeErased(c) PROVE TypeOK'
    BY <2>11 DEF DecodeErased, TypeOK, Threads, Locations, Goto, registryVars
  <2>12. ASSUME NEW c \in Conns, Deliver(c) PROVE TypeOK'
    BY <2>12 DEF Deliver, Moves, TypeOK, Threads, Locations, Goto, registryVars
  <2>13. ASSUME NEW c \in Conns, Forward(c) PROVE TypeOK'
    BY <2>13 DEF Forward, Moves, TypeOK, Threads, Locations, Goto, registryVars
  <2>14. ASSUME NEW c \in Conns, Superseded(c) PROVE TypeOK'
    BY <2>14 DEF Superseded, Moves, TypeOK, Threads, Locations, Goto, registryVars
  <2>15. ASSUME NEW c \in Conns, AwaitDecoder(c) PROVE TypeOK'
    BY <2>15 DEF AwaitDecoder, TypeOK, Threads, Locations, Goto, registryVars
  <2>16. ASSUME NEW c \in Conns, EraseSource(c) PROVE TypeOK'
    <3>1. PeerOf[c] \in Ips /\ NoSource \in Source
      BY DEF Source, NoSource
    <3>2. active' \in Ips \cup {NoIp}
      BY <2>16 DEF EraseSource, Promote, Streaming, TypeOK
    <3> QED
      BY <2>16, <3>1, <3>2
      DEF EraseSource, NumberAfterErase, TypeOK, Threads, Locations, Goto
  <2>17. ASSUME NEW t \in Conns \cup AudioThreads, CloseSocket(t) PROVE TypeOK'
    BY <2>17 DEF CloseSocket, Closed, TypeOK, Threads, Locations, Goto, registryVars
  <2>18. ASSUME NEW ip \in Ips, SetupIv(ip) PROVE TypeOK'
    <3>1. [SourceOf(ip) EXCEPT !.has_aes_iv = TRUE] \in Source
      BY SourceOfType, SourceFields
    <3> QED
      BY <2>18, <3>1, StoreType DEF SetupIv, TypeOK, Threads, Locations, Goto
  <2>19. ASSUME NEW ip \in Ips, SetupNoIv(ip) PROVE TypeOK'
    BY <2>19 DEF SetupNoIv, Moves, TypeOK, Threads, Locations, Goto, registryVars
  <2>20. ASSUME NEW ip \in Ips, SetupKey(ip) PROVE TypeOK'
    <3>1. [SourceOf(ip) EXCEPT !.has_aes_key = TRUE] \in Source
      BY SourceOfType, SourceFields
    <3> QED
      BY <2>20, <3>1, StoreType DEF SetupKey, TypeOK, Threads, Locations, Goto
  <2>21. ASSUME NEW ip \in Ips, SetupNoKey(ip) PROVE TypeOK'
    BY <2>21 DEF SetupNoKey, Moves, TypeOK, Threads, Locations, Goto, registryVars
  <2>22. ASSUME NEW ip \in Ips, SetupMirror(ip) PROVE TypeOK'
    BY <2>22, SourceOfType, StoreType DEF SetupMirror, TypeOK
  <2>23. ASSUME NEW ip \in Ips, RefuseAudio(ip) PROVE TypeOK'
    <3>1. SourceOf(ip) \in Source /\ [SourceOf(ip) EXCEPT !.audio_sock = NoHandle] \in Source
      BY SourceOfType, SourceFields
    <3> QED
      BY <2>23, <3>1, StoreType DEF RefuseAudio, TypeOK
  <2>24. ASSUME NEW ip \in Ips, NEW a \in AudioThreads, StartAudio(ip, a) PROVE TypeOK'
    <3>1. PICK h \in FreeHandles(table) :
             /\ Store(ip, [SourceOf(ip) EXCEPT !.audio_sock = h])
             /\ table' = Bound(table, h, a)
             /\ sock' = [sock EXCEPT ![a] = h]
      BY <2>24 DEF StartAudio
    <3>2. h \in Handles
      BY DEF FreeHandles
    <3>3. [SourceOf(ip) EXCEPT !.audio_sock = h] \in Source
      BY <3>2, SourceOfType, SourceFields
    <3> QED
      BY <2>24, <3>1, <3>2, <3>3, StoreType
      DEF StartAudio, TypeOK, Threads, Locations, Goto, Bound
  <2>25. ASSUME NEW ip \in Ips, SetupDone(ip) PROVE TypeOK'
    BY <2>25 DEF SetupDone, Moves, TypeOK, Threads, Locations, Goto, registryVars
  <2>26. ASSUME NEW ip \in Ips, TeardownAudio(ip) PROVE TypeOK'
    <3>1. [sources[ip] EXCEPT !.audio_sock = NoHandle] \in Source
      BY SourceFields DEF TypeOK
    <3> QED
      BY <2>26, <3>1, StoreType DEF TeardownAudio, TypeOK
  <2>27. ASSUME NEW a \in AudioThreads, QuitAudio(a) PROVE TypeOK'
    BY <2>27 DEF QuitAudio, Moves, TypeOK, Threads, Locations, Goto, registryVars
  <2>28. ASSUME NEW ip \in Ips, Select(ip) PROVE TypeOK'
    BY <2>28 DEF Select, TypeOK
  <2>29. ASSUME NEW k \in Kickers, KickRead(k) PROVE TypeOK'
    BY <2>29 DEF KickRead, Source, TypeOK, Threads, Locations, Goto, registryVars
  <2>30. ASSUME NEW k \in Kickers, KickClose(k) PROVE TypeOK'
    BY <2>30 DEF KickClose, Closed, TypeOK, Threads, Locations, Goto, registryVars
  <2>31. ASSUME Stop PROVE TypeOK'
    BY <2>31 DEF Stop, TypeOK, registryVars
  <2>32. ASSUME UNCHANGED vars PROVE TypeOK'
    BY <2>32 DEF vars, TypeOK, registryVars
  <2>33. QED
    BY <2>1, <2>2, <2>3, <2>4, <2>5, <2>6, <2>7, <2>8, <2>9, <2>10, <2>11, <2>12, <2>13, <2>14, <2>15, <2>16,
       <2>17, <2>18, <2>19, <2>20, <2>21, <2>22, <2>23, <2>24, <2>25, <2>26, <2>27, <2>28, <2>29, <2>30, <2>31, <2>32
    DEF Next, MirrorStep, Arrival, SetupStep, Request
<1>3. QED
  BY <1>1, <1>2, PTL DEF Spec

-----------------------------------------------------------------------------
(***************************************************************************)
(* What the AirPlay server's source registry guarantees, for any number of *)
(* devices, threads and handles: the picker's invariants, that every dot   *)
(* has its handler, that no socket leaks, and that the registry implements *)
(* the abstract picker.                                                    *)
(***************************************************************************)

(* The registry changes in four ways only.                                 *)

\* A session is set up, or one of its fields changes.
Announces(ip) ==
    /\ \E src \in Source : /\ Store(ip, src)
                           /\ src.number = SourceOf(ip).number
                           /\ src.mirror_sock = SourceOf(ip).mirror_sock
    /\ active' = active

\* A mirror connection takes the slot.
Connects(ip) ==
    /\ \E src \in Source : /\ Store(ip, src)
                           /\ src.number = SourceOf(ip).number
                           /\ src.mirror_sock # NoHandle
    /\ active' = IF active = NoIp THEN ip ELSE active

\* The slot's connection ends.
Erases(ip) ==
    /\ ip \in Streaming
    /\ reg' = reg \ {ip}
    /\ sources' = [sources EXCEPT ![ip] = NoSource]
    /\ Promote(ip)
    /\ nextNumber' = NumberAfterErase

\* The user picks a source.
Selects(ip) ==
    /\ ip \in reg
    /\ active' = ip
    /\ UNCHANGED <<reg, sources, nextNumber>>

RegistryStep ==
    \/ \E ip \in Ips : Announces(ip) \/ Connects(ip) \/ Erases(ip) \/ Selects(ip)
    \/ UNCHANGED registryVars

-----------------------------------------------------------------------------
(* The inductive invariant.                                                *)

\* A mirror handler and an audio thread have a handle from accept() or bind
\* to their closesocket().
HandlersHold ==
    \A t \in Conns \cup AudioThreads : pc[t] # "off" => sock[t] # NoHandle

\* Whoever waits for a decoder has the mutex, and so still has its slot.
ErasingOwns ==
    \A c \in Conns : At(c, "erasing") => mutex = c /\ OwnsSlot(c)

\* What is not in the map has no fields.
Unregistered == \A ip \in Ips \ reg : sources[ip] = NoSource

\* The numbers in use have been handed out.
Numbered == \A ip \in reg : sources[ip].number < nextNumber

ThreadInv == HandlersHold /\ ErasingOwns
RegistryInv == /\ Unregistered /\ Numbered /\ NumbersDistinct
               /\ ActiveRegistered /\ StreamingHasActive

-----------------------------------------------------------------------------
\* Every step of the server changes the registry in one of the four ways.
LEMMA Classified ==
    ASSUME TypeOK, ThreadInv, [Next]_vars
    PROVE  RegistryStep
<1> USE ThreadsAssumption, NoHandleAssumption
<1>1. ASSUME NEW c \in Conns, Register(c) PROVE RegistryStep
  <2> DEFINE ip == PeerOf[c]
             src == [SourceOf(ip) EXCEPT !.mirror_sock = sock[c]]
  <2>1. ip \in Ips /\ sock[c] \in Handles \cup {NoHandle}
    BY DEF TypeOK, Threads
  <2>2. SourceOf(ip) \in Source
    BY <2>1, SourceOfType
  <2>3. src \in Source
    BY <2>1, <2>2, SourceFields
  <2>4. sock[c] # NoHandle
    BY <1>1 DEF Register, Locked, At, ThreadInv, HandlersHold
  <2>5. src.number = SourceOf(ip).number /\ src.mirror_sock = sock[c]
    BY <2>2 DEF Source
  <2>6. Store(ip, src) /\ active' = IF active = NoIp THEN ip ELSE active
    BY <1>1 DEF Register
  <2> HIDE DEF src
  <2>7. Connects(ip)
    BY <2>3, <2>4, <2>5, <2>6 DEF Connects
  <2> QED
    BY <2>1, <2>7 DEF RegistryStep
<1>2. ASSUME NEW ip \in Ips, NEW src \in Source, Store(ip, src), active' = active,
             src.number = SourceOf(ip).number, src.mirror_sock = SourceOf(ip).mirror_sock
      PROVE  RegistryStep
  BY <1>2 DEF RegistryStep, Announces
<1>3. ASSUME NEW ip \in reg, NEW src \in Source, Update(ip, src), active' = active,
             src.number = sources[ip].number, src.mirror_sock = sources[ip].mirror_sock
      PROVE  RegistryStep
  <2>1. Store(ip, src) /\ SourceOf(ip) = sources[ip] /\ ip \in Ips
    BY <1>3 DEF Store, Update, SourceOf, TypeOK
  <2> QED
    BY <2>1, <1>2, <1>3
<1>4. ASSUME NEW c \in Conns, ReceiveVideo(c) \/ ReceivePause(c) PROVE RegistryStep
  <2>1. CASE PeerOf[c] \in reg
    <3> DEFINE src(b) == [sources[PeerOf[c]] EXCEPT !.paused = b]
    <3>1. sources[PeerOf[c]] \in Source
      BY DEF TypeOK
    <3>2. \A b \in BOOLEAN : /\ src(b) \in Source
                             /\ src(b).number = sources[PeerOf[c]].number
                             /\ src(b).mirror_sock = sources[PeerOf[c]].mirror_sock
      BY <3>1 DEF Source
    <3>3. PICK b \in BOOLEAN : Update(PeerOf[c], src(b)) /\ active' = active
      BY <1>4, <2>1 DEF ReceiveVideo, ReceivePause
    <3> HIDE DEF src
    <3> QED
      BY <1>3, <2>1, <3>2, <3>3
  <2>2. CASE PeerOf[c] \notin reg
    BY <1>4, <2>2 DEF ReceiveVideo, ReceivePause, RegistryStep, registryVars
  <2> QED
    BY <2>1, <2>2
<1>5. ASSUME NEW c \in Conns, EraseSource(c) PROVE RegistryStep
  <2>1. PeerOf[c] \in Ips /\ sock[c] # NoHandle /\ OwnsSlot(c)
    BY <1>5 DEF EraseSource, At, Locked, ThreadInv, HandlersHold, ErasingOwns, TypeOK, Threads
  <2>2. PeerOf[c] \in Streaming
    BY <2>1 DEF OwnsSlot, Streaming
  <2>3. Erases(PeerOf[c])
    BY <1>5, <2>2 DEF EraseSource, Erases
  <2> QED
    BY <2>1, <2>3 DEF RegistryStep
<1>6. ASSUME NEW ip \in Ips,
             SetupIv(ip) \/ SetupKey(ip) \/ SetupMirror(ip) \/ RefuseAudio(ip)
               \/ \E a \in AudioThreads : StartAudio(ip, a)
      PROVE  RegistryStep
  <2>1. SourceOf(ip) \in Source
    BY SourceOfType
  <2>2. PICK src \in Source : /\ Store(ip, src)
                              /\ src.number = SourceOf(ip).number
                              /\ src.mirror_sock = SourceOf(ip).mirror_sock
    <3>1. \A h \in Handles \cup {NoHandle} :
             /\ [SourceOf(ip) EXCEPT !.audio_sock = h] \in Source
             /\ [SourceOf(ip) EXCEPT !.audio_sock = h].number = SourceOf(ip).number
             /\ [SourceOf(ip) EXCEPT !.audio_sock = h].mirror_sock = SourceOf(ip).mirror_sock
      BY <2>1 DEF Source
    <3>2. CASE SetupIv(ip)
      <4>1. /\ [SourceOf(ip) EXCEPT !.has_aes_iv = TRUE] \in Source
            /\ [SourceOf(ip) EXCEPT !.has_aes_iv = TRUE].number = SourceOf(ip).number
            /\ [SourceOf(ip) EXCEPT !.has_aes_iv = TRUE].mirror_sock = SourceOf(ip).mirror_sock
        BY <2>1 DEF Source
      <4> QED  BY <3>2, <4>1 DEF SetupIv
    <3>3. CASE SetupKey(ip)
      <4>1. /\ [SourceOf(ip) EXCEPT !.has_aes_key = TRUE] \in Source
            /\ [SourceOf(ip) EXCEPT !.has_aes_key = TRUE].number = SourceOf(ip).number
            /\ [SourceOf(ip) EXCEPT !.has_aes_key = TRUE].mirror_sock = SourceOf(ip).mirror_sock
        BY <2>1 DEF Source
      <4> QED  BY <3>3, <4>1 DEF SetupKey
    <3>4. CASE SetupMirror(ip)
      BY <3>4, <2>1 DEF SetupMirror
    <3>5. CASE RefuseAudio(ip)
      BY <3>5, <2>1, <3>1 DEF RefuseAudio
    <3>6. CASE \E a \in AudioThreads : StartAudio(ip, a)
      BY <3>6, <3>1 DEF StartAudio, FreeHandles
    <3> QED  BY <1>6, <3>2, <3>3, <3>4, <3>5, <3>6
  <2>3. active' = active
    BY <1>6 DEF SetupIv, SetupKey, SetupMirror, RefuseAudio, StartAudio
  <2> QED
    BY <1>2, <2>2, <2>3
<1>7. ASSUME NEW ip \in Ips, TeardownAudio(ip) PROVE RegistryStep
  <2> DEFINE src == [sources[ip] EXCEPT !.audio_sock = NoHandle]
  <2>1. /\ src \in Source
        /\ src.number = sources[ip].number
        /\ src.mirror_sock = sources[ip].mirror_sock
    BY DEF TypeOK, Source
  <2>2. ip \in reg /\ Update(ip, src) /\ active' = active
    BY <1>7 DEF TeardownAudio
  <2> HIDE DEF src
  <2> QED
    BY <1>3, <2>1, <2>2
<1>8. ASSUME NEW ip \in Ips, Select(ip) PROVE RegistryStep
  BY <1>8 DEF Select, RegistryStep, Selects
<1>9. ASSUME NEW t \in Conns \cup AudioThreads, CloseSocket(t) PROVE RegistryStep
  BY <1>9 DEF CloseSocket, RegistryStep
<1>10. ASSUME NEW c \in Conns,
              \/ Accept(c) \/ Replace(c) \/ Check(c) \/ RecvFails(c) \/ ReceiveOther(c)
              \/ Grab(c) \/ Decode(c) \/ DecodeErased(c) \/ Deliver(c) \/ Forward(c)
              \/ Superseded(c) \/ AwaitDecoder(c)
       PROVE  RegistryStep
  BY <1>10 DEF Accept, Replace, Check, RecvFails, ReceiveOther, Grab, Decode, DecodeErased,
       Deliver, Forward, Superseded, AwaitDecoder, Moves, RegistryStep
<1>11. ASSUME NEW ip \in Ips, SetupNoIv(ip) \/ SetupNoKey(ip) \/ SetupDone(ip)
       PROVE  RegistryStep
  BY <1>11 DEF SetupNoIv, SetupNoKey, SetupDone, Moves, RegistryStep
<1>12. ASSUME NEW a \in AudioThreads, QuitAudio(a) PROVE RegistryStep
  BY <1>12 DEF QuitAudio, Moves, RegistryStep
<1>13. ASSUME NEW k \in Kickers, KickRead(k) \/ KickClose(k) PROVE RegistryStep
  BY <1>13 DEF KickRead, KickClose, RegistryStep
<1>14. ASSUME Stop \/ UNCHANGED vars PROVE RegistryStep
  BY <1>14 DEF Stop, vars, RegistryStep
<1> QED
  BY <1>1, <1>4, <1>5, <1>6, <1>7, <1>8, <1>9, <1>10, <1>11, <1>12, <1>13, <1>14
  DEF Next, MirrorStep, Arrival, SetupStep, Request

-----------------------------------------------------------------------------
\* Every step of the registry keeps its invariants.  A number in use is below
\* next_source_number_, so a fresh one is new; the reset finds no number in
\* use.  What is not in the map has no mirror handle, so what streams is there.
LEMMA RegistryKept ==
    ASSUME TypeOK, RegistryInv, RegistryStep
    PROVE  RegistryInv'
<1> USE ThreadsAssumption, NoHandleAssumption DEF RegistryInv
<1>1. ASSUME NEW ip \in Ips, Announces(ip) \/ Connects(ip) PROVE RegistryInv'
  <2>1. PICK src \in Source : /\ Store(ip, src)
                              /\ src.number = SourceOf(ip).number
                              /\ \/ src.mirror_sock = SourceOf(ip).mirror_sock
                                 \/ active' = IF active = NoIp THEN ip ELSE active
    BY <1>1 DEF Announces, Connects
  <2>2. /\ reg' = reg \cup {ip}
        /\ sources' \in [Ips -> Source]
        /\ sources'[ip] = src
        /\ \A j \in Ips \ {ip} : sources'[j] = sources[j]
    BY <2>1 DEF Store, TypeOK
  <2>3. /\ nextNumber' = IF ip \in reg THEN nextNumber ELSE nextNumber + 1
        /\ src.number = IF ip \in reg THEN sources[ip].number ELSE nextNumber
        /\ \A j \in Ips : sources[j].number \in Nat
    BY <2>1 DEF Store, SourceOf, NoSource, TypeOK, Source
  <2>4. Unregistered'
    BY <2>2 DEF Unregistered
  <2>5. Numbered'
    BY <2>2, <2>3 DEF Numbered, TypeOK
  <2>6. NumbersDistinct'
    BY <2>2, <2>3 DEF NumbersDistinct, Numbered, TypeOK
  <2>7. active' = active \/ active' = IF active = NoIp THEN ip ELSE active
    BY <1>1 DEF Announces, Connects
  <2>8. ActiveRegistered'
    BY <2>2, <2>7 DEF ActiveRegistered
  <2>9. StreamingHasActive'
    <3>1. CASE active = NoIp /\ active' = NoIp
      <4>1. src.mirror_sock = SourceOf(ip).mirror_sock
        BY <2>1, <3>1
      <4>2. Streaming = {}
        BY <3>1 DEF StreamingHasActive
      <4>3. SourceOf(ip).mirror_sock = NoHandle
        BY <4>2 DEF SourceOf, Streaming, NoSource
      <4>4. Streaming' = {}
        BY <4>1, <4>2, <4>3, <2>2 DEF Streaming
      <4> QED  BY <4>4 DEF StreamingHasActive
    <3>2. CASE active # NoIp \/ active' # NoIp
      BY <2>7, <3>2 DEF StreamingHasActive
    <3> QED  BY <3>1, <3>2
  <2> QED
    BY <2>4, <2>5, <2>6, <2>8, <2>9
<1>2. ASSUME NEW ip \in Ips, Erases(ip) PROVE RegistryInv'
  <2>1. /\ reg' = reg \ {ip}
        /\ sources'[ip] = NoSource
        /\ \A j \in Ips \ {ip} : sources'[j] = sources[j]
        /\ nextNumber' = IF reg' = {} THEN 1 ELSE nextNumber
    BY <1>2 DEF Erases, NumberAfterErase, TypeOK
  <2>2. Streaming' = Streaming \ {ip}
    BY <2>1 DEF Streaming, NoSource
  <2>3. Unregistered'
    BY <2>1 DEF Unregistered
  <2>4. Numbered'
    BY <2>1 DEF Numbered, TypeOK
  <2>5. NumbersDistinct'
    BY <2>1 DEF NumbersDistinct, TypeOK
  <2>6. Streaming \subseteq reg
    BY DEF Streaming, Unregistered, NoSource
  <2>7. ActiveRegistered'
    BY <1>2, <2>1, <2>6 DEF Erases, Promote, ActiveRegistered
  <2>8. StreamingHasActive'
    BY <1>2, <2>2 DEF Erases, Promote, StreamingHasActive, Streaming
  <2> QED
    BY <2>3, <2>4, <2>5, <2>7, <2>8
<1>3. ASSUME NEW ip \in Ips, Selects(ip) PROVE RegistryInv'
  BY <1>3 DEF Selects, Unregistered, Numbered, NumbersDistinct, ActiveRegistered,
     StreamingHasActive, Streaming
<1>4. ASSUME UNCHANGED registryVars PROVE RegistryInv'
  BY <1>4 DEF registryVars, Unregistered, Numbered, NumbersDistinct, ActiveRegistered,
     StreamingHasActive, Streaming
<1> QED
  BY <1>1, <1>2, <1>3, <1>4 DEF RegistryStep

-----------------------------------------------------------------------------
\* Only accept() and bind take a handle, only a thread's last act gives it up:
\* between the two the thread keeps it.
LEMMA HandlersHoldKept ==
    ASSUME TypeOK, HandlersHold, [Next]_vars
    PROVE  HandlersHold'
<1> USE ThreadsAssumption, NoHandleAssumption DEF HandlersHold, TypeOK, Threads
<1>1. ASSUME NEW c \in Conns, MirrorStep(c) PROVE HandlersHold'
  <2>1. ASSUME Register(c) \/ EraseSource(c) \/ AwaitDecoder(c) PROVE HandlersHold'
    BY <1>1, <2>1 DEF Register, EraseSource, AwaitDecoder, Locked, At, Goto
  <2>2. ASSUME Replace(c) \/ Check(c) \/ RecvFails(c) \/ Grab(c) \/ Decode(c)
               \/ DecodeErased(c) \/ Deliver(c) \/ Forward(c) \/ Superseded(c)
        PROVE  HandlersHold'
    BY <1>1, <2>2 DEF Replace, Check, RecvFails, Grab, Decode, DecodeErased, Deliver,
       Forward, Superseded, Moves, Locked, At, Goto
  <2>3. ASSUME CloseSocket(c) PROVE HandlersHold'
    BY <2>3 DEF CloseSocket, Goto
  <2> QED  BY <1>1, <2>1, <2>2, <2>3 DEF MirrorStep
<1>2. ASSUME NEW c \in Conns, Arrival(c) PROVE HandlersHold'
  BY <1>2 DEF Arrival, Accept, ReceiveOther, ReceiveVideo, ReceivePause, FreeHandles,
     Moves, Locked, At, Goto
<1>3. ASSUME NEW ip \in Ips, SetupStep(ip) \/ Request(ip) \/ Select(ip) PROVE HandlersHold'
  <2>1. ASSUME NEW a \in AudioThreads, StartAudio(ip, a) PROVE HandlersHold'
    BY <2>1 DEF StartAudio, FreeHandles, Goto
  <2>2. ASSUME ~\E a \in AudioThreads : StartAudio(ip, a) PROVE HandlersHold'
    BY <1>3, <2>2 DEF SetupStep, SetupKey, SetupNoKey, SetupDone, Request, SetupIv, SetupNoIv,
       SetupMirror, RefuseAudio, TeardownAudio, Select, Moves, Goto
  <2> QED  BY <2>1, <2>2
<1>4. ASSUME NEW a \in AudioThreads, QuitAudio(a) \/ CloseSocket(a) PROVE HandlersHold'
  BY <1>4 DEF QuitAudio, CloseSocket, Moves, Locked, At, Goto
<1>5. ASSUME NEW k \in Kickers, KickRead(k) \/ KickClose(k) PROVE HandlersHold'
  BY <1>5 DEF KickRead, KickClose, Goto
<1>6. ASSUME Stop \/ UNCHANGED vars PROVE HandlersHold'
  BY <1>6 DEF Stop, vars
<1> QED
  BY <1>1, <1>2, <1>3, <1>4, <1>5, <1>6 DEF Next

\* While a handler waits for a decoder, nobody else gets at the registry.
LEMMA ErasingOwnsKept ==
    ASSUME TypeOK, ErasingOwns, [Next]_vars
    PROVE  ErasingOwns'
<1> USE ThreadsAssumption DEF ErasingOwns, TypeOK, Threads, OwnsSlot, At
<1>1. ASSUME NEW c \in Conns, MirrorStep(c) PROVE ErasingOwns'
  <2>1. ASSUME Register(c) \/ Replace(c) \/ Check(c) \/ Grab(c) \/ Deliver(c) \/ Superseded(c)
        PROVE  ErasingOwns'
    BY <1>1, <2>1 DEF Register, Replace, Check, Grab, Deliver, Superseded, Moves, Locked,
       Goto, registryVars
  <2>2. ASSUME RecvFails(c) \/ Decode(c) \/ DecodeErased(c) \/ Forward(c) \/ CloseSocket(c)
        PROVE  ErasingOwns'
    BY <1>1, <2>2 DEF RecvFails, Decode, DecodeErased, Forward, CloseSocket, Moves, Goto,
       registryVars
  <2>3. ASSUME AwaitDecoder(c) PROVE ErasingOwns'
    BY <2>3 DEF AwaitDecoder, Locked, Goto, registryVars
  <2>4. ASSUME EraseSource(c) PROVE ErasingOwns'
    BY <2>4 DEF EraseSource, Locked, Goto
  <2> QED  BY <1>1, <2>1, <2>2, <2>3, <2>4 DEF MirrorStep
<1>2. ASSUME NEW c \in Conns, Arrival(c) PROVE ErasingOwns'
  BY <1>2 DEF Arrival, Accept, ReceiveOther, ReceiveVideo, ReceivePause, Moves, Locked,
     Goto, registryVars
<1>3. ASSUME NEW ip \in Ips, SetupStep(ip) \/ Request(ip) \/ Select(ip) PROVE ErasingOwns'
  <2>1. ASSUME NEW a \in AudioThreads, StartAudio(ip, a) PROVE ErasingOwns'
    BY <2>1 DEF StartAudio, Locked, Goto
  <2>2. ASSUME ~\E a \in AudioThreads : StartAudio(ip, a) PROVE ErasingOwns'
    BY <1>3, <2>2 DEF SetupStep, SetupKey, SetupNoKey, SetupDone, Request, SetupIv, SetupNoIv,
       SetupMirror, RefuseAudio, TeardownAudio, Select, Moves, Locked, Goto, registryVars
  <2> QED  BY <2>1, <2>2
<1>4. ASSUME NEW a \in AudioThreads, QuitAudio(a) \/ CloseSocket(a) PROVE ErasingOwns'
  BY <1>4 DEF QuitAudio, CloseSocket, Moves, Goto, registryVars
<1>5. ASSUME NEW k \in Kickers, KickRead(k) \/ KickClose(k) PROVE ErasingOwns'
  BY <1>5 DEF KickRead, KickClose, Goto, registryVars
<1>6. ASSUME Stop \/ UNCHANGED vars PROVE ErasingOwns'
  BY <1>6 DEF Stop, vars, registryVars
<1> QED
  BY <1>1, <1>2, <1>3, <1>4, <1>5, <1>6 DEF Next

\* A socket leaves the table before its thread forgets it.
LEMMA NoSocketLeakKept ==
    ASSUME TypeOK, NoSocketLeak, [Next]_vars
    PROVE  NoSocketLeak'
<1> USE ThreadsAssumption, NoHandleAssumption DEF NoSocketLeak, TypeOK, Threads, At, Goto
<1>1. ASSUME NEW c \in Conns, MirrorStep(c) PROVE NoSocketLeak'
  <2>1. ASSUME Register(c) \/ EraseSource(c) \/ AwaitDecoder(c) \/ DecodeErased(c)
        PROVE  NoSocketLeak'
    BY <2>1 DEF Register, EraseSource, AwaitDecoder, DecodeErased
  <2>2. ASSUME Check(c) \/ RecvFails(c) \/ Grab(c) \/ Decode(c) \/ Deliver(c) \/ Forward(c)
               \/ Superseded(c)
        PROVE  NoSocketLeak'
    BY <2>2 DEF Check, RecvFails, Grab, Decode, Deliver, Forward, Superseded, Moves
  <2>3. ASSUME Replace(c) \/ CloseSocket(c) PROVE NoSocketLeak'
    BY <2>3 DEF Replace, CloseSocket, Closed
  <2> QED  BY <1>1, <2>1, <2>2, <2>3 DEF MirrorStep
<1>2. ASSUME NEW c \in Conns, Arrival(c) PROVE NoSocketLeak'
  <2>1. ASSUME Accept(c) PROVE NoSocketLeak'
    BY <2>1 DEF Accept, FreeHandles, Bound
  <2>2. ASSUME ReceiveOther(c) \/ ReceiveVideo(c) \/ ReceivePause(c) PROVE NoSocketLeak'
    BY <2>2 DEF ReceiveOther, ReceiveVideo, ReceivePause, Moves
  <2> QED  BY <1>2, <2>1, <2>2 DEF Arrival
<1>3. ASSUME NEW ip \in Ips, SetupStep(ip) \/ Request(ip) \/ Select(ip) PROVE NoSocketLeak'
  <2>1. ASSUME NEW a \in AudioThreads, StartAudio(ip, a) PROVE NoSocketLeak'
    BY <2>1 DEF StartAudio, FreeHandles, Bound
  <2>2. ASSUME ~\E a \in AudioThreads : StartAudio(ip, a) PROVE NoSocketLeak'
    BY <1>3, <2>2 DEF SetupStep, SetupKey, SetupNoKey, SetupDone, Request, SetupIv, SetupNoIv,
       SetupMirror, RefuseAudio, TeardownAudio, Select, Moves
  <2> QED  BY <2>1, <2>2
<1>4. ASSUME NEW a \in AudioThreads, QuitAudio(a) \/ CloseSocket(a) PROVE NoSocketLeak'
  BY <1>4 DEF QuitAudio, CloseSocket, Closed, Moves
<1>5. ASSUME NEW k \in Kickers, KickRead(k) \/ KickClose(k) PROVE NoSocketLeak'
  BY <1>5 DEF KickRead, KickClose, Closed
<1>6. ASSUME Stop \/ UNCHANGED vars PROVE NoSocketLeak'
  BY <1>6 DEF Stop, vars
<1> QED
  BY <1>1, <1>2, <1>3, <1>4, <1>5, <1>6 DEF Next

\* A handler leaves its loop only for stream_end, and stream_end lets go of the
\* slot of its device unless another handler's handle is in it.
LEMMA SlotHasHandlerKept ==
    ASSUME TypeOK, Unregistered, SlotHasHandler, [Next]_vars
    PROVE  SlotHasHandler'
<1> DEFINE Serves(c, ip) == /\ PeerOf[c] = ip
                            /\ sock[c] = sources[ip].mirror_sock
                            /\ pc[c] \notin {"off", "start", "close"}
\* It is enough that each device that streams after the step has a handler then.
<1> SUFFICES ASSUME NEW ip \in Ips, ip \in Streaming'
             PROVE  \E c \in Conns : Serves(c, ip)'
  BY DEF SlotHasHandler, Streaming
<1> USE ThreadsAssumption, NoHandleAssumption DEF TypeOK, Threads, At, Goto
\* The step that takes the slot serves it from there on.
<1>1. ASSUME NEW c \in Conns, Register(c) PROVE \E d \in Conns : Serves(d, ip)'
  <2>1. CASE PeerOf[c] = ip
    <3>1. SourceOf(ip) \in Source
      BY SourceOfType
    <3>2. [SourceOf(ip) EXCEPT !.mirror_sock = sock[c]].mirror_sock = sock[c]
      BY <3>1 DEF Source
    <3>3. Serves(c, ip)'
      BY <1>1, <2>1, <3>2 DEF Register, Locked, Store
    <3> QED  BY <3>3
  <2>2. CASE PeerOf[c] # ip
    <3>1. PICK d \in Conns : Serves(d, ip)
      BY <1>1, <2>2 DEF Register, Store, Streaming, SlotHasHandler
    <3>2. Serves(d, ip)'
      BY <1>1, <2>2, <3>1 DEF Register, Store
    <3> QED  BY <3>2
  <2> QED  BY <2>1, <2>2
\* No other step puts a handle into a slot.
<1>2. ASSUME sources'[ip].mirror_sock = sources[ip].mirror_sock
      PROVE  \E c \in Conns : Serves(c, ip)
  BY <1>2 DEF SlotHasHandler, Streaming
\* A handler that serves a slot goes on serving it, as long as it moves within
\* its loop or another thread moves.
<1>3. ASSUME NEW c \in Conns, Serves(c, ip),
             sources'[ip].mirror_sock = sources[ip].mirror_sock,
             sock'[c] = sock[c], pc'[c] \notin {"off", "start", "close"}
      PROVE  \E d \in Conns : Serves(d, ip)'
  BY <1>3
\* Steps of a mirror handler.
<1>4. ASSUME NEW c \in Conns, MirrorStep(c), ~Register(c)
      PROVE  \E d \in Conns : Serves(d, ip)'
  <2>1. CASE EraseSource(c)
    <3>1. PeerOf[c] # ip
      BY <2>1 DEF EraseSource, Streaming, NoSource
    <3>2. sources'[ip] = sources[ip]
      BY <2>1, <3>1 DEF EraseSource
    <3>3. PICK d \in Conns : Serves(d, ip)
      BY <1>2, <3>2
    <3>4. d # c
      BY <3>1, <3>3
    <3> QED  BY <2>1, <3>2, <3>3, <3>4, <1>3 DEF EraseSource
  <2>2. CASE Superseded(c)
    <3>1. UNCHANGED <<reg, sources, sock>>
      BY <2>2 DEF Superseded, Moves, registryVars
    <3>2. PICK d \in Conns : Serves(d, ip)
      BY <1>2, <3>1
    <3>3. ip \in reg
      BY <3>1 DEF Streaming, Unregistered, NoSource
    <3>4. d # c
      BY <2>2, <3>2, <3>3 DEF Superseded, OwnsSlot
    <3> QED  BY <2>2, <3>1, <3>2, <3>4, <1>3 DEF Superseded, Moves
  <2>3. CASE CloseSocket(c)
    <3>1. PICK d \in Conns : Serves(d, ip)
      BY <1>2, <2>3 DEF CloseSocket, registryVars
    <3> QED  BY <2>3, <3>1, <1>3 DEF CloseSocket, registryVars
  <2>4. CASE Replace(c) \/ Check(c) \/ RecvFails(c) \/ Grab(c) \/ Decode(c) \/ DecodeErased(c)
             \/ Deliver(c) \/ Forward(c) \/ AwaitDecoder(c)
    <3>1. UNCHANGED <<sources, sock>>
      BY <2>4 DEF Replace, Check, RecvFails, Grab, Decode, DecodeErased, Deliver, Forward,
         AwaitDecoder, Moves, registryVars
    <3>2. PICK d \in Conns : Serves(d, ip)
      BY <1>2, <3>1
    <3>3. pc'[d] \notin {"off", "start", "close"}
      BY <2>4, <3>2 DEF Replace, Check, RecvFails, Grab, Decode, DecodeErased, Deliver, Forward,
         AwaitDecoder, Moves
    <3> QED  BY <3>1, <3>2, <3>3, <1>3
  <2> QED  BY <1>4, <2>1, <2>2, <2>3, <2>4 DEF MirrorStep
\* Whatever else happens, the handler that serves the slot is not the thread
\* that moves, or it moves within its loop.
<1>5. ASSUME NEW c \in Conns, Arrival(c) PROVE \E d \in Conns : Serves(d, ip)'
  <2>1. sources'[ip].mirror_sock = sources[ip].mirror_sock
    <3>1. sources[PeerOf[c]] \in Source
      OBVIOUS
    <3> DEFINE src(b) == [sources[PeerOf[c]] EXCEPT !.paused = b]
    <3>2. \A b \in BOOLEAN : src(b).mirror_sock = sources[PeerOf[c]].mirror_sock
      BY <3>1 DEF Source
    <3>3. UNCHANGED sources \/ \E b \in BOOLEAN : Update(PeerOf[c], src(b))
      BY <1>5 DEF Arrival, Accept, ReceiveOther, ReceiveVideo, ReceivePause, Moves, registryVars
    <3> HIDE DEF src
    <3> QED  BY <3>2, <3>3 DEF Update
  <2>2. PICK d \in Conns : Serves(d, ip)
    BY <1>2, <2>1
  <2>3. sock'[d] = sock[d] /\ pc'[d] \notin {"off", "start", "close"}
    BY <1>5, <2>2 DEF Arrival, Accept, ReceiveOther, ReceiveVideo, ReceivePause, Locked, Moves
  <2> QED  BY <1>3, <2>1, <2>2, <2>3
<1>6. ASSUME NEW i \in Ips, SetupStep(i) \/ Request(i) \/ Select(i)
      PROVE  \E d \in Conns : Serves(d, ip)'
  <2>1. SourceOf(i) \in Source /\ sources[i] \in Source
    BY SourceOfType
  <2>2. /\ [SourceOf(i) EXCEPT !.has_aes_iv = TRUE].mirror_sock = SourceOf(i).mirror_sock
        /\ [SourceOf(i) EXCEPT !.has_aes_key = TRUE].mirror_sock = SourceOf(i).mirror_sock
        /\ \A h \in Handles \cup {NoHandle} :
              /\ [SourceOf(i) EXCEPT !.audio_sock = h].mirror_sock = SourceOf(i).mirror_sock
              /\ [sources[i] EXCEPT !.audio_sock = h].mirror_sock = sources[i].mirror_sock
    BY <2>1 DEF Source
  <2> DEFINE KeepsSlot ==
               \/ UNCHANGED sources
               \/ \E src : /\ sources' = [sources EXCEPT ![i] = src]
                           /\ src.mirror_sock \in {sources[i].mirror_sock, SourceOf(i).mirror_sock}
  <2>3. KeepsSlot
    <3>1. CASE SetupStep(i) \/ Select(i)
      BY <2>2, <3>1 DEF SetupStep, SetupKey, SetupNoKey, SetupDone, Select, Store, Moves,
         registryVars
    <3>2. CASE SetupIv(i) \/ SetupNoIv(i) \/ SetupMirror(i) \/ RefuseAudio(i) \/ TeardownAudio(i)
      BY <2>2, <3>2 DEF SetupIv, SetupNoIv, SetupMirror, RefuseAudio, TeardownAudio, Store,
         Update, Moves, registryVars
    <3>3. CASE \E a \in AudioThreads : StartAudio(i, a)
      <4>1. PICK h \in Handles : Store(i, [SourceOf(i) EXCEPT !.audio_sock = h])
        BY <3>3 DEF StartAudio, FreeHandles
      <4> QED  BY <2>2, <4>1 DEF Store
    <3> HIDE DEF KeepsSlot
    <3> QED  BY <1>6, <3>1, <3>2, <3>3 DEF Request
  <2>4. sources'[ip].mirror_sock
          \in {sources[ip].mirror_sock, SourceOf(ip).mirror_sock}
    BY <2>3
  <2>5. sources'[ip].mirror_sock = sources[ip].mirror_sock
    BY <2>4 DEF SourceOf, NoSource, Streaming
  <2>6. PICK d \in Conns : Serves(d, ip)
    BY <1>2, <2>5
  <2>7. sock'[d] = sock[d] /\ pc'[d] = pc[d]
    <3>1. CASE \E a \in AudioThreads : StartAudio(i, a)
      BY <3>1 DEF StartAudio
    <3>2. CASE ~\E a \in AudioThreads : StartAudio(i, a)
      BY <1>6, <3>2 DEF SetupStep, SetupKey, SetupNoKey, SetupDone, Request, SetupIv, SetupNoIv,
         SetupMirror, RefuseAudio, TeardownAudio, Select, Moves
    <3> QED  BY <3>1, <3>2
  <2> QED  BY <1>3, <2>5, <2>6, <2>7
<1>7. ASSUME \/ \E a \in AudioThreads : QuitAudio(a) \/ CloseSocket(a)
             \/ \E k \in Kickers : KickRead(k) \/ KickClose(k)
             \/ Stop
             \/ UNCHANGED vars
      PROVE  \E d \in Conns : Serves(d, ip)'
  <2>1. UNCHANGED sources
    BY <1>7 DEF QuitAudio, CloseSocket, KickRead, KickClose, Stop, vars, Moves, registryVars
  <2>2. PICK d \in Conns : Serves(d, ip)
    BY <1>2, <2>1
  <2>3. sock'[d] = sock[d] /\ pc'[d] = pc[d]
    BY <1>7 DEF QuitAudio, CloseSocket, KickRead, KickClose, Stop, vars, Moves
  <2> QED  BY <1>3, <2>1, <2>2, <2>3
<1> QED
  BY <1>1, <1>4, <1>5, <1>6, <1>7 DEF Next, MirrorStep

\* An audio thread leaves its loop only for a slot that is not its own, and a
\* slot is given a handle only together with the thread that serves it.
LEMMA AudioSlotServedKept ==
    ASSUME TypeOK, Unregistered, AudioSlotServed, [Next]_vars
    PROVE  AudioSlotServed'
<1> DEFINE Plays(a, ip) == /\ PeerOf[a] = ip
                           /\ sock[a] = sources[ip].audio_sock
                           /\ pc[a] = "poll"
<1> SUFFICES ASSUME NEW ip \in Ips, running', sources'[ip].audio_sock # NoHandle
             PROVE  \E a \in AudioThreads : Plays(a, ip)'
  BY DEF AudioSlotServed, At
<1> USE ThreadsAssumption, NoHandleAssumption DEF TypeOK, Threads, At, Goto
\* The step that fills the slot.
<1>1. ASSUME NEW i \in Ips, NEW b \in AudioThreads, StartAudio(i, b)
      PROVE  \E a \in AudioThreads : Plays(a, ip)'
  <2>1. PICK h \in Handles : /\ Store(i, [SourceOf(i) EXCEPT !.audio_sock = h])
                             /\ sock' = [sock EXCEPT ![b] = h]
    BY <1>1 DEF StartAudio, FreeHandles
  <2>2. CASE i = ip
    <3>1. SourceOf(i) \in Source
      BY SourceOfType
    <3>2. [SourceOf(i) EXCEPT !.audio_sock = h].audio_sock = h
      BY <3>1 DEF Source
    <3>3. Plays(b, ip)'
      BY <1>1, <2>1, <2>2, <3>2 DEF StartAudio, Store
    <3> QED  BY <3>3
  <2>3. CASE i # ip
    <3>1. sources'[ip] = sources[ip] /\ running
      BY <1>1, <2>1, <2>3 DEF StartAudio, Store
    <3>2. PICK a \in AudioThreads : Plays(a, ip)
      BY <3>1 DEF AudioSlotServed
    <3>3. a # b
      BY <1>1, <3>2 DEF StartAudio
    <3>4. Plays(a, ip)'
      BY <1>1, <2>1, <3>1, <3>2, <3>3 DEF StartAudio
    <3> QED  BY <3>4
  <2> QED  BY <2>2, <2>3
\* Every other step leaves the slot as it is, or empties it.
<1>2. ASSUME running, sources'[ip].audio_sock = sources[ip].audio_sock
      PROVE  \E a \in AudioThreads : Plays(a, ip)
  BY <1>2 DEF AudioSlotServed
<1>3. ASSUME NEW a \in AudioThreads, Plays(a, ip),
             sources'[ip].audio_sock = sources[ip].audio_sock,
             sock'[a] = sock[a], pc'[a] = pc[a]
      PROVE  \E b \in AudioThreads : Plays(b, ip)'
  BY <1>3
\* A mirror handler moves no audio thread.
<1>4. ASSUME NEW c \in Conns, MirrorStep(c) \/ Arrival(c)
      PROVE  \E a \in AudioThreads : Plays(a, ip)'
  <2>1. running
    BY <1>4 DEF MirrorStep, Register, Replace, Check, RecvFails, Grab, Decode, DecodeErased,
       Deliver, Forward, Superseded, AwaitDecoder, EraseSource, CloseSocket, Arrival, Accept,
       ReceiveOther, ReceiveVideo, ReceivePause, Moves
  <2>2. sources'[ip].audio_sock = sources[ip].audio_sock
    <3>1. CASE Register(c)
      <4>1. SourceOf(PeerOf[c]) \in Source /\ PeerOf[c] \in Ips
        BY SourceOfType
      <4>2. [SourceOf(PeerOf[c]) EXCEPT !.mirror_sock = sock[c]].audio_sock
              = SourceOf(PeerOf[c]).audio_sock
        BY <4>1 DEF Source
      <4> QED  BY <3>1, <4>1, <4>2 DEF Register, Store, SourceOf, NoSource, Unregistered
    <3>2. CASE EraseSource(c)
      BY <3>2 DEF EraseSource, NoSource
    <3>3. CASE ReceiveVideo(c) \/ ReceivePause(c)
      <4>1. sources[PeerOf[c]] \in Source
        OBVIOUS
      <4> DEFINE src(b) == [sources[PeerOf[c]] EXCEPT !.paused = b]
      <4>2. \A b \in BOOLEAN : src(b).audio_sock = sources[PeerOf[c]].audio_sock
        BY <4>1 DEF Source
      <4>3. UNCHANGED sources \/ \E b \in BOOLEAN : Update(PeerOf[c], src(b))
        BY <3>3 DEF ReceiveVideo, ReceivePause
      <4> HIDE DEF src
      <4> QED  BY <4>2, <4>3 DEF Update
    <3>4. CASE UNCHANGED sources
      BY <3>4
    <3> QED
      BY <1>4, <3>1, <3>2, <3>3, <3>4 DEF MirrorStep, Replace, Check, RecvFails, Grab, Decode,
         DecodeErased, Deliver, Forward, Superseded, AwaitDecoder, CloseSocket, Arrival, Accept,
         ReceiveOther, Moves, registryVars
  <2>3. PICK a \in AudioThreads : Plays(a, ip)
    BY <1>2, <2>1, <2>2
  <2>4. a # c
    OBVIOUS
  <2>5. sock'[a] = sock[a] /\ pc'[a] = pc[a]
    <3>1. CASE MirrorStep(c)
      BY <3>1, <2>4 DEF MirrorStep, Register, Replace, Check, RecvFails, Grab, Decode,
         DecodeErased, Deliver, Forward, Superseded, AwaitDecoder, EraseSource, CloseSocket, Moves
    <3>2. CASE Arrival(c)
      BY <3>2, <2>4 DEF Arrival, Accept, ReceiveOther, ReceiveVideo, ReceivePause, Moves
    <3> QED  BY <1>4, <3>1, <3>2
  <2> QED  BY <1>3, <2>2, <2>3, <2>5
\* An RTSP handler moves no audio thread either, except the one it starts.
<1>5. ASSUME NEW i \in Ips, SetupStep(i) \/ Request(i) \/ Select(i),
             ~\E b \in AudioThreads : StartAudio(i, b)
      PROVE  \E a \in AudioThreads : Plays(a, ip)'
  <2>1. SourceOf(i) \in Source /\ sources[i] \in Source
    BY SourceOfType
  <2>2. /\ [SourceOf(i) EXCEPT !.has_aes_iv = TRUE].audio_sock = SourceOf(i).audio_sock
        /\ [SourceOf(i) EXCEPT !.has_aes_key = TRUE].audio_sock = SourceOf(i).audio_sock
        /\ [SourceOf(i) EXCEPT !.audio_sock = NoHandle].audio_sock = NoHandle
        /\ [sources[i] EXCEPT !.audio_sock = NoHandle].audio_sock = NoHandle
    BY <2>1 DEF Source
  <2>3. \/ UNCHANGED sources
        \/ \E src : /\ sources' = [sources EXCEPT ![i] = src]
                    /\ src.audio_sock \in {NoHandle, SourceOf(i).audio_sock}
    <3>1. CASE SetupStep(i) \/ Select(i)
      BY <2>2, <3>1 DEF SetupStep, SetupKey, SetupNoKey, SetupDone, Select, Store, Moves,
         registryVars
    <3>2. CASE SetupIv(i) \/ SetupNoIv(i) \/ SetupMirror(i) \/ RefuseAudio(i) \/ TeardownAudio(i)
      BY <2>2, <3>2 DEF SetupIv, SetupNoIv, SetupMirror, RefuseAudio, TeardownAudio, Store,
         Update, Moves, registryVars
    <3> QED  BY <1>5, <3>1, <3>2 DEF Request
  <2>4. sources'[ip].audio_sock \in {NoHandle, SourceOf(ip).audio_sock, sources[ip].audio_sock}
    BY <2>3
  <2>5. sources'[ip].audio_sock = sources[ip].audio_sock
    BY <2>4 DEF SourceOf, NoSource, Unregistered
  <2>6. running
    BY <1>5 DEF SetupStep, SetupKey, SetupNoKey, SetupDone, Request, SetupIv, SetupNoIv,
       SetupMirror, RefuseAudio, TeardownAudio, Select, Moves
  <2>7. PICK a \in AudioThreads : Plays(a, ip)
    BY <1>2, <2>5, <2>6
  <2>8. a # i
    OBVIOUS
  <2>9. sock'[a] = sock[a] /\ pc'[a] = pc[a]
    <3>1. CASE SetupStep(i) \/ Select(i)
      BY <3>1, <2>8 DEF SetupStep, SetupKey, SetupNoKey, SetupDone, Select, Moves
    <3>2. CASE SetupIv(i) \/ SetupNoIv(i)
      BY <3>2, <2>8 DEF SetupIv, SetupNoIv, Moves
    <3>3. CASE SetupMirror(i) \/ RefuseAudio(i) \/ TeardownAudio(i)
      BY <3>3 DEF SetupMirror, RefuseAudio, TeardownAudio
    <3> QED  BY <1>5, <3>1, <3>2, <3>3 DEF Request
  <2> QED  BY <1>3, <2>5, <2>7, <2>9
\* The thread that ends is not the one that serves the slot.
<1>6. ASSUME NEW b \in AudioThreads, QuitAudio(b) \/ CloseSocket(b)
      PROVE  \E a \in AudioThreads : Plays(a, ip)'
  <2>1. running /\ UNCHANGED sources
    BY <1>6 DEF QuitAudio, CloseSocket, Moves, registryVars
  <2>2. PICK a \in AudioThreads : Plays(a, ip)
    BY <1>2, <2>1
  <2>3. a # b
    BY <1>6, <2>1, <2>2 DEF QuitAudio, Locked, CloseSocket
  <2>4. sock'[a] = sock[a] /\ pc'[a] = pc[a]
    BY <1>6, <2>3 DEF QuitAudio, CloseSocket, Moves
  <2> QED  BY <1>3, <2>1, <2>2, <2>4
<1>7. ASSUME \/ \E k \in Kickers : KickRead(k) \/ KickClose(k)
             \/ Stop
             \/ UNCHANGED vars
      PROVE  \E a \in AudioThreads : Plays(a, ip)'
  <2>1. running /\ UNCHANGED sources
    BY <1>7 DEF KickRead, KickClose, Stop, vars, registryVars
  <2>2. PICK a \in AudioThreads : Plays(a, ip)
    BY <1>2, <2>1
  <2>3. sock'[a] = sock[a] /\ pc'[a] = pc[a]
    <3>1. ASSUME NEW k \in Kickers, KickRead(k) \/ KickClose(k)
          PROVE  sock'[a] = sock[a] /\ pc'[a] = pc[a]
      <4>1. a # k
        OBVIOUS
      <4>2. CASE KickRead(k)
        BY <4>1, <4>2 DEF KickRead
      <4>3. CASE KickClose(k)
        BY <4>1, <4>3 DEF KickClose
      <4> QED  BY <3>1, <4>2, <4>3
    <3>2. ASSUME Stop \/ UNCHANGED vars PROVE sock'[a] = sock[a] /\ pc'[a] = pc[a]
      BY <3>2 DEF Stop, vars
    <3> QED  BY <1>7, <3>1, <3>2
  <2> QED  BY <1>3, <2>1, <2>2, <2>3
<1> QED
  BY <1>1, <1>4, <1>5, <1>6, <1>7 DEF Next

-----------------------------------------------------------------------------
ServerInv ==
    /\ TypeOK /\ ThreadInv /\ SlotHasHandler /\ AudioSlotServed
    /\ NoSocketLeak /\ RegistryInv

\* The invariant above holds from the start and is kept by every step.
LEMMA Invariance == Spec => []ServerInv
<1>1. Init => ThreadInv /\ SlotHasHandler /\ AudioSlotServed /\ NoSocketLeak /\ RegistryInv
  BY ThreadsAssumption
  DEF Init, ThreadInv, HandlersHold, ErasingOwns, At, SlotHasHandler, AudioSlotServed, Streaming, NoSource,
      NoSocketLeak, RegistryInv, Unregistered, Numbered, NumbersDistinct,
      ActiveRegistered, StreamingHasActive, Threads
<1>2. TypeOK /\ ThreadInv /\ SlotHasHandler /\ AudioSlotServed /\ NoSocketLeak /\ RegistryInv
      /\ [Next]_vars
        => (ThreadInv /\ SlotHasHandler /\ AudioSlotServed /\ NoSocketLeak /\ RegistryInv)'
  BY Classified, RegistryKept, HandlersHoldKept, ErasingOwnsKept, SlotHasHandlerKept,
     AudioSlotServedKept, NoSocketLeakKept DEF ThreadInv, RegistryInv
<1> QED
  BY <1>1, <1>2, Typing, PTL DEF Spec, ServerInv

\* The source on screen is registered, something is on screen while a device
\* streams, and no two devices share a number.
THEOREM Registry == Spec => []RegistryOK
<1>1. ServerInv => RegistryOK
  BY DEF ServerInv, RegistryInv, RegistryOK
<1> QED
  BY <1>1, Invariance, PTL

\* A device shown as streaming has a handler that has yet to end.
THEOREM Handled == Spec => []SlotHasHandler
<1>1. ServerInv => SlotHasHandler
  BY DEF ServerInv
<1> QED
  BY <1>1, Invariance, PTL

\* An audio stream that is granted and not orphaned is served until stop().
THEOREM Served == Spec => []AudioSlotServed
<1>1. ServerInv => AudioSlotServed
  BY DEF ServerInv
<1> QED
  BY <1>1, Invariance, PTL

\* No path out of a handler or an audio thread leaves a socket open.
THEOREM Closing == Spec => []NoSocketLeak
<1>1. ServerInv => NoSocketLeak
  BY DEF ServerInv
<1> QED
  BY <1>1, Invariance, PTL

\* The server implements the picker: each step adds, streams, drops or chooses
\* a device as SourcePicker says, or leaves the picker alone.
THEOREM Implementation == Spec => ImplementsPicker
<1>1. Init => Picker!Init
  BY DEF Init, Picker!Init, Streaming, NoSource
<1>2. ServerInv /\ RegistryStep => [Picker!Next]_(Picker!vars)
  <2> SUFFICES ASSUME ServerInv, RegistryStep PROVE [Picker!Next]_(Picker!vars)
    OBVIOUS
  <2> USE DEF ServerInv, RegistryInv, TypeOK
  <2>1. ASSUME NEW ip \in Ips, Announces(ip) PROVE Picker!Announce(ip)
    <3>1. Streaming' = Streaming
      BY <2>1 DEF Announces, Store, SourceOf, NoSource, Streaming, Unregistered
    <3> QED  BY <2>1, <3>1 DEF Announces, Store, Picker!Announce
  <2>2. ASSUME NEW ip \in Ips, Connects(ip) PROVE Picker!Stream(ip)
    <3>1. Streaming' = Streaming \cup {ip}
      BY <2>2 DEF Connects, Store, Streaming
    <3> QED  BY <2>2, <3>1 DEF Connects, Store, Picker!Stream
  <2>3. ASSUME NEW ip \in Ips, Erases(ip) PROVE Picker!Drop(ip)
    <3>1. Streaming' = Streaming \ {ip}
      BY <2>3 DEF Erases, NoSource, Streaming
    <3> QED  BY <2>3, <3>1 DEF Erases, Promote, Picker!Drop
  <2>4. ASSUME NEW ip \in Ips, Selects(ip) PROVE Picker!Choose(ip)
    BY <2>4 DEF Selects, Picker!Choose, Streaming
  <2>5. ASSUME UNCHANGED registryVars PROVE UNCHANGED Picker!vars
    BY <2>5 DEF registryVars, Picker!vars, Streaming
  <2> QED
    BY <2>1, <2>2, <2>3, <2>4, <2>5 DEF RegistryStep, Picker!Next
<1>3. ServerInv /\ [Next]_vars => [Picker!Next]_(Picker!vars)
  BY <1>2, Classified DEF ServerInv
<1> QED
  BY <1>1, <1>3, Invariance, PTL DEF Spec, ImplementsPicker, Picker!Spec
=============================================================================
