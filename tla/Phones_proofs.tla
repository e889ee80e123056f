----------------------------- MODULE Phones_proofs ----------------------------
(***************************************************************************)
(* Proofs about AndroidSessions and, as MCPhones composes them with it,    *)
(* MirrorStream, AdbController and MediaDecoder: for any number of phones, *)
(* receivers, connecting threads and disconnects, any calls of adb, and any *)
(* number of connections and packets.                                      *)
(***************************************************************************)
EXTENDS MCPhones, FiniteSetTheorems, SequenceTheorems, Induction

(***************************************************************************)
(* Android's sessions.                                                     *)
(***************************************************************************)

(***************************************************************************)
(* Sequences without repetition.                                           *)
(***************************************************************************)

\* The receivers that a list names are finitely many.
LEMMA ListFinite ==
    ASSUME NEW list \in Seq(Slots)
    PROVE  IsFiniteSet(ToSet(list))
<1>1. IsFiniteSet(1..Len(list))
  BY FS_Interval
<1>2. list \in Surjection(1..Len(list), ToSet(list))
  BY DEF Surjection, ToSet
<1> QED
  BY <1>1, <1>2, FS_Surjection

\* A part of the list in the list's order has each of its receivers once.
LEMMA InOrderList ==
    ASSUME TypeOK, NEW S \in SUBSET ToSet(sessions), NEW t \in InOrder(S)
    PROVE  /\ t \in Seq(Slots)
           /\ ToSet(t) = S
           /\ IsInjective(t)
           /\ t = <<>> <=> S = {}
<1>1. sessions \in Seq(Slots) /\ S \subseteq Slots
  BY DEF TypeOK, ToSet
<1>2. Cardinality(S) \in Nat
  BY <1>1, ListFinite, FS_Subset, FS_CardinalityType
<1>3. /\ t \in [1..Cardinality(S) -> S]
      /\ ToSet(t) = S
      /\ \A i, j \in DOMAIN t : i < j => PlaceOf(t[i]) < PlaceOf(t[j])
  BY DEF InOrder
<1>4. t \in Seq(Slots)
  BY <1>1, <1>2, <1>3
<1>5. \A s \in S : PlaceOf(s) \in Nat
  BY <1>1 DEF PlaceOf, ToSet
<1>6. IsInjective(t)
  <2> SUFFICES ASSUME NEW i \in DOMAIN t, NEW j \in DOMAIN t, t[i] = t[j], i < j
               PROVE  FALSE
    BY <1>2, <1>3 DEF IsInjective
  <2> QED
    BY <1>3, <1>5
<1>7. t = <<>> <=> S = {}
  BY <1>2, <1>3, <1>4 DEF ToSet
<1> QED
  BY <1>3, <1>4, <1>6, <1>7

\* Only the empty list has no length.
LEMMA EmptyList ==
    ASSUME NEW list \in Seq(Slots)
    PROVE  list = <<>> <=> Len(list) = 0
  OBVIOUS

\* The head and the tail of a list without repetition.
LEMMA HeadAndTail ==
    ASSUME NEW list \in Seq(Slots), list # <<>>
    PROVE  /\ Head(list) \in ToSet(list)
           /\ Head(list) \in Slots
           /\ Tail(list) \in Seq(Slots)
           /\ ToSet(list) = ToSet(Tail(list)) \cup {Head(list)}
           /\ Tail(list) = <<>> <=> Len(list) = 1
           /\ IsInjective(list) => /\ IsInjective(Tail(list))
                                   /\ Head(list) \notin ToSet(Tail(list))
<1>1. /\ Head(list) = list[1] /\ 1 \in DOMAIN list
      /\ Tail(list) \in Seq(Slots) /\ Len(Tail(list)) = Len(list) - 1
      /\ \A i \in DOMAIN Tail(list) : Tail(list)[i] = list[i + 1] /\ i + 1 \in DOMAIN list
  OBVIOUS
<1>2. \A j \in DOMAIN list : j # 1 => j - 1 \in DOMAIN Tail(list) /\ list[j] = Tail(list)[j - 1]
  BY <1>1
<1>3. ToSet(list) = ToSet(Tail(list)) \cup {Head(list)}
  <2>1. \A s \in ToSet(list) : s \in ToSet(Tail(list)) \/ s = Head(list)
    BY <1>1, <1>2 DEF ToSet
  <2>2. \A s \in ToSet(Tail(list)) : s \in ToSet(list)
    BY <1>1 DEF ToSet
  <2>3. Head(list) \in ToSet(list)
    BY <1>1 DEF ToSet
  <2> QED
    BY <2>1, <2>2, <2>3
<1>4. Tail(list) = <<>> <=> Len(list) = 1
  <2>1. Tail(list) = <<>> <=> Len(Tail(list)) = 0
    BY <1>1, EmptyList
  <2> QED
    BY <1>1, <2>1
<1>5. ASSUME IsInjective(list)
      PROVE  IsInjective(Tail(list)) /\ Head(list) \notin ToSet(Tail(list))
  BY <1>1, <1>5 DEF IsInjective, ToSet
<1>6. Head(list) \in Slots
  OBVIOUS
<1>7. Head(list) \in ToSet(list)
  BY <1>3
<1> QED
  BY <1>1, <1>3, <1>4, <1>5, <1>6, <1>7

\* A receiver that is not in the list is put at its end.
LEMMA AtTheEnd ==
    ASSUME NEW list \in Seq(Slots), NEW s \in Slots
    PROVE  /\ Append(list, s) \in Seq(Slots)
           /\ ToSet(Append(list, s)) = ToSet(list) \cup {s}
           /\ IsInjective(list) /\ s \notin ToSet(list) => IsInjective(Append(list, s))
<1>1. /\ Append(list, s) \in Seq(Slots) /\ Len(Append(list, s)) = Len(list) + 1
      /\ \A i \in DOMAIN list : Append(list, s)[i] = list[i]
      /\ Append(list, s)[Len(list) + 1] = s
      /\ DOMAIN Append(list, s) = DOMAIN list \cup {Len(list) + 1}
  OBVIOUS
<1>2. ToSet(Append(list, s)) = ToSet(list) \cup {s}
  BY <1>1 DEF ToSet
<1>3. ASSUME IsInjective(list), s \notin ToSet(list)
      PROVE  IsInjective(Append(list, s))
  BY <1>1, <1>3 DEF IsInjective, ToSet
<1> QED
  BY <1>1, <1>2, <1>3
(***************************************************************************)
(* The invariant.                                                          *)
(***************************************************************************)

\* The receivers that a disconnect has taken and not stopped yet, or that a
\* replacement has yet to stop.
Held(t) == ToSet(todo[t])

\* Where a thread can be, and what it has there: the mutex exactly while it
\* replaces, a receiver that is not listed exactly between start() and push_back(),
\* receivers to stop exactly while it stops them.
ConnectorPlace(c) ==
    /\ pc[c] \in {"off", "replace", "stop", "join", "erase", "pair", "push", "store"}
    /\ pc[c] # "off" => target[c] \in Phones
    /\ mutex = c <=> pc[c] \in {"stop", "join", "erase"}
    /\ building[c] \in Slots <=> pc[c] = "push"

DropperPlace(d) ==
    /\ pc[d] \in {"off", "take", "stop", "join", "settle"}
    /\ d \in Slots /\ pc[d] # "off" => worker[d] \in {"none", "done"}

Stopping(t) ==
    /\ pc[t] \in {"stop", "join"} <=> todo[t] # <<>>
    /\ IsInjective(todo[t])

PlacesOK ==
    /\ \A c \in Connectors : ConnectorPlace(c)
    /\ \A d \in Droppers : DropperPlace(d)
    /\ \A t \in Threads : Stopping(t)

\* A receiver that exists is listed, or being built, or being dropped, ...
Owned(s) ==
    \/ s \in ToSet(sessions)
    \/ \E c \in Connectors : building[c] = s
    \/ \E d \in Droppers : s \in Held(d)

Ownership == \A s \in Slots : phone[s] # NoPhone <=> Owned(s)

\* ... and only one of these, by one thread.
OneOwner ==
    /\ \A d \in Droppers : Held(d) \cap ToSet(sessions) = {}
    /\ \A d, e \in Droppers : d # e => Held(d) \cap Held(e) = {}
    /\ \A c \in Connectors :
         /\ building[c] \notin ToSet(sessions)
         /\ \A d \in Droppers : building[c] \notin Held(d)
         /\ \A e \in Connectors : building[c] \in Slots /\ building[c] = building[e] => c = e

BuildsTarget == \A c \in Connectors : building[c] \in Slots => phone[building[c]] = target[c]

\* While a replacement holds the mutex the receivers of its phone are still to
\* be stopped, or have been joined.
ReplacedJoined ==
    \A c \in Connectors : mutex = c =>
        \A s \in ToSet(sessions) :
            phone[s] = target[c] => s \in Held(c) \/ worker[s] = "none"


\* Threads are where they can be after a step, too.
LEMMA PlacesKept ==
    ASSUME TypeOK, PlacesOK, [Next]_vars
    PROVE  PlacesOK'
<1> USE ThreadsAssumption, PhonesAssumption DEF At, Goto
<1>1. ASSUME NEW s \in Slots, WorkerReads(s) PROVE PlacesOK'
  BY <1>1 DEF WorkerReads, Works, WorkerKeeps, PlacesOK, ConnectorPlace, DropperPlace,
     Stopping, TypeOK, Threads, Droppers, receiverVars, threadVars, uiVars
<1>2. ASSUME NEW s \in Slots, Claim(s) PROVE PlacesOK'
  BY <1>2 DEF Claim, Works, WorkerKeeps, ClaimedBy, PlacesOK, ConnectorPlace,
     DropperPlace, Stopping, TypeOK, Threads, Droppers, receiverVars, threadVars, uiVars
<1>3. ASSUME NEW s \in Slots, Adopt(s) PROVE PlacesOK'
  BY <1>3 DEF Adopt, Works, WorkerKeeps, PlacesOK, ConnectorPlace, DropperPlace,
     Stopping, TypeOK, Threads, Droppers, receiverVars, threadVars, uiVars
<1>4. ASSUME NEW s \in Slots, CheckActive(s) PROVE PlacesOK'
  BY <1>4 DEF CheckActive, Works, WorkerKeeps, PlacesOK, ConnectorPlace, DropperPlace,
     Stopping, TypeOK, Threads, Droppers, receiverVars, threadVars, uiVars
<1>5. ASSUME NEW s \in Slots, Submit(s) PROVE PlacesOK'
  BY <1>5 DEF Submit, Works, WorkerKeeps, PlacesOK, ConnectorPlace, DropperPlace,
     Stopping, TypeOK, Threads, Droppers, receiverVars, threadVars, uiVars
<1>6. ASSUME NEW s \in Slots, StreamEnds(s) PROVE PlacesOK'
  <2>1. ASSUME NEW e \in Connectors PROVE ConnectorPlace(e)'
    BY <1>6 DEF StreamEnds, Works, WorkerKeeps, PlacesOK, TypeOK, Threads, Droppers,
       receiverVars, uiVars, threadVars, ConnectorPlace
  <2>2. ASSUME NEW e \in Droppers PROVE DropperPlace(e)'
    BY <1>6 DEF StreamEnds, Works, WorkerKeeps, PlacesOK, TypeOK, Threads, Droppers,
       receiverVars, uiVars, threadVars, DropperPlace
  <2>3. ASSUME NEW e \in Threads PROVE Stopping(e)'
    BY <1>6 DEF StreamEnds, Works, WorkerKeeps, PlacesOK, TypeOK, Threads, Droppers,
       receiverVars, uiVars, threadVars, DropperPlace, Stopping
  <2> QED
    BY <2>1, <2>2, <2>3 DEF PlacesOK
<1>7. ASSUME NEW c \in Connectors, NEW p \in Phones, Connect(c, p) PROVE PlacesOK'
  <2>1. ASSUME NEW e \in Connectors PROVE ConnectorPlace(e)'
    BY <1>7 DEF Connect, PlacesOK, TypeOK, Threads, Droppers, receiverVars, uiVars,
       threadVars, ConnectorPlace
  <2>2. ASSUME NEW e \in Droppers PROVE DropperPlace(e)'
    BY <1>7 DEF Connect, PlacesOK, TypeOK, Threads, Droppers, receiverVars, uiVars,
       threadVars, DropperPlace
  <2>3. ASSUME NEW e \in Threads PROVE Stopping(e)'
    BY <1>7 DEF Connect, PlacesOK, TypeOK, Threads, Droppers, receiverVars, uiVars,
       threadVars, DropperPlace, Stopping
  <2> QED
    BY <2>1, <2>2, <2>3 DEF PlacesOK
<1>8. ASSUME NEW c \in Connectors, Replace(c) PROVE PlacesOK'
  <2>1. PICK stopped \in InOrder(Matching(target[c])) : todo' = [todo EXCEPT ![c] = stopped]
    BY <1>8 DEF Replace
  <2>2. /\ stopped \in Seq(Slots) /\ IsInjective(stopped)
        /\ stopped = <<>> <=> Matching(target[c]) = {}
    BY InOrderList DEF Matching
  <2> QED
    BY <1>8, <2>1, <2>2 DEF Replace, MutexFree, PlacesOK, ConnectorPlace,
       DropperPlace, Stopping, TypeOK, Threads, Droppers, receiverVars, uiVars
<1>9. ASSUME NEW c \in Connectors, EraseReplaced(c) PROVE PlacesOK'
  BY <1>9 DEF EraseReplaced, PlacesOK, ConnectorPlace, DropperPlace, Stopping, TypeOK,
     Threads, Droppers, receiverVars, threadVars, uiVars
<1>10. ASSUME NEW c \in Connectors, ConnectFails(c) PROVE PlacesOK'
  BY <1>10 DEF ConnectFails, Returns, PlacesOK, ConnectorPlace, DropperPlace,
     Stopping,
     TypeOK, Threads, Droppers, receiverVars, threadVars, uiVars
<1>11. ASSUME NEW c \in Connectors, NEW s \in Slots, StartReceiver(c, s)
       PROVE  PlacesOK'
  <2>1. ASSUME NEW e \in Connectors PROVE ConnectorPlace(e)'
    BY <1>11 DEF StartReceiver, Free, PlacesOK, TypeOK, Threads, Droppers,
       receiverVars, uiVars, threadVars, ConnectorPlace
  <2>2. ASSUME NEW e \in Droppers PROVE DropperPlace(e)'
    BY <1>11 DEF StartReceiver, Free, PlacesOK, TypeOK, Threads, Droppers,
       receiverVars, uiVars, threadVars, DropperPlace
  <2>3. ASSUME NEW e \in Threads PROVE Stopping(e)'
    BY <1>11 DEF StartReceiver, Free, PlacesOK, TypeOK, Threads, Droppers,
       receiverVars, uiVars, threadVars, DropperPlace, Stopping
  <2> QED
    BY <2>1, <2>2, <2>3 DEF PlacesOK
<1>12. ASSUME NEW c \in Connectors, PushSession(c) PROVE PlacesOK'
  BY <1>12 DEF PushSession, PlacesOK, ConnectorPlace, DropperPlace, Stopping, TypeOK,
     Threads, Droppers, receiverVars, threadVars, uiVars
<1>13. ASSUME NEW c \in Connectors, StoreSource(c) PROVE PlacesOK'
  BY <1>13 DEF StoreSource, Returns, PlacesOK, ConnectorPlace, DropperPlace, Stopping,
     TypeOK, Threads, Droppers, receiverVars, threadVars, uiVars
<1>14. ASSUME NEW t \in Threads, StopBegin(t) PROVE PlacesOK'
  BY <1>14 DEF StopBegin, PlacesOK, ConnectorPlace, DropperPlace, Stopping, TypeOK,
     Threads, Droppers, receiverVars, threadVars, uiVars
<1>15. ASSUME NEW t \in Threads, StopEnd(t) PROVE PlacesOK'
  <2>1. todo[t] \in Seq(Slots) /\ todo[t] # <<>> /\ IsInjective(todo[t])
    BY <1>15 DEF StopEnd, PlacesOK, Stopping, TypeOK
  <2>2. /\ Tail(todo[t]) \in Seq(Slots) /\ IsInjective(Tail(todo[t]))
        /\ Tail(todo[t]) = <<>> <=> ~(Len(todo[t]) > 1)
    <3>1. Len(todo[t]) \in Nat /\ Len(todo[t]) # 0
      BY <2>1, EmptyList
    <3>2. /\ Tail(todo[t]) \in Seq(Slots) /\ IsInjective(Tail(todo[t]))
          /\ Tail(todo[t]) = <<>> <=> Len(todo[t]) = 1
      BY <2>1, HeadAndTail
    <3> QED
      BY <3>1, <3>2
  <2>3. \A c \in Connectors : ConnectorPlace(c)'
    BY <1>15, <2>2 DEF StopEnd, PlacesOK, ConnectorPlace, Stopping, TypeOK, Threads,
       Droppers, receiverVars, uiVars
  <2>4. \A d \in Droppers : DropperPlace(d)'
    BY <1>15, <2>2 DEF StopEnd, PlacesOK, DropperPlace, TypeOK, Threads, Droppers,
       receiverVars, uiVars
  <2>5. \A u \in Threads : Stopping(u)'
    BY <1>15, <2>1, <2>2 DEF StopEnd, PlacesOK, Stopping, TypeOK, Threads, Droppers,
       receiverVars, uiVars
  <2> QED
    BY <2>3, <2>4, <2>5 DEF PlacesOK
<1>16. ASSUME NEW d \in Droppers, DropTake(d) PROVE PlacesOK'
  <2>1. PICK stopped \in InOrder(Matching(target[d])) : todo' = [todo EXCEPT ![d] = stopped]
    BY <1>16 DEF DropTake
  <2>2. /\ stopped \in Seq(Slots) /\ IsInjective(stopped)
        /\ stopped = <<>> <=> Matching(target[d]) = {}
    BY InOrderList DEF Matching
  <2> QED
    BY <1>16, <2>1, <2>2 DEF DropTake, MutexFree, PlacesOK, ConnectorPlace,
       DropperPlace, Stopping, TypeOK, Threads, Droppers, receiverVars, uiVars
<1>17. ASSUME NEW d \in Droppers, Settle(d) PROVE PlacesOK'
  BY <1>17 DEF Settle, Returns, PlacesOK, ConnectorPlace, DropperPlace, Stopping,
     TypeOK, Threads, Droppers, receiverVars, threadVars, uiVars
<1>18. ASSUME Draw PROVE PlacesOK'
  BY <1>18 DEF Draw, UiKeeps, PlacesOK, ConnectorPlace, DropperPlace, Stopping,
     TypeOK,
     Threads, Droppers, receiverVars, threadVars, uiVars
<1>19. ASSUME NEW p \in Phones, Select(p) PROVE PlacesOK'
  BY <1>19 DEF Select, UiKeeps, PlacesOK, ConnectorPlace, DropperPlace, Stopping,
     TypeOK, Threads, Droppers, receiverVars, threadVars, uiVars
<1>20. ASSUME Selected PROVE PlacesOK'
  BY <1>20 DEF Selected, UiKeeps, PlacesOK, ConnectorPlace, DropperPlace, Stopping,
     TypeOK, Threads, Droppers, receiverVars, threadVars, uiVars
<1>21. ASSUME SelectOther PROVE PlacesOK'
  BY <1>21 DEF SelectOther, UiKeeps, PlacesOK, ConnectorPlace, DropperPlace, Stopping,
     TypeOK, Threads, Droppers, receiverVars, threadVars, uiVars
<1>22. ASSUME OtherFrame PROVE PlacesOK'
  BY <1>22 DEF OtherFrame, UiKeeps, ClaimedBy, PlacesOK, ConnectorPlace, DropperPlace,
     Stopping, TypeOK, Threads, Droppers, receiverVars, threadVars, uiVars
<1>23. ASSUME OtherEnds PROVE PlacesOK'
  BY <1>23 DEF OtherEnds, UiKeeps, PlacesOK, ConnectorPlace, DropperPlace, Stopping,
     TypeOK, Threads, Droppers, receiverVars, threadVars, uiVars
<1>24. ASSUME NEW d \in Clicks, NEW p \in Phones \cup {NoPhone}, Disconnect(d, p)
       PROVE  PlacesOK'
  <2>1. ASSUME NEW e \in Connectors PROVE ConnectorPlace(e)'
    BY <1>24 DEF Disconnect, UiKeeps, PlacesOK, TypeOK, Threads, Droppers,
       receiverVars, uiVars, threadVars, ConnectorPlace
  <2>2. ASSUME NEW e \in Droppers PROVE DropperPlace(e)'
    BY <1>24 DEF Disconnect, UiKeeps, PlacesOK, TypeOK, Threads, Droppers,
       receiverVars, uiVars, threadVars, DropperPlace
  <2>3. ASSUME NEW e \in Threads PROVE Stopping(e)'
    BY <1>24 DEF Disconnect, UiKeeps, PlacesOK, TypeOK, Threads, Droppers,
       receiverVars, uiVars, threadVars, DropperPlace, Stopping
  <2> QED
    BY <2>1, <2>2, <2>3 DEF PlacesOK
<1>25. CASE UNCHANGED vars
  BY <1>25 DEF vars, PlacesOK, ConnectorPlace, DropperPlace, Stopping, TypeOK,
     Threads,
     Droppers, receiverVars, threadVars, uiVars
<1> QED
  BY <1>1, <1>2, <1>3, <1>4, <1>5, <1>6, <1>7, <1>8, <1>9, <1>10, <1>11, <1>12, <1>13,
     <1>14, <1>15, <1>16, <1>17, <1>18, <1>19, <1>20, <1>21, <1>22, <1>23, <1>24, <1>25
  DEF Next, WorkerStep, WorkerStops, PhoneLeaves, ConnectStep, ReplaceStep, DropStep,
     UiStep, Threads, Droppers
\* Steps that change nobody's owner, and the others.
OwnersKept ==
    UNCHANGED <<sessions, phone, building>> /\ \A d \in Droppers : todo'[d] = todo[d]

\* A step keeps every receiver's owner or is one of five actions.
LEMMA Classified ==
    ASSUME TypeOK, PlacesOK, [Next]_vars
    PROVE  \/ OwnersKept
           \/ \E c \in Connectors : \/ EraseReplaced(c) \/ PushSession(c)
                                    \/ \E s \in Slots : StartReceiver(c, s)
           \/ \E d \in Droppers : DropTake(d) \/ StopEnd(d)
<1> DEFINE Changes ==
             \/ \E c \in Connectors : \/ EraseReplaced(c) \/ PushSession(c)
                                      \/ \E s \in Slots : StartReceiver(c, s)
             \/ \E d \in Droppers : DropTake(d) \/ StopEnd(d)
<1> SUFFICES OwnersKept \/ Changes
  OBVIOUS
<1> USE ThreadsAssumption
<1>1. ASSUME NEW s \in Slots, WorkerReads(s) PROVE OwnersKept \/ Changes
  BY <1>1 DEF WorkerReads, Works, WorkerKeeps, TypeOK, OwnersKept, receiverVars,
     threadVars, uiVars
<1>2. ASSUME NEW s \in Slots, Claim(s) PROVE OwnersKept \/ Changes
  BY <1>2 DEF Claim, Works, WorkerKeeps, ClaimedBy, TypeOK, OwnersKept, receiverVars,
     threadVars, uiVars
<1>3. ASSUME NEW s \in Slots, Adopt(s) PROVE OwnersKept \/ Changes
  BY <1>3 DEF Adopt, Works, WorkerKeeps, TypeOK, OwnersKept, receiverVars, threadVars,
     uiVars
<1>4. ASSUME NEW s \in Slots, CheckActive(s) PROVE OwnersKept \/ Changes
  BY <1>4 DEF CheckActive, Works, WorkerKeeps, TypeOK, OwnersKept, receiverVars,
     threadVars, uiVars
<1>5. ASSUME NEW s \in Slots, Submit(s) PROVE OwnersKept \/ Changes
  BY <1>5 DEF Submit, Works, WorkerKeeps, TypeOK, OwnersKept, receiverVars,
     threadVars,
     uiVars
<1>6. ASSUME NEW s \in Slots, StreamEnds(s) PROVE OwnersKept \/ Changes
  BY <1>6 DEF StreamEnds, Works, WorkerKeeps, TypeOK, OwnersKept, receiverVars,
     threadVars, uiVars
<1>7. ASSUME NEW c \in Connectors, NEW p \in Phones, Connect(c, p)
      PROVE  OwnersKept \/ Changes
  BY <1>7 DEF Connect, TypeOK, OwnersKept, receiverVars, threadVars, uiVars
<1>8. ASSUME NEW c \in Connectors, Replace(c) PROVE OwnersKept \/ Changes
  BY <1>8 DEF Replace, TypeOK, OwnersKept, receiverVars, uiVars, Threads, Droppers
<1>9. ASSUME NEW c \in Connectors, EraseReplaced(c) PROVE OwnersKept \/ Changes
  BY <1>9
<1>10. ASSUME NEW c \in Connectors, ConnectFails(c) PROVE OwnersKept \/ Changes
  BY <1>10 DEF ConnectFails, Returns, TypeOK, OwnersKept, receiverVars, threadVars,
     uiVars
<1>11. ASSUME NEW c \in Connectors, NEW s \in Slots, StartReceiver(c, s)
       PROVE  OwnersKept \/ Changes
  BY <1>11
<1>12. ASSUME NEW c \in Connectors, PushSession(c) PROVE OwnersKept \/ Changes
  BY <1>12
<1>13. ASSUME NEW c \in Connectors, StoreSource(c) PROVE OwnersKept \/ Changes
  BY <1>13 DEF StoreSource, Returns, TypeOK, OwnersKept, receiverVars, threadVars,
     uiVars
<1>14. ASSUME NEW t \in Threads, StopBegin(t) PROVE OwnersKept \/ Changes
  BY <1>14 DEF StopBegin, TypeOK, OwnersKept, receiverVars, threadVars, uiVars
<1>15. ASSUME NEW t \in Threads, StopEnd(t) PROVE OwnersKept \/ Changes
  <2>1. CASE t \in Droppers
    BY <1>15, <2>1
  <2>2. CASE t \in Connectors
    BY <1>15, <2>2 DEF StopEnd, TypeOK, OwnersKept, receiverVars, uiVars, Threads,
       Droppers
  <2> QED
    BY <2>1, <2>2 DEF Threads
<1>16. ASSUME NEW d \in Droppers, DropTake(d) PROVE OwnersKept \/ Changes
  BY <1>16
<1>17. ASSUME NEW d \in Droppers, Settle(d) PROVE OwnersKept \/ Changes
  BY <1>17 DEF Settle, Returns, TypeOK, OwnersKept, receiverVars, threadVars, uiVars
<1>18. ASSUME Draw PROVE OwnersKept \/ Changes
  BY <1>18 DEF Draw, UiKeeps, TypeOK, OwnersKept, receiverVars, threadVars, uiVars
<1>19. ASSUME NEW p \in Phones, Select(p) PROVE OwnersKept \/ Changes
  BY <1>19 DEF Select, UiKeeps, TypeOK, OwnersKept, receiverVars, threadVars, uiVars
<1>20. ASSUME Selected PROVE OwnersKept \/ Changes
  BY <1>20 DEF Selected, UiKeeps, TypeOK, OwnersKept, receiverVars, threadVars, uiVars
<1>21. ASSUME SelectOther PROVE OwnersKept \/ Changes
  BY <1>21 DEF SelectOther, UiKeeps, TypeOK, OwnersKept, receiverVars, threadVars,
     uiVars
<1>22. ASSUME OtherFrame PROVE OwnersKept \/ Changes
  BY <1>22 DEF OtherFrame, UiKeeps, ClaimedBy, TypeOK, OwnersKept, receiverVars,
     threadVars, uiVars
<1>23. ASSUME OtherEnds PROVE OwnersKept \/ Changes
  BY <1>23 DEF OtherEnds, UiKeeps, TypeOK, OwnersKept, receiverVars, threadVars,
     uiVars
<1>24. ASSUME NEW d \in Clicks, NEW p \in Phones \cup {NoPhone}, Disconnect(d, p)
       PROVE  OwnersKept \/ Changes
  BY <1>24 DEF Disconnect, UiKeeps, TypeOK, OwnersKept, receiverVars, threadVars,
     uiVars
<1>25. CASE UNCHANGED vars
  BY <1>25 DEF vars, TypeOK, OwnersKept, receiverVars, threadVars, uiVars
<1> QED
  BY <1>1, <1>2, <1>3, <1>4, <1>5, <1>6, <1>7, <1>8, <1>9, <1>10, <1>11, <1>12, <1>13,
     <1>14, <1>15, <1>16, <1>17, <1>18, <1>19, <1>20, <1>21, <1>22, <1>23, <1>24, <1>25
  DEF Next, WorkerStep, WorkerStops, PhoneLeaves, ConnectStep, ReplaceStep, DropStep,
     UiStep, Threads, Droppers

\* What a step takes from one owner it gives to another, or destroys.
LEMMA OwnersMoved ==
    ASSUME TypeOK, PlacesOK, Ownership, OneOwner, [Next]_vars
    PROVE  Ownership' /\ OneOwner'
<1> USE ThreadsAssumption, PhonesAssumption
<1>1. CASE OwnersKept
  <2>1. \A d \in Droppers : Held(d)' = Held(d)
    BY <1>1 DEF OwnersKept, Held
  <2>2. \A s \in Slots : Owned(s)' = Owned(s)
    BY <1>1, <2>1 DEF OwnersKept, Owned
  <2> QED
    BY <1>1, <2>1, <2>2 DEF OwnersKept, Ownership, OneOwner
<1>2. ASSUME NEW c \in Connectors, EraseReplaced(c) PROVE Ownership' /\ OneOwner'
  <2> DEFINE M == Matching(target[c])
  <2>1. /\ \A d \in Droppers : Held(d)' = Held(d)
        /\ building' = building
        /\ phone' = [s \in Slots |-> IF s \in M THEN NoPhone ELSE phone[s]]
    BY <1>2 DEF EraseReplaced, Held
  <2>2. M \subseteq ToSet(sessions) /\ ToSet(sessions)' = ToSet(sessions) \ M
    BY <1>2, InOrderList DEF EraseReplaced, Others, Matching
  <2>3. Ownership'
    BY <2>1, <2>2 DEF Ownership, Owned, OneOwner
  <2> QED
    BY <2>1, <2>2, <2>3 DEF OneOwner
<1>3. ASSUME NEW c \in Connectors, NEW s \in Slots, StartReceiver(c, s)
      PROVE  Ownership' /\ OneOwner'
  <2>1. /\ \A d \in Droppers : Held(d)' = Held(d)
        /\ ToSet(sessions)' = ToSet(sessions)
        /\ building' = [building EXCEPT ![c] = s] /\ building[c] \notin Slots
        /\ phone' = [phone EXCEPT ![s] = target[c]] /\ target[c] # NoPhone
    BY <1>3 DEF StartReceiver, Held, PlacesOK, ConnectorPlace, At
  <2>2. ~Owned(s)
    BY <1>3 DEF StartReceiver, Free, Ownership
  <2>3. Ownership'
    BY <2>1, <2>2 DEF Ownership, Owned, TypeOK
  <2> QED
    BY <2>1, <2>2, <2>3 DEF OneOwner, Owned, TypeOK
<1>4. ASSUME NEW c \in Connectors, PushSession(c) PROVE Ownership' /\ OneOwner'
  <2>1. /\ \A d \in Droppers : Held(d)' = Held(d)
        /\ building' = [building EXCEPT ![c] = Nobody] /\ building[c] \in Slots
        /\ phone' = phone
    BY <1>4 DEF PushSession, Held, PlacesOK, ConnectorPlace, At, receiverVars
  <2>2. ToSet(sessions)' = ToSet(sessions) \cup {building[c]}
    BY <1>4, <2>1, AtTheEnd DEF PushSession, TypeOK
  <2>3. Ownership'
    BY <2>1, <2>2 DEF Ownership, Owned, TypeOK
  <2>4. ToSet(sessions) \subseteq Slots /\ \A d \in Droppers : Held(d) \subseteq Slots
    BY DEF TypeOK, ToSet, Held, Threads
  <2> QED
    BY <2>1, <2>2, <2>3, <2>4 DEF OneOwner, TypeOK
<1>5. ASSUME NEW d \in Droppers, DropTake(d) PROVE Ownership' /\ OneOwner'
  <2> DEFINE M == Matching(target[d])
  <2>1. building' = building /\ phone' = phone
    BY <1>5 DEF DropTake, receiverVars
  <2>2. M \subseteq ToSet(sessions) /\ ToSet(sessions)' = ToSet(sessions) \ M
    BY <1>5, InOrderList DEF DropTake, Others, Matching
  <2>3. Held(d) = {} /\ Held(d)' = M /\ \A e \in Droppers : e # d => Held(e)' = Held(e)
    <3>1. PICK stopped \in InOrder(M) : todo' = [todo EXCEPT ![d] = stopped]
      BY <1>5 DEF DropTake
    <3>2. ToSet(stopped) = M
      BY <2>2, InOrderList
    <3>3. todo[d] = <<>>
      BY <1>5 DEF DropTake, PlacesOK, Stopping, At, Threads
    <3> QED
      BY <3>1, <3>2, <3>3 DEF Held, TypeOK, Threads, ToSet
  <2>4. Ownership'
    BY <2>1, <2>2, <2>3 DEF Ownership, Owned
  <2> QED
    BY <2>1, <2>2, <2>3, <2>4 DEF OneOwner
<1>6. ASSUME NEW d \in Droppers, StopEnd(d) PROVE Ownership' /\ OneOwner'
  <2>2. todo[d] \in Seq(Slots) /\ todo[d] # <<>> /\ IsInjective(todo[d])
    BY <1>6 DEF StopEnd, PlacesOK, Stopping, At, TypeOK, Threads
  <2>5. PICK h \in Slots : h = Head(todo[d])
    BY <2>2, HeadAndTail
  <2>1. /\ building' = building /\ ToSet(sessions)' = ToSet(sessions)
        /\ phone' = [phone EXCEPT ![h] = NoPhone]
        /\ todo' = [todo EXCEPT ![d] = Tail(@)]
    BY <1>6, <2>5 DEF StopEnd
  <2>3. /\ h \in Held(d) /\ Held(d)' = Held(d) \ {h}
        /\ \A e \in Droppers : e # d => Held(e)' = Held(e)
    BY <2>1, <2>2, <2>5, HeadAndTail DEF Held, TypeOK, Threads
  <2>4. Ownership'
    <3>1. ~Owned(h)'
      BY <2>1, <2>3 DEF Owned, OneOwner
    <3>2. \A s \in Slots : s # h => (Owned(s)' <=> Owned(s))
      BY <2>1, <2>3, <1>6 DEF Owned
    <3> QED
      BY <2>1, <3>1, <3>2 DEF Ownership, TypeOK
  <2> QED
    BY <2>1, <2>3, <2>4 DEF OneOwner
<1> QED
  BY <1>1, <1>2, <1>3, <1>4, <1>5, <1>6, Classified
\* The receiver that a connecting thread has started is of its phone.
LEMMA BuildsTargetKept ==
    ASSUME TypeOK, PlacesOK, OneOwner, BuildsTarget, [Next]_vars
    PROVE  BuildsTarget'
<1> SUFFICES ASSUME NEW e \in Connectors, building'[e] \in Slots
             PROVE  phone'[building'[e]] = target'[e]
  BY DEF BuildsTarget
<1> DEFINE Goal == phone'[building'[e]] = target'[e]
<1> USE ThreadsAssumption DEF At, Goto
<1>1. ASSUME NEW s \in Slots, WorkerReads(s) PROVE Goal
  BY <1>1 DEF WorkerReads, Works, WorkerKeeps, BuildsTarget, TypeOK, Threads,
     Droppers,
     receiverVars, threadVars, uiVars
<1>2. ASSUME NEW s \in Slots, Claim(s) PROVE Goal
  BY <1>2 DEF Claim, Works, WorkerKeeps, ClaimedBy, BuildsTarget, TypeOK, Threads,
     Droppers, receiverVars, threadVars, uiVars
<1>3. ASSUME NEW s \in Slots, Adopt(s) PROVE Goal
  BY <1>3 DEF Adopt, Works, WorkerKeeps, BuildsTarget, TypeOK, Threads, Droppers,
     receiverVars, threadVars, uiVars
<1>4. ASSUME NEW s \in Slots, CheckActive(s) PROVE Goal
  BY <1>4 DEF CheckActive, Works, WorkerKeeps, BuildsTarget, TypeOK, Threads,
     Droppers,
     receiverVars, threadVars, uiVars
<1>5. ASSUME NEW s \in Slots, Submit(s) PROVE Goal
  BY <1>5 DEF Submit, Works, WorkerKeeps, BuildsTarget, TypeOK, Threads, Droppers,
     receiverVars, threadVars, uiVars
<1>6. ASSUME NEW s \in Slots, StreamEnds(s) PROVE Goal
  BY <1>6 DEF StreamEnds, Works, WorkerKeeps, BuildsTarget, TypeOK, Threads, Droppers,
     receiverVars, threadVars, uiVars
<1>7. ASSUME NEW c \in Connectors, NEW p \in Phones, Connect(c, p) PROVE Goal
  BY <1>7 DEF Connect, PlacesOK, ConnectorPlace, BuildsTarget, TypeOK, Threads,
     Droppers, receiverVars
<1>8. ASSUME NEW c \in Connectors, Replace(c) PROVE Goal
  BY <1>8 DEF Replace, BuildsTarget, TypeOK, Threads, Droppers, receiverVars,
     threadVars, uiVars
<1>9. ASSUME NEW c \in Connectors, EraseReplaced(c) PROVE Goal
  BY <1>9 DEF EraseReplaced, Matching, OneOwner, BuildsTarget, TypeOK
<1>10. ASSUME NEW c \in Connectors, ConnectFails(c) PROVE Goal
  BY <1>10 DEF ConnectFails, Returns, PlacesOK, ConnectorPlace, BuildsTarget, TypeOK,
     Threads, Droppers, receiverVars
<1>11. ASSUME NEW c \in Connectors, NEW s \in Slots, StartReceiver(c, s) PROVE Goal
  <2>1. CASE e = c
    BY <1>11, <2>1 DEF StartReceiver, TypeOK, Threads
  <2>2. CASE e # c
    BY <1>11, <2>2, PhonesAssumption DEF StartReceiver, Free, PlacesOK,
       ConnectorPlace, BuildsTarget, TypeOK, Threads
  <2> QED
    BY <2>1, <2>2
<1>12. ASSUME NEW c \in Connectors, PushSession(c) PROVE Goal
  BY <1>12 DEF PushSession, BuildsTarget, TypeOK, Threads, Droppers, receiverVars,
     threadVars, uiVars
<1>13. ASSUME NEW c \in Connectors, StoreSource(c) PROVE Goal
  BY <1>13 DEF StoreSource, Returns, PlacesOK, ConnectorPlace, BuildsTarget, TypeOK,
     Threads, Droppers, receiverVars
<1>14. ASSUME NEW t \in Threads, StopBegin(t) PROVE Goal
  BY <1>14 DEF StopBegin, BuildsTarget, TypeOK, Threads, Droppers, receiverVars,
     threadVars, uiVars
<1>15. ASSUME NEW t \in Threads, StopEnd(t) PROVE Goal
  <2>1. todo[t] \in Seq(Slots) /\ todo[t] # <<>> /\ IsInjective(todo[t])
    BY <1>15 DEF StopEnd, PlacesOK, Stopping, At, TypeOK
  <2>2. PICK h \in Slots : h = Head(todo[t])
    BY <2>1, HeadAndTail
  <2>3. t \in Droppers => building[e] # h
    BY <2>1, <2>2, HeadAndTail DEF OneOwner, Held
  <2> QED
    BY <1>15, <2>2, <2>3 DEF StopEnd, BuildsTarget, TypeOK, Threads
<1>16. ASSUME NEW d \in Droppers, DropTake(d) PROVE Goal
  BY <1>16 DEF DropTake, BuildsTarget, TypeOK, Threads, Droppers, receiverVars,
     threadVars, uiVars
<1>17. ASSUME NEW d \in Droppers, Settle(d) PROVE Goal
  BY <1>17 DEF Settle, Returns, BuildsTarget, TypeOK, Threads, Droppers, receiverVars,
     threadVars, uiVars
<1>18. ASSUME Draw PROVE Goal
  BY <1>18 DEF Draw, UiKeeps, BuildsTarget, TypeOK, Threads, Droppers, receiverVars,
     threadVars, uiVars
<1>19. ASSUME NEW p \in Phones, Select(p) PROVE Goal
  BY <1>19 DEF Select, UiKeeps, BuildsTarget, TypeOK, Threads, Droppers, receiverVars,
     threadVars, uiVars
<1>20. ASSUME Selected PROVE Goal
  BY <1>20 DEF Selected, UiKeeps, BuildsTarget, TypeOK, Threads, Droppers,
     receiverVars,
     threadVars, uiVars
<1>21. ASSUME SelectOther PROVE Goal
  BY <1>21 DEF SelectOther, UiKeeps, BuildsTarget, TypeOK, Threads, Droppers,
     receiverVars, threadVars, uiVars
<1>22. ASSUME OtherFrame PROVE Goal
  BY <1>22 DEF OtherFrame, UiKeeps, ClaimedBy, BuildsTarget, TypeOK, Threads,
     Droppers,
     receiverVars, threadVars, uiVars
<1>23. ASSUME OtherEnds PROVE Goal
  BY <1>23 DEF OtherEnds, UiKeeps, BuildsTarget, TypeOK, Threads, Droppers,
     receiverVars, threadVars, uiVars
<1>24. ASSUME NEW d \in Clicks, NEW p \in Phones \cup {NoPhone}, Disconnect(d, p)
       PROVE  Goal
  BY <1>24 DEF Disconnect, UiKeeps, BuildsTarget, TypeOK, Threads, Droppers,
     receiverVars, threadVars, uiVars
<1>25. CASE UNCHANGED vars
  BY <1>25 DEF vars, BuildsTarget, TypeOK, Threads, Droppers, receiverVars,
     threadVars,
     uiVars
<1> QED
  BY <1>1, <1>2, <1>3, <1>4, <1>5, <1>6, <1>7, <1>8, <1>9, <1>10, <1>11, <1>12, <1>13,
     <1>14, <1>15, <1>16, <1>17, <1>18, <1>19, <1>20, <1>21, <1>22, <1>23, <1>24, <1>25
  DEF Next, WorkerStep, WorkerStops, PhoneLeaves, ConnectStep, ReplaceStep, DropStep,
     UiStep, Threads, Droppers

\* While a replacement holds the mutex the list stays as it is, and what it
\* has stopped stays joined.
LEMMA ReplacedKept ==
    ASSUME TypeOK, PlacesOK, ReplacedJoined, [Next]_vars
    PROVE  ReplacedJoined'
<1> SUFFICES ASSUME NEW e \in Connectors, mutex' = e,
                    NEW s1 \in ToSet(sessions'), phone'[s1] = target'[e]
             PROVE  s1 \in ToSet(todo'[e]) \/ worker'[s1] = "none"
  BY DEF ReplacedJoined, Held
<1> DEFINE Goal == s1 \in ToSet(todo'[e]) \/ worker'[s1] = "none"
<1> USE ThreadsAssumption DEF At, Goto, Held, MutexFree
<1>1. ASSUME NEW s \in Slots, WorkerReads(s) PROVE Goal
  BY <1>1 DEF WorkerReads, Works, WorkerKeeps, ReplacedJoined, TypeOK, Threads,
     Droppers, receiverVars, threadVars, uiVars
<1>2. ASSUME NEW s \in Slots, Claim(s) PROVE Goal
  BY <1>2 DEF Claim, Works, WorkerKeeps, ClaimedBy, ReplacedJoined, TypeOK, Threads,
     Droppers, receiverVars, threadVars, uiVars
<1>3. ASSUME NEW s \in Slots, Adopt(s) PROVE Goal
  BY <1>3 DEF Adopt, Works, WorkerKeeps, ReplacedJoined, TypeOK, Threads, Droppers,
     receiverVars, threadVars, uiVars
<1>4. ASSUME NEW s \in Slots, CheckActive(s) PROVE Goal
  BY <1>4 DEF CheckActive, Works, WorkerKeeps, ReplacedJoined, TypeOK, Threads,
     Droppers, receiverVars, threadVars, uiVars
<1>5. ASSUME NEW s \in Slots, Submit(s) PROVE Goal
  BY <1>5 DEF Submit, Works, WorkerKeeps, ReplacedJoined, TypeOK, Threads, Droppers,
     receiverVars, threadVars, uiVars
<1>6. ASSUME NEW s \in Slots, StreamEnds(s) PROVE Goal
  BY <1>6 DEF StreamEnds, Works, WorkerKeeps, ReplacedJoined, TypeOK, Threads,
     Droppers,
     receiverVars, threadVars, uiVars
<1>7. ASSUME NEW c \in Connectors, NEW p \in Phones, Connect(c, p) PROVE Goal
  BY <1>7 DEF Connect, PlacesOK, ConnectorPlace, ReplacedJoined, TypeOK, Threads,
     Droppers, receiverVars
<1>8. ASSUME NEW c \in Connectors, Replace(c) PROVE Goal
  <2>1. PICK stopped \in InOrder(Matching(target[c])) : todo' = [todo EXCEPT ![c] = stopped]
    BY <1>8 DEF Replace
  <2>2. ToSet(stopped) = Matching(target[c])
    BY InOrderList DEF Matching
  <2>3. e = c
    BY <1>8 DEF Replace
  <2> QED
    BY <1>8, <2>1, <2>2, <2>3 DEF Replace, Matching, TypeOK, Threads, receiverVars
<1>9. ASSUME NEW c \in Connectors, EraseReplaced(c) PROVE Goal
  BY <1>9 DEF EraseReplaced
<1>10. ASSUME NEW c \in Connectors, ConnectFails(c) PROVE Goal
  BY <1>10 DEF ConnectFails, Returns, PlacesOK, ConnectorPlace, ReplacedJoined,
     TypeOK, Threads, Droppers, receiverVars
<1>11. ASSUME NEW c \in Connectors, NEW s \in Slots, StartReceiver(c, s) PROVE Goal
  BY <1>11 DEF StartReceiver
<1>12. ASSUME NEW c \in Connectors, PushSession(c) PROVE Goal
  BY <1>12 DEF PushSession
<1>13. ASSUME NEW c \in Connectors, StoreSource(c) PROVE Goal
  BY <1>13 DEF StoreSource, Returns, PlacesOK, ConnectorPlace, ReplacedJoined, TypeOK,
     Threads, Droppers, receiverVars
<1>14. ASSUME NEW t \in Threads, StopBegin(t) PROVE Goal
  BY <1>14 DEF StopBegin, ReplacedJoined, TypeOK, Threads, Droppers, receiverVars,
     threadVars, uiVars
<1>15. ASSUME NEW t \in Threads, StopEnd(t) PROVE Goal
  <2>1. todo[t] \in Seq(Slots) /\ todo[t] # <<>> /\ IsInjective(todo[t])
    BY <1>15 DEF StopEnd, PlacesOK, Stopping, At, TypeOK
  <2>2. PICK h \in Slots : h = Head(todo[t])
    BY <2>1, HeadAndTail
  <2>3. ToSet(Tail(todo[t])) = ToSet(todo[t]) \ {h}
    BY <2>1, <2>2, HeadAndTail
  <2>4. worker' = [worker EXCEPT ![h] = "none"] /\ todo' = [todo EXCEPT ![t] = Tail(@)]
        /\ mutex' = mutex /\ target' = target /\ sessions' = sessions
        /\ \A s \in Slots : s # h => phone'[s] = phone[s]
    BY <1>15, <2>2 DEF StopEnd, TypeOK
  <2>5. s1 \in Slots
    BY <2>4 DEF TypeOK, ToSet
  <2>6. s1 = h \/ s1 \in ToSet(todo[e]) \/ worker[s1] = "none"
    BY <2>4, <2>5 DEF ReplacedJoined
  <2> QED
    BY <2>3, <2>4, <2>5, <2>6 DEF TypeOK, Threads
<1>16. ASSUME NEW d \in Droppers, DropTake(d) PROVE Goal
  BY <1>16 DEF DropTake
<1>17. ASSUME NEW d \in Droppers, Settle(d) PROVE Goal
  BY <1>17 DEF Settle
<1>18. ASSUME Draw PROVE Goal
  BY <1>18 DEF Draw, UiKeeps, ReplacedJoined, TypeOK, Threads, Droppers, receiverVars,
     threadVars, uiVars
<1>19. ASSUME NEW p \in Phones, Select(p) PROVE Goal
  BY <1>19 DEF Select, UiKeeps, ReplacedJoined, TypeOK, Threads, Droppers,
     receiverVars,
     threadVars, uiVars
<1>20. ASSUME Selected PROVE Goal
  BY <1>20 DEF Selected, UiKeeps, ReplacedJoined, TypeOK, Threads, Droppers,
     receiverVars, threadVars, uiVars
<1>21. ASSUME SelectOther PROVE Goal
  BY <1>21 DEF SelectOther, UiKeeps, ReplacedJoined, TypeOK, Threads, Droppers,
     receiverVars, threadVars, uiVars
<1>22. ASSUME OtherFrame PROVE Goal
  BY <1>22 DEF OtherFrame, UiKeeps, ClaimedBy, ReplacedJoined, TypeOK, Threads,
     Droppers, receiverVars, threadVars, uiVars
<1>23. ASSUME OtherEnds PROVE Goal
  BY <1>23 DEF OtherEnds, UiKeeps, ReplacedJoined, TypeOK, Threads, Droppers,
     receiverVars, threadVars, uiVars
<1>24. ASSUME NEW d \in Clicks, NEW p \in Phones \cup {NoPhone}, Disconnect(d, p)
       PROVE  Goal
  BY <1>24 DEF Disconnect, UiKeeps, ReplacedJoined, TypeOK, Threads, Droppers,
     receiverVars, threadVars, uiVars
<1>25. CASE UNCHANGED vars
  BY <1>25 DEF vars, ReplacedJoined, TypeOK, Threads, Droppers, receiverVars,
     threadVars, uiVars
<1> QED
  BY <1>1, <1>2, <1>3, <1>4, <1>5, <1>6, <1>7, <1>8, <1>9, <1>10, <1>11, <1>12, <1>13,
     <1>14, <1>15, <1>16, <1>17, <1>18, <1>19, <1>20, <1>21, <1>22, <1>23, <1>24, <1>25
  DEF Next, WorkerStep, WorkerStops, PhoneLeaves, ConnectStep, ReplaceStep, DropStep,
     UiStep, Threads, Droppers

\* A receiver is destroyed when its worker has been joined.
LEMMA JoinedKept ==
    ASSUME TypeOK, PlacesOK, ReplacedJoined, ReceiversJoined, [Next]_vars
    PROVE  ReceiversJoined'
<1> SUFFICES ASSUME NEW s1 \in Slots, phone'[s1] = NoPhone
             PROVE  worker'[s1] = "none"
  BY DEF ReceiversJoined
<1> DEFINE Goal == worker'[s1] = "none"
<1> USE ThreadsAssumption, PhonesAssumption DEF At, Goto
<1>1. ASSUME NEW s \in Slots, WorkerReads(s) PROVE Goal
  BY <1>1 DEF WorkerReads, Works, WorkerKeeps, ReceiversJoined, TypeOK, receiverVars,
     threadVars, uiVars
<1>2. ASSUME NEW s \in Slots, Claim(s) PROVE Goal
  BY <1>2 DEF Claim, Works, WorkerKeeps, ClaimedBy, ReceiversJoined, TypeOK,
     receiverVars, threadVars, uiVars
<1>3. ASSUME NEW s \in Slots, Adopt(s) PROVE Goal
  BY <1>3 DEF Adopt, Works, WorkerKeeps, ReceiversJoined, TypeOK, receiverVars,
     threadVars, uiVars
<1>4. ASSUME NEW s \in Slots, CheckActive(s) PROVE Goal
  BY <1>4 DEF CheckActive, Works, WorkerKeeps, ReceiversJoined, TypeOK, receiverVars,
     threadVars, uiVars
<1>5. ASSUME NEW s \in Slots, Submit(s) PROVE Goal
  BY <1>5 DEF Submit, Works, WorkerKeeps, ReceiversJoined, TypeOK, receiverVars,
     threadVars, uiVars
<1>6. ASSUME NEW s \in Slots, StreamEnds(s) PROVE Goal
  BY <1>6 DEF StreamEnds, Works, WorkerKeeps, ReceiversJoined, TypeOK, receiverVars,
     threadVars, uiVars
<1>7. ASSUME NEW c \in Connectors, NEW p \in Phones, Connect(c, p) PROVE Goal
  BY <1>7 DEF Connect, ReceiversJoined, TypeOK, receiverVars, threadVars, uiVars
<1>8. ASSUME NEW c \in Connectors, Replace(c) PROVE Goal
  BY <1>8 DEF Replace, ReceiversJoined, TypeOK, receiverVars, threadVars, uiVars
<1>9. ASSUME NEW c \in Connectors, EraseReplaced(c) PROVE Goal
  <2>1. Held(c) = {} /\ mutex = c
    BY <1>9 DEF EraseReplaced, PlacesOK, ConnectorPlace, Stopping, Held, ToSet,
       Threads
  <2>2. target[c] # NoPhone
    BY <1>9 DEF EraseReplaced, PlacesOK, ConnectorPlace
  <2> QED
    BY <1>9, <2>1, <2>2 DEF EraseReplaced, Matching, ReplacedJoined, ReceiversJoined,
       TypeOK
<1>10. ASSUME NEW c \in Connectors, ConnectFails(c) PROVE Goal
  BY <1>10 DEF ConnectFails, Returns, ReceiversJoined, TypeOK, receiverVars,
     threadVars,
     uiVars
<1>11. ASSUME NEW c \in Connectors, NEW s \in Slots, StartReceiver(c, s) PROVE Goal
  BY <1>11 DEF StartReceiver, PlacesOK, ConnectorPlace, ReceiversJoined, TypeOK,
     Threads
<1>12. ASSUME NEW c \in Connectors, PushSession(c) PROVE Goal
  BY <1>12 DEF PushSession, ReceiversJoined, TypeOK, receiverVars, threadVars, uiVars
<1>13. ASSUME NEW c \in Connectors, StoreSource(c) PROVE Goal
  BY <1>13 DEF StoreSource, Returns, ReceiversJoined, TypeOK, receiverVars,
     threadVars,
     uiVars
<1>14. ASSUME NEW t \in Threads, StopBegin(t) PROVE Goal
  BY <1>14 DEF StopBegin, ReceiversJoined, TypeOK, receiverVars, threadVars, uiVars
<1>15. ASSUME NEW t \in Threads, StopEnd(t) PROVE Goal
  <2>1. todo[t] \in Seq(Slots) /\ todo[t] # <<>> /\ IsInjective(todo[t])
    BY <1>15 DEF StopEnd, PlacesOK, Stopping, At, TypeOK
  <2>2. PICK h \in Slots : h = Head(todo[t])
    BY <2>1, HeadAndTail
  <2> QED
    BY <1>15, <2>2 DEF StopEnd, ReceiversJoined, TypeOK
<1>16. ASSUME NEW d \in Droppers, DropTake(d) PROVE Goal
  BY <1>16 DEF DropTake, ReceiversJoined, TypeOK, receiverVars, threadVars, uiVars
<1>17. ASSUME NEW d \in Droppers, Settle(d) PROVE Goal
  BY <1>17 DEF Settle, Returns, ReceiversJoined, TypeOK, receiverVars, threadVars,
     uiVars
<1>18. ASSUME Draw PROVE Goal
  BY <1>18 DEF Draw, UiKeeps, ReceiversJoined, TypeOK, receiverVars, threadVars,
     uiVars
<1>19. ASSUME NEW p \in Phones, Select(p) PROVE Goal
  BY <1>19 DEF Select, UiKeeps, ReceiversJoined, TypeOK, receiverVars, threadVars,
     uiVars
<1>20. ASSUME Selected PROVE Goal
  BY <1>20 DEF Selected, UiKeeps, ReceiversJoined, TypeOK, receiverVars, threadVars,
     uiVars
<1>21. ASSUME SelectOther PROVE Goal
  BY <1>21 DEF SelectOther, UiKeeps, ReceiversJoined, TypeOK, receiverVars,
     threadVars,
     uiVars
<1>22. ASSUME OtherFrame PROVE Goal
  BY <1>22 DEF OtherFrame, UiKeeps, ClaimedBy, ReceiversJoined, TypeOK, receiverVars,
     threadVars, uiVars
<1>23. ASSUME OtherEnds PROVE Goal
  BY <1>23 DEF OtherEnds, UiKeeps, ReceiversJoined, TypeOK, receiverVars, threadVars,
     uiVars
<1>24. ASSUME NEW d \in Clicks, NEW p \in Phones \cup {NoPhone}, Disconnect(d, p)
       PROVE  Goal
  BY <1>24 DEF Disconnect, UiKeeps, ReceiversJoined, TypeOK, receiverVars, threadVars,
     uiVars
<1>25. CASE UNCHANGED vars
  BY <1>25 DEF vars, ReceiversJoined, TypeOK, receiverVars, threadVars, uiVars
<1> QED
  BY <1>1, <1>2, <1>3, <1>4, <1>5, <1>6, <1>7, <1>8, <1>9, <1>10, <1>11, <1>12, <1>13,
     <1>14, <1>15, <1>16, <1>17, <1>18, <1>19, <1>20, <1>21, <1>22, <1>23, <1>24, <1>25
  DEF Next, WorkerStep, WorkerStops, PhoneLeaves, ConnectStep, ReplaceStep, DropStep,
     UiStep, Threads, Droppers

\* Every variable keeps its type.
LEMMA TypeKept ==
    ASSUME TypeOK, PlacesOK, Ownership, OneOwner, [Next]_vars
    PROVE  TypeOK'
<1> USE ThreadsAssumption, PhonesAssumption DEF Threads, Droppers, Goto, At
<1> DEFINE ListedPhones == \A s \in ToSet(sessions) : s \in Slots /\ phone[s] \in Phones
<1>0. ListedPhones
  BY DEF TypeOK, ToSet, Ownership, Owned
<1>1. ASSUME NEW s \in Slots, WorkerReads(s) PROVE TypeOK'
  BY <1>1 DEF WorkerReads, Works, WorkerKeeps, TypeOK, receiverVars, threadVars,
     uiVars
<1>2. ASSUME NEW s \in Slots, Claim(s) PROVE TypeOK'
  BY <1>2 DEF Claim, Works, WorkerKeeps, ClaimedBy, TypeOK, receiverVars, threadVars,
     uiVars
<1>3. ASSUME NEW s \in Slots, Adopt(s) PROVE TypeOK'
  BY <1>3 DEF Adopt, Works, WorkerKeeps, TypeOK, receiverVars, threadVars, uiVars
<1>4. ASSUME NEW s \in Slots, CheckActive(s) PROVE TypeOK'
  BY <1>4 DEF CheckActive, Works, WorkerKeeps, TypeOK, receiverVars, threadVars,
     uiVars
<1>5. ASSUME NEW s \in Slots, Submit(s) PROVE TypeOK'
  BY <1>5 DEF Submit, Works, WorkerKeeps, TypeOK, receiverVars, threadVars, uiVars
<1>6. ASSUME NEW s \in Slots, StreamEnds(s) PROVE TypeOK'
  BY <1>6 DEF StreamEnds, Works, WorkerKeeps, TypeOK, receiverVars, threadVars, uiVars
<1>7. ASSUME NEW c \in Connectors, NEW p \in Phones, Connect(c, p) PROVE TypeOK'
  BY <1>7 DEF Connect, TypeOK, receiverVars, threadVars, uiVars
<1>8. ASSUME NEW c \in Connectors, Replace(c) PROVE TypeOK'
  <2>1. PICK stopped \in InOrder(Matching(target[c])) : todo' = [todo EXCEPT ![c] = stopped]
    BY <1>8 DEF Replace
  <2>2. stopped \in Seq(Slots)
    BY InOrderList DEF Matching
  <2> QED
    BY <1>8, <2>1, <2>2 DEF Replace, TypeOK, receiverVars, uiVars
<1>9. ASSUME NEW c \in Connectors, EraseReplaced(c) PROVE TypeOK'
  <2>1. sessions' \in Seq(Slots) /\ IsInjective(sessions')
    BY <1>9, InOrderList DEF EraseReplaced, Others
  <2> QED
    BY <1>9, <2>1 DEF EraseReplaced, TypeOK, uiVars
<1>10. ASSUME NEW c \in Connectors, ConnectFails(c) PROVE TypeOK'
  BY <1>10 DEF ConnectFails, Returns, TypeOK, receiverVars, threadVars, uiVars
<1>11. ASSUME NEW c \in Connectors, NEW s \in Slots, StartReceiver(c, s) PROVE TypeOK'
  BY <1>11 DEF StartReceiver, TypeOK, receiverVars, threadVars, uiVars
<1>12. ASSUME NEW c \in Connectors, PushSession(c) PROVE TypeOK'
  <2>1. building[c] \in Slots /\ building[c] \notin ToSet(sessions) /\ target[c] \in Phones
    BY <1>12 DEF PushSession, PlacesOK, ConnectorPlace, OneOwner
  <2>2. sessions' \in Seq(Slots) /\ IsInjective(sessions')
    BY <1>12, <2>1, AtTheEnd DEF PushSession, TypeOK
  <2> QED
    BY <1>12, <2>1, <2>2 DEF PushSession, TypeOK, receiverVars, uiVars
<1>13. ASSUME NEW c \in Connectors, StoreSource(c) PROVE TypeOK'
  BY <1>13 DEF StoreSource, Returns, TypeOK, receiverVars, threadVars, uiVars
<1>14. ASSUME NEW t \in Threads, StopBegin(t) PROVE TypeOK'
  BY <1>14 DEF StopBegin, TypeOK, receiverVars, threadVars, uiVars
<1>15. ASSUME NEW t \in Threads, StopEnd(t) PROVE TypeOK'
  <2>1. todo[t] \in Seq(Slots) /\ todo[t] # <<>> /\ IsInjective(todo[t])
    BY <1>15 DEF StopEnd, PlacesOK, Stopping, At, TypeOK
  <2>2. PICK h \in Slots : h = Head(todo[t])
    BY <2>1, HeadAndTail
  <2>3. Tail(todo[t]) \in Seq(Slots)
    BY <2>1, HeadAndTail
  <2>4. t \in Droppers => phone[h] \in Phones
    BY <2>1, <2>2, HeadAndTail DEF Ownership, Owned, Held, TypeOK
  <2>5. CASE t \in Droppers
    <3>1. gone' = [gone EXCEPT ![t] = gone[t] \cup {phone[h]}]
      BY <1>15, <2>2, <2>5 DEF StopEnd
    <3>2. gone' \in [Droppers -> SUBSET Phones]
      BY <2>4, <2>5, <3>1 DEF TypeOK
    <3>3. phone' \in [Slots -> Phones \cup {NoPhone}]
      BY <1>15, <2>2, <2>5 DEF StopEnd, TypeOK
    <3> QED
      BY <1>15, <2>2, <2>3, <3>2, <3>3 DEF StopEnd, TypeOK, uiVars
  <2>6. CASE t \in Connectors
    BY <1>15, <2>2, <2>3, <2>6 DEF StopEnd, TypeOK, uiVars
  <2> QED
    BY <2>5, <2>6
<1>16. ASSUME NEW d \in Droppers, DropTake(d) PROVE TypeOK'
  <2>1. PICK stopped \in InOrder(Matching(target[d])) : todo' = [todo EXCEPT ![d] = stopped]
    BY <1>16 DEF DropTake
  <2>2. stopped \in Seq(Slots) /\ sessions' \in Seq(Slots) /\ IsInjective(sessions')
    BY <1>16, InOrderList DEF DropTake, Matching, Others
  <2> QED
    BY <1>16, <2>1, <2>2 DEF DropTake, TypeOK, receiverVars, uiVars
<1>17. ASSUME NEW d \in Droppers, Settle(d) PROVE TypeOK'
  <2>1. Fallback \in Phones \cup {NoPhone}
    <3>1. sessions # <<>> => Last(sessions) \in Slots
      BY EmptyList DEF Last, TypeOK
    <3> QED
      BY <3>1 DEF Fallback, TypeOK
  <2> QED
    BY <1>17, <2>1 DEF Settle, Returns, TypeOK, receiverVars, uiVars
<1>18. ASSUME Draw PROVE TypeOK'
  BY <1>18, <1>0 DEF Draw, Listed, UiKeeps, TypeOK, receiverVars, threadVars, uiVars
<1>19. ASSUME NEW p \in Phones, Select(p) PROVE TypeOK'
  BY <1>19 DEF Select, UiKeeps, TypeOK, receiverVars, threadVars, uiVars
<1>20. ASSUME Selected PROVE TypeOK'
  BY <1>20 DEF Selected, UiKeeps, TypeOK, receiverVars, threadVars, uiVars
<1>21. ASSUME SelectOther PROVE TypeOK'
  BY <1>21 DEF SelectOther, UiKeeps, TypeOK, receiverVars, threadVars, uiVars
<1>22. ASSUME OtherFrame PROVE TypeOK'
  BY <1>22 DEF OtherFrame, UiKeeps, ClaimedBy, TypeOK, receiverVars, threadVars,
     uiVars
<1>23. ASSUME OtherEnds PROVE TypeOK'
  BY <1>23 DEF OtherEnds, UiKeeps, TypeOK, receiverVars, threadVars, uiVars
<1>24. ASSUME NEW d \in Clicks, NEW p \in Phones \cup {NoPhone}, Disconnect(d, p)
       PROVE  TypeOK'
  BY <1>24 DEF Disconnect, UiKeeps, TypeOK, receiverVars, threadVars, uiVars
<1>25. CASE UNCHANGED vars
  BY <1>25 DEF vars, TypeOK, receiverVars, threadVars, uiVars
<1> QED
  BY <1>1, <1>2, <1>3, <1>4, <1>5, <1>6, <1>7, <1>8, <1>9, <1>10, <1>11, <1>12, <1>13,
     <1>14, <1>15, <1>16, <1>17, <1>18, <1>19, <1>20, <1>21, <1>22, <1>23, <1>24, <1>25
  DEF Next, WorkerStep, WorkerStops, PhoneLeaves, ConnectStep, ReplaceStep, DropStep,
     UiStep, Threads, Droppers
(***************************************************************************)
(* The active phone.                                                       *)
(***************************************************************************)

\* The serials of what a disconnect has stopped are forgotten at its end.
GonePlaces == \A d \in Droppers : gone[d] # {} => pc[d] \in {"stop", "join", "settle"}

\* Without an excuse the active phone has a receiver, listed or not, or a
\* disconnect has stopped it and is going to look for another one.
ActiveOwned ==
    excuse = "none" /\ active # NoPhone =>
        \/ \E s \in Slots : phone[s] = active
        \/ \E d \in Droppers : active \in gone[d]

\* Settle() empties gone when it ends the thread.
LEMMA GoneKept ==
    ASSUME TypeOK, PlacesOK, GonePlaces, [Next]_vars
    PROVE  GonePlaces'
<1> SUFFICES ASSUME NEW e \in Droppers, gone'[e] # {}
             PROVE  pc'[e] \in {"stop", "join", "settle"}
  BY DEF GonePlaces
<1> DEFINE Goal == pc'[e] \in {"stop", "join", "settle"}
<1> USE ThreadsAssumption DEF At, Goto
<1>1. ASSUME NEW s \in Slots, WorkerReads(s) PROVE Goal
  BY <1>1 DEF WorkerReads, Works, WorkerKeeps, GonePlaces, TypeOK, Threads, Droppers,
     receiverVars, threadVars, uiVars
<1>2. ASSUME NEW s \in Slots, Claim(s) PROVE Goal
  BY <1>2 DEF Claim, Works, WorkerKeeps, ClaimedBy, GonePlaces, TypeOK, Threads,
     Droppers, receiverVars, threadVars, uiVars
<1>3. ASSUME NEW s \in Slots, Adopt(s) PROVE Goal
  BY <1>3 DEF Adopt, Works, WorkerKeeps, GonePlaces, TypeOK, Threads, Droppers,
     receiverVars, threadVars, uiVars
<1>4. ASSUME NEW s \in Slots, CheckActive(s) PROVE Goal
  BY <1>4 DEF CheckActive, Works, WorkerKeeps, GonePlaces, TypeOK, Threads, Droppers,
     receiverVars, threadVars, uiVars
<1>5. ASSUME NEW s \in Slots, Submit(s) PROVE Goal
  BY <1>5 DEF Submit, Works, WorkerKeeps, GonePlaces, TypeOK, Threads, Droppers,
     receiverVars, threadVars, uiVars
<1>6. ASSUME NEW s \in Slots, StreamEnds(s) PROVE Goal
  BY <1>6 DEF StreamEnds, Works, WorkerKeeps, PlacesOK, DropperPlace, GonePlaces,
     TypeOK, Threads, Droppers
<1>7. ASSUME NEW c \in Connectors, NEW p \in Phones, Connect(c, p) PROVE Goal
  BY <1>7 DEF Connect, GonePlaces, TypeOK, Threads, Droppers, receiverVars,
     threadVars,
     uiVars
<1>8. ASSUME NEW c \in Connectors, Replace(c) PROVE Goal
  BY <1>8 DEF Replace, GonePlaces, TypeOK, Threads, Droppers, receiverVars,
     threadVars,
     uiVars
<1>9. ASSUME NEW c \in Connectors, EraseReplaced(c) PROVE Goal
  BY <1>9 DEF EraseReplaced, GonePlaces, TypeOK, Threads, Droppers, receiverVars,
     threadVars, uiVars
<1>10. ASSUME NEW c \in Connectors, ConnectFails(c) PROVE Goal
  BY <1>10 DEF ConnectFails, Returns, GonePlaces, TypeOK, Threads, Droppers,
     receiverVars, threadVars, uiVars
<1>11. ASSUME NEW c \in Connectors, NEW s \in Slots, StartReceiver(c, s) PROVE Goal
  BY <1>11 DEF StartReceiver, GonePlaces, TypeOK, Threads, Droppers, receiverVars,
     threadVars, uiVars
<1>12. ASSUME NEW c \in Connectors, PushSession(c) PROVE Goal
  BY <1>12 DEF PushSession, GonePlaces, TypeOK, Threads, Droppers, receiverVars,
     threadVars, uiVars
<1>13. ASSUME NEW c \in Connectors, StoreSource(c) PROVE Goal
  BY <1>13 DEF StoreSource, Returns, GonePlaces, TypeOK, Threads, Droppers,
     receiverVars, threadVars, uiVars
<1>14. ASSUME NEW t \in Threads, StopBegin(t) PROVE Goal
  BY <1>14 DEF StopBegin, GonePlaces, TypeOK, Threads, Droppers, receiverVars,
     threadVars, uiVars
<1>15. ASSUME NEW t \in Threads, StopEnd(t) PROVE Goal
  <2>1. CASE t \in Droppers
    BY <1>15, <2>1 DEF StopEnd, GonePlaces, TypeOK, Threads
  <2>2. CASE t \in Connectors
    BY <1>15, <2>2 DEF StopEnd, GonePlaces, TypeOK, Threads
  <2> QED
    BY <2>1, <2>2 DEF Threads
<1>16. ASSUME NEW d \in Droppers, DropTake(d) PROVE Goal
  BY <1>16 DEF DropTake, GonePlaces, TypeOK, Threads
<1>17. ASSUME NEW d \in Droppers, Settle(d) PROVE Goal
  BY <1>17 DEF Settle, Returns, GonePlaces, TypeOK, Threads
<1>18. ASSUME Draw PROVE Goal
  BY <1>18 DEF Draw, UiKeeps, GonePlaces, TypeOK, Threads, Droppers, receiverVars,
     threadVars, uiVars
<1>19. ASSUME NEW p \in Phones, Select(p) PROVE Goal
  BY <1>19 DEF Select, UiKeeps, GonePlaces, TypeOK, Threads, Droppers, receiverVars,
     threadVars, uiVars
<1>20. ASSUME Selected PROVE Goal
  BY <1>20 DEF Selected, UiKeeps, GonePlaces, TypeOK, Threads, Droppers, receiverVars,
     threadVars, uiVars
<1>21. ASSUME SelectOther PROVE Goal
  BY <1>21 DEF SelectOther, UiKeeps, GonePlaces, TypeOK, Threads, Droppers,
     receiverVars, threadVars, uiVars
<1>22. ASSUME OtherFrame PROVE Goal
  BY <1>22 DEF OtherFrame, UiKeeps, ClaimedBy, GonePlaces, TypeOK, Threads, Droppers,
     receiverVars, threadVars, uiVars
<1>23. ASSUME OtherEnds PROVE Goal
  BY <1>23 DEF OtherEnds, UiKeeps, GonePlaces, TypeOK, Threads, Droppers,
     receiverVars,
     threadVars, uiVars
<1>24. ASSUME NEW d \in Clicks, NEW p \in Phones \cup {NoPhone}, Disconnect(d, p)
       PROVE  Goal
  BY <1>24 DEF Disconnect, UiKeeps, GonePlaces, TypeOK, Threads, Droppers,
     receiverVars,
     threadVars, uiVars
<1>25. CASE UNCHANGED vars
  BY <1>25 DEF vars, GonePlaces, TypeOK, Threads, Droppers, receiverVars, threadVars,
     uiVars
<1> QED
  BY <1>1, <1>2, <1>3, <1>4, <1>5, <1>6, <1>7, <1>8, <1>9, <1>10, <1>11, <1>12, <1>13,
     <1>14, <1>15, <1>16, <1>17, <1>18, <1>19, <1>20, <1>21, <1>22, <1>23, <1>24, <1>25
  DEF Next, WorkerStep, WorkerStops, PhoneLeaves, ConnectStep, ReplaceStep, DropStep,
     UiStep, Threads, Droppers

\* Who is adopted, listed or fallen back to has a receiver; who is stopped is in
\* gone until Settle has looked for another.
LEMMA ActiveKept ==
    ASSUME TypeOK, PlacesOK, BuildsTarget, ReceiversJoined, ActiveOwned, [Next]_vars
    PROVE  ActiveOwned'
<1> SUFFICES ASSUME excuse' = "none", active' # NoPhone
             PROVE  \/ \E s \in Slots : phone'[s] = active'
                    \/ \E d \in Droppers : active' \in gone'[d]
  BY DEF ActiveOwned
<1> DEFINE Goal == \/ \E s \in Slots : phone'[s] = active'
                   \/ \E d \in Droppers : active' \in gone'[d]
<1> USE ThreadsAssumption, PhonesAssumption
<1>1. ASSUME NEW s \in Slots, WorkerReads(s) PROVE Goal
  BY <1>1 DEF WorkerReads, Works, WorkerKeeps, ActiveOwned, receiverVars, threadVars,
     uiVars
<1>2. ASSUME NEW s \in Slots, Claim(s) PROVE Goal
  BY <1>2 DEF Claim, Works, WorkerKeeps, ClaimedBy, ActiveOwned, receiverVars,
     threadVars, uiVars
<1>3. ASSUME NEW s \in Slots, Adopt(s) PROVE Goal
  BY <1>3 DEF Adopt, Works, WorkerKeeps, ReceiversJoined, ActiveOwned, threadVars
<1>4. ASSUME NEW s \in Slots, CheckActive(s) PROVE Goal
  BY <1>4 DEF CheckActive, Works, WorkerKeeps, ActiveOwned, receiverVars, threadVars,
     uiVars
<1>5. ASSUME NEW s \in Slots, Submit(s) PROVE Goal
  BY <1>5 DEF Submit, Works, WorkerKeeps, ActiveOwned, receiverVars, threadVars,
     uiVars
<1>6. ASSUME NEW s \in Slots, StreamEnds(s) PROVE Goal
  BY <1>6 DEF StreamEnds, Works, WorkerKeeps, ActiveOwned, receiverVars, threadVars,
     uiVars
<1>7. ASSUME NEW c \in Connectors, NEW p \in Phones, Connect(c, p) PROVE Goal
  BY <1>7 DEF Connect, ActiveOwned, receiverVars, threadVars, uiVars
<1>8. ASSUME NEW c \in Connectors, Replace(c) PROVE Goal
  BY <1>8 DEF Replace, ActiveOwned, receiverVars, threadVars, uiVars
<1>9. ASSUME NEW c \in Connectors, EraseReplaced(c) PROVE Goal
  <2>1. active' = active /\ gone' = gone /\ active # target[c] /\ excuse = "none"
    BY <1>9 DEF EraseReplaced
  <2>2. target[c] # NoPhone
    BY <1>9 DEF EraseReplaced, PlacesOK, ConnectorPlace, At
  <2>3. \A s \in Slots : phone[s] = active => phone'[s] = active
    BY <1>9, <2>1, <2>2 DEF EraseReplaced, Matching
  <2> QED
    BY <2>1, <2>3 DEF ActiveOwned
<1>10. ASSUME NEW c \in Connectors, ConnectFails(c) PROVE Goal
  BY <1>10 DEF ConnectFails, Returns, ActiveOwned, receiverVars, threadVars, uiVars
<1>11. ASSUME NEW c \in Connectors, NEW s \in Slots, StartReceiver(c, s) PROVE Goal
  BY <1>11 DEF StartReceiver, Free, ActiveOwned, TypeOK
<1>12. ASSUME NEW c \in Connectors, PushSession(c) PROVE Goal
  <2>1. building[c] \in Slots
    BY <1>12 DEF PushSession, PlacesOK, ConnectorPlace, At
  <2> QED
    BY <1>12, <2>1 DEF PushSession, BuildsTarget, receiverVars
<1>13. ASSUME NEW c \in Connectors, StoreSource(c) PROVE Goal
  BY <1>13 DEF StoreSource, Returns, ActiveOwned, receiverVars, threadVars, uiVars
<1>14. ASSUME NEW t \in Threads, StopBegin(t) PROVE Goal
  BY <1>14 DEF StopBegin, ActiveOwned, receiverVars, threadVars, uiVars
<1>15. ASSUME NEW t \in Threads, StopEnd(t) PROVE Goal
  <2>1. todo[t] \in Seq(Slots) /\ todo[t] # <<>> /\ IsInjective(todo[t])
    BY <1>15 DEF StopEnd, PlacesOK, Stopping, At, TypeOK
  <2>2. PICK h \in Slots : h = Head(todo[t])
    BY <2>1, HeadAndTail
  <2>3. CASE t \in Droppers
    <3>1. /\ active' = active /\ excuse' = excuse
          /\ gone' = [gone EXCEPT ![t] = gone[t] \cup {phone[h]}]
          /\ phone' = [phone EXCEPT ![h] = NoPhone]
      BY <1>15, <2>2, <2>3 DEF StopEnd
    <3>2. ASSUME NEW s \in Slots, phone[s] = active PROVE Goal
      <4>1. CASE s = h
        BY <2>3, <3>1, <3>2, <4>1 DEF TypeOK
      <4>2. CASE s # h
        BY <3>1, <3>2, <4>2 DEF TypeOK
      <4> QED
        BY <4>1, <4>2
    <3>3. ASSUME NEW d \in Droppers, active \in gone[d] PROVE Goal
      BY <2>3, <3>1, <3>3 DEF TypeOK
    <3> QED
      BY <3>1, <3>2, <3>3 DEF ActiveOwned
  <2>4. CASE t \in Connectors
    BY <1>15, <2>4 DEF StopEnd, ActiveOwned
  <2> QED
    BY <2>3, <2>4 DEF Threads
<1>16. ASSUME NEW d \in Droppers, DropTake(d) PROVE Goal
  BY <1>16 DEF DropTake, ActiveOwned, receiverVars, threadVars, uiVars
<1>17. ASSUME NEW d \in Droppers, Settle(d) PROVE Goal
  <2>1. CASE ActiveGone(d)
    <3>1. active' = Fallback /\ sessions # <<>> /\ phone' = phone
      BY <1>17, <2>1 DEF Settle, Fallback, receiverVars
    <3>2. Last(sessions) \in Slots
      BY <3>1, EmptyList DEF Last, TypeOK
    <3> QED
      BY <3>1, <3>2 DEF Fallback
  <2>2. CASE ~ActiveGone(d)
    BY <1>17, <2>2 DEF Settle, ActiveGone, ActiveOwned, TypeOK, receiverVars
  <2> QED
    BY <2>1, <2>2
<1>18. ASSUME Draw PROVE Goal
  BY <1>18 DEF Draw, UiKeeps, ActiveOwned, receiverVars, threadVars, uiVars
<1>19. ASSUME NEW p \in Phones, Select(p) PROVE Goal
  BY <1>19 DEF Select, UiKeeps, ActiveOwned, receiverVars, threadVars, uiVars
<1>20. ASSUME Selected PROVE Goal
  BY <1>20 DEF Selected, UiKeeps, ActiveOwned, receiverVars, threadVars, uiVars
<1>21. ASSUME SelectOther PROVE Goal
  BY <1>21 DEF SelectOther, UiKeeps, ActiveOwned, receiverVars, threadVars, uiVars
<1>22. ASSUME OtherFrame PROVE Goal
  BY <1>22 DEF OtherFrame, UiKeeps, ClaimedBy, ActiveOwned, receiverVars, threadVars,
     uiVars
<1>23. ASSUME OtherEnds PROVE Goal
  BY <1>23 DEF OtherEnds, UiKeeps, ActiveOwned, receiverVars, threadVars, uiVars
<1>24. ASSUME NEW d \in Clicks, NEW p \in Phones \cup {NoPhone}, Disconnect(d, p)
       PROVE  Goal
  BY <1>24 DEF Disconnect, UiKeeps, ActiveOwned, receiverVars, threadVars, uiVars
<1>25. CASE UNCHANGED vars
  BY <1>25 DEF vars, ActiveOwned, receiverVars, threadVars, uiVars
<1> QED
  BY <1>1, <1>2, <1>3, <1>4, <1>5, <1>6, <1>7, <1>8, <1>9, <1>10, <1>11, <1>12, <1>13,
     <1>14, <1>15, <1>16, <1>17, <1>18, <1>19, <1>20, <1>21, <1>22, <1>23, <1>24, <1>25
  DEF Next, WorkerStep, WorkerStops, PhoneLeaves, ConnectStep, ReplaceStep, DropStep,
     UiStep, Threads, Droppers

(***************************************************************************)
(* The theorems.                                                           *)
(***************************************************************************)

SessionsInv ==
    /\ TypeOK /\ PlacesOK /\ Ownership /\ OneOwner /\ BuildsTarget
    /\ ReplacedJoined /\ ReceiversJoined /\ GonePlaces /\ ActiveOwned

\* At the start there is nothing.
LEMMA SessionsInitially == Init => SessionsInv
<1> SUFFICES ASSUME Init PROVE SessionsInv
  OBVIOUS
<1> USE ThreadsAssumption, PhonesAssumption
<1>1. TypeOK
  <2>1. sessions \in Seq(Slots) /\ IsInjective(sessions) /\ todo \in [Threads -> Seq(Slots)]
    BY DEF Init, IsInjective
  <2>2. /\ pc \in [Threads -> {"off"}] /\ target \in [Threads -> {NoPhone}]
        /\ gone \in [Droppers -> SUBSET Phones]
        /\ building \in [Connectors -> {Nobody}]
    BY DEF Init
  <2> QED
    BY <2>1, <2>2 DEF Init, TypeOK
<1>2. PlacesOK
  BY DEF Init, PlacesOK, ConnectorPlace, DropperPlace, Stopping, IsInjective, Threads,
     Droppers
<1>3. ToSet(sessions) = {} /\ \A t \in Threads : Held(t) = {}
  BY DEF Init, Held, ToSet
<1>4. Ownership /\ OneOwner /\ BuildsTarget
  BY <1>3 DEF Init, Ownership, Owned, OneOwner, BuildsTarget, Threads
<1>5. ReplacedJoined /\ ReceiversJoined /\ GonePlaces /\ ActiveOwned
  BY DEF Init, ReplacedJoined, ReceiversJoined, GonePlaces, ActiveOwned
<1> QED
  BY <1>1, <1>2, <1>4, <1>5 DEF SessionsInv

\* Every step keeps all parts of the invariant.
LEMMA SessionsAlways == Spec => []SessionsInv
<1>1. SessionsInv /\ [Next]_vars => SessionsInv'
  BY TypeKept, PlacesKept, OwnersMoved, BuildsTargetKept, ReplacedKept, JoinedKept,
     GoneKept, ActiveKept DEF SessionsInv
<1> QED
  BY <1>1, SessionsInitially, PTL DEF Spec

\* Every variable has its type.
THEOREM Typing == Spec => []TypeOK
<1>1. SessionsInv => TypeOK
  BY DEF SessionsInv
<1> QED
  BY <1>1, SessionsAlways, PTL

\* scrcpy_receiver.h's destructor: no receiver is destroyed, or made anew,
\* before its worker has been joined, whoever drops it.
THEOREM WorkersJoined == Spec => []ReceiversJoined
<1>1. SessionsInv => ReceiversJoined
  BY DEF SessionsInv
<1> QED
  BY <1>1, SessionsAlways, PTL

\* android_disconnect's fallback: when every thread has come to rest the active
\* phone is none, or one of the list, unless a click or a replacement excuses it.
THEOREM ActivePhone == Spec => []ActiveListed
<1>1. ASSUME SessionsInv PROVE ActiveListed
  <2> SUFFICES ASSUME Quiet, excuse = "none", active # NoPhone PROVE active \in Listed
    BY DEF ActiveListed
  <2>1. \A d \in Droppers : gone[d] = {} /\ Held(d) = {}
    BY <1>1 DEF SessionsInv, Quiet, At, GonePlaces, PlacesOK, Stopping, Held, ToSet,
       Threads
  <2>2. PICK s \in Slots : phone[s] = active
    BY <1>1, <2>1 DEF SessionsInv, ActiveOwned
  <2>3. s \in ToSet(sessions)
    BY <1>1, <2>1, <2>2 DEF SessionsInv, Ownership, Owned, Quiet, At, PlacesOK,
       ConnectorPlace, Threads
  <2> QED
    BY <2>2, <2>3 DEF Listed
<1> QED
  BY <1>1, SessionsAlways, PTL

(***************************************************************************)
(* Mirror streams: what the packets that were sent and not yet read say of *)
(* those behind them, and of what the device will send.                    *)
(***************************************************************************)

Packet == [kind : {"params"}, time : Nat, params : Nat, pause : BOOLEAN]
          \cup [kind : {"video"}, time : Nat, params : Nat, pos : Nat, due : BOOLEAN]
          \cup [kind : {"other"}]

Handler == [sps_pps : Nat, prepend : BOOLEAN, time : Nat,
            at : {"none", "check", "read", "ended"}]

Device == [sent : Nat, pos : Nat, params : Nat, clock : Nat, due : BOOLEAN,
           paused : BOOLEAN]

\* A packet of each kind has the fields of its kind.
LEMMA Fields ==
    ASSUME NEW p \in Packet
    PROVE  /\ p.kind \in {"params", "video", "other"}
           /\ p.kind = "params" =>
                p.time \in Nat /\ p.params \in Nat /\ p.pause \in BOOLEAN
           /\ p.kind = "video" =>
                /\ p.time \in Nat /\ p.params \in Nat /\ p.pos \in Nat
                /\ p.due \in BOOLEAN
  BY DEF Packet

\* What a device has sent is counted.
LEMMA DeviceCounts ==
    ASSUME NEW d \in Device
    PROVE  LET e == [d EXCEPT !.sent = @ + 1]
           IN  /\ e \in Device /\ e.pos = d.pos /\ e.params = d.params /\ e.clock = d.clock
               /\ e.due = d.due /\ e.paused = d.paused
  BY DEF Device

\* A device sends parameter sets.
Announcing(d, pause) ==
    [d EXCEPT !.clock = @ + 1, !.params = @ + 1, !.due = TRUE, !.paused = @ \/ pause]

\* What it has then sent is counted, announced and, for a pause, paused.
LEMMA DeviceAnnounces ==
    ASSUME NEW d \in Device, NEW pause \in BOOLEAN
    PROVE  /\ Announcing(d, pause) \in Device
           /\ Announcing(d, pause).sent = d.sent
           /\ Announcing(d, pause).due = TRUE
           /\ Announcing(d, pause).clock = d.clock + 1
           /\ Announcing(d, pause).params = d.params + 1
           /\ Announcing(d, pause).pos = d.pos
           /\ pause => Announcing(d, pause).paused = TRUE
           /\ ~pause => Announcing(d, pause).paused = d.paused
<1> DEFINE clock == d.clock + 1
           params == d.params + 1
           paused == d.paused \/ pause
<1>1. clock \in Nat /\ params \in Nat
  BY DEF Device
<1>2. paused \in BOOLEAN
  BY Zenon
<1> HIDE DEF clock, params, paused
<1>3. [d EXCEPT !.clock = clock, !.params = params, !.due = TRUE, !.paused = paused] \in Device
  BY <1>1, <1>2, Zenon DEF Device
<1>4. Announcing(d, pause) \in Device
  BY <1>3 DEF clock, params, paused, Announcing
<1>5. Announcing(d, pause) = [d EXCEPT !.clock = clock, !.params = params, !.due = TRUE,
                                       !.paused = paused]
  BY DEF clock, params, paused, Announcing
<1>6. Announcing(d, pause).paused = paused
  BY <1>5 DEF Device
<1>7. (pause => paused = TRUE) /\ (~pause => paused = d.paused)
  <2>1. d.paused \in BOOLEAN
    BY DEF Device
  <2> QED
    BY <2>1, Zenon DEF paused
<1> QED
  BY <1>4, <1>5, <1>6, <1>7 DEF Device, clock, params

\* A device sends a picture.
Showing(d, time) ==
    [d EXCEPT !.clock = time, !.pos = @ + 1, !.due = FALSE, !.paused = FALSE]

\* One picture more, and nothing due.
LEMMA DeviceShows ==
    ASSUME NEW d \in Device, NEW time \in Nat
    PROVE  /\ Showing(d, time) \in Device
           /\ Showing(d, time).sent = d.sent
           /\ Showing(d, time).due = FALSE
           /\ Showing(d, time).clock = time
           /\ Showing(d, time).params = d.params
           /\ Showing(d, time).pos = d.pos + 1
           /\ Showing(d, time).paused = FALSE
<1> DEFINE pos == d.pos + 1
<1>1. pos \in Nat
  BY DEF Device
<1> HIDE DEF pos
<1>2. [d EXCEPT !.clock = time, !.pos = pos, !.due = FALSE, !.paused = FALSE] \in Device
  BY <1>1, Zenon DEF Device
<1>3. Showing(d, time) \in Device
  BY <1>2 DEF pos, Showing
<1> QED
  BY <1>3 DEF Device, Showing

\* One more packet on the wire.
LEMMA Sent ==
    ASSUME NEW w \in Seq(Packet), NEW p \in Packet
    PROVE  /\ Append(w, p) \in Seq(Packet) /\ Len(w) \in Nat
           /\ Len(Append(w, p)) = Len(w) + 1
           /\ \A i \in 1..Len(w) : Append(w, p)[i] = w[i]
           /\ Append(w, p)[Len(w) + 1] = p
  BY AppendProperties, LenProperties

\* One packet less.
LEMMA Taken ==
    ASSUME NEW w \in Seq(Packet), w # <<>>
    PROVE  /\ Tail(w) \in Seq(Packet) /\ Len(w) \in Nat \ {0}
           /\ Len(Tail(w)) = Len(w) - 1
           /\ \A i \in 1..Len(w) - 1 : Tail(w)[i] = w[i + 1]
           /\ Head(w) = w[1] /\ Head(w) \in Packet
  BY HeadTailProperties, LenProperties, ElementOfSeq, EmptySeq

\* Nothing but ignored packets between j and i, or before i.
Follows(w, j, i) ==
    /\ w[j].kind # "other"
    /\ \A k \in j + 1 .. i - 1 : w[k].kind = "other"
First(w, i) == \A k \in 1 .. i - 1 : w[k].kind = "other"

\* A picture has parameter sets of its own exactly if they are right in front of it
\* and of its time; s is the handler that will read w, d the device that sent it.
Announced(w, s, d) ==
    /\ ~s.prepend => s.sps_pps = 0
    /\ \A i \in 1..Len(w) : w[i].kind = "video" =>
         /\ First(w, i) => /\ w[i].due <=> s.prepend /\ w[i].time = s.time
                           /\ w[i].due => w[i].params = s.sps_pps
         /\ \A j \in 1..i - 1 : Follows(w, j, i) =>
              /\ w[j].kind = "params" => /\ w[i].due <=> w[i].time = w[j].time
                                         /\ w[i].params = w[j].params
              /\ w[j].kind = "video" => ~w[i].due
    /\ First(w, Len(w) + 1) => /\ d.due <=> s.prepend
                               /\ d.due => d.clock = s.time /\ d.params = s.sps_pps
    /\ \A j \in 1..Len(w) : Follows(w, j, Len(w) + 1) =>
         /\ w[j].kind = "params" => d.due /\ d.clock = w[j].time /\ d.params = w[j].params
         /\ w[j].kind = "video" => ~d.due

\* The device sends parameter sets: the next picture may be theirs.
LEMMA AnnouncedParams ==
    ASSUME NEW w \in Seq(Packet), NEW s \in Handler, NEW d \in Device, NEW e \in Device,
           NEW p \in Packet, Announced(w, s, d),
           p.kind = "params", e.due, e.clock = p.time, e.params = p.params
    PROVE  Announced(Append(w, p), s, e)
<1> DEFINE v == Append(w, p)
<1>1. /\ Len(w) \in Nat /\ Len(v) = Len(w) + 1 /\ v[Len(w) + 1] = p
      /\ \A i \in 1..Len(w) : v[i] = w[i]
  BY Sent
<1> HIDE DEF v
<1>2. \A i \in 1..Len(w) : First(v, i) <=> First(w, i)
  BY <1>1 DEF First
<1>3. \A i \in 1..Len(w) : \A j \in 1..i - 1 : Follows(v, j, i) <=> Follows(w, j, i)
  BY <1>1 DEF Follows
<1>4. ~First(v, Len(v) + 1)
  BY <1>1 DEF First
<1>5. \A j \in 1..Len(w) : ~Follows(v, j, Len(v) + 1)
  BY <1>1 DEF Follows
<1> QED
  BY <1>1, <1>2, <1>3, <1>4, <1>5 DEF Announced, v

\* It sends a picture, with the time of the sets or without.
LEMMA AnnouncedVideo ==
    ASSUME NEW w \in Seq(Packet), NEW s \in Handler, NEW d \in Device, NEW e \in Device,
           NEW p \in Packet, Announced(w, s, d),
           p.kind = "video", ~e.due, p.due <=> d.due /\ p.time = d.clock, p.params = d.params
    PROVE  Announced(Append(w, p), s, e)
<1> DEFINE v == Append(w, p)
<1>1. /\ Len(w) \in Nat /\ Len(v) = Len(w) + 1 /\ v[Len(w) + 1] = p
      /\ \A i \in 1..Len(w) : v[i] = w[i]
  BY Sent
<1> HIDE DEF v
<1>2. \A i \in 1..Len(w) + 1 : First(v, i) <=> First(w, i)
  BY <1>1 DEF First
<1>3. \A i \in 1..Len(w) + 1 : \A j \in 1..i - 1 : Follows(v, j, i) <=> Follows(w, j, i)
  BY <1>1 DEF Follows
<1>4. ~First(v, Len(v) + 1)
  BY <1>1 DEF First
<1>5. \A j \in 1..Len(w) : ~Follows(v, j, Len(v) + 1)
  BY <1>1 DEF Follows
<1>6. First(w, Len(w) + 1) => /\ p.due <=> s.prepend /\ p.time = s.time
                              /\ p.due => p.params = s.sps_pps
  BY DEF Announced
<1>7. \A j \in 1..Len(w) : Follows(w, j, Len(w) + 1) =>
        /\ w[j].kind = "params" => (p.due <=> p.time = w[j].time) /\ p.params = w[j].params
        /\ w[j].kind = "video" => ~p.due
  BY DEF Announced
<1> QED
  BY <1>1, <1>2, <1>3, <1>4, <1>5, <1>6, <1>7 DEF Announced, v

\* It sends what is ignored.
LEMMA AnnouncedOther ==
    ASSUME NEW w \in Seq(Packet), NEW s \in Handler, NEW d \in Device, NEW e \in Device,
           NEW p \in Packet, Announced(w, s, d),
           p.kind = "other", e.due = d.due, e.clock = d.clock, e.params = d.params
    PROVE  Announced(Append(w, p), s, e)
<1> DEFINE v == Append(w, p)
<1>1. /\ Len(w) \in Nat /\ Len(v) = Len(w) + 1 /\ v[Len(w) + 1] = p
      /\ \A i \in 1..Len(w) : v[i] = w[i]
  BY Sent
<1> HIDE DEF v
<1>2. \A i \in 1..Len(w) + 1 : First(v, i) <=> First(w, i)
  BY <1>1 DEF First
<1>3. \A i \in 1..Len(w) + 1 : \A j \in 1..i - 1 : Follows(v, j, i) <=> Follows(w, j, i)
  BY <1>1 DEF Follows
<1>4. First(v, Len(v) + 1) <=> First(w, Len(w) + 1)
  BY <1>1 DEF First
<1>5. \A j \in 1..Len(w) : Follows(v, j, Len(v) + 1) <=> Follows(w, j, Len(w) + 1)
  BY <1>1 DEF Follows
<1>6. ~Follows(v, Len(v), Len(v) + 1)
  BY <1>1 DEF Follows
<1> QED
  BY <1>1, <1>2, <1>3, <1>4, <1>5, <1>6 DEF Announced, v

\* A packet is read: parameter sets are kept with their time, a picture ends what was
\* kept, and the rest changes nothing.
LEMMA AnnouncedRead ==
    ASSUME NEW w \in Seq(Packet), w # <<>>, NEW s \in Handler, NEW t \in Handler,
           NEW d \in Device, Announced(w, s, d),
           \/ /\ Head(w).kind = "params"
              /\ t.prepend /\ t.sps_pps = Head(w).params /\ t.time = Head(w).time
           \/ Head(w).kind = "video" /\ ~t.prepend /\ t.sps_pps = 0
           \/ /\ Head(w).kind = "other" /\ t.prepend = s.prepend
              /\ t.sps_pps = s.sps_pps /\ t.time = s.time
    PROVE  Announced(Tail(w), t, d)
<1> DEFINE v == Tail(w)
<1>1. /\ Len(w) \in Nat \ {0} /\ Len(v) = Len(w) - 1
      /\ \A i \in 1..Len(v) : v[i] = w[i + 1]
      /\ Head(w) = w[1] /\ w[1] \in Packet
  BY Taken
<1> HIDE DEF v
<1>2. \A i \in 1..Len(v) + 1 : \A j \in 1..i - 1 : Follows(v, j, i) => Follows(w, j + 1, i + 1)
  <2> SUFFICES ASSUME NEW i \in 1..Len(v) + 1, NEW j \in 1..i - 1, Follows(v, j, i)
               PROVE  Follows(w, j + 1, i + 1)
    OBVIOUS
  <2>1. v[j].kind # "other" /\ w[j + 1] = v[j]
    BY <1>1 DEF Follows
  <2>2. ASSUME NEW k \in (j + 1) + 1 .. (i + 1) - 1  PROVE w[k].kind = "other"
    <3>1. k - 1 \in j + 1 .. i - 1 /\ k - 1 \in 1..Len(v)
      BY <1>1
    <3>2. w[k] = v[k - 1]
      BY <1>1, <3>1
    <3> QED
      BY <3>1, <3>2 DEF Follows
  <2> QED
    BY <2>1, <2>2 DEF Follows
<1>3. ASSUME NEW i \in 1..Len(v) + 1, First(v, i)
      PROVE  IF Head(w).kind = "other" THEN First(w, i + 1) ELSE Follows(w, 1, i + 1)
  <2>1. ASSUME NEW k \in 2..i  PROVE w[k].kind = "other"
    <3>1. k - 1 \in 1..i - 1 /\ k - 1 \in 1..Len(v)
      BY <1>1
    <3>2. w[k] = v[k - 1]
      BY <1>1, <3>1
    <3> QED
      BY <1>3, <3>1, <3>2 DEF First
  <2> QED
    BY <1>1, <2>1 DEF First, Follows
<1>4. ~t.prepend => t.sps_pps = 0
  BY DEF Announced
<1>5. ASSUME NEW i \in 1..Len(v), v[i].kind = "video"
      PROVE  /\ First(v, i) => /\ v[i].due <=> t.prepend /\ v[i].time = t.time
                               /\ v[i].due => v[i].params = t.sps_pps
             /\ \A j \in 1..i - 1 : Follows(v, j, i) =>
                  /\ v[j].kind = "params" => /\ v[i].due <=> v[i].time = v[j].time
                                             /\ v[i].params = v[j].params
                  /\ v[j].kind = "video" => ~v[i].due
  <2>1. i + 1 \in 1..Len(w) /\ w[i + 1] = v[i] /\ i \in 1..Len(v) + 1
    BY <1>1
  <2>2. /\ First(w, i + 1) => /\ v[i].due <=> s.prepend /\ v[i].time = s.time
                              /\ v[i].due => v[i].params = s.sps_pps
        /\ \A j \in 1..i : Follows(w, j, i + 1) =>
             /\ w[j].kind = "params" => /\ v[i].due <=> v[i].time = w[j].time
                                        /\ v[i].params = w[j].params
             /\ w[j].kind = "video" => ~v[i].due
    BY <1>5, <2>1 DEF Announced
  <2>3. First(v, i) => /\ v[i].due <=> t.prepend /\ v[i].time = t.time
                       /\ v[i].due => v[i].params = t.sps_pps
    BY <1>1, <1>3, <2>1, <2>2
  <2>4. ASSUME NEW j \in 1..i - 1, Follows(v, j, i)
        PROVE  /\ v[j].kind = "params" => /\ v[i].due <=> v[i].time = v[j].time
                                          /\ v[i].params = v[j].params
               /\ v[j].kind = "video" => ~v[i].due
    <3>1. j \in 1..Len(v) /\ j + 1 \in 1..i
      BY <1>1
    <3>2. Follows(w, j + 1, i + 1)
      BY <1>2, <2>1, <2>4
    <3>3. w[j + 1] = v[j]
      BY <1>1, <3>1
    <3> QED
      BY <2>2, <3>1, <3>2, <3>3
  <2> QED
    BY <2>3, <2>4
<1>6. First(v, Len(v) + 1) => /\ d.due <=> t.prepend
                              /\ d.due => d.clock = t.time /\ d.params = t.sps_pps
  <2> SUFFICES ASSUME First(v, Len(v) + 1)
               PROVE  /\ d.due <=> t.prepend
                      /\ d.due => d.clock = t.time /\ d.params = t.sps_pps
    OBVIOUS
  <2>1. IF Head(w).kind = "other" THEN First(w, Len(w) + 1) ELSE Follows(w, 1, Len(w) + 1)
    BY <1>1, <1>3
  <2> QED
    BY <1>1, <2>1 DEF Announced
<1>7. ASSUME NEW j \in 1..Len(v), Follows(v, j, Len(v) + 1)
      PROVE  /\ v[j].kind = "params" =>
                  d.due /\ d.clock = v[j].time /\ d.params = v[j].params
             /\ v[j].kind = "video" => ~d.due
  <2>1. Follows(w, j + 1, Len(w) + 1) /\ w[j + 1] = v[j] /\ j + 1 \in 1..Len(w)
    BY <1>1, <1>2, <1>7
  <2> QED
    BY <2>1 DEF Announced
<1>8. Announced(v, t, d)
  <2>1. \A i \in 1..Len(v) : v[i].kind = "video" =>
          /\ First(v, i) => /\ v[i].due <=> t.prepend /\ v[i].time = t.time
                            /\ v[i].due => v[i].params = t.sps_pps
          /\ \A j \in 1..i - 1 : Follows(v, j, i) =>
               /\ v[j].kind = "params" => /\ v[i].due <=> v[i].time = v[j].time
                                          /\ v[i].params = v[j].params
               /\ v[j].kind = "video" => ~v[i].due
    BY <1>5
  <2>2. \A j \in 1..Len(v) : Follows(v, j, Len(v) + 1) =>
          /\ v[j].kind = "params" => d.due /\ d.clock = v[j].time /\ d.params = v[j].params
          /\ v[j].kind = "video" => ~d.due
    BY <1>7
  <2> QED
    BY <1>4, <1>6, <2>1, <2>2, Zenon DEF Announced
<1> QED
  BY <1>8 DEF v

\* What is decoded of the head of the wire is in front of it.
LEMMA HeadPrefixed ==
    ASSUME NEW w \in Seq(Packet), w # <<>>, NEW s \in Handler, NEW d,
           Announced(w, s, d), Head(w).kind = "video"
    PROVE  Mirror!Prefix(s, Head(w)) = IF Head(w).due THEN Head(w).params ELSE 0
<1>1. Len(w) \in Nat \ {0} /\ Head(w) = w[1] /\ w[1] \in Packet
  BY Taken
<1>2. First(w, 1)
  BY DEF First
<1>3. /\ w[1].due <=> s.prepend /\ w[1].time = s.time
      /\ w[1].due => w[1].params = s.sps_pps
      /\ ~s.prepend => s.sps_pps = 0
  BY <1>1, <1>2 DEF Announced
<1> QED
  BY <1>1, <1>3 DEF Mirror!Prefix

-----------------------------------------------------------------------------
(* Places in the key stream.                                               *)

\* Nothing but packets without a picture between j and i, or before i.
NextPicture(w, j, i) ==
    w[j].kind = "video" /\ \A k \in j + 1 .. i - 1 : w[k].kind # "video"
FirstPicture(w, i) == \A k \in 1 .. i - 1 : w[k].kind # "video"

\* The pictures of w have the places from `place' on, and the device's next one the
\* place after them.
Placed(w, place, pos) ==
    /\ \A i \in 1..Len(w) : w[i].kind = "video" =>
         /\ FirstPicture(w, i) => w[i].pos = place
         /\ \A j \in 1..i - 1 : NextPicture(w, j, i) => w[i].pos = w[j].pos + 1
    /\ FirstPicture(w, Len(w) + 1) => pos = place
    /\ \A j \in 1..Len(w) : NextPicture(w, j, Len(w) + 1) => pos = w[j].pos + 1

\* A picture that is sent has the device's place, which moves on.
LEMMA PlacedSent ==
    ASSUME NEW w \in Seq(Packet), NEW place \in Nat, NEW pos \in Nat, NEW p \in Packet,
           Placed(w, place, pos), p.kind = "video" => p.pos = pos
    PROVE  Placed(Append(w, p), place, IF p.kind = "video" THEN pos + 1 ELSE pos)
<1> DEFINE v == Append(w, p)
<1>1. /\ Len(w) \in Nat /\ Len(v) = Len(w) + 1 /\ v[Len(w) + 1] = p
      /\ \A i \in 1..Len(w) : v[i] = w[i]
  BY Sent
<1> HIDE DEF v
<1>2. \A i \in 1..Len(w) + 1 : FirstPicture(v, i) <=> FirstPicture(w, i)
  BY <1>1 DEF FirstPicture
<1>3. \A i \in 1..Len(w) + 1 : \A j \in 1..i - 1 : NextPicture(v, j, i) <=> NextPicture(w, j, i)
  BY <1>1 DEF NextPicture
<1>4. FirstPicture(v, Len(v) + 1) => p.kind # "video" /\ FirstPicture(w, Len(w) + 1)
  BY <1>1 DEF FirstPicture
<1>5. \A j \in 1..Len(w) : NextPicture(v, j, Len(v) + 1) =>
        p.kind # "video" /\ NextPicture(w, j, Len(w) + 1)
  BY <1>1 DEF NextPicture
<1>6. NextPicture(v, Len(v), Len(v) + 1) => p.kind = "video"
  BY <1>1 DEF NextPicture
<1>7. /\ FirstPicture(w, Len(w) + 1) => pos = place
      /\ \A j \in 1..Len(w) : NextPicture(w, j, Len(w) + 1) => pos = w[j].pos + 1
  BY DEF Placed
<1> QED
  BY <1>1, <1>2, <1>3, <1>4, <1>5, <1>6, <1>7 DEF Placed, v

\* The first picture has the source's place, which moves on when it is read.
LEMMA PlacedRead ==
    ASSUME NEW w \in Seq(Packet), w # <<>>, NEW place \in Nat, NEW pos \in Nat,
           Placed(w, place, pos)
    PROVE  /\ Head(w).kind = "video" => Head(w).pos = place
           /\ Placed(Tail(w), IF Head(w).kind = "video" THEN place + 1 ELSE place, pos)
<1> DEFINE v == Tail(w)
           there == IF Head(w).kind = "video" THEN place + 1 ELSE place
<1>1. /\ Len(w) \in Nat \ {0} /\ Len(v) = Len(w) - 1
      /\ \A i \in 1..Len(v) : v[i] = w[i + 1]
      /\ Head(w) = w[1] /\ w[1] \in Packet
  BY Taken
<1>2. Head(w).kind = "video" => Head(w).pos = place
  BY <1>1 DEF Placed, FirstPicture
<1> HIDE DEF v
<1>3. ASSUME NEW i \in 1..Len(v) + 1, NEW j \in 1..i - 1, NextPicture(v, j, i)
      PROVE  NextPicture(w, j + 1, i + 1)
  <2>1. v[j].kind = "video" /\ w[j + 1] = v[j]
    BY <1>1, <1>3 DEF NextPicture
  <2>2. ASSUME NEW k \in (j + 1) + 1 .. (i + 1) - 1  PROVE w[k].kind # "video"
    <3>1. k - 1 \in j + 1 .. i - 1 /\ k - 1 \in 1..Len(v)
      BY <1>1
    <3>2. w[k] = v[k - 1]
      BY <1>1, <3>1
    <3> QED
      BY <1>3, <3>1, <3>2 DEF NextPicture
  <2> QED
    BY <2>1, <2>2 DEF NextPicture
<1>4. ASSUME NEW i \in 1..Len(v) + 1, FirstPicture(v, i)
      PROVE  IF Head(w).kind = "video" THEN NextPicture(w, 1, i + 1) ELSE FirstPicture(w, i + 1)
  <2>1. ASSUME NEW k \in 2..i  PROVE w[k].kind # "video"
    <3>1. k - 1 \in 1..i - 1 /\ k - 1 \in 1..Len(v)
      BY <1>1
    <3>2. w[k] = v[k - 1]
      BY <1>1, <3>1
    <3> QED
      BY <1>4, <3>1, <3>2 DEF FirstPicture
  <2> QED
    BY <1>1, <2>1 DEF NextPicture, FirstPicture
<1>5. ASSUME NEW i \in 1..Len(v), v[i].kind = "video"
      PROVE  /\ FirstPicture(v, i) => v[i].pos = there
             /\ \A j \in 1..i - 1 : NextPicture(v, j, i) => v[i].pos = v[j].pos + 1
  <2>1. i + 1 \in 1..Len(w) /\ w[i + 1] = v[i] /\ i \in 1..Len(v) + 1
    BY <1>1
  <2>2. /\ FirstPicture(w, i + 1) => v[i].pos = place
        /\ \A j \in 1..i : NextPicture(w, j, i + 1) => v[i].pos = w[j].pos + 1
    BY <1>5, <2>1 DEF Placed
  <2>3. FirstPicture(v, i) => v[i].pos = there
    BY <1>1, <1>2, <1>4, <2>1, <2>2
  <2>4. ASSUME NEW j \in 1..i - 1, NextPicture(v, j, i)  PROVE v[i].pos = v[j].pos + 1
    <3>1. NextPicture(w, j + 1, i + 1) /\ w[j + 1] = v[j] /\ j + 1 \in 1..i
      BY <1>1, <1>3, <2>1, <2>4
    <3> QED
      BY <2>2, <3>1
  <2> QED
    BY <2>3, <2>4
<1>6. FirstPicture(v, Len(v) + 1) => pos = there
  <2>1. FirstPicture(v, Len(v) + 1) =>
          IF Head(w).kind = "video" THEN NextPicture(w, 1, Len(w) + 1)
                                    ELSE FirstPicture(w, Len(w) + 1)
    BY <1>1, <1>4
  <2> QED
    BY <1>1, <1>2, <2>1 DEF Placed
<1>7. ASSUME NEW j \in 1..Len(v), NextPicture(v, j, Len(v) + 1)
      PROVE  pos = v[j].pos + 1
  <2>1. NextPicture(w, j + 1, Len(w) + 1) /\ w[j + 1] = v[j] /\ j + 1 \in 1..Len(w)
    BY <1>1, <1>3, <1>7
  <2> QED
    BY <2>1 DEF Placed
<1>8. Placed(v, there, pos)
  BY <1>5, <1>6, <1>7 DEF Placed
<1> QED
  BY <1>2, <1>8 DEF v

-----------------------------------------------------------------------------
(* Pauses.                                                                 *)

\* Packets that begin a pause or end one.
Marks(p) == p.kind = "video" \/ (p.kind = "params" /\ p.pause)

\* The device is where the last of these has left it, or where the source is.
Paused(w, there, here) ==
    /\ (\A k \in 1..Len(w) : ~Marks(w[k])) => there = here
    /\ \A j \in 1..Len(w) :
         Marks(w[j]) /\ (\A k \in j + 1 .. Len(w) : ~Marks(w[k])) =>
            (there <=> w[j].kind = "params")

\* A packet that is sent takes the device where it marks.
LEMMA PausedSent ==
    ASSUME NEW w \in Seq(Packet), NEW there \in BOOLEAN, NEW here \in BOOLEAN,
           NEW p \in Packet, Paused(w, there, here)
    PROVE  Paused(Append(w, p), IF Marks(p) THEN p.kind = "params" ELSE there, here)
<1> DEFINE v == Append(w, p)
<1>1. /\ Len(w) \in Nat /\ Len(v) = Len(w) + 1 /\ v[Len(w) + 1] = p
      /\ \A i \in 1..Len(w) : v[i] = w[i]
  BY Sent
<1> HIDE DEF v
<1>2. (\A k \in 1..Len(v) : ~Marks(v[k])) => ~Marks(p) /\ \A k \in 1..Len(w) : ~Marks(w[k])
  BY <1>1
<1>3. ASSUME NEW j \in 1..Len(w), \A k \in j + 1 .. Len(v) : ~Marks(v[k])
      PROVE  ~Marks(p) /\ \A k \in j + 1 .. Len(w) : ~Marks(w[k])
  BY <1>1, <1>3
<1>4. CASE Marks(p)
  BY <1>1, <1>2, <1>3, <1>4 DEF Paused, v
<1>5. CASE ~Marks(p)
  BY <1>1, <1>2, <1>3, <1>5 DEF Paused, v
<1> QED
  BY <1>4, <1>5

\* One that is read takes the source there.
LEMMA PausedRead ==
    ASSUME NEW w \in Seq(Packet), w # <<>>, NEW there \in BOOLEAN, NEW here \in BOOLEAN,
           Paused(w, there, here)
    PROVE  Paused(Tail(w), there,
                  IF Marks(Head(w)) THEN Head(w).kind = "params" ELSE here)
<1> DEFINE v == Tail(w)
<1>1. /\ Len(w) \in Nat \ {0} /\ Len(v) = Len(w) - 1
      /\ \A i \in 1..Len(v) : v[i] = w[i + 1]
      /\ Head(w) = w[1]
  BY Taken
<1> HIDE DEF v
<1>2. ASSUME NEW j \in 0..Len(v), \A k \in j + 1 .. Len(v) : ~Marks(v[k])
      PROVE  \A k \in (j + 1) + 1 .. Len(w) : ~Marks(w[k])
  <2> TAKE k \in (j + 1) + 1 .. Len(w)
  <2>1. k - 1 \in j + 1 .. Len(v) /\ k - 1 \in 1..Len(v)
    BY <1>1
  <2>2. v[k - 1] = w[k]
    BY <1>1, <2>1
  <2> QED
    BY <1>2, <2>1, <2>2
<1>3. (\A k \in 1..Len(v) : ~Marks(v[k])) =>
        (there <=> IF Marks(w[1]) THEN w[1].kind = "params" ELSE here)
  <2> SUFFICES ASSUME \A k \in 1..Len(v) : ~Marks(v[k])
               PROVE  there <=> IF Marks(w[1]) THEN w[1].kind = "params" ELSE here
    OBVIOUS
  <2>1. \A k \in 2..Len(w) : ~Marks(w[k])
    <3>1. 0 \in 0..Len(v) /\ \A k \in 0 + 1 .. Len(v) : ~Marks(v[k])
      BY <1>1
    <3>2. \A k \in (0 + 1) + 1 .. Len(w) : ~Marks(w[k])
      BY <1>2, <3>1
    <3> QED
      BY <3>2
  <2>2. CASE Marks(w[1])
    BY <1>1, <2>1, <2>2 DEF Paused
  <2>3. CASE ~Marks(w[1])
    <3>1. \A k \in 1..Len(w) : ~Marks(w[k])
      BY <1>1, <2>1, <2>3
    <3> QED
      BY <2>3, <3>1 DEF Paused
  <2> QED
    BY <2>2, <2>3
<1>4. ASSUME NEW j \in 1..Len(v), Marks(v[j]), \A k \in j + 1 .. Len(v) : ~Marks(v[k])
      PROVE  there <=> v[j].kind = "params"
  <2>1. \A k \in (j + 1) + 1 .. Len(w) : ~Marks(w[k])
    BY <1>1, <1>2, <1>4
  <2>2. j + 1 \in 1..Len(w) /\ w[j + 1] = v[j]
    BY <1>1
  <2> QED
    BY <1>4, <2>1, <2>2 DEF Paused
<1> QED
  BY <1>1, <1>3, <1>4 DEF Paused, v

-----------------------------------------------------------------------------
(* The invariant of a mirror stream.                                       *)

MirrorSource == [present : BOOLEAN, key : BOOLEAN, id : 0..MaxConns, pos : Nat,
                 sock : 0..MaxConns, paused : BOOLEAN]

MirrorTypes ==
    /\ mirrored \in MirrorSource
    /\ stream \in [Mirror!Conns -> Handler]
    /\ wire \in [Mirror!Conns -> Seq(Packet)]
    /\ device \in [Mirror!Conns -> Device]
    /\ setup \in 0..MaxConns
    /\ overlap \in BOOLEAN
    /\ keyed \subseteq 1..setup

\* A connection that has not been made yet.
Fresh(c) ==
    /\ stream[c].at = "none" =>
         /\ ~stream[c].prepend /\ stream[c].sps_pps = 0 /\ wire[c] = <<>>
         /\ device[c].pos = 0 /\ ~device[c].due /\ ~device[c].paused
    /\ c > setup => stream[c].at = "none"

\* The source's slot is a connection whose handler runs; a context was made with
\* a key.
SlotRuns ==
    /\ ~mirrored.present => mirrored = Mirror!NoSource
    /\ mirrored.id # 0 => mirrored.key
    /\ mirrored.sock # 0 => stream[mirrored.sock].at \in {"check", "read"}

\* A handler that will read has what the packets need that it will read.  One that
\* has read a picture without a source has not, but finds the slot replaced.
HandlerReady(c) ==
    \/ stream[c].at = "read"
    \/ stream[c].at = "check" /\ mirrored.sock = c
ReadyAnnounced(c) == HandlerReady(c) => Announced(wire[c], stream[c], device[c])

\* While no stream was set up beside a running handler, a running handler is the
\* only one, and the context is the one of its stream, at its place; or there is
\* none, if the stream was set up without the key.
Alone(c) ==
    stream[c].at \in {"check", "read"} =>
        /\ mirrored.present /\ mirrored.sock = c
        /\ c \in keyed => mirrored.id = c /\ Placed(wire[c], mirrored.pos, device[c].pos)
        /\ c \notin keyed => mirrored.id = 0
        /\ Paused(wire[c], device[c].paused, mirrored.paused)

\* And a stream that was set up and not connected finds a new context, or none.
SetUp ==
    /\ mirrored.sock = 0 => ~mirrored.paused
    /\ (setup # 0 /\ stream[setup].at = "none") =>
         /\ mirrored.present /\ mirrored.sock = 0
         /\ setup \in keyed => mirrored.id = setup /\ mirrored.pos = 0
         /\ setup \notin keyed => mirrored.id = 0

MirrorInv ==
    /\ MirrorTypes
    /\ \A c \in Mirror!Conns : Fresh(c)
    /\ SlotRuns
    /\ \A c \in Mirror!Conns : ReadyAnnounced(c)
    /\ ~overlap => SetUp /\ \A c \in Mirror!Conns : Alone(c)

\* Nothing has been sent or read.
LEMMA MirrorBegins ==
    ASSUME Mirror!Init
    PROVE  MirrorInv
<1>1. <<>> \in Seq(Packet)
  BY EmptySeq
<1>2. mirrored \in MirrorSource /\ setup \in 0..MaxConns
  BY MediaAssumption DEF Mirror!Init, Mirror!NoSource, MirrorSource
<1>3. stream \in [Mirror!Conns -> Handler]
  BY DEF Mirror!Init, Handler
<1>4. wire \in [Mirror!Conns -> Seq(Packet)]
  BY <1>1 DEF Mirror!Init
<1>5. device \in [Mirror!Conns -> Device]
  BY DEF Mirror!Init, Device
<1>6. MirrorTypes
  BY <1>2, <1>3, <1>4, <1>5 DEF MirrorTypes, Mirror!Init
<1>7. \A c \in Mirror!Conns : stream[c].at = "none" /\ Fresh(c)
  BY DEF Mirror!Init, Fresh
<1>8. SlotRuns
  BY DEF SlotRuns, Mirror!Init, Mirror!NoSource
<1>9. SetUp
  BY DEF SetUp, Mirror!Init, Mirror!NoSource
<1> QED
  BY <1>6, <1>7, <1>8, <1>9 DEF MirrorInv, ReadyAnnounced, HandlerReady, Alone

\* A packet is sent.
LEMMA MirrorPut ==
    ASSUME MirrorInv, NEW c \in Mirror!Conns, NEW p \in Packet, NEW e \in Device,
           stream[c].at # "none",
           wire' = [wire EXCEPT ![c] = Append(@, p)], device' = [device EXCEPT ![c] = e],
           UNCHANGED <<mirrored, stream, setup, keyed, overlap>>,
           Announced(wire[c], stream[c], device[c]) =>
               Announced(Append(wire[c], p), stream[c], e),
           Placed(wire[c], mirrored.pos, device[c].pos) =>
               Placed(Append(wire[c], p), mirrored.pos, e.pos),
           Paused(wire[c], device[c].paused, mirrored.paused) =>
               Paused(Append(wire[c], p), e.paused, mirrored.paused)
    PROVE  MirrorInv'
<1> USE DEF MirrorInv
<1>1. wire[c] \in Seq(Packet) /\ Append(wire[c], p) \in Seq(Packet)
  BY Sent DEF MirrorTypes
<1>2. MirrorTypes'
  BY <1>1 DEF MirrorTypes
<1>3. /\ wire'[c] = Append(wire[c], p) /\ device'[c] = e
      /\ \A b \in Mirror!Conns \ {c} : wire'[b] = wire[b] /\ device'[b] = device[b]
  BY DEF MirrorTypes
<1>4. \A b \in Mirror!Conns : Fresh(b)'
  BY <1>3 DEF Fresh
<1>5. SlotRuns'
  BY DEF SlotRuns
<1>6. \A b \in Mirror!Conns : ReadyAnnounced(b)'
  BY <1>3 DEF ReadyAnnounced, HandlerReady
<1>7. ASSUME ~overlap'  PROVE SetUp' /\ \A b \in Mirror!Conns : Alone(b)'
  BY <1>3, <1>7 DEF SetUp, Alone
<1> QED
  BY <1>2, <1>4, <1>5, <1>6, <1>7

\* Parameter sets are sent.
LEMMA MirrorSendParams ==
    ASSUME MirrorInv, NEW c \in Mirror!Conns, Mirror!SendParams(c)
    PROVE  MirrorInv'
<1> DEFINE d == device[c]
<1>1. wire[c] \in Seq(Packet) /\ stream[c] \in Handler /\ d \in Device
      /\ mirrored.pos \in Nat /\ mirrored.paused \in BOOLEAN
  BY DEF MirrorInv, MirrorTypes, MirrorSource
<1>2. PICK pause \in BOOLEAN :
        Mirror!Put(c, [kind |-> "params", time |-> d.clock + 1, params |-> d.params + 1,
                       pause |-> pause],
                   [d EXCEPT !.clock = @ + 1, !.params = @ + 1, !.due = TRUE,
                             !.paused = @ \/ pause])
  BY DEF Mirror!SendParams
<1> DEFINE p == [kind |-> "params", time |-> d.clock + 1, params |-> d.params + 1,
                 pause |-> pause]
           f == Announcing(d, pause)
           e == [f EXCEPT !.sent = @ + 1]
<1>3. /\ p \in Packet /\ p.kind = "params" /\ p.pause = pause
      /\ p.time = d.clock + 1 /\ p.params = d.params + 1
  BY <1>1 DEF Packet, Device
<1>4. /\ e \in Device /\ e.due /\ e.clock = p.time /\ e.params = p.params
      /\ e.pos = d.pos
      /\ pause => e.paused = TRUE
      /\ ~pause => e.paused = d.paused
  <2>1. f \in Device
    BY <1>1, DeviceAnnounces
  <2>2. /\ e \in Device /\ e.due = f.due /\ e.clock = f.clock /\ e.params = f.params
        /\ e.pos = f.pos /\ e.paused = f.paused
    BY <2>1, DeviceCounts
  <2> HIDE DEF e, p
  <2>3. /\ f.due = TRUE /\ f.clock = d.clock + 1 /\ f.params = d.params + 1
        /\ f.pos = d.pos
        /\ pause => f.paused = TRUE
        /\ ~pause => f.paused = d.paused
    BY <1>1, DeviceAnnounces
  <2> QED
    BY <1>3, <2>2, <2>3
<1>5. /\ stream[c].at # "none" /\ wire' = [wire EXCEPT ![c] = Append(@, p)]
      /\ device' = [device EXCEPT ![c] = e]
      /\ UNCHANGED <<mirrored, stream, setup, keyed, overlap>>
  BY <1>2 DEF Mirror!Put, Announcing
<1>6. d.pos \in Nat /\ d.paused \in BOOLEAN
  BY <1>1 DEF Device
<1> HIDE DEF p, e
<1>7. Announced(wire[c], stream[c], d) => Announced(Append(wire[c], p), stream[c], e)
  BY <1>1, <1>3, <1>4, AnnouncedParams
<1>8. Placed(wire[c], mirrored.pos, d.pos) => Placed(Append(wire[c], p), mirrored.pos, e.pos)
  BY <1>1, <1>3, <1>4, <1>6, PlacedSent
<1>9. e.paused = IF Marks(p) THEN p.kind = "params" ELSE d.paused
  BY <1>3, <1>4, <1>6 DEF Marks
<1>10. Paused(wire[c], d.paused, mirrored.paused) =>
         Paused(Append(wire[c], p), e.paused, mirrored.paused)
  BY <1>1, <1>3, <1>6, <1>9, PausedSent
<1> QED
  BY <1>3, <1>4, <1>5, <1>7, <1>8, <1>10, MirrorPut

\* A picture is sent.
LEMMA MirrorSendVideo ==
    ASSUME MirrorInv, NEW c \in Mirror!Conns, Mirror!SendVideo(c)
    PROVE  MirrorInv'
<1> DEFINE d == device[c]
<1>1. wire[c] \in Seq(Packet) /\ stream[c] \in Handler /\ d \in Device
      /\ mirrored.pos \in Nat /\ mirrored.paused \in BOOLEAN
  BY DEF MirrorInv, MirrorTypes, MirrorSource
<1>2. PICK time \in {d.clock, d.clock + 1} :
        Mirror!Put(c, [kind |-> "video", time |-> time, params |-> d.params, pos |-> d.pos,
                       due |-> d.due /\ time = d.clock],
                   [d EXCEPT !.clock = time, !.pos = @ + 1, !.due = FALSE, !.paused = FALSE])
  BY DEF Mirror!SendVideo
<1> DEFINE p == [kind |-> "video", time |-> time, params |-> d.params, pos |-> d.pos,
                 due |-> d.due /\ time = d.clock]
           f == Showing(d, time)
           e == [f EXCEPT !.sent = @ + 1]
<1>3. /\ p \in Packet /\ p.kind = "video" /\ p.pos = d.pos /\ p.params = d.params
      /\ p.due <=> d.due /\ p.time = d.clock
  <2>1. p \in [kind : {"video"}, time : Nat, params : Nat, pos : Nat, due : BOOLEAN]
    BY <1>1 DEF Device
  <2> QED
    BY <2>1 DEF Packet
<1>4. e \in Device /\ ~e.due /\ e.pos = d.pos + 1 /\ e.paused = FALSE
  <2>1. time \in Nat
    BY <1>1 DEF Device
  <2> QED
    <3>1. f \in Device
      BY <1>1, <2>1, DeviceShows
    <3>2. e \in Device /\ e.due = f.due /\ e.pos = f.pos /\ e.paused = f.paused
      BY <3>1, DeviceCounts
    <3> HIDE DEF e
    <3> QED
      BY <1>1, <2>1, <3>2, DeviceShows
<1>5. /\ stream[c].at # "none" /\ wire' = [wire EXCEPT ![c] = Append(@, p)]
      /\ device' = [device EXCEPT ![c] = e]
      /\ UNCHANGED <<mirrored, stream, setup, keyed, overlap>>
  BY <1>2 DEF Mirror!Put, Showing
<1>6. d.pos \in Nat /\ d.paused \in BOOLEAN
  BY <1>1 DEF Device
<1> HIDE DEF p, e
<1>7. Announced(wire[c], stream[c], d) => Announced(Append(wire[c], p), stream[c], e)
  BY <1>1, <1>3, <1>4, AnnouncedVideo
<1>8. Placed(wire[c], mirrored.pos, d.pos) => Placed(Append(wire[c], p), mirrored.pos, e.pos)
  BY <1>1, <1>3, <1>4, <1>6, PlacedSent
<1>9. e.paused = IF Marks(p) THEN p.kind = "params" ELSE d.paused
  <2>1. p.kind = "video"
    BY <1>3
  <2> HIDE DEF d
  <2>2. Marks(p) /\ ~(p.kind = "params")
    BY <2>1 DEF Marks
  <2>3. e.paused = FALSE
    BY <1>4
  <2> QED
    BY <2>3, <2>2, Zenon
<1>10. Paused(wire[c], d.paused, mirrored.paused) =>
         Paused(Append(wire[c], p), e.paused, mirrored.paused)
  BY <1>1, <1>3, <1>6, <1>9, PausedSent
<1> QED
  BY <1>3, <1>4, <1>5, <1>7, <1>8, <1>10, MirrorPut

\* What is ignored is sent.
LEMMA MirrorSendOther ==
    ASSUME MirrorInv, NEW c \in Mirror!Conns, Mirror!SendOther(c)
    PROVE  MirrorInv'
<1> DEFINE d == device[c]
           p == [kind |-> "other"]
           e == [d EXCEPT !.sent = @ + 1]
<1>1. wire[c] \in Seq(Packet) /\ stream[c] \in Handler /\ d \in Device
      /\ mirrored.pos \in Nat /\ mirrored.paused \in BOOLEAN
  BY DEF MirrorInv, MirrorTypes, MirrorSource
<1>2. p \in Packet /\ p.kind = "other"
  BY DEF Packet
<1>3. /\ e \in Device /\ e.due = d.due /\ e.clock = d.clock /\ e.params = d.params
      /\ e.pos = d.pos /\ e.paused = d.paused
  BY <1>1 DEF Device
<1>4. /\ stream[c].at # "none" /\ wire' = [wire EXCEPT ![c] = Append(@, p)]
      /\ device' = [device EXCEPT ![c] = e]
      /\ UNCHANGED <<mirrored, stream, setup, keyed, overlap>>
  BY DEF Mirror!SendOther, Mirror!Put
<1>5. d.pos \in Nat /\ d.paused \in BOOLEAN
  BY <1>1 DEF Device
<1> HIDE DEF p, e
<1>6. Announced(wire[c], stream[c], d) => Announced(Append(wire[c], p), stream[c], e)
  BY <1>1, <1>2, <1>3, AnnouncedOther
<1>7. Placed(wire[c], mirrored.pos, d.pos) => Placed(Append(wire[c], p), mirrored.pos, e.pos)
  BY <1>1, <1>2, <1>3, <1>5, PlacedSent
<1>8. e.paused = IF Marks(p) THEN p.kind = "params" ELSE d.paused
  BY <1>2, <1>3, <1>5 DEF Marks
<1>9. Paused(wire[c], d.paused, mirrored.paused) =>
         Paused(Append(wire[c], p), e.paused, mirrored.paused)
  BY <1>1, <1>2, <1>5, <1>8, PausedSent
<1> QED
  BY <1>2, <1>3, <1>4, <1>6, <1>7, <1>9, MirrorPut

\* get_or_create_source_locked(): a source, as it was or new.
LEMMA SourceThere ==
    ASSUME MirrorInv
    PROVE  /\ Mirror!Source \in MirrorSource /\ Mirror!Source.present
           /\ Mirror!Source.id = mirrored.id /\ Mirror!Source.pos = mirrored.pos
           /\ Mirror!Source.sock = mirrored.sock /\ Mirror!Source.paused = mirrored.paused
           /\ Mirror!Source.key = mirrored.key
<1>1. CASE mirrored.present
  BY <1>1 DEF Mirror!Source, MirrorInv, MirrorTypes
<1>2. CASE ~mirrored.present
  <2>1. mirrored = [present |-> FALSE, key |-> FALSE, id |-> 0, pos |-> 0, sock |-> 0,
                    paused |-> FALSE]
    BY <1>2 DEF MirrorInv, SlotRuns, Mirror!NoSource
  <2>2. Mirror!Source = [present |-> TRUE, key |-> FALSE, id |-> 0, pos |-> 0, sock |-> 0,
                         paused |-> FALSE]
    BY <1>2 DEF Mirror!Source, Mirror!NoSource
  <2> QED
    BY <2>1, <2>2, MediaAssumption DEF MirrorSource
<1> QED
  BY <1>1, <1>2

\* SETUP with the key: there is a source, as it was or new.
LEMMA MirrorSetupKey ==
    ASSUME MirrorInv, Mirror!SetupKey
    PROVE  MirrorInv'
<1> USE DEF MirrorInv
<1>1. /\ UNCHANGED <<stream, wire, device, setup, keyed, overlap>>
      /\ mirrored' = [Mirror!Source EXCEPT !.key = TRUE]
  BY DEF Mirror!SetupKey
<1>2. /\ mirrored' \in MirrorSource /\ mirrored'.present
      /\ mirrored'.id = mirrored.id /\ mirrored'.pos = mirrored.pos
      /\ mirrored'.sock = mirrored.sock /\ mirrored'.paused = mirrored.paused
      /\ mirrored'.key
  BY <1>1, SourceThere DEF MirrorSource
<1>3. MirrorTypes'
  BY <1>1, <1>2 DEF MirrorTypes
<1>4. \A b \in Mirror!Conns : Fresh(b)'
  BY <1>1 DEF Fresh
<1>5. SlotRuns'
  BY <1>1, <1>2 DEF SlotRuns
<1>6. \A b \in Mirror!Conns : ReadyAnnounced(b)'
  BY <1>1, <1>2 DEF ReadyAnnounced, HandlerReady
<1>7. ASSUME ~overlap'  PROVE SetUp' /\ \A b \in Mirror!Conns : Alone(b)'
  BY <1>1, <1>2, <1>7 DEF SetUp, Alone
<1> QED
  BY <1>3, <1>4, <1>5, <1>6, <1>7

\* SETUP with a stream: a new context, if there is a key.
LEMMA MirrorSetupStream ==
    ASSUME MirrorInv, Mirror!SetupStream
    PROVE  MirrorInv'
<1> USE DEF MirrorInv
<1> DEFINE S == Mirror!Source
<1>1. /\ UNCHANGED <<stream, wire, device>>
      /\ setup < MaxConns /\ setup' = setup + 1
      /\ mirrored' = IF S.key THEN Mirror!InitAes(S, setup + 1) ELSE S
      /\ keyed' = IF S.key THEN keyed \cup {setup + 1} ELSE keyed
      /\ overlap' = (overlap \/ mirrored.sock # 0)
  BY DEF Mirror!SetupStream
<1>2. setup \in Nat /\ setup' \in 0..MaxConns /\ setup' \notin keyed /\ setup' # 0
  BY <1>1, MediaAssumption DEF MirrorTypes
<1>3. /\ S \in MirrorSource /\ S.present /\ S.id = mirrored.id /\ S.sock = mirrored.sock
      /\ S.paused = mirrored.paused /\ S.key = mirrored.key
  BY SourceThere
<1> HIDE DEF S
<1>4. /\ mirrored' \in MirrorSource /\ mirrored'.present
      /\ mirrored'.sock = mirrored.sock /\ mirrored'.paused = mirrored.paused
      /\ S.key => mirrored'.id = setup' /\ mirrored'.pos = 0 /\ mirrored'.key
      /\ ~S.key => mirrored'.id = 0 /\ setup' \notin keyed'
      /\ S.key => setup' \in keyed'
  <2>1. CASE S.key
    BY <1>1, <1>2, <1>3, <2>1 DEF MirrorSource, Mirror!InitAes
  <2>2. CASE ~S.key
    BY <1>1, <1>2, <1>3, <2>2 DEF SlotRuns
  <2> QED
    BY <2>1, <2>2
<1>5. MirrorTypes'
  <2>1. keyed' \subseteq 1..setup'
    BY <1>1, <1>2 DEF MirrorTypes
  <2>2. overlap' \in BOOLEAN
    BY <1>1 DEF MirrorTypes
  <2> QED
    BY <1>1, <1>2, <1>4, <2>1, <2>2 DEF MirrorTypes
<1>6. \A b \in Mirror!Conns : Fresh(b)'
  BY <1>1, <1>2 DEF Fresh, MirrorTypes, Mirror!Conns
<1>7. SlotRuns'
  BY <1>1, <1>4 DEF SlotRuns
<1>8. \A b \in Mirror!Conns : ReadyAnnounced(b)'
  BY <1>1, <1>4 DEF ReadyAnnounced, HandlerReady
<1>9. ASSUME ~overlap'  PROVE SetUp' /\ \A b \in Mirror!Conns : Alone(b)'
  <2>1. ~overlap /\ mirrored.sock = 0 /\ ~mirrored.paused
    BY <1>1, <1>9 DEF SetUp
  <2>2. SetUp'
    BY <1>4, <2>1 DEF SetUp
  <2>3. \A b \in Mirror!Conns : stream[b].at \notin {"check", "read"}
    BY <2>1 DEF Alone, Mirror!Conns
  <2> QED
    BY <1>1, <2>2, <2>3 DEF Alone
<1> QED
  BY <1>5, <1>6, <1>7, <1>8, <1>9

\* The stream that was set up is connected.
LEMMA MirrorConnect ==
    ASSUME MirrorInv, Mirror!Connect
    PROVE  MirrorInv'
<1> USE DEF MirrorInv
<1>1. /\ UNCHANGED <<wire, device, setup, keyed, overlap>>
      /\ setup # 0 /\ stream[setup].at = "none"
      /\ mirrored' = [Mirror!Source EXCEPT !.sock = setup]
      /\ stream' = [stream EXCEPT ![setup].at = "check"]
  BY DEF Mirror!Connect
<1>2. PICK c \in Mirror!Conns : c = setup
  BY <1>1, MediaAssumption DEF MirrorTypes, Mirror!Conns
<1>3. /\ mirrored' \in MirrorSource /\ mirrored'.present /\ mirrored'.sock = c
      /\ mirrored'.key = mirrored.key
      /\ mirrored'.id = mirrored.id /\ mirrored'.pos = mirrored.pos
      /\ mirrored'.paused = mirrored.paused
  <2>1. c \in 0..MaxConns
    BY MediaAssumption DEF Mirror!Conns
  <2> QED
    BY <1>1, <1>2, <2>1, SourceThere DEF MirrorSource
<1>4. stream[c] \in Handler /\ device[c] \in Device
  BY <1>2 DEF MirrorTypes
<1>5. /\ stream' \in [Mirror!Conns -> Handler]
      /\ stream'[c].at = "check" /\ stream'[c].prepend = stream[c].prepend
      /\ stream'[c].sps_pps = stream[c].sps_pps
      /\ \A b \in Mirror!Conns \ {c} : stream'[b] = stream[b]
  BY <1>1, <1>2, <1>4 DEF MirrorTypes, Handler
<1>6. MirrorTypes'
  BY <1>1, <1>3, <1>5 DEF MirrorTypes
<1>7. \A b \in Mirror!Conns : Fresh(b)'
  <2> SUFFICES ASSUME NEW b \in Mirror!Conns  PROVE Fresh(b)'
    OBVIOUS
  <2>1. CASE b = c
    BY <1>1, <1>2, <1>5, <2>1 DEF Fresh, Mirror!Conns
  <2>2. CASE b # c
    BY <1>1, <1>2, <1>5, <2>2 DEF Fresh
  <2> QED
    BY <2>1, <2>2
<1>8. SlotRuns'
  BY <1>2, <1>3, <1>5 DEF SlotRuns
<1>9. /\ ~stream[c].prepend /\ stream[c].sps_pps = 0 /\ wire[c] = <<>>
      /\ device[c].pos = 0 /\ ~device[c].due /\ ~device[c].paused
  BY <1>1, <1>2 DEF Fresh
<1>10. \A b \in Mirror!Conns : ReadyAnnounced(b)'
  <2>1. ReadyAnnounced(c)'
    BY <1>1, <1>5, <1>9 DEF ReadyAnnounced, Announced, First
  <2>2. \A b \in Mirror!Conns \ {c} : ReadyAnnounced(b)'
    BY <1>1, <1>3, <1>5 DEF ReadyAnnounced, HandlerReady
  <2> QED
    BY <2>1, <2>2
<1>11. ASSUME ~overlap'  PROVE SetUp' /\ \A b \in Mirror!Conns : Alone(b)'
  <2>1. /\ mirrored.present /\ mirrored.sock = 0 /\ ~mirrored.paused
        /\ c \in keyed => mirrored.id = c /\ mirrored.pos = 0
        /\ c \notin keyed => mirrored.id = 0
    BY <1>1, <1>2, <1>11 DEF SetUp
  <2>2. SetUp'
    BY <1>1, <1>2, <1>3, <1>5 DEF SetUp
  <2>3. ASSUME NEW b \in Mirror!Conns \ {c}  PROVE Alone(b)'
    <3>1. stream[b].at \notin {"check", "read"}
      BY <1>1, <1>11, <2>1 DEF Alone, Mirror!Conns
    <3> QED
      BY <1>5, <3>1 DEF Alone
  <2>4. Alone(c)'
    <3>1. Placed(<<>>, 0, 0)
      BY DEF Placed, FirstPicture
    <3>2. device[c].paused = FALSE /\ mirrored.paused = FALSE
      BY <1>4, <1>9, <2>1 DEF MirrorTypes, MirrorSource, Device
    <3>3. Paused(<<>>, FALSE, FALSE)
      BY DEF Paused
    <3>4. /\ mirrored'.present /\ mirrored'.sock = c
          /\ c \in keyed' => mirrored'.id = c
          /\ c \notin keyed' => mirrored'.id = 0
      BY <1>1, <1>3, <2>1
    <3>5. c \in keyed' => Placed(wire'[c], mirrored'.pos, device'[c].pos)
      BY <1>1, <1>3, <1>9, <2>1, <3>1
    <3>6. Paused(wire'[c], device'[c].paused, mirrored'.paused)
      BY <1>1, <1>3, <1>9, <3>2, <3>3
    <3> QED
      BY <3>4, <3>5, <3>6 DEF Alone
  <2> QED
    BY <2>2, <2>3, <2>4
<1> QED
  BY <1>6, <1>7, <1>8, <1>10, <1>11

\* The handler goes on: it finds the slot is still its own.
LEMMA MirrorCheck ==
    ASSUME MirrorInv, NEW c \in Mirror!Conns, Mirror!Check(c)
    PROVE  MirrorInv'
<1> USE DEF MirrorInv
<1>1. /\ UNCHANGED <<mirrored, wire, device, setup, keyed, overlap>>
      /\ stream[c].at = "check" /\ mirrored.sock = c
      /\ stream' = [stream EXCEPT ![c].at = "read"]
  BY DEF Mirror!Check
<1>2. /\ stream' \in [Mirror!Conns -> Handler]
      /\ stream'[c].at = "read" /\ stream'[c].prepend = stream[c].prepend
      /\ stream'[c].sps_pps = stream[c].sps_pps /\ stream'[c].time = stream[c].time
      /\ \A b \in Mirror!Conns \ {c} : stream'[b] = stream[b]
  BY <1>1 DEF MirrorTypes, Handler
<1>3. MirrorTypes'
  BY <1>1, <1>2 DEF MirrorTypes
<1>4. \A b \in Mirror!Conns : Fresh(b)'
  BY <1>1, <1>2 DEF Fresh
<1>5. SlotRuns'
  BY <1>1, <1>2 DEF SlotRuns
<1>6. \A b \in Mirror!Conns : ReadyAnnounced(b)'
  <2>1. ReadyAnnounced(c)'
    BY <1>1, <1>2 DEF ReadyAnnounced, HandlerReady, Announced
  <2>2. \A b \in Mirror!Conns \ {c} : ReadyAnnounced(b)'
    BY <1>1, <1>2 DEF ReadyAnnounced, HandlerReady
  <2> QED
    BY <2>1, <2>2
<1>7. ASSUME ~overlap'  PROVE SetUp' /\ \A b \in Mirror!Conns : Alone(b)'
  BY <1>1, <1>2, <1>7 DEF SetUp, Alone, MirrorTypes, Mirror!Conns
<1> QED
  BY <1>3, <1>4, <1>5, <1>6, <1>7

\* The handler ends, of itself or because it was replaced.
LEMMA MirrorEnds ==
    ASSUME MirrorInv, NEW c \in Mirror!Conns, Mirror!Ends(c)
    PROVE  MirrorInv'
<1> USE DEF MirrorInv
<1>1. /\ UNCHANGED <<wire, device, setup, keyed, overlap>>
      /\ stream[c].at \in {"check", "read"}
      /\ stream' = [stream EXCEPT ![c].at = "ended"]
      /\ mirrored' = IF mirrored.sock = c THEN Mirror!NoSource ELSE mirrored
  BY DEF Mirror!Ends
<1>2. /\ stream' \in [Mirror!Conns -> Handler] /\ stream'[c].at = "ended"
      /\ \A b \in Mirror!Conns \ {c} : stream'[b] = stream[b]
  BY <1>1 DEF MirrorTypes, Handler
<1>3. Mirror!NoSource \in MirrorSource /\ ~Mirror!NoSource.present
      /\ Mirror!NoSource.sock = 0 /\ ~Mirror!NoSource.paused /\ Mirror!NoSource.id = 0
  BY MediaAssumption DEF Mirror!NoSource, MirrorSource
<1>4. MirrorTypes'
  BY <1>1, <1>2, <1>3 DEF MirrorTypes
<1>5. \A b \in Mirror!Conns : Fresh(b)'
  BY <1>1, <1>2 DEF Fresh
<1>6. SlotRuns'
  BY <1>1, <1>2, <1>3 DEF SlotRuns, MirrorTypes, MirrorSource, Mirror!Conns
<1>7. \A b \in Mirror!Conns : ReadyAnnounced(b)'
  BY <1>1, <1>2, <1>3 DEF ReadyAnnounced, HandlerReady, Mirror!Conns
<1>8. ASSUME ~overlap'  PROVE SetUp' /\ \A b \in Mirror!Conns : Alone(b)'
  <2>1. mirrored.sock = c /\ mirrored' = Mirror!NoSource /\ c # 0
    BY <1>1, <1>8 DEF Alone, Mirror!Conns
  <2>2. \A b \in Mirror!Conns : stream'[b].at \notin {"check", "read"}
    BY <1>1, <1>2, <1>8, <2>1 DEF Alone
  <2>3. ASSUME setup # 0, stream'[setup].at = "none"  PROVE FALSE
    <3>1. setup \in Mirror!Conns \ {c}
      BY <1>2, <2>3, MediaAssumption DEF MirrorTypes, Mirror!Conns
    <3>2. stream[setup].at = "none"
      BY <1>2, <2>3, <3>1
    <3> QED
      BY <1>1, <1>8, <2>1, <2>3, <3>2 DEF SetUp
  <2> QED
    BY <1>1, <1>3, <2>1, <2>2, <2>3 DEF SetUp, Alone
<1> QED
  BY <1>4, <1>5, <1>6, <1>7, <1>8

\* A packet is read with a source there, or nothing is done with the source.
LEMMA MirrorRead ==
    ASSUME MirrorInv, NEW c \in Mirror!Conns, stream[c].at = "read", wire[c] # <<>>,
           UNCHANGED <<device, setup, keyed, overlap>>,
           wire' = [wire EXCEPT ![c] = Tail(@)],
           NEW t \in Handler, t.at = "check", stream' = [stream EXCEPT ![c] = t],
           mirrored' \in MirrorSource, mirrored'.present = mirrored.present,
           mirrored'.id = mirrored.id, mirrored'.sock = mirrored.sock,
           mirrored'.key = mirrored.key,
           ~mirrored.present => mirrored' = mirrored,
           \/ ~mirrored.present
           \/ /\ Head(wire[c]).kind = "params"
              /\ t.prepend /\ t.sps_pps = Head(wire[c]).params /\ t.time = Head(wire[c]).time
           \/ Head(wire[c]).kind = "video" /\ ~t.prepend /\ t.sps_pps = 0
           \/ /\ Head(wire[c]).kind = "other" /\ t.prepend = stream[c].prepend
              /\ t.sps_pps = stream[c].sps_pps /\ t.time = stream[c].time,
           (mirrored.present /\ mirrored.id # 0) =>
               mirrored'.pos = IF Head(wire[c]).kind = "video" THEN mirrored.pos + 1
                                                               ELSE mirrored.pos,
           mirrored.present =>
               mirrored'.paused = IF Marks(Head(wire[c])) THEN Head(wire[c]).kind = "params"
                                                          ELSE mirrored.paused
    PROVE  MirrorInv'
<1> USE DEF MirrorInv
<1>1. /\ wire[c] \in Seq(Packet) /\ Tail(wire[c]) \in Seq(Packet)
      /\ stream[c] \in Handler /\ device[c] \in Device /\ mirrored \in MirrorSource
  BY Taken DEF MirrorTypes
<1>2. /\ mirrored.pos \in Nat /\ mirrored.paused \in BOOLEAN
      /\ device[c].pos \in Nat /\ device[c].paused \in BOOLEAN
  BY <1>1 DEF MirrorSource, Device
<1>3. /\ stream' \in [Mirror!Conns -> Handler] /\ stream'[c] = t
      /\ \A b \in Mirror!Conns \ {c} : stream'[b] = stream[b]
      /\ wire' \in [Mirror!Conns -> Seq(Packet)] /\ wire'[c] = Tail(wire[c])
      /\ \A b \in Mirror!Conns \ {c} : wire'[b] = wire[b]
  BY <1>1 DEF MirrorTypes
<1>4. MirrorTypes'
  BY <1>3 DEF MirrorTypes
<1>5. \A b \in Mirror!Conns : Fresh(b)'
  BY <1>3 DEF Fresh
<1>6. SlotRuns'
  BY <1>3 DEF SlotRuns
<1>7. ReadyAnnounced(c)'
  <2>1. mirrored.present \/ mirrored.sock = 0
    BY DEF SlotRuns, Mirror!NoSource
  <2>2. CASE ~mirrored.present
    BY <1>3, <2>1, <2>2 DEF ReadyAnnounced, HandlerReady, Mirror!Conns
  <2>3. CASE mirrored.present
    <3>1. Announced(wire[c], stream[c], device[c])
      BY DEF ReadyAnnounced, HandlerReady
    <3>2. Announced(Tail(wire[c]), t, device[c])
      BY <1>1, <2>3, <3>1, AnnouncedRead
    <3> QED
      BY <1>3, <3>2 DEF ReadyAnnounced
  <2> QED
    BY <2>2, <2>3
<1>8. \A b \in Mirror!Conns : ReadyAnnounced(b)'
  BY <1>3, <1>7 DEF ReadyAnnounced, HandlerReady
<1>9. ASSUME ~overlap'  PROVE SetUp' /\ \A b \in Mirror!Conns : Alone(b)'
  <2>1. /\ mirrored.present /\ mirrored.sock = c /\ c # 0
        /\ c \in keyed => mirrored.id = c /\ Placed(wire[c], mirrored.pos, device[c].pos)
        /\ c \notin keyed => mirrored.id = 0
        /\ Paused(wire[c], device[c].paused, mirrored.paused)
    BY <1>9 DEF Alone, Mirror!Conns
  <2>2. c \in keyed => Placed(Tail(wire[c]), mirrored'.pos, device[c].pos)
    BY <1>1, <1>2, <2>1, PlacedRead
  <2>3. Paused(Tail(wire[c]), device[c].paused, mirrored'.paused)
    BY <1>1, <1>2, <2>1, PausedRead
  <2>4. Alone(c)'
    BY <1>3, <2>1, <2>2, <2>3 DEF Alone
  <2>5. \A b \in Mirror!Conns \ {c} : Alone(b)'
    BY <1>3, <1>9, <2>1 DEF Alone
  <2>6. ~(setup # 0 /\ stream[setup].at = "none")
    BY <1>9, <2>1 DEF SetUp
  <2>7. SetUp'
    BY <1>3, <2>1, <2>6, MediaAssumption DEF SetUp, MirrorTypes, Mirror!Conns
  <2> QED
    BY <2>4, <2>5, <2>7
<1> QED
  BY <1>4, <1>5, <1>6, <1>8, <1>9

\* What a handler reads.
LEMMA MirrorReads ==
    ASSUME MirrorInv, NEW c \in Mirror!Conns, NEW kind, Mirror!Reads(c, kind)
    PROVE  /\ stream[c].at = "read" /\ wire[c] # <<>> /\ Head(wire[c]).kind = kind
           /\ wire' = [wire EXCEPT ![c] = Tail(@)]
           /\ UNCHANGED <<device, setup, keyed, overlap>>
           /\ wire[c] \in Seq(Packet) /\ Head(wire[c]) \in Packet
           /\ stream[c] \in Handler /\ mirrored \in MirrorSource
  BY Taken DEF Mirror!Reads, MirrorInv, MirrorTypes

\* Parameter sets are read.
LEMMA MirrorReadParams ==
    ASSUME MirrorInv, NEW c \in Mirror!Conns, Mirror!ReadParams(c)
    PROVE  MirrorInv'
<1> DEFINE p == Head(wire[c])
           t == [sps_pps |-> p.params, prepend |-> TRUE, time |-> p.time, at |-> "check"]
<1>1. /\ stream[c].at = "read" /\ wire[c] # <<>> /\ p.kind = "params"
      /\ wire' = [wire EXCEPT ![c] = Tail(@)]
      /\ UNCHANGED <<device, setup, keyed, overlap>>
      /\ p \in Packet /\ mirrored \in MirrorSource
  BY MirrorReads DEF Mirror!ReadParams
<1>2. /\ stream' = [stream EXCEPT ![c] = t]
      /\ mirrored' = IF p.pause /\ mirrored.present THEN [mirrored EXCEPT !.paused = TRUE]
                                                    ELSE mirrored
  BY DEF Mirror!ReadParams
<1>3. p.time \in Nat /\ p.params \in Nat
  BY <1>1, Fields
<1>4. t \in Handler /\ t.at = "check" /\ t.prepend /\ t.sps_pps = p.params /\ t.time = p.time
  BY <1>3 DEF Handler
<1>5. /\ mirrored' \in MirrorSource /\ mirrored'.present = mirrored.present
      /\ mirrored'.id = mirrored.id /\ mirrored'.sock = mirrored.sock
      /\ mirrored'.pos = mirrored.pos /\ mirrored'.key = mirrored.key
      /\ ~mirrored.present => mirrored' = mirrored
  BY <1>1, <1>2 DEF MirrorSource
<1>6. ASSUME mirrored.present
      PROVE  mirrored'.paused = IF Marks(p) THEN p.kind = "params" ELSE mirrored.paused
  <2>1. CASE p.pause
    <3>1. Marks(p) /\ mirrored'.paused = TRUE
      BY <1>1, <1>2, <1>6, <2>1 DEF Marks, MirrorSource
    <3> QED
      BY <1>1, <3>1
  <2>2. CASE ~p.pause
    <3>1. p.kind # "video"
      BY <1>1
    <3>2. ~Marks(p)
      BY <3>1, <2>2 DEF Marks
    <3> QED
      BY <1>2, <2>2, <3>2
  <2> QED
    BY <2>1, <2>2
<1> HIDE DEF t
<1> QED
  BY <1>1, <1>2, <1>4, <1>5, <1>6, MirrorRead

\* A picture is read.
LEMMA MirrorReadVideo ==
    ASSUME MirrorInv, NEW c \in Mirror!Conns, Mirror!ReadVideo(c)
    PROVE  MirrorInv'
<1> DEFINE p == Head(wire[c])
           prefix == Mirror!Prefix(stream[c], p)
           t == [[stream[c] EXCEPT !.prepend = FALSE, !.at = "check"]
                   EXCEPT !.sps_pps = IF mirrored.present THEN 0 ELSE prefix]
<1>1. /\ stream[c].at = "read" /\ wire[c] # <<>> /\ p.kind = "video"
      /\ wire' = [wire EXCEPT ![c] = Tail(@)]
      /\ UNCHANGED <<device, setup, keyed, overlap>>
      /\ stream[c] \in Handler /\ mirrored \in MirrorSource
  BY MirrorReads DEF Mirror!ReadVideo
<1>2. /\ stream' = [stream EXCEPT ![c] = t]
      /\ mirrored' = IF mirrored.present THEN Mirror!Resumed(Mirror!Decrypt(mirrored))
                                         ELSE mirrored
  BY DEF Mirror!ReadVideo
<1>3. prefix \in Nat
  BY <1>1 DEF Mirror!Prefix, Handler
<1>4. t \in Handler /\ t.at = "check" /\ ~t.prepend /\ (mirrored.present => t.sps_pps = 0)
  <2> HIDE DEF prefix
  <2> DEFINE q == IF mirrored.present THEN 0 ELSE prefix
  <2>1. q \in Nat
    BY <1>3
  <2> HIDE DEF q
  <2>2. [stream[c] EXCEPT !.prepend = FALSE, !.at = "check", !.sps_pps = q] \in Handler
    BY <1>1, <2>1, Zenon DEF Handler
  <2>3. t = [stream[c] EXCEPT !.prepend = FALSE, !.at = "check", !.sps_pps = q]
    BY DEF q
  <2>4. t.at = "check" /\ ~t.prepend /\ t.sps_pps = q
    BY <1>1, <2>3 DEF Handler
  <2> QED
    BY <2>2, <2>3, <2>4 DEF q
<1>5. /\ mirrored' \in MirrorSource /\ mirrored'.present = mirrored.present
      /\ mirrored'.id = mirrored.id /\ mirrored'.sock = mirrored.sock
      /\ mirrored'.key = mirrored.key
      /\ ~mirrored.present => mirrored' = mirrored
      /\ mirrored.present /\ mirrored.id # 0 => mirrored'.pos = mirrored.pos + 1
      /\ mirrored.present => mirrored'.paused = FALSE
  <2> DEFINE m == Mirror!Decrypt(mirrored)
  <2>1. /\ m \in MirrorSource /\ m.present = mirrored.present /\ m.id = mirrored.id
        /\ m.key = mirrored.key /\ m.sock = mirrored.sock
        /\ mirrored.id # 0 => m.pos = mirrored.pos + 1
    BY <1>1 DEF MirrorSource, Mirror!Decrypt
  <2> HIDE DEF m
  <2>2. /\ Mirror!Resumed(m) \in MirrorSource /\ Mirror!Resumed(m).present = m.present
        /\ Mirror!Resumed(m).id = m.id /\ Mirror!Resumed(m).sock = m.sock
        /\ Mirror!Resumed(m).key = m.key
        /\ Mirror!Resumed(m).pos = m.pos /\ Mirror!Resumed(m).paused = FALSE
    BY <2>1 DEF MirrorSource, Mirror!Resumed
  <2>3. mirrored' = IF mirrored.present THEN Mirror!Resumed(m) ELSE mirrored
    BY <1>2 DEF m
  <2> QED
    BY <1>1, <2>1, <2>2, <2>3
<1>6. Marks(p) /\ (p.kind = "params") = FALSE
  BY <1>1 DEF Marks
<1> HIDE DEF t
<1> QED
  BY <1>1, <1>2, <1>4, <1>5, <1>6, MirrorRead

\* What is ignored is read.
LEMMA MirrorReadOther ==
    ASSUME MirrorInv, NEW c \in Mirror!Conns, Mirror!ReadOther(c)
    PROVE  MirrorInv'
<1> DEFINE p == Head(wire[c])
           t == [stream[c] EXCEPT !.at = "check"]
<1>1. /\ stream[c].at = "read" /\ wire[c] # <<>> /\ p.kind = "other"
      /\ wire' = [wire EXCEPT ![c] = Tail(@)]
      /\ UNCHANGED <<device, setup, keyed, overlap>>
      /\ stream[c] \in Handler /\ mirrored \in MirrorSource
  BY MirrorReads DEF Mirror!ReadOther
<1>2. stream' = [stream EXCEPT ![c] = t] /\ mirrored' = mirrored
  BY DEF Mirror!ReadOther
<1>3. /\ t \in Handler /\ t.at = "check" /\ t.prepend = stream[c].prepend
      /\ t.sps_pps = stream[c].sps_pps /\ t.time = stream[c].time
  BY <1>1 DEF Handler
<1>4. p.kind # "video" /\ ~Marks(p)
  BY <1>1 DEF Marks
<1> HIDE DEF t
<1> QED
  BY <1>1, <1>2, <1>3, <1>4, MirrorRead

-----------------------------------------------------------------------------
(* What follows for what is decoded and shown.                             *)

\* What is decoded is of a stream that was set up.
DecodedOfSetup == decoded # <<>> => decoded[1].conn \in 1..setup

MirrorSafe == Mirror!InStep /\ Mirror!ParamsInFront /\ DecodedOfSetup

\* A picture is decoded.
LEMMA MirrorDecodes ==
    ASSUME MirrorInv, MirrorSafe, NEW c \in Mirror!Conns, Mirror!ReadVideo(c)
    PROVE  MirrorSafe'
<1> DEFINE p == Head(wire[c])
<1>1. /\ stream[c].at = "read" /\ wire[c] # <<>> /\ p.kind = "video"
      /\ UNCHANGED <<device, setup, keyed, overlap>>
      /\ wire[c] \in Seq(Packet) /\ p \in Packet /\ stream[c] \in Handler
      /\ mirrored \in MirrorSource
  BY MirrorReads DEF Mirror!ReadVideo
<1>2. CASE ~mirrored.present
  BY <1>1, <1>2 DEF MirrorSafe, Mirror!InStep, Mirror!ParamsInFront, DecodedOfSetup,
     Mirror!ReadVideo
<1>3. CASE mirrored.present
  <2>1. decoded' = <<[due |-> IF p.due THEN p.params ELSE 0,
                      prefix |-> Mirror!Prefix(stream[c], p),
                      conn |-> c, by |-> mirrored.id,
                      plain |-> mirrored.id = c /\ mirrored.pos = p.pos]>>
    BY <1>3 DEF Mirror!ReadVideo
  <2>2. Announced(wire[c], stream[c], device[c])
    BY <1>1 DEF MirrorInv, ReadyAnnounced, HandlerReady
  <2>3. Mirror!Prefix(stream[c], p) = IF p.due THEN p.params ELSE 0
    BY <1>1, <2>2, HeadPrefixed
  <2>4. ASSUME ~overlap'
        PROVE  IF c \in keyed THEN mirrored.id = c /\ mirrored.pos = p.pos
                              ELSE mirrored.id = 0
    <3>1. /\ c \in keyed => mirrored.id = c /\ Placed(wire[c], mirrored.pos, device[c].pos)
          /\ c \notin keyed => mirrored.id = 0
      BY <1>1, <2>4 DEF MirrorInv, Alone
    <3>2. mirrored.pos \in Nat /\ device[c].pos \in Nat
      BY DEF MirrorInv, MirrorTypes, MirrorSource, Device
    <3> QED
      BY <1>1, <3>1, <3>2, PlacedRead
  <2>5. Mirror!InStep'
    BY <1>1, <2>1, <2>4 DEF Mirror!InStep
  <2>7. DecodedOfSetup'
    <3>1. c \in 1..setup
      BY <1>1, MediaAssumption DEF MirrorInv, MirrorTypes, Fresh, Mirror!Conns
    <3> QED
      BY <1>1, <2>1, <3>1 DEF DecodedOfSetup
  <2>6. Mirror!ParamsInFront'
    BY <2>1, <2>3 DEF Mirror!ParamsInFront
  <2> QED
    BY <2>5, <2>6, <2>7 DEF MirrorSafe
<1> QED
  BY <1>2, <1>3

\* What is shown as paused.
LEMMA MirrorShowsPauses ==
    ASSUME MirrorInv
    PROVE  Mirror!PausedMeansPaused
<1> SUFFICES ASSUME NEW c \in Mirror!Conns,
                    mirrored.present, mirrored.sock = c, wire[c] = <<>>, ~overlap
             PROVE  mirrored.paused = device[c].paused
  BY DEF Mirror!PausedMeansPaused
<1>1. stream[c].at \in {"check", "read"}
  BY DEF MirrorInv, SlotRuns, Mirror!Conns
<1>2. Paused(<<>>, device[c].paused, mirrored.paused)
  BY <1>1 DEF MirrorInv, Alone
<1>3. Len(<<>>) = 0
  BY EmptySeq
<1>4. device[c].paused = mirrored.paused
  BY <1>2, <1>3 DEF Paused
<1> QED
  BY <1>4

\* Every step of a mirror stream.
LEMMA MirrorStep ==
    ASSUME MirrorInv, MirrorSafe, Mirror!Next
    PROVE  MirrorInv' /\ MirrorSafe'
<1>1. ASSUME UNCHANGED <<decoded, setup, keyed, overlap>>  PROVE MirrorSafe'
  BY <1>1 DEF MirrorSafe, Mirror!InStep, Mirror!ParamsInFront, DecodedOfSetup
<1>2. CASE Mirror!SetupKey
  BY <1>1, <1>2, MirrorSetupKey DEF Mirror!SetupKey
<1>3. CASE Mirror!SetupStream
  <2>1. /\ decoded' = decoded /\ (overlap => overlap') /\ setup' = setup + 1
        /\ setup \in Nat /\ keyed' \in {keyed, keyed \cup {setup + 1}}
    BY <1>3, MediaAssumption DEF Mirror!SetupStream, MirrorInv, MirrorTypes
  <2>2. decoded # <<>> => decoded[1].conn \in 1..setup' /\ decoded[1].conn # setup + 1
    BY <2>1 DEF MirrorSafe, DecodedOfSetup
  <2>3. MirrorSafe'
    BY <2>1, <2>2 DEF MirrorSafe, Mirror!InStep, Mirror!ParamsInFront, DecodedOfSetup
  <2> QED
    BY <1>3, <2>3, MirrorSetupStream
<1>4. CASE Mirror!Connect
  BY <1>1, <1>4, MirrorConnect DEF Mirror!Connect
<1>5. ASSUME NEW c \in Mirror!Conns, Mirror!SendParams(c)
      PROVE  MirrorInv' /\ MirrorSafe'
  BY <1>1, <1>5, MirrorSendParams DEF Mirror!SendParams, Mirror!Put
<1>6. ASSUME NEW c \in Mirror!Conns, Mirror!SendVideo(c)
      PROVE  MirrorInv' /\ MirrorSafe'
  BY <1>1, <1>6, MirrorSendVideo DEF Mirror!SendVideo, Mirror!Put
<1>7. ASSUME NEW c \in Mirror!Conns, Mirror!SendOther(c)
      PROVE  MirrorInv' /\ MirrorSafe'
  BY <1>1, <1>7, MirrorSendOther DEF Mirror!SendOther, Mirror!Put
<1>8. ASSUME NEW c \in Mirror!Conns, Mirror!Check(c)  PROVE MirrorInv' /\ MirrorSafe'
  BY <1>1, <1>8, MirrorCheck DEF Mirror!Check
<1>9. ASSUME NEW c \in Mirror!Conns, Mirror!Ends(c)  PROVE MirrorInv' /\ MirrorSafe'
  BY <1>1, <1>9, MirrorEnds DEF Mirror!Ends
<1>10. ASSUME NEW c \in Mirror!Conns, Mirror!ReadParams(c)
       PROVE  MirrorInv' /\ MirrorSafe'
  BY <1>1, <1>10, MirrorReadParams DEF Mirror!ReadParams, Mirror!Reads
<1>11. ASSUME NEW c \in Mirror!Conns, Mirror!ReadVideo(c)
       PROVE  MirrorInv' /\ MirrorSafe'
  BY <1>11, MirrorReadVideo, MirrorDecodes
<1>12. ASSUME NEW c \in Mirror!Conns, Mirror!ReadOther(c)
       PROVE  MirrorInv' /\ MirrorSafe'
  BY <1>1, <1>12, MirrorReadOther DEF Mirror!ReadOther, Mirror!Reads
<1> QED
  BY <1>2, <1>3, <1>4, <1>5, <1>6, <1>7, <1>8, <1>9, <1>10, <1>11, <1>12
     DEF Mirror!Next, Mirror!Bail

-----------------------------------------------------------------------------
(* What a device counts is bounded by what it sends.                       *)

Bounded(c) ==
    /\ device[c].params <= device[c].sent /\ device[c].clock <= device[c].sent
    /\ device[c].sent <= MaxPackets
    /\ \A i \in 1..Len(wire[c]) : wire[c][i].kind = "params" =>
         wire[c][i].time <= MaxPackets /\ wire[c][i].params <= MaxPackets
    /\ stream[c].sps_pps <= MaxPackets /\ stream[c].time <= MaxPackets

MirrorBounded == \A c \in Mirror!Conns : Bounded(c)

\* A packet is sent.
LEMMA BoundedPut ==
    ASSUME MirrorInv, MirrorBounded, NEW c \in Mirror!Conns, NEW p, NEW e \in Device,
           p \in Packet, Mirror!Put(c, p, e),
           e.sent = device[c].sent,
           e.params <= device[c].sent + 1, e.clock <= device[c].sent + 1,
           p.kind = "params" => p.time = e.clock /\ p.params = e.params
    PROVE  MirrorBounded'
<1> DEFINE f == [e EXCEPT !.sent = @ + 1]
<1>1. /\ device[c].sent < MaxPackets /\ UNCHANGED stream
      /\ wire' = [wire EXCEPT ![c] = Append(@, p)] /\ device' = [device EXCEPT ![c] = f]
  BY DEF Mirror!Put
<1>2. /\ f.sent = device[c].sent + 1 /\ f.params = e.params /\ f.clock = e.clock
      /\ device[c].sent \in Nat /\ e.params \in Nat /\ e.clock \in Nat
  BY DEF MirrorInv, MirrorTypes, Device
<1> HIDE DEF f
<1>3. f.params <= f.sent /\ f.clock <= f.sent /\ f.sent <= MaxPackets
  BY <1>1, <1>2, MediaAssumption
<1>4. /\ wire'[c] = Append(wire[c], p) /\ device'[c] = f
      /\ \A b \in Mirror!Conns \ {c} : wire'[b] = wire[b] /\ device'[b] = device[b]
  BY <1>1 DEF MirrorInv, MirrorTypes
<1>5. \A i \in 1..Len(wire'[c]) : wire'[c][i].kind = "params" =>
        wire'[c][i].time <= MaxPackets /\ wire'[c][i].params <= MaxPackets
  <2> SUFFICES ASSUME NEW i \in 1..Len(wire'[c]), wire'[c][i].kind = "params"
               PROVE  wire'[c][i].time <= MaxPackets /\ wire'[c][i].params <= MaxPackets
    OBVIOUS
  <2>1. /\ Len(wire[c]) \in Nat /\ Len(wire'[c]) = Len(wire[c]) + 1
        /\ \A k \in 1..Len(wire[c]) : wire'[c][k] = wire[c][k]
        /\ wire'[c][Len(wire[c]) + 1] = p
    BY <1>4, Sent DEF MirrorInv, MirrorTypes
  <2>2. CASE i \in 1..Len(wire[c])
    BY <2>1, <2>2 DEF MirrorBounded, Bounded
  <2>3. CASE i = Len(wire[c]) + 1
    <3>1. p.time <= MaxPackets /\ p.params <= MaxPackets
      BY <1>2, <1>3, <2>1, <2>3, MediaAssumption
    <3> QED
      BY <2>1, <2>3, <3>1
  <2> QED
    BY <2>1, <2>2, <2>3
<1>6. Bounded(c)'
  BY <1>1, <1>3, <1>4, <1>5 DEF MirrorBounded, Bounded
<1>7. \A b \in Mirror!Conns \ {c} : Bounded(b)'
  BY <1>1, <1>4 DEF MirrorBounded, Bounded
<1> QED
  BY <1>6, <1>7 DEF MirrorBounded

\* A packet is read.
LEMMA BoundedRead ==
    ASSUME MirrorInv, MirrorBounded, NEW c \in Mirror!Conns, NEW kind, Mirror!Reads(c, kind),
           NEW t \in Handler, stream' = [stream EXCEPT ![c] = t],
           t.sps_pps <= MaxPackets, t.time <= MaxPackets
    PROVE  MirrorBounded'
<1>1. /\ wire[c] # <<>> /\ UNCHANGED device /\ wire[c] \in Seq(Packet)
      /\ wire' = [wire EXCEPT ![c] = Tail(@)]
  BY MirrorReads
<1>2. /\ wire'[c] = Tail(wire[c]) /\ stream'[c] = t
      /\ \A b \in Mirror!Conns \ {c} : wire'[b] = wire[b] /\ stream'[b] = stream[b]
  BY <1>1 DEF MirrorInv, MirrorTypes
<1>3. \A i \in 1..Len(Tail(wire[c])) :
        i + 1 \in 1..Len(wire[c]) /\ Tail(wire[c])[i] = wire[c][i + 1]
  BY <1>1, Taken
<1>4. Bounded(c)'
  BY <1>1, <1>2, <1>3 DEF MirrorBounded, Bounded
<1>5. \A b \in Mirror!Conns \ {c} : Bounded(b)'
  BY <1>1, <1>2 DEF MirrorBounded, Bounded
<1> QED
  BY <1>4, <1>5 DEF MirrorBounded

\* Every step of a mirror stream keeps to the bounds.
LEMMA BoundedStep ==
    ASSUME MirrorInv, MirrorInv', MirrorBounded, Mirror!Next
    PROVE  MirrorBounded'
<1>1. ASSUME \/ UNCHANGED <<stream, wire, device>>
             \/ \E c \in Mirror!Conns :
                  \E at \in {"check", "read", "ended"} :
                     stream' = [stream EXCEPT ![c].at = at] /\ UNCHANGED <<wire, device>>
      PROVE  MirrorBounded'
  <2>1. CASE UNCHANGED <<stream, wire, device>>
    BY <2>1 DEF MirrorBounded, Bounded
  <2>2. CASE UNCHANGED <<wire, device>> /\ \E c \in Mirror!Conns :
               \E at \in {"check", "read", "ended"} : stream' = [stream EXCEPT ![c].at = at]
    <3>1. PICK c \in Mirror!Conns, at \in {"check", "read", "ended"} :
            stream' = [stream EXCEPT ![c].at = at]
      BY <2>2
    <3>2. \A b \in Mirror!Conns :
            stream'[b].sps_pps = stream[b].sps_pps /\ stream'[b].time = stream[b].time
      BY <3>1 DEF MirrorInv, MirrorTypes, Handler
    <3> QED
      BY <2>2, <3>2 DEF MirrorBounded, Bounded
  <2> QED
    BY <1>1, <2>1, <2>2
<1>2. ASSUME Mirror!SetupKey \/ Mirror!SetupStream  PROVE MirrorBounded'
  BY <1>1, <1>2 DEF Mirror!SetupKey, Mirror!SetupStream
<1>3. CASE Mirror!Connect
  <2>1. setup \in Mirror!Conns
    BY <1>3, MediaAssumption DEF Mirror!Connect, MirrorInv, MirrorTypes, Mirror!Conns
  <2> QED
    BY <1>1, <1>3, <2>1 DEF Mirror!Connect
<1>4. ASSUME NEW c \in Mirror!Conns, Mirror!Check(c) \/ Mirror!Ends(c)
      PROVE  MirrorBounded'
  BY <1>1, <1>4 DEF Mirror!Check, Mirror!Ends
<1>5. ASSUME NEW c \in Mirror!Conns, Mirror!SendParams(c)  PROVE MirrorBounded'
  <2> DEFINE d == device[c]
  <2>1. d \in Device
    BY DEF MirrorInv, MirrorTypes
  <2>2. PICK pause \in BOOLEAN :
          Mirror!Put(c, [kind |-> "params", time |-> d.clock + 1, params |-> d.params + 1,
                         pause |-> pause],
                     [d EXCEPT !.clock = @ + 1, !.params = @ + 1, !.due = TRUE,
                               !.paused = @ \/ pause])
    BY <1>5 DEF Mirror!SendParams
  <2> DEFINE p == [kind |-> "params", time |-> d.clock + 1, params |-> d.params + 1,
                   pause |-> pause]
             e == Announcing(d, pause)
  <2>3. p \in Packet /\ p.time = d.clock + 1 /\ p.params = d.params + 1
    BY <2>1 DEF Packet, Device
  <2>4. /\ e \in Device /\ e.sent = d.sent
        /\ e.clock = d.clock + 1 /\ e.params = d.params + 1
    BY <2>1, DeviceAnnounces
  <2>5. Mirror!Put(c, p, e)
    BY <2>2 DEF Announcing
  <2>6. /\ d.clock \in Nat /\ d.params \in Nat /\ d.sent \in Nat
        /\ d.clock <= d.sent /\ d.params <= d.sent
    BY <2>1 DEF Device, MirrorBounded, Bounded
  <2> HIDE DEF p, e
  <2> QED
    BY <2>3, <2>4, <2>5, <2>6, BoundedPut
<1>6. ASSUME NEW c \in Mirror!Conns, Mirror!SendVideo(c)  PROVE MirrorBounded'
  <2> DEFINE d == device[c]
  <2>1. d \in Device
    BY DEF MirrorInv, MirrorTypes
  <2>2. PICK time \in {d.clock, d.clock + 1} :
          Mirror!Put(c, [kind |-> "video", time |-> time, params |-> d.params, pos |-> d.pos,
                         due |-> d.due /\ time = d.clock],
                     [d EXCEPT !.clock = time, !.pos = @ + 1, !.due = FALSE,
                               !.paused = FALSE])
    BY <1>6 DEF Mirror!SendVideo
  <2> DEFINE p == [kind |-> "video", time |-> time, params |-> d.params, pos |-> d.pos,
                   due |-> d.due /\ time = d.clock]
             e == Showing(d, time)
  <2>3. time \in Nat /\ time <= d.clock + 1
    BY <2>1 DEF Device
  <2>4. p \in Packet /\ p.kind # "params"
    <3>1. p \in [kind : {"video"}, time : Nat, params : Nat, pos : Nat, due : BOOLEAN]
      BY <2>1, <2>3 DEF Device
    <3> QED
      BY <3>1 DEF Packet
  <2>5. e \in Device /\ e.sent = d.sent /\ e.clock = time /\ e.params = d.params
    BY <2>1, <2>3, DeviceShows
  <2>6. Mirror!Put(c, p, e)
    BY <2>2 DEF Showing
  <2>7. /\ d.clock \in Nat /\ d.params \in Nat /\ d.sent \in Nat
        /\ d.clock <= d.sent /\ d.params <= d.sent
    BY <2>1 DEF Device, MirrorBounded, Bounded
  <2> HIDE DEF p, e
  <2> QED
    BY <2>3, <2>4, <2>5, <2>6, <2>7, BoundedPut
<1>7. ASSUME NEW c \in Mirror!Conns, Mirror!SendOther(c)  PROVE MirrorBounded'
  <2> DEFINE p == [kind |-> "other"]
  <2>1. p \in Packet /\ p.kind # "params" /\ device[c] \in Device
    BY DEF Packet, MirrorInv, MirrorTypes
  <2>2. Mirror!Put(c, p, device[c])
    BY <1>7 DEF Mirror!SendOther
  <2>3. /\ device[c].clock \in Nat /\ device[c].params \in Nat /\ device[c].sent \in Nat
        /\ device[c].clock <= device[c].sent /\ device[c].params <= device[c].sent
    BY <2>1 DEF Device, MirrorBounded, Bounded
  <2> HIDE DEF p
  <2> QED
    BY <2>1, <2>2, <2>3, BoundedPut
<1>8. ASSUME NEW c \in Mirror!Conns, NEW kind, Mirror!Reads(c, kind),
             NEW t, stream' = [stream EXCEPT ![c] = t],
             t.sps_pps <= MaxPackets, t.time <= MaxPackets
      PROVE  MirrorBounded'
  <2>1. t \in Handler
    BY <1>8 DEF MirrorInv, MirrorTypes
  <2> QED
    BY <1>8, <2>1, BoundedRead
<1>9. ASSUME NEW c \in Mirror!Conns, Mirror!ReadParams(c)  PROVE MirrorBounded'
  <2> DEFINE p == Head(wire[c])
             t == [sps_pps |-> p.params, prepend |-> TRUE, time |-> p.time, at |-> "check"]
  <2>1. Mirror!Reads(c, "params") /\ stream' = [stream EXCEPT ![c] = t]
    BY <1>9 DEF Mirror!ReadParams
  <2>2. wire[c] # <<>> /\ wire[c] \in Seq(Packet) /\ p.kind = "params"
    BY <2>1, MirrorReads
  <2>3. p = wire[c][1] /\ 1 \in 1..Len(wire[c])
    BY <2>2, Taken
  <2>4. p.params <= MaxPackets /\ p.time <= MaxPackets
    BY <2>2, <2>3 DEF MirrorBounded, Bounded
  <2>5. t.sps_pps = p.params /\ t.time = p.time
    OBVIOUS
  <2> HIDE DEF p, t
  <2> QED
    BY <1>8, <2>1, <2>4, <2>5
<1>10. ASSUME NEW c \in Mirror!Conns, Mirror!ReadVideo(c)  PROVE MirrorBounded'
  <2> DEFINE prefix == Mirror!Prefix(stream[c], Head(wire[c]))
             used == [stream[c] EXCEPT !.prepend = FALSE, !.at = "check"]
  <2>1. PICK n \in {0, prefix} : stream' = [stream EXCEPT ![c] = [used EXCEPT !.sps_pps = n]]
    BY <1>10 DEF Mirror!ReadVideo
  <2>2. Mirror!Reads(c, "video")
    BY <1>10 DEF Mirror!ReadVideo
  <2>3. stream[c] \in Handler /\ stream[c].sps_pps <= MaxPackets /\ stream[c].time <= MaxPackets
    BY DEF MirrorInv, MirrorTypes, MirrorBounded, Bounded
  <2>4. n <= MaxPackets
    BY <2>3, MediaAssumption DEF Mirror!Prefix
  <2>5. /\ [used EXCEPT !.sps_pps = n].sps_pps = n
        /\ [used EXCEPT !.sps_pps = n].time = stream[c].time
    BY <2>3 DEF Handler
  <2> HIDE DEF prefix, used
  <2> QED
    BY <1>8, <2>1, <2>2, <2>3, <2>4, <2>5
<1>11. ASSUME NEW c \in Mirror!Conns, Mirror!ReadOther(c)  PROVE MirrorBounded'
  <2> DEFINE t == [stream[c] EXCEPT !.at = "check"]
  <2>1. Mirror!Reads(c, "other") /\ stream' = [stream EXCEPT ![c] = t]
    BY <1>11 DEF Mirror!ReadOther
  <2>2. t.sps_pps <= MaxPackets /\ t.time <= MaxPackets
    BY DEF MirrorInv, MirrorTypes, Handler, MirrorBounded, Bounded
  <2> HIDE DEF t
  <2> QED
    BY <1>8, <2>1, <2>2
<1> QED
  BY <1>2, <1>3, <1>4, <1>5, <1>6, <1>7, <1>9, <1>10, <1>11 DEF Mirror!Next,
     Mirror!Bail

\* With the bounds, the types are those of MirrorStream.
LEMMA MirrorTyped ==
    ASSUME MirrorInv, MirrorBounded
    PROVE  Mirror!TypeOK
<1>1. ASSUME NEW c \in Mirror!Conns
      PROVE  stream[c] \in [sps_pps : 0..MaxPackets, prepend : BOOLEAN, time : 0..MaxPackets,
                            at : {"none", "check", "read", "ended"}]
  <2>1. /\ stream[c] \in Handler
        /\ stream[c].sps_pps <= MaxPackets /\ stream[c].time <= MaxPackets
    BY DEF MirrorInv, MirrorTypes, MirrorBounded, Bounded
  <2>2. stream[c].sps_pps \in 0..MaxPackets /\ stream[c].time \in 0..MaxPackets
    BY <2>1, MediaAssumption DEF Handler
  <2> QED
    BY <2>1, <2>2 DEF Handler
<1> QED
  BY <1>1 DEF Mirror!TypeOK, MirrorInv, MirrorTypes, MirrorSource

-----------------------------------------------------------------------------
(* The commands of adb.                                                    *)

\* The handles a call has at each of its steps.
HeldAt(s) ==
    (IF s \in {"keep input", "second pipe", "keep output", "create"} THEN {"in_r"} ELSE {})
    \cup (IF s \in {"keep input", "second pipe", "keep output", "create", "write"}
          THEN {"in_w"} ELSE {})
    \cup (IF s \in {"keep output", "create", "write", "read"} THEN {"out_r"} ELSE {})
    \cup (IF s \in {"keep output", "create"} THEN {"out_w"} ELSE {})
    \cup (IF s \in {"write", "read", "wait"} THEN {"process"} ELSE {})

\* They are:
LEMMA HandlesHeld ==
    /\ HeldAt("idle") = {}
    /\ HeldAt("return") = {}
    /\ HeldAt("returned") = {}
    /\ HeldAt("keep input") = {"in_r", "in_w"}
    /\ HeldAt("second pipe") = {"in_r", "in_w"}
    /\ HeldAt("keep output") = {"in_r", "in_w", "out_r", "out_w"}
    /\ HeldAt("create") = {"in_r", "in_w", "out_r", "out_w"}
    /\ HeldAt("write") = {"in_w", "out_r", "process"}
    /\ HeldAt("read") = {"out_r", "process"}
    /\ HeldAt("wait") = {"process"}
<1>1. HeldAt("idle") = {}
  BY DEF HeldAt
<1>2. HeldAt("return") = {}
  BY DEF HeldAt
<1>3. HeldAt("returned") = {}
  BY DEF HeldAt
<1>4. HeldAt("keep input") = {"in_r", "in_w"}
  BY DEF HeldAt
<1>5. HeldAt("second pipe") = {"in_r", "in_w"}
  BY DEF HeldAt
<1>6. HeldAt("keep output") = {"in_r", "in_w", "out_r", "out_w"}
  BY DEF HeldAt
<1>7. HeldAt("create") = {"in_r", "in_w", "out_r", "out_w"}
  BY DEF HeldAt
<1>8. HeldAt("write") = {"in_w", "out_r", "process"}
  BY DEF HeldAt
<1>9. HeldAt("read") = {"out_r", "process"}
  BY DEF HeldAt
<1>10. HeldAt("wait") = {"process"}
  BY DEF HeldAt
<1> QED
  BY <1>1, <1>2, <1>3, <1>4, <1>5, <1>6, <1>7, <1>8, <1>9, <1>10

\* A process is started by "create" and has ended before "return", unless there was
\* none; only one that runs holds anything.
CallHolds(c) == handles[c] = HeldAt(step[c])
CallRuns(c) ==
    /\ process[c] # "none" => step[c] \in {"write", "read", "wait", "return", "returned"}
    /\ step[c] \in {"return", "returned"} =>
         process[c] = "exited" \/ (process[c] = "none" /\ code[c] = -1)
    /\ process[c] # "running" => inherited[c] = {}
CallTold(c) ==
    told[c] # {} => step[c] = "returned" /\ code[c] = 0 /\ told[c] \subseteq printed[c]

AdbTyped ==
    /\ Adb!TypeOK
    /\ DOMAIN handles = Calls /\ DOMAIN inherited = Calls
    /\ DOMAIN told = Calls /\ DOMAIN printed = Calls

AdbInv ==
    /\ AdbTyped
    /\ \A c \in Calls : CallHolds(c) /\ CallRuns(c) /\ CallTold(c)

\* No call has begun.
LEMMA AdbBegins ==
    ASSUME Adb!Init
    PROVE  AdbInv
<1>1. AdbTyped
  BY DEF AdbTyped, Adb!Init, Adb!TypeOK
<1>2. \A c \in Calls : CallHolds(c) /\ CallRuns(c) /\ CallTold(c)
  BY HandlesHeld DEF CallHolds, CallRuns, CallTold, Adb!Init
<1> QED
  BY <1>1, <1>2 DEF AdbInv

\* A step of one call or of its process leaves the others as they are.
LEMMA AdbOne ==
    ASSUME AdbInv, NEW c \in Calls, AdbTyped', CallHolds(c)', CallRuns(c)', CallTold(c)',
           \A b \in Calls \ {c} :
               /\ step'[b] = step[b] /\ handles'[b] = handles[b] /\ process'[b] = process[b]
               /\ inherited'[b] = inherited[b] /\ printed'[b] = printed[b]
               /\ code'[b] = code[b] /\ told'[b] = told[b]
    PROVE  AdbInv'
<1>1. \A b \in Calls \ {c} : CallHolds(b)'
  BY DEF AdbInv, CallHolds
<1>2. \A b \in Calls \ {c} : CallRuns(b)'
  BY DEF AdbInv, CallRuns
<1>3. \A b \in Calls \ {c} : CallTold(b)'
  BY DEF AdbInv, CallTold
<1> QED
  BY <1>1, <1>2, <1>3 DEF AdbInv

Steps == {"idle", "keep input", "second pipe", "keep output", "create",
          "write", "read", "wait", "return", "returned"}

\* A call goes on.
LEMMA AdbGoes ==
    ASSUME AdbInv, NEW c \in Calls, NEW from, NEW to \in Steps, NEW h,
           Adb!Goes(c, from, to, h)
    PROVE  /\ step[c] = from /\ step'[c] = to /\ handles[c] = HeldAt(from) /\ handles'[c] = h
           /\ step' \in [Calls -> Steps] /\ DOMAIN handles' = Calls /\ command' = command
           /\ \A b \in Calls \ {c} : step'[b] = step[b] /\ handles'[b] = handles[b]
  BY DEF AdbInv, AdbTyped, CallHolds, Adb!TypeOK, Adb!Goes, Steps

\* The first pipe is made.
LEMMA AdbFirstPipe ==
    ASSUME AdbInv, NEW c \in Calls, Adb!FirstPipe(c)
    PROVE  AdbInv'
<1>1. /\ Adb!Goes(c, "idle", "keep input", {"in_r", "in_w"})
      /\ UNCHANGED <<process, inherited, printed, code, told>>
  BY DEF Adb!FirstPipe
<1>2. "keep input" \in Steps
  BY DEF Steps
<1>3. /\ step[c] = "idle" /\ step'[c] = "keep input"
      /\ handles[c] = HeldAt("idle") /\ handles'[c] = {"in_r", "in_w"}
      /\ step' \in [Calls -> Steps] /\ DOMAIN handles' = Calls /\ command' = command
      /\ \A b \in Calls \ {c} : step'[b] = step[b] /\ handles'[b] = handles[b]
  BY <1>1, <1>2, AdbGoes
<1>4. AdbTyped'
  BY <1>1, <1>3 DEF AdbInv, AdbTyped, Adb!TypeOK, Steps
<1>5. CallHolds(c)'
  <2>1. handles[c] = {}
    BY <1>3, HandlesHeld
  <2>2. handles'[c] = {"in_r", "in_w"}
    BY <1>3, <2>1
  <2> QED
    BY <1>3, <2>2, HandlesHeld DEF CallHolds
<1>6. CallRuns(c) /\ CallTold(c)
  BY DEF AdbInv
<1>7. CallRuns(c)'
  BY <1>1, <1>3, <1>6 DEF CallRuns
<1>8. CallTold(c)'
  BY <1>1, <1>3, <1>6 DEF CallTold
<1>9. \A b \in Calls \ {c} :
        /\ process'[b] = process[b] /\ inherited'[b] = inherited[b]
        /\ printed'[b] = printed[b] /\ code'[b] = code[b] /\ told'[b] = told[b]
  BY <1>1 DEF AdbInv, AdbTyped, Adb!TypeOK
<1> QED
  BY <1>3, <1>4, <1>5, <1>7, <1>8, <1>9, AdbOne

\* The second pipe is made.
LEMMA AdbSecondPipe ==
    ASSUME AdbInv, NEW c \in Calls, Adb!SecondPipe(c)
    PROVE  AdbInv'
<1>1. /\ Adb!Goes(c, "second pipe", "keep output", handles[c] \cup {"out_r", "out_w"})
      /\ UNCHANGED <<process, inherited, printed, code, told>>
  BY DEF Adb!SecondPipe
<1>2. "keep output" \in Steps
  BY DEF Steps
<1>3. /\ step[c] = "second pipe" /\ step'[c] = "keep output"
      /\ handles[c] = HeldAt("second pipe") /\ handles'[c] = handles[c] \cup {"out_r", "out_w"}
      /\ step' \in [Calls -> Steps] /\ DOMAIN handles' = Calls /\ command' = command
      /\ \A b \in Calls \ {c} : step'[b] = step[b] /\ handles'[b] = handles[b]
  BY <1>1, <1>2, AdbGoes
<1>4. AdbTyped'
  BY <1>1, <1>3 DEF AdbInv, AdbTyped, Adb!TypeOK, Steps
<1>5. CallHolds(c)'
  <2>1. handles[c] = {"in_r", "in_w"}
    BY <1>3, HandlesHeld
  <2>2. handles'[c] = {"in_r", "in_w", "out_r", "out_w"}
    BY <1>3, <2>1
  <2> QED
    BY <1>3, <2>2, HandlesHeld DEF CallHolds
<1>6. CallRuns(c) /\ CallTold(c)
  BY DEF AdbInv
<1>7. CallRuns(c)'
  BY <1>1, <1>3, <1>6 DEF CallRuns
<1>8. CallTold(c)'
  BY <1>1, <1>3, <1>6 DEF CallTold
<1>9. \A b \in Calls \ {c} :
        /\ process'[b] = process[b] /\ inherited'[b] = inherited[b]
        /\ printed'[b] = printed[b] /\ code'[b] = code[b] /\ told'[b] = told[b]
  BY <1>1 DEF AdbInv, AdbTyped, Adb!TypeOK
<1> QED
  BY <1>3, <1>4, <1>5, <1>7, <1>8, <1>9, AdbOne

\* An end is kept from being inherited: of the first pipe,
LEMMA AdbKeepInput ==
    ASSUME AdbInv, NEW c \in Calls, Adb!Keep(c), step[c] = "keep input"
    PROVE  AdbInv'
<1>1. /\ Adb!Goes(c, "keep input", "second pipe", handles[c])
      /\ UNCHANGED <<process, inherited, printed, code, told>>
  BY DEF Adb!Keep, Adb!Goes
<1>2. "second pipe" \in Steps
  BY DEF Steps
<1>3. /\ step[c] = "keep input" /\ step'[c] = "second pipe"
      /\ handles[c] = HeldAt("keep input") /\ handles'[c] = handles[c]
      /\ step' \in [Calls -> Steps] /\ DOMAIN handles' = Calls /\ command' = command
      /\ \A b \in Calls \ {c} : step'[b] = step[b] /\ handles'[b] = handles[b]
  BY <1>1, <1>2, AdbGoes
<1>4. AdbTyped'
  BY <1>1, <1>3 DEF AdbInv, AdbTyped, Adb!TypeOK, Steps
<1>5. CallHolds(c)'
  <2>1. handles[c] = {"in_r", "in_w"}
    BY <1>3, HandlesHeld
  <2>2. handles'[c] = {"in_r", "in_w"}
    BY <1>3, <2>1
  <2> QED
    BY <1>3, <2>2, HandlesHeld DEF CallHolds
<1>6. CallRuns(c) /\ CallTold(c)
  BY DEF AdbInv
<1>7. CallRuns(c)'
  BY <1>1, <1>3, <1>6 DEF CallRuns
<1>8. CallTold(c)'
  BY <1>1, <1>3, <1>6 DEF CallTold
<1>9. \A b \in Calls \ {c} :
        /\ process'[b] = process[b] /\ inherited'[b] = inherited[b]
        /\ printed'[b] = printed[b] /\ code'[b] = code[b] /\ told'[b] = told[b]
  BY <1>1 DEF AdbInv, AdbTyped, Adb!TypeOK
<1> QED
  BY <1>3, <1>4, <1>5, <1>7, <1>8, <1>9, AdbOne

\* or of the second.
LEMMA AdbKeepOutput ==
    ASSUME AdbInv, NEW c \in Calls, Adb!Keep(c), step[c] = "keep output"
    PROVE  AdbInv'
<1>1. /\ Adb!Goes(c, "keep output", "create", handles[c])
      /\ UNCHANGED <<process, inherited, printed, code, told>>
  BY DEF Adb!Keep, Adb!Goes
<1>2. "create" \in Steps
  BY DEF Steps
<1>3. /\ step[c] = "keep output" /\ step'[c] = "create"
      /\ handles[c] = HeldAt("keep output") /\ handles'[c] = handles[c]
      /\ step' \in [Calls -> Steps] /\ DOMAIN handles' = Calls /\ command' = command
      /\ \A b \in Calls \ {c} : step'[b] = step[b] /\ handles'[b] = handles[b]
  BY <1>1, <1>2, AdbGoes
<1>4. AdbTyped'
  BY <1>1, <1>3 DEF AdbInv, AdbTyped, Adb!TypeOK, Steps
<1>5. CallHolds(c)'
  <2>1. handles[c] = {"in_r", "in_w", "out_r", "out_w"}
    BY <1>3, HandlesHeld
  <2>2. handles'[c] = {"in_r", "in_w", "out_r", "out_w"}
    BY <1>3, <2>1
  <2> QED
    BY <1>3, <2>2, HandlesHeld DEF CallHolds
<1>6. CallRuns(c) /\ CallTold(c)
  BY DEF AdbInv
<1>7. CallRuns(c)'
  BY <1>1, <1>3, <1>6 DEF CallRuns
<1>8. CallTold(c)'
  BY <1>1, <1>3, <1>6 DEF CallTold
<1>9. \A b \in Calls \ {c} :
        /\ process'[b] = process[b] /\ inherited'[b] = inherited[b]
        /\ printed'[b] = printed[b] /\ code'[b] = code[b] /\ told'[b] = told[b]
  BY <1>1 DEF AdbInv, AdbTyped, Adb!TypeOK
<1> QED
  BY <1>3, <1>4, <1>5, <1>7, <1>8, <1>9, AdbOne

\* The process is started.
LEMMA AdbCreateProcess ==
    ASSUME AdbInv, NEW c \in Calls, Adb!CreateProcess(c)
    PROVE  AdbInv'
<1>1. /\ Adb!Goes(c, "create", "write", Adb!AfterCreate(c))
      /\ process' = [process EXCEPT ![c] = "running"]
      /\ inherited' = [inherited EXCEPT ![c] = Adb!Inheritable]
      /\ UNCHANGED <<printed, code, told>>
  BY DEF Adb!CreateProcess
<1>2. "write" \in Steps
  BY DEF Steps
<1>3. /\ step[c] = "create" /\ step'[c] = "write"
      /\ handles[c] = HeldAt("create") /\ handles'[c] = Adb!AfterCreate(c)
      /\ step' \in [Calls -> Steps] /\ DOMAIN handles' = Calls /\ command' = command
      /\ \A b \in Calls \ {c} : step'[b] = step[b] /\ handles'[b] = handles[b]
  BY <1>1, <1>2, AdbGoes
<1>4. AdbTyped'
  BY <1>1, <1>3 DEF AdbInv, AdbTyped, Adb!TypeOK, Steps
<1>5. CallHolds(c)'
  <2>1. handles[c] = {"in_r", "in_w", "out_r", "out_w"}
    BY <1>3, HandlesHeld
  <2>2. handles'[c] = {"in_w", "out_r", "process"}
    BY <1>3, <2>1 DEF Adb!AfterCreate
  <2> QED
    BY <1>3, <2>2, HandlesHeld DEF CallHolds
<1>6. CallRuns(c) /\ CallTold(c)
  BY DEF AdbInv
<1>7. process'[c] = "running"
  BY <1>1 DEF AdbInv, AdbTyped, Adb!TypeOK
<1>8. CallRuns(c)'
  BY <1>1, <1>3, <1>6, <1>7 DEF CallRuns
<1>9. CallTold(c)'
  BY <1>1, <1>3, <1>6 DEF CallTold
<1>10. \A b \in Calls \ {c} :
        /\ process'[b] = process[b] /\ inherited'[b] = inherited[b]
        /\ printed'[b] = printed[b] /\ code'[b] = code[b] /\ told'[b] = told[b]
  BY <1>1 DEF AdbInv, AdbTyped, Adb!TypeOK
<1> QED
  BY <1>3, <1>4, <1>5, <1>8, <1>9, <1>10, AdbOne

\* Its input is written.
LEMMA AdbWriteInput ==
    ASSUME AdbInv, NEW c \in Calls, Adb!WriteInput(c)
    PROVE  AdbInv'
<1>1. /\ Adb!Goes(c, "write", "read", handles[c] \ {"in_w"})
      /\ UNCHANGED <<process, inherited, printed, code, told>>
  BY DEF Adb!WriteInput
<1>2. "read" \in Steps
  BY DEF Steps
<1>3. /\ step[c] = "write" /\ step'[c] = "read"
      /\ handles[c] = HeldAt("write") /\ handles'[c] = handles[c] \ {"in_w"}
      /\ step' \in [Calls -> Steps] /\ DOMAIN handles' = Calls /\ command' = command
      /\ \A b \in Calls \ {c} : step'[b] = step[b] /\ handles'[b] = handles[b]
  BY <1>1, <1>2, AdbGoes
<1>4. AdbTyped'
  BY <1>1, <1>3 DEF AdbInv, AdbTyped, Adb!TypeOK, Steps
<1>5. CallHolds(c)'
  <2>1. handles[c] = {"in_w", "out_r", "process"}
    BY <1>3, HandlesHeld
  <2>2. handles'[c] = {"out_r", "process"}
    BY <1>3, <2>1
  <2> QED
    BY <1>3, <2>2, HandlesHeld DEF CallHolds
<1>6. CallRuns(c) /\ CallTold(c)
  BY DEF AdbInv
<1>7. CallRuns(c)'
  BY <1>1, <1>3, <1>6 DEF CallRuns
<1>8. CallTold(c)'
  BY <1>1, <1>3, <1>6 DEF CallTold
<1>9. \A b \in Calls \ {c} :
        /\ process'[b] = process[b] /\ inherited'[b] = inherited[b]
        /\ printed'[b] = printed[b] /\ code'[b] = code[b] /\ told'[b] = told[b]
  BY <1>1 DEF AdbInv, AdbTyped, Adb!TypeOK
<1> QED
  BY <1>3, <1>4, <1>5, <1>7, <1>8, <1>9, AdbOne

\* Its output is read.
LEMMA AdbReadEnds ==
    ASSUME AdbInv, NEW c \in Calls, Adb!ReadEnds(c)
    PROVE  AdbInv'
<1>1. /\ Adb!Goes(c, "read", "wait", handles[c] \ {"out_r"})
      /\ UNCHANGED <<process, inherited, printed, code, told>>
  BY DEF Adb!ReadEnds
<1>2. "wait" \in Steps
  BY DEF Steps
<1>3. /\ step[c] = "read" /\ step'[c] = "wait"
      /\ handles[c] = HeldAt("read") /\ handles'[c] = handles[c] \ {"out_r"}
      /\ step' \in [Calls -> Steps] /\ DOMAIN handles' = Calls /\ command' = command
      /\ \A b \in Calls \ {c} : step'[b] = step[b] /\ handles'[b] = handles[b]
  BY <1>1, <1>2, AdbGoes
<1>4. AdbTyped'
  BY <1>1, <1>3 DEF AdbInv, AdbTyped, Adb!TypeOK, Steps
<1>5. CallHolds(c)'
  <2>1. handles[c] = {"out_r", "process"}
    BY <1>3, HandlesHeld
  <2>2. handles'[c] = {"process"}
    BY <1>3, <2>1
  <2> QED
    BY <1>3, <2>2, HandlesHeld DEF CallHolds
<1>6. CallRuns(c) /\ CallTold(c)
  BY DEF AdbInv
<1>7. CallRuns(c)'
  BY <1>1, <1>3, <1>6 DEF CallRuns
<1>8. CallTold(c)'
  BY <1>1, <1>3, <1>6 DEF CallTold
<1>9. \A b \in Calls \ {c} :
        /\ process'[b] = process[b] /\ inherited'[b] = inherited[b]
        /\ printed'[b] = printed[b] /\ code'[b] = code[b] /\ told'[b] = told[b]
  BY <1>1 DEF AdbInv, AdbTyped, Adb!TypeOK
<1> QED
  BY <1>3, <1>4, <1>5, <1>7, <1>8, <1>9, AdbOne

\* The call returns.
LEMMA AdbReturn ==
    ASSUME AdbInv, NEW c \in Calls, Adb!Return(c)
    PROVE  AdbInv'
<1>1. /\ Adb!Goes(c, "return", "returned", handles[c])
      /\ told' = [told EXCEPT ![c] = Adb!Found(c)]
      /\ UNCHANGED <<process, inherited, printed, code>>
  BY DEF Adb!Return
<1>2. "returned" \in Steps
  BY DEF Steps
<1>3. /\ step[c] = "return" /\ step'[c] = "returned"
      /\ handles[c] = HeldAt("return") /\ handles'[c] = handles[c]
      /\ step' \in [Calls -> Steps] /\ DOMAIN handles' = Calls /\ command' = command
      /\ \A b \in Calls \ {c} : step'[b] = step[b] /\ handles'[b] = handles[b]
  BY <1>1, <1>2, AdbGoes
<1>4. AdbTyped'
  BY <1>1, <1>3 DEF AdbInv, AdbTyped, Adb!TypeOK, Steps
<1>5. CallHolds(c)'
  <2>1. handles[c] = {}
    BY <1>3, HandlesHeld
  <2>2. handles'[c] = {}
    BY <1>3, <2>1
  <2> QED
    BY <1>3, <2>2, HandlesHeld DEF CallHolds
<1>6. CallRuns(c) /\ CallTold(c)
  BY DEF AdbInv
<1>7. CallRuns(c)'
  BY <1>1, <1>3, <1>6 DEF CallRuns
<1>8. told'[c] = Adb!Found(c)
  BY <1>1 DEF AdbInv, AdbTyped
<1>9. CallTold(c)'
  BY <1>1, <1>3, <1>8 DEF CallTold, Adb!Found
<1>10. \A b \in Calls \ {c} :
        /\ process'[b] = process[b] /\ inherited'[b] = inherited[b]
        /\ printed'[b] = printed[b] /\ code'[b] = code[b] /\ told'[b] = told[b]
  BY <1>1 DEF AdbInv, AdbTyped, Adb!TypeOK
<1> QED
  BY <1>3, <1>4, <1>5, <1>7, <1>9, <1>10, AdbOne

\* The process closes its output.
LEMMA AdbClosesOutput ==
    ASSUME AdbInv, NEW c \in Calls, Adb!ClosesOutput(c)
    PROVE  AdbInv'
<1>1. /\ process[c] = "running"
      /\ inherited' = [inherited EXCEPT ![c] = @ \ {<<c, "out_w">>}]
      /\ UNCHANGED <<process, printed, code, told>>
      /\ UNCHANGED <<command, step, handles>>
  BY DEF Adb!ClosesOutput
<1>2. /\ step' \in [Calls -> Steps] /\ DOMAIN handles' = Calls /\ command' = command
      /\ step' = step /\ handles' = handles
  BY <1>1 DEF AdbInv, AdbTyped, Adb!TypeOK, Steps
<1>3. AdbTyped'
  BY <1>1, <1>2 DEF AdbInv, AdbTyped, Adb!TypeOK, Steps
<1>4. CallHolds(c)'
  BY <1>2 DEF AdbInv, CallHolds
<1>5. CallRuns(c) /\ CallTold(c)
  BY DEF AdbInv
<1>6. CallRuns(c)'
  BY <1>1, <1>2, <1>5 DEF CallRuns
<1>7. CallTold(c)'
  BY <1>1, <1>2, <1>5 DEF CallTold
<1>8. \A b \in Calls \ {c} :
        /\ process'[b] = process[b] /\ inherited'[b] = inherited[b]
        /\ printed'[b] = printed[b] /\ code'[b] = code[b] /\ told'[b] = told[b]
  BY <1>1 DEF AdbInv, AdbTyped, Adb!TypeOK
<1> QED
  BY <1>2, <1>3, <1>4, <1>6, <1>7, <1>8, AdbOne

\* It prints.
LEMMA AdbPrints ==
    ASSUME AdbInv, NEW c \in Calls, NEW w, Adb!Prints(c, w)
    PROVE  AdbInv'
<1>1. /\ process[c] = "running"
      /\ printed' = [printed EXCEPT ![c] = {w}]
      /\ UNCHANGED <<process, inherited, code, told>>
      /\ UNCHANGED <<command, step, handles>>
  BY DEF Adb!Prints
<1>2. /\ step' \in [Calls -> Steps] /\ DOMAIN handles' = Calls /\ command' = command
      /\ step' = step /\ handles' = handles
  BY <1>1 DEF AdbInv, AdbTyped, Adb!TypeOK, Steps
<1>3. AdbTyped'
  BY <1>1, <1>2 DEF AdbInv, AdbTyped, Adb!TypeOK, Steps
<1>4. CallHolds(c)'
  BY <1>2 DEF AdbInv, CallHolds
<1>5. CallRuns(c) /\ CallTold(c)
  BY DEF AdbInv
<1>6. CallRuns(c)'
  BY <1>1, <1>2, <1>5 DEF CallRuns
<1>7. CallTold(c)'
  BY <1>1, <1>2, <1>5 DEF CallTold, CallRuns
<1>8. \A b \in Calls \ {c} :
        /\ process'[b] = process[b] /\ inherited'[b] = inherited[b]
        /\ printed'[b] = printed[b] /\ code'[b] = code[b] /\ told'[b] = told[b]
  BY <1>1 DEF AdbInv, AdbTyped, Adb!TypeOK
<1> QED
  BY <1>2, <1>3, <1>4, <1>6, <1>7, <1>8, AdbOne

\* A pipe or the process cannot be made.
LEMMA AdbSpawnFails ==
    ASSUME AdbInv, NEW c \in Calls, Adb!SpawnFails(c)
    PROVE  AdbInv'
<1>1. PICK from \in {"idle", "second pipe", "create"} : Adb!Goes(c, from, "return", {})
  BY DEF Adb!SpawnFails
<1>2. /\ code' = [code EXCEPT ![c] = -1]
      /\ UNCHANGED <<process, inherited, printed, told>>
  BY DEF Adb!SpawnFails
<1>3. /\ step[c] = from /\ step'[c] = "return" /\ handles'[c] = {}
      /\ step' \in [Calls -> Steps] /\ DOMAIN handles' = Calls /\ command' = command
      /\ \A b \in Calls \ {c} : step'[b] = step[b] /\ handles'[b] = handles[b]
  BY <1>1, AdbGoes DEF Steps
<1>4. /\ code' \in [Calls -> {-1, 0, 1}] /\ code'[c] = -1
      /\ \A b \in Calls \ {c} : code'[b] = code[b]
  BY <1>2 DEF AdbInv, AdbTyped, Adb!TypeOK
<1>5. AdbTyped'
  BY <1>2, <1>3, <1>4 DEF AdbInv, AdbTyped, Adb!TypeOK, Steps
<1>6. CallHolds(c)'
  BY <1>3, HandlesHeld DEF CallHolds
<1>7. CallRuns(c)'
  <2>1. process[c] = "none" /\ inherited[c] = {}
    BY <1>1, <1>3 DEF AdbInv, CallRuns
  <2> QED
    BY <1>2, <1>3, <1>4, <2>1 DEF CallRuns
<1>8. CallTold(c)'
  <2>1. told[c] = {}
    BY <1>1, <1>3 DEF AdbInv, CallTold
  <2> QED
    BY <1>2, <2>1 DEF CallTold
<1> QED
  BY <1>2, <1>3, <1>4, <1>5, <1>6, <1>7, <1>8, AdbOne

\* The process has ended, or is killed.
LEMMA AdbWait ==
    ASSUME AdbInv, NEW c \in Calls, Adb!Wait(c)
    PROVE  AdbInv'
<1>1. /\ Adb!Goes(c, "wait", "return", handles[c] \ {"process"})
      /\ UNCHANGED <<printed, told>>
      /\ IF process[c] = "exited" THEN UNCHANGED <<process, inherited, code>>
         ELSE /\ process' = [process EXCEPT ![c] = "exited"]
              /\ inherited' = [inherited EXCEPT ![c] = {}]
              /\ code' = [code EXCEPT ![c] = 1]
  BY DEF Adb!Wait
<1>2. /\ step[c] = "wait" /\ step'[c] = "return"
      /\ handles[c] = HeldAt("wait") /\ handles'[c] = handles[c] \ {"process"}
      /\ step' \in [Calls -> Steps] /\ DOMAIN handles' = Calls /\ command' = command
      /\ \A b \in Calls \ {c} : step'[b] = step[b] /\ handles'[b] = handles[b]
  BY <1>1, AdbGoes DEF Steps
<1>3. /\ process' \in [Calls -> {"none", "running", "exited"}]
      /\ code' \in [Calls -> {-1, 0, 1}] /\ DOMAIN inherited' = Calls
      /\ process'[c] = "exited"
      /\ \A b \in Calls \ {c} :
           process'[b] = process[b] /\ inherited'[b] = inherited[b] /\ code'[b] = code[b]
  BY <1>1 DEF AdbInv, AdbTyped, Adb!TypeOK
<1>4. inherited'[c] = {}
  <2>1. CASE process[c] = "exited"
    BY <1>1, <2>1 DEF AdbInv, CallRuns
  <2>2. CASE process[c] # "exited"
    BY <1>1, <2>2 DEF AdbInv, AdbTyped
  <2> QED
    BY <2>1, <2>2
<1>5. AdbTyped'
  BY <1>1, <1>2, <1>3 DEF AdbInv, AdbTyped, Adb!TypeOK, Steps
<1>6. CallHolds(c)'
  <2>1. handles[c] = {"process"}
    BY <1>2, HandlesHeld
  <2>2. handles'[c] = {}
    BY <1>2, <2>1
  <2> QED
    BY <1>2, <2>2, HandlesHeld DEF CallHolds
<1>7. CallRuns(c)'
  BY <1>2, <1>3, <1>4 DEF CallRuns
<1>8. CallTold(c)'
  <2>1. told[c] = {}
    BY <1>2 DEF AdbInv, CallTold
  <2> QED
    BY <1>1, <2>1 DEF CallTold
<1> QED
  BY <1>1, <1>2, <1>3, <1>5, <1>6, <1>7, <1>8, AdbOne

\* The process ends.
LEMMA AdbExits ==
    ASSUME AdbInv, NEW c \in Calls, Adb!Exits(c)
    PROVE  AdbInv'
<1>1. PICK rc \in {0, 1} : code' = [code EXCEPT ![c] = rc]
  BY DEF Adb!Exits
<1>2. /\ process[c] = "running" /\ UNCHANGED <<command, step, handles, printed, told>>
      /\ process' = [process EXCEPT ![c] = "exited"]
      /\ inherited' = [inherited EXCEPT ![c] = {}]
  BY DEF Adb!Exits
<1>3. /\ process' \in [Calls -> {"none", "running", "exited"}]
      /\ code' \in [Calls -> {-1, 0, 1}] /\ DOMAIN inherited' = Calls
      /\ process'[c] = "exited" /\ inherited'[c] = {}
      /\ \A b \in Calls \ {c} :
           process'[b] = process[b] /\ inherited'[b] = inherited[b] /\ code'[b] = code[b]
  BY <1>1, <1>2 DEF AdbInv, AdbTyped, Adb!TypeOK
<1>4. AdbTyped'
  BY <1>2, <1>3 DEF AdbInv, AdbTyped, Adb!TypeOK
<1>5. CallHolds(c)'
  BY <1>2 DEF AdbInv, CallHolds
<1>6. step[c] \in {"write", "read", "wait"}
  BY <1>2 DEF AdbInv, CallRuns
<1>7. CallRuns(c)'
  BY <1>2, <1>3, <1>6 DEF CallRuns
<1>8. CallTold(c)'
  <2>1. told[c] = {}
    BY <1>6 DEF AdbInv, CallTold
  <2> QED
    BY <1>2, <2>1 DEF CallTold
<1> QED
  BY <1>2, <1>3, <1>4, <1>5, <1>7, <1>8, AdbOne

\* Every step of a call or its process.
LEMMA AdbStep ==
    ASSUME AdbInv, Adb!Next
    PROVE  AdbInv'
<1>1. ASSUME NEW c \in Calls, Adb!CallStep(c)  PROVE AdbInv'
  <2>1. CASE Adb!Keep(c)
    <3>1. step[c] \in {"keep input", "keep output"}
      BY <2>1 DEF Adb!Keep, Adb!Goes
    <3> QED
      BY <2>1, <3>1, AdbKeepInput, AdbKeepOutput
  <2> QED
    BY <1>1, <2>1, AdbFirstPipe, AdbSecondPipe, AdbSpawnFails, AdbCreateProcess,
       AdbWriteInput, AdbReadEnds, AdbWait, AdbReturn DEF Adb!CallStep
<1> QED
  BY <1>1, AdbClosesOutput, AdbExits, AdbPrints DEF Adb!Next

\* What follows for the handles, for what is told, and for who waits.
LEMMA AdbServes ==
    ASSUME AdbInv
    PROVE  Adb!HandlesClosed /\ Adb!ToldOfSuccess /\ Adb!NobodyWaits
<1>1. ASSUME NEW c \in Calls, step[c] \in {"return", "returned"}
      PROVE  handles[c] = {}
  BY <1>1, HandlesHeld DEF AdbInv, CallHolds
<1>2. ASSUME NEW c \in Calls, told[c] # {}
      PROVE  process[c] = "exited" /\ code[c] = 0 /\ told[c] \subseteq printed[c]
  <2>1. step[c] = "returned" /\ code[c] = 0 /\ told[c] \subseteq printed[c]
    BY <1>2 DEF AdbInv, CallTold
  <2>2. process[c] = "exited" \/ code[c] = -1
    BY <2>1 DEF AdbInv, CallRuns
  <2> QED
    BY <2>1, <2>2
<1>3. ASSUME \A d \in Calls : process[d] # "running", NEW c \in Calls, step[c] = "read"
      PROVE  ~Adb!CanBeWritten(c)
  <2>1. handles[c] = {"out_r", "process"}
    BY <1>3, HandlesHeld DEF AdbInv, CallHolds
  <2>2. \A d \in Calls : inherited[d] = {}
    BY <1>3 DEF AdbInv, CallRuns
  <2> QED
    BY <2>1, <2>2 DEF Adb!CanBeWritten
<1> QED
  BY <1>1, <1>2, <1>3 DEF Adb!HandlesClosed, Adb!ToldOfSuccess, Adb!NobodyWaits

-----------------------------------------------------------------------------
(* The decoder.                                                            *)

\* A value shifted right, place by place.
LEMMA ShiftedIs ==
    ASSUME NEW v \in Nat, NEW n \in Nat
    PROVE  /\ Decoder!Shifted(v, n) \in [0 .. n -> Nat]
           /\ Decoder!Shifted(v, n)[0] = v
           /\ \A k \in 1 .. n :
                 Decoder!Shifted(v, n)[k] = Decoder!Shifted(v, n)[k - 1] \div 2
<1> DEFINE Halves(f) == f = [k \in 0 .. n |-> IF k = 0 THEN v ELSE f[k - 1] \div 2]
           onto == [p \in (1 .. n) \X Nat |-> p[2] \div 2]
           h == Decoder!Shifted(v, n)
<1>1. onto \in [(1 .. n) \X Nat -> Nat]
  BY DEF onto
<1>2. PICK f \in [0 .. n -> Nat] : Stepwise(f, n, v, onto)
  <2> HIDE DEF onto
  <2> QED
    BY <1>1, StepsExist, Zenon
<1>3. Halves(f)
  <2>1. \A k \in 0 .. n : f[k] = IF k = 0 THEN v ELSE onto[<<k, f[k - 1]>>]
    <3> HIDE DEF onto
    <3> QED
      BY <1>2 DEF Stepwise
  <2>2. ASSUME NEW k \in 0 .. n, k # 0  PROVE onto[<<k, f[k - 1]>>] = f[k - 1] \div 2
    <3>1. k \in 1 .. n /\ k - 1 \in 0 .. n
      BY <2>2
    <3>2. f[k - 1] \in Nat
      BY <3>1
    <3> QED
      BY <3>1, <3>2
  <2>3. f = [k \in 0 .. n |-> f[k]]
    OBVIOUS
  <2> HIDE DEF onto
  <2> QED
    BY <2>1, <2>2, <2>3
<1>4. Halves(h)
  <2>1. h = CHOOSE f_1 : Halves(f_1)
    BY DEF Decoder!Shifted
  <2> HIDE DEF Halves, h
  <2> QED
    BY <1>3, <2>1
<1> HIDE DEF h
<1>5. DOMAIN h = 0 .. n /\ \A k \in 0 .. n : h[k] = IF k = 0 THEN v ELSE h[k - 1] \div 2
  BY <1>4
<1>6. h[0] = v /\ \A k \in 1 .. n : h[k] = h[k - 1] \div 2
  BY <1>5
<1> DEFINE M == {k \in 0 .. n : h[k] \in Nat}
<1>7. 0 \in M
  BY <1>6
<1>8. ASSUME NEW k \in 0 .. n - 1, k \in M  PROVE k + 1 \in M
  <2>1. k + 1 \in 1 .. n /\ k + 1 \in 0 .. n /\ k + 1 - 1 = k
    OBVIOUS
  <2>2. h[k + 1] = h[k] \div 2 /\ h[k] \in Nat
    BY <1>6, <1>8, <2>1
  <2> QED
    BY <2>1, <2>2
<1>9. \A k \in 0 .. n : k \in M
  <2> HIDE DEF M
  <2> QED
    BY <1>7, <1>8, UpToBySteps
<1>10. h = [k \in 0 .. n |-> h[k]]
  BY <1>4
<1> QED
  BY <1>6, <1>9, <1>10 DEF h

\* The number that bits are read as, bit by bit.
LEMMA NumberIs ==
    ASSUME NEW bits \in Seq({0, 1})
    PROVE  \E f \in [0 .. Len(bits) -> Nat] :
              /\ Decoder!Number(bits) = f[Len(bits)] /\ f[0] = 0
              /\ \A k \in 1 .. Len(bits) : f[k] = 2 * f[k - 1] + bits[k]
<1> DEFINE n == Len(bits)
           Reads(f) == f = [k \in 0 .. n |-> IF k = 0 THEN 0 ELSE 2 * f[k - 1] + bits[k]]
           onto == [p \in (1 .. n) \X Nat |-> 2 * p[2] + bits[p[1]]]
           h == CHOOSE f : Reads(f)
<1>1. n \in Nat /\ \A k \in 1 .. n : bits[k] \in Nat
  OBVIOUS
<1>2. Decoder!Number(bits) = h[n]
  BY DEF Decoder!Number
<1> HIDE DEF n
<1>3. onto \in [(1 .. n) \X Nat -> Nat]
  BY <1>1
<1>4. PICK f \in [0 .. n -> Nat] : Stepwise(f, n, 0, onto)
  <2> HIDE DEF onto
  <2>1. 0 \in Nat
    OBVIOUS
  <2> QED
    BY <1>1, <1>3, <2>1, StepsExist, Zenon
<1>5. Reads(f)
  <2>1. \A k \in 0 .. n : f[k] = IF k = 0 THEN 0 ELSE onto[<<k, f[k - 1]>>]
    <3> HIDE DEF onto
    <3> QED
      BY <1>4 DEF Stepwise
  <2>2. ASSUME NEW k \in 0 .. n, k # 0
        PROVE  onto[<<k, f[k - 1]>>] = 2 * f[k - 1] + bits[k]
    <3>1. k \in 1 .. n /\ k - 1 \in 0 .. n
      BY <1>1, <2>2
    <3>2. f[k - 1] \in Nat
      BY <3>1
    <3> QED
      BY <3>1, <3>2
  <2>3. f = [k \in 0 .. n |-> f[k]]
    OBVIOUS
  <2> HIDE DEF onto
  <2> QED
    BY <2>1, <2>2, <2>3
<1>6. Reads(h)
  <2> HIDE DEF Reads
  <2> QED
    BY <1>5
<1> HIDE DEF h
<1>7. \A k \in 0 .. n : h[k] = IF k = 0 THEN 0 ELSE 2 * h[k - 1] + bits[k]
  BY <1>6
<1>8. h[0] = 0 /\ \A k \in 1 .. n : h[k] = 2 * h[k - 1] + bits[k]
  BY <1>1, <1>7
<1> DEFINE M == {k \in 0 .. n : h[k] \in Nat}
<1>9. 0 \in M
  BY <1>1, <1>8
<1>10. ASSUME NEW k \in 0 .. n - 1, k \in M  PROVE k + 1 \in M
  <2>1. k + 1 \in 1 .. n /\ k + 1 \in 0 .. n /\ k + 1 - 1 = k
    BY <1>1
  <2>2. h[k + 1] = 2 * h[k] + bits[k + 1] /\ h[k] \in Nat /\ bits[k + 1] \in Nat
    BY <1>1, <1>8, <1>10, <2>1
  <2> QED
    BY <2>1, <2>2
<1>11. \A k \in 0 .. n : k \in M
  <2> HIDE DEF M
  <2> QED
    BY <1>1, <1>9, <1>10, UpToBySteps
<1>12. h = [k \in 0 .. n |-> h[k]]
  BY <1>6
<1>13. h \in [0 .. n -> Nat]
  BY <1>11, <1>12
<1> HIDE DEF M, Reads
<1> QED
  BY <1>2, <1>8, <1>13 DEF n

\* What put() writes is bits, and is read as the value, if the value has no more bits
\* than that.
LEMMA PutReadBack ==
    ASSUME NEW v \in Nat, NEW n \in Nat
    PROVE  /\ Decoder!Put(v, n) \in Seq({0, 1}) /\ Len(Decoder!Put(v, n)) = n
           /\ Decoder!Shifted(v, n)[n] = 0 => Decoder!Number(Decoder!Put(v, n)) = v
<1> DEFINE s == Decoder!Shifted(v, n)
           b == Decoder!Put(v, n)
<1>1. s \in [0 .. n -> Nat] /\ s[0] = v /\ \A k \in 1 .. n : s[k] = s[k - 1] \div 2
  BY ShiftedIs
<1>2. b = [i \in 1 .. n |-> s[n - i] % 2]
  BY DEF Decoder!Put
<1> HIDE DEF s, b
<1>3. \A i \in 1 .. n : n - i \in 0 .. n /\ s[n - i] \in Nat /\ s[n - i] % 2 \in {0, 1}
  <2> SUFFICES ASSUME NEW i \in 1 .. n
               PROVE  n - i \in 0 .. n /\ s[n - i] \in Nat /\ s[n - i] % 2 \in {0, 1}
    OBVIOUS
  <2>1. n - i \in 0 .. n
    OBVIOUS
  <2>2. s[n - i] \in Nat
    BY <1>1, <2>1
  <2> QED
    BY <2>1, <2>2
<1>4. b \in [1 .. n -> {0, 1}]
  BY <1>2, <1>3
<1>5. b \in Seq({0, 1}) /\ Len(b) = n
  BY <1>4, SeqDef
<1>6. ASSUME s[n] = 0  PROVE Decoder!Number(b) = v
  <2>1. PICK f \in [0 .. n -> Nat] : /\ Decoder!Number(b) = f[n] /\ f[0] = 0
                                     /\ \A k \in 1 .. n : f[k] = 2 * f[k - 1] + b[k]
    BY <1>5, NumberIs
  <2> DEFINE M == {k \in 0 .. n : f[k] = s[n - k]}
  <2>2. 0 \in M
    BY <1>6, <2>1
  <2>3. ASSUME NEW k \in 0 .. n - 1, k \in M  PROVE k + 1 \in M
    <3> DEFINE i == k + 1
               j == n - i
    <3>1. /\ i \in 1 .. n /\ i \in 0 .. n /\ i - 1 = k /\ j \in 0 .. n
          /\ n - k \in 1 .. n /\ n - k - 1 = j
      OBVIOUS
    <3>2. f[k] = s[n - k]
      BY <2>3
    <3> HIDE DEF i, j
    <3>3. f[i] = 2 * f[k] + b[i] /\ s[n - k] = s[j] \div 2 /\ s[j] \in Nat
      BY <1>1, <2>1, <3>1
    <3>4. b[i] = s[j] % 2
      BY <1>2, <3>1 DEF j
    <3>5. f[i] = s[j]
      BY <3>2, <3>3, <3>4
    <3>6. i \in M
      BY <3>1, <3>5 DEF j
    <3> QED
      BY <3>6 DEF i
  <2>4. \A k \in 0 .. n : k \in M
    <3> HIDE DEF M
    <3> QED
      BY <2>2, <2>3, UpToBySteps
  <2>5. n \in M /\ n - n = 0
    BY <2>4
  <2> QED
    BY <1>1, <2>1, <2>5
<1> QED
  BY <1>5, <1>6 DEF s, b

\* The values that are put fit their bits.
LEMMA ValuesFit ==
    /\ Decoder!Shifted(31, 5)[5] = 0 /\ Decoder!Shifted(2, 5)[5] = 0
    /\ Decoder!Shifted(7, 6)[6] = 0
    /\ Decoder!Shifted(4, 4)[4] = 0 /\ Decoder!Shifted(2, 4)[4] = 0
    /\ Decoder!Shifted(0, 1)[1] = 0 /\ Decoder!Shifted(1, 1)[1] = 0
<1>1. ASSUME NEW v \in Nat, v <= 31  PROVE Decoder!Shifted(v, 5)[5] = 0
  <2> DEFINE s == Decoder!Shifted(v, 5)
  <2>1. s[0] = v /\ \A k \in 1 .. 5 : s[k] = s[k - 1] \div 2
    BY ShiftedIs
  <2> HIDE DEF s
  <2>2. /\ s[1] = s[0] \div 2 /\ s[2] = s[1] \div 2 /\ s[3] = s[2] \div 2
        /\ s[4] = s[3] \div 2 /\ s[5] = s[4] \div 2
    BY <2>1
  <2>3. s[5] = 0
    BY <1>1, <2>1, <2>2
  <2> QED
    BY <2>3 DEF s
<1>2. Decoder!Shifted(7, 6)[6] = 0
  <2> DEFINE s == Decoder!Shifted(7, 6)
  <2>1. s[0] = 7 /\ \A k \in 1 .. 6 : s[k] = s[k - 1] \div 2
    BY ShiftedIs
  <2> HIDE DEF s
  <2>2. /\ s[1] = s[0] \div 2 /\ s[2] = s[1] \div 2 /\ s[3] = s[2] \div 2
        /\ s[4] = s[3] \div 2 /\ s[5] = s[4] \div 2 /\ s[6] = s[5] \div 2
    BY <2>1
  <2>3. s[6] = 0
    BY <2>1, <2>2
  <2> QED
    BY <2>3 DEF s
<1>3. ASSUME NEW v \in Nat, v <= 15  PROVE Decoder!Shifted(v, 4)[4] = 0
  <2> DEFINE s == Decoder!Shifted(v, 4)
  <2>1. s[0] = v /\ \A k \in 1 .. 4 : s[k] = s[k - 1] \div 2
    BY ShiftedIs
  <2> HIDE DEF s
  <2>2. /\ s[1] = s[0] \div 2 /\ s[2] = s[1] \div 2 /\ s[3] = s[2] \div 2
        /\ s[4] = s[3] \div 2
    BY <2>1
  <2>3. s[4] = 0
    BY <1>3, <2>1, <2>2
  <2> QED
    BY <2>3 DEF s
<1>4. ASSUME NEW v \in Nat, v <= 1  PROVE Decoder!Shifted(v, 1)[1] = 0
  <2> DEFINE s == Decoder!Shifted(v, 1)
  <2>1. s[0] = v /\ \A k \in 1 .. 1 : s[k] = s[k - 1] \div 2
    BY ShiftedIs
  <2> HIDE DEF s
  <2>2. s[1] = s[0] \div 2
    BY <2>1
  <2>3. s[1] = 0
    BY <1>4, <2>1, <2>2
  <2> QED
    BY <2>3 DEF s
<1> QED
  BY <1>1, <1>2, <1>3, <1>4

\* Where the bits of a sequence are, when another is appended to it.
LEMMA JoinedAt ==
    ASSUME NEW a \in Seq({0, 1}), NEW b \in Seq({0, 1})
    PROVE  /\ a \o b \in Seq({0, 1}) /\ Len(a \o b) = Len(a) + Len(b)
           /\ \A i \in 1 .. Len(a) : (a \o b)[i] = a[i]
           /\ \A i \in 1 .. Len(b) : (a \o b)[Len(a) + i] = b[i]
  OBVIOUS

\* What a field is read as: the number of the bits that are there.
LEMMA FieldIs ==
    ASSUME NEW bits \in Seq({0, 1}), NEW b \in Seq({0, 1}), NEW before \in Nat,
           NEW n \in Nat, n = Len(b),
           before + n <= Len(bits), \A i \in 1 .. n : bits[before + i] = b[i]
    PROVE  SubSeq(bits, before + 1, before + n) = b
<1> DEFINE c == SubSeq(bits, before + 1, before + n)
<1>1. c \in Seq({0, 1}) /\ Len(c) = n /\ \A i \in 1 .. n : c[i] = bits[before + i]
  OBVIOUS
<1> HIDE DEF c
<1>2. c = [i \in 1 .. n |-> c[i]] /\ b = [i \in 1 .. n |-> b[i]]
  BY <1>1
<1>3. \A i \in 1 .. n : c[i] = b[i]
  BY <1>1
<1>4. c = b
  BY <1>2, <1>3
<1> QED
  BY <1>4 DEF c

\* The index of the rate of AirPlay.
LEMMA RateIndex ==
    /\ {i \in DOMAIN Decoder!Rates : Decoder!Rates[i] = Decoder!AirPlayRate} = {5}
    /\ Decoder!Rates[4 + 1] = Decoder!AirPlayRate
  BY DEF Decoder!Rates, Decoder!AirPlayRate

\* The two kinds of configuration, field by field.
LEMMA ConfigBits ==
    ASSUME NEW short \in BOOLEAN
    PROVE  /\ Decoder!Config(39, Decoder!AirPlayRate, 2, short)
              = Decoder!Put(31, 5) \o Decoder!Put(7, 6) \o Decoder!Put(4, 4) \o <<>>
                \o Decoder!Put(2, 4)
                \o (Decoder!Put(IF short THEN 1 ELSE 0, 1) \o Decoder!Put(0, 8))
           /\ Decoder!Config(2, Decoder!AirPlayRate, 2, short)
              = Decoder!Put(2, 5) \o Decoder!Put(4, 4) \o <<>> \o Decoder!Put(2, 4)
                \o Decoder!Put(0, 3)
<1> DEFINE known == {i \in DOMAIN Decoder!Rates : Decoder!Rates[i] = Decoder!AirPlayRate}
           sfi == IF known = {} THEN 15 ELSE (CHOOSE i \in known : TRUE) - 1
           C(aot) == (IF aot < 31 THEN Decoder!Put(aot, 5)
                                  ELSE Decoder!Put(31, 5) \o Decoder!Put(aot - 32, 6))
                     \o Decoder!Put(sfi, 4)
                     \o (IF sfi = 15 THEN Decoder!Put(Decoder!AirPlayRate, 24) ELSE <<>>)
                     \o Decoder!Put(2, 4)
                     \o IF aot = 39
                        THEN Decoder!Put(IF short THEN 1 ELSE 0, 1) \o Decoder!Put(0, 8)
                        ELSE Decoder!Put(0, 3)
<1>1. /\ Decoder!Config(39, Decoder!AirPlayRate, 2, short) = C(39)
      /\ Decoder!Config(2, Decoder!AirPlayRate, 2, short) = C(2)
  BY Zenon DEF Decoder!Config
<1>2. sfi = 4
  <2>1. known = {5} /\ known # {}
    BY RateIndex
  <2>2. (CHOOSE i \in {5} : TRUE) = 5
    OBVIOUS
  <2> HIDE DEF known
  <2> QED
    BY <2>1, <2>2
<1> HIDE DEF sfi
<1>3. /\ C(39) = Decoder!Put(31, 5) \o Decoder!Put(7, 6) \o Decoder!Put(4, 4) \o <<>>
                  \o Decoder!Put(2, 4)
                  \o (Decoder!Put(IF short THEN 1 ELSE 0, 1) \o Decoder!Put(0, 8))
  <2>1. ~(39 < 31) /\ 39 - 32 = 7 /\ 4 # 15
    OBVIOUS
  <2> QED
    BY <1>2, <2>1, Zenon
<1>4. C(2) = Decoder!Put(2, 5) \o Decoder!Put(4, 4) \o <<>> \o Decoder!Put(2, 4)
             \o Decoder!Put(0, 3)
  <2>1. 2 < 31 /\ 2 # 39 /\ 4 # 15
    OBVIOUS
  <2> QED
    BY <1>2, <2>1, Zenon
<1> HIDE DEF C
<1> QED
  BY <1>1, <1>3, <1>4, Zenon

\* The configuration of AAC-ELD is read as that, of either length of frame.
LEMMA LowDelayRead ==
    ASSUME NEW short \in BOOLEAN
    PROVE  /\ Decoder!Config(39, Decoder!AirPlayRate, 2, short) \in Seq({0, 1})
           /\ Decoder!ReadConfig(Decoder!Config(39, Decoder!AirPlayRate, 2, short))
              = [aot |-> 39, rate |-> Decoder!AirPlayRate, channels |-> 2, short |-> short]
<1> DEFINE bits == Decoder!Config(39, Decoder!AirPlayRate, 2, short)
           flag == IF short THEN 1 ELSE 0
           a == Decoder!Put(31, 5)
           b == Decoder!Put(7, 6)
           c == Decoder!Put(4, 4)
           d == Decoder!Put(2, 4)
           e == Decoder!Put(flag, 1)
           z == Decoder!Put(0, 8)
<1>1. /\ a \in Seq({0, 1}) /\ Len(a) = 5 /\ Decoder!Number(a) = 31
      /\ b \in Seq({0, 1}) /\ Len(b) = 6 /\ Decoder!Number(b) = 7
      /\ c \in Seq({0, 1}) /\ Len(c) = 4 /\ Decoder!Number(c) = 4
      /\ d \in Seq({0, 1}) /\ Len(d) = 4 /\ Decoder!Number(d) = 2
      /\ z \in Seq({0, 1}) /\ Len(z) = 8
  <2>1. a \in Seq({0, 1}) /\ Len(a) = 5 /\ Decoder!Number(a) = 31
    BY PutReadBack, ValuesFit
  <2>2. b \in Seq({0, 1}) /\ Len(b) = 6 /\ Decoder!Number(b) = 7
    BY PutReadBack, ValuesFit
  <2>3. c \in Seq({0, 1}) /\ Len(c) = 4 /\ Decoder!Number(c) = 4
    BY PutReadBack, ValuesFit
  <2>4. d \in Seq({0, 1}) /\ Len(d) = 4 /\ Decoder!Number(d) = 2
    BY PutReadBack, ValuesFit
  <2>5. z \in Seq({0, 1}) /\ Len(z) = 8
    BY PutReadBack, ValuesFit
  <2> QED
    BY <2>1, <2>2, <2>3, <2>4, <2>5
<1>2. e \in Seq({0, 1}) /\ Len(e) = 1 /\ Decoder!Number(e) = flag
  <2>1. flag \in Nat /\ 1 \in Nat /\ Decoder!Shifted(flag, 1)[1] = 0
    BY ValuesFit
  <2> HIDE DEF flag
  <2> QED
    BY <2>1, PutReadBack
<1>3. bits = a \o b \o c \o <<>> \o d \o (e \o z)
  BY ConfigBits
<1> HIDE DEF bits, a, b, c, d, e, z
<1> DEFINE ab == a \o b
           abc == ab \o c
           abcd == abc \o d
           ez == e \o z
<1>4. bits = abcd \o ez
  <2>1. abc \o <<>> = abc
    BY <1>1
  <2> QED
    BY <1>3, <2>1
<1>5. /\ ab \in Seq({0, 1}) /\ Len(ab) = 11
      /\ \A i \in 1 .. 5 : ab[i] = a[i]
      /\ \A i \in 1 .. 6 : ab[5 + i] = b[i]
  <2>1. /\ ab \in Seq({0, 1}) /\ Len(ab) = Len(a) + Len(b)
        /\ \A i \in 1 .. Len(a) : ab[i] = a[i]
        /\ \A i \in 1 .. Len(b) : ab[Len(a) + i] = b[i]
    BY <1>1, JoinedAt
  <2> HIDE DEF ab
  <2>2. Len(a) = 5 /\ Len(b) = 6
    BY <1>1
  <2> QED
    BY <2>1, <2>2
<1> HIDE DEF ab
<1>6. /\ abc \in Seq({0, 1}) /\ Len(abc) = 15
      /\ \A i \in 1 .. 11 : abc[i] = ab[i]
      /\ \A i \in 1 .. 4 : abc[11 + i] = c[i]
  <2>1. /\ abc \in Seq({0, 1}) /\ Len(abc) = Len(ab) + Len(c)
        /\ \A i \in 1 .. Len(ab) : abc[i] = ab[i]
        /\ \A i \in 1 .. Len(c) : abc[Len(ab) + i] = c[i]
    <3>1. ab \in Seq({0, 1}) /\ c \in Seq({0, 1})
      BY <1>1, <1>5
    <3> QED
      BY <3>1, JoinedAt
  <2> HIDE DEF abc
  <2> QED
    BY <1>1, <1>5, <2>1
<1> HIDE DEF abc
<1>7. /\ abcd \in Seq({0, 1}) /\ Len(abcd) = 19
      /\ \A i \in 1 .. 15 : abcd[i] = abc[i]
      /\ \A i \in 1 .. 4 : abcd[15 + i] = d[i]
  <2>1. /\ abcd \in Seq({0, 1}) /\ Len(abcd) = Len(abc) + Len(d)
        /\ \A i \in 1 .. Len(abc) : abcd[i] = abc[i]
        /\ \A i \in 1 .. Len(d) : abcd[Len(abc) + i] = d[i]
    <3>1. abc \in Seq({0, 1}) /\ d \in Seq({0, 1})
      BY <1>1, <1>6
    <3> QED
      BY <3>1, JoinedAt
  <2> HIDE DEF abcd
  <2> QED
    BY <1>1, <1>6, <2>1
<1> HIDE DEF abcd
<1>8. ez \in Seq({0, 1}) /\ Len(ez) = 9 /\ \A i \in 1 .. 1 : ez[i] = e[i]
  <2>1. /\ ez \in Seq({0, 1}) /\ Len(ez) = Len(e) + Len(z)
        /\ \A i \in 1 .. Len(e) : ez[i] = e[i]
        /\ \A i \in 1 .. Len(z) : ez[Len(e) + i] = z[i]
    <3>1. e \in Seq({0, 1}) /\ z \in Seq({0, 1})
      BY <1>1, <1>2
    <3> QED
      BY <3>1, JoinedAt
  <2> HIDE DEF ez
  <2> QED
    BY <1>1, <1>2, <2>1
<1> HIDE DEF ez
<1>9. /\ bits \in Seq({0, 1}) /\ Len(bits) = 28
      /\ \A i \in 1 .. 19 : bits[i] = abcd[i]
      /\ \A i \in 1 .. 9 : bits[19 + i] = ez[i]
  <2>1. /\ bits \in Seq({0, 1}) /\ Len(bits) = Len(abcd) + Len(ez)
        /\ \A i \in 1 .. Len(abcd) : bits[i] = abcd[i]
        /\ \A i \in 1 .. Len(ez) : bits[Len(abcd) + i] = ez[i]
    <3>1. abcd \in Seq({0, 1}) /\ ez \in Seq({0, 1})
      BY <1>7, <1>8
    <3> QED
      BY <1>4, <3>1, JoinedAt
  <2>2. Len(abcd) = 19 /\ Len(ez) = 9
    BY <1>7, <1>8
  <2> QED
    BY <2>1, <2>2
<1>10. /\ \A i \in 1 .. 5 : bits[0 + i] = a[i]
       /\ \A i \in 1 .. 6 : bits[5 + i] = b[i]
       /\ \A i \in 1 .. 4 : bits[11 + i] = c[i]
       /\ \A i \in 1 .. 4 : bits[15 + i] = d[i]
       /\ \A i \in 1 .. 1 : bits[19 + i] = e[i]
  <2>1. ASSUME NEW i \in 1 .. 5  PROVE bits[0 + i] = a[i]
    <3>1. 0 + i = i /\ i \in 1 .. 19 /\ i \in 1 .. 15 /\ i \in 1 .. 11
      OBVIOUS
    <3>2. bits[i] = abcd[i]
      BY <1>9, <3>1
    <3>3. abcd[i] = abc[i]
      BY <1>7, <3>1
    <3>4. abc[i] = ab[i]
      BY <1>6, <3>1
    <3>5. ab[i] = a[i]
      BY <1>5
    <3> QED
      BY <3>1, <3>2, <3>3, <3>4, <3>5
  <2>2. ASSUME NEW i \in 1 .. 6  PROVE bits[5 + i] = b[i]
    <3>1. 5 + i \in 1 .. 19 /\ 5 + i \in 1 .. 15 /\ 5 + i \in 1 .. 11
      OBVIOUS
    <3>2. bits[5 + i] = abcd[5 + i]
      BY <1>9, <3>1
    <3>3. abcd[5 + i] = abc[5 + i]
      BY <1>7, <3>1
    <3>4. abc[5 + i] = ab[5 + i]
      BY <1>6, <3>1
    <3>5. ab[5 + i] = b[i]
      BY <1>5
    <3> QED
      BY <3>2, <3>3, <3>4, <3>5
  <2>3. ASSUME NEW i \in 1 .. 4  PROVE bits[11 + i] = c[i]
    <3>1. 11 + i \in 1 .. 19 /\ 11 + i \in 1 .. 15
      OBVIOUS
    <3>2. bits[11 + i] = abcd[11 + i]
      BY <1>9, <3>1
    <3>3. abcd[11 + i] = abc[11 + i]
      BY <1>7, <3>1
    <3>4. abc[11 + i] = c[i]
      BY <1>6
    <3> QED
      BY <3>2, <3>3, <3>4
  <2>4. ASSUME NEW i \in 1 .. 4  PROVE bits[15 + i] = d[i]
    <3>1. 15 + i \in 1 .. 19
      OBVIOUS
    <3>2. bits[15 + i] = abcd[15 + i]
      BY <1>9, <3>1
    <3>3. abcd[15 + i] = d[i]
      BY <1>7
    <3> QED
      BY <3>2, <3>3
  <2>5. ASSUME NEW i \in 1 .. 1  PROVE bits[19 + i] = e[i]
    <3>1. i \in 1 .. 9
      OBVIOUS
    <3>2. bits[19 + i] = ez[i]
      BY <1>9, <3>1
    <3>3. ez[i] = e[i]
      BY <1>8
    <3> QED
      BY <3>2, <3>3
  <2> QED
    BY <2>1, <2>2, <2>3, <2>4, <2>5
<1>11. /\ SubSeq(bits, 0 + 1, 0 + 5) = a /\ SubSeq(bits, 5 + 1, 5 + 6) = b
       /\ SubSeq(bits, 11 + 1, 11 + 4) = c /\ SubSeq(bits, 15 + 1, 15 + 4) = d
       /\ SubSeq(bits, 19 + 1, 19 + 1) = e
  <2>1. SubSeq(bits, 0 + 1, 0 + 5) = a
    BY <1>1, <1>9, <1>10, FieldIs
  <2>2. SubSeq(bits, 5 + 1, 5 + 6) = b
    BY <1>1, <1>9, <1>10, FieldIs
  <2>3. SubSeq(bits, 11 + 1, 11 + 4) = c
    BY <1>1, <1>9, <1>10, FieldIs
  <2>4. SubSeq(bits, 15 + 1, 15 + 4) = d
    BY <1>1, <1>9, <1>10, FieldIs
  <2>5. SubSeq(bits, 19 + 1, 19 + 1) = e
    BY <1>2, <1>9, <1>10, FieldIs
  <2> QED
    BY <2>1, <2>2, <2>3, <2>4, <2>5
<1> DEFINE Field(at, n) == Decoder!Number(SubSeq(bits, at, at + n - 1))
<1>12. /\ Field(1, 5) = 31 /\ Field(6, 6) = 7 /\ Field(12, 4) = 4
       /\ Field(12 + 4, 4) = 2 /\ Field(12 + 8, 1) = flag
  <2>1. /\ 1 + 5 - 1 = 0 + 5 /\ 1 = 0 + 1 /\ 6 + 6 - 1 = 5 + 6 /\ 6 = 5 + 1
        /\ 12 + 4 - 1 = 11 + 4 /\ 12 = 11 + 1
        /\ 12 + 4 + 4 - 1 = 15 + 4 /\ 12 + 4 = 15 + 1
        /\ 12 + 8 + 1 - 1 = 19 + 1 /\ 12 + 8 = 19 + 1
    OBVIOUS
  <2> QED
    BY <1>1, <1>2, <1>11, <2>1, Zenon
<1> HIDE DEF Field
<1> DEFINE R == LET escape == Field(1, 5) = 31
                    aot == IF escape THEN 32 + Field(6, 6) ELSE Field(1, 5)
                    at == IF escape THEN 12 ELSE 6
                IN  [aot |-> aot, rate |-> Decoder!Rates[Field(at, 4) + 1],
                     channels |-> Field(at + 4, 4), short |-> Field(at + 8, 1) = 1]
<1>13. Decoder!ReadConfig(bits) = R
  BY Zenon DEF Decoder!ReadConfig, Field
<1>14. R = [aot |-> 39, rate |-> Decoder!AirPlayRate, channels |-> 2, short |-> short]
  <2>1. 32 + 7 = 39 /\ ((flag = 1) <=> short)
    OBVIOUS
  <2>2. (flag = 1) = short
    BY <2>1
  <2> HIDE DEF flag
  <2> QED
    BY <1>12, <2>1, <2>2, RateIndex, Zenon
<1> HIDE DEF R
<1> QED
  BY <1>9, <1>13, <1>14, Zenon DEF bits

\* And that of AAC-LC.
LEMMA PlainRead ==
    /\ Decoder!Config(2, Decoder!AirPlayRate, 2, FALSE) \in Seq({0, 1})
    /\ Decoder!ReadConfig(Decoder!Config(2, Decoder!AirPlayRate, 2, FALSE))
       = [aot |-> 2, rate |-> Decoder!AirPlayRate, channels |-> 2, short |-> FALSE]
<1> DEFINE bits == Decoder!Config(2, Decoder!AirPlayRate, 2, FALSE)
           a == Decoder!Put(2, 5)
           c == Decoder!Put(4, 4)
           d == Decoder!Put(2, 4)
           z == Decoder!Put(0, 3)
<1>1. /\ a \in Seq({0, 1}) /\ Len(a) = 5 /\ Decoder!Number(a) = 2
      /\ c \in Seq({0, 1}) /\ Len(c) = 4 /\ Decoder!Number(c) = 4
      /\ d \in Seq({0, 1}) /\ Len(d) = 4 /\ Decoder!Number(d) = 2
      /\ z \in Seq({0, 1}) /\ Len(z) = 3
  BY PutReadBack, ValuesFit
<1>2. z[1] = 0
  <2> DEFINE s == Decoder!Shifted(0, 3)
  <2>1. s[0] = 0 /\ \A k \in 1 .. 3 : s[k] = s[k - 1] \div 2
    BY ShiftedIs
  <2> HIDE DEF s
  <2>2. s[1] = s[0] \div 2 /\ s[2] = s[1] \div 2
    BY <2>1
  <2>3. s[2] = 0 /\ 3 - 1 = 2 /\ 0 % 2 = 0
    BY <2>1, <2>2
  <2>4. z = [i \in 1 .. 3 |-> s[3 - i] % 2]
    BY DEF Decoder!Put, s
  <2> HIDE DEF z
  <2> QED
    BY <2>3, <2>4
<1>3. bits = a \o c \o <<>> \o d \o z
  <2>1. FALSE \in BOOLEAN
    OBVIOUS
  <2> QED
    BY <2>1, ConfigBits, Zenon
<1> HIDE DEF bits, a, c, d, z
<1> DEFINE ac == a \o c
           acd == ac \o d
<1>4. bits = acd \o z
  <2>1. ac \o <<>> = ac
    BY <1>1
  <2> QED
    BY <1>3, <2>1
<1>5. /\ ac \in Seq({0, 1}) /\ Len(ac) = 9
      /\ \A i \in 1 .. 5 : ac[i] = a[i]
      /\ \A i \in 1 .. 4 : ac[5 + i] = c[i]
  <2>1. /\ ac \in Seq({0, 1}) /\ Len(ac) = Len(a) + Len(c)
        /\ \A i \in 1 .. Len(a) : ac[i] = a[i]
        /\ \A i \in 1 .. Len(c) : ac[Len(a) + i] = c[i]
    BY <1>1, JoinedAt
  <2> HIDE DEF ac
  <2> QED
    BY <1>1, <2>1
<1> HIDE DEF ac
<1>6. /\ acd \in Seq({0, 1}) /\ Len(acd) = 13
      /\ \A i \in 1 .. 9 : acd[i] = ac[i]
      /\ \A i \in 1 .. 4 : acd[9 + i] = d[i]
  <2>1. /\ acd \in Seq({0, 1}) /\ Len(acd) = Len(ac) + Len(d)
        /\ \A i \in 1 .. Len(ac) : acd[i] = ac[i]
        /\ \A i \in 1 .. Len(d) : acd[Len(ac) + i] = d[i]
    <3>1. ac \in Seq({0, 1}) /\ d \in Seq({0, 1})
      BY <1>1, <1>5
    <3> QED
      BY <3>1, JoinedAt
  <2> HIDE DEF acd
  <2> QED
    BY <1>1, <1>5, <2>1
<1> HIDE DEF acd
<1>7. /\ bits \in Seq({0, 1}) /\ Len(bits) = 16
      /\ \A i \in 1 .. 13 : bits[i] = acd[i]
      /\ \A i \in 1 .. 3 : bits[13 + i] = z[i]
  <2>1. /\ bits \in Seq({0, 1}) /\ Len(bits) = Len(acd) + Len(z)
        /\ \A i \in 1 .. Len(acd) : bits[i] = acd[i]
        /\ \A i \in 1 .. Len(z) : bits[Len(acd) + i] = z[i]
    <3>1. acd \in Seq({0, 1}) /\ z \in Seq({0, 1})
      BY <1>1, <1>6
    <3> QED
      BY <1>4, <3>1, JoinedAt
  <2>2. Len(acd) = 13 /\ Len(z) = 3
    BY <1>1, <1>6
  <2> QED
    BY <2>1, <2>2
<1> DEFINE e == <<0>>
<1>8. e \in Seq({0, 1}) /\ Len(e) = 1 /\ e[1] = 0
  OBVIOUS
<1> HIDE DEF e
<1>9. /\ \A i \in 1 .. 5 : bits[0 + i] = a[i]
      /\ \A i \in 1 .. 4 : bits[5 + i] = c[i]
      /\ \A i \in 1 .. 4 : bits[9 + i] = d[i]
      /\ \A i \in 1 .. 1 : bits[13 + i] = e[i]
  <2>1. ASSUME NEW i \in 1 .. 5  PROVE bits[0 + i] = a[i]
    <3>1. 0 + i = i /\ i \in 1 .. 13 /\ i \in 1 .. 9
      OBVIOUS
    <3>2. bits[i] = acd[i]
      BY <1>7, <3>1
    <3>3. acd[i] = ac[i]
      BY <1>6, <3>1
    <3>4. ac[i] = a[i]
      BY <1>5
    <3> QED
      BY <3>1, <3>2, <3>3, <3>4
  <2>2. ASSUME NEW i \in 1 .. 4  PROVE bits[5 + i] = c[i]
    <3>1. 5 + i \in 1 .. 13 /\ 5 + i \in 1 .. 9
      OBVIOUS
    <3>2. bits[5 + i] = acd[5 + i]
      BY <1>7, <3>1
    <3>3. acd[5 + i] = ac[5 + i]
      BY <1>6, <3>1
    <3>4. ac[5 + i] = c[i]
      BY <1>5
    <3> QED
      BY <3>2, <3>3, <3>4
  <2>3. ASSUME NEW i \in 1 .. 4  PROVE bits[9 + i] = d[i]
    <3>1. 9 + i \in 1 .. 13
      OBVIOUS
    <3>2. bits[9 + i] = acd[9 + i]
      BY <1>7, <3>1
    <3>3. acd[9 + i] = d[i]
      BY <1>6
    <3> QED
      BY <3>2, <3>3
  <2>4. ASSUME NEW i \in 1 .. 1  PROVE bits[13 + i] = e[i]
    <3>1. i = 1 /\ i \in 1 .. 3
      OBVIOUS
    <3> QED
      BY <1>2, <1>7, <1>8, <3>1
  <2> QED
    BY <2>1, <2>2, <2>3, <2>4
<1>10. /\ SubSeq(bits, 0 + 1, 0 + 5) = a /\ SubSeq(bits, 5 + 1, 5 + 4) = c
       /\ SubSeq(bits, 9 + 1, 9 + 4) = d /\ SubSeq(bits, 13 + 1, 13 + 1) = e
  <2>1. SubSeq(bits, 0 + 1, 0 + 5) = a
    BY <1>1, <1>7, <1>9, FieldIs
  <2>2. SubSeq(bits, 5 + 1, 5 + 4) = c
    BY <1>1, <1>7, <1>9, FieldIs
  <2>3. SubSeq(bits, 9 + 1, 9 + 4) = d
    BY <1>1, <1>7, <1>9, FieldIs
  <2>4. SubSeq(bits, 13 + 1, 13 + 1) = e
    BY <1>7, <1>8, <1>9, FieldIs
  <2> QED
    BY <2>1, <2>2, <2>3, <2>4
<1>11. Decoder!Number(e) = 0
  <2>1. PICK f \in [0 .. 1 -> Nat] : /\ Decoder!Number(e) = f[1] /\ f[0] = 0
                                     /\ \A k \in 1 .. 1 : f[k] = 2 * f[k - 1] + e[k]
    BY <1>8, NumberIs
  <2>2. 1 \in 1 .. 1 /\ 1 - 1 = 0 /\ 2 * 0 + 0 = 0
    OBVIOUS
  <2> QED
    BY <1>8, <2>1, <2>2
<1> DEFINE Field(at, n) == Decoder!Number(SubSeq(bits, at, at + n - 1))
<1>12. /\ Field(1, 5) = 2 /\ Field(6, 4) = 4
       /\ Field(6 + 4, 4) = 2 /\ Field(6 + 8, 1) = 0
  <2>1. /\ 1 + 5 - 1 = 0 + 5 /\ 1 = 0 + 1 /\ 6 + 4 - 1 = 5 + 4 /\ 6 = 5 + 1
        /\ 6 + 4 + 4 - 1 = 9 + 4 /\ 6 + 4 = 9 + 1
        /\ 6 + 8 + 1 - 1 = 13 + 1 /\ 6 + 8 = 13 + 1
    OBVIOUS
  <2> QED
    BY <1>1, <1>10, <1>11, <2>1, Zenon
<1> HIDE DEF Field
<1> DEFINE R == LET escape == Field(1, 5) = 31
                    aot == IF escape THEN 32 + Field(6, 6) ELSE Field(1, 5)
                    at == IF escape THEN 12 ELSE 6
                IN  [aot |-> aot, rate |-> Decoder!Rates[Field(at, 4) + 1],
                     channels |-> Field(at + 4, 4), short |-> Field(at + 8, 1) = 1]
<1>13. Decoder!ReadConfig(bits) = R
  BY Zenon DEF Decoder!ReadConfig, Field
<1>14. R = [aot |-> 2, rate |-> Decoder!AirPlayRate, channels |-> 2, short |-> FALSE]
  <2>1. 2 # 31 /\ ~(0 = 1)
    OBVIOUS
  <2>2. (0 = 1) = FALSE
    BY <2>1
  <2> QED
    BY <1>12, <2>1, <2>2, RateIndex, Zenon
<1> HIDE DEF R
<1> QED
  BY <1>7, <1>13, <1>14, Zenon DEF bits

\* What is announced is read, whichever of the streams of AirPlay it is.
Said(bits, s) == bits = Decoder!Config(s.aot, s.rate, s.channels, s.short)

LEMMA SaidIsRead ==
    ASSUME NEW s \in Decoder!Streams, NEW bits, Said(bits, s)
    PROVE  bits \in Seq({0, 1}) /\ Decoder!ReadConfig(bits) = s
<1>1. \/ /\ s = [aot |-> 39, rate |-> Decoder!AirPlayRate, channels |-> 2, short |-> s.short]
         /\ s.short \in BOOLEAN
      \/ s = [aot |-> 2, rate |-> Decoder!AirPlayRate, channels |-> 2, short |-> FALSE]
  <2>1. CASE s \in [aot : {39}, rate : {Decoder!AirPlayRate}, channels : {2}, short : BOOLEAN]
    <3>1. s = [aot |-> s.aot, rate |-> s.rate, channels |-> s.channels, short |-> s.short]
      BY <2>1, Zenon
    <3>2. s.aot = 39 /\ s.rate = Decoder!AirPlayRate /\ s.channels = 2 /\ s.short \in BOOLEAN
      BY <2>1
    <3> QED
      BY <3>1, <3>2, Zenon
  <2>2. CASE s \in [aot : {2}, rate : {Decoder!AirPlayRate}, channels : {2}, short : {FALSE}]
    <3>1. ASSUME NEW F,
                 NEW t \in [aot : {2}, rate : {Decoder!AirPlayRate}, channels : {2}, short : {F}]
          PROVE  t = [aot |-> 2, rate |-> Decoder!AirPlayRate, channels |-> 2, short |-> F]
      OBVIOUS
    <3> QED
      BY <2>2, <3>1, Zenon
  <2>3. \/ s \in [aot : {39}, rate : {Decoder!AirPlayRate}, channels : {2}, short : BOOLEAN]
        \/ s \in [aot : {2}, rate : {Decoder!AirPlayRate}, channels : {2}, short : {FALSE}]
    BY Zenon DEF Decoder!Streams
  <2> QED
    BY <2>1, <2>2, <2>3, Zenon
<1>2. CASE s = [aot |-> 39, rate |-> Decoder!AirPlayRate, channels |-> 2, short |-> s.short]
           /\ s.short \in BOOLEAN
  <2> DEFINE f == s.short
  <2>1. s.aot = 39 /\ s.rate = Decoder!AirPlayRate /\ s.channels = 2 /\ f \in BOOLEAN
    BY <1>2
  <2>2. bits = Decoder!Config(39, Decoder!AirPlayRate, 2, f)
    BY <2>1, Zenon DEF Said
  <2>3. s = [aot |-> 39, rate |-> Decoder!AirPlayRate, channels |-> 2, short |-> f]
    BY <1>2
  <2> HIDE DEF f
  <2> QED
    BY <2>1, <2>2, <2>3, LowDelayRead, Zenon
<1>3. CASE s = [aot |-> 2, rate |-> Decoder!AirPlayRate, channels |-> 2, short |-> FALSE]
  <2>1. s.aot = 2 /\ s.rate = Decoder!AirPlayRate /\ s.channels = 2 /\ s.short = FALSE
    BY <1>3
  <2>2. bits = Decoder!Config(2, Decoder!AirPlayRate, 2, FALSE)
    BY <2>1, Zenon DEF Said
  <2> QED
    BY <1>3, <2>2, PlainRead, Zenon
<1> QED
  BY <1>1, <1>2, <1>3

\* The configuration is that of what was announced.
SaidOnce ==
    \/ extradata = <<>>
    \/ \E s \in Decoder!Streams : asked = <<s>> /\ Said(extradata, s)

LEMMA SaidOnceRead ==
    ASSUME SaidOnce
    PROVE  Decoder!ConfigReadBack /\ \A i \in DOMAIN extradata : extradata[i] \in {0, 1}
<1>1. CASE extradata = <<>>
  BY <1>1 DEF Decoder!ConfigReadBack
<1>2. ASSUME NEW s \in Decoder!Streams, asked = <<s>>, Said(extradata, s)
      PROVE  Decoder!ConfigReadBack /\ \A i \in DOMAIN extradata : extradata[i] \in {0, 1}
  <2>1. extradata \in Seq({0, 1}) /\ Decoder!ReadConfig(extradata) = s
    BY <1>2, SaidIsRead, Zenon
  <2>2. asked[1] = s
    BY <1>2
  <2>3. \A i \in DOMAIN extradata : extradata[i] \in {0, 1}
    BY <2>1
  <2> QED
    BY <2>1, <2>2, <2>3, Zenon DEF Decoder!ConfigReadBack
<1> QED
  BY <1>1, <1>2 DEF SaidOnce

\* A scaler is for pictures of the size that is kept, and the resampler for the
\* sound that is.
Converts ==
    /\ sws_ctx # <<>> => sws_ctx \in Decoder!Pictures /\ sws_ctx[1] = output
    /\ swr_ctx # <<>> => swr_ctx = swr_src
    /\ Decoder!ConvertedAsDecoded

\* Every step of the decoder.
LEMMA ConvertsStep ==
    ASSUME Converts, Decoder!Next
    PROVE  Converts'
<1>1. CASE Decoder!InitVideo \/ Decoder!InitAudio
  BY <1>1 DEF Converts, Decoder!ConvertedAsDecoded, Decoder!InitVideo,
     Decoder!InitAudio
<1>2. CASE Decoder!DecodeVideo
  <2>1. PICK p \in Decoder!Pictures :
          /\ sws_ctx' = Decoder!Scaler(p) \/ (p[1] # output /\ sws_ctx' = <<>>)
          /\ output' = p[1]
          /\ given' = <<[sound |-> FALSE, was |-> p, by |-> sws_ctx']>>
    BY <1>2 DEF Decoder!DecodeVideo
  <2>2. sws_ctx' # <<>> => sws_ctx' \in Decoder!Pictures /\ sws_ctx'[1] = p[1]
    BY <2>1 DEF Converts, Decoder!Scaler
  <2>3. UNCHANGED <<swr_ctx, swr_src>>
    BY <1>2 DEF Decoder!DecodeVideo
  <2> QED
    BY <2>1, <2>2, <2>3 DEF Converts, Decoder!ConvertedAsDecoded
<1>3. CASE Decoder!DecodeAudio
  <2>1. UNCHANGED <<sws_ctx, output>>
    BY <1>3 DEF Decoder!DecodeAudio
  <2>2. PICK s \in Decoder!Sounds :
          \/ /\ swr_ctx' = IF Decoder!Stale(s) THEN s ELSE swr_ctx
             /\ swr_src' = IF Decoder!Stale(s) THEN s ELSE swr_src
             /\ given' \in {given, <<[sound |-> TRUE, was |-> s, by |-> swr_ctx']>>}
          \/ /\ Decoder!Stale(s)
             /\ swr_ctx' = <<>> /\ UNCHANGED <<swr_src, given>>
    BY <1>3 DEF Decoder!DecodeAudio
  <2>3. CASE /\ swr_ctx' = IF Decoder!Stale(s) THEN s ELSE swr_ctx
             /\ swr_src' = IF Decoder!Stale(s) THEN s ELSE swr_src
             /\ given' \in {given, <<[sound |-> TRUE, was |-> s, by |-> swr_ctx']>>}
    <3>1. swr_ctx' = s /\ swr_src' = s
      BY <2>3 DEF Converts, Decoder!Stale
    <3>2. given' = given \/ given' = <<[sound |-> TRUE, was |-> s, by |-> s]>>
      BY <2>3, <3>1
    <3>3. Decoder!ConvertedAsDecoded'
      BY <3>2 DEF Converts, Decoder!ConvertedAsDecoded
    <3> QED
      BY <2>1, <3>1, <3>3 DEF Converts
  <2>4. CASE swr_ctx' = <<>> /\ UNCHANGED <<swr_src, given>>
    BY <2>1, <2>4 DEF Converts, Decoder!ConvertedAsDecoded
  <2> QED
    BY <2>2, <2>3, <2>4
<1> QED
  BY <1>1, <1>2, <1>3 DEF Decoder!Next

DecoderTypes ==
    /\ video_ctx \in BOOLEAN /\ audio_ctx \in BOOLEAN
    /\ output \in {"none", "small", "large"}
    /\ swr_ctx = <<>> \/ swr_ctx \in Decoder!Sounds

DecoderInv == DecoderTypes /\ SaidOnce /\ Converts

LEMMA DecoderStep ==
    ASSUME DecoderInv, Decoder!Next
    PROVE  DecoderInv'
<1>1. Converts'
  BY ConvertsStep DEF DecoderInv
<1>2. DecoderTypes /\ SaidOnce
  BY DEF DecoderInv
<1>3. CASE Decoder!InitVideo
  BY <1>1, <1>2, <1>3
    DEF DecoderInv, DecoderTypes, SaidOnce, Said, Decoder!InitVideo, Decoder!Config
<1>4. CASE Decoder!InitAudio
  <2>1. DecoderTypes'
    BY <1>2, <1>4 DEF DecoderTypes, Decoder!InitAudio
  <2>2. \/ UNCHANGED <<extradata, asked>>
        \/ \E s \in Decoder!Streams : asked' = <<s>> /\ Said(extradata', s)
    BY <1>4 DEF Decoder!InitAudio, Said
  <2>3. SaidOnce'
    <3>1. CASE UNCHANGED <<extradata, asked>>
      BY <1>2, <3>1 DEF SaidOnce
    <3>2. CASE \E s \in Decoder!Streams : asked' = <<s>> /\ Said(extradata', s)
      BY <3>2 DEF SaidOnce
    <3> QED
      BY <2>2, <3>1, <3>2
  <2> QED
    BY <1>1, <2>1, <2>3 DEF DecoderInv
<1>5. CASE Decoder!DecodeVideo
  <2>1. output' \in {"none", "small", "large"}
    BY <1>5 DEF Decoder!DecodeVideo, Decoder!Pictures
  <2>2. UNCHANGED <<video_ctx, audio_ctx, swr_ctx, extradata, asked>>
    BY <1>5 DEF Decoder!DecodeVideo
  <2> QED
    BY <1>1, <1>2, <2>1, <2>2 DEF DecoderInv, DecoderTypes, SaidOnce
<1>6. CASE Decoder!DecodeAudio
  <2>1. swr_ctx' = <<>> \/ swr_ctx' \in Decoder!Sounds
    BY <1>2, <1>6 DEF Decoder!DecodeAudio, DecoderTypes
  <2>2. UNCHANGED <<video_ctx, audio_ctx, output, extradata, asked>>
    BY <1>6 DEF Decoder!DecodeAudio
  <2> QED
    BY <1>1, <1>2, <2>1, <2>2 DEF DecoderInv, DecoderTypes, SaidOnce
<1> QED
  BY <1>3, <1>4, <1>5, <1>6 DEF Decoder!Next

-----------------------------------------------------------------------------
(* The theorems.                                                           *)

PhonesInv ==
    /\ part \in {"android", "adb", "mirror", "decoder"}
    /\ SessionsInv
    /\ AdbInv
    /\ MirrorInv /\ MirrorSafe /\ MirrorBounded
    /\ DecoderInv

\* At the start no part has begun.
LEMMA PhonesInitially == PhonesInit => PhonesInv
<1> SUFFICES ASSUME PhonesInit  PROVE PhonesInv
  OBVIOUS
<1>1. Init /\ Adb!Init /\ Mirror!Init /\ Decoder!Init
  BY DEF PhonesInit
<1>2. SessionsInv
  BY <1>1, SessionsInitially
<1>3. AdbInv
  BY <1>1, AdbBegins
<1>4. MirrorInv
  BY <1>1, MirrorBegins
<1>5. MirrorSafe
  BY <1>1 DEF Mirror!Init, MirrorSafe, Mirror!InStep, Mirror!ParamsInFront,
     DecodedOfSetup
<1>6. MirrorBounded
  <2>1. \A c \in Mirror!Conns : Len(wire[c]) = 0
    BY <1>1, EmptySeq DEF Mirror!Init
  <2> QED
    BY <1>1, <2>1, MediaAssumption DEF Mirror!Init, MirrorBounded, Bounded
<1>7. DecoderInv
  BY <1>1 DEF Decoder!Init, DecoderInv, DecoderTypes, SaidOnce, Converts,
     Decoder!ConvertedAsDecoded
<1>8. part \in {"android", "adb", "mirror", "decoder"}
  BY DEF PhonesInit
<1> QED
  BY <1>2, <1>3, <1>4, <1>5, <1>6, <1>7, <1>8 DEF PhonesInv

\* What does not move keeps its part of the invariant.
LEMMA PhonesStill ==
    ASSUME PhonesInv
    PROVE  /\ UNCHANGED vars => SessionsInv'
           /\ UNCHANGED adbV => AdbInv'
           /\ UNCHANGED mirrorV => MirrorInv' /\ MirrorSafe' /\ MirrorBounded'
           /\ UNCHANGED decoderV => DecoderInv'
<1>1. ASSUME UNCHANGED vars  PROVE SessionsInv'
  BY <1>1, TypeKept, PlacesKept, OwnersMoved, BuildsTargetKept, ReplacedKept,
     JoinedKept,
     GoneKept, ActiveKept DEF PhonesInv, SessionsInv
<1>2. ASSUME UNCHANGED adbV  PROVE AdbInv'
  BY <1>2 DEF PhonesInv, adbV, AdbInv, AdbTyped, Adb!TypeOK, CallHolds, CallRuns,
     CallTold
<1>3. ASSUME UNCHANGED mirrorV  PROVE MirrorInv' /\ MirrorSafe' /\ MirrorBounded'
  <2>1. MirrorInv'
    BY <1>3 DEF PhonesInv, mirrorV, MirrorInv, MirrorTypes, Fresh, SlotRuns,
       ReadyAnnounced,
       HandlerReady, SetUp, Alone
  <2>2. MirrorSafe'
    BY <1>3 DEF PhonesInv, mirrorV, MirrorSafe, Mirror!InStep, Mirror!ParamsInFront,
       DecodedOfSetup
  <2>3. MirrorBounded'
    BY <1>3 DEF PhonesInv, mirrorV, MirrorBounded, Bounded
  <2> QED
    BY <2>1, <2>2, <2>3
<1>4. ASSUME UNCHANGED decoderV  PROVE DecoderInv'
  BY <1>4 DEF PhonesInv, decoderV, DecoderInv, DecoderTypes, SaidOnce, Converts,
     Decoder!ConvertedAsDecoded
<1> QED
  BY <1>1, <1>2, <1>3, <1>4

\* Every step is one of a part, and keeps the invariant.
LEMMA PhonesAlways == PhonesSpec => []PhonesInv
<1>1. ASSUME PhonesInv, PhonesNext  PROVE PhonesInv'
  <2>1. part' = part
    BY <1>1 DEF PhonesNext
  <2>2. ASSUME Next, UNCHANGED <<adbV, mirrorV, decoderV>>  PROVE PhonesInv'
    <3>1. SessionsInv'
      BY <1>1, <2>2, TypeKept, PlacesKept, OwnersMoved, BuildsTargetKept,
         ReplacedKept,
         JoinedKept, GoneKept, ActiveKept DEF PhonesInv, SessionsInv
    <3> QED
      BY <1>1, <2>1, <2>2, <3>1, PhonesStill DEF PhonesInv
  <2>3. ASSUME Adb!Next, UNCHANGED <<vars, mirrorV, decoderV>>  PROVE PhonesInv'
    BY <1>1, <2>1, <2>3, AdbStep, PhonesStill DEF PhonesInv
  <2>4. ASSUME Mirror!Next, UNCHANGED <<vars, adbV, decoderV>>  PROVE PhonesInv'
    BY <1>1, <2>1, <2>4, MirrorStep, BoundedStep, PhonesStill DEF PhonesInv
  <2>5. ASSUME Decoder!Next, UNCHANGED <<vars, adbV, mirrorV>>  PROVE PhonesInv'
    BY <1>1, <2>1, <2>5, DecoderStep, PhonesStill DEF PhonesInv
  <2> QED
    BY <1>1, <2>2, <2>3, <2>4, <2>5 DEF PhonesNext
<1>2. ASSUME PhonesInv, UNCHANGED phoneVars  PROVE PhonesInv'
  BY <1>2, PhonesStill DEF phoneVars, PhonesInv
<1> QED
  BY <1>1, <1>2, PhonesInitially, PTL DEF PhonesSpec

\* spawn_capture() and what reads its output: whatever other calls do, however a
\* process ends and whatever fails, a call that has returned holds no handle, tells
\* only what a command that succeeded has printed, and never waits for output that
\* nobody can write any more.
THEOREM AdbServed == PhonesSpec => []AdbSafe
<1>1. PhonesInv => AdbSafe
  BY AdbServes DEF PhonesInv, AdbSafe
<1> QED
  BY <1>1, PhonesAlways, PTL

\* mirror_receive_loop() and Decoder: a picture of a stream that was set up with the
\* key is decrypted at the place of the key stream where it was encrypted, one of a
\* stream without is handed on as it came, unless a second stream was set up beside a
\* handler; each is decoded after exactly the parameter sets that were sent for it, a
\* pause is shown while it lasts, sound is converted as what it is and pictures by a
\* scaler of their size if by any, and build_audio_specific_config() writes what is
\* read as the stream that was announced.
THEOREM StreamServed == PhonesSpec => []StreamSafe
<1>1. PhonesInv => Decoder!ConfigReadBack
  BY SaidOnceRead DEF PhonesInv, DecoderInv
<1>2. PhonesInv => StreamSafe
  BY <1>1, MirrorShowsPauses DEF PhonesInv, MirrorSafe, DecoderInv, Converts, StreamSafe
<1> QED
  BY <1>2, PhonesAlways, PTL

\* The variables of the sessions, of adb's calls, of the mirror streams and of the
\* decoder have their types.
THEOREM PhonesTyped == PhonesSpec => []PartsTypeOK
<1>1. PhonesInv => PartsTypeOK
  <2>1. PhonesInv => TypeOK /\ Adb!TypeOK /\ Mirror!TypeOK
    BY MirrorTyped DEF PhonesInv, SessionsInv, AdbInv, AdbTyped
  <2>2. PhonesInv => Decoder!TypeOK
    BY SaidOnceRead DEF PhonesInv, DecoderInv, DecoderTypes, Converts, Decoder!TypeOK
  <2> QED
    BY <2>1, <2>2 DEF PhonesInv, PartsTypeOK
<1> QED
  BY <1>1, PhonesAlways, PTL
=============================================================================
