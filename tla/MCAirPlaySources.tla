-------------------------- MODULE MCAirPlaySources --------------------------
(***************************************************************************)
(* Instances of AirPlaySources for TLC: which device each thread slot      *)
(* serves, and which values are interchangeable.                           *)
(***************************************************************************)
EXTENDS AirPlaySources, TLC

CONSTANTS a, b,               \* devices
          a1, a2, b1,         \* mirror handlers
          s1, s2, t1,         \* audio threads
          ka                  \* disconnect threads

MCPeerOf ==
    [t \in Conns \cup AudioThreads \cup Kickers |->
        IF t \in {a1, a2, s1, s2, ka} THEN a ELSE b]

HandleSymmetry == Permutations(Handles)
=============================================================================
