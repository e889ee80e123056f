---------------------------- MODULE SocketTable ----------------------------
(***************************************************************************)
(* The operating system's table of socket handles, as the program meets it *)
(* through accept(), socket() and closesocket().  A handle is a plain      *)
(* number: it denotes whatever endpoint the system has bound to it last,   *)
(* and once closed it is free to be handed out again.  Code that keeps a   *)
(* handle after somebody else has closed it therefore keeps a name, not a  *)
(* connection; this is all the modules that use the table need of it.      *)
(***************************************************************************)

CONSTANTS
    Handles,   \* the values the system hands out as socket handles
    NoHandle,  \* INVALID_SOCK
    Nobody     \* the owner of a free handle, and of a free mutex

ASSUME NoHandleAssumption == NoHandle \notin Handles

\* The handles the system may hand out next.
FreeHandles(table) == {h \in Handles : table[h] = Nobody}

\* accept() or socket() binds a free handle to a new endpoint.
Bound(table, h, endpoint) == [table EXCEPT ![h] = endpoint]

\* closesocket(): frees the handle, whatever it denotes by now.  Closing
\* INVALID_SOCK or a handle that is already free changes nothing.
Closed(table, h) ==
    [x \in Handles |-> IF x = h THEN Nobody ELSE table[x]]
=============================================================================
