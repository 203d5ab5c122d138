-------------------------- MODULE FallbackProcess --------------------------
(***************************************************************************)
(* The process bb-auth-fallback as the daemon and the system see it: the   *)
(* process itself and its connection to the daemon's local socket.  A      *)
(* connection delivers in order and loses only what is unread when one     *)
(* end goes.  One process at a time holds the lock file, and so at most    *)
(* one connection of this kind is open.                                    *)
(***************************************************************************)
EXTENDS Sequences, Naturals, FiniteSets

CONSTANTS
    Ids,       \* session ids
    NoId,      \* the empty string
    MaxUnread, \* bounds: the daemon does nothing that it may tell the client
    MaxUnsent  \* of while the client has MaxUnread messages to read, and
               \* neither starts anything while the daemon has more than
               \* MaxUnsent to read

ASSUME IdsAssumption == NoId \notin Ids /\ IsFiniteSet(Ids)

VARIABLES
    proc,      \* "none", "running", or "exiting": still found by pgrep
    conn,      \* "none", "open", "closing" (the client hung up) or
               \* "lost" (the daemon died; the client has yet to notice)
    toDaemon,  \* what the daemon has not read
    toClient   \* what the client has not read

socketVars == <<conn, toDaemon, toClient>>

daemonSends(messages) ==
    toClient' = IF conn = "open" THEN toClient \o messages ELSE toClient

clientSends(messages) ==
    toDaemon' = IF conn = "open" THEN toDaemon \o messages ELSE toDaemon

\* The client's end closes; what it sent is still read.
clientHangsUp(lastWords) ==
    /\ toClient' = <<>>
    /\ \/ /\ conn = "open"
          /\ conn' = "closing"
          /\ toDaemon' = toDaemon \o lastWords
       \/ /\ conn = "lost"
          /\ conn' = "none"
          /\ UNCHANGED toDaemon
       \/ /\ conn \in {"none", "closing"}
          /\ UNCHANGED <<conn, toDaemon>>

\* The daemon's end goes without a farewell; what it sent is still read.
daemonHangsUp ==
    /\ toDaemon' = <<>>
    /\ conn' = CASE conn = "open"    -> "lost"
                 [] conn = "closing" -> "none"
                 [] OTHER            -> conn
    /\ UNCHANGED toClient
=============================================================================
