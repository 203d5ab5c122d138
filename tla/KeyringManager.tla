--------------------------- MODULE KeyringManager ---------------------------
(***************************************************************************)
(* The daemon's side of the keyring: src/core/managers/KeyringManager.cpp. *)
(* A request names itself with a cookie, which is also its session's id,   *)
(* and is answered once: with the password, or with a cancel.  There is no *)
(* check of owners, no retry and no timer; the prompter sends every prompt *)
(* as a new request.  Titles, texts and the requestor are left out, and so *)
(* is the word that session.closed brings.                                 *)
(***************************************************************************)
EXTENDS FiniteSets

CONSTANTS
    Cookies,   \* session ids of keyring requests
    Conns      \* connections of the daemon (QLocalSocket*)

VARIABLES
    connected, \* connections that are open at the daemon's end
    pending,   \* m_pendingRequests: cookie |-> connection
    open       \* cookies with a session in the SessionStore

managerVars == <<pending, open>>

ManagerTypeOK ==
    /\ connected \subseteq Conns
    /\ DOMAIN pending \subseteq Cookies
    /\ \A c \in DOMAIN pending : pending[c] \in Conns
    /\ open \subseteq Cookies

\* Also what a restart of the daemon leaves.
ManagerInit ==
    /\ connected = {}
    /\ pending = [c \in {} |-> {}]
    /\ open = {}

Without(f, S) == [c \in DOMAIN f \ S |-> f[c]]
With(f, c, v) == [d \in DOMAIN f \cup {c} |-> IF d = c THEN v ELSE f[d]]

closeRequests(C) ==
    /\ pending' = Without(pending, C)
    /\ open' = open \ C

\* The session is created and its prompt set.
handleRequest(c, k) ==
    /\ pending' = With(pending, c, k)
    /\ open' = open \cup {c}

\* The reply says "ok" and brings the response, whatever was asked.
handleResponse(c) == c \in DOMAIN pending /\ closeRequests({c})

\* Mutant: a cancel leaves the session on the screen.
handleCancelQuiet(c) ==
    /\ c \in DOMAIN pending
    /\ pending' = Without(pending, {c})
    /\ UNCHANGED open

handleCancel(c) == c \in DOMAIN pending /\ closeRequests({c})

\* Mutant: the requests of a connection that is gone stay.
cleanupNothing(k) == connected' = connected \ {k} /\ UNCHANGED managerVars

\* clientDisconnected.
cleanupForSocket(k) ==
    /\ connected' = connected \ {k}
    /\ closeRequests({c \in DOMAIN pending : pending[c] = k})
=============================================================================
