--------------------------- MODULE PinentryManager ---------------------------
(***************************************************************************)
(* The daemon's side of pinentry: src/core/managers/PinentryManager.cpp    *)
(* with the part of SessionStore it works on.  A flow is a prompt sequence *)
(* of one pinentry process, named by a cookie that is also the session id. *)
(* A flow waits for the user's input (pending), then for the process to    *)
(* report what the passphrase was worth (awaiting, with a timer armed).    *)
(*                                                                         *)
(* Here any peer may send any message on any connection, at any time; what *)
(* the shipped pinentry really sends is PinentryFlow.  Prompt texts, retry *)
(* counters and key ids are left out; that the session shows an error is   *)
(* kept.  Cookies of keyring and polkit sessions are other cookies.        *)
(***************************************************************************)
EXTENDS Naturals

CONSTANTS
    Cookies,   \* session ids of pinentry flows
    Conns,     \* connections of the daemon (QLocalSocket*)
    Pids,      \* processes that may connect
    NoPid      \* no process

ASSUME NoPidAssumption == NoPid \notin Pids

VARIABLES
    peer,           \* pid at the other end of a connection; NoPid: not open
    pending,        \* m_pendingRequests: cookie |-> [conn, confirmOnly]
    awaiting,       \* keys of m_awaitingOutcome: their timers are running
    owner,          \* m_flowOwners: cookie |-> pid
    retryReported,  \* m_retryReported
    open,           \* cookies with a session in the SessionStore
    failed,         \* the open sessions whose m_error is set
    closed          \* what the last session.closed of a cookie said, and who
                    \* reported it: [result, by]; by = NoPid: nobody did

managerVars == <<pending, awaiting, owner, retryReported>>
storeVars   == <<open, failed, closed>>
vars        == <<peer, managerVars, storeVars>>

Outcomes == {"success", "cancelled", "error"}

TypeOK ==
    /\ peer \in [Conns -> Pids \cup {NoPid}]
    /\ DOMAIN pending \subseteq Cookies
    /\ \A c \in DOMAIN pending : pending[c] \in [conn : Conns, confirmOnly : BOOLEAN]
    /\ awaiting \subseteq Cookies
    /\ DOMAIN owner \subseteq Cookies
    /\ \A c \in DOMAIN owner : owner[c] \in Pids
    /\ retryReported \subseteq Cookies
    /\ open \subseteq Cookies
    /\ failed \subseteq open
    /\ closed \in [Cookies -> [result : Outcomes \cup {"none"}, by : Pids \cup {NoPid}]]

Init ==
    /\ peer = [k \in Conns |-> NoPid]
    /\ pending = [c \in {} |-> [conn |-> NoPid, confirmOnly |-> FALSE]]
    /\ awaiting = {}
    /\ owner = [c \in {} |-> NoPid]
    /\ retryReported = {}
    /\ open = {}
    /\ failed = {}
    /\ closed = [c \in Cookies |-> [result |-> "none", by |-> NoPid]]

Without(f, S)  == [c \in DOMAIN f \ S |-> f[c]]
With(f, c, v) == [d \in DOMAIN f \cup {c} |-> IF d = c THEN v ELSE f[d]]

-----------------------------------------------------------------------------
(* Pieces of the handlers.                                                 *)

\* Mutant: closeFlow forgets the session and keeps the owner of the flow.
closeFlowsKeepOwner(C, result, by) ==
    /\ open' = open \ C
    /\ failed' = failed \ C
    /\ closed' = [c \in Cookies |->
                    IF c \in C \cap open THEN [result |-> result, by |-> by] ELSE closed[c]]
    /\ pending' = Without(pending, C)
    /\ awaiting' = awaiting \ C
    /\ retryReported' = retryReported \ C
    /\ UNCHANGED owner

\* closeFlow for every cookie of C: close the session, forget the flow.
closeFlows(C, result, by) ==
    /\ open' = open \ C
    /\ failed' = failed \ C
    /\ closed' = [c \in Cookies |->
                    IF c \in C \cap open THEN [result |-> result, by |-> by] ELSE closed[c]]
    /\ pending' = Without(pending, C)
    /\ awaiting' = awaiting \ C
    /\ owner' = Without(owner, C)
    /\ retryReported' = retryReported \ C

\* Mutant: whoever knows the cookie may report.
validateNobody(c, pid) == TRUE

validateResultOwner(c, pid) == c \in DOMAIN owner => owner[c] = pid

\* Mutant: the outcome timer keeps running.
cleanupNothing(c) == UNCHANGED awaiting

cleanupAwaiting(c) == awaiting' = awaiting \ {c}

\* Mutant: a refusal is shown only if the new request says why.
requestFailsIfTold(c, hasError) == hasError /\ c \notin retryReported

\* The session gets an error with a request: it refuses the last answer, or
\* brings an error that no retry report has shown already.
requestFails(c, hasError) == c \in awaiting \/ (hasError /\ c \notin retryReported)

\* Mutant: the retry is shown, but not remembered.
reportRetryOnce(c) ==
    /\ cleanupAwaiting(c)
    /\ failed' = failed \cup {c}
    /\ UNCHANGED <<pending, owner, retryReported, open, closed>>

reportRetry(c) ==
    /\ cleanupAwaiting(c)
    /\ retryReported' = retryReported \cup {c}
    /\ failed' = failed \cup {c}
    /\ UNCHANGED <<pending, owner, open, closed>>

hasRequest(c) == c \in DOMAIN pending \/ c \in awaiting \/ c \in open

-----------------------------------------------------------------------------
(* Handlers.                                                               *)

Accept(k, pid) ==
    /\ peer[k] = NoPid
    /\ peer' = [peer EXCEPT ![k] = pid]
    /\ UNCHANGED <<managerVars, storeVars>>

isConnected(k) == peer[k] # NoPid

\* A request for another process's flow is dropped without a reply.  One that
\* finds the flow awaiting means that the passphrase was wrong.
handleRequest(c, k, confirmOnly, hasError) ==
    /\ isConnected(k)
    /\ IF c \in DOMAIN owner /\ owner[c] # peer[k]
       THEN UNCHANGED vars
       ELSE /\ owner' = With(owner, c, peer[k])
            /\ cleanupAwaiting(c)
            /\ pending' = With(pending, c, [conn |-> k, confirmOnly |-> confirmOnly])
            /\ open' = open \cup {c}
            /\ failed' = IF requestFails(c, hasError) THEN failed \cup {c} ELSE failed
            /\ retryReported' = retryReported \ {c}
            /\ UNCHANGED <<peer, closed>>

\* session.respond of an authorised UI; without a pending request it is
\* rejected and changes nothing.
handleResponse(c) ==
    /\ c \in DOMAIN pending
    /\ pending' = Without(pending, {c})
    /\ awaiting' = awaiting \cup {c}
    /\ UNCHANGED <<peer, owner, retryReported, storeVars>>

\* pinentry_result; a rejected one changes nothing.
handleResult(c, pid, result) ==
    /\ validateResultOwner(c, pid)
    /\ c \in open
    /\ \/ result \in Outcomes /\ closeFlows({c}, result, pid)
       \/ result = "retry" /\ reportRetry(c)
    /\ UNCHANGED peer

\* session.cancel of an authorised UI.
handleCancel(c) ==
    /\ hasRequest(c)
    /\ closeFlows({c}, "cancelled", NoPid)
    /\ UNCHANGED peer

\* The single-shot timer that handleResponse arms and cleanupAwaiting stops.
resultTimeout(c) ==
    /\ c \in awaiting
    /\ closeFlows({c}, "error", NoPid)
    /\ UNCHANGED peer

\* Mutant: the requests of a gone connection stay.
cleanupNoRequest(k) ==
    /\ isConnected(k)
    /\ peer' = [peer EXCEPT ![k] = NoPid]
    /\ UNCHANGED <<managerVars, storeVars>>

\* clientDisconnected: flows whose prompt came on this connection are closed.
cleanupForSocket(k) ==
    /\ isConnected(k)
    /\ closeFlows({c \in DOMAIN pending : pending[c].conn = k}, "cancelled", NoPid)
    /\ peer' = [peer EXCEPT ![k] = NoPid]

Next ==
    \/ \E k \in Conns :
          \/ \E pid \in Pids : Accept(k, pid)
          \/ \E c \in Cookies, confirmOnly, hasError \in BOOLEAN :
                handleRequest(c, k, confirmOnly, hasError)
          \/ \E c \in Cookies, result \in Outcomes \cup {"retry"} :
                isConnected(k) /\ handleResult(c, peer[k], result)
          \/ cleanupForSocket(k)
    \/ \E c \in Cookies :
          \/ handleResponse(c)
          \/ handleCancel(c)
          \/ resultTimeout(c)

Spec == Init /\ [][Next]_vars

-----------------------------------------------------------------------------
(* What the manager promises to any peers.                                 *)

\* A flow is never both waiting for input and for its outcome: a late timer
\* cannot close a session that prompts again (PinentryManager.cpp:145, 312).
PhasesAreExclusive == DOMAIN pending \cap awaiting = {}

\* The manager tracks open sessions only, and owns each of them: otherwise
\* validateResultOwner would accept a result from anyone (303-307).
OwnedIffOpen ==
    /\ DOMAIN owner = open
    /\ DOMAIN pending \cup awaiting \cup retryReported \subseteq open

\* The prompt that a passphrase would be sent to is an open connection of the
\* flow's owner: the stored socket is neither dangling nor another process's.
ReplyGoesToOwner ==
    \A c \in DOMAIN pending : peer[pending[c].conn] = owner[c]

\* An open session that waits for nothing has had its retry reported, and its
\* process is expected to ask again (185-191).
IdleOnlyAfterRetry ==
    open \subseteq DOMAIN pending \cup awaiting \cup retryReported

\* A session is closed by a report only of the process that owned it when it
\* was closed, and with success only by a report: never by the user's cancel,
\* the timer or a lost connection (PINENTRY_FLOW.md, security rules).
ClosedByOwner ==
    [][\A c \in open \ open' :
          /\ closed'[c].by \in {NoPid, owner[c]}
          /\ closed'[c].result = "success" => closed'[c].by # NoPid]_vars

\* A session that stays open after its answer was refused shows an error, and
\* goes on showing one, whichever of the two retry paths reports it (78-120,
\* 185-191).
RefusalIsShown ==
    [][\A c \in open \cap open' :
          (c \in awaiting \ awaiting' \/ c \in failed) => c \in failed']_vars
=============================================================================
