------------------------------ MODULE AgentUI ------------------------------
(***************************************************************************)
(* The side of the daemon (src/core/Agent.cpp) that the UIs see: sessions, *)
(* who is sent their events, who may answer them, and the launch of the    *)
(* fallback UI when nobody can.  Two UIs matter here: the fallback, whose  *)
(* connection is modelled message by message, and a desktop shell, of      *)
(* which only the registration is.  A session is what the managers of      *)
(* PinentryManager, KeyringManager and PolkitListener make of it: it waits *)
(* for an answer or verifies one.                                          *)
(*                                                                         *)
(* Heartbeats have no clock here: any recomputation may find a UI silent.  *)
(* ProviderRegistry has the clock.                                         *)
(***************************************************************************)
EXTENDS FallbackProcess

CONSTANTS
    Ranks,        \* priorities that the shell may register with
    FallbackRank  \* the priority of the fallback: 10

VARIABLES
    sessions,     \* m_sessions: "none", "waiting" or "verifying"
    providers,    \* m_uiProviders: priority of each registered UI
    active,       \* m_activeProvider
    subscriber,   \* the fallback's connection is in m_subscribers
    cooling       \* less than FALLBACK_LAUNCH_COOLDOWN_MS since the last launch

daemonVars == <<sessions, providers, active, subscriber, cooling>>

UIs == {"fallback", "shell"}

AgentTypeOK ==
    /\ sessions \in [Ids -> {"none", "waiting", "verifying"}]
    /\ DOMAIN providers \subseteq UIs
    /\ \A u \in DOMAIN providers : providers[u] \in Ranks \cup {FallbackRank}
    /\ active \in UIs \cup {"none"}
    /\ subscriber \in BOOLEAN
    /\ cooling \in BOOLEAN

NoProviders == [u \in {} |-> 0]

AgentInit ==
    /\ sessions = [c \in Ids |-> "none"]
    /\ providers = NoProviders
    /\ active = "none"
    /\ subscriber = FALSE
    /\ cooling = FALSE

hasRoom == Len(toClient) < MaxUnread /\ Len(toDaemon) <= MaxUnsent

open == {c \in Ids : sessions[c] # "none"}

-----------------------------------------------------------------------------
(* The role and the routing of events.                                     *)

\* A UI whose last heartbeat may be too old.  The fallback subscribes right
\* after it registers, long before that.
maySilent(u) == u = "shell" \/ subscriber \/ conn = "closing"

Registered(u, rank) ==
    [v \in DOMAIN providers \cup {u} |-> IF v = u THEN rank ELSE providers[v]]

Unregistered(u) == [v \in DOMAIN providers \ {u} |-> providers[v]]

\* recomputeActiveProvider on the table ps, in which the UIs kept have just
\* been heard.
recomputeActiveProvider(ps, kept) ==
    \E gone \in SUBSET {u \in DOMAIN ps \ kept : maySilent(u)} :
        LET left == DOMAIN ps \ gone
        IN  /\ providers' = [u \in left |-> ps[u]]
            /\ IF left = {}
               THEN active' = "none"
               ELSE active' \in {u \in left : \A v \in left : ps[v] <= ps[u]}

\* Mutant: a status goes to the registered UIs only.
emitProviderStatusToProviders ==
    IF "fallback" \in DOMAIN providers'
    THEN <<[type |-> "ui.active", who |-> active']>>
    ELSE <<>>

\* What the fallback sees of emitProviderStatus.
emitProviderStatus ==
    IF "fallback" \in DOMAIN providers' \/ subscriber'
    THEN <<[type |-> "ui.active", who |-> active']>>
    ELSE <<>>

statusIfChanged == IF active' # active THEN emitProviderStatus ELSE <<>>

\* What the fallback sees of a session event when the role is with a.
routed(event, a) ==
    IF a = "fallback" \/ (a = "none" /\ subscriber) THEN <<event>> ELSE <<>>

isAuthorizedFallback ==
    DOMAIN providers = {} \/ (active = "fallback" /\ "fallback" \in DOMAIN providers)

\* pgrep finds a process even while it exits, and may take too long to answer.
\* A second process leaves at once, for the lock file.
ensureFallbackUiRunning ==
    \E found \in {proc # "none", FALSE} :
        IF found \/ cooling
        THEN UNCHANGED <<proc, cooling>>
        ELSE /\ cooling' = TRUE
             /\ proc' = IF proc = "none" THEN "running" ELSE proc

\* The check that ends the handlers which may leave no provider behind.
ensureIfNobody ==
    IF active' = "none" /\ \E c \in Ids : sessions'[c] # "none"
    THEN ensureFallbackUiRunning
    ELSE UNCHANGED <<proc, cooling>>

-----------------------------------------------------------------------------
(* Sessions.                                                               *)

createSession(c) ==
    /\ sessions[c] = "none"
    /\ hasRoom
    /\ sessions' = [sessions EXCEPT ![c] = "waiting"]
    /\ daemonSends(routed([type |-> "session.created", id |-> c], active))
    /\ UNCHANGED <<providers, active, subscriber, conn, toDaemon>>
    /\ IF active = "none" THEN ensureFallbackUiRunning ELSE UNCHANGED <<proc, cooling>>

\* A prompt, an error of an attempt or an information.
sessionUpdate(c) ==
    /\ sessions[c] # "none"
    /\ hasRoom
    /\ sessions' = [sessions EXCEPT ![c] = "waiting"]
    /\ daemonSends(routed([type |-> "session.updated", id |-> c], active))
    /\ UNCHANGED <<providers, active, subscriber, conn, toDaemon, proc, cooling>>

\* closeSession recomputes before it emits, onSessionComplete after; both
\* only when the store has become empty.
closeSession(c, result) ==
    LET closed == [type |-> "session.closed", id |-> c, result |-> result]
    IN  /\ sessions' = [sessions EXCEPT ![c] = "none"]
        /\ UNCHANGED <<subscriber, conn, proc, cooling>>
        /\ \/ /\ open = {c}
              /\ recomputeActiveProvider(providers, {})
              /\ \/ daemonSends(statusIfChanged \o routed(closed, active'))
                 \/ daemonSends(routed(closed, active) \o statusIfChanged)
           \/ /\ open # {c}
              /\ daemonSends(routed(closed, active))
              /\ UNCHANGED <<providers, active>>

\* The manager, the requester or the shell ends a session.
SessionEnds(c, result) ==
    /\ hasRoom
    /\ sessions[c] # "none"
    /\ closeSession(c, result)
    /\ UNCHANGED toDaemon

-----------------------------------------------------------------------------
(* Messages of the fallback.  Replies that it ignores are left out.        *)

handleUIRegister ==
    /\ UNCHANGED <<sessions, subscriber, proc, cooling>>
    /\ recomputeActiveProvider(Registered("fallback", FallbackRank), {"fallback"})
    /\ LET reply == [type |-> "ui.registered", active |-> active' = "fallback"]
       IN  daemonSends(<<reply>> \o
               IF active' # active \/ active' = "fallback"
               THEN emitProviderStatus ELSE <<>>)

\* The orders in which the open sessions may be replayed.
Orders(S) ==
    {s \in [1..Cardinality(S) -> S] : \A i, j \in DOMAIN s : s[i] = s[j] => i = j}

\* The update that follows each session.created changes nothing more.
handleSubscribe ==
    LET registered  == "fallback" \in DOMAIN providers
        isActive    == registered /\ active = "fallback"
        replayed    == IF ~registered \/ isActive THEN open ELSE {}
    IN  /\ subscriber' = TRUE
        /\ \E order \in Orders(replayed) :
              daemonSends(
                  [i \in DOMAIN order |-> [type |-> "session.created", id |-> order[i]]]
                  \o <<[type |-> "subscribed", registered |-> registered, active |-> isActive]>>)
        /\ UNCHANGED <<sessions, providers, active, proc, cooling>>

refuse == daemonSends(<<[type |-> "error"]>>)

\* The answer is verified, or is of no use to the session; a session that is
\* gone is answered with an error that the client only displays.  The keyring
\* answers and closes in one go; here its SessionEnds is a step that follows.
handleRespond(c) ==
    /\ \/ ~isAuthorizedFallback /\ refuse /\ UNCHANGED sessions
       \/ /\ isAuthorizedFallback
          /\ sessions' = [sessions EXCEPT ![c] = IF @ = "none" THEN @ ELSE "verifying"]
          /\ UNCHANGED toClient
    /\ UNCHANGED <<providers, active, subscriber, proc, cooling>>

handleCancel(c) ==
    \/ /\ ~isAuthorizedFallback
       /\ refuse
       /\ UNCHANGED <<sessions, providers, active, subscriber, conn, proc, cooling>>
    \/ /\ isAuthorizedFallback /\ sessions[c] # "none"
       /\ closeSession(c, "cancelled")
    \/ /\ isAuthorizedFallback /\ sessions[c] = "none"
       /\ UNCHANGED <<sessions, providers, active, subscriber, conn, toClient, proc, cooling>>

handleMessage ==
    /\ conn \in {"open", "closing"}
    /\ toDaemon # <<>>
    /\ Len(toClient) < MaxUnread
    /\ toDaemon' = Tail(toDaemon)
    /\ UNCHANGED conn
    /\ LET m == Head(toDaemon)
       IN  \/ m.type = "ui.register" /\ handleUIRegister
           \/ m.type = "subscribe" /\ handleSubscribe
           \/ m.type = "session.respond" /\ handleRespond(m.id)
           \/ m.type = "session.cancel" /\ handleCancel(m.id)

onClientDisconnected ==
    /\ conn = "closing"
    /\ toDaemon = <<>>
    /\ conn' = "none"
    /\ subscriber' = FALSE
    /\ \/ /\ "fallback" \in DOMAIN providers
          /\ recomputeActiveProvider(Unregistered("fallback"), {})
       \/ /\ "fallback" \notin DOMAIN providers
          /\ UNCHANGED <<providers, active>>
    /\ UNCHANGED <<sessions, toDaemon, toClient>>
    /\ ensureIfNobody

-----------------------------------------------------------------------------
(* The shell, the timers and the end of the daemon.                        *)

\* Mutant: whoever has the role keeps it.
ShellRegistersBehind(rank) ==
    /\ hasRoom
    /\ UNCHANGED <<sessions, subscriber, conn, toDaemon, proc, cooling>>
    /\ providers' = Registered("shell", rank)
    /\ active' = IF active = "none" THEN "shell" ELSE active
    /\ daemonSends(statusIfChanged)

ShellRegisters(rank) ==
    /\ hasRoom
    /\ UNCHANGED <<sessions, subscriber, conn, toDaemon, proc, cooling>>
    /\ recomputeActiveProvider(Registered("shell", rank), {"shell"})
    /\ daemonSends(IF active' # active \/ active' = "shell"
                   THEN emitProviderStatus ELSE <<>>)

\* It unregisters or its connection ends.
ShellLeaves ==
    /\ "shell" \in DOMAIN providers
    /\ hasRoom
    /\ UNCHANGED <<sessions, subscriber, conn, toDaemon>>
    /\ recomputeActiveProvider(Unregistered("shell"), {})
    /\ daemonSends(statusIfChanged)
    /\ ensureIfNobody

\* Mutant: the maintenance timer does not look for a fallback.
pruneStaleProvidersOnly ==
    /\ hasRoom
    /\ UNCHANGED <<sessions, subscriber, conn, toDaemon, proc, cooling>>
    /\ recomputeActiveProvider(providers, {})
    /\ daemonSends(statusIfChanged)

\* A disconnect of any other socket ends with the same look (Agent.cpp:167-169)
\* and does nothing more of its own here, so it is one of these steps.
pruneStaleProviders ==
    /\ hasRoom
    /\ UNCHANGED <<sessions, subscriber, conn, toDaemon>>
    /\ recomputeActiveProvider(providers, {})
    /\ daemonSends(statusIfChanged)
    /\ ensureIfNobody

CooldownEnds ==
    /\ cooling
    /\ cooling' = FALSE
    /\ UNCHANGED <<sessions, providers, active, subscriber, proc, conn, toDaemon, toClient>>

\* It starts again with nothing: sessions and registrations are not saved.
DaemonRestarts ==
    /\ sessions' = [c \in Ids |-> "none"]
    /\ providers' = NoProviders
    /\ active' = "none"
    /\ subscriber' = FALSE
    /\ cooling' = FALSE
    /\ daemonHangsUp
    /\ UNCHANGED proc
=============================================================================
