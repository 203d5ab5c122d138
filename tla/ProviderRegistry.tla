-------------------------- MODULE ProviderRegistry --------------------------
(***************************************************************************)
(* The registry of UI providers (src/core/agent/ProviderRegistry.cpp) with *)
(* the handlers of CAgent that drive it.  A provider is a client socket    *)
(* that sent "ui.register"; exactly one of them, the active one, may       *)
(* answer authentication sessions.  The daemon is single-threaded: one     *)
(* action is one event-loop callback, run to its end.                      *)
(*                                                                         *)
(* Time is kept as ages, in ticks.  age is nowMs - lastHeartbeatMs and     *)
(* sinceMaintenance the time since the maintenance timer last fired, so no *)
(* clock grows without bound.  The wall clock is taken not to jump.        *)
(***************************************************************************)
EXTENDS Integers

CONSTANTS
    Sockets,      \* client connections of the daemon
    Priorities,   \* priorities that a provider may register with
    Timeout,      \* PROVIDER_HEARTBEAT_TIMEOUT_MS
    Interval,     \* PROVIDER_MAINTENANCE_INTERVAL_MS
    NoSocket      \* nullptr

ASSUME SocketsAssumption    == NoSocket \notin Sockets
ASSUME PrioritiesAssumption == Priorities \subseteq Int
ASSUME TimeoutAssumption    == Timeout \in Nat
ASSUME IntervalAssumption   == Interval \in Nat \ {0}

VARIABLES
    socketState,      \* QLocalSocket::state() of every connection
    providers,        \* m_uiProviders: a function on the registered sockets
    active,           \* m_activeProvider
    told,             \* told[s]: s was last told that it is the active provider
    sinceMaintenance  \* age of the last m_providerMaintenanceTimer timeout

vars == <<socketState, providers, active, told, sinceMaintenance>>

\* "Closing": no longer ConnectedState, its disconnected signal still queued.
SocketStates == {"Unconnected", "Connected", "Closing"}

Provider == [priority : Priorities, age : Nat]

TypeOK ==
    /\ socketState \in [Sockets -> SocketStates]
    /\ DOMAIN providers \subseteq Sockets
    /\ \A s \in DOMAIN providers : providers[s] \in Provider
    /\ active \in Sockets \cup {NoSocket}
    /\ told \in [Sockets -> BOOLEAN]
    /\ sinceMaintenance \in 0..Interval

Init ==
    /\ socketState = [s \in Sockets |-> "Unconnected"]
    /\ providers = [s \in {} |-> [priority |-> 0, age |-> 0]]
    /\ active = NoSocket
    /\ told = [s \in Sockets |-> FALSE]
    /\ sinceMaintenance = 0

-----------------------------------------------------------------------------
(* Queries and the recomputation every handler ends with.                  *)

\* Mutant: a provider is dropped for its socket only, never for its silence.
LiveNoTimeout(ps) == {s \in DOMAIN ps : socketState[s] = "Connected"}

Live(ps) == {s \in DOMAIN ps : socketState[s] = "Connected" /\ ps[s].age <= Timeout}

Outranks(p, q) ==
    \/ p.priority > q.priority
    \/ p.priority = q.priority /\ p.age < q.age

\* Mutant: the tie-break on the heartbeat is forgotten.
BestByPriority(ps) ==
    {s \in Live(ps) : \A t \in Live(ps) : ps[t].priority <= ps[s].priority}

\* The hash order decides between providers that tie on both criteria.
Best(ps) == {s \in Live(ps) : \A t \in Live(ps) : ~Outranks(ps[t], ps[s])}

hasActiveProvider == active # NoSocket /\ active \in DOMAIN providers

isAuthorized(s) ==
    \/ DOMAIN providers = {}
    \/ s \in DOMAIN providers /\ s = active

\* recomputeActiveProvider on the table ps: erase the dead, pick the best.
recomputeActiveProvider(ps) ==
    /\ providers' = [s \in Live(ps) |-> ps[s]]
    /\ IF Live(ps) = {} THEN active' = NoSocket ELSE active' \in Best(ps)

\* emitProviderStatus, to every socket that is still registered; rest is what
\* the other replies of the handler told.
emitProviderStatus(rest) ==
    told' = [s \in Sockets |-> IF s \in DOMAIN providers' THEN s = active' ELSE rest[s]]

recomputeAndEmit(ps) ==
    /\ recomputeActiveProvider(ps)
    /\ IF active' # active THEN emitProviderStatus(told) ELSE UNCHANGED told

-----------------------------------------------------------------------------
(* Connections.                                                            *)

Connect(s) ==
    /\ socketState[s] = "Unconnected"
    /\ socketState' = [socketState EXCEPT ![s] = "Connected"]
    /\ told' = [told EXCEPT ![s] = FALSE]
    /\ UNCHANGED <<providers, active, sinceMaintenance>>

StartClosing(s) ==
    /\ socketState[s] = "Connected"
    /\ socketState' = [socketState EXCEPT ![s] = "Closing"]
    /\ UNCHANGED <<providers, active, told, sinceMaintenance>>

Without(s) == [t \in DOMAIN providers \ {s} |-> providers[t]]

\* Mutant: the registry is not told, and waits for the next recomputation.
onClientDisconnectedUnseen(s) ==
    /\ socketState[s] # "Unconnected"
    /\ socketState' = [socketState EXCEPT ![s] = "Unconnected"]
    /\ UNCHANGED <<providers, active, told, sinceMaintenance>>

\* A socket that was no provider recomputes only when closing its requests
\* empties the session store, as SessionsDrained does.
onClientDisconnected(s) ==
    /\ socketState[s] # "Unconnected"
    /\ socketState' = [socketState EXCEPT ![s] = "Unconnected"]
    /\ \/ recomputeAndEmit(Without(s))
       \/ s \notin DOMAIN providers /\ UNCHANGED <<providers, active, told>>
    /\ UNCHANGED sinceMaintenance

-----------------------------------------------------------------------------
(* Messages of the providers.                                              *)

Registered(s, p) ==
    [t \in DOMAIN providers \cup {s} |->
        IF t = s THEN [priority |-> p, age |-> 0] ELSE providers[t]]

\* Mutant: the status is broadcast only when the new provider takes the role.
handleUIRegisterQuiet(s, p) ==
    /\ socketState[s] # "Unconnected"
    /\ recomputeActiveProvider(Registered(s, p))
    /\ LET replied == [told EXCEPT ![s] = (s = active')]
       IN  IF s = active' THEN emitProviderStatus(replied) ELSE told' = replied
    /\ UNCHANGED <<socketState, sinceMaintenance>>

\* The reply carries "active", then the status goes to all if it is news.
handleUIRegister(s, p) ==
    /\ socketState[s] # "Unconnected"
    /\ recomputeActiveProvider(Registered(s, p))
    /\ LET replied == [told EXCEPT ![s] = (s = active')]
       IN  IF active' # active \/ s = active'
           THEN emitProviderStatus(replied)
           ELSE told' = replied
    /\ UNCHANGED <<socketState, sinceMaintenance>>

Beaten(s) == [providers EXCEPT ![s].age = 0]

\* A socket that is not registered gets an error and nothing changes.
handleUIHeartbeat(s) ==
    /\ socketState[s] # "Unconnected"
    /\ s \in DOMAIN providers
    /\ recomputeActiveProvider(Beaten(s))
    /\ LET replied == [told EXCEPT ![s] = (s = active')]
       IN  IF active' # active THEN emitProviderStatus(replied) ELSE told' = replied
    /\ UNCHANGED <<socketState, sinceMaintenance>>

\* Mutant: the table shrinks and the role is not recomputed.
handleUIUnregisterOnly(s) ==
    /\ socketState[s] # "Unconnected"
    /\ s \in DOMAIN providers
    /\ providers' = Without(s)
    /\ UNCHANGED <<socketState, active, told, sinceMaintenance>>

handleUIUnregister(s) ==
    /\ socketState[s] # "Unconnected"
    /\ s \in DOMAIN providers
    /\ recomputeAndEmit(Without(s))
    /\ UNCHANGED <<socketState, sinceMaintenance>>

-----------------------------------------------------------------------------
(* Events that are not the providers' own.                                 *)

\* closeSession and onSessionComplete recompute when no session is left.
SessionsDrained ==
    /\ recomputeAndEmit(providers)
    /\ UNCHANGED <<socketState, sinceMaintenance>>

\* Mutant: an open connection counts as a heartbeat.
pruneRefreshing ==
    /\ sinceMaintenance = Interval
    /\ sinceMaintenance' = 0
    /\ recomputeAndEmit([s \in DOMAIN providers |-> [providers[s] EXCEPT !.age = 0]])
    /\ UNCHANGED socketState

pruneStaleProviders ==
    /\ sinceMaintenance = Interval
    /\ sinceMaintenance' = 0
    /\ recomputeAndEmit(providers)
    /\ UNCHANGED socketState

\* Time does not pass the moment at which the maintenance timer is due.
Tick ==
    /\ sinceMaintenance < Interval
    /\ sinceMaintenance' = sinceMaintenance + 1
    /\ providers' = [s \in DOMAIN providers |-> [providers[s] EXCEPT !.age = @ + 1]]
    /\ UNCHANGED <<socketState, active, told>>

Next ==
    \/ \E s \in Sockets :
          \/ Connect(s)
          \/ StartClosing(s)
          \/ onClientDisconnected(s)
          \/ \E p \in Priorities : handleUIRegister(s, p)
          \/ handleUIHeartbeat(s)
          \/ handleUIUnregister(s)
    \/ SessionsDrained
    \/ pruneStaleProviders
    \/ Tick

Spec == Init /\ [][Next]_vars

\* The event loop delivers due timers and queued signals; clients promise
\* nothing, neither to beat nor to stay.
Fairness ==
    /\ WF_vars(Tick)
    /\ WF_vars(pruneStaleProviders)
    /\ \A s \in Sockets : WF_vars(socketState[s] = "Closing" /\ onClientDisconnected(s))

FairSpec == Spec /\ Fairness

-----------------------------------------------------------------------------
(* What the registry promises.                                             *)

\* Some registered provider always holds the role while one is registered, so
\* isAuthorized never locks every socket out (ProviderRegistry.cpp:111-121).
SomeoneIsActive ==
    /\ DOMAIN providers = {} <=> active = NoSocket
    /\ active # NoSocket => active \in DOMAIN providers

\* No registered provider outranks the active one, after any handler and at
\* any age (README: highest priority, tie to the most recent heartbeat).
ActiveIsBest ==
    \A s \in DOMAIN providers : ~Outranks(providers[s], providers[active])

\* No entry, and so not the role either, refers to a socket that was deleted:
\* onClientDisconnected removes it before the socket goes (Agent.cpp:151-161).
NoDanglingSocket ==
    \A s \in DOMAIN providers : socketState[s] # "Unconnected"

\* A provider that stopped beating is kept at most one maintenance interval
\* past its timeout, whatever else the daemon handles (Agent.cpp:137-140).
BoundedStaleness ==
    \A s \in DOMAIN providers : providers[s].age <= Timeout + sinceMaintenance

\* What a registered provider was last told about the role is the truth: no
\* handler moves the role without the broadcast (Agent.cpp:229-270, 520-542).
ToldTheTruth ==
    \A s \in DOMAIN providers :
        socketState[s] = "Connected" => (told[s] <=> s = active)

\* Without ages and sockets, the registry does what ProviderRole promises: the
\* role is never anywhere but with a provider of the highest priority, not even
\* within a handler's own step (ProviderRegistry.cpp:72-105).
Role == INSTANCE ProviderRole
            WITH UIs <- Sockets, Nobody <- NoSocket,
                 priority <- [s \in DOMAIN providers |-> providers[s].priority],
                 holder <- active

ImplementsRole == Role!Spec

\* A provider that falls silent for ever leaves the registry for good, even
\* if its socket stays open (README: dead providers auto-prune).
Speaks(s) == handleUIHeartbeat(s) \/ \E p \in Priorities : handleUIRegister(s, p)

SilentIsPruned ==
    \A s \in Sockets :
        <>[][~Speaks(s)]_vars => <>[](s \notin DOMAIN providers)
=============================================================================
