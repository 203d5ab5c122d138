----------------------- MODULE ProviderRegistryProofs -----------------------
(***************************************************************************)
(* The invariants of ProviderRegistry for any sockets, priorities, timeout *)
(* and interval.  They are inductive only together: what the role is after *)
(* a handler follows from the recomputation alone, but whether a broadcast *)
(* was needed depends on what was told and who was active before it.       *)
(***************************************************************************)
EXTENDS ProviderRegistry, TLAPS

IInv ==
    /\ TypeOK
    /\ SomeoneIsActive
    /\ ActiveIsBest
    /\ NoDanglingSocket
    /\ BoundedStaleness
    /\ ToldTheTruth

\* A provider table of the right type.
IsTable(ps) ==
    /\ DOMAIN ps \subseteq Sockets
    /\ \A s \in DOMAIN ps : ps[s] \in Provider

\* Whatever table it is given, recomputeActiveProvider leaves only its live
\* entries, and the role with the best of them or with nobody
\* (ProviderRegistry.cpp:72-105).
LEMMA RecomputeElects ==
    ASSUME NEW ps, IsTable(ps), recomputeActiveProvider(ps)
    PROVE  /\ DOMAIN providers' = Live(ps)
           /\ Live(ps) \subseteq DOMAIN ps
           /\ \A s \in DOMAIN providers' :
                 providers'[s] = ps[s] /\ socketState[s] = "Connected"
           /\ IsTable(providers')
           /\ active' \in Sockets \cup {NoSocket}
           /\ SomeoneIsActive'
           /\ ActiveIsBest'
           /\ \A s \in DOMAIN providers' : providers'[s].age <= Timeout
<1>1. /\ providers' = [s \in Live(ps) |-> ps[s]]
      /\ Live(ps) = {} => active' = NoSocket
      /\ Live(ps) # {} => active' \in Best(ps)
  BY DEF recomputeActiveProvider
<1>2. Live(ps) \subseteq DOMAIN ps /\ Live(ps) \subseteq Sockets
  BY DEF Live, IsTable
<1>3. Best(ps) \subseteq Live(ps)
  BY DEF Best
<1>4. \A s \in Live(ps) : socketState[s] = "Connected" /\ ps[s].age <= Timeout
  BY DEF Live
<1>5. IsTable(providers')
  BY <1>1, <1>2 DEF IsTable
<1>6. active' \in Sockets \cup {NoSocket} /\ SomeoneIsActive'
  BY <1>1, <1>2, <1>3, SocketsAssumption DEF SomeoneIsActive
<1>7. ActiveIsBest'
  BY <1>1, <1>3 DEF ActiveIsBest, Best, Outranks
<1> QED
  BY <1>1, <1>2, <1>4, <1>5, <1>6, <1>7

\* A handler that recomputes on a table without new entries, and broadcasts
\* when the role moved, leaves everyone who is still registered informed.
LEMMA EmitInforms ==
    ASSUME IInv, NEW ps, IsTable(ps), DOMAIN ps \subseteq DOMAIN providers,
           recomputeAndEmit(ps)
    PROVE  /\ told' \in [Sockets -> BOOLEAN]
           /\ \A s \in DOMAIN providers' :
                 socketState[s] = "Connected" => (told'[s] <=> s = active')
<1>1. recomputeActiveProvider(ps)
  BY DEF recomputeAndEmit
<1>2. DOMAIN providers' \subseteq DOMAIN providers
  BY <1>1, RecomputeElects
<1>3. DOMAIN providers \subseteq Sockets /\ told \in [Sockets -> BOOLEAN]
  BY DEF IInv, TypeOK
<1>4. CASE active' # active
  <2>1. told' = [s \in Sockets |-> IF s \in DOMAIN providers' THEN s = active' ELSE told[s]]
    BY <1>4 DEF recomputeAndEmit, emitProviderStatus
  <2> QED
    BY <2>1, <1>2, <1>3
<1>5. CASE active' = active
  <2>1. told' = told
    BY <1>5 DEF recomputeAndEmit
  <2>2. \A s \in DOMAIN providers : socketState[s] = "Connected" => (told[s] <=> s = active)
    BY DEF IInv, ToldTheTruth
  <2> QED
    BY <1>2, <1>3, <1>5, <2>1, <2>2
<1> QED
  BY <1>4, <1>5

\* The same with the reply to s, who may be new in the table.
LEMMA ReplyInforms ==
    ASSUME IInv, NEW s \in Sockets, NEW ps, IsTable(ps),
           DOMAIN ps \subseteq DOMAIN providers \cup {s},
           recomputeActiveProvider(ps),
           LET replied == [told EXCEPT ![s] = (s = active')]
           IN  \/ emitProviderStatus(replied)
               \/ active' = active /\ told' = replied
    PROVE  /\ told' \in [Sockets -> BOOLEAN]
           /\ \A t \in DOMAIN providers' :
                 socketState[t] = "Connected" => (told'[t] <=> t = active')
<1> DEFINE replied == [told EXCEPT ![s] = (s = active')]
<1>1. DOMAIN providers' \subseteq DOMAIN providers \cup {s}
  BY RecomputeElects
<1>2. /\ DOMAIN providers \subseteq Sockets
      /\ told \in [Sockets -> BOOLEAN]
      /\ replied \in [Sockets -> BOOLEAN]
  BY DEF IInv, TypeOK
<1>3. CASE emitProviderStatus(replied)
  <2>1. told' = [t \in Sockets |-> IF t \in DOMAIN providers' THEN t = active' ELSE replied[t]]
    BY <1>3 DEF emitProviderStatus
  <2> QED
    BY <2>1, <1>1, <1>2
<1>4. CASE active' = active /\ told' = replied
  <2>1. \A t \in DOMAIN providers : socketState[t] = "Connected" => (told[t] <=> t = active)
    BY DEF IInv, ToldTheTruth
  <2>2. \A t \in Sockets : replied[t] = IF t = s THEN s = active' ELSE told[t]
    BY <1>2
  <2> QED
    BY <1>1, <1>2, <1>4, <2>1, <2>2
<1> QED
  BY <1>3, <1>4

-----------------------------------------------------------------------------

LEMMA InitIInv == Init => IInv
  BY SocketsAssumption, IntervalAssumption
     DEF Init, IInv, TypeOK, SomeoneIsActive, ActiveIsBest, NoDanglingSocket,
         BoundedStaleness, ToldTheTruth, SocketStates

\* What is left to show of a handler that recomputed: its table had fresh
\* enough entries to begin with, and everyone was told.
LEMMA RecomputedIInv ==
    ASSUME IInv, NEW ps, IsTable(ps), recomputeActiveProvider(ps),
           socketState' \in [Sockets -> SocketStates],
           sinceMaintenance' \in 0..Interval,
           told' \in [Sockets -> BOOLEAN],
           ToldTheTruth', NoDanglingSocket'
    PROVE  IInv'
<1>1. /\ IsTable(providers')
      /\ active' \in Sockets \cup {NoSocket}
      /\ SomeoneIsActive'
      /\ ActiveIsBest'
      /\ \A s \in DOMAIN providers' : providers'[s].age <= Timeout
  BY RecomputeElects
<1>2. TypeOK'
  BY <1>1 DEF TypeOK, IsTable
<1>3. BoundedStaleness'
  <2>1. \A s \in DOMAIN providers' : providers'[s].age \in Int
    BY <1>1 DEF IsTable, Provider
  <2> QED
    BY <1>1, <2>1, TimeoutAssumption, IntervalAssumption DEF BoundedStaleness
<1> QED
  BY <1>1, <1>2, <1>3 DEF IInv

LEMMA NextIInv == IInv /\ [Next]_vars => IInv'
<1> SUFFICES ASSUME IInv, [Next]_vars PROVE IInv'
  OBVIOUS
<1> USE SocketsAssumption, PrioritiesAssumption, TimeoutAssumption, IntervalAssumption
<1>0. /\ TypeOK /\ SomeoneIsActive /\ ActiveIsBest /\ BoundedStaleness /\ ToldTheTruth
      /\ NoDanglingSocket
      /\ IsTable(providers)
      /\ \A s \in Sockets : IsTable(Without(s)) /\ DOMAIN Without(s) = DOMAIN providers \ {s}
  BY DEF IInv, TypeOK, IsTable, Without
<1>1. ASSUME NEW s \in Sockets, Connect(s) PROVE IInv'
  <2>1. s \notin DOMAIN providers
    BY <1>0, <1>1 DEF Connect, NoDanglingSocket
  <2> QED
    BY <1>0, <1>1, <2>1 DEF Connect, IInv, TypeOK, SomeoneIsActive, ActiveIsBest,
       NoDanglingSocket, BoundedStaleness, ToldTheTruth, SocketStates
<1>2. ASSUME NEW s \in Sockets, StartClosing(s) PROVE IInv'
  BY <1>0, <1>2 DEF StartClosing, IInv, TypeOK, SomeoneIsActive, ActiveIsBest,
     NoDanglingSocket, BoundedStaleness, ToldTheTruth, SocketStates
<1>3. ASSUME NEW s \in Sockets, onClientDisconnected(s) PROVE IInv'
  <2>1. socketState' = [socketState EXCEPT ![s] = "Unconnected"]
        /\ sinceMaintenance' = sinceMaintenance
    BY <1>3 DEF onClientDisconnected
  <2>2. CASE recomputeAndEmit(Without(s))
    <3>1. recomputeActiveProvider(Without(s))
      BY <2>2 DEF recomputeAndEmit
    <3>2. /\ told' \in [Sockets -> BOOLEAN]
          /\ \A t \in DOMAIN providers' :
                socketState[t] = "Connected" => (told'[t] <=> t = active')
      BY <1>0, <2>2, EmitInforms
    <3>3. DOMAIN providers' \subseteq DOMAIN providers \ {s}
      BY <1>0, <3>1, RecomputeElects
    <3>4. ToldTheTruth' /\ NoDanglingSocket'
      BY <1>0, <2>1, <3>2, <3>3 DEF ToldTheTruth, NoDanglingSocket, TypeOK
    <3> QED
      BY <1>0, <2>1, <3>1, <3>2, <3>4, RecomputedIInv DEF TypeOK, SocketStates
  <2>3. CASE s \notin DOMAIN providers /\ UNCHANGED <<providers, active, told>>
    BY <1>0, <2>1, <2>3 DEF IInv, TypeOK, SomeoneIsActive, ActiveIsBest,
       NoDanglingSocket, BoundedStaleness, ToldTheTruth, SocketStates
  <2> QED
    BY <1>3, <2>2, <2>3 DEF onClientDisconnected
<1>4. ASSUME NEW s \in Sockets, NEW p \in Priorities, handleUIRegister(s, p) PROVE IInv'
  <2>1. IsTable(Registered(s, p)) /\ DOMAIN Registered(s, p) = DOMAIN providers \cup {s}
    BY <1>0 DEF IsTable, Registered, Provider
  <2>2. recomputeActiveProvider(Registered(s, p)) /\ UNCHANGED <<socketState, sinceMaintenance>>
    BY <1>4 DEF handleUIRegister
  <2>3. /\ told' \in [Sockets -> BOOLEAN]
        /\ \A t \in DOMAIN providers' :
              socketState[t] = "Connected" => (told'[t] <=> t = active')
    BY <1>4, <2>1, <2>2, ReplyInforms DEF handleUIRegister
  <2> QED
    BY <1>0, <2>1, <2>2, <2>3, RecomputedIInv,
       RecomputeElects DEF TypeOK, ToldTheTruth, NoDanglingSocket
<1>5. ASSUME NEW s \in Sockets, handleUIHeartbeat(s) PROVE IInv'
  <2>1. IsTable(Beaten(s)) /\ DOMAIN Beaten(s) = DOMAIN providers
    BY <1>0, <1>5 DEF IsTable, Beaten, Provider, handleUIHeartbeat
  <2>2. recomputeActiveProvider(Beaten(s)) /\ UNCHANGED <<socketState, sinceMaintenance>>
    BY <1>5 DEF handleUIHeartbeat
  <2>3. /\ told' \in [Sockets -> BOOLEAN]
        /\ \A t \in DOMAIN providers' :
              socketState[t] = "Connected" => (told'[t] <=> t = active')
    BY <1>5, <2>1, <2>2, ReplyInforms DEF handleUIHeartbeat
  <2> QED
    BY <1>0, <2>1, <2>2, <2>3, RecomputedIInv,
       RecomputeElects DEF TypeOK, ToldTheTruth, NoDanglingSocket
<1>6. ASSUME NEW s \in Sockets, handleUIUnregister(s) PROVE IInv'
  <2>1. recomputeActiveProvider(Without(s)) /\ UNCHANGED <<socketState, sinceMaintenance>>
    BY <1>6 DEF handleUIUnregister, recomputeAndEmit
  <2>2. /\ told' \in [Sockets -> BOOLEAN]
        /\ \A t \in DOMAIN providers' :
              socketState[t] = "Connected" => (told'[t] <=> t = active')
    BY <1>0, <1>6, EmitInforms DEF handleUIUnregister
  <2> QED
    BY <1>0, <2>1, <2>2, RecomputedIInv,
       RecomputeElects DEF TypeOK, ToldTheTruth, NoDanglingSocket
<1>7. ASSUME recomputeAndEmit(providers), UNCHANGED socketState,
             sinceMaintenance' \in 0..Interval
      PROVE  IInv'
  <2>1. recomputeActiveProvider(providers)
    BY <1>7 DEF recomputeAndEmit
  <2>2. /\ told' \in [Sockets -> BOOLEAN]
        /\ \A t \in DOMAIN providers' :
              socketState[t] = "Connected" => (told'[t] <=> t = active')
    BY <1>0, <1>7, EmitInforms
  <2> QED
    BY <1>0, <1>7, <2>1, <2>2, RecomputedIInv,
       RecomputeElects DEF TypeOK, ToldTheTruth, NoDanglingSocket
<1>8. CASE SessionsDrained
  BY <1>0, <1>7, <1>8 DEF SessionsDrained, TypeOK
<1>9. CASE pruneStaleProviders
  BY <1>7, <1>9 DEF pruneStaleProviders
<1>10. CASE Tick
  <2>1. /\ DOMAIN providers' = DOMAIN providers
        /\ \A s \in DOMAIN providers :
              /\ providers[s] \in Provider
              /\ providers'[s] = [providers[s] EXCEPT !.age = @ + 1]
    BY <1>0, <1>10 DEF Tick, TypeOK
  <2>2. \A s \in DOMAIN providers :
           /\ providers'[s] \in Provider
           /\ providers'[s].priority = providers[s].priority
           /\ providers'[s].age = providers[s].age + 1
    BY <2>1 DEF Provider
  <2>3. sinceMaintenance' = sinceMaintenance + 1 /\ sinceMaintenance' \in 0..Interval
    BY <1>0, <1>10 DEF Tick, TypeOK
  <2>4. UNCHANGED <<socketState, active, told>>
    BY <1>10 DEF Tick
  <2>5. TypeOK'
    BY <1>0, <2>1, <2>2, <2>3, <2>4 DEF TypeOK
  <2>6. SomeoneIsActive' /\ ToldTheTruth' /\ NoDanglingSocket'
    BY <1>0, <2>1, <2>4 DEF SomeoneIsActive, ToldTheTruth, NoDanglingSocket
  <2>7. ActiveIsBest'
    <3> SUFFICES ASSUME NEW s \in DOMAIN providers
                 PROVE  ~Outranks(providers'[s], providers'[active])
      BY <2>1, <2>4 DEF ActiveIsBest
    <3>1. active \in DOMAIN providers /\ ~Outranks(providers[s], providers[active])
      BY <1>0 DEF SomeoneIsActive, ActiveIsBest
    <3> QED
      BY <2>1, <2>2, <3>1 DEF Outranks, Provider
  <2>8. BoundedStaleness'
    BY <1>0, <2>1, <2>2, <2>3 DEF BoundedStaleness, Provider, TypeOK
  <2> QED
    BY <2>5, <2>6, <2>7, <2>8 DEF IInv
<1>11. CASE UNCHANGED vars
  BY <1>0, <1>11 DEF vars, IInv, TypeOK, SomeoneIsActive, ActiveIsBest,
     NoDanglingSocket, BoundedStaleness, ToldTheTruth
<1> QED
  BY <1>1, <1>2, <1>3, <1>4, <1>5, <1>6, <1>8, <1>9, <1>10, <1>11 DEF Next

LEMMA Invariance == Spec => []IInv
  BY InitIInv, NextIInv, PTL DEF Spec

-----------------------------------------------------------------------------

\* The provider table, the role and the timer keep their types.
THEOREM TypeCorrect == Spec => []TypeOK
<1>1. IInv => TypeOK
  BY DEF IInv
<1> QED
  BY <1>1, Invariance, PTL

\* Whatever the providers send, a registered provider always holds the role:
\* isAuthorized never rejects every socket (ProviderRegistry.cpp:111-121).
THEOREM NeverLockedOut == Spec => []SomeoneIsActive
<1>1. IInv => SomeoneIsActive
  BY DEF IInv
<1> QED
  BY <1>1, Invariance, PTL

\* The role is with a provider none other outranks, between handlers too.
THEOREM BestHoldsRole == Spec => []ActiveIsBest
<1>1. IInv => ActiveIsBest
  BY DEF IInv
<1> QED
  BY <1>1, Invariance, PTL

\* The registry holds no socket that was deleted.
THEOREM SocketsAreAlive == Spec => []NoDanglingSocket
<1>1. IInv => NoDanglingSocket
  BY DEF IInv
<1> QED
  BY <1>1, Invariance, PTL

\* No entry outlives its timeout by more than the maintenance interval.
THEOREM StalenessIsBounded == Spec => []BoundedStaleness
<1>1. IInv => BoundedStaleness
  BY DEF IInv
<1> QED
  BY <1>1, Invariance, PTL

\* Every connected provider's last word about the role is right: no handler
\* forgets the broadcast (Agent.cpp:229-270, 520-542).
THEOREM ProvidersAreInformed == Spec => []ToldTheTruth
<1>1. IInv => ToldTheTruth
  BY DEF IInv
<1> QED
  BY <1>1, Invariance, PTL

-----------------------------------------------------------------------------
(* What no step may take from a provider.                                  *)

\* s goes of its own accord.
Leaves(s) == handleUIUnregister(s) \/ onClientDisconnected(s)

\* A provider that is connected and beats keeps its entry, and loses the role
\* only to one that it does not outrank.
LiveKeepsItsPlace ==
    \A s \in Live(providers) :
        \/ Leaves(s)
        \/ /\ s \in DOMAIN providers'
           /\ s = active /\ active' # s =>
                 /\ active' \in DOMAIN providers'
                 /\ ~Outranks(providers'[s], providers'[active'])

\* A recomputation keeps what is live in the table it is given.
LEMMA RecomputeKeepsLive ==
    ASSUME NEW ps, IsTable(ps), recomputeActiveProvider(ps), NEW s \in Live(ps)
    PROVE  /\ s \in DOMAIN providers'
           /\ active' \in DOMAIN providers'
           /\ ~Outranks(providers'[s], providers'[active'])
<1>1. s \in DOMAIN providers' /\ SomeoneIsActive' /\ ActiveIsBest'
  BY RecomputeElects
<1>2. DOMAIN providers' # {} /\ ~Outranks(providers'[s], providers'[active'])
  BY <1>1 DEF ActiveIsBest
<1> QED
  BY <1>1, <1>2 DEF SomeoneIsActive

\* No event that concerns others - a session that ends, a registration, a
\* heartbeat, an unregistration, a disconnect, the maintenance timer - costs a
\* live provider its entry, and none takes the role from it for a worse one
\* (ProviderRegistry.cpp:45-105, Agent.cpp:151-179, 229-300).
THEOREM LiveProvidersStay == Spec => [][LiveKeepsItsPlace]_vars
<1>1. IInv /\ [Next]_vars => [LiveKeepsItsPlace]_vars
  <2> SUFFICES ASSUME IInv, Next, NEW s \in Live(providers), ~Leaves(s)
               PROVE  /\ s \in DOMAIN providers'
                      /\ s = active /\ active' # s =>
                            /\ active' \in DOMAIN providers'
                            /\ ~Outranks(providers'[s], providers'[active'])
    BY DEF LiveKeepsItsPlace
  <2>1. /\ s \in DOMAIN providers /\ s \in Sockets
        /\ socketState[s] = "Connected" /\ providers[s].age <= Timeout
        /\ IsTable(providers)
    BY DEF Live, IInv, TypeOK, IsTable
  <2>2. ASSUME NEW ps, IsTable(ps), recomputeActiveProvider(ps), s \in DOMAIN ps,
               ps[s] = providers[s] \/ ps[s].age = 0
        PROVE  /\ s \in DOMAIN providers' /\ active' \in DOMAIN providers'
               /\ ~Outranks(providers'[s], providers'[active'])
    <3>1. s \in Live(ps)
      BY <2>1, <2>2, TimeoutAssumption DEF Live
    <3> QED
      BY <2>2, <3>1, RecomputeKeepsLive
  <2>3. CASE UNCHANGED <<providers, active>>
    BY <2>1, <2>3
  <2>4. ASSUME NEW t \in Sockets, onClientDisconnected(t) \/ handleUIUnregister(t)
        PROVE  UNCHANGED <<providers, active>> \/ recomputeActiveProvider(Without(t))
    BY <2>4 DEF onClientDisconnected, handleUIUnregister, recomputeAndEmit
  <2>5. ASSUME NEW t \in Sockets, t # s
        PROVE  IsTable(Without(t)) /\ s \in DOMAIN Without(t) /\ Without(t)[s] = providers[s]
    BY <2>1, <2>5 DEF Without, IsTable
  <2>6. CASE \E t \in Sockets : onClientDisconnected(t) \/ handleUIUnregister(t)
    <3>1. PICK t \in Sockets : onClientDisconnected(t) \/ handleUIUnregister(t)
      BY <2>6
    <3>2. t # s
      BY <3>1 DEF Leaves
    <3> QED
      BY <2>2, <2>3, <2>4, <2>5, <3>1, <3>2
  <2>7. ASSUME NEW t \in Sockets, NEW p \in Priorities, handleUIRegister(t, p)
        PROVE  /\ s \in DOMAIN providers' /\ active' \in DOMAIN providers'
               /\ ~Outranks(providers'[s], providers'[active'])
    <3>1. /\ IsTable(Registered(t, p)) /\ s \in DOMAIN Registered(t, p)
          /\ Registered(t, p)[s] = providers[s] \/ Registered(t, p)[s].age = 0
      BY <2>1 DEF Registered, IsTable, Provider
    <3> QED
      BY <2>2, <2>7, <3>1 DEF handleUIRegister
  <2>8. ASSUME NEW t \in Sockets, handleUIHeartbeat(t)
        PROVE  /\ s \in DOMAIN providers' /\ active' \in DOMAIN providers'
               /\ ~Outranks(providers'[s], providers'[active'])
    <3>1. t \in DOMAIN providers
      BY <2>8 DEF handleUIHeartbeat
    <3>2. /\ IsTable(Beaten(t)) /\ s \in DOMAIN Beaten(t)
          /\ Beaten(t)[s] = providers[s] \/ Beaten(t)[s].age = 0
      BY <2>1, <3>1 DEF Beaten, IsTable, Provider
    <3> QED
      BY <2>2, <2>8, <3>2 DEF handleUIHeartbeat
  <2>9. CASE SessionsDrained \/ pruneStaleProviders
    BY <2>1, <2>2, <2>9 DEF SessionsDrained, pruneStaleProviders, recomputeAndEmit
  <2>10. CASE Tick
    BY <2>1, <2>10 DEF Tick
  <2>11. CASE \E t \in Sockets : Connect(t) \/ StartClosing(t)
    BY <2>3, <2>11 DEF Connect, StartClosing
  <2> QED
    BY <2>6, <2>7, <2>8, <2>9, <2>10, <2>11 DEF Next
<1> QED
  BY <1>1, Invariance, PTL DEF Spec

-----------------------------------------------------------------------------
(* The registry implements ProviderRole.                                   *)

\* The priorities of a table, as ProviderRole sees them.
Ranking(ps) == [s \in DOMAIN ps |-> ps[s].priority]

\* The role is with a provider of the highest priority, if there is any.
Elected ==
    /\ DOMAIN providers = {} => active = NoSocket
    /\ DOMAIN providers # {} =>
          /\ active \in DOMAIN providers
          /\ \A s \in DOMAIN providers : providers[s].priority <= providers[active].priority

LEMMA ElectedIsCandidate ==
    ASSUME Elected'
    PROVE  active' \in Role!Candidates([s \in DOMAIN providers' |-> providers'[s].priority])
  BY DEF Elected, Role!Candidates

\* A recomputation leaves the role with a candidate of what is left of its
\* table.
LEMMA RecomputeIsRole ==
    ASSUME NEW ps, IsTable(ps), recomputeActiveProvider(ps)
    PROVE  /\ DOMAIN providers' \subseteq DOMAIN ps
           /\ \A s \in DOMAIN providers' : providers'[s].priority = ps[s].priority
           /\ Elected'
<1>1. /\ DOMAIN providers' \subseteq DOMAIN ps
      /\ \A s \in DOMAIN providers' : providers'[s] = ps[s]
      /\ IsTable(providers') /\ SomeoneIsActive' /\ ActiveIsBest'
  BY RecomputeElects
<1>2. \A s \in DOMAIN providers' : providers'[s].priority \in Int
  BY <1>1, PrioritiesAssumption DEF IsTable, Provider
<1>3. DOMAIN providers' = {} => active' = NoSocket
  BY <1>1 DEF SomeoneIsActive
<1>4. DOMAIN providers' # {} => active' \in DOMAIN providers'
  BY <1>1 DEF SomeoneIsActive
<1>5. DOMAIN providers' # {} =>
         \A s \in DOMAIN providers' : providers'[s].priority <= providers'[active'].priority
  BY <1>1, <1>2, <1>4 DEF ActiveIsBest, Outranks
<1> QED
  BY <1>1, <1>3, <1>4, <1>5 DEF Elected

\* Some entries go, and somebody is elected.
LEMMA LeaveSteps ==
    ASSUME NEW gone \in SUBSET DOMAIN providers,
           DOMAIN providers' = DOMAIN providers \ gone,
           \A s \in DOMAIN providers' : providers'[s].priority = providers[s].priority,
           Elected'
    PROVE  Role!Next
<1>1. Role!Leave(gone)
  BY DEF Role!Leave
<1>2. active' \in Role!Candidates([s \in DOMAIN providers' |-> providers'[s].priority])
  BY ElectedIsCandidate
<1>3. gone \in SUBSET DOMAIN [s \in DOMAIN providers |-> providers[s].priority]
  OBVIOUS
<1>4. \E g \in SUBSET DOMAIN [s \in DOMAIN providers |-> providers[s].priority] : Role!Leave(g)
  BY <1>1, <1>3
<1> QED
  BY <1>2, <1>4 DEF Role!Next

\* Some entries go, one is new or renewed, and somebody is elected.
LEMMA JoinSteps ==
    ASSUME NEW gone \in SUBSET DOMAIN providers, NEW s \in Sockets, NEW p \in Priorities,
           DOMAIN providers' = (DOMAIN providers \ gone) \cup {s},
           \A t \in DOMAIN providers' :
              providers'[t].priority = IF t = s THEN p ELSE providers[t].priority,
           Elected'
    PROVE  Role!Next
<1>1. Role!Join(gone, s, p)
  BY DEF Role!Join
<1>2. active' \in Role!Candidates([t \in DOMAIN providers' |-> providers'[t].priority])
  BY ElectedIsCandidate
<1>3. gone \in SUBSET DOMAIN [t \in DOMAIN providers |-> providers[t].priority]
  OBVIOUS
<1> QED
  BY <1>1, <1>2, <1>3 DEF Role!Next

\* Whatever goes, and with at most one new or renewed entry, it is a step.
LEMMA RecomputeSteps ==
    ASSUME IInv, NEW ps, IsTable(ps), recomputeActiveProvider(ps),
           \/ /\ DOMAIN ps \subseteq DOMAIN providers
              /\ \A s \in DOMAIN ps : ps[s].priority = providers[s].priority
           \/ \E s \in Sockets, p \in Priorities : ps = Registered(s, p)
    PROVE  Role!Next
<1>1. /\ DOMAIN providers' \subseteq DOMAIN ps
      /\ \A s \in DOMAIN providers' : providers'[s].priority = ps[s].priority
      /\ Elected'
  BY RecomputeIsRole
<1> DEFINE gone == DOMAIN providers \ DOMAIN providers'
<1>2. CASE /\ DOMAIN ps \subseteq DOMAIN providers
           /\ \A s \in DOMAIN ps : ps[s].priority = providers[s].priority
  <2>1. DOMAIN providers' = DOMAIN providers \ gone
    BY <1>1, <1>2
  <2> QED
    BY <1>1, <1>2, <2>1, LeaveSteps
<1>3. ASSUME NEW s \in Sockets, NEW p \in Priorities, ps = Registered(s, p)
      PROVE  Role!Next
  <2>1. /\ DOMAIN ps = DOMAIN providers \cup {s}
        /\ \A t \in DOMAIN ps :
              ps[t].priority = IF t = s THEN p ELSE providers[t].priority
    BY <1>3 DEF Registered
  <2>2. CASE s \in DOMAIN providers'
    <3>1. DOMAIN providers' = (DOMAIN providers \ gone) \cup {s}
      BY <1>1, <2>1, <2>2
    <3>2. \A t \in DOMAIN providers' :
             providers'[t].priority = IF t = s THEN p ELSE providers[t].priority
      BY <1>1, <2>1
    <3>3. gone \in SUBSET DOMAIN providers
      OBVIOUS
    <3>4. Elected'
      BY <1>1
    <3> HIDE DEF gone
    <3> QED
      BY <3>1, <3>2, <3>3, <3>4, JoinSteps
  <2>3. CASE s \notin DOMAIN providers'
    <3>1. DOMAIN providers' = DOMAIN providers \ gone
      BY <1>1, <2>1, <2>3
    <3>2. \A t \in DOMAIN providers' : providers'[t].priority = providers[t].priority
      BY <1>1, <2>1, <2>3
    <3>3. gone \in SUBSET DOMAIN providers
      OBVIOUS
    <3>4. Elected'
      BY <1>1
    <3> QED
      BY <3>1, <3>2, <3>3, <3>4, LeaveSteps
  <2> QED
    BY <2>2, <2>3
<1> QED
  BY <1>2, <1>3

\* The registry implements ProviderRole: no handler, timer or disconnect moves
\* the role anywhere but to a provider of the highest priority.
THEOREM RegistryImplementsRole == Spec => ImplementsRole
<1>1. Init => Role!Init
  BY DEF Init, Role!Init
<1>2. IInv /\ [Next]_vars => [Role!Next]_<<Ranking(providers), active>>
  <2> SUFFICES ASSUME IInv, [Next]_vars
               PROVE  Role!Next \/ UNCHANGED <<Ranking(providers), active>>
    OBVIOUS
  <2>1. /\ IsTable(providers)
        /\ \A s \in Sockets : IsTable(Without(s))
        /\ \A s \in Sockets, p \in Priorities : IsTable(Registered(s, p))
    BY DEF IInv, TypeOK, IsTable, Without, Registered, Provider
  <2>2. ASSUME NEW ps, IsTable(ps), recomputeAndEmit(ps),
               DOMAIN ps \subseteq DOMAIN providers,
               \A s \in DOMAIN ps : ps[s].priority = providers[s].priority
        PROVE  Role!Next
    BY <2>2, RecomputeSteps DEF recomputeAndEmit
  <2>3. ASSUME NEW s \in Sockets, onClientDisconnected(s)
        PROVE  Role!Next \/ UNCHANGED <<Ranking(providers), active>>
    BY <2>1, <2>2, <2>3 DEF onClientDisconnected, Without, Ranking
  <2>4. ASSUME NEW s \in Sockets, NEW p \in Priorities, handleUIRegister(s, p)
        PROVE  Role!Next
    BY <2>1, <2>4, RecomputeSteps DEF handleUIRegister
  <2>5. ASSUME NEW s \in Sockets, handleUIHeartbeat(s) PROVE Role!Next
    <3>1. /\ IsTable(Beaten(s)) /\ DOMAIN Beaten(s) = DOMAIN providers
          /\ \A t \in DOMAIN Beaten(s) : Beaten(s)[t].priority = providers[t].priority
      BY <2>1, <2>5 DEF IsTable, Beaten, Provider, handleUIHeartbeat
    <3> QED
      BY <2>5, <3>1, RecomputeSteps DEF handleUIHeartbeat
  <2>6. ASSUME NEW s \in Sockets, handleUIUnregister(s) PROVE Role!Next
    BY <2>1, <2>2, <2>6 DEF handleUIUnregister, Without
  <2>7. CASE SessionsDrained \/ pruneStaleProviders
    BY <2>1, <2>2, <2>7 DEF SessionsDrained, pruneStaleProviders
  <2>8. CASE Tick
    <3>1. /\ DOMAIN providers' = DOMAIN providers
          /\ \A s \in DOMAIN providers : providers'[s].priority = providers[s].priority
      BY <2>1, <2>8 DEF Tick, IsTable, Provider
    <3> QED
      BY <2>8, <3>1 DEF Tick, Ranking
  <2>9. CASE UNCHANGED vars
    BY <2>9 DEF vars, Ranking
  <2>10. ASSUME NEW s \in Sockets, Connect(s) \/ StartClosing(s)
         PROVE  UNCHANGED <<Ranking(providers), active>>
    BY <2>10 DEF Connect, StartClosing, Ranking
  <2> QED
    BY <2>3, <2>4, <2>5, <2>6, <2>7, <2>8, <2>9, <2>10 DEF Next
<1>3. IInv /\ [Next]_vars =>
         [Role!Next]_<<[s \in DOMAIN providers |-> providers[s].priority], active>>
  BY <1>2 DEF Ranking
<1> QED
  BY <1>1, <1>3, Invariance, PTL DEF Spec, ImplementsRole, Role!Spec
=============================================================================
