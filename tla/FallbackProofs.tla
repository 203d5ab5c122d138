--------------------------- MODULE FallbackProofs ---------------------------
(***************************************************************************)
(* What holds of the daemon and its fallback for any sessions, priorities  *)
(* and bounds.                                                             *)
(***************************************************************************)
EXTENDS Fallback, SequenceTheorems, FiniteSetTheorems, TLAPS

-----------------------------------------------------------------------------
(* The role.                                                               *)

\* A recomputation on what is left of the table is a step of ProviderRole.
LEMMA LeaveSteps ==
    ASSUME NEW ps, NEW kept, DOMAIN ps \subseteq DOMAIN providers,
           \A u \in DOMAIN ps : ps[u] = providers[u],
           recomputeActiveProvider(ps, kept)
    PROVE  Role!Next
<1>1. PICK gone \in SUBSET DOMAIN ps :
         LET left == DOMAIN ps \ gone
         IN  /\ providers' = [u \in left |-> ps[u]]
             /\ IF left = {}
                THEN active' = "none"
                ELSE active' \in {u \in left : \A v \in left : ps[v] <= ps[u]}
  BY DEF recomputeActiveProvider
<1> DEFINE left == DOMAIN ps \ gone
<1>2. PICK lost \in SUBSET DOMAIN providers : left = DOMAIN providers \ lost
  <2>1. left = DOMAIN providers \ (DOMAIN providers \ left)
    OBVIOUS
  <2> QED
    BY <2>1
<1>3. providers' = [u \in DOMAIN providers \ lost |-> providers[u]]
  BY <1>1, <1>2
<1>4. Role!Leave(lost)
  BY <1>3 DEF Role!Leave
<1>5. active' \in Role!Candidates(providers')
  BY <1>1 DEF Role!Candidates
<1> QED
  BY <1>4, <1>5 DEF Role!Next

\* A recomputation that hears a UI which has just registered is one, too.
LEMMA JoinSteps ==
    ASSUME NEW u \in UIs, NEW rank \in Ranks \cup {FallbackRank}, NEW kept,
           recomputeActiveProvider(Registered(u, rank), kept), u \in kept
    PROVE  Role!Next
<1> DEFINE ps == Registered(u, rank)
<1>1. PICK gone \in SUBSET (DOMAIN ps \ kept) :
         LET left == DOMAIN ps \ gone
         IN  /\ providers' = [v \in left |-> ps[v]]
             /\ IF left = {}
                THEN active' = "none"
                ELSE active' \in {v \in left : \A w \in left : ps[w] <= ps[v]}
  BY DEF recomputeActiveProvider
<1>2. DOMAIN ps = DOMAIN providers \cup {u}
  BY DEF Registered
<1>3. /\ gone \ {u} \in SUBSET DOMAIN providers
      /\ DOMAIN ps \ gone = (DOMAIN providers \ (gone \ {u})) \cup {u}
  BY <1>2
<1>4. \A v \in DOMAIN ps : ps[v] = IF v = u THEN rank ELSE providers[v]
  BY DEF Registered
<1>5. Role!Join(gone \ {u}, u, rank)
  BY <1>1, <1>2, <1>3, <1>4 DEF Role!Join
<1>6. active' \in Role!Candidates(providers')
  BY <1>1 DEF Role!Candidates
<1> QED
  BY <1>3, <1>5, <1>6 DEF Role!Next, UIs

LEMMA UnregisterSteps ==
    ASSUME NEW u, NEW kept, recomputeActiveProvider(Unregistered(u), kept)
    PROVE  Role!Next
<1>1. /\ DOMAIN Unregistered(u) \subseteq DOMAIN providers
      /\ \A v \in DOMAIN Unregistered(u) : Unregistered(u)[v] = providers[v]
  BY DEF Unregistered
<1> QED
  BY <1>1, LeaveSteps

LEMMA CloseSteps ==
    ASSUME NEW c, NEW result, closeSession(c, result)
    PROVE  Role!Next \/ UNCHANGED <<providers, active>>
<1>1. CASE recomputeActiveProvider(providers, {})
  BY <1>1, LeaveSteps
<1>2. CASE UNCHANGED <<providers, active>>
  BY <1>2
<1> QED
  BY <1>1, <1>2 DEF closeSession

LEMMA DaemonSteps ==
    ASSUME DaemonNext
    PROVE  Role!Next \/ UNCHANGED <<providers, active>>
<1>1. CASE \E c \in Ids : createSession(c) \/ sessionUpdate(c)
  BY <1>1 DEF createSession, sessionUpdate
<1>2. CASE \E c \in Ids, result \in Results : SessionEnds(c, result)
  BY <1>2, CloseSteps DEF SessionEnds
<1>3. CASE handleMessage
  <2>1. CASE handleUIRegister
    <3>1. recomputeActiveProvider(Registered("fallback", FallbackRank), {"fallback"})
      BY <2>1 DEF handleUIRegister
    <3> QED
      BY <3>1, JoinSteps DEF UIs
  <2>2. CASE handleSubscribe
    BY <2>2 DEF handleSubscribe
  <2>3. CASE handleRespond(Head(toDaemon).id)
    BY <2>3 DEF handleRespond
  <2>4. CASE handleCancel(Head(toDaemon).id)
    BY <2>4, CloseSteps DEF handleCancel
  <2> QED
    BY <1>3, <2>1, <2>2, <2>3, <2>4 DEF handleMessage
<1>4. CASE onClientDisconnected
  BY <1>4, UnregisterSteps DEF onClientDisconnected
<1>5. CASE \E rank \in Ranks : ShellRegisters(rank)
  BY <1>5, JoinSteps DEF ShellRegisters, UIs
<1>6. CASE ShellLeaves
  BY <1>6, UnregisterSteps DEF ShellLeaves
<1>7. CASE pruneStaleProviders
  BY <1>7, LeaveSteps DEF pruneStaleProviders
<1>8. CASE CooldownEnds
  BY <1>8 DEF CooldownEnds
<1>9. CASE DaemonRestarts
  <2>1. Role!Leave(DOMAIN providers)
    BY <1>9 DEF DaemonRestarts, NoProviders, Role!Leave
  <2>2. active' \in Role!Candidates(providers')
    BY <1>9 DEF DaemonRestarts, NoProviders, Role!Candidates
  <2> QED
    BY <2>1, <2>2 DEF Role!Next
<1> QED
  BY <1>1, <1>2, <1>3, <1>4, <1>5, <1>6, <1>7, <1>8, <1>9 DEF DaemonNext

\* The daemon moves the role only as ProviderRole says, whatever the fallback
\* sends and whenever either process ends (ProviderRegistry.cpp:72-105).
THEOREM FallbackImplementsRole == Spec => AgentImplementsRole
<1>1. Init => Role!Init
  BY DEF Init, AgentInit, NoProviders, Role!Init
<1>2. [Next]_vars => [Role!Next]_<<providers, active>>
  <2>1. CASE DaemonNext
    BY <2>1, DaemonSteps
  <2>2. CASE UNCHANGED daemonVars
    BY <2>2 DEF daemonVars
  <2> QED
    BY <2>1, <2>2 DEF Next, vars, daemonVars
<1> QED
  BY <1>1, <1>2, PTL DEF Spec, AgentImplementsRole, Role!Spec

-----------------------------------------------------------------------------
(* The prompt on the screen.                                               *)

SessionEvents == {"session.created", "session.updated", "session.closed"}

ClientMessage ==
    [type : {"session.created", "session.updated"}, id : Ids]
    \cup [type : {"session.closed"}, id : Ids, result : Results]
    \cup [type : {"ui.active"}, who : UIs \cup {"none"}]
    \cup [type : {"ui.registered"}, active : BOOLEAN]
    \cup [type : {"subscribed"}, registered : BOOLEAN, active : BOOLEAN]
    \cup [type : {"error"}]

DaemonMessage ==
    [type : {"ui.register", "subscribe"}]
    \cup [type : {"session.respond", "session.cancel"}, id : Ids]

Quiet(ms) == \A i \in 1..Len(ms) : ms[i].type \notin SessionEvents

Announces(ms) == \E i \in 1..Len(ms) : ms[i].type = "ui.registered"

\* The client knows that it is registered, or has only to read on.
Told == registered \/ Announces(toClient)

MessagesTyped == toClient \in Seq(ClientMessage) /\ toDaemon \in Seq(DaemonMessage)

RoleIsHeld == active = "none" \/ active \in DOMAIN providers

\* Nothing is left in the daemon of a client that has gone, or that it lost.
GoneIsForgotten ==
    conn \in {"none", "lost"} => ~subscriber /\ "fallback" \notin DOMAIN providers

HungUpReadsNothing == conn \in {"none", "closing"} => toClient = <<>>

\* Whoever may be sent session events has been told of its registration.
ListenerIsTold ==
    conn = "open" /\ (subscriber \/ "fallback" \in DOMAIN providers) => Told

\* No session event overtakes the reply to the registration.
EventsFollowReply ==
    \A i \in 1..Len(toClient) :
        toClient[i].type \in SessionEvents =>
            registered \/ \E j \in 1..(i-1) : toClient[j].type = "ui.registered"

Follows(q) ==
    \A i \in 1..Len(q) :
        q[i].type = "subscribe" => \E j \in 1..(i-1) : q[j].type = "ui.register"

\* The client subscribes only after it has registered.
SubscribeFollowsRegister == conn = "open" => Told \/ Follows(toDaemon)

IInv ==
    /\ TypeOK
    /\ MessagesTyped
    /\ RoleIsHeld
    /\ GoneIsForgotten
    /\ HungUpReadsNothing
    /\ ListenerIsTold
    /\ EventsFollowReply
    /\ SubscribeFollowsRegister
    /\ ShownWhileActive
    /\ IdleIsHidden

-----------------------------------------------------------------------------
(* Messages.                                                               *)

LEMMA SingleMessage ==
    ASSUME NEW m \in ClientMessage
    PROVE  /\ <<m>> \in Seq(ClientMessage)
           /\ m.type \notin SessionEvents => Quiet(<<m>>)
           /\ m.type = "ui.registered" => Announces(<<m>>)
<1>1. <<m>> \in Seq(ClientMessage) /\ Len(<<m>>) = 1 /\ <<m>>[1] = m
  OBVIOUS
<1>2. \A i \in 1..1 : i = 1
  OBVIOUS
<1> QED
  BY <1>1, <1>2 DEF Quiet, Announces

LEMMA NoMessage ==
    /\ <<>> \in Seq(ClientMessage)
    /\ Quiet(<<>>)
  BY DEF Quiet

LEMMA Concatenated ==
    ASSUME NEW s \in Seq(ClientMessage), NEW t \in Seq(ClientMessage)
    PROVE  /\ s \o t \in Seq(ClientMessage)
           /\ Quiet(s) /\ Quiet(t) => Quiet(s \o t)
           /\ Announces(s) \/ Announces(t) => Announces(s \o t)
<1>1. /\ s \o t \in Seq(ClientMessage)
      /\ Len(s \o t) = Len(s) + Len(t)
      /\ \A i \in 1 .. Len(s) + Len(t) : (s \o t)[i] =
                     IF i <= Len(s) THEN s[i] ELSE t[i - Len(s)]
  BY ConcatProperties
<1>2. Len(s) \in Nat /\ Len(t) \in Nat
  OBVIOUS
<1>3. ASSUME Quiet(s), Quiet(t)
      PROVE  Quiet(s \o t)
  <2> SUFFICES ASSUME NEW i \in 1..Len(s) + Len(t)
               PROVE  (s \o t)[i].type \notin SessionEvents
    BY <1>1 DEF Quiet
  <2>1. CASE i <= Len(s)
    BY <1>1, <1>2, <1>3, <2>1 DEF Quiet
  <2>2. CASE ~(i <= Len(s))
    <3>1. i - Len(s) \in 1..Len(t)
      BY <1>2, <2>2
    <3> QED
      BY <1>1, <1>3, <2>2, <3>1 DEF Quiet
  <2> QED
    BY <2>1, <2>2
<1>4. ASSUME Announces(s)
      PROVE  Announces(s \o t)
  <2>1. PICK i \in 1..Len(s) : s[i].type = "ui.registered"
    BY <1>4 DEF Announces
  <2>2. i \in 1..Len(s) + Len(t) /\ i <= Len(s)
    BY <1>2
  <2> QED
    BY <1>1, <2>1, <2>2 DEF Announces
<1>5. ASSUME Announces(t)
      PROVE  Announces(s \o t)
  <2>1. PICK i \in 1..Len(t) : t[i].type = "ui.registered"
    BY <1>5 DEF Announces
  <2>2. /\ Len(s) + i \in 1..Len(s) + Len(t)
        /\ ~(Len(s) + i <= Len(s))
        /\ (Len(s) + i) - Len(s) = i
    BY <1>2
  <2>3. (s \o t)[Len(s) + i] = t[i]
    BY <1>1, <2>2
  <2> QED
    BY <1>1, <2>1, <2>2, <2>3 DEF Announces
<1> QED
  BY <1>1, <1>3, <1>4, <1>5

\* What the daemon sends: session events only once the client is told.
LEMMA Sending ==
    ASSUME IInv, UNCHANGED registered,
           NEW ms \in Seq(ClientMessage), daemonSends(ms),
           Quiet(ms) \/ (conn = "open" => Told)
    PROVE  /\ toClient' \in Seq(ClientMessage)
           /\ EventsFollowReply'
           /\ Told => Told'
           /\ conn = "open" /\ Announces(ms) => Told'
<1>1. CASE conn # "open"
  BY <1>1 DEF daemonSends, IInv, MessagesTyped, EventsFollowReply, Told
<1>2. CASE conn = "open"
  <2> DEFINE q == toClient
  <2>1. q \in Seq(ClientMessage) /\ toClient' = q \o ms
    BY <1>2 DEF IInv, MessagesTyped, daemonSends
  <2>2. /\ toClient' \in Seq(ClientMessage)
        /\ Announces(q) \/ Announces(ms) => Announces(toClient')
    BY <2>1, Concatenated
  <2>3. (Told => Told') /\ (Announces(ms) => Told')
    BY <2>2 DEF Told
  <2>4. /\ Len(toClient') = Len(q) + Len(ms)
        /\ \A i \in 1 .. Len(q) + Len(ms) : toClient'[i] =
                     IF i <= Len(q) THEN q[i] ELSE ms[i - Len(q)]
    BY <2>1, ConcatProperties
  <2>5. Len(q) \in Nat /\ Len(ms) \in Nat
    BY <2>1
  <2> HIDE DEF q
  <2>6. ASSUME NEW i \in 1..Len(toClient'), toClient'[i].type \in SessionEvents
        PROVE  registered \/ \E j \in 1..(i-1) : toClient'[j].type = "ui.registered"
    <3>0. i \in 1..Len(q) + Len(ms)
      BY <2>4
    <3>1. CASE i <= Len(q)
      <4>1. i \in 1..Len(q) /\ toClient'[i] = q[i]
        BY <2>4, <2>5, <3>0, <3>1
      <4>2. registered \/ \E j \in 1..(i-1) : q[j].type = "ui.registered"
        BY <2>6, <4>1 DEF IInv, EventsFollowReply, q
      <4>3. ASSUME NEW j \in 1..(i-1)
            PROVE  toClient'[j] = q[j]
        <5>1. j \in 1..Len(q) + Len(ms) /\ j <= Len(q)
          BY <2>5, <3>0, <3>1
        <5> QED
          BY <2>4, <5>1
      <4> QED
        BY <4>2, <4>3
    <3>2. CASE ~(i <= Len(q))
      <4>1. i - Len(q) \in 1..Len(ms) /\ toClient'[i] = ms[i - Len(q)]
        BY <2>4, <2>5, <3>0, <3>2
      <4>2. ~Quiet(ms)
        BY <2>6, <4>1 DEF Quiet
      <4>3. registered \/ Announces(q)
        BY <1>2, <4>2 DEF Told, q
      <4>4. ASSUME NEW j \in 1..Len(q), q[j].type = "ui.registered"
            PROVE  \E k \in 1..(i-1) : toClient'[k].type = "ui.registered"
        <5>1. j \in 1..Len(q) + Len(ms) /\ j <= Len(q) /\ j \in 1..(i-1)
          BY <2>5, <3>0, <3>2
        <5> QED
          BY <2>4, <4>4, <5>1
      <4> QED
        BY <4>3, <4>4 DEF Announces
    <3> QED
      BY <3>1, <3>2
  <2>7. EventsFollowReply'
    BY <2>6 DEF EventsFollowReply
  <2> QED
    BY <2>2, <2>3, <2>7
<1> QED
  BY <1>1, <1>2

-----------------------------------------------------------------------------
(* The daemon's steps.                                                     *)

RolesTyped == AgentTypeOK /\ RoleIsHeld

\* A handler of the daemon that keeps the connection keeps the invariant if
\* it sends as it should, and takes nobody in whom it does not tell.
LEMMA HandlerKeeps ==
    ASSUME IInv, UNCHANGED <<clientVars, windowVars, conn>>, RolesTyped',
           proc' \in {"none", "running", "exiting"},
           NEW ms \in Seq(ClientMessage), daemonSends(ms),
           Quiet(ms) \/ (conn = "open" => Told),
           conn \in {"none", "lost"} =>
               ~subscriber' /\ "fallback" \notin DOMAIN providers',
           conn = "open" /\ (subscriber' \/ "fallback" \in DOMAIN providers') =>
               Told \/ Announces(ms),
           \/ toDaemon' = toDaemon
           \/ /\ toDaemon # <<>>
              /\ toDaemon' = Tail(toDaemon)
              /\ Head(toDaemon).type = "ui.register" => Announces(ms)
    PROVE  IInv'
<1>1. /\ toClient' \in Seq(ClientMessage)
      /\ EventsFollowReply'
      /\ Told => Told'
      /\ conn = "open" /\ Announces(ms) => Told'
  BY Sending DEF clientVars
<1>2. conn' = conn
  OBVIOUS
<1>3. TypeOK' /\ RoleIsHeld'
  BY DEF RolesTyped, TypeOK, IInv, ClientTypeOK, WindowTypeOK, clientVars, windowVars
<1>4. toDaemon' \in Seq(DaemonMessage)
  BY HeadTailProperties DEF IInv, MessagesTyped
<1>5. GoneIsForgotten' /\ ListenerIsTold'
  BY <1>1, <1>2 DEF GoneIsForgotten, ListenerIsTold
<1>6. HungUpReadsNothing'
  BY <1>2 DEF HungUpReadsNothing, daemonSends, IInv
<1>7. SubscribeFollowsRegister'
  <2> SUFFICES ASSUME conn = "open", ~Told',
                      NEW i \in 1..Len(toDaemon'), toDaemon'[i].type = "subscribe"
               PROVE  \E j \in 1..(i-1) : toDaemon'[j].type = "ui.register"
    BY <1>2 DEF SubscribeFollowsRegister, Follows
  <2>1. ~Told /\ ~Announces(ms)
    BY <1>1
  <2>2. \A k \in 1..Len(toDaemon) : toDaemon[k].type = "subscribe" =>
            \E j \in 1..(k-1) : toDaemon[j].type = "ui.register"
    BY <2>1 DEF IInv, SubscribeFollowsRegister, Follows
  <2>3. CASE toDaemon' = toDaemon
    BY <2>2, <2>3
  <2>4. CASE toDaemon # <<>> /\ toDaemon' = Tail(toDaemon)
    <3> DEFINE q == toDaemon
    <3>1. q \in Seq(DaemonMessage) /\ q # <<>>
      BY <2>4 DEF IInv, MessagesTyped
    <3>2. /\ Len(toDaemon') = Len(q) - 1
          /\ \A k \in 1..Len(toDaemon') : toDaemon'[k] = q[k+1]
      BY <2>4, <3>1, HeadTailProperties
    <3>3. Len(q) \in Nat
      BY <3>1
    <3>4. q[1].type # "ui.register" \/ toDaemon' = toDaemon
      BY <2>1, <2>4, <3>1
    <3> HIDE DEF q
    <3>5. i + 1 \in 1..Len(q) /\ q[i+1].type = "subscribe"
      BY <3>2, <3>3
    <3>6. PICK j \in 1..i : q[j].type = "ui.register"
      BY <2>2, <3>5 DEF q
    <3>7. CASE toDaemon' = toDaemon
      BY <2>3, <3>7
    <3>8. CASE q[1].type # "ui.register"
      <4>1. j # 1
        BY <3>6, <3>8
      <4>2. j - 1 \in 1..(i-1) /\ j - 1 \in 1..Len(toDaemon') /\ (j - 1) + 1 = j
        BY <3>2, <3>3, <3>6, <4>1
      <4>3. toDaemon'[j-1] = q[j]
        BY <3>2, <4>2
      <4> QED
        BY <3>6, <4>2, <4>3
    <3> QED
      BY <3>4, <3>7, <3>8
  <2> QED
    BY <2>3, <2>4
<1>8. ShownWhileActive' /\ IdleIsHidden'
  BY <1>2 DEF IInv, ShownWhileActive, IdleIsHidden, isConnected, clientVars, windowVars
<1> QED
  BY <1>1, <1>3, <1>4, <1>5, <1>6, <1>7, <1>8 DEF IInv, MessagesTyped

\* recomputeActiveProvider admits nobody who is not in the table.
LEMMA RecomputeTypes ==
    ASSUME NEW ps, NEW kept, DOMAIN ps \subseteq UIs,
           \A u \in DOMAIN ps : ps[u] \in Ranks \cup {FallbackRank},
           recomputeActiveProvider(ps, kept)
    PROVE  /\ DOMAIN providers' \subseteq DOMAIN ps
           /\ \A u \in DOMAIN providers' : providers'[u] \in Ranks \cup {FallbackRank}
           /\ active' \in UIs \cup {"none"}
           /\ active' = "none" \/ active' \in DOMAIN providers'
BY DEF recomputeActiveProvider

LEMMA StatusIsQuiet ==
    ASSUME active' \in UIs \cup {"none"}
    PROVE  /\ emitProviderStatus \in Seq(ClientMessage) /\ Quiet(emitProviderStatus)
           /\ statusIfChanged \in Seq(ClientMessage) /\ Quiet(statusIfChanged)
<1> DEFINE m == [type |-> "ui.active", who |-> active']
<1>1. m \in ClientMessage /\ m.type \notin SessionEvents
  BY DEF ClientMessage, SessionEvents
<1>2. <<m>> \in Seq(ClientMessage) /\ Quiet(<<m>>)
  BY <1>1, SingleMessage
<1>3. emitProviderStatus \in {<<m>>, <<>>} /\ statusIfChanged \in {<<m>>, <<>>}
  BY DEF emitProviderStatus, statusIfChanged
<1> QED
  BY <1>2, <1>3, NoMessage

\* An event goes to the fallback only if it is listening.
LEMMA RoutedToListener ==
    ASSUME NEW event \in ClientMessage, NEW a
    PROVE  /\ routed(event, a) \in Seq(ClientMessage)
           /\ Quiet(routed(event, a)) \/ a = "fallback" \/ subscriber
<1>1. routed(event, a) = <<>> \/
         (routed(event, a) = <<event>> /\ (a = "fallback" \/ subscriber))
  BY DEF routed
<1> QED
  BY <1>1, NoMessage, SingleMessage

LEMMA LaunchTypes ==
    ASSUME TypeOK, ensureFallbackUiRunning \/ UNCHANGED <<proc, cooling>>
    PROVE  proc' \in {"none", "running", "exiting"} /\ cooling' \in BOOLEAN
BY DEF ensureFallbackUiRunning, TypeOK, AgentTypeOK

LEMMA ListenersHear ==
    ASSUME IInv, conn = "open", subscriber \/ "fallback" \in DOMAIN providers
    PROVE  Told
BY DEF IInv, ListenerIsTold

LEMMA RoleIsListened ==
    ASSUME IInv, conn = "open", active = "fallback"
    PROVE  Told
BY ListenersHear DEF IInv, RoleIsHeld

LEMMA Closing ==
    ASSUME IInv, NEW c \in Ids, NEW result \in Results, closeSession(c, result)
    PROVE  /\ RolesTyped'
           /\ UNCHANGED <<subscriber, conn, proc>>
           /\ DOMAIN providers' \subseteq DOMAIN providers
           /\ \E ms \in Seq(ClientMessage) :
                 daemonSends(ms) /\ (Quiet(ms) \/ (conn = "open" => Told))
<1> DEFINE closed == [type |-> "session.closed", id |-> c, result |-> result]
<1>1. closed \in ClientMessage
  BY DEF ClientMessage
<1>2. /\ sessions' = [sessions EXCEPT ![c] = "none"]
      /\ UNCHANGED <<subscriber, conn, proc, cooling>>
  BY DEF closeSession
<1>3. sessions' \in [Ids -> {"none", "waiting", "verifying"}]
      /\ subscriber' \in BOOLEAN /\ cooling' \in BOOLEAN
  BY <1>2 DEF IInv, TypeOK, AgentTypeOK
<1>4. CASE recomputeActiveProvider(providers, {})
           /\ \/ daemonSends(statusIfChanged \o routed(closed, active'))
              \/ daemonSends(routed(closed, active) \o statusIfChanged)
  <2>1. /\ DOMAIN providers' \subseteq DOMAIN providers
        /\ \A u \in DOMAIN providers' : providers'[u] \in Ranks \cup {FallbackRank}
        /\ active' \in UIs \cup {"none"}
        /\ active' = "none" \/ active' \in DOMAIN providers'
    BY <1>4, RecomputeTypes DEF IInv, TypeOK, AgentTypeOK
  <2>2. RolesTyped'
    BY <1>3, <2>1 DEF RolesTyped, AgentTypeOK, RoleIsHeld, IInv, TypeOK
  <2>3. statusIfChanged \in Seq(ClientMessage) /\ Quiet(statusIfChanged)
    BY <2>1, StatusIsQuiet
  <2>4. CASE daemonSends(statusIfChanged \o routed(closed, active'))
    <3>1. /\ routed(closed, active') \in Seq(ClientMessage)
          /\ Quiet(routed(closed, active')) \/ active' = "fallback" \/ subscriber
      BY <1>1, RoutedToListener
    <3>2. /\ statusIfChanged \o routed(closed, active') \in Seq(ClientMessage)
          /\ Quiet(routed(closed, active')) =>
                Quiet(statusIfChanged \o routed(closed, active'))
      BY <2>3, <3>1, Concatenated
    <3>3. conn = "open" /\ (active' = "fallback" \/ subscriber) => Told
      BY <2>1, ListenersHear
    <3> QED
      BY <1>2, <2>1, <2>2, <2>4, <3>1, <3>2, <3>3
  <2>5. CASE daemonSends(routed(closed, active) \o statusIfChanged)
    <3>1. /\ routed(closed, active) \in Seq(ClientMessage)
          /\ Quiet(routed(closed, active)) \/ active = "fallback" \/ subscriber
      BY <1>1, RoutedToListener
    <3>2. /\ routed(closed, active) \o statusIfChanged \in Seq(ClientMessage)
          /\ Quiet(routed(closed, active)) =>
                Quiet(routed(closed, active) \o statusIfChanged)
      BY <2>3, <3>1, Concatenated
    <3>3. conn = "open" /\ (active = "fallback" \/ subscriber) => Told
      BY ListenersHear, RoleIsListened
    <3> QED
      BY <1>2, <2>1, <2>2, <2>5, <3>1, <3>2, <3>3
  <2> QED
    BY <1>4, <2>4, <2>5
<1>5. CASE daemonSends(routed(closed, active)) /\ UNCHANGED <<providers, active>>
  <2>1. RolesTyped'
    BY <1>3, <1>5 DEF RolesTyped, AgentTypeOK, RoleIsHeld, IInv, TypeOK
  <2>2. /\ routed(closed, active) \in Seq(ClientMessage)
        /\ Quiet(routed(closed, active)) \/ active = "fallback" \/ subscriber
    BY <1>1, RoutedToListener
  <2>3. conn = "open" /\ (active = "fallback" \/ subscriber) => Told
    BY ListenersHear, RoleIsListened
  <2> QED
    BY <1>2, <1>5, <2>1, <2>2, <2>3
<1> QED
  BY <1>4, <1>5 DEF closeSession

\* A session is created or updated.
LEMMA SessionKeeps ==
    ASSUME IInv, UNCHANGED <<clientVars, windowVars>>,
           NEW c \in Ids, createSession(c) \/ sessionUpdate(c)
    PROVE  IInv'
<1>1. PICK kind \in {"session.created", "session.updated"} :
         daemonSends(routed([type |-> kind, id |-> c], active))
  BY DEF createSession, sessionUpdate
<1> DEFINE event == [type |-> kind, id |-> c]
           ms == routed(event, active)
<1>2. event \in ClientMessage
  BY DEF ClientMessage
<1>3. ms \in Seq(ClientMessage) /\ (Quiet(ms) \/ active = "fallback" \/ subscriber)
  BY <1>2, RoutedToListener
<1>4. Quiet(ms) \/ (conn = "open" => Told)
  BY <1>3, ListenersHear, RoleIsListened
<1>5. UNCHANGED <<providers, active, subscriber, conn, toDaemon>>
  BY DEF createSession, sessionUpdate
<1>6. TypeOK
  BY DEF IInv
<1>7. proc' \in {"none", "running", "exiting"} /\ cooling' \in BOOLEAN
  BY <1>6, LaunchTypes DEF createSession, sessionUpdate
<1>8. sessions' \in [Ids -> {"none", "waiting", "verifying"}]
  BY <1>6 DEF createSession, sessionUpdate, TypeOK, AgentTypeOK
<1>9. RolesTyped'
  BY <1>5, <1>6, <1>7, <1>8 DEF RolesTyped, AgentTypeOK, RoleIsHeld, IInv, TypeOK
<1>10. /\ conn \in {"none", "lost"} =>
             ~subscriber' /\ "fallback" \notin DOMAIN providers'
       /\ conn = "open" /\ (subscriber' \/ "fallback" \in DOMAIN providers') => Told
  BY <1>5, ListenersHear DEF IInv, GoneIsForgotten
<1> HIDE DEF ms, event
<1>11. daemonSends(ms)
  BY <1>1 DEF ms, event
<1> QED
  BY <1>3, <1>4, <1>5, <1>7, <1>9, <1>10, <1>11, HandlerKeeps

LEMMA EndKeeps ==
    ASSUME IInv, UNCHANGED <<clientVars, windowVars>>,
           NEW c \in Ids, NEW result \in Results, SessionEnds(c, result)
    PROVE  IInv'
<1>1. closeSession(c, result) /\ UNCHANGED toDaemon
  BY DEF SessionEnds
<1>2. /\ RolesTyped'
      /\ UNCHANGED <<subscriber, conn, proc>>
      /\ DOMAIN providers' \subseteq DOMAIN providers
  BY <1>1, Closing
<1>3. PICK ms \in Seq(ClientMessage) :
         daemonSends(ms) /\ (Quiet(ms) \/ (conn = "open" => Told))
  BY <1>1, Closing
<1>4. proc' \in {"none", "running", "exiting"}
  BY <1>2 DEF IInv, TypeOK
<1>5. /\ conn \in {"none", "lost"} =>
            ~subscriber' /\ "fallback" \notin DOMAIN providers'
      /\ conn = "open" /\ (subscriber' \/ "fallback" \in DOMAIN providers') => Told
  BY <1>2, ListenersHear DEF IInv, GoneIsForgotten
<1> QED
  BY <1>1, <1>2, <1>3, <1>4, <1>5, HandlerKeeps

\* The shell comes or goes, or somebody is found silent.
LEMMA RoleMoves ==
    ASSUME IInv,
           UNCHANGED <<clientVars, windowVars, conn, toDaemon, subscriber, sessions>>,
           NEW ps, NEW kept, DOMAIN ps \subseteq DOMAIN providers \cup {"shell"},
           \A u \in DOMAIN ps : ps[u] \in Ranks \cup {FallbackRank},
           recomputeActiveProvider(ps, kept),
           ensureFallbackUiRunning \/ UNCHANGED <<proc, cooling>>,
           \/ daemonSends(statusIfChanged)
           \/ daemonSends(emitProviderStatus)
           \/ daemonSends(<<>>)
    PROVE  IInv'
<1>1. TypeOK
  BY DEF IInv
<1>2. DOMAIN ps \subseteq UIs
  BY <1>1 DEF TypeOK, AgentTypeOK, UIs
<1>3. /\ DOMAIN providers' \subseteq DOMAIN ps
      /\ \A u \in DOMAIN providers' : providers'[u] \in Ranks \cup {FallbackRank}
      /\ active' \in UIs \cup {"none"}
      /\ active' = "none" \/ active' \in DOMAIN providers'
  BY <1>2, RecomputeTypes
<1>4. proc' \in {"none", "running", "exiting"} /\ cooling' \in BOOLEAN
  BY <1>1, LaunchTypes
<1>5. RolesTyped'
  BY <1>1, <1>2, <1>3, <1>4 DEF RolesTyped, AgentTypeOK, RoleIsHeld, TypeOK
<1>6. PICK ms \in Seq(ClientMessage) : daemonSends(ms) /\ Quiet(ms)
  BY <1>3, StatusIsQuiet, NoMessage
<1>7. "fallback" \in DOMAIN providers' => "fallback" \in DOMAIN providers
  BY <1>3
<1>8. /\ conn \in {"none", "lost"} =>
            ~subscriber' /\ "fallback" \notin DOMAIN providers'
      /\ conn = "open" /\ (subscriber' \/ "fallback" \in DOMAIN providers') => Told
  BY <1>7, ListenersHear DEF IInv, GoneIsForgotten
<1> QED
  BY <1>4, <1>5, <1>6, <1>8, HandlerKeeps

LEMMA ShellKeeps ==
    ASSUME IInv, UNCHANGED <<clientVars, windowVars>>,
           \/ \E rank \in Ranks : ShellRegisters(rank)
           \/ ShellLeaves
           \/ pruneStaleProviders
    PROVE  IInv'
<1>1. UNCHANGED <<conn, toDaemon, subscriber, sessions>>
  BY DEF ShellRegisters, ShellLeaves, pruneStaleProviders
<1>2. \A u \in DOMAIN providers : providers[u] \in Ranks \cup {FallbackRank}
  BY DEF IInv, TypeOK, AgentTypeOK
<1>3. ASSUME NEW rank \in Ranks, ShellRegisters(rank)
      PROVE  IInv'
  <2> DEFINE ps == Registered("shell", rank)
  <2>1. /\ DOMAIN ps \subseteq DOMAIN providers \cup {"shell"}
        /\ \A u \in DOMAIN ps : ps[u] \in Ranks \cup {FallbackRank}
    BY <1>2 DEF Registered
  <2>2. recomputeActiveProvider(ps, {"shell"})
    BY <1>3 DEF ShellRegisters
  <2>3. /\ UNCHANGED <<proc, cooling>>
        /\ daemonSends(emitProviderStatus) \/ daemonSends(<<>>)
    BY <1>3 DEF ShellRegisters
  <2> HIDE DEF ps
  <2> QED
    BY <1>1, <2>1, <2>2, <2>3, RoleMoves
<1>4. ASSUME ShellLeaves
      PROVE  IInv'
  <2> DEFINE ps == Unregistered("shell")
  <2>1. /\ DOMAIN ps \subseteq DOMAIN providers \cup {"shell"}
        /\ \A u \in DOMAIN ps : ps[u] \in Ranks \cup {FallbackRank}
    BY <1>2 DEF Unregistered
  <2>2. recomputeActiveProvider(ps, {}) /\ daemonSends(statusIfChanged)
    BY <1>4 DEF ShellLeaves
  <2>3. ensureFallbackUiRunning \/ UNCHANGED <<proc, cooling>>
    BY <1>4 DEF ShellLeaves, ensureIfNobody
  <2> HIDE DEF ps
  <2> QED
    BY <1>1, <2>1, <2>2, <2>3, RoleMoves
<1>5. ASSUME pruneStaleProviders
      PROVE  IInv'
  <2>1. recomputeActiveProvider(providers, {}) /\ daemonSends(statusIfChanged)
    BY <1>5 DEF pruneStaleProviders
  <2>2. ensureFallbackUiRunning \/ UNCHANGED <<proc, cooling>>
    BY <1>5 DEF pruneStaleProviders, ensureIfNobody
  <2> QED
    BY <1>1, <1>2, <2>1, <2>2, RoleMoves
<1> QED
  BY <1>3, <1>4, <1>5

LEMMA RegisterKeeps ==
    ASSUME IInv, UNCHANGED <<clientVars, windowVars, conn>>, handleUIRegister,
           toDaemon # <<>>, toDaemon' = Tail(toDaemon), conn \in {"open", "closing"}
    PROVE  IInv'
<1> DEFINE ps == Registered("fallback", FallbackRank)
           reply == [type |-> "ui.registered", active |-> active' = "fallback"]
           status == IF active' # active \/ active' = "fallback"
                     THEN emitProviderStatus ELSE <<>>
           ms == <<reply>> \o status
<1>1. TypeOK
  BY DEF IInv
<1>2. /\ DOMAIN ps \subseteq UIs
      /\ \A u \in DOMAIN ps : ps[u] \in Ranks \cup {FallbackRank}
  BY <1>1 DEF TypeOK, AgentTypeOK, UIs, Registered
<1>3. recomputeActiveProvider(ps, {"fallback"}) /\ daemonSends(ms)
  BY DEF handleUIRegister
<1> HIDE DEF ps
<1>4. /\ DOMAIN providers' \subseteq UIs
      /\ \A u \in DOMAIN providers' : providers'[u] \in Ranks \cup {FallbackRank}
      /\ active' \in UIs \cup {"none"}
      /\ active' = "none" \/ active' \in DOMAIN providers'
  BY <1>2, <1>3, RecomputeTypes
<1>5. UNCHANGED <<sessions, subscriber, proc, cooling>>
  BY DEF handleUIRegister
<1>6. RolesTyped' /\ proc' \in {"none", "running", "exiting"}
  BY <1>1, <1>4, <1>5 DEF RolesTyped, AgentTypeOK, RoleIsHeld, TypeOK
<1>7. (active' = "fallback") \in BOOLEAN
  OBVIOUS
<1>8. reply \in ClientMessage /\ reply.type = "ui.registered"
  BY <1>7 DEF ClientMessage
<1>9. status \in Seq(ClientMessage) /\ Quiet(status)
  BY <1>4, StatusIsQuiet, NoMessage
<1> HIDE DEF reply, status
<1>10. <<reply>> \in Seq(ClientMessage) /\ Quiet(<<reply>>) /\ Announces(<<reply>>)
  BY <1>8, SingleMessage DEF SessionEvents
<1>11. ms \in Seq(ClientMessage) /\ Quiet(ms) /\ Announces(ms)
  BY <1>9, <1>10, Concatenated
<1> HIDE DEF ms
<1> QED
  BY <1>3, <1>6, <1>11, HandlerKeeps

\* The sessions that a subscriber is sent.
LEMMA ReplayIsTyped ==
    ASSUME NEW S \in SUBSET Ids, NEW order \in Orders(S)
    PROVE  [i \in DOMAIN order |-> [type |-> "session.created", id |-> order[i]]]
               \in Seq(ClientMessage)
<1>1. IsFiniteSet(S)
  BY IdsAssumption, FS_Subset
<1>2. PICK n \in Nat : n = Cardinality(S)
  BY <1>1, FS_CardinalityType
<1>3. order \in [1..n -> S]
  BY <1>2 DEF Orders
<1>4. \A i \in 1..n : [type |-> "session.created", id |-> order[i]] \in ClientMessage
  BY <1>3 DEF ClientMessage
<1>5. [i \in DOMAIN order |-> [type |-> "session.created", id |-> order[i]]]
          \in [1..n -> ClientMessage]
  BY <1>3, <1>4
<1> QED
  BY <1>5, <1>2

LEMMA SubscribeKeeps ==
    ASSUME IInv, UNCHANGED <<clientVars, windowVars, conn>>, handleSubscribe,
           toDaemon # <<>>, toDaemon' = Tail(toDaemon), conn \in {"open", "closing"},
           Head(toDaemon).type = "subscribe"
    PROVE  IInv'
<1>1. conn = "open" => Told
  <2> SUFFICES ASSUME conn = "open"
               PROVE  Told
    OBVIOUS
  <2>1. toDaemon \in Seq(DaemonMessage) /\ 1 \in 1..Len(toDaemon)
    BY DEF IInv, MessagesTyped
  <2>2. toDaemon[1].type = "subscribe"
    BY <2>1
  <2>3. ~\E j \in 1..(1-1) : TRUE
    OBVIOUS
  <2> QED
    BY <2>1, <2>2, <2>3 DEF IInv, SubscribeFollowsRegister, Follows
<1> DEFINE isRegistered == "fallback" \in DOMAIN providers
           isActive == isRegistered /\ active = "fallback"
           replayed == IF ~isRegistered \/ isActive THEN open ELSE {}
           reply == [type |-> "subscribed", registered |-> isRegistered,
                     active |-> isActive]
<1>2. PICK order \in Orders(replayed) :
         daemonSends([i \in DOMAIN order |->
                         [type |-> "session.created", id |-> order[i]]] \o <<reply>>)
  BY DEF handleSubscribe
<1>3. replayed \in SUBSET Ids
  BY DEF open
<1>4. reply \in ClientMessage
  <2>1. isRegistered \in BOOLEAN /\ isActive \in BOOLEAN
    OBVIOUS
  <2> HIDE DEF isRegistered, isActive
  <2> QED
    BY <2>1 DEF ClientMessage
<1> HIDE DEF replayed, reply
<1> DEFINE created == [i \in DOMAIN order |->
                          [type |-> "session.created", id |-> order[i]]]
           ms == created \o <<reply>>
<1>5. created \in Seq(ClientMessage)
  BY <1>3, ReplayIsTyped
<1>6. daemonSends(ms)
  BY <1>2
<1> HIDE DEF created
<1>7. ms \in Seq(ClientMessage)
  BY <1>4, <1>5, SingleMessage, Concatenated
<1>8. UNCHANGED <<sessions, providers, active, proc, cooling>> /\ subscriber' = TRUE
  BY DEF handleSubscribe
<1>9. RolesTyped' /\ proc' \in {"none", "running", "exiting"}
  BY <1>8 DEF RolesTyped, AgentTypeOK, RoleIsHeld, IInv, TypeOK
<1> HIDE DEF ms
<1>10. Head(toDaemon).type # "ui.register"
  OBVIOUS
<1> QED
  BY <1>1, <1>6, <1>7, <1>9, <1>10, HandlerKeeps

LEMMA AnswerKeeps ==
    ASSUME IInv, UNCHANGED <<clientVars, windowVars, conn>>,
           NEW c \in Ids, handleRespond(c) \/ handleCancel(c),
           toDaemon # <<>>, toDaemon' = Tail(toDaemon), conn \in {"open", "closing"},
           Head(toDaemon).type # "ui.register"
    PROVE  IInv'
<1>1. TypeOK
  BY DEF IInv
<1>2. conn = "open" /\ (subscriber \/ "fallback" \in DOMAIN providers) => Told
  BY ListenersHear
<1>3. CASE handleCancel(c) /\ closeSession(c, "cancelled")
  <2>1. /\ RolesTyped'
        /\ UNCHANGED <<subscriber, conn, proc>>
        /\ DOMAIN providers' \subseteq DOMAIN providers
    BY <1>3, Closing DEF Results
  <2>2. PICK ms \in Seq(ClientMessage) :
           daemonSends(ms) /\ (Quiet(ms) \/ (conn = "open" => Told))
    BY <1>3, Closing DEF Results
  <2>3. proc' \in {"none", "running", "exiting"}
    BY <1>1, <2>1 DEF TypeOK
  <2>4. conn = "open" /\ (subscriber' \/ "fallback" \in DOMAIN providers') => Told
    BY <1>2, <2>1
  <2> QED
    BY <2>1, <2>2, <2>3, <2>4, HandlerKeeps
<1>4. CASE /\ refuse \/ UNCHANGED toClient
           /\ UNCHANGED <<providers, active, subscriber, proc, cooling>>
           /\ sessions' \in [Ids -> {"none", "waiting", "verifying"}]
  <2> DEFINE m == [type |-> "error"]
  <2>1. m \in ClientMessage /\ m.type \notin SessionEvents
    BY DEF ClientMessage, SessionEvents
  <2>2. <<m>> \in Seq(ClientMessage) /\ Quiet(<<m>>)
    BY <2>1, SingleMessage
  <2>3. UNCHANGED toClient => daemonSends(<<>>)
    BY DEF daemonSends, IInv, MessagesTyped
  <2>4. PICK ms \in Seq(ClientMessage) : daemonSends(ms) /\ Quiet(ms)
    BY <1>4, <2>2, <2>3, NoMessage DEF refuse
  <2>5. RolesTyped' /\ proc' \in {"none", "running", "exiting"}
    BY <1>1, <1>4 DEF RolesTyped, AgentTypeOK, RoleIsHeld, IInv, TypeOK
  <2> QED
    BY <1>2, <1>4, <2>4, <2>5, HandlerKeeps
<1>5. CASE handleRespond(c)
  <2>1. sessions' \in [Ids -> {"none", "waiting", "verifying"}]
    BY <1>1, <1>5 DEF handleRespond, TypeOK, AgentTypeOK
  <2> QED
    BY <1>4, <1>5, <2>1 DEF handleRespond
<1>6. CASE handleCancel(c) /\ UNCHANGED sessions /\ ~closeSession(c, "cancelled")
  <2>1. sessions' \in [Ids -> {"none", "waiting", "verifying"}]
    BY <1>1, <1>6 DEF TypeOK, AgentTypeOK
  <2> QED
    BY <1>4, <1>6, <2>1 DEF handleCancel
<1> QED
  BY <1>3, <1>5, <1>6 DEF handleCancel

LEMMA MessageKeeps ==
    ASSUME IInv, UNCHANGED <<clientVars, windowVars>>, handleMessage
    PROVE  IInv'
<1> DEFINE m == Head(toDaemon)
<1>1. /\ conn \in {"open", "closing"}
      /\ toDaemon # <<>>
      /\ toDaemon' = Tail(toDaemon)
      /\ UNCHANGED conn
      /\ \/ m.type = "ui.register" /\ handleUIRegister
         \/ m.type = "subscribe" /\ handleSubscribe
         \/ m.type = "session.respond" /\ handleRespond(m.id)
         \/ m.type = "session.cancel" /\ handleCancel(m.id)
  BY DEF handleMessage
<1>2. m \in DaemonMessage
  BY <1>1 DEF IInv, MessagesTyped
<1> HIDE DEF m
<1>3. m.type \in {"session.respond", "session.cancel"} => m.id \in Ids
  BY <1>2 DEF DaemonMessage
<1>4. CASE m.type = "ui.register"
  BY <1>1, <1>4, RegisterKeeps
<1>5. CASE m.type = "subscribe"
  BY <1>1, <1>5, SubscribeKeeps DEF m
<1>6. CASE m.type \in {"session.respond", "session.cancel"}
  <2>1. handleRespond(m.id) \/ handleCancel(m.id)
    BY <1>1, <1>6
  <2>2. m.type # "ui.register"
    BY <1>6
  <2>3. Head(toDaemon).type # "ui.register"
    BY <2>2 DEF m
  <2> QED
    BY <1>1, <1>3, <1>6, <2>1, <2>3, AnswerKeeps
<1> QED
  BY <1>1, <1>4, <1>5, <1>6

LEMMA DisconnectKeeps ==
    ASSUME IInv, UNCHANGED <<clientVars, windowVars>>, onClientDisconnected
    PROVE  IInv'
<1>1. /\ conn = "closing" /\ conn' = "none" /\ subscriber' = FALSE
      /\ toDaemon = <<>> /\ UNCHANGED <<sessions, toDaemon, toClient>>
      /\ toClient = <<>>
  BY DEF onClientDisconnected, IInv, HungUpReadsNothing
<1>2. TypeOK
  BY DEF IInv
<1>3. /\ DOMAIN providers' \subseteq UIs \ {"fallback"}
      /\ \A u \in DOMAIN providers' : providers'[u] \in Ranks \cup {FallbackRank}
      /\ active' \in UIs \cup {"none"}
      /\ active' = "none" \/ active' \in DOMAIN providers'
  <2>1. CASE recomputeActiveProvider(Unregistered("fallback"), {})
    <3> DEFINE ps == Unregistered("fallback")
    <3>1. /\ DOMAIN ps \subseteq UIs \ {"fallback"}
          /\ \A u \in DOMAIN ps : ps[u] \in Ranks \cup {FallbackRank}
      BY <1>2 DEF Unregistered, TypeOK, AgentTypeOK
    <3>2. recomputeActiveProvider(ps, {})
      BY <2>1
    <3> HIDE DEF ps
    <3> QED
      BY <3>1, <3>2, RecomputeTypes
  <2>2. CASE "fallback" \notin DOMAIN providers /\ UNCHANGED <<providers, active>>
    BY <1>2, <2>2 DEF IInv, RoleIsHeld, TypeOK, AgentTypeOK
  <2> QED
    BY <2>1, <2>2 DEF onClientDisconnected
<1>4. proc' \in {"none", "running", "exiting"} /\ cooling' \in BOOLEAN
  <2>1. ensureFallbackUiRunning \/ UNCHANGED <<proc, cooling>>
    BY DEF onClientDisconnected, ensureIfNobody
  <2> QED
    BY <1>2, <2>1, LaunchTypes
<1>5. TypeOK' /\ RoleIsHeld'
  BY <1>1, <1>2, <1>3, <1>4
  DEF TypeOK, AgentTypeOK, RoleIsHeld, ClientTypeOK, WindowTypeOK, clientVars, windowVars
<1>6. MessagesTyped' /\ GoneIsForgotten' /\ HungUpReadsNothing' /\ ListenerIsTold'
  BY <1>1, <1>3 DEF IInv, MessagesTyped, GoneIsForgotten, HungUpReadsNothing, ListenerIsTold
<1>7. SubscribeFollowsRegister' /\ EventsFollowReply'
  BY <1>1 DEF SubscribeFollowsRegister, EventsFollowReply
<1>8. ShownWhileActive' /\ IdleIsHidden'
  BY <1>1 DEF IInv, ShownWhileActive, IdleIsHidden, isConnected, clientVars, windowVars
<1> QED
  BY <1>5, <1>6, <1>7, <1>8 DEF IInv

LEMMA CooldownKeeps ==
    ASSUME IInv, UNCHANGED <<clientVars, windowVars>>, CooldownEnds
    PROVE  IInv'
<1>1. /\ UNCHANGED <<sessions, providers, active, subscriber, proc, conn, toDaemon,
                     toClient>>
      /\ cooling' = FALSE
  BY DEF CooldownEnds
<1>2. RolesTyped' /\ proc' \in {"none", "running", "exiting"}
  BY <1>1 DEF RolesTyped, AgentTypeOK, RoleIsHeld, IInv, TypeOK
<1>3. daemonSends(<<>>)
  BY <1>1 DEF daemonSends, IInv, MessagesTyped
<1>4. /\ conn \in {"none", "lost"} =>
            ~subscriber' /\ "fallback" \notin DOMAIN providers'
      /\ conn = "open" /\ (subscriber' \/ "fallback" \in DOMAIN providers') => Told
  BY <1>1, ListenersHear DEF IInv, GoneIsForgotten
<1> QED
  BY <1>1, <1>2, <1>3, <1>4, NoMessage, HandlerKeeps

LEMMA RestartKeeps ==
    ASSUME IInv, UNCHANGED <<clientVars, windowVars>>, DaemonRestarts
    PROVE  IInv'
<1>1. /\ sessions' = [c \in Ids |-> "none"]
      /\ DOMAIN providers' = {}
      /\ active' = "none" /\ subscriber' = FALSE /\ cooling' = FALSE
      /\ toDaemon' = <<>> /\ UNCHANGED <<toClient, proc>>
      /\ conn' = CASE conn = "open"    -> "lost"
                   [] conn = "closing" -> "none"
                   [] OTHER            -> conn
  BY DEF DaemonRestarts, daemonHangsUp, NoProviders
<1>2. TypeOK'
  BY <1>1 DEF IInv, TypeOK, AgentTypeOK, ClientTypeOK, WindowTypeOK, clientVars, windowVars
<1>3. conn' \in {"none", "lost"} /\ (conn' = "lost" <=> conn \in {"open", "lost"})
  BY <1>1 DEF IInv, TypeOK
<1>4. RoleIsHeld' /\ GoneIsForgotten' /\ ListenerIsTold' /\ SubscribeFollowsRegister'
  BY <1>1, <1>3
  DEF RoleIsHeld, GoneIsForgotten, ListenerIsTold, SubscribeFollowsRegister
<1>5. MessagesTyped' /\ EventsFollowReply'
  BY <1>1 DEF IInv, MessagesTyped, EventsFollowReply, clientVars
<1>6. HungUpReadsNothing'
  BY <1>1, <1>3 DEF IInv, HungUpReadsNothing, TypeOK
<1>7. ShownWhileActive' /\ IdleIsHidden'
  BY <1>3 DEF IInv, ShownWhileActive, IdleIsHidden, isConnected, clientVars, windowVars
<1> QED
  BY <1>2, <1>4, <1>5, <1>6, <1>7 DEF IInv

LEMMA DaemonKeeps ==
    ASSUME IInv, UNCHANGED <<clientVars, windowVars>>, DaemonNext
    PROVE  IInv'
BY SessionKeeps, EndKeeps, MessageKeeps, DisconnectKeeps, ShellKeeps, CooldownKeeps,
   RestartKeeps
DEF DaemonNext

-----------------------------------------------------------------------------
(* The client's steps.                                                     *)

LEMMA Requests ==
    /\ registerProvider \in Seq(DaemonMessage) /\ Follows(registerProvider)
    /\ subscribe \in Seq(DaemonMessage)
    /\ registerProvider \o subscribe \in Seq(DaemonMessage)
    /\ Follows(registerProvider \o subscribe)
<1> DEFINE r == [type |-> "ui.register"]
           t == [type |-> "subscribe"]
<1>1. r \in DaemonMessage /\ t \in DaemonMessage
  BY DEF DaemonMessage
<1>2. <<r>> \in Seq(DaemonMessage) /\ <<t>> \in Seq(DaemonMessage)
  BY <1>1
<1>3. <<r>> \o <<t>> \in Seq(DaemonMessage)
  BY <1>2, ConcatProperties
<1>4. Follows(<<r>>)
  <2>1. Len(<<r>>) = 1 /\ <<r>>[1].type # "subscribe"
    OBVIOUS
  <2>2. \A i \in 1..1 : i = 1
    OBVIOUS
  <2> QED
    BY <2>1, <2>2 DEF Follows
<1>5. Follows(<<r>> \o <<t>>)
  <2>1. Len(<<r>> \o <<t>>) = 2 /\ (<<r>> \o <<t>>)[1].type = "ui.register"
    OBVIOUS
  <2>2. \A i \in 1..2 : i = 1 \/ 1 \in 1..(i-1)
    OBVIOUS
  <2> QED
    BY <2>1, <2>2 DEF Follows
<1> QED
  BY <1>2, <1>3, <1>4, <1>5 DEF registerProvider, subscribe

LEMMA FollowsConcatenated ==
    ASSUME NEW s \in Seq(DaemonMessage), NEW t \in Seq(DaemonMessage),
           Follows(s), Follows(t)
    PROVE  Follows(s \o t)
<1>1. /\ Len(s \o t) = Len(s) + Len(t)
      /\ \A i \in 1 .. Len(s) + Len(t) : (s \o t)[i] =
                     IF i <= Len(s) THEN s[i] ELSE t[i - Len(s)]
  BY ConcatProperties
<1>2. Len(s) \in Nat /\ Len(t) \in Nat
  OBVIOUS
<1> SUFFICES ASSUME NEW i \in 1..Len(s) + Len(t), (s \o t)[i].type = "subscribe"
             PROVE  \E j \in 1..(i-1) : (s \o t)[j].type = "ui.register"
  BY <1>1 DEF Follows
<1>3. CASE i <= Len(s)
  <2>1. i \in 1..Len(s) /\ s[i].type = "subscribe"
    BY <1>1, <1>2, <1>3
  <2>2. PICK j \in 1..(i-1) : s[j].type = "ui.register"
    BY <2>1 DEF Follows
  <2>3. j \in 1..Len(s) + Len(t) /\ j <= Len(s)
    BY <1>2, <1>3, <2>2
  <2> QED
    BY <1>1, <2>2, <2>3
<1>4. CASE ~(i <= Len(s))
  <2>1. i - Len(s) \in 1..Len(t) /\ t[i - Len(s)].type = "subscribe"
    BY <1>1, <1>2, <1>4
  <2>2. PICK j \in 1..((i - Len(s)) - 1) : t[j].type = "ui.register"
    BY <2>1 DEF Follows
  <2>3. /\ Len(s) + j \in 1..Len(s) + Len(t)
        /\ Len(s) + j \in 1..(i-1)
        /\ ~(Len(s) + j <= Len(s))
        /\ (Len(s) + j) - Len(s) = j
    BY <1>2, <1>4, <2>2
  <2>4. (s \o t)[Len(s) + j] = t[j]
    BY <1>1, <2>3
  <2> QED
    BY <2>2, <2>3, <2>4
<1> QED
  BY <1>3, <1>4

LEMMA AnswerFollows ==
    ASSUME NEW c \in Ids, NEW kind \in {"session.respond", "session.cancel"}
    PROVE  /\ <<[type |-> kind, id |-> c]>> \in Seq(DaemonMessage)
           /\ Follows(<<[type |-> kind, id |-> c]>>)
<1> DEFINE m == [type |-> kind, id |-> c]
<1>1. m \in DaemonMessage /\ m.type # "subscribe"
  BY DEF DaemonMessage
<1>2. <<m>> \in Seq(DaemonMessage) /\ Len(<<m>>) = 1 /\ <<m>>[1] = m
  BY <1>1
<1>3. \A i \in 1..1 : i = 1
  OBVIOUS
<1> QED
  BY <1>1, <1>2, <1>3 DEF Follows

LEMMA ConnectKeeps ==
    ASSUME IInv, UNCHANGED daemonVars, connected
    PROVE  IInv'
<1>1. /\ conn = "none" /\ conn' = "open"
      /\ toDaemon' = registerProvider \o subscribe
      /\ registered' = FALSE /\ subscribed' = FALSE
      /\ UNCHANGED <<providerActive, windowVars, proc, toClient>>
  BY DEF connected
<1>2. toClient = <<>> /\ ~subscriber /\ "fallback" \notin DOMAIN providers /\ ~visible
  BY <1>1 DEF IInv, HungUpReadsNothing, GoneIsForgotten, ShownWhileActive, isConnected
<1>3. TypeOK' /\ RoleIsHeld'
  BY <1>1 DEF IInv, TypeOK, AgentTypeOK, ClientTypeOK, WindowTypeOK, daemonVars,
     windowVars, RoleIsHeld
<1>4. MessagesTyped' /\ SubscribeFollowsRegister'
  BY <1>1, Requests DEF IInv, MessagesTyped, SubscribeFollowsRegister
<1>5. GoneIsForgotten' /\ HungUpReadsNothing' /\ ListenerIsTold'
  BY <1>1, <1>2 DEF GoneIsForgotten, HungUpReadsNothing, ListenerIsTold, daemonVars
<1>6. EventsFollowReply'
  BY <1>1, <1>2 DEF EventsFollowReply
<1>7. ShownWhileActive' /\ IdleIsHidden'
  BY <1>1, <1>2 DEF IInv, ShownWhileActive, IdleIsHidden, windowVars
<1> QED
  BY <1>3, <1>4, <1>5, <1>6, <1>7 DEF IInv

LEMMA DisconnectedKeeps ==
    ASSUME IInv, UNCHANGED daemonVars, disconnected
    PROVE  IInv'
<1>1. /\ conn = "lost" /\ toClient = <<>> /\ conn' = "none"
      /\ registered' = FALSE /\ subscribed' = FALSE /\ providerActive' = FALSE
      /\ busy' = TRUE
      /\ UNCHANGED <<proc, toDaemon, toClient>>
  BY DEF disconnected
<1>2. \/ dismiss /\ UNCHANGED clears
      \/ ~providerActive /\ UNCHANGED <<shown, visible, idle, clears, failed>>
  BY DEF disconnected
<1>3. TypeOK' /\ ~visible' /\ IdleIsHidden'
  <2>1. AgentTypeOK' /\ ClientTypeOK' /\ proc' \in {"none", "running", "exiting"}
    BY <1>1 DEF IInv, TypeOK, AgentTypeOK, ClientTypeOK, daemonVars
  <2>2. CASE dismiss /\ UNCHANGED clears
    BY <1>1, <2>1, <2>2 DEF IInv, TypeOK, WindowTypeOK, dismiss, IdleIsHidden
  <2>3. CASE ~providerActive /\ UNCHANGED <<shown, visible, idle, clears, failed>>
    BY <1>1, <2>1, <2>3 DEF IInv, TypeOK, WindowTypeOK, ShownWhileActive, IdleIsHidden
  <2> QED
    BY <1>2, <2>2, <2>3
<1>4. MessagesTyped' /\ SubscribeFollowsRegister' /\ EventsFollowReply'
  BY <1>1 DEF IInv, MessagesTyped, SubscribeFollowsRegister, EventsFollowReply
<1>5. GoneIsForgotten' /\ HungUpReadsNothing' /\ ListenerIsTold' /\ RoleIsHeld'
  BY <1>1 DEF IInv, GoneIsForgotten, HungUpReadsNothing, ListenerIsTold, RoleIsHeld,
     daemonVars
<1>6. ShownWhileActive'
  BY <1>3 DEF ShownWhileActive
<1> QED
  BY <1>3, <1>4, <1>5, <1>6 DEF IInv

LEMMA EndingKeeps ==
    ASSUME IInv, UNCHANGED daemonVars,
           NEW state \in {"none", "exiting"}, NEW lastWords \in Seq(DaemonMessage),
           ends(state, lastWords)
    PROVE  IInv'
<1>1. /\ proc' = state /\ clientHangsUp(lastWords) /\ clientGone /\ windowGone
      /\ toClient' = <<>>
  BY DEF ends, clientHangsUp
<1>2. conn' \in {"none", "closing"} /\ (conn' = "none" => conn \in {"none", "lost"})
  BY <1>1 DEF clientHangsUp, IInv, TypeOK
<1>3. toDaemon' \in Seq(DaemonMessage)
  BY <1>1, ConcatProperties DEF clientHangsUp, IInv, MessagesTyped
<1>4. TypeOK'
  BY <1>1, <1>2 DEF IInv, TypeOK, AgentTypeOK, ClientTypeOK, WindowTypeOK, daemonVars,
     clientGone, windowGone
<1>5. GoneIsForgotten' /\ RoleIsHeld'
  BY <1>2 DEF IInv, GoneIsForgotten, RoleIsHeld, daemonVars
<1>6. /\ MessagesTyped' /\ HungUpReadsNothing' /\ ListenerIsTold'
      /\ EventsFollowReply' /\ SubscribeFollowsRegister'
  BY <1>1, <1>2, <1>3 DEF MessagesTyped, HungUpReadsNothing, ListenerIsTold,
     EventsFollowReply, SubscribeFollowsRegister
<1>7. ShownWhileActive' /\ IdleIsHidden'
  BY <1>1 DEF windowGone, ShownWhileActive, IdleIsHidden
<1> QED
  BY <1>4, <1>5, <1>6, <1>7 DEF IInv

LEMMA ExitKeeps ==
    ASSUME IInv, UNCHANGED daemonVars, closeEvent \/ idleExit \/ Killed
    PROVE  IInv'
<1>1. shown # NoId => shown \in Ids
  BY DEF IInv, TypeOK, WindowTypeOK
<1>2. <<>> \in Seq(DaemonMessage)
  OBVIOUS
<1>3. CASE closeEvent
  <2>1. PICK lastWords \in Seq(DaemonMessage) : ends("exiting", lastWords)
    BY <1>1, <1>2, <1>3, AnswerFollows DEF closeEvent
  <2> QED
    BY <2>1, EndingKeeps
<1>4. CASE idleExit
  BY <1>2, <1>4, EndingKeeps DEF idleExit
<1>5. CASE Killed
  BY <1>2, <1>5, EndingKeeps DEF Killed
<1> QED
  BY <1>3, <1>4, <1>5

\* A step of a client that keeps its connection.
LEMMA ClientStepKeeps ==
    ASSUME IInv, UNCHANGED daemonVars, conn' = conn,
           proc' \in {"none", "running", "exiting"},
           ClientTypeOK', WindowTypeOK', ShownWhileActive', IdleIsHidden',
           MessagesTyped', HungUpReadsNothing', EventsFollowReply', Told => Told',
           toDaemon' = toDaemon \/ (conn = "open" => Told' \/ Follows(toDaemon'))
    PROVE  IInv'
<1>1. TypeOK' /\ RoleIsHeld' /\ GoneIsForgotten' /\ ListenerIsTold'
  BY DEF IInv, TypeOK, AgentTypeOK, daemonVars, RoleIsHeld, GoneIsForgotten, ListenerIsTold
<1>2. SubscribeFollowsRegister'
  BY DEF IInv, SubscribeFollowsRegister
<1> QED
  BY <1>1, <1>2 DEF IInv

LEMMA WatchdogKeeps ==
    ASSUME IInv, UNCHANGED daemonVars, subscribeWatchdog
    PROVE  IInv'
<1> DEFINE first == IF registered THEN <<>> ELSE registerProvider
           second == IF subscribed THEN <<>> ELSE subscribe
<1>1. /\ UNCHANGED <<clientVars, windowVars, proc, conn, toClient>>
      /\ toDaemon' = (toDaemon \o first) \o second
  BY DEF subscribeWatchdog
<1>2. toDaemon \in Seq(DaemonMessage)
  BY DEF IInv, MessagesTyped
<1>3. first \in Seq(DaemonMessage) /\ second \in Seq(DaemonMessage)
  BY Requests
<1>4. toDaemon' \in Seq(DaemonMessage)
  <2> HIDE DEF first, second
  <2>1. toDaemon \o first \in Seq(DaemonMessage)
    BY <1>2, <1>3, ConcatProperties
  <2> QED
    BY <1>1, <1>3, <2>1, ConcatProperties
<1>5. Told' <=> Told
  BY <1>1 DEF Told, clientVars
<1>6. conn = "open" => Told' \/ Follows(toDaemon')
  <2> SUFFICES ASSUME conn = "open", ~Told
               PROVE  Follows(toDaemon')
    BY <1>5
  <2>1. Follows(toDaemon) /\ first = registerProvider
    BY DEF IInv, SubscribeFollowsRegister, Told
  <2>2. CASE subscribed
    <3>1. Follows(toDaemon \o registerProvider)
          /\ toDaemon \o registerProvider \in Seq(DaemonMessage)
      BY <1>2, <2>1, Requests, FollowsConcatenated, ConcatProperties
    <3>2. toDaemon' = toDaemon \o registerProvider
      BY <1>1, <2>1, <2>2, <3>1, ConcatEmptySeq
    <3> QED
      BY <3>1, <3>2
  <2>3. CASE ~subscribed
    <3>1. toDaemon' = toDaemon \o (registerProvider \o subscribe)
      <4>1. toDaemon' = (toDaemon \o registerProvider) \o subscribe
        BY <1>1, <2>1, <2>3
      <4>2. registerProvider \in Seq(DaemonMessage) /\ subscribe \in Seq(DaemonMessage)
        BY Requests
      <4> QED
        BY <1>2, <4>1, <4>2, ConcatAssociative
    <3>2. Follows(toDaemon \o (registerProvider \o subscribe))
      BY <1>2, <2>1, Requests, FollowsConcatenated
    <3> QED
      BY <3>1, <3>2
  <2> QED
    BY <2>2, <2>3
<1>7. /\ conn' = conn /\ proc' \in {"none", "running", "exiting"}
      /\ ClientTypeOK' /\ WindowTypeOK' /\ ShownWhileActive' /\ IdleIsHidden'
      /\ MessagesTyped' /\ HungUpReadsNothing' /\ EventsFollowReply'
  BY <1>1, <1>4 DEF IInv, TypeOK, ClientTypeOK, WindowTypeOK, ShownWhileActive,
     IdleIsHidden, isConnected, MessagesTyped, HungUpReadsNothing, EventsFollowReply,
     clientVars, windowVars
<1> QED
  BY <1>5, <1>6, <1>7, ClientStepKeeps

\* The user submits or cancels, a delayed clear fires, or the process is gone.
LEMMA ClickKeeps ==
    ASSUME IInv, UNCHANGED daemonVars,
           SubmitClicked \/ CancelClicked \/ delayedClear \/ Gone
    PROVE  IInv'
<1>1. UNCHANGED <<clientVars, conn, toClient>>
  BY DEF SubmitClicked, CancelClicked, delayedClear, Gone, socketVars
<1>2. proc' \in {"none", "running", "exiting"}
  BY DEF SubmitClicked, CancelClicked, delayedClear, Gone, IInv, TypeOK
<1>3. Told' <=> Told
  BY <1>1 DEF Told, clientVars
<1>4. toDaemon' \in Seq(DaemonMessage)
      /\ (toDaemon' = toDaemon \/ (conn = "open" => Told' \/ Follows(toDaemon')))
  <2>1. CASE UNCHANGED toDaemon
    BY <2>1 DEF IInv, MessagesTyped
  <2>2. CASE SubmitClicked \/ CancelClicked
    <3>1. PICK kind \in {"session.respond", "session.cancel"} :
             clientSends(<<[type |-> kind, id |-> shown]>>)
      BY <2>2 DEF SubmitClicked, CancelClicked
    <3>2. shown \in Ids
      BY <2>2 DEF SubmitClicked, CancelClicked, IInv, TypeOK, WindowTypeOK
    <3> DEFINE ms == <<[type |-> kind, id |-> shown]>>
    <3>3. ms \in Seq(DaemonMessage) /\ Follows(ms)
      BY <3>2, AnswerFollows
    <3>4. clientSends(ms) /\ toDaemon \in Seq(DaemonMessage)
      BY <3>1 DEF IInv, MessagesTyped
    <3> HIDE DEF ms
    <3>5. CASE conn # "open"
      BY <2>1, <3>4, <3>5 DEF clientSends
    <3>6. CASE conn = "open"
      <4>1. toDaemon' = toDaemon \o ms /\ toDaemon' \in Seq(DaemonMessage)
        BY <3>3, <3>4, <3>6, ConcatProperties DEF clientSends
      <4>2. Told \/ Follows(toDaemon)
        BY <3>6 DEF IInv, SubscribeFollowsRegister
      <4>3. Follows(toDaemon) => Follows(toDaemon')
        BY <3>3, <3>4, <4>1, FollowsConcatenated
      <4> QED
        BY <1>3, <4>1, <4>2, <4>3
    <3> QED
      BY <3>5, <3>6
  <2> QED
    BY <2>1, <2>2 DEF delayedClear, Gone, socketVars
<1>5. WindowTypeOK' /\ ShownWhileActive' /\ IdleIsHidden'
  <2>1. CASE UNCHANGED <<shown, visible, idle, clears, failed>> /\ busy' \in BOOLEAN
    BY <1>1, <2>1 DEF IInv, TypeOK, WindowTypeOK, ShownWhileActive, IdleIsHidden,
       isConnected, clientVars
  <2>2. CASE delayedClear
    <3>1. /\ clears > 0 /\ clears' = clears - 1 /\ busy' = FALSE
          /\ shown' = NoId /\ visible' = FALSE /\ idle' = TRUE /\ failed' = FALSE
      BY <2>2 DEF delayedClear, dismiss
    <3>2. clears' \in Nat
      BY <3>1 DEF IInv, TypeOK, WindowTypeOK
    <3> QED
      BY <3>1, <3>2 DEF WindowTypeOK, ShownWhileActive, IdleIsHidden
  <2> QED
    BY <2>1, <2>2 DEF SubmitClicked, CancelClicked, Gone, windowVars, IInv, TypeOK,
       WindowTypeOK
<1>6. ClientTypeOK' /\ MessagesTyped' /\ HungUpReadsNothing' /\ EventsFollowReply'
  BY <1>1, <1>4 DEF IInv, TypeOK, ClientTypeOK, MessagesTyped, HungUpReadsNothing,
     EventsFollowReply, clientVars
<1> QED
  BY <1>1, <1>2, <1>3, <1>4, <1>5, <1>6, ClientStepKeeps

\* The client reads on.
LEMMA Reading ==
    ASSUME IInv, toClient # <<>>, toClient' = Tail(toClient),
           registered' = (registered \/ Head(toClient).type = "ui.registered")
    PROVE  /\ Head(toClient) \in ClientMessage
           /\ Head(toClient).type \in SessionEvents => registered
           /\ toClient' \in Seq(ClientMessage)
           /\ EventsFollowReply'
           /\ Told => Told'
<1> DEFINE q == toClient
<1>1. q \in Seq(ClientMessage) /\ q # <<>>
  BY DEF IInv, MessagesTyped
<1>2. /\ Head(q) \in ClientMessage /\ Head(q) = q[1]
      /\ toClient' \in Seq(ClientMessage)
      /\ Len(toClient') = Len(q) - 1
      /\ \A k \in 1..Len(toClient') : toClient'[k] = q[k+1]
  BY <1>1, HeadTailProperties
<1>3. Len(q) \in Nat /\ 1 \in 1..Len(q)
  BY <1>1
<1>4. \A i \in 1..Len(q) : q[i].type \in SessionEvents =>
          registered \/ \E j \in 1..(i-1) : q[j].type = "ui.registered"
  BY DEF IInv, EventsFollowReply
<1>5. registered' = (registered \/ q[1].type = "ui.registered")
  BY <1>2
<1> HIDE DEF q
<1>6. q[1].type \in SessionEvents => registered
  <2>1. ~\E j \in 1..(1-1) : TRUE
    OBVIOUS
  <2> QED
    BY <1>3, <1>4, <2>1
<1>7. ASSUME NEW j \in 1..Len(q), q[j].type = "ui.registered", ~registered'
      PROVE  j - 1 \in 1..Len(toClient') /\ toClient'[j-1].type = "ui.registered"
  <2>1. j # 1
    BY <1>5, <1>7
  <2>2. j - 1 \in 1..Len(toClient') /\ (j - 1) + 1 = j
    BY <1>2, <1>3, <2>1
  <2> QED
    BY <1>2, <1>7, <2>2
<1>8. EventsFollowReply'
  <2> SUFFICES ASSUME NEW i \in 1..Len(toClient'),
                      toClient'[i].type \in SessionEvents, ~registered'
               PROVE  \E j \in 1..(i-1) : toClient'[j].type = "ui.registered"
    BY DEF EventsFollowReply
  <2>1. i + 1 \in 1..Len(q) /\ q[i+1].type \in SessionEvents /\ (i + 1) - 1 = i
    BY <1>2, <1>3
  <2>2. ~registered
    BY <1>5
  <2>3. PICK j \in 1..i : q[j].type = "ui.registered"
    BY <1>4, <2>1, <2>2
  <2>4. j \in 1..Len(q)
    BY <1>2, <1>3, <2>3
  <2>5. j - 1 \in 1..Len(toClient') /\ toClient'[j-1].type = "ui.registered"
    BY <1>7, <2>3, <2>4
  <2>6. j - 1 \in 1..(i-1)
    BY <2>3, <2>5
  <2> QED
    BY <2>5, <2>6
<1>9. ASSUME Told
      PROVE  Told'
  <2> SUFFICES ASSUME ~registered'
               PROVE  \E i \in 1..Len(toClient') : toClient'[i].type = "ui.registered"
    BY DEF Told, Announces
  <2>1. PICK j \in 1..Len(q) : q[j].type = "ui.registered"
    BY <1>5, <1>9 DEF Told, Announces, q
  <2> QED
    BY <1>7, <2>1
<1>10. Head(toClient) = q[1]
  BY <1>2 DEF q
<1> QED
  BY <1>2, <1>6, <1>8, <1>9, <1>10 DEF q

WindowKept == WindowTypeOK /\ IdleIsHidden /\ (visible => shown # NoId)

LEMMA SlotsKeep ==
    ASSUME IInv
    PROVE  /\ \A c \in Ids : sessionCreated(c) => WindowKept'
           /\ \A c \in Ids : sessionUpdated(c) => WindowKept' /\ (visible' => visible)
           /\ \A c \in Ids, result \in Results :
                 sessionClosed(c, result) => WindowKept' /\ (visible' => visible)
           /\ \A value \in BOOLEAN :
                 providerStateChanged(value) =>
                     WindowKept' /\ (visible' => visible /\ value)
           /\ UNCHANGED windowVars => WindowKept' /\ (visible' => visible)
<1>1. WindowKept
  BY DEF IInv, WindowKept, TypeOK, ShownWhileActive
<1>2. ASSUME NEW c \in Ids, sessionCreated(c)
      PROVE  WindowKept'
  BY <1>1, <1>2, IdsAssumption
  DEF sessionCreated, WindowKept, WindowTypeOK, IdleIsHidden
<1>3. ASSUME UNCHANGED <<shown, visible, idle, failed>>, clears' \in Nat, busy' \in BOOLEAN
      PROVE  WindowKept' /\ (visible' => visible)
  BY <1>1, <1>3 DEF WindowKept, WindowTypeOK, IdleIsHidden
<1>4. ASSUME dismiss, clears' \in Nat, busy' \in BOOLEAN
      PROVE  WindowKept' /\ ~visible'
  BY <1>4 DEF dismiss, WindowKept, WindowTypeOK, IdleIsHidden
<1>5. clears \in Nat /\ busy \in BOOLEAN
  BY <1>1 DEF WindowKept, WindowTypeOK
<1>6. ASSUME NEW c \in Ids, sessionUpdated(c)
      PROVE  WindowKept' /\ (visible' => visible)
  BY <1>3, <1>5, <1>6 DEF sessionUpdated
<1>7. ASSUME NEW c \in Ids, NEW result \in Results, sessionClosed(c, result)
      PROVE  WindowKept' /\ (visible' => visible)
  <2>1. CASE UNCHANGED windowVars
    BY <1>3, <1>5, <2>1 DEF windowVars
  <2>2. CASE /\ clears' = clears + 1
             /\ UNCHANGED <<shown, visible, busy, idle, failed>>
    BY <1>3, <1>5, <2>2
  <2>3. CASE dismiss /\ busy' = FALSE /\ UNCHANGED clears
    BY <1>4, <1>5, <2>3
  <2>4. CASE /\ busy' = FALSE /\ failed' = TRUE
             /\ UNCHANGED <<shown, visible, idle, clears>>
    BY <1>1, <2>4 DEF WindowKept, WindowTypeOK, IdleIsHidden
  <2> QED
    BY <1>7, <2>1, <2>2, <2>3, <2>4 DEF sessionClosed
<1>8. ASSUME NEW value \in BOOLEAN, providerStateChanged(value)
      PROVE  WindowKept' /\ (visible' => visible /\ value)
  BY <1>3, <1>4, <1>5, <1>8 DEF providerStateChanged
<1>9. UNCHANGED windowVars => WindowKept' /\ (visible' => visible)
  BY <1>3, <1>5 DEF windowVars
<1> QED
  BY <1>2, <1>6, <1>7, <1>8, <1>9

LEMMA RoleHeard ==
    ASSUME IInv, conn' = conn, NEW value \in BOOLEAN, NEW isRegistered \in BOOLEAN,
           setProviderActive(value, isRegistered)
    PROVE  /\ providerActive' = value
           /\ WindowKept'
           /\ visible' => visible /\ providerActive'
           /\ toDaemon' \in Seq(DaemonMessage)
           /\ toDaemon' = toDaemon \/ isRegistered
<1>1. providerActive' = value
  BY DEF setProviderActive
<1>2. visible => providerActive
  BY DEF IInv, ShownWhileActive
<1>3. toDaemon \in Seq(DaemonMessage)
  BY DEF IInv, MessagesTyped
<1>4. clientSends(subscribe) => toDaemon' \in Seq(DaemonMessage)
  BY <1>3, Requests, ConcatProperties DEF clientSends
<1>5. CASE value # providerActive
  <2>1. /\ providerStateChanged(value)
        /\ UNCHANGED toDaemon \/ (isRegistered /\ clientSends(subscribe))
    BY <1>5 DEF setProviderActive
  <2>2. WindowKept' /\ (visible' => visible /\ value)
    BY <2>1, SlotsKeep
  <2> QED
    BY <1>1, <1>3, <1>4, <2>1, <2>2
<1>6. CASE value = providerActive
  <2>1. UNCHANGED <<windowVars, toDaemon>>
    BY <1>6 DEF setProviderActive
  <2>2. WindowKept' /\ (visible' => visible)
    BY <2>1, SlotsKeep
  <2> QED
    BY <1>1, <1>2, <1>3, <1>6, <2>1, <2>2
<1> QED
  BY <1>5, <1>6

LEMMA ReadKeeps ==
    ASSUME IInv, UNCHANGED daemonVars, clientReads
    PROVE  IInv'
<1> DEFINE m == Head(toClient)
<1>1. /\ isConnected /\ toClient # <<>> /\ toClient' = Tail(toClient)
      /\ UNCHANGED <<proc, conn>>
      /\ onSubscribed(m) \/ onRegistered(m) \/ onActive(m) \/ onError(m) \/ onSession(m)
  BY DEF clientReads
<1>2. m \in ClientMessage
  BY <1>1 DEF IInv, MessagesTyped
<1> HIDE DEF m
<1>3. registered \in BOOLEAN /\ subscribed \in BOOLEAN /\ providerActive \in BOOLEAN
  BY DEF IInv, TypeOK, ClientTypeOK
<1>4. registered' = (registered \/ m.type = "ui.registered")
      /\ subscribed' \in BOOLEAN
  <2>1. CASE onRegistered(m)
    BY <1>3, <2>1 DEF onRegistered
  <2>2. CASE onSubscribed(m)
    BY <1>3, <2>2 DEF onSubscribed
  <2>3. CASE onActive(m)
    BY <1>3, <2>3 DEF onActive
  <2>4. CASE onError(m)
    BY <1>3, <2>4 DEF onError
  <2>5. CASE onSession(m)
    <3>1. m.type # "ui.registered" /\ UNCHANGED clientVars
      BY <2>5 DEF onSession
    <3> QED
      BY <1>3, <3>1 DEF clientVars
  <2> QED
    BY <1>1, <2>1, <2>2, <2>3, <2>4, <2>5
<1>5. /\ m.type \in SessionEvents => registered
      /\ toClient' \in Seq(ClientMessage)
      /\ EventsFollowReply'
      /\ Told => Told'
  <2>1. registered' = (registered \/ Head(toClient).type = "ui.registered")
    BY <1>4 DEF m
  <2> QED
    BY <1>1, <2>1, Reading DEF m
<1>6. /\ providerActive' \in BOOLEAN
      /\ WindowKept'
      /\ visible' => providerActive'
      /\ toDaemon' \in Seq(DaemonMessage)
      /\ toDaemon' = toDaemon \/ registered'
  <2>1. toDaemon \in Seq(DaemonMessage) /\ (visible => providerActive)
    BY DEF IInv, MessagesTyped, ShownWhileActive
  <2>2. CASE UNCHANGED <<providerActive, windowVars, toDaemon>>
    <3>1. UNCHANGED windowVars
      BY <2>2
    <3>2. WindowKept' /\ (visible' => visible)
      BY <3>1, SlotsKeep
    <3> QED
      BY <1>3, <2>1, <2>2, <3>2
  <2>3. ASSUME NEW value \in BOOLEAN, NEW isRegistered \in BOOLEAN,
               setProviderActive(value, isRegistered), isRegistered => registered'
        PROVE  /\ providerActive' \in BOOLEAN
               /\ WindowKept'
               /\ visible' => providerActive'
               /\ toDaemon' \in Seq(DaemonMessage)
               /\ toDaemon' = toDaemon \/ registered'
    BY <1>1, <2>3, RoleHeard
  <2>4. CASE onSubscribed(m)
    <3>1. m.type = "subscribed"
      BY <2>4 DEF onSubscribed
    <3>2. m.active \in BOOLEAN
      BY <1>2, <3>1 DEF ClientMessage
    <3>3. registered => registered'
      BY <1>4
    <3> QED
      BY <1>3, <2>2, <2>3, <2>4, <3>2, <3>3 DEF onSubscribed
  <2>5. CASE onRegistered(m)
    <3>1. m.type = "ui.registered" /\ registered'
      BY <2>5 DEF onRegistered
    <3>2. m.active \in BOOLEAN
      BY <1>2, <3>1 DEF ClientMessage
    <3> QED
      BY <2>3, <2>5, <3>1, <3>2 DEF onRegistered
  <2>6. CASE onActive(m)
    <3>1. CASE setProviderActive(m.who # "shell", TRUE) /\ registered
      <4>1. (m.who # "shell") \in BOOLEAN /\ registered'
        BY <1>4, <3>1
      <4> QED
        BY <2>3, <3>1, <4>1
    <3> QED
      BY <2>2, <2>6, <3>1 DEF onActive
  <2>7. CASE onError(m)
    <3>1. setProviderActive(FALSE, registered) /\ (registered => registered')
      BY <1>4, <2>7 DEF onError
    <3> QED
      BY <1>3, <2>3, <3>1
  <2>8. CASE onSession(m)
    <3>1. UNCHANGED <<clientVars, toDaemon>>
      BY <2>8 DEF onSession
    <3>2. m.type \in SessionEvents
      BY <2>8 DEF onSession, SessionEvents
    <3>3. CASE UNCHANGED windowVars
      BY <2>2, <3>1, <3>3 DEF clientVars
    <3>4. CASE /\ providerActive
               /\ \/ m.type = "session.created" /\ sessionCreated(m.id)
                  \/ m.type = "session.updated" /\ sessionUpdated(m.id)
                  \/ m.type = "session.closed"  /\ sessionClosed(m.id, m.result)
      <4>1. m.id \in Ids /\ (m.type = "session.closed" => m.result \in Results)
        BY <1>2, <3>2 DEF ClientMessage, SessionEvents
      <4>2. WindowKept'
        BY <3>4, <4>1, SlotsKeep
      <4> QED
        BY <1>3, <2>1, <3>1, <3>4, <4>2 DEF clientVars
    <3> QED
      BY <1>5, <2>8, <3>2, <3>3, <3>4 DEF onSession
  <2> QED
    BY <1>1, <2>4, <2>5, <2>6, <2>7, <2>8
<1>7. ClientTypeOK'
  <2>1. registered' \in BOOLEAN
    BY <1>4
  <2> QED
    BY <1>4, <1>6, <2>1 DEF ClientTypeOK
<1>8. WindowTypeOK' /\ ShownWhileActive' /\ IdleIsHidden'
  BY <1>1, <1>6 DEF WindowKept, ShownWhileActive, isConnected
<1>9. MessagesTyped' /\ HungUpReadsNothing'
  BY <1>1, <1>5, <1>6 DEF MessagesTyped, HungUpReadsNothing, isConnected
<1>10. proc' \in {"none", "running", "exiting"} /\ conn' = conn
  BY <1>1 DEF IInv, TypeOK
<1>11. toDaemon' = toDaemon \/ (conn = "open" => Told' \/ Follows(toDaemon'))
  BY <1>6 DEF Told
<1> QED
  BY <1>5, <1>7, <1>8, <1>9, <1>10, <1>11, ClientStepKeeps

LEMMA ClientKeeps ==
    ASSUME IInv, UNCHANGED daemonVars, ClientNext
    PROVE  IInv'
BY ConnectKeeps, DisconnectedKeeps, WatchdogKeeps, ReadKeeps, ClickKeeps, ExitKeeps
DEF ClientNext

LEMMA StutterKeeps ==
    ASSUME IInv, UNCHANGED vars
    PROVE  IInv'
<1>1. /\ UNCHANGED daemonVars /\ UNCHANGED <<clientVars, windowVars, conn>>
      /\ UNCHANGED <<proc, toDaemon, toClient>>
  BY DEF vars, socketVars
<1>2. ClientTypeOK' /\ WindowTypeOK' /\ ShownWhileActive' /\ IdleIsHidden'
  BY <1>1 DEF IInv, TypeOK, ClientTypeOK, WindowTypeOK, ShownWhileActive, IdleIsHidden,
     isConnected, clientVars, windowVars
<1>3. MessagesTyped' /\ HungUpReadsNothing' /\ EventsFollowReply'
  BY <1>1 DEF IInv, MessagesTyped, HungUpReadsNothing, EventsFollowReply, clientVars
<1>4. Told => Told'
  BY <1>1 DEF Told, clientVars
<1>5. proc' \in {"none", "running", "exiting"}
  BY <1>1 DEF IInv, TypeOK
<1> QED
  BY <1>1, <1>2, <1>3, <1>4, <1>5, ClientStepKeeps

LEMMA Inductive == Spec => []IInv
<1>1. Init => IInv
  <2> SUFFICES ASSUME Init
               PROVE  IInv
    OBVIOUS
  <2>1. TypeOK
    BY DEF Init, AgentInit, NoProviders, ClientInit, WindowInit, TypeOK, AgentTypeOK,
       ClientTypeOK, WindowTypeOK
  <2>2. RoleIsHeld /\ GoneIsForgotten /\ HungUpReadsNothing /\ ListenerIsTold
    BY DEF Init, AgentInit, NoProviders, RoleIsHeld, GoneIsForgotten,
       HungUpReadsNothing, ListenerIsTold
  <2>3. MessagesTyped /\ EventsFollowReply /\ SubscribeFollowsRegister
    BY DEF Init, MessagesTyped, EventsFollowReply, SubscribeFollowsRegister
  <2>4. ShownWhileActive /\ IdleIsHidden
    BY DEF Init, WindowInit, ShownWhileActive, IdleIsHidden
  <2> QED
    BY <2>1, <2>2, <2>3, <2>4 DEF IInv
<1>2. IInv /\ [Next]_vars => IInv'
  BY DaemonKeeps, ClientKeeps, StutterKeeps DEF Next
<1> QED
  BY <1>1, <1>2, PTL DEF Spec

\* Types, and messages that either side can read.
THEOREM TypeCorrect == Spec => [](TypeOK /\ MessagesTyped)
<1>1. IInv => TypeOK /\ MessagesTyped
  BY DEF IInv
<1> QED
  BY <1>1, Inductive, PTL

\* A prompt is visible only in a client that believes it has the role and that
\* has not learnt of a lost connection, however messages of registration, role
\* and sessions interleave with disconnects (FallbackWindow.cpp:469-481,
\* FallbackClient.cpp:26-44).
THEOREM PromptNeedsRole == Spec => []ShownWhileActive
<1>1. IInv => ShownWhileActive
  BY DEF IInv
<1> QED
  BY <1>1, Inductive, PTL

\* The countdown to the exit runs only over an empty window
\* (FallbackWindow.cpp:407-413).
THEOREM CountdownSparesPrompts == Spec => []IdleIsHidden
<1>1. IInv => IdleIsHidden
  BY DEF IInv
<1> QED
  BY <1>1, Inductive, PTL

-----------------------------------------------------------------------------
(* What the client will know.                                              *)

\* A message that sets the role of a client that is registered, and how.
Decides(m) ==
    \/ m.type \in {"ui.registered", "ui.active", "error"}
    \/ m.type = "subscribed" /\ m.registered

Says(m) ==
    \/ m.type \in {"ui.registered", "subscribed"} /\ m.active
    \/ m.type = "ui.active" /\ m.who # "shell"

Undecided(ms) == \A i \in 1..Len(ms) : ~Decides(ms[i])

\* The last message that decides says b.
Tells(ms, b) ==
    \E i \in 1..Len(ms) :
        /\ Decides(ms[i]) /\ (Says(ms[i]) <=> b)
        /\ \A j \in (i+1)..Len(ms) : ~Decides(ms[j])

\* The prompt for c goes with this message, or has its end displayed.
IsEnd(m, c) ==
    \/ m.type = "session.closed" /\ m.id = c
    \/ Decides(m) /\ ~Says(m)

\* Having read on, the client knows whether the shell has the role.
RoleIsUnderWay ==
    conn = "open" /\ Told =>
        \/ Tells(toClient, active # "shell")
        \/ Undecided(toClient) /\ (providerActive <=> active # "shell")

ToldIsListed ==
    conn = "open" /\ Told => subscriber \/ "fallback" \in DOMAIN providers

RoleIsFilled == DOMAIN providers # {} => active # "none"

ShownIsRegistered == visible => registered

\* The client will have the role when it reads message i.
Heard(i) ==
    \/ /\ providerActive
       /\ \A l \in 1..(i-1) : ~Decides(toClient[l])
    \/ \E j \in 1..(i-1) :
          /\ Decides(toClient[j]) /\ Says(toClient[j])
          /\ \A l \in (j+1)..(i-1) : ~Decides(toClient[l])

ShownEnds ==
    conn = "open" /\ visible =>
        \/ sessions[shown] # "none" \/ failed \/ clears > 0
        \/ \E j \in 1..Len(toClient) : IsEnd(toClient[j], shown)

CreatedEnds ==
    conn = "open" => \A i \in 1..Len(toClient) :
        toClient[i].type = "session.created" /\ Heard(i) =>
            \/ sessions[toClient[i].id] # "none"
            \/ \E j \in (i+1)..Len(toClient) : IsEnd(toClient[j], toClient[i].id)

Listed == subscriber \/ "fallback" \in DOMAIN providers

\* Neither registers the client nor shows it anything new.
Plain(ms) == \A i \in 1..Len(ms) : ms[i].type \notin {"session.created", "ui.registered"}

Ends(ms, c) == \E j \in 1..Len(ms) : IsEnd(ms[j], c)

RInv ==
    /\ RoleIsUnderWay
    /\ ToldIsListed
    /\ RoleIsFilled
    /\ ShownIsRegistered
    /\ ShownEnds
    /\ CreatedEnds

-----------------------------------------------------------------------------
(* Sequences of messages.                                                  *)

LEMMA Appended ==
    ASSUME NEW s \in Seq(ClientMessage), NEW t \in Seq(ClientMessage)
    PROVE  /\ s \o t \in Seq(ClientMessage)
           /\ Len(s) \in Nat /\ Len(t) \in Nat
           /\ Len(s \o t) = Len(s) + Len(t)
           /\ \A i \in 1..Len(s) : i \in 1..Len(s \o t) /\ (s \o t)[i] = s[i]
           /\ \A i \in 1..Len(t) : Len(s) + i \in 1..Len(s \o t) /\ (s \o t)[Len(s) + i] = t[i]
           /\ \A i \in 1..Len(s \o t) : i \in 1..Len(s)
                 \/ (i - Len(s) \in 1..Len(t) /\ i = Len(s) + (i - Len(s)) /\ (s \o t)[i] = t[i - Len(s)])
<1>1. /\ s \o t \in Seq(ClientMessage)
      /\ Len(s \o t) = Len(s) + Len(t)
      /\ \A i \in 1 .. Len(s) + Len(t) : (s \o t)[i] =
                     IF i <= Len(s) THEN s[i] ELSE t[i - Len(s)]
  BY ConcatProperties
<1>2. Len(s) \in Nat /\ Len(t) \in Nat
  OBVIOUS
<1>3. \A i \in 1..Len(t) : /\ Len(s) + i \in 1 .. Len(s) + Len(t)
                           /\ ~(Len(s) + i <= Len(s))
                           /\ (Len(s) + i) - Len(s) = i
  BY <1>2
<1>4. \A i \in 1 .. Len(s) + Len(t) : i \in 1..Len(s) \/
          (i - Len(s) \in 1..Len(t) /\ i = Len(s) + (i - Len(s)) /\ ~(i <= Len(s)))
  BY <1>2
<1>5. \A i \in 1..Len(s) : i \in 1 .. Len(s) + Len(t) /\ i <= Len(s)
  BY <1>2
<1> QED
  BY <1>1, <1>2, <1>3, <1>4, <1>5

LEMMA AppendedTells ==
    ASSUME NEW s \in Seq(ClientMessage), NEW t \in Seq(ClientMessage), NEW b
    PROVE  /\ Undecided(s) /\ Undecided(t) => Undecided(s \o t)
           /\ Tells(s, b) /\ Undecided(t) => Tells(s \o t, b)
           /\ Tells(t, b) => Tells(s \o t, b)
<1> DEFINE q == s \o t
<1>1. /\ Len(s) \in Nat /\ Len(t) \in Nat
      /\ Len(q) = Len(s) + Len(t)
      /\ \A i \in 1..Len(s) : i \in 1..Len(q) /\ q[i] = s[i]
      /\ \A i \in 1..Len(t) : Len(s) + i \in 1..Len(q) /\ q[Len(s) + i] = t[i]
      /\ \A i \in 1..Len(q) : i \in 1..Len(s)
            \/ (i - Len(s) \in 1..Len(t) /\ i = Len(s) + (i - Len(s)) /\ q[i] = t[i - Len(s)])
  BY Appended
<1> HIDE DEF q
<1>2. ASSUME Undecided(s), Undecided(t) PROVE Undecided(q)
  BY <1>1, <1>2 DEF Undecided
<1>3. ASSUME Tells(s, b), Undecided(t) PROVE Tells(q, b)
  <2>1. PICK i \in 1..Len(s) : /\ Decides(s[i]) /\ (Says(s[i]) <=> b)
                               /\ \A j \in (i+1)..Len(s) : ~Decides(s[j])
    BY <1>3 DEF Tells
  <2>2. i \in 1..Len(q) /\ q[i] = s[i]
    BY <1>1
  <2>3. ASSUME NEW j \in (i+1)..Len(q) PROVE ~Decides(q[j])
    <3>1. j \in 1..Len(q)
      BY <1>1, <2>1
    <3>2. CASE j \in 1..Len(s)
      <4>1. j \in (i+1)..Len(s)
        BY <1>1, <3>2
      <4> QED
        BY <1>1, <2>1, <3>2, <4>1
    <3>3. CASE j - Len(s) \in 1..Len(t) /\ q[j] = t[j - Len(s)]
      BY <1>3, <3>3 DEF Undecided
    <3> QED
      BY <1>1, <3>1, <3>2, <3>3
  <2> QED
    BY <2>1, <2>2, <2>3 DEF Tells
<1>4. ASSUME Tells(t, b) PROVE Tells(q, b)
  <2>1. PICK i \in 1..Len(t) : /\ Decides(t[i]) /\ (Says(t[i]) <=> b)
                               /\ \A j \in (i+1)..Len(t) : ~Decides(t[j])
    BY <1>4 DEF Tells
  <2>2. Len(s) + i \in 1..Len(q) /\ q[Len(s) + i] = t[i]
    BY <1>1
  <2>3. ASSUME NEW j \in ((Len(s) + i)+1)..Len(q) PROVE ~Decides(q[j])
    <3>1. j \in 1..Len(q) /\ j \notin 1..Len(s)
      BY <1>1, <2>1
    <3>2. q[j] = t[j - Len(s)] /\ j - Len(s) \in 1..Len(t)
      BY <1>1, <3>1
    <3>3. j - Len(s) \in (i+1)..Len(t)
      BY <1>1, <3>2
    <3> QED
      BY <2>1, <3>2, <3>3
  <2> QED
    BY <2>1, <2>2, <2>3 DEF Tells
<1> QED
  BY <1>2, <1>3, <1>4 DEF q

LEMMA OneMessage ==
    ASSUME NEW m \in ClientMessage
    PROVE  /\ <<m>> \in Seq(ClientMessage)
           /\ Len(<<m>>) = 1 /\ <<m>>[1] = m
           /\ Decides(m) => Tells(<<m>>, Says(m))
           /\ ~Decides(m) => Undecided(<<m>>)
<1>1. <<m>> \in Seq(ClientMessage) /\ Len(<<m>>) = 1 /\ <<m>>[1] = m
  OBVIOUS
<1>2. 1..1 = {1} /\ (1+1)..1 = {}
  OBVIOUS
<1> QED
  BY <1>1, <1>2 DEF Tells, Undecided

LEMMA NothingDecides == Undecided(<<>>) /\ <<>> \in Seq(ClientMessage)
  BY DEF Undecided

\* An announcement decides.
LEMMA AnnouncementDecides ==
    ASSUME NEW ms
    PROVE  Undecided(ms) => ~Announces(ms)
BY DEF Undecided, Announces, Decides
-----------------------------------------------------------------------------
(* The daemon's steps and what they tell.                                  *)

\* What a handler that sends ms lets the client know.
StepInforms(ms) ==
    /\ \/ Tells(ms, active' # "shell")
       \/ Undecided(ms) /\ ((active' # "shell" <=> active # "shell") \/ ~Told)
    /\ \A i \in 1..Len(ms) :
          ms[i].type = "session.created" => sessions'[ms[i].id] # "none"
    /\ \A c \in Ids : sessions[c] # "none" /\ sessions'[c] = "none" =>
          \/ ~Told
          \/ active = "shell"
          \/ \E j \in 1..Len(ms) : IsEnd(ms[j], c)

\* While the shell has the role, each prompt is about to go.
LEMMA ShellSilences ==
    ASSUME IInv, RoleIsUnderWay, conn = "open", Told, active = "shell"
    PROVE  /\ visible => \E j \in 1..Len(toClient) : \A c : IsEnd(toClient[j], c)
           /\ \A i \in 1..Len(toClient) : ~Decides(toClient[i]) /\ Heard(i) =>
                 \E j \in (i+1)..Len(toClient) : \A c : IsEnd(toClient[j], c)
<1>0. Len(toClient) \in Nat
  BY DEF IInv, MessagesTyped
<1>1. CASE Tells(toClient, FALSE)
  <2>1. PICK l \in 1..Len(toClient) : /\ Decides(toClient[l]) /\ ~Says(toClient[l])
                                      /\ \A j \in (l+1)..Len(toClient) : ~Decides(toClient[j])
    BY <1>1 DEF Tells
  <2>2. \A c : IsEnd(toClient[l], c)
    BY <2>1 DEF IsEnd
  <2>3. ASSUME NEW i \in 1..Len(toClient), ~Decides(toClient[i]), Heard(i)
        PROVE  l \in (i+1)..Len(toClient)
    <3> SUFFICES ASSUME l < i PROVE FALSE
      BY <1>0, <2>1, <2>3
    <3>1. l \in 1..(i-1)
      OBVIOUS
    <3>2. PICK j \in 1..(i-1) : /\ Decides(toClient[j]) /\ Says(toClient[j])
                                /\ \A k \in (j+1)..(i-1) : ~Decides(toClient[k])
      BY <2>1, <2>3, <3>1 DEF Heard
    <3>3. ~(l > j)
      BY <2>1, <3>1, <3>2
    <3>4. ~(j > l)
      BY <1>0, <2>1, <3>2
    <3> QED
      BY <2>1, <3>2, <3>3, <3>4
  <2> QED
    BY <2>2, <2>3
<1>2. CASE Undecided(toClient) /\ ~providerActive
  <2>1. ~visible
    BY <1>2 DEF IInv, ShownWhileActive
  <2>2. ASSUME NEW i \in 1..Len(toClient), Heard(i) PROVE FALSE
    <3>1. \A j \in 1..(i-1) : j \in 1..Len(toClient)
      BY <1>0
    <3> QED
      BY <1>2, <2>2, <3>1 DEF Heard, Undecided
  <2> QED
    BY <2>1, <2>2
<1> QED
  BY <1>1, <1>2 DEF RoleIsUnderWay

\* A client that was not told of its registration has nothing to show.
LEMMA UntoldShowsNothing ==
    ASSUME IInv, ShownIsRegistered, ~Told
    PROVE  ~visible /\ \A i \in 1..Len(toClient) : toClient[i].type # "session.created"
<1>1. \A i \in 1..Len(toClient) : \A j \in 1..(i-1) : j \in 1..Len(toClient)
  BY DEF IInv, MessagesTyped
<1> QED
  BY <1>1 DEF IInv, ShownIsRegistered, EventsFollowReply, Told, Announces, SessionEvents

LEMMA Informing ==
    ASSUME IInv, RInv, UNCHANGED <<clientVars, windowVars, conn>>,
           RoleIsFilled', NEW ms \in Seq(ClientMessage), daemonSends(ms),
           conn = "open" => /\ StepInforms(ms)
                            /\ Told \/ Announces(ms) =>
                                  subscriber' \/ "fallback" \in DOMAIN providers'
    PROVE  RInv'
<1>1. UNCHANGED <<registered, providerActive, visible, shown, failed, clears, conn>>
  BY DEF clientVars, windowVars
<1>2. ShownIsRegistered'
  BY <1>1 DEF RInv, ShownIsRegistered
<1>3. CASE conn # "open"
  BY <1>1, <1>2, <1>3 DEF RInv, RoleIsUnderWay, ToldIsListed, ShownEnds, CreatedEnds
<1>4. CASE conn = "open"
  <2> DEFINE s == toClient
  <2>0. s \in Seq(ClientMessage) /\ toClient' = s \o ms
    BY <1>4 DEF daemonSends, IInv, MessagesTyped
  <2>1. /\ Len(s) \in Nat /\ Len(ms) \in Nat
        /\ Len(toClient') = Len(s) + Len(ms)
        /\ \A i \in 1..Len(s) : i \in 1..Len(toClient') /\ toClient'[i] = s[i]
        /\ \A i \in 1..Len(ms) : /\ Len(s) + i \in 1..Len(toClient')
                                 /\ toClient'[Len(s) + i] = ms[i]
        /\ \A i \in 1..Len(toClient') : i \in 1..Len(s)
              \/ (/\ i - Len(s) \in 1..Len(ms) /\ i = Len(s) + (i - Len(s))
                  /\ toClient'[i] = ms[i - Len(s)])
    BY <2>0, Appended
  <2>2. StepInforms(ms)
    BY <1>4
  <2> HIDE DEF s
  <2>3. Told' => Told \/ Announces(ms)
    BY <1>1, <2>1 DEF Told, Announces, s
  <2>4. ToldIsListed'
    BY <1>1, <1>4, <2>3 DEF ToldIsListed
  <2>5. RoleIsUnderWay'
    <3> SUFFICES ASSUME Told'
                 PROVE  \/ Tells(toClient', active' # "shell")
                        \/ /\ Undecided(toClient')
                           /\ providerActive <=> active' # "shell"
      BY <1>1 DEF RoleIsUnderWay, Tells, Undecided
    <3>1. CASE Tells(ms, active' # "shell")
      BY <2>0, <3>1, AppendedTells
    <3>2. CASE Undecided(ms) /\ Told /\ (active' # "shell" <=> active # "shell")
      <4>1. CASE Tells(s, active # "shell")
        <5>1. Tells(s, active' # "shell")
          BY <3>2, <4>1 DEF Tells
        <5> QED
          BY <2>0, <3>2, <5>1, AppendedTells
      <4>2. CASE Undecided(s) /\ (providerActive <=> active # "shell")
        BY <2>0, <3>2, <4>2, AppendedTells
      <4> QED
        BY <1>4, <3>2, <4>1, <4>2 DEF RInv, RoleIsUnderWay, s
    <3> QED
      BY <2>2, <2>3, <3>1, <3>2, AnnouncementDecides DEF StepInforms
  <2>6. ASSUME NEW c \in Ids, sessions[c] # "none", sessions'[c] = "none"
        PROVE  \/ /\ ~visible
                  /\ \A i \in 1..Len(s) : s[i].type # "session.created"
               \/ /\ visible => \E j \in 1..Len(s) : IsEnd(s[j], c)
                  /\ \A i \in 1..Len(s) : s[i].type = "session.created" /\ Heard(i) =>
                        \E j \in (i+1)..Len(s) : IsEnd(s[j], c)
               \/ \E j \in 1..Len(ms) : IsEnd(ms[j], c)
    <3>1. CASE ~Told
      BY <3>1, UntoldShowsNothing DEF RInv, s
    <3>2. CASE Told /\ active = "shell"
      <4>1. \A i \in 1..Len(s) : s[i].type = "session.created" => ~Decides(s[i])
        BY DEF Decides
      <4> QED
        BY <1>4, <3>2, <4>1, ShellSilences DEF RInv, s
    <3> QED
      BY <2>2, <2>6, <3>1, <3>2 DEF StepInforms
  <2>7. ASSUME NEW c, \E j \in 1..Len(ms) : IsEnd(ms[j], c), NEW i \in 0..Len(s)
        PROVE  \E j \in (i+1)..Len(toClient') : IsEnd(toClient'[j], c)
    <3>1. PICK j \in 1..Len(ms) : IsEnd(ms[j], c)
      BY <2>7
    <3>2. Len(s) + j \in (i+1)..Len(toClient')
      BY <2>1
    <3> QED
      BY <2>1, <3>1, <3>2
  <2>8. ASSUME NEW c, NEW i \in 0..Len(s), \E j \in (i+1)..Len(s) : IsEnd(s[j], c)
        PROVE  \E j \in (i+1)..Len(toClient') : IsEnd(toClient'[j], c)
    <3>1. PICK j \in (i+1)..Len(s) : IsEnd(s[j], c)
      BY <2>8
    <3>2. j \in 1..Len(s) /\ j \in (i+1)..Len(toClient')
      BY <2>1, <3>1
    <3> QED
      BY <2>1, <3>1, <3>2
  <2>9. ShownEnds'
    <3> SUFFICES ASSUME visible, sessions'[shown] = "none", ~failed, ~(clears > 0)
                 PROVE  \E j \in 1..Len(toClient') : IsEnd(toClient'[j], shown)
      BY <1>1 DEF ShownEnds
    <3>1. shown \in Ids
      BY DEF IInv, ShownWhileActive, TypeOK, WindowTypeOK
    <3>2. 0 \in 0..Len(s) /\ 0 + 1 = 1
      BY <2>1
    <3>3. CASE sessions[shown] # "none"
      BY <2>6, <2>7, <2>8, <3>1, <3>2, <3>3
    <3>4. CASE \E j \in 1..Len(s) : IsEnd(s[j], shown)
      BY <2>8, <3>2, <3>4
    <3> QED
      BY <1>4, <3>3, <3>4 DEF RInv, ShownEnds, s
  <2>10. ASSUME NEW i \in 1..Len(s)
         PROVE  Heard(i)' => Heard(i)
    <3>1. \A l \in 1..(i-1) : l \in 1..Len(s)
      BY <2>1
    <3> QED
      BY <1>1, <2>1, <3>1 DEF Heard, s
  <2>11. CreatedEnds'
    <3> SUFFICES ASSUME NEW i \in 1..Len(toClient'), NEW c, c = toClient'[i].id,
                        toClient'[i].type = "session.created", Heard(i)',
                        sessions'[c] = "none"
                 PROVE  \E j \in (i+1)..Len(toClient') : IsEnd(toClient'[j], c)
      BY <1>1 DEF CreatedEnds
    <3>1. CASE i \in 1..Len(s)
      <4>1. s[i].type = "session.created" /\ c = s[i].id /\ Heard(i) /\ i \in 0..Len(s)
        BY <2>1, <2>10, <3>1
      <4>2. c \in Ids
        <5>1. s[i] \in ClientMessage
          BY <2>0, <3>1
        <5> QED
          BY <4>1, <5>1 DEF ClientMessage
      <4>3. CASE sessions[c] # "none"
        BY <2>6, <2>7, <2>8, <4>1, <4>2, <4>3, <3>1
      <4>4. CASE \E j \in (i+1)..Len(s) : IsEnd(s[j], c)
        BY <2>8, <4>1, <4>4
      <4> QED
        BY <1>4, <3>1, <4>1, <4>3, <4>4 DEF RInv, CreatedEnds, s
    <3>2. CASE i - Len(s) \in 1..Len(ms) /\ toClient'[i] = ms[i - Len(s)]
      BY <2>2, <3>2 DEF StepInforms
    <3> QED
      BY <2>1, <3>1, <3>2
  <2> QED
    BY <1>2, <2>4, <2>5, <2>9, <2>11 DEF RInv
<1> QED
  BY <1>3, <1>4

LEMMA AppendedEnds ==
    ASSUME NEW s \in Seq(ClientMessage), NEW t \in Seq(ClientMessage)
    PROVE  /\ Plain(s) /\ Plain(t) => Plain(s \o t)
           /\ \A c : Ends(s, c) \/ Ends(t, c) => Ends(s \o t, c)
<1> DEFINE q == s \o t
<1>1. /\ \A i \in 1..Len(s) : i \in 1..Len(q) /\ q[i] = s[i]
      /\ \A i \in 1..Len(t) : Len(s) + i \in 1..Len(q) /\ q[Len(s) + i] = t[i]
      /\ \A i \in 1..Len(q) : i \in 1..Len(s)
            \/ (i - Len(s) \in 1..Len(t) /\ q[i] = t[i - Len(s)])
  BY Appended
<1> HIDE DEF q
<1>2. Plain(s) /\ Plain(t) => Plain(q)
  BY <1>1 DEF Plain
<1>3. ASSUME NEW c, Ends(s, c) PROVE Ends(q, c)
  BY <1>1, <1>3 DEF Ends
<1>4. ASSUME NEW c, Ends(t, c) PROVE Ends(q, c)
  BY <1>1, <1>4 DEF Ends
<1> QED
  BY <1>2, <1>3, <1>4 DEF q

\* Who is heard stays, and a role that can be filled is.
LEMMA Recomputed ==
    ASSUME NEW ps, NEW kept, DOMAIN ps \subseteq UIs, recomputeActiveProvider(ps, kept)
    PROVE  /\ RoleIsFilled'
           /\ active' \in UIs \cup {"none"}
           /\ active' = "none" => DOMAIN providers' = {}
           /\ "fallback" \in DOMAIN ps =>
                 \/ "fallback" \in DOMAIN providers'
                 \/ "fallback" \notin kept /\ (subscriber \/ conn = "closing")
<1>1. PICK gone \in SUBSET {u \in DOMAIN ps \ kept : maySilent(u)} :
         LET left == DOMAIN ps \ gone
         IN  /\ providers' = [u \in left |-> ps[u]]
             /\ IF left = {}
                THEN active' = "none"
                ELSE active' \in {u \in left : \A v \in left : ps[v] <= ps[u]}
  BY DEF recomputeActiveProvider
<1>2. DOMAIN providers' = DOMAIN ps \ gone
  BY <1>1
<1> QED
  BY <1>1, <1>2 DEF RoleIsFilled, UIs, maySilent

LEMMA ListedStays ==
    ASSUME RInv, conn = "open", UNCHANGED subscriber, Told,
           NEW ps, NEW kept, DOMAIN ps \subseteq UIs, recomputeActiveProvider(ps, kept),
           "fallback" \in DOMAIN providers => "fallback" \in DOMAIN ps
    PROVE  Listed'
BY Recomputed DEF RInv, ToldIsListed, Listed

LEMMA StatusTells ==
    ASSUME active' \in UIs \cup {"none"}
    PROVE  /\ emitProviderStatus \in Seq(ClientMessage)
           /\ Plain(emitProviderStatus)
           /\ \/ Tells(emitProviderStatus, active' # "shell")
              \/ Undecided(emitProviderStatus) /\ ~Listed'
           /\ Listed' /\ active' = "shell" => \A c : Ends(emitProviderStatus, c)
<1> DEFINE m == [type |-> "ui.active", who |-> active']
<1>1. m \in ClientMessage
  BY DEF ClientMessage
<1>2. Decides(m) /\ (Says(m) <=> active' # "shell")
      /\ m.type \notin {"session.created", "ui.registered"}
  BY DEF Decides, Says
<1>3. emitProviderStatus = IF Listed' THEN <<m>> ELSE <<>>
  BY DEF emitProviderStatus, Listed
<1> HIDE DEF m
<1>4. <<m>> \in Seq(ClientMessage) /\ Len(<<m>>) = 1 /\ <<m>>[1] = m /\ 1..1 = {1}
  BY <1>1, OneMessage
<1>5. Tells(<<m>>, active' # "shell")
  BY <1>1, <1>2, OneMessage DEF Tells
<1>6. active' = "shell" => \A c : Ends(<<m>>, c)
  BY <1>2, <1>4 DEF Ends, IsEnd
<1>7. Plain(<<m>>) /\ Plain(<<>>)
  BY <1>2, <1>4 DEF Plain
<1> QED
  BY <1>3, <1>4, <1>5, <1>6, <1>7, NothingDecides

LEMMA ChangeTells ==
    ASSUME active' \in UIs \cup {"none"}
    PROVE  /\ statusIfChanged \in Seq(ClientMessage)
           /\ Plain(statusIfChanged)
           /\ \/ Tells(statusIfChanged, active' # "shell")
              \/ Undecided(statusIfChanged) /\ (active' = active \/ ~Listed')
           /\ Listed' /\ active' = "shell" /\ active # "shell" =>
                 \A c : Ends(statusIfChanged, c)
<1>1. Plain(<<>>)
  BY DEF Plain
<1> QED
  BY <1>1, StatusTells, NothingDecides DEF statusIfChanged

LEMMA RoutedTells ==
    ASSUME NEW event \in ClientMessage, ~Decides(event), NEW a \in UIs \cup {"none"}
    PROVE  /\ routed(event, a) \in Seq(ClientMessage)
           /\ Undecided(routed(event, a))
           /\ event.type \notin {"session.created", "ui.registered"} => Plain(routed(event, a))
           /\ \/ routed(event, a) = <<event>>
              \/ a = "shell"
              \/ a = "none" /\ ~subscriber
<1>1. <<event>> \in Seq(ClientMessage) /\ Undecided(<<event>>)
      /\ Len(<<event>>) = 1 /\ <<event>>[1] = event /\ 1..1 = {1}
  BY OneMessage
<1>2. event.type \notin {"session.created", "ui.registered"} => Plain(<<event>>)
  BY <1>1 DEF Plain
<1>3. Plain(<<>>)
  BY DEF Plain
<1>4. routed(event, a) \in {<<event>>, <<>>}
  BY DEF routed
<1> QED
  BY <1>1, <1>2, <1>3, <1>4, NothingDecides DEF routed, UIs

\* The role moves, and the status says so.
LEMMA MovingInforms ==
    ASSUME IInv, RInv,
           UNCHANGED <<clientVars, windowVars, conn, subscriber, sessions>>,
           NEW ps, NEW kept, DOMAIN ps \subseteq UIs, recomputeActiveProvider(ps, kept),
           "fallback" \in DOMAIN providers => "fallback" \in DOMAIN ps,
           \/ daemonSends(statusIfChanged)
           \/ daemonSends(emitProviderStatus)
           \/ daemonSends(<<>>) /\ active' = active
    PROVE  RInv'
<1>1. RoleIsFilled' /\ active' \in UIs \cup {"none"}
  BY Recomputed
<1>2. conn = "open" /\ Told => Listed'
  BY ListedStays
<1>3. Plain(<<>>)
  BY DEF Plain
<1>4. PICK ms \in Seq(ClientMessage) :
         /\ daemonSends(ms) /\ Plain(ms)
         /\ \/ Tells(ms, active' # "shell")
            \/ Undecided(ms) /\ (active' = active \/ ~Listed')
  BY <1>1, <1>3, StatusTells, ChangeTells, NothingDecides
<1>5. ASSUME conn = "open"
      PROVE  StepInforms(ms) /\ (Told \/ Announces(ms) => Listed')
  <2>1. ~Announces(ms)
    BY <1>4 DEF Announces, Plain
  <2> QED
    BY <1>2, <1>4, <1>5, <2>1 DEF StepInforms, Plain
<1> QED
  BY <1>1, <1>4, <1>5, Informing DEF Listed

LEMMA ShellInforms ==
    ASSUME IInv, RInv, UNCHANGED <<clientVars, windowVars>>,
           \/ \E rank \in Ranks : ShellRegisters(rank)
           \/ ShellLeaves
           \/ pruneStaleProviders
    PROVE  RInv'
<1>1. UNCHANGED <<clientVars, windowVars, conn, subscriber, sessions>>
  BY DEF ShellRegisters, ShellLeaves, pruneStaleProviders
<1>2. DOMAIN providers \subseteq UIs
  BY DEF IInv, TypeOK, AgentTypeOK
<1>3. ASSUME NEW rank \in Ranks, ShellRegisters(rank)
      PROVE  RInv'
  <2> DEFINE ps == Registered("shell", rank)
  <2>1. DOMAIN ps = DOMAIN providers \cup {"shell"}
    BY DEF Registered
  <2>2. recomputeActiveProvider(ps, {"shell"})
    BY <1>3 DEF ShellRegisters
  <2>3. daemonSends(emitProviderStatus) \/ (daemonSends(<<>>) /\ active' = active)
    BY <1>3 DEF ShellRegisters
  <2> HIDE DEF ps
  <2>4. DOMAIN ps \subseteq UIs
    BY <1>2, <2>1 DEF UIs
  <2> QED
    BY <1>1, <2>1, <2>2, <2>3, <2>4, MovingInforms
<1>4. ASSUME ShellLeaves
      PROVE  RInv'
  <2> DEFINE ps == Unregistered("shell")
  <2>1. DOMAIN ps = DOMAIN providers \ {"shell"}
    BY DEF Unregistered
  <2>2. recomputeActiveProvider(ps, {}) /\ daemonSends(statusIfChanged)
    BY <1>4 DEF ShellLeaves
  <2> HIDE DEF ps
  <2> QED
    BY <1>1, <1>2, <2>1, <2>2, MovingInforms
<1>5. ASSUME pruneStaleProviders
      PROVE  RInv'
  <2>1. recomputeActiveProvider(providers, {}) /\ daemonSends(statusIfChanged)
    BY <1>5 DEF pruneStaleProviders
  <2> QED
    BY <1>1, <1>2, <2>1, MovingInforms
<1> QED
  BY <1>3, <1>4, <1>5

\* The reply to a registration is followed by the status it does not have.
LEMMA RegisterInforms ==
    ASSUME IInv, RInv, UNCHANGED <<clientVars, windowVars, conn>>, handleUIRegister
    PROVE  RInv'
<1> DEFINE ps == Registered("fallback", FallbackRank)
           reply == [type |-> "ui.registered", active |-> active' = "fallback"]
           status == IF active' # active \/ active' = "fallback"
                     THEN emitProviderStatus ELSE <<>>
           ms == <<reply>> \o status
<1>1. DOMAIN ps = DOMAIN providers \cup {"fallback"}
  BY DEF Registered
<1>2. DOMAIN ps \subseteq UIs
  BY <1>1 DEF UIs, IInv, TypeOK, AgentTypeOK
<1>3. recomputeActiveProvider(ps, {"fallback"}) /\ daemonSends(ms) /\ UNCHANGED sessions
  BY DEF handleUIRegister
<1> HIDE DEF ps
<1>4. /\ RoleIsFilled' /\ active' \in UIs \cup {"none"}
      /\ "fallback" \in DOMAIN providers' /\ active' # "none"
  BY <1>1, <1>2, <1>3, Recomputed
<1>5. reply \in ClientMessage /\ Decides(reply) /\ (Says(reply) <=> active' # "shell")
      /\ reply.type # "session.created"
  <2>1. (active' = "fallback") \in BOOLEAN
    OBVIOUS
  <2>2. active' = "fallback" <=> active' # "shell"
    BY <1>4 DEF UIs
  <2> QED
    BY <2>1, <2>2 DEF ClientMessage, Decides, Says
<1>6. /\ status \in Seq(ClientMessage)
      /\ \A i \in 1..Len(status) : status[i].type # "session.created"
      /\ Tells(status, active' # "shell") \/ Undecided(status)
  <2>1. \A i \in 1..Len(<<>>) : FALSE
    OBVIOUS
  <2> QED
    BY <1>4, <2>1, StatusTells, NothingDecides DEF Plain
<1> HIDE DEF reply, status
<1>7. /\ <<reply>> \in Seq(ClientMessage) /\ Tells(<<reply>>, active' # "shell")
      /\ Len(<<reply>>) = 1 /\ <<reply>>[1] = reply /\ 1..1 = {1}
  BY <1>5, OneMessage DEF Tells
<1>8. ms \in Seq(ClientMessage) /\ Tells(ms, active' # "shell")
  BY <1>6, <1>7, Appended, AppendedTells
<1>9. \A i \in 1..Len(ms) : ms[i].type # "session.created"
  <2>1. \A i \in 1..Len(ms) : i \in 1..Len(<<reply>>)
           \/ (i - Len(<<reply>>) \in 1..Len(status) /\ ms[i] = status[i - Len(<<reply>>)])
    BY <1>6, <1>7, Appended
  <2>2. \A i \in 1..Len(<<reply>>) : ms[i] = <<reply>>[i]
    BY <1>6, <1>7, Appended
  <2> HIDE DEF ms
  <2> QED
    BY <1>5, <1>6, <1>7, <2>1, <2>2
<1> HIDE DEF ms
<1>10. StepInforms(ms)
  BY <1>3, <1>8, <1>9 DEF StepInforms
<1> QED
  BY <1>3, <1>4, <1>8, <1>10, Informing

\* A subscriber is replayed the sessions that are open.
LEMMA SubscribeInforms ==
    ASSUME IInv, RInv, UNCHANGED <<clientVars, windowVars, conn>>, handleSubscribe
    PROVE  RInv'
<1> DEFINE isRegistered == "fallback" \in DOMAIN providers
           isActive == isRegistered /\ active = "fallback"
           replayed == IF ~isRegistered \/ isActive THEN open ELSE {}
           reply == [type |-> "subscribed", registered |-> isRegistered,
                     active |-> isActive]
<1>1. PICK order \in Orders(replayed) :
         daemonSends([i \in DOMAIN order |->
                         [type |-> "session.created", id |-> order[i]]] \o <<reply>>)
  BY DEF handleSubscribe
<1>2. replayed \in SUBSET Ids /\ \A c \in replayed : sessions[c] # "none"
  BY DEF open
<1>3. reply \in ClientMessage
  <2>1. isRegistered \in BOOLEAN /\ isActive \in BOOLEAN
    OBVIOUS
  <2> HIDE DEF isRegistered, isActive
  <2> QED
    BY <2>1 DEF ClientMessage
<1>4. UNCHANGED <<sessions, providers, active>> /\ subscriber' = TRUE
  BY DEF handleSubscribe
<1>5. /\ Decides(reply) <=> isRegistered
      /\ isRegistered => (Says(reply) <=> active # "shell")
      /\ reply.type = "subscribed"
  BY DEF Decides, Says, IInv, RoleIsHeld, RInv, RoleIsFilled, TypeOK, AgentTypeOK, UIs
<1> HIDE DEF reply
<1> DEFINE created == [i \in DOMAIN order |->
                          [type |-> "session.created", id |-> order[i]]]
           ms == created \o <<reply>>
<1>6. created \in Seq(ClientMessage)
  BY <1>2, ReplayIsTyped
<1>7. /\ Undecided(created)
      /\ \A i \in 1..Len(created) : sessions[created[i].id] # "none"
  <2>1. PICK n \in Nat : n = Cardinality(replayed)
    BY <1>2, IdsAssumption, FS_Subset, FS_CardinalityType
  <2>2. order \in [1..n -> replayed]
    BY <2>1 DEF Orders
  <2>3. Len(created) = n /\ \A i \in 1..n : created[i] = [type |-> "session.created", id |-> order[i]]
    BY <2>1, <2>2, <1>6
  <2> HIDE DEF created, replayed
  <2> QED
    BY <1>2, <2>2, <2>3 DEF Undecided, Decides
<1>8. daemonSends(ms)
  BY <1>1
<1> HIDE DEF created, replayed, isActive, isRegistered
<1>9. /\ <<reply>> \in Seq(ClientMessage)
      /\ Len(<<reply>>) = 1 /\ <<reply>>[1] = reply /\ 1..1 = {1}
      /\ Decides(reply) => Tells(<<reply>>, Says(reply))
      /\ ~Decides(reply) => Undecided(<<reply>>)
  BY <1>3, OneMessage
<1>10. ms \in Seq(ClientMessage)
  BY <1>6, <1>9, Appended
<1>11. ASSUME isRegistered PROVE Tells(ms, active' # "shell")
  <2>1. Tells(<<reply>>, active' # "shell")
    BY <1>4, <1>5, <1>9, <1>11 DEF Tells
  <2> QED
    BY <1>6, <1>9, <2>1, AppendedTells
<1>12. ASSUME ~isRegistered PROVE Undecided(ms)
  BY <1>5, <1>6, <1>7, <1>9, <1>12, AppendedTells
<1>13. ASSUME NEW i \in 1..Len(ms), ms[i].type = "session.created"
       PROVE  sessions'[ms[i].id] # "none"
  <2>1. i \in 1..Len(created) \/
           (i - Len(created) \in 1..Len(<<reply>>) /\ ms[i] = <<reply>>[i - Len(created)])
    BY <1>6, <1>9, Appended
  <2>2. \A k \in 1..Len(created) : ms[k] = created[k]
    BY <1>6, <1>9, Appended
  <2> HIDE DEF ms
  <2> QED
    BY <1>4, <1>5, <1>7, <1>9, <1>13, <2>1, <2>2
<1> HIDE DEF ms
<1>14. StepInforms(ms)
  BY <1>4, <1>11, <1>12, <1>13 DEF StepInforms
<1>15. RoleIsFilled'
  BY <1>4 DEF RInv, RoleIsFilled
<1> QED
  BY <1>4, <1>8, <1>10, <1>14, <1>15, Informing

LEMMA SessionInforms ==
    ASSUME IInv, RInv, UNCHANGED <<clientVars, windowVars>>,
           NEW c \in Ids, createSession(c) \/ sessionUpdate(c)
    PROVE  RInv'
<1>1. PICK kind \in {"session.created", "session.updated"} :
         daemonSends(routed([type |-> kind, id |-> c], active))
  BY DEF createSession, sessionUpdate
<1> DEFINE event == [type |-> kind, id |-> c]
           ms == routed(event, active)
<1>2. event \in ClientMessage /\ ~Decides(event)
  BY DEF ClientMessage, Decides
<1>3. UNCHANGED <<providers, active, subscriber, conn>>
  BY DEF createSession, sessionUpdate
<1>4. active \in UIs \cup {"none"} /\ sessions \in [Ids -> {"none", "waiting", "verifying"}]
  BY DEF IInv, TypeOK, AgentTypeOK
<1>5. sessions' = [sessions EXCEPT ![c] = "waiting"]
  BY DEF createSession, sessionUpdate
<1>6. \A i \in 1..Len(ms) : sessions'[ms[i].id] # "none"
  <2>1. ms = <<event>> \/ ms = <<>>
    BY DEF routed
  <2>2. Len(<<event>>) = 1 /\ <<event>>[1].id = c /\ 1..1 = {1}
    OBVIOUS
  <2> HIDE DEF ms, event
  <2> QED
    BY <1>4, <1>5, <2>1, <2>2
<1>7. daemonSends(ms)
  BY <1>1
<1> HIDE DEF event
<1>8. ms \in Seq(ClientMessage) /\ Undecided(ms)
  BY <1>2, <1>4, RoutedTells
<1> HIDE DEF ms
<1>9. \A k \in Ids : sessions[k] # "none" => sessions'[k] # "none"
  BY <1>4, <1>5
<1>10. StepInforms(ms) /\ ~Announces(ms)
  BY <1>3, <1>6, <1>8, <1>9, AnnouncementDecides DEF StepInforms
<1>11. RoleIsFilled' /\ (conn = "open" /\ Told => subscriber' \/ "fallback" \in DOMAIN providers')
  BY <1>3 DEF RInv, RoleIsFilled, ToldIsListed
<1> QED
  BY <1>3, <1>7, <1>8, <1>10, <1>11, Informing

\* The end of a session reaches a client that may show it, or else the news that
\* the shell has the role does.
LEMMA ClosingInforms ==
    ASSUME IInv, RInv, UNCHANGED <<clientVars, windowVars>>,
           NEW c \in Ids, NEW result \in Results, closeSession(c, result)
    PROVE  RInv'
<1> DEFINE closed == [type |-> "session.closed", id |-> c, result |-> result]
<1>1. /\ closed \in ClientMessage /\ ~Decides(closed)
      /\ closed.type \notin {"session.created", "ui.registered"}
  BY DEF ClientMessage, Decides
<1>2. UNCHANGED <<subscriber, conn>> /\ sessions' = [sessions EXCEPT ![c] = "none"]
  BY DEF closeSession
<1>3. sessions \in [Ids -> {"none", "waiting", "verifying"}] /\ DOMAIN providers \subseteq UIs
      /\ active \in UIs \cup {"none"}
  BY DEF IInv, TypeOK, AgentTypeOK
<1>4. IsEnd(closed, c)
  BY DEF IsEnd
<1> HIDE DEF closed
<1>5. Ends(<<closed>>, c)
  <2>1. Len(<<closed>>) = 1 /\ <<closed>>[1] = closed /\ 1..1 = {1}
    OBVIOUS
  <2> QED
    BY <1>4, <2>1 DEF Ends
\* What is sent need not be looked at further.
<1>6. ASSUME RoleIsFilled', conn = "open" /\ Told => Listed',
             NEW ms \in Seq(ClientMessage), daemonSends(ms), Plain(ms),
             \/ Tells(ms, active' # "shell")
             \/ Undecided(ms) /\ (active' = active \/ ~Listed'),
             conn = "open" /\ Told /\ active # "shell" => Ends(ms, c)
      PROVE  RInv'
  <2>1. ~Announces(ms)
    BY <1>6 DEF Announces, Plain
  <2>2. \A k \in Ids : sessions[k] # "none" /\ sessions'[k] = "none" => k = c
    BY <1>2, <1>3
  <2>3. conn = "open" => StepInforms(ms)
    BY <1>6, <2>2 DEF StepInforms, Plain, Ends
  <2> QED
    BY <1>2, <1>6, <2>1, <2>3, Informing DEF Listed
<1>7. conn = "open" /\ Told => Listed
  BY DEF RInv, ToldIsListed, Listed
<1>8. active = "none" /\ ~subscriber => ~Listed
  BY DEF RInv, RoleIsFilled, Listed
<1>9. /\ routed(closed, active) \in Seq(ClientMessage)
      /\ Undecided(routed(closed, active)) /\ Plain(routed(closed, active))
      /\ \/ routed(closed, active) = <<closed>>
         \/ active = "shell"
         \/ active = "none" /\ ~subscriber
  BY <1>1, <1>3, RoutedTells
<1>10. conn = "open" /\ Told /\ active # "shell" => Ends(routed(closed, active), c)
  BY <1>5, <1>7, <1>8, <1>9
<1>11. CASE daemonSends(routed(closed, active)) /\ UNCHANGED <<providers, active>>
  <2>1. RoleIsFilled' /\ (Listed => Listed')
    BY <1>2, <1>11 DEF RInv, RoleIsFilled, Listed
  <2> QED
    BY <1>6, <1>7, <1>9, <1>10, <1>11, <2>1
<1>12. CASE recomputeActiveProvider(providers, {})
            /\ \/ daemonSends(statusIfChanged \o routed(closed, active'))
               \/ daemonSends(routed(closed, active) \o statusIfChanged)
  <2>1. RoleIsFilled' /\ active' \in UIs \cup {"none"} /\ (active' = "none" => DOMAIN providers' = {})
    BY <1>3, <1>12, Recomputed
  <2>2. conn = "open" /\ Told => Listed'
    BY <1>2, <1>3, <1>12, ListedStays
  <2>3. /\ statusIfChanged \in Seq(ClientMessage) /\ Plain(statusIfChanged)
        /\ \/ Tells(statusIfChanged, active' # "shell")
           \/ Undecided(statusIfChanged) /\ (active' = active \/ ~Listed')
        /\ Listed' /\ active' = "shell" /\ active # "shell" => Ends(statusIfChanged, c)
    BY <2>1, ChangeTells
  <2>4. CASE daemonSends(routed(closed, active) \o statusIfChanged)
    <3> DEFINE ms == routed(closed, active) \o statusIfChanged
    <3>1. ms \in Seq(ClientMessage) /\ Plain(ms)
      BY <1>9, <2>3, Appended, AppendedEnds
    <3>2. \/ Tells(ms, active' # "shell")
          \/ Undecided(ms) /\ (active' = active \/ ~Listed')
      BY <1>9, <2>3, AppendedTells
    <3>3. conn = "open" /\ Told /\ active # "shell" => Ends(ms, c)
      BY <1>9, <1>10, <2>3, AppendedEnds
    <3>4. daemonSends(ms)
      BY <2>4
    <3> HIDE DEF ms
    <3> QED
      BY <1>6, <2>1, <2>2, <3>1, <3>2, <3>3, <3>4
  <2>5. CASE daemonSends(statusIfChanged \o routed(closed, active'))
    <3> DEFINE ms == statusIfChanged \o routed(closed, active')
    <3>1. /\ routed(closed, active') \in Seq(ClientMessage)
          /\ Undecided(routed(closed, active')) /\ Plain(routed(closed, active'))
          /\ \/ routed(closed, active') = <<closed>>
             \/ active' = "shell"
             \/ active' = "none" /\ ~subscriber
      BY <1>1, <2>1, RoutedTells
    <3>2. ms \in Seq(ClientMessage) /\ Plain(ms)
      BY <2>3, <3>1, Appended, AppendedEnds
    <3>3. \/ Tells(ms, active' # "shell")
          \/ Undecided(ms) /\ (active' = active \/ ~Listed')
      BY <2>3, <3>1, AppendedTells
    <3>4. active' = "none" /\ ~subscriber => ~Listed'
      BY <1>2, <2>1 DEF Listed
    <3>5. conn = "open" /\ Told /\ active # "shell" => Ends(ms, c)
      BY <1>5, <2>2, <2>3, <3>1, <3>4, AppendedEnds
    <3>6. daemonSends(ms)
      BY <2>5
    <3> HIDE DEF ms
    <3> QED
      BY <1>6, <2>1, <2>2, <3>2, <3>3, <3>5, <3>6
  <2> QED
    BY <1>12, <2>4, <2>5
<1> QED
  BY <1>11, <1>12 DEF closeSession, closed

LEMMA AnswerInforms ==
    ASSUME IInv, RInv, UNCHANGED <<clientVars, windowVars, conn>>,
           NEW c \in Ids, handleRespond(c) \/ handleCancel(c)
    PROVE  RInv'
<1>1. CASE closeSession(c, "cancelled")
  BY <1>1, ClosingInforms DEF Results
<1>2. active \in UIs \cup {"none"} /\ sessions \in [Ids -> {"none", "waiting", "verifying"}]
  BY DEF IInv, TypeOK, AgentTypeOK
<1>3. CASE ~isAuthorizedFallback /\ refuse /\ UNCHANGED <<sessions, providers, active, subscriber>>
  <2> DEFINE m == [type |-> "error"]
  <2>1. m \in ClientMessage /\ Decides(m) /\ ~Says(m) /\ m.type # "session.created"
        /\ m.type # "ui.registered"
    BY DEF ClientMessage, Decides, Says
  <2>2. active = "shell"
    BY <1>2, <1>3 DEF isAuthorizedFallback, IInv, RoleIsHeld, RInv, RoleIsFilled, UIs
  <2>3. daemonSends(<<m>>)
    BY <1>3 DEF refuse
  <2> HIDE DEF m
  <2>4. /\ <<m>> \in Seq(ClientMessage) /\ Len(<<m>>) = 1 /\ <<m>>[1] = m /\ 1..1 = {1}
        /\ Tells(<<m>>, active' # "shell")
    BY <1>3, <2>1, <2>2, OneMessage DEF Tells
  <2>5. StepInforms(<<m>>) /\ ~Announces(<<m>>)
    BY <1>3, <2>1, <2>4 DEF StepInforms, Announces
  <2>6. RoleIsFilled' /\ (conn = "open" /\ Told => subscriber' \/ "fallback" \in DOMAIN providers')
    BY <1>3 DEF RInv, RoleIsFilled, ToldIsListed
  <2> QED
    BY <2>3, <2>4, <2>5, <2>6, Informing
<1>4. CASE /\ UNCHANGED <<providers, active, subscriber, toClient>>
           /\ \A k \in Ids : sessions[k] # "none" => sessions'[k] # "none"
  <2>1. daemonSends(<<>>)
    BY <1>4 DEF daemonSends, IInv, MessagesTyped
  <2>2. StepInforms(<<>>) /\ ~Announces(<<>>)
    BY <1>4, NothingDecides DEF StepInforms, Announces
  <2>3. RoleIsFilled' /\ (conn = "open" /\ Told => subscriber' \/ "fallback" \in DOMAIN providers')
    BY <1>4 DEF RInv, RoleIsFilled, ToldIsListed
  <2> QED
    BY <2>1, <2>2, <2>3, NothingDecides, Informing
<1>5. CASE handleRespond(c)
  <2>1. CASE ~isAuthorizedFallback /\ refuse /\ UNCHANGED sessions
    BY <1>3, <1>5, <2>1 DEF handleRespond
  <2>2. CASE /\ sessions' = [sessions EXCEPT ![c] = IF @ = "none" THEN @ ELSE "verifying"]
             /\ UNCHANGED toClient
    <3>1. \A k \in Ids : sessions[k] # "none" => sessions'[k] # "none"
      BY <1>2, <2>2
    <3> QED
      BY <1>4, <1>5, <2>2, <3>1 DEF handleRespond
  <2> QED
    BY <1>5, <2>1, <2>2 DEF handleRespond
<1>6. CASE handleCancel(c)
  BY <1>1, <1>3, <1>4, <1>6 DEF handleCancel
<1> QED
  BY <1>5, <1>6

LEMMA MessageInforms ==
    ASSUME IInv, RInv, UNCHANGED <<clientVars, windowVars>>, handleMessage
    PROVE  RInv'
<1> DEFINE m == Head(toDaemon)
<1>1. /\ toDaemon # <<>> /\ UNCHANGED conn
      /\ \/ m.type = "ui.register" /\ handleUIRegister
         \/ m.type = "subscribe" /\ handleSubscribe
         \/ m.type = "session.respond" /\ handleRespond(m.id)
         \/ m.type = "session.cancel" /\ handleCancel(m.id)
  BY DEF handleMessage
<1>2. m \in DaemonMessage
  BY <1>1 DEF IInv, MessagesTyped
<1> HIDE DEF m
<1>3. m.type \in {"session.respond", "session.cancel"} => m.id \in Ids
  BY <1>2 DEF DaemonMessage
<1> QED
  BY <1>1, <1>3, RegisterInforms, SubscribeInforms, AnswerInforms

\* Without a connection there is nobody to inform.
LEMMA UnconnectedNeedsNothing ==
    ASSUME conn' # "open", RoleIsFilled', ShownIsRegistered'
    PROVE  RInv'
BY DEF RInv, RoleIsUnderWay, ToldIsListed, ShownEnds, CreatedEnds

LEMMA DaemonInforms ==
    ASSUME IInv, RInv, UNCHANGED <<clientVars, windowVars>>, DaemonNext
    PROVE  RInv'
<1>1. ShownIsRegistered'
  BY DEF RInv, ShownIsRegistered, clientVars, windowVars
<1>2. CASE onClientDisconnected
  <2>1. conn' = "none"
    BY <1>2 DEF onClientDisconnected
  <2>2. CASE recomputeActiveProvider(Unregistered("fallback"), {})
    <3>1. DOMAIN Unregistered("fallback") \subseteq UIs
      BY DEF Unregistered, IInv, TypeOK, AgentTypeOK
    <3>2. RoleIsFilled'
      BY <2>2, <3>1, Recomputed
    <3> QED
      BY <1>1, <2>1, <3>2, UnconnectedNeedsNothing
  <2>3. CASE UNCHANGED <<providers, active>>
    <3>1. RoleIsFilled'
      BY <2>3 DEF RInv, RoleIsFilled
    <3> QED
      BY <1>1, <2>1, <3>1, UnconnectedNeedsNothing
  <2> QED
    BY <1>2, <2>2, <2>3 DEF onClientDisconnected
<1>3. CASE DaemonRestarts
  <2>1. conn' # "open" /\ RoleIsFilled'
    BY <1>3 DEF DaemonRestarts, daemonHangsUp, NoProviders, RoleIsFilled, IInv, TypeOK
  <2> QED
    BY <1>1, <2>1, UnconnectedNeedsNothing
<1>4. CASE CooldownEnds
  <2>1. UNCHANGED <<sessions, providers, active, subscriber, conn, toClient>>
    BY <1>4 DEF CooldownEnds
  <2>2. daemonSends(<<>>)
    BY <2>1 DEF daemonSends, IInv, MessagesTyped
  <2>3. StepInforms(<<>>) /\ ~Announces(<<>>)
    BY <2>1, NothingDecides DEF StepInforms, Announces
  <2>4. RoleIsFilled' /\ (conn = "open" /\ Told => subscriber' \/ "fallback" \in DOMAIN providers')
    BY <2>1 DEF RInv, RoleIsFilled, ToldIsListed
  <2> QED
    BY <2>1, <2>2, <2>3, <2>4, NothingDecides, Informing
<1>5. CASE \E c \in Ids, result \in Results : SessionEnds(c, result)
  BY <1>5, ClosingInforms DEF SessionEnds
<1> QED
  BY <1>2, <1>3, <1>4, <1>5, SessionInforms, MessageInforms, ShellInforms DEF DaemonNext

-----------------------------------------------------------------------------
(* The client's steps and what they learn.                                 *)

\* Its belief follows the messages that decide.
LEMMA ReadDecides ==
    ASSUME IInv, NEW m \in ClientMessage,
           onSubscribed(m) \/ onRegistered(m) \/ onActive(m) \/ onError(m) \/ onSession(m)
    PROVE  /\ Decides(m) /\ registered' => (providerActive' <=> Says(m))
           /\ ~Decides(m) => (providerActive' <=> providerActive)
           /\ registered' = (registered \/ m.type = "ui.registered")
<1>1. registered \in BOOLEAN /\ providerActive \in BOOLEAN
  BY DEF IInv, TypeOK, ClientTypeOK
<1>2. CASE onSubscribed(m)
  <2>1. m.type = "subscribed" /\ registered' = registered
    BY <1>2 DEF onSubscribed
  <2>2. IF m.registered THEN providerActive' = m.active ELSE providerActive' = providerActive
    BY <1>2 DEF onSubscribed, setProviderActive
  <2> QED
    BY <1>1, <2>1, <2>2 DEF Decides, Says
<1>3. CASE onRegistered(m)
  <2>1. m.type = "ui.registered" /\ registered' = TRUE /\ providerActive' = m.active
    BY <1>3 DEF onRegistered, setProviderActive
  <2> QED
    BY <1>1, <2>1 DEF Decides, Says
<1>4. CASE onActive(m)
  <2>1. m.type = "ui.active" /\ registered' = registered
        /\ (registered => providerActive' = (m.who # "shell"))
    BY <1>4 DEF onActive, setProviderActive
  <2> QED
    BY <1>1, <2>1 DEF Decides, Says
<1>5. CASE onError(m)
  <2>1. m.type = "error" /\ registered' = registered /\ providerActive' = FALSE
    BY <1>5 DEF onError, setProviderActive
  <2> QED
    BY <1>1, <2>1 DEF Decides, Says
<1>6. CASE onSession(m)
  <2>1. /\ m.type \in {"session.created", "session.updated", "session.closed"}
        /\ registered' = registered /\ providerActive' = providerActive
    BY <1>6 DEF onSession, clientVars
  <2> QED
    BY <1>1, <2>1 DEF Decides
<1> QED
  BY <1>2, <1>3, <1>4, <1>5, <1>6

\* What is visible after a message has just been created, or was visible and has
\* its end displayed if the message brought it.
LEMMA ReadShows ==
    ASSUME IInv, ShownIsRegistered, ShownWhileActive', NEW m \in ClientMessage,
           onSubscribed(m) \/ onRegistered(m) \/ onActive(m) \/ onError(m) \/ onSession(m),
           m.type \in SessionEvents => registered,
           visible'
    PROVE  /\ registered'
           /\ \/ m.type = "session.created" /\ shown' = m.id /\ providerActive
              \/ /\ visible /\ shown' = shown
                 /\ failed \/ clears > 0 => failed' \/ clears' > 0
                 /\ IsEnd(m, shown) => failed' \/ clears' > 0
<1>1. registered' = (registered \/ m.type = "ui.registered")
      /\ (Decides(m) /\ registered' => (providerActive' <=> Says(m)))
  BY ReadDecides
<1>2. providerActive' /\ clears \in Nat
  BY DEF ShownWhileActive, IInv, TypeOK, WindowTypeOK
<1>3. ASSUME UNCHANGED <<shown, visible, failed, clears>>
      PROVE  /\ registered'
             /\ visible /\ shown' = shown
             /\ failed \/ clears > 0 => failed' \/ clears' > 0
             /\ m.type # "session.closed" => ~IsEnd(m, shown)
  BY <1>1, <1>2, <1>3 DEF IsEnd, ShownIsRegistered
<1>4. ASSUME NEW value, NEW isRegistered, setProviderActive(value, isRegistered)
      PROVE  UNCHANGED <<shown, visible, failed, clears>>
  BY <1>4 DEF setProviderActive, providerStateChanged, dismiss, windowVars
<1>5. CASE onSubscribed(m) \/ onRegistered(m) \/ onActive(m) \/ onError(m)
  <2>1. UNCHANGED <<shown, visible, failed, clears>>
    BY <1>4, <1>5 DEF onSubscribed, onRegistered, onActive, onError, windowVars
  <2>2. m.type # "session.closed"
    BY <1>5 DEF onSubscribed, onRegistered, onActive, onError
  <2> QED
    BY <1>3, <2>1, <2>2
<1>6. CASE onSession(m)
  <2>1. m.type \in SessionEvents
    BY <1>6 DEF onSession, SessionEvents
  <2>2. CASE ~providerActive
    BY <1>2, <1>6, <2>2 DEF onSession, clientVars
  <2>3. CASE m.type = "session.created"
    BY <1>1, <1>6, <2>1, <2>2, <2>3 DEF onSession, sessionCreated
  <2>4. CASE m.type = "session.updated" /\ sessionUpdated(m.id)
    BY <1>3, <2>4 DEF sessionUpdated
  <2>5. CASE m.type = "session.closed" /\ sessionClosed(m.id, m.result)
    <3>1. ~Decides(m)
      BY <2>5 DEF Decides
    <3>2. CASE m.id # shown /\ UNCHANGED windowVars
      <4>1. ~IsEnd(m, shown)
        BY <3>1, <3>2 DEF IsEnd
      <4> QED
        BY <1>3, <3>2, <4>1 DEF windowVars
    <3>3. CASE /\ clears' = clears + 1
               /\ UNCHANGED <<shown, visible, busy, idle, failed>>
      <4>1. clears' > 0
        BY <1>2, <3>3
      <4>2. UNCHANGED <<shown, visible>> /\ registered'
        BY <1>1, <2>1, <3>3
      <4> QED
        BY <4>1, <4>2
    <3>4. CASE failed' = TRUE /\ UNCHANGED <<shown, visible, idle, clears>>
      BY <1>1, <2>1, <3>4
    <3>5. CASE dismiss
      BY <3>5 DEF dismiss
    <3> QED
      BY <2>5, <3>2, <3>3, <3>4, <3>5 DEF sessionClosed
  <2> QED
    BY <1>6, <2>1, <2>2, <2>3, <2>4, <2>5 DEF onSession
<1> QED
  BY <1>5, <1>6

LEMMA ReadInforms ==
    ASSUME IInv, IInv', RInv, UNCHANGED daemonVars, clientReads
    PROVE  RInv'
<1> DEFINE m == Head(toClient)
           q == toClient
<1>1. /\ q # <<>> /\ toClient' = Tail(q) /\ UNCHANGED conn
      /\ onSubscribed(m) \/ onRegistered(m) \/ onActive(m) \/ onError(m) \/ onSession(m)
  BY DEF clientReads
<1>2. q \in Seq(ClientMessage)
  BY DEF IInv, MessagesTyped
<1>3. /\ m \in ClientMessage /\ m = q[1]
      /\ Len(toClient') = Len(q) - 1
      /\ \A k \in 1..Len(toClient') : toClient'[k] = q[k+1]
  BY <1>1, <1>2, HeadTailProperties
<1>4. Len(q) \in Nat /\ 1 \in 1..Len(q)
  BY <1>1, <1>2
<1> HIDE DEF m, q
<1>5. /\ Decides(m) /\ registered' => (providerActive' <=> Says(m))
      /\ ~Decides(m) => (providerActive' <=> providerActive)
      /\ registered' = (registered \/ m.type = "ui.registered")
  BY <1>1, <1>3, ReadDecides
\* Message j is message j-1 of what is left, except the one that is read.
<1>6. /\ \A k \in 1..Len(toClient') : k + 1 \in 1..Len(q) /\ k + 1 # 1
      /\ \A j \in 1..Len(q) : j = 1 \/ (/\ j - 1 \in 1..Len(toClient')
                                        /\ toClient'[j-1] = q[j])
  <2>1. \A j \in 1..Len(q) : j = 1 \/ (j - 1 \in 1..Len(toClient') /\ (j - 1) + 1 = j)
    BY <1>3, <1>4
  <2>2. \A k \in 1..Len(toClient') : k + 1 \in 1..Len(q) /\ k + 1 # 1
    BY <1>3, <1>4
  <2> QED
    BY <1>3, <2>1, <2>2
<1>7. Told <=> Told'
  <2>1. ASSUME registered' \/ Announces(toClient') PROVE registered \/ Announces(q)
    BY <1>3, <1>4, <1>5, <1>6, <2>1 DEF Announces
  <2>2. ASSUME registered \/ Announces(q) PROVE registered' \/ Announces(toClient')
    BY <1>3, <1>5, <1>6, <2>2 DEF Announces
  <2> QED
    BY <2>1, <2>2 DEF Told, q
<1>8. UNCHANGED <<sessions, providers, active, subscriber, conn>>
  BY <1>1 DEF daemonVars
<1>9. ToldIsListed' /\ RoleIsFilled'
  BY <1>7, <1>8 DEF RInv, ToldIsListed, RoleIsFilled
<1>10. m.type \in SessionEvents => registered
  <2>1. ~\E j \in 1..(1-1) : TRUE
    OBVIOUS
  <2> QED
    BY <1>3, <1>4, <2>1 DEF IInv, EventsFollowReply, q
<1>11. visible' =>
          /\ registered'
          /\ \/ m.type = "session.created" /\ shown' = m.id /\ providerActive
             \/ /\ visible /\ shown' = shown
                /\ failed \/ clears > 0 => failed' \/ clears' > 0
                /\ IsEnd(m, shown) => failed' \/ clears' > 0
  BY <1>1, <1>3, <1>10, ReadShows DEF IInv, RInv
<1>12. ShownIsRegistered'
  BY <1>11 DEF ShownIsRegistered
<1>13. CASE conn # "open"
  BY <1>8, <1>9, <1>12, <1>13, UnconnectedNeedsNothing
<1>14. CASE conn = "open"
  <2>1. RoleIsUnderWay'
    <3> SUFFICES ASSUME Told'
                 PROVE  \/ Tells(toClient', active # "shell")
                        \/ /\ Undecided(toClient')
                           /\ providerActive' <=> active # "shell"
      BY <1>8 DEF RoleIsUnderWay, Tells, Undecided
    <3>1. CASE Tells(q, active # "shell")
      <4>1. PICK i \in 1..Len(q) : /\ Decides(q[i]) /\ (Says(q[i]) <=> active # "shell")
                                   /\ \A j \in (i+1)..Len(q) : ~Decides(q[j])
        BY <3>1 DEF Tells
      <4>2. CASE i = 1
        <5>1. \A k \in 1..Len(toClient') : k + 1 \in (i+1)..Len(q)
          BY <1>3, <1>4, <4>2
        <5>2. Undecided(toClient')
          BY <1>3, <4>1, <5>1 DEF Undecided
        <5>3. registered'
          BY <5>2, AnnouncementDecides DEF Told
        <5> QED
          BY <1>3, <1>5, <4>1, <4>2, <5>2, <5>3
      <4>3. CASE i # 1
        <5>1. i - 1 \in 1..Len(toClient') /\ toClient'[i-1] = q[i]
          BY <1>6, <4>3
        <5>2. \A k \in ((i-1)+1)..Len(toClient') :
                 k \in 1..Len(toClient') /\ k + 1 \in (i+1)..Len(q)
          BY <1>3, <1>4, <4>1, <5>1
        <5>3. \A k \in ((i-1)+1)..Len(toClient') : ~Decides(toClient'[k])
          BY <1>3, <4>1, <5>2
        <5> QED
          BY <4>1, <5>1, <5>3 DEF Tells
      <4> QED
        BY <4>2, <4>3
    <3>2. CASE Undecided(q) /\ (providerActive <=> active # "shell")
      <4>1. ~Decides(m) /\ Undecided(toClient')
        BY <1>3, <1>4, <1>6, <3>2 DEF Undecided
      <4> QED
        BY <1>5, <3>2, <4>1
    <3> QED
      BY <1>7, <1>14, <3>1, <3>2 DEF RInv, RoleIsUnderWay, q
  <2>2. ASSUME NEW c, NEW i \in 1..Len(q), \E j \in (i+1)..Len(q) : IsEnd(q[j], c)
        PROVE  \E j \in ((i-1)+1)..Len(toClient') : IsEnd(toClient'[j], c)
    <3>1. PICK j \in (i+1)..Len(q) : IsEnd(q[j], c)
      BY <2>2
    <3>2. j \in 1..Len(q) /\ j # 1 /\ j - 1 \in ((i-1)+1)..Len(toClient')
      BY <1>3, <1>4, <3>1
    <3> QED
      BY <1>6, <3>1, <3>2
  <2>3. ShownEnds'
    <3> SUFFICES ASSUME visible', sessions[shown'] = "none", ~failed', ~(clears' > 0)
                 PROVE  \E j \in 1..Len(toClient') : IsEnd(toClient'[j], shown')
      BY <1>8 DEF ShownEnds
    <3>1. CASE m.type = "session.created" /\ shown' = m.id /\ providerActive
      <4>1. Heard(1)
        <5>1. ~\E l \in 1..(1-1) : TRUE
          OBVIOUS
        <5> QED
          BY <3>1, <5>1 DEF Heard
      <4>2. \E j \in (1+1)..Len(q) : IsEnd(q[j], m.id)
        BY <1>3, <1>4, <1>14, <3>1, <4>1 DEF RInv, CreatedEnds, q
      <4>3. \E j \in ((1-1)+1)..Len(toClient') : IsEnd(toClient'[j], m.id)
        BY <1>4, <2>2, <4>2
      <4>4. (1-1)+1 = 1
        OBVIOUS
      <4> QED
        BY <3>1, <4>3, <4>4
    <3>2. CASE /\ visible /\ shown' = shown
               /\ failed \/ clears > 0 => failed' \/ clears' > 0
               /\ IsEnd(m, shown) => failed' \/ clears' > 0
      <4>1. PICK j \in 1..Len(q) : IsEnd(q[j], shown)
        BY <1>14, <3>2 DEF RInv, ShownEnds, q
      <4>2. j # 1
        BY <1>3, <3>2, <4>1
      <4> QED
        BY <1>6, <3>2, <4>1, <4>2
    <3> QED
      BY <1>11, <3>1, <3>2
  <2>4. ASSUME NEW i \in 1..Len(toClient'), toClient'[i].type = "session.created", Heard(i)'
        PROVE  Heard(i+1)
    <3>0. (i+1) - 1 = i /\ \A l \in 1..i : l \in 1..Len(q)
      BY <1>3, <1>4
    <3>1. CASE \E j \in 1..(i-1) :
                  /\ Decides(toClient'[j]) /\ Says(toClient'[j])
                  /\ \A l \in (j+1)..(i-1) : ~Decides(toClient'[l])
      <4>1. PICK j \in 1..(i-1) :
                  /\ Decides(toClient'[j]) /\ Says(toClient'[j])
                  /\ \A l \in (j+1)..(i-1) : ~Decides(toClient'[l])
        BY <3>1
      <4>2. j \in 1..Len(toClient') /\ j + 1 \in 1..i
        BY <1>3, <1>4
      <4>3. Decides(q[j+1]) /\ Says(q[j+1])
        BY <1>3, <4>1, <4>2
      <4>4. ASSUME NEW l \in ((j+1)+1)..i PROVE ~Decides(q[l])
        <5>1. l \in 1..Len(q) /\ l # 1 /\ l - 1 \in (j+1)..(i-1)
          BY <1>3, <1>4, <4>2
        <5> QED
          BY <1>6, <4>1, <5>1
      <4> QED
        BY <3>0, <4>2, <4>3, <4>4 DEF Heard, q
    <3>2. CASE providerActive' /\ \A l \in 1..(i-1) : ~Decides(toClient'[l])
      <4>1. ASSUME NEW l \in 1..i, l # 1 PROVE ~Decides(q[l])
        <5>1. l \in 1..Len(q) /\ l - 1 \in 1..(i-1)
          BY <3>0, <4>1
        <5> QED
          BY <1>6, <3>2, <4>1, <5>1
      <4>2. CASE ~Decides(m)
        <5>1. \A l \in 1..i : ~Decides(q[l])
          BY <1>3, <4>1, <4>2
        <5> QED
          BY <1>5, <3>0, <3>2, <4>2, <5>1 DEF Heard, q
      <4>3. CASE Decides(m)
        <5>1. registered'
          <6>1. registered' \/ \E j \in 1..(i-1) : toClient'[j].type = "ui.registered"
            BY <2>4 DEF IInv, EventsFollowReply, SessionEvents
          <6> QED
            BY <3>2, <6>1 DEF Decides
        <5>2. Decides(q[1]) /\ Says(q[1])
          BY <1>3, <1>5, <3>2, <4>3, <5>1
        <5>3. 1 \in 1..i /\ \A l \in (1+1)..i : l \in 1..i /\ l # 1
          BY <1>3, <1>4
        <5>4. \A l \in (1+1)..i : ~Decides(q[l])
          BY <4>1, <5>3
        <5> QED
          BY <3>0, <5>2, <5>3, <5>4 DEF Heard, q
      <4> QED
        BY <4>2, <4>3
    <3> QED
      BY <2>4, <3>1, <3>2 DEF Heard
  <2>5. CreatedEnds'
    <3> SUFFICES ASSUME NEW i \in 1..Len(toClient'),
                        toClient'[i].type = "session.created", Heard(i)',
                        sessions[toClient'[i].id] = "none"
                 PROVE  \E j \in (i+1)..Len(toClient') : IsEnd(toClient'[j], toClient'[i].id)
      BY <1>8 DEF CreatedEnds
    <3>1. i + 1 \in 1..Len(q) /\ q[i+1] = toClient'[i] /\ Heard(i+1)
      BY <1>3, <1>6, <2>4
    <3>2. \E j \in ((i+1)+1)..Len(q) : IsEnd(q[j], toClient'[i].id)
      BY <1>14, <3>1 DEF RInv, CreatedEnds, q
    <3>3. ((i+1)-1)+1 = i+1
      OBVIOUS
    <3>4. \E j \in (((i+1)-1)+1)..Len(toClient') : IsEnd(toClient'[j], toClient'[i].id)
      BY <2>2, <3>1, <3>2
    <3> QED
      BY <3>3, <3>4
  <2> QED
    BY <1>9, <1>12, <2>1, <2>3, <2>5 DEF RInv
<1> QED
  BY <1>13, <1>14

LEMMA NothingNewIsInformed ==
    ASSUME RInv, RoleIsFilled', UNCHANGED daemonVars,
           UNCHANGED <<registered, providerActive, visible, shown, failed, clears, conn,
                       toClient>>
    PROVE  RInv'
BY DEF RInv, RoleIsUnderWay, ToldIsListed, ShownIsRegistered, ShownEnds, CreatedEnds, Told,
   Tells, Undecided, Heard, daemonVars

\* A client whose window is hidden needs to know no more than before.
LEMMA UnshownIsInformed ==
    ASSUME RInv, RoleIsFilled', UNCHANGED daemonVars, ~visible',
           UNCHANGED <<registered, providerActive, conn, toClient>>
    PROVE  RInv'
BY DEF RInv, RoleIsUnderWay, ToldIsListed, ShownIsRegistered, ShownEnds, CreatedEnds, Told,
   Tells, Undecided, Heard, daemonVars

LEMMA ClientInforms ==
    ASSUME IInv, IInv', RInv, UNCHANGED daemonVars, ClientNext
    PROVE  RInv'
<1>1. RoleIsFilled'
  BY DEF RInv, RoleIsFilled, daemonVars
<1>2. CASE connected
  <2>1. /\ registered' = FALSE /\ UNCHANGED <<toClient, visible>> /\ conn = "none"
    BY <1>2 DEF connected, windowVars
  <2>2. toClient = <<>> /\ ~visible
    BY <2>1 DEF IInv, HungUpReadsNothing, ShownWhileActive, isConnected
  <2>3. ~Told'
    BY <2>1, <2>2 DEF Told, Announces
  <2> QED
    BY <1>1, <2>1, <2>2, <2>3
    DEF RInv, RoleIsUnderWay, ToldIsListed, ShownIsRegistered, ShownEnds, CreatedEnds
<1>3. CASE disconnected
  <2>1. conn' = "none" /\ toClient' = toClient
    BY <1>3 DEF disconnected
  <2>2. ~visible'
    BY <2>1 DEF IInv, ShownWhileActive, isConnected
  <2> QED
    BY <1>1, <2>1, <2>2, UnconnectedNeedsNothing DEF ShownIsRegistered
<1>4. CASE closeEvent \/ idleExit \/ Killed
  <2>1. conn' # "open" /\ ~visible'
    BY <1>4 DEF closeEvent, idleExit, Killed, ends, clientHangsUp, windowGone, IInv, TypeOK
  <2> QED
    BY <1>1, <2>1, UnconnectedNeedsNothing DEF ShownIsRegistered
<1>5. CASE delayedClear
  <2>1. ~visible' /\ UNCHANGED <<registered, providerActive, conn, toClient>>
    BY <1>5 DEF delayedClear, dismiss, clientVars
  <2> QED
    BY <1>1, <2>1, UnshownIsInformed
<1>6. CASE subscribeWatchdog \/ SubmitClicked \/ CancelClicked \/ Gone
  <2>1. UNCHANGED <<registered, providerActive, visible, shown, failed, clears, conn, toClient>>
    BY <1>6 DEF subscribeWatchdog, SubmitClicked, CancelClicked, Gone, clientVars, windowVars,
       socketVars
  <2> QED
    BY <1>1, <2>1, NothingNewIsInformed
<1> QED
  BY <1>2, <1>3, <1>4, <1>5, <1>6, ReadInforms DEF ClientNext

LEMMA RoleInductive == Spec => [](IInv /\ RInv)
<1>1. Init => RInv
  <2> SUFFICES ASSUME Init PROVE RInv
    OBVIOUS
  <2>1. ~visible /\ conn = "none" /\ DOMAIN providers = {}
    BY DEF Init, AgentInit, NoProviders, WindowInit
  <2> QED
    BY <2>1 DEF RInv, RoleIsUnderWay, ToldIsListed, RoleIsFilled, ShownIsRegistered,
       ShownEnds, CreatedEnds
<1>2. IInv /\ IInv' /\ RInv /\ [Next]_vars => RInv'
  <2> SUFFICES ASSUME IInv, IInv', RInv, [Next]_vars PROVE RInv'
    OBVIOUS
  <2>1. CASE UNCHANGED vars
    <3>1. UNCHANGED <<registered, providerActive, visible, shown, failed, clears, conn, toClient>>
          /\ UNCHANGED daemonVars
      BY <2>1 DEF vars, clientVars, windowVars, socketVars
    <3>2. RoleIsFilled'
      BY <3>1 DEF RInv, RoleIsFilled, daemonVars
    <3> QED
      BY <3>1, <3>2, NothingNewIsInformed
  <2> QED
    BY <2>1, DaemonInforms, ClientInforms DEF Next
<1> QED
  BY <1>1, <1>2, Inductive, PTL DEF Spec

\* When nothing is under way between them, the fallback believes it has the
\* role exactly when the daemon has not given it to the shell, whatever was
\* pruned, refused or taken over in between (Agent.cpp:520-542,
\* FallbackClient.cpp:191-257).
THEOREM RoleIsKnown == Spec => []KnowsItsRole
<1>1. IInv /\ RInv => KnowsItsRole
  <2> SUFFICES ASSUME RInv, conn = "open", registered, toClient = <<>>
               PROVE  providerActive <=> active # "shell"
    BY DEF KnowsItsRole
  <2>1. Len(toClient) = 0 /\ Told
    BY DEF Told
  <2>2. ~\E i \in 1..0 : TRUE
    OBVIOUS
  <2> QED
    BY <2>1, <2>2 DEF RInv, RoleIsUnderWay, Tells
<1> QED
  BY <1>1, RoleInductive, PTL

\* A prompt that stays on the screen is for a session that is open, or shows how
\* it ended: the news of the end cannot be lost between closeSession's two ways
\* to route it, a role that moves and a subscription (Agent.cpp:484-501).
THEOREM NoGhosts == Spec => []NoGhostPrompt
<1>1. IInv /\ RInv => NoGhostPrompt
  <2> SUFFICES ASSUME RInv, visible, conn = "open", toClient = <<>>
               PROVE  sessions[shown] # "none" \/ failed \/ clears > 0
    BY DEF NoGhostPrompt
  <2>1. Len(toClient) = 0 /\ ~\E i \in 1..0 : TRUE
    OBVIOUS
  <2> QED
    BY <2>1 DEF RInv, ShownEnds
<1> QED
  BY <1>1, RoleInductive, PTL

-----------------------------------------------------------------------------
(* What the daemon sends.                                                  *)

\* A confirmation that is believed: it carries the role of a registered client.
Confirms(m) == m.type = "subscribed" /\ m.registered

Modest(ms) == \A i \in 1..Len(ms) : ~Confirms(ms[i])

\* This message brings a session, or takes the role from the client.
Presents(m) == m.type = "session.created" \/ (Decides(m) /\ ~Says(m))

Presented(ms) == \E i \in 1..Len(ms) : Presents(ms[i])

LEMMA ModestConcatenated ==
    ASSUME NEW s \in Seq(ClientMessage), NEW t \in Seq(ClientMessage)
    PROVE  Modest(s) /\ Modest(t) => Modest(s \o t)
<1> DEFINE q == s \o t
<1>1. /\ \A i \in 1..Len(s) : i \in 1..Len(q) /\ q[i] = s[i]
      /\ \A i \in 1..Len(q) : i \in 1..Len(s)
            \/ (i - Len(s) \in 1..Len(t) /\ q[i] = t[i - Len(s)])
  BY Appended
<1> HIDE DEF q
<1>2. Modest(s) /\ Modest(t) => Modest(q)
  BY <1>1 DEF Modest
<1> QED
  BY <1>2 DEF q

LEMMA SingleIsModest ==
    ASSUME NEW m, m.type # "subscribed"
    PROVE  Modest(<<m>>) /\ Modest(<<>>)
<1>1. Len(<<m>>) = 1 /\ <<m>>[1] = m /\ 1..1 = {1}
  OBVIOUS
<1> QED
  BY <1>1 DEF Modest, Confirms

LEMMA StatusIsModest == Modest(emitProviderStatus) /\ Modest(statusIfChanged)
<1> DEFINE m == [type |-> "ui.active", who |-> active']
<1>1. m.type # "subscribed"
  OBVIOUS
<1>2. /\ emitProviderStatus \in {<<m>>, <<>>}
      /\ statusIfChanged \in {<<m>>, <<>>}
  BY DEF emitProviderStatus, statusIfChanged
<1> HIDE DEF m
<1> QED
  BY <1>1, <1>2, SingleIsModest

LEMMA EventIsModest ==
    ASSUME NEW event, event.type # "subscribed", NEW a
    PROVE  Modest(routed(event, a))
<1>1. routed(event, a) \in {<<event>>, <<>>}
  BY DEF routed
<1> QED
  BY <1>1, SingleIsModest

\* What is sent: nothing that confirms, unless the client is told.
Sends == \E ms \in Seq(ClientMessage) : daemonSends(ms) /\ (Modest(ms) \/ Told)

LEMMA ClosingIsModest ==
    ASSUME IInv, NEW c \in Ids, NEW result \in Results, closeSession(c, result)
    PROVE  Sends
<1> DEFINE closed == [type |-> "session.closed", id |-> c, result |-> result]
<1>1. closed \in ClientMessage /\ ~Decides(closed) /\ closed.type # "subscribed"
  BY DEF ClientMessage, Decides
<1>2. active \in UIs \cup {"none"} /\ DOMAIN providers \subseteq UIs
  BY DEF IInv, TypeOK, AgentTypeOK
<1>3. \/ daemonSends(routed(closed, active))
      \/ /\ recomputeActiveProvider(providers, {})
         /\ \/ daemonSends(statusIfChanged \o routed(closed, active'))
            \/ daemonSends(routed(closed, active) \o statusIfChanged)
  BY DEF closeSession
<1> HIDE DEF closed
<1>4. routed(closed, active) \in Seq(ClientMessage) /\ Modest(routed(closed, active))
  BY <1>1, <1>2, RoutedTells, EventIsModest
<1>5. ASSUME recomputeActiveProvider(providers, {}),
             \/ daemonSends(statusIfChanged \o routed(closed, active'))
             \/ daemonSends(routed(closed, active) \o statusIfChanged)
      PROVE  Sends
  <2>1. active' \in UIs \cup {"none"}
    BY <1>2, <1>5, Recomputed
  <2>2. /\ statusIfChanged \in Seq(ClientMessage) /\ Modest(statusIfChanged)
        /\ routed(closed, active') \in Seq(ClientMessage) /\ Modest(routed(closed, active'))
    BY <1>1, <2>1, ChangeTells, RoutedTells, StatusIsModest, EventIsModest
  <2>3. /\ statusIfChanged \o routed(closed, active') \in Seq(ClientMessage)
        /\ Modest(statusIfChanged \o routed(closed, active'))
        /\ routed(closed, active) \o statusIfChanged \in Seq(ClientMessage)
        /\ Modest(routed(closed, active) \o statusIfChanged)
    BY <1>4, <2>2, Appended, ModestConcatenated
  <2> QED
    BY <1>5, <2>3 DEF Sends
<1> QED
  BY <1>3, <1>4, <1>5 DEF Sends

LEMMA ShellIsModest ==
    ASSUME IInv,
           \/ \E rank \in Ranks : ShellRegisters(rank)
           \/ ShellLeaves
           \/ pruneStaleProviders
    PROVE  Sends
<1>1. DOMAIN providers \subseteq UIs
  BY DEF IInv, TypeOK, AgentTypeOK
<1>2. /\ \E ps, kept : DOMAIN ps \subseteq UIs /\ recomputeActiveProvider(ps, kept)
      /\ daemonSends(statusIfChanged) \/ daemonSends(emitProviderStatus) \/ daemonSends(<<>>)
  <2>1. CASE \E rank \in Ranks : ShellRegisters(rank)
    <3>1. PICK rank \in Ranks : ShellRegisters(rank)
      BY <2>1
    <3>2. DOMAIN Registered("shell", rank) \subseteq UIs
      BY <1>1 DEF Registered, UIs
    <3> QED
      BY <3>1, <3>2 DEF ShellRegisters
  <2>2. CASE ShellLeaves
    <3>1. DOMAIN Unregistered("shell") \subseteq UIs
      BY <1>1 DEF Unregistered
    <3> QED
      BY <2>2, <3>1 DEF ShellLeaves
  <2>3. CASE pruneStaleProviders
    BY <1>1, <2>3 DEF pruneStaleProviders
  <2> QED
    BY <2>1, <2>2, <2>3
<1>3. active' \in UIs \cup {"none"}
  BY <1>2, Recomputed
<1>4. Modest(<<>>)
  BY DEF Modest
<1> QED
  BY <1>2, <1>3, <1>4, StatusTells, ChangeTells, StatusIsModest, NothingDecides DEF Sends

LEMMA RegisterIsModest ==
    ASSUME IInv, handleUIRegister
    PROVE  Sends
<1> DEFINE ps == Registered("fallback", FallbackRank)
           reply == [type |-> "ui.registered", active |-> active' = "fallback"]
           status == IF active' # active \/ active' = "fallback"
                     THEN emitProviderStatus ELSE <<>>
<1>1. DOMAIN ps \subseteq UIs
  BY DEF Registered, UIs, IInv, TypeOK, AgentTypeOK
<1>2. recomputeActiveProvider(ps, {"fallback"}) /\ daemonSends(<<reply>> \o status)
  BY DEF handleUIRegister
<1> HIDE DEF ps
<1>3. active' \in UIs \cup {"none"}
  BY <1>1, <1>2, Recomputed
<1>4. reply \in ClientMessage /\ reply.type # "subscribed"
  <2>1. (active' = "fallback") \in BOOLEAN
    OBVIOUS
  <2> QED
    BY <2>1 DEF ClientMessage
<1>5. status \in Seq(ClientMessage) /\ Modest(status)
  <2>1. Modest(<<>>)
    BY DEF Modest
  <2> QED
    BY <1>3, <2>1, StatusTells, StatusIsModest, NothingDecides
<1> HIDE DEF reply, status
<1>6. <<reply>> \in Seq(ClientMessage) /\ Modest(<<reply>>)
  BY <1>4, OneMessage, SingleIsModest
<1>7. <<reply>> \o status \in Seq(ClientMessage) /\ Modest(<<reply>> \o status)
  BY <1>5, <1>6, Appended, ModestConcatenated
<1> QED
  BY <1>2, <1>7 DEF Sends

\* A subscription is answered with the sessions that are open, unless the shell
\* has the role.
LEMMA SubscribeIsModest ==
    ASSUME IInv, RInv, conn = "open", handleSubscribe
    PROVE  /\ Sends
           /\ active # "shell" /\ open # {} => Presented(toClient')
<1> DEFINE isRegistered == "fallback" \in DOMAIN providers
           isActive == isRegistered /\ active = "fallback"
           replayed == IF ~isRegistered \/ isActive THEN open ELSE {}
           reply == [type |-> "subscribed", registered |-> isRegistered,
                     active |-> isActive]
<1>1. PICK order \in Orders(replayed) :
         daemonSends([i \in DOMAIN order |->
                         [type |-> "session.created", id |-> order[i]]] \o <<reply>>)
  BY DEF handleSubscribe
<1>2. replayed \in SUBSET Ids
  BY DEF open
<1>3. reply \in ClientMessage
  <2>1. isRegistered \in BOOLEAN /\ isActive \in BOOLEAN
    OBVIOUS
  <2> HIDE DEF isRegistered, isActive
  <2> QED
    BY <2>1 DEF ClientMessage
<1>4. Told \/ ~Confirms(reply)
  BY DEF IInv, ListenerIsTold, Confirms
<1>5. active # "shell" /\ open # {} => replayed # {}
  BY DEF IInv, TypeOK, AgentTypeOK, UIs, RInv, RoleIsFilled
<1> DEFINE created == [i \in DOMAIN order |->
                          [type |-> "session.created", id |-> order[i]]]
           ms == created \o <<reply>>
<1>6. created \in Seq(ClientMessage)
  BY <1>2, ReplayIsTyped
<1>7. PICK n \in Nat : n = Cardinality(replayed) /\ (replayed # {} => n > 0)
  <2>1. IsFiniteSet(replayed)
    BY <1>2, IdsAssumption, FS_Subset
  <2>2. Cardinality(replayed) \in Nat /\ (Cardinality(replayed) = 0 <=> replayed = {})
    BY <2>1, FS_CardinalityType, FS_EmptySet
  <2> HIDE DEF replayed
  <2> QED
    BY <2>2
<1>8. order \in [1..n -> replayed]
  BY <1>7 DEF Orders
<1>9. Len(created) = n /\ \A i \in 1..n : created[i].type = "session.created"
  BY <1>6, <1>7, <1>8
<1>10. daemonSends(ms)
  BY <1>1
<1> HIDE DEF created, reply, replayed
<1>11. Modest(created)
  BY <1>9 DEF Modest, Confirms
<1>12. /\ <<reply>> \in Seq(ClientMessage) /\ Len(<<reply>>) = 1 /\ <<reply>>[1] = reply
       /\ 1..1 = {1}
  BY <1>3, OneMessage
<1>13. ms \in Seq(ClientMessage) /\ (Modest(ms) \/ Told)
  <2>1. ~Confirms(reply) => Modest(<<reply>>)
    BY <1>12 DEF Modest
  <2> QED
    BY <1>4, <1>6, <1>11, <1>12, <2>1, Appended, ModestConcatenated
<1>14. ASSUME replayed # {} PROVE Presented(toClient')
  <2>1. 1 \in 1..Len(created) /\ created[1].type = "session.created"
    BY <1>7, <1>9, <1>14
  <2>2. 1 \in 1..Len(ms) /\ ms[1] = created[1]
    BY <1>6, <1>12, <2>1, Appended
  <2>3. Len(toClient) + 1 \in 1..Len(toClient') /\ toClient'[Len(toClient) + 1] = ms[1]
    <3> HIDE DEF ms
    <3>1. toClient' = toClient \o ms /\ toClient \in Seq(ClientMessage)
      BY <1>10 DEF daemonSends, IInv, MessagesTyped
    <3> QED
      BY <1>13, <2>2, <3>1, Appended
  <2> QED
    BY <2>1, <2>2, <2>3 DEF Presented, Presents
<1> HIDE DEF ms
<1> QED
  BY <1>5, <1>10, <1>13, <1>14 DEF Sends

LEMMA SessionIsModest ==
    ASSUME IInv, NEW c \in Ids, createSession(c) \/ sessionUpdate(c)
    PROVE  Sends
<1>1. PICK kind \in {"session.created", "session.updated"} :
         daemonSends(routed([type |-> kind, id |-> c], active))
  BY DEF createSession, sessionUpdate
<1> DEFINE event == [type |-> kind, id |-> c]
<1>2. event \in ClientMessage /\ ~Decides(event) /\ event.type # "subscribed"
  BY DEF ClientMessage, Decides
<1> HIDE DEF event
<1>3. routed(event, active) \in Seq(ClientMessage) /\ Modest(routed(event, active))
  BY <1>2, RoutedTells, EventIsModest DEF IInv, TypeOK, AgentTypeOK
<1> QED
  BY <1>1, <1>3 DEF Sends, event

LEMMA AnswerIsModest ==
    ASSUME IInv, NEW c \in Ids, handleRespond(c) \/ handleCancel(c)
    PROVE  Sends
<1>1. CASE closeSession(c, "cancelled")
  BY <1>1, ClosingIsModest DEF Results
<1>2. CASE refuse
  <2> DEFINE m == [type |-> "error"]
  <2>1. m \in ClientMessage /\ m.type # "subscribed"
    BY DEF ClientMessage
  <2>2. daemonSends(<<m>>)
    BY <1>2 DEF refuse
  <2> HIDE DEF m
  <2> QED
    BY <2>1, <2>2, OneMessage, SingleIsModest DEF Sends
<1>3. CASE UNCHANGED toClient
  <2>1. daemonSends(<<>>) /\ Modest(<<>>)
    BY <1>3 DEF daemonSends, IInv, MessagesTyped, Modest
  <2> QED
    BY <2>1, NothingDecides DEF Sends
<1> QED
  BY <1>1, <1>2, <1>3 DEF handleRespond, handleCancel

LEMMA DaemonIsModest ==
    ASSUME IInv, RInv, DaemonNext, conn = "open", conn' = "open"
    PROVE  Sends
<1>1. CASE handleMessage
  <2> DEFINE m == Head(toDaemon)
  <2>1. /\ toDaemon # <<>>
        /\ \/ m.type = "ui.register" /\ handleUIRegister
           \/ m.type = "subscribe" /\ handleSubscribe
           \/ m.type = "session.respond" /\ handleRespond(m.id)
           \/ m.type = "session.cancel" /\ handleCancel(m.id)
    BY <1>1 DEF handleMessage
  <2>2. m \in DaemonMessage
    BY <2>1 DEF IInv, MessagesTyped
  <2> HIDE DEF m
  <2>3. m.type \in {"session.respond", "session.cancel"} => m.id \in Ids
    BY <2>2 DEF DaemonMessage
  <2> QED
    BY <2>1, <2>3, RegisterIsModest, SubscribeIsModest, AnswerIsModest
<1>2. CASE CooldownEnds
  <2>1. daemonSends(<<>>) /\ Modest(<<>>)
    BY <1>2 DEF CooldownEnds, daemonSends, IInv, MessagesTyped, Modest
  <2> QED
    BY <2>1, NothingDecides DEF Sends
<1>3. CASE onClientDisconnected \/ DaemonRestarts
  BY <1>3 DEF onClientDisconnected, DaemonRestarts, daemonHangsUp
<1>4. CASE \E c \in Ids, result \in Results : SessionEnds(c, result)
  BY <1>4, ClosingIsModest DEF SessionEnds
<1> QED
  BY <1>1, <1>2, <1>3, <1>4, SessionIsModest, ShellIsModest DEF DaemonNext

-----------------------------------------------------------------------------
(* What a prompt with disabled buttons waits for.                          *)

\* This message enables the buttons of the prompt for c, hides the prompt or
\* has its end displayed.
Wakes(m, c) ==
    \/ IsEnd(m, c)
    \/ m.type = "session.created"
    \/ m.type = "session.updated" /\ m.id = c

Woken(ms, c) == \E i \in 1..Len(ms) : Wakes(ms[i], c)

Answered(ms, c) == \E i \in 1..Len(ms) : Answers(ms[i], c)

\* What disabled buttons wait for, as far as the daemon has it in hand: the
\* session is verified, or its end is what they wait for.
InHand(c) == sessions[c] \in {"none", "verifying"}

BusyInv ==
    conn = "open" /\ visible /\ busy =>
        \/ failed \/ clears > 0
        \/ InHand(shown)
        \/ Answered(toDaemon, shown)
        \/ Woken(toClient, shown)

LEMMA SentWakes ==
    ASSUME IInv, NEW ms \in Seq(ClientMessage), daemonSends(ms), conn = "open", NEW c
    PROVE  /\ Woken(toClient, c) => Woken(toClient', c)
           /\ Woken(ms, c) => Woken(toClient', c)
<1> DEFINE s == toClient
<1>1. s \in Seq(ClientMessage) /\ toClient' = s \o ms
  BY DEF daemonSends, IInv, MessagesTyped
<1>2. /\ \A i \in 1..Len(s) : i \in 1..Len(toClient') /\ toClient'[i] = s[i]
      /\ \A i \in 1..Len(ms) : /\ Len(s) + i \in 1..Len(toClient')
                               /\ toClient'[Len(s) + i] = ms[i]
  BY <1>1, Appended
<1> HIDE DEF s
<1>3. ASSUME Woken(s, c) PROVE Woken(toClient', c)
  BY <1>2, <1>3 DEF Woken
<1>4. ASSUME Woken(ms, c) PROVE Woken(toClient', c)
  BY <1>2, <1>4 DEF Woken
<1> QED
  BY <1>3, <1>4 DEF s

LEMMA SingleWakes ==
    ASSUME NEW m, NEW c, Wakes(m, c)
    PROVE  Woken(<<m>>, c)
<1>1. Len(<<m>>) = 1 /\ <<m>>[1] = m /\ 1 \in 1..1
  OBVIOUS
<1> QED
  BY <1>1 DEF Woken

\* The client goes on asking.
LEMMA AskedIsAnswered ==
    ASSUME NEW s \in Seq(DaemonMessage), NEW t \in Seq(DaemonMessage), NEW c
    PROVE  /\ Answered(s, c) => Answered(s \o t, c)
           /\ Answered(t, c) => Answered(s \o t, c)
<1> DEFINE q == s \o t
<1>1. /\ Len(q) = Len(s) + Len(t)
      /\ \A i \in 1 .. Len(s) + Len(t) : q[i] = IF i <= Len(s) THEN s[i] ELSE t[i - Len(s)]
  BY ConcatProperties
<1>2. Len(s) \in Nat /\ Len(t) \in Nat
  OBVIOUS
<1> HIDE DEF q
<1>3. \A i \in 1..Len(s) : i \in 1..Len(q) /\ q[i] = s[i]
  <2>1. \A i \in 1..Len(s) : i \in 1 .. Len(s) + Len(t) /\ i <= Len(s)
    BY <1>2
  <2> QED
    BY <1>1, <2>1
<1>4. \A i \in 1..Len(t) : Len(s) + i \in 1..Len(q) /\ q[Len(s) + i] = t[i]
  <2>1. \A i \in 1..Len(t) : /\ Len(s) + i \in 1 .. Len(s) + Len(t)
                             /\ ~(Len(s) + i <= Len(s))
                             /\ (Len(s) + i) - Len(s) = i
    BY <1>2
  <2> QED
    BY <1>1, <2>1
<1>5. ASSUME Answered(s, c) PROVE Answered(q, c)
  BY <1>3, <1>5 DEF Answered
<1>6. ASSUME Answered(t, c) PROVE Answered(q, c)
  BY <1>4, <1>6 DEF Answered
<1> QED
  BY <1>5, <1>6 DEF q

\* A prompt whose session the daemon has closed waits for the news of it.
LEMMA EndWakes ==
    ASSUME RInv, conn = "open", visible, sessions[shown] = "none"
    PROVE  failed \/ clears > 0 \/ Woken(toClient, shown)
BY DEF RInv, ShownEnds, Woken, Wakes

\* A session that is verified again, or opened anew, sends its prompt to the
\* client that shows it, unless that client is about to lose the role.
LEMMA UpdateWakes ==
    ASSUME IInv, RInv, conn = "open", visible, NEW event, Wakes(event, shown)
    PROVE  Woken(toClient, shown) \/ routed(event, active) = <<event>>
<1>1. Told
  BY DEF RInv, ShownIsRegistered, Told
<1>2. CASE active = "shell"
  BY <1>1, <1>2, ShellSilences DEF RInv, Woken, Wakes
<1>3. CASE active = "none"
  BY <1>1, <1>3 DEF RInv, ToldIsListed, RoleIsFilled, routed
<1>4. CASE active = "fallback"
  BY <1>4 DEF routed
<1> QED
  BY <1>2, <1>3, <1>4 DEF IInv, TypeOK, AgentTypeOK, UIs

\* A handler of the daemon leaves the window something to wait for if it leaves
\* the session in hand, or as it was, and does not take the answer for nothing.
LEMMA HandlerWakes ==
    ASSUME IInv, BusyInv, UNCHANGED <<windowVars, conn>>,
           NEW ms \in Seq(ClientMessage), daemonSends(ms),
           conn = "open" /\ visible =>
              \/ failed \/ clears > 0
              \/ InHand(shown)'
              \/ Woken(toClient, shown) \/ Woken(ms, shown)
              \/ /\ sessions'[shown] = sessions[shown]
                 /\ Answered(toDaemon, shown) => Answered(toDaemon', shown)
    PROVE  BusyInv'
<1> SUFFICES ASSUME conn = "open", visible, busy
             PROVE  \/ failed \/ clears > 0
                    \/ InHand(shown)'
                    \/ Answered(toDaemon', shown)
                    \/ Woken(toClient', shown)
  BY DEF BusyInv, InHand, windowVars, Answered, Woken
<1>1. CASE Woken(toClient, shown) \/ Woken(ms, shown)
  BY <1>1, SentWakes
<1>2. CASE /\ sessions'[shown] = sessions[shown]
           /\ Answered(toDaemon, shown) => Answered(toDaemon', shown)
  <2>1. InHand(shown) => InHand(shown)'
    BY <1>2 DEF InHand, windowVars
  <2> QED
    BY <1>1, <1>2, <2>1 DEF BusyInv
<1> QED
  BY <1>1, <1>2

LEMMA SessionWakes ==
    ASSUME IInv, RInv, BusyInv, UNCHANGED <<clientVars, windowVars>>,
           NEW c \in Ids, createSession(c) \/ sessionUpdate(c)
    PROVE  BusyInv'
<1>1. /\ sessions \in [Ids -> {"none", "waiting", "verifying"}]
      /\ active \in UIs \cup {"none"}
      /\ sessions' = [sessions EXCEPT ![c] = "waiting"]
      /\ UNCHANGED <<conn, toDaemon>>
  BY DEF createSession, sessionUpdate, IInv, TypeOK, AgentTypeOK
<1>2. \A k \in Ids : k # c => sessions'[k] = sessions[k]
  BY <1>1
<1>3. visible => shown \in Ids
  BY DEF IInv, ShownWhileActive, TypeOK, WindowTypeOK
<1>4. ASSUME createSession(c) PROVE BusyInv'
  <2> DEFINE event == [type |-> "session.created", id |-> c]
             ms == routed(event, active)
  <2>1. event \in ClientMessage /\ ~Decides(event)
    BY DEF ClientMessage, Decides
  <2>2. daemonSends(ms) /\ sessions[c] = "none"
    BY <1>4 DEF createSession
  <2> HIDE DEF event
  <2>3. ms \in Seq(ClientMessage)
    BY <1>1, <2>1, RoutedTells
  <2> HIDE DEF ms
  <2>4. conn = "open" /\ visible /\ shown = c => failed \/ clears > 0 \/ Woken(toClient, shown)
    BY <2>2, EndWakes
  <2> QED
    BY <1>1, <1>2, <1>3, <2>2, <2>3, <2>4, HandlerWakes
<1>5. ASSUME sessionUpdate(c) PROVE BusyInv'
  <2> DEFINE event == [type |-> "session.updated", id |-> c]
             ms == routed(event, active)
  <2>1. event \in ClientMessage /\ ~Decides(event) /\ Wakes(event, c)
    BY DEF ClientMessage, Decides, Wakes
  <2>2. daemonSends(ms)
    BY <1>5 DEF sessionUpdate
  <2> HIDE DEF event
  <2>3. ms \in Seq(ClientMessage)
    BY <1>1, <2>1, RoutedTells
  <2>4. conn = "open" /\ visible /\ shown = c => Woken(toClient, shown) \/ ms = <<event>>
    BY <2>1, UpdateWakes
  <2> HIDE DEF ms
  <2>5. conn = "open" /\ visible /\ shown = c => Woken(toClient, shown) \/ Woken(ms, shown)
    BY <2>1, <2>4, SingleWakes
  <2> QED
    BY <1>1, <1>2, <1>3, <2>2, <2>3, <2>5, HandlerWakes
<1> QED
  BY <1>4, <1>5

LEMMA ClosingWakes ==
    ASSUME IInv, BusyInv, UNCHANGED windowVars,
           NEW c \in Ids, NEW result \in Results, closeSession(c, result),
           \A k \in Ids \ {c} : Answered(toDaemon, k) => Answered(toDaemon', k)
    PROVE  BusyInv'
<1>1. PICK ms \in Seq(ClientMessage) : daemonSends(ms)
  BY ClosingIsModest DEF Sends
<1>2. sessions' = [sessions EXCEPT ![c] = "none"] /\ UNCHANGED conn
  BY DEF closeSession
<1>3. visible => shown \in Ids
  BY DEF IInv, ShownWhileActive, TypeOK, WindowTypeOK
<1>4. /\ sessions'[c] = "none"
      /\ \A k \in Ids : k # c => sessions'[k] = sessions[k]
  BY <1>2 DEF IInv, TypeOK, AgentTypeOK
<1>5. visible /\ shown = c => InHand(shown)'
  BY <1>4 DEF InHand, windowVars
<1> QED
  BY <1>1, <1>2, <1>3, <1>4, <1>5, HandlerWakes

\* The daemon reads the answer and verifies it, closes the session, or refuses.
LEMMA AnswerWakes ==
    ASSUME IInv, RInv, BusyInv, UNCHANGED <<clientVars, windowVars, conn>>,
           NEW c \in Ids, handleRespond(c) \/ handleCancel(c),
           \A k \in Ids \ {c} : Answered(toDaemon, k) => Answered(toDaemon', k)
    PROVE  BusyInv'
<1>1. CASE closeSession(c, "cancelled")
  BY <1>1, ClosingWakes DEF Results
<1>2. sessions \in [Ids -> {"none", "waiting", "verifying"}] /\ (visible => shown \in Ids)
  BY DEF IInv, TypeOK, AgentTypeOK, WindowTypeOK, ShownWhileActive
<1>3. CASE refuse /\ UNCHANGED sessions
  <2> DEFINE m == [type |-> "error"]
  <2>1. m \in ClientMessage /\ Wakes(m, shown)
    BY DEF ClientMessage, Wakes, IsEnd, Decides, Says
  <2>2. daemonSends(<<m>>)
    BY <1>3 DEF refuse
  <2> HIDE DEF m
  <2>3. <<m>> \in Seq(ClientMessage) /\ Woken(<<m>>, shown)
    BY <2>1, OneMessage, SingleWakes
  <2> QED
    BY <2>2, <2>3, HandlerWakes
<1>4. CASE /\ UNCHANGED toClient
           /\ sessions'[c] \in {"none", "verifying"}
           /\ \A k \in Ids : k # c => sessions'[k] = sessions[k]
  <2>1. daemonSends(<<>>)
    BY <1>4 DEF daemonSends, IInv, MessagesTyped
  <2>2. visible /\ shown = c => InHand(shown)'
    BY <1>4 DEF InHand, windowVars
  <2> QED
    BY <1>2, <1>4, <2>1, <2>2, NothingDecides, HandlerWakes
<1>5. CASE handleRespond(c)
  <2>1. CASE sessions' = [sessions EXCEPT ![c] = IF @ = "none" THEN @ ELSE "verifying"]
             /\ UNCHANGED toClient
    <3>1. /\ sessions'[c] \in {"none", "verifying"}
          /\ \A k \in Ids : k # c => sessions'[k] = sessions[k]
      BY <1>2, <2>1
    <3> QED
      BY <1>4, <2>1, <3>1
  <2> QED
    BY <1>3, <1>5, <2>1 DEF handleRespond
<1>6. CASE handleCancel(c)
  <2>1. CASE sessions[c] = "none" /\ UNCHANGED <<sessions, toClient>>
    BY <1>4, <2>1
  <2> QED
    BY <1>1, <1>3, <1>6, <2>1 DEF handleCancel
<1> QED
  BY <1>5, <1>6

LEMMA HeadIsRead ==
    ASSUME IInv, toDaemon # <<>>, toDaemon' = Tail(toDaemon), NEW c,
           ~Answers(Head(toDaemon), c), Answered(toDaemon, c)
    PROVE  Answered(toDaemon', c)
<1> DEFINE q == toDaemon
<1>1. q \in Seq(DaemonMessage)
  BY DEF IInv, MessagesTyped
<1>2. /\ Head(q) = q[1]
      /\ Len(toDaemon') = Len(q) - 1
      /\ \A k \in 1..Len(toDaemon') : toDaemon'[k] = q[k+1]
  BY <1>1, HeadTailProperties
<1>3. PICK i \in 1..Len(q) : Answers(q[i], c)
  BY DEF Answered
<1>4. ~Answers(q[1], c) /\ Len(q) \in Nat
  BY <1>1, <1>2
<1> HIDE DEF q
<1>5. i # 1
  BY <1>3, <1>4
<1>6. i - 1 \in 1..Len(toDaemon') /\ (i - 1) + 1 = i
  BY <1>2, <1>4, <1>5
<1> QED
  BY <1>2, <1>3, <1>6 DEF Answered

\* A handler that leaves the sessions alone leaves what the prompt waits for.
LEMMA QuietWakes ==
    ASSUME IInv, BusyInv, UNCHANGED <<windowVars, conn, sessions>>, Sends,
           \A k \in Ids : Answered(toDaemon, k) => Answered(toDaemon', k)
    PROVE  BusyInv'
<1>1. visible => shown \in Ids
  BY DEF IInv, TypeOK, WindowTypeOK, ShownWhileActive
<1> QED
  BY <1>1, HandlerWakes DEF Sends

LEMMA MessageWakes ==
    ASSUME IInv, RInv, BusyInv, UNCHANGED <<clientVars, windowVars>>, handleMessage
    PROVE  BusyInv'
<1> DEFINE m == Head(toDaemon)
<1>1. /\ toDaemon # <<>> /\ toDaemon' = Tail(toDaemon) /\ UNCHANGED conn
      /\ \/ m.type = "ui.register" /\ handleUIRegister
         \/ m.type = "subscribe" /\ handleSubscribe
         \/ m.type = "session.respond" /\ handleRespond(m.id)
         \/ m.type = "session.cancel" /\ handleCancel(m.id)
  BY DEF handleMessage
<1>2. m \in DaemonMessage
  BY <1>1 DEF IInv, MessagesTyped
<1>3. \A k \in Ids : ~Answers(m, k) => (Answered(toDaemon, k) => Answered(toDaemon', k))
  BY <1>1, HeadIsRead
<1> HIDE DEF m
<1>4. m.type \in {"session.respond", "session.cancel"} => m.id \in Ids
  BY <1>2 DEF DaemonMessage
<1>5. conn # "open" => BusyInv'
  BY <1>1 DEF BusyInv
<1>6. CASE m.type \in {"ui.register", "subscribe"} /\ (handleUIRegister \/ handleSubscribe)
  <2>1. \A k \in Ids : Answered(toDaemon, k) => Answered(toDaemon', k)
    BY <1>3, <1>6 DEF Answers
  <2>2. UNCHANGED sessions
    BY <1>6 DEF handleUIRegister, handleSubscribe
  <2> QED
    BY <1>1, <1>5, <1>6, <2>1, <2>2, RegisterIsModest, SubscribeIsModest, QuietWakes
<1>7. CASE /\ m.type \in {"session.respond", "session.cancel"}
           /\ handleRespond(m.id) \/ handleCancel(m.id)
  <2>1. \A k \in Ids \ {m.id} : Answered(toDaemon, k) => Answered(toDaemon', k)
    BY <1>3 DEF Answers
  <2> QED
    BY <1>1, <1>4, <1>7, <2>1, AnswerWakes
<1> QED
  BY <1>1, <1>6, <1>7

LEMMA ShellWakes ==
    ASSUME IInv, BusyInv, UNCHANGED <<clientVars, windowVars>>,
           \/ \E rank \in Ranks : ShellRegisters(rank)
           \/ ShellLeaves
           \/ pruneStaleProviders
    PROVE  BusyInv'
<1>1. UNCHANGED <<conn, sessions, toDaemon>>
  BY DEF ShellRegisters, ShellLeaves, pruneStaleProviders
<1> QED
  BY <1>1, ShellIsModest, QuietWakes

LEMMA DaemonWakes ==
    ASSUME IInv, RInv, BusyInv, UNCHANGED <<clientVars, windowVars>>, DaemonNext
    PROVE  BusyInv'
<1>1. CASE onClientDisconnected
  BY <1>1 DEF onClientDisconnected, BusyInv
<1>2. CASE DaemonRestarts
  <2>1. conn' # "open"
    BY <1>2 DEF DaemonRestarts, daemonHangsUp, IInv, TypeOK
  <2> QED
    BY <2>1 DEF BusyInv
<1>3. CASE CooldownEnds
  <2>1. UNCHANGED <<sessions, conn, toDaemon>> /\ daemonSends(<<>>)
    BY <1>3 DEF CooldownEnds, daemonSends, IInv, MessagesTyped
  <2> QED
    BY <2>1, DaemonIsModest, QuietWakes DEF BusyInv
<1>4. CASE \E c \in Ids, result \in Results : SessionEnds(c, result)
  BY <1>4, ClosingWakes DEF SessionEnds
<1> QED
  BY <1>1, <1>2, <1>3, <1>4, SessionWakes, MessageWakes, ShellWakes DEF DaemonNext

\* The window that still waits after a message has not had the one it waits for.
LEMMA ReadSettles ==
    ASSUME IInv, ShownIsRegistered, ShownWhileActive', NEW m \in ClientMessage,
           onSubscribed(m) \/ onRegistered(m) \/ onActive(m) \/ onError(m) \/ onSession(m),
           m.type \in SessionEvents => registered,
           visible', busy', ~failed', ~(clears' > 0)
    PROVE  /\ visible /\ busy /\ shown' = shown /\ ~failed /\ ~(clears > 0)
           /\ ~Wakes(m, shown)
<1>1. \/ m.type = "session.created" /\ shown' = m.id /\ providerActive
      \/ /\ visible /\ shown' = shown
         /\ ~failed /\ ~(clears > 0)
         /\ ~IsEnd(m, shown)
  BY ReadShows
<1>2. providerActive' /\ busy \in BOOLEAN
  BY DEF ShownWhileActive, IInv, TypeOK, WindowTypeOK
<1>3. ASSUME NEW value, NEW isRegistered, setProviderActive(value, isRegistered)
      PROVE  busy' => busy
  BY <1>2, <1>3 DEF setProviderActive, providerStateChanged, windowVars
<1>4. CASE onSubscribed(m) \/ onRegistered(m) \/ onActive(m) \/ onError(m)
  <2>1. busy
    BY <1>3, <1>4 DEF onSubscribed, onRegistered, onActive, onError, windowVars
  <2>2. m.type \notin {"session.created", "session.updated"}
    BY <1>4 DEF onSubscribed, onRegistered, onActive, onError
  <2> QED
    BY <1>1, <2>1, <2>2 DEF Wakes
<1>5. CASE onSession(m)
  <2>1. providerActive /\ UNCHANGED clientVars
    BY <1>2, <1>5 DEF onSession, clientVars
  <2>2. m.type # "session.created"
    BY <1>5, <2>1 DEF onSession, sessionCreated
  <2>3. busy /\ ~(m.type = "session.updated" /\ m.id = shown)
    BY <1>2, <1>5, <2>1, <2>2 DEF onSession, sessionUpdated, sessionClosed, windowVars
  <2> QED
    BY <1>1, <2>2, <2>3 DEF Wakes
<1> QED
  BY <1>4, <1>5

\* A message of the daemon makes the client ask for the sessions at most.
LEMMA ReadAsks ==
    ASSUME IInv, NEW m,
           onSubscribed(m) \/ onRegistered(m) \/ onActive(m) \/ onError(m) \/ onSession(m),
           NEW c
    PROVE  Answered(toDaemon, c) => Answered(toDaemon', c)
<1>1. toDaemon \in Seq(DaemonMessage) /\ subscribe \in Seq(DaemonMessage)
  BY DEF IInv, MessagesTyped, subscribe, DaemonMessage
<1>2. toDaemon' = toDaemon \/ toDaemon' = toDaemon \o subscribe
  BY DEF onSubscribed, onRegistered, onActive, onError, onSession, setProviderActive,
     clientSends
<1> QED
  BY <1>1, <1>2, AskedIsAnswered

LEMMA ReadWakes ==
    ASSUME IInv, IInv', RInv, BusyInv, UNCHANGED daemonVars, clientReads
    PROVE  BusyInv'
<1> DEFINE m == Head(toClient)
           q == toClient
<1>1. /\ q # <<>> /\ toClient' = Tail(q) /\ UNCHANGED conn
      /\ onSubscribed(m) \/ onRegistered(m) \/ onActive(m) \/ onError(m) \/ onSession(m)
  BY DEF clientReads
<1>2. q \in Seq(ClientMessage)
  BY DEF IInv, MessagesTyped
<1>3. /\ m \in ClientMessage /\ m = q[1]
      /\ Len(toClient') = Len(q) - 1
      /\ \A k \in 1..Len(toClient') : toClient'[k] = q[k+1]
  BY <1>1, <1>2, HeadTailProperties
<1>4. Len(q) \in Nat /\ 1 \in 1..Len(q)
  BY <1>1, <1>2
<1> HIDE DEF m, q
<1>5. m.type \in SessionEvents => registered
  <2>1. ~\E j \in 1..(1-1) : TRUE
    OBVIOUS
  <2> QED
    BY <1>3, <1>4, <2>1 DEF IInv, EventsFollowReply, q
<1> SUFFICES ASSUME conn = "open", visible', busy', ~failed', ~(clears' > 0)
             PROVE  \/ InHand(shown)'
                    \/ Answered(toDaemon', shown')
                    \/ Woken(toClient', shown')
  BY <1>1 DEF BusyInv, InHand, Answered, Woken
<1>6. /\ visible /\ busy /\ shown' = shown /\ ~failed /\ ~(clears > 0)
      /\ ~Wakes(m, shown)
  BY <1>1, <1>3, <1>5, ReadSettles DEF IInv, RInv
<1>7. CASE InHand(shown)
  BY <1>6, <1>7 DEF InHand, daemonVars
<1>8. CASE Answered(toDaemon, shown)
  BY <1>1, <1>6, <1>8, ReadAsks
<1>9. CASE Woken(toClient, shown)
  <2>1. PICK i \in 1..Len(q) : Wakes(q[i], shown)
    BY <1>9 DEF Woken, q
  <2>2. i # 1
    BY <1>3, <1>6, <2>1
  <2>3. i - 1 \in 1..Len(toClient') /\ (i - 1) + 1 = i
    BY <1>3, <1>4, <2>2
  <2> QED
    BY <1>3, <1>6, <2>1, <2>3 DEF Woken
<1> QED
  BY <1>6, <1>7, <1>8, <1>9 DEF BusyInv

LEMMA ClickWakes ==
    ASSUME IInv, UNCHANGED daemonVars, SubmitClicked \/ CancelClicked
    PROVE  BusyInv'
<1>1. PICK m \in DaemonMessage : /\ Answers(m, shown) /\ clientSends(<<m>>)
                                 /\ UNCHANGED <<conn, shown>>
  <2>1. shown \in Ids
    BY DEF SubmitClicked, CancelClicked, IInv, TypeOK, WindowTypeOK
  <2> QED
    BY <2>1 DEF SubmitClicked, CancelClicked, Answers, DaemonMessage
<1>2. toDaemon \in Seq(DaemonMessage) /\ <<m>> \in Seq(DaemonMessage)
  BY DEF IInv, MessagesTyped
<1>3. Len(<<m>>) = 1 /\ <<m>>[1] = m /\ 1 \in 1..1
  OBVIOUS
<1>4. Answered(<<m>>, shown)
  BY <1>1, <1>3 DEF Answered
<1>5. conn = "open" => Answered(toDaemon', shown)
  BY <1>1, <1>2, <1>4, AskedIsAnswered DEF clientSends
<1> QED
  BY <1>1, <1>5 DEF BusyInv, Answered

LEMMA ClientWakes ==
    ASSUME IInv, IInv', RInv, BusyInv, UNCHANGED daemonVars, ClientNext
    PROVE  BusyInv'
<1>1. CASE connected
  <2>1. ~visible'
    BY <1>1 DEF connected, windowVars, IInv, ShownWhileActive, isConnected
  <2> QED
    BY <2>1 DEF BusyInv
<1>2. CASE disconnected
  BY <1>2 DEF disconnected, BusyInv
<1>3. CASE closeEvent \/ idleExit \/ Killed \/ delayedClear
  <2>1. ~visible'
    BY <1>3 DEF closeEvent, idleExit, Killed, ends, windowGone, delayedClear, dismiss
  <2> QED
    BY <2>1 DEF BusyInv
<1>4. CASE subscribeWatchdog
  <2> DEFINE t == IF registered THEN <<>> ELSE registerProvider
             u == IF subscribed THEN <<>> ELSE subscribe
  <2>1. toDaemon' = (toDaemon \o t) \o u
    BY <1>4 DEF subscribeWatchdog
  <2>2. toDaemon \in Seq(DaemonMessage) /\ t \in Seq(DaemonMessage) /\ u \in Seq(DaemonMessage)
    <3>1. registerProvider \in Seq(DaemonMessage) /\ subscribe \in Seq(DaemonMessage)
      BY DEF registerProvider, subscribe, DaemonMessage
    <3>2. <<>> \in Seq(DaemonMessage)
      OBVIOUS
    <3> QED
      BY <3>1, <3>2 DEF IInv, MessagesTyped
  <2> HIDE DEF t, u
  <2>3. toDaemon \o t \in Seq(DaemonMessage)
    BY <2>2, ConcatProperties
  <2>4. Answered(toDaemon, shown) => Answered(toDaemon', shown)
    BY <2>1, <2>2, <2>3, AskedIsAnswered
  <2>5. UNCHANGED <<windowVars, conn, toClient, sessions>>
    BY <1>4 DEF subscribeWatchdog, daemonVars
  <2> QED
    BY <2>4, <2>5 DEF BusyInv, InHand, Woken, Answered, windowVars
<1>5. CASE Gone
  BY <1>5 DEF Gone, BusyInv, InHand, Woken, Answered, windowVars, socketVars, daemonVars
<1> QED
  BY <1>1, <1>2, <1>3, <1>4, <1>5, ReadWakes, ClickWakes DEF ClientNext

LEMMA BusyInductive == Spec => [](IInv /\ RInv /\ BusyInv)
<1>1. Init => BusyInv
  BY DEF Init, WindowInit, BusyInv
<1>2. IInv /\ IInv' /\ RInv /\ BusyInv /\ [Next]_vars => BusyInv'
  <2> SUFFICES ASSUME IInv, IInv', RInv, BusyInv, [Next]_vars PROVE BusyInv'
    OBVIOUS
  <2>1. CASE UNCHANGED vars
    BY <2>1 DEF vars, windowVars, socketVars, daemonVars, BusyInv, InHand, Woken, Answered
  <2> QED
    BY <2>1, DaemonWakes, ClientWakes DEF Next
<1> QED
  BY <1>1, <1>2, RoleInductive, PTL DEF Spec

\* A prompt on the screen is never one that nobody will look after: it is for a
\* session that is open or shows how it ended, and if its buttons are disabled the
\* answer is unread or being verified - an update, a refusal or an end that would
\* enable them is not lost while the role moves (FallbackWindow.cpp:435-454,
\* 483-536).  What BusyEnds promises in time rests on it.
THEOREM PromptsAreUsable == Spec => []PromptIsUsable
<1>1. IInv /\ RInv /\ BusyInv => BusyIsAwaited
  <2> SUFFICES ASSUME RInv, BusyInv, visible, busy, conn = "open", toClient = <<>>
               PROVE  \/ failed \/ clears > 0
                      \/ sessions[shown] = "verifying"
                      \/ \E i \in DOMAIN toDaemon : Answers(toDaemon[i], shown)
    BY DEF BusyIsAwaited
  <2>1. ~Woken(toClient, shown)
    <3>1. Len(toClient) = 0 /\ ~\E i \in 1..0 : TRUE
      OBVIOUS
    <3> QED
      BY <3>1 DEF Woken
  <2>2. CASE Answered(toDaemon, shown)
    BY <2>2 DEF Answered
  <2> QED
    BY <2>1, <2>2, EndWakes DEF BusyInv, InHand
<1> QED
  BY <1>1, BusyInductive, NoGhosts, PTL DEF PromptIsUsable

-----------------------------------------------------------------------------
(* What a fallback that shows nothing waits for.                           *)

Asked(ms) == \E i \in 1..Len(ms) : ms[i].type = "subscribe"

\* The window has been used, and so it is either in use or counts down.
Used == visible \/ idle \/ clears > 0

ActiveIsRegistered == providerActive => registered /\ isConnected

\* The confirmation of a registered client follows the reply to its
\* registration.
ConfirmationFollowsReply ==
    \A i \in 1..Len(toClient) :
        Confirms(toClient[i]) =>
            registered \/ \E j \in 1..(i-1) : toClient[j].type = "ui.registered"

OpenIsPresented ==
    conn = "open" /\ providerActive /\ active # "shell" /\ open # {} =>
        Used \/ Asked(toDaemon) \/ Presented(toClient)

ShowInv == ActiveIsRegistered /\ ConfirmationFollowsReply /\ OpenIsPresented


LEMMA SendingKeepsOrder ==
    ASSUME IInv, ConfirmationFollowsReply, UNCHANGED registered, conn = "open", Sends
    PROVE  /\ ConfirmationFollowsReply'
           /\ Presented(toClient) => Presented(toClient')
<1> DEFINE s == toClient
<1>1. PICK ms \in Seq(ClientMessage) : daemonSends(ms) /\ (Modest(ms) \/ Told)
  BY DEF Sends
<1>2. s \in Seq(ClientMessage) /\ toClient' = s \o ms
  BY <1>1 DEF daemonSends, IInv, MessagesTyped
<1>3. /\ Len(s) \in Nat
      /\ \A i \in 1..Len(s) : i \in 1..Len(toClient') /\ toClient'[i] = s[i]
      /\ \A i \in 1..Len(toClient') : i \in 1..Len(s)
            \/ (/\ i - Len(s) \in 1..Len(ms)
                /\ toClient'[i] = ms[i - Len(s)])
  BY <1>2, Appended
<1> HIDE DEF s
<1>4. Presented(s) => Presented(toClient')
  BY <1>3 DEF Presented
<1>5. ASSUME NEW i \in 1..Len(toClient'), Confirms(toClient'[i])
      PROVE  registered \/ \E j \in 1..(i-1) : toClient'[j].type = "ui.registered"
  <2>1. CASE i \in 1..Len(s)
    <3>1. registered \/ \E j \in 1..(i-1) : s[j].type = "ui.registered"
      BY <1>3, <1>5, <2>1 DEF ConfirmationFollowsReply, s
    <3>2. \A j \in 1..(i-1) : j \in 1..Len(s)
      BY <1>3, <2>1
    <3> QED
      BY <1>3, <3>1, <3>2
  <2>2. CASE i \notin 1..Len(s) /\ Told
    <3>1. registered \/ \E j \in 1..Len(s) : s[j].type = "ui.registered"
      BY <2>2 DEF Told, Announces, s
    <3>2. \A j \in 1..Len(s) : j \in 1..(i-1)
      BY <1>3, <2>2
    <3> QED
      BY <1>3, <3>1, <3>2
  <2>3. CASE i \notin 1..Len(s) /\ Modest(ms)
    BY <1>3, <1>5, <2>3 DEF Modest
  <2> QED
    BY <1>1, <2>1, <2>2, <2>3
<1>6. ConfirmationFollowsReply'
  BY <1>5 DEF ConfirmationFollowsReply
<1> QED
  BY <1>4, <1>6 DEF s

\* The shell's role is about to be heard of.
LEMMA ShellIsHeard ==
    ASSUME RInv, conn = "open", registered, providerActive, active = "shell"
    PROVE  Presented(toClient)
<1>1. Tells(toClient, FALSE)
  BY DEF RInv, RoleIsUnderWay, Told
<1> QED
  BY <1>1 DEF Tells, Presented, Presents

LEMMA AskIsRead ==
    ASSUME IInv, toDaemon # <<>>, toDaemon' = Tail(toDaemon),
           Head(toDaemon).type # "subscribe", Asked(toDaemon)
    PROVE  Asked(toDaemon')
<1> DEFINE q == toDaemon
<1>1. q \in Seq(DaemonMessage)
  BY DEF IInv, MessagesTyped
<1>2. /\ Head(q) = q[1]
      /\ Len(toDaemon') = Len(q) - 1
      /\ \A k \in 1..Len(toDaemon') : toDaemon'[k] = q[k+1]
  BY <1>1, HeadTailProperties
<1>3. PICK i \in 1..Len(q) : q[i].type = "subscribe"
  BY DEF Asked
<1>4. q[1].type # "subscribe" /\ Len(q) \in Nat
  BY <1>1, <1>2
<1> HIDE DEF q
<1>5. i # 1
  BY <1>3, <1>4
<1>6. i - 1 \in 1..Len(toDaemon') /\ (i - 1) + 1 = i
  BY <1>2, <1>4, <1>5
<1> QED
  BY <1>2, <1>3, <1>6 DEF Asked

LEMMA AskedConcatenated ==
    ASSUME NEW s \in Seq(DaemonMessage), NEW t \in Seq(DaemonMessage)
    PROVE  /\ Asked(s) => Asked(s \o t)
           /\ Asked(t) => Asked(s \o t)
<1> DEFINE q == s \o t
<1>1. /\ Len(q) = Len(s) + Len(t)
      /\ \A i \in 1 .. Len(s) + Len(t) : q[i] = IF i <= Len(s) THEN s[i] ELSE t[i - Len(s)]
  BY ConcatProperties
<1>2. Len(s) \in Nat /\ Len(t) \in Nat
  OBVIOUS
<1> HIDE DEF q
<1>3. \A i \in 1..Len(s) : i \in 1..Len(q) /\ q[i] = s[i]
  <2>1. \A i \in 1..Len(s) : i \in 1 .. Len(s) + Len(t) /\ i <= Len(s)
    BY <1>2
  <2> QED
    BY <1>1, <2>1
<1>4. \A i \in 1..Len(t) : Len(s) + i \in 1..Len(q) /\ q[Len(s) + i] = t[i]
  <2>1. \A i \in 1..Len(t) : /\ Len(s) + i \in 1 .. Len(s) + Len(t)
                             /\ ~(Len(s) + i <= Len(s))
                             /\ (Len(s) + i) - Len(s) = i
    BY <1>2
  <2> QED
    BY <1>1, <2>1
<1>5. ASSUME Asked(s) PROVE Asked(q)
  BY <1>3, <1>5 DEF Asked
<1>6. ASSUME Asked(t) PROVE Asked(q)
  BY <1>4, <1>6 DEF Asked
<1> QED
  BY <1>5, <1>6 DEF q

\* The daemon's part in the connection, in the sessions and in what it reads.
LEMMA DaemonConnects ==
    ASSUME DaemonNext, conn \in {"none", "open", "closing", "lost"}
    PROVE  /\ \/ conn' = conn
              \/ conn = "closing" /\ conn' = "none"
              \/ conn = "open" /\ conn' = "lost"
           /\ conn' # "open" => toClient' = toClient
           /\ conn' = "open" => handleMessage \/ toDaemon' = toDaemon
<1>1. CASE onClientDisconnected \/ DaemonRestarts
  BY <1>1 DEF onClientDisconnected, DaemonRestarts, daemonHangsUp
<1>2. CASE handleMessage
  <2>1. UNCHANGED conn
    BY <1>2 DEF handleMessage
  <2>2. conn # "open" => UNCHANGED toClient
    BY <1>2 DEF handleMessage, handleUIRegister, handleSubscribe, handleRespond, handleCancel,
       refuse, closeSession, daemonSends
  <2> QED
    BY <1>2, <2>1, <2>2
<1>3. CASE \E c \in Ids : \/ createSession(c) \/ sessionUpdate(c)
                          \/ \E result \in Results : SessionEnds(c, result)
  BY <1>3 DEF createSession, sessionUpdate, SessionEnds, closeSession, daemonSends
<1>4. CASE \/ \E rank \in Ranks : ShellRegisters(rank)
           \/ ShellLeaves \/ pruneStaleProviders \/ CooldownEnds
  BY <1>4 DEF ShellRegisters, ShellLeaves, pruneStaleProviders, CooldownEnds, daemonSends
<1> QED
  BY <1>1, <1>2, <1>3, <1>4 DEF DaemonNext

LEMMA OnlyCreationOpens ==
    ASSUME IInv, DaemonNext, NEW c \in Ids, sessions[c] = "none", sessions'[c] # "none"
    PROVE  createSession(c)
<1>1. sessions \in [Ids -> {"none", "waiting", "verifying"}]
  BY DEF IInv, TypeOK, AgentTypeOK
<1>2. ASSUME NEW d \in Ids, NEW v, sessions' = [sessions EXCEPT ![d] = v],
             sessions[d] # "none" \/ v = "none" \/ d # c
      PROVE  FALSE
  BY <1>1, <1>2
<1>3. ASSUME NEW d \in Ids, createSession(d) PROVE createSession(c)
  <2>1. sessions' = [sessions EXCEPT ![d] = "waiting"]
    BY <1>3 DEF createSession
  <2>2. d = c
    BY <1>2, <2>1
  <2> QED
    BY <1>3, <2>2
<1>4. ASSUME NEW d \in Ids, sessionUpdate(d) PROVE FALSE
  <2>1. sessions' = [sessions EXCEPT ![d] = "waiting"] /\ sessions[d] # "none"
    BY <1>4 DEF sessionUpdate
  <2> QED
    BY <1>2, <2>1
<1>5. ASSUME NEW d \in Ids, NEW result, closeSession(d, result) PROVE FALSE
  <2>1. sessions' = [sessions EXCEPT ![d] = "none"]
    BY <1>5 DEF closeSession
  <2> QED
    BY <1>2, <2>1
<1>6. ASSUME NEW d \in Ids, handleRespond(d) \/ handleCancel(d) PROVE FALSE
  <2>1. CASE sessions' = [sessions EXCEPT ![d] = IF @ = "none" THEN @ ELSE "verifying"]
    BY <1>1, <2>1
  <2>2. CASE closeSession(d, "cancelled")
    BY <1>5, <2>2
  <2>3. CASE UNCHANGED sessions
    BY <2>3
  <2> QED
    BY <1>6, <2>1, <2>2, <2>3 DEF handleRespond, handleCancel
<1>7. CASE handleMessage
  <2> DEFINE m == Head(toDaemon)
  <2>1. /\ toDaemon # <<>>
        /\ \/ m.type = "ui.register" /\ handleUIRegister
           \/ m.type = "subscribe" /\ handleSubscribe
           \/ m.type = "session.respond" /\ handleRespond(m.id)
           \/ m.type = "session.cancel" /\ handleCancel(m.id)
    BY <1>7 DEF handleMessage
  <2>2. m \in DaemonMessage
    BY <2>1 DEF IInv, MessagesTyped
  <2> HIDE DEF m
  <2>3. m.type \in {"session.respond", "session.cancel"} => m.id \in Ids
    BY <2>2 DEF DaemonMessage
  <2>4. ~handleUIRegister /\ ~handleSubscribe
    BY DEF handleUIRegister, handleSubscribe
  <2> QED
    BY <1>6, <2>1, <2>3, <2>4
<1>8. CASE DaemonRestarts
  BY <1>8 DEF DaemonRestarts
<1>9. CASE UNCHANGED sessions
  BY <1>9
<1> QED
  BY <1>3, <1>4, <1>5, <1>7, <1>8, <1>9 DEF DaemonNext, SessionEnds, onClientDisconnected,
     ShellRegisters, ShellLeaves, pruneStaleProviders, CooldownEnds

LEMMA CreationPresents ==
    ASSUME IInv, RInv, conn = "open", registered, active # "shell",
           NEW c \in Ids, createSession(c)
    PROVE  Presented(toClient')
<1> DEFINE event == [type |-> "session.created", id |-> c]
<1>1. routed(event, active) = <<event>>
  <2>1. CASE active = "none"
    BY <2>1 DEF RInv, ToldIsListed, RoleIsFilled, Told, routed
  <2>2. CASE active = "fallback"
    BY <2>2 DEF routed
  <2> QED
    BY <2>1, <2>2 DEF IInv, TypeOK, AgentTypeOK, UIs
<1>2. toClient' = toClient \o <<event>> /\ toClient \in Seq(ClientMessage)
  BY <1>1 DEF createSession, daemonSends, IInv, MessagesTyped
<1>3. event \in ClientMessage /\ Presents(event)
  BY DEF ClientMessage, Presents
<1> HIDE DEF event
<1>4. <<event>> \in Seq(ClientMessage) /\ 1 \in 1..Len(<<event>>) /\ <<event>>[1] = event
  BY <1>3, OneMessage
<1>5. Len(toClient) + 1 \in 1..Len(toClient') /\ toClient'[Len(toClient) + 1] = event
  BY <1>2, <1>4, Appended
<1> QED
  BY <1>3, <1>5 DEF Presented

LEMMA DaemonPresents ==
    ASSUME IInv, RInv, ShowInv, UNCHANGED <<clientVars, windowVars>>, DaemonNext
    PROVE  ShowInv'
<1>1. UNCHANGED <<registered, providerActive, visible, idle, clears>>
  BY DEF clientVars, windowVars
<1>2. /\ \/ conn' = conn
         \/ conn = "closing" /\ conn' = "none"
         \/ conn = "open" /\ conn' = "lost"
      /\ conn' # "open" => toClient' = toClient
      /\ conn' = "open" => handleMessage \/ toDaemon' = toDaemon
  BY DaemonConnects DEF IInv, TypeOK
<1>3. ActiveIsRegistered'
  BY <1>1, <1>2 DEF ShowInv, ActiveIsRegistered, isConnected
<1>4. CASE conn' # "open"
  BY <1>1, <1>2, <1>3, <1>4 DEF ShowInv, ConfirmationFollowsReply, OpenIsPresented
<1>5. CASE conn' = "open"
  <2>1. conn = "open"
    BY <1>2, <1>5
  <2>2. /\ ConfirmationFollowsReply'
        /\ Presented(toClient) => Presented(toClient')
    BY <1>1, <1>5, <2>1, DaemonIsModest, SendingKeepsOrder DEF ShowInv
  <2>3. OpenIsPresented'
    <3> SUFFICES ASSUME providerActive, active' # "shell", open' # {}, ~Used
                 PROVE  Asked(toDaemon') \/ Presented(toClient')
      BY <1>1 DEF OpenIsPresented, Used, Asked, Presented
    <3>1. registered
      BY DEF ShowInv, ActiveIsRegistered
    <3>2. CASE active = "shell"
      BY <2>1, <2>2, <3>1, <3>2, ShellIsHeard
    <3>3. CASE active # "shell" /\ open = {}
      <4>1. PICK c \in Ids : sessions[c] = "none" /\ sessions'[c] # "none"
        BY <3>3 DEF open
      <4> QED
        BY <2>1, <3>1, <3>3, <4>1, OnlyCreationOpens, CreationPresents
    <3>4. CASE active # "shell" /\ open # {}
      <4>1. CASE Asked(toDaemon) /\ handleMessage
        <5>1. toDaemon # <<>> /\ toDaemon' = Tail(toDaemon)
          BY <4>1 DEF handleMessage
        <5>2. CASE Head(toDaemon).type = "subscribe"
          <6>1. handleSubscribe
            BY <4>1, <5>2 DEF handleMessage
          <6> QED
            BY <2>1, <3>4, <6>1, SubscribeIsModest
        <5> QED
          BY <4>1, <5>1, <5>2, AskIsRead
      <4> QED
        BY <1>2, <1>5, <2>1, <2>2, <3>4, <4>1 DEF ShowInv, OpenIsPresented, Asked
    <3> QED
      BY <3>2, <3>3, <3>4
  <2> QED
    BY <1>3, <2>2, <2>3 DEF ShowInv
<1> QED
  BY <1>4, <1>5

-----------------------------------------------------------------------------

\* A window that has been used is hidden only to count down.
LEMMA UsedStaysUsed ==
    ASSUME IInv, NEW m,
           onSubscribed(m) \/ onRegistered(m) \/ onActive(m) \/ onError(m) \/ onSession(m),
           Used
    PROVE  Used'
<1>1. clears \in Nat
  BY DEF IInv, TypeOK, WindowTypeOK
<1>2. ASSUME NEW value, NEW isRegistered, setProviderActive(value, isRegistered)
      PROVE  Used'
  BY <1>2 DEF setProviderActive, providerStateChanged, dismiss, windowVars, Used
<1>3. CASE onSubscribed(m) \/ onRegistered(m) \/ onActive(m) \/ onError(m)
  BY <1>2, <1>3 DEF onSubscribed, onRegistered, onActive, onError, windowVars, Used
<1>4. CASE onSession(m)
  <2>1. CASE UNCHANGED windowVars
    BY <2>1 DEF windowVars, Used
  <2>2. CASE \E c, result : sessionClosed(c, result)
    BY <1>1, <2>2 DEF sessionClosed, dismiss, windowVars, Used
  <2>3. CASE \E c : sessionCreated(c) \/ sessionUpdated(c)
    BY <2>3 DEF sessionCreated, sessionUpdated, Used
  <2> QED
    BY <1>4, <2>1, <2>2, <2>3 DEF onSession
<1> QED
  BY <1>3, <1>4

\* A client that gets the role asks for what is open; one that has it shows what
\* it is brought, and counts down when it loses it.
LEMMA ReadAnswers ==
    ASSUME IInv, ActiveIsRegistered, NEW m \in ClientMessage, conn = "open",
           onSubscribed(m) \/ onRegistered(m) \/ onActive(m) \/ onError(m) \/ onSession(m),
           Confirms(m) => registered,
           providerActive', ~Used'
    PROVE  /\ providerActive => ~Presents(m) /\ (Asked(toDaemon) => Asked(toDaemon'))
           /\ ~providerActive => Asked(toDaemon')
           /\ registered'
<1>1. /\ Decides(m) /\ registered' => (providerActive' <=> Says(m))
      /\ ~Decides(m) => (providerActive' <=> providerActive)
      /\ registered' = (registered \/ m.type = "ui.registered")
  BY ReadDecides
<1>2. toDaemon \in Seq(DaemonMessage) /\ subscribe \in Seq(DaemonMessage)
      /\ registered \in BOOLEAN /\ providerActive \in BOOLEAN
  BY DEF IInv, MessagesTyped, subscribe, DaemonMessage, TypeOK, ClientTypeOK
<1>3. toDaemon' = toDaemon \/ toDaemon' = toDaemon \o subscribe
  BY DEF onSubscribed, onRegistered, onActive, onError, onSession, setProviderActive,
     clientSends
<1>4. Asked(toDaemon) => Asked(toDaemon')
  BY <1>2, <1>3, AskedConcatenated
<1>5. ASSUME providerActive PROVE ~Presents(m) /\ registered'
  <2>1. registered /\ registered'
    BY <1>1, <1>5 DEF ActiveIsRegistered
  <2>2. ~(Decides(m) /\ ~Says(m))
    BY <1>1, <2>1
  <2>3. ASSUME m.type = "session.created" PROVE FALSE
    <3>1. sessionCreated(m.id)
      BY <1>5, <2>3 DEF onSession, onSubscribed, onRegistered, onActive, onError
    <3> QED
      BY <3>1 DEF sessionCreated, Used
  <2> QED
    BY <2>1, <2>2, <2>3 DEF Presents
<1>6. ASSUME ~providerActive PROVE Asked(toDaemon') /\ registered'
  <2>1. ~onSession(m) /\ ~onError(m)
    BY <1>6 DEF onSession, onError, clientVars, setProviderActive
  <2>2. \E isRegistered \in {registered, TRUE} :
           setProviderActive(TRUE, isRegistered) /\ (registered \/ isRegistered) /\ registered'
    <3>1. CASE onSubscribed(m)
      <4>1. m.type = "subscribed" /\ m.registered /\ setProviderActive(m.active, registered)
        BY <1>6, <3>1 DEF onSubscribed
      <4>2. m.active = TRUE
        <5>1. providerActive' = m.active /\ m.active \in BOOLEAN
          BY <4>1 DEF setProviderActive, ClientMessage
        <5> QED
          BY <5>1
      <4> QED
        BY <1>1, <4>1, <4>2 DEF Confirms
    <3>2. CASE onRegistered(m)
      <4>1. m.type = "ui.registered" /\ registered' /\ setProviderActive(m.active, TRUE)
        BY <3>2 DEF onRegistered
      <4>2. m.active = TRUE
        <5>1. providerActive' = m.active /\ m.active \in BOOLEAN
          BY <4>1 DEF setProviderActive, ClientMessage
        <5> QED
          BY <5>1
      <4> QED
        BY <4>1, <4>2
    <3>3. CASE onActive(m)
      <4>1. registered /\ setProviderActive(m.who # "shell", TRUE)
        BY <1>2, <1>6, <3>3 DEF onActive
      <4>2. (m.who # "shell") = TRUE
        BY <4>1 DEF setProviderActive
      <4> QED
        BY <1>1, <4>1, <4>2
    <3> QED
      BY <2>1, <3>1, <3>2, <3>3
  <2>3. PICK isRegistered : setProviderActive(TRUE, isRegistered) /\ isRegistered /\ registered'
    BY <1>2, <2>2
  <2>4. toDaemon' = toDaemon \o subscribe
    BY <1>2, <1>6, <2>3 DEF setProviderActive, clientSends
  <2>5. Asked(subscribe)
    <3>1. Len(subscribe) = 1 /\ subscribe[1].type = "subscribe" /\ 1 \in 1..1
      BY DEF subscribe
    <3> QED
      BY <3>1 DEF Asked
  <2> QED
    BY <1>2, <2>3, <2>4, <2>5, AskedConcatenated
<1> QED
  BY <1>2, <1>4, <1>5, <1>6

LEMMA ReadPresents ==
    ASSUME IInv, ShowInv, UNCHANGED daemonVars, clientReads
    PROVE  ShowInv'
<1> DEFINE m == Head(toClient)
           q == toClient
<1>1. /\ q # <<>> /\ toClient' = Tail(q) /\ UNCHANGED conn /\ isConnected
      /\ onSubscribed(m) \/ onRegistered(m) \/ onActive(m) \/ onError(m) \/ onSession(m)
  BY DEF clientReads
<1>2. q \in Seq(ClientMessage)
  BY DEF IInv, MessagesTyped
<1>3. /\ m \in ClientMessage /\ m = q[1]
      /\ Len(toClient') = Len(q) - 1
      /\ \A k \in 1..Len(toClient') : toClient'[k] = q[k+1]
  BY <1>1, <1>2, HeadTailProperties
<1>4. Len(q) \in Nat /\ 1 \in 1..Len(q)
  BY <1>1, <1>2
<1> HIDE DEF m, q
<1>5. Confirms(m) => registered
  <2>1. ~\E j \in 1..(1-1) : TRUE
    OBVIOUS
  <2> QED
    BY <1>3, <1>4, <2>1 DEF ShowInv, ConfirmationFollowsReply, q
<1>6. /\ Decides(m) /\ registered' => (providerActive' <=> Says(m))
      /\ ~Decides(m) => (providerActive' <=> providerActive)
      /\ registered' = (registered \/ m.type = "ui.registered")
  BY <1>1, <1>3, ReadDecides
<1>7. ActiveIsRegistered'
  <2>1. isConnected'
    BY <1>1 DEF isConnected
  <2>2. ASSUME providerActive', ~registered' PROVE FALSE
    <3>1. ~registered /\ m.type # "ui.registered"
      BY <1>6, <2>2
    <3>2. ~providerActive
      BY <3>1 DEF ShowInv, ActiveIsRegistered
    <3>3. Decides(m)
      BY <1>6, <2>2, <3>2
    <3>4. m.type \in {"ui.active", "error"}
      BY <1>5, <3>1, <3>3 DEF Decides, Confirms
    <3>5. onActive(m) \/ onError(m)
      BY <1>1, <3>4 DEF onSubscribed, onRegistered, onSession
    <3> QED
      BY <2>2, <3>1, <3>2, <3>5 DEF onActive, onError, setProviderActive
  <2> QED
    BY <2>1, <2>2 DEF ActiveIsRegistered
<1>8. ConfirmationFollowsReply'
  <2> SUFFICES ASSUME NEW i \in 1..Len(toClient'), Confirms(toClient'[i]), ~registered'
               PROVE  \E j \in 1..(i-1) : toClient'[j].type = "ui.registered"
    BY DEF ConfirmationFollowsReply
  <2>1. i + 1 \in 1..Len(q) /\ q[i+1] = toClient'[i]
    BY <1>3, <1>4
  <2>2. \E j \in 1..((i+1)-1) : q[j].type = "ui.registered"
    BY <1>6, <2>1 DEF ShowInv, ConfirmationFollowsReply, q
  <2>3. PICK j \in 1..i : q[j].type = "ui.registered"
    BY <2>2
  <2>4. j # 1
    BY <1>3, <1>6, <2>3
  <2>5. j - 1 \in 1..(i-1) /\ j - 1 \in 1..Len(toClient') /\ (j-1)+1 = j
    BY <1>3, <1>4, <2>1, <2>4
  <2> QED
    BY <1>3, <2>3, <2>5
<1>9. OpenIsPresented'
  <2> SUFFICES ASSUME conn = "open", providerActive', active # "shell", open # {}, ~Used'
               PROVE  Asked(toDaemon') \/ Presented(toClient')
    BY <1>1 DEF OpenIsPresented, Used, Asked, Presented, open, daemonVars
  <2>1. /\ providerActive => ~Presents(m) /\ (Asked(toDaemon) => Asked(toDaemon'))
        /\ ~providerActive => Asked(toDaemon')
    BY <1>1, <1>3, <1>5, ReadAnswers DEF ShowInv
  <2>2. ~Used
    BY <1>1, UsedStaysUsed
  <2>3. CASE providerActive /\ Presented(toClient)
    <3>1. PICK i \in 1..Len(q) : Presents(q[i])
      BY <2>3 DEF Presented, q
    <3>2. i # 1
      BY <1>3, <2>1, <2>3, <3>1
    <3>3. i - 1 \in 1..Len(toClient') /\ (i-1)+1 = i
      BY <1>3, <1>4, <3>2
    <3> QED
      BY <1>3, <3>1, <3>3 DEF Presented
  <2> QED
    BY <2>1, <2>2, <2>3 DEF ShowInv, OpenIsPresented
<1> QED
  BY <1>7, <1>8, <1>9 DEF ShowInv

LEMMA ClientPresents ==
    ASSUME IInv, ShowInv, UNCHANGED daemonVars, ClientNext
    PROVE  ShowInv'
<1>1. CASE connected
  <2>1. ~providerActive' /\ UNCHANGED toClient /\ toClient = <<>>
    BY <1>1 DEF connected, ShowInv, ActiveIsRegistered, isConnected, IInv,
       HungUpReadsNothing, TypeOK, ClientTypeOK
  <2>2. \A i \in 1..Len(<<>>) : FALSE
    OBVIOUS
  <2> QED
    BY <2>1, <2>2 DEF ShowInv, ActiveIsRegistered, ConfirmationFollowsReply, OpenIsPresented
<1>2. CASE disconnected \/ closeEvent \/ idleExit \/ Killed
  <2>1. ~providerActive' /\ toClient' = <<>>
    BY <1>2 DEF disconnected, closeEvent, idleExit, Killed, ends, clientGone, clientHangsUp
  <2>2. \A i \in 1..Len(<<>>) : FALSE
    OBVIOUS
  <2> QED
    BY <2>1, <2>2 DEF ShowInv, ActiveIsRegistered, ConfirmationFollowsReply, OpenIsPresented
<1>3. ASSUME UNCHANGED <<registered, providerActive, conn, toClient>>,
             Used => Used', Asked(toDaemon) => Asked(toDaemon')
      PROVE  ShowInv'
  BY <1>3 DEF ShowInv, ActiveIsRegistered, isConnected, ConfirmationFollowsReply,
     OpenIsPresented, Presented, open, daemonVars
<1>4. CASE delayedClear
  BY <1>3, <1>4 DEF delayedClear, dismiss, clientVars, Used, Asked
<1>5. ASSUME NEW t \in Seq(DaemonMessage), toDaemon' = toDaemon \o t \/ toDaemon' = toDaemon
      PROVE  Asked(toDaemon) => Asked(toDaemon')
  BY <1>5, AskedConcatenated DEF IInv, MessagesTyped
<1>6. CASE SubmitClicked \/ CancelClicked
  <2> DEFINE answer(type) == [type |-> type, id |-> shown]
  <2>1. answer("session.respond") \in DaemonMessage /\ answer("session.cancel") \in DaemonMessage
    <3>1. shown \in Ids
      BY <1>6 DEF SubmitClicked, CancelClicked, IInv, TypeOK, WindowTypeOK
    <3> QED
      BY <3>1 DEF DaemonMessage
  <2>2. \E m \in DaemonMessage : clientSends(<<m>>)
    <3>1. \/ clientSends(<<answer("session.respond")>>)
          \/ clientSends(<<answer("session.cancel")>>)
      BY <1>6 DEF SubmitClicked, CancelClicked
    <3> HIDE DEF answer
    <3> QED
      BY <2>1, <3>1
  <2>3. Asked(toDaemon) => Asked(toDaemon')
    <3>1. PICK m \in DaemonMessage : toDaemon' = toDaemon \o <<m>> \/ toDaemon' = toDaemon
      BY <2>2 DEF clientSends
    <3>2. <<m>> \in Seq(DaemonMessage)
      OBVIOUS
    <3> QED
      BY <1>5, <3>1, <3>2
  <2> QED
    BY <1>3, <1>6, <2>3 DEF SubmitClicked, CancelClicked, clientVars, Used
<1>7. CASE subscribeWatchdog
  <2> DEFINE t == IF registered THEN <<>> ELSE registerProvider
             u == IF subscribed THEN <<>> ELSE subscribe
  <2>1. toDaemon' = (toDaemon \o t) \o u
    BY <1>7 DEF subscribeWatchdog
  <2>2. t \in Seq(DaemonMessage) /\ u \in Seq(DaemonMessage)
    <3>1. registerProvider \in Seq(DaemonMessage) /\ subscribe \in Seq(DaemonMessage)
      BY DEF registerProvider, subscribe, DaemonMessage
    <3>2. <<>> \in Seq(DaemonMessage)
      OBVIOUS
    <3> QED
      BY <3>1, <3>2
  <2> HIDE DEF t, u
  <2>3. toDaemon \in Seq(DaemonMessage) /\ toDaemon \o t \in Seq(DaemonMessage)
    BY <2>2, ConcatProperties DEF IInv, MessagesTyped
  <2>4. Asked(toDaemon) => Asked(toDaemon')
    BY <2>1, <2>2, <2>3, AskedConcatenated
  <2> QED
    BY <1>3, <1>7, <2>4 DEF subscribeWatchdog, clientVars, windowVars, Used
<1>8. CASE Gone
  BY <1>3, <1>8 DEF Gone, socketVars, clientVars, windowVars, Used
<1> QED
  BY <1>1, <1>2, <1>4, <1>6, <1>7, <1>8, ReadPresents DEF ClientNext

LEMMA ShowInductive == Spec => [](IInv /\ RInv /\ ShowInv)
<1>1. Init => ShowInv
  <2>1. \A i \in 1..Len(<<>>) : FALSE
    OBVIOUS
  <2> QED
    BY <2>1 DEF Init, ClientInit, ShowInv, ActiveIsRegistered, ConfirmationFollowsReply,
       OpenIsPresented
<1>2. IInv /\ RInv /\ ShowInv /\ [Next]_vars => ShowInv'
  <2> SUFFICES ASSUME IInv, RInv, ShowInv, [Next]_vars PROVE ShowInv'
    OBVIOUS
  <2>1. CASE UNCHANGED vars
    BY <2>1 DEF vars, clientVars, windowVars, socketVars, daemonVars, ShowInv,
       ActiveIsRegistered, isConnected, ConfirmationFollowsReply, OpenIsPresented, Used,
       Asked, Presented, open
  <2> QED
    BY <2>1, DaemonPresents, ClientPresents DEF Next
<1> QED
  BY <1>1, <1>2, RoleInductive, PTL DEF Spec

\* The countdown runs only over an empty window, and over every window that
\* leaves an open session unseen when nothing is under way: a session is not
\* forgotten between the launch, a subscription that is refused the sessions, a
\* role that comes later and the events that are routed by it (Agent.cpp:290-333,
\* FallbackClient.cpp:191-257, FallbackWindow.cpp:469-481).  What SomebodySees
\* promises in time rests on it.
THEOREM NobodyIsForgotten == Spec => []CountdownFits
<1>1. IInv /\ RInv /\ ShowInv => OpenIsShown
  <2> SUFFICES ASSUME RInv, ShowInv, conn = "open", registered, toDaemon = <<>>,
                      toClient = <<>>, active # "shell", open # {}
               PROVE  visible \/ idle \/ clears > 0
    BY DEF OpenIsShown
  <2>1. \A i \in 1..Len(<<>>) : FALSE
    OBVIOUS
  <2>2. ~Asked(toDaemon) /\ ~Presented(toClient)
    BY <2>1 DEF Asked, Presented
  <2>3. providerActive
    BY <2>1 DEF RInv, RoleIsUnderWay, Tells, Told
  <2> QED
    BY <2>2, <2>3 DEF ShowInv, OpenIsPresented, Used
<1> QED
  BY <1>1, ShowInductive, CountdownSparesPrompts, PTL DEF CountdownFits
=============================================================================
