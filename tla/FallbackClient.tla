--------------------------- MODULE FallbackClient ---------------------------
(***************************************************************************)
(* The fallback's connection to the daemon (src/fallback/FallbackClient.cpp)*)
(* in front of its window: registration, subscription and what it believes *)
(* of its role.  A signal of the client runs the window's slot at once.    *)
(***************************************************************************)
EXTENDS FallbackWindow

VARIABLES
    registered,     \* m_registered
    subscribed,     \* m_subscribed
    providerActive  \* m_providerActive

clientVars == <<registered, subscribed, providerActive>>

ClientTypeOK ==
    /\ registered \in BOOLEAN
    /\ subscribed \in BOOLEAN
    /\ providerActive \in BOOLEAN

ClientInit == registered = FALSE /\ subscribed = FALSE /\ providerActive = FALSE

clientGone == registered' = FALSE /\ subscribed' = FALSE /\ providerActive' = FALSE

isConnected == conn \in {"open", "lost"}

registerProvider == <<[type |-> "ui.register"]>>
subscribe        == <<[type |-> "subscribe"]>>

\* Mutant: it waits for the next session instead.
setProviderActiveOnly(value, isRegistered) ==
    /\ providerActive' = value
    /\ IF value # providerActive THEN providerStateChanged(value) ELSE UNCHANGED windowVars
    /\ UNCHANGED toDaemon

\* A client that gets the role asks for the sessions that are already open.
setProviderActive(value, isRegistered) ==
    /\ providerActive' = value
    /\ IF value # providerActive
       THEN /\ providerStateChanged(value)
            /\ IF value /\ isRegistered THEN clientSends(subscribe) ELSE UNCHANGED toDaemon
       ELSE UNCHANGED <<windowVars, toDaemon>>

-----------------------------------------------------------------------------
(* The connection.                                                         *)

\* Mutant: it subscribes first.
connectedUnregistered ==
    /\ proc = "running" /\ conn = "none"
    /\ conn' = "open"
    /\ toDaemon' = subscribe \o registerProvider
    /\ registered' = FALSE
    /\ subscribed' = FALSE
    /\ UNCHANGED <<providerActive, windowVars, proc, toClient>>

\* setProviderActive(false) changes nothing here: disconnected has done it.
connected ==
    /\ proc = "running" /\ conn = "none"
    /\ conn' = "open"
    /\ toDaemon' = registerProvider \o subscribe
    /\ registered' = FALSE
    /\ subscribed' = FALSE
    /\ UNCHANGED <<providerActive, windowVars, proc, toClient>>

\* What the daemon sent before it went is read first.
disconnected ==
    /\ conn = "lost"
    /\ toClient = <<>>
    /\ conn' = "none"
    /\ registered' = FALSE
    /\ subscribed' = FALSE
    /\ providerActive' = FALSE
    /\ IF providerActive
       THEN dismiss /\ UNCHANGED clears
       ELSE UNCHANGED <<shown, visible, idle, clears, failed>>
    /\ busy' = TRUE
    /\ UNCHANGED <<proc, toDaemon, toClient>>

\* Every 1.2 s it asks again for what has not been confirmed.
subscribeWatchdog ==
    /\ conn = "open"
    /\ ~registered \/ ~subscribed
    /\ Len(toDaemon) < MaxUnsent
    /\ toDaemon' = toDaemon \o (IF registered THEN <<>> ELSE registerProvider)
                            \o (IF subscribed THEN <<>> ELSE subscribe)
    /\ UNCHANGED <<clientVars, windowVars, proc, conn, toClient>>

-----------------------------------------------------------------------------
(* handleMessage.                                                          *)

onSubscribed(m) ==
    /\ m.type = "subscribed"
    /\ subscribed' = TRUE
    /\ UNCHANGED registered
    /\ IF m.registered
       THEN setProviderActive(m.active, registered)
       ELSE UNCHANGED <<providerActive, windowVars, toDaemon>>

onRegistered(m) ==
    /\ m.type = "ui.registered"
    /\ registered' = TRUE
    /\ UNCHANGED subscribed
    /\ setProviderActive(m.active, TRUE)

\* What arrives before ui.registered is kept for it, and then overridden by
\* the role that ui.registered itself carries.
onActive(m) ==
    /\ m.type = "ui.active"
    /\ UNCHANGED <<registered, subscribed>>
    /\ IF registered
       THEN setProviderActive(m.who # "shell", TRUE)
       ELSE UNCHANGED <<providerActive, windowVars, toDaemon>>

\* "Not active UI provider".
onError(m) ==
    /\ m.type = "error"
    /\ UNCHANGED <<registered, subscribed>>
    /\ setProviderActive(FALSE, registered)

onSession(m) ==
    /\ UNCHANGED <<clientVars, toDaemon>>
    /\ \/ registered /\ ~providerActive
          /\ m.type \in {"session.created", "session.updated", "session.closed"}
          /\ UNCHANGED windowVars
       \/ /\ ~registered \/ providerActive
          /\ \/ m.type = "session.created" /\ sessionCreated(m.id)
             \/ m.type = "session.updated" /\ sessionUpdated(m.id)
             \/ m.type = "session.closed"  /\ sessionClosed(m.id, m.result)

clientReads ==
    /\ isConnected
    /\ toClient # <<>>
    /\ toClient' = Tail(toClient)
    /\ UNCHANGED <<proc, conn>>
    /\ LET m == Head(toClient)
       IN  onSubscribed(m) \/ onRegistered(m) \/ onActive(m) \/ onError(m) \/ onSession(m)

-----------------------------------------------------------------------------
(* The user, the timers and the end of the process.                        *)

SubmitClicked ==
    /\ visible /\ shown # NoId /\ ~busy
    /\ Len(toDaemon) < MaxUnsent
    /\ clientSends(<<[type |-> "session.respond", id |-> shown]>>)
    /\ busy' = TRUE
    /\ UNCHANGED <<shown, visible, idle, clears, failed, clientVars, proc, conn, toClient>>

CancelClicked ==
    /\ visible /\ shown # NoId /\ ~busy
    /\ Len(toDaemon) < MaxUnsent
    /\ clientSends(<<[type |-> "session.cancel", id |-> shown]>>)
    /\ busy' = TRUE
    /\ UNCHANGED <<shown, visible, idle, clears, failed, clientVars, proc, conn, toClient>>

\* The delayed clear of a session that ended well.
delayedClear ==
    /\ clears > 0
    /\ clears' = clears - 1
    /\ dismiss
    /\ busy' = FALSE
    /\ UNCHANGED <<clientVars, proc, conn, toDaemon, toClient>>

ends(state, lastWords) ==
    /\ proc = "running"
    /\ proc' = state
    /\ clientHangsUp(lastWords)
    /\ clientGone
    /\ windowGone

\* The window manager closes the window, and with the last window the process
\* ends.
closeEvent ==
    /\ visible
    /\ Len(toDaemon) < MaxUnsent
    /\ ends("exiting", IF shown = NoId THEN <<>>
                       ELSE <<[type |-> "session.cancel", id |-> shown]>>)

\* The idle timer runs for seconds, the delayed clears for 300 ms.
idleExit == idle /\ clears = 0 /\ ends("exiting", <<>>)

Killed == ends("none", <<>>)

Gone ==
    /\ proc = "exiting"
    /\ proc' = "none"
    /\ UNCHANGED <<socketVars, clientVars, windowVars>>
=============================================================================
