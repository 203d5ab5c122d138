------------------------------ MODULE Fallback ------------------------------
(***************************************************************************)
(* The daemon and its fallback UI together: AgentUI and FallbackClient     *)
(* with its window, on one connection.  One action is one callback of      *)
(* either event loop, run to its end.                                      *)
(***************************************************************************)
EXTENDS AgentUI, FallbackClient

CONSTANT
    MaxClears     \* bound: successes shown at the same time

vars == <<daemonVars, proc, socketVars, clientVars, windowVars>>

Results == {"success", "cancelled", "error"}

TypeOK ==
    /\ AgentTypeOK
    /\ ClientTypeOK
    /\ WindowTypeOK
    /\ proc \in {"none", "running", "exiting"}
    /\ conn \in {"none", "open", "closing", "lost"}

Init ==
    /\ AgentInit
    /\ ClientInit
    /\ WindowInit
    /\ proc = "none"
    /\ conn = "none"
    /\ toDaemon = <<>>
    /\ toClient = <<>>

\* Successes of shown sessions that are on their way or still displayed.
Successes ==
    clears + Cardinality({i \in DOMAIN toClient : toClient[i].type = "session.closed"})

DaemonNext ==
    \/ \E c \in Ids :
          \/ createSession(c)
          \/ sessionUpdate(c)
          \/ \E result \in Results :
                (result = "success" => Successes < MaxClears) /\ SessionEnds(c, result)
    \/ handleMessage
    \/ onClientDisconnected
    \/ \E rank \in Ranks : ShellRegisters(rank)
    \/ ShellLeaves
    \/ pruneStaleProviders
    \/ CooldownEnds
    \/ DaemonRestarts

ClientNext ==
    \/ connected
    \/ disconnected
    \/ subscribeWatchdog
    \/ clientReads
    \/ SubmitClicked
    \/ CancelClicked
    \/ delayedClear
    \/ closeEvent
    \/ idleExit
    \/ Killed
    \/ Gone

Next ==
    \/ DaemonNext /\ UNCHANGED <<clientVars, windowVars>>
    \/ ClientNext /\ UNCHANGED daemonVars

Spec == Init /\ [][Next]_vars

\* Both event loops deliver what is due.  Nobody has to answer a session, to say
\* what an answer was worth, or to keep a UI running.
Fairness ==
    /\ SF_vars(handleMessage /\ UNCHANGED <<clientVars, windowVars>>)
    /\ WF_vars(onClientDisconnected /\ UNCHANGED <<clientVars, windowVars>>)
    /\ SF_vars(pruneStaleProviders /\ UNCHANGED <<clientVars, windowVars>>)
    /\ WF_vars(CooldownEnds /\ UNCHANGED <<clientVars, windowVars>>)
    /\ WF_vars(connected /\ UNCHANGED daemonVars)
    /\ WF_vars(disconnected /\ UNCHANGED daemonVars)
    /\ WF_vars(clientReads /\ UNCHANGED daemonVars)
    /\ WF_vars(delayedClear /\ UNCHANGED daemonVars)
    /\ WF_vars(idleExit /\ UNCHANGED daemonVars)
    /\ WF_vars(Gone /\ UNCHANGED daemonVars)

FairSpec == Spec /\ Fairness

-----------------------------------------------------------------------------
(* What daemon and fallback promise together.                              *)

\* Only the provider whose turn it is asks for a password: a visible prompt
\* belongs to a client that believes it has the role and has a connection, or
\* that is about to learn that the connection is gone (FallbackWindow.cpp:469-481,
\* FallbackClient.cpp:26-44).
ShownWhileActive == visible => providerActive /\ isConnected /\ shown # NoId

\* When nothing is under way, the fallback knows whether another UI has the
\* role, also when the daemon has dropped it from the registry meanwhile
\* (Agent.cpp:520-542, FallbackClient.cpp:191-257).
KnowsItsRole ==
    conn = "open" /\ registered /\ toDaemon = <<>> /\ toClient = <<>>
        => (providerActive <=> active # "shell")

\* A prompt on the screen is one that can be answered: its session is open, or
\* its end is displayed or still to be read (Agent.cpp:484-501).
NoGhostPrompt ==
    visible /\ conn = "open" /\ toClient = <<>>
        => sessions[shown] # "none" \/ failed \/ clears > 0

\* The answer to session c, on its way to the daemon.
Answers(m, c) == m.type \in {"session.respond", "session.cancel"} /\ m.id = c

\* Buttons that are disabled wait for something: the answer is unread, or is
\* being verified, or the end of the session is displayed
\* (FallbackWindow.cpp:435-454, 483-536).
BusyIsAwaited ==
    visible /\ busy /\ conn = "open" /\ toClient = <<>> =>
        \/ failed \/ clears > 0
        \/ sessions[shown] = "verifying"
        \/ \E i \in DOMAIN toDaemon : Answers(toDaemon[i], shown)

\* The user can act on a prompt, or something will come of it.
PromptIsUsable == NoGhostPrompt /\ BusyIsAwaited

\* The countdown to the exit never takes a prompt from the screen
\* (FallbackWindow.cpp:407-413, 536, 972-984).
IdleIsHidden == idle => ~visible /\ shown = NoId

\* When nothing is under way and the role is not the shell's, a fallback that
\* shows none of the open sessions is about to make way for one that will
\* (Agent.cpp:290-333, FallbackClient.cpp:191-257, FallbackWindow.cpp:469-481).
OpenIsShown ==
    conn = "open" /\ registered /\ toDaemon = <<>> /\ toClient = <<>> =>
        active = "shell" \/ open = {} \/ visible \/ idle \/ clears > 0

\* The countdown runs where, and only where, there is nothing to see.
CountdownFits == IdleIsHidden /\ OpenIsShown

\* The registry as it is driven here keeps the promise of ProviderRole.
Role == INSTANCE ProviderRole
            WITH Priorities <- Ranks \cup {FallbackRank}, Nobody <- "none",
                 priority <- providers, holder <- active

AgentImplementsRole == Role!Spec

\* An open session comes before the user's eyes, whatever is launched, pruned
\* or exits at that moment, unless the shell has the role or the window still
\* shows an error - provided requests stop coming and nobody kills the
\* fallback (Agent.cpp:449-455, 512-518, 544-585).
Settled == <>[][/\ ~\E c \in Ids : createSession(c)
                /\ ~Killed]_vars

Seen ==
    \/ open = {}
    \/ visible /\ (sessions[shown] # "none" \/ failed)
    \/ active = "shell"

SomebodySees == Settled => (~Seen ~> Seen)

\* The answer was taken, and nothing was heard of it since.
Verifying == shown # NoId /\ sessions[shown] = "verifying"

\* Buttons that wait for the daemon are enabled again, or the prompt goes, unless
\* the session has ended with an error, or its answer was taken and whoever asked
\* for it never says more (FallbackWindow.cpp:435-454).
BusyEnds ==
    LET waits == visible /\ busy /\ ~failed
    IN  waits ~> (~waits \/ []Verifying)
=============================================================================
