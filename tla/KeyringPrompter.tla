-------------------------- MODULE KeyringPrompter --------------------------
(***************************************************************************)
(* The keyring prompter (src/keyring-prompter) talking to the daemon.  gcr *)
(* asks a BbAuthPrompt for a password or a confirmation, each asked in a   *)
(* worker thread over a connection of its own, and closes the prompt when  *)
(* it likes.  Closing sends session.cancel on a further connection, from   *)
(* the main thread, which waits for the reply; the worker is not           *)
(* interrupted.  So the cancel may overtake the request, and the daemon    *)
(* refuses it while a UI provider is registered.  The process ends after   *)
(* some time without a prompt, and with it all workers.                    *)
(*                                                                         *)
(* gcr shows one prompt at a time (GCR_SYSTEM_PROMPTER_SINGLE).  What it   *)
(* does with a result is not modelled, and neither are the texts.          *)
(***************************************************************************)
EXTENDS KeyringManager

CONSTANTS
    Prompts,   \* BbAuthPrompt objects; one that is gone is used again
    NoCookie,  \* request_cookie is NULL
    NoConn,
    NoPrompt

ASSUME NoCookieAssumption == NoCookie \notin Cookies
ASSUME NoConnAssumption   == NoConn \notin Conns
ASSUME NoPromptAssumption == NoPrompt \notin Prompts

VARIABLES
    \* The connections.
    inbox,     \* message the daemon has not read yet
    hungup,    \* the prompter closed its end
    reply,     \* what the prompter can read
    \* The prompter.
    up,        \* the process runs
    active,    \* the prompt that gcr shows: notify::prompting
    stage,     \* what the worker of a prompt is doing
    cookie,    \* request_cookie
    conn,      \* connection of the worker's send_json_command
    closing,   \* connection of the main thread's send_json_command
    result,    \* what the last task of the prompt returned
    \* The rest.
    provider,  \* a UI provider is registered
    used       \* history: cookies that were ever drawn

networkVars  == <<inbox, hungup, reply>>
prompterVars == <<up, active, stage, cookie, conn, closing, result>>
vars         == <<connected, managerVars, networkVars, prompterVars, provider, used>>

Starting == {"password_thread", "confirm_thread"}  \* not connected yet
Waiting  == {"password", "confirm"}                \* blocked in read_line

\* "confirmed": the prompter knows this reply and the daemon never sends it.
\* "done": any reply to a cancel.  The daemon's end is closed: "eof" when it had
\* read the message, "reset" when it had not.
Replies == {"none", "ok", "confirmed", "cancelled", "done", "eof", "reset"}

NoMsg    == [type |-> "none"]
Messages == {NoMsg} \cup [type : {"keyring_request", "session.cancel"}, id : Cookies]

TypeOK ==
    /\ ManagerTypeOK
    /\ inbox \in [Conns -> Messages]
    /\ hungup \in [Conns -> BOOLEAN]
    /\ reply \in [Conns -> Replies]
    /\ up \in BOOLEAN
    /\ active \in Prompts \cup {NoPrompt}
    /\ stage \in [Prompts -> {"idle"} \cup Starting \cup Waiting]
    /\ cookie \in [Prompts -> Cookies \cup {NoCookie}]
    /\ conn \in [Prompts -> Conns \cup {NoConn}]
    /\ closing \in Conns \cup {NoConn}
    /\ result \in [Prompts -> {"none", "password", "continue", "cancel"}]
    /\ provider \in BOOLEAN
    /\ used \subseteq Cookies

Init ==
    /\ ManagerInit
    /\ inbox = [k \in Conns |-> NoMsg]
    /\ hungup = [k \in Conns |-> FALSE]
    /\ reply = [k \in Conns |-> "none"]
    /\ up = FALSE
    /\ active = NoPrompt
    /\ stage = [o \in Prompts |-> "idle"]
    /\ cookie = [o \in Prompts |-> NoCookie]
    /\ conn = [o \in Prompts |-> NoConn]
    /\ closing = NoConn
    /\ result = [o \in Prompts |-> "none"]
    /\ provider = FALSE
    /\ used = {}

-----------------------------------------------------------------------------
(* send_json_command, and the daemon's sendJson.                           *)

Held == ({conn[o] : o \in Prompts} \cup {closing}) \ {NoConn}

\* Connecting and writing the command, before the read.
send(k, msg) ==
    /\ k \notin connected \cup Held
    /\ connected' = connected \cup {k}
    /\ inbox' = [inbox EXCEPT ![k] = msg]
    /\ UNCHANGED <<hungup, reply>>

\* send_json_command returns, or the process ends.
hangUp(K) ==
    /\ hungup' = [k \in Conns |-> hungup[k] \/ k \in K \cap connected]
    /\ reply' = [k \in Conns |-> IF k \in K THEN "none" ELSE reply[k]]
    /\ UNCHANGED <<connected, inbox>>

\* sendJson of value to every connection of K that somebody still reads.
sendJson(K, value) ==
    reply' = [k \in Conns |-> IF k \in K /\ ~hungup[k] THEN value ELSE reply[k]]

-----------------------------------------------------------------------------
(* The main thread.                                                        *)

Free == up /\ closing = NoConn

\* Started over D-Bus; the daemon has answered the ping.
Start ==
    /\ ~up
    /\ up' = TRUE
    /\ UNCHANGED <<connected, managerVars, networkVars, active, stage, cookie, conn, closing, result>>
    /\ UNCHANGED <<provider, used>>

\* gcr makes a prompt, and stops the inactivity timer.
BeginPrompting(o) ==
    /\ Free /\ active = NoPrompt
    /\ stage[o] = "idle"
    /\ active' = o
    /\ UNCHANGED <<connected, managerVars, networkVars, up, stage, cookie, conn, closing, result>>
    /\ UNCHANGED <<provider, used>>

\* Mutant: a cookie may be drawn again.
generate_cookieAgain == Cookies

\* The process id, a random number and a counter: never drawn before.
generate_cookie == Cookies \ used

\* prompt_password_async and prompt_confirm_async, which differ in the thread.
prompt_async(o, thread) ==
    /\ Free /\ active = o
    /\ stage[o] = "idle"
    /\ \E c \in generate_cookie :
          /\ cookie' = [cookie EXCEPT ![o] = c]
          /\ used' = used \cup {c}
    /\ stage' = [stage EXCEPT ![o] = thread]
    /\ result' = [result EXCEPT ![o] = "none"]
    /\ UNCHANGED <<connected, managerVars, networkVars, up, active, conn, closing>>
    /\ UNCHANGED <<provider>>

\* The prompt is no longer shown; its object goes unless a worker holds it.
stopPrompting ==
    /\ active' = NoPrompt
    /\ result' = [result EXCEPT ![active] = "none"]
    /\ cookie' = IF stage[active] = "idle" THEN [cookie EXCEPT ![active] = NoCookie] ELSE cookie

hasRequested(o) == cookie[o] # NoCookie

\* bb_auth_prompt_close; without a cookie, or a connection, nothing is sent.
prompt_close ==
    /\ Free /\ active # NoPrompt
    /\ \/ /\ hasRequested(active)
          /\ \E k \in Conns :
                /\ send(k, [type |-> "session.cancel", id |-> cookie[active]])
                /\ closing' = k
          /\ UNCHANGED <<active, cookie, result>>
       \/ /\ stopPrompting
          /\ UNCHANGED <<connected, networkVars, closing>>
    /\ UNCHANGED <<managerVars, up, stage, conn, provider, used>>

\* The response is ignored.
CancelSent ==
    /\ closing # NoConn /\ reply[closing] \in {"done", "reset"}
    /\ hangUp({closing})
    /\ closing' = NoConn
    /\ stopPrompting
    /\ UNCHANGED <<managerVars, up, stage, conn, provider, used>>

exit ==
    /\ up' = FALSE
    /\ hangUp(Held)
    /\ active' = NoPrompt
    /\ stage' = [o \in Prompts |-> "idle"]
    /\ cookie' = [o \in Prompts |-> NoCookie]
    /\ conn' = [o \in Prompts |-> NoConn]
    /\ closing' = NoConn
    /\ result' = [o \in Prompts |-> "none"]
    /\ UNCHANGED <<managerVars, provider, used>>

\* Mutant: the timer also wants the workers to be done.
on_timeout_when_idle ==
    /\ Free /\ active = NoPrompt
    /\ \A o \in Prompts : stage[o] = "idle"
    /\ exit

\* The inactivity timer, which runs while nothing is prompted.
on_timeout == Free /\ active = NoPrompt /\ exit

\* The name is lost, or the process is killed.
Killed == up /\ exit

-----------------------------------------------------------------------------
(* The workers.                                                            *)

workerHangsUp(o) ==
    /\ hangUp({conn[o]})
    /\ conn' = [conn EXCEPT ![o] = NoConn]

SendRequest(o) ==
    /\ stage[o] \in Starting
    /\ \E k \in Conns :
          /\ send(k, [type |-> "keyring_request", id |-> cookie[o]])
          /\ conn' = [conn EXCEPT ![o] = k]
    /\ stage' = [stage EXCEPT ![o] = IF @ = "password_thread" THEN "password" ELSE "confirm"]
    /\ UNCHANGED <<managerVars, up, active, cookie, closing, result, provider, used>>

\* The thread returns; a prompt that is not shown any more goes with it.
threadReturns(o, value) ==
    /\ stage' = [stage EXCEPT ![o] = "idle"]
    /\ cookie' = IF active = o THEN cookie ELSE [cookie EXCEPT ![o] = NoCookie]
    /\ result' = IF active = o THEN [result EXCEPT ![o] = value] ELSE result
    /\ UNCHANGED <<managerVars, up, active, closing, provider, used>>

Unreachable(o) ==
    /\ stage[o] \in Starting
    /\ threadReturns(o, "cancel")
    /\ UNCHANGED <<connected, networkVars, conn>>

\* What the thread makes of the reply.  A confirmation wants "confirmed".
taskResult(o) ==
    IF stage[o] = "password" /\ reply[conn[o]] = "ok" THEN "password"
    ELSE IF stage[o] = "confirm" /\ reply[conn[o]] = "confirmed" THEN "continue"
    ELSE "cancel"

\* The reply came, or the read failed.
Replied(o) ==
    /\ stage[o] \in Waiting
    /\ reply[conn[o]] \in {"ok", "cancelled", "confirmed", "reset"}
    /\ workerHangsUp(o)
    /\ threadReturns(o, taskResult(o))

\* At the end of the stream read_line returns NULL and sets no error, whose
\* message send_json_command wants to log: the process dies of it.
EndOfStream ==
    /\ up
    /\ \E k \in Held : reply[k] = "eof"
    /\ exit

-----------------------------------------------------------------------------
(* The daemon and the UI.                                                  *)

ReceiveRequest(k) ==
    /\ inbox[k].type = "keyring_request"
    /\ handleRequest(inbox[k].id, k)
    /\ inbox' = [inbox EXCEPT ![k] = NoMsg]
    /\ UNCHANGED <<connected, hungup, reply, prompterVars, provider, used>>

\* CAgent::handleCancel for the prompter, which is never a provider.
ReceiveCancel(k) ==
    LET c == inbox[k].id
        accepted == ~provider /\ c \in DOMAIN pending
    IN
    /\ inbox[k].type = "session.cancel"
    /\ inbox' = [inbox EXCEPT ![k] = NoMsg]
    /\ IF accepted THEN handleCancel(c) ELSE UNCHANGED managerVars
    /\ reply' = [j \in Conns |->
                    IF hungup[j] THEN reply[j]
                    ELSE IF j = k THEN "done"
                    ELSE IF accepted /\ j = pending[c] THEN "cancelled" ELSE reply[j]]
    /\ UNCHANGED <<connected, hungup, prompterVars, provider, used>>

Disconnected(k) ==
    /\ hungup[k] /\ inbox[k] = NoMsg
    /\ cleanupForSocket(k)
    /\ hungup' = [hungup EXCEPT ![k] = FALSE]
    /\ UNCHANGED <<inbox, reply, prompterVars, provider, used>>

Respond(c) ==
    /\ handleResponse(c)
    /\ sendJson({pending[c]}, "ok")
    /\ UNCHANGED <<connected, inbox, hungup, prompterVars, provider, used>>

\* Mutant: whoever asked is not told.
CancelUntold(c) ==
    /\ handleCancel(c)
    /\ UNCHANGED <<connected, networkVars, prompterVars, provider, used>>

Cancel(c) ==
    /\ handleCancel(c)
    /\ sendJson({pending[c]}, "cancelled")
    /\ UNCHANGED <<connected, inbox, hungup, prompterVars, provider, used>>

\* A UI registers, or the last one goes.
ProviderChanges ==
    /\ provider' = ~provider
    /\ UNCHANGED <<connected, managerVars, networkVars, prompterVars, used>>

\* The daemon dies and is started again.  What it had sent can still be read.
DaemonRestart ==
    /\ connected' = {} /\ pending' = Without(pending, Cookies) /\ open' = {}
    /\ inbox' = [k \in Conns |-> NoMsg]
    /\ hungup' = [k \in Conns |-> FALSE]
    /\ reply' = [k \in Conns |->
                    IF k \in Held \cap connected /\ reply[k] = "none"
                    THEN IF inbox[k] = NoMsg THEN "eof" ELSE "reset"
                    ELSE reply[k]]
    /\ provider' = FALSE
    /\ UNCHANGED <<prompterVars, used>>

Next ==
    \/ Start
    \/ \E o \in Prompts : BeginPrompting(o)
    \/ \E o \in Prompts, thread \in Starting : prompt_async(o, thread)
    \/ prompt_close
    \/ CancelSent
    \/ on_timeout
    \/ Killed
    \/ \E o \in Prompts : SendRequest(o)
    \/ \E o \in Prompts : Unreachable(o)
    \/ \E o \in Prompts : Replied(o)
    \/ EndOfStream
    \/ \E k \in Conns : ReceiveRequest(k)
    \/ \E k \in Conns : ReceiveCancel(k)
    \/ \E k \in Conns : Disconnected(k)
    \/ \E c \in Cookies : Respond(c)
    \/ \E c \in Cookies : Cancel(c)
    \/ ProviderChanges
    \/ DaemonRestart

Spec == Init /\ [][Next]_vars

\* The daemon reads what arrives, and the prompter's threads and its timer go
\* on.  Users, gcr and UIs owe nothing.
Fairness ==
    /\ \A k \in Conns : WF_vars(ReceiveRequest(k) \/ ReceiveCancel(k) \/ Disconnected(k))
    /\ \A o \in Prompts : WF_vars(SendRequest(o) \/ Unreachable(o) \/ Replied(o))
    /\ WF_vars(CancelSent)
    /\ WF_vars(EndOfStream)
    /\ WF_vars(on_timeout)

FairSpec == Spec /\ Fairness

-----------------------------------------------------------------------------
(* What the two sides promise together.                                    *)

\* The manager's table and the sessions agree, and a pending request names an
\* open connection: the socket that handleRespond takes from it is alive
\* (KeyringManager.cpp:67-104, Agent.cpp:281-288).
TrackedIffOpen ==
    /\ DOMAIN pending = open
    /\ \A c \in DOMAIN pending : pending[c] \in connected

\* Behind a prompt on the screen a worker waits for just this answer, also when
\* gcr has closed its prompt or shows another, or the connection is hung up
\* and the daemon is about to see it.
PromptHasWorker ==
    \A c \in DOMAIN pending :
        \/ hungup[pending[c]]
        \/ \E o \in Prompts :
              conn[o] = pending[c] /\ cookie[o] = c /\ stage[o] \in Waiting

\* And the other way round: a worker has nothing to read exactly as long as its
\* request is unread or on the screen.  So no worker blocks in read_line for an
\* answer that nobody owes it any more, and gcr is handed no answer to a prompt
\* that is still on the screen.
WorkerHasPrompt ==
    \A o \in Prompts : stage[o] \in Waiting =>
        (reply[conn[o]] = "none" <=>
            \/ inbox[conn[o]] = [type |-> "keyring_request", id |-> cookie[o]]
            \/ cookie[o] \in DOMAIN pending /\ pending[cookie[o]] = conn[o])

\* Prompts on the screen and workers in read_line belong together, whatever is
\* cancelled, refused, hung up or restarted (ipc-client.c:17-83,
\* KeyringManager.cpp:13-104).
PromptsMatchWorkers == PromptHasWorker /\ WorkerHasPrompt

\* The daemon has a session for c, or may still get a request that opens one.
stageOf(c) ==
    IF c \in open THEN "open"
    ELSE IF \/ c \notin used
            \/ \E o \in Prompts : cookie[o] = c /\ stage[o] \in Starting
            \/ \E k \in Conns : inbox[k] = [type |-> "keyring_request", id |-> c]
    THEN "new" ELSE "ended"

Life == INSTANCE PromptLife WITH status <- [c \in Cookies |-> stageOf(c)]

\* A keyring session opens at most once and its end is final, whatever becomes
\* of the request, the cancel and both processes on the way: the daemon opens
\* one for any cookie it reads, and keeps no record of those it has closed
\* (KeyringManager.cpp:13-56, ipc-client.c:198-330).
ImplementsPromptLife == Life!Spec

\* A prompt that gcr has closed leaves the screen, though its cancel came too
\* early or was refused: the inactivity timer ends the process, unless gcr
\* goes on prompting (main.c:46-61).
ClosedPromptGoes ==
    \A c \in Cookies :
        (c \in open /\ (active = NoPrompt \/ cookie[active] # c))
        ~> (c \notin open \/ active # NoPrompt)

-----------------------------------------------------------------------------
(* What the repository says and the code does not do.                      *)

\* ipc-client.h:23: "Returns TRUE if confirmed, FALSE if cancelled".  When the
\* user has answered the prompt of a confirmation that gcr still waits for, it
\* is told to continue.
ConfirmedIsContinue ==
    [][\A o \in Prompts :
          stage[o] = "confirm" /\ reply[conn[o]] = "ok" /\ active = o /\ Replied(o)
          => result'[o] = "continue"]_vars
=============================================================================
