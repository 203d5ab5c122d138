---------------------------- MODULE PinentryFlow ----------------------------
(***************************************************************************)
(* The pinentry processes (src/modes/pinentry.cpp) talking to the daemon's *)
(* PinentryManager.  A process serves one caller (gpg-agent) over stdin    *)
(* and reports to the daemon over one fresh connection per message         *)
(* (IpcClient::sendRequest).  The daemon reads its connections in any      *)
(* order; a message sent before a hang-up is still read before the         *)
(* disconnect.  A process may give up waiting, or die, at any moment.      *)
(*                                                                         *)
(* The daemon's side is PinentryManager, INSTANCEd; the UI answers and     *)
(* cancels when it likes.                                                  *)
(***************************************************************************)
EXTENDS Naturals

CONSTANTS
    Cookies, Conns, Pids, NoPid,
    NoCookie,    \* an empty flowCookie
    NoConn       \* the process has no connection open

ASSUME NoPidAssumption    == NoPid \notin Pids
ASSUME NoCookieAssumption == NoCookie \notin Cookies
ASSUME NoConnAssumption   == NoConn \notin Conns

VARIABLES
    \* The daemon: see PinentryManager.
    peer, pending, awaiting, owner, retryReported, open, failed, closed,
    \* The connections.
    inbox,     \* message the daemon has not read yet
    hungup,    \* the process closed its end
    reply,     \* answer of the daemon not read yet
    \* The processes.
    stage,     \* what the process is doing, see Stages
    cookie,    \* flowCookie
    submitted, \* awaitingTerminalResult
    error,     \* state.error is not empty
    conn,      \* connection of the sendRequest that is running
    \* History, for the properties only.
    used,      \* cookies that were ever drawn
    answer     \* what became of the answer to the last prompt of a cookie

M == INSTANCE PinentryManager

daemonVars  == <<peer, pending, awaiting, owner, retryReported, open, failed, closed>>
networkVars == <<inbox, hungup, reply>>
clientVars  == <<stage, cookie, submitted, error, conn>>
historyVars == <<used, answer>>
vars        == <<daemonVars, networkVars, clientVars, historyVars>>

Stages ==
    { "idle",       \* reads the caller's next command
      "retrying",   \* GETPIN: waits for the reply to its "retry" report
      "getpin",     \* about to send a password request
      "confirm",    \* about to send a confirm_only request
      "getting",    \* waits for the answer to a password request
      "confirming", \* waits for the answer to a confirm_only request
      "finishing",  \* waits for the reply to its last report
      "exited" }

Replies == {"none", "ok", "okEmpty", "confirmed", "cancelled", "done"}

\* Sent by the user, and then handed to the caller or called a cancel to it.
Answers == {"none", "sent", "given", "withheld"}

NoMsg == [type |-> "none"]

Messages ==
    {NoMsg}
    \cup [type : {"pinentry_request"}, cookie : Cookies,
          confirmOnly : BOOLEAN, hasError : BOOLEAN]
    \cup [type : {"pinentry_result"}, cookie : Cookies,
          result : {"success", "cancelled", "error", "retry"}]

TypeOK ==
    /\ M!TypeOK
    /\ inbox \in [Conns -> Messages]
    /\ hungup \in [Conns -> BOOLEAN]
    /\ reply \in [Conns -> Replies]
    /\ stage \in [Pids -> Stages]
    /\ cookie \in [Pids -> Cookies \cup {NoCookie}]
    /\ submitted \in [Pids -> BOOLEAN]
    /\ error \in [Pids -> BOOLEAN]
    /\ conn \in [Pids -> Conns \cup {NoConn}]
    /\ used \subseteq Cookies
    /\ answer \in [Cookies -> Answers]

Init ==
    /\ M!Init
    /\ inbox = [k \in Conns |-> NoMsg]
    /\ hungup = [k \in Conns |-> FALSE]
    /\ reply = [k \in Conns |-> "none"]
    /\ stage = [p \in Pids |-> "idle"]
    /\ cookie = [p \in Pids |-> NoCookie]
    /\ submitted = [p \in Pids |-> FALSE]
    /\ error = [p \in Pids |-> FALSE]
    /\ conn = [p \in Pids |-> NoConn]
    /\ used = {}
    /\ answer = [c \in Cookies |-> "none"]

-----------------------------------------------------------------------------
(* IpcClient::sendRequest: a fresh connection for every message; and the   *)
(* daemon's sendJson, which drops what nobody reads any more.              *)

send(p, k, msg) ==
    /\ M!Accept(k, p)
    /\ inbox' = [inbox EXCEPT ![k] = msg]
    /\ conn' = [conn EXCEPT ![p] = k]
    /\ UNCHANGED <<hungup, reply>>

sendJson(k, value) ==
    reply' = IF hungup[k] THEN reply ELSE [reply EXCEPT ![k] = value]

\* Mutant: the connection is kept for the next message.
keepConnection(p) ==
    /\ conn' = [conn EXCEPT ![p] = NoConn]
    /\ UNCHANGED networkVars

\* sendRequest returns: its QLocalSocket goes out of scope.
hangUp(p) ==
    /\ hungup' = [hungup EXCEPT ![conn[p]] = TRUE]
    /\ reply' = [reply EXCEPT ![conn[p]] = "none"]
    /\ conn' = [conn EXCEPT ![p] = NoConn]
    /\ UNCHANGED inbox

Replied(p, values) == conn[p] # NoConn /\ reply[conn[p]] \in values

-----------------------------------------------------------------------------
(* The processes.                                                          *)

\* SETERROR with or without a text, RESET.
SetError(p, e) ==
    /\ stage[p] = "idle"
    /\ error' = [error EXCEPT ![p] = e]
    /\ UNCHANGED <<daemonVars, networkVars, stage, cookie, submitted, conn, historyVars>>

\* reportTerminalResult sends; the flow's cookie is known to be set.
report(p, k, result) ==
    send(p, k, [type |-> "pinentry_result", cookie |-> cookie[p], result |-> result])

\* handleGetPin: a passphrase still without outcome is reported as refused.
GetPin(p) ==
    /\ stage[p] = "idle"
    /\ IF submitted[p]
       THEN /\ \E k \in Conns : report(p, k, "retry")
            /\ stage' = [stage EXCEPT ![p] = "retrying"]
       ELSE /\ stage' = [stage EXCEPT ![p] = "getpin"]
            /\ UNCHANGED <<daemonVars, networkVars, conn>>
    /\ UNCHANGED <<cookie, submitted, error, historyVars>>

\* Mutant: GETPIN ends with the report and does not ask again.
RetryReportedOnly(p) ==
    /\ stage[p] = "retrying"
    /\ hangUp(p)
    /\ submitted' = [submitted EXCEPT ![p] = FALSE]
    /\ stage' = [stage EXCEPT ![p] = "idle"]
    /\ UNCHANGED <<daemonVars, cookie, error, historyVars>>

\* The reply, an error or none in time: all the same to the process.
RetryReported(p) ==
    /\ stage[p] = "retrying"
    /\ hangUp(p)
    /\ submitted' = [submitted EXCEPT ![p] = FALSE]
    /\ stage' = [stage EXCEPT ![p] = "getpin"]
    /\ UNCHANGED <<daemonVars, cookie, error, historyVars>>

\* handleConfirm reports no retry.
Confirm(p) ==
    /\ stage[p] = "idle"
    /\ stage' = [stage EXCEPT ![p] = "confirm"]
    /\ UNCHANGED <<daemonVars, networkVars, cookie, submitted, error, conn, historyVars>>

ensureFlowCookie(p, c) == IF cookie[p] = NoCookie THEN c \notin used ELSE c = cookie[p]

\* requestPasswordFromDaemon and requestConfirmFromDaemon, up to the wait.
SendRequest(p) ==
    \E c \in Cookies, k \in Conns :
        /\ stage[p] \in {"getpin", "confirm"}
        /\ ensureFlowCookie(p, c)
        /\ send(p, k, [type |-> "pinentry_request", cookie |-> c,
                       confirmOnly |-> stage[p] = "confirm",
                       hasError |-> stage[p] = "getpin" /\ error[p]])
        /\ cookie' = [cookie EXCEPT ![p] = c]
        /\ used' = used \cup {c}
        /\ stage' = [stage EXCEPT ![p] = IF @ = "getpin" THEN "getting" ELSE "confirming"]
        /\ UNCHANGED <<submitted, error, answer>>

\* A response with "ok" or "confirmed": the caller gets its answer, unless the
\* passphrase is empty, which it is told is a cancel; either way an outcome is
\* owed from now on.
Accepted(p) ==
    /\ \/ stage[p] = "getting" /\ Replied(p, {"ok", "okEmpty"})
       \/ stage[p] = "confirming" /\ Replied(p, {"confirmed"})
    /\ hangUp(p)
    /\ submitted' = [submitted EXCEPT ![p] = TRUE]
    /\ answer' = [answer EXCEPT ![cookie[p]] =
                     IF Replied(p, {"okEmpty"}) THEN "withheld" ELSE "given"]
    /\ error' = [error EXCEPT ![p] = FALSE]
    /\ stage' = [stage EXCEPT ![p] = "idle"]
    /\ UNCHANGED <<daemonVars, cookie, used>>

\* Mutant: a refused request leaves the flow as it was.
resetNothing(p) == UNCHANGED <<submitted, cookie>>

resetFlow(p) ==
    /\ submitted' = [submitted EXCEPT ![p] = FALSE]
    /\ cookie' = [cookie EXCEPT ![p] = NoCookie]

\* Any other response, or none in five minutes: the flow is given up.
Refused(p) ==
    /\ stage[p] \in {"getting", "confirming"}
    /\ ~Replied(p, {"ok", "okEmpty", "confirmed"})
    /\ hangUp(p)
    /\ resetFlow(p)
    /\ error' = [error EXCEPT ![p] = FALSE]
    /\ stage' = [stage EXCEPT ![p] = "idle"]
    /\ UNCHANGED <<daemonVars, historyVars>>

\* What BYE and finalizeOnStreamClose report.
finalResult(p) ==
    IF error[p] THEN "error" ELSE IF submitted[p] THEN "success" ELSE "cancelled"

\* The process is gone, and its memory with it.
exit(p) ==
    /\ stage' = [stage EXCEPT ![p] = "exited"]
    /\ resetFlow(p)
    /\ error' = [error EXCEPT ![p] = FALSE]
    /\ IF conn[p] # NoConn THEN hangUp(p) ELSE UNCHANGED <<networkVars, conn>>
    /\ UNCHANGED <<daemonVars, historyVars>>

\* BYE or the end of stdin.
StreamClose(p) ==
    /\ stage[p] = "idle"
    /\ IF cookie[p] = NoCookie
       THEN exit(p)
       ELSE /\ \E k \in Conns : report(p, k, finalResult(p))
            /\ stage' = [stage EXCEPT ![p] = "finishing"]
            /\ UNCHANGED <<cookie, submitted, error, historyVars>>

\* The last report is answered, or not in time.
Finish(p) == stage[p] = "finishing" /\ exit(p)

\* The process is killed, whatever it is doing.
Crash(p) == stage[p] # "exited" /\ exit(p)

\* sendRequest cannot connect, and the message is lost: a retry report, a
\* request or the last report.
Unreachable(p) ==
    \/ /\ stage[p] = "idle" /\ submitted[p]
       /\ submitted' = [submitted EXCEPT ![p] = FALSE]
       /\ stage' = [stage EXCEPT ![p] = "getpin"]
       /\ UNCHANGED <<daemonVars, networkVars, cookie, error, conn, historyVars>>
    \/ /\ stage[p] \in {"getpin", "confirm"}
       /\ resetFlow(p)
       /\ error' = [error EXCEPT ![p] = FALSE]
       /\ stage' = [stage EXCEPT ![p] = "idle"]
       /\ UNCHANGED <<daemonVars, networkVars, conn, historyVars>>
    \/ /\ stage[p] = "idle" /\ cookie[p] # NoCookie
       /\ exit(p)

-----------------------------------------------------------------------------
(* The daemon.                                                             *)

ReceiveRequest(k) ==
    /\ inbox[k].type = "pinentry_request"
    /\ M!handleRequest(inbox[k].cookie, k, inbox[k].confirmOnly, inbox[k].hasError)
    /\ inbox' = [inbox EXCEPT ![k] = NoMsg]
    /\ answer' = [answer EXCEPT ![inbox[k].cookie] = "none"]
    /\ UNCHANGED <<hungup, reply, clientVars, used>>

\* handlePinentryResult always replies, whether or not it takes the result.
ReceiveResult(k) ==
    /\ inbox[k].type = "pinentry_result"
    /\ \/ M!handleResult(inbox[k].cookie, peer[k], inbox[k].result)
       \/ /\ ~(M!validateResultOwner(inbox[k].cookie, peer[k]) /\ inbox[k].cookie \in open)
          /\ UNCHANGED daemonVars
    /\ inbox' = [inbox EXCEPT ![k] = NoMsg]
    /\ sendJson(k, "done")
    /\ UNCHANGED <<hungup, clientVars, historyVars>>

\* Mutant: the PinentryManager does not hear of the disconnect.
DisconnectedUnseen(k) ==
    /\ hungup[k] /\ inbox[k] = NoMsg
    /\ peer' = [peer EXCEPT ![k] = NoPid]
    /\ hungup' = [hungup EXCEPT ![k] = FALSE]
    /\ UNCHANGED <<pending, awaiting, owner, retryReported, open, failed, closed>>
    /\ UNCHANGED <<inbox, reply, clientVars, historyVars>>

Disconnected(k) ==
    /\ hungup[k] /\ inbox[k] = NoMsg
    /\ M!cleanupForSocket(k)
    /\ hungup' = [hungup EXCEPT ![k] = FALSE]
    /\ UNCHANGED <<inbox, reply, clientVars, historyVars>>

ResultTimeout(c) ==
    /\ M!resultTimeout(c)
    /\ UNCHANGED <<networkVars, clientVars, historyVars>>

-----------------------------------------------------------------------------
(* The UI, through CAgent::handleRespond and handleCancel.                 *)

\* Mutant: a confirmation is answered like a password request.
answerAlwaysOk(c, response) == response

answerTo(c, response) == IF pending[c].confirmOnly THEN "confirmed" ELSE response

Respond(c, response) ==
    /\ M!handleResponse(c)
    /\ sendJson(pending[c].conn, answerTo(c, response))
    /\ answer' = [answer EXCEPT ![c] = "sent"]
    /\ UNCHANGED <<inbox, hungup, clientVars, used>>

\* The process is told only while it waits for the answer.
Cancel(c) ==
    /\ M!handleCancel(c)
    /\ IF c \in DOMAIN pending THEN sendJson(pending[c].conn, "cancelled")
                               ELSE UNCHANGED reply
    /\ UNCHANGED <<inbox, hungup, clientVars, historyVars>>

Step(p) == RetryReported(p) \/ SendRequest(p) \/ Accepted(p) \/ Refused(p) \/ Finish(p)

Next ==
    \/ \E p \in Pids :
          \/ \E e \in BOOLEAN : SetError(p, e)
          \/ GetPin(p)
          \/ Confirm(p)
          \/ StreamClose(p)
          \/ RetryReported(p)
          \/ SendRequest(p)
          \/ Accepted(p)
          \/ Refused(p)
          \/ Finish(p)
          \/ Crash(p)
          \/ Unreachable(p)
    \/ \E k \in Conns : ReceiveRequest(k) \/ ReceiveResult(k) \/ Disconnected(k)
    \/ \E c \in Cookies :
          \/ ResultTimeout(c)
          \/ \E response \in {"ok", "okEmpty"} : Respond(c, response)
          \/ Cancel(c)

Spec == Init /\ [][Next]_vars

\* The daemon reads what arrives and its timers fire; a process goes on to its
\* next blocking read, whose timeout ends it.  Callers and users owe nothing.
Fairness ==
    /\ \A k \in Conns : WF_vars(ReceiveRequest(k) \/ ReceiveResult(k) \/ Disconnected(k))
    /\ \A c \in Cookies : WF_vars(ResultTimeout(c))
    /\ \A p \in Pids : WF_vars(Step(p))

FairSpec == Spec /\ Fairness

-----------------------------------------------------------------------------
(* What the two sides promise together.                                    *)

\* Whatever the processes send, the daemon's side is a PinentryManager.
ImplementsManager == M!Spec

\* A prompt on the screen has a process behind it that waits for the answer,
\* or the daemon is about to learn that it has gone: no passphrase is typed
\* into nothing for long (pinentry.cpp:356-407, PinentryManager.cpp:254-265).
PromptIsHeard ==
    \A c \in DOMAIN pending :
        LET k == pending[c].conn IN
        \/ hungup[k]
        \/ /\ conn[owner[c]] = k
           /\ cookie[owner[c]] = c
           /\ stage[owner[c]] = IF pending[c].confirmOnly THEN "confirming" ELSE "getting"

\* With the shipped processes a session closes as a success only after the
\* user answered its last prompt, although handleResult does not look whether
\* an outcome is due (PinentryManager.cpp:177-183).
SuccessWasAnswered ==
    [][\A c \in open \ open' : closed'[c].result = "success" => answer[c] # "none"]_vars

\* The answer a process reads is the kind it asked for: never a passphrase for
\* a confirmation, nor the reverse (PinentryManager.cpp:137-143).
AnswerFits ==
    \A p \in Pids :
        /\ stage[p] = "getting" => ~Replied(p, {"confirmed", "done"})
        /\ stage[p] = "confirming" => ~Replied(p, {"ok", "okEmpty", "done"})
        /\ stage[p] \in {"retrying", "finishing"} => Replied(p, {"none", "done"})

\* An answer on a connection is what the user sent to the last prompt of the
\* very flow whose process waits there: never one to an earlier prompt, nor
\* another process's (PinentryManager.cpp:122-147, 256-261).
AnswerIsOwn ==
    \A k \in Conns : reply[k] \in {"ok", "okEmpty", "confirmed"} =>
        /\ peer[k] \in Pids /\ conn[peer[k]] = k
        /\ cookie[peer[k]] \in Cookies
        /\ answer[cookie[peer[k]]] = "sent"

\* What a caller gets is of the kind it asked for, and meant for it.
AnswersArrive == AnswerFits /\ AnswerIsOwn

\* A session whose process has gone is closed, unless the process went right
\* after it reported a retry (PinentryManager.cpp:149, 254-265).
OrphanCloses ==
    \A c \in Cookies, p \in Pids :
        (c \in open /\ owner[c] = p /\ stage[p] = "exited")
        ~> (c \notin open \/ c \notin DOMAIN pending \cup awaiting)

\* Nobody is about to speak for a flow whose retry was reported: its process has
\* given it up, or the report came so late that the next answer is out already.
LeftOpen(c) ==
    /\ c \in retryReported
    /\ \A p \in Pids : cookie[p] = c => stage[p] = "idle" /\ submitted[p]

\* An answer is followed by the end of its session or by the next prompt, on the
\* screen, across retry reports, hang-ups and lost or late messages; except when
\* a report stopped the timer and nobody ever speaks again (PinentryManager.cpp:57-121,
\* 145-157, 185-191; pinentry.cpp:330-407).
AnswerIsFollowedUp ==
    \A c \in Cookies :
        c \in awaiting ~> (c \notin open \/ c \in DOMAIN pending \/ []LeftOpen(c))

-----------------------------------------------------------------------------
(* What the documents say and the code does not do.                        *)

\* PINENTRY_FLOW.md: session.closed is terminal and emitted once.
ClosedIsTerminal == \A c \in open : closed[c].result = "none"

\* README: nothing hangs.  A session whose process has gone is closed.
EveryOrphanCloses ==
    \A c \in Cookies, p \in Pids :
        (c \in open /\ owner[c] = p /\ stage[p] = "exited") ~> c \notin open

\* PINENTRY_FLOW.md: ambiguous flows are never inferred success.  A flow that
\* ended well gave its caller a passphrase or a confirmation.
SuccessWasDelivered ==
    [][\A c \in open \ open' : closed'[c].result = "success" => answer[c] # "withheld"]_vars
=============================================================================
