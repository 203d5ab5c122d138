--------------------------- MODULE PolkitListener ---------------------------
(***************************************************************************)
(* The polkit authentication agent: src/core/PolkitListener.cpp with the   *)
(* handlers of CAgent it calls.  polkitd asks for an authentication; the   *)
(* listener opens a session on the screen and drives a PolkitQt1 Session,  *)
(* a helper process that runs PAM, and starts another when one fails, up   *)
(* to MaxAuthRetries.  The AsyncResult answers polkitd.                    *)
(*                                                                         *)
(* PolkitQt1 is not in the repository.  Its Sessions report once that they *)
(* completed, possibly from within initiate() or cancel(): the listener's  *)
(* own comment in reattempt allows for it.  After initiate() nothing is    *)
(* done any more, so a completion from within is a step that follows; the  *)
(* one from within cancel() is modelled inside cancelPending.              *)
(*                                                                         *)
(* PAM asks the user through the helper and waits for the answer without a *)
(* limit of the listener's.  An answer goes to the current Session as it   *)
(* is, asked for or not.  Prompt texts and infos go to the screen only;    *)
(* they change no state here.                                              *)
(***************************************************************************)
EXTENDS Naturals, FiniteSets

CONSTANTS
    Cookies,        \* cookies that polkitd names authentications with
    Requests,       \* bound: calls of initiateAuthentication
    Sessions,       \* PolkitQt1 Session objects; a deleted one is reused
    MaxAuthRetries, \* MAX_AUTH_RETRIES
    MaxInside       \* most completions that arrive from within one cancel()

ASSUME RetriesAssumption == MaxAuthRetries \in Nat \ {0}
ASSUME InsideAssumption  == MaxInside \in Nat

VARIABLES
    flow,       \* m_cookieToState: cookie |-> [result, session, retryCount]
    flowOf,     \* m_sessionToState: Session |-> cookie
    helper,     \* what became of every Session object
    made,       \* requests that polkitd has made
    answers,    \* how often the AsyncResult of a request was completed
    attempts,   \* history: Sessions started for a request
    open,       \* cookies with a polkit session in the SessionStore
    failed,     \* the open sessions whose m_error is set
    closed,     \* result of the last session.closed of a cookie
    dangling,   \* history: a deleted SessionState was used
    up          \* the daemon runs

listenerVars == <<flow, flowOf, helper>>
requestVars  == <<made, answers, attempts>>
screenVars   == <<open, failed, closed>>
vars         == <<listenerVars, requestVars, screenVars, dangling, up>>

\* Between handlers every state of the map is in progress, and neither
\* cancelled nor authorized: those flags are parameters of the steps below.
Flow == [result : Requests, session : Sessions, retryCount : 0..MaxAuthRetries-1]

\* A Session that has not completed: PAM is at work, or has asked the user.
Running == {"working", "asking"}

Unused == {s \in Sessions : helper[s] = "none"}

TypeOK ==
    /\ DOMAIN flow \subseteq Cookies
    /\ \A c \in DOMAIN flow : flow[c] \in Flow
    /\ DOMAIN flowOf \subseteq Sessions
    /\ \A s \in DOMAIN flowOf : flowOf[s] \in Cookies
    /\ helper \in [Sessions -> Running \cup {"none", "authorized", "refused"}]
    /\ made \subseteq Requests
    /\ answers \in [Requests -> 0..2]
    /\ attempts \in [Requests -> Nat]
    /\ open \subseteq Cookies
    /\ failed \subseteq open
    /\ closed \in [Cookies -> {"none", "success", "cancelled"}]
    /\ dangling \in BOOLEAN
    /\ up \in BOOLEAN

Init ==
    /\ flow = [c \in {} |-> {}]
    /\ flowOf = [s \in {} |-> {}]
    /\ helper = [s \in Sessions |-> "none"]
    /\ made = {}
    /\ answers = [r \in Requests |-> 0]
    /\ attempts = [r \in Requests |-> 0]
    /\ open = {}
    /\ failed = {}
    /\ closed = [c \in Cookies |-> "none"]
    /\ dangling = FALSE
    /\ up = TRUE

Without(f, S) == [x \in DOMAIN f \ S |-> f[x]]
With(f, x, v) == [y \in DOMAIN f \cup {x} |-> IF y = x THEN v ELSE f[y]]

-----------------------------------------------------------------------------
(* Pieces of the handlers.                                                 *)

\* Mutant: the session of a failed attempt is not forgotten.
forgetNothing(c) == flowOf

\* The current Session of c leaves the map; deleteLater is DeferredDelete.
forgetSession(c) == Without(flowOf, {flow[c].session})

\* Mutant: every attempt counts as the first.
countNothing(n) == n

countRetry(n) == n + 1

mayRetry(n) == n < MaxAuthRetries

\* Mutant: the answer to polkitd is skipped when the user cancelled.
answerGained(C, gainedAuth) ==
    answers' = [r \in Requests |->
        IF gainedAuth /\ \E c \in C : flow[c].result = r THEN answers[r] + 1 ELSE answers[r]]

\* result()->setCompleted() for the flows of C.
answer(C, gainedAuth) ==
    answers' = [r \in Requests |->
        IF \E c \in C : flow[c].result = r THEN answers[r] + 1 ELSE answers[r]]

\* Mutant: the screen is told that the authentication succeeded in any case.
onSessionCompleteOk(C, gainedAuth) ==
    /\ open' = open \ C
    /\ failed' = failed \ C
    /\ closed' = [c \in Cookies |-> IF c \in C \cap open THEN "success" ELSE closed[c]]

\* Mutant: the session stays on the screen when the user cancelled.
onSessionCompleteGained(C, gainedAuth) ==
    /\ open' = IF gainedAuth THEN open \ C ELSE open
    /\ failed' = failed \ C
    /\ closed' = [c \in Cookies |->
                    IF c \in C \cap open
                    THEN IF gainedAuth THEN "success" ELSE "cancelled"
                    ELSE closed[c]]

\* CAgent::onSessionComplete for the flows of C.
onSessionComplete(C, gainedAuth) ==
    /\ open' = open \ C
    /\ failed' = failed \ C
    /\ closed' = [c \in Cookies |->
                    IF c \in C \cap open
                    THEN IF gainedAuth THEN "success" ELSE "cancelled"
                    ELSE closed[c]]

\* The last part of finishAuth, for the flows of C.
finish(C, gainedAuth) ==
    /\ flow' = Without(flow, C)
    /\ flowOf' = Without(flowOf, {flow[c].session : c \in C})
    /\ answer(C, gainedAuth)
    /\ onSessionComplete(C, gainedAuth)
    /\ UNCHANGED made

-----------------------------------------------------------------------------
(* polkitd.                                                                *)

Begin(r, c, s) ==
    /\ flow' = With(flow, c, [result |-> r, session |-> s, retryCount |-> 0])
    /\ flowOf' = With(flowOf, s, c)
    /\ helper' = [helper EXCEPT ![s] = "working"]
    /\ attempts' = [attempts EXCEPT ![r] = 1]
    /\ open' = open \cup {c}
    /\ failed' = failed \ {c}
    /\ UNCHANGED <<answers, closed>>

\* A cookie in use and an empty list of identities are answered at once.
initiateAuthentication(r, c, hasIdentity) ==
    /\ r \notin made
    /\ made' = made \cup {r}
    /\ IF c \in DOMAIN flow \/ ~hasIdentity
       THEN /\ answers' = [answers EXCEPT ![r] = 1]
            /\ UNCHANGED <<listenerVars, attempts, screenVars>>
       ELSE \E s \in Unused : Begin(r, c, s)
    /\ UNCHANGED <<dangling, up>>

cancelAuthentication ==
    /\ flow # <<>>
    /\ finish(DOMAIN flow, FALSE)
    /\ UNCHANGED <<helper, attempts, dangling, up>>

-----------------------------------------------------------------------------
(* Signals of the Sessions.  One that left the map is not listened to.     *)

\* PAM asks for a password; one that was typed before may be there to read.
onSessionRequest(s) ==
    /\ helper[s] = "working" /\ s \in DOMAIN flowOf
    /\ failed' = failed \ {flowOf[s]}
    /\ \E state \in Running : helper' = [helper EXCEPT ![s] = state]
    /\ UNCHANGED <<flow, flowOf, requestVars, open, closed, dangling, up>>

onSessionError(s) ==
    /\ helper[s] \in Running /\ s \in DOMAIN flowOf
    /\ failed' = failed \cup ({flowOf[s]} \cap open)
    /\ UNCHANGED <<listenerVars, requestVars, open, closed, dangling, up>>

\* Mutant: the new Session is not entered in the map.
ReattemptUnheard(s, c, t) ==
    LET f == flow[c] IN
    /\ flow' = With(flow, c, [result |-> f.result, session |-> t,
                              retryCount |-> countRetry(f.retryCount)])
    /\ flowOf' = forgetSession(c)
    /\ helper' = [helper EXCEPT ![s] = "refused", ![t] = "working"]
    /\ attempts' = [attempts EXCEPT ![f.result] = IF @ > MaxAuthRetries THEN @ ELSE @ + 1]
    /\ failed' = failed \cup ({c} \cap open)
    /\ UNCHANGED <<made, answers, open, closed>>

\* finishAuth's retry: another Session, and the same flow.
Reattempt(s, c, t) ==
    LET f == flow[c] IN
    /\ flow' = With(flow, c, [result |-> f.result, session |-> t,
                              retryCount |-> countRetry(f.retryCount)])
    /\ flowOf' = With(forgetSession(c), t, c)
    /\ helper' = [helper EXCEPT ![s] = "refused", ![t] = "working"]
    /\ attempts' = [attempts EXCEPT ![f.result] = IF @ > MaxAuthRetries THEN @ ELSE @ + 1]
    /\ failed' = failed \cup ({c} \cap open)
    /\ UNCHANGED <<made, answers, open, closed>>

\* PAM may give up a question that nobody answers, and need not.
onSessionCompleted(s, gainedAuth) ==
    /\ helper[s] \in Running
    /\ IF s \notin DOMAIN flowOf
       THEN /\ helper' = [helper EXCEPT ![s] = IF gainedAuth THEN "authorized" ELSE "refused"]
            /\ UNCHANGED <<flow, flowOf, requestVars, screenVars>>
       ELSE IF ~gainedAuth /\ mayRetry(countRetry(flow[flowOf[s]].retryCount))
       THEN \E t \in Unused : Reattempt(s, flowOf[s], t)
       ELSE /\ finish({flowOf[s]}, gainedAuth)
            /\ helper' = [helper EXCEPT ![s] = IF gainedAuth THEN "authorized" ELSE "refused"]
            /\ UNCHANGED attempts
    /\ UNCHANGED <<dangling, up>>

\* The event loop deletes what deleteLater left.
DeferredDelete(s) ==
    /\ helper[s] # "none"
    /\ s \notin DOMAIN flowOf
    /\ helper' = [helper EXCEPT ![s] = "none"]
    /\ UNCHANGED <<flow, flowOf, requestVars, screenVars, dangling, up>>

-----------------------------------------------------------------------------
(* The user, through CAgent::handleRespond and handleCancel.               *)

\* One that was not asked for waits in the pipe and changes nothing.
submitPassword(c) ==
    /\ c \in open /\ c \in DOMAIN flow
    /\ helper[flow[c].session] = "asking"
    /\ helper' = [helper EXCEPT ![flow[c].session] = "working"]
    /\ UNCHANGED <<flow, flowOf, requestVars, screenVars, dangling, up>>

\* Sessions that cancelPending starts and forgets; late signals are ignored.
StartedInside(c, n) ==
    \E new \in SUBSET Unused :
        /\ Cardinality(new) = n
        /\ helper' = [s \in Sessions |-> IF s \in new THEN "working" ELSE helper[s]]
        /\ attempts' = [attempts EXCEPT ![flow[c].result] = @ + n]

\* session->cancel() completes the Session as refused, or not; so may each
\* Session that finishAuth starts upon it.  The flow is then cancelled.
cancelPending(c) ==
    /\ c \in open /\ c \in DOMAIN flow
    /\ \E refusals \in 0..MaxInside :
          /\ mayRetry(flow[c].retryCount + refusals)
          /\ StartedInside(c, refusals)
    /\ finish({c}, FALSE)
    /\ UNCHANGED <<dangling, up>>

\* The refusals use up the attempts: finishAuth deletes the state inside
\* cancel(), and cancelPending goes on with it.  What is left of inProgress
\* decides: nothing more happens, or the flow is finished, answered and
\* deleted again, which the allocator ends.
cancelPendingDeleted(c) ==
    /\ c \in open /\ c \in DOMAIN flow
    /\ \E refusals \in 1..MaxInside :
          /\ flow[c].retryCount + refusals = MaxAuthRetries
          /\ StartedInside(c, refusals - 1)
    /\ dangling' = TRUE
    /\ flow' = Without(flow, {c})
    /\ flowOf' = forgetSession(c)
    /\ onSessionComplete({c}, FALSE)
    /\ \/ answer({c}, FALSE) /\ UNCHANGED up
       \/ answers' = [answers EXCEPT ![flow[c].result] = 2] /\ up' = FALSE
    /\ UNCHANGED made

Next ==
    /\ up
    /\ \/ \E r \in Requests, c \in Cookies, hasIdentity \in BOOLEAN :
             initiateAuthentication(r, c, hasIdentity)
       \/ cancelAuthentication
       \/ \E s \in Sessions : onSessionRequest(s)
       \/ \E s \in Sessions : onSessionError(s)
       \/ \E s \in Sessions, gainedAuth \in BOOLEAN : onSessionCompleted(s, gainedAuth)
       \/ \E s \in Sessions : DeferredDelete(s)
       \/ \E c \in Cookies : submitPassword(c)
       \/ \E c \in Cookies : cancelPending(c)
       \/ \E c \in Cookies : cancelPendingDeleted(c)

Spec == Init /\ [][Next]_vars

\* PAM, while it does not wait for the user, asks or completes, and does not ask
\* for ever; the event loop delivers that and deletes what is to be deleted.
\* While PAM waits for the user nothing is promised, and the user owes nothing.
Fairness ==
    \A s \in Sessions :
        /\ SF_vars(/\ up /\ helper[s] = "working"
                   /\ \E gainedAuth \in BOOLEAN : onSessionCompleted(s, gainedAuth))
        /\ WF_vars(up /\ DeferredDelete(s))

FairSpec == Spec /\ Fairness

-----------------------------------------------------------------------------
(* What the listener promises.                                             *)

\* A polkit session is on the screen exactly while its authentication is in
\* progress: none is left behind and none runs unseen (PolkitListener.cpp:61,
\* 196-201).
ScreenMatchesFlows == open = DOMAIN flow

\* Signals are heard of each flow's current Session and of no other, and that
\* one is not deleted (PolkitListener.cpp:58-59, 167-174, 189-193).
HeardSessions ==
    /\ \A c \in DOMAIN flow :
          LET s == flow[c].session IN s \in DOMAIN flowOf /\ flowOf[s] = c
    /\ \A s \in DOMAIN flowOf :
          flowOf[s] \in DOMAIN flow /\ flow[flowOf[s]].session = s /\ helper[s] # "none"

\* polkitd waits for an answer exactly while a flow will give it: no request
\* is forgotten, and none is answered while its prompt is still up.
WaitedForIffInFlow ==
    \A r \in made : answers[r] = 0 <=> \E c \in DOMAIN flow : flow[c].result = r

\* Its AsyncResult is completed at most once, unless the daemon dies of it; and
\* that takes a Session that completes from within cancel()
\* (PolkitListener.cpp:184-202, 219-231).
AnsweredOnce ==
    /\ \A r \in Requests : answers[r] <= 1 \/ ~up
    /\ ~up => dangling
    /\ dangling => MaxInside > 0

\* What polkitd asks is answered once, and not before its prompt goes.
RequestsAreServed == WaitedForIffInFlow /\ AnsweredOnce

\* PAM is started at most MaxAuthRetries times for a request, however its
\* Sessions fail and whoever cancels (PolkitListener.cpp:160-182).
AttemptsBounded == \A r \in Requests : attempts[r] <= MaxAuthRetries

\* A session closes as a success exactly when the Session it drives at that
\* moment authorizes: not a stale one, and not upon a cancel.
SuccessIsAuthorized ==
    [][\A c \in open \ open' :
          closed'[c] = "success" <=> helper'[flow[c].session] = "authorized"]_vars

\* The Session of r's flow has asked the user, who sees it and may answer.
AwaitsUser(r) ==
    \E c \in DOMAIN flow \cap open :
        flow[c].result = r /\ helper[flow[c].session] = "asking"

\* polkitd gets its answer, unless the user leaves a question on the screen
\* for ever, neither answered nor cancelled: whatever fails, is retried, is
\* replaced or comes too late (PolkitListener.cpp:151-228).
EveryRequestAnswered ==
    \A r \in Requests : r \in made ~> (answers[r] > 0 \/ ~up \/ []AwaitsUser(r))

-----------------------------------------------------------------------------
(* What a comment says and the code does not do everywhere.                *)

\* reattempt: "We can't guarantee that the request will be valid when we
\* return".  A handler that called a Session uses no state it may have lost.
NoDanglingUse == ~dangling
=============================================================================
