----------------------- MODULE PinentryOutcomeProofs -----------------------
(***************************************************************************)
(* A pinentry flow is a success only after its last prompt was answered.   *)
(* handleResult does not look whether an outcome is due, so this rests on  *)
(* the processes: a cookie names one process for good, and that process    *)
(* has one request under way at a time.  Hence once it reports a success,  *)
(* no request of the cookie is left that the daemon could still read.      *)
(***************************************************************************)
EXTENDS PinentryFlowProofs

Asking == {"getting", "confirming"}

Requested(k, c) == inbox[k].type = "pinentry_request" /\ inbox[k].cookie = c

Reported(k, c) ==
    inbox[k].type = "pinentry_result" /\ inbox[k].result = "success" /\ inbox[k].cookie = c

CookiesDiffer ==
    \A p, q \in Pids : cookie[p] = cookie[q] /\ cookie[p] # NoCookie => p = q

CookiesDrawn ==
    /\ \A p \in Pids : cookie[p] # NoCookie => cookie[p] \in used
    /\ \A k \in Conns, c \in Cookies : Requested(k, c) => c \in used

\* The only unread request of a process's cookie is the one it waits on.
OneRequest ==
    \A k \in Conns, p \in Pids :
        Requested(k, cookie[p]) => conn[p] = k /\ stage[p] \in Asking

\* A connection that has a prompt, or a reply, has no more to read.
ReadBeforeReply ==
    /\ \A c \in DOMAIN pending : inbox[pending[c].conn] = NoMsg
    /\ \A k \in Conns : reply[k] # "none" => inbox[k] = NoMsg

\* A process owes an outcome only for an answer.
OwedWasAnswered ==
    \A p \in Pids : submitted[p] /\ stage[p] \notin Asking => answer[cookie[p]] # "none"

\* After a success is reported nobody asks again under its cookie.
SuccessIsLast ==
    \A k \in Conns, c \in Cookies : Reported(k, c) =>
        /\ answer[c] # "none"
        /\ c \in used
        /\ \A j \in Conns : ~Requested(j, c)
        /\ \A p \in Pids : cookie[p] = c => stage[p] = "finishing"

OInv ==
    /\ FInv
    /\ CookiesDiffer
    /\ CookiesDrawn
    /\ OneRequest
    /\ ReadBeforeReply
    /\ OwedWasAnswered
    /\ SuccessIsLast

-----------------------------------------------------------------------------
(* The processes.                                                          *)

\* A step of a process that sends nothing.
LEMMA OwnStep ==
    ASSUME OInv, FInv', NEW p \in Pids, UNCHANGED <<daemonVars, inbox, used>>,
           \A k \in Conns : reply'[k] \in {reply[k], "none"},
           \A q \in Pids \ {p} : /\ cookie'[q] = cookie[q]
                                 /\ submitted'[q] = submitted[q]
                                 /\ stage'[q] = stage[q]
                                 /\ conn'[q] = conn[q],
           cookie'[p] = NoCookie \/ (cookie'[p] = cookie[p] /\ stage[p] # "finishing"),
           cookie'[p] # NoCookie => \A k \in Conns : ~Requested(k, cookie[p]),
           submitted'[p] /\ stage'[p] \notin Asking => answer'[cookie'[p]] # "none",
           \A c \in Cookies : answer'[c] = answer[c] \/ answer'[c] # "none"
    PROVE  OInv'
<1>1. UNCHANGED <<pending, peer>>
  BY DEF daemonVars
<1>2. \A k \in Conns : \A c : /\ Requested(k, c)' <=> Requested(k, c)
                              /\ Reported(k, c)' <=> Reported(k, c)
  BY DEF Requested, Reported
<1>3. /\ cookie \in [Pids -> Cookies \cup {NoCookie}]
      /\ \A k \in Conns : inbox[k] \in Messages
  BY DEF OInv, FInv, TypeOK
<1>4. \A k \in Conns : \A c : Requested(k, c) => c \in Cookies
  BY <1>3, MessageKinds DEF Requested
<1>5. CookiesDiffer' /\ CookiesDrawn'
  BY <1>2 DEF OInv, CookiesDiffer, CookiesDrawn
<1>6. OneRequest'
  <2> SUFFICES ASSUME NEW k \in Conns, NEW q \in Pids, Requested(k, cookie'[q])
               PROVE  conn'[q] = k /\ stage'[q] \in Asking
    BY DEF OneRequest, Requested
  <2>1. cookie'[q] # NoCookie
    BY <1>4, NoCookieAssumption
  <2>2. q # p
    BY <2>1
  <2> QED
    BY <2>2 DEF OInv, OneRequest
<1>7. ReadBeforeReply'
  BY <1>1 DEF OInv, ReadBeforeReply
<1>8. OwedWasAnswered'
  <2> SUFFICES ASSUME NEW q \in Pids, q # p, submitted[q], stage[q] \notin Asking
               PROVE  answer'[cookie[q]] # "none"
    BY DEF OwedWasAnswered
  <2>1. cookie[q] \in Cookies /\ answer[cookie[q]] # "none"
    BY DEF OInv, FInv, CookieKnown, OwedWasAnswered
  <2> QED
    BY <2>1
<1>9. SuccessIsLast'
  <2> SUFFICES ASSUME NEW k \in Conns, NEW c \in Cookies, Reported(k, c)
               PROVE  /\ answer'[c] # "none"
                      /\ c \in used
                      /\ \A j \in Conns : ~Requested(j, c)
                      /\ \A q \in Pids : cookie'[q] = c => stage'[q] = "finishing"
    BY <1>2 DEF SuccessIsLast
  <2> QED
    BY NoCookieAssumption DEF OInv, SuccessIsLast
<1> QED
  BY <1>5, <1>6, <1>7, <1>8, <1>9 DEF OInv

\* What a process may assume of itself outside sendRequest.
LEMMA NothingUnread ==
    ASSUME OInv, NEW p \in Pids, stage[p] \notin Asking
    PROVE  \A k \in Conns : ~Requested(k, cookie[p])
BY DEF OInv, OneRequest

LEMMA RepliesFade ==
    ASSUME FInv, NEW p \in Pids, hangUp(p) \/ UNCHANGED networkVars
    PROVE  /\ \A k \in Conns : reply'[k] \in {reply[k], "none"}
           /\ UNCHANGED inbox
BY DEF hangUp, networkVars, FInv, TypeOK

LEMMA QuietKeeps ==
    ASSUME OInv, FInv', NEW p \in Pids,
           \/ \E e \in BOOLEAN : SetError(p, e)
           \/ Confirm(p)
           \/ RetryReported(p)
           \/ GetPin(p) /\ ~submitted[p]
    PROVE  OInv'
<1>1. /\ UNCHANGED <<daemonVars, historyVars, cookie>>
      /\ hangUp(p) \/ (UNCHANGED networkVars /\ conn' = conn)
      /\ stage[p] \in {"idle", "retrying"}
      /\ \/ stage' = stage
         \/ \E s \in {"confirm", "getpin"} : stage' = [stage EXCEPT ![p] = s]
      /\ \/ submitted' = submitted
         \/ submitted' = [submitted EXCEPT ![p] = FALSE]
  BY DEF SetError, Confirm, RetryReported, GetPin
<1>2. UNCHANGED <<used, answer>>
  BY <1>1 DEF historyVars
<1>3. /\ \A k \in Conns : reply'[k] \in {reply[k], "none"}
      /\ UNCHANGED inbox
  BY <1>1, RepliesFade DEF OInv
<1>4. /\ stage \in [Pids -> Stages] /\ submitted \in [Pids -> BOOLEAN]
      /\ conn \in [Pids -> Conns \cup {NoConn}]
  BY DEF OInv, FInv, TypeOK
<1>5. \A q \in Pids \ {p} : /\ cookie'[q] = cookie[q]
                            /\ submitted'[q] = submitted[q]
                            /\ stage'[q] = stage[q]
                            /\ conn'[q] = conn[q]
  BY <1>1, <1>4 DEF hangUp
<1>6. stage[p] \notin Asking /\ stage[p] # "finishing" /\ (submitted'[p] => submitted[p])
  BY <1>1, <1>4 DEF Asking
<1>7. \A k \in Conns : ~Requested(k, cookie[p])
  BY <1>6, NothingUnread
<1>8. submitted'[p] => answer'[cookie'[p]] # "none"
  BY <1>1, <1>2, <1>6 DEF OInv, OwedWasAnswered
<1> QED
  BY <1>1, <1>2, <1>3, <1>5, <1>6, <1>7, <1>8, OwnStep

\* The flow is given up, or the process is gone.
LEMMA ResetKeeps ==
    ASSUME OInv, FInv', NEW p \in Pids,
           UNCHANGED <<daemonVars, historyVars>>, resetFlow(p),
           hangUp(p) \/ UNCHANGED <<networkVars, conn>>,
           NEW s, stage' = [stage EXCEPT ![p] = s]
    PROVE  OInv'
<1>1. UNCHANGED <<used, answer>>
  BY DEF historyVars
<1>2. /\ \A k \in Conns : reply'[k] \in {reply[k], "none"}
      /\ UNCHANGED inbox
  BY RepliesFade DEF OInv
<1>3. /\ stage \in [Pids -> Stages] /\ submitted \in [Pids -> BOOLEAN]
      /\ conn \in [Pids -> Conns \cup {NoConn}]
      /\ cookie \in [Pids -> Cookies \cup {NoCookie}]
  BY DEF OInv, FInv, TypeOK
<1>4. \A q \in Pids \ {p} : /\ cookie'[q] = cookie[q]
                            /\ submitted'[q] = submitted[q]
                            /\ stage'[q] = stage[q]
                            /\ conn'[q] = conn[q]
  BY <1>3 DEF hangUp, resetFlow
<1>5. cookie'[p] = NoCookie /\ ~submitted'[p]
  BY <1>3 DEF resetFlow
<1> QED
  BY <1>1, <1>2, <1>4, <1>5, OwnStep

LEMMA GivenUpKeeps ==
    ASSUME OInv, FInv', NEW p \in Pids,
           \/ Refused(p)
           \/ Finish(p)
           \/ Crash(p)
           \/ Unreachable(p)
           \/ StreamClose(p) /\ cookie[p] = NoCookie
    PROVE  OInv'
<1>1. CASE exit(p)
  BY <1>1, ResetKeeps DEF exit
<1>2. CASE Refused(p)
  BY <1>2, ResetKeeps DEF Refused
<1>3. CASE Unreachable(p) /\ stage[p] \in {"getpin", "confirm"}
  BY <1>3, ResetKeeps DEF Unreachable
<1>4. CASE /\ stage[p] = "idle"
           /\ submitted' = [submitted EXCEPT ![p] = FALSE]
           /\ stage' = [stage EXCEPT ![p] = "getpin"]
           /\ UNCHANGED <<daemonVars, networkVars, cookie, error, conn, historyVars>>
  <2>1. UNCHANGED <<used, answer, inbox, reply>>
    BY <1>4 DEF historyVars, networkVars
  <2>2. stage \in [Pids -> Stages] /\ submitted \in [Pids -> BOOLEAN]
    BY DEF OInv, FInv, TypeOK
  <2>3. \A q \in Pids \ {p} : /\ cookie'[q] = cookie[q]
                              /\ submitted'[q] = submitted[q]
                              /\ stage'[q] = stage[q]
                              /\ conn'[q] = conn[q]
    BY <1>4, <2>2
  <2>4. ~submitted'[p] /\ cookie'[p] = cookie[p]
    BY <1>4, <2>2
  <2>5. \A k \in Conns : ~Requested(k, cookie[p])
    BY <1>4, NothingUnread DEF Asking
  <2> QED
    BY <1>4, <2>1, <2>3, <2>4, <2>5, OwnStep
<1> QED
  BY <1>1, <1>2, <1>3, <1>4 DEF Finish, Crash, Unreachable, StreamClose

LEMMA AcceptedKeeps ==
    ASSUME OInv, FInv', NEW p \in Pids, Accepted(p)
    PROVE  OInv'
<1>1. /\ conn[p] # NoConn /\ reply[conn[p]] # "none" /\ stage[p] \in Asking
      /\ hangUp(p)
      /\ submitted' = [submitted EXCEPT ![p] = TRUE]
      /\ stage' = [stage EXCEPT ![p] = "idle"]
      /\ UNCHANGED <<daemonVars, cookie, used>>
  BY DEF Accepted, Replied, Asking
<1>2. PICK a \in {"withheld", "given"} : answer' = [answer EXCEPT ![cookie[p]] = a]
  BY DEF Accepted
<1>3. /\ \A k \in Conns : reply'[k] \in {reply[k], "none"}
      /\ UNCHANGED inbox
  BY <1>1, RepliesFade DEF OInv
<1>4. /\ stage \in [Pids -> Stages] /\ submitted \in [Pids -> BOOLEAN]
      /\ conn \in [Pids -> Conns \cup {NoConn}]
      /\ cookie \in [Pids -> Cookies \cup {NoCookie}]
      /\ answer \in [Cookies -> Answers]
  BY DEF OInv, FInv, TypeOK
<1>5. \A q \in Pids \ {p} : /\ cookie'[q] = cookie[q]
                            /\ submitted'[q] = submitted[q]
                            /\ stage'[q] = stage[q]
                            /\ conn'[q] = conn[q]
  BY <1>1, <1>4 DEF hangUp
<1>6. cookie[p] \in Cookies
  BY <1>1 DEF OInv, FInv, CookieKnown, Asking, Talking
<1>7. answer'[cookie[p]] # "none"
      /\ \A c \in Cookies : answer'[c] = answer[c] \/ answer'[c] # "none"
  BY <1>2, <1>4, <1>6
<1>8. \A k \in Conns : ~Requested(k, cookie[p])
  <2> SUFFICES ASSUME NEW k \in Conns, Requested(k, cookie[p])
               PROVE  FALSE
    OBVIOUS
  <2>1. conn[p] = k
    BY DEF OInv, OneRequest
  <2>2. inbox[k] = NoMsg
    BY <1>1, <2>1 DEF OInv, ReadBeforeReply
  <2> QED
    BY <2>2 DEF Requested, NoMsg
<1>9. stage[p] # "finishing"
  BY <1>1 DEF Asking
<1> QED
  BY <1>1, <1>3, <1>5, <1>7, <1>8, <1>9, OwnStep

\* A fresh connection has nothing on it.
LEMMA FreshConnection ==
    ASSUME OInv, NEW p \in Pids, NEW k \in Conns, NEW msg, send(p, k, msg)
    PROVE  /\ inbox'[k] = msg /\ \A j \in Conns \ {k} : inbox'[j] = inbox[j]
           /\ conn'[p] = k /\ \A q \in Pids \ {p} : conn'[q] = conn[q]
           /\ ReadBeforeReply'
<1>1. /\ inbox' = [inbox EXCEPT ![k] = msg] /\ conn' = [conn EXCEPT ![p] = k]
      /\ peer[k] = NoPid
      /\ UNCHANGED <<reply, pending>>
  BY DEF send, M!Accept, M!managerVars
<1>2. inbox \in [Conns -> Messages] /\ conn \in [Pids -> Conns \cup {NoConn}]
  BY DEF OInv, FInv, TypeOK
<1>3. reply[k] = "none"
  BY <1>1 DEF OInv, FInv, ConnsBelong
<1>4. \A c \in DOMAIN pending : pending[c].conn \in Conns \ {k}
  BY <1>1, OwnerKnown DEF OInv, FInv
<1>5. \A j \in Conns \ {k} : inbox'[j] = inbox[j]
  BY <1>1, <1>2
<1>6. ReadBeforeReply'
  BY <1>1, <1>3, <1>4, <1>5 DEF OInv, ReadBeforeReply
<1> QED
  BY <1>1, <1>2, <1>5, <1>6

LEMMA ReportKeeps ==
    ASSUME OInv, FInv', NEW p \in Pids, NEW k \in Conns, NEW result,
           report(p, k, result), stage[p] = "idle",
           NEW s \in {"retrying", "finishing"}, stage' = [stage EXCEPT ![p] = s],
           UNCHANGED <<cookie, submitted, historyVars>>, cookie[p] \in Cookies,
           result = "success" => submitted[p] /\ s = "finishing"
    PROVE  OInv'
<1> DEFINE msg == [type |-> "pinentry_result", cookie |-> cookie[p], result |-> result]
<1>1. /\ inbox'[k] = msg /\ \A j \in Conns \ {k} : inbox'[j] = inbox[j]
      /\ conn'[p] = k /\ \A q \in Pids \ {p} : conn'[q] = conn[q]
      /\ ReadBeforeReply'
  BY FreshConnection DEF report
<1>2. UNCHANGED <<used, answer>>
  BY DEF historyVars
<1>3. /\ stage'[p] = s
      /\ \A q \in Pids \ {p} : stage'[q] = stage[q]
  BY DEF OInv, FInv, TypeOK
<1>4. /\ msg.type = "pinentry_result" /\ msg.cookie = cookie[p] /\ msg.result = result
      /\ msg.type # "pinentry_request"
  OBVIOUS
<1> HIDE DEF msg
<1>5. \A j \in Conns : \A c : Requested(j, c)' => j # k /\ Requested(j, c)
  BY <1>1, <1>4 DEF Requested
<1>6. \A j \in Conns : \A c : Reported(j, c)' =>
          \/ j # k /\ Reported(j, c)
          \/ c = cookie[p] /\ result = "success"
  BY <1>1, <1>4 DEF Reported
<1>7. \A j \in Conns : ~Requested(j, cookie[p])
  BY NothingUnread DEF Asking
<1>8. CookiesDiffer' /\ CookiesDrawn'
  BY <1>2, <1>5 DEF OInv, CookiesDiffer, CookiesDrawn
<1>9. OneRequest'
  <2> SUFFICES ASSUME NEW j \in Conns, NEW q \in Pids, Requested(j, cookie[q])
               PROVE  conn'[q] = j /\ stage'[q] \in Asking
    BY <1>5 DEF OneRequest, Requested
  <2>1. q # p
    BY <1>7
  <2> QED
    BY <2>1, <1>1, <1>3 DEF OInv, OneRequest
<1>10. OwedWasAnswered'
  BY <1>2, <1>3 DEF OInv, OwedWasAnswered, Asking
<1>11. SuccessIsLast'
  <2> SUFFICES ASSUME NEW j \in Conns, NEW c \in Cookies, Reported(j, c)'
               PROVE  /\ answer[c] # "none"
                      /\ c \in used
                      /\ \A i \in Conns : ~Requested(i, c)
                      /\ \A q \in Pids : cookie[q] = c => stage'[q] = "finishing"
    BY <1>2, <1>5 DEF SuccessIsLast
  <2>1. CASE Reported(j, c)
    <3>1. /\ answer[c] # "none"
          /\ c \in used
          /\ \A i \in Conns : ~Requested(i, c)
          /\ \A q \in Pids : cookie[q] = c => stage[q] = "finishing"
      BY <2>1 DEF OInv, SuccessIsLast
    <3> QED
      BY <3>1, <1>3
  <2>2. CASE c = cookie[p] /\ result = "success"
    <3>1. answer[c] # "none"
      BY <2>2 DEF OInv, OwedWasAnswered, Asking
    <3>2. c \in used
      BY <2>2, NoCookieAssumption DEF OInv, CookiesDrawn
    <3>3. \A q \in Pids : cookie[q] = c => q = p
      BY <2>2, NoCookieAssumption DEF OInv, CookiesDiffer
    <3> QED
      BY <2>2, <3>1, <3>2, <3>3, <1>3, <1>7
  <2> QED
    BY <2>1, <2>2, <1>6
<1> QED
  BY <1>1, <1>8, <1>9, <1>10, <1>11 DEF OInv

LEMMA RequestKeeps ==
    ASSUME OInv, FInv', NEW p \in Pids, SendRequest(p)
    PROVE  OInv'
<1>1. PICK c \in Cookies, k \in Conns :
          /\ stage[p] \in {"getpin", "confirm"}
          /\ ensureFlowCookie(p, c)
          /\ send(p, k, [type |-> "pinentry_request", cookie |-> c,
                         confirmOnly |-> stage[p] = "confirm",
                         hasError |-> stage[p] = "getpin" /\ error[p]])
          /\ cookie' = [cookie EXCEPT ![p] = c]
          /\ used' = used \cup {c}
          /\ stage' = [stage EXCEPT ![p] = IF @ = "getpin" THEN "getting" ELSE "confirming"]
          /\ UNCHANGED <<submitted, answer>>
  BY DEF SendRequest
<1> DEFINE msg == [type |-> "pinentry_request", cookie |-> c,
                   confirmOnly |-> stage[p] = "confirm",
                   hasError |-> stage[p] = "getpin" /\ error[p]]
<1>2. /\ inbox'[k] = msg /\ \A j \in Conns \ {k} : inbox'[j] = inbox[j]
      /\ conn'[p] = k /\ \A q \in Pids \ {p} : conn'[q] = conn[q]
      /\ ReadBeforeReply'
  BY <1>1, FreshConnection
<1>3. msg.type = "pinentry_request" /\ msg.cookie = c
  OBVIOUS
<1> HIDE DEF msg
<1>4. /\ stage'[p] \in Asking /\ cookie'[p] = c
      /\ \A q \in Pids \ {p} : stage'[q] = stage[q] /\ cookie'[q] = cookie[q]
  BY <1>1 DEF OInv, FInv, TypeOK, Asking
<1>5. stage[p] \notin Asking /\ stage[p] # "finishing"
  BY <1>1 DEF Asking
<1>6. \A j \in Conns : \A d : Requested(j, d)' => \/ j = k /\ d = c
                                                  \/ j # k /\ Requested(j, d)
  BY <1>2, <1>3 DEF Requested
<1>7. \A j \in Conns : \A d : Reported(j, d)' => Reported(j, d)
  BY <1>2, <1>3 DEF Reported
<1>8. c \in used => c = cookie[p]
  BY <1>1 DEF ensureFlowCookie
<1>9. \A j \in Conns : ~Requested(j, c)
  BY <1>5, <1>8, NothingUnread DEF OInv, CookiesDrawn
<1>10. \A q \in Pids \ {p} : cookie[q] # c
  BY <1>8, NoCookieAssumption DEF OInv, CookiesDiffer, CookiesDrawn
<1>11. \A q \in Pids \ {p} : cookie[q] = NoCookie \/ cookie[q] \in used
  BY DEF OInv, CookiesDrawn
<1>12. CookiesDiffer'
  BY <1>4, <1>10 DEF OInv, CookiesDiffer
<1>13. CookiesDrawn'
  BY <1>1, <1>4, <1>6, <1>11 DEF OInv, CookiesDrawn
<1>14. OneRequest'
  <2> SUFFICES ASSUME NEW j \in Conns, NEW q \in Pids,
                      NEW d, d = cookie'[q], Requested(j, d)'
               PROVE  conn'[q] = j /\ stage'[q] \in Asking
    BY DEF OneRequest, Requested
  <2>1. CASE q = p
    BY <2>1, <1>2, <1>4, <1>6, <1>9
  <2>2. CASE q # p
    BY <2>2, <1>2, <1>4, <1>6, <1>10 DEF OInv, OneRequest
  <2> QED
    BY <2>1, <2>2
<1>15. OwedWasAnswered'
  BY <1>1, <1>4 DEF OInv, OwedWasAnswered
<1>16. SuccessIsLast'
  <2> SUFFICES ASSUME NEW j \in Conns, NEW d \in Cookies, Reported(j, d)
               PROVE  /\ answer'[d] # "none"
                      /\ d \in used'
                      /\ \A i \in Conns : ~Requested(i, d)'
                      /\ \A q \in Pids : cookie'[q] = d => stage'[q] = "finishing"
    BY <1>7 DEF SuccessIsLast
  <2>1. /\ answer[d] # "none"
        /\ d \in used
        /\ \A i \in Conns : ~Requested(i, d)
        /\ \A q \in Pids : cookie[q] = d => stage[q] = "finishing"
    BY DEF OInv, SuccessIsLast
  <2>2. d # c
    BY <2>1, <1>5, <1>8
  <2> QED
    BY <2>1, <2>2, <1>1, <1>4, <1>6
<1> QED
  BY <1>2, <1>12, <1>13, <1>14, <1>15, <1>16 DEF OInv

-----------------------------------------------------------------------------
(* The daemon.                                                             *)

LEMMA DaemonKeeps ==
    ASSUME OInv, FInv', UNCHANGED <<clientVars, used>>,
           \A k \in Conns : inbox'[k] \in {inbox[k], NoMsg},
           \A c \in Cookies : \/ answer'[c] = answer[c]
                              \/ answer'[c] # "none"
                              \/ \E k \in Conns : Requested(k, c),
           ReadBeforeReply'
    PROVE  OInv'
<1>1. UNCHANGED <<stage, cookie, submitted, conn>>
  BY DEF clientVars
<1>2. \A k \in Conns : \A c : /\ Requested(k, c)' => Requested(k, c)
                              /\ Reported(k, c)' => Reported(k, c)
  BY DEF Requested, Reported, NoMsg
<1>3. CookiesDiffer' /\ CookiesDrawn'
  BY <1>1, <1>2 DEF OInv, CookiesDiffer, CookiesDrawn
<1>4. OneRequest'
  <2> SUFFICES ASSUME NEW k \in Conns, NEW p \in Pids, Requested(k, cookie[p])
               PROVE  conn[p] = k /\ stage[p] \in Asking
    BY <1>1, <1>2 DEF OneRequest, Requested
  <2> QED
    BY DEF OInv, OneRequest
<1>5. OwedWasAnswered'
  <2> SUFFICES ASSUME NEW p \in Pids, submitted[p], stage[p] \notin Asking
               PROVE  answer'[cookie[p]] # "none"
    BY <1>1 DEF OwedWasAnswered
  <2>1. cookie[p] \in Cookies /\ answer[cookie[p]] # "none"
    BY DEF OInv, FInv, CookieKnown, OwedWasAnswered
  <2>2. \A k \in Conns : ~Requested(k, cookie[p])
    BY NothingUnread
  <2> QED
    BY <2>1, <2>2
<1>6. SuccessIsLast'
  BY <1>1, <1>2 DEF OInv, SuccessIsLast
<1> QED
  BY <1>3, <1>4, <1>5, <1>6 DEF OInv

LEMMA ReceiveRequestKeeps ==
    ASSUME OInv, FInv', NEW k \in Conns, ReceiveRequest(k)
    PROVE  OInv'
<1>1. /\ inbox[k].type = "pinentry_request"
      /\ M!handleRequest(inbox[k].cookie, k, inbox[k].confirmOnly, inbox[k].hasError)
      /\ inbox' = [inbox EXCEPT ![k] = NoMsg]
      /\ answer' = [answer EXCEPT ![inbox[k].cookie] = "none"]
      /\ UNCHANGED <<reply, clientVars, used>>
  BY DEF ReceiveRequest
<1>2. /\ inbox \in [Conns -> Messages]
      /\ answer \in [Cookies -> Answers]
  BY DEF OInv, FInv, TypeOK
<1>3. inbox[k].cookie \in Cookies /\ Requested(k, inbox[k].cookie)
  BY <1>1, <1>2, MessageKinds DEF Requested
<1>4. \A j \in Conns : inbox'[j] = IF j = k THEN NoMsg ELSE inbox[j]
  BY <1>1, <1>2
<1>5. \A c \in Cookies : \/ answer'[c] = answer[c]
                         \/ \E j \in Conns : Requested(j, c)
  BY <1>1, <1>2, <1>3
<1>6. \A c \in DOMAIN pending' :
          \/ pending'[c].conn = k
          \/ c \in DOMAIN pending /\ pending'[c] = pending[c]
  BY <1>1 DEF M!handleRequest, M!With, M!vars, M!managerVars
<1>7. \A c \in DOMAIN pending : pending[c].conn \in Conns
  BY OwnerKnown DEF OInv, FInv
<1>8. \A c \in DOMAIN pending' : inbox'[pending'[c].conn] = NoMsg
  BY <1>4, <1>6, <1>7 DEF OInv, ReadBeforeReply
<1>9. ReadBeforeReply'
  BY <1>1, <1>4, <1>8 DEF OInv, ReadBeforeReply
<1>10. \A j \in Conns : inbox'[j] \in {inbox[j], NoMsg}
  BY <1>4
<1> QED
  BY <1>1, <1>5, <1>9, <1>10, DaemonKeeps

\* A step that puts no prompt on the screen.
LEMMA NoNewPrompt ==
    ASSUME OInv, FInv', UNCHANGED <<clientVars, used>>,
           \A c \in DOMAIN pending' : c \in DOMAIN pending /\ pending'[c] = pending[c],
           \A k \in Conns : inbox'[k] \in {inbox[k], NoMsg},
           \A k \in Conns : reply'[k] # "none" => reply[k] # "none" \/ inbox'[k] = NoMsg,
           \A c \in Cookies : answer'[c] = answer[c] \/ answer'[c] # "none"
    PROVE  OInv'
<1>1. \A c \in DOMAIN pending : pending[c].conn \in Conns
  BY OwnerKnown DEF OInv, FInv
<1>2. ReadBeforeReply'
  BY <1>1 DEF OInv, ReadBeforeReply
<1> QED
  BY <1>2, DaemonKeeps

LEMMA PromptsShrink ==
    ASSUME NEW C, NEW result, NEW by, M!closeFlows(C, result, by)
    PROVE  \A c \in DOMAIN pending' : c \in DOMAIN pending /\ pending'[c] = pending[c]
BY DEF M!closeFlows, M!Without

LEMMA ReceiveResultKeeps ==
    ASSUME OInv, FInv', NEW k \in Conns, ReceiveResult(k)
    PROVE  OInv'
<1>1. /\ \/ M!handleResult(inbox[k].cookie, peer[k], inbox[k].result)
         \/ UNCHANGED pending
      /\ inbox' = [inbox EXCEPT ![k] = NoMsg]
      /\ sendJson(k, "done")
      /\ UNCHANGED <<clientVars, used, answer>>
  BY DEF ReceiveResult, daemonVars, historyVars
<1>2. \A c \in DOMAIN pending' : c \in DOMAIN pending /\ pending'[c] = pending[c]
  BY <1>1, PromptsShrink DEF M!handleResult, M!reportRetry
<1>3. inbox \in [Conns -> Messages] /\ reply \in [Conns -> Replies]
  BY DEF OInv, FInv, TypeOK
<1>4. \A j \in Conns : inbox'[j] = IF j = k THEN NoMsg ELSE inbox[j]
  BY <1>1, <1>3
<1>5. \A j \in Conns : j = k \/ reply'[j] = reply[j]
  BY <1>1, <1>3 DEF sendJson
<1>6. /\ \A j \in Conns : inbox'[j] \in {inbox[j], NoMsg}
      /\ \A j \in Conns : reply'[j] # "none" => reply[j] # "none" \/ inbox'[j] = NoMsg
  BY <1>4, <1>5
<1> QED
  BY <1>1, <1>2, <1>6, NoNewPrompt

LEMMA DisconnectedKeeps ==
    ASSUME OInv, FInv', NEW k \in Conns, Disconnected(k)
    PROVE  OInv'
<1>1. /\ M!cleanupForSocket(k)
      /\ UNCHANGED <<inbox, reply, clientVars, used, answer>>
  BY DEF Disconnected, historyVars
<1>2. \A c \in DOMAIN pending' : c \in DOMAIN pending /\ pending'[c] = pending[c]
  BY <1>1, PromptsShrink DEF M!cleanupForSocket
<1> QED
  BY <1>1, <1>2, NoNewPrompt

LEMMA ScreenKeeps ==
    ASSUME OInv, FInv', NEW c \in Cookies,
           \/ ResultTimeout(c)
           \/ \E response \in {"ok", "okEmpty"} : Respond(c, response)
           \/ Cancel(c)
    PROVE  OInv'
<1>1. /\ UNCHANGED <<inbox, clientVars, used>>
      /\ answer' = answer \/ answer' = [answer EXCEPT ![c] = "sent"]
      /\ \/ UNCHANGED reply
         \/ c \in DOMAIN pending /\ \E value : sendJson(pending[c].conn, value)
  BY DEF ResultTimeout, Respond, Cancel, networkVars, historyVars, M!handleResponse
<1>2. \A d \in DOMAIN pending' : d \in DOMAIN pending /\ pending'[d] = pending[d]
  BY PromptsShrink DEF ResultTimeout, Respond, Cancel, M!resultTimeout, M!handleResponse,
     M!handleCancel, M!Without
<1>3. reply \in [Conns -> Replies] /\ answer \in [Cookies -> Answers]
  BY DEF OInv, FInv, TypeOK
<1>4. \A j \in Conns : reply'[j] # "none" => reply[j] # "none" \/ inbox'[j] = NoMsg
  <2>1. CASE UNCHANGED reply
    BY <2>1
  <2>2. CASE c \in DOMAIN pending /\ \E value : sendJson(pending[c].conn, value)
    <3>1. inbox[pending[c].conn] = NoMsg
      BY <2>2 DEF OInv, ReadBeforeReply
    <3>2. \A j \in Conns : j = pending[c].conn \/ reply'[j] = reply[j]
      BY <2>2, <1>3 DEF sendJson
    <3> QED
      BY <3>1, <3>2, <1>1
  <2> QED
    BY <1>1, <2>1, <2>2
<1>5. \A d \in Cookies : answer'[d] = answer[d] \/ answer'[d] # "none"
  BY <1>1, <1>3
<1> QED
  BY <1>1, <1>2, <1>4, <1>5, NoNewPrompt

-----------------------------------------------------------------------------
(* Every run.                                                              *)

LEMMA InitOInv == Init => OInv
<1> SUFFICES ASSUME Init PROVE OInv
  OBVIOUS
<1>1. FInv
  BY InitFInv
<1>2. /\ cookie = [p \in Pids |-> NoCookie]
      /\ submitted = [p \in Pids |-> FALSE]
      /\ inbox = [k \in Conns |-> NoMsg]
      /\ reply = [k \in Conns |-> "none"]
      /\ DOMAIN pending = {}
  BY DEF Init, M!Init
<1>3. \A k \in Conns : \A c : ~Requested(k, c) /\ ~Reported(k, c)
  BY <1>2 DEF Requested, Reported, NoMsg
<1>4. CookiesDiffer /\ CookiesDrawn /\ OneRequest
  BY <1>2, <1>3 DEF CookiesDiffer, CookiesDrawn, OneRequest
<1>5. ReadBeforeReply /\ OwedWasAnswered /\ SuccessIsLast
  BY <1>2, <1>3 DEF ReadBeforeReply, OwedWasAnswered, SuccessIsLast
<1> QED
  BY <1>1, <1>4, <1>5 DEF OInv

LEMMA ProcessKeeps ==
    ASSUME OInv, FInv', NEW p \in Pids,
           GetPin(p) \/ StreamClose(p)
    PROVE  OInv'
<1>1. CASE GetPin(p) /\ submitted[p]
  <2>1. PICK k \in Conns : report(p, k, "retry")
    BY <1>1 DEF GetPin
  <2>2. cookie[p] \in Cookies
    BY <1>1 DEF OInv, FInv, CookieKnown
  <2>3. /\ stage[p] = "idle"
        /\ stage' = [stage EXCEPT ![p] = "retrying"]
        /\ UNCHANGED <<cookie, submitted, historyVars>>
    BY <1>1 DEF GetPin
  <2>4. "retry" # "success" /\ "retrying" \in {"retrying", "finishing"}
    OBVIOUS
  <2> QED
    BY <2>1, <2>2, <2>3, <2>4, ReportKeeps
<1>2. CASE StreamClose(p) /\ cookie[p] # NoCookie
  <2>1. PICK k \in Conns : report(p, k, finalResult(p))
    BY <1>2 DEF StreamClose
  <2>2. cookie[p] \in Cookies
    BY <1>2 DEF OInv, FInv, TypeOK
  <2>3. /\ stage[p] = "idle"
        /\ stage' = [stage EXCEPT ![p] = "finishing"]
        /\ UNCHANGED <<cookie, submitted, historyVars>>
    BY <1>2 DEF StreamClose
  <2>4. finalResult(p) = "success" => submitted[p]
    BY DEF finalResult
  <2> QED
    BY <2>1, <2>2, <2>3, <2>4, ReportKeeps
<1>3. CASE GetPin(p) /\ ~submitted[p]
  BY <1>3, QuietKeeps
<1>4. CASE StreamClose(p) /\ cookie[p] = NoCookie
  BY <1>4, GivenUpKeeps
<1> QED
  BY <1>1, <1>2, <1>3, <1>4

LEMMA NextOInv == OInv /\ [Next]_vars => OInv'
<1> SUFFICES ASSUME OInv, [Next]_vars PROVE OInv'
  OBVIOUS
<1>0. FInv'
  BY NextFInv DEF OInv
<1>1. ASSUME NEW p \in Pids,
             \/ \E e \in BOOLEAN : SetError(p, e)
             \/ Confirm(p)
             \/ RetryReported(p)
      PROVE  OInv'
  BY <1>0, <1>1, QuietKeeps
<1>2. ASSUME NEW p \in Pids, GetPin(p) \/ StreamClose(p) PROVE OInv'
  BY <1>0, <1>2, ProcessKeeps
<1>3. ASSUME NEW p \in Pids, SendRequest(p) PROVE OInv'
  BY <1>0, <1>3, RequestKeeps
<1>4. ASSUME NEW p \in Pids, Accepted(p) PROVE OInv'
  BY <1>0, <1>4, AcceptedKeeps
<1>5. ASSUME NEW p \in Pids, Refused(p) \/ Finish(p) \/ Crash(p) \/ Unreachable(p)
      PROVE  OInv'
  BY <1>0, <1>5, GivenUpKeeps
<1>6. ASSUME NEW k \in Conns, ReceiveRequest(k) \/ ReceiveResult(k) \/ Disconnected(k)
      PROVE  OInv'
  BY <1>0, <1>6, ReceiveRequestKeeps, ReceiveResultKeeps, DisconnectedKeeps
<1>7. ASSUME NEW c \in Cookies,
             \/ ResultTimeout(c)
             \/ \E response \in {"ok", "okEmpty"} : Respond(c, response)
             \/ Cancel(c)
      PROVE  OInv'
  BY <1>0, <1>7, ScreenKeeps
<1>8. CASE UNCHANGED vars
  <2>1. UNCHANGED <<pending, inbox, reply, clientVars, used, answer>>
    BY <1>8 DEF vars, daemonVars, networkVars, historyVars
  <2> QED
    BY <1>0, <2>1, NoNewPrompt
<1> QED
  BY <1>1, <1>2, <1>3, <1>4, <1>5, <1>6, <1>7, <1>8 DEF Next

LEMMA OutcomeInvariance == Spec => []OInv
  BY InitOInv, NextOInv, PTL DEF Spec

\* What a closed session says is what it was closed with.
LEMMA ClosedSays ==
    ASSUME NEW C, NEW result, NEW by, M!closeFlows(C, result, by),
           NEW c \in open \ open', c \in Cookies
    PROVE  c \in C /\ closed'[c].result = result
BY DEF M!closeFlows

\* Only a report that is read closes a session as a success.
LEMMA SuccessIsRead ==
    ASSUME OInv, Next, NEW c \in open \ open', closed'[c].result = "success"
    PROVE  \E k \in Conns : Reported(k, c)
<1>1. c \in Cookies
  BY DEF OInv, FInv, TypeOK, M!TypeOK
<1>2. ASSUME NEW p \in Pids,
             \/ \E e \in BOOLEAN : SetError(p, e)
             \/ GetPin(p)
             \/ Confirm(p)
             \/ StreamClose(p)
             \/ RetryReported(p)
             \/ SendRequest(p)
             \/ Accepted(p)
             \/ Refused(p)
             \/ Finish(p)
             \/ Crash(p)
             \/ Unreachable(p)
      PROVE  UNCHANGED open
  BY <1>2 DEF SetError, GetPin, Confirm, StreamClose, RetryReported, SendRequest, Accepted,
     Refused, Finish, Crash, Unreachable, exit, report, send, M!Accept, M!storeVars, daemonVars
<1>3. ASSUME NEW k \in Conns, ReceiveRequest(k) PROVE c \in open'
  BY <1>3 DEF ReceiveRequest, M!handleRequest, M!vars, M!storeVars
<1>4. ASSUME NEW k \in Conns, ReceiveResult(k) PROVE Reported(k, c)
  <2>1. M!closeFlows({inbox[k].cookie}, inbox[k].result, peer[k])
    BY <1>4 DEF ReceiveResult, M!handleResult, M!reportRetry, daemonVars
  <2>2. c = inbox[k].cookie /\ inbox[k].result = "success"
    BY <2>1, <1>1, ClosedSays
  <2> QED
    BY <1>4, <2>2 DEF ReceiveResult, Reported
<1>5. ASSUME NEW k \in Conns, Disconnected(k) PROVE FALSE
  <2>1. closed'[c].result = "cancelled"
    BY <1>5, <1>1, ClosedSays DEF Disconnected, M!cleanupForSocket
  <2> QED
    BY <2>1
<1>6. ASSUME NEW d \in Cookies,
             \/ ResultTimeout(d)
             \/ \E response \in {"ok", "okEmpty"} : Respond(d, response)
             \/ Cancel(d)
      PROVE  FALSE
  <2>1. CASE ResultTimeout(d)
    <3>1. closed'[c].result = "error"
      BY <2>1, <1>1, ClosedSays DEF ResultTimeout, M!resultTimeout
    <3> QED
      BY <3>1
  <2>2. CASE Cancel(d)
    <3>1. closed'[c].result = "cancelled"
      BY <2>2, <1>1, ClosedSays DEF Cancel, M!handleCancel
    <3> QED
      BY <3>1
  <2>3. CASE \E response \in {"ok", "okEmpty"} : Respond(d, response)
    BY <2>3 DEF Respond, M!handleResponse, M!storeVars
  <2> QED
    BY <1>6, <2>1, <2>2, <2>3
<1> QED
  BY <1>2, <1>3, <1>4, <1>5, <1>6 DEF Next

\* A session closes as a success only after the user answered its last prompt:
\* not by a check of handleResult (PinentryManager.cpp:177-183), but because the
\* shipped process has one request of its cookie under way at a time, and none
\* after it reported the success.
THEOREM SuccessFollowsAnswer == Spec => SuccessWasAnswered
<1>1. ASSUME OInv, [Next]_vars
      PROVE  [\A c \in open \ open' : closed'[c].result = "success" => answer[c] # "none"]_vars
  <2> SUFFICES ASSUME Next, NEW c \in open \ open', closed'[c].result = "success"
               PROVE  answer[c] # "none"
    BY <1>1
  <2>1. c \in Cookies
    BY <1>1 DEF OInv, FInv, TypeOK, M!TypeOK
  <2>2. PICK k \in Conns : Reported(k, c)
    BY <1>1, SuccessIsRead
  <2> QED
    BY <2>1, <2>2, <1>1 DEF OInv, SuccessIsLast
<1> QED
  BY <1>1, OutcomeInvariance, PTL DEF Spec, SuccessWasAnswered

-----------------------------------------------------------------------------
(* What a process owes and what it is told.                                *)

\* Between its caller's commands a process has a flow exactly while it owes the
\* outcome of an answer (pinentry.cpp: awaitingTerminalResult and flowCookie).
IdleOwes == \A p \in Pids : stage[p] = "idle" => (cookie[p] # NoCookie <=> submitted[p])

\* No process ever reports a cancel: the last case of finalizeOnStreamClose, a
\* flow without an answer, is not reachable.
NoCancelReported ==
    \A k \in Conns : inbox[k].type = "pinentry_result" => inbox[k].result # "cancelled"

LEMMA SendSends ==
    ASSUME FInv, NEW p \in Pids, NEW k \in Conns, NEW msg, send(p, k, msg)
    PROVE  /\ inbox' = [inbox EXCEPT ![k] = msg]
           /\ inbox'[k] = msg /\ \A j \in Conns \ {k} : inbox'[j] = inbox[j]
           /\ reply' = reply
           /\ \A j \in Conns : peer[j] # NoPid => peer'[j] = peer[j]
<1>1. inbox \in [Conns -> Messages] /\ peer \in [Conns -> Pids \cup {NoPid}]
  BY DEF FInv, TypeOK, M!TypeOK
<1>2. inbox' = [inbox EXCEPT ![k] = msg] /\ reply' = reply
      /\ peer[k] = NoPid /\ peer' = [peer EXCEPT ![k] = p]
  BY DEF send, M!Accept
<1> QED
  BY <1>1, <1>2

LEMMA IdleOwesStep ==
    ASSUME FInv, IdleOwes, [Next]_vars
    PROVE  IdleOwes'
<1>0. /\ stage \in [Pids -> Stages] /\ submitted \in [Pids -> BOOLEAN]
      /\ cookie \in [Pids -> Cookies \cup {NoCookie}]
  BY DEF FInv, TypeOK
<1>1. ASSUME NEW p \in Pids, resetFlow(p), NEW s, stage' = [stage EXCEPT ![p] = s]
      PROVE  IdleOwes'
  <2>1. cookie'[p] = NoCookie /\ submitted'[p] = FALSE
    BY <1>0, <1>1 DEF resetFlow
  <2>2. \A q \in Pids \ {p} : /\ cookie'[q] = cookie[q] /\ submitted'[q] = submitted[q]
                              /\ stage'[q] = stage[q]
    BY <1>0, <1>1 DEF resetFlow
  <2> QED
    BY <2>1, <2>2 DEF IdleOwes
<1>2. ASSUME NEW p \in Pids, NEW s \in Stages \ {"idle"}, stage' = [stage EXCEPT ![p] = s],
             \A q \in Pids \ {p} : cookie'[q] = cookie[q] /\ submitted'[q] = submitted[q]
      PROVE  IdleOwes'
  <2>1. stage'[p] # "idle" /\ \A q \in Pids \ {p} : stage'[q] = stage[q]
    BY <1>0, <1>2
  <2> QED
    BY <1>2, <2>1 DEF IdleOwes
<1>3. ASSUME UNCHANGED <<stage, cookie, submitted>> PROVE IdleOwes'
  BY <1>3 DEF IdleOwes
<1>4. ASSUME NEW p \in Pids,
             exit(p) \/ Refused(p) \/ Finish(p) \/ Crash(p)
      PROVE  IdleOwes'
  BY <1>1, <1>4 DEF exit, Refused, Finish, Crash
<1>5. ASSUME NEW p \in Pids, SetError(p, TRUE) \/ SetError(p, FALSE) PROVE IdleOwes'
  BY <1>3, <1>5 DEF SetError
<1>6. ASSUME NEW p \in Pids, GetPin(p) \/ Confirm(p) PROVE IdleOwes'
  BY <1>2, <1>6 DEF GetPin, Confirm, Stages
<1>7. ASSUME NEW p \in Pids, StreamClose(p) PROVE IdleOwes'
  BY <1>2, <1>4, <1>7 DEF StreamClose, Stages
<1>8. ASSUME NEW p \in Pids, RetryReported(p) PROVE IdleOwes'
  <2>1. /\ stage' = [stage EXCEPT ![p] = "getpin"] /\ UNCHANGED cookie
        /\ submitted' = [submitted EXCEPT ![p] = FALSE]
    BY <1>8 DEF RetryReported
  <2>2. \A q \in Pids \ {p} : submitted'[q] = submitted[q]
    BY <1>0, <2>1
  <2> QED
    BY <1>2, <2>1, <2>2 DEF Stages
<1>9. ASSUME NEW p \in Pids, SendRequest(p) PROVE IdleOwes'
  <2>1. PICK c \in Cookies : cookie' = [cookie EXCEPT ![p] = c]
    BY <1>9 DEF SendRequest
  <2>2. PICK s \in {"getting", "confirming"} : stage' = [stage EXCEPT ![p] = s]
    BY <1>9 DEF SendRequest
  <2>3. submitted' = submitted /\ \A q \in Pids \ {p} : cookie'[q] = cookie[q]
    BY <1>0, <1>9, <2>1 DEF SendRequest
  <2> QED
    BY <1>2, <2>2, <2>3 DEF Stages
<1>10. ASSUME NEW p \in Pids, Accepted(p) PROVE IdleOwes'
  <2>1. /\ stage' = [stage EXCEPT ![p] = "idle"] /\ UNCHANGED cookie
        /\ submitted' = [submitted EXCEPT ![p] = TRUE]
        /\ stage[p] \in Talking
    BY <1>10 DEF Accepted, Talking
  <2>2. cookie[p] # NoCookie
    BY <2>1, NoCookieAssumption DEF FInv, CookieKnown
  <2>3. submitted'[p] = TRUE
    BY <1>0, <2>1
  <2>4. \A q \in Pids \ {p} : stage'[q] = stage[q] /\ submitted'[q] = submitted[q]
    BY <1>0, <2>1
  <2> QED
    BY <2>1, <2>2, <2>3, <2>4 DEF IdleOwes
<1>11. ASSUME NEW p \in Pids, Unreachable(p) PROVE IdleOwes'
  <2>1. CASE resetFlow(p) /\ stage' = [stage EXCEPT ![p] = "idle"]
    BY <1>1, <2>1
  <2>2. CASE /\ submitted' = [submitted EXCEPT ![p] = FALSE]
             /\ stage' = [stage EXCEPT ![p] = "getpin"]
             /\ UNCHANGED cookie
    <3>1. \A q \in Pids \ {p} : submitted'[q] = submitted[q]
      BY <1>0, <2>2
    <3> QED
      BY <1>2, <2>2, <3>1 DEF Stages
  <2> QED
    BY <1>4, <1>11, <2>1, <2>2 DEF Unreachable
<1>12. ASSUME NEW k \in Conns, ReceiveRequest(k) \/ ReceiveResult(k) \/ Disconnected(k)
       PROVE  IdleOwes'
  BY <1>3, <1>12 DEF ReceiveRequest, ReceiveResult, Disconnected, clientVars
<1>13. ASSUME NEW c \in Cookies,
              \/ ResultTimeout(c)
              \/ \E response \in {"ok", "okEmpty"} : Respond(c, response)
              \/ Cancel(c)
       PROVE  IdleOwes'
  BY <1>3, <1>13 DEF ResultTimeout, Respond, Cancel, clientVars
<1>14. CASE UNCHANGED vars
  BY <1>3, <1>14 DEF vars, clientVars
<1> QED
  BY <1>4, <1>5, <1>6, <1>7, <1>8, <1>9, <1>10, <1>11, <1>12, <1>13, <1>14 DEF Next

LEMMA NoCancelStep ==
    ASSUME FInv, IdleOwes, NoCancelReported, [Next]_vars
    PROVE  NoCancelReported'
<1>0. inbox \in [Conns -> Messages] /\ error \in [Pids -> BOOLEAN]
  BY DEF FInv, TypeOK
<1>1. ASSUME inbox' = inbox PROVE NoCancelReported'
  BY <1>1 DEF NoCancelReported
<1>2. ASSUME NEW k \in Conns, inbox' = [inbox EXCEPT ![k] = NoMsg] PROVE NoCancelReported'
  <2>1. inbox'[k].type # "pinentry_result" /\ \A j \in Conns \ {k} : inbox'[j] = inbox[j]
    BY <1>0, <1>2 DEF NoMsg
  <2> QED
    BY <2>1 DEF NoCancelReported
<1>3. ASSUME NEW p \in Pids, NEW k \in Conns, NEW msg, send(p, k, msg),
             msg.type = "pinentry_result" => msg.result # "cancelled"
      PROVE  NoCancelReported'
  BY <1>3, SendSends DEF NoCancelReported
<1>4. ASSUME NEW p \in Pids, NEW k \in Conns, NEW result, report(p, k, result),
             result # "cancelled"
      PROVE  NoCancelReported'
  BY <1>3, <1>4 DEF report
<1>5. ASSUME NEW p \in Pids,
             \/ \E e \in BOOLEAN : SetError(p, e)
             \/ Confirm(p)
             \/ RetryReported(p)
             \/ Accepted(p)
             \/ Refused(p)
             \/ exit(p) \/ Finish(p) \/ Crash(p)
             \/ Unreachable(p)
      PROVE  NoCancelReported'
  BY <1>1, <1>5 DEF SetError, Confirm, RetryReported, Accepted, Refused, exit, Finish, Crash,
     Unreachable, hangUp, networkVars
<1>6. ASSUME NEW p \in Pids, GetPin(p) PROVE NoCancelReported'
  BY <1>1, <1>4, <1>6 DEF GetPin, networkVars
<1>7. ASSUME NEW p \in Pids, StreamClose(p) PROVE NoCancelReported'
  <2>1. cookie[p] # NoCookie => finalResult(p) # "cancelled"
    BY <1>7 DEF StreamClose, IdleOwes, finalResult
  <2> QED
    BY <1>4, <1>5, <1>7, <2>1 DEF StreamClose
<1>8. ASSUME NEW p \in Pids, SendRequest(p) PROVE NoCancelReported'
  <2>1. PICK c \in Cookies, k \in Conns :
           send(p, k, [type |-> "pinentry_request", cookie |-> c,
                       confirmOnly |-> stage[p] = "confirm",
                       hasError |-> stage[p] = "getpin" /\ error[p]])
    BY <1>8 DEF SendRequest
  <2> QED
    BY <1>3, <2>1
<1>9. ASSUME NEW k \in Conns, ReceiveRequest(k) \/ ReceiveResult(k) \/ Disconnected(k)
      PROVE  NoCancelReported'
  BY <1>1, <1>2, <1>9 DEF ReceiveRequest, ReceiveResult, Disconnected
<1>10. ASSUME NEW c \in Cookies,
              \/ ResultTimeout(c)
              \/ \E response \in {"ok", "okEmpty"} : Respond(c, response)
              \/ Cancel(c)
       PROVE  NoCancelReported'
  BY <1>1, <1>10 DEF ResultTimeout, Respond, Cancel, networkVars
<1>11. CASE UNCHANGED vars
  BY <1>1, <1>11 DEF vars, networkVars
<1> QED
  BY <1>5, <1>6, <1>7, <1>8, <1>9, <1>10, <1>11 DEF Next

\* Who waits where a reply is.
LEMMA ReplyReader ==
    ASSUME FInv, NEW k \in Conns, reply[k] # "none"
    PROVE  /\ peer[k] \in Pids /\ conn[peer[k]] = k
           /\ cookie[peer[k]] \in Cookies /\ cookie[peer[k]] # NoCookie
           /\ ~hungup[k]
<1>1. peer[k] # NoPid /\ ~hungup[k]
  BY DEF FInv, ConnsBelong
<1>2. peer[k] \in Pids
  BY <1>1 DEF FInv, TypeOK, M!TypeOK
<1>3. conn[peer[k]] = k /\ stage[peer[k]] \in Talking
  BY <1>1, <1>2, NoConnAssumption DEF FInv, ConnsBelong
<1>4. cookie[peer[k]] \in Cookies
  BY <1>2, <1>3 DEF FInv, CookieKnown
<1> QED
  BY <1>1, <1>2, <1>3, <1>4, NoCookieAssumption

\* A process that acts gives up what it could read, and touches no other's flow.
LEMMA OwnAnswers ==
    ASSUME OInv, FInv', AnswerIsOwn, NEW p \in Pids,
           \A k \in Conns : peer[k] # NoPid => peer'[k] = peer[k],
           \A k \in Conns : reply'[k] \in {reply[k], "none"},
           conn[p] # NoConn => reply'[conn[p]] = "none",
           \A q \in Pids \ {p} : cookie'[q] = cookie[q],
           \A c \in Cookies : c # cookie[p] => answer'[c] = answer[c]
    PROVE  AnswerIsOwn'
<1> SUFFICES ASSUME NEW k \in Conns, reply'[k] \in {"ok", "okEmpty", "confirmed"}
             PROVE  /\ peer'[k] \in Pids /\ conn'[peer'[k]] = k
                    /\ cookie'[peer'[k]] \in Cookies
                    /\ answer'[cookie'[peer'[k]]] = "sent"
  BY DEF AnswerIsOwn
<1> DEFINE q == peer[k]
<1>1. reply[k] = reply'[k] /\ reply[k] # "none"
  OBVIOUS
<1>2. /\ q \in Pids /\ conn[q] = k /\ cookie[q] \in Cookies /\ cookie[q] # NoCookie
      /\ answer[cookie[q]] = "sent"
  BY <1>1, ReplyReader DEF OInv, AnswerIsOwn
<1>3. q # p
  BY <1>1, <1>2, NoConnAssumption
<1>4. peer'[k] = q
  BY <1>2, NoPidAssumption
<1>5. cookie[q] # cookie[p]
  BY <1>2, <1>3 DEF OInv, CookiesDiffer
<1>6. conn'[peer'[k]] = k
  <2>1. FInv'
    OBVIOUS
  <2>2. reply'[k] # "none"
    BY <1>1
  <2>3. peer'[k] # NoPid /\ ~hungup'[k]
    BY <2>1, <2>2 DEF FInv, ConnsBelong
  <2> QED
    BY <2>1, <2>3 DEF FInv, ConnsBelong
<1> QED
  BY <1>2, <1>3, <1>4, <1>5, <1>6

\* Waiting, or not, when a step of the process begins.
LEMMA HangUpAnswers ==
    ASSUME FInv, NEW p \in Pids, hangUp(p), conn[p] # NoConn
    PROVE  /\ \A k \in Conns : reply'[k] \in {reply[k], "none"}
           /\ reply'[conn[p]] = "none"
BY DEF hangUp, FInv, TypeOK

LEMMA ProcessAnswers ==
    ASSUME OInv, FInv', AnswerIsOwn, NEW p \in Pids,
           \/ \E e \in BOOLEAN : SetError(p, e)
           \/ GetPin(p)
           \/ Confirm(p)
           \/ StreamClose(p)
           \/ RetryReported(p)
           \/ SendRequest(p)
           \/ Accepted(p)
           \/ Refused(p)
           \/ Finish(p)
           \/ Crash(p)
           \/ Unreachable(p)
    PROVE  AnswerIsOwn'
<1>0. /\ cookie \in [Pids -> Cookies \cup {NoCookie}] /\ answer \in [Cookies -> Answers]
      /\ conn[p] # NoConn <=> stage[p] \in Talking
  BY DEF OInv, FInv, TypeOK, ConnsBelong
<1>1. ASSUME exit(p) PROVE AnswerIsOwn'
  <2>1. /\ UNCHANGED <<peer, answer>>
        /\ cookie' = [cookie EXCEPT ![p] = NoCookie]
        /\ IF conn[p] # NoConn THEN hangUp(p) ELSE UNCHANGED reply
    BY <1>1 DEF exit, resetFlow, daemonVars, historyVars, networkVars
  <2>2. \A q \in Pids \ {p} : cookie'[q] = cookie[q]
    BY <1>0, <2>1
  <2> QED
    BY <2>1, <2>2, HangUpAnswers, OwnAnswers DEF OInv
<1>2. ASSUME Refused(p) \/ RetryReported(p) PROVE AnswerIsOwn'
  <2>1. /\ UNCHANGED <<peer, answer>>
        /\ cookie' = [cookie EXCEPT ![p] = NoCookie] \/ cookie' = cookie
        /\ conn[p] # NoConn /\ hangUp(p)
    BY <1>0, <1>2 DEF Refused, RetryReported, Talking, resetFlow, daemonVars, historyVars
  <2>2. \A q \in Pids \ {p} : cookie'[q] = cookie[q]
    BY <1>0, <2>1
  <2> QED
    BY <2>1, <2>2, HangUpAnswers, OwnAnswers DEF OInv
<1>3. ASSUME Accepted(p) PROVE AnswerIsOwn'
  <2>1. /\ UNCHANGED <<peer, cookie>>
        /\ conn[p] # NoConn /\ hangUp(p)
    BY <1>0, <1>3 DEF Accepted, Talking, daemonVars
  <2>2. PICK a : answer' = [answer EXCEPT ![cookie[p]] = a]
    BY <1>3 DEF Accepted
  <2>3. \A c \in Cookies : c # cookie[p] => answer'[c] = answer[c]
    BY <1>0, <2>2
  <2> QED
    BY <2>1, <2>3, HangUpAnswers, OwnAnswers DEF OInv
<1>4. ASSUME stage[p] \notin Talking, UNCHANGED <<reply, answer>>,
             \A k \in Conns : peer[k] # NoPid => peer'[k] = peer[k],
             \A q \in Pids \ {p} : cookie'[q] = cookie[q]
      PROVE  AnswerIsOwn'
  BY <1>0, <1>4, OwnAnswers
<1>5. ASSUME NEW k \in Conns, NEW msg, send(p, k, msg), stage[p] \notin Talking, answer' = answer,
             \A q \in Pids \ {p} : cookie'[q] = cookie[q]
      PROVE  AnswerIsOwn'
  BY <1>4, <1>5, SendSends DEF OInv
<1>6. ASSUME (\E e \in BOOLEAN : SetError(p, e)) \/ Confirm(p) PROVE AnswerIsOwn'
  BY <1>4, <1>6 DEF SetError, Confirm, Talking, daemonVars, networkVars, historyVars
<1>7. ASSUME GetPin(p) PROVE AnswerIsOwn'
  <2>1. stage[p] \notin Talking /\ UNCHANGED <<cookie, answer>>
    BY <1>7 DEF GetPin, Talking, historyVars
  <2>2. CASE \E k \in Conns : report(p, k, "retry")
    BY <1>5, <2>1, <2>2 DEF report
  <2>3. CASE UNCHANGED <<daemonVars, networkVars>>
    BY <1>4, <2>1, <2>3 DEF daemonVars, networkVars
  <2> QED
    BY <1>7, <2>2, <2>3 DEF GetPin
<1>8. ASSUME StreamClose(p) PROVE AnswerIsOwn'
  <2>1. CASE cookie[p] = NoCookie
    BY <1>1, <1>8, <2>1 DEF StreamClose
  <2>2. CASE cookie[p] # NoCookie
    <3>1. stage[p] \notin Talking /\ UNCHANGED <<cookie, answer>>
      BY <1>8, <2>2 DEF StreamClose, Talking, historyVars
    <3>2. PICK k \in Conns : report(p, k, finalResult(p))
      BY <1>8, <2>2 DEF StreamClose
    <3> QED
      BY <1>5, <3>1, <3>2 DEF report
  <2> QED
    BY <2>1, <2>2
<1>9. ASSUME SendRequest(p) PROVE AnswerIsOwn'
  <2>1. PICK c \in Cookies, k \in Conns :
           /\ send(p, k, [type |-> "pinentry_request", cookie |-> c,
                          confirmOnly |-> stage[p] = "confirm",
                          hasError |-> stage[p] = "getpin" /\ error[p]])
           /\ cookie' = [cookie EXCEPT ![p] = c]
    BY <1>9 DEF SendRequest
  <2>2. stage[p] \notin Talking /\ answer' = answer
    BY <1>9 DEF SendRequest, Talking
  <2>3. \A q \in Pids \ {p} : cookie'[q] = cookie[q]
    BY <1>0, <2>1
  <2> QED
    BY <1>5, <2>1, <2>2, <2>3
<1>10. ASSUME Unreachable(p) PROVE AnswerIsOwn'
  <2>1. CASE /\ stage[p] \in {"idle", "getpin", "confirm"}
             /\ UNCHANGED <<daemonVars, networkVars, historyVars>>
             /\ resetFlow(p) \/ cookie' = cookie
    <3>1. \A q \in Pids \ {p} : cookie'[q] = cookie[q]
      BY <1>0, <2>1 DEF resetFlow
    <3> QED
      BY <1>4, <2>1, <3>1 DEF Talking, daemonVars, networkVars, historyVars
  <2> QED
    BY <1>1, <1>10, <2>1 DEF Unreachable
<1> QED
  BY <1>1, <1>2, <1>3, <1>6, <1>7, <1>8, <1>9, <1>10 DEF Finish, Crash

LEMMA DaemonAnswers ==
    ASSUME OInv, FInv', AnswerIsOwn,
           \/ \E k \in Conns : ReceiveRequest(k) \/ ReceiveResult(k) \/ Disconnected(k)
           \/ \E c \in Cookies :
                 \/ ResultTimeout(c)
                 \/ \E response \in {"ok", "okEmpty"} : Respond(c, response)
                 \/ Cancel(c)
    PROVE  AnswerIsOwn'
<1>0. /\ reply \in [Conns -> Replies] /\ peer \in [Conns -> Pids \cup {NoPid}]
      /\ answer \in [Cookies -> Answers] /\ cookie \in [Pids -> Cookies \cup {NoCookie}]
      /\ \A k \in Conns : inbox[k] \in Messages
  BY DEF OInv, FInv, TypeOK, M!TypeOK
\* Flows go on; a reply that was there before is still the answer.
<1>1. ASSUME UNCHANGED <<cookie, conn>>,
             \A k \in Conns : reply'[k] \in {"ok", "okEmpty", "confirmed"} =>
                /\ reply[k] \in {"ok", "okEmpty", "confirmed"}
                /\ peer'[k] = peer[k]
                /\ answer'[cookie[peer[k]]] = answer[cookie[peer[k]]]
      PROVE  AnswerIsOwn'
  BY <1>1 DEF AnswerIsOwn
<1>2. ASSUME NEW k \in Conns, ReceiveRequest(k) PROVE AnswerIsOwn'
  <2> DEFINE d == inbox[k].cookie
  <2>1. /\ UNCHANGED <<peer, reply, cookie, conn>>
        /\ answer' = [answer EXCEPT ![d] = "none"]
        /\ Requested(k, d)
    BY <1>2 DEF ReceiveRequest, M!handleRequest, M!vars, clientVars, Requested
  <2>2. ASSUME NEW j \in Conns, reply[j] \in {"ok", "okEmpty", "confirmed"}
        PROVE  cookie[peer[j]] # d
    <3>1. peer[j] \in Pids /\ conn[peer[j]] = j /\ inbox[j] = NoMsg
      BY <2>2, ReplyReader DEF OInv, ReadBeforeReply
    <3>2. Requested(k, cookie[peer[j]]) => j = k
      BY <3>1 DEF OInv, OneRequest
    <3>3. inbox[k].type = "pinentry_request"
      BY <2>1 DEF Requested
    <3>4. ~Requested(k, cookie[peer[j]])
      BY <3>1, <3>2, <3>3 DEF NoMsg
    <3> QED
      BY <2>1, <3>4
  <2>3. \A j \in Conns : reply[j] \in {"ok", "okEmpty", "confirmed"} =>
           answer'[cookie[peer[j]]] = answer[cookie[peer[j]]]
    BY <1>0, <2>1, <2>2, ReplyReader DEF OInv
  <2> HIDE DEF d
  <2> QED
    BY <1>1, <2>1, <2>3
<1>3. ASSUME NEW k \in Conns, ReceiveResult(k) PROVE AnswerIsOwn'
  <2>1. UNCHANGED <<peer, cookie, conn, answer>> /\ sendJson(k, "done")
    BY <1>3 DEF ReceiveResult, M!handleResult, daemonVars, clientVars, historyVars
  <2>2. \A j \in Conns : reply'[j] \in {reply[j], "done"}
    BY <1>0, <2>1 DEF sendJson
  <2> QED
    BY <1>1, <2>1, <2>2
<1>4. ASSUME NEW k \in Conns, Disconnected(k) PROVE AnswerIsOwn'
  <2>1. /\ UNCHANGED <<reply, cookie, conn, answer>>
        /\ peer' = [peer EXCEPT ![k] = NoPid] /\ hungup[k]
    BY <1>4 DEF Disconnected, M!cleanupForSocket, clientVars, historyVars
  <2>2. reply[k] = "none"
    BY <2>1 DEF OInv, FInv, ConnsBelong
  <2>3. \A j \in Conns : reply[j] # "none" => peer'[j] = peer[j]
    BY <1>0, <2>1, <2>2
  <2> QED
    BY <1>1, <2>1, <2>3
<1>5. ASSUME NEW c \in Cookies, ResultTimeout(c) PROVE AnswerIsOwn'
  BY <1>1, <1>5 DEF ResultTimeout, M!resultTimeout, networkVars, clientVars, historyVars
<1>6. ASSUME NEW c \in Cookies, NEW response \in {"ok", "okEmpty"}, Respond(c, response)
      PROVE  AnswerIsOwn'
  <2> DEFINE k == pending[c].conn
  <2>1. /\ UNCHANGED <<peer, cookie, conn>> /\ c \in DOMAIN pending
        /\ answer' = [answer EXCEPT ![c] = "sent"]
        /\ sendJson(k, answerTo(c, response))
    BY <1>6 DEF Respond, M!handleResponse, clientVars
  <2>2. /\ k \in Conns /\ peer[k] = owner[c] /\ owner[c] \in Pids
        /\ ~hungup[k] => conn[owner[c]] = k /\ cookie[owner[c]] = c
    BY <2>1, OwnerKnown DEF OInv, FInv, PromptIsHeard
  <2>3. \A e \in Cookies : answer'[e] = "sent" \/ answer'[e] = answer[e]
    BY <1>0, <2>1
  <2>4. answer'[c] = "sent"
    BY <1>0, <2>1
  <2>5. \A j \in Conns : j # k \/ hungup[k] => reply'[j] = reply[j]
    BY <1>0, <2>1 DEF sendJson
  <2> HIDE DEF k
  <2>6. ASSUME NEW j \in Conns, reply'[j] \in {"ok", "okEmpty", "confirmed"}
        PROVE  /\ peer'[j] \in Pids /\ conn'[peer'[j]] = j
               /\ cookie'[peer'[j]] \in Cookies
               /\ answer'[cookie'[peer'[j]]] = "sent"
    <3>1. CASE j = k /\ ~hungup[k]
      BY <2>1, <2>2, <2>4, <3>1
    <3>2. CASE reply'[j] = reply[j]
      BY <2>1, <2>3, <2>6, <3>2 DEF AnswerIsOwn
    <3> QED
      BY <2>5, <3>1, <3>2
  <2> QED
    BY <2>6 DEF AnswerIsOwn
<1>7. ASSUME NEW c \in Cookies, Cancel(c) PROVE AnswerIsOwn'
  <2>1. /\ UNCHANGED <<peer, cookie, conn, answer>>
        /\ reply' = reply \/ sendJson(pending[c].conn, "cancelled")
    BY <1>7 DEF Cancel, M!handleCancel, clientVars, historyVars
  <2>2. \A j \in Conns : reply'[j] \in {reply[j], "cancelled"}
    BY <1>0, <2>1 DEF sendJson
  <2> QED
    BY <1>1, <2>1, <2>2
<1> QED
  BY <1>2, <1>3, <1>4, <1>5, <1>6, <1>7

LEMMA AnswerIsOwnStep == OInv /\ AnswerIsOwn /\ [Next]_vars => AnswerIsOwn'
<1> SUFFICES ASSUME OInv, AnswerIsOwn, [Next]_vars PROVE AnswerIsOwn'
  OBVIOUS
<1>1. FInv'
  BY NextFInv DEF OInv
<1>2. CASE UNCHANGED vars
  BY <1>2 DEF vars, daemonVars, networkVars, clientVars, historyVars, AnswerIsOwn
<1> QED
  BY <1>1, <1>2, ProcessAnswers, DaemonAnswers DEF Next

\* A process between commands has a flow exactly while it owes an outcome, and
\* so none of them ever reports a cancel (pinentry.cpp:204-225, 409-448).
THEOREM NobodyReportsCancel == Spec => [](IdleOwes /\ NoCancelReported)
<1>1. Init => IdleOwes /\ NoCancelReported
  BY DEF Init, IdleOwes, NoCancelReported, NoMsg
<1>2. FInv /\ IdleOwes /\ NoCancelReported /\ [Next]_vars => IdleOwes' /\ NoCancelReported'
  BY IdleOwesStep, NoCancelStep
<1> QED
  BY <1>1, <1>2, FlowInvariance, PTL DEF Spec

\* What a process hands to its caller is of the kind that it asked for, and what
\* the user sent to the last prompt of its own flow, however late the daemon
\* reads what (PinentryManager.cpp:122-147, 256-261).
THEOREM AnswersAreOwn == Spec => []AnswersArrive
<1>1. Init => AnswerIsOwn
  BY DEF Init, AnswerIsOwn
<1>2. FInv /\ AnswerIsOwn => AnswersArrive
  BY DEF FInv, AnswersArrive
<1> QED
  BY <1>1, <1>2, AnswerIsOwnStep, OutcomeInvariance, FlowInvariance, PTL DEF Spec

\* The session of a process that has gone is about to end: its timer runs, or
\* the daemon has yet to read that the prompt's connection was hung up.  Only a
\* retry that was reported last leaves it to the user (PinentryManager.cpp:145,
\* 185-191, 256-265).
OrphanIsDue ==
    \A c \in open : stage[owner[c]] = "exited" =>
        \/ c \in awaiting
        \/ c \in DOMAIN pending /\ hungup[pending[c].conn]
        \/ c \in retryReported

THEOREM OrphansAreDue == Spec => []OrphanIsDue
<1>1. FInv => OrphanIsDue
  <2> SUFFICES ASSUME FInv, NEW c \in open, stage[owner[c]] = "exited",
                      c \notin awaiting, c \notin retryReported
               PROVE  c \in DOMAIN pending /\ hungup[pending[c].conn]
    BY DEF OrphanIsDue
  <2>1. c \in DOMAIN pending
    BY DEF FInv, P!IInv, P!IdleOnlyAfterRetry
  <2> QED
    BY <2>1 DEF FInv, PromptIsHeard
<1> QED
  BY <1>1, FlowInvariance, PTL

\* The manager keeps its promises between the shipped processes, too.
THEOREM ManagerKeepsPromises ==
    Spec => [](M!PhasesAreExclusive /\ M!OwnedIffOpen /\ M!ReplyGoesToOwner /\ M!IdleOnlyAfterRetry)
<1>1. FInv => /\ M!PhasesAreExclusive /\ M!OwnedIffOpen
              /\ M!ReplyGoesToOwner /\ M!IdleOnlyAfterRetry
  BY DEF FInv, P!IInv, P!PhasesAreExclusive, M!PhasesAreExclusive, P!OwnedIffOpen, M!OwnedIffOpen,
     P!ReplyGoesToOwner, M!ReplyGoesToOwner, P!IdleOnlyAfterRetry, M!IdleOnlyAfterRetry
<1> QED
  BY <1>1, FlowInvariance, PTL
=============================================================================
