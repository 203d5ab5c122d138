------------------------- MODULE PinentryFlowProofs -------------------------
(***************************************************************************)
(* PinentryFlow implements PinentryManager, and its own invariants, for    *)
(* any number of processes, connections and cookies.                       *)
(*                                                                         *)
(* The argument is about connections.  A process has one exactly while it  *)
(* waits in sendRequest, the daemon knows who is behind it, and a message  *)
(* on it says what its process is doing now, unless it was hung up since.  *)
(* So a prompt that a request puts on the screen is one that its process   *)
(* waits for, and every reply is of the kind that is waited for.           *)
(***************************************************************************)
EXTENDS PinentryFlow, TLAPS

P == INSTANCE PinentryManagerProofs

\* Inside sendRequest.
Talking == {"retrying", "getting", "confirming", "finishing"}

ConnsBelong ==
    /\ \A p \in Pids : conn[p] # NoConn => peer[conn[p]] = p /\ ~hungup[conn[p]]
    /\ \A k \in Conns : peer[k] # NoPid /\ ~hungup[k] => conn[peer[k]] = k
    /\ \A k \in Conns : peer[k] = NoPid => inbox[k] = NoMsg /\ ~hungup[k]
    /\ \A k \in Conns : peer[k] = NoPid \/ hungup[k] => reply[k] = "none"
    /\ \A p \in Pids : conn[p] # NoConn <=> stage[p] \in Talking

CookieKnown ==
    \A p \in Pids : submitted[p] \/ stage[p] \in Talking => cookie[p] \in Cookies

MessagesFit ==
    \A k \in Conns : ~hungup[k] =>
        /\ inbox[k].type = "pinentry_request" =>
              /\ cookie[peer[k]] = inbox[k].cookie
              /\ stage[peer[k]] = IF inbox[k].confirmOnly THEN "confirming" ELSE "getting"
        /\ inbox[k].type = "pinentry_result" => stage[peer[k]] \in {"retrying", "finishing"}

FInv ==
    /\ TypeOK
    /\ P!IInv
    /\ ConnsBelong
    /\ CookieKnown
    /\ MessagesFit
    /\ PromptIsHeard
    /\ AnswerFits

-----------------------------------------------------------------------------
(* The manager inside.                                                     *)

LEMMA ManagerInit == M!Init => P!IInv
<1>1. M!Init <=> P!Init
  BY DEF M!Init, P!Init
<1> QED
  BY <1>1, P!InitIInv, NoPidAssumption DEF P!NoPidAssumption

\* The manager's induction step, for the instance that the flow uses.
LEMMA ManagerStep == P!IInv /\ [M!Next]_(M!vars) => P!IInv'
<1>1. M!Next <=> P!Next
  BY Zenon DEF M!Next, P!Next, M!Accept, P!Accept, M!handleRequest, P!handleRequest,
     M!isConnected, P!isConnected, M!managerVars, P!managerVars, M!storeVars, P!storeVars,
     M!vars, P!vars, M!With, P!With, M!Without, P!Without,
     M!cleanupAwaiting, P!cleanupAwaiting, M!requestFails, P!requestFails,
     M!Outcomes, P!Outcomes, M!handleResult, P!handleResult,
     M!validateResultOwner, P!validateResultOwner, M!closeFlows, P!closeFlows,
     M!reportRetry, P!reportRetry, M!cleanupForSocket, P!cleanupForSocket,
     M!handleResponse, P!handleResponse, M!handleCancel, P!handleCancel,
     M!hasRequest, P!hasRequest, M!resultTimeout, P!resultTimeout
<1>2. UNCHANGED M!vars <=> UNCHANGED P!vars
  BY DEF M!vars, M!managerVars, M!storeVars, P!vars, P!managerVars, P!storeVars
<1> QED
  BY <1>1, <1>2, P!NextIInv, NoPidAssumption DEF P!NoPidAssumption

LEMMA SameTypes == M!TypeOK <=> P!TypeOK
  BY Zenon DEF M!TypeOK, P!TypeOK, M!Outcomes, P!Outcomes

\* Who is behind a prompt.
LEMMA OwnerKnown ==
    ASSUME P!IInv, NEW c \in DOMAIN pending
    PROVE  /\ c \in Cookies
           /\ owner[c] \in Pids
           /\ pending[c].conn \in Conns
           /\ pending[c].confirmOnly \in BOOLEAN
           /\ peer[pending[c].conn] = owner[c]
           /\ pending[c].conn # NoConn
           /\ owner[c] # NoPid
<1>1. P!TypeOK /\ P!OwnedIffOpen /\ P!ReplyGoesToOwner
  BY DEF P!IInv
<1>2. c \in Cookies /\ pending[c].conn \in Conns /\ pending[c].confirmOnly \in BOOLEAN
  BY <1>1 DEF P!TypeOK
<1>3. c \in DOMAIN owner
  BY <1>1 DEF P!OwnedIffOpen
<1>4. owner[c] \in Pids
  BY <1>1, <1>3 DEF P!TypeOK
<1>5. peer[pending[c].conn] = owner[c]
  BY <1>1 DEF P!ReplyGoesToOwner
<1> QED
  BY <1>2, <1>4, <1>5, NoConnAssumption, NoPidAssumption

\* What a message can be, by its type.
LEMMA MessageKinds ==
    ASSUME NEW m \in Messages
    PROVE  /\ m.type \in {"none", "pinentry_request", "pinentry_result"}
           /\ m.type = "none" <=> m = NoMsg
           /\ m.type = "pinentry_request" =>
                 m \in [type : {"pinentry_request"}, cookie : Cookies,
                        confirmOnly : BOOLEAN, hasError : BOOLEAN]
           /\ m.type = "pinentry_result" =>
                 m \in [type : {"pinentry_result"}, cookie : Cookies,
                        result : {"success", "cancelled", "error", "retry"}]
  BY DEF Messages, NoMsg

\* Every step of the flow is one of the manager, or none.
LEMMA FlowStep ==
    ASSUME FInv, [Next]_vars
    PROVE  [M!Next]_(M!vars)
<1>0. UNCHANGED daemonVars => UNCHANGED M!vars
  BY DEF daemonVars, M!vars, M!managerVars, M!storeVars
<1>1. ASSUME NEW p \in Pids, NEW k \in Conns, NEW msg, send(p, k, msg)
      PROVE  M!Next
  BY <1>1 DEF send, M!Next
<1>2. ASSUME NEW p \in Pids,
             \/ GetPin(p)
             \/ StreamClose(p)
             \/ SendRequest(p)
      PROVE  M!Next \/ UNCHANGED daemonVars
  BY <1>1, <1>2 DEF GetPin, StreamClose, SendRequest, report, exit
<1>3. ASSUME NEW p \in Pids,
             \/ \E e \in BOOLEAN : SetError(p, e)
             \/ Confirm(p)
             \/ RetryReported(p)
             \/ Accepted(p)
             \/ Refused(p)
             \/ Finish(p)
             \/ Crash(p)
             \/ Unreachable(p)
      PROVE  UNCHANGED daemonVars
  BY <1>3 DEF SetError, Confirm, RetryReported, Accepted, Refused, Finish, Crash, Unreachable, exit
<1>4. ASSUME NEW k \in Conns, ReceiveRequest(k) PROVE M!Next
  <2>1. /\ inbox[k].cookie \in Cookies
        /\ inbox[k].confirmOnly \in BOOLEAN
        /\ inbox[k].hasError \in BOOLEAN
    <3>1. inbox[k] \in Messages /\ inbox[k].type = "pinentry_request"
      BY <1>4 DEF ReceiveRequest, FInv, TypeOK
    <3> QED
      BY <3>1, MessageKinds
  <2>2. M!handleRequest(inbox[k].cookie, k, inbox[k].confirmOnly, inbox[k].hasError)
    BY <1>4 DEF ReceiveRequest
  <2> QED
    BY <2>1, <2>2 DEF M!Next
<1>5. ASSUME NEW k \in Conns, ReceiveResult(k) PROVE M!Next \/ UNCHANGED daemonVars
  <2>1. inbox[k] \in Messages /\ inbox[k].type = "pinentry_result"
    BY <1>5 DEF ReceiveResult, FInv, TypeOK
  <2>2. /\ inbox[k].cookie \in Cookies
        /\ inbox[k].result \in M!Outcomes \cup {"retry"}
        /\ inbox[k] # NoMsg
    BY <2>1, MessageKinds DEF M!Outcomes
  <2>3. M!isConnected(k)
    BY <2>2 DEF FInv, ConnsBelong, M!isConnected
  <2>4. M!handleResult(inbox[k].cookie, peer[k], inbox[k].result) \/ UNCHANGED daemonVars
    BY <1>5 DEF ReceiveResult
  <2> QED
    BY <2>2, <2>3, <2>4 DEF M!Next
<1>6. ASSUME NEW k \in Conns, Disconnected(k) PROVE M!Next
  BY <1>6 DEF Disconnected, M!Next
<1>7. ASSUME NEW c \in Cookies,
             \/ ResultTimeout(c)
             \/ \E response \in {"ok", "okEmpty"} : Respond(c, response)
             \/ Cancel(c)
      PROVE  M!Next
  BY <1>7 DEF ResultTimeout, Respond, Cancel, M!Next
<1>8. CASE UNCHANGED vars
  BY <1>0, <1>8 DEF vars
<1> QED
  BY <1>0, <1>2, <1>3, <1>4, <1>5, <1>6, <1>7, <1>8 DEF Next

-----------------------------------------------------------------------------
(* What the steps of a process do to the connections.                      *)

\* A process that is not waiting changes its own state.
LEMMA QuietStep ==
    ASSUME FInv, P!IInv', NEW p \in Pids,
           UNCHANGED <<daemonVars, networkVars, conn, historyVars>>,
           stage[p] \notin Talking, stage'[p] \in Stages \ Talking,
           submitted'[p] => cookie'[p] \in Cookies,
           stage' = [stage EXCEPT ![p] = stage'[p]],
           cookie' \in [Pids -> Cookies \cup {NoCookie}],
           submitted' \in [Pids -> BOOLEAN],
           error' \in [Pids -> BOOLEAN],
           \A q \in Pids \ {p} : cookie'[q] = cookie[q] /\ submitted'[q] = submitted[q]
    PROVE  FInv'
<1>0. TypeOK /\ P!IInv /\ ConnsBelong /\ CookieKnown /\ MessagesFit /\ PromptIsHeard /\ AnswerFits
  BY DEF FInv
<1>1. UNCHANGED <<peer, pending, owner, inbox, hungup, reply, conn, used, answer>>
  BY DEF daemonVars, networkVars, historyVars
<1>2. /\ stage \in [Pids -> Stages]
      /\ \A q \in Pids \ {p} : stage'[q] = stage[q]
  BY <1>0 DEF TypeOK
<1>3. stage' \in [Pids -> Stages]
  BY <1>2
<1>4. TypeOK'
  <2>1. M!TypeOK'
    BY SameTypes, PTL DEF P!IInv
  <2> QED
    BY <1>0, <1>1, <1>3, <2>1 DEF TypeOK
<1>5. conn[p] = NoConn
  BY <1>0 DEF ConnsBelong
<1>6. ConnsBelong'
  BY <1>0, <1>1, <1>2, <1>5 DEF ConnsBelong
<1>7. CookieKnown'
  BY <1>0, <1>2 DEF CookieKnown
<1>8. \A k \in Conns : ~hungup[k] /\ inbox[k] # NoMsg => peer[k] \in Pids \ {p}
  BY <1>0, <1>5, NoConnAssumption DEF ConnsBelong, TypeOK, M!TypeOK
<1>9. MessagesFit'
  <2> SUFFICES ASSUME NEW k \in Conns, ~hungup[k], inbox[k] # NoMsg
               PROVE  /\ inbox[k].type = "pinentry_request" =>
                            /\ cookie'[peer[k]] = inbox[k].cookie
                            /\ stage'[peer[k]] = IF inbox[k].confirmOnly THEN "confirming"
                                                                         ELSE "getting"
                      /\ inbox[k].type = "pinentry_result" =>
                            stage'[peer[k]] \in {"retrying", "finishing"}
    BY <1>1 DEF MessagesFit, NoMsg
  <2> QED
    BY <1>0, <1>2, <1>8 DEF MessagesFit
<1>10. PromptIsHeard'
  <2> SUFFICES ASSUME NEW c \in DOMAIN pending, ~hungup[pending[c].conn]
               PROVE  /\ conn[owner[c]] = pending[c].conn
                      /\ cookie'[owner[c]] = c
                      /\ stage'[owner[c]] = IF pending[c].confirmOnly THEN "confirming"
                                                                      ELSE "getting"
    BY <1>1 DEF PromptIsHeard
  <2>1. owner[c] \in Pids \ {p}
    BY <1>0, <1>5, OwnerKnown DEF PromptIsHeard
  <2> QED
    BY <1>0, <1>2, <2>1 DEF PromptIsHeard
<1>11. AnswerFits'
  <2> SUFFICES ASSUME NEW q \in Pids
               PROVE  /\ stage'[q] = "getting" => ~Replied(q, {"confirmed", "done"})
                      /\ stage'[q] = "confirming" => ~Replied(q, {"ok", "okEmpty", "done"})
                      /\ stage'[q] \in {"retrying", "finishing"} => Replied(q, {"none", "done"})
    BY <1>1 DEF AnswerFits, Replied
  <2>1. CASE q = p
    BY <2>1 DEF Talking
  <2>2. CASE q # p
    BY <1>0, <1>2, <2>2 DEF AnswerFits
  <2> QED
    BY <2>1, <2>2
<1> QED
  BY <1>4, <1>6, <1>7, <1>9, <1>10, <1>11 DEF FInv

\* sendRequest returns: what was waited for on the connection goes with it.
LEMMA HangUpStep ==
    ASSUME FInv, P!IInv', NEW p \in Pids, hangUp(p),
           UNCHANGED daemonVars,
           stage[p] \in Talking, stage'[p] \in Stages \ Talking,
           submitted'[p] => cookie'[p] \in Cookies,
           stage' = [stage EXCEPT ![p] = stage'[p]],
           cookie' \in [Pids -> Cookies \cup {NoCookie}],
           submitted' \in [Pids -> BOOLEAN],
           error' \in [Pids -> BOOLEAN],
           \A q \in Pids \ {p} : cookie'[q] = cookie[q] /\ submitted'[q] = submitted[q],
           used' = used, answer' \in [Cookies -> Answers]
    PROVE  FInv'
<1> DEFINE k0 == conn[p]
<1>0. TypeOK /\ P!IInv /\ ConnsBelong /\ CookieKnown /\ MessagesFit /\ PromptIsHeard /\ AnswerFits
  BY DEF FInv
<1>1. /\ UNCHANGED <<peer, pending, owner, inbox>>
      /\ hungup' = [hungup EXCEPT ![k0] = TRUE]
      /\ reply' = [reply EXCEPT ![k0] = "none"]
      /\ conn' = [conn EXCEPT ![p] = NoConn]
  BY DEF daemonVars, hangUp
<1>2. /\ stage \in [Pids -> Stages] /\ conn \in [Pids -> Conns \cup {NoConn}]
      /\ hungup \in [Conns -> BOOLEAN] /\ reply \in [Conns -> Replies]
      /\ peer \in [Conns -> Pids \cup {NoPid}]
  BY <1>0 DEF TypeOK, M!TypeOK
<1>3. /\ k0 \in Conns /\ peer[k0] = p /\ ~hungup[k0] /\ p # NoPid
  BY <1>0, <1>2, NoPidAssumption DEF ConnsBelong
<1>4. /\ stage' \in [Pids -> Stages]
      /\ \A q \in Pids \ {p} : stage'[q] = stage[q] /\ conn'[q] = conn[q]
      /\ conn'[p] = NoConn
      /\ conn' \in [Pids -> Conns \cup {NoConn}]
  BY <1>1, <1>2
<1>5. /\ hungup' \in [Conns -> BOOLEAN] /\ hungup'[k0]
      /\ \A k \in Conns \ {k0} : hungup'[k] = hungup[k]
  BY <1>1, <1>2, <1>3
<1>6. /\ reply' \in [Conns -> Replies] /\ reply'[k0] = "none"
      /\ \A k \in Conns \ {k0} : reply'[k] = reply[k]
  BY <1>1, <1>2, <1>3 DEF Replies
<1>7. \A q \in Pids \ {p} : conn[q] # NoConn => conn[q] \in Conns \ {k0}
  BY <1>0, <1>2, <1>3 DEF ConnsBelong
<1>8. \A k \in Conns : ~hungup'[k] => k # k0 /\ ~hungup[k]
  BY <1>5
<1>9. \A k \in Conns : ~hungup'[k] /\ peer[k] # NoPid => peer[k] \in Pids \ {p}
  BY <1>0, <1>2, <1>8 DEF ConnsBelong
<1>10. TypeOK'
  <2>1. M!TypeOK'
    BY SameTypes, PTL DEF P!IInv
  <2> QED
    BY <1>0, <1>1, <1>4, <1>5, <1>6, <2>1 DEF TypeOK
<1>11. ConnsBelong'
  <2>1. \A q \in Pids : conn'[q] # NoConn => peer'[conn'[q]] = q /\ ~hungup'[conn'[q]]
    BY <1>0, <1>1, <1>4, <1>5, <1>7 DEF ConnsBelong
  <2>2. \A k \in Conns : peer'[k] # NoPid /\ ~hungup'[k] => conn'[peer'[k]] = k
    BY <1>0, <1>1, <1>4, <1>8, <1>9 DEF ConnsBelong
  <2>3. \A k \in Conns : peer'[k] = NoPid => inbox'[k] = NoMsg /\ ~hungup'[k]
    BY <1>0, <1>1, <1>3, <1>5 DEF ConnsBelong
  <2>4. \A k \in Conns : peer'[k] = NoPid \/ hungup'[k] => reply'[k] = "none"
    BY <1>0, <1>1, <1>5, <1>6 DEF ConnsBelong
  <2>5. \A q \in Pids : conn'[q] # NoConn <=> stage'[q] \in Talking
    BY <1>0, <1>4 DEF ConnsBelong
  <2> QED
    BY <2>1, <2>2, <2>3, <2>4, <2>5 DEF ConnsBelong
<1>12. CookieKnown'
  BY <1>0, <1>4 DEF CookieKnown
<1>13. MessagesFit'
  <2> SUFFICES ASSUME NEW k \in Conns, ~hungup'[k], inbox[k] # NoMsg
               PROVE  /\ inbox[k].type = "pinentry_request" =>
                            /\ cookie'[peer[k]] = inbox[k].cookie
                            /\ stage'[peer[k]] = IF inbox[k].confirmOnly THEN "confirming"
                                                                         ELSE "getting"
                      /\ inbox[k].type = "pinentry_result" =>
                            stage'[peer[k]] \in {"retrying", "finishing"}
    BY <1>1 DEF MessagesFit, NoMsg
  <2>1. ~hungup[k] /\ peer[k] \in Pids \ {p}
    BY <1>0, <1>8, <1>9 DEF ConnsBelong
  <2> QED
    BY <1>0, <1>4, <2>1 DEF MessagesFit
<1>14. PromptIsHeard'
  <2> SUFFICES ASSUME NEW c \in DOMAIN pending, ~hungup'[pending[c].conn]
               PROVE  /\ conn'[owner[c]] = pending[c].conn
                      /\ cookie'[owner[c]] = c
                      /\ stage'[owner[c]] = IF pending[c].confirmOnly THEN "confirming"
                                                                      ELSE "getting"
    BY <1>1 DEF PromptIsHeard
  <2>1. owner[c] \in Pids \ {p} /\ ~hungup[pending[c].conn]
    BY <1>0, <1>8, <1>9, OwnerKnown
  <2> QED
    BY <1>0, <1>4, <2>1 DEF PromptIsHeard
<1>15. AnswerFits'
  <2> SUFFICES ASSUME NEW q \in Pids
               PROVE  /\ stage'[q] = "getting" => ~Replied(q, {"confirmed", "done"})'
                      /\ stage'[q] = "confirming" => ~Replied(q, {"ok", "okEmpty", "done"})'
                      /\ stage'[q] \in {"retrying", "finishing"} => Replied(q, {"none", "done"})'
    BY DEF AnswerFits
  <2>1. CASE q = p
    BY <2>1 DEF Talking
  <2>2. CASE q # p
    BY <1>0, <1>4, <1>6, <1>7, <2>2 DEF AnswerFits, Replied
  <2> QED
    BY <2>1, <2>2
<1> QED
  BY <1>10, <1>11, <1>12, <1>13, <1>14, <1>15 DEF FInv

\* A process opens a connection and sends what it now waits for.
LEMMA SendStep ==
    ASSUME FInv, P!IInv', NEW p \in Pids, NEW k0 \in Conns, NEW msg \in Messages,
           send(p, k0, msg),
           stage[p] \notin Talking, stage'[p] \in Talking,
           stage' = [stage EXCEPT ![p] = stage'[p]],
           cookie'[p] \in Cookies,
           cookie' \in [Pids -> Cookies \cup {NoCookie}],
           \A q \in Pids \ {p} : cookie'[q] = cookie[q],
           msg.type = "pinentry_request" =>
              /\ cookie'[p] = msg.cookie
              /\ stage'[p] = IF msg.confirmOnly THEN "confirming" ELSE "getting",
           msg.type = "pinentry_result" => stage'[p] \in {"retrying", "finishing"},
           UNCHANGED <<submitted, error, answer>>, used' \in SUBSET Cookies
    PROVE  FInv'
<1>0. TypeOK /\ P!IInv /\ ConnsBelong /\ CookieKnown /\ MessagesFit /\ PromptIsHeard /\ AnswerFits
  BY DEF FInv
<1>1. /\ UNCHANGED <<pending, owner, hungup, reply>>
      /\ peer[k0] = NoPid
      /\ peer' = [peer EXCEPT ![k0] = p]
      /\ inbox' = [inbox EXCEPT ![k0] = msg]
      /\ conn' = [conn EXCEPT ![p] = k0]
  BY DEF send, M!Accept, M!managerVars
<1>2. /\ stage \in [Pids -> Stages] /\ conn \in [Pids -> Conns \cup {NoConn}]
      /\ inbox \in [Conns -> Messages] /\ peer \in [Conns -> Pids \cup {NoPid}]
  BY <1>0 DEF TypeOK, M!TypeOK
<1>3. /\ ~hungup[k0] /\ reply[k0] = "none" /\ conn[p] = NoConn
      /\ k0 # NoConn /\ p # NoPid
  BY <1>0, <1>1, NoConnAssumption, NoPidAssumption DEF ConnsBelong
<1>4. /\ stage' \in [Pids -> Stages]
      /\ conn'[p] = k0 /\ conn' \in [Pids -> Conns \cup {NoConn}]
      /\ \A q \in Pids \ {p} : stage'[q] = stage[q] /\ conn'[q] = conn[q]
  BY <1>1, <1>2 DEF Talking, Stages
<1>5. /\ inbox' \in [Conns -> Messages] /\ inbox'[k0] = msg /\ peer'[k0] = p
      /\ \A k \in Conns \ {k0} : inbox'[k] = inbox[k] /\ peer'[k] = peer[k]
  BY <1>1, <1>2
<1>6. \A q \in Pids \ {p} : conn[q] # NoConn => conn[q] \in Conns \ {k0}
  BY <1>0, <1>1, <1>2, NoPidAssumption DEF ConnsBelong
<1>7. \A k \in Conns \ {k0} : ~hungup[k] /\ peer[k] # NoPid => peer[k] \in Pids \ {p}
  BY <1>0, <1>2, <1>3, NoConnAssumption DEF ConnsBelong
<1>8. TypeOK'
  <2>1. M!TypeOK'
    BY SameTypes, PTL DEF P!IInv
  <2> QED
    BY <1>0, <1>1, <1>4, <1>5, <2>1 DEF TypeOK
<1>9. ConnsBelong'
  <2>1. \A q \in Pids : conn'[q] # NoConn => peer'[conn'[q]] = q /\ ~hungup'[conn'[q]]
    BY <1>0, <1>1, <1>3, <1>4, <1>5, <1>6 DEF ConnsBelong
  <2>2. \A k \in Conns : peer'[k] # NoPid /\ ~hungup'[k] => conn'[peer'[k]] = k
    BY <1>0, <1>1, <1>4, <1>5, <1>7 DEF ConnsBelong
  <2>3. \A k \in Conns : peer'[k] = NoPid => inbox'[k] = NoMsg /\ ~hungup'[k]
    BY <1>0, <1>1, <1>3, <1>5 DEF ConnsBelong
  <2>4. \A k \in Conns : peer'[k] = NoPid \/ hungup'[k] => reply'[k] = "none"
    BY <1>0, <1>1, <1>3, <1>5 DEF ConnsBelong
  <2>5. \A q \in Pids : conn'[q] # NoConn <=> stage'[q] \in Talking
    BY <1>0, <1>3, <1>4 DEF ConnsBelong
  <2> QED
    BY <2>1, <2>2, <2>3, <2>4, <2>5 DEF ConnsBelong
<1>10. CookieKnown'
  BY <1>0, <1>4 DEF CookieKnown
<1>11. MessagesFit'
  <2> SUFFICES ASSUME NEW k \in Conns, ~hungup[k], inbox'[k] # NoMsg
               PROVE  /\ inbox'[k].type = "pinentry_request" =>
                            /\ cookie'[peer'[k]] = inbox'[k].cookie
                            /\ stage'[peer'[k]] = IF inbox'[k].confirmOnly THEN "confirming"
                                                                           ELSE "getting"
                      /\ inbox'[k].type = "pinentry_result" =>
                            stage'[peer'[k]] \in {"retrying", "finishing"}
    BY <1>1 DEF MessagesFit, NoMsg
  <2>1. CASE k = k0
    BY <1>5, <2>1
  <2>2. CASE k # k0
    <3>1. peer[k] \in Pids \ {p}
      BY <1>0, <1>5, <1>7, <2>2 DEF ConnsBelong
    <3> QED
      BY <1>0, <1>4, <1>5, <2>2, <3>1 DEF MessagesFit
  <2> QED
    BY <2>1, <2>2
<1>12. PromptIsHeard'
  <2> SUFFICES ASSUME NEW c \in DOMAIN pending, ~hungup[pending[c].conn]
               PROVE  /\ conn'[owner[c]] = pending[c].conn
                      /\ cookie'[owner[c]] = c
                      /\ stage'[owner[c]] = IF pending[c].confirmOnly THEN "confirming"
                                                                      ELSE "getting"
    BY <1>1 DEF PromptIsHeard
  <2>1. owner[c] \in Pids \ {p}
    BY <1>0, <1>1, <1>7, OwnerKnown
  <2> QED
    BY <1>0, <1>4, <2>1 DEF PromptIsHeard
<1>13. AnswerFits'
  <2> SUFFICES ASSUME NEW q \in Pids
               PROVE  /\ stage'[q] = "getting" => ~Replied(q, {"confirmed", "done"})'
                      /\ stage'[q] = "confirming" => ~Replied(q, {"ok", "okEmpty", "done"})'
                      /\ stage'[q] \in {"retrying", "finishing"} => Replied(q, {"none", "done"})'
    BY DEF AnswerFits
  <2>1. CASE q = p
    BY <1>1, <1>3, <1>4, <2>1 DEF Replied
  <2>2. CASE q # p
    BY <1>0, <1>1, <1>4, <1>6, <2>2 DEF AnswerFits, Replied
  <2> QED
    BY <2>1, <2>2
<1> QED
  BY <1>8, <1>9, <1>10, <1>11, <1>12, <1>13 DEF FInv

-----------------------------------------------------------------------------
(* What the steps of the daemon do to the connections.                     *)

\* The kinds of replies that a process in stage s may read.
Fits(s, value) ==
    /\ value \in Replies
    /\ s = "getting" => value \notin {"confirmed", "done"}
    /\ s = "confirming" => value \notin {"ok", "okEmpty", "done"}
    /\ s \in {"retrying", "finishing"} => value \in {"none", "done"}

\* A step that opens and closes no connection; messages are read, and replies
\* written that fit.
LEMMA DaemonStep ==
    ASSUME FInv, P!IInv', UNCHANGED clientVars, UNCHANGED <<peer, hungup>>,
           inbox' \in [Conns -> Messages],
           \A k \in Conns : inbox'[k] \in {inbox[k], NoMsg},
           reply' \in [Conns -> Replies],
           \A k \in Conns : reply'[k] # reply[k] =>
              peer[k] # NoPid /\ ~hungup[k] /\ Fits(stage[peer[k]], reply'[k]),
           used' = used, answer' \in [Cookies -> Answers],
           PromptIsHeard'
    PROVE  FInv'
<1>0. TypeOK /\ P!IInv /\ ConnsBelong /\ CookieKnown /\ MessagesFit /\ AnswerFits
  BY DEF FInv
<1>1. UNCHANGED <<peer, hungup, stage, cookie, submitted, error, conn>>
  BY DEF clientVars
<1>2. TypeOK'
  <2>1. M!TypeOK'
    BY SameTypes, PTL DEF P!IInv
  <2> QED
    BY <1>0, <1>1, <2>1 DEF TypeOK
<1>3. ConnsBelong'
  BY <1>0, <1>1 DEF ConnsBelong
<1>4. CookieKnown'
  BY <1>0, <1>1 DEF CookieKnown
<1>5. MessagesFit'
  BY <1>0, <1>1 DEF MessagesFit, NoMsg
<1>6. AnswerFits'
  <2> SUFFICES ASSUME NEW q \in Pids, stage[q] \in Talking
               PROVE  /\ stage[q] = "getting" => ~Replied(q, {"confirmed", "done"})'
                      /\ stage[q] = "confirming" => ~Replied(q, {"ok", "okEmpty", "done"})'
                      /\ stage[q] \in {"retrying", "finishing"} => Replied(q, {"none", "done"})'
    BY <1>1 DEF AnswerFits, Talking
  <2>1. conn[q] # NoConn /\ conn[q] \in Conns /\ peer[conn[q]] = q
    BY <1>0 DEF ConnsBelong, TypeOK
  <2>2. CASE reply'[conn[q]] = reply[conn[q]]
    BY <1>0, <1>1, <2>1, <2>2 DEF AnswerFits, Replied
  <2>3. CASE reply'[conn[q]] # reply[conn[q]]
    BY <1>1, <2>1, <2>3 DEF Fits, Replied
  <2> QED
    BY <2>2, <2>3
<1> QED
  BY <1>2, <1>3, <1>4, <1>5, <1>6 DEF FInv

\* Prompts that go away leave the others heard.
LEMMA ShrinkStep ==
    ASSUME FInv, UNCHANGED clientVars, hungup' = hungup,
           \A c \in DOMAIN pending' :
              c \in DOMAIN pending /\ pending'[c] = pending[c] /\ owner'[c] = owner[c]
    PROVE  PromptIsHeard'
  BY DEF FInv, PromptIsHeard, clientVars

\* Closing flows, answering and reporting a retry take prompts away only.
LEMMA ClosingShrinks ==
    ASSUME P!IInv, NEW C, NEW result, NEW by, M!closeFlows(C, result, by)
    PROVE  \A c \in DOMAIN pending' :
              /\ c \in DOMAIN pending \ C
              /\ pending'[c] = pending[c] /\ owner'[c] = owner[c]
<1>1. DOMAIN pending \subseteq DOMAIN owner
  BY DEF P!IInv, P!OwnedIffOpen
<1> QED
  BY <1>1 DEF M!closeFlows, M!Without

\* The reply to a prompt's connection reaches the process that waits for it.
LEMMA ReplyToPrompt ==
    ASSUME FInv, NEW c \in DOMAIN pending, NEW value \in Replies,
           sendJson(pending[c].conn, value),
           pending[c].confirmOnly => value \in {"confirmed", "cancelled"},
           ~pending[c].confirmOnly => value \in {"ok", "okEmpty", "cancelled"}
    PROVE  /\ reply' \in [Conns -> Replies]
           /\ \A k \in Conns : reply'[k] # reply[k] =>
                 peer[k] # NoPid /\ ~hungup[k] /\ Fits(stage[peer[k]], reply'[k])
<1> DEFINE k0 == pending[c].conn
<1>0. TypeOK /\ P!IInv /\ PromptIsHeard
  BY DEF FInv
<1>1. k0 \in Conns /\ peer[k0] = owner[c] /\ peer[k0] # NoPid
  BY <1>0, OwnerKnown
<1>2. reply \in [Conns -> Replies]
  BY <1>0 DEF TypeOK
<1>3. CASE hungup[k0]
  BY <1>2, <1>3 DEF sendJson
<1>4. CASE ~hungup[k0]
  <2>1. reply' = [reply EXCEPT ![k0] = value]
    BY <1>4 DEF sendJson
  <2>2. reply' \in [Conns -> Replies] /\ reply'[k0] = value
        /\ \A k \in Conns \ {k0} : reply'[k] = reply[k]
    BY <1>1, <1>2, <2>1
  <2>3. stage[peer[k0]] = IF pending[c].confirmOnly THEN "confirming" ELSE "getting"
    BY <1>0, <1>1, <1>4 DEF PromptIsHeard
  <2>4. Fits(stage[peer[k0]], value)
    BY <2>3 DEF Fits
  <2> QED
    BY <1>1, <1>4, <2>2, <2>4
<1> QED
  BY <1>3, <1>4

LEMMA ReceiveRequestStep ==
    ASSUME FInv, P!IInv', NEW k \in Conns, ReceiveRequest(k)
    PROVE  FInv'
<1> DEFINE m == inbox[k]
<1>0. TypeOK /\ P!IInv /\ ConnsBelong /\ MessagesFit /\ PromptIsHeard
  BY DEF FInv
<1>1. /\ m.type = "pinentry_request" /\ m \in Messages
      /\ M!handleRequest(m.cookie, k, m.confirmOnly, m.hasError)
      /\ inbox' = [inbox EXCEPT ![k] = NoMsg]
      /\ answer' = [answer EXCEPT ![m.cookie] = "none"]
      /\ UNCHANGED <<hungup, reply, clientVars, used>>
  BY <1>0 DEF ReceiveRequest, TypeOK
<1>2. NoMsg \in Messages /\ inbox' \in [Conns -> Messages]
      /\ \A j \in Conns : inbox'[j] \in {inbox[j], NoMsg}
  BY <1>0, <1>1 DEF TypeOK, Messages
<1>3. answer' \in [Cookies -> Answers] /\ reply' \in [Conns -> Replies]
  BY <1>0, <1>1 DEF TypeOK, Answers
<1>4. peer' = peer /\ peer[k] # NoPid
  BY <1>1 DEF M!handleRequest, M!isConnected, M!vars
<1>5. PromptIsHeard'
  <2>1. CASE m.cookie \in DOMAIN owner /\ owner[m.cookie] # peer[k]
    <3>1. pending' = pending /\ owner' = owner
      BY <1>1, <2>1 DEF M!handleRequest, M!vars, M!managerVars
    <3> QED
      BY <1>0, <1>1, <3>1 DEF PromptIsHeard, clientVars
  <2>2. CASE ~(m.cookie \in DOMAIN owner /\ owner[m.cookie] # peer[k])
    <3> DEFINE request == [conn |-> k, confirmOnly |-> m.confirmOnly]
    <3>1. /\ DOMAIN pending' = DOMAIN pending \cup {m.cookie}
          /\ pending'[m.cookie] = request /\ owner'[m.cookie] = peer[k]
          /\ \A c \in DOMAIN pending \ {m.cookie} : pending'[c] = pending[c]
          /\ \A c \in DOMAIN owner \ {m.cookie} : owner'[c] = owner[c]
      BY <1>1, <2>2 DEF M!handleRequest, M!With
    <3>2. DOMAIN pending \subseteq DOMAIN owner
      BY <1>0 DEF P!IInv, P!OwnedIffOpen
    <3>3. ~hungup[k] => /\ conn[peer[k]] = k
                        /\ cookie[peer[k]] = m.cookie
                        /\ stage[peer[k]] = IF m.confirmOnly THEN "confirming" ELSE "getting"
      BY <1>0, <1>1, <1>4 DEF ConnsBelong, MessagesFit
    <3> SUFFICES ASSUME NEW c \in DOMAIN pending', ~hungup[pending'[c].conn]
                 PROVE  /\ conn[owner'[c]] = pending'[c].conn
                        /\ cookie[owner'[c]] = c
                        /\ stage[owner'[c]] = IF pending'[c].confirmOnly THEN "confirming"
                                                                         ELSE "getting"
      BY <1>1 DEF PromptIsHeard, clientVars
    <3>4. CASE c = m.cookie
      BY <3>1, <3>3, <3>4
    <3>5. CASE c # m.cookie
      BY <1>0, <3>1, <3>2, <3>5 DEF PromptIsHeard
    <3> QED
      BY <3>4, <3>5
  <2> QED
    BY <2>1, <2>2
<1> QED
  BY <1>1, <1>2, <1>3, <1>4, <1>5, DaemonStep

LEMMA ReceiveResultStep ==
    ASSUME FInv, P!IInv', NEW k \in Conns, ReceiveResult(k)
    PROVE  FInv'
<1> DEFINE m == inbox[k]
<1>0. TypeOK /\ P!IInv /\ ConnsBelong /\ MessagesFit
  BY DEF FInv
<1>1. /\ m.type = "pinentry_result" /\ m \in Messages
      /\ M!handleResult(m.cookie, peer[k], m.result) \/ UNCHANGED daemonVars
      /\ inbox' = [inbox EXCEPT ![k] = NoMsg]
      /\ sendJson(k, "done")
      /\ UNCHANGED <<hungup, clientVars, historyVars>>
  BY <1>0 DEF ReceiveResult, TypeOK
<1>2. NoMsg \in Messages /\ inbox' \in [Conns -> Messages]
      /\ \A j \in Conns : inbox'[j] \in {inbox[j], NoMsg}
  BY <1>0, <1>1 DEF TypeOK, Messages
<1>3. used' = used /\ answer' \in [Cookies -> Answers]
  BY <1>0, <1>1 DEF TypeOK, historyVars
<1>4. m # NoMsg
  BY <1>1 DEF NoMsg
<1>5. peer' = peer
  BY <1>1 DEF M!handleResult, daemonVars
<1>6. /\ reply' \in [Conns -> Replies]
      /\ \A j \in Conns : reply'[j] # reply[j] =>
            peer[j] # NoPid /\ ~hungup[j] /\ Fits(stage[peer[j]], reply'[j])
  <2>1. reply \in [Conns -> Replies] /\ "done" \in Replies
    BY <1>0 DEF TypeOK, Replies
  <2>2. CASE hungup[k]
    BY <1>1, <2>1, <2>2 DEF sendJson
  <2>3. CASE ~hungup[k]
    <3>1. stage[peer[k]] \in {"retrying", "finishing"} /\ peer[k] # NoPid
      BY <1>0, <1>1, <1>4, <2>3 DEF MessagesFit, ConnsBelong
    <3>2. Fits(stage[peer[k]], "done")
      BY <2>1, <3>1 DEF Fits
    <3> QED
      BY <1>1, <2>1, <2>3, <3>1, <3>2 DEF sendJson
  <2> QED
    BY <2>2, <2>3
<1>7. \A c \in DOMAIN pending' :
         c \in DOMAIN pending /\ pending'[c] = pending[c] /\ owner'[c] = owner[c]
  BY <1>0, <1>1, ClosingShrinks DEF M!handleResult, M!reportRetry, daemonVars
<1>8. PromptIsHeard'
  BY <1>1, <1>7, ShrinkStep
<1> QED
  BY <1>1, <1>2, <1>3, <1>5, <1>6, <1>8, DaemonStep

LEMMA DisconnectedStep ==
    ASSUME FInv, P!IInv', NEW k \in Conns, Disconnected(k)
    PROVE  FInv'
<1>0. TypeOK /\ P!IInv /\ ConnsBelong /\ CookieKnown /\ MessagesFit /\ PromptIsHeard /\ AnswerFits
  BY DEF FInv
<1>1. /\ hungup[k] /\ inbox[k] = NoMsg
      /\ M!cleanupForSocket(k)
      /\ hungup' = [hungup EXCEPT ![k] = FALSE]
      /\ UNCHANGED <<inbox, reply, stage, cookie, submitted, error, conn, used, answer>>
  BY DEF Disconnected, clientVars, historyVars
<1>2. /\ peer' = [peer EXCEPT ![k] = NoPid]
      /\ M!closeFlows({c \in DOMAIN pending : pending[c].conn = k}, "cancelled", NoPid)
  BY <1>1 DEF M!cleanupForSocket
<1>3. \A c \in DOMAIN pending' :
         /\ c \in DOMAIN pending /\ pending[c].conn # k
         /\ pending'[c] = pending[c] /\ owner'[c] = owner[c]
  BY <1>0, <1>2, ClosingShrinks
<1>4. /\ hungup' \in [Conns -> BOOLEAN] /\ ~hungup'[k]
      /\ \A j \in Conns \ {k} : hungup'[j] = hungup[j]
  BY <1>0, <1>1 DEF TypeOK
<1>5. /\ peer'[k] = NoPid
      /\ \A j \in Conns \ {k} : peer'[j] = peer[j]
  BY <1>0, <1>2 DEF TypeOK, M!TypeOK
<1>6. TypeOK'
  <2>1. M!TypeOK'
    BY SameTypes, PTL DEF P!IInv
  <2> QED
    BY <1>0, <1>1, <1>4, <2>1 DEF TypeOK
<1>7. \A q \in Pids : conn[q] # NoConn => conn[q] \in Conns \ {k}
  BY <1>0, <1>1 DEF TypeOK, ConnsBelong
<1>8. ConnsBelong'
  <2>1. \A q \in Pids : conn'[q] # NoConn => peer'[conn'[q]] = q /\ ~hungup'[conn'[q]]
    BY <1>0, <1>1, <1>4, <1>5, <1>7 DEF ConnsBelong
  <2>2. \A j \in Conns : peer'[j] # NoPid /\ ~hungup'[j] => conn'[peer'[j]] = j
    BY <1>0, <1>1, <1>4, <1>5 DEF ConnsBelong
  <2>3. \A j \in Conns : peer'[j] = NoPid => inbox'[j] = NoMsg /\ ~hungup'[j]
    BY <1>0, <1>1, <1>4, <1>5 DEF ConnsBelong
  <2>4. \A j \in Conns : peer'[j] = NoPid \/ hungup'[j] => reply'[j] = "none"
    BY <1>0, <1>1, <1>4, <1>5 DEF ConnsBelong
  <2>5. \A q \in Pids : conn'[q] # NoConn <=> stage'[q] \in Talking
    BY <1>0, <1>1 DEF ConnsBelong
  <2> QED
    BY <2>1, <2>2, <2>3, <2>4, <2>5 DEF ConnsBelong
<1>9. CookieKnown'
  BY <1>0, <1>1 DEF CookieKnown
<1>10. MessagesFit'
  <2> SUFFICES ASSUME NEW j \in Conns, ~hungup'[j], inbox[j] # NoMsg
               PROVE  /\ inbox[j].type = "pinentry_request" =>
                            /\ cookie[peer'[j]] = inbox[j].cookie
                            /\ stage[peer'[j]] = IF inbox[j].confirmOnly THEN "confirming"
                                                                         ELSE "getting"
                      /\ inbox[j].type = "pinentry_result" =>
                            stage[peer'[j]] \in {"retrying", "finishing"}
    BY <1>1 DEF MessagesFit, NoMsg
  <2>1. j # k
    BY <1>1
  <2> QED
    BY <1>0, <1>4, <1>5, <2>1 DEF MessagesFit
<1>11. PromptIsHeard'
  <2> SUFFICES ASSUME NEW c \in DOMAIN pending', ~hungup'[pending'[c].conn]
               PROVE  /\ conn[owner'[c]] = pending'[c].conn
                      /\ cookie[owner'[c]] = c
                      /\ stage[owner'[c]] = IF pending'[c].confirmOnly THEN "confirming"
                                                                       ELSE "getting"
    BY <1>1 DEF PromptIsHeard
  <2>1. /\ c \in DOMAIN pending /\ pending'[c] = pending[c] /\ owner'[c] = owner[c]
        /\ pending[c].conn \in Conns \ {k}
    BY <1>0, <1>3, OwnerKnown
  <2> QED
    BY <1>0, <1>4, <2>1 DEF PromptIsHeard
<1>12. AnswerFits'
  BY <1>0, <1>1 DEF AnswerFits, Replied
<1> QED
  BY <1>6, <1>8, <1>9, <1>10, <1>11, <1>12 DEF FInv

\* The timer and the UI.
LEMMA ScreenStep ==
    ASSUME FInv, P!IInv', NEW c \in Cookies,
           \/ ResultTimeout(c)
           \/ \E response \in {"ok", "okEmpty"} : Respond(c, response)
           \/ Cancel(c)
    PROVE  FInv'
<1>0. TypeOK /\ P!IInv /\ \A d \in DOMAIN pending : pending[d].confirmOnly \in BOOLEAN
  BY OwnerKnown DEF FInv
<1>1. inbox \in [Conns -> Messages] /\ reply \in [Conns -> Replies]
      /\ answer \in [Cookies -> Answers]
  BY <1>0 DEF TypeOK
<1>2. ASSUME NEW C, NEW result, M!closeFlows(C, result, NoPid), UNCHANGED <<peer, hungup, clientVars>>
      PROVE  PromptIsHeard'
  BY <1>0, <1>2, ClosingShrinks, ShrinkStep
<1>3. CASE ResultTimeout(c)
  <2>1. /\ M!closeFlows({c}, "error", NoPid)
        /\ UNCHANGED <<peer, inbox, hungup, reply, clientVars, used, answer>>
    BY <1>3 DEF ResultTimeout, M!resultTimeout, networkVars, historyVars
  <2>2. PromptIsHeard'
    BY <1>2, <2>1
  <2> QED
    BY <1>1, <2>1, <2>2, DaemonStep
<1>4. CASE \E response \in {"ok", "okEmpty"} : Respond(c, response)
  <2>1. PICK response \in {"ok", "okEmpty"} : Respond(c, response)
    BY <1>4
  <2>2. /\ c \in DOMAIN pending
        /\ pending' = M!Without(pending, {c}) /\ owner' = owner
        /\ sendJson(pending[c].conn, answerTo(c, response))
        /\ answer' = [answer EXCEPT ![c] = "sent"]
        /\ UNCHANGED <<peer, inbox, hungup, clientVars, used>>
    BY <2>1 DEF Respond, M!handleResponse
  <2>3. /\ answerTo(c, response) \in Replies
        /\ pending[c].confirmOnly => answerTo(c, response) \in {"confirmed", "cancelled"}
        /\ ~pending[c].confirmOnly => answerTo(c, response) \in {"ok", "okEmpty", "cancelled"}
    BY <1>0, <2>2 DEF answerTo, Replies
  <2>4. /\ reply' \in [Conns -> Replies]
        /\ \A k \in Conns : reply'[k] # reply[k] =>
              peer[k] # NoPid /\ ~hungup[k] /\ Fits(stage[peer[k]], reply'[k])
    BY <2>2, <2>3, ReplyToPrompt
  <2>5. PromptIsHeard'
    BY <2>2, ShrinkStep DEF M!Without
  <2>6. answer' \in [Cookies -> Answers]
    BY <1>1, <2>2 DEF Answers
  <2> QED
    BY <1>1, <2>2, <2>4, <2>5, <2>6, DaemonStep
<1>5. CASE Cancel(c)
  <2>1. /\ M!closeFlows({c}, "cancelled", NoPid)
        /\ UNCHANGED <<peer, inbox, hungup, clientVars, used, answer>>
    BY <1>5 DEF Cancel, M!handleCancel, historyVars
  <2>2. /\ reply' \in [Conns -> Replies]
        /\ \A k \in Conns : reply'[k] # reply[k] =>
              peer[k] # NoPid /\ ~hungup[k] /\ Fits(stage[peer[k]], reply'[k])
    <3>1. CASE c \in DOMAIN pending
      <4>1. sendJson(pending[c].conn, "cancelled") /\ "cancelled" \in Replies
        BY <1>5, <3>1 DEF Cancel, Replies
      <4> QED
        BY <3>1, <4>1, ReplyToPrompt
    <3>2. CASE c \notin DOMAIN pending
      BY <1>1, <1>5, <3>2 DEF Cancel
    <3> QED
      BY <3>1, <3>2
  <2>3. PromptIsHeard'
    BY <1>2, <2>1
  <2> QED
    BY <1>1, <2>1, <2>2, <2>3, DaemonStep
<1> QED
  BY <1>3, <1>4, <1>5

-----------------------------------------------------------------------------
(* The induction.                                                          *)

LEMMA InitFInv == Init => FInv
<1> SUFFICES ASSUME Init PROVE FInv
  OBVIOUS
<1>1. P!IInv
  BY ManagerInit DEF Init
<1>2. M!TypeOK
  BY <1>1, SameTypes DEF P!IInv
<1>3. TypeOK
  BY <1>2 DEF Init, TypeOK, Messages, Replies, Stages, Answers
<1>4. DOMAIN pending = {} /\ \A k \in Conns : peer[k] = NoPid
  BY DEF Init, M!Init
<1>5. ConnsBelong
  BY <1>4 DEF Init, ConnsBelong, Talking
<1>6. CookieKnown
  BY DEF Init, CookieKnown, Talking
<1>7. MessagesFit
  BY DEF Init, MessagesFit, NoMsg
<1>8. PromptIsHeard
  BY <1>4 DEF PromptIsHeard
<1>9. AnswerFits
  BY DEF Init, AnswerFits
<1> QED
  BY <1>1, <1>3, <1>5, <1>6, <1>7, <1>8, <1>9 DEF FInv

\* A process that ends leaves no cookie behind, and its connection hung up.
LEMMA ExitStep ==
    ASSUME FInv, P!IInv', NEW p \in Pids, exit(p)
    PROVE  FInv'
<1>0. TypeOK /\ ConnsBelong
  BY DEF FInv
<1>1. /\ stage' = [stage EXCEPT ![p] = "exited"]
      /\ submitted' = [submitted EXCEPT ![p] = FALSE]
      /\ cookie' = [cookie EXCEPT ![p] = NoCookie]
      /\ error' = [error EXCEPT ![p] = FALSE]
      /\ UNCHANGED <<daemonVars, historyVars>>
  BY DEF exit, resetFlow
<1>2. /\ stage'[p] = "exited" /\ stage'[p] \in Stages \ Talking
      /\ ~submitted'[p]
      /\ cookie' \in [Pids -> Cookies \cup {NoCookie}]
      /\ submitted' \in [Pids -> BOOLEAN]
      /\ error' \in [Pids -> BOOLEAN]
      /\ \A q \in Pids \ {p} : cookie'[q] = cookie[q] /\ submitted'[q] = submitted[q]
  BY <1>0, <1>1 DEF TypeOK, Talking, Stages
<1>3. CASE conn[p] # NoConn
  <2>1. hangUp(p) /\ stage[p] \in Talking
    BY <1>0, <1>3 DEF exit, ConnsBelong
  <2>2. used' = used /\ answer' \in [Cookies -> Answers]
    BY <1>0, <1>1 DEF historyVars, TypeOK
  <2> QED
    BY <1>1, <1>2, <2>1, <2>2, HangUpStep
<1>4. CASE conn[p] = NoConn
  <2>1. UNCHANGED <<networkVars, conn>> /\ stage[p] \notin Talking
    BY <1>0, <1>4 DEF exit, ConnsBelong
  <2> QED
    BY <1>1, <1>2, <2>1, QuietStep
<1> QED
  BY <1>3, <1>4

\* The reports of a process whose flow has a cookie.
LEMMA ReportStep ==
    ASSUME FInv, P!IInv', NEW p \in Pids, NEW k \in Conns,
           NEW result \in {"success", "cancelled", "error", "retry"},
           report(p, k, result),
           stage[p] = "idle", cookie[p] \in Cookies,
           stage'[p] \in {"retrying", "finishing"},
           stage' = [stage EXCEPT ![p] = stage'[p]],
           UNCHANGED <<cookie, submitted, error, historyVars>>
    PROVE  FInv'
<1> DEFINE msg == [type |-> "pinentry_result", cookie |-> cookie[p], result |-> result]
<1>1. send(p, k, msg) /\ msg \in Messages
  BY DEF report, Messages
<1>2. stage[p] \notin Talking /\ stage'[p] \in Talking
  BY DEF Talking
<1>3. /\ cookie'[p] \in Cookies /\ cookie' \in [Pids -> Cookies \cup {NoCookie}]
      /\ \A q \in Pids \ {p} : cookie'[q] = cookie[q]
      /\ used' \in SUBSET Cookies /\ answer' = answer
  BY DEF FInv, TypeOK, historyVars
<1>4. msg.type = "pinentry_result"
  OBVIOUS
<1> QED
  BY <1>1, <1>2, <1>3, <1>4, SendStep

LEMMA GetPinStep ==
    ASSUME FInv, P!IInv', NEW p \in Pids, GetPin(p)
    PROVE  FInv'
<1>0. TypeOK /\ CookieKnown
  BY DEF FInv
<1>1. stage[p] = "idle" /\ UNCHANGED <<cookie, submitted, error, historyVars>>
  BY DEF GetPin
<1>2. CASE submitted[p]
  <2>1. /\ \E k \in Conns : report(p, k, "retry")
        /\ stage' = [stage EXCEPT ![p] = "retrying"]
        /\ cookie[p] \in Cookies
    BY <1>0, <1>2 DEF GetPin, CookieKnown
  <2>2. stage'[p] = "retrying" /\ stage' = [stage EXCEPT ![p] = stage'[p]]
    BY <1>0, <2>1 DEF TypeOK
  <2> QED
    BY <1>1, <2>1, <2>2, ReportStep
<1>3. CASE ~submitted[p]
  <2>1. /\ stage' = [stage EXCEPT ![p] = "getpin"]
        /\ UNCHANGED <<daemonVars, networkVars, conn>>
    BY <1>3 DEF GetPin
  <2>2. stage'[p] = "getpin" /\ stage' = [stage EXCEPT ![p] = stage'[p]]
    BY <1>0, <2>1 DEF TypeOK
  <2>3. stage[p] \notin Talking /\ stage'[p] \in Stages \ Talking
    BY <1>1, <2>2 DEF Talking, Stages
  <2> QED
    BY <1>0, <1>1, <1>3, <2>1, <2>2, <2>3, QuietStep DEF TypeOK
<1> QED
  BY <1>2, <1>3

LEMMA SendRequestStep ==
    ASSUME FInv, P!IInv', NEW p \in Pids, SendRequest(p)
    PROVE  FInv'
<1>0. TypeOK
  BY DEF FInv
<1>1. PICK c \in Cookies, k \in Conns :
        /\ stage[p] \in {"getpin", "confirm"}
        /\ send(p, k, [type |-> "pinentry_request", cookie |-> c,
                       confirmOnly |-> stage[p] = "confirm",
                       hasError |-> stage[p] = "getpin" /\ error[p]])
        /\ cookie' = [cookie EXCEPT ![p] = c]
        /\ used' = used \cup {c}
        /\ stage' = [stage EXCEPT ![p] = IF @ = "getpin" THEN "getting" ELSE "confirming"]
        /\ UNCHANGED <<submitted, error, answer>>
  BY DEF SendRequest
<1> DEFINE msg == [type |-> "pinentry_request", cookie |-> c,
                   confirmOnly |-> stage[p] = "confirm",
                   hasError |-> stage[p] = "getpin" /\ error[p]]
<1>2. msg \in Messages
  <2>1. (stage[p] = "confirm") \in BOOLEAN /\ (stage[p] = "getpin" /\ error[p]) \in BOOLEAN
    OBVIOUS
  <2> QED
    BY <2>1 DEF Messages
<1>3. /\ stage'[p] = IF stage[p] = "getpin" THEN "getting" ELSE "confirming"
      /\ stage' = [stage EXCEPT ![p] = stage'[p]]
      /\ stage[p] \notin Talking /\ stage'[p] \in Talking
  BY <1>0, <1>1 DEF TypeOK, Talking
<1>4. /\ cookie'[p] = c /\ cookie' \in [Pids -> Cookies \cup {NoCookie}]
      /\ \A q \in Pids \ {p} : cookie'[q] = cookie[q]
      /\ used' \in SUBSET Cookies
  BY <1>0, <1>1 DEF TypeOK
<1>5. /\ msg.type = "pinentry_request" /\ msg.cookie = c
      /\ stage'[p] = IF msg.confirmOnly THEN "confirming" ELSE "getting"
  BY <1>1, <1>3
<1> QED
  BY <1>1, <1>2, <1>3, <1>4, <1>5, SendStep

\* A response, an outcome of a report or a timeout ends the wait.
LEMMA WaitEndsStep ==
    ASSUME FInv, P!IInv', NEW p \in Pids,
           RetryReported(p) \/ Accepted(p) \/ Refused(p)
    PROVE  FInv'
<1>0. TypeOK /\ CookieKnown
  BY DEF FInv
<1>1. /\ hangUp(p) /\ UNCHANGED daemonVars
      /\ stage[p] \in Talking
      /\ used' = used
  BY DEF RetryReported, Accepted, Refused, Talking, historyVars
<1>2. /\ stage'[p] \in Stages \ Talking /\ stage' = [stage EXCEPT ![p] = stage'[p]]
  BY <1>0 DEF RetryReported, Accepted, Refused, TypeOK, Talking, Stages
<1>3. /\ cookie' \in [Pids -> Cookies \cup {NoCookie}]
      /\ submitted' \in [Pids -> BOOLEAN] /\ error' \in [Pids -> BOOLEAN]
      /\ answer' \in [Cookies -> Answers]
  BY <1>0 DEF RetryReported, Accepted, Refused, resetFlow, TypeOK, Answers, historyVars
<1>4. /\ submitted'[p] => cookie'[p] \in Cookies
      /\ \A q \in Pids \ {p} : cookie'[q] = cookie[q] /\ submitted'[q] = submitted[q]
  BY <1>0, <1>1 DEF RetryReported, Accepted, Refused, resetFlow, TypeOK, CookieKnown
<1> QED
  BY <1>1, <1>2, <1>3, <1>4, HangUpStep

\* Commands that change a process only, and messages that are lost.
LEMMA IdleStep ==
    ASSUME FInv, P!IInv', NEW p \in Pids,
           \/ \E e \in BOOLEAN : SetError(p, e)
           \/ Confirm(p)
           \/ Unreachable(p)
    PROVE  FInv'
<1>0. TypeOK /\ CookieKnown
  BY DEF FInv
<1>1. CASE stage[p] = "idle" /\ exit(p)
  BY <1>1, ExitStep
<1>2. CASE ~(stage[p] = "idle" /\ exit(p))
  <2>1. /\ UNCHANGED <<daemonVars, networkVars, conn, historyVars>>
        /\ stage[p] \notin Talking
    BY <1>2 DEF SetError, Confirm, Unreachable, Talking
  <2>2. stage'[p] \in Stages \ Talking /\ stage' = [stage EXCEPT ![p] = stage'[p]]
    BY <1>0, <1>2 DEF SetError, Confirm, Unreachable, TypeOK, Talking, Stages
  <2>3. /\ cookie' \in [Pids -> Cookies \cup {NoCookie}]
        /\ submitted' \in [Pids -> BOOLEAN] /\ error' \in [Pids -> BOOLEAN]
    BY <1>0, <1>2 DEF SetError, Confirm, Unreachable, resetFlow, TypeOK
  <2>4. /\ submitted'[p] => cookie'[p] \in Cookies
        /\ \A q \in Pids \ {p} : cookie'[q] = cookie[q] /\ submitted'[q] = submitted[q]
    BY <1>0, <1>2 DEF SetError, Confirm, Unreachable, resetFlow, TypeOK, CookieKnown
  <2> QED
    BY <2>1, <2>2, <2>3, <2>4, QuietStep
<1> QED
  BY <1>1, <1>2

\* BYE or the end of stdin: a flow with a cookie is reported first.
LEMMA StreamCloseStep ==
    ASSUME FInv, P!IInv', NEW p \in Pids, StreamClose(p)
    PROVE  FInv'
<1>0. TypeOK
  BY DEF FInv
<1>1. CASE cookie[p] = NoCookie
  BY <1>1, ExitStep DEF StreamClose
<1>2. CASE cookie[p] # NoCookie
  <2>1. /\ \E k \in Conns : report(p, k, finalResult(p))
        /\ stage' = [stage EXCEPT ![p] = "finishing"]
        /\ UNCHANGED <<cookie, submitted, error, historyVars>>
        /\ stage[p] = "idle" /\ cookie[p] \in Cookies
    BY <1>0, <1>2 DEF StreamClose, TypeOK
  <2>2. finalResult(p) \in {"success", "cancelled", "error", "retry"}
    BY DEF finalResult
  <2>3. stage'[p] = "finishing" /\ stage' = [stage EXCEPT ![p] = stage'[p]]
    BY <1>0, <2>1 DEF TypeOK
  <2> QED
    BY <2>1, <2>2, <2>3, ReportStep
<1> QED
  BY <1>1, <1>2

LEMMA NextFInv == FInv /\ [Next]_vars => FInv'
<1> SUFFICES ASSUME FInv, [Next]_vars PROVE FInv'
  OBVIOUS
<1>0. P!IInv'
  BY FlowStep, ManagerStep DEF FInv
<1>1. ASSUME NEW p \in Pids,
             \/ \E e \in BOOLEAN : SetError(p, e)
             \/ Confirm(p)
             \/ Unreachable(p)
      PROVE  FInv'
  BY <1>0, <1>1, IdleStep
<1>2. ASSUME NEW p \in Pids, GetPin(p) PROVE FInv'
  BY <1>0, <1>2, GetPinStep
<1>3. ASSUME NEW p \in Pids, StreamClose(p) PROVE FInv'
  BY <1>0, <1>3, StreamCloseStep
<1>4. ASSUME NEW p \in Pids, RetryReported(p) \/ Accepted(p) \/ Refused(p) PROVE FInv'
  BY <1>0, <1>4, WaitEndsStep
<1>5. ASSUME NEW p \in Pids, SendRequest(p) PROVE FInv'
  BY <1>0, <1>5, SendRequestStep
<1>6. ASSUME NEW p \in Pids, Finish(p) \/ Crash(p) PROVE FInv'
  BY <1>0, <1>6, ExitStep DEF Finish, Crash
<1>7. ASSUME NEW k \in Conns, ReceiveRequest(k) \/ ReceiveResult(k) \/ Disconnected(k)
      PROVE  FInv'
  BY <1>0, <1>7, ReceiveRequestStep, ReceiveResultStep, DisconnectedStep
<1>8. ASSUME NEW c \in Cookies,
             \/ ResultTimeout(c)
             \/ \E response \in {"ok", "okEmpty"} : Respond(c, response)
             \/ Cancel(c)
      PROVE  FInv'
  BY <1>0, <1>8, ScreenStep
<1>9. CASE UNCHANGED vars
  <2>1. /\ UNCHANGED clientVars
        /\ UNCHANGED <<peer, pending, owner, hungup, inbox, reply, used, answer>>
    BY <1>9 DEF vars, daemonVars, networkVars, historyVars
  <2>2. PromptIsHeard'
    BY <2>1, ShrinkStep
  <2> QED
    BY <1>0, <2>1, <2>2, DaemonStep DEF FInv, TypeOK
<1> QED
  BY <1>1, <1>2, <1>3, <1>4, <1>5, <1>6, <1>7, <1>8, <1>9 DEF Next

LEMMA FlowInvariance == Spec => []FInv
  BY InitFInv, NextFInv, PTL DEF Spec

-----------------------------------------------------------------------------
(* What holds of every run.                                                *)

\* The daemon's side of the flow is a PinentryManager, whatever the processes
\* do and in whatever order the daemon reads them (PinentryManager.cpp).
THEOREM FlowImplementsManager == Spec => ImplementsManager
<1>1. Init => M!Init
  BY DEF Init
<1>2. FInv /\ [Next]_vars => [M!Next]_(M!vars)
  BY FlowStep
<1> QED
  BY <1>1, <1>2, FlowInvariance, PTL DEF Spec, ImplementsManager, M!Spec

\* Every variable keeps its type; the messages on the connections are those that
\* pinentry.cpp can send.
THEOREM TypeCorrect == Spec => []TypeOK
<1>1. FInv => TypeOK
  BY DEF FInv
<1> QED
  BY <1>1, FlowInvariance, PTL

\* The process behind a prompt waits for its answer, or has hung up and the
\* daemon is about to close the prompt (clientDisconnected).
THEOREM HeardPrompts == Spec => []PromptIsHeard
<1>1. FInv => PromptIsHeard
  BY DEF FInv
<1> QED
  BY <1>1, FlowInvariance, PTL

\* What a process reads is an answer to what it sent: the reply to an earlier
\* message can not be taken for it, since every message has its own connection.
THEOREM FittingAnswers == Spec => []AnswerFits
<1>1. FInv => AnswerFits
  BY DEF FInv
<1> QED
  BY <1>1, FlowInvariance, PTL
=============================================================================
