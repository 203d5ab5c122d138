----------------------- MODULE KeyringPrompterProofs -----------------------
(***************************************************************************)
(* The safety of the keyring's two sides for any prompts, cookies and      *)
(* connections.                                                            *)
(***************************************************************************)
EXTENDS KeyringPrompter, TLAPS

\* A request that nobody has hung up on comes from a worker that waits.
RequestHasWorker ==
    \A k \in Conns : inbox[k].type = "keyring_request" =>
        \/ hungup[k]
        \/ \E o \in Prompts :
              conn[o] = k /\ cookie[o] = inbox[k].id /\ stage[o] \in Waiting

\* What is unread, or about to be seen as closed, is so on an open connection.
EndsAreOpen ==
    \A k \in Conns : inbox[k] # NoMsg \/ hungup[k] => k \in connected

WorkerHasCookie == \A o \in Prompts : stage[o] # "idle" => cookie[o] \in Cookies

IInv ==
    /\ TypeOK
    /\ TrackedIffOpen
    /\ PromptHasWorker
    /\ RequestHasWorker
    /\ EndsAreOpen
    /\ WorkerHasCookie

\* TypeOK, for either end of a connection.
NetworkTypeOK ==
    /\ inbox \in [Conns -> Messages]
    /\ hungup \in [Conns -> BOOLEAN]
    /\ reply \in [Conns -> Replies]

PrompterTypeOK ==
    /\ up \in BOOLEAN
    /\ active \in Prompts \cup {NoPrompt}
    /\ stage \in [Prompts -> {"idle"} \cup Starting \cup Waiting]
    /\ cookie \in [Prompts -> Cookies \cup {NoCookie}]
    /\ conn \in [Prompts -> Conns \cup {NoConn}]
    /\ closing \in Conns \cup {NoConn}
    /\ result \in [Prompts -> {"none", "password", "continue", "cancel"}]

-----------------------------------------------------------------------------
(* The prompter's steps.                                                   *)

\* A worker on that somebody depends goes on waiting, or hangs up.
Kept(o) ==
    \/ stage'[o] = stage[o] /\ conn'[o] = conn[o] /\ cookie'[o] = cookie[o]
    \/ conn[o] \in connected => hungup'[conn[o]]

\* A step that sends nothing.
LEMMA PrompterKeeps ==
    ASSUME IInv, UNCHANGED <<connected, managerVars, inbox, provider>>,
           used' \subseteq Cookies, NetworkTypeOK', PrompterTypeOK', WorkerHasCookie',
           \A k \in Conns : hungup[k] => hungup'[k],
           \A k \in Conns : hungup'[k] => k \in connected,
           \A o \in Prompts : stage[o] \in Waiting => Kept(o)
    PROVE  IInv'
<1>1. TypeOK'
  <2>1. ManagerTypeOK' /\ provider' \in BOOLEAN
    BY DEF IInv, TypeOK, ManagerTypeOK, managerVars
  <2> QED
    BY <2>1 DEF TypeOK, NetworkTypeOK, PrompterTypeOK
<1>2. TrackedIffOpen' /\ EndsAreOpen'
  BY DEF IInv, TrackedIffOpen, EndsAreOpen, managerVars
<1>3. PromptHasWorker'
  <2> SUFFICES ASSUME NEW c \in DOMAIN pending
               PROVE  \/ hungup'[pending[c]]
                      \/ \E o \in Prompts : /\ conn'[o] = pending[c]
                                            /\ cookie'[o] = c
                                            /\ stage'[o] \in Waiting
    BY DEF PromptHasWorker, managerVars
  <2>1. pending[c] \in connected /\ pending[c] \in Conns
    BY DEF IInv, TrackedIffOpen, TypeOK, ManagerTypeOK
  <2>2. CASE hungup[pending[c]]
    BY <2>1, <2>2
  <2>3. ASSUME NEW o \in Prompts,
               conn[o] = pending[c], cookie[o] = c, stage[o] \in Waiting
        PROVE  \/ hungup'[pending[c]]
               \/ conn'[o] = pending[c] /\ cookie'[o] = c /\ stage'[o] \in Waiting
    BY <2>1, <2>3 DEF Kept
  <2> QED
    BY <2>2, <2>3 DEF IInv, PromptHasWorker
<1>4. RequestHasWorker'
  <2> SUFFICES ASSUME NEW k \in Conns, inbox[k].type = "keyring_request"
               PROVE  \/ hungup'[k]
                      \/ \E o \in Prompts : /\ conn'[o] = k
                                            /\ cookie'[o] = inbox[k].id
                                            /\ stage'[o] \in Waiting
    BY DEF RequestHasWorker
  <2>1. inbox[k] # NoMsg
    BY DEF NoMsg
  <2>2. k \in connected
    BY <2>1 DEF IInv, EndsAreOpen
  <2>3. ASSUME NEW o \in Prompts,
               conn[o] = k, cookie[o] = inbox[k].id, stage[o] \in Waiting
        PROVE  \/ hungup'[k]
               \/ conn'[o] = k /\ cookie'[o] = inbox[k].id /\ stage'[o] \in Waiting
    BY <2>2, <2>3 DEF Kept
  <2> QED
    BY <2>3 DEF IInv, RequestHasWorker
<1> QED
  BY <1>1, <1>2, <1>3, <1>4 DEF IInv

LEMMA HangUpTypes ==
    ASSUME IInv, NEW K, hangUp(K)
    PROVE  /\ NetworkTypeOK'
           /\ UNCHANGED <<connected, inbox>>
           /\ \A k \in Conns : hungup[k] => hungup'[k]
           /\ \A k \in Conns : hungup'[k] => k \in connected
           /\ \A k \in Conns : k \in K \cap connected => hungup'[k]
<1>1. UNCHANGED <<connected, inbox>>
  BY DEF hangUp
<1>2. inbox \in [Conns -> Messages] /\ hungup \in [Conns -> BOOLEAN]
      /\ reply \in [Conns -> Replies]
  BY DEF IInv, TypeOK
<1>3. hungup' = [k \in Conns |-> hungup[k] \/ k \in K \cap connected]
  BY DEF hangUp
<1>4. hungup' \in [Conns -> BOOLEAN]
      /\ \A k \in Conns : hungup'[k] <=> (hungup[k] \/ k \in K \cap connected)
  BY <1>3
<1>5. reply' \in [Conns -> Replies]
  BY <1>2 DEF hangUp, Replies
<1>6. \A k \in Conns : hungup[k] => k \in connected
  BY DEF IInv, EndsAreOpen
<1> QED
  BY <1>1, <1>2, <1>4, <1>5, <1>6 DEF NetworkTypeOK

LEMMA StopTypes ==
    ASSUME IInv, stopPrompting
    PROVE  /\ active' \in Prompts \cup {NoPrompt}
           /\ cookie' \in [Prompts -> Cookies \cup {NoCookie}]
           /\ result' \in [Prompts -> {"none", "password", "continue", "cancel"}]
           /\ \A o \in Prompts : stage[o] # "idle" => cookie'[o] = cookie[o]
BY DEF stopPrompting, IInv, TypeOK

LEMMA StartKeeps ==
    ASSUME IInv, Start \/ \E o \in Prompts : BeginPrompting(o)
    PROVE  IInv'
<1>1. /\ UNCHANGED <<connected, managerVars, inbox, hungup, reply, provider, used>>
      /\ UNCHANGED <<stage, cookie, conn, closing, result>>
      /\ up' \in BOOLEAN /\ active' \in Prompts \cup {NoPrompt}
  BY DEF Start, BeginPrompting, networkVars, IInv, TypeOK
<1>2. NetworkTypeOK' /\ PrompterTypeOK' /\ WorkerHasCookie' /\ used' \subseteq Cookies
  BY <1>1 DEF NetworkTypeOK, PrompterTypeOK, WorkerHasCookie, IInv, TypeOK
<1>3. \A k \in Conns : hungup'[k] => k \in connected
  BY <1>1 DEF IInv, EndsAreOpen
<1>4. \A o \in Prompts : Kept(o)
  BY <1>1 DEF Kept
<1> QED
  BY <1>1, <1>2, <1>3, <1>4, PrompterKeeps

LEMMA AsyncKeeps ==
    ASSUME IInv, NEW p \in Prompts, NEW thread \in Starting, prompt_async(p, thread)
    PROVE  IInv'
<1>1. /\ stage[p] = "idle"
      /\ UNCHANGED <<connected, managerVars, inbox, hungup, reply, provider>>
      /\ UNCHANGED <<up, active, conn, closing>>
      /\ stage' = [stage EXCEPT ![p] = thread]
      /\ result' = [result EXCEPT ![p] = "none"]
  BY DEF prompt_async, networkVars
<1>2. PICK c \in Cookies \ used :
         cookie' = [cookie EXCEPT ![p] = c] /\ used' = used \cup {c}
  BY DEF prompt_async, generate_cookie
<1>3. NetworkTypeOK' /\ PrompterTypeOK' /\ used' \subseteq Cookies
  BY <1>1, <1>2 DEF NetworkTypeOK, PrompterTypeOK, IInv, TypeOK
<1>4. WorkerHasCookie'
  BY <1>1, <1>2 DEF WorkerHasCookie, IInv, TypeOK
<1>5. \A k \in Conns : hungup'[k] => k \in connected
  BY <1>1 DEF IInv, EndsAreOpen
<1>6. \A o \in Prompts : stage[o] \in Waiting => Kept(o)
  BY <1>1, <1>2 DEF Kept, Waiting, IInv, TypeOK
<1> QED
  BY <1>1, <1>3, <1>4, <1>5, <1>6, PrompterKeeps

LEMMA StopKeeps ==
    ASSUME IInv, stopPrompting, UNCHANGED <<managerVars, up, stage, conn, provider, used>>,
           \/ CancelSent
           \/ UNCHANGED <<connected, networkVars, closing>>
    PROVE  IInv'
<1>1. /\ active' \in Prompts \cup {NoPrompt}
      /\ cookie' \in [Prompts -> Cookies \cup {NoCookie}]
      /\ result' \in [Prompts -> {"none", "password", "continue", "cancel"}]
      /\ \A o \in Prompts : stage[o] # "idle" => cookie'[o] = cookie[o]
  BY StopTypes
<1>2. /\ NetworkTypeOK'
      /\ UNCHANGED <<connected, inbox>>
      /\ \A k \in Conns : hungup[k] => hungup'[k]
      /\ \A k \in Conns : hungup'[k] => k \in connected
  <2>1. CASE CancelSent
    BY <2>1, HangUpTypes DEF CancelSent
  <2>2. CASE UNCHANGED <<connected, networkVars, closing>>
    BY <2>2 DEF networkVars, NetworkTypeOK, IInv, TypeOK, EndsAreOpen
  <2> QED
    BY <2>1, <2>2
<1>3. closing' \in Conns \cup {NoConn}
  BY DEF CancelSent, IInv, TypeOK
<1>4. PrompterTypeOK' /\ WorkerHasCookie' /\ used' \subseteq Cookies
  BY <1>1, <1>3 DEF PrompterTypeOK, WorkerHasCookie, IInv, TypeOK
<1>5. \A o \in Prompts : stage[o] \in Waiting => Kept(o)
  BY <1>1 DEF Kept, Waiting
<1> QED
  BY <1>1, <1>2, <1>4, <1>5, PrompterKeeps

LEMMA ExitKeeps ==
    ASSUME IInv, exit
    PROVE  IInv'
<1>1. /\ NetworkTypeOK'
      /\ UNCHANGED <<connected, inbox>>
      /\ \A k \in Conns : hungup[k] => hungup'[k]
      /\ \A k \in Conns : hungup'[k] => k \in connected
      /\ \A k \in Conns : k \in Held \cap connected => hungup'[k]
  BY HangUpTypes DEF exit
<1>2. UNCHANGED <<managerVars, provider, used>>
  BY DEF exit
<1>3. PrompterTypeOK' /\ WorkerHasCookie'
  BY DEF exit, PrompterTypeOK, WorkerHasCookie
<1>4. ASSUME NEW o \in Prompts, stage[o] \in Waiting
      PROVE  Kept(o)
  <2> SUFFICES ASSUME conn[o] \in connected
               PROVE  hungup'[conn[o]]
    BY DEF Kept
  <2>1. conn[o] \in Conns
    BY DEF IInv, TypeOK, ManagerTypeOK
  <2>2. conn[o] \in Held
    BY <2>1, NoConnAssumption DEF Held
  <2> QED
    BY <1>1, <2>1, <2>2
<1>5. used' \subseteq Cookies
  BY <1>2 DEF IInv, TypeOK
<1> QED
  BY <1>1, <1>2, <1>3, <1>4, <1>5, PrompterKeeps

LEMMA ReturnKeeps ==
    ASSUME IInv, NEW p \in Prompts, Unreachable(p) \/ Replied(p)
    PROVE  IInv'
<1>1. PICK value \in {"password", "continue", "cancel"} : threadReturns(p, value)
  BY DEF Unreachable, Replied, taskResult
<1>2. /\ stage' = [stage EXCEPT ![p] = "idle"]
      /\ cookie' = IF active = p THEN cookie ELSE [cookie EXCEPT ![p] = NoCookie]
      /\ result' = IF active = p THEN [result EXCEPT ![p] = value] ELSE result
      /\ UNCHANGED <<managerVars, up, active, closing, provider, used>>
  BY <1>1 DEF threadReturns
<1>3. /\ NetworkTypeOK'
      /\ UNCHANGED <<connected, inbox>>
      /\ \A k \in Conns : hungup[k] => hungup'[k]
      /\ \A k \in Conns : hungup'[k] => k \in connected
      /\ \/ stage[p] \in Starting /\ conn' = conn
         \/ /\ conn' = [conn EXCEPT ![p] = NoConn]
            /\ \A k \in Conns : k \in {conn[p]} \cap connected => hungup'[k]
  <2>1. CASE Unreachable(p)
    BY <2>1 DEF Unreachable, networkVars, NetworkTypeOK, IInv, TypeOK, EndsAreOpen
  <2>2. CASE Replied(p)
    BY <2>2, HangUpTypes DEF Replied, workerHangsUp
  <2> QED
    BY <2>1, <2>2
<1>4. PrompterTypeOK'
  BY <1>2, <1>3 DEF PrompterTypeOK, IInv, TypeOK
<1>5. WorkerHasCookie'
  BY <1>2 DEF WorkerHasCookie, IInv, TypeOK
<1>6. ASSUME NEW o \in Prompts, stage[o] \in Waiting
      PROVE  Kept(o)
  <2>1. CASE o # p
    BY <1>2, <1>3, <2>1 DEF Kept, IInv, TypeOK
  <2>2. CASE o = p
    <3>1. stage[p] \notin Starting
      BY <1>6, <2>2 DEF Starting, Waiting
    <3>2. conn[p] \in connected => conn[p] \in Conns
      BY DEF IInv, TypeOK, ManagerTypeOK
    <3> QED
      BY <1>3, <2>2, <3>1, <3>2 DEF Kept
  <2> QED
    BY <2>1, <2>2
<1>7. used' \subseteq Cookies
  BY <1>2 DEF IInv, TypeOK
<1> QED
  BY <1>2, <1>3, <1>4, <1>5, <1>6, <1>7, PrompterKeeps

\* The prompter connects and writes a command.
LEMMA SendTypes ==
    ASSUME IInv, NEW k \in Conns, NEW msg \in Messages, send(k, msg)
    PROVE  /\ NetworkTypeOK'
           /\ k \notin connected
           /\ connected' = connected \cup {k}
           /\ inbox'[k] = msg
           /\ \A j \in Conns : j # k => inbox'[j] = inbox[j]
           /\ hungup' = hungup
           /\ EndsAreOpen'
<1>1. /\ k \notin connected
      /\ connected' = connected \cup {k}
      /\ inbox' = [inbox EXCEPT ![k] = msg]
      /\ UNCHANGED <<hungup, reply>>
  BY DEF send
<1>2. /\ inbox \in [Conns -> Messages] /\ hungup \in [Conns -> BOOLEAN]
      /\ reply \in [Conns -> Replies]
  BY DEF IInv, TypeOK
<1>3. inbox'[k] = msg /\ \A j \in Conns : j # k => inbox'[j] = inbox[j]
  BY <1>1, <1>2
<1>4. EndsAreOpen'
  BY <1>1, <1>3 DEF IInv, EndsAreOpen
<1> QED
  BY <1>1, <1>2, <1>3, <1>4 DEF NetworkTypeOK

LEMMA CloseKeeps ==
    ASSUME IInv, prompt_close, NEW k \in Conns,
           hasRequested(active), active # NoPrompt,
           send(k, [type |-> "session.cancel", id |-> cookie[active]]),
           closing' = k, UNCHANGED <<active, cookie, result>>
    PROVE  IInv'
<1> DEFINE msg == [type |-> "session.cancel", id |-> cookie[active]]
<1>1. cookie[active] \in Cookies
  BY DEF hasRequested, IInv, TypeOK
<1>2. msg \in Messages /\ msg.type # "keyring_request"
  BY <1>1 DEF Messages
<1>3. /\ NetworkTypeOK'
      /\ k \notin connected
      /\ connected' = connected \cup {k}
      /\ inbox'[k] = msg
      /\ \A j \in Conns : j # k => inbox'[j] = inbox[j]
      /\ hungup' = hungup
      /\ EndsAreOpen'
  BY <1>2, SendTypes
<1> HIDE DEF msg
<1>4. UNCHANGED <<managerVars, up, active, stage, cookie, conn, result, provider, used>>
  BY DEF prompt_close
<1>5. PrompterTypeOK' /\ WorkerHasCookie'
  BY <1>4 DEF PrompterTypeOK, WorkerHasCookie, IInv, TypeOK
<1>6. ManagerTypeOK' /\ provider' \in BOOLEAN /\ used' \subseteq Cookies
  BY <1>3, <1>4 DEF IInv, TypeOK, ManagerTypeOK, managerVars
<1>7. TypeOK'
  BY <1>3, <1>5, <1>6 DEF TypeOK, NetworkTypeOK, PrompterTypeOK
<1>8. TrackedIffOpen' /\ PromptHasWorker'
  BY <1>3, <1>4 DEF IInv, TrackedIffOpen, PromptHasWorker, managerVars
<1>9. RequestHasWorker'
  BY <1>2, <1>3, <1>4 DEF IInv, RequestHasWorker
<1> QED
  BY <1>3, <1>5, <1>7, <1>8, <1>9 DEF IInv

LEMMA RequestKeeps ==
    ASSUME IInv, NEW p \in Prompts, SendRequest(p)
    PROVE  IInv'
<1>1. PICK k \in Conns :
         /\ send(k, [type |-> "keyring_request", id |-> cookie[p]])
         /\ conn' = [conn EXCEPT ![p] = k]
  BY DEF SendRequest
<1> DEFINE msg == [type |-> "keyring_request", id |-> cookie[p]]
<1>2. /\ stage[p] \in Starting
      /\ stage' = [stage EXCEPT ![p] = IF @ = "password_thread" THEN "password"
                                                              ELSE "confirm"]
      /\ UNCHANGED <<managerVars, up, active, cookie, closing, result, provider, used>>
  BY DEF SendRequest
<1>3. cookie[p] \in Cookies
  BY <1>2 DEF IInv, WorkerHasCookie, Starting
<1>4. msg \in Messages /\ msg.id = cookie[p]
  BY <1>3 DEF Messages
<1>5. /\ NetworkTypeOK'
      /\ k \notin connected
      /\ connected' = connected \cup {k}
      /\ inbox'[k] = msg
      /\ \A j \in Conns : j # k => inbox'[j] = inbox[j]
      /\ hungup' = hungup
      /\ EndsAreOpen'
  BY <1>1, <1>4, SendTypes
<1> HIDE DEF msg
<1>6. /\ stage'[p] \in Waiting /\ conn'[p] = k /\ cookie'[p] = cookie[p]
      /\ \A o \in Prompts : o # p =>
            stage'[o] = stage[o] /\ conn'[o] = conn[o] /\ cookie'[o] = cookie[o]
  BY <1>1, <1>2 DEF Waiting, IInv, TypeOK
<1>7. stage[p] \notin Waiting
  BY <1>2 DEF Starting, Waiting
<1>8. PrompterTypeOK'
  BY <1>1, <1>2 DEF PrompterTypeOK, Waiting, IInv, TypeOK
<1>9. WorkerHasCookie'
  BY <1>3, <1>6 DEF IInv, WorkerHasCookie
<1>10. ManagerTypeOK' /\ provider' \in BOOLEAN /\ used' \subseteq Cookies
  BY <1>2, <1>5 DEF IInv, TypeOK, ManagerTypeOK, managerVars
<1>11. TypeOK'
  BY <1>5, <1>8, <1>10 DEF TypeOK, NetworkTypeOK, PrompterTypeOK
<1>12. TrackedIffOpen'
  BY <1>2, <1>5 DEF IInv, TrackedIffOpen, managerVars
<1>13. PromptHasWorker'
  <2> SUFFICES ASSUME NEW c \in DOMAIN pending, ~hungup[pending[c]]
               PROVE  \E o \in Prompts : /\ conn'[o] = pending[c]
                                         /\ cookie'[o] = c
                                         /\ stage'[o] \in Waiting
    BY <1>2, <1>5 DEF PromptHasWorker, managerVars
  <2>1. PICK o \in Prompts : conn[o] = pending[c] /\ cookie[o] = c /\ stage[o] \in Waiting
    BY DEF IInv, PromptHasWorker
  <2> QED
    BY <1>6, <1>7, <2>1
<1>14. RequestHasWorker'
  <2> SUFFICES ASSUME NEW j \in Conns, inbox'[j].type = "keyring_request", ~hungup[j]
               PROVE  \E o \in Prompts : /\ conn'[o] = j
                                         /\ cookie'[o] = inbox'[j].id
                                         /\ stage'[o] \in Waiting
    BY <1>5 DEF RequestHasWorker
  <2>1. CASE j = k
    BY <1>4, <1>5, <1>6, <2>1
  <2>2. CASE j # k
    <3>1. PICK o \in Prompts :
             conn[o] = j /\ cookie[o] = inbox[j].id /\ stage[o] \in Waiting
      BY <1>5, <2>2 DEF IInv, RequestHasWorker
    <3> QED
      BY <1>5, <1>6, <1>7, <2>2, <3>1
  <2> QED
    BY <2>1, <2>2
<1> QED
  BY <1>5, <1>9, <1>11, <1>12, <1>13, <1>14 DEF IInv

-----------------------------------------------------------------------------
(* The daemon's steps.                                                     *)

LEMMA CloseRequests ==
    ASSUME IInv, NEW C, closeRequests(C)
    PROVE  /\ DOMAIN pending' = DOMAIN pending \ C
           /\ open' = DOMAIN pending'
           /\ \A c \in DOMAIN pending' : pending'[c] = pending[c]
BY DEF closeRequests, Without, IInv, TrackedIffOpen

\* A step of the daemon that only takes messages and requests away.
LEMMA DaemonKeeps ==
    ASSUME IInv, UNCHANGED <<prompterVars, used, connected, hungup>>,
           NetworkTypeOK', provider' \in BOOLEAN,
           \A k \in Conns : inbox'[k] \in {inbox[k], NoMsg},
           UNCHANGED managerVars \/ \E C \in SUBSET Cookies : closeRequests(C)
    PROVE  IInv'
<1>1. /\ DOMAIN pending' \subseteq DOMAIN pending
      /\ open' = DOMAIN pending'
      /\ \A c \in DOMAIN pending' : pending'[c] = pending[c]
  <2>1. CASE UNCHANGED managerVars
    BY <2>1 DEF managerVars, IInv, TrackedIffOpen
  <2>2. ASSUME NEW C \in SUBSET Cookies, closeRequests(C)
        PROVE  /\ DOMAIN pending' \subseteq DOMAIN pending
               /\ open' = DOMAIN pending'
               /\ \A c \in DOMAIN pending' : pending'[c] = pending[c]
    BY <2>2, CloseRequests
  <2> QED
    BY <2>1, <2>2
<1>2. UNCHANGED <<up, active, stage, cookie, conn, closing, result>>
  BY DEF prompterVars
<1>3. ManagerTypeOK' /\ used' \subseteq Cookies
  BY <1>1 DEF IInv, TypeOK, ManagerTypeOK
<1>4. TypeOK'
  BY <1>2, <1>3 DEF IInv, TypeOK, NetworkTypeOK
<1>5. TrackedIffOpen' /\ PromptHasWorker'
  BY <1>1, <1>2 DEF IInv, TrackedIffOpen, PromptHasWorker
<1>6. \A k \in Conns : inbox'[k].type = "keyring_request" => inbox'[k] = inbox[k]
  BY DEF NoMsg
<1>7. RequestHasWorker' /\ EndsAreOpen'
  BY <1>2, <1>6 DEF IInv, RequestHasWorker, EndsAreOpen
<1>8. WorkerHasCookie'
  BY <1>2 DEF IInv, WorkerHasCookie
<1> QED
  BY <1>4, <1>5, <1>7, <1>8 DEF IInv

LEMMA RespondKeeps ==
    ASSUME IInv, NEW c \in Cookies, Respond(c) \/ Cancel(c)
    PROVE  IInv'
<1>1. PICK value \in {"ok", "cancelled"} : sendJson({pending[c]}, value)
  BY DEF Respond, Cancel
<1>2. /\ UNCHANGED <<connected, inbox, hungup, prompterVars, provider, used>>
      /\ closeRequests({c})
  BY DEF Respond, Cancel, handleResponse, handleCancel
<1>3. reply' \in [Conns -> Replies]
  BY <1>1 DEF sendJson, IInv, TypeOK, Replies
<1>4. NetworkTypeOK' /\ provider' \in BOOLEAN
  BY <1>2, <1>3 DEF NetworkTypeOK, IInv, TypeOK
<1>5. {c} \in SUBSET Cookies
  OBVIOUS
<1> QED
  BY <1>2, <1>4, <1>5, DaemonKeeps

LEMMA CancelKeeps ==
    ASSUME IInv, NEW k \in Conns, ReceiveCancel(k)
    PROVE  IInv'
<1> DEFINE c == inbox[k].id
           accepted == ~provider /\ c \in DOMAIN pending
<1>1. /\ inbox' = [inbox EXCEPT ![k] = NoMsg]
      /\ IF accepted THEN handleCancel(c) ELSE UNCHANGED managerVars
      /\ reply' = [j \in Conns |->
                      IF hungup[j] THEN reply[j]
                      ELSE IF j = k THEN "done"
                      ELSE IF accepted /\ j = pending[c] THEN "cancelled" ELSE reply[j]]
      /\ UNCHANGED <<connected, hungup, prompterVars, provider, used>>
  BY DEF ReceiveCancel
<1>2. accepted => c \in Cookies
  BY DEF IInv, TypeOK, ManagerTypeOK
<1> HIDE DEF accepted, c
<1>3. reply' \in [Conns -> Replies]
  BY <1>1 DEF IInv, TypeOK, Replies
<1>4. inbox' \in [Conns -> Messages] /\ \A j \in Conns : inbox'[j] \in {inbox[j], NoMsg}
  BY <1>1 DEF IInv, TypeOK, Messages
<1>5. NetworkTypeOK' /\ provider' \in BOOLEAN
  BY <1>1, <1>3, <1>4 DEF NetworkTypeOK, IInv, TypeOK
<1>6. UNCHANGED managerVars \/ \E C \in SUBSET Cookies : closeRequests(C)
  <2>1. accepted => {c} \in SUBSET Cookies /\ closeRequests({c})
    BY <1>1, <1>2 DEF handleCancel
  <2> QED
    BY <1>1, <2>1
<1> QED
  BY <1>1, <1>4, <1>5, <1>6, DaemonKeeps

LEMMA ProviderKeeps ==
    ASSUME IInv, ProviderChanges \/ UNCHANGED vars
    PROVE  IInv'
<1>1. UNCHANGED <<connected, managerVars, networkVars, prompterVars, used>>
      /\ provider' \in BOOLEAN
  BY DEF ProviderChanges, vars, IInv, TypeOK
<1>2. NetworkTypeOK' /\ hungup' = hungup /\ inbox' = inbox
  BY <1>1 DEF networkVars, NetworkTypeOK, IInv, TypeOK
<1> QED
  BY <1>1, <1>2, DaemonKeeps

LEMMA ReceiveKeeps ==
    ASSUME IInv, NEW k \in Conns, ReceiveRequest(k)
    PROVE  IInv'
<1> DEFINE c == inbox[k].id
<1>1. /\ inbox[k].type = "keyring_request"
      /\ pending' = With(pending, c, k)
      /\ open' = open \cup {c}
      /\ inbox' = [inbox EXCEPT ![k] = NoMsg]
      /\ UNCHANGED <<connected, hungup, reply, provider, used>>
      /\ UNCHANGED <<up, active, stage, cookie, conn, closing, result>>
  BY DEF ReceiveRequest, handleRequest, prompterVars
<1>2. c \in Cookies
  <2>1. inbox[k] \in Messages
    BY DEF IInv, TypeOK
  <2> QED
    BY <1>1, <2>1 DEF Messages, NoMsg
<1>3. k \in connected
  BY <1>1 DEF IInv, EndsAreOpen, NoMsg
<1>4. \/ hungup[k]
      \/ \E o \in Prompts : conn[o] = k /\ cookie[o] = c /\ stage[o] \in Waiting
  BY <1>1 DEF IInv, RequestHasWorker
<1> HIDE DEF c
<1>5. /\ DOMAIN pending' = DOMAIN pending \cup {c}
      /\ \A d \in DOMAIN pending' : pending'[d] = IF d = c THEN k ELSE pending[d]
  BY <1>1 DEF With
<1>6. /\ inbox' \in [Conns -> Messages]
      /\ \A j \in Conns : inbox'[j] = IF j = k THEN NoMsg ELSE inbox[j]
  BY <1>1 DEF IInv, TypeOK, Messages
<1>7. ManagerTypeOK'
  BY <1>1, <1>2, <1>5 DEF IInv, TypeOK, ManagerTypeOK
<1>8. TypeOK'
  BY <1>1, <1>6, <1>7 DEF IInv, TypeOK
<1>9. TrackedIffOpen'
  BY <1>1, <1>3, <1>5 DEF IInv, TrackedIffOpen
<1>10. PromptHasWorker'
  BY <1>1, <1>4, <1>5 DEF IInv, PromptHasWorker
<1>11. \A j \in Conns : inbox'[j] # NoMsg => inbox'[j] = inbox[j]
  BY <1>6
<1>12. EndsAreOpen'
  BY <1>1, <1>11 DEF IInv, EndsAreOpen
<1>13. RequestHasWorker'
  <2>1. \A j \in Conns : inbox'[j].type = "keyring_request" => inbox'[j] = inbox[j]
    BY <1>11 DEF NoMsg
  <2> QED
    BY <1>1, <2>1 DEF IInv, RequestHasWorker
<1>14. WorkerHasCookie'
  BY <1>1 DEF IInv, WorkerHasCookie
<1> QED
  BY <1>8, <1>9, <1>10, <1>12, <1>13, <1>14 DEF IInv

LEMMA DisconnectKeeps ==
    ASSUME IInv, NEW k \in Conns, Disconnected(k)
    PROVE  IInv'
<1>1. /\ inbox[k] = NoMsg
      /\ connected' = connected \ {k}
      /\ closeRequests({c \in DOMAIN pending : pending[c] = k})
      /\ hungup' = [hungup EXCEPT ![k] = FALSE]
      /\ UNCHANGED <<inbox, reply, provider, used>>
      /\ UNCHANGED <<up, active, stage, cookie, conn, closing, result>>
  BY DEF Disconnected, cleanupForSocket, prompterVars
<1>2. /\ DOMAIN pending' \subseteq DOMAIN pending
      /\ open' = DOMAIN pending'
      /\ \A c \in DOMAIN pending' : pending'[c] = pending[c] /\ pending[c] # k
  <2> DEFINE C == {c \in DOMAIN pending : pending[c] = k}
  <2>1. \A c \in DOMAIN pending \ C : pending[c] # k
    OBVIOUS
  <2>2. closeRequests(C)
    BY <1>1
  <2> HIDE DEF C
  <2> QED
    BY <2>1, <2>2, CloseRequests
<1>3. /\ hungup' \in [Conns -> BOOLEAN]
      /\ \A j \in Conns : j # k => hungup'[j] = hungup[j]
      /\ ~hungup'[k]
  BY <1>1 DEF IInv, TypeOK
<1>4. TypeOK'
  BY <1>1, <1>2, <1>3 DEF IInv, TypeOK, ManagerTypeOK
<1>5. TrackedIffOpen'
  BY <1>1, <1>2 DEF IInv, TrackedIffOpen
<1>6. PromptHasWorker'
  BY <1>1, <1>2, <1>3 DEF IInv, TypeOK, ManagerTypeOK, PromptHasWorker
<1>7. RequestHasWorker' /\ EndsAreOpen'
  BY <1>1, <1>3 DEF IInv, RequestHasWorker, EndsAreOpen, NoMsg
<1>8. WorkerHasCookie'
  BY <1>1 DEF IInv, WorkerHasCookie
<1> QED
  BY <1>4, <1>5, <1>6, <1>7, <1>8 DEF IInv

LEMMA RestartKeeps ==
    ASSUME IInv, DaemonRestart
    PROVE  IInv'
<1>1. /\ connected' = {} /\ pending' = Without(pending, Cookies) /\ open' = {}
      /\ inbox' = [k \in Conns |-> NoMsg]
      /\ hungup' = [k \in Conns |-> FALSE]
      /\ provider' = FALSE
      /\ UNCHANGED <<up, active, stage, cookie, conn, closing, result, used>>
  BY DEF DaemonRestart, prompterVars
<1>2. DOMAIN pending' = {}
  BY <1>1 DEF Without, IInv, TypeOK, ManagerTypeOK
<1>3. reply' \in [Conns -> Replies]
  <2>1. \A k \in Conns : reply[k] \in Replies
    BY DEF IInv, TypeOK
  <2> QED
    BY <2>1 DEF DaemonRestart, Replies
<1>4. TypeOK'
  BY <1>1, <1>2, <1>3 DEF IInv, TypeOK, ManagerTypeOK, Messages
<1>5. TrackedIffOpen' /\ PromptHasWorker'
  BY <1>1, <1>2 DEF TrackedIffOpen, PromptHasWorker
<1>6. RequestHasWorker' /\ EndsAreOpen'
  BY <1>1 DEF RequestHasWorker, EndsAreOpen, NoMsg
<1>7. WorkerHasCookie'
  BY <1>1 DEF IInv, WorkerHasCookie
<1> QED
  BY <1>4, <1>5, <1>6, <1>7 DEF IInv

-----------------------------------------------------------------------------
(* A keyring session opens at most once.                                   *)

\* A cookie that is in use was drawn.
CookiesDrawn ==
    /\ open \subseteq used
    /\ \A o \in Prompts : cookie[o] \in used \cup {NoCookie}
    /\ \A k \in Conns : inbox[k].type = "keyring_request" => inbox[k].id \in used

CookiesDiffer ==
    \A o, p \in Prompts : cookie[o] = cookie[p] /\ cookie[o] # NoCookie => o = p

\* What may still open a session is one thing: a worker that has yet to send its
\* request, or a request that is unread; and neither is left once it is open.
OneSource ==
    /\ \A o \in Prompts : stage[o] \in Starting =>
          /\ cookie[o] \notin open
          /\ \A k \in Conns : inbox[k].type = "keyring_request" => inbox[k].id # cookie[o]
    /\ \A k \in Conns : inbox[k].type = "keyring_request" =>
          /\ inbox[k].id \notin open
          /\ \A j \in Conns :
                inbox[j].type = "keyring_request" /\ inbox[j].id = inbox[k].id => j = k

LifeInv == IInv /\ CookiesDrawn /\ CookiesDiffer /\ OneSource

\* The request of one worker or of one message, by the message's shape.
LEMMA RequestShape ==
    ASSUME IInv, NEW k \in Conns
    PROVE  /\ inbox[k].type = "keyring_request" =>
                 /\ inbox[k].id \in Cookies
                 /\ inbox[k] = [type |-> "keyring_request", id |-> inbox[k].id]
           /\ \A c : inbox[k] = [type |-> "keyring_request", id |-> c] =>
                 inbox[k].type = "keyring_request" /\ inbox[k].id = c
<1>1. inbox[k] \in Messages
  BY DEF IInv, TypeOK
<1> QED
  BY <1>1 DEF Messages, NoMsg

\* A step after which each prompt is where it was, or has ended.
LEMMA EndingStep ==
    ASSUME \A c \in Cookies : stageOf(c)' \in {stageOf(c), "ended"}
    PROVE  Life!Next
<1> DEFINE C == {c \in Cookies : stageOf(c)' = "ended"}
<1>1. C \in SUBSET Cookies
  OBVIOUS
<1>2. [c \in Cookies |-> stageOf(c)'] =
         [c \in Cookies |-> IF c \in C THEN "ended" ELSE [d \in Cookies |-> stageOf(d)][c]]
  OBVIOUS
<1>3. Life!Vanish(C)
  BY <1>2 DEF Life!Vanish
<1> QED
  BY <1>1, <1>3 DEF Life!Next

\* A step that draws no cookie and makes no request.
LEMMA QuietStep ==
    ASSUME LifeInv, IInv', used' = used, open' \subseteq open,
           \A k \in Conns : inbox'[k].type = "keyring_request" => inbox'[k] = inbox[k],
           \A o \in Prompts : cookie'[o] \in {cookie[o], NoCookie},
           \A o \in Prompts : stage'[o] \in Starting => stage[o] \in Starting
    PROVE  LifeInv' /\ Life!Next
<1>1. \A o \in Prompts : stage'[o] \in Starting => cookie'[o] = cookie[o]
  BY NoCookieAssumption DEF IInv, WorkerHasCookie, Starting
<1>2. CookiesDrawn'
  BY DEF LifeInv, CookiesDrawn
<1>3. CookiesDiffer'
  BY DEF LifeInv, CookiesDiffer
<1>4. OneSource'
  BY <1>1 DEF LifeInv, OneSource
<1>5. ASSUME NEW c \in Cookies, stageOf(c)' # "ended"
      PROVE  stageOf(c)' = stageOf(c)
  <2>1. CASE c \in open'
    BY <2>1 DEF stageOf
  <2>2. CASE c \notin open' /\ c \notin used
    BY <2>2 DEF stageOf, LifeInv, CookiesDrawn
  <2>3. ASSUME c \notin open', NEW o \in Prompts, cookie'[o] = c, stage'[o] \in Starting
        PROVE  stageOf(c)' = stageOf(c)
    <3>1. cookie[o] = c /\ stage[o] \in Starting
      BY <1>1, <2>3
    <3>2. c \notin open
      BY <3>1 DEF LifeInv, OneSource
    <3> QED
      BY <2>3, <3>1, <3>2 DEF stageOf
  <2>4. ASSUME c \notin open', NEW k \in Conns,
               inbox'[k] = [type |-> "keyring_request", id |-> c]
        PROVE  stageOf(c)' = stageOf(c)
    <3>1. inbox[k] = [type |-> "keyring_request", id |-> c]
      BY <2>4
    <3>2. inbox[k].type = "keyring_request" /\ inbox[k].id = c
      BY <3>1
    <3>3. c \notin open
      BY <3>2 DEF LifeInv, OneSource
    <3> QED
      BY <2>4, <3>1, <3>3 DEF stageOf
  <2> QED
    BY <1>5, <2>1, <2>2, <2>3, <2>4 DEF stageOf
<1>6. \A c \in Cookies : stageOf(c)' \in {stageOf(c), "ended"}
  BY <1>5
<1> QED
  BY <1>2, <1>3, <1>4, <1>6, EndingStep DEF LifeInv

LEMMA AsyncStep ==
    ASSUME LifeInv, IInv', NEW p \in Prompts, NEW thread \in Starting, prompt_async(p, thread)
    PROVE  LifeInv' /\ Life!Next
<1>1. PICK d \in Cookies \ used :
         cookie' = [cookie EXCEPT ![p] = d] /\ used' = used \cup {d}
  BY DEF prompt_async, generate_cookie
<1>2. /\ stage[p] = "idle" /\ stage' = [stage EXCEPT ![p] = thread]
      /\ open' = open /\ inbox' = inbox
  BY DEF prompt_async, managerVars, networkVars
<1>3. /\ stage'[p] = thread /\ cookie'[p] = d
      /\ \A o \in Prompts : o # p => stage'[o] = stage[o] /\ cookie'[o] = cookie[o]
  BY <1>1, <1>2 DEF LifeInv, IInv, TypeOK
<1>4. /\ d \notin open
      /\ \A o \in Prompts : cookie[o] # d
      /\ \A k \in Conns : inbox[k].type = "keyring_request" => inbox[k].id # d
  BY <1>1, NoCookieAssumption DEF LifeInv, CookiesDrawn
<1>5. CookiesDrawn'
  BY <1>1, <1>2, <1>3 DEF LifeInv, CookiesDrawn
<1>6. CookiesDiffer'
  BY <1>3, <1>4 DEF LifeInv, CookiesDiffer
<1>7. OneSource'
  BY <1>2, <1>3, <1>4 DEF LifeInv, OneSource
<1>8. ASSUME NEW c \in Cookies
      PROVE  stageOf(c)' = stageOf(c)
  <2>1. CASE c = d
    BY <1>1, <1>2, <1>3, <1>4, <2>1 DEF stageOf
  <2>2. CASE c # d
    <3>1. stage[p] \notin Starting
      BY <1>2 DEF Starting
    <3>2. (\E o \in Prompts : cookie'[o] = c /\ stage'[o] \in Starting)
             <=> (\E o \in Prompts : cookie[o] = c /\ stage[o] \in Starting)
      BY <1>3, <2>2, <3>1
    <3> QED
      BY <1>1, <1>2, <2>2, <3>2 DEF stageOf
  <2> QED
    BY <2>1, <2>2
<1> QED
  BY <1>5, <1>6, <1>7, <1>8, EndingStep DEF LifeInv

LEMMA SendStep ==
    ASSUME LifeInv, IInv', NEW p \in Prompts, SendRequest(p)
    PROVE  LifeInv' /\ Life!Next
<1> DEFINE d == cookie[p]
<1>1. PICK k \in Conns : inbox' = [inbox EXCEPT ![k] = [type |-> "keyring_request", id |-> d]]
                         /\ k \notin connected
  BY DEF SendRequest, send
<1>2. /\ stage[p] \in Starting
      /\ stage' = [stage EXCEPT ![p] = IF @ = "password_thread" THEN "password"
                                                              ELSE "confirm"]
      /\ UNCHANGED <<cookie, used>> /\ open' = open
  BY DEF SendRequest, managerVars
<1>3. /\ stage'[p] \notin Starting
      /\ \A o \in Prompts : o # p => stage'[o] = stage[o]
  BY <1>2 DEF LifeInv, IInv, TypeOK, Starting
<1>4. /\ inbox'[k] = [type |-> "keyring_request", id |-> d]
      /\ \A j \in Conns : j # k => inbox'[j] = inbox[j]
  BY <1>1 DEF LifeInv, IInv, TypeOK
<1>5. inbox'[k].type = "keyring_request" /\ inbox'[k].id = d
  BY <1>4
<1>6. /\ d \in Cookies /\ d \in used /\ d \notin open
      /\ \A j \in Conns : inbox[j].type = "keyring_request" => inbox[j].id # d
      /\ \A o \in Prompts : cookie[o] = d => o = p
  <2>1. d \in Cookies
    BY <1>2 DEF LifeInv, IInv, WorkerHasCookie, Starting
  <2> QED
    BY <1>2, <2>1, NoCookieAssumption DEF LifeInv, CookiesDrawn, CookiesDiffer, OneSource
<1>7. inbox[k] = NoMsg
  BY <1>1 DEF LifeInv, IInv, EndsAreOpen
<1> HIDE DEF d
<1>8. CookiesDrawn' /\ CookiesDiffer'
  BY <1>2, <1>4, <1>5, <1>6 DEF LifeInv, CookiesDrawn, CookiesDiffer
<1>9. OneSource'
  <2>1. ASSUME NEW o \in Prompts, stage'[o] \in Starting
        PROVE  /\ cookie[o] \notin open /\ cookie[o] # d
               /\ \A j \in Conns : inbox[j].type = "keyring_request" => inbox[j].id # cookie[o]
    <3>1. o # p /\ stage[o] \in Starting
      BY <1>3, <2>1
    <3> QED
      BY <1>6, <3>1 DEF LifeInv, OneSource
  <2>2. ASSUME NEW j \in Conns, inbox'[j].type = "keyring_request"
        PROVE  /\ inbox'[j].id \notin open
               /\ \A i \in Conns :
                     inbox'[i].type = "keyring_request" /\ inbox'[i].id = inbox'[j].id => i = j
    <3>1. CASE j = k
      BY <1>4, <1>5, <1>6, <3>1
    <3>2. CASE j # k
      BY <1>4, <1>5, <1>6, <2>2, <3>2 DEF LifeInv, OneSource
    <3> QED
      BY <3>1, <3>2
  <2> QED
    BY <1>2, <1>4, <1>5, <2>1, <2>2 DEF OneSource
<1>10. ASSUME NEW c \in Cookies
       PROVE  stageOf(c)' = stageOf(c)
  <2>1. CASE c = d
    <3>1. cookie[p] = c
      BY <2>1 DEF d
    <3> QED
      BY <1>2, <1>4, <1>6, <2>1, <3>1 DEF stageOf
  <2>2. CASE c # d
    <3>1. (\E o \in Prompts : cookie'[o] = c /\ stage'[o] \in Starting)
             <=> (\E o \in Prompts : cookie[o] = c /\ stage[o] \in Starting)
      <4>1. cookie[p] # c
        BY <2>2 DEF d
      <4> QED
        BY <1>2, <1>3, <4>1
    <3>2. (\E j \in Conns : inbox'[j] = [type |-> "keyring_request", id |-> c])
             <=> (\E j \in Conns : inbox[j] = [type |-> "keyring_request", id |-> c])
      <4>1. inbox'[k] # [type |-> "keyring_request", id |-> c]
        BY <1>5, <2>2
      <4>2. inbox[k] # [type |-> "keyring_request", id |-> c]
        BY <1>7 DEF NoMsg
      <4> QED
        BY <1>4, <4>1, <4>2
    <3> QED
      BY <1>2, <3>1, <3>2 DEF stageOf
  <2> QED
    BY <2>1, <2>2
<1> QED
  BY <1>8, <1>9, <1>10, EndingStep DEF LifeInv

LEMMA ReceiveStep ==
    ASSUME LifeInv, IInv', NEW k \in Conns, ReceiveRequest(k)
    PROVE  LifeInv' /\ Life!Next
<1>1. /\ inbox[k].type = "keyring_request"
      /\ inbox' = [inbox EXCEPT ![k] = NoMsg]
      /\ open' = open \cup {inbox[k].id}
      /\ UNCHANGED <<cookie, stage, used>>
  BY DEF ReceiveRequest, handleRequest, prompterVars
<1>2. PICK d \in Cookies : d = inbox[k].id /\ inbox[k] = [type |-> "keyring_request", id |-> d]
  BY <1>1, RequestShape DEF LifeInv
<1>3. /\ inbox'[k] = NoMsg
      /\ \A j \in Conns : j # k => inbox'[j] = inbox[j]
      /\ \A j \in Conns : inbox'[j].type = "keyring_request" =>
            j # k /\ inbox'[j] = inbox[j]
  BY <1>1 DEF LifeInv, IInv, TypeOK, NoMsg
<1>4. /\ d \in used /\ d \notin open
      /\ \A j \in Conns : inbox[j].type = "keyring_request" /\ inbox[j].id = d => j = k
      /\ \A o \in Prompts : stage[o] \in Starting => cookie[o] # d
  BY <1>1, <1>2 DEF LifeInv, CookiesDrawn, OneSource
<1>5. CookiesDrawn' /\ CookiesDiffer'
  BY <1>1, <1>2, <1>3, <1>4 DEF LifeInv, CookiesDrawn, CookiesDiffer
<1>6. OneSource'
  BY <1>1, <1>2, <1>3, <1>4 DEF LifeInv, OneSource
<1>7. stageOf(d) = "new" /\ stageOf(d)' = "open"
  BY <1>1, <1>2, <1>4 DEF stageOf
<1>8. ASSUME NEW c \in Cookies, c # d
      PROVE  stageOf(c)' = stageOf(c)
  <2>1. (\E j \in Conns : inbox'[j] = [type |-> "keyring_request", id |-> c])
           <=> (\E j \in Conns : inbox[j] = [type |-> "keyring_request", id |-> c])
    <3>1. inbox[k] # [type |-> "keyring_request", id |-> c]
      BY <1>2, <1>8
    <3>2. inbox'[k] # [type |-> "keyring_request", id |-> c]
      BY <1>3 DEF NoMsg
    <3> QED
      BY <1>3, <3>1, <3>2
  <2> QED
    BY <1>1, <1>2, <1>8, <2>1 DEF stageOf
<1>9. Life!Appear(d)
  <2>1. [c \in Cookies |-> stageOf(c)][d] = "new"
    BY <1>2, <1>7
  <2>2. [c \in Cookies |-> stageOf(c)'] =
           [[c \in Cookies |-> stageOf(c)] EXCEPT ![d] = "open"]
    BY <1>2, <1>7, <1>8
  <2> QED
    BY <2>1, <2>2 DEF Life!Appear
<1>10. Life!Next
  BY <1>2, <1>9 DEF Life!Next
<1> QED
  BY <1>5, <1>6, <1>10 DEF LifeInv

\* Each step of the prompter's main thread, apart from a new request.
LEMMA MainStep ==
    ASSUME LifeInv, IInv',
           \/ Start \/ prompt_close \/ CancelSent \/ on_timeout \/ Killed \/ EndOfStream
           \/ \E o \in Prompts : BeginPrompting(o)
    PROVE  LifeInv' /\ Life!Next
<1>1. used' = used /\ open' = open
  BY DEF Start, prompt_close, CancelSent, on_timeout, Killed, EndOfStream, exit,
         BeginPrompting, managerVars
<1>2. \A o \in Prompts : cookie'[o] \in {cookie[o], NoCookie}
  BY DEF Start, prompt_close, CancelSent, on_timeout, Killed, EndOfStream, exit,
         BeginPrompting, stopPrompting, LifeInv, IInv, TypeOK
<1>3. \A o \in Prompts : stage'[o] \in Starting => stage[o] \in Starting
  BY DEF Start, prompt_close, CancelSent, on_timeout, Killed, EndOfStream, exit,
         BeginPrompting, Starting
<1>4. \A k \in Conns : inbox'[k].type = "keyring_request" => inbox'[k] = inbox[k]
  <2>1. CASE prompt_close
    <3>1. ASSUME NEW k \in Conns,
                 inbox' = [inbox EXCEPT ![k] = [type |-> "session.cancel", id |-> cookie[active]]]
          PROVE  \A j \in Conns : inbox'[j].type = "keyring_request" => inbox'[j] = inbox[j]
      BY <3>1 DEF LifeInv, IInv, TypeOK
    <3>2. CASE inbox' = inbox
      BY <3>2
    <3> QED
      BY <2>1, <3>1, <3>2 DEF prompt_close, send, networkVars
  <2>2. CASE ~prompt_close
    <3>1. inbox' = inbox
      BY <2>2 DEF Start, CancelSent, on_timeout, Killed, EndOfStream, exit,
                  BeginPrompting, networkVars, hangUp
    <3> QED
      BY <3>1
  <2> QED
    BY <2>1, <2>2
<1> QED
  BY <1>1, <1>2, <1>3, <1>4, QuietStep

LEMMA ReturnStep ==
    ASSUME LifeInv, IInv', NEW p \in Prompts, Unreachable(p) \/ Replied(p)
    PROVE  LifeInv' /\ Life!Next
<1>1. used' = used /\ open' = open /\ inbox' = inbox
  BY DEF Unreachable, Replied, threadReturns, workerHangsUp, hangUp, networkVars, managerVars
<1>2. /\ cookie' = IF active = p THEN cookie ELSE [cookie EXCEPT ![p] = NoCookie]
      /\ stage' = [stage EXCEPT ![p] = "idle"]
  BY DEF Unreachable, Replied, threadReturns
<1>3. \A o \in Prompts : cookie'[o] \in {cookie[o], NoCookie}
  BY <1>2 DEF LifeInv, IInv, TypeOK
<1>4. \A o \in Prompts : stage'[o] \in Starting => stage[o] \in Starting
  BY <1>2 DEF LifeInv, IInv, TypeOK, Starting
<1> QED
  BY <1>1, <1>3, <1>4, QuietStep

\* Each step of the daemon, apart from a new request, and a step of neither.
LEMMA DaemonStep ==
    ASSUME LifeInv, IInv',
           \/ \E k \in Conns : ReceiveCancel(k) \/ Disconnected(k)
           \/ \E c \in Cookies : Respond(c) \/ Cancel(c)
           \/ ProviderChanges \/ DaemonRestart \/ UNCHANGED vars
    PROVE  LifeInv' /\ Life!Next
<1>1. used' = used /\ cookie' = cookie /\ stage' = stage
  BY DEF ReceiveCancel, Disconnected, Respond, Cancel, ProviderChanges, DaemonRestart, vars,
         prompterVars
<1>2. open' \subseteq open
  BY DEF ReceiveCancel, Disconnected, Respond, Cancel, ProviderChanges, DaemonRestart, vars,
         cleanupForSocket, handleResponse, handleCancel, closeRequests, managerVars
<1>3. \A k \in Conns : inbox'[k].type = "keyring_request" => inbox'[k] = inbox[k]
  <2>1. ASSUME NEW k \in Conns, inbox' = [inbox EXCEPT ![k] = NoMsg]
        PROVE  \A j \in Conns : inbox'[j].type = "keyring_request" => inbox'[j] = inbox[j]
    BY <2>1 DEF LifeInv, IInv, TypeOK, NoMsg
  <2>2. CASE inbox' = inbox
    BY <2>2
  <2>3. CASE inbox' = [k \in Conns |-> NoMsg]
    BY <2>3 DEF NoMsg
  <2> QED
    BY <2>1, <2>2, <2>3 DEF ReceiveCancel, Disconnected, Respond, Cancel, ProviderChanges,
                            DaemonRestart, vars, networkVars
<1> QED
  BY <1>1, <1>2, <1>3, QuietStep

-----------------------------------------------------------------------------
(* A worker waits exactly as long as its prompt is asked or under way.     *)

\* Who uses a connection: one worker while it waits, or the main thread while it
\* closes a prompt; and only what somebody still holds can be read.
ConnsFit ==
    /\ \A o \in Prompts : stage[o] \in Waiting <=> conn[o] # NoConn
    /\ \A o, p \in Prompts : conn[o] = conn[p] /\ conn[o] # NoConn => o = p
    /\ \A o \in Prompts : conn[o] # NoConn => conn[o] # closing
    /\ \A k \in Held : ~hungup[k]
    /\ \A k \in Conns : reply[k] # "none" => k \in Held
    /\ \A k \in Conns : inbox[k].type = "session.cancel" => hungup[k] \/ k = closing

\* The replies that a worker makes something of.
RepliesFit ==
    \A o \in Prompts :
        stage[o] \in Waiting => reply[conn[o]] \in {"none", "ok", "cancelled", "eof", "reset"}

WorkInv == LifeInv /\ ConnsFit /\ RepliesFit /\ WorkerHasPrompt

LEMMA ConnTypes ==
    ASSUME WorkInv
    PROVE  /\ \A o \in Prompts : stage[o] \in Waiting =>
                 conn[o] \in Conns /\ conn[o] \in Held /\ ~hungup[conn[o]]
           /\ \A o \in Prompts : stage[o] \notin Waiting => conn[o] = NoConn
           /\ closing # NoConn => closing \in Conns /\ closing \in Held
           /\ \A k \in Held : k \in Conns /\ (k = closing \/ \E o \in Prompts : conn[o] = k)
           /\ NoConn \notin Held
<1>1. conn \in [Prompts -> Conns \cup {NoConn}] /\ closing \in Conns \cup {NoConn}
  BY DEF WorkInv, LifeInv, IInv, TypeOK
<1> QED
  BY <1>1, NoConnAssumption DEF WorkInv, ConnsFit, Held

\* A step that leaves connections and workers alone.
LEMMA NoConnStep ==
    ASSUME WorkInv, LifeInv', UNCHANGED <<pending, inbox, hungup, reply, conn, closing>>,
           \A o \in Prompts : stage'[o] \in Waiting <=> stage[o] \in Waiting,
           \A o \in Prompts : stage[o] \in Waiting => cookie'[o] = cookie[o]
    PROVE  WorkInv'
<1>1. Held' = Held
  BY DEF Held
<1>2. ConnsFit'
  BY <1>1 DEF WorkInv, ConnsFit
<1>3. RepliesFit'
  BY DEF WorkInv, RepliesFit
<1>4. WorkerHasPrompt'
  BY DEF WorkInv, WorkerHasPrompt
<1> QED
  BY <1>2, <1>3, <1>4 DEF WorkInv

\* A step that gives up the connections of K.
LEMMA HangUpStep ==
    ASSUME WorkInv, LifeInv', NEW K \in SUBSET Held, hangUp(K), pending' = pending,
           \A o \in Prompts : conn'[o] = IF conn[o] \in K THEN NoConn ELSE conn[o],
           closing' = IF closing \in K THEN NoConn ELSE closing,
           \A o \in Prompts : stage'[o] \in Waiting <=> stage[o] \in Waiting /\ conn[o] \notin K,
           \A o \in Prompts : stage'[o] \in Waiting => cookie'[o] = cookie[o]
    PROVE  WorkInv'
<1>1. /\ inbox' = inbox
      /\ \A k \in Conns : hungup'[k] = (hungup[k] \/ k \in K \cap connected)
      /\ \A k \in Conns : reply'[k] = IF k \in K THEN "none" ELSE reply[k]
  BY DEF hangUp
<1>2. NoConn \notin K /\ K \subseteq Conns
  BY ConnTypes
<1>3. Held' = Held \ K
  BY <1>2 DEF Held
<1>4. \A o \in Prompts : stage'[o] \in Waiting =>
         stage[o] \in Waiting /\ conn'[o] = conn[o] /\ conn[o] \in Conns \ K
  BY ConnTypes
<1>5. \A k \in Conns : inbox[k].type = "session.cancel" => k \in connected
  BY DEF WorkInv, LifeInv, IInv, EndsAreOpen, NoMsg
<1>6. /\ \A o \in Prompts : stage'[o] \in Waiting <=> conn'[o] # NoConn
      /\ \A o, p \in Prompts : conn'[o] = conn'[p] /\ conn'[o] # NoConn => o = p
      /\ \A o \in Prompts : conn'[o] # NoConn => conn'[o] # closing'
  BY <1>2, ConnTypes DEF WorkInv, ConnsFit
<1>7. \A k \in Held' : ~hungup'[k]
  <2>1. \A k \in Held : k \in Conns
    BY ConnTypes
  <2> QED
    BY <1>1, <1>3, <2>1 DEF WorkInv, ConnsFit
<1>8. \A k \in Conns : reply'[k] # "none" => k \in Held'
  BY <1>1, <1>3 DEF WorkInv, ConnsFit
<1>9. \A k \in Conns : inbox'[k].type = "session.cancel" => hungup'[k] \/ k = closing'
  <2> SUFFICES ASSUME NEW k \in Conns, inbox[k].type = "session.cancel", ~hungup'[k]
               PROVE  k = closing'
    BY <1>1
  <2>1. ~hungup[k] /\ k \notin K
    BY <1>1, <1>5
  <2> QED
    BY <2>1 DEF WorkInv, ConnsFit
<1>10. ConnsFit'
  BY <1>6, <1>7, <1>8, <1>9 DEF ConnsFit
<1>11. RepliesFit'
  BY <1>1, <1>4 DEF WorkInv, RepliesFit
<1>12. WorkerHasPrompt'
  BY <1>1, <1>4 DEF WorkInv, WorkerHasPrompt
<1> QED
  BY <1>10, <1>11, <1>12 DEF WorkInv

\* A step that takes connection k and writes msg to it.
LEMMA ConnectStep ==
    ASSUME WorkInv, LifeInv', NEW k \in Conns, NEW msg, send(k, msg)
    PROVE  /\ k \notin Held /\ reply'[k] = "none" /\ ~hungup'[k] /\ inbox'[k] = msg
           /\ \A o \in Prompts : conn[o] # k
           /\ closing # k
           /\ \A j \in Conns : j # k => inbox'[j] = inbox[j]
           /\ UNCHANGED <<hungup, reply>>
<1>1. /\ k \notin connected \cup Held
      /\ inbox' = [inbox EXCEPT ![k] = msg]
      /\ UNCHANGED <<hungup, reply>>
  BY DEF send
<1>2. reply[k] = "none"
  BY <1>1 DEF WorkInv, ConnsFit
<1>3. ~hungup[k]
  BY <1>1 DEF WorkInv, LifeInv, IInv, EndsAreOpen
<1>4. inbox'[k] = msg /\ \A j \in Conns : j # k => inbox'[j] = inbox[j]
  BY <1>1 DEF WorkInv, LifeInv, IInv, TypeOK
<1>5. (\A o \in Prompts : conn[o] # k) /\ closing # k
  BY <1>1, NoConnAssumption DEF Held
<1> QED
  BY <1>1, <1>2, <1>3, <1>4, <1>5

LEMMA CloseWorks ==
    ASSUME WorkInv, LifeInv', prompt_close, NEW k \in Conns, closing' = k,
           send(k, [type |-> "session.cancel", id |-> cookie[active]]),
           UNCHANGED <<active, cookie, result>>
    PROVE  WorkInv'
<1>1. /\ closing = NoConn
      /\ UNCHANGED <<stage, conn>> /\ pending' = pending
  BY DEF prompt_close, Free, managerVars
<1>2. /\ k \notin Held /\ reply'[k] = "none" /\ ~hungup'[k]
      /\ inbox'[k] = [type |-> "session.cancel", id |-> cookie[active]]
      /\ \A o \in Prompts : conn[o] # k
      /\ \A j \in Conns : j # k => inbox'[j] = inbox[j]
      /\ UNCHANGED <<hungup, reply>>
  BY ConnectStep
<1>3. Held' = Held \cup {k}
  BY <1>1, NoConnAssumption DEF Held
<1>4. \A j \in Conns : j # k /\ inbox[j].type = "session.cancel" => hungup[j]
  BY <1>1, NoConnAssumption DEF WorkInv, ConnsFit
<1>5. \A o \in Prompts : conn[o] # NoConn => conn[o] # closing'
  BY <1>2
<1>6. ConnsFit'
  BY <1>1, <1>2, <1>3, <1>4, <1>5 DEF WorkInv, ConnsFit
<1>7. RepliesFit'
  BY <1>1, <1>2 DEF WorkInv, RepliesFit
<1>8. WorkerHasPrompt'
  <2>1. \A o \in Prompts : stage[o] \in Waiting => inbox'[conn[o]] = inbox[conn[o]]
    BY <1>2, ConnTypes
  <2> QED
    BY <1>1, <1>2, <2>1 DEF WorkInv, WorkerHasPrompt
<1> QED
  BY <1>6, <1>7, <1>8 DEF WorkInv

LEMMA RequestWorks ==
    ASSUME WorkInv, LifeInv', NEW p \in Prompts, SendRequest(p)
    PROVE  WorkInv'
<1>1. PICK k \in Conns :
         /\ send(k, [type |-> "keyring_request", id |-> cookie[p]])
         /\ conn' = [conn EXCEPT ![p] = k]
  BY DEF SendRequest
<1>2. /\ stage[p] \in Starting
      /\ stage' = [stage EXCEPT ![p] = IF @ = "password_thread" THEN "password"
                                                              ELSE "confirm"]
      /\ UNCHANGED <<cookie, closing>> /\ pending' = pending
  BY DEF SendRequest, managerVars
<1>3. /\ k \notin Held /\ reply'[k] = "none" /\ ~hungup'[k]
      /\ inbox'[k] = [type |-> "keyring_request", id |-> cookie[p]]
      /\ \A o \in Prompts : conn[o] # k
      /\ closing # k
      /\ \A j \in Conns : j # k => inbox'[j] = inbox[j]
      /\ UNCHANGED <<hungup, reply>>
  BY <1>1, ConnectStep
<1>4. /\ stage'[p] \in Waiting /\ conn'[p] = k
      /\ \A o \in Prompts : o # p => stage'[o] = stage[o] /\ conn'[o] = conn[o]
  BY <1>1, <1>2 DEF WorkInv, LifeInv, IInv, TypeOK, Waiting
<1>5. stage[p] \notin Waiting /\ conn[p] = NoConn /\ k # NoConn
  BY <1>2, ConnTypes, NoConnAssumption DEF Starting, Waiting
<1>6. Held' = Held \cup {k}
  BY <1>2, <1>4, <1>5 DEF Held
<1>7. ConnsFit'
  <2>1. \A o \in Prompts : stage'[o] \in Waiting <=> conn'[o] # NoConn
    BY <1>4, <1>5 DEF WorkInv, ConnsFit
  <2>2. \A o, q \in Prompts : conn'[o] = conn'[q] /\ conn'[o] # NoConn => o = q
    BY <1>3, <1>4 DEF WorkInv, ConnsFit
  <2>3. \A o \in Prompts : conn'[o] # NoConn => conn'[o] # closing'
    BY <1>2, <1>3, <1>4 DEF WorkInv, ConnsFit
  <2>4. /\ \A j \in Held' : ~hungup'[j]
        /\ \A j \in Conns : reply'[j] # "none" => j \in Held'
    BY <1>3, <1>6 DEF WorkInv, ConnsFit
  <2>5. \A j \in Conns : inbox'[j].type = "session.cancel" => hungup'[j] \/ j = closing'
    BY <1>2, <1>3 DEF WorkInv, ConnsFit
  <2> QED
    BY <2>1, <2>2, <2>3, <2>4, <2>5 DEF ConnsFit
<1>8. RepliesFit'
  BY <1>3, <1>4 DEF WorkInv, RepliesFit
<1>9. WorkerHasPrompt'
  <2> SUFFICES ASSUME NEW o \in Prompts, stage'[o] \in Waiting
               PROVE  reply'[conn'[o]] = "none" <=>
                         \/ inbox'[conn'[o]] = [type |-> "keyring_request", id |-> cookie'[o]]
                         \/ cookie'[o] \in DOMAIN pending' /\ pending'[cookie'[o]] = conn'[o]
    BY DEF WorkerHasPrompt
  <2>1. CASE o = p
    BY <1>2, <1>3, <1>4, <2>1
  <2>2. CASE o # p
    <3>1. stage[o] \in Waiting /\ conn'[o] = conn[o] /\ conn[o] \in Conns
      BY <1>4, <2>2, ConnTypes
    <3> QED
      BY <1>2, <1>3, <3>1 DEF WorkInv, WorkerHasPrompt
  <2> QED
    BY <2>1, <2>2
<1> QED
  BY <1>7, <1>8, <1>9 DEF WorkInv

\* A worker's connection carries its request or a reply, never a cancel.
LEMMA WorkerReads ==
    ASSUME WorkInv, NEW o \in Prompts, stage[o] \in Waiting
    PROVE  /\ inbox[conn[o]].type # "session.cancel"
           /\ inbox[conn[o]].type = "keyring_request" =>
                 inbox[conn[o]] = [type |-> "keyring_request", id |-> cookie[o]]
<1>1. conn[o] \in Conns /\ conn[o] # NoConn /\ ~hungup[conn[o]]
  BY ConnTypes, NoConnAssumption
<1>2. inbox[conn[o]].type # "session.cancel"
  BY <1>1 DEF WorkInv, ConnsFit
<1>3. ASSUME inbox[conn[o]].type = "keyring_request"
      PROVE  inbox[conn[o]] = [type |-> "keyring_request", id |-> cookie[o]]
  <2>1. PICK p \in Prompts : conn[p] = conn[o] /\ cookie[p] = inbox[conn[o]].id
    BY <1>1, <1>3 DEF WorkInv, LifeInv, IInv, RequestHasWorker
  <2>2. p = o
    BY <1>1, <2>1 DEF WorkInv, ConnsFit
  <2> QED
    BY <1>1, <1>3, <2>1, <2>2, RequestShape DEF WorkInv, LifeInv
<1> QED
  BY <1>2, <1>3

LEMMA ReceiveWorks ==
    ASSUME WorkInv, LifeInv', NEW k \in Conns, ReceiveRequest(k)
    PROVE  WorkInv'
<1>1. /\ inbox[k].type = "keyring_request"
      /\ pending' = With(pending, inbox[k].id, k)
      /\ inbox' = [inbox EXCEPT ![k] = NoMsg]
      /\ UNCHANGED <<hungup, reply, stage, cookie, conn, closing>>
  BY DEF ReceiveRequest, handleRequest, prompterVars
<1>2. PICK d \in Cookies : d = inbox[k].id
  BY <1>1, RequestShape DEF WorkInv, LifeInv
<1>3. /\ inbox'[k] = NoMsg
      /\ \A j \in Conns : j # k => inbox'[j] = inbox[j]
  BY <1>1 DEF WorkInv, LifeInv, IInv, TypeOK
<1>4. /\ DOMAIN pending' = DOMAIN pending \cup {d}
      /\ \A c \in DOMAIN pending' : pending'[c] = IF c = d THEN k ELSE pending[c]
  BY <1>1, <1>2 DEF With
<1>5. d \notin DOMAIN pending
  BY <1>1, <1>2 DEF WorkInv, LifeInv, OneSource, IInv, TrackedIffOpen
<1>6. Held' = Held
  BY <1>1 DEF Held
<1>7. ConnsFit'
  BY <1>1, <1>3, <1>6 DEF WorkInv, ConnsFit, NoMsg
<1>8. RepliesFit'
  BY <1>1 DEF WorkInv, RepliesFit
<1>9. ASSUME NEW o \in Prompts, stage[o] \in Waiting
      PROVE  reply[conn[o]] = "none" <=>
                \/ inbox'[conn[o]] = [type |-> "keyring_request", id |-> cookie[o]]
                \/ cookie[o] \in DOMAIN pending' /\ pending'[cookie[o]] = conn[o]
  <2>0. conn[o] \in Conns
    BY <1>9, ConnTypes
  <2>1. CASE conn[o] = k
    <3>1. inbox[conn[o]] = [type |-> "keyring_request", id |-> cookie[o]]
      BY <1>1, <1>9, <2>1, WorkerReads
    <3>2. cookie[o] = d
      BY <1>2, <2>1, <3>1
    <3>3. reply[conn[o]] = "none"
      BY <1>9, <3>1 DEF WorkInv, WorkerHasPrompt
    <3> QED
      BY <1>4, <2>1, <3>2, <3>3
  <2>2. CASE conn[o] # k
    <3>1. inbox'[conn[o]] = inbox[conn[o]]
      BY <1>3, <2>0, <2>2
    <3>2. (cookie[o] \in DOMAIN pending' /\ pending'[cookie[o]] = conn[o])
             <=> (cookie[o] \in DOMAIN pending /\ pending[cookie[o]] = conn[o])
      BY <1>4, <1>5, <2>2
    <3> QED
      BY <1>9, <3>1, <3>2 DEF WorkInv, WorkerHasPrompt
  <2> QED
    BY <2>1, <2>2
<1>10. WorkerHasPrompt'
  BY <1>1, <1>9 DEF WorkerHasPrompt
<1> QED
  BY <1>7, <1>8, <1>10 DEF WorkInv

\* A step of the daemon that answers the requests of C, and may read the message
\* of k, which is not a request that somebody waits for.
LEMMA AnswerStep ==
    ASSUME WorkInv, LifeInv', NEW C,
           DOMAIN pending' = DOMAIN pending \ C,
           \A c \in DOMAIN pending' : pending'[c] = pending[c],
           UNCHANGED <<hungup, stage, cookie, conn, closing>>,
           \A k \in Conns : \/ inbox'[k] = inbox[k]
                            \/ inbox'[k] = NoMsg /\ inbox[k].type = "session.cancel",
           \A k \in Conns : reply'[k] # reply[k] => k \in Held,
           \A o \in Prompts : stage[o] \in Waiting =>
              IF \E c \in C \cap DOMAIN pending : pending[c] = conn[o]
              THEN reply'[conn[o]] \in {"ok", "cancelled"}
              ELSE reply'[conn[o]] = reply[conn[o]]
    PROVE  WorkInv'
<1>1. Held' = Held
  BY DEF Held
<1>2. ConnsFit'
  BY <1>1 DEF WorkInv, ConnsFit, NoMsg
<1>3. RepliesFit'
  BY DEF WorkInv, RepliesFit
<1>4. ASSUME NEW o \in Prompts, stage[o] \in Waiting
      PROVE  reply'[conn[o]] = "none" <=>
                \/ inbox'[conn[o]] = [type |-> "keyring_request", id |-> cookie[o]]
                \/ cookie[o] \in DOMAIN pending' /\ pending'[cookie[o]] = conn[o]
  <2>0. conn[o] \in Conns /\ conn[o] # NoConn /\ ~hungup[conn[o]]
    BY <1>4, ConnTypes, NoConnAssumption
  <2>1. inbox'[conn[o]] = inbox[conn[o]]
    BY <1>4, <2>0, WorkerReads
  <2>2. ASSUME NEW c \in DOMAIN pending, pending[c] = conn[o]
        PROVE  cookie[o] = c
    BY <2>0, <2>2 DEF WorkInv, LifeInv, IInv, PromptHasWorker, ConnsFit
  <2>3. CASE \E c \in C \cap DOMAIN pending : pending[c] = conn[o]
    <3>1. reply'[conn[o]] # "none"
      BY <1>4, <2>3
    <3>2. /\ cookie[o] \in DOMAIN pending /\ pending[cookie[o]] = conn[o]
          /\ cookie[o] \notin DOMAIN pending'
      BY <2>2, <2>3
    <3>3. inbox[conn[o]].type # "keyring_request"
      <4> SUFFICES ASSUME inbox[conn[o]].type = "keyring_request"
                   PROVE  FALSE
        OBVIOUS
      <4>1. inbox[conn[o]] = [type |-> "keyring_request", id |-> cookie[o]]
        BY <1>4, WorkerReads
      <4>2. inbox[conn[o]].id = cookie[o]
        BY <4>1
      <4> QED
        BY <2>0, <3>2, <4>2 DEF WorkInv, LifeInv, OneSource, IInv, TrackedIffOpen
    <3>4. inbox[conn[o]] # [type |-> "keyring_request", id |-> cookie[o]]
      BY <3>3
    <3> QED
      BY <2>1, <3>1, <3>2, <3>4
  <2>4. CASE ~ \E c \in C \cap DOMAIN pending : pending[c] = conn[o]
    <3>1. reply'[conn[o]] = reply[conn[o]]
      BY <1>4, <2>4
    <3>2. (cookie[o] \in DOMAIN pending' /\ pending'[cookie[o]] = conn[o])
             <=> (cookie[o] \in DOMAIN pending /\ pending[cookie[o]] = conn[o])
      BY <2>4
    <3> QED
      BY <1>4, <2>1, <3>1, <3>2 DEF WorkInv, WorkerHasPrompt
  <2> QED
    BY <2>3, <2>4
<1>5. WorkerHasPrompt'
  BY <1>4 DEF WorkerHasPrompt
<1> QED
  BY <1>2, <1>3, <1>5 DEF WorkInv

LEMMA RespondWorks ==
    ASSUME WorkInv, LifeInv', NEW c \in Cookies, Respond(c) \/ Cancel(c)
    PROVE  WorkInv'
<1>1. PICK value \in {"ok", "cancelled"} : sendJson({pending[c]}, value)
  BY DEF Respond, Cancel
<1>2. /\ UNCHANGED <<inbox, hungup, stage, cookie, conn, closing>>
      /\ c \in DOMAIN pending /\ closeRequests({c})
  BY DEF Respond, Cancel, handleResponse, handleCancel, prompterVars
<1>3. \A k \in Conns : reply'[k] = IF k = pending[c] /\ ~hungup[k] THEN value ELSE reply[k]
  BY <1>1 DEF sendJson
<1>4. ~hungup[pending[c]] => pending[c] \in Held
  BY <1>2, ConnTypes DEF WorkInv, LifeInv, IInv, PromptHasWorker
<1>5. \A o \in Prompts : stage[o] \in Waiting =>
         IF \E d \in {c} \cap DOMAIN pending : pending[d] = conn[o]
         THEN reply'[conn[o]] \in {"ok", "cancelled"}
         ELSE reply'[conn[o]] = reply[conn[o]]
  BY <1>2, <1>3, ConnTypes
<1>6. /\ DOMAIN pending' = DOMAIN pending \ {c}
      /\ \A d \in DOMAIN pending' : pending'[d] = pending[d]
  BY <1>2, CloseRequests DEF WorkInv, LifeInv
<1>7. \A k \in Conns : reply'[k] # reply[k] => k \in Held
  BY <1>3, <1>4
<1> QED
  BY <1>2, <1>5, <1>6, <1>7, AnswerStep

LEMMA CancelWorks ==
    ASSUME WorkInv, LifeInv', NEW k \in Conns, ReceiveCancel(k)
    PROVE  WorkInv'
<1> DEFINE c == inbox[k].id
           accepted == ~provider /\ c \in DOMAIN pending
           C == IF accepted THEN {c} ELSE {}
<1>1. /\ inbox[k].type = "session.cancel"
      /\ inbox' = [inbox EXCEPT ![k] = NoMsg]
      /\ IF accepted THEN handleCancel(c) ELSE UNCHANGED managerVars
      /\ reply' = [j \in Conns |->
                      IF hungup[j] THEN reply[j]
                      ELSE IF j = k THEN "done"
                      ELSE IF accepted /\ j = pending[c] THEN "cancelled" ELSE reply[j]]
      /\ UNCHANGED <<hungup, stage, cookie, conn, closing>>
  BY DEF ReceiveCancel, prompterVars
<1>2. /\ DOMAIN pending' = DOMAIN pending \ C
      /\ \A d \in DOMAIN pending' : pending'[d] = pending[d]
  <2>1. CASE accepted
    BY <1>1, <2>1, CloseRequests DEF handleCancel, WorkInv, LifeInv
  <2>2. CASE ~accepted
    BY <1>1, <2>2 DEF managerVars
  <2> QED
    BY <2>1, <2>2
<1>3. \A j \in Conns : \/ inbox'[j] = inbox[j]
                       \/ inbox'[j] = NoMsg /\ inbox[j].type = "session.cancel"
  <2>1. inbox \in [Conns -> Messages]
    BY DEF WorkInv, LifeInv, IInv, TypeOK
  <2> QED
    BY <1>1, <2>1
<1>4. accepted => pending[c] \in Conns /\ (~hungup[pending[c]] => pending[c] \in Held)
  BY ConnTypes DEF WorkInv, LifeInv, IInv, TypeOK, ManagerTypeOK, PromptHasWorker
<1>5. ~hungup[k] => k \in Held
  BY <1>1, ConnTypes, NoConnAssumption DEF WorkInv, ConnsFit
<1>6. \A j \in Conns : reply'[j] # reply[j] => j \in Held
  BY <1>1, <1>4, <1>5
<1>7. ASSUME NEW o \in Prompts, stage[o] \in Waiting
      PROVE  IF \E d \in C \cap DOMAIN pending : pending[d] = conn[o]
             THEN reply'[conn[o]] \in {"ok", "cancelled"}
             ELSE reply'[conn[o]] = reply[conn[o]]
  <2>1. conn[o] \in Conns /\ ~hungup[conn[o]] /\ conn[o] # k
    BY <1>1, <1>7, ConnTypes, WorkerReads
  <2>2. (\E d \in C \cap DOMAIN pending : pending[d] = conn[o])
           <=> accepted /\ pending[c] = conn[o]
    OBVIOUS
  <2> QED
    BY <1>1, <2>1, <2>2
<1> HIDE DEF C
<1> QED
  BY <1>1, <1>2, <1>3, <1>6, <1>7, AnswerStep

LEMMA DisconnectWorks ==
    ASSUME WorkInv, LifeInv', NEW k \in Conns, Disconnected(k)
    PROVE  WorkInv'
<1>1. /\ hungup[k] /\ inbox[k] = NoMsg
      /\ closeRequests({c \in DOMAIN pending : pending[c] = k})
      /\ hungup' = [hungup EXCEPT ![k] = FALSE]
      /\ UNCHANGED <<inbox, reply, stage, cookie, conn, closing>>
  BY DEF Disconnected, cleanupForSocket, prompterVars
<1>2. /\ \A c \in DOMAIN pending' : c \in DOMAIN pending /\ pending'[c] = pending[c]
      /\ \A c \in DOMAIN pending : pending[c] # k => c \in DOMAIN pending'
  <2> DEFINE C == {c \in DOMAIN pending : pending[c] = k}
  <2>1. \A c \in DOMAIN pending : pending[c] # k => c \notin C
    OBVIOUS
  <2>2. closeRequests(C)
    BY <1>1
  <2> HIDE DEF C
  <2> QED
    BY <2>1, <2>2, CloseRequests DEF WorkInv, LifeInv
<1>3. \A j \in Conns : j # k => hungup'[j] = hungup[j]
  BY <1>1 DEF WorkInv, LifeInv, IInv, TypeOK
<1>4. Held' = Held /\ k \notin Held
  BY <1>1 DEF Held, WorkInv, ConnsFit
<1>5. \A j \in Held' : ~hungup'[j]
  BY <1>3, <1>4, ConnTypes DEF WorkInv, ConnsFit
<1>6. \A j \in Conns : inbox'[j].type = "session.cancel" => hungup'[j] \/ j = closing'
  BY <1>1, <1>3 DEF WorkInv, ConnsFit, NoMsg
<1>7. ConnsFit'
  BY <1>1, <1>4, <1>5, <1>6 DEF WorkInv, ConnsFit
<1>8. RepliesFit'
  BY <1>1 DEF WorkInv, RepliesFit
<1>9. \A o \in Prompts : stage[o] \in Waiting => conn[o] # k
  BY <1>4, ConnTypes
<1>10. WorkerHasPrompt'
  BY <1>1, <1>2, <1>9 DEF WorkInv, WorkerHasPrompt
<1> QED
  BY <1>7, <1>8, <1>10 DEF WorkInv

\* A restart leaves each worker an end of its stream, or the reply it had.
LEMMA RestartWorks ==
    ASSUME WorkInv, LifeInv', DaemonRestart
    PROVE  WorkInv'
<1>1. /\ pending' = Without(pending, Cookies)
      /\ inbox' = [k \in Conns |-> NoMsg]
      /\ hungup' = [k \in Conns |-> FALSE]
      /\ UNCHANGED <<stage, cookie, conn, closing>>
  BY DEF DaemonRestart, prompterVars
<1>2. \A k \in Conns : reply'[k] =
         IF k \in Held \cap connected /\ reply[k] = "none"
         THEN IF inbox[k] = NoMsg THEN "eof" ELSE "reset"
         ELSE reply[k]
  BY DEF DaemonRestart
<1>3. DOMAIN pending' = {}
  BY <1>1 DEF Without, WorkInv, LifeInv, IInv, TypeOK, ManagerTypeOK
<1>4. Held' = Held
  BY <1>1 DEF Held
<1>5. ConnsFit'
  <2>1. \A k \in Held : ~hungup'[k]
    BY <1>1, ConnTypes
  <2> QED
    BY <1>1, <1>2, <1>4, <2>1 DEF WorkInv, ConnsFit, NoMsg
<1>6. RepliesFit'
  BY <1>1, <1>2, ConnTypes DEF WorkInv, RepliesFit
<1>7. ASSUME NEW o \in Prompts, stage[o] \in Waiting
      PROVE  /\ reply'[conn[o]] # "none"
             /\ inbox'[conn[o]] # [type |-> "keyring_request", id |-> cookie[o]]
  <2>1. conn[o] \in Conns /\ conn[o] \in Held
    BY <1>7, ConnTypes
  <2>2. reply[conn[o]] = "none" => conn[o] \in connected
    <3>1. CASE inbox[conn[o]] = [type |-> "keyring_request", id |-> cookie[o]]
      <4>1. inbox[conn[o]] # NoMsg
        BY <3>1 DEF NoMsg
      <4> QED
        BY <2>1, <4>1 DEF WorkInv, LifeInv, IInv, EndsAreOpen
    <3>2. CASE cookie[o] \in DOMAIN pending /\ pending[cookie[o]] = conn[o]
      BY <3>2 DEF WorkInv, LifeInv, IInv, TrackedIffOpen
    <3> QED
      BY <1>7, <3>1, <3>2 DEF WorkInv, WorkerHasPrompt
  <2>3. reply'[conn[o]] # "none"
    BY <1>2, <2>1, <2>2
  <2>4. inbox'[conn[o]] # [type |-> "keyring_request", id |-> cookie[o]]
    BY <1>1, <2>1 DEF NoMsg
  <2> QED
    BY <2>3, <2>4
<1>8. WorkerHasPrompt'
  BY <1>1, <1>3, <1>7 DEF WorkerHasPrompt
<1> QED
  BY <1>5, <1>6, <1>8 DEF WorkInv

LEMMA HangUpWorks ==
    ASSUME WorkInv, LifeInv',
           \/ CancelSent \/ on_timeout \/ Killed \/ EndOfStream
           \/ \E o \in Prompts : Replied(o)
    PROVE  WorkInv'
<1>1. CASE CancelSent
  <2>1. {closing} \in SUBSET Held /\ closing # NoConn
    BY <1>1, ConnTypes DEF CancelSent
  <2>2. \A o \in Prompts : conn[o] \notin {closing}
    BY <2>1 DEF WorkInv, ConnsFit
  <2>3. /\ hangUp({closing}) /\ pending' = pending /\ closing' = NoConn
        /\ UNCHANGED <<stage, conn>>
        /\ \A o \in Prompts : stage[o] \in Waiting => cookie'[o] = cookie[o]
    BY <1>1, StopTypes DEF CancelSent, managerVars, Waiting, WorkInv, LifeInv
  <2> QED
    BY <2>1, <2>2, <2>3, HangUpStep
<1>2. CASE exit
  <2>1. /\ hangUp(Held) /\ pending' = pending /\ closing' = NoConn
        /\ \A o \in Prompts : conn'[o] = NoConn /\ stage'[o] = "idle"
    BY <1>2 DEF exit, managerVars
  <2>2. \A o \in Prompts : (conn[o] \in Held \/ conn[o] = NoConn) /\ "idle" \notin Waiting
    BY ConnTypes DEF Waiting
  <2>3. closing = NoConn \/ closing \in Held
    BY ConnTypes
  <2>4. \A o \in Prompts : stage[o] \in Waiting => conn[o] \in Held
    BY ConnTypes
  <2> QED
    BY <2>1, <2>2, <2>3, <2>4, HangUpStep
<1>3. ASSUME NEW p \in Prompts, Replied(p)
      PROVE  WorkInv'
  <2>1. /\ stage[p] \in Waiting
        /\ hangUp({conn[p]}) /\ conn' = [conn EXCEPT ![p] = NoConn]
        /\ stage' = [stage EXCEPT ![p] = "idle"]
        /\ cookie' = IF active = p THEN cookie ELSE [cookie EXCEPT ![p] = NoCookie]
        /\ pending' = pending /\ closing' = closing
    BY <1>3 DEF Replied, threadReturns, workerHangsUp, managerVars
  <2>2. {conn[p]} \in SUBSET Held /\ conn[p] # NoConn
    BY <2>1, ConnTypes, NoConnAssumption
  <2>3. /\ \A o \in Prompts : conn[o] \in {conn[p]} <=> o = p
        /\ closing \notin {conn[p]}
    BY <2>2 DEF WorkInv, ConnsFit
  <2>4. /\ \A o \in Prompts : conn'[o] = IF o = p THEN NoConn ELSE conn[o]
        /\ \A o \in Prompts : stage'[o] = IF o = p THEN "idle" ELSE stage[o]
        /\ \A o \in Prompts : o # p => cookie'[o] = cookie[o]
    BY <2>1 DEF WorkInv, LifeInv, IInv, TypeOK
  <2>5. "idle" \notin Waiting
    BY DEF Waiting
  <2>6. /\ \A o \in Prompts : conn'[o] = IF conn[o] \in {conn[p]} THEN NoConn ELSE conn[o]
        /\ closing' = IF closing \in {conn[p]} THEN NoConn ELSE closing
        /\ \A o \in Prompts :
              stage'[o] \in Waiting <=> stage[o] \in Waiting /\ conn[o] \notin {conn[p]}
        /\ \A o \in Prompts : stage'[o] \in Waiting => cookie'[o] = cookie[o]
    BY <2>1, <2>3, <2>4, <2>5
  <2> QED
    BY <2>1, <2>2, <2>6, HangUpStep
<1> QED
  BY <1>1, <1>2, <1>3 DEF on_timeout, Killed, EndOfStream

LEMMA NoConnWorks ==
    ASSUME WorkInv, LifeInv',
           \/ Start \/ ProviderChanges \/ UNCHANGED vars
           \/ prompt_close /\ stopPrompting /\ UNCHANGED <<connected, networkVars, closing>>
           \/ \E o \in Prompts : BeginPrompting(o) \/ Unreachable(o)
           \/ \E o \in Prompts, thread \in Starting : prompt_async(o, thread)
    PROVE  WorkInv'
<1>1. UNCHANGED <<pending, inbox, hungup, reply, conn, closing>>
  BY DEF Start, ProviderChanges, vars, prompt_close, BeginPrompting, Unreachable, threadReturns,
         prompt_async, managerVars, networkVars, prompterVars
<1>2. ASSUME NEW o \in Prompts
      PROVE  /\ stage'[o] \in Waiting <=> stage[o] \in Waiting
             /\ stage[o] \in Waiting => cookie'[o] = cookie[o]
  <2>1. CASE Start \/ ProviderChanges \/ UNCHANGED vars \/ \E p \in Prompts : BeginPrompting(p)
    BY <2>1 DEF Start, ProviderChanges, vars, BeginPrompting, prompterVars
  <2>2. CASE prompt_close /\ stopPrompting
    BY <2>2, StopTypes DEF prompt_close, Waiting, WorkInv, LifeInv
  <2>3. ASSUME NEW p \in Prompts, Unreachable(p)
        PROVE  /\ stage'[o] \in Waiting <=> stage[o] \in Waiting
               /\ stage[o] \in Waiting => cookie'[o] = cookie[o]
    BY <2>3 DEF Unreachable, threadReturns, Starting, Waiting, WorkInv, LifeInv, IInv, TypeOK
  <2>4. ASSUME NEW p \in Prompts, NEW thread \in Starting, prompt_async(p, thread)
        PROVE  /\ stage'[o] \in Waiting <=> stage[o] \in Waiting
               /\ stage[o] \in Waiting => cookie'[o] = cookie[o]
    BY <2>4 DEF prompt_async, Starting, Waiting, WorkInv, LifeInv, IInv, TypeOK
  <2> QED
    BY <2>1, <2>2, <2>3, <2>4
<1> QED
  BY <1>1, <1>2, NoConnStep

-----------------------------------------------------------------------------
(* The theorems.                                                           *)

LEMMA InitIInv == Init => IInv
<1> SUFFICES ASSUME Init
             PROVE  IInv
  OBVIOUS
<1>1. TypeOK
  BY DEF Init, ManagerInit, TypeOK, ManagerTypeOK, Messages, Replies
<1>2. TrackedIffOpen /\ PromptHasWorker
  BY DEF Init, ManagerInit, TrackedIffOpen, PromptHasWorker
<1>3. RequestHasWorker /\ EndsAreOpen /\ WorkerHasCookie
  BY DEF Init, ManagerInit, RequestHasWorker, EndsAreOpen, WorkerHasCookie, NoMsg
<1> QED
  BY <1>1, <1>2, <1>3 DEF IInv

LEMMA NextIInv == IInv /\ [Next]_vars => IInv'
<1> SUFFICES ASSUME IInv, [Next]_vars
             PROVE  IInv'
  OBVIOUS
<1>1. CASE prompt_close
  <2>1. ASSUME NEW k \in Conns,
               hasRequested(active),
               send(k, [type |-> "session.cancel", id |-> cookie[active]]),
               closing' = k, UNCHANGED <<active, cookie, result>>
        PROVE  IInv'
    <3>1. active # NoPrompt
      BY <1>1 DEF prompt_close
    <3> QED
      BY <1>1, <2>1, <3>1, CloseKeeps
  <2>2. CASE stopPrompting /\ UNCHANGED <<connected, networkVars, closing>>
    BY <1>1, <2>2, StopKeeps DEF prompt_close
  <2> QED
    BY <1>1, <2>1, <2>2 DEF prompt_close
<1>2. CASE CancelSent
  BY <1>2, StopKeeps DEF CancelSent
<1>3. CASE on_timeout \/ Killed \/ EndOfStream
  BY <1>3, ExitKeeps DEF on_timeout, Killed, EndOfStream
<1>4. CASE Start \/ (\E o \in Prompts : BeginPrompting(o))
  BY <1>4, StartKeeps
<1>5. CASE \E o \in Prompts, thread \in Starting : prompt_async(o, thread)
  BY <1>5, AsyncKeeps
<1>6. CASE \E o \in Prompts : SendRequest(o)
  BY <1>6, RequestKeeps
<1>7. CASE \E o \in Prompts : Unreachable(o) \/ Replied(o)
  BY <1>7, ReturnKeeps
<1>8. CASE \E k \in Conns : ReceiveRequest(k) \/ ReceiveCancel(k) \/ Disconnected(k)
  BY <1>8, ReceiveKeeps, CancelKeeps, DisconnectKeeps
<1>9. CASE \E c \in Cookies : Respond(c) \/ Cancel(c)
  BY <1>9, RespondKeeps
<1>10. CASE ProviderChanges \/ UNCHANGED vars
  BY <1>10, ProviderKeeps
<1>11. CASE DaemonRestart
  BY <1>11, RestartKeeps
<1> QED
  BY <1>1, <1>2, <1>3, <1>4, <1>5, <1>6, <1>7, <1>8, <1>9, <1>10, <1>11 DEF Next

LEMMA Inductive == Spec => []IInv
BY InitIInv, NextIInv, PTL DEF Spec

\* All variables keep their types.
THEOREM TypeCorrect == Spec => []TypeOK
<1>1. IInv => TypeOK
  BY DEF IInv
<1> QED
  BY <1>1, Inductive, PTL

\* The manager's table and the sessions on the screen agree, and a reply goes
\* to a connection that is open, whichever process dies and in whatever order
\* requests, cancels and hang-ups are read (KeyringManager.cpp:67-104).
THEOREM RequestsAreTracked == Spec => []TrackedIffOpen
<1>1. IInv => TrackedIffOpen
  BY DEF IInv
<1> QED
  BY <1>1, Inductive, PTL

\* Behind a prompt on the screen somebody waits for just this answer, or the
\* daemon is about to see that nobody does (ipc-client.c:198-330,
\* KeyringManager.cpp:13-56).
THEOREM SomebodyWaits == Spec => []PromptHasWorker
<1>1. IInv => PromptHasWorker
  BY DEF IInv
<1> QED
  BY <1>1, Inductive, PTL

LEMMA LifeInit == Init => LifeInv /\ Life!Init
<1> SUFFICES ASSUME Init
             PROVE  LifeInv /\ Life!Init
  OBVIOUS
<1>1. IInv
  BY InitIInv
<1>2. CookiesDrawn /\ CookiesDiffer /\ OneSource
  BY DEF Init, ManagerInit, CookiesDrawn, CookiesDiffer, OneSource, NoMsg, Starting
<1>3. \A c \in Cookies : stageOf(c) = "new"
  BY DEF Init, ManagerInit, stageOf
<1> QED
  BY <1>1, <1>2, <1>3 DEF LifeInv, Life!Init

LEMMA LifeNext == LifeInv /\ [Next]_vars => LifeInv' /\ Life!Next
<1> SUFFICES ASSUME LifeInv, [Next]_vars
             PROVE  LifeInv' /\ Life!Next
  OBVIOUS
<1>1. IInv'
  BY NextIInv DEF LifeInv
<1>2. CASE \/ Start \/ prompt_close \/ CancelSent \/ on_timeout \/ Killed \/ EndOfStream
           \/ \E o \in Prompts : BeginPrompting(o)
  BY <1>1, <1>2, MainStep
<1>3. CASE \E o \in Prompts, thread \in Starting : prompt_async(o, thread)
  BY <1>1, <1>3, AsyncStep
<1>4. CASE \E o \in Prompts : SendRequest(o)
  BY <1>1, <1>4, SendStep
<1>5. CASE \E o \in Prompts : Unreachable(o) \/ Replied(o)
  BY <1>1, <1>5, ReturnStep
<1>6. CASE \E k \in Conns : ReceiveRequest(k)
  BY <1>1, <1>6, ReceiveStep
<1>7. CASE \/ \E k \in Conns : ReceiveCancel(k) \/ Disconnected(k)
           \/ \E c \in Cookies : Respond(c) \/ Cancel(c)
           \/ ProviderChanges \/ DaemonRestart \/ UNCHANGED vars
  BY <1>1, <1>7, DaemonStep
<1> QED
  BY <1>2, <1>3, <1>4, <1>5, <1>6, <1>7 DEF Next

\* A keyring session opens at most once, and once it is closed nothing opens it
\* again, for any number of prompts, cookies and connections, and whichever
\* process dies (KeyringManager.cpp:13-56, ipc-client.c:198-330).
THEOREM PrompterImplementsLife == Spec => ImplementsPromptLife
BY LifeInit, LifeNext, PTL DEF Spec, ImplementsPromptLife, Life!Spec

LEMMA WorkInit == Init => WorkInv
<1> SUFFICES ASSUME Init
             PROVE  WorkInv
  OBVIOUS
<1>1. /\ \A o \in Prompts : stage[o] \notin Waiting /\ conn[o] = NoConn
      /\ Held = {}
  BY DEF Init, Waiting, Held
<1>2. ConnsFit /\ RepliesFit /\ WorkerHasPrompt
  BY <1>1 DEF Init, ConnsFit, RepliesFit, WorkerHasPrompt, NoMsg
<1> QED
  BY <1>2, LifeInit DEF WorkInv

LEMMA WorkNext == WorkInv /\ [Next]_vars => WorkInv'
<1> SUFFICES ASSUME WorkInv, [Next]_vars
             PROVE  WorkInv'
  OBVIOUS
<1>1. LifeInv'
  BY LifeNext DEF WorkInv
<1>2. CASE prompt_close
  <2>1. ASSUME NEW k \in Conns, closing' = k,
               send(k, [type |-> "session.cancel", id |-> cookie[active]]),
               UNCHANGED <<active, cookie, result>>
        PROVE  WorkInv'
    BY <1>1, <1>2, <2>1, CloseWorks
  <2>2. CASE stopPrompting /\ UNCHANGED <<connected, networkVars, closing>>
    BY <1>1, <1>2, <2>2, NoConnWorks
  <2> QED
    BY <1>2, <2>1, <2>2 DEF prompt_close
<1>3. CASE \/ CancelSent \/ on_timeout \/ Killed \/ EndOfStream
           \/ \E o \in Prompts : Replied(o)
  BY <1>1, <1>3, HangUpWorks
<1>4. CASE \/ Start \/ ProviderChanges \/ UNCHANGED vars
           \/ \E o \in Prompts : BeginPrompting(o) \/ Unreachable(o)
           \/ \E o \in Prompts, thread \in Starting : prompt_async(o, thread)
  BY <1>1, <1>4, NoConnWorks
<1>5. CASE \E o \in Prompts : SendRequest(o)
  BY <1>1, <1>5, RequestWorks
<1>6. CASE \E k \in Conns : ReceiveRequest(k) \/ ReceiveCancel(k) \/ Disconnected(k)
  BY <1>1, <1>6, ReceiveWorks, CancelWorks, DisconnectWorks
<1>7. CASE \E c \in Cookies : Respond(c) \/ Cancel(c)
  BY <1>1, <1>7, RespondWorks
<1>8. CASE DaemonRestart
  BY <1>1, <1>8, RestartWorks
<1> QED
  BY <1>2, <1>3, <1>4, <1>5, <1>6, <1>7, <1>8 DEF Next

\* No prompt without a worker that waits for just this answer, and no worker that
\* waits without a prompt, a request on its way or a reply to read: nobody is left
\* in read_line for good, as long as the daemon lives or dies visibly, and gcr gets
\* no answer to a prompt that is still asked (ipc-client.c:51-83,
\* KeyringManager.cpp:13-104).
THEOREM NobodyBlocks == Spec => []PromptsMatchWorkers
<1>1. WorkInv => PromptsMatchWorkers
  BY DEF WorkInv, LifeInv, IInv, PromptsMatchWorkers
<1> QED
  BY <1>1, WorkInit, WorkNext, PTL DEF Spec

\* Whatever the user does, no confirmation ever tells gcr to continue: the word
\* that the prompter wants is not one the daemon says (ipc-client.c:307,
\* KeyringManager.cpp:66).  The run keyring_confirm shows one that should.
NothingIsConfirmed ==
    /\ \A k \in Conns : reply[k] # "confirmed"
    /\ \A o \in Prompts : result[o] # "continue"

THEOREM NeverContinues == Spec => []NothingIsConfirmed
<1>1. Init => NothingIsConfirmed
  BY DEF Init, NothingIsConfirmed
<1>2. WorkInv /\ NothingIsConfirmed /\ [Next]_vars => NothingIsConfirmed'
  <2> SUFFICES ASSUME WorkInv, NothingIsConfirmed, [Next]_vars
               PROVE  NothingIsConfirmed'
    OBVIOUS
  <2>1. \A k \in Conns : reply'[k] # "confirmed"
    <3>1. CASE \/ Start \/ ProviderChanges \/ UNCHANGED vars
               \/ \E o \in Prompts : BeginPrompting(o) \/ Unreachable(o) \/ SendRequest(o)
               \/ \E o \in Prompts, thread \in Starting : prompt_async(o, thread)
               \/ prompt_close
               \/ \E k \in Conns : ReceiveRequest(k) \/ Disconnected(k)
      <4>1. reply' = reply
        BY <3>1 DEF Start, ProviderChanges, vars, BeginPrompting, Unreachable, SendRequest, send,
                    prompt_async, prompt_close, ReceiveRequest, Disconnected, networkVars
      <4> QED
        BY <4>1 DEF NothingIsConfirmed
    <3>2. CASE \/ CancelSent \/ on_timeout \/ Killed \/ EndOfStream
               \/ \E o \in Prompts : Replied(o)
      BY <3>2 DEF CancelSent, on_timeout, Killed, EndOfStream, exit, Replied, workerHangsUp,
                  hangUp, NothingIsConfirmed
    <3>3. CASE DaemonRestart \/ \E k \in Conns : ReceiveCancel(k)
      BY <3>3 DEF DaemonRestart, ReceiveCancel, NothingIsConfirmed
    <3>4. CASE \E c \in Cookies : Respond(c) \/ Cancel(c)
      BY <3>4 DEF Respond, Cancel, sendJson, NothingIsConfirmed
    <3> QED
      BY <3>1, <3>2, <3>3, <3>4 DEF Next
  <2>2. \A o \in Prompts : result'[o] # "continue"
    <3>0. result \in [Prompts -> {"none", "password", "continue", "cancel"}]
      BY DEF WorkInv, LifeInv, IInv, TypeOK
    <3>1. CASE \/ Start \/ ProviderChanges \/ UNCHANGED vars \/ DaemonRestart
               \/ \E o \in Prompts : BeginPrompting(o) \/ SendRequest(o)
               \/ \E k \in Conns : ReceiveRequest(k) \/ Disconnected(k) \/ ReceiveCancel(k)
               \/ \E c \in Cookies : Respond(c) \/ Cancel(c)
      <4>1. result' = result
        BY <3>1 DEF Start, ProviderChanges, vars, DaemonRestart, BeginPrompting, SendRequest,
                    ReceiveRequest, Disconnected, ReceiveCancel, Respond, Cancel, prompterVars
      <4> QED
        BY <4>1 DEF NothingIsConfirmed
    <3>2. CASE \/ CancelSent \/ on_timeout \/ Killed \/ EndOfStream \/ prompt_close
               \/ \E o \in Prompts, thread \in Starting : prompt_async(o, thread)
      BY <3>0, <3>2 DEF CancelSent, on_timeout, Killed, EndOfStream, exit, prompt_close,
                        stopPrompting, prompt_async, NothingIsConfirmed
    <3>3. ASSUME NEW p \in Prompts, Unreachable(p) \/ Replied(p)
          PROVE  \A o \in Prompts : result'[o] # "continue"
      <4>1. Replied(p) => taskResult(p) # "continue"
        <5>1. Replied(p) => conn[p] \in Conns
          BY ConnTypes DEF Replied
        <5> QED
          BY <5>1 DEF taskResult, NothingIsConfirmed
      <4>2. PICK value \in {"password", "cancel"} : threadReturns(p, value)
        BY <3>3, <4>1 DEF Unreachable, Replied, taskResult
      <4> QED
        BY <3>0, <4>2 DEF threadReturns, NothingIsConfirmed
    <3> QED
      BY <3>1, <3>2, <3>3 DEF Next
  <2> QED
    BY <2>1, <2>2 DEF NothingIsConfirmed
<1>3. Spec => []WorkInv
  BY WorkInit, WorkNext, PTL DEF Spec
<1> QED
  BY <1>1, <1>2, <1>3, PTL DEF Spec
=============================================================================
