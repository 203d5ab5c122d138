----------------------- MODULE PinentryManagerProofs -----------------------
(***************************************************************************)
(* The invariants of PinentryManager and its two action properties, for    *)
(* any cookies, connections and processes, whatever the peers send.  The   *)
(* invariant is the conjunction of what the run checks: owners and open    *)
(* sessions agree only because every request that opens one records its    *)
(* owner and every closeFlow forgets both, and the action properties need  *)
(* that agreement in the state before the step.                            *)
(***************************************************************************)
EXTENDS PinentryManager, TLAPS

IInv ==
    /\ TypeOK
    /\ PhasesAreExclusive
    /\ OwnedIffOpen
    /\ ReplyGoesToOwner
    /\ IdleOnlyAfterRetry

\* closeFlows keeps the invariant for any set of flows that it closes, if the
\* connections it leaves with a prompt stay open.
LEMMA CloseFlowsIInv ==
    ASSUME IInv, NEW C \in SUBSET Cookies, NEW result \in Outcomes,
           NEW by \in Pids \cup {NoPid},
           closeFlows(C, result, by),
           peer' \in [Conns -> Pids \cup {NoPid}],
           \A c \in DOMAIN pending \ C : peer'[pending[c].conn] = peer[pending[c].conn]
    PROVE  IInv'
<1>1. /\ open' = open \ C
      /\ failed' = failed \ C
      /\ awaiting' = awaiting \ C
      /\ retryReported' = retryReported \ C
      /\ DOMAIN pending' = DOMAIN pending \ C
      /\ \A c \in DOMAIN pending \ C : pending'[c] = pending[c]
      /\ DOMAIN owner' = DOMAIN owner \ C
      /\ \A c \in DOMAIN owner \ C : owner'[c] = owner[c]
  BY DEF closeFlows, Without
<1>2. closed' \in [Cookies -> [result : Outcomes \cup {"none"}, by : Pids \cup {NoPid}]]
  BY DEF closeFlows, IInv, TypeOK
<1>3. TypeOK'
  BY <1>1, <1>2 DEF IInv, TypeOK
<1>4. PhasesAreExclusive' /\ OwnedIffOpen' /\ IdleOnlyAfterRetry'
  BY <1>1 DEF IInv, PhasesAreExclusive, OwnedIffOpen, IdleOnlyAfterRetry
<1>5. ReplyGoesToOwner'
  <2> SUFFICES ASSUME NEW c \in DOMAIN pending'
               PROVE  peer'[pending'[c].conn] = owner'[c]
    BY DEF ReplyGoesToOwner
  <2>1. c \in DOMAIN pending \ C /\ pending'[c] = pending[c]
    BY <1>1
  <2>2. c \in DOMAIN owner \ C /\ owner'[c] = owner[c]
    BY <1>1, <2>1 DEF IInv, OwnedIffOpen
  <2>3. peer[pending[c].conn] = owner[c]
    BY <2>1 DEF IInv, ReplyGoesToOwner
  <2> QED
    BY <2>1, <2>2, <2>3
<1> QED
  BY <1>3, <1>4, <1>5 DEF IInv

\* The cases of a request: refused, or taken.
LEMMA HandleRequestIInv ==
    ASSUME IInv, NEW c \in Cookies, NEW k \in Conns,
           NEW confirmOnly \in BOOLEAN, NEW hasError \in BOOLEAN,
           handleRequest(c, k, confirmOnly, hasError)
    PROVE  IInv'
<1>1. CASE c \in DOMAIN owner /\ owner[c] # peer[k]
  BY <1>1 DEF handleRequest, vars, managerVars, storeVars, IInv, TypeOK,
     PhasesAreExclusive, OwnedIffOpen, ReplyGoesToOwner, IdleOnlyAfterRetry
<1>2. CASE ~(c \in DOMAIN owner /\ owner[c] # peer[k])
  <2> DEFINE request == [conn |-> k, confirmOnly |-> confirmOnly]
  <2>1. /\ peer[k] # NoPid
        /\ owner' = With(owner, c, peer[k])
        /\ pending' = With(pending, c, request)
        /\ awaiting' = awaiting \ {c}
        /\ open' = open \cup {c}
        /\ failed' \in {failed, failed \cup {c}}
        /\ retryReported' = retryReported \ {c}
        /\ UNCHANGED <<peer, closed>>
    BY <1>2 DEF handleRequest, cleanupAwaiting, isConnected
  <2>2. peer[k] \in Pids /\ request \in [conn : Conns, confirmOnly : BOOLEAN]
    BY <2>1 DEF IInv, TypeOK
  <2>3. /\ DOMAIN owner' = DOMAIN owner \cup {c}
        /\ owner'[c] = peer[k]
        /\ \A d \in DOMAIN owner : d # c => owner'[d] = owner[d]
        /\ DOMAIN pending' = DOMAIN pending \cup {c}
        /\ pending'[c] = request
        /\ \A d \in DOMAIN pending : d # c => pending'[d] = pending[d]
    BY <2>1 DEF With
  <2>4. TypeOK'
    <3>1. \A d \in DOMAIN pending' : pending'[d] \in [conn : Conns, confirmOnly : BOOLEAN]
      BY <2>2, <2>3 DEF IInv, TypeOK
    <3>2. \A d \in DOMAIN owner' : owner'[d] \in Pids
      BY <2>2, <2>3 DEF IInv, TypeOK
    <3>3. DOMAIN pending' \subseteq Cookies /\ DOMAIN owner' \subseteq Cookies
      BY <2>3 DEF IInv, TypeOK
    <3> QED
      BY <2>1, <3>1, <3>2, <3>3 DEF IInv, TypeOK
  <2>5. PhasesAreExclusive' /\ OwnedIffOpen' /\ IdleOnlyAfterRetry'
    BY <2>1, <2>3 DEF IInv, PhasesAreExclusive, OwnedIffOpen, IdleOnlyAfterRetry
  <2>6. ReplyGoesToOwner'
    <3> SUFFICES ASSUME NEW d \in DOMAIN pending'
                 PROVE  peer'[pending'[d].conn] = owner'[d]
      BY DEF ReplyGoesToOwner
    <3>1. CASE d = c
      BY <2>1, <2>3, <3>1
    <3>2. CASE d # c
      <4>1. d \in DOMAIN pending /\ pending'[d] = pending[d]
        BY <2>3, <3>2
      <4>2. d \in DOMAIN owner /\ owner'[d] = owner[d]
        BY <2>3, <3>2, <4>1 DEF IInv, OwnedIffOpen
      <4> QED
        BY <2>1, <4>1, <4>2 DEF IInv, ReplyGoesToOwner
    <3> QED
      BY <3>1, <3>2
  <2> QED
    BY <2>4, <2>5, <2>6 DEF IInv
<1> QED
  BY <1>1, <1>2

LEMMA InitIInv == Init => IInv
  BY DEF Init, IInv, TypeOK, PhasesAreExclusive, OwnedIffOpen, ReplyGoesToOwner,
     IdleOnlyAfterRetry

LEMMA NextIInv == IInv /\ [Next]_vars => IInv'
<1> SUFFICES ASSUME IInv, [Next]_vars PROVE IInv'
  OBVIOUS
<1>0. TypeOK /\ PhasesAreExclusive /\ OwnedIffOpen /\ ReplyGoesToOwner /\ IdleOnlyAfterRetry
  BY DEF IInv
<1>1. ASSUME NEW k \in Conns, NEW pid \in Pids, Accept(k, pid) PROVE IInv'
  <2>1. /\ peer' \in [Conns -> Pids \cup {NoPid}]
        /\ \A j \in Conns : j # k => peer'[j] = peer[j]
        /\ peer[k] = NoPid
        /\ UNCHANGED <<managerVars, storeVars>>
    BY <1>0, <1>1 DEF Accept, TypeOK
  <2>2. \A c \in DOMAIN pending : pending[c].conn \in Conns /\ pending[c].conn # k
    <3> SUFFICES ASSUME NEW c \in DOMAIN pending
                 PROVE  pending[c].conn \in Conns /\ pending[c].conn # k
      OBVIOUS
    <3>1. peer[pending[c].conn] = owner[c] /\ owner[c] \in Pids
      BY <1>0 DEF ReplyGoesToOwner, OwnedIffOpen, TypeOK
    <3> QED
      BY <1>0, <2>1, <3>1, NoPidAssumption DEF TypeOK
  <2>3. ReplyGoesToOwner'
    BY <1>0, <2>1, <2>2 DEF ReplyGoesToOwner, managerVars
  <2> QED
    BY <1>0, <2>1, <2>3 DEF IInv, TypeOK, PhasesAreExclusive, OwnedIffOpen,
       IdleOnlyAfterRetry, managerVars, storeVars
<1>2. ASSUME NEW k \in Conns, NEW c \in Cookies,
             NEW confirmOnly \in BOOLEAN, NEW hasError \in BOOLEAN,
             handleRequest(c, k, confirmOnly, hasError)
      PROVE  IInv'
  BY <1>2, HandleRequestIInv
<1>3. ASSUME NEW k \in Conns, NEW c \in Cookies, NEW result \in Outcomes \cup {"retry"},
             isConnected(k), handleResult(c, peer[k], result)
      PROVE  IInv'
  <2>1. CASE result \in Outcomes /\ closeFlows({c}, result, peer[k])
    <3>1. peer[k] \in Pids \cup {NoPid} /\ {c} \in SUBSET Cookies
      BY <1>0 DEF TypeOK
    <3>2. peer' = peer
      BY <1>3 DEF handleResult
    <3>3. peer' \in [Conns -> Pids \cup {NoPid}]
      BY <1>0, <3>2 DEF TypeOK
    <3> QED
      BY <2>1, <3>1, <3>2, <3>3, CloseFlowsIInv
  <2>2. CASE result = "retry" /\ reportRetry(c)
    <3>1. /\ awaiting' = awaiting \ {c}
          /\ retryReported' = retryReported \cup {c}
          /\ failed' = failed \cup {c}
          /\ c \in open
          /\ UNCHANGED <<peer, pending, owner, open, closed>>
      BY <1>3, <2>2 DEF handleResult, reportRetry, cleanupAwaiting
    <3> QED
      BY <1>0, <3>1 DEF IInv, TypeOK, PhasesAreExclusive, OwnedIffOpen,
         ReplyGoesToOwner, IdleOnlyAfterRetry
  <2> QED
    BY <1>3, <2>1, <2>2 DEF handleResult
<1>4. ASSUME NEW k \in Conns, cleanupForSocket(k) PROVE IInv'
  <2> DEFINE C == {c \in DOMAIN pending : pending[c].conn = k}
  <2>1. C \in SUBSET Cookies /\ "cancelled" \in Outcomes /\ NoPid \in Pids \cup {NoPid}
    BY <1>0 DEF TypeOK, Outcomes
  <2>2. closeFlows(C, "cancelled", NoPid) /\ peer' = [peer EXCEPT ![k] = NoPid]
    BY <1>4 DEF cleanupForSocket
  <2>3. peer' \in [Conns -> Pids \cup {NoPid}]
    BY <1>0, <2>2 DEF TypeOK
  <2>4. \A c \in DOMAIN pending \ C : peer'[pending[c].conn] = peer[pending[c].conn]
    BY <1>0, <2>2 DEF TypeOK
  <2> HIDE DEF C
  <2> QED
    BY <2>1, <2>2, <2>3, <2>4, CloseFlowsIInv
<1>5. ASSUME NEW c \in Cookies, handleResponse(c) PROVE IInv'
  <2>1. /\ c \in DOMAIN pending
        /\ DOMAIN pending' = DOMAIN pending \ {c}
        /\ \A d \in DOMAIN pending \ {c} : pending'[d] = pending[d]
        /\ awaiting' = awaiting \cup {c}
        /\ UNCHANGED <<peer, owner, retryReported, open, failed, closed>>
    BY <1>5 DEF handleResponse, storeVars, Without
  <2> QED
    BY <1>0, <2>1 DEF IInv, TypeOK, PhasesAreExclusive, OwnedIffOpen,
       ReplyGoesToOwner, IdleOnlyAfterRetry
<1>6. ASSUME NEW c \in Cookies, handleCancel(c) \/ resultTimeout(c) PROVE IInv'
  <2>1. PICK result \in Outcomes : closeFlows({c}, result, NoPid)
    BY <1>6 DEF handleCancel, resultTimeout, Outcomes
  <2>2. peer' = peer
    BY <1>6 DEF handleCancel, resultTimeout
  <2>3. peer' \in [Conns -> Pids \cup {NoPid}] /\ {c} \in SUBSET Cookies
    BY <1>0, <2>2 DEF TypeOK
  <2> QED
    BY <2>1, <2>2, <2>3, CloseFlowsIInv
<1>7. CASE UNCHANGED vars
  BY <1>0, <1>7 DEF vars, managerVars, storeVars, IInv, TypeOK, PhasesAreExclusive,
     OwnedIffOpen, ReplyGoesToOwner, IdleOnlyAfterRetry
<1> QED
  BY <1>1, <1>2, <1>3, <1>4, <1>5, <1>6, <1>7 DEF Next

LEMMA Invariance == Spec => []IInv
  BY InitIInv, NextIInv, PTL DEF Spec
-----------------------------------------------------------------------------

\* Who is named as the reporter of a closing owned the flow.
LEMMA StepClosedByOwner ==
    ASSUME IInv, [Next]_vars, NEW c \in open, c \notin open'
    PROVE  /\ closed'[c].by \in {NoPid, owner[c]}
           /\ closed'[c].result = "success" => closed'[c].by # NoPid
<1> USE DEF Outcomes
<1>0. c \in Cookies
  BY DEF IInv, TypeOK
<1>1. ASSUME NEW C, NEW result, NEW by, closeFlows(C, result, by)
      PROVE  closed'[c] = [result |-> result, by |-> by]
  BY <1>0, <1>1 DEF closeFlows
<1>2. ASSUME NEW k \in Conns, NEW d \in Cookies, NEW result \in Outcomes \cup {"retry"},
             isConnected(k), handleResult(d, peer[k], result)
      PROVE  closed'[c].by = owner[c] /\ closed'[c].by # NoPid
  <2>1. closeFlows({d}, result, peer[k])
    BY <1>2 DEF handleResult, reportRetry
  <2>2. d = c
    BY <2>1 DEF closeFlows
  <2>3. owner[c] = peer[k] /\ peer[k] # NoPid
    BY <1>2, <2>2 DEF handleResult, validateResultOwner, isConnected, IInv, OwnedIffOpen
  <2>4. closed'[c] = [result |-> result, by |-> peer[k]]
    BY <1>1, <2>1
  <2> QED
    BY <2>3, <2>4
<1>3. ASSUME NEW k \in Conns, cleanupForSocket(k)
      PROVE  closed'[c] = [result |-> "cancelled", by |-> NoPid]
  BY <1>1, <1>3 DEF cleanupForSocket
<1>4. ASSUME NEW d \in Cookies, handleCancel(d)
      PROVE  closed'[c] = [result |-> "cancelled", by |-> NoPid]
  BY <1>1, <1>4 DEF handleCancel
<1>5. ASSUME NEW d \in Cookies, resultTimeout(d)
      PROVE  closed'[c] = [result |-> "error", by |-> NoPid]
  BY <1>1, <1>5 DEF resultTimeout
<1>6. ASSUME NEW k \in Conns, NEW d \in Cookies,
             NEW confirmOnly \in BOOLEAN, NEW hasError \in BOOLEAN,
             handleRequest(d, k, confirmOnly, hasError)
      PROVE  FALSE
  BY <1>6 DEF handleRequest, vars, storeVars
<1>7. ASSUME NEW k \in Conns, NEW pid \in Pids, Accept(k, pid) PROVE FALSE
  BY <1>7 DEF Accept, storeVars
<1>8. ASSUME NEW d \in Cookies, handleResponse(d) PROVE FALSE
  BY <1>8 DEF handleResponse, storeVars
<1>9. ASSUME UNCHANGED vars PROVE FALSE
  BY <1>9 DEF vars, storeVars
<1> QED
  BY <1>2, <1>3, <1>4, <1>5, <1>6, <1>7, <1>8, <1>9 DEF Next

\* An error that is shown stays, and a refusal shows one.
LEMMA StepRefusalIsShown ==
    ASSUME IInv, [Next]_vars, NEW c \in open, c \in open',
           c \in awaiting \ awaiting' \/ c \in failed
    PROVE  c \in failed'
<1>1. ASSUME NEW C, NEW result, NEW by, closeFlows(C, result, by) PROVE c \in failed'
  BY <1>1 DEF closeFlows
<1>2. ASSUME NEW k \in Conns, NEW d \in Cookies, NEW result \in Outcomes \cup {"retry"},
             handleResult(d, peer[k], result)
      PROVE  c \in failed'
  BY <1>1, <1>2 DEF handleResult, reportRetry, cleanupAwaiting
<1>3. ASSUME NEW k \in Conns, NEW d \in Cookies,
             NEW confirmOnly \in BOOLEAN, NEW hasError \in BOOLEAN,
             handleRequest(d, k, confirmOnly, hasError)
      PROVE  c \in failed'
  BY <1>3 DEF handleRequest, requestFails, cleanupAwaiting, vars, managerVars, storeVars
<1>4. ASSUME NEW k \in Conns, NEW pid \in Pids, Accept(k, pid) PROVE c \in failed'
  BY <1>4 DEF Accept, managerVars, storeVars
<1>5. ASSUME NEW d \in Cookies, handleResponse(d) PROVE c \in failed'
  BY <1>5 DEF handleResponse, storeVars
<1>6. ASSUME NEW k \in Conns, cleanupForSocket(k) PROVE c \in failed'
  BY <1>1, <1>6 DEF cleanupForSocket
<1>7. ASSUME NEW d \in Cookies, handleCancel(d) \/ resultTimeout(d) PROVE c \in failed'
  BY <1>1, <1>7 DEF handleCancel, resultTimeout
<1>8. ASSUME UNCHANGED vars PROVE c \in failed'
  BY <1>8 DEF vars, managerVars, storeVars
<1> QED
  BY <1>2, <1>3, <1>4, <1>5, <1>6, <1>7, <1>8 DEF Next

-----------------------------------------------------------------------------

\* Requests, owners, sessions and their history keep their types.
THEOREM TypeCorrect == Spec => []TypeOK
<1>1. IInv => TypeOK
  BY DEF IInv
<1> QED
  BY <1>1, Invariance, PTL

\* A flow never waits for input and for an outcome at once.
THEOREM ExclusivePhases == Spec => []PhasesAreExclusive
<1>1. IInv => PhasesAreExclusive
  BY DEF IInv
<1> QED
  BY <1>1, Invariance, PTL

\* The manager owns exactly the open sessions: validateResultOwner, which lets
\* anyone report on an unowned flow, never does so for an open session.
THEOREM OpenIsOwned == Spec => []OwnedIffOpen
<1>1. IInv => OwnedIffOpen
  BY DEF IInv
<1> QED
  BY <1>1, Invariance, PTL

\* The passphrase is only ever written to an open connection of the owner.
THEOREM RepliesGoHome == Spec => []ReplyGoesToOwner
<1>1. IInv => ReplyGoesToOwner
  BY DEF IInv
<1> QED
  BY <1>1, Invariance, PTL

\* An open session that waits for nothing had a retry reported.
THEOREM IdleAfterRetry == Spec => []IdleOnlyAfterRetry
<1>1. IInv => IdleOnlyAfterRetry
  BY DEF IInv
<1> QED
  BY <1>1, Invariance, PTL

\* Only the owner's report closes a session with success, and no report of
\* another process closes it at all (PINENTRY_FLOW.md, security rules).
THEOREM OnlyOwnerReports == Spec => ClosedByOwner
<1>1. IInv /\ [Next]_vars =>
        [\A c \in open \ open' :
            /\ closed'[c].by \in {NoPid, owner[c]}
            /\ closed'[c].result = "success" => closed'[c].by # NoPid]_vars
  BY StepClosedByOwner
<1> QED
  BY <1>1, Invariance, PTL DEF Spec, ClosedByOwner

\* A session that was refused shows its error for as long as it is open.
THEOREM RefusalsAreShown == Spec => RefusalIsShown
<1>1. IInv /\ [Next]_vars =>
        [\A c \in open \cap open' :
            (c \in awaiting \ awaiting' \/ c \in failed) => c \in failed']_vars
  BY StepRefusalIsShown
<1> QED
  BY <1>1, Invariance, PTL DEF Spec, RefusalIsShown
=============================================================================
