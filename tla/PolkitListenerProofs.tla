------------------------ MODULE PolkitListenerProofs ------------------------
(***************************************************************************)
(* The safety properties of PolkitListener for any cookies, requests and   *)
(* Sessions and any limit on attempts, whether or not Sessions complete    *)
(* from within a call, and whatever is left of a deleted state.            *)
(***************************************************************************)
EXTENDS PolkitListener, TLAPS

\* A request belongs to one flow, whose retries count the Sessions started
\* for it; of a request that was not made nothing is known.
RequestsBelong ==
    /\ \A c \in DOMAIN flow : flow[c].result \in made
    /\ \A c, d \in DOMAIN flow : flow[c].result = flow[d].result => c = d
    /\ \A c \in DOMAIN flow : attempts[flow[c].result] = flow[c].retryCount + 1
    /\ \A r \in Requests \ made : answers[r] = 0 /\ attempts[r] = 0

IInv ==
    /\ TypeOK
    /\ ScreenMatchesFlows
    /\ HeardSessions
    /\ WaitedForIffInFlow
    /\ AttemptsBounded
    /\ RequestsBelong

\* What finish does to the maps, for any set of flows.
LEMMA FinishIInv ==
    ASSUME IInv, NEW C \in SUBSET DOMAIN flow, NEW gainedAuth \in BOOLEAN,
           flow' = Without(flow, C),
           flowOf' = Without(flowOf, {flow[c].session : c \in C}),
           onSessionComplete(C, gainedAuth),
           made' = made,
           answers' \in [Requests -> 0..2],
           \A r \in Requests : (\E c \in C : flow[c].result = r) => answers'[r] # 0,
           \A r \in Requests : ~(\E c \in C : flow[c].result = r) => answers'[r] = answers[r],
           helper' \in [Sessions -> Running \cup {"none", "authorized", "refused"}],
           \A s \in Sessions : helper[s] # "none" => helper'[s] # "none",
           attempts' \in [Requests -> Nat],
           \A r \in Requests : attempts'[r] <= MaxAuthRetries,
           \A r \in Requests : ~(\E c \in C : flow[c].result = r) => attempts'[r] = attempts[r],
           dangling' \in BOOLEAN, up' \in BOOLEAN
    PROVE  IInv'
<1> DEFINE S == {flow[c].session : c \in C}
<1>0. TypeOK /\ ScreenMatchesFlows /\ HeardSessions /\ WaitedForIffInFlow /\ RequestsBelong
  BY DEF IInv
<1>1. /\ DOMAIN flow' = DOMAIN flow \ C
      /\ \A c \in DOMAIN flow \ C : flow'[c] = flow[c]
      /\ DOMAIN flowOf' = DOMAIN flowOf \ S
      /\ \A s \in DOMAIN flowOf \ S : flowOf'[s] = flowOf[s]
  BY DEF Without
<1>2. /\ open' = open \ C
      /\ failed' = failed \ C
      /\ closed' \in [Cookies -> {"none", "success", "cancelled"}]
  BY <1>0 DEF onSessionComplete, TypeOK
<1>3. TypeOK'
  BY <1>0, <1>1, <1>2 DEF TypeOK
<1>4. ScreenMatchesFlows'
  BY <1>0, <1>1, <1>2 DEF ScreenMatchesFlows
<1>5. HeardSessions'
  <2>1. ASSUME NEW c \in DOMAIN flow'
        PROVE  flow'[c].session \in DOMAIN flowOf' /\ flowOf'[flow'[c].session] = c
    <3>1. c \in DOMAIN flow \ C /\ flow'[c] = flow[c]
      BY <1>1, <2>1
    <3>2. flow[c].session \in DOMAIN flowOf /\ flowOf[flow[c].session] = c
      BY <1>0, <3>1 DEF HeardSessions
    <3>3. flow[c].session \notin S
      BY <1>0, <3>1, <3>2 DEF HeardSessions
    <3> QED
      BY <1>1, <3>1, <3>2, <3>3
  <2>2. ASSUME NEW s \in DOMAIN flowOf'
        PROVE  /\ flowOf'[s] \in DOMAIN flow'
               /\ flow'[flowOf'[s]].session = s
               /\ helper'[s] # "none"
    <3>1. s \in DOMAIN flowOf \ S /\ flowOf'[s] = flowOf[s] /\ s \in Sessions
      BY <1>0, <1>1, <2>2 DEF TypeOK
    <3>2. flowOf[s] \in DOMAIN flow /\ flow[flowOf[s]].session = s /\ helper[s] # "none"
      BY <1>0, <3>1 DEF HeardSessions
    <3>3. flowOf[s] \notin C
      BY <3>1, <3>2
    <3> QED
      BY <1>1, <3>1, <3>2, <3>3
  <2> QED
    BY <2>1, <2>2 DEF HeardSessions
<1>6. WaitedForIffInFlow'
  <2> SUFFICES ASSUME NEW r \in made
               PROVE  answers'[r] = 0 <=> \E c \in DOMAIN flow \ C : flow[c].result = r
    BY <1>1 DEF WaitedForIffInFlow
  <2>0. r \in Requests
    BY <1>0 DEF TypeOK
  <2>1. CASE \E c \in C : flow[c].result = r
    <3>1. answers'[r] # 0
      BY <2>0, <2>1
    <3>2. \A c \in DOMAIN flow \ C : flow[c].result # r
      BY <1>0, <2>1 DEF RequestsBelong
    <3> QED
      BY <3>1, <3>2
  <2>2. CASE ~ \E c \in C : flow[c].result = r
    <3>1. answers'[r] = answers[r]
      BY <2>0, <2>2
    <3>2. answers[r] = 0 <=> \E c \in DOMAIN flow : flow[c].result = r
      BY <1>0 DEF WaitedForIffInFlow
    <3> QED
      BY <2>2, <3>1, <3>2
  <2> QED
    BY <2>1, <2>2
<1>7. AttemptsBounded'
  BY DEF AttemptsBounded
<1>8. RequestsBelong'
  <2>1. ASSUME NEW c \in DOMAIN flow \ C
        PROVE  attempts'[flow[c].result] = attempts[flow[c].result]
    <3>1. flow[c].result \in Requests
      BY <1>0 DEF TypeOK, Flow
    <3>2. ~ \E d \in C : flow[d].result = flow[c].result
      BY <1>0 DEF RequestsBelong
    <3> QED
      BY <3>1, <3>2
  <2>2. ASSUME NEW r \in Requests \ made
        PROVE  answers'[r] = answers[r] /\ attempts'[r] = attempts[r]
    <3>1. ~ \E c \in C : flow[c].result = r
      BY <1>0 DEF RequestsBelong
    <3> QED
      BY <3>1
  <2> QED
    BY <1>0, <1>1, <2>1, <2>2 DEF RequestsBelong
<1> QED
  BY <1>3, <1>4, <1>5, <1>6, <1>7, <1>8 DEF IInv

\* answer completes each result of the finished flows for the first time.
LEMMA AnswerOnce ==
    ASSUME IInv, NEW C \in SUBSET DOMAIN flow, NEW gainedAuth \in BOOLEAN,
           answer(C, gainedAuth)
    PROVE  /\ answers' \in [Requests -> 0..2]
           /\ \A r \in Requests : (\E c \in C : flow[c].result = r) => answers'[r] = 1
           /\ \A r \in Requests :
                 ~(\E c \in C : flow[c].result = r) => answers'[r] = answers[r]
<1>0. TypeOK /\ WaitedForIffInFlow /\ RequestsBelong
  BY DEF IInv
<1>1. \A r \in Requests : answers'[r] =
        IF \E c \in C : flow[c].result = r THEN answers[r] + 1 ELSE answers[r]
  BY DEF answer
<1>2. ASSUME NEW r \in Requests, NEW c \in C, flow[c].result = r PROVE answers[r] = 0
  BY <1>0, <1>2 DEF WaitedForIffInFlow, RequestsBelong
<1>3. \A r \in Requests : answers[r] \in 0..2
  BY <1>0 DEF TypeOK
<1>4. \A r \in Requests : (\E c \in C : flow[c].result = r) => answers'[r] = 1
  BY <1>1, <1>2
<1>5. \A r \in Requests : answers'[r] \in 0..2
  BY <1>1, <1>2, <1>3
<1>6. answers' = [r \in Requests |-> answers'[r]]
  BY DEF answer
<1> QED
  BY <1>1, <1>4, <1>5, <1>6

\* finish, in a step that leaves the attempts of every request bounded.
LEMMA FinishStep ==
    ASSUME IInv, NEW C \in SUBSET DOMAIN flow, NEW gainedAuth \in BOOLEAN,
           finish(C, gainedAuth),
           helper' \in [Sessions -> Running \cup {"none", "authorized", "refused"}],
           \A s \in Sessions : helper[s] # "none" => helper'[s] # "none",
           attempts' \in [Requests -> Nat],
           \A r \in Requests : attempts'[r] <= MaxAuthRetries,
           \A r \in Requests : ~(\E c \in C : flow[c].result = r) => attempts'[r] = attempts[r],
           UNCHANGED <<dangling, up>>
    PROVE  IInv'
<1>1. answer(C, gainedAuth)
  BY DEF finish
<1>2. /\ answers' \in [Requests -> 0..2]
      /\ \A r \in Requests : (\E c \in C : flow[c].result = r) => answers'[r] = 1
      /\ \A r \in Requests : ~(\E c \in C : flow[c].result = r) => answers'[r] = answers[r]
  BY <1>1, AnswerOnce
<1>3. dangling' \in BOOLEAN /\ up' \in BOOLEAN
  BY DEF IInv, TypeOK
<1>4. /\ flow' = Without(flow, C)
      /\ flowOf' = Without(flowOf, {flow[c].session : c \in C})
      /\ onSessionComplete(C, gainedAuth)
      /\ made' = made
  BY DEF finish
<1> QED
  BY <1>2, <1>3, <1>4, FinishIInv

\* Sessions started inside cancel() belong to one flow and stay in its limit.
LEMMA StartedInsideBounded ==
    ASSUME IInv, NEW c \in DOMAIN flow, NEW n \in Nat, StartedInside(c, n),
           flow[c].retryCount + 1 + n <= MaxAuthRetries
    PROVE  /\ helper' \in [Sessions -> Running \cup {"none", "authorized", "refused"}]
           /\ \A s \in Sessions : helper[s] # "none" => helper'[s] # "none"
           /\ attempts' \in [Requests -> Nat]
           /\ \A r \in Requests : attempts'[r] <= MaxAuthRetries
           /\ \A r \in Requests : r # flow[c].result => attempts'[r] = attempts[r]
<1>0. TypeOK /\ RequestsBelong /\ AttemptsBounded
  BY DEF IInv
<1>1. PICK new \in SUBSET Unused :
        /\ helper' = [s \in Sessions |-> IF s \in new THEN "working" ELSE helper[s]]
        /\ attempts' = [attempts EXCEPT ![flow[c].result] = @ + n]
  BY DEF StartedInside
<1>2. flow[c].result \in Requests /\ flow[c].retryCount \in Nat
  BY <1>0, RetriesAssumption DEF TypeOK, Flow
<1>3. attempts[flow[c].result] = flow[c].retryCount + 1
  BY <1>0 DEF RequestsBelong
<1>4. attempts \in [Requests -> Nat]
  BY <1>0 DEF TypeOK
<1>5. attempts'[flow[c].result] = flow[c].retryCount + 1 + n
  BY <1>1, <1>2, <1>3, <1>4
<1>6. \A r \in Requests : r # flow[c].result => attempts'[r] = attempts[r]
  BY <1>1, <1>4
<1>7. \A r \in Requests : attempts'[r] <= MaxAuthRetries
  BY <1>0, <1>5, <1>6 DEF AttemptsBounded
<1>8. attempts' \in [Requests -> Nat]
  BY <1>1, <1>2, <1>4, <1>5, <1>6
<1> QED
  BY <1>0, <1>1, <1>6, <1>7, <1>8 DEF TypeOK, Running

LEMMA InitIInv == Init => IInv
<1> SUFFICES ASSUME Init PROVE IInv
  OBVIOUS
<1>1. /\ DOMAIN flow = {} /\ DOMAIN flowOf = {} /\ made = {} /\ open = {} /\ failed = {}
      /\ \A r \in Requests : answers[r] = 0 /\ attempts[r] = 0
  BY DEF Init
<1>2. TypeOK
  <2>1. /\ DOMAIN flow \subseteq Cookies /\ DOMAIN flowOf \subseteq Sessions
        /\ \A c \in DOMAIN flow : flow[c] \in Flow
        /\ \A s \in DOMAIN flowOf : flowOf[s] \in Cookies
    BY <1>1
  <2>2. /\ helper \in [Sessions -> Running \cup {"none", "authorized", "refused"}]
        /\ closed \in [Cookies -> {"none", "success", "cancelled"}]
    BY DEF Init
  <2>3. answers \in [Requests -> 0..2] /\ attempts \in [Requests -> Nat]
    BY DEF Init
  <2>4. made \subseteq Requests /\ open \subseteq Cookies /\ failed \subseteq open
        /\ dangling \in BOOLEAN /\ up \in BOOLEAN
    BY DEF Init
  <2> QED
    BY <2>1, <2>2, <2>3, <2>4 DEF TypeOK
<1>3. AttemptsBounded
  BY <1>1, RetriesAssumption DEF AttemptsBounded
<1> QED
  BY <1>1, <1>2, <1>3 DEF IInv, ScreenMatchesFlows, HeardSessions, WaitedForIffInFlow,
     RequestsBelong

\* A new flow has a cookie, a request and a Session that no other flow has.
LEMMA BeginIInv ==
    ASSUME IInv, NEW r \in Requests \ made, NEW c \in Cookies \ DOMAIN flow,
           NEW s \in Unused, made' = made \cup {r}, Begin(r, c, s), UNCHANGED <<dangling, up>>
    PROVE  IInv'
<1> DEFINE f == [result |-> r, session |-> s, retryCount |-> 0]
<1>0. TypeOK /\ ScreenMatchesFlows /\ HeardSessions /\ WaitedForIffInFlow /\ AttemptsBounded
      /\ RequestsBelong
  BY DEF IInv
<1>1. /\ DOMAIN flow' = DOMAIN flow \cup {c}
      /\ flow'[c] = f
      /\ \A d \in DOMAIN flow : flow'[d] = flow[d]
      /\ DOMAIN flowOf' = DOMAIN flowOf \cup {s}
      /\ flowOf'[s] = c
      /\ \A t \in DOMAIN flowOf : t # s => flowOf'[t] = flowOf[t]
  BY DEF Begin, With
<1>2. s \in Sessions /\ helper[s] = "none" /\ s \notin DOMAIN flowOf
  BY <1>0 DEF Unused, HeardSessions
<1>3. /\ helper' \in [Sessions -> Running \cup {"none", "authorized", "refused"}]
      /\ helper'[s] \in Running
      /\ \A t \in Sessions : t # s => helper'[t] = helper[t]
  BY <1>0, <1>2 DEF Begin, TypeOK, Running
<1>4. /\ attempts' \in [Requests -> Nat]
      /\ attempts'[r] = 1
      /\ \A q \in Requests : q # r => attempts'[q] = attempts[q]
  BY <1>0 DEF Begin, TypeOK
<1>5. f \in Flow
  BY <1>2, RetriesAssumption DEF Flow
<1>6. answers' = answers /\ open' = open \cup {c} /\ failed' = failed \ {c} /\ closed' = closed
  BY DEF Begin
<1>7. TypeOK'
  <2>1. \A d \in DOMAIN flow' : flow'[d] \in Flow
    BY <1>0, <1>1, <1>5 DEF TypeOK
  <2>2. \A t \in DOMAIN flowOf' : flowOf'[t] \in Cookies
    BY <1>0, <1>1 DEF TypeOK
  <2> QED
    BY <1>0, <1>1, <1>2, <1>3, <1>4, <1>6, <2>1, <2>2 DEF TypeOK
<1>8. ScreenMatchesFlows'
  BY <1>0, <1>1, <1>6 DEF ScreenMatchesFlows
<1>9. HeardSessions'
  <2>1. ASSUME NEW d \in DOMAIN flow'
        PROVE  flow'[d].session \in DOMAIN flowOf' /\ flowOf'[flow'[d].session] = d
    <3>1. CASE d = c
      BY <1>1, <3>1
    <3>2. CASE d # c
      <4>1. d \in DOMAIN flow /\ flow'[d] = flow[d]
        BY <1>1, <3>2
      <4>2. flow[d].session \in DOMAIN flowOf /\ flowOf[flow[d].session] = d
        BY <1>0, <4>1 DEF HeardSessions
      <4> QED
        BY <1>1, <1>2, <4>1, <4>2
    <3> QED
      BY <3>1, <3>2
  <2>2. ASSUME NEW t \in DOMAIN flowOf'
        PROVE  /\ flowOf'[t] \in DOMAIN flow'
               /\ flow'[flowOf'[t]].session = t
               /\ helper'[t] # "none"
    <3>1. CASE t = s
      BY <1>1, <1>3, <3>1 DEF Running
    <3>2. CASE t # s
      <4>1. t \in DOMAIN flowOf /\ flowOf'[t] = flowOf[t] /\ t \in Sessions
        BY <1>0, <1>1, <3>2 DEF TypeOK
      <4>2. flowOf[t] \in DOMAIN flow /\ flow[flowOf[t]].session = t /\ helper[t] # "none"
        BY <1>0, <4>1 DEF HeardSessions
      <4> QED
        BY <1>1, <1>3, <3>2, <4>1, <4>2
    <3> QED
      BY <3>1, <3>2
  <2> QED
    BY <2>1, <2>2 DEF HeardSessions
<1>10. WaitedForIffInFlow'
  <2>1. answers[r] = 0
    BY <1>0 DEF RequestsBelong
  <2>2. ASSUME NEW q \in made
        PROVE  answers[q] = 0 <=> \E d \in DOMAIN flow' : flow'[d].result = q
    <3>1. answers[q] = 0 <=> \E d \in DOMAIN flow : flow[d].result = q
      BY <1>0 DEF WaitedForIffInFlow
    <3>2. q # r
      OBVIOUS
    <3> QED
      BY <1>1, <3>1, <3>2
  <2> QED
    BY <1>1, <1>6, <2>1, <2>2 DEF WaitedForIffInFlow
<1>11. AttemptsBounded'
  BY <1>0, <1>4, RetriesAssumption DEF AttemptsBounded
<1>12. RequestsBelong'
  <2>1. ASSUME NEW d \in DOMAIN flow'
        PROVE  flow'[d].result \in made'
    BY <1>0, <1>1 DEF RequestsBelong
  <2>2. ASSUME NEW d \in DOMAIN flow', NEW e \in DOMAIN flow', flow'[d].result = flow'[e].result
        PROVE  d = e
    <3>1. \A b \in DOMAIN flow : flow[b].result # r
      BY <1>0 DEF RequestsBelong
    <3>2. CASE d = c \/ e = c
      BY <1>1, <2>2, <3>1, <3>2
    <3>3. CASE d # c /\ e # c
      BY <1>0, <1>1, <2>2, <3>3 DEF RequestsBelong
    <3> QED
      BY <3>2, <3>3
  <2>3. ASSUME NEW d \in DOMAIN flow'
        PROVE  attempts'[flow'[d].result] = flow'[d].retryCount + 1
    <3>1. CASE d = c
      BY <1>1, <1>4, <3>1
    <3>2. CASE d # c
      <4>1. /\ d \in DOMAIN flow /\ flow'[d] = flow[d]
            /\ flow[d].result \in made /\ flow[d].result \in Requests
        BY <1>0, <1>1, <3>2 DEF RequestsBelong, TypeOK
      <4> QED
        BY <1>0, <1>4, <4>1 DEF RequestsBelong
    <3> QED
      BY <3>1, <3>2
  <2>4. \A q \in Requests \ made' : answers'[q] = 0 /\ attempts'[q] = 0
    BY <1>0, <1>4, <1>6 DEF RequestsBelong
  <2> QED
    BY <2>1, <2>2, <2>3, <2>4 DEF RequestsBelong
<1> QED
  BY <1>7, <1>8, <1>9, <1>10, <1>11, <1>12 DEF IInv

\* A retry gives a flow another Session and counts it.
LEMMA ReattemptIInv ==
    ASSUME IInv, NEW s \in DOMAIN flowOf, NEW t \in Unused,
           mayRetry(countRetry(flow[flowOf[s]].retryCount)),
           Reattempt(s, flowOf[s], t), UNCHANGED <<dangling, up>>
    PROVE  IInv'
<1> DEFINE c == flowOf[s]
           g == [result |-> flow[c].result, session |-> t,
                 retryCount |-> flow[c].retryCount + 1]
<1>0. TypeOK /\ ScreenMatchesFlows /\ HeardSessions /\ WaitedForIffInFlow /\ AttemptsBounded
      /\ RequestsBelong
  BY DEF IInv
<1>1. /\ s \in Sessions /\ c \in DOMAIN flow /\ c \in Cookies
      /\ flow[c].session = s /\ helper[s] # "none"
  BY <1>0 DEF TypeOK, HeardSessions
<1>2. t \in Sessions /\ helper[t] = "none" /\ t \notin DOMAIN flowOf /\ t # s
  BY <1>0, <1>1 DEF Unused, HeardSessions
<1>3. /\ flow[c].result \in Requests /\ flow[c].retryCount \in Nat
      /\ flow[c].retryCount + 1 < MaxAuthRetries
  BY <1>0, <1>1, RetriesAssumption DEF TypeOK, Flow, mayRetry, countRetry
<1>4. /\ DOMAIN flow' = DOMAIN flow
      /\ flow'[c] = g
      /\ \A d \in DOMAIN flow : d # c => flow'[d] = flow[d]
  BY <1>1 DEF Reattempt, With, countRetry
<1>5. /\ DOMAIN flowOf' = (DOMAIN flowOf \ {s}) \cup {t}
      /\ flowOf'[t] = c
      /\ \A u \in DOMAIN flowOf : u # s => flowOf'[u] = flowOf[u]
  BY <1>1, <1>2 DEF Reattempt, With, Without, forgetSession
<1>6. /\ helper' \in [Sessions -> Running \cup {"none", "authorized", "refused"}]
      /\ \A u \in Sessions : helper[u] # "none" => helper'[u] # "none"
      /\ helper'[t] # "none"
  BY <1>0, <1>1, <1>2 DEF Reattempt, TypeOK, Running
<1>7. attempts[flow[c].result] = flow[c].retryCount + 1 /\ attempts \in [Requests -> Nat]
  BY <1>0, <1>1 DEF RequestsBelong, TypeOK
<1>8. attempts' = [attempts EXCEPT ![flow[c].result] = IF @ > MaxAuthRetries THEN @ ELSE @ + 1]
  BY DEF Reattempt
<1>9. /\ attempts' \in [Requests -> Nat]
      /\ attempts'[flow[c].result] = flow[c].retryCount + 2
      /\ \A r \in Requests : r # flow[c].result => attempts'[r] = attempts[r]
  <2>1. ~(attempts[flow[c].result] > MaxAuthRetries)
    BY <1>3, <1>7, RetriesAssumption
  <2>2. attempts'[flow[c].result] = attempts[flow[c].result] + 1
    BY <1>3, <1>7, <1>8, <2>1
  <2>3. \A r \in Requests : r # flow[c].result => attempts'[r] = attempts[r]
    BY <1>7, <1>8
  <2> QED
    BY <1>3, <1>7, <1>8, <2>2, <2>3
<1>10. /\ made' = made /\ answers' = answers /\ open' = open /\ closed' = closed
       /\ failed' = failed \cup ({c} \cap open)
  BY DEF Reattempt
<1>11. TypeOK'
  <2>1. g \in Flow
    BY <1>2, <1>3, RetriesAssumption DEF Flow
  <2>2. \A d \in DOMAIN flow' : flow'[d] \in Flow
    BY <1>0, <1>4, <2>1 DEF TypeOK
  <2>3. \A u \in DOMAIN flowOf' : flowOf'[u] \in Cookies
    BY <1>0, <1>1, <1>5 DEF TypeOK
  <2> QED
    BY <1>0, <1>2, <1>4, <1>5, <1>6, <1>9, <1>10, <2>2, <2>3 DEF TypeOK
<1>12. HeardSessions'
  <2>1. ASSUME NEW d \in DOMAIN flow'
        PROVE  flow'[d].session \in DOMAIN flowOf' /\ flowOf'[flow'[d].session] = d
    <3>1. CASE d = c
      BY <1>4, <1>5, <3>1
    <3>2. CASE d # c
      <4>1. d \in DOMAIN flow /\ flow'[d] = flow[d]
        BY <1>4, <3>2
      <4>2. flow[d].session \in DOMAIN flowOf /\ flowOf[flow[d].session] = d
        BY <1>0, <4>1 DEF HeardSessions
      <4>3. flow[d].session # s
        BY <3>2, <4>2
      <4> QED
        BY <1>5, <4>1, <4>2, <4>3
    <3> QED
      BY <3>1, <3>2
  <2>2. ASSUME NEW u \in DOMAIN flowOf'
        PROVE  /\ flowOf'[u] \in DOMAIN flow'
               /\ flow'[flowOf'[u]].session = u
               /\ helper'[u] # "none"
    <3>1. CASE u = t
      BY <1>1, <1>4, <1>5, <1>6, <3>1
    <3>2. CASE u # t
      <4>1. u \in DOMAIN flowOf /\ u # s /\ flowOf'[u] = flowOf[u] /\ u \in Sessions
        BY <1>0, <1>5, <3>2 DEF TypeOK
      <4>2. flowOf[u] \in DOMAIN flow /\ flow[flowOf[u]].session = u /\ helper[u] # "none"
        BY <1>0, <4>1 DEF HeardSessions
      <4>3. flowOf[u] # c
        BY <1>1, <4>1, <4>2
      <4> QED
        BY <1>4, <1>6, <4>1, <4>2, <4>3
    <3> QED
      BY <3>1, <3>2
  <2> QED
    BY <2>1, <2>2 DEF HeardSessions
<1>13. \A d \in DOMAIN flow : flow'[d].result = flow[d].result
  BY <1>4
<1>14. ScreenMatchesFlows' /\ WaitedForIffInFlow'
  BY <1>0, <1>4, <1>10, <1>13 DEF ScreenMatchesFlows, WaitedForIffInFlow
<1>15. AttemptsBounded'
  BY <1>0, <1>3, <1>9, RetriesAssumption DEF AttemptsBounded
<1>16. RequestsBelong'
  <2>1. ASSUME NEW d \in DOMAIN flow'
        PROVE  attempts'[flow'[d].result] = flow'[d].retryCount + 1
    <3>1. CASE d = c
      BY <1>3, <1>4, <1>9, <3>1
    <3>2. CASE d # c
      <4>1. d \in DOMAIN flow /\ flow'[d] = flow[d] /\ flow[d].result \in Requests
        BY <1>0, <1>4, <3>2 DEF TypeOK, Flow
      <4>2. flow[d].result # flow[c].result
        BY <1>0, <1>1, <3>2, <4>1 DEF RequestsBelong
      <4> QED
        BY <1>0, <1>9, <4>1, <4>2 DEF RequestsBelong
    <3> QED
      BY <3>1, <3>2
  <2>2. \A r \in Requests \ made' : answers'[r] = 0 /\ attempts'[r] = 0
    <3>1. flow[c].result \in made
      BY <1>0, <1>1 DEF RequestsBelong
    <3> QED
      BY <1>0, <1>9, <1>10, <3>1 DEF RequestsBelong
  <2> QED
    BY <1>0, <1>4, <1>10, <1>13, <2>1, <2>2 DEF RequestsBelong
<1> QED
  BY <1>11, <1>12, <1>14, <1>15, <1>16 DEF IInv

\* What PAM asks and what the user answers moves Sessions that run, and the error
\* on the screen.
LEMMA RunningStep ==
    ASSUME TypeOK,
           \/ \E s \in Sessions : onSessionRequest(s) \/ onSessionError(s)
           \/ \E c \in Cookies : submitPassword(c)
    PROVE  /\ failed' \in SUBSET open
           /\ helper' \in [Sessions -> Running \cup {"none", "authorized", "refused"}]
           /\ \A s \in Sessions : helper'[s] = helper[s] \/ helper'[s] \in Running
           /\ \A s \in Sessions : helper[s] # "none" => helper'[s] # "none"
           /\ UNCHANGED <<flow, flowOf, made, answers, attempts, open, closed, dangling, up>>
           /\ IInv => IInv'
<1>1. /\ failed \in SUBSET open
      /\ helper \in [Sessions -> Running \cup {"none", "authorized", "refused"}]
      /\ \A c \in DOMAIN flow : flow[c].session \in Sessions
  BY DEF TypeOK, Flow
<1>2. /\ failed' \in SUBSET open
      /\ \/ helper' = helper
         \/ \E s \in Sessions, state \in Running : helper' = [helper EXCEPT ![s] = state]
      /\ UNCHANGED <<flow, flowOf, made, answers, attempts, open, closed, dangling, up>>
  BY <1>1 DEF onSessionRequest, onSessionError, submitPassword, listenerVars, requestVars,
     screenVars, Running
<1>3. /\ helper' \in [Sessions -> Running \cup {"none", "authorized", "refused"}]
      /\ \A s \in Sessions : helper'[s] = helper[s] \/ helper'[s] \in Running
  BY <1>1, <1>2
<1>4. \A s \in Sessions : helper[s] # "none" => helper'[s] # "none"
  BY <1>3 DEF Running
<1>5. ASSUME IInv PROVE IInv'
  <2>1. TypeOK'
    BY <1>2, <1>3 DEF TypeOK
  <2>2. HeardSessions'
    BY <1>2, <1>4, <1>5 DEF IInv, TypeOK, HeardSessions
  <2> QED
    BY <1>2, <1>5, <2>1, <2>2 DEF IInv, ScreenMatchesFlows, WaitedForIffInFlow,
       AttemptsBounded, RequestsBelong
<1> QED
  BY <1>2, <1>3, <1>4, <1>5

LEMMA NextIInv == IInv /\ [Next]_vars => IInv'
<1> SUFFICES ASSUME IInv, [Next]_vars PROVE IInv'
  OBVIOUS
<1>0. TypeOK /\ ScreenMatchesFlows /\ HeardSessions /\ WaitedForIffInFlow /\ AttemptsBounded
      /\ RequestsBelong
  BY DEF IInv
<1>1. ASSUME NEW r \in Requests, NEW c \in Cookies, NEW hasIdentity \in BOOLEAN,
             initiateAuthentication(r, c, hasIdentity)
      PROVE  IInv'
  <2>1. r \notin made /\ made' = made \cup {r} /\ UNCHANGED <<dangling, up>>
    BY <1>1 DEF initiateAuthentication
  <2>2. CASE c \in DOMAIN flow \/ ~hasIdentity
    <3>1. /\ answers' = [answers EXCEPT ![r] = 1]
          /\ UNCHANGED <<flow, flowOf, helper, attempts, open, failed, closed>>
      BY <1>1, <2>2 DEF initiateAuthentication, listenerVars, screenVars
    <3>2. \A d \in DOMAIN flow : flow[d].result # r
      BY <1>0, <2>1 DEF RequestsBelong
    <3>3. TypeOK' /\ ScreenMatchesFlows' /\ HeardSessions' /\ AttemptsBounded'
      BY <1>0, <2>1, <3>1 DEF TypeOK, ScreenMatchesFlows, HeardSessions, AttemptsBounded
    <3>4. WaitedForIffInFlow'
      BY <1>0, <2>1, <3>1, <3>2 DEF TypeOK, WaitedForIffInFlow
    <3>5. RequestsBelong'
      BY <1>0, <2>1, <3>1 DEF TypeOK, RequestsBelong
    <3> QED
      BY <3>3, <3>4, <3>5 DEF IInv
  <2>3. CASE ~(c \in DOMAIN flow \/ ~hasIdentity)
    BY <1>1, <2>1, <2>3, BeginIInv DEF initiateAuthentication
  <2> QED
    BY <2>2, <2>3
<1>2. ASSUME cancelAuthentication PROVE IInv'
  <2>1. finish(DOMAIN flow, FALSE) /\ UNCHANGED <<helper, attempts, dangling, up>>
    BY <1>2 DEF cancelAuthentication
  <2> QED
    BY <1>0, <2>1, FinishStep DEF TypeOK, AttemptsBounded
<1>3. ASSUME NEW s \in Sessions, onSessionRequest(s) \/ onSessionError(s) PROVE IInv'
  BY <1>0, <1>3, RunningStep
<1>10. ASSUME NEW c \in Cookies, submitPassword(c) PROVE IInv'
  BY <1>0, <1>10, RunningStep
<1>4. ASSUME NEW s \in Sessions, NEW gainedAuth \in BOOLEAN, onSessionCompleted(s, gainedAuth)
      PROVE  IInv'
  <2> DEFINE ended == IF gainedAuth THEN "authorized" ELSE "refused"
  <2>0. UNCHANGED <<dangling, up>>
    BY <1>4 DEF onSessionCompleted
  <2>1. CASE s \notin DOMAIN flowOf
    <3>1. /\ helper' = [helper EXCEPT ![s] = ended]
          /\ UNCHANGED <<flow, flowOf, made, answers, attempts, open, failed, closed>>
      BY <1>4, <2>1 DEF onSessionCompleted, requestVars, screenVars
    <3>2. /\ helper' \in [Sessions -> Running \cup {"none", "authorized", "refused"}]
          /\ \A t \in Sessions : helper[t] # "none" => helper'[t] # "none"
      BY <1>0, <3>1 DEF TypeOK
    <3>3. TypeOK'
      BY <1>0, <2>0, <3>1, <3>2 DEF TypeOK
    <3>4. HeardSessions'
      BY <1>0, <3>1, <3>2 DEF HeardSessions, TypeOK
    <3> QED
      BY <1>0, <3>1, <3>3, <3>4 DEF IInv, ScreenMatchesFlows, WaitedForIffInFlow,
         AttemptsBounded, RequestsBelong
  <2>2. CASE /\ s \in DOMAIN flowOf
             /\ ~gainedAuth /\ mayRetry(countRetry(flow[flowOf[s]].retryCount))
    BY <1>4, <2>0, <2>2, ReattemptIInv DEF onSessionCompleted
  <2>3. CASE /\ s \in DOMAIN flowOf
             /\ ~(~gainedAuth /\ mayRetry(countRetry(flow[flowOf[s]].retryCount)))
    <3>1. /\ finish({flowOf[s]}, gainedAuth)
          /\ helper' = [helper EXCEPT ![s] = ended]
          /\ attempts' = attempts
      BY <1>4, <2>3 DEF onSessionCompleted
    <3>2. /\ helper' \in [Sessions -> Running \cup {"none", "authorized", "refused"}]
          /\ \A t \in Sessions : helper[t] # "none" => helper'[t] # "none"
      BY <1>0, <3>1 DEF TypeOK
    <3>3. {flowOf[s]} \in SUBSET DOMAIN flow
      BY <1>0, <2>3 DEF HeardSessions
    <3>4. attempts' \in [Requests -> Nat] /\ \A r \in Requests : attempts'[r] <= MaxAuthRetries
      BY <1>0, <3>1 DEF TypeOK, AttemptsBounded
    <3> QED
      BY <2>0, <3>1, <3>2, <3>3, <3>4, FinishStep
  <2> QED
    BY <2>1, <2>2, <2>3
<1>5. ASSUME NEW s \in Sessions, DeferredDelete(s) PROVE IInv'
  <2>1. /\ s \notin DOMAIN flowOf
        /\ helper' = [helper EXCEPT ![s] = "none"]
        /\ UNCHANGED <<flow, flowOf, made, answers, attempts, open, failed, closed, dangling, up>>
    BY <1>5 DEF DeferredDelete, requestVars, screenVars
  <2>2. TypeOK'
    BY <1>0, <2>1 DEF TypeOK
  <2>3. HeardSessions'
    BY <1>0, <2>1 DEF TypeOK, HeardSessions
  <2> QED
    BY <1>0, <2>1, <2>2, <2>3 DEF IInv, ScreenMatchesFlows, WaitedForIffInFlow,
       AttemptsBounded, RequestsBelong
<1>6. ASSUME NEW c \in Cookies, cancelPending(c) PROVE IInv'
  <2>1. PICK refusals \in 0..MaxInside :
          /\ mayRetry(flow[c].retryCount + refusals)
          /\ StartedInside(c, refusals)
    BY <1>6 DEF cancelPending
  <2>2. c \in DOMAIN flow /\ finish({c}, FALSE) /\ UNCHANGED <<dangling, up>>
    BY <1>6 DEF cancelPending
  <2>3. refusals \in Nat /\ flow[c].retryCount \in Nat
    BY <1>0, <2>2, InsideAssumption, RetriesAssumption DEF TypeOK, Flow
  <2>4. flow[c].retryCount + 1 + refusals <= MaxAuthRetries
    BY <2>1, <2>3, RetriesAssumption DEF mayRetry
  <2>5. {c} \in SUBSET DOMAIN flow
    BY <2>2
  <2>6. /\ helper' \in [Sessions -> Running \cup {"none", "authorized", "refused"}]
        /\ \A s \in Sessions : helper[s] # "none" => helper'[s] # "none"
        /\ attempts' \in [Requests -> Nat]
        /\ \A r \in Requests : attempts'[r] <= MaxAuthRetries
        /\ \A r \in Requests : r # flow[c].result => attempts'[r] = attempts[r]
    BY <2>1, <2>2, <2>3, <2>4, StartedInsideBounded
  <2>7. \A r \in Requests : ~(\E d \in {c} : flow[d].result = r) => attempts'[r] = attempts[r]
    BY <2>6
  <2> QED
    BY <2>2, <2>5, <2>6, <2>7, FinishStep
<1>7. ASSUME NEW c \in Cookies, cancelPendingDeleted(c) PROVE IInv'
  <2>1. PICK refusals \in 1..MaxInside :
          /\ flow[c].retryCount + refusals = MaxAuthRetries
          /\ StartedInside(c, refusals - 1)
    BY <1>7 DEF cancelPendingDeleted
  <2>2. /\ c \in DOMAIN flow /\ dangling' = TRUE
        /\ flow' = Without(flow, {c})
        /\ flowOf' = Without(flowOf, {flow[c].session})
        /\ onSessionComplete({c}, FALSE)
        /\ made' = made
    BY <1>7 DEF cancelPendingDeleted, forgetSession
  <2>3. \/ answer({c}, FALSE) /\ up' = up
        \/ answers' = [answers EXCEPT ![flow[c].result] = 2] /\ up' = FALSE
    BY <1>7 DEF cancelPendingDeleted
  <2>4. flow[c].retryCount \in Nat /\ flow[c].result \in Requests
    BY <1>0, <2>2, RetriesAssumption DEF TypeOK, Flow
  <2>5. /\ refusals \in Nat /\ refusals - 1 \in Nat
        /\ flow[c].retryCount + 1 + (refusals - 1) <= MaxAuthRetries
    <3>1. refusals \in Nat /\ refusals >= 1
      BY InsideAssumption
    <3> QED
      BY <2>1, <2>4, <3>1, RetriesAssumption
  <2>6. /\ helper' \in [Sessions -> Running \cup {"none", "authorized", "refused"}]
        /\ \A s \in Sessions : helper[s] # "none" => helper'[s] # "none"
        /\ attempts' \in [Requests -> Nat]
        /\ \A r \in Requests : attempts'[r] <= MaxAuthRetries
        /\ \A r \in Requests : r # flow[c].result => attempts'[r] = attempts[r]
    BY <2>1, <2>2, <2>4, <2>5, StartedInsideBounded
  <2>7. /\ answers' \in [Requests -> 0..2]
        /\ answers'[flow[c].result] # 0
        /\ \A r \in Requests : r # flow[c].result => answers'[r] = answers[r]
        /\ up' \in BOOLEAN
    <3>1. CASE answer({c}, FALSE) /\ up' = up
      <4>1. {c} \in SUBSET DOMAIN flow
        BY <2>2
      <4>2. /\ answers' \in [Requests -> 0..2]
            /\ \A r \in Requests : (\E d \in {c} : flow[d].result = r) => answers'[r] = 1
            /\ \A r \in Requests :
                  ~(\E d \in {c} : flow[d].result = r) => answers'[r] = answers[r]
        BY <3>1, <4>1, AnswerOnce
      <4>3. up' \in BOOLEAN
        BY <1>0, <3>1 DEF TypeOK
      <4>4. answers'[flow[c].result] = 1
        BY <2>4, <4>2
      <4>5. \A r \in Requests : r # flow[c].result => answers'[r] = answers[r]
        BY <4>2
      <4> QED
        BY <4>2, <4>3, <4>4, <4>5
    <3>2. CASE answers' = [answers EXCEPT ![flow[c].result] = 2] /\ up' = FALSE
      <4>1. answers \in [Requests -> 0..2] /\ 2 \in 0..2
        BY <1>0 DEF TypeOK
      <4>2. answers' \in [Requests -> 0..2] /\ answers'[flow[c].result] = 2
        BY <2>4, <3>2, <4>1
      <4>3. \A r \in Requests : r # flow[c].result => answers'[r] = answers[r]
        BY <2>4, <3>2, <4>1
      <4>4. answers'[flow[c].result] # 0
        BY <4>2
      <4>5. up' \in BOOLEAN
        BY <3>2
      <4> QED
        BY <4>2, <4>3, <4>4, <4>5
    <3> QED
      BY <2>3, <3>1, <3>2
  <2>8. {c} \in SUBSET DOMAIN flow /\ {flow[d].session : d \in {c}} = {flow[c].session}
    BY <2>2
  <2>9. flowOf' = Without(flowOf, {flow[d].session : d \in {c}})
    BY <2>2, <2>8
  <2>10. /\ \A r \in Requests : (\E d \in {c} : flow[d].result = r) => answers'[r] # 0
         /\ \A r \in Requests : ~(\E d \in {c} : flow[d].result = r) => answers'[r] = answers[r]
         /\ \A r \in Requests : ~(\E d \in {c} : flow[d].result = r) => attempts'[r] = attempts[r]
    <3>1. \A r \in Requests : (\E d \in {c} : flow[d].result = r) <=> flow[c].result = r
      OBVIOUS
    <3> QED
      BY <2>6, <2>7, <3>1
  <2>11. dangling' \in BOOLEAN /\ up' \in BOOLEAN
    BY <2>2, <2>7
  <2> QED
    BY <2>2, <2>6, <2>7, <2>8, <2>9, <2>10, <2>11, FinishIInv
<1>8. CASE UNCHANGED vars
  BY <1>0, <1>8 DEF vars, listenerVars, requestVars, screenVars, IInv, TypeOK,
     ScreenMatchesFlows, HeardSessions, WaitedForIffInFlow, AttemptsBounded, RequestsBelong
<1> QED
  BY <1>1, <1>2, <1>3, <1>4, <1>5, <1>6, <1>7, <1>8, <1>10 DEF Next

LEMMA Invariance == Spec => []IInv
  BY InitIInv, NextIInv, PTL DEF Spec

-----------------------------------------------------------------------------
(* What holds of every run, for any number of cookies, requests, Sessions,  *)
(* attempts and completions from within a cancel.                          *)

\* Every variable keeps its type: a flow names a request and a Session that
\* exist, and its retry count stays below the limit.
THEOREM TypeCorrect == Spec => []TypeOK
<1>1. IInv => TypeOK
  BY DEF IInv
<1> QED
  BY <1>1, Invariance, PTL

\* The SessionStore holds a polkit session exactly while the listener has a flow
\* for its cookie (onPolkitRequest and onSessionComplete are called in pairs).
THEOREM ScreenAgrees == Spec => []ScreenMatchesFlows
<1>1. IInv => ScreenMatchesFlows
  BY DEF IInv
<1> QED
  BY <1>1, Invariance, PTL

\* m_cookieToState and m_sessionToState are inverse to each other, and the
\* Sessions they name are not deleted, across retries and cancels.
THEOREM SignalsAreHeard == Spec => []HeardSessions
<1>1. IInv => HeardSessions
  BY DEF IInv
<1> QED
  BY <1>1, Invariance, PTL

\* polkitd waits for a request exactly while a flow holds its AsyncResult, also
\* when cancelPending goes on after the flow was deleted.
THEOREM EachRequestInFlow == Spec => []WaitedForIffInFlow
<1>1. IInv => WaitedForIffInFlow
  BY DEF IInv
<1> QED
  BY <1>1, Invariance, PTL

\* No request starts more Sessions than MAX_AUTH_RETRIES, those included that
\* fail inside a cancel and are tried again there.
THEOREM AttemptsAreBounded == Spec => []AttemptsBounded
<1>1. IInv => AttemptsBounded
  BY DEF IInv
<1> QED
  BY <1>1, Invariance, PTL

-----------------------------------------------------------------------------
(* How sessions close.                                                     *)

\* A Session that is listened to has not completed.
HeardRunning == \A s \in DOMAIN flowOf : helper[s] \in Running

\* The Sessions started inside cancel() are not the one being cancelled.
LEMMA StartedInsideRunning ==
    ASSUME IInv, HeardRunning, NEW c \in DOMAIN flow, NEW n \in Nat, StartedInside(c, n)
    PROVE  \A s \in DOMAIN flowOf : helper'[s] \in Running
<1>1. DOMAIN flowOf \subseteq Sessions
  BY DEF IInv, TypeOK
<1>2. PICK new \in SUBSET Unused :
        helper' = [s \in Sessions |-> IF s \in new THEN "working" ELSE helper[s]]
  BY DEF StartedInside
<1> QED
  BY <1>1, <1>2 DEF HeardRunning, Running

\* One Session completes or starts at a time, and leaves or enters the map then.
LEMMA HeardRunningStep ==
    ASSUME IInv, HeardRunning, [Next]_vars
    PROVE  HeardRunning'
<1>0. /\ helper \in [Sessions -> Running \cup {"none", "authorized", "refused"}]
      /\ DOMAIN flowOf \subseteq Sessions
      /\ HeardSessions
  BY DEF IInv, TypeOK
<1>1. ASSUME NEW r \in Requests, NEW c \in Cookies, NEW hasIdentity \in BOOLEAN,
             initiateAuthentication(r, c, hasIdentity)
      PROVE  HeardRunning'
  <2>1. CASE c \in DOMAIN flow \/ ~hasIdentity
    BY <1>1, <2>1 DEF initiateAuthentication, listenerVars, HeardRunning
  <2>2. CASE ~(c \in DOMAIN flow \/ ~hasIdentity)
    <3>1. PICK s \in Unused : Begin(r, c, s)
      BY <1>1, <2>2 DEF initiateAuthentication
    <3>2. /\ DOMAIN flowOf' = DOMAIN flowOf \cup {s}
          /\ helper' = [helper EXCEPT ![s] = "working"]
      BY <3>1 DEF Begin, With
    <3>3. s \in Sessions
      BY DEF Unused
    <3> QED
      BY <1>0, <3>2, <3>3 DEF HeardRunning, Running
  <2> QED
    BY <2>1, <2>2
<1>2. ASSUME NEW C \in SUBSET DOMAIN flow, NEW gainedAuth \in BOOLEAN, finish(C, gainedAuth)
      PROVE  DOMAIN flowOf' = DOMAIN flowOf \ {flow[c].session : c \in C}
  BY <1>2 DEF finish, Without
<1>3. ASSUME cancelAuthentication PROVE HeardRunning'
  BY <1>2, <1>3 DEF cancelAuthentication, HeardRunning
<1>4. ASSUME NEW s \in Sessions, onSessionRequest(s) \/ onSessionError(s) PROVE HeardRunning'
  BY <1>0, <1>4, RunningStep DEF HeardRunning, IInv
<1>10. ASSUME NEW c \in Cookies, submitPassword(c) PROVE HeardRunning'
  BY <1>0, <1>10, RunningStep DEF HeardRunning, IInv
<1>5. ASSUME NEW s \in Sessions, NEW gainedAuth \in BOOLEAN, onSessionCompleted(s, gainedAuth)
      PROVE  HeardRunning'
  <2> DEFINE ended == IF gainedAuth THEN "authorized" ELSE "refused"
  <2>1. CASE s \notin DOMAIN flowOf
    <3>1. helper' = [helper EXCEPT ![s] = ended] /\ flowOf' = flowOf
      BY <1>5, <2>1 DEF onSessionCompleted
    <3> QED
      BY <1>0, <2>1, <3>1 DEF HeardRunning
  <2>2. CASE /\ s \in DOMAIN flowOf
             /\ ~gainedAuth /\ mayRetry(countRetry(flow[flowOf[s]].retryCount))
    <3>1. PICK t \in Unused : Reattempt(s, flowOf[s], t)
      BY <1>5, <2>2 DEF onSessionCompleted
    <3>2. flow[flowOf[s]].session = s /\ t \in Sessions /\ t # s
      BY <1>0, <2>2 DEF HeardSessions, Unused
    <3>3. /\ DOMAIN flowOf' = (DOMAIN flowOf \ {s}) \cup {t}
          /\ helper' = [helper EXCEPT ![s] = "refused", ![t] = "working"]
      BY <3>1, <3>2 DEF Reattempt, forgetSession, With, Without
    <3> QED
      BY <1>0, <3>2, <3>3 DEF HeardRunning, Running
  <2>3. CASE /\ s \in DOMAIN flowOf
             /\ ~(~gainedAuth /\ mayRetry(countRetry(flow[flowOf[s]].retryCount)))
    <3>1. finish({flowOf[s]}, gainedAuth) /\ helper' = [helper EXCEPT ![s] = ended]
      BY <1>5, <2>3 DEF onSessionCompleted
    <3>2. flowOf[s] \in DOMAIN flow /\ flow[flowOf[s]].session = s
      BY <1>0, <2>3 DEF HeardSessions
    <3>3. DOMAIN flowOf' = DOMAIN flowOf \ {flow[c].session : c \in {flowOf[s]}}
      BY <1>2, <3>1, <3>2
    <3>4. {flow[c].session : c \in {flowOf[s]}} = {s}
      BY <3>2
    <3> QED
      BY <1>0, <3>1, <3>3, <3>4 DEF HeardRunning
  <2> QED
    BY <2>1, <2>2, <2>3
<1>6. ASSUME NEW s \in Sessions, DeferredDelete(s) PROVE HeardRunning'
  <2>1. s \notin DOMAIN flowOf /\ helper' = [helper EXCEPT ![s] = "none"] /\ flowOf' = flowOf
    BY <1>6 DEF DeferredDelete
  <2> QED
    BY <1>0, <2>1 DEF HeardRunning
<1>7. ASSUME NEW c \in Cookies, cancelPending(c) PROVE HeardRunning'
  <2>1. PICK refusals \in 0..MaxInside : StartedInside(c, refusals)
    BY <1>7 DEF cancelPending
  <2>2. c \in DOMAIN flow /\ finish({c}, FALSE)
    BY <1>7 DEF cancelPending
  <2>3. DOMAIN flowOf' \subseteq DOMAIN flowOf
    BY <2>2 DEF finish, Without
  <2>4. refusals \in Nat
    BY InsideAssumption
  <2> QED
    BY <2>1, <2>2, <2>3, <2>4, StartedInsideRunning DEF HeardRunning
<1>8. ASSUME NEW c \in Cookies, cancelPendingDeleted(c) PROVE HeardRunning'
  <2>1. PICK refusals \in 1..MaxInside : StartedInside(c, refusals - 1)
    BY <1>8 DEF cancelPendingDeleted
  <2>2. refusals - 1 \in Nat /\ c \in DOMAIN flow
    BY <1>8, InsideAssumption DEF cancelPendingDeleted
  <2>3. DOMAIN flowOf' \subseteq DOMAIN flowOf
    BY <1>8 DEF cancelPendingDeleted, forgetSession, Without
  <2> QED
    BY <2>1, <2>2, <2>3, StartedInsideRunning DEF HeardRunning
<1>9. CASE UNCHANGED vars
  BY <1>9 DEF vars, listenerVars, HeardRunning
<1> QED
  BY <1>1, <1>3, <1>4, <1>5, <1>6, <1>7, <1>8, <1>9, <1>10 DEF Next

\* The flow of a closing session is known, and its Session was still running.
LEMMA ClosingStep ==
    ASSUME IInv, HeardRunning, [Next]_vars, NEW c \in open \ open'
    PROVE  closed'[c] = "success" <=> helper'[flow[c].session] = "authorized"
<1>0. /\ c \in DOMAIN flow /\ c \in Cookies
      /\ flow[c].session \in DOMAIN flowOf /\ flow[c].session \in Sessions
      /\ flowOf[flow[c].session] = c
      /\ helper[flow[c].session] \in Running
      /\ helper \in [Sessions -> Running \cup {"none", "authorized", "refused"}]
  BY DEF IInv, TypeOK, ScreenMatchesFlows, HeardSessions, HeardRunning
<1>1. ASSUME NEW r \in Requests, NEW d \in Cookies, NEW hasIdentity \in BOOLEAN,
             initiateAuthentication(r, d, hasIdentity)
      PROVE  FALSE
  BY <1>1 DEF initiateAuthentication, Begin, screenVars
<1>2. ASSUME NEW C \in SUBSET DOMAIN flow, NEW gainedAuth \in BOOLEAN,
             onSessionComplete(C, gainedAuth)
      PROVE  c \in C /\ closed'[c] = IF gainedAuth THEN "success" ELSE "cancelled"
  BY <1>0, <1>2 DEF onSessionComplete
<1>3. ASSUME cancelAuthentication
      PROVE  closed'[c] = "cancelled" /\ helper'[flow[c].session] \in Running
  <2>1. onSessionComplete(DOMAIN flow, FALSE) /\ helper' = helper
    BY <1>3 DEF cancelAuthentication, finish
  <2> QED
    BY <1>0, <1>2, <2>1
<1>4. ASSUME NEW s \in Sessions,
             onSessionRequest(s) \/ onSessionError(s) \/ DeferredDelete(s)
      PROVE  FALSE
  BY <1>4 DEF onSessionRequest, onSessionError, DeferredDelete, screenVars
<1>8. ASSUME NEW d \in Cookies, submitPassword(d) PROVE FALSE
  BY <1>8 DEF submitPassword, screenVars
<1>5. ASSUME NEW s \in Sessions, NEW gainedAuth \in BOOLEAN, onSessionCompleted(s, gainedAuth)
      PROVE  /\ closed'[c] = IF gainedAuth THEN "success" ELSE "cancelled"
             /\ helper'[flow[c].session] = IF gainedAuth THEN "authorized" ELSE "refused"
  <2>1. /\ s \in DOMAIN flowOf
        /\ ~(~gainedAuth /\ mayRetry(countRetry(flow[flowOf[s]].retryCount)))
    BY <1>5 DEF onSessionCompleted, Reattempt, screenVars
  <2>2. /\ onSessionComplete({flowOf[s]}, gainedAuth)
        /\ helper' = [helper EXCEPT ![s] = IF gainedAuth THEN "authorized" ELSE "refused"]
    BY <1>5, <2>1 DEF onSessionCompleted, finish
  <2>3. flowOf[s] \in DOMAIN flow /\ flow[flowOf[s]].session = s
    BY <2>1 DEF IInv, HeardSessions
  <2>4. c = flowOf[s] /\ closed'[c] = IF gainedAuth THEN "success" ELSE "cancelled"
    BY <1>2, <2>2, <2>3
  <2> QED
    BY <1>0, <2>2, <2>3, <2>4
<1>6. ASSUME NEW d \in Cookies, cancelPending(d) \/ cancelPendingDeleted(d)
      PROVE  closed'[c] = "cancelled" /\ helper'[flow[c].session] \in Running
  <2>1. /\ d \in DOMAIN flow /\ {d} \in SUBSET DOMAIN flow
        /\ onSessionComplete({d}, FALSE) /\ FALSE \in BOOLEAN
    BY <1>6 DEF cancelPending, cancelPendingDeleted, finish
  <2>2. \E n \in Nat : StartedInside(d, n)
    <3>1. CASE cancelPending(d)
      BY <3>1, InsideAssumption DEF cancelPending
    <3>2. CASE cancelPendingDeleted(d)
      <4>1. PICK n \in 1..MaxInside : StartedInside(d, n - 1)
        BY <3>2 DEF cancelPendingDeleted
      <4>2. n - 1 \in Nat
        <5>1. n \in Nat /\ n >= 1
          BY InsideAssumption
        <5> QED
          BY <5>1
      <4> QED
        BY <4>1, <4>2
    <3> QED
      BY <1>6, <3>1, <3>2
  <2>3. helper'[flow[c].session] \in Running
    BY <1>0, <2>1, <2>2, StartedInsideRunning
  <2> QED
    BY <1>2, <2>1, <2>3
<1>7. CASE UNCHANGED vars
  BY <1>7 DEF vars, screenVars
<1> QED
  BY <1>1, <1>3, <1>4, <1>5, <1>6, <1>7, <1>8 DEF Next, Running

\* A session closes as a success exactly when the Session that its flow drives
\* at that moment authorizes: no stale signal and no cancel decides it.
THEOREM SuccessAuthorized == Spec => SuccessIsAuthorized
<1>1. Init => HeardRunning
  BY DEF Init, HeardRunning
<1>2. IInv /\ HeardRunning /\ [Next]_vars => HeardRunning'
  BY HeardRunningStep
<1>3. IInv /\ HeardRunning /\ [Next]_vars
        => [\A c \in open \ open' :
              closed'[c] = "success" <=> helper'[flow[c].session] = "authorized"]_vars
  BY ClosingStep
<1> QED
  BY <1>1, <1>2, <1>3, Invariance, PTL DEF Spec, SuccessIsAuthorized

-----------------------------------------------------------------------------
(* How requests are answered.                                              *)

\* Each flow answers its own request, which nothing has answered yet.
LEMMA AnsweredOnceStep ==
    ASSUME IInv, AnsweredOnce, [Next]_vars
    PROVE  AnsweredOnce'
<1>0. /\ answers \in [Requests -> 0..2]
      /\ \A r \in Requests : answers[r] \in 0..2
  BY DEF IInv, TypeOK
<1>1. ASSUME NEW r \in Requests, NEW c \in Cookies, NEW hasIdentity \in BOOLEAN,
             initiateAuthentication(r, c, hasIdentity)
      PROVE  AnsweredOnce'
  <2>1. UNCHANGED <<dangling, up>> /\ (answers' = answers \/ answers' = [answers EXCEPT ![r] = 1])
    BY <1>1 DEF initiateAuthentication, Begin
  <2> QED
    BY <1>0, <2>1 DEF AnsweredOnce
<1>2. ASSUME NEW C \in SUBSET DOMAIN flow, NEW gainedAuth \in BOOLEAN, answer(C, gainedAuth),
             up' = up, dangling' = dangling \/ (dangling' /\ MaxInside > 0)
      PROVE  AnsweredOnce'
  <2>1. /\ \A r \in Requests : (\E c \in C : flow[c].result = r) => answers'[r] = 1
        /\ \A r \in Requests : ~(\E c \in C : flow[c].result = r) => answers'[r] = answers[r]
    BY <1>2, AnswerOnce
  <2>2. \A r \in Requests : answers'[r] = 1 \/ answers'[r] = answers[r]
    BY <2>1
  <2>3. \A r \in Requests : answers'[r] <= 1 \/ ~up
    BY <1>0, <2>2 DEF AnsweredOnce
  <2>4. (~up' => dangling') /\ (dangling' => MaxInside > 0)
    <3>1. (~up => dangling) /\ (dangling => MaxInside > 0)
      BY DEF AnsweredOnce
    <3>2. CASE dangling' = dangling
      BY <1>2, <3>1, <3>2
    <3>3. CASE dangling' /\ MaxInside > 0
      BY <3>3
    <3> QED
      BY <1>2, <3>2, <3>3
  <2>5. \A r \in Requests : answers'[r] <= 1 \/ ~up'
    BY <1>2, <2>3
  <2> QED
    BY <2>4, <2>5 DEF AnsweredOnce
<1>3. ASSUME NEW C \in SUBSET DOMAIN flow, NEW gainedAuth \in BOOLEAN, finish(C, gainedAuth),
             UNCHANGED <<dangling, up>>
      PROVE  AnsweredOnce'
  BY <1>2, <1>3 DEF finish
<1>4. ASSUME cancelAuthentication PROVE AnsweredOnce'
  BY <1>3, <1>4 DEF cancelAuthentication
<1>5. ASSUME NEW s \in Sessions,
             onSessionRequest(s) \/ onSessionError(s) \/ DeferredDelete(s)
      PROVE  AnsweredOnce'
  BY <1>5 DEF onSessionRequest, onSessionError, DeferredDelete, requestVars, AnsweredOnce
<1>10. ASSUME NEW c \in Cookies, submitPassword(c) PROVE AnsweredOnce'
  BY <1>10 DEF submitPassword, requestVars, AnsweredOnce
<1>6. ASSUME NEW s \in Sessions, NEW gainedAuth \in BOOLEAN, onSessionCompleted(s, gainedAuth)
      PROVE  AnsweredOnce'
  <2>1. UNCHANGED <<dangling, up>>
    BY <1>6 DEF onSessionCompleted
  <2>2. CASE answers' = answers
    BY <2>1, <2>2 DEF AnsweredOnce
  <2>3. CASE s \in DOMAIN flowOf /\ finish({flowOf[s]}, gainedAuth)
    <3>1. {flowOf[s]} \in SUBSET DOMAIN flow
      BY <2>3 DEF IInv, HeardSessions
    <3> QED
      BY <1>3, <2>1, <2>3, <3>1
  <2> QED
    BY <1>6, <2>2, <2>3 DEF onSessionCompleted, Reattempt, requestVars
<1>7. ASSUME NEW c \in Cookies, cancelPending(c) PROVE AnsweredOnce'
  <2>1. {c} \in SUBSET DOMAIN flow /\ finish({c}, FALSE) /\ UNCHANGED <<dangling, up>>
    BY <1>7 DEF cancelPending
  <2> QED
    BY <1>3, <2>1
<1>8. ASSUME NEW c \in Cookies, cancelPendingDeleted(c) PROVE AnsweredOnce'
  <2>1. MaxInside > 0 /\ dangling' = TRUE /\ {c} \in SUBSET DOMAIN flow
    <3>1. PICK refusals \in 1..MaxInside : TRUE
      BY <1>8 DEF cancelPendingDeleted
    <3>2. MaxInside > 0
      BY <3>1, InsideAssumption
    <3> QED
      BY <1>8, <3>2 DEF cancelPendingDeleted
  <2>2. CASE answer({c}, FALSE) /\ up' = up
    BY <1>2, <2>1, <2>2
  <2>3. CASE up' = FALSE
    BY <2>1, <2>3 DEF AnsweredOnce
  <2> QED
    BY <1>8, <2>2, <2>3 DEF cancelPendingDeleted
<1>9. CASE UNCHANGED vars
  BY <1>9 DEF vars, requestVars, AnsweredOnce
<1> QED
  BY <1>1, <1>4, <1>5, <1>6, <1>7, <1>8, <1>9, <1>10 DEF Next

\* Each of polkitd's requests is answered once, by the flow that has it, and two
\* answers cost the daemon its life; without Sessions that complete from within
\* cancel() there is neither a second answer nor a use of a deleted state
\* (PolkitListener.cpp:184-231).
THEOREM ServedOnce == Spec => []RequestsAreServed
<1>1. Init => AnsweredOnce
  BY DEF Init, AnsweredOnce
<1>2. IInv /\ AnsweredOnce /\ [Next]_vars => AnsweredOnce'
  BY AnsweredOnceStep
<1>3. IInv /\ AnsweredOnce => RequestsAreServed
  BY DEF IInv, RequestsAreServed
<1> QED
  BY <1>1, <1>2, <1>3, Invariance, PTL DEF Spec

\* A request that polkitd waits for has a Session that is heard and reaches the
\* flow of that request, and there either PAM is at work or the user has been
\* asked, by a prompt that is on the screen: its answer waits for one of them, and
\* for nothing that was lost (PolkitListener.cpp:55-61, 167-174).
WaitsForPam ==
    \A r \in made : answers[r] = 0 =>
        \E c \in DOMAIN flow \cap open :
            /\ flow[c].result = r
            /\ flow[c].session \in DOMAIN flowOf /\ flowOf[flow[c].session] = c
            /\ helper[flow[c].session] = "working" \/ AwaitsUser(r)

THEOREM PamIsRunning == Spec => []WaitsForPam
<1>1. Init => HeardRunning
  BY DEF Init, HeardRunning
<1>2. IInv /\ HeardRunning /\ [Next]_vars => HeardRunning'
  BY HeardRunningStep
<1>3. IInv /\ HeardRunning => WaitsForPam
  <2> SUFFICES ASSUME IInv, HeardRunning, NEW r \in made, answers[r] = 0
               PROVE  \E c \in DOMAIN flow \cap open :
                         /\ flow[c].result = r
                         /\ flow[c].session \in DOMAIN flowOf /\ flowOf[flow[c].session] = c
                         /\ helper[flow[c].session] = "working" \/ AwaitsUser(r)
    BY DEF WaitsForPam
  <2>1. PICK c \in DOMAIN flow \cap open : flow[c].result = r
    BY DEF IInv, WaitedForIffInFlow, ScreenMatchesFlows
  <2>2. /\ flow[c].session \in DOMAIN flowOf /\ flowOf[flow[c].session] = c
        /\ helper[flow[c].session] \in Running
    BY <2>1 DEF IInv, HeardSessions, HeardRunning
  <2>3. helper[flow[c].session] = "working" \/ AwaitsUser(r)
    BY <2>1, <2>2 DEF Running, AwaitsUser
  <2> QED
    BY <2>1, <2>2, <2>3
<1> QED
  BY <1>1, <1>2, <1>3, Invariance, PTL DEF Spec
=============================================================================
