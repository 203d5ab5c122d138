# A verification project for bb-auth

TLA+ specifications of the bb-auth authentication agent, the TLC
configurations that check them, and TLAPS proofs. Paths are relative to the
repository; `Agent.cpp:151` is line 151 of `src/core/Agent.cpp`.

## 1. The system

`bb-auth --daemon` is one single-threaded Qt process. It is the polkit
authentication agent of the desktop session and a server on a Unix socket.
Three kinds of processes connect to the socket: those that need a secret
(pinentry for gpg, the keyring prompter for gcr), those that show prompts (UI
providers: a shell plugin, or the fallback window), and pollers. An
authentication is a *session* in the daemon's store; UIs see it through
`session.created`, `session.updated` and `session.closed` events and act on it
with `session.respond` and `session.cancel`.

| component | state it keeps | operations |
|---|---|---|
| Provider registry, `core/agent/ProviderRegistry.cpp` | providers by socket, with priority and last heartbeat; the active one | register, heartbeat, unregister, removeSocket, recompute, pruneStale, isAuthorized |
| Pinentry manager, `core/managers/PinentryManager.cpp` | pending requests, awaited outcomes with a timer each, flow owners, reported retries, retry counters per key | handleRequest, handleResponse, handleResult, handleCancel, cleanupForSocket, outcome timer |
| Pinentry mode, `modes/pinentry.cpp` | texts of the next prompt, flow cookie, whether an outcome is owed | Assuan commands; one IPC request per prompt and per report |
| Keyring manager, `core/managers/KeyringManager.cpp` | pending requests by cookie | handleRequest, handleResponse, handleCancel, cleanupForSocket |
| Keyring prompter, `keyring-prompter/*.c` | the gcr prompts, a worker thread and a connection for each request, inactivity timer | password, confirm, close, quit |
| Polkit listener, `core/PolkitListener.cpp` | one state per cookie, Session to state | initiate, cancel, Session signals, submitPassword, cancelPending |
| Session store, `core/agent/SessionStore.cpp`, `core/Session.cpp` | open sessions: prompt, error, info | create, update, close |
| Event queue and router, `core/agent/Event*` | bounded queue of events, waiters | route, enqueue, next, removeWaiter |
| Agent, `core/Agent.cpp` | subscribers, maintenance timer, fallback launch time | message handlers, disconnect, event emission, fallback launch |
| IPC server, `core/ipc/IpcServer.cpp` | connections and their buffers | accept, read, sendJson, disconnect |
| Fallback client, `fallback/FallbackClient.cpp` | connection, registered, active, timers | reconnect, register, heartbeat, messages |
| Fallback window, `fallback/FallbackWindow.cpp` | session on the screen, busy, idle-exit and clear timers | created, updated, closed, submit, cancel |

How they interact: the agent dispatches a message to a manager; a manager calls
back into the agent to create, update and close sessions, which emits events
through the router; the router pushes them to the active provider or, without
one, to the subscribers, and queues them for pollers. A lost connection is
reported to the registry, the queue and both managers. All of this runs on one
thread, so a handler is atomic in the daemon; what interleaves are handlers,
timers, disconnects and the processes on the other ends. Two places re-enter:
`sendJson` flushes, and a failed write raises `disconnected` at once; and a
PolkitQt1 Session may report completion from within `initiate()` or `cancel()`.

What is hard, and so what the properties are for, is listed with its line under
`hazards` in `PROJECT.json`. What makes each component right:

* registry: somebody holds the role while anybody is registered, the right one
  does, all know who it is, and the dead leave;
* pinentry: every prompt has a listener, every answer an outcome, every session
  an owner and an end, and only the owner says how it ended;
* polkit: the screen, the listener and polkitd agree on what is in progress,
  and every request is answered unless the user leaves a question there;
* keyring: every prompt has a worker behind it, and goes when gcr closes it;
* events: each is delivered once and in order, or lost for a stated reason;
* fallback: what it shows can be answered and by it, it knows whether it has the
  role, and an open session that no shell shows comes before the user's eyes.

## 2. Modules

| module | models | state and actions |
|---|---|---|
| `ProviderRegistry` | registry and the handlers of the agent around it | `providers` is `m_uiProviders`, `active` is `m_activeProvider`; one action per message, for the maintenance timer, for the disconnect and for the recomputation when the last session closes. `told` records what each socket last heard of the role. Time is kept as ages. |
| `PinentryManager` | the manager and its part of the session store, against any peers | `pending`, `awaiting`, `owner`, `retryReported` are the tables of the class; `open`, `failed`, `closed` are the store's sessions. One action per handler, the timer, and the lost connection. |
| `PinentryFlow` | pinentry processes, their connections, the UI's answers; INSTANCEs `PinentryManager` | `stage` is where a process is in its code, `inbox`, `hungup` and `reply` are the ends of a connection. A process may time out or die anywhere; connections are read in any order. |
| `KeyringManager` | the keyring manager and its sessions; handlers only, composed in the next | `pending` is `m_pendingRequests`, `open` the store's sessions. |
| `KeyringPrompter` | gcr's prompts, their workers, the main thread, the connections; EXTENDS `KeyringManager` | `stage` is what the worker of a prompt is doing, `cookie` its `request_cookie`, `closing` the connection over which the main thread waits for its cancel. One action per read, per reply, for the timer, and for the death of either process. |
| `EventQueue` | queue, waiters, `next`, and the tail of the router | `queue`, `waiters`; events are numbered; `given` and `lost` record where each went. |
| `PolkitListener` | the listener, its Sessions, the agent's polkit handlers | `flow` is `m_cookieToState`, `flowOf` is `m_sessionToState`; `helper` the external Sessions: PAM at work, the user asked, or the outcome; `answers` the completions of each AsyncResult. |
| `ProviderRole` | what a registry promises, without sockets, time or messages | `priority` of each UI that is registered, `holder` of the role; UIs come and go, and the best of them holds the role. |
| `PromptLife` | what the two sides of the keyring promise of one prompt | `status` of each prompt: new, open, ended. A prompt opens at most once, and what has ended stays ended. |
| `EventStream` | what the pull side promises its readers, without sockets, waiters or messages | the events `first..last` are kept; `given` and `lost` say where the others went. |
| `FallbackProcess` | the process `bb-auth-fallback` and its connection, shared by the next four | `proc` is the process as `pgrep` sees it, `conn` the connection, `toDaemon` and `toClient` what is unread on it. |
| `AgentUI` | the agent as UIs see it: sessions, registry, subscribers, routing, replay, launch of the fallback; EXTENDS `FallbackProcess` | `sessions` is `m_sessions`, `providers` and `active` the registry, `subscriber` the fallback's entry in `m_subscribers`, `cooling` the launch cooldown. One action per handler; messages to the fallback are put on its connection in the order of the code. The shell is a registration only. |
| `FallbackWindow` | the window; its slots are operators | `shown` is `m_currentSessionId`, `busy` is `m_busy`, `idle` the idle-exit timer, `clears` the delayed clears that have yet to fire. |
| `FallbackClient` | the client, and with the window's slots the whole fallback; EXTENDS `FallbackWindow` | `registered`, `subscribed`, `providerActive` are the members of that name; one action per message read, timer, click and end of the process. |
| `Fallback` | daemon and fallback together; EXTENDS both | an action of one side leaves the other's variables alone; they share the connection and the process. |
| `*Proofs` | | theorems about the module of that name |
| `MC*` | | instance of the module for TLC, with the reasons for its bounds |

`PinentryOutcomeProofs` EXTENDS `PinentryFlowProofs` and is about `PinentryFlow` too.

`PinentryManager` has two uses. By itself it is the abstract specification of
what the daemon does with *any* peers, and the theorems are about it.
`PinentryFlow` is the detailed system; `ImplementsManager` (`M!Spec`, checked as
a property) says that every step of it is a step of the manager or leaves the
manager's variables alone, so what is proved of the manager holds of the flow.

`ProviderRole` is the abstract registry. Two detailed specifications implement
it: `ProviderRegistry`, which has the clock and the heartbeats, and `Fallback`,
in which the agent drives the registry from its handlers, recomputes after a
session closes, and loses everything when it restarts. They say so with
`ImplementsRole` and `AgentImplementsRole`.

`PromptLife` is the life of a keyring prompt. `KeyringPrompter` implements it
under the mapping `stageOf`: a cookie is *open* while the daemon has a session
for it, *new* while a request that would open one may still come, and *ended*
otherwise. So the refinement (`ImplementsPromptLife`) says that a session id is
never opened twice, which is what fails for pinentry (section 6).

`EventStream` is the pull side without the sockets. `EventQueue` implements it
with `last <- emitted` and `first <- emitted - Len(queue) + 1`
(`ImplementsStream`): what is kept are the latest events, they leave oldest
first, and an event that leaves goes to one reader or to nobody, for good.

Definitions keep the names of the source. An action is a handler run to its
end, with everything it calls. Definitions marked *Mutant* are not part of the
models: they are what the definition next to them would be with a plausible
bug, and show that a property would notice it.

## 3. Runs

| run | instance | what it shows |
|---|---|---|
| `provider_registry` | 3 sockets, 2 priorities, timeout 3 ticks, maintenance every tick | `SomeoneIsActive`, `ActiveIsBest`, `NoDanglingSocket`, `BoundedStaleness`, `ToldTheTruth`; refinement `ImplementsRole`; liveness `SilentIsPruned` |
| `pinentry_manager` | 2 flows, 2 connections, 2 processes | `PhasesAreExclusive`, `OwnedIffOpen`, `ReplyGoesToOwner`, `IdleOnlyAfterRetry`; steps `ClosedByOwner`, `RefusalIsShown` |
| `pinentry_flow` | 1 process, 1 cookie, 3 connections | `PromptIsHeard`, `AnswersArrive`, `SuccessWasAnswered`; refinement `ImplementsManager`; liveness `OrphanCloses`, `AnswerIsFollowedUp` |
| `keyring_prompter` | 2 prompts, 2 cookies, 3 connections | `TrackedIffOpen`, `PromptsMatchWorkers`; refinement `ImplementsPromptLife`; liveness `ClosedPromptGoes` |
| `event_queue` | 3 sockets, queue of 2, 4 events, 2 open requests each | `WaitersAreServable`, `QueueIsLatest`; refinement `ImplementsStream`; step `LossNeedsReason` |
| `polkit_listener` | 2 cookies, 2 requests, 3 Sessions, 3 attempts | `ScreenMatchesFlows`, `HeardSessions`, `RequestsAreServed`, `AttemptsBounded`; step `SuccessIsAuthorized`; liveness `EveryRequestAnswered` |
| `fallback` | 2 sessions, shell ranks 5 and 100 around the fallback's 10, one unread message each way, one success shown at a time | `ShownWhileActive`, `KnowsItsRole`, `PromptIsUsable`, `CountdownFits`; refinement `AgentImplementsRole`; liveness `SomebodySees`, `BusyEnds` |
| `pinentry_reopened`, `pinentry_orphan`, `pinentry_withheld`, `polkit_deleted`, `keyring_confirm` | | the five disagreements of section 6; each is expected to end in a counterexample |

Some names stand for two parts:
`PromptsMatchWorkers` is `PromptHasWorker` and `WorkerHasPrompt`; `AnswersArrive` is
`AnswerFits` and `AnswerIsOwn`; `RequestsAreServed` is `WaitedForIffInFlow` and
`AnsweredOnce`; `PromptIsUsable` is `NoGhostPrompt` and `BusyIsAwaited`;
`CountdownFits` is `IdleIsHidden` and `OpenIsShown`. No run checks a type
invariant: they are proved.

**Bounds.** Three sockets let two providers compete while a third comes and
goes. The registry's timeout is longer than its maintenance interval, as in the
code (15 s and 5 s), so that a stale provider can be recomputed away or pruned;
its state space is finite without a cap, because a registered provider's age is
bounded (this is `BoundedStaleness`). Two flows and two processes are what the
owner check and `cleanupForSocket` distinguish. In the flow, a cookie that the
daemon has closed can come back, and three connections let a retry report
linger unread while the next request is answered. Two keyring prompts with a
cookie each let the worker of a closed prompt wait beside the next prompt, and
three connections carry both requests and a cancel; a cookie is used once, so
two of them are also the bound on requests. `Requests`, `MaxEvents`,
`MaxAsks` and `MaxInside` bound only how often the environment acts; the queue
has two places, so that it overflows, drains and overflows again. The attempts
are the code's three.

In `fallback`, the bounds of one unread message delay what either side starts,
never what it must do at once: a handler that begins with room still sends all
its messages, as a subscription does that replays two sessions. The guards are
`hasRoom` and those on `Len(toDaemon)` and `Len(toClient)`. `MaxClears` counts
successes on their way to the window as well as those it displays. The instance was also
run with two unread messages for the client (167 930 states), two for the daemon
(147 771) and two successes at once (48 368), with the same outcome.

**Deadlock** is checked where somebody can always act. `pinentry_flow` may
stop when its processes have exited and every session is closed, and
`polkit_listener` when its requests are used up.

The Sessions of `polkit_listener` are three: two flows have one each, and the
third is what a retry starts or a deferred delete has yet to take; one that was
deleted is used again. With four the invariants and the action property hold too
(230 258 states), but the liveness check takes too long; `polkit_deleted` has four.

**Fairness.** Only what the code's scheduling gives: the event loop handles what
has arrived, timers fire, deferred deletes happen. A pinentry process goes on to
its next blocking read, and that read returns because `IpcClient` gives it a
timeout. The keyring prompter's workers and its inactivity timer go on, and so
does its main thread once the daemon has replied to a cancel. Users, gpg-agent,
polkitd and UI providers owe nothing.

Of PAM, which is outside the repository, one thing is assumed: while it does not
wait for the user it asks or completes, and it does not go on asking for ever
(the strong fairness of `onSessionCompleted` for a Session that is `"working"`).
It may wait for the user for ever, and then nobody ends the conversation: the
listener arms no timer. `EveryRequestAnswered` therefore has a third way out, a
question that stays on the screen from some moment on, neither answered nor
cancelled (`[]AwaitsUser`). It is a strict condition: the question must be that
of the flow's current Session, and its session on the screen, so a request lost
between two attempts, a signal nobody hears or a prompt nobody sees is not
excused.

`AnswerIsFollowedUp` is about what the user sees after an answer to a pinentry
prompt: the session ends, or the next prompt of the process is on the screen.
The timer alone does not give it, because a retry report stops the timer
(`PinentryManager.cpp:186`): then the process must ask again, its request must
be read and accepted, or its end must be noticed. There is one way out, which
the property names (`[]LeftOpen`): nobody speaks for the flow any more, because
the process gave it up right after the report, or the report was read after the
request and the answer that followed it. It is needed; without it the property
fails. This is the gap of `pinentry_orphan`, seen from the user's side.

In `fallback` both event loops deliver, the maintenance timer fires, and the
cooldown ends. A session that was answered owes nothing: `EveryRequestAnswered`
and `AnswerIsFollowedUp` say when one may stay as it is. So `BusyEnds` excepts a
prompt whose session is being verified for ever (`[]Verifying`). The fairness of
`handleMessage` and `pruneStaleProviders` is strong only because the bounds
disable them again and again while messages are unread; in the code they always
come due. `SomebodySees` is about runs in which
from some moment on no new session is created and nobody kills the fallback
(`Settled`): of a stream of new sessions only the newest is shown, and a process
that is killed over and over shows none. No user has to answer, and the shell
may come and go for ever.

## 4. Proofs

TLAPS proves, for every value of the constants that meets the assumptions of the
modules, what TLC checks on the instances.

* `ProviderRegistryProofs`: every safety invariant of `ProviderRegistry`. No
  invariant is inductive alone. The induction is over their conjunction: a
  recomputation needs the types of the table to find a best provider at all
  (`Best` is non-empty because ages and priorities are integers in a finite
  table of sockets), `ActiveIsBest` needs that no age grows for one provider
  only, and `ToldTheTruth` needs that a role that did not move belongs to a
  provider that was told. The registry implements `ProviderRole`. And a provider
  that is connected and beats keeps its entry, and loses the role only to one it
  does not outrank (`LiveProvidersStay`): a theorem about steps, which needs the
  invariants because a prune decides by ages.
* `PinentryManagerProofs`: every invariant and both action properties of
  `PinentryManager`. The inductive invariant is the conjunction of the four
  safety invariants and the types. `OwnedIffOpen` carries it: a prompt can be
  stored only under the pid that is stored as the owner, so `ReplyGoesToOwner`
  survives a request on a second connection, and a result can be accepted
  without an owner only for a session that is not open.
* `PinentryFlowProofs`: the flow implements the manager (`ImplementsManager`),
  for any number of processes, and the flow's invariants `PromptIsHeard` and
  `AnswerFits` (the first half of `AnswersArrive`). Through the refinement the manager's inductive invariant holds
  inside the flow (`ManagerStep`, from the manager's own induction step), and
  the rest is about connections: a process has one exactly while it waits in
  `sendRequest`; the daemon knows who is behind it (`ConnsBelong`); an unread
  message says what its process is doing now, unless it was hung up since
  (`MessagesFit`). So a request that is read puts up a prompt its process waits
  for, and a reply goes to a process that waits for one of its kind. That no
  connection is used twice is what the argument rests on.
* `PolkitListenerProofs`: every invariant of `PolkitListener` and the action
  property `SuccessIsAuthorized`, whatever limit there is on attempts and however
  often a Session completes from within a cancel. The invariants need one more
  conjunct, `RequestsBelong`: no two flows share a request, and the retries of
  a flow count the Sessions started for its request. Without it, finishing one
  flow could answer another's request, and the limit on `retryCount` would say
  nothing of the Sessions started. `SuccessIsAuthorized` needs that a Session
  that is listened to has not completed (`HeardRunning`). A request is answered
  once (`AnsweredOnce`), the only exception being the use of a deleted state
  shown by `polkit_deleted`; it takes a Session that completes from within a
  cancel, so with `MaxInside = 0` there is none. `PamIsRunning` is the safety
  core of `EveryRequestAnswered`: a request without an answer has a Session that
  runs, is heard and reaches the flow of this very request, and there PAM is at
  work, or has asked a question that the user has on the screen.

* `PinentryOutcomeProofs`: `SuccessWasAnswered`. `handleResult` takes a success
  at any moment, so that a session never closes as a success behind the user's
  back rests on the processes. The invariant says that a cookie names one
  process for good (`CookiesDiffer`, `CookiesDrawn`), that the only unread
  request of a cookie is the one its process waits on (`OneRequest`), and that a
  connection with a prompt or a reply has nothing left to read
  (`ReadBeforeReply`). Hence, once a success is reported, no request that would
  put up a new prompt is left to be read before it (`SuccessIsLast`). From the
  same facts: an answer is the user's answer to the prompt its process waits at,
  not to an earlier one and not another process's (`AnswerIsOwn`); between two
  commands a process has a cookie exactly while it owes an outcome (`IdleOwes`),
  so that no process ever reports "cancelled"; and the session of a process that
  has gone has its timer running or a hang-up left to be read, unless a retry
  was reported last (`OrphanIsDue`, the safety core of `OrphanCloses`).
  `ManagerKeepsPromises` takes the manager's invariants through the refinement.
* `EventQueueProofs`: every invariant and the action property of `EventQueue`,
  for any capacity. The queue is a run of consecutive numbers, the latest ones,
  so the round that drains it gives each event to one waiter and to no other, and
  what is missing in front of it was given or lost; nobody waits while an event
  is kept, so an event that comes with a waiter finds the queue empty. The
  refinement of `EventStream` rests on the same invariant: an event that comes is
  kept, or takes the place of the oldest, or goes at once to the first waiter.
* `KeyringPrompterProofs`: three inductions, for any number of prompts. The first,
  for `TrackedIffOpen` and `PromptHasWorker`: that a prompt has a worker behind
  it needs that an unread request comes from a worker that waits on that very
  connection (`RequestHasWorker`), that the daemon's tables name open connections
  only (`EndsAreOpen`), and that a waiting worker has drawn its cookie. The
  second (`LifeInv`) shows that `PromptLife` is implemented: a request that is
  read opens a session that was never open, because a cookie names one worker
  for good (`CookiesDiffer`, `CookiesDrawn`) and has one request, unread, for a
  session that is not open (`OneSource`). The third (`WorkInv`) is the other
  half of `PromptsMatchWorkers`: no worker is left in `read_line` without a
  prompt, a request on its way or a reply to read. It needs to know who holds
  which connection (`ConnsFit`) and which replies a worker can find
  (`RepliesFit`). `NeverContinues` makes the finding `keyring_confirm` general:
  no confirmation is ever confirmed, in any instance.
* `FallbackProofs`: `Fallback` implements `ProviderRole`; its types, with those of
  the messages on the connection; and its invariants, in four inductions.
  The refinement goes step by step and needs no invariant: whatever moves the
  role recomputes it over the whole table.

  The first induction, for `ShownWhileActive` and `IdleIsHidden`, is about order
  on the connection: no session event overtakes the reply to the registration
  (`EventsFollowReply`), and a subscription never overtakes its registration
  (`SubscribeFollowsRegister`), so a client that is not registered yet, which
  would take any event for its own, has none to read; a UI that is sent events
  is one that was told of its registration (`ListenerIsTold`); and of a client
  that is gone the daemon keeps nothing it would still act upon
  (`GoneIsForgotten`, `HungUpReadsNothing`).

  The second, for `KnowsItsRole` and `NoGhostPrompt`, is about what the client
  will believe once it has read on. The last unread message that decides its
  role says who has it, or none is left and it knows (`RoleIsUnderWay`); this
  needs that a client told of its registration is still sent statuses
  (`ToldIsListed`) and that a role that can be filled is (`RoleIsFilled`), so
  that a refusal always means the shell. For the prompt, each session that is
  shown, or that an unread `session.created` will show, is open or has its end
  further down the connection (`ShownEnds`, `CreatedEnds`); a status that gives
  the role to the shell counts as an end. The case that matters is
  `closeSession`, which routes the end by the role before or after it has moved:
  when the end is routed past the fallback, the role is with the shell and a
  message that dismisses the window is under way (`ShellSilences`).

  The third, for `BusyIsAwaited`, follows what the user sent. While buttons are
  disabled, the answer is unread, or the daemon has it in hand, or it has sent
  something that enables them or ends the prompt; `BusyInv` says that one of
  these takes over where the other ends. This is the safety core of `BusyEnds`.

  The fourth, for `OpenIsShown`, is about a client that believes it has the role
  and whose window was never used since it connected (`ShowInv`): if a session
  is open, it has asked for a subscription, or a session, or the loss of the
  role, is on its way to it (`OpenIsPresented`). That a confirmation never
  arrives before the reply to the registration (`ConfirmationFollowsReply`)
  gives that the belief implies the registration. A window that was used is in
  use or counts down to its exit, which is the way out when the role is there
  and the sessions are not. This is the safety core of `SomebodySees`.

The assumptions are those named in the modules: the extra values (`NoPid`,
`NoId`, ...) are none of the ordinary ones, limits are natural numbers, and the
sets of sockets and of session ids are finite.

Not proved, only model-checked: the liveness properties `SilentIsPruned`,
`OrphanCloses` and `AnswerIsFollowedUp` of the pinentry flow, `ClosedPromptGoes` of
the keyring, `EveryRequestAnswered`, `SomebodySees` and `BusyEnds`, since fairness is
out of the prover's reach. Of four of them (`OrphanCloses`,
`EveryRequestAnswered`, `SomebodySees`, `BusyEnds`) a safety part is proved, as said
above: whatever should end has something under way that can end it.

## 5. What is not modelled

Texts, icons and layout; JSON and Assuan encodings; line framing and the message
size limit; the pattern matching over prompt texts (`fallback/prompt`), which is
pure and has unit tests; `/proc` lookups (`RequestContext.cpp`); start-up, the
command line, the bootstrap scripts; the retry counters shown with a pinentry
prompt (`resolveRetryInfo`, `PinentryManager.cpp:267-301`), which nothing decides
on, although closing one flow takes the counters of its key away from another
(340). A restart of the daemon is modelled where the keyring prompter and the
fallback see it. The wall clock is taken not to jump (the registry computes ages
from it). Where a reply is flushed to a peer that is gone and Qt raises
`disconnected` at once, further lines of the same read are still handled for
that socket (`IpcServer.cpp`, `onReadyRead`); in `EventQueue` they are not.

Simplifications in `Fallback`, each with its reason. There is no heartbeat clock:
any recomputation may find a UI silent, which is more than the code allows; the
clock is in `ProviderRegistry`. The `session.updated` that follows each replayed
`session.created` is left out, since it changes nothing that is kept. The
disconnect of a socket that is neither the fallback's nor a provider's ends with
the look for a fallback that `pruneStaleProviders` makes (`Agent.cpp:167-169`),
and is one of its steps. An answer to a keyring prompt closes the session in the
same handler (`KeyringManager.cpp:55-67`); here it is verified first, and
`SessionEnds` follows, which only adds interleavings. The lock
file lets one process run at a time, so there is one connection. Closing the
window and the quit that follows (`quitOnLastWindowClosed`) are one step, as are
the idle exit and the disconnect. A launch always yields a process. The
reconnect timer's back-off is left out: it connects some time. The user may
type, cancel and close, and need not. The window's texts and what it does with a
prompt's kind are left out.

## 6. What the runs found

* **`pinentry_reopened`**. `docs/PINENTRY_FLOW.md:9`: "`session.closed` is
  terminal and emitted once". The daemon forgets a flow when it closes it. If
  the outcome timer or the user's cancel closes a session while the process's
  next request for the same cookie is on its way, that request creates the
  session again, under the closed id.
* **`pinentry_orphan`**. `README.md:20`: "Nothing blocks, nothing hangs." A
  retry report stops the outcome timer, and until the next request arrives
  nothing refers to a connection of the process. If the process dies in
  between, no event of the daemon closes the session. `OrphanCloses`, checked in
  `pinentry_flow`, says that this is the only way. The session is left open
  likewise when the report is read late, after the answer to the next prompt,
  for as long as the process waits for its caller; what the user types then is refused
  with "Session is not accepting input" (`Agent.cpp:304-307`).
* **`pinentry_withheld`**. `docs/PINENTRY_FLOW.md:29`: "Ambiguous flows fail
  closed (error), never inferred success". An empty passphrase is given to the
  caller as "Operation cancelled", and is still reported as a success.
* **`polkit_deleted`**. The comment at `PolkitListener.cpp:69` knows that a call
  into a Session may end the request. `cancelPending` calls `cancel()` and then
  uses the state; on the last attempt a completion from within deletes it
  first. `PolkitListener` models what may follow as a choice: nothing, or a
  second finish that the allocator ends.

* **`keyring_confirm`**. `ipc-client.h:23`: "Returns TRUE if confirmed, FALSE if
  cancelled". The client compares the result with "confirmed" (307); the daemon
  says "ok" to every answer (`KeyringManager.cpp:66`). No confirmation is ever
  confirmed to gcr.

Also seen: between two commands a pinentry process has a cookie exactly when it
owes an outcome, so the "cancelled" that `finalizeOnStreamClose` would report
(126-132) is never sent (proved: `NobodyReportsCancel`). A prompt that gcr closes may stay on the screen for a
while: its cancel is refused while a UI provider is registered
(`Agent.cpp:327`), and can be read before the request it is meant for.
`ClosedPromptGoes` says what ends it then: the user, or the
inactivity timer, unless gcr goes on prompting. When the daemon hangs up before
it replies, `send_json_command` logs the message of an error that GLib does not
set at the end of a stream (`ipc-client.c:72-75`); `EndOfStream` takes the
prompter to die of it.

Of the fallback, seen while modelling it and allowed for by the properties:

* The clear of a session that ended well fires 300 ms later and takes whatever
  is shown then (`FallbackWindow.cpp:620-625`), so a session created meanwhile
  disappears. It is seen again only after the idle exit and a new launch, and
  this is how `SomebodySees` still holds.
* A session that was closed with an error stays on the screen. Submit and cancel
  then get "Unknown session" from the daemon, nothing enables the buttons again,
  and the window stays until the role moves, another session comes or it is
  closed. `BusyEnds` excepts it (`failed`). Nor does anything enable them while a
  session is verified that nobody speaks for any more (`[]Verifying`).
* The window shows the newest session only. Another one that is open is shown
  when the role comes back or the fallback starts anew.
* The idle timer starts when a session leaves the screen or the role is lost. A
  fallback that never had the role, because a shell was there first, stays,
  although `README.md:90` says "Once a provider connects, fallback auto-exits";
  so does one that has it and never gets a session.
* A fallback that the daemon pruned does not register again. It still subscribes,
  and as a subscriber gets the events whenever nobody has the role.
* The call of `setProviderActive(false)` on connecting never changes anything,
  because losing the connection has already done it.

## 7. Plan

Written, in this order: the registry (everything else asks it who may answer),
the pinentry manager and flow (the most intricate protocol), the event queue,
the polkit listener, the keyring manager and prompter, the abstract role, and
the fallback UI with the agent's side of it.

Left, in order:

1. `RetryInfo`: the counters per key, shared by flows.
2. A second subscriber in `AgentUI`, for the disconnect that a write error raises
   while `emitProviderStatus` iterates (`Agent.cpp:537`).
