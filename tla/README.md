# yunzone-infer: TLA+ models and proofs

yunzone-infer runs inference graphs for a consumer. Some nodes of a graph run in a
native sidecar process beside the server, the others on the machines of contributors
("endpoints"). The server, a Next.js process called the control plane, binds the remote
nodes to endpoints, pushes each as a task over a WebSocket, takes the completion report
and passes it to the sidecar, where a graph node is blocked waiting for it.

This directory models the parts of that program whose correctness depends on the order
of steps. Paths below are relative to the repository.

## Inventory

| Component (code) | State | Operations |
|---|---|---|
| Workflow ledger and its routes (`server/lib/workflow-ledger.ts`, `workflow-status.ts`, `app/api/infer/...`) | a record per workflow: status, endpoints, result | upload intent, submit, status queries, revocation at the end |
| Dispatch pump and task account (`server/lib/dispatch-pump.ts`, `server/instrumentation.ts`) | an entry per task: endpoint, requestId, priority, pushed, reported | the 2 s poll, markPushed, markReported, reassignment |
| Endpoint registry (`server/lib/endpoint-registry.ts`) | an entry per endpoint: capability, last heartbeat | register, heartbeat, TTL sweep with its `onExpired` callback |
| WebSocket gateway (`server/lib/ws-gateway.ts`) | one open socket per endpoint | connect, close, push |
| Completion route (`app/api/control/v1/tasks/completions/route.ts`) | none of its own | take a report, notify the sidecar |
| Client task queue (`client/daemon/src/task_queue.cpp`) | a lane per model: two tiers, revocation marks | push, pop, revoke, remaining room, shutdown |
| Client daemon (`client/daemon/src/daemon.cpp`) | running flag, consumer, sockets | dispatch and revoke messages, execute and report, heartbeat, stop |
| Sidecar workflow run (`server/sidecar/src/workflow_run.cpp`) | status, node states, pending dispatches, promises | start, completion notice, fetch, graph completion, failure |
| Ledger store (`server/lib/ledger-store.ts`) | the tables behind ledger and account | write-through, hydrate after a restart |
| Supervisor and IPC client (`sidecar-supervisor.ts`, `ipc/sidecar-client.ts`) | the child process, its port, a restart count | spawn, restart, call |
| Scheduler, inspection (`scheduler.ts`, `inspection.ts`) | none | bind groups and nodes, reject cycles, compare ports and shapes |
| Authentication, signer, contracts, pages, stand-ins | none the rest depends on | |

How they interact. The submit route binds and inspects a graph, has its URLs signed, and
asks the sidecar over loopback HTTP to start a run. A node of the run that waits for a
remote result appears in the run's `pendingDispatches`; every poll of the pump reads
those, records a new task in the account, has its URLs signed and pushes it through the
gateway. The daemon queues it, executes it, uploads the output and reports. The
completion route marks the account entry and notifies the sidecar, which fetches the
output and resolves the promise the node waits for. Status queries of the consumer move
the record along the run's status and revoke what is still in flight when it ends. A
sweep of the registry calls back into the account, which moves tasks of dead endpoints.

What is hard. The control plane is one JavaScript thread, so what matters is what runs
at an `await`: polls overlap each other and every route handler; a sweep runs inside any
call that lists endpoints. The sidecar and the daemon are multi-threaded, with checks
made under a lock and used after it. Messages and processes fail independently: a socket
closes between the test and the push, reports arrive late, twice, or from an endpoint
already replaced, notices are lost, the sidecar restarts without its runs. `PROJECT.json`
lists each hazard at its line with the properties that watch it.

What makes each part correct:
- **pump, account, registry, completion route**: a graph node hears of its task at most
  once; a task runs on a second endpoint only after the first was declared dead; a
  deferred task is retried; `pushed` means pushed;
- **queue and daemon**: revoked tasks are not executed; reported room is room kept;
  the first lane is served; the consumer lives as long as the daemon;
- **sidecar run**: promises are resolved exactly once; a completed run has its inputs;
  an end is final but for known windows; no thread waits for itself;
- **ledger**: the record only goes forward whatever order handlers resume in; an ended
  workflow leaves no run and no unrevoked task; a run's end is recorded;
- **recovery**: a restarted control plane repeats work at most, and sends again what is
  still waited for if it finds the task's entry or its workflow's record;
- **scheduler**: what is bound can serve, and bound graphs have no cross-group cycle.

## Modules

| Module | Models | Checked by | Proofs |
|---|---|---|---|
| `DispatchPump` | pump, account, registry, gateway, completion route | `pump*` | `DispatchPumpProofs` |
| `ResultDelivery` | abstract: one notice at most per task | `pump` (`DeliverySpec`) | `DispatchPumpProofs` (`Refinement`) |
| `EndpointDaemon` | task queue and the daemon's threads | `daemon*` | `EndpointDaemonProofs` |
| `WorkflowRun` | one run in the sidecar | `sidecar` | `WorkflowRunProofs` |
| `RunStatus` | abstract: the status of a run as the control plane sees it | `sidecar` (`StatusSpec`) | `WorkflowRunProofs` (`RunImplementsStatus`) |
| `WorkflowLedger` | one workflow's record, with `RunStatus` as its sidecar | `ledger*` | `WorkflowLedgerProofs` |
| `WorkflowBinding` | cycle check, binding and inspection of a submitted graph | `binding` | `WorkflowBindingProofs` |
| `LedgerRecovery` | extends `DispatchPump` by the account's table, crash and restart | `recovery` | `LedgerRecoveryProofs` |
| `SidecarSupervisor` | the child process: start, exit, restart, port | `supervisor` | `SidecarSupervisorProofs` |
| `DispatchedExecution` | extends `DispatchPump` by the sockets and the daemon behind them | `execution*` | `DispatchedExecutionProofs` |

The `MC*` modules only give constants their values.

### DispatchPump
One action per stretch between awaits. `Polls` are the invocations of
`pollSidecarDispatches` that may be under way, `pc` where each is suspended: at `ping`
(the liveness call), at `status` (one call per workflow), `signing` (the two signer
calls, merged: nothing is read or written between them), `pushed` or `deferred` (the
transport's answer is known, the continuation has not run). `pc = "loop"` marks the
synchronous stretch of the `for` loop, during which `JsFree` keeps all other JavaScript
out; the sidecar, the sockets and the clock go on. `SkipPushed`, `SkipOffline`,
`SkipNoRoom` and `Admit` are the ways an iteration of the loop goes. Calling `listAlive`
sweeps the registry, so the sweep and the reassignment it triggers (`SweepEntries`,
`AccountsAfterSweep`) are part of those actions and not actions of their own.

`stale` stands for `lastSeenMs` older than the TTL; time is otherwise abstracted.
`remaining` is the last heartbeat's room. An endpoint that reconnects replaces its
socket: it stays in `online`. Messages to a daemon are in `sent` for good; a lost one is
one that no `Report` answers, a repeated or late report is a second `Report`. While the
ledger has no endpoint for a workflow the code falls back to a default endpoint id that
never connects; `Binding` starts after that (the case is in `WorkflowLedger`).
`sent`, `notified`, `dead`, `overlapped` and `faults` are history.

### EndpointDaemon
Each queue operation holds the mutex and is one step, but `popAny`, which loops:
`consumer = "scan"` is the consumer holding it. `Accept`/`Refuse` and `Revoke` are the two
message handlers, `ReadRemaining` one lane of `capabilityJson` (the mutex is free between
lanes), `Drop` the branches that abandon a task without a report, `Stop` and
`ShutDownQueue` the main thread. A copy's `doomed` flag is history: a revocation was
handled while the copy was queued. `allowance` is the room of the last heartbeat less
what arrived since.

### WorkflowRun
A stretch under `mu_` is a step. Reads of `finalized_` outside it are a step of their own,
which is why `Notify` (the first lock of `completeNode`) is apart from `HandleError`,
`HandleNoUrl` and `HandleOutput`, and `OnTaskComplete` from `Complete`. `fetch` is the
detached thread of each accepted notice. `handler = "stuck"` is a thread waiting for the
mutex it holds; from then on no step that locks can happen (`MuFree`). `crashed` is an
exception leaving a detached thread. The engine is external: it runs nodes after `Start`
and calls `OnTaskComplete` once the output's remote inputs (`Needed`) have arrived;
local nodes only matter when one fails (`LocalFails`).

### WorkflowLedger
`record` is the status in the ledger, `Legal` the table `LEGAL_TRANSITIONS`, `Transition`
the method that ignores an illegal one. Submits stop at the signer, at the request and at
the answer; readers at the snapshot. The pump is reduced to what touches the record:
it needs the bound endpoint and marks tasks pushed. The run is a `RunStatus`, started
by `SidecarStarts` and lost in `SidecarDies`. Handlers of different workflows share
no state here, so the model has one workflow. A revocation counts as sent whether or not
a socket delivered it: the code does not look either. `disturbed` is history: two submits
overlapped, or the sidecar accepted a start and the answer did not arrive. In those two
cases the submit handler writes `failed` over a live run, and two properties except them.

### WorkflowBinding
What `SubmitBinds` and `SubmitCloses` of `WorkflowLedger` do before their await: one
synchronous call, its loops unfolded. `index`, `low`, `stack` and `call` are the maps and
stacks of the hand-unrolled search for strongly connected components in `cycleViolation`;
`Retreat` is a popped frame with everything done in that round. Then come the groups in
order (`BindGroup`), the free nodes (`BindFree`), and the inspection, which reads the
registry again (`Inspect`). The order of nodes and edges in the request is left open. Ports
keep what their comparison tells apart; a port's `type` is tensorType with typeSize, and a
malformed field a type nobody declares. An endpoint that is not alive is one that offers
nothing. Reference for the search: `Reaches`, reachability stated without an algorithm.

### LedgerRecovery
`account` is memory, `table` is `infer_task_account`, `writes` the `putTask` calls under
way: every step of the pump that changes an entry starts one (`ControlPlane`, `Persisted`),
and each lands when it likes, in any order, also after the process that started it has gone,
or fails. `Upsert` is the statement with its columns. `Crash` empties what the process
holds, `Restart` is `register`: hydrate, `resetInFlightForRecovery`, and only then attach the
store, so that the reset is not written. `kind = "memory"` is the store without
`DATABASE_URL`, whose rows die with the process. `SidecarDies` takes the runs away at any time;
from then on notices are answered 404 and no task is emitted.

The workflow ledger, which says where a task is bound, is memory too. Its rows are written as
those of tasks are; the model keeps of them only what a restart finds: `ledger` is the set of
workflows with a record that has its endpoints, all of them until a crash, and after a restart
any set of them with pg (a row that landed, did not, or an older one did) and none with
`memory` (`RecordsFound`). A task with neither an entry nor a record (`Unbound`) falls to the
default endpoint id in `pollSidecarDispatches` and is passed over in every poll
(`SkipUnbound`). A task with an entry keeps the entry's endpoint. `resent`, `durable`,
`answered` and `forgotten` are history.

### SidecarSupervisor
A call (`Start`, `Stop`), an event of a child (`Data`, `Exit`) and a timer (`Timer`) are the
steps of the JavaScript thread; `Listen` and `Die` are the child's. Children are numbered in
the order they are spawned. `port` is what the supervisor believes, `asked` what a child was
told, `bound` what it got: with `SIDECAR_PORT=0` the first child chooses and every later one is
asked for the port that was read. The listening line reaches the parser whole or in pieces.

### DispatchedExecution
The two ends of a WebSocket are apart: `link` is the socket the client receives on, `current`
the gateway's map, `open` the sockets it takes for open, `closing` those whose close event is
still to come. `Dial` is an upgrade, with the replacement of an older socket; `Break` and
`DaemonDies` leave one, `PeerGone` and `CloseEvent` are how the gateway learns of it.
`online` of `DispatchPump` follows from these (`GatewayView`).

A push puts its message on the socket the gateway has (`Written`); what the client has left
is lost. `wire` is in order, as a socket is: the daemon handles what the server wrote in the
order it was written. `EndSeen` is the status query that sees a run's end: the record is
terminal from then on (`ended`), and what is pushed and not reported is revoked on the sockets
of its endpoints. Of `EndpointDaemon` the queue's limit, the marks and the consumer are kept:
`Take` executes one task and skips marked copies on its way (`Skips`); `ConsumerEnds` is
`popAny` answering false because all that was queued was marked, after which `consumeLoop` is
over (`exited`) while the daemon goes on receiving and sending heartbeats. Which of two
copies comes first is left open, lanes and tiers being `EndpointDaemon`'s matter.

## Runs

| Run | Bounds | Shows |
|---|---|---|
| `pump` | 2 endpoints, 1 task, 2 polls, room 0..1, 2 faults | 4 invariants, `RebindOnlyOnExpiry`, `DeferredIsRetried`, `DeliverySpec` |
| `daemon` | 2 lanes (depth 2 and 1), 4 tasks, one without a lane, 1 revocable | queue and daemon properties |
| `sidecar` | 3 remote nodes, 2 of them needed, 1 notice each, every kind | 5 safety properties, 2 of liveness |
| `binding` | all 64 graphs of 3 nodes, 5 groupings, 4 sets of intents, 4 registries of 2 endpoints | 5 invariants, `RequestAnswered` |
| `ledger` | 2 submits, 2 readers, 1 task, 1 sidecar crash | 3 invariants, `RecordGoesForward`, `EndedRunIsRecorded` |
| `recovery` | 1 endpoint, 1 task, 1 poll, 1 fault, 1 crash, both stores | types, `NoticeRepeatedOnlyAfterLostReport`, `WaitingIsSentAgain` |
| `supervisor` | 2 ports, 2 restarts, 5 children | `LivingIsChild`, `KeepsAChild`, `PortBecomesKnown` |
| `execution` | 1 endpoint, a lane for 2 tasks, 2 workflows of 1 task each, 1 poll, 1 fault | types, `LiveSocketIsCurrent`, `ComesBackOnline`, `SettledUnlessGivenUp` |

Why the bounds suffice. Moving a task needs two endpoints, moving it back the same two;
two polls show every overlap of a stale poll with a fresh one, and tasks meet only in the
registry, whose room is not debited, so one task shows what one task can suffer. A fault is
an expiry, a disconnection, a failed call or a lost notice; two give a death followed by
another failure. The safety results of `pump` are proved for all bounds besides. In
`daemon` a depth of two lets a task be queued twice and a revoked copy sit in front of
another; the second lane shows the lane order. In `sidecar` two needed nodes and one beside
them give every order of notices, failures and completion; one notice per node is what
theorem `NotifiedOnce` grants. In `ledger` two of each handler are the least that can resume
out of order. In `binding` three nodes give every kind of component and cross edge
(self-loops make components of one node, which nothing can split), and the registries a
best endpoint that cannot serve, one that can serve only part, and none. In `recovery` one
entry has at most four writes, all of them may be under way at the crash, and a second
crash would find the table in a state a first one finds too; moving a task is the business of
`pump`. In `supervisor` two restarts make the first, a middle and the last exit; more
children than restarts allow show that a sixth is not spawned. In `execution` the two workflows on
one endpoint are what it takes for the end of one to meet the other's task: behind a revoked
one in the queue, in hand, or still on the socket. One fault breaks a socket or ends a daemon;
`LiveSocketIsCurrent` is proved for any number, and `SettledUnlessGivenUp` promises nothing after
the first. A lane for both tasks keeps copies together in the queue; the full queue is
`execution_refused`, whose lane takes one. Deadlock is checked in `pump`,
`recovery` and `execution*`; elsewhere a daemon stops, a run ends, a workflow is over, a
call returns, a stopped supervisor does nothing.

The other runs each check one statement the repository makes about itself and which the
code does not keep:

| Run | Statement | What happens |
|---|---|---|
| `pump_overlap` | `pushed` means the push succeeded (`dispatch-pump.ts:39`) | ticks overlap; a poll resumes after a sweep moved its task and marks the new binding pushed; nobody pushes it |
| `daemon_exit` | `popAny` returns false only on shutdown (`task_queue.hpp:44`, `daemon.cpp:181`) | all queued copies revoked: it returns false and the consumer thread ends |
| `execution_refused` | a dispatch the queue refuses is covered by a re-dispatch (`daemon.cpp:168`) | the endpoint goes on sending heartbeats, so nothing re-dispatches; the node waits for ever |
| `ledger_binding` | only a graph without remote nodes has no endpoint (`workflow-ledger.ts:24`) | a status query gets to `dispatching` first; the submit's own transition, with the endpoints, is refused |

Where a property holds but for such a defect, the passing run checks it with the exception
spelled out (`PushedMeansSentWithoutOverlap`, `GroupedCyclesStayTogether`, `RevokedCopyNotStartedIfUnique`,
`SettledUnlessGivenUp`, `Unbound` in `WaitingIsSentAgain`, `~MuFree`, `disturbed`, a line in `pieces`), so that the exception is
known to be the only one. Three of these exceptions are themselves at odds with a comment:
`~MuFree` (a notice with neither error nor `outputUri` makes its handler lock a mutex it
holds, `workflow_run.cpp:251`), `RevokedCopyNotStartedIfUnique` (`task_queue.hpp:44`), and
`GroupedCyclesStayTogether` (`scheduler.ts:43` speaks of all remote nodes of a cycle). Four more
statements the models show untrue have no run of their own:
- the compensation priority never reaches the wire (`dispatch-pump.ts:244`);
- a task without an alternative is not retried by a later sweep (`dispatch-pump.ts:292`);
- what a crash loses of the last writes does not always converge (`ledger-store.ts:5`): a task
  that is `Unbound` after the restart is passed over for ever, with either store;
- a revoked task is not always skipped for the next one (`client/DESIGN.md:69`): what `daemon_exit`
  shows in the daemon alone stops the tasks of other workflows in `DispatchedExecution`. They are
  accepted, stay pushed, the endpoint does not expire, and nobody executes them; hence
  `exited` in `SettledUnlessGivenUp`.

Every property of a passing run has a mutant in `PROJECT.json`: a variant of one definition,
kept beside it in the module, that a plausible mistake in the code would give, and under
which the property fails.

## Fairness

- `DispatchPump`: the timer fires and a started poll goes on (`setInterval` is never
  cleared, the event loop runs every ready continuation, each call has an answer or an
  error). Endpoints, reports and the sidecar owe nothing. `DeferredIsRetried` rests on it.
- `EndpointDaemon`: the consumer thread runs and its calls return (each has a timeout).
  Nothing is assumed of the server; `FirstLaneServed` says nothing of other lanes,
  which the code lets starve.
- `WorkflowRun`: threads run, fetches and uploads return, the engine calls back. Nobody
  has to send a notice.
- `WorkflowBinding`: a synchronous call runs on.
- `LedgerRecovery`: as `DispatchPump`, and a crashed control plane is started again. Writes
  owe nothing, nor does a restart owe a workflow's record.
- `SidecarSupervisor`: events and timers that are due are delivered. Children owe nothing.
- `DispatchedExecution`: besides the polls, a daemon that has ended is started again, dials,
  receives, executes and sends heartbeats. `PopAny` owes a step only until the consumer has
  ended: `ConsumerEnds` is one of its ways to go. No status query need come. Requests and upgrades are served between two
  synchronous stretches of a poll, so they are enabled again and again and not for good:
  strong fairness, which is what the queue of the event loop gives.
- `WorkflowLedger`: a handler's awaits end, and the consumer keeps asking until the
  workflow is over; a record that nobody asks about does not move.

## Proofs

Eight modules of proofs, each for every value of its module's constants, from the named
assumptions those declare and nothing else. Every invariant, every action property and both
refinements that the runs check are theorems. Each inductive invariant was checked as an
invariant of its component's run before it was proved.

### The pump
`DispatchPumpProofs` proves, for any endpoints, models, tasks, workflows and polls (the sets
of endpoints and polls finite) and under `ConstantsAssumption` alone:

| Theorem | States |
|---|---|
| `TypeCorrect` | `TypeOK` |
| `NotifiedOnce` | the sidecar hears of a task at most once |
| `SecondExecutor` | another executor only after the first died |
| `RequestIds` | a requestId names the endpoint it is kept with |
| `PushedMeansSentSerially` | `pushed` is true to its comment while ticks do not overlap |
| `Rebinding` | a task moves only in flight, off an expiring endpoint, to one with room |
| `Refinement` | `Spec` implements `ResultDelivery` |

None of the invariants is inductive alone. `IInv` adds:
- `HeldSound`, `SentSound`: what a poll holds across an await, and what was sent, names a
  recorded task, carries its endpoint's requestId, and goes to the endpoint the task is
  bound to unless that has died. The first is needed because a sweep can move the task while
  the poll is suspended; the endpoint it then pushes to is dead.
- `EntryIds`: the same for account entries.
- `OneNotice`: an unreported task has no notice anywhere, one on its way is the first and
  only one. `NotifiedAtMostOnce` alone would let a second one be under way.
- `Serial`: without overlap there is one poll and what it holds is unpushed and still
  bound to the endpoint it was read with. (No sweep can move it: only pushed tasks move.)

The proof goes through one lemma about a single account entry: `EntryStepLemma` says that
any step leaves it alone, creates it, moves it off an expiring endpoint, marks it pushed
(only `Resume`) or marks it reported. Each conjunct of `IInv` then needs only those five
cases and the actions that touch its other variables. `Rebinding` and `Refinement` follow from
the same lemma.

### The recovery
`LedgerRecoveryProofs` proves `RecoveryTypeCorrect` (`RecoveryTypeOK`) and `NoticeRepeated`
(`NoticeRepeatedOnlyAfterLostReport`), for either store and any number of crashes. `IInv` does
not survive a crash: messages in `sent` then name tasks without an entry. So the lemmas of
`DispatchPumpProofs` about the account and the types assume only `Base` (types, and that a
suspended poll holds a recorded task), and both invariants build on them. `RInv` adds:
- `DurableInTable`: a row whose last write says `reported` does say so;
- `AnsweredKnown`: what a crash found reported is reported after the restart, or forgotten;
- `NoticesCounted`: who has heard of a task was told by a report that the account or a crash
  has seen, and there is one notice until it is forgotten;
- `NothingLeft`: no poll and no entry while the control plane is down, so that a restart
  takes nothing away.

A first report after a restart can only be a second one if the crash had seen the first:
`AnsweredKnown` then makes the task a forgotten one.

### The ledger
`WorkflowLedgerProofs` proves `TypeCorrect`, `GoesForward` (`RecordGoesForward`),
`ClosedHasNoLiveRun` and `EndRevokes` (`EndRevokesInFlight`), for any submits, readers, tasks
and crashes of the sidecar. The two invariants are about the end of a workflow; what makes
them inductive is about its beginning:
- `WaitingSubmitOwnsRecord`: one submit at a time is under way, and until its start is
  accepted the record is `registered`;
- `NothingBeforeStart`: until then there is no run, no snapshot of one and no task;
- `EndSeenIsEnd`: a run a reader was told had ended is not under way again.

All of them hold while `disturbed` is false. `LegalForward` goes through the transition
table state by state, those included that the code never enters.

### The supervisor
`SidecarSupervisorProofs` proves `TypeCorrect` and `OneSidecar` (`LivingIsChild`) for any
ports, restarts and children. `ExitsAreOfChild` is the strengthening: until the supervisor is
stopped an exit event still to come is that of `child`, so that handling it, which forgets
`child`, forgets a dead one. `Counted` bounds the timers by the restarts.

### The run
`WorkflowRunProofs`, for any remote nodes, any part of them the output depends on and any
number of notices:

| Theorem | States |
|---|---|
| `RunTypes` | `TypeOK` |
| `RunCompletesWithInputs` | a completed run has its inputs |
| `RunResolvesOnce` | one notice per node resolves no promise twice |
| `RunOutcomeWindows` | an end changes only in the two known windows (an action property) |
| `RunImplementsStatus` | `Spec` implements `RunStatus` |

`DeliveredIsResolved` carries `OutputReady` through the upload: the status says `completed`
long after the inputs were looked at. `OneResolver` follows a node's one notice from
the handler's first lock to the fetch thread's last write, with the promise empty all the
way: `~crashed` alone would allow two of them to be on their way. The refinement
needs `FinalizedIsEnd`: `fail` tests `finalized_` where `RunStatus` speaks of the status.

### The daemon
`EndpointDaemonProofs` proves `DaemonTypes` (`TypeOK`), `DaemonSkipsRevoked`
(`RevokedCopyNotStartedIfUnique`) and `DaemonKeepsRoom` (`RefusedOnlyOnOvercommit`), for any
lanes with any limits in any order. The strengthenings:
- `PromisedIsFree`: what a lane has queued and what the last heartbeat still promises stay
  within the lane's depth, so that a promised dispatch fits;
- `UniqueAreMarked`: a mark is taken off a lane with one popped copy. While every task has
  one copy in the two queues of a lane, each doomed copy therefore has a mark of its own. This is
  where the property fails without its condition: two copies share a mark.

### The execution
`DispatchedExecutionProofs` proves about the pump composed with sockets and daemons:

| Theorem | States |
|---|---|
| `ExecutionTypes` | `ExecutionTypeOK` |
| `ExecutionSocket` | `LiveSocketIsCurrent` |
| `ExecutionKeepsPump` | four invariants of the pump hold in the composition |
| `ExecutionTwiceOnlyAfterDeath` | two daemons have one task in hand only if one of them was declared dead |

Each step is a step of the pump or leaves the pump's state alone but for `online`
(`OnlineIsApart`), so `IInv` of `DispatchPumpProofs` is used as it stands. `SessionInv` adds
that sockets are numbered in the order of their upgrades and that an open one is the
gateway's entry; a late close of an older socket then cannot name it. `DaemonInv` adds that
every dispatch on a wire, and whatever is queued or in hand, was sent to that endpoint
(`WireWasSent`, `CopiesWereSent`): the last
theorem is the pump's `SecondExecutorOnlyAfterDeath` carried over to what the daemons hold.

### The binding
`WorkflowBindingProofs`, for any finite sets of names and endpoints, any requests over them
and any registries:

| Theorem | States |
|---|---|
| `BindingTypes` | `TypeOK`: no node gets a number past the last |
| `SearchFindsComponents` | `ComponentsAreStrong`: the search is right on every finite graph |
| `CyclesStayTogether` | nodes on a common cycle, each in one group, share an endpoint |
| `BoundNodesAreServed` | what passes the binding can be served where it is bound |
| `InspectionAgrees` | the inspection refuses it only when an endpoint in use expired |

The search is Tarjan's; `SearchInv` is what makes it right:
- `VisitedSplits`, `Numbered`, `StackInOrder`, `CallInOrder`: visited nodes are on the stack or
  in a component, and both stacks are in the order of the numbers;
- `SuccessorsSeen`: an unvisited successor is one a call will still look at;
- `CallReaches`, `ReachesCall`: a call's node reaches what is above it on the stack, and
  what is on the stack reaches a call below it;
- `LowIsReached`: a low is the number of a node on the stack that is reached;
- `LowIsLowest`: no edge already looked at leads from a call's part of the stack below its low;
- `FoundIsClosed`, `FoundIsStrong`: no edge leads out of the components, and each is a class
  of mutual reachability.

There is one lemma per conjunct for each of the three kinds of step: a node is visited
(`Visits`), a visited one is looked at (`Look...`), a call returns (`Return...`). When a root
returns, `AboveIsClosed` (from `LowIsLowest`: its low is its own number) and `CallReaches` /
`ReachesCall` make what it takes off the stack its class (`AboveIsStrong`). `Reaches` is
stated with closed sets, so that it is reflexive and transitive without an induction.

`Picked` takes the first of the endpoints that serve. That there is a first is `FirstExists`:
of finitely many endpoints take one with the fewest that come before it. The sum over an
endpoint's models is a fold, about which nothing can be proved without induction over
data; that it is a natural number is part of `ConstantsAssumption` (`RoomOf`), where TLC
evaluates it for the registries of the run. For the bound nodes `BoundNodes` is kept
by a later group that moves a node: it is moved to where it can be served too. `GroupsTogether`
is kept because a node in one group is in no group bound later.

### Only model-checked
Every liveness property: liveness under fairness is outside what the prover does. These are
`DeferredIsRetried`, `FirstLaneServed`, `AcceptedNoticeWakesNode`, `NotifiedRunEnds`,
`EndedRunIsRecorded`, `RequestAnswered` (that the search ends), `WaitingIsSentAgain`,
`KeepsAChild`, `PortBecomesKnown`, `ComesBackOnline` and `SettledUnlessGivenUp`.

## Not modelled

- Authentication, the signer's text, HTTP and WebSocket framing, stored bytes, the engine,
  contract generation and the pages: they let a step through, fail it or show it.
- Building a graph from JSON in the sidecar (`graph_builder.cpp`) beyond failing or not,
  and the map of runs: handlers hold its mutex across `completeNode`, which is why `WorkflowRun`
  has one handler.
- Shelf life of finished workflows; listing; the signed URLs' expiry (a fetch that fails,
  `Abort`, stands for it).
- The writes of workflow records one by one: `LedgerRecovery` has what a restart can find of
  them, `WorkflowLedger` what happens to a record while the process lives. A hydrated status is
  not followed further: a restart leaves the runs to the sidecar.
- Two control planes on one database; two daemons with one id.
- Status queries that overlap and revoke twice, in `DispatchedExecution`: `WorkflowLedger` has them.
- A null element in a submitted `edges` array, at which `cycleViolation` throws
  (`scheduler.ts:133`): the call ends in an error answer before anything is bound. The graphs of
  `WorkflowBinding` have edges between names.
- Where a group of `WorkflowBinding` ends up when it shares a node with another one: the later
  group moves the node, one of the hazards no property covers.
- Object keys (`planObjectKeys`, `remoteInputBindings`), which are text; two intents for one
  node id.

## Plan

1. Proofs: what is left are facts behind the liveness properties that are safety, such as
   a measure the search decreases with every step (`RequestAnswered`), or that an entry waiting
   in the account is always one that a poll will look at (`DeferredIsRetried`).
2. The writes of workflow records in a module of their own, with the submit of
   `WorkflowLedger`: when exactly a record is lost or goes back while its tasks are not. Added to
   `LedgerRecovery`, which has only the outcome, they multiply its states by more than eight.
