# Formal model of the Codex inter-agent messaging bridge

This directory holds TLA+ modules that model the bridge, the TLC configurations
that check them, and proofs checked by TLAPS. `src/` is the repository; paths
like `scheduler.ts:142` are below `src/src/` unless said otherwise.

## The system

Codex agents are threads of one app-server process. A human talks to them, and
they talk to each other through the bridge: each task that uses the bridge has an
MCP process of its own, bound to one agent. All MCP processes of a user share one
SQLite database and one app-server host.

| Part | State | Operations | Talks to |
|---|---|---|---|
| Delivery scheduler (`messaging/scheduler.ts`) | one loop `#run` per scheduled message; a semaphore of delivery permits | schedule, recover, poll, claim, reconcile, resume, dispatch, collect, settle, retry | database (rows, leases), app-server (`thread/read`, `thread/resume`, `turn/start`) |
| Message store (`store/repositories.ts`) | tables messages, dependency_edges, delivery_attempts | create, transition, scheduleRetry, failTerminal, deadLetter, queueHead, startAttempt, inbox, acknowledge | SQLite transactions |
| Recipient leases (`store/repositories.ts`) | table recipient_leases, one row per thread generation | acquire, renew, release, expiry | schedulers of all processes |
| Synchronous service (`messaging/service.ts`) | none of its own | ask (validate, idempotency, queue depth, cycle check, create, wait), status | store, scheduler |
| Asynchronous service (`messaging/async_service.ts`) | none of its own | send, reply, inbox, acknowledge | store, scheduler |
| Groups (`store/groups.ts`, `messaging/group_service.ts`) | groups, members, group messages, a sequence of deliveries per recipient | create, add, remove, pause, resume, delete, send, retry | store, scheduler, operator |
| Agent registry (`store/repositories.ts`, `cli/admin_service.ts`) | agents and their thread generations, owner binding | register, pause, resume, replace, adopt | operator |
| App-server client (`app_server/client.ts`, `event_router.ts`, `turn_collector.ts`) | connection, pending requests by id, history of events, collectors | connect, request, answer, timeout, disconnect, dispatch, collect | WebSocket to the app-server, the scheduler's permits |
| Host bootstrap (`app_server/bootstrap.ts`, `bootstrap_lock.ts`, `descriptor.ts`) | lock file, descriptor file | acquire lock, recover a stale lock, start a host, publish the descriptor | file system, processes |
| Host control (`app_server/control.ts`, `host.ts`, `main.ts`) | registered clients, shutdown state | register, renew, drop, shut down | MCP processes, app-server |

What is hard in it: loops of several processes work on one recipient and await
between almost any two statements, so everything one of them read may be stale when
it is used; a process may die between any two statements; the answer to
`turn/start` may be lost or late, and the same message must not become a second
turn; a lease may run out while its holder waits; rows are settled by whoever
learns of an outcome first; several processes start at once and must share a host.

What makes each part correct:

- scheduler, store and leases: one sender per thread, FIFO per recipient
  generation, no second turn for a message, one final outcome, every accepted
  message gets an outcome, "completed" only after a turn of the recipient;
- admission: one record per idempotency key, bounded queues, no cycle of waiting
  asks;
- groups: a group message goes to the members of its group, a recipient has one
  delivery of it at a time and none after a successful one, a sender has one
  message per key, a deleted group stays deleted;
- registry: an agent's record and its latest generation agree, and no thread serves
  two generations, whatever commands of operators interleave;
- client and collector: an answer reaches the request it belongs to, a collected
  turn has all its items, permits are counted right, every delivery ends;
- bootstrap: one holder of the lock, one app-server, a living owner is left alone
  and the way to it is kept, a lock outlives its call only through a death or an error
  of the lock file, and every call ends.

The hazards of each part, at their lines, are listed in `PROJECT.json`.

## Modules

| Module | What it is |
|---|---|
| `DeliveryScheduler` | the delivery of messages by several processes: scheduler, message rows, leases, and what they see of the app-server, of process deaths and of the operator |
| `DeliveryPromise` | the abstract specification: mailboxes, outcomes and copies, no processes, leases, retries or database |
| `MessageRows` | the abstract specification of the tables that the components share: rows are inserted and finished once, edges closed |
| `DeliveryProperties` | type invariant, safety, action and liveness properties, the inductive invariant, the refinement of `DeliveryPromise`, and statements of the documents that the code does not keep |
| `MCDelivery` | instances for TLC |
| `DeliveryProofs` | the theorems about delivery and their proofs |
| `DeliveryOutcomeProofs` | what the outcome of a message says about its turns, its edge and its attempts |
| `DeliveryRefinementProofs` | that the scheduler implements `DeliveryPromise` and `MessageRows` |
| `Admission` | how calls of several processes become message rows: idempotency, queue depth, cycle check, insertion, and the edges that the scheduler closes |
| `AdmissionProperties`, `MCAdmission`, `AdmissionProofs` | its properties, its instance for TLC, its theorems |
| `HostBootstrap` | how processes find or start the host of the app-server: bootstrap lock, descriptor, recovery of dead hosts, and the life of a host |
| `HostBootstrapProperties`, `MCBootstrap`, `HostBootstrapProofs` | its properties and inductive invariant, its instance for TLC, its theorems |
| `AgentRegistry` | agents and their generations, and the commands of operators that change them in several steps |
| `AgentRegistryProperties`, `AgentRegistryProofs` | its properties and theorems; it is run by TLC as part of `GroupMessaging` |
| `GroupMessaging` | groups, members, and the calls that send and retry group messages, composed with `AgentRegistry` |
| `GroupPromise` | the abstract specification of group messages: accepted whole or not at all, once per key, and each recipient's delivery decided on its own |
| `GroupMessagingProperties`, `MCGroups`, `GroupMessagingProofs` | its properties, its instance for TLC, its theorems, also those of the registry in the composition |
| `AppServerClient` | the connection of one process to the app-server, request ids, events and collectors, and the permits of the deliveries that use it |
| `AppServerClientProperties`, `MCClient`, `AppServerClientProofs` | its properties, its instance for TLC, its theorems |

`Admission` ends where `DeliveryScheduler` begins: its `Insert` is the other's
`Submit`, its `Complete`, `FailOrRecover` and `CloseDependency` are what the other's
loops do to a row and its edge. `GroupMessaging` ends there too: a delivery of it is a
message row without an edge, and `Settle` is all that a loop does to one. Each
abstracts the other to what it does to the rows, and `MessageRows` says what that is:
all three implement it (`KeepsRows`), so that what one of them takes for granted of
the rows the others do. `AppServerClient` is the other end of a loop: what
`DeliveryScheduler` takes for an answer, an error or a silence of the app-server is
made there of frames, timers and the end of the socket, and the wait for a permit,
of any length there, is the semaphore here.

### DeliveryScheduler and the code

| Variable | Code |
|---|---|
| `status, attempts, code, backoff, expired, generation` | columns of a message row: status, attempt_count, error_code, next_attempt_at in the future, expires_at passed, recipient_generation; `"absent"` before the row exists |
| `edge` | an active row in dependency_edges |
| `current, ready` | agents: generation, and status active with accepts_messages |
| `lease` | recipient_leases: `Free`, a loop `<<p, m>>` whose token it carries, or `Orphan` when that loop died with its process |
| `up, deaths, recovered` | the MCP processes; the loops that `MessagingService.start` scheduled, whose rejections nobody handles |
| `pc, err, mine` | the position of a loop in `#run`, the exception in its catch clause, and the turn whose id `turn/start` returned |
| `turns, wire, lateStarts` | the turns whose user message carries the message id, in the order `thread/read` returns them; requests the sender gave up that the app-server may still serve; how many of those became turns |

An action is one SQL statement or transaction with the synchronous code up to the
next statement, or one answer of the app-server. Inside a process a loop that is
between two statements without an `await` (`Synchronous`) keeps the other loops of
its process from running; other processes interleave everywhere. Reads that follow
each other without a write in between are taken together: the checks at the head
of the loop are one action each (`PollFinished`, `PollExpired`, `PollStale`,
`PollDue`), and `Claim` includes the re-read of the row behind it. A wait that
nothing can disturb is no action: `PollDue` is simply disabled while a message
waits for the head of its queue or for its backoff.

How `#run` maps: 99-141 the Poll actions; 142-151 Claim, ClaimRefused; 157-165 and
349-399 the Reconcile actions and Recover; 168-181 ResumeIdle, ResumeBusy; 182-195
Renew; 196-199 MarkDispatching, StartAttempt; 200-217 TurnStarts, TurnRefused,
StartUnanswered, AnswerLost; 218-243 MarkRunning, TurnUnsuccessful, MarkCompleted,
TurnTimesOut, CloseDependency; 252-293 Decide, FailDelivery, Postpone, Requeue and
Release.

The environment: `Crash` and `UnhandledRejection` end a process and all its loops;
`Start` is `MessagingService.start` of a new one; `LeaseExpires`, `BackoffElapses`
and `TtlElapses` are the clocks; `Pause`, `Resume` and `Replace` are the operator;
`TurnEnds` and `LateTurnStarts` are the app-server.

### Admission and the code

| Variable | Code |
|---|---|
| `messages` | the rows: sender, recipient, text, idempotency key, expects_reply, and whether the row is finished |
| `waiting` | the messages whose row in dependency_edges is active |
| `pc, call` | how far a process is with the call it handles |
| `answered` | the record behind the result of the last step, if that was an answer |
| `overlapped` | history: the waiting asks that were inserted while another process stood between the cycle check and the insertion of its own ask (`Inserting`) |

`ask` (`service.ts:100-150`) is `Lookup` (the idempotency key), `Count` (the queue),
`CheckCycle` and `Create`; `send` and `reply` (`async_service.ts:127-184`) are the
same without the cycle check, with the difference that only `send` looks at the kind
of the record it finds. Each is one SQL statement or transaction; nothing is awaited
in between, so a process is in one call at a time, and other processes run between
any two. `Create` is the transaction of `MessageRepository.create` with its
`ON CONFLICT` clause. `WouldCreateCycle` is the recursive query, written as the
smallest set closed under the edges. MCP callers cannot pass a call chain, so it is
the sender alone. A finished row is finished: which outcome it has makes no
difference to admission. Rejections that depend on the call alone (unknown, paused
or forbidden recipients, sizes) end a call before `Lookup` and are left out; so are
broadcasts, which create rows through the same transaction.

### HostBootstrap and the code

A *call* is one run of `ensureHostRunning`. It launches at most one host, so hosts,
nonces and lock records carry the number of the call they stem from.

| Variable | Code |
|---|---|
| `pc` | how far a call is: probing, waiting for the lock (`Waiting`), or between the creation of the lock file and its release (`Holding`) |
| `seen` | the descriptor that a probe or a recovery has read and still works with |
| `owner` | the nonce a waiting call read from a stale lock |
| `lock, blank` | the lock file: which call created it; whether its record is still to be written |
| `descriptor, taken, shed` | the descriptor file, and the private names under which a recovering call or a stopping host has it while it looks whose it is |
| `host, server` | the phases of `runHost`, and whether the app-server child runs |
| `begun, aged, due` | time, see below |
| `deaths` | processes killed so far |
| `mishaps` | history: a lock was removed as stale; a call gave up a host that was still starting; a host died between the start of its app-server and its descriptor |

An action is one file system operation, one request to a host, or one process
operation. The descriptor probe is two steps (`ReadDescriptor`, `AskHost`) in each
of its four places (first probe, `validateOwner`, after the lock, while waiting);
`removeIfNonceMatches` is two (`CompareNonce`, `RemoveStaleLock`; `CompareOwnNonce`,
`RemoveOwnLock`); `removeHostDescriptorIfOwned` is two (`Claim...`, `Settle...`):
the claimed file belongs to the claimer, so that reading and deleting it or linking it
back is one step. `recoverStaleManagedHost` is `ReadStaleHost`, `TerminateOrphan` or
`TerminationFails`, and the removal. `ReadStaleHost` takes the read of the descriptor
and the look for its process as one step, because a process that died in between
stays dead. A host goes from launched to starting (`SpawnServer`), to ready (`Publish`)
or to its end (`HostFails`), and from ready through `Shutdown`, `StopServer`,
`ClaimOwnDescriptor` and `SettleOwnDescriptor` to gone: app-server first, descriptor
last (`main.ts:140-148`). A host that cannot write its descriptor stops its app-server
(`PublishFails`) and goes through the same removal, which may find a descriptor of
another host.

Errors of the file system. A call ends in `done`, in `failed` if the file system
refused an operation on the lock file, or in `dead`. `LockFileFails` is that error at
each place where the lock file is created, written, compared or unlinked. It ends the
call at once. At `record` it is the failed `writeFile` or `sync` of `createExclusive`
(`bootstrap_lock.ts:90-97`): `acquireBootstrapLock` throws it again (line 301), the
`try ... finally` of `bootstrap.ts:453-504` is never entered, and the file stays, blank
or with its record. `UnpublishFails` is an error of the rename, or of what follows it,
in the removal of a stale descriptor: the file is linked back and the lock released.

Time. `ensureHostRunning` passes one value, `startupTimeoutMs`, for the time a call
may wait, for the age at which a lock is stale, and for the wait for the own host;
and a lock record is dated from when its writer began to wait
(`bootstrap_lock.ts:258-263`). So one order is enough: calls are numbered as they
begin, `aged` is the number of calls that began longer ago than `startupTimeoutMs`,
and `Tick` ages the next one. The wait for the own host ends after those have aged
that began before the launch (`due`) and before any other has. The first probe is
counted as part of the wait, which begins just after it in the code.

Assumed: `BridgeHost.stop` ends the app-server: it gives up waiting after SIGKILL
(`host.ts:131-144`), which no process survives for long; an app-server that runs
accepts a connection within the timeout of a probe, and so does the control server
of a ready host; a live host can take any time for each of its steps; process ids
are not used again while a descriptor names them; the listening port is the default
0, so that a second host does not fail for its port. Not modelled: incompatible
versions, bad signatures, wrong or missing tokens and errors of reading a descriptor
(each ends a call: with the lock released as in `LaunchFails` under the lock, and
without touching the lock before it), errors of the link that restores a descriptor,
or of a host's removal of its own (the file then keeps its private name, as after a
death), corrupt descriptors (they are never written here), and hosts started by
hand.

### AgentRegistry and the code

| Variable | Code |
|---|---|
| `agents` | rows of agents: thread, generation, status, owner binding |
| `generations` | rows of agent_thread_generations, by agent and generation |
| `intent` | what a command has read, and is about to write after its next await or statement |
| `raced` | history: agents whose status was written by a `setStatus` that had read another status or generation |
| `operations` | bound: operations begun in a run |

Each command of `AdminService` is a process of its own. `Register` is one
transaction behind the verification of the thread. `ReadStatus` and `WriteStatus` are
`setStatus` (`repositories.ts:181`): the check of the transition, and the transaction
that updates whatever record there is by then, and the row of the generation it has
read. `ReadReplaced` and `Replace` are the command `replace`, which awaits the
verification of the new thread in between, and compares the expected generation
within its transaction; `ReadAdopted` and `AdoptOwner` are `adoptOwner` with
`bindCurrentOwner`. `GivesUp` is a verification that fails, or a command that is
interrupted. `Unused` is the unique index on the thread. `accepts_messages` is no
variable, because every statement sets it together with the status.

### GroupMessaging and the code

| Variable | Code |
|---|---|
| `groups, members` | rows of groups and group_members |
| `groupIntent` | a status command between its read and its update |
| `groupMessages` | rows of group_messages: group, sender, key, snapshot |
| `deliveries` | rows of group_deliveries with the state of their message, by recipient, in the order of `sequence` |
| `pc, draft` | how far a process is in `send` or `retry`, and what it has read |
| `stale` | history: the processes in whose call a command changed the group |

`send` (`group_service.ts:84`) is a chain of statements: `Send` (the caller is an
available agent), `ReadGroup`, `ReadCaller`, `FindDuplicate`, `ReadMembers`,
`CheckRecipient` and `CheckQueue` for each recipient, and `Create`, one transaction
that inserts the message and all deliveries or, by the unique index on sender and
key, nothing. The service is synchronous: a process is in one call, operators and
other processes run between any two statements. `Retry` is the read of the message,
`RetryDeliveries` the transaction. Commands on members are one statement or
transaction each, those on the status two statements.

`failed` stands for `failed` and `dead_letter`, which `retry` treats alike. A
delivery that expires is a row `failed` too, and only its report says `expired`; so
it can be retried. Queue depth counts deliveries of groups only. Access control
lists refuse a call before anything else and are left out.

### AppServerClient and the code

| Variable | Code |
|---|---|
| `link, failures` | state of `AppServerClient`, and the attempts of `connect` |
| `nextId, pending` | the id allocator, and the map of requests that wait |
| `made, wire` | requests by number, and those the app-server has not answered |
| `turns` | by `turn/start`: what was received of its turn |
| `sequence, history` | the counter and the history of the event router |
| `pc, turn` | where a delivery is, and its collector: checkpoint, items, end |
| `active, waiters` | `#activeDeliveries` and `#permitWaiters` of the scheduler |
| `overtaken` | history: permits taken while a waiter was resumed and had not counted itself |
| `burst` | whether the last step was a frame, so that the next frame may be of the same chunk |

Node runs one callback at a time, and everything that is ready before the next
event. So steps are events (`Event`: a timer, the end of the socket, a call of the
scheduler), frames (`Frame`) and continuations (`Continuation`); events wait for the
continuations (`Quiet`), but the frames that `ws` takes from one chunk are handed
over one after the other, before any continuation. That is where an item of a turn
comes after the answer to `turn/start` and before its collector subscribes.

A delivery is `Ask` (`thread/read` or `thread/resume`), `Acquire` or
`CountResumed` (`scheduler.ts:340`), then `startTurn`, whose checkpoint precedes its
request, `Collect` (`turn_collector.ts`: subscribe and replay), `Finish` or
`TurnTimesOut`, and `Release`. An id is released with its request
(`RequestTimesOut`), and an answer still to come may meet another request under the
same id. `Fits` says which of those the caller accepts: the answer to a `turn/start`
names a turn, others do not. `turn.asked` is the number of the delivery's own request,
kept to tell that case apart.

`link` becomes `ready` with the answer to `initialize`: the notification behind it
is written in the same turn of the event loop. A client that was ready and loses its
socket is not connected again, because nobody calls `connect` a second time:
collectors wait for their timeout, and loops back off until the process ends.

### Abstractions and assumptions

On `DeliveryScheduler`:

- Messages are numbered in the order of `(created_at, message_id)`, the order of
  `queueHead`. `CreatedAt` is the millisecond: messages of different milliseconds
  are created in their order, messages of one millisecond in any order, because
  their ids are random. The wall clock does not go back.
- A lease lasts `turnTimeoutMs + retryMaximumMs`. Only two waits of a live loop can
  outlast it: the wait for a permit, which has no limit, and the collection of the
  turn, which begins after up to `turnTimeoutMs` of `turn/start` and lasts as long
  again (`OutlastsLease`). `thread/read` and `thread/resume` time out far earlier.
  A process that the operating system suspends for longer than a lease is not
  modelled.
- The permit of `#acquirePermit` is a wait of any length: the limit on concurrent
  deliveries is part of `AppServerClient`.
- Error codes that the code treats alike are one: TRANSPORT_CLOSED, APP_SERVER_EXIT,
  NOT_CONNECTED and the timeouts are REQUEST_TIMEOUT; an app-server error, an answer
  about another thread and UNSUPPORTED_THREAD_OWNER (which ends in failTerminal like
  STALE_RECIPIENT) are APP_SERVER_ERROR or STALE_RECIPIENT. The regular expression
  on the text of an error is not modelled.
- An orderly shutdown closes the transport and exits without waiting for loops: it
  is `RequestFails`, `StartUnanswered` or `AnswerLost` followed by `Crash`.
- SQLite errors other than the ones the code provokes (a busy database, a full
  disk) are not modelled.
- The app-server takes `turn/start` only while its sender waits for the answer, or
  late (`wire`), at most `MaxLate` times per message in a run; the proofs need no
  such bound. It does not lose a turn from `thread/read`. The late case is what
  "at least once" in `src/CODEX_INTER_AGENT_MESSAGING_BRIDGE.md:717` is about.

## Runs

| Run | Instance | What it shows |
|---|---|---|
| `delivery_queue` | two processes, two messages for one recipient (an ask that may expire, an asynchronous one), retry budget 1, one crash | the queue: one sender and one turn at a time per thread, FIFO across processes, the inductive invariant |
| `delivery_recovery` | two processes, one ask, retry budget 2, two generations, pauses, one crash, one late request | recovery: no avoidable duplicate, one final outcome, no edge that outlives its ask but through a death, attempts bounded, the promise kept, and nobody lets go of a message without an outcome |
| `delivery_liveness` | two processes, one asynchronous message, every way a turn can end, pauses and a replacement, one crash | every accepted message gets an outcome |
| `delivery_lost_reply` | an ask, two processes | counterexample: a loop that lost its lease puts the row of the present holder back to queued; the holder then fails a message whose turn completes with a reply |
| `delivery_expiry` | an asynchronous message | counterexample: a turn is started after the TTL has passed |
| `delivery_failed_turn` | an asynchronous message | counterexample: a message whose turn failed is recorded completed |
| `admission` | two processes of one agent that share a key for an ask and a different send to one recipient, and send it a notice without key; one process of each of two other agents; asks in a ring, queue limit 1, three messages | one message per key, every answer is to the own request, queues exceed the limit only by racing writers, asks wait in a ring only if one was inserted between the check and the insertion of another |
| `admission_cycle` | the same | counterexample: three asks checked at the same time form a ring |
| `bootstrap` | two calls, two deaths | the lock excludes, one app-server unless a named mishap happened, live owners are spared and the way to them is kept, only a death or an error of the lock file leaves a lock, calls end; the inductive invariant |
| `groups` | one group of three, two processes of its owner, a fourth agent and two spare threads, one key, three operations (calls or commands), queue limit 1 | the tables of the registry agree, one message per key, one delivery at a time, recipients are the members, a deleted group stays deleted, queues exceed the limit only by racing writers, the group promise is kept |
| `client` | three deliveries, four ids, one permit, seven requests, two events, a history of one | answers reach their own request, collectors miss nothing, permits are counted right, nobody waits for an answer without a timer or for a free permit, the watched delivery ends. The first connection is the only one: the reconnect limit is 0 in the run, and any number in the proofs |
| `bootstrap_owner` | two calls, no death | counterexample: a host that starts slowly and the one launched after it are both ready |

Bounds. Two processes are enough for every race over a lease: a third loop could
only do what the second does, and the proofs cover any number. Two messages make a
queue with a head and a follower. One crash reaches a death at every place of a
loop, the recovery by the other process or by a new one, and leaves the lease
orphaned; `UnhandledRejection` adds deaths that no bound limits. Retry budget 2
makes an attempt that is retried and one that is not. Two generations make a stale
recipient. Two processes of one agent race for a key, three messages close a ring of
three agents, and a limit of 1 is passed by the second of two racing writers: a
keyed and a keyless call of two processes count the same empty queue, and both are
inserted. The proofs about admission cover any number of each. In
`delivery_recovery` there is one message, so the order of the mailbox in
`KeepsPromise` is not tested there; `FifoOrder` tests it in `delivery_queue`, and
`PromiseKept` proves it. Two calls are a holder and a waiter, or two racing
starters, with a host each; two deaths are a call and its host, a host and its
app-server, or both hosts; each of the three mishaps leads to a second app-server in
the run, and the proofs about the bootstrap cover any number of calls and deaths.
Three operations are two commands and a call between whose statements they fall, or
two calls of one key and a command, or a call and its retries; the second member
that may be removed and the agent outside the group make a recipient that is no
member any more and one that is not yet. Four ids are one more than the deliveries
can hold, so that ids go round; a history of one event is too short as soon as two
precede an answer; with one permit and three deliveries one waits while another
overtakes it. The proofs about registry, groups and client cover any number of each.
`Ending` limits how turns end in a run, so that each run explores the endings its
properties tell apart. Symmetry is used on processes, never together with liveness.
Deadlock is not checked: all messages may be finished, all calls ended.

Fairness (`FairSpec` of `DeliveryScheduler`), used for `EveryMessageSettles` only.
Loops take their next step: Node runs ready callbacks, every request has a timeout,
and a permit is released when a delivery ends. A stopped process is started again
(`Start`): the bridge does not restart itself, but each new task of a user starts an
MCP process that schedules all unfinished messages; if nobody ever uses the bridge
again, messages stay unfinished. Clocks advance. The app-server ends its turns;
nothing is assumed of operators, senders, crashes or late requests.

Fairness of `HostBootstrap`, used for `EveryCallEnds` only: time passes, and a call
takes its next step, because every request it awaits has a timeout. `StartTimesOut`
is strongly fair: the loop around it looks at the deadline before each poll, so that
a poll in progress delays it and cannot prevent it. Nothing is assumed of hosts,
which may hang at any step, or of deaths.

Fairness of `AppServerClient`, used for `WatchedEnds` only: the continuations of a
delivery run, and the timers of its request and of its turn go off (`Proceeds`).
Nothing is assumed of the app-server, which may answer nothing, or of the
connection. One delivery is watched, because the deliveries are alike.

The safety half of `EveryMessageSettles` is proved, see `NeverLetGo` below. The
property itself rests on the TTL: a recipient that is busy for ever, or a
message that is postponed again and again, is ended by `PollExpired` only.

## Findings

1. `delivery_lost_reply`: `scheduleRetry` (`repositories.ts:523`) puts any
   dispatched row back to queued, also when the caller has lost its lease and
   another loop is delivering the message. That loop's next transition throws, and
   the ask ends as failed with DELIVERY_FAILED although its turn completes.
2. `delivery_expiry`: the TTL is compared at the head of the loop only.
3. `delivery_failed_turn`: only an ask looks at how its turn ended on the live
   path; `#reconcile` judges the same turn differently.
4. `admission_cycle`: the cycle check and the insertion of the edge are two
   transactions; asks that are checked at the same time close a ring. It lasts until
   one of the asks has an outcome, of whatever kind: it expires or fails, its
   delivery gives up, or its recipient gets to it after the synchronous wait of its
   own ask has ended. `NoRingInTurn` is what the code does guarantee: without an ask
   that was inserted between another's check and insertion there is no ring. In the
   same way `maxQueueDepth` is a limit for one writer; `QueueBounded` is the real
   bound.
5. `bootstrap_owner`: a call that has launched a host releases the lock after
   `startupTimeoutMs` (`bootstrap.ts:494`) whether or not the host is still starting,
   and the host may take as long for its app-server alone (`host.ts:148`). The next
   call launches a second host; both become ready, with an app-server each, and the
   descriptor names the later one. `OneServer` is what the code does guarantee: it
   names the three ways to a second app-server. The second way is the removal of a
   lock whose holder is alive: a record dated from the beginning of a long wait is
   stale when it is written, and `validateOwner` asks only whether a host answers,
   which is not so while one starts. The third is the death of a host between the
   start of its app-server and its descriptor.

Smaller observations, of which no run is made:

- `src/CODEX_INTER_AGENT_MESSAGING_BRIDGE.md:519` (step 18) removes the dependency edge
  "when synchronous waiting ends", also when it ends with `pending` (step 17).
  `ask` returns pending and leaves the edge (`service.ts:152-168`); only the outcome of
  the message closes it. Until then an ask back is refused with CALL_CYCLE, though
  nobody waits for it any more. The models follow the code; `EdgeClosed` speaks of
  messages that have their outcome only, where document and code agree.
- `ask` and the `ON CONFLICT` branch of `create` compare recipient and text of the record
  they find under a key, not its kind, so an ask can be answered with the record of a
  notice, which never gets a reply. `AnswerIsOwnRequest` says no more than the code
  compares.
- A process that cannot write the record of the lock it has created leaves a lock file
  that is blank, which no other call takes for stale (`bootstrap_lock.ts:90-97`, `301`,
  `308`): as long as it is there, every call that finds no
  host ends with HOST_LOCK_TIMEOUT.
  `NoLockLeft` names this end and a death as the only ways to it.
- `group add` of the owner updates the owner's row to `member`
  (`GroupMessaging!AddMember`), and `group remove` then removes it, where
  `src/docs/GROUP_MESSAGING.md:9` says "The owner cannot be removed".
- A status command of a group reads and updates in two statements, so a `resume`
  that has read before a `delete` brings the group back; `DeletedStays` names this
  exception. `setStatus` of an agent is of the same kind: `raced` and
  `RowFollowsAgent`.
- `per-recipient queue depth ... enforced atomically`
  (`src/docs/GROUP_MESSAGING.md:26`) holds for the fan-out of one message, not for
  two that are sent at the same time: the queue is counted before the transaction.
  `GroupQueueBounded` is the real bound.
- An expired delivery can be retried, although `src/docs/GROUP_MESSAGING.md:28`
  names failed and dead-letter recipients only.
- A process that lost its connection is of no use any more: nothing reconnects it,
  and collectors wait for their timeout instead of ending with the socket.
- `started.completion` is awaited after `transition(messageId, "running")`
  (`scheduler.ts:226`); if that throws, nobody awaits it, and its rejection at the
  timeout is unhandled.

## Proofs

`DeliveryProofs` proves, for every value of the constants that
`SchedulerAssumption` allows (any number of processes, agents, messages,
generations, retries, crashes and late requests), that `Spec` implies

- `TypeCorrect`: the type invariant;
- `InvariantCorrect`: the inductive invariant `DeliveryInvariant`;
- `OneSender`, `NoDuplicate`, `OneTurn`, `Fifo`: the safety properties
  `OneSenderPerThread`, `DuplicateOnlyWhenLate`, `OneTurnAtATime`, `FifoOrder`;
- `FinalOutcome`: the action property `OutcomeIsFinal`.

The argument. None of the safety properties is inductive: that a message has no
second turn depends on what a loop learnt several awaits ago. `DeliveryInvariant`
says what keeps that knowledge true. `LeaseGuards`: a loop in a wait that a lease
is sure to outlast holds the lease of its thread, so (`SoleHolder`) no other loop
is in such a wait on that thread. `Attempted`: a row never attempted has no turn,
so `Claim` may skip reconciling. `Reconciled`: from the answer of `thread/read` to
`turn/start`, while the lease is held, the message has no turn except late ones;
the permit is the one wait where the lease may be lost, and `Renew` finds out.
With it `TurnStarts` keeps `DuplicateOnlyWhenLate`. `Idle` carries the answer of
`thread/resume` in the same way and gives `OneTurnAtATime`. `Headed` with
`Registered` says that no older message of a queue comes back once it is finished,
which gives `FifoOrder`. The frame lemmas (`LoopFrame`, `LoopMoves`, `LoopRow`,
`EnvironmentFrame`, `LoopHolds`, `StopHolds`, ...) state once what the 31 actions
of a loop and the steps of the environment leave alone, so that the proof of each
part of the invariant looks only at the actions that matter to it. TLC checks
`DeliveryInvariant` in `delivery_queue`.

`AdmissionProofs` proves, for every value that `AdmissionAssumption` allows,
`AdmissionTypeCorrect` and the four safety properties of admission: `UniqueKey`,
`OwnAnswer`, `RingsNeedARace`, `QueueBound`. The first three follow from
`AdmissionInvariant`: no step but an insertion changes who wrote what to whom
(`RowsKept`), and `Checked` says what a process that has checked its ask may rely on
when it inserts it. `RingsNeedARace` (`NoRingInTurn`) is not what the check says. An
edge is inserted against other edges than it was checked against, and the ring it
may close runs through edges inserted before and after its check. An ask that is
inserted while another process stands between the two is `overlapped`; of the others
no edge has been added since the check, edges that went close fewer cycles
(`FewerEdges`), and a new edge that is in no ring itself puts no other edge into one
(`NewEdge`). `QueueBound` counts: a process that has passed the queue check takes a
place (`Places`), which its message occupies later.

`HostBootstrapProofs` proves, for any number of calls and deaths,
`BootstrapInvariantCorrect`, and from it `LockExcludes` (`OneHolder`),
`OneServerWithoutMishap` (`OneServer`), `LockReleased` (`NoLockLeft`), and the action
properties `LiveOwnerSpared` (`NoLiveOwnerEvicted`) and `OwnerStaysNamed`
(`NoOwnerErased`). That one app-server runs is not inductive: it depends on what
stands between two launches. `OneOccupant` says it: without mishaps at most one host
is on its way up, ready, on its way down, or gone with its app-server left behind;
while it rises the lock is its launcher's, also if the launcher is dead, and
afterwards the descriptor names it until its app-server is gone. So a call that
holds the lock (`LockHeld`) and has ended what the descriptor named launches into an
empty place. `RecoversDead` says that a call recovers dead hosts only, which stay
dead, and gives `NoLiveOwnerEvicted`. `NoLockLeft` has two parts: that the lock file is that
of a call which holds it, died or failed at it (`LockOwned`), and that a file without
a record is that of a call which is about to write it, died or failed (`BlankOwned`), also
if other calls have unlinked and created the file since. `NoOwnerErased` counts a private
name as a name: if a call dies between the rename and the link back, the descriptor of
a ready host stays under that name, where no probe looks. TLC checks
`BootstrapInvariant` in `bootstrap`.

`DeliveryOutcomeProofs` proves three more properties of delivery from
`DeliveryInvariant`. `CompletedByItsTurn` (`CompletedByATurn`): a loop that is about
to complete a message has the turn that ended in its hands, and turns neither go nor
change their end. `EdgeEndsWithItsAsk` (`EdgeClosed`): every step that ends
a row leaves its loop at `CloseDependency`, and only a death takes a loop from there.
`AttemptsAreBounded` (`AttemptsBounded`) counts: `Spare` is what the budget of a
message leaves, a loop past `StartAttempt` has used one attempt up (`BudgetOK`), and
only a death puts a message back without the look at the budget (`LastAttempt`).

`NeverLetGo` there is the action property `TendedUntilDeath`: a message that is
accepted or recovered has a loop on a running process that goes on with it until it
has its outcome, unless a process dies. A loop may disturb another only by putting
its row back, and then stays with the message itself (`LoopStays`); and a loop that
leaves does so over a finished row (`LeavingOK`). It holds also for messages whose
lease is lost, whose recipient is replaced, or that wait behind others.

`DeliveryRefinementProofs` proves `PromiseKept`: `Spec` implies
`DeliveryPromise` under the mapping of `DeliveryProperties` (`KeepsPromise`), with
one lemma for each step of the promise. `Submit` is `Accept`; `TurnStarts` is
`Deliver`, and it is the step that needs the whole invariant, because the promise
lets a message be delivered only once in its turn of the mailbox (`PromiseTurn` from
`Headed`, a first copy from `Reconciled`); `LateTurnStarts` is `DeliverLate`; the steps
that write a final status are `Conclude`, which needs `CompletedByATurn`; all others
stutter (`PromiseStutters`).

`SchedulerKeepsRows` there, `AdmissionKeepsRows` in `AdmissionProofs` and
`GroupsKeepRows` in `GroupMessagingProofs` prove the three sides of `MessageRows`, for
every value of the constants of each. The scheduler needs its invariant for it: that a
row which is put back or finished again was not finished before depends on the
condition of each update, and that an edge is closed behind the outcome on
`EdgeClosed`. The three properties `KeepsRows` are stated as theorems only.

`AgentRegistryProofs` and `GroupMessagingProofs` prove, for any number of agents,
threads, commands, groups and processes, `RegistryTypeCorrect`, `TablesAgree`
(`GenerationsAgree`) and `StatusAgrees` (`RowFollowsAgent`), for the registry alone
and in the composition (`GroupTablesAgree`, `GroupStatusAgrees`); and of groups
`GroupsTypeCorrect`, `OneGroupMessage`, `NeverRedelivered` (`DeliveredOnce`),
`GroupQueues` (`GroupQueueBounded`), `SentToItsMembers` and `DeletedForGood`. The
invariants say what of a command's or a call's reading is still true when it writes:
a command that is not out of date has read the present generation, a call that is
not `stale` carries the members of an active group, and a retry looks at the last
delivery in the transaction that adds the next. `GroupQueues` counts places as
`QueueBound` does. `GroupPromiseKept` is the refinement of `GroupPromise`: `Create` is
`Accept`, `RetryDeliveries` is `Again`, `Settle` is `Decide`, all else stutters. It
needs of the invariant that only the last delivery of a recipient can be unfinished
(`DeliveredOnce`), so that an outcome decides the recipient, and beside it that a call
has counted its recipients before it inserts (`FanoutLimited`).

`AppServerClientProofs` proves, for any number of deliveries, ids and permits, the
client's invariant (`ClientInvariantCorrect`), `PermitsCorrect` (`PermitsBounded`)
and `CollectorsMissNothing` (`NothingMissed`). The second is the count of the
deliveries past `Acquire`, and of those resumed and not counted yet. The third
says what the history holds: the last `HistoryLimit` events, without gaps
in their numbers, so that between a checkpoint that is not older and the present
none is missing.

From a second invariant, `RequestInvariantCorrect`, come `AnswersAreOwn`
(`AnswerIsOwn`) and `ClientTypeCorrect` (`ClientTypeOK`). That an answer which comes
late meets its own request, or none, unless nearly as many requests were made since as
there are ids, is an argument about a circle: an id released with its request is given
out again only when the allocator comes round, past all ids that are free. `RoundOK`
makes it inductive. For each answer still to come it adds the requests made since its
own and the free ids between the allocator and its id (`FreeBefore`); the sum never
falls below the number of ids less one for each delivery, because a step of the
allocator trades one of the second for one of the first, and a release can only add
ids. `HandshakeOK` says the same of a connection that is being made, where there is
one request only; `RoomOK` that the bound on requests is not what ends a run.
`NobodyIsStranded` (`NobodyStranded`) needs two parts: every call in progress has its
entry among `pending`, whose timer ends it (`TimersOK`), and who waits for a permit is
in the queue while all permits are held or meant for a waiter being resumed
(`QueueOK`). It is the safety half of `WatchedEnds`.

All safety invariants and action properties of the passing runs are proved, and the
refinements. Model-checked only: liveness (`EveryMessageSettles`, `EveryCallEnds`,
`WatchedEnds`), which is out of the prover's reach because it needs ENABLED and
fairness; of two of the three the safety half is proved. The counterexamples of the
runs that expect one are TLC's.

## Plan

All subsystems of the plan are modelled. What is left is smaller:

1. The client side of stopping a host, and the incompatible and corrupt descriptors,
   in `HostBootstrap`.
2. Shutdown with active deliveries (`control.ts:214`), as a composition of
   `HostBootstrap` with `DeliveryScheduler`.
3. Inbox and acknowledgement, as marks on finished rows.

## Not modelled

- Argument parsing, printing and the installer around the admin service, the
  configuration and the log, the text of envelopes, the schema migrations and the
  backup: they are input, output or formatting.
- `json_line_decoder.ts`, which nothing in the bridge calls.
- Access control lists: a table that admission looks a pair of agents up in.
- Inbox and acknowledgement: they read and mark finished rows, and no other
  operation looks at the mark.
- The registrations of clients in `control.ts`: they are counted and reported, and
  shutdown looks at the active deliveries and the nonce instead.
- Requests of the app-server to the client, which are declined at once, malformed
  frames, and abort signals, which the bridge does not pass.
- Everything outside `src/src/`: some 1400 files of type declarations generated from
  the app-server's schema, which hold no behaviour, the experiments of
  `spikes/`, scripts and tests. They are most of the repository's lines, so the
  modelled part of it is small, though it covers the subsystems that keep state.
