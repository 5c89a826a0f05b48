# Verification of the agent harness

TLA+ models of the core of CoHarness: the path that makes a session's events
durable, the driver that runs an agent's turns, the scheduler that runs the
tool calls of a step, the registry of background jobs, and, in the Gateway, the
admission of model calls on a node and the delivery of access revocations. The
modules are checked with TLC; the safety of all of them is also proved with
TLAPS, for every value of the constants. `PROJECT.json` maps each definition to
the lines it models.

## The system

An **agent** owns a **session**: an append-only log of events. Everything the
agent does is an event, and the model's context is a fold of the log.

| Component (source) | State | Operations | Hard behaviour | What makes it correct |
| --- | --- | --- | --- | --- |
| Write-behind (`session-persistence/write-behind.ts`) | queue, batch being written, deadline timer, barrier, paused flag | enqueue, deadline, write, catch, flush | deadline, barrier and failed write interleave; capacity | nothing lost or reordered, a resolved flush is durable, one writer, no stranded event |
| Coordinator (`session-persistence/coordinator.ts`) | per session: cursor, deferred draft prefix, init promise, lifecycle | adopt, append, flush, retire, load, migrate | flush while initialising, retirement after failure, id collisions | a session is released only when durable; one live owner per id |
| Backends (Gateway, SQLite, JSONL) | log rows, batch ids, lease, generation files | append, load, publish | a timed-out request that is executed later; torn tail | the log is an ordered prefix of the session |
| Checkpoint policy (`session-checkpoint-policy`) | none | flush before step, request, tool body | crash between log and effect; cancel during the flush | what the outside saw survives a crash |
| Agent driver (`agent-loop/agent.ts`) | phase, abort controller, latched wake, pending wakes | send, steer, inject, cancel, maintenance, whenIdle, turn, step | input that races the end of a turn, an abort or disposal; observers that call back | one activity, no lost wake, kept input stays parked |
| Inbox (`agent-loop/inbox.ts`) | next-turn and next-step queues | insert, remove, clear, claim | claims against removal | one prompt per turn |
| Lifecycle (`agent-loop/index.ts`) | registries, scope, teardown | create, resume, dispose | teardown while running | a detached agent never runs |
| Tool scheduler (`agent-loop/tool-calls.ts`) | group, slots, in-flight pool | start, race, commit, abort, drain | settlement order, modes that change, failure of one of many | exclusive calls alone, model order, nothing left running |
| Tool runtime (`tools/index.ts`) | registrations; per call: caller signal, body invoked | prepare, dispatch, finalize | cancellation between stages | result codes say whether the body ran |
| Turn repair (`session/repair.ts`) | fold: open turn, open step, pending calls | observe, results, closers | any prefix of a turn | every request answered once, boundaries nest |
| Session store, registry, scopes (`core/session`, `core/agent`, `core/scope`) | log, admissions, layers | append with admission and rollback, enter, dispose | reentrant observers | a refused append leaves no trace |
| Local jobs (`jobs-local/index.ts`, `pump.ts`, `ring.ts`) | records, output rings, waiters, starts under way, holds | start, append, pump, read, wait, kill, settle, remove, dispose | settlement against pump, kill and teardown; starters that start jobs; trims behind a reader | one outcome, no output lost in silence, teardown returns and leaves nothing |
| Other services around the loop (approvals, questions, schedules, subagents, goals, retry, compaction) | pending requests, timers, leases | ask/answer, claim, continue | timeout against answer, restart, wake of a parent | one settlement each, none forgotten |
| Node resource budget (`gateway/node-resource-budget.ts`, migration 105) | SQL rows: owners, counters, requests with turns, credits | request, status, finish, observe, stop, Runtime start | turns that move with every grant, expiry inside any transaction, credits | users and projects take turns; limits; nothing overdue granted |
| Gateway model budget (`gateway/gateway-model-budget.ts`) | lock file, registration chain, counter, pending and unfinished tasks | open, run, withOwnership, close | crash and recovery by another process, lost acknowledgements, close against running callbacks | work in use stays accounted, every row is removed by somebody |
| Access monitor and leases (`gateway/access-invalidation.ts`, `proxy.ts`, `stream-principal-leases.ts`) | cursor, connection, read under way, callers; per socket: stage, reference, lease | synchronize, read, notify, acknowledge; upgrade, renew, expire | a revocation that commits between a check and its use; lost connection; failing listener | no stream outlives an applied revocation; every revoked stream closes |
| Gateway nodes and administration | process handles, HTTP | supervise, serve | remote channels | |

How they interact: the driver appends events; `session/event` observers run
synchronously inside the append, and write-behind is one of them. The driver
awaits `session/flush` only through the checkpoint policy, which wraps the model
stream, the tool body and the pre-step waterfall. The scheduler drives the tool
runtime's stages; results go back into the log and context into the inbox. After
a crash the coordinator loads what the backend kept and appends the closers of
`repair.ts`. Tools start jobs in the registry, which the disposal of their owner
tears down. A Gateway process asks the node's budget before each model call, and
the proxy asks the access monitor before it admits a stream. Node runs one job at a time, so two steps interleave only at an
await, a timer, or a synchronous callback.

## Modules

| Module | Models | Extends / instances |
| --- | --- | --- |
| `SessionWriteBehind` | write-behind, the coordinator's write path, the SQLite and Gateway stores | instances `DurableLog` |
| `DurableLog` | abstract promise: the log is a prefix, and a flush answers ok only when its events are in it | |
| `SessionWriteBehindProofs` | inductive invariant, safety theorems, refinement of `DurableLog`, no stranded event | `SessionWriteBehind`, `TLAPS` |
| `AgentDriver` | one agent, its inbox and its teardown | |
| `AgentDriverProofs` | theorems | `AgentDriver`, `TLAPS` |
| `TurnRepair` | `repair.ts` as operators | |
| `ToolStep` | steps of a turn: scheduler, tool runtime, checkpoints, live recovery, crash and repair | `TurnRepair` |
| `ToolStepProofs` | lemmas on what the fold and the closers do to a well-formed log, theorems | `ToolStep`, `TLAPS` |
| `LocalJobs` | the job registry, its ring and its pump | |
| `LocalJobsProofs` | theorems | `LocalJobs`, `TLAPS` |
| `NodeResourceBudget` | the budget's transactions as operators on the rows | |
| `NodeResourceBudgetProofs` | lemmas: what each transaction changes and leaves alone | `NodeResourceBudget`, `TLAPS` |
| `NodeQueue` | those transactions in every order | `NodeResourceBudget` |
| `NodeQueueProofs` | theorems | `NodeQueue`, `NodeResourceBudgetProofs` |
| `GatewayModelBudget` | the processes that call them | `NodeResourceBudget` |
| `GatewayModelBudgetProofs` | theorems | `GatewayModelBudget`, `NodeResourceBudgetProofs` |
| `AccessMonitor` | revocation delivery, admission and leases in one process | |
| `AccessMonitorProofs` | theorems | `AccessMonitor`, `TLAPS` |
| `MCSessionWriteBehind`, `MCAgentDriver`, `MCLocalJobs`, `MCNodeQueue`, `MCModelBudget` | caller sets, symmetry, instances | |

A definition whose name ends in `M`, or whose comment begins "Mutant of", is a
plausible bug in the definition it names. No specification uses it; each property is known to
fail when its mutant takes the definition's place.

### SessionWriteBehind

An event is its sequence number. One action is one synchronous stretch of code.
A write goes through the stages `queued` (the batch is spliced), `writing` (with
the backend), `resolved` or `rejected`, `caught` (the batch is back in front of
the queue) and `none`; a barrier and each flush caller have stages too, because
their continuations run in jobs of their own. A timer is a macrotask and fires
only when no continuation is queued (`Quiet`). The store is a sequence. With
`Gateway = TRUE` a request can time out and be executed later (`stray`), and the
batch's events are its idempotency key, as in the code, where the key is their
hash. A draft session may keep events in memory until one is worth storing
(`Materializing`).

### AgentDriver

A message is a model value, sent at most once. The driver's `pc` names the
awaits and emissions of `kick`, `turn` and `preStep`. Observers may call any
operation of the agent, so operations come between any two actions. Two
stretches run to their end before any other job and are guarded: the rest of a
send (`sending`) and of a driver's exit (`epilogue`). `Reentrant` says in which
windows observers call back: at `turn/end`, *inside* a waking send, at the idle
status that `kick` publishes with a latched wake in hand, and between the two
splices of a claim (`Claim` makes the first, `ClaimEnds` the second). `Rewrites`
lets a pre-step listener empty a claimed batch. All are legal uses of the
extension points. The end of maintenance emits nothing, because maintenance
already shows as idle (`agent.ts:154-156`), so it is one action with the replay.
Observers of the splices of `inbox.clear` call nothing back. Sends after disposal
are excluded: the code calls them the sender's bug. Disposal, cancel (keeping or
clearing the inbox), maintenance and one `whenIdle` waiter are included. `claimed`,
`owed`, `parked` and `prompts` are history; only a new waking call clears `parked`,
never the replay of an old wake.

### TurnRepair and ToolStep

An event is a record of type, call and note. The log is modelled as it is,
since the properties are about its order. Calls are numbered in model order;
counters count from the step's first call, so a group's `nextToStart` and
`started` of the code are one variable (they differ only while a throw is under
way). `flushing` holds calls in the checkpoint before their body, `running`
those whose body was invoked. `durable` is the length a flush has guaranteed;
a crash keeps at least that much of the log and perhaps more, since write-behind
also writes on its own. That the kept part is a prefix, and that a resolved
flush covers what was logged before, are theorems of `SessionWriteBehind`
(`LogInOrder`, `FlushDurable`). `ToolStep` models the shipped composition, in
which the checkpoint policy is mounted.

### LocalJobs

Output is counted in bytes. A ring is the sequence of the offsets at which its
chunks start, so trimming whole chunks and cutting the last one are as in
`ring.ts`. A starter runs synchronously and may start further jobs: the calls on
the stack are a sequence, and only the innermost acts until the stack is empty
(`Idle`). The producer is the environment: it writes, reports or rejects. The
continuation of its promise is one action, enabled after the pump's last drain
(`DoneIsHeard`). Teardown is two actions around its await, and remembers the jobs
it took. `given` and `missed` count what the model was handed or told it lost.

### NodeResourceBudget, NodeQueue and GatewayModelBudget

Every method of `node-resource-budget.ts` is one transaction that locks the
node's row first, so it is an operator from rows to rows; a refused transaction
returns the rows it was given. The loop of `schedule_node_resources` is a recursive
function over its rounds (`Round`): one grants the first request, or finds that
its deadline has passed since the lock was taken, deletes what is overdue and goes
on. A deadline passes between two transactions (`overdue`) or during the next one
(`late`); there it passes right after the lock, which for the request itself is
the same as any later moment before the loop reaches it. Credits that expire while
the loop runs, or a node that becomes unavailable, are fewer credits from the
start (`SampleExpires`). The requests are those of Gateway processes
(`runtime_kind` gateway): the deletion of requests of stale instances and the
re-check of an instance before a grant concern the other kinds only. `NodeQueue`
calls the operators in any order, for the
properties of the queue. `GatewayModelBudget` is the caller: one action is the
code between two awaits, a database call may answer, fail, or commit and lose
the answer (`Throw`), and a process may crash anywhere, which frees its kernel
lock and leaves its file. When the queue is empty the turn counter and the grant
history restart; turns only order requests that are queued.

### AccessMonitor

PostgreSQL's revisions are a sequence of the sockets they name. `flight` is the
stage of the one read under way; callers wait for this read or, if they came
during it, for the next. A socket's stage counts the reads its admission has
asked for. `read`, `late` and `held` remember from which revision on an
authority was out of date: they are history, and the code decides without them.

## Runs

| Run | Shows |
| --- | --- |
| `write_behind_sqlite` | two flush callers, timer, failing writes, draft, seed and retirement: durable flush, no stranded event, durable release; queued events are written or a failure is reported, and every flush settles |
| `write_behind_gateway` | timeouts and late execution: the inductive invariant (order, conservation, bound, one writer), refinement of `DurableLog` |
| `write_behind_retry` | *violation*: a retry after a lost reply is refused |
| `agent_driver` | two messages: one activity, no lost wake, parked input, one prompt per turn, quiet detach; teardown completes or waits for a turn that nothing aborts, and steering is claimed |
| `agent_idle_cancel` | *violation*: input kept by a cancel is replayed |
| `agent_latched_wake` | *violation*: a latched wake is lost |
| `tool_scheduler` | three calls, pool of two: bound, exclusivity, order, nothing orphaned, and the step ends |
| `tool_crash_repair` | two steps, crash anywhere: requests answered once, balanced log, true codes, shown results survive |
| `local_jobs` | a pulled and a pushing job of one owner: output accounted for, ring bounds, limit with nested starters, holds, one outcome, settlement after the last drain, no stranded waiter; teardown leaves nothing and returns |
| `model_budget` | two processes, two callbacks, a crash and a lost answer: accounting, recovery, contiguous counter, close settles |
| `node_queue` | four requests of two users and two projects: fairness, limits, no grant of a request that is overdue by then, no credit left idle |
| `access_monitor` | an event stream and a plain one, two access changes: nothing admitted on stale authority, nothing open after an applied revocation, references balanced, expired leases never renewed; reads settle and revoked streams close |

**Bounds.** Four events with a queue of two reach refusal, a retry with newer
events behind it, a follow-up batch, and a draft that defers and then
materializes; two callers let one join the other's barrier. Two messages let
one be in the running turn, or kept by a cancel, when the other is sent. Three
calls with a pool of two make a pool that is full, refilled and drained by a
barrier; two steps let a crash fall after results that a request carried. Two
jobs under a limit of one make the second start inside or after the first; four
bytes in chunks of two, with caps of three and one, make a ring that drops a
chunk, cuts one, and is trimmed again at settlement and by the last read. Two
processes suffice for a recovery that meets a closing owner, two callbacks for a
chain, one fault and one crash for each uncertain answer and its recovery
together. Four requests let each user or project wait behind two of another,
two credits let one transaction grant twice, or expire a request and grant the
next, and two registrations of each process let an operation come back. Two revisions let one fall in
each window of an admission, one drop makes a reconnect, one failure a
cancellation that stays failed. The revisions name the event stream only; what a
revision that names a plain socket does during its admission is left to the
theorems, which hold for any. One agent, one session and one turn are enough because the components share nothing
across them but the stores, whose order is per session.

**Deadlock** is not checked: each system may come to rest (a released session, a
detached agent, a repaired log).

**Fairness.** Node runs queued jobs and expired timers, so their actions are
weakly fair. Backend calls, model requests, checkpoints, tool bodies and
maintenance are assumed to settle: the code awaits them without a deadline of
its own (the Gateway's requests have one) and waits for signal-ignoring work on
purpose. Nothing is assumed of callers, cancellation, crashes or late requests.
In `LocalJobs` a starter returns or throws, timers and continuations run, and a
producer that was cancelled reports in the end: its contract, on which the code
waits without a deadline. In `GatewayModelBudget` callbacks and administrative
work settle and queue deadlines pass; its fairness is stated over the variables
a task's step always changes (`OpMoves`, `CloseMoves`), which is the same
condition with fewer successors to compute. In `AccessMonitor` queries answer or
fail, listeners settle, and the poll timer keeps firing; nothing is assumed of
notifications or of sockets.

## What is proved

`SessionWriteBehindProofs` proves, for every queue limit, number of callers,
events and timed-out requests, either store and any seed and draft rule:
`Inductive`, `TypeCorrect`, `NothingLost`, `LogInOrder`, `FlushDurable`,
`Bounded`, `ReleaseDurable` and `SingleWriter`. The only assumption is
`WriteBehindAssumption` on the constants.

The properties are not inductive alone. A flush resolves when queue and write
are empty; that this means *durable* needs `Conservation`: the cursor, the
deferred prefix, the batch and the queue are consecutive runs of sequence
numbers that end at `accepted`. That runs stay consecutive needs to know where
the batch is at each stage (`WriteInv`), that a barrier awaits exactly one write
(`BarrierInv`), that only a draft that is not materialized defers (`DraftInv`),
and that late requests carry runs of accepted events, so that the store, which
accepts only its next sequence number, never takes a gap (`RemoteInv`).
`AdmissionInv` links a refused event to the flag that fails later flushes and
`RetireInv` freezes a session after its last drain. `IndInv` is their
conjunction, checked by TLC in `write_behind_gateway` and proved with one lemma
per action over lemmas on runs (`AppendRun`, `ApplyRun`, `DurableRun`, `SeedRun`).

`Refinement` says more: with the store as its log and the
settled callers as its answers, every step of the write path is a step of
`DurableLog` or a stutter. An emission and a call map to themselves; that the
store only grows, and never past what was accepted, makes a write a step of the
abstract log; and that a caller is answered ok only on what is stored is
`FlushIsDurable`, after the step. `NobodyStranded` needs one more invariant,
`StrandInv`, about what a write or a barrier leaves when it ends: a write without a
barrier is the timer's and continues the automatic path, a failed one pauses it,
and what is queued behind a running write has a deadline of its own.

`AgentDriverProofs` proves, for any set of messages and any reentrant observers:
`Consistency` and `Detached`; `Parking` when no observer cancels at `turn/end`, at
the idle status behind a latched wake or inside a claim, and `WakesKept` when no
listener rewrites a claimed batch. The hypotheses exclude exactly the cases in
which the code fails: each of the three windows of `Parking` has a
counterexample, of which one is finding 3 and two are observations below, and the
other hypothesis is finding 2. `IInv` adds what the properties need: only a first
step takes a prompt (`PromptInv`), nothing is under way once a teardown has its
answer (`QuietInv`), a message is queued in one place and no more once claimed
(`InboxInv`), and wakes are owed to queued input of a live agent (`OwedInv`).
`ParkInv` says that beside parked input no wake is latched or in the driver's hand
and no driver is about to claim, `PendingInv` that a wake pending then is that of a
send under way. `WakeInv` says, for each place where the driver can be, who holds the
owed wake: the latch, the pending wakes, or a turn that will still look.

`LocalJobsProofs` proves, for any finite set of jobs and any owners, waits, caps,
limits and write sizes (`JobsAssumption`): `RegistryInvariant`,
`OutputIsAccounted`, `SettlementCutsNothing`, `LimitIsKept` and
`TeardownIsComplete`. That a read skips and repeats nothing needs to know where
the model's cursor can be: `RingInv` says at the end, before the ring, or at the
start of a chunk, and the lemmas `TrimRing`, `AppendRing` and `ReadFromBytes` show
that trimming and appending keep it there. That a job settles with all its output
needs `SettleInv`: a pump that is done has copied everything and no more can come.
That settlement spares unread bytes is `TrimSpares`. The limit is an induction of
its own: `CountCoversLive` shows that `activeJobCount` counts every live job, the
nested starts by a surjection from the stack. `JobsInv` is checked by TLC in
`local_jobs` and proved with one lemma per action.

`ToolStepProofs` proves, for any number of calls, steps and crashes, any pool and
any mixture of modes: `SchedulerSafety`, `ExclusiveRunsAlone`, `ModelOrder`,
`CallsAnswered`, `TurnBalanced`, `TruthfulCodes`, `ShownSurvive` and, for the
checkpoint itself, `DurableKept`. `Inv` has three layers. `PoolInv` ties the slots
to the pool: what is in flight is started and not committed, a group that is
exclusive has one member, a crash leaves nothing in flight. `RecordInv` ties them
to the log: the results committed are those written, in the order of the calls,
and the log is `Good`. `PastInv` is about what was seen from outside. The log needs
the lemmas at the head of the module: `Good` says that every prefix is `Formed`, that is, the fold over it
knows exactly the requests without an answer, the open turn and the open step.
The fold is recursive over the log, so these lemmas argue by a least prefix that
is not formed (`Least`, from the well-foundedness of the naturals): `FormedStep`
shows that no next event can break it. `ClosedGood` and `PairsGood` then say that
the closers of any prefix, and the results of a drained pool, balance the log.
A crash may keep any prefix, and every prefix of a good log is good.

`AccessMonitorProofs` proves, for any sockets, kinds of socket and number of
revisions, drops and failures: `AppliedCloses`, `AdmittedCurrent`, `Guarded` and the
action property `LeasesLive`. The argument is about the *first* revision after a
socket's authority was read that names it. `Authority` says that this revision is
beyond the cursor, and beyond a read whose listeners have been called: a read
that takes it in destroys the socket before the cursor passes it, and whoever
asked for a read during another one waits for the next. `CursorInv` keeps cursor
and read within the log, `KnownInv` says that no socket got past its first read
before there was a cursor, `ConnInv` that none did without a connection; the rest
are references (`RefsBalanced`) and leases (`LeaseInv`).

`NodeResourceBudgetProofs` holds what the two theorem modules of the budget share:
lemmas that describe each transaction by its effect. `Scheduled` says that a
transaction may drop what is overdue and grant what is queued, and changes no
other row; `Spares` names the rows it is sure to leave. `schedule_node_resources`
is a recursive function over the rounds of its loop, so these lemmas too argue by
a least counterexample (`RoundsStep`). `Held` follows a request that is overdue:
whatever a round does, it is deleted or still waits as overdue.

`GatewayModelBudgetProofs` proves, for any processes and callbacks and any number
of faults and crashes (`BudgetAssumption`, `ModelBudgetAssumption`):
`CallbacksAccounted`, `RowsHaveOwners`, `OwnersRecoverable` and `CounterHasNoGap`.
That recovery takes nothing in use rests on `LockInv`: a process holds its own
lock, alone, as long as it is registered and lives, and has its file before its
row. `CloseInv` and `TaskInv` tie a task to a registered process that has not
joined its tasks; `RowInv` then gives every row its owner, and `ActiveInv` says
that whoever was told *active* still is. The counter is the harder half.
`ChainInv` lets one registration of a process at a time have a call under way;
after an answer that is lost, the fence settles what the database knows before the
next one counts, so that `CounterInv` keeps the process at most one ahead of the
database, and `NumberInv` gives each task a number of its own below the counter.
Both parts are kept by every action and by every effect a transaction can have
while its answer is lost.

`NodeQueueProofs` proves, for any requests, users, projects, limits and credits:
`TurnsAreFair` and the action property `NothingStaleGranted`. Fairness is about
the past (who was granted while a request waited), the code's turns about the
future. `UsersFair` and `ProjectsFair` join them: if a user was granted while *n*
waited, then whatever this user has queued is *behind* `n`, and stays there
until `n`'s own user moves on. `Ordered` adds that the requests of one user share a
turn, which no counter has passed. `JoinedTurns` shows that who joins later
inherits the turn and jumps no queue, `GrantedTurns` that the request with the
least turn, once granted, sends its user behind all others. `Within` states the
limits; a request that skips their check does so because it is granted at once.
Each transaction is then `Sound`: it keeps the turns and the limits, and it is
`Fresh`: what was overdue when it took its lock is gone, and what became overdue
under it is gone or still waits, never granted.

Only model-checked: liveness (`CloseSettles`, `StepSettles` and the other
leads-to properties), since it needs fairness and `ENABLED`, the action property
`NoIdleCredit`, and the three violations. Every other property of a passing run is
the statement of a theorem, two of the driver's under the hypotheses given above.

## Findings

1. **A retry after a lost reply is refused** (`write_behind_retry`). The Gateway
   backend promises that deduplication makes a retry idempotent. The key is a hash
   of the batch, but the retried batch also holds the events queued meanwhile, so
   its key is new and its first sequence number is taken. The cursor is never read
   again: the live session cannot be flushed any more.
2. **A latched wake can be lost** (`agent_latched_wake`): the replacement turn
   claims older, kept input first; if a listener rewrites it to nothing, the
   newer message stays parked.
3. **Kept input is replayed** (`agent_idle_cancel`). `cancel` promises that kept
   input parks until the next waking send and that no accepted wake becomes an
   automatic replay. `kick` reads the latched wake into a local, then publishes
   idle. An observer of that status that cancels and keeps the inbox finds nothing
   to withdraw, and the wake is replayed from the local (`agent.ts:319-321`).

Observations read off the models, without a run of their own:

- The same promise fails in two more windows: for an observer of `turn/end`,
  because the driver replaces the aborted controller unseen (`agent.ts:454`), and
  for one of the first splice of a claim, whose second splice takes the kept
  message all the same (`inbox.ts:155-156`). `CancelParks` is violated with each
  of them allowed.
- A turn that hit max-tokens and was continued by steering ends after a later tool
  step with the results unsent (`agent.ts:405`), as does one whose tool result
  concludes the turn, which is meant (`agent.ts:628`).
- Disposal by an observer inside a waking send, or at an idle status behind a
  latched wake, can be followed by a turn that nothing aborts, and teardown waits
  for its model call (`agent.ts:199`, against the comment at `agent.ts:264`);
  `DisposeSettles` states the exception.
- `open` of the model budget fails when the owner it reclaims unlinks its own file
  at the same time: it had retired and freed the lock, but not yet the file
  (`UnlinkReclaimed`). A later open succeeds.
- A `kill` during a teardown replaces the cause `teardown` by `kill`
  (`Kill` after `Dispose`), and two overlapping teardowns, or a teardown and a
  `remove`, can both report a job as removed.

## Plan

Done: the durability path, the driver, the tool step, local jobs, access
revocation and the node's model budget, with their theorems.

Next modules, most important first:

1. `SessionIdentity`: the coordinator's create, load, publish and fork against a
   live owner of the same id, and the JSONL lease. Properties: one live owner, no
   repair written under a live session.
2. `SessionStore`: append admission with rollback and reentrance. Property: a
   refused append leaves no trace in log, feed or reservations.
3. `PendingInteraction` (approvals, questions): one settlement per request
   against timeout, abort and disposal.
4. `ModelRetry` and `GoalRounds`: bounded retries, one continuation per idle.
5. `SubagentContinuation`: run lease and wake of the parent, over an abstract
   agent that `AgentDriver` is shown to implement.
6. `AgentLifecycle`: creation and resumption with rollback at each step.
7. `JsonlGeneration`: generation switch and torn tail across a crash.

Next theorems: those of the next modules; and `ToolStep`'s use of the log (a kept
prefix, a flush that covers what was logged) as a refinement over `DurableLog`,
in place of the appeal to `SessionWriteBehind`'s theorems.

## Not modelled

Data without control is abstracted: prompts, results, tokens, schemas, stored
formats and their migrations. User interfaces, SDKs, adapters, native code and
HTTP handlers are I/O. They are most of the repository: user interfaces, generated
catalogs and declarations, parsers and adapters keep no state that two actors
share, and a model of them would repeat the code.

Left out of the modelled components: of the node budget, requests of Runtimes, queue bytes,
nested capacity, the exempt project 0, the replay of Runtime registrations and the
reporting queries; of the access monitor, shutdown, HTTP requests through the
proxy and the other listeners; of local jobs, the event hub with its listeners,
progress lines, controllers, the access fence, UTF-8 cuts, sources that lose
output themselves, jobs without an owner, and a disposal called from inside a
starter. `PROJECT.json` lists every component with its reason.
